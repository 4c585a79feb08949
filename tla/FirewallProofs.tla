--------------------------- MODULE FirewallProofs ---------------------------
(***************************************************************************)
(* For every number of nodes up to the range of short ids, and any rules:  *)
(* the rule store keeps its type and its two maps in step, no two nodes    *)
(* share a short id, and the store implements the table of FirewallTable:  *)
(* its decisions, its dump and its steps are those of the table.           *)
(***************************************************************************)
EXTENDS Firewall, FiniteSetTheorems, TLAPS

\* A key is in a list of keys.
Listed(k, s) == \E i \in 1 .. Len(s) : s[i] = k

\* AddRule's append of a key that is not in the list.
LEMMA AppendListed ==
    ASSUME NEW S, NEW s \in Seq(S), NEW e \in S, IsInjective(s), ~ Listed(e, s)
    PROVE  /\ Append(s, e) \in Seq(S)
           /\ IsInjective(Append(s, e))
           /\ \A k \in S : Listed(k, Append(s, e)) <=> (Listed(k, s) \/ k = e)
<1>1. /\ Append(s, e) \in Seq(S) /\ Len(Append(s, e)) = Len(s) + 1
      /\ Append(s, e)[Len(s) + 1] = e
      /\ \A i \in 1 .. Len(s) : Append(s, e)[i] = s[i]
  OBVIOUS
<1>2. IsInjective(Append(s, e))
  BY <1>1 DEF IsInjective, Listed
<1>3. ASSUME NEW k \in S PROVE Listed(k, Append(s, e)) <=> (Listed(k, s) \/ k = e)
  BY <1>1 DEF Listed
<1> QED
  BY <1>1, <1>2, <1>3

\* RemoveRule's removal of a key from the list.
LEMMA RemoveListed ==
    ASSUME NEW S, NEW s \in Seq(S), NEW e \in S, IsInjective(s), Listed(e, s)
    PROVE  /\ RemoveFirst(s, e) \in Seq(S)
           /\ IsInjective(RemoveFirst(s, e))
           /\ \A k \in S : Listed(k, RemoveFirst(s, e)) <=> (Listed(k, s) /\ k # e)
<1>1. PICK i \in 1 .. Len(s) : s[i] = e
  BY DEF Listed
<1>2. {j \in 1 .. Len(s) : s[j] = e} = {i}
  BY <1>1 DEF IsInjective
<1>3. Min({i}) = i
  BY DEF Min
<1>4. RemoveFirst(s, e) = RemoveAt(s, i)
  BY <1>1, <1>2, <1>3 DEF RemoveFirst, SelectInSeq
<1> DEFINE r == RemoveAt(s, i)
<1>5. /\ r \in Seq(S) /\ Len(r) = Len(s) - 1
      /\ \A j \in 1 .. Len(s) - 1 : r[j] = IF j < i THEN s[j] ELSE s[j + 1]
  <2> DEFINE front == SubSeq(s, 1, i - 1)
             back == SubSeq(s, i + 1, Len(s))
  <2>1. /\ front \in Seq(S) /\ Len(front) = i - 1
        /\ \A j \in 1 .. i - 1 : front[j] = s[j]
    BY <1>1
  <2>2. /\ back \in Seq(S) /\ Len(back) = Len(s) - i
        /\ \A j \in 1 .. Len(s) - i : back[j] = s[j + i]
    BY <1>1
  <2>3. r = front \o back
    BY DEF RemoveAt
  <2> HIDE DEF front, back, r
  <2>4. r \in Seq(S) /\ Len(r) = Len(s) - 1
    BY <2>1, <2>2, <2>3, <1>1
  <2>5. ASSUME NEW j \in 1 .. Len(s) - 1 PROVE r[j] = IF j < i THEN s[j] ELSE s[j + 1]
    <3>1. CASE j < i
      BY <3>1, <2>1, <2>2, <2>3, <1>1
    <3>2. CASE j >= i
      <4>1. j - (i - 1) \in 1 .. Len(s) - i /\ r[j] = back[j - (i - 1)]
        BY <3>2, <2>1, <2>2, <2>3, <1>1
      <4> QED
        BY <4>1, <3>2, <2>2, <1>1
    <3> QED
      BY <3>1, <3>2, <1>1
  <2> QED
    BY <2>4, <2>5
<1> HIDE DEF r
<1>6. IsInjective(r)
  <2> SUFFICES ASSUME NEW a \in 1 .. Len(s) - 1, NEW b \in 1 .. Len(s) - 1, r[a] = r[b]
               PROVE  a = b
    BY <1>5 DEF IsInjective
  <2> DEFINE at(j) == IF j < i THEN j ELSE j + 1
  <2>1. /\ at(a) \in 1 .. Len(s) /\ at(b) \in 1 .. Len(s)
        /\ r[a] = s[at(a)] /\ r[b] = s[at(b)]
    BY <1>1, <1>5
  <2>2. \A x, y \in 1 .. Len(s) : s[x] = s[y] => x = y
    BY DEF IsInjective
  <2>3. at(a) = at(b)
    <3> HIDE DEF at
    <3> QED
      BY <2>1, <2>2
  <2> QED
    BY <2>3, <1>1
<1>7. ASSUME NEW k \in S, Listed(k, s), k # e PROVE Listed(k, r)
  <2>1. PICK j \in 1 .. Len(s) : s[j] = k
    BY <1>7 DEF Listed
  <2>2. CASE j < i
    BY <2>1, <2>2, <1>1, <1>5 DEF Listed
  <2>3. CASE j > i
    <3>1. j - 1 \in 1 .. Len(s) - 1 /\ r[j - 1] = s[j]
      BY <2>1, <2>3, <1>1, <1>5
    <3> QED
      BY <3>1, <2>1, <1>5 DEF Listed
  <2>4. j # i
    BY <2>1, <1>7, <1>1
  <2> QED
    BY <2>2, <2>3, <2>4, <1>1
<1>8. ASSUME NEW k \in S, Listed(k, r) PROVE Listed(k, s) /\ k # e
  <2>1. PICK j \in 1 .. Len(s) - 1 : r[j] = k
    BY <1>8, <1>5 DEF Listed
  <2>2. PICK m \in 1 .. Len(s) : s[m] = k /\ m # i
    <3>1. CASE j < i
      BY <3>1, <2>1, <1>5, <1>1
    <3>2. CASE j >= i
      BY <3>2, <2>1, <1>5, <1>1
    <3> QED
      BY <3>1, <3>2, <1>1
  <2> QED
    BY <2>2, <1>1 DEF Listed, IsInjective
<1> QED
  BY <1>4, <1>5, <1>6, <1>7, <1>8 DEF r

-----------------------------------------------------------------------------
\* uint16 arithmetic of nextShortID up to its first wrap.
LEMMA ModSmall ==
    ASSUME NEW M \in Nat \ {0}, NEW x \in 0 .. M
    PROVE  x % M = IF x = M THEN 0 ELSE x
OBVIOUS

\* Short ids are numbers, and Nil is none of them.
LEMMA ShortIDRange ==
    ShortMod \in Nat \ {0} /\ LocalMod \in Nat \ {0} /\ Nil \notin Nat /\ Nil \notin ShortID
<1>1. ShortMod \in Nat \ {0} /\ LocalMod \in Nat \ {0} /\ Nil \notin Nat
  BY FirewallAssumption
<1>2. ShortID \subseteq Nat
  BY <1>1 DEF ShortID
<1> QED
  BY <1>1, <1>2

\* getOrCreateShortID gives a new node an id nobody has, as long as there are at
\* most ShortMod nodes: the counter runs through 1 .. ShortMod - 1 and then 0.
LEMMA ShortIDFresh ==
    ASSUME FirewallTypeOK, ShortIDsCounted, NEW n \in NodeIDs, n # NoNode,
           shortIdByNodeId[n] = Nil
    PROVE  LET c == Cardinality(Assigned)
           IN  /\ c \in Nat /\ c + 1 <= ShortMod
               /\ IsFiniteSet(Assigned)
               /\ shortIDFor(n) = IF c + 1 = ShortMod THEN 0 ELSE c + 1
               /\ \A m \in Assigned : shortIdByNodeId[m] # shortIDFor(n)
<1> DEFINE c == Cardinality(Assigned)
           Owners == NodeIDs \ {NoNode}
           more == Assigned \cup {n}
<1>1. IsFiniteSet(Owners) /\ Cardinality(Owners) <= ShortMod
  <2>1. IsFiniteSet(NodeIDs) /\ Cardinality(Owners) <= ShortMod
    BY FirewallAssumption
  <2>2. Owners \in SUBSET NodeIDs
    OBVIOUS
  <2> QED
    BY <2>1, <2>2, FS_Subset
<1>2. more \in SUBSET Owners /\ n \notin Assigned /\ Assigned \in SUBSET Owners
  BY DEF Assigned, ShortIDsCounted
<1> HIDE DEF Owners
<1>3. IsFiniteSet(more) /\ Cardinality(more) <= Cardinality(Owners) /\ IsFiniteSet(Assigned)
  BY <1>1, <1>2, FS_Subset
<1>4. Cardinality(more) = c + 1
  BY <1>2, <1>3, FS_AddElement
<1>5. c \in Nat /\ Cardinality(Owners) \in Nat
  BY <1>1, <1>3, FS_CardinalityType
<1>m. ShortMod \in Nat
  BY ShortIDRange
<1>6. c + 1 <= ShortMod
  BY <1>1, <1>3, <1>4, <1>5, <1>m
<1> HIDE DEF c
<1>7. nextShortID = c
  <2>1. nextShortID = c % ShortMod
    BY DEF ShortIDsCounted, c
  <2> QED
    BY <2>1, <1>5, <1>6, ModSmall, ShortIDRange
<1>8. shortIDFor(n) = IF c + 1 = ShortMod THEN 0 ELSE c + 1
  <2>1. shortIDFor(n) = (c + 1) % ShortMod
    BY <1>7 DEF shortIDFor
  <2> QED
    BY <2>1, <1>5, <1>6, ModSmall, ShortIDRange
<1>9. \A m \in Assigned : shortIdByNodeId[m] # shortIDFor(n)
  <2>1. \A m \in Assigned : shortIdByNodeId[m] \in 1 .. c
    BY <1>5, <1>6, ShortIDRange DEF ShortIDsCounted, c
  <2> QED
    BY <2>1, <1>5, <1>8
<1> QED
  BY <1>3, <1>5, <1>6, <1>8, <1>9 DEF c

\* What getOrCreateShortID does to the map of short ids.
LEMMA ShortIDStep ==
    ASSUME FirewallTypeOK, ShortIDsCounted, ShortIDsUnique,
           NEW n \in NodeIDs, n # NoNode, getOrCreateShortID(n)
    PROVE  /\ shortIdByNodeId' \in [NodeIDs -> ShortID \cup {Nil}]
           /\ nextShortID' \in ShortID
           /\ shortIDFor(n) \in ShortID
           /\ shortIdByNodeId'[n] = shortIDFor(n)
           /\ \A m \in NodeIDs \ {n} : shortIdByNodeId'[m] = shortIdByNodeId[m]
           /\ \A m \in Assigned : shortIdByNodeId'[m] = shortIdByNodeId[m]
           /\ ShortIDsCounted'
           /\ ShortIDsUnique'
<1>1. CASE shortIdByNodeId[n] # Nil
  <2>1. shortIdByNodeId' = shortIdByNodeId /\ nextShortID' = nextShortID
    BY <1>1 DEF getOrCreateShortID, shortIDFor, FirewallTypeOK
  <2>2. shortIDFor(n) \in ShortID /\ shortIDFor(n) = shortIdByNodeId[n]
    BY <1>1 DEF shortIDFor, FirewallTypeOK
  <2>3. Assigned' = Assigned
    BY <2>1 DEF Assigned
  <2>4. ShortIDsCounted'
    BY <2>1, <2>3 DEF ShortIDsCounted
  <2> QED
    BY <2>1, <2>2, <2>4 DEF FirewallTypeOK, ShortIDsUnique
<1>2. CASE shortIdByNodeId[n] = Nil
  <2> DEFINE c == Cardinality(Assigned)
             new == shortIDFor(n)
  <2>1. /\ c \in Nat /\ c + 1 <= ShortMod /\ IsFiniteSet(Assigned)
        /\ new = IF c + 1 = ShortMod THEN 0 ELSE c + 1
        /\ \A m \in Assigned : shortIdByNodeId[m] # new
    BY <1>2, ShortIDFresh
  <2>2. shortIdByNodeId' = [shortIdByNodeId EXCEPT ![n] = new] /\ nextShortID' = new
    BY <1>2 DEF getOrCreateShortID
  <2>3. new \in ShortID /\ new # Nil
    BY <2>1, ShortIDRange DEF ShortID
  <2> HIDE DEF new
  <2>4. Assigned' = Assigned \cup {n} /\ n \notin Assigned
    BY <1>2, <2>2, <2>3 DEF Assigned, FirewallTypeOK
  <2>5. Cardinality(Assigned') = c + 1
    BY <2>1, <2>4, FS_AddElement
  <2>6. \A m \in Assigned : shortIdByNodeId'[m] = shortIdByNodeId[m]
    BY <2>2, <2>4 DEF FirewallTypeOK, Assigned
  <2>7. shortIdByNodeId'[n] = new
    BY <2>2 DEF FirewallTypeOK
  <2>8. ShortIDsCounted'
    <3>1. nextShortID' = Cardinality(Assigned') % ShortMod
      BY <2>1, <2>2, <2>5, ModSmall, ShortIDRange
    <3>2. NoNode \notin Assigned'
      BY <2>4 DEF ShortIDsCounted
    <3>3. c + 1 < ShortMod =>
              \A m \in Assigned' : shortIdByNodeId'[m] \in 1 .. c + 1
      <4> SUFFICES ASSUME c + 1 < ShortMod, NEW m \in Assigned'
                   PROVE  shortIdByNodeId'[m] \in 1 .. c + 1
        OBVIOUS
      <4>1. CASE m = n
        BY <4>1, <2>1, <2>7, ShortIDRange
      <4>2. CASE m \in Assigned
        <5>1. shortIdByNodeId[m] \in 1 .. c
          BY <4>2, <2>1, ShortIDRange DEF ShortIDsCounted
        <5> QED
          BY <5>1, <4>2, <2>1, <2>6
      <4> QED
        BY <4>1, <4>2, <2>4
    <3> QED
      BY <3>1, <3>2, <3>3, <2>5 DEF ShortIDsCounted
  <2>9. ShortIDsUnique'
    BY <2>1, <2>2, <2>3 DEF ShortIDsUnique, Assigned, FirewallTypeOK
  <2> QED
    BY <2>2, <2>3, <2>6, <2>7, <2>8, <2>9 DEF FirewallTypeOK, new
<1> QED
  BY <1>1, <1>2

-----------------------------------------------------------------------------
\* A rule number is its own low 48 bits, so a key is a short id and a number.
LEMMA KeyType ==
    ASSUME NEW index \in PortRuleIndex, shortIDFor(index.NodeID) \in ShortID
    PROVE  /\ ruleKey(index) \in GlobalKey
           /\ ruleKey(index) = <<shortIDFor(index.NodeID), index.RuleID>>
<1>1. index.RuleID \in 0 .. LocalMod - 1
  BY FirewallAssumption DEF PortRuleIndex
<1>2. index.RuleID % LocalMod = index.RuleID
  BY <1>1, ModSmall, ShortIDRange
<1> QED
  BY <1>1, <1>2 DEF ruleKey, makeGlobalKey, GlobalKey

\* What is stored is told from NoRule, and has an address to be listed under.
LEMMA StoredFacts ==
    /\ NoRule \notin StoredRule
    /\ \A r \in StoredRule : /\ r.index \in PortRuleIndex /\ r.index.NodeID \in NodeIDs
                             /\ r.rule \in PortRules /\ r.rule.Address \in Addresses
<1>1. NoRule \notin StoredRule
  BY FirewallAssumption DEF StoredRule
<1>2. PortRules \subseteq AnyPortRule
  BY RulesAssumption
<1> QED
  BY <1>1, <1>2 DEF StoredRule, PortRuleIndex, AnyPortRule

\* The two maps in step, with the list of keys spelt out.
LEMMA IndexListed ==
    IndexMatchesStore <=>
        \A a \in Addresses :
            /\ IsInjective(rulesByAddr[a])
            /\ \A k \in GlobalKey : Listed(k, rulesByAddr[a])
                    <=> (rulesByID[k] # NoRule /\ rulesByID[k].rule.Address = a)
BY DEF IndexMatchesStore, Listed

\* The empty store of New satisfies the invariant.
LEMMA FirewallInitInv == FirewallInit => FirewallInv
<1> SUFFICES ASSUME FirewallInit PROVE FirewallInv
  OBVIOUS
<1>1. FirewallTypeOK
  BY ShortIDRange DEF FirewallInit, FirewallTypeOK, ShortID
<1>2. IndexMatchesStore /\ KeysHonest /\ ShortIDsUnique
  BY DEF FirewallInit, IndexMatchesStore, KeysHonest, ShortIDsUnique, IsInjective
<1>3. Assigned = {}
  BY DEF FirewallInit, Assigned
<1>4. Cardinality(Assigned) = 0
  BY <1>3, FS_EmptySet
<1>5. nextShortID = 0 % ShortMod
  BY ModSmall, ShortIDRange DEF FirewallInit
<1>6. ShortIDsCounted
  BY <1>3, <1>4, <1>5 DEF ShortIDsCounted
<1> QED
  BY <1>1, <1>2, <1>6 DEF FirewallInv

\* AddRule keeps the invariant.
LEMMA AddRuleInv ==
    ASSUME FirewallInv, NEW index \in PortRuleIndex, NEW rule \in PortRules,
           AddRule(index, rule)
    PROVE  FirewallInv'
<1> DEFINE n == index.NodeID
           key == ruleKey(index)
           stored == [index |-> index, rule |-> rule]
<1>0. FirewallTypeOK /\ IndexMatchesStore /\ ShortIDsUnique /\ KeysHonest /\ ShortIDsCounted
  BY DEF FirewallInv
<1>1. n \in NodeIDs /\ n # NoNode /\ getOrCreateShortID(n)
  BY DEF AddRule, PortRuleIndex
<1>2. /\ shortIdByNodeId' \in [NodeIDs -> ShortID \cup {Nil}] /\ nextShortID' \in ShortID
      /\ shortIDFor(n) \in ShortID /\ shortIdByNodeId'[n] = shortIDFor(n)
      /\ \A m \in Assigned : shortIdByNodeId'[m] = shortIdByNodeId[m]
      /\ ShortIDsCounted' /\ ShortIDsUnique'
  BY <1>0, <1>1, ShortIDStep
<1>3. key \in GlobalKey /\ key[1] = shortIDFor(n) /\ key[2] = index.RuleID
  BY <1>2, KeyType
<1>4. stored \in StoredRule /\ stored # NoRule /\ rule.Address \in Addresses
  <2>1. stored \in StoredRule
    BY DEF StoredRule
  <2> QED
    BY <2>1, StoredFacts
<1>5. \A k \in GlobalKey : rulesByID[k] # NoRule =>
          shortIdByNodeId'[rulesByID[k].index.NodeID] = k[1]
  <2> SUFFICES ASSUME NEW k \in GlobalKey, rulesByID[k] # NoRule
               PROVE  shortIdByNodeId'[rulesByID[k].index.NodeID] = k[1]
    OBVIOUS
  <2>1. rulesByID[k] \in StoredRule
    BY <1>0 DEF FirewallTypeOK
  <2>2. rulesByID[k].index.NodeID \in NodeIDs
    BY <2>1, StoredFacts
  <2>3. shortIdByNodeId[rulesByID[k].index.NodeID] = k[1] /\ k[1] # Nil
    BY <1>0, ShortIDRange DEF KeysHonest, GlobalKey
  <2>4. rulesByID[k].index.NodeID \in Assigned
    BY <2>2, <2>3 DEF Assigned
  <2> QED
    BY <2>3, <2>4, <1>2
<1> HIDE DEF key, stored, n
<1>6. CASE rulesByID[key] = NoRule
  <2>1. /\ rulesByID' = [rulesByID EXCEPT ![key] = stored]
        /\ rulesByAddr' = [rulesByAddr EXCEPT ![rule.Address] = Append(@, key)]
    BY <1>6 DEF AddRule, key, stored
  <2> DEFINE s == rulesByAddr[rule.Address]
  <2>2. /\ s \in Seq(GlobalKey) /\ IsInjective(s) /\ ~ Listed(key, s)
    BY <1>0, <1>3, <1>4, <1>6, IndexListed DEF FirewallTypeOK
  <2>3. /\ Append(s, key) \in Seq(GlobalKey) /\ IsInjective(Append(s, key))
        /\ \A k \in GlobalKey : Listed(k, Append(s, key)) <=> (Listed(k, s) \/ k = key)
    BY <1>3, <2>2, AppendListed
  <2>4. FirewallTypeOK'
    BY <1>0, <1>2, <1>3, <1>4, <2>1, <2>3 DEF FirewallTypeOK
  <2>5. \A k \in GlobalKey : rulesByID'[k] = IF k = key THEN stored ELSE rulesByID[k]
    BY <1>0, <1>3, <2>1 DEF FirewallTypeOK
  <2>6. \A a \in Addresses :
            rulesByAddr'[a] = IF a = rule.Address THEN Append(s, key) ELSE rulesByAddr[a]
    BY <1>0, <1>4, <2>1 DEF FirewallTypeOK
  <2>7. stored.rule.Address = rule.Address /\ stored.index = index
    BY DEF stored
  <2> HIDE DEF s
  <2>8. IndexMatchesStore'
    <3> SUFFICES ASSUME NEW a \in Addresses
                 PROVE  /\ IsInjective(rulesByAddr'[a])
                        /\ \A k \in GlobalKey : Listed(k, rulesByAddr'[a])
                             <=> (rulesByID'[k] # NoRule /\ rulesByID'[k].rule.Address = a)
      BY DEF IndexMatchesStore, Listed
    <3>1. /\ IsInjective(rulesByAddr[a])
          /\ \A k \in GlobalKey : Listed(k, rulesByAddr[a])
                <=> (rulesByID[k] # NoRule /\ rulesByID[k].rule.Address = a)
      BY <1>0, IndexListed
    <3>2. CASE a = rule.Address
      <4>1. rulesByAddr'[a] = Append(s, key) /\ s = rulesByAddr[a]
        BY <3>2, <2>6 DEF s
      <4>2. ASSUME NEW k \in GlobalKey
            PROVE  Listed(k, Append(s, key))
                      <=> (rulesByID'[k] # NoRule /\ rulesByID'[k].rule.Address = a)
        BY <4>1, <3>1, <3>2, <2>3, <2>5, <2>7, <1>3, <1>4
      <4> QED
        BY <4>1, <4>2, <2>3
    <3>3. CASE a # rule.Address
      <4>1. rulesByAddr'[a] = rulesByAddr[a]
        BY <3>3, <2>6
      <4>2. ASSUME NEW k \in GlobalKey
            PROVE  Listed(k, rulesByAddr[a])
                      <=> (rulesByID'[k] # NoRule /\ rulesByID'[k].rule.Address = a)
        BY <3>1, <3>3, <2>5, <2>7, <1>6
      <4> QED
        BY <4>1, <4>2, <3>1
    <3> QED
      BY <3>2, <3>3
  <2>9. KeysHonest'
    <3> SUFFICES ASSUME NEW k \in GlobalKey, rulesByID'[k] # NoRule
                 PROVE  /\ shortIdByNodeId'[rulesByID'[k].index.NodeID] = k[1]
                        /\ rulesByID'[k].index.RuleID = k[2]
      BY DEF KeysHonest
    <3>1. CASE k = key
      BY <3>1, <2>5, <2>7, <1>2, <1>3 DEF n
    <3>2. CASE k # key
      BY <3>2, <2>5, <1>5, <1>0 DEF KeysHonest
    <3> QED
      BY <3>1, <3>2
  <2> QED
    BY <2>4, <2>8, <2>9, <1>2 DEF FirewallInv
<1>7. CASE rulesByID[key] # NoRule
  <2>1. rulesByID' = rulesByID /\ rulesByAddr' = rulesByAddr
    BY <1>7 DEF AddRule, key
  <2>2. FirewallTypeOK'
    BY <2>1, <1>0, <1>2 DEF FirewallTypeOK
  <2>3. IndexMatchesStore'
    BY <2>1, <1>0 DEF IndexMatchesStore
  <2>4. KeysHonest'
    BY <2>1, <1>0, <1>5 DEF KeysHonest
  <2> QED
    BY <2>2, <2>3, <2>4, <1>2 DEF FirewallInv
<1> QED
  BY <1>6, <1>7

\* RemoveRule keeps the invariant.
LEMMA DeleteRuleInv ==
    ASSUME FirewallInv, NEW index \in PortRuleIndex, DeleteRule(index)
    PROVE  FirewallInv'
<1> DEFINE key == ruleKey(index)
           addr == rulesByID[key].rule.Address
           s == rulesByAddr[addr]
<1>0. FirewallTypeOK /\ IndexMatchesStore /\ ShortIDsUnique /\ KeysHonest /\ ShortIDsCounted
  BY DEF FirewallInv
<1>1. shortIdByNodeId[index.NodeID] # Nil /\ rulesByID[key] # NoRule
  BY DEF DeleteRule, ExistsRule
<1>2. shortIDFor(index.NodeID) \in ShortID
  BY <1>0, <1>1 DEF shortIDFor, FirewallTypeOK, PortRuleIndex
<1>3. key \in GlobalKey
  BY <1>2, KeyType
<1>4. rulesByID[key] \in StoredRule
  BY <1>0, <1>1, <1>3 DEF FirewallTypeOK
<1>5. addr \in Addresses
  BY <1>4, StoredFacts
<1>6. /\ rulesByID' = [rulesByID EXCEPT ![key] = NoRule]
      /\ rulesByAddr' = [rulesByAddr EXCEPT ![addr] = RemoveFirst(@, key)]
      /\ shortIdByNodeId' = shortIdByNodeId /\ nextShortID' = nextShortID
  BY DEF DeleteRule
<1> HIDE DEF key, addr
<1>7. s \in Seq(GlobalKey) /\ IsInjective(s) /\ Listed(key, s)
  BY <1>0, <1>1, <1>3, <1>5, IndexListed DEF FirewallTypeOK, addr
<1>8. /\ RemoveFirst(s, key) \in Seq(GlobalKey) /\ IsInjective(RemoveFirst(s, key))
      /\ \A k \in GlobalKey : Listed(k, RemoveFirst(s, key)) <=> (Listed(k, s) /\ k # key)
  BY <1>3, <1>7, RemoveListed
<1>9. FirewallTypeOK'
  BY <1>0, <1>3, <1>5, <1>6, <1>8 DEF FirewallTypeOK
<1>10. \A k \in GlobalKey : rulesByID'[k] = IF k = key THEN NoRule ELSE rulesByID[k]
  BY <1>0, <1>3, <1>6 DEF FirewallTypeOK
<1>11. \A a \in Addresses :
           rulesByAddr'[a] = IF a = addr THEN RemoveFirst(s, key) ELSE rulesByAddr[a]
  BY <1>0, <1>5, <1>6 DEF FirewallTypeOK
<1>12. IndexMatchesStore'
  <2> SUFFICES ASSUME NEW a \in Addresses
               PROVE  /\ IsInjective(rulesByAddr'[a])
                      /\ \A k \in GlobalKey : Listed(k, rulesByAddr'[a])
                           <=> (rulesByID'[k] # NoRule /\ rulesByID'[k].rule.Address = a)
    BY DEF IndexMatchesStore, Listed
  <2>1. /\ IsInjective(rulesByAddr[a])
        /\ \A k \in GlobalKey : Listed(k, rulesByAddr[a])
              <=> (rulesByID[k] # NoRule /\ rulesByID[k].rule.Address = a)
    BY <1>0, IndexListed
  <2>2. CASE a = addr
    <3>1. rulesByAddr'[a] = RemoveFirst(s, key) /\ s = rulesByAddr[a]
      BY <2>2, <1>11
    <3>2. ASSUME NEW k \in GlobalKey
          PROVE  Listed(k, RemoveFirst(s, key))
                    <=> (rulesByID'[k] # NoRule /\ rulesByID'[k].rule.Address = a)
      <4> HIDE DEF s
      <4> QED
        BY <3>1, <2>1, <1>8, <1>10
    <3> QED
      BY <3>1, <3>2, <1>8
  <2>3. CASE a # addr
    <3>1. rulesByAddr'[a] = rulesByAddr[a]
      BY <2>3, <1>11
    <3>2. ASSUME NEW k \in GlobalKey
          PROVE  Listed(k, rulesByAddr[a])
                    <=> (rulesByID'[k] # NoRule /\ rulesByID'[k].rule.Address = a)
      BY <2>1, <2>3, <1>10 DEF addr
    <3> QED
      BY <3>1, <3>2, <2>1
  <2> QED
    BY <2>2, <2>3
<1>13. KeysHonest'
  BY <1>0, <1>6, <1>10 DEF KeysHonest
<1>14. ShortIDsUnique' /\ ShortIDsCounted'
  <2>1. Assigned' = Assigned
    BY <1>6 DEF Assigned
  <2> QED
    BY <2>1, <1>0, <1>6 DEF ShortIDsUnique, ShortIDsCounted
<1> QED
  BY <1>9, <1>12, <1>13, <1>14 DEF FirewallInv

\* Every step of the store keeps the invariant.
LEMMA FirewallNextInv == FirewallInv /\ [FirewallNext]_fwVars => FirewallInv'
<1> SUFFICES ASSUME FirewallInv, [FirewallNext]_fwVars PROVE FirewallInv'
  OBVIOUS
<1>1. ASSUME NEW index \in PortRuleIndex, NEW rule \in PortRules, AddRule(index, rule)
      PROVE  FirewallInv'
  BY <1>1, AddRuleInv
<1>2. ASSUME NEW index \in PortRuleIndex, DeleteRule(index) PROVE FirewallInv'
  BY <1>2, DeleteRuleInv
<1>3. CASE UNCHANGED fwVars
  BY <1>3 DEF fwVars, FirewallInv, FirewallTypeOK, IndexMatchesStore, ShortIDsUnique,
              KeysHonest, ShortIDsCounted, Assigned
<1> QED
  BY <1>1, <1>2, <1>3 DEF FirewallNext

\* The invariant holds of every reachable state of the rule store.
THEOREM FirewallInvariant == FirewallSpec => []FirewallInv
BY FirewallInitInv, FirewallNextInv, PTL DEF FirewallSpec

\* The maps, the short ids and the counter always have their types; the counter
\* stays a uint16.
THEOREM FirewallTypeCorrect == FirewallSpec => []FirewallTypeOK
BY FirewallInvariant, PTL DEF FirewallInv

\* rulesByAddr lists every stored rule once, under its own address, and no other.
THEOREM IndexCorrect == FirewallSpec => []IndexMatchesStore
BY FirewallInvariant, PTL DEF FirewallInv

\* No two nodes share a short id, for any number of nodes up to 2^16.
THEOREM ShortIDsCorrect == FirewallSpec => []ShortIDsUnique
BY FirewallInvariant, PTL DEF FirewallInv

-----------------------------------------------------------------------------
(* The table.                                                              *)

\* The row of the table that holds rule r under index j.
Row(j, r) == [index |-> j, rule |-> r]

\* DumpRules holds the rows of tableOf and nothing else.
TableIs ==
    /\ tableOf \in [PortRuleIndex -> PortRules \cup {NoRule}]
    /\ DumpRules \subseteq StoredRule
    /\ \A j \in PortRuleIndex, r \in PortRules : tableOf[j] = r <=> Row(j, r) \in DumpRules

\* A rule given to AddRule is never the mark of an empty row.
LEMMA RuleNotNone == NoRule \notin PortRules
BY RulesAssumption

\* The key under which a stored rule is kept is the key of its index.
LEMMA KeyOfStored ==
    ASSUME FirewallInv, NEW k \in GlobalKey, rulesByID[k] # NoRule
    PROVE  /\ rulesByID[k] \in StoredRule
           /\ ExistsRule(rulesByID[k].index)
           /\ ruleKey(rulesByID[k].index) = k
<1> DEFINE j == rulesByID[k].index
<1>1. rulesByID[k] \in StoredRule
  BY DEF FirewallInv, FirewallTypeOK
<1>2. j \in PortRuleIndex /\ j.NodeID \in NodeIDs
  BY <1>1, StoredFacts
<1>3. shortIdByNodeId[j.NodeID] = k[1] /\ j.RuleID = k[2]
  BY DEF FirewallInv, KeysHonest
<1>4. k[1] \in ShortID /\ k = <<k[1], k[2]>>
  BY DEF GlobalKey
<1>5. shortIdByNodeId[j.NodeID] # Nil
  BY <1>3, <1>4, ShortIDRange
<1>6. shortIDFor(j.NodeID) = k[1]
  BY <1>3, <1>5 DEF shortIDFor
<1> HIDE DEF j
<1>7. ruleKey(j) = k
  BY <1>2, <1>3, <1>4, <1>6, KeyType
<1>8. ExistsRule(j)
  BY <1>5, <1>7 DEF ExistsRule
<1> QED
  BY <1>1, <1>7, <1>8 DEF j

\* The rule found under an index is the rule of that index.
LEMMA StoredUnderIndex ==
    ASSUME FirewallInv, NEW j \in PortRuleIndex, ExistsRule(j)
    PROVE  /\ ruleKey(j) \in GlobalKey
           /\ rulesByID[ruleKey(j)] \in StoredRule
           /\ rulesByID[ruleKey(j)].index = j
<1> DEFINE k == ruleKey(j)
           i == rulesByID[k].index
<1>1. shortIdByNodeId[j.NodeID] # Nil /\ rulesByID[k] # NoRule
  BY DEF ExistsRule
<1>2. shortIDFor(j.NodeID) = shortIdByNodeId[j.NodeID] /\ j.NodeID \in NodeIDs
  BY <1>1 DEF shortIDFor, PortRuleIndex
<1>3. shortIDFor(j.NodeID) \in ShortID
  BY <1>1, <1>2 DEF FirewallInv, FirewallTypeOK
<1>4. k \in GlobalKey /\ k[1] = shortIdByNodeId[j.NodeID] /\ k[2] = j.RuleID
  BY <1>2, <1>3, KeyType
<1>5. rulesByID[k] \in StoredRule
  BY <1>1, <1>4 DEF FirewallInv, FirewallTypeOK
<1>6. i \in PortRuleIndex /\ i.NodeID \in NodeIDs
  BY <1>5, StoredFacts
<1>7. shortIdByNodeId[i.NodeID] = k[1] /\ i.RuleID = k[2]
  BY <1>1, <1>4 DEF FirewallInv, KeysHonest
<1> HIDE DEF i, k
<1>8. i.NodeID = j.NodeID
  BY <1>1, <1>2, <1>4, <1>6, <1>7 DEF FirewallInv, ShortIDsUnique
<1>9. i = j
  BY <1>4, <1>6, <1>7, <1>8 DEF PortRuleIndex
<1> QED
  BY <1>4, <1>5, <1>9 DEF i, k

\* In every state of the invariant the dump lists the table.
LEMMA DumpIsTable == FirewallInv => TableIs
<1> SUFFICES ASSUME FirewallInv PROVE TableIs
  OBVIOUS
<1>1. DumpRules \subseteq StoredRule
  BY KeyOfStored DEF DumpRules
<1>2. tableOf \in [PortRuleIndex -> PortRules \cup {NoRule}]
  <2> SUFFICES ASSUME NEW j \in PortRuleIndex, ExistsRule(j)
               PROVE  rulesByID[ruleKey(j)].rule \in PortRules
    BY DEF tableOf
  <2> QED
    BY StoredUnderIndex, StoredFacts
<1>3. ASSUME NEW j \in PortRuleIndex, NEW r \in PortRules, tableOf[j] = r
      PROVE  Row(j, r) \in DumpRules
  <2>1. ExistsRule(j) /\ rulesByID[ruleKey(j)].rule = r
    BY <1>3, RuleNotNone DEF tableOf
  <2>2. /\ ruleKey(j) \in GlobalKey /\ rulesByID[ruleKey(j)] \in StoredRule
        /\ rulesByID[ruleKey(j)].index = j
    BY <2>1, StoredUnderIndex
  <2>3. rulesByID[ruleKey(j)] = Row(j, r) /\ rulesByID[ruleKey(j)] # NoRule
    BY <2>1, <2>2, StoredFacts DEF StoredRule, Row
  <2> QED
    BY <2>2, <2>3 DEF DumpRules
<1>4. ASSUME NEW j \in PortRuleIndex, NEW r \in PortRules, Row(j, r) \in DumpRules
      PROVE  tableOf[j] = r
  <2>1. PICK k \in GlobalKey : rulesByID[k] # NoRule /\ rulesByID[k] = Row(j, r)
    BY <1>4 DEF DumpRules
  <2>2. rulesByID[k].index = j /\ rulesByID[k].rule = r
    BY <2>1 DEF Row
  <2>3. ExistsRule(j) /\ ruleKey(j) = k
    BY <2>1, <2>2, KeyOfStored
  <2> QED
    BY <2>2, <2>3 DEF tableOf
<1> QED
  BY <1>1, <1>2, <1>3, <1>4 DEF TableIs

\* The same of the next state.
LEMMA DumpIsTableNext == FirewallInv' => TableIs'
BY DumpIsTable, PTL

-----------------------------------------------------------------------------
\* AddRule adds one row, for an index that had none, or changes nothing.
LEMMA AddRuleDump ==
    ASSUME FirewallInv, NEW index \in PortRuleIndex, NEW rule \in PortRules,
           AddRule(index, rule)
    PROVE  \/ DumpRules' = DumpRules
           \/ /\ DumpRules' = DumpRules \cup {Row(index, rule)}
              /\ \A r \in PortRules : Row(index, r) \notin DumpRules
<1> DEFINE key == ruleKey(index)
<1>1. CASE rulesByID[key] # NoRule
  BY <1>1 DEF AddRule, DumpRules
<1>2. CASE rulesByID[key] = NoRule
  <2>1. rulesByID' = [rulesByID EXCEPT ![key] = Row(index, rule)]
    BY <1>2 DEF AddRule, Row
  <2>2. key \in GlobalKey
    <3>1. index.NodeID \in NodeIDs /\ index.NodeID # NoNode /\ getOrCreateShortID(index.NodeID)
      BY DEF AddRule, PortRuleIndex
    <3>2. shortIDFor(index.NodeID) \in ShortID
      BY <3>1, ShortIDStep DEF FirewallInv
    <3> QED
      BY <3>2, KeyType
  <2> HIDE DEF key
  <2>3. \A k \in GlobalKey : rulesByID'[k] = IF k = key THEN Row(index, rule) ELSE rulesByID[k]
    BY <2>1, <2>2 DEF FirewallInv, FirewallTypeOK
  <2>4. Row(index, rule) # NoRule
    BY StoredFacts DEF StoredRule, Row
  <2>5. DumpRules' = DumpRules \cup {Row(index, rule)}
    BY <2>2, <2>3, <2>4, <1>2 DEF DumpRules
  <2>6. ASSUME NEW r \in PortRules, Row(index, r) \in DumpRules PROVE FALSE
    <3>1. PICK k \in GlobalKey : rulesByID[k] # NoRule /\ rulesByID[k] = Row(index, r)
      BY <2>6 DEF DumpRules
    <3>2. ruleKey(index) = k
      BY <3>1, KeyOfStored DEF Row
    <3> QED
      BY <3>1, <3>2, <1>2 DEF key
  <2> QED
    BY <2>5, <2>6
<1> QED
  BY <1>1, <1>2

\* RemoveRule takes away the row of its index and no other.
LEMMA DeleteRuleDump ==
    ASSUME FirewallInv, NEW index \in PortRuleIndex, DeleteRule(index)
    PROVE  \E r \in PortRules : /\ Row(index, r) \in DumpRules
                                /\ DumpRules' = DumpRules \ {Row(index, r)}
<1> DEFINE key == ruleKey(index)
           r == rulesByID[key].rule
<1>1. ExistsRule(index)
  BY DEF DeleteRule
<1>2. key \in GlobalKey /\ rulesByID[key] \in StoredRule /\ rulesByID[key].index = index
  BY <1>1, StoredUnderIndex
<1>3. rulesByID[key] # NoRule /\ r \in PortRules
  BY <1>2, StoredFacts
<1>4. rulesByID[key] = Row(index, r)
  BY <1>2 DEF StoredRule, Row
<1>5. rulesByID' = [rulesByID EXCEPT ![key] = NoRule]
  BY DEF DeleteRule
<1>6. ASSUME NEW k \in GlobalKey, rulesByID[k] = rulesByID[key] PROVE k = key
  BY <1>2, <1>3, <1>6, KeyOfStored
<1> HIDE DEF key, r
<1>7. \A k \in GlobalKey : rulesByID'[k] = IF k = key THEN NoRule ELSE rulesByID[k]
  BY <1>2, <1>5 DEF FirewallInv, FirewallTypeOK
<1>8. DumpRules' = DumpRules \ {Row(index, r)}
  BY <1>2, <1>3, <1>4, <1>6, <1>7 DEF DumpRules
<1>9. Row(index, r) \in DumpRules
  BY <1>2, <1>3, <1>4 DEF DumpRules
<1> QED
  BY <1>3, <1>8, <1>9

\* Rows are equal only if their indices and their rules are.
LEMMA RowInjective ==
    \A i, j \in PortRuleIndex, q, r \in PortRules : Row(i, q) = Row(j, r) => i = j /\ q = r
BY DEF Row

\* Every step of the store is a step of the table, or none.
LEMMA TableStep ==
    ASSUME FirewallInv, FirewallInv', [FirewallNext]_fwVars
    PROVE  [Table!TableNext]_tableOf
<1>1. TableIs /\ TableIs'
  BY DumpIsTable, DumpIsTableNext
<1>2. /\ tableOf \in [PortRuleIndex -> PortRules \cup {NoRule}]
      /\ tableOf' \in [PortRuleIndex -> PortRules \cup {NoRule}]
      /\ \A j \in PortRuleIndex, r \in PortRules : tableOf[j] = r <=> Row(j, r) \in DumpRules
      /\ \A j \in PortRuleIndex, r \in PortRules : tableOf'[j] = r <=> Row(j, r) \in DumpRules'
  BY <1>1 DEF TableIs, Row
<1> DEFINE t == tableOf
           u == tableOf'
<1> HIDE DEF t, u
<1>3. ASSUME DumpRules' = DumpRules PROVE tableOf' = tableOf
  <2>1. \A j \in PortRuleIndex : u[j] = t[j]
    BY <1>2, <1>3, RuleNotNone DEF t, u
  <2> QED
    BY <2>1, <1>2 DEF t, u
<1>4. ASSUME NEW index \in PortRuleIndex, NEW rule \in PortRules, AddRule(index, rule)
      PROVE  [Table!TableNext]_tableOf
  <2>1. CASE DumpRules' = DumpRules
    BY <2>1, <1>3
  <2>2. CASE /\ DumpRules' = DumpRules \cup {Row(index, rule)}
             /\ \A r \in PortRules : Row(index, r) \notin DumpRules
    <3>1. t[index] = NoRule
      BY <2>2, <1>2 DEF t
    <3>2. u[index] = rule
      BY <2>2, <1>2 DEF u
    <3>3. ASSUME NEW j \in PortRuleIndex, j # index PROVE u[j] = t[j]
      <4>1. \A r \in PortRules : Row(j, r) \in DumpRules' <=> Row(j, r) \in DumpRules
        BY <2>2, <3>3, RowInjective
      <4> QED
        BY <4>1, <1>2, RuleNotNone DEF t, u
    <3>4. u = [t EXCEPT ![index] = rule]
      BY <3>2, <3>3, <1>2 DEF t, u
    <3>5. Table!Put(index, rule)
      BY <3>1, <3>4 DEF Table!Put, t, u
    <3> QED
      BY <3>5 DEF Table!TableNext, Table!PortRuleIndex, PortRuleIndex
  <2> QED
    BY <1>4, <2>1, <2>2, AddRuleDump
<1>5. ASSUME NEW index \in PortRuleIndex, DeleteRule(index)
      PROVE  [Table!TableNext]_tableOf
  <2>1. PICK r \in PortRules : /\ Row(index, r) \in DumpRules
                               /\ DumpRules' = DumpRules \ {Row(index, r)}
    BY <1>5, DeleteRuleDump
  <2>2. t[index] = r /\ t[index] # NoRule
    BY <2>1, <1>2, RuleNotNone DEF t
  <2>3. u[index] = NoRule
    <3>1. ASSUME NEW q \in PortRules, u[index] = q PROVE FALSE
      <4>1. Row(index, q) \in DumpRules /\ q # r
        BY <2>1, <3>1, <1>2 DEF u
      <4>2. t[index] = q
        BY <4>1, <1>2 DEF t
      <4> QED
        BY <4>1, <4>2, <2>2
    <3> QED
      BY <3>1, <1>2 DEF u
  <2>4. ASSUME NEW j \in PortRuleIndex, j # index PROVE u[j] = t[j]
    <3>1. \A q \in PortRules : Row(j, q) \in DumpRules' <=> Row(j, q) \in DumpRules
      BY <2>1, <2>4, RowInjective
    <3> QED
      BY <3>1, <1>2, RuleNotNone DEF t, u
  <2>5. u = [t EXCEPT ![index] = NoRule]
    BY <2>3, <2>4, <1>2 DEF t, u
  <2>6. Table!Drop(index)
    BY <2>2, <2>5 DEF Table!Drop, t, u
  <2> QED
    BY <2>6 DEF Table!TableNext, Table!PortRuleIndex, PortRuleIndex
<1>6. CASE UNCHANGED fwVars
  BY <1>6, <1>3 DEF fwVars, DumpRules
<1> QED
  BY <1>4, <1>5, <1>6 DEF FirewallNext

\* The empty store is the empty table.
LEMMA TableStart == FirewallInit => Table!TableInit
<1> SUFFICES ASSUME FirewallInit PROVE Table!TableInit
  OBVIOUS
<1>1. \A j \in PortRuleIndex : ~ ExistsRule(j)
  BY DEF FirewallInit, ExistsRule, PortRuleIndex
<1> QED
  BY <1>1 DEF Table!TableInit, Table!PortRuleIndex, PortRuleIndex, tableOf

\* AddRule and RemoveRule on the compressed maps implement Put and Drop on the
\* table of rules, for any number of nodes up to 2^16: no operation on one
\* node's rule touches another's.
THEOREM StoreImplementsTable == FirewallSpec => ImplementsTable
<1>1. FirewallInv /\ FirewallInv' /\ [FirewallNext]_fwVars => [Table!TableNext]_tableOf
  BY TableStep
<1> QED
  BY <1>1, TableStart, FirewallInvariant, PTL
     DEF FirewallSpec, ImplementsTable, Table!TableSpec

-----------------------------------------------------------------------------
\* In a state of the invariant, the receiver's slice of keys decides as the table.
LEMMA DecisionIsTable == FirewallInv => DecisionMatchesTable
<1> SUFFICES ASSUME FirewallInv, NEW holeInfo \in HoleInfo
             PROVE  rulesAllow(holeInfo) <=> Table!Allowed(holeInfo)
  BY DEF DecisionMatchesTable
<1> DEFINE dst == holeInfo.DstIP
           s == rulesByAddr[dst]
<1>1. dst \in Addresses
  BY DEF HoleInfo
<1>2. \A k \in GlobalKey : Listed(k, s)
          <=> (rulesByID[k] # NoRule /\ rulesByID[k].rule.Address = dst)
  BY <1>1, IndexListed DEF FirewallInv
<1>3. s \in Seq(GlobalKey)
  BY <1>1 DEF FirewallInv, FirewallTypeOK
<1>4. rulesAllow(holeInfo) <=>
          \E k \in GlobalKey : Listed(k, s) /\ Matches(rulesByID[k].rule, holeInfo)
  BY <1>3 DEF rulesAllow, Listed
<1>5. rulesAllow(holeInfo) <=>
          \E k \in GlobalKey : rulesByID[k] # NoRule /\ Allows(rulesByID[k].rule, holeInfo)
  BY <1>2, <1>4 DEF Allows
<1>6. Table!Allowed(holeInfo) <=>
          \E j \in PortRuleIndex : tableOf[j] # NoRule /\ Allows(tableOf[j], holeInfo)
  BY DEF Table!Allowed, Table!PortRuleIndex, PortRuleIndex, Table!Allows, Allows,
         Table!Matches, Matches, Table!PortMatches, PortMatches
<1>7. ASSUME NEW k \in GlobalKey, rulesByID[k] # NoRule,
             Allows(rulesByID[k].rule, holeInfo)
      PROVE  \E j \in PortRuleIndex : tableOf[j] # NoRule /\ Allows(tableOf[j], holeInfo)
  <2>1. /\ rulesByID[k] \in StoredRule /\ ExistsRule(rulesByID[k].index)
        /\ ruleKey(rulesByID[k].index) = k
    BY <1>7, KeyOfStored
  <2>2. rulesByID[k].index \in PortRuleIndex /\ rulesByID[k].rule \in PortRules
    BY <2>1, StoredFacts
  <2>3. tableOf[rulesByID[k].index] = rulesByID[k].rule
    BY <2>1, <2>2 DEF tableOf
  <2> QED
    BY <2>2, <2>3, <1>7, RuleNotNone
<1>8. ASSUME NEW j \in PortRuleIndex, tableOf[j] # NoRule, Allows(tableOf[j], holeInfo)
      PROVE  \E k \in GlobalKey : rulesByID[k] # NoRule /\ Allows(rulesByID[k].rule, holeInfo)
  <2>1. ExistsRule(j) /\ tableOf[j] = rulesByID[ruleKey(j)].rule
    BY <1>8 DEF tableOf
  <2>2. ruleKey(j) \in GlobalKey /\ rulesByID[ruleKey(j)] # NoRule
    BY <2>1, StoredUnderIndex DEF ExistsRule
  <2> QED
    BY <2>1, <2>2, <1>8
<1> QED
  BY <1>5, <1>6, <1>7, <1>8

\* rulesAllow decides every packet as the whole table of rules does.
THEOREM DecisionCorrect == FirewallSpec => []DecisionMatchesTable
BY DecisionIsTable, FirewallInvariant, PTL

\* In a state of the invariant, the dump is the set of rows of the table.
LEMMA DumpMatches == FirewallInv => DumpMatchesTable
<1> SUFFICES ASSUME FirewallInv PROVE DumpMatchesTable
  OBVIOUS
<1> DEFINE rows == {[index |-> i, rule |-> tableOf[i]] :
                       i \in {j \in PortRuleIndex : tableOf[j] # NoRule}}
<1>1. TableIs
  BY DumpIsTable
<1>2. ASSUME NEW x \in DumpRules PROVE x \in rows
  <2>1. x \in StoredRule
    BY <1>1 DEF TableIs
  <2>2. x.index \in PortRuleIndex /\ x.rule \in PortRules /\ x = Row(x.index, x.rule)
    BY <2>1 DEF StoredRule, Row
  <2>3. tableOf[x.index] = x.rule /\ x.rule # NoRule
    BY <1>1, <2>2, RuleNotNone DEF TableIs
  <2> QED
    BY <2>2, <2>3 DEF Row
<1>3. ASSUME NEW j \in PortRuleIndex, tableOf[j] # NoRule
      PROVE  [index |-> j, rule |-> tableOf[j]] \in DumpRules
  <2>1. tableOf[j] \in PortRules
    BY <1>1, <1>3 DEF TableIs
  <2> QED
    BY <1>1, <2>1 DEF TableIs, Row
<1> QED
  BY <1>2, <1>3 DEF DumpMatchesTable

\* DumpRules, which other nodes are sent, reports exactly the table of rules.
THEOREM DumpCorrect == FirewallSpec => []DumpMatchesTable
BY DumpMatches, FirewallInvariant, PTL

-----------------------------------------------------------------------------
\* makeFlowKey gives two packets one key exactly if they are of one flow, in the
\* same direction or in opposite ones: a hole opened by a packet lets through
\* its flow and nothing else.
THEOREM FlowKeyCorrect ==
    \A a, b \in HoleInfo : makeFlowKey(a) = makeFlowKey(b) <=> SameFlow(a, b)
<1> SUFFICES ASSUME NEW a \in HoleInfo, NEW b \in HoleInfo
             PROVE  makeFlowKey(a) = makeFlowKey(b) <=> SameFlow(a, b)
  OBVIOUS
<1>1. /\ a.SrcIP \in Nat /\ a.DstIP \in Nat /\ a.SrcPort \in Nat /\ a.DstPort \in Nat
      /\ b.SrcIP \in Nat /\ b.DstIP \in Nat /\ b.SrcPort \in Nat /\ b.DstPort \in Nat
  <2>1. ASSUME NEW h \in HoleInfo
        PROVE  /\ h.SrcIP \in Addresses /\ h.DstIP \in Addresses
               /\ h.SrcPort \in Ports \cup {0} /\ h.DstPort \in Ports \cup {0}
    BY DEF HoleInfo
  <2>2. Addresses \subseteq Nat /\ Ports \cup {0} \subseteq Nat
    BY RulesAssumption
  <2> QED
    BY <2>1, <2>2
<1>2. CASE a.Protocol = "icmp" /\ b.Protocol = "icmp"
  BY <1>1, <1>2 DEF HoleInfo, makeFlowKey, SameFlow, Reply
<1>3. CASE a.Protocol # "icmp" /\ b.Protocol # "icmp"
  BY <1>1, <1>3 DEF HoleInfo, makeFlowKey, SameFlow, Reply
<1>4. CASE (a.Protocol = "icmp") # (b.Protocol = "icmp")
  BY <1>1, <1>4 DEF HoleInfo, makeFlowKey, SameFlow, Reply
<1> QED
  BY <1>2, <1>3, <1>4
=============================================================================
