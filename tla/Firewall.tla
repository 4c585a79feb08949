------------------------------ MODULE Firewall ------------------------------
(***************************************************************************)
(* The rule store of pkg/firewall: firewallEngineImpl without its holes.   *)
(*                                                                         *)
(* Rules are kept under a 64-bit key, the owner's 16-bit short id and the  *)
(* low 48 bits of the rule number, and indexed by the receiver's address   *)
(* for the packet path.  Each action is one critical section of rulesMu.   *)
(* The separate critical section of nodeIDMu that assigns the short id     *)
(* only ever adds an entry and is taken just before, so it is part of the  *)
(* same action.                                                            *)
(***************************************************************************)
EXTENDS FirewallRules, FiniteSets, SequencesExt

CONSTANTS
    ShortMod,   \* 2^16: nextShortID is a uint16
    LocalMod    \* 2^48: makeGlobalKey keeps 48 bits of the rule number

ASSUME FirewallAssumption ==
    /\ ShortMod \in Nat \ {0} /\ LocalMod \in Nat \ {0}
    /\ IsFiniteSet(NodeIDs) /\ Cardinality(NodeIDs \ {NoNode}) <= ShortMod
    /\ RuleIDs \subseteq 0 .. LocalMod - 1
    /\ Nil \notin Nat
    /\ NoRule \notin [index : PortRuleIndex, rule : PortRules]

VARIABLES
    rulesByAddr,      \* map[uint32][]uint64; a missing entry is << >>
    rulesByID,        \* map[uint64]PortRule; a missing entry is NoRule
    shortIdByNodeId,  \* map[string]uint16; a missing entry is Nil
    nextShortID       \* uint16

fwVars == <<rulesByAddr, rulesByID, shortIdByNodeId, nextShortID>>

ShortID == 0 .. ShortMod - 1
GlobalKey == ShortID \X (0 .. LocalMod - 1)

\* A rule as it is stored: AddRule sets its index field.
StoredRule == [index : PortRuleIndex, rule : PortRules]

FirewallInit ==
    /\ rulesByAddr = [a \in Addresses |-> << >>]
    /\ rulesByID = [k \in GlobalKey |-> NoRule]
    /\ shortIdByNodeId = [n \in NodeIDs |-> Nil]
    /\ nextShortID = 0

\* Mutant: the shift loses the short id.
makeGlobalKeyNoShift(shortID, localRuleID) == <<0, localRuleID % LocalMod>>

\* Mutant: the mask loses the rule number.
makeGlobalKeyNoMask(shortID, localRuleID) == <<shortID, 0>>

\* shortID in the high 16 bits, the rule number in the low 48.
makeGlobalKey(shortID, localRuleID) == <<shortID, localRuleID % LocalMod>>

\* The short id getOrCreateShortID returns for a node.
shortIDFor(nodeHash) ==
    IF shortIdByNodeId[nodeHash] # Nil
    THEN shortIdByNodeId[nodeHash]
    ELSE (nextShortID + 1) % ShortMod

\* Mutant: the counter is wider than the short ids it hands out.
getOrCreateShortIDWide(nodeHash) ==
    /\ shortIdByNodeId' = [shortIdByNodeId EXCEPT ![nodeHash] = shortIDFor(nodeHash)]
    /\ nextShortID' = IF shortIdByNodeId[nodeHash] # Nil
                      THEN nextShortID ELSE nextShortID + 1

\* Mutant: the incremented counter is not written back.
getOrCreateShortIDForgets(nodeHash) ==
    /\ shortIdByNodeId' = [shortIdByNodeId EXCEPT ![nodeHash] = shortIDFor(nodeHash)]
    /\ UNCHANGED nextShortID

getOrCreateShortID(nodeHash) ==
    /\ shortIdByNodeId' = [shortIdByNodeId EXCEPT ![nodeHash] = shortIDFor(nodeHash)]
    /\ nextShortID' = IF shortIdByNodeId[nodeHash] # Nil
                      THEN nextShortID ELSE shortIDFor(nodeHash)

ruleKey(index) == makeGlobalKey(shortIDFor(index.NodeID), index.RuleID)

\* AddRule: a rule without an owner is refused; a rule already under this key
\* wins, and the call returns false.
AddRule(index, rule) ==
    /\ index.NodeID # NoNode
    /\ getOrCreateShortID(index.NodeID)
    /\ \/ /\ rulesByID[ruleKey(index)] = NoRule
          /\ rulesByID' = [rulesByID EXCEPT ![ruleKey(index)] =
                              [index |-> index, rule |-> rule]]
          /\ rulesByAddr' = [rulesByAddr EXCEPT ![rule.Address] =
                              Append(@, ruleKey(index))]
       \/ /\ rulesByID[ruleKey(index)] # NoRule
          /\ UNCHANGED <<rulesByID, rulesByAddr>>

ExistsRule(index) ==
    /\ shortIdByNodeId[index.NodeID] # Nil
    /\ rulesByID[ruleKey(index)] # NoRule

\* Mutant: the key stays listed under the address.
DeleteRuleKeepsIndex(index) ==
    /\ ExistsRule(index)
    /\ rulesByID' = [rulesByID EXCEPT ![ruleKey(index)] = NoRule]
    /\ UNCHANGED <<rulesByAddr, shortIdByNodeId, nextShortID>>

\* The rulesMu section of RemoveRule; a missing rule changes nothing.
DeleteRule(index) ==
    /\ ExistsRule(index)
    /\ LET ruleID == ruleKey(index)
           addr == rulesByID[ruleID].rule.Address
       IN  /\ rulesByID' = [rulesByID EXCEPT ![ruleID] = NoRule]
           /\ rulesByAddr' = [rulesByAddr EXCEPT ![addr] = RemoveFirst(@, ruleID)]
    /\ UNCHANGED <<shortIdByNodeId, nextShortID>>

\* Mutant: the loop ends one rule early.
rulesAllowShort(holeInfo) ==
    \E i \in 1 .. Len(rulesByAddr[holeInfo.DstIP]) - 1 :
        LET ruleID == rulesByAddr[holeInfo.DstIP][i]
        IN  Matches(rulesByID[ruleID].rule, holeInfo)

\* rulesAllow: only the rules listed under the receiver's address are read.
rulesAllow(holeInfo) ==
    \E i \in 1 .. Len(rulesByAddr[holeInfo.DstIP]) :
        LET ruleID == rulesByAddr[holeInfo.DstIP][i]
        IN  Matches(rulesByID[ruleID].rule, holeInfo)

\* DumpRules: what the peers-sync server sends to other nodes.
DumpRules == {rulesByID[k] : k \in {g \in GlobalKey : rulesByID[g] # NoRule}}

FirewallNext ==
    \E index \in PortRuleIndex :
        \/ \E rule \in PortRules : AddRule(index, rule)
        \/ DeleteRule(index)

FirewallSpec == FirewallInit /\ [][FirewallNext]_fwVars

-----------------------------------------------------------------------------
FirewallTypeOK ==
    /\ rulesByAddr \in [Addresses -> Seq(GlobalKey)]
    /\ rulesByID \in [GlobalKey -> StoredRule \cup {NoRule}]
    /\ shortIdByNodeId \in [NodeIDs -> ShortID \cup {Nil}]
    /\ nextShortID \in ShortID

\* The address index lists every stored rule once, under its own address, and
\* nothing else: AddRule and RemoveRule keep the two maps in step, so the
\* lookup rulesByID[ruleId] of rulesAllow never meets a missing rule.
IndexMatchesStore ==
    \A a \in Addresses :
        /\ IsInjective(rulesByAddr[a])
        /\ \A k \in GlobalKey :
              (\E i \in 1 .. Len(rulesByAddr[a]) : rulesByAddr[a][i] = k)
                 <=> (rulesByID[k] # NoRule /\ rulesByID[k].rule.Address = a)

\* Two nodes never share a short id, so the 64-bit key of a rule names its
\* owner: makeGlobalKey confuses no two rules while at most 2^16 nodes are known.
ShortIDsUnique ==
    \A m, n \in NodeIDs :
        shortIdByNodeId[m] # Nil /\ shortIdByNodeId[m] = shortIdByNodeId[n] => m = n

\* A rule is stored under the key of its own index.
KeysHonest ==
    \A k \in GlobalKey :
        rulesByID[k] # NoRule =>
            /\ shortIdByNodeId[rulesByID[k].index.NodeID] = k[1]
            /\ rulesByID[k].index.RuleID = k[2]

\* The nodes that have a short id, and how nextShortID counts them: ids are dealt
\* from 1 upwards, and the counter is back at 0 only when all are dealt.
Assigned == {n \in NodeIDs : shortIdByNodeId[n] # Nil}

ShortIDsCounted ==
    /\ NoNode \notin Assigned
    /\ nextShortID = Cardinality(Assigned) % ShortMod
    /\ Cardinality(Assigned) < ShortMod =>
          \A n \in Assigned : shortIdByNodeId[n] \in 1 .. Cardinality(Assigned)

\* The inductive invariant of the store.
FirewallInv ==
    FirewallTypeOK /\ IndexMatchesStore /\ ShortIDsUnique /\ KeysHonest /\ ShortIDsCounted

-----------------------------------------------------------------------------
\* The store as the table of FirewallTable: the rule found under an index.
tableOf ==
    [index \in PortRuleIndex |->
        IF ExistsRule(index) THEN rulesByID[ruleKey(index)].rule ELSE NoRule]

Table == INSTANCE FirewallTable WITH rules <- tableOf

\* AddRule and RemoveRule on the compressed maps are Put and Drop on the table
\* of rules: adding, dropping or overwriting one node's rule never touches
\* another rule, whatever the short ids are.
ImplementsTable == Table!TableSpec

\* rulesAllow, which reads only the receiver's slice of keys, decides every
\* packet as the whole table does.
DecisionMatchesTable ==
    \A holeInfo \in HoleInfo : rulesAllow(holeInfo) <=> Table!Allowed(holeInfo)

\* DumpRules, which walks the keys, reports exactly the table: what other nodes
\* are told is one entry per index with the rule that index holds.
DumpMatchesTable ==
    DumpRules = {[index |-> i, rule |-> tableOf[i]] :
                    i \in {j \in PortRuleIndex : tableOf[j] # NoRule}}
=============================================================================
