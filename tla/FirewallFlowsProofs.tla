------------------------- MODULE FirewallFlowsProofs -------------------------
(***************************************************************************)
(* Proofs about the holes of the firewall, for any number of workers,      *)
(* removals, rules, packets and ticks: a removal misses no hole, a hole    *)
(* lets its own flow through and no other, and none is deleted too early.  *)
(***************************************************************************)
EXTENDS FirewallFlows, FirewallProofs

\* The packets that some rule allows.
Permitted == {hi \in HoleInfo : rulesAllow(hi)}

\* A removal that has still to look at the hole under k, or is about to drop it.
Sweeps(r, k) ==
    /\ r # Idle
    /\ \/ k \in r.must
       \/ r.at = "check" /\ r.key = k /\ r.info = holes[k].info
       \/ r.at = "drop" /\ r.key = k

\* A hole older than the last deletion of a rule, and allowed by no rule, is one
\* that a removal under way is going to drop.
SweepInv ==
    \A k \in FlowKeys :
        holes[k] # NoHole /\ holes[k].gen < deletes /\ holes[k].info \notin Permitted =>
            \E c \in Controllers : Sweeps(remover[c], k)

\* A worker handles the packets of its own shard, and a hole it has found expired
\* stays so.
WorkersInv ==
    \A w \in Workers : worker[w] # Idle =>
        /\ getWorker(info(w)) = w
        /\ worker[w].at = "expired" => ~ Live(key(w))

\* A hole is as old as the last packet of its flow.
PunchInv ==
    \A hi \in AllPackets :
        holes[makeFlowKey(hi)] # NoHole =>
            /\ punched[hi] \in Nat
            /\ holes[makeFlowKey(hi)].expire = punched[hi] + HoleTTL

FlowsTypes ==
    /\ holes \in [FlowKeys -> Hole \cup {NoHole}]
    /\ worker \in [Workers -> WorkerState]
    /\ remover \in [Controllers -> RemoverState]
    /\ now \in Nat /\ deletes \in 0 .. MaxDeletes

\* The inductive invariant.
FlowsInv ==
    FirewallInv /\ FlowsTypes /\ SweepInv /\ WorkersInv /\ PunchInv

-----------------------------------------------------------------------------
(* Rules, flows and shards.                                                *)

\* What a packet needs is a row of the dump that allows it.
LEMMA PermittedByDump ==
    FirewallInv =>
        \A hi \in HoleInfo :
            hi \in Permitted <=> \E x \in DumpRules : Allows(x.rule, hi)
<1> SUFFICES ASSUME FirewallInv, NEW hi \in HoleInfo
             PROVE  hi \in Permitted <=> \E x \in DumpRules : Allows(x.rule, hi)
  OBVIOUS
<1>1. hi \in Permitted <=> Table!Allowed(hi)
  BY DecisionIsTable DEF Permitted, DecisionMatchesTable
<1>2. Table!Allowed(hi) <=>
          \E j \in PortRuleIndex : tableOf[j] # NoRule /\ Allows(tableOf[j], hi)
  BY DEF Table!Allowed, Table!PortRuleIndex, PortRuleIndex, Table!Allows, Allows,
         Table!Matches, Matches, Table!PortMatches, PortMatches
<1>3. DumpRules = {[index |-> i, rule |-> tableOf[i]] :
                      i \in {j \in PortRuleIndex : tableOf[j] # NoRule}}
  BY DumpMatches DEF DumpMatchesTable
<1>4. ASSUME NEW j \in PortRuleIndex, tableOf[j] # NoRule, Allows(tableOf[j], hi)
      PROVE  \E x \in DumpRules : Allows(x.rule, hi)
  <2> DEFINE x == [index |-> j, rule |-> tableOf[j]]
  <2>1. x \in DumpRules /\ x.rule = tableOf[j]
    BY <1>3, <1>4
  <2> QED
    BY <2>1, <1>4
<1>5. ASSUME NEW x \in DumpRules, Allows(x.rule, hi)
      PROVE  \E j \in PortRuleIndex : tableOf[j] # NoRule /\ Allows(tableOf[j], hi)
  <2>1. PICK j \in PortRuleIndex : /\ tableOf[j] # NoRule
                                   /\ x = [index |-> j, rule |-> tableOf[j]]
    BY <1>3
  <2>2. x.rule = tableOf[j]
    BY <2>1
  <2> QED
    BY <2>1, <2>2, <1>5
<1> QED
  BY <1>1, <1>2, <1>4, <1>5

\* The same of the state after a step.
LEMMA PermittedByDumpNext ==
    FirewallInv' =>
        (\A hi \in HoleInfo :
            hi \in Permitted <=> \E x \in DumpRules : Allows(x.rule, hi))'
BY PermittedByDump, PTL

\* AddRule takes no permission away.
LEMMA AddRulePermits ==
    ASSUME FirewallInv, NEW index \in PortRuleIndex, NEW rule \in PortRules,
           AddRule(index, rule)
    PROVE  Permitted \subseteq Permitted'
<1>1. FirewallInv'
  BY AddRuleInv
<1>2. DumpRules \subseteq DumpRules'
  BY AddRuleDump
<1>3. ASSUME NEW hi \in Permitted PROVE hi \in Permitted'
  <2>1. hi \in HoleInfo
    BY DEF Permitted
  <2>2. PICK x \in DumpRules : Allows(x.rule, hi)
    BY <2>1, PermittedByDump
  <2> QED
    BY <1>1, <1>2, <2>1, <2>2, PermittedByDumpNext
<1> QED
  BY <1>3

\* A step that leaves the store alone leaves the permissions alone.
LEMMA SamePermissions == UNCHANGED fwVars => Permitted' = Permitted
BY DEF fwVars, Permitted, rulesAllow

\* getWorker gives both directions of a flow to one worker.
LEMMA FlowHasOneWorker ==
    ASSUME NEW a \in HoleInfo, NEW b \in HoleInfo, SameFlow(a, b)
    PROVE  getWorker(a) = getWorker(b)
<1>1. CASE a = b
  BY <1>1
<1>2. CASE a = Reply(b)
  <2> DEFINE swapped(h) == \/ h.SrcIP > h.DstIP
                           \/ h.SrcIP = h.DstIP /\ h.SrcPort > h.DstPort
  <2>1. /\ b.SrcIP \in Nat /\ b.DstIP \in Nat /\ b.SrcPort \in Nat /\ b.DstPort \in Nat
    <3>1. /\ b.SrcIP \in Addresses /\ b.DstIP \in Addresses
          /\ b.SrcPort \in Ports \cup {0} /\ b.DstPort \in Ports \cup {0}
      BY DEF HoleInfo
    <3>2. Addresses \subseteq Nat /\ Ports \cup {0} \subseteq Nat
      BY RulesAssumption
    <3> QED
      BY <3>1, <3>2
  <2>2. /\ a.SrcIP = b.DstIP /\ a.DstIP = b.SrcIP
        /\ a.SrcPort = b.DstPort /\ a.DstPort = b.SrcPort
    BY <1>2 DEF Reply
  <2>3. b = [SrcIP |-> b.SrcIP, DstIP |-> b.DstIP, SrcPort |-> b.SrcPort,
             DstPort |-> b.DstPort, Protocol |-> b.Protocol]
    BY DEF HoleInfo
  <2>4. Reply(a) = b
    BY <1>2, <2>3 DEF Reply
  <2>5. /\ getWorker(a) = Hash(IF swapped(a) THEN b ELSE a)
        /\ getWorker(b) = Hash(IF swapped(b) THEN a ELSE b)
    BY <1>2, <2>4 DEF getWorker
  <2>6. CASE swapped(b)
    <3>1. ~ swapped(a)
      BY <2>1, <2>2, <2>6
    <3> QED
      BY <2>5, <2>6, <3>1
  <2>7. CASE swapped(a)
    <3>1. ~ swapped(b)
      BY <2>1, <2>2, <2>7
    <3> QED
      BY <2>5, <2>7, <3>1
  <2>8. CASE ~ swapped(a) /\ ~ swapped(b)
    <3>1. b.SrcIP = b.DstIP /\ b.SrcPort = b.DstPort
      BY <2>1, <2>2, <2>8
    <3>2. a = b
      BY <1>2, <2>3, <3>1 DEF Reply
    <3> QED
      BY <3>2
  <2> QED
    BY <2>6, <2>7, <2>8
<1> QED
  BY <1>1, <1>2 DEF SameFlow

\* Packets with one key have one worker; a packet has a key.
LEMMA KeyOfPacket ==
    ASSUME NEW a \in AllPackets
    PROVE  /\ a \in HoleInfo /\ makeFlowKey(a) \in FlowKeys
           /\ \A b \in AllPackets :
                 /\ makeFlowKey(a) = makeFlowKey(b) <=> SameFlow(a, b)
                 /\ makeFlowKey(a) = makeFlowKey(b) => getWorker(a) = getWorker(b)
<1>1. AllPackets \subseteq HoleInfo
  BY FlowsAssumption DEF AllPackets
<1>2. makeFlowKey(a) \in FlowKeys
  BY DEF FlowKeys
<1>3. ASSUME NEW b \in AllPackets
      PROVE  /\ makeFlowKey(a) = makeFlowKey(b) <=> SameFlow(a, b)
             /\ makeFlowKey(a) = makeFlowKey(b) => getWorker(a) = getWorker(b)
  BY <1>1, FlowKeyCorrect, FlowHasOneWorker
<1> QED
  BY <1>1, <1>2, <1>3

-----------------------------------------------------------------------------
(* The states of a worker and of a removal.                                *)

\* A busy worker has a packet.
LEMMA WorkerShape ==
    ASSUME NEW s \in WorkerState, s # Idle
    PROVE  s.at \in {"load", "expired", "rules", "punch"} /\ s.info \in Packets
BY DEF WorkerState

\* What Become may put into worker[w].
LEMMA WorkerBusy ==
    ASSUME NEW a \in {"load", "expired", "rules", "punch"}, NEW hi \in Packets
    PROVE  LET s == [at |-> a, info |-> hi]
           IN  s \in WorkerState /\ s # Idle /\ s.at = a /\ s.info = hi
<1> DEFINE s == [at |-> a, info |-> hi]
<1>1. s.at = a /\ s.info = hi /\ s \in WorkerState
  BY DEF WorkerState
<1>2. Idle.at = "idle"
  BY DEF Idle
<1> QED
  BY <1>1, <1>2

\* A packet of a worker is a packet; an idle worker or removal is at no step.
LEMMA IdleFacts ==
    /\ Idle.at = "idle" /\ Idle \in WorkerState /\ Idle \in RemoverState
    /\ Packets \subseteq AllPackets /\ MeshPackets \subseteq AllPackets
BY DEF Idle, WorkerState, RemoverState, AllPackets

\* The fields of a removal under way.
LEMMA RemoverShape ==
    ASSUME NEW r \in RemoverState, r # Idle
    PROVE  /\ r.at \in {"range", "check", "drop"}
           /\ r.must \in SUBSET FlowKeys /\ r.unmet \in SUBSET FlowKeys
           /\ r.at # "range" => r.key \in FlowKeys /\ r.info \in AllPackets
<1>1. CASE r \in [at : {"range"}, must : SUBSET FlowKeys, unmet : SUBSET FlowKeys]
  BY <1>1
<1>2. CASE r \in [at : {"range", "check", "drop"}, must : SUBSET FlowKeys,
                  unmet : SUBSET FlowKeys, key : FlowKeys, info : AllPackets]
  BY <1>2
<1> QED
  BY <1>1, <1>2 DEF RemoverState

\* A key leaves must because its hole is gone.
LEMMA MustUpdate ==
    ASSUME NEW r \in RemoverState, r # Idle, NEW k
    PROVE  LET q == [r EXCEPT !.must = @ \ {k}]
           IN  /\ q \in RemoverState /\ q # Idle
               /\ q.at = r.at /\ q.must = r.must \ {k}
               /\ r.at # "range" => q.key = r.key /\ q.info = r.info
<1> DEFINE q == [r EXCEPT !.must = @ \ {k}]
<1>0. Idle.at = "idle"
  BY DEF Idle
<1>1. CASE r \in [at : {"range"}, must : SUBSET FlowKeys, unmet : SUBSET FlowKeys]
  <2>1. /\ q \in [at : {"range"}, must : SUBSET FlowKeys, unmet : SUBSET FlowKeys]
        /\ q.at = "range" /\ r.at = "range" /\ q.must = r.must \ {k}
    BY <1>1
  <2> HIDE DEF q
  <2> QED
    BY <1>0, <2>1 DEF RemoverState
<1>2. CASE r \in [at : {"range", "check", "drop"}, must : SUBSET FlowKeys,
                  unmet : SUBSET FlowKeys, key : FlowKeys, info : AllPackets]
  <2>1. /\ q \in [at : {"range", "check", "drop"}, must : SUBSET FlowKeys,
                  unmet : SUBSET FlowKeys, key : FlowKeys, info : AllPackets]
        /\ q.at = r.at /\ q.must = r.must \ {k} /\ q.key = r.key /\ q.info = r.info
        /\ r.at \in {"range", "check", "drop"}
    BY <1>2
  <2> HIDE DEF q
  <2> QED
    BY <1>0, <2>1 DEF RemoverState
<1> QED
  BY <1>1, <1>2 DEF RemoverState

\* The callback of Range goes on to its next step.
LEMMA AtUpdate ==
    ASSUME NEW r \in RemoverState, r.at \in {"check", "drop"}, NEW a \in {"range", "drop"}
    PROVE  LET q == [r EXCEPT !.at = a]
           IN  /\ q \in RemoverState /\ q # Idle /\ r # Idle
               /\ q.at = a /\ q.must = r.must /\ q.key = r.key /\ q.info = r.info
<1> DEFINE q == [r EXCEPT !.at = a]
<1>0. Idle.at = "idle"
  BY DEF Idle
<1>1. r \in [at : {"range", "check", "drop"}, must : SUBSET FlowKeys,
             unmet : SUBSET FlowKeys, key : FlowKeys, info : AllPackets]
  BY <1>0 DEF RemoverState
<1>2. /\ q \in [at : {"range", "check", "drop"}, must : SUBSET FlowKeys,
                unmet : SUBSET FlowKeys, key : FlowKeys, info : AllPackets]
      /\ q.at = a /\ q.must = r.must /\ q.key = r.key /\ q.info = r.info
  BY <1>1
<1> HIDE DEF q
<1> QED
  BY <1>0, <1>2 DEF RemoverState

-----------------------------------------------------------------------------
(* What a step must leave alone.                                           *)

\* No hole, removal or rule disappears, so none is missed.
LEMMA SweepKept ==
    ASSUME SweepInv, UNCHANGED <<holes, remover, deletes>>, Permitted \subseteq Permitted'
    PROVE  SweepInv'
BY DEF SweepInv, Sweeps

\* Holes are deleted at most.
LEMMA PunchKept ==
    ASSUME PunchInv, UNCHANGED punched,
           \A k \in FlowKeys : holes'[k] = holes[k] \/ holes'[k] = NoHole
    PROVE  PunchInv'
BY KeyOfPacket DEF PunchInv

\* The workers stand still and no hole is renewed.
LEMMA WorkersKept ==
    ASSUME FlowsTypes, WorkersInv, UNCHANGED worker, now' \in Nat, now <= now',
           \A k \in FlowKeys : holes'[k] = holes[k] \/ holes'[k] = NoHole
    PROVE  WorkersInv'
<1> SUFFICES ASSUME NEW w \in Workers, worker[w] # Idle
             PROVE  /\ getWorker(info(w)) = w
                    /\ worker[w].at = "expired" =>
                         ~ (holes'[key(w)] # NoHole /\ now' < holes'[key(w)].expire)
  BY DEF WorkersInv, Live, key, info
<1>1. getWorker(info(w)) = w /\ (worker[w].at = "expired" => ~ Live(key(w)))
  BY DEF WorkersInv
<1>2. info(w) \in AllPackets
  BY WorkerShape, IdleFacts DEF FlowsTypes, info
<1>3. key(w) \in FlowKeys
  BY <1>2, KeyOfPacket DEF key
<1>4. holes[key(w)] # NoHole => holes[key(w)].expire \in Nat
  BY <1>3 DEF FlowsTypes, Hole
<1> QED
  BY <1>1, <1>3, <1>4 DEF Live, FlowsTypes

\* A worker takes a step with a packet of its shard, and no hole is renewed.
LEMMA WorkerMoves ==
    ASSUME FlowsInv, NEW w \in Workers, NEW s \in WorkerState, Become(w, s),
           UNCHANGED now,
           \A k \in FlowKeys : holes'[k] = holes[k] \/ holes'[k] = NoHole,
           s # Idle => /\ getWorker(s.info) = w
                       /\ s.at = "expired" => ~ Live(makeFlowKey(s.info))
    PROVE  worker' \in [Workers -> WorkerState] /\ WorkersInv'
<1>1. worker' \in [Workers -> WorkerState]
  BY DEF Become, FlowsInv, FlowsTypes
<1>2. ASSUME NEW v \in Workers, worker'[v] # Idle
      PROVE  /\ getWorker(worker'[v].info) = v
             /\ worker'[v].at = "expired" => ~ Live(makeFlowKey(worker'[v].info))
  BY <1>2 DEF Become, FlowsInv, FlowsTypes, WorkersInv, info, key
<1>3. ASSUME NEW v \in Workers, worker'[v] # Idle
      PROVE  makeFlowKey(worker'[v].info) \in FlowKeys
  BY <1>1, <1>3, WorkerShape, IdleFacts, KeyOfPacket
<1>4. ASSUME NEW k \in FlowKeys, ~ Live(k)
      PROVE  ~ (holes'[k] # NoHole /\ now' < holes'[k].expire)
  BY <1>4 DEF Live
<1> QED
  BY <1>1, <1>2, <1>3, <1>4 DEF WorkersInv, Live, key, info

\* Holepunch by the worker of the flow.  No other worker has a packet of it, so the
\* hole renewed is not one that a worker has found expired; the hole is newer than
\* every deletion of a rule.
LEMMA HolepunchKeepsInv ==
    ASSUME FlowsInv, NEW w \in Workers, NEW hi \in AllPackets, getWorker(hi) = w,
           Holepunch(hi), worker' \in [Workers -> WorkerState], worker'[w] = Idle,
           \A v \in Workers : v # w => worker'[v] = worker[v],
           UNCHANGED <<fwVars, remover, now, deletes>>
    PROVE  FlowsTypes' /\ SweepInv' /\ WorkersInv' /\ PunchInv'
<1> DEFINE p == makeFlowKey(hi)
           h == [info |-> hi, expire |-> now + HoleTTL, gen |-> deletes]
<1>0. /\ FlowsTypes /\ SweepInv /\ WorkersInv /\ PunchInv
      /\ now \in Nat /\ HoleTTL \in Nat /\ deletes \in 0 .. MaxDeletes
      /\ holes \in [FlowKeys -> Hole \cup {NoHole}]
  BY FlowsAssumption DEF FlowsInv, FlowsTypes
<1>1. h \in Hole /\ h.expire = now + HoleTTL /\ h.gen = deletes
  BY <1>0 DEF Hole
<1>2. p \in FlowKeys
  BY KeyOfPacket
<1> HIDE DEF p, h
<1>3. holes' = [holes EXCEPT ![p] = h]
  BY DEF Holepunch, p, h
<1>4. holes'[p] = h /\ \A k \in FlowKeys : k # p => holes'[k] = holes[k]
  BY <1>0, <1>2, <1>3
<1>5. FlowsTypes'
  BY <1>0, <1>1, <1>3 DEF FlowsTypes
<1>6. SweepInv'
  <2> SUFFICES ASSUME NEW k \in FlowKeys, holes'[k] # NoHole, holes'[k].gen < deletes,
                      holes'[k].info \notin Permitted
               PROVE  \E c \in Controllers : Sweeps(remover[c], k)'
    BY SamePermissions DEF SweepInv
  <2>1. k # p
    BY <1>0, <1>1, <1>4
  <2>2. holes'[k] = holes[k]
    BY <1>4, <2>1
  <2>3. PICK c \in Controllers : Sweeps(remover[c], k)
    BY <1>0, <2>2 DEF SweepInv
  <2> QED
    BY <2>2, <2>3 DEF Sweeps
<1>7. WorkersInv'
  <2> SUFFICES ASSUME NEW v \in Workers, worker'[v] # Idle
               PROVE  /\ getWorker(worker'[v].info) = v
                      /\ worker'[v].at = "expired" =>
                           LET k == makeFlowKey(worker'[v].info)
                           IN  ~ (holes'[k] # NoHole /\ now < holes'[k].expire)
    BY DEF WorkersInv, Live, key, info
  <2>1. v # w /\ worker'[v] = worker[v]
    OBVIOUS
  <2> DEFINE k == makeFlowKey(worker[v].info)
  <2>2. getWorker(worker[v].info) = v /\ (worker[v].at = "expired" => ~ Live(k))
    BY <1>0, <2>1 DEF WorkersInv, info, key
  <2>3. worker[v].info \in AllPackets
    BY <1>0, <2>1, WorkerShape, IdleFacts DEF FlowsTypes
  <2>4. k \in FlowKeys /\ k # p
    BY <2>1, <2>2, <2>3, KeyOfPacket DEF p
  <2> HIDE DEF k
  <2>5. holes'[k] = holes[k]
    BY <1>4, <2>4
  <2> QED
    BY <2>1, <2>2, <2>5 DEF Live, k
<1>8. PunchInv'
  <2> SUFFICES ASSUME NEW g \in AllPackets, holes'[makeFlowKey(g)] # NoHole
               PROVE  /\ punched'[g] \in Nat
                      /\ holes'[makeFlowKey(g)].expire = punched'[g] + HoleTTL
    BY DEF PunchInv
  <2>1. makeFlowKey(g) \in FlowKeys /\ (makeFlowKey(g) = p <=> SameFlow(g, hi))
    BY KeyOfPacket DEF p
  <2>2. punched'[g] = IF SameFlow(g, hi) THEN now ELSE punched[g]
    BY DEF Holepunch
  <2>3. CASE SameFlow(g, hi)
    BY <1>0, <1>1, <1>4, <2>1, <2>2, <2>3
  <2>4. CASE ~ SameFlow(g, hi)
    BY <1>0, <1>4, <2>1, <2>2, <2>4 DEF PunchInv
  <2> QED
    BY <2>3, <2>4
<1> QED
  BY <1>5, <1>6, <1>7, <1>8

-----------------------------------------------------------------------------
(* The steps of a worker.                                                  *)

\* A packet comes in; the worker looks its hole up, or asks the rules.
LEMMA WorkerLooks ==
    ASSUME FlowsInv, NEW w \in Workers,
           \/ \E hi \in Packets : TransportPacket(w, hi)
           \/ LoadHole(w)
           \/ CheckRules(w)
    PROVE  FlowsTypes' /\ SweepInv' /\ WorkersInv' /\ PunchInv'
<1>0. FlowsTypes /\ SweepInv /\ WorkersInv /\ PunchInv
  BY DEF FlowsInv
<1>1. UNCHANGED <<fwVars, holes, remover, now, deletes, punched>>
  BY DEF TransportPacket, LoadHole, CheckRules
<1>2. SweepInv' /\ PunchInv'
  BY <1>0, <1>1, SweepKept, PunchKept, SamePermissions
<1>3. worker' \in [Workers -> WorkerState] /\ WorkersInv'
  <2>1. ASSUME NEW hi \in Packets, TransportPacket(w, hi)
        PROVE  worker' \in [Workers -> WorkerState] /\ WorkersInv'
    <3> DEFINE s == [at |-> "load", info |-> hi]
    <3>1. s \in WorkerState /\ s.info = hi /\ s.at = "load"
      BY WorkerBusy
    <3>2. Become(w, s) /\ getWorker(hi) = w
      BY <2>1 DEF TransportPacket
    <3> HIDE DEF s
    <3> QED
      BY <1>1, <3>1, <3>2, WorkerMoves
  <2> DEFINE hi == info(w)
  <2>2. ASSUME worker[w] # Idle
        PROVE  hi \in Packets /\ getWorker(hi) = w
    BY <1>0, <2>2, WorkerShape DEF FlowsTypes, WorkersInv, info
  <2>3. CASE LoadHole(w)
    <3> DEFINE a == CASE Live(key(w)) -> "punch"
                      [] holes[key(w)] = NoHole -> "rules"
                      [] OTHER -> "expired"
               s == [at |-> a, info |-> hi]
    <3>1. Become(w, s) /\ worker[w] # Idle
      BY <2>3, IdleFacts DEF LoadHole
    <3>2. a \in {"load", "expired", "rules", "punch"} /\ (a = "expired" => ~ Live(key(w)))
      BY DEF Live
    <3> HIDE DEF a
    <3>3. s \in WorkerState /\ s.at = a /\ s.info = hi
      BY <2>2, <3>1, <3>2, WorkerBusy
    <3>4. key(w) = makeFlowKey(hi)
      BY DEF key
    <3> HIDE DEF s, hi
    <3> QED
      BY <1>1, <2>2, <3>1, <3>2, <3>3, <3>4, WorkerMoves
  <2>4. CASE CheckRules(w)
    <3> DEFINE s == [at |-> "punch", info |-> hi]
    <3>1. Become(w, IF rulesAllow(hi) THEN s ELSE Idle) /\ worker[w] # Idle
      BY <2>4, IdleFacts DEF CheckRules
    <3>2. s \in WorkerState /\ s.at = "punch" /\ s.info = hi
      BY <2>2, <3>1, WorkerBusy
    <3> HIDE DEF s, hi
    <3>3. CASE rulesAllow(hi)
      <4>1. Become(w, s)
        BY <3>1, <3>3
      <4> QED
        BY <1>1, <2>2, <3>1, <3>2, <4>1, WorkerMoves
    <3>4. CASE ~ rulesAllow(hi)
      <4>1. Become(w, Idle)
        BY <3>1, <3>4
      <4> QED
        BY <1>1, <4>1, IdleFacts, WorkerMoves
    <3> QED
      BY <3>3, <3>4
  <2> QED
    BY <2>1, <2>3, <2>4
<1>4. FlowsTypes'
  BY <1>0, <1>1, <1>3 DEF FlowsTypes
<1> QED
  BY <1>2, <1>3, <1>4

\* A packet that the firewall lets through, or that another node has checked,
\* punches its hole.
LEMMA WorkerPunches ==
    ASSUME FlowsInv, NEW w \in Workers,
           (\E hi \in MeshPackets : MeshPacket(w, hi)) \/ PunchAndSend(w)
    PROVE  FlowsTypes' /\ SweepInv' /\ WorkersInv' /\ PunchInv'
<1>0. worker \in [Workers -> WorkerState] /\ WorkersInv
  BY DEF FlowsInv, FlowsTypes
<1>1. ASSUME NEW hi \in MeshPackets, MeshPacket(w, hi)
      PROVE  FlowsTypes' /\ SweepInv' /\ WorkersInv' /\ PunchInv'
  <2>1. /\ hi \in AllPackets /\ getWorker(hi) = w /\ Holepunch(hi)
        /\ UNCHANGED <<fwVars, worker, remover, now, deletes>> /\ worker[w] = Idle
    BY <1>1, IdleFacts DEF MeshPacket
  <2> QED
    BY <1>0, <2>1, HolepunchKeepsInv
<1>2. CASE PunchAndSend(w)
  <2> DEFINE hi == info(w)
  <2>1. worker[w] # Idle /\ Holepunch(hi) /\ Become(w, Idle)
    BY <1>2, IdleFacts DEF PunchAndSend
  <2>2. hi \in AllPackets /\ getWorker(hi) = w
    BY <1>0, <2>1, WorkerShape, IdleFacts DEF WorkersInv, info
  <2>3. /\ worker' \in [Workers -> WorkerState] /\ worker'[w] = Idle
        /\ \A v \in Workers : v # w => worker'[v] = worker[v]
    BY <1>0, <2>1, IdleFacts DEF Become
  <2>4. UNCHANGED <<fwVars, remover, now, deletes>>
    BY <1>2 DEF PunchAndSend
  <2> HIDE DEF hi
  <2> QED
    BY <2>1, <2>2, <2>3, <2>4, HolepunchKeepsInv
<1> QED
  BY <1>1, <1>2

\* A worker deletes the hole it has found expired: the removals need not meet it.
LEMMA WorkerDeletes ==
    ASSUME FlowsInv, NEW w \in Workers, DeleteExpired(w)
    PROVE  FlowsTypes' /\ SweepInv' /\ WorkersInv' /\ PunchInv'
<1> DEFINE p == key(w)
           s == [at |-> "rules", info |-> info(w)]
<1>0. /\ FlowsTypes /\ SweepInv /\ WorkersInv /\ PunchInv
      /\ holes \in [FlowKeys -> Hole \cup {NoHole}]
      /\ remover \in [Controllers -> RemoverState]
  BY DEF FlowsInv, FlowsTypes
<1>1. /\ UNCHANGED <<fwVars, now, deletes, punched>> /\ worker[w] # Idle
      /\ Become(w, s)
      /\ holes' = [holes EXCEPT ![p] = NoHole]
  BY IdleFacts DEF DeleteExpired, Delete
<1>2. info(w) \in Packets /\ getWorker(info(w)) = w
  BY <1>0, <1>1, WorkerShape DEF FlowsTypes, WorkersInv, info
<1>3. s \in WorkerState /\ s.at = "rules" /\ s.info = info(w)
  BY <1>2, WorkerBusy
<1>4. ASSUME NEW c \in Controllers
      PROVE  remover'[c] = IF remover[c] = Idle THEN Idle
                           ELSE [remover[c] EXCEPT !.must = @ \ {p}]
  BY DEF DeleteExpired, Delete
<1> HIDE DEF s, p
<1>4a. ASSUME NEW c \in Controllers, remover[c] # Idle
       PROVE  /\ remover'[c] \in RemoverState /\ remover'[c] # Idle
              /\ remover'[c].at = remover[c].at
              /\ remover'[c].must = remover[c].must \ {p}
              /\ remover[c].at # "range" => /\ remover'[c].key = remover[c].key
                                            /\ remover'[c].info = remover[c].info
  <2> DEFINE r == remover[c]
             q == [r EXCEPT !.must = @ \ {p}]
  <2>1. r \in RemoverState /\ r # Idle /\ remover'[c] = q
    BY <1>0, <1>4, <1>4a
  <2> HIDE DEF r
  <2>2. /\ q \in RemoverState /\ q # Idle /\ q.at = r.at /\ q.must = r.must \ {p}
        /\ r.at # "range" => q.key = r.key /\ q.info = r.info
    BY <2>1, MustUpdate
  <2> HIDE DEF q
  <2> QED
    BY <2>1, <2>2 DEF r
<1>5. \A k \in FlowKeys : holes'[k] = IF k = p THEN NoHole ELSE holes[k]
  BY <1>0, <1>1
<1>6. worker' \in [Workers -> WorkerState] /\ WorkersInv' /\ PunchInv'
  BY <1>0, <1>1, <1>2, <1>3, <1>5, WorkerMoves, PunchKept
<1>7. remover' \in [Controllers -> RemoverState]
  <2>1. \A c \in Controllers : remover'[c] \in RemoverState
    BY <1>4, <1>4a, IdleFacts
  <2>2. remover' = [c \in Controllers |-> remover'[c]]
    BY DEF DeleteExpired, Delete
  <2> QED
    BY <2>1, <2>2
<1>8. FlowsTypes'
  BY <1>0, <1>1, <1>6, <1>7 DEF FlowsTypes
<1>9. SweepInv'
  <2> SUFFICES ASSUME NEW k \in FlowKeys, holes'[k] # NoHole, holes'[k].gen < deletes,
                      holes'[k].info \notin Permitted
               PROVE  \E c \in Controllers : Sweeps(remover[c], k)'
    BY <1>1, SamePermissions DEF SweepInv
  <2>1. k # p /\ holes'[k] = holes[k]
    BY <1>5
  <2>2. PICK c \in Controllers : Sweeps(remover[c], k)
    BY <1>0, <2>1 DEF SweepInv
  <2>3. /\ remover[c] # Idle /\ remover'[c] # Idle /\ remover'[c].at = remover[c].at
        /\ remover'[c].must = remover[c].must \ {p}
        /\ remover[c].at # "range" => /\ remover'[c].key = remover[c].key
                                      /\ remover'[c].info = remover[c].info
    BY <1>4a, <2>2 DEF Sweeps
  <2> QED
    BY <2>1, <2>2, <2>3 DEF Sweeps
<1> QED
  BY <1>6, <1>8, <1>9

-----------------------------------------------------------------------------
(* The steps of the control plane and of the clock.                        *)

\* A new rule permits more; the clock makes no hole live again.
LEMMA AddOrTick ==
    ASSUME FlowsInv,
           \/ \E index \in PortRuleIndex, rule \in PortRules : ControlAddRule(index, rule)
           \/ Tick
    PROVE  FlowsTypes' /\ SweepInv' /\ WorkersInv' /\ PunchInv'
<1>0. FlowsTypes /\ SweepInv /\ WorkersInv /\ PunchInv /\ FirewallInv /\ now \in Nat
  BY DEF FlowsInv, FlowsTypes
<1>1. /\ UNCHANGED <<holes, worker, remover, deletes, punched>>
      /\ now' \in Nat /\ now <= now'
  BY <1>0 DEF ControlAddRule, Tick, flowVars
<1>2. Permitted \subseteq Permitted'
  <2>1. ASSUME NEW index \in PortRuleIndex, NEW rule \in PortRules,
               ControlAddRule(index, rule)
        PROVE  Permitted \subseteq Permitted'
    BY <1>0, <2>1, AddRulePermits DEF ControlAddRule
  <2>2. ASSUME Tick PROVE Permitted \subseteq Permitted'
    BY <2>2, SamePermissions DEF Tick
  <2> QED
    BY <2>1, <2>2
<1>3. SweepInv' /\ WorkersInv' /\ PunchInv'
  BY <1>0, <1>1, <1>2, SweepKept, WorkersKept, PunchKept
<1>4. FlowsTypes'
  BY <1>0, <1>1 DEF FlowsTypes
<1> QED
  BY <1>3, <1>4

\* A step of removals that deletes holes at most keeps what concerns the workers.
LEMMA RemovalKeeps ==
    ASSUME FlowsInv, UNCHANGED <<worker, now, punched>>, deletes' \in 0 .. MaxDeletes,
           holes' \in [FlowKeys -> Hole \cup {NoHole}],
           \A k \in FlowKeys : holes'[k] = holes[k] \/ holes'[k] = NoHole,
           remover' \in [Controllers -> RemoverState]
    PROVE  FlowsTypes' /\ WorkersInv' /\ PunchInv'
<1>0. FlowsTypes /\ WorkersInv /\ PunchInv /\ now \in Nat
  BY DEF FlowsInv, FlowsTypes
<1>1. WorkersInv' /\ PunchInv'
  BY <1>0, WorkersKept, PunchKept
<1>2. FlowsTypes'
  BY <1>0 DEF FlowsTypes
<1> QED
  BY <1>1, <1>2

\* RemoveRule: every hole that is there must be met by the Range that begins.
LEMMA RemoveRuleKeepsInv ==
    ASSUME FlowsInv, NEW c \in Controllers, NEW index \in PortRuleIndex,
           RemoveRule(c, index)
    PROVE  FlowsTypes' /\ SweepInv' /\ WorkersInv' /\ PunchInv'
<1> DEFINE r == [at |-> "range", must |-> {k \in FlowKeys : holes[k] # NoHole},
                 unmet |-> FlowKeys]
<1>0. /\ holes \in [FlowKeys -> Hole \cup {NoHole}]
      /\ remover \in [Controllers -> RemoverState]
      /\ deletes \in 0 .. MaxDeletes /\ MaxDeletes \in Nat
  BY FlowsAssumption DEF FlowsInv, FlowsTypes
<1>1. r \in RemoverState /\ r # Idle /\ r.must = {k \in FlowKeys : holes[k] # NoHole}
  <2>1. /\ r \in [at : {"range"}, must : SUBSET FlowKeys, unmet : SUBSET FlowKeys]
        /\ r.at = "range" /\ r.must = {k \in FlowKeys : holes[k] # NoHole}
    OBVIOUS
  <2> HIDE DEF r
  <2> QED
    BY <2>1, IdleFacts DEF RemoverState
<1>2. /\ remover' = [remover EXCEPT ![c] = r] /\ deletes < MaxDeletes
      /\ deletes' = deletes + 1 /\ UNCHANGED <<holes, worker, now, punched>>
  BY DEF RemoveRule
<1> HIDE DEF r
<1>3. remover' \in [Controllers -> RemoverState] /\ remover'[c] = r
  BY <1>0, <1>1, <1>2
<1>4. FlowsTypes' /\ WorkersInv' /\ PunchInv'
  BY <1>0, <1>2, <1>3, RemovalKeeps
<1>5. SweepInv'
  BY <1>1, <1>2, <1>3 DEF SweepInv, Sweeps
<1> QED
  BY <1>4, <1>5

\* Range meets a hole, its callback asks the rules, or the call returns: a hole that
\* this removal had to meet is one it now examines, then one it is about to drop.
LEMMA RangeKeepsInv ==
    ASSUME FlowsInv, NEW c \in Controllers,
           \/ \E k \in FlowKeys : RangeNext(c, k)
           \/ RangeCheck(c)
           \/ RemoveReturn(c)
    PROVE  FlowsTypes' /\ SweepInv' /\ WorkersInv' /\ PunchInv'
<1>0. /\ SweepInv /\ holes \in [FlowKeys -> Hole \cup {NoHole}]
      /\ remover \in [Controllers -> RemoverState] /\ deletes \in 0 .. MaxDeletes
  BY DEF FlowsInv, FlowsTypes
<1>1. UNCHANGED <<fwVars, holes, worker, now, deletes, punched>>
  BY DEF RangeNext, RangeCheck, RemoveReturn
<1> DEFINE Goes(r) == /\ remover' = [remover EXCEPT ![c] = r] /\ r \in RemoverState
                      /\ \A k \in FlowKeys :
                            /\ Sweeps(remover[c], k) /\ holes[k].info \notin Permitted
                            => Sweeps(r, k)
<1>2. ASSUME NEW r, Goes(r)
      PROVE  FlowsTypes' /\ SweepInv' /\ WorkersInv' /\ PunchInv'
  <2>1. remover' \in [Controllers -> RemoverState]
    BY <1>0, <1>2
  <2>2. FlowsTypes' /\ WorkersInv' /\ PunchInv'
    BY <1>0, <1>1, <2>1, RemovalKeeps
  <2>3. SweepInv'
    <3> SUFFICES ASSUME NEW k \in FlowKeys, holes[k] # NoHole, holes[k].gen < deletes,
                        holes[k].info \notin Permitted
                 PROVE  \E d \in Controllers : Sweeps(remover[d], k)'
      BY <1>1, SamePermissions DEF SweepInv
    <3>1. PICK d \in Controllers : Sweeps(remover[d], k)
      BY <1>0 DEF SweepInv
    <3>2. Sweeps(remover'[d], k)
      BY <1>0, <1>2, <3>1
    <3> QED
      BY <1>1, <3>2 DEF Sweeps
  <2> QED
    BY <2>2, <2>3
<1> HIDE DEF Goes
<1>3. ASSUME NEW k \in FlowKeys, RangeNext(c, k) PROVE \E r : Goes(r)
  <2> DEFINE o == remover[c]
             r == [at |-> "check", must |-> o.must \ {k}, unmet |-> o.unmet \ {k},
                   key |-> k, info |-> holes[k].info]
  <2>1. /\ o.at = "range" /\ holes[k] # NoHole
        /\ remover' = [remover EXCEPT ![c] = r]
    BY <1>0, <1>3 DEF RangeNext
  <2>2. o \in RemoverState /\ o # Idle
    BY <1>0, <2>1, IdleFacts
  <2>3. o.must \in SUBSET FlowKeys /\ o.unmet \in SUBSET FlowKeys
    BY <2>2, RemoverShape
  <2>4. holes[k].info \in AllPackets
    BY <1>0, <2>1 DEF Hole
  <2> HIDE DEF o
  <2>5. /\ r \in [at : {"range", "check", "drop"}, must : SUBSET FlowKeys,
                  unmet : SUBSET FlowKeys, key : FlowKeys, info : AllPackets]
        /\ r.at = "check" /\ r.must = o.must \ {k} /\ r.key = k /\ r.info = holes[k].info
    BY <2>3, <2>4
  <2> HIDE DEF r
  <2>6. r \in RemoverState /\ r # Idle
    BY <2>5, IdleFacts DEF RemoverState
  <2>7. ASSUME NEW l \in FlowKeys, Sweeps(o, l) PROVE Sweeps(r, l)
    BY <2>1, <2>5, <2>6, <2>7 DEF Sweeps
  <2>8. Goes(r)
    BY <2>1, <2>6, <2>7 DEF Goes, o
  <2> QED
    BY <2>8
<1>4. ASSUME RangeCheck(c) PROVE \E r : Goes(r)
  <2> DEFINE o == remover[c]
             a == IF rulesAllow(o.info) THEN "range" ELSE "drop"
             r == [o EXCEPT !.at = a]
  <2>1. o.at = "check" /\ remover' = [remover EXCEPT ![c] = r]
    BY <1>0, <1>4 DEF RangeCheck
  <2>2. o \in RemoverState /\ o # Idle
    BY <1>0, <2>1, IdleFacts
  <2>3. o.info \in AllPackets
    BY <2>1, <2>2, RemoverShape
  <2>4. a \in {"range", "drop"} /\ (o.info \notin Permitted => a = "drop")
    BY <2>3, KeyOfPacket DEF Permitted
  <2> HIDE DEF o, a
  <2>5. /\ r \in RemoverState /\ r # Idle
        /\ r.at = a /\ r.must = o.must /\ r.key = o.key /\ r.info = o.info
    BY <2>1, <2>2, <2>4, AtUpdate
  <2> HIDE DEF r
  <2>6. ASSUME NEW l \in FlowKeys, Sweeps(o, l), holes[l].info \notin Permitted
        PROVE  Sweeps(r, l)
    BY <2>1, <2>4, <2>5, <2>6 DEF Sweeps
  <2>7. Goes(r)
    BY <2>1, <2>5, <2>6 DEF Goes, o
  <2> QED
    BY <2>7
<1>5. ASSUME RemoveReturn(c) PROVE \E r : Goes(r)
  <2>1. /\ remover[c].at = "range" /\ remover[c].must = {}
        /\ remover' = [remover EXCEPT ![c] = Idle]
    BY <1>5 DEF RemoveReturn
  <2>2. Goes(Idle)
    BY <2>1, IdleFacts DEF Goes, Sweeps
  <2> QED
    BY <2>2
<1> QED
  BY <1>2, <1>3, <1>4, <1>5

\* The callback deletes the hole it has condemned; what this removal has still to
\* meet stays so, and the other removals need not meet this hole.
LEMMA RangeDropKeepsInv ==
    ASSUME FlowsInv, NEW c \in Controllers, RangeDrop(c)
    PROVE  FlowsTypes' /\ SweepInv' /\ WorkersInv' /\ PunchInv'
<1> DEFINE p == remover[c].key
<1>0. /\ SweepInv /\ holes \in [FlowKeys -> Hole \cup {NoHole}]
      /\ remover \in [Controllers -> RemoverState] /\ deletes \in 0 .. MaxDeletes
  BY DEF FlowsInv, FlowsTypes
<1>1. /\ remover[c].at = "drop" /\ holes' = [holes EXCEPT ![p] = NoHole]
      /\ UNCHANGED <<fwVars, worker, now, deletes, punched>>
  BY DEF RangeDrop
<1>2. ASSUME NEW d \in Controllers
      PROVE  remover'[d] = CASE remover[d] = Idle -> Idle
                             [] d = c -> [remover[d] EXCEPT !.at = "range"]
                             [] OTHER -> [remover[d] EXCEPT !.must = @ \ {p}]
  BY DEF RangeDrop
<1>3. remover' = [d \in Controllers |-> remover'[d]]
  BY DEF RangeDrop
<1> HIDE DEF p
<1>4. ASSUME NEW d \in Controllers, remover[d] # Idle
      PROVE  /\ remover'[d] \in RemoverState /\ remover'[d] # Idle
             /\ \A k \in FlowKeys : k \in remover[d].must /\ k # p => k \in remover'[d].must
             /\ d # c => /\ remover'[d].at = remover[d].at
                         /\ remover[d].at # "range" => /\ remover'[d].key = remover[d].key
                                                       /\ remover'[d].info = remover[d].info
  <2> DEFINE r == remover[d]
  <2>1. r \in RemoverState /\ r # Idle
    BY <1>0, <1>4
  <2>2. CASE d = c
    <3> DEFINE a == "range"
               q == [r EXCEPT !.at = a]
    <3>1. r.at \in {"check", "drop"} /\ a \in {"range", "drop"} /\ remover'[d] = q
      BY <1>1, <1>2, <1>4, <2>2
    <3> HIDE DEF r, a
    <3>2. q \in RemoverState /\ q # Idle /\ q.must = r.must
      BY <2>1, <3>1, AtUpdate
    <3> HIDE DEF q
    <3> QED
      BY <2>2, <3>1, <3>2 DEF r
  <2>3. CASE d # c
    <3> DEFINE q == [r EXCEPT !.must = @ \ {p}]
    <3>1. remover'[d] = q
      BY <1>2, <1>4, <2>3
    <3> HIDE DEF r
    <3>2. /\ q \in RemoverState /\ q # Idle /\ q.at = r.at /\ q.must = r.must \ {p}
          /\ r.at # "range" => q.key = r.key /\ q.info = r.info
      BY <2>1, MustUpdate
    <3> HIDE DEF q
    <3> QED
      BY <3>1, <3>2 DEF r
  <2> QED
    BY <2>2, <2>3
<1>5. remover' \in [Controllers -> RemoverState]
  <2>1. ASSUME NEW d \in Controllers PROVE remover'[d] \in RemoverState
    <3>1. CASE remover[d] = Idle
      <4>1. d # c
        BY <1>1, <3>1, IdleFacts
      <4>2. remover'[d] = Idle
        BY <1>2, <3>1, <4>1
      <4> QED
        BY <4>2, IdleFacts
    <3>2. CASE remover[d] # Idle
      BY <1>4, <3>2
    <3> QED
      BY <3>1, <3>2
  <2> QED
    BY <1>3, <2>1
<1>6. /\ holes' \in [FlowKeys -> Hole \cup {NoHole}]
      /\ \A k \in FlowKeys : holes'[k] = IF k = p THEN NoHole ELSE holes[k]
  BY <1>0, <1>1
<1>7. FlowsTypes' /\ WorkersInv' /\ PunchInv'
  BY <1>0, <1>1, <1>5, <1>6, RemovalKeeps
<1>8. SweepInv'
  <2> SUFFICES ASSUME NEW k \in FlowKeys, holes'[k] # NoHole, holes'[k].gen < deletes,
                      holes'[k].info \notin Permitted
               PROVE  \E d \in Controllers : Sweeps(remover[d], k)'
    BY <1>1, SamePermissions DEF SweepInv
  <2>1. k # p /\ holes'[k] = holes[k]
    BY <1>6
  <2>2. PICK d \in Controllers : Sweeps(remover[d], k)
    BY <1>0, <2>1 DEF SweepInv
  <2>3. CASE d = c
    <3>1. k \in remover[c].must /\ remover[c] # Idle
      BY <1>1, <2>1, <2>2, <2>3 DEF Sweeps, p
    <3> QED
      BY <1>4, <2>1, <3>1 DEF Sweeps
  <2>4. CASE d # c
    <3>1. Sweeps(remover[d], k)'
      BY <1>4, <2>1, <2>2, <2>4 DEF Sweeps
    <3> QED
      BY <3>1
  <2> QED
    BY <2>3, <2>4
<1> QED
  BY <1>7, <1>8

-----------------------------------------------------------------------------
(* The invariant.                                                          *)

\* No holes, no packets and no removals.
LEMMA FlowsInvInit == FlowsInit => FlowsInv
<1> SUFFICES ASSUME FlowsInit PROVE FlowsInv
  OBVIOUS
<1>1. FirewallInv
  BY FirewallInitInv DEF FlowsInit
<1>2. FlowsTypes
  BY FlowsAssumption, IdleFacts DEF FlowsInit, FlowsTypes
<1>3. SweepInv /\ WorkersInv /\ PunchInv
  BY KeyOfPacket DEF FlowsInit, SweepInv, WorkersInv, PunchInv
<1> QED
  BY <1>1, <1>2, <1>3 DEF FlowsInv

\* What any step does to the rules is a step of the rule store.
LEMMA FlowsKeepStore ==
    FirewallInv /\ [FlowsNext]_vars => FirewallInv'
<1>1. [FlowsNext]_vars => [FirewallNext]_fwVars
  BY DEF FlowsNext, vars, TransportPacket, MeshPacket, LoadHole, DeleteExpired, CheckRules,
         PunchAndSend, ControlAddRule, RemoveRule, RangeNext, RangeCheck, RangeDrop,
         RemoveReturn, Tick, FirewallNext
<1> QED
  BY <1>1, FirewallNextInv

\* Every step keeps the invariant.
LEMMA FlowsInvNext == FlowsInv /\ [FlowsNext]_vars => FlowsInv'
<1> SUFFICES ASSUME FlowsInv, [FlowsNext]_vars PROVE FlowsInv'
  OBVIOUS
<1>1. FirewallInv'
  BY FlowsKeepStore DEF FlowsInv
<1>2. FlowsTypes' /\ SweepInv' /\ WorkersInv' /\ PunchInv'
  <2>1. CASE \E w \in Workers :
                \/ \E hi \in Packets : TransportPacket(w, hi)
                \/ LoadHole(w)
                \/ CheckRules(w)
    BY <2>1, WorkerLooks
  <2>2. CASE \E w \in Workers :
                (\E hi \in MeshPackets : MeshPacket(w, hi)) \/ PunchAndSend(w)
    BY <2>2, WorkerPunches
  <2>3. CASE \E w \in Workers : DeleteExpired(w)
    BY <2>3, WorkerDeletes
  <2>4. CASE \/ \E index \in PortRuleIndex, rule \in PortRules : ControlAddRule(index, rule)
             \/ Tick
    BY <2>4, AddOrTick
  <2>5. CASE \E c \in Controllers, index \in PortRuleIndex : RemoveRule(c, index)
    BY <2>5, RemoveRuleKeepsInv
  <2>6. CASE \E c \in Controllers :
                \/ \E k \in FlowKeys : RangeNext(c, k)
                \/ RangeCheck(c)
                \/ RemoveReturn(c)
    BY <2>6, RangeKeepsInv
  <2>7. CASE \E c \in Controllers : RangeDrop(c)
    BY <2>7, RangeDropKeepsInv
  <2>8. CASE UNCHANGED vars
    <3>1. UNCHANGED <<holes, worker, remover, now, deletes, punched>> /\ UNCHANGED fwVars
      BY <2>8 DEF vars, flowVars
    <3>2. FlowsTypes /\ SweepInv /\ WorkersInv /\ PunchInv /\ now \in Nat
      BY DEF FlowsInv, FlowsTypes
    <3>3. SweepInv' /\ WorkersInv' /\ PunchInv'
      BY <3>1, <3>2, SamePermissions, SweepKept, WorkersKept, PunchKept
    <3> QED
      BY <3>1, <3>2, <3>3 DEF FlowsTypes
  <2> QED
    BY <2>1, <2>2, <2>3, <2>4, <2>5, <2>6, <2>7, <2>8 DEF FlowsNext
<1> QED
  BY <1>1, <1>2 DEF FlowsInv

\* The invariant holds of every reachable state of the firewall.
THEOREM FlowsInvariant == FlowsSpec => []FlowsInv
BY FlowsInvInit, FlowsInvNext, PTL DEF FlowsSpec

\* dropUnauthorizedHoles misses no hole: once every RemoveRule has returned, a hole
\* that no packet has touched since the last deletion is allowed by a rule, for any
\* number of removals and packets that run during a Range.
THEOREM SweepMissesNone == FlowsSpec => []SweepComplete
<1>1. FlowsInv => SweepComplete
  <2> SUFFICES ASSUME FlowsInv, NoRemoval, NEW k \in FlowKeys, holes[k] # NoHole,
                      holes[k].gen < deletes
               PROVE  rulesAllow(holes[k].info)
    BY DEF SweepComplete
  <2>1. holes[k].info \in Permitted
    BY DEF FlowsInv, SweepInv, NoRemoval, Sweeps
  <2> QED
    BY <2>1 DEF Permitted
<1> QED
  BY <1>1, FlowsInvariant, PTL

\* RuleCheck lets a packet through on a hole only if a packet of its own flow was let
\* through less than HoleTTL ago.
THEOREM HolesJustified == FlowsSpec => HoleJustified
<1> DEFINE A == \A w \in Workers :
                   worker[w].at = "load" /\ worker'[w].at = "punch" =>
                       punched[info(w)] # Nil /\ now < punched[info(w)] + HoleTTL
<1>1. ASSUME FlowsInv, FlowsNext, NEW w \in Workers,
             worker[w].at = "load", worker'[w].at = "punch"
      PROVE  punched[info(w)] # Nil /\ now < punched[info(w)] + HoleTTL
  <2>1. worker \in [Workers -> WorkerState] /\ PunchInv /\ worker[w] # Idle
    BY <1>1, IdleFacts DEF FlowsInv, FlowsTypes
  <2>2. LoadHole(w)
    BY <1>1, <2>1, IdleFacts
       DEF FlowsNext, TransportPacket, MeshPacket, LoadHole, DeleteExpired, CheckRules,
           PunchAndSend, ControlAddRule, RemoveRule, RangeNext, RangeCheck, RangeDrop,
           RemoveReturn, Tick, Become, flowVars
  <2> DEFINE a == CASE Live(key(w)) -> "punch"
                    [] holes[key(w)] = NoHole -> "rules"
                    [] OTHER -> "expired"
  <2>3. worker'[w].at = a
    BY <2>1, <2>2 DEF LoadHole, Become
  <2>4. Live(key(w))
    BY <1>1, <2>3
  <2>5. info(w) \in AllPackets
    BY <2>1, WorkerShape, IdleFacts DEF info
  <2>6. punched[info(w)] \in Nat /\ now < punched[info(w)] + HoleTTL
    BY <2>1, <2>4, <2>5 DEF PunchInv, Live, key
  <2> QED
    BY <2>6, FirewallAssumption
<1>2. FlowsInv /\ [FlowsNext]_vars => [A]_vars
  BY <1>1
<1> QED
  BY <1>2, FlowsInvariant, PTL DEF FlowsSpec, HoleJustified

\* RuleCheck deletes no hole that is still live: a live hole goes only because a
\* removal has condemned it.
THEOREM LiveHolesKept == FlowsSpec => OnlyExpiredDeleted
<1> DEFINE A == \A k \in FlowKeys :
                   Live(k) /\ holes'[k] = NoHole =>
                       \E c \in Controllers : remover[c].at = "drop" /\ remover[c].key = k
<1>1. ASSUME FlowsInv, FlowsNext, NEW k \in FlowKeys, Live(k), holes'[k] = NoHole
      PROVE  \E c \in Controllers : remover[c].at = "drop" /\ remover[c].key = k
  <2>0. /\ holes \in [FlowKeys -> Hole \cup {NoHole}] /\ holes[k] # NoHole
        /\ WorkersInv /\ worker \in [Workers -> WorkerState]
        /\ now + HoleTTL \in Nat /\ deletes \in 0 .. MaxDeletes
    BY <1>1, FlowsAssumption DEF FlowsInv, FlowsTypes, Live
  <2>1. ASSUME NEW hi \in AllPackets, Holepunch(hi) PROVE FALSE
    <3> DEFINE h == [info |-> hi, expire |-> now + HoleTTL, gen |-> deletes]
    <3>1. h \in Hole
      BY <2>0 DEF Hole
    <3>2. h # NoHole
      BY <3>1, HoleAssumption
    <3> HIDE DEF h
    <3>3. holes' = [holes EXCEPT ![makeFlowKey(hi)] = h]
      BY <2>1 DEF Holepunch, h
    <3> QED
      BY <1>1, <2>0, <3>2, <3>3
  <2>2. ASSUME NEW w \in Workers, DeleteExpired(w) PROVE FALSE
    <3>1. worker[w] # Idle /\ worker[w].at = "expired"
      BY <2>2, IdleFacts DEF DeleteExpired
    <3>2. ~ Live(key(w))
      BY <2>0, <3>1 DEF WorkersInv
    <3>3. holes'[k] = IF k = key(w) THEN NoHole ELSE holes[k]
      BY <2>0, <2>2 DEF DeleteExpired, Delete
    <3> QED
      BY <1>1, <2>0, <3>2, <3>3
  <2>3. ASSUME NEW w \in Workers, PunchAndSend(w) PROVE FALSE
    <3>1. info(w) \in AllPackets
      BY <2>0, <2>3, WorkerShape, IdleFacts DEF PunchAndSend, info
    <3> QED
      BY <2>1, <2>3, <3>1 DEF PunchAndSend
  <2>4. ASSUME NEW w \in Workers, NEW hi \in MeshPackets, MeshPacket(w, hi) PROVE FALSE
    BY <2>1, <2>4, IdleFacts DEF MeshPacket
  <2>5. PICK c \in Controllers : RangeDrop(c)
    BY <1>1, <2>0, <2>2, <2>3, <2>4
       DEF FlowsNext, TransportPacket, LoadHole, CheckRules, ControlAddRule, RemoveRule,
           RangeNext, RangeCheck, RemoveReturn, Tick, flowVars
  <2>6. remover[c].at = "drop" /\ holes' = [holes EXCEPT ![remover[c].key] = NoHole]
    BY <2>5 DEF RangeDrop
  <2> QED
    BY <1>1, <2>0, <2>6
<1>2. FlowsInv /\ [FlowsNext]_vars => [A]_vars
  BY <1>1
<1> QED
  BY <1>2, FlowsInvariant, PTL DEF FlowsSpec, OnlyExpiredDeleted
=============================================================================
