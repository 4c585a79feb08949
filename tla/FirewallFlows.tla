---------------------------- MODULE FirewallFlows ----------------------------
(***************************************************************************)
(* The stateful half of pkg/firewall, driven by the router as it really    *)
(* runs: one goroutine per shard handles packets (RuleCheck, Holepunch)    *)
(* while control-plane goroutines add and remove rules.                    *)
(*                                                                         *)
(* holes is a sync.Map: each Load, Store and Delete is one step, and so is *)
(* each critical section of rulesMu, so that every interleaving of         *)
(*    Load, Delete, rulesAllow, Store        of a shard worker, and        *)
(*    delete rule, then Load, rulesAllow, Delete per hole   of RemoveRule  *)
(* is explored.  Packets for the gateway, for the internet, or over the    *)
(* sender's rate limit leave handleTransportPacketInternal before the      *)
(* firewall and change nothing here.                                       *)
(***************************************************************************)
EXTENDS Firewall

CONSTANTS
    Packets,      \* flow information of transport packets, a subset of HoleInfo
    MeshPackets,  \* flow information of packets from other nodes
    Workers,      \* the shards of the router
    Hash(_),      \* the mixing of the ordered fields in getWorker
    Controllers,  \* goroutines that may be inside RemoveRule
    HoleTTL,      \* time.Minute in clock ticks
    MaxTime,      \* bound on the clock
    MaxDeletes,   \* bound on the number of rules deleted
    NoHole        \* "no hole under this flow key"

ASSUME FlowsAssumption ==
    /\ Packets \subseteq HoleInfo /\ MeshPackets \subseteq HoleInfo
    /\ HoleTTL \in Nat \ {0} /\ MaxTime \in Nat /\ MaxDeletes \in Nat
    /\ \A hi \in HoleInfo : Hash(hi) \in Workers

VARIABLES
    holes,     \* flow key -> hole
    worker,    \* what each shard goroutine is doing
    remover,   \* what each control-plane goroutine is doing in RemoveRule
    now,       \* time.Now()
    deletes,   \* history: rules deleted so far
    punched    \* history: when a packet of a flow last punched, per HoleInfo

flowVars == <<holes, worker, remover, now, deletes, punched>>
vars == <<fwVars, flowVars>>

AllPackets == Packets \cup MeshPackets
FlowKeys == {makeFlowKey(hi) : hi \in AllPackets}

\* hole; gen is history: the value of deletes when it was punched.
Hole == [info : AllPackets, expire : Nat, gen : 0 .. MaxDeletes]

ASSUME HoleAssumption == NoHole \notin Hole

Idle == [at |-> "idle"]
Live(key) == holes[key] # NoHole /\ now < holes[key].expire

FlowsInit ==
    /\ FirewallInit
    /\ holes = [k \in FlowKeys |-> NoHole]
    /\ worker = [w \in Workers |-> Idle]
    /\ remover = [c \in Controllers |-> Idle]
    /\ now = 0
    /\ deletes = 0
    /\ punched = [hi \in AllPackets |-> Nil]

-----------------------------------------------------------------------------
\* Mutant: the two ends are hashed as they come.
getWorkerUnordered(hi) == Hash(hi)

\* getWorker orders the two ends as makeFlowKey does and hashes the result, so
\* both directions of a flow go to one worker.
getWorker(hi) ==
    LET swap == \/ hi.SrcIP > hi.DstIP
                \/ hi.SrcIP = hi.DstIP /\ hi.SrcPort > hi.DstPort
    IN  Hash(IF swap THEN Reply(hi) ELSE hi)

\* The packet of a worker, and the two ways a worker is done with it.
info(w) == worker[w].info
key(w) == makeFlowKey(info(w))

Become(w, state) ==
    worker' = [worker EXCEPT ![w] = state]

\* handleTransportPacketInternal up to the call of RuleCheck.
TransportPacket(w, hi) ==
    /\ worker[w] = Idle
    /\ getWorker(hi) = w
    /\ Become(w, [at |-> "load", info |-> hi])
    /\ UNCHANGED <<fwVars, holes, remover, now, deletes, punched>>

\* RuleCheck: holes.Load and the test of its expiry.
LoadHole(w) ==
    /\ worker[w].at = "load"
    /\ Become(w, [at |-> CASE Live(key(w)) -> "punch"
                           [] holes[key(w)] = NoHole -> "rules"
                           [] OTHER -> "expired",
                  info |-> info(w)])
    /\ UNCHANGED <<fwVars, holes, remover, now, deletes, punched>>

\* Delete of a flow key; a Range that had still to meet it will not.
Delete(k) ==
    /\ holes' = [holes EXCEPT ![k] = NoHole]
    /\ remover' = [c \in Controllers |->
                      IF remover[c] = Idle THEN Idle
                      ELSE [remover[c] EXCEPT !.must = @ \ {k}]]

\* RuleCheck: holes.Delete of the hole found expired.
DeleteExpired(w) ==
    /\ worker[w].at = "expired"
    /\ Delete(key(w))
    /\ Become(w, [at |-> "rules", info |-> info(w)])
    /\ UNCHANGED <<fwVars, now, deletes, punched>>

\* RuleCheck: rulesAllow.  A refused packet is freed.
CheckRules(w) ==
    /\ worker[w].at = "rules"
    /\ Become(w, IF rulesAllow(info(w))
                 THEN [at |-> "punch", info |-> info(w)]
                 ELSE Idle)
    /\ UNCHANGED <<fwVars, holes, remover, now, deletes, punched>>

\* Holepunch: the hole is stored anew with this packet's direction.
Holepunch(hi) ==
    /\ holes' = [holes EXCEPT ![makeFlowKey(hi)] =
                    [info |-> hi, expire |-> now + HoleTTL, gen |-> deletes]]
    /\ punched' = [h \in AllPackets |-> IF SameFlow(h, hi) THEN now ELSE punched[h]]

\* The rest of handleTransportPacketInternal: the packet is on its way.
PunchAndSend(w) ==
    /\ worker[w].at = "punch"
    /\ Holepunch(info(w))
    /\ Become(w, Idle)
    /\ UNCHANGED <<fwVars, remover, now, deletes>>

\* handleMeshPacketInternal: the node that sent the packet has checked it, so
\* the hole is punched without looking at the rules.
MeshPacket(w, hi) ==
    /\ worker[w] = Idle
    /\ getWorker(hi) = w
    /\ Holepunch(hi)
    /\ UNCHANGED <<fwVars, worker, remover, now, deletes>>

-----------------------------------------------------------------------------
\* AddRule by any goroutine: one critical section.
ControlAddRule(index, rule) ==
    /\ AddRule(index, rule)
    /\ UNCHANGED flowVars

\* RemoveRule: the rule is deleted under rulesMu and the Range over holes
\* begins.  Range meets every key that is present all through it exactly once
\* (must), and may or may not meet the others (unmet holds all not yet met).
RemoveRule(c, index) ==
    /\ remover[c] = Idle
    /\ deletes < MaxDeletes
    /\ DeleteRule(index)
    /\ deletes' = deletes + 1
    /\ remover' = [remover EXCEPT ![c] =
          [at |-> "range", must |-> {k \in FlowKeys : holes[k] # NoHole},
           unmet |-> FlowKeys]]
    /\ UNCHANGED <<holes, worker, now, punched>>

\* dropUnauthorizedHoles: Range hands the value of the next key to its callback.
RangeNext(c, k) ==
    /\ remover[c].at = "range"
    /\ k \in remover[c].unmet
    /\ holes[k] # NoHole
    /\ remover' = [remover EXCEPT ![c] =
          [at |-> "check", must |-> @.must \ {k}, unmet |-> @.unmet \ {k},
           key |-> k, info |-> holes[k].info]]
    /\ UNCHANGED <<fwVars, holes, worker, now, deletes, punched>>

\* dropUnauthorizedHoles: rulesAllow on the hole's own packet.
RangeCheck(c) ==
    /\ remover[c].at = "check"
    /\ remover' = [remover EXCEPT ![c].at =
                      IF rulesAllow(remover[c].info) THEN "range" ELSE "drop"]
    /\ UNCHANGED <<fwVars, holes, worker, now, deletes, punched>>

\* Mutant: the callback returns false once it has dropped a hole.
RangeDropStops(c) ==
    /\ remover[c].at = "drop"
    /\ holes' = [holes EXCEPT ![remover[c].key] = NoHole]
    /\ remover' = [remover EXCEPT ![c] = Idle]
    /\ UNCHANGED <<fwVars, worker, now, deletes, punched>>

\* dropUnauthorizedHoles: holes.Delete.
RangeDrop(c) ==
    /\ remover[c].at = "drop"
    /\ holes' = [holes EXCEPT ![remover[c].key] = NoHole]
    /\ remover' = [d \in Controllers |->
          CASE remover[d] = Idle -> Idle
            [] d = c -> [remover[d] EXCEPT !.at = "range"]
            [] OTHER -> [remover[d] EXCEPT !.must = @ \ {remover[c].key}]]
    /\ UNCHANGED <<fwVars, worker, now, deletes, punched>>

\* RemoveRule returns true.
RemoveReturn(c) ==
    /\ remover[c].at = "range"
    /\ remover[c].must = {}
    /\ remover' = [remover EXCEPT ![c] = Idle]
    /\ UNCHANGED <<fwVars, holes, worker, now, deletes, punched>>

Tick ==
    /\ now < MaxTime
    /\ now' = now + 1
    /\ UNCHANGED <<fwVars, holes, worker, remover, deletes, punched>>

FlowsNext ==
    \/ \E w \in Workers :
          \/ \E hi \in Packets : TransportPacket(w, hi)
          \/ \E hi \in MeshPackets : MeshPacket(w, hi)
          \/ LoadHole(w)
          \/ DeleteExpired(w)
          \/ CheckRules(w)
          \/ PunchAndSend(w)
    \/ \E index \in PortRuleIndex, rule \in PortRules : ControlAddRule(index, rule)
    \/ \E c \in Controllers :
          \/ \E index \in PortRuleIndex : RemoveRule(c, index)
          \/ \E k \in FlowKeys : RangeNext(c, k)
          \/ RangeCheck(c)
          \/ RangeDrop(c)
          \/ RemoveReturn(c)
    \/ Tick

FlowsSpec == FlowsInit /\ [][FlowsNext]_vars

-----------------------------------------------------------------------------
WorkerState ==
    {Idle} \cup [at : {"load", "expired", "rules", "punch"}, info : Packets]

RemoverState ==
    {Idle}
    \cup [at : {"range"}, must : SUBSET FlowKeys, unmet : SUBSET FlowKeys]
    \cup [at : {"range", "check", "drop"}, must : SUBSET FlowKeys,
          unmet : SUBSET FlowKeys, key : FlowKeys, info : AllPackets]

FlowsTypeOK ==
    /\ FirewallTypeOK
    /\ holes \in [FlowKeys -> Hole \cup {NoHole}]
    /\ worker \in [Workers -> WorkerState]
    /\ remover \in [Controllers -> RemoverState]
    /\ now \in 0 .. MaxTime
    /\ deletes \in 0 .. MaxDeletes
    /\ punched \in [AllPackets -> (0 .. MaxTime) \cup {Nil}]

NoRemoval == \A c \in Controllers : remover[c] = Idle

\* Once every RemoveRule call has returned, each hole that no packet has
\* touched since the last rule was deleted is allowed by a rule that is still
\* there: dropUnauthorizedHoles misses none, whatever packets, additions and
\* other removals did during its Range.
SweepComplete ==
    NoRemoval =>
        \A k \in FlowKeys :
            holes[k] # NoHole /\ holes[k].gen < deletes => rulesAllow(holes[k].info)

\* RuleCheck lets a packet through on a hole only if a packet of the very same
\* flow, in either direction, was let through less than HoleTTL ago:
\* makeFlowKey joins the two directions of a flow and nothing else.
HoleJustified ==
    [][\A w \in Workers :
          worker[w].at = "load" /\ worker'[w].at = "punch" =>
              punched[info(w)] # Nil /\ now < punched[info(w)] + HoleTTL]_vars

\* RuleCheck deletes a hole only if it has expired: no packet of the flow can
\* renew it between the Load and the Delete, because getWorker gives a flow to
\* one worker.
OnlyExpiredDeleted ==
    [][\A k \in FlowKeys :
          Live(k) /\ holes'[k] = NoHole =>
              \E c \in Controllers : remover[c].at = "drop" /\ remover[c].key = k]_vars

-----------------------------------------------------------------------------
\* The flow of a hole is allowed by a rule in one of its directions.
Authorized(hi) == rulesAllow(hi) \/ rulesAllow(Reply(hi))

\* firewall_test.go: removing a rule must cut a flow that is already running,
\* or its holes would be renewed for ever.  So when no RemoveRule is running and
\* no packet is being handled, a live hole has a rule.  (For transport packets:
\* MeshPackets is empty in the run.)
RemovalClosesFlow ==
    NoRemoval /\ (\A w \in Workers : worker[w] = Idle) =>
        \A k \in FlowKeys : Live(k) => Authorized(holes[k].info)

\* firewall_test.go: removing an unrelated rule must not close a flow, and
\* dropUnauthorizedHoles drops only what no rule allows any more.  So it never
\* condemns the hole of a flow that a rule still allows.
UnrelatedRemovalKeepsFlow ==
    [][\A c \in Controllers :
          remover[c].at = "check" /\ remover'[c].at = "drop" =>
              ~ Authorized(remover[c].info)]_vars
=============================================================================
