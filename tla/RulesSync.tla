----------------------------- MODULE RulesSync -----------------------------
(***************************************************************************)
(* Replication of the firewall rules between mesh nodes (peerssync).       *)
(*                                                                         *)
(* A rule is identified by its owner and by the row id the owner's         *)
(* database gave it, which is never given out again; its contents never    *)
(* change.  A node's firewall is therefore the set of the rules it holds.  *)
(* Each node streams its whole set and the changes of its own rules to     *)
(* every peer; a peer takes from a dump also the rules of third nodes.     *)
(*                                                                         *)
(* A dump is applied in one step.  The handler takes the firewall's lock   *)
(* for each rule separately, but what it does to one rule (test and add,   *)
(* or list and remove) has the effect of its last access to that rule.     *)
(***************************************************************************)
EXTENDS EventStream, FiniteSets

CONSTANTS
    Links,          \* the streams that exist, a subset of Pair
    Rules,          \* rules that may be created, pairs <<owner, row id>>
    MaxBreaks,      \* bound on streams that fail
    MaxRestarts     \* bound on restarts of a node

owner(r) == r[1]

ASSUME RulesAssumption ==
    /\ Links \subseteq Pair
    /\ \A r \in Rules : owner(r) \in Node
    /\ MaxBreaks \in Nat /\ MaxRestarts \in Nat

VARIABLES
    rules,       \* [Node -> SUBSET Rules], the firewall of each node
    created,     \* rules whose owner has added them
    notifying,   \* events of calls that have changed the firewall only
    stream,      \* [Links -> StreamState]
    breaks, restarts

vars == <<rules, created, notifying, stream, breaks, restarts>>

Event == [type : {"ADDED", "REMOVED"}, rule : Rules]

own(n) == {r \in rules[n] : owner(r) = n}

RulesInit ==
    /\ rules = [n \in Node |-> {}]
    /\ created = {}
    /\ notifying = {}
    /\ stream = [p \in Links |-> Down]
    /\ breaks = 0
    /\ restarts = 0

-----------------------------------------------------------------------------
(* The owner: router.AddRule and router.RemoveRule change the firewall,    *)
(* then notify the subscribers.                                            *)

AddRule(r) ==
    /\ r \notin created
    /\ created' = created \cup {r}
    /\ rules' = [rules EXCEPT ![owner(r)] = @ \cup {r}]
    /\ notifying' = notifying \cup {[type |-> "ADDED", rule |-> r]}
    /\ UNCHANGED <<stream, breaks, restarts>>

RemoveRule(r) ==
    /\ r \in rules[owner(r)]
    /\ rules' = [rules EXCEPT ![owner(r)] = @ \ {r}]
    /\ notifying' = notifying \cup {[type |-> "REMOVED", rule |-> r]}
    /\ UNCHANGED <<created, stream, breaks, restarts>>

notifyFirewallEvent(event) ==
    /\ event \in notifying
    /\ notifying' = notifying \ {event}
    /\ stream' = Notified(stream, owner(event.rule), event)
    /\ UNCHANGED <<rules, created, breaks, restarts>>

-----------------------------------------------------------------------------
(* The server side of a stream: SubscribeClientsRules.                     *)

SubscribeClientsRules(p) ==
    /\ stream[p].phase = "down"
    /\ stream' = [stream EXCEPT ![p] = Subscribed(@)]
    /\ UNCHANGED <<rules, created, notifying, breaks, restarts>>

buildFirewallSyncEvent(p) ==
    /\ CanSend(stream[p])
    /\ stream' = [stream EXCEPT ![p] = DumpSent(@, rules[server(p)])]
    /\ UNCHANGED <<rules, created, notifying, breaks, restarts>>

generateFirewallEvent(p) ==
    /\ CanForward(stream[p])
    /\ stream' = [stream EXCEPT ![p] = Forwarded(@)]
    /\ UNCHANGED <<rules, created, notifying, breaks, restarts>>

-----------------------------------------------------------------------------
(* The client side: streamPeerRulesData.                                   *)

\* Mutant: a node lets its peers bring back its own rules.
addRemoteRuleObjectAny(n, held, r) ==
    held \cup {r}

\* A node creates its own rules only itself.
addRemoteRuleObject(n, held, r) ==
    IF owner(r) = n THEN held ELSE held \cup {r}

deleteRemoteRuleObject(held, r) ==
    held \ {r}

\* Mutant: a dump only adds rules.
syncRulesAddsOnly(n, peer, held, dump) ==
    UNION {addRemoteRuleObject(n, held, r) : r \in dump} \cup held

\* Mutant: only the rules a dump adds count as alive.
syncRulesForgetsHeld(n, peer, held, dump) ==
    {r \in held \cup UNION {addRemoteRuleObject(n, held, r) : r \in dump} :
        owner(r) = peer => r \in dump \ held}

\* Mutant: a dump also removes the rules of other nodes the sender lacks.
syncRulesRemovesAny(n, peer, held, dump) ==
    (held \cup UNION {addRemoteRuleObject(n, held, r) : r \in dump}) \cap dump

\* Rules the node does not hold are added, whoever owns them; of the rules it
\* holds only those of the sender itself are removed.
syncRules(n, peer, held, dump) ==
    LET added == held \cup UNION {addRemoteRuleObject(n, held, r) : r \in dump \ held}
    IN {r \in added : owner(r) = peer => r \in dump}

Apply(n, peer, held, msg) ==
    CASE msg.type = "SYNC"    -> syncRules(n, peer, held, msg.dump)
      [] msg.type = "ADDED"   -> addRemoteRuleObject(n, held, msg.rule)
      [] msg.type = "REMOVED" -> deleteRemoteRuleObject(held, msg.rule)

streamPeerRulesData(p) ==
    /\ stream[p].wire # <<>>
    /\ rules' = [rules EXCEPT ![client(p)] =
                    Apply(client(p), server(p), @, Head(stream[p].wire))]
    /\ stream' = [stream EXCEPT ![p] = Received(@)]
    /\ UNCHANGED <<created, notifying, breaks, restarts>>

\* A stream fails while the connection lives: RunWhileConnected opens the next.
BreakStream(p) ==
    /\ breaks < MaxBreaks
    /\ stream[p].phase # "down"
    /\ breaks' = breaks + 1
    /\ stream' = [stream EXCEPT ![p] = Down]
    /\ UNCHANGED <<rules, created, notifying, restarts>>

\* A restarted node has the rules of its database and nothing of its peers.
Restart(n) ==
    /\ restarts < MaxRestarts
    /\ restarts' = restarts + 1
    /\ rules' = [rules EXCEPT ![n] = own(n)]
    /\ notifying' = {e \in notifying : owner(e.rule) # n}
    /\ stream' = [p \in Links |->
                    IF n \in {server(p), client(p)} THEN Down ELSE stream[p]]
    /\ UNCHANGED <<created, breaks>>

RulesNext ==
    \/ \E r \in Rules : AddRule(r) \/ RemoveRule(r)
    \/ \E e \in Event : notifyFirewallEvent(e)
    \/ \E p \in Links :
          \/ SubscribeClientsRules(p) \/ buildFirewallSyncEvent(p)
          \/ generateFirewallEvent(p) \/ streamPeerRulesData(p)
          \/ BreakStream(p)
    \/ \E n \in Node : Restart(n)

RulesSpec == RulesInit /\ [][RulesNext]_vars

\* A stream is opened again after a second, its ticker fires every 30 seconds
\* and its messages are received.  Nothing is assumed of the owner's calls, of
\* the order in which the events are forwarded, or of failures.
FairRulesSpec ==
    /\ RulesSpec
    /\ \A p \in Links :
          /\ WF_vars(SubscribeClientsRules(p))
          /\ WF_vars(buildFirewallSyncEvent(p))
          /\ WF_vars(streamPeerRulesData(p))

-----------------------------------------------------------------------------
(* Properties                                                              *)

\* The firewalls hold rules that their owner has created, and the channels keep
\* their bounds.
RulesTypeOK ==
    /\ rules \in [Node -> SUBSET created]
    /\ created \subseteq Rules
    /\ notifying \subseteq Event
    /\ stream \in [Links -> StreamState(Event, SUBSET Rules)]
    /\ breaks \in 0 .. MaxBreaks
    /\ restarts \in 0 .. MaxRestarts

\* A node gets a rule of its own only by its own AddRule (addRemoteRuleObject):
\* no dump of a peer, however old, brings back a rule its owner has removed.
OnlyOwnerCreates ==
    [][\A r \in Rules : r \in rules'[owner(r)] /\ r \notin rules[owner(r)]
                            => r \notin created]_vars

\* A peer's messages never take a rule from the node that owns it: a rule of its
\* own leaves a firewall by RemoveRule only, which says so to the subscribers.
OnlyOwnerRemoves ==
    [][\A r \in Rules : r \in rules[owner(r)] /\ r \notin rules'[owner(r)]
                            => [type |-> "REMOVED", rule |-> r] \in notifying']_vars

\* Between two nodes a rule that its owner still has is never taken from the
\* peer that already holds it, except by the peer's own restart: the subscription
\* precedes the dump and the firewall changes before the event is sent.
LiveRuleStays ==
    [][\A p \in Links : \A r \in own(server(p)) \cap rules[client(p)] :
          r \in rules'[client(p)] \/ restarts' # restarts \/ r \notin rules'[server(p)]]_vars

\* Once the owners stop changing their rules, each peer ends up with exactly the
\* owner's rules, whatever events a full channel or a failed stream has lost.
Converges ==
    <>[](\A p \in Links : {r \in rules[client(p)] : owner(r) = server(p)} = own(server(p)))

\* "добавляет недостающие правила и убирает лишние. Авторитет по правилу —
\* нода-владелец" (syncRules): a rule its owner has removed is at some time held
\* by no node any more.
RemovedRuleVanishes ==
    \A r \in Rules :
        (r \in created /\ r \notin rules[owner(r)]) ~> (\A n \in Node : r \notin rules[n])
=============================================================================
