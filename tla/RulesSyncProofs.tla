-------------------------- MODULE RulesSyncProofs --------------------------
(***************************************************************************)
(* The replication of firewall rules, for any mesh, any rules and any      *)
(* number of failures: who may create and remove a rule at its owner, and  *)
(* that a node with one session keeps the rules that are in force.         *)
(***************************************************************************)
EXTENDS RulesSync, SequenceTheorems, TLAPS

-----------------------------------------------------------------------------
(* Streams, whatever they carry: EventStream.                              *)

Sync(Dumps) == [type : {"SYNC"}, dump : Dumps]

\* A channel with c slots.
LEMMA BoundedSeq ==
    ASSUME NEW E, NEW c \in Nat, NEW s
    PROVE  s \in UNION {[1 .. k -> E] : k \in 0 .. c} <=> s \in Seq(E) /\ Len(s) <= c
<1>1. ASSUME NEW k \in 0 .. c, s \in [1 .. k -> E]
      PROVE  s \in Seq(E) /\ Len(s) <= c
  BY <1>1
<1>2. ASSUME s \in Seq(E), Len(s) <= c
      PROVE  s \in UNION {[1 .. k -> E] : k \in 0 .. c}
  <2>1. Len(s) \in 0 .. c /\ s \in [1 .. Len(s) -> E]
    BY <1>2, LenProperties
  <2> QED
    BY <2>1
<1> QED
  BY <1>1, <1>2

\* A stream is a phase and two bounded sequences.
LEMMA StreamIs ==
    ASSUME NEW E, NEW D, NEW st
    PROVE  st \in StreamState(E, D) <=>
              /\ st \in [phase : {"down", "subscribed", "open"}, queue : Seq(E), wire : Seq(E \cup Sync(D))]
              /\ Len(st.queue) <= QueueCap /\ Len(st.wire) <= WireCap
<1> DEFINE Q == UNION {[1 .. k -> E] : k \in 0 .. QueueCap}
           W == UNION {[1 .. k -> E \cup Sync(D)] : k \in 0 .. WireCap}
<1>1. \A s : s \in Q <=> s \in Seq(E) /\ Len(s) <= QueueCap
  BY BoundedSeq, StreamAssumption
<1>2. \A s : s \in W <=> s \in Seq(E \cup Sync(D)) /\ Len(s) <= WireCap
  BY BoundedSeq, StreamAssumption
<1>3. StreamState(E, D) = [phase : {"down", "subscribed", "open"}, queue : Q, wire : W]
  BY DEF StreamState, Sync
<1> HIDE DEF Q, W
<1> QED
  BY <1>1, <1>2, <1>3

\* A stream that is down carries nothing.
LEMMA DownOK ==
    ASSUME NEW E, NEW D
    PROVE  Down \in StreamState(E, D)
<1>1. Down \in [phase : {"down", "subscribed", "open"}, queue : Seq(E), wire : Seq(E \cup Sync(D))]
  BY EmptySeq DEF Down
<1>2. Len(Down.queue) <= QueueCap /\ Len(Down.wire) <= WireCap
  BY EmptySeq, StreamAssumption DEF Down
<1> QED
  BY <1>1, <1>2, StreamIs

\* More events and more dumps make more streams.
LEMMA StreamMonotone ==
    ASSUME NEW E, NEW D, NEW E2, NEW D2, E \subseteq E2, D \subseteq D2, NEW st \in StreamState(E, D)
    PROVE  st \in StreamState(E2, D2)
<1>1. /\ st \in [phase : {"down", "subscribed", "open"}, queue : Seq(E), wire : Seq(E \cup Sync(D))]
      /\ Len(st.queue) <= QueueCap /\ Len(st.wire) <= WireCap
  BY StreamIs
<1>2. Sync(D) \subseteq Sync(D2)
  BY DEF Sync
<1>3. st.queue \in Seq(E2)
  BY <1>1, SeqMonotonic
<1>4. E \cup Sync(D) \subseteq E2 \cup Sync(D2)
  BY <1>2
<1>5. st.wire \in Seq(E2 \cup Sync(D2))
  BY <1>1, <1>4, SeqMonotonic
<1>6. st \in [phase : {"down", "subscribed", "open"}, queue : Seq(E2), wire : Seq(E2 \cup Sync(D2))]
  BY <1>1, <1>3, <1>5
<1> QED
  BY <1>1, <1>6, StreamIs

\* The four things a server and its client do to an open stream, each with what it leaves on
\* the wire.
LEMMA SubscribedOK ==
    ASSUME NEW E, NEW D, NEW st \in StreamState(E, D)
    PROVE  Subscribed(st) \in StreamState(E, D) /\ Subscribed(st).wire = st.wire /\ Subscribed(st).queue = st.queue
<1>1. /\ st \in [phase : {"down", "subscribed", "open"}, queue : Seq(E), wire : Seq(E \cup Sync(D))]
      /\ Len(st.queue) <= QueueCap /\ Len(st.wire) <= WireCap
  BY StreamIs
<1> DEFINE t == Subscribed(st)
<1>2. t \in [phase : {"down", "subscribed", "open"}, queue : Seq(E), wire : Seq(E \cup Sync(D))]
      /\ t.queue = st.queue /\ t.wire = st.wire
  BY <1>1 DEF Subscribed
<1> QED
  BY <1>1, <1>2, StreamIs

\* What an update of a stream's fields leaves.
LEMMA StreamUpdates ==
    ASSUME NEW P, NEW Q, NEW W, NEW st \in [phase : P, queue : Q, wire : W], NEW p \in P, NEW q \in Q, NEW w \in W
    PROVE  /\ [st EXCEPT !.phase = p, !.wire = w] \in [phase : P, queue : Q, wire : W]
           /\ [st EXCEPT !.phase = p, !.wire = w].wire = w
           /\ [st EXCEPT !.phase = p, !.wire = w].queue = st.queue
           /\ [st EXCEPT !.queue = q, !.wire = w] \in [phase : P, queue : Q, wire : W]
           /\ [st EXCEPT !.queue = q, !.wire = w].wire = w
           /\ [st EXCEPT !.queue = q, !.wire = w].queue = q
           /\ [st EXCEPT !.wire = w] \in [phase : P, queue : Q, wire : W]
           /\ [st EXCEPT !.wire = w].wire = w
           /\ [st EXCEPT !.wire = w].queue = st.queue
           /\ [st EXCEPT !.queue = q] \in [phase : P, queue : Q, wire : W]
           /\ [st EXCEPT !.queue = q].wire = st.wire
           /\ [st EXCEPT !.queue = q].queue = q
  OBVIOUS

\* The server appends a dump to the wire.
LEMMA DumpSentOK ==
    ASSUME NEW E, NEW D, NEW st \in StreamState(E, D), NEW dump \in D, CanSend(st)
    PROVE  /\ DumpSent(st, dump) \in StreamState(E, D)
           /\ DumpSent(st, dump).wire = Append(st.wire, [type |-> "SYNC", dump |-> dump])
           /\ DumpSent(st, dump).queue = st.queue
<1> DEFINE P == {"down", "subscribed", "open"}
           W == Seq(E \cup Sync(D))
           w == Append(st.wire, [type |-> "SYNC", dump |-> dump])
           t == DumpSent(st, dump)
<1>1. st \in [phase : P, queue : Seq(E), wire : W] /\ Len(st.queue) <= QueueCap /\ Len(st.wire) < WireCap
  BY StreamIs DEF CanSend
<1>2. [type |-> "SYNC", dump |-> dump] \in E \cup Sync(D)
  BY DEF Sync
<1>3. w \in W /\ Len(w) = Len(st.wire) + 1 /\ Len(st.wire) \in Nat /\ "open" \in P
  BY <1>1, <1>2, AppendProperties, LenProperties
<1>4. t = [st EXCEPT !.phase = "open", !.wire = w]
  BY DEF DumpSent
<1> HIDE DEF P, W, w, t
<1>5. t \in [phase : P, queue : Seq(E), wire : W] /\ t.wire = w /\ t.queue = st.queue
  BY <1>1, <1>3, <1>4, StreamUpdates
<1>6. Len(t.queue) <= QueueCap /\ Len(t.wire) <= WireCap
  BY <1>1, <1>3, <1>5, StreamAssumption
<1> QED
  BY <1>5, <1>6, StreamIs DEF P, W, w, t

\* The server moves the oldest event from the channel to the wire.
LEMMA ForwardedOK ==
    ASSUME NEW E, NEW D, NEW st \in StreamState(E, D), CanForward(st)
    PROVE  /\ Forwarded(st) \in StreamState(E, D)
           /\ Forwarded(st).wire = Append(st.wire, Head(st.queue))
           /\ Forwarded(st).queue = Tail(st.queue)
           /\ Head(st.queue) \in E
<1> DEFINE P == {"down", "subscribed", "open"}
           W == Seq(E \cup Sync(D))
           q == Tail(st.queue)
           w == Append(st.wire, Head(st.queue))
           t == Forwarded(st)
<1>1. /\ st \in [phase : P, queue : Seq(E), wire : W]
      /\ Len(st.queue) <= QueueCap /\ Len(st.wire) < WireCap /\ st.queue # <<>>
  BY StreamIs DEF CanForward
<1>2. Head(st.queue) \in E /\ q \in Seq(E) /\ Len(q) = Len(st.queue) - 1 /\ Len(st.queue) \in Nat
  BY <1>1, HeadTailProperties, LenProperties
<1>3. w \in W /\ Len(w) = Len(st.wire) + 1 /\ Len(st.wire) \in Nat
  BY <1>1, <1>2, AppendProperties, LenProperties
<1>4. t = [st EXCEPT !.queue = q, !.wire = w]
  BY DEF Forwarded
<1> HIDE DEF P, W, q, w, t
<1>5. t \in [phase : P, queue : Seq(E), wire : W] /\ t.wire = w /\ t.queue = q
  <2>1. st.phase \in P
    BY <1>1
  <2> QED
    BY <1>1, <1>2, <1>3, <1>4, <2>1, StreamUpdates
<1>6. Len(t.queue) <= QueueCap /\ Len(t.wire) <= WireCap
  BY <1>1, <1>2, <1>3, <1>5, StreamAssumption
<1> QED
  BY <1>2, <1>5, <1>6, StreamIs DEF P, W, q, w, t

\* The client takes the oldest message off the wire.
LEMMA ReceivedOK ==
    ASSUME NEW E, NEW D, NEW st \in StreamState(E, D), st.wire # <<>>
    PROVE  /\ Received(st) \in StreamState(E, D)
           /\ Received(st).wire = Tail(st.wire)
           /\ Received(st).queue = st.queue
           /\ Head(st.wire) \in E \cup Sync(D)
<1> DEFINE P == {"down", "subscribed", "open"}
           W == Seq(E \cup Sync(D))
           w == Tail(st.wire)
           t == Received(st)
<1>1. st \in [phase : P, queue : Seq(E), wire : W] /\ Len(st.queue) <= QueueCap /\ Len(st.wire) <= WireCap
  BY StreamIs
<1>2. w \in W /\ Len(w) = Len(st.wire) - 1 /\ Len(st.wire) \in Nat /\ Head(st.wire) \in E \cup Sync(D)
  BY <1>1, HeadTailProperties, LenProperties
<1>3. t = [st EXCEPT !.wire = w]
  BY DEF Received
<1> HIDE DEF P, W, w, t
<1>4. t \in [phase : P, queue : Seq(E), wire : W] /\ t.wire = w /\ t.queue = st.queue
  <2>1. st.phase \in P /\ st.queue \in Seq(E)
    BY <1>1
  <2> QED
    BY <1>1, <1>2, <1>3, <2>1, StreamUpdates
<1>5. Len(t.queue) <= QueueCap /\ Len(t.wire) <= WireCap
  BY <1>1, <1>2, <1>4, StreamAssumption
<1> QED
  BY <1>2, <1>4, <1>5, StreamIs DEF P, W, w, t

\* An event that comes to a stream is queued, or dropped for want of room.
LEMMA QueuedOK ==
    ASSUME NEW E, NEW D, NEW st \in StreamState(E, D), NEW e \in E, Len(st.queue) < QueueCap
    PROVE  /\ [st EXCEPT !.queue = Append(@, e)] \in StreamState(E, D)
           /\ [st EXCEPT !.queue = Append(@, e)].wire = st.wire
           /\ [st EXCEPT !.queue = Append(@, e)].queue = Append(st.queue, e)
<1> DEFINE P == {"down", "subscribed", "open"}
           W == Seq(E \cup Sync(D))
           q == Append(st.queue, e)
           t == [st EXCEPT !.queue = Append(@, e)]
<1>1. st \in [phase : P, queue : Seq(E), wire : W] /\ Len(st.queue) <= QueueCap /\ Len(st.wire) <= WireCap
  BY StreamIs
<1>2. q \in Seq(E) /\ Len(q) = Len(st.queue) + 1 /\ Len(st.queue) \in Nat
  BY <1>1, AppendProperties, LenProperties
<1>3. t = [st EXCEPT !.queue = q]
  OBVIOUS
<1> HIDE DEF P, W, q, t
<1>4. t \in [phase : P, queue : Seq(E), wire : W] /\ t.wire = st.wire /\ t.queue = q
  <2>1. st.phase \in P /\ st.wire \in W
    BY <1>1
  <2> QED
    BY <1>1, <1>2, <1>3, <2>1, StreamUpdates
<1>5. Len(t.queue) <= QueueCap /\ Len(t.wire) <= WireCap
  BY <1>1, <1>2, <1>4, StreamAssumption
<1> QED
  BY <1>4, <1>5, StreamIs DEF P, W, q, t

-----------------------------------------------------------------------------
(* What a message does to the rules a node holds.                          *)

EventOf(S) == [type : {"ADDED", "REMOVED"}, rule : S]

\* The rules that node n has created.
createdBy(n) == {r \in created : owner(r) = n}

\* What the stream of a peer may carry: events about its own rules, and dumps.
Message(peer) == EventOf(createdBy(peer)) \cup Sync(SUBSET created)

\* syncRules, rule by rule.
LEMMA SyncRulesIs ==
    ASSUME NEW n, NEW peer, NEW held, NEW dump, NEW r
    PROVE  r \in syncRules(n, peer, held, dump) <=>
              /\ r \in held \/ (r \in dump /\ owner(r) # n)
              /\ owner(r) = peer => r \in dump
<1> DEFINE added == held \cup UNION {addRemoteRuleObject(n, held, x) : x \in dump \ held}
<1>1. r \in added <=> r \in held \/ (r \in dump /\ owner(r) # n)
  <2>1. ASSUME r \in added, r \notin held PROVE r \in dump /\ owner(r) # n
    <3>1. PICK x \in dump \ held : r \in addRemoteRuleObject(n, held, x)
      BY <2>1
    <3>2. r = x /\ owner(x) # n
      BY <2>1, <3>1 DEF addRemoteRuleObject
    <3> QED
      BY <3>1, <3>2
  <2>2. ASSUME r \in dump, owner(r) # n, r \notin held PROVE r \in added
    <3>1. r \in dump \ held /\ r \in addRemoteRuleObject(n, held, r)
      BY <2>2 DEF addRemoteRuleObject
    <3> QED
      BY <3>1
  <2> QED
    BY <2>1, <2>2
<1>2. syncRules(n, peer, held, dump) = {x \in added : owner(x) = peer => x \in dump}
  BY DEF syncRules
<1> HIDE DEF added
<1> QED
  BY <1>1, <1>2

\* A message of a peer brings only rules that were created, and leaves the rules a node owns
\* as they are.
LEMMA ApplyOK ==
    ASSUME NEW n, NEW peer, n # peer, NEW held \in SUBSET created, NEW msg \in Message(peer)
    PROVE  /\ Apply(n, peer, held, msg) \subseteq created
           /\ \A r : owner(r) = n => (r \in Apply(n, peer, held, msg) <=> r \in held)
<1>1. CASE msg \in Sync(SUBSET created)
  <2>1. msg.type = "SYNC" /\ msg.dump \subseteq created
    BY <1>1 DEF Sync
  <2>2. Apply(n, peer, held, msg) = syncRules(n, peer, held, msg.dump)
    BY <2>1 DEF Apply
  <2> QED
    BY <2>1, <2>2, SyncRulesIs
<1>2. CASE msg \in EventOf(createdBy(peer))
  <2>1. msg.type \in {"ADDED", "REMOVED"} /\ msg.rule \in created /\ owner(msg.rule) = peer
    BY <1>2 DEF EventOf, createdBy
  <2>2. CASE msg.type = "ADDED"
    <3>1. Apply(n, peer, held, msg) = addRemoteRuleObject(n, held, msg.rule)
      BY <2>2 DEF Apply
    <3> QED
      BY <2>1, <3>1 DEF addRemoteRuleObject
  <2>3. CASE msg.type = "REMOVED"
    <3>1. Apply(n, peer, held, msg) = deleteRemoteRuleObject(held, msg.rule)
      BY <2>3 DEF Apply
    <3> QED
      BY <2>1, <3>1 DEF deleteRemoteRuleObject
  <2> QED
    BY <2>1, <2>2, <2>3
<1> QED
  BY <1>1, <1>2 DEF Message

-----------------------------------------------------------------------------
(* The invariant.                                                          *)

\* Everything that is held, waits or is under way is about rules that were created, and a
\* stream carries events about the rules of its server only.
RulesInv ==
    /\ created \subseteq Rules
    /\ rules \in [Node -> SUBSET created]
    /\ notifying \subseteq EventOf(created)
    /\ stream = [p \in Links |-> stream[p]]
    /\ \A p \in Links : stream[p] \in StreamState(EventOf(createdBy(server(p))), SUBSET created)
    /\ breaks \in 0 .. MaxBreaks
    /\ restarts \in 0 .. MaxRestarts

\* The two ends of a stream are two nodes.
LEMMA LinkEnds ==
    ASSUME NEW p \in Links
    PROVE  server(p) \in Node /\ client(p) \in Node /\ client(p) # server(p)
  BY RulesAssumption DEF Pair, server, client

\* No rules and no streams.
LEMMA RulesInvInit == RulesInit => RulesInv
<1> SUFFICES ASSUME RulesInit PROVE RulesInv
  OBVIOUS
<1>1. \A p \in Links : stream[p] = Down
  BY DEF RulesInit
<1>2. \A p \in Links : stream[p] \in StreamState(EventOf(createdBy(server(p))), SUBSET created)
  BY <1>1, DownOK
<1> QED
  BY <1>2, RulesAssumption DEF RulesInit, RulesInv

\* The owner's own calls.
LEMMA AddRuleKeepsInv ==
    ASSUME RulesInv, NEW r \in Rules, AddRule(r)
    PROVE  RulesInv'
<1>1. created' = created \cup {r} /\ created \subseteq created' /\ created' \subseteq Rules
  BY DEF AddRule, RulesInv
<1>2. rules' \in [Node -> SUBSET created']
  BY <1>1 DEF AddRule, RulesInv
<1>3. notifying' \subseteq EventOf(created')
  BY <1>1 DEF AddRule, RulesInv, EventOf
<1>4. ASSUME NEW p \in Links
      PROVE  stream[p] \in StreamState(EventOf(createdBy(server(p))'), SUBSET created')
  <2>1. EventOf(createdBy(server(p))) \subseteq EventOf(createdBy(server(p))') /\ SUBSET created \subseteq SUBSET created'
    BY <1>1 DEF EventOf, createdBy
  <2> QED
    BY <2>1, StreamMonotone DEF RulesInv
<1> QED
  BY <1>1, <1>2, <1>3, <1>4 DEF AddRule, RulesInv, EventOf, createdBy

\* The owner removes a rule.
LEMMA RemoveRuleKeepsInv ==
    ASSUME RulesInv, NEW r \in Rules, RemoveRule(r)
    PROVE  RulesInv'
<1>1. owner(r) \in Node /\ r \in created
  BY RulesAssumption DEF RemoveRule, RulesInv
<1>2. rules' \in [Node -> SUBSET created]
  BY <1>1 DEF RemoveRule, RulesInv
<1>3. notifying' \subseteq EventOf(created)
  BY <1>1 DEF RemoveRule, RulesInv, EventOf
<1> QED
  BY <1>2, <1>3 DEF RemoveRule, RulesInv, EventOf, createdBy

\* The event of a call reaches the subscribers of the rule's owner.
LEMMA NotifyKeepsInv ==
    ASSUME RulesInv, NEW e \in Event, notifyFirewallEvent(e)
    PROVE  RulesInv'
<1>1. e \in EventOf(created)
  BY DEF notifyFirewallEvent, RulesInv
<1>2. DOMAIN stream = Links
  BY DEF RulesInv
<1>3. stream' = [p \in Links |-> stream'[p]]
  BY <1>2 DEF notifyFirewallEvent, Notified
<1>4. ASSUME NEW p \in Links
      PROVE  stream'[p] \in StreamState(EventOf(createdBy(server(p))), SUBSET created)
  <2>1. stream[p] \in StreamState(EventOf(createdBy(server(p))), SUBSET created)
    BY DEF RulesInv
  <2>2. CASE server(p) = owner(e.rule) /\ stream[p].phase # "down" /\ Len(stream[p].queue) < QueueCap
    <3>1. stream'[p] = [stream[p] EXCEPT !.queue = Append(@, e)]
      BY <1>2, <2>2 DEF notifyFirewallEvent, Notified
    <3>2. e \in EventOf(createdBy(server(p)))
      BY <1>1, <2>2 DEF EventOf, createdBy
    <3> QED
      BY <2>1, <2>2, <3>1, <3>2, QueuedOK
  <2>3. CASE ~(server(p) = owner(e.rule) /\ stream[p].phase # "down" /\ Len(stream[p].queue) < QueueCap)
    <3>1. stream'[p] = stream[p]
      BY <1>2, <2>3 DEF notifyFirewallEvent, Notified
    <3> QED
      BY <2>1, <3>1
  <2> QED
    BY <2>2, <2>3
<1> QED
  BY <1>3, <1>4 DEF notifyFirewallEvent, RulesInv, EventOf, createdBy

\* A step of one stream, which may also change the rules of its client.
LEMMA OneStreamKeepsInv ==
    ASSUME RulesInv, NEW p \in Links,
           NEW st \in StreamState(EventOf(createdBy(server(p))), SUBSET created),
           stream' = [stream EXCEPT ![p] = st], rules' \in [Node -> SUBSET created],
           breaks' \in 0 .. MaxBreaks, UNCHANGED <<created, notifying, restarts>>
    PROVE  RulesInv'
<1>1. stream' = [q \in Links |-> stream'[q]]
  BY DEF RulesInv
<1>2. \A q \in Links : stream'[q] = IF q = p THEN st ELSE stream[q]
  BY DEF RulesInv
<1>3. \A q \in Links : stream'[q] \in StreamState(EventOf(createdBy(server(q))), SUBSET created)
  BY <1>2 DEF RulesInv
<1> QED
  BY <1>1, <1>3 DEF RulesInv, EventOf, createdBy

\* The steps of the two ends of a stream.
LEMMA StreamKeepsInv ==
    ASSUME RulesInv, NEW p \in Links,
           \/ SubscribeClientsRules(p) \/ buildFirewallSyncEvent(p)
           \/ generateFirewallEvent(p) \/ streamPeerRulesData(p) \/ BreakStream(p)
    PROVE  RulesInv'
<1> DEFINE E == EventOf(createdBy(server(p)))
           D == SUBSET created
<1>1. stream[p] \in StreamState(E, D) /\ server(p) \in Node /\ client(p) \in Node /\ client(p) # server(p)
  BY LinkEnds DEF RulesInv
<1>2. rules \in [Node -> SUBSET created] /\ breaks \in 0 .. MaxBreaks
  BY DEF RulesInv
<1> HIDE DEF E, D
<1>3. CASE SubscribeClientsRules(p)
  <2>1. Subscribed(stream[p]) \in StreamState(E, D)
    BY <1>1, SubscribedOK
  <2> QED
    BY <1>2, <1>3, <2>1, OneStreamKeepsInv DEF SubscribeClientsRules, E, D
<1>4. CASE buildFirewallSyncEvent(p)
  <2>1. rules[server(p)] \in D
    BY <1>1, <1>2 DEF D
  <2>2. DumpSent(stream[p], rules[server(p)]) \in StreamState(E, D)
    BY <1>1, <1>4, <2>1, DumpSentOK DEF buildFirewallSyncEvent
  <2> QED
    BY <1>2, <1>4, <2>2, OneStreamKeepsInv DEF buildFirewallSyncEvent, E, D
<1>5. CASE generateFirewallEvent(p)
  <2>1. Forwarded(stream[p]) \in StreamState(E, D)
    BY <1>1, <1>5, ForwardedOK DEF generateFirewallEvent
  <2> QED
    BY <1>2, <1>5, <2>1, OneStreamKeepsInv DEF generateFirewallEvent, E, D
<1>6. CASE streamPeerRulesData(p)
  <2>1. Received(stream[p]) \in StreamState(E, D) /\ Head(stream[p].wire) \in E \cup Sync(D)
    BY <1>1, <1>6, ReceivedOK DEF streamPeerRulesData
  <2>2. Head(stream[p].wire) \in Message(server(p)) /\ rules[client(p)] \in SUBSET created
    BY <1>1, <1>2, <2>1 DEF Message, E, D
  <2>3. Apply(client(p), server(p), rules[client(p)], Head(stream[p].wire)) \subseteq created
    BY <1>1, <2>2, ApplyOK
  <2>4. rules' \in [Node -> SUBSET created]
    BY <1>2, <1>6, <2>3 DEF streamPeerRulesData
  <2> QED
    BY <1>2, <1>6, <2>1, <2>4, OneStreamKeepsInv DEF streamPeerRulesData, E, D
<1>7. CASE BreakStream(p)
  <2>1. Down \in StreamState(E, D)
    BY DownOK
  <2>2. breaks' \in 0 .. MaxBreaks
    BY <1>2, <1>7, RulesAssumption DEF BreakStream
  <2> QED
    BY <1>2, <1>7, <2>1, <2>2, OneStreamKeepsInv DEF BreakStream, E, D
<1> QED
  BY <1>3, <1>4, <1>5, <1>6, <1>7

\* A node starts again without rules and without streams.
LEMMA RestartKeepsInv ==
    ASSUME RulesInv, NEW n \in Node, Restart(n)
    PROVE  RulesInv'
<1>1. stream' = [p \in Links |-> stream'[p]]
  BY DEF Restart
<1>2. \A p \in Links : stream'[p] = Down \/ stream'[p] = stream[p]
  BY DEF Restart
<1>3. \A p \in Links : stream'[p] \in StreamState(EventOf(createdBy(server(p))), SUBSET created)
  BY <1>2, DownOK DEF RulesInv
<1>4. rules' \in [Node -> SUBSET created] /\ notifying' \subseteq EventOf(created)
  BY DEF Restart, RulesInv, own
<1>5. restarts' \in 0 .. MaxRestarts
  BY RulesAssumption DEF Restart, RulesInv
<1> QED
  BY <1>1, <1>3, <1>4, <1>5 DEF Restart, RulesInv, EventOf, createdBy

\* Every step keeps the invariant.
LEMMA RulesInvNext == RulesInv /\ [RulesNext]_vars => RulesInv'
<1> SUFFICES ASSUME RulesInv, [RulesNext]_vars PROVE RulesInv'
  OBVIOUS
<1>1. CASE RulesNext
  BY <1>1, AddRuleKeepsInv, RemoveRuleKeepsInv, NotifyKeepsInv, StreamKeepsInv, RestartKeepsInv DEF RulesNext
<1>2. CASE UNCHANGED vars
  BY <1>2 DEF vars, RulesInv, EventOf, createdBy
<1> QED
  BY <1>1, <1>2

\* Whatever is held, queued or on a wire concerns rules that were created, and a
\* stream carries events about the rules of its server only (SubscribeClientsRules).
THEOREM RulesInvariant == RulesSpec => []RulesInv
  BY RulesInvInit, RulesInvNext, PTL DEF RulesSpec

-----------------------------------------------------------------------------
(* Who creates and who removes the rules of a node.                        *)

\* Every firewall holds rules that their owner has created, and channels and wires keep to
\* their bounds, whatever is lost, repeated or restarted.
THEOREM RulesTypes == RulesSpec => []RulesTypeOK
<1>1. RulesInv => RulesTypeOK
  <2> SUFFICES ASSUME RulesInv PROVE RulesTypeOK
    OBVIOUS
  <2>1. EventOf(created) \subseteq Event /\ SUBSET created \subseteq SUBSET Rules
    BY DEF RulesInv, EventOf, Event
  <2>2. ASSUME NEW p \in Links PROVE stream[p] \in StreamState(Event, SUBSET Rules)
    <3>1. EventOf(createdBy(server(p))) \subseteq Event
      BY <2>1 DEF EventOf, createdBy
    <3> QED
      BY <2>1, <3>1, StreamMonotone DEF RulesInv
  <2>3. stream \in [Links -> StreamState(Event, SUBSET Rules)]
    BY <2>2 DEF RulesInv
  <2> QED
    BY <2>1, <2>3 DEF RulesInv, RulesTypeOK
<1> QED
  BY <1>1, RulesInvariant, PTL

\* What any step does to a rule at the node that owns it: only AddRule brings it, before it was
\* ever created, and only RemoveRule takes it.
LEMMA OwnRuleStep ==
    ASSUME RulesInv, RulesNext, NEW r \in Rules
    PROVE  /\ r \in rules'[owner(r)] /\ r \notin rules[owner(r)] => r \notin created
           /\ r \in rules[owner(r)] /\ r \notin rules'[owner(r)]
                 => [type |-> "REMOVED", rule |-> r] \in notifying'
<1>0. owner(r) \in Node /\ rules \in [Node -> SUBSET created]
  BY RulesAssumption DEF RulesInv
<1>1. CASE \E x \in Rules : AddRule(x)
  BY <1>0, <1>1 DEF AddRule
<1>2. CASE \E x \in Rules : RemoveRule(x)
  BY <1>0, <1>2 DEF RemoveRule
<1>3. CASE \E p \in Links : streamPeerRulesData(p)
  <2>1. PICK p \in Links : streamPeerRulesData(p)
    BY <1>3
  <2> DEFINE n == client(p)
             msg == Head(stream[p].wire)
  <2>2. n \in Node /\ n # server(p) /\ rules[n] \in SUBSET created
    BY <1>0, LinkEnds
  <2>3. stream[p] \in StreamState(EventOf(createdBy(server(p))), SUBSET created)
    BY DEF RulesInv
  <2>4. msg \in Message(server(p))
    BY <2>1, <2>3, ReceivedOK DEF streamPeerRulesData, Message
  <2>5. owner(r) = n => (r \in Apply(n, server(p), rules[n], msg) <=> r \in rules[n])
    BY <2>2, <2>4, ApplyOK
  <2>6. rules' = [rules EXCEPT ![n] = Apply(n, server(p), rules[n], msg)]
    BY <2>1 DEF streamPeerRulesData
  <2> HIDE DEF n, msg
  <2>7. r \in rules'[owner(r)] <=> r \in rules[owner(r)]
    BY <1>0, <2>2, <2>5, <2>6
  <2> QED
    BY <2>7
<1>4. CASE \E n \in Node : Restart(n)
  BY <1>0, <1>4 DEF Restart, own
<1>5. CASE UNCHANGED rules
  BY <1>5
<1> QED
  BY <1>1, <1>2, <1>3, <1>4, <1>5
     DEF RulesNext, notifyFirewallEvent, SubscribeClientsRules, buildFirewallSyncEvent, generateFirewallEvent, BreakStream

\* addRemoteRuleObject: no peer brings back a rule to the node that owns it.
THEOREM OwnerCreates == RulesSpec => OnlyOwnerCreates
<1> DEFINE Creates == \A r \in Rules : r \in rules'[owner(r)] /\ r \notin rules[owner(r)] => r \notin created
<1>1. RulesInv /\ [RulesNext]_vars => [Creates]_vars
  BY OwnRuleStep
<1> QED
  BY <1>1, RulesInvariant, PTL DEF RulesSpec, OnlyOwnerCreates

\* syncRules and deleteRemoteRuleObject: no peer takes a rule from the node that owns it.
THEOREM OwnerRemoves == RulesSpec => OnlyOwnerRemoves
<1> DEFINE Removes == \A r \in Rules : r \in rules[owner(r)] /\ r \notin rules'[owner(r)]
                                          => [type |-> "REMOVED", rule |-> r] \in notifying'
<1>1. RulesInv /\ [RulesNext]_vars => [Removes]_vars
  BY OwnRuleStep
<1> QED
  BY <1>1, RulesInvariant, PTL DEF RulesSpec, OnlyOwnerRemoves

-----------------------------------------------------------------------------
(* A node with one session keeps the rules that are in force.              *)

Removal(r) == [type |-> "REMOVED", rule |-> r]

\* A message that gives its receiver rule r, and one that takes it as no longer in force.
Brings(msg, r) == (msg.type = "ADDED" /\ msg.rule = r) \/ (msg.type = "SYNC" /\ r \in msg.dump)
Lacks(msg, r) == msg.type = "SYNC" /\ r \notin msg.dump

\* Message m is not on w.
Without(w, m) == \A i \in 1 .. Len(w) : w[i] # m

\* Nothing on a stream says that r was removed.
Quiet(st, r) == Without(st.queue, Removal(r)) /\ Without(st.wire, Removal(r))

\* A dump without r reaches the client before it has r from anything else.
InOrder(wire, held, r) ==
    \A i \in 1 .. Len(wire) :
        Lacks(wire[i], r) => r \notin held /\ \A j \in 1 .. i - 1 : ~Brings(wire[j], r)

\* A rule its owner has is nowhere announced as removed, and the dumps from before it was
\* created come first.
LiveInv ==
    /\ \A r \in Rules : r \in rules[owner(r)] => Removal(r) \notin notifying /\ \A p \in Links : Quiet(stream[p], r)
    /\ \A p \in Links : \A r \in own(server(p)) : InOrder(stream[p].wire, rules[client(p)], r)

\* A stream that is down announces nothing.
LEMMA InOrderEmpty ==
    ASSUME NEW held, NEW r
    PROVE  InOrder(<<>>, held, r) /\ Quiet(Down, r)
  BY DEF InOrder, Quiet, Without, Down

\* A message that is no dump without r keeps the order.
LEMMA InOrderAppend ==
    ASSUME NEW S, NEW w \in Seq(S), NEW msg \in S, NEW held, NEW r, InOrder(w, held, r), ~Lacks(msg, r)
    PROVE  InOrder(Append(w, msg), held, r)
<1> DEFINE v == Append(w, msg)
<1>1. Len(v) = Len(w) + 1 /\ Len(w) \in Nat /\ v[Len(w) + 1] = msg /\ \A i \in 1 .. Len(w) : v[i] = w[i]
  BY AppendProperties, LenProperties
<1> HIDE DEF v
<1> SUFFICES ASSUME NEW i \in 1 .. Len(v), Lacks(v[i], r)
             PROVE  r \notin held /\ \A j \in 1 .. i - 1 : ~Brings(v[j], r)
  BY DEF InOrder, v
<1>2. i \in 1 .. Len(w) /\ v[i] = w[i]
  BY <1>1
<1>3. r \notin held /\ \A j \in 1 .. i - 1 : ~Brings(w[j], r)
  BY <1>2 DEF InOrder
<1>4. \A j \in 1 .. i - 1 : v[j] = w[j]
  BY <1>1, <1>2
<1> QED
  BY <1>3, <1>4

\* The client applies the first message; what it holds then has come from what it held or from
\* that message.
LEMMA InOrderTail ==
    ASSUME NEW S, NEW w \in Seq(S), w # <<>>, NEW held, NEW after, NEW r, InOrder(w, held, r),
           r \in after => r \in held \/ Brings(Head(w), r)
    PROVE  InOrder(Tail(w), after, r)
<1> DEFINE v == Tail(w)
<1>1. Len(v) = Len(w) - 1 /\ Len(w) \in Nat /\ Head(w) = w[1] /\ \A i \in 1 .. Len(v) : v[i] = w[i + 1]
  BY HeadTailProperties, LenProperties
<1> HIDE DEF v
<1> SUFFICES ASSUME NEW i \in 1 .. Len(v), Lacks(v[i], r)
             PROVE  r \notin after /\ \A j \in 1 .. i - 1 : ~Brings(v[j], r)
  BY DEF InOrder, v
<1>2. i + 1 \in 1 .. Len(w) /\ Lacks(w[i + 1], r)
  BY <1>1
<1>3. r \notin held /\ \A j \in 1 .. (i + 1) - 1 : ~Brings(w[j], r)
  BY <1>2 DEF InOrder
<1>4. 1 \in 1 .. (i + 1) - 1 /\ \A j \in 1 .. i - 1 : v[j] = w[j + 1] /\ j + 1 \in 1 .. (i + 1) - 1
  BY <1>1
<1> QED
  BY <1>1, <1>3, <1>4

\* A sequence without m stays without it when another message is appended or the first one goes.
LEMMA WithoutKept ==
    ASSUME NEW S, NEW w \in Seq(S), NEW m, Without(w, m)
    PROVE  /\ \A x \in S : x # m => Without(Append(w, x), m)
           /\ w # <<>> => Head(w) # m /\ Without(Tail(w), m)
<1>1. ASSUME NEW x \in S, x # m PROVE Without(Append(w, x), m)
  <2>1. /\ Len(Append(w, x)) = Len(w) + 1 /\ Len(w) \in Nat /\ Append(w, x)[Len(w) + 1] = x
        /\ \A i \in 1 .. Len(w) : Append(w, x)[i] = w[i]
    BY AppendProperties, LenProperties
  <2> QED
    BY <1>1, <2>1 DEF Without
<1>2. ASSUME w # <<>> PROVE Head(w) # m /\ Without(Tail(w), m)
  <2>1. Len(Tail(w)) = Len(w) - 1 /\ Len(w) \in Nat \ {0} /\ Head(w) = w[1]
        /\ \A i \in 1 .. Len(Tail(w)) : Tail(w)[i] = w[i + 1]
    BY <1>2, HeadTailProperties, EmptySeq
  <2> QED
    BY <2>1 DEF Without
<1> QED
  BY <1>1, <1>2

\* No rules and no streams.
LEMMA LiveInvInit == RulesInit => LiveInv
<1> SUFFICES ASSUME RulesInit PROVE LiveInv
  OBVIOUS
<1>1. (\A n \in Node : rules[n] = {}) /\ (\A r \in Rules : owner(r) \in Node) /\ (\A p \in Links : server(p) \in Node)
  BY RulesAssumption, LinkEnds DEF RulesInit
<1> QED
  BY <1>1 DEF LiveInv, own

\* The messages of a stream, by type.
LEMMA MessageIs ==
    ASSUME NEW peer, NEW msg \in Message(peer)
    PROVE  \/ msg.type = "SYNC" /\ msg.dump \subseteq created /\ (\A r : msg # Removal(r))
           \/ /\ msg.type \in {"ADDED", "REMOVED"} /\ msg.rule \in created /\ owner(msg.rule) = peer
              /\ msg = [type |-> msg.type, rule |-> msg.rule]
<1>1. CASE msg \in Sync(SUBSET created)
  <2>1. msg.type = "SYNC" /\ msg.dump \subseteq created
    BY <1>1 DEF Sync
  <2>2. \A r : Removal(r).type = "REMOVED"
    BY DEF Removal
  <2> QED
    BY <2>1, <2>2
<1>2. CASE msg \in EventOf(createdBy(peer))
  BY <1>2 DEF EventOf, createdBy
<1> QED
  BY <1>1, <1>2 DEF Message

\* Queue and wire of a stream.
LEMMA StreamSeqs ==
    ASSUME RulesInv, NEW p \in Links
    PROVE  /\ stream[p].queue \in Seq(EventOf(createdBy(server(p))))
           /\ stream[p].wire \in Seq(Message(server(p)))
<1>1. stream[p] \in StreamState(EventOf(createdBy(server(p))), SUBSET created)
  BY DEF RulesInv
<1>2. stream[p] \in [phase : {"down", "subscribed", "open"}, queue : Seq(EventOf(createdBy(server(p)))),
                     wire : Seq(Message(server(p)))]
  BY <1>1, StreamIs DEF Message
<1> QED
  BY <1>2

\* AddRule: nobody has heard of the new rule.
LEMMA AddRuleKeepsLive ==
    ASSUME RulesInv, LiveInv, NEW x \in Rules, AddRule(x)
    PROVE  LiveInv'
<1>1. /\ x \notin created /\ owner(x) \in Node /\ rules \in [Node -> SUBSET created]
      /\ rules' = [rules EXCEPT ![owner(x)] = @ \cup {x}] /\ stream' = stream
      /\ notifying' = notifying \cup {[type |-> "ADDED", rule |-> x]}
  BY RulesAssumption DEF AddRule, RulesInv
<1>2. \A r \in Rules : r # x => \A n \in Node : r \in rules'[n] <=> r \in rules[n]
  BY <1>1
<1>3. Removal(x) \notin notifying'
  BY <1>1 DEF RulesInv, EventOf, Removal
<1>4. ASSUME NEW p \in Links PROVE Quiet(stream[p], x)
  <2>1. \A i \in 1 .. Len(stream[p].queue) : stream[p].queue[i] # Removal(x)
    <3>1. \A i \in 1 .. Len(stream[p].queue) : stream[p].queue[i] \in EventOf(createdBy(server(p)))
      BY StreamSeqs, ElementOfSeq
    <3>2. Removal(x) \notin EventOf(createdBy(server(p)))
      BY <1>1 DEF EventOf, createdBy, Removal
    <3> QED
      BY <3>1, <3>2
  <2>2. \A i \in 1 .. Len(stream[p].wire) : stream[p].wire[i] # Removal(x)
    <3>1. \A i \in 1 .. Len(stream[p].wire) : stream[p].wire[i] \in Message(server(p))
      BY StreamSeqs, ElementOfSeq
    <3>2. Removal(x) \notin Message(server(p))
      BY <1>1 DEF Message, EventOf, createdBy, Removal, Sync
    <3> QED
      BY <3>1, <3>2
  <2> QED
    BY <2>1, <2>2 DEF Quiet, Without
<1>5. ASSUME NEW p \in Links, owner(x) = server(p) PROVE InOrder(stream[p].wire, rules'[client(p)], x)
  <2>1. x \notin rules'[client(p)]
    BY <1>1, <1>5, LinkEnds
  <2>2. \A i \in 1 .. Len(stream[p].wire) : stream[p].wire[i] \in Message(server(p))
    BY StreamSeqs, ElementOfSeq
  <2>3. \A msg \in Message(server(p)) : ~Brings(msg, x)
    BY <1>1, MessageIs DEF Brings
  <2>4. Len(stream[p].wire) \in Nat
    BY StreamSeqs, LenProperties
  <2> QED
    BY <2>1, <2>2, <2>3, <2>4 DEF InOrder
<1>6. ASSUME NEW r \in Rules, r \in rules'[owner(r)]
      PROVE  Removal(r) \notin notifying' /\ \A p \in Links : Quiet(stream'[p], r)
  <2>1. CASE r = x
    BY <1>1, <1>3, <1>4, <2>1
  <2>2. CASE r # x
    <3>1. r \in rules[owner(r)]
      BY <1>2, <1>6, <2>2, RulesAssumption
    <3> QED
      BY <1>1, <3>1 DEF LiveInv, Removal
  <2> QED
    BY <2>1, <2>2
<1>7. ASSUME NEW p \in Links, NEW r \in rules'[server(p)], owner(r) = server(p)
      PROVE  InOrder(stream'[p].wire, rules'[client(p)], r)
  <2>0. server(p) \in Node /\ client(p) \in Node
    BY LinkEnds
  <2>1. CASE r = x
    BY <1>1, <1>5, <1>7, <2>1
  <2>2. CASE r # x
    <3>1. r \in own(server(p)) /\ (r \in rules'[client(p)] <=> r \in rules[client(p)])
      BY <1>1, <1>7, <2>0, <2>2 DEF own
    <3>2. InOrder(stream[p].wire, rules[client(p)], r)
      BY <3>1 DEF LiveInv
    <3> QED
      BY <1>1, <3>1, <3>2 DEF InOrder
  <2> QED
    BY <2>1, <2>2
<1> QED
  BY <1>6, <1>7 DEF LiveInv, own

\* RemoveRule: the rule is no longer its owner's, and the others are still where they were.
LEMMA RemoveRuleKeepsLive ==
    ASSUME RulesInv, LiveInv, NEW x \in Rules, RemoveRule(x)
    PROVE  LiveInv'
<1>1. /\ owner(x) \in Node /\ rules \in [Node -> SUBSET created] /\ stream' = stream
      /\ rules' = [rules EXCEPT ![owner(x)] = @ \ {x}]
      /\ notifying' = notifying \cup {Removal(x)}
  BY RulesAssumption DEF RemoveRule, RulesInv, Removal
<1>2. \A n \in Node : rules'[n] \subseteq rules[n]
  BY <1>1
<1>3. ASSUME NEW r \in Rules, r \in rules'[owner(r)]
      PROVE  Removal(r) \notin notifying' /\ \A p \in Links : Quiet(stream'[p], r)
  <2>1. r \in rules[owner(r)] /\ r # x
    BY <1>1, <1>3, RulesAssumption
  <2>2. Removal(r) # Removal(x)
    BY <2>1 DEF Removal
  <2> QED
    BY <1>1, <2>1, <2>2 DEF LiveInv
<1>4. ASSUME NEW p \in Links, NEW r \in rules'[server(p)], owner(r) = server(p)
      PROVE  InOrder(stream'[p].wire, rules'[client(p)], r)
  <2>1. r \in own(server(p)) /\ rules'[client(p)] \subseteq rules[client(p)]
    BY <1>2, <1>4, LinkEnds DEF own
  <2>2. InOrder(stream[p].wire, rules[client(p)], r)
    BY <2>1 DEF LiveInv
  <2> QED
    BY <1>1, <2>1, <2>2 DEF InOrder
<1> QED
  BY <1>3, <1>4 DEF LiveInv, own

\* Unless a rule is created, a rule its owner has now is one it had before.
LEMMA StillOwned ==
    ASSUME RulesInv, RulesInv', RulesNext, created' = created, NEW r \in Rules, r \in rules'[owner(r)]
    PROVE  r \in rules[owner(r)]
<1>1. r \in created
  BY RulesAssumption DEF RulesInv
<1> QED
  BY <1>1, OwnRuleStep

\* The event of a call joins queues; the wires stay.
LEMMA NotifyKeepsLive ==
    ASSUME RulesInv, LiveInv, NEW e \in Event, notifyFirewallEvent(e)
    PROVE  LiveInv'
<1>1. e \in notifying /\ e \in EventOf(created) /\ rules' = rules /\ notifying' \subseteq notifying /\ DOMAIN stream = Links
  BY DEF notifyFirewallEvent, RulesInv
<1>2. ASSUME NEW p \in Links
      PROVE  /\ stream'[p].wire = stream[p].wire
             /\ \A r : e # Removal(r) /\ Quiet(stream[p], r) => Quiet(stream'[p], r)
  <2>1. stream[p] \in StreamState(EventOf(createdBy(server(p))), SUBSET created)
    BY DEF RulesInv
  <2>2. CASE server(p) = owner(e.rule) /\ stream[p].phase # "down" /\ Len(stream[p].queue) < QueueCap
    <3>1. stream'[p] = [stream[p] EXCEPT !.queue = Append(@, e)]
      BY <1>1, <2>2 DEF notifyFirewallEvent, Notified
    <3>2. e \in EventOf(createdBy(server(p)))
      BY <1>1, <2>2 DEF EventOf, createdBy
    <3>3. stream'[p].wire = stream[p].wire /\ stream'[p].queue = Append(stream[p].queue, e)
      BY <2>1, <2>2, <3>1, <3>2, QueuedOK
    <3>4. \A r : e # Removal(r) /\ Quiet(stream[p], r) => Quiet(stream'[p], r)
      BY <3>2, <3>3, StreamSeqs, WithoutKept DEF Quiet
    <3> QED
      BY <3>3, <3>4
  <2>3. CASE ~(server(p) = owner(e.rule) /\ stream[p].phase # "down" /\ Len(stream[p].queue) < QueueCap)
    BY <1>1, <2>3 DEF notifyFirewallEvent, Notified
  <2> QED
    BY <2>2, <2>3
<1>3. \A r \in Rules : r \in rules[owner(r)] => e # Removal(r)
  BY <1>1 DEF LiveInv
<1> QED
  BY <1>1, <1>2, <1>3 DEF LiveInv, own

\* A step of one stream.
LEMMA OneStreamKeepsLive ==
    ASSUME RulesInv, LiveInv, NEW p \in Links, NEW st, stream' = [stream EXCEPT ![p] = st], notifying' = notifying,
           \A r \in Rules : r \in rules'[owner(r)] => r \in rules[owner(r)],
           \A q \in Links : q # p => rules'[client(q)] = rules[client(q)],
           \A r \in Rules : r \in rules[owner(r)] => Quiet(st, r),
           \A r \in own(server(p)) : InOrder(st.wire, rules'[client(p)], r),
           \A q \in Links : rules'[server(q)] \subseteq Rules
    PROVE  LiveInv'
<1>1. \A q \in Links : stream'[q] = IF q = p THEN st ELSE stream[q]
  BY DEF RulesInv
<1>2. ASSUME NEW r \in Rules, r \in rules'[owner(r)]
      PROVE  Removal(r) \notin notifying' /\ \A q \in Links : Quiet(stream'[q], r)
  BY <1>1, <1>2 DEF LiveInv
<1>3. ASSUME NEW q \in Links, NEW r \in rules'[server(q)], owner(r) = server(q)
      PROVE  InOrder(stream'[q].wire, rules'[client(q)], r)
  <2>1. r \in own(server(q))
    BY <1>3 DEF own
  <2>2. CASE q = p
    BY <1>1, <2>1, <2>2
  <2>3. CASE q # p
    BY <1>1, <2>1, <2>3 DEF LiveInv
  <2> QED
    BY <2>2, <2>3
<1> QED
  BY <1>2, <1>3 DEF LiveInv, own

\* What the server of a stream does: the rule a server has is in the dump it builds, and no
\* event it forwards removes it.
LEMMA ServerKeepsLive ==
    ASSUME RulesInv, RulesInv', LiveInv, NEW p \in Links,
           SubscribeClientsRules(p) \/ buildFirewallSyncEvent(p) \/ generateFirewallEvent(p) \/ BreakStream(p)
    PROVE  LiveInv'
<1> DEFINE E == EventOf(createdBy(server(p)))
           D == SUBSET created
<1>1. stream[p] \in StreamState(E, D) /\ stream[p].wire \in Seq(E \cup Sync(D)) /\ stream[p].queue \in Seq(E)
  BY StreamSeqs DEF RulesInv, Message
<1>2. rules' = rules /\ notifying' = notifying /\ (\A q \in Links : rules'[server(q)] \subseteq Rules)
  BY LinkEnds DEF SubscribeClientsRules, buildFirewallSyncEvent, generateFirewallEvent, BreakStream, RulesInv
<1>3. /\ \A r \in Rules : r \in rules[owner(r)] => Quiet(stream[p], r)
      /\ \A r \in own(server(p)) : InOrder(stream[p].wire, rules[client(p)], r)
  BY DEF LiveInv
<1>4. SUFFICES ASSUME NEW st, stream' = [stream EXCEPT ![p] = st]
               PROVE  /\ \A r \in Rules : r \in rules[owner(r)] => Quiet(st, r)
                      /\ \A r \in own(server(p)) : InOrder(st.wire, rules[client(p)], r)
  BY <1>2, OneStreamKeepsLive
     DEF SubscribeClientsRules, buildFirewallSyncEvent, generateFirewallEvent, BreakStream
<1>5. stream'[p] = st
  BY <1>4 DEF RulesInv
<1> HIDE DEF E, D
<1>6. CASE SubscribeClientsRules(p)
  <2>1. st = Subscribed(stream[p])
    BY <1>5, <1>6 DEF SubscribeClientsRules, RulesInv
  <2>2. st.wire = stream[p].wire /\ st.queue = stream[p].queue
    BY <1>1, <2>1, SubscribedOK
  <2> QED
    BY <1>3, <2>2 DEF Quiet
<1>7. CASE buildFirewallSyncEvent(p)
  <2> DEFINE msg == [type |-> "SYNC", dump |-> rules[server(p)]]
  <2>1. st = DumpSent(stream[p], rules[server(p)]) /\ CanSend(stream[p])
    BY <1>5, <1>7 DEF buildFirewallSyncEvent, RulesInv
  <2>2. rules[server(p)] \in D
    BY LinkEnds DEF RulesInv, D
  <2>3. st.wire = Append(stream[p].wire, msg) /\ st.queue = stream[p].queue
    BY <1>1, <2>1, <2>2, DumpSentOK
  <2>4. msg \in E \cup Sync(D) /\ (\A r : msg # Removal(r)) /\ (\A r \in own(server(p)) : ~Lacks(msg, r))
    <3>1. \A r : Removal(r).type = "REMOVED"
      BY DEF Removal
    <3>2. \A r \in rules[server(p)] : ~Lacks(msg, r)
      BY DEF Lacks
    <3> QED
      BY <2>2, <3>1, <3>2 DEF Sync, own
  <2> HIDE DEF msg
  <2>5. ASSUME NEW r \in Rules, r \in rules[owner(r)] PROVE Quiet(st, r)
    <3>1. Without(stream[p].queue, Removal(r)) /\ Without(stream[p].wire, Removal(r))
      BY <1>3, <2>5 DEF Quiet
    <3>2. msg # Removal(r)
      BY <2>4
    <3>3. Without(Append(stream[p].wire, msg), Removal(r))
      BY <1>1, <2>4, <3>1, <3>2, WithoutKept
    <3> QED
      BY <2>3, <3>1, <3>3 DEF Quiet
  <2>6. \A r \in own(server(p)) : InOrder(st.wire, rules[client(p)], r)
    BY <1>1, <1>3, <2>3, <2>4, InOrderAppend
  <2> QED
    BY <2>5, <2>6
<1>8. CASE generateFirewallEvent(p)
  <2> DEFINE msg == Head(stream[p].queue)
  <2>1. st = Forwarded(stream[p]) /\ CanForward(stream[p]) /\ stream[p].queue # <<>>
    BY <1>5, <1>8 DEF generateFirewallEvent, RulesInv, CanForward
  <2>2. st.wire = Append(stream[p].wire, msg) /\ st.queue = Tail(stream[p].queue) /\ msg \in E
    BY <1>1, <2>1, ForwardedOK
  <2>3. msg \in E \cup Sync(D) /\ \A r : ~Lacks(msg, r)
    BY <2>2 DEF E, EventOf, Lacks
  <2>4. ASSUME NEW r \in Rules, r \in rules[owner(r)] PROVE msg # Removal(r)
    <3>1. Without(stream[p].queue, Removal(r))
      BY <1>3, <2>4 DEF Quiet
    <3> QED
      BY <1>1, <2>1, <3>1, WithoutKept
  <2> HIDE DEF msg
  <2>5. ASSUME NEW r \in Rules, r \in rules[owner(r)] PROVE Quiet(st, r)
    <3>1. Quiet(stream[p], r) /\ msg # Removal(r)
      BY <1>3, <2>4, <2>5
    <3>2. Without(st.queue, Removal(r))
      BY <1>1, <2>1, <2>2, <3>1, WithoutKept DEF Quiet
    <3>3. Without(st.wire, Removal(r))
      BY <1>1, <2>2, <2>3, <3>1, WithoutKept DEF Quiet
    <3> QED
      BY <3>2, <3>3 DEF Quiet
  <2>6. \A r \in own(server(p)) : InOrder(st.wire, rules[client(p)], r)
    BY <1>1, <1>3, <2>2, <2>3, InOrderAppend
  <2> QED
    BY <2>5, <2>6
<1>9. CASE BreakStream(p)
  <2>1. st = Down
    BY <1>5, <1>9 DEF BreakStream, RulesInv
  <2> QED
    BY <2>1, InOrderEmpty DEF Down
<1> QED
  BY <1>6, <1>7, <1>8, <1>9

\* A client with one session: the message it applies comes from the only stream that brings it
\* the rules of that server.
LEMMA ClientKeepsLive ==
    ASSUME RulesInv, RulesInv', LiveInv, RulesNext, \A p, q \in Links : client(p) = client(q) => p = q,
           NEW p \in Links, streamPeerRulesData(p)
    PROVE  LiveInv'
<1> DEFINE n == client(p)
           msg == Head(stream[p].wire)
           after == Apply(n, server(p), rules[n], msg)
           st == Received(stream[p])
<1>1. n \in Node /\ n # server(p) /\ rules \in [Node -> SUBSET created] /\ rules[n] \subseteq created
  BY LinkEnds DEF RulesInv
<1>2. /\ stream[p].wire # <<>> /\ stream' = [stream EXCEPT ![p] = st] /\ notifying' = notifying /\ created' = created
      /\ rules' = [rules EXCEPT ![n] = after]
  BY DEF streamPeerRulesData
<1>3. /\ st.wire = Tail(stream[p].wire) /\ st.queue = stream[p].queue /\ msg \in Message(server(p))
      /\ stream[p].wire \in Seq(Message(server(p)))
  <2>1. stream[p] \in StreamState(EventOf(createdBy(server(p))), SUBSET created)
    BY DEF RulesInv
  <2>2. stream[p].wire \in Seq(Message(server(p)))
    BY StreamSeqs
  <2> QED
    BY <1>2, <2>1, <2>2, ReceivedOK DEF Message
<1>4. \A r \in after : r \in rules[n] \/ Brings(msg, r)
  <2>1. CASE msg.type = "SYNC"
    BY <2>1, SyncRulesIs DEF Apply, Brings
  <2>2. CASE msg.type = "ADDED"
    <3>1. after = addRemoteRuleObject(n, rules[n], msg.rule)
      BY <2>2 DEF Apply
    <3> QED
      BY <2>2, <3>1 DEF addRemoteRuleObject, Brings
  <2>3. CASE msg.type = "REMOVED"
    <3>1. after = deleteRemoteRuleObject(rules[n], msg.rule)
      BY <2>3 DEF Apply
    <3> QED
      BY <3>1 DEF deleteRemoteRuleObject
  <2> QED
    BY <1>3, <2>1, <2>2, <2>3, MessageIs
<1> HIDE DEF n, msg, after, st
<1>5. \A r \in Rules : r \in rules'[owner(r)] => r \in rules[owner(r)]
  BY <1>2, StillOwned
<1>6. \A q \in Links : q # p => rules'[client(q)] = rules[client(q)]
  BY <1>1, <1>2, LinkEnds DEF n
<1>7. rules'[n] = after /\ rules'[client(p)] = after
  BY <1>1, <1>2 DEF n
<1>8. \A r \in Rules : r \in rules[owner(r)] => Quiet(st, r)
  <2> SUFFICES ASSUME NEW r \in Rules, r \in rules[owner(r)] PROVE Quiet(st, r)
    OBVIOUS
  <2>1. Without(stream[p].queue, Removal(r)) /\ Without(stream[p].wire, Removal(r))
    BY DEF LiveInv, Quiet
  <2>2. stream[p].wire # <<>> => Without(Tail(stream[p].wire), Removal(r))
    BY <1>3, <2>1, StreamSeqs, WithoutKept
  <2> QED
    BY <1>2, <1>3, <2>1, <2>2 DEF Quiet
<1>9. \A r \in own(server(p)) : InOrder(st.wire, after, r)
  <2>1. \A r \in own(server(p)) : InOrder(stream[p].wire, rules[n], r)
    BY DEF LiveInv, n
  <2> QED
    BY <1>2, <1>3, <1>4, <2>1, InOrderTail DEF msg
<1>10. \A q \in Links : rules'[server(q)] \subseteq Rules
  BY LinkEnds DEF RulesInv
<1>11. \A r \in own(server(p)) : InOrder(st.wire, rules'[client(p)], r)
  BY <1>7, <1>9
<1>12. stream' = [stream EXCEPT ![p] = st] /\ notifying' = notifying
  BY <1>2
<1> QED
  BY <1>5, <1>6, <1>8, <1>10, <1>11, <1>12, OneStreamKeepsLive

\* A restart takes the streams of the node down with it.
LEMMA RestartKeepsLive ==
    ASSUME RulesInv, LiveInv, NEW n \in Node, Restart(n)
    PROVE  LiveInv'
<1>1. /\ rules \in [Node -> SUBSET created] /\ rules' = [rules EXCEPT ![n] = own(n)] /\ notifying' \subseteq notifying
      /\ stream' = [p \in Links |-> IF n \in {server(p), client(p)} THEN Down ELSE stream[p]]
  BY DEF Restart, RulesInv
<1>2. \A m \in Node : rules'[m] \subseteq rules[m]
  BY <1>1 DEF own
<1>3. ASSUME NEW r \in Rules, r \in rules'[owner(r)]
      PROVE  Removal(r) \notin notifying' /\ \A p \in Links : Quiet(stream'[p], r)
  <2>1. r \in rules[owner(r)]
    BY <1>2, <1>3, RulesAssumption
  <2> QED
    BY <1>1, <2>1, InOrderEmpty DEF LiveInv
<1>4. ASSUME NEW p \in Links, NEW r \in rules'[server(p)], owner(r) = server(p)
      PROVE  InOrder(stream'[p].wire, rules'[client(p)], r)
  <2>1. r \in own(server(p)) /\ client(p) \in Node
    BY <1>2, <1>4, LinkEnds DEF own
  <2>2. CASE n \in {server(p), client(p)}
    <3>1. stream'[p].wire = <<>>
      BY <1>1, <2>2 DEF Down
    <3> QED
      BY <3>1, InOrderEmpty
  <2>3. CASE n \notin {server(p), client(p)}
    <3>1. stream'[p] = stream[p] /\ rules'[client(p)] = rules[client(p)]
      BY <1>1, <2>1, <2>3
    <3> QED
      BY <2>1, <3>1 DEF LiveInv
  <2> QED
    BY <2>2, <2>3
<1> QED
  BY <1>3, <1>4 DEF LiveInv, own

\* Every step keeps LiveInv, in a mesh where each node has one session.
LEMMA LiveInvNext ==
    ASSUME \A p, q \in Links : client(p) = client(q) => p = q
    PROVE  RulesInv /\ RulesInv' /\ LiveInv /\ [RulesNext]_vars => LiveInv'
<1> SUFFICES ASSUME RulesInv, RulesInv', LiveInv, [RulesNext]_vars PROVE LiveInv'
  OBVIOUS
<1>1. CASE RulesNext
  BY <1>1, AddRuleKeepsLive, RemoveRuleKeepsLive, NotifyKeepsLive, ServerKeepsLive, ClientKeepsLive, RestartKeepsLive
     DEF RulesNext
<1>2. CASE UNCHANGED vars
  BY <1>2 DEF vars, LiveInv, own
<1> QED
  BY <1>1, <1>2

\* What any step does to a rule that both its owner and a peer of the owner hold.
LEMMA LiveRuleStep ==
    ASSUME \A p, q \in Links : client(p) = client(q) => p = q,
           RulesInv, LiveInv, RulesNext, NEW p \in Links, NEW r \in own(server(p)) \cap rules[client(p)]
    PROVE  r \in rules'[client(p)] \/ restarts' # restarts \/ r \notin rules'[server(p)]
<1>1. /\ rules \in [Node -> SUBSET created] /\ owner(r) = server(p) /\ r \in rules[server(p)] /\ r \in rules[client(p)]
      /\ server(p) \in Node /\ client(p) \in Node /\ client(p) # server(p) /\ r \in Rules
  BY LinkEnds DEF RulesInv, own
<1>2. CASE \E x \in Rules : AddRule(x)
  BY <1>1, <1>2 DEF AddRule
<1>3. CASE \E x \in Rules : RemoveRule(x)
  BY <1>1, <1>3 DEF RemoveRule
<1>4. CASE \E q \in Links : streamPeerRulesData(q)
  <2>1. PICK q \in Links : streamPeerRulesData(q)
    BY <1>4
  <2>2. CASE q # p
    <3>1. client(q) # client(p)
      BY <2>2
    <3> QED
      BY <1>1, <2>1, <3>1 DEF streamPeerRulesData
  <2>3. CASE q = p
    <3> DEFINE w == stream[p].wire
               msg == Head(w)
               after == Apply(client(p), server(p), rules[client(p)], msg)
    <3>1. w \in Seq(Message(server(p))) /\ w # <<>> /\ rules'[client(p)] = after
      BY <1>1, <2>1, <2>3, StreamSeqs DEF streamPeerRulesData
    <3> HIDE DEF w
    <3>2. Len(w) \in Nat \ {0} /\ msg = w[1] /\ msg \in Message(server(p))
      <4>1. w # <<>> /\ w \in Seq(Message(server(p)))
        BY <3>1
      <4>2. Len(w) \in Nat /\ Len(w) # 0
        BY <4>1, EmptySeq, LenProperties
      <4>3. Head(w) = w[1] /\ Head(w) \in Message(server(p))
        BY <4>1, HeadTailProperties
      <4> QED
        BY <4>2, <4>3
    <3>3. InOrder(w, rules[client(p)], r) /\ Without(w, Removal(r))
      BY <1>1 DEF LiveInv, Quiet, w
    <3>4. ~Lacks(msg, r) /\ msg # Removal(r)
      BY <1>1, <3>2, <3>3 DEF InOrder, Without
    <3> HIDE DEF msg
    <3>5. CASE msg.type = "SYNC"
      <4>1. after = syncRules(client(p), server(p), rules[client(p)], msg.dump)
        BY <3>5 DEF Apply
      <4>2. r \in msg.dump
        BY <3>4, <3>5 DEF Lacks
      <4>3. r \in after
        BY <1>1, <4>1, <4>2, SyncRulesIs
      <4> QED
        BY <3>1, <4>3
    <3>6. CASE msg.type = "ADDED"
      <4>1. after = addRemoteRuleObject(client(p), rules[client(p)], msg.rule)
        BY <3>6 DEF Apply
      <4> QED
        BY <1>1, <3>1, <4>1 DEF addRemoteRuleObject
    <3>7. CASE msg.type = "REMOVED"
      <4>1. after = deleteRemoteRuleObject(rules[client(p)], msg.rule)
        BY <3>7 DEF Apply
      <4>2. msg = Removal(msg.rule)
        BY <3>2, <3>7, MessageIs DEF Removal
      <4>3. msg.rule # r
        BY <3>4, <4>2
      <4> QED
        BY <1>1, <3>1, <4>1, <4>3 DEF deleteRemoteRuleObject
    <3> QED
      BY <3>2, <3>5, <3>6, <3>7, MessageIs
  <2> QED
    BY <2>2, <2>3
<1>5. CASE \E n \in Node : Restart(n)
  BY <1>5, RulesAssumption DEF Restart, RulesInv
<1>6. CASE UNCHANGED rules
  BY <1>1, <1>6
<1> QED
  BY <1>2, <1>3, <1>4, <1>5, <1>6
     DEF RulesNext, notifyFirewallEvent, SubscribeClientsRules, buildFirewallSyncEvent, generateFirewallEvent, BreakStream

\* streamPeerRulesData, on a node with one session: a rule in force that the node holds stays,
\* whatever stale dumps, lost events and broken streams there have been.
THEOREM LiveRuleKept ==
    ASSUME \A p, q \in Links : client(p) = client(q) => p = q
    PROVE  RulesSpec => LiveRuleStays
<1> DEFINE Stays == \A p \in Links : \A r \in own(server(p)) \cap rules[client(p)] :
                       r \in rules'[client(p)] \/ restarts' # restarts \/ r \notin rules'[server(p)]
<1>1. RulesInv /\ LiveInv /\ [RulesNext]_vars => [Stays]_vars
  BY LiveRuleStep
<1>2. RulesSpec => []LiveInv
  BY LiveInvInit, LiveInvNext, RulesInvariant, PTL DEF RulesSpec
<1> QED
  BY <1>1, <1>2, RulesInvariant, PTL DEF RulesSpec, LiveRuleStays
=============================================================================
