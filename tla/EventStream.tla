---------------------------- MODULE EventStream ----------------------------
(***************************************************************************)
(* One server stream of the mesh: what a node tells one of its peers about *)
(* its rules, its clients or its peer store.  The three gRPC services that *)
(* do this (peerssync/server.go, discovery/server.go) share one shape:     *)
(* subscribe to the local events first, send a full dump, then repeat the  *)
(* dump on a ticker and forward the events in between.                     *)
(*                                                                         *)
(* A stream is a value of StreamState; the modules that extend this one    *)
(* hold one stream for every pair <<server, client>> that has a session.   *)
(* An event waits in the bounded channel of the subscription and is        *)
(* dropped when that is full.  The wire is what Send has accepted and Recv *)
(* has not returned yet; gRPC keeps its order.                             *)
(***************************************************************************)
EXTENDS Naturals, Sequences

CONSTANTS
    Node,        \* node ids
    QueueCap,    \* slots of a subscription's channel (200 in the code)
    WireCap      \* messages the flow control of a stream lets through

ASSUME StreamAssumption ==
    /\ QueueCap \in Nat \ {0}
    /\ WireCap \in Nat \ {0}

Pair == {p \in Node \X Node : p[1] # p[2]}
server(p) == p[1]
client(p) == p[2]

\* Streams whose events are in Events and whose dumps are sets in Dumps.
StreamState(Events, Dumps) ==
    [phase : {"down", "subscribed", "open"},
     queue : UNION {[1 .. k -> Events] : k \in 0 .. QueueCap},
     wire  : UNION {[1 .. k -> Events \cup [type : {"SYNC"}, dump : Dumps]]
                       : k \in 0 .. WireCap}]

Down == [phase |-> "down", queue |-> <<>>, wire |-> <<>>]

\* The handler subscribes before it builds its first dump, so that no change
\* can fall between the two.
Subscribed(st) ==
    [st EXCEPT !.phase = "subscribed"]

CanSend(st) ==
    /\ st.phase # "down"
    /\ Len(st.wire) < WireCap

\* The dump after the subscription and each one of the ticker.
DumpSent(st, dump) ==
    [st EXCEPT !.phase = "open",
               !.wire = Append(@, [type |-> "SYNC", dump |-> dump])]

CanForward(st) ==
    /\ st.phase = "open"
    /\ st.queue # <<>>
    /\ Len(st.wire) < WireCap

Forwarded(st) ==
    [st EXCEPT !.queue = Tail(@), !.wire = Append(@, Head(st.queue))]

Received(st) ==
    [st EXCEPT !.wire = Tail(@)]

\* Mutant: the channel of a subscription has no bound.
NotifiedUnbounded(streams, n, event) ==
    [p \in DOMAIN streams |->
        IF server(p) = n /\ streams[p].phase # "down"
        THEN [streams[p] EXCEPT !.queue = Append(@, event)]
        ELSE streams[p]]

\* An event reaches the channel of every subscription of node n that has room.
Notified(streams, n, event) ==
    [p \in DOMAIN streams |->
        IF /\ server(p) = n
           /\ streams[p].phase # "down"
           /\ Len(streams[p].queue) < QueueCap
        THEN [streams[p] EXCEPT !.queue = Append(@, event)]
        ELSE streams[p]]
=============================================================================
