------------------------- MODULE ClientsSyncProofs -------------------------
(***************************************************************************)
(* The replication of the routing tables, for any mesh, any addresses and  *)
(* any number of failures: a route that says "here" has its peer, and      *)
(* while nodes give out different addresses, neither events nor dumps take *)
(* the route of a node's own client away, at whichever call to the table   *)
(* the transport comes in between.                                         *)
(***************************************************************************)
EXTENDS ClientsSync, SequenceTheorems, TLAPS

\* Every route leads to a node that gives out the address.
HomeTable == {t \in Table : \A ip \in IP : t[ip] # NoNode => ip \in Homes[t[ip]]}

\* The addresses that other nodes than n give out.
Elsewhere(n) == UNION {Homes[m] : m \in Node \ {n}}

\* What node s tells about: clients at the addresses it gives out.
EventOf(s) == {e \in [type : {"ADDED", "REMOVED"}, ip : Homes[s], node : Node] :
                  e.ip \in Homes[e.node]}
Sync == [type : {"SYNC"}, dump : HomeTable]
Message(s) == EventOf(s) \cup Sync

\* A stream of server s, whatever the capacity of its channels.
StreamOf(s) ==
    [phase : {"down", "subscribed", "open"}, queue : Seq(EventOf(s)), wire : Seq(Message(s))]

\* A dump that node n is working on: what it is about to delete is at an address of others.
WorkOf(n) ==
    {w \in Work : /\ w.dump \in HomeTable
                  /\ w.phase = "replace" => w.ip \subseteq Elsewhere(n)
                  /\ w.phase = "stale" => w.todo \subseteq Elsewhere(n)}

\* The inductive invariant.  OwnRouteHasPeer alone is not inductive: a message may
\* carry any table, and what it does to a route depends on whose route it is.
ClientsInv ==
    /\ route \in [Node -> HomeTable]
    /\ peers \in [Node -> SUBSET IP]
    /\ \A n \in Node : peers[n] \subseteq Homes[n]
    /\ \A x \in notifying : x[1] \in Node /\ x[2] \in EventOf(x[1])
    /\ stream = [p \in Links |-> stream[p]]
    /\ \A p \in Links : stream[p] \in StreamOf(server(p))
    /\ work = [p \in Links |-> work[p]]
    /\ \A p \in Links : work[p] \in WorkOf(client(p))
    /\ OwnRouteHasPeer

-----------------------------------------------------------------------------
(* Streams.                                                                *)

\* The two ends of a stream are two nodes.
LEMMA LinkEnds ==
    ASSUME NEW p \in Links
    PROVE  server(p) \in Node /\ client(p) \in Node /\ client(p) # server(p)
BY ClientsAssumption DEF Pair, server, client

\* A stream that is not open carries nothing.
LEMMA DownOK ==
    ASSUME NEW s
    PROVE  Down \in StreamOf(s)
BY EmptySeq DEF Down, StreamOf

\* What the server puts on a stream, and what is left when the client has read.
LEMMA StreamSteps ==
    ASSUME NEW s, NEW st \in StreamOf(s)
    PROVE  /\ Subscribed(st) \in StreamOf(s)
           /\ \A t \in HomeTable : DumpSent(st, t) \in StreamOf(s)
           /\ CanForward(st) => Forwarded(st) \in StreamOf(s)
           /\ st.wire # <<>> => Received(st) \in StreamOf(s) /\ Head(st.wire) \in Message(s)
           /\ \A e \in EventOf(s) : [st EXCEPT !.queue = Append(@, e)] \in StreamOf(s)
<1> DEFINE P == {"down", "subscribed", "open"}
           Q == Seq(EventOf(s))
           W == Seq(Message(s))
<1>0. st.phase \in P /\ st.queue \in Q /\ st.wire \in W /\ "subscribed" \in P /\ "open" \in P
  BY DEF StreamOf
<1>1. /\ \A m \in Message(s) : Append(st.wire, m) \in W
      /\ \A e \in EventOf(s) : Append(st.queue, e) \in Q /\ e \in Message(s)
  BY <1>0, AppendProperties DEF Message
<1>2. st.queue # <<>> => Head(st.queue) \in EventOf(s) /\ Tail(st.queue) \in Q
  BY <1>0, HeadTailProperties
<1>3. st.wire # <<>> => Head(st.wire) \in Message(s) /\ Tail(st.wire) \in W
  BY <1>0, HeadTailProperties
<1>4. \A t \in HomeTable : [type |-> "SYNC", dump |-> t] \in Message(s)
  BY DEF Sync, Message
<1>5. StreamOf(s) = [phase : P, queue : Q, wire : W]
  BY DEF StreamOf
<1> HIDE DEF P, Q, W
<1>6. Subscribed(st) \in StreamOf(s)
  BY <1>0, <1>5 DEF Subscribed
<1>7. ASSUME NEW t \in HomeTable PROVE DumpSent(st, t) \in StreamOf(s)
  <2> DEFINE o == "open"
             w == Append(st.wire, [type |-> "SYNC", dump |-> t])
  <2>1. w \in W /\ o \in P
    BY <1>0, <1>1, <1>4
  <2>2. DumpSent(st, t) = [st EXCEPT !.phase = o, !.wire = w]
    BY DEF DumpSent
  <2>3. st \in [phase : P, queue : Q, wire : W]
    BY <1>5
  <2> HIDE DEF o, w
  <2>4. [st EXCEPT !.phase = o, !.wire = w] \in [phase : P, queue : Q, wire : W]
    BY <2>1, <2>3
  <2> QED
    BY <1>5, <2>2, <2>4
<1>8. ASSUME CanForward(st) PROVE Forwarded(st) \in StreamOf(s)
  <2> DEFINE w == Append(st.wire, Head(st.queue))
             q == Tail(st.queue)
  <2>1. w \in W /\ q \in Q
    BY <1>1, <1>2, <1>8 DEF CanForward
  <2>2. Forwarded(st) = [st EXCEPT !.queue = q, !.wire = w]
    BY DEF Forwarded
  <2> HIDE DEF w, q
  <2> QED
    BY <1>0, <1>5, <2>1, <2>2
<1>9. ASSUME st.wire # <<>>
      PROVE  Received(st) \in StreamOf(s) /\ Head(st.wire) \in Message(s)
  <2> DEFINE w == Tail(st.wire)
  <2>1. w \in W /\ Received(st) = [st EXCEPT !.wire = w]
    BY <1>3, <1>9 DEF Received
  <2> HIDE DEF w
  <2> QED
    BY <1>0, <1>3, <1>5, <1>9, <2>1
<1>10. ASSUME NEW e \in EventOf(s)
       PROVE  [st EXCEPT !.queue = Append(@, e)] \in StreamOf(s)
  <2> DEFINE q == Append(st.queue, e)
  <2>1. q \in Q
    BY <1>1
  <2> HIDE DEF q
  <2>2. [st EXCEPT !.queue = q] \in StreamOf(s)
    BY <1>0, <1>5, <2>1
  <2> QED
    BY <2>2 DEF q
<1> QED
  BY <1>6, <1>7, <1>8, <1>9, <1>10

-----------------------------------------------------------------------------
(* What a call does to a table.                                            *)

\* The empty table, and the client that works on no dump.
LEMMA EmptyOK ==
    /\ EmptyTable \in HomeTable
    /\ \A n \in Node : Idle \in WorkOf(n)
<1>1. EmptyTable \in HomeTable
  BY DEF EmptyTable, HomeTable, Table
<1>2. ASSUME NEW n \in Node PROVE Idle \in WorkOf(n)
  <2>1. EmptyTable \in Table
    BY <1>1 DEF HomeTable
  <2> HIDE DEF EmptyTable
  <2>2. Idle \in Work /\ Idle.dump = EmptyTable /\ Idle.phase = "idle"
    BY <2>1 DEF Idle, Work
  <2> QED
    BY <1>1, <2>2 DEF WorkOf
<1> QED
  BY <1>1, <1>2

\* A table with another route at one address.
LEMMA RouteSet ==
    ASSUME NEW t \in HomeTable, NEW ip \in IP, NEW node \in Node \cup {NoNode},
           node # NoNode => ip \in Homes[node]
    PROVE  [t EXCEPT ![ip] = node] \in HomeTable
BY DEF HomeTable, Table

\* Delete takes away the route at one address.
LEMMA DeleteOK ==
    ASSUME NEW n \in Node, NEW t \in HomeTable, NEW ip \in IP
    PROVE  LET u == deleteRemoteRoutingObject(t, ip)
           IN  /\ u \in HomeTable
               /\ \A x \in IP : u[x] = n => t[x] = n
               /\ \A x \in IP : t[x] = n /\ u[x] # n => x = ip
<1>1. deleteRemoteRoutingObject(t, ip) = [t EXCEPT ![ip] = NoNode]
  BY DEF deleteRemoteRoutingObject, Delete
<1>2. [t EXCEPT ![ip] = NoNode] \in HomeTable
  BY RouteSet
<1> QED
  BY <1>1, <1>2, ClientsAssumption DEF HomeTable, Table

\* No remote client makes a table lead to its own node, or away from it.
LEMMA AddOK ==
    ASSUME NEW n \in Node, NEW t \in HomeTable, NEW ip \in IP, NEW node \in Node \cup {NoNode},
           node # NoNode => ip \in Homes[node]
    PROVE  LET u == addRemoteRoutingObject(n, t, ip, node)
           IN  /\ u \in HomeTable
               /\ \A x \in IP : u[x] = n <=> t[x] = n
<1>1. CASE node = n \/ t[ip] # NoNode
  BY <1>1 DEF addRemoteRoutingObject, Add
<1>2. CASE node # n /\ t[ip] = NoNode
  <2>1. addRemoteRoutingObject(n, t, ip, node) = [t EXCEPT ![ip] = node]
    BY <1>2 DEF addRemoteRoutingObject, Add
  <2>2. [t EXCEPT ![ip] = node] \in HomeTable
    BY RouteSet
  <2> QED
    BY <1>2, <2>1, <2>2, ClientsAssumption DEF HomeTable, Table
<1> QED
  BY <1>1, <1>2

-----------------------------------------------------------------------------
(* The invariant.                                                          *)

\* Empty tables, no peers and no streams.
LEMMA ClientsInvInit == ClientsInit => ClientsInv
<1> SUFFICES ASSUME ClientsInit PROVE ClientsInv
  OBVIOUS
<1>1. route \in [Node -> HomeTable]
  BY EmptyOK DEF ClientsInit
<1>2. OwnRouteHasPeer
  BY ClientsAssumption DEF ClientsInit, EmptyTable, OwnRouteHasPeer
<1>3. \A p \in Links : stream[p] \in StreamOf(server(p)) /\ work[p] \in WorkOf(client(p))
  BY DownOK, EmptyOK, LinkEnds DEF ClientsInit
<1> QED
  BY <1>1, <1>2, <1>3 DEF ClientsInit, ClientsInv

\* The transport of a node: the table and the peers change together, and the event is
\* about an address of this node.
LEMMA TransportKeepsInv ==
    ASSUME ClientsInv, NEW n \in Node, NEW ip \in IP, CreatePeer(n, ip) \/ KickPeer(n, ip)
    PROVE  ClientsInv'
<1>0. /\ route \in [Node -> HomeTable] /\ route \in [Node -> Table] /\ peers \in [Node -> SUBSET IP]
      /\ NoNode \notin Node /\ peers[n] \subseteq Homes[n]
      /\ \A m \in Node : peers[m] \subseteq Homes[m]
      /\ OwnRouteHasPeer
  BY ClientsAssumption DEF ClientsInv, HomeTable
<1>1. ip \in Homes[n] /\ UNCHANGED <<stream, work>>
  BY <1>0 DEF CreatePeer, KickPeer
<1>2. CASE CreatePeer(n, ip) /\ route[n][ip] = NoNode
  <2>1. /\ route' = [route EXCEPT ![n] = [@ EXCEPT ![ip] = n]]
        /\ peers' = [peers EXCEPT ![n] = @ \cup {ip}]
        /\ notifying' = notifying \cup {<<n, [type |-> "ADDED", ip |-> ip, node |-> n]>>}
    BY <1>0, <1>2 DEF CreatePeer, AddRoutingObject, Add
  <2>2. [type |-> "ADDED", ip |-> ip, node |-> n] \in EventOf(n)
    BY <1>1 DEF EventOf
  <2>3. \A x \in notifying' : x[1] \in Node /\ x[2] \in EventOf(x[1])
    BY <2>1, <2>2 DEF ClientsInv
  <2>4. route' \in [Node -> HomeTable]
    <3>1. [route[n] EXCEPT ![ip] = n] \in HomeTable
      BY <1>0, <1>1, RouteSet
    <3> QED
      BY <1>0, <2>1, <3>1
  <2>6. /\ peers' \in [Node -> SUBSET IP]
        /\ \A m \in Node : peers'[m] \subseteq Homes[m]
    BY <1>0, <1>1, <2>1
  <2>5. OwnRouteHasPeer'
    BY <1>0, <2>1 DEF OwnRouteHasPeer, Table
  <2> QED
    BY <1>1, <2>3, <2>4, <2>5, <2>6 DEF ClientsInv
<1>3. CASE KickPeer(n, ip) \/ (CreatePeer(n, ip) /\ route[n][ip] # NoNode)
  <2> DEFINE e == [type |-> "REMOVED", ip |-> ip, node |-> route[n][ip]]
  <2>1. /\ route' = [route EXCEPT ![n] = [@ EXCEPT ![ip] = NoNode]]
        /\ peers' = [peers EXCEPT ![n] = @ \ {ip}]
        /\ notifying' \subseteq notifying \cup (IF route[n][ip] = NoNode THEN {} ELSE {<<n, e>>})
    <3>1. CASE KickPeer(n, ip)
      BY <1>0, <3>1 DEF KickPeer, DeleteRoutingObject, Delete
    <3>2. CASE CreatePeer(n, ip) /\ route[n][ip] # NoNode
      <4>1. ip \notin peers[n] /\ DeleteRoutingObject(n, ip) /\ UNCHANGED peers
        BY <3>2 DEF CreatePeer
      <4>2. peers = [peers EXCEPT ![n] = @ \ {ip}]
        BY <1>0, <4>1
      <4> QED
        BY <1>0, <3>2, <4>1, <4>2 DEF DeleteRoutingObject, Delete
    <3> QED
      BY <1>3, <3>1, <3>2
  <2>2. route[n][ip] # NoNode => e \in EventOf(n)
    BY <1>0, <1>1 DEF EventOf, Table, HomeTable
  <2> HIDE DEF e
  <2>3. \A x \in notifying' : x[1] \in Node /\ x[2] \in EventOf(x[1])
    BY <2>1, <2>2 DEF ClientsInv
  <2>4. route' \in [Node -> HomeTable]
    <3>1. [route[n] EXCEPT ![ip] = NoNode] \in HomeTable
      BY <1>0, RouteSet
    <3> QED
      BY <1>0, <2>1, <3>1
  <2>6. /\ peers' \in [Node -> SUBSET IP]
        /\ \A m \in Node : peers'[m] \subseteq Homes[m]
    BY <1>0, <2>1
  <2>5. OwnRouteHasPeer'
    BY <1>0, <2>1 DEF OwnRouteHasPeer, Table
  <2> QED
    BY <1>1, <2>3, <2>4, <2>5, <2>6 DEF ClientsInv
<1> QED
  BY <1>2, <1>3

\* An event goes to the streams of the node it is about.
LEMMA NotifyKeepsInv ==
    ASSUME ClientsInv, NEW x \in notifying, notifyRoutingEvent(x)
    PROVE  ClientsInv'
<1>0. /\ x[1] \in Node /\ x[2] \in EventOf(x[1]) /\ stream = [p \in Links |-> stream[p]]
      /\ \A p \in Links : stream[p] \in StreamOf(server(p))
  BY DEF ClientsInv
<1>1. UNCHANGED <<route, peers, work>> /\ notifying' = notifying \ {x}
      /\ stream' = Notified(stream, x[1], x[2])
  BY DEF notifyRoutingEvent
<1>2. DOMAIN stream = Links
  BY <1>0
<1>3. stream' = [p \in Links |-> stream'[p]]
  BY <1>1, <1>2 DEF Notified
<1>4. ASSUME NEW p \in Links PROVE stream'[p] \in StreamOf(server(p))
  <2>1. \/ stream'[p] = stream[p]
        \/ server(p) = x[1] /\ stream'[p] = [stream[p] EXCEPT !.queue = Append(@, x[2])]
    BY <1>1, <1>2 DEF Notified
  <2>2. CASE stream'[p] = stream[p]
    BY <1>0, <2>2
  <2>3. CASE server(p) = x[1] /\ stream'[p] = [stream[p] EXCEPT !.queue = Append(@, x[2])]
    <3> DEFINE st == stream[p]
               s == server(p)
               e == x[2]
    <3>1. st \in StreamOf(s) /\ e \in EventOf(s)
      BY <1>0, <2>3
    <3> HIDE DEF st, s, e
    <3>2. [st EXCEPT !.queue = Append(@, e)] \in StreamOf(s)
      BY <3>1, StreamSteps
    <3> QED
      BY <2>3, <3>2 DEF st, s, e
  <2> QED
    BY <2>1, <2>2, <2>3
<1> QED
  BY <1>1, <1>3, <1>4 DEF ClientsInv, OwnRouteHasPeer

\* One stream changes, and stays a stream of its server.
LEMMA StreamKept ==
    ASSUME ClientsInv, NEW p \in Links, NEW st \in StreamOf(server(p)),
           stream' = [stream EXCEPT ![p] = st]
    PROVE  /\ stream' = [q \in Links |-> stream'[q]]
           /\ \A q \in Links : stream'[q] \in StreamOf(server(q))
<1>1. stream = [q \in Links |-> stream[q]] /\ \A q \in Links : stream[q] \in StreamOf(server(q))
  BY DEF ClientsInv
<1> QED
  BY <1>1

\* The server's steps, and the end of a stream.
LEMMA ServerKeepsInv ==
    ASSUME ClientsInv, NEW p \in Links,
           \/ SubscribeClients(p) \/ buildRoutingSyncEvent(p)
           \/ generateRoutingeEvent(p) \/ BreakStream(p)
    PROVE  ClientsInv'
<1>1. UNCHANGED <<route, peers, notifying, work>>
  BY DEF SubscribeClients, buildRoutingSyncEvent, generateRoutingeEvent, BreakStream
<1>2. \E st \in StreamOf(server(p)) : stream' = [stream EXCEPT ![p] = st]
  <2>1. stream[p] \in StreamOf(server(p)) /\ route[server(p)] \in HomeTable
    BY LinkEnds DEF ClientsInv
  <2> DEFINE s == server(p)
             o == stream[p]
  <2>2. /\ Subscribed(o) \in StreamOf(s) /\ DumpSent(o, route[s]) \in StreamOf(s)
        /\ CanForward(o) => Forwarded(o) \in StreamOf(s)
    BY <2>1, StreamSteps
  <2>3. CASE SubscribeClients(p)
    BY <2>2, <2>3 DEF SubscribeClients
  <2>4. CASE buildRoutingSyncEvent(p)
    BY <2>2, <2>4 DEF buildRoutingSyncEvent
  <2>5. CASE generateRoutingeEvent(p)
    BY <2>2, <2>5 DEF generateRoutingeEvent
  <2>6. CASE BreakStream(p)
    BY <2>6, DownOK DEF BreakStream
  <2> QED
    BY <2>3, <2>4, <2>5, <2>6
<1>3. /\ stream' = [q \in Links |-> stream'[q]]
      /\ \A q \in Links : stream'[q] \in StreamOf(server(q))
  BY <1>2, StreamKept
<1> QED
  BY <1>1, <1>3 DEF ClientsInv, OwnRouteHasPeer

\* What one call of a client may do to its table, at address ip: its own routes come from
\* its transport only, and go only from an address that another node gives out.
LEMMA ClientCall ==
    ASSUME ClientsInv, NEW p \in Links, NEW u \in HomeTable,
           route' = [route EXCEPT ![client(p)] = u],
           \A x \in IP : u[x] = client(p) => route[client(p)][x] = client(p),
           \A x \in IP : route[client(p)][x] = client(p) /\ u[x] # client(p) => x \in Elsewhere(client(p))
    PROVE  /\ route' \in [Node -> HomeTable]
           /\ \A m \in Node, x \in IP : route'[m][x] = m => route[m][x] = m
           /\ \A m \in Node, x \in IP : route[m][x] = m /\ route'[m][x] # m => x \in Elsewhere(m)
<1>1. route \in [Node -> HomeTable] /\ client(p) \in Node
  BY LinkEnds DEF ClientsInv
<1> QED
  BY <1>1

\* The steps of a client that leave its table alone.
LEMMA NoCall ==
    ASSUME ClientsInv, UNCHANGED route
    PROVE  /\ route' \in [Node -> HomeTable]
           /\ \A m \in Node, x \in IP : route'[m][x] = m => route[m][x] = m
           /\ \A m \in Node, x \in IP : route[m][x] = m /\ route'[m][x] # m => x \in Elsewhere(m)
BY DEF ClientsInv

\* One client's work changes, and stays the work of that client.
LEMMA WorkKept ==
    ASSUME ClientsInv, NEW p \in Links, NEW w \in WorkOf(client(p)),
           work' = [work EXCEPT ![p] = w]
    PROVE  /\ work' = [q \in Links |-> work'[q]]
           /\ \A q \in Links : work'[q] \in WorkOf(client(q))
<1>1. work = [q \in Links |-> work[q]] /\ \A q \in Links : work[q] \in WorkOf(client(q))
  BY DEF ClientsInv
<1> QED
  BY <1>1

\* What the steps of a client do to its table.
ClientStep(p) == streamPeerData(p) \/ syncClients(p)

LEMMA ClientRoutes ==
    ASSUME ClientsInv, NEW p \in Links, ClientStep(p)
    PROVE  /\ route' \in [Node -> HomeTable]
           /\ \A m \in Node, x \in IP : route'[m][x] = m => route[m][x] = m
           /\ \A m \in Node, x \in IP : route[m][x] = m /\ route'[m][x] # m => x \in Elsewhere(m)
<1> DEFINE n == client(p)
           t == route[n]
           w == work[p]
<1>0. /\ n \in Node /\ server(p) \in Node /\ n # server(p) /\ t \in HomeTable
      /\ route \in [Node -> HomeTable] /\ w \in WorkOf(n) /\ w.dump \in HomeTable /\ w.ip \in SUBSET IP
      /\ w.todo \in SUBSET IP
  BY LinkEnds DEF ClientsInv, WorkOf, Work
<1>1. CASE streamPeerData(p)
  <2> DEFINE msg == Head(stream[p].wire)
  <2>1. msg \in Message(server(p))
    BY <1>1, StreamSteps DEF streamPeerData, ClientsInv
  <2>2. CASE msg.type = "SYNC"
    BY <1>1, <2>2, NoCall DEF streamPeerData
  <2>3. CASE msg.type # "SYNC"
    <3>1. /\ msg.type \in {"ADDED", "REMOVED"} /\ msg.ip \in Homes[server(p)] /\ msg.node \in Node
          /\ msg.ip \in Homes[msg.node]
      BY <2>1, <2>3 DEF Message, EventOf, Sync
    <3>2. msg.ip \in IP /\ msg.ip \in Elsewhere(n)
      BY <1>0, <3>1, ClientsAssumption DEF Elsewhere
    <3> DEFINE u == IF msg.type = "ADDED" THEN addRemoteRoutingObject(n, t, msg.ip, msg.node)
                    ELSE deleteRemoteRoutingObject(t, msg.ip)
    <3>3. route' = [route EXCEPT ![n] = u]
      BY <1>0, <1>1, <2>3 DEF streamPeerData
    <3> HIDE DEF msg, t, n
    <3>4. CASE msg.type = "ADDED"
      <4>1. u \in HomeTable /\ \A x \in IP : u[x] = n <=> t[x] = n
        BY <1>0, <3>1, <3>2, <3>4, AddOK
      <4> HIDE DEF u
      <4> QED
        BY <3>3, <4>1, ClientCall DEF n, t
    <3>5. CASE msg.type # "ADDED"
      <4>1. u \in HomeTable /\ (\A x \in IP : u[x] = n => t[x] = n)
            /\ (\A x \in IP : t[x] = n /\ u[x] # n => x = msg.ip)
        BY <1>0, <3>1, <3>2, <3>5, DeleteOK
      <4> HIDE DEF u
      <4> QED
        BY <3>2, <3>3, <4>1, ClientCall DEF n, t
    <3> QED
      BY <3>4, <3>5
  <2> QED
    BY <2>2, <2>3
<1>2. CASE DumpRoutingTable(p)
  BY <1>2, NoCall DEF DumpRoutingTable
<1>3. ASSUME NEW ip \in IP, lookUp(p, ip) PROVE UNCHANGED route
  BY <1>3 DEF lookUp
<1>4. ASSUME NEW ip \in IP, deleteStale(p, ip) \/ (setRoute(p, ip) /\ w.phase = "replace")
      PROVE  /\ ip \in Elsewhere(n)
             /\ route' = [route EXCEPT ![n] = deleteRemoteRoutingObject(t, ip)]
  BY <1>0, <1>4 DEF deleteStale, setRoute, WorkOf
<1>5. ASSUME NEW ip \in IP, setRoute(p, ip), w.phase # "replace"
      PROVE  route' = [route EXCEPT ![n] = addRemoteRoutingObject(n, t, ip, w.dump[ip])]
  BY <1>0, <1>5 DEF setRoute
<1>6. ASSUME NEW ip \in IP, ip \in Elsewhere(n),
             route' = [route EXCEPT ![n] = deleteRemoteRoutingObject(t, ip)]
      PROVE  /\ route' \in [Node -> HomeTable]
             /\ \A m \in Node, x \in IP : route'[m][x] = m => route[m][x] = m
             /\ \A m \in Node, x \in IP : route[m][x] = m /\ route'[m][x] # m => x \in Elsewhere(m)
  <2> DEFINE u == deleteRemoteRoutingObject(t, ip)
  <2>1. u \in HomeTable /\ (\A x \in IP : u[x] = n => t[x] = n)
        /\ (\A x \in IP : t[x] = n /\ u[x] # n => x = ip)
    BY <1>0, DeleteOK
  <2> HIDE DEF u
  <2> QED
    BY <1>6, <2>1, ClientCall DEF u
<1>7. ASSUME NEW ip \in IP,
             route' = [route EXCEPT ![n] = addRemoteRoutingObject(n, t, ip, w.dump[ip])]
      PROVE  /\ route' \in [Node -> HomeTable]
             /\ \A m \in Node, x \in IP : route'[m][x] = m => route[m][x] = m
             /\ \A m \in Node, x \in IP : route[m][x] = m /\ route'[m][x] # m => x \in Elsewhere(m)
  <2> DEFINE d == w.dump[ip]
             u == addRemoteRoutingObject(n, t, ip, d)
  <2>0. d \in Node \cup {NoNode} /\ (d # NoNode => ip \in Homes[d])
    BY <1>0 DEF HomeTable, Table
  <2> HIDE DEF d
  <2>1. u \in HomeTable /\ \A x \in IP : u[x] = n <=> t[x] = n
    BY <1>0, <2>0, AddOK
  <2> HIDE DEF u
  <2> QED
    BY <1>7, <2>1, ClientCall DEF u, d
<1> QED
  BY <1>1, <1>2, <1>3, <1>4, <1>5, <1>6, <1>7, NoCall DEF ClientStep, syncClients

\* What the steps of a client do to its stream and to its work.
LEMMA ClientWork ==
    ASSUME ClientsInv, NEW p \in Links, ClientStep(p)
    PROVE  /\ UNCHANGED <<peers, notifying>>
           /\ stream' = stream \/ (/\ stream[p].wire # <<>>
                                    /\ stream' = [stream EXCEPT ![p] = Received(stream[p])])
           /\ work' = work \/ \E w \in WorkOf(client(p)) : work' = [work EXCEPT ![p] = w]
<1> DEFINE n == client(p)
           t == route[n]
           w == work[p]
<1>0. /\ n \in Node /\ server(p) \in Node /\ n # server(p) /\ t \in HomeTable
      /\ work = [q \in Links |-> work[q]] /\ w \in WorkOf(n)
      /\ Idle \in WorkOf(n) /\ Idle \in Work /\ Idle.dump \in HomeTable
  BY LinkEnds, EmptyOK DEF ClientsInv, WorkOf
<1>1. w \in Work /\ w.dump \in HomeTable /\ HomeTable \subseteq Table
  BY <1>0 DEF WorkOf, HomeTable
<1>2. CASE streamPeerData(p)
  <2> DEFINE msg == Head(stream[p].wire)
             v == [phase |-> "sync", dump |-> msg.dump,
                   todo |-> {ip \in IP : msg.dump[ip] # NoNode}, ip |-> {}]
  <2>1. msg \in Message(server(p)) /\ stream[p].wire # <<>>
    BY <1>2, StreamSteps DEF streamPeerData, ClientsInv
  <2>2. CASE msg.type = "SYNC"
    <3>1. msg.dump \in HomeTable
      BY <2>1, <2>2 DEF Message, EventOf, Sync
    <3>2. v \in WorkOf(n)
      BY <1>1, <3>1 DEF WorkOf, Work
    <3> QED
      BY <1>2, <2>2, <3>2 DEF streamPeerData
  <2> QED
    BY <1>2, <2>1, <2>2 DEF streamPeerData
<1>3. ASSUME syncClientsReturns(p)
      PROVE  /\ stream' = stream \/ (/\ stream[p].wire # <<>>
                                      /\ stream' = [stream EXCEPT ![p] = Received(stream[p])])
             /\ work' = work \/ \E v \in WorkOf(client(p)) : work' = [work EXCEPT ![p] = v]
  BY <1>0, <1>3 DEF syncClientsReturns
<1>4. CASE DumpRoutingTable(p)
  <2> DEFINE gone == stale(server(p), t, w.dump)
             v == [Idle EXCEPT !.phase = "stale", !.todo = gone]
  <2>1. gone \subseteq IP /\ gone \subseteq Elsewhere(n)
    BY <1>0, ClientsAssumption DEF stale, HomeTable, Elsewhere
  <2>2. v \in WorkOf(n)
    <3> HIDE DEF gone
    <3>1. Idle \in [phase : {"idle", "sync", "add", "replace", "stale"},
                    dump : Table, todo : SUBSET IP, ip : SUBSET IP]
      BY <1>0 DEF Work
    <3>2. v \in Work /\ v.dump = Idle.dump /\ v.phase = "stale" /\ v.todo = gone
      BY <2>1, <3>1 DEF Work
    <3> QED
      BY <1>0, <2>1, <3>2 DEF WorkOf
  <2> QED
    BY <1>3, <1>4, <2>2 DEF DumpRoutingTable
<1>5. ASSUME NEW ip \in IP, lookUp(p, ip)
      PROVE  \E v \in WorkOf(n) : work' = [work EXCEPT ![p] = v]
  <2> DEFINE next == syncPeerObject(n, t, ip, w.dump[ip])
             v == [w EXCEPT !.phase = next, !.todo = @ \ {ip}, !.ip = IF next = "sync" THEN {} ELSE {ip}]
  <2>1. next \in {"add", "sync", "replace"}
    BY DEF syncPeerObject
  <2>2. next = "replace" => ip \in Elsewhere(n)
    BY <1>0, ClientsAssumption DEF syncPeerObject, HomeTable, Table, Elsewhere
  <2>3. work' = [work EXCEPT ![p] = v]
    BY <1>5 DEF lookUp
  <2> HIDE DEF next
  <2>4. /\ v \in Work /\ v.dump = w.dump /\ v.phase = next
        /\ next = "replace" => v.ip = {ip}
    BY <1>1, <2>1 DEF Work
  <2>5. v \in WorkOf(n)
    BY <1>1, <2>1, <2>2, <2>4 DEF WorkOf
  <2> QED
    BY <2>3, <2>5
<1>6. ASSUME NEW ip \in IP, setRoute(p, ip)
      PROVE  \E v \in WorkOf(n) : work' = [work EXCEPT ![p] = v]
  <2> DEFINE f == IF w.phase = "replace" THEN "add" ELSE "sync"
             i == IF w.phase = "replace" THEN w.ip ELSE {}
             v == [w EXCEPT !.phase = f, !.ip = i]
  <2>1. work' = [work EXCEPT ![p] = v]
    BY <1>6 DEF setRoute
  <2>2. f \in {"add", "sync"} /\ i \in SUBSET IP
    BY <1>1 DEF Work
  <2> HIDE DEF f, i
  <2>3. v \in Work /\ v.dump = w.dump /\ v.phase = f
    BY <1>1, <2>2 DEF Work
  <2>4. v \in WorkOf(n)
    BY <1>1, <2>2, <2>3 DEF WorkOf
  <2> QED
    BY <2>1, <2>4
<1>7. ASSUME NEW ip \in IP, deleteStale(p, ip), ~syncClientsReturns(p)
      PROVE  UNCHANGED stream /\ \E v \in WorkOf(n) : work' = [work EXCEPT ![p] = v]
  <2> DEFINE v == [w EXCEPT !.todo = @ \ {ip}]
  <2>1. work' = [work EXCEPT ![p] = v] /\ UNCHANGED stream /\ w.phase = "stale"
    BY <1>7 DEF deleteStale
  <2>2. v \in Work /\ v.dump = w.dump /\ v.phase = w.phase /\ v.todo \subseteq w.todo
    BY <1>1 DEF Work
  <2>3. v \in WorkOf(n)
    BY <1>0, <1>1, <2>1, <2>2 DEF WorkOf
  <2> QED
    BY <2>1, <2>3
<1>8. ASSUME NEW ip \in IP, lookUp(p, ip) \/ setRoute(p, ip) \/ deleteStale(p, ip)
      PROVE  /\ UNCHANGED <<peers, notifying>>
             /\ lookUp(p, ip) \/ setRoute(p, ip) => UNCHANGED stream
  BY <1>8 DEF lookUp, setRoute, deleteStale
<1>9. DumpRoutingTable(p) => UNCHANGED <<peers, notifying>>
  BY DEF DumpRoutingTable
<1> QED
  BY <1>2, <1>3, <1>4, <1>5, <1>6, <1>7, <1>8, <1>9 DEF ClientStep, syncClients

\* The steps of a client keep the invariant.
LEMMA ClientKeepsInv ==
    ASSUME ClientsInv, NEW p \in Links, ClientStep(p)
    PROVE  ClientsInv'
<1>1. route' \in [Node -> HomeTable] /\ OwnRouteHasPeer' /\ UNCHANGED <<peers, notifying>>
  BY ClientRoutes, ClientWork DEF ClientsInv, OwnRouteHasPeer
<1>2. /\ stream' = [q \in Links |-> stream'[q]]
      /\ \A q \in Links : stream'[q] \in StreamOf(server(q))
  <2>1. CASE UNCHANGED stream
    BY <2>1 DEF ClientsInv
  <2>2. CASE /\ stream[p].wire # <<>>
             /\ stream' = [stream EXCEPT ![p] = Received(stream[p])]
    <3>1. Received(stream[p]) \in StreamOf(server(p))
      BY <2>2, StreamSteps DEF ClientsInv
    <3> QED
      BY <2>2, <3>1, StreamKept
  <2> QED
    BY <2>1, <2>2, ClientWork
<1>3. /\ work' = [q \in Links |-> work'[q]]
      /\ \A q \in Links : work'[q] \in WorkOf(client(q))
  <2>1. CASE UNCHANGED work
    BY <2>1 DEF ClientsInv
  <2>2. CASE \E w \in WorkOf(client(p)) : work' = [work EXCEPT ![p] = w]
    BY <2>2, WorkKept
  <2> QED
    BY <2>1, <2>2, ClientWork
<1> QED
  BY <1>1, <1>2, <1>3 DEF ClientsInv

\* A restart forgets the table, the peers, the events, the streams and the work of a node.
LEMMA RestartKeepsInv ==
    ASSUME ClientsInv, NEW n \in Node, Restart(n)
    PROVE  ClientsInv'
<1>0. /\ route \in [Node -> HomeTable] /\ peers \in [Node -> SUBSET IP] /\ OwnRouteHasPeer
      /\ \A m \in Node : peers[m] \subseteq Homes[m]
      /\ NoNode \notin Node
  BY ClientsAssumption DEF ClientsInv
<1>1. EmptyTable \in HomeTable /\ \A ip \in IP : EmptyTable[ip] = NoNode
  BY EmptyOK DEF EmptyTable
<1>2. /\ route' = [route EXCEPT ![n] = EmptyTable] /\ peers' = [peers EXCEPT ![n] = {}]
      /\ notifying' \subseteq notifying
      /\ stream' = [p \in Links |-> IF n \in {server(p), client(p)} THEN Down ELSE stream[p]]
      /\ work' = [p \in Links |-> IF client(p) = n THEN Idle ELSE work[p]]
  BY DEF Restart
<1>3. /\ route' \in [Node -> HomeTable] /\ peers' \in [Node -> SUBSET IP] /\ OwnRouteHasPeer'
      /\ \A m \in Node : peers'[m] \subseteq Homes[m]
  BY <1>0, <1>1, <1>2 DEF OwnRouteHasPeer
<1>4. /\ stream' = [p \in Links |-> stream'[p]]
      /\ \A p \in Links : stream'[p] \in StreamOf(server(p))
  BY <1>2, DownOK DEF ClientsInv
<1>5. /\ work' = [p \in Links |-> work'[p]]
      /\ \A p \in Links : work'[p] \in WorkOf(client(p))
  BY <1>2, EmptyOK, LinkEnds DEF ClientsInv
<1> QED
  BY <1>2, <1>3, <1>4, <1>5 DEF ClientsInv

\* Every step keeps the invariant.
LEMMA ClientsInvNext == ClientsInv /\ [ClientsNext]_vars => ClientsInv'
<1> SUFFICES ASSUME ClientsInv, [ClientsNext]_vars PROVE ClientsInv'
  OBVIOUS
<1>1. CASE UNCHANGED vars
  BY <1>1 DEF vars, ClientsInv, OwnRouteHasPeer
<1> QED
  BY <1>1, TransportKeepsInv, NotifyKeepsInv, ServerKeepsInv, ClientKeepsInv,
     RestartKeepsInv DEF ClientsNext, ClientStep

\* The invariant holds of every reachable state.
THEOREM ClientsInvariant == ClientsSpec => []ClientsInv
BY ClientsInvInit, ClientsInvNext, PTL DEF ClientsSpec

\* A route that says "here" leads to a peer of this node's transport, in any mesh and
\* whichever addresses the nodes give out.
THEOREM OwnRoutesReal == ClientsSpec => []OwnRouteHasPeer
BY ClientsInvariant, PTL DEF ClientsInv

\* Only a call of a client, KickPeer or a restart takes the route of an own peer away.
LEMMA OwnRouteGoes ==
    ASSUME ClientsInv, ClientsNext, NEW n \in Node, NEW ip \in IP,
           route[n][ip] = n, route'[n][ip] # n
    PROVE  \/ ip \notin peers'[n]
           \/ ip \in Elsewhere(n)
<1>0. route \in [Node -> Table] /\ peers \in [Node -> SUBSET IP] /\ ip \in peers[n] /\ n # NoNode
  BY ClientsAssumption DEF ClientsInv, OwnRouteHasPeer, HomeTable
<1>1. ASSUME NEW m \in Node, NEW a \in IP, CreatePeer(m, a) PROVE FALSE
  <2>1. CASE route[m][a] = NoNode
    <3>1. route' = [route EXCEPT ![m] = [@ EXCEPT ![a] = m]]
      BY <1>1, <2>1 DEF CreatePeer, AddRoutingObject, Add
    <3> QED
      BY <1>0, <2>1, <3>1 DEF Table
  <2>2. CASE route[m][a] # NoNode
    <3>1. a \notin peers[m] /\ route' = [route EXCEPT ![m] = [@ EXCEPT ![a] = NoNode]]
      BY <1>1, <2>2 DEF CreatePeer, DeleteRoutingObject, Delete
    <3> QED
      BY <1>0, <3>1 DEF Table
  <2> QED
    BY <2>1, <2>2
<1>2. ASSUME NEW m \in Node, NEW a \in IP, KickPeer(m, a) PROVE ip \notin peers'[n]
  BY <1>0, <1>2 DEF KickPeer, DeleteRoutingObject, Delete, Table
<1>3. ASSUME NEW m \in Node, Restart(m) PROVE ip \notin peers'[n]
  BY <1>0, <1>3 DEF Restart
<1>4. ASSUME NEW p \in Links, ClientStep(p) PROVE ip \in Elsewhere(n)
  BY <1>4, ClientRoutes
<1> QED
  BY <1>1, <1>2, <1>3, <1>4
     DEF ClientsNext, ClientStep, notifyRoutingEvent, SubscribeClients, buildRoutingSyncEvent,
         generateRoutingeEvent, BreakStream

\* The route of an own client is taken away only together with its peer, when no two
\* nodes give out one address.  Without that an event about another node's client, or a
\* dump whose lookup the transport has overtaken, takes it away, which
\* deleteRemoteRoutingObject does not prevent.
THEOREM OwnClientsKept ==
    ASSUME \A m, n \in Node : m # n => Homes[m] \cap Homes[n] = {}
    PROVE  ClientsSpec => OwnClientKept
<1> DEFINE A == \A n \in Node, ip \in IP :
                   route[n][ip] = n /\ route'[n][ip] # n => ip \notin peers'[n]
<1>1. ASSUME ClientsInv, ClientsNext, NEW n \in Node, NEW ip \in IP,
             route[n][ip] = n, route'[n][ip] # n
      PROVE  ip \notin peers'[n]
  <2> SUFFICES ASSUME ip \in Elsewhere(n) PROVE FALSE
    BY <1>1, OwnRouteGoes
  <2>1. PICK m \in Node \ {n} : ip \in Homes[m]
    BY DEF Elsewhere
  <2>2. ip \in Homes[n]
    BY <1>1 DEF ClientsInv, OwnRouteHasPeer
  <2> QED
    BY <2>1, <2>2
<1>2. ClientsInv /\ [ClientsNext]_vars => [A]_vars
  BY <1>1
<1> QED
  BY <1>2, ClientsInvariant, PTL DEF ClientsSpec, OwnClientKept
=============================================================================
