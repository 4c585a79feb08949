---------------------------- MODULE ClientsSync ----------------------------
(***************************************************************************)
(* Replication of the routing tables between mesh nodes (peerssync): which *)
(* node serves the client with a virtual address.                          *)
(*                                                                         *)
(* The objects of a routing table are told apart by their node id: a       *)
(* client of the AWG transport has the id of this node, a RemoteClient the *)
(* id of another one.  Each node streams its whole table and the changes   *)
(* its own transport makes.  A dump is applied one call to the table after *)
(* another, between which the transport and other streams change it.       *)
(***************************************************************************)
EXTENDS EventStream, FiniteSets

CONSTANTS
    Links,          \* the streams that exist, a subset of Pair
    IP,             \* virtual addresses
    Homes,          \* [Node -> SUBSET IP], addresses a node gives to clients
    NoNode,         \* "no route"
    MaxChanges,     \* bound on the peers the transports create
    MaxBreaks,      \* bound on streams that fail
    MaxRestarts     \* bound on restarts of a node

ASSUME ClientsAssumption ==
    /\ Links \subseteq Pair
    /\ Homes \in [Node -> SUBSET IP]
    /\ NoNode \notin Node
    /\ MaxChanges \in Nat /\ MaxBreaks \in Nat /\ MaxRestarts \in Nat

VARIABLES
    route,       \* [Node -> Table], the routing table of each node
    peers,       \* [Node -> SUBSET IP], peersByIP of the node's transport
    notifying,   \* <<node, event>> of calls that have changed the table only
    stream,      \* [Links -> StreamState]
    work,        \* [Links -> Work], how far the client has come with a dump
    changes, breaks, restarts

vars == <<route, peers, notifying, stream, work, changes, breaks, restarts>>
bounds == <<changes, breaks, restarts>>

Table == [IP -> Node \cup {NoNode}]
Event == [type : {"ADDED", "REMOVED"}, ip : IP, node : Node]
EmptyTable == [ip \in IP |-> NoNode]

\* The addresses still to be looked at, and in "add" and "replace" the one that has been
\* looked up and is about to get its route.
Work == [phase : {"idle", "sync", "add", "replace", "stale"},
         dump : Table, todo : SUBSET IP, ip : SUBSET IP]
Idle == [phase |-> "idle", dump |-> EmptyTable, todo |-> {}, ip |-> {}]

ClientsInit ==
    /\ route = [n \in Node |-> EmptyTable]
    /\ peers = [n \in Node |-> {}]
    /\ notifying = {}
    /\ stream = [p \in Links |-> Down]
    /\ work = [p \in Links |-> Idle]
    /\ changes = 0
    /\ breaks = 0
    /\ restarts = 0

-----------------------------------------------------------------------------
(* The routing table: Add refuses an address that has an object, Delete    *)
(* takes away whatever object the address has.                             *)

Add(t, ip, node) ==
    IF t[ip] = NoNode THEN [t EXCEPT ![ip] = node] ELSE t

Delete(t, ip) ==
    [t EXCEPT ![ip] = NoNode]

-----------------------------------------------------------------------------
(* The transport of a node.                                                *)

\* The event names the node of the object that was in the table.
DeleteRoutingObject(n, ip) ==
    /\ route' = [route EXCEPT ![n] = Delete(@, ip)]
    /\ notifying' = IF route[n][ip] = NoNode THEN notifying
                    ELSE notifying \cup
                        {<<n, [type |-> "REMOVED", ip |-> ip, node |-> route[n][ip]]>>}

AddRoutingObject(n, ip) ==
    /\ route' = [route EXCEPT ![n] = Add(@, ip, n)]
    /\ notifying' = notifying \cup {<<n, [type |-> "ADDED", ip |-> ip, node |-> n]>>}

\* CreatePeer of the transport.  When the address has a route already the peer
\* is removed again with removePeerInternal, and that route with it.
CreatePeer(n, ip) ==
    /\ changes < MaxChanges
    /\ changes' = changes + 1
    /\ ip \in Homes[n] \ peers[n]
    /\ \/ /\ route[n][ip] = NoNode
          /\ AddRoutingObject(n, ip)
          /\ peers' = [peers EXCEPT ![n] = @ \cup {ip}]
       \/ /\ route[n][ip] # NoNode
          /\ DeleteRoutingObject(n, ip)
          /\ UNCHANGED peers
    /\ UNCHANGED <<stream, work, breaks, restarts>>

KickPeer(n, ip) ==
    /\ ip \in peers[n]
    /\ DeleteRoutingObject(n, ip)
    /\ peers' = [peers EXCEPT ![n] = @ \ {ip}]
    /\ UNCHANGED <<stream, work, bounds>>

notifyRoutingEvent(e) ==
    /\ e \in notifying
    /\ notifying' = notifying \ {e}
    /\ stream' = Notified(stream, e[1], e[2])
    /\ UNCHANGED <<route, peers, work, bounds>>

-----------------------------------------------------------------------------
(* The server side of a stream: SubscribeClients.                          *)

SubscribeClients(p) ==
    /\ stream[p].phase = "down" /\ work[p] = Idle
    /\ stream' = [stream EXCEPT ![p] = Subscribed(@)]
    /\ UNCHANGED <<route, peers, notifying, work, bounds>>

buildRoutingSyncEvent(p) ==
    /\ CanSend(stream[p])
    /\ stream' = [stream EXCEPT ![p] = DumpSent(@, route[server(p)])]
    /\ UNCHANGED <<route, peers, notifying, work, bounds>>

generateRoutingeEvent(p) ==
    /\ CanForward(stream[p])
    /\ stream' = [stream EXCEPT ![p] = Forwarded(@)]
    /\ UNCHANGED <<route, peers, notifying, work, bounds>>

-----------------------------------------------------------------------------
(* The client side: streamPeerData, at node n with table t.                *)

\* Mutant: a node takes a remote duplicate of a client of its own.
addRemoteRoutingObjectAny(n, t, ip, node) ==
    Add(t, ip, node)

addRemoteRoutingObject(n, t, ip, node) ==
    IF node = n THEN t ELSE Add(t, ip, node)

deleteRemoteRoutingObject(t, ip) ==
    Delete(t, ip)

\* An event is applied with one call; a dump is taken up, and stays on the wire, whose room
\* it takes, until it has been applied.
streamPeerData(p) ==
    LET n == client(p)
        msg == Head(stream[p].wire)
    IN /\ work[p] = Idle /\ stream[p].wire # <<>>
       /\ IF msg.type = "SYNC"
          THEN /\ work' = [work EXCEPT ![p] =
                             [phase |-> "sync", dump |-> msg.dump,
                              todo |-> {ip \in IP : msg.dump[ip] # NoNode}, ip |-> {}]]
               /\ UNCHANGED <<route, stream>>
          ELSE /\ route' = [route EXCEPT ![n] =
                               IF msg.type = "ADDED"
                               THEN addRemoteRoutingObject(n, @, msg.ip, msg.node)
                               ELSE deleteRemoteRoutingObject(@, msg.ip)]
               /\ stream' = [stream EXCEPT ![p] = Received(@)]
               /\ UNCHANGED work
       /\ UNCHANGED <<peers, notifying, bounds>>

\* The next message is looked for, unless the stream has failed, which empties the wire.
syncClientsReturns(p) ==
    /\ work' = [work EXCEPT ![p] = Idle]
    /\ stream' = IF stream[p].wire = <<>> THEN stream
                 ELSE [stream EXCEPT ![p] = Received(@)]

\* What is to be done for a client of the dump, by the route its address has now.
syncPeerObject(n, t, ip, node) ==
    CASE t[ip] = NoNode      -> "add"
      [] t[ip] \in {n, node} -> "sync"
      [] OTHER               -> "replace"

\* syncClients: the next client of the dump is looked up in the table.
lookUp(p, ip) ==
    LET next == syncPeerObject(client(p), route[client(p)], ip, work[p].dump[ip]) IN
    /\ work[p].phase = "sync" /\ ip \in work[p].todo
    /\ work' = [work EXCEPT ![p].phase = next, ![p].todo = @ \ {ip},
                            ![p].ip = IF next = "sync" THEN {} ELSE {ip}]
    /\ UNCHANGED <<route, peers, notifying, stream, bounds>>

\* The calls that follow the lookup: Add, or Delete and then Add.
setRoute(p, ip) ==
    LET n == client(p)
        replacing == work[p].phase = "replace"
    IN /\ work[p].phase \in {"add", "replace"} /\ ip \in work[p].ip
       /\ route' = [route EXCEPT ![n] =
                       IF replacing THEN deleteRemoteRoutingObject(@, ip)
                       ELSE addRemoteRoutingObject(n, @, ip, work[p].dump[ip])]
       /\ work' = [work EXCEPT ![p].phase = IF replacing THEN "add" ELSE "sync",
                               ![p].ip = IF replacing THEN @ ELSE {}]
       /\ UNCHANGED <<peers, notifying, stream, bounds>>

\* Mutant: a dump removes every client the sender does not know.
staleAny(peer, t, dump) ==
    {ip \in IP : t[ip] # NoNode /\ dump[ip] # peer}

\* Mutant: a dump removes nothing.
staleNone(peer, t, dump) == {}

\* Of the clients in the table only those of the sender itself are removed when the dump
\* lacks them.
stale(peer, t, dump) ==
    {ip \in IP : t[ip] = peer /\ dump[ip] # peer}

\* The table is read once, and then the stale clients are deleted one by one.
DumpRoutingTable(p) ==
    LET gone == stale(server(p), route[client(p)], work[p].dump) IN
    /\ work[p].phase = "sync" /\ work[p].todo = {}
    /\ \/ gone = {} /\ syncClientsReturns(p)
       \/ /\ gone # {}
          /\ work' = [work EXCEPT ![p] = [Idle EXCEPT !.phase = "stale", !.todo = gone]]
          /\ UNCHANGED stream
    /\ UNCHANGED <<route, peers, notifying, bounds>>

deleteStale(p, ip) ==
    /\ work[p].phase = "stale" /\ ip \in work[p].todo
    /\ route' = [route EXCEPT ![client(p)] = deleteRemoteRoutingObject(@, ip)]
    /\ \/ work[p].todo = {ip} /\ syncClientsReturns(p)
       \/ /\ work[p].todo # {ip}
          /\ work' = [work EXCEPT ![p].todo = @ \ {ip}]
          /\ UNCHANGED stream
    /\ UNCHANGED <<peers, notifying, bounds>>

syncClients(p) ==
    \/ DumpRoutingTable(p)
    \/ \E ip \in IP : lookUp(p, ip) \/ setRoute(p, ip) \/ deleteStale(p, ip)

\* A stream fails while the connection lives: RunWhileConnected opens the next.
BreakStream(p) ==
    /\ breaks < MaxBreaks
    /\ stream[p].phase # "down"
    /\ breaks' = breaks + 1
    /\ stream' = [stream EXCEPT ![p] = Down]
    /\ UNCHANGED <<route, peers, notifying, work, changes, restarts>>

\* A restarted node has an empty table until its transport creates its peers.
Restart(n) ==
    /\ restarts < MaxRestarts
    /\ restarts' = restarts + 1
    /\ route' = [route EXCEPT ![n] = EmptyTable]
    /\ peers' = [peers EXCEPT ![n] = {}]
    /\ notifying' = {e \in notifying : e[1] # n}
    /\ stream' = [p \in Links |->
                    IF n \in {server(p), client(p)} THEN Down ELSE stream[p]]
    /\ work' = [p \in Links |-> IF client(p) = n THEN Idle ELSE work[p]]
    /\ UNCHANGED <<changes, breaks>>

ClientsNext ==
    \/ \E n \in Node, ip \in IP : CreatePeer(n, ip) \/ KickPeer(n, ip)
    \/ \E e \in notifying : notifyRoutingEvent(e)
    \/ \E p \in Links :
          \/ SubscribeClients(p) \/ buildRoutingSyncEvent(p)
          \/ generateRoutingeEvent(p) \/ streamPeerData(p)
          \/ syncClients(p) \/ BreakStream(p)
    \/ \E n \in Node : Restart(n)

ClientsSpec == ClientsInit /\ [][ClientsNext]_vars

\* As in RulesSync: streams are opened again, tickers fire, messages arrive.
FairClientsSpec ==
    /\ ClientsSpec
    /\ \A p \in Links :
          /\ WF_vars(SubscribeClients(p))
          /\ WF_vars(buildRoutingSyncEvent(p))
          /\ WF_vars(streamPeerData(p)) /\ WF_vars(syncClients(p))

-----------------------------------------------------------------------------
(* Properties                                                              *)

\* Routes lead to nodes, and the channels keep their bounds.
ClientsTypeOK ==
    /\ route \in [Node -> Table]
    /\ peers \in [Node -> SUBSET IP]
    /\ notifying \subseteq Node \X Event
    /\ stream \in [Links -> StreamState(Event, Table)]
    /\ work \in [Links -> Work]
    /\ changes \in 0 .. MaxChanges
    /\ breaks \in 0 .. MaxBreaks
    /\ restarts \in 0 .. MaxRestarts

\* A route that says "here" leads to a peer the transport of this node has, and
\* never comes from another node's memory of a client that has left
\* (addRemoteRoutingObject).
OwnRouteHasPeer ==
    \A n \in Node, ip \in IP : route[n][ip] = n => ip \in peers[n]

\* "Своего клиента чужим дампом не перетираем, иначе он перестанет получать
\* трафик" (syncPeerObject): the route of a client of this node is taken away
\* only together with its peer, by KickPeer or a restart.
OwnClientKept ==
    [][\A n \in Node, ip \in IP :
          route[n][ip] = n /\ route'[n][ip] # n => ip \notin peers'[n]]_vars

\* Once the transports stop, each node routes exactly the present clients of its
\* peer to that peer, whatever events were lost on the way.
RoutesConverge ==
    <>[](\A p \in Links, ip \in IP :
            (route[client(p)][ip] = server(p)) <=> (route[server(p)][ip] = server(p)))
=============================================================================
