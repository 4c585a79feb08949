------------------------------ MODULE PeerLife ------------------------------
(***************************************************************************)
(* The clients of a node: their rows in the database, as peersmanager      *)
(* changes them, and their entries in the AmneziaWG transport (awg) and in *)
(* the routing table.                                                      *)
(*                                                                         *)
(* Nothing holds a lock over several of these, so every goroutine works    *)
(* through a list of calls (todo), each of which is one step: an admin     *)
(* call that creates a peer, one that deletes a peer, syncPeers and        *)
(* watchPeers.  A peer is its id; its key belongs to no other peer.        *)
(***************************************************************************)
EXTENDS Integers, Sequences, FiniteSets, FiniteSetsExt, Functions

CONSTANTS
    IP,            \* the addresses of clients, an interval of numbers
    startingIP,    \* the first address given out
    MaxPeers,      \* bound on the peers ever created
    Initial,       \* the rows the database starts with: [id -> IP]
    Mortal,        \* the peers that have an expiration date
    Deletable,     \* the peers the administrator deletes
    Creators,      \* goroutines of CreatePeerAutoID calls
    MaxTroubles,   \* bound on the addresses that other nodes announce as their own, the
                   \* commands the device refuses and the restarts, taken together
    Remote, None   \* the owner of a route of another node, and none

Id == 1 .. MaxPeers
Proc == Creators \cup {"delete", "sync", "watch"}

ASSUME PeerAssumption ==
    /\ startingIP \in IP /\ IP \subseteq Nat /\ \E last \in IP : \A a \in IP : a <= last
    /\ DOMAIN Initial = 1 .. Cardinality(DOMAIN Initial)
    /\ DOMAIN Initial \subseteq Id /\ \A i \in DOMAIN Initial : Initial[i] \in IP
    /\ \A i, j \in DOMAIN Initial : Initial[i] = Initial[j] => i = j \* virtual_ip is UNIQUE
    /\ Mortal \subseteq Id /\ Deletable \subseteq Id
    /\ MaxPeers \in Nat /\ MaxTroubles \in Nat
    /\ {Remote, None} \cap Id = {} /\ None \notin [id : Id, ip : IP]
    /\ Creators \cap {"delete", "sync", "watch"} = {}

VARIABLES
    rows,       \* [ids -> IP], the committed rows of table peers
    tx,         \* the row [id, ip] of the open transaction, or None
    nextId,     \* the next id: AUTOINCREMENT, and a fresh key for every attempt
    expired,    \* ids whose expiration date has passed
    byIP,       \* [IP -> Id or None], peersByIP and channelTun.peers
    route,      \* [IP -> Id, Remote or None], the routing table
    device,     \* [IP -> Id or None], whose key may use the address (allowed_ip)
    todo,       \* [Proc -> Seq of calls]
    deleted,    \* ids whose DeletePeer has returned
    claimed,    \* addresses other nodes have announced and not withdrawn
    disturbed,  \* for the properties alone: peers whose creation and another call for
                \* their address overlapped, or whose route another node has taken away
    remotes, faults, restarts

dbVars == <<rows, tx, nextId>>
awgVars == <<byIP, route, device>>
meshVars == <<claimed, remotes>>
otherVars == <<deleted, meshVars, disturbed, faults, restarts>>
peerVars == <<dbVars, expired, awgVars, todo, otherVars>>

roomFor(n) == remotes + faults + restarts + n <= MaxTroubles

idle(p) == todo[p] = <<>>

\* A row as ListPeers returns it.
Row(i) == [id |-> i, ip |-> rows[i]]

\* The order of ListPeers: ORDER BY id.
ListPeers == {ids \in [1 .. Cardinality(DOMAIN rows) -> DOMAIN rows] :
                 \A j, k \in DOMAIN ids : j < k => ids[j] < ids[k]}

Call(op, row) == [op |-> op, id |-> row.id, ip |-> row.ip]
Calls(ops, row) == [k \in DOMAIN ops |-> Call(ops[k], row)]

\* What removePeerInternal does after DeleteRoutingObject.
removeRest(row) ==
    Calls(<<"DeleteMaps", "RemoveKey">>, row)

\* Mutant: nobody adds the route.
CreatePeerNoRoute(row) ==
    Calls(<<"KickPeer", "AddKey", "SetMaps">>, row)

\* AWGTransport.CreatePeer.
CreatePeer(row) ==
    Calls(<<"KickPeer", "AddKey", "SetMaps", "AddRoutingObject">>, row)

\* PeersManager.Run creates every peer that has not expired before anything else
\* can reach the transport, so its calls are one step: the peers that end up there.
loaded(ids) == [a \in IP |-> IF \E i \in ids : rows[i] = a
                             THEN CHOOSE i \in ids : rows[i] = a ELSE None]

PeerInit ==
    /\ rows = Initial
    /\ tx = None
    /\ nextId = Cardinality(DOMAIN Initial) + 1
    /\ expired = {}
    /\ LET all == loaded(DOMAIN rows) IN byIP = all /\ route = all /\ device = all
    /\ todo = [p \in Proc |-> <<>>]
    /\ deleted = {} /\ claimed = {} /\ disturbed = {}
    /\ remotes = 0 /\ faults = 0 /\ restarts = 0

-----------------------------------------------------------------------------
(* The calls.                                                              *)

Then(p, calls) == todo' = [todo EXCEPT ![p] = calls]

Transport(p, c, rest) ==
    \/ /\ c.op = "KickPeer"
       /\ Then(p, IF byIP[c.ip] = None THEN rest
                  ELSE <<Call("removePeerInternal", [id |-> byIP[c.ip], ip |-> c.ip])>> \o rest)
       /\ UNCHANGED awgVars
    \/ /\ c.op = "AddKey"
       /\ device' = [device EXCEPT ![c.ip] = c.id]
       /\ Then(p, rest) /\ UNCHANGED <<byIP, route>>
    \/ /\ c.op = "SetMaps"
       /\ byIP' = [byIP EXCEPT ![c.ip] = c.id]
       /\ Then(p, rest) /\ UNCHANGED <<route, device>>
    \/ /\ c.op = "AddRoutingObject" /\ route[c.ip] = None
       /\ route' = [route EXCEPT ![c.ip] = c.id]
       /\ Then(p, rest) /\ UNCHANGED <<byIP, device>>
    \/ /\ c.op = "AddRoutingObject" /\ route[c.ip] # None
       /\ Then(p, <<Call("removePeerInternal", c)>>
                  \o IF p \in Creators THEN <<Call("Rollback", c)>> ELSE rest)
       /\ UNCHANGED awgVars
    \/ /\ c.op = "removePeerInternal"
       /\ route' = [route EXCEPT ![c.ip] = None]
       /\ Then(p, removeRest(c) \o rest) /\ UNCHANGED <<byIP, device>>
    \/ /\ c.op = "DeleteMaps"
       /\ byIP' = [byIP EXCEPT ![c.ip] = None]
       /\ Then(p, rest) /\ UNCHANGED <<route, device>>
    \/ /\ c.op = "RemoveKey"
       /\ device' = [device EXCEPT ![c.ip] = IF @ = c.id THEN None ELSE @]
       /\ Then(p, rest) /\ UNCHANGED <<byIP, route>>

TransportCall(p) ==
    /\ ~idle(p)
    /\ Transport(p, Head(todo[p]), Tail(todo[p]))
    /\ UNCHANGED <<dbVars, expired, otherVars>>

\* The device refuses a command.  CreatePeer then returns, after it has kicked the peer
\* that was there and before it sets the maps and the route; nobody looks at the result
\* of a removal.
IpcSetFails(p) ==
    /\ ~idle(p)
    /\ roomFor(1)
    /\ faults' = faults + 1
    /\ LET c == Head(todo[p])
           rest == Tail(todo[p])
       IN \/ /\ c.op = "AddKey"
             /\ Then(p, IF p \in Creators THEN <<Call("Rollback", c)>>
                        ELSE SubSeq(rest, 3, Len(rest)))
          \/ c.op = "RemoveKey" /\ Then(p, rest)
    /\ UNCHANGED <<dbVars, expired, awgVars, deleted, meshVars, disturbed, restarts>>

-----------------------------------------------------------------------------
(* CreatePeerAutoID.  The transaction has the write lock of the database   *)
(* from its INSERT to its end; readers see the committed rows.             *)

\* Mutant: the address of the latest row itself.
newIPMax == LET taken == {rows[i] : i \in DOMAIN rows}
            IN IF taken = {} THEN startingIP ELSE Max(taken)

\* MAX(virtual_ip) + 1 of the rows from startingIP on, else startingIP.
newIP == LET taken == {rows[i] : i \in DOMAIN rows} \cap {a \in IP : a >= startingIP}
         IN IF taken = {} THEN startingIP ELSE Max(taken) + 1

busy(a) == \E p \in Proc : \E k \in DOMAIN todo[p] : todo[p][k].ip = a

CreatePeerAutoID(p) ==
    LET row == [id |-> nextId, ip |-> newIP]
    IN /\ idle(p)
       /\ nextId \in Id /\ newIP \in IP
       /\ tx = None
       /\ tx' = row
       /\ nextId' = nextId + 1
       /\ Then(p, Append(CreatePeer(row), Call("Commit", row)))
       /\ disturbed' = disturbed \cup (IF busy(newIP) THEN {nextId} ELSE {})
       /\ UNCHANGED <<rows, expired, awgVars, deleted, meshVars, faults, restarts>>

\* The commit may fail; the transport keeps the peer all the same.
Commit(p) ==
    /\ ~idle(p) /\ Head(todo[p]).op = "Commit"
    /\ LET c == Head(todo[p]) IN
          rows' \in {rows, [i \in DOMAIN rows \cup {c.id} |->
                              IF i = c.id THEN c.ip ELSE rows[i]]}
    /\ tx' = None
    /\ Then(p, <<>>)
    /\ UNCHANGED <<nextId, expired, awgVars, otherVars>>

Rollback(p) ==
    /\ ~idle(p) /\ Head(todo[p]).op = "Rollback"
    /\ tx' = None
    /\ Then(p, <<>>)
    /\ UNCHANGED <<rows, nextId, expired, awgVars, otherVars>>

-----------------------------------------------------------------------------
(* DeletePeer, after it has removed the peer's rules.                      *)

GetPeerByID(i) ==
    /\ idle("delete")
    /\ i \in DOMAIN rows \cap Deletable
    /\ Then("delete", Calls(<<"DeletePeer", "KickPeer", "Return">>, Row(i)))
    /\ UNCHANGED <<dbVars, expired, awgVars, otherVars>>

\* The statement waits for the write lock and may fail.
DeletePeer ==
    /\ ~idle("delete") /\ Head(todo["delete"]).op = "DeletePeer"
    /\ \/ /\ tx = None
          /\ rows' = [i \in DOMAIN rows \ {Head(todo["delete"]).id} |-> rows[i]]
          /\ Then("delete", Tail(todo["delete"]))
       \/ /\ tx # None
          /\ Then("delete", <<>>)
          /\ UNCHANGED rows
    /\ UNCHANGED <<tx, nextId, expired, awgVars, otherVars>>

DeleteReturns ==
    /\ ~idle("delete") /\ Head(todo["delete"]).op = "Return"
    /\ deleted' = deleted \cup {Head(todo["delete"]).id}
    /\ Then("delete", <<>>)
    /\ UNCHANGED <<dbVars, expired, awgVars, meshVars, disturbed, faults, restarts>>

-----------------------------------------------------------------------------
(* The tickers: syncPeers and watchPeers.                                  *)

syncPeers ==
    /\ idle("sync")
    /\ rows # <<>>
    /\ \E ids \in ListPeers :
          Then("sync", [k \in DOMAIN ids |-> Call("SyncRow", Row(ids[k]))])
    /\ UNCHANGED <<dbVars, expired, awgVars, otherVars>>

\* Mutant: the peer is created whether or not it is there.
SyncRowAlways ==
    /\ ~idle("sync") /\ Head(todo["sync"]).op = "SyncRow"
    /\ Then("sync", IF Head(todo["sync"]).id \in expired THEN Tail(todo["sync"])
                    ELSE CreatePeer(Head(todo["sync"])) \o Tail(todo["sync"]))
    /\ UNCHANGED <<dbVars, expired, awgVars, otherVars>>

\* Mutant: peers that have expired are created again.
SyncRowExpired ==
    /\ ~idle("sync") /\ Head(todo["sync"]).op = "SyncRow"
    /\ Then("sync", IF byIP[Head(todo["sync"]).ip] # None THEN Tail(todo["sync"])
                    ELSE CreatePeer(Head(todo["sync"])) \o Tail(todo["sync"]))
    /\ UNCHANGED <<dbVars, expired, awgVars, otherVars>>

\* One row of the list: IsExpired, then ExistsPeer, then CreatePeer.
SyncRow ==
    /\ ~idle("sync") /\ Head(todo["sync"]).op = "SyncRow"
    /\ LET c == Head(todo["sync"])
           rest == Tail(todo["sync"])
       IN Then("sync", IF c.id \in expired \/ byIP[c.ip] # None THEN rest
                       ELSE CreatePeer(c) \o rest)
    /\ UNCHANGED <<dbVars, expired, awgVars, otherVars>>

\* The list of peers to remove is made in one pass over the map.
watchPeers ==
    LET toDelete == {a \in IP : byIP[a] \in expired}
    IN /\ idle("watch")
       /\ toDelete # {}
       /\ \E order \in Injection(1 .. Cardinality(toDelete), toDelete) :
             Then("watch", [k \in DOMAIN order |->
                               Call("removePeerInternal",
                                    [id |-> byIP[order[k]], ip |-> order[k]])])
       /\ disturbed' = disturbed \cup (IF tx # None /\ tx.ip \in toDelete THEN {tx.id} ELSE {})
       /\ UNCHANGED <<dbVars, expired, awgVars, deleted, meshVars, faults, restarts>>

-----------------------------------------------------------------------------
(* The environment.                                                        *)

Expire(i) ==
    /\ i \in Mortal \ expired
    /\ expired' = expired \cup {i}
    /\ UNCHANGED <<dbVars, awgVars, todo, otherVars>>

\* Another node announces a client with the address: Add refuses an address that has a
\* route.
AddRemoteRoutingObject(a) ==
    /\ roomFor(1)
    /\ remotes' = remotes + 1
    /\ claimed' = claimed \cup {a}
    /\ route' = [route EXCEPT ![a] = IF @ = None THEN Remote ELSE @]
    /\ UNCHANGED <<dbVars, expired, byIP, device, todo, deleted, disturbed, faults, restarts>>

\* It withdraws the client: Delete takes whatever route the address has.
DeleteRemoteRoutingObject(a) ==
    /\ a \in claimed
    /\ claimed' = claimed \ {a}
    /\ route' = [route EXCEPT ![a] = None]
    /\ disturbed' = disturbed \cup ({route[a]} \cap Id)
    /\ UNCHANGED <<dbVars, expired, byIP, device, todo, deleted, remotes, faults, restarts>>

\* The process ends at any point and starts again from the committed rows; the device may
\* refuse some of them.
Restart ==
    /\ restarts' = restarts + 1
    /\ tx' = None
    /\ \E refused \in SUBSET (DOMAIN rows \ expired) :
          /\ roomFor(1 + Cardinality(refused))
          /\ faults' = faults + Cardinality(refused)
          /\ LET all == loaded(DOMAIN rows \ (expired \cup refused))
             IN byIP' = all /\ route' = all /\ device' = all
    /\ todo' = [p \in Proc |-> <<>>]
    /\ disturbed' = {}
    /\ UNCHANGED <<rows, nextId, expired, deleted, meshVars>>

PeerNext ==
    \/ \E p \in Proc : TransportCall(p) \/ IpcSetFails(p)
    \/ \E p \in Creators : CreatePeerAutoID(p) \/ Commit(p) \/ Rollback(p)
    \/ \E i \in Id : GetPeerByID(i) \/ Expire(i)
    \/ DeletePeer \/ DeleteReturns
    \/ syncPeers \/ SyncRow \/ watchPeers
    \/ \E a \in IP : AddRemoteRoutingObject(a) \/ DeleteRemoteRoutingObject(a)
    \/ Restart

PeerSpec == PeerInit /\ [][PeerNext]_peerVars

\* Calls end, and the 30 s tickers of syncPeers and watchPeers fire again and again.
FairPeerSpec ==
    /\ PeerSpec
    /\ \A p \in Proc : WF_peerVars(TransportCall(p))
    /\ \A p \in Creators : WF_peerVars(Commit(p)) /\ WF_peerVars(Rollback(p))
    /\ WF_peerVars(DeletePeer) /\ WF_peerVars(DeleteReturns)
    /\ WF_peerVars(syncPeers) /\ WF_peerVars(SyncRow) /\ WF_peerVars(watchPeers)

-----------------------------------------------------------------------------
(* Properties                                                              *)

present(i) == \E a \in IP : byIP[a] = i
served(i) == /\ i \in DOMAIN rows
             /\ byIP[rows[i]] = i /\ route[rows[i]] = i /\ device[rows[i]] = i

\* The subquery MAX+1 "будет безопасен": no two rows, nor a row and the one about
\* to be committed, have the same address.
PeerTypeOK ==
    /\ DOMAIN rows \subseteq Id /\ \A i \in DOMAIN rows : rows[i] \in IP
    /\ \A i, j \in DOMAIN rows : rows[i] = rows[j] => i = j
    /\ tx # None => tx.id \in Id /\ \A i \in DOMAIN rows : rows[i] # tx.ip
    /\ byIP \in [IP -> Id \cup {None}] /\ device \in [IP -> Id \cup {None}]
    /\ route \in [IP -> Id \cup {None, Remote}]
    /\ expired \subseteq Mortal /\ deleted \cup disturbed \subseteq Id
    /\ claimed \subseteq IP

\* A peer that is served stays served until its row is deleted, it expires, the process
\* restarts or another node withdraws a client with its address: syncPeers, watchPeers and
\* calls for other peers never take it down in passing, also when its address had another
\* peer before, unless it was created while a call for that one was still under way.
ServedStays ==
    [][\A i \in Id : served(i) /\ i \notin expired
          => \/ served(i)' \/ i \notin DOMAIN rows' \/ i \in disturbed'
             \/ restarts' # restarts]_peerVars

\* A committed row that nothing has disturbed is served in the end, also when an earlier
\* peer whose commit failed or whose row is deleted is still at its address in the
\* transport, when the device has refused it, when another node has taken the address for
\* a while before it had its route, or when the process ended half way.
EveryPeerServed ==
    \A i \in Id : (i \in DOMAIN rows \ expired)
                     ~> (served(i) \/ i \notin DOMAIN rows \/ i \in expired \cup disturbed)

\* "Add missing peers": the same without exceptions.
MissingPeersAdded ==
    \A i \in Id : (i \in DOMAIN rows \ expired)
                     ~> (served(i) \/ i \notin DOMAIN rows \/ i \in expired)

\* Peers that have expired disappear from the transport for good.
ExpiredGone ==
    <>[](\A i \in expired : ~present(i))

\* "Add missing peers": a peer that DeletePeer has removed is not missing, so the
\* transport does not have it in the end.
DeletedPeerGone ==
    \A i \in Id : i \in deleted ~> ~present(i)
=============================================================================
