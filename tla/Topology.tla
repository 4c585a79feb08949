------------------------------ MODULE Topology ------------------------------
(***************************************************************************)
(* The peer store of one node (pkg/mesh/topology) and what writes to it:   *)
(* handshakes (session/engine.go), the refreshPeers loop and the gossip    *)
(* streams (discovery/syncer.go), the save loop and a restart.             *)
(*                                                                         *)
(* The rest of the mesh is a history: which node lives at which address,   *)
(* and the sightings other nodes have made of it.  Gossip brings any of    *)
(* them, in any order, any number of times.  Every call of time.Now()      *)
(* gives another instant, so two records carry the same LastSeen only if   *)
(* one run of refreshPeers stamped both.                                   *)
(***************************************************************************)
EXTENDS Naturals, FiniteSets

CONSTANTS
    IDs,              \* node ids, the local one included
    localID,
    Addrs,            \* addresses at which nodes can be dialled
    NoAddr,           \* the empty address of a peer only seen inbound
    NoPeer,           \* no record
    refreshInterval,  \* peerRefreshInterval, in instants
    peerTTL,          \* in instants
    MaxTime           \* bound on the clock

ASSUME TopologyAssumption ==
    /\ localID \in IDs
    /\ NoAddr \notin Addrs
    /\ refreshInterval \in Nat /\ peerTTL \in Nat /\ MaxTime \in Nat

Peers == IDs \ {localID}
Address == Addrs \cup {NoAddr}
PeerInfo == [Address : Address, LastSeen : Nat]
Store == [IDs -> PeerInfo \cup {NoPeer}]

ASSUME NoPeerAssumption == NoPeer \notin PeerInfo

Info(addr, t) == [Address |-> addr, LastSeen |-> t]
EmptyStore == [id \in IDs |-> NoPeer]

-----------------------------------------------------------------------------
\* The store's operations, each under s.mu.

\* Mutant: the record just written never drops another.
resolveAddressConflictKeepsBoth(store, id) ==
    LET keep == store[id]
        rivals == {o \in IDs \ {id} :
                      IF store[o] = NoPeer THEN FALSE ELSE store[o].Address = keep.Address}
    IN  IF keep.Address # NoAddr /\ \E o \in rivals : store[o].LastSeen > keep.LastSeen
        THEN [store EXCEPT ![id] = NoPeer]
        ELSE store

\* Mutant: the record just written wins whatever its age.
resolveAddressConflictNewest(store, id) ==
    LET keep == store[id]
        rivals == {o \in IDs \ {id} :
                      IF store[o] = NoPeer THEN FALSE ELSE store[o].Address = keep.Address}
    IN  IF keep.Address = NoAddr THEN store
        ELSE [o \in IDs |-> IF o \in rivals THEN NoPeer ELSE store[o]]

\* One address, one node: of the records that share the address of id's, the
\* older ones go, or id's own does if another is fresher.
resolveAddressConflict(store, id) ==
    LET keep == store[id]
        rivals == {o \in IDs \ {id} :
                      IF store[o] = NoPeer THEN FALSE ELSE store[o].Address = keep.Address}
        keepLost == \E o \in rivals : store[o].LastSeen > keep.LastSeen
        dropped == {o \in rivals : keep.LastSeen > store[o].LastSeen}
    IN  IF keep.Address = NoAddr THEN store
        ELSE IF keepLost THEN [store EXCEPT ![id] = NoPeer]
        ELSE [o \in IDs |-> IF o \in dropped THEN NoPeer ELSE store[o]]

\* The existing record after an update: the later LastSeen, the new address
\* unless it is empty.
merged(old, update) ==
    Info(IF update.Address # NoAddr THEN update.Address ELSE old.Address,
         IF update.LastSeen > old.LastSeen THEN update.LastSeen ELSE old.LastSeen)

InsertMerge(store, id, update) ==
    LET existing == IF store[id] = NoPeer THEN update ELSE merged(store[id], update)
    IN  IF existing = store[id] THEN store
        ELSE resolveAddressConflict([store EXCEPT ![id] = existing], id)

\* Mutant: the key is kept, with a record that has no LastSeen.
RemoveKeepsKey(store, id) == [store EXCEPT ![id] = [Address |-> NoAddr]]

Remove(store, id) == [store EXCEPT ![id] = NoPeer]

-----------------------------------------------------------------------------
VARIABLES
    peers,      \* inMemoryState.peers
    disk,       \* peers.json
    sessions,   \* the ids the session registry has, ListActive
    refresh,    \* the goroutine that runs refreshPeers
    leaving,    \* ids whose LEFT event has passed the registry check
    home,       \* [IDs -> Address]: where a node can be dialled now
    sightings,  \* [IDs -> sets of PeerInfo]: what other nodes have seen
    now         \* the clock

meshVars == <<home, sightings>>
topologyVars == <<peers, disk, sessions, refresh, leaving, meshVars, now>>

\* refreshPeers is waiting for its ticker, is refreshing the live sessions in
\* left, has read the record got of session id, or is checking the records of
\* list it has not yet come to.
Refresh ==
    [at : {"idle"}]
    \cup [at : {"sessions"}, left : SUBSET IDs, now : Nat]
    \cup [at : {"merge"}, left : SUBSET IDs, now : Nat, id : IDs,
          got : PeerInfo \cup {NoPeer}]
    \cup [at : {"list"}, left : SUBSET IDs, now : Nat, list : Store]

Idle == [at |-> "idle"]

TopologyInit ==
    /\ peers = EmptyStore
    /\ disk = EmptyStore
    /\ sessions = {}
    /\ refresh = Idle
    /\ leaving = {}
    /\ home = [id \in IDs |-> NoAddr]
    /\ sightings = [id \in IDs |-> {}]
    /\ now = 0

\* time.Now() is called.
Stamp == now < MaxTime /\ now' = now + 1

-----------------------------------------------------------------------------
\* The mesh.

\* A node appears at a free address, moves to one, or is gone for good.
Move(id, addr) ==
    /\ home[id] # addr
    /\ addr # NoAddr => \A o \in IDs : home[o] # addr
    /\ home' = [home EXCEPT ![id] = addr]
    /\ UNCHANGED <<peers, disk, sessions, refresh, leaving, sightings, now>>

\* Another node dials id, or is dialled by it.
Sighted(id, addr) ==
    /\ home[id] # NoAddr
    /\ addr \in {home[id], NoAddr}
    /\ Stamp
    /\ sightings' = [sightings EXCEPT ![id] = @ \cup {Info(addr, now)}]
    /\ UNCHANGED <<peers, disk, sessions, refresh, leaving, home>>

\* What gossip can say of id: an address someone has had for it, with a LastSeen
\* that is as late or later, for merges raise the one and keep the other.
Reports(id) ==
    UNION {{Info(a.Address, b.LastSeen) :
               b \in {s \in sightings[id] : s.LastSeen >= a.LastSeen}} :
           a \in sightings[id]}

-----------------------------------------------------------------------------
\* HandleConnection: the record is written before the registry is asked; a
\* connection the peer opened brings no address.
HandleConnection(id, addr, added) ==
    /\ home[id] # NoAddr
    /\ addr \in {home[id], NoAddr}
    /\ Stamp
    /\ peers' = InsertMerge(peers, id, Info(addr, now))
    /\ sessions' = IF added THEN sessions \cup {id} ELSE sessions
    /\ id \notin sessions => added
    /\ UNCHANGED <<disk, refresh, leaving, meshVars>>

\* runSession has ended and the registry entry is removed.
SessionEnds(id) ==
    /\ id \in sessions
    /\ sessions' = sessions \ {id}
    /\ UNCHANGED <<peers, disk, refresh, leaving, meshVars, now>>

\* streamDiscoveryData: SYNC, JOINED or UPDATED, one record of it.
GossipUpdate(id, update) ==
    /\ peers' = InsertMerge(peers, id, update)
    /\ UNCHANGED <<disk, sessions, refresh, leaving, meshVars, now>>

\* streamDiscoveryData: a LEFT event is dropped if there is a session with id.
GossipLeft(id) ==
    /\ sightings[id] # {}
    /\ id \notin sessions
    /\ leaving' = leaving \cup {id}
    /\ UNCHANGED <<peers, disk, sessions, refresh, meshVars, now>>

GossipRemove(id) ==
    /\ id \in leaving
    /\ leaving' = leaving \ {id}
    /\ peers' = Remove(peers, id)
    /\ UNCHANGED <<disk, sessions, refresh, meshVars, now>>

-----------------------------------------------------------------------------
\* refreshPeers: the ticker's time is taken, and the list of active sessions.
RefreshStart ==
    /\ refresh = Idle
    /\ Stamp
    /\ refresh' = [at |-> "sessions", left |-> sessions, now |-> now]
    /\ UNCHANGED <<peers, disk, sessions, leaving, meshVars>>

\* The record of the next session is read; a recent one needs no refresh.
RefreshGet(id) ==
    /\ refresh.at = "sessions"
    /\ id \in refresh.left
    /\ refresh' = IF /\ peers[id] # NoPeer
                     /\ refresh.now < peers[id].LastSeen + refreshInterval
                  THEN [refresh EXCEPT !.left = @ \ {id}]
                  ELSE [at |-> "merge", left |-> refresh.left \ {id},
                        now |-> refresh.now, id |-> id, got |-> peers[id]]
    /\ UNCHANGED <<peers, disk, sessions, leaving, meshVars, now>>

\* It is written back with the ticker's time and the address that was read.
RefreshMerge ==
    /\ refresh.at = "merge"
    /\ peers' = InsertMerge(peers, refresh.id,
                    Info(IF refresh.got = NoPeer THEN NoAddr ELSE refresh.got.Address,
                         refresh.now))
    /\ refresh' = [at |-> "sessions", left |-> refresh.left, now |-> refresh.now]
    /\ UNCHANGED <<disk, sessions, leaving, meshVars, now>>

\* repo.List, once the sessions are done.
RefreshList ==
    /\ refresh.at = "sessions"
    /\ refresh.left = {}
    /\ refresh' = [at |-> "list", left |-> {id \in Peers : peers[id] # NoPeer},
                   now |-> refresh.now, list |-> peers]
    /\ UNCHANGED <<peers, disk, sessions, leaving, meshVars, now>>

\* A listed record without a session is removed if it has expired (else its
\* address is dialled, which ends in HandleConnection or in nothing).
RefreshCheck(id) ==
    /\ refresh.at = "list"
    /\ id \in refresh.left
    /\ refresh' = [refresh EXCEPT !.left = @ \ {id}]
    /\ peers' = IF id \notin sessions /\ refresh.now > refresh.list[id].LastSeen + peerTTL
                THEN Remove(peers, id)
                ELSE peers
    /\ UNCHANGED <<disk, sessions, leaving, meshVars, now>>

RefreshEnd ==
    /\ refresh.at = "list"
    /\ refresh.left = {}
    /\ refresh' = Idle
    /\ UNCHANGED <<peers, disk, sessions, leaving, meshVars, now>>

-----------------------------------------------------------------------------
\* flushToDisk: a snapshot replaces the file by a rename.  The file is read at
\* the next start only, so the snapshot and the rename are one step: a process
\* that ends between the two has not flushed.
flushToDisk ==
    /\ disk # peers
    /\ disk' = peers
    /\ UNCHANGED <<peers, sessions, refresh, leaving, meshVars, now>>

\* The process ends, with a last flush or without, and NewPeerRepository loads
\* the file.
Restart(flushed) ==
    /\ disk' = IF flushed THEN peers ELSE disk
    /\ peers' = disk'
    /\ sessions' = {}
    /\ refresh' = Idle
    /\ leaving' = {}
    /\ UNCHANGED <<meshVars, now>>

StoreNext ==
    \/ \E id \in Peers :
          \/ \E addr \in Address, added \in BOOLEAN : HandleConnection(id, addr, added)
          \/ SessionEnds(id)
          \/ RefreshGet(id) \/ RefreshCheck(id)
    \/ \E id \in IDs :
          \/ \E update \in Reports(id) : GossipUpdate(id, update)
          \/ GossipLeft(id) \/ GossipRemove(id)
    \/ RefreshStart \/ RefreshMerge \/ RefreshList \/ RefreshEnd
    \/ flushToDisk
    \/ \E flushed \in BOOLEAN : Restart(flushed)

MeshNext ==
    \E id \in IDs, addr \in Address : Move(id, addr) \/ Sighted(id, addr)

TopologyNext == StoreNext \/ MeshNext

TopologySpec == TopologyInit /\ [][TopologyNext]_topologyVars

-----------------------------------------------------------------------------
TopologyTypeOK ==
    /\ peers \in Store
    /\ disk \in Store
    /\ sessions \subseteq Peers
    /\ refresh \in Refresh
    /\ leaving \subseteq IDs
    /\ home \in [IDs -> Address]
    /\ sightings \in [IDs -> SUBSET PeerInfo]
    /\ now \in Nat

\* Records of a store that share an address are of the same age.
SameAge(store) ==
    \A p, q \in IDs :
        /\ p # q
        /\ store[p] # NoPeer /\ store[q] # NoPeer
        => \/ store[p].Address = NoAddr
           \/ store[p].Address # store[q].Address
           \/ store[p].LastSeen = store[q].LastSeen

\* Whatever gossip brings, in memory and in the file, of two records with one
\* address the older has been dropped (resolveAddressConflict).
SharedAddressSameAge == SameAge(peers) /\ SameAge(disk)

\* The record of id is gone, and a fresher one has the address: the one that was written
\* in this step and took id's address, or one that was there and whose address id was given.
LostAddress(before, after, id) ==
    \E o \in IDs :
        /\ after[o] # NoPeer
        /\ after[o].Address # NoAddr /\ after[o].LastSeen > before[id].LastSeen
        /\ after[o].Address = before[id].Address \/ after[o] = before[o]

\* A step keeps the record of id, or its address goes to a fresher one, or it is a removal.
FreshestStep(id) ==
    \/ \E flushed \in BOOLEAN : Restart(flushed)
    \/ GossipRemove(id) \/ (id \in Peers /\ RefreshCheck(id))
    \/ IF peers'[id] = NoPeer
       THEN LostAddress(peers, peers', id)
       ELSE peers'[id].LastSeen >= peers[id].LastSeen

\* "выживает запись со свежайшим LastSeen" (resolveAddressConflict): whoever writes, a record
\* is dropped only for a fresher one that holds the address the two had, apart from removals
\* and restarts, and no LastSeen goes back.  Which address a record has is another matter,
\* see AddressAsFresh.
FreshestSurvives ==
    [][\A id \in IDs : peers[id] # NoPeer => FreshestStep(id)]_topologyVars

\* The address of a record changes only with a sighting that is later than the record's.
\* Not kept: InsertMerge takes over any address, and so a late report, or the copy
\* refreshPeers has read before a handshake, puts back an address the node has left.
AddressAsFresh ==
    [][\A id \in IDs :
          /\ peers[id] # NoPeer /\ peers'[id] # NoPeer
          /\ peers[id].Address # NoAddr /\ peers'[id].Address # peers[id].Address
          => \/ peers'[id].LastSeen > peers[id].LastSeen
             \/ \E flushed \in BOOLEAN : Restart(flushed)]_topologyVars

\* No two records of the store have the same address, as the comment on
\* resolveAddressConflict has it: one address, one node.
OneAddressOneNode ==
    \A p, q \in IDs :
        p # q /\ peers[p] # NoPeer /\ peers[q] # NoPeer =>
            peers[p].Address = NoAddr \/ peers[p].Address # peers[q].Address

\* What other nodes have to say does not throw out the record of a peer we have
\* a session with, as the comment on the LEFT case of streamDiscoveryData has it.
LivePeerKept ==
    [][\A id \in sessions :
          peers[id] # NoPeer /\ peers'[id] = NoPeer => id \notin sessions']_topologyVars

\* refreshPeers throws out only a peer "о котором никто не напоминал" for peerTTL: one nobody
\* has mentioned since, not even after List made the copy it looks at.
RemindedPeerKept ==
    [][(refresh.at = "list" /\ refresh'.at = "list") =>
          \A id \in refresh.left \ refresh'.left :
              peers[id] # NoPeer /\ peers'[id] = NoPeer
                  => refresh.now > peers[id].LastSeen + peerTTL]_topologyVars
=============================================================================
