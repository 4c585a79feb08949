--------------------------- MODULE TopologyProofs ---------------------------
(***************************************************************************)
(* For every set of nodes and addresses and any history of the mesh: the   *)
(* peer store keeps its type, and of two records with one address the      *)
(* older is never kept, in memory or on disk.                              *)
(***************************************************************************)
EXTENDS Topology, TLAPS

\* InsertMerge (memory.go) maps stores to stores.
LEMMA InsertMergeType ==
    ASSUME NEW store \in Store, NEW id \in IDs, NEW update \in PeerInfo
    PROVE  InsertMerge(store, id, update) \in Store
BY NoPeerAssumption
   DEF Store, PeerInfo, InsertMerge, merged, Info, resolveAddressConflict

\* InsertMerge keeps records that share an address at the same age: of the rivals
\* of the record it writes, all of one age, it drops the older or gives way.
LEMMA InsertMergeSameAge ==
    ASSUME NEW store \in Store, SameAge(store),
           NEW id \in IDs, NEW update \in PeerInfo
    PROVE  SameAge(InsertMerge(store, id, update))
<1> DEFINE existing == IF store[id] = NoPeer THEN update ELSE merged(store[id], update)
           mid == [store EXCEPT ![id] = existing]
<1>1. existing \in PeerInfo
  BY NoPeerAssumption DEF Store, PeerInfo, merged, Info
<1>2. mid \in Store /\ mid[id] = existing /\ existing # NoPeer
  BY <1>1, NoPeerAssumption DEF Store
<1>3. \A o \in IDs \ {id} : mid[o] = store[o]
  BY DEF Store
<1>4. SameAge(resolveAddressConflict(mid, id))
  <2> DEFINE after == resolveAddressConflict(mid, id)
  <2> HIDE DEF mid, existing
  <2>1. CASE existing.Address = NoAddr
    BY <2>1, <1>2, <1>3 DEF SameAge, resolveAddressConflict, Store
  <2>2. CASE existing.Address # NoAddr
    <3> SUFFICES ASSUME NEW p \in IDs, NEW q \in IDs, p # q,
                        after[p] # NoPeer, after[q] # NoPeer
                 PROVE  \/ after[p].Address = NoAddr
                        \/ after[p].Address # after[q].Address
                        \/ after[p].LastSeen = after[q].LastSeen
      BY DEF SameAge
    <3>1. after[p] = mid[p] /\ after[q] = mid[q]
      BY <1>2 DEF resolveAddressConflict, Store
    <3>2. CASE p # id /\ q # id
      BY <3>1, <3>2, <1>3 DEF SameAge
    <3>3. CASE p = id \/ q = id
      <4>1. \A o \in IDs \ {id} : after[o] # NoPeer /\ after[id] # NoPeer
                => \/ mid[o].Address # existing.Address
                   \/ mid[o].LastSeen = existing.LastSeen
        <5> SUFFICES ASSUME NEW o \in IDs \ {id}, after[o] # NoPeer, after[id] # NoPeer,
                            mid[o].Address = existing.Address
                     PROVE  mid[o].LastSeen = existing.LastSeen
          OBVIOUS
        <5>1. mid[o] # NoPeer /\ mid[o] \in PeerInfo
          BY <1>2, <2>2 DEF resolveAddressConflict, Store
        <5>2. ~ (mid[o].LastSeen > existing.LastSeen)
          BY <1>2, <2>2, <5>1 DEF resolveAddressConflict, Store
        <5>3. ~ (existing.LastSeen > mid[o].LastSeen)
          BY <1>2, <2>2, <5>1, <5>2 DEF resolveAddressConflict, Store
        <5> QED
          BY <5>1, <5>2, <5>3, <1>1 DEF PeerInfo
      <4> QED
        BY <4>1, <3>1, <3>3, <1>2
    <3> QED
      BY <3>2, <3>3
  <2> QED
    BY <2>1, <2>2
<1> QED
  BY <1>4 DEF InsertMerge

\* In InsertMerge a record that goes leaves a fresher one behind that holds the address,
\* and one that stays has no earlier LastSeen.
LEMMA InsertMergeFreshest ==
    ASSUME NEW store \in Store, NEW k \in IDs, NEW update \in PeerInfo,
           NEW id \in IDs, store[id] # NoPeer
    PROVE  LET after == InsertMerge(store, k, update)
           IN  IF after[id] = NoPeer
               THEN LostAddress(store, after, id)
               ELSE after[id].LastSeen >= store[id].LastSeen
<1> DEFINE existing == IF store[k] = NoPeer THEN update ELSE merged(store[k], update)
           mid == [store EXCEPT ![k] = existing]
           after == resolveAddressConflict(mid, k)
<1>1. existing \in PeerInfo
  BY NoPeerAssumption DEF Store, PeerInfo, merged, Info
<1>2. mid \in Store /\ mid[k] = existing /\ existing # NoPeer
  BY <1>1, NoPeerAssumption DEF Store
<1>3. \A o \in IDs \ {k} : mid[o] = store[o]
  BY DEF Store
<1>4. mid[id] # NoPeer /\ mid[id] \in PeerInfo /\ store[id] \in PeerInfo
  BY <1>2, <1>3 DEF Store
<1>5. mid[id].LastSeen >= store[id].LastSeen
  <2>1. CASE id = k
    BY <2>1, <1>4 DEF Store, PeerInfo, merged, Info
  <2>2. CASE id # k
    BY <2>2, <1>3, <1>4 DEF PeerInfo
  <2> QED
    BY <2>1, <2>2
<1> HIDE DEF mid, existing
<1>0. CASE existing = store[k]
  BY <1>0, <1>4 DEF InsertMerge, existing, PeerInfo
<1>6. CASE existing # store[k] /\ after[id] # NoPeer
  <2>1. after[id] = mid[id]
    BY <1>6, <1>2 DEF resolveAddressConflict, Store
  <2> QED
    BY <2>1, <1>4, <1>5 DEF InsertMerge, mid, existing, PeerInfo
<1>7. CASE existing # store[k] /\ after[id] = NoPeer
  <2> DEFINE Wins(o) == /\ after[o] # NoPeer /\ after[o].Address # NoAddr
                        /\ after[o].LastSeen > mid[id].LastSeen
                        /\ after[o].Address = store[id].Address \/ after[o] = store[o]
  <2>1. \E o \in IDs : Wins(o)
    <3>0. existing.Address # NoAddr
      BY <1>7, <1>2, <1>4 DEF resolveAddressConflict
    <3>1. CASE id = k
      <4>1. PICK o \in IDs \ {k} : /\ mid[o] # NoPeer /\ mid[o].LastSeen > existing.LastSeen
                                   /\ mid[o].Address = existing.Address
        BY <1>7, <1>2, <3>1 DEF resolveAddressConflict, Store
      <4>2. after = [mid EXCEPT ![k] = NoPeer]
        BY <1>7, <1>2, <3>1 DEF resolveAddressConflict, Store
      <4>3. after[o] = mid[o] /\ mid[o] = store[o]
        BY <4>2, <1>2, <1>3 DEF Store
      <4> QED
        BY <4>1, <4>3, <3>0, <3>1, <1>2
    <3>2. CASE id # k
      <4>1. mid[id].Address = existing.Address /\ existing.LastSeen > mid[id].LastSeen
        BY <1>7, <1>2, <1>4, <3>2 DEF resolveAddressConflict, Store
      <4>2. after[k] = existing
        BY <1>7, <1>2, <1>4, <3>2 DEF resolveAddressConflict, Store
      <4>3. mid[id] = store[id]
        BY <1>3, <3>2
      <4> QED
        BY <4>1, <4>2, <4>3, <3>0, <1>2
    <3> QED
      BY <3>1, <3>2
  <2>2. after \in Store
    BY <1>2 DEF resolveAddressConflict, Store
  <2>3. PICK o \in IDs : Wins(o)
    BY <2>1
  <2>4. after[o].LastSeen > store[id].LastSeen
    BY <2>2, <2>3, <1>4, <1>5 DEF Store, PeerInfo
  <2>5. after = InsertMerge(store, k, update)
    BY <1>7 DEF InsertMerge, mid, existing
  <2>6. LostAddress(store, after, id)
    BY <2>3, <2>4 DEF LostAddress
  <2> QED
    BY <2>5, <2>6, <1>7
<1> QED
  BY <1>0, <1>6, <1>7

\* Remove keeps the store's type and its records' ages.
LEMMA RemoveSameAge ==
    ASSUME NEW store \in Store, SameAge(store), NEW id \in IDs
    PROVE  Remove(store, id) \in Store /\ SameAge(Remove(store, id))
BY DEF Store, Remove, SameAge

\* What gossip can say of a node is a record.
LEMMA ReportsType ==
    ASSUME TopologyTypeOK, NEW id \in IDs
    PROVE  Reports(id) \subseteq PeerInfo
BY DEF TopologyTypeOK, Reports, Info, PeerInfo

-----------------------------------------------------------------------------
\* The inductive invariant of the peer store: InsertMerge needs its rivals to be of
\* one age to keep them so.
TopologyInv == TopologyTypeOK /\ SharedAddressSameAge

\* A node that starts with nothing on disk satisfies the invariant.
LEMMA TopologyInitInv == TopologyInit => TopologyInv
BY TopologyAssumption
   DEF TopologyInit, TopologyInv, TopologyTypeOK, SharedAddressSameAge, SameAge,
       EmptyStore, Store, Idle, Refresh, Address

\* Every step keeps the inductive invariant.
LEMMA TopologyNextInv == TopologyInv /\ [TopologyNext]_topologyVars => TopologyInv'
<1> SUFFICES ASSUME TopologyInv, [TopologyNext]_topologyVars PROVE TopologyInv'
  OBVIOUS
<1> USE TopologyAssumption, NoPeerAssumption
<1>t. TopologyTypeOK /\ SameAge(peers) /\ SameAge(disk)
  BY DEF TopologyInv, SharedAddressSameAge
<1>1. ASSUME NEW id \in Peers, NEW addr \in Address, NEW added \in BOOLEAN,
             HandleConnection(id, addr, added)
      PROVE  TopologyInv'
  <2>1. id \in IDs /\ Info(addr, now) \in PeerInfo /\ peers \in Store
    BY <1>t DEF Peers, Info, PeerInfo, TopologyTypeOK
  <2> DEFINE after == InsertMerge(peers, id, Info(addr, now))
  <2>2. after \in Store /\ SameAge(after)
    BY <1>t, <2>1, InsertMergeType, InsertMergeSameAge
  <2>3. peers' \in Store /\ SameAge(peers)'
    BY <1>1, <2>2 DEF HandleConnection, SameAge
  <2> QED
    BY <1>1, <1>t, <2>3
       DEF HandleConnection, Stamp, meshVars, TopologyInv, TopologyTypeOK,
           SharedAddressSameAge, SameAge
<1>2. ASSUME NEW id \in Peers, SessionEnds(id) PROVE TopologyInv'
  BY <1>2, <1>t DEF SessionEnds, meshVars, TopologyInv, TopologyTypeOK,
                    SharedAddressSameAge, SameAge
<1>3. ASSUME NEW id \in Peers, RefreshGet(id) PROVE TopologyInv'
  <2>1. refresh' \in Refresh
    BY <1>3, <1>t DEF RefreshGet, Refresh, Peers, TopologyTypeOK, Store
  <2> QED
    BY <1>3, <1>t, <2>1 DEF RefreshGet, meshVars, TopologyInv, TopologyTypeOK,
                            SharedAddressSameAge, SameAge
<1>4. ASSUME NEW id \in Peers, RefreshCheck(id) PROVE TopologyInv'
  <2>1. refresh' \in Refresh
    BY <1>4, <1>t DEF RefreshCheck, Refresh, TopologyTypeOK
  <2>2. peers' \in Store /\ SameAge(peers)'
    BY <1>4, <1>t, RemoveSameAge DEF RefreshCheck, Peers, TopologyTypeOK, SameAge
  <2> QED
    BY <1>4, <1>t, <2>1, <2>2 DEF RefreshCheck, meshVars, TopologyInv, TopologyTypeOK,
                                  SharedAddressSameAge, SameAge
<1>5. ASSUME NEW id \in IDs, NEW update \in Reports(id), GossipUpdate(id, update)
      PROVE  TopologyInv'
  <2>1. update \in PeerInfo /\ peers \in Store
    BY <1>t, ReportsType DEF TopologyTypeOK
  <2> DEFINE after == InsertMerge(peers, id, update)
  <2>2. after \in Store /\ SameAge(after)
    BY <1>t, <2>1, InsertMergeType, InsertMergeSameAge
  <2>3. peers' \in Store /\ SameAge(peers)'
    BY <1>5, <2>2 DEF GossipUpdate, SameAge
  <2> QED
    BY <1>5, <1>t, <2>3 DEF GossipUpdate, meshVars, TopologyInv, TopologyTypeOK,
                            SharedAddressSameAge, SameAge
<1>6. ASSUME NEW id \in IDs, GossipLeft(id) PROVE TopologyInv'
  BY <1>6, <1>t DEF GossipLeft, meshVars, TopologyInv, TopologyTypeOK,
                    SharedAddressSameAge, SameAge
<1>7. ASSUME NEW id \in IDs, GossipRemove(id) PROVE TopologyInv'
  <2>1. peers' \in Store /\ SameAge(peers)'
    BY <1>7, <1>t, RemoveSameAge DEF GossipRemove, TopologyTypeOK, SameAge
  <2> QED
    BY <1>7, <1>t, <2>1 DEF GossipRemove, meshVars, TopologyInv, TopologyTypeOK,
                            SharedAddressSameAge, SameAge
<1>8. CASE RefreshStart
  <2>1. refresh' \in Refresh
    BY <1>8, <1>t DEF RefreshStart, Refresh, Peers, TopologyTypeOK
  <2> QED
    BY <1>8, <1>t, <2>1 DEF RefreshStart, Stamp, meshVars, TopologyInv, TopologyTypeOK,
                            SharedAddressSameAge, SameAge
<1>9. CASE RefreshMerge
  <2> DEFINE addr == IF refresh.got = NoPeer THEN NoAddr ELSE refresh.got.Address
  <2>1. /\ refresh.id \in IDs /\ refresh.left \in SUBSET IDs /\ refresh.now \in Nat
        /\ refresh.got \in PeerInfo \cup {NoPeer}
    BY <1>9, <1>t DEF RefreshMerge, Refresh, TopologyTypeOK
  <2>2. Info(addr, refresh.now) \in PeerInfo /\ peers \in Store
    BY <2>1, <1>t DEF Info, PeerInfo, Address, TopologyTypeOK
  <2>3. refresh' \in Refresh
    BY <1>9, <2>1 DEF RefreshMerge, Refresh
  <2> DEFINE after == InsertMerge(peers, refresh.id, Info(addr, refresh.now))
  <2>4. after \in Store /\ SameAge(after)
    <3> HIDE DEF addr
    <3> QED
      BY <1>t, <2>1, <2>2, InsertMergeType, InsertMergeSameAge
  <2>5. peers' \in Store /\ SameAge(peers)'
    BY <1>9, <2>4 DEF RefreshMerge, SameAge
  <2> QED
    BY <1>9, <1>t, <2>3, <2>5 DEF RefreshMerge, meshVars, TopologyInv, TopologyTypeOK,
                                  SharedAddressSameAge, SameAge
<1>10. CASE RefreshList
  <2>1. refresh' \in Refresh
    BY <1>10, <1>t DEF RefreshList, Refresh, Peers, TopologyTypeOK
  <2> QED
    BY <1>10, <1>t, <2>1 DEF RefreshList, meshVars, TopologyInv, TopologyTypeOK,
                             SharedAddressSameAge, SameAge
<1>11. CASE RefreshEnd
  BY <1>11, <1>t DEF RefreshEnd, Idle, Refresh, meshVars, TopologyInv, TopologyTypeOK,
                     SharedAddressSameAge, SameAge
<1>12. CASE flushToDisk
  BY <1>12, <1>t DEF flushToDisk, meshVars, TopologyInv, TopologyTypeOK,
                     SharedAddressSameAge, SameAge
<1>13. ASSUME NEW flushed \in BOOLEAN, Restart(flushed) PROVE TopologyInv'
  <2>1. Idle \in Refresh
    BY DEF Idle, Refresh
  <2> QED
    BY <1>13, <1>t, <2>1 DEF Restart, meshVars, TopologyInv, TopologyTypeOK,
                             SharedAddressSameAge, SameAge
<1>14. ASSUME NEW id \in IDs, NEW addr \in Address, Move(id, addr) \/ Sighted(id, addr)
       PROVE  TopologyInv'
  <2>1. Info(addr, now) \in PeerInfo
    BY <1>t DEF Info, PeerInfo, TopologyTypeOK
  <2>2. sightings' \in [IDs -> SUBSET PeerInfo]
    BY <1>14, <1>t, <2>1 DEF Move, Sighted, TopologyTypeOK
  <2> QED
    BY <1>14, <1>t, <2>2 DEF Move, Sighted, Stamp, TopologyInv, TopologyTypeOK,
                             SharedAddressSameAge, SameAge
<1>15. CASE UNCHANGED topologyVars
  BY <1>15, <1>t DEF topologyVars, meshVars, TopologyInv, TopologyTypeOK,
                     SharedAddressSameAge, SameAge
<1> QED
  BY <1>1, <1>2, <1>3, <1>4, <1>5, <1>6, <1>7, <1>8, <1>9, <1>10, <1>11, <1>12, <1>13,
     <1>14, <1>15 DEF TopologyNext, StoreNext, MeshNext

\* The store, the file and the refresh loop always have their type.
THEOREM TopologyTypeCorrect == TopologySpec => []TopologyTypeOK
BY TopologyInitInv, TopologyNextInv, PTL DEF TopologySpec, TopologyInv

\* Of two records with one address the older is never kept, whatever gossip,
\* handshakes and the refresh loop write and however often the node restarts.
THEOREM SameAgeCorrect == TopologySpec => []SharedAddressSameAge
BY TopologyInitInv, TopologyNextInv, PTL DEF TopologySpec, TopologyInv

-----------------------------------------------------------------------------
\* A step drops a record for a fresher one only, unless it is a removal.
LEMMA FreshestNext ==
    ASSUME TopologyTypeOK, [TopologyNext]_topologyVars,
           NEW id \in IDs, peers[id] # NoPeer
    PROVE  FreshestStep(id)
<1> USE NoPeerAssumption
<1>1. peers \in Store /\ peers[id] \in PeerInfo /\ now \in Nat
  BY DEF TopologyTypeOK, Store
<1>2. CASE peers'[id] = peers[id]
  BY <1>1, <1>2 DEF FreshestStep, PeerInfo
<1>3. ASSUME NEW k \in IDs, NEW update \in PeerInfo,
             peers' = InsertMerge(peers, k, update)
      PROVE  FreshestStep(id)
  <2> DEFINE after == InsertMerge(peers, k, update)
  <2>1. IF after[id] = NoPeer
        THEN LostAddress(peers, after, id)
        ELSE after[id].LastSeen >= peers[id].LastSeen
    BY <1>1, InsertMergeFreshest
  <2> QED
    BY <2>1, <1>3 DEF FreshestStep
<1>4. ASSUME NEW k \in Peers, NEW addr \in Address, NEW added \in BOOLEAN,
             HandleConnection(k, addr, added)
      PROVE  FreshestStep(id)
  <2>1. k \in IDs /\ Info(addr, now) \in PeerInfo
    BY <1>1 DEF Peers, Info, PeerInfo
  <2>2. peers' = InsertMerge(peers, k, Info(addr, now))
    BY <1>4 DEF HandleConnection
  <2> QED
    BY <2>1, <2>2, <1>3
<1>5. ASSUME NEW k \in IDs, NEW update \in Reports(k), GossipUpdate(k, update)
      PROVE  FreshestStep(id)
  BY <1>5, <1>3, ReportsType DEF GossipUpdate
<1>6. CASE RefreshMerge
  <2> DEFINE addr == IF refresh.got = NoPeer THEN NoAddr ELSE refresh.got.Address
  <2>1. /\ refresh.id \in IDs /\ refresh.now \in Nat
        /\ refresh.got \in PeerInfo \cup {NoPeer}
    BY <1>6 DEF RefreshMerge, Refresh, TopologyTypeOK
  <2>2. Info(addr, refresh.now) \in PeerInfo
    BY <2>1 DEF Info, PeerInfo, Address
  <2>3. peers' = InsertMerge(peers, refresh.id, Info(addr, refresh.now))
    BY <1>6 DEF RefreshMerge
  <2> HIDE DEF addr
  <2> QED
    BY <2>1, <2>2, <2>3, <1>3
<1>7. ASSUME NEW k \in IDs, GossipRemove(k) PROVE FreshestStep(id)
  <2>1. CASE k = id
    BY <1>7, <2>1 DEF FreshestStep
  <2>2. CASE k # id
    BY <1>7, <2>2, <1>1, <1>2 DEF GossipRemove, Remove, Store
  <2> QED
    BY <2>1, <2>2
<1>8. ASSUME NEW k \in Peers, RefreshCheck(k) PROVE FreshestStep(id)
  <2>1. CASE k = id
    BY <1>8, <2>1 DEF FreshestStep
  <2>2. CASE k # id
    BY <1>8, <2>2, <1>1, <1>2 DEF RefreshCheck, Remove, Store, Peers
  <2> QED
    BY <2>1, <2>2
<1>9. ASSUME NEW flushed \in BOOLEAN, Restart(flushed) PROVE FreshestStep(id)
  BY <1>9 DEF FreshestStep
<1>10. CASE \E k \in Peers : SessionEnds(k) \/ RefreshGet(k)
  BY <1>10, <1>2 DEF SessionEnds, RefreshGet
<1>11. CASE (\E k \in IDs : GossipLeft(k)) \/ MeshNext
  BY <1>11, <1>2 DEF GossipLeft, MeshNext, Move, Sighted
<1>12. CASE RefreshStart \/ RefreshList \/ RefreshEnd \/ flushToDisk
  BY <1>12, <1>2 DEF RefreshStart, RefreshList, RefreshEnd, flushToDisk
<1>13. CASE UNCHANGED topologyVars
  BY <1>13, <1>2 DEF topologyVars
<1> QED
  BY <1>4, <1>5, <1>6, <1>7, <1>8, <1>9, <1>10, <1>11, <1>12, <1>13
     DEF TopologyNext, StoreNext

\* resolveAddressConflict keeps the freshest: a record is dropped for a fresher one that
\* holds the address, or removed, or lost in a restart, and its LastSeen never goes back.
THEOREM FreshestCorrect == TopologySpec => FreshestSurvives
<1>1. TopologyTypeOK /\ [TopologyNext]_topologyVars
          => [\A id \in IDs : peers[id] # NoPeer => FreshestStep(id)]_topologyVars
  BY FreshestNext
<1> QED
  BY <1>1, TopologyTypeCorrect, PTL DEF TopologySpec, FreshestSurvives
=============================================================================
