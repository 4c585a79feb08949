-------------------------- MODULE NodeManagerProofs -------------------------
(***************************************************************************)
(* Proofs about the mesh node and its registry of sessions (MeshNode), and *)
(* about the manager of the node's own port rules (FirewallManager).       *)
(***************************************************************************)
EXTENDS MeshNode, FiniteSetTheorems, FirewallManager, WellFoundedInduction, TLAPS

-----------------------------------------------------------------------------
(***************************************************************************)
(* The registry and its feeds, for any number of peers, connections and    *)
(* subscribers: every registered session has its goroutine, no channel is  *)
(* closed twice or sent to after its close, and a closed registry stays    *)
(* closed.                                                                 *)
(***************************************************************************)

FeedState == [state : {"none", "open", "closed"}, queue : Seq(Session), cap : Nat,
              missed : SUBSET Session]

\* The types of the registry and the feeds; the connections so far are finitely many.
NodeTypes ==
    /\ used \subseteq Session /\ IsFiniteSet(used)
    /\ alive \subseteq used /\ running \subseteq used /\ closing \subseteq used
    /\ registry \in [Peer -> Session \cup {NoSession}]
    /\ \A p \in Peer : registry[p] # NoSession => peerOf[registry[p]] = p
    /\ registered \subseteq running
    /\ feed \in [Feeds -> FeedState]
    /\ \A f \in Feeds : Len(feed[f].queue) <= feed[f].cap

\* r.subs has no channel that is closed.
SubsOpen ==
    /\ subs \subseteq Feeds
    /\ \A f \in subs : feed[f].state = "open"
    /\ panicked = FALSE

\* Close leaves no session and no subscriber, and nothing adds one after it.
ClosedForGood ==
    closed => registered = {} /\ subs = {}

LEMMA RegisteredIs ==
    ASSUME NodeTypes
    PROVE  /\ \A p \in Peer : registry[p] # NoSession => registry[p] \in running
           /\ registered \subseteq Session /\ IsFiniteSet(registered)
<1>1. registered \subseteq used
  BY DEF NodeTypes
<1> HIDE DEF registered
<1>2. IsFiniteSet(registered)
  BY <1>1, FS_Subset DEF NodeTypes
<1> QED BY <1>1, <1>2 DEF NodeTypes, registered

\* The order in which a new feed gets the sessions there are.
LEMMA FirstSessions ==
    ASSUME NEW S, IsFiniteSet(S), NEW q \in Injection(1 .. Cardinality(S), S)
    PROVE  q \in Seq(S)
<1>1. Cardinality(S) \in Nat
  BY FS_CardinalityType
<1>2. q \in [1 .. Cardinality(S) -> S]
  BY DEF Injection
<1> QED BY <1>1, <1>2

LEMMA FeedIs ==
    \A x \in FeedState : /\ x.state \in {"none", "open", "closed"} /\ x.queue \in Seq(Session)
                         /\ x.cap \in Nat /\ x.missed \in SUBSET Session
BY DEF FeedState

LEMMA NodeTypesInit ==
    NodeInit => NodeTypes /\ SubsOpen /\ ClosedForGood
<1> SUFFICES ASSUME NodeInit PROVE NodeTypes /\ SubsOpen /\ ClosedForGood
  OBVIOUS
<1>1. feed \in [Feeds -> FeedState] /\ \A f \in Feeds : Len(feed[f].queue) <= feed[f].cap
  BY DEF NodeInit, FeedState
<1>2. registered = {}
  BY DEF NodeInit, registered
<1>3. IsFiniteSet(used)
  BY FS_EmptySet DEF NodeInit
<1> QED BY <1>1, <1>2, <1>3 DEF NodeInit, NodeTypes, SubsOpen, ClosedForGood

\* A new session reaches the feeds in r.subs, whose channels are open.
LEMMA HandleConnectionTypes ==
    ASSUME NodeTypes, SubsOpen, ClosedForGood, NEW s \in Session, HandleConnection(s)
    PROVE  NodeTypes' /\ SubsOpen' /\ ClosedForGood'
<1>1. used' = used \cup {s} /\ used' \subseteq Session /\ IsFiniteSet(used')
  BY FS_AddElement DEF HandleConnection, NodeTypes
<1>2. peerOf[s] \in Peer /\ NoSession \notin Session
  BY NodeAssumption DEF Peer
<1>3. UNCHANGED <<closed, subs>>
  BY DEF HandleConnection
<1>4. CASE Add(s) /\ alive' = alive \cup {s}
  <2> DEFINE g(f) == IF f \notin subs THEN feed[f]
                     ELSE IF Len(feed[f].queue) < feed[f].cap
                          THEN [feed[f] EXCEPT !.queue = Append(feed[f].queue, s)]
                          ELSE [feed[f] EXCEPT !.missed = feed[f].missed \cup {s}]
  <2>1. /\ ~ closed /\ registry' = [registry EXCEPT ![peerOf[s]] = s]
        /\ closing' = closing \cup ({registry[peerOf[s]]} \ {NoSession})
        /\ panicked' = (panicked \/ closedFeed(subs))
        /\ running' = running \cup {s}
        /\ feed' = [f \in Feeds |-> g(f)]
    BY <1>4 DEF Add
  <2>2. /\ registry' \in [Peer -> Session \cup {NoSession}]
        /\ \A p \in Peer : registry'[p] = IF p = peerOf[s] THEN s ELSE registry[p]
    BY <1>2, <2>1 DEF NodeTypes
  <2>3. registered' \subseteq running'
    BY <2>1, <2>2, RegisteredIs DEF registered
  <2>4. \A p \in Peer : registry'[p] # NoSession => peerOf[registry'[p]] = p
    BY <2>2 DEF NodeTypes
  <2>5. closing' \subseteq used'
    BY <1>1, <1>2, <2>1, RegisteredIs DEF NodeTypes
  <2>6. ASSUME NEW f \in Feeds
        PROVE  /\ g(f) \in FeedState /\ Len(g(f).queue) <= g(f).cap
               /\ g(f).state = feed[f].state
    <3>1. /\ feed[f] \in FeedState /\ Len(feed[f].queue) <= feed[f].cap
          /\ feed[f].queue \in Seq(Session) /\ feed[f].cap \in Nat
          /\ Len(feed[f].queue) \in Nat
      BY FeedIs DEF NodeTypes
    <3>2. /\ Append(feed[f].queue, s) \in Seq(Session)
          /\ Len(Append(feed[f].queue, s)) = Len(feed[f].queue) + 1
      BY <3>1
    <3>3. CASE f \notin subs
      BY <3>1, <3>3
    <3>4. CASE f \in subs /\ Len(feed[f].queue) < feed[f].cap
      <4>1. g(f) = [feed[f] EXCEPT !.queue = Append(feed[f].queue, s)]
        BY <3>4
      <4> HIDE DEF g
      <4>2. g(f) \in FeedState
        BY <3>1, <3>2, <4>1 DEF FeedState
      <4>3. /\ g(f).queue = Append(feed[f].queue, s) /\ g(f).cap = feed[f].cap
            /\ g(f).state = feed[f].state
        BY <3>1, <4>1 DEF FeedState
      <4> QED BY <3>1, <3>2, <3>4, <4>2, <4>3
    <3>5. CASE f \in subs /\ ~ (Len(feed[f].queue) < feed[f].cap)
      <4>1. g(f) = [feed[f] EXCEPT !.missed = feed[f].missed \cup {s}]
        BY <3>5
      <4> HIDE DEF g
      <4>2. g(f) \in FeedState
        BY <3>1, <4>1 DEF FeedState
      <4>3. /\ g(f).queue = feed[f].queue /\ g(f).cap = feed[f].cap
            /\ g(f).state = feed[f].state
        BY <3>1, <4>1 DEF FeedState
      <4> QED BY <3>1, <4>2, <4>3
    <3> QED BY <3>3, <3>4, <3>5
  <2> HIDE DEF g
  <2>7. /\ feed' \in [Feeds -> FeedState]
        /\ \A f \in Feeds : /\ Len(feed'[f].queue) <= feed'[f].cap
                            /\ feed'[f].state = feed[f].state
    BY <2>1, <2>6
  <2>8. NodeTypes'
    BY <1>1, <1>4, <2>1, <2>2, <2>3, <2>4, <2>5, <2>7 DEF NodeTypes
  <2>9. ~ closedFeed(subs)
    BY DEF SubsOpen, closedFeed
  <2>10. SubsOpen'
    BY <1>3, <2>1, <2>7, <2>9 DEF SubsOpen
  <2> QED BY <1>3, <2>1, <2>8, <2>10 DEF ClosedForGood
<1>5. CASE UNCHANGED <<alive, running, registry, closing, feed, panicked>>
  BY <1>1, <1>3, <1>5 DEF NodeTypes, SubsOpen, ClosedForGood, registered
<1> QED BY <1>4, <1>5 DEF HandleConnection

\* Remove takes away the entry of a session whose goroutine ends.
LEMMA RunSessionEndsTypes ==
    ASSUME NodeTypes, SubsOpen, ClosedForGood, NEW s \in Session, RunSessionEnds(s)
    PROVE  NodeTypes' /\ SubsOpen' /\ ClosedForGood'
<1>1. peerOf[s] \in Peer /\ NoSession \notin Session
  BY NodeAssumption DEF Peer
<1>2. /\ s \in running /\ running' = running \ {s}
      /\ UNCHANGED <<used, alive, closed, feed, subs, panicked>>
  BY DEF RunSessionEnds, feedVars
<1>3. /\ registry' \in [Peer -> Session \cup {NoSession}]
      /\ \A p \in Peer : \/ registry'[p] = registry[p] /\ registry[p] # s
                         \/ registry'[p] = NoSession
  <2>1. CASE registry[peerOf[s]] = s
    <3>1. registry' = [registry EXCEPT ![peerOf[s]] = NoSession]
      BY <2>1 DEF RunSessionEnds
    <3> QED BY <1>1, <2>1, <3>1 DEF NodeTypes
  <2>2. CASE registry[peerOf[s]] # s
    <3>1. registry' = registry
      BY <2>2 DEF RunSessionEnds
    <3> QED BY <1>1, <2>2, <3>1 DEF NodeTypes
  <2> QED BY <2>1, <2>2
<1>4. closing' \subseteq used
  BY <1>2 DEF RunSessionEnds, NodeTypes
<1>5. registered' \subseteq running' /\ registered' \subseteq registered
  BY <1>2, <1>3, RegisteredIs DEF registered
<1>6. \A p \in Peer : registry'[p] # NoSession => peerOf[registry'[p]] = p
  BY <1>3 DEF NodeTypes
<1>7. NodeTypes'
  BY <1>2, <1>3, <1>4, <1>5, <1>6 DEF NodeTypes
<1> QED BY <1>2, <1>5, <1>7 DEF SubsOpen, ClosedForGood

LEMMA SubscribeTypes ==
    ASSUME NodeTypes, SubsOpen, ClosedForGood, NEW f \in Feeds, SubscribeNewSessions(f)
    PROVE  NodeTypes' /\ SubsOpen' /\ ClosedForGood'
<1>1. /\ UNCHANGED <<used, alive, running, registry, closed, closing, panicked>>
      /\ feed[f].state = "none" /\ f \notin subs
  BY DEF SubscribeNewSessions, sessionVars, SubsOpen
<1>2. FeedRoom \in Nat
  BY NodeAssumption
<1>3. /\ feed' \in [Feeds -> FeedState]
      /\ \A g \in Feeds : Len(feed'[g].queue) <= feed'[g].cap
      /\ \A g \in Feeds \ {f} : feed'[g] = feed[g]
      /\ subs' = subs \/ (subs' = subs \cup {f} /\ ~ closed /\ feed'[f].state = "open")
  <2>1. CASE closed /\ feed' = [feed EXCEPT ![f].state = "closed"] /\ UNCHANGED subs
    BY <2>1 DEF NodeTypes, FeedState
  <2>2. ASSUME ~ closed, subs' = subs \cup {f}, NEW q \in Injection(1 .. Cardinality(registered), registered),
               feed' = [feed EXCEPT ![f] =
                  [state |-> "open", queue |-> q, cap |-> Len(q) + FeedRoom, missed |-> {}]]
        PROVE  <1>3
    <3>1. q \in Seq(registered) /\ registered \subseteq Session
      BY FirstSessions, RegisteredIs
    <3>2. q \in Seq(Session) /\ Len(q) \in Nat
      BY <3>1
    <3> DEFINE new == [state |-> "open", queue |-> q, cap |-> Len(q) + FeedRoom,
                       missed |-> {}]
    <3>3. /\ new \in FeedState /\ Len(new.queue) <= new.cap /\ new.state = "open"
      BY <1>2, <3>2 DEF FeedState
    <3>4. feed' = [feed EXCEPT ![f] = new]
      BY <2>2
    <3> HIDE DEF new
    <3> QED BY <2>2, <3>3, <3>4 DEF NodeTypes
  <2> QED BY <2>1, <2>2 DEF SubscribeNewSessions
<1>4. NodeTypes'
  BY <1>1, <1>3 DEF NodeTypes, registered
<1> QED BY <1>1, <1>3, <1>4 DEF SubsOpen, ClosedForGood, registered

\* Whoever closes a channel takes it out of r.subs under the same lock.
LEMMA CloseFeedsTypes ==
    ASSUME NodeTypes, SubsOpen, NEW fs \in SUBSET subs, CloseFeeds(fs)
    PROVE  /\ SubsOpen' /\ subs' = subs \ fs
           /\ feed' \in [Feeds -> FeedState]
           /\ \A f \in Feeds : Len(feed'[f].queue) <= feed'[f].cap
<1>1. ~ closedFeed(fs)
  BY DEF SubsOpen, closedFeed
<1>2. \A f \in Feeds : feed'[f] = IF f \in fs THEN [feed[f] EXCEPT !.state = "closed"] ELSE feed[f]
  BY DEF CloseFeeds
<1>3. /\ feed' \in [Feeds -> FeedState]
      /\ \A f \in Feeds : Len(feed'[f].queue) <= feed'[f].cap
  <2>1. ASSUME NEW x \in FeedState
        PROVE  /\ [x EXCEPT !.state = "closed"] \in FeedState
               /\ [x EXCEPT !.state = "closed"].queue = x.queue
               /\ [x EXCEPT !.state = "closed"].cap = x.cap
    BY DEF FeedState
  <2>2. \A f \in Feeds : /\ feed'[f] \in FeedState
                         /\ feed'[f].queue = feed[f].queue /\ feed'[f].cap = feed[f].cap
    BY <1>2, <2>1 DEF NodeTypes
  <2>3. feed' = [f \in Feeds |-> feed'[f]]
    BY DEF CloseFeeds
  <2> QED BY <2>2, <2>3 DEF NodeTypes
<1>4. subs' = subs \ fs /\ panicked' = FALSE
  BY <1>1 DEF CloseFeeds, SubsOpen
<1> QED BY <1>2, <1>3, <1>4 DEF SubsOpen

LEMMA UnsubscribeTypes ==
    ASSUME NodeTypes, SubsOpen, ClosedForGood, NEW f \in Feeds, UnsubscribeOnDone(f)
    PROVE  NodeTypes' /\ SubsOpen' /\ ClosedForGood'
<1>1. {f} \in SUBSET subs /\ CloseFeeds({f})
      /\ UNCHANGED <<used, alive, running, registry, closed, closing>>
  BY DEF UnsubscribeOnDone, sessionVars
<1>2. /\ SubsOpen' /\ subs' = subs \ {f} /\ feed' \in [Feeds -> FeedState]
      /\ \A g \in Feeds : Len(feed'[g].queue) <= feed'[g].cap
  BY <1>1, CloseFeedsTypes
<1> QED BY <1>1, <1>2 DEF NodeTypes, ClosedForGood, registered

LEMMA CloseRegistryTypes ==
    ASSUME NodeTypes, SubsOpen, CloseRegistry
    PROVE  NodeTypes' /\ SubsOpen' /\ ClosedForGood'
<1>1. /\ CloseFeeds(subs) /\ UNCHANGED <<used, alive, running>>
      /\ registry' = [p \in Peer |-> NoSession] /\ closing' = closing \cup registered
  BY DEF CloseRegistry
<1>2. /\ SubsOpen' /\ subs' = subs \ subs /\ feed' \in [Feeds -> FeedState]
      /\ \A g \in Feeds : Len(feed'[g].queue) <= feed'[g].cap
  BY <1>1, CloseFeedsTypes
<1>3. registered' = {}
  BY <1>1 DEF registered
<1>4. closing' \subseteq used
  BY <1>1 DEF NodeTypes
<1> QED BY <1>1, <1>2, <1>3, <1>4 DEF NodeTypes, ClosedForGood

LEMMA TakeSessionTypes ==
    ASSUME NodeTypes, SubsOpen, ClosedForGood, NEW f \in Feeds, TakeSession(f)
    PROVE  NodeTypes' /\ SubsOpen' /\ ClosedForGood'
<1>1. /\ UNCHANGED <<used, alive, running, registry, closed, closing, panicked, subs>>
      /\ feed' = [feed EXCEPT ![f].queue = Tail(feed[f].queue)] /\ feed[f].queue # <<>>
  BY DEF TakeSession, sessionVars
<1> DEFINE new == [feed[f] EXCEPT !.queue = Tail(feed[f].queue)]
<1>2. feed[f].queue \in Seq(Session) /\ feed[f].cap \in Nat /\ feed[f] \in FeedState
  BY FeedIs DEF NodeTypes
<1>3. Tail(feed[f].queue) \in Seq(Session) /\ Len(Tail(feed[f].queue)) <= Len(feed[f].queue)
      /\ Len(Tail(feed[f].queue)) \in Nat /\ Len(feed[f].queue) \in Nat
  BY <1>1, <1>2
<1>4. /\ new \in FeedState /\ new.state = feed[f].state
      /\ new.queue = Tail(feed[f].queue) /\ new.cap = feed[f].cap
  BY <1>2, <1>3 DEF FeedState
<1>5. feed' = [feed EXCEPT ![f] = new]
  BY <1>1 DEF NodeTypes
<1> HIDE DEF new
<1>6. Len(new.queue) <= new.cap
  BY <1>2, <1>3, <1>4 DEF NodeTypes
<1>7. /\ feed' \in [Feeds -> FeedState]
      /\ \A g \in Feeds : /\ Len(feed'[g].queue) <= feed'[g].cap
                          /\ feed'[g].state = feed[g].state
  BY <1>4, <1>5, <1>6 DEF NodeTypes
<1> QED BY <1>1, <1>7 DEF NodeTypes, SubsOpen, ClosedForGood, registered

LEMMA NodeTypesStep ==
    NodeTypes /\ SubsOpen /\ ClosedForGood /\ [NodeNext]_nodeVars
        => NodeTypes' /\ SubsOpen' /\ ClosedForGood'
<1> SUFFICES ASSUME NodeTypes, SubsOpen, ClosedForGood, [NodeNext]_nodeVars
             PROVE  NodeTypes' /\ SubsOpen' /\ ClosedForGood'
  OBVIOUS
<1> DEFINE Goal == NodeTypes' /\ SubsOpen' /\ ClosedForGood'
<1>1. ASSUME UNCHANGED <<used, running, registry, closed, closing, feed, subs, panicked>>,
             alive' \subseteq alive
      PROVE  Goal
  BY <1>1 DEF NodeTypes, SubsOpen, ClosedForGood, registered
<1>2. ASSUME NEW s \in Session, closeSession(s) \/ ConnectionLost(s)
      PROVE  Goal
  <2>1. /\ UNCHANGED <<used, running, registry, closed, feed, subs, panicked>>
        /\ closing' \subseteq closing /\ alive' \subseteq alive
    BY <1>2 DEF closeSession, ConnectionLost, feedVars
  <2> QED BY <2>1 DEF NodeTypes, SubsOpen, ClosedForGood, registered
<1>3. ASSUME NEW f \in Feeds, SyncerEnds(f) \/ \E s \in Session : RunWhileConnectedEnds(f, s)
      PROVE  Goal
  BY <1>1, <1>3 DEF SyncerEnds, RunWhileConnectedEnds, sessionVars, feedVars
<1>4. ASSUME \/ Cancel \/ StartShutdown \/ StopServers \/ CloseTransport \/ RunReturns
             \/ \E w \in workers : WorkerEnds(w)
      PROVE  Goal
  BY <1>1, <1>4 DEF Cancel, StartShutdown, StopServers, CloseTransport, RunReturns,
       WorkerEnds, sessionVars, feedVars
<1>5. CASE UNCHANGED nodeVars
  BY <1>1, <1>5 DEF nodeVars, sessionVars, feedVars
<1>6. CASE Progress
  <2>1. ASSUME NEW s \in Session, closeSession(s) \/ RunSessionEnds(s)
        PROVE  Goal
    BY <1>2, <2>1, RunSessionEndsTypes
  <2>2. ASSUME NEW f \in Feeds,
               \/ SubscribeNewSessions(f) \/ UnsubscribeOnDone(f)
               \/ TakeSession(f) \/ SyncerEnds(f)
               \/ \E s \in Session : RunWhileConnectedEnds(f, s)
        PROVE  Goal
    BY <1>3, <2>2, SubscribeTypes, UnsubscribeTypes, TakeSessionTypes
  <2>3. CASE CloseRegistry
    BY <2>3, CloseRegistryTypes
  <2> QED BY <1>4, <1>6, <2>1, <2>2, <2>3 DEF Progress
<1>7. ASSUME NEW s \in Session, HandleConnection(s) \/ ConnectionLost(s)
      PROVE  Goal
  BY <1>2, <1>7, HandleConnectionTypes
<1> QED BY <1>4, <1>5, <1>6, <1>7 DEF NodeNext

\* For any number of connections, feeds and slots.
LEMMA NodeInvariants ==
    NodeSpec => [](NodeTypes /\ SubsOpen /\ ClosedForGood)
<1>1. NodeInit => NodeTypes /\ SubsOpen /\ ClosedForGood
  BY NodeTypesInit
<1>2. (NodeTypes /\ SubsOpen /\ ClosedForGood) /\ [NodeNext]_nodeVars
        => (NodeTypes /\ SubsOpen /\ ClosedForGood)'
  BY NodeTypesStep
<1> QED BY <1>1, <1>2, PTL DEF NodeSpec

\* Every registered session has its runSession goroutine, the registry gives a peer
\* none but its own session, and no feed holds more than its channel has room for.
THEOREM NodeTypeCorrect ==
    NodeSpec => []NodeTypeOK
<1>1. NodeTypes => NodeTypeOK
  BY FeedIs DEF NodeTypes, NodeTypeOK
<1> QED BY <1>1, NodeInvariants, PTL

\* The goroutine that waits for the context and Close never close the same channel,
\* and Add never sends to one that is closed, however many feeds there are and
\* wherever the shutdown falls.
THEOREM NoPanicCorrect ==
    NodeSpec => []NoPanic
<1>1. SubsOpen => NoPanic
  BY DEF SubsOpen, NoPanic
<1> QED BY <1>1, NodeInvariants, PTL

\* A connection or a subscriber that comes after Close of the registry finds it closed:
\* from then on it has no session to leave open and no channel to close.
THEOREM ClosedForGoodCorrect ==
    NodeSpec => []ClosedForGood
BY NodeInvariants, PTL

-----------------------------------------------------------------------------
(***************************************************************************)
(* The port rules of a node's own clients, for any number of overlapping   *)
(* admin calls, peers, rules and restarts: what was removed stays removed, *)
(* and what is in force is lost to a removal only.  When admin calls do not *)
(* overlap, a rule in force belongs to its peer.                           *)
(***************************************************************************)

\* The ids that were given out.
Given == {i \in Nat : i < nextRule}

\* AddRule has inserted the row and has yet to return.
Adding == {"AddRule.GetPeerByID", "AddRule.Firewall"}

RemoveAllCall ==
    [at : {"RemoveAll.Firewall", "RemoveAll.Delete"}, peer : PeerID, then : BOOLEAN,
     ids : SUBSET Nat, asked : SUBSET Nat]

\* What the steps of a call rely on, whatever other calls do between them: the id an
\* AddRule holds is not settled yet, and the ids a removal was asked for are settled,
\* so that no AddRule can bring them back.
CallOK(w) ==
    /\ w.at \in Adding => w.id \in Given \ settled
    /\ w.at = "RemoveRule.Firewall" =>
          w.asked \subseteq {w.id} \cap settled /\ w.asked \cap DOMAIN rules = {}
    /\ w.at = "RemoveAll.Firewall" =>
          /\ w \in RemoveAllCall
          /\ w.asked \subseteq settled /\ w.ids \subseteq Given
          /\ w.asked \cap DOMAIN firewall \subseteq w.ids
          /\ \A i \in (w.asked \cup w.ids) \cap DOMAIN rules : rules[i].peer = w.peer
    /\ w.at = "RemoveAll.Delete" =>
          /\ w \in RemoveAllCall
          /\ w.asked \subseteq settled
          /\ w.asked \cap DOMAIN firewall = {}
          /\ \A i \in w.asked \cap DOMAIN rules : rules[i].peer = w.peer

ManagerInv ==
    /\ nextRule \in Nat
    /\ DOMAIN rules \subseteq Given
    /\ settled \subseteq Given
    /\ removed \subseteq settled
    /\ call = [c \in Callers |-> call[c]]
    /\ \A c \in Callers : CallOK(call[c])
    /\ \A c, d \in Callers :
          call[c].at \in Adding /\ call[d].at \in Adding /\ call[c].id = call[d].id => c = d
    /\ RemovedStaysRemoved
-----------------------------------------------------------------------------
\* No call begins a step with anything to rely on.
LEMMA ManagerInvInit == ManagerInit => ManagerInv
<1> SUFFICES ASSUME ManagerInit PROVE ManagerInv
  OBVIOUS
<1>1. \A c \in Callers : call[c] = [at |-> "None"]
  BY DEF ManagerInit, None
<1>2. \A c \in Callers : call[c].at = "None"
  BY <1>1
<1>3. DOMAIN rules = {} /\ DOMAIN firewall = {}
  BY DEF ManagerInit
<1>4. \A c \in Callers : CallOK(call[c])
  BY <1>2 DEF CallOK, Adding
<1>5. call = [c \in Callers |-> call[c]]
  BY DEF ManagerInit
<1>6. nextRule \in Nat /\ settled = {} /\ removed = {}
  BY DEF ManagerInit
<1> QED BY <1>2, <1>3, <1>4, <1>5, <1>6 DEF ManagerInv, Adding, RemovedStaysRemoved

\* What a step of one call may do to the state another call relies on: rows are only
\* deleted or inserted under a new id, and the firewall takes no settled id.
Compatible ==
    /\ Given \subseteq Given'
    /\ settled \subseteq settled'
    /\ \A i \in DOMAIN rules' :
          (i \in DOMAIN rules /\ rules'[i] = rules[i]) \/ i \notin Given
    /\ \A i \in DOMAIN firewall' : i \in DOMAIN firewall \/ i \notin settled

\* A call that does not move keeps what it relies on.
LEMMA OthersOK ==
    ASSUME ManagerInv, Compatible, NEW d \in Callers, call'[d] = call[d],
           call[d].at \in Adding => call[d].id \notin settled'
    PROVE  CallOK(call[d])'
<1> DEFINE w == call[d]
<1>0. CallOK(w) /\ settled \subseteq Given
  BY DEF ManagerInv
<1>1. w.at \in Adding => w.id \in Given' \ settled'
  BY <1>0 DEF CallOK, Compatible
<1>2. w.at = "RemoveRule.Firewall" =>
         w.asked \subseteq {w.id} \cap settled' /\ w.asked \cap DOMAIN rules' = {}
  BY <1>0 DEF CallOK, Compatible
<1>3. w.at = "RemoveAll.Firewall" =>
          /\ w \in RemoveAllCall
          /\ w.asked \subseteq settled' /\ w.ids \subseteq Given'
          /\ w.asked \cap DOMAIN firewall' \subseteq w.ids
          /\ \A i \in (w.asked \cup w.ids) \cap DOMAIN rules' : rules'[i].peer = w.peer
  BY <1>0 DEF CallOK, Compatible
<1>4. w.at = "RemoveAll.Delete" =>
          /\ w \in RemoveAllCall
          /\ w.asked \subseteq settled'
          /\ w.asked \cap DOMAIN firewall' = {}
          /\ \A i \in w.asked \cap DOMAIN rules' : rules'[i].peer = w.peer
  BY <1>0 DEF CallOK, Compatible
<1> HIDE DEF w
<1>5. call'[d] = w
  BY DEF w
<1> QED BY <1>1, <1>2, <1>3, <1>4, <1>5 DEF CallOK

\* A step of call c keeps the invariant if it keeps what c relies on.
LEMMA StepOK ==
    ASSUME ManagerInv, NEW c \in Callers, NEW next,
           call' = [call EXCEPT ![c] = next], CallOK(call[c])',
           Compatible, nextRule' \in Nat,
           DOMAIN rules' \subseteq Given', settled' \subseteq Given', removed' \subseteq settled',
           \A d \in Callers \ {c} : call[d].at \in Adding => call[d].id \notin settled',
           next.at \in Adding =>
              \A d \in Callers \ {c} : call[d].at \in Adding => call[d].id # next.id,
           RemovedStaysRemoved'
    PROVE  ManagerInv'
<1>1. call'[c] = next /\ \A d \in Callers \ {c} : call'[d] = call[d]
  BY DEF ManagerInv
<1>2. call' = [d \in Callers |-> call'[d]]
  BY DEF ManagerInv
<1>3. \A d \in Callers : CallOK(call[d])'
  BY <1>1, OthersOK
<1>4. \A d, e \in Callers :
         call'[d].at \in Adding /\ call'[e].at \in Adding /\ call'[d].id = call'[e].id => d = e
  BY <1>1 DEF ManagerInv
<1> QED BY <1>2, <1>3, <1>4 DEF ManagerInv
\* A call that has nothing to rely on.
LEMMA NothingToRelyOn ==
    ASSUME NEW c \in Callers,
           call'[c].at \notin Adding \cup {"RemoveRule.Firewall", "RemoveAll.Firewall", "RemoveAll.Delete"}
    PROVE  CallOK(call[c])'
BY DEF CallOK

\* AddRule: its id is new, and is settled only once the firewall has been asked.
LEMMA AddRuleKeepsInv ==
    ASSUME ManagerInv, NEW c \in Callers, AddRule(c)
    PROVE  ManagerInv'
<1>0. /\ nextRule \in Nat /\ DOMAIN rules \subseteq Given
      /\ settled \subseteq Given /\ removed \subseteq settled
      /\ call = [d \in Callers |-> call[d]]
  BY DEF ManagerInv
<1>1. ASSUME NEW p \in PeerID, NEW r \in Rule, InsertPeerRule(c, p, r) PROVE ManagerInv'
  <2> DEFINE next == [at |-> "AddRule.GetPeerByID", id |-> nextRule, peer |-> p, rule |-> r]
  <2>1. /\ call' = [call EXCEPT ![c] = next]
        /\ rules' = Put(rules, nextRule, [peer |-> p, rule |-> r])
        /\ nextRule' = nextRule + 1
        /\ UNCHANGED <<firewall, settled, removed>>
    BY <1>1 DEF InsertPeerRule, Continue
  <2>2. next.at = "AddRule.GetPeerByID" /\ next.id = nextRule
    OBVIOUS
  <2> HIDE DEF next
  <2>3. call'[c] = next
    BY <1>0, <2>1
  <2>4. nextRule \notin Given /\ nextRule \in Given' /\ Given \subseteq Given' /\ nextRule' \in Nat
    BY <1>0, <2>1 DEF Given
  <2>5. /\ DOMAIN rules' = DOMAIN rules \cup {nextRule}
        /\ \A i \in DOMAIN rules \ {nextRule} : rules'[i] = rules[i]
    BY <2>1 DEF Put
  <2>6. Compatible
    BY <1>0, <2>1, <2>4, <2>5 DEF Compatible
  <2>7. CallOK(call[c])'
    BY <1>0, <2>1, <2>2, <2>3, <2>4 DEF CallOK, Adding
  <2>8. \A d \in Callers : call[d].at \in Adding => call[d].id \in Given \ settled
    BY DEF ManagerInv, CallOK
  <2>9. RemovedStaysRemoved'
    BY <1>0, <2>1, <2>4, <2>5 DEF ManagerInv, RemovedStaysRemoved
  <2>10. /\ DOMAIN rules' \subseteq Given' /\ settled' \subseteq Given'
         /\ removed' \subseteq settled'
    BY <1>0, <2>1, <2>4, <2>5
  <2> QED BY <2>1, <2>2, <2>4, <2>6, <2>7, <2>8, <2>9, <2>10, StepOK
<1>2. ASSUME GetPeerByID(c) PROVE ManagerInv'
  <2>1. /\ UNCHANGED <<rules, nextRule, firewall, settled, removed>>
        /\ call[c].at \in Adding
    BY <1>2 DEF GetPeerByID, dbVars, Adding
  <2>2. PICK next : /\ call' = [call EXCEPT ![c] = next]
                    /\ next.at \in {"None", "AddRule.Firewall"}
                    /\ next.at \in Adding => next.id = call[c].id
    <3>1. CASE call[c].peer \in DOMAIN peers
      <4> DEFINE e == [Address |-> peers[call[c].peer], rule |-> call[c].rule, peer |-> call[c].peer]
      <4>1. call' = [call EXCEPT ![c] = [at |-> "AddRule.Firewall", id |-> call[c].id, entry |-> e]]
        BY <1>2, <3>1 DEF GetPeerByID, Continue
      <4> HIDE DEF e
      <4> DEFINE w == [at |-> "AddRule.Firewall", id |-> call[c].id, entry |-> e]
      <4>2. w.at = "AddRule.Firewall" /\ w.id = call[c].id
        OBVIOUS
      <4>3. call' = [call EXCEPT ![c] = w]
        BY <4>1
      <4> HIDE DEF w
      <4> QED BY <4>2, <4>3
    <3>2. CASE call[c].peer \notin DOMAIN peers
      <4>1. call' = [call EXCEPT ![c] = [at |-> "None"]]
        BY <1>2, <3>2 DEF GetPeerByID, Return, Continue, None
      <4>2. [at |-> "None"].at = "None"
        OBVIOUS
      <4> QED BY <4>1, <4>2 DEF Adding
    <3> QED BY <3>1, <3>2
  <2>3. call'[c] = next
    BY <1>0, <2>2
  <2>4. \A d \in Callers : call[d].at \in Adding => call[d].id \in Given \ settled
    BY DEF ManagerInv, CallOK
  <2>5. CallOK(call[c])'
    BY <2>1, <2>2, <2>3, <2>4 DEF CallOK, Given
  <2>6. Compatible
    BY <2>1 DEF Compatible, Given
  <2>7. RemovedStaysRemoved' /\ Given' = Given
    BY <2>1 DEF ManagerInv, RemovedStaysRemoved, Given
  <2>8. next.at \in Adding =>
           \A d \in Callers \ {c} : call[d].at \in Adding => call[d].id # next.id
    BY <2>1, <2>2 DEF ManagerInv
  <2> QED BY <1>0, <2>1, <2>2, <2>4, <2>5, <2>6, <2>7, <2>8, StepOK
<1>3. ASSUME FirewallAddRule(c) PROVE ManagerInv'
  <2> DEFINE id == call[c].id
  <2>1. /\ UNCHANGED <<rules, nextRule, removed>>
        /\ call[c].at \in Adding
        /\ settled' = settled \cup {id}
        /\ call' = [call EXCEPT ![c] = None]
    BY <1>3 DEF FirewallAddRule, dbVars, Adding, Return, Continue
  <2>2. DOMAIN firewall' \subseteq DOMAIN firewall \cup {id}
    BY <1>3 DEF FirewallAddRule, Put
  <2>3. \A d \in Callers : call[d].at \in Adding => call[d].id \in Given \ settled
    BY DEF ManagerInv, CallOK
  <2>4. id \in Given \ settled
    BY <2>1, <2>3
  <2>5. \A d \in Callers \ {c} : call[d].at \in Adding => call[d].id \notin settled'
    BY <2>1, <2>3 DEF ManagerInv
  <2> HIDE DEF id
  <2>6. Given' = Given
    BY <2>1 DEF Given
  <2>7. Compatible
    BY <2>1, <2>2, <2>4, <2>6 DEF Compatible
  <2>8. call'[c] = None /\ None.at = "None"
    BY <1>0, <2>1 DEF None
  <2>9. CallOK(call[c])' /\ None.at \notin Adding
    BY <2>8, NothingToRelyOn DEF Adding
  <2>10. RemovedStaysRemoved'
    BY <1>0, <2>1, <2>2, <2>4 DEF ManagerInv, RemovedStaysRemoved
  <2> QED BY <1>0, <2>1, <2>4, <2>5, <2>6, <2>7, <2>9, <2>10, StepOK
<1> QED BY <1>1, <1>2, <1>3 DEF AddRule
\* A removal deletes rows of rules and entries of firewall, and settles nothing.
LEMMA RemovalStep ==
    ASSUME ManagerInv, NEW c \in Callers, NEW next,
           call' = [call EXCEPT ![c] = next], CallOK(call[c])', next.at \notin Adding,
           UNCHANGED <<nextRule, settled>>,
           DOMAIN rules' \subseteq DOMAIN rules, \A i \in DOMAIN rules' : rules'[i] = rules[i],
           DOMAIN firewall' \subseteq DOMAIN firewall,
           removed' \subseteq settled,
           removed' \cap (DOMAIN firewall' \cup DOMAIN rules') = {}
    PROVE  ManagerInv'
<1>0. /\ nextRule \in Nat /\ DOMAIN rules \subseteq Given /\ settled \subseteq Given
      /\ \A d \in Callers : call[d].at \in Adding => call[d].id \notin settled
  BY DEF ManagerInv, CallOK
<1>1. Given' = Given
  BY DEF Given
<1>2. Compatible
  BY <1>1 DEF Compatible
<1>3. RemovedStaysRemoved'
  BY DEF RemovedStaysRemoved
<1>4. /\ DOMAIN rules' \subseteq Given' /\ settled' \subseteq Given'
      /\ removed' \subseteq settled' /\ nextRule' \in Nat
  BY <1>0, <1>1
<1>5. \A d \in Callers \ {c} : call[d].at \in Adding => call[d].id \notin settled'
  BY <1>0
<1> QED BY <1>2, <1>3, <1>4, <1>5, StepOK

\* RemoveRule deletes the row before the entry.
LEMMA RemoveRuleKeepsInv ==
    ASSUME ManagerInv, NEW c \in Callers, RemoveRule(c)
    PROVE  ManagerInv'
<1>0. /\ call = [d \in Callers |-> call[d]] /\ removed \subseteq settled
      /\ removed \cap (DOMAIN firewall \cup DOMAIN rules) = {}
  BY DEF ManagerInv, RemovedStaysRemoved
<1>1. ASSUME NEW i \in RuleID, DeletePeerRule(c, i) PROVE ManagerInv'
  <2> DEFINE next == [at |-> "RemoveRule.Firewall", id |-> i, asked |-> {i} \cap settled]
  <2>1. /\ call' = [call EXCEPT ![c] = next]
        /\ rules' = Drop(rules, {i})
        /\ UNCHANGED <<nextRule, firewall, settled, removed>>
    BY <1>1 DEF DeletePeerRule, Continue
  <2>2. next.at = "RemoveRule.Firewall" /\ next.id = i /\ next.asked = {i} \cap settled
    OBVIOUS
  <2> HIDE DEF next
  <2>3. call'[c] = next
    BY <1>0, <2>1
  <2>4. /\ DOMAIN rules' = DOMAIN rules \ {i}
        /\ \A j \in DOMAIN rules' : rules'[j] = rules[j]
    BY <2>1 DEF Drop
  <2>5. CallOK(call[c])' /\ next.at \notin Adding
    BY <2>1, <2>2, <2>3, <2>4 DEF CallOK, Adding
  <2> QED BY <1>0, <2>1, <2>4, <2>5, RemovalStep
<1>2. ASSUME FirewallRemoveRule(c) PROVE ManagerInv'
  <2>1. /\ call' = [call EXCEPT ![c] = None]
        /\ call[c].at = "RemoveRule.Firewall"
        /\ firewall' = Drop(firewall, {call[c].id})
        /\ removed' = removed \cup call[c].asked
        /\ UNCHANGED <<rules, nextRule, settled>>
    BY <1>2 DEF FirewallRemoveRule, Return, Continue, dbVars
  <2>2. call'[c] = None /\ None.at = "None"
    BY <1>0, <2>1 DEF None
  <2>3. CallOK(call[c])' /\ None.at \notin Adding
    BY <2>2, NothingToRelyOn DEF Adding
  <2>4. DOMAIN firewall' = DOMAIN firewall \ {call[c].id}
    BY <2>1 DEF Drop
  <2>5. /\ call[c].asked \subseteq {call[c].id} \cap settled
        /\ call[c].asked \cap DOMAIN rules = {}
    BY <2>1 DEF ManagerInv, CallOK
  <2>6. /\ removed' \subseteq settled
        /\ removed' \cap (DOMAIN firewall' \cup DOMAIN rules') = {}
    BY <1>0, <2>1, <2>4, <2>5
  <2> QED BY <2>1, <2>3, <2>4, <2>6, RemovalStep
<1> QED BY <1>1, <1>2 DEF RemoveRule

\* RemoveAllPeerRules deletes the entries before the rows.
LEMMA RemoveAllKeepsInv ==
    ASSUME ManagerInv, NEW c \in Callers, RemoveAllPeerRules(c)
    PROVE  ManagerInv'
<1>0. /\ call = [d \in Callers |-> call[d]] /\ removed \subseteq settled
      /\ removed \cap (DOMAIN firewall \cup DOMAIN rules) = {}
      /\ settled \subseteq Given /\ DOMAIN rules \subseteq Given
  BY DEF ManagerInv, RemovedStaysRemoved
<1>1. ASSUME NEW p \in PeerID, NEW then \in BOOLEAN, LoadRulesByPeerID(c, p, then)
      PROVE  ManagerInv'
  <2> DEFINE S == rulesOf(p)
  <2> DEFINE next == [at |-> "RemoveAll.Firewall", peer |-> p, then |-> then,
                      ids |-> S, asked |-> S \cap settled]
  <2>1. /\ call' = [call EXCEPT ![c] = next]
        /\ UNCHANGED <<rules, nextRule, firewall, settled, removed>>
    BY <1>1 DEF LoadRulesByPeerID, Continue, dbVars
  <2>2. /\ S \subseteq DOMAIN rules /\ \A i \in S : rules[i].peer = p
        /\ S \subseteq Nat /\ S \subseteq Given
    BY <1>0 DEF rulesOf, Given
  <2> HIDE DEF S
  <2>3. /\ next.at = "RemoveAll.Firewall" /\ next.peer = p
        /\ next.ids = S /\ next.asked = S \cap settled
    OBVIOUS
  <2>4. next \in RemoveAllCall
    BY <2>2 DEF RemoveAllCall
  <2> HIDE DEF next
  <2>5. call'[c] = next
    BY <1>0, <2>1
  <2>6. CallOK(call[c])' /\ next.at \notin Adding
    BY <2>1, <2>2, <2>3, <2>4, <2>5 DEF CallOK, Adding, Given
  <2> QED BY <1>0, <2>1, <2>6, RemovalStep
<1>2. ASSUME RemoveAllFirewall(c) PROVE ManagerInv'
  <2> DEFINE w == call[c]
  <2>1. PICK i \in w.ids :
           /\ firewall' = Drop(firewall, {i})
           /\ call' = [call EXCEPT ![c] = [w EXCEPT !.ids = @ \ {i}]]
    BY <1>2 DEF RemoveAllFirewall, Continue
  <2>2. UNCHANGED <<rules, nextRule, settled, removed>> /\ w.at = "RemoveAll.Firewall"
    BY <1>2 DEF RemoveAllFirewall, dbVars
  <2>3. /\ w \in RemoveAllCall
        /\ w.asked \subseteq settled /\ w.ids \subseteq Given
        /\ w.asked \cap DOMAIN firewall \subseteq w.ids
        /\ \A j \in (w.asked \cup w.ids) \cap DOMAIN rules : rules[j].peer = w.peer
    BY <2>2 DEF ManagerInv, CallOK
  <2> HIDE DEF w
  <2> DEFINE next == [w EXCEPT !.ids = @ \ {i}]
  <2>4. /\ next \in RemoveAllCall /\ next.at = w.at /\ next.peer = w.peer
        /\ next.ids = w.ids \ {i} /\ next.asked = w.asked
    BY <2>3 DEF RemoveAllCall
  <2> HIDE DEF next
  <2>5. call' = [call EXCEPT ![c] = next] /\ call'[c] = next
    BY <1>0, <2>1 DEF next
  <2>6. DOMAIN firewall' = DOMAIN firewall \ {i}
    BY <2>1 DEF Drop
  <2>7. CallOK(call[c])' /\ next.at \notin Adding
    BY <2>2, <2>3, <2>4, <2>5, <2>6 DEF CallOK, Adding, Given
  <2> QED BY <1>0, <2>2, <2>5, <2>6, <2>7, RemovalStep
<1>3. ASSUME RemoveAllLooped(c) PROVE ManagerInv'
  <2> DEFINE w == call[c]
  <2> DEFINE next == [w EXCEPT !.at = "RemoveAll.Delete"]
  <2>1. /\ call' = [call EXCEPT ![c] = next]
        /\ UNCHANGED <<rules, nextRule, firewall, settled, removed>>
        /\ w.at = "RemoveAll.Firewall" /\ w.ids = {}
    BY <1>3 DEF RemoveAllLooped, Continue, dbVars
  <2>2. /\ w \in RemoveAllCall
        /\ w.asked \subseteq settled
        /\ w.asked \cap DOMAIN firewall \subseteq w.ids
        /\ \A j \in (w.asked \cup w.ids) \cap DOMAIN rules : rules[j].peer = w.peer
    BY <2>1 DEF ManagerInv, CallOK
  <2> HIDE DEF w
  <2>3. /\ next \in RemoveAllCall /\ next.at = "RemoveAll.Delete" /\ next.peer = w.peer
        /\ next.asked = w.asked
    BY <2>2 DEF RemoveAllCall
  <2> HIDE DEF next
  <2>4. call'[c] = next
    BY <1>0, <2>1
  <2>5. CallOK(call[c])' /\ next.at \notin Adding
    BY <2>1, <2>2, <2>3, <2>4 DEF CallOK, Adding
  <2> QED BY <1>0, <2>1, <2>5, RemovalStep
<1>4. ASSUME DeleteAllPeerRules(c) PROVE ManagerInv'
  <2> DEFINE w == call[c]
  <2>1. /\ w.at = "RemoveAll.Delete"
        /\ rules' = Drop(rules, rulesOf(w.peer))
        /\ removed' = removed \cup w.asked
        /\ UNCHANGED <<nextRule, firewall, settled>>
    BY <1>4 DEF DeleteAllPeerRules
  <2>2. /\ w \in RemoveAllCall
        /\ w.asked \subseteq settled
        /\ w.asked \cap DOMAIN firewall = {}
        /\ \A j \in w.asked \cap DOMAIN rules : rules[j].peer = w.peer
    BY <2>1 DEF ManagerInv, CallOK
  <2>3. PICK next : /\ call' = [call EXCEPT ![c] = next]
                    /\ next.at \in {"None", "DeletePeer.Delete"}
    <3>1. [w EXCEPT !.at = "DeletePeer.Delete"].at = "DeletePeer.Delete"
      BY <2>2 DEF RemoveAllCall
    <3>2. None.at = "None"
      BY DEF None
    <3>3. \/ call' = [call EXCEPT ![c] = [w EXCEPT !.at = "DeletePeer.Delete"]]
          \/ call' = [call EXCEPT ![c] = None]
      BY <1>4 DEF DeleteAllPeerRules, Continue
    <3> QED BY <3>1, <3>2, <3>3
  <2> HIDE DEF w
  <2>4. call'[c] = next
    BY <1>0, <2>3
  <2>5. CallOK(call[c])' /\ next.at \notin Adding
    BY <2>3, <2>4, NothingToRelyOn DEF Adding
  <2>6. /\ DOMAIN rules' = DOMAIN rules \ rulesOf(w.peer)
        /\ \A j \in DOMAIN rules' : rules'[j] = rules[j]
    BY <2>1 DEF Drop
  <2>7. w.asked \cap DOMAIN rules' = {}
    BY <2>2, <2>6 DEF rulesOf
  <2>8. /\ removed' \subseteq settled
        /\ removed' \cap (DOMAIN firewall' \cup DOMAIN rules') = {}
    BY <1>0, <2>1, <2>2, <2>6, <2>7
  <2> QED BY <2>1, <2>3, <2>5, <2>6, <2>8, RemovalStep
<1> QED BY <1>1, <1>2, <1>3, <1>4 DEF RemoveAllPeerRules
\* Every step keeps the invariant.
LEMMA ManagerInvNext == ManagerInv /\ [ManagerNext]_vars => ManagerInv'
<1> SUFFICES ASSUME ManagerInv, [ManagerNext]_vars PROVE ManagerInv'
  OBVIOUS
<1>0. /\ call = [d \in Callers |-> call[d]] /\ removed \subseteq settled
      /\ removed \cap (DOMAIN firewall \cup DOMAIN rules) = {}
  BY DEF ManagerInv, RemovedStaysRemoved
<1>1. ASSUME NEW c \in Callers, DeletePeer(c) \/ Cancelled(c) PROVE ManagerInv'
  <2>1. /\ call' = [call EXCEPT ![c] = None]
        /\ UNCHANGED <<rules, nextRule, firewall, settled, removed>>
    BY <1>1 DEF DeletePeer, Cancelled, Return, Continue, dbVars
  <2>2. call'[c] = None /\ None.at = "None"
    BY <1>0, <2>1 DEF None
  <2>3. CallOK(call[c])' /\ None.at \notin Adding
    BY <2>2, NothingToRelyOn DEF Adding
  <2> QED BY <1>0, <2>1, <2>3, RemovalStep
<1>2. ASSUME UNCHANGED <<rules, nextRule, firewall, call, settled, removed>> PROVE ManagerInv'
  BY <1>2 DEF ManagerInv, CallOK, Given, RemovedStaysRemoved
<1>3. ASSUME Restart PROVE ManagerInv'
  <2>1. /\ call' = [c \in Callers |-> None]
        /\ UNCHANGED <<rules, nextRule, settled, removed>>
        /\ firewall' = LoadAllRules
    BY <1>3 DEF Restart, dbVars
  <2>2. \A c \in Callers : call'[c].at = "None"
    BY <2>1 DEF None
  <2>3. \A c \in Callers : CallOK(call[c])'
    BY <2>2, NothingToRelyOn DEF Adding
  <2>4. DOMAIN firewall' \subseteq DOMAIN rules
    BY <2>1 DEF LoadAllRules
  <2>5. RemovedStaysRemoved'
    BY <1>0, <2>1, <2>4 DEF RemovedStaysRemoved
  <2>6. call' = [c \in Callers |-> call'[c]]
    BY <2>1
  <2> QED BY <2>1, <2>2, <2>3, <2>5, <2>6 DEF ManagerInv, Given, Adding
<1> QED BY <1>1, <1>2, <1>3, AddRuleKeepsInv, RemoveRuleKeepsInv, RemoveAllKeepsInv
        DEF ManagerNext, CreatePeerAutoID, vars, dbVars

\* The invariant holds in every state.
THEOREM ManagerInvariant == ManagerSpec => []ManagerInv
BY ManagerInvInit, ManagerInvNext, PTL DEF ManagerSpec

\* A rule whose removal has returned without an error is neither in the firewall nor
\* in a row that Run would load, whatever calls overlap and fail half-way and however
\* often the process restarts.
THEOREM RemovedForGood == ManagerSpec => []RemovedStaysRemoved
<1>1. ManagerInv => RemovedStaysRemoved
  BY DEF ManagerInv
<1> QED BY <1>1, ManagerInvariant, PTL

\* An entry of the firewall goes with the removal of its rule, or with a restart that
\* finds no row and peer for it.
LEMMA EntryStep ==
    ASSUME ManagerInv, [ManagerNext]_vars,
           NEW i \in DOMAIN firewall \cap DOMAIN rules',
           rules'[i].peer \in DOMAIN peers', ~beingRemoved(i)
    PROVE  i \in DOMAIN firewall'
<1>1. ASSUME NEW c \in Callers, FirewallRemoveRule(c) PROVE i \in DOMAIN firewall'
  <2>1. i # call[c].id
    BY <1>1 DEF FirewallRemoveRule, beingRemoved
  <2> QED BY <1>1, <2>1 DEF FirewallRemoveRule, Drop
<1>2. ASSUME NEW c \in Callers, RemoveAllFirewall(c) PROVE i \in DOMAIN firewall'
  <2>1. PICK j \in call[c].ids : firewall' = Drop(firewall, {j})
    BY <1>2 DEF RemoveAllFirewall
  <2>2. rules' = rules /\ call[c].at = "RemoveAll.Firewall"
    BY <1>2 DEF RemoveAllFirewall, dbVars
  <2>3. \A k \in call[c].ids \cap DOMAIN rules : rules[k].peer = call[c].peer
    BY <2>2 DEF ManagerInv, CallOK
  <2>4. i # j
    BY <2>1, <2>2, <2>3 DEF beingRemoved
  <2> QED BY <2>1, <2>4 DEF Drop
<1>3. ASSUME NEW c \in Callers, AddRule(c) PROVE i \in DOMAIN firewall'
  BY <1>3 DEF AddRule, InsertPeerRule, GetPeerByID, FirewallAddRule, Put
<1>4. ASSUME Restart PROVE i \in DOMAIN firewall'
  BY <1>4 DEF Restart, LoadAllRules, dbVars
<1>5. ASSUME firewall' = firewall PROVE i \in DOMAIN firewall'
  BY <1>5
<1>6. ASSUME NEW c \in Callers, RemoveRule(c) PROVE i \in DOMAIN firewall'
  BY <1>1, <1>5, <1>6 DEF RemoveRule, DeletePeerRule
<1>7. ASSUME NEW c \in Callers, RemoveAllPeerRules(c) PROVE i \in DOMAIN firewall'
  BY <1>2, <1>5, <1>7 DEF RemoveAllPeerRules, LoadRulesByPeerID, RemoveAllLooped,
                         DeleteAllPeerRules
<1>8. ASSUME NEW c \in Callers, DeletePeer(c) \/ Cancelled(c) PROVE i \in DOMAIN firewall'
  BY <1>5, <1>8 DEF DeletePeer, Cancelled
<1> QED BY <1>3, <1>4, <1>5, <1>6, <1>7, <1>8 DEF ManagerNext, CreatePeerAutoID, vars

\* A rule in force stays in force, also over a restart, as long as it has a row, its
\* peer exists and no call is removing it.
THEOREM InForceUntilRemoved == ManagerSpec => RuleStaysInForce
<1> DEFINE Stays == \A i \in DOMAIN firewall \cap DOMAIN rules' :
          rules'[i].peer \in DOMAIN peers' /\ ~beingRemoved(i) /\ ~beingRemoved(i)'
             => i \in DOMAIN firewall'
<1>1. ManagerInv /\ [ManagerNext]_vars => [Stays]_vars
  BY EntryStep
<1> QED BY <1>1, ManagerInvariant, PTL DEF ManagerSpec, RuleStaysInForce
-----------------------------------------------------------------------------
(* One admin call at a time.                                               *)

OneCaller == \A c, d \in Callers : c = d

\* The rule has a row of the peer it was made for, under the address of that peer.
HasItsPeer(i) ==
    LET p == firewall[i].peer IN
    i \in rulesOf(p) /\ p \in DOMAIN peers /\ firewall[i].Address = peers[p]

\* What a call relies on when no other call comes between its steps.
SerialOK(w) ==
    /\ w.at = "AddRule.GetPeerByID" => w.id \in rulesOf(w.peer)
    /\ w.at = "AddRule.Firewall" =>
          /\ w.id \in rulesOf(w.entry.peer)
          /\ w.entry.peer \in DOMAIN peers /\ w.entry.Address = peers[w.entry.peer]
    /\ w.at = "RemoveAll.Firewall" =>
          \A i \in DOMAIN firewall : firewall[i].peer = w.peer => i \in w.ids
    /\ w.at \in {"RemoveAll.Delete", "DeletePeer.Delete"} =>
          \A i \in DOMAIN firewall : firewall[i].peer # w.peer

\* An address is given to one peer at a time.
AddressesInv ==
    /\ nextPeer \in Nat
    /\ \A p \in DOMAIN peers : p \in Nat /\ p < nextPeer /\ peers[p] \in Nat /\ peers[p] < nextPeer
    /\ \A p, q \in DOMAIN peers : peers[p] = peers[q] => p = q

\* Only the removal of its row, under way in RemoveRule, leaves a rule in the firewall
\* without one.
SerialInv ==
    /\ \A c \in Callers : SerialOK(call[c])
    /\ \A i \in DOMAIN firewall :
          \/ \E c \in Callers : call[c].at = "RemoveRule.Firewall" /\ call[c].id = i
          \/ HasItsPeer(i)

\* A non-empty set of numbers below a bound has a greatest one, and Max gives it.
LEMMA MaxIs ==
    ASSUME NEW S \in SUBSET Nat, NEW b \in Nat, S # {}, \A x \in S : x < b
    PROVE  Max(S) \in S /\ \A x \in S : x <= Max(S)
<1> DEFINE B == {n \in Nat : \A x \in S : x <= n}
<1>1. B \subseteq Nat /\ B # {}
  <2>1. b \in B
    OBVIOUS
  <2> QED BY <2>1
<1> DEFINE R == OpToRel(<, Nat)
<1>2. IsWellFoundedOn(R, Nat)
  BY NatLessThanWellFounded
<1>3. \A n, m \in Nat : n < m => <<n, m>> \in R
  BY DEF OpToRel
<1>4. PICK m \in B : \A n \in B : m <= n
  <2> HIDE DEF B, R
  <2>1. PICK m \in B : \A n \in B : ~ (<<n, m>> \in R)
    BY <1>1, <1>2, WFMin
  <2>2. \A n \in B : m \in Nat /\ n \in Nat /\ ~ (n < m)
    BY <1>1, <1>3, <2>1
  <2> QED BY <2>2
<1>5. m \in S
  <2>1. SUFFICES ASSUME m \notin S PROVE FALSE
    OBVIOUS
  <2>2. \A x \in S : x <= m - 1
    BY <2>1
  <2>3. m - 1 \in B
    <3>1. PICK x \in S : TRUE
      OBVIOUS
    <3>2. m - 1 \in Nat
      BY <2>2, <3>1
    <3> QED BY <2>2, <3>2
  <2> QED BY <1>4, <2>3
<1>6. \E x \in S : \A y \in S : x >= y
  BY <1>5
<1> QED BY <1>6 DEF Max

\* One peer with the first address.
LEMMA AddressesInit == ManagerInit => AddressesInv
BY DEF ManagerInit, AddressesInv

\* A new peer takes the address after the highest in use, and no other step gives one.
LEMMA AddressesNext == AddressesInv /\ [ManagerNext]_vars => AddressesInv'
<1> SUFFICES ASSUME AddressesInv, [ManagerNext]_vars PROVE AddressesInv'
  OBVIOUS
<1>1. ASSUME CreatePeerAutoID PROVE AddressesInv'
  <2> DEFINE S == {peers[p] : p \in DOMAIN peers}
             a == IF DOMAIN peers = {} THEN 1 ELSE Max(S) + 1
  <2>1. peers' = Put(peers, nextPeer, a) /\ nextPeer' = nextPeer + 1 /\ nextPeer \in Nat \ {0}
    BY <1>1 DEF CreatePeerAutoID, PeerID
  <2>2. a \in Nat /\ a < nextPeer + 1 /\ \A p \in DOMAIN peers : peers[p] < a
    <3>1. CASE DOMAIN peers = {}
      BY <2>1, <3>1
    <3>2. CASE DOMAIN peers # {}
      <4>0. \A p \in DOMAIN peers : peers[p] \in Nat /\ peers[p] < nextPeer
        BY DEF AddressesInv
      <4>1. S \in SUBSET Nat /\ S # {} /\ \A x \in S : x < nextPeer
        BY <3>2, <4>0
      <4> DEFINE m == Max(S)
      <4>2. m \in S /\ \A x \in S : x <= m
        BY <2>1, <4>1, MaxIs
      <4>3. a = m + 1 /\ \A p \in DOMAIN peers : peers[p] \in S
        BY <3>2
      <4> HIDE DEF a, m, S
      <4>4. m \in Nat /\ m < nextPeer /\ \A p \in DOMAIN peers : peers[p] \in Nat /\ peers[p] <= m
        BY <4>1, <4>2, <4>3
      <4> QED BY <2>1, <4>3, <4>4
    <3> QED BY <3>1, <3>2
  <2> HIDE DEF a, S
  <2>3. /\ DOMAIN peers' = DOMAIN peers \cup {nextPeer} /\ peers'[nextPeer] = a
        /\ \A p \in DOMAIN peers \ {nextPeer} : peers'[p] = peers[p]
    BY <2>1 DEF Put
  <2>4. nextPeer \notin DOMAIN peers
    BY <2>1 DEF AddressesInv
  <2> QED BY <2>1, <2>2, <2>3, <2>4 DEF AddressesInv
<1>2. ASSUME nextPeer' = nextPeer, DOMAIN peers' \subseteq DOMAIN peers,
             \A p \in DOMAIN peers' : peers'[p] = peers[p]
      PROVE  AddressesInv'
  BY <1>2 DEF AddressesInv
<1>3. ASSUME NEW c \in Callers, DeletePeer(c) PROVE AddressesInv'
  BY <1>2, <1>3 DEF DeletePeer, Drop
<1>4. ASSUME UNCHANGED <<peers, nextPeer>> PROVE AddressesInv'
  BY <1>2, <1>4
<1> QED BY <1>1, <1>3, <1>4
        DEF ManagerNext, AddRule, InsertPeerRule, GetPeerByID, FirewallAddRule, RemoveRule,
            DeletePeerRule, FirewallRemoveRule, RemoveAllPeerRules, LoadRulesByPeerID,
            RemoveAllFirewall, RemoveAllLooped, DeleteAllPeerRules, Cancelled, Restart, vars, dbVars

\* A rule keeps its peer if its entry, its row and its peer's row stay as they are.
LEMMA KeepsItsPeer ==
    ASSUME NEW i, HasItsPeer(i), firewall'[i] = firewall[i],
           i \in DOMAIN rules', rules'[i] = rules[i],
           firewall[i].peer \in DOMAIN peers', peers'[firewall[i].peer] = peers[firewall[i].peer]
    PROVE  HasItsPeer(i)'
BY DEF HasItsPeer, rulesOf

\* The one call there is, when it moves.
LEMMA SerialStep ==
    ASSUME ManagerInv, OneCaller, NEW c \in Callers, NEW next, call' = [call EXCEPT ![c] = next],
           SerialOK(call[c])',
           \A i \in DOMAIN firewall' :
              \/ next.at = "RemoveRule.Firewall" /\ next.id = i
              \/ HasItsPeer(i)'
    PROVE  SerialInv'
<1>1. call'[c] = next
  BY DEF ManagerInv
<1>2. \A d \in Callers : SerialOK(call[d])'
  BY DEF OneCaller
<1> QED BY <1>1, <1>2 DEF SerialInv

\* What it has before.
LEMMA SerialBefore ==
    ASSUME SerialInv, OneCaller, NEW c \in Callers
    PROVE  /\ SerialOK(call[c])
           /\ call[c].at # "RemoveRule.Firewall" => \A i \in DOMAIN firewall : HasItsPeer(i)
           /\ \A i \in DOMAIN firewall : i # call[c].id => HasItsPeer(i)
BY DEF SerialInv, OneCaller

\* A call that has returned.
LEMMA SerialReturned ==
    ASSUME ManagerInv, OneCaller, NEW c \in Callers, call' = [call EXCEPT ![c] = None],
           \A i \in DOMAIN firewall' : HasItsPeer(i)'
    PROVE  SerialInv'
<1>1. call'[c] = None /\ None.at = "None"
  BY DEF ManagerInv, None
<1>2. SerialOK(call[c])'
  BY <1>1 DEF SerialOK
<1> QED BY <1>2, SerialStep

\* AddRule: the row it has inserted is still there, and so is the peer it has read.
LEMMA AddRuleKeepsSerial ==
    ASSUME ManagerInv, AddressesInv, SerialInv, OneCaller, NEW c \in Callers, AddRule(c)
    PROVE  SerialInv'
<1> DEFINE w == call[c]
<1>0. call = [d \in Callers |-> call[d]] /\ nextRule \notin DOMAIN rules
  BY DEF ManagerInv, Given
<1>1. ASSUME NEW p \in PeerID, NEW r \in Rule, InsertPeerRule(c, p, r) PROVE SerialInv'
  <2>0. call[c] = None
    BY <1>1 DEF InsertPeerRule, idle
  <2>3. call[c].at # "RemoveRule.Firewall"
    BY <2>0 DEF None
  <2> DEFINE next == [at |-> "AddRule.GetPeerByID", id |-> nextRule, peer |-> p, rule |-> r]
             row == [peer |-> p, rule |-> r]
  <2>1. /\ call' = [call EXCEPT ![c] = next] /\ rules' = Put(rules, nextRule, row)
        /\ UNCHANGED <<peers, firewall>>
    BY <1>1 DEF InsertPeerRule, Continue
  <2>2. next.at = "AddRule.GetPeerByID" /\ next.id = nextRule /\ next.peer = p /\ row.peer = p
    OBVIOUS
  <2> HIDE DEF next, row
  <2>4. /\ DOMAIN rules' = DOMAIN rules \cup {nextRule} /\ rules'[nextRule] = row
        /\ \A i \in DOMAIN rules : rules'[i] = rules[i]
    BY <1>0, <2>1 DEF Put
  <2>5. call'[c] = next
    BY <1>0, <2>1
  <2>6. SerialOK(call[c])'
    BY <2>2, <2>4, <2>5 DEF SerialOK, rulesOf
  <2>7. \A i \in DOMAIN firewall' : HasItsPeer(i)'
    <3>1. \A i \in DOMAIN firewall : HasItsPeer(i)
      BY <2>3, SerialBefore
    <3> QED BY <2>1, <2>4, <3>1, KeepsItsPeer DEF HasItsPeer, rulesOf
  <2> QED BY <2>1, <2>6, <2>7, SerialStep
<1>2. ASSUME GetPeerByID(c) PROVE SerialInv'
  <2>1. UNCHANGED <<peers, rules, firewall>> /\ w.at = "AddRule.GetPeerByID"
    BY <1>2 DEF GetPeerByID, dbVars
  <2>2. w.id \in rulesOf(w.peer) /\ \A i \in DOMAIN firewall : HasItsPeer(i)
    BY <2>1, SerialBefore DEF SerialOK
  <2>3. \A i \in DOMAIN firewall' : HasItsPeer(i)'
    BY <2>1, <2>2 DEF HasItsPeer, rulesOf
  <2>4. CASE w.peer \in DOMAIN peers
    <3> DEFINE e == [Address |-> peers[w.peer], rule |-> w.rule, peer |-> w.peer]
    <3>1. e.Address = peers[w.peer] /\ e.peer = w.peer
      OBVIOUS
    <3>2. call' = [call EXCEPT ![c] = [at |-> "AddRule.Firewall", id |-> w.id, entry |-> e]]
      BY <1>2, <2>4 DEF GetPeerByID, Continue
    <3> HIDE DEF e, w
    <3> DEFINE next == [at |-> "AddRule.Firewall", id |-> w.id, entry |-> e]
    <3>3. next.at = "AddRule.Firewall" /\ next.id = w.id /\ next.entry = e
      OBVIOUS
    <3>4. call' = [call EXCEPT ![c] = next] /\ call'[c] = next
      BY <1>0, <3>2
    <3> HIDE DEF next
    <3>5. SerialOK(call[c])'
      BY <2>1, <2>2, <2>4, <3>1, <3>3, <3>4 DEF SerialOK, rulesOf
    <3> QED BY <2>3, <3>4, <3>5, SerialStep
  <2>5. CASE w.peer \notin DOMAIN peers
    <3>1. call' = [call EXCEPT ![c] = None]
      BY <1>2, <2>5 DEF GetPeerByID, Return, Continue
    <3> QED BY <2>3, <3>1, SerialReturned
  <2> QED BY <2>4, <2>5
<1>3. ASSUME FirewallAddRule(c) PROVE SerialInv'
  <2>1. /\ UNCHANGED <<peers, rules>> /\ w.at = "AddRule.Firewall"
        /\ call' = [call EXCEPT ![c] = None]
        /\ firewall' = IF w.id \in DOMAIN firewall THEN firewall ELSE Put(firewall, w.id, w.entry)
    BY <1>3 DEF FirewallAddRule, dbVars, Return, Continue
  <2>2. /\ w.id \in rulesOf(w.entry.peer)
        /\ w.entry.peer \in DOMAIN peers /\ w.entry.Address = peers[w.entry.peer]
        /\ \A i \in DOMAIN firewall : HasItsPeer(i)
    BY <2>1, SerialBefore DEF SerialOK
  <2> HIDE DEF w
  <2>3. \A i \in DOMAIN firewall' :
           \/ i \in DOMAIN firewall /\ firewall'[i] = firewall[i]
           \/ i = w.id /\ firewall'[i] = w.entry
    <3>1. CASE w.id \in DOMAIN firewall
      BY <2>1, <3>1
    <3>2. CASE w.id \notin DOMAIN firewall
      <4>1. firewall' = Put(firewall, w.id, w.entry)
        BY <2>1, <3>2
      <4> QED BY <4>1 DEF Put
    <3> QED BY <3>1, <3>2
  <2>4. ASSUME NEW i \in DOMAIN firewall' PROVE HasItsPeer(i)'
    <3>1. CASE i \in DOMAIN firewall /\ firewall'[i] = firewall[i]
      BY <2>1, <2>2, <3>1, KeepsItsPeer DEF HasItsPeer, rulesOf
    <3>2. CASE i = w.id /\ firewall'[i] = w.entry
      BY <2>1, <2>2, <3>2 DEF HasItsPeer, rulesOf
    <3> QED BY <2>3, <3>1, <3>2
  <2> QED BY <2>1, <2>4, SerialReturned
<1> QED BY <1>1, <1>2, <1>3 DEF AddRule

\* RemoveRule: the row goes before the entry, and no other call sees the state between.
LEMMA RemoveRuleKeepsSerial ==
    ASSUME ManagerInv, SerialInv, OneCaller, NEW c \in Callers, RemoveRule(c)
    PROVE  SerialInv'
<1>0. call = [d \in Callers |-> call[d]]
  BY DEF ManagerInv
<1>1. ASSUME NEW i \in RuleID, DeletePeerRule(c, i) PROVE SerialInv'
  <2>0. call[c] = None
    BY <1>1 DEF DeletePeerRule, idle
  <2>3. call[c].at # "RemoveRule.Firewall"
    BY <2>0 DEF None
  <2> DEFINE next == [at |-> "RemoveRule.Firewall", id |-> i, asked |-> {i} \cap settled]
  <2>1. /\ call' = [call EXCEPT ![c] = next] /\ rules' = Drop(rules, {i})
        /\ UNCHANGED <<peers, firewall>>
    BY <1>1 DEF DeletePeerRule, Continue
  <2>2. next.at = "RemoveRule.Firewall" /\ next.id = i
    OBVIOUS
  <2> HIDE DEF next
  <2>4. call'[c] = next
    BY <1>0, <2>1
  <2>5. SerialOK(call[c])'
    BY <2>2, <2>4 DEF SerialOK
  <2>6. \A j \in DOMAIN rules \ {i} : j \in DOMAIN rules' /\ rules'[j] = rules[j]
    BY <2>1 DEF Drop
  <2>7. ASSUME NEW j \in DOMAIN firewall', j # i PROVE HasItsPeer(j)'
    <3>1. HasItsPeer(j)
      BY <2>1, <2>3, SerialBefore
    <3> QED BY <2>1, <2>6, <2>7, <3>1, KeepsItsPeer DEF HasItsPeer, rulesOf
  <2> QED BY <2>1, <2>2, <2>5, <2>7, SerialStep
<1>2. ASSUME FirewallRemoveRule(c) PROVE SerialInv'
  <2>1. /\ UNCHANGED <<peers, rules>> /\ call' = [call EXCEPT ![c] = None]
        /\ firewall' = Drop(firewall, {call[c].id})
    BY <1>2 DEF FirewallRemoveRule, dbVars, Return, Continue
  <2>2. \A i \in DOMAIN firewall' : i \in DOMAIN firewall /\ i # call[c].id /\ firewall'[i] = firewall[i]
    BY <2>1 DEF Drop
  <2>3. ASSUME NEW i \in DOMAIN firewall' PROVE HasItsPeer(i)'
    <3>1. HasItsPeer(i)
      BY <2>2, SerialBefore
    <3> QED BY <2>1, <2>2, <3>1, KeepsItsPeer DEF HasItsPeer, rulesOf
  <2> QED BY <2>1, <2>3, SerialReturned
<1> QED BY <1>1, <1>2 DEF RemoveRule

\* RemoveAllPeerRules and DeletePeer: the rows that were loaded are all the rows of the
\* peer, so once the loop is over the firewall has no rule of the peer.
LEMMA RemoveAllKeepsSerial ==
    ASSUME ManagerInv, SerialInv, OneCaller, NEW c \in Callers,
           RemoveAllPeerRules(c) \/ DeletePeer(c)
    PROVE  SerialInv'
<1> DEFINE w == call[c]
<1>0. call = [d \in Callers |-> call[d]]
  BY DEF ManagerInv
<1>1. ASSUME NEW p \in PeerID, NEW then \in BOOLEAN, LoadRulesByPeerID(c, p, then)
      PROVE  SerialInv'
  <2>0. call[c] = None
    BY <1>1 DEF LoadRulesByPeerID, idle
  <2>2. call[c].at # "RemoveRule.Firewall"
    BY <2>0 DEF None
  <2> DEFINE S == rulesOf(p)
  <2> DEFINE next == [at |-> "RemoveAll.Firewall", peer |-> p, then |-> then,
                      ids |-> S, asked |-> S \cap settled]
  <2>1. /\ call' = [call EXCEPT ![c] = next]
        /\ UNCHANGED <<peers, rules, firewall>>
    BY <1>1 DEF LoadRulesByPeerID, Continue, dbVars
  <2>3. \A i \in DOMAIN firewall : HasItsPeer(i)
    BY <2>2, SerialBefore
  <2>4. \A i \in DOMAIN firewall : firewall[i].peer = p => i \in S
    BY <2>3 DEF HasItsPeer
  <2> HIDE DEF S
  <2>5. next.at = "RemoveAll.Firewall" /\ next.peer = p /\ next.ids = S
    OBVIOUS
  <2> HIDE DEF next
  <2>6. call'[c] = next
    BY <1>0, <2>1
  <2>7. SerialOK(call[c])'
    BY <2>1, <2>4, <2>5, <2>6 DEF SerialOK
  <2>8. \A i \in DOMAIN firewall' : HasItsPeer(i)'
    BY <2>1, <2>3 DEF HasItsPeer, rulesOf
  <2> QED BY <2>1, <2>7, <2>8, SerialStep
<1>2. ASSUME RemoveAllFirewall(c) PROVE SerialInv'
  <2>1. PICK i \in w.ids :
           /\ firewall' = Drop(firewall, {i})
           /\ call' = [call EXCEPT ![c] = [w EXCEPT !.ids = @ \ {i}]]
    BY <1>2 DEF RemoveAllFirewall, Continue
  <2>2. UNCHANGED <<peers, rules>> /\ w.at = "RemoveAll.Firewall"
    BY <1>2 DEF RemoveAllFirewall, dbVars
  <2>3. /\ \A j \in DOMAIN firewall : firewall[j].peer = w.peer => j \in w.ids
        /\ \A j \in DOMAIN firewall : HasItsPeer(j)
    BY <2>2, SerialBefore DEF SerialOK
  <2>4. w \in RemoveAllCall
    BY <2>2 DEF ManagerInv, CallOK
  <2> HIDE DEF w
  <2> DEFINE next == [w EXCEPT !.ids = @ \ {i}]
  <2>5. next.at = w.at /\ next.peer = w.peer /\ next.ids = w.ids \ {i}
    BY <2>4 DEF RemoveAllCall
  <2> HIDE DEF next
  <2>6. call' = [call EXCEPT ![c] = next] /\ call'[c] = next
    BY <1>0, <2>1 DEF next
  <2>7. \A j \in DOMAIN firewall' : j \in DOMAIN firewall \ {i} /\ firewall'[j] = firewall[j]
    BY <2>1 DEF Drop
  <2>8. SerialOK(call[c])'
    BY <2>2, <2>3, <2>5, <2>6, <2>7 DEF SerialOK
  <2>9. \A j \in DOMAIN firewall' : HasItsPeer(j)'
    BY <2>2, <2>3, <2>7, KeepsItsPeer DEF HasItsPeer, rulesOf
  <2> QED BY <2>6, <2>8, <2>9, SerialStep
<1>3. ASSUME RemoveAllLooped(c) PROVE SerialInv'
  <2> DEFINE next == [w EXCEPT !.at = "RemoveAll.Delete"]
  <2>1. /\ call' = [call EXCEPT ![c] = next] /\ UNCHANGED <<peers, rules, firewall>>
        /\ w.at = "RemoveAll.Firewall" /\ w.ids = {}
    BY <1>3 DEF RemoveAllLooped, Continue, dbVars
  <2>2. /\ \A i \in DOMAIN firewall : firewall[i].peer = w.peer => i \in w.ids
        /\ \A i \in DOMAIN firewall : HasItsPeer(i)
    BY <2>1, SerialBefore DEF SerialOK
  <2>3. w \in RemoveAllCall
    BY <2>1 DEF ManagerInv, CallOK
  <2> HIDE DEF w
  <2>4. next.at = "RemoveAll.Delete" /\ next.peer = w.peer
    BY <2>3 DEF RemoveAllCall
  <2> HIDE DEF next
  <2>5. call'[c] = next
    BY <1>0, <2>1
  <2>6. SerialOK(call[c])'
    BY <2>1, <2>2, <2>4, <2>5 DEF SerialOK
  <2>7. \A i \in DOMAIN firewall' : HasItsPeer(i)'
    BY <2>1, <2>2 DEF HasItsPeer, rulesOf
  <2> QED BY <2>1, <2>6, <2>7, SerialStep
<1>4. ASSUME DeleteAllPeerRules(c) PROVE SerialInv'
  <2>1. /\ w.at = "RemoveAll.Delete" /\ rules' = Drop(rules, rulesOf(w.peer))
        /\ UNCHANGED <<peers, firewall>>
    BY <1>4 DEF DeleteAllPeerRules
  <2>2. /\ \A i \in DOMAIN firewall : firewall[i].peer # w.peer
        /\ \A i \in DOMAIN firewall : HasItsPeer(i)
    BY <2>1, SerialBefore DEF SerialOK
  <2>3. w \in RemoveAllCall
    BY <2>1 DEF ManagerInv, CallOK
  <2>4. \/ call' = [call EXCEPT ![c] = [w EXCEPT !.at = "DeletePeer.Delete"]]
        \/ call' = [call EXCEPT ![c] = None]
    BY <1>4 DEF DeleteAllPeerRules, Continue
  <2> HIDE DEF w
  <2>5. \A i \in DOMAIN rules \ rulesOf(w.peer) : i \in DOMAIN rules' /\ rules'[i] = rules[i]
    BY <2>1 DEF Drop
  <2>6. ASSUME NEW i \in DOMAIN firewall' PROVE HasItsPeer(i)'
    <3>1. HasItsPeer(i) /\ firewall[i].peer # w.peer
      BY <2>1, <2>2
    <3>2. i \in DOMAIN rules \ rulesOf(w.peer)
      BY <3>1 DEF HasItsPeer, rulesOf
    <3> QED BY <2>1, <2>5, <3>1, <3>2, KeepsItsPeer DEF HasItsPeer
  <2>7. CASE call' = [call EXCEPT ![c] = [w EXCEPT !.at = "DeletePeer.Delete"]]
    <3> DEFINE next == [w EXCEPT !.at = "DeletePeer.Delete"]
    <3>1. next.at = "DeletePeer.Delete" /\ next.peer = w.peer
      BY <2>3 DEF RemoveAllCall
    <3> HIDE DEF next
    <3>2. call' = [call EXCEPT ![c] = next] /\ call'[c] = next
      BY <1>0, <2>7 DEF next
    <3>3. SerialOK(call[c])'
      BY <2>1, <2>2, <3>1, <3>2 DEF SerialOK
    <3> QED BY <2>6, <3>2, <3>3, SerialStep
  <2> QED BY <2>4, <2>6, <2>7, SerialReturned
<1>5. ASSUME DeletePeer(c) PROVE SerialInv'
  <2>1. /\ w.at = "DeletePeer.Delete" /\ peers' = Drop(peers, {w.peer})
        /\ UNCHANGED <<rules, firewall>> /\ call' = [call EXCEPT ![c] = None]
    BY <1>5 DEF DeletePeer, Return, Continue
  <2>2. /\ \A i \in DOMAIN firewall : firewall[i].peer # w.peer
        /\ \A i \in DOMAIN firewall : HasItsPeer(i)
    BY <2>1, SerialBefore DEF SerialOK
  <2> HIDE DEF w
  <2>3. \A p \in DOMAIN peers \ {w.peer} : p \in DOMAIN peers' /\ peers'[p] = peers[p]
    BY <2>1 DEF Drop
  <2>4. ASSUME NEW i \in DOMAIN firewall' PROVE HasItsPeer(i)'
    <3>1. HasItsPeer(i) /\ firewall[i].peer # w.peer
      BY <2>1, <2>2
    <3> QED BY <2>1, <2>3, <3>1, KeepsItsPeer DEF HasItsPeer, rulesOf
  <2> QED BY <2>1, <2>4, SerialReturned
<1> QED BY <1>1, <1>2, <1>3, <1>4, <1>5 DEF RemoveAllPeerRules

\* No rule and no call.
LEMMA SerialInit == ManagerInit => SerialInv
<1> SUFFICES ASSUME ManagerInit PROVE SerialInv
  OBVIOUS
<1>1. \A c \in Callers : call[c] = [at |-> "None"]
  BY DEF ManagerInit, None
<1>2. \A c \in Callers : call[c].at = "None"
  BY <1>1
<1>3. DOMAIN firewall = {}
  BY DEF ManagerInit
<1> QED BY <1>2, <1>3 DEF SerialInv, SerialOK

\* Every step keeps it.
LEMMA SerialNext ==
    ASSUME OneCaller
    PROVE  ManagerInv /\ AddressesInv /\ SerialInv /\ [ManagerNext]_vars => SerialInv'
<1> SUFFICES ASSUME ManagerInv, AddressesInv, SerialInv, [ManagerNext]_vars PROVE SerialInv'
  OBVIOUS
<1>1. ASSUME NEW c \in Callers, Cancelled(c) PROVE SerialInv'
  <2>1. /\ UNCHANGED <<peers, rules, firewall>> /\ call' = [call EXCEPT ![c] = None]
        /\ call[c].at # "RemoveRule.Firewall"
    BY <1>1 DEF Cancelled, Return, Continue, dbVars
  <2>2. \A i \in DOMAIN firewall : HasItsPeer(i)
    BY <2>1, SerialBefore
  <2>3. \A i \in DOMAIN firewall' : HasItsPeer(i)'
    BY <2>1, <2>2 DEF HasItsPeer, rulesOf
  <2> QED BY <2>1, <2>3, SerialReturned
<1>2. ASSUME CreatePeerAutoID PROVE SerialInv'
  <2>1. PICK a : peers' = Put(peers, nextPeer, a)
    BY <1>2 DEF CreatePeerAutoID
  <2>2. UNCHANGED <<rules, firewall, call>>
    BY <1>2 DEF CreatePeerAutoID
  <2>3. \A p \in DOMAIN peers : p \in DOMAIN peers' /\ peers'[p] = peers[p]
    <3>1. nextPeer \notin DOMAIN peers
      BY DEF AddressesInv
    <3> QED BY <2>1, <3>1 DEF Put
  <2>4. \A i : HasItsPeer(i) => HasItsPeer(i)'
    BY <2>2, <2>3 DEF HasItsPeer, rulesOf
  <2>5. \A c \in Callers : SerialOK(call[c])'
    BY <2>2, <2>3 DEF SerialInv, SerialOK, rulesOf
  <2> QED BY <2>2, <2>4, <2>5 DEF SerialInv
<1>3. ASSUME Restart PROVE SerialInv'
  <2>1. call' = [c \in Callers |-> None] /\ UNCHANGED <<peers, rules>> /\ firewall' = LoadAllRules
    BY <1>3 DEF Restart, dbVars
  <2>2. \A c \in Callers : call'[c] = None
    BY <2>1
  <2>3. None.at = "None"
    BY DEF None
  <2>4. \A c \in Callers : SerialOK(call[c])'
    BY <2>2, <2>3 DEF SerialOK
  <2>5. ASSUME NEW i \in DOMAIN firewall' PROVE HasItsPeer(i)'
    <3> DEFINE p == rules[i].peer
               e == [Address |-> peers[p], rule |-> rules[i].rule, peer |-> p]
    <3>1. i \in DOMAIN rules /\ p \in DOMAIN peers /\ firewall'[i] = e
      BY <2>1, <2>5 DEF LoadAllRules
    <3>2. e.peer = p /\ e.Address = peers[p]
      OBVIOUS
    <3> HIDE DEF e
    <3> QED BY <2>1, <3>1, <3>2 DEF HasItsPeer, rulesOf
  <2> QED BY <2>4, <2>5 DEF SerialInv
<1>4. ASSUME UNCHANGED vars PROVE SerialInv'
  BY <1>4 DEF vars, dbVars, SerialInv, SerialOK, HasItsPeer, rulesOf
<1> QED BY <1>1, <1>2, <1>3, <1>4, AddRuleKeepsSerial, RemoveRuleKeepsSerial, RemoveAllKeepsSerial
        DEF ManagerNext

\* While admin calls do not overlap, every rule in force has its row, and the peer it was
\* made for has the address it is in force for; only a removal under way is ahead of the
\* firewall.  Peers are created and the process restarts at any time.
THEOREM SerialRulesHavePeers ==
    ASSUME OneCaller
    PROVE  ManagerSpec => []RuleOfItsPeer
<1>1. SerialInv => RuleOfItsPeer
  BY DEF SerialInv, RuleOfItsPeer, HasItsPeer, beingRemoved
<1>2. ManagerSpec => []AddressesInv
  BY AddressesInit, AddressesNext, PTL DEF ManagerSpec
<1> QED BY <1>1, <1>2, SerialInit, SerialNext, ManagerInvariant, PTL DEF ManagerSpec

\* While admin calls do not overlap, no rule is in force for a peer that has the address
\* of an earlier one.  With overlapping calls ManagerInherit.cfg shows how one is.
THEOREM SerialRulesNotInherited ==
    ASSUME OneCaller
    PROVE  ManagerSpec => []NoInheritedRule
<1>1. ASSUME AddressesInv, SerialInv PROVE NoInheritedRule
  <2> SUFFICES ASSUME \A c \in Callers : idle(c), NEW i \in DOMAIN firewall, NEW p \in DOMAIN peers,
                      firewall[i].Address = peers[p]
               PROVE  firewall[i].peer = p
    BY DEF NoInheritedRule
  <2>1. \A c \in Callers : call[c] = [at |-> "None"]
    BY DEF idle, None
  <2>2. \A c \in Callers : call[c].at # "RemoveRule.Firewall"
    BY <2>1
  <2>3. HasItsPeer(i)
    BY <1>1, <2>2 DEF SerialInv
  <2> QED BY <1>1, <2>3 DEF HasItsPeer, AddressesInv
<1>2. ManagerSpec => []AddressesInv
  BY AddressesInit, AddressesNext, PTL DEF ManagerSpec
<1> QED BY <1>1, <1>2, SerialInit, SerialNext, ManagerInvariant, PTL DEF ManagerSpec
=============================================================================
