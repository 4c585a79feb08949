------------------------------ MODULE MeshNode ------------------------------
(***************************************************************************)
(* The life of a mesh node (mesh/node.go): its workers, the session        *)
(* registry with the feeds of new sessions (session/registry.go), the      *)
(* streams that RunWhileConnected keeps open for every session, and        *)
(* shutdown.                                                               *)
(*                                                                         *)
(* Which of two connections to a peer survives is SessionPair's subject;   *)
(* here Add may accept or refuse a second one.                             *)
(***************************************************************************)
EXTENDS Naturals, Sequences, FiniteSets, Functions

CONSTANTS
    Session,     \* connections the node may get, each used once
    peerOf,      \* [Session -> peer ids]
    NoSession,
    Feeds,       \* subscribers of new sessions: the syncers of discovery and peerssync
    FeedRoom     \* slots of a feed beyond the sessions it starts with (100)

Peer == {peerOf[s] : s \in Session}

ASSUME NodeAssumption ==
    /\ peerOf \in [Session -> Peer]
    /\ NoSession \notin Session
    /\ FeedRoom \in Nat \ {0}

VARIABLES
    used,       \* sessions whose connection has come up
    alive,      \* sessions whose connection context is not cancelled
    running,    \* sessions with a runSession goroutine
    registry,   \* [Peer -> Session or NoSession], r.sessions
    closed,     \* r.closed
    closing,    \* sessions about to be passed to closeSession
    feed,       \* [Feeds -> [state, queue, cap, missed]], the subscribers' channels; missed, the
                \* sessions a full channel has dropped, is kept for the properties alone
    subs,       \* the feeds in r.subs
    streams,    \* [Feeds -> SUBSET Session], RunWhileConnected goroutines
    ctxDone,    \* n.ctx is cancelled
    shutdown,   \* progress of the body of closeOnce
    workers,    \* goroutines of Run's wait group; the senders end like the accept loop
    returned,   \* Run has returned
    panicked    \* a channel was closed twice, or sent to after its close

sessionVars == <<used, alive, running, registry, closed, closing>>
feedVars == <<feed, subs>>
lifeVars == <<ctxDone, shutdown, workers, returned>>
nodeVars == <<sessionVars, feedVars, streams, lifeVars, panicked>>

registered == {registry[p] : p \in Peer} \ {NoSession}

NodeInit ==
    /\ used = {} /\ alive = {} /\ running = {} /\ closing = {}
    /\ registry = [p \in Peer |-> NoSession]
    /\ closed = FALSE
    /\ feed = [f \in Feeds |-> [state |-> "none", queue |-> <<>>, cap |-> 0, missed |-> {}]]
    /\ subs = {}
    /\ streams = [f \in Feeds |-> {}]
    /\ ctxDone = FALSE
    /\ shutdown = "no"
    /\ workers = Feeds \cup {"serve", "accept"}
    /\ returned = FALSE
    /\ panicked = FALSE

-----------------------------------------------------------------------------
(* The registry.  Every operation holds r.mu.                              *)

\* A send to a closed channel, or a second close of one, ends the process.
closedFeed(fs) == \E f \in fs : feed[f].state = "closed"

\* Add, when it accepts the session: the feeds that have room get it, the
\* session it replaces is closed after the lock is released.
Add(s) ==
    LET p == peerOf[s] IN
    /\ ~closed
    /\ registry' = [registry EXCEPT ![p] = s]
    /\ closing' = closing \cup ({registry[p]} \ {NoSession})
    /\ feed' = [f \in Feeds |->
          IF f \notin subs THEN feed[f]
          ELSE IF Len(feed[f].queue) < feed[f].cap THEN [feed[f] EXCEPT !.queue = Append(@, s)]
          ELSE [feed[f] EXCEPT !.missed = @ \cup {s}]]
    /\ panicked' = (panicked \/ closedFeed(subs))
    /\ running' = running \cup {s}

\* Mutant: a refused connection is not closed.
HandleConnectionLeaks(s) ==
    /\ s \notin used
    /\ used' = used \cup {s}
    /\ alive' = alive \cup {s}
    /\ \/ Add(s)
       \/ /\ closed \/ registry[peerOf[s]] \in alive
          /\ UNCHANGED <<running, registry, closing, feed, panicked>>
    /\ UNCHANGED <<closed, subs, streams, lifeVars>>

\* HandleConnection for an accepted or a dialled connection.
HandleConnection(s) ==
    /\ s \notin used
    /\ used' = used \cup {s}
    /\ \/ /\ Add(s)
          /\ alive' = alive \cup {s}
       \/ /\ closed \/ registry[peerOf[s]] \in alive
          /\ UNCHANGED <<alive, running, registry, closing, feed, panicked>>
    /\ UNCHANGED <<closed, subs, streams, lifeVars>>

closeSession(s) ==
    /\ s \in closing
    /\ closing' = closing \ {s}
    /\ alive' = alive \ {s}
    /\ UNCHANGED <<used, running, registry, closed, feedVars, streams, lifeVars, panicked>>

ConnectionLost(s) ==
    /\ s \in alive
    /\ alive' = alive \ {s}
    /\ UNCHANGED <<used, running, registry, closed, closing, feedVars, streams, lifeVars, panicked>>

\* Mutant: runSession ends without registry.Remove.
RunSessionEndsKeepsEntry(s) ==
    /\ s \in running
    /\ s \notin alive \/ ctxDone
    /\ running' = running \ {s}
    /\ UNCHANGED <<used, alive, registry, closing, closed, feedVars, streams, lifeVars, panicked>>

\* The loops of runSession end with the connection or the node's context;
\* registry.Remove takes the session away if it is still the peer's current one.
RunSessionEnds(s) ==
    /\ s \in running
    /\ s \notin alive \/ ctxDone
    /\ running' = running \ {s}
    /\ IF registry[peerOf[s]] = s
       THEN /\ registry' = [registry EXCEPT ![peerOf[s]] = NoSession]
            /\ closing' = closing \cup {s}
       ELSE UNCHANGED <<registry, closing>>
    /\ UNCHANGED <<used, alive, closed, feedVars, streams, lifeVars, panicked>>

\* Mutant: a new feed starts without the sessions there already are.
SubscribeNewSessionsEmpty(f) ==
    /\ f \in workers /\ feed[f].state = "none"
    /\ feed' = [feed EXCEPT ![f].state = IF closed THEN "closed" ELSE "open",
                            ![f].cap = FeedRoom]
    /\ subs' = IF closed THEN subs ELSE subs \cup {f}
    /\ UNCHANGED <<sessionVars, streams, lifeVars, panicked>>

\* A new feed starts with the present sessions, in the order of the map; that of a closed
\* registry is closed at once.
SubscribeNewSessions(f) ==
    /\ f \in workers /\ feed[f].state = "none"
    /\ \/ /\ closed
          /\ feed' = [feed EXCEPT ![f].state = "closed"]
          /\ UNCHANGED subs
       \/ /\ ~closed
          /\ \E q \in Injection(1 .. Cardinality(registered), registered) :
                feed' = [feed EXCEPT ![f] =
                      [state |-> "open", queue |-> q, cap |-> Len(q) + FeedRoom, missed |-> {}]]
          /\ subs' = subs \cup {f}
    /\ UNCHANGED <<sessionVars, streams, lifeVars, panicked>>

\* close(ch) of every feed in fs.
CloseFeeds(fs) ==
    /\ feed' = [f \in Feeds |-> IF f \in fs THEN [feed[f] EXCEPT !.state = "closed"] ELSE feed[f]]
    /\ panicked' = (panicked \/ closedFeed(fs))
    /\ subs' = subs \ fs

\* Mutant: the goroutine closes the channel without looking at r.subs.
UnsubscribeOnDoneAlways(f) ==
    /\ ctxDone /\ feed[f].state # "none" /\ ~panicked
    /\ CloseFeeds({f})
    /\ UNCHANGED <<sessionVars, streams, lifeVars>>

\* The goroutine of SubscribeNewSessions that waits for the context.
UnsubscribeOnDone(f) ==
    /\ ctxDone
    /\ f \in subs
    /\ CloseFeeds({f})
    /\ UNCHANGED <<sessionVars, streams, lifeVars>>

-----------------------------------------------------------------------------
(* The syncers: one RunWhileConnected goroutine for every session that     *)
(* comes through the feed (two in peerssync, which end alike).             *)

TakeSession(f) ==
    /\ f \in workers
    /\ feed[f].queue # <<>>
    /\ feed' = [feed EXCEPT ![f].queue = Tail(@)]
    /\ streams' = [streams EXCEPT ![f] = @ \cup {Head(feed[f].queue)}]
    /\ UNCHANGED <<sessionVars, subs, lifeVars, panicked>>

SyncerEnds(f) ==
    /\ f \in workers
    /\ ctxDone \/ (feed[f].state = "closed" /\ feed[f].queue = <<>>)
    /\ workers' = workers \ {f}
    /\ UNCHANGED <<sessionVars, feedVars, streams, ctxDone, shutdown, returned, panicked>>

RunWhileConnectedEnds(f, s) ==
    /\ s \in streams[f]
    /\ s \notin alive \/ ctxDone
    /\ streams' = [streams EXCEPT ![f] = @ \ {s}]
    /\ UNCHANGED <<sessionVars, feedVars, lifeVars, panicked>>

-----------------------------------------------------------------------------
(* Run, Close and shutdown.                                                *)

\* The context of the application is cancelled.
Cancel ==
    /\ ~ctxDone
    /\ ctxDone' = TRUE
    /\ UNCHANGED <<sessionVars, feedVars, streams, shutdown, workers, returned, panicked>>

\* The first call of shutdown, by Run after the context or by Close at any time,
\* runs the steps; another call waits for it.
StartShutdown ==
    /\ shutdown = "no"
    /\ ctxDone' = TRUE
    /\ shutdown' = "cancelled"
    /\ UNCHANGED <<sessionVars, feedVars, streams, workers, returned, panicked>>

StopServers ==
    /\ shutdown = "cancelled"
    /\ shutdown' = "stopped"
    /\ UNCHANGED <<sessionVars, feedVars, streams, ctxDone, workers, returned, panicked>>

CloseRegistry ==
    /\ shutdown = "stopped"
    /\ shutdown' = "registry closed"
    /\ closed' = TRUE
    /\ closing' = closing \cup registered
    /\ registry' = [p \in Peer |-> NoSession]
    /\ CloseFeeds(subs)
    /\ UNCHANGED <<used, alive, running, streams, ctxDone, workers, returned>>

\* Only the listener is closed; established connections end with their sessions.
CloseTransport ==
    /\ shutdown = "registry closed"
    /\ shutdown' = "done"
    /\ UNCHANGED <<sessionVars, feedVars, streams, ctxDone, workers, returned, panicked>>

WorkerEnds(w) ==
    /\ w \in workers
    /\ \/ w = "serve" /\ shutdown \notin {"no", "cancelled"}
       \/ w = "accept" /\ ctxDone
    /\ workers' = workers \ {w}
    /\ UNCHANGED <<sessionVars, feedVars, streams, ctxDone, shutdown, returned, panicked>>

RunReturns ==
    /\ shutdown = "done"
    /\ workers = {}
    /\ ~returned
    /\ returned' = TRUE
    /\ UNCHANGED <<sessionVars, feedVars, streams, ctxDone, shutdown, workers, panicked>>

\* Goroutines that run by themselves, and the steps of Run after the context.
Progress ==
    \/ \E s \in Session : closeSession(s) \/ RunSessionEnds(s)
    \/ \E f \in Feeds :
          \/ SubscribeNewSessions(f) \/ UnsubscribeOnDone(f)
          \/ TakeSession(f) \/ SyncerEnds(f)
          \/ \E s \in Session : RunWhileConnectedEnds(f, s)
    \/ ctxDone /\ StartShutdown
    \/ StopServers \/ CloseRegistry \/ CloseTransport
    \/ \E w \in workers : WorkerEnds(w)
    \/ RunReturns

NodeNext ==
    \/ \E s \in Session : HandleConnection(s) \/ ConnectionLost(s)
    \/ Cancel
    \/ StartShutdown
    \/ Progress

NodeSpec == NodeInit /\ [][NodeNext]_nodeVars

\* Every goroutine that can go on does, except runSession: its datagram loop may
\* wait in HandleMeshPacket for a shard that is full.  Connections need not come
\* or fail, and nobody has to cancel the context.
FairNodeSpec ==
    /\ NodeSpec
    /\ \A f \in Feeds :
          /\ WF_nodeVars(SubscribeNewSessions(f)) /\ WF_nodeVars(UnsubscribeOnDone(f))
          /\ WF_nodeVars(TakeSession(f)) /\ WF_nodeVars(SyncerEnds(f))
          /\ \A s \in Session : WF_nodeVars(RunWhileConnectedEnds(f, s))
    /\ \A s \in Session : WF_nodeVars(closeSession(s))
    /\ WF_nodeVars(ctxDone /\ StartShutdown) /\ WF_nodeVars(StopServers)
    /\ WF_nodeVars(CloseRegistry) /\ WF_nodeVars(CloseTransport)
    /\ \A w \in {"serve", "accept"} : WF_nodeVars(WorkerEnds(w))
    /\ WF_nodeVars(RunReturns)

-----------------------------------------------------------------------------
(* Properties                                                              *)

\* A channel never holds more than its capacity, and a session that can still be
\* replaced or removed is one runSession looks after.
NodeTypeOK ==
    /\ registered \subseteq running /\ running \subseteq used
    /\ alive \subseteq used /\ closing \subseteq used
    /\ \A p \in Peer : registry[p] # NoSession => peerOf[registry[p]] = p
    /\ \A f \in Feeds : feed[f].state \in {"none", "open", "closed"}
                        /\ Len(feed[f].queue) <= feed[f].cap

\* The feeds are closed once, by the context's goroutine or by Close, whichever
\* comes first, and Add sends to no closed feed.
NoPanic ==
    ~panicked

\* A session that stays up and registered gets its streams from every syncer, also
\* one that came before the syncer subscribed, unless it came when the channel of
\* the syncer was full: Add then drops the notification, and nothing repeats it.
EverySessionStreams ==
    \A f \in Feeds : \A s \in Session :
        s \in (registered \cap alive) \ feed[f].missed
            ~> (s \in streams[f] \/ s \notin registered \cap alive \/ ctxDone)

\* Run "блокирует поток до отмены контекста" and Close "высвобождает все
\* ресурсы": after the context is cancelled Run returns, and no connection and no
\* stream is left, not even of a connection that came up during the shutdown.
ShutdownCompletes ==
    ctxDone ~> (returned /\ alive = {} /\ \A f \in Feeds : streams[f] = {})
=============================================================================
