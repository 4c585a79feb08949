----------------------------- MODULE SessionPair -----------------------------
(***************************************************************************)
(* The session registries of two mesh nodes (pkg/mesh/session) and the     *)
(* connections between them: who dials (discovery/syncer.go), which of two *)
(* connections survives a collision (registry.go), and what a restart of   *)
(* one node does to the other.  A registry treats each peer on its own, so *)
(* a pair of nodes shows everything Add can do.                            *)
(*                                                                         *)
(* Node 1 has the higher id.  A connection has two ends; each end goes     *)
(*    none -> ready -> open -> closed                                      *)
(* where ready is a dialled connection that connect has still to handle,   *)
(* dead a ready end whose context is already cancelled, closed an end      *)
(* whose context is cancelled, and gone an end lost with its process, of   *)
(* which the other side learns by its idle timeout only.                   *)
(*                                                                         *)
(* Time is counted in ticks of one dial timeout (5 s), which is also the   *)
(* period of refreshPeers.                                                 *)
(***************************************************************************)
EXTENDS Naturals, FiniteSets

CONSTANTS
    Conns,         \* connection identities; one is used again once it is dead
    NoConn,        \* "no session", "no dial"
    Records,       \* what the nodes have to dial, a subset of Record
    Window,        \* collisionWindow (10 s) in ticks
    LossyClose,    \* TRUE if the message that closes a connection may be lost
    MaxJoins,      \* bound on JOINED events of the peer stores
    MaxRestarts    \* bound on restarts of either node

Node == {0, 1}
peer(n) == 1 - n

\* A record of node n's peer store that leads to the other node, not older than
\* peerTTL: under its current id, or under an id it no longer has, at an address
\* that is not the remote address of a session (refreshPeers skips those).
Record == [of : Node, id : {"current", "outdated"}]

ASSUME PairAssumption ==
    /\ NoConn \notin Conns
    /\ Records \subseteq Record
    /\ Window \in Nat \ {0, 1}
    /\ LossyClose \in BOOLEAN
    /\ MaxJoins \in Nat /\ MaxRestarts \in Nat

VARIABLES
    end,       \* [Node -> [Conns -> state of this end]]
    from,      \* [Conns -> Node], the node that dialled
    sessions,  \* [Node -> Conns or NoConn], the registry's entry for the peer
    age,       \* [Node -> 0 .. Window], time since AddedAt, cut at Window
    due,       \* [Records -> BOOLEAN], refreshPeers has its 5 s ticker to serve
    wanted,    \* [Records -> Nat], goroutines about to call connect
    dialing,   \* [Records -> Conns or NoConn], the dial that reserves the address
    dialAge,   \* [Records -> {0, 1}], age of that dial; the timeout is 1
    joins,     \* JOINED events so far
    restarts   \* restarts so far

connVars == <<end, from, sessions, age>>
dialVars == <<due, wanted, dialing, dialAge, joins>>
vars == <<connVars, dialVars, restarts>>

EndStates == {"none", "ready", "dead", "open", "closed", "gone"}

PairInit ==
    /\ end = [n \in Node |-> [c \in Conns |-> "none"]]
    /\ from = [c \in Conns |-> 0]
    /\ sessions = [n \in Node |-> NoConn]
    /\ age = [n \in Node |-> 0]
    /\ due = [r \in Records |-> TRUE]
    /\ wanted = [r \in Records |-> 0]
    /\ dialing = [r \in Records |-> NoConn]
    /\ dialAge = [r \in Records |-> 0]
    /\ joins = 0
    /\ restarts = 0

\* conn.IsInitiator() as node n sees it.
IsInitiator(n, c) == from[c] = n

\* No goroutine and no registry of either node uses c any more.
Unused(c) ==
    /\ \A n \in Node : end[n][c] \in {"none", "closed", "gone"}
    /\ \A n \in Node : sessions[n] # c
    /\ \A r \in Records : dialing[r] # c

-----------------------------------------------------------------------------
\* refreshPeers: if the registry has no session under the record's id, a
\* goroutine is started to connect to its address.
refreshPeers(r) ==
    /\ due[r]
    /\ due' = [due EXCEPT ![r] = FALSE]
    /\ wanted' = IF r.id = "current" /\ sessions[r.of] # NoConn THEN wanted
                 ELSE [wanted EXCEPT ![r] = @ + 1]
    /\ UNCHANGED <<connVars, dialing, dialAge, joins, restarts>>

\* listenForNewPeers: the record has just been stored, by gossip or by
\* HandleConnection before it calls Add; only the higher id dials at once (an
\* id the peer no longer has may be lower or higher).
PeerJoined(r) ==
    /\ joins < MaxJoins
    /\ joins' = joins + 1
    /\ r.id = "current" => sessions[r.of] = NoConn /\ r.of > peer(r.of)
    /\ wanted' = [wanted EXCEPT ![r] = @ + 1]
    /\ UNCHANGED <<connVars, due, dialing, dialAge, restarts>>

\* connect, startDial: one dial per address; a second one is dropped.
StartDial(r) ==
    /\ wanted[r] > 0
    /\ wanted' = [wanted EXCEPT ![r] = @ - 1]
    /\ \/ /\ dialing[r] # NoConn
          /\ UNCHANGED <<end, from, dialing, dialAge>>
       \/ /\ dialing[r] = NoConn
          /\ \E c \in Conns :
                /\ Unused(c)
                /\ dialing' = [dialing EXCEPT ![r] = c]
                /\ from' = [from EXCEPT ![c] = r.of]
                /\ end' = [m \in Node |-> [end[m] EXCEPT ![c] = "none"]]
          /\ dialAge' = [dialAge EXCEPT ![r] = 0]
    /\ UNCHANGED <<sessions, age, due, joins, restarts>>

\* transport.Dial is running.
InDial(r) == dialing[r] # NoConn /\ end[r.of][dialing[r]] = "none"

\* transport.Dial returns a connection: the handshake is over on this side.
DialDone(r) ==
    /\ InDial(r)
    /\ end' = [end EXCEPT ![r.of][dialing[r]] = "ready"]
    /\ UNCHANGED <<from, sessions, age, dialVars, restarts>>

\* transport.Dial fails or meets its timeout; finishDial frees the address.
DialFail(r) ==
    /\ InDial(r)
    /\ dialing' = [dialing EXCEPT ![r] = NoConn]
    /\ dialAge' = [dialAge EXCEPT ![r] = 0]
    /\ UNCHANGED <<connVars, due, wanted, joins, restarts>>

-----------------------------------------------------------------------------
\* Mutant: the last connection wins, as a plain map assignment would have it.
AddAcceptsNewest(n, c) == TRUE

\* Mutant: each node keeps the connection it has dialled itself.
AddAcceptsOwn(n, c) ==
    LET old == sessions[n]
    IN  old # NoConn /\ end[n][old] = "open" =>
            IF age[n] < Window THEN ~ IsInitiator(n, old) /\ IsInitiator(n, c)
            ELSE ~ IsInitiator(n, c)

\* Add: may node n take c as its session?  A live session younger than Window
\* is a collision, which the connection dialled by the higher id wins; an older
\* one is kept against our own dial and given up for the peer's.
AddAccepts(n, c) ==
    LET old == sessions[n]
        keepOutbound == n > peer(n)
    IN  old # NoConn /\ end[n][old] = "open" =>
            IF age[n] < Window
            THEN IsInitiator(n, old) # keepOutbound /\ IsInitiator(n, c) = keepOutbound
            ELSE ~ IsInitiator(n, c)

\* Mutant: the session that is replaced is not closed.
HandleConnectionKeepsOld(n, c, lost) ==
    \/ /\ AddAccepts(n, c)
       /\ sessions' = [sessions EXCEPT ![n] = c]
       /\ age' = [age EXCEPT ![n] = 0]
       /\ end' = [end EXCEPT ![n][c] = IF lost THEN "closed" ELSE "open"]
    \/ /\ ~ AddAccepts(n, c)
       /\ end' = [end EXCEPT ![n][c] = "closed"]
       /\ UNCHANGED <<sessions, age>>

\* HandleConnection, Add: the loser of the two is closed.  Add does not look at
\* the state of c itself, so a connection that is already lost is added too.
HandleConnection(n, c, lost) ==
    \/ /\ AddAccepts(n, c)
       /\ sessions' = [sessions EXCEPT ![n] = c]
       /\ age' = [age EXCEPT ![n] = 0]
       /\ end' = [end EXCEPT ![n] = [d \in Conns |->
                     CASE d = c -> IF lost THEN "closed" ELSE "open"
                       [] d = sessions[n] /\ d # c -> "closed"
                       [] OTHER -> end[n][d]]]
    \/ /\ ~ AddAccepts(n, c)
       /\ end' = [end EXCEPT ![n][c] = "closed"]
       /\ UNCHANGED <<sessions, age>>

\* connect goes on with the connection it got, and finishDial frees the address.
Connect(r) ==
    /\ dialing[r] # NoConn
    /\ end[r.of][dialing[r]] \in {"ready", "dead"}
    /\ HandleConnection(r.of, dialing[r], end[r.of][dialing[r]] = "dead")
    /\ dialing' = [dialing EXCEPT ![r] = NoConn]
    /\ dialAge' = [dialAge EXCEPT ![r] = 0]
    /\ UNCHANGED <<from, due, wanted, joins, restarts>>

\* The dialled side has not finished its half of the handshake.
Arriving(c) ==
    /\ end[peer(from[c])][c] = "none"
    /\ end[from[c]][c] \in {"ready", "dead", "open", "closed"}

\* The accept loop of MeshNode.Run: the handshake ends on the dialled side too,
\* which is after the dialler's last message, and HandleConnection follows.  The
\* dialler may have closed the connection by then, and the news may be here.
Accept(c, lost) ==
    /\ Arriving(c)
    /\ lost => end[from[c]][c] = "closed"
    /\ HandleConnection(peer(from[c]), c, lost)
    /\ UNCHANGED <<from, dialVars, restarts>>

\* The dialled side gives the handshake up, a round trip or a timeout after the
\* dialler's side of it, which has been handled by then.
AcceptFail(c) ==
    /\ Arriving(c)
    /\ end[from[c]][c] \in {"open", "closed"}
    /\ end' = [end EXCEPT ![peer(from[c])][c] = "closed"]
    /\ UNCHANGED <<from, sessions, age, dialVars, restarts>>

\* The end of a connection closes because the other end did, or because the
\* other end is gone and the idle timeout has passed.
LoseConnection(n, c) ==
    /\ end[n][c] \in {"ready", "open"}
    /\ end[peer(n)][c] \in {"closed", "gone"}
    /\ end' = [end EXCEPT ![n][c] = IF @ = "ready" THEN "dead" ELSE "closed"]
    /\ UNCHANGED <<from, sessions, age, dialVars, restarts>>

\* runSession: its loops end when the connection does, and the registry entry
\* is removed if it still is this session.
RunSessionEnds(n) ==
    /\ sessions[n] # NoConn
    /\ end[n][sessions[n]] = "closed"
    /\ sessions' = [sessions EXCEPT ![n] = NoConn]
    /\ age' = [age EXCEPT ![n] = 0]
    /\ UNCHANGED <<end, from, dialVars, restarts>>

\* The process of node n ends and starts again.  shutdown closes its sessions;
\* a crash leaves the other side to its idle timeout.
Restart(n, last) ==
    /\ restarts < MaxRestarts
    /\ restarts' = restarts + 1
    /\ end' = [end EXCEPT ![n] = [c \in Conns |->
                  IF @[c] \in {"ready", "dead", "open"} THEN last ELSE @[c]]]
    /\ sessions' = [sessions EXCEPT ![n] = NoConn]
    /\ age' = [age EXCEPT ![n] = 0]
    /\ due' = [r \in Records |-> r.of = n \/ due[r]]
    /\ wanted' = [r \in Records |-> IF r.of = n THEN 0 ELSE wanted[r]]
    /\ dialing' = [r \in Records |-> IF r.of = n THEN NoConn ELSE dialing[r]]
    /\ dialAge' = [r \in Records |-> IF r.of = n THEN 0 ELSE dialAge[r]]
    /\ UNCHANGED <<from, joins>>

\* A tick passes: goroutines that only have to run have run by then, the dialled
\* side has finished or given up its half of a handshake, a dial has met its
\* timeout, and a close that was not lost on the way has arrived.
Tick ==
    /\ \A r \in Records : ~ due[r] /\ wanted[r] = 0 /\ (InDial(r) => dialAge[r] = 0)
    /\ \A n \in Node, c \in Conns : end[n][c] \notin {"ready", "dead"}
    /\ \A c \in Conns : ~ Arriving(c)
    /\ \A n \in Node : sessions[n] # NoConn => end[n][sessions[n]] = "open"
    /\ \/ LossyClose
       \/ \A n \in Node, c \in Conns : end[n][c] = "open" => end[peer(n)][c] # "closed"
    /\ age' = [n \in Node |->
                  IF sessions[n] = NoConn \/ age[n] = Window THEN age[n] ELSE age[n] + 1]
    /\ dialAge' = [r \in Records |-> IF dialing[r] = NoConn THEN 0 ELSE 1]
    /\ due' = [r \in Records |-> TRUE]
    /\ UNCHANGED <<end, from, sessions, wanted, dialing, joins, restarts>>

PairNext ==
    \/ \E r \in Records :
          \/ refreshPeers(r) \/ PeerJoined(r)
          \/ StartDial(r) \/ DialDone(r) \/ DialFail(r) \/ Connect(r)
    \/ \E c \in Conns : (\E lost \in BOOLEAN : Accept(c, lost)) \/ AcceptFail(c)
    \/ \E n \in Node, c \in Conns : LoseConnection(n, c)
    \/ \E n \in Node : RunSessionEnds(n)
    \/ \E n \in Node, last \in {"closed", "gone"} : Restart(n, last)
    \/ Tick

PairSpec == PairInit /\ [][PairNext]_vars

\* A dial fails, or the dialled side gives up a handshake that the dialler has
\* finished and not undone.
NetworkFails ==
    \/ \E r \in Records : DialFail(r)
    \/ \E c \in Conns : AcceptFail(c) /\ end[from[c]][c] = "open"

\* refreshPeers comes back every tick, goroutines and timers run, and from some
\* point on the network carries what it is given.
PairFairness ==
    /\ WF_vars(Tick)
    /\ \A r \in Records :
          /\ WF_vars(refreshPeers(r)) /\ WF_vars(StartDial(r))
          /\ WF_vars(DialDone(r)) /\ WF_vars(Connect(r))
    /\ \A c \in Conns : WF_vars(Accept(c, FALSE) \/ AcceptFail(c))
    /\ \A n \in Node : WF_vars(RunSessionEnds(n))
    /\ \A n \in Node, c \in Conns : WF_vars(LoseConnection(n, c))
    /\ <>[][~ NetworkFails]_vars

FairPairSpec == PairSpec /\ PairFairness

-----------------------------------------------------------------------------
PairTypeOK ==
    /\ end \in [Node -> [Conns -> EndStates]]
    /\ from \in [Conns -> Node]
    /\ sessions \in [Node -> Conns \cup {NoConn}]
    /\ age \in [Node -> 0 .. Window]
    /\ due \in [Records -> BOOLEAN]
    /\ wanted \in [Records -> 0 .. 1 + MaxJoins]
    /\ dialing \in [Records -> Conns \cup {NoConn}]
    /\ dialAge \in [Records -> {0, 1}]
    /\ joins \in 0 .. MaxJoins
    /\ restarts \in 0 .. MaxRestarts

\* Every open connection is the session of its node: Add closes what it
\* replaces and HandleConnection what Add refuses, so none is left running
\* without a registry entry.
NoLeakedConnection ==
    \A n \in Node, c \in Conns : end[n][c] = "open" => sessions[n] = c

\* The two nodes share a session.
Up(c) == \A n \in Node : sessions[n] = c /\ end[n][c] = "open"
Connected == \E c \in Conns : Up(c)

\* A shared session is lost only to a restart, or to the connection of the
\* higher id when the lower id's had won the race: further dials and accepts do
\* not tear a live session.
SessionKept ==
    [][\A c \in Conns :
          Up(c) /\ ~ Up(c)' /\ restarts' = restarts =>
              /\ from[c] = 0
              /\ \E n \in Node : sessions'[n] # NoConn /\ from'[sessions'[n]] = 1]_vars

\* However the dials collide, and whichever node restarts, the two nodes end up
\* with one shared session and keep it.
EventuallyConnected == <>[]Connected
=============================================================================
