-------------------------- MODULE SessionPairProofs --------------------------
(***************************************************************************)
(* Proofs about the session registries, for every set of connections and   *)
(* every bound: no connection runs outside the registry, and a shared      *)
(* session is lost to nothing but a restart or the race it was won in.     *)
(***************************************************************************)
EXTENDS SessionPair, TLAPS

\* What the ends, the registries and the dials agree on.
EndsInv ==
    /\ end \in [Node -> [Conns -> EndStates]]
    /\ from \in [Conns -> Node]
    /\ sessions \in [Node -> Conns \cup {NoConn}]
    /\ age \in [Node -> 0 .. Window]
    /\ dialing \in [Records -> Conns \cup {NoConn}]
    \* The dialled side has no part of a connection before the dialler has.
    /\ \A c \in Conns : end[from[c]][c] = "none" => end[peer(from[c])][c] = "none"
    \* An end that was not handed to Add is in no registry.
    /\ \A n \in Node, c \in Conns :
          end[n][c] \in {"none", "ready", "dead"} => sessions[n] # c
    \* A dial belongs to its record alone, until Connect.
    /\ \A r \in Records : dialing[r] # NoConn =>
          /\ from[dialing[r]] = r.of
          /\ end[r.of][dialing[r]] \in {"none", "ready", "dead"}
    /\ \A r, s \in Records : dialing[r] = dialing[s] /\ dialing[r] # NoConn => r = s
    /\ NoLeakedConnection

\* How old a session can be while a dial that was begun without one goes on,
DialAges ==
    \A r \in Records :
        sessions[r.of] # NoConn =>
           /\ wanted[r] > 0 => age[r.of] = 0
           /\ dialing[r] # NoConn => age[r.of] <= dialAge[r]

\* while the dialled side has still to accept,
ArrivingAges ==
    \A c \in Conns :
        Arriving(c) /\ sessions[from[c]] # NoConn =>
           /\ age[from[c]] <= 1
           /\ sessions[from[c]] = c => age[from[c]] = 0

\* and while the dialler has still to handle what the other side has accepted.
HalfOpenAges ==
    \A n \in Node, c \in Conns :
        sessions[n] = c /\ end[n][c] = "open" /\ end[peer(n)][c] \in {"ready", "dead"}
           => age[n] = 0

\* Both ends of a shared session are of one age.
UpAges == \A c \in Conns : Up(c) => age[0] = age[1]

AgesInv ==
    /\ wanted \in [Records -> Nat]
    /\ dialAge \in [Records -> {0, 1}]
    /\ DialAges /\ ArrivingAges /\ HalfOpenAges /\ UpAges

\* The nodes know each other under their current ids only.
AllCurrent == \A r \in Records : r.id = "current"

-----------------------------------------------------------------------------
\* The two nodes are each other's peer.
LEMMA Peers ==
    /\ 0 \in Node /\ 1 \in Node
    /\ \A n \in Node : peer(n) \in Node /\ peer(n) # n /\ peer(peer(n)) = n
    /\ \A n, m \in Node : m = n \/ m = peer(n)
BY DEF Node, peer

\* What HandleConnection does to node n and to nothing else: it takes c and closes
\* the session c replaces, or closes c.
HandleTakes(n, c) ==
    /\ sessions'[n] = c /\ age'[n] = 0
    /\ end'[n][c] \in {"open", "closed"}
    /\ \A d \in Conns \ {c} :
          end'[n][d] = IF d = sessions[n] THEN "closed" ELSE end[n][d]

HandleRefuses(n, c) ==
    /\ sessions' = sessions /\ age' = age
    /\ end'[n][c] = "closed"
    /\ \A d \in Conns \ {c} : end'[n][d] = end[n][d]

HandleFrame(n) ==
    /\ end' \in [Node -> [Conns -> EndStates]]
    /\ sessions' \in [Node -> Conns \cup {NoConn}]
    /\ age' \in [Node -> 0 .. Window]
    /\ \A m \in Node \ {n} :
          end'[m] = end[m] /\ sessions'[m] = sessions[m] /\ age'[m] = age[m]

\* HandleConnection is one of the two.
LEMMA HandleIs ==
    ASSUME EndsInv,
           NEW n \in Node, NEW c \in Conns, NEW lost, HandleConnection(n, c, lost)
    PROVE  /\ HandleFrame(n)
           /\ \/ AddAccepts(n, c) /\ HandleTakes(n, c)
              \/ HandleRefuses(n, c)
<1>a. 0 \in 0 .. Window
  BY PairAssumption
<1>1. CASE AddAccepts(n, c)
  <2> DEFINE v == IF lost THEN "closed" ELSE "open"
  <2>0. v \in {"open", "closed"}
    OBVIOUS
  <2>1. /\ sessions' = [sessions EXCEPT ![n] = c]
        /\ age' = [age EXCEPT ![n] = 0]
        /\ end' = [end EXCEPT ![n] = [d \in Conns |->
                     CASE d = c -> v
                       [] d = sessions[n] /\ d # c -> "closed"
                       [] OTHER -> end[n][d]]]
    BY <1>1 DEF HandleConnection
  <2> HIDE DEF v
  <2>2. HandleFrame(n)
    BY <2>0, <2>1, <1>a DEF EndsInv, HandleFrame, EndStates
  <2>3. HandleTakes(n, c)
    BY <2>0, <2>1 DEF EndsInv, HandleTakes
  <2> QED BY <1>1, <2>2, <2>3
<1>2. CASE ~ AddAccepts(n, c)
  <2>1. /\ end' = [end EXCEPT ![n][c] = "closed"]
        /\ sessions' = sessions /\ age' = age
    BY <1>2 DEF HandleConnection
  <2> QED BY <2>1 DEF EndsInv, HandleFrame, HandleRefuses, EndStates
<1> QED BY <1>1, <1>2
-----------------------------------------------------------------------------
\* The registries start empty.
LEMMA EndsInvInit == PairInit => EndsInv
<1> SUFFICES ASSUME PairInit PROVE EndsInv
  OBVIOUS
<1>1. \A n \in Node, c \in Conns : end[n][c] = "none" /\ sessions[n] # c
  BY PairAssumption DEF PairInit
<1>2. \A c \in Conns : from[c] \in Node /\ peer(from[c]) \in Node
  BY Peers DEF PairInit
<1>3. /\ end \in [Node -> [Conns -> EndStates]]
      /\ from \in [Conns -> Node]
      /\ sessions \in [Node -> Conns \cup {NoConn}]
      /\ age \in [Node -> 0 .. Window]
      /\ dialing \in [Records -> Conns \cup {NoConn}]
  BY Peers, PairAssumption DEF PairInit, EndStates
<1>4. \A r \in Records : dialing[r] = NoConn
  BY DEF PairInit
<1> QED BY <1>1, <1>2, <1>3, <1>4 DEF EndsInv, NoLeakedConnection

\* A dial is given a connection that nobody uses.
LEMMA StartDialKeepsEnds ==
    ASSUME EndsInv, NEW r \in Records, StartDial(r)
    PROVE  EndsInv'
<1>r. r.of \in Node
  BY PairAssumption DEF Record
<1>1. CASE dialing[r] # NoConn
  <2>1. UNCHANGED <<end, from, sessions, age, dialing>>
    BY <1>1 DEF StartDial
  <2> QED BY <2>1 DEF EndsInv, NoLeakedConnection
<1>2. CASE dialing[r] = NoConn
  <2>1. PICK c \in Conns :
          /\ Unused(c)
          /\ dialing' = [dialing EXCEPT ![r] = c]
          /\ from' = [from EXCEPT ![c] = r.of]
          /\ end' = [m \in Node |-> [end[m] EXCEPT ![c] = "none"]]
          /\ sessions' = sessions /\ age' = age
    BY <1>2 DEF StartDial
  <2>2. \A n \in Node : end'[n][c] = "none" /\ sessions[n] # c
    BY <2>1 DEF EndsInv, Unused
  <2>3. \A n \in Node, d \in Conns \ {c} : end'[n][d] = end[n][d]
    BY <2>1 DEF EndsInv
  <2>4. from'[c] = r.of /\ \A d \in Conns \ {c} : from'[d] = from[d]
    BY <2>1 DEF EndsInv
  <2>5. dialing'[r] = c /\ \A s \in Records \ {r} : dialing'[s] = dialing[s] /\ dialing[s] # c
    BY <2>1 DEF EndsInv, Unused
  <2>6. /\ end' \in [Node -> [Conns -> EndStates]]
        /\ from' \in [Conns -> Node]
        /\ sessions' \in [Node -> Conns \cup {NoConn}]
        /\ age' \in [Node -> 0 .. Window]
        /\ dialing' \in [Records -> Conns \cup {NoConn}]
    BY <2>1, <1>r DEF EndsInv, EndStates
  <2>7. \A d \in Conns : end'[from'[d]][d] = "none" => end'[peer(from'[d])][d] = "none"
    <3> SUFFICES ASSUME NEW d \in Conns, end'[from'[d]][d] = "none"
                 PROVE  end'[peer(from'[d])][d] = "none"
      OBVIOUS
    <3>1. CASE d = c
      BY <3>1, <2>2, <2>4, <1>r, Peers
    <3>2. CASE d # c
      BY <3>2, <2>3, <2>4, Peers DEF EndsInv
    <3> QED BY <3>1, <3>2
  <2>8. \A n \in Node, d \in Conns :
           end'[n][d] \in {"none", "ready", "dead"} => sessions'[n] # d
    BY <2>1, <2>2, <2>3 DEF EndsInv
  <2>9. \A s \in Records : dialing'[s] # NoConn =>
           /\ from'[dialing'[s]] = s.of
           /\ end'[s.of][dialing'[s]] \in {"none", "ready", "dead"}
    <3> SUFFICES ASSUME NEW s \in Records, dialing'[s] # NoConn
                 PROVE  /\ from'[dialing'[s]] = s.of
                        /\ end'[s.of][dialing'[s]] \in {"none", "ready", "dead"}
      OBVIOUS
    <3>1. CASE s = r
      BY <3>1, <2>2, <2>4, <2>5, <1>r
    <3>2. CASE s # r
      <4>1. dialing'[s] = dialing[s] /\ dialing[s] \in Conns \ {c} /\ s.of \in Node
        BY <3>2, <2>5, PairAssumption DEF EndsInv, Record
      <4> QED BY <4>1, <2>3, <2>4 DEF EndsInv
    <3> QED BY <3>1, <3>2
  <2>10. \A q, s \in Records : dialing'[q] = dialing'[s] /\ dialing'[q] # NoConn => q = s
    BY <2>5 DEF EndsInv
  <2>11. NoLeakedConnection'
    BY <2>1, <2>2, <2>3 DEF EndsInv, NoLeakedConnection
  <2> QED BY <2>6, <2>7, <2>8, <2>9, <2>10, <2>11 DEF EndsInv
<1> QED BY <1>1, <1>2

\* An end changes in a way that opens nothing and begins nothing: DialDone,
\* AcceptFail, LoseConnection.
LEMMA EndChangeKeepsEnds ==
    ASSUME EndsInv, NEW n \in Node, NEW c \in Conns, NEW v \in {"ready", "dead", "closed"},
           end' = [end EXCEPT ![n][c] = v],
           UNCHANGED <<from, sessions, age, dialing>>,
           v = "closed" \/ end[n][c] \in {"none", "ready"},
           v = "closed" => \A r \in Records : dialing[r] = c => r.of # n,
           n = from[c] \/ end[from[c]][c] # "none"
    PROVE  EndsInv'
<1>1. end'[n][c] = v /\ end' \in [Node -> [Conns -> EndStates]]
  BY DEF EndsInv, EndStates
<1>2. \A m \in Node, d \in Conns : end'[m][d] = IF m = n /\ d = c THEN v ELSE end[m][d]
  BY DEF EndsInv
<1>3. \A d \in Conns : end'[from[d]][d] = "none" => end'[peer(from[d])][d] = "none"
  <2> SUFFICES ASSUME NEW d \in Conns, end'[from[d]][d] = "none"
               PROVE  end'[peer(from[d])][d] = "none"
    OBVIOUS
  <2>1. from[d] \in Node /\ peer(from[d]) \in Node
    BY Peers DEF EndsInv
  <2> QED BY <2>1, <1>2 DEF EndsInv
<1>4. \A m \in Node, d \in Conns :
         end'[m][d] \in {"none", "ready", "dead"} => sessions[m] # d
  BY <1>2 DEF EndsInv
<1>5. \A r \in Records : dialing[r] # NoConn =>
         end'[r.of][dialing[r]] \in {"none", "ready", "dead"}
  <2> SUFFICES ASSUME NEW r \in Records, dialing[r] # NoConn
               PROVE  end'[r.of][dialing[r]] \in {"none", "ready", "dead"}
    OBVIOUS
  <2>1. r.of \in Node /\ dialing[r] \in Conns
    BY PairAssumption DEF EndsInv, Record
  <2> QED BY <2>1, <1>2 DEF EndsInv
<1>6. NoLeakedConnection'
  BY <1>2 DEF EndsInv, NoLeakedConnection
<1> QED BY <1>1, <1>3, <1>4, <1>5, <1>6 DEF EndsInv

\* Add leaves one connection of the two.  Only the dial of r, if any, is over.
LEMMA HandleKeepsEnds ==
    ASSUME EndsInv, NEW n \in Node, NEW c \in Conns,
           HandleFrame(n), HandleTakes(n, c) \/ HandleRefuses(n, c),
           from' = from,
           n = from[c] \/ end[from[c]][c] # "none",
           dialing' \in [Records -> Conns \cup {NoConn}],
           \A s \in Records : dialing'[s] # NoConn =>
              dialing'[s] = dialing[s] /\ ~ (s.of = n /\ dialing[s] = c)
    PROVE  EndsInv'
<1>1. \A m \in Node, d \in Conns :
         \/ end'[m][d] = end[m][d]
         \/ m = n /\ d = c /\ end'[m][d] \in {"open", "closed"}
         \/ m = n /\ d = sessions[n] /\ end'[m][d] = "closed"
  BY DEF HandleFrame, HandleTakes, HandleRefuses
<1>2. \A d \in Conns : end'[from[d]][d] = "none" => end'[peer(from[d])][d] = "none"
  <2> SUFFICES ASSUME NEW d \in Conns, end'[from[d]][d] = "none"
               PROVE  end'[peer(from[d])][d] = "none"
    OBVIOUS
  <2>1. from[d] \in Node /\ peer(from[d]) \in Node
    BY Peers DEF EndsInv
  <2>2. end[from[d]][d] = "none"
    BY <1>1, <2>1
  <2>3. end[peer(from[d])][d] = "none"
    BY <2>2 DEF EndsInv
  <2>4. sessions[peer(from[d])] # d
    BY <2>1, <2>3 DEF EndsInv
  <2>5. ~ (d = c /\ n = peer(from[d]))
    BY <2>2, <2>1, Peers
  <2> QED BY <2>1, <2>3, <2>4, <2>5, <1>1
<1>3. \A m \in Node, d \in Conns :
         /\ end'[m][d] \in {"none", "ready", "dead"} => sessions'[m] # d
         /\ end'[m][d] = "open" => sessions'[m] = d
  <2> SUFFICES ASSUME NEW m \in Node, NEW d \in Conns
               PROVE  /\ end'[m][d] \in {"none", "ready", "dead"} => sessions'[m] # d
                      /\ end'[m][d] = "open" => sessions'[m] = d
    OBVIOUS
  <2>0. /\ end[m][d] \in {"none", "ready", "dead"} => sessions[m] # d
        /\ end[m][d] = "open" => sessions[m] = d
    BY DEF EndsInv, NoLeakedConnection
  <2>1. CASE m # n
    BY <2>0, <2>1 DEF HandleFrame
  <2>2. CASE m = n /\ HandleTakes(n, c)
    BY <2>0, <2>2 DEF HandleTakes
  <2>3. CASE m = n /\ HandleRefuses(n, c)
    BY <2>0, <2>3 DEF HandleRefuses
  <2> QED BY <2>1, <2>2, <2>3
<1>4. \A s \in Records : dialing'[s] # NoConn =>
         /\ from'[dialing'[s]] = s.of
         /\ end'[s.of][dialing'[s]] \in {"none", "ready", "dead"}
  <2> SUFFICES ASSUME NEW s \in Records, dialing'[s] # NoConn
               PROVE  /\ from[dialing[s]] = s.of
                      /\ end'[s.of][dialing[s]] \in {"none", "ready", "dead"}
    OBVIOUS
  <2>1. s.of \in Node /\ dialing[s] \in Conns /\ dialing[s] # NoConn
    BY PairAssumption DEF EndsInv, Record
  <2>2. from[dialing[s]] = s.of /\ end[s.of][dialing[s]] \in {"none", "ready", "dead"}
    BY <2>1 DEF EndsInv
  <2>3. sessions[s.of] # dialing[s]
    BY <2>1, <2>2 DEF EndsInv
  <2>4. ~ (s.of = n /\ dialing[s] = c)
    OBVIOUS
  <2>5. end'[s.of][dialing[s]] = end[s.of][dialing[s]]
    BY <2>1, <2>3, <2>4, <1>1
  <2> QED BY <2>2, <2>5
<1>5. \A q, s \in Records : dialing'[q] = dialing'[s] /\ dialing'[q] # NoConn => q = s
  BY DEF EndsInv
<1>6. NoLeakedConnection'
  BY <1>3 DEF NoLeakedConnection
<1> QED BY <1>2, <1>3, <1>4, <1>5, <1>6 DEF EndsInv, HandleFrame
\* connect hands the connection it dialled to the registry.
LEMMA ConnectKeepsEnds ==
    ASSUME EndsInv, NEW r \in Records, Connect(r)
    PROVE  EndsInv'
<1> DEFINE c == dialing[r]
<1>1. r.of \in Node /\ c \in Conns /\ c # NoConn
  BY PairAssumption DEF EndsInv, Record, Connect
<1>2. from[c] = r.of
  BY <1>1 DEF EndsInv
<1>3. HandleFrame(r.of) /\ (HandleTakes(r.of, c) \/ HandleRefuses(r.of, c))
  BY <1>1, HandleIs DEF Connect
<1>4. /\ from' = from
      /\ dialing' = [dialing EXCEPT ![r] = NoConn]
  BY DEF Connect
<1>5. /\ dialing' \in [Records -> Conns \cup {NoConn}]
      /\ \A s \in Records : dialing'[s] # NoConn => s # r /\ dialing'[s] = dialing[s]
  BY <1>4 DEF EndsInv
<1>6. \A s \in Records : dialing'[s] # NoConn =>
         dialing'[s] = dialing[s] /\ ~ (s.of = r.of /\ dialing[s] = c)
  BY <1>1, <1>5 DEF EndsInv
<1> HIDE DEF c
<1> QED BY <1>1, <1>2, <1>3, <1>4, <1>5, <1>6, HandleKeepsEnds

\* The accept loop hands a connection to the registry.
LEMMA AcceptKeepsEnds ==
    ASSUME EndsInv, NEW c \in Conns, NEW lost, Accept(c, lost)
    PROVE  EndsInv'
<1> DEFINE n == peer(from[c])
<1>1. from[c] \in Node /\ n \in Node /\ n # from[c]
  BY Peers DEF EndsInv
<1>2. end[from[c]][c] # "none"
  BY DEF Accept, Arriving
<1>3. HandleConnection(n, c, lost) /\ from' = from /\ dialing' = dialing
  BY DEF Accept, dialVars
<1>4. HandleFrame(n) /\ (HandleTakes(n, c) \/ HandleRefuses(n, c))
  BY <1>1, <1>3, HandleIs
<1>5. \A s \in Records : dialing'[s] # NoConn =>
         dialing'[s] = dialing[s] /\ ~ (s.of = n /\ dialing[s] = c)
  BY <1>1, <1>3 DEF EndsInv
<1>6. dialing' \in [Records -> Conns \cup {NoConn}]
  BY <1>3 DEF EndsInv
<1> HIDE DEF n
<1> QED BY <1>1, <1>2, <1>3, <1>4, <1>5, <1>6, HandleKeepsEnds

\* A restart leaves its node no session, no dial and no open end.
LEMMA RestartKeepsEnds ==
    ASSUME EndsInv, NEW n \in Node, NEW last \in {"closed", "gone"}, Restart(n, last)
    PROVE  EndsInv'
<1>1. \A m \in Node, d \in Conns :
         end'[m][d] = IF m = n /\ end[m][d] \in {"ready", "dead", "open"} THEN last
                      ELSE end[m][d]
  BY DEF Restart, EndsInv
<1>2. /\ sessions'[n] = NoConn
      /\ \A m \in Node \ {n} : sessions'[m] = sessions[m]
      /\ from' = from
  BY DEF Restart, EndsInv
<1>3. \A s \in Records : dialing'[s] = IF s.of = n THEN NoConn ELSE dialing[s]
  BY DEF Restart
<1>4. /\ end' \in [Node -> [Conns -> EndStates]]
      /\ from' \in [Conns -> Node]
      /\ sessions' \in [Node -> Conns \cup {NoConn}]
      /\ age' \in [Node -> 0 .. Window]
      /\ dialing' \in [Records -> Conns \cup {NoConn}]
  BY PairAssumption DEF Restart, EndsInv, EndStates
<1>5. \A c \in Conns : end'[from[c]][c] = "none" => end'[peer(from[c])][c] = "none"
  BY <1>1, Peers DEF EndsInv
<1>6. \A m \in Node, c \in Conns :
         end'[m][c] \in {"none", "ready", "dead"} => sessions'[m] # c
  BY <1>1, <1>2, PairAssumption DEF EndsInv
<1>7. \A s \in Records : dialing'[s] # NoConn =>
         /\ from[dialing'[s]] = s.of
         /\ end'[s.of][dialing'[s]] \in {"none", "ready", "dead"}
  <2> SUFFICES ASSUME NEW s \in Records, dialing'[s] # NoConn
               PROVE  /\ from[dialing'[s]] = s.of
                      /\ end'[s.of][dialing'[s]] \in {"none", "ready", "dead"}
    OBVIOUS
  <2>1. s.of \in Node /\ s.of # n /\ dialing'[s] = dialing[s] /\ dialing[s] \in Conns
    BY <1>3, PairAssumption DEF EndsInv, Record
  <2>2. end'[s.of][dialing[s]] = end[s.of][dialing[s]]
    BY <2>1, <1>1
  <2> QED BY <2>1, <2>2 DEF EndsInv
<1>8. \A q, s \in Records : dialing'[q] = dialing'[s] /\ dialing'[q] # NoConn => q = s
  BY <1>3 DEF EndsInv
<1>9. NoLeakedConnection'
  BY <1>1, <1>2 DEF EndsInv, NoLeakedConnection
<1> QED BY <1>2, <1>4, <1>5, <1>6, <1>7, <1>8, <1>9 DEF EndsInv
\* Every step keeps EndsInv.
LEMMA EndsInvNext == EndsInv /\ [PairNext]_vars => EndsInv'
<1> SUFFICES ASSUME EndsInv, [PairNext]_vars PROVE EndsInv'
  OBVIOUS
<1>r. \A r \in Records : r.of \in Node
  BY PairAssumption DEF Record
<1>1. ASSUME UNCHANGED <<end, from, sessions, age, dialing>> PROVE EndsInv'
  BY <1>1 DEF EndsInv, NoLeakedConnection
<1>2. ASSUME NEW r \in Records,
             refreshPeers(r) \/ PeerJoined(r)
      PROVE  EndsInv'
  BY <1>1, <1>2 DEF refreshPeers, PeerJoined, connVars
<1>3. ASSUME NEW r \in Records, DialDone(r) PROVE EndsInv'
  <2>1. /\ dialing[r] \in Conns /\ from[dialing[r]] = r.of
        /\ end[r.of][dialing[r]] = "none"
    BY <1>3 DEF EndsInv, DialDone, InDial
  <2>2. /\ end' = [end EXCEPT ![r.of][dialing[r]] = "ready"]
        /\ UNCHANGED <<from, sessions, age, dialing>>
    BY <1>3 DEF DialDone, dialVars
  <2> QED BY <2>1, <2>2, <1>r, EndChangeKeepsEnds
<1>4. ASSUME NEW r \in Records, DialFail(r) PROVE EndsInv'
  <2>1. /\ UNCHANGED <<end, from, sessions, age>>
        /\ dialing' = [dialing EXCEPT ![r] = NoConn]
    BY <1>4 DEF DialFail, connVars
  <2>2. /\ dialing' \in [Records -> Conns \cup {NoConn}]
        /\ \A s \in Records : dialing'[s] # NoConn => dialing'[s] = dialing[s]
    BY <2>1 DEF EndsInv
  <2>3. \A q, s \in Records : dialing'[q] = dialing'[s] /\ dialing'[q] # NoConn => q = s
    BY <2>2 DEF EndsInv
  <2>4. NoLeakedConnection'
    BY <2>1 DEF EndsInv, NoLeakedConnection
  <2>5. \A s \in Records : dialing'[s] # NoConn =>
           /\ from'[dialing'[s]] = s.of
           /\ end'[s.of][dialing'[s]] \in {"none", "ready", "dead"}
    BY <2>1, <2>2 DEF EndsInv
  <2> QED BY <2>1, <2>2, <2>3, <2>4, <2>5 DEF EndsInv
<1>5. ASSUME NEW c \in Conns, AcceptFail(c) PROVE EndsInv'
  <2> DEFINE n == peer(from[c])
             v == "closed"
  <2>1. n \in Node /\ n # from[c] /\ end[from[c]][c] # "none"
    BY <1>5, Peers DEF AcceptFail, EndsInv
  <2>2. /\ end' = [end EXCEPT ![n][c] = v]
        /\ UNCHANGED <<from, sessions, age, dialing>>
    BY <1>5 DEF AcceptFail, dialVars
  <2> HIDE DEF n
  <2>3. \A r \in Records : dialing[r] = c => r.of # n
    BY <2>1, PairAssumption DEF EndsInv
  <2>4. v \in {"ready", "dead", "closed"} /\ v = "closed"
    OBVIOUS
  <2> HIDE DEF v
  <2> QED BY <2>1, <2>2, <2>3, <2>4, EndChangeKeepsEnds
<1>6. ASSUME NEW n \in Node, NEW c \in Conns, LoseConnection(n, c) PROVE EndsInv'
  <2> DEFINE v == IF end[n][c] = "ready" THEN "dead" ELSE "closed"
  <2>1. /\ end' = [end EXCEPT ![n][c] = v]
        /\ UNCHANGED <<from, sessions, age, dialing>>
    BY <1>6 DEF LoseConnection, dialVars, EndsInv
  <2>2. v \in {"ready", "dead", "closed"} /\ (v = "closed" \/ end[n][c] \in {"none", "ready"})
    OBVIOUS
  <2>3. v = "closed" => \A r \in Records : dialing[r] = c => r.of # n
    <3>1. v = "closed" => end[n][c] = "open"
      BY <1>6 DEF LoseConnection
    <3>2. \A r \in Records : dialing[r] = c => end[r.of][c] \in {"none", "ready", "dead"}
      BY PairAssumption DEF EndsInv
    <3> HIDE DEF v
    <3> QED BY <3>1, <3>2
  <2>4. n = from[c] \/ end[from[c]][c] # "none"
    BY <1>6, Peers DEF LoseConnection, EndsInv
  <2> HIDE DEF v
  <2> QED BY <2>1, <2>2, <2>3, <2>4, EndChangeKeepsEnds
<1>7. ASSUME NEW n \in Node, RunSessionEnds(n) PROVE EndsInv'
  <2>1. /\ UNCHANGED <<end, from, dialing>>
        /\ end[n][sessions[n]] = "closed"
        /\ sessions'[n] = NoConn /\ \A m \in Node \ {n} : sessions'[m] = sessions[m]
        /\ sessions' \in [Node -> Conns \cup {NoConn}]
        /\ age' \in [Node -> 0 .. Window]
    BY <1>7, PairAssumption DEF RunSessionEnds, dialVars, EndsInv
  <2>2. NoLeakedConnection'
    BY <2>1 DEF EndsInv, NoLeakedConnection
  <2>3. \A m \in Node, d \in Conns :
           end'[m][d] \in {"none", "ready", "dead"} => sessions'[m] # d
    BY <2>1, PairAssumption DEF EndsInv
  <2> QED BY <2>1, <2>2, <2>3 DEF EndsInv
<1>8. ASSUME Tick PROVE EndsInv'
  <2>0. \A n \in Node :
           (IF sessions[n] = NoConn \/ age[n] = Window THEN age[n] ELSE age[n] + 1) \in 0 .. Window
    <3>1. \A n \in Node : age[n] \in 0 .. Window
      BY DEF EndsInv
    <3>2. \A a \in 0 .. Window : a # Window => a + 1 \in 0 .. Window
      BY PairAssumption
    <3> QED BY <3>1, <3>2
  <2>a. /\ UNCHANGED <<end, from, sessions, dialing>>
        /\ age' = [n \in Node |->
              IF sessions[n] = NoConn \/ age[n] = Window THEN age[n] ELSE age[n] + 1]
    BY <1>8 DEF Tick
  <2>1. UNCHANGED <<end, from, sessions, dialing>> /\ age' \in [Node -> 0 .. Window]
    BY <2>0, <2>a
  <2>2. NoLeakedConnection'
    BY <2>1 DEF EndsInv, NoLeakedConnection
  <2> QED BY <2>1, <2>2 DEF EndsInv
<1>9. CASE UNCHANGED vars
  BY <1>1, <1>9 DEF vars, connVars, dialVars
<1> QED BY <1>2, <1>3, <1>4, <1>5, <1>6, <1>7, <1>8, <1>9, StartDialKeepsEnds,
           ConnectKeepsEnds, AcceptKeepsEnds, RestartKeepsEnds DEF PairNext

\* Registries, ends and dials agree in every state, whatever the nodes have to dial.
THEOREM EndsInvariant == PairSpec => []EndsInv
BY EndsInvInit, EndsInvNext, PTL DEF PairSpec

\* Every open connection is the session of its node, however dials, accepts, losses
\* and restarts interleave, and also with records under an id the peer no longer has.
THEOREM NothingLeaks == PairSpec => []NoLeakedConnection
<1>1. EndsInv => NoLeakedConnection
  BY DEF EndsInv
<1> QED BY <1>1, EndsInvariant, PTL
-----------------------------------------------------------------------------
\* The first state has no session.
LEMMA AgesInvInit == PairInit => AgesInv
<1> SUFFICES ASSUME PairInit PROVE AgesInv
  OBVIOUS
<1>1. \A n \in Node : sessions[n] = NoConn
  BY DEF PairInit
<1>2. \A r \in Records : r.of \in Node
  BY PairAssumption DEF Record
<1>3. from \in [Conns -> Node]
  BY Peers DEF PairInit
<1>4. wanted \in [Records -> Nat] /\ dialAge \in [Records -> {0, 1}]
  BY DEF PairInit
<1>5. DialAges /\ ArrivingAges
  BY <1>1, <1>2, <1>3 DEF DialAges, ArrivingAges
<1>6. HalfOpenAges /\ UpAges
  BY <1>1, PairAssumption, Peers DEF HalfOpenAges, UpAges, Up
<1> QED BY <1>4, <1>5, <1>6 DEF AgesInv

\* A step that leaves the registries alone, opens nothing and makes nothing arrive.
LEMMA QuietKeepsAges ==
    ASSUME EndsInv, AgesInv,
           UNCHANGED <<sessions, age>>,
           \A c \in Conns : Arriving(c)' => Arriving(c) /\ from'[c] = from[c],
           \A n \in Node, c \in Conns : end'[n][c] = "open" => end[n][c] = "open",
           \A n \in Node, c \in Conns :
              end'[n][c] \in {"ready", "dead"} => end[n][c] \in {"ready", "dead"}
    PROVE  ArrivingAges' /\ HalfOpenAges' /\ UpAges'
<1>1. ArrivingAges'
  BY DEF AgesInv, ArrivingAges
<1>2. HalfOpenAges'
  BY Peers DEF AgesInv, HalfOpenAges
<1>3. UpAges'
  BY DEF AgesInv, UpAges, Up
<1> QED BY <1>1, <1>2, <1>3
\* A goroutine is started without a session, and a dial by such a goroutine.
LEMMA DialStepsKeepAges ==
    ASSUME EndsInv, AgesInv, AllCurrent, NEW r \in Records,
           refreshPeers(r) \/ PeerJoined(r) \/ StartDial(r) \/ DialFail(r)
    PROVE  AgesInv'
<1>r. r.of \in Node
  BY PairAssumption DEF Record
<1>0. ASSUME UNCHANGED <<end, from, sessions, age>>
      PROVE  ArrivingAges' /\ HalfOpenAges' /\ UpAges'
  BY <1>0, QuietKeepsAges DEF Arriving
<1>1. CASE refreshPeers(r) \/ PeerJoined(r)
  <2>1. /\ UNCHANGED <<end, from, sessions, age, dialing, dialAge>>
        /\ \/ wanted' = wanted
           \/ wanted' = [wanted EXCEPT ![r] = @ + 1] /\ sessions[r.of] = NoConn
    BY <1>1 DEF refreshPeers, PeerJoined, connVars, AllCurrent
  <2>2. wanted' \in [Records -> Nat] /\ dialAge' \in [Records -> {0, 1}]
    BY <2>1 DEF AgesInv
  <2>3. DialAges'
    BY <2>1 DEF AgesInv, DialAges
  <2> QED BY <1>0, <2>1, <2>2, <2>3 DEF AgesInv
<1>2. CASE StartDial(r)
  <2>1. /\ UNCHANGED <<sessions, age>>
        /\ wanted[r] > 0
        /\ wanted' = [wanted EXCEPT ![r] = @ - 1]
    BY <1>2 DEF StartDial
  <2>2. /\ wanted' \in [Records -> Nat]
        /\ \A s \in Records : wanted'[s] > 0 => wanted[s] > 0
    BY <2>1 DEF AgesInv
  <2>3. CASE dialing[r] # NoConn
    <3>1. UNCHANGED <<end, from, dialing, dialAge>>
      BY <1>2, <2>3 DEF StartDial
    <3>2. DialAges'
      BY <2>1, <2>2, <3>1 DEF AgesInv, DialAges
    <3> QED BY <1>0, <2>1, <2>2, <3>1, <3>2 DEF AgesInv
  <2>4. CASE dialing[r] = NoConn
    <3>1. PICK c \in Conns :
             /\ dialing' = [dialing EXCEPT ![r] = c]
             /\ from' = [from EXCEPT ![c] = r.of]
             /\ end' = [m \in Node |-> [end[m] EXCEPT ![c] = "none"]]
             /\ dialAge' = [dialAge EXCEPT ![r] = 0]
      BY <1>2, <2>4 DEF StartDial
    <3>2. \A n \in Node, d \in Conns : end'[n][d] = IF d = c THEN "none" ELSE end[n][d]
      BY <3>1 DEF EndsInv
    <3>3. \A d \in Conns : from'[d] = IF d = c THEN r.of ELSE from[d]
      BY <3>1 DEF EndsInv
    <3>4. \A d \in Conns : Arriving(d)' => Arriving(d) /\ from'[d] = from[d]
      <4> SUFFICES ASSUME NEW d \in Conns, Arriving(d)'
                   PROVE  Arriving(d) /\ from'[d] = from[d]
        OBVIOUS
      <4>1. from'[d] \in Node /\ peer(from'[d]) \in Node
        BY <3>3, <1>r, Peers DEF EndsInv
      <4>2. d # c
        BY <4>1, <3>2 DEF Arriving
      <4> QED BY <4>1, <4>2, <3>2, <3>3 DEF Arriving
    <3>5. ArrivingAges' /\ HalfOpenAges' /\ UpAges'
      BY <2>1, <3>2, <3>4, QuietKeepsAges
    <3>6. dialAge' \in [Records -> {0, 1}]
      BY <3>1 DEF AgesInv
    <3>7. DialAges'
      <4> SUFFICES ASSUME NEW s \in Records, sessions[s.of] # NoConn
                   PROVE  /\ wanted'[s] > 0 => age[s.of] = 0
                          /\ dialing'[s] # NoConn => age[s.of] <= dialAge'[s]
        BY <2>1 DEF DialAges
      <4>1. wanted'[s] > 0 => age[s.of] = 0
        BY <2>2 DEF AgesInv, DialAges
      <4>2. CASE s = r
        BY <4>1, <4>2, <2>1, <3>1 DEF AgesInv, DialAges
      <4>3. CASE s # r
        BY <4>1, <4>3, <3>1 DEF AgesInv, DialAges, EndsInv
      <4> QED BY <4>2, <4>3
    <3> QED BY <2>2, <3>5, <3>6, <3>7 DEF AgesInv
  <2> QED BY <2>3, <2>4
<1>3. CASE DialFail(r)
  <2>1. /\ UNCHANGED <<end, from, sessions, age, wanted>>
        /\ dialing' = [dialing EXCEPT ![r] = NoConn]
        /\ dialAge' = [dialAge EXCEPT ![r] = 0]
    BY <1>3 DEF DialFail, connVars
  <2>2. wanted' \in [Records -> Nat] /\ dialAge' \in [Records -> {0, 1}]
    BY <2>1 DEF AgesInv
  <2>3. DialAges'
    BY <2>1 DEF AgesInv, DialAges, EndsInv
  <2> QED BY <1>0, <2>1, <2>2, <2>3 DEF AgesInv
<1> QED BY <1>1, <1>2, <1>3

\* The end of a dial makes the connection arrive, when no session is older than 1.
LEMMA DialDoneKeepsAges ==
    ASSUME EndsInv, AgesInv, NEW r \in Records, DialDone(r)
    PROVE  AgesInv'
<1> DEFINE c == dialing[r]
<1>1. /\ r.of \in Node /\ c \in Conns /\ c # NoConn
      /\ from[c] = r.of /\ end[r.of][c] = "none"
  BY PairAssumption DEF EndsInv, DialDone, InDial, Record
<1>2. end[peer(r.of)][c] = "none" /\ sessions[r.of] # c
  BY <1>1 DEF EndsInv
<1>3. UNCHANGED <<from, sessions, age, wanted, dialing, dialAge>>
  BY DEF DialDone, dialVars
<1>4. \A n \in Node, d \in Conns :
         end'[n][d] = IF n = r.of /\ d = c THEN "ready" ELSE end[n][d]
  BY <1>1 DEF DialDone, EndsInv
<1>5. sessions[r.of] # NoConn => age[r.of] <= 1
  <2>1. age[r.of] \in Nat /\ dialAge[r] \in {0, 1}
    BY <1>1, PairAssumption DEF EndsInv, AgesInv
  <2> QED BY <1>1, <2>1 DEF AgesInv, DialAges
<1> HIDE DEF c
<1>6. ArrivingAges'
  <2> SUFFICES ASSUME NEW d \in Conns, Arriving(d)', sessions[from[d]] # NoConn
               PROVE  /\ age[from[d]] <= 1
                      /\ sessions[from[d]] = d => age[from[d]] = 0
    BY <1>3 DEF ArrivingAges
  <2>1. CASE d = c
    BY <2>1, <1>1, <1>2, <1>5
  <2>2. CASE d # c
    <3>1. from[d] \in Node /\ peer(from[d]) \in Node
      BY Peers DEF EndsInv
    <3>2. Arriving(d)
      BY <3>1, <2>2, <1>3, <1>4 DEF Arriving
    <3> QED BY <3>2 DEF AgesInv, ArrivingAges
  <2> QED BY <2>1, <2>2
<1>7. HalfOpenAges'
  <2> SUFFICES ASSUME NEW n \in Node, NEW d \in Conns, sessions[n] = d,
                      end'[n][d] = "open", end'[peer(n)][d] \in {"ready", "dead"}
               PROVE  age[n] = 0
    BY <1>3 DEF HalfOpenAges
  <2>1. end[n][d] = "open" /\ ~ (d = c /\ peer(n) = r.of)
    BY <1>1, <1>2, <1>4, Peers
  <2>2. end[peer(n)][d] \in {"ready", "dead"}
    BY <2>1, <1>4, Peers
  <2> QED BY <2>1, <2>2 DEF AgesInv, HalfOpenAges
<1>8. UpAges'
  BY <1>1, <1>3, <1>4 DEF AgesInv, UpAges, Up
<1> QED BY <1>3, <1>6, <1>7, <1>8 DEF AgesInv, DialAges
\* An end that closes, or dies before Connect has handled it.
LEMMA ClosingKeepsAges ==
    ASSUME EndsInv, AgesInv,
           (\E c \in Conns : AcceptFail(c)) \/ (\E n \in Node, c \in Conns : LoseConnection(n, c))
    PROVE  AgesInv'
<1>1. UNCHANGED <<from, sessions, age, wanted, dialing, dialAge>>
  BY DEF AcceptFail, LoseConnection, dialVars
<1>2. PICK n \in Node, c \in Conns, v \in {"dead", "closed"} :
         /\ end' = [end EXCEPT ![n][c] = v]
         /\ v = "dead" => end[n][c] = "ready"
         /\ n # from[c] \/ end[n][c] \in {"ready", "open"}
  <2>1. ASSUME NEW c \in Conns, AcceptFail(c)
        PROVE  /\ peer(from[c]) \in Node /\ peer(from[c]) # from[c]
               /\ end' = [end EXCEPT ![peer(from[c])][c] = "closed"]
    BY <2>1, Peers DEF AcceptFail, EndsInv
  <2>2. ASSUME NEW n \in Node, NEW c \in Conns, LoseConnection(n, c)
        PROVE  /\ end[n][c] \in {"ready", "open"}
               /\ \/ end' = [end EXCEPT ![n][c] = "dead"] /\ end[n][c] = "ready"
                  \/ end' = [end EXCEPT ![n][c] = "closed"]
    BY <2>2 DEF LoseConnection, EndsInv
  <2> QED BY <2>1, <2>2
<1>3. \A m \in Node, d \in Conns : end'[m][d] = IF m = n /\ d = c THEN v ELSE end[m][d]
  BY <1>2 DEF EndsInv
<1>4. \A d \in Conns : Arriving(d)' => Arriving(d)
  <2> SUFFICES ASSUME NEW d \in Conns, Arriving(d)' PROVE Arriving(d)
    OBVIOUS
  <2>1. from[d] \in Node /\ peer(from[d]) \in Node
    BY Peers DEF EndsInv
  <2> QED BY <2>1, <1>1, <1>2, <1>3 DEF Arriving
<1>5. ArrivingAges' /\ HalfOpenAges' /\ UpAges'
  BY <1>1, <1>2, <1>3, <1>4, QuietKeepsAges
<1> QED BY <1>1, <1>5 DEF AgesInv, DialAges

\* HandleConnection, for a connection that was dialled here or arrives here.
LEMMA HandleKeepsAges ==
    ASSUME EndsInv, AgesInv, NEW n \in Node, NEW c \in Conns,
           HandleFrame(n), HandleTakes(n, c) \/ HandleRefuses(n, c),
           from' = from,
           \/ from[c] = n /\ end[n][c] \in {"ready", "dead"}
           \/ from[c] = peer(n) /\ Arriving(c)
    PROVE  /\ ArrivingAges' /\ HalfOpenAges' /\ UpAges'
           /\ \A m \in Node : age'[m] = 0 \/ (sessions'[m] = sessions[m] /\ age'[m] = age[m])
<1> DEFINE p == peer(n)
<1>0. p \in Node /\ p # n /\ peer(p) = n /\ \A m \in Node : m = n \/ m = p
  BY Peers
<1>1. \A m \in Node : age'[m] = 0 \/ (sessions'[m] = sessions[m] /\ age'[m] = age[m])
  BY DEF HandleFrame, HandleTakes, HandleRefuses
<1>2. end'[p] = end[p] /\ sessions'[p] = sessions[p] /\ age'[p] = age[p]
  BY <1>0 DEF HandleFrame
<1>3. end'[n][c] \in {"open", "closed"}
  BY DEF HandleTakes, HandleRefuses
<1>4. \A d \in Conns \ {c} :
         \/ end'[n][d] = end[n][d]
         \/ end'[n][d] = "closed" /\ age'[n] = 0 /\ sessions'[n] = c
  <2>1. CASE HandleTakes(n, c)
    BY <2>1 DEF HandleTakes
  <2>2. CASE HandleRefuses(n, c)
    BY <2>2 DEF HandleRefuses
  <2> QED BY <2>1, <2>2
<1>5. (age'[n] = 0 /\ sessions'[n] = c) \/ HandleRefuses(n, c)
  BY DEF HandleTakes
<1>6. sessions[n] # c
  <2>1. end[n][c] \in {"none", "ready", "dead"}
    BY <1>0 DEF Arriving
  <2> QED BY <2>1 DEF EndsInv
<1> HIDE DEF p
<1>7. ArrivingAges'
  <2> SUFFICES ASSUME NEW d \in Conns, Arriving(d)', sessions'[from[d]] # NoConn
               PROVE  /\ age'[from[d]] <= 1
                      /\ sessions'[from[d]] = d => age'[from[d]] = 0
    BY DEF ArrivingAges
  <2>0. /\ end'[peer(from[d])][d] = "none"
        /\ end'[from[d]][d] \in {"ready", "dead", "open", "closed"}
    BY DEF Arriving
  <2>1. CASE from[d] = n /\ age'[n] = 0
    BY <2>1
  <2>2. CASE from[d] = n /\ HandleRefuses(n, c)
    <3>1. end[p][d] = "none" /\ sessions'[n] = sessions[n] /\ age'[n] = age[n]
      BY <2>0, <2>2, <1>2 DEF HandleRefuses, p
    <3>2. end[n][d] \in {"ready", "dead", "open", "closed"}
      BY <2>0, <2>2, <3>1, <1>0 DEF HandleRefuses, Arriving
    <3>3. Arriving(d)
      BY <3>1, <3>2, <2>2 DEF Arriving, p
    <3> QED BY <3>1, <3>3, <2>2 DEF AgesInv, ArrivingAges
  <2>3. CASE from[d] = p
    <3>1. d # c /\ end'[n][d] = "none"
      BY <2>0, <2>3, <1>0, <1>3
    <3>2. end[n][d] = "none"
      BY <3>1, <1>4
    <3>3. Arriving(d)
      BY <3>2, <2>0, <2>3, <1>0, <1>2 DEF Arriving
    <3> QED BY <3>3, <2>3, <1>2 DEF AgesInv, ArrivingAges
  <2> QED BY <2>1, <2>2, <2>3, <1>0, <1>5 DEF EndsInv
<1>8. HalfOpenAges'
  <2> SUFFICES ASSUME NEW m \in Node, NEW d \in Conns, sessions'[m] = d,
                      end'[m][d] = "open", end'[peer(m)][d] \in {"ready", "dead"}
               PROVE  age'[m] = 0
    BY DEF HalfOpenAges
  <2>1. CASE m = n /\ HandleRefuses(n, c)
    BY <2>1, <1>0, <1>2, <1>6 DEF HandleRefuses, AgesInv, HalfOpenAges, p
  <2>2. CASE m = p
    <3>1. d # c /\ end[n][d] \in {"ready", "dead"}
      BY <2>2, <1>0, <1>3, <1>4
    <3> QED BY <3>1, <2>2, <1>0, <1>2 DEF AgesInv, HalfOpenAges
  <2> QED BY <2>1, <2>2, <1>0, <1>5
<1>9. UpAges'
  <2> SUFFICES ASSUME NEW d \in Conns, Up(d)' PROVE age'[n] = age'[p]
    BY <1>0, Peers DEF UpAges, Node
  <2>0. sessions'[n] = d /\ end'[n][d] = "open" /\ sessions[p] = d /\ end[p][d] = "open"
    BY <1>0, <1>2 DEF Up
  <2>1. CASE HandleRefuses(n, c)
    <3>1. sessions[n] = d /\ d # c /\ end[n][d] = "open"
      BY <2>0, <2>1, <1>6 DEF HandleRefuses
    <3>2. Up(d)
      BY <3>1, <2>0, <1>0 DEF Up
    <3>3. age[n] = age[p]
      BY <3>2, <1>0 DEF AgesInv, UpAges, Node
    <3> QED BY <3>3, <2>1 DEF HandleRefuses
  <2>2. CASE age'[n] = 0 /\ sessions'[n] = c
    <3>1. CASE from[c] = n /\ end[n][c] \in {"ready", "dead"}
      BY <3>1, <2>0, <2>2, <1>0, <1>2 DEF AgesInv, HalfOpenAges
    <3>2. CASE from[c] = p /\ Arriving(c)
      BY <3>2, <2>0, <2>2, <1>0, <1>2, PairAssumption DEF AgesInv, ArrivingAges
    <3> QED BY <3>1, <3>2 DEF p
  <2> QED BY <2>1, <2>2, <1>5
<1> QED BY <1>1, <1>7, <1>8, <1>9
\* Connect and the accept loop.
LEMMA ConnectAndAcceptKeepAges ==
    ASSUME EndsInv, AgesInv,
           \/ \E r \in Records : Connect(r)
           \/ \E c \in Conns, lost \in BOOLEAN : Accept(c, lost)
    PROVE  AgesInv'
<1>r. \A r \in Records : r.of \in Node
  BY PairAssumption DEF Record
<1>a. \A m \in Node : age[m] \in Nat
  BY PairAssumption DEF EndsInv
<1>1. ASSUME NEW r \in Records, Connect(r) PROVE AgesInv'
  <2> DEFINE c == dialing[r]
  <2>1. /\ c \in Conns /\ c # NoConn /\ from[c] = r.of
        /\ end[r.of][c] \in {"ready", "dead"}
    BY <1>1 DEF EndsInv, Connect
  <2>2. HandleFrame(r.of) /\ (HandleTakes(r.of, c) \/ HandleRefuses(r.of, c))
    BY <1>1, <1>r, <2>1, HandleIs DEF Connect
  <2>3. /\ from' = from /\ wanted' = wanted
        /\ dialing' = [dialing EXCEPT ![r] = NoConn]
        /\ dialAge' = [dialAge EXCEPT ![r] = 0]
    BY <1>1 DEF Connect
  <2> HIDE DEF c
  <2>4. /\ ArrivingAges' /\ HalfOpenAges' /\ UpAges'
        /\ \A m \in Node : age'[m] = 0 \/ (sessions'[m] = sessions[m] /\ age'[m] = age[m])
    BY <1>r, <2>1, <2>2, <2>3, HandleKeepsAges
  <2>5. wanted' \in [Records -> Nat] /\ dialAge' \in [Records -> {0, 1}]
    BY <2>3 DEF AgesInv
  <2>6. ASSUME NEW q \in Records, sessions'[q.of] # NoConn
        PROVE  /\ wanted'[q] > 0 => age'[q.of] = 0
               /\ dialing'[q] # NoConn => age'[q.of] <= dialAge'[q]
    <3>1. q.of \in Node /\ dialAge'[q] \in {0, 1} /\ wanted'[q] = wanted[q]
      BY <1>r, <2>3, <2>5
    <3>2. dialing'[q] # NoConn => dialing'[q] = dialing[q] /\ dialAge'[q] = dialAge[q]
      BY <2>3 DEF EndsInv, AgesInv
    <3>3. CASE age'[q.of] = 0
      BY <3>1, <3>3
    <3>4. CASE sessions'[q.of] = sessions[q.of] /\ age'[q.of] = age[q.of]
      BY <2>6, <3>1, <3>2, <3>4 DEF AgesInv, DialAges
    <3> QED BY <2>4, <3>1, <3>3, <3>4
  <2>7. DialAges'
    BY <2>6 DEF DialAges
  <2> QED BY <2>4, <2>5, <2>7 DEF AgesInv
<1>2. ASSUME NEW c \in Conns, NEW lost \in BOOLEAN, Accept(c, lost) PROVE AgesInv'
  <2> DEFINE n == peer(from[c])
  <2>1. n \in Node /\ from[c] = peer(n) /\ Arriving(c)
    BY <1>2, Peers DEF Accept, EndsInv
  <2>2. HandleConnection(n, c, lost) /\ UNCHANGED <<from, wanted, dialing, dialAge>>
    BY <1>2 DEF Accept, dialVars
  <2> HIDE DEF n
  <2>3. HandleFrame(n) /\ (HandleTakes(n, c) \/ HandleRefuses(n, c))
    BY <2>1, <2>2, HandleIs
  <2>4. /\ ArrivingAges' /\ HalfOpenAges' /\ UpAges'
        /\ \A m \in Node : age'[m] = 0 \/ (sessions'[m] = sessions[m] /\ age'[m] = age[m])
    BY <2>1, <2>2, <2>3, HandleKeepsAges
  <2>5. ASSUME NEW r \in Records, sessions'[r.of] # NoConn
        PROVE  /\ wanted'[r] > 0 => age'[r.of] = 0
               /\ dialing'[r] # NoConn => age'[r.of] <= dialAge'[r]
    <3>1. wanted' = wanted /\ dialing' = dialing /\ dialAge' = dialAge
      BY <2>2
    <3>2. r.of \in Node /\ dialAge[r] \in {0, 1}
      BY <1>r DEF AgesInv
    <3>3. CASE age'[r.of] = 0
      BY <3>1, <3>2, <3>3
    <3>4. CASE sessions'[r.of] = sessions[r.of] /\ age'[r.of] = age[r.of]
      BY <2>5, <3>1, <3>4 DEF AgesInv, DialAges
    <3> QED BY <2>4, <3>2, <3>3, <3>4
  <2>6. DialAges'
    BY <2>5 DEF DialAges
  <2>7. wanted' \in [Records -> Nat] /\ dialAge' \in [Records -> {0, 1}]
    BY <2>2 DEF AgesInv
  <2> QED BY <2>4, <2>6, <2>7 DEF AgesInv
<1> QED BY <1>1, <1>2

\* A registry entry goes: with its session, or with its process.
LEMMA EndingKeepsAges ==
    ASSUME EndsInv, AgesInv,
           \/ \E n \in Node : RunSessionEnds(n)
           \/ \E n \in Node, last \in {"closed", "gone"} : Restart(n, last)
    PROVE  AgesInv'
<1>r. \A r \in Records : r.of \in Node
  BY PairAssumption DEF Record
<1>1. PICK n \in Node :
         /\ from' = from
         /\ sessions'[n] = NoConn
         /\ \A m \in Node \ {n} : sessions'[m] = sessions[m] /\ age'[m] = age[m]
                                  /\ end'[m] = end[m]
         /\ \A c \in Conns : end'[n][c] = end[n][c] \/ end'[n][c] \in {"closed", "gone"}
         /\ \A c \in Conns : end[n][c] = "none" <=> end'[n][c] = "none"
         /\ \A r \in Records : r.of # n =>
               wanted'[r] = wanted[r] /\ dialing'[r] = dialing[r] /\ dialAge'[r] = dialAge[r]
         /\ wanted' \in [Records -> Nat] /\ dialAge' \in [Records -> {0, 1}]
  <2>1. ASSUME NEW n \in Node, RunSessionEnds(n)
        PROVE  /\ UNCHANGED <<end, from, wanted, dialing, dialAge>>
               /\ sessions'[n] = NoConn
               /\ \A m \in Node \ {n} : sessions'[m] = sessions[m] /\ age'[m] = age[m]
    BY <2>1 DEF RunSessionEnds, dialVars, EndsInv
  <2>2. ASSUME NEW n \in Node, NEW last \in {"closed", "gone"}, Restart(n, last)
        PROVE  /\ from' = from
               /\ sessions'[n] = NoConn
               /\ \A m \in Node \ {n} : sessions'[m] = sessions[m] /\ age'[m] = age[m]
                                        /\ end'[m] = end[m]
               /\ \A c \in Conns :
                     /\ end'[n][c] = end[n][c] \/ end'[n][c] \in {"closed", "gone"}
                     /\ end[n][c] = "none" <=> end'[n][c] = "none"
    <3>1. /\ end \in [Node -> [Conns -> EndStates]] /\ sessions \in [Node -> Conns \cup {NoConn}]
          /\ age \in [Node -> 0 .. Window]
      BY DEF EndsInv
    <3>2. /\ end' = [end EXCEPT ![n] = [c \in Conns |->
                        IF end[n][c] \in {"ready", "dead", "open"} THEN last ELSE end[n][c]]]
          /\ sessions' = [sessions EXCEPT ![n] = NoConn]
          /\ age' = [age EXCEPT ![n] = 0] /\ from' = from
      BY <2>2, <3>1 DEF Restart
    <3>3. /\ \A m \in Node \ {n} : sessions'[m] = sessions[m] /\ age'[m] = age[m]
                                   /\ end'[m] = end[m]
          /\ sessions'[n] = NoConn
      BY <3>1, <3>2
    <3>4. ASSUME NEW c \in Conns
          PROVE  end'[n][c] = IF end[n][c] \in {"ready", "dead", "open"} THEN last ELSE end[n][c]
      BY <3>1, <3>2
    <3>5. ASSUME NEW c \in Conns
          PROVE  /\ end'[n][c] = end[n][c] \/ end'[n][c] \in {"closed", "gone"}
                 /\ end[n][c] = "none" <=> end'[n][c] = "none"
      BY <3>4
    <3> QED BY <3>2, <3>3, <3>5
  <2>3. ASSUME NEW n \in Node, NEW last \in {"closed", "gone"}, Restart(n, last)
        PROVE  /\ \A r \in Records : r.of # n =>
                     wanted'[r] = wanted[r] /\ dialing'[r] = dialing[r] /\ dialAge'[r] = dialAge[r]
               /\ wanted' \in [Records -> Nat] /\ dialAge' \in [Records -> {0, 1}]
    BY <2>3 DEF Restart, AgesInv
  <2>4. wanted \in [Records -> Nat] /\ dialAge \in [Records -> {0, 1}]
    BY DEF AgesInv
  <2>5. CASE \E n \in Node : RunSessionEnds(n)
    <3>1. PICK n \in Node : RunSessionEnds(n)
      BY <2>5
    <3> WITNESS n \in Node
    <3> QED BY <2>1, <2>4, <3>1
  <2>6. CASE \E n \in Node, last \in {"closed", "gone"} : Restart(n, last)
    <3>1. PICK n \in Node, last \in {"closed", "gone"} : Restart(n, last)
      BY <2>6
    <3> WITNESS n \in Node
    <3> QED BY <2>2, <2>3, <3>1
  <2> QED BY <2>5, <2>6
<1>2. DialAges'
  BY <1>r, <1>1 DEF AgesInv, DialAges
<1>3. ArrivingAges'
  <2> SUFFICES ASSUME NEW c \in Conns, Arriving(c)', sessions'[from[c]] # NoConn
               PROVE  /\ age'[from[c]] <= 1
                      /\ sessions'[from[c]] = c => age'[from[c]] = 0
    BY <1>1 DEF ArrivingAges
  <2>1. from[c] \in Node \ {n} /\ peer(from[c]) = n
    BY <1>1, Peers DEF EndsInv
  <2>2. Arriving(c)
    BY <2>1, <1>1 DEF Arriving
  <2>3. sessions'[from[c]] = sessions[from[c]] /\ age'[from[c]] = age[from[c]]
    BY <2>1, <1>1
  <2> QED BY <2>2, <2>3 DEF AgesInv, ArrivingAges
<1>4. HalfOpenAges'
  <2> SUFFICES ASSUME NEW m \in Node, NEW c \in Conns, sessions'[m] = c,
                      end'[m][c] = "open", end'[peer(m)][c] \in {"ready", "dead"}
               PROVE  age'[m] = 0
    BY DEF HalfOpenAges
  <2>1. m # n
    BY <1>1, PairAssumption
  <2>3. peer(m) = n
    BY <2>1, Peers
  <2>2. end[n][c] \in {"ready", "dead"}
    BY <2>3, <1>1
  <2>4. sessions[m] = c /\ end[m][c] = "open" /\ age'[m] = age[m]
    BY <2>1, <1>1
  <2> QED BY <2>2, <2>3, <2>4 DEF AgesInv, HalfOpenAges
<1>5. UpAges'
  BY <1>1, PairAssumption DEF UpAges, Up
<1> QED BY <1>1, <1>2, <1>3, <1>4, <1>5 DEF AgesInv

\* Time passes only where nothing arrives, and no dial is older than 1.
LEMMA TickKeepsAges ==
    ASSUME EndsInv, AgesInv, Tick
    PROVE  AgesInv'
<1>r. \A r \in Records : r.of \in Node
  BY PairAssumption DEF Record
<1>a. \A m \in Node : age[m] \in Nat
  BY PairAssumption DEF EndsInv
<1>1. /\ UNCHANGED <<end, from, sessions, wanted, dialing>>
      /\ \A c \in Conns : ~ Arriving(c)
      /\ \A n \in Node, c \in Conns : end[n][c] \notin {"ready", "dead"}
      /\ dialAge' = [r \in Records |-> IF dialing[r] = NoConn THEN 0 ELSE 1]
  BY DEF Tick
<1>2. \A r \in Records : wanted[r] = 0 /\ (InDial(r) => dialAge[r] = 0)
  BY DEF Tick
<1>3. age' = [n \in Node |->
              IF sessions[n] = NoConn \/ age[n] = Window THEN age[n] ELSE age[n] + 1]
  BY DEF Tick
<1>4. \A m \in Node : age'[m] \in {age[m], age[m] + 1}
  BY <1>3
<1>5. wanted' \in [Records -> Nat] /\ dialAge' \in [Records -> {0, 1}]
  BY <1>1 DEF AgesInv
<1>6. DialAges'
  <2> SUFFICES ASSUME NEW r \in Records, sessions[r.of] # NoConn
               PROVE  /\ wanted'[r] > 0 => age'[r.of] = 0
                      /\ dialing[r] # NoConn => age'[r.of] <= dialAge'[r]
    BY <1>1 DEF DialAges
  <2>1. wanted'[r] = 0
    BY <1>1, <1>2
  <2>2. ASSUME dialing[r] # NoConn PROVE age'[r.of] <= dialAge'[r]
    <3>1. InDial(r)
      BY <2>2, <1>1, <1>r DEF InDial, EndsInv
    <3>2. age[r.of] <= 0
      BY <3>1, <2>2, <1>2 DEF AgesInv, DialAges
    <3>3. dialAge'[r] = 1
      BY <1>1, <2>2
    <3> QED BY <3>2, <3>3, <1>4, <1>a, <1>r
  <2> QED BY <2>1, <2>2
<1>7. ArrivingAges'
  BY <1>1 DEF ArrivingAges, Arriving
<1>8. HalfOpenAges'
  BY <1>1, Peers DEF HalfOpenAges
<1>9. UpAges'
  <2> SUFFICES ASSUME NEW c \in Conns, Up(c) PROVE age'[0] = age'[1]
    BY <1>1 DEF UpAges, Up
  <2>1. age[0] = age[1] /\ sessions[0] = c /\ sessions[1] = c
    BY Peers DEF AgesInv, UpAges, Up
  <2> QED BY <2>1, <1>3, Peers
<1> QED BY <1>5, <1>6, <1>7, <1>8, <1>9 DEF AgesInv
\* Every step keeps AgesInv, when the nodes dial each other's current id only.
LEMMA AgesInvNext ==
    ASSUME AllCurrent
    PROVE  EndsInv /\ AgesInv /\ [PairNext]_vars => AgesInv'
<1> SUFFICES ASSUME EndsInv, AgesInv, [PairNext]_vars PROVE AgesInv'
  OBVIOUS
<1>1. ASSUME UNCHANGED vars PROVE AgesInv'
  <2>1. UNCHANGED <<end, from, sessions, age, wanted, dialing, dialAge>>
    BY <1>1 DEF vars, connVars, dialVars
  <2>2. ArrivingAges' /\ HalfOpenAges' /\ UpAges'
    BY <2>1, QuietKeepsAges DEF Arriving
  <2> QED BY <2>1, <2>2 DEF AgesInv, DialAges
<1> QED BY <1>1, DialStepsKeepAges, DialDoneKeepsAges, ConnectAndAcceptKeepAges,
           ClosingKeepsAges, EndingKeepsAges, TickKeepsAges DEF PairNext

\* No shared session is as old as collisionWindow while a dial of either node, begun
\* before the session was there, is under way.
THEOREM AgesInvariant ==
    ASSUME AllCurrent
    PROVE  PairSpec => []AgesInv
<1>1. EndsInv /\ AgesInv /\ [PairNext]_vars => AgesInv'
  BY AgesInvNext
<1> QED BY <1>1, AgesInvInit, EndsInvariant, PTL DEF PairSpec

\* A connection that takes the place of a shared session has won a collision of two
\* dials: it is the higher id's, and what it replaces was the lower id's.
LEMMA TakenOnlyInCollision ==
    ASSUME EndsInv, NEW n \in Node, NEW c \in Conns, NEW d \in Conns, Up(c),
           age[n] <= 1, AddAccepts(n, d)
    PROVE  from[c] = 0 /\ from[d] = 1
<1>1. sessions[n] = c /\ end[n][c] = "open" /\ c # NoConn
  BY PairAssumption DEF Up
<1>2. age[n] < Window
  BY PairAssumption DEF EndsInv
<1>3. IsInitiator(n, c) # (n > peer(n)) /\ IsInitiator(n, d) = (n > peer(n))
  BY <1>1, <1>2 DEF AddAccepts
<1>4. from[c] \in {0, 1} /\ from[d] \in {0, 1}
  BY DEF EndsInv, Node
<1>5. CASE n = 0
  BY <1>3, <1>4, <1>5 DEF IsInitiator, peer
<1>6. CASE n = 1
  BY <1>3, <1>4, <1>6 DEF IsInitiator, peer
<1> QED BY <1>5, <1>6 DEF Node

\* HandleConnection of d ends a shared session c only by taking d for it.
LEMMA HandleEndsSession ==
    ASSUME EndsInv, NEW n \in Node, NEW c \in Conns, NEW d \in Conns, Up(c), ~ Up(c)',
           end[n][d] # "open", NEW lost, HandleConnection(n, d, lost)
    PROVE  AddAccepts(n, d) /\ sessions'[n] = d
<1>1. HandleFrame(n) /\ ((AddAccepts(n, d) /\ HandleTakes(n, d)) \/ HandleRefuses(n, d))
  BY HandleIs
<1>2. c # d
  BY DEF Up
<1>3. CASE HandleRefuses(n, d)
  BY <1>1, <1>2, <1>3 DEF HandleFrame, HandleRefuses, Up
<1> QED BY <1>1, <1>3 DEF HandleTakes
\* Restarts are counted.
LEMMA RestartsCounted == PairSpec => [](restarts \in Nat)
<1>1. PairInit => restarts \in Nat
  BY DEF PairInit
<1>2. restarts \in Nat /\ [PairNext]_vars => (restarts \in Nat)'
  <2> SUFFICES ASSUME restarts \in Nat, [PairNext]_vars PROVE restarts' \in Nat
    OBVIOUS
  <2>1. \A r \in Records :
           refreshPeers(r) \/ PeerJoined(r) \/ StartDial(r) \/ DialDone(r) \/ DialFail(r)
              \/ Connect(r) => restarts' = restarts
    BY DEF refreshPeers, PeerJoined, StartDial, DialDone, DialFail, Connect
  <2>2. \A c \in Conns : (\E lost \in BOOLEAN : Accept(c, lost)) \/ AcceptFail(c)
              => restarts' = restarts
    BY DEF Accept, AcceptFail
  <2>3. \A n \in Node, c \in Conns : LoseConnection(n, c) => restarts' = restarts
    BY DEF LoseConnection
  <2>4. \A n \in Node : RunSessionEnds(n) => restarts' = restarts
    BY DEF RunSessionEnds
  <2>5. \A n \in Node, last \in {"closed", "gone"} :
           Restart(n, last) => restarts' = restarts + 1
    BY DEF Restart
  <2>6. Tick \/ UNCHANGED vars => restarts' = restarts
    BY DEF Tick, vars
  <2> QED BY <2>1, <2>2, <2>3, <2>4, <2>5, <2>6 DEF PairNext
<1> QED BY <1>1, <1>2, PTL DEF PairSpec

\* What a step that ends a shared session without a restart has done.
LostToHigher(c) ==
    /\ from[c] = 0
    /\ \E n \in Node : sessions'[n] # NoConn /\ from'[sessions'[n]] = 1

\* One step, by what it does to the shared session c.
LEMMA SessionStep ==
    ASSUME EndsInv, AgesInv, [PairNext]_vars,
           restarts \in Nat, restarts' = restarts,
           NEW c \in Conns, Up(c), ~ Up(c)'
    PROVE  LostToHigher(c)
<1>r. \A r \in Records : r.of \in Node
  BY PairAssumption DEF Record
<1>0. \A n \in Node : sessions[n] = c /\ end[n][c] = "open"
  BY DEF Up
<1>1. ASSUME UNCHANGED <<end, sessions>> PROVE FALSE
  BY <1>1 DEF Up
<1>2. ASSUME NEW n \in Node, NEW d \in Conns, d # c, NEW v,
             end' = [end EXCEPT ![n][d] = v], sessions' = sessions
      PROVE  FALSE
  <2>1. \A m \in Node : end'[m][c] = end[m][c]
    BY <1>2 DEF EndsInv
  <2> QED BY <2>1, <1>2 DEF Up
<1>3. ASSUME NEW n \in Node, NEW d \in Conns, NEW lost, HandleConnection(n, d, lost),
             end[n][d] # "open", age[n] <= 1, from' = from
      PROVE  LostToHigher(c)
  <2>1. AddAccepts(n, d) /\ sessions'[n] = d
    BY <1>3, HandleEndsSession
  <2>2. from[c] = 0 /\ from[d] = 1
    BY <1>3, <2>1, TakenOnlyInCollision
  <2> QED BY <1>3, <2>1, <2>2, PairAssumption DEF LostToHigher
<1>4. ASSUME NEW r \in Records, StartDial(r) PROVE FALSE
  <2>1. CASE dialing[r] # NoConn
    BY <1>1, <1>4, <2>1 DEF StartDial
  <2>2. CASE dialing[r] = NoConn
    <3>1. PICK d \in Conns : Unused(d) /\ sessions' = sessions
                             /\ end' = [m \in Node |-> [end[m] EXCEPT ![d] = "none"]]
      BY <1>4, <2>2 DEF StartDial
    <3>2. d # c
      BY <3>1, <1>0, Peers DEF Unused
    <3>3. \A m \in Node : end'[m][c] = end[m][c]
      BY <3>1, <3>2 DEF EndsInv
    <3> QED BY <3>1, <3>3 DEF Up
  <2> QED BY <2>1, <2>2
<1>5. ASSUME NEW r \in Records, DialDone(r) PROVE FALSE
  <2>1. dialing[r] \in Conns \ {c}
    BY <1>5, <1>0, <1>r DEF DialDone, InDial, EndsInv
  <2>2. end' = [end EXCEPT ![r.of][dialing[r]] = "ready"] /\ sessions' = sessions
    BY <1>5 DEF DialDone
  <2> QED BY <2>1, <2>2, <1>2, <1>r
<1>6. ASSUME NEW r \in Records, Connect(r) PROVE LostToHigher(c)
  <2>0. /\ dialing[r] # NoConn /\ end[r.of][dialing[r]] \in {"ready", "dead"} /\ from' = from
        /\ \E lost : HandleConnection(r.of, dialing[r], lost)
    BY <1>6 DEF Connect
  <2>1. dialing[r] \in Conns /\ end[r.of][dialing[r]] # "open"
    BY <2>0 DEF EndsInv
  <2>2. sessions[r.of] # NoConn
    BY <1>0, <1>r, PairAssumption
  <2>3. age[r.of] <= dialAge[r]
    BY <2>0, <2>2 DEF AgesInv, DialAges
  <2>4. dialAge[r] \in {0, 1} /\ age[r.of] \in Nat
    BY <1>r, PairAssumption DEF AgesInv, EndsInv
  <2>5. age[r.of] <= 1
    <3> DEFINE x == age[r.of]
               y == dialAge[r]
    <3>1. x <= y /\ y \in {0, 1} /\ x \in Nat
      BY <2>3, <2>4
    <3> HIDE DEF x, y
    <3>2. x <= 1
      BY <3>1
    <3> QED BY <3>2 DEF x
  <2> QED BY <2>0, <2>1, <2>5, <1>3, <1>r
<1>7. ASSUME NEW d \in Conns, NEW lost, Accept(d, lost) PROVE LostToHigher(c)
  <2> DEFINE n == peer(from[d])
  <2>1. n \in Node /\ from[d] \in Node /\ n # from[d]
    BY Peers DEF EndsInv
  <2>2. Arriving(d) /\ end[n][d] # "open" /\ from' = from /\ HandleConnection(n, d, lost)
    BY <1>7 DEF Accept, Arriving
  <2>3. age[from[d]] <= 1
    BY <2>1, <2>2, <1>0, PairAssumption DEF AgesInv, ArrivingAges
  <2>4. age[0] = age[1]
    BY DEF AgesInv, UpAges
  <2>5. age[n] <= 1
    BY <2>1, <2>3, <2>4 DEF Node
  <2> HIDE DEF n
  <2> QED BY <2>1, <2>2, <2>5, <1>3
<1>8. ASSUME NEW d \in Conns, AcceptFail(d) PROVE FALSE
  <2>1. peer(from[d]) \in Node /\ end[peer(from[d])][d] = "none"
    BY <1>8, Peers DEF AcceptFail, Arriving, EndsInv
  <2>2. d # c
    BY <2>1, <1>0
  <2>3. end' = [end EXCEPT ![peer(from[d])][d] = "closed"] /\ sessions' = sessions
    BY <1>8 DEF AcceptFail
  <2> QED BY <2>1, <2>2, <2>3, <1>2
<1>9. ASSUME NEW n \in Node, NEW d \in Conns, LoseConnection(n, d) PROVE FALSE
  <2>1. d # c
    BY <1>9, <1>0, Peers DEF LoseConnection
  <2>2. \A m \in Node : end'[m][c] = end[m][c]
    BY <1>9, <2>1 DEF LoseConnection, EndsInv
  <2> QED BY <2>2, <1>9 DEF LoseConnection, Up
<1>10. ASSUME NEW n \in Node, RunSessionEnds(n) PROVE FALSE
  BY <1>10, <1>0 DEF RunSessionEnds
<1>11. ASSUME NEW n \in Node, NEW last, Restart(n, last) PROVE FALSE
  <2>1. restarts' = restarts + 1 /\ restarts < MaxRestarts
    BY <1>11 DEF Restart
  <2> QED BY <2>1
<1>12. ASSUME \/ \E r \in Records : refreshPeers(r) \/ PeerJoined(r) \/ DialFail(r)
              \/ Tick \/ UNCHANGED vars
       PROVE  FALSE
  BY <1>1, <1>12 DEF refreshPeers, PeerJoined, DialFail, Tick, vars, connVars
<1> QED BY <1>4, <1>5, <1>6, <1>7, <1>8, <1>9, <1>10, <1>11, <1>12 DEF PairNext

\* A shared session is lost to nothing but a restart, or the higher id's connection
\* that was on its way when the lower id's had won: dials and accepts that come later
\* do not tear it.  An outdated record (SessionOutdated.cfg) shows why the hypothesis
\* is needed.
THEOREM SharedSessionKept ==
    ASSUME AllCurrent
    PROVE  PairSpec => SessionKept
<1> DEFINE Kept == \A c \in Conns : Up(c) /\ ~ Up(c)' /\ restarts' = restarts =>
                      /\ from[c] = 0
                      /\ \E n \in Node : sessions'[n] # NoConn /\ from'[sessions'[n]] = 1
<1>1. EndsInv /\ AgesInv /\ restarts \in Nat /\ [PairNext]_vars => [Kept]_vars
  BY SessionStep DEF LostToHigher
<1> QED BY <1>1, EndsInvariant, AgesInvariant, RestartsCounted, PTL DEF PairSpec, SessionKept
=============================================================================
