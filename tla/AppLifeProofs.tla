--------------------------- MODULE AppLifeProofs ---------------------------
(***************************************************************************)
(* What holds of the node process for every capacity of its queues and any *)
(* number of packets: the TUN interface is down once anyone has seen it    *)
(* closed, and what a process that ends without a panic leaves open.       *)
(***************************************************************************)
EXTENDS AppLife, TLAPS

-----------------------------------------------------------------------------
(* The steps of the two constructors, by number.                           *)

\* NewTUN: the device is made by the second step, masquerading is set up by the eleventh,
\* and the ninth finds the outgoing interface if nobody has named it.
LEMMA TunStepNumbers ==
    /\ Len(TunSteps) = 13
    /\ \A i \in 1 .. 13 : /\ TunSteps[i] = "CreateTUN" <=> i = 2
                          /\ TunSteps[i] = "getDefaultInterface" <=> i = 9
                          /\ TunSteps[i] = "nat" <=> i = 11
                          /\ i <= 2 => TunSteps[i] \notin Appended
  BY DEF TunSteps, Appended

\* New: the TUN interface is made by the eighth step.
LEMMA StepNumbers ==
    /\ Len(Steps) = 10
    /\ \A i \in 1 .. 10 : Steps[i] = "tunIface" <=> i = 8
  BY DEF Steps

-----------------------------------------------------------------------------
(* The TUN interface.                                                      *)

\* Masquerading is only ever on when the outgoing interface is known, which is what close
\* needs to take it away; the once of Close opens when NewTUN has given up or returned; and a
\* Close that has returned, to anyone, has gone through all of close, after which the rule is
\* there only if iptables refused to delete it.
TunInv ==
    /\ tunAt \in Nat /\ caller \in [Closers -> {"none", "waiting", "returned"}]
    /\ newTUN = "none" => tunAt = 0
    /\ newTUN \in {"none", "running"} => once = "fresh"
    /\ newTUN \in {"running", "failing"} => tunAt \in 1 .. 13
    /\ newTUN # "ok" => \A c \in Closers : caller[c] = "none"
    /\ newTUN = "failed" => tunAt <= 2 \/ once = "done"
    /\ tunAt <= 2 => ~link
    /\ tunAt > 9 => out
    /\ "nat" \in rules => tunAt > 11
    /\ once \in {"rules", "done"} => ~link
    /\ once = "done" => ("nat" \in rules => refused)
    /\ \A c \in Closers : caller[c] = "returned" => once = "done"

\* The interface before NewTUN.
LEMMA TunInvInit == TunInit => TunInv
  BY DEF TunInit, TunInv

\* NewTUN begins.
LEMMA NewTUNKeepsTunInv ==
    ASSUME TunInv, NEW named \in BOOLEAN, NewTUN(named)
    PROVE  TunInv'
  BY DEF NewTUN, TunInv

\* One step of NewTUN.
LEMMA SucceedKeepsTunInv ==
    ASSUME TunInv, Succeed
    PROVE  TunInv'
<1>1. tunAt \in 1 .. 13 /\ once = "fresh" /\ newTUN = "running" /\ \A c \in Closers : caller[c] = "none"
  BY DEF Succeed, TunInv
<1>2. "nat" \in rules' => tunAt' > 11
  BY <1>1, TunStepNumbers DEF Succeed, TunInv
<1>3. tunAt' <= 2 => ~link'
  <2>1. tunAt' <= 2 => tunAt <= 2 /\ TunSteps[tunAt] # "CreateTUN"
    BY <1>1, TunStepNumbers DEF Succeed
  <2>2. (tunAt <= 2 => ~link) /\ link' = (link \/ TunSteps[tunAt] = "CreateTUN")
    BY DEF Succeed, TunInv
  <2> QED
    BY <2>1, <2>2, Zenon
<1>4. tunAt' > 9 => out'
  <2>1. tunAt' > 9 => tunAt > 9 \/ TunSteps[tunAt] = "getDefaultInterface"
    BY <1>1, TunStepNumbers DEF Succeed
  <2>2. (tunAt > 9 => out) /\ out' = (out \/ TunSteps[tunAt] = "getDefaultInterface")
    BY DEF Succeed, TunInv
  <2> QED
    BY <2>1, <2>2, Zenon
<1>5. newTUN' = (IF tunAt = 13 THEN "ok" ELSE "running") /\ tunAt' = tunAt + 1
  BY TunStepNumbers DEF Succeed
<1> QED
  BY <1>1, <1>2, <1>3, <1>4, <1>5 DEF Succeed, TunInv

\* The other steps of the interface: what fails, and the steps of close.
LEMMA TunStepKeepsTunInv ==
    ASSUME TunInv, TunStep
    PROVE  TunInv'
<1>1. CASE Succeed
  BY <1>1, SucceedKeepsTunInv
<1>2. CASE Fail
  BY <1>2 DEF Fail, TunInv
<1>3. CASE NewTUNReturns
  BY <1>3 DEF NewTUNReturns, TunInv
<1>4. CASE BeginClose
  BY <1>4 DEF BeginClose, TunInv
<1>5. CASE closeDevice
  BY <1>5 DEF closeDevice, TunInv
<1>6. CASE deleteRules
  <2>1. "nat" \in rules => tunAt > 8 /\ out
    BY DEF TunInv
  <2>2. "nat" \in rules' => refused'
    BY <1>6, <2>1 DEF deleteRules, Deleted
  <2> QED
    BY <1>6, <2>2 DEF deleteRules, TunInv
<1> QED
  BY <1>1, <1>2, <1>3, <1>4, <1>5, <1>6 DEF TunStep

\* A caller of Close enters closeOnce, or leaves it.
LEMMA CloseKeepsTunInv ==
    ASSUME TunInv, NEW c \in Closers, Close(c) \/ CloseReturns(c)
    PROVE  TunInv'
<1>1. CASE Close(c)
  BY <1>1 DEF Close, TunInv
<1>2. CASE CloseReturns(c)
  BY <1>2 DEF CloseReturns, TunInv
<1> QED
  BY <1>1, <1>2

\* Whoever closes the device early, the interface only comes down.
LEMMA LinkDownKeepsTunInv ==
    ASSUME TunInv, link' = FALSE, UNCHANGED <<tunAt, out, rules, refused, once, caller, newTUN>>
    PROVE  TunInv'
  BY DEF TunInv

\* The steps of other goroutines leave the interface alone.
LEMMA UnchangedKeepsTunInv ==
    ASSUME TunInv, UNCHANGED tunVars
    PROVE  TunInv'
  BY DEF TunInv, tunVars

-----------------------------------------------------------------------------
(* The process.                                                            *)

\* Where main is while workers may run: from Run to workers.Wait.
Running == {"select", "stopRuntime", "Close", "Wait"}

\* How far New and the shutdown have come tells what is open: NewTUN is under way only in the
\* eighth step of New; no worker lives past workers.Wait, and the AmneziaWG device no longer
\* than its worker, if that has been started; and what runs up to closeDb has closed everything
\* but the database and a device without a worker, waiting for Close to return.
MainInv ==
    /\ at \in Nat /\ held \subseteq Resources
    /\ pc = "New" => /\ at \in 1 .. 10 /\ queue # "closed"
                     /\ at < 8 => newTUN = "none"
                     /\ at > 8 => newTUN = "ok"
    /\ pc # "New" => newTUN \in {"none", "failed", "ok"}
    /\ pc \in {"New", "Run"} => live = {} /\ ~started
    /\ started /\ "awgDevice" \in held => "awg" \in live
    /\ live # {} => pc \in Running \/ (pc = "exited" /\ panicked)
    /\ pc \in {"deferred Close", "closeDb"} => held \subseteq {"db", "awgDevice"}
    /\ pc = "closeDb" => (newTUN = "ok" => caller["stopRuntime"] = "returned")
    /\ pc = "exited" => \/ panicked
                        \/ /\ held \subseteq {"awgDevice"}
                           /\ newTUN = "ok" => caller["stopRuntime"] = "returned"

AppInv == TunInv /\ MainInv

\* The process before New.
LEMMA AppInvInit == AppInit => AppInv
<1> SUFFICES ASSUME AppInit PROVE AppInv
  OBVIOUS
<1>1. TunInv
  BY TunInvInit DEF AppInit
<1>2. MainInv
  BY DEF AppInit, TunInit, MainInv, Running, started
<1> QED
  BY <1>1, <1>2 DEF AppInv

\* Once NewTUN has returned its result stands, and before it is called nothing changes it.
LEMMA TunStepKeepsResult ==
    ASSUME TunStep
    PROVE  caller' = caller /\ (newTUN \in {"none", "failed", "ok"} => newTUN' = newTUN)
  BY DEF TunStep, Succeed, Fail, NewTUNReturns, BeginClose, closeDevice, deleteRules

\* A step of another goroutine than main, which may at most end a worker and close the node
\* or, with its worker, the AmneziaWG device.
LEMMA OthersKeepMainInv ==
    ASSUME MainInv, pc # "exited", UNCHANGED <<pc, at>>, started' = started,
           held' \subseteq held, live' \subseteq live,
           "awg" \in live /\ "awg" \notin live' => "awgDevice" \notin held',
           queue' = queue \/ live # {},
           newTUN \in {"none", "failed", "ok"} => newTUN' = newTUN,
           caller'["stopRuntime"] = caller["stopRuntime"]
    PROVE  MainInv'
<1>1. (at \in Nat /\ held \subseteq Resources)'
  BY DEF MainInv, Resources
<1>2. live' # {} => live # {}
  OBVIOUS
<1>3. started' /\ "awgDevice" \in held' => "awg" \in live'
  BY DEF MainInv
<1>4. pc \in {"New", "Run"} => live' = {} /\ ~started'
  BY DEF MainInv
<1> QED
  BY <1>1, <1>2, <1>3, <1>4 DEF MainInv, Running

\* A step of New adds what it opens to what is held.
LEMMA NewKeepsMainInv ==
    ASSUME MainInv, New
    PROVE  MainInv'
<1>1. /\ pc = "New" /\ at \in 1 .. 10 /\ live = {} /\ live' = {} /\ queue' = queue
      /\ at' = at + 1 /\ newTUN' = newTUN /\ pc' = IF at = 10 THEN "Run" ELSE "New"
  BY StepNumbers DEF New, MainInv, tunVars, path
<1>2. held' \subseteq Resources
  BY DEF New, MainInv
<1>3. ~started'
  BY DEF New, MainInv, started, loops
<1>4. at < 8 => newTUN = "none"
  BY <1>1 DEF MainInv
<1>5. at >= 8 => newTUN = "ok"
  <2>1. at = 8 => newTUN = "ok"
    BY StepNumbers DEF New
  <2> QED
    BY <1>1, <2>1 DEF MainInv
<1> QED
  BY <1>1, <1>2, <1>3, <1>4, <1>5 DEF MainInv, Running

\* New gives up: NewTUN, if it was called, has returned.
LEMMA NewFailsKeepsMainInv ==
    ASSUME MainInv, NewFails
    PROVE  MainInv'
<1>1. pc = "New" /\ at \in 1 .. 10 /\ newTUN \in {"none", "failed", "ok"}
  BY StepNumbers DEF NewFails, MainInv
<1> QED
  BY <1>1 DEF NewFails, MainInv, Running, started, loops, tunVars

\* Run, from its start to workers.Wait.
LEMMA RunKeepsMainInv ==
    ASSUME MainInv, Run \/ RunFails \/ SelectCtx \/ SelectServeErr \/ Wait \/ ReceiveServeErr
    PROVE  MainInv'
<1>1. CASE Run
  BY <1>1 DEF Run, MainInv, Running, Workers, started, tunVars
<1>2. CASE RunFails
  BY <1>2 DEF RunFails, MainInv, Running, started, loops, tunVars
<1>3. CASE SelectCtx
  BY <1>3 DEF SelectCtx, MainInv, Running, started, loops, tunVars
<1>4. CASE SelectServeErr
  BY <1>4 DEF SelectServeErr, MainInv, Running, started, loops, tunVars
<1>5. CASE Wait
  BY <1>5 DEF Wait, MainInv, Running, started, loops, tunVars
<1>6. CASE ReceiveServeErr
  BY <1>6 DEF ReceiveServeErr, MainInv, Running, started, loops, tunVars
<1> QED
  BY <1>1, <1>2, <1>3, <1>4, <1>5, <1>6

\* The shutdown closes the node and the listener, waits for Close, and then closes the database.
LEMMA StopKeepsMainInv ==
    ASSUME MainInv, TunInv, stopRuntime \/ stopRuntimeReturns \/ closeDb
    PROVE  MainInv'
<1>1. CASE stopRuntime
  <2>1. newTUN' = newTUN
    BY <1>1 DEF stopRuntime, Close, tunVars
  <2>2. held' \subseteq {"db", "awgDevice"} /\ held' \subseteq held /\ started' = started
    BY <1>1 DEF stopRuntime, MainInv, Resources, started, loops
  <2> QED
    BY <1>1, <2>1, <2>2 DEF stopRuntime, MainInv, Running, Resources
<1>2. CASE stopRuntimeReturns
  <2>1. newTUN' = newTUN
    BY <1>2 DEF stopRuntimeReturns, CloseReturns, tunVars
  <2>2. newTUN = "ok" => caller'["stopRuntime"] = "returned"
    BY <1>2 DEF stopRuntimeReturns, CloseReturns, TunInv, Closers
  <2> QED
    BY <1>2, <2>1, <2>2 DEF stopRuntimeReturns, MainInv, Running, started, loops
<1>3. CASE closeDb
  BY <1>3 DEF closeDb, MainInv, Running, started, loops, tunVars
<1> QED
  BY <1>1, <1>2, <1>3

\* The goroutines of the TUN interface.
LEMMA TunKeepsAppInv ==
    ASSUME AppInv, TunCloses \/ TunEnds \/ TunWorks \/ TunAfterFunc
    PROVE  AppInv'
<1>1. CASE TunCloses
  <2>1. Close("Run") /\ "Run" \in Closers
    BY <1>1 DEF TunCloses, Closers
  <2>2. TunInv'
    BY <2>1, CloseKeepsTunInv DEF AppInv
  <2>3. newTUN' = newTUN /\ caller'["stopRuntime"] = caller["stopRuntime"]
    BY <2>1 DEF Close, AppInv, TunInv, Closers
  <2> QED
    BY <1>1, <2>2, <2>3, OthersKeepMainInv DEF TunCloses, AppInv, main, path, started, loops
<1>2. CASE TunEnds
  <2>1. CloseReturns("Run") /\ "Run" \in Closers
    BY <1>2 DEF TunEnds, Closers
  <2>2. TunInv'
    BY <2>1, CloseKeepsTunInv DEF AppInv
  <2>3. newTUN' = newTUN /\ caller'["stopRuntime"] = caller["stopRuntime"]
    BY <2>1 DEF CloseReturns, AppInv, TunInv, Closers
  <2> QED
    BY <1>2, <2>2, <2>3, OthersKeepMainInv DEF TunEnds, Ends, AppInv, path, started, loops
<1>3. CASE TunWorks
  <2>1. TunInv'
    BY <1>3, TunStepKeepsTunInv DEF TunWorks, AppInv
  <2> QED
    BY <1>3, <2>1, TunStepKeepsResult, OthersKeepMainInv DEF TunWorks, AppInv, main, path, started, loops
<1>4. CASE TunAfterFunc
  <2>1. TunInv'
    BY <1>4, LinkDownKeepsTunInv DEF TunAfterFunc, AfterFunc, AppInv
  <2> QED
    BY <1>4, <2>1, OthersKeepMainInv DEF TunAfterFunc, AfterFunc, AppInv, main, path, started, loops
<1> QED
  BY <1>1, <1>2, <1>3, <1>4

\* The servers, the workers that end and the steps on the way of a packet touch neither what
\* is open nor the TUN interface.
LEMMA PacketsKeepAppInv ==
    ASSUME AppInv,
           \/ \E s \in Servers : ServeEnds(s) \/ ServeFails(s)
           \/ Signal \/ NodeEnds \/ AwgEnds \/ RouterEnds \/ ToTUN \/ PushLimited
           \/ \E to \in {"none", "tun", "peer"} : Handle(to)
           \/ readLoop \/ Read \/ HandleTunPacket \/ writeLoop \/ writeLoopEnds
           \/ Receive \/ HandleTransportPacket \/ startWorkerEnds \/ Query \/ QueryReturns
    PROVE  AppInv'
<1>1. /\ pc # "exited" /\ UNCHANGED <<pc, at, tunVars>>
      /\ held' \subseteq held /\ live' \subseteq live /\ (queue' = queue \/ live # {})
      /\ "awg" \in live /\ "awg" \notin live' => "awgDevice" \notin held'
      /\ started' = started
  BY DEF ServeEnds, ServeFails, Signal, NodeEnds, AwgEnds, RouterEnds, Ends, ToTUN, PushLimited, Handle,
         readLoop, Read, HandleTunPacket, writeLoop, writeLoopEnds, Receive, HandleTransportPacket,
         startWorkerEnds, Query, QueryReturns, main, loops, path, started
<1>2. TunInv'
  BY <1>1, UnchangedKeepsTunInv DEF AppInv
<1>3. MainInv'
  BY <1>1, OthersKeepMainInv DEF AppInv, tunVars
<1> QED
  BY <1>2, <1>3 DEF AppInv

\* Every step of the process keeps the invariant.
LEMMA AppInvNext == AppInv /\ [AppNext]_vars => AppInv'
<1> SUFFICES ASSUME AppInv, [AppNext]_vars PROVE AppInv'
  OBVIOUS
<1>1. CASE New \/ NewFails \/ Run \/ RunFails \/ SelectCtx \/ SelectServeErr \/ Wait \/ ReceiveServeErr \/ closeDb
  <2>1. MainInv'
    BY <1>1, NewKeepsMainInv, NewFailsKeepsMainInv, RunKeepsMainInv, StopKeepsMainInv DEF AppInv
  <2>2. UNCHANGED tunVars
    BY <1>1 DEF New, NewFails, Run, RunFails, SelectCtx, SelectServeErr, Wait, ReceiveServeErr, closeDb
  <2> QED
    BY <2>1, <2>2, UnchangedKeepsTunInv DEF AppInv
<1>2. CASE NewCallsNewTUN
  <2>1. PICK named \in BOOLEAN : NewTUN(named)
    BY <1>2 DEF NewCallsNewTUN
  <2>2. TunInv'
    BY <2>1, NewTUNKeepsTunInv DEF AppInv
  <2>3. pc = "New" /\ at = 8 /\ UNCHANGED <<main, loops, path>>
    BY <1>2, StepNumbers DEF NewCallsNewTUN, AppInv, MainInv
  <2>4. MainInv'
    BY <2>3 DEF AppInv, MainInv, Running, main, path, loops, started
  <2> QED
    BY <2>2, <2>4 DEF AppInv
<1>3. CASE stopRuntime \/ stopRuntimeReturns
  <2>1. (\E c \in Closers : Close(c) \/ CloseReturns(c)) \/ UNCHANGED tunVars
    BY <1>3 DEF stopRuntime, stopRuntimeReturns, Closers
  <2>2. TunInv'
    BY <2>1, CloseKeepsTunInv, UnchangedKeepsTunInv DEF AppInv
  <2> QED
    BY <1>3, <2>2, StopKeepsMainInv DEF AppInv
<1>4. CASE TunCloses \/ TunEnds \/ TunWorks \/ TunAfterFunc
  BY <1>4, TunKeepsAppInv
<1>5. CASE PushLimitedPanics
  <2>1. TunInv'
    BY <1>5, LinkDownKeepsTunInv DEF PushLimitedPanics, AppInv
  <2>2. MainInv'
    BY <1>5 DEF PushLimitedPanics, AppInv, MainInv, Running, panicked, path, loops, started
  <2> QED
    BY <2>1, <2>2 DEF AppInv
<1>6. CASE UNCHANGED vars
  <2>1. UNCHANGED <<main, loops, path, tunVars>>
    BY <1>6 DEF vars
  <2>2. TunInv'
    BY <2>1, UnchangedKeepsTunInv DEF AppInv
  <2>3. MainInv'
    BY <2>1 DEF AppInv, MainInv, Running, panicked, main, path, loops, started, tunVars
  <2> QED
    BY <2>2, <2>3 DEF AppInv
<1> QED
  BY <1>1, <1>2, <1>3, <1>4, <1>5, <1>6, PacketsKeepAppInv DEF AppNext, mainStep, routerStep

-----------------------------------------------------------------------------
(* The theorems.                                                           *)

\* The invariant holds throughout the life of a process.
THEOREM AppInvariant == AppSpec => []AppInv
  BY AppInvInit, AppInvNext, PTL DEF AppSpec

\* Close of the TUN interface: when NewTUN has failed or anyone's Close has returned, the
\* interface is gone, whichever goroutine did the closing, and masquerading is off unless
\* iptables failed to delete the rule.
THEOREM CloseTakesDown == AppSpec => []ClosedMeansDown
<1>1. AppInv => ClosedMeansDown
  BY DEF AppInv, TunInv, ClosedMeansDown, closed
<1> QED
  BY <1>1, AppInvariant, PTL

\* New and Run: whatever fails, a process that ends without a panic has closed its listener, its
\* database, its mesh node and its TUN interface, its AmneziaWG device too if the workers were
\* started, and has turned masquerading off unless iptables failed to.
THEOREM ExitLeavesNothingOpen == AppSpec => []NothingLeftOpen
<1>1. AppInv => NothingLeftOpen
  <2> SUFFICES ASSUME AppInv, pc = "exited", ~panicked
               PROVE  /\ held \subseteq (IF started THEN {} ELSE {"awgDevice"})
                      /\ ~link /\ ("nat" \in rules => refused)
    BY DEF NothingLeftOpen
  <2>1. /\ held \subseteq {"awgDevice"} /\ newTUN \in {"none", "failed", "ok"}
        /\ newTUN = "ok" => caller["stopRuntime"] = "returned"
    BY DEF AppInv, MainInv
  <2>2. started => "awgDevice" \notin held
    BY DEF AppInv, MainInv, Running
  <2>3. tunAt <= 2 \/ once = "done"
    BY <2>1 DEF AppInv, TunInv, Closers
  <2> QED
    BY <2>1, <2>2, <2>3 DEF AppInv, TunInv
<1> QED
  BY <1>1, AppInvariant, PTL
=============================================================================
