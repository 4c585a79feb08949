------------------------------- MODULE AppLife -------------------------------
(***************************************************************************)
(* The life of the node process: New, Run and the shutdown, with the       *)
(* goroutines the shutdown waits for, composed with the TUN interface.     *)
(*                                                                         *)
(* Packets matter here only for where they make a goroutine wait: the TUN  *)
(* reader and the receiver of the AmneziaWG device push into a bounded     *)
(* shard, the shard's router worker pushes into the bounded channel to the *)
(* TUN writer or into the queue of a speed-limited peer.                   *)
(***************************************************************************)
EXTENDS TunIface

CONSTANTS
    Cap,          \* capacity of a shard and of toIface
    MaxPackets    \* bound on the packets that arrive

ASSUME AppAssumption == Cap \in Nat \ {0} /\ MaxPackets \in Nat

\* The steps of New and the resource each one leaves behind, if any.
Steps == <<"validateJWTSecret", "certs", "grpcLis", "db", "migrateDatabase", "router", "node", "tunIface",
           "awgDevice", "Up">>
Resources == {"grpcLis", "db", "node", "awgDevice"}
Workers == {"router", "node", "tun", "awg"}
Servers == {"grpc", "http"}

VARIABLES
    pc,        \* where main is
    at,        \* the next of Steps
    held,      \* the resources that are open
    ctx,       \* the context is done
    live,      \* the workers that workers.Wait waits for
    serve,     \* [Servers -> "none", "up" or "ended"]
    serveErr,  \* results waiting in the channel
    finished,  \* serveFinished
    reader,    \* where readLoop is
    writer,    \* writeLoop runs
    query,     \* a goroutine that nobody waits for is in a call to the database
    batch,     \* packets the batch goroutine of readLoop has still to push
    received,  \* packets the AmneziaWG device has still to push
    shard,     \* the packets in the shard, by where they come from
    inHand,    \* what the router worker is about to do with its packet
    toIface,   \* packets on their way to writeLoop
    queue,     \* of the speed-limited peer: "open" or "closed"
    packets    \* packets so far

main == <<pc, at, held, ctx, live, serve, serveErr, finished>>
loops == <<reader, writer, batch, query>>
path == <<received, shard, inHand, toIface, queue, packets>>
vars == <<main, loops, path, tunVars>>

AppInit ==
    /\ pc = "New" /\ at = 1 /\ held = {} /\ ctx = FALSE
    /\ live = {} /\ serve = [s \in Servers |-> "none"] /\ serveErr = 0 /\ finished = FALSE
    /\ TunInit
    /\ reader = "none" /\ writer = FALSE /\ batch = 0 /\ query = FALSE
    /\ received = 0 /\ shard = <<>> /\ inHand = "none" /\ toIface = 0 /\ queue = "open" /\ packets = 0

\* SIGINT or SIGTERM.
Signal ==
    /\ pc # "exited" /\ ~ctx
    /\ ctx' = TRUE
    /\ UNCHANGED <<pc, at, held, live, serve, serveErr, finished, loops, path, tunVars>>

-----------------------------------------------------------------------------
(* main: New.                                                              *)

New ==
    /\ pc = "New"
    /\ Steps[at] = "tunIface" => newTUN = "ok"
    /\ held' = held \cup ({Steps[at]} \cap Resources)
    /\ at' = at + 1
    /\ pc' = IF at = Len(Steps) THEN "Run" ELSE "New"
    /\ UNCHANGED <<ctx, live, serve, serveErr, finished, loops, path, tunVars>>

NewCallsNewTUN ==
    /\ pc = "New" /\ Steps[at] = "tunIface"
    /\ \E named \in BOOLEAN : NewTUN(named)
    /\ UNCHANGED <<main, loops, path>>

\* Mutant: New forgets what it has opened.
NewFailsOpen ==
    /\ pc = "New"
    /\ Steps[at] = "tunIface" => newTUN = "failed"
    /\ pc' = "exited"
    /\ UNCHANGED <<at, held, ctx, live, serve, serveErr, finished, loops, path, tunVars>>

\* A step fails: the deferred closeResources, then main panics with the error.
NewFails ==
    /\ pc = "New"
    /\ Steps[at] = "tunIface" => newTUN = "failed"
    /\ pc' = "closeResources"
    /\ UNCHANGED <<at, held, ctx, live, serve, serveErr, finished, loops, path, tunVars>>

-----------------------------------------------------------------------------
(* main: Run.                                                              *)

\* The managers have loaded their tables; the workers and the servers start.
Run ==
    /\ pc = "Run"
    /\ pc' = "select"
    /\ live' = Workers
    /\ serve' = [s \in Servers |-> "up"]
    /\ reader' = "select" /\ writer' = TRUE
    /\ UNCHANGED <<at, held, ctx, serveErr, finished, batch, query, path, tunVars>>

RunFails ==
    /\ pc = "Run"
    /\ pc' = "closeResources"
    /\ UNCHANGED <<at, held, ctx, live, serve, serveErr, finished, loops, path, tunVars>>

SelectCtx ==
    /\ pc = "select" /\ ctx
    /\ pc' = "stopRuntime"
    /\ UNCHANGED <<at, held, ctx, live, serve, serveErr, finished, loops, path, tunVars>>

SelectServeErr ==
    /\ pc = "select" /\ serveErr > 0
    /\ serveErr' = serveErr - 1 /\ finished' = TRUE
    /\ pc' = "stopRuntime"
    /\ ctx' = TRUE
    /\ UNCHANGED <<at, held, live, serve, loops, path, tunVars>>

\* The context, the mesh node and the servers, then Close of the TUN interface.  What is
\* already closed, or was never opened, is skipped.
stopRuntime ==
    /\ pc \in {"stopRuntime", "closeResources", "deferred"}
    /\ ctx' = TRUE
    /\ held' = held \ {"node", "grpcLis"}
    /\ pc' = IF pc = "stopRuntime" THEN "Close" ELSE "deferred Close"
    /\ IF newTUN = "ok" THEN Close("stopRuntime") ELSE UNCHANGED tunVars
    /\ UNCHANGED <<at, live, serve, serveErr, finished, loops, path>>

stopRuntimeReturns ==
    /\ pc \in {"Close", "deferred Close"}
    /\ IF newTUN = "ok" THEN CloseReturns("stopRuntime") ELSE UNCHANGED tunVars
    /\ pc' = IF pc = "Close" THEN "Wait" ELSE "closeDb"
    /\ UNCHANGED <<at, held, ctx, live, serve, serveErr, finished, loops, path>>

Wait ==
    /\ pc = "Wait" /\ live = {}
    /\ pc' = IF finished THEN "deferred" ELSE "serveErr"
    /\ UNCHANGED <<at, held, ctx, live, serve, serveErr, finished, loops, path, tunVars>>

ReceiveServeErr ==
    /\ pc = "serveErr" /\ serveErr > 0
    /\ serveErr' = serveErr - 1
    /\ pc' = "deferred"
    /\ UNCHANGED <<at, held, ctx, live, serve, finished, loops, path, tunVars>>

closeDb ==
    /\ pc = "closeDb"
    /\ held' = held \ {"db"}
    /\ pc' = "exited"
    /\ UNCHANGED <<at, ctx, live, serve, serveErr, finished, loops, path, tunVars>>

-----------------------------------------------------------------------------
(* The servers and the workers.                                            *)

\* Serve or ListenAndServe returns once its server is stopped.
ServeEnds(s) ==
    /\ pc # "exited" /\ serve[s] = "up" /\ "grpcLis" \notin held
    /\ serve' = [serve EXCEPT ![s] = "ended"]
    /\ serveErr' = serveErr + 1
    /\ UNCHANGED <<pc, at, held, ctx, live, finished, loops, path, tunVars>>

\* It may also fail on its own, a listen address in use for one.
ServeFails(s) ==
    /\ pc # "exited" /\ serve[s] = "up" /\ "grpcLis" \in held
    /\ serve' = [serve EXCEPT ![s] = "ended"]
    /\ serveErr' = serveErr + 1
    /\ UNCHANGED <<pc, at, held, ctx, live, finished, loops, path, tunVars>>

Ends(w) ==
    /\ pc # "exited" /\ ctx /\ w \in live
    /\ live' = live \ {w}
    /\ UNCHANGED <<pc, at, ctx, serve, serveErr, finished, loops, path>>

\* MeshNode.Run closes the node itself when it is the first to see the context.
NodeEnds ==
    /\ Ends("node")
    /\ held' = held \ {"node"}
    /\ UNCHANGED tunVars

\* A worker of the router is in the middle of a packet or sees the context.
RouterEnds ==
    /\ inHand = "none"
    /\ Ends("router")
    /\ UNCHANGED <<held, tunVars>>

\* Mutant: the loop over the events of the tunnel that Close waits for has no end.
AwgEndsNever ==
    /\ "awg" \notin live
    /\ Ends("awg")
    /\ UNCHANGED <<held, tunVars>>

\* Run of the transport closes its AmneziaWG device, which waits for its receivers.
AwgEnds ==
    /\ received = 0
    /\ Ends("awg")
    /\ held' = held \ {"awgDevice"}
    /\ UNCHANGED tunVars

\* Both loops of the TUN interface have ended: Run closes it, and returns when that is done.
TunCloses ==
    /\ pc # "exited" /\ "tun" \in live /\ reader = "ended" /\ ~writer
    /\ caller["Run"] = "none" /\ Close("Run")
    /\ UNCHANGED <<main, loops, path>>

TunEnds ==
    /\ CloseReturns("Run")
    /\ Ends("tun")
    /\ UNCHANGED held

started == reader # "none"

\* The peers manager writes the statistics of a peer or reads the rows for a sync pass, or
\* an RPC is handled.  Nobody waits for these: grpcServer.Stop does not wait for handlers.
Query ==
    /\ pc # "exited" /\ started /\ "db" \in held
    /\ ~query /\ query' = TRUE
    /\ UNCHANGED <<main, tunVars, reader, writer, batch, path>>

QueryReturns ==
    /\ pc # "exited" /\ query
    /\ query' = FALSE
    /\ UNCHANGED <<main, tunVars, reader, writer, batch, path>>

-----------------------------------------------------------------------------
(* The TUN interface: its own steps and its loops.                         *)

TunWorks ==
    /\ pc # "exited" /\ TunStep
    /\ UNCHANGED <<main, loops, path>>

TunAfterFunc ==
    /\ pc # "exited" /\ ctx /\ "tun" \in live /\ AfterFunc
    /\ UNCHANGED <<main, loops, path>>

\* The context is only looked at between two batches; the buffer is locked until the
\* batch read before has been pushed; a closed device makes Read fail.
readLoop ==
    /\ pc # "exited" /\ UNCHANGED <<main, writer, query, path, tunVars>>
    /\ \/ reader = "select" /\ reader' = (IF ctx THEN "ended" ELSE "Lock") /\ UNCHANGED batch
       \/ reader = "Lock" /\ batch = 0 /\ reader' = "Read" /\ UNCHANGED batch
       \/ reader = "Read" /\ ~link /\ reader' = "select" /\ UNCHANGED batch

\* Read returns a batch, which a goroutine of its own pushes.
Read ==
    /\ pc # "exited" /\ reader = "Read" /\ link /\ packets < MaxPackets
    /\ reader' = "select" /\ batch' = 1 /\ packets' = packets + 1
    /\ UNCHANGED <<main, tunVars, writer, query, received, shard, inHand, toIface, queue>>

HandleTunPacket ==
    /\ pc # "exited" /\ batch > 0 /\ Len(shard) < Cap
    /\ batch' = batch - 1 /\ shard' = Append(shard, "tun")
    /\ UNCHANGED <<main, tunVars, reader, writer, query, received, inHand, toIface, queue, packets>>

writeLoop ==
    /\ pc # "exited" /\ writer /\ toIface > 0
    /\ toIface' = toIface - 1
    /\ UNCHANGED <<main, loops, tunVars, received, shard, inHand, queue, packets>>

writeLoopEnds ==
    /\ pc # "exited" /\ writer /\ ctx
    /\ writer' = FALSE
    /\ UNCHANGED <<main, tunVars, reader, batch, query, path>>

-----------------------------------------------------------------------------
(* The AmneziaWG receiver, the router worker and the speed-limited peer.   *)

Receive ==
    /\ "awg" \in live /\ pc # "exited" /\ received = 0 /\ packets < MaxPackets
    /\ received' = 1 /\ packets' = packets + 1
    /\ UNCHANGED <<main, loops, tunVars, shard, inHand, toIface, queue>>

HandleTransportPacket ==
    /\ pc # "exited" /\ received > 0 /\ Len(shard) < Cap
    /\ received' = received - 1 /\ shard' = Append(shard, "transport")
    /\ UNCHANGED <<main, loops, tunVars, inHand, toIface, queue, packets>>

\* A packet is done with at once, or it goes from a client to the TUN or from the TUN to the
\* speed-limited peer.
Handle(to) ==
    /\ pc # "exited" /\ "router" \in live /\ inHand = "none" /\ shard # <<>>
    /\ to = "tun" => Head(shard) = "transport"
    /\ to = "peer" => Head(shard) = "tun"
    /\ shard' = Tail(shard) /\ inHand' = to
    /\ UNCHANGED <<main, loops, tunVars, received, toIface, queue, packets>>

ToTUN ==
    /\ pc # "exited" /\ inHand = "tun" /\ toIface < Cap
    /\ toIface' = toIface + 1 /\ inHand' = "none"
    /\ UNCHANGED <<main, loops, tunVars, received, shard, queue, packets>>

\* The packet is queued, or it is not for the queue is full or the context done.
PushLimited ==
    /\ pc # "exited" /\ inHand = "peer"
    /\ inHand' = "none"
    /\ UNCHANGED <<main, loops, tunVars, received, shard, toIface, queue, packets>>

\* select may as well choose to send on the closed queue, which ends the process: no deferred
\* call of another goroutine runs, and only the kernel's iptables rules remain.
PushLimitedPanics ==
    /\ pc # "exited" /\ inHand = "peer" /\ queue = "closed"
    /\ pc' = "exited"
    /\ held' = {} /\ link' = FALSE
    /\ UNCHANGED <<at, ctx, live, serve, serveErr, finished, loops, path, tunAt, out, rules, refused,
                   once, caller, newTUN>>

\* The worker of the queue closes it when its context is done, which is that of the node.
startWorkerEnds ==
    /\ pc # "exited" /\ queue = "open" /\ live # {} /\ ctx
    /\ queue' = "closed"
    /\ UNCHANGED <<main, loops, tunVars, received, shard, inHand, toIface, packets>>

-----------------------------------------------------------------------------
mainStep == New \/ NewCallsNewTUN \/ Run \/ SelectCtx \/ SelectServeErr \/ stopRuntime \/ stopRuntimeReturns \/ Wait \/ ReceiveServeErr \/ closeDb
routerStep == RouterEnds \/ ToTUN \/ PushLimited \/ \E to \in {"none", "tun", "peer"} : Handle(to)

AppNext ==
    \/ mainStep \/ Signal \/ NewFails \/ RunFails
    \/ \E s \in Servers : ServeEnds(s) \/ ServeFails(s)
    \/ Query \/ QueryReturns
    \/ NodeEnds \/ AwgEnds \/ TunCloses \/ TunEnds
    \/ TunWorks \/ TunAfterFunc \/ readLoop \/ Read \/ HandleTunPacket \/ writeLoop \/ writeLoopEnds
    \/ Receive \/ HandleTransportPacket \/ routerStep
    \/ PushLimitedPanics \/ startWorkerEnds

AppSpec == AppInit /\ [][AppNext]_vars

\* Every goroutine that can take its next step does.  Signals, failures and packets need
\* not come.
FairAppSpec ==
    /\ AppSpec
    /\ WF_vars(mainStep \/ (newTUN = "failed" /\ NewFails)) /\ WF_vars(routerStep)
    /\ \A s \in Servers : WF_vars(ServeEnds(s))
    /\ WF_vars(NodeEnds) /\ WF_vars(AwgEnds) /\ WF_vars(TunCloses) /\ WF_vars(TunEnds)
    /\ WF_vars(TunWorks) /\ WF_vars(TunAfterFunc)
    /\ WF_vars(readLoop) /\ WF_vars(HandleTunPacket) /\ WF_vars(HandleTransportPacket)
    /\ WF_vars(writeLoopEnds)

-----------------------------------------------------------------------------
(* Properties                                                              *)

AppTypeOK ==
    /\ at \in 1 .. Len(Steps) + 1 /\ held \subseteq Resources /\ live \subseteq Workers
    /\ ctx \in BOOLEAN /\ query \in BOOLEAN /\ finished \in BOOLEAN /\ writer \in BOOLEAN
    /\ serveErr \in 0 .. Cardinality(Servers)
    /\ Len(shard) \in 0 .. Cap /\ toIface \in 0 .. Cap /\ batch \in 0 .. 1 /\ received \in 0 .. 1
    /\ inHand \in {"none", "tun", "peer"} /\ queue \in {"open", "closed"}
    /\ TunTypeOK

panicked == queue = "closed" /\ inHand = "peer"

\* Whichever step of New or Run fails, and however Run ends, the process leaves neither a
\* listener nor the database, the mesh node or the TUN interface open, and masquerading on
\* only if iptables failed to turn it off: closeResources, or the deferred part of Run.  The
\* AmneziaWG device is closed if Run got as far as starting the workers; before that nobody
\* closes it.  (A panic in another goroutine is TunTakenDown's.)
NothingLeftOpen ==
    pc = "exited" /\ ~panicked =>
        /\ held \subseteq (IF started THEN {} ELSE {"awgDevice"})
        /\ ~link /\ ("nat" \in rules => refused)

\* A node that is told to stop, by a signal or by a server that fails, ends, if its queues
\* have room for the packets under way.
ProcessEnds ==
    ctx ~> pc = "exited"

\* Nobody is in a call to the database when the shutdown closes it.
DbUnused ==
    pc = "exited" /\ ~panicked => ~query

\* "TUN и правила iptables переживают процесс, поэтому их надо снять на любом выходе":
\* the TUN interface is taken down on every exit of the process, and masquerading turned
\* off if iptables does not fail.
TunTakenDown ==
    pc = "exited" => ~link /\ ("nat" \in rules => refused)

\* "readLoop висит в блокирующем read() и про ctx не знает: разбудить его может только
\* закрытие устройства": closing the device is enough for readLoop to end.
ReadLoopEnds ==
    (reader # "none" /\ ctx /\ ~link) ~> (reader = "ended" \/ pc = "exited")
=============================================================================
