----------------------------- MODULE PacketPath -----------------------------
(***************************************************************************)
(* Packets on their way through a running node: the loops that read them   *)
(* (TUN, mesh sessions, AmneziaWG), the sharded workers of the router, the *)
(* queues to the loops that write them, and the pool of message objects.   *)
(*                                                                         *)
(* A message is an object of the pool; its Data is memory that the next    *)
(* NewMessageCopyFrom overwrites once the object has been freed.  A queue  *)
(* of messages owns its objects.  The queues to the AmneziaWG device (in)  *)
(* and to the mesh (toMeshClients) hold slices of that memory instead.     *)
(***************************************************************************)
EXTENDS Integers, Sequences, FiniteSets, FiniteSetsExt, Functions

CONSTANTS
    Flows, Shards, Senders,
    From,       \* [Flows -> {"tun", "mesh", "transport"}], who reads the packets
    To,         \* [Flows -> SUBSET Routes], the routes the flow has, one after another
    Worker,     \* [Flows -> Shards], getWorker: a hash of the flow's addresses
    Objects,    \* names of message objects, numbers
    PerFlow,    \* [Flows -> bound on the packets of the flow]
    Cap,        \* capacity of every channel
    BatchSize,  \* packets read or written at once at the TUN
    ringSize    \* read buffers of the TUN

\* An AWGPeer, a ShapedRoute with a speed limit, one with a traffic limit only, a
\* RemoteClient, and the TUN (the gateway's services and the internet).
Routes == {"local", "shaped", "metered", "remote", "tun"}

NoPacket == [flow |-> "none", n |-> 0]
Packet == UNION {[flow : {f}, n : 1 .. PerFlow[f]] : f \in Flows}

ASSUME PathAssumption ==
    /\ From \in [Flows -> {"tun", "mesh", "transport"}]
    /\ To \in [Flows -> SUBSET Routes]
    /\ \A f \in Flows : "tun" \in To[f] => From[f] = "transport"
    /\ Worker \in [Flows -> Shards]
    /\ PerFlow \in [Flows -> Nat \ {0}]
    /\ Objects \subseteq Nat \ {0} /\ {Cap, BatchSize, ringSize} \subseteq Nat \ {0}

VARIABLES
    read,           \* [Flows -> packets read so far]
    ring,           \* [0 .. ringSize - 1 -> the rest of the batch in that buffer]
    bufferIndex,    \* the buffer readLoop uses next
    pool,           \* [Objects -> how often the object is in the pool]
    shardedWorkers, \* [Shards -> Seq of messages]
    handling,       \* [Shards -> the message a worker handles and its route, or NoWork]
    queue,          \* messages of the ShapedRoute
    toIface,        \* messages for the TUN
    msgs, sending,  \* writeLoop: its batch, and whether it is about to write it
    in,             \* slices for the AmneziaWG device
    toMeshClients,  \* slices for other nodes
    taken,          \* [Senders -> the slice a sender is about to send, or NoSlice]
    ctxDone,        \* the context of the application is cancelled
    twice           \* for the properties alone: objects that PushLimited and its caller
                    \* have both freed

readVars == <<read, ring, bufferIndex>>
objVars == <<pool, twice>>
workVars == <<shardedWorkers, handling>>
writeVars == <<toIface, msgs, sending>>
sliceVars == <<in, toMeshClients>>
endVars == <<taken, ctxDone>>
pathVars == <<readVars, objVars, workVars, queue, writeVars, sliceVars, endVars>>

\* A message, and a slice of its memory; pkt, what was copied in, is not in the code.
Message(o, p) == [obj |-> o, pkt |-> p]
NoSlice == Message(0, NoPacket)
PooledMessage == [obj : Objects, pkt : Packet]
Work(m, r) == [msg |-> m, to |-> r]
NoWork == Work(NoSlice, "none")

Messages == LET waiting == UNION {Range(shardedWorkers[s]) : s \in Shards}
                handled == {handling[s].msg : s \in Shards} \ {NoSlice}
            IN waiting \cup handled \cup Range(queue) \cup Range(toIface) \cup Range(msgs)
Slices == (Range(in) \cup Range(toMeshClients) \cup {taken[s] : s \in Senders}) \ {NoSlice}

PathInit ==
    /\ read = [f \in Flows |-> 0]
    /\ ring = [i \in 0 .. ringSize - 1 |-> <<>>] /\ bufferIndex = 0
    /\ pool = [o \in Objects |-> 0]
    /\ shardedWorkers = [s \in Shards |-> <<>>] /\ handling = [s \in Shards |-> NoWork]
    /\ queue = <<>> /\ toIface = <<>> /\ in = <<>> /\ toMeshClients = <<>>
    /\ msgs = <<>> /\ sending = FALSE
    /\ ctxDone = FALSE /\ twice = {}
    /\ taken = [s \in Senders |-> NoSlice]

-----------------------------------------------------------------------------
(* The pool.                                                               *)

\* sync.Pool returns any of its objects, or else New makes one, which is one that
\* nothing refers to.
Get(o) ==
    \/ pool[o] > 0
    \/ LET fresh == Objects \ {m.obj : m \in Messages \cup Slices} IN
       /\ \A x \in Objects : pool[x] = 0
       /\ o \in fresh /\ \A x \in fresh : o <= x

NewMessageCopyFrom(o) ==
    /\ Get(o)
    /\ pool' = [pool EXCEPT ![o] = IF @ > 0 THEN @ - 1 ELSE 0]
    /\ UNCHANGED twice

Free(freed) ==
    /\ pool' = [o \in Objects |-> pool[o] + IF o \in freed THEN 1 ELSE 0]
    /\ UNCHANGED twice

FreeTwice(o) ==
    /\ pool' = [pool EXCEPT ![o] = @ + 2]
    /\ twice' = twice \cup {o}

\* HandleTunPacket, HandleMeshPacket, HandleTransportPacket: they wait for room.
Handle(o, p) ==
    LET w == Worker[p.flow] IN
    /\ Len(shardedWorkers[w]) < Cap
    /\ shardedWorkers' = [shardedWorkers EXCEPT ![w] = Append(@, Message(o, p))]
    /\ UNCHANGED handling

-----------------------------------------------------------------------------
(* Reading.                                                                *)

\* RecvDatagram of a session, or ChannelTun.Write for the packets of a client.
Receive(f, o) ==
    LET p == [flow |-> f, n |-> read[f] + 1] IN
    /\ From[f] \in {"mesh", "transport"}
    /\ read[f] < PerFlow[f]
    /\ read' = [read EXCEPT ![f] = @ + 1]
    /\ NewMessageCopyFrom(o) /\ Handle(o, p)
    /\ UNCHANGED <<ring, bufferIndex, queue, writeVars, sliceVars, endVars>>

\* Mutant: the buffers take turns.
nextBufferRing == (bufferIndex + 1) % ringSize

\* No statement of readLoop changes bufferIndex.
nextBuffer == bufferIndex

\* readLoop: it has the lock of the buffer, which the goroutine of the buffer's last
\* batch released at its end.
readLoop(f, k) ==
    /\ From[f] = "tun" /\ read[f] + k <= PerFlow[f]
    /\ ring[bufferIndex] = <<>>
    /\ ring' = [ring EXCEPT ![bufferIndex] = [i \in 1 .. k |-> [flow |-> f, n |-> read[f] + i]]]
    /\ read' = [read EXCEPT ![f] = @ + k]
    /\ bufferIndex' = nextBuffer
    /\ UNCHANGED <<objVars, workVars, queue, writeVars, sliceVars, endVars>>

\* The goroutine of a batch hands its next packet to the router.
Batch(i, o) ==
    /\ ring[i] # <<>>
    /\ NewMessageCopyFrom(o) /\ Handle(o, Head(ring[i]))
    /\ ring' = [ring EXCEPT ![i] = Tail(@)]
    /\ UNCHANGED <<read, bufferIndex, queue, writeVars, sliceVars, endVars>>

-----------------------------------------------------------------------------
(* A worker of the router: it takes a message, looks up rules, limits and  *)
(* the route, and then waits for room at the message's destination.        *)

\* Packets from other clients of the node are not limited by their destination.
Limited(f, r) == r \in {"shaped", "metered"} /\ From[f] # "transport"

\* No route, the limit of the client that sent it, a missing rule or a forbidden
\* destination.
Refuse(m) ==
    /\ Free({m.obj})
    /\ UNCHANGED handling

\* The traffic limit of the client it is for: PushLimited returns without freeing the
\* message, which is left to the garbage collector.
Exceed(m) ==
    /\ \E r \in To[m.pkt.flow] : Limited(m.pkt.flow, r)
    /\ UNCHANGED <<objVars, handling>>

Run(s) ==
    /\ shardedWorkers[s] # <<>> /\ handling[s] = NoWork
    /\ LET m == Head(shardedWorkers[s]) IN
          \/ Refuse(m)
          \/ Exceed(m)
          \/ /\ \E r \in To[m.pkt.flow] : handling' = [handling EXCEPT ![s] = Work(m, r)]
             /\ UNCHANGED objVars
    /\ shardedWorkers' = [shardedWorkers EXCEPT ![s] = Tail(@)]
    /\ UNCHANGED <<readVars, queue, writeVars, sliceVars, endVars>>

\* Mutant: the message is freed although the TUN's loop has it.
ToTUNFrees(m) ==
    /\ Len(toIface) < Cap
    /\ toIface' = Append(toIface, m)
    /\ Free({m.obj})
    /\ UNCHANGED <<queue, sliceVars>>

ToTUN(m) ==
    /\ Len(toIface) < Cap
    /\ toIface' = Append(toIface, m)
    /\ UNCHANGED <<objVars, queue, sliceVars>>

\* The slice goes to the AmneziaWG device or to the mesh, once there is room, or the
\* context has ended and it goes nowhere: an error.
Queued(m, remote) ==
    \/ /\ ~remote /\ Len(in) < Cap
       /\ in' = Append(in, m) /\ UNCHANGED toMeshClients
    \/ /\ remote /\ Len(toMeshClients) < Cap
       /\ toMeshClients' = Append(toMeshClients, m) /\ UNCHANGED in
NotQueued == ctxDone /\ UNCHANGED sliceVars

\* SendDatagram of an AWGPeer, a ShapedRoute or a RemoteClient; the handler frees the
\* message whether or not there was an error.
SendDatagram(m, remote) ==
    /\ Queued(m, remote) \/ NotQueued
    /\ Free({m.obj})
    /\ UNCHANGED <<queue, toIface>>

\* With a speed limit, the queue owns the message; one it has no room for is dropped and
\* not freed.  When the context has ended the caller frees the message, if the select does
\* not choose the queue.  (A send to the closed queue ends the process: AppLife.)
PushShaped(m) ==
    /\ \/ Len(queue) = Cap /\ ~ctxDone /\ UNCHANGED <<objVars, queue>>
       \/ /\ Len(queue) < Cap /\ queue' = Append(queue, m)
          /\ UNCHANGED objVars
       \/ ctxDone /\ Free({m.obj}) /\ UNCHANGED queue
    /\ UNCHANGED <<toIface, sliceVars>>

\* Without a speed limit the message is sent and freed, and then offered to a queue there
\* is not.  After an error of SendDatagram, or when the context has ended, PushLimited
\* returns an error and its caller frees the message once more.
PushMetered(m) ==
    /\ \/ ~ctxDone /\ Queued(m, FALSE) /\ Free({m.obj})
       \/ ctxDone /\ (Queued(m, FALSE) \/ NotQueued) /\ FreeTwice(m.obj)
    /\ UNCHANGED <<queue, toIface>>

PushLimited(m, r) ==
    IF r = "shaped" THEN PushShaped(m) ELSE PushMetered(m)

PassOn(s) ==
    /\ handling[s] # NoWork
    /\ LET m == handling[s].msg
           r == handling[s].to
       IN CASE r = "tun" -> ToTUN(m)
            [] Limited(m.pkt.flow, r) -> PushLimited(m, r)
            [] OTHER -> SendDatagram(m, r = "remote")
    /\ handling' = [handling EXCEPT ![s] = NoWork]
    /\ UNCHANGED <<readVars, shardedWorkers, msgs, sending, endVars>>

-----------------------------------------------------------------------------
(* Writing.                                                                *)

\* startWorker of the ShapedRoute, once the limiter lets the packet go or the context has
\* ended.
startWorker ==
    /\ queue # <<>>
    /\ Queued(Head(queue), FALSE) \/ NotQueued
    /\ queue' = Tail(queue)
    /\ Free({Head(queue).obj})
    /\ UNCHANGED <<readVars, workVars, writeVars, endVars>>

\* ChannelTun.Read copies the slice for the device.
Read ==
    /\ in # <<>>
    /\ in' = Tail(in)
    /\ UNCHANGED <<readVars, objVars, workVars, queue, writeVars, toMeshClients, endVars>>

\* writeLoop takes messages while there are some and there is room, and drops those that
\* are empty or larger than the MTU.
writeLoop ==
    /\ ~sending /\ toIface # <<>> /\ Len(msgs) < BatchSize
    /\ toIface' = Tail(toIface)
    /\ \/ msgs' = Append(msgs, Head(toIface)) /\ UNCHANGED objVars
       \/ Free({Head(toIface).obj}) /\ UNCHANGED msgs
    /\ UNCHANGED <<readVars, workVars, queue, sending, sliceVars, endVars>>

\* Mutant: only a full batch is written.
sendWhenFull ==
    /\ ~sending /\ Len(msgs) = BatchSize
    /\ sending' = TRUE
    /\ UNCHANGED <<readVars, objVars, workVars, queue, toIface, msgs, sliceVars, endVars>>

\* goto send: the channel was empty for a moment, or the batch is full.
send ==
    /\ ~sending /\ msgs # <<>>
    /\ toIface = <<>> \/ Len(msgs) = BatchSize
    /\ sending' = TRUE
    /\ UNCHANGED <<readVars, objVars, workVars, queue, toIface, msgs, sliceVars, endVars>>

WriteBatch ==
    /\ sending
    /\ Free({msgs[i].obj : i \in DOMAIN msgs})
    /\ msgs' = <<>> /\ sending' = FALSE
    /\ UNCHANGED <<readVars, workVars, queue, toIface, sliceVars, endVars>>

\* One of the goroutines of MeshNode.Run that send to other nodes.
Take(s) ==
    /\ taken[s] = NoSlice /\ toMeshClients # <<>>
    /\ taken' = [taken EXCEPT ![s] = Head(toMeshClients)]
    /\ toMeshClients' = Tail(toMeshClients)
    /\ UNCHANGED <<readVars, objVars, workVars, queue, writeVars, in, ctxDone>>

\* The session may be gone; the packet then is, too.
Send(s) ==
    /\ taken[s] # NoSlice
    /\ taken' = [taken EXCEPT ![s] = NoSlice]
    /\ UNCHANGED <<readVars, objVars, workVars, queue, writeVars, sliceVars, ctxDone>>

\* The application stops.  Each goroutine goes on until it sees that.
Cancel ==
    /\ ~ctxDone
    /\ ctxDone' = TRUE
    /\ UNCHANGED <<readVars, objVars, workVars, queue, writeVars, sliceVars, taken>>

Write ==
    \/ startWorker \/ Read \/ writeLoop \/ send \/ WriteBatch
    \/ \E s \in Senders : Take(s) \/ Send(s)

PathNext ==
    \/ \E f \in Flows, o \in Objects : Receive(f, o)
    \/ \E f \in Flows, k \in 1 .. BatchSize : readLoop(f, k)
    \/ \E i \in 0 .. ringSize - 1, o \in Objects : Batch(i, o)
    \/ \E s \in Shards : Run(s) \/ PassOn(s)
    \/ Write
    \/ Cancel

PathSpec == PathInit /\ [][PathNext]_pathVars

\* Every goroutine goes on while it can; the device and the limiter take packets.
FairPathSpec ==
    /\ PathSpec
    /\ \A i \in 0 .. ringSize - 1 : WF_pathVars(\E o \in Objects : Batch(i, o))
    /\ \A s \in Shards : WF_pathVars(Run(s)) /\ WF_pathVars(PassOn(s))
    /\ WF_pathVars(startWorker) /\ WF_pathVars(Read)
    /\ WF_pathVars(writeLoop) /\ WF_pathVars(send) /\ WF_pathVars(WriteBatch)
    /\ \A s \in Senders : WF_pathVars(Take(s)) /\ WF_pathVars(Send(s))

-----------------------------------------------------------------------------
(* Properties                                                              *)

PathTypeOK ==
    /\ read \in [Flows -> Nat]
    /\ ring \in [0 .. ringSize - 1 -> Seq(Packet)] /\ bufferIndex \in 0 .. ringSize - 1
    /\ pool \in [Objects -> Nat]
    /\ shardedWorkers \in [Shards -> Seq(PooledMessage)]
    /\ {queue, toIface, msgs, in, toMeshClients} \subseteq Seq(PooledMessage)
    /\ handling \in [Shards -> [msg : PooledMessage, to : Routes] \cup {NoWork}]
    /\ taken \in [Senders -> PooledMessage \cup {NoSlice}]
    /\ twice \subseteq Objects
    /\ \A s \in Shards : Len(shardedWorkers[s]) <= Cap
    /\ Len(in) <= Cap /\ Len(queue) <= Cap /\ Len(msgs) <= BatchSize

\* The messages an object is, over all queues that own their messages.
holders(o) ==
    Cardinality({x \in Shards \X (1 .. Cap) :
                    x[2] <= Len(shardedWorkers[x[1]]) /\ shardedWorkers[x[1]][x[2]].obj = o})
    + Cardinality({s \in Shards : handling[s].msg.obj = o})
    + Cardinality({i \in DOMAIN queue : queue[i].obj = o})
    + Cardinality({i \in DOMAIN toIface : toIface[i].obj = o})
    + Cardinality({i \in DOMAIN msgs : msgs[i].obj = o})

\* An object is in the pool once, or one message, or neither; so Free is called at most
\* once for a message, and no other packet is copied into a message that waits for a
\* worker or in one, for the TUN or in a ShapedRoute, whichever route, limit or error it
\* meets.  The exception are the messages of a route without a speed limit after the
\* context has ended: PushLimited and its caller free them both.
OwnedOnce ==
    \A o \in Objects \ twice : pool[o] + holders(o) <= 1

\* A flow that keeps to one way out: the TUN, the queue of a ShapedRoute, or the device.
OneWay(f) == To[f] \in {{"tun"}, {"shaped"}} \/ To[f] \subseteq {"local", "metered"}

\* What is in the node of such a flow once a worker's channel has it, from the end of the
\* way to its start.
Way(f) ==
    LET w == handling[Worker[f]]
        out == IF To[f] = {"tun"} THEN msgs \o toIface ELSE in \o queue
        all == out \o (IF w = NoWork THEN <<>> ELSE <<w.msg>>) \o shardedWorkers[Worker[f]]
    IN SelectSeq(all, LAMBDA m : m.pkt.flow = f)

\* The packets of such a flow leave in the order in which they were read: on its way none
\* is ahead of an earlier one, nor of one that is still in a read buffer.  There is one
\* worker per flow, and one read buffer in use at a time.
FlowOrder ==
    \A f \in Flows : OneWay(f) =>
        /\ \A i, j \in DOMAIN Way(f) : i < j => Way(f)[i].pkt.n < Way(f)[j].pkt.n
        /\ \A b \in 0 .. ringSize - 1 : \A p \in Range(ring[b]) :
              p.flow = f => \A i \in DOMAIN Way(f) : Way(f)[i].pkt.n < p.n

\* In a node that is not told to stop no packet stays for ever: whatever was read is passed
\* on or dropped, although readers wait for a full shard, and a worker with the message it
\* holds for a full queue to the TUN, to the device or to the mesh.
AllDrained ==
    \/ <>ctxDone
    \/ <>[](Messages \cup Slices = {} /\ \A i \in 0 .. ringSize - 1 : ring[i] = <<>>)

\* "Берем ОЧИЩЕННЫЙ готовый объект из пула": an object from the pool is ready for a new
\* packet, so no packet is copied over one whose slice still waits.
SliceIntact ==
    \A m \in Slices, k \in Messages : m.obj = k.obj => m.pkt = k.pkt

\* The same sentence: the pool has an object that nobody uses, and has it once.
OneOwner ==
    \A o \in Objects : pool[o] + holders(o) <= 1
=============================================================================
