----------------------------- MODULE SendPipeline -----------------------------
(****************************************************************************)
(* The client's workers between the dispatcher and the sockets (internal/   *)
(* client/async_runtime.go, over UDP): packets go through two queues to the *)
(* writers, datagrams through one to the processors, and StopAsyncRuntime   *)
(* stops all of it wherever it stands.  Packets and read buffers belong to  *)
(* pools: each goes back once, or two users would share it.                 *)
(****************************************************************************)
EXTENDS Integers, FiniteSets

CONSTANTS
    Tasks,            \* packets that the dispatcher sends
    Merged,           \* those whose item was given back when it was packed
    EncodeWorkers, WriteWorkers, ReadWorkers, ProcessWorkers,
    QueueRoom,        \* capacity of each of the three channels
    NoTask              \* a worker without a task

ASSUME SendPipelineAssumption ==
    /\ Merged \subseteq Tasks /\ QueueRoom \in Nat \ {0}
    /\ NoTask \notin Tasks /\ "exited" \notin Tasks \cup {NoTask}
    /\ IsFiniteSet(ReadWorkers) /\ IsFiniteSet(ProcessWorkers)

VARIABLES
    taskAt,       \* of each task: "new", "popped", "tx", "worker", "encoded", "over"
    freed,        \* how often its item went back to the pool
    encoder, writer,      \* what each worker has, or "exited"
    buffers,      \* of each reader and processor: read buffers it has (0 or 1), or -1
    received,     \* buffers in rxChannel
    given,        \* buffers out of the pool
    runtime       \* "runs", "cancelled", "stopped"

pipeVars == <<taskAt, freed, encoder, writer, buffers, received, given, runtime>>

InQueue(q) == {t \in Tasks : taskAt[t] = q}
RoomIn(q) == Cardinality(InQueue(q)) < QueueRoom
PutAt(t, at) == taskAt' = [taskAt EXCEPT ![t] = at]

PipeInit ==
    /\ taskAt = [t \in Tasks |-> "new"]
    /\ freed = [t \in Tasks |-> IF t \in Merged THEN 1 ELSE 0]
    /\ encoder = [w \in EncodeWorkers |-> NoTask] /\ writer = [w \in WriteWorkers |-> NoTask]
    /\ buffers = [w \in ReadWorkers \cup ProcessWorkers |-> 0]
    /\ received = 0 /\ given = 0 /\ runtime = "runs"

ReleaseAny(T) ==
    /\ taskAt' = [t \in Tasks |-> IF t \in T THEN "over" ELSE taskAt[t]]
    /\ freed' = [t \in Tasks |-> IF t \in T THEN freed[t] + 1 ELSE freed[t]]

(* ReleaseTXPacket of a task that is over                                   *)
Release(T) ==
    /\ taskAt' = [t \in Tasks |-> IF t \in T THEN "over" ELSE taskAt[t]]
    /\ freed' = [t \in Tasks |-> IF t \in T \ Merged THEN freed[t] + 1 ELSE freed[t]]

(* asyncStreamDispatcher: it alone fills txChannel; when the runtime ends,  *)
(* the select may take either side.                                         *)
PopTask(t) ==
    /\ runtime # "stopped" /\ taskAt[t] = "new" /\ InQueue("popped") = {} /\ RoomIn("tx")
    /\ PutAt(t, "popped")
    /\ UNCHANGED <<freed, encoder, writer, buffers, received, given, runtime>>

HandOver(t) ==
    /\ taskAt[t] = "popped"
    /\ \/ RoomIn("tx") /\ PutAt(t, "tx") /\ UNCHANGED freed
       \/ runtime = "cancelled" /\ Release({t})
    /\ UNCHANGED <<encoder, writer, buffers, received, given, runtime>>

(* asyncEncodeWorker                                                        *)
TakeTask(w, t) ==
    /\ encoder[w] = NoTask /\ taskAt[t] = "tx"
    /\ encoder' = [encoder EXCEPT ![w] = t] /\ PutAt(t, "worker")
    /\ UNCHANGED <<freed, writer, buffers, received, given, runtime>>

\* There is no resolver, the packet does not encode, or no frame is left.
NoFrames(w, t) ==
    /\ encoder[w] = t /\ t # NoTask
    /\ encoder' = [encoder EXCEPT ![w] = NoTask] /\ Release({t})
    /\ UNCHANGED <<writer, buffers, received, given, runtime>>

EncodeTask(w, t) ==
    /\ encoder[w] = t
    /\ \/ /\ RoomIn("encoded") /\ PutAt(t, "encoded") /\ UNCHANGED freed
          /\ encoder' = [encoder EXCEPT ![w] = NoTask]
       \/ /\ runtime = "cancelled" /\ Release({t})
          /\ encoder' = [encoder EXCEPT ![w] = "exited"]
    /\ UNCHANGED <<writer, buffers, received, given, runtime>>

(* asyncWriterWorker                                                        *)
TakeFrames(w, t) ==
    /\ writer[w] = NoTask /\ taskAt[t] = "encoded"
    /\ writer' = [writer EXCEPT ![w] = t] /\ PutAt(t, "worker")
    /\ UNCHANGED <<freed, encoder, buffers, received, given, runtime>>

WriteFrames(w, t) ==
    /\ writer[w] = t
    /\ writer' = [writer EXCEPT ![w] = NoTask] /\ Release({t})
    /\ UNCHANGED <<encoder, buffers, received, given, runtime>>

(* asyncReaderWorker: a buffer of its own for each read; what is no DNS     *)
(* response, or does not fit into the channel (onRXDrop), goes back.        *)
StartRead(r) ==
    /\ buffers[r] = 0
    /\ buffers' = [buffers EXCEPT ![r] = 1] /\ given' = given + 1
    /\ UNCHANGED <<taskAt, freed, encoder, writer, received, runtime>>

Datagram(r) ==
    /\ buffers[r] = 1
    /\ buffers' = [buffers EXCEPT ![r] = 0]
    /\ \/ received < QueueRoom /\ received' = received + 1 /\ UNCHANGED given
       \/ given' = given - 1 /\ UNCHANGED received
    /\ UNCHANGED <<taskAt, freed, encoder, writer, runtime>>

(* asyncProcessorWorker                                                     *)
TakeDatagram(p) ==
    /\ buffers[p] = 0 /\ received > 0
    /\ received' = received - 1 /\ buffers' = [buffers EXCEPT ![p] = 1]
    /\ UNCHANGED <<taskAt, freed, encoder, writer, given, runtime>>

Handled(p) ==
    /\ buffers[p] = 1
    /\ buffers' = [buffers EXCEPT ![p] = 0] /\ given' = given - 1
    /\ UNCHANGED <<taskAt, freed, encoder, writer, received, runtime>>

(* A worker that waits, and a reader before or in its read, sees the end.   *)
WorkerExits ==
    /\ runtime = "cancelled"
    /\ \/ \E w \in EncodeWorkers : /\ encoder[w] = NoTask
                                   /\ encoder' = [encoder EXCEPT ![w] = "exited"]
                                   /\ UNCHANGED <<writer, buffers, given>>
       \/ \E w \in WriteWorkers : /\ writer[w] = NoTask
                                  /\ writer' = [writer EXCEPT ![w] = "exited"]
                                  /\ UNCHANGED <<encoder, buffers, given>>
       \/ \E r \in DOMAIN buffers :
             /\ buffers[r] = 0 \/ (buffers[r] = 1 /\ r \in ReadWorkers)
             /\ buffers' = [buffers EXCEPT ![r] = -1] /\ given' = given - buffers[r]
             /\ UNCHANGED <<encoder, writer>>
    /\ UNCHANGED <<taskAt, freed, received, runtime>>

(* StopAsyncRuntime; the workers are waited for before drainQueues          *)
CancelRuntime ==
    /\ runtime = "runs" /\ runtime' = "cancelled"
    /\ UNCHANGED <<taskAt, freed, encoder, writer, buffers, received, given>>

AllExited ==
    /\ \A w \in EncodeWorkers : encoder[w] = "exited"
    /\ \A w \in WriteWorkers : writer[w] = "exited"
    /\ \A w \in DOMAIN buffers : buffers[w] = -1
    /\ InQueue("popped") = {}

DrainQueues ==
    /\ runtime = "cancelled" /\ AllExited
    /\ Release(InQueue("tx") \cup InQueue("encoded"))
    /\ received' = 0 /\ given' = given - received
    /\ runtime' = "stopped"
    /\ UNCHANGED <<encoder, writer, buffers>>

(* StartAsyncRuntime                                                        *)
RestartRuntime ==
    /\ runtime = "stopped" /\ runtime' = "runs"
    /\ encoder' = [w \in EncodeWorkers |-> NoTask] /\ writer' = [w \in WriteWorkers |-> NoTask]
    /\ buffers' = [w \in DOMAIN buffers |-> 0]
    /\ UNCHANGED <<taskAt, freed, received, given>>

PipeNext ==
    \/ \E t \in Tasks :
          \/ PopTask(t) \/ HandOver(t)
          \/ \E w \in EncodeWorkers : TakeTask(w, t) \/ NoFrames(w, t) \/ EncodeTask(w, t)
          \/ \E w \in WriteWorkers : TakeFrames(w, t) \/ WriteFrames(w, t)
    \/ \E r \in ReadWorkers : StartRead(r) \/ Datagram(r)
    \/ \E p \in ProcessWorkers : TakeDatagram(p) \/ Handled(p)
    \/ WorkerExits \/ CancelRuntime \/ DrainQueues \/ RestartRuntime

PipeSpec == PipeInit /\ [][PipeNext]_pipeVars
-----------------------------------------------------------------------------
PipeTypeOK ==
    /\ taskAt \in [Tasks -> {"new", "popped", "tx", "worker", "encoded", "over"}]
    /\ encoder \in [EncodeWorkers -> Tasks \cup {NoTask, "exited"}]
    /\ writer \in [WriteWorkers -> Tasks \cup {NoTask, "exited"}]
    /\ buffers \in [ReadWorkers \cup ProcessWorkers -> -1 .. 1]
    /\ received \in 0 .. QueueRoom /\ runtime \in {"runs", "cancelled", "stopped"}

\* An item goes back to its pool once, and not before its task is over; when
\* the runtime has stopped, nothing is left on the way and no buffer is out.
ReleasedOnce ==
    /\ \A t \in Tasks : freed[t] = IF t \in Merged \/ taskAt[t] = "over" THEN 1 ELSE 0
    /\ runtime = "stopped" => /\ \A t \in Tasks : taskAt[t] \in {"new", "over"}
                              /\ given = 0 /\ received = 0
=============================================================================
