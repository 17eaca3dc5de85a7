----------------------------- MODULE IngressLanes -----------------------------
(****************************************************************************)
(* The lanes between the server's UDP readers and its workers (internal/    *)
(* udpserver/server_runtime.go, server.go): bulk packets have a lane of     *)
(* their own, the others come first but only so many times in a row, and    *)
(* may use an idle data lane when theirs is full.                           *)
(*                                                                          *)
(* Readers and workers run concurrently; operations of channels are atomic, *)
(* what is read between them may be stale.                                  *)
(****************************************************************************)
EXTENDS Integers, Sequences, FiniteSets, SequencesExt

CONSTANTS
    Readers,
    DNSWorkers,
    ControlLane,     \* capacity of queues.control
    DataLane,        \* capacity of queues.data
    ControlBurst     \* control packets that a worker takes in a row

ASSUME IngressAssumption ==
    /\ ControlLane \in Nat \ {0} /\ DataLane \in Nat \ {0}
    /\ ControlBurst \in Nat \ {0} /\ IsFiniteSet(Readers) /\ DNSWorkers # {}

VARIABLES
    control,     \* packets in queues.control, which are all of one kind
    data,        \* queues.data: "bulk" or "spilled" packets
    reader,      \* "read", "other", "full", "spill", "bulk" or "gone"
    dnsWorker,   \* "top", "wait", "work" or "gone"
    burst,       \* controlBurst of each worker
    cancelled,   \* runCtx
    run          \* "up", "closed" (the lanes) or "returned"

laneVars == <<control, data, reader, dnsWorker, burst, cancelled, run>>

LanesInit ==
    /\ control = 0 /\ data = <<>>
    /\ reader = [r \in Readers |-> "read"]
    /\ dnsWorker = [w \in DNSWorkers |-> "top"]
    /\ burst = [w \in DNSWorkers |-> 0]
    /\ cancelled = FALSE /\ run = "up"

Reads(r, from, to) == reader[r] = from /\ reader' = [reader EXCEPT ![r] = to]
-----------------------------------------------------------------------------
(* readLoop and enqueueIngressRequest.                                      *)
ReadPacket(r) ==
    /\ ~cancelled
    /\ Reads(r, "read", "other") \/ Reads(r, "read", "bulk")
    /\ UNCHANGED <<control, data, dnsWorker, burst, cancelled, run>>

EnqueueBulk(r) ==
    /\ Reads(r, "bulk", "read")
    /\ data' = IF Len(data) < DataLane THEN Append(data, "bulk") ELSE data
    /\ UNCHANGED <<control, dnsWorker, burst, cancelled, run>>

EnqueueControl(r) ==
    /\ IF control < ControlLane
       THEN control' = control + 1 /\ Reads(r, "other", "read")
       ELSE Reads(r, "other", "full") /\ UNCHANGED control
    /\ UNCHANGED <<data, dnsWorker, burst, cancelled, run>>

\* Mutant: control packets use the data lane while it has room.
SpillsAnyway(r) == Len(data) < DataLane
MaySpill(r) == data = <<>>

CheckDataLane(r) ==
    /\ Reads(r, "full", IF MaySpill(r) THEN "spill" ELSE "read")
    /\ UNCHANGED <<control, data, dnsWorker, burst, cancelled, run>>

SpillControl(r) ==
    /\ Reads(r, "spill", "read")
    /\ data' = IF Len(data) < DataLane THEN Append(data, "spilled") ELSE data
    /\ UNCHANGED <<control, dnsWorker, burst, cancelled, run>>

ReaderStops(r) ==
    /\ cancelled /\ Reads(r, "read", "gone")
    /\ UNCHANGED <<control, data, dnsWorker, burst, cancelled, run>>
(* A reader whose socket fails returns, whatever the others do.             *)
ReaderFails(r) ==
    /\ Reads(r, "read", "gone")
    /\ UNCHANGED <<control, data, dnsWorker, burst, cancelled, run>>
-----------------------------------------------------------------------------
(* dnsWorker.  The count of a burst matters only up to its limit.           *)
Works(w, from, to) == dnsWorker[w] = from /\ dnsWorker' = [dnsWorker EXCEPT ![w] = to]

TakeData(w, from) ==
    /\ data # <<>> /\ Works(w, from, "work")
    /\ data' = Tail(data)
    /\ burst' = [burst EXCEPT ![w] = 0]
    /\ UNCHANGED <<control, reader, cancelled, run>>

TakeControl(w, from) ==
    /\ control > 0 /\ Works(w, from, "work")
    /\ control' = control - 1
    /\ burst' = [burst EXCEPT ![w] = IF @ < ControlBurst THEN @ + 1 ELSE @]
    /\ UNCHANGED <<data, reader, cancelled, run>>

NothingFirst(w) ==
    /\ IF burst[w] >= ControlBurst THEN data = <<>> ELSE control = 0
    /\ Works(w, "top", "wait")
    /\ UNCHANGED <<control, data, reader, burst, cancelled, run>>

\* Mutant: control packets always come first.
ControlFirst(w) == TakeControl(w, "top")
TakeFirst(w) ==
    IF burst[w] >= ControlBurst THEN TakeData(w, "top") ELSE TakeControl(w, "top")

TakeAny(w) == TakeData(w, "wait") \/ TakeControl(w, "wait")

ProcessIngressRequest(w) ==
    /\ Works(w, "work", "top")
    /\ UNCHANGED <<control, data, reader, burst, cancelled, run>>

\* Mutant: a worker stops as soon as the lanes are closed.
StopsWhenClosed(w) ==
    /\ \/ cancelled \/ run = "closed"
    /\ Works(w, "wait", "gone") \/ (run = "closed" /\ Works(w, "top", "gone"))
    /\ UNCHANGED <<control, data, reader, burst, cancelled, run>>
WorkerStops(w) ==
    /\ \/ cancelled /\ Works(w, "wait", "gone")
       \/ /\ run = "closed" /\ control = 0 /\ data = <<>>
          /\ Works(w, "wait", "gone") \/ Works(w, "top", "gone")
    /\ UNCHANGED <<control, data, reader, burst, cancelled, run>>
-----------------------------------------------------------------------------
(* Run: the context is cancelled, or the readers fail; when all readers     *)
(* have returned the lanes are closed, and Run waits for the workers.       *)
CancelRun ==
    /\ ~cancelled /\ run # "returned" /\ cancelled' = TRUE
    /\ UNCHANGED <<control, data, reader, dnsWorker, burst, run>>

CloseLanes ==
    /\ run = "up" /\ \A r \in Readers : reader[r] = "gone"
    /\ run' = "closed"
    /\ UNCHANGED <<control, data, reader, dnsWorker, burst, cancelled>>

RunReturns ==
    /\ run = "closed" /\ \A w \in DNSWorkers : dnsWorker[w] = "gone"
    /\ run' = "returned"
    /\ UNCHANGED <<control, data, reader, dnsWorker, burst, cancelled>>

ReaderStep(r) ==
    \/ EnqueueBulk(r) \/ EnqueueControl(r)
    \/ CheckDataLane(r) \/ SpillControl(r) \/ ReaderStops(r)

DNSWorkerStep(w) ==
    \/ TakeFirst(w) \/ NothingFirst(w) \/ TakeAny(w)
    \/ ProcessIngressRequest(w) \/ WorkerStops(w)

LanesNext ==
    \/ \E r \in Readers : ReadPacket(r) \/ ReaderStep(r) \/ ReaderFails(r)
    \/ \E w \in DNSWorkers : DNSWorkerStep(w)
    \/ CancelRun \/ CloseLanes \/ RunReturns
-----------------------------------------------------------------------------
LanesTypeOK ==
    /\ control \in 0 .. ControlLane
    /\ data \in Seq({"bulk", "spilled"}) /\ Len(data) <= DataLane
    /\ reader \in [Readers -> {"read", "other", "full", "spill", "bulk", "gone"}]
    /\ dnsWorker \in [DNSWorkers -> {"top", "wait", "work", "gone"}]
    /\ burst \in [DNSWorkers -> 0 .. ControlBurst]
    /\ cancelled \in BOOLEAN /\ run \in {"up", "closed", "returned"}

\* Control packets build no wall in front of user data: at any time the data
\* lane holds at most one of them per reader, though readers look at the length
\* of the lane first and send afterwards.
SpillBounded ==
    Cardinality({i \in DOMAIN data : data[i] = "spilled"})
        + Cardinality({r \in Readers : reader[r] = "spill"}) <= Cardinality(Readers)

\* When the readers have failed and nobody told the server to stop, no request
\* that was queued is left unanswered.
DrainedUnlessCancelled ==
    run = "returned" /\ ~cancelled => control = 0 /\ data = <<>>

LanesSound == SpillBounded /\ DrainedUnlessCancelled

\* Neither lane starves, whatever the other one holds: a lane that always has
\* packets is taken from again and again; and when all readers are gone the
\* server returns.
LanesServed ==
    /\ []<>(cancelled \/ data = <<>>) \/ []<><<Len(data') < Len(data)>>_laneVars
    /\ []<>(cancelled \/ control = 0) \/ []<><<control' < control>>_laneVars
    /\ []<>(cancelled \/ (\A r \in Readers : reader[r] = "gone") => run = "returned")
=============================================================================
