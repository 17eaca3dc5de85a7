------------------------------- MODULE ARQData -------------------------------
(****************************************************************************)
(* One direction of one tunnelled stream: the selective-repeat ARQ of       *)
(* internal/arq/arq.go between the local socket that is read at one end and *)
(* the local socket that is written at the other end, with the per-stream   *)
(* TX queue of the sender and a network of DNS messages that loses,         *)
(* duplicates and reorders in between.                                      *)
(*                                                                          *)
(* The goroutines are kept apart, and a step is what one of them does in    *)
(* one critical section of ARQ.mu or of the TX queue:                       *)
(*   ioLoop          BeginRead, Read or ReadTimeout, FirstPush              *)
(*   dispatcher      Pop, Transmit                                          *)
(*   retransmitLoop  RtxScan, RtxPush, RtxMark, RetryExceeded               *)
(*   inbound packets ReceiveAck, AckCleanup, NackTake, NackPush             *)
(*   receiver        ReceiveData, ProcessReceived, NackScan (rxLoop)        *)
(*                   TakeReady, Write (writeLoop)                           *)
(*                                                                          *)
(* A chunk is what one Read of the local socket returned; the n-th one is   *)
(* the number n-1 ("chunk"), which stands for its bytes.  Only the wire     *)
(* number chunk % SeqMod is visible to the code, whose uint16 is            *)
(* SeqMod = 65536; packets carry the chunk as their payload.                *)
(* Time is abstracted: a dispatched packet may be found due at any scan.    *)
(****************************************************************************)
EXTENDS Integers, Sequences, FiniteSets

CONSTANTS
    SeqMod,          \* number of wire sequence numbers (65536)
    WindowSize,      \* receive window, in chunks (ARQ.windowSize)
    SendLimit,       \* most unacknowledged chunks of the sender (ARQ.limit)
    NackMaxGap,      \* ARQ.dataNackMaxGap
    MaxDataRetries,  \* ARQ.maxDataRetries; the retry counter saturates there
    RxCap,           \* capacity of the channel rxChan
    Lag,             \* bound: nothing of a chunk (unacknowledged entry, queued
                     \* packet, datagram) outlives the reading of Lag more
    MaxData          \* bound: chunks the local application writes

Half == SeqMod \div 2

ASSUME ARQDataAssumption ==
    /\ SeqMod \in Nat \ {0} /\ SeqMod % 2 = 0
    /\ WindowSize \in Nat \ {0} /\ SendLimit \in Nat \ {0}
    /\ NackMaxGap \in Nat /\ MaxDataRetries \in Nat
    /\ RxCap \in Nat \ {0} /\ MaxData \in Nat
    /\ Lag \in Nat /\ WindowSize + 1 + SendLimit <= Lag /\ Lag <= Half

VARIABLES
    \* sender
    read,       \* chunks read from the local socket so far
    sndNxt,     \* wire number of the next chunk
    sndBuf,     \* wire number -> entry of an unacknowledged chunk, or NoEntry
    reading,    \* ioLoop is in the Read of the local socket
    pushing,    \* chunk that ioLoop has buffered and not yet queued
    txq,        \* TX queue of the stream
    popped,     \* packet the dispatcher has popped and not yet accounted for
    jobs,       \* retransmissions collected by the current scan
    marking,    \* retransmission queued, its entry not yet updated
    ackJobs,    \* acknowledged chunk whose queued copies are still to go
    nackJobs,   \* chunk a NACK asked for, copied and not yet queued
    reset,      \* the sender gave the stream up
    \* network
    data,       \* STREAM_DATA and STREAM_RESEND messages
    acks,       \* STREAM_DATA_ACK messages
    nacks,      \* STREAM_DATA_NACK messages
    \* receiver
    rxChan,     \* packets accepted by ReceiveData
    rcvBuf,     \* wire number -> buffered chunk, or NoChunk
    rcvNxt,     \* wire number of the next chunk to write
    scan,       \* wire number rxLoop still has to scan for gaps
    gap,        \* scan in progress: that number, and the rcvNxt it read
    writing,    \* chunks taken by writeLoop, being written
    delivered   \* chunks written to the local socket

sndVars == <<read, sndNxt, sndBuf, reading, pushing, reset>>
queueVars == <<txq, popped>>
jobVars == <<jobs, marking, ackJobs, nackJobs>>
netVars == <<data, acks, nacks>>
rcvVars == <<rxChan, rcvBuf, rcvNxt, scan, gap, writing, delivered>>
vars == <<sndVars, queueVars, jobVars, netVars, rcvVars>>
-----------------------------------------------------------------------------
SeqNum == 0 .. SeqMod - 1
WireUnwrapped(n) == n                                             \* mutant
Wire(n) == n % SeqMod
DiffSigned(a, b) == IF a >= b THEN a - b ELSE 0                   \* mutant
Diff(a, b) == (a - b) % SeqMod      \* uint16 subtraction
Chunk == Nat
NoChunk == -1

Kind == {"DATA", "RESEND"}
Packet == [kind : Kind, sn : SeqNum, chunk : Chunk]
Message == [sn : SeqNum, chunk : Chunk]
MessageOf(p) == [sn |-> p.sn, chunk |-> p.chunk]

Entry == [chunk : Chunk, dispatched : BOOLEAN, retries : 0 .. MaxDataRetries]
NoEntry == [chunk |-> NoChunk, dispatched |-> FALSE, retries |-> 0]

Tracked == {s \in SeqNum : sndBuf[s] # NoEntry}
Buffered == {s \in SeqNum : rcvBuf[s] # NoChunk}

Init ==
    /\ read = 0 /\ sndNxt = 0
    /\ sndBuf = [s \in SeqNum |-> NoEntry]
    /\ reading = FALSE
    /\ pushing = {} /\ txq = {} /\ popped = {}
    /\ jobs = {} /\ marking = {} /\ ackJobs = {} /\ nackJobs = {}
    /\ reset = FALSE
    /\ data = {} /\ acks = {} /\ nacks = {}
    /\ rxChan = <<>>
    /\ rcvBuf = [s \in SeqNum |-> NoChunk]
    /\ rcvNxt = 0 /\ scan = {} /\ gap = {} /\ writing = <<>> /\ delivered = <<>>
-----------------------------------------------------------------------------
(* PushTXPacket: the queue takes a packet under its lock unless it already  *)
(* holds one for the number; a RESEND displaces a DATA still waiting.       *)

IsQueued(k, s) == \E q \in txq : q.kind = k /\ q.sn = s

PushAccepted(p) ==
    /\ ~IsQueued("RESEND", p.sn)
    /\ p.kind = "DATA" => ~IsQueued("DATA", p.sn)

AfterPush(p) ==
    {q \in txq : ~(p.kind = "RESEND" /\ q.sn = p.sn)} \cup {p}

PushTXPacket(p) == txq' = IF PushAccepted(p) THEN AfterPush(p) ELSE txq
-----------------------------------------------------------------------------
(* Everything that still names a chunk on the sender's side or in transit.  *)

Held == pushing \cup txq \cup popped \cup jobs \cup marking \cup nackJobs

(* The environment's bound: a number is not used again while something of   *)
(* its previous chunk is around.  Datagrams that old are gone.              *)
Fresh(m) == read < m.chunk + Lag

NothingStale ==
    /\ \A m \in Held \cup ackJobs : Fresh(m)
    /\ \A i \in 1 .. Len(rxChan) : Fresh(rxChan[i])
    /\ \A s \in Tracked : Fresh(sndBuf[s])

(* The head of ioLoop: the window is open and reading has not been stopped, *)
(* looked at under ARQ.mu; the local socket is read without the lock.       *)
WindowAlwaysOpen == TRUE                                          \* mutant
WindowOpen == Cardinality(Tracked) < SendLimit

BeginRead ==
    /\ ~reset /\ pushing = {} /\ ~reading
    /\ WindowOpen
    /\ reading' = TRUE
    /\ UNCHANGED <<read, sndNxt, sndBuf, pushing, reset, queueVars, jobVars,
                   netVars, rcvVars>>

(* The socket returned a chunk: it is numbered and buffered under ARQ.mu    *)
(* without another look, also when the stream was reset meanwhile, and is   *)
(* queued in a later step.                                                  *)
Read ==
    /\ reading /\ reading' = FALSE
    /\ read < MaxData /\ NothingStale
    /\ sndBuf' = [sndBuf EXCEPT ![sndNxt] =
            [chunk |-> read, dispatched |-> FALSE, retries |-> 0]]
    /\ pushing' = {[kind |-> "DATA", sn |-> sndNxt, chunk |-> read]}
    /\ sndNxt' = Wire(sndNxt + 1)
    /\ read' = read + 1
    /\ data' = {m \in data : Fresh(m)} /\ acks' = {m \in acks : Fresh(m)}
    /\ UNCHANGED <<reset, queueVars, jobVars, nacks, rcvVars>>

(* The read deadline passed, or the read failed in a way that passes; ioLoop *)
(* goes back to its head.                                                   *)
ReadTimeout ==
    /\ reading /\ reading' = FALSE
    /\ UNCHANGED <<read, sndNxt, sndBuf, pushing, reset, queueVars, jobVars,
                   netVars, rcvVars>>

(* ioLoop queues what it buffered.  When the queue refuses it, the entry is *)
(* made due at once.                                                        *)
FirstPush ==
    \E p \in pushing :
        /\ PushTXPacket(p)
        /\ sndBuf' = IF PushAccepted(p) \/ p.sn \notin Tracked THEN sndBuf
                     ELSE [sndBuf EXCEPT ![p.sn].dispatched = TRUE]
        /\ pushing' = {}
        /\ UNCHANGED <<read, sndNxt, reading, reset, popped, jobVars, netVars,
                       rcvVars>>
-----------------------------------------------------------------------------
(* The dispatcher pops a packet ...                                         *)
Pop ==
    /\ popped = {}
    /\ \E p \in txq : popped' = {p} /\ txq' = txq \ {p}
    /\ UNCHANGED <<sndVars, jobVars, netVars, rcvVars>>

(* ... notes it as dispatched and sends it if its number is still tracked.  *)
Transmit ==
    \E p \in popped :
        /\ sndBuf' = IF p.sn \in Tracked
                     THEN [sndBuf EXCEPT ![p.sn].dispatched = TRUE]
                     ELSE sndBuf
        /\ data' = IF p.sn \in Tracked THEN data \cup {MessageOf(p)} ELSE data
        /\ popped' = {}
        /\ UNCHANGED <<read, sndNxt, reading, pushing, reset, txq, jobVars,
                       acks, nacks, rcvVars>>
-----------------------------------------------------------------------------
(* retransmitLoop.  A scan collects the due entries; the ones furthest      *)
(* behind sndNxt go out as RESEND, the others as DATA.                      *)

FrontBudget ==
    LET tenth == WindowSize \div 10
    IN  IF tenth < 1 THEN 1 ELSE IF tenth > 64 THEN 64 ELSE tenth

JobKind(s, due) ==
    LET older == {t \in due : Diff(sndNxt, t) > Diff(sndNxt, s)}
    IN  IF Cardinality(older) < FrontBudget THEN "RESEND" ELSE "DATA"

RtxIdle == jobs = {} /\ marking = {}

RtxScan ==
    /\ RtxIdle /\ ~reset
    /\ \E due \in SUBSET {s \in Tracked : sndBuf[s].dispatched} :
        /\ due # {}
        /\ jobs' = {[kind |-> JobKind(s, due), sn |-> s,
                     chunk |-> sndBuf[s].chunk] : s \in due}
    /\ UNCHANGED <<sndVars, queueVars, marking, ackJobs, nackJobs,
                   netVars, rcvVars>>

RtxPush ==
    /\ marking = {}
    /\ \E p \in jobs :
        /\ PushTXPacket(p)
        /\ marking' = IF PushAccepted(p) THEN {p} ELSE {}
        /\ jobs' = jobs \ {p}
    /\ UNCHANGED <<sndVars, popped, ackJobs, nackJobs, netVars, rcvVars>>

(* The entry of a packet just queued is marked as waiting for the           *)
(* dispatcher: the lock was free between the push and this step.            *)
NotCounted(n) == n                                                \* mutant
Saturating(n) == IF n < MaxDataRetries THEN n + 1 ELSE MaxDataRetries

RtxMark ==
    \E p \in marking :
        /\ sndBuf' = IF p.sn \notin Tracked THEN sndBuf
                     ELSE [sndBuf EXCEPT
                             ![p.sn].dispatched = FALSE,
                             ![p.sn].retries = Saturating(sndBuf[p.sn].retries)]
        /\ marking' = {}
        /\ UNCHANGED <<read, sndNxt, reading, pushing, reset, queueVars, jobs,
                       ackJobs, nackJobs, netVars, rcvVars>>

(* An entry that used its retries up and outlived the packet TTL resets the *)
(* stream: Close(SendRST) stops the reading and empties the buffers, twice  *)
(* over (emitTerminalPacketWithTTL, MarkRstSent).  The step is the second   *)
(* time: a chunk buffered between the two is dropped as one before them is. *)
RetryExceeded ==
    /\ RtxIdle /\ ~reset
    /\ \E s \in Tracked : sndBuf[s].retries >= MaxDataRetries
    /\ reset' = TRUE
    /\ sndBuf' = [s \in SeqNum |-> NoEntry]
    /\ UNCHANGED <<read, sndNxt, reading, pushing, queueVars, jobVars, netVars,
                   rcvVars>>
-----------------------------------------------------------------------------
(* ReceiveAck frees the entry; the queued copies go in a step of their own. *)
ReceiveAck(m) ==
    /\ ackJobs = {}
    /\ m.sn \in Tracked
    /\ sndBuf' = [sndBuf EXCEPT ![m.sn] = NoEntry]
    /\ ackJobs' = {m}
    /\ UNCHANGED <<read, sndNxt, reading, pushing, reset, queueVars, jobs,
                   marking, nackJobs, netVars, rcvVars>>

(* RemoveQueuedData *)
AckCleanup ==
    \E m \in ackJobs :
        /\ txq' = {q \in txq : q.sn # m.sn}
        /\ ackJobs' = {}
        /\ UNCHANGED <<sndVars, popped, jobs, marking, nackJobs, netVars, rcvVars>>

(* HandleDataNack copies the chunk under ARQ.mu, then queues a RESEND.      *)
NackTake(s) ==
    /\ nackJobs = {} /\ ~reset
    /\ s \in Tracked
    /\ nackJobs' = {[kind |-> "RESEND", sn |-> s, chunk |-> sndBuf[s].chunk]}
    /\ UNCHANGED <<sndVars, queueVars, jobs, marking, ackJobs, netVars, rcvVars>>

NackPush ==
    \E p \in nackJobs :
        /\ PushTXPacket(p)
        /\ nackJobs' = {}
        /\ UNCHANGED <<sndVars, popped, jobs, marking, ackJobs, netVars, rcvVars>>
-----------------------------------------------------------------------------
(* Receiver.  ReceiveData hands a packet to rxLoop, or drops it when rxChan *)
(* is full.  A message stays in the network and may be delivered again; a   *)
(* lost message is one that is never delivered.                             *)
ReceiveData(m) ==
    /\ Len(rxChan) < RxCap
    /\ rxChan' = Append(rxChan, m)
    /\ UNCHANGED <<sndVars, queueVars, jobVars, netVars,
                   rcvBuf, rcvNxt, scan, gap, writing, delivered>>

OldOrBeyond(s) == Diff(s, rcvNxt) >= WindowSize                  \* mutant
OldNumber(s) == Diff(s, rcvNxt) >= Half
BeyondWindow(s) == ~OldNumber(s) /\ Diff(s, rcvNxt) > WindowSize
NoRoom(s) == /\ s \notin Buffered
             /\ Cardinality(Buffered) >= WindowSize
             /\ s # rcvNxt

(* rxLoop: one packet of a batch.  Old and duplicate packets are            *)
(* acknowledged again; the rest is buffered, or dropped without an answer.  *)
ProcessReceived ==
    /\ rxChan # <<>> /\ scan = {} /\ gap = {}
    /\ LET m == Head(rxChan)
           dropped == ~OldNumber(m.sn) /\ (BeyondWindow(m.sn) \/ NoRoom(m.sn))
           stored == ~OldNumber(m.sn) /\ ~dropped /\ m.sn \notin Buffered
       IN  /\ rxChan' = Tail(rxChan)
           /\ rcvBuf' = IF stored THEN [rcvBuf EXCEPT ![m.sn] = m.chunk]
                        ELSE rcvBuf
           /\ acks' = IF dropped THEN acks ELSE acks \cup {m}
           /\ scan' = IF dropped THEN {} ELSE {m.sn}
    /\ UNCHANGED <<sndVars, queueVars, jobVars, data, nacks,
                   rcvNxt, gap, writing, delivered>>

(* maybeSendDataNacks reads rcvNxt and leaves when nothing can be missing   *)
(* before s ...                                                             *)
NackBase ==
    \E s \in scan :
        /\ gap' = IF NackMaxGap = 0 \/ s = rcvNxt \/ OldNumber(s) THEN {}
                  ELSE {[sn |-> s, from |-> rcvNxt]}
        /\ scan' = {}
        /\ UNCHANGED <<sndVars, queueVars, jobVars, netVars, rxChan,
                       rcvBuf, rcvNxt, writing, delivered>>

(* ... then collects the numbers to report, from rcvBuf as it is by now.  A *)
(* short gap is reported whole; of a long one, the first few missing        *)
(* numbers and the last one that lies within the span.                      *)
Absent(g, n) == {i \in 0 .. n - 1 : Wire(g.from + i) \notin Buffered}

ToReport(g) ==
    LET d == Diff(g.sn, g.from)
        samples == (NackMaxGap + 19) \div 20
        first == {i \in Absent(g, d) :
                    Cardinality({j \in Absent(g, d) : j < i}) < samples}
        last == {i \in Absent(g, NackMaxGap) :
                    \A j \in Absent(g, NackMaxGap) : j <= i}
    IN  IF d <= NackMaxGap THEN Absent(g, d) ELSE first \cup last

Missing(g) == {Wire(g.from + i) : i \in ToReport(g)}

(* The delay and repeat timers decide which of them go out now.             *)
NackScan ==
    \E g \in gap :
        /\ \E now \in SUBSET Missing(g) : nacks' = nacks \cup now
        /\ gap' = {}
        /\ UNCHANGED <<sndVars, queueVars, jobVars, data, acks, rxChan,
                       rcvBuf, rcvNxt, scan, writing, delivered>>

(* writeLoop takes the whole contiguous run at rcvNxt ...                   *)
ReadyUpTo(n) == Wire(rcvNxt + n - 1) \in Buffered                 \* mutant
Ready(n) == \A i \in 0 .. n - 1 : Wire(rcvNxt + i) \in Buffered

NotRemoved(n) == rcvBuf                                           \* mutant
WithoutRun(n) ==
    [s \in SeqNum |-> IF Diff(s, rcvNxt) < n THEN NoChunk ELSE rcvBuf[s]]

TakeReady ==
    /\ writing = <<>>
    /\ \E n \in 1 .. SeqMod :
        /\ Ready(n)
        /\ n = SeqMod \/ Wire(rcvNxt + n) \notin Buffered
        /\ writing' = [i \in 1 .. n |-> rcvBuf[Wire(rcvNxt + (i - 1))]]
        /\ rcvBuf' = WithoutRun(n)
        /\ rcvNxt' = Wire(rcvNxt + n)
    /\ UNCHANGED <<sndVars, queueVars, jobVars, netVars,
                   rxChan, scan, gap, delivered>>

(* ... and writes it to the local socket.                                   *)
Write ==
    /\ writing # <<>>
    /\ delivered' = delivered \o writing
    /\ writing' = <<>>
    /\ UNCHANGED <<sndVars, queueVars, jobVars, netVars,
                   rxChan, rcvBuf, rcvNxt, scan, gap>>
-----------------------------------------------------------------------------
Next ==
    \/ BeginRead \/ Read \/ ReadTimeout \/ FirstPush
    \/ Pop \/ Transmit
    \/ RtxScan \/ RtxPush \/ RtxMark \/ RetryExceeded
    \/ \E m \in acks : ReceiveAck(m)
    \/ AckCleanup
    \/ \E s \in nacks : NackTake(s)
    \/ NackPush
    \/ \E m \in data : ReceiveData(m)
    \/ ProcessReceived \/ NackBase \/ NackScan
    \/ TakeReady \/ Write

Spec == Init /\ [][Next]_vars
-----------------------------------------------------------------------------
(* Fairness: every goroutine keeps running, and the packet TTL elapses once *)
(* and for all, so that one of the scans that follow finds the retries used *)
(* up.  Nothing is assumed of the local application or of the network.      *)
Fairness ==
    /\ WF_vars(FirstPush) /\ WF_vars(Pop) /\ WF_vars(Transmit)
    /\ WF_vars(RtxScan) /\ WF_vars(RtxPush) /\ WF_vars(RtxMark)
    /\ SF_vars(RetryExceeded)
    /\ WF_vars(AckCleanup) /\ WF_vars(NackPush)
    /\ WF_vars(ProcessReceived) /\ WF_vars(NackBase) /\ WF_vars(NackScan)
    /\ WF_vars(TakeReady) /\ WF_vars(Write)

FairSpec == Spec /\ Fairness
-----------------------------------------------------------------------------
TypeOK ==
    /\ read \in Nat /\ sndNxt \in SeqNum
    /\ sndBuf \in [SeqNum -> Entry \cup {NoEntry}]
    /\ pushing \subseteq Packet /\ txq \subseteq Packet
    /\ popped \subseteq Packet /\ jobs \subseteq Packet
    /\ marking \subseteq Packet /\ nackJobs \subseteq Packet
    /\ ackJobs \subseteq Message
    /\ reading \in BOOLEAN /\ reset \in BOOLEAN
    /\ data \subseteq Message /\ acks \subseteq Message
    /\ nacks \subseteq SeqNum
    /\ rxChan \in Seq(Message)
    /\ rcvBuf \in [SeqNum -> Chunk \cup {NoChunk}]
    /\ rcvNxt \in SeqNum /\ scan \subseteq SeqNum
    /\ gap \subseteq [sn : SeqNum, from : SeqNum]
    /\ writing \in Seq(Chunk) /\ delivered \in Seq(Chunk)

(* Number of chunks writeLoop has taken out of the receive buffer.          *)
Taken == Len(delivered) + Len(writing)

HasReceived(n) == n < Taken \/ rcvBuf[Wire(n)] = n
IsTracked(n) == sndBuf[Wire(n)] # NoEntry /\ sndBuf[Wire(n)].chunk = n

(* The receiving application sees the chunks in the order they were         *)
(* written, none missing, none twice, also after the numbers wrapped.       *)
InOrder ==
    /\ \A i \in 1 .. Len(delivered) : delivered[i] = i - 1
    /\ \A i \in 1 .. Len(writing) : writing[i] = Len(delivered) + i - 1
    /\ Taken <= read

(* Until the sender gives up, a chunk it no longer tracks is at the         *)
(* receiver: an ACK, however late or repeated, frees only what arrived.     *)
NoChunkLost ==
    ~reset => \A n \in 0 .. read - 1 : IsTracked(n) \/ HasReceived(n)

(* What the receiver buffers lies in its window, under the number of its    *)
(* own chunk; so it never holds more than WindowSize + 1 chunks.            *)
WindowRespected ==
    \A s \in Buffered :
        /\ s = Wire(rcvBuf[s])
        /\ Taken <= rcvBuf[s] /\ rcvBuf[s] <= Taken + WindowSize

(* The two windows together bound how far the sender runs ahead of the      *)
(* receiving application.  This keeps old and new numbers in different      *)
(* halves of the number space, which processReceivedDataBatch relies on.    *)
SpanBounded == read <= Taken + WindowSize + 1 + SendLimit

(* The stream implements the reliable stream.                               *)
Stream == INSTANCE ReliableStream
            WITH sent <- read, received <- delivered, given_up <- reset,
                 taking <- reading
ImplementsStream == Stream!StreamSpec

(* Inductive invariant.  Besides the properties above: everything that      *)
(* names a chunk carries the number of that chunk, which is at most Lag     *)
(* behind; an ACK in transit is for a chunk the receiver has; the wire      *)
(* counters are the chunk counters modulo SeqMod; and the read that is      *)
(* under way has room in the windows.                                       *)
Live(n) == n < read /\ read <= n + Lag
Carries(m) == m.sn = Wire(m.chunk) /\ Live(m.chunk)

CarriersOK ==
    /\ \A m \in Held \cup ackJobs \cup data \cup acks : Carries(m)
    /\ \A i \in 1 .. Len(rxChan) : Carries(rxChan[i])
    /\ \A s \in Tracked : s = Wire(sndBuf[s].chunk) /\ Live(sndBuf[s].chunk)

AcksTruthful == \A m \in acks : HasReceived(m.chunk)

CountersOK == sndNxt = Wire(read) /\ rcvNxt = Wire(Taken)

BufferedWasRead == \A s \in Buffered : rcvBuf[s] < read

(* Under a read in flight the window was open when it began.                *)
ReadHasRoom == reading => read < Taken + WindowSize + 1 + SendLimit

IInv ==
    /\ TypeOK /\ CarriersOK /\ AcksTruthful /\ CountersOK
    /\ InOrder /\ NoChunkLost /\ WindowRespected /\ BufferedWasRead
    /\ SpanBounded /\ ReadHasRoom

(* The entry of s waits for the dispatcher, and nothing is left that could  *)
(* be dispatched: neither the retransmission scan, which skips entries that *)
(* were not dispatched, nor its retry limit will ever touch it again.       *)
Stranded(s) ==
    /\ s \in Tracked /\ ~sndBuf[s].dispatched
    /\ \A p \in pushing \cup txq \cup popped \cup nackJobs : p.sn # s

(* Retransmission is the backstop of the stream: each chunk read is         *)
(* acknowledged or the stream is reset.                                     *)
Settles ==
    \A n \in 0 .. MaxData - 1 : IsTracked(n) ~> (~IsTracked(n) \/ reset)

(* The same, and delivery, for the runs in which no entry is stranded.      *)
SettlesUnlessStranded ==
    (\E s \in SeqNum : <>[]Stranded(s)) \/ Settles
DeliversUnlessStranded ==
    \/ \E s \in SeqNum : <>[]Stranded(s)
    \/ \A n \in 0 .. MaxData - 1 :
            (read > n) ~> (Len(delivered) > n \/ reset)
=============================================================================
