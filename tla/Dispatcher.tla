----------------------------- MODULE Dispatcher -----------------------------
(****************************************************************************)
(* The client's dispatcher (internal/client/dispatcher.go): one goroutine   *)
(* that goes round the TX queues of the open streams and the queue of       *)
(* orphan packets, takes the most urgent packet of the first queue with     *)
(* work, packs small control packets of other queues with it, and hands the *)
(* result to the encode workers.  All queues are filled, and emptied, by    *)
(* other goroutines meanwhile; streams come and go.                         *)
(*                                                                          *)
(* A step of the dispatcher is what it does between two looks at shared     *)
(* state: it examines one queue per step and pops later what it peeked at.  *)
(* A queue (internal/mlq) is the sequence of its packets in pop order.      *)
(* Packing visits each queue once, so it is one step: a push to a queue is  *)
(* before or after its visit, and pushes to different queues commute.       *)
(****************************************************************************)
EXTENDS Queues, SequencesExt

CONSTANTS
    Streams,          \* stream ids; 0 is the control stream
    Opened,           \* the streams that are open in the initial state
    Closing,          \* the streams that may close
    Offered,          \* packets that may be pushed on the queues of streams
    OfferedOrphans,   \* packets that may be pushed on the orphan queue
    MaxPackedBlocks,  \* Client.maxPackedBlocks
    PingLimit,        \* a PING is refused when more packets are queued (500)
    TxCap             \* capacity of txChannel

OrphanID == -1
NoID == -2

Priority ==
    [STREAM_DATA_ACK |-> 0, STREAM_RST |-> 0, STREAM_RST_ACK |-> 0,
     STREAM_RESEND |-> 1, STREAM_DATA |-> 3, STREAM_CLOSE_WRITE |-> 4,
     PING |-> 5]
PacketType == DOMAIN Priority
Packable(p) == p.type \in {"STREAM_DATA_ACK", "STREAM_RST_ACK"}
IsData(p) == p.type \in {"STREAM_DATA", "STREAM_RESEND"}

Packet == [type : PacketType, sid : Int, sn : Nat]
NoPacket == [type |-> "none", sid |-> NoID, sn |-> 0]

ASSUME DispatcherAssumption ==
    /\ 0 \in Streams /\ Streams \subseteq Nat /\ IsFiniteSet(Streams)
    /\ Opened \subseteq Streams /\ Closing \subseteq Streams \ {0}
    /\ Offered \subseteq [type : PacketType, sid : Streams, sn : Nat]
    /\ OfferedOrphans \subseteq [type : PacketType, sid : Nat \ {0}, sn : Nat]
    /\ MaxPackedBlocks \in Nat \ {0} /\ PingLimit \in Nat /\ TxCap \in Nat \ {0}

VARIABLES
    txq,      \* TX queue of each stream
    orphans,  \* orphanQueue
    life,     \* of a stream: "new", "added" to the map, "open", "removed", "gone"
    stale,    \* streamSetVersion has moved since the dispatcher loaded it
    signal,   \* the token in txSignal
    up,       \* the balancer has a resolver to offer
    pc,       \* where the dispatcher is in its loop
    cached,   \* cachedEntries
    entries,  \* entries of this iteration: cached, and the orphan queue
    cursor,   \* rrCursor
    start,    \* entry the scan starts at
    pos,      \* entries examined by the scan
    sel,      \* what the scan has selected
    item,     \* packet popped, to be sent
    from,     \* history: the queue served last (a stream or OrphanID)
    tx        \* txChannel: each task is the sequence of its blocks

queueVars == <<txq, orphans, signal>>
streamVars == <<life, stale>>
loopVars == <<pc, cached, entries, cursor, start, pos, sel, item,
              from, tx>>
dispatcherVars == <<queueVars, streamVars, up, loopVars>>
-----------------------------------------------------------------------------
(* mlq: a packet goes behind the packets of its own and of higher priority. *)

Behind(q, p) ==
    Cardinality({i \in 1 .. Len(q) : Priority[q[i].type] <= Priority[p.type]})
Insert(q, p) == InsertAt(q, Behind(q, p) + 1, p)
Without(q, p) == PickedAt(q, {i \in 1 .. Len(q) : q[i] # p})

As(p, t) == [p EXCEPT !.type = t]

Accepted(q, p) ==
    /\ ~Contains(q, p)
    /\ p.type = "PING" => Len(q) <= PingLimit
    /\ p.type = "STREAM_DATA" => ~Contains(q, As(p, "STREAM_RESEND"))

Pushed(q, p) ==
    IF p.type = "STREAM_RESEND" THEN Without(Insert(q, p), As(p, "STREAM_DATA"))
    ELSE Insert(q, p)

Silent == UNCHANGED signal                                        \* mutant
WakeDispatcher == signal' = TRUE

(* PushTXPacket.  A stream is known to the goroutines that push once        *)
(* new_stream has returned; they may still push after its removal.          *)
PushTXPacket(p) ==
    /\ life[p.sid] \notin {"new", "added"}
    /\ Accepted(txq[p.sid], p)
    /\ txq' = [txq EXCEPT ![p.sid] = Pushed(@, p)]
    /\ WakeDispatcher
    /\ UNCHANGED <<orphans, streamVars, up, loopVars>>

(* enqueueOrphanReset: the key is the type and the stream.                  *)
EnqueueOrphanReset(p) ==
    /\ ~\E i \in 1 .. Len(orphans) :
            orphans[i].type = p.type /\ orphans[i].sid = p.sid
    /\ orphans' = Append(orphans, p)
    /\ WakeDispatcher
    /\ UNCHANGED <<txq, streamVars, up, loopVars>>

(* RemoveQueuedData: the chunk was acknowledged.                            *)
RemoveQueuedData(p) ==
    /\ IsData(p) /\ Contains(txq[p.sid], p)
    /\ txq' = [txq EXCEPT ![p.sid] = Without(@, p)]
    /\ UNCHANGED <<orphans, signal, streamVars, up, loopVars>>

(* new_stream puts the stream into the map, then moves the version; closing *)
(* takes it out of the map, then moves the version and clears the queue.    *)
Active == {s \in Streams : life[s] \in {"added", "open"}}

AddStream(s) ==
    /\ life[s] = "new" /\ life' = [life EXCEPT ![s] = "added"]
    /\ UNCHANGED <<queueVars, stale, up, loopVars>>
BumpAdded(s) ==
    /\ life[s] = "added" /\ life' = [life EXCEPT ![s] = "open"]
    /\ stale' = TRUE
    /\ UNCHANGED <<queueVars, up, loopVars>>
UnmapStream(s) ==
    /\ s \in Closing /\ life[s] = "open"
    /\ life' = [life EXCEPT ![s] = "removed"]
    /\ UNCHANGED <<queueVars, stale, up, loopVars>>
CleanupStream(s) ==
    /\ life[s] = "removed" /\ life' = [life EXCEPT ![s] = "gone"]
    /\ stale' = TRUE
    /\ txq' = [txq EXCEPT ![s] = <<>>]
    /\ UNCHANGED <<orphans, signal, up, loopVars>>

(* Resolvers are disabled and reactivated.                                  *)
Resolvers == up' = ~up /\ UNCHANGED <<queueVars, streamVars, loopVars>>
-----------------------------------------------------------------------------
(* Top of the loop: the version is loaded; when it moved, the map is copied *)
(* afterwards.  Then the orphan queue is appended if it holds anything.     *)

dispatcher == <<cached, entries, cursor, start, pos, sel, item,
                from, tx>>

LoadVersion ==
    /\ pc = "top"
    /\ pc' = IF stale THEN "copy" ELSE "begin"
    /\ stale' = FALSE
    /\ UNCHANGED <<queueVars, life, up, dispatcher>>

CopyStreams ==
    /\ pc = "copy" /\ pc' = "begin"
    /\ cached' = Ascending(Active)
    /\ UNCHANGED <<queueVars, streamVars, up, entries, cursor, start, pos, sel,
                   item, from, tx>>

(* sort.Search looks for the resume point of the scan by bisection, as if   *)
(* the ids were ascending.  It is done after as many rounds as entries, and *)
(* then stays.                                                              *)
SearchStart(es, c) ==
    LET n == Len(es)
        halve == [r \in (0 .. n) \X (0 .. n) |->
                     LET h == (r[1] + r[2]) \div 2
                     IN  IF r[1] >= r[2] THEN r
                         ELSE IF es[h + 1] >= c THEN <<r[1], h>> ELSE <<h + 1, r[2]>>]
        range[k \in 0 .. n] == IF k = 0 THEN <<0, n>> ELSE halve[range[k - 1]]
        found == range[n][1]
    IN  IF found = n THEN 0 ELSE found

NothingSelected ==
    [stream |-> NoID, packet |-> NoPacket, sid |-> 0, id |-> NoID,
     moved |-> FALSE]

(* The locals of an iteration end with it.                                  *)
NoLocals ==
    /\ entries' = <<>> /\ start' = 0 /\ pos' = 0
    /\ sel' = NothingSelected /\ item' = NoPacket

Begin ==
    LET es == IF orphans = <<>> THEN cached ELSE Append(cached, OrphanID)
    IN  /\ pc = "begin"
        /\ pc' = IF es = <<>> THEN "idle" ELSE "scan"
        /\ entries' = es /\ start' = SearchStart(es, cursor)
        /\ UNCHANGED <<queueVars, streamVars, up, cached, cursor, pos, sel, item,
                       from, tx>>
-----------------------------------------------------------------------------
(* selectNextDispatchStream examines one entry: what it finds of the queue  *)
(* may be out of date in the next step.                                     *)
Entry == entries[((start + pos) % Len(entries)) + 1]

CursorStays(id) == id                                             \* mutant
CursorAfter(id) == id + 1

HasWork(id) == IF id = OrphanID THEN orphans # <<>> ELSE txq[id] # <<>>
OtherWork == \E i \in 1 .. Len(entries) : entries[i] # 0 /\ HasWork(entries[i])

Candidate(id) ==
    IF id = OrphanID
    THEN [sel EXCEPT !.packet = Head(orphans), !.sid = Head(orphans).sid,
                     !.id = OrphanID, !.moved = TRUE]
    ELSE [sel EXCEPT !.packet = Head(txq[id]), !.sid = id,
                     !.id = id, !.stream = id, !.moved = TRUE]

(* A deferred PING is forgotten; the stream it was on is not.               *)
Deferred(c) == [c EXCEPT !.packet = NoPacket]
Defer(c) == c.id = 0 /\ c.packet.type = "PING" /\ OtherWork


Scan ==
    /\ pc = "scan" /\ pos < Len(entries)
    /\ LET busy == HasWork(Entry)
           c == Candidate(Entry)
       IN  /\ sel' = IF ~busy THEN sel ELSE IF Defer(c) THEN Deferred(c) ELSE c
           /\ cursor' = IF busy /\ ~sel.moved THEN CursorAfter(Entry) ELSE cursor
           /\ pos' = pos + 1
           /\ pc' = IF busy /\ ~Defer(c) THEN "resolve" ELSE "scan"
    /\ UNCHANGED <<queueVars, streamVars, up, cached, entries, start, item,
                   from, tx>>

NothingFound ==
    /\ pc = "scan" /\ pos = Len(entries) /\ pc' = "idle"
    /\ NoLocals
    /\ UNCHANGED <<queueVars, streamVars, up, cached, cursor, from, tx>>

(* Nothing selected, or no resolver: wait for the token or the idle poll.   *)
WakeUp ==
    /\ pc \in {"idle", "stalled"} /\ signal
    /\ signal' = FALSE /\ pc' = "top"
    /\ UNCHANGED <<txq, orphans, streamVars, up, dispatcher>>

IdlePoll ==
    /\ pc \in {"idle", "stalled"} /\ pc' = "top"
    /\ UNCHANGED <<queueVars, streamVars, up, dispatcher>>
-----------------------------------------------------------------------------
(* Without a resolver a control packet is popped and dropped; DATA is left  *)
(* in the queue.  What is popped is the head by now, if there is one.       *)

FromStream == sel.stream # NoID
Source == IF FromStream THEN txq[sel.stream] ELSE orphans

SetSource(q) ==
    IF FromStream
    THEN txq' = [txq EXCEPT ![sel.stream] = q] /\ UNCHANGED orphans
    ELSE orphans' = q /\ UNCHANGED txq

NoResolver ==
    /\ pc = "resolve" /\ ~up /\ pc' = "stalled"
    /\ IF IsData(sel.packet) \/ Source = <<>> THEN UNCHANGED <<txq, orphans>>
       ELSE SetSource(Tail(Source))
    /\ NoLocals
    /\ UNCHANGED <<signal, streamVars, up, cached, cursor, from, tx>>

Resolve ==
    /\ pc = "resolve" /\ up /\ pc' = "capacity"
    /\ UNCHANGED <<queueVars, streamVars, up, dispatcher>>

RoomForOneMore == Len(tx) <= TxCap                                \* mutant
HasCapacity == Len(tx) < TxCap

(* Once txChannel has room, the head is popped.  A DATA packet whose chunk  *)
(* the ARQ no longer waits for is dropped.                                  *)
PopItem ==
    /\ pc = "capacity" /\ HasCapacity
    /\ IF Source = <<>>
       THEN pc' = "top" /\ NoLocals /\ UNCHANGED <<txq, orphans, from>>
       ELSE /\ SetSource(Tail(Source))
            /\ from' = IF FromStream THEN sel.stream ELSE OrphanID
            /\ \/ /\ item' = Head(Source) /\ pc' = "pack"
                  /\ UNCHANGED <<entries, start, pos, sel>>
               \/ /\ FromStream /\ IsData(Head(Source))
                  /\ pc' = "top" /\ NoLocals
    /\ UNCHANGED <<signal, streamVars, up, cached, cursor, tx>>
-----------------------------------------------------------------------------
(* packControlBlocks.  The queue the item came from is visited first, then  *)
(* those of the other entries, until the packet is full.                    *)

Block(p, id) == [packet |-> p, sid |-> id]

Visited ==
    (IF FromStream THEN <<sel.stream>> ELSE <<OrphanID>>)
    \o PickedAt(entries, {i \in 1 .. Len(entries) : entries[i] \notin {sel.id, sel.stream}})

Queue(id) == IF id = OrphanID THEN orphans ELSE txq[id]

UnderFirst(p, id) == Block(p, sel.sid)                            \* mutant
Under(p, id) == Block(p, IF id = OrphanID THEN p.sid ELSE id)

BlocksOf(id) ==
    LET q == Queue(id)
        ps == PickedAt(q, {i \in 1 .. Len(q) : Packable(q[i])})
    IN  [i \in 1 .. Len(ps) |-> Under(ps[i], id)]

Gathered ==
    LET ids == Visited
    IN  FlattenSeq([i \in 1 .. Len(ids) |-> BlocksOf(ids[i])])

Packs == Packable(item) /\ MaxPackedBlocks > 1
Extra ==
    LET blocks == Gathered
    IN  IF ~Packs THEN <<>>
        ELSE SubSeq(blocks, 1, Min({Len(blocks), MaxPackedBlocks - 1}))

(* What was packed leaves its queue.                                        *)
Packed(task) == {task[i].packet : i \in 2 .. Len(task)}
Left(q, task) == PickedAt(q, {i \in 1 .. Len(q) : q[i] \notin Packed(task)})

PackAndSend ==
    /\ pc = "pack" /\ pc' = "top"
    /\ tx' = Append(tx, <<Block(item, sel.sid)>> \o Extra)
    /\ txq' = [s \in Streams |-> Left(txq[s], tx'[Len(tx')])]
    /\ orphans' = Left(orphans, tx'[Len(tx')])
    /\ NoLocals
    /\ UNCHANGED <<signal, streamVars, up, cached, cursor, from>>

(* An encode worker takes a task.                                           *)
EncodeWorker ==
    /\ tx # <<>> /\ tx' = Tail(tx)
    /\ UNCHANGED <<queueVars, streamVars, up, pc, cached, entries, cursor,
                   start, pos, sel, item, from>>
-----------------------------------------------------------------------------
DispatcherInit ==
    /\ txq = [s \in Streams |-> <<>>] /\ orphans = <<>>
    /\ life = [s \in Streams |-> IF s \in Opened THEN "open" ELSE "new"]
    /\ stale = TRUE /\ signal = FALSE /\ up = TRUE
    /\ pc = "top" /\ cached = <<>> /\ entries = <<>>
    /\ cursor = -1 /\ start = 0 /\ pos = 0
    /\ sel = NothingSelected /\ item = NoPacket /\ from = NoID /\ tx = <<>>

DispatcherStep ==
    \/ LoadVersion \/ CopyStreams \/ Begin \/ Scan \/ NothingFound \/ IdlePoll
    \/ NoResolver \/ Resolve \/ PopItem \/ PackAndSend

Bookkeeping == \E s \in Streams : BumpAdded(s) \/ CleanupStream(s)

DispatcherNext ==
    \/ \E p \in Offered : PushTXPacket(p) \/ RemoveQueuedData(p)
    \/ \E p \in OfferedOrphans : EnqueueOrphanReset(p)
    \/ Bookkeeping \/ \E s \in Streams : AddStream(s) \/ UnmapStream(s)
    \/ Resolvers \/ DispatcherStep \/ WakeUp \/ EncodeWorker

DispatcherSpec == DispatcherInit /\ [][DispatcherNext]_dispatcherVars

(* The dispatcher and the workers keep running, and who adds or removes a   *)
(* stream completes it.  Nothing is assumed of the goroutines that push or  *)
(* of the resolvers.                                                        *)
DispatcherFairness ==
    /\ WF_dispatcherVars(DispatcherStep) /\ WF_dispatcherVars(EncodeWorker)
    /\ WF_dispatcherVars(Bookkeeping)

FairSpec == DispatcherSpec /\ DispatcherFairness
-----------------------------------------------------------------------------
DispatcherTypeOK ==
    /\ txq \in [Streams -> Seq(Offered)] /\ orphans \in Seq(OfferedOrphans)
    /\ life \in [Streams -> {"new", "added", "open", "removed", "gone"}]
    /\ stale \in BOOLEAN /\ signal \in BOOLEAN /\ up \in BOOLEAN
    /\ pc \in {"top", "copy", "begin", "scan", "resolve", "capacity", "pack",
               "idle", "stalled"}
    /\ cached \in Seq(Streams) /\ entries \in Seq(Streams \cup {OrphanID})
    /\ cursor \in Int /\ start \in Nat /\ pos \in Nat
    /\ sel.stream \in Streams \cup {NoID}
    /\ sel.packet \in Offered \cup OfferedOrphans \cup {NoPacket}
    /\ item \in Offered \cup OfferedOrphans \cup {NoPacket}
    /\ from \in Streams \cup {OrphanID, NoID}
    /\ Len(tx) <= TxCap

(* An open stream has something else to send than a PING.                   *)
Waits(s) ==
    life[s] = "open" /\ txq[s] # <<>> /\ Head(txq[s]).type # "PING"

(* The dispatcher goes to sleep with work queued only if the token that     *)
(* wakes it is there: no push is lost between the scan and the sleep.       *)
NoLostWakeup ==
    pc = "idle" /\ ~signal => orphans = <<>> /\ \A s \in Streams : ~Waits(s)

(* Every block goes out under the id of the stream it was queued for; but   *)
(* when its PING was deferred the control stream stays selected, and what   *)
(* is popped from it goes out under the id of the orphan packet that won.   *)
PingsOffered == \E p \in Offered : p.type = "PING" /\ p.sid = 0
OwnStream ==
    \A i \in 1 .. Len(tx) :
        \A j \in 1 .. Len(tx[i]) :
            \/ tx[i][j].sid = tx[i][j].packet.sid
            \/ PingsOffered /\ tx[i][j].packet.sid = 0

(* Fair round robin: while there are resolvers, a stream with work gets its *)
(* turn or has nothing left.                                                *)
StreamsServed ==
    <>[]up => \A s \in Streams \ {0} : Waits(s) ~> (~Waits(s) \/ from = s)
=============================================================================
