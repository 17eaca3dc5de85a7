----------------------------- MODULE FECStream -----------------------------
(****************************************************************************)
(* Forward error correction of one download stream: the server diverts the  *)
(* data it dequeues into blocks of shards (internal/udpserver/              *)
(* stream_server.go, server_session.go), turns that on and off by the loss  *)
(* it measures, and the client puts blocks together again (internal/fec).   *)
(* ARQ goes on above: what is not acknowledged is queued again.             *)
(*                                                                          *)
(* Pollers are the workers that answer queries of the session; each step is *)
(* one critical section of fecMu or of the queue.  Units are data packets.  *)
(* The order of the queue, and the bytes of a shard, are left out.          *)
(****************************************************************************)
EXTENDS Integers, Sequences, SequencesExt, FiniteSets, Functions

CONSTANTS
    Units,            \* data packets of the stream
    Pollers,          \* workers that poll for the stream
    BlockSize,        \* fecAutoBlock
    MaxShards,        \* maxShards
    BaseParity,       \* fecAutoBaseParity
    MaxParity,        \* fecAutoMaxParity
    SuperParity,      \* fecSuperMaxParity
    Threshold,        \* fecAutoThreshold, in percent
    SuperFloor,       \* fecSuperLossFloor
    SuperCeil,        \* fecSuperLossCeil
    CleanWindows,     \* fecDisengageWindows
    MaxTracked,       \* maxTrackedBlocks
    Losses,           \* losses measured in a window, in percent
    MaxWindows,       \* bound: windows closed
    MaxResends        \* bound: retransmissions

ASSUME FECAssumption ==
    /\ MaxShards \in Nat /\ BlockSize \in 1 .. (MaxShards - 1)
    /\ BaseParity \in Nat \ {0} /\ MaxParity \in Nat /\ SuperParity \in Nat
    /\ Losses \subseteq 0 .. 95 /\ MaxTracked \in Nat \ {0}
    /\ CleanWindows \in Nat \ {0} /\ MaxWindows \in Nat /\ MaxResends \in Nat
    /\ 0 \notin Units

Nothing == 0

Smaller(a, b) == IF a < b THEN a ELSE b
Larger(a, b) == IF a > b THEN a ELSE b

(* SetParity keeps a full block within the limit of shards.                 *)
Clamped(k) == Smaller(Larger(k, 1), MaxShards - BlockSize)

VARIABLES
    queued,      \* TXQueue: data units
    doing,       \* per poller: "idle", "shard", "pop", "feed", "flush", "end", "raw", "send"
    hand,        \* per poller: the unit it has popped
    fecActive, fecLowWindows,
    parity, blockID, buf,       \* the encoder
    shardQueue,  \* fecShardQueue
    blocks,      \* history: the units of each block, in the order made
    late,        \* a shard that the network holds back, or none
    dec, order,  \* the decoder: blocks by id, and their order
    acked,       \* units that ARQ has received and acknowledged
    windows, resends,
    wire,        \* history: units sent, raw or in a shard of their block
    lost,        \* history: units that a disengage dropped
    recovered, evicted   \* history: per block, times recovered and evicted

encVars == <<fecActive, fecLowWindows, parity, blockID, buf, shardQueue, blocks>>
decVars == <<dec, order, recovered, evicted>>
fecVars == <<queued, doing, hand, encVars, late, decVars, acked, windows,
             resends, wire, lost>>

FECInit ==
    /\ queued = Units
    /\ doing = [p \in Pollers |-> "idle"]
    /\ hand = [p \in Pollers |-> Nothing]
    /\ fecActive = FALSE /\ fecLowWindows = 0
    /\ parity = Clamped(BaseParity) /\ blockID = 0 /\ buf = <<>>
    /\ shardQueue = <<>> /\ blocks = <<>>
    /\ late = <<>>
    /\ dec = <<>> /\ order = <<>>
    /\ acked = {} /\ windows = 0 /\ resends = 0
    /\ wire = {} /\ lost = {}
    /\ recovered = <<>> /\ evicted = <<>>
-----------------------------------------------------------------------------
(* The encoder.  A block that is full, or flushed, becomes shards.          *)
(* flushLocked, of the units in `content'; shards carry the id of the block *)
(* and, as history, which block that is.  An id has 32 bits in the code; no *)
(* stream makes that many blocks, and the model's ids do not wrap.          *)
EncodeBlock(content) ==
    LET n == Len(content)
        k == Smaller(parity, MaxShards - n)
        shard(i) == [id |-> blockID, gen |-> Len(blocks) + 1, n |-> n, k |-> k, i |-> i]
    IN  /\ blocks' = Append(blocks, content)
        /\ shardQueue' = shardQueue \o [i \in 1 .. n + k |-> shard(i)]
        /\ blockID' = blockID + 1
        /\ buf' = <<>>
        /\ recovered' = Append(recovered, 0) /\ evicted' = Append(evicted, 0)

\* Mutant: a block is closed one packet late.
AddPacketLate(u) ==
    IF Len(buf) + 1 <= BlockSize
    THEN /\ buf' = Append(buf, u)
         /\ UNCHANGED <<blocks, shardQueue, blockID, recovered, evicted>>
    ELSE EncodeBlock(Append(buf, u))
AddPacket(u) ==
    IF Len(buf) + 1 < BlockSize
    THEN /\ buf' = Append(buf, u)
         /\ UNCHANGED <<blocks, shardQueue, blockID, recovered, evicted>>
    ELSE EncodeBlock(Append(buf, u))

(* ParityForLoss, for a loss in percent: so many shards that the survivors  *)
(* are enough for the data, and one more.                                   *)
ParityForLoss(n, loss) ==
    LET total == (n * 100000 + 999 * (100 - loss)) \div (1000 * (100 - loss))
    IN  Smaller(Larger(total - n + 1, 1), MaxShards - n)

(* In the band of Super-FEC the parity is raised until a block is likely    *)
(* enough to survive: anything from ParityForLoss up to the limits.         *)
SuperCap ==
    IF SuperParity <= 0 \/ SuperParity > MaxShards - BlockSize
    THEN MaxShards - BlockSize ELSE SuperParity
SuperParities(loss) ==
    {Larger(Smaller(k, SuperCap), BaseParity) :
        k \in ParityForLoss(BlockSize, loss) .. (MaxShards - BlockSize)}
AutoParity(loss) ==
    LET k == Larger(ParityForLoss(BlockSize, loss), BaseParity)
    IN  IF MaxParity > 0 THEN Smaller(k, MaxParity) ELSE k
-----------------------------------------------------------------------------
(* maybeAdjustAutoFEC closes a window in which `loss' was measured.         *)
InHopeless(loss) == loss >= Threshold /\ loss > SuperCeil
InSuper(loss) == loss >= Threshold /\ loss >= SuperFloor /\ loss <= SuperCeil

Disengages == fecLowWindows + 1 >= CleanWindows

Relax ==
    /\ fecActive /\ ~Disengages
    /\ fecLowWindows' = fecLowWindows + 1
    /\ parity' = Clamped(BaseParity)
    /\ UNCHANGED <<fecActive, blockID, buf, shardQueue, blocks, recovered, evicted, lost>>

UnitsOf(shards) == UNION {ToSet(blocks[s.gen]) : s \in ToSet(shards)}

(* The tail is flushed, which uses up a block id, and dropped with the      *)
(* shards that wait.                                                        *)
Disengage ==
    /\ fecActive /\ Disengages
    /\ fecActive' = FALSE /\ fecLowWindows' = 0
    /\ lost' = lost \cup ToSet(buf) \cup UnitsOf(shardQueue)
    /\ blockID' = IF buf = <<>> THEN blockID ELSE blockID + 1
    /\ buf' = <<>> /\ shardQueue' = <<>>
    /\ UNCHANGED <<parity, blocks, recovered, evicted>>

EngageAutoFEC(k) ==
    /\ fecActive' = TRUE /\ fecLowWindows' = 0
    /\ parity' = Clamped(k)
    /\ UNCHANGED <<blockID, buf, shardQueue, blocks, recovered, evicted, lost>>

GiveUp ==
    /\ fecLowWindows' = 0
    /\ parity' = IF fecActive THEN Clamped(BaseParity) ELSE parity
    /\ UNCHANGED <<fecActive, blockID, buf, shardQueue, blocks, recovered, evicted, lost>>

MaybeAdjustAutoFEC(loss) ==
    /\ windows < MaxWindows
    /\ windows' = windows + 1
    /\ \/ loss < Threshold /\ (Relax \/ Disengage)
       \/ InHopeless(loss) /\ GiveUp
       \/ InSuper(loss) /\ \E k \in SuperParities(loss) : EngageAutoFEC(k)
       \/ /\ loss >= Threshold /\ ~InHopeless(loss) /\ ~InSuper(loss)
          /\ EngageAutoFEC(AutoParity(loss))
    /\ UNCHANGED <<queued, doing, hand, late, dec, order, acked, resends, wire>>
-----------------------------------------------------------------------------
(* What becomes of a unit or a shard on the wire.  AddShard of the client's *)
(* decoder: a shard of a block that it does not track opens it again, and   *)
(* the oldest block makes room; a shard that contradicts the block, or one  *)
(* that the block has, is dropped; enough shards recover the block once.    *)
Opened(s) == [id |-> s.id, n |-> s.n, k |-> s.k, got |-> {}, done |-> FALSE]
Tracked(id) == \E b \in ToSet(dec) : b.id = id

Kept(bs) == IF Len(bs) > MaxTracked THEN Tail(bs) ELSE bs
WithShard(b, s) ==
    LET got == b.got \cup {s}
    IN  [b EXCEPT !.got = IF Cardinality(got) >= b.n THEN {} ELSE got,
                  !.done = Cardinality(got) >= b.n]
\* Mutant: a block that is complete takes shards again.
RefusesOnlyRepeats(b, s) == b.n # s.n \/ b.k # s.k \/ \E t \in b.got : t.i = s.i
Refuses(b, s) == b.done \/ b.n # s.n \/ b.k # s.k \/ \E t \in b.got : t.i = s.i

(* Which units a block gives back; mixed shards give back nothing known.    *)
Recovers(b, s) == ~Refuses(b, s) /\ Cardinality(b.got) + 1 >= b.n

AddShard(s) ==
    LET opened == IF Tracked(s.id) THEN dec ELSE Append(dec, Opened(s))
        kept == Kept(opened)
        j == CHOOSE x \in DOMAIN kept : kept[x].id = s.id
        out == Len(opened) > MaxTracked
    IN  /\ dec' = IF Refuses(kept[j], s) THEN kept
                  ELSE [kept EXCEPT ![j] = WithShard(@, s)]
        /\ order' = IF out THEN Append(Tail(order), s.gen)
                    ELSE IF Tracked(s.id) THEN order ELSE Append(order, s.gen)
        /\ evicted' = IF out THEN [evicted EXCEPT ![Head(order)] = @ + 1] ELSE evicted
        /\ IF Recovers(kept[j], s)
           THEN /\ acked' = acked \cup ToSet(blocks[s.gen])
                /\ recovered' = [recovered EXCEPT ![s.gen] = @ + 1]
           ELSE UNCHANGED <<acked, recovered>>

LateArrives ==
    /\ late # <<>>
    /\ late' = <<>>
    /\ AddShard(late[1])
    /\ UNCHANGED <<queued, doing, hand, encVars, windows, resends, wire, lost>>
-----------------------------------------------------------------------------
(* dequeueSessionResponse: one poll for the stream.                         *)
Go(p, from, to) == doing[p] = from /\ doing' = [doing EXCEPT ![p] = to]

HasBufferedFECWork == fecActive /\ (shardQueue # <<>> \/ buf # <<>>)

Poll(p) ==
    /\ queued # {} \/ HasBufferedFECWork
    /\ Go(p, "idle", IF fecActive THEN "shard" ELSE "raw")
    /\ UNCHANGED <<queued, hand, encVars, late, decVars, acked, windows, resends,
                   wire, lost>>

(* popFECShard: lost, held back, or received.                               *)
PopFECShard(p) ==
    LET s == Head(shardQueue)
    IN  /\ doing[p] \in {"shard", "end"} /\ shardQueue # <<>>
        /\ doing' = [doing EXCEPT ![p] = "idle"]
        /\ shardQueue' = Tail(shardQueue)
        /\ wire' = wire \cup ToSet(blocks[s.gen])
        /\ \/ UNCHANGED <<late, decVars, acked>>
           \/ late = <<>> /\ late' = <<s>> /\ UNCHANGED <<decVars, acked>>
           \/ AddShard(s) /\ UNCHANGED late
        /\ UNCHANGED <<queued, hand, fecActive, fecLowWindows, parity, blockID, buf,
                       blocks, windows, resends, lost>>

NoFECShard(p) ==
    /\ shardQueue = <<>>
    /\ Go(p, "shard", "pop") \/ Go(p, "end", "idle")
    /\ UNCHANGED <<queued, hand, encVars, late, decVars, acked, windows, resends,
                   wire, lost>>

(* PopNextTXPacket; a unit that was acknowledged since is skipped.          *)
PopNextTXPacket(p) ==
    /\ doing[p] \in {"pop", "raw"}
    /\ \/ \E u \in queued \ acked :
             /\ queued' = queued \ {u}
             /\ hand' = [hand EXCEPT ![p] = u]
             /\ doing' = [doing EXCEPT ![p] = IF @ = "raw" THEN "send" ELSE "feed"]
       \/ \E u \in queued \cap acked :
             queued' = queued \ {u} /\ UNCHANGED <<hand, doing>>
       \/ /\ queued = {}
          /\ doing' = [doing EXCEPT ![p] = IF @ = "raw" THEN "idle" ELSE "flush"]
          /\ UNCHANGED <<queued, hand>>
    /\ UNCHANGED <<encVars, late, decVars, acked, windows, resends, wire, lost>>

(* feedFECData; when FEC has been turned off since, the unit goes out raw.  *)
FeedFECData(p) ==
    /\ doing[p] = "feed"
    /\ IF fecActive
       THEN /\ AddPacket(hand[p])
            /\ Go(p, "feed", "shard")
            /\ hand' = [hand EXCEPT ![p] = Nothing]
       ELSE /\ Go(p, "feed", "send")
            /\ UNCHANGED <<hand, buf, blocks, shardQueue, blockID, recovered, evicted>>
    /\ UNCHANGED <<queued, fecActive, fecLowWindows, parity, late, dec, order, acked,
                   windows, resends, wire, lost>>

\* Mutant: the tail waits for more data.
FlushNothing(p) ==
    /\ Go(p, "flush", "end")
    /\ UNCHANGED <<queued, hand, encVars, late, decVars, acked, windows, resends,
                   wire, lost>>
FlushFEC(p) ==
    /\ Go(p, "flush", "end")
    /\ IF fecActive /\ buf # <<>> THEN EncodeBlock(buf)
       ELSE UNCHANGED <<buf, blocks, shardQueue, blockID, recovered, evicted>>
    /\ UNCHANGED <<queued, hand, fecActive, fecLowWindows, parity, late, dec, order,
                   acked, windows, resends, wire, lost>>

SendRaw(p) ==
    /\ Go(p, "send", "idle")
    /\ hand' = [hand EXCEPT ![p] = Nothing]
    /\ wire' = wire \cup {hand[p]}
    /\ acked' = acked \/ acked' = acked \cup {hand[p]}
    /\ UNCHANGED <<queued, encVars, late, decVars, windows, resends, lost>>

(* The retransmission of ARQ.                                               *)
Resend(u) ==
    /\ resends < MaxResends
    /\ u \notin queued \cup acked /\ \A p \in Pollers : hand[p] # u
    /\ queued' = queued \cup {u} /\ resends' = resends + 1
    /\ UNCHANGED <<doing, hand, encVars, late, decVars, acked, windows, wire, lost>>

PollerStep(p) ==
    \/ Poll(p) \/ PopFECShard(p) \/ NoFECShard(p) \/ PopNextTXPacket(p)
    \/ FeedFECData(p) \/ FlushFEC(p) \/ SendRaw(p)

FECNext ==
    \/ \E p \in Pollers : PollerStep(p)
    \/ \E loss \in Losses : MaybeAdjustAutoFEC(loss)
    \/ \E u \in Units : Resend(u)
    \/ LateArrives
-----------------------------------------------------------------------------
Shard == [id : Nat, gen : Nat, n : Nat, k : Nat, i : Nat]
BlockState == [id : Nat, n : Nat, k : Nat, got : SUBSET Shard, done : BOOLEAN]

FECTypeOK ==
    /\ queued \subseteq Units /\ acked \subseteq Units
    /\ DOMAIN doing = Pollers /\ hand \in [Pollers -> Units \cup {Nothing}]
    /\ fecActive \in BOOLEAN /\ fecLowWindows \in 0 .. (CleanWindows - 1)
    /\ parity \in 1 .. (MaxShards - BlockSize) /\ blockID \in Nat
    /\ buf \in Seq(Units) /\ Len(buf) < BlockSize
    /\ blocks \in Seq(Seq(Units))
    /\ shardQueue \in Seq(Shard) /\ late \in Seq(Shard) /\ Len(late) <= 1
    /\ dec \in Seq(BlockState) /\ Len(dec) <= MaxTracked
    /\ order \in Seq(Nat) /\ Len(order) = Len(dec)
    /\ recovered \in Seq(Nat) /\ Len(recovered) = Len(blocks)
    /\ evicted \in Seq(Nat) /\ Len(evicted) = Len(blocks)
    /\ windows \in Nat /\ resends \in Nat

\* A packet taken from the queue is never just forgotten, though FEC may be
\* turned off between any two steps of the worker that holds it: it is in the
\* worker's hands, in the encoder, in the shards that wait, has been sent, or
\* went with what a disengage dropped (which ARQ sends again).
PoppedIsKept ==
    \A u \in Units \ (queued \cup acked) :
        \/ \E p \in Pollers : hand[p] = u
        \/ u \in ToSet(buf) \cup UnitsOf(shardQueue) \cup wire \cup lost

\* The decoder never holds shards of two blocks under one id, and so never
\* recovers a packet that was not sent: block numbers stay unique through
\* every disengage and engage, while old shards are still on their way.
BlocksNotMixed ==
    \A b \in ToSet(dec) : \A s, t \in b.got : s.gen = t.gen

\* A block is recovered again only after the decoder has forgotten it.
RecoveredOnce == \A g \in DOMAIN blocks : recovered[g] <= 1 + evicted[g]

FECExact == PoppedIsKept /\ BlocksNotMixed /\ RecoveredOnce

\* A packet fed to the encoder leaves it, even when no more data comes to
\* fill its block.
TailLeaves == \A u \in Units : []<>(u \notin ToSet(buf))
=============================================================================
