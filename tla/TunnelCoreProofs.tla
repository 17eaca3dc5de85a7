--------------------------- MODULE TunnelCoreProofs ---------------------------
(****************************************************************************)
(* The tunnel as MCTunnel puts it together: the server's two lanes of       *)
(* incoming packets (IngressLanes), its answers to polls (ServerAnswers),   *)
(* the client's session (ClientSession) and forward error correction        *)
(* (FECStream).  TunnelSound and TunnelTypeOK, for any number of workers,   *)
(* streams, packets and sessions and for all limits.                        *)
(****************************************************************************)
EXTENDS TunnelProofs

-----------------------------------------------------------------------------
(* The lanes of the server.                                                 *)

SpilledAt(q) == {i \in DOMAIN q : q[i] = "spilled"}
Spilling == {r \in Readers : reader[r] = "spill"}

\* Once the readers are gone the lanes only run empty, and a worker that
\* leaves although nobody told it to has found them so.
LanesOrder ==
    /\ run # "up" => \A r \in Readers : reader[r] = "gone"
    /\ run = "returned" => \A w \in DNSWorkers : dnsWorker[w] = "gone"
    /\ \A w \in DNSWorkers : dnsWorker[w] = "gone" /\ ~cancelled =>
          run # "up" /\ control = 0 /\ data = <<>>

LanesInv == LanesTypeOK /\ LanesOrder /\ SpillBounded

LEMMA LanesImply == LanesInv => LanesSound
BY IngressAssumption DEF LanesInv, LanesOrder, LanesSound, DrainedUnlessCancelled

LEMMA LanesInitSafe == LanesInit => LanesInv
<1> SUFFICES ASSUME LanesInit PROVE LanesInv
  OBVIOUS
<1>1. LanesTypeOK
  <2>1. data \in Seq({"bulk", "spilled"}) /\ Len(data) = 0
    BY EmptySeq DEF LanesInit
  <2>2. Len(data) <= DataLane /\ control \in 0 .. ControlLane
    BY <2>1, IngressAssumption DEF LanesInit
  <2>3. burst \in [DNSWorkers -> 0 .. ControlBurst]
    BY IngressAssumption DEF LanesInit
  <2> QED
    BY <2>1, <2>2, <2>3 DEF LanesInit, LanesTypeOK
<1>2. LanesOrder
  BY DEF LanesInit, LanesOrder
<1>3. {i \in DOMAIN data : data[i] = "spilled"} = {} /\ {r \in Readers : reader[r] = "spill"} = {}
  BY DEF LanesInit
<1>4. Cardinality({}) = 0 /\ Cardinality(Readers) \in Nat
  BY IngressAssumption, FS_EmptySet, FS_CardinalityType
<1> QED
  BY <1>1, <1>2, <1>3, <1>4 DEF LanesInv, SpillBounded

\* The sets that SpillBounded counts are finite.
LEMMA LaneCounts ==
    ASSUME LanesInv
    PROVE  /\ IsFiniteSet(SpilledAt(data)) /\ IsFiniteSet(Spilling)
           /\ Cardinality(SpilledAt(data)) \in Nat /\ Cardinality(Spilling) \in Nat
           /\ Cardinality(Readers) \in Nat
           /\ Cardinality(SpilledAt(data)) + Cardinality(Spilling) <= Cardinality(Readers)
<1>1. Len(data) \in Nat /\ DOMAIN data = 1 .. Len(data)
  BY LenProperties DEF LanesInv, LanesTypeOK
<1>2. IsFiniteSet(1 .. Len(data))
  BY <1>1, CountTo
<1>3. SpilledAt(data) \in SUBSET (1 .. Len(data)) /\ Spilling \in SUBSET Readers
  BY <1>1 DEF SpilledAt, Spilling
<1>4. IsFiniteSet(SpilledAt(data)) /\ IsFiniteSet(Spilling)
  BY <1>2, <1>3, IngressAssumption, FS_Subset
<1>5. /\ Cardinality(SpilledAt(data)) \in Nat /\ Cardinality(Spilling) \in Nat
      /\ Cardinality(Readers) \in Nat
  BY <1>4, IngressAssumption, FS_CardinalityType
<1> QED
  BY <1>4, <1>5 DEF LanesInv, SpillBounded, SpilledAt, Spilling

LEMMA SpillSame ==
    ASSUME LanesInv, data' = data, Spilling' \subseteq Spilling
    PROVE  SpillBounded'
<1>1. IsFiniteSet(Spilling) /\ Spilling' \in SUBSET Spilling
  BY LaneCounts
<1>2. Cardinality(Spilling') <= Cardinality(Spilling) /\ Cardinality(Spilling') \in Nat
  BY <1>1, FS_Subset, FS_CardinalityType
<1>3. Cardinality(SpilledAt(data')) = Cardinality(SpilledAt(data))
  OBVIOUS
<1> QED
  BY <1>2, <1>3, LaneCounts DEF SpillBounded, SpilledAt, Spilling

\* A bulk packet in the data lane.
LEMMA AppendBulk ==
    ASSUME NEW q \in Seq({"bulk", "spilled"})
    PROVE  SpilledAt(Append(q, "bulk")) = SpilledAt(q)
<1>1. /\ Append(q, "bulk") \in Seq({"bulk", "spilled"})
      /\ Len(Append(q, "bulk")) = Len(q) + 1 /\ Len(q) \in Nat
      /\ \A i \in 1 .. Len(q) : Append(q, "bulk")[i] = q[i]
      /\ Append(q, "bulk")[Len(q) + 1] = "bulk"
  BY AppendProperties, LenProperties
<1>2. DOMAIN Append(q, "bulk") = 1 .. Len(q) + 1 /\ DOMAIN q = 1 .. Len(q)
  BY <1>1, LenProperties
<1> QED
  BY <1>1, <1>2 DEF SpilledAt

LEMMA AppendSpilled ==
    ASSUME NEW q \in Seq({"bulk", "spilled"})
    PROVE  SpilledAt(Append(q, "spilled")) = SpilledAt(q) \cup {Len(q) + 1}
<1>1. /\ Append(q, "spilled") \in Seq({"bulk", "spilled"})
      /\ Len(Append(q, "spilled")) = Len(q) + 1 /\ Len(q) \in Nat
      /\ \A i \in 1 .. Len(q) : Append(q, "spilled")[i] = q[i]
      /\ Append(q, "spilled")[Len(q) + 1] = "spilled"
  BY AppendProperties, LenProperties
<1>2. DOMAIN Append(q, "spilled") = 1 .. Len(q) + 1 /\ DOMAIN q = 1 .. Len(q)
  BY <1>1, LenProperties
<1> QED
  BY <1>1, <1>2 DEF SpilledAt

\* Taking the first packet makes no more of them spilled.
LEMMA TailSpilled ==
    ASSUME NEW q \in Seq({"bulk", "spilled"}), q # <<>>, IsFiniteSet(SpilledAt(q))
    PROVE  /\ Cardinality(SpilledAt(Tail(q))) \in Nat
           /\ Cardinality(SpilledAt(Tail(q))) <= Cardinality(SpilledAt(q))
<1>1. /\ Tail(q) \in Seq({"bulk", "spilled"}) /\ Len(q) \in Nat \ {0}
      /\ Len(Tail(q)) = Len(q) - 1
      /\ \A i \in 1 .. Len(Tail(q)) : Tail(q)[i] = q[i + 1]
  BY HeadTailProperties, EmptySeq
<1>2. DOMAIN Tail(q) = 1 .. Len(q) - 1 /\ DOMAIN q = 1 .. Len(q)
  BY <1>1, LenProperties
<1> DEFINE f == [i \in SpilledAt(Tail(q)) |-> i + 1]
<1>3. f \in [SpilledAt(Tail(q)) -> SpilledAt(q)]
  BY <1>1, <1>2 DEF SpilledAt
<1>4. \A i, j \in SpilledAt(Tail(q)) : f[i] = f[j] => i = j
  BY <1>2 DEF SpilledAt
<1>5. f \in Injection(SpilledAt(Tail(q)), SpilledAt(q))
  BY <1>3, <1>4 DEF Injection, IsInjective
<1>6. /\ IsFiniteSet(SpilledAt(Tail(q)))
      /\ Cardinality(SpilledAt(Tail(q))) <= Cardinality(SpilledAt(q))
  BY <1>5, FS_Injection
<1> QED
  BY <1>6, FS_CardinalityType

ReaderOnly(r, to) ==
    /\ r \in Readers /\ reader' = [reader EXCEPT ![r] = to]
    /\ UNCHANGED <<dnsWorker, burst, cancelled, run>>

\* What a reader does that is not gone changes nothing in the order of an end.
LEMMA ReaderKeeps ==
    ASSUME LanesInv, NEW r, NEW to \in {"read", "other", "full", "spill", "bulk", "gone"},
           ReaderOnly(r, to), reader[r] # "gone",
           control' \in 0 .. ControlLane, data' \in Seq({"bulk", "spilled"}),
           Len(data') <= DataLane
    PROVE  LanesTypeOK' /\ LanesOrder'
<1>1. LanesTypeOK'
  BY DEF LanesInv, LanesTypeOK, ReaderOnly
<1>2. run = "up"
  BY DEF LanesInv, LanesOrder, ReaderOnly
<1>3. LanesOrder'
  BY <1>2 DEF LanesInv, LanesOrder, LanesTypeOK, ReaderOnly
<1> QED
  BY <1>1, <1>3

LEMMA SpillersOf ==
    ASSUME LanesInv, NEW r, NEW to, ReaderOnly(r, to)
    PROVE  Spilling' = IF to = "spill" THEN Spilling \cup {r} ELSE Spilling \ {r}
BY DEF LanesInv, LanesTypeOK, ReaderOnly, Spilling

LEMMA ReaderMoves ==
    ASSUME LanesInv, NEW r \in Readers, ReadPacket(r) \/ ReaderStops(r) \/ ReaderFails(r)
    PROVE  LanesInv'
<1>1. PICK to \in {"other", "bulk", "gone"} :
          ReaderOnly(r, to) /\ reader[r] # "gone" /\ UNCHANGED <<control, data>>
  BY DEF ReadPacket, ReaderStops, ReaderFails, Reads, ReaderOnly
<1>2. LanesTypeOK' /\ LanesOrder'
  BY <1>1, ReaderKeeps DEF LanesInv, LanesTypeOK
<1>3. SpillBounded'
  BY <1>1, SpillersOf, SpillSame
<1> QED
  BY <1>2, <1>3 DEF LanesInv

LEMMA EnqueueBulkKeeps ==
    ASSUME LanesInv, NEW r \in Readers, EnqueueBulk(r)
    PROVE  LanesInv'
<1>1. ReaderOnly(r, "read") /\ reader[r] # "gone" /\ control' = control
  BY DEF EnqueueBulk, Reads, ReaderOnly
<1>2. /\ data' \in Seq({"bulk", "spilled"}) /\ Len(data') <= DataLane
      /\ SpilledAt(data') = SpilledAt(data)
  <2>1. CASE Len(data) < DataLane
    <3>1. data \in Seq({"bulk", "spilled"}) /\ data' = Append(data, "bulk")
      BY <2>1 DEF EnqueueBulk, LanesInv, LanesTypeOK
    <3>2. Len(data') = Len(data) + 1 /\ Len(data) \in Nat
      BY <3>1, AppendProperties, LenProperties
    <3> QED
      BY <2>1, <3>1, <3>2, AppendBulk, AppendProperties, IngressAssumption
  <2>2. CASE ~(Len(data) < DataLane)
    BY <2>2 DEF EnqueueBulk, LanesInv, LanesTypeOK
  <2> QED
    BY <2>1, <2>2
<1>3. LanesTypeOK' /\ LanesOrder'
  BY <1>1, <1>2, ReaderKeeps DEF LanesInv, LanesTypeOK
<1>4. Spilling' \in SUBSET Spilling
  BY <1>1, SpillersOf
<1>5. Cardinality(Spilling') <= Cardinality(Spilling) /\ Cardinality(Spilling') \in Nat
  BY <1>4, LaneCounts, FS_Subset, FS_CardinalityType
<1>6. Cardinality(SpilledAt(data')) = Cardinality(SpilledAt(data))
  BY <1>2
<1>7. Cardinality(SpilledAt(data')) + Cardinality(Spilling') <= Cardinality(Readers)
  BY <1>5, <1>6, LaneCounts
<1>8. SpillBounded'
  BY <1>7 DEF SpillBounded, SpilledAt, Spilling
<1> QED
  BY <1>3, <1>8 DEF LanesInv

LEMMA EnqueueControlKeeps ==
    ASSUME LanesInv, NEW r \in Readers, EnqueueControl(r)
    PROVE  LanesInv'
<1>1. PICK to \in {"read", "full"} :
          ReaderOnly(r, to) /\ reader[r] # "gone" /\ data' = data
  BY DEF EnqueueControl, Reads, ReaderOnly
<1>2. control' \in 0 .. ControlLane
  BY IngressAssumption DEF EnqueueControl, LanesInv, LanesTypeOK
<1>3. LanesTypeOK' /\ LanesOrder'
  BY <1>1, <1>2, ReaderKeeps DEF LanesInv, LanesTypeOK
<1>4. SpillBounded'
  BY <1>1, SpillersOf, SpillSame
<1> QED
  BY <1>3, <1>4 DEF LanesInv

\* A reader may spill when the data lane is empty: then nothing in it is spilled.
LEMMA CheckDataLaneKeeps ==
    ASSUME LanesInv, NEW r \in Readers, CheckDataLane(r)
    PROVE  LanesInv'
<1>1. PICK to \in {"spill", "read"} :
          /\ ReaderOnly(r, to) /\ reader[r] # "gone" /\ UNCHANGED <<control, data>>
          /\ to = "spill" => data = <<>>
  BY DEF CheckDataLane, MaySpill, Reads, ReaderOnly
<1>2. LanesTypeOK' /\ LanesOrder'
  BY <1>1, ReaderKeeps DEF LanesInv, LanesTypeOK
<1>3. SpillBounded'
  <2>1. CASE to = "read"
    BY <1>1, <2>1, SpillersOf, SpillSame
  <2>2. CASE to = "spill"
    <3>1. SpilledAt(data') = {}
      BY <1>1, <2>2 DEF SpilledAt
    <3>2. Spilling' \in SUBSET Readers
      BY DEF Spilling
    <3>3. Cardinality(Spilling') <= Cardinality(Readers) /\ Cardinality(Spilling') \in Nat
      BY <3>2, IngressAssumption, FS_Subset, FS_CardinalityType
    <3>4. Cardinality({}) = 0
      BY FS_EmptySet
    <3> QED
      BY <3>1, <3>3, <3>4 DEF SpillBounded, SpilledAt, Spilling
  <2> QED
    BY <2>1, <2>2
<1> QED
  BY <1>2, <1>3 DEF LanesInv

LEMMA SpillControlKeeps ==
    ASSUME LanesInv, NEW r \in Readers, SpillControl(r)
    PROVE  LanesInv'
<1>1. ReaderOnly(r, "read") /\ reader[r] # "gone" /\ control' = control /\ r \in Spilling
  BY DEF SpillControl, Reads, ReaderOnly, Spilling
<1>2. /\ data' \in Seq({"bulk", "spilled"}) /\ Len(data') <= DataLane
      /\ Cardinality(SpilledAt(data')) \in Nat
      /\ Cardinality(SpilledAt(data')) <= Cardinality(SpilledAt(data)) + 1
  <2>1. CASE Len(data) < DataLane
    <3>1. data \in Seq({"bulk", "spilled"}) /\ data' = Append(data, "spilled")
      BY <2>1 DEF SpillControl, LanesInv, LanesTypeOK
    <3>2. /\ Len(data') = Len(data) + 1 /\ Len(data) \in Nat
          /\ data' \in Seq({"bulk", "spilled"})
      BY <3>1, AppendProperties, LenProperties
    <3>3. SpilledAt(data') = SpilledAt(data) \cup {Len(data) + 1}
      BY <3>1, AppendSpilled
    <3>4. /\ Cardinality(SpilledAt(data) \cup {Len(data) + 1}) =
               IF Len(data) + 1 \in SpilledAt(data) THEN Cardinality(SpilledAt(data))
               ELSE Cardinality(SpilledAt(data)) + 1
      BY LaneCounts, FS_AddElement
    <3> QED
      BY <2>1, <3>2, <3>3, <3>4, LaneCounts, IngressAssumption
  <2>2. CASE ~(Len(data) < DataLane)
    BY <2>2, LaneCounts DEF SpillControl, LanesInv, LanesTypeOK
  <2> QED
    BY <2>1, <2>2
<1>3. LanesTypeOK' /\ LanesOrder'
  BY <1>1, <1>2, ReaderKeeps DEF LanesInv, LanesTypeOK
<1>4. Spilling' = Spilling \ {r}
  BY <1>1, SpillersOf
<1>5. Cardinality(Spilling') = Cardinality(Spilling) - 1
  BY <1>1, <1>4, LaneCounts, FS_RemoveElement
<1>6. SpillBounded'
  BY <1>2, <1>5, LaneCounts DEF SpillBounded, SpilledAt, Spilling
<1> QED
  BY <1>3, <1>6 DEF LanesInv

LEMMA TakeDataKeeps ==
    ASSUME LanesInv, NEW w \in DNSWorkers, NEW from \in {"top", "wait"}, TakeData(w, from)
    PROVE  LanesInv'
<1>1. data \in Seq({"bulk", "spilled"}) /\ data # <<>> /\ data' = Tail(data) /\ reader' = reader
  BY DEF TakeData, LanesInv, LanesTypeOK
<1>2. /\ data' \in Seq({"bulk", "spilled"}) /\ Len(data') = Len(data) - 1 /\ Len(data) \in Nat
  BY <1>1, HeadTailProperties, LenProperties
<1>3. LanesTypeOK'
  BY <1>1, <1>2, IngressAssumption DEF LanesInv, LanesTypeOK, TakeData, Works
<1>4. LanesOrder'
  BY <1>1 DEF LanesInv, LanesTypeOK, LanesOrder, TakeData, Works
<1>5. /\ Cardinality(SpilledAt(data')) \in Nat
      /\ Cardinality(SpilledAt(data')) <= Cardinality(SpilledAt(data))
  BY <1>1, LaneCounts, TailSpilled
<1>6. Spilling' = Spilling
  BY <1>1 DEF Spilling
<1>7. Cardinality(Spilling') = Cardinality(Spilling)
  BY <1>6
<1>8. Cardinality(SpilledAt(data')) + Cardinality(Spilling') <= Cardinality(Readers)
  BY <1>5, <1>7, LaneCounts
<1>9. SpillBounded'
  BY <1>8 DEF SpillBounded, SpilledAt, Spilling
<1> QED
  BY <1>3, <1>4, <1>9 DEF LanesInv

\* Everything else leaves the data lane and the spilling readers alone.
LEMMA OthersKeep ==
    ASSUME LanesInv, UNCHANGED <<data, reader>>, LanesTypeOK', LanesOrder'
    PROVE  LanesInv'
<1>1. SpillBounded'
  BY SpillSame DEF Spilling
<1> QED
  BY <1>1 DEF LanesInv

LEMMA WorkerKeeps ==
    ASSUME LanesInv, NEW w \in DNSWorkers, DNSWorkerStep(w)
    PROVE  LanesInv'
<1>1. ASSUME NEW from \in {"top", "wait"}, TakeControl(w, from)
      PROVE  LanesInv'
  <2>1. LanesTypeOK'
    BY <1>1, IngressAssumption DEF LanesInv, LanesTypeOK, TakeControl, Works
  <2>2. LanesOrder'
    BY <1>1 DEF LanesInv, LanesTypeOK, LanesOrder, TakeControl, Works
  <2> QED
    BY <1>1, <2>1, <2>2, OthersKeep DEF TakeControl
<1>2. CASE NothingFirst(w) \/ ProcessIngressRequest(w)
  <2>1. LanesTypeOK'
    BY <1>2 DEF LanesInv, LanesTypeOK, NothingFirst, ProcessIngressRequest, Works
  <2>2. LanesOrder'
    BY <1>2 DEF LanesInv, LanesTypeOK, LanesOrder, NothingFirst, ProcessIngressRequest, Works
  <2> QED
    BY <1>2, <2>1, <2>2, OthersKeep DEF NothingFirst, ProcessIngressRequest
<1>3. CASE WorkerStops(w)
  <2>1. LanesTypeOK'
    BY <1>3 DEF LanesInv, LanesTypeOK, WorkerStops, Works
  <2>2. LanesOrder'
    BY <1>3 DEF LanesInv, LanesTypeOK, LanesOrder, WorkerStops, Works
  <2> QED
    BY <1>3, <2>1, <2>2, OthersKeep DEF WorkerStops
<1> QED
  BY <1>1, <1>2, <1>3, TakeDataKeeps DEF DNSWorkerStep, TakeFirst, TakeAny

LEMMA RunKeeps ==
    ASSUME LanesInv, CancelRun \/ CloseLanes \/ RunReturns
    PROVE  LanesInv'
<1>1. LanesTypeOK'
  BY DEF LanesInv, LanesTypeOK, CancelRun, CloseLanes, RunReturns
<1>2. LanesOrder'
  BY DEF LanesInv, LanesTypeOK, LanesOrder, CancelRun, CloseLanes, RunReturns
<1> QED
  BY <1>1, <1>2, OthersKeep DEF CancelRun, CloseLanes, RunReturns

LEMMA LanesKept ==
    ASSUME LanesInv, LanesNext
    PROVE  LanesInv'
BY ReaderMoves, EnqueueBulkKeeps, EnqueueControlKeeps, CheckDataLaneKeeps,
   SpillControlKeeps, WorkerKeeps, RunKeeps DEF LanesNext, ReaderStep

LEMMA LanesStay ==
    ASSUME LanesInv, UNCHANGED laneVars
    PROVE  LanesInv'
<1>1. LanesTypeOK' /\ LanesOrder'
  BY DEF laneVars, LanesInv, LanesTypeOK, LanesOrder
<1> QED
  BY <1>1, OthersKeep DEF laneVars

-----------------------------------------------------------------------------
(* The answers of the server.                                               *)

\* What an asker is at.  Only one that packs has blocks, and only when there
\* may be several.
AskerOK(x) ==
    /\ x \in [at : {x.at}, ids : {x.ids}, turn : {x.turn}, id : {x.id}, blocks : {x.blocks}]
    /\ x.at \in {"idle", "snapshot", "scan", "control", "data", "begin", "pack"}
    /\ x.at \in {"control", "data", "begin", "pack"} => x.id \in Streams \cup {OrphanTurn}
    /\ IF x.at \in {"begin", "pack"}
       THEN MaxPackedBlocks > 1 /\ x.blocks \in Seq(ToSet(x.blocks))
       ELSE x.blocks = <<>>

PackedRight(x) ==
    /\ Len(x.blocks) <= (IF MaxPackedBlocks > 1 THEN MaxPackedBlocks ELSE 0)
    /\ \A b \in ToSet(x.blocks) : b.sid = b.from

AnswersInv == AnswersTypeOK /\ \A p \in Askers : AskerOK(poll[p]) /\ PackedRight(poll[p])

LEMMA AnswersImply == AnswersInv => OwnBlocks
BY DEF AnswersInv, OwnBlocks, PackedRight

LEMMA AnswerNumbers == MaxPackedBlocks \in Nat /\ Duplication \in Nat /\ Duplication > 0
BY AnswersAssumption

LEMMA NothingPacked ==
    ASSUME NEW x, AskerOK(x), x.at \notin {"begin", "pack"}
    PROVE  PackedRight(x)
<1>1. x.blocks = <<>>
  BY DEF AskerOK
<1>2. Len(<<>>) = 0 /\ ToSet(<<>>) = {}
  BY EmptySeq DEF ToSet
<1> QED
  BY <1>1, <1>2, AnswerNumbers DEF PackedRight

LEMMA WaitingOK == AskerOK(Waiting) /\ PackedRight(Waiting)
<1>1. AskerOK(Waiting) /\ Waiting.at = "idle"
  BY DEF AskerOK, Waiting
<1> QED
  BY <1>1, NothingPacked

LEMMA AnswersInitSafe == AnswersInit => AnswersInv
<1> SUFFICES ASSUME AnswersInit PROVE AnswersInv
  OBVIOUS
<1>1. DOMAIN txqs = Streams /\ \A s \in Streams : txqs[s] \subseteq Carried[s]
  BY DEF AnswersInit
<1>2. DOMAIN poll = Askers /\ \A p \in Askers : poll[p] = Waiting
  BY DEF AnswersInit
<1>3. activeIDs \cup ended \subseteq Streams
  BY AnswersAssumption DEF AnswersInit
<1>4. copies \in 0 .. (Duplication - 1)
  BY AnswerNumbers DEF AnswersInit
<1>5. AnswersTypeOK
  BY <1>1, <1>2, <1>3, <1>4 DEF AnswersInit, AnswersTypeOK
<1> QED
  BY <1>2, <1>5, WaitingOK DEF AnswersInv

\* One asker moves on.
LEMMA AskerMoves ==
    ASSUME AnswersInv, AnswersTypeOK', NEW p \in Askers, NEW x, Becomes(p, x),
           AskerOK(x), PackedRight(x)
    PROVE  AnswersInv'
BY DEF AnswersInv, AnswersTypeOK, Becomes

LEMMA AskersStay ==
    ASSUME AnswersInv, AnswersTypeOK', poll' = poll
    PROVE  AnswersInv'
BY DEF AnswersInv

\* A candidate that has nothing is passed over, and one that has is taken from.
LEMMA PassOverOK ==
    ASSUME AnswersInv, AnswersTypeOK', NEW p \in Askers, poll[p].at = "scan", PassOver(p)
    PROVE  AnswersInv'
<1> DEFINE x == [poll[p] EXCEPT !.ids = Tail(@)]
<1>1. AskerOK(poll[p])
  BY DEF AnswersInv
<1>2. /\ x \in [at : {x.at}, ids : {x.ids}, turn : {x.turn}, id : {x.id}, blocks : {x.blocks}]
      /\ x.at = "scan" /\ x.blocks = poll[p].blocks
  BY <1>1 DEF AskerOK
<1>3. AskerOK(x)
  BY <1>1, <1>2 DEF AskerOK
<1>4. PackedRight(x)
  BY <1>2, <1>3, NothingPacked
<1>5. CASE Becomes(p, Waiting)
  BY <1>5, AskerMoves, WaitingOK
<1>6. CASE Becomes(p, x)
  BY <1>3, <1>4, <1>6, AskerMoves
<1> QED
  BY <1>5, <1>6 DEF PassOver

LEMMA TookOK ==
    ASSUME AnswersInv, AnswersTypeOK', NEW p \in Askers,
           NEW id \in Streams \cup {OrphanTurn}, NEW kind \in {"control", "data"},
           Took(p, id, kind)
    PROVE  AnswersInv'
<1> DEFINE x == [Waiting EXCEPT !.at = kind, !.id = id]
<1>1. x.at = kind /\ x.id = id /\ x.blocks = <<>>
  BY DEF Waiting
<1>2. AskerOK(x)
  BY <1>1 DEF AskerOK, Waiting
<1>3. x.at \notin {"begin", "pack"}
  BY <1>1
<1>4. PackedRight(x)
  BY <1>2, <1>3, NothingPacked
<1> QED
  BY <1>2, <1>4, AskerMoves DEF Took

LEMMA TurnTaken ==
    ASSUME AnswersInv, NEW p \in Askers, ReadTurn(p) \/ Snapshot(p) \/ Copy(p)
    PROVE  AnswersInv'
<1>1. CASE Copy(p)
  <2>1. AnswersTypeOK'
    BY <1>1, AnswerNumbers DEF AnswersInv, AnswersTypeOK, Copy
  <2> QED
    BY <1>1, <2>1, AskersStay DEF Copy
<1>2. CASE ReadTurn(p)
  <2> DEFINE x == [Waiting EXCEPT !.at = "snapshot", !.turn = rrStreamID]
  <2>1. x.at = "snapshot" /\ x.blocks = <<>>
    BY DEF Waiting
  <2>2. AskerOK(x) /\ x.at \notin {"begin", "pack"}
    BY <2>1 DEF AskerOK, Waiting
  <2>3. PackedRight(x)
    BY <2>2, NothingPacked
  <2>4. AnswersTypeOK'
    BY <1>2 DEF AnswersInv, AnswersTypeOK, ReadTurn, Becomes
  <2> QED
    BY <1>2, <2>2, <2>3, <2>4, AskerMoves DEF ReadTurn
<1>3. CASE Snapshot(p)
  <2> DEFINE ids == Candidates(poll[p].turn)
             x == [Waiting EXCEPT !.at = "scan", !.ids = ids]
  <2> HIDE DEF ids
  <2>1. x.at = "scan" /\ x.blocks = <<>>
    BY DEF Waiting
  <2>2. AskerOK(x) /\ x.at \notin {"begin", "pack"}
    BY <2>1 DEF AskerOK, Waiting
  <2>3. PackedRight(x)
    BY <2>2, NothingPacked
  <2>4. AnswersTypeOK'
    BY <1>3 DEF AnswersInv, AnswersTypeOK, Snapshot, Becomes
  <2>5. Becomes(p, Waiting) \/ Becomes(p, x)
    BY <1>3 DEF Snapshot, ids
  <2> QED
    BY <2>2, <2>3, <2>4, <2>5, AskerMoves, WaitingOK
<1> QED
  BY <1>1, <1>2, <1>3

LEMMA ScanKeeps ==
    ASSUME AnswersInv, NEW p \in Askers,
           PopOrphan(p) \/ NothingQueued(p) \/ DeactivateStream(p) \/ PopStream(p)
    PROVE  AnswersInv'
<1>1. CASE PopOrphan(p)
  <2>1. AnswersTypeOK'
    BY <1>1 DEF AnswersInv, AnswersTypeOK, PopOrphan, PassOver, Took, Becomes
  <2>2. CASE Took(p, OrphanTurn, "control")
    BY <2>1, <2>2, TookOK
  <2>3. CASE PassOver(p)
    BY <1>1, <2>1, <2>3, PassOverOK DEF PopOrphan, Scans
  <2> QED
    BY <1>1, <2>2, <2>3 DEF PopOrphan
<1>2. CASE NothingQueued(p)
  <2>1. AnswersTypeOK'
    BY <1>2 DEF AnswersInv, AnswersTypeOK, NothingQueued, PassOver, Becomes
  <2> QED
    BY <1>2, <2>1, PassOverOK DEF NothingQueued, Scans
<1>3. CASE DeactivateStream(p)
  <2>1. AnswersTypeOK'
    BY <1>3 DEF AnswersInv, AnswersTypeOK, DeactivateStream, PassOver, Becomes
  <2> QED
    BY <1>3, <2>1, PassOverOK DEF DeactivateStream, Scans
<1>4. CASE PopStream(p)
  <2>1. PICK s \in Streams \ ended :
          /\ Scans(p, s) /\ txqs[s] # {}
          /\ txqs' = [txqs EXCEPT ![s] = @ \ {Highest(txqs[s])}]
          /\ Took(p, s, Highest(txqs[s])) \/ PassOver(p)
          /\ UNCHANGED <<orphanq, activeIDs, ended, rrStreamID, copies, mu>>
    BY <1>4 DEF PopStream
  <2>2. AnswersTypeOK'
    BY <2>1 DEF AnswersInv, AnswersTypeOK, PassOver, Took, Becomes
  <2>3. Highest(txqs[s]) \in {"control", "data"}
    BY DEF Highest
  <2> QED
    BY <2>1, <2>2, <2>3, PassOverOK, TookOK DEF Scans
<1> QED
  BY <1>1, <1>2, <1>3, <1>4

LEMMA OneBlock ==
    ASSUME NEW b
    PROVE  /\ <<b>> \in Seq(ToSet(<<b>>)) /\ Len(<<b>>) = 1 /\ ToSet(<<b>>) = {b}
BY DEF ToSet

LEMMA OneMore ==
    ASSUME NEW q, q \in Seq(ToSet(q)), NEW b
    PROVE  /\ Append(q, b) \in Seq(ToSet(Append(q, b)))
           /\ Len(Append(q, b)) = Len(q) + 1 /\ Len(q) \in Nat
           /\ ToSet(Append(q, b)) = ToSet(q) \cup {b}
<1> DEFINE S == ToSet(q) \cup {b}
<1>1. q \in Seq(S)
  BY SeqMonotonic
<1>2. /\ Append(q, b) \in Seq(S) /\ Len(Append(q, b)) = Len(q) + 1 /\ Len(q) \in Nat
      /\ \A i \in 1 .. Len(q) : Append(q, b)[i] = q[i]
      /\ Append(q, b)[Len(q) + 1] = b
  BY <1>1, AppendProperties, LenProperties
<1>3. DOMAIN Append(q, b) = 1 .. Len(q) + 1 /\ DOMAIN q = 1 .. Len(q)
  BY <1>1, <1>2, LenProperties
<1>4. ToSet(Append(q, b)) = S
  BY <1>2, <1>3 DEF ToSet
<1> QED
  BY <1>2, <1>4

LEMMA ServeAnswerKeeps ==
    ASSUME AnswersInv, NEW p \in Askers, ServeAnswer(p)
    PROVE  AnswersInv'
<1>1. AskerOK(poll[p]) /\ poll[p].at \in {"control", "data"}
  BY DEF AnswersInv, ServeAnswer
<1>2. poll[p].id \in Streams \cup {OrphanTurn}
  BY <1>1 DEF AskerOK
<1>3. NextTurn(poll[p].id) \in {0} \cup {NextTurn(s) : s \in Streams}
  BY <1>2 DEF NextTurn, OrphanTurn
<1>4. AnswersTypeOK'
  BY <1>3 DEF AnswersInv, AnswersTypeOK, ServeAnswer, Becomes
<1> DEFINE b == Block(poll[p].id, poll[p].id)
           x == [poll[p] EXCEPT !.at = "begin", !.blocks = <<b>>]
<1>5. CASE Becomes(p, Waiting)
  BY <1>4, <1>5, AskerMoves, WaitingOK
<1>6. CASE MaxPackedBlocks > 1 /\ Becomes(p, x)
  <2>1. b.sid = b.from
    BY DEF Block
  <2> HIDE DEF b
  <2>2. /\ x \in [at : {x.at}, ids : {x.ids}, turn : {x.turn}, id : {x.id}, blocks : {x.blocks}]
        /\ x.at = "begin" /\ x.id = poll[p].id /\ x.blocks = <<b>>
    BY <1>1 DEF AskerOK
  <2>3. AskerOK(x)
    BY <1>2, <1>6, <2>2, OneBlock DEF AskerOK
  <2>4. PackedRight(x)
    BY <1>6, <2>1, <2>2, OneBlock, AnswerNumbers DEF PackedRight
  <2> QED
    BY <1>4, <1>6, <2>3, <2>4, AskerMoves
<1> QED
  BY <1>5, <1>6 DEF ServeAnswer

LEMMA PackKeeps ==
    ASSUME AnswersInv, NEW p \in Askers, BeginPack(p) \/ PackOne(p) \/ Packed(p)
    PROVE  AnswersInv'
<1>0. AskerOK(poll[p]) /\ PackedRight(poll[p])
  BY DEF AnswersInv
<1>1. CASE BeginPack(p)
  <2> DEFINE ids == PackOrder(poll[p].id)
             x == [poll[p] EXCEPT !.at = "pack", !.ids = ids]
  <2>1. poll[p].at = "begin" /\ Becomes(p, x)
    BY <1>1 DEF BeginPack
  <2> HIDE DEF ids
  <2>2. /\ x \in [at : {x.at}, ids : {x.ids}, turn : {x.turn}, id : {x.id}, blocks : {x.blocks}]
        /\ x.at = "pack" /\ x.id = poll[p].id /\ x.blocks = poll[p].blocks
    BY <1>0 DEF AskerOK
  <2>3. AskerOK(x) /\ PackedRight(x)
    BY <1>0, <2>1, <2>2 DEF AskerOK, PackedRight
  <2>4. AnswersTypeOK'
    BY <1>1 DEF AnswersInv, AnswersTypeOK, BeginPack, Becomes
  <2> QED
    BY <2>1, <2>3, <2>4, AskerMoves
<1>2. CASE PackOne(p)
  <2> DEFINE id == Head(poll[p].ids)
             b == Block(Under(p, id), id)
  <2>1. b.sid = b.from
    BY DEF Block, Under
  <2>2. PICK packed \in {poll[p].blocks, Append(poll[p].blocks, b)} :
          Becomes(p, [poll[p] EXCEPT !.ids = Tail(@), !.blocks = packed])
    BY <1>2 DEF PackOne
  <2>3. poll[p].at = "pack" /\ Len(poll[p].blocks) < MaxPackedBlocks
    BY <1>2 DEF PackOne, Packs
  <2>4. AnswersTypeOK'
    BY <1>2 DEF AnswersInv, AnswersTypeOK, PackOne, Becomes
  <2> HIDE DEF b
  <2> DEFINE x == [poll[p] EXCEPT !.ids = Tail(@), !.blocks = packed]
  <2>5. /\ x \in [at : {x.at}, ids : {x.ids}, turn : {x.turn}, id : {x.id}, blocks : {x.blocks}]
        /\ x.at = "pack" /\ x.id = poll[p].id /\ x.blocks = packed
    BY <1>0, <2>3 DEF AskerOK
  <2>6. /\ MaxPackedBlocks > 1 /\ poll[p].blocks \in Seq(ToSet(poll[p].blocks))
        /\ poll[p].id \in Streams \cup {OrphanTurn}
    BY <1>0, <2>3 DEF AskerOK
  <2>7. /\ packed \in Seq(ToSet(packed)) /\ Len(packed) <= MaxPackedBlocks
        /\ ToSet(packed) \subseteq ToSet(poll[p].blocks) \cup {b}
    <3>1. CASE packed = poll[p].blocks
      BY <2>3, <2>6, <3>1, LenProperties, AnswerNumbers
    <3>2. CASE packed = Append(poll[p].blocks, b)
      BY <2>3, <2>6, <3>2, OneMore, AnswerNumbers
    <3> QED
      BY <3>1, <3>2
  <2>8. AskerOK(x)
    BY <2>5, <2>6, <2>7 DEF AskerOK
  <2>9. PackedRight(x)
    BY <1>0, <2>1, <2>5, <2>6, <2>7 DEF PackedRight
  <2> QED
    BY <2>2, <2>4, <2>8, <2>9, AskerMoves
<1>3. CASE Packed(p)
  <2>1. AnswersTypeOK'
    BY <1>3, AnswerNumbers DEF AnswersInv, AnswersTypeOK, Packed, Becomes
  <2> QED
    BY <1>3, <2>1, AskerMoves, WaitingOK DEF Packed
<1> QED
  BY <1>1, <1>2, <1>3

LEMMA StreamsMove ==
    ASSUME AnswersInv,
           PushTXPacket \/ EnqueueOrphanReset \/ StreamOpens \/ StreamEnds \/ RemoveStream
    PROVE  AnswersInv'
<1>0. AnswersTypeOK
  BY DEF AnswersInv
<1>1. ASSUME PushTXPacket PROVE AnswersTypeOK'
  BY <1>0, <1>1 DEF AnswersTypeOK, PushTXPacket
<1>2. ASSUME EnqueueOrphanReset PROVE AnswersTypeOK'
  BY <1>0, <1>2 DEF AnswersTypeOK, EnqueueOrphanReset
<1>3. ASSUME StreamOpens \/ StreamEnds PROVE AnswersTypeOK'
  BY <1>0, <1>3 DEF AnswersTypeOK, StreamOpens, StreamEnds
<1>4. ASSUME RemoveStream PROVE AnswersTypeOK'
  BY <1>0, <1>4 DEF AnswersTypeOK, RemoveStream
<1>5. AnswersTypeOK'
  BY <1>1, <1>2, <1>3, <1>4
<1> QED
  BY <1>5, AskersStay DEF PushTXPacket, EnqueueOrphanReset, StreamOpens, StreamEnds,
                          RemoveStream

LEMMA AnswersKept ==
    ASSUME AnswersInv, AnswersNext
    PROVE  AnswersInv'
BY TurnTaken, ScanKeeps, ServeAnswerKeeps, PackKeeps, StreamsMove DEF AnswersNext, PollerWorks

LEMMA AnswersStay ==
    ASSUME AnswersInv, UNCHANGED answerVars
    PROVE  AnswersInv'
<1>1. AnswersTypeOK'
  BY DEF answerVars, AnswersInv, AnswersTypeOK
<1> QED
  BY <1>1, AskersStay DEF answerVars

-----------------------------------------------------------------------------
(* The session of the client.                                               *)

ClientAlone == phase \in {"discover", "connect", "race", "backoff"}

WatchFlags ==
    /\ rescan \in BOOLEAN /\ cooled \in BOOLEAN /\ pending \in BOOLEAN
    /\ signal \in BOOLEAN /\ silent \in BOOLEAN

WatchTypeOK ==
    /\ WatchFlags
    /\ phase \in {"discover", "connect", "race", "backoff", "connected", "stopping",
                  "draining"}
    /\ failures \in 0 .. FailLimit /\ streak \in 0 .. EscalateAt /\ rescans \in Nat
    /\ worker \in [Workers -> {"off", "idle", "check", "arm", "restart", "won"}]

\* The ping loop is the last to stop.
PingLast == phase = "draining" => \A w \in Workers \ {"ping"} : worker[w] = "off"

\* A watcher that is about to ask for a rescan has seen the cooldown over, or
\* the other one has asked meanwhile; and no rescan was asked for since it was.
ArmedRight ==
    /\ \A w \in Workers : worker[w] = "arm" => cooled \/ rescan
    /\ cooled => rescans = 0

WatchInv ==
    /\ WatchTypeOK /\ CleanStart /\ RestartNotLost /\ PingLast /\ ArmedRight /\ RescanRare

ServedFlags == scanned \in BOOLEAN /\ sawBusy \in BOOLEAN

ServedTypeOK ==
    /\ ServedFlags
    /\ discovered \in PathMTUs \cup {0} /\ ceiling \in Ceilings \cup {0}
    /\ policy \in Ceilings \cup {0} /\ attempt \in 0 .. MaxAttempts
    /\ made \in Nat /\ sid \in 0 .. made
    /\ DOMAIN race = Racers /\ \A r \in Racers : race[r].n \in 0 .. made
    /\ IsFiniteSet(served) /\ Cardinality(served) <= MaxSessions
    /\ \A s \in served : s.n \in 1 .. made

ServedInv == ServedTypeOK /\ OneSessionPerInit /\ PolicyInForce

SessionInv == WatchInv /\ ServedInv

LEMMA SessionImplies == SessionInv => EstablishTypeOK /\ ClientSound
BY DEF SessionInv, WatchInv, WatchTypeOK, WatchFlags, ServedInv, ServedTypeOK, ServedFlags,
       EstablishTypeOK, ClientSound

LEMMA ClientNumbers ==
    /\ MaxAttempts \in Nat /\ MaxAttempts > 0 /\ FailLimit \in Nat /\ FailLimit > 0
    /\ EscalateAt \in Nat /\ EscalateAt > 0 /\ MaxSessions \in Nat /\ MaxSessions > 0
BY ClientSessionAssumption

LEMMA SessionInitSafe == EstablishInit => SessionInv
<1> SUFFICES ASSUME EstablishInit PROVE SessionInv
  OBVIOUS
<1>1. WatchInv
  <2>1. WatchFlags
    BY DEF EstablishInit, WatchFlags
  <2>2. worker = [w \in Workers |-> "off"] /\ phase = "discover"
    BY DEF EstablishInit
  <2>3. failures \in 0 .. FailLimit /\ streak \in 0 .. EscalateAt /\ rescans = 0
    BY ClientNumbers DEF EstablishInit
  <2>4. WatchTypeOK
    BY <2>1, <2>2, <2>3 DEF WatchTypeOK
  <2>5. CleanStart /\ RestartNotLost /\ PingLast /\ ArmedRight
    BY <2>2, <2>3 DEF EstablishInit, CleanStart, RestartNotLost, PingLast, ArmedRight
  <2> QED
    BY <2>3, <2>4, <2>5 DEF WatchInv, RescanRare
<1>2. IsFiniteSet({}) /\ Cardinality({}) = 0
  BY FS_EmptySet
<1>3. DOMAIN race = Racers /\ \A r \in Racers : race[r].n = 0
  BY DEF EstablishInit, Over
<1>4. ServedTypeOK
  <2>1. ServedFlags
    BY DEF EstablishInit, ServedFlags
  <2>2. /\ made = 0 /\ sid = 0 /\ attempt = 0 /\ discovered = 0 /\ ceiling = 0
        /\ policy \in Ceilings /\ served = {}
    BY DEF EstablishInit
  <2> QED
    BY <1>2, <1>3, <2>1, <2>2, ClientNumbers DEF ServedTypeOK
<1>5. OneSessionPerInit /\ PolicyInForce
  BY DEF EstablishInit, OneSessionPerInit, PolicyInForce
<1> QED
  BY <1>1, <1>4, <1>5 DEF SessionInv, ServedInv

LEMMA Capped ==
    ASSUME NEW limit \in Nat, NEW k \in Nat
    PROVE  AtMost(k, limit) \in 0 .. limit
BY DEF AtMost

-----------------------------------------------------------------------------
\* Steps that leave to the watchers all that is theirs.
LEMMA WatchStays ==
    ASSUME WatchInv, UNCHANGED <<watchVars, failures>>,
           \/ phase' = phase
           \/ ClientAlone /\ ClientAlone'
           \/ phase = "stopping" /\ phase' = "draining"
              /\ \A w \in Workers \ {"ping"} : worker[w] = "off"
    PROVE  WatchInv'
BY DEF watchVars, ClientAlone, WatchInv, WatchTypeOK, WatchFlags, CleanStart, RestartNotLost,
       PingLast, ArmedRight, RescanRare

LEMMA AcceptWatched ==
    ASSUME WatchInv, NEW r \in Racers, Accept(r)
    PROVE  WatchInv'
<1>1. WatchTypeOK'
  <2>1. WatchFlags'
    BY DEF Accept, WatchInv, WatchTypeOK, WatchFlags
  <2> QED
    BY <2>1, ClientNumbers DEF Accept, WatchInv, WatchTypeOK
<1> QED
  BY <1>1 DEF Accept, WatchInv, WatchTypeOK, CleanStart, RestartNotLost, PingLast,
              ArmedRight, RescanRare

LEMMA FailWatched ==
    ASSUME WatchInv, InitializationFails
    PROVE  WatchInv'
<1>1. failures' \in 0 .. FailLimit
  BY ClientNumbers, Capped DEF InitializationFails, WatchInv, WatchTypeOK
<1>2. WatchTypeOK'
  <2>1. WatchFlags'
    BY DEF InitializationFails, Rescan, WatchInv, WatchTypeOK, WatchFlags
  <2>2. rescans' \in Nat
    BY DEF InitializationFails, Rescan, WatchInv, WatchTypeOK
  <2> QED
    BY <1>1, <2>1, <2>2 DEF InitializationFails, WatchInv, WatchTypeOK
<1> QED
  BY <1>2 DEF InitializationFails, RaceOver, Rescan, WatchInv, WatchTypeOK, CleanStart,
              RestartNotLost, PingLast, ArmedRight, RescanRare

LEMMA StopWatched ==
    ASSUME WatchInv, TakeSignal \/ CoolsDown
    PROVE  WatchInv'
<1>1. WatchFlags'
  BY DEF TakeSignal, CoolsDown, WatchInv, WatchTypeOK, WatchFlags
<1>2. WatchTypeOK'
  BY <1>1 DEF TakeSignal, CoolsDown, clientVars, WatchInv, WatchTypeOK
<1> QED
  BY <1>2 DEF TakeSignal, CoolsDown, clientVars, WatchInv, WatchTypeOK, CleanStart,
              RestartNotLost, PingLast, ArmedRight, RescanRare

LEMMA ResetWatched ==
    ASSUME WatchInv, ResetSession
    PROVE  WatchInv'
<1>1. failures' \in 0 .. FailLimit
  BY ClientNumbers, Capped DEF ResetSession, WatchInv, WatchTypeOK
<1>2. WatchTypeOK'
  BY <1>1 DEF ResetSession, WatchInv, WatchTypeOK, WatchFlags
<1>3. \A w \in Workers : worker[w] = "off"
  BY DEF ResetSession, WatchInv, PingLast
<1> QED
  BY <1>2, <1>3 DEF ResetSession, WatchInv, WatchTypeOK, CleanStart, RestartNotLost,
                    PingLast, ArmedRight, RescanRare

LEMMA MainWatched ==
    ASSUME WatchInv, MainStep
    PROVE  WatchInv'
<1>1. CASE Discover \/ InitializeSession \/ StartRace \/ NextAttempt \/ BackoffEnds
  BY <1>1, WatchStays DEF Discover, InitializeSession, StartRace, NextAttempt, BackoffEnds,
                          RaceOver, ClientAlone
<1>2. ASSUME NEW r \in Racers, Busy(r) PROVE WatchInv'
  BY <1>2, WatchStays DEF Busy
<1>3. CASE WorkersStopped
  BY <1>3, WatchStays DEF WorkersStopped
<1> QED
  BY <1>1, <1>2, <1>3, AcceptWatched, FailWatched, StopWatched, ResetWatched DEF MainStep

\* A worker's step in the protocol of requests.
LEMMA WorkerWatched ==
    ASSUME WatchInv, NEW w \in Workers, WorkerStep(w) \/ Exit(w)
    PROVE  WatchInv'
<1>1. CASE CountRequest(w)
  <2>1. streak' \in 0 .. EscalateAt
    BY <1>1, ClientNumbers, Capped DEF CountRequest, WatchInv, WatchTypeOK
  <2>2. WatchTypeOK'
    BY <1>1, <2>1 DEF CountRequest, At, clientVars, WatchInv, WatchTypeOK, WatchFlags
  <2> QED
    BY <1>1, <2>2 DEF CountRequest, At, clientVars, WatchInv, WatchTypeOK, CleanStart,
                      RestartNotLost, PingLast, ArmedRight, RescanRare
<1>2. CASE CheckCooldown(w)
  <2>1. WatchTypeOK'
    BY <1>2 DEF CheckCooldown, At, clientVars, WatchInv, WatchTypeOK, WatchFlags
  <2> QED
    BY <1>2, <2>1 DEF CheckCooldown, At, clientVars, WatchInv, WatchTypeOK, CleanStart,
                      RestartNotLost, PingLast, ArmedRight, RescanRare
<1>3. CASE Arm(w)
  <2>0. WatchFlags'
    BY <1>3 DEF Arm, WatchInv, WatchTypeOK, WatchFlags
  <2>1. WatchTypeOK'
    BY <1>3, <2>0, ClientNumbers DEF Arm, At, clientVars, WatchInv, WatchTypeOK
  <2> QED
    BY <1>3, <2>1 DEF Arm, At, clientVars, WatchInv, WatchTypeOK, CleanStart,
                      RestartNotLost, PingLast, ArmedRight, RescanRare
<1>4. CASE RequestRestart(w)
  <2>1. WatchTypeOK'
    BY <1>4 DEF RequestRestart, At, clientVars, WatchInv, WatchTypeOK, WatchFlags
  <2> QED
    BY <1>4, <2>1 DEF RequestRestart, At, clientVars, WatchInv, WatchTypeOK, CleanStart,
                      RestartNotLost, PingLast, ArmedRight, RescanRare
<1>5. CASE Signal(w)
  <2>1. WatchTypeOK'
    BY <1>5 DEF Signal, At, clientVars, WatchInv, WatchTypeOK, WatchFlags
  <2> QED
    BY <1>5, <2>1 DEF Signal, At, clientVars, WatchInv, WatchTypeOK, CleanStart,
                      RestartNotLost, PingLast, ArmedRight, RescanRare
<1>6. CASE Exit(w)
  <2>1. WatchTypeOK'
    BY <1>6 DEF Exit, At, clientVars, WatchInv, WatchTypeOK, WatchFlags
  <2> QED
    BY <1>6, <2>1 DEF Exit, At, clientVars, WatchInv, WatchTypeOK, CleanStart,
                      RestartNotLost, PingLast, ArmedRight, RescanRare
<1> QED
  BY <1>1, <1>2, <1>3, <1>4, <1>5, <1>6 DEF WorkerStep

LEMMA SilenceWatched ==
    ASSUME WatchInv, Response \/ Silence
    PROVE  WatchInv'
<1>1. WatchTypeOK'
  <2>1. WatchFlags'
    BY DEF Response, Silence, WatchInv, WatchTypeOK, WatchFlags
  <2> QED
    BY <2>1, ClientNumbers DEF Response, Silence, At, clientVars, WatchInv, WatchTypeOK
<1> QED
  BY <1>1 DEF Response, Running, Silence, At, clientVars, WatchInv, WatchTypeOK, CleanStart,
              RestartNotLost, PingLast, ArmedRight, RescanRare

LEMMA WatchKept ==
    ASSUME WatchInv, EstablishNext
    PROVE  WatchInv'
<1>1. ASSUME NEW r \in Racers, InitArrives(r) \/ RacerFails(r) PROVE WatchInv'
  BY <1>1, WatchStays DEF InitArrives, RacerFails
<1>2. ASSUME NEW i \in strays, StrayArrives(i) PROVE WatchInv'
  BY <1>2, WatchStays DEF StrayArrives, clientVars
<1>3. CASE OrphanExpires \/ SessionLost \/ ServerRestarts
  BY <1>3, WatchStays DEF OrphanExpires, SessionLost, ServerRestarts, clientVars
<1> QED
  BY <1>1, <1>2, <1>3, MainWatched, WorkerWatched, SilenceWatched, StopWatched
     DEF EstablishNext

-----------------------------------------------------------------------------
\* Sessions that end.
LEMMA FewerServed ==
    ASSUME ServedInv, served' \subseteq served, made' = made, sid' = sid, race' = race,
           discovered' = discovered, ceiling' = ceiling, attempt' = attempt,
           scanned' = scanned, sawBusy' = sawBusy,
           policy' \in Ceilings \cup {0}, policy' = policy \/ served' = {}
    PROVE  ServedInv'
<1>1. served' \in SUBSET served /\ IsFiniteSet(served)
  BY DEF ServedInv, ServedTypeOK
<1>2. IsFiniteSet(served') /\ Cardinality(served') <= Cardinality(served)
  BY <1>1, FS_Subset
<1>3. Cardinality(served') \in Nat /\ Cardinality(served) \in Nat
  BY <1>1, <1>2, FS_CardinalityType
<1>4. ServedTypeOK'
  BY <1>2, <1>3, ClientNumbers DEF ServedInv, ServedTypeOK, ServedFlags
<1>5. OneSessionPerInit' /\ PolicyInForce'
  BY DEF ServedInv, OneSessionPerInit, PolicyInForce
<1> QED
  BY <1>4, <1>5 DEF ServedInv

\* An init at the server: a new session has a new number, and an init of its own.
LEMMA Answered ==
    ASSUME ServedInv, NEW i, Answer(i)
    PROVE  /\ made' \in Nat /\ made <= made'
           /\ IsFiniteSet(served') /\ Cardinality(served') <= MaxSessions
           /\ \A s \in served' : s.n \in 1 .. made'
           /\ \A s, t \in served' : s.verify = t.verify => s = t
           /\ \A s \in served' : s \in served \/ s.n = made + 1
           /\ AnswerTo(i).n \in 0 .. made'
<1> DEFINE new == [n |-> made + 1, verify |-> i.verify, mtu |-> i.mtu]
<1>0. /\ made \in Nat /\ IsFiniteSet(served) /\ Cardinality(served) <= MaxSessions
      /\ \A s \in served : s.n \in 1 .. made
      /\ \A s, t \in served : s.verify = t.verify => s = t
  BY DEF ServedInv, ServedTypeOK, OneSessionPerInit
<1>1. \/ UNCHANGED <<served, made>>
      \/ /\ ~ \E s \in served : s.verify = i.verify
         /\ ~ (Cardinality(served) >= MaxSessions)
         /\ made' = made + 1 /\ served' = served \cup {new}
  BY DEF Answer
<1>2. new.n = made + 1 /\ new.verify = i.verify
  OBVIOUS
<1> HIDE DEF new
<1>3. IsFiniteSet(served') /\ Cardinality(served') <= MaxSessions
  <2>1. Cardinality(served) \in Nat
    BY <1>0, FS_CardinalityType
  <2>2. /\ IsFiniteSet(served \cup {new})
        /\ Cardinality(served \cup {new}) \in {Cardinality(served), Cardinality(served) + 1}
    BY <1>0, FS_AddElement
  <2>3. CASE UNCHANGED <<served, made>>
    BY <1>0, <2>3
  <2>4. CASE ~ (Cardinality(served) >= MaxSessions) /\ served' = served \cup {new}
    BY <2>1, <2>2, <2>4, ClientNumbers
  <2> QED
    BY <1>1, <2>3, <2>4
<1>4. made' \in Nat /\ made <= made' /\ \A s \in served' : s.n \in 1 .. made'
  BY <1>0, <1>1, <1>2
<1>5. \A s, t \in served' : s.verify = t.verify => s = t
  BY <1>0, <1>1, <1>2
<1>6. \A s \in served' : s \in served \/ s.n = made + 1
  BY <1>1, <1>2
<1>7. AnswerTo(i).n \in 0 .. made'
  <2>1. CASE \E s \in served' : s.verify = i.verify
    <3>1. PICK s \in served' : s.verify = i.verify /\ AnswerTo(i).n = s.n
      BY <2>1 DEF AnswerTo
    <3> QED
      BY <1>4, <3>1
  <2>2. CASE ~ \E s \in served' : s.verify = i.verify
    BY <1>4, <2>2 DEF AnswerTo
  <2> QED
    BY <2>1, <2>2
<1> QED
  BY <1>3, <1>4, <1>5, <1>6, <1>7

LEMMA AnsweredKeeps ==
    ASSUME ServedInv, NEW i, Answer(i),
           discovered' = discovered, ceiling' = ceiling, attempt' = attempt,
           scanned' = scanned, sawBusy' = sawBusy, policy' = policy, sid' = sid,
           DOMAIN race' = Racers,
           \A r \in Racers : race'[r] = race[r] \/ race'[r] = AnswerTo(i)
    PROVE  ServedInv'
<1>1. \A r \in Racers : race'[r].n \in 0 .. made'
  BY Answered DEF ServedInv, ServedTypeOK
<1>2. ServedTypeOK'
  BY <1>1, Answered DEF ServedInv, ServedTypeOK, ServedFlags
<1>3. OneSessionPerInit'
  BY Answered DEF OneSessionPerInit
<1>4. \A s \in served' : s.n = sid => s \in served
  BY Answered DEF ServedInv, ServedTypeOK
<1>5. PolicyInForce'
  BY <1>4 DEF ServedInv, PolicyInForce
<1> QED
  BY <1>2, <1>3, <1>5 DEF ServedInv

LEMMA ServerKeeps ==
    ASSUME ServedInv,
           \/ \E i \in strays : StrayArrives(i)
           \/ OrphanExpires \/ SessionLost \/ ServerRestarts
    PROVE  ServedInv'
<1>1. ASSUME NEW i \in strays, StrayArrives(i) PROVE ServedInv'
  <2>1. CASE Answer(i)
    BY <1>1, <2>1, AnsweredKeeps DEF StrayArrives, clientVars, ServedInv, ServedTypeOK
  <2>2. CASE UNCHANGED <<served, made>>
    BY <1>1, <2>2, FewerServed DEF StrayArrives, clientVars, ServedInv, ServedTypeOK
  <2> QED
    BY <1>1, <2>1, <2>2 DEF StrayArrives
<1>2. CASE OrphanExpires \/ SessionLost
  BY <1>2, FewerServed DEF OrphanExpires, SessionLost, clientVars, ServedInv, ServedTypeOK
<1>3. CASE ServerRestarts
  BY <1>3, FewerServed DEF ServerRestarts, clientVars, ServedInv, ServedTypeOK
<1> QED
  BY <1>1, <1>2, <1>3

LEMMA RaceKeeps ==
    ASSUME ServedInv, NEW r \in Racers, InitArrives(r) \/ RacerFails(r) \/ Busy(r) \/ Accept(r)
    PROVE  ServedInv'
<1>1. CASE InitArrives(r)
  BY <1>1, AnsweredKeeps DEF InitArrives, ServedInv, ServedTypeOK
<1>2. CASE RacerFails(r) \/ Busy(r)
  <2>1. ServedTypeOK'
    <3>1. ServedFlags'
      BY <1>2 DEF RacerFails, Busy, ServedInv, ServedTypeOK, ServedFlags
    <3> QED
      BY <1>2, <3>1 DEF RacerFails, Busy, serverSideVars, Over, ServedInv, ServedTypeOK
  <2>2. OneSessionPerInit' /\ PolicyInForce'
    BY <1>2 DEF RacerFails, Busy, serverSideVars, ServedInv, OneSessionPerInit, PolicyInForce
  <2> QED
    BY <2>1, <2>2 DEF ServedInv
<1>3. CASE Accept(r)
  <2>1. ServedTypeOK'
    BY <1>3 DEF Accept, Over, ServedInv, ServedTypeOK, ServedFlags
  <2>2. OneSessionPerInit' /\ PolicyInForce'
    BY <1>3 DEF Accept, ServedInv, OneSessionPerInit, PolicyInForce
  <2> QED
    BY <2>1, <2>2 DEF ServedInv
<1> QED
  BY <1>1, <1>2, <1>3

LEMMA MainKeeps ==
    ASSUME ServedInv,
           \/ Discover \/ InitializeSession \/ StartRace \/ NextAttempt \/ InitializationFails
           \/ BackoffEnds \/ TakeSignal \/ WorkersStopped \/ ResetSession
    PROVE  ServedInv'
<1>0. ServedFlags'
  BY DEF ServedInv, ServedTypeOK, ServedFlags, Discover, InitializeSession, StartRace,
     NextAttempt, InitializationFails, Rescan, BackoffEnds, TakeSignal, WorkersStopped,
     ResetSession
<1>1. /\ served' = served /\ made' = made /\ policy' = policy
      /\ discovered' \in PathMTUs \cup {0} /\ ceiling' = ceiling
      /\ attempt' \in 0 .. MaxAttempts
      /\ sid' = sid \/ sid' = 0
  BY ClientNumbers DEF ServedInv, ServedTypeOK, Discover, InitializeSession, StartRace,
     NextAttempt, RaceOver, InitializationFails, Rescan, BackoffEnds, TakeSignal,
     WorkersStopped, ResetSession, serverSideVars
<1>2. DOMAIN race' = Racers /\ \A r \in Racers : race'[r].n \in 0 .. made
  BY DEF ServedInv, ServedTypeOK, Discover, InitializeSession, StartRace, NextAttempt,
     InitializationFails, BackoffEnds, TakeSignal, WorkersStopped, ResetSession, Sent
<1>3. ServedTypeOK'
  BY <1>0, <1>1, <1>2 DEF ServedInv, ServedTypeOK
<1>4. OneSessionPerInit' /\ PolicyInForce'
  BY <1>1 DEF ServedInv, OneSessionPerInit, PolicyInForce
<1> QED
  BY <1>3, <1>4 DEF ServedInv

\* Steps that leave to the client and the server all that is theirs.
LEMMA ServedStays ==
    ASSUME ServedInv, UNCHANGED <<clientVars, serverSideVars>>
    PROVE  ServedInv'
BY DEF clientVars, serverSideVars, ServedInv, ServedTypeOK, ServedFlags, OneSessionPerInit, PolicyInForce

LEMMA ServedKept ==
    ASSUME ServedInv, EstablishNext
    PROVE  ServedInv'
<1>1. CASE CoolsDown \/ Response \/ Silence
  BY <1>1, ServedStays DEF CoolsDown, Response, Silence
<1>2. ASSUME NEW w \in Workers, WorkerStep(w) \/ Exit(w) PROVE ServedInv'
  BY <1>2, ServedStays DEF WorkerStep, CountRequest, CheckCooldown, Arm, RequestRestart,
                           Signal, Exit
<1> QED
  BY <1>1, <1>2, ServerKeeps, RaceKeeps, MainKeeps DEF EstablishNext, MainStep

LEMMA SessionKept ==
    ASSUME SessionInv, EstablishNext
    PROVE  SessionInv'
BY WatchKept, ServedKept DEF SessionInv

LEMMA SessionStays ==
    ASSUME SessionInv, UNCHANGED establishVars
    PROVE  SessionInv'
BY WatchStays, ServedStays DEF establishVars, clientVars, SessionInv

-----------------------------------------------------------------------------
(* Forward error correction.                                                *)

\* A poller has a unit in its hands exactly while it feeds or sends it.
Handed ==
    \A p \in Pollers : IF doing[p] \in {"feed", "send"} THEN hand[p] \in Units
                       ELSE hand[p] = Nothing

\* What goes by a block id: the shards on their way, and the blocks that the
\* decoder tracks.
OnTheWay == ToSet(shardQueue) \cup ToSet(late)
MarksOf(d, o) == {<<d[x].id, o[x]>> : x \in 1 .. Len(d)}
Marks == {<<s.id, s.gen>> : s \in OnTheWay} \cup MarksOf(dec, order)

\* Ids and blocks correspond, and new ones are above them all.
IDsUnique ==
    /\ \A m \in Marks : m[1] \in 0 .. blockID - 1 /\ m[2] \in 1 .. Len(blocks)
    /\ \A m, n \in Marks : m[1] = n[1] <=> m[2] = n[2]

\* What the decoder d tracks, o being the blocks that it takes them for: each
\* id once, with shards of one block, and a block that is recovered more often
\* than it was evicted is done.
DecoderOK(d, o, ev, rec, gens) ==
    /\ d \in Seq(BlockState) /\ Len(d) <= MaxTracked
    /\ o \in Seq(Nat) /\ Len(o) = Len(d)
    /\ ev \in Seq(Nat) /\ Len(ev) = gens /\ rec \in Seq(Nat) /\ Len(rec) = gens
    /\ \A x, y \in 1 .. Len(d) : d[x].id = d[y].id => x = y
    /\ \A x \in 1 .. Len(d) : IsFiniteSet(d[x].got) /\ \A t \in d[x].got : t.gen = o[x]
    /\ \A g \in 1 .. gens :
          /\ rec[g] <= 1 + ev[g]
          /\ \/ rec[g] <= ev[g]
             \/ \E x \in 1 .. Len(d) : o[x] = g /\ d[x].done

Decoding == DecoderOK(dec, order, evicted, recovered, Len(blocks))

FECInv == FECTypeOK /\ Handed /\ PoppedIsKept /\ IDsUnique /\ Decoding

LEMMA FECNumbers ==
    /\ MaxShards \in Nat /\ BlockSize \in Nat /\ BlockSize >= 1 /\ BlockSize < MaxShards
    /\ MaxTracked \in Nat /\ MaxTracked >= 1 /\ CleanWindows \in Nat /\ CleanWindows >= 1
    /\ BaseParity \in Nat /\ BaseParity >= 1 /\ MaxParity \in Nat /\ SuperParity \in Nat
    /\ Nothing \notin Units
BY FECAssumption DEF Nothing

LEMMA FECImplies == FECInv => FECExact
<1> SUFFICES ASSUME FECInv PROVE BlocksNotMixed /\ RecoveredOnce
  BY DEF FECInv, FECExact
<1>1. DOMAIN dec = 1 .. Len(dec) /\ DOMAIN blocks = 1 .. Len(blocks)
  BY LenProperties DEF FECInv, FECTypeOK
<1>2. BlocksNotMixed
  BY <1>1 DEF FECInv, Decoding, DecoderOK, BlocksNotMixed, ToSet
<1>3. RecoveredOnce
  BY <1>1 DEF FECInv, Decoding, DecoderOK, RecoveredOnce
<1> QED
  BY <1>2, <1>3

LEMMA ClampedOK ==
    ASSUME NEW k \in Int
    PROVE  Clamped(k) \in 1 .. (MaxShards - BlockSize)
BY FECNumbers DEF Clamped, Smaller, Larger

-----------------------------------------------------------------------------
(* Facts about the sequences of the model.                                  *)

LEMMA InSeq ==
    ASSUME NEW S, NEW q \in Seq(S)
    PROVE  /\ Len(q) \in Nat /\ DOMAIN q = 1 .. Len(q)
           /\ ToSet(q) \subseteq S /\ \A i \in 1 .. Len(q) : q[i] \in S /\ q[i] \in ToSet(q)
           /\ q = <<>> <=> Len(q) = 0
BY LenProperties, EmptySeq, ElementOfSeq DEF ToSet

LEMMA ToSetAppend ==
    ASSUME NEW S, NEW q \in Seq(S), NEW e \in S
    PROVE  /\ Append(q, e) \in Seq(S) /\ ToSet(Append(q, e)) = ToSet(q) \cup {e}
           /\ Len(Append(q, e)) = Len(q) + 1 /\ Len(q) \in Nat
           /\ \A i \in 1 .. Len(q) : Append(q, e)[i] = q[i]
           /\ Append(q, e)[Len(q) + 1] = e
           /\ Append(q, e) # <<>>
<1>1. /\ Append(q, e) \in Seq(S)
      /\ Len(Append(q, e)) = Len(q) + 1 /\ Len(q) \in Nat
      /\ \A i \in 1 .. Len(q) : Append(q, e)[i] = q[i]
      /\ Append(q, e)[Len(q) + 1] = e
  BY AppendProperties, LenProperties
<1>2. DOMAIN Append(q, e) = 1 .. Len(q) + 1 /\ DOMAIN q = 1 .. Len(q)
  BY <1>1, LenProperties
<1>3. ToSet(Append(q, e)) = ToSet(q) \cup {e}
  BY <1>1, <1>2 DEF ToSet
<1>4. Append(q, e) # <<>>
  BY <1>1, InSeq
<1> QED
  BY <1>1, <1>3, <1>4

LEMMA ToSetTail ==
    ASSUME NEW S, NEW q \in Seq(S), q # <<>>
    PROVE  /\ Head(q) = q[1] /\ Head(q) \in S /\ Tail(q) \in Seq(S)
           /\ ToSet(q) = {Head(q)} \cup ToSet(Tail(q))
           /\ Len(q) \in Nat /\ Len(q) > 0 /\ Len(Tail(q)) = Len(q) - 1
           /\ \A i \in 1 .. Len(q) - 1 : Tail(q)[i] = q[i + 1]
<1>1. /\ Head(q) \in S /\ Tail(q) \in Seq(S) /\ Len(Tail(q)) = Len(q) - 1
      /\ \A i \in 1 .. Len(Tail(q)) : Tail(q)[i] = q[i + 1]
      /\ Len(q) \in Nat /\ Len(q) > 0
  BY HeadTailProperties, EmptySeq
<1>2. DOMAIN Tail(q) = 1 .. Len(q) - 1 /\ DOMAIN q = 1 .. Len(q)
  BY <1>1, LenProperties
<1>3. Head(q) = q[1]
  OBVIOUS
<1>4. \A i \in 1 .. Len(q) : i = 1 \/ (i - 1 \in 1 .. Len(q) - 1 /\ Tail(q)[i - 1] = q[i])
  BY <1>1
<1>5. ToSet(q) = {Head(q)} \cup ToSet(Tail(q))
  <2>1. ASSUME NEW e \in ToSet(q) PROVE e \in {Head(q)} \cup ToSet(Tail(q))
    <3>1. PICK i \in 1 .. Len(q) : e = q[i]
      BY <1>2 DEF ToSet
    <3> QED
      BY <1>2, <1>3, <1>4, <3>1 DEF ToSet
  <2>2. ASSUME NEW e \in {Head(q)} \cup ToSet(Tail(q)) PROVE e \in ToSet(q)
    <3>1. CASE e = Head(q)
      BY <1>1, <1>2, <1>3, <3>1 DEF ToSet
    <3>2. CASE e \in ToSet(Tail(q))
      <4>1. PICK i \in 1 .. Len(q) - 1 : e = Tail(q)[i]
        BY <1>2, <3>2 DEF ToSet
      <4>2. e = q[i + 1] /\ i + 1 \in 1 .. Len(q)
        BY <1>1, <4>1
      <4> QED
        BY <1>2, <4>2 DEF ToSet
    <3> QED
      BY <2>2, <3>1, <3>2
  <2> QED
    BY <2>1, <2>2
<1> QED
  BY <1>1, <1>3, <1>5

LEMMA ToSetConcat ==
    ASSUME NEW S, NEW q \in Seq(S), NEW r \in Seq(S)
    PROVE  q \o r \in Seq(S) /\ ToSet(q \o r) = ToSet(q) \cup ToSet(r)
<1>1. /\ q \o r \in Seq(S) /\ Len(q \o r) = Len(q) + Len(r)
      /\ \A i \in 1 .. Len(q) + Len(r) :
            (q \o r)[i] = IF i <= Len(q) THEN q[i] ELSE r[i - Len(q)]
      /\ Len(q) \in Nat /\ Len(r) \in Nat
  BY ConcatProperties, LenProperties
<1>2. DOMAIN (q \o r) = 1 .. Len(q) + Len(r) /\ DOMAIN q = 1 .. Len(q) /\ DOMAIN r = 1 .. Len(r)
  BY <1>1, LenProperties
<1>3. ASSUME NEW e \in ToSet(q \o r) PROVE e \in ToSet(q) \cup ToSet(r)
  <2>1. PICK i \in 1 .. Len(q) + Len(r) : e = (q \o r)[i]
    BY <1>2 DEF ToSet
  <2>2. CASE i <= Len(q)
    BY <1>1, <1>2, <2>1, <2>2 DEF ToSet
  <2>3. CASE ~ (i <= Len(q))
    <3>1. i - Len(q) \in 1 .. Len(r) /\ e = r[i - Len(q)]
      BY <1>1, <2>1, <2>3
    <3> QED
      BY <1>2, <3>1 DEF ToSet
  <2> QED
    BY <2>2, <2>3
<1>4. ASSUME NEW e \in ToSet(q) PROVE e \in ToSet(q \o r)
  <2>1. PICK i \in 1 .. Len(q) : e = q[i]
    BY <1>2 DEF ToSet
  <2>2. i \in 1 .. Len(q) + Len(r) /\ e = (q \o r)[i]
    BY <1>1, <2>1
  <2> QED
    BY <1>2, <2>2 DEF ToSet
<1>5. ASSUME NEW e \in ToSet(r) PROVE e \in ToSet(q \o r)
  <2>1. PICK i \in 1 .. Len(r) : e = r[i]
    BY <1>2 DEF ToSet
  <2>2. /\ i + Len(q) \in 1 .. Len(q) + Len(r) /\ ~ (i + Len(q) <= Len(q))
        /\ (i + Len(q)) - Len(q) = i
    BY <1>1, <2>1
  <2>3. e = (q \o r)[i + Len(q)]
    BY <1>1, <2>1, <2>2
  <2> QED
    BY <1>2, <2>2, <2>3 DEF ToSet
<1> QED
  BY <1>1, <1>3, <1>4, <1>5

-----------------------------------------------------------------------------
(* The decoder.                                                             *)

LEMMA OpenedOK ==
    ASSUME NEW s \in Shard
    PROVE  /\ Opened(s) \in BlockState /\ Opened(s).id = s.id
           /\ Opened(s).got = {} /\ Opened(s).done = FALSE
BY DEF Opened, Shard, BlockState

\* A block that is not tracked is opened while there is room.
LEMMA Opening ==
    ASSUME NEW d, NEW o, NEW ev, NEW rec, NEW gens \in Nat,
           DecoderOK(d, o, ev, rec, gens), Len(d) < MaxTracked,
           NEW s \in Shard, s.gen \in 1 .. gens,
           \A x \in 1 .. Len(d) : d[x].id # s.id
    PROVE  DecoderOK(Append(d, Opened(s)), Append(o, s.gen), ev, rec, gens)
<1> DEFINE b == Opened(s)
           d1 == Append(d, b)
           o1 == Append(o, s.gen)
<1>1. /\ b \in BlockState /\ b.id = s.id /\ b.got = {} /\ b.done = FALSE
      /\ d \in Seq(BlockState) /\ o \in Seq(Nat) /\ Len(o) = Len(d)
  BY OpenedOK DEF DecoderOK
<1> HIDE DEF b
<1>2. /\ d1 \in Seq(BlockState) /\ Len(d1) = Len(d) + 1 /\ Len(d) \in Nat
      /\ \A i \in 1 .. Len(d) : d1[i] = d[i]
      /\ d1[Len(d) + 1] = b
  BY <1>1, ToSetAppend
<1>3. /\ o1 \in Seq(Nat) /\ Len(o1) = Len(d) + 1
      /\ \A i \in 1 .. Len(d) : o1[i] = o[i]
      /\ o1[Len(d) + 1] = s.gen
  BY <1>1, ToSetAppend
<1> HIDE DEF d1, o1
<1>4. \A x \in 1 .. Len(d1) : x \in 1 .. Len(d) \/ x = Len(d) + 1
  BY <1>2
<1>0. /\ \A x, y \in 1 .. Len(d) : d[x].id = d[y].id => x = y
      /\ \A x \in 1 .. Len(d) : IsFiniteSet(d[x].got) /\ \A t \in d[x].got : t.gen = o[x]
  BY DEF DecoderOK
<1>5. \A x, y \in 1 .. Len(d1) : d1[x].id = d1[y].id => x = y
  <2> SUFFICES ASSUME NEW x \in 1 .. Len(d1), NEW y \in 1 .. Len(d1), d1[x].id = d1[y].id
               PROVE  x = y
    OBVIOUS
  <2>1. CASE x = Len(d) + 1 /\ y = Len(d) + 1
    BY <2>1
  <2>2. CASE x = Len(d) + 1 /\ y \in 1 .. Len(d)
    BY <1>1, <1>2, <2>2
  <2>3. CASE x \in 1 .. Len(d) /\ y = Len(d) + 1
    BY <1>1, <1>2, <2>3
  <2>4. CASE x \in 1 .. Len(d) /\ y \in 1 .. Len(d)
    BY <1>0, <1>2, <2>4
  <2> QED
    BY <1>4, <2>1, <2>2, <2>3, <2>4
<1>6. \A x \in 1 .. Len(d1) : IsFiniteSet(d1[x].got) /\ \A t \in d1[x].got : t.gen = o1[x]
  <2> SUFFICES ASSUME NEW x \in 1 .. Len(d1)
               PROVE  IsFiniteSet(d1[x].got) /\ \A t \in d1[x].got : t.gen = o1[x]
    OBVIOUS
  <2>1. CASE x = Len(d) + 1
    BY <1>1, <1>2, <2>1, FS_EmptySet
  <2>2. CASE x \in 1 .. Len(d)
    BY <1>0, <1>2, <1>3, <2>2
  <2> QED
    BY <1>4, <2>1, <2>2
<1>7. ASSUME NEW g \in 1 .. gens, ~ (rec[g] <= ev[g])
      PROVE  \E x \in 1 .. Len(d1) : o1[x] = g /\ d1[x].done
  <2>1. PICK x \in 1 .. Len(d) : o[x] = g /\ d[x].done
    BY <1>7 DEF DecoderOK
  <2> QED
    BY <1>2, <1>3, <2>1
<1>8. Len(d1) <= MaxTracked
  BY <1>2, FECNumbers
<1>9. DecoderOK(d1, o1, ev, rec, gens)
  BY <1>2, <1>3, <1>5, <1>6, <1>7, <1>8 DEF DecoderOK
<1> QED
  BY <1>9 DEF d1, o1, b

\* It takes the place of the oldest when there is none.
LEMMA Replacing ==
    ASSUME NEW d, NEW o, NEW ev, NEW rec, NEW gens \in Nat,
           DecoderOK(d, o, ev, rec, gens), Len(d) + 1 > MaxTracked,
           NEW s \in Shard, s.gen \in 1 .. gens, o[1] \in 1 .. gens,
           \A x \in 1 .. Len(d) : d[x].id # s.id
    PROVE  DecoderOK(Tail(Append(d, Opened(s))), Append(Tail(o), s.gen),
                     [ev EXCEPT ![Head(o)] = @ + 1], rec, gens)
<1> DEFINE b == Opened(s)
           d1 == Tail(Append(d, b))
           o1 == Append(Tail(o), s.gen)
           ev1 == [ev EXCEPT ![Head(o)] = @ + 1]
<1>1. /\ b \in BlockState /\ b.id = s.id /\ b.got = {} /\ b.done = FALSE
      /\ d \in Seq(BlockState) /\ o \in Seq(Nat) /\ Len(o) = Len(d)
      /\ ev \in Seq(Nat) /\ Len(ev) = gens /\ rec \in Seq(Nat) /\ Len(rec) = gens
  BY OpenedOK DEF DecoderOK
<1> HIDE DEF b
<1>2. Len(d) = MaxTracked /\ Len(d) \in Nat /\ Len(d) >= 1
  BY <1>1, InSeq, FECNumbers DEF DecoderOK
<1>3. o # <<>>
  BY <1>1, <1>2, InSeq
<1>4. /\ Append(d, b) \in Seq(BlockState)
      /\ Len(Append(d, b)) = Len(d) + 1
      /\ \A i \in 1 .. Len(d) : Append(d, b)[i] = d[i]
      /\ Append(d, b)[Len(d) + 1] = b
  BY <1>1, ToSetAppend
<1>40. Append(d, b) # <<>>
  BY <1>2, <1>4, InSeq
<1>5. /\ d1 \in Seq(BlockState) /\ Len(d1) = Len(d)
      /\ \A i \in 1 .. Len(d) : d1[i] = Append(d, b)[i + 1]
  BY <1>2, <1>4, <1>40, ToSetTail
<1>6. /\ \A i \in 1 .. Len(d) - 1 : d1[i] = d[i + 1]
      /\ d1[Len(d)] = b
  BY <1>2, <1>4, <1>5
<1>7. /\ Tail(o) \in Seq(Nat) /\ Len(Tail(o)) = Len(d) - 1 /\ Head(o) = o[1]
      /\ \A i \in 1 .. Len(d) - 1 : Tail(o)[i] = o[i + 1]
  BY <1>1, <1>3, ToSetTail
<1>8. s.gen \in Nat
  BY DEF Shard
<1>9. /\ o1 \in Seq(Nat) /\ Len(o1) = Len(d)
      /\ \A i \in 1 .. Len(d) - 1 : o1[i] = o[i + 1]
      /\ o1[Len(d)] = s.gen
  <2>1. /\ o1 \in Seq(Nat) /\ Len(o1) = Len(Tail(o)) + 1
        /\ \A i \in 1 .. Len(Tail(o)) : o1[i] = Tail(o)[i]
        /\ o1[Len(Tail(o)) + 1] = s.gen
    BY <1>7, <1>8, ToSetAppend
  <2> HIDE DEF o1
  <2> QED
    BY <1>2, <1>7, <2>1
<1>10. ev[o[1]] \in Nat
  BY <1>1, InSeq
<1>11. /\ ev1 \in Seq(Nat) /\ Len(ev1) = gens
       /\ \A g \in 1 .. gens : ev1[g] = IF g = o[1] THEN ev[g] + 1 ELSE ev[g]
  BY <1>1, <1>7, <1>10, ExceptSeq
<1>12. \A g \in 1 .. gens : ev[g] \in Nat /\ rec[g] \in Nat
  BY <1>1, InSeq
<1> HIDE DEF d1, o1, ev1
<1>13. \A x \in 1 .. Len(d1) : (x \in 1 .. Len(d) - 1 /\ x + 1 \in 1 .. Len(d)) \/ x = Len(d)
  BY <1>2, <1>5
<1>14. \A x, y \in 1 .. Len(d1) : d1[x].id = d1[y].id => x = y
  <2> SUFFICES ASSUME NEW x \in 1 .. Len(d1), NEW y \in 1 .. Len(d1), d1[x].id = d1[y].id
               PROVE  x = y
    OBVIOUS
  <2>1. CASE x = Len(d) /\ y = Len(d)
    BY <2>1
  <2>2. CASE x = Len(d) /\ y # Len(d)
    BY <1>1, <1>6, <1>13, <2>2
  <2>3. CASE x # Len(d) /\ y = Len(d)
    BY <1>1, <1>6, <1>13, <2>3
  <2>4. CASE x # Len(d) /\ y # Len(d)
    <3>1. /\ d1[x] = d[x + 1] /\ x + 1 \in 1 .. Len(d)
          /\ d1[y] = d[y + 1] /\ y + 1 \in 1 .. Len(d)
      BY <1>6, <1>13, <2>4
    <3>2. x + 1 = y + 1
      BY <3>1 DEF DecoderOK
    <3> QED
      BY <3>2
  <2> QED
    BY <2>1, <2>2, <2>3, <2>4
<1>15. \A x \in 1 .. Len(d1) : IsFiniteSet(d1[x].got) /\ \A t \in d1[x].got : t.gen = o1[x]
  <2> SUFFICES ASSUME NEW x \in 1 .. Len(d1)
               PROVE  IsFiniteSet(d1[x].got) /\ \A t \in d1[x].got : t.gen = o1[x]
    OBVIOUS
  <2>1. CASE x = Len(d)
    BY <1>1, <1>6, <2>1, FS_EmptySet
  <2>2. CASE x # Len(d)
    <3>1. x + 1 \in 1 .. Len(d) /\ d1[x] = d[x + 1] /\ o1[x] = o[x + 1]
      BY <1>6, <1>9, <1>13, <2>2
    <3>2. IsFiniteSet(d[x + 1].got) /\ \A t \in d[x + 1].got : t.gen = o[x + 1]
      BY <3>1 DEF DecoderOK
    <3> QED
      BY <3>1, <3>2
  <2> QED
    BY <2>1, <2>2
<1>16. ASSUME NEW g \in 1 .. gens
       PROVE  /\ rec[g] <= 1 + ev1[g]
              /\ \/ rec[g] <= ev1[g]
                 \/ \E x \in 1 .. Len(d1) : o1[x] = g /\ d1[x].done
  <2>1. rec[g] <= 1 + ev[g]
    BY DEF DecoderOK
  <2>2. CASE g = o[1]
    BY <1>11, <1>12, <2>1, <2>2
  <2>3. CASE g # o[1] /\ rec[g] <= ev[g]
    BY <1>11, <1>12, <2>3
  <2>4. CASE g # o[1] /\ ~ (rec[g] <= ev[g])
    <3>1. PICK x \in 1 .. Len(d) : o[x] = g /\ d[x].done
      BY <2>4 DEF DecoderOK
    <3>2. x # 1
      BY <2>4, <3>1
    <3>3. x - 1 \in 1 .. Len(d) - 1 /\ (x - 1) + 1 = x
      BY <1>2, <3>2
    <3>4. o1[x - 1] = g /\ d1[x - 1].done /\ x - 1 \in 1 .. Len(d1)
      BY <1>2, <1>5, <1>6, <1>9, <3>1, <3>3
    <3> QED
      BY <1>11, <1>12, <2>1, <2>4, <3>4
  <2> QED
    BY <2>2, <2>3, <2>4
<1>17. DecoderOK(d1, o1, ev1, rec, gens)
  BY <1>1, <1>2, <1>5, <1>9, <1>11, <1>14, <1>15, <1>16 DEF DecoderOK
<1> QED
  BY <1>17 DEF d1, o1, ev1, b

LEMMA WithShardOK ==
    ASSUME NEW b \in BlockState, NEW s \in Shard, IsFiniteSet(b.got), ~Refuses(b, s)
    PROVE  /\ WithShard(b, s) \in BlockState /\ WithShard(b, s).id = b.id
           /\ IsFiniteSet(WithShard(b, s).got) /\ WithShard(b, s).got \subseteq b.got \cup {s}
           /\ WithShard(b, s).done <=> Recovers(b, s)
<1> DEFINE got == b.got \cup {s}
<1>1. s \notin b.got /\ b.n \in Nat
  BY DEF Refuses, BlockState
<1>2. IsFiniteSet(got) /\ Cardinality(got) = Cardinality(b.got) + 1
  BY <1>1, FS_AddElement
<1>3. got \in SUBSET Shard
  BY DEF BlockState
<1>4. IsFiniteSet({})
  BY FS_EmptySet
<1> HIDE DEF got
<1>5. WithShard(b, s) = [b EXCEPT !.got = IF Cardinality(got) >= b.n THEN {} ELSE got,
                                  !.done = Cardinality(got) >= b.n]
  BY DEF WithShard, got
<1>6. Recovers(b, s) <=> Cardinality(got) >= b.n
  BY <1>2 DEF Recovers
<1>7. (Cardinality(got) >= b.n) \in BOOLEAN
  OBVIOUS
<1>8. WithShard(b, s) \in BlockState
  BY <1>3, <1>5, <1>7 DEF BlockState
<1>9. /\ WithShard(b, s).id = b.id
      /\ WithShard(b, s).got = IF Cardinality(got) >= b.n THEN {} ELSE got
      /\ WithShard(b, s).done <=> Cardinality(got) >= b.n
  BY <1>5 DEF BlockState
<1> QED
  BY <1>2, <1>4, <1>6, <1>8, <1>9 DEF got

\* The decoder after a shard of its block number j, and the times that blocks
\* were recovered.
Given(d, j, s) ==
    IF Refuses(d[j], s) THEN d ELSE [d EXCEPT ![j] = WithShard(@, s)]
Recounted(rec, d, j, s) ==
    IF Recovers(d[j], s) THEN [rec EXCEPT ![s.gen] = @ + 1] ELSE rec

LEMMA Receiving ==
    ASSUME NEW d, NEW o, NEW ev, NEW rec, NEW gens \in Nat,
           DecoderOK(d, o, ev, rec, gens),
           NEW s \in Shard, s.gen \in 1 .. gens,
           NEW j \in 1 .. Len(d), o[j] = s.gen, ~Refuses(d[j], s),
           \A x \in 1 .. Len(d) : o[x] = s.gen => x = j
    PROVE  /\ DecoderOK(Given(d, j, s), o, ev, Recounted(rec, d, j, s), gens)
           /\ Len(Given(d, j, s)) = Len(d)
           /\ \A x \in 1 .. Len(d) : Given(d, j, s)[x].id = d[x].id
<1> DEFINE b == WithShard(d[j], s)
           d1 == Given(d, j, s)
           rec1 == Recounted(rec, d, j, s)
<1>0. /\ d1 = [d EXCEPT ![j] = b]
      /\ rec1 = IF Recovers(d[j], s) THEN [rec EXCEPT ![s.gen] = @ + 1] ELSE rec
  BY DEF Given, Recounted
<1> HIDE DEF d1, rec1
<1>1. /\ d \in Seq(BlockState) /\ o \in Seq(Nat) /\ Len(o) = Len(d)
      /\ ev \in Seq(Nat) /\ Len(ev) = gens /\ rec \in Seq(Nat) /\ Len(rec) = gens
      /\ IsFiniteSet(d[j].got) /\ \A t \in d[j].got : t.gen = s.gen
  BY DEF DecoderOK
<1>2. d[j] \in BlockState
  BY <1>1, InSeq
<1>3. /\ b \in BlockState /\ b.id = d[j].id
      /\ IsFiniteSet(b.got) /\ b.got \subseteq d[j].got \cup {s}
      /\ b.done <=> Recovers(d[j], s)
  BY <1>1, <1>2, WithShardOK
<1> HIDE DEF b
<1>4. /\ d1 \in Seq(BlockState) /\ Len(d1) = Len(d)
      /\ \A x \in 1 .. Len(d) : d1[x] = IF x = j THEN b ELSE d[x]
  BY <1>0, <1>1, <1>3, ExceptSeq
<1>5. \A g \in 1 .. gens : ev[g] \in Nat /\ rec[g] \in Nat
  BY <1>1, InSeq
<1>6. /\ rec1 \in Seq(Nat) /\ Len(rec1) = gens
      /\ \A g \in 1 .. gens :
            rec1[g] = IF g = s.gen /\ Recovers(d[j], s) THEN rec[g] + 1 ELSE rec[g]
  <2>1. CASE Recovers(d[j], s)
    <3>1. rec[s.gen] + 1 \in Nat /\ rec1 = [rec EXCEPT ![s.gen] = rec[s.gen] + 1]
      BY <1>0, <1>5, <2>1
    <3>2. s.gen \in 1 .. Len(rec)
      BY <1>1
    <3>3. /\ rec1 \in Seq(Nat) /\ Len(rec1) = Len(rec)
          /\ \A g \in 1 .. Len(rec) : rec1[g] = IF g = s.gen THEN rec[s.gen] + 1 ELSE rec[g]
      BY <1>1, <3>1, <3>2, ExceptSeq
    <3> QED
      BY <1>1, <2>1, <3>3
  <2>2. CASE ~Recovers(d[j], s)
    BY <1>0, <1>1, <2>2
  <2> QED
    BY <2>1, <2>2
<1>12. \A x, y \in 1 .. Len(d) : d[x].id = d[y].id => x = y
  BY DEF DecoderOK
<1>7. \A x, y \in 1 .. Len(d1) : d1[x].id = d1[y].id => x = y
  BY <1>3, <1>4, <1>12
<1>8. \A x \in 1 .. Len(d1) : IsFiniteSet(d1[x].got) /\ \A t \in d1[x].got : t.gen = o[x]
  <2> SUFFICES ASSUME NEW x \in 1 .. Len(d)
               PROVE  IsFiniteSet(d1[x].got) /\ \A t \in d1[x].got : t.gen = o[x]
    BY <1>4
  <2>1. CASE x = j
    BY <1>1, <1>3, <1>4, <2>1
  <2>2. CASE x # j
    BY <1>4, <2>2 DEF DecoderOK
  <2> QED
    BY <2>1, <2>2
<1>9. ASSUME NEW g \in 1 .. gens
      PROVE  /\ rec1[g] <= 1 + ev[g]
             /\ \/ rec1[g] <= ev[g]
                \/ \E x \in 1 .. Len(d1) : o[x] = g /\ d1[x].done
  <2>1. ~ d[j].done
    BY DEF Refuses
  <2>2. /\ rec[g] <= 1 + ev[g]
        /\ rec[g] <= ev[g] \/ \E x \in 1 .. Len(d) : o[x] = g /\ d[x].done
    BY DEF DecoderOK
  <2>3. CASE g = s.gen
    <3>1. rec[g] <= ev[g]
      BY <2>1, <2>2, <2>3
    <3>2. CASE Recovers(d[j], s)
      <4>1. rec1[g] <= 1 + ev[g]
        BY <1>5, <1>6, <2>3, <3>1, <3>2
      <4>2. o[j] = g /\ d1[j].done /\ j \in 1 .. Len(d1)
        BY <1>3, <1>4, <2>3, <3>2
      <4> QED
        BY <4>1, <4>2
    <3>3. CASE ~Recovers(d[j], s)
      BY <1>5, <1>6, <2>2, <3>1, <3>3
    <3> QED
      BY <3>2, <3>3
  <2>4. CASE g # s.gen
    <3>1. rec1[g] = rec[g]
      BY <1>6, <2>4
    <3>2. CASE rec[g] <= ev[g]
      BY <2>2, <3>1, <3>2
    <3>3. CASE ~ (rec[g] <= ev[g])
      <4>1. PICK x \in 1 .. Len(d) : o[x] = g /\ d[x].done
        BY <2>2, <3>3
      <4>2. d1[x].done /\ x \in 1 .. Len(d1)
        BY <1>4, <2>4, <4>1
      <4> QED
        BY <2>2, <3>1, <4>1, <4>2
    <3> QED
      BY <3>2, <3>3
  <2> QED
    BY <2>3, <2>4
<1>10. Len(d1) <= MaxTracked
  BY <1>4 DEF DecoderOK
<1>11. DecoderOK(d1, o, ev, rec1, gens)
  BY <1>1, <1>4, <1>6, <1>7, <1>8, <1>9, <1>10 DEF DecoderOK
<1> QED
  BY <1>3, <1>4, <1>11 DEF d1, rec1

LEMMA OnTheWayAre ==
    ASSUME FECTypeOK
    PROVE  OnTheWay \subseteq Shard
<1>1. ToSet(shardQueue) \subseteq Shard /\ ToSet(late) \subseteq Shard
  BY InSeq DEF FECTypeOK
<1> QED
  BY <1>1 DEF OnTheWay

\* A decoder that knows the block of a shard gives it the shard, or refuses it.
LEMMA Taken ==
    ASSUME NEW d, NEW o, NEW ev, NEW rec, NEW gens \in Nat,
           DecoderOK(d, o, ev, rec, gens), MarksOf(d, o) \subseteq Marks, IDsUnique,
           NEW s \in Shard, <<s.id, s.gen>> \in Marks, s.gen \in 1 .. gens,
           NEW j \in 1 .. Len(d), d[j].id = s.id
    PROVE  /\ DecoderOK(Given(d, j, s), o, ev, Recounted(rec, d, j, s), gens)
           /\ MarksOf(Given(d, j, s), o) \subseteq Marks
<1>1. d \in Seq(BlockState) /\ DOMAIN d = 1 .. Len(d) /\ Len(d) \in Nat
  BY InSeq DEF DecoderOK
<1>3. \A x \in 1 .. Len(d) : <<d[x].id, o[x]>> \in Marks
  BY DEF MarksOf
<1>4. \A m, n \in Marks : m[1] = n[1] <=> m[2] = n[2]
  BY DEF IDsUnique
<1>5. \A x \in 1 .. Len(d) : d[x].id = s.id <=> o[x] = s.gen
  <2> TAKE x \in 1 .. Len(d)
  <2>1. <<d[x].id, o[x]>> \in Marks
    BY <1>3
  <2>2. <<d[x].id, o[x]>>[1] = <<s.id, s.gen>>[1] <=> <<d[x].id, o[x]>>[2] = <<s.id, s.gen>>[2]
    BY <1>4, <2>1
  <2> QED
    BY <2>2
<1>6. o[j] = s.gen
  BY <1>5
<1>7. \A x \in 1 .. Len(d) : o[x] = s.gen => x = j
  <2>1. \A x, y \in 1 .. Len(d) : d[x].id = d[y].id => x = y
    BY DEF DecoderOK
  <2> QED
    BY <1>5, <2>1
<1>8. CASE Refuses(d[j], s)
  <2>1. Given(d, j, s) = d /\ Recounted(rec, d, j, s) = rec
    BY <1>8 DEF Given, Recounted, Recovers
  <2> QED
    BY <2>1
<1>9. CASE ~Refuses(d[j], s)
  <2>1. /\ DecoderOK(Given(d, j, s), o, ev, Recounted(rec, d, j, s), gens)
        /\ Len(Given(d, j, s)) = Len(d)
        /\ \A x \in 1 .. Len(d) : Given(d, j, s)[x].id = d[x].id
    BY <1>6, <1>7, <1>9, Receiving
  <2>2. MarksOf(Given(d, j, s), o) = MarksOf(d, o)
    BY <2>1 DEF MarksOf
  <2> QED
    BY <2>1, <2>2
<1> QED
  BY <1>8, <1>9

\* AddShard keeps the decoder right, and knows of no block that was not known.
LEMMA AddShardKeeps ==
    ASSUME FECInv, NEW s \in OnTheWay, AddShard(s), UNCHANGED blocks
    PROVE  /\ Decoding' /\ MarksOf(dec', order') \subseteq Marks
           /\ acked \subseteq acked' /\ acked' \subseteq Units
<1> DEFINE gens == Len(blocks)
           opened == IF Tracked(s.id) THEN dec ELSE Append(dec, Opened(s))
           kept == Kept(opened)
           j == CHOOSE x \in DOMAIN kept : kept[x].id = s.id
           out == Len(opened) > MaxTracked
<1>0. FECTypeOK /\ IDsUnique /\ DecoderOK(dec, order, evicted, recovered, gens)
  BY DEF FECInv, Decoding
<1>1. s \in Shard /\ <<s.id, s.gen>> \in Marks /\ MarksOf(dec, order) \subseteq Marks
  BY <1>0, OnTheWayAre DEF Marks
<1>2. /\ dec \in Seq(BlockState) /\ Len(dec) <= MaxTracked /\ Len(dec) \in Nat
      /\ order \in Seq(Nat) /\ Len(order) = Len(dec) /\ DOMAIN dec = 1 .. Len(dec)
      /\ blocks \in Seq(Seq(Units)) /\ gens \in Nat /\ DOMAIN blocks = 1 .. gens
  BY <1>0, InSeq DEF FECTypeOK
<1>3. \A m \in Marks : m[2] \in 1 .. gens
  BY <1>0, <1>2 DEF IDsUnique
<1>4. s.gen \in 1 .. gens
  BY <1>1, <1>3
<1>5. /\ dec' = IF Refuses(kept[j], s) THEN kept ELSE [kept EXCEPT ![j] = WithShard(@, s)]
      /\ order' = IF out THEN Append(Tail(order), s.gen)
                  ELSE IF Tracked(s.id) THEN order ELSE Append(order, s.gen)
      /\ evicted' = IF out THEN [evicted EXCEPT ![Head(order)] = @ + 1] ELSE evicted
      /\ recovered' = IF Recovers(kept[j], s) THEN [recovered EXCEPT ![s.gen] = @ + 1]
                      ELSE recovered
      /\ acked' = acked \/ acked' = acked \cup ToSet(blocks[s.gen])
  BY DEF AddShard
<1>6. blocks[s.gen] \in Seq(Units) /\ acked \subseteq Units
  BY <1>0, <1>2, <1>4, InSeq DEF FECTypeOK
<1>7. acked \subseteq acked' /\ acked' \subseteq Units
  BY <1>5, <1>6, InSeq
<1>8. DecoderOK(kept, order', evicted', recovered, gens) /\ MarksOf(kept, order') \subseteq Marks
      /\ \E x \in 1 .. Len(kept) : kept[x].id = s.id
  <2>1. CASE Tracked(s.id)
    <3>1. opened = dec /\ kept = dec /\ ~out
      BY <1>2, <2>1, FECNumbers DEF Kept
    <3>2. order' = order /\ evicted' = evicted
      BY <1>5, <2>1, <3>1
    <3>3. \E x \in 1 .. Len(dec) : dec[x].id = s.id
      BY <1>2, <2>1 DEF Tracked, ToSet
    <3> HIDE DEF kept
    <3> QED
      BY <1>0, <1>1, <3>1, <3>2, <3>3
  <2>2. CASE ~Tracked(s.id)
    <3>1. \A x \in 1 .. Len(dec) : dec[x].id # s.id
      BY <1>2, <2>2 DEF Tracked, ToSet
    <3>2. Opened(s) \in BlockState /\ Opened(s).id = s.id /\ s.gen \in Nat
      BY <1>1, OpenedOK DEF Shard
    <3>3. opened = Append(dec, Opened(s))
      BY <2>2
    <3>4. /\ opened \in Seq(BlockState) /\ Len(opened) = Len(dec) + 1
          /\ \A x \in 1 .. Len(dec) : opened[x] = dec[x]
          /\ opened[Len(dec) + 1] = Opened(s)
      BY <1>2, <3>2, <3>3, ToSetAppend
    <3>5. CASE Len(dec) < MaxTracked
      <4>1. kept = opened /\ ~out
        BY <1>2, <3>4, <3>5, FECNumbers DEF Kept
      <4>2. order' = Append(order, s.gen) /\ evicted' = evicted
        BY <1>5, <2>2, <4>1
      <4>3. DecoderOK(kept, order', evicted', recovered, gens)
        BY <1>0, <1>1, <1>2, <1>4, <3>1, <3>3, <3>5, <4>1, <4>2, Opening
      <4>4. /\ \A x \in 1 .. Len(dec) : order'[x] = order[x]
            /\ order'[Len(dec) + 1] = s.gen
        BY <1>2, <3>2, <4>2, ToSetAppend
      <4> HIDE DEF kept, opened
      <4>5. ASSUME NEW x \in 1 .. Len(kept)
            PROVE  <<kept[x].id, order'[x]>> \in Marks
        <5>1. CASE x \in 1 .. Len(dec)
          <6>1. kept[x] = dec[x] /\ order'[x] = order[x]
            BY <3>4, <4>1, <4>4, <5>1
          <6>2. <<dec[x].id, order[x]>> \in MarksOf(dec, order)
            BY <5>1 DEF MarksOf
          <6> QED
            BY <1>1, <6>1, <6>2
        <5>2. CASE x = Len(dec) + 1
          BY <1>1, <3>2, <3>4, <4>1, <4>4, <5>2
        <5> QED
          BY <1>2, <3>4, <4>1, <5>1, <5>2
      <4>6. MarksOf(kept, order') \subseteq Marks
        BY <4>5 DEF MarksOf
      <4>7. Len(dec) + 1 \in 1 .. Len(kept) /\ kept[Len(dec) + 1].id = s.id
        BY <1>2, <3>2, <3>4, <4>1
      <4> QED
        BY <4>3, <4>6, <4>7
    <3>6. CASE ~ (Len(dec) < MaxTracked)
      <4>1. out /\ kept = Tail(opened) /\ Len(dec) + 1 > MaxTracked
        BY <1>2, <3>4, <3>6, FECNumbers DEF Kept
      <4>2. /\ order' = Append(Tail(order), s.gen)
            /\ evicted' = [evicted EXCEPT ![Head(order)] = @ + 1]
        BY <1>5, <4>1
      <4>3. Len(dec) >= 1
        BY <1>2, <3>6, FECNumbers
      <4>4. order[1] \in 1 .. gens
        <5>1. <<dec[1].id, order[1]>> \in Marks
          BY <1>1, <1>2, <4>3 DEF MarksOf
        <5> QED
          BY <1>3, <5>1
      <4>5. DecoderOK(kept, order', evicted', recovered, gens)
        BY <1>0, <1>1, <1>2, <1>4, <3>1, <3>3, <4>1, <4>2, <4>4, Replacing
      <4>6. order # <<>> /\ opened # <<>>
        BY <1>2, <3>4, <4>3, InSeq
      <4>7. /\ Tail(order) \in Seq(Nat) /\ Len(Tail(order)) = Len(dec) - 1
            /\ \A x \in 1 .. Len(dec) - 1 : Tail(order)[x] = order[x + 1]
        BY <1>2, <4>6, ToSetTail
      <4>8. /\ \A x \in 1 .. Len(dec) - 1 : order'[x] = order[x + 1]
            /\ order'[Len(dec)] = s.gen
        <5>1. /\ \A x \in 1 .. Len(Tail(order)) : order'[x] = Tail(order)[x]
              /\ order'[Len(Tail(order)) + 1] = s.gen
          BY <3>2, <4>2, <4>7, ToSetAppend
        <5> QED
          BY <1>2, <4>3, <4>7, <5>1
      <4> HIDE DEF opened
      <4>9. /\ Len(kept) = Len(dec)
            /\ \A x \in 1 .. Len(dec) : kept[x] = opened[x + 1]
        <5>1. /\ Len(kept) = Len(opened) - 1
              /\ \A x \in 1 .. Len(opened) - 1 : kept[x] = opened[x + 1]
          BY <3>4, <4>1, <4>6, ToSetTail
        <5> HIDE DEF kept
        <5> QED
          BY <1>2, <3>4, <5>1
      <4> HIDE DEF kept
      <4>10. /\ \A x \in 1 .. Len(dec) - 1 : kept[x] = dec[x + 1]
             /\ kept[Len(dec)] = Opened(s)
        <5>1. ASSUME NEW x \in 1 .. Len(dec) - 1
              PROVE  kept[x] = dec[x + 1]
          <6>1. x \in 1 .. Len(dec) /\ x + 1 \in 1 .. Len(dec)
            BY <1>2
          <6> QED
            BY <3>4, <4>9, <6>1
        <5>2. Len(dec) \in 1 .. Len(dec)
          BY <1>2, <4>3
        <5> QED
          BY <3>4, <4>9, <5>1, <5>2
      <4>11. ASSUME NEW x \in 1 .. Len(kept)
             PROVE  <<kept[x].id, order'[x]>> \in Marks
        <5>1. CASE x \in 1 .. Len(dec) - 1
          <6>1. kept[x] = dec[x + 1] /\ order'[x] = order[x + 1] /\ x + 1 \in 1 .. Len(dec)
            BY <1>2, <4>8, <4>10, <5>1
          <6>2. <<dec[x + 1].id, order[x + 1]>> \in MarksOf(dec, order)
            BY <6>1 DEF MarksOf
          <6> QED
            BY <1>1, <6>1, <6>2
        <5>2. CASE x = Len(dec)
          BY <1>1, <3>2, <4>8, <4>10, <5>2
        <5> QED
          BY <1>2, <4>9, <5>1, <5>2
      <4>12. MarksOf(kept, order') \subseteq Marks
        BY <4>11 DEF MarksOf
      <4>13. Len(dec) \in 1 .. Len(kept) /\ kept[Len(dec)].id = s.id
        BY <1>2, <3>2, <4>3, <4>9, <4>10
      <4> QED
        BY <4>5, <4>12, <4>13
    <3> QED
      BY <3>5, <3>6
  <2> QED
    BY <2>1, <2>2
<1> HIDE DEF kept
<1>9. DecoderOK(dec', order', evicted', recovered', gens) /\ MarksOf(dec', order') \subseteq Marks
  <2>1. dec' = Given(kept, j, s) /\ recovered' = Recounted(recovered, kept, j, s)
    BY <1>5 DEF Given, Recounted
  <2>2. DOMAIN kept = 1 .. Len(kept)
    BY <1>8, InSeq DEF DecoderOK
  <2>3. j \in 1 .. Len(kept) /\ kept[j].id = s.id
    BY <1>8, <2>2
  <2> HIDE DEF j
  <2>4. /\ DecoderOK(Given(kept, j, s), order', evicted', Recounted(recovered, kept, j, s), gens)
        /\ MarksOf(Given(kept, j, s), order') \subseteq Marks
    BY <1>0, <1>1, <1>2, <1>4, <1>8, <2>3, Taken
  <2> QED
    BY <2>1, <2>4
<1>10. Decoding'
  BY <1>9 DEF Decoding
<1> QED
  BY <1>7, <1>9, <1>10

\* Ids stay unique while nothing is known by new ones.
LEMMA IDsStay ==
    ASSUME IDsUnique, Marks' \subseteq Marks, blockID \in Nat, blockID' \in Nat,
           blockID <= blockID', UNCHANGED blocks
    PROVE  IDsUnique'
<1>1. Len(blocks') = Len(blocks)
  OBVIOUS
<1>2. \A m \in Marks : m[1] \in 0 .. blockID - 1 /\ m[2] \in 1 .. Len(blocks)
  BY DEF IDsUnique
<1>3. \A m \in Marks' : m[1] \in 0 .. blockID' - 1 /\ m[2] \in 1 .. Len(blocks')
  BY <1>1, <1>2
<1>4. \A m, n \in Marks : m[1] = n[1] <=> m[2] = n[2]
  BY DEF IDsUnique
<1>5. \A m, n \in Marks' : m[1] = n[1] <=> m[2] = n[2]
  BY <1>4
<1> QED
  BY <1>3, <1>5 DEF IDsUnique

\* Steps of the queue and of the workers leave the coders alone.
LEMMA CoderStays ==
    ASSUME FECInv, UNCHANGED <<blockID, shardQueue, blocks, late, dec, order, recovered, evicted>>
    PROVE  IDsUnique' /\ Decoding' /\ UnitsOf(shardQueue)' = UnitsOf(shardQueue)
<1>1. Marks' = Marks
  BY DEF Marks, OnTheWay, MarksOf
<1>2. IDsUnique'
  BY <1>1 DEF FECInv, IDsUnique
<1>3. Decoding'
  BY DEF FECInv, Decoding, DecoderOK
<1>4. UnitsOf(shardQueue)' = UnitsOf(shardQueue)
  BY DEF UnitsOf
<1> QED
  BY <1>2, <1>3, <1>4

\* Where a unit can be.
Somewhere ==
    queued \cup acked \cup {hand[p] : p \in Pollers} \cup ToSet(buf)
           \cup UnitsOf(shardQueue) \cup wire \cup lost

\* What goes from one place to another is kept.
LEMMA KeptFrom ==
    ASSUME PoppedIsKept, Units \cap Somewhere \subseteq Somewhere'
    PROVE  PoppedIsKept'
BY DEF PoppedIsKept, Somewhere

\* A block becomes shards with an id of its own, and all its units with it.
LEMMA EncodeBlockKeeps ==
    ASSUME FECInv, NEW content \in Seq(Units), content # <<>>, Len(content) <= BlockSize,
           EncodeBlock(content), UNCHANGED <<late, dec, order>>
    PROVE  /\ blocks' \in Seq(Seq(Units)) /\ shardQueue' \in Seq(Shard)
           /\ blockID' \in Nat /\ buf' = <<>>
           /\ IDsUnique' /\ Decoding'
           /\ UnitsOf(shardQueue) \cup ToSet(content) \subseteq UnitsOf(shardQueue)'
<1> DEFINE n == Len(content)
           k == Smaller(parity, MaxShards - n)
           gens == Len(blocks)
           shard(i) == [id |-> blockID, gen |-> gens + 1, n |-> n, k |-> k, i |-> i]
           new == [i \in 1 .. n + k |-> shard(i)]
<1>0. FECTypeOK /\ IDsUnique /\ DecoderOK(dec, order, evicted, recovered, gens)
  BY DEF FECInv, Decoding
<1>1. /\ blocks \in Seq(Seq(Units)) /\ gens \in Nat /\ shardQueue \in Seq(Shard)
      /\ late \in Seq(Shard) /\ blockID \in Nat
      /\ parity \in Nat /\ parity >= 1
  BY <1>0, InSeq, FECNumbers DEF FECTypeOK
<1>2. n \in Nat /\ n >= 1 /\ n <= BlockSize
  BY InSeq
<1>3. k \in Nat /\ n + k \in Nat /\ n + k >= 1
  BY <1>1, <1>2, FECNumbers DEF Smaller
<1>4. /\ blocks' = Append(blocks, content) /\ shardQueue' = shardQueue \o new
      /\ blockID' = blockID + 1 /\ buf' = <<>>
      /\ recovered' = Append(recovered, 0) /\ evicted' = Append(evicted, 0)
  BY DEF EncodeBlock
<1> HIDE DEF n, k
<1>5. \A i \in 1 .. n + k : shard(i) \in Shard
  BY <1>1, <1>2, <1>3 DEF Shard
<1>6. new \in Seq(Shard)
  BY <1>3, <1>5, SeqDef
<1>7. Len(new) = n + k
  BY <1>3, <1>6, LenProperties
<1>8. /\ \A s \in ToSet(new) : s.id = blockID /\ s.gen = gens + 1
      /\ \E s \in ToSet(new) : s.gen = gens + 1
  <2>1. DOMAIN new = 1 .. n + k
    OBVIOUS
  <2>2. 1 \in 1 .. n + k
    BY <1>3
  <2>3. \A i \in 1 .. n + k : new[i].id = blockID /\ new[i].gen = gens + 1
    OBVIOUS
  <2> HIDE DEF new
  <2> QED
    BY <2>1, <2>2, <2>3 DEF ToSet
<1> HIDE DEF new
<1>9. shardQueue' \in Seq(Shard) /\ ToSet(shardQueue') = ToSet(shardQueue) \cup ToSet(new)
  BY <1>1, <1>4, <1>6, ToSetConcat
<1>10. /\ blocks' \in Seq(Seq(Units)) /\ Len(blocks') = gens + 1
       /\ \A g \in 1 .. gens : blocks'[g] = blocks[g]
       /\ blocks'[gens + 1] = content
  BY <1>1, <1>4, ToSetAppend
<1>11. ToSet(late') = ToSet(late) /\ MarksOf(dec', order') = MarksOf(dec, order)
  BY DEF MarksOf
<1>12. Marks' \subseteq Marks \cup {<<blockID, gens + 1>>}
  BY <1>8, <1>9, <1>11 DEF Marks, OnTheWay
<1>13. /\ \A m \in Marks : m[1] \in 0 .. blockID - 1 /\ m[2] \in 1 .. gens
       /\ \A m, q \in Marks : m[1] = q[1] <=> m[2] = q[2]
  BY <1>0 DEF IDsUnique
<1>14. \A m \in Marks' : m \in Marks \/ (m[1] = blockID /\ m[2] = gens + 1)
  BY <1>12
<1>15. \A m \in Marks' : m[1] \in 0 .. blockID' - 1 /\ m[2] \in 1 .. Len(blocks')
  <2> TAKE m \in Marks'
  <2>1. CASE m \in Marks
    <3>1. m[1] \in 0 .. blockID - 1 /\ m[2] \in 1 .. gens
      BY <1>13, <2>1
    <3> QED
      BY <1>1, <1>4, <1>10, <3>1
  <2>2. CASE m[1] = blockID /\ m[2] = gens + 1
    BY <1>1, <1>4, <1>10, <2>2
  <2> QED
    BY <1>14, <2>1, <2>2
<1>16. \A m, q \in Marks' : m[1] = q[1] <=> m[2] = q[2]
  <2> SUFFICES ASSUME NEW m \in Marks', NEW q \in Marks'
               PROVE  m[1] = q[1] <=> m[2] = q[2]
    OBVIOUS
  <2>1. CASE m \in Marks /\ q \in Marks
    BY <1>13, <2>1
  <2>2. CASE m \notin Marks /\ q \in Marks
    BY <1>1, <1>13, <1>14, <2>2
  <2>3. CASE m \in Marks /\ q \notin Marks
    BY <1>1, <1>13, <1>14, <2>3
  <2>4. CASE m \notin Marks /\ q \notin Marks
    BY <1>14, <2>4
  <2> QED
    BY <2>1, <2>2, <2>3, <2>4
<1>17. IDsUnique'
  BY <1>15, <1>16 DEF IDsUnique
<1>18. /\ evicted \in Seq(Nat) /\ Len(evicted) = gens /\ recovered \in Seq(Nat)
       /\ Len(recovered) = gens
  BY <1>0 DEF DecoderOK
<1>19. /\ evicted' \in Seq(Nat) /\ Len(evicted') = gens + 1
       /\ \A g \in 1 .. gens : evicted'[g] = evicted[g]
       /\ evicted'[gens + 1] = 0
  BY <1>4, <1>18, ToSetAppend
<1>20. /\ recovered' \in Seq(Nat) /\ Len(recovered') = gens + 1
       /\ \A g \in 1 .. gens : recovered'[g] = recovered[g]
       /\ recovered'[gens + 1] = 0
  BY <1>4, <1>18, ToSetAppend
<1>21. ASSUME NEW g \in 1 .. gens + 1
       PROVE  /\ recovered'[g] <= 1 + evicted'[g]
              /\ \/ recovered'[g] <= evicted'[g]
                 \/ \E x \in 1 .. Len(dec) : order[x] = g /\ dec[x].done
  <2>1. CASE g = gens + 1
    BY <1>19, <1>20, <2>1
  <2>2. CASE g \in 1 .. gens
    BY <1>0, <1>19, <1>20, <2>2 DEF DecoderOK
  <2> QED
    BY <1>1, <2>1, <2>2
<1>22. Decoding'
  BY <1>0, <1>10, <1>19, <1>20, <1>21 DEF Decoding, DecoderOK
<1>23. UnitsOf(shardQueue) \cup ToSet(content) \subseteq UnitsOf(shardQueue)'
  <2>1. ASSUME NEW s \in ToSet(shardQueue)
        PROVE  blocks'[s.gen] = blocks[s.gen] /\ s \in ToSet(shardQueue')
    <3>1. <<s.id, s.gen>> \in Marks
      BY DEF Marks, OnTheWay
    <3>2. s.gen \in 1 .. gens
      BY <1>13, <3>1
    <3> QED
      BY <1>9, <1>10, <3>2
  <2>2. PICK s \in ToSet(shardQueue') : blocks'[s.gen] = content
    BY <1>8, <1>9, <1>10
  <2> QED
    BY <2>1, <2>2 DEF UnitsOf
<1> QED
  BY <1>1, <1>4, <1>9, <1>10, <1>17, <1>22, <1>23

-----------------------------------------------------------------------------
(* The steps.                                                               *)

LEMMA PollSafe ==
    ASSUME FECInv, NEW p \in Pollers, Poll(p)
    PROVE  FECInv'
<1>0. FECTypeOK /\ Handed /\ PoppedIsKept
  BY DEF FECInv
<1>1. /\ doing[p] = "idle"
      /\ doing' = [doing EXCEPT ![p] = IF fecActive THEN "shard" ELSE "raw"]
      /\ UNCHANGED <<queued, hand, encVars, late, decVars, acked, windows, resends, wire, lost>>
  BY DEF Poll, Go
<1>2. UNCHANGED <<queued, hand, fecActive, fecLowWindows, parity, blockID, buf, shardQueue,
                  blocks, late, dec, order, recovered, evicted, acked, windows, resends,
                  wire, lost>>
  BY <1>1 DEF encVars, decVars
<1>3. IDsUnique' /\ Decoding' /\ UnitsOf(shardQueue)' = UnitsOf(shardQueue)
  BY <1>2, CoderStays
<1>4. FECTypeOK'
  BY <1>0, <1>1, <1>2 DEF FECTypeOK
<1>5. Handed'
  BY <1>0, <1>1, <1>2 DEF FECTypeOK, Handed
<1>6. PoppedIsKept'
  BY <1>0, <1>2, <1>3, KeptFrom DEF Somewhere
<1> QED
  BY <1>3, <1>4, <1>5, <1>6 DEF FECInv

LEMMA NoFECShardSafe ==
    ASSUME FECInv, NEW p \in Pollers, NoFECShard(p)
    PROVE  FECInv'
<1>0. FECTypeOK /\ Handed /\ PoppedIsKept
  BY DEF FECInv
<1>1. /\ \/ doing[p] = "shard" /\ doing' = [doing EXCEPT ![p] = "pop"]
         \/ doing[p] = "end" /\ doing' = [doing EXCEPT ![p] = "idle"]
      /\ UNCHANGED <<queued, hand, encVars, late, decVars, acked, windows, resends, wire, lost>>
  BY DEF NoFECShard, Go
<1>2. UNCHANGED <<queued, hand, fecActive, fecLowWindows, parity, blockID, buf, shardQueue,
                  blocks, late, dec, order, recovered, evicted, acked, windows, resends,
                  wire, lost>>
  BY <1>1 DEF encVars, decVars
<1>3. IDsUnique' /\ Decoding' /\ UnitsOf(shardQueue)' = UnitsOf(shardQueue)
  BY <1>2, CoderStays
<1>4. FECTypeOK'
  BY <1>0, <1>1, <1>2 DEF FECTypeOK
<1>5. Handed'
  BY <1>0, <1>1, <1>2 DEF FECTypeOK, Handed
<1>6. PoppedIsKept'
  BY <1>0, <1>2, <1>3, KeptFrom DEF Somewhere
<1> QED
  BY <1>3, <1>4, <1>5, <1>6 DEF FECInv

LEMMA PopNextTXPacketSafe ==
    ASSUME FECInv, NEW p \in Pollers, PopNextTXPacket(p)
    PROVE  FECInv'
<1>0. FECTypeOK /\ Handed /\ PoppedIsKept
  BY DEF FECInv
<1>1. UNCHANGED <<fecActive, fecLowWindows, parity, blockID, buf, shardQueue,
                  blocks, late, dec, order, recovered, evicted, acked, windows, resends,
                  wire, lost>>
  BY DEF PopNextTXPacket, encVars, decVars
<1>2. IDsUnique' /\ Decoding' /\ UnitsOf(shardQueue)' = UnitsOf(shardQueue)
  BY <1>1, CoderStays
<1>3. doing[p] \in {"pop", "raw"} /\ hand[p] = Nothing
  BY <1>0 DEF PopNextTXPacket, Handed
<1>4. ASSUME NEW u \in queued, queued' = queued \ {u},
             \/ /\ hand' = [hand EXCEPT ![p] = u]
                /\ doing' = [doing EXCEPT ![p] = IF @ = "raw" THEN "send" ELSE "feed"]
             \/ u \in acked /\ UNCHANGED <<hand, doing>>
      PROVE  FECInv'
  <2>1. u \in Units
    BY <1>0 DEF FECTypeOK
  <2>2. FECTypeOK'
    BY <1>0, <1>1, <1>4, <2>1 DEF FECTypeOK
  <2>3. Handed'
    BY <1>0, <1>4, <2>1 DEF FECTypeOK, Handed
  <2>4. \A x \in Units : (\E q \in Pollers : hand[q] = x) => \E q \in Pollers : hand'[q] = x
    <3> SUFFICES ASSUME NEW x \in Units, NEW q \in Pollers, hand[q] = x
                 PROVE  \E r \in Pollers : hand'[r] = x
      OBVIOUS
    <3>1. q # p \/ UNCHANGED hand
      BY <1>3, FECNumbers
    <3>2. hand'[q] = x
      BY <1>0, <1>4, <3>1 DEF FECTypeOK
    <3> QED
      BY <3>2
  <2>5. u \in acked' \/ \E q \in Pollers : hand'[q] = u
    BY <1>0, <1>1, <1>4 DEF FECTypeOK
  <2>6. PoppedIsKept'
    BY <1>0, <1>1, <1>2, <1>4, <2>4, <2>5, KeptFrom DEF Somewhere
  <2> QED
    BY <1>2, <2>2, <2>3, <2>6 DEF FECInv
<1>5. CASE /\ doing' = [doing EXCEPT ![p] = IF @ = "raw" THEN "idle" ELSE "flush"]
           /\ UNCHANGED <<queued, hand>>
  <2>1. FECTypeOK'
    BY <1>0, <1>1, <1>5 DEF FECTypeOK
  <2>2. Handed'
    BY <1>0, <1>3, <1>5 DEF FECTypeOK, Handed
  <2>3. PoppedIsKept'
    BY <1>0, <1>1, <1>2, <1>5, KeptFrom DEF Somewhere
  <2> QED
    BY <1>2, <2>1, <2>2, <2>3 DEF FECInv
<1> QED
  BY <1>4, <1>5 DEF PopNextTXPacket

LEMMA SendRawSafe ==
    ASSUME FECInv, NEW p \in Pollers, SendRaw(p)
    PROVE  FECInv'
<1>0. FECTypeOK /\ Handed /\ PoppedIsKept
  BY DEF FECInv
<1>1. /\ doing[p] = "send" /\ doing' = [doing EXCEPT ![p] = "idle"]
      /\ hand' = [hand EXCEPT ![p] = Nothing]
      /\ wire' = wire \cup {hand[p]}
      /\ acked' = acked \/ acked' = acked \cup {hand[p]}
      /\ UNCHANGED <<queued, fecActive, fecLowWindows, parity, blockID, buf, shardQueue,
                     blocks, late, dec, order, recovered, evicted, windows, resends, lost>>
  BY DEF SendRaw, Go, encVars, decVars
<1>2. IDsUnique' /\ Decoding' /\ UnitsOf(shardQueue)' = UnitsOf(shardQueue)
  BY <1>1, CoderStays
<1>3. hand[p] \in Units
  BY <1>0, <1>1 DEF Handed
<1>4. FECTypeOK'
  BY <1>0, <1>1, <1>3 DEF FECTypeOK
<1>5. Handed'
  BY <1>0, <1>1 DEF FECTypeOK, Handed
<1>6. \A q \in Pollers : q # p => hand'[q] = hand[q]
  BY <1>0, <1>1 DEF FECTypeOK
<1>7. {hand[q] : q \in Pollers} \subseteq wire' \cup {hand'[q] : q \in Pollers}
  BY <1>1, <1>6
<1>8. PoppedIsKept'
  BY <1>0, <1>1, <1>2, <1>7, KeptFrom DEF Somewhere
<1> QED
  BY <1>2, <1>4, <1>5, <1>8 DEF FECInv

LEMMA ResendSafe ==
    ASSUME FECInv, NEW u \in Units, Resend(u)
    PROVE  FECInv'
<1>0. FECTypeOK /\ Handed /\ PoppedIsKept
  BY DEF FECInv
<1>1. /\ queued' = queued \cup {u} /\ resends' = resends + 1
      /\ UNCHANGED <<doing, hand, fecActive, fecLowWindows, parity, blockID, buf, shardQueue,
                     blocks, late, dec, order, recovered, evicted, acked, windows, wire, lost>>
  BY DEF Resend, encVars, decVars
<1>2. IDsUnique' /\ Decoding' /\ UnitsOf(shardQueue)' = UnitsOf(shardQueue)
  BY <1>1, CoderStays
<1>3. FECTypeOK'
  BY <1>0, <1>1 DEF FECTypeOK
<1>4. Handed'
  BY <1>0, <1>1 DEF Handed
<1>5. PoppedIsKept'
  BY <1>0, <1>1, <1>2, KeptFrom DEF Somewhere
<1> QED
  BY <1>2, <1>3, <1>4, <1>5 DEF FECInv

LEMMA LateArrivesSafe ==
    ASSUME FECInv, LateArrives
    PROVE  FECInv'
<1>0. FECTypeOK /\ Handed /\ PoppedIsKept /\ IDsUnique
  BY DEF FECInv
<1>1. /\ late # <<>> /\ late' = <<>> /\ AddShard(late[1])
      /\ UNCHANGED <<queued, doing, hand, fecActive, fecLowWindows, parity, blockID, buf,
                     shardQueue, blocks, windows, resends, wire, lost>>
  BY DEF LateArrives, encVars
<1>2. late \in Seq(Shard) /\ Len(late) \in Nat /\ Len(late) # 0
  BY <1>0, <1>1, InSeq DEF FECTypeOK
<1>3. 1 \in 1 .. Len(late)
  BY <1>2
<1>4. late[1] \in OnTheWay
  BY <1>2, <1>3, InSeq DEF OnTheWay
<1>5. /\ Decoding' /\ MarksOf(dec', order') \subseteq Marks
      /\ acked \subseteq acked' /\ acked' \subseteq Units
  BY <1>1, <1>4, AddShardKeeps
<1>6. ToSet(late') = {} /\ Len(late') = 0 /\ late' \in Seq(Shard)
  BY <1>1, InSeq, EmptySeq DEF ToSet
<1>7. Marks' \subseteq Marks
  BY <1>1, <1>5, <1>6 DEF Marks, OnTheWay
<1>8. IDsUnique'
  BY <1>0, <1>1, <1>7, IDsStay DEF FECTypeOK
<1>9. FECTypeOK'
  BY <1>0, <1>1, <1>5, <1>6 DEF FECTypeOK, Decoding, DecoderOK
<1>10. Handed'
  BY <1>0, <1>1 DEF Handed
<1>11. UnitsOf(shardQueue)' = UnitsOf(shardQueue)
  BY <1>1 DEF UnitsOf
<1>12. PoppedIsKept'
  BY <1>0, <1>1, <1>5, <1>11, KeptFrom DEF Somewhere
<1> QED
  BY <1>5, <1>8, <1>9, <1>10, <1>12 DEF FECInv

LEMMA PopFECShardSafe ==
    ASSUME FECInv, NEW p \in Pollers, PopFECShard(p)
    PROVE  FECInv'
<1> DEFINE s == Head(shardQueue)
<1>0. FECTypeOK /\ Handed /\ PoppedIsKept /\ IDsUnique /\ Decoding
  BY DEF FECInv
<1>1. /\ doing[p] \in {"shard", "end"} /\ shardQueue # <<>>
      /\ doing' = [doing EXCEPT ![p] = "idle"]
      /\ shardQueue' = Tail(shardQueue)
      /\ wire' = wire \cup ToSet(blocks[s.gen])
      /\ UNCHANGED <<queued, hand, fecActive, fecLowWindows, parity, blockID, buf,
                     blocks, windows, resends, lost>>
  BY DEF PopFECShard
<1>2. \/ UNCHANGED <<late, decVars, acked>>
      \/ late' = <<s>> /\ UNCHANGED <<decVars, acked>>
      \/ AddShard(s) /\ UNCHANGED late
  BY DEF PopFECShard
<1>3. /\ s \in Shard /\ shardQueue' \in Seq(Shard)
      /\ ToSet(shardQueue) = {s} \cup ToSet(shardQueue')
  BY <1>0, <1>1, ToSetTail DEF FECTypeOK
<1> HIDE DEF s
<1>4. s \in OnTheWay
  BY <1>3 DEF OnTheWay
<1>5. /\ Decoding' /\ MarksOf(dec', order') \subseteq Marks
      /\ acked \subseteq acked' /\ acked' \subseteq Units
      /\ ToSet(late') \subseteq ToSet(late) \cup {s}
      /\ late' \in Seq(Shard) /\ Len(late') <= 1
  <2>1. CASE UNCHANGED <<late, decVars, acked>>
    BY <1>0, <1>1, <2>1 DEF decVars, Decoding, Marks, FECTypeOK
  <2>2. CASE late' = <<s>> /\ UNCHANGED <<decVars, acked>>
    <3>1. ToSet(late') = {s} /\ late' \in Seq(Shard) /\ Len(late') = 1
      BY <1>3, <2>2 DEF ToSet
    <3>2. UNCHANGED <<dec, order, recovered, evicted, acked>>
      BY <2>2 DEF decVars
    <3>3. Decoding' /\ MarksOf(dec', order') \subseteq Marks /\ acked' \subseteq Units
      BY <1>0, <1>1, <3>2 DEF Decoding, Marks, FECTypeOK
    <3> QED
      BY <3>1, <3>2, <3>3
  <2>3. CASE AddShard(s) /\ UNCHANGED late
    <3>1. /\ Decoding' /\ MarksOf(dec', order') \subseteq Marks
          /\ acked \subseteq acked' /\ acked' \subseteq Units
      BY <1>1, <1>4, <2>3, AddShardKeeps
    <3> QED
      BY <1>0, <2>3, <3>1 DEF FECTypeOK
  <2> QED
    BY <1>2, <2>1, <2>2, <2>3
<1>6. Marks' \subseteq Marks
  BY <1>3, <1>4, <1>5 DEF Marks, OnTheWay
<1>7. IDsUnique'
  BY <1>0, <1>1, <1>6, IDsStay DEF FECTypeOK
<1>8. FECTypeOK'
  BY <1>0, <1>1, <1>3, <1>5 DEF FECTypeOK, Decoding, DecoderOK
<1>9. Handed'
  BY <1>0, <1>1 DEF FECTypeOK, Handed
<1>10. UnitsOf(shardQueue) = ToSet(blocks[s.gen]) \cup UnitsOf(shardQueue)'
  BY <1>1, <1>3 DEF UnitsOf
<1>11. PoppedIsKept'
  BY <1>0, <1>1, <1>5, <1>10, KeptFrom DEF Somewhere
<1> QED
  BY <1>5, <1>7, <1>8, <1>9, <1>11 DEF FECInv

LEMMA FeedFECDataSafe ==
    ASSUME FECInv, NEW p \in Pollers, FeedFECData(p)
    PROVE  FECInv'
<1>0. FECTypeOK /\ Handed /\ PoppedIsKept /\ IDsUnique /\ Decoding
  BY DEF FECInv
<1>1. /\ doing[p] = "feed"
      /\ UNCHANGED <<queued, fecActive, fecLowWindows, parity, late, dec, order, acked,
                     windows, resends, wire, lost>>
  BY DEF FeedFECData
<1>2. hand[p] \in Units
  BY <1>0, <1>1 DEF Handed
<1>3. CASE ~fecActive
  <2>1. /\ doing' = [doing EXCEPT ![p] = "send"]
        /\ UNCHANGED <<hand, buf, blocks, shardQueue, blockID, recovered, evicted>>
    BY <1>3 DEF FeedFECData, Go
  <2>2. IDsUnique' /\ Decoding' /\ UnitsOf(shardQueue)' = UnitsOf(shardQueue)
    BY <1>1, <2>1, CoderStays
  <2>3. FECTypeOK'
    BY <1>0, <1>1, <2>1 DEF FECTypeOK
  <2>4. Handed'
    BY <1>0, <1>1, <2>1 DEF FECTypeOK, Handed
  <2>5. PoppedIsKept'
    BY <1>0, <1>1, <2>1, <2>2, KeptFrom DEF Somewhere
  <2> QED
    BY <2>2, <2>3, <2>4, <2>5 DEF FECInv
<1>4. CASE fecActive
  <2>1. /\ AddPacket(hand[p])
        /\ doing' = [doing EXCEPT ![p] = "shard"]
        /\ hand' = [hand EXCEPT ![p] = Nothing]
    BY <1>4 DEF FeedFECData, Go
  <2>2. Handed'
    BY <1>0, <2>1 DEF FECTypeOK, Handed
  <2>3. \A q \in Pollers : q # p => hand'[q] = hand[q]
    BY <1>0, <2>1 DEF FECTypeOK
  <2>4. /\ buf \in Seq(Units) /\ Len(buf) < BlockSize /\ Len(buf) \in Nat
        /\ Append(buf, hand[p]) \in Seq(Units)
        /\ ToSet(Append(buf, hand[p])) = ToSet(buf) \cup {hand[p]}
        /\ Len(Append(buf, hand[p])) = Len(buf) + 1 /\ Append(buf, hand[p]) # <<>>
    BY <1>0, <1>2, ToSetAppend DEF FECTypeOK
  <2>5. CASE Len(buf) + 1 < BlockSize
    <3>1. /\ buf' = Append(buf, hand[p])
          /\ UNCHANGED <<blocks, shardQueue, blockID, recovered, evicted>>
      BY <2>1, <2>5 DEF AddPacket
    <3>2. IDsUnique' /\ Decoding' /\ UnitsOf(shardQueue)' = UnitsOf(shardQueue)
      BY <1>1, <3>1, CoderStays
    <3>3. FECTypeOK'
      BY <1>0, <1>1, <2>1, <2>4, <2>5, <3>1 DEF FECTypeOK
    <3>4. PoppedIsKept'
      BY <1>0, <1>1, <2>3, <2>4, <3>1, <3>2, KeptFrom DEF Somewhere
    <3> QED
      BY <2>2, <3>2, <3>3, <3>4 DEF FECInv
  <2>6. CASE ~ (Len(buf) + 1 < BlockSize)
    <3>1. EncodeBlock(Append(buf, hand[p]))
      BY <2>1, <2>6 DEF AddPacket
    <3>2. Len(Append(buf, hand[p])) <= BlockSize
      BY <2>4, FECNumbers
    <3>3. /\ blocks' \in Seq(Seq(Units)) /\ shardQueue' \in Seq(Shard)
          /\ blockID' \in Nat /\ buf' = <<>>
          /\ IDsUnique' /\ Decoding'
          /\ UnitsOf(shardQueue) \cup ToSet(Append(buf, hand[p])) \subseteq UnitsOf(shardQueue)'
      BY <1>1, <2>4, <3>1, <3>2, EncodeBlockKeeps
    <3>4. buf' \in Seq(Units) /\ Len(buf') < BlockSize
      BY <3>3, EmptySeq, FECNumbers
    <3>5. FECTypeOK'
      BY <1>0, <1>1, <2>1, <3>3, <3>4 DEF FECTypeOK, Decoding, DecoderOK
    <3>6. PoppedIsKept'
      BY <1>0, <1>1, <2>3, <2>4, <3>3, KeptFrom DEF Somewhere
    <3> QED
      BY <2>2, <3>3, <3>5, <3>6 DEF FECInv
  <2> QED
    BY <2>5, <2>6
<1> QED
  BY <1>3, <1>4, <1>0 DEF FECTypeOK

LEMMA FlushFECSafe ==
    ASSUME FECInv, NEW p \in Pollers, FlushFEC(p)
    PROVE  FECInv'
<1>0. FECTypeOK /\ Handed /\ PoppedIsKept /\ IDsUnique /\ Decoding
  BY DEF FECInv
<1>1. /\ doing[p] = "flush" /\ doing' = [doing EXCEPT ![p] = "end"]
      /\ UNCHANGED <<queued, hand, fecActive, fecLowWindows, parity, late, dec, order, acked,
                     windows, resends, wire, lost>>
  BY DEF FlushFEC, Go
<1>2. Handed'
  BY <1>0, <1>1 DEF FECTypeOK, Handed
<1>3. CASE fecActive /\ buf # <<>>
  <2>1. EncodeBlock(buf) /\ buf \in Seq(Units) /\ Len(buf) <= BlockSize
    BY <1>0, <1>3, InSeq, FECNumbers DEF FlushFEC, FECTypeOK
  <2>2. /\ blocks' \in Seq(Seq(Units)) /\ shardQueue' \in Seq(Shard)
        /\ blockID' \in Nat /\ buf' = <<>>
        /\ IDsUnique' /\ Decoding'
        /\ UnitsOf(shardQueue) \cup ToSet(buf) \subseteq UnitsOf(shardQueue)'
    BY <1>1, <1>3, <2>1, EncodeBlockKeeps
  <2>3. buf' \in Seq(Units) /\ Len(buf') < BlockSize
    BY <2>2, EmptySeq, FECNumbers
  <2>4. FECTypeOK'
    BY <1>0, <1>1, <2>2, <2>3 DEF FECTypeOK, Decoding, DecoderOK
  <2>5. PoppedIsKept'
    BY <1>0, <1>1, <2>2, KeptFrom DEF Somewhere
  <2> QED
    BY <1>2, <2>2, <2>4, <2>5 DEF FECInv
<1>4. CASE UNCHANGED <<buf, blocks, shardQueue, blockID, recovered, evicted>>
  <2>1. IDsUnique' /\ Decoding' /\ UnitsOf(shardQueue)' = UnitsOf(shardQueue)
    BY <1>1, <1>4, CoderStays
  <2>2. FECTypeOK'
    BY <1>0, <1>1, <1>4 DEF FECTypeOK
  <2>3. PoppedIsKept'
    BY <1>0, <1>1, <1>4, <2>1, KeptFrom DEF Somewhere
  <2> QED
    BY <1>2, <2>1, <2>2, <2>3 DEF FECInv
<1> QED
  BY <1>3, <1>4 DEF FlushFEC

\* Whatever is measured, the parity that is asked for is a number.
LEMMA ParityIsInt ==
    ASSUME NEW loss \in Losses
    PROVE  /\ ParityForLoss(BlockSize, loss) \in Int /\ AutoParity(loss) \in Int
           /\ SuperParities(loss) \subseteq Int
<1>1. loss \in Int /\ 0 <= loss /\ loss <= 95
  BY FECAssumption
<1> DEFINE over == BlockSize * 100000 + 999 * (100 - loss)
           under == 1000 * (100 - loss)
<1>2. over \in Int /\ under \in Int /\ under > 0
  BY <1>1, FECNumbers
<1>3. ParityForLoss(BlockSize, loss) =
        Smaller(Larger(over \div under - BlockSize + 1, 1), MaxShards - BlockSize)
  BY DEF ParityForLoss
<1> HIDE DEF over, under
<1>4. over \div under \in Int
  BY <1>2
<1>5. ParityForLoss(BlockSize, loss) \in Int
  BY <1>3, <1>4, FECNumbers DEF Smaller, Larger
<1>6. AutoParity(loss) \in Int
  BY <1>5, FECNumbers DEF AutoParity, Smaller, Larger
<1>7. SuperCap \in Int
  BY FECNumbers DEF SuperCap
<1>8. SuperParities(loss) \subseteq Int
  BY <1>7, FECNumbers DEF SuperParities, Smaller, Larger
<1> QED
  BY <1>5, <1>6, <1>8

LEMMA MaybeAdjustSafe ==
    ASSUME FECInv, NEW loss \in Losses, MaybeAdjustAutoFEC(loss)
    PROVE  FECInv'
<1>0. FECTypeOK /\ Handed /\ PoppedIsKept /\ IDsUnique /\ Decoding
  BY DEF FECInv
<1>1. /\ windows' = windows + 1
      /\ UNCHANGED <<queued, doing, hand, late, dec, order, acked, resends, wire>>
  BY DEF MaybeAdjustAutoFEC
<1>2. Handed'
  BY <1>0, <1>1 DEF Handed
<1>3. ASSUME NEW k \in Int, parity' \in {parity, Clamped(k)},
             fecActive' \in BOOLEAN, fecLowWindows' \in 0 .. (CleanWindows - 1),
             UNCHANGED <<blockID, buf, shardQueue, blocks, recovered, evicted, lost>>
      PROVE  FECInv'
  <2>1. IDsUnique' /\ Decoding' /\ UnitsOf(shardQueue)' = UnitsOf(shardQueue)
    BY <1>1, <1>3, CoderStays
  <2>2. Clamped(k) \in 1 .. (MaxShards - BlockSize)
    BY ClampedOK
  <2>3. FECTypeOK'
    BY <1>0, <1>1, <1>3, <2>2 DEF FECTypeOK
  <2>4. PoppedIsKept'
    BY <1>0, <1>1, <1>3, <2>1, KeptFrom DEF Somewhere
  <2> QED
    BY <1>2, <2>1, <2>3, <2>4 DEF FECInv
<1>4. 0 \in 0 .. (CleanWindows - 1) /\ BaseParity \in Int
  BY FECNumbers
<1>5. CASE Relax
  <2>1. fecLowWindows' \in 0 .. (CleanWindows - 1)
    BY <1>0, <1>5, FECNumbers DEF FECTypeOK, Relax, Disengages
  <2> QED
    BY <1>0, <1>3, <1>4, <1>5, <2>1 DEF Relax, FECTypeOK
<1>6. CASE Disengage
  <2>1. /\ fecActive' = FALSE /\ fecLowWindows' = 0
        /\ lost' = lost \cup ToSet(buf) \cup UnitsOf(shardQueue)
        /\ blockID' = IF buf = <<>> THEN blockID ELSE blockID + 1
        /\ buf' = <<>> /\ shardQueue' = <<>>
        /\ UNCHANGED <<parity, blocks, recovered, evicted>>
    BY <1>6 DEF Disengage
  <2>2. /\ buf' \in Seq(Units) /\ Len(buf') < BlockSize
        /\ shardQueue' \in Seq(Shard) /\ ToSet(shardQueue') = {}
    BY <2>1, EmptySeq, FECNumbers DEF ToSet
  <2>3. blockID' \in Nat /\ blockID <= blockID' /\ blockID \in Nat
    BY <1>0, <2>1 DEF FECTypeOK
  <2>4. MarksOf(dec', order') = MarksOf(dec, order) /\ ToSet(late') = ToSet(late)
    BY <1>1 DEF MarksOf
  <2>5. Marks' \subseteq Marks
    BY <2>2, <2>4 DEF Marks, OnTheWay
  <2>6. IDsUnique'
    BY <1>0, <2>1, <2>3, <2>5, IDsStay
  <2>7. Decoding'
    BY <1>0, <1>1, <2>1 DEF Decoding, DecoderOK
  <2>8. FECTypeOK'
    <3>1. fecActive' \in BOOLEAN /\ fecLowWindows' \in 0 .. (CleanWindows - 1)
      BY <1>4, <2>1
    <3>2. /\ parity' \in 1 .. (MaxShards - BlockSize) /\ blocks' \in Seq(Seq(Units))
          /\ recovered' \in Seq(Nat) /\ Len(recovered') = Len(blocks')
          /\ evicted' \in Seq(Nat) /\ Len(evicted') = Len(blocks')
      BY <1>0, <2>1 DEF FECTypeOK
    <3> QED
      BY <1>0, <1>1, <2>2, <2>3, <3>1, <3>2 DEF FECTypeOK
  <2>9. PoppedIsKept'
    BY <1>0, <1>1, <2>1, KeptFrom DEF Somewhere
  <2> QED
    BY <1>2, <2>6, <2>7, <2>8, <2>9 DEF FECInv
<1>7. CASE GiveUp
  BY <1>0, <1>3, <1>4, <1>7 DEF GiveUp, FECTypeOK
<1>8. ASSUME NEW k \in Int, EngageAutoFEC(k)
      PROVE  FECInv'
  BY <1>3, <1>4, <1>8 DEF EngageAutoFEC
<1> QED
  BY <1>5, <1>6, <1>7, <1>8, ParityIsInt DEF MaybeAdjustAutoFEC

LEMMA FECInitSafe == FECInit => FECInv
<1> SUFFICES ASSUME FECInit PROVE FECInv
  OBVIOUS
<1>1. /\ queued = Units /\ doing = [p \in Pollers |-> "idle"]
      /\ hand = [p \in Pollers |-> Nothing] /\ fecActive = FALSE /\ fecLowWindows = 0
      /\ parity = Clamped(BaseParity) /\ blockID = 0 /\ buf = <<>>
      /\ shardQueue = <<>> /\ blocks = <<>> /\ late = <<>> /\ dec = <<>> /\ order = <<>>
      /\ acked = {} /\ windows = 0 /\ resends = 0
      /\ recovered = <<>> /\ evicted = <<>>
  BY DEF FECInit
<1>2. Len(<<>>) = 0 /\ \A S : <<>> \in Seq(S)
  BY EmptySeq
<1>3. Clamped(BaseParity) \in 1 .. (MaxShards - BlockSize)
  BY ClampedOK, FECNumbers
<1>4. FECTypeOK
  <2>1. DOMAIN doing = Pollers /\ hand \in [Pollers -> Units \cup {Nothing}]
    BY <1>1
  <2>2. fecLowWindows \in 0 .. (CleanWindows - 1)
    BY <1>1, FECNumbers
  <2>4. fecActive \in BOOLEAN
    BY <1>1
  <2>3. /\ buf \in Seq(Units) /\ Len(buf) < BlockSize
        /\ blocks \in Seq(Seq(Units))
        /\ shardQueue \in Seq(Shard) /\ late \in Seq(Shard) /\ Len(late) <= 1
        /\ dec \in Seq(BlockState) /\ Len(dec) <= MaxTracked
        /\ order \in Seq(Nat) /\ Len(order) = Len(dec)
        /\ recovered \in Seq(Nat) /\ Len(recovered) = Len(blocks)
        /\ evicted \in Seq(Nat) /\ Len(evicted) = Len(blocks)
    BY <1>1, <1>2, FECNumbers
  <2> QED
    BY <1>1, <1>3, <2>1, <2>2, <2>3, <2>4 DEF FECTypeOK
<1>5. Handed /\ PoppedIsKept
  BY <1>1 DEF Handed, PoppedIsKept
<1>6. Marks = {}
  BY <1>1, <1>2 DEF Marks, OnTheWay, MarksOf, ToSet
<1>7. IDsUnique
  BY <1>6 DEF IDsUnique
<1>8. Decoding
  BY <1>1, <1>2, FECNumbers DEF Decoding, DecoderOK
<1> QED
  BY <1>4, <1>5, <1>7, <1>8 DEF FECInv

LEMMA FECKept ==
    ASSUME FECInv, FECNext
    PROVE  FECInv'
<1>1. ASSUME NEW p \in Pollers, PollerStep(p)
      PROVE  FECInv'
  BY <1>1, PollSafe, PopFECShardSafe, NoFECShardSafe, PopNextTXPacketSafe,
     FeedFECDataSafe, FlushFECSafe, SendRawSafe DEF PollerStep
<1> QED
  BY <1>1, MaybeAdjustSafe, ResendSafe, LateArrivesSafe DEF FECNext

LEMMA FECStays ==
    ASSUME FECInv, UNCHANGED fecVars
    PROVE  FECInv'
<1>1. UNCHANGED <<queued, doing, hand, fecActive, fecLowWindows, parity, blockID, buf,
                  shardQueue, blocks, late, dec, order, recovered, evicted, acked, windows,
                  resends, wire, lost>>
  BY DEF fecVars, encVars, decVars
<1>2. IDsUnique' /\ Decoding' /\ UnitsOf(shardQueue)' = UnitsOf(shardQueue)
  BY <1>1, CoderStays
<1>3. FECTypeOK' /\ Handed'
  BY <1>1 DEF FECInv, FECTypeOK, Handed
<1>4. PoppedIsKept'
  BY <1>1, <1>2, KeptFrom DEF FECInv, Somewhere
<1> QED
  BY <1>2, <1>3, <1>4 DEF FECInv

-----------------------------------------------------------------------------
(* All of them together.                                                    *)

TunnelInv == FECInv /\ SessionInv /\ AnswersInv /\ LanesInv /\ EndsInv

LEMMA TunnelStarts == Init => TunnelInv
BY FECInitSafe, SessionInitSafe, AnswersInitSafe, LanesInitSafe, EndsStart DEF Init, TunnelInv

LEMMA TunnelStep ==
    ASSUME TunnelInv, [Next]_tunnelVars
    PROVE  TunnelInv'
<1>0. FECInv /\ SessionInv /\ AnswersInv /\ LanesInv /\ EndsInv
  BY DEF TunnelInv
<1>1. EndsInv'
  BY <1>0, EndsStep
<1>2. FECInv'
  BY <1>0, FECKept, FECStays DEF Next, FECMove, tunnelVars
<1>3. SessionInv'
  BY <1>0, SessionKept, SessionStays DEF Next, tunnelVars
<1>4. AnswersInv'
  BY <1>0, AnswersKept, AnswersStay DEF Next, AnswersMove, tunnelVars
<1>5. LanesInv'
  BY <1>0, LanesKept, LanesStay DEF Next, tunnelVars
<1> QED
  BY <1>1, <1>2, <1>3, <1>4, <1>5 DEF TunnelInv

\* Every variable of the tunnel keeps its type: no queue, lane, table or counter
\* gets past its limit (TunnelTypeOK).
THEOREM TunnelTypesCorrect == Spec => []TunnelTypeOK
<1>1. Init => TunnelInv
  BY TunnelStarts
<1>2. TunnelInv /\ [Next]_tunnelVars => TunnelInv'
  BY TunnelStep
<1>3. TunnelInv => TunnelTypeOK
  <2>1. FECInv => FECTypeOK
    BY DEF FECInv
  <2>2. AnswersInv => AnswersTypeOK
    BY DEF AnswersInv
  <2>3. LanesInv => LanesTypeOK
    BY DEF LanesInv
  <2>4. EndsInv => ConnTypeOK /\ LocalTypeOK
    BY DEF EndsInv, ConnInv, LocalInv
  <2> QED
    BY <2>1, <2>2, <2>3, <2>4, SessionImplies DEF TunnelInv, TunnelTypeOK
<1> QED
  BY <1>1, <1>2, <1>3, PTL DEF Spec

\* A packet given to forward error correction is never just forgotten, nor a
\* block put together from two or twice; the client uses the session of its
\* own, current request, under the policy that came with it, and starts again
\* clean and for a reason; a packed answer holds no more than it can, each packet
\* under the id of its own stream; and the lanes of the server stay clear of
\* control packets and are empty when it returns by itself (TunnelSound).
THEOREM TunnelIsSound == Spec => []TunnelSound
<1>1. Init => TunnelInv
  BY TunnelStarts
<1>2. TunnelInv /\ [Next]_tunnelVars => TunnelInv'
  BY TunnelStep
<1>3. TunnelInv => TunnelSound
  BY FECImplies, SessionImplies, AnswersImply, LanesImply DEF TunnelInv, TunnelSound
<1> QED
  BY <1>1, <1>2, <1>3, PTL DEF Spec
=============================================================================
