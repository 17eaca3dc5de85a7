--------------------------- MODULE ARQDataProofs ---------------------------
EXTENDS ARQData, FiniteSetTheorems, TLAPS

LEMMA HalfFact == /\ Half \in Nat /\ 2 * Half = SeqMod
                  /\ Lag < SeqMod /\ WindowSize + 1 < SeqMod
BY ARQDataAssumption DEF Half

LEMMA DivMod ==
    ASSUME NEW n \in Int
    PROVE  /\ n = SeqMod * (n \div SeqMod) + (n % SeqMod)
           /\ n % SeqMod \in 0 .. SeqMod - 1
           /\ n \div SeqMod \in Int
BY ARQDataAssumption

LEMMA MulFact ==
    ASSUME NEW q \in Int, NEW r \in Int, q < r
    PROVE  SeqMod * q + SeqMod <= SeqMod * r
<1>1. PICK d \in Nat : r = q + 1 + d
  <2>1. r - q - 1 \in Nat OBVIOUS
  <2>. QED BY <2>1
<1>2. SeqMod * r = SeqMod * q + SeqMod + SeqMod * d
  BY <1>1, ARQDataAssumption
<1>3. SeqMod * d >= 0
  BY ARQDataAssumption
<1>. QED BY <1>2, <1>3, ARQDataAssumption

LEMMA ModUnique ==
    ASSUME NEW n \in Int, NEW q \in Int, NEW r \in 0 .. SeqMod - 1,
           n = SeqMod * q + r
    PROVE  n % SeqMod = r
<1> DEFINE q2 == n \div SeqMod
           r2 == n % SeqMod
<1>1. /\ n = SeqMod * q2 + r2 /\ r2 \in 0 .. SeqMod - 1 /\ q2 \in Int
  BY DivMod
<1> HIDE DEF q2, r2
<1>2. SeqMod * q \in Int /\ SeqMod * q2 \in Int
  BY <1>1, ARQDataAssumption
<1>3. ~(q < q2)
  BY MulFact, <1>1, <1>2, ARQDataAssumption
<1>4. ~(q2 < q)
  BY MulFact, <1>1, <1>2, ARQDataAssumption
<1>5. q = q2
  BY <1>3, <1>4, <1>1
<1>6. r2 = r
  BY <1>5, <1>1, <1>2, ARQDataAssumption
<1>. QED BY <1>6 DEF r2

LEMMA WireType == ASSUME NEW n \in Int PROVE Wire(n) \in SeqNum
BY DivMod DEF Wire, SeqNum

(* Two numbers less than SeqMod apart have different wire numbers.          *)
LEMMA WireInjective ==
    ASSUME NEW a \in Int, NEW b \in Int, Wire(a) = Wire(b),
           a < b + SeqMod, b < a + SeqMod
    PROVE  a = b
<1> DEFINE qa == a \div SeqMod
           qb == b \div SeqMod
           r == a % SeqMod
<1>1. /\ a = SeqMod * qa + r /\ r \in 0 .. SeqMod - 1 /\ qa \in Int
      /\ b = SeqMod * qb + r /\ qb \in Int
  BY DivMod DEF Wire
<1> HIDE DEF qa, qb, r
<1>2. SeqMod * qa \in Int /\ SeqMod * qb \in Int
  BY <1>1, ARQDataAssumption
<1>3. ~(qa < qb) /\ ~(qb < qa)
  BY MulFact, <1>1, <1>2, ARQDataAssumption
<1>. QED BY <1>1, <1>3

(* Adding on the wire is adding the chunk numbers.                          *)
LEMMA WireAdd ==
    ASSUME NEW a \in Int, NEW i \in Int
    PROVE  Wire(Wire(a) + i) = Wire(a + i)
<1> DEFINE qa == a \div SeqMod
           w == a % SeqMod
           q == (w + i) \div SeqMod
           r == (w + i) % SeqMod
<1>1. a = SeqMod * qa + w /\ w \in 0 .. SeqMod - 1 /\ qa \in Int
  BY DivMod
<1>2. w + i = SeqMod * q + r /\ r \in 0 .. SeqMod - 1 /\ q \in Int
  BY DivMod, <1>1
<1> HIDE DEF qa, w, q, r
<1>3. SeqMod * (qa + q) = SeqMod * qa + SeqMod * q
  BY <1>1, <1>2, ARQDataAssumption
<1>4. a + i = SeqMod * (qa + q) + r
  BY <1>1, <1>2, <1>3, ARQDataAssumption
<1>5. (a + i) % SeqMod = r
  BY ModUnique, <1>1, <1>2, <1>4
<1>. QED BY <1>5 DEF Wire, w, r

(* The uint16 difference of two wire numbers is the difference of the chunk *)
(* numbers, or that difference modulo SeqMod when it is negative.           *)
LEMMA DiffWire ==
    ASSUME NEW a \in Int, NEW b \in Int, a < b + SeqMod, b < a + SeqMod
    PROVE  Diff(Wire(a), Wire(b)) = IF b <= a THEN a - b ELSE a - b + SeqMod
<1> DEFINE qa == a \div SeqMod
           qb == b \div SeqMod
           ra == a % SeqMod
           rb == b % SeqMod
           d == IF b <= a THEN a - b ELSE a - b + SeqMod
           q == IF b <= a THEN qb - qa ELSE qb - qa - 1
<1>1. /\ a = SeqMod * qa + ra /\ ra \in 0 .. SeqMod - 1 /\ qa \in Int
      /\ b = SeqMod * qb + rb /\ rb \in 0 .. SeqMod - 1 /\ qb \in Int
  BY DivMod
<1>2. d \in 0 .. SeqMod - 1 /\ q \in Int
  BY <1>1, ARQDataAssumption
<1> HIDE DEF qa, qb, ra, rb
<1>3. /\ SeqMod * (qb - qa) = SeqMod * qb - SeqMod * qa
      /\ SeqMod * (qb - qa - 1) = SeqMod * qb - SeqMod * qa - SeqMod
  BY <1>1, ARQDataAssumption
<1>4. SeqMod * qa \in Int /\ SeqMod * qb \in Int
  BY <1>1, ARQDataAssumption
<1>5. ra - rb = SeqMod * q + d
  BY <1>1, <1>3, <1>4, ARQDataAssumption
<1>6. (ra - rb) % SeqMod = d
  <2>1. ra - rb \in Int BY <1>1
  <2>. HIDE DEF d, q
  <2>. QED BY ModUnique, <2>1, <1>2, <1>5
<1>. QED BY <1>6 DEF Diff, Wire, ra, rb
-----------------------------------------------------------------------------
LEMMA KindType ==
    ASSUME NEW s, NEW due PROVE JobKind(s, due) \in Kind
BY DEF JobKind, Kind

LEMMA PushType ==
    ASSUME txq \subseteq Packet, NEW p \in Packet, PushTXPacket(p)
    PROVE  txq' \subseteq Packet
BY DEF PushTXPacket, AfterPush

LEMMA EntryFacts ==
    /\ NoEntry.chunk = -1 /\ NoEntry.dispatched = FALSE
    /\ \A e \in Entry : e # NoEntry
    /\ NoChunk \notin Chunk
BY DEF Entry, NoEntry, NoChunk, Chunk

LEMMA TrackedEntry ==
    ASSUME TypeOK, NEW s \in Tracked PROVE s \in SeqNum /\ sndBuf[s] \in Entry
BY DEF TypeOK, Tracked

LEMMA EntryUpdate ==
    ASSUME NEW e \in Entry, NEW b \in BOOLEAN, NEW r \in 0 .. MaxDataRetries
    PROVE  /\ [e EXCEPT !.dispatched = b] \in Entry
           /\ [e EXCEPT !.dispatched = b, !.retries = r] \in Entry
           /\ [e EXCEPT !.dispatched = b].chunk = e.chunk
           /\ [e EXCEPT !.dispatched = b, !.retries = r].chunk = e.chunk
BY DEF Entry

LEMMA TypeInit == Init => TypeOK
<1> SUFFICES ASSUME Init PROVE TypeOK
  OBVIOUS
<1>1. 0 \in SeqNum
  BY ARQDataAssumption DEF SeqNum
<1>. QED BY <1>1 DEF Init, TypeOK

LEMMA TypeStep == TypeOK /\ [Next]_vars => TypeOK'
<1> SUFFICES ASSUME TypeOK, [Next]_vars PROVE TypeOK'
  OBVIOUS
<1> USE DEF TypeOK
<1>1. CASE Read
  <2>1. Wire(sndNxt + 1) \in SeqNum
    <3>1. sndNxt + 1 \in Int
      BY ARQDataAssumption DEF SeqNum
    <3>. QED BY <3>1, WireType
  <2>2. [chunk |-> read, dispatched |-> FALSE, retries |-> 0] \in Entry
    BY ARQDataAssumption DEF Entry, Chunk
  <2>3. [kind |-> "DATA", sn |-> sndNxt, chunk |-> read] \in Packet
    BY DEF Packet, Kind, Chunk
  <2>4. sndBuf' \in [SeqNum -> Entry \cup {NoEntry}] /\ read' \in Nat
    BY <1>1, <2>2 DEF Read
  <2>5. /\ pushing' \subseteq Packet /\ reading' \in BOOLEAN
        /\ data' \subseteq Message /\ acks' \subseteq Message
    BY <1>1, <2>3 DEF Read
  <2>. QED
    BY <1>1, <2>1, <2>4, <2>5 DEF Read, queueVars, jobVars, rcvVars
<1>20. CASE BeginRead \/ ReadTimeout
  BY <1>20 DEF BeginRead, ReadTimeout, queueVars, jobVars, netVars, rcvVars
<1>2. CASE FirstPush
  <2>1. PICK p \in pushing : PushTXPacket(p) /\ FirstPush!(p)
    BY <1>2 DEF FirstPush
  <2>2. txq' \subseteq Packet
    BY <2>1, PushType
  <2>. QED BY <2>1, <2>2 DEF Tracked, Entry, jobVars, netVars, rcvVars
<1>3. CASE Pop
  BY <1>3 DEF Pop, sndVars, jobVars, netVars, rcvVars
<1>4. CASE Transmit
  <2>1. PICK p \in popped : Transmit!(p)
    BY <1>4 DEF Transmit
  <2>2. MessageOf(p) \in Message
    BY DEF MessageOf, Packet, Message
  <2>3. sndBuf' \in [SeqNum -> Entry \cup {NoEntry}]
    <3>1. CASE p.sn \in Tracked
      BY <2>1, <3>1, TrackedEntry DEF Entry
    <3>. QED BY <2>1, <3>1
  <2>. QED BY <2>1, <2>2, <2>3 DEF jobVars, rcvVars
<1>5. CASE RtxScan
  <2>1. PICK due \in SUBSET {s \in Tracked : sndBuf[s].dispatched} :
          jobs' = {[kind |-> JobKind(s, due), sn |-> s,
                    chunk |-> sndBuf[s].chunk] : s \in due}
    BY <1>5 DEF RtxScan
  <2>2. jobs' \subseteq Packet
    <3>1. \A s \in due : s \in SeqNum /\ sndBuf[s].chunk \in Chunk
      BY DEF Tracked, Entry
    <3>. QED BY <2>1, <3>1, KindType DEF Packet
  <2>. QED BY <1>5, <2>2 DEF RtxScan, sndVars, queueVars, netVars, rcvVars
<1>6. CASE RtxPush
  BY <1>6, PushType DEF RtxPush, sndVars, netVars, rcvVars
<1>7. CASE RtxMark
  <2>1. \A n \in 0 .. MaxDataRetries : Saturating(n) \in 0 .. MaxDataRetries
    BY ARQDataAssumption DEF Saturating
  <2>2. PICK p \in marking : RtxMark!(p)
    BY <1>7 DEF RtxMark
  <2>3. sndBuf' \in [SeqNum -> Entry \cup {NoEntry}]
    <3>1. CASE p.sn \in Tracked
      <4>1. sndBuf[p.sn] \in Entry /\ p.sn \in SeqNum
        BY <3>1, TrackedEntry
      <4>2. Saturating(sndBuf[p.sn].retries) \in 0 .. MaxDataRetries
        BY <2>1, <4>1 DEF Entry
      <4> DEFINE e == [sndBuf[p.sn] EXCEPT !.dispatched = FALSE,
                          !.retries = Saturating(sndBuf[p.sn].retries)]
      <4>3. e \in Entry
        BY <4>1, <4>2, EntryUpdate
      <4>4. sndBuf' = [sndBuf EXCEPT ![p.sn] = e]
        BY <2>2, <3>1, <4>1
      <4>. HIDE DEF e
      <4>. QED BY <4>1, <4>3, <4>4
    <3>. QED BY <2>2, <3>1
  <2>. QED BY <2>2, <2>3 DEF queueVars, netVars, rcvVars
<1>8. CASE RetryExceeded
  BY <1>8 DEF RetryExceeded, queueVars, jobVars, netVars, rcvVars
<1>9. ASSUME NEW m \in acks, ReceiveAck(m) PROVE TypeOK'
  BY <1>9 DEF ReceiveAck, queueVars, netVars, rcvVars
<1>10. CASE AckCleanup
  BY <1>10 DEF AckCleanup, sndVars, netVars, rcvVars
<1>11. ASSUME NEW s \in nacks, NackTake(s) PROVE TypeOK'
  <2>1. sndBuf[s].chunk \in Chunk
    BY <1>11 DEF NackTake, Tracked, Entry
  <2>. QED BY <1>11, <2>1 DEF NackTake, Packet, Kind, sndVars, queueVars, netVars, rcvVars
<1>12. CASE NackPush
  BY <1>12, PushType DEF NackPush, sndVars, netVars, rcvVars
<1>13. ASSUME NEW m \in data, ReceiveData(m) PROVE TypeOK'
  BY <1>13 DEF ReceiveData, sndVars, queueVars, jobVars, netVars
<1>14. CASE ProcessReceived
  <2>1. Head(rxChan) \in Message /\ Tail(rxChan) \in Seq(Message)
    BY <1>14 DEF ProcessReceived
  <2>. QED BY <1>14, <2>1 DEF ProcessReceived, Message, sndVars, queueVars, jobVars
<1>15. CASE NackBase
  BY <1>15 DEF NackBase, sndVars, queueVars, jobVars, netVars
<1>16. CASE NackScan
  <2>1. ASSUME NEW g \in gap PROVE Missing(g) \subseteq SeqNum
    <3>1. g.from \in Int
      BY ARQDataAssumption DEF SeqNum
    <3>2. \A i \in Int : Wire(g.from + i) \in SeqNum
      BY <3>1, WireType
    <3>3. \A n : Absent(g, n) \subseteq Int
      BY DEF Absent
    <3>4. ToReport(g) \subseteq Int
      BY <3>3 DEF ToReport
    <3>. QED BY <3>2, <3>4 DEF Missing
  <2>. QED BY <1>16, <2>1 DEF NackScan, sndVars, queueVars, jobVars
<1>17. CASE TakeReady
  <2>1. PICK n \in 1 .. SeqMod : TakeReady!2!(n)
    BY <1>17 DEF TakeReady
  <2>2. writing' \in Seq(Chunk)
    <3>1. \A i \in 1 .. n : rcvBuf[Wire(rcvNxt + (i - 1))] \in Chunk
      <4>1. \A i \in 1 .. n : i - 1 \in 0 .. n - 1
        BY ARQDataAssumption
      <4>. QED BY <2>1, <4>1 DEF Ready, Buffered
    <3>. QED BY <2>1, <3>1, ARQDataAssumption
  <2>3. rcvNxt' \in SeqNum
    BY <2>1, WireType, ARQDataAssumption DEF SeqNum
  <2>. QED BY <1>17, <2>1, <2>2, <2>3
       DEF TakeReady, WithoutRun, sndVars, queueVars, jobVars, netVars
<1>18. CASE Write
  BY <1>18 DEF Write, sndVars, queueVars, jobVars, netVars
<1>19. CASE UNCHANGED vars
  BY <1>19 DEF vars, sndVars, queueVars, jobVars, netVars, rcvVars
<1>. QED
  BY <1>1, <1>2, <1>3, <1>4, <1>5, <1>6, <1>7, <1>8, <1>9, <1>10, <1>11,
     <1>12, <1>13, <1>14, <1>15, <1>16, <1>17, <1>18, <1>19, <1>20 DEF Next

(* Every variable stays in its type.                                        *)
THEOREM TypeCorrect == Spec => []TypeOK
BY TypeInit, TypeStep, PTL DEF Spec
-----------------------------------------------------------------------------
LEMMA PushSubset ==
    ASSUME NEW p, PushTXPacket(p) PROVE txq' \subseteq txq \cup {p}
BY DEF PushTXPacket, AfterPush

LEMMA TrackedByChunk ==
    ASSUME TypeOK, NEW s \in SeqNum
    PROVE  s \in Tracked <=> sndBuf[s].chunk # -1
BY EntryFacts DEF TypeOK, Tracked, Entry, Chunk

(* A step that moves packets about on the sender's side, from packets and   *)
(* entries there, keeps the invariant.                                      *)
LEMMA SenderStep ==
    ASSUME IInv, TypeOK',
           UNCHANGED <<read, sndNxt, reading, reset, acks, rxChan, rcvBuf,
                       rcvNxt, writing, delivered>>,
           \A m \in Held' \cup ackJobs' \cup data' : Carries(m),
           \A s \in SeqNum : sndBuf'[s].chunk = sndBuf[s].chunk
    PROVE  IInv'
<1>1. \A s \in SeqNum : s \in Tracked' <=> s \in Tracked
  <2>. SUFFICES ASSUME NEW s \in SeqNum PROVE s \in Tracked' <=> s \in Tracked
    OBVIOUS
  <2>1. s \in Tracked <=> sndBuf[s].chunk # -1
    BY TrackedByChunk DEF IInv
  <2>2. s \in Tracked' <=> sndBuf'[s].chunk # -1
    BY EntryFacts DEF TypeOK, Tracked, Entry, Chunk
  <2>. QED BY <2>1, <2>2
<1>2. \A m : Carries(m)' <=> Carries(m)
  BY DEF Carries, Live
<1>3. CarriersOK'
  <2>1. \A m \in Held' \cup ackJobs' \cup data' \cup acks' : Carries(m)
    BY DEF IInv, CarriersOK
  <2>2. \A s \in Tracked' : s \in SeqNum /\ s \in Tracked
    BY <1>1 DEF Tracked
  <2>3. \A s \in Tracked' :
          s = Wire(sndBuf'[s].chunk) /\ Live(sndBuf[s].chunk)
    BY <2>2 DEF IInv, CarriersOK
  <2>4. \A n : Live(n)' <=> Live(n)
    BY DEF Live
  <2>5. \A s \in Tracked' : Live((sndBuf[s].chunk))'
    BY <2>2, <2>3, <2>4 DEF Live
  <2>6. \A m \in Held' \cup ackJobs' \cup data' \cup acks' : Carries(m)'
    BY <1>2, <2>1
  <2>7. \A i \in 1 .. Len(rxChan') : Carries(rxChan'[i])
    BY DEF IInv, CarriersOK
  <2>. QED BY <2>2, <2>3, <2>6, <2>7 DEF CarriersOK, Carries, Live
<1>4. NoChunkLost'
  <2>1. \A n \in 0 .. read - 1 : IsTracked(n) => IsTracked(n)'
    <3>1. \A n \in 0 .. read - 1 : Wire(n) \in SeqNum
      BY WireType
    <3>. QED BY <1>1, <3>1 DEF IsTracked, Tracked
  <2>2. \A n : HasReceived(n)' <=> HasReceived(n)
    BY DEF HasReceived, Taken
  <2>. QED BY <2>1, <2>2 DEF IInv, NoChunkLost
<1>5. /\ AcksTruthful' /\ CountersOK' /\ InOrder'
      /\ WindowRespected' /\ BufferedWasRead' /\ SpanBounded' /\ ReadHasRoom'
  BY DEF IInv, AcksTruthful, CountersOK, InOrder, WindowRespected,
         BufferedWasRead, SpanBounded, ReadHasRoom, HasReceived, Taken, Buffered
<1>. QED BY <1>3, <1>4, <1>5 DEF IInv
LEMMA MessageCarries ==
    ASSUME IInv, NEW m \in Held \cup ackJobs \cup data \cup acks
    PROVE  Carries(m)
BY DEF IInv, CarriersOK

LEMMA EntryCarries ==
    ASSUME IInv, NEW s \in Tracked, NEW k
    PROVE  Carries([kind |-> k, sn |-> s, chunk |-> sndBuf[s].chunk])
BY DEF IInv, CarriersOK, Carries

LEMMA DispatchedUpdate ==
    ASSUME TypeOK, NEW s \in Tracked, NEW b, NEW s2 \in SeqNum
    PROVE  [sndBuf EXCEPT ![s].dispatched = b][s2].chunk = sndBuf[s2].chunk
BY TrackedEntry DEF TypeOK, Entry, NoEntry

(* The steps of the sender that neither start, acknowledge nor drop a       *)
(* chunk.                                                                   *)
SenderActions ==
    \/ FirstPush \/ Pop \/ Transmit \/ RtxScan \/ RtxPush \/ RtxMark
    \/ AckCleanup \/ (\E s \in nacks : NackTake(s)) \/ NackPush
    \/ NackBase \/ NackScan \/ UNCHANGED vars

LEMMA SenderActionsStep ==
    ASSUME IInv, TypeOK', SenderActions PROVE IInv'
<1>1. TypeOK
  BY DEF IInv
<1>2. UNCHANGED <<read, sndNxt, reading, reset, acks, rxChan, rcvBuf, rcvNxt,
                  writing, delivered>>
  BY DEF SenderActions, FirstPush, Pop, Transmit, RtxScan, RtxPush, RtxMark,
         AckCleanup, NackTake, NackPush, NackBase, NackScan, vars, sndVars,
         queueVars, jobVars, netVars, rcvVars
<1> DEFINE Old == Held \cup ackJobs \cup data
           New == Held' \cup ackJobs' \cup data'
           SameChunks == \A s \in SeqNum : sndBuf'[s].chunk = sndBuf[s].chunk
<1>3. (\A m \in New : Carries(m)) /\ SameChunks
  <2>1. CASE FirstPush
    <3>1. PICK p \in pushing : PushTXPacket(p) /\ FirstPush!(p)
      BY <2>1 DEF FirstPush
    <3>2. New \subseteq Old
      BY <3>1, PushSubset DEF Held, jobVars, netVars
    <3>3. SameChunks
      BY <3>1, <1>1, DispatchedUpdate
    <3>. QED BY <3>2, <3>3, MessageCarries
  <2>2. CASE Pop
    <3>1. New \subseteq Old /\ sndBuf' = sndBuf
      BY <2>2 DEF Pop, Held, sndVars, jobVars, netVars
    <3>. QED BY <3>1, MessageCarries
  <2>3. CASE Transmit
    <3>1. PICK p \in popped : Transmit!(p)
      BY <2>3 DEF Transmit
    <3>2. Carries(MessageOf(p))
      BY MessageCarries DEF MessageOf, Carries, Held
    <3>3. New \subseteq Old \cup {MessageOf(p)}
      BY <3>1 DEF Held, jobVars
    <3>4. SameChunks
      BY <3>1, <1>1, DispatchedUpdate
    <3>. QED BY <3>2, <3>3, <3>4, MessageCarries
  <2>4. CASE RtxScan
    <3>1. \A p \in jobs' : Carries(p)
      BY <2>4, EntryCarries DEF RtxScan
    <3>2. New \subseteq Old \cup jobs' /\ sndBuf' = sndBuf
      BY <2>4 DEF RtxScan, Held, sndVars, queueVars, netVars
    <3>. QED BY <3>1, <3>2, MessageCarries
  <2>5. CASE RtxPush
    <3>1. New \subseteq Old /\ sndBuf' = sndBuf
      BY <2>5, PushSubset DEF RtxPush, Held, sndVars, netVars
    <3>. QED BY <3>1, MessageCarries
  <2>6. CASE RtxMark
    <3>1. PICK p \in marking : RtxMark!(p)
      BY <2>6 DEF RtxMark
    <3>2. New \subseteq Old
      BY <3>1 DEF Held, queueVars, netVars
    <3>3. SameChunks
      <4>. SUFFICES ASSUME p.sn \in Tracked, NEW s \in SeqNum
                   PROVE  sndBuf'[s].chunk = sndBuf[s].chunk
        BY <3>1
      <4>1. sndBuf[p.sn] \in Entry /\ p.sn \in SeqNum
        BY <1>1, TrackedEntry
      <4> DEFINE r == Saturating(sndBuf[p.sn].retries)
                 e == [sndBuf[p.sn] EXCEPT !.dispatched = FALSE, !.retries = r]
      <4>2. e.chunk = sndBuf[p.sn].chunk
        BY <4>1 DEF Entry
      <4>3. sndBuf' = [sndBuf EXCEPT ![p.sn] = e]
        BY <3>1, <1>1, <4>1 DEF TypeOK
      <4>. HIDE DEF e
      <4>. QED BY <1>1, <4>1, <4>2, <4>3 DEF TypeOK
    <3>. QED BY <3>2, <3>3, MessageCarries
  <2>7. CASE AckCleanup
    <3>1. New \subseteq Old /\ sndBuf' = sndBuf
      BY <2>7 DEF AckCleanup, Held, sndVars, netVars
    <3>. QED BY <3>1, MessageCarries
  <2>8. CASE \E s \in nacks : NackTake(s)
    <3>1. PICK s \in nacks : NackTake(s)
      BY <2>8
    <3>2. \A p \in nackJobs' : Carries(p)
      BY <3>1, EntryCarries DEF NackTake
    <3>3. New \subseteq Old \cup nackJobs' /\ sndBuf' = sndBuf
      BY <3>1 DEF NackTake, Held, sndVars, queueVars, netVars
    <3>. QED BY <3>2, <3>3, MessageCarries
  <2>9. CASE NackPush
    <3>1. New \subseteq Old /\ sndBuf' = sndBuf
      BY <2>9, PushSubset DEF NackPush, Held, sndVars, netVars
    <3>. QED BY <3>1, MessageCarries
  <2>10. CASE NackBase \/ NackScan \/ UNCHANGED vars
    <3>1. New = Old /\ sndBuf' = sndBuf
      BY <2>10 DEF NackBase, NackScan, Held, vars, sndVars, queueVars,
                   jobVars, netVars
    <3>. QED BY <3>1, MessageCarries
  <2>. QED
    BY <2>1, <2>2, <2>3, <2>4, <2>5, <2>6, <2>7, <2>8, <2>9, <2>10
       DEF SenderActions
<1>. QED BY <1>2, <1>3, SenderStep

(* Chunks of which something is left are less than SeqMod apart, so their   *)
(* wire numbers tell them apart.                                            *)
LEMMA LiveClose ==
    ASSUME read \in Nat, NEW a \in Nat, NEW b \in Nat, Live(a), Live(b)
    PROVE  a < b + SeqMod /\ b < a + SeqMod
BY HalfFact, ARQDataAssumption DEF Live

LEMMA RetryExceededStep ==
    ASSUME IInv, TypeOK', RetryExceeded PROVE IInv'
<1> USE DEF RetryExceeded, queueVars, jobVars, netVars, rcvVars
<1>1. \A m : Carries(m)' <=> Carries(m)
  BY DEF Carries, Live
<1>2. Tracked' = {}
  BY DEF Tracked
<1>3. CarriersOK'
  <2>1. Held' = Held
    BY DEF Held
  <2>2. \A m \in Held' \cup ackJobs' \cup data' \cup acks' : Carries(m)'
    BY <1>1, <2>1 DEF IInv, CarriersOK
  <2>3. \A i \in 1 .. Len(rxChan') : Carries(rxChan'[i])
    BY DEF IInv, CarriersOK
  <2>. QED BY <1>2, <2>2, <2>3 DEF CarriersOK, Carries, Live
<1>4. /\ AcksTruthful' /\ CountersOK' /\ InOrder' /\ NoChunkLost'
      /\ WindowRespected' /\ BufferedWasRead' /\ SpanBounded' /\ ReadHasRoom'
  BY DEF IInv, AcksTruthful, CountersOK, InOrder, NoChunkLost,
         WindowRespected, BufferedWasRead, SpanBounded, ReadHasRoom,
         HasReceived, Taken,
         Buffered
<1>. QED BY <1>3, <1>4 DEF IInv

(* An acknowledgement frees the entry of the chunk it names, not of another *)
(* chunk that took the number since; and that chunk was received.           *)
LEMMA ReceiveAckStep ==
    ASSUME IInv, TypeOK', NEW m \in acks, ReceiveAck(m) PROVE IInv'
<1> USE DEF ReceiveAck, queueVars, netVars, rcvVars
<1>1. TypeOK
  BY DEF IInv
<1>2. m \in Message /\ Carries(m) /\ m.sn \in SeqNum /\ m.chunk \in Nat
  BY <1>1, MessageCarries DEF TypeOK, Message, Chunk
<1>3. \A x : Carries(x)' <=> Carries(x)
  BY DEF Carries, Live
<1>4. \A s \in SeqNum \ {m.sn} : sndBuf'[s] = sndBuf[s]
  BY <1>1 DEF TypeOK
<1>5. Tracked' \subseteq Tracked \ {m.sn}
  BY <1>1, <1>2, <1>4 DEF TypeOK, Tracked
<1>6. CarriersOK'
  <2>1. \A x \in Held' \cup ackJobs' \cup data' \cup acks' : Carries(x)'
    <3>1. Held' \cup ackJobs' \cup data' \cup acks'
             \subseteq Held \cup data \cup acks
      BY DEF Held
    <3>. QED BY <1>3, <3>1, MessageCarries
  <2>2. \A i \in 1 .. Len(rxChan') : Carries(rxChan'[i])
    BY DEF IInv, CarriersOK
  <2>3. \A s \in Tracked' : s = Wire(sndBuf'[s].chunk) /\ Live(sndBuf'[s].chunk)
    BY <1>4, <1>5 DEF IInv, CarriersOK, Tracked
  <2>. QED BY <2>1, <2>2, <2>3 DEF CarriersOK, Carries, Live
<1>7. \A n : HasReceived(n)' <=> HasReceived(n)
  BY DEF HasReceived, Taken
<1>8. NoChunkLost'
  <2>. SUFFICES ASSUME ~reset, NEW n \in 0 .. read - 1
               PROVE  IsTracked(n)' \/ HasReceived(n)
    BY <1>7 DEF NoChunkLost
  <2>1. IsTracked(n) \/ HasReceived(n)
    BY DEF IInv, NoChunkLost
  <2>2. ASSUME IsTracked(n), Wire(n) # m.sn PROVE IsTracked(n)'
    BY <1>4, <2>2, WireType DEF IsTracked
  <2>3. ASSUME IsTracked(n), Wire(n) = m.sn PROVE HasReceived(n)
    <3>1. Live(n)
      BY <2>3 DEF IInv, CarriersOK, IsTracked
    <3>2. n \in Nat /\ read \in Nat
      BY <1>1 DEF TypeOK
    <3>3. n = m.chunk
      BY <1>2, <2>3, <3>1, <3>2, LiveClose, WireInjective DEF Carries
    <3>. QED BY <3>3 DEF IInv, AcksTruthful
  <2>. QED BY <2>1, <2>2, <2>3
<1>9. /\ AcksTruthful' /\ CountersOK' /\ InOrder'
      /\ WindowRespected' /\ BufferedWasRead' /\ SpanBounded' /\ ReadHasRoom'
  BY DEF IInv, AcksTruthful, CountersOK, InOrder,
         WindowRespected, BufferedWasRead, SpanBounded, ReadHasRoom,
         HasReceived, Taken,
         Buffered
<1>. QED BY <1>6, <1>8, <1>9 DEF IInv

(* A step that leaves the sender's state alone keeps what it is to carry.   *)
LEMMA SenderUnchanged ==
    ASSUME IInv, UNCHANGED <<sndVars, queueVars, jobVars, data>>,
           \A m \in acks' : Carries(m),
           \A i \in 1 .. Len(rxChan') : Carries(rxChan'[i])
    PROVE  CarriersOK'
<1> USE DEF sndVars, queueVars, jobVars
<1>1. \A m : Carries(m)' <=> Carries(m)
  BY DEF Carries, Live
<1>2. Held' = Held /\ ackJobs' = ackJobs
  BY DEF Held
<1>3. \A m \in Held' \cup ackJobs' \cup data' \cup acks' : Carries(m)'
  BY <1>1, <1>2 DEF IInv, CarriersOK
<1>4. \A s \in Tracked' : s = Wire(sndBuf'[s].chunk) /\ Live(sndBuf'[s].chunk)
  BY DEF IInv, CarriersOK, Tracked
<1>. QED BY <1>3, <1>4 DEF CarriersOK, Carries, Live

LEMMA ReceiveDataStep ==
    ASSUME IInv, TypeOK', NEW m \in data, ReceiveData(m) PROVE IInv'
<1> USE DEF ReceiveData, netVars
<1>1. \A i \in 1 .. Len(rxChan') : Carries(rxChan'[i])
  <2>1. rxChan \in Seq(Message) /\ rxChan' = Append(rxChan, m)
    BY DEF IInv, TypeOK
  <2>2. \A i \in 1 .. Len(rxChan') :
            rxChan'[i] = IF i <= Len(rxChan) THEN rxChan[i] ELSE m
    BY <2>1
  <2>3. Carries(m)
    BY MessageCarries
  <2>. QED BY <2>1, <2>2, <2>3 DEF IInv, CarriersOK
<1>2. CarriersOK'
  BY <1>1, SenderUnchanged, MessageCarries
<1>3. /\ AcksTruthful' /\ CountersOK' /\ InOrder' /\ NoChunkLost'
      /\ WindowRespected' /\ BufferedWasRead' /\ SpanBounded' /\ ReadHasRoom'
  BY DEF IInv, AcksTruthful, CountersOK, InOrder, NoChunkLost, IsTracked,
         WindowRespected, BufferedWasRead, SpanBounded, ReadHasRoom,
         HasReceived, Taken,
         Buffered, sndVars
<1>. QED BY <1>2, <1>3 DEF IInv

LEMMA WriteStep ==
    ASSUME IInv, TypeOK', Write PROVE IInv'
<1> USE DEF Write, netVars
<1>1. delivered \in Seq(Chunk) /\ writing \in Seq(Chunk)
  BY DEF IInv, TypeOK
<1>2. /\ Len(delivered') = Len(delivered) + Len(writing) /\ writing' = <<>>
      /\ Taken' = Taken
  BY <1>1 DEF Taken
<1>3. \A i \in 1 .. Len(delivered') :
        delivered'[i] = IF i <= Len(delivered) THEN delivered[i]
                        ELSE writing[i - Len(delivered)]
  BY <1>1, <1>2
<1>4. InOrder'
  <2>1. ASSUME NEW i \in 1 .. Len(delivered') PROVE delivered'[i] = i - 1
    <3>1. CASE i <= Len(delivered)
      BY <3>1, <1>1, <1>3 DEF IInv, InOrder
    <3>2. CASE i > Len(delivered)
      <4>1. i - Len(delivered) \in 1 .. Len(writing)
        BY <1>1, <1>2, <3>2
      <4>. QED BY <1>1, <1>3, <3>2, <4>1 DEF IInv, InOrder
    <3>. QED BY <3>1, <3>2, <1>1
  <2>. QED BY <1>2, <2>1 DEF IInv, InOrder, sndVars
<1>5. CarriersOK'
  BY SenderUnchanged, MessageCarries DEF IInv, CarriersOK
<1>6. /\ AcksTruthful' /\ CountersOK' /\ NoChunkLost'
      /\ WindowRespected' /\ BufferedWasRead' /\ SpanBounded' /\ ReadHasRoom'
  BY <1>2 DEF IInv, AcksTruthful, CountersOK, NoChunkLost, IsTracked,
         WindowRespected, BufferedWasRead, SpanBounded, ReadHasRoom, HasReceived,
         Buffered, sndVars
<1>. QED BY <1>4, <1>5, <1>6 DEF IInv
-----------------------------------------------------------------------------
LEMMA TakenType ==
    ASSUME IInv
    PROVE  /\ Taken \in Nat /\ read \in Nat /\ Taken <= read
           /\ read <= Taken + Half /\ rcvNxt = Wire(Taken)
<1>1. Len(delivered) \in Nat /\ Len(writing) \in Nat /\ read \in Nat
  BY DEF IInv, TypeOK
<1>2. Taken <= read /\ read <= Taken + WindowSize + 1 + SendLimit
      /\ rcvNxt = Wire(Taken)
  BY DEF IInv, InOrder, SpanBounded, CountersOK
<1>. QED BY <1>1, <1>2, ARQDataAssumption, HalfFact DEF Taken

(* processReceivedDataBatch tells old from new by the sign of the uint16    *)
(* difference: it is right for every packet that can arrive.                *)
LEMMA Classified ==
    ASSUME IInv, NEW c \in Nat, Live(c)
    PROVE  /\ OldNumber(Wire(c)) <=> c < Taken
           /\ c >= Taken => Diff(Wire(c), rcvNxt) = c - Taken
<1>1. c < Taken + SeqMod /\ Taken < c + SeqMod
  BY TakenType, HalfFact, ARQDataAssumption DEF Live
<1>2. Diff(Wire(c), rcvNxt) = IF Taken <= c THEN c - Taken
                              ELSE c - Taken + SeqMod
  BY <1>1, TakenType, DiffWire
<1>. QED BY <1>2, TakenType, HalfFact, ARQDataAssumption DEF Live, OldNumber

(* A number of the window that is buffered holds the chunk it stands for.   *)
LEMMA BufferedAt ==
    ASSUME IInv, NEW i \in 0 .. SeqMod - 1, Wire(rcvNxt + i) \in Buffered
    PROVE  rcvBuf[Wire(rcvNxt + i)] = Taken + i /\ i <= WindowSize
           /\ Taken + i < read
<1> DEFINE c == rcvBuf[Wire(rcvNxt + i)]
<1>1. c \in Nat /\ Taken <= c /\ c <= Taken + WindowSize /\ c < read
      /\ Wire(rcvNxt + i) = Wire(c)
  <2>1. c \in Nat
    BY DEF IInv, TypeOK, Buffered, Chunk
  <2>. QED BY <2>1 DEF IInv, WindowRespected, BufferedWasRead
<1>2. Wire(c) = Wire(Taken + i)
  BY <1>1, TakenType, WireAdd
<1>3. Taken + i \in Int /\ c < Taken + i + SeqMod /\ Taken + i < c + SeqMod
  BY <1>1, TakenType, HalfFact, ARQDataAssumption
<1>4. c = Taken + i
  BY <1>1, <1>2, <1>3, WireInjective
<1>. QED BY <1>1, <1>4, TakenType, ARQDataAssumption

LEMMA ReceivedAt ==
    ASSUME IInv, NEW n \in Nat, rcvBuf[Wire(n)] = n
    PROVE  /\ Wire(n) \in Buffered /\ Wire(n) \in SeqNum
           /\ Taken <= n /\ n <= Taken + WindowSize
<1>1. Wire(n) \in Buffered
  BY WireType DEF Buffered, NoChunk
<1>. QED BY <1>1 DEF IInv, WindowRespected, Buffered

LEMMA ProcessReceivedStep ==
    ASSUME IInv, TypeOK', ProcessReceived PROVE IInv'
<1>0. PICK m, c : m = Head(rxChan) /\ c = m.chunk
  OBVIOUS
<1> DEFINE dropped == ~OldNumber(m.sn) /\ (BeyondWindow(m.sn) \/ NoRoom(m.sn))
           stored == ~OldNumber(m.sn) /\ ~dropped /\ m.sn \notin Buffered
<1>1. /\ rxChan # <<>> /\ rxChan' = Tail(rxChan)
      /\ rcvBuf' = IF stored THEN [rcvBuf EXCEPT ![m.sn] = c] ELSE rcvBuf
      /\ acks' = IF dropped THEN acks ELSE acks \cup {m}
      /\ UNCHANGED <<sndVars, queueVars, jobVars, data, rcvNxt, writing,
                     delivered>>
  BY <1>0 DEF ProcessReceived
<1>2. Taken' = Taken /\ read' = read /\ sndBuf' = sndBuf /\ reset' = reset
      /\ sndNxt' = sndNxt
  BY <1>1 DEF Taken, sndVars
<1>3. rxChan \in Seq(Message) /\ m \in Message /\ Carries(m)
  <2>1. rxChan \in Seq(Message)
    BY DEF IInv, TypeOK
  <2>2. 1 \in 1 .. Len(rxChan) /\ m = rxChan[1]
    BY <1>0, <1>1, <2>1
  <2>. QED BY <2>1, <2>2 DEF IInv, CarriersOK
<1>4. c \in Nat /\ m.sn = Wire(c) /\ m.sn \in SeqNum /\ Live(c) /\ c < read
  BY <1>0, <1>3, WireType DEF Message, Chunk, Carries, Live
<1>5. rcvBuf \in [SeqNum -> Chunk \cup {NoChunk}]
  BY DEF IInv, TypeOK
<1>6. ~dropped /\ ~OldNumber(m.sn) => Taken <= c /\ c <= Taken + WindowSize
  <2>. SUFFICES ASSUME ~dropped, ~OldNumber(m.sn)
               PROVE  Taken <= c /\ c <= Taken + WindowSize
    OBVIOUS
  <2>1. ~(c < Taken) /\ Diff(m.sn, rcvNxt) <= WindowSize
    <3>1. ~(Diff(m.sn, rcvNxt) > WindowSize)
      BY DEF BeyondWindow
    <3>2. c >= Taken
      BY <1>4, Classified, TakenType
    <3>3. Diff(m.sn, rcvNxt) = c - Taken
      BY <1>4, <3>2, Classified
    <3>. QED BY <1>4, <3>1, <3>2, <3>3, TakenType, ARQDataAssumption
  <2>2. Diff(m.sn, rcvNxt) = c - Taken
    BY <1>4, <2>1, Classified, TakenType
  <2>. QED BY <1>4, <2>1, <2>2, TakenType, ARQDataAssumption
<1>7. ASSUME NEW n \in Nat, HasReceived(n) PROVE HasReceived(n)'
  <2>1. CASE n < Taken
    BY <2>1, <1>2 DEF HasReceived
  <2>2. CASE rcvBuf[Wire(n)] = n
    BY <2>2, <1>1, <1>4, <1>5, ReceivedAt DEF HasReceived
  <2>. QED BY <1>7, <2>1, <2>2 DEF HasReceived
<1>8. ~dropped => HasReceived(c)'
  <2>1. CASE OldNumber(m.sn)
    BY <2>1, <1>2, <1>4, Classified DEF HasReceived
  <2>2. CASE stored
    BY <2>2, <1>1, <1>4, <1>5 DEF HasReceived
  <2>3. CASE ~dropped /\ ~OldNumber(m.sn) /\ m.sn \in Buffered
    <3>1. rcvBuf[Wire(c)] \in Nat /\ Wire(rcvBuf[Wire(c)]) = Wire(c)
          /\ Taken <= rcvBuf[Wire(c)] /\ rcvBuf[Wire(c)] <= Taken + WindowSize
      BY <1>4, <1>5, <2>3 DEF IInv, WindowRespected, Buffered, Chunk
    <3>2. Taken <= c /\ c <= Taken + WindowSize
      BY <1>6, <2>3
    <3>3. rcvBuf[Wire(c)] < c + SeqMod /\ c < rcvBuf[Wire(c)] + SeqMod
      BY <1>4, <3>1, <3>2, TakenType, HalfFact, ARQDataAssumption
    <3>4. rcvBuf[Wire(c)] = c
      BY <1>4, <3>1, <3>3, WireInjective
    <3>. QED BY <1>4, <1>7, <3>4 DEF HasReceived
  <2>. QED BY <2>1, <2>2, <2>3
<1>9. AcksTruthful'
  <2>1. \A x \in acks : x.chunk \in Nat
    BY DEF IInv, TypeOK, Message, Chunk
  <2>. QED BY <1>0, <1>1, <1>7, <1>8, <2>1 DEF IInv, AcksTruthful
<1>10. NoChunkLost'
  <2>1. \A n \in 0 .. read - 1 : n \in Nat
    OBVIOUS
  <2>. QED BY <1>2, <1>7, <2>1 DEF IInv, NoChunkLost, IsTracked
<1>11. WindowRespected' /\ BufferedWasRead'
  <2>1. CASE stored
    <3>1. rcvBuf'[m.sn] = c /\ \A s \in SeqNum \ {m.sn} : rcvBuf'[s] = rcvBuf[s]
      BY <1>1, <1>4, <1>5, <2>1
    <3>2. Taken <= c /\ c <= Taken + WindowSize
      BY <1>6, <2>1
    <3>. QED BY <1>2, <1>4, <3>1, <3>2
             DEF IInv, WindowRespected, BufferedWasRead, Buffered
  <2>2. CASE ~stored
    BY <1>1, <1>2, <2>2 DEF IInv, WindowRespected, BufferedWasRead, Buffered
  <2>. QED BY <2>1, <2>2
<1>12. CarriersOK'
  <2>1. \A x \in acks' : Carries(x)
    BY <1>1, <1>3, MessageCarries
  <2>2. \A i \in 1 .. Len(rxChan') : Carries(rxChan'[i])
    <3>1. \A i \in 1 .. Len(rxChan') :
            i + 1 \in 1 .. Len(rxChan) /\ rxChan'[i] = rxChan[i + 1]
      BY <1>1, <1>3
    <3>. QED BY <3>1 DEF IInv, CarriersOK
  <2>. QED BY <1>1, <2>1, <2>2, SenderUnchanged
<1>13. CountersOK' /\ InOrder' /\ SpanBounded' /\ ReadHasRoom'
  BY <1>1, <1>2 DEF IInv, CountersOK, InOrder, SpanBounded, ReadHasRoom, sndVars
<1>. QED BY <1>9, <1>10, <1>11, <1>12, <1>13 DEF IInv

(* writeLoop takes a run that ends within the window, and exactly the       *)
(* chunks that come next.                                                   *)
LEMMA TakeReadyStep ==
    ASSUME IInv, TypeOK', TakeReady PROVE IInv'
<1>1. PICK n \in 1 .. SeqMod :
        /\ Ready(n)
        /\ n = SeqMod \/ Wire(rcvNxt + n) \notin Buffered
        /\ writing' = [i \in 1 .. n |-> rcvBuf[Wire(rcvNxt + (i - 1))]]
        /\ rcvBuf' = WithoutRun(n)
        /\ rcvNxt' = Wire(rcvNxt + n)
  BY DEF TakeReady
<1>2. /\ writing = <<>>
      /\ UNCHANGED <<sndVars, queueVars, jobVars, netVars, rxChan, delivered>>
  BY DEF TakeReady
<1>3. /\ Taken \in Nat /\ Taken = Len(delivered) /\ n \in Nat
      /\ Len(delivered) \in Nat
  BY <1>2, TakenType, ARQDataAssumption DEF Taken, IInv, TypeOK
<1>4. \A i \in 0 .. n - 1 :
        /\ rcvBuf[Wire(rcvNxt + i)] = Taken + i
        /\ i <= WindowSize /\ Taken + i < read
  <2>1. \A i \in 0 .. n - 1 :
          i \in 0 .. SeqMod - 1 /\ Wire(rcvNxt + i) \in Buffered
    BY <1>1, ARQDataAssumption DEF Ready
  <2>. QED BY <2>1, BufferedAt
<1>5. /\ n <= WindowSize + 1 /\ n < SeqMod /\ Taken + n <= read
      /\ Wire(rcvNxt + n) \notin Buffered
  <2>1. n - 1 \in 0 .. n - 1
    BY <1>1, ARQDataAssumption
  <2>. QED BY <1>1, <1>3, <1>4, <2>1, TakenType, HalfFact, ARQDataAssumption
<1>6. Taken' = Taken + n /\ Len(delivered') = Taken
  <2>1. Len(writing') = n
    BY <1>1, <1>3
  <2>. QED BY <1>2, <1>3, <2>1 DEF Taken
<1>7. \A i \in 1 .. n : writing'[i] = Len(delivered') + i - 1
  <2>1. \A i \in 1 .. n : i - 1 \in 0 .. n - 1
    BY <1>3
  <2>2. \A i \in 1 .. n : writing'[i] = rcvBuf[Wire(rcvNxt + (i - 1))]
    BY <1>1
  <2>3. \A i \in 1 .. n : writing'[i] = Taken + (i - 1)
    BY <1>4, <2>1, <2>2
  <2>. QED BY <1>3, <1>6, <2>3
<1>8. InOrder'
  <2>1. Len(writing') = n /\ read' = read
    BY <1>1, <1>2, <1>3 DEF sndVars
  <2>2. \A i \in 1 .. Len(delivered') : delivered'[i] = i - 1
    BY <1>2 DEF IInv, InOrder
  <2>. QED BY <1>5, <1>6, <1>7, <2>1, <2>2 DEF InOrder
<1>9. ASSUME NEW s \in SeqNum
      PROVE  rcvBuf'[s] = IF Diff(s, rcvNxt) < n THEN NoChunk ELSE rcvBuf[s]
  BY <1>1 DEF WithoutRun
<1>10. ASSUME NEW s \in Buffered'
       PROVE  /\ s \in Buffered /\ s \in SeqNum /\ rcvBuf'[s] = rcvBuf[s]
              /\ s = Wire(rcvBuf[s])
              /\ Taken + n <= rcvBuf[s] /\ rcvBuf[s] <= Taken + n + WindowSize
              /\ rcvBuf[s] < read
  <2>1. s \in SeqNum /\ rcvBuf'[s] # NoChunk
    BY DEF Buffered
  <2>2. rcvBuf'[s] = rcvBuf[s] /\ ~(Diff(s, rcvNxt) < n) /\ s \in Buffered
    BY <1>9, <2>1 DEF Buffered
  <2> DEFINE c == rcvBuf[s]
  <2>3. c \in Nat /\ s = Wire(c) /\ Taken <= c /\ c <= Taken + WindowSize
        /\ c < read
    <3>1. c \in Nat
      BY <2>1, <2>2 DEF IInv, TypeOK, Buffered, Chunk
    <3>. QED BY <2>2, <3>1 DEF IInv, WindowRespected, BufferedWasRead
  <2>. HIDE DEF c
  <2>4. Diff(s, rcvNxt) = c - Taken
    <3>1. c < Taken + SeqMod /\ Taken < c + SeqMod
      BY <1>3, <2>3, HalfFact, ARQDataAssumption
    <3>. QED BY <1>3, <2>3, <3>1, DiffWire, TakenType
  <2>5. Taken + n <= c /\ c <= Taken + n + WindowSize
    BY <1>3, <2>2, <2>3, <2>4, ARQDataAssumption
  <2>. QED BY <2>1, <2>2, <2>3, <2>5 DEF c
<1>11. WindowRespected' /\ BufferedWasRead'
  <2>1. read' = read
    BY <1>2 DEF sndVars
  <2>. QED BY <1>6, <1>10, <2>1 DEF WindowRespected, BufferedWasRead
<1>12. ASSUME NEW x \in Nat, HasReceived(x) PROVE HasReceived(x)'
  <2>1. CASE x < Taken + n
    BY <1>6, <2>1 DEF HasReceived
  <2>2. CASE Taken + n <= x
    <3>1. rcvBuf[Wire(x)] = x
      BY <1>3, <1>12, <2>2 DEF HasReceived
    <3>2. x <= Taken + WindowSize /\ Wire(x) \in SeqNum
      BY <3>1, ReceivedAt
    <3>3. x < Taken + SeqMod /\ Taken < x + SeqMod
      BY <1>3, <2>2, <3>2, HalfFact, ARQDataAssumption
    <3>4. Diff(Wire(x), rcvNxt) = x - Taken
      BY <1>3, <2>2, <3>3, DiffWire, TakenType
    <3>5. rcvBuf'[Wire(x)] = x
      BY <1>3, <1>9, <2>2, <3>1, <3>2, <3>4
    <3>. QED BY <3>5 DEF HasReceived
  <2>. QED BY <2>1, <2>2, <1>3
<1>13. AcksTruthful'
  <2>1. \A m \in acks : m.chunk \in Nat
    BY DEF IInv, TypeOK, Message, Chunk
  <2>. QED BY <1>2, <1>12, <2>1 DEF IInv, AcksTruthful, netVars
<1>14. NoChunkLost'
  <2>1. \A x \in 0 .. read - 1 : x \in Nat
    OBVIOUS
  <2>. QED BY <1>2, <1>12, <2>1 DEF IInv, NoChunkLost, IsTracked, sndVars
<1>15. CountersOK'
  <2>1. rcvNxt' = Wire(Taken + n)
    BY <1>1, <1>3, TakenType, WireAdd
  <2>. QED BY <1>2, <1>6, <2>1 DEF IInv, CountersOK, sndVars
<1>16. SpanBounded' /\ ReadHasRoom'
  BY <1>2, <1>3, <1>6, TakenType, ARQDataAssumption
     DEF IInv, SpanBounded, ReadHasRoom, sndVars
<1>17. CarriersOK'
  BY <1>2, SenderUnchanged, MessageCarries DEF IInv, CarriersOK, netVars
<1>. QED BY <1>8, <1>11, <1>13, <1>14, <1>15, <1>16, <1>17 DEF IInv

(* With the window open, a chunk that the receiver cannot even buffer is    *)
(* still unacknowledged, and there are fewer than SendLimit of those.       *)
LEMMA ReadWithinSpan ==
    ASSUME IInv, WindowOpen, ~reset
    PROVE  read < Taken + WindowSize + 1 + SendLimit
<1> DEFINE low == Taken + WindowSize + 1
           far == low .. read - 1
           f == [n \in far |-> Wire(n)]
<1>1. low \in Nat /\ read \in Nat
  BY TakenType, ARQDataAssumption
<1>2. IsFiniteSet(Tracked) /\ Cardinality(Tracked) \in Nat
  <2>1. IsFiniteSet(SeqNum)
    <3>1. 0 \in Int /\ SeqMod - 1 \in Int
      BY ARQDataAssumption
    <3>. QED BY <3>1, FS_Interval DEF SeqNum
  <2>2. Tracked \in SUBSET SeqNum
    BY DEF Tracked
  <2>. QED BY <2>1, <2>2, FS_Subset, FS_CardinalityType
<1>3. \A n \in far : n \in Nat /\ Wire(n) \in Tracked
  <2>. SUFFICES ASSUME NEW n \in far PROVE n \in Nat /\ Wire(n) \in Tracked
    OBVIOUS
  <2>1. n \in Nat /\ n \in 0 .. read - 1 /\ n > Taken + WindowSize
    BY <1>1, TakenType, ARQDataAssumption
  <2>2. ~HasReceived(n)
    BY <2>1, TakenType, ReceivedAt, ARQDataAssumption DEF HasReceived
  <2>3. IsTracked(n)
    BY <2>1, <2>2 DEF IInv, NoChunkLost
  <2>. QED BY <2>1, <2>3, WireType DEF IsTracked, Tracked
<1>4. f \in Injection(far, Tracked)
  <2>1. f \in [far -> Tracked]
    BY <1>3
  <2>2. ASSUME NEW a \in far, NEW b \in far, f[a] = f[b] PROVE a = b
    <3>1. Wire(a) = Wire(b) /\ a \in Nat /\ b \in Nat
      BY <1>3, <2>2
    <3>2. a < b + SeqMod /\ b < a + SeqMod
      BY <1>1, <3>1, TakenType, HalfFact, ARQDataAssumption
    <3>. QED BY <3>1, <3>2, WireInjective
  <2>. QED BY <2>1, <2>2 DEF Injection, IsInjective
<1>5. Cardinality(far) <= Cardinality(Tracked)
  BY <1>2, <1>4, FS_Injection
<1>6. Cardinality(far) = IF low > read - 1 THEN 0 ELSE read - 1 - low + 1
  <2>. HIDE DEF low
  <2>. QED BY <1>1, FS_Interval
<1>7. Cardinality(Tracked) < SendLimit
  BY DEF WindowOpen
<1>. HIDE DEF low
<1>8. read < low + SendLimit
  BY <1>1, <1>2, <1>5, <1>6, <1>7, ARQDataAssumption
<1>. QED BY <1>8 DEF low

(* A read begins under an open window, or comes back with nothing.          *)
LEMMA ReadingStep ==
    ASSUME IInv, TypeOK', BeginRead \/ ReadTimeout PROVE IInv'
<1>1. /\ UNCHANGED <<read, sndNxt, sndBuf, pushing, reset, queueVars, jobVars,
                     netVars, rcvVars>>
      /\ BeginRead => ~reset /\ WindowOpen
      /\ ReadTimeout => reading' = FALSE
  BY DEF BeginRead, ReadTimeout
<1> USE DEF queueVars, jobVars, netVars, rcvVars
<1>2. \A m : Carries(m)' <=> Carries(m)
  BY <1>1 DEF Carries, Live
<1>3. CarriersOK'
  <2>1. /\ Held' = Held /\ ackJobs' = ackJobs /\ data' = data /\ acks' = acks
        /\ rxChan' = rxChan
    BY <1>1 DEF Held
  <2>2. \A m \in Held' \cup ackJobs' \cup data' \cup acks' : Carries(m)'
    BY <1>2, <2>1 DEF IInv, CarriersOK
  <2>3. \A s \in Tracked' :
          s = Wire(sndBuf'[s].chunk) /\ Live((sndBuf[s].chunk))'
    BY <1>1 DEF IInv, CarriersOK, Tracked, Live
  <2>. QED BY <1>2, <2>1, <2>2, <2>3 DEF IInv, CarriersOK, Carries, Live
<1>4. /\ AcksTruthful' /\ CountersOK' /\ InOrder' /\ NoChunkLost'
      /\ WindowRespected' /\ BufferedWasRead' /\ SpanBounded'
  BY <1>1 DEF IInv, AcksTruthful, CountersOK, InOrder, NoChunkLost, IsTracked,
              WindowRespected, BufferedWasRead, SpanBounded, HasReceived,
              Taken, Buffered
<1>5. ReadHasRoom'
  <2>1. Taken' = Taken
    BY <1>1 DEF Taken
  <2>2. BeginRead => read < Taken + WindowSize + 1 + SendLimit
    BY <1>1, ReadWithinSpan
  <2>. QED BY <1>1, <2>1, <2>2 DEF ReadHasRoom
<1>. QED BY <1>3, <1>4, <1>5 DEF IInv

LEMMA ReadStep ==
    ASSUME IInv, TypeOK', Read PROVE IInv'
<1>0. PICK e, p :
        /\ e = [chunk |-> read, dispatched |-> FALSE, retries |-> 0]
        /\ p = [kind |-> "DATA", sn |-> sndNxt, chunk |-> read]
  OBVIOUS
<1>1. /\ reading /\ ~reading' /\ NothingStale
      /\ sndBuf' = [sndBuf EXCEPT ![sndNxt] = e]
      /\ pushing' = {p} /\ sndNxt' = Wire(sndNxt + 1)
      /\ read' = read + 1
      /\ data' = {m \in data : Fresh(m)} /\ acks' = {m \in acks : Fresh(m)}
      /\ UNCHANGED <<reset, queueVars, jobVars, nacks, rcvVars>>
  BY <1>0 DEF Read
<1>2. /\ read \in Nat /\ sndNxt = Wire(read) /\ sndNxt \in SeqNum
      /\ sndBuf \in [SeqNum -> Entry \cup {NoEntry}]
  BY DEF IInv, TypeOK, CountersOK
<1>3. e.chunk = read /\ e # NoEntry /\ p.sn = sndNxt /\ p.chunk = read
  BY <1>0, <1>2, EntryFacts DEF NoEntry
<1>4. /\ sndBuf'[sndNxt] = e
      /\ \A s \in SeqNum \ {sndNxt} : sndBuf'[s] = sndBuf[s]
  BY <1>1, <1>2
<1>5. Taken' = Taken
  BY <1>1 DEF Taken, rcvVars
<1>6. \A m : m.chunk \in Nat /\ Carries(m) /\ Fresh(m) => Carries(m)'
  BY <1>1, <1>2, ARQDataAssumption DEF Carries, Live, Fresh
<1>7. Carries(p)'
  BY <1>1, <1>2, <1>3, ARQDataAssumption DEF Carries, Live
<1>8. \A m \in Held' \cup ackJobs' \cup data' \cup acks' : Carries(m)'
  <2>1. Held' \cup ackJobs' \subseteq Held \cup ackJobs \cup {p}
    BY <1>1 DEF Held, queueVars, jobVars
  <2>2. \A m \in Held \cup ackJobs \cup data' \cup acks' :
            m.chunk \in Nat /\ Fresh(m) /\ Carries(m)
    <3>1. \A m \in Held \cup ackJobs \cup data \cup acks : m.chunk \in Nat
      BY DEF IInv, TypeOK, Held, Packet, Message, Chunk
    <3>. QED BY <1>1, <3>1, MessageCarries DEF NothingStale
  <2>. QED BY <1>6, <1>7, <2>1, <2>2
<1>9. \A i \in 1 .. Len(rxChan') : Carries(rxChan[i])'
  <2>1. \A i \in 1 .. Len(rxChan) : rxChan[i].chunk \in Nat
    <3>1. rxChan \in Seq(Message)
      BY DEF IInv, TypeOK
    <3>2. \A i \in 1 .. Len(rxChan) : rxChan[i] \in Message
      BY <3>1
    <3>. QED BY <3>2 DEF Message, Chunk
  <2>2. \A i \in 1 .. Len(rxChan) : Carries(rxChan[i]) /\ Fresh(rxChan[i])
    BY <1>1 DEF IInv, CarriersOK, NothingStale
  <2>. QED BY <1>1, <1>2, <2>1, <2>2, ARQDataAssumption
           DEF rcvVars, Carries, Live, Fresh
<1>10. \A s \in Tracked' :
         s = Wire(sndBuf'[s].chunk) /\ Live((sndBuf[s].chunk))'
  <2>. SUFFICES ASSUME NEW s \in Tracked'
               PROVE  s = Wire(sndBuf'[s].chunk) /\ Live((sndBuf[s].chunk))'
    OBVIOUS
  <2>1. CASE s = sndNxt
    BY <1>1, <1>2, <1>3, <1>4, <2>1, ARQDataAssumption DEF Live
  <2>2. CASE s # sndNxt
    <3>1. s \in Tracked /\ sndBuf'[s] = sndBuf[s]
      BY <1>4, <2>2 DEF Tracked
    <3>2. sndBuf[s].chunk \in Nat
      BY <3>1, TrackedEntry DEF IInv, Entry, Chunk
    <3>3. /\ s = Wire(sndBuf[s].chunk) /\ Live(sndBuf[s].chunk)
          /\ Fresh(sndBuf[s])
      BY <1>1, <3>1 DEF IInv, CarriersOK, NothingStale
    <3>. QED BY <1>1, <1>2, <3>1, <3>2, <3>3, ARQDataAssumption DEF Live, Fresh
  <2>. QED BY <2>1, <2>2
<1>11. CarriersOK'
  BY <1>1, <1>8, <1>9, <1>10 DEF CarriersOK, rcvVars, Carries, Live
<1>12. \A n : HasReceived(n)' <=> HasReceived(n)
  BY <1>1, <1>5 DEF HasReceived, rcvVars
<1>13. NoChunkLost'
  <2>. SUFFICES ASSUME ~reset, NEW n \in 0 .. read
               PROVE  IsTracked(n)' \/ HasReceived(n)'
    BY <1>1, <1>2 DEF NoChunkLost
  <2>1. CASE n = read
    BY <1>2, <1>3, <1>4, <2>1 DEF IsTracked
  <2>2. CASE n # read
    <3>1. n \in 0 .. read - 1 /\ n \in Nat
      BY <1>2, <2>2
    <3>2. IsTracked(n) \/ HasReceived(n)
      BY <1>1, <3>1 DEF IInv, NoChunkLost
    <3>3. ASSUME IsTracked(n) PROVE IsTracked(n)'
      <4>1. Wire(n) \in Tracked /\ sndBuf[Wire(n)].chunk = n
        BY <3>1, <3>3, WireType DEF IsTracked, Tracked
      <4>2. read < n + Lag
        BY <1>1, <4>1 DEF NothingStale, Fresh
      <4>3. n < read + SeqMod /\ read < n + SeqMod
        BY <1>2, <3>1, <4>2, HalfFact, ARQDataAssumption
      <4>4. Wire(n) # sndNxt
        BY <1>2, <2>2, <3>1, <4>3, WireInjective
      <4>. QED BY <1>4, <3>1, <3>3, <4>4, WireType DEF IsTracked
    <3>. QED BY <1>12, <3>2, <3>3
  <2>. QED BY <2>1, <2>2
<1>14. AcksTruthful' /\ WindowRespected'
  BY <1>1, <1>5, <1>12
     DEF IInv, AcksTruthful, WindowRespected, Buffered, rcvVars
<1>15. BufferedWasRead'
  <2>1. \A s \in Buffered : rcvBuf[s] \in Nat
    BY DEF IInv, TypeOK, Buffered, Chunk
  <2>. QED BY <1>1, <1>2, <2>1 DEF IInv, BufferedWasRead, Buffered, rcvVars
<1>16. CountersOK'
  <2>1. Wire(sndNxt + 1) = Wire(read + 1)
    BY <1>2, WireAdd
  <2>. QED BY <1>1, <1>5, <2>1 DEF IInv, CountersOK, rcvVars
<1>17. InOrder'
  BY <1>1, <1>5, TakenType DEF IInv, InOrder, rcvVars
<1>18. SpanBounded' /\ ReadHasRoom'
  BY <1>1, <1>2, <1>5, TakenType, ARQDataAssumption
     DEF IInv, SpanBounded, ReadHasRoom
<1>. QED BY <1>11, <1>13, <1>14, <1>15, <1>16, <1>17, <1>18 DEF IInv
-----------------------------------------------------------------------------
LEMMA InvariantInit == Init => IInv
<1>. SUFFICES ASSUME Init PROVE IInv
  OBVIOUS
<1>1. TypeOK
  BY TypeInit
<1>2. Taken = 0 /\ Wire(0) = 0
  BY ARQDataAssumption DEF Init, Taken, Wire
<1>3. Tracked = {} /\ Buffered = {} /\ Held = {}
  BY DEF Init, Tracked, Buffered, Held
<1>. QED
  BY <1>1, <1>2, <1>3, ARQDataAssumption
     DEF Init, IInv, CarriersOK, AcksTruthful, CountersOK, InOrder,
         NoChunkLost, WindowRespected, BufferedWasRead, SpanBounded, ReadHasRoom

LEMMA InvariantStep == IInv /\ [Next]_vars => IInv'
<1>. SUFFICES ASSUME IInv, [Next]_vars PROVE IInv'
  OBVIOUS
<1>1. TypeOK'
  BY TypeStep DEF IInv
<1>2. CASE Read
  BY <1>1, <1>2, ReadStep
<1>3. CASE RetryExceeded
  BY <1>1, <1>3, RetryExceededStep
<1>4. ASSUME NEW m \in acks, ReceiveAck(m) PROVE IInv'
  BY <1>1, <1>4, ReceiveAckStep
<1>5. ASSUME NEW m \in data, ReceiveData(m) PROVE IInv'
  BY <1>1, <1>5, ReceiveDataStep
<1>6. CASE ProcessReceived
  BY <1>1, <1>6, ProcessReceivedStep
<1>7. CASE TakeReady
  BY <1>1, <1>7, TakeReadyStep
<1>8. CASE Write
  BY <1>1, <1>8, WriteStep
<1>9. CASE SenderActions
  BY <1>1, <1>9, SenderActionsStep
<1>10. CASE BeginRead \/ ReadTimeout
  BY <1>1, <1>10, ReadingStep
<1>. QED
  BY <1>2, <1>3, <1>4, <1>5, <1>6, <1>7, <1>8, <1>9, <1>10 DEF Next, SenderActions

(* The inductive invariant holds in every reachable state, whatever the     *)
(* window, the limits and the size of the number space.                     *)
THEOREM Invariant == Spec => []IInv
BY InvariantInit, InvariantStep, PTL DEF Spec

(* The receiving application sees the chunks in order, each once.           *)
THEOREM OrderCorrect == Spec => []InOrder
<1>1. IInv => InOrder
  BY DEF IInv
<1>. QED BY <1>1, Invariant, PTL

(* A chunk the sender no longer tracks is at the receiver.                  *)
THEOREM LossFree == Spec => []NoChunkLost
<1>1. IInv => NoChunkLost
  BY DEF IInv
<1>. QED BY <1>1, Invariant, PTL

(* The receive buffer holds only chunks of the window, each at its place.   *)
THEOREM WindowCorrect == Spec => []WindowRespected
<1>1. IInv => WindowRespected
  BY DEF IInv
<1>. QED BY <1>1, Invariant, PTL

(* The sender never runs more than both windows ahead of the application    *)
(* that receives.                                                           *)
THEOREM SpanCorrect == Spec => []SpanBounded
<1>1. IInv => SpanBounded
  BY DEF IInv
<1>. QED BY <1>1, Invariant, PTL
-----------------------------------------------------------------------------
LEMMA StreamInitial == Init => Stream!StreamInit
BY DEF Init, Stream!StreamInit

LEMMA WriteDelivers ==
    ASSUME IInv, IInv', Write PROVE Stream!Deliver
<1> DEFINE n == Len(writing)
<1>1. delivered \in Seq(Chunk) /\ writing \in Seq(Chunk)
      /\ delivered' \in Seq(Chunk) /\ read \in Nat
  BY DEF IInv, TypeOK
<1>2. n \in Nat /\ n # 0 /\ Len(delivered) \in Nat
  BY <1>1 DEF Write
<1>3. Len(delivered') = Len(delivered) + n
  BY <1>1 DEF Write
<1>4. Len(delivered) + n <= read
  BY DEF IInv, InOrder, Taken
<1>5. n \in 1 .. read - Len(delivered)
  BY <1>1, <1>2, <1>4
<1>6. delivered' = [i \in 1 .. Len(delivered) + n |-> i - 1]
  <2>1. \A i \in 1 .. Len(delivered') : delivered'[i] = i - 1
    BY DEF IInv, InOrder
  <2>2. delivered' \in [1 .. Len(delivered') -> Chunk]
    BY <1>1
  <2>. HIDE DEF n
  <2>. QED BY <1>3, <2>1, <2>2
<1>7. UNCHANGED <<read, reset, reading>>
  BY DEF Write, sndVars
<1>. QED BY <1>5, <1>6, <1>7 DEF Stream!Deliver

LEMMA StreamStep ==
    IInv /\ IInv' /\ [Next]_vars => [Stream!StreamNext]_(Stream!streamVars)
<1>. SUFFICES ASSUME IInv, IInv', [Next]_vars
             PROVE  \/ Stream!StreamNext
                    \/ UNCHANGED <<read, delivered, reset, reading>>
  BY DEF Stream!streamVars
<1>1. CASE Read
  BY <1>1 DEF Read, rcvVars, IInv, TypeOK, Stream!StreamNext, Stream!Send
<1>2. CASE RetryExceeded
  BY <1>2 DEF RetryExceeded, rcvVars, IInv, TypeOK, Stream!StreamNext,
              Stream!GiveUp
<1>3. CASE Write
  BY <1>3, WriteDelivers DEF Stream!StreamNext
<1>4. ASSUME \/ SenderActions \/ ProcessReceived \/ TakeReady
             \/ \E m \in acks : ReceiveAck(m)
             \/ \E m \in data : ReceiveData(m)
      PROVE  UNCHANGED <<read, delivered, reset, reading>>
  BY <1>4 DEF SenderActions, FirstPush, Pop, Transmit, RtxScan, RtxPush,
         RtxMark, AckCleanup, NackTake, NackPush, NackBase, NackScan,
         ProcessReceived, TakeReady, ReceiveAck, ReceiveData, vars, sndVars,
         queueVars, jobVars, netVars, rcvVars
<1>5. CASE BeginRead
  BY <1>5 DEF BeginRead, rcvVars, IInv, TypeOK, Stream!StreamNext, Stream!Take
<1>6. CASE ReadTimeout
  BY <1>6 DEF ReadTimeout, rcvVars, IInv, TypeOK, Stream!StreamNext,
              Stream!Withdraw
<1>. QED BY <1>1, <1>2, <1>3, <1>4, <1>5, <1>6 DEF Next, SenderActions

(* One direction of the stream implements the reliable stream: it can be    *)
(* used as if the two applications were joined by a pipe that may break.    *)
THEOREM ImplementsReliableStream == Spec => ImplementsStream
<1>1. Spec => []IInv
  BY Invariant
<1>. QED
  BY <1>1, StreamInitial, StreamStep, PTL
     DEF Spec, ImplementsStream, Stream!StreamSpec
=============================================================================
