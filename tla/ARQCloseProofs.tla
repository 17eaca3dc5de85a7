---------------------------- MODULE ARQCloseProofs ----------------------------
(****************************************************************************)
(* What the closing of a stream (ARQClose) keeps, for any amount of data,   *)
(* any sockets that fail and any timers that fire: the last word of the     *)
(* server, the whole download, and what a handshake has delivered.          *)
(*                                                                          *)
(* An action changes one end.  It first does something of its own, and then *)
(* applies operators that end things (EmitTerminal, FinalizeClose, ...).    *)
(* What these have in common is the relation Finishes(s, t); it is          *)
(* transitive, and one lemma shows that it keeps the invariant.             *)
(****************************************************************************)
EXTENDS ARQClose, FiniteSetTheorems, TLAPS

Fields ==
    {"isClient", "io", "wr", "read", "sndBuf", "rx", "rcvBuf", "rcvNxt", "got",
     "written", "flush", "late", "stopRead", "broken", "halfClosed", "reset",
     "deferred", "waiting", "tracked", "closeReadSent", "closeReadReceived",
     "closeReadAcked", "closeWriteSent", "closeWriteReceived",
     "closeWriteAcked", "rstSent", "rstReceived", "closed", "reason", "acks",
     "orphanRst"}

\* A client whose writer broke may read on after its CLOSE_READ.
Excused(s) == s.isClient /\ s.broken

\* The end can still take data and pass it on.
Able(q) == ~q.broken /\ ~q.closed /\ ~Resetting(q)

\* What holds of each end alone.  CLOSE_READ waits for the reader to be done;
\* what the writer has not in hand was written; who gave up writing is known.
Types(s) ==
    /\ DOMAIN s = Fields
    /\ s.io \in {"idle", "reading", "last", "done"}
    /\ s.wr \in {"idle", "writing", "empty", "again", "done"}
    /\ s.deferred \in {"none", "CLOSE_READ", "RST"}
    /\ s.waiting \in Terminal \cup {"none"}
    /\ s.tracked \cup s.acks \subseteq Terminal
    /\ s.reason \in {"none", "handshake", "disconnect", "reset"}
    /\ s.read \in Nat /\ s.rcvNxt \in Nat \ {0} /\ s.written \in Nat

Reads(s) ==
    /\ (s.deferred = "CLOSE_READ" \/ s.closeReadSent) /\ ~Excused(s) => s.io = "done"
    /\ ~s.isClient /\ s.closeReadSent => s.sndBuf = {}

Writes(s) ==
    /\ s.closeWriteSent => s.broken
    /\ s.broken => s.wr = "done" \/ s.closeWriteSent \/ s.closeWriteAcked
    /\ s.wr = "done" => s.closed \/ s.broken
    /\ s.written < s.rcvNxt
    /\ s.wr \in {"idle", "empty", "again"} => s.written = s.rcvNxt - 1
    /\ s.halfClosed => s.closeReadReceived
    /\ s.reason # "none" => s.closed

Sound(s) == Types(s) /\ Reads(s) /\ Writes(s)

\* What relates the end s that reads data to the end q that takes it.  No
\* chunk disappears between the buffers; CLOSE_READ follows the last of them.
InRange(s, q) ==
    /\ s.sndBuf \subseteq 1 .. s.read
    /\ q.rx \cup q.rcvBuf \cup q.got \subseteq 1 .. s.read
    /\ q.rcvNxt <= s.read + 1
    /\ \A n \in q.rcvBuf : n >= q.rcvNxt

Nowhere(s, q, n) ==
    n \notin s.sndBuf /\ n \notin q.got /\ ~s.closed /\ ~Resetting(s) /\ ~q.closeWriteSent
Unlost(s, q) ==
    /\ \A n \in 1 .. s.read : ~Nowhere(s, q, n)
    /\ s.closeReadSent /\ ~Excused(s) => q.closeWriteSent \/ 1 .. s.read \subseteq q.got
    /\ q.closeReadReceived => s.closeReadSent
    /\ \A n \in q.got : n < q.rcvNxt \/ n \in q.rcvBuf \/ ~Able(q)

\* Where the end of the data was concluded from, all of it was there.
Whole(s, q) ==
    /\ q.isClient /\ q.wr = "empty" /\ q.closeReadReceived /\ ~q.late /\ Able(q) =>
          s.read < q.rcvNxt
    /\ q.isClient /\ q.halfClosed /\ ~q.late /\ ~Resetting(q) => q.written = s.read
    /\ q.reason = "handshake" /\ ~q.broken /\ ~Resetting(q) /\ ~Excused(s) =>
          q.closeReadReceived /\ q.written = s.read

Passes(s, q) == InRange(s, q) /\ Unlost(s, q) /\ Whole(s, q)

CloseInv ==
    /\ setting \in Settings
    /\ arq = [e \in Ends |-> arq[e]]
    /\ \A e \in Ends :
        /\ Sound(arq[e]) /\ arq[e].isClient = (e = "client")
        /\ arq[e].read <= setting.data[e]
        /\ Passes(arq[e], arq[Peer(e)])
-----------------------------------------------------------------------------
(* The operators that end things.                                           *)

\* What all of them do to an end: nothing to what was read and written; a
\* buffer is emptied only at an end that is finished with it.
Finishes(s, t) ==
    /\ t.isClient = s.isClient /\ t.io = s.io /\ t.wr = s.wr /\ t.read = s.read
    /\ t.rx = s.rx /\ t.got = s.got /\ t.rcvNxt = s.rcvNxt
    /\ t.written = s.written /\ t.late = s.late /\ t.halfClosed = s.halfClosed
    /\ t.closeReadReceived = s.closeReadReceived
    /\ (s.broken => t.broken) /\ (s.closed => t.closed)
    /\ (s.closeReadSent => t.closeReadSent) /\ (s.closeWriteSent => t.closeWriteSent)
    /\ Resetting(s) => Resetting(t)
    /\ t.sndBuf = s.sndBuf \/ (t.sndBuf = {} /\ (t.closed \/ Resetting(t)))
    /\ t.rcvBuf = s.rcvBuf \/ (t.rcvBuf = {} /\ ~Able(t))
    /\ t.closeReadSent /\ ~s.closeReadSent =>
          \/ Excused(t)
          \/ s.io = "done" /\ s.sndBuf = {} /\ ~s.closed /\ ~Resetting(s)
    /\ t.reason = "handshake" /\ s.reason # "handshake" /\ ~t.broken /\ ~Resetting(t) =>
          s.closeReadReceived /\ s.rcvBuf = {} /\ s.wr # "writing" /\ ~s.closed

LEMMA FinishesSame == ASSUME NEW s PROVE Finishes(s, s)
BY DEF Finishes

LEMMA FinishesTwice ==
    ASSUME NEW s, NEW u, NEW t, Finishes(s, u), Finishes(u, t)
    PROVE  Finishes(s, t)
BY DEF Finishes, Able, Excused

LEMMA FinalizeCloseFinishes ==
    ASSUME NEW s, Sound(s), NEW why \in {"disconnect", "reset"}
    PROVE  Sound(FinalizeClose(s, why)) /\ Finishes(s, FinalizeClose(s, why))
<1> DEFINE t == FinalizeClose(s, why)
<1>1. CASE s.closed
  BY <1>1, FinishesSame DEF FinalizeClose
<1>2. CASE ~s.closed
  <2>1. Types(t)
    BY <1>2 DEF FinalizeClose, ClearAllQueues, Sound, Types, Fields, Terminal
  <2>2. Reads(t) /\ Writes(t)
    BY <1>2 DEF FinalizeClose, ClearAllQueues, Sound, Types, Reads, Writes, Excused, Fields
  <2>3. Finishes(s, t)
    BY <1>2 DEF FinalizeClose, ClearAllQueues, Sound, Types, Finishes, Fields, Able, Excused, Resetting
  <2> QED
    BY <2>1, <2>2, <2>3 DEF Sound
<1> QED
  BY <1>1, <1>2

LEMMA HandshakeFinishes ==
    ASSUME NEW s, Sound(s), RemoteEOFComplete(s)
    PROVE  LET t == FinalizeClose(s, "handshake") IN Sound(t) /\ Finishes(s, t)
<1> DEFINE t == FinalizeClose(s, "handshake")
<1>1. CASE s.closed
  BY <1>1, FinishesSame DEF FinalizeClose
<1>2. CASE ~s.closed
  <2>1. Types(t)
    BY <1>2 DEF FinalizeClose, ClearAllQueues, Sound, Types, Fields, Terminal
  <2>2. Reads(t) /\ Writes(t)
    BY <1>2 DEF FinalizeClose, ClearAllQueues, Sound, Types, Reads, Writes, Excused, Fields
  <2>3. Finishes(s, t)
    BY <1>2 DEF FinalizeClose, ClearAllQueues, Sound, Types, Finishes, Fields, Able, Excused,
                Resetting, RemoteEOFComplete, ReceiveDrained, LocalWritePending
  <2> QED
    BY <2>1, <2>2, <2>3 DEF Sound
<1> QED
  BY <1>1, <1>2

LEMMA TryFinalizeFinishes ==
    ASSUME NEW s, Sound(s)
    PROVE  Sound(TryFinalizeRemoteEOF(s)) /\ Finishes(s, TryFinalizeRemoteEOF(s))
BY HandshakeFinishes, FinalizeCloseFinishes, FinishesSame DEF TryFinalizeRemoteEOF

\* CLOSE_READ is the last word of an end that has read all it will read, or
\* of a client whose writer broke.
MayCloseRead(s) == Excused(s) \/ (s.io = "done" /\ s.sndBuf = {})

LEMMA MarkSentFinishes ==
    ASSUME NEW s, Sound(s), ~s.closed, ~Resetting(s), NEW p \in Terminal,
           p = "CLOSE_READ" => MayCloseRead(s)
    PROVE  Sound(MarkSent(s, p)) /\ Finishes(s, MarkSent(s, p))
<1>1. CASE p = "CLOSE_READ"
  <2> DEFINE u == [s EXCEPT !.closeReadSent = TRUE, !.reset = FALSE]
  <2>1. Sound(u)
    <3>1. Types(u)
      BY DEF Sound, Types, Fields
    <3>2. Reads(u) /\ Writes(u)
      BY <1>1 DEF Sound, Types, Reads, Writes, Excused, MayCloseRead, Fields
    <3> QED
      BY <3>1, <3>2 DEF Sound
  <2>2. Finishes(s, u)
    BY <1>1 DEF Sound, Types, Finishes, Fields, Able, Excused, MayCloseRead, Resetting
  <2>3. MarkSent(s, p) = TryFinalizeRemoteEOF(u)
    BY <1>1 DEF MarkSent
  <2> HIDE DEF u
  <2> QED
    BY <2>1, <2>2, <2>3, TryFinalizeFinishes, FinishesTwice
<1>2. CASE p = "CLOSE_WRITE"
  <2> DEFINE t == [s EXCEPT !.closeWriteSent = TRUE, !.broken = TRUE, !.rcvBuf = {},
                            !.reset = @ /\ ~s.closeReadReceived]
  <2>1. Types(t)
    BY DEF Sound, Types, Fields
  <2>2. Reads(t) /\ Writes(t)
    BY DEF Sound, Types, Reads, Writes, Excused, Fields
  <2>3. Finishes(s, t)
    BY DEF Sound, Types, Finishes, Fields, Able, Excused, Resetting
  <2>4. MarkSent(s, p) = t
    BY <1>2 DEF MarkSent
  <2> QED
    BY <2>1, <2>2, <2>3, <2>4 DEF Sound
<1>3. CASE p = "RST"
  <2> DEFINE t == [ClearAllQueues(s) EXCEPT !.rstSent = TRUE, !.reset = TRUE]
  <2>1. Types(t)
    BY DEF Sound, Types, Fields, ClearAllQueues, Terminal
  <2>2. Reads(t) /\ Writes(t)
    BY DEF Sound, Types, Reads, Writes, Excused, Fields, ClearAllQueues
  <2>3. Finishes(s, t)
    BY DEF Sound, Types, Finishes, Fields, Able, Excused, Resetting, ClearAllQueues
  <2>4. MarkSent(s, p) = t
    BY <1>3 DEF MarkSent
  <2> QED
    BY <2>1, <2>2, <2>3, <2>4 DEF Sound
<1> QED
  BY <1>1, <1>2, <1>3 DEF Terminal

LEMMA EmitTerminalFinishes ==
    ASSUME NEW s, Sound(s), NEW p \in Terminal, p = "CLOSE_READ" => MayCloseRead(s)
    PROVE  Sound(EmitTerminal(s, p)) /\ Finishes(s, EmitTerminal(s, p))
<1> DEFINE stopped == [s EXCEPT !.stopRead = TRUE, !.deferred = "none"]
           waits == [stopped EXCEPT !.waiting = p]
           sent == MarkSent(waits, p)
           t == [sent EXCEPT !.tracked = @ \cup {p}]
<1>1. Sound(stopped) /\ Finishes(s, stopped)
  <2>1. Types(stopped)
    BY DEF Sound, Types, Fields
  <2>2. Reads(stopped) /\ Writes(stopped)
    BY DEF Sound, Types, Reads, Writes, Excused, Fields
  <2>3. Finishes(s, stopped)
    BY DEF Sound, Types, Finishes, Fields, Able, Excused, Resetting
  <2> QED
    BY <2>1, <2>2, <2>3 DEF Sound
<1>2. CASE s.closed
  BY <1>2, FinishesSame DEF EmitTerminal
<1>3. CASE ~s.closed /\ Refused(s, p)
  BY <1>1, <1>3 DEF EmitTerminal
<1>4. CASE ~s.closed /\ ~Refused(s, p)
  <2>1. Sound(waits) /\ Finishes(s, waits)
    <3>1. Types(waits)
      BY DEF Sound, Types, Fields
    <3>2. Reads(waits) /\ Writes(waits)
      BY DEF Sound, Types, Reads, Writes, Excused, Fields
    <3>3. Finishes(s, waits)
      BY DEF Sound, Types, Finishes, Fields, Able, Excused, Resetting
    <3> QED
      BY <3>1, <3>2, <3>3 DEF Sound
  <2>2. ~waits.closed /\ ~Resetting(waits) /\ (p = "CLOSE_READ" => MayCloseRead(waits))
    BY <1>4 DEF Refused, Resetting, MayCloseRead, Excused, Sound, Types, Fields
  <2>3. Sound(sent) /\ Finishes(waits, sent)
    <3> HIDE DEF waits
    <3> QED
      BY <2>1, <2>2, MarkSentFinishes
  <2>4. Sound(t) /\ Finishes(sent, t)
    <3> HIDE DEF sent
    <3>1. Types(t)
      BY <2>3 DEF Sound, Types, Fields
    <3>2. Reads(t) /\ Writes(t)
      BY <2>3 DEF Sound, Types, Reads, Writes, Excused, Fields
    <3>3. Finishes(sent, t)
      BY <2>3 DEF Sound, Types, Finishes, Fields, Able, Excused, Resetting
    <3> QED
      BY <3>1, <3>2, <3>3 DEF Sound
  <2>5. EmitTerminal(s, p) = t
    BY <1>4 DEF EmitTerminal
  <2> HIDE DEF waits, sent, t
  <2>6. Finishes(s, sent)
    BY <2>1, <2>3, FinishesTwice
  <2> QED
    BY <2>3, <2>4, <2>5, <2>6, FinishesTwice
<1> QED
  BY <1>2, <1>3, <1>4

\* Setting flags that no part of the invariant looks at changes nothing.
LEMMA Prepared ==
    ASSUME NEW s, Sound(s), NEW r \in BOOLEAN, NEW v \in {s, [s EXCEPT !.stopRead = TRUE]},
           NEW d \in {"none", "CLOSE_READ", "RST"},
           d = "CLOSE_READ" => s.io = "done" \/ Excused(s)
    PROVE  LET t == [v EXCEPT !.reset = r, !.deferred = d]
               u == [v EXCEPT !.deferred = d]
           IN  Sound(t) /\ Finishes(s, t) /\ Sound(u) /\ Finishes(s, u)
<1> DEFINE t == [v EXCEPT !.reset = r, !.deferred = d]
           u == [v EXCEPT !.deferred = d]
<1>1. Types(t) /\ Types(u)
  BY DEF Sound, Types, Fields
<1>2. Reads(t) /\ Reads(u)
  BY DEF Sound, Types, Reads, Excused, Fields
<1>3. Writes(t) /\ Writes(u)
  BY DEF Sound, Types, Writes, Fields
<1>4. Finishes(s, t)
  BY DEF Sound, Types, Finishes, Fields, Able, Excused, Resetting
<1>5. Finishes(s, u)
  BY DEF Sound, Types, Finishes, Fields, Able, Excused, Resetting
<1> QED
  BY <1>1, <1>2, <1>3, <1>4, <1>5 DEF Sound

LEMMA CloseResetFinishes ==
    ASSUME NEW s, Sound(s)
    PROVE  Sound(CloseReset(s)) /\ Finishes(s, CloseReset(s))
<1>1. CASE s.closed \/ AlreadyResetting(s)
  BY <1>1, FinishesSame DEF CloseReset
<1>2. CASE ~(s.closed \/ AlreadyResetting(s))
  <2> DEFINE u == [s EXCEPT !.reset = TRUE, !.deferred = "none"]
  <2>1. Sound(u) /\ Finishes(s, u)
    BY Prepared
  <2>2. CloseReset(s) = EmitTerminal(u, "RST")
    BY <1>2 DEF CloseReset
  <2> HIDE DEF u
  <2>3. Sound(EmitTerminal(u, "RST")) /\ Finishes(u, EmitTerminal(u, "RST"))
    BY <2>1, EmitTerminalFinishes DEF Terminal
  <2> QED
    BY <2>1, <2>2, <2>3, FinishesTwice
<1> QED
  BY <1>1, <1>2

LEMMA SettleFinishes ==
    ASSUME NEW s, Sound(s), NEW late \in BOOLEAN
    PROVE  LET t == SettleTerminalDrain(s, late) IN Sound(t) /\ Finishes(s, t)
<1> DEFINE p == IF s.sndBuf = {} THEN s.deferred ELSE "RST"
           u == [s EXCEPT !.deferred = "none"]
<1>1. CASE s.closed \/ s.deferred = "none" \/ (s.sndBuf # {} /\ ~late)
  BY <1>1, FinishesSame DEF SettleTerminalDrain
<1>2. CASE ~(s.closed \/ s.deferred = "none" \/ (s.sndBuf # {} /\ ~late))
  <2>1. Sound(u) /\ Finishes(s, u)
    BY Prepared
  <2>2. SettleTerminalDrain(s, late)
          = IF p = "RST" THEN CloseReset(u) ELSE EmitTerminal(u, p)
    BY <1>2 DEF SettleTerminalDrain
  <2>3. CASE p = "RST"
    <3> HIDE DEF u
    <3>1. Sound(CloseReset(u)) /\ Finishes(u, CloseReset(u))
      BY <2>1, CloseResetFinishes
    <3> QED
      BY <2>1, <2>2, <2>3, <3>1, FinishesTwice
  <2>4. CASE p # "RST"
    <3>1. p = "CLOSE_READ" /\ MayCloseRead(u)
      BY <1>2, <2>4 DEF Sound, Types, Reads, Fields, MayCloseRead, Excused
    <3> HIDE DEF u
    <3>2. Sound(EmitTerminal(u, "CLOSE_READ")) /\ Finishes(u, EmitTerminal(u, "CLOSE_READ"))
      BY <2>1, <3>1, EmitTerminalFinishes DEF Terminal
    <3> QED
      BY <2>1, <2>2, <3>1, <3>2, FinishesTwice
  <2> QED
    BY <2>3, <2>4
<1> QED
  BY <1>1, <1>2

LEMMA DeferTerminalFinishes ==
    ASSUME NEW s, Sound(s), NEW p \in {"CLOSE_READ", "RST"},
           p = "CLOSE_READ" => s.io = "done" \/ Excused(s)
    PROVE  Sound(DeferTerminal(s, p)) /\ Finishes(s, DeferTerminal(s, p))
<1>1. CASE s.closed
  BY <1>1, FinishesSame DEF DeferTerminal
<1>2. CASE ~s.closed
  <2> DEFINE u == [s EXCEPT !.stopRead = TRUE, !.deferred = p]
             v == [s EXCEPT !.stopRead = TRUE]
  <2>1. u = [v EXCEPT !.deferred = p]
    OBVIOUS
  <2>2. Sound(u) /\ Finishes(s, u)
    BY <2>1, Prepared
  <2>3. DeferTerminal(s, p) = SettleTerminalDrain(u, FALSE)
    BY <1>2 DEF DeferTerminal
  <2> HIDE DEF u
  <2> DEFINE t == SettleTerminalDrain(u, FALSE)
  <2>4. Sound(t) /\ Finishes(u, t)
    BY <2>2, SettleFinishes
  <2> QED
    BY <2>2, <2>3, <2>4, FinishesTwice
<1> QED
  BY <1>1, <1>2

LEMMA ResetAfterDrainFinishes ==
    ASSUME NEW s, Sound(s)
    PROVE  Sound(CloseResetAfterDrain(s)) /\ Finishes(s, CloseResetAfterDrain(s))
<1>1. CASE s.closed \/ AlreadyResetting(s) \/ s.sndBuf = {}
  BY <1>1, CloseResetFinishes DEF CloseResetAfterDrain
<1>2. CASE ~(s.closed \/ AlreadyResetting(s) \/ s.sndBuf = {})
  <2> DEFINE u == [s EXCEPT !.reset = TRUE]
             w == [s EXCEPT !.reset = TRUE, !.deferred = s.deferred]
  <2>1. u = w
    <3>1. DOMAIN u = Fields /\ DOMAIN w = Fields
      BY DEF Sound, Types
    <3>2. \A f \in Fields : u[f] = w[f]
      BY DEF Sound, Types, Fields
    <3>3. u = [f \in Fields |-> u[f]] /\ w = [f \in Fields |-> w[f]]
      BY <3>1
    <3> QED
      BY <3>2, <3>3
  <2>2. Sound(u) /\ Finishes(s, u)
    <3>1. s.deferred \in {"none", "CLOSE_READ", "RST"}
          /\ (s.deferred = "CLOSE_READ" => s.io = "done" \/ Excused(s))
      BY DEF Sound, Types, Reads
    <3> QED
      BY <2>1, <3>1, Prepared
  <2>3. CloseResetAfterDrain(s) = DeferTerminal(u, "RST")
    BY <1>2 DEF CloseResetAfterDrain
  <2> HIDE DEF u
  <2>4. Sound(DeferTerminal(u, "RST")) /\ Finishes(u, DeferTerminal(u, "RST"))
    BY <2>2, DeferTerminalFinishes
  <2> QED
    BY <2>2, <2>3, <2>4, FinishesTwice
<1> QED
  BY <1>1, <1>2

LEMMA AfterBreakFinishes ==
    ASSUME NEW s, Sound(s)
    PROVE  LET t == CloseReadAfterWriterBreak(s) IN Sound(t) /\ Finishes(s, t)
<1>1. Excused(s) => MayCloseRead(s)
  BY DEF MayCloseRead
<1>2. Excused(s) => LET t == DeferTerminal(s, "CLOSE_READ") IN Sound(t) /\ Finishes(s, t)
  BY DeferTerminalFinishes
<1>3. Excused(s) => LET t == EmitTerminal(s, "CLOSE_READ") IN Sound(t) /\ Finishes(s, t)
  BY <1>1, EmitTerminalFinishes DEF Terminal
<1> QED
  BY <1>2, <1>3, FinishesSame DEF CloseReadAfterWriterBreak, Excused

LEMMA RefuseDataFinishes ==
    ASSUME NEW s, Sound(s)
    PROVE  Sound(RefuseData(s)) /\ Finishes(s, RefuseData(s))
BY EmitTerminalFinishes, FinishesSame DEF RefuseData, Terminal
-----------------------------------------------------------------------------
(* Both directions of the stream survive what the operators do to one end.  *)

LEMMA FinishesKeeps ==
    ASSUME NEW s, NEW q, NEW t, Sound(s), Sound(q), Sound(t), Finishes(s, t),
           Passes(s, q), Passes(q, s)
    PROVE  Passes(t, q) /\ Passes(q, t)
<1> USE DEF Sound, Types
<1>1. InRange(t, q) /\ InRange(q, t)
  BY DEF Passes, InRange, Finishes
<1>2. Unlost(t, q)
  <2>1. \A n \in 1 .. t.read : ~Nowhere(t, q, n)
    BY DEF Passes, Unlost, Nowhere, Finishes
  <2>2. t.closeReadSent /\ ~Excused(t) => q.closeWriteSent \/ 1 .. t.read \subseteq q.got
    <3>1. CASE s.closeReadSent
      BY <3>1 DEF Passes, Unlost, Finishes, Excused
    <3>2. CASE t.closeReadSent /\ ~s.closeReadSent /\ ~Excused(t)
      BY <3>2 DEF Passes, Unlost, Nowhere, Finishes
    <3> QED
      BY <3>1, <3>2
  <2>3. q.closeReadReceived => t.closeReadSent
    BY DEF Passes, Unlost, Finishes
  <2>4. \A n \in q.got : n < q.rcvNxt \/ n \in q.rcvBuf \/ ~Able(q)
    BY DEF Passes, Unlost
  <2> QED
    BY <2>1, <2>2, <2>3, <2>4 DEF Unlost
<1>3. Unlost(q, t)
  <2>1. \A n \in 1 .. q.read : ~Nowhere(q, t, n)
    BY DEF Passes, Unlost, Nowhere, Finishes
  <2>2. q.closeReadSent /\ ~Excused(q) => t.closeWriteSent \/ 1 .. q.read \subseteq t.got
    BY DEF Passes, Unlost, Finishes
  <2>3. t.closeReadReceived => q.closeReadSent
    BY DEF Passes, Unlost, Finishes
  <2>4. \A n \in t.got : n < t.rcvNxt \/ n \in t.rcvBuf \/ ~Able(t)
    BY DEF Passes, Unlost, Finishes, Able
  <2> QED
    BY <2>1, <2>2, <2>3, <2>4 DEF Unlost
<1>4. Whole(t, q)
  BY DEF Passes, Whole, Finishes, Excused
<1>5. Whole(q, t)
  <2>1. t.isClient /\ t.wr = "empty" /\ t.closeReadReceived /\ ~t.late /\ Able(t) =>
          q.read < t.rcvNxt
    BY DEF Passes, Whole, Finishes, Able
  <2>2. t.isClient /\ t.halfClosed /\ ~t.late /\ ~Resetting(t) => t.written = q.read
    BY DEF Passes, Whole, Finishes
  <2>3. ASSUME t.reason = "handshake", ~t.broken, ~Resetting(t), ~Excused(q)
        PROVE  t.closeReadReceived /\ t.written = q.read
    <3>1. CASE s.reason = "handshake"
      BY <2>3, <3>1 DEF Passes, Whole, Finishes
    <3>2. CASE s.reason # "handshake"
      <4>1. s.closeReadReceived /\ s.rcvBuf = {} /\ s.wr # "writing" /\ ~s.closed
            /\ ~s.broken /\ ~Resetting(s)
        BY <2>3, <3>2 DEF Finishes
      <4>2. 1 .. q.read \subseteq s.got
        BY <2>3, <4>1 DEF Passes, Unlost, Writes
      <4>3. \A n \in 1 .. q.read : n < s.rcvNxt
        BY <4>1, <4>2 DEF Passes, Unlost, Able
      <4>4. q.read < s.rcvNxt
        BY <4>3 DEF Passes, InRange
      <4>5. s.written = s.rcvNxt - 1
        BY <4>1 DEF Writes
      <4>6. s.rcvNxt <= q.read + 1
        BY DEF Passes, InRange
      <4> QED
        BY <4>1, <4>4, <4>5, <4>6 DEF Finishes
    <3> QED
      BY <3>1, <3>2
  <2> QED
    BY <2>1, <2>2, <2>3 DEF Whole
<1> QED
  BY <1>1, <1>2, <1>3, <1>4, <1>5 DEF Passes
-----------------------------------------------------------------------------
(* Steps.  In each, "s" is the moving end after what the action does itself,*)
(* and "t" what the operators make of it.                                   *)

LEMMA Pair ==
    ASSUME CloseInv, NEW e \in Ends
    PROVE  /\ Peer(e) \in Ends /\ Peer(e) # e /\ Peer(Peer(e)) = e
           /\ Sound(arq[e]) /\ Sound(arq[Peer(e)])
           /\ arq[e].isClient = (e = "client") /\ arq[Peer(e)].isClient = (e # "client")
           /\ arq[e].read <= setting.data[e]
           /\ Passes(arq[e], arq[Peer(e)]) /\ Passes(arq[Peer(e)], arq[e])
<1>1. Peer(e) \in Ends /\ Peer(e) # e /\ Peer(Peer(e)) = e
  BY DEF Ends, Peer
<1>2. (Peer(e) = "client") = (e # "client")
  BY DEF Ends, Peer
<1> QED
  BY <1>1, <1>2 DEF CloseInv

\* The end has become s, which the peer can live with.
Fits(e, s) ==
    /\ Sound(s) /\ s.isClient = (e = "client") /\ s.read <= setting.data[e]
    /\ Passes(s, arq[Peer(e)]) /\ Passes(arq[Peer(e)], s)

LEMMA OneEnd ==
    ASSUME CloseInv, NEW e \in Ends, NEW s, NEW t, Fits(e, s),
           Sound(t), Finishes(s, t), Becomes(e, t), setting' = setting
    PROVE  CloseInv'
<1>1. Passes(t, arq[Peer(e)]) /\ Passes(arq[Peer(e)], t)
  BY Pair, FinishesKeeps DEF Fits
<1>2. t.isClient = (e = "client") /\ t.read <= setting.data[e]
  BY DEF Fits, Finishes
<1>3. arq' = [x \in Ends |-> IF x = e THEN t ELSE arq[x]]
  BY DEF Becomes, CloseInv
<1>4. arq'[e] = t /\ arq'[Peer(e)] = arq[Peer(e)]
  BY <1>3, Pair
<1>5. \A x \in Ends : x = e \/ x = Peer(e)
  BY DEF Ends, Peer
<1>6. ASSUME NEW x \in Ends
      PROVE  /\ Sound(arq'[x]) /\ arq'[x].isClient = (x = "client")
             /\ arq'[x].read <= setting.data[x]
             /\ Passes(arq'[x], arq'[Peer(x)])
  <2>1. CASE x = e
    BY <1>1, <1>2, <1>4, <2>1
  <2>2. CASE x = Peer(e)
    <3>1. Peer(x) = e
      BY <2>2, Pair
    <3> QED
      BY <1>1, <1>4, <2>2, <3>1 DEF CloseInv
  <2> QED
    BY <1>5, <2>1, <2>2
<1>7. arq' = [x \in Ends |-> arq'[x]]
  BY <1>3
<1> QED
  BY <1>6, <1>7 DEF CloseInv

\* A step that only ends things, or touches what the invariant leaves open.
LEMMA Ending ==
    ASSUME CloseInv, NEW e \in Ends, NEW t, Sound(t), Finishes(arq[e], t),
           Becomes(e, t), setting' = setting
    PROVE  CloseInv'
<1>1. Fits(e, arq[e])
  BY Pair DEF Fits
<1> QED
  BY <1>1, OneEnd

LEMMA ArqInit == Init => CloseInv
<1> SUFFICES ASSUME Init PROVE CloseInv
  OBVIOUS
<1>1. setting \in Settings /\ setting.data \in [Ends -> 0 .. MaxData]
  BY CloseAssumption DEF Init
<1>2. arq = [e \in Ends |-> arq[e]]
  BY DEF Init
<1>3. ASSUME NEW e \in Ends
      PROVE  Sound(arq[e]) /\ arq[e].isClient = (e = "client") /\ arq[e].read = 0
  BY DEF Init, Sound, Types, Reads, Writes, Fields, Terminal, Excused
<1>4. ASSUME NEW e \in Ends PROVE arq[e].read <= setting.data[e]
  BY <1>1, <1>3, <1>4
<1>5. ASSUME NEW e \in Ends, NEW f \in Ends PROVE Passes(arq[e], arq[f])
  BY DEF Init, Passes, InRange, Unlost, Whole, Nowhere, Able
<1>6. \A e \in Ends : Peer(e) \in Ends
  BY DEF Ends, Peer
<1> QED
  BY <1>1, <1>2, <1>3, <1>4, <1>5, <1>6 DEF CloseInv

LEMMA IoCheckStep ==
    ASSUME CloseInv, NEW e \in Ends, IoCheck(e), setting' = setting PROVE CloseInv'
<1> DEFINE a == arq[e]
           q == arq[Peer(e)]
           s == [a EXCEPT !.io = IF a.stopRead \/ a.closed THEN "done" ELSE "reading"]
<1>1. Becomes(e, s) /\ a.io = "idle"
  BY DEF IoCheck
<1>2. Sound(a) /\ Passes(a, q) /\ Passes(q, a)
  BY Pair
<1>3. Sound(s)
  BY <1>1, <1>2 DEF Sound, Types, Reads, Writes, Excused, Fields
<1>4. Passes(s, q) /\ Passes(q, s)
  BY <1>2 DEF Passes, InRange, Unlost, Nowhere, Whole, Able, Excused, Resetting, Sound, Types, Fields
<1>5. Fits(e, s)
  BY <1>2, <1>3, <1>4, Pair DEF Fits, Sound, Types, Fields
<1> HIDE DEF s
<1> QED
  BY <1>1, <1>3, <1>5, OneEnd, FinishesSame

LEMMA ReadChunkStep ==
    ASSUME CloseInv, NEW e \in Ends, ReadChunk(e), setting' = setting PROVE CloseInv'
<1> DEFINE a == arq[e]
           q == arq[Peer(e)]
<1>1. PICK next \in {"idle", "last"} :
          Becomes(e, [a EXCEPT !.io = next, !.read = @ + 1, !.sndBuf = @ \cup {a.read + 1}])
  BY DEF ReadChunk
<1> DEFINE s == [a EXCEPT !.io = next, !.read = @ + 1, !.sndBuf = @ \cup {a.read + 1}]
<1>2. Sound(a) /\ Sound(q) /\ Passes(a, q) /\ Passes(q, a) /\ a.io = "reading"
      /\ a.read < setting.data[e] /\ q.isClient = ~a.isClient
  BY Pair DEF ReadChunk
<1>3. s.io = next /\ s.read = a.read + 1 /\ s.sndBuf = a.sndBuf \cup {a.read + 1}
      /\ s.isClient = a.isClient /\ s.closed = a.closed /\ s.closeReadSent = a.closeReadSent
      /\ (Resetting(s) <=> Resetting(a)) /\ (Excused(s) <=> Excused(a))
  BY <1>2 DEF Sound, Types, Fields, Resetting, Excused
<1>4. a.closeReadSent => Excused(a)
  BY <1>2 DEF Sound, Reads
<1>5. Sound(s)
  BY <1>2, <1>4 DEF Sound, Types, Reads, Writes, Excused, Fields
<1>6. s.read <= setting.data[e]
  <2>1. setting.data[e] \in Nat
    BY CloseAssumption DEF CloseInv
  <2> QED
    BY <1>2, <1>3, <2>1 DEF Sound, Types
<1>7. Passes(s, q)
  <2> HIDE DEF s, a, q
  <2>1. InRange(s, q)
    BY <1>2, <1>3 DEF Passes, InRange, Sound, Types
  <2>2. Unlost(s, q)
    BY <1>2, <1>3, <1>4 DEF Passes, Unlost, Nowhere, Sound, Types
  <2>3. Whole(s, q)
    BY <1>2, <1>3, <1>4 DEF Passes, Unlost, Whole, Excused, Sound, Writes
  <2> QED
    BY <2>1, <2>2, <2>3 DEF Passes
<1>8. Passes(q, s)
  BY <1>2 DEF Passes, InRange, Unlost, Nowhere, Whole, Able, Resetting, Sound, Types, Fields
<1>9. Fits(e, s) /\ Becomes(e, s)
  BY <1>1, <1>3, <1>5, <1>6, <1>7, <1>8, Pair DEF Fits
<1> HIDE DEF s
<1> QED
  BY <1>5, <1>9, OneEnd, FinishesSame

LEMMA ReadTimeoutStep ==
    ASSUME CloseInv, NEW e \in Ends, ReadTimeout(e), setting' = setting PROVE CloseInv'
<1> DEFINE a == arq[e]
           q == arq[Peer(e)]
           s == [a EXCEPT !.io = "idle"]
<1>1. Becomes(e, s) /\ a.io = "reading"
  BY DEF ReadTimeout
<1>2. Sound(a) /\ Passes(a, q) /\ Passes(q, a)
  BY Pair
<1>3. Sound(s)
  BY <1>1, <1>2 DEF Sound, Types, Reads, Writes, Excused, Fields
<1>4. Passes(s, q) /\ Passes(q, s)
  BY <1>2 DEF Passes, InRange, Unlost, Nowhere, Whole, Able, Excused, Resetting, Sound, Types, Fields
<1>5. Fits(e, s)
  BY <1>2, <1>3, <1>4, Pair DEF Fits, Sound, Types, Fields
<1> HIDE DEF s
<1> QED
  BY <1>1, <1>3, <1>5, OneEnd, FinishesSame

\* The reader stops: that disturbs nothing, whatever stopped it.
LEMMA ReaderDone ==
    ASSUME CloseInv, NEW e \in Ends
    PROVE  Fits(e, [arq[e] EXCEPT !.io = "done"])
<1> DEFINE a == arq[e]
           q == arq[Peer(e)]
           s == [a EXCEPT !.io = "done"]
<1>1. Sound(a) /\ Passes(a, q) /\ Passes(q, a)
  BY Pair
<1>2. Sound(s)
  BY <1>1 DEF Sound, Types, Reads, Writes, Excused, Fields
<1>3. Passes(s, q) /\ Passes(q, s)
  BY <1>1 DEF Passes, InRange, Unlost, Nowhere, Whole, Able, Excused, Resetting, Sound, Types, Fields
<1> QED
  BY <1>1, <1>2, <1>3, Pair DEF Fits, Sound, Types, Fields

LEMMA ReaderStep ==
    ASSUME CloseInv, NEW e \in Ends, ReadEOF(e) \/ ReadError(e), setting' = setting
    PROVE  CloseInv'
<1> DEFINE s == [arq[e] EXCEPT !.io = "done"]
<1>1. \/ Becomes(e, DeferTerminal(s, "CLOSE_READ"))
      \/ Becomes(e, CloseReset(s))
      \/ Becomes(e, CloseResetAfterDrain(s))
  BY DEF ReadEOF, ReadError
<1>2. Fits(e, s) /\ s.io = "done"
  BY ReaderDone, Pair DEF Sound, Types, Fields
<1> HIDE DEF s
<1>3. Sound(s)
  BY <1>2 DEF Fits
<1>4. LET t == DeferTerminal(s, "CLOSE_READ") IN Sound(t) /\ Finishes(s, t)
  BY <1>2, <1>3, DeferTerminalFinishes
<1>5. LET t == CloseReset(s) IN Sound(t) /\ Finishes(s, t)
  BY <1>3, CloseResetFinishes
<1>6. LET t == CloseResetAfterDrain(s) IN Sound(t) /\ Finishes(s, t)
  BY <1>3, ResetAfterDrainFinishes
<1> QED
  BY <1>1, <1>2, <1>4, <1>5, <1>6, OneEnd

\* What writeLoop takes ends before the first chunk that is missing.
LEMMA RunEnds ==
    ASSUME NEW s, NEW k \in Nat, Types(s), s.rcvBuf \subseteq 1 .. k, s.rcvNxt <= k + 1,
           \A n \in s.rcvBuf : n >= s.rcvNxt
    PROVE  LET next == s.rcvNxt + Cardinality(Run(s))
           IN  /\ next \in Nat \ {0} /\ next >= s.rcvNxt /\ next <= k + 1
               /\ \A n \in Run(s) : n < next
               /\ \A n \in s.rcvBuf \ Run(s) : n >= next
<1> DEFINE c == Cardinality(Run(s))
           lo == s.rcvNxt
<1>1. lo \in Nat \ {0}
  BY DEF Types
<1>2. Run(s) \subseteq lo .. k
  BY <1>1 DEF Run
<1>3. ASSUME NEW a \in Int, NEW b \in Int
      PROVE  IsFiniteSet(a .. b) /\ Cardinality(a .. b) = IF a > b THEN 0 ELSE b - a + 1
  BY FS_Interval
<1>a. IsFiniteSet(lo .. k) /\ Cardinality(lo .. k) = IF lo > k THEN 0 ELSE k - lo + 1
  <2>1. lo \in Int /\ k \in Int
    BY <1>1
  <2> HIDE DEF lo
  <2> QED
    BY <1>3, <2>1
<1>4. IsFiniteSet(Run(s)) /\ c \in Nat /\ c <= Cardinality(lo .. k)
  <2>1. IsFiniteSet(Run(s)) /\ c <= Cardinality(lo .. k)
    BY <1>2, <1>a, FS_Subset
  <2> QED
    BY <2>1, FS_CardinalityType
<1>5. c <= k + 1 - lo
  BY <1>1, <1>4, <1>a
<1>6. ASSUME NEW n \in Run(s)
      PROVE  n < lo + c
  <2>1. n \in Int /\ n >= lo
    BY <1>1, <1>2
  <2>2. lo .. n \subseteq Run(s)
    BY <1>1, <1>6, <2>1 DEF Run
  <2>3. Cardinality(lo .. n) = n - lo + 1
    BY <1>1, <1>3, <2>1
  <2>4. Cardinality(lo .. n) <= c
    BY <1>4, <2>2, FS_Subset
  <2> QED
    BY <1>1, <1>4, <2>1, <2>3, <2>4
<1>7. ASSUME NEW n \in s.rcvBuf \ Run(s)
      PROVE  n >= lo + c
  <2>1. n \in Int /\ n >= lo
    BY <1>1
  <2>2. PICK m \in lo .. n : m \notin s.rcvBuf
    BY <1>7 DEF Run
  <2>3. Run(s) \subseteq lo .. (m - 1)
    BY <1>1, <1>2, <2>1, <2>2 DEF Run
  <2> DEFINE m1 == m - 1
  <2>a. lo \in Int /\ m \in Int /\ m1 \in Int /\ lo <= m /\ m <= n
    BY <1>1, <2>1, <2>2
  <2>b. IsFiniteSet(lo .. m1) /\ Cardinality(lo .. m1) = IF lo > m1 THEN 0 ELSE m1 - lo + 1
    <3> HIDE DEF lo, m1
    <3> QED
      BY <1>3, <2>a
  <2>4. Cardinality(lo .. (m - 1)) = m - lo
    BY <2>a, <2>b
  <2>5. IsFiniteSet(lo .. (m - 1))
    BY <2>b
  <2>6. c <= Cardinality(lo .. (m - 1))
    BY <2>3, <2>5, FS_Subset
  <2> QED
    BY <1>1, <1>4, <2>1, <2>2, <2>4, <2>6
<1> QED
  BY <1>1, <1>4, <1>5, <1>6, <1>7

LEMMA WriterTakeStep ==
    ASSUME CloseInv, NEW e \in Ends, WriterTake(e), setting' = setting PROVE CloseInv'
<1> DEFINE a == arq[e]
           q == arq[Peer(e)]
           run == Run(a)
           next == a.rcvNxt + Cardinality(run)
           s == [a EXCEPT !.rcvBuf = @ \ run, !.rcvNxt = @ + Cardinality(run),
                          !.flush = @ /\ (a.wr = "again" \/ run # {}),
                          !.wr = IF run = {} THEN "empty" ELSE "writing"]
           d == [a EXCEPT !.wr = "done"]
<1>1. a.wr \in {"again", "idle"} /\ Becomes(e, IF a.closed THEN d ELSE s)
  BY DEF WriterTake
<1>2. Sound(a) /\ Sound(q) /\ Passes(a, q) /\ Passes(q, a) /\ q.isClient = ~a.isClient
  BY Pair
<1>3. CASE a.closed
  <2>1. Sound(d)
    BY <1>2, <1>3 DEF Sound, Types, Reads, Writes, Excused, Fields
  <2>2. Passes(d, q) /\ Passes(q, d)
    BY <1>2 DEF Passes, InRange, Unlost, Nowhere, Whole, Able, Excused, Resetting, Sound, Types, Fields
  <2>3. Fits(e, d) /\ Becomes(e, d)
    BY <1>1, <1>2, <1>3, <2>1, <2>2, Pair DEF Fits, Sound, Types, Fields
  <2> HIDE DEF d
  <2> QED
    BY <2>1, <2>3, OneEnd, FinishesSame
<1>4. CASE ~a.closed
  <2>1. /\ next \in Nat \ {0} /\ next >= a.rcvNxt /\ next <= q.read + 1
        /\ \A n \in run : n < next
        /\ \A n \in a.rcvBuf \ run : n >= next
    BY <1>2, RunEnds DEF Sound, Types, Passes, InRange
  <2>2. run = {} => next = a.rcvNxt /\ a.rcvNxt \notin a.rcvBuf
    <3>1. a.rcvNxt \in Nat
      BY <1>2 DEF Sound, Types
    <3>2. a.rcvNxt \in a.rcvBuf => a.rcvNxt \in run
      BY <3>1 DEF Run
    <3> QED
      BY <3>1, <3>2, FS_EmptySet
  <2>3. a.written = a.rcvNxt - 1 /\ ~(a.wr = "empty")
    BY <1>1, <1>2 DEF Sound, Writes
  <2>4. /\ DOMAIN s = Fields /\ s.rcvBuf = a.rcvBuf \ run /\ s.rcvNxt = next
        /\ s.wr = IF run = {} THEN "empty" ELSE "writing"
        /\ s.io = a.io /\ s.read = a.read /\ s.sndBuf = a.sndBuf /\ s.rx = a.rx
        /\ s.got = a.got /\ s.written = a.written /\ s.late = a.late
        /\ s.broken = a.broken /\ s.halfClosed = a.halfClosed /\ s.closed = a.closed
        /\ s.isClient = a.isClient /\ s.closeReadSent = a.closeReadSent
        /\ s.closeReadReceived = a.closeReadReceived
        /\ s.closeWriteSent = a.closeWriteSent /\ s.closeWriteAcked = a.closeWriteAcked
        /\ s.reason = a.reason /\ s.deferred = a.deferred /\ s.waiting = a.waiting
        /\ s.tracked = a.tracked /\ s.acks = a.acks
        /\ (Resetting(s) <=> Resetting(a))
    BY <1>2 DEF Sound, Types, Fields, Resetting
  <2> HIDE DEF s, run, next
  <2>5. Sound(s)
    <3>1. Types(s)
      BY <1>2, <2>1, <2>4 DEF Sound, Types
    <3>2. Reads(s)
      BY <1>2, <2>4 DEF Sound, Reads, Excused
    <3>3. s.written < s.rcvNxt
      BY <1>2, <2>1, <2>3, <2>4 DEF Sound, Types
    <3>4. s.wr = "empty" => s.written = s.rcvNxt - 1
      BY <2>2, <2>3, <2>4
    <3>5. Writes(s)
      BY <1>1, <1>2, <2>4, <3>3, <3>4 DEF Sound, Writes
    <3> QED
      BY <3>1, <3>2, <3>5 DEF Sound
  <2>6. Passes(s, q)
    BY <1>2, <2>4 DEF Passes, InRange, Unlost, Nowhere, Whole, Able, Excused
  <2>7. InRange(q, s)
    BY <1>2, <2>1, <2>4 DEF Passes, InRange
  <2>8. Unlost(q, s)
    <3>1. \A n \in s.got : n < s.rcvNxt \/ n \in s.rcvBuf \/ ~Able(s)
      <4>1. \A n \in a.got : n < a.rcvNxt \/ n \in a.rcvBuf \/ ~Able(a)
        BY <1>2 DEF Passes, Unlost
      <4>2. \A n \in a.got : n \in Int
        BY <1>2 DEF Passes, InRange
      <4>3. a.rcvNxt \in Nat /\ (Able(s) <=> Able(a))
        BY <1>2, <2>4 DEF Sound, Types, Able
      <4> QED
        BY <2>1, <2>4, <4>1, <4>2, <4>3
    <3> QED
      BY <1>2, <2>4, <3>1 DEF Passes, Unlost, Nowhere
  <2>9. Whole(q, s)
    <3>1. ASSUME s.isClient, s.wr = "empty", s.closeReadReceived, Able(s)
          PROVE  q.read < s.rcvNxt
      <4>1. run = {} /\ ~Excused(q) /\ Able(a) /\ ~a.closeWriteSent
        BY <1>2, <2>4, <3>1 DEF Able, Excused, Sound, Writes
      <4>2. 1 .. q.read \subseteq a.got
        BY <1>2, <2>4, <3>1, <4>1 DEF Passes, Unlost
      <4>3. a.rcvNxt \notin a.got
        <5>1. a.rcvNxt \in Nat
          BY <1>2 DEF Sound, Types
        <5> QED
          BY <1>2, <2>2, <4>1, <5>1 DEF Passes, Unlost
      <4> QED
        BY <1>2, <2>2, <2>4, <4>1, <4>2, <4>3 DEF Sound, Types
    <3> QED
      BY <1>2, <2>4, <3>1 DEF Passes, Whole
  <2>10. Fits(e, s) /\ Becomes(e, s)
    <3>1. Becomes(e, s)
      BY <1>1, <1>4 DEF s, run
    <3> QED
      BY <1>2, <2>4, <2>5, <2>6, <2>7, <2>8, <2>9, <3>1, Pair DEF Fits, Passes
  <2> QED
    BY <2>5, <2>10, OneEnd, FinishesSame
<1> QED
  BY <1>3, <1>4

LEMMA WriterCheckCloseStep ==
    ASSUME CloseInv, NEW e \in Ends, WriterCheckClose(e), setting' = setting PROVE CloseInv'
<1> DEFINE a == arq[e]
           q == arq[Peer(e)]
           eof == a.closeReadReceived /\ a.rx = {} /\ ~LocalWriteClosed(a) /\ ~a.closed
           s == [a EXCEPT !.wr = "idle", !.halfClosed = @ \/ eof]
<1>1. a.wr = "empty" /\ Becomes(e, TryFinalizeRemoteEOF(s))
  BY DEF WriterCheckClose
<1>2. Sound(a) /\ Sound(q) /\ Passes(a, q) /\ Passes(q, a) /\ q.isClient = ~a.isClient
  BY Pair
<1>3. Sound(s)
  <2>1. Types(s) /\ Reads(s)
    BY <1>2 DEF Sound, Types, Reads, Excused, Fields
  <2>2. s.halfClosed => s.closeReadReceived
    BY <1>2 DEF Sound, Types, Writes, Fields
  <2>3. Writes(s)
    BY <1>1, <1>2, <2>2 DEF Sound, Types, Writes, Fields
  <2> QED
    BY <2>1, <2>3 DEF Sound
<1>4. Passes(s, q)
  BY <1>2 DEF Passes, InRange, Unlost, Nowhere, Whole, Able, Excused, Resetting, Sound, Types, Fields
<1>5. InRange(q, s) /\ Unlost(q, s)
  BY <1>2 DEF Passes, InRange, Unlost, Nowhere, Able, Resetting, Sound, Types, Fields
<1>6. Whole(q, s)
  <2>1. a.isClient /\ eof /\ ~a.late /\ ~Resetting(a) => a.written = q.read
    <3> SUFFICES ASSUME a.isClient, eof, ~a.late, ~Resetting(a) PROVE a.written = q.read
      OBVIOUS
    <3>1. Able(a)
      BY <1>1, <1>2 DEF Able, LocalWriteClosed, Sound, Writes
    <3>2. q.read < a.rcvNxt /\ a.written = a.rcvNxt - 1
      BY <1>1, <1>2, <3>1 DEF Passes, Whole, Sound, Writes
    <3> QED
      BY <1>2, <3>2 DEF Passes, InRange, Sound, Types
  <2> QED
    BY <1>2, <2>1 DEF Passes, Whole, Able, Resetting, Sound, Types, Fields
<1>7. Fits(e, s)
  BY <1>2, <1>3, <1>4, <1>5, <1>6, Pair DEF Fits, Passes, Sound, Types, Fields
<1> HIDE DEF s
<1> QED
  BY <1>1, <1>3, <1>7, OneEnd, TryFinalizeFinishes

LEMMA WriteSucceedsStep ==
    ASSUME CloseInv, NEW e \in Ends, WriteSucceeds(e), setting' = setting PROVE CloseInv'
<1> DEFINE a == arq[e]
           q == arq[Peer(e)]
           s == [a EXCEPT !.wr = "again", !.written = a.rcvNxt - 1]
<1>1. a.wr = "writing" /\ ~a.closed /\ ~a.halfClosed /\ Becomes(e, TryFinalizeRemoteEOF(s))
  BY DEF WriteSucceeds
<1>2. Sound(a) /\ Sound(q) /\ Passes(a, q) /\ Passes(q, a) /\ q.isClient = ~a.isClient
  BY Pair
<1>3. Sound(s)
  BY <1>1, <1>2 DEF Sound, Types, Reads, Writes, Excused, Fields
<1>4. Passes(s, q)
  BY <1>2 DEF Passes, InRange, Unlost, Nowhere, Whole, Able, Excused, Resetting, Sound, Types, Fields
<1>5. InRange(q, s) /\ Unlost(q, s)
  BY <1>2 DEF Passes, InRange, Unlost, Nowhere, Able, Resetting, Sound, Types, Fields
<1>6. Whole(q, s)
  BY <1>1, <1>2 DEF Passes, Whole, Able, Resetting, Sound, Types, Writes, Fields
<1>7. Fits(e, s)
  BY <1>2, <1>3, <1>4, <1>5, <1>6, Pair DEF Fits, Passes, Sound, Types, Fields
<1> HIDE DEF s
<1> QED
  BY <1>1, <1>3, <1>7, OneEnd, TryFinalizeFinishes

LEMMA WriteFailsStep ==
    ASSUME CloseInv, NEW e \in Ends, WriteFails(e), setting' = setting PROVE CloseInv'
<1> DEFINE a == arq[e]
           q == arq[Peer(e)]
           s == [a EXCEPT !.wr = "done", !.broken = TRUE, !.rcvBuf = {}]
<1>1. a.wr = "writing" /\ Becomes(e, EmitTerminal(s, "CLOSE_WRITE"))
  BY DEF WriteFails
<1>2. Sound(a) /\ Sound(q) /\ Passes(a, q) /\ Passes(q, a) /\ q.isClient = ~a.isClient
  BY Pair
<1>3. Sound(s)
  BY <1>1, <1>2 DEF Sound, Types, Reads, Writes, Excused, Fields
<1>4. Passes(s, q)
  BY <1>2 DEF Passes, InRange, Unlost, Nowhere, Whole, Able, Excused, Resetting, Sound, Types, Fields
<1>5. InRange(q, s) /\ Unlost(q, s)
  BY <1>2 DEF Passes, InRange, Unlost, Nowhere, Able, Resetting, Sound, Types, Fields
<1>6. Whole(q, s)
  BY <1>1, <1>2 DEF Passes, Whole, Able, Resetting, Sound, Types, Writes, Fields
<1>7. Fits(e, s)
  BY <1>2, <1>3, <1>4, <1>5, <1>6, Pair DEF Fits, Passes, Sound, Types, Fields
<1> HIDE DEF s
<1>8. LET t == EmitTerminal(s, "CLOSE_WRITE") IN Sound(t) /\ Finishes(s, t)
  BY <1>3, EmitTerminalFinishes DEF Terminal
<1> QED
  BY <1>1, <1>7, <1>8, OneEnd

\* An answer is no part of the invariant.
LEMMA AnswerFinishes ==
    ASSUME NEW a, Sound(a), NEW p \in Terminal
    PROVE  Sound(Answer(a, p)) /\ Finishes(a, Answer(a, p))
<1>1. Sound(Answer(a, p))
  BY DEF Answer, Sound, Types, Reads, Writes, Excused, Fields
<1>2. Finishes(a, Answer(a, p))
  BY DEF Answer, Sound, Types, Finishes, Fields, Able, Excused, Resetting
<1> QED
  BY <1>1, <1>2

LEMMA ReceiveDataStep ==
    ASSUME CloseInv, NEW e \in Ends, NEW n, ReceiveData(e, n), setting' = setting
    PROVE  CloseInv'
<1> DEFINE a == arq[e]
           q == arq[Peer(e)]
           o == [a EXCEPT !.orphanRst = TRUE]
           s == [a EXCEPT !.rx = @ \cup {n}]
<1>1. /\ n \in 1 .. q.read
      /\ \/ Becomes(e, o) \/ Becomes(e, a) \/ Becomes(e, RefuseData(a))
         \/ Becomes(e, s)
  BY DEF ReceiveData
<1>2. Sound(a) /\ Sound(q) /\ Passes(a, q) /\ Passes(q, a)
  BY Pair
<1>3. Sound(o) /\ Finishes(a, o)
  <2>1. Sound(o)
    BY <1>2 DEF Sound, Types, Reads, Writes, Excused, Fields
  <2>2. Finishes(a, o)
    BY <1>2 DEF Sound, Types, Finishes, Fields, Able, Excused, Resetting
  <2> QED
    BY <2>1, <2>2
<1>4. Sound(s)
  BY <1>2 DEF Sound, Types, Reads, Writes, Excused, Fields
<1>5. Passes(s, q)
  BY <1>2 DEF Passes, InRange, Unlost, Nowhere, Whole, Able, Excused, Resetting, Sound, Types, Fields
<1>6. InRange(q, s)
  BY <1>1, <1>2 DEF Passes, InRange, Sound, Types, Fields
<1>7. Unlost(q, s) /\ Whole(q, s)
  BY <1>2 DEF Passes, Unlost, Nowhere, Whole, Able, Excused, Resetting, Sound, Types, Fields
<1>8. Fits(e, s)
  BY <1>2, <1>4, <1>5, <1>6, <1>7, Pair DEF Fits, Passes, Sound, Types, Fields
<1> HIDE DEF s, o
<1>9. CASE Becomes(e, s)
  BY <1>4, <1>8, <1>9, OneEnd, FinishesSame
<1> QED
  BY <1>1, <1>2, <1>3, <1>9, Ending, FinishesSame, RefuseDataFinishes

LEMMA RxLoopStep ==
    ASSUME CloseInv, NEW e \in Ends, NEW n, RxLoop(e, n), setting' = setting
    PROVE  CloseInv'
<1> DEFINE a == arq[e]
           q == arq[Peer(e)]
           v == [a EXCEPT !.rx = @ \ {n}]
           buf == IF IsNew(a, n) THEN a.rcvBuf \cup {n} ELSE a.rcvBuf
           s == [v EXCEPT !.rcvBuf = buf, !.got = @ \cup {n}, !.flush = TRUE]
<1>1. Sound(a) /\ Sound(q) /\ Passes(a, q) /\ Passes(q, a)
  BY Pair
<1>2. /\ n \in a.rx
      /\ \/ Becomes(e, RefuseData(v))
         \/ ~a.broken /\ Becomes(e, s)
  BY <1>1 DEF RxLoop, IsNew, Sound, Types, Fields
<1>3. Fits(e, v)
  <2>1. Sound(v)
    BY <1>1 DEF Sound, Types, Reads, Writes, Excused, Fields
  <2>2. Passes(v, q)
    BY <1>1 DEF Passes, InRange, Unlost, Nowhere, Whole, Able, Excused, Resetting, Sound, Types, Fields
  <2>3. InRange(q, v)
    BY <1>1 DEF Passes, InRange, Sound, Types, Fields
  <2>4. Unlost(q, v) /\ Whole(q, v)
    BY <1>1 DEF Passes, Unlost, Nowhere, Whole, Able, Excused, Resetting, Sound, Types, Fields
  <2> QED
    BY <1>1, <2>1, <2>2, <2>3, <2>4, Pair DEF Fits, Passes, Sound, Types, Fields
<1>4. /\ DOMAIN s = Fields /\ s.rcvBuf = buf /\ s.got = a.got \cup {n}
      /\ s.rx = a.rx \ {n} /\ s.rcvNxt = a.rcvNxt /\ s.wr = a.wr
      /\ s.io = a.io /\ s.read = a.read /\ s.sndBuf = a.sndBuf
      /\ s.written = a.written /\ s.late = a.late
      /\ s.broken = a.broken /\ s.halfClosed = a.halfClosed /\ s.closed = a.closed
      /\ s.isClient = a.isClient /\ s.closeReadSent = a.closeReadSent
      /\ s.closeReadReceived = a.closeReadReceived
      /\ s.closeWriteSent = a.closeWriteSent /\ s.closeWriteAcked = a.closeWriteAcked
      /\ s.reason = a.reason /\ s.deferred = a.deferred /\ s.waiting = a.waiting
      /\ s.tracked = a.tracked /\ s.acks = a.acks
      /\ (Resetting(s) <=> Resetting(a))
  BY <1>1 DEF Sound, Types, Fields, Resetting
<1>5. n \in 1 .. q.read /\ q.read \in Nat /\ a.rcvNxt \in Nat \ {0}
  BY <1>1, <1>2 DEF Passes, InRange, Sound, Types
<1>6. /\ a.rcvBuf \subseteq buf /\ buf \subseteq a.rcvBuf \cup {n}
      /\ n \in buf => n \in a.rcvBuf \/ n >= a.rcvNxt
      /\ n < a.rcvNxt \/ n \in buf
  BY <1>5 DEF IsNew
<1> HIDE DEF s, buf
<1>7. Fits(e, s)
  <2>1. Types(s)
    BY <1>1, <1>4 DEF Sound, Types
  <2>2. Reads(s) /\ Writes(s)
    BY <1>1, <1>4 DEF Sound, Reads, Writes, Excused
  <2>3. Passes(s, q)
    BY <1>1, <1>4 DEF Passes, InRange, Unlost, Nowhere, Whole, Able, Excused
  <2>4. InRange(q, s)
    BY <1>1, <1>4, <1>5, <1>6 DEF Passes, InRange
  <2>5. Unlost(q, s)
    BY <1>1, <1>4, <1>5, <1>6 DEF Passes, Unlost, Nowhere, Able
  <2>6. Whole(q, s)
    BY <1>1, <1>4 DEF Passes, Whole, Able
  <2> QED
    BY <1>4, <2>1, <2>2, <2>3, <2>4, <2>5, <2>6, Pair DEF Fits, Passes, Sound
<1> HIDE DEF v
<1>8. CASE Becomes(e, RefuseData(v))
  BY <1>3, <1>8, OneEnd, RefuseDataFinishes DEF Fits
<1>9. CASE Becomes(e, s)
  BY <1>7, <1>9, OneEnd, FinishesSame DEF Fits
<1> QED
  BY <1>2, <1>8, <1>9

LEMMA ReceiveAckStep ==
    ASSUME CloseInv, NEW e \in Ends, NEW n, ReceiveAck(e, n), setting' = setting
    PROVE  CloseInv'
<1> DEFINE a == arq[e]
           q == arq[Peer(e)]
           s == [a EXCEPT !.sndBuf = @ \ {n}]
           f == IF s.closeReadReceived THEN TryFinalizeRemoteEOF(s) ELSE s
           t == SettleTerminalDrain(f, FALSE)
<1>1. n \in q.got /\ Becomes(e, t)
  BY DEF ReceiveAck
<1>2. Sound(a) /\ Sound(q) /\ Passes(a, q) /\ Passes(q, a)
  BY Pair
<1>3. Sound(s)
  BY <1>2 DEF Sound, Types, Reads, Writes, Excused, Fields
<1>4. InRange(s, q) /\ Whole(s, q)
  BY <1>2 DEF Passes, InRange, Whole, Excused, Sound, Types, Fields
<1>5. Unlost(s, q)
  BY <1>1, <1>2 DEF Passes, Unlost, Nowhere, Able, Excused, Resetting, Sound, Types, Fields
<1>6. Passes(q, s)
  BY <1>2 DEF Passes, InRange, Unlost, Nowhere, Whole, Able, Excused, Resetting, Sound, Types, Fields
<1>7. Fits(e, s)
  BY <1>2, <1>3, <1>4, <1>5, <1>6, Pair DEF Fits, Passes, Sound, Types, Fields
<1> HIDE DEF s
<1>8. Sound(f) /\ Finishes(s, f)
  BY <1>3, TryFinalizeFinishes, FinishesSame
<1> HIDE DEF f
<1>9. Sound(t) /\ Finishes(f, t)
  BY <1>8, SettleFinishes
<1> HIDE DEF t
<1>10. Finishes(s, t)
  BY <1>8, <1>9, FinishesTwice
<1> QED
  BY <1>1, <1>7, <1>9, <1>10, OneEnd

LEMMA ReceiveCloseReadStep ==
    ASSUME CloseInv, NEW e \in Ends, ReceiveCloseRead(e), setting' = setting
    PROVE  CloseInv'
<1> DEFINE a == arq[e]
           q == arq[Peer(e)]
           v == Answer(a, "CLOSE_READ")
           s == [v EXCEPT !.closeReadReceived = TRUE, !.reset = FALSE, !.flush = TRUE,
                          !.late = @ \/ Overtaken(v)]
<1>1. q.closeReadSent /\ Becomes(e, IF v.closed THEN v ELSE TryFinalizeRemoteEOF(s))
  BY DEF ReceiveCloseRead, MarkCloseReadReceived
<1>2. Sound(a) /\ Sound(q) /\ Passes(a, q) /\ Passes(q, a) /\ q.isClient = ~a.isClient
  BY Pair
<1>3. Sound(v) /\ Finishes(a, v)
  BY <1>2, AnswerFinishes DEF Terminal
<1>4. Passes(v, q) /\ Passes(q, v) /\ q.isClient = ~v.isClient
      /\ v.isClient = (e = "client") /\ v.read <= setting.data[e]
  <2> HIDE DEF v
  <2> QED
    BY <1>2, <1>3, FinishesKeeps, Pair DEF Finishes
<1> HIDE DEF v
<1>5. Sound(s)
  BY <1>3 DEF Sound, Types, Reads, Writes, Excused, Fields
<1>6. Passes(s, q)
  BY <1>3, <1>4 DEF Passes, InRange, Unlost, Nowhere, Whole, Able, Excused, Resetting, Sound, Types, Fields
<1>7. InRange(q, s)
  BY <1>3, <1>4 DEF Passes, InRange, Sound, Types, Fields
<1>8. Unlost(q, s)
  BY <1>1, <1>3, <1>4 DEF Passes, Unlost, Nowhere, Able, Excused, Resetting, Sound, Types, Fields
<1>9. CASE ~v.closed
  <2>1. ASSUME v.isClient, v.wr = "empty", ~Overtaken(v), Able(v)
        PROVE  q.read < v.rcvNxt
    <3>1. v.rcvBuf = {} /\ ~Excused(q) /\ ~v.closeWriteSent
      BY <1>3, <1>4, <2>1 DEF Overtaken, Excused, Able, Sound, Writes
    <3>2. 1 .. q.read \subseteq v.got
      BY <1>1, <1>4, <3>1 DEF Passes, Unlost
    <3>3. \A n \in 1 .. q.read : n < v.rcvNxt
      BY <1>4, <2>1, <3>1, <3>2 DEF Passes, Unlost
    <3> QED
      BY <1>2, <1>3, <3>3 DEF Sound, Types
  <2>2. Whole(q, s)
    BY <1>3, <1>4, <1>9, <2>1 DEF Passes, Whole, Able, Resetting, Sound, Types, Writes, Fields
  <2>3. Fits(e, s)
    BY <1>3, <1>4, <1>5, <1>6, <1>7, <1>8, <2>2 DEF Fits, Passes, Sound, Types, Fields
  <2> HIDE DEF s
  <2> QED
    BY <1>1, <1>5, <1>9, <2>3, OneEnd, TryFinalizeFinishes
<1>10. CASE v.closed
  BY <1>1, <1>3, <1>10, Ending
<1> QED
  BY <1>9, <1>10

LEMMA ReceiveCloseWriteStep ==
    ASSUME CloseInv, NEW e \in Ends, ReceiveCloseWrite(e), setting' = setting
    PROVE  CloseInv'
<1> DEFINE a == arq[e]
           q == arq[Peer(e)]
           v == Answer(a, "CLOSE_WRITE")
           s == [v EXCEPT !.closeWriteReceived = TRUE, !.stopRead = TRUE, !.sndBuf = {}]
           f == SettleTerminalDrain(s, FALSE)
           t == TryFinalizeRemoteEOF(f)
<1>1. q.closeWriteSent /\ Becomes(e, IF v.closed THEN v ELSE t)
  BY DEF ReceiveCloseWrite
<1>2. Sound(a) /\ Sound(q) /\ Passes(a, q) /\ Passes(q, a)
  BY Pair
<1>3. Sound(v) /\ Finishes(a, v)
  BY <1>2, AnswerFinishes DEF Terminal
<1>4. Passes(v, q) /\ Passes(q, v) /\ v.isClient = (e = "client")
      /\ v.read <= setting.data[e]
  <2> HIDE DEF v
  <2> QED
    BY <1>2, <1>3, FinishesKeeps, Pair DEF Finishes
<1> HIDE DEF v
<1>5. Sound(s)
  BY <1>3 DEF Sound, Types, Reads, Writes, Excused, Fields
<1>6. InRange(s, q) /\ Whole(s, q)
  BY <1>3, <1>4 DEF Passes, InRange, Whole, Excused, Sound, Types, Fields
<1>7. Unlost(s, q)
  BY <1>1, <1>3, <1>4 DEF Passes, Unlost, Nowhere, Able, Excused, Resetting, Sound, Types, Fields
<1>8. Passes(q, s)
  BY <1>3, <1>4 DEF Passes, InRange, Unlost, Nowhere, Whole, Able, Excused, Resetting, Sound, Types, Fields
<1>9. Fits(e, s)
  BY <1>3, <1>4, <1>5, <1>6, <1>7, <1>8 DEF Fits, Passes, Sound, Types, Fields
<1> HIDE DEF s
<1>10. Sound(f) /\ Finishes(s, f)
  BY <1>5, SettleFinishes
<1> HIDE DEF f
<1>11. Sound(t) /\ Finishes(f, t)
  BY <1>10, TryFinalizeFinishes
<1> HIDE DEF t
<1>12. Finishes(s, t)
  BY <1>10, <1>11, FinishesTwice
<1>13. CASE v.closed
  BY <1>1, <1>3, <1>13, Ending
<1>14. CASE ~v.closed
  BY <1>1, <1>9, <1>11, <1>12, <1>14, OneEnd
<1> QED
  BY <1>13, <1>14

LEMMA ReceiveRstStep ==
    ASSUME CloseInv, NEW e \in Ends, ReceiveRst(e), setting' = setting
    PROVE  CloseInv'
<1> DEFINE a == arq[e]
           q == arq[Peer(e)]
           v == Answer(a, "RST")
           s == [v EXCEPT !.rstReceived = TRUE]
<1>1. Becomes(e, IF v.closed THEN v ELSE FinalizeClose(s, "reset"))
  BY DEF ReceiveRst
<1>2. Sound(a) /\ Sound(q) /\ Passes(a, q) /\ Passes(q, a)
  BY Pair
<1>3. Sound(v) /\ Finishes(a, v)
  BY <1>2, AnswerFinishes DEF Terminal
<1> HIDE DEF v
<1>4. Sound(s)
  BY <1>3 DEF Sound, Types, Reads, Writes, Excused, Fields
<1>5. Finishes(v, s)
  BY <1>3 DEF Sound, Types, Finishes, Fields, Able, Excused, Resetting
<1> HIDE DEF s
<1> DEFINE t == FinalizeClose(s, "reset")
<1>6. Sound(t) /\ Finishes(s, t)
  BY <1>4, FinalizeCloseFinishes
<1> HIDE DEF t
<1>7. Finishes(a, t)
  BY <1>3, <1>5, <1>6, FinishesTwice
<1> QED
  BY <1>1, <1>3, <1>6, <1>7, Ending DEF t

\* Clearing the buffers and finalizing are one to the invariant.
LEMMA ResetFinishes ==
    ASSUME NEW u, Sound(u), ~u.closed
    PROVE  LET t == FinalizeClose(ClearAllQueues(u), "reset") IN Sound(t) /\ Finishes(u, t)
<1> DEFINE t == FinalizeClose(ClearAllQueues(u), "reset")
<1>1. Types(t)
  BY DEF FinalizeClose, ClearAllQueues, Sound, Types, Fields, Terminal
<1>2. Reads(t) /\ Writes(t)
  BY DEF FinalizeClose, ClearAllQueues, Sound, Types, Reads, Writes, Excused, Fields
<1>3. Finishes(u, t)
  BY DEF FinalizeClose, ClearAllQueues, Sound, Types, Finishes, Fields, Able, Excused, Resetting
<1> QED
  BY <1>1, <1>2, <1>3 DEF Sound

LEMMA AckedFinishes ==
    ASSUME NEW a, Sound(a), ~a.closed, NEW p \in Terminal
    PROVE  Sound(Acked(a, p)) /\ Finishes(a, Acked(a, p))
<1> DEFINE u == [a EXCEPT !.tracked = @ \ {p}, !.waiting = IF @ = p THEN "none" ELSE @]
<1>1. Sound(u) /\ Finishes(a, u) /\ ~u.closed
  <2>1. Types(u)
    BY DEF Sound, Types, Fields
  <2>2. Reads(u) /\ Writes(u)
    BY DEF Sound, Types, Reads, Writes, Excused, Fields
  <2>3. Finishes(a, u) /\ ~u.closed
    BY DEF Sound, Types, Finishes, Fields, Able, Excused, Resetting
  <2> QED
    BY <2>1, <2>2, <2>3 DEF Sound
<1>2. CASE p = "CLOSE_READ"
  <2> DEFINE v == [u EXCEPT !.closeReadAcked = TRUE, !.reset = @ /\ ~u.closeReadReceived]
             t == TryFinalizeRemoteEOF(v)
  <2>1. Acked(a, p) = t
    BY <1>2 DEF Acked
  <2> HIDE DEF u
  <2>2. Sound(v)
    BY <1>1 DEF Sound, Types, Reads, Writes, Excused, Fields
  <2>3. Finishes(u, v)
    BY <1>1 DEF Sound, Types, Finishes, Fields, Able, Excused, Resetting
  <2> HIDE DEF v
  <2>4. Sound(t) /\ Finishes(v, t)
    BY <2>2, TryFinalizeFinishes
  <2> HIDE DEF t
  <2> QED
    BY <1>1, <2>1, <2>3, <2>4, FinishesTwice
<1>3. CASE p = "CLOSE_WRITE"
  <2> DEFINE v == [u EXCEPT !.closeWriteAcked = TRUE, !.broken = TRUE]
             w == CloseReadAfterWriterBreak(v)
             t == TryFinalizeRemoteEOF(w)
  <2>1. Acked(a, p) = t
    BY <1>3 DEF Acked
  <2> HIDE DEF u
  <2>2. Sound(v)
    BY <1>1 DEF Sound, Types, Reads, Writes, Excused, Fields
  <2>3. Finishes(u, v)
    BY <1>1 DEF Sound, Types, Finishes, Fields, Able, Excused, Resetting
  <2> HIDE DEF v
  <2>4. Sound(w) /\ Finishes(v, w)
    BY <2>2, AfterBreakFinishes
  <2> HIDE DEF w
  <2>5. Sound(t) /\ Finishes(w, t)
    BY <2>4, TryFinalizeFinishes
  <2> HIDE DEF t
  <2> QED
    BY <1>1, <2>1, <2>3, <2>4, <2>5, FinishesTwice
<1>4. CASE p = "RST"
  <2> DEFINE t == FinalizeClose(ClearAllQueues(u), "reset")
  <2>1. Acked(a, p) = t
    BY <1>4 DEF Acked
  <2> HIDE DEF u
  <2>2. Sound(t) /\ Finishes(u, t)
    BY <1>1, ResetFinishes
  <2> HIDE DEF t
  <2> QED
    BY <1>1, <2>1, <2>2, FinishesTwice
<1> QED
  BY <1>2, <1>3, <1>4 DEF Terminal

LEMMA ReceiveControlAckStep ==
    ASSUME CloseInv, NEW e \in Ends, NEW p \in Terminal, ReceiveControlAck(e, p),
           setting' = setting
    PROVE  CloseInv'
<1>1. ~arq[e].closed /\ Becomes(e, Acked(arq[e], p))
  BY DEF ReceiveControlAck
<1> QED
  BY <1>1, Pair, AckedFinishes, Ending

LEMMA TimerStep ==
    ASSUME CloseInv, NEW e \in Ends, Timer(e), setting' = setting
    PROVE  CloseInv'
<1> DEFINE a == arq[e]
<1>1. Sound(a)
  BY Pair
<1>2. CASE DrainTimeout(e)
  BY <1>1, <1>2, SettleFinishes, Ending DEF DrainTimeout
<1>3. CASE AckWaitTimeout(e) \/ InactivityTimeout(e) \/ DataExpires(e)
  BY <1>1, <1>3, FinalizeCloseFinishes, CloseResetFinishes, Ending
  DEF AckWaitTimeout, InactivityTimeout, DataExpires
<1>4. CASE CloseReadGrace(e)
  BY <1>1, <1>4, EmitTerminalFinishes, Ending DEF CloseReadGrace, Terminal
<1>5. ASSUME NEW p \in Terminal, ControlExpires(e, p)
      PROVE  CloseInv'
  <2> DEFINE u == [a EXCEPT !.tracked = @ \ {p}]
  <2>1. Becomes(e, IF p = "RST" THEN FinalizeClose(u, "reset") ELSE CloseReset(u))
    BY <1>5 DEF ControlExpires
  <2>2. Sound(u)
    BY <1>1 DEF Sound, Types, Reads, Writes, Excused, Fields
  <2>3. Finishes(a, u)
    BY <1>1 DEF Sound, Types, Finishes, Fields, Able, Excused, Resetting
  <2> HIDE DEF u
  <2> DEFINE t == IF p = "RST" THEN FinalizeClose(u, "reset") ELSE CloseReset(u)
  <2>4. Sound(t) /\ Finishes(u, t)
    BY <2>2, FinalizeCloseFinishes, CloseResetFinishes
  <2>5. Becomes(e, t)
    BY <2>1
  <2> HIDE DEF t
  <2> QED
    BY <2>3, <2>4, <2>5, FinishesTwice, Ending
<1> QED
  BY <1>2, <1>3, <1>4, <1>5 DEF Timer
-----------------------------------------------------------------------------
LEMMA CloseStep == CloseInv /\ [Next]_vars => CloseInv'
<1> SUFFICES ASSUME CloseInv, [Next]_vars PROVE CloseInv'
  OBVIOUS
<1>1. CASE UNCHANGED vars
  BY <1>1 DEF vars, CloseInv
<1>2. ASSUME NEW e \in Ends, Local(e), setting' = setting
      PROVE  CloseInv'
  BY <1>2, IoCheckStep, ReadChunkStep, ReadTimeoutStep, ReaderStep, WriterTakeStep,
     WriterCheckCloseStep, WriteSucceedsStep, WriteFailsStep, RxLoopStep
  DEF Local
<1>3. ASSUME NEW e \in Ends, Remote(e), setting' = setting
      PROVE  CloseInv'
  BY <1>3, ReceiveDataStep, ReceiveAckStep, ReceiveCloseReadStep, ReceiveCloseWriteStep,
     ReceiveRstStep, ReceiveControlAckStep
  DEF Remote
<1> QED
  BY <1>1, <1>2, <1>3, TimerStep DEF Next

\* The invariant of the closing holds in every state.
THEOREM CloseInvariant == Spec => []CloseInv
BY ArqInit, CloseStep, PTL DEF Spec

\* Every variable of ARQClose stays in its type, whatever a stream meets.
THEOREM CloseTypeCorrect == Spec => []TypeOK
<1>1. CloseInv => TypeOK
  <2> SUFFICES ASSUME CloseInv PROVE TypeOK
    OBVIOUS
  <2>1. DOMAIN arq = Ends
    BY DEF CloseInv
  <2>2. ASSUME NEW e \in Ends
        PROVE  LET s == arq[e]
               IN  /\ s.io \in {"idle", "reading", "last", "done"}
                   /\ s.wr \in {"idle", "writing", "empty", "again", "done"}
                   /\ s.read \in 0 .. setting.data[e]
                   /\ s.sndBuf \subseteq 1 .. s.read
                   /\ s.rx \cup s.rcvBuf \cup s.got \subseteq 1 .. arq[Peer(e)].read
                   /\ s.written < s.rcvNxt /\ s.rcvNxt <= setting.data[Peer(e)] + 1
                   /\ s.deferred \in {"none", "CLOSE_READ", "RST"}
                   /\ s.waiting \in Terminal \cup {"none"}
                   /\ s.tracked \cup s.acks \subseteq Terminal
                   /\ s.reason \in {"none", "handshake", "disconnect", "reset"}
    <3> DEFINE s == arq[e]
               q == arq[Peer(e)]
    <3>1. Types(s) /\ Writes(s) /\ InRange(s, q) /\ InRange(q, s) /\ Types(q)
      BY Pair DEF Sound, Passes
    <3>2. setting.data \in [Ends -> 0 .. MaxData] /\ Peer(e) \in Ends
      BY CloseAssumption, Pair DEF CloseInv
    <3>3. s.read <= setting.data[e] /\ q.read <= setting.data[Peer(e)]
      BY <3>2, Pair
    <3>4. s.read \in 0 .. setting.data[e]
      BY <3>1, <3>2, <3>3 DEF Types
    <3>5. s.rcvNxt <= setting.data[Peer(e)] + 1
      <4>1. setting.data[Peer(e)] \in Int
        BY <3>2
      <4>2. s.rcvNxt <= q.read + 1
        BY <3>1 DEF InRange
      <4>3. s.rcvNxt \in Int /\ q.read \in Int
        BY <3>1 DEF Types
      <4> QED
        BY <3>3, <4>1, <4>2, <4>3
    <3> QED
      BY <3>1, <3>4, <3>5 DEF Types, Writes, InRange
  <2> QED
    BY <2>1, <2>2 DEF TypeOK
<1> QED
  BY <1>1, CloseInvariant, PTL

\* The server sends CLOSE_READ (emitTerminalPacketWithTTL) only when all it
\* read is acknowledged, and reads nothing after it.
THEOREM LastWord == Spec => []ServerLastWord
<1>1. CloseInv => ServerLastWord
  <2> SUFFICES ASSUME CloseInv PROVE ServerLastWord
    OBVIOUS
  <2>1. Sound(arq["server"]) /\ arq["server"].isClient = FALSE
    BY DEF CloseInv, Ends
  <2> QED
    BY <2>1 DEF Sound, Reads, ServerLastWord
<1> QED
  BY <1>1, CloseInvariant, PTL

\* When writeLoop half closes the client's socket, all of the download was
\* written to it, unless CLOSE_READ overtook the look for ready chunks.
THEOREM DownloadWhole == Spec => []DownloadComplete
<1>1. CloseInv => DownloadComplete
  <2> SUFFICES ASSUME CloseInv PROVE DownloadComplete
    OBVIOUS
  <2>1. Passes(arq["server"], arq["client"]) /\ arq["client"].isClient = TRUE
    BY DEF CloseInv, Ends, Peer
  <2> QED
    BY <2>1 DEF Passes, Whole, DownloadComplete, WholeDownload, AllWritten, Peer
<1> QED
  BY <1>1, CloseInvariant, PTL

\* An end that tryFinalizeRemoteEOF finalized has delivered all of the data.
THEOREM HandshakeWhole == Spec => []HandshakeDelivered
<1>1. CloseInv => HandshakeDelivered
  <2> SUFFICES ASSUME CloseInv, NEW e \in Ends,
                      arq[e].reason = "handshake", ~arq[e].broken, ~Resetting(arq[e]),
                      e = "server" => ~arq["client"].broken
               PROVE  AllWritten(e)
    BY DEF HandshakeDelivered
  <2>1. ~Excused(arq[Peer(e)])
    BY Pair DEF Excused, Peer, Ends
  <2>2. Passes(arq[Peer(e)], arq[e])
    BY Pair
  <2> QED
    BY <2>1, <2>2 DEF Passes, Whole, AllWritten
<1> QED
  BY <1>1, CloseInvariant, PTL
=============================================================================
