------------------------------ MODULE ARQClose ------------------------------
(****************************************************************************)
(* How a stream ends (internal/arq/arq.go): the two ARQs of a stream, each  *)
(* with a local socket, half close it in either direction with CLOSE_READ   *)
(* and CLOSE_WRITE or abort it with RST.  Every such packet is retransmitted*)
(* until it is acknowledged or expires.  A CLOSE_READ waits for the data    *)
(* sent before it to be acknowledged.                                       *)
(*                                                                          *)
(* Network.  What an end has sent may be received at any later time, any    *)
(* number of times, or never; retransmission adds nothing to that.  So no   *)
(* variable holds the packets: CLOSE_READ of an end can arrive once         *)
(* closeReadSent is set, DATA n once n <= read, an ACK once it is in acks.  *)
(* Time.  A timer may fire whenever it is armed.                            *)
(* Data.  Chunks are numbered from 1 and do not wrap; loss and recovery of  *)
(* chunks is the subject of module ARQData.                                 *)
(****************************************************************************)
EXTENDS Integers, FiniteSets

CONSTANTS
    MaxData,   \* bound on the chunks an application has to send
    Settings   \* what a stream may meet: the chunks each application sends
               \* (data), the ends whose socket may fail (failing), the
               \* timers that may fire (timers), and whether time passes
               \* (timed) and packets get through (carried) for sure

Ends == {"client", "server"}
Peer(e) == IF e = "client" THEN "server" ELSE "client"

Terminal == {"CLOSE_READ", "CLOSE_WRITE", "RST"}
AllTimers == {"drain", "ackWait", "control", "data", "grace", "inactivity"}

ASSUME CloseAssumption ==
    Settings \subseteq [data : [Ends -> 0 .. MaxData], failing : SUBSET Ends,
                        timers : SUBSET AllTimers,
                        timed : BOOLEAN, carried : BOOLEAN]

VARIABLES
    arq,      \* the ARQ of each end, with its answers to the peer
    setting   \* what this stream meets

vars == <<arq, setting>>

Init ==
    /\ setting \in Settings
    /\ arq = [e \in Ends |->
      [isClient |-> e = "client",
       io |-> "idle",            \* ioLoop: "idle", "reading", "last", "done"
       wr |-> "idle",            \* writeLoop: "idle", "writing", "empty", "again", "done"
       read |-> 0,               \* chunks numbered so far
       sndBuf |-> {},
       rx |-> {},                \* rxChan; pendingInbound is its size
       rcvBuf |-> {}, rcvNxt |-> 1,
       got |-> {},               \* chunks acknowledged
       written |-> 0,            \* history: chunks the local socket took
       flush |-> FALSE,          \* flushSignal
       late |-> FALSE,           \* history: CLOSE_READ found the client Overtaken
       stopRead |-> FALSE,       \* stopLocalRead
       broken |-> FALSE,         \* localWriterBroken
       halfClosed |-> FALSE,     \* CloseWrite was called on the socket
       reset |-> FALSE,          \* state = StateReset
       deferred |-> "none",      \* deferredPacket while deferredClose
       waiting |-> "none",       \* waitingAckFor while waitingAck
       tracked |-> {},           \* controlSndBuf
       closeReadSent |-> FALSE, closeReadReceived |-> FALSE,
       closeReadAcked |-> FALSE,
       closeWriteSent |-> FALSE, closeWriteReceived |-> FALSE,
       closeWriteAcked |-> FALSE,
       rstSent |-> FALSE, rstReceived |-> FALSE,
       closed |-> FALSE,
       reason |-> "none",        \* why finalizeClose was called
       acks |-> {},              \* packets of the peer that were acknowledged
       orphanRst |-> FALSE]]     \* a closed end answered DATA with RST

-----------------------------------------------------------------------------
(* Finalizing.  What remains in the buffers is gone.                        *)

LocalWriteClosed(s) == s.halfClosed \/ s.closeWriteSent \/ s.closeWriteAcked
LocalWritePending(s) == s.wr = "writing"
Resetting(s) == s.rstSent \/ s.rstReceived

ClearAllQueues(s) == [s EXCEPT !.sndBuf = {}, !.rcvBuf = {}, !.tracked = {}]

FinalizeClose(s, why) ==
    IF s.closed THEN s
    ELSE [ClearAllQueues(s) EXCEPT !.closed = TRUE, !.reason = why,
                                   !.deferred = "none", !.waiting = "none"]

NothingQueued(s) == s.rx = {} \/ s.broken                         \* mutant
ReceiveDrained(s) == (s.rcvBuf = {} /\ s.rx = {}) \/ s.broken

WriteSideSettled(s) ==
    IF s.broken THEN s.closeWriteAcked \/ s.closeWriteReceived
    ELSE s.closeWriteSent => s.closeWriteAcked

ReadSideSettled(s) ==
    s.closeReadAcked \/ (s.closeReadSent /\ s.waiting # "CLOSE_READ")

RemoteEOFComplete(s) ==
    /\ s.closeReadReceived /\ ReceiveDrained(s)
    /\ LocalWritePending(s) => s.broken
    /\ ReadSideSettled(s) /\ WriteSideSettled(s)

LocalDisconnectComplete(s) ==
    /\ s.isClient /\ s.broken
    /\ s.closeWriteAcked /\ s.closeReadSent /\ s.closeReadAcked
    /\ s.sndBuf = {} /\ s.rcvBuf = {} /\ s.rx = {} /\ ~LocalWritePending(s)
    /\ s.waiting = "none" /\ s.deferred = "none"

TryFinalizeRemoteEOF(s) ==
    IF RemoteEOFComplete(s) THEN FinalizeClose(s, "handshake")
    ELSE IF LocalDisconnectComplete(s) THEN FinalizeClose(s, "disconnect")
    ELSE s
-----------------------------------------------------------------------------
(* Terminal packets: emitting one now, or after the send buffer drained.    *)

Refused(s, t) ==
    \/ s.waiting = t \/ Resetting(s)
    \/ t = "CLOSE_READ" /\ s.closeReadSent
    \/ t = "CLOSE_WRITE" /\ s.closeWriteSent

MarkSent(s, t) ==
    CASE t = "CLOSE_READ" ->
            TryFinalizeRemoteEOF([s EXCEPT !.closeReadSent = TRUE,
                                           !.reset = FALSE])
      [] t = "CLOSE_WRITE" ->
            [s EXCEPT !.closeWriteSent = TRUE, !.broken = TRUE, !.rcvBuf = {},
                      !.reset = @ /\ ~s.closeReadReceived]
      [] t = "RST" -> [ClearAllQueues(s) EXCEPT !.rstSent = TRUE, !.reset = TRUE]

EmitTerminal(s, t) ==
    LET stopped == [s EXCEPT !.stopRead = TRUE, !.deferred = "none"]
        sent == MarkSent([stopped EXCEPT !.waiting = t], t)
    IN  IF s.closed THEN s
        ELSE IF Refused(s, t) THEN stopped
        ELSE [sent EXCEPT !.tracked = @ \cup {t}]

AlreadyResetting(s) ==
    Resetting(s) \/ s.waiting = "RST" \/ s.deferred = "RST"

CloseReset(s) ==
    IF s.closed \/ AlreadyResetting(s) THEN s
    ELSE EmitTerminal([s EXCEPT !.reset = TRUE, !.deferred = "none"], "RST")

SettleTerminalDrain(s, late) ==
    LET t == IF s.sndBuf = {} THEN s.deferred ELSE "RST"
        u == [s EXCEPT !.deferred = "none"]
    IN  IF s.closed \/ s.deferred = "none" \/ (s.sndBuf # {} /\ ~late) THEN s
        ELSE IF t = "RST" THEN CloseReset(u) ELSE EmitTerminal(u, t)

Undrained(s, t) == EmitTerminal(s, t)                             \* mutant
DeferTerminal(s, t) ==
    IF s.closed THEN s
    ELSE SettleTerminalDrain([s EXCEPT !.stopRead = TRUE, !.deferred = t], FALSE)

CloseResetAfterDrain(s) ==
    IF s.closed \/ AlreadyResetting(s) \/ s.sndBuf = {} THEN CloseReset(s)
    ELSE DeferTerminal([s EXCEPT !.reset = TRUE], "RST")

(* A client whose writer broke closes its other direction too.              *)
CloseReadAfterWriterBreak(s) ==
    IF ~s.isClient \/ ~s.broken \/ s.closed \/ Resetting(s)
       \/ s.closeReadSent \/ s.closeReadReceived THEN s
    ELSE IF s.sndBuf # {} \/ LocalWritePending(s)
    THEN DeferTerminal(s, "CLOSE_READ")
    ELSE EmitTerminal(s, "CLOSE_READ")

(* Data for a socket that takes no more is answered with CLOSE_WRITE.       *)
RefuseData(s) ==
    IF s.broken /\ ~s.closeWriteSent /\ ~Resetting(s)
    THEN EmitTerminal(s, "CLOSE_WRITE") ELSE s
-----------------------------------------------------------------------------
Becomes(e, s) == arq' = [arq EXCEPT ![e] = s]

(* ioLoop.  It looks at stopLocalRead, then blocks in Read; what Read       *)
(* returns is handled whatever happened meanwhile.  An error can come with  *)
(* the last chunk ("last").                                                 *)

IoCheck(e) ==
    LET s == arq[e]
    IN  /\ s.io = "idle"
        /\ Becomes(e, [s EXCEPT !.io = IF s.stopRead \/ s.closed THEN "done"
                                       ELSE "reading"])

ReadChunk(e) ==
    LET s == arq[e]
    IN  /\ s.io = "reading" /\ s.read < setting.data[e]
        /\ \E next \in {"idle", "last"} :
              Becomes(e, [s EXCEPT !.io = next, !.read = @ + 1,
                                   !.sndBuf = @ \cup {s.read + 1}])

ReadTimeout(e) ==
    arq[e].io = "reading" /\ Becomes(e, [arq[e] EXCEPT !.io = "idle"])

ReadEOF(e) ==
    LET s == [arq[e] EXCEPT !.io = "done"]
    IN  /\ arq[e].io \in {"reading", "last"}
        /\ Becomes(e, DeferTerminal(s, "CLOSE_READ"))

ReadError(e) ==
    LET s == [arq[e] EXCEPT !.io = "done"]
    IN  /\ e \in setting.failing
        /\ \/ arq[e].io = "reading" /\ Becomes(e, CloseReset(s))
           \/ arq[e].io = "last" /\ Becomes(e, CloseResetAfterDrain(s))
-----------------------------------------------------------------------------
(* writeLoop takes the run of chunks that is ready, and writes it after the *)
(* unlock.  When there is none it looks, in a second critical section, for  *)
(* a CLOSE_READ to pass on.                                                 *)

Run(s) == {n \in s.rcvBuf : \A k \in s.rcvNxt .. n : k \in s.rcvBuf}

WriterTake(e) ==
    LET s == arq[e]
    IN  /\ \/ s.wr = "again"
           \/ s.wr = "idle" /\ (s.rcvNxt \in s.rcvBuf \/ s.flush)
        /\ Becomes(e,
             IF s.closed THEN [s EXCEPT !.wr = "done"]
             ELSE [s EXCEPT !.rcvBuf = @ \ Run(s),
                            !.rcvNxt = @ + Cardinality(Run(s)),
                            !.flush = @ /\ (s.wr = "again" \/ Run(s) # {}),
                            !.wr = IF Run(s) = {} THEN "empty" ELSE "writing"])

WriterCheckClose(e) ==
    LET s == arq[e]
        eof == /\ s.closeReadReceived /\ s.rx = {}
               /\ ~LocalWriteClosed(s) /\ ~s.closed
    IN  /\ s.wr = "empty"
        /\ Becomes(e, TryFinalizeRemoteEOF(
                        [s EXCEPT !.wr = "idle", !.halfClosed = @ \/ eof]))

WriteSucceeds(e) ==
    LET s == arq[e]
    IN  /\ s.wr = "writing" /\ ~s.closed /\ ~s.halfClosed
        /\ Becomes(e, TryFinalizeRemoteEOF(
                        [s EXCEPT !.wr = "again", !.written = s.rcvNxt - 1]))

(* The socket is closed, was half closed before, or fails.                  *)
WriteFails(e) ==
    LET s == [arq[e] EXCEPT !.wr = "done", !.broken = TRUE, !.rcvBuf = {}]
    IN  /\ arq[e].wr = "writing"
        /\ e \in setting.failing \/ arq[e].closed \/ arq[e].halfClosed
        /\ Becomes(e, EmitTerminal(s, "CLOSE_WRITE"))
-----------------------------------------------------------------------------
(* Data.  A closed end answers it with RST; so does a resetting server.     *)

ReceiveData(e, n) ==
    LET s == arq[e]
    IN  /\ n \in 1 .. arq[Peer(e)].read
        /\ Becomes(e,
             IF s.closed \/ (e = "server" /\ (s.reset \/ Resetting(s)))
             THEN [s EXCEPT !.orphanRst = TRUE]
             ELSE IF Resetting(s) THEN s
             ELSE IF s.broken THEN RefuseData(s)
             ELSE [s EXCEPT !.rx = @ \cup {n}])

(* rxLoop.  A chunk is acknowledged when it is buffered, or again.          *)
NotBuffered(s, n) == n \notin s.rcvBuf                            \* mutant
IsNew(s, n) == n >= s.rcvNxt /\ n \notin s.rcvBuf

RxLoop(e, n) ==
    LET s == [arq[e] EXCEPT !.rx = @ \ {n}]
    IN  /\ n \in arq[e].rx
        /\ Becomes(e,
             IF s.broken \/ s.closeWriteSent \/ s.closeWriteAcked THEN RefuseData(s)
             ELSE [s EXCEPT !.rcvBuf = IF IsNew(s, n) THEN @ \cup {n} ELSE @,
                            !.got = @ \cup {n}, !.flush = TRUE])

ReceiveAck(e, n) ==
    LET s == [arq[e] EXCEPT !.sndBuf = @ \ {n}]
        f == IF s.closeReadReceived THEN TryFinalizeRemoteEOF(s) ELSE s
    IN  /\ n \in arq[e].sndBuf /\ n \in arq[Peer(e)].got
        /\ Becomes(e, SettleTerminalDrain(f, FALSE))
-----------------------------------------------------------------------------
(* Control packets.  Each is acknowledged, by a closed end too.             *)

Answer(s, t) == [s EXCEPT !.acks = @ \cup {t}]

Overtaken(s) == s.isClient /\ s.wr = "empty" /\ s.rcvBuf # {}
CloseReadNoted(s) == [s EXCEPT !.closeReadReceived = TRUE]        \* mutant
MarkCloseReadReceived(s) ==
    TryFinalizeRemoteEOF([s EXCEPT !.closeReadReceived = TRUE,
                                   !.reset = FALSE, !.flush = TRUE,
                                   !.late = @ \/ Overtaken(s)])

ReceiveCloseRead(e) ==
    LET s == Answer(arq[e], "CLOSE_READ")
    IN  /\ arq[Peer(e)].closeReadSent
        /\ Becomes(e, IF s.closed THEN s ELSE MarkCloseReadReceived(s))

ReceiveCloseWrite(e) ==
    LET s == Answer(arq[e], "CLOSE_WRITE")
    IN  /\ arq[Peer(e)].closeWriteSent
        /\ Becomes(e, IF s.closed THEN s
                      ELSE TryFinalizeRemoteEOF(SettleTerminalDrain(
                             [s EXCEPT !.closeWriteReceived = TRUE,
                                       !.stopRead = TRUE, !.sndBuf = {}], FALSE)))

ReceiveRst(e) ==
    LET s == Answer(arq[e], "RST")
    IN  /\ arq[Peer(e)].rstSent \/ arq[Peer(e)].orphanRst
        /\ Becomes(e, IF s.closed THEN s
                      ELSE FinalizeClose([s EXCEPT !.rstReceived = TRUE], "reset"))

(* An ACK counts while its packet is tracked or awaited.                    *)
Acked(s, t) ==
    LET u == [s EXCEPT !.tracked = @ \ {t},
                       !.waiting = IF @ = t THEN "none" ELSE @]
    IN  CASE t = "CLOSE_READ" ->
                TryFinalizeRemoteEOF([u EXCEPT !.closeReadAcked = TRUE,
                                               !.reset = @ /\ ~u.closeReadReceived])
          [] t = "CLOSE_WRITE" ->
                TryFinalizeRemoteEOF(CloseReadAfterWriterBreak(
                    [u EXCEPT !.closeWriteAcked = TRUE, !.broken = TRUE]))
          [] t = "RST" -> FinalizeClose(ClearAllQueues(u), "reset")

ReceiveControlAck(e, t) ==
    LET s == arq[e]
    IN  /\ ~s.closed /\ t \in arq[Peer(e)].acks
        /\ t \in s.tracked \/ t = s.waiting
        /\ Becomes(e, Acked(s, t))
-----------------------------------------------------------------------------
(* Timers.  The branches of handleTerminalRetransmitState exclude each      *)
(* other; a reset by the peer has always been finalized by then.            *)

DrainTimeout(e) ==
    LET s == arq[e]
    IN  /\ ~s.closed /\ s.deferred # "none"
        /\ "drain" \in setting.timers \/ s.sndBuf = {}
        /\ Becomes(e, SettleTerminalDrain(s, TRUE))

AckWaitTimeout(e) ==
    LET s == arq[e]
    IN  /\ "ackWait" \in setting.timers
        /\ ~s.closed /\ s.deferred = "none" /\ s.waiting # "none"
        /\ Becomes(e, IF s.waiting = "RST" THEN FinalizeClose(s, "reset")
                      ELSE CloseReset(s))

CloseReadGrace(e) ==
    LET s == arq[e]
    IN  /\ "grace" \in setting.timers
        /\ s.isClient /\ ~s.closed /\ s.deferred = "none" /\ ~Resetting(s)
        /\ s.closeReadSent /\ s.closeReadAcked
        /\ ~s.closeWriteSent /\ ~s.closeWriteAcked /\ ~s.closeWriteReceived
        /\ Becomes(e, EmitTerminal(s, "CLOSE_WRITE"))

HasPendingEither(s) == s.sndBuf \cup s.rcvBuf # {} \/ s.tracked # {}   \* mutant
HasPending(s) == s.sndBuf # {} \/ s.tracked # {}

InactivityTimeout(e) ==
    LET s == arq[e]
    IN  /\ "inactivity" \in setting.timers
        /\ ~s.closed /\ s.deferred = "none" /\ ~HasPending(s)
        /\ Becomes(e, CloseReset(s))

(* A control packet expires; a chunk exceeds its retries.                   *)
ControlExpires(e, t) ==
    LET s == [arq[e] EXCEPT !.tracked = @ \ {t}]
    IN  /\ "control" \in setting.timers /\ ~s.closed /\ t \in arq[e].tracked
        /\ Becomes(e, IF t = "RST" THEN FinalizeClose(s, "reset")
                      ELSE CloseReset(s))

DataExpires(e) ==
    /\ "data" \in setting.timers /\ ~arq[e].closed /\ arq[e].sndBuf # {}
    /\ Becomes(e, CloseReset(arq[e]))
-----------------------------------------------------------------------------
Local(e) ==
    \/ IoCheck(e) \/ ReadChunk(e) \/ ReadTimeout(e) \/ ReadEOF(e) \/ ReadError(e)
    \/ WriterTake(e) \/ WriterCheckClose(e) \/ WriteSucceeds(e) \/ WriteFails(e)
    \/ \E n \in arq[e].rx : RxLoop(e, n)

Remote(e) ==
    \/ \E n \in 1 .. setting.data[Peer(e)] : ReceiveData(e, n)
    \/ \E n \in 1 .. setting.data[e] : ReceiveAck(e, n)
    \/ ReceiveCloseRead(e) \/ ReceiveCloseWrite(e) \/ ReceiveRst(e)
    \/ \E t \in Terminal : ReceiveControlAck(e, t)

Timer(e) ==
    \/ DrainTimeout(e) \/ AckWaitTimeout(e) \/ CloseReadGrace(e)
    \/ InactivityTimeout(e) \/ DataExpires(e)
    \/ \E t \in Terminal : ControlExpires(e, t)

Next ==
    /\ \E e \in Ends : Local(e) \/ Remote(e) \/ Timer(e)
    /\ UNCHANGED setting

(* Time passes: a timer that stays armed fires.                             *)
FairTime(e) == WF_arq(setting.timed /\ Timer(e))

(* What is retransmitted, and its acknowledgement, gets through, and the    *)
(* goroutines of the receiving side run.  Nothing is assumed of the readers.*)
Tracked(e, t) == t \in arq[e].tracked
FairNetwork(e) ==
    /\ WF_arq(setting.carried
                /\ \E n \in arq[Peer(e)].sndBuf : ReceiveData(e, n))
    /\ WF_arq(setting.carried /\ \E n \in arq[e].sndBuf : ReceiveAck(e, n))
    /\ WF_arq(setting.carried
                /\ \/ Tracked(Peer(e), "CLOSE_READ") /\ ReceiveCloseRead(e)
                   \/ Tracked(Peer(e), "CLOSE_WRITE") /\ ReceiveCloseWrite(e))
    /\ WF_arq(setting.carried /\ ReceiveRst(e))
    /\ WF_arq(setting.carried /\ \E t \in Terminal : ReceiveControlAck(e, t))

FairReceiver(e) ==
    /\ WF_arq(setting.carried /\ \E n \in arq[e].rx : RxLoop(e, n))
    /\ WF_arq(setting.carried /\ (WriterTake(e) \/ WriterCheckClose(e)
                                    \/ WriteSucceeds(e) \/ WriteFails(e)))

Spec ==
    /\ Init /\ [][Next]_vars
    /\ \A e \in Ends : FairTime(e) /\ FairNetwork(e) /\ FairReceiver(e)
-----------------------------------------------------------------------------
TypeOK ==
    /\ DOMAIN arq = Ends
    /\ \A e \in Ends :
        LET s == arq[e]
        IN  /\ s.io \in {"idle", "reading", "last", "done"}
            /\ s.wr \in {"idle", "writing", "empty", "again", "done"}
            /\ s.read \in 0 .. setting.data[e]
            /\ s.sndBuf \subseteq 1 .. s.read
            /\ s.rx \cup s.rcvBuf \cup s.got \subseteq 1 .. arq[Peer(e)].read
            /\ s.written < s.rcvNxt /\ s.rcvNxt <= setting.data[Peer(e)] + 1
            /\ s.deferred \in {"none", "CLOSE_READ", "RST"}
            /\ s.waiting \in Terminal \cup {"none"}
            /\ s.tracked \cup s.acks \subseteq Terminal
            /\ s.reason \in {"none", "handshake", "disconnect", "reset"}

(* CLOSE_READ is the server's last word: emitTerminalPacketWithTTL sends it when     *)
(* everything read before is with the peer, and nothing is read after it.   *)
ServerLastWord == arq["server"].closeReadSent => arq["server"].sndBuf = {}

(* writeLoop half closes the client's socket only after all of the download:*)
(* the application never takes a part for the whole.                        *)
AllWritten(e) == arq[e].written = arq[Peer(e)].read
WholeDownload ==
    arq["client"].halfClosed /\ ~Resetting(arq["client"]) => AllWritten("client")

(* That holds unless CLOSE_READ, and the last of the data before it, were   *)
(* received after writeLoop had found nothing ready, and before it looked   *)
(* for CLOSE_READ (Overtaken).                                              *)
DownloadComplete == ~arq["client"].late => WholeDownload

(* An end that tryFinalizeRemoteEOF finalized, with a sound socket and no   *)
(* reset, has delivered everything the peer read.  A client whose writer    *)
(* broke may read one chunk more after its CLOSE_READ; it is left out.      *)
HandshakeDelivered ==
    \A e \in Ends :
        /\ arq[e].reason = "handshake" /\ ~arq[e].broken /\ ~Resetting(arq[e])
        /\ e = "server" => ~arq["client"].broken
        => AllWritten(e)

(* .. and its own CLOSE_READ was acknowledged: the peer knows.              *)
AckedBeforeClosed ==
    \A e \in Ends :
        arq[e].reason = "handshake" /\ ~Resetting(arq[e]) => arq[e].closeReadAcked

(* Even when the network is dead and the sockets hang, the timers of        *)
(* retransmitLoop lead each end to finalizeClose.                           *)
AllClosed == \A e \in Ends : arq[e].closed
EveryEndCloses == setting.timed => <>AllClosed

(* Once both applications have ended their data, the handshake finishes at  *)
(* both ends without the help of a timer, if the copies of what was         *)
(* received come to an end.                                                 *)
NoMoreCopies ==
    <>[][\A e \in Ends : (arq'[e].rx \ arq[e].rx) \cap arq[e].got = {}]_arq
HandshakeCompletes ==
    setting.carried /\ NoMoreCopies =>
        (\A e \in Ends : arq[e].io = "done") ~> AllClosed
=============================================================================
