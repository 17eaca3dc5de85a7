----------------------------- MODULE LocalStreams -----------------------------
(****************************************************************************)
(* Local connections and their streams on the client (internal/client/      *)
(* socks_manager.go, tcp_stream.go, stream_client.go, stream_admission.go,  *)
(* async_runtime.go): a connection is admitted, gets an id and a stream,    *)
(* waits for the server's verdict, is told it once, and then data flows.    *)
(*                                                                          *)
(* Handlers of connections, processors of packets and the cleanup worker    *)
(* run concurrently, and the runtime may be restarted, which waits for the  *)
(* processors but not for the handlers.  The server's verdict on a stream   *)
(* may arrive several times, for the id it is on; ARQ is the subject of     *)
(* ARQData and ARQClose.                                                    *)
(****************************************************************************)
EXTENDS Integers, FiniteSets

CONSTANTS
    Locals,          \* local connections
    Socks,           \* those that speak SOCKS, or HTTP, and get a reply
    HTTP,            \* those of them that speak HTTP
    Processors,      \* workers that handle packets
    MaxStreamID,     \* bound of ids: 65535 in the code
    MaxActive,       \* MaxActiveStreams
    MaxRestarts      \* bound

NoStream == 0
Nobody == "nobody"

ASSUME LocalStreamsAssumption ==
    /\ IsFiniteSet(Locals) /\ Socks \subseteq Locals /\ HTTP \subseteq Socks
    /\ MaxStreamID \in Nat \ {0} /\ MaxActive \in Nat \ {0}
    /\ Cardinality(Locals) <= MaxStreamID
    /\ NoStream \notin Locals /\ Nobody \notin Processors

VARIABLES
    handler,     \* of each connection: "new", "admitted", "named", "made", "done"
    streamID,    \* the id it was given, or 0
    lastID,      \* last_stream_id
    streams,     \* active_streams: the connection of each id, or NoStream
    status, terminal,
    arq,         \* "none", "paused", "ready", "closed"
    open,        \* whether the client has not closed the local connection
    replies,     \* history: replies written, per connection
    verdict,     \* of the server on each id of this session: "ok" or "fail", when it has one
    resultMu,    \* socksResultMu of each stream: a processor, or Nobody
    proc,        \* of each processor: where it is and with which stream
    restarts, stopping,
    overtaken    \* history: connections whose id a restart found unused

localVars == <<handler, streamID, lastID, streams, status, terminal, arq, open,
               replies, verdict, resultMu, proc, restarts, stopping, overtaken>>

Idle == [at |-> "idle", of |-> NoStream]
Ended == {"ending", "timewait", "closed"}

LocalInit ==
    /\ handler = [c \in Locals |-> "new"]
    /\ streamID = [c \in Locals |-> NoStream]
    /\ lastID = 0 /\ streams = [i \in 1 .. MaxStreamID |-> NoStream]
    /\ status = [c \in Locals |-> "none"]
    /\ terminal = [c \in Locals |-> FALSE]
    /\ arq = [c \in Locals |-> "none"]
    /\ open = [c \in Locals |-> TRUE]
    /\ replies = [c \in Locals |-> 0]
    /\ verdict = [i \in 1 .. MaxStreamID |-> "none"]
    /\ resultMu = [c \in Locals |-> Nobody]
    /\ proc = [p \in Processors |-> Idle]
    /\ restarts = 0 /\ stopping = FALSE /\ overtaken = {}

Handles(c, from, to) == handler[c] = from /\ handler' = [handler EXCEPT ![c] = to]
Active == {i \in 1 .. MaxStreamID : streams[i] # NoStream}
Removed(c) == [i \in 1 .. MaxStreamID |-> IF streams[i] = c THEN NoStream ELSE streams[i]]
-----------------------------------------------------------------------------
(* The handler of a connection: shouldAdmitNewLocalStream, get_new_stream_id *)
(* and new_stream.  No lock is held from one to the next.  HTTP proxying    *)
(* does not ask for admission.                                              *)
Admit(c) ==
    /\ IF Cardinality(Active) < MaxActive \/ c \in HTTP
       THEN Handles(c, "new", "admitted") /\ UNCHANGED open
       ELSE Handles(c, "new", "done") /\ open' = [open EXCEPT ![c] = FALSE]
    /\ UNCHANGED <<streamID, lastID, streams, status, terminal, arq, replies, verdict,
                   resultMu, proc, restarts, stopping, overtaken>>

\* The first id after the last one that is free, or the first at all.
Unused == (1 .. MaxStreamID) \ Active
Following == {i \in Unused : i > lastID}
NextID ==
    LET from == IF Following # {} THEN Following ELSE Unused
    IN  CHOOSE i \in from : \A j \in from : i <= j

GetNewStreamID(c) ==
    /\ Handles(c, "admitted", "named")
    /\ streamID' = [streamID EXCEPT ![c] = NextID]
    /\ lastID' = NextID
    /\ UNCHANGED <<streams, status, terminal, arq, open, replies, verdict, resultMu,
                   proc, restarts, stopping, overtaken>>

NewStream(c) ==
    /\ Handles(c, "named", "made")
    /\ streams' = [streams EXCEPT ![streamID[c]] = c]
    /\ arq' = [arq EXCEPT ![c] = "paused"]
    /\ UNCHANGED <<streamID, lastID, status, terminal, open, replies, verdict, resultMu,
                   proc, restarts, stopping, overtaken>>

(* The status is set, and the SYN is queued.                                *)
SendSYN(c) ==
    /\ Handles(c, "made", "done")
    /\ status' = [status EXCEPT ![c] = "connecting"]
    /\ UNCHANGED <<streamID, lastID, streams, terminal, arq, open, replies, verdict,
                   resultMu, proc, restarts, stopping, overtaken>>

ServerDecides(c) ==
    /\ handler[c] = "done" /\ arq[c] = "paused"
    /\ streams[streamID[c]] = c /\ verdict[streamID[c]] = "none"
    /\ \E v \in {"ok", "fail"} : verdict' = [verdict EXCEPT ![streamID[c]] = v]
    /\ UNCHANGED <<handler, streamID, lastID, streams, status, terminal, arq, open,
                   replies, resultMu, proc, restarts, stopping, overtaken>>
-----------------------------------------------------------------------------
(* Closing the ARQ of a stream takes the stream out of the table and closes *)
(* the connection (OnARQClosed, finalizeAfterARQClose).                     *)
Finalized(cs) ==
    /\ arq' = [c \in Locals |-> IF c \in cs THEN "closed" ELSE arq[c]]
    /\ status' = [c \in Locals |-> IF c \in cs THEN "closed" ELSE status[c]]
    /\ open' = [c \in Locals |-> open[c] /\ c \notin cs]

(* ARQ gives up, or finishes: the time of the SYN is over, the peer is      *)
(* silent or resets, or the connection ends.                                *)
ARQCloses(c) ==
    /\ arq[c] \in {"paused", "ready"}
    /\ Finalized({c})
    /\ streams' = Removed(c)
    /\ UNCHANGED <<handler, streamID, lastID, terminal, replies, verdict, resultMu,
                   proc, restarts, stopping, overtaken>>

(* asyncStreamCleanupWorker: the status follows the state of ARQ, whose     *)
(* ways of ending are one here.                                             *)
CleanupNotes(c) ==
    /\ ~stopping /\ arq[c] \in {"paused", "ready"} /\ streamID[c] # NoStream
    /\ streams[streamID[c]] = c /\ status[c] \notin {"cancelled", "ending"}
    /\ status' = [status EXCEPT ![c] = "ending"]
    /\ UNCHANGED <<handler, streamID, lastID, streams, terminal, arq, open, replies,
                   verdict, resultMu, proc, restarts, stopping, overtaken>>

(* A stream that was cancelled, or whose ARQ is closed, is removed after a  *)
(* time.                                                                    *)
RemoveStreamOf(c) ==
    /\ ~stopping /\ handler[c] = "done" /\ streamID[c] # NoStream
    /\ streams[streamID[c]] = c
    /\ arq[c] = "closed" \/ (status[c] = "cancelled" /\ terminal[c])
    /\ Finalized({c})
    /\ streams' = Removed(c)
    /\ UNCHANGED <<handler, streamID, lastID, terminal, replies, verdict, resultMu,
                   proc, restarts, stopping, overtaken>>
-----------------------------------------------------------------------------
(* A processor handles the verdict.  The stream is looked up by its id.     *)
Goes(p, from, to) == proc[p].at = from /\ proc' = [proc EXCEPT ![p].at = to]
Stops(p) == proc' = [proc EXCEPT ![p] = Idle]

ResultArrives(p) ==
    /\ proc[p].at = "idle" /\ ~stopping
    /\ \E c \in Locals :
          /\ streamID[c] # NoStream /\ streams[streamID[c]] = c
          /\ verdict[streamID[c]] # "none"
          /\ proc' = [proc EXCEPT ![p] = [at |-> "found", of |-> c]]
    /\ UNCHANGED <<handler, streamID, lastID, streams, status, terminal, arq, open,
                   replies, verdict, resultMu, restarts, stopping, overtaken>>

(* HandleSocksConnected and HandleSocksFailure: under socksResultMu the     *)
(* status says whether a reply is still due.                                *)
Settled(c) ==
    \/ status[c] \in Ended \cup {"failed"}
    \/ status[c] = "active" /\ verdict[streamID[c]] = "ok"
\* Mutant: the status is read before the lock is taken.
CheckUnlocked(p) ==
    LET c == proc[p].of
    IN  /\ proc[p].at = "found" /\ c \in Socks
        /\ IF Settled(c) THEN Stops(p)
           ELSE Goes(p, "found", IF status[c] = "cancelled" THEN "close" ELSE "write")
        /\ UNCHANGED <<handler, streamID, lastID, streams, status, terminal, arq, open,
                       replies, verdict, resultMu, restarts, stopping, overtaken>>
CheckStatus(p) ==
    LET c == proc[p].of
    IN  /\ proc[p].at = "found" /\ c \in Socks /\ resultMu[c] = Nobody
        /\ IF Settled(c) THEN Stops(p) /\ UNCHANGED resultMu
           ELSE IF status[c] = "cancelled"
           THEN Goes(p, "found", "close") /\ UNCHANGED resultMu
           ELSE Goes(p, "found", "write") /\ resultMu' = [resultMu EXCEPT ![c] = p]
        /\ UNCHANGED <<handler, streamID, lastID, streams, status, terminal, arq, open,
                       replies, verdict, restarts, stopping, overtaken>>

(* writeSocksConnectResultLocked.  A write that breaks because the peer is  *)
(* gone resets the stream; one that fails otherwise cancels it.             *)
WriteResult(p) ==
    LET c == proc[p].of
        late == status[c] \in Ended \cup {"cancelled"} \/ terminal[c]
    IN  /\ proc[p].at = "write"
        /\ resultMu' = [resultMu EXCEPT ![c] = Nobody]
        /\ \/ /\ late /\ Goes(p, "write", "close")
              /\ UNCHANGED <<status, terminal, open, replies>>
           \/ /\ ~late
              /\ Goes(p, "write", IF verdict[streamID[c]] = "ok" THEN "ready" ELSE "force")
              /\ replies' = [replies EXCEPT ![c] = @ + 1]
              /\ status' = [status EXCEPT ![c] =
                                IF verdict[streamID[c]] = "ok" THEN "active" ELSE "failed"]
              /\ UNCHANGED <<terminal, open>>
           \/ /\ ~late /\ (Goes(p, "write", "pending") \/ Goes(p, "write", "close"))
              /\ UNCHANGED <<status, terminal, open, replies>>
        /\ UNCHANGED <<handler, streamID, lastID, streams, arq, verdict, restarts, stopping, overtaken>>

(* handlePendingSOCKSLocalClose                                             *)
CancelPending(p) ==
    LET c == proc[p].of
    IN  /\ proc[p].at = "pending" /\ resultMu[c] = Nobody
        /\ IF status[c] = "connecting" /\ streams[streamID[c]] = c
           THEN /\ status' = [status EXCEPT ![c] = "cancelled"]
                /\ terminal' = [terminal EXCEPT ![c] = TRUE]
                /\ open' = [open EXCEPT ![c] = FALSE]
                /\ Goes(p, "pending", "close")
           ELSE Stops(p) /\ UNCHANGED <<status, terminal, open>>
        /\ UNCHANGED <<handler, streamID, lastID, streams, arq, replies, verdict,
                       resultMu, restarts, stopping, overtaken>>

(* For SOCKS the ARQ is found by id once more; it is made ready or closed,  *)
(* with a reset that is still to be acknowledged, or at once.               *)
ApplyResult(p) ==
    LET c == proc[p].of
        id == streamID[c]
        target == IF c \in Socks /\ streams[id] # NoStream THEN streams[id] ELSE c
        gone == arq[target] = "closed" \/ (c \in Socks /\ streams[id] = NoStream)
    IN  /\ proc[p].at \in {"ready", "close", "force"}
        /\ Stops(p)
        /\ IF gone THEN UNCHANGED <<streams, status, arq, open>>
           ELSE IF proc[p].at = "ready"
           THEN arq' = [arq EXCEPT ![target] = "ready"] /\ UNCHANGED <<streams, status, open>>
           ELSE IF proc[p].at = "force"
           THEN Finalized({target}) /\ streams' = Removed(target)
           ELSE UNCHANGED <<streams, status, arq, open>>
        /\ UNCHANGED <<handler, streamID, lastID, terminal, replies, verdict, resultMu,
                       restarts, stopping, overtaken>>

(* handleStreamConnected and handleStreamConnectFail, without a lock.       *)
CheckTCP(p) ==
    LET c == proc[p].of
    IN  /\ proc[p].at = "found" /\ c \notin Socks
        /\ IF status[c] \in Ended \/ (status[c] = "active" /\ verdict[streamID[c]] = "ok")
           THEN Stops(p)
           ELSE Goes(p, "found", IF verdict[streamID[c]] = "ok" THEN "tcp" ELSE "force")
        /\ UNCHANGED <<handler, streamID, lastID, streams, status, terminal, arq, open,
                       replies, verdict, resultMu, restarts, stopping, overtaken>>

ReadyTCP(p) ==
    LET c == proc[p].of
    IN  /\ proc[p].at = "tcp"
        /\ Stops(p)
        /\ arq' = [arq EXCEPT ![c] = IF @ = "paused" THEN "ready" ELSE @]
        /\ status' = [status EXCEPT ![c] = "active"]
        /\ UNCHANGED <<handler, streamID, lastID, streams, terminal, open, replies,
                       verdict, resultMu, restarts, stopping, overtaken>>
-----------------------------------------------------------------------------
(* StopAsyncRuntime waits for the processors and closes all streams; the    *)
(* ids begin anew, in a new session.  Handlers are not waited for: one that *)
(* holds an id it has not used yet goes on to make its stream with it.      *)
StopRuntime ==
    /\ ~stopping /\ restarts < MaxRestarts
    /\ stopping' = TRUE /\ restarts' = restarts + 1
    /\ UNCHANGED <<handler, streamID, lastID, streams, status, terminal, arq, open,
                   replies, verdict, resultMu, proc, overtaken>>

BeginsAnew ==
    /\ stopping /\ \A p \in Processors : proc[p].at = "idle"
    /\ stopping' = FALSE /\ lastID' = 0
    /\ streams' = [i \in 1 .. MaxStreamID |-> NoStream]
    /\ verdict' = [i \in 1 .. MaxStreamID |-> "none"]
    /\ overtaken' = overtaken \cup {c \in Locals : handler[c] = "named"}
    /\ UNCHANGED <<handler, streamID, terminal, replies, resultMu, proc, restarts>>

\* Mutant: the ids begin anew although streams are left.
KeepsStreams ==
    /\ BeginsAnew
    /\ UNCHANGED <<status, arq, open>>
CloseAllStreams ==
    /\ BeginsAnew
    /\ Finalized({streams[i] : i \in Active})

HandlerStep(c) == Admit(c) \/ GetNewStreamID(c) \/ NewStream(c) \/ SendSYN(c)
ProcessorStep(p) ==
    \/ CheckStatus(p) \/ WriteResult(p) \/ CancelPending(p) \/ ApplyResult(p)
    \/ CheckTCP(p) \/ ReadyTCP(p)

LocalNext ==
    \/ \E c \in Locals :
          \/ HandlerStep(c) \/ ServerDecides(c) \/ ARQCloses(c)
          \/ CleanupNotes(c) \/ RemoveStreamOf(c)
    \/ \E p \in Processors : ResultArrives(p) \/ ProcessorStep(p)
    \/ StopRuntime \/ CloseAllStreams

LocalSpec == LocalInit /\ [][LocalNext]_localVars
-----------------------------------------------------------------------------
LocalTypeOK ==
    /\ handler \in [Locals -> {"new", "admitted", "named", "made", "done"}]
    /\ streamID \in [Locals -> 0 .. MaxStreamID] /\ lastID \in 0 .. MaxStreamID
    /\ streams \in [1 .. MaxStreamID -> Locals \cup {NoStream}]
    /\ status \in [Locals -> {"none", "connecting", "active", "failed", "cancelled"} \cup Ended]
    /\ terminal \in [Locals -> BOOLEAN] /\ open \in [Locals -> BOOLEAN]
    /\ replies \in [Locals -> Nat] /\ overtaken \subseteq Locals
    /\ verdict \in [1 .. MaxStreamID -> {"none", "ok", "fail"}]
    /\ arq \in [Locals -> {"none", "paused", "ready", "closed"}]
    /\ proc \in [Processors -> [at : {"idle", "found", "write", "pending", "ready", "close",
                                      "force", "tcp"}, of : Locals \cup {NoStream}]]
    /\ resultMu \in [Locals -> Processors \cup {Nobody}]

\* The connections that have one id because a restart overtook the handler of
\* one of them: last_stream_id is 0 again (async_runtime.go:128) while the id is
\* not in the table yet, so that it is given out a second time.
Sharers ==
    {c \in Locals : \E d \in Locals \ {c} :
        streamID[d] = streamID[c] /\ (c \in overtaken \/ d \in overtaken)}

\* A connection is told the server's verdict at most once, though it comes
\* several times, to several workers, while the clean-up changes the status.
\* One that shares its id may be told twice: the verdict on the other's stream
\* finds it before its handler sets the status (stream_client.go:223-230).
ReplyOnce == \A c \in Socks \ Sharers : replies[c] <= 1

\* The data of a stream flows only after its connection was told.  With a
\* shared id the verdict is applied to the stream that is found by then, which
\* may be the one that was not told.
ToldFirst == \A c \in Socks \ Sharers : arq[c] = "ready" => replies[c] = 1

\* A connection the client holds open has a stream that can be found by its
\* id, through restarts too, unless it shares the id: then the later new_stream
\* overwrites the earlier in the table, and the connection stays open with a
\* stream that nothing serves.
OneOwner ==
    \A c \in Locals \ Sharers : open[c] /\ handler[c] \in {"made", "done"} =>
        streams[streamID[c]] = c /\ arq[c] # "closed"

LocalSound == ReplyOnce /\ ToldFirst /\ OneOwner
=============================================================================
