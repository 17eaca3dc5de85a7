--------------------------- MODULE ServerStreams ---------------------------
(****************************************************************************)
(* The streams of one session on the server (internal/udpserver/session.go, *)
(* stream_server.go, server_deferred.go, server_postsession.go): a table of *)
(* stream objects by id, which SYN packets fill, and which three kinds of   *)
(* goroutine empty: the ARQ of a stream that closes, the sweep of terminal  *)
(* streams, and the close of the session.  Setting a stream up takes a dial *)
(* that may outlive the stream; its connection must not outlive it too.     *)
(*                                                                          *)
(* A step is one critical section of StreamsMu or of a stream's mutex.  An  *)
(* object is a number; its id may be taken again by a later object.         *)
(****************************************************************************)
EXTENDS Integers, Sequences, SequencesExt, FiniteSets, Functions

CONSTANTS
    Ids,          \* the ids of data streams; the control stream 0 is left out
    MaxObjects,   \* bound: stream objects ever created
    MaxStreams,   \* MaxStreams of the session
    ClosedCap,    \* closedStreamRecordCap
    Setups        \* the deferred tasks that set up streams

ASSUME ServerStreamsAssumption ==
    /\ Ids \subseteq Nat \ {0} /\ IsFiniteSet(Ids)
    /\ MaxObjects \in Nat \ {0} /\ MaxStreams \in Nat \ {0}
    /\ ClosedCap \in Nat \ {0} /\ Setups \subseteq Nat \ {0}

Objects == 1 .. MaxObjects
None == 0

VARIABLES
    born,       \* objects created so far
    idOf,       \* id of each object
    table,      \* Streams: id -> object
    active,     \* ActiveStreams
    recently,   \* RecentlyClosed: the ids, oldest first
    counter,    \* activeStreamCounter
    shut,       \* closedFlag of the session
    arq,        \* per object: "open" or "closed"
    fin,        \* per object, how far finalizeAfterARQClose is: "no",
                \* "freed", "removed", "noted", "done"
    connected,  \* per object: Connected
    conn,       \* per object: the setup whose connection is UpstreamConn
    setup,      \* per task: [at, id, obj, ctx]
    dialed,     \* the connection of a task: "none", "open", "closed"
    sweep,      \* the sweep, and the object it is at: [at, obj]
    reset,      \* a RST that preprocessInboundPacket has let through: its id
    teardown,   \* closeAllStreams: [at, objs, sub]
    ousted      \* history: objects whose id was removed or noted for an older one

recordVars == <<recently, ousted>>
tableVars == <<table, active, recordVars, counter>>
objectVars == <<arq, fin, connected, conn>>
taskVars == <<setup, dialed>>
streamsVars == <<born, idOf, tableVars, shut, objectVars, taskVars,
                 sweep, reset, teardown>>

Idle == [at |-> "idle", id |-> 0, obj |-> None, ctx |-> FALSE]

StreamsInit ==
    /\ born = 0
    /\ idOf = [o \in Objects |-> 0]
    /\ table = [i \in Ids |-> None]
    /\ active = {}
    /\ recently = <<>>
    /\ counter = 0 /\ shut = FALSE
    /\ arq = [o \in Objects |-> "open"]
    /\ fin = [o \in Objects |-> "no"]
    /\ connected = [o \in Objects |-> FALSE]
    /\ conn = [o \in Objects |-> None]
    /\ setup = [t \in Setups |-> Idle]
    /\ dialed = [t \in Setups |-> "none"]
    /\ sweep = [at |-> "idle", obj |-> None]
    /\ reset = 0
    /\ teardown = [at |-> "no", objs |-> {}, sub |-> 0]
    /\ ousted = {}
-----------------------------------------------------------------------------
(* The table.  removeStream and noteStreamClosed are two critical sections; *)
(* both do nothing once the session is closed.                              *)
Listed == {i \in Ids : table[i] # None}
RecentlyClosed(i) == Contains(recently, i)

Oust(o) == ousted' = ousted \cup ({table[idOf[o]]} \ {None, o})

\* Mutants: the id stays active; the gauge is lowered for a stream not listed.
RemoveButActive(o) ==
    IF shut THEN UNCHANGED <<table, active, counter, ousted>>
    ELSE /\ table' = [table EXCEPT ![idOf[o]] = None]
         /\ counter' = IF idOf[o] \in Listed THEN counter - 1 ELSE counter
         /\ Oust(o) /\ UNCHANGED active
RemoveAndCount(o) ==
    IF shut THEN UNCHANGED <<table, active, counter, ousted>>
    ELSE /\ table' = [table EXCEPT ![idOf[o]] = None]
         /\ active' = active \ {idOf[o]}
         /\ counter' = counter - 1
         /\ Oust(o)

RemoveStream(o) ==
    LET i == idOf[o]
    IN  IF shut THEN UNCHANGED <<table, active, counter, ousted>>
        ELSE /\ table' = [table EXCEPT ![i] = None]
             /\ active' = active \ {i}
             /\ counter' = IF i \in Listed THEN counter - 1 ELSE counter
             /\ Oust(o)

Noted(i) ==
    LET q == Append(RemoveFirst(recently, i), i)
    IN  IF Len(q) > ClosedCap THEN Tail(q) ELSE q
NoteStreamClosed(o) ==
    IF shut THEN UNCHANGED recordVars
    ELSE recently' = Noted(idOf[o]) /\ Oust(o)

(* getOrCreateStream: the object listed, or a new one unless the session is *)
(* closed or has MaxStreams already.  (Found(i) is None when it is refused.)*)
Refused(i) == shut \/ (i \notin Listed /\ Cardinality(Listed) >= MaxStreams)
Found(i) ==
    IF Refused(i) THEN None ELSE IF i \in Listed THEN table[i] ELSE born + 1

CreateStillClosed(i) ==
    IF Refused(i) \/ i \in Listed
    THEN UNCHANGED <<born, idOf, table, active, recordVars, counter>>
    ELSE /\ born < MaxObjects
         /\ born' = born + 1
         /\ idOf' = [idOf EXCEPT ![born'] = i]
         /\ table' = [table EXCEPT ![i] = born']
         /\ counter' = counter + 1
         /\ active' = active \cup {i}
         /\ UNCHANGED recordVars

GetOrCreateStream(i) ==
    IF Refused(i) \/ i \in Listed
    THEN UNCHANGED <<born, idOf, table, active, recordVars, counter>>
    ELSE /\ born < MaxObjects
         /\ born' = born + 1
         /\ idOf' = [idOf EXCEPT ![born'] = i]
         /\ table' = [table EXCEPT ![i] = born']
         /\ recently' = RemoveFirst(recently, i) /\ UNCHANGED ousted
         /\ counter' = counter + 1
         /\ active' = active \cup {i}

PruneRecentlyClosed ==
    /\ recently # <<>> /\ ~shut
    /\ recently' = Tail(recently)
    /\ UNCHANGED <<ousted, born, idOf, table, active, counter, shut,
                   objectVars, taskVars, sweep, reset, teardown>>
-----------------------------------------------------------------------------
(* A SYN: preprocessInboundPacket refuses it when its stream is not listed  *)
(* and closed recently.  Then a deferred task is queued; the handler        *)
(* acknowledges the SYN, which also creates the stream.                     *)
ShouldExecute(i) ==
    /\ ~shut /\ ~RecentlyClosed(i)
    /\ i \in Listed => arq[table[i]] = "open" /\ fin[table[i]] = "no"

Syn(t, i) ==
    /\ setup[t] = Idle /\ ~shut /\ \A u \in 1 .. t - 1 : setup[u] # Idle
    /\ i \in Listed \/ ~RecentlyClosed(i)
    /\ setup' = [setup EXCEPT ![t] =
           [at |-> "queued", id |-> i, obj |-> None, ctx |-> TRUE]]
    /\ GetOrCreateStream(i)
    /\ UNCHANGED <<shut, objectVars, dialed, sweep, reset, teardown>>

(* processDeferredStreamSyn and processDeferredSOCKS5Syn.                   *)
Move(t, from, to) ==
    /\ setup[t].at = from
    /\ setup' = [setup EXCEPT ![t].at = to]

StartSetup(t) ==
    /\ Move(t, "queued", IF setup[t].ctx /\ ShouldExecute(setup[t].id)
                         THEN "creating" ELSE "over")
    /\ UNCHANGED <<born, idOf, tableVars, shut, objectVars, dialed, sweep,
                   reset, teardown>>

CreateForSetup(t) ==
    LET o == Found(setup[t].id)
    IN  /\ setup[t].at = "creating"
        /\ GetOrCreateStream(setup[t].id)
        /\ setup' = [setup EXCEPT ![t].obj = o,
                                  ![t].at = IF o = None \/ connected[o]
                                            THEN "over" ELSE "dialing"]
        /\ UNCHANGED <<shut, objectVars, dialed, sweep, reset, teardown>>

Dial(t) ==
    /\ \/ /\ Move(t, "dialing", "dialed")
          /\ dialed' = [dialed EXCEPT ![t] = "open"]
       \/ Move(t, "dialing", "over") /\ UNCHANGED dialed
    /\ UNCHANGED <<born, idOf, tableVars, shut, objectVars, sweep, reset, teardown>>

CheckLeavesOpen(t) ==
    /\ Move(t, "dialed", IF setup[t].ctx /\ ~shut THEN "attaching" ELSE "over")
    /\ UNCHANGED <<born, idOf, tableVars, shut, objectVars, sweep, reset, teardown,
                   dialed>>

CheckAfterDial(t) ==
    /\ IF setup[t].ctx /\ ~shut
       THEN Move(t, "dialed", "attaching") /\ UNCHANGED dialed
       ELSE /\ Move(t, "dialed", "over")
            /\ dialed' = [dialed EXCEPT ![t] = "closed"]
    /\ UNCHANGED <<born, idOf, tableVars, shut, objectVars, sweep, reset, teardown>>

Attachable(o) ==
    fin[o] = "no" /\ arq[o] = "open" /\ conn[o] = None /\ ~connected[o]

AttachUpstreamConn(t) ==
    LET o == setup[t].obj
    IN  /\ setup[t].at = "attaching"
        /\ IF Attachable(o)
           THEN /\ Move(t, "attaching", "checking")
                /\ conn' = [conn EXCEPT ![o] = t]
                /\ connected' = [connected EXCEPT ![o] = TRUE]
                /\ UNCHANGED dialed
           ELSE /\ Move(t, "attaching", "over")
                /\ dialed' = [dialed EXCEPT ![t] = "closed"]
                /\ UNCHANGED <<conn, connected>>
        /\ UNCHANGED <<born, idOf, tableVars, shut, arq, fin, sweep,
                       reset, teardown>>

CheckAfterAttach(t) ==
    /\ Move(t, "checking", "over")
    /\ dialed' = IF ShouldExecute(setup[t].id) THEN dialed
                 ELSE [dialed EXCEPT ![t] = "closed"]
    /\ UNCHANGED <<born, idOf, tableVars, shut, objectVars, sweep, reset, teardown>>
-----------------------------------------------------------------------------
(* The end of an object.  finalizeAfterARQClose runs once, whoever calls it *)
(* first; it frees the resources, removes the stream by its id, notes the   *)
(* id, and clears the lane of its setup.                                    *)
ClosedConn(o) ==
    IF conn[o] = None THEN dialed ELSE [dialed EXCEPT ![conn[o]] = "closed"]

CleanupResources(o) ==
    /\ connected' = [connected EXCEPT ![o] = FALSE]
    /\ dialed' = ClosedConn(o)
    /\ conn' = [conn EXCEPT ![o] = None]

Freed(o) == [fin EXCEPT ![o] = IF @ = "no" THEN "freed" ELSE @]

ARQCloses(o) ==
    /\ o <= born /\ arq[o] = "open"
    /\ arq' = [arq EXCEPT ![o] = "closed"]
    /\ UNCHANGED <<born, idOf, tableVars, shut, fin, connected, conn,
                   taskVars, sweep, reset, teardown>>

Finalize(o) ==
    /\ arq[o] = "closed" /\ fin[o] = "no"
    /\ fin' = Freed(o)
    /\ CleanupResources(o)
    /\ UNCHANGED <<born, idOf, tableVars, shut, arq, setup, sweep, reset, teardown>>

CancelLane(i) ==
    setup' = [t \in Setups |-> [setup[t] EXCEPT !.ctx = @ /\ setup[t].id # i]]

OnStreamClosed(o) ==
    LET i == idOf[o]
    IN  \/ /\ fin[o] = "freed"
           /\ fin' = [fin EXCEPT ![o] = "removed"]
           /\ RemoveStream(o)
           /\ UNCHANGED <<born, idOf, recently, shut, arq,
                          connected, conn, taskVars, sweep, reset, teardown>>
        \/ /\ fin[o] = "removed"
           /\ fin' = [fin EXCEPT ![o] = "noted"]
           /\ NoteStreamClosed(o)
           /\ UNCHANGED <<born, idOf, table, active, counter,
                          shut, arq, connected, conn, taskVars, sweep,
                          reset, teardown>>
        \/ /\ fin[o] = "noted"
           /\ fin' = [fin EXCEPT ![o] = "done"]
           /\ CancelLane(i)
           /\ UNCHANGED <<born, idOf, tableVars, shut, arq, connected,
                          conn, dialed, sweep, reset, teardown>>

(* A RST: let through because its stream was listed, handled later.         *)
ResetArrives(i) ==
    /\ reset = 0 /\ i \in Listed /\ ~shut
    /\ reset' = i
    /\ UNCHANGED <<born, idOf, tableVars, shut, objectVars, taskVars, sweep,
                   teardown>>

HandleStreamRST ==
    LET i == reset
    IN  /\ i # 0
        /\ reset' = 0
        /\ CancelLane(i)
        /\ IF shut THEN UNCHANGED <<arq, active, recordVars>>
           ELSE IF i \in Listed
           THEN /\ active' = active \ {i}
                /\ arq' = [arq EXCEPT ![table[i]] = "closed"]
                /\ UNCHANGED recordVars
           ELSE /\ recently' = Noted(i) /\ UNCHANGED ousted
                /\ UNCHANGED <<arq, active>>
        /\ UNCHANGED <<born, idOf, table, counter, shut, fin,
                       connected, conn, dialed, sweep, teardown>>

(* cleanupTerminalStreams: takes an object that is closed, aborts and       *)
(* finalizes it (waiting for whoever is finalizing it already), then        *)
(* removes its id once more.                                                *)
SweepAt(at, o) == sweep' = [at |-> at, obj |-> o]

SweepAborts(o) ==
    /\ sweep.at = "idle" /\ ~shut
    /\ o <= born /\ table[idOf[o]] = o /\ (arq[o] = "closed" \/ fin[o] # "no")
    /\ SweepAt("aborted", o)
    /\ fin' = Freed(o)
    /\ CleanupResources(o)
    /\ UNCHANGED <<born, idOf, tableVars, shut, arq, setup, reset, teardown>>

SweepRemoves ==
    \/ /\ sweep.at = "aborted" /\ fin[sweep.obj] = "done"
       /\ SweepAt("removed", sweep.obj)
       /\ RemoveStream(sweep.obj)
       /\ UNCHANGED <<born, idOf, recently, shut, objectVars, taskVars,
                      reset, teardown>>
    \/ /\ sweep.at = "removed"
       /\ SweepAt("idle", None)
       /\ NoteStreamClosed(sweep.obj)
       /\ UNCHANGED <<born, idOf, table, active, counter,
                      shut, objectVars, taskVars, reset, teardown>>
-----------------------------------------------------------------------------
(* The session closes: closeAllStreams, then its deferred work is removed.  *)
MarkClosed ==
    /\ ~shut /\ shut' = TRUE
    /\ UNCHANGED <<born, idOf, tableVars, objectVars, taskVars, sweep, reset,
                   teardown>>

CollectStreams ==
    /\ shut /\ teardown.at = "no"
    /\ teardown' = [teardown EXCEPT !.at = "closing",
                                    !.objs = {table[i] : i \in Listed}]
    /\ UNCHANGED <<born, idOf, tableVars, shut, objectVars, taskVars, sweep, reset>>

CloseOne(o) ==
    /\ teardown.at = "closing" /\ o \in teardown.objs
    /\ arq[o] = "open" \/ fin[o] = "no"
    /\ arq' = [arq EXCEPT ![o] = "closed"]
    /\ fin' = Freed(o)
    /\ CleanupResources(o)
    /\ UNCHANGED <<born, idOf, tableVars, shut, setup, sweep, reset, teardown>>

ClearStreams ==
    /\ teardown.at = "closing"
    /\ \A o \in teardown.objs : arq[o] = "closed" /\ fin[o] = "done"
    /\ teardown' = [teardown EXCEPT !.at = "cleared", !.sub = Cardinality(Listed)]
    /\ table' = [i \in Ids |-> None]
    /\ active' = {}
    /\ UNCHANGED <<born, idOf, recordVars, counter, shut, objectVars,
                   taskVars, sweep, reset>>

CountNothing ==
    /\ teardown.at = "cleared"
    /\ teardown' = [teardown EXCEPT !.at = "done", !.sub = 0]
    /\ setup' = [t \in Setups |-> [setup[t] EXCEPT !.ctx = FALSE]]
    /\ UNCHANGED <<born, idOf, table, active, recordVars, shut, counter,
                   objectVars, dialed, sweep, reset>>

CountCleared ==
    /\ teardown.at = "cleared"
    /\ teardown' = [teardown EXCEPT !.at = "done", !.sub = 0]
    /\ counter' = counter - teardown.sub
    /\ setup' = [t \in Setups |-> [setup[t] EXCEPT !.ctx = FALSE]]
    /\ UNCHANGED <<born, idOf, table, active, recordVars, shut,
                   objectVars, dialed, sweep, reset>>
-----------------------------------------------------------------------------
SetupStep(t) ==
    \/ StartSetup(t) \/ CreateForSetup(t) \/ Dial(t)
    \/ CheckAfterDial(t) \/ AttachUpstreamConn(t) \/ CheckAfterAttach(t)

ObjectStep(o) == Finalize(o) \/ OnStreamClosed(o)

TeardownStep ==
    \/ CollectStreams \/ (\E o \in Objects : CloseOne(o))
    \/ ClearStreams \/ CountCleared

StreamsNext ==
    \/ PruneRecentlyClosed
    \/ \E t \in Setups, i \in Ids : Syn(t, i)
    \/ \E t \in Setups : SetupStep(t)
    \/ \E o \in Objects : ARQCloses(o) \/ ObjectStep(o) \/ SweepAborts(o)
    \/ \E i \in Ids : ResetArrives(i)
    \/ HandleStreamRST \/ SweepRemoves
    \/ MarkClosed \/ TeardownStep

-----------------------------------------------------------------------------
StreamsTypeOK ==
    /\ born \in 0 .. MaxObjects
    /\ table \in [Ids -> Objects \cup {None}]
    /\ active \subseteq Ids /\ recently \in Seq(Ids) /\ Len(recently) <= ClosedCap
    /\ counter \in 0 .. MaxStreams
    /\ dialed \in [Setups -> {"none", "open", "closed"}]
    /\ conn \in [Objects -> Setups \cup {None}]

\* Each connection dialed is in the hands of the task that dialed it, or is
\* the connection of one stream whose cleanup is still to come: none is left
\* open with nobody to close it, however the dial races the closing of the
\* stream or of the session.
InHands(t) == setup[t].at \in {"dialed", "attaching"}
ConnOwned ==
    \A t \in Setups :
        dialed[t] = "open" =>
            \/ InHands(t)
            \/ \E o \in Objects : conn[o] = t /\ fin[o] = "no"

\* What the client is told is connected is: a stream that answers CONNECTED
\* to a repeated SYN has its connection open, as long as it is alive itself;
\* but a stream created between removeStream and noteStreamClosed of an older
\* one has its id ousted, its connection closed as stale, and stays Connected.
ConnectedWorks ==
    \A o \in Objects \ ousted :
        connected[o] /\ arq[o] = "open" /\ ~shut => dialed[conn[o]] = "open"

\* A stream is forgotten only when it is over: one that is alive stays in the
\* table, and the dispatcher's active set names listed streams only; but for a
\* stream created while an older one of the same id was being removed.  And
\* though a stream may be removed several times, by three parties, the gauge
\* stays what the table holds, but for what closeAllStreams has cleared and not
\* yet subtracted.
TableExact ==
    /\ counter = Cardinality(Listed) + teardown.sub
    /\ active \subseteq Listed
    /\ ~shut => \A o \in (1 .. born) \ ousted :
           arq[o] = "open" => table[idOf[o]] = o

\* Once the session is closed, everything it held is released in the end: its
\* streams are finalized and forgotten, the gauge gives them back, and no
\* connection stays open; but for a stream that the end of an older one took
\* out of the table, which closeAllStreams does not see.
Released ==
    /\ teardown.at = "done" /\ Listed = {} /\ counter = 0
    /\ \A o \in (1 .. born) \ ousted : fin[o] = "done"
    /\ \A t \in Setups : dialed[t] = "open" => \E o \in ousted : conn[o] = t
SessionReleased == shut ~> Released
=============================================================================
