---------------------------- MODULE DeferredWork ----------------------------
(****************************************************************************)
(* Work the server puts off (internal/udpserver/deferred_session.go, with   *)
(* the packet tracking of server_postsession.go): a DNS query or the setup  *)
(* of a stream is handed to a small pool of workers, on the lane of its     *)
(* session and stream, and is acknowledged at once.  The key of the packet  *)
(* is tracked until the work is done, so that a retransmission is           *)
(* acknowledged without being done again.                                   *)
(*                                                                          *)
(* A handler tracks the key, then enqueues the task; a cleanup forgets      *)
(* keys, then removes lanes; a worker takes a task, then registers its      *)
(* cancel function, then looks whether the task is still wanted: each of    *)
(* these is a step of its own, in any order with the others.                *)
(****************************************************************************)
EXTENDS Queues, Functions

CONSTANTS
    Requests,      \* the packets that ask for deferred work
    LaneOf,        \* the lane of each: <<session, stream>>; stream 0 is DNS
    Workers,       \* how many workers there are (0 .. Workers - 1)
    QueueLimit,    \* capacity of a worker's channel
    MaxArrivals,   \* bound, for each processor: arrivals of requests,
                   \* retransmissions included
    MaxCleanups    \* bound: cleanups that strike while work is going on

(* The server has two processors that share nothing, one for DNS queries    *)
(* and one for the setup of streams; the module is either of them.          *)
Processors == {"dns", "connect"}
Pool == 0 .. Workers - 1
NoWorker == -1
LaneSet == {LaneOf[p] : p \in Requests}
Hosts == {l[1] : l \in LaneSet}

ASSUME DeferredAssumption ==
    /\ Workers \in Nat \ {0} /\ QueueLimit \in Nat \ {0}
    /\ LaneOf \in [Requests -> (Nat \ {0}) \X Nat]
    /\ MaxArrivals \in [Processors -> Nat] /\ MaxCleanups \in Nat

(* deriveDeferredSessionPendingCap                                          *)
Least(a, b) == IF a < b THEN a ELSE b
Greatest(a, b) == IF a < b THEN b ELSE a
PendingCap ==
    Least(Greatest(Least(Greatest(QueueLimit \div 2, 32), 1024), 8),
          Workers * QueueLimit)

Task == [req : Requests, n : Nat \ {0}]
NoTask == [req |-> "none", n |-> 0]

VARIABLES
    processor,    \* which of the two this is
    jobs,         \* the channel of each worker
    busy,         \* the task each worker has taken
    phase,        \* how far it is: "idle", "taken", "working", "finalizing",
                  \* "returning", "done"
    live,         \* the context of that task has not been cancelled
    laneWorker, cancelled, running,
    wpending,     \* pending of each worker
    hpending,     \* sessionPending
    nextWorker,
    tracked,      \* deferredInflight: the requests whose key is held
    handling,     \* tasks of handlers that have tracked the key, not enqueued
    removing,     \* cleanups that have cleared keys, and not yet the lanes
    open,         \* the sessions that are open
    arrivals,     \* arrivals of each request so far
    cleanups,     \* cleanups so far
    answered,     \* history: requests answered
    dropped,      \* history: requests dropped since they last arrived
    collided,     \* history: requests whose context another task ended
    cleared       \* history: requests whose key was forgotten under them

poolVars == <<jobs, busy, phase, live>>
laneVars == <<laneWorker, cancelled, running>>
countVars == <<wpending, hpending, nextWorker>>
defHistory == <<answered, dropped, collided, cleared>>
deferredVars == <<poolVars, laneVars, countVars, tracked, handling, removing,
                  open, arrivals, cleanups, defHistory, processor>>

DeferredInit ==
    /\ jobs = [w \in Pool |-> <<>>]
    /\ busy = [w \in Pool |-> NoTask]
    /\ phase = [w \in Pool |-> "idle"]
    /\ live = [w \in Pool |-> FALSE]
    /\ laneWorker = [l \in LaneSet |-> NoWorker]
    /\ cancelled = {}
    /\ running = [l \in LaneSet |-> NoWorker]
    /\ wpending = [w \in Pool |-> 0]
    /\ hpending = [s \in Hosts |-> 0]
    /\ nextWorker = 0
    /\ tracked = {} /\ handling = {} /\ removing = {}
    /\ open = Hosts
    /\ arrivals = [p \in Requests |-> 0]
    /\ cleanups = 0
    /\ processor \in Processors
    /\ answered = {} /\ dropped = {} /\ collided = {} /\ cleared = {}
-----------------------------------------------------------------------------
(* Arrival of a request: dispatchDeferredSessionPacketTracked, first half.  *)
(* A request whose key is held is acknowledged and left alone.              *)
Host(p) == LaneOf[p][1]
Arrivals == FoldFunction(+, 0, arrivals)

(* Mutant: the key of a request is not looked up.                           *)
BeginTwice(p) ==
    /\ Host(p) \in open /\ Arrivals < MaxArrivals[processor]
    /\ (LaneOf[p][2] = 0) <=> (processor = "dns")
    /\ arrivals' = [arrivals EXCEPT ![p] = @ + 1]
    /\ tracked' = tracked \cup {p}
    /\ handling' = handling \cup {[req |-> p, n |-> arrivals'[p]]}
    /\ dropped' = dropped \ {p} /\ collided' = collided \ {p}
    /\ UNCHANGED <<poolVars, laneVars, countVars, removing, open, cleanups,
                   answered, cleared>>

BeginDeferredPacket(p) ==
    /\ Host(p) \in open /\ Arrivals < MaxArrivals[processor]
    /\ (LaneOf[p][2] = 0) <=> (processor = "dns")
    /\ p \notin tracked
    /\ arrivals' = [arrivals EXCEPT ![p] = @ + 1]
    /\ tracked' = tracked \cup {p}
    /\ handling' = handling \cup {[req |-> p, n |-> arrivals'[p]]}
    /\ dropped' = dropped \ {p} /\ collided' = collided \ {p}
    /\ UNCHANGED <<poolVars, laneVars, countVars, removing, open, cleanups,
                   answered, cleared>>

(* Enqueue: the worker of the lane, else the one with least work, from      *)
(* nextWorker on.  A full channel or a session with too much work refuses.  *)
Turn(k) == (nextWorker + k) % Workers
LeastLoaded ==
    LET better(j, k) == wpending[Turn(j)] < wpending[Turn(k)]
                        \/ (wpending[Turn(j)] = wpending[Turn(k)] /\ j <= k)
    IN  Turn(CHOOSE j \in Pool : \A k \in Pool : better(j, k))

Fits(w) == Len(jobs[w]) < QueueLimit

Put(t, w) ==
    /\ jobs' = [jobs EXCEPT ![w] = Append(@, t)]
    /\ wpending' = [wpending EXCEPT ![w] = @ + 1]
    /\ hpending' = [hpending EXCEPT ![Host(t.req)] = @ + 1]

Enqueue(t) ==
    LET l == LaneOf[t.req]
        known == laneWorker[l] # NoWorker
        w == IF known THEN laneWorker[l] ELSE LeastLoaded
        room == hpending[l[1]] < PendingCap
    IN  /\ t \in handling
        /\ handling' = handling \ {t}
        /\ cancelled' = cancelled \ {l}
        /\ IF room /\ Fits(w)
           THEN /\ Put(t, w)
                /\ laneWorker' = [laneWorker EXCEPT ![l] = w]
                /\ UNCHANGED tracked
           ELSE /\ tracked' = tracked \ {t.req}
                /\ UNCHANGED <<jobs, wpending, hpending, laneWorker>>
        /\ nextWorker' = IF room /\ ~known THEN (w + 1) % Workers ELSE nextWorker
        /\ UNCHANGED <<busy, phase, live, running, removing, open, arrivals,
                       cleanups, defHistory>>
-----------------------------------------------------------------------------
(* The workers.                                                             *)
At(w, from, to) == phase[w] = from /\ phase' = [phase EXCEPT ![w] = to]
LaneAt(w) == LaneOf[busy[w].req]

Take(w) ==
    /\ At(w, "idle", "taken") /\ jobs[w] # <<>>
    /\ busy' = [busy EXCEPT ![w] = Head(jobs[w])]
    /\ jobs' = [jobs EXCEPT ![w] = Tail(@)]
    /\ live' = [live EXCEPT ![w] = TRUE]
    /\ UNCHANGED <<laneVars, countVars, tracked, handling, removing, open,
                   arrivals, cleanups, defHistory>>

(* beginTaskContext: the task of a cancelled lane starts cancelled.         *)
BeginTaskContext(w) ==
    /\ At(w, "taken", "begun")
    /\ IF LaneAt(w) \in cancelled
       THEN live' = [live EXCEPT ![w] = FALSE] /\ UNCHANGED running
       ELSE running' = [running EXCEPT ![LaneAt(w)] = w] /\ UNCHANGED live
    /\ UNCHANGED <<jobs, busy, laneWorker, cancelled, countVars, tracked,
                   handling, removing, open, arrivals, cleanups, defHistory>>

(* wrappedRun: the work is done only if it is still wanted.                 *)
WantedUntracked(w) == live[w] /\ busy[w].req \notin tracked /\ LaneAt(w)[1] \in open
Wanted(w) == live[w] /\ busy[w].req \in tracked /\ LaneAt(w)[1] \in open

StartWork(w) ==
    /\ phase[w] = "begun"
    /\ phase' = [phase EXCEPT ![w] = IF Wanted(w) THEN "working" ELSE "returning"]
    /\ UNCHANGED <<jobs, busy, live, laneVars, countVars, tracked, handling,
                   removing, open, arrivals, cleanups, defHistory>>

(* The work ends with an answer (a DNS response, CONNECTED or a failure),   *)
(* or in silence when the context was cancelled or the session closed.  The *)
(* setup of a stream then finalizes its lane: clears the keys of the        *)
(* stream, and removes what waits on the lane.                              *)
OfLane(l) == {p \in Requests : LaneOf[p] = l}

Answer(w) ==
    LET setup == LaneAt(w)[2] # 0
    IN  /\ live[w] /\ LaneAt(w)[1] \in open
        /\ At(w, "working", IF setup THEN "finalizing" ELSE "returning")
        /\ answered' = answered \cup {busy[w].req}
        /\ IF setup
           THEN /\ tracked' = tracked \ OfLane(LaneAt(w))
                /\ cleared' = cleared \cup OfLane(LaneAt(w))
           ELSE UNCHANGED <<tracked, cleared>>
        /\ UNCHANGED <<jobs, busy, live, laneVars, countVars, handling,
                       removing, open, arrivals, cleanups, dropped, collided>>

Silence(w) ==
    /\ ~(live[w] /\ LaneAt(w)[1] \in open)
    /\ At(w, "working", "returning")
    /\ UNCHANGED <<jobs, busy, live, laneVars, countVars, tracked, handling,
                   removing, open, arrivals, cleanups, defHistory>>

(* finishDeferredPacket, as the task returns.                               *)
FinishKeepsKey(w) ==
    /\ At(w, "returning", "done")
    /\ UNCHANGED <<jobs, busy, live, laneVars, countVars, handling, removing,
                   open, arrivals, cleanups, defHistory, tracked>>
FinishDeferredPacket(w) ==
    /\ At(w, "returning", "done")
    /\ tracked' = tracked \ {busy[w].req}
    /\ UNCHANGED <<jobs, busy, live, laneVars, countVars, handling, removing,
                   open, arrivals, cleanups, defHistory>>

Lower(n) == IF n > 0 THEN n - 1 ELSE 0

(* finishLane: forgets the lane's worker if it is this one, cancels         *)
(* whatever context is registered for the lane, and calls it cancelled no   *)
(* longer.                                                                  *)
FinishLane(w) ==
    LET l == LaneAt(w)
        other == running[l] \notin {NoWorker, w}
    IN  /\ At(w, "done", "idle")
        /\ busy' = [busy EXCEPT ![w] = NoTask]
        /\ wpending' = [wpending EXCEPT ![w] = @ - 1]
        /\ laneWorker' = IF laneWorker[l] = w
                         THEN [laneWorker EXCEPT ![l] = NoWorker] ELSE laneWorker
        /\ live' = [v \in Pool |-> live[v] /\ v \notin {w, running[l]}]
        /\ collided' = IF other THEN collided \cup {busy[running[l]].req}
                       ELSE collided
        /\ running' = [running EXCEPT ![l] = NoWorker]
        /\ cancelled' = cancelled \ {l}
        /\ hpending' = [hpending EXCEPT ![l[1]] = Lower(@)]
        /\ UNCHANGED <<jobs, nextWorker, tracked, handling, removing, open,
                       arrivals, cleanups, answered, dropped, cleared>>
-----------------------------------------------------------------------------
(* Cleanups.  compactQueuesLocked drops the tasks of the lanes removed, and *)
(* of every lane that is cancelled; nobody forgets their keys.              *)
Staying(q, gone) == {i \in 1 .. Len(q) : LaneOf[q[i].req] \notin gone}
Kept(q, gone) == PickedAt(q, Staying(q, gone))
Lost(w, gone) == Len(jobs[w]) - Len(Kept(jobs[w], gone))
LostUncounted(s, gone) == 0
LostOf(s, gone) ==
    Cardinality({x \in Pool \X (1 .. QueueLimit) :
        /\ x[2] <= Len(jobs[x[1]])
        /\ LaneOf[jobs[x[1]][x[2]].req] \in gone
        /\ Host(jobs[x[1]][x[2]].req) = s})

QueuedTasks(w) == {jobs[w][i] : i \in 1 .. Len(jobs[w])}
AllQueued == UNION {QueuedTasks(w) : w \in Pool}

(* Compaction is one critical section with the removal, which has put the   *)
(* lanes `gone' among the cancelled ones.                                   *)
Compact(gone, hit) ==
    LET out == gone \cup cancelled
    IN  /\ jobs' = [w \in Pool |-> Kept(jobs[w], out)]
        /\ wpending' = [w \in Pool |-> wpending[w] - Lost(w, out)]
        /\ hpending' = [s \in Hosts |->
                           Greatest(hpending[s] - LostOf(s, out), 0)]
        /\ dropped' = dropped \cup
                {t.req : t \in {u \in AllQueued : LaneOf[u.req] \in out}} \cup hit
        /\ laneWorker' = [l \in LaneSet |->
                IF \/ l \in gone
                   \/ l \in out /\ \E t \in AllQueued : LaneOf[t.req] = l
                THEN NoWorker ELSE laneWorker[l]]

(* The tasks in hand that a removal strikes: history only.                  *)
Unfinished == {"taken", "begun", "working"}
Struck(gone, phases) ==
    {busy[w].req : w \in {v \in Pool : phase[v] \in phases /\ LaneAt(v) \in gone}}

CancelRunning(lanes) ==
    /\ live' = [w \in Pool |->
                   live[w] /\ \A l \in lanes : running[l] # w]
    /\ running' = [l \in LaneSet |-> IF l \in lanes THEN NoWorker ELSE running[l]]

LanesOf(s) == {l \in LaneSet : l[1] = s}

(* clearDeferredPacketsForSession, on the cleanup of an idle session or of  *)
(* a closed one; then RemoveSession, which leaves a mark only on the lanes  *)
(* that have a worker.                                                      *)
ClearSession(s, closing) ==
    /\ cleanups < MaxCleanups
    /\ s \in open
    /\ cleanups' = cleanups + 1
    /\ open' = IF closing THEN open \ {s} ELSE open
    /\ tracked' = {p \in tracked : Host(p) # s}
    /\ dropped' = dropped \cup {p \in tracked : Host(p) = s}
    /\ cleared' = cleared \cup {p \in tracked : Host(p) = s}
    /\ removing' = removing \cup {<<s, 0>>}
    /\ UNCHANGED <<poolVars, laneVars, countVars, handling, arrivals,
                   answered, collided>>

RemoveSession(s) ==
    LET mapped == {l \in LanesOf(s) : laneWorker[l] # NoWorker}
    IN  /\ <<s, 0>> \in removing
        /\ removing' = removing \ {<<s, 0>>}
        /\ CancelRunning(LanesOf(s))
        /\ cancelled' = cancelled \cup mapped
        /\ Compact(LanesOf(s), Struck(LanesOf(s), Unfinished))
        /\ UNCHANGED <<busy, phase, nextWorker, tracked, handling, open,
                       arrivals, cleanups, answered, collided, cleared>>

(* clearDeferredPacketsForStream: the stream closed, or was reset.          *)
ClearStream(l) ==
    /\ cleanups < MaxCleanups /\ l[2] # 0 /\ l[1] \in open
    /\ cleanups' = cleanups + 1
    /\ tracked' = tracked \ OfLane(l)
    /\ dropped' = dropped \cup (tracked \cap OfLane(l))
    /\ cleared' = cleared \cup (tracked \cap OfLane(l))
    /\ removing' = removing \cup {l}
    /\ UNCHANGED <<poolVars, laneVars, countVars, handling, open, arrivals,
                   answered, collided>>

(* RemoveLane, at the end of that cleanup: the lane is marked cancelled,    *)
(* whether it has a worker or not, so that a task taken from the queue and  *)
(* not begun starts cancelled.                                              *)
RemoveLane(l) ==
    /\ l \in removing /\ l[2] # 0
    /\ removing' = removing \ {l}
    /\ CancelRunning({l})
    /\ cancelled' = cancelled \cup {l}
    /\ Compact({l}, Struck({l}, Unfinished))
    /\ UNCHANGED <<busy, phase, nextWorker, tracked, handling, open, arrivals,
                   cleanups, answered, collided, cleared>>

(* FinalizeLane, by the task itself: it lets the running task be.           *)
FinalizeLane(w) ==
    LET l == LaneAt(w)
    IN  /\ At(w, "finalizing", "returning")
        /\ cancelled' = cancelled \cup {l}
        /\ Compact({l}, Struck({l}, {"taken"}))
        /\ UNCHANGED <<busy, live, running, nextWorker, tracked, handling,
                       removing, open, arrivals, cleanups, answered, collided,
                       cleared>>
-----------------------------------------------------------------------------
WorkerStep(w) ==
    \/ Take(w) \/ BeginTaskContext(w) \/ StartWork(w)
    \/ Answer(w) \/ Silence(w) \/ FinalizeLane(w)
    \/ FinishDeferredPacket(w) \/ FinishLane(w)

HandlerStep == \E t \in handling : Enqueue(t)

DeferredStep ==
    \/ \E p \in Requests : BeginDeferredPacket(p)
    \/ HandlerStep
    \/ \E w \in Pool : WorkerStep(w)
    \/ \E s \in Hosts, closing \in BOOLEAN : ClearSession(s, closing)
    \/ \E s \in Hosts : RemoveSession(s)
    \/ \E l \in LaneSet : ClearStream(l) \/ RemoveLane(l)

DeferredNext == DeferredStep /\ UNCHANGED processor

DeferredSpec == DeferredInit /\ [][DeferredNext]_deferredVars
-----------------------------------------------------------------------------
DeferredTypeOK ==
    /\ processor \in Processors
    /\ jobs \in [Pool -> Seq(Task)] /\ \A w \in Pool : Len(jobs[w]) <= QueueLimit
    /\ busy \in [Pool -> Task \cup {NoTask}]
    /\ phase \in [Pool -> {"idle", "taken", "begun", "working", "finalizing",
                           "returning", "done"}]
    /\ live \in [Pool -> BOOLEAN]
    /\ laneWorker \in [LaneSet -> Pool \cup {NoWorker}]
    /\ running \in [LaneSet -> Pool \cup {NoWorker}]
    /\ cancelled \subseteq LaneSet
    /\ wpending \in [Pool -> Nat] /\ hpending \in [Hosts -> Nat] /\ nextWorker \in Pool
    /\ tracked \subseteq Requests /\ handling \subseteq Task
    /\ removing \subseteq LaneSet \cup (Hosts \X {0}) /\ open \subseteq Hosts
    /\ arrivals \in [Requests -> Nat]
    /\ answered \cup dropped \cup cleared \subseteq Requests
    /\ collided \subseteq Requests \cup {NoTask.req}

Busy == {w \in Pool : phase[w] # "idle"}
InHand == AllQueued \cup {busy[w] : w \in Busy}

\* The books balance through every refusal, removal and compaction: what a
\* session and a worker are charged for is what is queued or in the hands of
\* a worker (sessionPending bounds what one session may queue; a charge never
\* returned would lock it out).
PendingBalances ==
    /\ \A s \in Hosts :
          hpending[s] = Cardinality({t \in InHand : Host(t.req) = s})
    /\ \A w \in Pool :
          wpending[w] = Len(jobs[w]) + IF w \in Busy THEN 1 ELSE 0

\* A retransmission is acknowledged without work only while the work of the
\* first one is still to come: a key that is held has its handler, or a task
\* queued or in hand, or its task was dropped by a cleanup that came between
\* the tracking and the queueing.
TrackedHasTask ==
    \A p \in tracked :
        \/ \E t \in handling \cup InHand : t.req = p
        \/ p \in dropped

\* Two workers never do the work of one request at once, as long as nobody has
\* cleared its key: a cleanup does, and the task that has set up the stream.
NoTwin ==
    \A v, w \in Pool :
        v # w /\ phase[v] = "working" /\ phase[w] = "working"
              /\ busy[v].req = busy[w].req
        => busy[v].req \in cleared

\* A request whose task was queued, and which was acknowledged, is answered in
\* the end, unless its session closed, a cleanup dropped it or forgot its key,
\* or a task of the same lane ended its context.
QueuedAnswered ==
    \A p \in Requests :
        (p \in tracked /\ [req |-> p, n |-> arrivals[p]] \in AllQueued)
            ~> \/ p \in answered \cup collided \cup cleared \cup dropped
               \/ Host(p) \notin open
=============================================================================
