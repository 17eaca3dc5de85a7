---------------------------- MODULE StreamsProofs ----------------------------
(****************************************************************************)
(* The components of MCStreams, for any streams, requests, packets and      *)
(* limits.  The server's deferred work (DeferredWork): the books balance, a *)
(* key that is held has its task, and no request is worked on twice at      *)
(* once; all three rest on one fact, that a task is at one place at a time. *)
(* The stream table of a session (ServerStreams): no connection is left     *)
(* open with nobody to close it, and the table, the active set and the      *)
(* gauge agree.  The client's dispatcher (Dispatcher): it does not sleep    *)
(* over work, and every block has the id of its stream.  Then all of them   *)
(* together.                                                                *)
(****************************************************************************)
EXTENDS MCStreams, QueuesProofs

-----------------------------------------------------------------------------
(* The server's deferred work.                                              *)

Occupied(w) == phase[w] \notin {"idle", "done"}
Alive == handling \cup AllQueued \cup {busy[w] : w \in {v \in Pool : Occupied(v)}}

\* A worker that is busy has a task.
Holding == \A w \in Busy : busy[w] \in Task

\* A task is at one place of one channel, or with one worker or one handler.
OnePlace ==
    /\ \A w, v \in Pool : \A i \in 1 .. Len(jobs[w]), j \in 1 .. Len(jobs[v]) :
          jobs[w][i] = jobs[v][j] => w = v /\ i = j
    /\ \A w, v \in Busy : busy[w] = busy[v] => w = v
    /\ \A w \in Busy : busy[w] \notin AllQueued
    /\ handling \cap InHand = {}

\* Tasks are numbered by the arrivals of their request.
Numbered == \A t \in handling \cup InHand : t.n <= arrivals[t.req]

\* A key that is held has a task that will let it go.
HeldByTask == \A p \in tracked : (\E t \in Alive : t.req = p) \/ p \in dropped

\* A request whose key nobody has cleared has at most one task alive, which
\* holds the key.
SoleTask ==
    \A t \in Alive : t.req \notin cleared =>
        /\ t.req \in tracked
        /\ \A u \in Alive : u.req = t.req => u = t

DeferredInv ==
    /\ DeferredTypeOK /\ Holding
    /\ OnePlace /\ Numbered
    /\ PendingBalances
    /\ HeldByTask /\ SoleTask
-----------------------------------------------------------------------------
(* The workers, and what compaction leaves of their channels.               *)

\* There are finitely many workers, and finitely many places in a queue.
LEMMA PoolIsFinite == IsFiniteSet(Pool) /\ IsFiniteSet(1 .. QueueLimit)
<1>1. QueueLimit \in Nat /\ 0 \in Int /\ Workers - 1 \in Int
  BY DeferredAssumption
<1>2. IsFiniteSet(0 .. Workers - 1)
  BY <1>1, FS_Interval
<1>3. IsFiniteSet(1 .. QueueLimit)
  BY <1>1, CountTo
<1> QED
  BY <1>2, <1>3 DEF Pool


\* Compaction keeps the tasks of the other lanes, each as often as it was
\* there.
LEMMA KeptProperties ==
    ASSUME NEW q \in Seq(Task), NEW gone
    PROVE  /\ Staying(q, gone) \in SUBSET (1 .. Len(q))
           /\ Kept(q, gone) \in Seq(Task)
           /\ Len(Kept(q, gone)) = Cardinality(Staying(q, gone))
           /\ Len(Kept(q, gone)) \in Nat /\ Len(Kept(q, gone)) <= Len(q)
           /\ \E f \in Bijection(1 .. Len(Kept(q, gone)), Staying(q, gone)) :
                 \A k \in 1 .. Len(Kept(q, gone)) : Kept(q, gone)[k] = q[f[k]]
<1>1. Staying(q, gone) \in SUBSET (1 .. Len(q))
  BY DEF Staying
<1> QED
  BY <1>1, PickedProperties DEF Kept
-----------------------------------------------------------------------------
(* Where the tasks are.                                                     *)

\* A request has a lane, and its lane a session.
LEMMA LaneKnown ==
    /\ \A p \in Requests : LaneOf[p] \in LaneSet /\ Host(p) \in Hosts
    /\ \A l \in LaneSet : l[1] \in Hosts
BY DeferredAssumption DEF LaneSet, Hosts, Host

\* What is queued, and what is in hand, are finite sets of tasks.
LEMMA TasksInHand ==
    ASSUME DeferredTypeOK, Holding
    PROVE  /\ AllQueued \subseteq Task /\ InHand \subseteq Task
           /\ IsFiniteSet(AllQueued) /\ IsFiniteSet(InHand)
<1> DEFINE P == {x \in Pool \X (1 .. QueueLimit) : x[2] <= Len(jobs[x[1]])}
           f == [x \in P |-> jobs[x[1]][x[2]]]
           B == {busy[w] : w \in Busy}
           g == [w \in Busy |-> busy[w]]
<1>1. \A w \in Pool : jobs[w] \in Seq(Task) /\ Len(jobs[w]) \in 0 .. QueueLimit
  <2> TAKE w \in Pool
  <2>1. jobs[w] \in Seq(Task) /\ Len(jobs[w]) <= QueueLimit
    BY DEF DeferredTypeOK
  <2>2. Len(jobs[w]) \in Nat
    BY <2>1, LenProperties
  <2> QED
    BY <2>1, <2>2, DeferredAssumption
<1>2. \A w \in Pool : \A i \in 1 .. Len(jobs[w]) : jobs[w][i] \in Task
  BY <1>1, ElementOfSeq
<1>3. AllQueued \subseteq Task
  BY <1>2 DEF AllQueued, QueuedTasks
<1>4. Busy \subseteq Pool /\ B \subseteq Task
  BY DEF Busy, Holding
<1>5. IsFiniteSet(Pool) /\ IsFiniteSet(1 .. QueueLimit)
  BY PoolIsFinite
<1>6. IsFiniteSet(P)
  <2>1. IsFiniteSet(Pool \X (1 .. QueueLimit))
    BY <1>5, FS_Product
  <2> QED
    BY <2>1, FS_Subset
<1>7. f \in Surjection(P, AllQueued)
  <2>1. \A x \in P : x[1] \in Pool /\ x[2] \in 1 .. Len(jobs[x[1]])
    <3> TAKE x \in P
    <3>1. x[1] \in Pool /\ x[2] \in 1 .. QueueLimit /\ x[2] <= Len(jobs[x[1]])
      OBVIOUS
    <3> QED
      BY <3>1, <1>1
  <2>2. f \in [P -> AllQueued]
    BY <2>1 DEF AllQueued, QueuedTasks
  <2>3. ASSUME NEW t \in AllQueued PROVE \E x \in P : f[x] = t
    <3>1. PICK w \in Pool : \E i \in 1 .. Len(jobs[w]) : jobs[w][i] = t
      BY DEF AllQueued, QueuedTasks
    <3>2. PICK i \in 1 .. Len(jobs[w]) : jobs[w][i] = t
      BY <3>1
    <3>3. i \in 1 .. QueueLimit /\ i <= Len(jobs[w])
      BY <1>1, DeferredAssumption
    <3>4. <<w, i>> \in P
      BY <3>3
    <3> QED
      BY <3>2, <3>4
  <2> HIDE DEF f, P
  <2> QED
    BY <2>2, <2>3 DEF Surjection
<1>8. IsFiniteSet(AllQueued)
  <2> HIDE DEF f, P
  <2> QED
    BY <1>6, <1>7, FS_Surjection
<1>9. IsFiniteSet(B)
  <2>1. IsFiniteSet(Busy)
    BY <1>4, <1>5, FS_Subset
  <2>2. g \in Surjection(Busy, B)
    BY DEF Surjection
  <2> HIDE DEF g, B
  <2> QED
    BY <2>1, <2>2, FS_Surjection
<1> QED
  BY <1>3, <1>4, <1>8, <1>9, FS_Union DEF InHand

\* At the start there is no work.
LEMMA DeferredInvInit == DeferredInit => DeferredInv
<1> SUFFICES ASSUME DeferredInit PROVE DeferredInv
  OBVIOUS
<1> USE DEF DeferredInit
<1>1. DeferredTypeOK
  <2>1. /\ jobs \in [Pool -> Seq(Task)] /\ \A w \in Pool : Len(jobs[w]) <= QueueLimit
        /\ busy \in [Pool -> Task \cup {NoTask}]
    BY DeferredAssumption, EmptySeq
  <2>2. /\ phase \in [Pool -> {"idle", "taken", "begun", "working", "finalizing",
                               "returning", "done"}]
        /\ live \in [Pool -> BOOLEAN]
    OBVIOUS
  <2>3. /\ laneWorker \in [LaneSet -> Pool \cup {NoWorker}]
        /\ running \in [LaneSet -> Pool \cup {NoWorker}]
    OBVIOUS
  <2>4. /\ wpending \in [Pool -> Nat] /\ hpending \in [Hosts -> Nat] /\ nextWorker \in Pool
        /\ arrivals \in [Requests -> Nat]
    BY DeferredAssumption DEF Pool
  <2>5. /\ cancelled = {} /\ tracked = {} /\ handling = {} /\ removing = {}
        /\ open = Hosts /\ processor \in Processors
        /\ answered = {} /\ dropped = {} /\ collided = {} /\ cleared = {}
    OBVIOUS
  <2> QED
    BY <2>1, <2>2, <2>3, <2>4, <2>5 DEF DeferredTypeOK
<1>2. Busy = {}
  BY DEF Busy
<1>3. \A w \in Pool : jobs[w] = <<>> /\ Len(jobs[w]) = 0
  BY EmptySeq
<1>4. AllQueued = {} /\ InHand = {}
  BY <1>2, <1>3 DEF AllQueued, QueuedTasks, InHand
<1>5. Holding /\ OnePlace /\ Numbered
  BY <1>2, <1>3, <1>4 DEF Holding, OnePlace, Numbered
<1>6. PendingBalances
  <2>1. \A s \in Hosts : {t \in InHand : Host(t.req) = s} = {}
    BY <1>4
  <2>2. \A s \in Hosts : hpending[s] = Cardinality({t \in InHand : Host(t.req) = s})
    BY <2>1, FS_EmptySet
  <2>3. \A w \in Pool : wpending[w] = Len(jobs[w]) + IF w \in Busy THEN 1 ELSE 0
    BY <1>2, <1>3
  <2> QED
    BY <2>2, <2>3 DEF PendingBalances
<1>7. HeldByTask /\ SoleTask
  BY <1>4 DEF HeldByTask, SoleTask, Alive, Occupied
<1> QED
  BY <1>1, <1>5, <1>6, <1>7 DEF DeferredInv
-----------------------------------------------------------------------------
(* Steps that move no task.                                                 *)

\* As long as no task moves, places, numbers and books stay right.
LEMMA NoTaskMoves ==
    ASSUME DeferredInv, UNCHANGED <<jobs, busy, handling, arrivals, wpending, hpending>>,
           Busy' = Busy
    PROVE  /\ AllQueued' = AllQueued /\ InHand' = InHand
           /\ Holding' /\ OnePlace' /\ Numbered' /\ PendingBalances'
<1>1. AllQueued' = AllQueued
  BY DEF AllQueued, QueuedTasks
<1>2. InHand' = InHand
  BY <1>1 DEF InHand
<1>3. Holding' /\ OnePlace' /\ Numbered'
  BY <1>1, <1>2 DEF DeferredInv, Holding, OnePlace, Numbered
<1>4. PendingBalances'
  BY <1>2 DEF DeferredInv, PendingBalances
<1> QED
  BY <1>1, <1>2, <1>3, <1>4

\* A worker that goes on with its task stays busy.
LEMMA GoesOn ==
    ASSUME DeferredTypeOK, NEW w \in Pool, phase[w] # "idle", NEW to, to # "idle",
           phase' = [phase EXCEPT ![w] = to]
    PROVE  Busy' = Busy
BY DEF DeferredTypeOK, Busy

\* A task that a worker goes on with stays alive until it has let its key go.
LEMMA StaysAlive ==
    ASSUME DeferredInv, UNCHANGED <<jobs, busy, handling>>,
           NEW w \in Pool, NEW f \in {"taken", "begun", "working", "finalizing"},
           NEW to \in {"begun", "working", "finalizing", "returning"},
           phase[w] = f, phase' = [phase EXCEPT ![w] = to]
    PROVE  Busy' = Busy /\ Alive' = Alive
<1>1. AllQueued' = AllQueued
  BY DEF AllQueued, QueuedTasks
<1>2. \A v \in Pool : Occupied(v)' <=> Occupied(v)
  BY DEF DeferredInv, DeferredTypeOK, Occupied
<1>3. Busy' = Busy
  BY GoesOn DEF DeferredInv
<1> QED
  BY <1>1, <1>2, <1>3 DEF Alive

\* What a worker holds is a task on a lane.
LEMMA HeldLane ==
    ASSUME DeferredInv, NEW w \in Pool, phase[w] # "idle"
    PROVE  /\ w \in Busy /\ busy[w] \in Task /\ busy[w] \in InHand
           /\ busy[w].req \in Requests /\ LaneAt(w) \in LaneSet /\ LaneAt(w)[1] \in Hosts
BY LaneKnown DEF DeferredInv, Holding, Busy, InHand, LaneAt, Task

\* The context of a task is registered, or cancelled from the start.
LEMMA BeginTaskContextKeeps ==
    ASSUME DeferredInv, UNCHANGED processor, NEW w \in Pool, BeginTaskContext(w)
    PROVE  DeferredInv'
<1> USE DEF BeginTaskContext, At, laneVars, countVars, defHistory
<1>1. LaneAt(w) \in LaneSet
  BY HeldLane
<1>2. DeferredTypeOK'
  BY <1>1 DEF DeferredInv, DeferredTypeOK
<1>3. Busy' = Busy /\ Alive' = Alive
  BY StaysAlive
<1>4. (HeldByTask /\ SoleTask)'
  BY <1>3 DEF DeferredInv, HeldByTask, SoleTask
<1> QED
  BY <1>2, <1>3, <1>4, NoTaskMoves DEF DeferredInv

\* The work starts, or is not wanted any more, or ends in silence.
LEMMA StartOrSilenceKeeps ==
    ASSUME DeferredInv, UNCHANGED processor, NEW w \in Pool, StartWork(w) \/ Silence(w)
    PROVE  DeferredInv'
<1> USE DEF StartWork, Silence, At, laneVars, countVars, defHistory
<1>1. PICK to \in {"working", "returning"} :
         phase[w] \in {"begun", "working"} /\ phase' = [phase EXCEPT ![w] = to]
  BY DEF Wanted
<1>2. DeferredTypeOK'
  BY <1>1 DEF DeferredInv, DeferredTypeOK
<1>3. Busy' = Busy /\ Alive' = Alive
  BY <1>1, StaysAlive
<1>4. (HeldByTask /\ SoleTask)'
  BY <1>3 DEF DeferredInv, HeldByTask, SoleTask
<1> QED
  BY <1>2, <1>3, <1>4, NoTaskMoves DEF DeferredInv

\* The work ends with an answer; a setup forgets the keys of its stream.
LEMMA AnswerKeeps ==
    ASSUME DeferredInv, UNCHANGED processor, NEW w \in Pool, Answer(w)
    PROVE  DeferredInv'
<1> USE DEF Answer, At, laneVars, countVars
<1>1. PICK to \in {"finalizing", "returning"} :
         phase[w] = "working" /\ phase' = [phase EXCEPT ![w] = to]
  OBVIOUS
<1>2. busy[w].req \in Requests
  BY <1>1, HeldLane
<1>3. PICK S \in SUBSET Requests :
         tracked' = tracked \ S /\ cleared' = cleared \cup S
  <2>1. CASE LaneAt(w)[2] # 0
    BY <2>1 DEF OfLane
  <2>2. CASE LaneAt(w)[2] = 0
    <3>1. tracked' = tracked \ {} /\ cleared' = cleared \cup {}
      BY <2>2
    <3> QED
      BY <3>1
  <2> QED
    BY <2>1, <2>2
<1>4. DeferredTypeOK'
  BY <1>1, <1>2, <1>3 DEF DeferredInv, DeferredTypeOK
<1>5. Busy' = Busy /\ Alive' = Alive
  BY <1>1, StaysAlive
<1>6. (HeldByTask /\ SoleTask)'
  BY <1>3, <1>5 DEF DeferredInv, HeldByTask, SoleTask
<1> QED
  BY <1>4, <1>5, <1>6, NoTaskMoves DEF DeferredInv

\* The task returns and lets its key go.
LEMMA FinishDeferredPacketKeeps ==
    ASSUME DeferredInv, UNCHANGED processor, NEW w \in Pool, FinishDeferredPacket(w)
    PROVE  DeferredInv'
<1> USE DEF FinishDeferredPacket, At, laneVars, countVars, defHistory
<1>1. DeferredTypeOK'
  BY DEF DeferredInv, DeferredTypeOK
<1>2. Busy' = Busy
  BY GoesOn DEF DeferredInv
<1>3. Alive' \subseteq Alive /\ Alive \subseteq Alive' \cup {busy[w]} /\ busy[w] \in Alive
  <2>1. AllQueued' = AllQueued
    BY DEF AllQueued, QueuedTasks
  <2>2. /\ Occupied(w) /\ \A v \in Pool : Occupied(v)' => Occupied(v)
        /\ \A v \in Pool \ {w} : Occupied(v)' <=> Occupied(v)
    BY DEF DeferredInv, DeferredTypeOK, Occupied
  <2> QED
    BY <2>1, <2>2 DEF Alive
<1>4. busy[w] \notin Alive'
  <2>1. ~Occupied(w)'
    BY DEF DeferredInv, DeferredTypeOK, Occupied
  <2>2. busy[w] \notin handling /\ busy[w] \notin AllQueued
    BY HeldLane DEF DeferredInv, OnePlace
  <2>3. AllQueued' = AllQueued
    BY DEF AllQueued, QueuedTasks
  <2>4. ASSUME NEW v \in Pool, Occupied(v)' PROVE busy[v] # busy[w]
    <3>1. v # w /\ v \in Busy /\ w \in Busy
      BY <1>2, <2>1, <2>4, HeldLane DEF Occupied, Busy
    <3> QED
      BY <3>1 DEF DeferredInv, OnePlace
  <2> QED
    BY <2>2, <2>3, <2>4 DEF Alive
<1>5. HeldByTask'
  <2>1. SUFFICES ASSUME NEW p \in tracked, p # busy[w].req, p \notin dropped
                 PROVE  \E t \in Alive' : t.req = p
    BY DEF HeldByTask
  <2>2. PICK t \in Alive : t.req = p
    BY <2>1 DEF DeferredInv, HeldByTask
  <2> QED
    BY <2>1, <2>2, <1>3
<1>6. SoleTask'
  <2>1. SUFFICES ASSUME NEW t \in Alive', t.req \notin cleared
                 PROVE  /\ t.req \in tracked \ {busy[w].req}
                        /\ \A u \in Alive' : u.req = t.req => u = t
    BY DEF SoleTask
  <2>2. t.req \in tracked /\ \A u \in Alive : u.req = t.req => u = t
    BY <2>1, <1>3 DEF DeferredInv, SoleTask
  <2>3. t.req # busy[w].req
    BY <2>1, <2>2, <1>3, <1>4
  <2> QED
    BY <2>2, <2>3, <1>3
<1> QED
  BY <1>1, <1>2, <1>5, <1>6, NoTaskMoves DEF DeferredInv

\* A cleanup forgets the keys of a session or of a stream.
LEMMA ClearingKeeps ==
    ASSUME DeferredInv, UNCHANGED processor,
           \/ \E s \in Hosts, closing \in BOOLEAN : ClearSession(s, closing)
           \/ \E l \in LaneSet : ClearStream(l)
    PROVE  DeferredInv'
<1> USE DEF ClearSession, ClearStream, poolVars, laneVars, countVars
<1>1. PICK S \in SUBSET tracked :
         tracked' = tracked \ S /\ dropped' = dropped \cup S /\ cleared' = cleared \cup S
  <2>1. CASE \E s \in Hosts, closing \in BOOLEAN : ClearSession(s, closing)
    <3>1. PICK s \in Hosts : \E closing \in BOOLEAN : ClearSession(s, closing)
      BY <2>1
    <3>2. {p \in tracked : Host(p) # s} = tracked \ {p \in tracked : Host(p) = s}
      OBVIOUS
    <3> QED
      BY <3>1, <3>2
  <2>2. CASE \E l \in LaneSet : ClearStream(l)
    <3>1. PICK l \in LaneSet : ClearStream(l)
      BY <2>2
    <3>2. tracked \ OfLane(l) = tracked \ (tracked \cap OfLane(l))
      OBVIOUS
    <3> QED
      BY <3>1, <3>2
  <2> QED
    BY <2>1, <2>2
<1>2. DeferredTypeOK'
  <2>1. removing' \subseteq LaneSet \cup (Hosts \X {0}) /\ open' \subseteq Hosts
    BY DEF DeferredInv, DeferredTypeOK
  <2> QED
    BY <1>1, <2>1 DEF DeferredInv, DeferredTypeOK
<1>3. Busy' = Busy /\ Alive' = Alive
  BY DEF Busy, Alive, Occupied, AllQueued, QueuedTasks
<1>4. (HeldByTask /\ SoleTask)'
  BY <1>1, <1>3 DEF DeferredInv, HeldByTask, SoleTask
<1> QED
  BY <1>2, <1>3, <1>4, NoTaskMoves DEF DeferredInv
-----------------------------------------------------------------------------
(* Steps that make, move or end a task.                                     *)

\* A request arrives: its task is new, and the only one alive.
LEMMA BeginDeferredPacketKeeps ==
    ASSUME DeferredInv, UNCHANGED processor, NEW p \in Requests, BeginDeferredPacket(p)
    PROVE  DeferredInv'
<1> DEFINE new == [req |-> p, n |-> arrivals[p] + 1]
<1> USE DEF BeginDeferredPacket, poolVars, laneVars, countVars
<1>1. /\ arrivals \in [Requests -> Nat] /\ arrivals' \in [Requests -> Nat]
      /\ arrivals'[p] = arrivals[p] + 1
      /\ \A q \in Requests : arrivals[q] <= arrivals'[q]
  BY DEF DeferredInv, DeferredTypeOK
<1>2. new \in Task /\ handling' = handling \cup {new}
  BY <1>1 DEF Task
<1>3. DeferredTypeOK'
  BY <1>1, <1>2 DEF DeferredInv, DeferredTypeOK
<1>4. Busy' = Busy /\ AllQueued' = AllQueued /\ InHand' = InHand
  BY DEF Busy, AllQueued, QueuedTasks, InHand
<1>5. \A u \in handling \cup InHand : u \in Task /\ u.n <= arrivals[u.req]
  BY TasksInHand DEF DeferredInv, DeferredTypeOK, Numbered
<1>6. new \notin handling \cup InHand
  BY <1>1, <1>5
<1>7. Holding' /\ OnePlace'
  BY <1>2, <1>4, <1>6 DEF DeferredInv, Holding, OnePlace
<1>8. Numbered'
  <2>1. SUFFICES ASSUME NEW u \in handling \cup InHand PROVE u.n <= arrivals'[u.req]
    BY <1>1, <1>2, <1>4 DEF Numbered
  <2>2. u.req \in Requests /\ u.n \in Nat /\ u.n <= arrivals[u.req]
    BY <1>5 DEF Task
  <2> QED
    BY <2>2, <1>1
<1>9. PendingBalances'
  BY <1>4 DEF DeferredInv, PendingBalances
<1>10. Alive' = Alive \cup {new}
  BY <1>2, <1>4 DEF Alive, Occupied
<1>11. HeldByTask'
  <2>1. SUFFICES ASSUME NEW q \in tracked \cup {p}
                 PROVE  (\E t \in Alive' : t.req = q) \/ q \in dropped \ {p}
    BY DEF HeldByTask
  <2>2. CASE q = p
    <3>1. new \in Alive' /\ new.req = p
      BY <1>10
    <3> QED
      BY <2>2, <3>1
  <2>3. CASE q # p
    BY <2>1, <2>3, <1>10 DEF DeferredInv, HeldByTask
  <2> QED
    BY <2>2, <2>3
<1>12. SoleTask'
  <2>1. \A u \in Alive : u.req = p => p \in cleared
    BY DEF DeferredInv, SoleTask
  <2> QED
    BY <2>1, <1>10 DEF DeferredInv, SoleTask
<1> QED
  BY <1>3, <1>7, <1>8, <1>9, <1>11, <1>12 DEF DeferredInv

\* One of the workers has least work.
LEMMA LeastLoadedWorker ==
    ASSUME DeferredTypeOK
    PROVE  LeastLoaded \in Pool
<1> DEFINE load(j) == wpending[Turn(j)]
           better(j, k) == load(j) < load(k) \/ (load(j) = load(k) /\ j <= k)
           Loads == {load(j) : j \in Pool}
<1>1. Pool # {} /\ \A j \in Pool : j \in Nat /\ Turn(j) \in Pool /\ load(j) \in Nat
  <2>1. 0 \in Pool
    BY DeferredAssumption DEF Pool
  <2>2. ASSUME NEW j \in Int PROVE (nextWorker + j) % Workers \in 0 .. Workers - 1
    <3>1. nextWorker + j \in Int
      BY DEF DeferredTypeOK, Pool
    <3> QED
      BY <3>1, DeferredAssumption
  <2>3. \A j \in Pool : j \in Nat /\ Turn(j) \in Pool
    BY <2>2 DEF Turn, Pool
  <2> QED
    BY <2>1, <2>3 DEF DeferredTypeOK
<1> HIDE DEF load
<1>2. PICK a \in Loads : \A b \in Loads : a <= b
  BY <1>1, LeastOf
<1> DEFINE Best == {j \in Pool : load(j) = a}
<1>3. PICK j \in Best : \A k \in Best : j <= k
  <2>1. Best \in SUBSET Nat /\ Best # {}
    BY <1>1, <1>2
  <2> HIDE DEF Best
  <2> QED
    BY <2>1, LeastOf
<1>4. \A k \in Pool : better(j, k)
  <2> TAKE k \in Pool
  <2>1. load(j) = a /\ a <= load(k) /\ load(k) \in Nat /\ a \in Nat
    BY <1>1, <1>2, <1>3
  <2>2. load(k) = a => j <= k
    BY <1>3
  <2> QED
    BY <2>1, <2>2
<1>5. \E i \in Pool : \A k \in Pool : better(i, k)
  BY <1>3, <1>4
<1> DEFINE best == CHOOSE i \in Pool : \A k \in Pool : better(i, k)
<1>6. best \in Pool
  BY <1>5
<1>7. LeastLoaded = Turn(best)
  BY DEF LeastLoaded, load
<1> QED
  BY <1>1, <1>6, <1>7

\* A task that is appended to a channel is at one place.
LEMMA PutKeepsPlaces ==
    ASSUME DeferredTypeOK, Holding, OnePlace, NEW t \in handling, NEW w \in Pool,
           jobs' = [jobs EXCEPT ![w] = Append(@, t)], handling' = handling \ {t},
           UNCHANGED <<busy, phase>>
    PROVE  /\ jobs' \in [Pool -> Seq(Task)] /\ Len(jobs'[w]) = Len(jobs[w]) + 1
           /\ \A v \in Pool \ {w} : jobs'[v] = jobs[v]
           /\ AllQueued' = AllQueued \cup {t} /\ InHand' = InHand \cup {t}
           /\ t \notin InHand /\ OnePlace'
<1>1. /\ t \in Task /\ jobs \in [Pool -> Seq(Task)]
      /\ \A v \in Pool : Len(jobs[v]) \in Nat
  <2>1. t \in Task /\ jobs \in [Pool -> Seq(Task)]
    BY DEF DeferredTypeOK
  <2> QED
    BY <2>1, LenProperties
<1>2. /\ jobs'[w] = Append(jobs[w], t)
      /\ \A v \in Pool \ {w} : jobs'[v] = jobs[v]
  BY <1>1
<1>3. /\ jobs'[w] \in Seq(Task) /\ Len(jobs'[w]) = Len(jobs[w]) + 1
      /\ \A i \in 1 .. Len(jobs[w]) : jobs'[w][i] = jobs[w][i]
      /\ jobs'[w][Len(jobs[w]) + 1] = t
  BY <1>1, <1>2, AppendProperties
<1>4. jobs' \in [Pool -> Seq(Task)]
  BY <1>1, <1>3
<1>5. t \notin InHand /\ t \notin AllQueued
  BY DEF OnePlace, InHand
<1> DEFINE Q(v) == QueuedTasks(v)
<1>6. /\ QueuedTasks(w)' = QueuedTasks(w) \cup {t}
      /\ \A v \in Pool \ {w} : QueuedTasks(v)' = QueuedTasks(v)
  <2>1. \A i : i \in 1 .. Len(jobs[w]) + 1 <=> i \in 1 .. Len(jobs[w]) \/ i = Len(jobs[w]) + 1
    BY <1>1
  <2>2. QueuedTasks(w)' = QueuedTasks(w) \cup {t}
    BY <1>3, <2>1 DEF QueuedTasks
  <2> QED
    BY <1>2, <2>2 DEF QueuedTasks
<1>7. AllQueued' = AllQueued \cup {t}
  BY <1>6 DEF AllQueued
<1>8. InHand' = InHand \cup {t} /\ Busy' = Busy
  BY <1>7 DEF InHand, Busy
<1>9. ASSUME NEW v \in Pool, NEW u \in Pool, NEW i \in 1 .. Len(jobs'[v]),
             NEW j \in 1 .. Len(jobs'[u]), jobs'[v][i] = jobs'[u][j]
      PROVE  v = u /\ i = j
  <2>1. ASSUME NEW x \in Pool, NEW k \in 1 .. Len(jobs'[x])
        PROVE  \/ k \in 1 .. Len(jobs[x]) /\ jobs'[x][k] = jobs[x][k] /\ jobs[x][k] # t
               \/ x = w /\ k = Len(jobs[w]) + 1 /\ jobs'[x][k] = t
    <3>1. \A z \in Pool : \A m \in 1 .. Len(jobs[z]) : jobs[z][m] # t
      BY <1>5 DEF AllQueued, QueuedTasks
    <3>2. CASE x = w
      BY <3>1, <3>2, <1>1, <1>3
    <3>3. CASE x # w
      BY <3>1, <3>3, <1>2
    <3> QED
      BY <3>2, <3>3
  <2>2. /\ \/ i \in 1 .. Len(jobs[v]) /\ jobs'[v][i] = jobs[v][i] /\ jobs[v][i] # t
           \/ v = w /\ i = Len(jobs[w]) + 1 /\ jobs'[v][i] = t
        /\ \/ j \in 1 .. Len(jobs[u]) /\ jobs'[u][j] = jobs[u][j] /\ jobs[u][j] # t
           \/ u = w /\ j = Len(jobs[w]) + 1 /\ jobs'[u][j] = t
    BY <2>1
  <2> QED
    BY <2>2, <1>9 DEF OnePlace
<1>10. \A v, u \in Busy' : busy'[v] = busy'[u] => v = u
  BY <1>8 DEF OnePlace
<1>11. \A v \in Busy' : busy'[v] \notin AllQueued'
  BY <1>5, <1>7, <1>8 DEF OnePlace, InHand
<1>12. handling' \cap InHand' = {}
  BY <1>8 DEF OnePlace
<1>13. OnePlace'
  BY <1>9, <1>10, <1>11, <1>12 DEF OnePlace
<1> QED
  BY <1>3, <1>4, <1>2, <1>5, <1>7, <1>8, <1>13

\* A handler enqueues its task, or is refused and lets the key go.
LEMMA EnqueueKeeps ==
    ASSUME DeferredInv, UNCHANGED processor, NEW t \in handling, Enqueue(t)
    PROVE  DeferredInv'
<1> DEFINE l == LaneOf[t.req]
           known == laneWorker[l] # NoWorker
           w == IF known THEN laneWorker[l] ELSE LeastLoaded
           room == hpending[l[1]] < PendingCap
<1> USE DEF DeferredInv
<1>1. /\ t \in Task /\ t.req \in Requests /\ l \in LaneSet /\ l[1] \in Hosts
      /\ Host(t.req) = l[1]
  BY LaneKnown DEF DeferredTypeOK, Task, Host
<1>2. w \in Pool /\ nextWorker' \in Pool
  <2>1. w \in Pool
    BY <1>1, LeastLoadedWorker DEF DeferredTypeOK
  <2> HIDE DEF w
  <2>2. (w + 1) % Workers \in Pool
    BY <2>1, DeferredAssumption DEF Pool
  <2>3. nextWorker' = (w + 1) % Workers \/ nextWorker' = nextWorker
    BY DEF Enqueue, w
  <2> QED
    BY <2>1, <2>2, <2>3 DEF DeferredTypeOK
<1>3. /\ handling' = handling \ {t} /\ cancelled' = cancelled \ {l}
      /\ UNCHANGED <<busy, phase, live, running, removing, open, arrivals, cleanups,
                     answered, dropped, collided, cleared>>
  BY DEF Enqueue, defHistory
<1>4. t \notin InHand /\ t \notin AllQueued
  BY DEF OnePlace, InHand
<1>5. \A v \in Pool : Occupied(v) => v \in Busy /\ busy[v] \in InHand
  BY DEF Occupied, Busy, InHand
<1>6. CASE room /\ Fits(w)
  <2>1. /\ Put(t, w) /\ laneWorker' = [laneWorker EXCEPT ![l] = w] /\ UNCHANGED tracked
    BY <1>6 DEF Enqueue
  <2> HIDE DEF w
  <2>2. /\ jobs' = [jobs EXCEPT ![w] = Append(@, t)]
        /\ wpending' = [wpending EXCEPT ![w] = @ + 1]
        /\ hpending' = [hpending EXCEPT ![l[1]] = @ + 1]
    BY <2>1, <1>1 DEF Put
  <2>3. /\ jobs' \in [Pool -> Seq(Task)] /\ Len(jobs'[w]) = Len(jobs[w]) + 1
        /\ \A v \in Pool \ {w} : jobs'[v] = jobs[v]
        /\ AllQueued' = AllQueued \cup {t} /\ InHand' = InHand \cup {t}
        /\ OnePlace'
    BY <2>2, <1>2, <1>3, PutKeepsPlaces
  <2>4. \A v \in Pool : Len(jobs'[v]) <= QueueLimit /\ Len(jobs[v]) \in Nat
    <3>1. \A v \in Pool : Len(jobs[v]) \in Nat /\ Len(jobs[v]) <= QueueLimit
      BY LenProperties DEF DeferredTypeOK
    <3>2. Len(jobs[w]) < QueueLimit
      BY <1>6 DEF Fits, w
    <3>3. Len(jobs'[w]) <= QueueLimit
      BY <3>1, <3>2, <2>3, <1>2, DeferredAssumption
    <3>4. ASSUME NEW v \in Pool, v # w PROVE Len(jobs'[v]) <= QueueLimit
      BY <3>1, <3>4, <2>3
    <3> QED
      BY <3>1, <3>3, <3>4
  <2>5. wpending' \in [Pool -> Nat] /\ hpending' \in [Hosts -> Nat]
    <3>1. wpending \in [Pool -> Nat] /\ hpending \in [Hosts -> Nat]
      BY DEF DeferredTypeOK
    <3>2. wpending' \in [Pool -> Nat]
      BY <3>1, <2>2, <1>2
    <3>3. hpending' \in [Hosts -> Nat]
      BY <3>1, <2>2, <1>1
    <3> QED
      BY <3>2, <3>3
  <2>6. DeferredTypeOK'
    BY <2>1, <2>3, <2>4, <2>5, <1>1, <1>2, <1>3 DEF DeferredTypeOK
  <2>7. Busy' = Busy
    BY <1>3 DEF Busy
  <2>8. Holding' /\ Numbered'
    BY <2>3, <2>7, <1>3 DEF Holding, Numbered
  <2>9. PendingBalances'
    <3>1. ASSUME NEW s \in Hosts
          PROVE  hpending'[s] = Cardinality({u \in InHand' : Host(u.req) = s})
      <4> DEFINE S == {u \in InHand : Host(u.req) = s}
      <4>1. IsFiniteSet(S) /\ hpending[s] = Cardinality(S)
        <5>1. IsFiniteSet(InHand)
          BY TasksInHand
        <5> QED
          BY <5>1, FS_Subset DEF PendingBalances
      <4>2. CASE s = l[1]
        <5>1. {u \in InHand' : Host(u.req) = s} = S \cup {t} /\ t \notin S
          BY <2>3, <4>2, <1>1, <1>4
        <5>2. hpending'[s] = hpending[s] + 1
          BY <2>2, <4>2, <1>1 DEF DeferredTypeOK
        <5> QED
          BY <5>1, <5>2, <4>1, FS_AddElement
      <4>3. CASE s # l[1]
        <5>1. {u \in InHand' : Host(u.req) = s} = S
          BY <2>3, <4>3, <1>1
        <5>2. hpending'[s] = hpending[s]
          BY <2>2, <4>3, <1>1 DEF DeferredTypeOK
        <5> QED
          BY <5>1, <5>2, <4>1
      <4> QED
        BY <4>2, <4>3
    <3>2. ASSUME NEW v \in Pool
          PROVE  wpending'[v] = Len(jobs'[v]) + IF v \in Busy' THEN 1 ELSE 0
      <4>1. wpending[v] = Len(jobs[v]) + IF v \in Busy THEN 1 ELSE 0
        BY DEF PendingBalances
      <4>2. CASE v = w
        <5>1. wpending'[v] = wpending[v] + 1
          BY <2>2, <4>2 DEF DeferredTypeOK
        <5>2. Len(jobs'[v]) = Len(jobs[v]) + 1 /\ Len(jobs[v]) \in Nat
          BY <4>2, <2>3, <2>4
        <5>3. v \in Busy' <=> v \in Busy
          BY <2>7
        <5>4. CASE v \in Busy
          BY <5>1, <5>2, <5>3, <5>4, <4>1
        <5>5. CASE v \notin Busy
          <6>1. wpending[v] = Len(jobs[v])
            BY <5>5, <5>2, <4>1
          <6>2. wpending'[v] = Len(jobs'[v]) + 0
            BY <6>1, <5>1, <5>2
          <6> QED
            BY <6>2, <5>3, <5>5
        <5> QED
          BY <5>4, <5>5
      <4>3. CASE v # w
        <5>1. wpending'[v] = wpending[v]
          BY <2>2, <4>3 DEF DeferredTypeOK
        <5>2. jobs'[v] = jobs[v] /\ Busy' = Busy
          BY <4>3, <2>3, <2>7
        <5> QED
          BY <5>1, <5>2, <4>1
      <4> QED
        BY <4>2, <4>3
    <3> QED
      BY <3>1, <3>2 DEF PendingBalances
  <2>10. Alive' = Alive
    BY <2>3, <1>3 DEF Alive, Occupied
  <2>11. (HeldByTask /\ SoleTask)'
    BY <2>1, <2>10, <1>3 DEF HeldByTask, SoleTask
  <2> QED
    BY <2>3, <2>6, <2>8, <2>9, <2>11
<1>7. CASE ~(room /\ Fits(w))
  <2>1. tracked' = tracked \ {t.req} /\ UNCHANGED <<jobs, wpending, hpending, laneWorker>>
    BY <1>7 DEF Enqueue
  <2>2. DeferredTypeOK'
    BY <2>1, <1>2, <1>3 DEF DeferredTypeOK
  <2>3. Busy' = Busy /\ AllQueued' = AllQueued /\ InHand' = InHand
    BY <2>1, <1>3 DEF Busy, AllQueued, QueuedTasks, InHand
  <2>4. Holding' /\ Numbered' /\ OnePlace'
    BY <2>1, <2>3, <1>3 DEF Holding, Numbered, OnePlace
  <2>5. PendingBalances'
    BY <2>1, <2>3 DEF PendingBalances
  <2>6. Alive' = Alive \ {t}
    BY <2>3, <1>3, <1>4, <1>5 DEF Alive, Occupied
  <2>7. HeldByTask'
    BY <2>1, <2>6, <1>3 DEF HeldByTask
  <2>8. SoleTask'
    <3>1. t \in Alive
      BY DEF Alive
    <3>2. SUFFICES ASSUME NEW u \in Alive, u # t, u.req \notin cleared
                   PROVE  /\ u.req \in tracked \ {t.req}
                          /\ \A x \in Alive : x.req = u.req => x = u
      BY <2>1, <2>6, <1>3 DEF SoleTask
    <3> QED
      BY <3>1, <3>2 DEF SoleTask
  <2> QED
    BY <2>2, <2>4, <2>5, <2>7, <2>8
<1> QED
  BY <1>6, <1>7

\* A worker takes the first task of its channel.
LEMMA TakeKeeps ==
    ASSUME DeferredInv, UNCHANGED processor, NEW w \in Pool, Take(w)
    PROVE  DeferredInv'
<1> DEFINE t == Head(jobs[w])
           n == Len(jobs[w])
<1> USE DEF DeferredInv
<1>1. /\ phase[w] = "idle" /\ phase' = [phase EXCEPT ![w] = "taken"]
      /\ busy' = [busy EXCEPT ![w] = t]
      /\ jobs' = [jobs EXCEPT ![w] = Tail(@)]
      /\ live' = [live EXCEPT ![w] = TRUE]
      /\ UNCHANGED <<laneWorker, cancelled, running, wpending, hpending, nextWorker,
                     tracked, handling, removing, open, arrivals, cleanups, answered,
                     dropped, collided, cleared>>
  BY DEF Take, At, laneVars, countVars, defHistory
<1>2. /\ jobs \in [Pool -> Seq(Task)] /\ \A v \in Pool : Len(jobs[v]) \in 0 .. QueueLimit
      /\ jobs[w] # <<>>
  <2>1. \A v \in Pool : jobs[v] \in Seq(Task) /\ Len(jobs[v]) <= QueueLimit
    BY DEF DeferredTypeOK
  <2>2. \A v \in Pool : Len(jobs[v]) \in Nat
    BY <2>1, LenProperties
  <2> QED
    BY <2>1, <2>2, DeferredAssumption DEF DeferredTypeOK, Take
<1>3. /\ t \in Task /\ t = jobs[w][1] /\ n \in Nat \ {0}
      /\ jobs'[w] \in Seq(Task) /\ Len(jobs'[w]) = n - 1
      /\ \A i \in 1 .. n - 1 : jobs'[w][i] = jobs[w][i + 1]
  <2>1. jobs'[w] = Tail(jobs[w])
    BY <1>1, <1>2
  <2> QED
    BY <1>2, <2>1, HeadTailProperties, EmptySeq, LenProperties
<1>4. \A v \in Pool \ {w} : jobs'[v] = jobs[v]
  BY <1>1, <1>2
<1>5. jobs' \in [Pool -> Seq(Task)] /\ \A v \in Pool : Len(jobs'[v]) <= QueueLimit
  <2>1. Len(jobs'[w]) <= QueueLimit
    BY <1>2, <1>3, DeferredAssumption
  <2>2. \A v \in Pool \ {w} : Len(jobs'[v]) <= QueueLimit
    BY <1>2, <1>4, DeferredAssumption
  <2> QED
    BY <1>1, <1>2, <1>3, <2>1, <2>2
<1>6. DeferredTypeOK'
  <2>1. /\ busy' \in [Pool -> Task \cup {NoTask}] /\ live' \in [Pool -> BOOLEAN]
        /\ phase' \in [Pool -> {"idle", "taken", "begun", "working", "finalizing",
                                "returning", "done"}]
    BY <1>1, <1>3 DEF DeferredTypeOK
  <2> QED
    BY <1>1, <1>5, <2>1 DEF DeferredTypeOK
<1>7. Busy' = Busy \cup {w} /\ w \notin Busy
  BY <1>1 DEF Busy, DeferredTypeOK
<1>8. \A v \in Pool \ {w} : busy'[v] = busy[v] /\ phase'[v] = phase[v]
  BY <1>1 DEF DeferredTypeOK
<1>9. busy'[w] = t /\ phase'[w] = "taken"
  BY <1>1 DEF DeferredTypeOK
<1>10. Holding'
  <2>1. \A v \in Busy : v # w /\ v \in Pool
    BY <1>7 DEF Busy
  <2>2. \A v \in Busy' : busy'[v] \in Task
    BY <1>3, <1>7, <1>8, <1>9, <2>1 DEF Holding
  <2> QED
    BY <2>2 DEF Holding
<1>11. ASSUME NEW v \in Pool, NEW i \in 1 .. Len(jobs'[v])
       PROVE  \E k \in 1 .. Len(jobs[v]) :
                 /\ jobs'[v][i] = jobs[v][k] /\ k = IF v = w THEN i + 1 ELSE i
                 /\ v = w => k # 1
  <2>1. CASE v = w
    <3>1. i \in 1 .. n - 1 /\ i + 1 \in 1 .. n /\ i + 1 # 1
      BY <2>1, <1>3
    <3> QED
      BY <2>1, <3>1, <1>3
  <2>2. CASE v # w
    BY <2>2, <1>4
  <2> QED
    BY <2>1, <2>2
<1>12. AllQueued' = AllQueued \ {t} /\ t \in AllQueued
  <2>1. t \in AllQueued
    BY <1>3 DEF AllQueued, QueuedTasks
  <2>2. ASSUME NEW u \in AllQueued' PROVE u \in AllQueued /\ u # t
    <3>0. PICK v \in Pool : \E i \in 1 .. Len(jobs'[v]) : u = jobs'[v][i]
      BY DEF AllQueued, QueuedTasks
    <3>1. PICK i \in 1 .. Len(jobs'[v]) : u = jobs'[v][i]
      BY <3>0
    <3>2. PICK k \in 1 .. Len(jobs[v]) : u = jobs[v][k] /\ (v = w => k # 1)
      BY <3>1, <1>11
    <3>3. 1 \in 1 .. Len(jobs[w])
      BY <1>3
    <3> QED
      BY <3>2, <3>3, <1>3 DEF OnePlace, AllQueued, QueuedTasks
  <2>3. ASSUME NEW u \in AllQueued, u # t PROVE u \in AllQueued'
    <3>0. PICK v \in Pool : \E i \in 1 .. Len(jobs[v]) : u = jobs[v][i]
      BY DEF AllQueued, QueuedTasks
    <3>1. PICK i \in 1 .. Len(jobs[v]) : u = jobs[v][i]
      BY <3>0
    <3>2. CASE v = w
      <4>1. i - 1 \in 1 .. n - 1 /\ (i - 1) + 1 = i
        BY <2>3, <3>1, <3>2, <1>3
      <4>2. jobs'[w][i - 1] = u /\ i - 1 \in 1 .. Len(jobs'[w])
        BY <4>1, <3>1, <3>2, <1>3
      <4> QED
        BY <4>2 DEF AllQueued, QueuedTasks
    <3>3. CASE v # w
      BY <3>1, <3>3, <1>4 DEF AllQueued, QueuedTasks
    <3> QED
      BY <3>2, <3>3
  <2> QED
    BY <2>1, <2>2, <2>3
<1>13. \A v \in Busy : v \in Pool /\ v # w /\ busy[v] # t
  BY <1>7, <1>12 DEF OnePlace, Busy
<1>14. InHand' = InHand
  <2>1. {busy'[v] : v \in Busy'} = {busy[v] : v \in Busy} \cup {t}
    BY <1>7, <1>8, <1>9, <1>13
  <2> QED
    BY <2>1, <1>12 DEF InHand
<1>15. OnePlace'
  <2>1. ASSUME NEW v \in Pool, NEW u \in Pool, NEW i \in 1 .. Len(jobs'[v]),
               NEW j \in 1 .. Len(jobs'[u]), jobs'[v][i] = jobs'[u][j]
        PROVE  v = u /\ i = j
    <3>1. PICK k \in 1 .. Len(jobs[v]) :
             jobs'[v][i] = jobs[v][k] /\ k = IF v = w THEN i + 1 ELSE i
      BY <1>11
    <3>2. PICK m \in 1 .. Len(jobs[u]) :
             jobs'[u][j] = jobs[u][m] /\ m = IF u = w THEN j + 1 ELSE j
      BY <1>11
    <3>3. v = u /\ k = m
      <4>1. jobs[v][k] = jobs[u][m]
        BY <2>1, <3>1, <3>2
      <4> QED
        BY <4>1 DEF OnePlace
    <3>4. i \in Int /\ j \in Int
      OBVIOUS
    <3> QED
      BY <3>1, <3>2, <3>3, <3>4
  <2>2. \A v, u \in Busy' : busy'[v] = busy'[u] => v = u
    BY <1>7, <1>8, <1>9, <1>13 DEF OnePlace
  <2>3. \A v \in Busy' : busy'[v] \notin AllQueued'
    BY <1>7, <1>8, <1>9, <1>12, <1>13 DEF OnePlace
  <2>4. handling' \cap InHand' = {}
    BY <1>1, <1>14 DEF OnePlace
  <2> QED
    BY <2>1, <2>2, <2>3, <2>4 DEF OnePlace
<1>16. Numbered'
  BY <1>1, <1>14 DEF Numbered
<1>17. PendingBalances'
  <2>1. ASSUME NEW v \in Pool
        PROVE  wpending'[v] = Len(jobs'[v]) + IF v \in Busy' THEN 1 ELSE 0
    <3>1. wpending'[v] = Len(jobs[v]) + IF v \in Busy THEN 1 ELSE 0
      BY <1>1 DEF PendingBalances
    <3>2. CASE v = w
      <4>1. v \in Busy' /\ v \notin Busy /\ Len(jobs'[v]) = n - 1 /\ Len(jobs[v]) = n
        BY <3>2, <1>3, <1>7
      <4> QED
        BY <4>1, <3>1, <1>3
    <3>3. CASE v # w
      <4>1. jobs'[v] = jobs[v] /\ (v \in Busy' <=> v \in Busy)
        BY <3>3, <1>4, <1>7
      <4> QED
        BY <4>1, <3>1
    <3> QED
      BY <3>2, <3>3
  <2>2. \A s \in Hosts : hpending'[s] = Cardinality({u \in InHand' : Host(u.req) = s})
    BY <1>1, <1>14 DEF PendingBalances
  <2> QED
    BY <2>1, <2>2 DEF PendingBalances
<1>18. Alive' = Alive
  <2>1. \A v \in Pool \ {w} : Occupied(v)' <=> Occupied(v)
    BY <1>8 DEF Occupied
  <2>2. Occupied(w)' /\ ~Occupied(w)
    BY <1>1, <1>9 DEF Occupied
  <2>3. {busy'[v] : v \in {u \in Pool : Occupied(u)'}}
           = {busy[v] : v \in {u \in Pool : Occupied(u)}} \cup {t}
    BY <2>1, <2>2, <1>8, <1>9
  <2> QED
    BY <2>3, <1>1, <1>12 DEF Alive
<1>19. (HeldByTask /\ SoleTask)'
  BY <1>1, <1>18 DEF HeldByTask, SoleTask
<1> QED
  BY <1>6, <1>10, <1>15, <1>16, <1>17, <1>19

\* A worker is done with its task: the task is gone, and with it its charge.
LEMMA FinishLaneKeeps ==
    ASSUME DeferredInv, UNCHANGED processor, NEW w \in Pool, FinishLane(w)
    PROVE  DeferredInv'
<1> DEFINE l == LaneAt(w)
           t == busy[w]
<1> USE DEF DeferredInv
<1>1. /\ phase[w] = "done" /\ phase' = [phase EXCEPT ![w] = "idle"]
      /\ busy' = [busy EXCEPT ![w] = NoTask]
      /\ wpending' = [wpending EXCEPT ![w] = @ - 1]
      /\ hpending' = [hpending EXCEPT ![l[1]] = Lower(@)]
      /\ cancelled' = cancelled \ {l}
      /\ running' = [running EXCEPT ![l] = NoWorker]
      /\ UNCHANGED <<jobs, nextWorker, tracked, handling, removing, open, arrivals,
                     cleanups, answered, dropped, cleared>>
  BY DEF FinishLane, At
<1>2. /\ w \in Busy /\ t \in Task /\ t \in InHand /\ t.req \in Requests
      /\ l \in LaneSet /\ l[1] \in Hosts /\ Host(t.req) = l[1]
  BY <1>1, HeldLane DEF LaneAt, Host
<1>3. AllQueued' = AllQueued
  BY <1>1 DEF AllQueued, QueuedTasks
<1>4. /\ \A v \in Pool \ {w} : busy'[v] = busy[v] /\ phase'[v] = phase[v]
      /\ Busy' = Busy \ {w}
  BY <1>1 DEF DeferredTypeOK, Busy
<1>5. InHand' = InHand \ {t}
  <2>1. {busy'[v] : v \in Busy'} = {busy[v] : v \in Busy} \ {t}
    <3>1. \A v \in Busy : v \in Pool /\ (busy[v] = t => v = w)
      BY <1>2 DEF Busy, OnePlace
    <3> QED
      BY <3>1, <1>4
  <2>2. t \notin AllQueued
    BY <1>2 DEF OnePlace
  <2> QED
    BY <2>1, <2>2, <1>3 DEF InHand
<1>6. \A v \in Pool : Occupied(v) => v # w
  BY <1>1 DEF Occupied
<1>7. \A v \in Pool : Occupied(v)' <=> Occupied(v)
  <2>1. phase'[w] = "idle"
    BY <1>1 DEF DeferredTypeOK
  <2> QED
    BY <2>1, <1>1, <1>4 DEF Occupied
<1>8. Alive' = Alive
  <2>1. {busy'[v] : v \in {u \in Pool : Occupied(u)'}}
           = {busy[v] : v \in {u \in Pool : Occupied(u)}}
    BY <1>4, <1>6, <1>7
  <2> QED
    BY <2>1, <1>1, <1>3 DEF Alive
<1>9. \A v \in Pool : Len(jobs[v]) \in Nat
  BY LenProperties DEF DeferredTypeOK
<1>10. ASSUME NEW v \in Pool
       PROVE  /\ wpending'[v] = Len(jobs'[v]) + IF v \in Busy' THEN 1 ELSE 0
              /\ wpending'[v] \in Nat
  <2>1. wpending[v] = Len(jobs[v]) + IF v \in Busy THEN 1 ELSE 0
    BY DEF PendingBalances
  <2>2. CASE v = w
    <3>1. wpending'[v] = wpending[v] - 1 /\ v \in Busy /\ v \notin Busy'
      BY <2>2, <1>1, <1>2, <1>4 DEF DeferredTypeOK
    <3> QED
      BY <3>1, <2>1, <1>1, <1>9
  <2>3. CASE v # w
    <3>1. wpending'[v] = wpending[v] /\ jobs'[v] = jobs[v] /\ (v \in Busy' <=> v \in Busy)
      BY <2>3, <1>1, <1>4 DEF DeferredTypeOK
    <3>2. wpending'[v] = Len(jobs'[v]) + IF v \in Busy' THEN 1 ELSE 0
      BY <3>1, <2>1
    <3>3. wpending'[v] \in Nat
      BY <3>1 DEF DeferredTypeOK
    <3> QED
      BY <3>2, <3>3
  <2> QED
    BY <2>2, <2>3
<1>11. ASSUME NEW s \in Hosts
       PROVE  /\ hpending'[s] = Cardinality({u \in InHand' : Host(u.req) = s})
              /\ hpending'[s] \in Nat
  <2> DEFINE S == {u \in InHand : Host(u.req) = s}
  <2>1. IsFiniteSet(S) /\ hpending[s] = Cardinality(S) /\ Cardinality(S) \in Nat
    <3>1. IsFiniteSet(InHand)
      BY TasksInHand
    <3> QED
      BY <3>1, FS_Subset, FS_CardinalityType DEF PendingBalances
  <2>2. CASE s = l[1]
    <3>1. {u \in InHand' : Host(u.req) = s} = S \ {t} /\ t \in S
      BY <2>2, <1>2, <1>5
    <3>2. Cardinality(S \ {t}) = Cardinality(S) - 1 /\ Cardinality(S \ {t}) \in Nat
      BY <2>1, <3>1, FS_RemoveElement, FS_CardinalityType
    <3>3. hpending'[s] = Lower(hpending[s])
      BY <2>2, <1>1, <1>2 DEF DeferredTypeOK
    <3>4. Cardinality(S) # 0
      BY <2>1, <3>1, FS_EmptySet
    <3>5. hpending'[s] = Cardinality(S) - 1
      <4> HIDE DEF S
      <4> QED
        BY <2>1, <3>3, <3>4 DEF Lower
    <3> QED
      BY <3>1, <3>2, <3>5
  <2>3. CASE s # l[1]
    <3>1. {u \in InHand' : Host(u.req) = s} = S
      BY <2>3, <1>2, <1>5
    <3>2. hpending'[s] = hpending[s]
      BY <2>3, <1>1 DEF DeferredTypeOK
    <3> QED
      BY <2>1, <3>1, <3>2
  <2> QED
    BY <2>2, <2>3
<1>12. DeferredTypeOK'
  <2>1. /\ busy' \in [Pool -> Task \cup {NoTask}] /\ live' \in [Pool -> BOOLEAN]
        /\ phase' \in [Pool -> {"idle", "taken", "begun", "working", "finalizing",
                                "returning", "done"}]
    BY <1>1 DEF DeferredTypeOK, FinishLane
  <2>2. /\ laneWorker' \in [LaneSet -> Pool \cup {NoWorker}]
        /\ running' \in [LaneSet -> Pool \cup {NoWorker}]
    BY <1>1, <1>2 DEF DeferredTypeOK, FinishLane
  <2>3. wpending' \in [Pool -> Nat] /\ hpending' \in [Hosts -> Nat]
    <3>1. /\ wpending' = [v \in Pool |-> wpending'[v]]
          /\ hpending' = [s \in Hosts |-> hpending'[s]]
      BY <1>1 DEF DeferredTypeOK
    <3> QED
      BY <3>1, <1>10, <1>11
  <2>4. collided' \subseteq Requests \cup {NoTask.req}
    <3>1. running[l] # NoWorker => running[l] \in Pool
      BY <1>2 DEF DeferredTypeOK
    <3>2. \A v \in Pool : busy[v].req \in Requests \cup {NoTask.req}
      BY DEF DeferredTypeOK, Task
    <3> QED
      BY <3>1, <3>2 DEF FinishLane, DeferredTypeOK
  <2> QED
    BY <1>1, <2>1, <2>2, <2>3, <2>4 DEF DeferredTypeOK
<1>13. (Holding /\ Numbered)'
  BY <1>1, <1>4, <1>5 DEF Holding, Numbered, Busy
<1>14. OnePlace'
  <2>1. \A v \in Busy' : v \in Busy /\ busy'[v] = busy[v]
    BY <1>4 DEF Busy
  <2> QED
    BY <1>1, <1>3, <1>5, <2>1 DEF OnePlace
<1>15. PendingBalances'
  BY <1>10, <1>11 DEF PendingBalances
<1>16. (HeldByTask /\ SoleTask)'
  BY <1>1, <1>8 DEF HeldByTask, SoleTask
<1> QED
  BY <1>12, <1>13, <1>14, <1>15, <1>16
-----------------------------------------------------------------------------
(* Compaction.                                                              *)

\* What a compaction sweeps out of the channels.
Swept(out) == {t \in AllQueued : LaneOf[t.req] \in out}

\* A task that stays after a compaction was there before, and the other way
\* round.
LEMMA CompactionKeepsPlaces ==
    ASSUME DeferredTypeOK, Holding, OnePlace, NEW out,
           jobs' = [w \in Pool |-> Kept(jobs[w], out)],
           UNCHANGED <<busy, handling>>, Busy' = Busy
    PROVE  /\ jobs' \in [Pool -> Seq(Task)] /\ \A w \in Pool : Len(jobs'[w]) <= QueueLimit
           /\ \A w \in Pool : /\ Len(jobs[w]) \in Nat /\ Len(jobs'[w]) \in Nat
                              /\ Lost(w, out) = Len(jobs[w]) - Len(jobs'[w])
           /\ AllQueued' = AllQueued \ Swept(out)
           /\ InHand' = InHand \ Swept(out)
           /\ OnePlace'
<1>1. \A w \in Pool : jobs[w] \in Seq(Task) /\ Len(jobs[w]) \in 0 .. QueueLimit
  <2>1. \A w \in Pool : jobs[w] \in Seq(Task) /\ Len(jobs[w]) <= QueueLimit
    BY DEF DeferredTypeOK
  <2>2. \A w \in Pool : Len(jobs[w]) \in Nat
    BY <2>1, LenProperties
  <2> QED
    BY <2>1, <2>2, DeferredAssumption
<1>2. \A w \in Pool : jobs'[w] = Kept(jobs[w], out)
  OBVIOUS
<1>3. ASSUME NEW w \in Pool
      PROVE  /\ jobs'[w] \in Seq(Task) /\ Len(jobs'[w]) \in Nat /\ Len(jobs'[w]) <= QueueLimit
             /\ Lost(w, out) = Len(jobs[w]) - Len(jobs'[w])
             /\ \E f \in Bijection(1 .. Len(jobs'[w]), Staying(jobs[w], out)) :
                   \A k \in 1 .. Len(jobs'[w]) : jobs'[w][k] = jobs[w][f[k]]
  <2>1. /\ Kept(jobs[w], out) \in Seq(Task)
        /\ Len(Kept(jobs[w], out)) \in Nat /\ Len(Kept(jobs[w], out)) <= Len(jobs[w])
        /\ \E f \in Bijection(1 .. Len(Kept(jobs[w], out)), Staying(jobs[w], out)) :
              \A k \in 1 .. Len(Kept(jobs[w], out)) : Kept(jobs[w], out)[k] = jobs[w][f[k]]
    BY <1>1, KeptProperties
  <2>2. Lost(w, out) = Len(jobs[w]) - Len(Kept(jobs[w], out))
    BY DEF Lost
  <2>3. Len(Kept(jobs[w], out)) <= QueueLimit
    BY <1>1, <2>1, DeferredAssumption
  <2> QED
    BY <1>2, <2>1, <2>2, <2>3
<1>4. jobs' \in [Pool -> Seq(Task)]
  BY <1>2, <1>3
<1>5. ASSUME NEW w \in Pool, NEW k \in 1 .. Len(jobs'[w]), NEW m \in 1 .. Len(jobs'[w])
      PROVE  \E i, j \in 1 .. Len(jobs[w]) :
                /\ jobs'[w][k] = jobs[w][i] /\ LaneOf[jobs[w][i].req] \notin out
                /\ jobs'[w][m] = jobs[w][j]
                /\ i = j => k = m
  <2>1. PICK f \in Bijection(1 .. Len(jobs'[w]), Staying(jobs[w], out)) :
           \A x \in 1 .. Len(jobs'[w]) : jobs'[w][x] = jobs[w][f[x]]
    BY <1>3
  <2>2. f[k] \in Staying(jobs[w], out) /\ f[m] \in Staying(jobs[w], out)
        /\ (f[k] = f[m] => k = m)
    BY DEF Bijection, Injection, IsInjective
  <2>3. jobs'[w][k] = jobs[w][f[k]] /\ jobs'[w][m] = jobs[w][f[m]]
    BY <2>1
  <2> QED
    BY <2>2, <2>3 DEF Staying
<1>6. ASSUME NEW w \in Pool, NEW i \in 1 .. Len(jobs[w]), LaneOf[jobs[w][i].req] \notin out
      PROVE  \E k \in 1 .. Len(jobs'[w]) : jobs'[w][k] = jobs[w][i]
  <2>1. PICK f \in Bijection(1 .. Len(jobs'[w]), Staying(jobs[w], out)) :
           \A x \in 1 .. Len(jobs'[w]) : jobs'[w][x] = jobs[w][f[x]]
    BY <1>3
  <2>2. i \in Staying(jobs[w], out)
    BY <1>6 DEF Staying
  <2>3. PICK k \in 1 .. Len(jobs'[w]) : f[k] = i
    BY <2>2 DEF Bijection, Surjection
  <2> QED
    BY <2>1, <2>3
<1>7. AllQueued' = AllQueued \ Swept(out)
  <2>1. ASSUME NEW t \in AllQueued' PROVE t \in AllQueued /\ LaneOf[t.req] \notin out
    <3>1. PICK w \in Pool : \E k \in 1 .. Len(jobs'[w]) : t = jobs'[w][k]
      BY DEF AllQueued, QueuedTasks
    <3>2. PICK i \in 1 .. Len(jobs[w]) : t = jobs[w][i] /\ LaneOf[jobs[w][i].req] \notin out
      BY <3>1, <1>5
    <3> QED
      BY <3>2 DEF AllQueued, QueuedTasks
  <2>2. ASSUME NEW t \in AllQueued, LaneOf[t.req] \notin out PROVE t \in AllQueued'
    <3>1. PICK w \in Pool : \E i \in 1 .. Len(jobs[w]) : t = jobs[w][i]
      BY DEF AllQueued, QueuedTasks
    <3>2. \E k \in 1 .. Len(jobs'[w]) : t = jobs'[w][k]
      BY <3>1, <2>2, <1>6
    <3> QED
      BY <3>2 DEF AllQueued, QueuedTasks
  <2> QED
    BY <2>1, <2>2 DEF Swept
<1>8. InHand' = InHand \ Swept(out)
  <2>1. \A w \in Busy : busy[w] \notin Swept(out)
    BY DEF OnePlace, Swept
  <2> QED
    BY <2>1, <1>7 DEF InHand
<1>9. ASSUME NEW v \in Pool, NEW u \in Pool, NEW k \in 1 .. Len(jobs'[v]),
             NEW m \in 1 .. Len(jobs'[u]), jobs'[v][k] = jobs'[u][m]
      PROVE  v = u /\ k = m
  <2>1. v = u
    <3>1. PICK i \in 1 .. Len(jobs[v]) : jobs'[v][k] = jobs[v][i]
      BY <1>5
    <3>2. PICK j \in 1 .. Len(jobs[u]) : jobs'[u][m] = jobs[u][j]
      BY <1>5
    <3>3. jobs[v][i] = jobs[u][j]
      BY <1>9, <3>1, <3>2
    <3> QED
      BY <3>3 DEF OnePlace
  <2>2. m \in 1 .. Len(jobs'[v])
    BY <2>1
  <2>3. PICK i, j \in 1 .. Len(jobs[v]) :
           jobs'[v][k] = jobs[v][i] /\ jobs'[v][m] = jobs[v][j] /\ (i = j => k = m)
    BY <2>2, <1>5
  <2>4. jobs[v][i] = jobs[v][j]
    BY <1>9, <2>1, <2>3
  <2>5. i = j
    BY <2>4 DEF OnePlace
  <2> QED
    BY <2>1, <2>3, <2>5
<1>10. OnePlace'
  <2>1. /\ \A v, u \in Busy' : busy'[v] = busy'[u] => v = u
        /\ \A v \in Busy' : busy'[v] \notin AllQueued'
        /\ handling' \cap InHand' = {}
    BY <1>7, <1>8 DEF OnePlace
  <2> QED
    BY <1>9, <2>1 DEF OnePlace
<1>11. \A w \in Pool : Len(jobs[w]) \in Nat
  BY <1>1, DeferredAssumption
<1> QED
  BY <1>3, <1>4, <1>7, <1>8, <1>10, <1>11

\* The code counts what it drops by the places; it drops so many tasks.
LEMMA LostCountsTasks ==
    ASSUME DeferredTypeOK, Holding, OnePlace, NEW out, NEW s \in Hosts
    PROVE  LostOf(s, out) = Cardinality({t \in Swept(out) : Host(t.req) = s})
<1> DEFINE P == {x \in Pool \X (1 .. QueueLimit) :
                   /\ x[2] <= Len(jobs[x[1]])
                   /\ LaneOf[jobs[x[1]][x[2]].req] \in out
                   /\ Host(jobs[x[1]][x[2]].req) = s}
           T == {t \in Swept(out) : Host(t.req) = s}
           f == [x \in P |-> jobs[x[1]][x[2]]]
<1>1. \A w \in Pool : Len(jobs[w]) \in 0 .. QueueLimit
  <2>1. \A w \in Pool : jobs[w] \in Seq(Task) /\ Len(jobs[w]) <= QueueLimit
    BY DEF DeferredTypeOK
  <2>2. \A w \in Pool : Len(jobs[w]) \in Nat
    BY <2>1, LenProperties
  <2> QED
    BY <2>1, <2>2, DeferredAssumption
<1>2. ASSUME NEW x \in P
      PROVE  /\ x[1] \in Pool /\ x[2] \in 1 .. Len(jobs[x[1]]) /\ x = <<x[1], x[2]>>
             /\ jobs[x[1]][x[2]] \in T
  <2>1. /\ x[1] \in Pool /\ x[2] \in 1 .. QueueLimit /\ x[2] <= Len(jobs[x[1]])
        /\ x = <<x[1], x[2]>>
    OBVIOUS
  <2>2. x[2] \in 1 .. Len(jobs[x[1]])
    BY <2>1, <1>1
  <2>3. jobs[x[1]][x[2]] \in AllQueued
    BY <2>1, <2>2 DEF AllQueued, QueuedTasks
  <2> QED
    BY <2>1, <2>2, <2>3 DEF Swept
<1>3. ASSUME NEW t \in T PROVE \E x \in P : jobs[x[1]][x[2]] = t
  <2>1. PICK w \in Pool : \E i \in 1 .. Len(jobs[w]) : jobs[w][i] = t
    BY DEF Swept, AllQueued, QueuedTasks
  <2>2. PICK i \in 1 .. Len(jobs[w]) : jobs[w][i] = t
    BY <2>1
  <2>3. i \in 1 .. QueueLimit /\ i <= Len(jobs[w])
    BY <1>1, DeferredAssumption
  <2>4. LaneOf[t.req] \in out /\ Host(t.req) = s
    BY DEF Swept
  <2>5. <<w, i>> \in P
    BY <2>2, <2>3, <2>4
  <2> QED
    BY <2>2, <2>5
<1>4. IsFiniteSet(P)
  <2>1. IsFiniteSet(Pool) /\ IsFiniteSet(1 .. QueueLimit)
    BY PoolIsFinite
  <2>2. IsFiniteSet(Pool \X (1 .. QueueLimit))
    BY <2>1, FS_Product
  <2> QED
    BY <2>2, FS_Subset
<1> HIDE DEF P, T
<1>5. \A x, y \in P : jobs[x[1]][x[2]] = jobs[y[1]][y[2]] => x = y
  <2> TAKE x, y \in P
  <2> HAVE jobs[x[1]][x[2]] = jobs[y[1]][y[2]]
  <2>1. /\ x[1] \in Pool /\ x[2] \in 1 .. Len(jobs[x[1]]) /\ x = <<x[1], x[2]>>
        /\ y[1] \in Pool /\ y[2] \in 1 .. Len(jobs[y[1]]) /\ y = <<y[1], y[2]>>
    BY <1>2
  <2>2. x[1] = y[1] /\ x[2] = y[2]
    BY <2>1 DEF OnePlace
  <2> QED
    BY <2>1, <2>2
<1>6. f \in Bijection(P, T)
  <2>1. f \in [P -> T]
    BY <1>2
  <2>2. \A x \in P : f[x] = jobs[x[1]][x[2]]
    OBVIOUS
  <2> HIDE DEF f
  <2>3. IsInjective(f)
    BY <2>1, <2>2, <1>5 DEF IsInjective
  <2>4. \A t \in T : \E x \in P : f[x] = t
    BY <2>2, <1>3
  <2> QED
    BY <2>1, <2>3, <2>4 DEF Bijection, Injection, Surjection
<1>7. Cardinality(T) = Cardinality(P)
  <2> HIDE DEF f
  <2> QED
    BY <1>4, <1>6, FS_Bijection DEF ExistsBijection
<1>8. LostOf(s, out) = Cardinality(P)
  BY DEF LostOf, P
<1> QED
  BY <1>7, <1>8 DEF T

\* A compaction, whatever it removes: the books follow it, and the keys of the
\* tasks it drops are known to be without a task.
LEMMA CompactKeeps ==
    ASSUME DeferredInv, NEW gone \in SUBSET LaneSet, NEW hit \in SUBSET Requests,
           Compact(gone, hit),
           Busy' = Busy, \A w \in Pool : Occupied(w)' <=> Occupied(w),
           phase' \in [Pool -> {"idle", "taken", "begun", "working", "finalizing",
                               "returning", "done"}],
           live' \in [Pool -> BOOLEAN], running' \in [LaneSet -> Pool \cup {NoWorker}],
           cancelled' \subseteq LaneSet, removing' \subseteq LaneSet \cup (Hosts \X {0}),
           UNCHANGED <<processor, busy, nextWorker, tracked, handling, open, arrivals,
                       answered, collided, cleared>>
    PROVE  DeferredInv'
<1> DEFINE out == gone \cup cancelled
           L == Swept(out)
<1> USE DEF DeferredInv
<1>1. /\ jobs' = [w \in Pool |-> Kept(jobs[w], out)]
      /\ wpending' = [w \in Pool |-> wpending[w] - Lost(w, out)]
      /\ hpending' = [s \in Hosts |-> Greatest(hpending[s] - LostOf(s, out), 0)]
      /\ dropped' = dropped \cup {t.req : t \in L} \cup hit
      /\ laneWorker' \in [LaneSet -> Pool \cup {NoWorker}]
  <2>1. laneWorker' \in [LaneSet -> Pool \cup {NoWorker}]
    BY DEF Compact, DeferredTypeOK
  <2> QED
    BY <2>1 DEF Compact, Swept
<1>2. /\ jobs' \in [Pool -> Seq(Task)] /\ \A w \in Pool : Len(jobs'[w]) <= QueueLimit
      /\ \A w \in Pool : /\ Len(jobs[w]) \in Nat /\ Len(jobs'[w]) \in Nat
                         /\ Lost(w, out) = Len(jobs[w]) - Len(jobs'[w])
      /\ AllQueued' = AllQueued \ L /\ InHand' = InHand \ L
      /\ OnePlace'
  <2> HIDE DEF out
  <2> QED
    BY <1>1, CompactionKeepsPlaces
<1>3. /\ InHand \subseteq Task /\ IsFiniteSet(InHand) /\ L \subseteq InHand /\ L \subseteq AllQueued
  BY TasksInHand DEF Swept, InHand
<1> HIDE DEF out, L
<1>4. ASSUME NEW w \in Pool
      PROVE  /\ wpending'[w] = Len(jobs'[w]) + IF w \in Busy' THEN 1 ELSE 0
             /\ wpending'[w] \in Nat
  <2>1. wpending[w] = Len(jobs[w]) + IF w \in Busy THEN 1 ELSE 0
    BY DEF PendingBalances
  <2>2. wpending'[w] = wpending[w] - (Len(jobs[w]) - Len(jobs'[w]))
    BY <1>1, <1>2
  <2>3. Len(jobs[w]) \in Nat /\ Len(jobs'[w]) \in Nat
    BY <1>2
  <2>4. CASE w \in Busy
    <3>1. wpending[w] = Len(jobs[w]) + 1
      BY <2>1, <2>4
    <3>2. wpending'[w] = Len(jobs'[w]) + 1
      <4>1. wpending'[w] = (Len(jobs[w]) + 1) - (Len(jobs[w]) - Len(jobs'[w]))
        BY <2>2, <3>1
      <4>2. \A a, b \in Nat : (a + 1) - (a - b) = b + 1
        OBVIOUS
      <4> QED
        BY <2>3, <4>1, <4>2
    <3> QED
      BY <2>3, <2>4, <3>2
  <2>5. CASE w \notin Busy
    <3>1. wpending[w] = Len(jobs[w])
      BY <2>1, <2>3, <2>5
    <3>2. wpending'[w] = Len(jobs'[w]) + 0 /\ wpending'[w] = Len(jobs'[w])
      BY <2>2, <2>3, <3>1
    <3> QED
      BY <2>3, <2>5, <3>2
  <2> QED
    BY <2>4, <2>5
<1>5. ASSUME NEW s \in Hosts
      PROVE  /\ hpending'[s] = Cardinality({u \in InHand' : Host(u.req) = s})
             /\ hpending'[s] \in Nat
  <2> DEFINE S == {u \in InHand : Host(u.req) = s}
             T == {t \in L : Host(t.req) = s}
  <2>1. /\ IsFiniteSet(S) /\ Cardinality(S) \in Nat /\ hpending[s] = Cardinality(S)
        /\ T \subseteq S
    BY <1>3, FS_Subset, FS_CardinalityType DEF PendingBalances
  <2>2. IsFiniteSet(T) /\ Cardinality(T) \in Nat /\ Cardinality(T) <= Cardinality(S)
    BY <2>1, FS_Subset, FS_CardinalityType
  <2>3. Cardinality(S \ T) = Cardinality(S) - Cardinality(T)
    <3>1. S \cap T = T
      BY <2>1
    <3> HIDE DEF S, T
    <3>2. Cardinality(S \ T) = Cardinality(S) - Cardinality(S \cap T)
      BY <2>1, FS_Difference
    <3> QED
      BY <3>1, <3>2
  <2>4. LostOf(s, out) = Cardinality(T)
    BY LostCountsTasks DEF L
  <2>5. hpending'[s] = Greatest(Cardinality(S) - Cardinality(T), 0)
    BY <1>1, <2>1, <2>4
  <2>6. hpending'[s] = Cardinality(S) - Cardinality(T) /\ hpending'[s] \in Nat
    <3> HIDE DEF S, T
    <3> QED
      BY <2>1, <2>2, <2>5 DEF Greatest
  <2>7. {u \in InHand' : Host(u.req) = s} = S \ T
    BY <1>2
  <2> QED
    BY <2>3, <2>6, <2>7
<1>6. dropped' \subseteq Requests
  BY <1>1, <1>3 DEF DeferredTypeOK, Task
<1>7. DeferredTypeOK'
  <2>1. wpending' \in [Pool -> Nat] /\ hpending' \in [Hosts -> Nat]
    BY <1>1, <1>4, <1>5
  <2> QED
    BY <1>1, <1>2, <1>6, <2>1 DEF DeferredTypeOK
<1>8. (Holding /\ Numbered)'
  BY <1>2 DEF Holding, Numbered
<1>9. PendingBalances'
  BY <1>4, <1>5 DEF PendingBalances
<1>10. Alive' \subseteq Alive /\ Alive \ L \subseteq Alive'
  BY <1>2 DEF Alive
<1>11. HeldByTask'
  <2>1. SUFFICES ASSUME NEW p \in tracked, p \notin dropped'
                 PROVE  \E t \in Alive' : t.req = p
    BY DEF HeldByTask
  <2>2. PICK t \in Alive : t.req = p
    BY <2>1, <1>1 DEF HeldByTask
  <2>3. t \notin L
    BY <2>1, <2>2, <1>1
  <2> QED
    BY <2>2, <2>3, <1>10
<1>12. SoleTask'
  BY <1>10 DEF SoleTask
<1> QED
  BY <1>2, <1>7, <1>8, <1>9, <1>11, <1>12

\* A cleanup removes the lanes of a session, or one lane.
LEMMA RemovalKeeps ==
    ASSUME DeferredInv, UNCHANGED processor,
           \/ \E s \in Hosts : RemoveSession(s)
           \/ \E l \in LaneSet : RemoveLane(l)
    PROVE  DeferredInv'
<1>1. PICK gone \in SUBSET LaneSet :
         /\ CancelRunning(gone) /\ Compact(gone, Struck(gone, Unfinished))
         /\ cancelled' \subseteq LaneSet /\ removing' \subseteq removing
         /\ UNCHANGED <<busy, phase, nextWorker, tracked, handling, open, arrivals,
                        answered, collided, cleared>>
  <2>1. CASE \E s \in Hosts : RemoveSession(s)
    <3>1. PICK s \in Hosts : RemoveSession(s)
      BY <2>1
    <3>2. LanesOf(s) \in SUBSET LaneSet
      BY DEF LanesOf
    <3>3. cancelled' \subseteq LaneSet
      BY <3>1, <3>2 DEF RemoveSession, DeferredInv, DeferredTypeOK
    <3> QED
      BY <3>1, <3>2, <3>3 DEF RemoveSession
  <2>2. CASE \E l \in LaneSet : RemoveLane(l)
    <3>1. PICK l \in LaneSet : RemoveLane(l)
      BY <2>2
    <3>2. {l} \in SUBSET LaneSet
      OBVIOUS
    <3>3. cancelled' \subseteq LaneSet
      BY <3>1 DEF RemoveLane, DeferredInv, DeferredTypeOK
    <3> QED
      BY <3>1, <3>2, <3>3 DEF RemoveLane
  <2> QED
    BY <2>1, <2>2
<1>2. Struck(gone, Unfinished) \in SUBSET Requests
  BY HeldLane DEF Struck, Unfinished
<1>3. live' \in [Pool -> BOOLEAN] /\ running' \in [LaneSet -> Pool \cup {NoWorker}]
  BY <1>1 DEF CancelRunning, DeferredInv, DeferredTypeOK
<1>4. Busy' = Busy /\ \A w \in Pool : Occupied(w)' <=> Occupied(w)
  BY <1>1 DEF Busy, Occupied
<1>5. /\ phase' \in [Pool -> {"idle", "taken", "begun", "working", "finalizing",
                              "returning", "done"}]
      /\ removing' \subseteq LaneSet \cup (Hosts \X {0})
  BY <1>1 DEF DeferredInv, DeferredTypeOK
<1> QED
  BY <1>1, <1>2, <1>3, <1>4, <1>5, CompactKeeps

\* The setup of a stream removes what waits on its own lane.
LEMMA FinalizeLaneKeeps ==
    ASSUME DeferredInv, UNCHANGED processor, NEW w \in Pool, FinalizeLane(w)
    PROVE  DeferredInv'
<1> DEFINE l == LaneAt(w)
<1>1. /\ phase[w] = "finalizing" /\ phase' = [phase EXCEPT ![w] = "returning"]
      /\ cancelled' = cancelled \cup {l}
      /\ Compact({l}, Struck({l}, {"taken"}))
      /\ UNCHANGED <<busy, live, running, nextWorker, tracked, handling, removing, open,
                     arrivals, answered, collided, cleared>>
  BY DEF FinalizeLane, At
<1>2. {l} \in SUBSET LaneSet
  BY <1>1, HeldLane
<1>3. Struck({l}, {"taken"}) \in SUBSET Requests
  BY HeldLane DEF Struck
<1>4. Busy' = Busy /\ \A v \in Pool : Occupied(v)' <=> Occupied(v)
  BY <1>1 DEF DeferredInv, DeferredTypeOK, Busy, Occupied
<1>5. /\ phase' \in [Pool -> {"idle", "taken", "begun", "working", "finalizing",
                              "returning", "done"}]
      /\ live' \in [Pool -> BOOLEAN] /\ running' \in [LaneSet -> Pool \cup {NoWorker}]
      /\ cancelled' \subseteq LaneSet /\ removing' \subseteq LaneSet \cup (Hosts \X {0})
  BY <1>1, <1>2 DEF DeferredInv, DeferredTypeOK
<1> QED
  BY <1>1, <1>2, <1>3, <1>4, <1>5, CompactKeeps
-----------------------------------------------------------------------------
(* The theorems.                                                            *)

\* Every step keeps the invariant.
LEMMA DeferredInvStep == DeferredInv /\ [DeferredNext]_deferredVars => DeferredInv'
<1> SUFFICES ASSUME DeferredInv, [DeferredNext]_deferredVars PROVE DeferredInv'
  OBVIOUS
<1>1. CASE DeferredNext
  <2>1. UNCHANGED processor /\ DeferredStep
    BY <1>1 DEF DeferredNext
  <2>2. CASE \E p \in Requests : BeginDeferredPacket(p)
    BY <2>1, <2>2, BeginDeferredPacketKeeps
  <2>3. CASE HandlerStep
    BY <2>1, <2>3, EnqueueKeeps DEF HandlerStep
  <2>4. CASE \E w \in Pool : WorkerStep(w)
    <3>1. PICK w \in Pool : WorkerStep(w)
      BY <2>4
    <3>2. CASE Take(w)
      BY <2>1, <3>2, TakeKeeps
    <3>3. CASE BeginTaskContext(w)
      BY <2>1, <3>3, BeginTaskContextKeeps
    <3>4. CASE StartWork(w) \/ Silence(w)
      BY <2>1, <3>4, StartOrSilenceKeeps
    <3>5. CASE Answer(w)
      BY <2>1, <3>5, AnswerKeeps
    <3>6. CASE FinalizeLane(w)
      BY <2>1, <3>6, FinalizeLaneKeeps
    <3>7. CASE FinishDeferredPacket(w)
      BY <2>1, <3>7, FinishDeferredPacketKeeps
    <3>8. CASE FinishLane(w)
      BY <2>1, <3>8, FinishLaneKeeps
    <3> QED
      BY <3>1, <3>2, <3>3, <3>4, <3>5, <3>6, <3>7, <3>8 DEF WorkerStep
  <2>5. CASE \/ \E s \in Hosts, closing \in BOOLEAN : ClearSession(s, closing)
             \/ \E l \in LaneSet : ClearStream(l)
    BY <2>1, <2>5, ClearingKeeps
  <2>6. CASE \/ \E s \in Hosts : RemoveSession(s)
             \/ \E l \in LaneSet : RemoveLane(l)
    BY <2>1, <2>6, RemovalKeeps
  <2> QED
    BY <2>1, <2>2, <2>3, <2>4, <2>5, <2>6 DEF DeferredStep
<1>2. CASE UNCHANGED deferredVars
  <2> USE <1>2 DEF deferredVars, poolVars, laneVars, countVars, defHistory
  <2>1. Busy' = Busy /\ Alive' = Alive
    BY DEF Busy, Alive, Occupied, AllQueued, QueuedTasks
  <2>2. DeferredTypeOK' /\ (HeldByTask /\ SoleTask)'
    BY <2>1 DEF DeferredInv, DeferredTypeOK, HeldByTask, SoleTask
  <2> QED
    BY <2>1, <2>2, NoTaskMoves DEF DeferredInv
<1> QED
  BY <1>1, <1>2

\* The invariant holds throughout.
THEOREM DeferredInvariant == DeferredSpec => []DeferredInv
<1> QED
  BY DeferredInvInit, DeferredInvStep, PTL DEF DeferredSpec

\* Type correctness of the deferred work.
THEOREM DeferredTypeCorrect == DeferredSpec => []DeferredTypeOK
<1>1. DeferredInv => DeferredTypeOK
  BY DEF DeferredInv
<1> QED
  BY <1>1, DeferredInvariant, PTL

\* What sessions and workers are charged for is what is queued or in hand,
\* through every refusal, removal and compaction (sessionPending, pending).
THEOREM BooksBalance == DeferredSpec => []PendingBalances
<1>1. DeferredInv => PendingBalances
  BY DEF DeferredInv
<1> QED
  BY <1>1, DeferredInvariant, PTL

\* No key is held without work to come, unless a cleanup dropped the task
\* (deferredInflight).
THEOREM HeldKeyHasTask == DeferredSpec => []TrackedHasTask
<1>1. DeferredInv => TrackedHasTask
  <2> SUFFICES ASSUME DeferredInv, NEW p \in tracked, p \notin dropped
               PROVE  \E t \in handling \cup InHand : t.req = p
    BY DEF TrackedHasTask
  <2>1. Alive \subseteq handling \cup InHand
    BY DEF Alive, InHand, Occupied, Busy
  <2> QED
    BY <2>1 DEF DeferredInv, HeldByTask
<1> QED
  BY <1>1, DeferredInvariant, PTL

\* No request is worked on by two workers at once unless its key was cleared.
THEOREM NoTwins == DeferredSpec => []NoTwin
<1>1. DeferredInv => NoTwin
  <2> SUFFICES ASSUME DeferredInv, NEW v \in Pool, NEW w \in Pool, v # w,
                      phase[v] = "working", phase[w] = "working",
                      busy[v].req = busy[w].req
               PROVE  busy[v].req \in cleared
    BY DEF NoTwin
  <2>1. busy[v] \in Alive /\ busy[w] \in Alive /\ v \in Busy /\ w \in Busy
    BY DEF Alive, Occupied, Busy
  <2>2. busy[v] # busy[w]
    BY <2>1 DEF DeferredInv, OnePlace
  <2> QED
    BY <2>1, <2>2 DEF DeferredInv, SoleTask
<1> QED
  BY <1>1, DeferredInvariant, PTL
-----------------------------------------------------------------------------
(* The stream table of a session.                                           *)

SetupAt == {"idle", "queued", "creating", "dialing", "dialed", "attaching", "checking", "over"}
FinAt == {"no", "freed", "removed", "noted", "done"}
SweepAts == {"idle", "aborted", "removed"}

Typed ==
    /\ born \in 0 .. MaxObjects
    /\ idOf \in [Objects -> Ids \cup {0}] /\ table \in [Ids -> 0 .. born]
    /\ counter \in Int /\ shut \in BOOLEAN
    /\ arq \in [Objects -> {"open", "closed"}] /\ fin \in [Objects -> FinAt]
    /\ connected \in [Objects -> BOOLEAN] /\ conn \in [Objects -> Setups \cup {None}]
    /\ setup \in [Setups -> [at : SetupAt, id : Ids \cup {0}, obj : 0 .. born,
                             ctx : BOOLEAN]]
    /\ dialed \in [Setups -> {"none", "open", "closed"}]
    /\ sweep \in [at : SweepAts, obj : 0 .. born]
    /\ reset \in Ids \cup {0}
    /\ teardown \in [at : {"no", "closing", "cleared", "done"},
                     objs : SUBSET (1 .. born), sub : Nat]

\* Only objects that exist, and under an id, come to an end; an object is
\* finalized after its ARQ has closed, and swept after it was finalized.
Born ==
    /\ \A o \in 1 .. born : idOf[o] \in Ids
    /\ \A o \in Objects : arq[o] = "closed" => o <= born
    /\ \A o \in Objects : fin[o] # "no" => arq[o] = "closed"
    /\ sweep.at # "idle" => sweep.obj # None /\ fin[sweep.obj] # "no"

\* The teardown runs in a closed session, and holds a part of the gauge only
\* between clearing the table and counting what it cleared.
Torn ==
    /\ teardown.at # "no" => shut
    /\ teardown.at # "cleared" => teardown.sub = 0

\* A setup has an id from the start, and an object once it dials.
Held ==
    \A t \in Setups :
        /\ setup[t].at # "idle" => setup[t].id \in Ids
        /\ setup[t].at \in {"dialing", "dialed", "attaching"} => setup[t].obj # None

StreamsInv == Typed /\ Born /\ Torn /\ Held /\ ConnOwned /\ TableExact

LEMMA StreamsInvInit == StreamsInit => StreamsInv
<1> SUFFICES ASSUME StreamsInit PROVE StreamsInv
  OBVIOUS
<1> USE ServerStreamsAssumption DEF StreamsInit, None, Objects
<1>1. Typed
  <2>1. born \in 0 .. MaxObjects /\ counter \in Int /\ reset \in Ids \cup {0}
    OBVIOUS
  <2>8. shut \in BOOLEAN
    OBVIOUS
  <2>2. idOf \in [Objects -> Ids \cup {0}] /\ table \in [Ids -> 0 .. born]
    OBVIOUS
  <2>3. /\ arq \in [Objects -> {"open", "closed"}] /\ fin \in [Objects -> FinAt]
        /\ connected \in [Objects -> BOOLEAN] /\ conn \in [Objects -> Setups \cup {None}]
    BY DEF FinAt
  <2>4. Idle \in [at : SetupAt, id : Ids \cup {0}, obj : 0 .. born, ctx : BOOLEAN]
    BY DEF Idle, SetupAt
  <2>5. /\ setup \in [Setups -> [at : SetupAt, id : Ids \cup {0}, obj : 0 .. born, ctx : BOOLEAN]]
        /\ dialed \in [Setups -> {"none", "open", "closed"}]
    BY <2>4
  <2>6. sweep \in [at : SweepAts, obj : 0 .. born]
    BY DEF SweepAts
  <2>7. teardown \in [at : {"no", "closing", "cleared", "done"}, objs : SUBSET (1 .. born), sub : Nat]
    <3>1. {} \in SUBSET (1 .. born)
      OBVIOUS
    <3> QED
      BY <3>1
  <2> QED
    BY <2>1, <2>2, <2>3, <2>5, <2>6, <2>7, <2>8 DEF Typed
<1>2. Born /\ Torn /\ Held /\ ConnOwned
  BY DEF Born, Torn, Held, ConnOwned, Idle, InHands
<1>3. Listed = {}
  BY DEF Listed
<1>4. TableExact
  BY <1>3, FS_EmptySet DEF TableExact
<1> QED
  BY <1>1, <1>2, <1>4 DEF StreamsInv

\* The gauge follows the table when an id is listed, and when one is removed.
LEMMA ListedFinite == IsFiniteSet(Listed) /\ Cardinality(Listed) \in Nat
BY ServerStreamsAssumption, FS_Subset, FS_CardinalityType DEF Listed

LEMMA OneListed ==
    ASSUME Typed, NEW i \in Ids, i \notin Listed, NEW o \in Objects,
           table' = [table EXCEPT ![i] = o]
    PROVE  Listed' = Listed \cup {i} /\ Cardinality(Listed') = Cardinality(Listed) + 1
<1>1. Listed' = Listed \cup {i}
  BY DEF Typed, Listed, None, Objects
<1> QED
  BY <1>1, ListedFinite, FS_AddElement

LEMMA OneUnlisted ==
    ASSUME Typed, NEW i \in Ids, table' = [table EXCEPT ![i] = None]
    PROVE  /\ Listed' = Listed \ {i}
           /\ Cardinality(Listed') =
                 IF i \in Listed THEN Cardinality(Listed) - 1 ELSE Cardinality(Listed)
<1>1. Listed' = Listed \ {i}
  BY DEF Typed, Listed, None
<1> QED
  BY <1>1, ListedFinite, FS_RemoveElement

\* getOrCreateStream keeps what holds of the table.
LEMMA CreateKeeps ==
    ASSUME StreamsInv, NEW i \in Ids, GetOrCreateStream(i),
           UNCHANGED <<shut, arq, teardown>>
    PROVE  /\ born' \in born .. MaxObjects /\ idOf' \in [Objects -> Ids \cup {0}]
           /\ table' \in [Ids -> 0 .. born'] /\ counter' \in Int
           /\ \A o \in 1 .. born' : idOf'[o] \in Ids
           /\ Found(i) \in 0 .. born'
           /\ TableExact'
<1> USE DEF StreamsInv, None, Objects
<1> born \in Nat /\ MaxObjects \in Nat
  BY ServerStreamsAssumption DEF Typed
<1>1. CASE Refused(i) \/ i \in Listed
  <2>1. UNCHANGED <<born, idOf, table, active, recordVars, counter>>
    BY <1>1 DEF GetOrCreateStream
  <2>2. TableExact'
    BY <2>1 DEF TableExact, Listed, recordVars
  <2>3. Found(i) \in 0 .. born
    BY <1>1 DEF Found, Typed
  <2> QED
    BY <2>1, <2>2, <2>3 DEF Typed, Born
<1>2. CASE ~(Refused(i) \/ i \in Listed)
  <2>1. /\ born < MaxObjects /\ born' = born + 1 /\ ~shut
        /\ idOf' = [idOf EXCEPT ![born'] = i]
        /\ table' = [table EXCEPT ![i] = born']
        /\ ousted' = ousted /\ counter' = counter + 1
        /\ active' = active \cup {i}
    BY <1>2 DEF GetOrCreateStream, Refused
  <2>2. born' \in Objects
    BY <2>1
  <2>3. /\ born' \in born .. MaxObjects /\ idOf' \in [Objects -> Ids \cup {0}]
        /\ table' \in [Ids -> 0 .. born'] /\ counter' \in Int
    BY <2>1, <2>2 DEF Typed
  <2>4. \A o \in 1 .. born' : idOf'[o] \in Ids
    BY <2>1, <2>2 DEF Typed, Born
  <2>5. Found(i) \in 0 .. born'
    BY <1>2, <2>1 DEF Found
  <2>6. Listed' = Listed \cup {i} /\ Cardinality(Listed') = Cardinality(Listed) + 1
    BY <1>2, <2>1, <2>2, OneListed
  <2>7. counter' = Cardinality(Listed') + teardown'.sub /\ active' \subseteq Listed'
    <3>1. teardown.sub \in Nat /\ counter \in Int
      BY DEF Typed
    <3> QED
      BY <2>1, <2>6, <3>1, ListedFinite DEF TableExact
  <2>8. ASSUME NEW o \in (1 .. born') \ ousted', arq'[o] = "open"
        PROVE  table'[idOf'[o]] = o
    <3>1. CASE o = born'
      BY <2>1, <2>2, <3>1 DEF Typed
    <3>2. CASE o # born'
      <4>1. o \in (1 .. born) \ ousted /\ idOf'[o] = idOf[o] /\ idOf[o] \in Ids
        BY <2>1, <2>2, <2>8, <3>2 DEF Typed, Born
      <4>2. table[idOf[o]] = o
        BY <2>1, <2>8, <4>1 DEF TableExact
      <4>3. idOf[o] # i
        BY <1>2, <4>1, <4>2 DEF Listed
      <4> QED
        BY <2>1, <4>1, <4>2, <4>3 DEF Typed
    <3> QED
      BY <3>1, <3>2
  <2> QED
    BY <2>3, <2>4, <2>5, <2>7, <2>8 DEF TableExact
<1> QED
  BY <1>1, <1>2

\* removeStream keeps it too, for an object that is over.
LEMMA RemoveKeeps ==
    ASSUME StreamsInv, NEW p \in 1 .. born, arq[p] = "closed", RemoveStream(p),
           UNCHANGED <<born, idOf, shut, arq, teardown>>
    PROVE  table' \in [Ids -> 0 .. born'] /\ counter' \in Int /\ TableExact'
<1> USE DEF StreamsInv, None, Objects
<1>1. CASE shut
  BY <1>1 DEF RemoveStream, TableExact, Listed, Typed
<1>2. CASE ~shut
  <2> DEFINE i == idOf[p]
  <2>1. i \in Ids
    BY DEF Born
  <2>2. /\ table' = [table EXCEPT ![i] = None] /\ active' = active \ {i}
        /\ counter' = IF i \in Listed THEN counter - 1 ELSE counter
        /\ ousted' = ousted \cup ({table[i]} \ {None, p})
    BY <1>2 DEF RemoveStream, Oust
  <2>3. table' \in [Ids -> 0 .. born'] /\ counter' \in Int
    BY <2>1, <2>2 DEF Typed
  <2>4. counter' = Cardinality(Listed') + teardown'.sub /\ active' \subseteq Listed'
    <3>1. /\ Listed' = Listed \ {i}
          /\ Cardinality(Listed') =
                IF i \in Listed THEN Cardinality(Listed) - 1 ELSE Cardinality(Listed)
      BY <2>1, <2>2, OneUnlisted
    <3>2. teardown.sub \in Nat /\ counter \in Int
      BY DEF Typed
    <3> QED
      BY <2>2, <3>1, <3>2, ListedFinite DEF TableExact
  <2>5. ASSUME NEW o \in (1 .. born') \ ousted', arq'[o] = "open"
        PROVE  table'[idOf'[o]] = o
    <3>1. table[idOf[o]] = o /\ idOf[o] \in Ids
      BY <1>2, <2>2, <2>5 DEF TableExact, Born
    <3>2. idOf[o] # i
      BY <2>2, <2>5, <3>1
    <3> QED
      BY <2>1, <2>2, <3>1, <3>2 DEF Typed
  <2> QED
    BY <2>3, <2>4, <2>5 DEF TableExact
<1> QED
  BY <1>1, <1>2

\* So it does when nothing is listed or removed and streams only close.
LEMMA TableStays ==
    ASSUME TableExact, UNCHANGED <<born, idOf, table, counter, teardown>>,
           active' \subseteq active, ousted \subseteq ousted', shut => shut',
           \A o \in 1 .. born : arq'[o] = "open" => arq[o] = "open"
    PROVE  TableExact'
<1> Listed' = Listed
  BY DEF Listed
<1> QED
  BY DEF TableExact

\* Cleanup closes the connection it takes from the stream.
LEMMA CleanupKeeps ==
    ASSUME StreamsInv, NEW o \in Objects, CleanupResources(o), fin' = Freed(o),
           UNCHANGED setup
    PROVE  /\ dialed' \in [Setups -> {"none", "open", "closed"}]
           /\ connected' \in [Objects -> BOOLEAN]
           /\ conn' \in [Objects -> Setups \cup {None}]
           /\ fin' \in [Objects -> FinAt]
           /\ \A q \in Objects : fin'[q] # "no" <=> q = o \/ fin[q] # "no"
           /\ ConnOwned'
<1> USE DEF StreamsInv, Typed
<1>1. /\ connected' \in [Objects -> BOOLEAN]
      /\ conn' = [conn EXCEPT ![o] = None]
      /\ conn' \in [Objects -> Setups \cup {None}]
  BY DEF CleanupResources
<1>2. /\ fin' \in [Objects -> FinAt]
      /\ \A q \in Objects : fin'[q] # "no" <=> q = o \/ fin[q] # "no"
  BY DEF Freed, FinAt
<1>3. dialed' = IF conn[o] = None THEN dialed ELSE [dialed EXCEPT ![conn[o]] = "closed"]
  BY DEF CleanupResources, ClosedConn
<1>4. dialed' \in [Setups -> {"none", "open", "closed"}]
  BY <1>3
<1>5. ASSUME NEW t \in Setups, dialed'[t] = "open", ~InHands(t)'
      PROVE  \E q \in Objects : conn'[q] = t /\ fin'[q] = "no"
  <2>1. dialed[t] = "open" /\ conn[o] # t
    BY <1>3, <1>5, ServerStreamsAssumption DEF None
  <2>2. ~InHands(t)
    BY <1>5 DEF InHands
  <2>3. PICK q \in Objects : conn[q] = t /\ fin[q] = "no"
    BY <2>1, <2>2 DEF ConnOwned
  <2>4. conn'[q] = t /\ fin'[q] = "no"
    BY <1>1, <1>2, <2>1, <2>3
  <2> QED
    BY <2>4
<1>6. ConnOwned'
  BY <1>5 DEF ConnOwned
<1> QED
  BY <1>1, <1>2, <1>4, <1>6

\* Nothing is lost of the connections while they stay where they are.
LEMMA ConnStays ==
    ASSUME ConnOwned, UNCHANGED <<conn, fin>>,
           \A t \in Setups : dialed'[t] = "open" =>
               dialed[t] = "open" /\ (InHands(t) => InHands(t)')
    PROVE  ConnOwned'
BY DEF ConnOwned
-----------------------------------------------------------------------------
LEMMA PruneKeeps == ASSUME StreamsInv, PruneRecentlyClosed PROVE StreamsInv'
<1> USE DEF StreamsInv
<1>1. UNCHANGED <<ousted, born, idOf, table, active, counter, shut, arq, fin,
                  connected, conn, setup, dialed, sweep, reset, teardown>>
  BY DEF PruneRecentlyClosed, objectVars, taskVars
<1>2. TableExact'
  BY <1>1, TableStays
<1>3. ConnOwned'
  BY <1>1, ConnStays DEF InHands
<1> QED
  BY <1>1, <1>2, <1>3 DEF Typed, Born, Torn, Held

\* What the setup tasks hold after one of them has moved.
SetupsTyped(n) ==
    setup \in [Setups -> [at : SetupAt, id : Ids \cup {0}, obj : 0 .. n, ctx : BOOLEAN]]

LEMMA SynKeeps ==
    ASSUME StreamsInv, NEW t \in Setups, NEW i \in Ids, Syn(t, i) PROVE StreamsInv'
<1> USE DEF StreamsInv
<1>1. /\ GetOrCreateStream(i) /\ setup[t] = Idle
      /\ setup' = [setup EXCEPT ![t] = [at |-> "queued", id |-> i, obj |-> None, ctx |-> TRUE]]
      /\ UNCHANGED <<shut, arq, fin, connected, conn, dialed, sweep, reset, teardown>>
  BY DEF Syn, objectVars
<1>2. /\ born' \in born .. MaxObjects /\ idOf' \in [Objects -> Ids \cup {0}]
      /\ table' \in [Ids -> 0 .. born'] /\ counter' \in Int
      /\ \A o \in 1 .. born' : idOf'[o] \in Ids
      /\ TableExact'
  BY <1>1, CreateKeeps
<1>3. born \in Nat /\ born' \in Nat /\ born <= born' /\ born' <= MaxObjects
  BY <1>2, ServerStreamsAssumption DEF Typed
<1>4. Typed'
  <2>1. SetupsTyped(born)'
    <3>1. [at |-> "queued", id |-> i, obj |-> None, ctx |-> TRUE]
             \in [at : SetupAt, id : Ids \cup {0}, obj : 0 .. born', ctx : BOOLEAN]
      BY <1>3 DEF SetupAt, None
    <3>2. \A u \in Setups : setup[u] \in [at : SetupAt, id : Ids \cup {0}, obj : 0 .. born', ctx : BOOLEAN]
      BY <1>3 DEF Typed
    <3> QED
      BY <1>1, <3>1, <3>2 DEF Typed, SetupsTyped
  <2>2. sweep' \in [at : SweepAts, obj : 0 .. born']
    BY <1>1, <1>3 DEF Typed
  <2>3. teardown' \in [at : {"no", "closing", "cleared", "done"}, objs : SUBSET (1 .. born'), sub : Nat]
    BY <1>1, <1>3 DEF Typed
  <2> QED
    BY <1>1, <1>2, <1>3, <2>1, <2>2, <2>3 DEF Typed, SetupsTyped
<1>5. Born' /\ Torn'
  BY <1>1, <1>2, <1>3 DEF Born, Torn, Typed, Objects
<1>6. Held'
  BY <1>1 DEF Held, Typed
<1>7. ConnOwned'
  BY <1>1, ConnStays DEF InHands, Idle, Typed
<1> QED
  BY <1>2, <1>4, <1>5, <1>6, <1>7

\* A task that moves on keeps its id, its object and its context.
LEMMA MoveKeeps ==
    ASSUME Typed, NEW t \in Setups, NEW origin, NEW to \in SetupAt, Move(t, origin, to),
           born' = born
    PROVE  /\ SetupsTyped(born)' /\ setup[t].at = origin /\ setup'[t].at = to
           /\ setup'[t].id = setup[t].id /\ setup'[t].obj = setup[t].obj
           /\ \A u \in Setups \ {t} : setup'[u] = setup[u]
BY DEF Move, Typed, SetupsTyped

LEMMA StartSetupKeeps ==
    ASSUME StreamsInv, NEW t \in Setups, StartSetup(t) PROVE StreamsInv'
<1> USE DEF StreamsInv
<1> DEFINE to == IF setup[t].ctx /\ ShouldExecute(setup[t].id) THEN "creating" ELSE "over"
<1>1. /\ Move(t, "queued", to)
      /\ UNCHANGED <<born, idOf, table, active, counter, recently, ousted, shut, arq, fin,
                     connected, conn, dialed, sweep, reset, teardown>>
  BY DEF StartSetup, tableVars, recordVars, objectVars
<1>2. to \in SetupAt /\ to \in {"creating", "over"}
  BY DEF SetupAt
<1> HIDE DEF to
<1>3. /\ SetupsTyped(born)' /\ setup[t].at = "queued" /\ setup'[t].at = to
      /\ setup'[t].id = setup[t].id
      /\ \A u \in Setups \ {t} : setup'[u] = setup[u]
  BY <1>1, <1>2, MoveKeeps
<1>4. Typed' /\ Born' /\ Torn'
  BY <1>1, <1>3 DEF Typed, Born, Torn, SetupsTyped
<1>5. Held'
  BY <1>2, <1>3 DEF Held
<1>6. ConnOwned'
  BY <1>1, <1>3, ConnStays DEF InHands
<1>7. TableExact'
  BY <1>1, TableStays
<1> QED
  BY <1>4, <1>5, <1>6, <1>7

LEMMA CreateForSetupKeeps ==
    ASSUME StreamsInv, NEW t \in Setups, CreateForSetup(t) PROVE StreamsInv'
<1> USE DEF StreamsInv
<1> DEFINE o == Found(setup[t].id)
           at == IF o = None \/ connected[o] THEN "over" ELSE "dialing"
<1>1. /\ setup[t].at = "creating" /\ GetOrCreateStream(setup[t].id)
      /\ setup' = [setup EXCEPT ![t].obj = o, ![t].at = at]
      /\ UNCHANGED <<shut, arq, fin, connected, conn, dialed, sweep, reset, teardown>>
  BY DEF CreateForSetup, objectVars
<1>2. setup[t].id \in Ids
  BY <1>1 DEF Held
<1>3. /\ born' \in born .. MaxObjects /\ idOf' \in [Objects -> Ids \cup {0}]
      /\ table' \in [Ids -> 0 .. born'] /\ counter' \in Int
      /\ \A q \in 1 .. born' : idOf'[q] \in Ids
      /\ o \in 0 .. born' /\ TableExact'
  BY <1>1, <1>2, CreateKeeps
<1>4. at \in {"over", "dialing"} /\ (at = "dialing" => o # None)
  OBVIOUS
<1> HIDE DEF o, at
<1>5. born \in Nat /\ born' \in Nat /\ born <= born' /\ born' <= MaxObjects
  BY <1>3, ServerStreamsAssumption DEF Typed
<1>6. /\ setup'[t] = [setup[t] EXCEPT !.obj = o, !.at = at]
      /\ \A u \in Setups \ {t} : setup'[u] = setup[u]
      /\ setup' = [u \in Setups |-> setup'[u]]
  BY <1>1 DEF Typed
<1>7. SetupsTyped(born)'
  <2>1. setup'[t] \in [at : SetupAt, id : Ids \cup {0}, obj : 0 .. born', ctx : BOOLEAN]
    BY <1>3, <1>4, <1>6 DEF Typed, SetupAt
  <2>2. \A u \in Setups : setup[u] \in [at : SetupAt, id : Ids \cup {0}, obj : 0 .. born', ctx : BOOLEAN]
    BY <1>5 DEF Typed
  <2> QED
    BY <1>6, <2>1, <2>2 DEF SetupsTyped
<1>8. Typed'
  <2>1. sweep' \in [at : SweepAts, obj : 0 .. born']
    BY <1>1, <1>5 DEF Typed
  <2>2. teardown' \in [at : {"no", "closing", "cleared", "done"}, objs : SUBSET (1 .. born'), sub : Nat]
    BY <1>1, <1>5 DEF Typed
  <2> QED
    BY <1>1, <1>3, <1>5, <1>7, <2>1, <2>2 DEF Typed, SetupsTyped
<1>9. Born' /\ Torn'
  BY <1>1, <1>3, <1>5 DEF Born, Torn, Typed, Objects
<1>10. Held'
  <2>1. setup'[t].at = at /\ setup'[t].obj = o /\ setup'[t].id = setup[t].id
    BY <1>6 DEF Typed
  <2> QED
    BY <1>2, <1>4, <1>6, <2>1 DEF Held
<1>11. ConnOwned'
  BY <1>1, <1>6, ConnStays DEF InHands, Typed
<1> QED
  BY <1>3, <1>8, <1>9, <1>10, <1>11

LEMMA DialKeeps ==
    ASSUME StreamsInv, NEW t \in Setups, Dial(t) PROVE StreamsInv'
<1> USE DEF StreamsInv
<1>1. UNCHANGED <<born, idOf, table, active, counter, recently, ousted, shut, arq, fin,
                  connected, conn, sweep, reset, teardown>>
  BY DEF Dial, tableVars, recordVars, objectVars
<1>2. PICK to \in {"dialed", "over"} :
         /\ Move(t, "dialing", to)
         /\ dialed' = IF to = "dialed" THEN [dialed EXCEPT ![t] = "open"] ELSE dialed
  BY DEF Dial
<1>3. /\ SetupsTyped(born)' /\ setup[t].at = "dialing" /\ setup'[t].at = to
      /\ setup'[t].id = setup[t].id /\ setup'[t].obj = setup[t].obj
      /\ \A u \in Setups \ {t} : setup'[u] = setup[u]
  <2> to \in SetupAt
    BY DEF SetupAt
  <2> QED
    BY <1>1, <1>2, MoveKeeps
<1>4. Typed' /\ Born' /\ Torn'
  BY <1>1, <1>2, <1>3 DEF Typed, Born, Torn, SetupsTyped
<1>5. Held'
  BY <1>3 DEF Held
<1>6. ASSUME NEW u \in Setups, dialed'[u] = "open", ~InHands(u)'
      PROVE  dialed[u] = "open" /\ ~InHands(u)
  BY <1>2, <1>3, <1>6 DEF InHands, Typed
<1>7. ConnOwned'
  BY <1>1, <1>6 DEF ConnOwned
<1>8. TableExact'
  BY <1>1, TableStays
<1> QED
  BY <1>4, <1>5, <1>7, <1>8

LEMMA CheckAfterDialKeeps ==
    ASSUME StreamsInv, NEW t \in Setups, CheckAfterDial(t) PROVE StreamsInv'
<1> USE DEF StreamsInv
<1>1. UNCHANGED <<born, idOf, table, active, counter, recently, ousted, shut, arq, fin,
                  connected, conn, sweep, reset, teardown>>
  BY DEF CheckAfterDial, tableVars, recordVars, objectVars
<1>2. PICK to \in {"attaching", "over"} :
         /\ Move(t, "dialed", to)
         /\ dialed' = IF to = "over" THEN [dialed EXCEPT ![t] = "closed"] ELSE dialed
  BY DEF CheckAfterDial
<1>3. /\ SetupsTyped(born)' /\ setup[t].at = "dialed" /\ setup'[t].at = to
      /\ setup'[t].id = setup[t].id /\ setup'[t].obj = setup[t].obj
      /\ \A u \in Setups \ {t} : setup'[u] = setup[u]
  <2> to \in SetupAt
    BY DEF SetupAt
  <2> QED
    BY <1>1, <1>2, MoveKeeps
<1>4. Typed' /\ Born' /\ Torn'
  BY <1>1, <1>2, <1>3 DEF Typed, Born, Torn, SetupsTyped
<1>5. Held'
  BY <1>3 DEF Held
<1>6. ASSUME NEW u \in Setups, dialed'[u] = "open"
      PROVE  dialed[u] = "open" /\ (InHands(u) => InHands(u)')
  BY <1>2, <1>3, <1>6 DEF InHands, Typed
<1>7. ConnOwned'
  BY <1>1, <1>6, ConnStays
<1>8. TableExact'
  BY <1>1, TableStays
<1> QED
  BY <1>4, <1>5, <1>7, <1>8

LEMMA AttachKeeps ==
    ASSUME StreamsInv, NEW t \in Setups, AttachUpstreamConn(t) PROVE StreamsInv'
<1> USE DEF StreamsInv
<1> DEFINE o == setup[t].obj
<1>1. UNCHANGED <<born, idOf, table, active, counter, recently, ousted, shut, arq, fin,
                  sweep, reset, teardown>>
  BY DEF AttachUpstreamConn, tableVars, recordVars
<1>2. setup[t].at = "attaching" /\ o \in Objects
  BY ServerStreamsAssumption DEF AttachUpstreamConn, Held, Typed, Objects, None
<1>3. TableExact' /\ Torn' /\ (Born' <=> Born)
  BY <1>1, TableStays DEF Torn, Born
<1>4. CASE Attachable(o)
  <2>1. /\ Move(t, "attaching", "checking")
        /\ conn' = [conn EXCEPT ![o] = t] /\ connected' = [connected EXCEPT ![o] = TRUE]
        /\ dialed' = dialed
    BY <1>4 DEF AttachUpstreamConn
  <2>2. /\ SetupsTyped(born)' /\ setup'[t].at = "checking"
        /\ setup'[t].id = setup[t].id
        /\ \A u \in Setups \ {t} : setup'[u] = setup[u]
    BY <1>1, <2>1, MoveKeeps DEF SetupAt
  <2>3. Typed'
    BY <1>1, <1>2, <2>1, <2>2 DEF Typed, SetupsTyped
  <2>4. Held'
    BY <1>2, <2>2 DEF Held
  <2>5. fin'[o] = "no" /\ conn[o] = None /\ conn'[o] = t
    BY <1>1, <1>2, <1>4, <2>1 DEF Attachable, Typed
  <2>6. ASSUME NEW u \in Setups \ {t}, dialed'[u] = "open", ~InHands(u)'
        PROVE  \E q \in Objects : conn'[q] = u /\ fin'[q] = "no"
    <3>1. dialed[u] = "open" /\ ~InHands(u)
      BY <2>1, <2>2, <2>6 DEF InHands
    <3>2. PICK q \in Objects : conn[q] = u /\ fin[q] = "no"
      BY <3>1 DEF ConnOwned
    <3>3. q # o
      BY <2>5, <3>2, ServerStreamsAssumption DEF None
    <3>4. conn'[q] = u /\ fin'[q] = "no"
      BY <1>1, <2>1, <3>2, <3>3 DEF Typed
    <3> QED
      BY <3>4
  <2>7. ConnOwned'
    BY <1>2, <2>5, <2>6 DEF ConnOwned
  <2> QED
    BY <1>3, <2>3, <2>4, <2>7
<1>5. CASE ~Attachable(o)
  <2>1. /\ Move(t, "attaching", "over") /\ dialed' = [dialed EXCEPT ![t] = "closed"]
        /\ UNCHANGED <<conn, connected>>
    BY <1>5 DEF AttachUpstreamConn
  <2>2. /\ SetupsTyped(born)' /\ setup'[t].at = "over"
        /\ setup'[t].id = setup[t].id
        /\ \A u \in Setups \ {t} : setup'[u] = setup[u]
    BY <1>1, <2>1, MoveKeeps DEF SetupAt
  <2>3. Typed'
    BY <1>1, <2>1, <2>2 DEF Typed, SetupsTyped
  <2>4. Held'
    BY <1>2, <2>2 DEF Held
  <2>5. ASSUME NEW u \in Setups, dialed'[u] = "open"
        PROVE  dialed[u] = "open" /\ (InHands(u) => InHands(u)')
    BY <2>1, <2>2, <2>5 DEF InHands, Typed
  <2>6. ConnOwned'
    BY <1>1, <2>1, <2>5, ConnStays
  <2> QED
    BY <1>3, <2>3, <2>4, <2>6
<1> QED
  BY <1>4, <1>5

LEMMA CheckAfterAttachKeeps ==
    ASSUME StreamsInv, NEW t \in Setups, CheckAfterAttach(t) PROVE StreamsInv'
<1> USE DEF StreamsInv
<1>1. /\ Move(t, "checking", "over")
      /\ UNCHANGED <<born, idOf, table, active, counter, recently, ousted, shut, arq, fin,
                     connected, conn, sweep, reset, teardown>>
      /\ dialed' \in {dialed, [dialed EXCEPT ![t] = "closed"]}
  BY DEF CheckAfterAttach, tableVars, recordVars, objectVars
<1>2. /\ SetupsTyped(born)' /\ setup[t].at = "checking" /\ setup'[t].at = "over"
      /\ setup'[t].id = setup[t].id
      /\ \A u \in Setups \ {t} : setup'[u] = setup[u]
  BY <1>1, MoveKeeps DEF SetupAt
<1>3. Typed' /\ Born' /\ Torn'
  BY <1>1, <1>2 DEF Typed, Born, Torn, SetupsTyped
<1>4. Held'
  BY <1>2 DEF Held
<1>5. ASSUME NEW u \in Setups, dialed'[u] = "open"
      PROVE  dialed[u] = "open" /\ (InHands(u) => InHands(u)')
  BY <1>1, <1>2, <1>5 DEF InHands, Typed
<1>6. ConnOwned'
  BY <1>1, <1>5, ConnStays
<1>7. TableExact'
  BY <1>1, TableStays
<1> QED
  BY <1>3, <1>4, <1>6, <1>7

LEMMA SetupKeeps ==
    ASSUME StreamsInv, NEW t \in Setups, SetupStep(t) PROVE StreamsInv'
BY StartSetupKeeps, CreateForSetupKeeps, DialKeeps, CheckAfterDialKeeps, AttachKeeps,
   CheckAfterAttachKeeps DEF SetupStep
-----------------------------------------------------------------------------
\* Cancelling a lane, or all of them, changes no task but for its context.
LEMMA CancelKeeps ==
    ASSUME Typed, Held, NEW kept, born' = born,
           setup' = [t \in Setups |-> [setup[t] EXCEPT !.ctx = @ /\ t \in kept]]
    PROVE  SetupsTyped(born)' /\ Held' /\ \A t \in Setups : InHands(t)' <=> InHands(t)
<1>1. ASSUME NEW t \in Setups
      PROVE  /\ setup'[t] \in [at : SetupAt, id : Ids \cup {0}, obj : 0 .. born, ctx : BOOLEAN]
             /\ setup'[t].at = setup[t].at /\ setup'[t].id = setup[t].id
             /\ setup'[t].obj = setup[t].obj
  <2> DEFINE c == setup[t].ctx /\ t \in kept
  <2>1. setup'[t] = [setup[t] EXCEPT !.ctx = c]
    OBVIOUS
  <2>2. c \in BOOLEAN
    OBVIOUS
  <2> HIDE DEF c
  <2>3. setup[t] \in [at : SetupAt, id : Ids \cup {0}, obj : 0 .. born, ctx : BOOLEAN]
    BY DEF Typed
  <2> QED
    BY <2>1, <2>2, <2>3
<1>2. SetupsTyped(born)'
  BY <1>1 DEF SetupsTyped
<1> QED
  BY <1>1, <1>2 DEF Held, InHands

LEMMA ARQClosesKeeps ==
    ASSUME StreamsInv, NEW o \in Objects, ARQCloses(o) PROVE StreamsInv'
<1> USE DEF StreamsInv
<1>1. /\ o <= born /\ arq' = [arq EXCEPT ![o] = "closed"]
      /\ UNCHANGED <<born, idOf, table, active, counter, recently, ousted, shut, fin,
                     connected, conn, setup, dialed, sweep, reset, teardown>>
  BY DEF ARQCloses, tableVars, recordVars, taskVars
<1>2. Typed' /\ Torn' /\ Held'
  BY <1>1 DEF Typed, Torn, Held
<1>3. Born'
  BY <1>1 DEF Born, Typed
<1>4. ConnOwned'
  BY <1>1, ConnStays DEF InHands
<1>5. TableExact'
  <2>1. \A q \in 1 .. born : arq'[q] = "open" => arq[q] = "open"
    BY <1>1, ServerStreamsAssumption DEF Typed, Objects
  <2> QED
    BY <1>1, <2>1, TableStays
<1> QED
  BY <1>2, <1>3, <1>4, <1>5

LEMMA FinalizeKeeps ==
    ASSUME StreamsInv, NEW o \in Objects, Finalize(o) PROVE StreamsInv'
<1> USE DEF StreamsInv
<1>1. /\ arq[o] = "closed" /\ fin' = Freed(o) /\ CleanupResources(o)
      /\ UNCHANGED <<born, idOf, table, active, counter, recently, ousted, shut, arq,
                     setup, sweep, reset, teardown>>
  BY DEF Finalize, tableVars, recordVars
<1>2. /\ dialed' \in [Setups -> {"none", "open", "closed"}]
      /\ connected' \in [Objects -> BOOLEAN]
      /\ conn' \in [Objects -> Setups \cup {None}]
      /\ fin' \in [Objects -> FinAt]
      /\ \A q \in Objects : fin'[q] # "no" <=> q = o \/ fin[q] # "no"
      /\ ConnOwned'
  BY <1>1, CleanupKeeps
<1>3. Typed' /\ Torn' /\ Held'
  BY <1>1, <1>2 DEF Typed, Torn, Held
<1>4. Born'
  <2>1. sweep.at # "idle" => sweep.obj \in Objects
    BY ServerStreamsAssumption DEF Born, Typed, Objects, None
  <2> QED
    BY <1>1, <1>2, <2>1 DEF Born
<1>5. TableExact'
  BY <1>1, TableStays
<1> QED
  BY <1>2, <1>3, <1>4, <1>5

LEMMA SweepAbortsKeeps ==
    ASSUME StreamsInv, NEW o \in Objects, SweepAborts(o) PROVE StreamsInv'
<1> USE DEF StreamsInv
<1>1. /\ o <= born /\ (arq[o] = "closed" \/ fin[o] # "no")
      /\ sweep' = [at |-> "aborted", obj |-> o]
      /\ fin' = Freed(o) /\ CleanupResources(o)
      /\ UNCHANGED <<born, idOf, table, active, counter, recently, ousted, shut, arq,
                     setup, reset, teardown>>
  BY DEF SweepAborts, SweepAt, tableVars, recordVars
<1>2. /\ dialed' \in [Setups -> {"none", "open", "closed"}]
      /\ connected' \in [Objects -> BOOLEAN]
      /\ conn' \in [Objects -> Setups \cup {None}]
      /\ fin' \in [Objects -> FinAt]
      /\ \A q \in Objects : fin'[q] # "no" <=> q = o \/ fin[q] # "no"
      /\ ConnOwned'
  BY <1>1, CleanupKeeps
<1>3. sweep' \in [at : SweepAts, obj : 0 .. born]
  BY <1>1, ServerStreamsAssumption DEF SweepAts, Objects, Typed
<1>4. Typed' /\ Torn' /\ Held'
  BY <1>1, <1>2, <1>3 DEF Typed, Torn, Held
<1>5. Born'
  <2>1. sweep'.obj = o /\ o # None /\ arq[o] = "closed"
    BY <1>1, ServerStreamsAssumption DEF Born, Objects, None
  <2> QED
    BY <1>1, <1>2, <2>1 DEF Born
<1>6. TableExact'
  BY <1>1, TableStays
<1> QED
  BY <1>2, <1>4, <1>5, <1>6

LEMMA CloseOneKeeps ==
    ASSUME StreamsInv, NEW o \in Objects, CloseOne(o) PROVE StreamsInv'
<1> USE DEF StreamsInv
<1>1. /\ o \in teardown.objs /\ arq' = [arq EXCEPT ![o] = "closed"]
      /\ fin' = Freed(o) /\ CleanupResources(o)
      /\ UNCHANGED <<born, idOf, table, active, counter, recently, ousted, shut,
                     setup, sweep, reset, teardown>>
  BY DEF CloseOne, tableVars, recordVars
<1>2. /\ dialed' \in [Setups -> {"none", "open", "closed"}]
      /\ connected' \in [Objects -> BOOLEAN]
      /\ conn' \in [Objects -> Setups \cup {None}]
      /\ fin' \in [Objects -> FinAt]
      /\ \A q \in Objects : fin'[q] # "no" <=> q = o \/ fin[q] # "no"
      /\ ConnOwned'
  BY <1>1, CleanupKeeps
<1>3. o \in 1 .. born
  BY <1>1 DEF Typed
<1>4. Typed' /\ Torn' /\ Held'
  BY <1>1, <1>2 DEF Typed, Torn, Held
<1>5. Born'
  <2>1. /\ sweep.at # "idle" => sweep.obj \in Objects
        /\ \A q \in Objects : arq'[q] = IF q = o THEN "closed" ELSE arq[q]
    BY <1>1, ServerStreamsAssumption DEF Born, Typed, Objects, None
  <2>2. \A q \in Objects : fin'[q] # "no" => arq'[q] = "closed"
    BY <1>2, <2>1 DEF Born
  <2>3. \A q \in Objects : arq'[q] = "closed" => q <= born
    BY <1>3, <2>1 DEF Born
  <2>4. sweep'.at # "idle" => sweep'.obj # None /\ fin'[sweep'.obj] # "no"
    BY <1>1, <1>2, <2>1 DEF Born
  <2> QED
    BY <1>1, <2>2, <2>3, <2>4 DEF Born
<1>6. TableExact'
  <2>1. \A q \in 1 .. born : arq'[q] = "open" => arq[q] = "open"
    BY <1>1, ServerStreamsAssumption DEF Typed, Objects
  <2> QED
    BY <1>1, <2>1, TableStays
<1> QED
  BY <1>2, <1>4, <1>5, <1>6

\* An object that is freed is over, and has an id of its own.
LEMMA FreedIsOver ==
    ASSUME StreamsInv, NEW o \in Objects, fin[o] # "no"
    PROVE  o \in 1 .. born /\ arq[o] = "closed"
BY ServerStreamsAssumption DEF StreamsInv, Born, Typed, Objects

LEMMA OnStreamClosedKeeps ==
    ASSUME StreamsInv, NEW o \in Objects, OnStreamClosed(o) PROVE StreamsInv'
<1> USE DEF StreamsInv
<1>1. /\ fin[o] # "no"
      /\ \E to \in {"removed", "noted", "done"} : fin' = [fin EXCEPT ![o] = to]
      /\ UNCHANGED <<born, idOf, shut, arq, connected, conn, dialed, sweep, reset, teardown>>
  BY DEF OnStreamClosed, taskVars
<1>2. fin' \in [Objects -> FinAt] /\ \A q \in Objects : fin'[q] # "no" <=> fin[q] # "no"
  BY <1>1 DEF Typed, FinAt
<1>3. Born' /\ Torn'
  <2>1. sweep.at # "idle" => sweep.obj \in Objects
    BY ServerStreamsAssumption DEF Born, Typed, Objects, None
  <2> QED
    BY <1>1, <1>2, <2>1 DEF Born, Torn
<1>4. SetupsTyped(born)' /\ Held' /\ \A t \in Setups : InHands(t)' <=> InHands(t)
  <2>1. CASE setup' = setup
    BY <1>1, <2>1 DEF SetupsTyped, Typed, Held, InHands
  <2>2. CASE CancelLane(idOf[o])
    <3> DEFINE kept == {t \in Setups : setup[t].id # idOf[o]}
    <3>1. setup' = [t \in Setups |-> [setup[t] EXCEPT !.ctx = @ /\ t \in kept]]
      BY <2>2 DEF CancelLane
    <3> QED
      BY <1>1, <3>1, CancelKeeps
  <2> QED
    BY <2>1, <2>2 DEF OnStreamClosed, taskVars
<1>5. ConnOwned'
  <2>1. ASSUME NEW t \in Setups, dialed'[t] = "open", ~InHands(t)'
        PROVE  \E q \in Objects : conn'[q] = t /\ fin'[q] = "no"
    <3>1. PICK q \in Objects : conn[q] = t /\ fin[q] = "no"
      BY <1>1, <1>4, <2>1 DEF ConnOwned
    <3> QED
      BY <1>1, <1>2, <3>1 DEF Typed, FinAt
  <2> QED
    BY <2>1 DEF ConnOwned
<1>6. table' \in [Ids -> 0 .. born'] /\ counter' \in Int /\ TableExact'
  <2>1. CASE RemoveStream(o)
    BY <1>1, <2>1, FreedIsOver, RemoveKeeps
  <2>2. CASE ~RemoveStream(o)
    <3>1. UNCHANGED <<table, active, counter>> /\ ousted \subseteq ousted'
      BY <2>2 DEF OnStreamClosed, NoteStreamClosed, Oust, tableVars, recordVars
    <3> QED
      BY <1>1, <3>1, TableStays DEF Typed
  <2> QED
    BY <2>1, <2>2
<1>7. Typed'
  BY <1>1, <1>2, <1>4, <1>6 DEF Typed, SetupsTyped
<1> QED
  BY <1>3, <1>4, <1>5, <1>6, <1>7

LEMMA ResetArrivesKeeps ==
    ASSUME StreamsInv, NEW i \in Ids, ResetArrives(i) PROVE StreamsInv'
<1> USE DEF StreamsInv
<1>1. /\ reset' = i
      /\ UNCHANGED <<born, idOf, table, active, counter, recently, ousted, shut, arq, fin,
                     connected, conn, setup, dialed, sweep, teardown>>
  BY DEF ResetArrives, tableVars, recordVars, objectVars, taskVars
<1>2. TableExact' /\ ConnOwned'
  BY <1>1, TableStays, ConnStays DEF InHands
<1> QED
  BY <1>1, <1>2 DEF Typed, Born, Torn, Held

LEMMA HandleStreamRSTKeeps == ASSUME StreamsInv, HandleStreamRST PROVE StreamsInv'
<1> USE DEF StreamsInv
<1>1. /\ reset \in Ids /\ reset' = 0 /\ CancelLane(reset)
      /\ UNCHANGED <<born, idOf, table, counter, shut, fin, connected, conn, dialed,
                     sweep, teardown>>
      /\ active' \subseteq active /\ ousted' = ousted
      /\ arq' = arq \/ (reset \in Listed /\ arq' = [arq EXCEPT ![table[reset]] = "closed"])
  BY DEF HandleStreamRST, Typed, recordVars
<1>2. SetupsTyped(born)' /\ Held' /\ \A t \in Setups : InHands(t)' <=> InHands(t)
  <2> DEFINE kept == {t \in Setups : setup[t].id # reset}
  <2>1. setup' = [t \in Setups |-> [setup[t] EXCEPT !.ctx = @ /\ t \in kept]]
    BY <1>1 DEF CancelLane
  <2> QED
    BY <1>1, <2>1, CancelKeeps
<1>3. /\ arq' \in [Objects -> {"open", "closed"}]
      /\ \A q \in Objects : arq[q] = "closed" => arq'[q] = "closed"
      /\ \A q \in Objects : arq'[q] = "closed" => q <= born
  <2>1. CASE arq' = arq
    BY <2>1 DEF Typed, Born
  <2>2. CASE reset \in Listed /\ arq' = [arq EXCEPT ![table[reset]] = "closed"]
    <3>1. table[reset] \in 1 .. born
      BY <1>1, <2>2 DEF Listed, Typed, None
    <3>2. /\ arq' \in [Objects -> {"open", "closed"}]
          /\ \A q \in Objects : arq'[q] = IF q = table[reset] THEN "closed" ELSE arq[q]
      BY <2>2 DEF Typed
    <3> QED
      BY <3>1, <3>2 DEF Born
  <2> QED
    BY <1>1, <2>1, <2>2
<1>4. Typed'
  BY <1>1, <1>2, <1>3 DEF Typed, SetupsTyped
<1>5. Born' /\ Torn'
  BY <1>1, <1>3 DEF Born, Torn
<1>6. ConnOwned'
  BY <1>1, <1>2, ConnStays
<1>7. TableExact'
  <2>1. \A q \in 1 .. born : arq'[q] = "open" => arq[q] = "open"
    BY <1>3, ServerStreamsAssumption DEF Typed, Objects
  <2> QED
    BY <1>1, <2>1, TableStays
<1> QED
  BY <1>2, <1>4, <1>5, <1>6, <1>7

LEMMA SweepRemovesKeeps == ASSUME StreamsInv, SweepRemoves PROVE StreamsInv'
<1> USE DEF StreamsInv
<1>1. /\ sweep.at # "idle"
      /\ sweep' \in {[at |-> "removed", obj |-> sweep.obj], [at |-> "idle", obj |-> None]}
      /\ UNCHANGED <<born, idOf, shut, arq, fin, connected, conn, setup, dialed, reset,
                     teardown>>
  BY DEF SweepRemoves, SweepAt, objectVars, taskVars
<1>2. sweep.obj \in Objects /\ fin[sweep.obj] # "no"
  BY <1>1, ServerStreamsAssumption DEF Born, Typed, Objects, None
<1>3. table' \in [Ids -> 0 .. born'] /\ counter' \in Int /\ TableExact'
  <2>1. CASE RemoveStream(sweep.obj)
    BY <1>1, <1>2, <2>1, FreedIsOver, RemoveKeeps
  <2>2. CASE ~RemoveStream(sweep.obj)
    <3>1. UNCHANGED <<table, active, counter>> /\ ousted \subseteq ousted'
      BY <2>2 DEF SweepRemoves, NoteStreamClosed, Oust, recordVars
    <3> QED
      BY <1>1, <3>1, TableStays DEF Typed
  <2> QED
    BY <2>1, <2>2
<1>4. sweep' \in [at : SweepAts, obj : 0 .. born]
  BY <1>1, ServerStreamsAssumption DEF SweepAts, Typed, None
<1>5. Typed' /\ Held'
  BY <1>1, <1>3, <1>4 DEF Typed, Held
<1>6. Born' /\ Torn'
  BY <1>1, <1>2 DEF Born, Torn
<1>7. ConnOwned'
  BY <1>1, ConnStays DEF InHands
<1> QED
  BY <1>3, <1>5, <1>6, <1>7

LEMMA MarkClosedKeeps == ASSUME StreamsInv, MarkClosed PROVE StreamsInv'
<1> USE DEF StreamsInv
<1>1. /\ shut' = TRUE
      /\ UNCHANGED <<born, idOf, table, active, counter, recently, ousted, arq, fin,
                     connected, conn, setup, dialed, sweep, reset, teardown>>
  BY DEF MarkClosed, tableVars, recordVars, objectVars, taskVars
<1>2. TableExact' /\ ConnOwned'
  BY <1>1, TableStays, ConnStays DEF InHands
<1>3. Typed'
  <2>1. shut' \in BOOLEAN
    BY <1>1
  <2> QED
    BY <1>1, <2>1 DEF Typed
<1> QED
  BY <1>1, <1>2, <1>3 DEF Born, Torn, Held

LEMMA TeardownKeeps == ASSUME StreamsInv, TeardownStep PROVE StreamsInv'
<1> USE DEF StreamsInv
<1>1. CASE CollectStreams
  <2>1. /\ shut /\ teardown.at = "no"
        /\ teardown' = [teardown EXCEPT !.at = "closing", !.objs = {table[i] : i \in Listed}]
        /\ UNCHANGED <<born, idOf, table, active, counter, recently, ousted, shut, arq, fin,
                       connected, conn, setup, dialed, sweep, reset>>
    BY <1>1 DEF CollectStreams, tableVars, recordVars, objectVars, taskVars
  <2>2. {table[i] : i \in Listed} \in SUBSET (1 .. born)
    BY DEF Typed, Listed, None
  <2>3. teardown.sub = 0 /\ teardown'.sub = 0 /\ teardown'.at = "closing"
    BY <2>1 DEF Torn, Typed
  <2>4. teardown' \in [at : {"no", "closing", "cleared", "done"}, objs : SUBSET (1 .. born), sub : Nat]
    BY <2>1, <2>2 DEF Typed
  <2>5. Typed' /\ Born' /\ Torn' /\ Held'
    BY <2>1, <2>3, <2>4 DEF Typed, Born, Torn, Held
  <2>6. ConnOwned'
    BY <2>1, ConnStays DEF InHands
  <2>7. TableExact'
    BY <2>1, <2>3 DEF TableExact, Listed
  <2> QED
    BY <2>5, <2>6, <2>7
<1>2. CASE \E o \in Objects : CloseOne(o)
  BY <1>2, CloseOneKeeps
<1>3. CASE ClearStreams
  <2>1. /\ teardown.at = "closing" /\ table' = [i \in Ids |-> None] /\ active' = {}
        /\ teardown' = [teardown EXCEPT !.at = "cleared", !.sub = Cardinality(Listed)]
        /\ UNCHANGED <<born, idOf, counter, recently, ousted, shut, arq, fin,
                       connected, conn, setup, dialed, sweep, reset>>
    BY <1>3 DEF ClearStreams, recordVars, objectVars, taskVars
  <2>2. /\ shut /\ teardown.sub = 0 /\ teardown'.at = "cleared"
        /\ teardown'.sub = Cardinality(Listed)
        /\ teardown' \in [at : {"no", "closing", "cleared", "done"}, objs : SUBSET (1 .. born),
                           sub : Nat]
    BY <2>1, ListedFinite DEF Torn, Typed
  <2>3. table' \in [Ids -> 0 .. born']
    BY <2>1, ServerStreamsAssumption DEF Typed, None
  <2>4. Typed' /\ Born' /\ Torn' /\ Held'
    BY <2>1, <2>2, <2>3 DEF Typed, Born, Torn, Held
  <2>5. ConnOwned'
    BY <2>1, ConnStays DEF InHands
  <2>6. Listed' = {} /\ Cardinality(Listed') = 0
    BY <2>1, FS_EmptySet DEF Listed
  <2>7. TableExact'
    BY <2>1, <2>2, <2>6, ListedFinite DEF TableExact, Typed
  <2> QED
    BY <2>4, <2>5, <2>7
<1>4. CASE CountCleared
  <2>1. /\ teardown.at = "cleared" /\ counter' = counter - teardown.sub
        /\ teardown' = [teardown EXCEPT !.at = "done", !.sub = 0]
        /\ setup' = [t \in Setups |-> [setup[t] EXCEPT !.ctx = FALSE]]
        /\ UNCHANGED <<born, idOf, table, active, recently, ousted, shut, arq, fin,
                       connected, conn, dialed, sweep, reset>>
    BY <1>4 DEF CountCleared, recordVars, objectVars
  <2>2. SetupsTyped(born)' /\ Held' /\ \A t \in Setups : InHands(t)' <=> InHands(t)
    <3> DEFINE kept == {}
    <3>1. \A t \in Setups : (setup[t].ctx /\ t \in kept) = FALSE
      OBVIOUS
    <3>2. setup' = [t \in Setups |-> [setup[t] EXCEPT !.ctx = @ /\ t \in kept]]
      BY <2>1, <3>1
    <3> HIDE DEF kept
    <3> QED
      BY <2>1, <3>2, CancelKeeps
  <2>3. /\ shut /\ teardown'.at = "done" /\ teardown'.sub = 0 /\ teardown.sub \in Nat
        /\ teardown' \in [at : {"no", "closing", "cleared", "done"}, objs : SUBSET (1 .. born),
                           sub : Nat]
    BY <2>1 DEF Torn, Typed
  <2>4. counter' \in Int /\ counter' = Cardinality(Listed)
    BY <2>1, <2>3, ListedFinite DEF Typed, TableExact
  <2>5. Typed' /\ Born' /\ Torn'
    BY <2>1, <2>2, <2>3, <2>4 DEF Typed, Born, Torn, SetupsTyped
  <2>6. ConnOwned'
    BY <2>1, <2>2, ConnStays
  <2>7. TableExact'
    <3>1. Listed' = Listed /\ Cardinality(Listed') = Cardinality(Listed)
      BY <2>1 DEF Listed
    <3> QED
      BY <2>1, <2>3, <2>4, <3>1, ListedFinite DEF TableExact
  <2> QED
    BY <2>2, <2>5, <2>6, <2>7
<1> QED
  BY <1>1, <1>2, <1>3, <1>4 DEF TeardownStep
-----------------------------------------------------------------------------
LEMMA StreamsInvNext == StreamsInv /\ [StreamsNext]_streamsVars => StreamsInv'
<1> SUFFICES ASSUME StreamsInv, [StreamsNext]_streamsVars PROVE StreamsInv'
  OBVIOUS
<1>1. CASE StreamsNext
  <2>1. ASSUME NEW o \in Objects, ARQCloses(o) \/ ObjectStep(o) \/ SweepAborts(o)
        PROVE  StreamsInv'
    BY <2>1, ARQClosesKeeps, FinalizeKeeps, OnStreamClosedKeeps, SweepAbortsKeeps
       DEF ObjectStep
  <2> QED
    BY <1>1, <2>1, PruneKeeps, SynKeeps, SetupKeeps, ResetArrivesKeeps,
       HandleStreamRSTKeeps, SweepRemovesKeeps, MarkClosedKeeps, TeardownKeeps
       DEF StreamsNext
<1>2. CASE UNCHANGED streamsVars
  <2>1. UNCHANGED <<born, idOf, table, active, counter, recently, ousted, shut, arq, fin,
                    connected, conn, setup, dialed, sweep, reset, teardown>>
    BY <1>2 DEF streamsVars, tableVars, recordVars, objectVars, taskVars
  <2>2. TableExact' /\ ConnOwned'
    BY <2>1, TableStays, ConnStays DEF InHands, StreamsInv
  <2> QED
    BY <2>1, <2>2 DEF StreamsInv, Typed, Born, Torn, Held
<1> QED
  BY <1>1, <1>2

LEMMA StreamsInvAlways == StreamsInit /\ [][StreamsNext]_streamsVars => []StreamsInv
BY StreamsInvInit, StreamsInvNext, PTL

\* No connection is left open with nobody to close it, however the dial of a
\* setup races the closing of its stream or of its session.
THEOREM ConnsOwned == StreamsInit /\ [][StreamsNext]_streamsVars => []ConnOwned
<1>1. StreamsInv => ConnOwned
  BY DEF StreamsInv
<1> QED
  BY <1>1, StreamsInvAlways, PTL

\* The gauge counts the streams listed, the dispatcher knows listed streams
\* only, and a stream that is alive stays listed.
THEOREM TableIsExact == StreamsInit /\ [][StreamsNext]_streamsVars => []TableExact
<1>1. StreamsInv => TableExact
  BY DEF StreamsInv
<1> QED
  BY <1>1, StreamsInvAlways, PTL
-----------------------------------------------------------------------------
(* A stream that answers CONNECTED has its connection.                      *)

\* An id is remembered as closed once, and not while a stream of it is alive.
Memory ==
    /\ recently \in Seq(Ids)
    /\ \A k, m \in 1 .. Len(recently) : recently[k] = recently[m] => k = m
    /\ ~shut => \A o \in (1 .. born) \ ousted :
                   arq[o] = "open" => ~RecentlyClosed(idOf[o])

\* Objects are listed, and held by setups, under their ids.
Filed ==
    /\ \A i \in Listed : idOf[table[i]] = i
    /\ \A t \in Setups : setup[t].obj # None => idOf[setup[t].obj] = setup[t].id

\* The connection of an object was dialed by a setup that held this object, and
\* is done with it.
Attached ==
    \A o \in Objects :
        /\ conn[o] # None => /\ setup[conn[o]].obj = o
                             /\ setup[conn[o]].at \in {"checking", "over"}
        /\ connected[o] => conn[o] # None

\* What a setup has dialed stays open until the setup gives it away.
Dialed ==
    \A t \in Setups : setup[t].at \in {"dialed", "attaching"} => dialed[t] = "open"

Works == Memory /\ Filed /\ Dialed /\ Attached /\ ConnectedWorks
WorksInv == StreamsInv /\ Works

\* Without the one place an id has, it is not in the record.
LEMMA RemovedOnce ==
    ASSUME NEW q \in Seq(Ids), \A k, m \in 1 .. Len(q) : q[k] = q[m] => k = m, NEW i
    PROVE  /\ RemoveFirst(q, i) \in Seq(Ids) /\ Len(RemoveFirst(q, i)) <= Len(q)
           /\ \A k, m \in 1 .. Len(RemoveFirst(q, i)) :
                 RemoveFirst(q, i)[k] = RemoveFirst(q, i)[m] => k = m
           /\ \A j : Contains(RemoveFirst(q, i), j) => Contains(q, j) /\ j # i
<1> DEFINE r == RemoveFirst(q, i)
<1>0. Len(q) \in Nat /\ \A k \in 1 .. Len(q) : q[k] \in Ids
  BY LenProperties, ElementOfSeq
<1>1. CASE \E k \in 1 .. Len(q) : q[k] = i
  <2>1. PICK n \in 1 .. Len(q) : q[n] = i
    BY <1>1
  <2> DEFINE I == {k \in 1 .. Len(q) : q[k] = i}
             a == SubSeq(q, 1, n - 1)
             b == SubSeq(q, n + 1, Len(q))
  <2>2. I = {n} /\ n \in Int /\ n <= n
    BY <2>1
  <2>3. SelectInSeq(q, LAMBDA v : v = i) = n
    <3>1. Min({n}) = n
      BY <2>2 DEF Min
    <3>2. SelectInSeq(q, LAMBDA v : v = i) = IF I # {} THEN Min(I) ELSE 0
      BY DEF SelectInSeq
    <3> QED
      BY <2>2, <3>1, <3>2
  <2>4. r = a \o b
    BY <1>1, <2>3 DEF RemoveFirst, RemoveAt
  <2>5. /\ a \in Seq(Ids) /\ Len(a) = n - 1 /\ \A k \in 1 .. n - 1 : a[k] = q[k]
    <3>1. 1 \in Int /\ n - 1 \in Int /\ \A k \in 1 .. n - 1 : q[k] \in Ids
      BY <1>0, <2>1
    <3> HIDE DEF a
    <3>2. /\ SubSeq(q, 1, n - 1) \in Seq(Ids)
          /\ Len(SubSeq(q, 1, n - 1)) = IF 1 <= n - 1 THEN (n - 1) - 1 + 1 ELSE 0
          /\ \A k \in 1 .. (n - 1) - 1 + 1 : SubSeq(q, 1, n - 1)[k] = q[1 + k - 1]
      BY <3>1, SubSeqProperties
    <3>3. (n - 1) - 1 + 1 = n - 1 /\ (~(1 <= n - 1) => n - 1 = 0)
          /\ \A k \in 1 .. n - 1 : 1 + k - 1 = k
      BY <2>1, <1>0
    <3> QED
      BY <3>2, <3>3 DEF a
  <2>6. /\ b \in Seq(Ids) /\ Len(b) = Len(q) - n
        /\ \A k \in 1 .. Len(q) - n : b[k] = q[n + k]
    <3>1. n + 1 \in Int /\ Len(q) \in Int /\ \A k \in n + 1 .. Len(q) : q[k] \in Ids
      BY <1>0, <2>1
    <3>2. /\ SubSeq(q, n + 1, Len(q)) \in Seq(Ids)
          /\ Len(SubSeq(q, n + 1, Len(q))) = IF n + 1 <= Len(q) THEN Len(q) - (n + 1) + 1 ELSE 0
          /\ \A k \in 1 .. Len(q) - (n + 1) + 1 : SubSeq(q, n + 1, Len(q))[k] = q[(n + 1) + k - 1]
      BY <3>1, SubSeqProperties
    <3>3. Len(q) - (n + 1) + 1 = Len(q) - n /\ (~(n + 1 <= Len(q)) => Len(q) - n = 0)
          /\ \A k \in 1 .. Len(q) - n : (n + 1) + k - 1 = n + k
      BY <2>1, <1>0
    <3> QED
      BY <3>2, <3>3
  <2> HIDE DEF a, b, I
  <2>7. /\ r \in Seq(Ids) /\ Len(r) = Len(q) - 1
        /\ \A k \in 1 .. Len(q) - 1 : r[k] = IF k < n THEN q[k] ELSE q[k + 1]
    <3>1. /\ r \in Seq(Ids) /\ Len(r) = Len(a) + Len(b)
          /\ \A k \in 1 .. Len(a) + Len(b) : r[k] = IF k <= Len(a) THEN a[k] ELSE b[k - Len(a)]
      <4>1. a \in Seq(Ids) /\ b \in Seq(Ids)
        BY <2>5, <2>6
      <4>2. /\ a \o b \in Seq(Ids) /\ Len(a \o b) = Len(a) + Len(b)
            /\ \A k \in 1 .. Len(a) + Len(b) :
                  (a \o b)[k] = IF k <= Len(a) THEN a[k] ELSE b[k - Len(a)]
        BY <4>1, ConcatProperties
      <4> HIDE DEF r
      <4> QED
        BY <2>4, <4>2
    <3>2. Len(a) + Len(b) = Len(q) - 1
      BY <1>0, <2>1, <2>5, <2>6
    <3>3. ASSUME NEW k \in 1 .. Len(q) - 1
          PROVE  r[k] = IF k < n THEN q[k] ELSE q[k + 1]
      <4>1. CASE k < n
        <5>1. k \in 1 .. n - 1 /\ k <= Len(a)
          BY <1>0, <2>1, <2>5, <4>1
        <5> QED
          BY <3>1, <3>2, <2>5, <4>1, <5>1
      <4>2. CASE ~(k < n)
        <5>1. k - (n - 1) \in 1 .. Len(q) - n /\ ~(k <= n - 1) /\ n + (k - (n - 1)) = k + 1
          BY <1>0, <2>1, <4>2
        <5>2. r[k] = b[k - (n - 1)]
          BY <3>1, <3>2, <2>5, <5>1
        <5> QED
          BY <2>6, <4>2, <5>1, <5>2
      <4> QED
        BY <4>1, <4>2
    <3> QED
      BY <3>1, <3>2, <3>3
  <2> HIDE DEF r
  <2> DEFINE origin(k) == IF k < n THEN k ELSE k + 1
  <2>8. \A k \in 1 .. Len(r) : /\ origin(k) \in 1 .. Len(q) /\ origin(k) # n
                             /\ r[k] = q[origin(k)] /\ k \in Int
    BY <1>0, <2>1, <2>7
  <2>9. \A k, m \in 1 .. Len(r) : origin(k) = origin(m) => k = m
    BY <2>1, <2>7, <1>0
  <2> HIDE DEF origin
  <2>10. \A k, m \in 1 .. Len(r) : r[k] = r[m] => k = m
    BY <2>8, <2>9
  <2>11. \A j : Contains(r, j) => Contains(q, j) /\ j # i
    BY <2>1, <2>8 DEF Contains
  <2>12. Len(r) <= Len(q)
    BY <1>0, <2>7
  <2> QED
    BY <2>7, <2>10, <2>11, <2>12 DEF r
<1>2. CASE ~\E k \in 1 .. Len(q) : q[k] = i
  <2>1. r = q
    BY <1>2 DEF RemoveFirst
  <2> QED
    BY <1>0, <1>2, <2>1 DEF Contains
<1> QED
  BY <1>1, <1>2

\* A record from the front on has the same ids, each once.
LEMMA TailOnce ==
    ASSUME NEW q \in Seq(Ids), q # <<>>, \A k, m \in 1 .. Len(q) : q[k] = q[m] => k = m
    PROVE  /\ Tail(q) \in Seq(Ids) /\ Len(Tail(q)) = Len(q) - 1
           /\ \A k, m \in 1 .. Len(Tail(q)) : Tail(q)[k] = Tail(q)[m] => k = m
           /\ \A j : Contains(Tail(q), j) => Contains(q, j)
<1>1. Len(q) \in Nat
  BY LenProperties
<1>2. /\ Tail(q) \in Seq(Ids) /\ Len(Tail(q)) = Len(q) - 1
      /\ \A k \in 1 .. Len(q) - 1 : Tail(q)[k] = q[k + 1]
  BY HeadTailProperties
<1>3. \A k \in 1 .. Len(q) - 1 : k + 1 \in 1 .. Len(q) /\ k \in Int
  BY <1>1
<1> QED
  BY <1>2, <1>3 DEF Contains

\* Noting an id adds it, once.
LEMMA NotedOnce ==
    ASSUME Memory, NEW i \in Ids
    PROVE  /\ Noted(i) \in Seq(Ids)
           /\ Len(recently) <= ClosedCap => Len(Noted(i)) <= ClosedCap
           /\ \A k, m \in 1 .. Len(Noted(i)) : Noted(i)[k] = Noted(i)[m] => k = m
           /\ \A j : Contains(Noted(i), j) => RecentlyClosed(j) \/ j = i
<1> DEFINE r == RemoveFirst(recently, i)
           q == Append(r, i)
<1>1. /\ r \in Seq(Ids) /\ \A k, m \in 1 .. Len(r) : r[k] = r[m] => k = m
      /\ Len(r) <= Len(recently)
      /\ \A j : Contains(r, j) => RecentlyClosed(j) /\ j # i
  BY RemovedOnce DEF Memory, RecentlyClosed
<1> HIDE DEF r
<1>2. Len(r) \in Nat
  BY <1>1, LenProperties
<1>3. /\ q \in Seq(Ids) /\ Len(q) = Len(r) + 1 /\ q # <<>>
      /\ \A k \in 1 .. Len(r) : q[k] = r[k] /\ q[k] # i
      /\ q[Len(r) + 1] = i
  <2>1. \A k \in 1 .. Len(r) : r[k] # i
    BY <1>1 DEF Contains
  <2> QED
    BY <1>1, <1>2, <2>1, AppendProperties
<1> HIDE DEF q
<1>4. \A k \in 1 .. Len(q) : k \in 1 .. Len(r) \/ k = Len(r) + 1
  BY <1>2, <1>3
<1>5. \A k, m \in 1 .. Len(q) : q[k] = q[m] => k = m
  <2> TAKE k, m \in 1 .. Len(q)
  <2> HAVE q[k] = q[m]
  <2>1. /\ k \in 1 .. Len(r) \/ k = Len(r) + 1
        /\ m \in 1 .. Len(r) \/ m = Len(r) + 1
    BY <1>4
  <2> QED
    BY <1>1, <1>3, <2>1
<1>6. \A j : Contains(q, j) => RecentlyClosed(j) \/ j = i
  <2> TAKE j
  <2> HAVE Contains(q, j)
  <2>1. PICK k \in 1 .. Len(q) : q[k] = j
    BY DEF Contains
  <2>2. CASE k \in 1 .. Len(r)
    <3>1. Contains(r, j)
      BY <1>3, <2>1, <2>2 DEF Contains
    <3> QED
      BY <1>1, <3>1
  <2>3. CASE k = Len(r) + 1
    BY <1>3, <2>1, <2>3
  <2> QED
    BY <1>4, <2>2, <2>3
<1>7. Noted(i) = IF Len(q) > ClosedCap THEN Tail(q) ELSE q
  BY DEF Noted, q, r
<1>0. Len(recently) \in Nat /\ ClosedCap \in Nat
  BY LenProperties, ServerStreamsAssumption DEF Memory
<1>8. CASE Len(q) > ClosedCap
  <2>1. Noted(i) = Tail(q)
    BY <1>7, <1>8
  <2>2. Len(recently) <= ClosedCap => Len(q) - 1 <= ClosedCap
    BY <1>0, <1>1, <1>2, <1>3
  <2> QED
    BY <1>3, <1>5, <1>6, <2>1, <2>2, TailOnce
<1>9. CASE ~(Len(q) > ClosedCap)
  <2>1. Noted(i) = q /\ Len(q) <= ClosedCap
    BY <1>0, <1>2, <1>3, <1>7, <1>9
  <2> QED
    BY <1>3, <1>5, <1>6, <2>1
<1> QED
  BY <1>8, <1>9

\* At the start nothing is remembered, listed or attached.
LEMMA WorksInvInit == StreamsInit => WorksInv
<1> SUFFICES ASSUME StreamsInit PROVE WorksInv
  OBVIOUS
<1>1. StreamsInv
  BY StreamsInvInit
<1>2. Memory
  BY EmptySeq DEF StreamsInit, Memory
<1>3. Filed /\ Dialed /\ Attached /\ ConnectedWorks
  BY DEF StreamsInit, Filed, Dialed, Attached, ConnectedWorks, Listed, Idle
<1> QED
  BY <1>1, <1>2, <1>3 DEF WorksInv, Works

\* The record of closed ids stays right when streams only close or are ousted.
LEMMA MemoryStays ==
    ASSUME Memory, UNCHANGED <<born, idOf, recently>>, ousted \subseteq ousted', shut => shut',
           \A o \in 1 .. born : arq'[o] = "open" => arq[o] = "open"
    PROVE  Memory'
BY DEF Memory, RecentlyClosed

\* So does what is filed, as long as neither the table nor a task takes
\* another object.
LEMMA FiledStays ==
    ASSUME Filed, UNCHANGED <<idOf, table>>,
           \A t \in Setups : setup'[t].obj = setup[t].obj /\ setup'[t].id = setup[t].id
    PROVE  Filed'
BY DEF Filed, Listed

\* Connections stay where they are and open while no task that has attached
\* one is changed in what it holds.
LEMMA ConnectedStays ==
    ASSUME Attached, ConnectedWorks, Typed, UNCHANGED <<conn, connected>>,
           ousted \subseteq ousted', shut => shut',
           \A o \in Objects : arq'[o] = "open" => arq[o] = "open",
           \A t \in Setups : setup[t].at \in {"checking", "over"} =>
               /\ setup'[t].obj = setup[t].obj /\ setup'[t].at \in {"checking", "over"}
               /\ dialed'[t] = dialed[t]
    PROVE  Attached' /\ ConnectedWorks'
<1>1. \A o \in Objects : conn[o] # None =>
          /\ conn[o] \in Setups /\ setup[conn[o]].obj = o
          /\ setup[conn[o]].at \in {"checking", "over"}
  BY DEF Attached, Typed
<1>2. Attached'
  BY <1>1 DEF Attached
<1>3. ConnectedWorks'
  <2> SUFFICES ASSUME NEW o \in Objects \ ousted', connected'[o], arq'[o] = "open", ~shut'
               PROVE  dialed'[conn'[o]] = "open"
    BY DEF ConnectedWorks
  <2>1. dialed[conn[o]] = "open"
    BY DEF ConnectedWorks
  <2>2. conn[o] # None
    BY DEF Attached
  <2> QED
    BY <1>1, <2>1, <2>2
<1> QED
  BY <1>2, <1>3

\* getOrCreateStream forgets that the id was closed, and files the new object
\* under it.
LEMMA CreateRemembers ==
    ASSUME WorksInv, NEW i \in Ids, GetOrCreateStream(i), UNCHANGED <<shut, arq>>
    PROVE  /\ Memory' /\ born' \in born .. MaxObjects /\ ousted' = ousted
           /\ \A j \in Listed' : idOf'[table'[j]] = j
           /\ \A o \in 1 .. born : idOf'[o] = idOf[o]
           /\ Found(i) # None => idOf'[Found(i)] = i
<1> USE DEF WorksInv, Works, StreamsInv, None, Objects
<1>0. born \in Nat /\ MaxObjects \in Nat /\ born <= MaxObjects
  BY ServerStreamsAssumption DEF Typed
<1>1. CASE Refused(i) \/ i \in Listed
  <2>1. UNCHANGED <<born, idOf, table, recently, ousted>>
    BY <1>1 DEF GetOrCreateStream, recordVars
  <2>2. Memory'
    BY <2>1, MemoryStays
  <2>3. \A j \in Listed' : idOf'[table'[j]] = j
    BY <2>1 DEF Filed, Listed
  <2>4. Found(i) # None => idOf'[Found(i)] = i
    BY <1>1, <2>1 DEF Found, Filed
  <2> QED
    BY <1>0, <2>1, <2>2, <2>3, <2>4
<1>2. CASE ~(Refused(i) \/ i \in Listed)
  <2>1. /\ born < MaxObjects /\ born' = born + 1
        /\ idOf' = [idOf EXCEPT ![born'] = i]
        /\ table' = [table EXCEPT ![i] = born']
        /\ ousted' = ousted /\ recently' = RemoveFirst(recently, i)
        /\ Found(i) = born'
    BY <1>2 DEF GetOrCreateStream, Found
  <2>2. /\ born' \in born .. MaxObjects /\ born' \in Objects
        /\ \A o \in 1 .. born : o \in Objects /\ o # born'
    BY <1>0, <2>1
  <2>3. idOf'[born'] = i /\ \A o \in 1 .. born : idOf'[o] = idOf[o]
    BY <2>1, <2>2 DEF Typed
  <2>4. ASSUME NEW j \in Listed' PROVE idOf'[table'[j]] = j
    <3>1. CASE j = i
      BY <2>1, <2>3, <3>1 DEF Typed
    <3>2. CASE j # i
      <4>1. j \in Listed /\ table'[j] = table[j] /\ table[j] \in 1 .. born
        BY <2>1, <3>2 DEF Listed, Typed
      <4> QED
        BY <2>3, <4>1 DEF Filed
    <3> QED
      BY <3>1, <3>2
  <2>5. /\ recently' \in Seq(Ids)
        /\ \A k, m \in 1 .. Len(recently') : recently'[k] = recently'[m] => k = m
        /\ \A j : Contains(recently', j) => RecentlyClosed(j) /\ j # i
    BY <2>1, RemovedOnce DEF Memory, RecentlyClosed
  <2>6. ASSUME ~shut', NEW o \in (1 .. born') \ ousted', arq'[o] = "open"
        PROVE  ~Contains(recently', idOf'[o])
    <3>1. CASE o = born'
      BY <2>3, <2>5, <3>1
    <3>2. CASE o # born'
      <4>1. o \in (1 .. born) \ ousted
        BY <1>0, <2>1, <2>6, <3>2
      <4>2. ~RecentlyClosed(idOf[o])
        BY <2>6, <4>1 DEF Memory
      <4> QED
        BY <2>3, <2>5, <4>1, <4>2
    <3> QED
      BY <3>1, <3>2
  <2>7. Memory'
    BY <2>5, <2>6 DEF Memory, RecentlyClosed
  <2> QED
    BY <2>1, <2>2, <2>3, <2>4, <2>7
<1> QED
  BY <1>1, <1>2

\* removeStream takes an id out of the table; noteStreamClosed remembers it,
\* and ousts a stream that is listed under it.
LEMMA RemoveOrNoteRemembers ==
    ASSUME WorksInv, NEW p \in 1 .. born, arq[p] = "closed", UNCHANGED <<born, idOf, shut, arq>>,
           \/ RemoveStream(p) /\ UNCHANGED recently
           \/ NoteStreamClosed(p) /\ UNCHANGED table
    PROVE  Memory' /\ ousted \subseteq ousted' /\ \A j \in Listed' : idOf'[table'[j]] = j
<1> USE DEF WorksInv, Works, StreamsInv, None
<1> DEFINE i == idOf[p]
<1>1. i \in Ids
  BY DEF Born
<1>2. CASE RemoveStream(p) /\ UNCHANGED recently
  <2>1. ousted \subseteq ousted' /\ (table' = table \/ table' = [table EXCEPT ![i] = None])
    BY <1>2 DEF RemoveStream, Oust
  <2>2. Memory'
    BY <1>2, <2>1, MemoryStays
  <2>3. \A j \in Listed' : j \in Listed /\ table'[j] = table[j]
    BY <1>1, <2>1 DEF Listed, Typed
  <2> QED
    BY <2>1, <2>2, <2>3 DEF Filed
<1>3. CASE NoteStreamClosed(p) /\ UNCHANGED table
  <2>1. \A j \in Listed' : idOf'[table'[j]] = j
    BY <1>3 DEF Filed, Listed
  <2>2. CASE shut
    <3>1. UNCHANGED <<recently, ousted>>
      BY <1>3, <2>2 DEF NoteStreamClosed, recordVars
    <3> QED
      BY <2>1, <3>1, MemoryStays
  <2>3. CASE ~shut
    <3>1. recently' = Noted(i) /\ ousted' = ousted \cup ({table[i]} \ {None, p})
      BY <1>3, <2>3 DEF NoteStreamClosed, Oust
    <3>2. /\ recently' \in Seq(Ids)
          /\ \A k, m \in 1 .. Len(recently') : recently'[k] = recently'[m] => k = m
          /\ \A j : Contains(recently', j) => RecentlyClosed(j) \/ j = i
      BY <1>1, <3>1, NotedOnce DEF RecentlyClosed
    <3>3. ASSUME NEW o \in (1 .. born') \ ousted', arq'[o] = "open"
          PROVE  ~Contains(recently', idOf'[o])
      <4>1. o \in (1 .. born) \ ousted /\ arq[o] = "open" /\ o # p
        BY <3>1, <3>3
      <4>2. ~RecentlyClosed(idOf[o]) /\ table[idOf[o]] = o
        BY <2>3, <4>1 DEF Memory, TableExact
      <4>3. idOf[o] # i
        BY <3>1, <3>3, <4>1, <4>2
      <4> QED
        BY <3>2, <4>2, <4>3
    <3>4. Memory'
      BY <3>2, <3>3 DEF Memory, RecentlyClosed
    <3> QED
      BY <2>1, <3>1, <3>4
  <2> QED
    BY <2>2, <2>3
<1> QED
  BY <1>2, <1>3

\* Cleanup takes one object's connection, and no other's.
LEMMA CleanupLeavesOthers ==
    ASSUME WorksInv, NEW o \in Objects, CleanupResources(o),
           UNCHANGED <<born, idOf, table, recently, setup, ousted, shut>>,
           \A q \in Objects : arq'[q] = "open" => arq[q] = "open"
    PROVE  Works'
<1> USE DEF WorksInv, Works, StreamsInv
<1>1. /\ connected' = [connected EXCEPT ![o] = FALSE] /\ conn' = [conn EXCEPT ![o] = None]
      /\ dialed' = IF conn[o] = None THEN dialed ELSE [dialed EXCEPT ![conn[o]] = "closed"]
  BY DEF CleanupResources, ClosedConn
<1>2. \A q \in Objects \ {o} : connected'[q] = connected[q] /\ conn'[q] = conn[q]
  BY <1>1 DEF Typed
<1>3. connected'[o] = FALSE /\ conn'[o] = None
  BY <1>1 DEF Typed
<1>4. Attached'
  BY <1>2, <1>3 DEF Attached
<1>5. ASSUME NEW q \in Objects \ ousted', connected'[q], arq'[q] = "open", ~shut'
      PROVE  dialed'[conn'[q]] = "open"
  <2>1. q # o /\ connected[q] /\ conn'[q] = conn[q]
    BY <1>2, <1>3, <1>5
  <2>2. dialed[conn[q]] = "open" /\ conn[q] # None /\ conn[q] \in Setups
    BY <1>5, <2>1 DEF ConnectedWorks, Attached, Typed
  <2>3. conn[o] # None => conn[o] # conn[q]
    BY <2>1, <2>2 DEF Attached
  <2>4. dialed'[conn[q]] = dialed[conn[q]]
    BY <1>1, <2>2, <2>3 DEF Typed
  <2> QED
    BY <2>1, <2>2, <2>4
<1>6. Dialed'
  <2>1. \A t \in Setups : setup[t].at \in {"dialed", "attaching"} => conn[o] # t
    BY ServerStreamsAssumption DEF Attached, None
  <2> QED
    BY <1>1, <2>1 DEF Dialed, Typed
<1>7. \A q \in 1 .. born : q \in Objects
  BY ServerStreamsAssumption DEF Typed, Objects
<1> QED
  BY <1>4, <1>5, <1>6, <1>7, MemoryStays, FiledStays DEF ConnectedWorks

\* A task moves on, and no other has its connection changed.
LEMMA TaskMoves ==
    ASSUME WorksInv, NEW t \in Setups, NEW origin, NEW to \in SetupAt, Move(t, origin, to),
           origin \notin {"checking", "over"},
           UNCHANGED <<born, idOf, table, recently, ousted, shut, arq, conn, connected>>,
           \A u \in Setups \ {t} : dialed'[u] = dialed[u],
           to \in {"dialed", "attaching"} => dialed'[t] = "open"
    PROVE  Works'
<1> USE DEF WorksInv, Works, StreamsInv
<1>1. /\ setup[t].at = origin /\ setup'[t].at = to
      /\ setup'[t].id = setup[t].id /\ setup'[t].obj = setup[t].obj
      /\ \A u \in Setups \ {t} : setup'[u] = setup[u]
  BY MoveKeeps
<1>2. Memory' /\ Filed'
  BY <1>1, MemoryStays, FiledStays
<1>3. Dialed'
  BY <1>1 DEF Dialed
<1>4. Attached' /\ ConnectedWorks'
  BY <1>1, ConnectedStays
<1> QED
  BY <1>2, <1>3, <1>4

\* So it is when streams close and are ousted and contexts are cancelled.
LEMMA WorksStays ==
    ASSUME WorksInv, UNCHANGED <<born, idOf, table, recently, conn, connected, dialed>>,
           ousted \subseteq ousted', shut => shut',
           \A o \in Objects : arq'[o] = "open" => arq[o] = "open",
           \A t \in Setups : /\ setup'[t].at = setup[t].at /\ setup'[t].id = setup[t].id
                             /\ setup'[t].obj = setup[t].obj
    PROVE  Works'
<1> USE DEF WorksInv, Works, StreamsInv
<1>1. \A q \in 1 .. born : q \in Objects
  BY ServerStreamsAssumption DEF Typed, Objects
<1>2. Memory' /\ Filed'
  BY <1>1, MemoryStays, FiledStays
<1>3. Dialed'
  BY DEF Dialed
<1>4. Attached' /\ ConnectedWorks'
  BY ConnectedStays
<1> QED
  BY <1>2, <1>3, <1>4

\* Cancelling keeps where a task is and what it holds.
LEMMA CancelLaneKeeps ==
    ASSUME Typed, NEW i, CancelLane(i)
    PROVE  \A t \in Setups : /\ setup'[t].at = setup[t].at /\ setup'[t].id = setup[t].id
                             /\ setup'[t].obj = setup[t].obj
BY DEF CancelLane, Typed

\* The steps that touch neither the record, nor a connection.
LEMMA QuietWorks ==
    ASSUME WorksInv,
           \/ \E o \in Objects : ARQCloses(o)
           \/ \E i \in Ids : ResetArrives(i)
           \/ MarkClosed \/ CollectStreams \/ CountCleared
    PROVE  Works'
<1> USE DEF WorksInv, StreamsInv
<1>1. CASE \E o \in Objects : ARQCloses(o)
  <2>1. PICK o \in Objects : ARQCloses(o)
    BY <1>1
  <2>2. /\ arq' = [arq EXCEPT ![o] = "closed"]
        /\ UNCHANGED <<born, idOf, table, recently, ousted, shut, connected, conn, setup, dialed>>
    BY <2>1 DEF ARQCloses, tableVars, recordVars, taskVars
  <2>3. \A q \in Objects : arq'[q] = "open" => arq[q] = "open"
    BY <2>2 DEF Typed
  <2> QED
    BY <2>2, <2>3, WorksStays
<1>2. CASE (\E i \in Ids : ResetArrives(i)) \/ MarkClosed \/ CollectStreams
  <2>1. /\ UNCHANGED <<born, idOf, table, recently, ousted, arq, connected, conn, setup, dialed>>
        /\ shut => shut'
    BY <1>2 DEF ResetArrives, MarkClosed, CollectStreams, tableVars, recordVars, objectVars,
       taskVars
  <2> QED
    BY <2>1, WorksStays
<1>3. CASE CountCleared
  <2>1. /\ setup' = [t \in Setups |-> [setup[t] EXCEPT !.ctx = FALSE]]
        /\ UNCHANGED <<born, idOf, table, recently, ousted, shut, arq, connected, conn, dialed>>
    BY <1>3 DEF CountCleared, recordVars, objectVars
  <2>2. \A t \in Setups : /\ setup'[t].at = setup[t].at /\ setup'[t].id = setup[t].id
                          /\ setup'[t].obj = setup[t].obj
    BY <2>1 DEF Typed
  <2> QED
    BY <2>1, <2>2, WorksStays
<1> QED
  BY <1>1, <1>2, <1>3

\* The record loses its oldest id.
LEMMA PruneWorks == ASSUME WorksInv, PruneRecentlyClosed PROVE Works'
<1> USE DEF WorksInv, Works, StreamsInv
<1>1. /\ recently # <<>> /\ recently' = Tail(recently)
      /\ UNCHANGED <<born, idOf, table, ousted, shut, arq, connected, conn, setup, dialed>>
  BY DEF PruneRecentlyClosed, objectVars, taskVars
<1>2. /\ recently' \in Seq(Ids)
      /\ \A k, m \in 1 .. Len(recently') : recently'[k] = recently'[m] => k = m
      /\ \A j : Contains(recently', j) => RecentlyClosed(j)
  BY <1>1, TailOnce DEF Memory, RecentlyClosed
<1>3. Memory'
  <2>1. ASSUME ~shut', NEW o \in (1 .. born') \ ousted', arq'[o] = "open"
        PROVE  ~Contains(recently', idOf'[o])
    <3>1. ~RecentlyClosed(idOf[o]) /\ idOf'[o] = idOf[o]
      BY <1>1, <2>1 DEF Memory
    <3> QED
      BY <1>2, <3>1
  <2> QED
    BY <1>2, <2>1 DEF Memory, RecentlyClosed
<1> QED
  BY <1>1, <1>3, FiledStays, ConnectedStays DEF Dialed

\* A SYN and the task it queues may create an object, which holds no connection.
LEMMA SynWorks == ASSUME WorksInv, NEW t \in Setups, NEW i \in Ids, Syn(t, i) PROVE Works'
<1> USE DEF WorksInv, Works, StreamsInv
<1>1. /\ GetOrCreateStream(i) /\ setup[t] = Idle
      /\ setup' = [setup EXCEPT ![t] = [at |-> "queued", id |-> i, obj |-> None, ctx |-> TRUE]]
      /\ UNCHANGED <<shut, arq, connected, conn, dialed>>
  BY DEF Syn, objectVars
<1>2. /\ Memory' /\ ousted' = ousted
      /\ \A j \in Listed' : idOf'[table'[j]] = j
      /\ \A o \in 1 .. born : idOf'[o] = idOf[o]
  BY <1>1, CreateRemembers
<1>3. /\ setup'[t].at = "queued" /\ setup'[t].obj = None
      /\ \A u \in Setups \ {t} : setup'[u] = setup[u]
  BY <1>1 DEF Typed
<1>4. Filed'
  <2>1. \A u \in Setups : setup[u].obj # None => setup[u].obj \in 1 .. born
    BY DEF Typed, None
  <2> QED
    BY <1>2, <1>3, <2>1 DEF Filed
<1>5. Dialed'
  BY <1>1, <1>3 DEF Dialed
<1>6. Attached' /\ ConnectedWorks'
  BY <1>1, <1>2, <1>3, ConnectedStays DEF Idle
<1> QED
  BY <1>2, <1>4, <1>5, <1>6

LEMMA CreateForSetupWorks ==
    ASSUME WorksInv, NEW t \in Setups, CreateForSetup(t) PROVE Works'
<1> USE DEF WorksInv, Works, StreamsInv
<1> DEFINE o == Found(setup[t].id)
           at == IF o = None \/ connected[o] THEN "over" ELSE "dialing"
<1>1. /\ setup[t].at = "creating" /\ GetOrCreateStream(setup[t].id)
      /\ setup' = [setup EXCEPT ![t].obj = o, ![t].at = at]
      /\ UNCHANGED <<shut, arq, connected, conn, dialed>>
  BY DEF CreateForSetup, objectVars
<1>2. setup[t].id \in Ids
  BY <1>1 DEF Held
<1>3. /\ Memory' /\ ousted' = ousted
      /\ \A j \in Listed' : idOf'[table'[j]] = j
      /\ \A q \in 1 .. born : idOf'[q] = idOf[q]
      /\ o # None => idOf'[o] = setup[t].id
  BY <1>1, <1>2, CreateRemembers
<1>4. at \in {"over", "dialing"}
  OBVIOUS
<1> HIDE DEF o, at
<1>5. /\ setup'[t].at = at /\ setup'[t].obj = o /\ setup'[t].id = setup[t].id
      /\ \A u \in Setups \ {t} : setup'[u] = setup[u]
  BY <1>1 DEF Typed
<1>6. Filed'
  <2>1. \A u \in Setups : setup[u].obj # None => setup[u].obj \in 1 .. born
    BY DEF Typed, None
  <2> QED
    BY <1>3, <1>5, <2>1 DEF Filed
<1>7. Dialed'
  BY <1>1, <1>4, <1>5 DEF Dialed
<1>8. Attached' /\ ConnectedWorks'
  BY <1>1, <1>3, <1>5, ConnectedStays
<1> QED
  BY <1>3, <1>6, <1>7, <1>8

\* The object takes the connection of the setup that dialed it for this object.
LEMMA AttachWorks == ASSUME WorksInv, NEW t \in Setups, AttachUpstreamConn(t) PROVE Works'
<1> USE DEF WorksInv, Works, StreamsInv
<1> DEFINE o == setup[t].obj
<1>1. /\ setup[t].at = "attaching"
      /\ UNCHANGED <<born, idOf, table, recently, ousted, shut, arq>>
  BY DEF AttachUpstreamConn, tableVars, recordVars
<1>2. CASE Attachable(o)
  <2>1. /\ Move(t, "attaching", "checking") /\ dialed' = dialed
        /\ conn' = [conn EXCEPT ![o] = t] /\ connected' = [connected EXCEPT ![o] = TRUE]
    BY <1>2 DEF AttachUpstreamConn
  <2>2. /\ setup'[t].at = "checking"
        /\ setup'[t].id = setup[t].id /\ setup'[t].obj = setup[t].obj
        /\ \A u \in Setups \ {t} : setup'[u] = setup[u]
    BY <1>1, <2>1, MoveKeeps DEF SetupAt
  <2>3. o \in Objects /\ t # None
    BY <1>1, ServerStreamsAssumption DEF Held, Typed, Objects, None
  <2> HIDE DEF o
  <2>4. /\ conn'[o] = t /\ connected'[o]
        /\ \A q \in Objects \ {o} : conn'[q] = conn[q] /\ connected'[q] = connected[q]
    BY <2>1, <2>3 DEF Typed
  <2>5. \A q \in Objects : conn[q] # t
    BY <1>1, <2>3 DEF Attached
  <2>6. Memory' /\ Filed'
    BY <1>1, <2>2, MemoryStays, FiledStays
  <2>7. Dialed'
    BY <2>1, <2>2 DEF Dialed
  <2>8. Attached'
    <3>1. ASSUME NEW q \in Objects
          PROVE  /\ conn'[q] # None => /\ setup'[conn'[q]].obj = q
                                       /\ setup'[conn'[q]].at \in {"checking", "over"}
                 /\ connected'[q] => conn'[q] # None
      <4>1. CASE q = o
        BY <2>2, <2>3, <2>4, <4>1 DEF o
      <4>2. CASE q # o
        <5>1. conn'[q] = conn[q] /\ connected'[q] = connected[q] /\ conn[q] # t
          BY <2>4, <2>5, <4>2
        <5> QED
          BY <2>2, <5>1 DEF Attached, Typed
      <4> QED
        BY <4>1, <4>2
    <3> QED
      BY <3>1 DEF Attached
  <2>9. ConnectedWorks'
    <3>1. dialed[t] = "open"
      BY <1>1 DEF Dialed
    <3> QED
      BY <1>1, <2>1, <2>4, <3>1 DEF ConnectedWorks
  <2> QED
    BY <2>6, <2>7, <2>8, <2>9
<1>3. CASE ~Attachable(o)
  <2>1. /\ Move(t, "attaching", "over") /\ dialed' = [dialed EXCEPT ![t] = "closed"]
        /\ UNCHANGED <<conn, connected>>
    BY <1>3 DEF AttachUpstreamConn
  <2>2. \A u \in Setups \ {t} : dialed'[u] = dialed[u]
    BY <2>1 DEF Typed
  <2> QED
    BY <1>1, <2>1, <2>2, TaskMoves DEF SetupAt
<1> QED
  BY <1>2, <1>3

\* The last check closes no connection of a stream that is alive: the table
\* still lists this stream and the record does not have its id.
LEMMA CheckAfterAttachWorks ==
    ASSUME WorksInv, NEW t \in Setups, CheckAfterAttach(t) PROVE Works'
<1> USE DEF WorksInv, Works, StreamsInv
<1>1. /\ Move(t, "checking", "over")
      /\ dialed' = IF ShouldExecute(setup[t].id) THEN dialed
                   ELSE [dialed EXCEPT ![t] = "closed"]
      /\ UNCHANGED <<born, idOf, table, recently, ousted, shut, arq, conn, connected>>
  BY DEF CheckAfterAttach, tableVars, recordVars, objectVars
<1>2. /\ setup[t].at = "checking" /\ setup'[t].at = "over"
      /\ setup'[t].id = setup[t].id /\ setup'[t].obj = setup[t].obj
      /\ \A u \in Setups \ {t} : setup'[u] = setup[u]
  BY <1>1, MoveKeeps DEF SetupAt
<1>3. \A u \in Setups \ {t} : dialed'[u] = dialed[u]
  BY <1>1 DEF Typed
<1>4. Memory' /\ Filed'
  BY <1>1, <1>2, MemoryStays, FiledStays
<1>5. Dialed'
  BY <1>2, <1>3 DEF Dialed
<1>6. Attached'
  BY <1>1, <1>2 DEF Attached, Typed
<1>7. ASSUME NEW q \in Objects \ ousted', connected'[q], arq'[q] = "open", ~shut'
      PROVE  dialed'[conn'[q]] = "open"
  <2>1. /\ dialed[conn[q]] = "open" /\ conn[q] # None /\ conn[q] \in Setups
        /\ setup[conn[q]].obj = q
    BY <1>1, <1>7 DEF ConnectedWorks, Attached, Typed
  <2>2. CASE conn[q] # t
    BY <1>1, <1>3, <2>1, <2>2
  <2>3. CASE conn[q] = t
    <3>0. setup[t].obj = q /\ setup[t].obj \in 0 .. born /\ q # None /\ q \in Nat
      BY <2>1, <2>3, ServerStreamsAssumption DEF Typed, None, Objects
    <3>1. q \in 1 .. born /\ idOf[q] = setup[t].id
      BY <3>0 DEF Filed, Typed, None
    <3>2. table[idOf[q]] = q /\ ~RecentlyClosed(idOf[q]) /\ fin[q] = "no"
      BY <1>1, <1>7, <3>1 DEF TableExact, Memory, Born
    <3>3. ShouldExecute(setup[t].id)
      BY <1>1, <1>7, <3>1, <3>2 DEF ShouldExecute
    <3> QED
      BY <1>1, <2>1, <3>3
  <2> QED
    BY <2>2, <2>3
<1> QED
  BY <1>4, <1>5, <1>6, <1>7 DEF ConnectedWorks

LEMMA SetupWorks == ASSUME WorksInv, NEW t \in Setups, SetupStep(t) PROVE Works'
<1> USE DEF WorksInv, Works, StreamsInv, SetupAt
<1>1. CASE StartSetup(t)
  <2> DEFINE to == IF setup[t].ctx /\ ShouldExecute(setup[t].id) THEN "creating" ELSE "over"
  <2>1. /\ Move(t, "queued", to)
        /\ UNCHANGED <<born, idOf, table, recently, ousted, shut, arq, conn, connected, dialed>>
    BY <1>1 DEF StartSetup, tableVars, recordVars, objectVars
  <2>2. to \in {"creating", "over"}
    OBVIOUS
  <2> HIDE DEF to
  <2> QED
    BY <2>1, <2>2, TaskMoves
<1>2. CASE Dial(t)
  <2>1. UNCHANGED <<born, idOf, table, recently, ousted, shut, arq, conn, connected>>
    BY <1>2 DEF Dial, tableVars, recordVars, objectVars
  <2>2. CASE Move(t, "dialing", "dialed") /\ dialed' = [dialed EXCEPT ![t] = "open"]
    <3>1. dialed'[t] = "open" /\ \A u \in Setups \ {t} : dialed'[u] = dialed[u]
      BY <2>2 DEF Typed
    <3> QED
      BY <2>1, <2>2, <3>1, TaskMoves
  <2>3. CASE Move(t, "dialing", "over") /\ UNCHANGED dialed
    BY <2>1, <2>3, TaskMoves
  <2> QED
    BY <1>2, <2>2, <2>3 DEF Dial
<1>3. CASE CheckAfterDial(t)
  <2>1. UNCHANGED <<born, idOf, table, recently, ousted, shut, arq, conn, connected>>
    BY <1>3 DEF CheckAfterDial, tableVars, recordVars, objectVars
  <2>2. CASE Move(t, "dialed", "attaching") /\ UNCHANGED dialed
    <3>1. dialed'[t] = "open"
      BY <2>2 DEF Move, Dialed
    <3> QED
      BY <2>1, <2>2, <3>1, TaskMoves
  <2>3. CASE Move(t, "dialed", "over") /\ dialed' = [dialed EXCEPT ![t] = "closed"]
    <3>1. \A u \in Setups \ {t} : dialed'[u] = dialed[u]
      BY <2>3 DEF Typed
    <3> QED
      BY <2>1, <2>3, <3>1, TaskMoves
  <2> QED
    BY <1>3, <2>2, <2>3 DEF CheckAfterDial
<1> QED
  BY <1>1, <1>2, <1>3, CreateForSetupWorks, AttachWorks, CheckAfterAttachWorks DEF SetupStep

\* Whoever finalizes an object takes its connection.
LEMMA CleanupWorks ==
    ASSUME WorksInv, NEW o \in Objects, Finalize(o) \/ SweepAborts(o) \/ CloseOne(o)
    PROVE  Works'
<1>1. /\ CleanupResources(o)
      /\ UNCHANGED <<born, idOf, table, recently, setup, ousted, shut>>
      /\ arq' = arq \/ arq' = [arq EXCEPT ![o] = "closed"]
  BY DEF Finalize, SweepAborts, CloseOne, tableVars, recordVars
<1>2. \A q \in Objects : arq'[q] = "open" => arq[q] = "open"
  BY <1>1 DEF WorksInv, StreamsInv, Typed
<1> QED
  BY <1>1, <1>2, CleanupLeavesOthers

\* An object that is over is removed and noted, once or twice.
LEMMA RemoveOrNoteWorks ==
    ASSUME WorksInv, NEW p \in 1 .. born, arq[p] = "closed",
           UNCHANGED <<born, idOf, shut, arq, connected, conn, setup, dialed>>,
           \/ RemoveStream(p) /\ UNCHANGED recently
           \/ NoteStreamClosed(p) /\ UNCHANGED table
    PROVE  Works'
<1> USE DEF WorksInv, Works, StreamsInv
<1>1. Memory' /\ ousted \subseteq ousted' /\ \A j \in Listed' : idOf'[table'[j]] = j
  BY RemoveOrNoteRemembers
<1>2. Filed' /\ Dialed'
  BY <1>1 DEF Filed, Dialed
<1>3. Attached' /\ ConnectedWorks'
  BY <1>1, ConnectedStays
<1> QED
  BY <1>1, <1>2, <1>3

LEMMA EndsWorks ==
    ASSUME WorksInv, (\E o \in Objects : OnStreamClosed(o)) \/ SweepRemoves PROVE Works'
<1> USE DEF WorksInv, StreamsInv
<1>1. CASE \E o \in Objects : OnStreamClosed(o)
  <2>1. PICK o \in Objects : OnStreamClosed(o)
    BY <1>1
  <2>2. o \in 1 .. born /\ arq[o] = "closed"
    BY <2>1, FreedIsOver DEF OnStreamClosed
  <2>3. UNCHANGED <<born, idOf, shut, arq, connected, conn, dialed>>
    BY <2>1 DEF OnStreamClosed, taskVars
  <2>4. CASE CancelLane(idOf[o]) /\ UNCHANGED tableVars
    <3>1. UNCHANGED <<table, recently, ousted>>
      BY <2>4 DEF tableVars, recordVars
    <3> QED
      BY <2>3, <2>4, <3>1, CancelLaneKeeps, WorksStays
  <2>5. CASE ~(CancelLane(idOf[o]) /\ UNCHANGED tableVars)
    <3>1. /\ UNCHANGED setup
          /\ \/ RemoveStream(o) /\ UNCHANGED recently
             \/ NoteStreamClosed(o) /\ UNCHANGED table
      BY <2>1, <2>5 DEF OnStreamClosed, taskVars
    <3> QED
      BY <2>2, <2>3, <3>1, RemoveOrNoteWorks
  <2> QED
    BY <2>4, <2>5
<1>2. CASE SweepRemoves
  <2>1. /\ sweep.at # "idle"
        /\ UNCHANGED <<born, idOf, shut, arq, connected, conn, setup, dialed>>
        /\ \/ RemoveStream(sweep.obj) /\ UNCHANGED recently
           \/ NoteStreamClosed(sweep.obj) /\ UNCHANGED table
    BY <1>2 DEF SweepRemoves, objectVars, taskVars
  <2>2. sweep.obj \in Objects /\ fin[sweep.obj] # "no"
    BY <2>1, ServerStreamsAssumption DEF Born, Typed, Objects, None
  <2>3. sweep.obj \in 1 .. born /\ arq[sweep.obj] = "closed"
    BY <2>2, FreedIsOver
  <2> QED
    BY <2>1, <2>3, RemoveOrNoteWorks
<1> QED
  BY <1>1, <1>2

\* A RST notes an id only when no stream is listed under it.
LEMMA ResetWorks == ASSUME WorksInv, HandleStreamRST PROVE Works'
<1> USE DEF WorksInv, Works, StreamsInv
<1>1. /\ reset \in Ids /\ CancelLane(reset) /\ ousted' = ousted
      /\ UNCHANGED <<born, idOf, table, shut, connected, conn, dialed>>
  BY DEF HandleStreamRST, Typed, recordVars
<1>2. CASE UNCHANGED recently
  <2>1. \A q \in Objects : arq'[q] = "open" => arq[q] = "open"
    BY DEF HandleStreamRST, Typed
  <2> QED
    BY <1>1, <1>2, <2>1, CancelLaneKeeps, WorksStays
<1>3. CASE ~UNCHANGED recently
  <2>1. ~shut /\ reset \notin Listed /\ recently' = Noted(reset) /\ arq' = arq
    BY <1>3 DEF HandleStreamRST, recordVars
  <2>2. /\ recently' \in Seq(Ids)
        /\ \A k, m \in 1 .. Len(recently') : recently'[k] = recently'[m] => k = m
        /\ \A j : Contains(recently', j) => RecentlyClosed(j) \/ j = reset
    BY <1>1, <2>1, NotedOnce DEF RecentlyClosed
  <2>3. ASSUME NEW o \in (1 .. born') \ ousted', arq'[o] = "open"
        PROVE  ~Contains(recently', idOf'[o])
    <3>1. ~RecentlyClosed(idOf[o]) /\ table[idOf[o]] = o /\ idOf[o] \in Ids /\ o # None
      BY <1>1, <2>1, <2>3 DEF Memory, TableExact, Born, None, Typed
    <3>2. idOf[o] # reset
      BY <2>1, <3>1 DEF Listed
    <3> QED
      BY <1>1, <2>2, <3>1, <3>2
  <2>4. Memory'
    BY <2>2, <2>3 DEF Memory, RecentlyClosed
  <2>5. \A t \in Setups : /\ setup'[t].at = setup[t].at /\ setup'[t].id = setup[t].id
                          /\ setup'[t].obj = setup[t].obj
    BY <1>1, CancelLaneKeeps
  <2>6. Filed' /\ Dialed'
    BY <1>1, <2>5, FiledStays DEF Dialed
  <2>7. Attached' /\ ConnectedWorks'
    BY <1>1, <2>1, <2>5, ConnectedStays
  <2> QED
    BY <2>4, <2>6, <2>7
<1> QED
  BY <1>2, <1>3

LEMMA ClearWorks == ASSUME WorksInv, ClearStreams PROVE Works'
<1> USE DEF WorksInv, Works, StreamsInv
<1>1. /\ table' = [i \in Ids |-> None]
      /\ UNCHANGED <<born, idOf, recently, ousted, shut, arq, connected, conn, setup, dialed>>
  BY DEF ClearStreams, recordVars, objectVars, taskVars
<1>2. Filed' /\ Dialed'
  BY <1>1 DEF Filed, Dialed, Listed
<1> QED
  BY <1>1, <1>2, MemoryStays, ConnectedStays

LEMMA WorksInvNext == WorksInv /\ [StreamsNext]_streamsVars => WorksInv'
<1> SUFFICES ASSUME WorksInv, [StreamsNext]_streamsVars PROVE WorksInv'
  OBVIOUS
<1>1. StreamsInv'
  BY StreamsInvNext DEF WorksInv
<1>2. CASE StreamsNext
  <2>1. ASSUME NEW o \in Objects, ARQCloses(o) \/ ObjectStep(o) \/ SweepAborts(o)
        PROVE  Works'
    BY <2>1, QuietWorks, CleanupWorks, EndsWorks DEF ObjectStep
  <2>2. ASSUME TeardownStep PROVE Works'
    BY <2>2, QuietWorks, CleanupWorks, ClearWorks DEF TeardownStep
  <2>3. Works'
    BY <1>2, <2>1, <2>2, PruneWorks, SynWorks, SetupWorks, QuietWorks, ResetWorks, EndsWorks
       DEF StreamsNext
  <2> QED
    BY <1>1, <2>3 DEF WorksInv
<1>3. CASE UNCHANGED streamsVars
  <2>1. UNCHANGED <<born, idOf, table, recently, ousted, shut, arq, connected, conn, setup,
                    dialed>>
    BY <1>3 DEF streamsVars, tableVars, recordVars, objectVars, taskVars
  <2>2. Works'
    BY <2>1, WorksStays
  <2> QED
    BY <1>1, <2>2 DEF WorksInv
<1> QED
  BY <1>2, <1>3

\* A stream that tells the client it is connected has an open connection for as
\* long as it is alive, unless the end of an older stream ousted its id.
THEOREM ConnectedIsTrue == StreamsInit /\ [][StreamsNext]_streamsVars => []ConnectedWorks
<1>1. WorksInv => ConnectedWorks
  BY DEF WorksInv, Works
<1> QED
  BY <1>1, WorksInvInit, WorksInvNext, PTL
-----------------------------------------------------------------------------
(* The dispatcher.  First the operators it is built from.                   *)

\* A step taken again and again gives a sequence of values.
StaysIn(X, n, F) == \A k \in 1 .. n, y \in X : F[k][y] \in X
Runs(X, n, x, F) ==
    \E g \in [0 .. n -> X] : g[0] = x /\ \A k \in 1 .. n : g[k] = F[k][g[k - 1]]

LEMMA Iterates ==
    ASSUME NEW X, NEW n \in Nat, NEW x \in X, NEW F, StaysIn(X, n, F)
    PROVE  Runs(X, n, x, F)
<1> USE DEF StaysIn, Runs
<1> DEFINE Good(m) == \E g \in [0 .. m -> X] :
                         g[0] = x /\ \A k \in 1 .. m : g[k] = F[k][g[k - 1]]
           S == {m \in 0 .. n : ~Good(m)}
<1>1. SUFFICES ASSUME S # {} PROVE FALSE
  <2>1. n \in 0 .. n
    OBVIOUS
  <2> HIDE DEF Good
  <2>2. Good(n)
    BY <2>1, <1>1
  <2> QED
    BY <2>2 DEF Good
<1> HIDE DEF Good
<1>2. S \in SUBSET Nat
  OBVIOUS
<1>3. PICK m \in S : \A i \in S : m <= i
  BY <1>1, <1>2, LeastOf
<1>4. m # 0
  <2> DEFINE z == [k \in 0 .. 0 |-> x]
  <2>1. z \in [0 .. 0 -> X]
    OBVIOUS
  <2>2. z[0] = x /\ \A k \in 1 .. 0 : z[k] = F[k][z[k - 1]]
    OBVIOUS
  <2> HIDE DEF z
  <2>3. Good(0)
    BY <2>1, <2>2 DEF Good
  <2> QED
    BY <2>3
<1>5. m \in 1 .. n /\ m - 1 \in 0 .. n /\ m - 1 < m
  BY <1>4
<1>6. Good(m - 1)
  <2>1. m - 1 \notin S
    BY <1>3, <1>5
  <2> QED
    BY <1>5, <2>1
<1>7. PICK g \in [0 .. m - 1 -> X] :
          g[0] = x /\ \A k \in 1 .. m - 1 : g[k] = F[k][g[k - 1]]
  BY <1>6 DEF Good
<1> DEFINE h == [k \in 0 .. m |-> IF k = m THEN F[m][g[m - 1]] ELSE g[k]]
<1>8. h \in [0 .. m -> X]
  <2>1. g[m - 1] \in X
    BY <1>5, <1>7
  <2>2. F[m][g[m - 1]] \in X
    BY <1>5, <2>1
  <2> QED
    BY <2>2, <1>5
<1>9. h[0] = x
  BY <1>5, <1>7
<1>10. \A k \in 1 .. m : h[k] = F[k][h[k - 1]]
  <2> TAKE k \in 1 .. m
  <2>1. h[k - 1] = g[k - 1]
    BY <1>5
  <2>2. CASE k = m
    BY <2>1, <2>2
  <2>3. CASE k # m
    <3>1. k \in 1 .. m - 1 /\ h[k] = g[k]
      BY <2>3, <1>5
    <3> QED
      BY <3>1, <2>1, <1>7
  <2> QED
    BY <2>2, <2>3
<1>11. Good(m)
  <2> HIDE DEF h
  <2> QED
    BY <1>8, <1>9, <1>10 DEF Good
<1> QED
  BY <1>11

\* The values of such a sequence, however it is written, are those of the
\* step.
LEMMA IteratesTyped ==
    ASSUME NEW n \in Nat, NEW g, NEW r,
           r[0] = g[0],
           \A k \in 1 .. n : r[k - 1] = g[k - 1] => r[k] = g[k]
    PROVE  \A k \in 0 .. n : r[k] = g[k]
<1> DEFINE S == {m \in 0 .. n : r[m] # g[m]}
<1>1. SUFFICES ASSUME S # {} PROVE FALSE
  OBVIOUS
<1>2. PICK m \in S : \A i \in S : m <= i
  <2>1. S \in SUBSET Nat
    OBVIOUS
  <2> QED
    BY <1>1, <2>1, LeastOf
<1>3. m \in 1 .. n /\ m - 1 \in 0 .. n /\ ~(m <= m - 1)
  OBVIOUS
<1>4. r[m - 1] = g[m - 1]
  BY <1>2, <1>3
<1> QED
  BY <1>3, <1>4

\* The search for the resume point ends within the entries.
LEMMA StartWithin ==
    ASSUME NEW es \in Seq(Int), NEW c
    PROVE  IF es = <<>> THEN SearchStart(es, c) = 0 ELSE SearchStart(es, c) \in 0 .. Len(es) - 1
<1> DEFINE n == Len(es)
           X == (0 .. n) \X (0 .. n)
           halve == [r \in (0 .. n) \X (0 .. n) |->
                     LET h == (r[1] + r[2]) \div 2
                     IN  IF r[1] >= r[2] THEN r
                         ELSE IF es[h + 1] >= c THEN <<r[1], h>> ELSE <<h + 1, r[2]>>]
           F == [k \in 1 .. n |-> halve]
           Is(r) == r = [k \in 0 .. n |-> IF k = 0 THEN <<0, n>> ELSE halve[r[k - 1]]]
           range == CHOOSE r : Is(r)
<1>1. n \in Nat /\ (es # <<>> => n # 0)
  OBVIOUS
<1>2. ASSUME NEW r \in X PROVE halve[r] \in X
  <2> DEFINE h == (r[1] + r[2]) \div 2
  <2>1. r[1] \in 0 .. n /\ r[2] \in 0 .. n /\ r = <<r[1], r[2]>>
    OBVIOUS
  <2>2. r[1] < r[2] => h \in 0 .. n /\ h + 1 \in 0 .. n
    BY <1>1, <2>1
  <2>3. halve[r] = IF r[1] >= r[2] THEN r
                   ELSE IF es[h + 1] >= c THEN <<r[1], h>> ELSE <<h + 1, r[2]>>
    OBVIOUS
  <2>4. r[1] >= r[2] \/ r[1] < r[2]
    BY <2>1
  <2> HIDE DEF h, halve
  <2> QED
    BY <2>1, <2>2, <2>3, <2>4
<1> HIDE DEF halve
<1>3. StaysIn(X, n, F)
  BY <1>2 DEF StaysIn
<1>4. <<0, n>> \in X
  BY <1>1
<1> DEFINE x == <<0, n>>
<1> HIDE DEF F, X, n, x
<1>5a. x \in X
  BY <1>4 DEF x
<1>5b. Runs(X, n, x, F)
  BY <1>1, <1>3, <1>5a, Iterates
<1>5. PICK g \in [0 .. n -> X] : g[0] = <<0, n>> /\ \A k \in 1 .. n : g[k] = F[k][g[k - 1]]
  BY <1>5b DEF x, Runs
<1>6. \A k \in 1 .. n : g[k] = halve[g[k - 1]]
  <2> TAKE k \in 1 .. n
  <2>1. g[k - 1] \in X
    BY <1>1, <1>5
  <2> QED
    BY <1>5, <2>1 DEF F
<1>7. Is(g)
  <2>1. \A k \in 0 .. n : g[k] = IF k = 0 THEN <<0, n>> ELSE halve[g[k - 1]]
    <3> TAKE k \in 0 .. n
    <3>1. CASE k = 0
      BY <3>1, <1>5
    <3>2. CASE k # 0
      <4>1. k \in 1 .. n
        BY <3>2, <1>1
      <4> QED
        BY <3>2, <4>1, <1>6
    <3> QED
      BY <3>1, <3>2
  <2>2. g = [k \in 0 .. n |-> g[k]]
    BY <1>5
  <2> QED
    BY <2>1, <2>2
<1>8. Is(range)
  <2> HIDE DEF Is
  <2> QED
    BY <1>7
<1> HIDE DEF range
<1>9. range[n] = g[n]
  <2>1. range[0] = g[0]
    BY <1>1, <1>5, <1>8
  <2>2. \A k \in 1 .. n : range[k] = halve[range[k - 1]]
    <3> TAKE k \in 1 .. n
    <3>1. k \in 0 .. n /\ k # 0
      BY <1>1
    <3> HIDE DEF n, halve
    <3> QED
      BY <1>8, <3>1
  <2>3. \A k \in 1 .. n : range[k - 1] = g[k - 1] => range[k] = g[k]
    BY <1>6, <2>2
  <2> HIDE DEF Is
  <2>5. \A k \in 0 .. n : range[k] = g[k]
    BY <1>1, <2>1, <2>3, IteratesTyped
  <2> QED
    BY <1>1, <2>5
<1>10. range[n][1] \in 0 .. n
  <2>1. g[n] \in X
    BY <1>1, <1>5
  <2> QED
    BY <1>9, <2>1 DEF X
<1>11. SearchStart(es, c) = IF range[n][1] = n THEN 0 ELSE range[n][1]
  BY DEF SearchStart, range, halve, n
<1> QED
  BY <1>1, <1>10, <1>11 DEF n

\* Sequences put one behind the other hold what they held.
LEMMA FlattenKeeps ==
    ASSUME NEW T, NEW ss \in Seq(Seq(T))
    PROVE  FlattenSeq(ss) \in Seq(T)
<1> DEFINE n == Len(ss)
           X == Seq(T)
           x == ss[1]
           F == [k \in 1 .. n - 1 |-> [y \in X |-> y \o ss[k + 1]]]
           Is(r) == r = [i \in 1 .. n |-> IF i = 1 THEN ss[i] ELSE r[i - 1] \o ss[i]]
           flatten == CHOOSE r : Is(r)
<1>1. CASE n = 0
  <2>1. FlattenSeq(ss) = ss
    BY <1>1 DEF FlattenSeq
  <2>2. ss = <<>>
    BY <1>1
  <2> QED
    BY <2>1, <2>2
<1>2. CASE n # 0
  <2>1. n \in Nat /\ n - 1 \in Nat /\ n \in 1 .. n /\ 1 \in 1 .. n
    BY <1>2
  <2>2. \A i \in 1 .. n : ss[i] \in X
    BY <2>1
  <2>3. StaysIn(X, n - 1, F)
    <3>1. ASSUME NEW k \in 1 .. n - 1, NEW y \in X PROVE F[k][y] \in X
      <4>1. ss[k + 1] \in Seq(T)
        BY <2>1, <2>2
      <4>2. y \o ss[k + 1] \in Seq(T)
        BY <4>1
      <4> QED
        BY <4>2
    <3> HIDE DEF F, X, n
    <3> QED
      BY <3>1 DEF StaysIn
  <2>4. x \in X
    BY <2>1, <2>2
  <2>5. Runs(X, n - 1, x, F)
    <3> HIDE DEF F, X, n, x
    <3> QED
      BY <2>1, <2>3, <2>4, Iterates
  <2>6. PICK g \in [0 .. n - 1 -> X] : g[0] = x /\ \A k \in 1 .. n - 1 : g[k] = F[k][g[k - 1]]
    BY <2>5 DEF Runs
  <2>7. \A k \in 1 .. n - 1 : g[k] = g[k - 1] \o ss[k + 1]
    <3> TAKE k \in 1 .. n - 1
    <3>0. k - 1 \in 0 .. n - 1
      BY <2>1
    <3>1. g[k - 1] \in X
      <4> HIDE DEF X, n
      <4> QED
        BY <2>6, <3>0
    <3> QED
      BY <2>6, <3>1
  <2> DEFINE h == [i \in 1 .. n |-> g[i - 1]]
  <2>8. Is(h)
    <3>1. \A i \in 1 .. n : h[i] = IF i = 1 THEN ss[i] ELSE h[i - 1] \o ss[i]
      <4> TAKE i \in 1 .. n
      <4>1. CASE i = 1
        BY <4>1, <2>6
      <4>2. CASE i # 1
        <5>1. i - 1 \in 1 .. n - 1 /\ i - 1 \in 1 .. n /\ (i - 1) + 1 = i
          BY <4>2, <2>1
        <5>2. g[i - 1] = g[(i - 1) - 1] \o ss[(i - 1) + 1]
          BY <5>1, <2>7
        <5>3. h[i] = g[i - 1] /\ h[i - 1] = g[(i - 1) - 1]
          BY <5>1
        <5> HIDE DEF h
        <5> QED
          BY <4>2, <5>1, <5>2, <5>3
      <4> QED
        BY <4>1, <4>2
    <3>2. h = [i \in 1 .. n |-> h[i]]
      OBVIOUS
    <3> HIDE DEF h
    <3> QED
      BY <3>1, <3>2
  <2>9. Is(flatten)
    <3> HIDE DEF Is
    <3> QED
      BY <2>8
  <2> DEFINE r == [k \in 0 .. n - 1 |-> flatten[k + 1]]
  <2>10. r[0] = g[0]
    <3>1. 0 \in 0 .. n - 1 /\ 0 + 1 = 1
      BY <2>1
    <3>2. flatten[1] = ss[1]
      <4> HIDE DEF flatten, n
      <4> QED
        BY <2>1, <2>9
    <3>3. r[0] = flatten[1]
      BY <3>1
    <3> QED
      BY <2>6, <3>2, <3>3
  <2>11. \A k \in 1 .. n - 1 : r[k - 1] = g[k - 1] => r[k] = g[k]
    <3> TAKE k \in 1 .. n - 1
    <3>1. k + 1 \in 1 .. n /\ k + 1 # 1 /\ (k + 1) - 1 = k /\ (k - 1) + 1 = k
          /\ k \in 0 .. n - 1 /\ k - 1 \in 0 .. n - 1
      BY <2>1
    <3>2. flatten[k + 1] = flatten[k] \o ss[k + 1]
      <4> HIDE DEF flatten, n
      <4> QED
        BY <2>9, <3>1
    <3>3. r[k] = flatten[k + 1] /\ r[k - 1] = flatten[k]
      BY <3>1
    <3> HIDE DEF r, flatten
    <3> QED
      BY <2>7, <3>2, <3>3
  <2>12. \A k \in 0 .. n - 1 : r[k] = g[k]
    <3> HIDE DEF r, n
    <3> QED
      BY <2>1, <2>10, <2>11, IteratesTyped
  <2>13. flatten[n] \in X
    <3>1. n - 1 \in 0 .. n - 1 /\ (n - 1) + 1 = n
      BY <2>1
    <3>2. r[n - 1] = flatten[n]
      BY <3>1
    <3>3. g[n - 1] \in X
      BY <2>6, <3>1
    <3> HIDE DEF r, flatten, X, n
    <3> QED
      BY <2>12, <3>1, <3>2, <3>3
  <2>14. FlattenSeq(ss) = flatten[n]
    BY <1>2 DEF FlattenSeq
  <2> QED
    BY <2>13, <2>14
<1> QED
  BY <1>1, <1>2

\* The numbers of a finite set, in order, are those of the set.
LEMMA AscendingIs ==
    ASSUME NEW S \in SUBSET Int, IsFiniteSet(S)
    PROVE  /\ Ascending(S) \in Seq(S)
           /\ \A s \in S : \E i \in 1 .. Len(Ascending(S)) : Ascending(S)[i] = s
<1>1. Cardinality(S) \in Nat /\ Ascending(S) \in Bijection(1 .. Cardinality(S), S)
  BY NthProperties, FS_CardinalityType DEF Ascending
<1>2. Ascending(S) \in [1 .. Cardinality(S) -> S]
  BY <1>1 DEF Bijection, Injection
<1>3. Ascending(S) \in Seq(S) /\ Len(Ascending(S)) = Cardinality(S)
  BY <1>1, <1>2
<1>4. \A s \in S : \E i \in 1 .. Cardinality(S) : Ascending(S)[i] = s
  BY <1>1 DEF Bijection, Surjection
<1> QED
  BY <1>3, <1>4

\* A packet that is pushed is in its queue with those that were there.
LEMMA InsertKeeps ==
    ASSUME NEW T, NEW q \in Seq(T), NEW p \in T
    PROVE  Insert(q, p) \in Seq(T)
<1> DEFINE B == {i \in 1 .. Len(q) : Priority[q[i].type] <= Priority[p.type]}
           b == Cardinality(B)
<1>1. Len(q) \in Nat
  OBVIOUS
<1>2. b \in 0 .. Len(q)
  <2>1. B \in SUBSET (1 .. Len(q))
    OBVIOUS
  <2> HIDE DEF B
  <2>2. Cardinality(B) \in Nat /\ Cardinality(B) <= Len(q)
    BY <2>1, PickedProperties
  <2> QED
    BY <1>1, <2>2
<1> HIDE DEF b
<1>3. SubSeq(q, 1, b) \in Seq(T) /\ SubSeq(q, b + 1, Len(q)) \in Seq(T)
  BY <1>1, <1>2
<1>4. Insert(q, p) = SubSeq(q, 1, (b + 1) - 1) \o <<p>> \o SubSeq(q, b + 1, Len(q))
  BY DEF Insert, InsertAt, Behind, b
<1>5. (b + 1) - 1 = b
  BY <1>2
<1>6. <<p>> \in Seq(T)
  OBVIOUS
<1>7. SubSeq(q, 1, b) \o <<p>> \in Seq(T)
  BY <1>3, <1>6
<1> QED
  BY <1>3, <1>4, <1>5, <1>7

\* A packet that is removed leaves the others, the first one first.
LEMMA WithoutKeeps ==
    ASSUME NEW T, NEW q \in Seq(T), NEW p
    PROVE  /\ Without(q, p) \in Seq(T)
           /\ Without(q, p) # <<>> => q # <<>>
           /\ q # <<>> /\ Head(q) # p => Without(q, p) # <<>> /\ Head(Without(q, p)) = Head(q)
<1> DEFINE I == {i \in 1 .. Len(q) : q[i] # p}
           w == PickedAt(q, I)
<1>1. I \in SUBSET (1 .. Len(q)) /\ Len(q) \in Nat /\ I \in SUBSET Int
  OBVIOUS
<1>2. /\ IsFiniteSet(I) /\ Cardinality(I) \in Nat /\ Cardinality(I) <= Len(q)
      /\ w \in Seq(T) /\ Len(w) = Cardinality(I)
  <2> HIDE DEF I
  <2> QED
    BY <1>1, PickedProperties
<1>3. w # <<>> => q # <<>>
  <2> HIDE DEF w, I
  <2> QED
    BY <1>1, <1>2
<1>4. ASSUME q # <<>>, Head(q) # p PROVE w # <<>> /\ Head(w) = Head(q)
  <2>1. 1 \in I /\ Head(q) = q[1]
    BY <1>4
  <2> HIDE DEF I
  <2>2. Cardinality(I) # 0 /\ 1 \in 1 .. Cardinality(I)
    <3>1. Cardinality(I) # 0
      BY <1>2, <2>1, FS_EmptySet
    <3> QED
      BY <1>2, <3>1
  <2>3. Rank(1, I) = 1
    <3>0. \A j \in I : j <= 1 <=> j = 1
      BY <1>1
    <3>1. {j \in I : j <= 1} = {1}
      BY <2>1, <3>0
    <3> QED
      BY <3>1, FS_Singleton DEF Rank
  <2>4. Nth(1, I) \in I /\ Rank(Nth(1, I), I) = 1
    BY <1>1, <1>2, <2>2, NthProperties
  <2>5. \A a, b \in I : Rank(a, I) = Rank(b, I) => a = b
    BY <1>1, <1>2, RanksOf
  <2>6. Nth(1, I) = 1
    BY <2>1, <2>3, <2>4, <2>5
  <2>7. w[1] = q[1]
    BY <2>2, <2>6 DEF PickedAt
  <2> HIDE DEF w
  <2> QED
    BY <1>2, <2>1, <2>2, <2>7
<1> QED
  BY <1>2, <1>3, <1>4 DEF Without

\* A push keeps what a queue holds in its kind.
LEMMA PushedKeeps ==
    ASSUME NEW T, NEW q \in Seq(T), NEW p \in T
    PROVE  Pushed(q, p) \in Seq(T)
BY InsertKeeps, WithoutKeeps DEF Pushed

\* What is packed leaves the others in their queue.
LEMMA LeftKeeps ==
    ASSUME NEW T, NEW q \in Seq(T), NEW task
    PROVE  Left(q, task) \in Seq(T) /\ (Left(q, task) # <<>> => q # <<>>)
<1> DEFINE I == {i \in 1 .. Len(q) : q[i] \notin Packed(task)}
           w == PickedAt(q, I)
<1>1. I \in SUBSET (1 .. Len(q)) /\ Len(q) \in Nat
  OBVIOUS
<1> HIDE DEF I
<1>2. w \in Seq(T) /\ Len(w) = Cardinality(I) /\ Cardinality(I) \in Nat /\ Cardinality(I) <= Len(q)
  BY <1>1, PickedProperties
<1> HIDE DEF w
<1>3. w # <<>> => q # <<>>
  BY <1>1, <1>2
<1> QED
  BY <1>2, <1>3 DEF Left, I, w

-----------------------------------------------------------------------------
(* The dispatcher: what holds of its tables, its scan and its packets.      *)

EntryIDs == Streams \cup {OrphanID}
Packets == Offered \cup OfferedOrphans
Selections == [stream : Streams \cup {NoID}, packet : Packets \cup {NoPacket},
               sid : Nat, id : EntryIDs \cup {NoID}, moved : BOOLEAN]

\* A block that goes out under the id of its packet.  When PINGs are deferred a
\* packet of the control stream may go out under that of an orphan.
OwnBlocks == {b \in [packet : Packets, sid : Nat] : b.sid = b.packet.sid}
RightBlocks == {b \in [packet : Packets, sid : Nat] :
                   b.sid = b.packet.sid \/ (PingsOffered /\ b.packet.sid = 0)}

DispatcherType ==
    /\ \A s \in Streams : txq[s] \in Seq({p \in Offered : p.sid = s})
    /\ txq = [s \in Streams |-> txq[s]]
    /\ orphans \in Seq(OfferedOrphans)
    /\ life \in [Streams -> {"new", "added", "open", "removed", "gone"}]
    /\ cached \in Seq(Streams) /\ cursor \in Int
    /\ sel \in Selections
    /\ item \in Packets \cup {NoPacket}
    /\ from \in EntryIDs \cup {NoID}
    /\ tx \in Seq(Seq(RightBlocks)) /\ Len(tx) <= TxCap
Switches == stale \in BOOLEAN /\ signal \in BOOLEAN /\ up \in BOOLEAN

\* In a round the entries are those of the copy of the map, and the orphan queue
\* if it held anything; the scan is at one of them or past the last.
RoundTrip ==
    /\ pc \in {"top", "copy", "begin", "scan", "resolve", "capacity", "pack", "idle", "stalled"}
    /\ pc \in {"scan", "resolve", "capacity", "pack"} =>
           /\ entries \in {cached, Append(cached, OrphanID)} /\ entries # <<>>
           /\ start \in 0 .. Len(entries) - 1 /\ pos \in 0 .. Len(entries)
    /\ pc \in {"top", "copy", "begin", "idle", "stalled"} =>
           entries = <<>> /\ start = 0 /\ pos = 0 /\ sel = NothingSelected

\* A stream that is open is in the copy of the map, or the copy is out of date
\* and the dispatcher has yet to see it; and if such a stream has packets, it
\* will not sleep before.
Copied(s) == \E i \in 1 .. Len(cached) : cached[i] = s
MapKnown ==
    \A s \in Streams :
       /\ life[s] \in {"new", "added"} => txq[s] = <<>>
       /\ life[s] = "open" /\ ~Copied(s) =>
             /\ stale \/ pc = "copy"
             /\ txq[s] # <<>> => signal \/ pc \in {"top", "copy"}

\* Without a token nothing was pushed since the round began, so an entry that
\* was passed over is still empty, or has a deferred PING before all else.
Quiet(id) == id \in EntryIDs /\ HasWork(id) => id = 0 /\ Head(txq[0]).type = "PING"
PassedOver ==
    /\ pc = "scan" /\ ~signal =>
          /\ entries = cached => orphans = <<>>
          /\ \A k \in 0 .. pos - 1 : Quiet(entries[((start + k) % Len(entries)) + 1])
    /\ pc = "idle" /\ ~signal =>
          /\ orphans = <<>>
          /\ \A i \in 1 .. Len(cached) : Quiet(cached[i])

\* What is selected is a stream under its own id, or the first orphan; but the
\* control stream stays selected when its PING was deferred.
OrphanSelected == sel.stream = NoID \/ (sel.stream = 0 /\ PingsOffered)
Selected ==
    /\ pc = "scan" => OrphanSelected
    /\ pc \in {"resolve", "capacity", "pack"} =>
          \/ sel.stream \in Streams /\ sel.id = sel.stream /\ sel.sid = sel.stream
          \/ /\ sel.id = OrphanID /\ OrphanSelected
             /\ pc # "pack" => orphans # <<>> /\ sel.sid = Head(orphans).sid
    /\ pc = "pack" => Block(item, sel.sid) \in RightBlocks /\ Len(tx) < TxCap

DispatcherInv ==
    /\ DispatcherType /\ Switches /\ RoundTrip /\ MapKnown /\ PassedOver /\ Selected

\* The blocks packed with a packet go out under their own ids.
LEMMA ExtraOwn ==
    ASSUME DispatcherType, RoundTrip, pc = "pack"
    PROVE  Extra \in Seq(OwnBlocks)
<1>1. entries \in Seq(EntryIDs)
  <2>1. cached \in Seq(EntryIDs) /\ OrphanID \in EntryIDs
    BY DEF DispatcherType, EntryIDs
  <2>2. Append(cached, OrphanID) \in Seq(EntryIDs)
    BY <2>1
  <2> QED
    BY <2>1, <2>2 DEF RoundTrip
<1>2. \A id \in EntryIDs : BlocksOf(id) \in Seq(OwnBlocks)
  <2> TAKE id \in EntryIDs
  <2> DEFINE q == Queue(id)
             I == {i \in 1 .. Len(q) : Packable(q[i])}
             ps == PickedAt(q, I)
             T == IF id = OrphanID THEN OfferedOrphans ELSE {p \in Offered : p.sid = id}
  <2>1. q \in Seq(T)
    BY DEF Queue, DispatcherType, EntryIDs
  <2>2. I \in SUBSET (1 .. Len(q))
    OBVIOUS
  <2> HIDE DEF I, q, T
  <2>3. ps \in Seq(T)
    BY <2>1, <2>2, PickedProperties
  <2> HIDE DEF ps
  <2>4. \A p \in T : Under(p, id) \in OwnBlocks
    BY DispatcherAssumption DEF T, Under, Block, OwnBlocks, Packets, EntryIDs
  <2>5. Len(ps) \in Nat /\ \A i \in 1 .. Len(ps) : ps[i] \in T
    BY <2>3
  <2>6. [i \in 1 .. Len(ps) |-> Under(ps[i], id)] \in Seq(OwnBlocks)
    BY <2>4, <2>5
  <2> QED
    BY <2>6 DEF BlocksOf, ps, q, I
<1>3. Visited \in Seq(EntryIDs)
  <2> DEFINE I == {i \in 1 .. Len(entries) : entries[i] \notin {sel.id, sel.stream}}
  <2>1. I \in SUBSET (1 .. Len(entries))
    OBVIOUS
  <2>2. PickedAt(entries, I) \in Seq(EntryIDs)
    <3> HIDE DEF I
    <3> QED
      BY <1>1, <2>1, PickedProperties
  <2>3. (IF FromStream THEN <<sel.stream>> ELSE <<OrphanID>>) \in Seq(EntryIDs)
    <3>1. sel.stream \in Streams \cup {NoID}
      BY DEF DispatcherType, Selections
    <3>2. CASE FromStream
      <4>1. sel.stream \in EntryIDs
        BY <3>1, <3>2 DEF FromStream, EntryIDs
      <4> QED
        BY <3>2, <4>1
    <3>3. CASE ~FromStream
      <4>1. OrphanID \in EntryIDs
        BY DEF EntryIDs
      <4> QED
        BY <3>3, <4>1
    <3> QED
      BY <3>2, <3>3
  <2> QED
    BY <2>2, <2>3 DEF Visited
<1>4. Gathered \in Seq(OwnBlocks)
  <2>1. Len(Visited) \in Nat /\ \A i \in 1 .. Len(Visited) : BlocksOf(Visited[i]) \in Seq(OwnBlocks)
    BY <1>2, <1>3
  <2>2. [i \in 1 .. Len(Visited) |-> BlocksOf(Visited[i])] \in Seq(Seq(OwnBlocks))
    BY <2>1
  <2> QED
    BY <2>2, FlattenKeeps DEF Gathered
<1>5. ASSUME Packs PROVE SubSeq(Gathered, 1, Min({Len(Gathered), MaxPackedBlocks - 1})) \in Seq(OwnBlocks)
  <2> DEFINE m == Min({Len(Gathered), MaxPackedBlocks - 1})
  <2>1. Len(Gathered) \in Nat /\ MaxPackedBlocks - 1 \in Nat
    BY <1>4, DispatcherAssumption
  <2>2. m \in 0 .. Len(Gathered)
    <3>1. \E x \in {Len(Gathered), MaxPackedBlocks - 1} :
             \A y \in {Len(Gathered), MaxPackedBlocks - 1} : x <= y
      BY <2>1
    <3>2. m \in {Len(Gathered), MaxPackedBlocks - 1} /\ m <= Len(Gathered)
      BY <3>1 DEF Min
    <3> QED
      BY <2>1, <3>2
  <2> HIDE DEF m
  <2>3. SubSeq(Gathered, 1, m) \in Seq(OwnBlocks)
    BY <1>4, <2>1, <2>2
  <2> QED
    BY <2>3 DEF m
<1>6. <<>> \in Seq(OwnBlocks)
  OBVIOUS
<1> QED
  BY <1>5, <1>6 DEF Extra

\* It holds at the start.
LEMMA DispatcherInvInit == DispatcherInit => DispatcherInv
<1> SUFFICES ASSUME DispatcherInit PROVE DispatcherInv
  OBVIOUS
<1> USE DEF DispatcherInit
<1>1. DispatcherType
  <2>1. NothingSelected \in Selections
    BY DispatcherAssumption DEF NothingSelected, Selections
  <2>2. /\ \A s \in Streams : txq[s] \in Seq({p \in Offered : p.sid = s})
        /\ txq = [s \in Streams |-> txq[s]]
        /\ orphans \in Seq(OfferedOrphans) /\ cached \in Seq(Streams)
        /\ tx \in Seq(Seq(RightBlocks)) /\ Len(tx) <= TxCap
    BY DispatcherAssumption
  <2> QED
    BY <2>1, <2>2 DEF DispatcherType
<1>2. Switches /\ RoundTrip
  BY DEF Switches, RoundTrip
<1>3. MapKnown
  BY DEF MapKnown, Copied
<1>4. PassedOver /\ Selected
  BY DEF PassedOver, Selected
<1> QED
  BY <1>1, <1>2, <1>3, <1>4 DEF DispatcherInv

\* A scan that nothing happens to has still passed over what it has.
LEMMA PassedOverKept ==
    ASSUME PassedOver, UNCHANGED <<pc, entries, cached, start, pos, signal>>,
           orphans = <<>> => orphans' = <<>>,
           \A id : Quiet(id) => Quiet(id)'
    PROVE  PassedOver'
BY DEF PassedOver

\* A push wakes the dispatcher.
LEMMA PushKeeps ==
    ASSUME DispatcherInv, NEW p \in Offered, PushTXPacket(p)
    PROVE  DispatcherInv'
<1> USE DEF PushTXPacket, queueVars, streamVars, loopVars, WakeDispatcher
<1>1. p.sid \in Streams
  BY DispatcherAssumption
<1>2. DispatcherType'
  <2>1. Pushed(txq[p.sid], p) \in Seq({x \in Offered : x.sid = p.sid})
    BY <1>1, PushedKeeps DEF DispatcherInv, DispatcherType
  <2>2. /\ \A s \in Streams : txq'[s] \in Seq({x \in Offered : x.sid = s})
        /\ txq' = [s \in Streams |-> txq'[s]]
    BY <1>1, <2>1 DEF DispatcherInv, DispatcherType
  <2> QED
    BY <2>2 DEF DispatcherInv, DispatcherType
<1>3. Switches' /\ RoundTrip'
  BY DEF DispatcherInv, Switches, RoundTrip
<1>4. MapKnown'
  BY <1>1 DEF DispatcherInv, DispatcherType, MapKnown, Copied
<1>5. PassedOver'
  BY DEF PassedOver
<1>6. Selected'
  BY DEF DispatcherInv, Selected, OrphanSelected
<1> QED
  BY <1>2, <1>3, <1>4, <1>5, <1>6 DEF DispatcherInv

\* A reset joins the orphans behind those that are there.
LEMMA OrphanKeeps ==
    ASSUME DispatcherInv, NEW p \in OfferedOrphans, EnqueueOrphanReset(p)
    PROVE  DispatcherInv'
<1> USE DEF EnqueueOrphanReset, streamVars, loopVars, WakeDispatcher
<1>1. orphans' \in Seq(OfferedOrphans) /\ orphans' # <<>>
      /\ (orphans # <<>> => Head(orphans') = Head(orphans))
  BY DEF DispatcherInv, DispatcherType
<1>2. DispatcherType'
  BY <1>1 DEF DispatcherInv, DispatcherType
<1>3. Switches' /\ RoundTrip'
  BY DEF DispatcherInv, Switches, RoundTrip
<1>4. MapKnown'
  BY DEF DispatcherInv, MapKnown, Copied
<1>5. PassedOver'
  BY DEF PassedOver
<1>6. Selected'
  BY <1>1 DEF DispatcherInv, Selected, OrphanSelected
<1> QED
  BY <1>2, <1>3, <1>4, <1>5, <1>6 DEF DispatcherInv

\* Data that is removed was behind no PING of the control stream.
LEMMA RemoveQueuedKeeps ==
    ASSUME DispatcherInv, NEW p \in Offered, RemoveQueuedData(p)
    PROVE  DispatcherInv'
<1> USE DEF RemoveQueuedData, streamVars, loopVars
<1>1. p.sid \in Streams /\ p.type # "PING"
  BY DispatcherAssumption DEF IsData
<1>2. /\ \A s \in Streams : txq'[s] \in Seq({x \in Offered : x.sid = s})
      /\ txq' = [s \in Streams |-> txq'[s]]
      /\ \A s \in Streams : txq'[s] # <<>> => txq[s] # <<>>
      /\ \A s \in Streams : txq[s] # <<>> /\ Head(txq[s]).type = "PING" => Head(txq'[s]) = Head(txq[s])
  <2>1. txq[p.sid] \in Seq({x \in Offered : x.sid = p.sid})
    BY <1>1 DEF DispatcherInv, DispatcherType
  <2> DEFINE w == Without(txq[p.sid], p)
  <2>2. /\ w \in Seq({x \in Offered : x.sid = p.sid})
        /\ w # <<>> => txq[p.sid] # <<>>
        /\ txq[p.sid] # <<>> /\ Head(txq[p.sid]) # p => Head(w) = Head(txq[p.sid])
    BY <2>1, WithoutKeeps
  <2>3. txq' = [txq EXCEPT ![p.sid] = w] /\ txq = [s \in Streams |-> txq[s]]
    BY DEF DispatcherInv, DispatcherType
  <2>4. \A s \in Streams : txq'[s] = IF s = p.sid THEN w ELSE txq[s]
    BY <2>3
  <2> HIDE DEF w
  <2>5. \A s \in Streams : txq[s] \in Seq({x \in Offered : x.sid = s})
    BY DEF DispatcherInv, DispatcherType
  <2>6. txq' = [s \in Streams |-> txq'[s]]
    BY <2>3
  <2>7. ASSUME NEW s \in Streams
        PROVE  /\ txq'[s] \in Seq({x \in Offered : x.sid = s})
               /\ txq'[s] # <<>> => txq[s] # <<>>
               /\ txq[s] # <<>> /\ Head(txq[s]).type = "PING" => Head(txq'[s]) = Head(txq[s])
    <3>1. CASE s = p.sid
      <4>1. txq'[s] = w /\ txq[s] = txq[p.sid]
        BY <2>4, <3>1
      <4>2. Head(txq[s]).type = "PING" => Head(txq[s]) # p
        BY <1>1
      <4> QED
        BY <2>2, <3>1, <4>1, <4>2
    <3>2. CASE s # p.sid
      <4>1. txq'[s] = txq[s]
        BY <2>4, <3>2
      <4> QED
        BY <2>5, <4>1
    <3> QED
      BY <3>1, <3>2
  <2> QED
    BY <2>6, <2>7
<1>3. DispatcherType'
  BY <1>2 DEF DispatcherInv, DispatcherType
<1>4. Switches' /\ RoundTrip'
  BY DEF DispatcherInv, Switches, RoundTrip
<1>5. MapKnown'
  BY <1>2 DEF DispatcherInv, MapKnown, Copied
<1>6. PassedOver'
  <2>1. \A id : Quiet(id) => Quiet(id)'
    BY <1>2, DispatcherAssumption DEF Quiet, HasWork, EntryIDs
  <2> QED
    BY <2>1, PassedOverKept DEF DispatcherInv
<1>7. Selected'
  BY DEF DispatcherInv, Selected, OrphanSelected
<1> QED
  BY <1>3, <1>4, <1>5, <1>6, <1>7 DEF DispatcherInv

\* A stream comes and goes: one that opens has nothing queued and makes the copy
\* of the map stale, one that has gone has nothing queued.
LEMMA StreamKeeps ==
    ASSUME DispatcherInv, NEW z \in Streams,
           AddStream(z) \/ BumpAdded(z) \/ UnmapStream(z) \/ CleanupStream(z)
    PROVE  DispatcherInv'
<1> USE DEF AddStream, BumpAdded, UnmapStream, CleanupStream, queueVars, loopVars
<1>1. /\ UNCHANGED <<orphans, signal, up, loopVars>>
      /\ txq' = txq \/ txq' = [txq EXCEPT ![z] = <<>>]
  OBVIOUS
<1>2. /\ \A s \in Streams : txq'[s] \in {txq[s], <<>>}
      /\ txq' = [s \in Streams |-> txq'[s]]
  BY <1>1 DEF DispatcherInv, DispatcherType
<1>3. DispatcherType'
  <2>1. ASSUME NEW s \in Streams PROVE txq'[s] \in Seq({x \in Offered : x.sid = s})
    <3>1. <<>> \in Seq({x \in Offered : x.sid = s})
      OBVIOUS
    <3>2. txq[s] \in Seq({x \in Offered : x.sid = s})
      BY DEF DispatcherInv, DispatcherType
    <3>3. txq'[s] = txq[s] \/ txq'[s] = <<>>
      BY <1>2
    <3> QED
      BY <3>1, <3>2, <3>3
  <2>2. life' \in [Streams -> {"new", "added", "open", "removed", "gone"}]
    BY DEF DispatcherInv, DispatcherType
  <2> QED
    BY <1>1, <1>2, <2>1, <2>2 DEF DispatcherInv, DispatcherType
<1>4. Switches' /\ RoundTrip'
  BY DEF DispatcherInv, Switches, RoundTrip
<1>5. MapKnown'
  BY <1>2 DEF DispatcherInv, DispatcherType, MapKnown, Copied
<1>6. PassedOver'
  <2>1. ASSUME NEW id, Quiet(id) PROVE Quiet(id)'
    <3>1. CASE id = OrphanID
      BY <1>1, <2>1, <3>1 DEF Quiet, HasWork, OrphanID, EntryIDs
    <3>2. CASE id # OrphanID /\ id \in Streams
      <4>1. txq'[id] = txq[id] \/ txq'[id] = <<>>
        BY <1>2, <3>2
      <4>2. txq'[id] # <<>> => txq'[id] = txq[id]
        BY <4>1
      <4> QED
        BY <2>1, <3>2, <4>2 DEF Quiet, HasWork, EntryIDs
    <3>3. CASE id \notin EntryIDs
      BY <3>3 DEF Quiet, EntryIDs
    <3> QED
      BY <3>1, <3>2, <3>3 DEF EntryIDs
  <2> QED
    BY <1>1, <2>1, PassedOverKept DEF DispatcherInv, loopVars
<1>7. Selected'
  BY <1>1 DEF DispatcherInv, Selected, OrphanSelected
<1> QED
  BY <1>3, <1>4, <1>5, <1>6, <1>7 DEF DispatcherInv

\* The resolvers fail and recover.
LEMMA ResolversKeep ==
    ASSUME DispatcherInv, Resolvers
    PROVE  DispatcherInv'
<1> USE DEF Resolvers, queueVars, streamVars, loopVars
<1>1. DispatcherType'
  BY DEF DispatcherInv, DispatcherType
<1>2. Switches'
  <2>1. up' \in BOOLEAN
    OBVIOUS
  <2> QED
    BY <2>1 DEF DispatcherInv, Switches
<1>3. RoundTrip' /\ MapKnown'
  BY DEF DispatcherInv, RoundTrip, MapKnown, Copied
<1>4. PassedOver'
  <2>1. \A id : Quiet(id) => Quiet(id)'
    BY DEF Quiet, HasWork
  <2> QED
    BY <2>1, PassedOverKept DEF DispatcherInv
<1>5. Selected'
  BY DEF DispatcherInv, Selected, OrphanSelected
<1> QED
  BY <1>1, <1>2, <1>3, <1>4, <1>5 DEF DispatcherInv

\* A version that has moved is seen before the next round.
LEMMA LoadVersionKeeps ==
    ASSUME DispatcherInv, LoadVersion
    PROVE  DispatcherInv'
<1> USE DEF LoadVersion, queueVars, dispatcher
<1>1. DispatcherType'
  BY DEF DispatcherInv, DispatcherType
<1>2. Switches'
  BY DEF DispatcherInv, Switches
<1>3. RoundTrip'
  BY DEF DispatcherInv, RoundTrip
<1>4. MapKnown'
  BY DEF DispatcherInv, MapKnown, Copied
<1>5. PassedOver' /\ Selected'
  BY DEF PassedOver, Selected
<1> QED
  BY <1>1, <1>2, <1>3, <1>4, <1>5 DEF DispatcherInv

\* The copy holds every stream that is open.
LEMMA CopyKeeps ==
    ASSUME DispatcherInv, CopyStreams
    PROVE  DispatcherInv'
<1> USE DEF CopyStreams, queueVars, streamVars
<1>1. cached' \in Seq(Streams) /\ \A s \in Active : Copied(s)'
  <2>1. Active \in SUBSET Int /\ IsFiniteSet(Active) /\ Active \subseteq Streams
    <3>1. Active \subseteq Streams
      BY DEF Active
    <3>2. IsFiniteSet(Active)
      BY <3>1, DispatcherAssumption, FS_Subset
    <3> QED
      BY <3>1, <3>2, DispatcherAssumption
  <2>2. /\ Ascending(Active) \in Seq(Active)
        /\ \A s \in Active : \E i \in 1 .. Len(Ascending(Active)) : Ascending(Active)[i] = s
    BY <2>1, AscendingIs
  <2> DEFINE w == Ascending(Active)
  <2>3. ASSUME NEW q \in Seq(Active) PROVE q \in Seq(Streams)
    <3>1. Len(q) \in Nat /\ q = [i \in 1 .. Len(q) |-> q[i]] /\ \A i \in 1 .. Len(q) : q[i] \in Active
      OBVIOUS
    <3>2. \A i \in 1 .. Len(q) : q[i] \in Streams
      BY <2>1, <3>1
    <3> QED
      BY <3>1, <3>2
  <2>4. w \in Seq(Streams)
    BY <2>2, <2>3
  <2> HIDE DEF w
  <2>5. cached' = w
    BY DEF w
  <2> QED
    BY <2>2, <2>4, <2>5 DEF Copied, w
<1>2. DispatcherType'
  BY <1>1 DEF DispatcherInv, DispatcherType
<1>3. Switches'
  BY DEF DispatcherInv, Switches
<1>4. RoundTrip'
  BY DEF DispatcherInv, RoundTrip
<1>5. MapKnown'
  BY <1>1 DEF DispatcherInv, MapKnown, Active
<1>6. PassedOver' /\ Selected'
  BY DEF PassedOver, Selected
<1> QED
  BY <1>2, <1>3, <1>4, <1>5, <1>6 DEF DispatcherInv

\* The round has the entries of the copy, and the orphans if there are any.
LEMMA BeginKeeps ==
    ASSUME DispatcherInv, Begin
    PROVE  DispatcherInv'
<1> DEFINE es == IF orphans = <<>> THEN cached ELSE Append(cached, OrphanID)
<1>1. /\ es \in Seq(Int) /\ es \in {cached, Append(cached, OrphanID)}
      /\ es = cached => orphans = <<>>
      /\ es = <<>> => cached = <<>>
  <2>1. cached \in Seq(Int) /\ OrphanID \in Int
    BY DispatcherAssumption DEF DispatcherInv, DispatcherType, OrphanID
  <2>2. Append(cached, OrphanID) \in Seq(Int) /\ Append(cached, OrphanID) # cached
    BY <2>1
  <2>3. Append(cached, OrphanID) # <<>>
    <3>1. Len(cached) \in Nat /\ Len(Append(cached, OrphanID)) = Len(cached) + 1
      BY <2>1
    <3>2. Len(<<>>) = 0
      OBVIOUS
    <3> QED
      BY <3>1, <3>2
  <2> QED
    BY <2>1, <2>2, <2>3
<1>2. /\ pc = "begin" /\ pc' = IF es = <<>> THEN "idle" ELSE "scan"
      /\ entries' = es /\ start' = SearchStart(es, cursor)
      /\ UNCHANGED <<queueVars, streamVars, up, cached, cursor, pos, sel, item, from, tx>>
  BY DEF Begin
<1>3. IF es = <<>> THEN start' = 0 ELSE start' \in 0 .. Len(es) - 1
  BY <1>1, <1>2, StartWithin
<1> HIDE DEF es
<1> USE DEF queueVars, streamVars
<1>4. pos = 0 /\ sel = NothingSelected
  BY <1>2 DEF DispatcherInv, RoundTrip
<1>5. DispatcherType'
  BY <1>2 DEF DispatcherInv, DispatcherType
<1>6. Switches'
  BY <1>2 DEF DispatcherInv, Switches
<1>7. RoundTrip'
  <2>1. 0 \in 0 .. Len(es)
    BY <1>1
  <2> QED
    BY <1>1, <1>2, <1>3, <1>4, <2>1 DEF RoundTrip
<1>8. MapKnown'
  BY <1>2 DEF DispatcherInv, MapKnown, Copied
<1>9. PassedOver'
  <2>1. CASE es = <<>>
    BY <1>1, <1>2, <2>1 DEF PassedOver
  <2>2. CASE es # <<>>
    <3>1. 0 .. pos' - 1 = {}
      BY <1>2, <1>4
    <3> QED
      BY <1>1, <1>2, <2>2, <3>1 DEF PassedOver
  <2> QED
    BY <2>1, <2>2
<1>10. Selected'
  BY <1>2, <1>4 DEF Selected, OrphanSelected, NothingSelected
<1> QED
  BY <1>5, <1>6, <1>7, <1>8, <1>9, <1>10 DEF DispatcherInv

\* Going round from anywhere, every place is come to.
LEMMA RoundCovers ==
    ASSUME NEW n \in Nat \ {0}, NEW b \in 0 .. n - 1, NEW i \in 1 .. n
    PROVE  \E k \in 0 .. n - 1 : ((b + k) % n) + 1 = i
<1>1. CASE i - 1 >= b
  <2>1. (i - 1) % n = i - 1
    OBVIOUS
  <2> DEFINE k == i - 1 - b
  <2>2. k \in 0 .. n - 1 /\ b + k = i - 1
    BY <1>1
  <2> HIDE DEF k
  <2>3. ((b + k) % n) + 1 = i
    BY <2>1, <2>2
  <2> QED
    BY <2>2, <2>3
<1>2. CASE i - 1 < b
  <2>1. (i - 1 + n) % n = i - 1
    OBVIOUS
  <2> DEFINE k == i - 1 - b + n
  <2>2. k \in 0 .. n - 1 /\ b + k = i - 1 + n
    BY <1>2
  <2> HIDE DEF k
  <2>3. ((b + k) % n) + 1 = i
    BY <2>1, <2>2
  <2> QED
    BY <2>2, <2>3
<1> QED
  BY <1>1, <1>2

\* A scan that finds something selects it, and passes over nothing but a PING.
LEMMA ScanKeeps ==
    ASSUME DispatcherInv, Scan
    PROVE  DispatcherInv'
<1> DEFINE c == Candidate(Entry)
           ready == HasWork(Entry)
<1>1. /\ pc = "scan" /\ pos \in 0 .. Len(entries) /\ pos < Len(entries)
      /\ sel' = IF ~ready THEN sel ELSE IF Defer(c) THEN Deferred(c) ELSE c
      /\ cursor' = IF ready /\ ~sel.moved THEN CursorAfter(Entry) ELSE cursor
      /\ pos' = pos + 1
      /\ pc' = IF ready /\ ~Defer(c) THEN "resolve" ELSE "scan"
      /\ UNCHANGED <<queueVars, streamVars, up, cached, entries, start, item, from, tx>>
  BY DEF Scan, DispatcherInv, RoundTrip
<1>2. Entry \in EntryIDs
  <2>1. cached \in Seq(EntryIDs) /\ OrphanID \in EntryIDs
    BY DEF DispatcherInv, DispatcherType, EntryIDs
  <2>2. entries \in Seq(EntryIDs)
    BY <1>1, <2>1 DEF DispatcherInv, RoundTrip
  <2>3. Len(entries) \in Nat \ {0} /\ start + pos \in Nat
    BY <1>1, <2>2 DEF DispatcherInv, RoundTrip
  <2>4. ((start + pos) % Len(entries)) + 1 \in 1 .. Len(entries)
    BY <2>3
  <2> QED
    BY <2>2, <2>4 DEF Entry
<1> HIDE DEF c, ready
<1>3. ASSUME ready
      PROVE  /\ c \in Selections
             /\ Entry = OrphanID => /\ orphans # <<>> /\ c.stream = sel.stream
                                    /\ c.id = OrphanID /\ c.sid = Head(orphans).sid
             /\ Entry # OrphanID => /\ c.stream = Entry /\ c.id = Entry /\ c.sid = Entry
                                    /\ c.packet = Head(txq[Entry])
                                    /\ c.packet \in Offered /\ c.packet.sid = Entry
  <2>1. sel \in Selections
    BY DEF DispatcherInv, DispatcherType
  <2>2. CASE Entry = OrphanID
    <3>1. orphans # <<>>
      BY <1>3, <2>2 DEF ready, HasWork
    <3>2. Head(orphans) \in OfferedOrphans
      BY <3>1 DEF DispatcherInv, DispatcherType
    <3>3. Head(orphans) \in Packets /\ Head(orphans).sid \in Nat
      BY <3>2, DispatcherAssumption DEF Packets
    <3>4. c = [sel EXCEPT !.packet = Head(orphans), !.sid = Head(orphans).sid,
                          !.id = OrphanID, !.moved = TRUE]
      BY <2>2 DEF c, Candidate
    <3>5. OrphanID \in EntryIDs
      BY DEF EntryIDs
    <3> QED
      BY <2>1, <2>2, <3>1, <3>3, <3>4, <3>5 DEF Selections
  <2>3. CASE Entry # OrphanID
    <3>1. Entry \in Streams /\ txq[Entry] # <<>>
      BY <1>2, <1>3, <2>3 DEF ready, HasWork, EntryIDs
    <3>2. Head(txq[Entry]) \in Offered /\ Head(txq[Entry]).sid = Entry
      <4> HIDE DEF Entry
      <4>1. txq[Entry] \in Seq({p \in Offered : p.sid = Entry})
        BY <3>1 DEF DispatcherInv, DispatcherType
      <4>2. Head(txq[Entry]) \in {p \in Offered : p.sid = Entry}
        BY <3>1, <4>1
      <4> QED
        BY <4>2
    <3>3. Head(txq[Entry]) \in Packets /\ Entry \in Nat
      BY <3>1, <3>2, DispatcherAssumption DEF Packets
    <3>4. c = [sel EXCEPT !.packet = Head(txq[Entry]), !.sid = Entry,
                          !.id = Entry, !.stream = Entry, !.moved = TRUE]
      BY <2>3 DEF c, Candidate
    <3>5. Entry \in EntryIDs
      BY <1>2
    <3> HIDE DEF Entry
    <3> QED
      BY <2>1, <2>3, <3>1, <3>2, <3>3, <3>4, <3>5 DEF Selections
  <2> QED
    BY <2>2, <2>3
<1>4. ASSUME ready, Defer(c)
      PROVE  /\ Entry = 0 /\ Entry # OrphanID
             /\ Head(txq[0]).type = "PING" /\ PingsOffered
             /\ Deferred(c) \in Selections /\ Deferred(c).stream = 0
  <2>1. c.id = 0 /\ c.packet.type = "PING"
    BY <1>4 DEF Defer
  <2>2. Entry # OrphanID /\ Entry = 0
    BY <1>3, <1>4, <2>1 DEF OrphanID
  <2>3. c.stream = 0 /\ Head(txq[0]).type = "PING" /\ c.packet \in Offered /\ c.packet.sid = 0
    BY <1>3, <1>4, <2>1, <2>2
  <2>4. Deferred(c) \in Selections /\ Deferred(c).stream = c.stream
    BY <1>3, <1>4 DEF Deferred, Selections
  <2> QED
    BY <2>1, <2>2, <2>3, <2>4 DEF PingsOffered
<1> USE DEF queueVars, streamVars
<1>5. DispatcherType'
  <2>1. sel' \in Selections
    BY <1>1, <1>3, <1>4 DEF DispatcherInv, DispatcherType
  <2>2. cursor' \in Int
    <3>1. Entry \in Int
      BY <1>2, DispatcherAssumption DEF EntryIDs, OrphanID
    <3> HIDE DEF Entry
    <3> QED
      BY <1>1, <3>1 DEF DispatcherInv, DispatcherType, CursorAfter
  <2> QED
    BY <1>1, <2>1, <2>2 DEF DispatcherInv, DispatcherType
<1>6. Switches'
  BY <1>1 DEF DispatcherInv, Switches
<1>7. RoundTrip'
  BY <1>1 DEF DispatcherInv, RoundTrip
<1>8. MapKnown'
  BY <1>1 DEF DispatcherInv, MapKnown, Copied
<1>9. PassedOver'
  <2>1. SUFFICES ASSUME pc' = "scan", ~signal
                 PROVE  /\ entries = cached => orphans = <<>>
                        /\ \A k \in 0 .. pos : Quiet(entries[((start + k) % Len(entries)) + 1])
    BY <1>1 DEF PassedOver, Quiet, HasWork
  <2>2. Quiet(Entry)
    <3>1. ~ready \/ Defer(c)
      BY <1>1, <2>1
    <3> QED
      BY <1>4, <3>1 DEF Quiet, ready
  <2>3. /\ entries = cached => orphans = <<>>
        /\ \A k \in 0 .. pos - 1 : Quiet(entries[((start + k) % Len(entries)) + 1])
    BY <1>1, <2>1 DEF DispatcherInv, PassedOver
  <2>4. \A k \in 0 .. pos : k \in 0 .. pos - 1 \/ k = pos
    BY <1>1
  <2> QED
    BY <2>2, <2>3, <2>4 DEF Entry
<1>10. Selected'
  <2>1. CASE ~ready
    BY <1>1, <2>1 DEF DispatcherInv, Selected, OrphanSelected
  <2>2. CASE ready /\ Defer(c)
    BY <1>1, <1>4, <2>2 DEF Selected, OrphanSelected
  <2>3. CASE ready /\ ~Defer(c) /\ Entry = OrphanID
    BY <1>1, <1>3, <2>3 DEF DispatcherInv, Selected, OrphanSelected
  <2>4. CASE ready /\ ~Defer(c) /\ Entry # OrphanID
    <3>1. Entry \in Streams
      BY <1>2, <2>4 DEF EntryIDs
    <3>2. sel'.stream \in Streams /\ sel'.id = sel'.stream /\ sel'.sid = sel'.stream
      BY <1>1, <1>3, <2>4, <3>1
    <3> QED
      BY <1>1, <2>4, <3>2 DEF Selected
  <2> QED
    BY <2>1, <2>2, <2>3, <2>4
<1> QED
  BY <1>5, <1>6, <1>7, <1>8, <1>9, <1>10 DEF DispatcherInv

\* A round that found nothing has passed over every entry.
LEMMA NothingKeeps ==
    ASSUME DispatcherInv, NothingFound
    PROVE  DispatcherInv'
<1> USE DEF NothingFound, NoLocals, queueVars, streamVars
<1>1. DispatcherType'
  <2>1. NothingSelected \in Selections
    BY DEF NothingSelected, Selections
  <2> QED
    BY <2>1 DEF DispatcherInv, DispatcherType
<1>2. Switches' /\ RoundTrip'
  BY DEF DispatcherInv, Switches, RoundTrip
<1>3. MapKnown'
  BY DEF DispatcherInv, MapKnown, Copied
<1>4. PassedOver'
  <2>1. SUFFICES ASSUME ~signal
                 PROVE  orphans = <<>> /\ \A i \in 1 .. Len(cached) : Quiet(cached[i])
    BY DEF PassedOver, Quiet, HasWork
  <2> DEFINE n == Len(entries)
  <2>2. /\ cached \in Seq(Streams) /\ entries \in {cached, Append(cached, OrphanID)}
        /\ entries # <<>> /\ start \in 0 .. n - 1 /\ pos = n
        /\ entries = cached => orphans = <<>>
        /\ \A k \in 0 .. pos - 1 : Quiet(entries[((start + k) % n) + 1])
    BY <2>1 DEF DispatcherInv, DispatcherType, RoundTrip, PassedOver
  <2>3. entries \in Seq(EntryIDs)
    <3>1. cached \in Seq(EntryIDs) /\ OrphanID \in EntryIDs
      BY <2>2 DEF EntryIDs
    <3> QED
      BY <2>2, <3>1
  <2>4. n \in Nat \ {0}
    BY <2>2, <2>3
  <2>5. ASSUME NEW i \in 1 .. n PROVE Quiet(entries[i])
    <3> HIDE DEF n
    <3>1. PICK k \in 0 .. n - 1 : ((start + k) % n) + 1 = i
      BY <2>2, <2>4, RoundCovers
    <3> QED
      BY <2>2, <3>1
  <2>6. ASSUME NEW i \in 1 .. Len(cached) PROVE Quiet(cached[i])
    <3>1. i \in 1 .. n /\ entries[i] = cached[i]
      BY <2>2
    <3> QED
      BY <2>5, <3>1
  <2>7. orphans = <<>>
    <3>1. CASE entries = cached
      BY <2>2, <3>1
    <3>2. CASE entries = Append(cached, OrphanID)
      <4>1. n \in 1 .. n /\ entries[n] = OrphanID
        BY <2>2, <2>4, <3>2
      <4>2. Quiet(OrphanID)
        BY <2>5, <4>1
      <4> QED
        BY <4>2 DEF Quiet, HasWork, OrphanID, EntryIDs
    <3> QED
      BY <2>2, <3>1, <3>2
  <2> QED
    BY <2>6, <2>7
<1>5. Selected'
  BY DEF Selected
<1> QED
  BY <1>1, <1>2, <1>3, <1>4, <1>5 DEF DispatcherInv

\* A new round begins, with the token or without.
LEMMA WakeKeeps ==
    ASSUME DispatcherInv, WakeUp \/ IdlePoll
    PROVE  DispatcherInv'
<1> USE DEF WakeUp, IdlePoll, queueVars, streamVars, dispatcher
<1>1. DispatcherType'
  BY DEF DispatcherInv, DispatcherType
<1>2. Switches' /\ RoundTrip'
  BY DEF DispatcherInv, Switches, RoundTrip
<1>3. MapKnown'
  BY DEF DispatcherInv, MapKnown, Copied
<1>4. PassedOver' /\ Selected'
  BY DEF PassedOver, Selected
<1> QED
  BY <1>1, <1>2, <1>3, <1>4 DEF DispatcherInv

\* A packet taken from the queue selected leaves the others, and no queue that
\* was empty has one.
LEMMA SourceShrinks ==
    ASSUME DispatcherInv, Source # <<>>, SetSource(Tail(Source))
    PROVE  /\ \A s \in Streams : txq'[s] \in Seq({p \in Offered : p.sid = s})
           /\ txq' = [s \in Streams |-> txq'[s]]
           /\ \A s \in Streams : txq'[s] # <<>> => txq[s] # <<>>
           /\ orphans' \in Seq(OfferedOrphans)
<1>1. /\ \A s \in Streams : txq[s] \in Seq({p \in Offered : p.sid = s})
      /\ txq = [s \in Streams |-> txq[s]]
      /\ orphans \in Seq(OfferedOrphans) /\ sel.stream \in Streams \cup {NoID}
  BY DEF DispatcherInv, DispatcherType, Selections
<1>2. CASE FromStream
  <2> DEFINE z == sel.stream
             w == Tail(txq[z])
  <2>1. z \in Streams /\ txq[z] # <<>> /\ txq' = [txq EXCEPT ![z] = w] /\ orphans' = orphans
    BY <1>1, <1>2 DEF FromStream, Source, SetSource
  <2>2. w \in Seq({p \in Offered : p.sid = z})
    <3> HIDE DEF z
    <3>1. txq[z] \in Seq({p \in Offered : p.sid = z})
      BY <1>1, <2>1
    <3> QED
      BY <2>1, <3>1
  <2> HIDE DEF w, z
  <2>3. \A s \in Streams : txq'[s] = IF s = z THEN w ELSE txq[s]
    BY <1>1, <2>1
  <2>4. txq' = [s \in Streams |-> txq'[s]]
    BY <1>1, <2>1
  <2> QED
    BY <1>1, <2>1, <2>2, <2>3, <2>4
<1>3. CASE ~FromStream
  <2>1. txq' = txq /\ orphans' = Tail(orphans) /\ orphans # <<>>
    BY <1>3 DEF Source, SetSource
  <2> QED
    BY <1>1, <2>1
<1> QED
  BY <1>2, <1>3

\* Without a resolver at most one packet is dropped.
LEMMA NoResolverKeeps ==
    ASSUME DispatcherInv, NoResolver
    PROVE  DispatcherInv'
<1>1. /\ pc = "resolve" /\ pc' = "stalled" /\ NoLocals
      /\ UNCHANGED <<signal, streamVars, up, cached, cursor, from, tx>>
      /\ UNCHANGED <<txq, orphans>> \/ (Source # <<>> /\ SetSource(Tail(Source)))
  BY DEF NoResolver
<1>2. /\ \A s \in Streams : txq'[s] \in Seq({p \in Offered : p.sid = s})
      /\ txq' = [s \in Streams |-> txq'[s]]
      /\ \A s \in Streams : txq'[s] # <<>> => txq[s] # <<>>
      /\ orphans' \in Seq(OfferedOrphans)
  <2>1. CASE UNCHANGED <<txq, orphans>>
    BY <2>1 DEF DispatcherInv, DispatcherType
  <2>2. CASE Source # <<>> /\ SetSource(Tail(Source))
    BY <2>2, SourceShrinks
  <2> QED
    BY <1>1, <2>1, <2>2
<1> USE DEF NoLocals, streamVars
<1>3. DispatcherType'
  <2>1. NothingSelected \in Selections
    BY DEF NothingSelected, Selections
  <2> QED
    BY <1>1, <1>2, <2>1 DEF DispatcherInv, DispatcherType
<1>4. Switches' /\ RoundTrip'
  BY <1>1 DEF DispatcherInv, Switches, RoundTrip
<1>5. MapKnown'
  BY <1>1, <1>2 DEF DispatcherInv, MapKnown, Copied
<1>6. PassedOver' /\ Selected'
  BY <1>1 DEF PassedOver, Selected
<1> QED
  BY <1>3, <1>4, <1>5, <1>6 DEF DispatcherInv

\* What was selected waits for room.
LEMMA ResolveKeeps ==
    ASSUME DispatcherInv, Resolve
    PROVE  DispatcherInv'
<1> USE DEF Resolve, queueVars, streamVars, dispatcher
<1>1. DispatcherType'
  BY DEF DispatcherInv, DispatcherType
<1>2. Switches' /\ RoundTrip'
  BY DEF DispatcherInv, Switches, RoundTrip
<1>3. MapKnown'
  BY DEF DispatcherInv, MapKnown, Copied
<1>4. PassedOver'
  BY DEF PassedOver
<1>5. Selected'
  BY DEF DispatcherInv, Selected, OrphanSelected
<1> QED
  BY <1>1, <1>2, <1>3, <1>4, <1>5 DEF DispatcherInv

\* What is popped is of the queue selected, and goes out under its id.
LEMMA PopKeeps ==
    ASSUME DispatcherInv, PopItem
    PROVE  DispatcherInv'
<1> USE DEF streamVars
<1>1. /\ pc = "capacity" /\ Len(tx) < TxCap
      /\ UNCHANGED <<signal, streamVars, up, cached, cursor, tx>>
  BY DEF PopItem, HasCapacity
<1>2. CASE /\ pc' = "top" /\ NoLocals /\ UNCHANGED <<txq, orphans, from>>
  <2> USE DEF NoLocals
  <2>1. DispatcherType'
    <3>1. NothingSelected \in Selections
      BY DEF NothingSelected, Selections
    <3> QED
      BY <1>1, <1>2, <3>1 DEF DispatcherInv, DispatcherType
  <2>2. Switches' /\ RoundTrip'
    BY <1>1, <1>2 DEF DispatcherInv, Switches, RoundTrip
  <2>3. MapKnown'
    BY <1>1, <1>2 DEF DispatcherInv, MapKnown, Copied
  <2>4. PassedOver' /\ Selected'
    BY <1>2 DEF PassedOver, Selected
  <2> QED
    BY <2>1, <2>2, <2>3, <2>4 DEF DispatcherInv
<1>3. CASE /\ Source # <<>> /\ SetSource(Tail(Source))
           /\ from' = IF FromStream THEN sel.stream ELSE OrphanID
  <2>1. /\ \A s \in Streams : txq'[s] \in Seq({p \in Offered : p.sid = s})
        /\ txq' = [s \in Streams |-> txq'[s]]
        /\ \A s \in Streams : txq'[s] # <<>> => txq[s] # <<>>
        /\ orphans' \in Seq(OfferedOrphans)
    BY <1>3, SourceShrinks
  <2>2. from' \in EntryIDs \cup {NoID}
    BY <1>3 DEF DispatcherInv, DispatcherType, Selections, FromStream, EntryIDs
  <2>3. MapKnown' /\ Switches'
    <3>1. pc # "copy" /\ pc # "top"
      BY <1>1
    <3> QED
      BY <1>1, <2>1, <3>1 DEF DispatcherInv, MapKnown, Copied, Switches
  <2>4. CASE pc' = "top" /\ NoLocals
    <3> USE DEF NoLocals
    <3>1. DispatcherType'
      <4>1. NothingSelected \in Selections
        BY DEF NothingSelected, Selections
      <4> QED
        BY <1>1, <2>1, <2>2, <2>4, <4>1 DEF DispatcherInv, DispatcherType
    <3>2. RoundTrip' /\ PassedOver' /\ Selected'
      BY <2>4 DEF RoundTrip, PassedOver, Selected
    <3> QED
      BY <2>3, <3>1, <3>2 DEF DispatcherInv
  <2>5. CASE item' = Head(Source) /\ pc' = "pack" /\ UNCHANGED <<entries, start, pos, sel>>
    <3>1. item' \in Packets /\ Block(item', sel.sid) \in RightBlocks
      <4>1. /\ \A s \in Streams : txq[s] \in Seq({p \in Offered : p.sid = s})
            /\ orphans \in Seq(OfferedOrphans) /\ sel \in Selections
        BY DEF DispatcherInv, DispatcherType
      <4>2. CASE FromStream
        <5> DEFINE z == sel.stream
        <5>1. z \in Streams /\ Source = txq[z]
          BY <4>1, <4>2 DEF FromStream, Selections, Source
        <5>2. Head(Source) \in {p \in Offered : p.sid = z}
          <6>1. Source \in Seq({p \in Offered : p.sid = z})
            BY <4>1, <5>1
          <6> HIDE DEF z
          <6> QED
            BY <1>3, <6>1
        <5>3. item' \in Offered /\ item'.sid = z
          BY <2>5, <5>2
        <5>4. sel.sid = z \/ (z = 0 /\ PingsOffered)
          BY <1>1, <5>1, DispatcherAssumption DEF DispatcherInv, Selected, OrphanSelected, NoID
        <5>5. sel.sid \in Nat
          BY <4>1 DEF Selections
        <5> HIDE DEF z
        <5> QED
          BY <5>3, <5>4, <5>5 DEF Block, RightBlocks, Packets
      <4>3. CASE ~FromStream
        <5>1. Source = orphans /\ sel.stream = NoID
          BY <4>3 DEF FromStream, Source
        <5>2. NoID \notin Streams
          BY DispatcherAssumption DEF NoID
        <5>3. sel.sid = Head(orphans).sid
          BY <1>1, <5>1, <5>2 DEF DispatcherInv, Selected
        <5>4. Head(orphans) \in OfferedOrphans /\ item' = Head(orphans)
          BY <1>3, <2>5, <4>1, <5>1
        <5>5. item'.sid \in Nat
          BY <5>4, DispatcherAssumption
        <5> QED
          BY <5>3, <5>4, <5>5 DEF Block, RightBlocks, Packets
      <4> QED
        BY <4>2, <4>3
    <3>2. DispatcherType'
      BY <1>1, <2>1, <2>2, <2>5, <3>1 DEF DispatcherInv, DispatcherType
    <3>3. RoundTrip'
      BY <1>1, <2>5 DEF DispatcherInv, RoundTrip
    <3>4. PassedOver'
      BY <2>5 DEF PassedOver
    <3>5. Selected'
      BY <1>1, <2>5, <3>1 DEF DispatcherInv, Selected, OrphanSelected
    <3> QED
      BY <2>3, <3>2, <3>3, <3>4, <3>5 DEF DispatcherInv
  <2> QED
    BY <1>3, <2>4, <2>5 DEF PopItem
<1> QED
  BY <1>2, <1>3 DEF PopItem

\* A packet and what is packed with it become a task.
LEMMA PackKeeps ==
    ASSUME DispatcherInv, PackAndSend
    PROVE  DispatcherInv'
<1> DEFINE task == <<Block(item, sel.sid)>> \o Extra
           sent == tx'[Len(tx')]
<1>1. /\ pc = "pack" /\ pc' = "top" /\ tx' = Append(tx, task) /\ NoLocals
      /\ txq' = [s \in Streams |-> Left(txq[s], sent)] /\ orphans' = Left(orphans, sent)
      /\ UNCHANGED <<signal, streamVars, up, cached, cursor, from>>
  BY DEF PackAndSend
<1>2. task \in Seq(RightBlocks)
  <2>1. Extra \in Seq(OwnBlocks)
    BY <1>1, ExtraOwn DEF DispatcherInv
  <2> DEFINE w == Extra
  <2>2. \A b \in OwnBlocks : b \in RightBlocks
    BY DEF OwnBlocks, RightBlocks
  <2>3. w \in Seq(RightBlocks)
    <3> HIDE DEF w
    <3>1. w \in Seq(OwnBlocks)
      BY <2>1 DEF w
    <3>2. Len(w) \in Nat /\ w = [i \in 1 .. Len(w) |-> w[i]] /\ \A i \in 1 .. Len(w) : w[i] \in OwnBlocks
      BY <3>1
    <3>3. \A i \in 1 .. Len(w) : w[i] \in RightBlocks
      BY <2>2, <3>2
    <3> QED
      BY <3>2, <3>3
  <2>4. Block(item, sel.sid) \in RightBlocks
    BY <1>1 DEF DispatcherInv, Selected
  <2> HIDE DEF w
  <2>5. <<Block(item, sel.sid)>> \o w \in Seq(RightBlocks)
    BY <2>3, <2>4
  <2> QED
    BY <2>5 DEF w
<1> HIDE DEF task, sent
<1>3. tx' \in Seq(Seq(RightBlocks)) /\ Len(tx') <= TxCap
  <2>1. tx \in Seq(Seq(RightBlocks)) /\ Len(tx) < TxCap
    BY <1>1 DEF DispatcherInv, DispatcherType, Selected
  <2>2. Append(tx, task) \in Seq(Seq(RightBlocks)) /\ Len(Append(tx, task)) = Len(tx) + 1
    BY <1>2, <2>1
  <2>3. Len(tx) \in Nat /\ TxCap \in Nat
    BY <2>1, DispatcherAssumption
  <2> QED
    BY <1>1, <2>1, <2>2, <2>3
<1>4. /\ \A s \in Streams : txq'[s] \in Seq({p \in Offered : p.sid = s})
      /\ txq' = [s \in Streams |-> txq'[s]]
      /\ \A s \in Streams : txq'[s] # <<>> => txq[s] # <<>>
      /\ orphans' \in Seq(OfferedOrphans)
  <2>1. \A s \in Streams : /\ Left(txq[s], sent) \in Seq({p \in Offered : p.sid = s})
                           /\ Left(txq[s], sent) # <<>> => txq[s] # <<>>
    <3> TAKE s \in Streams
    <3>1. txq[s] \in Seq({p \in Offered : p.sid = s})
      BY DEF DispatcherInv, DispatcherType
    <3> QED
      BY <3>1, LeftKeeps
  <2>2. Left(orphans, sent) \in Seq(OfferedOrphans)
    BY LeftKeeps DEF DispatcherInv, DispatcherType
  <2>3. txq' = [s \in Streams |-> txq'[s]]
    BY <1>1
  <2> QED
    BY <1>1, <2>1, <2>2, <2>3
<1> USE DEF NoLocals, streamVars
<1>5. DispatcherType'
  <2>1. NothingSelected \in Selections
    BY DEF NothingSelected, Selections
  <2> QED
    BY <1>1, <1>3, <1>4, <2>1 DEF DispatcherInv, DispatcherType
<1>6. Switches' /\ RoundTrip'
  BY <1>1 DEF DispatcherInv, Switches, RoundTrip
<1>7. MapKnown'
  BY <1>1, <1>4 DEF DispatcherInv, MapKnown, Copied
<1>8. PassedOver' /\ Selected'
  BY <1>1 DEF PassedOver, Selected
<1> QED
  BY <1>5, <1>6, <1>7, <1>8 DEF DispatcherInv

\* A worker takes the oldest task.
LEMMA WorkerKeeps ==
    ASSUME DispatcherInv, EncodeWorker
    PROVE  DispatcherInv'
<1> USE DEF EncodeWorker, queueVars, streamVars
<1>1. tx' \in Seq(Seq(RightBlocks)) /\ Len(tx') <= TxCap /\ Len(tx') < Len(tx)
  <2>1. tx \in Seq(Seq(RightBlocks)) /\ Len(tx) <= TxCap /\ tx # <<>> /\ TxCap \in Nat
    BY DispatcherAssumption DEF DispatcherInv, DispatcherType
  <2>2. tx' \in Seq(Seq(RightBlocks)) /\ Len(tx') = Len(tx) - 1 /\ Len(tx) \in Nat
    BY <2>1
  <2> QED
    BY <2>1, <2>2
<1>2. DispatcherType'
  BY <1>1 DEF DispatcherInv, DispatcherType
<1>3. Switches' /\ RoundTrip'
  BY DEF DispatcherInv, Switches, RoundTrip
<1>4. MapKnown'
  BY DEF DispatcherInv, MapKnown, Copied
<1>5. PassedOver'
  <2>1. \A id : Quiet(id) => Quiet(id)'
    BY DEF Quiet, HasWork
  <2> QED
    BY <2>1, PassedOverKept DEF DispatcherInv
<1>6. Selected'
  <2>1. pc = "pack" => Len(tx) < TxCap /\ Len(tx) \in Nat /\ Len(tx') \in Nat /\ TxCap \in Nat
    BY <1>1, DispatcherAssumption DEF DispatcherInv, DispatcherType, Selected
  <2> QED
    BY <1>1, <2>1 DEF DispatcherInv, Selected, OrphanSelected
<1> QED
  BY <1>2, <1>3, <1>4, <1>5, <1>6 DEF DispatcherInv

\* A step of something else leaves it as it is.
LEMMA DispatcherStutter ==
    ASSUME DispatcherInv, UNCHANGED dispatcherVars
    PROVE  DispatcherInv'
<1> USE DEF dispatcherVars, queueVars, streamVars, loopVars
<1>1. DispatcherType'
  BY DEF DispatcherInv, DispatcherType
<1>2. Switches' /\ RoundTrip'
  BY DEF DispatcherInv, Switches, RoundTrip
<1>3. MapKnown'
  BY DEF DispatcherInv, MapKnown, Copied
<1>4. PassedOver'
  <2>1. \A id : Quiet(id) => Quiet(id)'
    BY DEF Quiet, HasWork
  <2> QED
    BY <2>1, PassedOverKept DEF DispatcherInv
<1>5. Selected'
  BY DEF DispatcherInv, Selected, OrphanSelected
<1> QED
  BY <1>1, <1>2, <1>3, <1>4, <1>5 DEF DispatcherInv

\* Every step keeps it.
LEMMA DispatcherInvStep == DispatcherInv /\ [DispatcherNext]_dispatcherVars => DispatcherInv'
<1> SUFFICES ASSUME DispatcherInv, [DispatcherNext]_dispatcherVars
             PROVE  DispatcherInv'
  OBVIOUS
<1>1. ASSUME NEW p \in Offered, PushTXPacket(p) PROVE DispatcherInv'
  BY <1>1, PushKeeps
<1>2. ASSUME NEW p \in Offered, RemoveQueuedData(p) PROVE DispatcherInv'
  BY <1>2, RemoveQueuedKeeps
<1>3. ASSUME NEW p \in OfferedOrphans, EnqueueOrphanReset(p) PROVE DispatcherInv'
  BY <1>3, OrphanKeeps
<1>4. ASSUME NEW s \in Streams,
             AddStream(s) \/ BumpAdded(s) \/ UnmapStream(s) \/ CleanupStream(s)
      PROVE  DispatcherInv'
  BY <1>4, StreamKeeps
<1>5. CASE Resolvers
  BY <1>5, ResolversKeep
<1>6. CASE DispatcherStep
  BY <1>6, LoadVersionKeeps, CopyKeeps, BeginKeeps, ScanKeeps, NothingKeeps, WakeKeeps,
     NoResolverKeeps, ResolveKeeps, PopKeeps, PackKeeps DEF DispatcherStep
<1>7. CASE WakeUp
  BY <1>7, WakeKeeps
<1>8. CASE EncodeWorker
  BY <1>8, WorkerKeeps
<1>9. CASE UNCHANGED dispatcherVars
  BY <1>9, DispatcherStutter
<1> QED
  BY <1>1, <1>2, <1>3, <1>4, <1>5, <1>6, <1>7, <1>8, <1>9 DEF DispatcherNext, Bookkeeping

\* The dispatcher sleeps with work queued only if the token to wake it is there.
LEMMA NoWakeupIsLost == DispatcherInv => NoLostWakeup
<1> SUFFICES ASSUME DispatcherInv, pc = "idle", ~signal
             PROVE  orphans = <<>> /\ \A s \in Streams : ~Waits(s)
  BY DEF NoLostWakeup
<1>1. orphans = <<>> /\ \A i \in 1 .. Len(cached) : Quiet(cached[i])
  BY DEF DispatcherInv, PassedOver
<1>2. ASSUME NEW s \in Streams, Waits(s) PROVE FALSE
  <2>1. life[s] = "open" /\ txq[s] # <<>> /\ Head(txq[s]).type # "PING"
    BY <1>2 DEF Waits
  <2>2. Copied(s)
    BY <2>1 DEF DispatcherInv, MapKnown
  <2>3. Quiet(s) /\ s # OrphanID
    BY <1>1, <2>2, DispatcherAssumption DEF Copied, OrphanID
  <2> QED
    BY <2>1, <2>3 DEF Quiet, HasWork, EntryIDs
<1> QED
  BY <1>1, <1>2

\* No packet waits behind a sleeping dispatcher: whatever is pushed, and on
\* whatever stream that opens meanwhile, asyncStreamDispatcher has looked or is
\* woken.
THEOREM WakeupsAreKept == DispatcherSpec => []NoLostWakeup
<1>1. DispatcherSpec => []DispatcherInv
  BY DispatcherInvInit, DispatcherInvStep, PTL DEF DispatcherSpec
<1> QED
  BY <1>1, NoWakeupIsLost, PTL

LEMMA BlocksAreOwn == DispatcherInv => OwnStream
<1> SUFFICES ASSUME DispatcherInv, NEW i \in 1 .. Len(tx), NEW j \in 1 .. Len(tx[i])
             PROVE  \/ tx[i][j].sid = tx[i][j].packet.sid
                    \/ PingsOffered /\ tx[i][j].packet.sid = 0
  BY DEF OwnStream
<1>1. tx[i] \in Seq(RightBlocks)
  BY DEF DispatcherInv, DispatcherType
<1>2. tx[i][j] \in RightBlocks
  BY <1>1
<1> QED
  BY <1>2 DEF RightBlocks

\* A packet goes out under the id of its stream, though it is popped long after
\* the stream was selected and packed with packets of others; but for the
\* control stream when its PING was deferred.
THEOREM BlocksStayOwn == DispatcherSpec => []OwnStream
<1>1. DispatcherSpec => []DispatcherInv
  BY DispatcherInvInit, DispatcherInvStep, PTL DEF DispatcherSpec
<1> QED
  BY <1>1, BlocksAreOwn, PTL
-----------------------------------------------------------------------------
(* The limits of a session: MaxStreams, and how many closed ids it records. *)

Limits == counter <= MaxStreams /\ Len(recently) <= ClosedCap

\* Only a stream created where there is room raises the gauge, and the record
\* is only ever shortened or takes an id.
CounterMoves ==
    counter' <= counter \/ (counter' = counter + 1 /\ ~shut /\ Cardinality(Listed) < MaxStreams)
RecordMoves ==
    \/ recently' = recently
    \/ recently # <<>> /\ recently' = Tail(recently)
    \/ \E i \in Ids : recently' = RemoveFirst(recently, i) \/ recently' = Noted(i)

LEMMA LimitsMove ==
    ASSUME WorksInv, WorksInv', Limits, CounterMoves, RecordMoves
    PROVE  Limits'
<1>1. counter' <= MaxStreams
  <2>1. counter \in Int /\ MaxStreams \in Nat /\ counter <= MaxStreams
    BY ServerStreamsAssumption DEF WorksInv, StreamsInv, Typed, Limits
  <2>2. CASE counter' <= counter
    <3>1. counter' \in Int
      BY DEF WorksInv, StreamsInv, Typed
    <3> QED
      BY <2>1, <2>2, <3>1
  <2>3. CASE counter' = counter + 1 /\ ~shut /\ Cardinality(Listed) < MaxStreams
    <3>1. teardown.sub = 0 /\ counter = Cardinality(Listed) + teardown.sub
      BY <2>3 DEF WorksInv, StreamsInv, Torn, TableExact
    <3>2. Cardinality(Listed) \in Nat
      BY ListedFinite
    <3> QED
      BY <2>1, <2>3, <3>1, <3>2
  <2> QED
    BY <2>2, <2>3 DEF CounterMoves
<1>2. Len(recently') <= ClosedCap
  <2>1. /\ recently \in Seq(Ids) /\ \A k, m \in 1 .. Len(recently) : recently[k] = recently[m] => k = m
        /\ Len(recently) \in Nat /\ ClosedCap \in Nat /\ Len(recently) <= ClosedCap /\ Memory
    BY LenProperties, ServerStreamsAssumption DEF WorksInv, Works, Memory, Limits
  <2>2. CASE recently' = recently
    BY <2>1, <2>2
  <2>3. CASE recently # <<>> /\ recently' = Tail(recently)
    BY <2>1, <2>3, TailOnce
  <2>4. ASSUME NEW i \in Ids, recently' = RemoveFirst(recently, i)
        PROVE  Len(recently') <= ClosedCap
    <3>1. RemoveFirst(recently, i) \in Seq(Ids) /\ Len(RemoveFirst(recently, i)) <= Len(recently)
      BY <2>1, RemovedOnce
    <3>2. Len(RemoveFirst(recently, i)) \in Nat
      BY <3>1, LenProperties
    <3> QED
      BY <2>1, <2>4, <3>1, <3>2
  <2>5. ASSUME NEW i \in Ids, recently' = Noted(i)
        PROVE  Len(recently') <= ClosedCap
    BY <2>1, <2>5, NotedOnce
  <2> QED
    BY <2>2, <2>3, <2>4, <2>5 DEF RecordMoves
<1> QED
  BY <1>1, <1>2 DEF Limits

LEMMA TableOpsMove ==
    ASSUME WorksInv
    PROVE  /\ \A i \in Ids : GetOrCreateStream(i) => CounterMoves /\ RecordMoves
           /\ \A o : RemoveStream(o) => CounterMoves
           /\ \A o : idOf[o] \in Ids /\ NoteStreamClosed(o) => RecordMoves
<1>1. counter \in Int /\ Cardinality(Listed) \in Nat /\ MaxStreams \in Nat
  BY ListedFinite, ServerStreamsAssumption DEF WorksInv, StreamsInv, Typed
<1>2. ASSUME NEW i \in Ids, GetOrCreateStream(i) PROVE CounterMoves /\ RecordMoves
  <2>1. CASE Refused(i) \/ i \in Listed
    BY <1>1, <1>2, <2>1 DEF GetOrCreateStream, tableVars, recordVars, CounterMoves, RecordMoves
  <2>2. CASE ~(Refused(i) \/ i \in Listed)
    <3>1. ~shut /\ ~(Cardinality(Listed) >= MaxStreams)
      BY <2>2 DEF Refused
    <3>2. counter' = counter + 1 /\ recently' = RemoveFirst(recently, i)
      BY <1>2, <2>2 DEF GetOrCreateStream
    <3> QED
      BY <1>1, <3>1, <3>2 DEF CounterMoves, RecordMoves
  <2> QED
    BY <2>1, <2>2
<1>3. ASSUME NEW o, RemoveStream(o) PROVE CounterMoves
  BY <1>1, <1>3 DEF RemoveStream, CounterMoves
<1>4. ASSUME NEW o, idOf[o] \in Ids, NoteStreamClosed(o) PROVE RecordMoves
  BY <1>4 DEF NoteStreamClosed, recordVars, RecordMoves
<1> QED
  BY <1>2, <1>3, <1>4

LEMMA NextMoves == ASSUME WorksInv, StreamsNext PROVE CounterMoves /\ RecordMoves
<1>1. /\ counter \in Int /\ teardown.sub \in Nat
      /\ \A o \in 1 .. born : idOf[o] \in Ids
      /\ \A o \in Objects : fin[o] # "no" => o \in 1 .. born
      /\ sweep.at # "idle" => sweep.obj \in 1 .. born
      /\ setup \in [Setups -> [at : SetupAt, id : Ids \cup {0}, obj : 0 .. born, ctx : BOOLEAN]]
      /\ \A t \in Setups : setup[t].at # "idle" => setup[t].id \in Ids
      /\ reset \in Ids \cup {0}
  BY DEF WorksInv, StreamsInv, Typed, Born, Held, Objects, None
<1> USE DEF tableVars, recordVars
<1>2. CASE UNCHANGED tableVars
  BY <1>1, <1>2 DEF CounterMoves, RecordMoves
<1>3. CASE PruneRecentlyClosed
  BY <1>1, <1>3 DEF PruneRecentlyClosed, CounterMoves, RecordMoves
<1>4. ASSUME NEW t \in Setups, NEW i \in Ids, Syn(t, i) PROVE CounterMoves /\ RecordMoves
  BY <1>4, TableOpsMove DEF Syn
<1>5. ASSUME NEW t \in Setups, SetupStep(t) PROVE CounterMoves /\ RecordMoves
  <2>1. CASE CreateForSetup(t)
    <3>1. setup[t].id \in Ids /\ GetOrCreateStream(setup[t].id)
      BY <1>1, <2>1 DEF CreateForSetup
    <3> QED
      BY <3>1, TableOpsMove
  <2>2. CASE ~CreateForSetup(t)
    BY <1>2, <1>5, <2>2 DEF SetupStep, StartSetup, Dial, CheckAfterDial, AttachUpstreamConn, CheckAfterAttach
  <2> QED
    BY <2>1, <2>2
<1>6. ASSUME NEW o \in Objects, ARQCloses(o) \/ Finalize(o) \/ SweepAborts(o)
      PROVE  CounterMoves /\ RecordMoves
  BY <1>2, <1>6 DEF ARQCloses, Finalize, SweepAborts
<1>7. ASSUME NEW o \in Objects, OnStreamClosed(o) PROVE CounterMoves /\ RecordMoves
  <2>1. fin[o] # "no"
    BY <1>7 DEF OnStreamClosed
  <2>2. idOf[o] \in Ids
    BY <1>1, <2>1
  <2>3. CASE RemoveStream(o) /\ UNCHANGED recently
    BY <2>3, TableOpsMove DEF RecordMoves
  <2>4. CASE NoteStreamClosed(o) /\ UNCHANGED counter
    BY <1>1, <2>2, <2>4, TableOpsMove DEF CounterMoves
  <2> QED
    BY <1>2, <1>7, <2>3, <2>4 DEF OnStreamClosed
<1>8. CASE HandleStreamRST
  <2>1. counter' = counter /\ (recently' = recently \/ recently' = Noted(reset)) /\ reset # 0
    BY <1>8 DEF HandleStreamRST
  <2> QED
    BY <1>1, <2>1 DEF CounterMoves, RecordMoves
<1>9. CASE SweepRemoves
  <2>1. sweep.at # "idle"
    BY <1>9 DEF SweepRemoves
  <2>2. idOf[sweep.obj] \in Ids
    BY <1>1, <2>1
  <2>3. CASE RemoveStream(sweep.obj) /\ UNCHANGED recently
    BY <2>3, TableOpsMove DEF RecordMoves
  <2>4. CASE NoteStreamClosed(sweep.obj) /\ UNCHANGED counter
    BY <1>1, <2>2, <2>4, TableOpsMove DEF CounterMoves
  <2> QED
    BY <1>9, <2>3, <2>4 DEF SweepRemoves
<1>10. CASE TeardownStep
  <2>1. CASE CollectStreams \/ \E o \in Objects : CloseOne(o)
    BY <1>2, <2>1 DEF CollectStreams, CloseOne
  <2>2. CASE ClearStreams
    BY <1>1, <2>2 DEF ClearStreams, CounterMoves, RecordMoves
  <2>3. CASE CountCleared
    BY <1>1, <2>3 DEF CountCleared, CounterMoves, RecordMoves
  <2> QED
    BY <1>10, <2>1, <2>2, <2>3 DEF TeardownStep
<1>11. CASE MarkClosed \/ \E i \in Ids : ResetArrives(i)
  BY <1>2, <1>11 DEF MarkClosed, ResetArrives
<1> QED
  BY <1>3, <1>4, <1>5, <1>6, <1>7, <1>8, <1>9, <1>10, <1>11 DEF StreamsNext, ObjectStep

TableInv == WorksInv /\ Limits

LEMMA TableInvInit == StreamsInit => TableInv
<1> SUFFICES ASSUME StreamsInit PROVE Limits
  BY WorksInvInit DEF TableInv
<1> QED
  BY ServerStreamsAssumption DEF StreamsInit, Limits

LEMMA TableInvStep == TableInv /\ [StreamsNext]_streamsVars => TableInv'
<1> SUFFICES ASSUME TableInv, [StreamsNext]_streamsVars PROVE TableInv'
  OBVIOUS
<1>1. WorksInv /\ WorksInv' /\ Limits
  BY WorksInvNext DEF TableInv
<1>2. CASE StreamsNext
  BY <1>1, <1>2, NextMoves, LimitsMove DEF TableInv
<1>3. CASE UNCHANGED streamsVars
  BY <1>1, <1>3 DEF streamsVars, tableVars, recordVars, Limits, TableInv
<1> QED
  BY <1>2, <1>3

LEMMA TableTyped == TableInv => StreamsTypeOK
<1> SUFFICES ASSUME TableInv PROVE StreamsTypeOK
  OBVIOUS
<1>1. /\ born \in 0 .. MaxObjects /\ table \in [Ids -> 0 .. born]
      /\ dialed \in [Setups -> {"none", "open", "closed"}]
      /\ conn \in [Objects -> Setups \cup {None}] /\ counter \in Int
  BY DEF TableInv, WorksInv, StreamsInv, Typed
<1>2. table \in [Ids -> Objects \cup {None}]
  BY <1>1, ServerStreamsAssumption DEF Objects, None
<1>3. active \subseteq Ids /\ recently \in Seq(Ids) /\ Len(recently) <= ClosedCap
  BY DEF TableInv, WorksInv, StreamsInv, TableExact, Listed, Works, Memory, Limits
<1>4. counter \in 0 .. MaxStreams
  <2>1. counter = Cardinality(Listed) + teardown.sub /\ teardown.sub \in Nat /\ counter <= MaxStreams
    BY DEF TableInv, WorksInv, StreamsInv, TableExact, Typed, Limits
  <2> QED
    BY <1>1, <2>1, ListedFinite, ServerStreamsAssumption
<1> QED
  BY <1>1, <1>2, <1>3, <1>4 DEF StreamsTypeOK
-----------------------------------------------------------------------------
(* Everything together.                                                     *)

LEMMA DispatcherTyped == DispatcherInv => DispatcherTypeOK
<1> SUFFICES ASSUME DispatcherInv PROVE DispatcherTypeOK
  OBVIOUS
<1>1. txq \in [Streams -> Seq(Offered)]
  <2>1. ASSUME NEW s \in Streams PROVE txq[s] \in Seq(Offered)
    <3>1. txq[s] \in Seq({p \in Offered : p.sid = s})
      BY DEF DispatcherInv, DispatcherType
    <3>2. Len(txq[s]) \in Nat /\ txq[s] = [i \in 1 .. Len(txq[s]) |-> txq[s][i]]
          /\ \A i \in 1 .. Len(txq[s]) : txq[s][i] \in Offered
      BY <3>1
    <3> QED
      BY <3>2
  <2> QED
    BY <2>1 DEF DispatcherInv, DispatcherType
<1>2. entries \in Seq(Streams \cup {OrphanID}) /\ start \in Nat /\ pos \in Nat
  <2>1. cached \in Seq(Streams)
    BY DEF DispatcherInv, DispatcherType
  <2>2. cached \in Seq(EntryIDs) /\ OrphanID \in EntryIDs
    BY <2>1 DEF EntryIDs
  <2>3. Append(cached, OrphanID) \in Seq(EntryIDs)
    BY <2>2
  <2>4. <<>> \in Seq(EntryIDs)
    OBVIOUS
  <2>5. pc \in {"scan", "resolve", "capacity", "pack"}
        \/ pc \in {"top", "copy", "begin", "idle", "stalled"}
    BY DEF DispatcherInv, RoundTrip
  <2>6. entries \in {<<>>, cached, Append(cached, OrphanID)} /\ start \in Nat /\ pos \in Nat
    BY <2>5 DEF DispatcherInv, RoundTrip
  <2> QED
    BY <2>2, <2>3, <2>4, <2>6 DEF EntryIDs
<1>3. /\ sel.stream \in Streams \cup {NoID}
      /\ sel.packet \in Offered \cup OfferedOrphans \cup {NoPacket}
      /\ item \in Offered \cup OfferedOrphans \cup {NoPacket}
      /\ from \in Streams \cup {OrphanID, NoID}
  BY DEF DispatcherInv, DispatcherType, Selections, Packets, EntryIDs
<1> QED
  BY <1>1, <1>2, <1>3 DEF DispatcherInv, DispatcherType, Switches, RoundTrip, DispatcherTypeOK

AllInv == DeferredInv /\ TableInv /\ DispatcherInv

LEMMA AllInvAlways == Spec => []AllInv
<1>1. Init => AllInv
  BY DeferredInvInit, TableInvInit, DispatcherInvInit DEF Init, AllInv
<1>2. AllInv /\ [Next]_allVars => AllInv'
  <2> SUFFICES ASSUME AllInv, [Next]_allVars PROVE AllInv'
    OBVIOUS
  <2>1. [DeferredNext]_deferredVars /\ [StreamsNext]_streamsVars /\ [DispatcherNext]_dispatcherVars
    BY DEF Next, StreamsMove, DispatcherMove, allVars
  <2> QED
    BY <2>1, DeferredInvStep, TableInvStep, DispatcherInvStep DEF AllInv
<1> QED
  BY <1>1, <1>2, PTL DEF Spec

\* The types of the stream table, of the deferred work and of the dispatcher:
\* a session has at most MaxStreams streams and records at most ClosedCap closed
\* ids, and txChannel and the lanes keep to their limits.
THEOREM AllTypesCorrect == Spec => []AllTypeOK
<1>1. AllInv => AllTypeOK
  BY TableTyped, DispatcherTyped DEF AllInv, DeferredInv, AllTypeOK
<1> QED
  BY <1>1, AllInvAlways, PTL
=============================================================================
