---------------------------- MODULE ClientSession ----------------------------
(****************************************************************************)
(* The life of the client's session: the main loop (internal/client/        *)
(* client.go), the race of one SESSION_INIT over several resolvers          *)
(* (session.go), the workers of the runtime that ask for a restart          *)
(* (async_runtime.go, ping_manager.go, runtime_recovery.go), and the server *)
(* that finds or makes a session for an init (internal/udpserver).          *)
(*                                                                          *)
(* The main loop and three workers run concurrently: the reader handles     *)
(* responses, the health loop and the ping loop watch for silence.  Inits   *)
(* travel on after the race is decided.  Delays are arbitrary, and faults   *)
(* of the network and of the server are bounded.                            *)
(****************************************************************************)
EXTENDS Integers, FiniteSets

CONSTANTS
    Racers,        \* resolvers that one init is raced over
    PathMTUs,      \* operating points that the scans find
    Ceilings,      \* upload ceilings of a server's policy, 0 for none
    MaxAttempts,   \* attempts per InitializeSession
    FailLimit,     \* runtimeSessionInitFailureLimit
    EscalateAt,    \* transportRecoveryEscalateThreshold
    MaxSessions,   \* maxActiveSessions
    MaxFaults      \* bound: losses, timeouts and lost sessions

ASSUME ClientSessionAssumption ==
    /\ Racers # {} /\ PathMTUs \subseteq Nat \ {0} /\ PathMTUs # {}
    /\ Ceilings \subseteq Nat /\ Ceilings # {}
    /\ MaxAttempts \in Nat \ {0} /\ FailLimit \in Nat \ {0}
    /\ EscalateAt \in Nat \ {0} /\ MaxSessions \in Nat \ {0} /\ MaxFaults \in Nat

NoInit == [verify |-> 0, mtu |-> 0]
Watchers == {"health", "ping"}
Workers == Watchers \cup {"reader"}

VARIABLES
    phase,       \* of Run: "discover", "connect", "race", "backoff",
                 \* "connected", "stopping", "draining"
    scanned,     \* successMTUChecks
    sid,         \* sessionID and cookie: the session in use, 0 when not ready
    init,        \* sessionInitPayload, or NoInit
    inits,       \* payloads built so far
    discovered,  \* discoveredUploadMTU
    ceiling,     \* serverPolicy
    attempt, sawBusy,
    race,        \* per resolver: "over", "sent", or the answer to come
    failures,    \* sessionInitRetryFailures
    streak,      \* transportRecoveryStreak
    rescan,      \* transportRecoveryPending
    cooled,      \* the cooldown since lastTransportRecovery is over
    rescans,     \* history: rescans asked for since the last cooldown was over
    pending,     \* runtimeResetPending
    signal,      \* sessionResetSignal
    worker,      \* where each worker is
    silent,      \* no response for as long as the watchers wait
    served,      \* the server's live sessions
    made,        \* sessions made so far
    policy,      \* the ceiling of the server
    strays,      \* inits that travel on though nobody waits for an answer
    faults

clientVars == <<phase, scanned, sid, init, inits, discovered, ceiling, attempt,
                sawBusy, race, failures>>
watchVars == <<streak, rescan, cooled, rescans, pending, signal, worker, silent>>
serverSideVars == <<served, made, policy, strays>>
establishVars == <<clientVars, watchVars, serverSideVars, faults>>

Over == [kind |-> "over", n |-> 0]
Sent == [kind |-> "sent", n |-> 0]

EstablishInit ==
    /\ phase = "discover" /\ scanned = FALSE /\ sid = 0
    /\ init = NoInit /\ inits = 0
    /\ discovered = 0 /\ ceiling = 0
    /\ attempt = 0 /\ sawBusy = FALSE
    /\ race = [r \in Racers |-> Over]
    /\ failures = 0 /\ streak = 0 /\ rescan = FALSE
    /\ cooled = TRUE /\ rescans = 0
    /\ pending = FALSE /\ signal = FALSE
    /\ worker = [w \in Workers |-> "off"] /\ silent = FALSE
    /\ served = {} /\ made = 0 /\ policy \in Ceilings /\ strays = {}
    /\ faults = 0

Fault == faults < MaxFaults /\ faults' = faults + 1
AtMost(k, limit) == IF k > limit THEN limit ELSE k
-----------------------------------------------------------------------------
(* The server: an init finds the live session of its payload, or makes one, *)
(* or is told that the table is full.  Sessions end, and the server may be  *)
(* restarted with another policy.                                           *)
Answer(i) ==
    IF \E s \in served : s.verify = i.verify
    THEN /\ UNCHANGED <<served, made>>
    ELSE IF Cardinality(served) >= MaxSessions THEN UNCHANGED <<served, made>>
    ELSE /\ made' = made + 1
         /\ served' = served \cup {[n |-> made + 1, verify |-> i.verify, mtu |-> i.mtu]}

AnswerTo(i) ==
    IF \E s \in served' : s.verify = i.verify
    THEN [kind |-> "accept", n |-> (CHOOSE s \in served' : s.verify = i.verify).n]
    ELSE [kind |-> "busy", n |-> 0]

StrayArrives(i) ==
    /\ i \in strays
    /\ strays' = strays \ {i}
    /\ \/ Answer(i) /\ UNCHANGED faults
       \/ Fault /\ UNCHANGED <<served, made>>
    /\ UNCHANGED <<clientVars, watchVars, policy>>

(* A session nobody uses is idle, and is cleaned up.                        *)
OrphanExpires ==
    /\ \E s \in served :
          /\ s.n # sid /\ \A r \in Racers : race[r].n # s.n
          /\ served' = served \ {s}
    /\ UNCHANGED <<clientVars, watchVars, made, policy, strays, faults>>

SessionLost ==
    /\ Fault
    /\ \E s \in served : s.n = sid /\ served' = served \ {s}
    /\ UNCHANGED <<clientVars, watchVars, made, policy, strays>>

ServerRestarts ==
    /\ Fault
    /\ served' = {} /\ policy' \in Ceilings
    /\ UNCHANGED <<clientVars, watchVars, made, strays>>
-----------------------------------------------------------------------------
(* The main loop: discovery, then InitializeSession.                        *)
Discover ==
    /\ phase = "discover" /\ ~scanned
    /\ scanned' = TRUE
    /\ discovered' \in PathMTUs
    /\ UNCHANGED <<phase, sid, init, inits, ceiling, attempt, sawBusy, race, failures,
                   watchVars, serverSideVars, faults>>

(* recomputeMTUOperatingPoint may find that the resolvers left carry        *)
(* another point.                                                           *)
InitializeSession ==
    /\ phase = "discover" /\ scanned
    /\ phase' = "connect"
    /\ discovered' \in PathMTUs
    /\ attempt' = 1
    /\ UNCHANGED <<scanned, sid, init, inits, ceiling, sawBusy, race, failures,
                   watchVars, serverSideVars, faults>>

(* nextSessionInitRacers: the payload is built once and kept until a        *)
(* session is accepted or reset.                                            *)
StartRace ==
    /\ phase = "connect"
    /\ phase' = "race"
    /\ IF init = NoInit
       THEN init' = [verify |-> inits + 1, mtu |-> discovered] /\ inits' = inits + 1
       ELSE UNCHANGED <<init, inits>>
    /\ sawBusy' = FALSE
    /\ race' = [r \in Racers |-> Sent]
    /\ UNCHANGED <<scanned, sid, discovered, ceiling, attempt, failures,
                   watchVars, serverSideVars, faults>>

InitArrives(r) ==
    /\ phase = "race" /\ race[r] = Sent
    /\ Answer(init)
    /\ race' = [race EXCEPT ![r] = AnswerTo(init)]
    /\ UNCHANGED <<phase, scanned, sid, init, inits, discovered, ceiling, attempt,
                   sawBusy, failures, watchVars, policy, strays, faults>>

(* No answer in time: the init, or the answer, was lost or is late.         *)
RacerFails(r) ==
    /\ phase = "race" /\ race[r] # Over /\ Fault
    /\ race' = [race EXCEPT ![r] = Over]
    /\ strays' \in {strays, IF race[r] = Sent THEN strays \cup {init} ELSE strays}
    /\ UNCHANGED <<phase, scanned, sid, init, inits, discovered, ceiling, attempt,
                   sawBusy, failures, watchVars, served, made, policy>>

(* applySessionAccept, then StartAsyncRuntime.  The others are cancelled.   *)
\* Mutant: the policy of the last server stays when this one states none.
AcceptKeepsPolicy(r) ==
    /\ phase = "race" /\ race[r].kind = "accept"
    /\ sid' = race[r].n
    /\ ceiling' = IF policy = 0 THEN ceiling ELSE policy
    /\ init' = NoInit
    /\ strays' \in {strays, IF \E q \in Racers : race[q] = Sent THEN strays \cup {init} ELSE strays}
    /\ race' = [q \in Racers |-> Over]
    /\ phase' = "connected" /\ failures' = 0
    /\ worker' = [w \in Workers |-> "idle"] /\ silent' = FALSE
    /\ UNCHANGED <<scanned, inits, discovered, attempt, sawBusy, streak, rescan, cooled,
                   rescans, pending, signal, served, made, policy, faults>>
Accept(r) ==
    /\ phase = "race" /\ race[r].kind = "accept"
    /\ sid' = race[r].n
    /\ ceiling' = policy
    /\ init' = NoInit
    /\ strays' \in {strays, IF \E q \in Racers : race[q] = Sent THEN strays \cup {init} ELSE strays}
    /\ race' = [q \in Racers |-> Over]
    /\ phase' = "connected" /\ failures' = 0
    /\ worker' = [w \in Workers |-> "idle"] /\ silent' = FALSE
    /\ UNCHANGED <<scanned, inits, discovered, attempt, sawBusy, streak, rescan, cooled,
                   rescans, pending, signal, served, made, policy, faults>>

Busy(r) ==
    /\ phase = "race" /\ race[r].kind = "busy"
    /\ sawBusy' = TRUE
    /\ race' = [race EXCEPT ![r] = Over]
    /\ UNCHANGED <<phase, scanned, sid, init, inits, discovered, ceiling, attempt,
                   failures, watchVars, serverSideVars, faults>>

RaceOver == phase = "race" /\ \A r \in Racers : race[r] = Over

NextAttempt ==
    /\ RaceOver /\ ~sawBusy /\ attempt < MaxAttempts
    /\ attempt' = attempt + 1 /\ phase' = "connect"
    /\ UNCHANGED <<scanned, sid, init, inits, discovered, ceiling, sawBusy, race,
                   failures, watchVars, serverSideVars, faults>>

(* A rescan: MTU state is forgotten, and the cooldown begins.               *)
Rescan ==
    /\ scanned' = FALSE
    /\ cooled' = FALSE
    /\ rescans' = rescans + 1

(* InitializeSession fails; too often, and the resolvers are scanned again. *)
InitializationFails ==
    /\ RaceOver /\ (sawBusy \/ attempt = MaxAttempts)
    /\ failures' = AtMost(failures + 1, FailLimit)
    /\ IF failures' >= FailLimit /\ cooled THEN Rescan
       ELSE UNCHANGED <<scanned, cooled, rescans>>
    /\ phase' = "backoff"
    /\ UNCHANGED <<sid, init, inits, discovered, ceiling, attempt, sawBusy, race,
                   streak, rescan, pending, signal, worker, silent, serverSideVars, faults>>

BackoffEnds ==
    /\ phase = "backoff" /\ phase' = "discover"
    /\ UNCHANGED <<scanned, sid, init, inits, discovered, ceiling, attempt, sawBusy,
                   race, failures, watchVars, serverSideVars, faults>>

CoolsDown ==
    /\ ~cooled /\ cooled' = TRUE /\ rescans' = 0
    /\ UNCHANGED <<clientVars, streak, rescan, pending, signal, worker, silent,
                   serverSideVars, faults>>
-----------------------------------------------------------------------------
(* The runtime.  A packet of the session is answered, or by its error when  *)
(* the server does not know the session; or nothing comes for long.         *)
Running(w) == phase \in {"connected", "stopping"} \/ (w = "ping" /\ phase = "draining")
At(w, from, to) == worker[w] = from /\ worker' = [worker EXCEPT ![w] = to]

Response ==
    /\ Running("reader")
    /\ \/ At("reader", "idle", "restart") /\ \A s \in served : s.n # sid
       \/ /\ \E s \in served : s.n = sid
          /\ worker["reader"] = "idle" /\ (silent \/ streak # 0) /\ UNCHANGED worker
    /\ silent' = FALSE /\ streak' = 0
    /\ UNCHANGED <<clientVars, rescan, cooled, rescans, pending, signal, serverSideVars,
                   faults>>

Silence ==
    /\ phase = "connected" /\ ~silent /\ Fault
    /\ silent' = TRUE
    /\ UNCHANGED <<clientVars, streak, rescan, cooled, rescans, pending, signal, worker,
                   serverSideVars>>

(* requestTransportRecovery of a watcher, one atomic variable at a time.    *)
CountRequest(w) ==
    /\ w \in Watchers /\ Running(w) /\ silent
    /\ streak' = AtMost(streak + 1, EscalateAt)
    /\ At(w, "idle", IF streak' >= EscalateAt THEN "check" ELSE "restart")
    /\ UNCHANGED <<clientVars, rescan, cooled, rescans, pending, signal, silent,
                   serverSideVars, faults>>

CheckCooldown(w) ==
    /\ At(w, "check", IF cooled THEN "arm" ELSE "restart")
    /\ UNCHANGED <<clientVars, streak, rescan, cooled, rescans, pending, signal, silent,
                   serverSideVars, faults>>

Arm(w) ==
    /\ At(w, "arm", "restart")
    /\ rescan' = TRUE
    /\ IF rescan THEN UNCHANGED <<cooled, streak, rescans>>
       ELSE cooled' = FALSE /\ streak' = 0 /\ rescans' = rescans + 1
    /\ UNCHANGED <<clientVars, pending, signal, silent, serverSideVars, faults>>

(* requestSessionRestart: only the first request sends the signal.          *)
RequestRestart(w) ==
    /\ At(w, "restart", IF pending THEN "idle" ELSE "won")
    /\ pending' = TRUE
    /\ UNCHANGED <<clientVars, streak, rescan, cooled, rescans, signal, silent,
                   serverSideVars, faults>>

Signal(w) ==
    /\ At(w, "won", "idle")
    /\ signal' = TRUE
    /\ UNCHANGED <<clientVars, streak, rescan, cooled, rescans, pending, silent,
                   serverSideVars, faults>>

Exit(w) ==
    /\ phase = IF w = "ping" THEN "draining" ELSE "stopping"
    /\ At(w, "idle", "off")
    /\ UNCHANGED <<clientVars, streak, rescan, cooled, rescans, pending, signal, silent,
                   serverSideVars, faults>>

WorkerStep(w) ==
    \/ CountRequest(w) \/ CheckCooldown(w) \/ Arm(w)
    \/ RequestRestart(w) \/ Signal(w)
-----------------------------------------------------------------------------
(* The main loop takes the signal: StopAsyncRuntime waits for the workers   *)
(* of the runtime first and then for the ping loop.                         *)
TakeSignal ==
    /\ phase = "connected" /\ signal
    /\ phase' = "stopping" /\ signal' = FALSE
    /\ UNCHANGED <<scanned, sid, init, inits, discovered, ceiling, attempt, sawBusy,
                   race, failures, streak, rescan, cooled, rescans, pending, worker,
                   silent, serverSideVars, faults>>

WorkersStopped ==
    /\ phase = "stopping"
    /\ \A w \in Workers \ {"ping"} : worker[w] = "off"
    /\ phase' = "draining"
    /\ UNCHANGED <<scanned, sid, init, inits, discovered, ceiling, attempt, sawBusy,
                   race, failures, watchVars, serverSideVars, faults>>

(* resetSessionState, activatePendingTransportRecovery and                  *)
(* clearRuntimeResetRequest.                                                *)
\* Mutant: the request is not cleared.
ResetKeepsRequest ==
    /\ phase = "draining" /\ worker["ping"] = "off"
    /\ phase' = "backoff"
    /\ sid' = 0 /\ init' = NoInit
    /\ IF rescan THEN scanned' = FALSE /\ rescan' = FALSE
       ELSE UNCHANGED <<scanned, rescan>>
    /\ signal' = FALSE
    /\ failures' = AtMost(failures + 1, FailLimit)
    /\ UNCHANGED <<inits, discovered, ceiling, attempt, sawBusy, race, streak, cooled,
                   rescans, pending, worker, silent, serverSideVars, faults>>
ResetSession ==
    /\ phase = "draining" /\ worker["ping"] = "off"
    /\ phase' = "backoff"
    /\ sid' = 0 /\ init' = NoInit
    /\ IF rescan THEN scanned' = FALSE /\ rescan' = FALSE
       ELSE UNCHANGED <<scanned, rescan>>
    /\ pending' = FALSE /\ signal' = FALSE
    /\ failures' = AtMost(failures + 1, FailLimit)
    /\ UNCHANGED <<inits, discovered, ceiling, attempt, sawBusy, race, streak, cooled,
                   rescans, worker, silent, serverSideVars, faults>>

MainStep ==
    \/ Discover \/ InitializeSession \/ StartRace
    \/ \E r \in Racers : Accept(r) \/ Busy(r)
    \/ NextAttempt \/ InitializationFails \/ BackoffEnds
    \/ TakeSignal \/ WorkersStopped \/ ResetSession

EstablishNext ==
    \/ MainStep
    \/ \E r \in Racers : InitArrives(r) \/ RacerFails(r)
    \/ \E i \in strays : StrayArrives(i)
    \/ OrphanExpires \/ SessionLost \/ ServerRestarts
    \/ CoolsDown \/ Response \/ Silence
    \/ \E w \in Workers : WorkerStep(w) \/ Exit(w)

(* Every goroutine runs, inits that are not lost arrive, packets of the     *)
(* session go on being sent (the ping loop sees to that), and the server    *)
(* cleans up.  A worker that was cancelled leaves its loop some day, though *)
(* a select may prefer its other cases for a while.                          *)
EstablishFairness ==
    /\ WF_establishVars(MainStep)
    /\ \A r \in Racers : WF_establishVars(InitArrives(r))
    /\ WF_establishVars(OrphanExpires)
    /\ WF_establishVars(Response)
    /\ \A w \in Workers : WF_establishVars(WorkerStep(w))
    /\ SF_establishVars(\E w \in Workers : Exit(w))

EstablishSpec == EstablishInit /\ [][EstablishNext]_establishVars /\ EstablishFairness
-----------------------------------------------------------------------------
EstablishTypeOK ==
    /\ phase \in {"discover", "connect", "race", "backoff", "connected", "stopping",
                  "draining"}
    /\ discovered \in PathMTUs \cup {0} /\ {ceiling, policy} \subseteq Ceilings \cup {0}
    /\ attempt \in 0 .. MaxAttempts /\ failures \in 0 .. FailLimit
    /\ streak \in 0 .. EscalateAt /\ rescans \in Nat /\ made \in Nat
    /\ {scanned, sawBusy, rescan, cooled, pending, signal, silent} \subseteq BOOLEAN
    /\ worker \in [Workers -> {"off", "idle", "check", "arm", "restart", "won"}]
    /\ sid \in 0 .. made
    /\ DOMAIN race = Racers /\ \A r \in Racers : race[r].n \in 0 .. made
    /\ IsFiniteSet(served) /\ Cardinality(served) <= MaxSessions
    /\ \A s \in served : s.n \in 1 .. made

\* A restart that was asked for in one session never hits the next one, nor
\* the attempts to get one: whichever workers asked, and however late, nothing
\* of it is left when the main loop connects again.
CleanStart ==
    phase \in {"discover", "connect", "race", "backoff"} =>
        ~pending /\ ~signal /\ \A w \in Workers : worker[w] = "off"

\* A restart that was asked for is not lost: as only the first request sends a
\* signal, that one is on its way as long as the others are dropped.
RestartNotLost ==
    pending /\ phase = "connected" => signal \/ \E w \in Workers : worker[w] = "won"

\* The resolvers are not scanned over again before the last time's cooldown is
\* over, whether the watchers or the failures of the main loop ask for it.
RescanRare == rescans <= 1

\* Racing does not multiply sessions: the server never has two sessions for one
\* init, though the init reaches it once per resolver, and late ones too.
OneSessionPerInit == \A s, t \in served : s.verify = t.verify => s = t

\* The client keeps to the ceilings of the server that has its session, and to
\* none when that one states none, whatever an earlier server had asked for.
PolicyInForce ==
    sid # 0 /\ (\E s \in served : s.n = sid) => ceiling = policy

ClientSound ==
    CleanStart /\ RestartNotLost /\ RescanRare /\ OneSessionPerInit /\ PolicyInForce

\* However sessions, packets and inits are lost, the client always gets back to
\* a session that the server knows.
InSession == \E s \in served : s.n = sid
Reconnects == []<>InSession

\* The MTU that the server works with is the one the client has measured for
\* the resolvers it will use (session.go:38 says that a restart does not reuse
\* a stale one).
MTUAgreed == \A s \in served : s.n = sid => s.mtu = discovered
=============================================================================
