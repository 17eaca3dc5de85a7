---------------------------- MODULE ResolverPool ----------------------------
(****************************************************************************)
(* The resolvers of the client (internal/client/balancer.go,                *)
(* resolver_health.go, stream_resolver.go): which are valid, which of these *)
(* carry the traffic, which are disabled for their timeouts and come back   *)
(* after a recheck.  Four parties change this at once: the answers and      *)
(* timeouts of queries, the health loop, the rechecks it starts, and, after *)
(* a Fast Connect, the MTU scan that goes on in the background.             *)
(*                                                                          *)
(* A step is one critical section of the balancer or of resolverHealthMu.   *)
(* Time is left out: a window matures, and a recheck falls due, at any time.*)
(****************************************************************************)
EXTENDS Integers, FiniteSets

CONSTANTS
    Resolvers,
    Nobody,        \* not a resolver
    IPv6,          \* resolvers with an IPv6 address
    Slow,          \* resolvers that cannot carry the MTU of the session
    Policies,      \* settings: family mode, and MTU-weighted balancing with
                   \* adaptive grouping or not
    Floor,         \* the safety floor: 3 in the code
    MinEvents,     \* autoDisableMinObservations
    Successes,     \* runtimeDisabledResolverReactivationSuccessThreshold: 2
    Pressure,      \* resolverPoolPressureThreshold
    Slots,         \* the slots of resolverRecheckSem
    MaxScans       \* bound: resolvers left to the background scan

ASSUME ResolverPoolAssumption ==
    /\ IsFiniteSet(Resolvers) /\ Nobody \notin Resolvers
    /\ IPv6 \subseteq Resolvers /\ Slow \subseteq Resolvers
    /\ Policies \subseteq [family : {"dual", "ipv4", "ipv6", "auto"}, weighted : BOOLEAN]
    /\ Floor \in Nat \ {0} /\ MinEvents \in Nat \ {0} /\ Successes \in Nat \ {0}


VARIABLES
    policy,      \* the settings; they do not change
    source,      \* IsValid of the client's connections, which a scan writes
    valid,       \* IsValid of the balancer's snapshot
    backup,      \* Backup
    events,      \* timeouts in the window, up to MinEvents
    disabled,    \* runtimeDisabled: the resolvers it names
    passed,      \* SuccessCount of each
    inFlight,    \* InFlight of resolverRecheck
    probes,      \* the rechecks under way: slot -> [key, at]
    loop,        \* the health loop: [at, cands, r]
    unscanned,   \* resolvers whose scan is still to come
    accepted,    \* resolvers accepted by the scan, with onValid to come
    plan,        \* the cached plan of a stream, {} when its version is old
    choice,      \* a plan selected and not yet cached
    torn,        \* history: the pool changed between the two
    twice,       \* history: resolvers whose flag was wiped under a probe
    crossed,     \* history: resolvers made valid while they were being disabled
    meanwhile    \* history: what changed in the pool since the loop decided to
                 \* disable a resolver: "nothing", it "grew", or a "scan"

flagVars == <<disabled, passed, inFlight>>
planVars == <<plan, choice, torn>>
poolVars == <<policy, source, valid, backup, events, flagVars, probes, loop,
              unscanned, accepted, planVars, twice, crossed, meanwhile>>

NoProbe == [key |-> Nobody, at |-> "free"]
AtRest == [at |-> "idle", cands |-> {}, r |-> Nobody]

PoolInit ==
    /\ policy \in Policies
    /\ unscanned \in {S \in SUBSET Resolvers : Cardinality(S) <= MaxScans}
    /\ source = [r \in Resolvers |-> r \notin unscanned]
    /\ valid = source
    /\ backup \in {[r \in Resolvers |-> FALSE], [r \in Resolvers |-> r \in Slow]}
    /\ events = [r \in Resolvers |-> 0]
    /\ disabled = {} /\ passed = [r \in Resolvers |-> 0]
    /\ inFlight = {} /\ probes = [s \in Slots |-> NoProbe]
    /\ loop = AtRest /\ accepted = {}
    /\ plan = {} /\ choice = {} /\ torn = FALSE
    /\ twice = {} /\ crossed = {} /\ meanwhile = "nothing"
-----------------------------------------------------------------------------
(* rebuildValidIndices: the active pool of a snapshot.                      *)
Tier(S) == IF \E r \in S : ~backup[r] THEN {r \in S : ~backup[r]} ELSE S
ActiveOf(ok) ==
    LET v4 == {r \in Resolvers \ IPv6 : ok[r]}
        v6 == {r \in IPv6 : ok[r]}
    IN  CASE policy.family = "dual" -> Tier(v4 \cup v6)
          [] policy.family = "ipv4" -> Tier(v4)
          [] policy.family = "ipv6" -> Tier(v6)
          [] policy.family = "auto" -> IF v4 # {} THEN Tier(v4) ELSE Tier(v6)
Active == ActiveOf(valid)

(* Every store of a snapshot has a version of its own, and makes the cached *)
(* plan stale.  A plan that is selected but not cached yet is then torn.    *)
NewVersion ==
    /\ plan' = {}
    /\ torn' = (choice # {})
    /\ UNCHANGED choice

SetValidity(r, ok) ==
    IF valid[r] = ok THEN UNCHANGED <<source, valid, planVars>>
    ELSE /\ source' = [source EXCEPT ![r] = ok]
         /\ valid' = [valid EXCEPT ![r] = ok]
         /\ NewVersion
-----------------------------------------------------------------------------
(* Answers and timeouts.  They count for valid resolvers only; a timeout is *)
(* taken back when its answer comes late.                                   *)
Forget(r) == events' = [events EXCEPT ![r] = 0]

NoteTimeout(r) ==
    /\ valid[r] /\ events[r] < MinEvents
    /\ events' = [events EXCEPT ![r] = @ + 1]
    /\ UNCHANGED <<source, valid, backup, flagVars, probes, loop, unscanned,
                   accepted, planVars, twice, crossed, meanwhile>>

NoteSuccess(r) ==
    /\ valid[r] /\ events[r] > 0
    /\ Forget(r)
    /\ UNCHANGED <<source, valid, backup, flagVars, probes, loop, unscanned,
                   accepted, planVars, twice, crossed, meanwhile>>
-----------------------------------------------------------------------------
(* The health loop: runResolverAutoDisable collects its candidates, of the  *)
(* resolvers with enough timeouts those whose window is over, then disables *)
(* them one by one, each in three critical sections.                        *)
Eligible == {r \in Resolvers : valid[r] /\ events[r] >= MinEvents}

\* hasStrategy5Reserve
Reserve(r) == policy.weighted /\ \E q \in Resolvers \ {r} : valid[q] /\ backup[q]
\* Mutant: off by one.
CanDisableAtFloor(r) ==
    \/ Cardinality(Active) >= Floor
    \/ valid[r] /\ ~backup[r] /\ Reserve(r)
CanDisable(r) ==
    \/ Cardinality(Active) > Floor
    \/ valid[r] /\ ~backup[r] /\ Reserve(r)

At(from) == loop.at = from

\* What the loop does not see between its decision and SetConnectionValidity.
Meanwhile(change) ==
    meanwhile' = IF At("marked") /\ meanwhile # "scan" THEN change ELSE meanwhile

Collect ==
    /\ At("idle")
    /\ \E S \in SUBSET Eligible :
          /\ S # {}
          /\ Cardinality(S) < Cardinality(Active)   \* else: recover the transport
          /\ loop' = [at |-> "disabling", cands |-> S, r |-> Nobody]
    /\ UNCHANGED <<source, valid, backup, events, flagVars, probes, unscanned,
                   accepted, planVars, twice, crossed, meanwhile>>

Skip ==
    /\ At("disabling")
    /\ \/ loop.cands = {} /\ loop' = AtRest
       \/ \E r \in loop.cands :
             /\ ~(valid[r] /\ CanDisable(r))
             /\ loop' = [loop EXCEPT !.cands = @ \ {r}]
    /\ UNCHANGED <<source, valid, backup, events, flagVars, probes, unscanned,
                   accepted, planVars, twice, crossed, meanwhile>>

MarkDisabled(r) ==
    /\ At("disabling") /\ r \in loop.cands
    /\ valid[r] /\ CanDisable(r)
    /\ loop' = [at |-> "marked", cands |-> loop.cands \ {r}, r |-> r]
    /\ disabled' = disabled \cup {r}
    /\ passed' = [passed EXCEPT ![r] = 0]
    /\ crossed' = crossed \ {r} /\ meanwhile' = "nothing"
    /\ UNCHANGED <<source, valid, backup, events, inFlight, probes, unscanned,
                   accepted, planVars, twice>>

Invalidate ==
    /\ At("marked")
    /\ SetValidity(loop.r, FALSE)
    /\ loop' = [loop EXCEPT !.at = "invalid"]
    /\ meanwhile' = "nothing"
    /\ UNCHANGED <<backup, events, flagVars, probes, unscanned, accepted, twice,
                   crossed>>

FinishDisable ==
    /\ At("invalid")
    /\ loop' = [loop EXCEPT !.at = "disabling", !.r = Nobody]
    /\ disabled' = disabled \cup {loop.r}
    /\ passed' = [passed EXCEPT ![loop.r] = 0]
    /\ Forget(loop.r)
    /\ UNCHANGED <<source, valid, backup, inFlight, probes, unscanned, accepted,
                   planVars, twice, crossed, meanwhile>>

(* runResolverRecheckBatch: a probe for a resolver that is due and has none.*)
StartRecheck(s, r) ==
    /\ At("idle") /\ probes[s] = NoProbe
    /\ ~valid[r] /\ r \notin inFlight
    /\ inFlight' = inFlight \cup {r}
    /\ probes' = [probes EXCEPT ![s] = [key |-> r, at |-> "probing"]]
    /\ twice' = IF \E t \in Slots : probes[t].key = r THEN twice ELSE twice \ {r}
    /\ UNCHANGED <<source, valid, backup, events, disabled, passed, loop,
                   unscanned, accepted, planVars, crossed,
                   meanwhile>>
-----------------------------------------------------------------------------
(* The goroutine of a recheck.                                              *)
Key(s) == probes[s].key
Over(s) == probes' = [probes EXCEPT ![s] = NoProbe]

(* scheduleResolverRecheckFailure                                           *)
RecheckFails(s) ==
    /\ probes[s].at = "probing"
    /\ Over(s)
    /\ inFlight' = inFlight \ {Key(s)}
    /\ passed' = [passed EXCEPT ![Key(s)] = 0]
    /\ UNCHANGED <<source, valid, backup, events, disabled, loop, unscanned,
                   accepted, planVars, twice, crossed, meanwhile>>

Threshold == IF Cardinality(Active) <= Pressure THEN 1 ELSE Successes

(* handleSuccessfulResolverRecheck: counted, and perhaps enough.            *)
RecheckPasses(s) ==
    LET n == IF Key(s) \in disabled THEN passed[Key(s)] + 1 ELSE 0
        enough == Key(s) \notin disabled \/ n >= Threshold
    IN  /\ probes[s].at = "probing"
        /\ IF enough
           THEN /\ probes' = [probes EXCEPT ![s].at = "passed"]
                /\ UNCHANGED <<passed, inFlight>>
           ELSE /\ Over(s)
                /\ passed' = [passed EXCEPT ![Key(s)] = n]
                /\ inFlight' = inFlight \ {Key(s)}
        /\ UNCHANGED <<source, valid, backup, events, disabled, loop, unscanned,
                       accepted, planVars, twice, crossed, meanwhile>>

(* reactivateResolverConnection: nothing when the resolver is valid by now. *)
\* Mutant: the flag of a probe that finds its resolver valid is left set.
ReactivateKeepsFlag(s) ==
    /\ probes[s].at = "passed"
    /\ IF valid[Key(s)]
       THEN Over(s) /\ UNCHANGED <<source, valid, planVars, inFlight, meanwhile>>
       ELSE /\ SetValidity(Key(s), TRUE)
            /\ probes' = [probes EXCEPT ![s].at = "valid"]
            /\ Meanwhile("grew")
            /\ UNCHANGED inFlight
    /\ crossed' = IF loop.r = Key(s) THEN crossed \cup {loop.r} ELSE crossed
    /\ UNCHANGED <<backup, events, disabled, passed, loop, unscanned, accepted,
                   twice>>
Reactivate(s) ==
    /\ probes[s].at = "passed"
    /\ IF valid[Key(s)]
       THEN /\ Over(s) /\ inFlight' = inFlight \ {Key(s)}
            /\ UNCHANGED <<source, valid, planVars, meanwhile>>
       ELSE /\ SetValidity(Key(s), TRUE)
            /\ probes' = [probes EXCEPT ![s].at = "valid"]
            /\ Meanwhile("grew")
            /\ UNCHANGED inFlight
    /\ crossed' = IF loop.r = Key(s) THEN crossed \cup {loop.r} ELSE crossed
    /\ UNCHANGED <<backup, events, disabled, passed, loop, unscanned, accepted,
                   twice>>

FinishReactivation(s) ==
    /\ probes[s].at = "valid"
    /\ Over(s)
    /\ disabled' = disabled \ {Key(s)}
    /\ inFlight' = inFlight \ {Key(s)}
    /\ Forget(Key(s))
    /\ UNCHANGED <<source, valid, backup, passed, loop, unscanned, accepted,
                   planVars, twice, crossed, meanwhile>>
-----------------------------------------------------------------------------
(* The background scan: a worker writes its verdict to the connections; for *)
(* a resolver that is accepted, onValid refreshes the balancer, and then    *)
(* starts the health of every resolver afresh.                              *)
ScanRejects(r) ==
    /\ r \in unscanned
    /\ unscanned' = unscanned \ {r}
    /\ source' = [source EXCEPT ![r] = FALSE]
    /\ UNCHANGED <<valid, backup, events, flagVars, probes, loop, accepted,
                   planVars, twice, crossed, meanwhile>>

ScanAccepts(r) ==
    /\ r \in unscanned
    /\ unscanned' = unscanned \ {r}
    /\ source' = [source EXCEPT ![r] = TRUE]
    /\ accepted' = accepted \cup {[key |-> r, at |-> "refresh"]}
    /\ crossed' = IF loop.r = r THEN crossed \cup {r} ELSE crossed
    /\ UNCHANGED <<valid, backup, events, flagVars, probes, loop, planVars, twice,
                   meanwhile>>

RefreshValidConnections(a) ==
    /\ a \in accepted /\ a.at = "refresh"
    /\ accepted' = (accepted \ {a}) \cup {[a EXCEPT !.at = "init"]}
    /\ valid' = source
    /\ NewVersion
    /\ crossed' = IF loop.r # Nobody /\ source[loop.r] THEN crossed \cup {loop.r}
                  ELSE crossed
    /\ Meanwhile("scan")
    /\ UNCHANGED <<source, backup, events, flagVars, probes, loop, unscanned, twice>>

InitResolverRecheckMeta(a) ==
    /\ a \in accepted /\ a.at = "init"
    /\ accepted' = accepted \ {a}
    /\ events' = [r \in Resolvers |-> 0]
    /\ disabled' = {} /\ inFlight' = {}
    /\ passed' = [r \in Resolvers |-> 0]
    /\ twice' = twice \cup {Key(s) : s \in {t \in Slots : probes[t] # NoProbe}}
    /\ UNCHANGED <<source, valid, backup, probes, loop, unscanned, planVars, crossed,
                   meanwhile>>
-----------------------------------------------------------------------------
(* The plan of duplicates of a stream: selected from one snapshot, cached   *)
(* with the version that is current a moment later.                         *)
SelectPlan ==
    /\ plan = {} /\ choice = {}
    /\ choice' = Active /\ torn' = FALSE
    /\ UNCHANGED <<source, valid, backup, events, flagVars, probes, loop,
                   unscanned, accepted, plan, twice, crossed, meanwhile>>

CachePlan ==
    /\ choice # {}
    /\ plan' = choice /\ choice' = {}
    /\ UNCHANGED <<source, valid, backup, events, flagVars, probes, loop,
                   unscanned, accepted, torn, twice, crossed, meanwhile>>

PoolStep ==
    \/ \E r \in Resolvers :
          \/ NoteTimeout(r) \/ NoteSuccess(r)
          \/ MarkDisabled(r) \/ ScanRejects(r) \/ ScanAccepts(r)
    \/ Collect \/ Skip \/ Invalidate \/ FinishDisable
    \/ \E s \in Slots, r \in Resolvers : StartRecheck(s, r)
    \/ \E s \in Slots :
          RecheckFails(s) \/ RecheckPasses(s) \/ Reactivate(s) \/ FinishReactivation(s)
    \/ \E a \in accepted : RefreshValidConnections(a) \/ InitResolverRecheckMeta(a)
    \/ SelectPlan \/ CachePlan

PoolNext == PoolStep /\ UNCHANGED policy
PoolSpec == PoolInit /\ [][PoolNext]_poolVars
-----------------------------------------------------------------------------
PoolTypeOK ==
    /\ policy \in Policies
    /\ source \in [Resolvers -> BOOLEAN] /\ valid \in [Resolvers -> BOOLEAN]
    /\ backup \in [Resolvers -> BOOLEAN]
    /\ events \in [Resolvers -> 0 .. MinEvents] /\ passed \in [Resolvers -> 0 .. Successes]
    /\ disabled \subseteq Resolvers /\ inFlight \subseteq Resolvers
    /\ probes \in [Slots -> [key : Resolvers, at : {"probing", "passed", "valid"}] \cup {NoProbe}]
    /\ loop \in [at : {"idle", "disabling"}, cands : SUBSET Resolvers, r : {Nobody}]
               \cup [at : {"marked", "invalid"}, cands : SUBSET Resolvers, r : Resolvers]
    /\ unscanned \subseteq Resolvers
    /\ accepted \subseteq [key : Resolvers, at : {"refresh", "init"}]
    /\ plan \subseteq Resolvers /\ choice \subseteq Resolvers /\ torn \in BOOLEAN
    /\ twice \subseteq Resolvers /\ crossed \subseteq Resolvers
    /\ meanwhile \in {"nothing", "grew", "scan"}

\* Probes are accounted for: a resolver marked in flight has a probe that will
\* clear the mark (else it would never be rechecked again), and no two probes
\* of a resolver run at once, but for one whose mark a scan wiped.
ProbesAccounted ==
    /\ \A r \in inFlight : \E s \in Slots : probes[s].key = r
    /\ \A s, t \in Slots :
          s # t /\ Key(s) = Key(t) /\ Key(s) # Nobody => Key(s) \in twice

\* A resolver that counts as active is not held disabled, which would keep it
\* from carrying anything and from being rechecked: only while it is being
\* disabled, reactivated or accepted, or when one of the latter two came in the
\* middle of the first (which takes a scan that wipes the marks).
NotHalfDisabled ==
    \A r \in disabled : valid[r] =>
        \/ loop.r = r \/ r \in crossed
        \/ \E s \in Slots : Key(s) = r /\ probes[s].at = "valid"
        \/ \E a \in accepted : a.at = "init"

\* The plan in use names valid resolvers only, unless the pool changed between
\* its selection and its caching.
PlanCurrent == plan # {} /\ ~torn => \A r \in plan : valid[r]

PoolSound == ProbesAccounted /\ NotHalfDisabled /\ PlanCurrent

\* Disabling never takes the last resolvers: Floor of them stay active, and one
\* where reserves stand by.  Between the decision and the step that carries it
\* out others change the pool: while it only grows, so many resolvers are still
\* valid, but the active ones may be fewer (the first primary that comes back
\* sends all backups into reserve); a refresh by the scan may take any of them.
\* A reserve of the family that the settings exclude counts as one, so that with
\* a single family a valid resolver remains but perhaps no active one.
LeastLeft == IF policy.weighted THEN 1 ELSE Floor
OneFamily == policy.family \in {"ipv4", "ipv6"}
FloorKept ==
    [][At("marked") /\ loop'.at = "invalid" /\ valid' # valid /\ meanwhile # "scan" =>
          /\ Cardinality({r \in Resolvers : valid'[r]}) >= LeastLeft
          /\ meanwhile = "nothing" /\ ~(policy.weighted /\ OneFamily) =>
                Cardinality(ActiveOf(valid')) >= LeastLeft]_poolVars
=============================================================================
