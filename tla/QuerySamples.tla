----------------------------- MODULE QuerySamples -----------------------------
(****************************************************************************)
(* What the client learns from its queries (internal/client/                *)
(* resolver_stats.go): a sample waits for the answer to each query; an      *)
(* answer claims it, and a sample that waits too long counts as a timeout   *)
(* of its resolver, taken back when the answer comes after all.             *)
(*                                                                          *)
(* One resolver and one socket, so a sample is known by its DNS id.  The    *)
(* resolver stays valid; ResolverPool has what its health leads to.         *)
(****************************************************************************)
EXTENDS Integers, FiniteSets

CONSTANTS
    LastQuery,             \* number of queries, sent in order
    DNSIDs,           \* DNS ids, in the order of eviction
    Timings,          \* settings: tunnelPacketTimeout, and autoDisableTimeoutWindow or 0
    LowestTTL, HighestTTL,   \* bounds of resolverSampleTTL
    SoftCap, HardCap, \* resolverPendingSoftCap, resolverPendingHardCap
    IgnoresForged,    \* ResolverIgnoreInjectedNXDOMAIN
    LastMoment        \* bound of the clock

ASSUME QuerySamplesAssumption ==
    /\ LastQuery \in Nat \ {0} /\ DNSIDs \subseteq Nat
    /\ Timings \subseteq [packet : Nat \ {0}, window : Nat]
    /\ LowestTTL \in Nat /\ HighestTTL \in Nat /\ LowestTTL <= HighestTTL
    /\ SoftCap \in Nat \ {0} /\ HardCap \in Nat /\ SoftCap <= HardCap
    /\ IgnoresForged \in BOOLEAN /\ LastMoment \in Nat

Sends == 1 .. LastQuery
Moments == 0 .. LastMoment
Lesser(i, j) == IF i <= j THEN i ELSE j

VARIABLES
    timing,       \* the settings of this client
    moment,       \* the clock
    idOf,         \* DNS id of each query
    sending,      \* "new", "written" to the socket, "tracked"
    sentAt,       \* the writer's clock when it took the query
    samples,      \* resolverPending: the query whose sample has an id, or 0
    overdue,      \* timedOut of the samples
    observed,     \* timeouts that prune found and nobody has noted yet
    claim,        \* of each query's answer: "none", "retract", "credit", "done"
    health,       \* Events of the resolver: how many of each time
    credited, blamed,   \* how often each query counted for and against it
    forgotten     \* queries whose sample gave way to another

sampleVars == <<timing, moment, idOf, sending, sentAt, samples, overdue, observed, claim,
                health, credited, blamed, forgotten>>

RequestTimeout ==
    IF timing.window > 0 THEN Lesser(timing.window, timing.packet) ELSE timing.packet
SampleTTL ==
    Lesser(HighestTTL, IF 3 * timing.packet < LowestTTL THEN LowestTTL ELSE 3 * timing.packet)
LateGrace == Lesser(3 * RequestTimeout, SampleTTL)

SamplesInit ==
    /\ timing \in Timings /\ moment = 0
    /\ idOf \in {f \in [Sends -> DNSIDs] : \A q \in Sends : f[q] <= q}
    /\ sending = [q \in Sends |-> "new"] /\ sentAt = [q \in Sends |-> 0]
    /\ samples = [i \in DNSIDs |-> 0] /\ overdue = {} /\ observed = {}
    /\ claim = [q \in Sends |-> "none"] /\ health = [t \in Moments |-> 0]
    /\ credited = [q \in Sends |-> 0] /\ blamed = [q \in Sends |-> 0]
    /\ forgotten = {}

Sampled(table) == {table[i] : i \in DNSIDs} \ {0}
TimedOutAt(q) == sentAt[q] + RequestTimeout

(* The writer takes a query, and writes it before it tracks it.             *)
Write(q) ==
    /\ sending[q] = "new" /\ \A p \in Sends : p < q => sending[p] # "new"
    /\ sending' = [sending EXCEPT ![q] = "written"]
    /\ sentAt' = [sentAt EXCEPT ![q] = moment]
    /\ UNCHANGED <<moment, idOf, samples, overdue, observed, claim, health, credited,
                   blamed, forgotten>>

(* pruneResolverSamplesLocked, at a time t that may have passed             *)
LateBy(t) == {q \in Sampled(samples) \ overdue : TimedOutAt(q) <= t}
Outlived(t) == {q \in Sampled(samples) :
                   \/ sentAt[q] + SampleTTL < t
                   \/ q \in overdue /\ TimedOutAt(q) + LateGrace <= t}
PrunesQuietly(t) ==
    LET gone == Outlived(t) IN
    [table |-> [i \in DNSIDs |-> IF samples[i] \in gone THEN 0 ELSE samples[i]],
     late |-> (overdue \cup LateBy(t)) \ gone, found |-> LateBy(t) \ gone]
Prunes(t) ==
    LET gone == Outlived(t) IN
    [table |-> [i \in DNSIDs |-> IF samples[i] \in gone THEN 0 ELSE samples[i]],
     late |-> (overdue \cup LateBy(t)) \ gone, found |-> LateBy(t)]

(* evictResolverPendingLocked: who are overdue first, then the oldest       *)
Sooner(i, j, table, late) ==
    LET p == table[i] q == table[j] IN
    \/ p \in late /\ q \notin late
    \/ /\ p \in late <=> q \in late
       /\ sentAt[p] < sentAt[q] \/ (sentAt[p] = sentAt[q] /\ i < j)
Evicted(n, table, late) ==
    {i \in DNSIDs : /\ table[i] # 0
                    /\ Cardinality({j \in DNSIDs : table[j] # 0 /\ Sooner(j, i, table, late)}) < n}
Overflow(table) ==
    LET over == Cardinality(Sampled(table)) - HardCap IN IF over >= 0 THEN over + 1 ELSE 0

(* trackResolverSend: its time is the one the writer took before            *)
Track(q) ==
    LET full == Cardinality(Sampled(samples)) >= SoftCap
        left == IF full THEN Prunes(sentAt[q])
                ELSE [table |-> samples, late |-> overdue, found |-> {}]
        away == Evicted(IF full THEN Overflow(left.table) ELSE 0, left.table, left.late)
    IN /\ sending[q] = "written"
       /\ sending' = [sending EXCEPT ![q] = "tracked"]
       /\ samples' = [i \in DNSIDs |-> IF i = idOf[q] THEN q
                                       ELSE IF i \in away THEN 0 ELSE left.table[i]]
       /\ overdue' = left.late \cap Sampled(samples')
       /\ observed' = observed \cup left.found
       /\ forgotten' = forgotten \cup ({left.table[i] : i \in away \cup {idOf[q]}} \ {0})
       /\ UNCHANGED <<moment, idOf, sentAt, claim, health, credited, blamed>>

(* collectExpiredResolverTimeouts, by the health loop                       *)
Expire ==
    /\ samples' = Prunes(moment).table /\ overdue' = Prunes(moment).late
    /\ observed' = observed \cup Prunes(moment).found
    /\ samples' # samples \/ overdue' # overdue
    /\ UNCHANGED <<moment, idOf, sending, sentAt, claim, health, credited, blamed, forgotten>>

(* pruneResolverHealthLocked                                                *)
InWindow(events) ==
    [t \in Moments |-> IF timing.window > 0 /\ t < moment - timing.window THEN 0 ELSE events[t]]

(* recordResolverHealthEvent of a failure at a time                         *)
Against(q, t) ==
    /\ health' = InWindow([health EXCEPT ![t] = @ + 1])
    /\ blamed' = [blamed EXCEPT ![q] = @ + 1]

(* noteResolverTimeout, after the lock of the samples was given back        *)
NoteTimeouts(q) ==
    /\ q \in observed
    /\ observed' = observed \ {q}
    /\ Against(q, TimedOutAt(q))
    /\ UNCHANGED <<moment, idOf, sending, sentAt, samples, overdue, claim, credited, forgotten>>

(* An answer to a query claims the sample of its id, whose ever it is.      *)
Claims(p) ==
    /\ samples' = [i \in DNSIDs |-> IF samples[i] = p THEN 0 ELSE samples[i]]
    /\ overdue' = overdue \ {p}

(* trackResolverSuccess: the network may answer twice                       *)
AnswerOf(q) ==
    LET p == samples[idOf[q]] IN
    /\ sending[q] # "new" /\ p # 0
    /\ Claims(p)
    /\ claim' = [claim EXCEPT ![p] = IF p \in overdue THEN "retract" ELSE "credit"]
    /\ UNCHANGED <<moment, idOf, sending, sentAt, observed, health, credited, blamed, forgotten>>

(* retractResolverTimeoutEvent                                              *)
Retract(q) ==
    /\ claim[q] = "retract"
    /\ claim' = [claim EXCEPT ![q] = "credit"]
    /\ health' = IF health[TimedOutAt(q)] > 0
                 THEN InWindow([health EXCEPT ![TimedOutAt(q)] = @ - 1]) ELSE health
    /\ UNCHANGED <<moment, idOf, sending, sentAt, samples, overdue, observed, credited,
                   blamed, forgotten>>

(* noteResolverSuccess                                                      *)
Credit(q) ==
    /\ claim[q] = "credit"
    /\ claim' = [claim EXCEPT ![q] = "done"]
    /\ health' = [t \in Moments |-> 0]
    /\ credited' = [credited EXCEPT ![q] = @ + 1]
    /\ UNCHANGED <<moment, idOf, sending, sentAt, samples, overdue, observed, blamed, forgotten>>

(* handleInboundPacket of an error: trackResolverFailure, which a forged    *)
(* NXDOMAIN reaches only when these count                                   *)
ErrorFor(q, forged) ==
    LET p == samples[idOf[q]] IN
    /\ sending[q] # "new" /\ p # 0
    /\ forged => ~IgnoresForged
    /\ Claims(p)
    /\ IF p \in overdue THEN UNCHANGED <<health, blamed>> ELSE Against(p, moment)
    /\ claim' = [claim EXCEPT ![p] = "done"]
    /\ UNCHANGED <<moment, idOf, sending, sentAt, observed, credited, forgotten>>

Pass ==
    /\ moment < LastMoment /\ moment' = moment + 1
    /\ UNCHANGED <<idOf, sending, sentAt, samples, overdue, observed, claim, health,
                   credited, blamed, forgotten>>

SamplesStep ==
    \/ \E q \in Sends :
          \/ Write(q) \/ Track(q) \/ NoteTimeouts(q) \/ AnswerOf(q) \/ Retract(q) \/ Credit(q)
          \/ \E forged \in BOOLEAN : ErrorFor(q, forged)
    \/ Expire \/ Pass

SamplesNext == SamplesStep /\ UNCHANGED timing

SamplesSpec == SamplesInit /\ [][SamplesNext]_sampleVars
-----------------------------------------------------------------------------
SamplesTypeOK ==
    /\ timing \in Timings /\ moment \in Moments /\ idOf \in [Sends -> DNSIDs]
    /\ sending \in [Sends -> {"new", "written", "tracked"}]
    /\ sentAt \in [Sends -> Moments]
    /\ samples \in [DNSIDs -> 0 .. LastQuery]
    /\ overdue \subseteq Sampled(samples) /\ observed \subseteq Sends
    /\ claim \in [Sends -> {"none", "retract", "credit", "done"}]
    /\ health \in [Moments -> 0 .. LastQuery]
    /\ credited \in [Sends -> Nat] /\ blamed \in [Sends -> Nat] /\ forgotten \subseteq Sends

\* A query counts at most once for its resolver and once against it, however
\* often it is answered, late or not.
CountedOnce ==
    \A q \in Sends : credited[q] <= 1 /\ blamed[q] <= 1

\* A packet's timeout may be longer than samples are kept (45 s), and then a
\* sample that grew older than that goes before it could time out.
TooOld(q) == SampleTTL < RequestTimeout /\ sentAt[q] + SampleTTL < moment

\* A query is never left out of account: until its sample is claimed or is a
\* timeout it waits in the table, unless another sample took its place or the
\* settings let it grow too old for that.
SilenceCounts ==
    \A q \in Sends : sending[q] = "tracked" =>
       \/ q \in Sampled(samples) \cup observed \cup forgotten
       \/ credited[q] + blamed[q] > 0 \/ claim[q] # "none"
       \/ TooOld(q)

\* The table keeps to its limit.
SamplesBounded == Cardinality(Sampled(samples)) <= HardCap

SamplesSound == CountedOnce /\ SilenceCounts /\ SamplesBounded
=============================================================================
