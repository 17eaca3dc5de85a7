------------------------------- MODULE DoHGate -------------------------------
(****************************************************************************)
(* The admission of DNS-over-HTTPS requests (internal/udpserver/            *)
(* server_doh.go, server_doh_limit.go): a token bucket per client address,  *)
(* a bounded number of requests at a time, and a bound on the memory of     *)
(* their bodies, which is kept by compare-and-swap.                         *)
(*                                                                          *)
(* Every request has a goroutine of its own.  Time is counted in ticks.     *)
(****************************************************************************)
EXTENDS Integers, FiniteSets

CONSTANTS
    Requests,      \* requests that may be under way
    Clients,       \* addresses they come from
    Rate,          \* tokens per tick
    Burst,
    ForgetAfter,   \* ticks after which a bucket is dropped
    SweepEvery,    \* ticks between two looks for such buckets
    MaxBuckets,    \* maxDoHRateLimiterStates
    MaxInflight,
    BodyLimit,     \* bytes reserved for one request
    MaxBytes,      \* the limit of the byte gate
    LastTick       \* bound

ASSUME DoHGateAssumption ==
    /\ IsFiniteSet(Requests)
    /\ Rate \in Nat \ {0} /\ Burst \in Nat \ {0}
    /\ ForgetAfter \in Nat /\ Burst <= Rate * ForgetAfter
    /\ SweepEvery \in Nat /\ MaxBuckets \in Nat /\ MaxInflight \in Nat
    /\ BodyLimit \in Nat \ {0} /\ MaxBytes \in Nat /\ MaxBytes >= BodyLimit

VARIABLES
    clock,
    buckets,     \* states: tokens, last and seen, of the clients known
    sweptAt,     \* lastGC
    granted,     \* history: requests let through, per client
    place,       \* of each request: "none", "gate", "load", "swap", "handle"
    read,        \* the value of `used' that the request has read
    gate,        \* requests in the gate
    used         \* bytes reserved

gateVars == <<clock, buckets, sweptAt, granted, place, read, gate, used>>

GateInit ==
    /\ clock = 0 /\ buckets = <<>> /\ sweptAt = -1
    /\ granted = [k \in Clients |-> 0]
    /\ place = [r \in Requests |-> "none"]
    /\ read = [r \in Requests |-> 0]
    /\ gate = 0 /\ used = 0

Walks(r, from, to) == place[r] = from /\ place' = [place EXCEPT ![r] = to]
-----------------------------------------------------------------------------
(* allow, under the limiter's lock.                                         *)
SweepNow == sweptAt < 0 \/ clock - sweptAt >= SweepEvery
\* Mutant: a bucket is dropped as soon as it was not used for a tick.
ForgottenSoon(k) == buckets[k].seen < clock
Forgotten(k) == buckets[k].seen < clock - ForgetAfter

KeptBuckets ==
    IF SweepNow THEN {k \in DOMAIN buckets : ~Forgotten(k)} ELSE DOMAIN buckets

Refilled(k, kept) ==
    IF k \notin kept THEN Burst
    ELSE LET n == buckets[k].tokens + Rate * (clock - buckets[k].last)
         IN  IF n > Burst THEN Burst ELSE n

Allow(r, k) ==
    LET kept == KeptBuckets
        full == k \notin kept /\ Cardinality(kept) >= MaxBuckets
        n == Refilled(k, kept)
        ok == ~full /\ n >= 1
        bucket == [tokens |-> IF ok THEN n - 1 ELSE n, last |-> clock, seen |-> clock]
    IN  /\ IF ok THEN Walks(r, "none", "gate")
           ELSE place[r] = "none" /\ UNCHANGED place
        /\ buckets' = IF full THEN [j \in kept |-> buckets[j]]
                      ELSE [j \in kept \cup {k} |-> IF j = k THEN bucket ELSE buckets[j]]
        /\ sweptAt' = IF SweepNow THEN clock ELSE sweptAt
        /\ granted' = IF ok THEN [granted EXCEPT ![k] = @ + 1] ELSE granted
        /\ UNCHANGED <<clock, read, gate, used>>

EnterGate(r) ==
    /\ IF gate < MaxInflight THEN gate' = gate + 1 /\ Walks(r, "gate", "load")
       ELSE Walks(r, "gate", "none") /\ UNCHANGED gate
    /\ UNCHANGED <<clock, buckets, sweptAt, granted, read, used>>

(* The byte gate: a load, and a swap that fails when the value has changed. *)
LoadBytes(r) ==
    /\ IF used > MaxBytes - BodyLimit
       THEN Walks(r, "load", "none") /\ gate' = gate - 1 /\ UNCHANGED read
       ELSE /\ Walks(r, "load", "swap")
            /\ read' = [read EXCEPT ![r] = used] /\ UNCHANGED gate
    /\ UNCHANGED <<clock, buckets, sweptAt, granted, used>>

SwapBytes(r) ==
    /\ IF used = read[r]
       THEN used' = read[r] + BodyLimit /\ Walks(r, "swap", "handle")
       ELSE Walks(r, "swap", "load") /\ UNCHANGED used
    /\ read' = [read EXCEPT ![r] = 0]
    /\ UNCHANGED <<clock, buckets, sweptAt, granted, gate>>

(* The handler returns, or panics: bytes are given back, then the place.    *)
ReleaseBytes(r) ==
    /\ Walks(r, "handle", "leave")
    /\ used' = used - BodyLimit
    /\ UNCHANGED <<clock, buckets, sweptAt, granted, read, gate>>

LeaveGate(r) ==
    /\ Walks(r, "leave", "none")
    /\ gate' = gate - 1
    /\ UNCHANGED <<clock, buckets, sweptAt, granted, read, used>>

ClockTicks ==
    /\ clock < LastTick /\ clock' = clock + 1
    /\ UNCHANGED <<buckets, sweptAt, granted, place, read, gate, used>>

GateNext ==
    \/ \E r \in Requests :
          \/ \E k \in Clients : Allow(r, k)
          \/ EnterGate(r) \/ LoadBytes(r) \/ SwapBytes(r) \/ ReleaseBytes(r) \/ LeaveGate(r)
    \/ ClockTicks
-----------------------------------------------------------------------------
\* A client gets no more than its burst and what its rate adds, although
\* its bucket is dropped when it was idle for long and starts full again.
RateKept == \A k \in Clients : granted[k] <= Burst + Rate * clock

\* Concurrent requests never reserve more memory than the gate has, and the
\* gates count exactly the requests that hold a part of them.
BytesKept ==
    /\ used <= MaxBytes
    /\ used = BodyLimit * Cardinality({r \in Requests : place[r] = "handle"})
    /\ gate = Cardinality({r \in Requests : place[r] \in {"load", "swap", "handle", "leave"}})
    /\ gate <= MaxInflight

GateSound == RateKept /\ BytesKept
=============================================================================
