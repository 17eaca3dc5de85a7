----------------------------- MODULE DNSResolve -----------------------------
(****************************************************************************)
(* How the server answers the DNS queries that come through the tunnel      *)
(* (internal/udpserver/dns_tunnel.go, internal/inflight/manager.go).  Of    *)
(* the queries for one question the first becomes the leader, asks the      *)
(* upstream servers and hands its answer to those that wait for its entry.  *)
(* The leader asks the best upstream server first and the rest when that    *)
(* fails or is slow.                                                        *)
(*                                                                          *)
(* An entry grows too old at any time: its age limit and the time that an   *)
(* upstream server may take (UDP, then TCP) are settings of their own.      *)
(****************************************************************************)
EXTENDS Integers, FiniteSets

CONSTANTS
    Queries,        \* queries with the same question, on the workers
    Upstreams,      \* dnsUpstreamServers
    ColdAfter,      \* failures in a row until an upstream server cools down: 2
    NoLead          \* not a query

ASSUME DNSResolveAssumption ==
    /\ Upstreams # {} /\ IsFiniteSet(Upstreams) /\ ColdAfter \in Nat \ {0}
    /\ NoLead \notin Queries

VARIABLES
    at,        \* where each query is
    answered,  \* what it answered: "none", "answer", "failure"
    answerKept,\* whether the cache has the answer
    entry,     \* the query that leads the entry in the map, NoLead for none
    old,       \* whether that entry is as old as the limit
    entryOf,   \* the entry that a query waits for, or leads
    ready,     \* entry -> "open", "value", "empty"
    race,      \* of a leader: [first, asked, failed, late]
    failures,  \* upstream -> consecutiveFailures, up to ColdAfter
    cooling,   \* the upstream servers before their cooldownUntil
    fast,      \* those of the smaller ewmaLatency
    replaced,  \* history: entries that left the map before their leader was done
    taken      \* history: entries resolved by the leader of another

resolveVars == <<at, answered, answerKept, entry, old, entryOf, ready, race,
                 failures, cooling, fast, replaced, taken>>
healthVars == <<failures, cooling, fast>>

NoRace == [first |-> "none", asked |-> {}, failed |-> {}, late |-> FALSE]

ResolveInit ==
    /\ at = [q \in Queries |-> "new"] /\ answered = [q \in Queries |-> "none"]
    /\ answerKept = FALSE /\ entry = NoLead /\ old = FALSE
    /\ entryOf = [q \in Queries |-> NoLead]
    /\ ready = [q \in Queries |-> "open"]
    /\ race = [q \in Queries |-> NoRace]
    /\ failures = [u \in Upstreams |-> 0] /\ cooling = {}
    /\ fast \in {{u} : u \in Upstreams}
    /\ replaced = {} /\ taken = {}
-----------------------------------------------------------------------------
Ends(q, what) ==
    at' = [at EXCEPT ![q] = "done"] /\ answered' = [answered EXCEPT ![q] = what]

(* The cache is looked at before the map of entries.                        *)
LooksUp(q) ==
    /\ at[q] = "new"
    /\ IF answerKept THEN Ends(q, "answer")
       ELSE at' = [at EXCEPT ![q] = "acquire"] /\ UNCHANGED answered
    /\ UNCHANGED <<answerKept, entry, old, entryOf, ready, race, healthVars, replaced, taken>>

(* Acquire: a new entry, for an entry that is gone or too old.              *)
Acquire(q) ==
    /\ at[q] = "acquire"
    /\ IF entry # NoLead /\ ~old
       THEN /\ entryOf' = [entryOf EXCEPT ![q] = entry]
            /\ at' = [at EXCEPT ![q] = "waiting"] /\ UNCHANGED <<entry, old, replaced>>
       ELSE /\ entryOf' = [entryOf EXCEPT ![q] = q]
            /\ at' = [at EXCEPT ![q] = "order"]
            /\ entry' = q /\ old' = FALSE
            /\ replaced' = replaced \cup ({entry} \ {NoLead})
    /\ UNCHANGED <<answered, answerKept, ready, race, healthVars, taken>>

GrowsOld ==
    /\ entry # NoLead /\ ~old /\ old' = TRUE
    /\ UNCHANGED <<at, answered, answerKept, entry, entryOf, ready, race, healthVars, replaced, taken>>

(* Acquire for another question cleans up.                                  *)
CleansUp ==
    /\ old /\ entry' = NoLead /\ old' = FALSE
    /\ replaced' = replaced \cup {entry}
    /\ UNCHANGED <<at, answered, answerKept, entryOf, ready, race, healthVars, taken>>
-----------------------------------------------------------------------------
(* orderedDNSUpstreams.                                                     *)
Before(u, v) ==
    \/ u \notin cooling /\ v \in cooling
    \/ /\ u \in cooling <=> v \in cooling
       /\ \/ failures[u] < failures[v]
          \/ failures[u] = failures[v] /\ u \in fast /\ v \notin fast
Best == {u \in Upstreams : \A v \in Upstreams : ~Before(v, u)}

AsksFirst(q) ==
    /\ at[q] = "order"
    /\ \E u \in Best :
          race' = [race EXCEPT ![q] = [NoRace EXCEPT !.first = u, !.asked = {u}]]
    /\ at' = [at EXCEPT ![q] = "resolving"]
    /\ UNCHANGED <<answered, answerKept, entry, old, entryOf, ready, healthVars, replaced, taken>>

Hedged(q) == race[q].asked = Upstreams

(* The timer of the hedge; a lone upstream server has none.                 *)
Hedge(q) ==
    /\ at[q] = "resolving" /\ ~Hedged(q)
    /\ race' = [race EXCEPT ![q].asked = Upstreams]
    /\ UNCHANGED <<at, answered, answerKept, entry, old, entryOf, ready, healthVars, replaced, taken>>

(* recordDNSUpstreamResult, also of an answer that comes after the race.    *)
Noted(u, ok) ==
    IF ok THEN /\ failures' = [failures EXCEPT ![u] = 0]
               /\ cooling' = cooling \ {u}
               /\ fast' \in {fast, fast \cup {u}, fast \ {u}}
    ELSE LET n == IF failures[u] < ColdAfter THEN failures[u] + 1 ELSE ColdAfter
         IN  /\ failures' = [failures EXCEPT ![u] = n]
             /\ cooling' = IF n = ColdAfter THEN cooling \cup {u} ELSE cooling
             /\ UNCHANGED fast

UpstreamFails(q, u) ==
    LET lost == race[q].failed \cup {u}
    IN  /\ race' = [race EXCEPT ![q].failed = lost, ![q].asked = Upstreams]
        /\ at' = [at EXCEPT ![q] = IF lost = Upstreams THEN "failed" ELSE @]

UpstreamReports(q, u, ok) ==
    /\ u \in race[q].asked \ race[q].failed
    /\ Noted(u, ok)
    /\ IF at[q] # "resolving"
       THEN race' = [race EXCEPT ![q].failed = @ \cup {u}] /\ UNCHANGED at
       ELSE IF ok
       THEN /\ race' = [race EXCEPT ![q].failed = @ \cup {u}]
            /\ at' = [at EXCEPT ![q] = "resolved"]
       ELSE UpstreamFails(q, u)
    /\ UNCHANGED <<answered, answerKept, entry, old, entryOf, ready, replaced, taken>>

(* The deadline is that of the race; a lone upstream server is waited for.  *)
Deadline(q) ==
    /\ at[q] = "resolving" /\ Cardinality(Upstreams) > 1
    /\ at' = [at EXCEPT ![q] = "failed"]
    /\ race' = [race EXCEPT ![q].late = TRUE]
    /\ UNCHANGED <<answered, answerKept, entry, old, entryOf, ready, healthVars, replaced, taken>>

CoolsOff(u) ==
    /\ u \in cooling /\ cooling' = cooling \ {u}
    /\ UNCHANGED <<at, answered, answerKept, entry, old, entryOf, ready, race, failures, fast,
                   replaced, taken>>
-----------------------------------------------------------------------------
(* Resolve takes the entry that is in the map, whoever leads it.            *)
Resolve(q) ==
    /\ at[q] \in {"resolved", "failed"}
    /\ entry' = NoLead /\ old' = FALSE
    /\ ready' = IF entry = NoLead THEN ready
                ELSE [ready EXCEPT ![entry] = IF at[q] = "resolved" THEN "value" ELSE "empty"]
    /\ taken' = taken \cup ({entry} \ {NoLead, q})
    /\ IF at[q] = "resolved"
       THEN at' = [at EXCEPT ![q] = "keep"] /\ UNCHANGED answered
       ELSE Ends(q, "failure")
    /\ UNCHANGED <<answerKept, entryOf, race, healthVars, replaced>>

Keeps(q) ==
    /\ at[q] = "keep" /\ answerKept' = TRUE /\ Ends(q, "answer")
    /\ UNCHANGED <<entry, old, entryOf, ready, race, healthVars, replaced, taken>>

(* A follower wakes up, or has waited long enough.                          *)
Wakes(q) ==
    /\ at[q] = "waiting"
    /\ IF ready[entryOf[q]] = "value" THEN Ends(q, "answer")
       ELSE at' = [at EXCEPT ![q] = "second_look"] /\ UNCHANGED answered
    /\ UNCHANGED <<answerKept, entry, old, entryOf, ready, race, healthVars, replaced, taken>>

LooksAgain(q) ==
    /\ at[q] = "second_look"
    /\ Ends(q, IF answerKept THEN "answer" ELSE "failure")
    /\ UNCHANGED <<answerKept, entry, old, entryOf, ready, race, healthVars, replaced, taken>>

(* The answer is evicted from the cache, or expires.                        *)
Dropped ==
    /\ answerKept /\ answerKept' = FALSE
    /\ UNCHANGED <<at, answered, entry, old, entryOf, ready, race, healthVars, replaced, taken>>

ResolveNext ==
    \/ \E q \in Queries :
          \/ LooksUp(q) \/ Acquire(q) \/ AsksFirst(q) \/ Hedge(q) \/ Deadline(q)
          \/ Resolve(q) \/ Keeps(q) \/ Wakes(q) \/ LooksAgain(q)
          \/ \E u \in Upstreams, ok \in BOOLEAN : UpstreamReports(q, u, ok)
    \/ \E u \in Upstreams : CoolsOff(u)
    \/ GrowsOld \/ CleansUp \/ Dropped

ResolveSpec == ResolveInit /\ [][ResolveNext]_resolveVars
-----------------------------------------------------------------------------
Leading(q) == at[q] \in {"order", "resolving", "resolved", "failed"}

ResolveTypeOK ==
    /\ at \in [Queries -> {"new", "acquire", "waiting", "second_look", "order", "resolving",
                          "resolved", "failed", "keep", "done"}]
    /\ answered \in [Queries -> {"none", "answer", "failure"}] /\ answerKept \in BOOLEAN
    /\ entry \in Queries \cup {NoLead} /\ old \in BOOLEAN
    /\ entryOf \in [Queries -> Queries \cup {NoLead}]
    /\ ready \in [Queries -> {"open", "value", "empty"}]
    /\ race \in [Queries -> [first : Upstreams \cup {"none"}, asked : SUBSET Upstreams,
                             failed : SUBSET Upstreams, late : BOOLEAN]]
    /\ failures \in [Upstreams -> 0 .. ColdAfter]
    /\ cooling \subseteq Upstreams /\ fast \subseteq Upstreams
    /\ replaced \subseteq Queries /\ taken \subseteq Queries

\* An entry is resolved when its leader is done, not before and not later, and
\* tells those that wait what the leader found; but one that grew too old is
\* never resolved for those that wait for it, and its leader resolves the entry
\* that took its place.
EntryResolved ==
    \A q \in Queries : entryOf[q] = q =>
        /\ ready[q] = "open" => Leading(q) \/ q \in replaced \cup taken
        /\ ready[q] # "open" /\ q \notin taken =>
              /\ ~Leading(q)
              /\ (ready[q] = "empty") <=> (answered[q] = "failure")

\* One leader at a time has an entry that did not grow too old.
OneLeader ==
    Cardinality({q \in Queries : entryOf[q] = q /\ Leading(q)} \ (replaced \cup taken)) <= 1

\* A leader gives up only when every upstream server was asked and failed, or
\* the time was up.
FailureJust ==
    \A q \in Queries : entryOf[q] = q /\ answered[q] = "failure" =>
        race[q].late \/ race[q].failed = Upstreams

ResolveSound == EntryResolved /\ OneLeader /\ FailureJust
=============================================================================
