------------------------------ MODULE MTUSearch ------------------------------
(****************************************************************************)
(* How the client finds the MTU of a resolver (internal/client/mtu.go): it  *)
(* tries the largest, the smallest, and then bisects; each candidate is     *)
(* probed until its verdict is certain, within a budget of losses.  Any     *)
(* probe may be answered or not: the network need not be monotone.          *)
(****************************************************************************)
EXTENDS Integers

CONSTANTS
    Lowest, Highest,  \* the configured range
    MTUFloor,         \* defaultMTUMinFloor
    Budgets,          \* settings: [samples, allowed] with loss-aware probing,
                      \* samples = 1 for the retries of the other
    Retries           \* mtuTestRetries

ASSUME MTUSearchAssumption ==
    /\ Lowest \in Nat /\ Highest \in Nat /\ MTUFloor \in Nat \ {0}
    /\ Budgets \subseteq [samples : Nat \ {0}, allowed : Nat]
    /\ Retries \in Nat \ {0}

VARIABLES
    budget,
    asking,          \* the candidate under test, 0 when the search is over
    success, failed, \* its probes
    left, right, best,
    verdict          \* history: the verdict of each candidate

searchVars == <<budget, asking, success, failed, left, right, best, verdict>>

NoVerdict == [ok |-> FALSE, success |-> 0, failed |-> 0]
LowEnd == IF Lowest > MTUFloor THEN Lowest ELSE MTUFloor
Candidates == LowEnd .. Highest

SearchInit ==
    /\ budget \in Budgets
    /\ asking = IF Highest < LowEnd THEN 0 ELSE Highest
    /\ success = 0 /\ failed = 0
    /\ left = LowEnd /\ right = Highest /\ best = 0
    /\ verdict = [c \in Candidates |-> NoVerdict]
-----------------------------------------------------------------------------
(* evaluateMTUCandidate stops as soon as more probes cannot change it.      *)
LossAware == budget.samples > 1
\* Mutant: accepted one success too early.
AcceptedEarly(s, f) ==
    IF LossAware
    THEN \/ s >= budget.samples - budget.allowed - 1 /\ s > 0
         \/ f <= budget.allowed /\ s + f = budget.samples
    ELSE s > 0
Accepted(s, f) ==
    IF LossAware
    THEN \/ s >= budget.samples - budget.allowed /\ s > 0
         \/ f <= budget.allowed /\ s + f = budget.samples
    ELSE s > 0
Rejected(s, f) == IF LossAware THEN f > budget.allowed ELSE f >= Retries

(* Where binarySearchMTU goes with the verdict.                             *)
Ask(c) == asking' = c /\ success' = 0 /\ failed' = 0
Bisect(l, r) ==
    /\ left' = l /\ right' = r
    /\ Ask(IF l <= r THEN (l + r) \div 2 ELSE 0)

AfterHighest(ok) ==
    /\ asking = Highest /\ verdict[Highest] = NoVerdict
    /\ IF ok THEN best' = Highest /\ Ask(0)
       ELSE UNCHANGED best /\ Ask(IF LowEnd = Highest THEN 0 ELSE LowEnd)
    /\ UNCHANGED <<left, right>>
AfterLowest(ok) ==
    /\ asking = LowEnd /\ LowEnd # Highest
    /\ IF ok THEN best' = LowEnd /\ Bisect(LowEnd + 1, Highest - 1)
       ELSE UNCHANGED <<best, left, right>> /\ Ask(0)
AfterMiddle(ok) ==
    /\ asking \in (LowEnd + 1) .. (Highest - 1)
    /\ best' = IF ok THEN asking ELSE best
    /\ IF ok THEN Bisect(asking + 1, right) ELSE Bisect(left, asking - 1)

Probe(answered) ==
    LET s == success + (IF answered THEN 1 ELSE 0)
        f == failed + (IF answered THEN 0 ELSE 1)
        Settle(ok) ==
            /\ AfterHighest(ok) \/ AfterLowest(ok) \/ AfterMiddle(ok)
            /\ verdict' = [verdict EXCEPT ![asking] =
                   [ok |-> ok, success |-> s, failed |-> f]]
    IN  /\ asking # 0
        /\ \/ Accepted(s, f) /\ Settle(TRUE)
           \/ Rejected(s, f) /\ Settle(FALSE)
           \/ /\ ~Accepted(s, f) /\ ~Rejected(s, f)
              /\ success' = s /\ failed' = f
              /\ UNCHANGED <<asking, left, right, best, verdict>>
        /\ UNCHANGED budget

(* A probe is answered in time, with its own challenge and in full length,  *)
(* or it counts as lost.                                                    *)
Answers == BOOLEAN
SearchNext == \E answered \in Answers : Probe(answered)
SearchSpec == SearchInit /\ [][SearchNext]_searchVars
-----------------------------------------------------------------------------
SearchTypeOK ==
    /\ budget \in Budgets
    /\ asking \in Candidates \cup {0} /\ best \in Candidates \cup {0}
    /\ success \in Nat /\ failed \in Nat /\ left \in Int /\ right \in Int
    /\ verdict \in [Candidates -> [ok : BOOLEAN, success : Nat, failed : Nat]]

\* A candidate is settled early only when the probes that were not sent could
\* not have changed its verdict, and is not probed on once it is certain.
Settled(c) == verdict[c] # NoVerdict
VerdictCertain ==
    /\ LossAware => \A c \in Candidates : Settled(c) =>
          LET unsent == budget.samples - verdict[c].success - verdict[c].failed
          IN  IF verdict[c].ok THEN verdict[c].failed + unsent <= budget.allowed
              ELSE verdict[c].failed > budget.allowed
    /\ asking # 0 /\ LossAware => success + failed < budget.samples

\* What the search returns was accepted, and the next larger value was not,
\* however the probes went; it returns nothing only when both ends of the range
\* were refused.
SearchSound ==
    /\ best # 0 => best \in Candidates /\ verdict[best].ok
    /\ asking = 0 /\ best # 0 /\ best # Highest =>
           Settled(best + 1) /\ ~verdict[best + 1].ok
    /\ asking = 0 /\ best = 0 /\ Candidates # {} =>
           \A c \in {LowEnd, Highest} : Settled(c) /\ ~verdict[c].ok

MTUFound == VerdictCertain /\ SearchSound
=============================================================================
