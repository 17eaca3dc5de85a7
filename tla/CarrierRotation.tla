---------------------------- MODULE CarrierRotation ----------------------------
(****************************************************************************)
(* The client's choice of the DNS record type of each query (internal/      *)
(* client/carrier_selector.go): it goes round the types that get answers,   *)
(* the faster ones more often, and tries the others again from time to      *)
(* time.  A sender may still hold a type of the rotation before.  One path; *)
(* the paths are independent of each other.                                 *)
(****************************************************************************)
EXTENDS Integers, Sequences, FiniteSets, SequencesExt, Queues

CONSTANTS
    Types,            \* number of record types, at least 2
    MinSamples,       \* carrierMinSamples
    MaxWeight,        \* carrierMaxWeight
    RTTs,             \* response times of each type, as multiples of the floor
    MaxUses           \* bound of the queries of a type between two evaluations

ASSUME CarrierRotationAssumption ==
    /\ Types \in Nat \ {0, 1} /\ MinSamples \in Nat \ {0} /\ MaxWeight \in Nat \ {0}
    /\ \A t \in 1 .. Types : RTTs[t] \in Nat \ {0}
    /\ MaxUses \in Nat

Kinds == 1 .. Types

VARIABLES
    uses, answersOf,  \* sent and success of each type
    rotation,         \* active
    chosen,           \* a type that a sender took from the rotation, or 0
    spurned           \* for how many evaluations a type was not in rotation

carrierVars == <<uses, answersOf, rotation, chosen, spurned>>

CarriersInit ==
    /\ uses = [t \in Kinds |-> 0] /\ answersOf = [t \in Kinds |-> 0]
    /\ rotation = [t \in Kinds |-> t] /\ chosen = 0
    /\ spurned = [t \in Kinds |-> 0]

(* next: the rotation is loaded, at a cursor that all senders move, and     *)
(* then the type counts as used.                                            *)
ChooseType ==
    /\ chosen = 0
    /\ \E n \in DOMAIN rotation : chosen' = rotation[n]
    /\ UNCHANGED <<uses, answersOf, rotation, spurned>>

UseType ==
    /\ chosen # 0 /\ uses[chosen] < MaxUses
    /\ uses' = [uses EXCEPT ![chosen] = @ + 1] /\ chosen' = 0
    /\ UNCHANGED <<answersOf, rotation, spurned>>

(* recordSuccess, of an answer that may be older than the last evaluation   *)
RecordSuccess(t) ==
    /\ answersOf[t] < MaxUses
    /\ answersOf' = [answersOf EXCEPT ![t] = @ + 1]
    /\ UNCHANGED <<uses, rotation, chosen, spurned>>

Mature(t) == uses[t] >= MinSamples
Keep(t) == ~Mature(t) \/ 100 * answersOf[t] >= 15 * uses[t]
KeptTypes == {t \in Kinds : Keep(t)}

\* The score of a mature type is Delivery / Slowness.
Delivery(t) == answersOf[t] + 3
Slowness(t) == (uses[t] + 6) * RTTs[t]
Better(t, u) == Delivery(t) * Slowness(u) > Delivery(u) * Slowness(t)
BestKept == CHOOSE t \in KeptTypes : \A u \in KeptTypes : ~Better(u, t)

\* Rounded; a type that is not mature has a score that no other can reach.
Weight(t) ==
    IF \E u \in KeptTypes : ~Mature(u) THEN 1
    ELSE LET most == Delivery(BestKept) * Slowness(t)
             w == (2 * MaxWeight * Delivery(t) * Slowness(BestKept) + most) \div (2 * most)
         IN IF w < 1 THEN 1 ELSE IF w > MaxWeight THEN MaxWeight ELSE w

\* The best delivery rate, of the first with it; the first type when no type
\* was used.
HigherRate(t, u) == answersOf[t] * uses[u] > answersOf[u] * uses[t]
LeastBad ==
    LET used == {t \in Kinds : uses[t] > 0} IN
    IF used = {} THEN 1
    ELSE CHOOSE t \in used : \A u \in used \ {t} :
            HigherRate(t, u) \/ (~HigherRate(u, t) /\ t < u)

(* A type has as many places in a row as its weight, of MaxWeight there are. *)
TypeSlots == [x \in 1 .. Types * MaxWeight |-> ((x - 1) \div MaxWeight) + 1]
SlotsUsed == {x \in DOMAIN TypeSlots : Keep(TypeSlots[x]) /\ (x - 1) % MaxWeight < Weight(TypeSlots[x])}
NewRotation == IF KeptTypes = {} THEN <<LeastBad>> ELSE PickedAt(TypeSlots, SlotsUsed)

(* evalLocked: the counters fade                                            *)
FadesWhenChosen(count) ==
    [t \in Kinds |-> IF t \in ToSet(rotation) THEN count[t] \div 2 ELSE count[t]]
Fades(count) == [t \in Kinds |-> count[t] \div 2]
Evaluate ==
    /\ uses' = Fades(uses) /\ answersOf' = Fades(answersOf)
    /\ rotation' = NewRotation
    /\ spurned' = [t \in Kinds |-> IF t \in ToSet(NewRotation) THEN 0 ELSE spurned[t] + 1]
    /\ UNCHANGED chosen

CarriersNext ==
    \/ ChooseType \/ UseType \/ Evaluate
    \/ \E t \in Kinds : RecordSuccess(t)

CarriersSpec == CarriersInit /\ [][CarriersNext]_carrierVars
-----------------------------------------------------------------------------
CarriersTypeOK ==
    /\ uses \in [Kinds -> 0 .. MaxUses] /\ answersOf \in [Kinds -> 0 .. MaxUses]
    /\ rotation \in Seq(Kinds) /\ Len(rotation) <= Types * MaxWeight
    /\ chosen \in Kinds \cup {0}

\* Evaluations until a type that is not used falls below MinSamples again.
Fade[n \in Nat] == IF n < MinSamples THEN 0 ELSE 1 + Fade[n \div 2]

\* A type that gets no answers is out of the rotation only for a while, and
\* then it is tried again: no longer than its count takes to fade, and a count
\* more of a sender that took it before.  There is always a type to send with.
TriedAgain ==
    /\ Len(rotation) > 0
    /\ \A t \in Kinds : spurned[t] <= Fade[MaxUses] + 1
=============================================================================
