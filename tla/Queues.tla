------------------------------- MODULE Queues -------------------------------
(****************************************************************************)
(* What a loop over a queue leaves when it keeps some elements in their     *)
(* order: the elements at the positions kept, said without recursion.       *)
(****************************************************************************)
EXTENDS Integers, Sequences, FiniteSets

\* The k-th smallest of a set of positions, and the elements of a queue there.
Rank(i, places) == Cardinality({j \in places : j <= i})
Nth(k, places) == CHOOSE i \in places : Rank(i, places) = k
PickedAt(q, places) == [k \in 1 .. Cardinality(places) |-> q[Nth(k, places)]]

\* The numbers of a set, ascending.
Ascending(S) == [k \in 1 .. Cardinality(S) |-> Nth(k, S)]
=============================================================================
