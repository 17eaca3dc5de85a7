----------------------------- MODULE QueuesProofs -----------------------------
(****************************************************************************)
(* Facts about numbers and queues that several proofs need: counting, and   *)
(* what a loop leaves of a queue (Queues), with no induction over sequences *)
(* but a bijection between the positions of the result and those kept.      *)
(****************************************************************************)
EXTENDS Queues, SequencesExt, SequenceTheorems, FiniteSetTheorems, WellFoundedInduction, TLAPS

-----------------------------------------------------------------------------
\* A set of naturals has a least element.
LEMMA LeastOf ==
    ASSUME NEW S \in SUBSET Nat, S # {}
    PROVE  \E n \in S : \A m \in S : n <= m
<1>1. PICK n \in S : \A m \in S : ~ (<<m, n>> \in OpToRel(<, Nat))
  BY NatLessThanWellFounded, WFMin
<1>2. \A m \in S : ~ (m < n)
  BY <1>1 DEF OpToRel
<1> QED
  BY <1>2

\* The least of a set of naturals is one of them.
LEMMA LeastSize ==
    ASSUME NEW S \in SUBSET Nat, S # {}
    PROVE  Min(S) \in S /\ \A y \in S : Min(S) <= y
<1>1. \E n \in S : \A m \in S : n <= m
  BY LeastOf
<1> QED
  BY <1>1 DEF Min

\* The first n positions are n in number.
LEMMA CountTo ==
    ASSUME NEW n \in Nat
    PROVE  IsFiniteSet(1 .. n) /\ Cardinality(1 .. n) = n
<1>1. 1 \in Int /\ n \in Int
  OBVIOUS
<1>2. /\ IsFiniteSet(1 .. n)
      /\ Cardinality(1 .. n) = IF 1 > n THEN 0 ELSE n - 1 + 1
  BY <1>1, FS_Interval
<1> QED
  BY <1>2

\* The elements of a finite set of numbers are numbered through: each number up to
\* the size of the set is the rank of exactly one.
LEMMA RanksOf ==
    ASSUME NEW I \in SUBSET Int, IsFiniteSet(I)
    PROVE  /\ Cardinality(I) \in Nat
           /\ \A k \in 1 .. Cardinality(I) : \E i \in I : Rank(i, I) = k
           /\ \A i \in I : Rank(i, I) \in 1 .. Cardinality(I)
           /\ \A i, k \in I : Rank(i, I) = Rank(k, I) => i = k
<1> DEFINE B(i) == {j \in I : j <= i}
           N == Cardinality(I)
           f == [i \in I |-> Cardinality(B(i))]
<1>1. N \in Nat
  BY FS_CardinalityType
<1>2. \A i \in I : IsFiniteSet(B(i)) /\ Cardinality(B(i)) \in Nat
  BY FS_Subset, FS_CardinalityType
<1>3. \A i \in I : Cardinality(B(i)) \in 1 .. N
  <2> TAKE i \in I
  <2>1. Cardinality(B(i)) <= N
    BY FS_Subset
  <2>2. i \in B(i)
    OBVIOUS
  <2>3. Cardinality(B(i)) # 0
    BY <1>2, <2>2, FS_EmptySet
  <2> HIDE DEF B, N
  <2> QED
    BY <1>1, <1>2, <2>1, <2>3
<1>4. ASSUME NEW i \in I, NEW k \in I, i < k
      PROVE  Cardinality(B(i)) # Cardinality(B(k))
  <2>1. B(i) \in SUBSET B(k) /\ k \in B(k) /\ k \notin B(i)
    <3>1. i \in Int /\ k \in Int /\ ~ (k <= i)
      BY <1>4
    <3>2. \A j \in I : j \in Int /\ (j <= i => j <= k)
      BY <3>1, <1>4
    <3>3. k <= k
      BY <3>1
    <3>4. B(i) \in SUBSET B(k)
      BY <3>2
    <3> QED
      BY <3>1, <3>3, <3>4
  <2> QED
    BY <1>2, <2>1, FS_Subset
<1>5. \A i, k \in I : Cardinality(B(i)) = Cardinality(B(k)) => i = k
  <2> TAKE i, k \in I
  <2>1. i \in Int /\ k \in Int
    OBVIOUS
  <2> QED
    BY <1>4, <2>1
<1>6. f \in Injection(I, 1 .. N)
  <2> HIDE DEF B, N
  <2> QED
    BY <1>3, <1>5 DEF Injection, IsInjective
<1>7. IsFiniteSet(1 .. N) /\ Cardinality(1 .. N) = N
  BY <1>1, CountTo
<1>8. f \in Surjection(I, 1 .. N)
  BY <1>6, <1>7, FS_Injection
<1>9. \A k \in 1 .. N : \E i \in I : Cardinality(B(i)) = k
  <2> HIDE DEF B, N
  <2> QED
    BY <1>8 DEF Surjection
<1> QED
  BY <1>1, <1>3, <1>5, <1>9 DEF Rank

\* What finitely many have is finite.
LEMMA ImageFinite ==
    ASSUME NEW S, IsFiniteSet(S), NEW f, DOMAIN f = S
    PROVE  IsFiniteSet({f[x] : x \in S})
<1> DEFINE I == {f[x] : x \in S}
           g == [x \in S |-> f[x]]
<1>1. g \in Surjection(S, I)
  BY DEF Surjection
<1> QED
  BY <1>1, FS_Surjection

\* Of finitely many there is one with the most of something.
LEMMA MostOf ==
    ASSUME NEW S, IsFiniteSet(S), S # {}, NEW f \in [S -> Int]
    PROVE  \E x \in S : \A y \in S : f[y] <= f[x]
<1> DEFINE I == {f[x] : x \in S}
<1>1. I \in SUBSET Int /\ I # {}
  OBVIOUS
<1>2. IsFiniteSet(I)
  BY ImageFinite
<1>3. Cardinality(I) \in Nat /\ Cardinality(I) # 0
  BY <1>1, <1>2, FS_CardinalityType, FS_EmptySet
<1> HIDE DEF I
<1>4. PICK i \in I : Rank(i, I) = Cardinality(I)
  BY <1>1, <1>2, <1>3, RanksOf
<1>5. {j \in I : j <= i} = I
  BY <1>2, <1>4, FS_Subset DEF Rank
<1>6. \A j \in I : j <= i
  BY <1>5
<1> QED
  BY <1>4, <1>6 DEF I

\* So a finite set of numbers is listed in ascending order.
LEMMA NthProperties ==
    ASSUME NEW I \in SUBSET Int, IsFiniteSet(I)
    PROVE  /\ \A k \in 1 .. Cardinality(I) : Nth(k, I) \in I /\ Rank(Nth(k, I), I) = k
           /\ [k \in 1 .. Cardinality(I) |-> Nth(k, I)] \in Bijection(1 .. Cardinality(I), I)
<1> DEFINE from == [k \in 1 .. Cardinality(I) |-> Nth(k, I)]
<1>1. \A k \in 1 .. Cardinality(I) : Nth(k, I) \in I /\ Rank(Nth(k, I), I) = k
  BY RanksOf DEF Nth
<1>2. from \in [1 .. Cardinality(I) -> I]
  BY <1>1
<1>3. IsInjective(from)
  BY <1>1 DEF IsInjective
<1>4. \A i \in I : \E k \in 1 .. Cardinality(I) : from[k] = i
  <2> TAKE i \in I
  <2>1. Rank(i, I) \in 1 .. Cardinality(I)
    BY RanksOf
  <2>2. Nth(Rank(i, I), I) \in I /\ Rank(Nth(Rank(i, I), I), I) = Rank(i, I)
    BY <1>1, <2>1
  <2>3. \A a, b \in I : Rank(a, I) = Rank(b, I) => a = b
    BY RanksOf
  <2>4. Nth(Rank(i, I), I) = i
    BY <2>2, <2>3
  <2> QED
    BY <2>1, <2>4
<1> HIDE DEF from
<1>5. from \in Bijection(1 .. Cardinality(I), I)
  BY <1>2, <1>3, <1>4 DEF Bijection, Injection, Surjection
<1> QED
  BY <1>1, <1>5 DEF from

\* What is picked at some positions of a queue are the elements there, each as
\* often as it was there.
LEMMA PickedProperties ==
    ASSUME NEW T, NEW q \in Seq(T), NEW I \in SUBSET (1 .. Len(q))
    PROVE  /\ IsFiniteSet(I) /\ Cardinality(I) \in Nat /\ Cardinality(I) <= Len(q)
           /\ PickedAt(q, I) \in Seq(T) /\ Len(PickedAt(q, I)) = Cardinality(I)
           /\ \E from \in Bijection(1 .. Len(PickedAt(q, I)), I) :
                 \A k \in 1 .. Len(PickedAt(q, I)) : PickedAt(q, I)[k] = q[from[k]]
<1> DEFINE from == [k \in 1 .. Cardinality(I) |-> Nth(k, I)]
<1>1. Len(q) \in Nat /\ I \in SUBSET Int
  BY LenProperties
<1>2. /\ IsFiniteSet(I) /\ Cardinality(I) \in Nat
      /\ Cardinality(I) <= Len(q)
  <2>1. IsFiniteSet(1 .. Len(q)) /\ Cardinality(1 .. Len(q)) = Len(q)
    BY <1>1, CountTo
  <2> QED
    BY <1>1, <2>1, FS_Subset, FS_CardinalityType
<1>3. PickedAt(q, I) = [k \in 1 .. Cardinality(I) |-> q[from[k]]]
  BY DEF PickedAt
<1>4. from \in Bijection(1 .. Cardinality(I), I) /\ \A k \in 1 .. Cardinality(I) : from[k] \in I
  BY <1>1, <1>2, NthProperties
<1>5. \A k \in 1 .. Cardinality(I) : q[from[k]] \in T
  BY <1>1, <1>4, ElementOfSeq
<1> HIDE DEF from
<1>6. PickedAt(q, I) \in Seq(T) /\ Len(PickedAt(q, I)) = Cardinality(I)
  BY <1>2, <1>3, <1>5
<1> QED
  BY <1>2, <1>3, <1>4, <1>6

\* What is picked from a queue without repetitions has none either.
LEMMA PickedOnce ==
    ASSUME NEW T, NEW q \in Seq(T), IsInjective(q), NEW I \in SUBSET (1 .. Len(q))
    PROVE  LET w == PickedAt(q, I)
           IN  /\ w \in Seq(T) /\ IsInjective(w) /\ Len(w) <= Len(q)
               /\ ToSet(w) = {q[i] : i \in I}
<1> DEFINE w == PickedAt(q, I)
<1>1. /\ w \in Seq(T) /\ Len(w) <= Len(q) /\ Len(w) \in Nat
      /\ \E f \in Bijection(1 .. Len(w), I) : \A k \in 1 .. Len(w) : w[k] = q[f[k]]
  BY PickedProperties
<1> HIDE DEF w
<1>2. PICK f \in Bijection(1 .. Len(w), I) : \A k \in 1 .. Len(w) : w[k] = q[f[k]]
  BY <1>1
<1>3. /\ \A k \in 1 .. Len(w) : f[k] \in I
      /\ \A k, m \in 1 .. Len(w) : f[k] = f[m] => k = m
      /\ \A i \in I : \E k \in 1 .. Len(w) : f[k] = i
  BY <1>2 DEF Bijection, Injection, Surjection, IsInjective
<1>4. DOMAIN w = 1 .. Len(w) /\ DOMAIN q = 1 .. Len(q)
  BY <1>1
<1>5. IsInjective(w)
  <2>1. \A i, j \in 1 .. Len(q) : q[i] = q[j] => i = j
    BY <1>4 DEF IsInjective
  <2>2. \A k, m \in 1 .. Len(w) : w[k] = w[m] => k = m
    <3> TAKE k, m \in 1 .. Len(w)
    <3>1. w[k] = q[f[k]] /\ w[m] = q[f[m]] /\ f[k] \in 1 .. Len(q) /\ f[m] \in 1 .. Len(q)
      BY <1>2, <1>3
    <3>2. w[k] = w[m] => f[k] = f[m]
      BY <2>1, <3>1
    <3>3. f[k] = f[m] => k = m
      BY <1>3
    <3> QED
      BY <3>2, <3>3
  <2> QED
    BY <2>2, <1>4 DEF IsInjective
<1>6. ToSet(w) = {q[i] : i \in I}
  <2>1. ToSet(w) = {w[k] : k \in 1 .. Len(w)}
    BY <1>4 DEF ToSet
  <2>2. \A k \in 1 .. Len(w) : w[k] \in {q[i] : i \in I}
    BY <1>2, <1>3
  <2>3. \A i \in I : \E k \in 1 .. Len(w) : w[k] = q[i]
    BY <1>2, <1>3
  <2> QED
    BY <2>1, <2>2, <2>3
<1> QED
  BY <1>1, <1>5, <1>6 DEF w

\* A queue without repetitions is as long as it has elements.
LEMMA LengthOfOnce ==
    ASSUME NEW T, NEW q \in Seq(T), IsInjective(q)
    PROVE  IsFiniteSet(ToSet(q)) /\ Cardinality(ToSet(q)) = Len(q)
<1>1. Len(q) \in Nat /\ DOMAIN q = 1 .. Len(q) /\ q = [i \in 1 .. Len(q) |-> q[i]]
  OBVIOUS
<1>2. q \in Bijection(1 .. Len(q), ToSet(q))
  BY <1>1 DEF Bijection, Injection, Surjection, IsInjective, ToSet
<1>3. IsFiniteSet(1 .. Len(q)) /\ Cardinality(1 .. Len(q)) = Len(q)
  BY <1>1, CountTo
<1> QED
  BY <1>2, <1>3, FS_Bijection DEF ExistsBijection

\* The number of elements of a sequence is at most its length.
LEMMA LengthOfAny ==
    ASSUME NEW T, NEW q \in Seq(T)
    PROVE  IsFiniteSet(ToSet(q)) /\ Cardinality(ToSet(q)) <= Len(q)
<1>1. Len(q) \in Nat /\ DOMAIN q = 1 .. Len(q) /\ q = [i \in 1 .. Len(q) |-> q[i]]
  OBVIOUS
<1>2. q \in Surjection(1 .. Len(q), ToSet(q))
  BY <1>1 DEF Surjection, ToSet
<1>3. IsFiniteSet(1 .. Len(q)) /\ Cardinality(1 .. Len(q)) = Len(q)
  BY <1>1, CountTo
<1> QED
  BY <1>2, <1>3, FS_Surjection
=============================================================================
