---------------------------- MODULE BalancerPick ----------------------------
(****************************************************************************)
(* How the balancer picks resolvers for a packet (internal/client/          *)
(* balancer.go): round robin, at random, by MTU, or by the loss it has      *)
(* measured, one or several, or one other than the last.  Reports of sends  *)
(* and of answers come from other goroutines; a resolver leaves and joins.  *)
(* A pick works on one snapshot; that it reads the statistics of resolver   *)
(* after resolver is left out.                                              *)
(****************************************************************************)
EXTENDS Integers, Sequences, SequencesExt, FiniteSets, Functions, Queues

CONSTANTS
    Paths,       \* the resolvers, 1 .. n in the order of the snapshot
    MTURank,     \* Paths -> place in the order of higherMTUFirst
    Strategies,
    Enough,      \* sends before the loss of a resolver counts: 5
    HalfLife,    \* connectionStatsHalfLifeThreshold
    SeedSent, SeedAcked,   \* SeedConservativeStats: 10 and 8
    MaxCounter   \* bound: the counter of the round robin

ASSUME BalancerPickAssumption ==
    /\ Paths \in Nat \ {0}
    /\ MTURank \in [1 .. Paths -> 1 .. Paths] /\ IsInjective(MTURank)
    /\ Strategies \subseteq {"roundRobin", "random", "weighted", "highestMTU", "leastLoss"}
    /\ Enough \in Nat \ {0} /\ HalfLife \in Nat
    /\ SeedSent \in 0 .. HalfLife /\ SeedAcked \in 0 .. SeedSent

VARIABLES
    strategy,
    members,    \* the valid resolvers of the snapshot
    sends, answers,
    rrCounter,
    pick,       \* the last pick: [want, except, got]
    served      \* history: picks of each since the members changed

pickVars == <<strategy, members, sends, answers, rrCounter, pick, served>>
NoPick == [want |-> 0, except |-> 0, got |-> <<>>]
NoneServed == [r \in 1 .. Paths |-> 0]

PickInit ==
    /\ strategy \in Strategies
    /\ members = 1 .. Paths
    /\ sends = [r \in 1 .. Paths |-> 0] /\ answers = sends
    /\ rrCounter = 0
    /\ pick = NoPick /\ served = NoneServed
-----------------------------------------------------------------------------
(* The statistics are halved when one of them passes the threshold.  Late   *)
(* answers may make the second the larger.                                  *)
Count(r, s, a) ==
    LET half == s > HalfLife \/ a > HalfLife
    IN  /\ sends' = [sends EXCEPT ![r] = IF half THEN s \div 2 ELSE s]
        /\ answers' = [answers EXCEPT ![r] = IF half THEN a \div 2 ELSE a]

ReportSend(r) ==
    /\ Count(r, sends[r] + 1, answers[r]) /\ pick' = NoPick
    /\ UNCHANGED <<members, rrCounter, served>>
ReportSuccess(r) ==
    /\ Count(r, sends[r], answers[r] + 1) /\ pick' = NoPick
    /\ UNCHANGED <<members, rrCounter, served>>

(* A resolver is disabled and forgotten; it comes back with a loss of 20 %. *)
Leave(r) ==
    /\ r \in members /\ members' = members \ {r}
    /\ Count(r, 0, 0)
    /\ pick' = NoPick /\ served' = NoneServed /\ UNCHANGED rrCounter
Rejoin(r) ==
    /\ r \notin members /\ members' = members \cup {r}
    /\ Count(r, SeedSent, SeedAcked)
    /\ pick' = NoPick /\ served' = NoneServed /\ UNCHANGED rrCounter
-----------------------------------------------------------------------------
LossScore(r) ==
    IF sends[r] < Enough THEN 500
    ELSE IF answers[r] >= sends[r] THEN 0
    ELSE ((sends[r] - answers[r]) * 1000) \div sends[r]
HasLossSignal == \E r \in members : sends[r] >= Enough

Ordered == Ascending(members)
From(start) ==
    LET all == Cardinality(members)
        first == start % all
    IN  [i \in 1 .. all |-> Ordered[IF first + i <= all THEN first + i ELSE first + i - all]]
First(S, n) == SubSeq(S, 1, n)

(* Sorted by a rank, ties in the order of S.                                *)
SortedBy(S, rank) ==
    LET UpTo(j) == {i \in DOMAIN S :
                      \/ rank[S[i]] < rank[S[j]]
                      \/ rank[S[i]] = rank[S[j]] /\ i <= j}
    IN  [k \in DOMAIN S |-> S[CHOOSE j \in DOMAIN S : Cardinality(UpTo(j)) = k]]
ByLoss == [r \in members |-> LossScore(r)]
ByMTU == [r \in members |-> MTURank[r]]

(* The orders in which a strategy would use the resolvers, for a pick of n: *)
(* round robin and least loss advance the counter by n.                     *)
\* Mutant: the start is not the counter before the pick.
TurnByCount(n) == From(rrCounter * n)
Turn(n) == From(rrCounter)
Advances == strategy \in {"roundRobin", "leastLoss"}
Orders(n) ==
    CASE strategy = "roundRobin" -> {Turn(n)}
      [] strategy = "leastLoss" ->
             {IF HasLossSignal THEN SortedBy(Turn(n), ByLoss) ELSE Turn(n)}
      [] strategy = "highestMTU" -> {SortedBy(Ordered, ByMTU)}
      [] strategy = "random" -> SetToSeqs(members)
      [] strategy = "weighted" -> {From(i) : i \in 0 .. (Len(Ordered) - 1)}

Want(want) ==
    LET least == IF want <= 0 THEN 1 ELSE want
    IN  IF least > Cardinality(members) THEN Cardinality(members) ELSE least

(* History, for the round robin: picks more than the least picked.          *)
Since(chosen) ==
    LET now == [r \in 1 .. Paths |-> served[r] + (IF r \in chosen THEN 1 ELSE 0)]
        all == \A r \in members : now[r] > 0
    IN  IF strategy # "roundRobin" THEN NoneServed
        ELSE [r \in 1 .. Paths |-> IF all /\ r \in members THEN now[r] - 1 ELSE now[r]]

(* GetUniqueConnections.  Several by weight are picked round robin.         *)
GetUnique(want) ==
    LET n == Want(want)
        several == strategy = "weighted" /\ n > 1
    IN  /\ members # {}
        /\ \E s \in (IF several THEN {Turn(n)} ELSE Orders(n)) :
              /\ pick' = [want |-> want, except |-> 0, got |-> First(s, n)]
              /\ served' = Since(ToSet(First(s, n)))
        /\ rrCounter' = IF Advances \/ several THEN rrCounter + n ELSE rrCounter
        /\ UNCHANGED <<members, sends, answers>>

(* GetBestConnectionExcluding.                                              *)
GetExcluding(x) ==
    /\ members # {}
    /\ \E s \in (IF strategy \in {"random", "weighted"} THEN {Turn(1)} ELSE Orders(1)) :
          LET others == {i \in DOMAIN s : s[i] # x}
          IN  pick' = [want |-> 1, except |-> x,
                       got |-> IF others = {} THEN <<>> ELSE <<s[Min(others)]>>]
    /\ rrCounter' = IF strategy = "highestMTU" THEN rrCounter ELSE rrCounter + 1
    /\ served' = NoneServed
    /\ UNCHANGED <<members, sends, answers>>

PickNext ==
    /\ \/ \E r \in 1 .. Paths : ReportSend(r) \/ ReportSuccess(r) \/ Leave(r) \/ Rejoin(r)
       \/ \E n \in 0 .. Paths + 1 : GetUnique(n)
       \/ \E x \in 1 .. Paths : GetExcluding(x)
    /\ rrCounter' <= MaxCounter
    /\ UNCHANGED strategy
-----------------------------------------------------------------------------
PickTypeOK ==
    /\ strategy \in Strategies /\ members \subseteq 1 .. Paths
    /\ sends \in [1 .. Paths -> 0 .. HalfLife] /\ answers \in [1 .. Paths -> 0 .. HalfLife]
    /\ rrCounter \in Nat /\ served \in [1 .. Paths -> Nat]
    /\ pick.want \in 0 .. Paths + 1 /\ pick.except \in 0 .. Paths
    /\ ToSet(pick.got) \subseteq 1 .. Paths

\* A pick gives as many different valid resolvers as there are and were asked
\* for; one that excludes a resolver finds another if there is one.
Distinct ==
    pick # NoPick =>
        /\ ToSet(pick.got) \subseteq members /\ IsInjective(pick.got)
        /\ pick.except = 0 => Len(pick.got) = Want(pick.want)
        /\ pick.except # 0 =>
              /\ pick.except \notin ToSet(pick.got)
              /\ pick.got = <<>> => members \subseteq {pick.except}

\* With least loss, nobody left out has lost less than somebody picked.
LeastLost ==
    strategy = "leastLoss" /\ HasLossSignal =>
        \A r \in ToSet(pick.got), q \in members \ (ToSet(pick.got) \cup {pick.except}) :
            LossScore(r) <= LossScore(q)

\* Round robin serves all the same, however many each pick takes.
ServedAlike ==
    strategy = "roundRobin" =>
        \A q, r \in members : served[q] <= served[r] + 1

\* A loss is at most the whole, and what is counted stays bounded.
LossBounded ==
    \A r \in 1 .. Paths :
        LossScore(r) \in 0 .. 1000 /\ sends[r] <= HalfLife /\ answers[r] <= HalfLife

PickSound == Distinct /\ LeastLost /\ ServedAlike /\ LossBounded
=============================================================================
