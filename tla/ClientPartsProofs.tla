--------------------------- MODULE ClientPartsProofs --------------------------
(****************************************************************************)
(* What is proved of the client's components that have no loop that must    *)
(* get somewhere, for every value of their constants, a section each: the   *)
(* pool of the resolvers (ResolverPool), the connections to them            *)
(* (StreamConns), the search for the MTU (MTUSearch), the workers that send *)
(* (SendPipeline), the samples of the queries (QuerySamples), the client's  *)
(* end of a UDP association (GenericUDP), the scan of the resolvers for the *)
(* MTU of the session (MTUScan), the resolvers that are picked for a packet *)
(* (BalancerPick) and the record types of the queries (CarrierRotation).    *)
(****************************************************************************)
EXTENDS ResolverPool, StreamConns, MTUSearch, SendPipeline, QuerySamples, GenericUDP,
        MTUScan, BalancerPick, CarrierRotation, QueuesProofs

-----------------------------------------------------------------------------
(* The pool of the resolvers.                                               *)

ValidWithout(r) == [valid EXCEPT ![r] = FALSE]
Others(r) == {q \in Resolvers : ValidWithout(r)[q]}

\* A resolver with a recheck under way is marked in flight, or lost its mark
\* to a scan.
Flagged == \A s \in Slots : Key(s) # Nobody => Key(s) \in inFlight \cup twice

\* A resolver that is valid again before the loop has finished disabling it
\* was made so in between.
CrossedWhenBack == At("invalid") /\ valid[loop.r] => loop.r \in crossed

\* A choice that is not cached yet is as good as a cached plan.
ChoiceCurrent == choice # {} /\ ~torn => \A r \in choice : valid[r]

\* What the loop decided on still holds when it acts, as far as the changes
\* made meanwhile permit.
Judged ==
    At("marked") =>
        /\ meanwhile # "scan" => Cardinality(Others(loop.r)) >= LeastLeft
        /\ meanwhile = "nothing" /\ ~(policy.weighted /\ OneFamily) =>
              Cardinality(ActiveOf(ValidWithout(loop.r))) >= LeastLeft

PoolInv ==
    /\ PoolTypeOK
    /\ ProbesAccounted /\ Flagged
    /\ NotHalfDisabled /\ CrossedWhenBack
    /\ PlanCurrent /\ ChoiceCurrent
    /\ Judged

-----------------------------------------------------------------------------
(* The active pool.                                                         *)

\* What is active is valid.
LEMMA ActiveIsValid ==
    ASSUME NEW ok \in [Resolvers -> BOOLEAN], policy \in Policies
    PROVE  ActiveOf(ok) \subseteq {r \in Resolvers : ok[r]}
BY ResolverPoolAssumption DEF ActiveOf, Tier

\* With both families in use, something is active when anything is valid.
LEMMA SomeActive ==
    ASSUME NEW ok \in [Resolvers -> BOOLEAN], policy \in Policies, ~OneFamily,
           NEW r \in Resolvers, ok[r]
    PROVE  ActiveOf(ok) # {}
<1>1. policy.family \in {"dual", "auto"}
  BY ResolverPoolAssumption DEF OneFamily
<1> QED
  BY <1>1, ResolverPoolAssumption DEF ActiveOf, Tier

\* Taking one resolver out takes out no other active one, unless none is left.
LEMMA OneLess ==
    ASSUME NEW r \in Resolvers, PoolTypeOK, Active \ {r} # {}
    PROVE  Active \ {r} \subseteq ActiveOf(ValidWithout(r))
<1> DEFINE v4 == {q \in Resolvers \ IPv6 : valid[q]}
           v6 == {q \in IPv6 : valid[q]}
<1>1. policy.family \in {"dual", "ipv4", "ipv6", "auto"}
  BY ResolverPoolAssumption DEF PoolTypeOK
<1>2. /\ {q \in Resolvers \ IPv6 : ValidWithout(r)[q]} = v4 \ {r}
      /\ {q \in IPv6 : ValidWithout(r)[q]} = v6 \ {r}
  BY ResolverPoolAssumption DEF ValidWithout, PoolTypeOK
<1>3. ASSUME NEW S \in SUBSET Resolvers, NEW q \in Tier(S) \ {r}
      PROVE  Tier(S) \ {r} \subseteq Tier(S \ {r})
  BY <1>3 DEF Tier
<1>4. v4 \in SUBSET Resolvers /\ v6 \in SUBSET Resolvers /\ v4 \cup v6 \in SUBSET Resolvers
  BY ResolverPoolAssumption
<1>5. PICK q \in Active : q # r
  OBVIOUS
<1>6. CASE policy.family = "dual"
  <2>1. Active = Tier(v4 \cup v6) /\ ActiveOf(ValidWithout(r)) = Tier((v4 \cup v6) \ {r})
    <3>1. (v4 \ {r}) \cup (v6 \ {r}) = (v4 \cup v6) \ {r}
      OBVIOUS
    <3> HIDE DEF v4, v6
    <3>2. Active = Tier(v4 \cup v6)
      BY <1>6 DEF Active, ActiveOf, v4, v6
    <3>3. ActiveOf(ValidWithout(r)) = Tier((v4 \ {r}) \cup (v6 \ {r}))
      BY <1>6, <1>2 DEF ActiveOf
    <3> QED
      BY <3>1, <3>2, <3>3
  <2> HIDE DEF v4, v6
  <2> QED
    BY <2>1, <1>3, <1>4, <1>5
<1>7. CASE policy.family = "ipv4"
  <2>1. Active = Tier(v4) /\ ActiveOf(ValidWithout(r)) = Tier(v4 \ {r})
    BY <1>7, <1>2 DEF Active, ActiveOf
  <2> HIDE DEF v4, v6
  <2> QED
    BY <2>1, <1>3, <1>4, <1>5
<1>8. CASE policy.family = "ipv6"
  <2>1. Active = Tier(v6) /\ ActiveOf(ValidWithout(r)) = Tier(v6 \ {r})
    BY <1>8, <1>2 DEF Active, ActiveOf
  <2> HIDE DEF v4, v6
  <2> QED
    BY <2>1, <1>3, <1>4, <1>5
<1>9. CASE policy.family = "auto"
  <2>1. /\ Active = IF v4 # {} THEN Tier(v4) ELSE Tier(v6)
        /\ ActiveOf(ValidWithout(r)) = IF v4 \ {r} # {} THEN Tier(v4 \ {r}) ELSE Tier(v6 \ {r})
    BY <1>9, <1>2 DEF Active, ActiveOf
  <2>2. \A S : Tier(S) \subseteq S
    BY DEF Tier
  <2> HIDE DEF v4, v6
  <2>3. CASE v4 # {}
    <3>1. q \in Tier(v4) /\ q \in v4 \ {r}
      BY <2>1, <2>2, <2>3, <1>5
    <3> QED
      BY <2>1, <2>3, <3>1, <1>3, <1>4, <1>5
  <2>4. CASE v4 = {}
    <3>1. v4 \ {r} = {}
      BY <2>4
    <3> QED
      BY <2>1, <2>4, <3>1, <1>3, <1>4, <1>5
  <2> QED
    BY <2>3, <2>4
<1> QED
  BY <1>1, <1>6, <1>7, <1>8, <1>9

\* What the loop may disable leaves enough behind.
LEMMA EnoughRemain ==
    ASSUME NEW r \in Resolvers, PoolTypeOK, valid[r], CanDisable(r)
    PROVE  /\ Cardinality(Others(r)) >= LeastLeft
           /\ ~(policy.weighted /\ OneFamily) =>
                Cardinality(ActiveOf(ValidWithout(r))) >= LeastLeft
<1>1. /\ ValidWithout(r) \in [Resolvers -> BOOLEAN] /\ policy \in Policies
      /\ valid \in [Resolvers -> BOOLEAN]
  BY DEF ValidWithout, PoolTypeOK
<1>2. ActiveOf(ValidWithout(r)) \subseteq Others(r) /\ Active \subseteq Resolvers
  BY <1>1, ActiveIsValid DEF Others, Active
<1>3. IsFiniteSet(Others(r)) /\ IsFiniteSet(Active) /\ IsFiniteSet(ActiveOf(ValidWithout(r)))
  <2>1. Others(r) \subseteq Resolvers
    BY DEF Others
  <2> QED
    BY <1>2, <2>1, FS_Subset, ResolverPoolAssumption
<1>4. /\ Cardinality(Others(r)) \in Nat /\ Cardinality(ActiveOf(ValidWithout(r))) \in Nat
      /\ Cardinality(ActiveOf(ValidWithout(r))) <= Cardinality(Others(r))
  BY <1>2, <1>3, FS_CardinalityType, FS_Subset
<1>5. LeastLeft <= Floor /\ LeastLeft \in Nat /\ Floor \in Nat \ {0}
  BY ResolverPoolAssumption DEF LeastLeft
<1>6. CASE Cardinality(Active) > Floor
  <2>1. /\ IsFiniteSet(Active \ {r}) /\ Cardinality(Active \ {r}) >= Floor
        /\ Cardinality(Active \ {r}) \in Nat
    <3>1. Cardinality(Active) \in Nat
      BY <1>3, FS_CardinalityType
    <3>2. Cardinality(Active \ {r}) = IF r \in Active THEN Cardinality(Active) - 1
                                      ELSE Cardinality(Active)
      BY <1>3, FS_RemoveElement
    <3>3. IsFiniteSet(Active \ {r})
      BY <1>3, FS_RemoveElement
    <3> QED
      BY <1>5, <1>6, <3>1, <3>2, <3>3, FS_CardinalityType
  <2>2. Active \ {r} # {}
    BY <1>5, <2>1, FS_EmptySet
  <2>3. Active \ {r} \subseteq ActiveOf(ValidWithout(r))
    BY <2>2, OneLess
  <2>4. Cardinality(Active \ {r}) <= Cardinality(ActiveOf(ValidWithout(r)))
    BY <2>3, <1>3, FS_Subset
  <2> QED
    BY <1>4, <1>5, <2>1, <2>4
<1>7. CASE Reserve(r)
  <2>1. PICK q \in Resolvers \ {r} : valid[q]
    BY <1>7 DEF Reserve
  <2>2. policy.weighted /\ LeastLeft = 1
    BY <1>7 DEF Reserve, LeastLeft
  <2>3. ValidWithout(r)[q] /\ q \in Others(r)
    BY <2>1, <1>1 DEF ValidWithout, Others
  <2>4. Cardinality(Others(r)) # 0
    BY <2>3, <1>3, FS_EmptySet
  <2>5. ~OneFamily => Cardinality(ActiveOf(ValidWithout(r))) # 0
    BY <2>1, <2>3, <1>1, <1>3, SomeActive, FS_EmptySet
  <2> QED
    BY <1>4, <2>2, <2>4, <2>5
<1> QED
  BY <1>6, <1>7 DEF CanDisable
-----------------------------------------------------------------------------
(* The invariant holds at the start and is kept by each action.             *)

\* A pool starts without probes, plans or disabled resolvers.
LEMMA PoolInvInit == PoolInit => PoolInv
<1> SUFFICES ASSUME PoolInit PROVE PoolInv
  OBVIOUS
<1> USE ResolverPoolAssumption DEF PoolInit, AtRest, NoProbe
<1>1. PoolTypeOK
  <2>1. /\ source \in [Resolvers -> BOOLEAN] /\ valid \in [Resolvers -> BOOLEAN]
        /\ backup \in [Resolvers -> BOOLEAN]
    <3>1. source \in [Resolvers -> BOOLEAN]
      OBVIOUS
    <3>2. backup \in [Resolvers -> BOOLEAN]
      <4>1. CASE backup = [r \in Resolvers |-> FALSE]
        BY <4>1
      <4>2. CASE backup = [r \in Resolvers |-> r \in Slow]
        BY <4>2
      <4> QED
        BY <4>1, <4>2
    <3> QED
      BY <3>1, <3>2
  <2>2. /\ events \in [Resolvers -> 0 .. MinEvents]
        /\ passed \in [Resolvers -> 0 .. Successes]
    OBVIOUS
  <2>3. /\ loop \in [at : {"idle", "disabling"}, cands : SUBSET Resolvers, r : {Nobody}]
        /\ probes \in [Slots -> {NoProbe}]
    OBVIOUS
  <2>4. /\ unscanned \subseteq Resolvers /\ policy \in Policies
        /\ disabled = {} /\ inFlight = {} /\ accepted = {} /\ plan = {} /\ choice = {}
        /\ torn = FALSE /\ twice = {} /\ crossed = {} /\ meanwhile = "nothing"
    OBVIOUS
  <2> QED
    BY <2>1, <2>2, <2>3, <2>4 DEF PoolTypeOK
<1>2. ProbesAccounted /\ Flagged
  BY DEF ProbesAccounted, Flagged, Key
<1>3. NotHalfDisabled /\ CrossedWhenBack /\ PlanCurrent /\ ChoiceCurrent /\ Judged
  BY DEF NotHalfDisabled, CrossedWhenBack, At, PlanCurrent, ChoiceCurrent, Judged
<1> QED
  BY <1>1, <1>2, <1>3 DEF PoolInv

\* The decision stands while the loop waits and the pool stays as it is.
LEMMA JudgedKept ==
    ASSUME Judged, UNCHANGED <<policy, valid, backup, loop, meanwhile>>
    PROVE  Judged'
BY DEF Judged, At, Others, ValidWithout, LeastLeft, OneFamily, ActiveOf, Tier

\* A timeout, or an answer, is noted.
LEMMA NotingKeeps ==
    ASSUME PoolInv, UNCHANGED policy, NEW r \in Resolvers, NoteTimeout(r) \/ NoteSuccess(r)
    PROVE  PoolInv'
<1> USE ResolverPoolAssumption DEF PoolInv, NoteTimeout, NoteSuccess, Forget, flagVars, planVars
<1>1. PoolTypeOK'
  BY DEF PoolTypeOK
<1>2. (ProbesAccounted /\ Flagged)'
  BY DEF ProbesAccounted, Flagged, Key
<1>3. (NotHalfDisabled /\ CrossedWhenBack /\ PlanCurrent /\ ChoiceCurrent)'
  BY DEF NotHalfDisabled, Key, CrossedWhenBack, At, PlanCurrent, ChoiceCurrent
<1>4. Judged'
  BY JudgedKept
<1> QED
  BY <1>1, <1>2, <1>3, <1>4

\* The loop collects its candidates, or passes one over.
LEMMA CollectingKeeps ==
    ASSUME PoolInv, UNCHANGED policy, Collect \/ Skip
    PROVE  PoolInv'
<1> USE ResolverPoolAssumption DEF PoolInv, Collect, Skip, At, AtRest, flagVars, planVars
<1>1. loop.r = Nobody /\ loop'.r = Nobody /\ loop'.at \in {"idle", "disabling"}
      /\ loop' \in [at : {"idle", "disabling"}, cands : SUBSET Resolvers, r : {Nobody}]
  <2>1. loop \in [at : {"idle", "disabling"}, cands : SUBSET Resolvers, r : {Nobody}]
    BY DEF PoolTypeOK
  <2>2. Eligible \subseteq Resolvers
    BY DEF Eligible
  <2> QED
    BY <2>1, <2>2
<1>2. PoolTypeOK'
  BY <1>1 DEF PoolTypeOK
<1>3. (ProbesAccounted /\ Flagged)'
  BY DEF ProbesAccounted, Flagged, Key
<1>4. (NotHalfDisabled /\ CrossedWhenBack /\ PlanCurrent /\ ChoiceCurrent)'
  BY <1>1 DEF NotHalfDisabled, Key, CrossedWhenBack, PlanCurrent, ChoiceCurrent
<1>5. Judged'
  BY <1>1 DEF Judged
<1> QED
  BY <1>2, <1>3, <1>4, <1>5

\* The loop decides to disable a resolver: enough remain without it.
LEMMA MarkDisabledKeeps ==
    ASSUME PoolInv, UNCHANGED policy, NEW r \in Resolvers, MarkDisabled(r)
    PROVE  PoolInv'
<1> USE ResolverPoolAssumption DEF PoolInv, MarkDisabled, At, flagVars, planVars
<1>1. loop.r = Nobody /\ loop'.r = r /\ loop'.at = "marked"
  BY DEF PoolTypeOK
<1>2. PoolTypeOK'
  BY DEF PoolTypeOK
<1>3. (ProbesAccounted /\ Flagged)'
  BY DEF ProbesAccounted, Flagged, Key
<1>4. (NotHalfDisabled /\ CrossedWhenBack /\ PlanCurrent /\ ChoiceCurrent)'
  <2>1. disabled \subseteq Resolvers
    BY DEF PoolTypeOK
  <2>2. NotHalfDisabled'
    BY <1>1, <2>1 DEF NotHalfDisabled, Key
  <2> QED
    BY <1>1, <2>2 DEF CrossedWhenBack, PlanCurrent, ChoiceCurrent
<1>5. Judged'
  <2>1. /\ Cardinality(Others(r)) >= LeastLeft
        /\ ~(policy.weighted /\ OneFamily) =>
             Cardinality(ActiveOf(ValidWithout(r))) >= LeastLeft
    BY EnoughRemain
  <2> QED
    BY <1>1, <2>1 DEF Judged, Others, ValidWithout, LeastLeft, OneFamily, ActiveOf, Tier
<1> QED
  BY <1>2, <1>3, <1>4, <1>5

\* A changed snapshot makes every cached plan stale, and a choice torn.
LEMMA NewVersionKeeps ==
    ASSUME PoolTypeOK, NewVersion
    PROVE  /\ plan' = {} /\ choice' = choice /\ torn' \in BOOLEAN
           /\ PlanCurrent' /\ ChoiceCurrent'
BY DEF PoolTypeOK, NewVersion, PlanCurrent, ChoiceCurrent

\* The loop takes the resolver out.
LEMMA InvalidateKeeps ==
    ASSUME PoolInv, UNCHANGED policy, Invalidate
    PROVE  PoolInv'
<1> USE ResolverPoolAssumption DEF PoolInv, Invalidate, At, flagVars, planVars
<1>1. /\ loop.r \in Resolvers /\ loop'.r = loop.r /\ loop'.at = "invalid"
      /\ loop' \in [at : {"marked", "invalid"}, cands : SUBSET Resolvers, r : Resolvers]
  BY DEF PoolTypeOK
<1>2. /\ valid' = ValidWithout(loop.r) /\ ~valid'[loop.r]
      /\ source' \in [Resolvers -> BOOLEAN] /\ valid' \in [Resolvers -> BOOLEAN]
      /\ \A r \in Resolvers : valid'[r] => valid[r]
  <2>1. source \in [Resolvers -> BOOLEAN] /\ valid \in [Resolvers -> BOOLEAN]
    BY DEF PoolTypeOK
  <2>2. CASE valid[loop.r] = FALSE
    <3>1. valid' = valid /\ source' = source
      BY <2>2 DEF SetValidity
    <3> QED
      BY <1>1, <2>1, <2>2, <3>1 DEF ValidWithout
  <2>3. CASE valid[loop.r] # FALSE
    <3>1. valid' = ValidWithout(loop.r) /\ source' = [source EXCEPT ![loop.r] = FALSE]
      BY <2>3 DEF SetValidity, ValidWithout
    <3> QED
      BY <1>1, <2>1, <3>1 DEF ValidWithout
  <2> QED
    BY <2>2, <2>3
<1>3. /\ plan' \subseteq Resolvers /\ choice' \subseteq Resolvers /\ torn' \in BOOLEAN
      /\ PlanCurrent' /\ ChoiceCurrent'
  <2>1. CASE valid[loop.r] = FALSE
    BY <2>1 DEF PoolTypeOK, SetValidity, PlanCurrent, ChoiceCurrent
  <2>2. CASE valid[loop.r] # FALSE
    BY <2>2, NewVersionKeeps DEF PoolTypeOK, SetValidity
  <2> QED
    BY <2>1, <2>2
<1>4. PoolTypeOK'
  BY <1>1, <1>2, <1>3 DEF PoolTypeOK
<1>5. (ProbesAccounted /\ Flagged)'
  BY DEF ProbesAccounted, Flagged, Key
<1>6. (NotHalfDisabled /\ CrossedWhenBack)'
  BY <1>1, <1>2 DEF NotHalfDisabled, Key, CrossedWhenBack, PoolTypeOK
<1>7. Judged'
  BY <1>1 DEF Judged
<1> QED
  BY <1>3, <1>4, <1>5, <1>6, <1>7

\* The loop is done with the resolver.
LEMMA FinishDisableKeeps ==
    ASSUME PoolInv, UNCHANGED policy, FinishDisable
    PROVE  PoolInv'
<1> USE ResolverPoolAssumption DEF PoolInv, FinishDisable, Forget, At, flagVars, planVars
<1>1. /\ loop.r \in Resolvers /\ loop'.r = Nobody /\ loop'.at = "disabling"
      /\ loop' \in [at : {"idle", "disabling"}, cands : SUBSET Resolvers, r : {Nobody}]
  BY DEF PoolTypeOK
<1>2. PoolTypeOK'
  BY <1>1 DEF PoolTypeOK
<1>3. (ProbesAccounted /\ Flagged)'
  BY DEF ProbesAccounted, Flagged, Key
<1>4. (NotHalfDisabled /\ CrossedWhenBack)'
  BY <1>1 DEF NotHalfDisabled, Key, CrossedWhenBack
<1>5. (PlanCurrent /\ ChoiceCurrent)'
  BY DEF PlanCurrent, ChoiceCurrent
<1>6. Judged'
  BY <1>1 DEF Judged
<1> QED
  BY <1>2, <1>3, <1>4, <1>5, <1>6

\* A probe starts for a resolver that is out and not in flight.
LEMMA StartRecheckKeeps ==
    ASSUME PoolInv, UNCHANGED policy, NEW s \in Slots, NEW r \in Resolvers, StartRecheck(s, r)
    PROVE  PoolInv'
<1> USE ResolverPoolAssumption DEF PoolInv, StartRecheck, flagVars, planVars
<1> DEFINE ProbeOf == [key |-> r, at |-> "probing"]
<1>1. /\ probes' \in [Slots -> [key : Resolvers, at : {"probing", "passed", "valid"}] \cup {NoProbe}]
      /\ probes'[s] = ProbeOf /\ probes[s] = NoProbe
      /\ \A t \in Slots \ {s} : probes'[t] = probes[t]
  BY DEF PoolTypeOK
<1>2. PoolTypeOK'
  BY <1>1 DEF PoolTypeOK
<1>3. probes'[s].key = r /\ probes'[s].at # "valid" /\ probes[s].key = Nobody /\ probes[s].at = "free"
  BY <1>1 DEF NoProbe
<1>4. r # Nobody /\ r \notin inFlight
  OBVIOUS
<1>5. Flagged'
  BY <1>1, <1>3, <1>4 DEF Flagged, Key
<1>6. ProbesAccounted'
  <2>1. \A q \in inFlight' : \E t \in Slots : probes'[t].key = q
    <3>1. \A q \in inFlight : \E t \in Slots : probes[t].key = q
      BY DEF ProbesAccounted
    <3> QED
      BY <1>1, <1>3, <3>1, <1>4 DEF ProbesAccounted, PoolTypeOK
  <2>2. ASSUME NEW t \in Slots, NEW u \in Slots, t # u, Key(t)' = Key(u)', Key(t)' # Nobody
        PROVE  Key(t)' \in twice'
    <3>1. CASE t = s
      BY <2>2, <3>1, <1>1, <1>3, <1>4 DEF Key, Flagged
    <3>2. CASE u = s
      BY <2>2, <3>2, <1>1, <1>3, <1>4 DEF Key, Flagged
    <3>3. CASE t # s /\ u # s
      BY <2>2, <3>3, <1>1, <1>3, <1>4 DEF Key, ProbesAccounted
    <3> QED
      BY <3>1, <3>2, <3>3
  <2> QED
    BY <2>1, <2>2 DEF ProbesAccounted
<1>7. (NotHalfDisabled /\ CrossedWhenBack /\ PlanCurrent /\ ChoiceCurrent)'
  <2>1. NotHalfDisabled'
    BY <1>1, <1>3 DEF NotHalfDisabled, Key
  <2> QED
    BY <2>1 DEF CrossedWhenBack, At, PlanCurrent, ChoiceCurrent
<1>8. Judged'
  BY JudgedKept
<1> QED
  BY <1>2, <1>5, <1>6, <1>7, <1>8

\* A probe that is over takes its mark along: the marks and probes of the
\* other resolvers are as before, and of its own only a wiped one can run on.
LEMMA OverKeeps ==
    ASSUME PoolTypeOK, ProbesAccounted, Flagged, NEW s \in Slots, probes[s] # NoProbe,
           Over(s), inFlight' = inFlight \ {Key(s)}, UNCHANGED twice
    PROVE  /\ probes' \in [Slots -> [key : Resolvers, at : {"probing", "passed", "valid"}]
                                        \cup {NoProbe}]
           /\ probes'[s] = NoProbe /\ \A t \in Slots \ {s} : probes'[t] = probes[t]
           /\ ProbesAccounted' /\ Flagged'
<1> USE ResolverPoolAssumption DEF Key
<1>1. /\ probes' \in [Slots -> [key : Resolvers, at : {"probing", "passed", "valid"}] \cup {NoProbe}]
      /\ probes'[s] = NoProbe
      /\ \A t \in Slots \ {s} : probes'[t] = probes[t]
  BY DEF PoolTypeOK, Over
<1>2. probes'[s].key = Nobody
  BY <1>1 DEF NoProbe
<1>3. \A q \in inFlight' : \E t \in Slots : probes'[t].key = q
  <2>1. SUFFICES ASSUME NEW q \in inFlight, q # probes[s].key
                 PROVE  \E t \in Slots : probes'[t].key = q
    OBVIOUS
  <2>2. PICK t \in Slots : probes[t].key = q
    BY DEF ProbesAccounted
  <2> QED
    BY <2>1, <2>2, <1>1
<1>4. \A t, u \in Slots :
         t # u /\ probes'[t].key = probes'[u].key /\ probes'[t].key # Nobody
            => probes'[t].key \in twice
  BY <1>1, <1>2 DEF ProbesAccounted
<1>5. ProbesAccounted'
  BY <1>3, <1>4 DEF ProbesAccounted
<1>6. Flagged'
  <2>1. SUFFICES ASSUME NEW t \in Slots, probes'[t].key # Nobody
                 PROVE  probes'[t].key \in inFlight' \cup twice
    BY DEF Flagged
  <2>2. t # s /\ probes'[t] = probes[t]
    BY <2>1, <1>1, <1>2
  <2>3. CASE probes[t].key = probes[s].key
    BY <2>1, <2>2, <2>3 DEF ProbesAccounted
  <2>4. CASE probes[t].key # probes[s].key
    BY <2>1, <2>2, <2>4 DEF Flagged
  <2> QED
    BY <2>3, <2>4
<1> QED
  BY <1>1, <1>5, <1>6

\* A probe that moves on keeps its resolver.
LEMMA ProbeMoves ==
    ASSUME PoolTypeOK, ProbesAccounted, Flagged, NEW s \in Slots, probes[s] # NoProbe,
           NEW step \in {"passed", "valid"}, probes' = [probes EXCEPT ![s].at = step],
           UNCHANGED <<inFlight, twice>>
    PROVE  /\ probes' \in [Slots -> [key : Resolvers, at : {"probing", "passed", "valid"}]
                                        \cup {NoProbe}]
           /\ \A t \in Slots : Key(t)' = Key(t)
           /\ probes'[s].at = step /\ \A t \in Slots \ {s} : probes'[t] = probes[t]
           /\ ProbesAccounted' /\ Flagged'
<1> USE DEF Key
<1>1. probes \in [Slots -> [key : Resolvers, at : {"probing", "passed", "valid"}] \cup {NoProbe}]
  BY DEF PoolTypeOK
<1>2. probes[s] \in [key : Resolvers, at : {"probing", "passed", "valid"}]
  BY <1>1
<1>3. /\ probes'[s] = [probes[s] EXCEPT !.at = step]
      /\ \A t \in Slots \ {s} : probes'[t] = probes[t]
  BY <1>1
<1>4. probes'[s].key = probes[s].key /\ probes'[s].at = step
      /\ probes'[s] \in [key : Resolvers, at : {"probing", "passed", "valid"}]
  BY <1>2, <1>3
<1>5. probes' \in [Slots -> [key : Resolvers, at : {"probing", "passed", "valid"}] \cup {NoProbe}]
  BY <1>1, <1>2
<1>6. \A t \in Slots : probes'[t].key = probes[t].key
  BY <1>3, <1>4
<1>7. ProbesAccounted'
  BY <1>6 DEF ProbesAccounted
<1>8. Flagged'
  BY <1>6 DEF Flagged
<1> QED
  BY <1>3, <1>4, <1>5, <1>6, <1>7, <1>8

\* A probe that is under way names a resolver.
LEMMA ProbeKey ==
    ASSUME PoolTypeOK, NEW s \in Slots, probes[s].at \in {"probing", "passed", "valid"}
    PROVE  probes[s] # NoProbe /\ Key(s) \in Resolvers
BY DEF PoolTypeOK, NoProbe, Key

\* A recheck fails.
LEMMA RecheckFailsKeeps ==
    ASSUME PoolInv, UNCHANGED policy, NEW s \in Slots, RecheckFails(s)
    PROVE  PoolInv'
<1> USE ResolverPoolAssumption DEF PoolInv, RecheckFails, flagVars, planVars
<1>1. probes[s] # NoProbe /\ Key(s) \in Resolvers
  BY ProbeKey
<1>2. /\ probes' \in [Slots -> [key : Resolvers, at : {"probing", "passed", "valid"}] \cup {NoProbe}]
      /\ \A t \in Slots \ {s} : probes'[t] = probes[t]
      /\ ProbesAccounted' /\ Flagged'
  BY <1>1, OverKeeps
<1>3. PoolTypeOK'
  BY <1>1, <1>2 DEF PoolTypeOK
<1>4. NotHalfDisabled'
  BY <1>2 DEF NotHalfDisabled, Key
<1>5. (CrossedWhenBack /\ PlanCurrent /\ ChoiceCurrent)'
  BY DEF CrossedWhenBack, At, PlanCurrent, ChoiceCurrent
<1>6. Judged'
  BY JudgedKept
<1> QED
  BY <1>2, <1>3, <1>4, <1>5, <1>6

\* A recheck passes: counted, or enough.
LEMMA RecheckPassesKeeps ==
    ASSUME PoolInv, UNCHANGED policy, NEW s \in Slots, RecheckPasses(s)
    PROVE  PoolInv'
<1> USE ResolverPoolAssumption DEF PoolInv, flagVars, planVars
<1> DEFINE n == IF Key(s) \in disabled THEN passed[Key(s)] + 1 ELSE 0
           enough == Key(s) \notin disabled \/ n >= Threshold
<1>1. /\ probes[s].at = "probing"
      /\ UNCHANGED <<source, valid, backup, events, disabled, loop, unscanned,
                     accepted, planVars, twice, crossed, meanwhile>>
  BY DEF RecheckPasses
<1>2. probes[s] # NoProbe /\ Key(s) \in Resolvers
  BY <1>1, ProbeKey
<1>3. /\ probes' \in [Slots -> [key : Resolvers, at : {"probing", "passed", "valid"}] \cup {NoProbe}]
      /\ \A t \in Slots \ {s} : probes'[t] = probes[t]
      /\ ProbesAccounted' /\ Flagged'
      /\ passed' \in [Resolvers -> 0 .. Successes] /\ inFlight' \subseteq Resolvers
  <2>1. CASE enough
    <3>1. probes' = [probes EXCEPT ![s].at = "passed"] /\ UNCHANGED <<passed, inFlight>>
      BY <2>1 DEF RecheckPasses
    <3> QED
      BY <3>1, <1>1, <1>2, ProbeMoves DEF PoolTypeOK
  <2>2. CASE ~enough
    <3>1. /\ Over(s) /\ inFlight' = inFlight \ {Key(s)}
          /\ passed' = [passed EXCEPT ![Key(s)] = n]
      BY <2>2 DEF RecheckPasses
    <3>2. n \in 0 .. Successes
      <4>1. n < Threshold /\ Key(s) \in disabled /\ n = passed[Key(s)] + 1
        BY <2>2, <1>2 DEF Threshold, PoolTypeOK
      <4>2. Threshold <= Successes
        BY DEF Threshold
      <4> QED
        BY <4>1, <4>2, <1>2 DEF PoolTypeOK, Threshold
    <3> HIDE DEF n
    <3>3. passed' \in [Resolvers -> 0 .. Successes] /\ inFlight' \subseteq Resolvers
      BY <3>1, <3>2 DEF PoolTypeOK
    <3> QED
      BY <3>1, <3>3, <1>1, <1>2, OverKeeps
  <2> QED
    BY <2>1, <2>2
<1>4. PoolTypeOK'
  BY <1>1, <1>3 DEF PoolTypeOK
<1>5. NotHalfDisabled'
  BY <1>1, <1>3 DEF NotHalfDisabled, Key
<1>6. (CrossedWhenBack /\ PlanCurrent /\ ChoiceCurrent)'
  BY <1>1 DEF CrossedWhenBack, At, PlanCurrent, ChoiceCurrent
<1>7. Judged'
  BY <1>1, JudgedKept
<1> QED
  BY <1>3, <1>4, <1>5, <1>6, <1>7

\* A pool that only grew leaves more beside the resolver to be disabled.
LEMMA JudgedGrows ==
    ASSUME PoolTypeOK, Judged, valid' \in [Resolvers -> BOOLEAN],
           \A q \in Resolvers : valid[q] => valid'[q],
           UNCHANGED <<policy, backup, loop>>,
           At("marked") => meanwhile' = IF meanwhile # "scan" THEN "grew" ELSE meanwhile
    PROVE  Judged'
<1>1. SUFFICES ASSUME At("marked"), meanwhile # "scan"
               PROVE  Judged'
  BY DEF Judged, At
<1>2. meanwhile' = "grew"
  BY <1>1
<1>3. Cardinality(Others(loop.r)) >= LeastLeft
  BY <1>1 DEF Judged
<1>4. Others(loop.r) \subseteq Others(loop.r)'
  BY <1>1 DEF PoolTypeOK, At, Others, ValidWithout
<1>5. IsFiniteSet(Others(loop.r)')
  <2>1. Others(loop.r)' \subseteq Resolvers
    BY DEF Others
  <2> QED
    BY <2>1, FS_Subset, ResolverPoolAssumption
<1>6. /\ Cardinality(Others(loop.r)) <= Cardinality(Others(loop.r)')
      /\ Cardinality(Others(loop.r)) \in Nat /\ Cardinality(Others(loop.r)') \in Nat
  BY <1>4, <1>5, FS_Subset, FS_CardinalityType
<1>7. LeastLeft \in Nat /\ LeastLeft' = LeastLeft
  BY ResolverPoolAssumption DEF LeastLeft
<1>8. Cardinality(Others(loop.r)') >= LeastLeft'
  BY <1>3, <1>6, <1>7
<1> QED
  BY <1>2, <1>8 DEF Judged

\* A resolver that passed is made valid, or found valid.
LEMMA ReactivateKeeps ==
    ASSUME PoolInv, UNCHANGED policy, NEW s \in Slots, Reactivate(s)
    PROVE  PoolInv'
<1> USE ResolverPoolAssumption DEF PoolInv, flagVars, planVars
<1>1. /\ probes[s].at = "passed"
      /\ crossed' = IF loop.r = Key(s) THEN crossed \cup {loop.r} ELSE crossed
      /\ UNCHANGED <<backup, events, disabled, passed, loop, unscanned, accepted, twice>>
  BY DEF Reactivate
<1>2. probes[s] # NoProbe /\ Key(s) \in Resolvers
  BY <1>1, ProbeKey
<1>3. crossed \subseteq crossed' /\ crossed' \subseteq Resolvers
  BY <1>1, <1>2 DEF PoolTypeOK
<1>4. CASE valid[Key(s)]
  <2>1. /\ Over(s) /\ inFlight' = inFlight \ {Key(s)}
        /\ UNCHANGED <<source, valid, plan, choice, torn, meanwhile>>
    BY <1>4 DEF Reactivate
  <2>2. /\ probes' \in [Slots -> [key : Resolvers, at : {"probing", "passed", "valid"}]
                                    \cup {NoProbe}]
        /\ \A t \in Slots \ {s} : probes'[t] = probes[t]
        /\ ProbesAccounted' /\ Flagged'
    BY <2>1, <1>1, <1>2, OverKeeps
  <2>3. PoolTypeOK'
    BY <2>1, <2>2, <1>1, <1>3 DEF PoolTypeOK
  <2>4. NotHalfDisabled'
    BY <2>1, <2>2, <1>1, <1>3 DEF NotHalfDisabled, Key
  <2>5. (CrossedWhenBack /\ PlanCurrent /\ ChoiceCurrent)'
    BY <2>1, <1>1, <1>3 DEF CrossedWhenBack, At, PlanCurrent, ChoiceCurrent
  <2>6. Judged'
    BY <2>1, <1>1, JudgedKept
  <2> QED
    BY <2>2, <2>3, <2>4, <2>5, <2>6
<1>5. CASE ~valid[Key(s)]
  <2>1. /\ SetValidity(Key(s), TRUE) /\ Meanwhile("grew")
        /\ probes' = [probes EXCEPT ![s].at = "valid"] /\ UNCHANGED inFlight
    BY <1>5 DEF Reactivate
  <2>2. /\ source' = [source EXCEPT ![Key(s)] = TRUE]
        /\ valid' = [valid EXCEPT ![Key(s)] = TRUE] /\ NewVersion
    BY <2>1, <1>5 DEF SetValidity
  <2>3. /\ source' \in [Resolvers -> BOOLEAN] /\ valid' \in [Resolvers -> BOOLEAN]
        /\ \A q \in Resolvers : valid[q] => valid'[q]
        /\ \A q \in Resolvers : valid'[q] => valid[q] \/ q = Key(s)
    BY <2>2, <1>2 DEF PoolTypeOK
  <2>4. /\ probes' \in [Slots -> [key : Resolvers, at : {"probing", "passed", "valid"}]
                                    \cup {NoProbe}]
        /\ \A t \in Slots : Key(t)' = Key(t)
        /\ probes'[s].at = "valid" /\ \A t \in Slots \ {s} : probes'[t] = probes[t]
        /\ ProbesAccounted' /\ Flagged'
    BY <2>1, <1>1, <1>2, ProbeMoves
  <2>5. /\ plan' = {} /\ choice' = choice /\ torn' \in BOOLEAN
        /\ PlanCurrent' /\ ChoiceCurrent'
    BY <2>2, NewVersionKeeps
  <2>6. meanwhile' \in {"nothing", "grew", "scan"}
    BY <2>1 DEF Meanwhile, PoolTypeOK
  <2>7. PoolTypeOK'
    BY <2>3, <2>4, <2>5, <2>6, <2>1, <1>1, <1>3 DEF PoolTypeOK
  <2>8. NotHalfDisabled'
    <3>1. SUFFICES ASSUME NEW r \in disabled, valid'[r]
                   PROVE  \/ loop.r = r \/ r \in crossed'
                          \/ \E t \in Slots : probes'[t].key = r /\ probes'[t].at = "valid"
                          \/ \E a \in accepted : a.at = "init"
      BY <1>1 DEF NotHalfDisabled, Key
    <3>2. CASE r = Key(s)
      BY <2>4, <3>2 DEF Key
    <3>3. CASE r # Key(s)
      <4>1. valid[r]
        BY <2>3, <3>1, <3>3 DEF PoolTypeOK
      <4> QED
        BY <4>1, <2>4, <1>3 DEF NotHalfDisabled, Key
    <3> QED
      BY <3>2, <3>3
  <2>9. CrossedWhenBack'
    <3>1. SUFFICES ASSUME At("invalid"), valid'[loop.r]
                   PROVE  loop.r \in crossed'
      BY <1>1 DEF CrossedWhenBack, At
    <3>2. loop.r \in Resolvers
      BY <3>1 DEF At, PoolTypeOK
    <3> QED
      BY <3>1, <3>2, <2>3, <1>1, <1>3 DEF CrossedWhenBack
  <2>10. Judged'
    BY <2>1, <2>3, <1>1, JudgedGrows DEF Meanwhile
  <2> QED
    BY <2>4, <2>5, <2>7, <2>8, <2>9, <2>10
<1> QED
  BY <1>4, <1>5

\* A resolver is back, and no longer named as disabled.
LEMMA FinishReactivationKeeps ==
    ASSUME PoolInv, UNCHANGED policy, NEW s \in Slots, FinishReactivation(s)
    PROVE  PoolInv'
<1> USE ResolverPoolAssumption DEF PoolInv, FinishReactivation, Forget, flagVars, planVars
<1>1. probes[s] # NoProbe /\ Key(s) \in Resolvers
  BY ProbeKey
<1>2. /\ probes' \in [Slots -> [key : Resolvers, at : {"probing", "passed", "valid"}] \cup {NoProbe}]
      /\ \A t \in Slots \ {s} : probes'[t] = probes[t]
      /\ ProbesAccounted' /\ Flagged'
  BY <1>1, OverKeeps
<1>3. PoolTypeOK'
  BY <1>1, <1>2 DEF PoolTypeOK
<1>4. NotHalfDisabled'
  BY <1>2 DEF NotHalfDisabled, Key
<1>5. (CrossedWhenBack /\ PlanCurrent /\ ChoiceCurrent)'
  BY DEF CrossedWhenBack, At, PlanCurrent, ChoiceCurrent
<1>6. Judged'
  BY JudgedKept
<1> QED
  BY <1>2, <1>3, <1>4, <1>5, <1>6

\* The scan comes to its verdict on a resolver.
LEMMA ScanningKeeps ==
    ASSUME PoolInv, UNCHANGED policy, NEW r \in Resolvers, ScanRejects(r) \/ ScanAccepts(r)
    PROVE  PoolInv'
<1> USE ResolverPoolAssumption DEF PoolInv, ScanRejects, ScanAccepts, flagVars, planVars
<1>1. crossed \subseteq crossed' /\ crossed' \subseteq Resolvers
  BY DEF PoolTypeOK
<1>2. accepted \subseteq accepted' /\ accepted' \subseteq [key : Resolvers, at : {"refresh", "init"}]
  BY DEF PoolTypeOK
<1>3. source' \in [Resolvers -> BOOLEAN]
  BY DEF PoolTypeOK
<1>4. PoolTypeOK'
  BY <1>1, <1>2, <1>3 DEF PoolTypeOK
<1>5. (ProbesAccounted /\ Flagged)'
  BY DEF ProbesAccounted, Flagged, Key
<1>6. (NotHalfDisabled /\ CrossedWhenBack)'
  BY <1>1, <1>2 DEF NotHalfDisabled, Key, CrossedWhenBack, At
<1>7. (PlanCurrent /\ ChoiceCurrent)'
  BY DEF PlanCurrent, ChoiceCurrent
<1>8. Judged'
  BY JudgedKept
<1> QED
  BY <1>4, <1>5, <1>6, <1>7, <1>8

\* The balancer takes over what the scan wrote.
LEMMA RefreshKeeps ==
    ASSUME PoolInv, UNCHANGED policy, NEW a \in accepted, RefreshValidConnections(a)
    PROVE  PoolInv'
<1> USE ResolverPoolAssumption DEF PoolInv, RefreshValidConnections, flagVars
<1> DEFINE b == [a EXCEPT !.at = "init"]
<1>1. b \in accepted' /\ b.at = "init"
      /\ accepted' \subseteq [key : Resolvers, at : {"refresh", "init"}]
  BY DEF PoolTypeOK
<1>2. /\ plan' = {} /\ choice' = choice /\ torn' \in BOOLEAN
      /\ PlanCurrent' /\ ChoiceCurrent'
  BY NewVersionKeeps
<1>3. crossed' \subseteq Resolvers
  <2>1. loop.r \in Resolvers \cup {Nobody}
    BY DEF PoolTypeOK
  <2> QED
    BY <2>1 DEF PoolTypeOK
<1>4. meanwhile' \in {"nothing", "grew", "scan"} /\ (At("marked") => meanwhile' = "scan")
  BY DEF Meanwhile, PoolTypeOK
<1>5. PoolTypeOK'
  BY <1>1, <1>2, <1>3, <1>4 DEF PoolTypeOK
<1>6. (ProbesAccounted /\ Flagged)'
  BY DEF ProbesAccounted, Flagged, Key
<1>7. NotHalfDisabled'
  BY <1>1 DEF NotHalfDisabled
<1>8. CrossedWhenBack'
  <2>1. SUFFICES ASSUME At("invalid"), source[loop.r]
                 PROVE  loop.r \in crossed'
    BY DEF CrossedWhenBack, At
  <2>2. loop.r # Nobody
    BY <2>1 DEF At, PoolTypeOK
  <2> QED
    BY <2>1, <2>2
<1>9. Judged'
  BY <1>4 DEF Judged, At
<1> QED
  BY <1>2, <1>5, <1>6, <1>7, <1>8, <1>9

\* The health of every resolver starts afresh, also under a probe.
LEMMA InitMetaKeeps ==
    ASSUME PoolInv, UNCHANGED policy, NEW a \in accepted, InitResolverRecheckMeta(a)
    PROVE  PoolInv'
<1> USE ResolverPoolAssumption DEF PoolInv, InitResolverRecheckMeta, flagVars, planVars
<1>1. \A s \in Slots : Key(s) # Nobody => Key(s) \in Resolvers /\ Key(s) \in twice'
  BY DEF PoolTypeOK, NoProbe, Key
<1>2. twice' \subseteq Resolvers
  <2>1. ASSUME NEW t \in Slots, probes[t] # NoProbe PROVE Key(t) \in Resolvers
    BY <2>1 DEF PoolTypeOK, Key
  <2> QED
    BY <2>1 DEF PoolTypeOK
<1>3. events' \in [Resolvers -> 0 .. MinEvents] /\ passed' \in [Resolvers -> 0 .. Successes]
  OBVIOUS
<1>4. PoolTypeOK'
  BY <1>2, <1>3 DEF PoolTypeOK
<1>5. (ProbesAccounted /\ Flagged)'
  BY <1>1 DEF ProbesAccounted, Flagged, Key
<1>6. (NotHalfDisabled /\ CrossedWhenBack /\ PlanCurrent /\ ChoiceCurrent)'
  BY DEF NotHalfDisabled, CrossedWhenBack, At, PlanCurrent, ChoiceCurrent
<1>7. Judged'
  BY JudgedKept
<1> QED
  BY <1>4, <1>5, <1>6, <1>7

\* A stream selects a plan, or caches the one it selected.
LEMMA PlanningKeeps ==
    ASSUME PoolInv, UNCHANGED policy, SelectPlan \/ CachePlan
    PROVE  PoolInv'
<1> USE ResolverPoolAssumption DEF PoolInv, SelectPlan, CachePlan, flagVars
<1>1. Active \subseteq {r \in Resolvers : valid[r]}
  BY ActiveIsValid DEF PoolTypeOK, Active
<1>2. PoolTypeOK'
  BY <1>1 DEF PoolTypeOK
<1>3. (ProbesAccounted /\ Flagged)'
  BY DEF ProbesAccounted, Flagged, Key
<1>4. (NotHalfDisabled /\ CrossedWhenBack)'
  BY DEF NotHalfDisabled, Key, CrossedWhenBack, At
<1>5. (PlanCurrent /\ ChoiceCurrent)'
  BY <1>1 DEF PlanCurrent, ChoiceCurrent
<1>6. Judged'
  BY JudgedKept
<1> QED
  BY <1>2, <1>3, <1>4, <1>5, <1>6
-----------------------------------------------------------------------------
(* The theorems.                                                            *)

\* Every step keeps the invariant.
LEMMA PoolInvStep == PoolInv /\ [PoolNext]_poolVars => PoolInv'
<1>1. ASSUME PoolInv, PoolNext PROVE PoolInv'
  <2> USE <1>1
  <2>1. UNCHANGED policy /\ PoolStep
    BY DEF PoolNext
  <2>2. ASSUME NEW r \in Resolvers,
               \/ NoteTimeout(r) \/ NoteSuccess(r)
               \/ MarkDisabled(r) \/ ScanRejects(r) \/ ScanAccepts(r)
        PROVE  PoolInv'
    BY <2>1, <2>2, NotingKeeps, MarkDisabledKeeps, ScanningKeeps
  <2>3. ASSUME Collect \/ Skip \/ Invalidate \/ FinishDisable
        PROVE  PoolInv'
    BY <2>1, <2>3, CollectingKeeps, InvalidateKeeps, FinishDisableKeeps
  <2>4. ASSUME NEW s \in Slots, NEW r \in Resolvers, StartRecheck(s, r)
        PROVE  PoolInv'
    BY <2>1, <2>4, StartRecheckKeeps
  <2>5. ASSUME NEW s \in Slots,
               RecheckFails(s) \/ RecheckPasses(s) \/ Reactivate(s) \/ FinishReactivation(s)
        PROVE  PoolInv'
    BY <2>1, <2>5, RecheckFailsKeeps, RecheckPassesKeeps, ReactivateKeeps,
       FinishReactivationKeeps
  <2>6. ASSUME NEW a \in accepted, RefreshValidConnections(a) \/ InitResolverRecheckMeta(a)
        PROVE  PoolInv'
    BY <2>1, <2>6, RefreshKeeps, InitMetaKeeps
  <2>7. ASSUME SelectPlan \/ CachePlan
        PROVE  PoolInv'
    BY <2>1, <2>7, PlanningKeeps
  <2> QED
    BY <2>1, <2>2, <2>3, <2>4, <2>5, <2>6, <2>7 DEF PoolStep
<1>2. ASSUME PoolInv, UNCHANGED poolVars PROVE PoolInv'
  <2> USE <1>2 DEF PoolInv, poolVars, flagVars, planVars
  <2>1. PoolTypeOK'
    BY DEF PoolTypeOK
  <2>2. (ProbesAccounted /\ Flagged /\ NotHalfDisabled)'
    BY DEF ProbesAccounted, Flagged, NotHalfDisabled, Key
  <2>3. (CrossedWhenBack /\ PlanCurrent /\ ChoiceCurrent)'
    BY DEF CrossedWhenBack, At, PlanCurrent, ChoiceCurrent
  <2>4. Judged'
    BY JudgedKept
  <2> QED
    BY <2>1, <2>2, <2>3, <2>4
<1> QED
  BY <1>1, <1>2

\* The invariant holds throughout.
THEOREM PoolInvariant == PoolSpec => []PoolInv
BY PoolInvInit, PoolInvStep, PTL DEF PoolSpec

\* Every variable of the resolver pool stays in its type.
THEOREM PoolTypeCorrect == PoolSpec => []PoolTypeOK
<1>1. PoolInv => PoolTypeOK
  BY DEF PoolInv
<1> QED
  BY <1>1, PoolInvariant, PTL

\* However answers, the health loop, rechecks and the scan interleave: rechecks
\* are accounted for, a resolver that counts as active is not held disabled, and
\* a cached plan names valid resolvers.
THEOREM PoolIsSound == PoolSpec => []PoolSound
<1>1. PoolInv => PoolSound
  BY DEF PoolInv, PoolSound
<1> QED
  BY <1>1, PoolInvariant, PTL

\* The health loop never takes the last resolvers, though it decides in one
\* critical section and acts in another.
THEOREM FloorIsKept == PoolSpec => FloorKept
<1>1. ASSUME PoolInv, [PoolNext]_poolVars, At("marked"), loop'.at = "invalid",
             valid' # valid, meanwhile # "scan"
      PROVE  /\ Cardinality({r \in Resolvers : valid'[r]}) >= LeastLeft
             /\ meanwhile = "nothing" /\ ~(policy.weighted /\ OneFamily) =>
                   Cardinality(ActiveOf(valid')) >= LeastLeft
  <2> USE <1>1
  <2>1. Invalidate
    <3>1. loop' # loop
      BY DEF At
    <3> QED
      BY <3>1 DEF PoolNext, PoolStep, poolVars, flagVars, planVars, At, AtRest,
         NoteTimeout, NoteSuccess, MarkDisabled, ScanRejects, ScanAccepts, Collect,
         Skip, FinishDisable, StartRecheck, RecheckFails, RecheckPasses, Reactivate,
         FinishReactivation, RefreshValidConnections, InitResolverRecheckMeta,
         SelectPlan, CachePlan
  <2>2. valid' = ValidWithout(loop.r)
    BY <2>1 DEF Invalidate, SetValidity, ValidWithout
  <2>3. {r \in Resolvers : valid'[r]} = Others(loop.r)
    BY <2>2 DEF Others
  <2> QED
    BY <2>2, <2>3 DEF PoolInv, Judged
<1>2. PoolInv /\ [PoolNext]_poolVars =>
         [At("marked") /\ loop'.at = "invalid" /\ valid' # valid /\ meanwhile # "scan" =>
            /\ Cardinality({r \in Resolvers : valid'[r]}) >= LeastLeft
            /\ meanwhile = "nothing" /\ ~(policy.weighted /\ OneFamily) =>
                  Cardinality(ActiveOf(valid')) >= LeastLeft]_poolVars
  BY <1>1
<1> QED
  BY <1>2, PoolInvariant, PTL DEF PoolSpec, FloorKept

-----------------------------------------------------------------------------
(* The client's table of connections.                                       *)

\* Who is about to remove a connection from the table has closed it.  Without
\* this a removal could take an open connection out of everybody's sight.
ClosedFirst ==
    /\ \A w \in Senders : sender[w].step = "failed" => sender[w].conn \notin sockets
    /\ \A c \in Dials : reading[c] # "none" => c <= dialed
    /\ \A c \in Dials : reading[c] \in {"closed", "ended"} => c \notin sockets

\* What a worker holds has been dialed; what it just dialed is a socket.
DialedBefore ==
    \A w \in Senders : /\ sender[w].conn <= dialed
                       /\ sender[w].step = "dialed" => sender[w].conn # 0

\* Stop empties the table once, and nobody fills it again.
Stopped ==
    /\ life = "runs" => closing = {}
    /\ life # "runs" => current = 0
    /\ life = "stopped" => \A w \in Senders : sender[w].step = "exited"

ConnsInv == ConnsTypeOK /\ DialedBefore /\ ClosedFirst /\ Stopped /\ NoStrays

SenderSteps == {"idle", "asks", "dials", "dialed", "writes", "failed", "exited"}
SenderType == sender \in [Senders -> [step : SenderSteps, conn : Dials \cup {0}]]

Turned(w, s, on) ==
    /\ SenderType'
    /\ sender'[w].step = s /\ sender'[w].conn = on
    /\ \A v \in Senders : v # w => sender'[v] = sender[v]

(* One worker moves on, the others stay.                                    *)
LEMMA OneTurns ==
    ASSUME SenderType, NEW w \in Senders, NEW s \in SenderSteps, NEW on \in Dials \cup {0},
           Turns(w, s, on)
    PROVE  Turned(w, s, on)
BY DEF Turns, AtStep, SenderType, Turned

\* The connection a sender is at was dialed, or it is at none.
LEMMA SenderConns ==
    ASSUME ConnsInv
    PROVE  \A v \in Senders : sender[v].conn \in Dials \cup {0} /\ sender[v].conn <= dialed
<1> TAKE v \in Senders
<1>1. sender[v] \in [step : SenderSteps, conn : Dials \cup {0}]
  BY DEF ConnsInv, ConnsTypeOK, SenderSteps
<1>2. sender[v].conn <= dialed
  BY DEF ConnsInv, DialedBefore
<1> QED
  BY <1>1, <1>2

\* The invariant holds at the start: there are no sockets.
LEMMA ConnsInvInit == ConnsInit => ConnsInv
BY StreamConnsAssumption
DEF ConnsInit, ConnsInv, ConnsTypeOK, ClosedFirst, DialedBefore, Stopped, NoStrays, Dials, IdleSender, AtStep

\* Every step of a worker, of a reader and of Stop keeps it.
LEMMA ConnsInvStep == ConnsInv /\ [ConnsNext]_connectionVars => ConnsInv'
<1> SUFFICES ASSUME ConnsInv, [ConnsNext]_connectionVars PROVE ConnsInv'
  OBVIOUS
<1> USE StreamConnsAssumption DEF ConnsInv, Dials, AtStep
<1>1. CASE Submit
  <2>1. ConnsTypeOK'
    BY <1>1 DEF Submit, ConnsTypeOK
  <2>2. DialedBefore'
    BY <1>1 DEF Submit, ConnsTypeOK, DialedBefore
  <2>3. ClosedFirst'
    BY <1>1 DEF Submit, ConnsTypeOK, DialedBefore, ClosedFirst
  <2>4. Stopped'
    BY <1>1 DEF Submit, Stopped
  <2>5. NoStrays'
    BY <1>1 DEF Submit, ConnsTypeOK, ClosedFirst, Stopped, NoStrays
  <2> QED
    BY <2>1, <2>2, <2>3, <2>4, <2>5
<1>2. CASE StopConns
  <2>1. ConnsTypeOK'
    BY <1>2 DEF StopConns, ConnsTypeOK
  <2>2. DialedBefore'
    BY <1>2 DEF StopConns, ConnsTypeOK, DialedBefore
  <2>3. ClosedFirst'
    BY <1>2 DEF StopConns, ConnsTypeOK, DialedBefore, ClosedFirst
  <2>4. Stopped'
    BY <1>2 DEF StopConns, Stopped
  <2>5. NoStrays'
    BY <1>2 DEF StopConns, ConnsTypeOK, ClosedFirst, Stopped, NoStrays
  <2> QED
    BY <2>1, <2>2, <2>3, <2>4, <2>5
<1>3. CASE StopReturns
  <2>1. ConnsTypeOK'
    BY <1>3 DEF StopReturns, ConnsTypeOK
  <2>2. DialedBefore'
    BY <1>3 DEF StopReturns, ConnsTypeOK, DialedBefore
  <2>3. ClosedFirst'
    BY <1>3 DEF StopReturns, ConnsTypeOK, DialedBefore, ClosedFirst
  <2>4. Stopped'
    BY <1>3 DEF StopReturns, Stopped
  <2>5. NoStrays'
    BY <1>3 DEF StopReturns, ConnsTypeOK, ClosedFirst, Stopped, NoStrays
  <2> QED
    BY <2>1, <2>2, <2>3, <2>4, <2>5
<1>4. ASSUME NEW w \in Senders, TakeJob(w) PROVE ConnsInv'
  <2>1. CASE Turns(w, "asks", 0)
    <3>1. Turned(w, "asks", 0)
      BY <1>4, <2>1, OneTurns DEF TakeJob, IdleSender, ConnsTypeOK, SenderType, SenderSteps
    <3>2. ConnsTypeOK'
      BY <1>4, <2>1, <3>1 DEF TakeJob, IdleSender, ConnsTypeOK, SenderType, SenderSteps, Turned
    <3>3. DialedBefore'
      BY <1>4, <2>1, <3>1 DEF TakeJob, IdleSender, ConnsTypeOK, DialedBefore, Turned
    <3>4. ClosedFirst'
      BY <1>4, <2>1, <3>1 DEF TakeJob, IdleSender, ConnsTypeOK, DialedBefore, ClosedFirst, Turned
    <3>5. Stopped'
      BY <1>4, <2>1, <3>1 DEF TakeJob, IdleSender, Stopped, Turned
    <3>6. NoStrays'
      BY <1>4, <2>1, <3>1 DEF TakeJob, IdleSender, ConnsTypeOK, ClosedFirst, Stopped, NoStrays, Turned
    <3> QED
      BY <3>2, <3>3, <3>4, <3>5, <3>6
  <2> QED
    BY <1>4, <2>1 DEF TakeJob, IdleSender
<1>5. ASSUME NEW w \in Senders, SenderExits(w) PROVE ConnsInv'
  <2>1. CASE Turns(w, "exited", 0)
    <3>1. Turned(w, "exited", 0)
      BY <1>5, <2>1, OneTurns DEF SenderExits, IdleSender, ConnsTypeOK, SenderType, SenderSteps
    <3>2. ConnsTypeOK'
      BY <1>5, <2>1, <3>1 DEF SenderExits, IdleSender, ConnsTypeOK, SenderType, SenderSteps, Turned
    <3>3. DialedBefore'
      BY <1>5, <2>1, <3>1 DEF SenderExits, IdleSender, ConnsTypeOK, DialedBefore, Turned
    <3>4. ClosedFirst'
      BY <1>5, <2>1, <3>1 DEF SenderExits, IdleSender, ConnsTypeOK, DialedBefore, ClosedFirst, Turned
    <3>5. Stopped'
      BY <1>5, <2>1, <3>1 DEF SenderExits, IdleSender, Stopped, Turned
    <3>6. NoStrays'
      BY <1>5, <2>1, <3>1 DEF SenderExits, IdleSender, ConnsTypeOK, ClosedFirst, Stopped, NoStrays, Turned
    <3> QED
      BY <3>2, <3>3, <3>4, <3>5, <3>6
  <2> QED
    BY <1>5, <2>1 DEF SenderExits, IdleSender
<1>6. ASSUME NEW w \in Senders, LookUp(w) PROVE ConnsInv'
  <2>1. CASE Turns(w, "idle", 0)
    <3>1. Turned(w, "idle", 0)
      BY <1>6, <2>1, OneTurns DEF LookUp, ConnsTypeOK, SenderType, SenderSteps
    <3>2. ConnsTypeOK'
      BY <1>6, <2>1, <3>1 DEF LookUp, ConnsTypeOK, SenderType, SenderSteps, Turned
    <3>3. DialedBefore'
      BY <1>6, <2>1, <3>1 DEF LookUp, ConnsTypeOK, DialedBefore, Turned
    <3>4. ClosedFirst'
      BY <1>6, <2>1, <3>1 DEF LookUp, ConnsTypeOK, DialedBefore, ClosedFirst, Turned
    <3>5. Stopped'
      BY <1>6, <2>1, <3>1 DEF LookUp, Stopped, Turned
    <3>6. NoStrays'
      BY <1>6, <2>1, <3>1 DEF LookUp, ConnsTypeOK, ClosedFirst, Stopped, NoStrays, Turned
    <3> QED
      BY <3>2, <3>3, <3>4, <3>5, <3>6
  <2>2. CASE Turns(w, "writes", current)
    <3>1. current \in Dials \cup {0}
      BY DEF ConnsTypeOK
    <3>2. Turned(w, "writes", current)
      BY <1>6, <2>2, <3>1, OneTurns DEF LookUp, ConnsTypeOK, SenderType, SenderSteps
    <3>3. ConnsTypeOK'
      BY <1>6, <2>2, <3>1, <3>2 DEF LookUp, ConnsTypeOK, SenderType, SenderSteps, Turned
    <3>4. DialedBefore'
      BY <1>6, <2>2, <3>1, <3>2 DEF LookUp, ConnsTypeOK, DialedBefore, Turned
    <3>5. ClosedFirst'
      BY <1>6, <2>2, <3>1, <3>2 DEF LookUp, ConnsTypeOK, DialedBefore, ClosedFirst, Turned
    <3>6. Stopped'
      BY <1>6, <2>2, <3>1, <3>2 DEF LookUp, Stopped, Turned
    <3>7. NoStrays'
      BY <1>6, <2>2, <3>1, <3>2 DEF LookUp, ConnsTypeOK, ClosedFirst, Stopped, NoStrays, Turned
    <3> QED
      BY <3>3, <3>4, <3>5, <3>6, <3>7
  <2>3. CASE Turns(w, "dials", 0)
    <3>1. Turned(w, "dials", 0)
      BY <1>6, <2>3, OneTurns DEF LookUp, ConnsTypeOK, SenderType, SenderSteps
    <3>2. ConnsTypeOK'
      BY <1>6, <2>3, <3>1 DEF LookUp, ConnsTypeOK, SenderType, SenderSteps, Turned
    <3>3. DialedBefore'
      BY <1>6, <2>3, <3>1 DEF LookUp, ConnsTypeOK, DialedBefore, Turned
    <3>4. ClosedFirst'
      BY <1>6, <2>3, <3>1 DEF LookUp, ConnsTypeOK, DialedBefore, ClosedFirst, Turned
    <3>5. Stopped'
      BY <1>6, <2>3, <3>1 DEF LookUp, Stopped, Turned
    <3>6. NoStrays'
      BY <1>6, <2>3, <3>1 DEF LookUp, ConnsTypeOK, ClosedFirst, Stopped, NoStrays, Turned
    <3> QED
      BY <3>2, <3>3, <3>4, <3>5, <3>6
  <2> QED
    BY <1>6, <2>1, <2>2, <2>3 DEF LookUp
<1>7. ASSUME NEW w \in Senders, Dial(w) PROVE ConnsInv'
  <2>1. CASE Turns(w, "idle", 0) /\ UNCHANGED <<dialed, sockets>>
    <3>1. Turned(w, "idle", 0)
      BY <1>7, <2>1, OneTurns DEF Dial, ConnsTypeOK, SenderType, SenderSteps
    <3>2. ConnsTypeOK'
      BY <1>7, <2>1, <3>1 DEF Dial, ConnsTypeOK, SenderType, SenderSteps, Turned
    <3>3. DialedBefore'
      BY <1>7, <2>1, <3>1 DEF Dial, ConnsTypeOK, DialedBefore, Turned
    <3>4. ClosedFirst'
      BY <1>7, <2>1, <3>1 DEF Dial, ConnsTypeOK, DialedBefore, ClosedFirst, Turned
    <3>5. Stopped'
      BY <1>7, <2>1, <3>1 DEF Dial, Stopped, Turned
    <3>6. NoStrays'
      BY <1>7, <2>1, <3>1 DEF Dial, ConnsTypeOK, ClosedFirst, Stopped, NoStrays, Turned
    <3> QED
      BY <3>2, <3>3, <3>4, <3>5, <3>6
  <2>2. CASE /\ dialed < MaxDials /\ dialed' = dialed + 1
             /\ sockets' = sockets \cup {dialed + 1} /\ Turns(w, "dialed", dialed + 1)
    <3>1. dialed \in Nat /\ dialed + 1 \in Dials
      BY <2>2 DEF ConnsTypeOK
    <3>2. \A v \in Senders : sender[v].conn \in Dials \cup {0} /\ sender[v].conn <= dialed
      BY SenderConns
    <3>3. Turned(w, "dialed", dialed + 1)
      BY <1>7, <2>2, <3>1, <3>2, OneTurns DEF Dial, ConnsTypeOK, SenderType, SenderSteps
    <3>4. ConnsTypeOK'
      BY <1>7, <2>2, <3>1, <3>2, <3>3 DEF Dial, ConnsTypeOK, SenderType, SenderSteps, Turned
    <3>5. DialedBefore'
      BY <1>7, <2>2, <3>1, <3>2, <3>3 DEF Dial, ConnsTypeOK, DialedBefore, Turned
    <3>6. ClosedFirst'
      BY <1>7, <2>2, <3>1, <3>2, <3>3 DEF Dial, ConnsTypeOK, DialedBefore, ClosedFirst, Turned
    <3>7. Stopped'
      BY <1>7, <2>2, <3>1, <3>2, <3>3 DEF Dial, Stopped, Turned
    <3>8. NoStrays'
      BY <1>7, <2>2, <3>1, <3>2, <3>3 DEF Dial, ConnsTypeOK, ClosedFirst, Stopped, NoStrays, Turned
    <3> QED
      BY <3>4, <3>5, <3>6, <3>7, <3>8
  <2> QED
    BY <1>7, <2>1, <2>2 DEF Dial
<1>8. ASSUME NEW w \in Senders, Register(w) PROVE ConnsInv'
  <2> DEFINE mine == sender[w].conn
  <2>1. CASE life # "runs" /\ sockets' = sockets \ {mine} /\ Turns(w, "idle", 0) /\ UNCHANGED <<current, reading>>
    <3>1. Turned(w, "idle", 0)
      BY <1>8, <2>1, OneTurns DEF Register, ConnsTypeOK, SenderType, SenderSteps
    <3>2. ConnsTypeOK'
      BY <1>8, <2>1, <3>1 DEF Register, ConnsTypeOK, SenderType, SenderSteps, Turned
    <3>3. DialedBefore'
      BY <1>8, <2>1, <3>1 DEF Register, ConnsTypeOK, DialedBefore, Turned
    <3>4. ClosedFirst'
      BY <1>8, <2>1, <3>1 DEF Register, ConnsTypeOK, DialedBefore, ClosedFirst, Turned
    <3>5. Stopped'
      BY <1>8, <2>1, <3>1 DEF Register, Stopped, Turned
    <3>6. NoStrays'
      BY <1>8, <2>1, <3>1 DEF Register, ConnsTypeOK, ClosedFirst, Stopped, NoStrays, Turned
    <3> QED
      BY <3>2, <3>3, <3>4, <3>5, <3>6
  <2>2. CASE sockets' = sockets \ {mine} /\ Turns(w, "writes", current) /\ UNCHANGED <<current, reading>>
    <3>1. current \in Dials \cup {0}
      BY DEF ConnsTypeOK
    <3>2. Turned(w, "writes", current)
      BY <1>8, <2>2, <3>1, OneTurns DEF Register, ConnsTypeOK, SenderType, SenderSteps
    <3>3. ConnsTypeOK'
      BY <1>8, <2>2, <3>1, <3>2 DEF Register, ConnsTypeOK, SenderType, SenderSteps, Turned
    <3>4. DialedBefore'
      BY <1>8, <2>2, <3>1, <3>2 DEF Register, ConnsTypeOK, DialedBefore, Turned
    <3>5. ClosedFirst'
      BY <1>8, <2>2, <3>1, <3>2 DEF Register, ConnsTypeOK, DialedBefore, ClosedFirst, Turned
    <3>6. Stopped'
      BY <1>8, <2>2, <3>1, <3>2 DEF Register, Stopped, Turned
    <3>7. NoStrays'
      BY <1>8, <2>2, <3>1, <3>2 DEF Register, ConnsTypeOK, ClosedFirst, Stopped, NoStrays, Turned
    <3> QED
      BY <3>3, <3>4, <3>5, <3>6, <3>7
  <2>3. CASE /\ life = "runs" /\ current' = mine /\ reading' = [reading EXCEPT ![mine] = "reads"]
             /\ Turns(w, "writes", mine) /\ UNCHANGED sockets
    <3>1. \A v \in Senders : sender[v].conn \in Dials \cup {0} /\ sender[v].conn <= dialed
      BY SenderConns
    <3>2. mine \in Dials /\ mine \in 0 .. dialed
      BY <1>8, <3>1 DEF Register, DialedBefore, ConnsTypeOK
    <3>3. Turned(w, "writes", mine)
      BY <1>8, <2>3, <3>1, <3>2, OneTurns DEF Register, ConnsTypeOK, SenderType, SenderSteps
    <3>4. ConnsTypeOK'
      BY <1>8, <2>3, <3>1, <3>2, <3>3 DEF Register, ConnsTypeOK, SenderType, SenderSteps, Turned
    <3>5. DialedBefore'
      BY <1>8, <2>3, <3>1, <3>2, <3>3 DEF Register, ConnsTypeOK, DialedBefore, Turned
    <3>6. ClosedFirst'
      BY <1>8, <2>3, <3>1, <3>2, <3>3 DEF Register, ConnsTypeOK, DialedBefore, ClosedFirst, Turned
    <3>7. Stopped'
      BY <1>8, <2>3, <3>1, <3>2, <3>3 DEF Register, Stopped, Turned
    <3>8. NoStrays'
      BY <1>8, <2>3, <3>1, <3>2, <3>3 DEF Register, ConnsTypeOK, ClosedFirst, Stopped, NoStrays, Turned
    <3> QED
      BY <3>4, <3>5, <3>6, <3>7, <3>8
  <2> QED
    BY <1>8, <2>1, <2>2, <2>3 DEF Register, Late
<1>9. ASSUME NEW w \in Senders, WriteJob(w) PROVE ConnsInv'
  <2>1. CASE sender[w].conn \in sockets /\ Turns(w, "idle", 0) /\ UNCHANGED sockets
    <3>1. Turned(w, "idle", 0)
      BY <1>9, <2>1, OneTurns DEF WriteJob, ConnsTypeOK, SenderType, SenderSteps
    <3>2. ConnsTypeOK'
      BY <1>9, <2>1, <3>1 DEF WriteJob, ConnsTypeOK, SenderType, SenderSteps, Turned
    <3>3. DialedBefore'
      BY <1>9, <2>1, <3>1 DEF WriteJob, ConnsTypeOK, DialedBefore, Turned
    <3>4. ClosedFirst'
      BY <1>9, <2>1, <3>1 DEF WriteJob, ConnsTypeOK, DialedBefore, ClosedFirst, Turned
    <3>5. Stopped'
      BY <1>9, <2>1, <3>1 DEF WriteJob, Stopped, Turned
    <3>6. NoStrays'
      BY <1>9, <2>1, <3>1 DEF WriteJob, ConnsTypeOK, ClosedFirst, Stopped, NoStrays, Turned
    <3> QED
      BY <3>2, <3>3, <3>4, <3>5, <3>6
  <2>2. CASE sockets' = sockets \ {sender[w].conn} /\ Turns(w, "failed", sender[w].conn)
    <3>1. sender[w].conn \in Dials \cup {0}
      BY DEF ConnsTypeOK
    <3>2. Turned(w, "failed", sender[w].conn)
      BY <1>9, <2>2, <3>1, OneTurns DEF WriteJob, ConnsTypeOK, SenderType, SenderSteps
    <3>3. ConnsTypeOK'
      BY <1>9, <2>2, <3>1, <3>2 DEF WriteJob, ConnsTypeOK, SenderType, SenderSteps, Turned
    <3>4. DialedBefore'
      BY <1>9, <2>2, <3>1, <3>2 DEF WriteJob, ConnsTypeOK, DialedBefore, Turned
    <3>5. ClosedFirst'
      BY <1>9, <2>2, <3>1, <3>2 DEF WriteJob, ConnsTypeOK, DialedBefore, ClosedFirst, Turned
    <3>6. Stopped'
      BY <1>9, <2>2, <3>1, <3>2 DEF WriteJob, Stopped, Turned
    <3>7. NoStrays'
      BY <1>9, <2>2, <3>1, <3>2 DEF WriteJob, ConnsTypeOK, ClosedFirst, Stopped, NoStrays, Turned
    <3> QED
      BY <3>3, <3>4, <3>5, <3>6, <3>7
  <2> QED
    BY <1>9, <2>1, <2>2 DEF WriteJob
<1>10. ASSUME NEW w \in Senders, RemoveFailed(w) PROVE ConnsInv'
  <2>1. CASE Turns(w, "idle", 0)
    <3>1. Turned(w, "idle", 0)
      BY <1>10, <2>1, OneTurns DEF RemoveFailed, Removes, ConnsTypeOK, SenderType, SenderSteps
    <3>2. ConnsTypeOK'
      BY <1>10, <2>1, <3>1 DEF RemoveFailed, Removes, ConnsTypeOK, SenderType, SenderSteps, Turned
    <3>3. DialedBefore'
      BY <1>10, <2>1, <3>1 DEF RemoveFailed, Removes, ConnsTypeOK, DialedBefore, Turned
    <3>4. ClosedFirst'
      BY <1>10, <2>1, <3>1 DEF RemoveFailed, Removes, ConnsTypeOK, DialedBefore, ClosedFirst, Turned
    <3>5. Stopped'
      BY <1>10, <2>1, <3>1 DEF RemoveFailed, Removes, Stopped, Turned
    <3>6. NoStrays'
      BY <1>10, <2>1, <3>1 DEF RemoveFailed, Removes, ConnsTypeOK, ClosedFirst, Stopped, NoStrays, Turned
    <3> QED
      BY <3>2, <3>3, <3>4, <3>5, <3>6
  <2> QED
    BY <1>10, <2>1 DEF RemoveFailed, Removes
<1>11. ASSUME NEW c \in Dials, LoopCloses(c) PROVE ConnsInv'
  <2>1. ConnsTypeOK'
    BY <1>11 DEF LoopCloses, ConnsTypeOK
  <2>2. DialedBefore'
    BY <1>11 DEF LoopCloses, ConnsTypeOK, DialedBefore
  <2>3. ClosedFirst'
    BY <1>11 DEF LoopCloses, ConnsTypeOK, DialedBefore, ClosedFirst
  <2>4. Stopped'
    BY <1>11 DEF LoopCloses, Stopped
  <2>5. NoStrays'
    BY <1>11 DEF LoopCloses, ConnsTypeOK, ClosedFirst, Stopped, NoStrays
  <2> QED
    BY <2>1, <2>2, <2>3, <2>4, <2>5
<1>12. ASSUME NEW c \in Dials, LoopRemoves(c) PROVE ConnsInv'
  <2>1. ConnsTypeOK'
    BY <1>12 DEF LoopRemoves, Removes, ConnsTypeOK
  <2>2. DialedBefore'
    BY <1>12 DEF LoopRemoves, Removes, ConnsTypeOK, DialedBefore
  <2>3. ClosedFirst'
    BY <1>12 DEF LoopRemoves, Removes, ConnsTypeOK, DialedBefore, ClosedFirst
  <2>4. Stopped'
    BY <1>12 DEF LoopRemoves, Removes, Stopped
  <2>5. NoStrays'
    BY <1>12 DEF LoopRemoves, Removes, ConnsTypeOK, ClosedFirst, Stopped, NoStrays
  <2> QED
    BY <2>1, <2>2, <2>3, <2>4, <2>5
<1>13. ASSUME NEW c \in Dials, CloseTaken(c) PROVE ConnsInv'
  <2>1. ConnsTypeOK'
    BY <1>13 DEF CloseTaken, ConnsTypeOK
  <2>2. DialedBefore'
    BY <1>13 DEF CloseTaken, ConnsTypeOK, DialedBefore
  <2>3. ClosedFirst'
    BY <1>13 DEF CloseTaken, ConnsTypeOK, DialedBefore, ClosedFirst
  <2>4. Stopped'
    BY <1>13 DEF CloseTaken, Stopped
  <2>5. NoStrays'
    BY <1>13 DEF CloseTaken, ConnsTypeOK, ClosedFirst, Stopped, NoStrays
  <2> QED
    BY <2>1, <2>2, <2>3, <2>4, <2>5
<1>14. CASE UNCHANGED connectionVars
  <2>1. ConnsTypeOK'
    BY <1>14 DEF connectionVars, ConnsTypeOK
  <2>2. DialedBefore'
    BY <1>14 DEF connectionVars, ConnsTypeOK, DialedBefore
  <2>3. ClosedFirst'
    BY <1>14 DEF connectionVars, ConnsTypeOK, DialedBefore, ClosedFirst
  <2>4. Stopped'
    BY <1>14 DEF connectionVars, Stopped
  <2>5. NoStrays'
    BY <1>14 DEF connectionVars, ConnsTypeOK, ClosedFirst, Stopped, NoStrays
  <2> QED
    BY <2>1, <2>2, <2>3, <2>4, <2>5
<1> QED
  BY <1>1, <1>2, <1>3, <1>4, <1>5, <1>6, <1>7, <1>8, <1>9, <1>10, <1>11, <1>12, <1>13, <1>14
  DEF ConnsNext

\* An open socket always has somebody who will use or close it, and none is
\* left when Stop returns: whichever of a failed write, a closed read, a lost
\* dial race and Stop come together.
THEOREM NoConnectionLeftBehind == ConnsSpec => []NoStrays
<1>1. ConnsInv => NoStrays
  BY DEF ConnsInv
<1> QED
  BY <1>1, ConnsInvInit, ConnsInvStep, PTL DEF ConnsSpec

-----------------------------------------------------------------------------
(* The search for the MTU of a resolver.                                    *)

Verdicts == [ok : BOOLEAN, success : Nat, failed : Nat]
SearchType ==
    /\ budget \in Budgets
    /\ asking \in Candidates \cup {0} /\ best \in Candidates \cup {0}
    /\ success \in Nat /\ failed \in Nat
    /\ left \in Int /\ right \in Int
    /\ verdict \in [Candidates -> Verdicts]

\* What was found out of a candidate: it was refused, or accepted.
No(v) == v # NoVerdict /\ ~v.ok

\* Where the search stands: at the largest, at the smallest, or between two
\* neighbours of the range that is left, of which the lower one carries and the
\* upper one does not.
AtHighest == asking = Highest /\ best = 0 /\ left = LowEnd /\ right = Highest
             /\ ~Settled(Highest)
AtLowest == asking = LowEnd /\ LowEnd # Highest /\ best = 0 /\ No(verdict[Highest])
            /\ left = LowEnd /\ right = Highest
Between ==
    /\ asking \in left .. right
    /\ LowEnd < left /\ right < Highest
    /\ best = left - 1 /\ verdict[best].ok /\ No(verdict[right + 1])
SearchOver ==
    /\ asking = 0
    /\ best # 0 => /\ verdict[best].ok
                   /\ best # Highest => No(verdict[best + 1])
    /\ best = 0 /\ Candidates # {} => No(verdict[LowEnd]) /\ No(verdict[Highest])

SearchInv ==
    /\ SearchType
    /\ VerdictCertain
    /\ AtHighest \/ AtLowest \/ Between \/ SearchOver

\* The candidates are the numbers from the low end to the highest one.
LEMMA LowEndFacts == LowEnd \in Nat \ {0} /\ Highest \in Nat
                     /\ Candidates = {c \in Nat : LowEnd <= c /\ c <= Highest}
BY MTUSearchAssumption DEF LowEnd, Candidates

\* A search begins at the highest candidate, or is over when there is none.
LEMMA SearchInvInit == SearchInit => SearchInv
<1> SUFFICES ASSUME SearchInit PROVE SearchInv
  OBVIOUS
<1>1. budget \in [samples : Nat \ {0}, allowed : Nat]
  BY MTUSearchAssumption DEF SearchInit
<1>2. SearchType
  BY LowEndFacts DEF SearchInit, SearchType, Verdicts, NoVerdict
<1>3. \A c \in Candidates : ~Settled(c)
  BY DEF SearchInit, Settled
<1>4. VerdictCertain
  BY <1>1, <1>3 DEF SearchInit, VerdictCertain, LossAware
<1>5. CASE Candidates = {}
  <2>1. asking = 0
    BY <1>5, LowEndFacts DEF SearchInit
  <2> QED
    BY <2>1, <1>2, <1>4, <1>5 DEF SearchInit, SearchInv, SearchOver
<1>6. CASE Candidates # {}
  <2>1. LowEnd <= Highest /\ Highest \in Candidates
    BY <1>6, LowEndFacts
  <2>2. asking = Highest
    BY <2>1, LowEndFacts DEF SearchInit
  <2> QED
    BY <2>1, <2>2, <1>2, <1>3, <1>4 DEF SearchInit, SearchInv, AtHighest
<1> QED
  BY <1>5, <1>6

\* The middle of a range is in it, and a half is smaller.
LEMMA Middle ==
    ASSUME NEW l \in Int, NEW r \in Int, l <= r
    PROVE  (l + r) \div 2 \in l .. r
OBVIOUS

\* A probe settles the candidate that is asked, counts, or tells nothing; in
\* every case the search stands at one of its places again.
LEMMA SearchInvStep == SearchInv /\ [SearchNext]_searchVars => SearchInv'
<1> SUFFICES ASSUME SearchInv, [SearchNext]_searchVars PROVE SearchInv'
  OBVIOUS
<1> USE DEF SearchInv
<1>1. CASE UNCHANGED searchVars
  BY <1>1 DEF searchVars, SearchType, VerdictCertain, LossAware, Settled, AtHighest, AtLowest,
              Between, SearchOver, No
<1>2. ASSUME NEW reply \in BOOLEAN, Probe(reply) PROVE SearchInv'
  <2> DEFINE s == success + (IF reply THEN 1 ELSE 0)
             f == failed + (IF reply THEN 0 ELSE 1)
             n == budget.samples
             k == budget.allowed
  <2>1. /\ budget \in [samples : Nat \ {0}, allowed : Nat] /\ n \in Nat \ {0} /\ k \in Nat
        /\ s \in Nat /\ f \in Nat /\ s + f = success + failed + 1
    BY MTUSearchAssumption DEF SearchType
  <2>2. asking # 0 /\ asking \in Candidates /\ asking \in Nat
    BY <1>2, LowEndFacts DEF Probe, SearchType
  <2>3. LossAware => s + f <= n
    BY <2>1, <2>2 DEF VerdictCertain, SearchType
  <2>4. CASE /\ ~Accepted(s, f) /\ ~Rejected(s, f)
             /\ success' = s /\ failed' = f
             /\ UNCHANGED <<asking, left, right, best, verdict>> /\ UNCHANGED budget
    <3>1. SearchType'
      BY <2>1, <2>4 DEF SearchType
    <3>2. LossAware => s + f < n
      BY <2>1, <2>3, <2>4 DEF Accepted, Rejected
    <3>3. VerdictCertain'
      BY <2>4, <3>2 DEF VerdictCertain, LossAware, Settled
    <3> QED
      BY <2>4, <3>1, <3>3 DEF AtHighest, AtLowest, Between, SearchOver, No, Settled
  <2>5. ASSUME NEW ok \in BOOLEAN, IF ok THEN Accepted(s, f) ELSE Rejected(s, f),
               AfterHighest(ok) \/ AfterLowest(ok) \/ AfterMiddle(ok),
               verdict' = [verdict EXCEPT ![asking] =
                   [ok |-> ok, success |-> s, failed |-> f]],
               budget' = budget
        PROVE  SearchInv'
    <3>1. /\ verdict' \in [Candidates -> Verdicts]
          /\ verdict'[asking].ok = ok
          /\ verdict'[asking].success = s /\ verdict'[asking].failed = f
          /\ verdict'[asking] # NoVerdict
      <4>1. verdict'[asking] = [ok |-> ok, success |-> s, failed |-> f]
        BY <2>2, <2>5 DEF SearchType
      <4>2. s # 0 \/ f # 0
        BY <2>1 DEF SearchType
      <4>3. [ok |-> ok, success |-> s, failed |-> f] # NoVerdict
        BY <4>2 DEF NoVerdict
      <4> QED
        BY <2>1, <2>2, <2>5, <4>1, <4>3 DEF SearchType, Verdicts
    <3>2. \A c \in Candidates : c # asking => verdict'[c] = verdict[c]
      BY <2>2, <2>5 DEF SearchType
    <3>3. /\ success' = 0 /\ failed' = 0
      BY <2>5 DEF AfterHighest, AfterLowest, AfterMiddle, Bisect, Ask
    <3>4. LossAware' = LossAware
      BY <2>5 DEF LossAware
    <3>5. VerdictCertain'
      <4>1. ASSUME LossAware, NEW c \in Candidates, Settled(c)'
            PROVE  LET unsent == n - verdict'[c].success - verdict'[c].failed
                   IN  IF verdict'[c].ok THEN verdict'[c].failed + unsent <= k
                       ELSE verdict'[c].failed > k
        <5>1. CASE c = asking
          <6>1. CASE ok
            BY <2>1, <2>3, <2>5, <3>1, <4>1, <5>1, <6>1 DEF Accepted
          <6>2. CASE ~ok
            BY <2>1, <2>5, <3>1, <4>1, <5>1, <6>2 DEF Rejected
          <6> QED
            BY <6>1, <6>2
        <5>2. CASE c # asking
          BY <3>2, <4>1, <5>2 DEF VerdictCertain, Settled
        <5> QED
          BY <5>1, <5>2
      <4>2. LossAware => success' + failed' < n
        BY <2>1, <3>3 DEF LossAware
      <4> QED
        BY <2>5, <3>4, <4>1, <4>2 DEF VerdictCertain
    <3>6. CASE AfterHighest(ok)
      <4>1. asking = Highest /\ ~Settled(Highest) /\ AtHighest
        BY <2>2, <3>6, LowEndFacts DEF AfterHighest, Settled, AtHighest, AtLowest, Between, SearchOver, SearchType
      <4>2. Highest \in Candidates /\ LowEnd \in Candidates
        BY <2>2, <4>1, LowEndFacts
      <4>3. CASE ok
        <5>1. best' = Highest /\ asking' = 0 /\ UNCHANGED <<left, right>>
          BY <3>6, <4>3 DEF AfterHighest, Ask
        <5>2. SearchType'
          BY <2>5, <3>1, <3>3, <4>2, <5>1 DEF SearchType
        <5>3. SearchOver'
          <6>1. Highest # 0
            BY <4>2, LowEndFacts
          <6>2. verdict'[Highest].ok
            BY <3>1, <4>1, <4>3
          <6> QED
            BY <5>1, <6>1, <6>2 DEF SearchOver
        <5> QED
          BY <3>5, <5>2, <5>3
      <4>4. CASE ~ok
        <5>1. /\ best' = 0 /\ UNCHANGED <<left, right>>
              /\ asking' = IF LowEnd = Highest THEN 0 ELSE LowEnd
          BY <3>6, <4>1, <4>4 DEF AfterHighest, Ask, AtHighest
        <5>2. SearchType'
          BY <2>5, <3>1, <3>3, <4>2, <5>1 DEF SearchType
        <5>3. No(verdict'[Highest])
          BY <3>1, <4>1, <4>4 DEF No
        <5>4. SearchOver' \/ AtLowest'
          BY <4>1, <5>1, <5>3 DEF SearchOver, AtLowest, AtHighest
        <5> QED
          BY <3>5, <5>2, <5>4
      <4> QED
        BY <4>3, <4>4
    <3>7. CASE AfterLowest(ok)
      <4>1. asking = LowEnd /\ LowEnd # Highest /\ AtLowest
        BY <2>2, <3>7, LowEndFacts DEF AfterLowest, AtHighest, AtLowest, Between, SearchOver, SearchType
      <4>2. Highest \in Candidates /\ LowEnd \in Candidates /\ LowEnd < Highest
        BY <2>2, <4>1, LowEndFacts
      <4>3. No(verdict'[Highest])
        BY <3>2, <4>1, <4>2 DEF AtLowest, No, Settled
      <4>4. CASE ok
        <5>1. /\ best' = LowEnd /\ left' = LowEnd + 1 /\ right' = Highest - 1
              /\ asking' = IF LowEnd + 1 <= Highest - 1
                           THEN (LowEnd + 1 + (Highest - 1)) \div 2 ELSE 0
          BY <3>7, <4>4 DEF AfterLowest, Bisect, Ask
        <5>2. verdict'[LowEnd].ok
          BY <3>1, <4>1, <4>4
        <5>3. right' + 1 = Highest /\ best' = left' - 1
          BY <5>1, LowEndFacts
        <5>4. CASE LowEnd + 1 <= Highest - 1
          <6>1. asking' \in left' .. right'
            BY <5>1, <5>4, Middle, LowEndFacts
          <6>2. asking' \in Candidates
            BY <5>1, <6>1, LowEndFacts
          <6>3. SearchType'
            BY <2>5, <3>1, <3>3, <4>2, <5>1, <6>2, LowEndFacts DEF SearchType
          <6>4. Between'
            BY <4>3, <5>1, <5>2, <5>3, <6>1, LowEndFacts DEF Between
          <6> QED
            BY <3>5, <6>3, <6>4
        <5>5. CASE ~(LowEnd + 1 <= Highest - 1)
          <6>1. asking' = 0 /\ best' + 1 = Highest
            BY <4>2, <5>1, <5>5, LowEndFacts
          <6>2. SearchType'
            BY <2>5, <3>1, <3>3, <4>2, <5>1, <6>1, LowEndFacts DEF SearchType
          <6>3. SearchOver'
            BY <4>3, <5>1, <5>2, <6>1, LowEndFacts DEF SearchOver
          <6> QED
            BY <3>5, <6>2, <6>3
        <5> QED
          BY <5>4, <5>5
      <4>5. CASE ~ok
        <5>1. asking' = 0 /\ best' = 0 /\ UNCHANGED <<left, right>>
          BY <3>7, <4>1, <4>5 DEF AfterLowest, Ask, AtLowest
        <5>2. SearchType'
          BY <2>5, <3>1, <3>3, <5>1 DEF SearchType
        <5>3. SearchOver'
          BY <3>1, <4>1, <4>3, <4>5, <5>1 DEF SearchOver, No
        <5> QED
          BY <3>5, <5>2, <5>3
      <4> QED
        BY <4>4, <4>5
    <3>8. CASE AfterMiddle(ok)
      <4>1. asking # Highest /\ asking # LowEnd /\ Between
        BY <2>2, <3>8, LowEndFacts DEF AfterMiddle, AtHighest, AtLowest, SearchOver
      <4>2. /\ LowEnd < left /\ left <= asking /\ asking <= right /\ right < Highest
            /\ left \in Int /\ right \in Int
        BY <4>1 DEF Between, SearchType
      <4>3. /\ best \in Candidates /\ best # asking /\ right + 1 \in Candidates
            /\ right + 1 # asking /\ best = left - 1
        BY <2>2, <4>1, <4>2, LowEndFacts DEF Between
      <4>4. verdict[best].ok /\ verdict'[best] = verdict[best] /\ No(verdict'[right + 1])
        BY <3>2, <4>1, <4>3 DEF Between, No, Settled
      <4>5. CASE ok
        <5>1. /\ best' = asking /\ left' = asking + 1 /\ right' = right
              /\ asking' = IF asking + 1 <= right THEN (asking + 1 + right) \div 2 ELSE 0
          BY <3>8, <4>5 DEF AfterMiddle, Bisect, Ask
        <5>2. verdict'[best'].ok
          BY <3>1, <4>5, <5>1
        <5>3. No(verdict'[right' + 1]) /\ best' = left' - 1
          BY <2>2, <4>4, <5>1 DEF No, Settled
        <5>4. CASE asking + 1 <= right
          <6>1. asking' \in left' .. right'
            BY <2>2, <4>2, <5>1, <5>4, Middle
          <6>2. asking' \in Candidates
            BY <2>2, <4>2, <5>1, <6>1, LowEndFacts
          <6>3. SearchType'
            BY <2>2, <2>5, <3>1, <3>3, <5>1, <6>2 DEF SearchType
          <6>4. Between'
            BY <2>2, <4>2, <5>1, <5>2, <5>3, <6>1, LowEndFacts DEF Between
          <6> QED
            BY <3>5, <6>3, <6>4
        <5>5. CASE ~(asking + 1 <= right)
          <6>1. asking' = 0 /\ best' + 1 = right' + 1
            BY <2>2, <4>2, <5>1, <5>5
          <6>2. SearchType'
            BY <2>2, <2>5, <3>1, <3>3, <5>1, <6>1 DEF SearchType
          <6>3. SearchOver'
            BY <2>2, <5>1, <5>2, <5>3, <6>1 DEF SearchOver
          <6> QED
            BY <3>5, <6>2, <6>3
        <5> QED
          BY <5>4, <5>5
      <4>6. CASE ~ok
        <5>1. /\ best' = best /\ left' = left /\ right' = asking - 1
              /\ asking' = IF left <= asking - 1 THEN (left + (asking - 1)) \div 2 ELSE 0
          BY <3>8, <4>6 DEF AfterMiddle, Bisect, Ask
        <5>2. verdict'[best'].ok
          BY <4>4, <5>1
        <5>3. right' + 1 = asking /\ No(verdict'[asking])
          BY <2>2, <3>1, <4>6, <5>1 DEF No
        <5>4. CASE left <= asking - 1
          <6>1. asking' \in left' .. right'
            BY <2>2, <4>2, <5>1, <5>4, Middle
          <6>2. asking' \in Candidates
            BY <2>2, <4>2, <5>1, <6>1, LowEndFacts
          <6>3. SearchType'
            BY <2>2, <2>5, <3>1, <3>3, <5>1, <6>2 DEF SearchType
          <6>4. Between'
            BY <2>2, <4>2, <4>3, <5>1, <5>2, <5>3, <6>1, LowEndFacts DEF Between, No, Settled
          <6> QED
            BY <3>5, <6>3, <6>4
        <5>5. CASE ~(left <= asking - 1)
          <6>1. asking' = 0 /\ best' + 1 = right' + 1
            BY <2>2, <4>2, <4>3, <5>1, <5>5
          <6>2. SearchType'
            BY <2>2, <2>5, <3>1, <3>3, <5>1, <6>1 DEF SearchType
          <6>3. SearchOver'
            BY <4>3, <5>1, <5>2, <5>3, <6>1, LowEndFacts DEF SearchOver, No, Settled
          <6> QED
            BY <3>5, <6>2, <6>3
        <5> QED
          BY <5>4, <5>5
      <4> QED
        BY <4>5, <4>6
    <3> QED
      BY <2>5, <3>6, <3>7, <3>8
  <2> QED
    BY <1>2, <2>4, <2>5 DEF Probe
<1> QED
  BY <1>1, <1>2 DEF SearchNext, Answers

LEMMA SearchInvFound == SearchInv => MTUFound
<1> SUFFICES ASSUME SearchInv PROVE SearchSound
  BY DEF MTUFound, SearchInv
<1>1. SearchType /\ (AtHighest \/ AtLowest \/ Between \/ SearchOver)
  BY DEF SearchInv
<1>2. best # 0 => best \in Candidates /\ verdict[best].ok
  BY <1>1 DEF SearchType, AtHighest, AtLowest, Between, SearchOver
<1>3. asking = 0 => SearchOver
  BY <1>1, LowEndFacts DEF AtHighest, AtLowest, Between, SearchOver, SearchType
<1> QED
  BY <1>2, <1>3 DEF SearchSound, SearchOver, No, Settled

\* What the search returns was accepted and the next larger value refused, and
\* a verdict is certain when it is given: however the probes go, for any range
\* and any budget.
THEOREM SearchIsRight == SearchSpec => []MTUFound
BY SearchInvInit, SearchInvStep, SearchInvFound, PTL DEF SearchSpec

-----------------------------------------------------------------------------
(* The client's workers between the dispatcher and the sockets.             *)

Encoders == [EncodeWorkers -> Tasks \cup {NoTask, "exited"}]
Sockets == [WriteWorkers -> Tasks \cup {NoTask, "exited"}]
Places == {"new", "popped", "tx", "worker", "encoded", "over"}

PipeType ==
    /\ taskAt \in [Tasks -> Places] /\ freed \in [Tasks -> Nat]
    /\ encoder \in Encoders /\ writer \in Sockets
    /\ buffers \in [ReadWorkers \cup ProcessWorkers -> -1 .. 1]
    /\ received \in Nat /\ given \in Int
    /\ runtime \in {"runs", "cancelled", "stopped"}

\* A task that is with a worker is with one, and a worker has what is with it.
OneWorker ==
    /\ \A w \in EncodeWorkers : encoder[w] \in Tasks =>
           /\ taskAt[encoder[w]] = "worker"
           /\ \A v \in EncodeWorkers : v # w => encoder[v] # encoder[w]
           /\ \A v \in WriteWorkers : writer[v] # encoder[w]
    /\ \A w \in WriteWorkers : writer[w] \in Tasks =>
           /\ taskAt[writer[w]] = "worker"
           /\ \A v \in WriteWorkers : v # w => writer[v] # writer[w]
    /\ \A t \in Tasks : taskAt[t] = "worker" =>
           \/ \E w \in EncodeWorkers : encoder[w] = t
           \/ \E w \in WriteWorkers : writer[w] = t

\* The buffers that are out of the pool are with the readers and processors or
\* in the channel between them.
Out == {w \in DOMAIN buffers : buffers[w] = 1}
BuffersBalance == given = received + Cardinality(Out)

\* When the runtime has stopped, so have its workers.
StoppedIsOver == runtime = "stopped" => \A w \in DOMAIN buffers : buffers[w] = -1

PipeInv == PipeType /\ OneWorker /\ BuffersBalance /\ StoppedIsOver /\ ReleasedOnce

\* The buffers that are out are finitely many.
LEMMA OutFinite == ASSUME PipeType PROVE IsFiniteSet(Out) /\ Cardinality(Out) \in Nat
<1>1. IsFiniteSet(ReadWorkers \cup ProcessWorkers)
  BY SendPipelineAssumption, FS_Union
<1>2. Out \subseteq ReadWorkers \cup ProcessWorkers
  BY DEF PipeType, Out
<1>3. IsFiniteSet(Out)
  BY <1>1, <1>2, FS_Subset
<1> QED
  BY <1>3, FS_CardinalityType

\* It holds at the start.
LEMMA PipeInvInit == PipeInit => PipeInv
<1> SUFFICES ASSUME PipeInit PROVE PipeInv
  OBVIOUS
<1>1. PipeType
  BY DEF PipeInit, PipeType, Encoders, Sockets, Places
<1>2. OneWorker
  BY SendPipelineAssumption DEF PipeInit, OneWorker
<1>3. BuffersBalance
  <2>1. Out = {}
    BY DEF PipeInit, Out
  <2> QED
    BY <2>1, FS_EmptySet DEF PipeInit, BuffersBalance
<1>4. ReleasedOnce /\ StoppedIsOver
  BY DEF PipeInit, ReleasedOnce, StoppedIsOver
<1> QED
  BY <1>1, <1>2, <1>3, <1>4 DEF PipeInv

\* A task that is over has gone back to its pool once.
LEMMA ReleaseFacts ==
    ASSUME PipeType, ReleasedOnce, NEW T \in SUBSET Tasks, \A t \in T : taskAt[t] # "over", Release(T)
    PROVE  /\ taskAt' \in [Tasks -> Places] /\ freed' \in [Tasks -> Nat]
           /\ \A t \in Tasks : taskAt'[t] = IF t \in T THEN "over" ELSE taskAt[t]
           /\ \A t \in Tasks : freed'[t] = IF t \in Merged \/ taskAt'[t] = "over" THEN 1 ELSE 0
<1>1. /\ taskAt' \in [Tasks -> Places] /\ freed' \in [Tasks -> Nat]
      /\ \A t \in Tasks : taskAt'[t] = IF t \in T THEN "over" ELSE taskAt[t]
  BY DEF PipeType, Release, Places
<1>2. \A t \in Tasks : freed'[t] = IF t \in T \ Merged THEN freed[t] + 1 ELSE freed[t]
  BY DEF Release
<1>3. \A t \in Tasks : freed[t] = IF t \in Merged \/ taskAt[t] = "over" THEN 1 ELSE 0
  BY DEF ReleasedOnce
<1> QED
  BY <1>1, <1>2, <1>3

\* Every step keeps it.
LEMMA PipeInvStep == PipeInv /\ [PipeNext]_pipeVars => PipeInv'
<1> SUFFICES ASSUME PipeInv, [PipeNext]_pipeVars PROVE PipeInv'
  OBVIOUS
<1>inv. PipeType /\ OneWorker /\ BuffersBalance /\ StoppedIsOver /\ ReleasedOnce
  BY DEF PipeInv
<1>out. IsFiniteSet(Out) /\ Cardinality(Out) \in Nat
  BY <1>inv, OutFinite
<1>names. NoTask \notin Tasks /\ "exited" \notin Tasks /\ "exited" # NoTask
  BY SendPipelineAssumption
<1>still. ASSUME UNCHANGED <<buffers, received, given>> PROVE BuffersBalance'
  BY <1>inv, <1>still DEF BuffersBalance, Out
<1>run. ASSUME runtime # "stopped", UNCHANGED runtime PROVE StoppedIsOver' /\ runtime' # "stopped"
  BY <1>run DEF StoppedIsOver
<1>moves. ASSUME NEW t \in Tasks, NEW place \in Places, place # "over", taskAt[t] # "over",
                 PutAt(t, place), UNCHANGED freed
          PROVE  /\ taskAt' \in [Tasks -> Places] /\ freed' \in [Tasks -> Nat]
                 /\ taskAt'[t] = place /\ \A s \in Tasks : s # t => taskAt'[s] = taskAt[s]
                 /\ \A s \in Tasks : freed'[s] = IF s \in Merged \/ taskAt'[s] = "over" THEN 1 ELSE 0
  BY <1>inv, <1>moves DEF PipeType, PutAt, ReleasedOnce
<1>live. ASSUME NEW t \in Tasks, taskAt[t] \notin {"new", "over"} PROVE runtime # "stopped"
  BY <1>inv, <1>live DEF ReleasedOnce
<1>1. ASSUME NEW t \in Tasks, PopTask(t) PROVE PipeInv'
  <2>0. /\ runtime # "stopped" /\ taskAt[t] = "new" /\ PutAt(t, "popped") /\ "popped" \in Places
        /\ UNCHANGED <<freed, encoder, writer, buffers, received, given, runtime>>
    BY <1>1 DEF PopTask, Places
  <2>1. /\ taskAt' \in [Tasks -> Places] /\ freed' \in [Tasks -> Nat]
        /\ taskAt'[t] = "popped" /\ \A s \in Tasks : s # t => taskAt'[s] = taskAt[s]
        /\ \A s \in Tasks : freed'[s] = IF s \in Merged \/ taskAt'[s] = "over" THEN 1 ELSE 0
    BY <1>moves, <2>0
  <2>2. PipeType'
    BY <1>inv, <2>0, <2>1 DEF PipeType
  <2>3. OneWorker'
    BY <1>inv, <2>0, <2>1 DEF OneWorker
  <2>4. ReleasedOnce'
    BY <2>0, <2>1 DEF ReleasedOnce
  <2> QED
    BY <1>still, <1>run, <2>0, <2>2, <2>3, <2>4 DEF PipeInv
<1>2. ASSUME NEW t \in Tasks, HandOver(t) PROVE PipeInv'
  <2>0. /\ taskAt[t] = "popped" /\ runtime # "stopped" /\ {"tx", "over"} \subseteq Places
        /\ UNCHANGED <<encoder, writer, buffers, received, given, runtime>>
    BY <1>2, <1>live DEF HandOver, Places
  <2>1. /\ taskAt' \in [Tasks -> Places] /\ freed' \in [Tasks -> Nat]
        /\ taskAt'[t] \in {"tx", "over"} /\ \A s \in Tasks : s # t => taskAt'[s] = taskAt[s]
        /\ \A s \in Tasks : freed'[s] = IF s \in Merged \/ taskAt'[s] = "over" THEN 1 ELSE 0
    <3>1. CASE PutAt(t, "tx") /\ UNCHANGED freed
      BY <1>moves, <2>0, <3>1
    <3>2. CASE Release({t})
      BY <1>inv, <2>0, <3>2, ReleaseFacts
    <3> QED
      BY <1>2, <3>1, <3>2 DEF HandOver
  <2>2. PipeType'
    BY <1>inv, <2>0, <2>1 DEF PipeType
  <2>3. OneWorker'
    BY <1>inv, <2>0, <2>1 DEF OneWorker
  <2>4. ReleasedOnce'
    BY <2>0, <2>1 DEF ReleasedOnce
  <2> QED
    BY <1>still, <1>run, <2>0, <2>2, <2>3, <2>4 DEF PipeInv
<1>3. ASSUME NEW t \in Tasks, NEW w \in EncodeWorkers, TakeTask(w, t) PROVE PipeInv'
  <2>0. /\ encoder[w] = NoTask /\ taskAt[t] = "tx" /\ runtime # "stopped" /\ "worker" \in Places
        /\ encoder' = [encoder EXCEPT ![w] = t] /\ PutAt(t, "worker")
        /\ UNCHANGED <<freed, writer, buffers, received, given, runtime>>
    BY <1>3, <1>live DEF TakeTask, Places
  <2>1. /\ taskAt' \in [Tasks -> Places] /\ freed' \in [Tasks -> Nat]
        /\ taskAt'[t] = "worker" /\ \A s \in Tasks : s # t => taskAt'[s] = taskAt[s]
        /\ \A s \in Tasks : freed'[s] = IF s \in Merged \/ taskAt'[s] = "over" THEN 1 ELSE 0
    BY <1>moves, <2>0
  <2>2. PipeType'
    BY <1>inv, <2>0, <2>1 DEF PipeType, Encoders
  <2>3. encoder'[w] = t /\ \A v \in EncodeWorkers : v # w => encoder'[v] = encoder[v]
    BY <1>inv, <2>0 DEF PipeType, Encoders
  <2>4. OneWorker'
    BY <1>inv, <1>names, <2>0, <2>1, <2>3 DEF OneWorker
  <2>5. ReleasedOnce'
    BY <2>0, <2>1 DEF ReleasedOnce
  <2> QED
    BY <1>still, <1>run, <2>0, <2>2, <2>4, <2>5 DEF PipeInv
<1>4. ASSUME NEW t \in Tasks, NEW w \in EncodeWorkers, NoFrames(w, t) \/ EncodeTask(w, t) PROVE PipeInv'
  <2>0. /\ encoder[w] = t /\ taskAt[t] = "worker" /\ runtime # "stopped" /\ {"encoded", "over"} \subseteq Places
        /\ UNCHANGED <<writer, buffers, received, given, runtime>>
    BY <1>4, <1>inv, <1>live DEF NoFrames, EncodeTask, OneWorker, Places
  <2>1. /\ taskAt' \in [Tasks -> Places] /\ freed' \in [Tasks -> Nat]
        /\ taskAt'[t] \in {"encoded", "over"} /\ \A s \in Tasks : s # t => taskAt'[s] = taskAt[s]
        /\ \A s \in Tasks : freed'[s] = IF s \in Merged \/ taskAt'[s] = "over" THEN 1 ELSE 0
    <3>1. CASE PutAt(t, "encoded") /\ UNCHANGED freed
      BY <1>moves, <2>0, <3>1
    <3>2. CASE Release({t})
      BY <1>inv, <2>0, <3>2, ReleaseFacts
    <3> QED
      BY <1>4, <3>1, <3>2 DEF NoFrames, EncodeTask
  <2>2. PICK x \in {NoTask, "exited"} : encoder' = [encoder EXCEPT ![w] = x]
    BY <1>4 DEF NoFrames, EncodeTask
  <2>3. PipeType'
    BY <1>inv, <2>0, <2>1, <2>2 DEF PipeType, Encoders
  <2>4. encoder'[w] \notin Tasks /\ \A v \in EncodeWorkers : v # w => encoder'[v] = encoder[v]
    BY <1>inv, <1>names, <2>2 DEF PipeType, Encoders
  <2>5. OneWorker'
    BY <1>inv, <2>0, <2>1, <2>4 DEF OneWorker
  <2>6. ReleasedOnce'
    BY <2>0, <2>1 DEF ReleasedOnce
  <2> QED
    BY <1>still, <1>run, <2>0, <2>3, <2>5, <2>6 DEF PipeInv
<1>5. ASSUME NEW t \in Tasks, NEW w \in WriteWorkers, TakeFrames(w, t) PROVE PipeInv'
  <2>0. /\ writer[w] = NoTask /\ taskAt[t] = "encoded" /\ runtime # "stopped" /\ "worker" \in Places
        /\ writer' = [writer EXCEPT ![w] = t] /\ PutAt(t, "worker")
        /\ UNCHANGED <<freed, encoder, buffers, received, given, runtime>>
    BY <1>5, <1>live DEF TakeFrames, Places
  <2>1. /\ taskAt' \in [Tasks -> Places] /\ freed' \in [Tasks -> Nat]
        /\ taskAt'[t] = "worker" /\ \A s \in Tasks : s # t => taskAt'[s] = taskAt[s]
        /\ \A s \in Tasks : freed'[s] = IF s \in Merged \/ taskAt'[s] = "over" THEN 1 ELSE 0
    BY <1>moves, <2>0
  <2>2. PipeType'
    BY <1>inv, <2>0, <2>1 DEF PipeType, Sockets
  <2>3. writer'[w] = t /\ \A v \in WriteWorkers : v # w => writer'[v] = writer[v]
    BY <1>inv, <2>0 DEF PipeType, Sockets
  <2>4. OneWorker'
    BY <1>inv, <1>names, <2>0, <2>1, <2>3 DEF OneWorker
  <2>5. ReleasedOnce'
    BY <2>0, <2>1 DEF ReleasedOnce
  <2> QED
    BY <1>still, <1>run, <2>0, <2>2, <2>4, <2>5 DEF PipeInv
<1>6. ASSUME NEW t \in Tasks, NEW w \in WriteWorkers, WriteFrames(w, t) PROVE PipeInv'
  <2>0. /\ writer[w] = t /\ taskAt[t] = "worker" /\ runtime # "stopped"
        /\ writer' = [writer EXCEPT ![w] = NoTask] /\ Release({t})
        /\ UNCHANGED <<encoder, buffers, received, given, runtime>>
    BY <1>6, <1>inv, <1>live DEF WriteFrames, OneWorker
  <2>1. /\ taskAt' \in [Tasks -> Places] /\ freed' \in [Tasks -> Nat]
        /\ taskAt'[t] = "over" /\ \A s \in Tasks : s # t => taskAt'[s] = taskAt[s]
        /\ \A s \in Tasks : freed'[s] = IF s \in Merged \/ taskAt'[s] = "over" THEN 1 ELSE 0
    BY <1>inv, <2>0, ReleaseFacts
  <2>2. PipeType'
    BY <1>inv, <2>0, <2>1 DEF PipeType, Sockets
  <2>3. writer'[w] = NoTask /\ \A v \in WriteWorkers : v # w => writer'[v] = writer[v]
    BY <1>inv, <2>0 DEF PipeType, Sockets
  <2>4. OneWorker'
    BY <1>inv, <1>names, <2>0, <2>1, <2>3 DEF OneWorker
  <2>5. ReleasedOnce'
    BY <2>0, <2>1 DEF ReleasedOnce
  <2> QED
    BY <1>still, <1>run, <2>0, <2>2, <2>4, <2>5 DEF PipeInv
<1>books. ASSUME runtime # "stopped", UNCHANGED <<taskAt, freed, encoder, writer, runtime>>,
                 buffers' \in [ReadWorkers \cup ProcessWorkers -> -1 .. 1],
                 received' \in Nat, given' \in Int, BuffersBalance'
          PROVE  PipeInv'
  <2>1. PipeType' /\ OneWorker'
    BY <1>inv, <1>books DEF PipeType, OneWorker
  <2>2. ReleasedOnce'
    BY <1>inv, <1>books DEF ReleasedOnce
  <2> QED
    BY <1>books, <1>run, <2>1, <2>2 DEF PipeInv
<1>busy. ASSUME NEW r \in ReadWorkers \cup ProcessWorkers, buffers[r] # -1 PROVE runtime # "stopped"
  BY <1>inv, <1>busy DEF PipeType, StoppedIsOver
<1>takes. ASSUME NEW r \in ReadWorkers \cup ProcessWorkers, buffers[r] = 0,
                 buffers' = [buffers EXCEPT ![r] = 1]
          PROVE  /\ buffers' \in [ReadWorkers \cup ProcessWorkers -> -1 .. 1]
                 /\ Cardinality(Out') = Cardinality(Out) + 1
  <2>1. Out' = Out \cup {r} /\ r \notin Out
    BY <1>inv, <1>takes DEF PipeType, Out
  <2>2. buffers' \in [ReadWorkers \cup ProcessWorkers -> -1 .. 1]
    BY <1>inv, <1>takes DEF PipeType
  <2>3. Cardinality(Out \cup {r}) = Cardinality(Out) + 1
    BY <1>out, <2>1, FS_AddElement
  <2> QED
    BY <2>1, <2>2, <2>3
<1>gives. ASSUME NEW r \in ReadWorkers \cup ProcessWorkers, buffers[r] = 1,
                 NEW k \in {0, -1}, buffers' = [buffers EXCEPT ![r] = k]
          PROVE  /\ buffers' \in [ReadWorkers \cup ProcessWorkers -> -1 .. 1]
                 /\ Cardinality(Out') = Cardinality(Out) - 1
  <2>1. Out' = Out \ {r} /\ r \in Out
    BY <1>inv, <1>gives DEF PipeType, Out
  <2>2. buffers' \in [ReadWorkers \cup ProcessWorkers -> -1 .. 1]
    BY <1>inv, <1>gives DEF PipeType
  <2>3. Cardinality(Out \ {r}) = Cardinality(Out) - 1
    BY <1>out, <2>1, FS_RemoveElement
  <2> QED
    BY <2>1, <2>2, <2>3
<1>int. received \in Nat /\ given \in Int /\ given = received + Cardinality(Out)
  BY <1>inv DEF PipeType, BuffersBalance
<1>7. ASSUME NEW r \in ReadWorkers, StartRead(r) PROVE PipeInv'
  <2>0. /\ buffers[r] = 0 /\ buffers' = [buffers EXCEPT ![r] = 1] /\ given' = given + 1
        /\ UNCHANGED <<taskAt, freed, encoder, writer, received, runtime>>
    BY <1>7 DEF StartRead
  <2>1. /\ buffers' \in [ReadWorkers \cup ProcessWorkers -> -1 .. 1]
        /\ Cardinality(Out') = Cardinality(Out) + 1
    BY <1>takes, <2>0
  <2>2. received' \in Nat /\ given' \in Int /\ given' = received' + Cardinality(Out')
    BY <1>int, <1>out, <2>0, <2>1
  <2> QED
    BY <1>books, <1>busy, <2>0, <2>1, <2>2 DEF BuffersBalance
<1>8. ASSUME NEW r \in ReadWorkers, Datagram(r) PROVE PipeInv'
  <2>0. /\ buffers[r] = 1 /\ buffers' = [buffers EXCEPT ![r] = 0]
        /\ UNCHANGED <<taskAt, freed, encoder, writer, runtime>>
        /\ (received' = received + 1 /\ given' = given) \/ (given' = given - 1 /\ received' = received)
    BY <1>8 DEF Datagram
  <2>1. /\ buffers' \in [ReadWorkers \cup ProcessWorkers -> -1 .. 1]
        /\ Cardinality(Out') = Cardinality(Out) - 1
    BY <1>gives, <2>0
  <2>2. received' \in Nat /\ given' \in Int /\ given' = received' + Cardinality(Out')
    BY <1>int, <1>out, <2>0, <2>1
  <2> QED
    BY <1>books, <1>busy, <2>0, <2>1, <2>2 DEF BuffersBalance
<1>9. ASSUME NEW p \in ProcessWorkers, TakeDatagram(p) PROVE PipeInv'
  <2>0. /\ buffers[p] = 0 /\ buffers' = [buffers EXCEPT ![p] = 1]
        /\ received > 0 /\ received' = received - 1
        /\ UNCHANGED <<taskAt, freed, encoder, writer, given, runtime>>
    BY <1>9 DEF TakeDatagram
  <2>1. /\ buffers' \in [ReadWorkers \cup ProcessWorkers -> -1 .. 1]
        /\ Cardinality(Out') = Cardinality(Out) + 1
    BY <1>takes, <2>0
  <2>2. received' \in Nat /\ given' \in Int /\ given' = received' + Cardinality(Out')
    BY <1>int, <1>out, <2>0, <2>1
  <2> QED
    BY <1>books, <1>busy, <2>0, <2>1, <2>2 DEF BuffersBalance
<1>10. ASSUME NEW p \in ProcessWorkers, Handled(p) PROVE PipeInv'
  <2>0. /\ buffers[p] = 1 /\ buffers' = [buffers EXCEPT ![p] = 0] /\ given' = given - 1
        /\ UNCHANGED <<taskAt, freed, encoder, writer, received, runtime>>
    BY <1>10 DEF Handled
  <2>1. /\ buffers' \in [ReadWorkers \cup ProcessWorkers -> -1 .. 1]
        /\ Cardinality(Out') = Cardinality(Out) - 1
    BY <1>gives, <2>0
  <2>2. received' \in Nat /\ given' \in Int /\ given' = received' + Cardinality(Out')
    BY <1>int, <1>out, <2>0, <2>1
  <2> QED
    BY <1>books, <1>busy, <2>0, <2>1, <2>2 DEF BuffersBalance
<1>11. CASE WorkerExits
  <2>0. runtime = "cancelled" /\ UNCHANGED <<taskAt, freed, received, runtime>>
    BY <1>11 DEF WorkerExits
  <2>rel. ReleasedOnce'
    BY <1>inv, <2>0 DEF ReleasedOnce
  <2>1. ASSUME NEW w \in EncodeWorkers, encoder[w] = NoTask, encoder' = [encoder EXCEPT ![w] = "exited"],
               UNCHANGED <<writer, buffers, given>>
        PROVE  PipeInv'
    <3>1. encoder'[w] = "exited" /\ \A v \in EncodeWorkers : v # w => encoder'[v] = encoder[v]
      BY <1>inv, <2>1 DEF PipeType, Encoders
    <3>2. PipeType'
      BY <1>inv, <2>0, <2>1 DEF PipeType, Encoders
    <3>3. OneWorker'
      BY <1>inv, <1>names, <2>0, <2>1, <3>1 DEF OneWorker
    <3> QED
      BY <1>still, <1>run, <2>0, <2>1, <2>rel, <3>2, <3>3 DEF PipeInv
  <2>2. ASSUME NEW w \in WriteWorkers, writer[w] = NoTask, writer' = [writer EXCEPT ![w] = "exited"],
               UNCHANGED <<encoder, buffers, given>>
        PROVE  PipeInv'
    <3>1. writer'[w] = "exited" /\ \A v \in WriteWorkers : v # w => writer'[v] = writer[v]
      BY <1>inv, <2>2 DEF PipeType, Sockets
    <3>2. PipeType'
      BY <1>inv, <2>0, <2>2 DEF PipeType, Sockets
    <3>3. OneWorker'
      BY <1>inv, <1>names, <2>0, <2>2, <3>1 DEF OneWorker
    <3> QED
      BY <1>still, <1>run, <2>0, <2>2, <2>rel, <3>2, <3>3 DEF PipeInv
  <2>3. ASSUME NEW r \in DOMAIN buffers, buffers[r] = 0 \/ (buffers[r] = 1 /\ r \in ReadWorkers),
               buffers' = [buffers EXCEPT ![r] = -1], given' = given - buffers[r],
               UNCHANGED <<encoder, writer>>
        PROVE  PipeInv'
    <3>1. r \in ReadWorkers \cup ProcessWorkers
      BY <1>inv DEF PipeType
    <3>2. CASE buffers[r] = 1
      <4>1. /\ buffers' \in [ReadWorkers \cup ProcessWorkers -> -1 .. 1]
            /\ Cardinality(Out') = Cardinality(Out) - 1
        BY <1>gives, <2>3, <3>1, <3>2
      <4>2. received' \in Nat /\ given' \in Int /\ given' = received' + Cardinality(Out')
        BY <1>int, <1>out, <2>0, <2>3, <3>2, <4>1
      <4> QED
        BY <1>books, <2>0, <2>3, <4>1, <4>2 DEF BuffersBalance
    <3>3. CASE buffers[r] = 0
      <4>1. Out' = Out /\ buffers' \in [ReadWorkers \cup ProcessWorkers -> -1 .. 1]
        BY <1>inv, <2>3, <3>3 DEF PipeType, Out
      <4>2. received' \in Nat /\ given' \in Int /\ given' = received' + Cardinality(Out')
        BY <1>int, <1>out, <2>0, <2>3, <3>3, <4>1
      <4> QED
        BY <1>books, <2>0, <2>3, <4>1, <4>2 DEF BuffersBalance
    <3> QED
      BY <2>3, <3>2, <3>3
  <2> QED
    BY <1>11, <2>1, <2>2, <2>3 DEF WorkerExits
<1>12. CASE CancelRuntime
  <2>1. /\ runtime = "runs" /\ runtime' = "cancelled"
        /\ UNCHANGED <<taskAt, freed, encoder, writer, buffers, received, given>>
    BY <1>12 DEF CancelRuntime
  <2>2. PipeType' /\ OneWorker'
    BY <1>inv, <2>1 DEF PipeType, OneWorker
  <2>3. ReleasedOnce' /\ StoppedIsOver'
    BY <1>inv, <2>1 DEF ReleasedOnce, StoppedIsOver
  <2> QED
    BY <1>still, <2>1, <2>2, <2>3 DEF PipeInv
<1>13. CASE DrainQueues
  <2> DEFINE T == InQueue("tx") \cup InQueue("encoded")
  <2>0. /\ AllExited /\ Release(T) /\ received' = 0 /\ given' = given - received
        /\ runtime' = "stopped" /\ UNCHANGED <<encoder, writer, buffers>>
    BY <1>13 DEF DrainQueues
  <2>1. T \subseteq Tasks /\ \A t \in Tasks : t \in T <=> taskAt[t] \in {"tx", "encoded"}
    BY DEF InQueue
  <2> HIDE DEF T
  <2>2. /\ taskAt' \in [Tasks -> Places] /\ freed' \in [Tasks -> Nat]
        /\ \A t \in Tasks : taskAt'[t] = IF t \in T THEN "over" ELSE taskAt[t]
        /\ \A t \in Tasks : freed'[t] = IF t \in Merged \/ taskAt'[t] = "over" THEN 1 ELSE 0
    BY <1>inv, <2>0, <2>1, ReleaseFacts
  <2>3. \A t \in Tasks : taskAt[t] # "worker" /\ taskAt[t] # "popped"
    BY <1>inv, <1>names, <2>0 DEF AllExited, OneWorker, InQueue
  <2>4. \A t \in Tasks : taskAt[t] \in Places
    BY <1>inv DEF PipeType
  <2>5. \A t \in Tasks : taskAt'[t] \in {"new", "over"}
    BY <2>1, <2>2, <2>3, <2>4 DEF Places
  <2>6. Out = {} /\ Out' = {}
    BY <2>0 DEF AllExited, Out
  <2>7. Cardinality(Out) = 0 /\ Cardinality(Out') = 0
    BY <2>6, FS_EmptySet
  <2>8. given' = 0
    BY <1>int, <2>0, <2>7
  <2>9. PipeType'
    BY <1>inv, <2>0, <2>2, <2>8 DEF PipeType
  <2>10. OneWorker'
    BY <1>names, <2>0, <2>5 DEF OneWorker, AllExited
  <2>11. BuffersBalance' /\ StoppedIsOver' /\ ReleasedOnce'
    BY <2>0, <2>2, <2>5, <2>7, <2>8 DEF BuffersBalance, StoppedIsOver, ReleasedOnce, AllExited
  <2> QED
    BY <2>9, <2>10, <2>11 DEF PipeInv
<1>14. CASE RestartRuntime
  <2>0. /\ runtime = "stopped" /\ runtime' = "runs"
        /\ encoder' = [w \in EncodeWorkers |-> NoTask] /\ writer' = [w \in WriteWorkers |-> NoTask]
        /\ buffers' = [w \in DOMAIN buffers |-> 0]
        /\ UNCHANGED <<taskAt, freed, received, given>>
    BY <1>14 DEF RestartRuntime
  <2>1. given = 0 /\ received = 0 /\ \A t \in Tasks : taskAt[t] \in {"new", "over"}
    BY <1>inv, <2>0 DEF ReleasedOnce
  <2>2. PipeType'
    BY <1>inv, <2>0 DEF PipeType, Encoders, Sockets
  <2>3. OneWorker'
    BY <1>names, <2>0, <2>1 DEF OneWorker
  <2>4. Out' = {}
    BY <2>0 DEF Out
  <2>5. BuffersBalance'
    BY <2>0, <2>1, <2>4, FS_EmptySet DEF BuffersBalance
  <2>6. StoppedIsOver' /\ ReleasedOnce'
    BY <1>inv, <2>0 DEF StoppedIsOver, ReleasedOnce
  <2> QED
    BY <2>2, <2>3, <2>5, <2>6 DEF PipeInv
<1>15. CASE UNCHANGED pipeVars
  <2>1. UNCHANGED <<taskAt, freed, encoder, writer, buffers, received, given, runtime>>
    BY <1>15 DEF pipeVars
  <2>2. PipeType' /\ OneWorker'
    BY <1>inv, <2>1 DEF PipeType, OneWorker
  <2>3. ReleasedOnce' /\ StoppedIsOver'
    BY <1>inv, <2>1 DEF ReleasedOnce, StoppedIsOver
  <2> QED
    BY <1>still, <2>1, <2>2, <2>3 DEF PipeInv
<1> QED
  BY <1>1, <1>2, <1>3, <1>4, <1>5, <1>6, <1>7, <1>8, <1>9, <1>10, <1>11, <1>12, <1>13, <1>14, <1>15
     DEF PipeNext

\* An item goes back to its pool once, and not before its task is over; when
\* the runtime has stopped, nothing is left on the way and no buffer is out.
THEOREM ItemsGoBackOnce == PipeSpec => []ReleasedOnce
<1>1. PipeInv => ReleasedOnce
  BY DEF PipeInv
<1> QED
  BY <1>1, PipeInvInit, PipeInvStep, PTL DEF PipeSpec

-----------------------------------------------------------------------------
(* What the client learns from its queries.                                 *)

Claimed == {"none", "retract", "credit", "done"}

SampleType ==
    /\ timing \in Timings /\ moment \in Nat /\ idOf \in [Sends -> DNSIDs]
    /\ sending \in [Sends -> {"new", "written", "tracked"}] /\ sentAt \in [Sends -> Nat]
    /\ samples \in [DNSIDs -> 0 .. LastQuery]
    /\ overdue \subseteq Sampled(samples) /\ observed \subseteq Sends
    /\ claim \in [Sends -> Claimed]
    /\ credited \in [Sends -> Nat] /\ blamed \in [Sends -> Nat] /\ forgotten \in SUBSET Sends

\* A query was sent before now.
SentBefore == \A q \in Sends : sentAt[q] <= moment

\* The table has the sample of a query at its id, as long as nobody claimed it,
\* and nothing is known of a query that was not tracked.
OwnID ==
    \A i \in DNSIDs : samples[i] # 0 =>
        /\ idOf[samples[i]] = i /\ sending[samples[i]] = "tracked" /\ claim[samples[i]] = "none"
NotYet ==
    \A q \in Sends : sending[q] # "tracked" => q \notin observed /\ claim[q] = "none" /\ blamed[q] = 0

\* A timeout that was noted, or waits to be, is one of a sample that is overdue
\* or gone.
Credits == \A q \in Sends : credited[q] <= 1 /\ (claim[q] # "done" => credited[q] = 0)
Blames ==
    \A q \in Sends :
       /\ blamed[q] <= 1 /\ (q \in observed => blamed[q] = 0)
       /\ q \in Sampled(samples) \ overdue => q \notin observed /\ blamed[q] = 0
OverdueNoted == \A q \in overdue : q \in observed \/ blamed[q] > 0

SamplesInv ==
    /\ SampleType /\ OwnID /\ NotYet /\ Credits /\ Blames /\ OverdueNoted
    /\ SamplesBounded /\ SilenceCounts /\ SentBefore

\* What is left of the table, at a moment: no sample is new, and what is gone
\* has timed out or grew too old for that.
LeftSound(kept) ==
    /\ kept.table \in [DNSIDs -> 0 .. LastQuery]
    /\ \A i \in DNSIDs : kept.table[i] \in {0, samples[i]}
    /\ kept.found \subseteq Sampled(samples) \ overdue
    /\ \A q \in kept.late : q \in overdue \cup kept.found
    /\ \A q \in Sampled(kept.table) : q \in overdue \cup kept.found => q \in kept.late
    /\ kept.late \subseteq Sampled(kept.table)
    /\ \A q \in Sampled(samples) :
          q \in Sampled(kept.table) \cup overdue \cup kept.found \/ TooOld(q)

\* The times are numbers.
LEMMA TimesAre == /\ LastQuery \in Nat /\ SoftCap \in Nat /\ HardCap \in Nat
                  /\ 0 < SoftCap /\ SoftCap <= HardCap
BY QuerySamplesAssumption

LEMMA LimitsAre ==
    ASSUME timing \in Timings
    PROVE  RequestTimeout \in Nat /\ SampleTTL \in Nat /\ LateGrace \in Nat
<1>1. timing.packet \in Nat /\ timing.window \in Nat
  BY QuerySamplesAssumption
<1>2. RequestTimeout \in Nat /\ SampleTTL \in Nat
  BY <1>1, QuerySamplesAssumption DEF RequestTimeout, SampleTTL, Lesser
<1> QED
  BY <1>2 DEF LateGrace, Lesser

\* Who is too old stays so.
LEMMA OlderStill ==
    ASSUME timing \in Timings, timing' = timing, moment \in Nat, moment' \in Nat,
           moment <= moment', NEW q, sentAt[q] \in Nat, sentAt'[q] = sentAt[q], TooOld(q)
    PROVE  TooOld(q)'
<1>1. /\ RequestTimeout' = RequestTimeout /\ SampleTTL' = SampleTTL
      /\ RequestTimeout \in Nat /\ SampleTTL \in Nat
  BY LimitsAre DEF RequestTimeout, SampleTTL
<1> QED
  BY <1>1 DEF TooOld

\* A sample in the table is that of a query that was sent.
LEMMA SampledAre ==
    ASSUME SampleType, OwnID
    PROVE  /\ Sampled(samples) \subseteq Sends
           /\ \A q \in Sampled(samples) : idOf[q] \in DNSIDs /\ samples[idOf[q]] = q /\ q # 0
                                         /\ sending[q] = "tracked" /\ claim[q] = "none"
<1>1. \A i \in DNSIDs : samples[i] \in 0 .. LastQuery
  BY DEF SampleType
<1>2. Sampled(samples) \subseteq Sends
  BY <1>1, TimesAre DEF Sampled, Sends
<1>3. ASSUME NEW q \in Sampled(samples)
      PROVE  idOf[q] \in DNSIDs /\ samples[idOf[q]] = q /\ q # 0
             /\ sending[q] = "tracked" /\ claim[q] = "none"
  <2>1. PICK i \in DNSIDs : samples[i] = q /\ q # 0
    BY <1>3 DEF Sampled
  <2> QED
    BY <1>3, <2>1 DEF OwnID
<1> QED
  BY <1>2, <1>3

\* prune: what it leaves.
LEMMA PruneLeaves ==
    ASSUME SampleType, OwnID, NEW t \in Nat, t <= moment
    PROVE  LeftSound(Prunes(t))
<1> DEFINE gone == Outlived(t)
           kept == Prunes(t)
<1>1. /\ kept.table = [i \in DNSIDs |-> IF samples[i] \in gone THEN 0 ELSE samples[i]]
      /\ kept.late = (overdue \cup LateBy(t)) \ gone /\ kept.found = LateBy(t)
  BY DEF Prunes
<1>2. LateBy(t) \subseteq Sampled(samples) \ overdue
  BY DEF LateBy
<1>3. gone \subseteq Sampled(samples)
  BY DEF Outlived
<1>4. \A q : q \in Sampled(kept.table) <=> q \in Sampled(samples) \ gone
  BY <1>1 DEF Sampled
<1>5. \A q \in gone : q \in overdue \cup LateBy(t) \/ TooOld(q)
  <2> SUFFICES ASSUME NEW q \in gone, q \notin overdue, ~TooOld(q) PROVE q \in LateBy(t)
    OBVIOUS
  <2>1. q \in Sampled(samples) /\ sentAt[q] + SampleTTL < t
    BY DEF Outlived
  <2>2. sentAt[q] \in Nat /\ moment \in Nat /\ RequestTimeout \in Nat /\ SampleTTL \in Nat
    BY <2>1, SampledAre, LimitsAre DEF SampleType
  <2>3. sentAt[q] + RequestTimeout <= t
    BY <2>1, <2>2 DEF TooOld
  <2> QED
    BY <2>1, <2>3 DEF LateBy, TimedOutAt
<1>6. kept.table \in [DNSIDs -> 0 .. LastQuery] /\ \A i \in DNSIDs : kept.table[i] \in {0, samples[i]}
  BY <1>1, TimesAre DEF SampleType
<1>7. overdue \subseteq Sampled(samples)
  BY DEF SampleType
<1> HIDE DEF gone, kept
<1>8. LeftSound(kept)
  BY <1>1, <1>2, <1>3, <1>4, <1>5, <1>6, <1>7 DEF LeftSound
<1> QED
  BY <1>8 DEF kept

\* And what no prune leaves: everything.
LEMMA NothingPruned ==
    ASSUME SampleType
    PROVE  LeftSound([table |-> samples, late |-> overdue, found |-> {}])
BY DEF SampleType, LeftSound

\* While samples wait, one of them is the first to be evicted.
LEMMA FirstToGo ==
    ASSUME NEW table \in [DNSIDs -> 0 .. LastQuery], NEW late, sentAt \in [Sends -> Nat],
           Sampled(table) # {}
    PROVE  \E i \in DNSIDs : table[i] # 0 /\ \A j \in DNSIDs : table[j] # 0 => ~Sooner(j, i, table, late)
<1> DEFINE All == {i \in DNSIDs : table[i] # 0}
           LateOnes == {i \in All : table[i] \in late}
           Goers == IF LateOnes # {} THEN LateOnes ELSE All
           Times == {sentAt[table[i]] : i \in Goers}
<1>1. All # {} /\ All \subseteq DNSIDs /\ \A i \in All : table[i] \in Sends
  BY TimesAre DEF Sampled, Sends
<1>2. Goers # {} /\ Goers \subseteq All
  BY <1>1
<1>3. Times \subseteq Nat /\ Times # {}
  BY <1>1, <1>2
<1>4. PICK s \in Times : \A n \in Times : s <= n
  <2> HIDE DEF Times
  <2> QED
    BY <1>3, LeastOf
<1> DEFINE SentFirst == {i \in Goers : sentAt[table[i]] = s}
<1>5. SentFirst # {} /\ SentFirst \subseteq Nat
  BY <1>1, <1>2, <1>4, QuerySamplesAssumption
<1>6. PICK i \in SentFirst : \A n \in SentFirst : i <= n
  <2> HIDE DEF SentFirst
  <2> QED
    BY <1>5, LeastOf
<1>7. i \in Goers /\ sentAt[table[i]] = s /\ i \in Nat
  BY <1>5, <1>6
<1>8. ASSUME NEW j \in All PROVE ~Sooner(j, i, table, late)
  <2>0. j \in Nat /\ sentAt[table[j]] \in Nat /\ s \in Nat
    BY <1>1, <1>3, <1>4, <1>8, QuerySamplesAssumption
  <2>1. CASE j \in Goers
    <3>1. s <= sentAt[table[j]]
      BY <1>4, <2>1
    <3>2. sentAt[table[j]] = s => i <= j
      BY <1>6, <2>1
    <3>3. table[j] \in late <=> table[i] \in late
      BY <1>7, <2>1
    <3> QED
      BY <1>7, <2>0, <3>1, <3>2, <3>3 DEF Sooner
  <2>2. CASE j \notin Goers
    <3>1. table[i] \in late /\ table[j] \notin late
      BY <1>7, <1>8, <2>2
    <3> QED
      BY <3>1 DEF Sooner
  <2> QED
    BY <2>1, <2>2
<1> QED
  BY <1>1, <1>2, <1>7, <1>8

\* It holds at the start.
LEMMA SamplesInvInit == SamplesInit => SamplesInv
<1> SUFFICES ASSUME SamplesInit PROVE SamplesInv
  OBVIOUS
<1>1. Sampled(samples) = {}
  BY DEF SamplesInit, Sampled
<1>2. SampleType
  <2>1. idOf \in [Sends -> DNSIDs] /\ samples \in [DNSIDs -> 0 .. LastQuery]
    BY TimesAre DEF SamplesInit
  <2> QED
    BY <1>1, <2>1 DEF SamplesInit, SampleType, Claimed
<1>3. OwnID /\ NotYet
  BY DEF SamplesInit, OwnID, NotYet
<1>4. Credits /\ Blames /\ OverdueNoted
  BY DEF SamplesInit, Credits, Blames, OverdueNoted
<1>5. SamplesBounded
  BY <1>1, FS_EmptySet, TimesAre DEF SamplesBounded
<1>6. SilenceCounts /\ SentBefore
  BY DEF SamplesInit, SilenceCounts, SentBefore
<1> QED
  BY <1>2, <1>3, <1>4, <1>5, <1>6 DEF SamplesInv

\* A table that is kept to, with at most one sample that is new, is within its
\* limit when there was room for it or one went.
LEMMA TableFits ==
    ASSUME NEW table \in [DNSIDs -> 0 .. LastQuery], NEW q \in Sends, NEW after,
           after \in [DNSIDs -> 0 .. LastQuery],
           \A i \in DNSIDs : after[i] \in {0, q, table[i]},
           \/ Cardinality(Sampled(table)) < HardCap
           \/ /\ Cardinality(Sampled(table)) <= HardCap
              /\ \E i \in DNSIDs : /\ table[i] # 0 /\ after[i] \in {0, q}
                                   /\ \A j \in DNSIDs : j # i => table[j] # table[i]
    PROVE  Cardinality(Sampled(after)) <= HardCap
<1>0. /\ LastQuery \in Nat /\ HardCap \in Nat
  BY TimesAre
<1>fin. \A T \in SUBSET (1 .. LastQuery) : IsFiniteSet(T) /\ Cardinality(T) \in Nat
  <2>1. 1 \in Int /\ LastQuery \in Int
    BY <1>0
  <2>2. IsFiniteSet(1 .. LastQuery)
    BY <2>1, FS_Interval
  <2> QED
    BY <2>2, FS_Subset, FS_CardinalityType
<1>1. Sampled(table) \subseteq 1 .. LastQuery /\ Sampled(after) \subseteq 1 .. LastQuery
  BY <1>0 DEF Sampled
<1>2. Sampled(after) \subseteq Sampled(table) \cup {q}
  BY DEF Sampled
<1>3. CASE Cardinality(Sampled(table)) < HardCap
  <2>1. IsFiniteSet(Sampled(table)) /\ Cardinality(Sampled(table)) \in Nat
    BY <1>fin, <1>1
  <2>2. IsFiniteSet(Sampled(table) \cup {q}) /\ Cardinality(Sampled(table) \cup {q}) <= Cardinality(Sampled(table)) + 1
    BY <2>1, FS_AddElement
  <2>3. Cardinality(Sampled(after)) <= Cardinality(Sampled(table) \cup {q})
    BY <1>2, <2>2, FS_Subset
  <2>4. Cardinality(Sampled(after)) \in Nat /\ Cardinality(Sampled(table) \cup {q}) \in Nat
    BY <1>fin, <1>1, <2>2, FS_CardinalityType
  <2> QED
    BY <1>0, <1>3, <2>1, <2>2, <2>3, <2>4
<1>4. ASSUME Cardinality(Sampled(table)) <= HardCap,
             NEW i \in DNSIDs, table[i] # 0, after[i] \in {0, q},
             \A j \in DNSIDs : j # i => table[j] # table[i]
      PROVE  Cardinality(Sampled(after)) <= HardCap
  <2> DEFINE rest == Sampled(table) \ {table[i]}
  <2>1. IsFiniteSet(Sampled(table)) /\ Cardinality(Sampled(table)) \in Nat /\ table[i] \in Sampled(table)
    BY <1>fin, <1>1, <1>4 DEF Sampled
  <2>2. IsFiniteSet(rest) /\ Cardinality(rest) = Cardinality(Sampled(table)) - 1
    BY <2>1, FS_RemoveElement
  <2>3. Sampled(after) \subseteq rest \cup {q}
    BY <1>4 DEF Sampled
  <2> HIDE DEF rest
  <2>4. IsFiniteSet(rest \cup {q}) /\ Cardinality(rest \cup {q}) <= Cardinality(rest) + 1
    <3>1. Cardinality(rest) \in Nat
      BY <2>2, FS_CardinalityType
    <3> QED
      BY <2>2, <3>1, FS_AddElement
  <2>5. Cardinality(Sampled(after)) <= Cardinality(rest \cup {q})
    BY <2>3, <2>4, FS_Subset
  <2>6. Cardinality(Sampled(after)) \in Nat /\ Cardinality(rest \cup {q}) \in Nat
    BY <1>fin, <1>1, <2>4, FS_CardinalityType
  <2> QED
    BY <1>0, <1>4, <2>1, <2>2, <2>4, <2>5, <2>6
<1> QED
  BY <1>3, <1>4

\* What is left keeps to the limit.
LEMMA LeftFits ==
    ASSUME SampleType, SamplesBounded, NEW kept, LeftSound(kept)
    PROVE  /\ Sampled(kept.table) \subseteq Sampled(samples)
           /\ Cardinality(Sampled(kept.table)) \in Nat
           /\ Cardinality(Sampled(kept.table)) <= Cardinality(Sampled(samples))
           /\ Cardinality(Sampled(samples)) \in Nat
<1>0. LastQuery \in Nat
  BY TimesAre
<1>1. Sampled(kept.table) \subseteq Sampled(samples)
  BY DEF LeftSound, Sampled
<1>2. Sampled(samples) \subseteq 1 .. LastQuery
  BY <1>0 DEF SampleType, Sampled
<1>3. IsFiniteSet(Sampled(samples))
  <2>1. 1 \in Int /\ LastQuery \in Int
    BY <1>0
  <2>2. IsFiniteSet(1 .. LastQuery)
    BY <2>1, FS_Interval
  <2> QED
    BY <1>2, <2>2, FS_Subset
<1>4. IsFiniteSet(Sampled(kept.table)) /\ Cardinality(Sampled(kept.table)) <= Cardinality(Sampled(samples))
  BY <1>1, <1>3, FS_Subset
<1> QED
  BY <1>1, <1>3, <1>4, FS_CardinalityType

\* Every step keeps it.
LEMMA SamplesInvStep == SamplesInv /\ [SamplesNext]_sampleVars => SamplesInv'
<1> SUFFICES ASSUME SamplesInv, [SamplesNext]_sampleVars PROVE SamplesInv'
  OBVIOUS
<1>inv. /\ SampleType /\ OwnID /\ NotYet /\ Credits /\ Blames /\ OverdueNoted
        /\ SamplesBounded /\ SilenceCounts /\ SentBefore
  BY DEF SamplesInv
<1>time. timing' = timing /\ timing \in Timings
  BY <1>inv DEF SamplesNext, sampleVars, SampleType
<1>sam. /\ Sampled(samples) \subseteq Sends
        /\ \A q \in Sampled(samples) : idOf[q] \in DNSIDs /\ samples[idOf[q]] = q /\ q # 0
                                      /\ sending[q] = "tracked" /\ claim[q] = "none"
  BY <1>inv, SampledAre
<1>table. ASSUME UNCHANGED samples
          PROVE  Sampled(samples)' = Sampled(samples) /\ SamplesBounded'
  BY <1>inv, <1>table DEF Sampled, SamplesBounded
<1>old. ASSUME moment' \in Nat, moment <= moment', NEW q \in Sends, sentAt'[q] = sentAt[q], TooOld(q)
        PROVE  TooOld(q)'
  <2>1. moment \in Nat /\ sentAt[q] \in Nat
    BY <1>inv DEF SampleType
  <2> QED
    BY <1>old, <1>time, <2>1, OlderStill
<1>now. ASSUME UNCHANGED <<moment, sentAt>>
        PROVE  SentBefore' /\ \A q \in Sends : TooOld(q) => TooOld(q)'
  <2>1. moment' \in Nat /\ moment <= moment'
    BY <1>inv, <1>now DEF SampleType
  <2>2. SentBefore'
    BY <1>inv, <1>now DEF SentBefore
  <2> QED
    BY <1>now, <1>old, <2>1, <2>2
<1>1. ASSUME NEW q \in Sends, Write(q) PROVE SamplesInv'
  <2>0. /\ sending[q] = "new" /\ sending' = [sending EXCEPT ![q] = "written"]
        /\ sentAt' = [sentAt EXCEPT ![q] = moment]
        /\ UNCHANGED <<moment, idOf, samples, overdue, observed, claim, credited, blamed, forgotten>>
    BY <1>1 DEF Write
  <2>1. sending'[q] = "written" /\ \A p \in Sends : p # q => sending'[p] = sending[p]
    BY <1>inv, <2>0 DEF SampleType
  <2>2. SampleType'
    BY <1>inv, <1>time, <1>table, <2>0 DEF SampleType
  <2>3. OwnID'
    <3>1. \A i \in DNSIDs : samples[i] # 0 => samples[i] \in Sends
      BY <1>sam DEF Sampled
    <3> QED
      BY <1>inv, <2>0, <2>1, <3>1 DEF OwnID
  <2>4. NotYet' /\ Credits'
    BY <1>inv, <2>0, <2>1 DEF NotYet, Credits
  <2>5. Blames' /\ OverdueNoted'
    BY <1>inv, <1>table, <2>0 DEF Blames, OverdueNoted
  <2>6. SentBefore' /\ \A p \in Sends : p # q => sentAt'[p] = sentAt[p]
    <3>1. moment \in Nat /\ sentAt \in [Sends -> Nat]
      BY <1>inv DEF SampleType
    <3> QED
      BY <1>inv, <2>0, <3>1 DEF SentBefore
  <2>7. SilenceCounts'
    <3> SUFFICES ASSUME NEW p \in Sends, sending'[p] = "tracked"
                 PROVE  \/ p \in Sampled(samples)' \cup observed' \cup forgotten'
                        \/ credited'[p] + blamed'[p] > 0 \/ claim'[p] # "none" \/ TooOld(p)'
      BY DEF SilenceCounts
    <3>1. sending[p] = "tracked" /\ sentAt'[p] = sentAt[p]
      BY <2>1, <2>6
    <3>2. moment' \in Nat /\ moment <= moment'
      BY <1>inv, <2>0 DEF SampleType
    <3>3. TooOld(p) => TooOld(p)'
      BY <1>old, <3>1, <3>2
    <3> QED
      BY <1>inv, <1>table, <2>0, <3>1, <3>3 DEF SilenceCounts
  <2> QED
    BY <1>table, <2>0, <2>2, <2>3, <2>4, <2>5, <2>6, <2>7 DEF SamplesInv
<1>left. ASSUME NEW kept, LeftSound(kept)
         PROVE  /\ \A i \in DNSIDs : kept.table[i] \in 0 .. LastQuery /\ kept.table[i] \in {0, samples[i]}
                /\ Sampled(kept.table) \subseteq Sampled(samples)
                /\ kept.found \subseteq Sends /\ \A q \in kept.found : q \notin overdue /\ blamed[q] = 0
                /\ kept.late \subseteq Sampled(kept.table)
                /\ \A q \in Sampled(kept.table) \ kept.late : q \notin observed \cup kept.found /\ blamed[q] = 0
                /\ \A q \in kept.late : q \in observed \cup kept.found \/ blamed[q] > 0
                /\ \A q \in Sampled(samples) :
                      \/ q \in Sampled(kept.table) \/ q \in observed \cup kept.found \/ blamed[q] > 0
                      \/ TooOld(q)
  <2>1. Sampled(kept.table) \subseteq Sampled(samples)
    BY <1>left DEF LeftSound, Sampled
  <2>2. \A i \in DNSIDs : kept.table[i] \in 0 .. LastQuery /\ kept.table[i] \in {0, samples[i]}
    BY <1>left DEF LeftSound
  <2>3. kept.found \subseteq Sends /\ \A q \in kept.found : q \notin overdue /\ blamed[q] = 0
    BY <1>inv, <1>sam, <1>left DEF LeftSound, Blames
  <2>4. \A q \in Sampled(kept.table) \ kept.late : q \notin observed \cup kept.found /\ blamed[q] = 0
    BY <1>inv, <1>sam, <1>left, <2>1 DEF LeftSound, Blames
  <2>5. kept.late \subseteq Sampled(kept.table) /\ \A q \in kept.late : q \in observed \cup kept.found \/ blamed[q] > 0
    BY <1>inv, <1>left DEF LeftSound, OverdueNoted
  <2>6. \A q \in Sampled(samples) :
           \/ q \in Sampled(kept.table) \/ q \in observed \cup kept.found \/ blamed[q] > 0
           \/ TooOld(q)
    BY <1>inv, <1>left DEF LeftSound, OverdueNoted
  <2> QED
    BY <2>1, <2>2, <2>3, <2>4, <2>5, <2>6
<1>2. ASSUME NEW q \in Sends, Track(q) PROVE SamplesInv'
  <2> DEFINE full == Cardinality(Sampled(samples)) >= SoftCap
             kept == IF full THEN Prunes(sentAt[q])
                     ELSE [table |-> samples, late |-> overdue, found |-> {}]
             away == Evicted(IF full THEN Overflow(kept.table) ELSE 0, kept.table, kept.late)
  <2>0. /\ sending[q] = "written" /\ sending' = [sending EXCEPT ![q] = "tracked"]
        /\ samples' = [i \in DNSIDs |-> IF i = idOf[q] THEN q
                                        ELSE IF i \in away THEN 0 ELSE kept.table[i]]
        /\ overdue' = kept.late \cap Sampled(samples')
        /\ observed' = observed \cup kept.found
        /\ forgotten' = forgotten \cup ({kept.table[i] : i \in away \cup {idOf[q]}} \ {0})
        /\ UNCHANGED <<moment, idOf, sentAt, claim, credited, blamed>>
    BY <1>2 DEF Track
  <2>1. LeftSound(kept)
    <3>1. sentAt[q] \in Nat /\ sentAt[q] <= moment
      BY <1>inv DEF SampleType, SentBefore
    <3> QED
      BY <1>inv, <3>1, PruneLeaves, NothingPruned
  <2>2. away \subseteq DNSIDs
    BY DEF Evicted
  <2>3. ASSUME full, Cardinality(Sampled(kept.table)) = HardCap
        PROVE  \E i \in away : kept.table[i] # 0
    <3>1. Overflow(kept.table) = 1
      BY <2>3, TimesAre DEF Overflow
    <3>2. Sampled(kept.table) # {}
      BY <2>3, TimesAre, FS_EmptySet
    <3>3. PICK i \in DNSIDs : kept.table[i] # 0
                    /\ \A j \in DNSIDs : kept.table[j] # 0 => ~Sooner(j, i, kept.table, kept.late)
      <4>1. kept.table \in [DNSIDs -> 0 .. LastQuery] /\ sentAt \in [Sends -> Nat]
        BY <1>inv, <2>1 DEF LeftSound, SampleType
      <4> HIDE DEF kept
      <4> QED
        BY <3>2, <4>1, FirstToGo
    <3>4. {j \in DNSIDs : kept.table[j] # 0 /\ Sooner(j, i, kept.table, kept.late)} = {}
      BY <3>3
    <3>5. Cardinality({j \in DNSIDs : kept.table[j] # 0 /\ Sooner(j, i, kept.table, kept.late)}) < 1
      BY <3>4, FS_EmptySet
    <3>6. away = Evicted(1, kept.table, kept.late)
      BY <2>3, <3>1
    <3>7. i \in Evicted(1, kept.table, kept.late)
      <4> HIDE DEF kept
      <4> QED
        BY <3>3, <3>5 DEF Evicted
    <3> QED
      BY <3>3, <3>6, <3>7
  <2>4. ~full => Cardinality(Sampled(kept.table)) < HardCap
    <3>1. Cardinality(Sampled(samples)) \in Nat
      BY <1>inv, <2>1, LeftFits
    <3> QED
      BY <3>1, TimesAre
  <2> HIDE DEF kept, away
  <2>5. /\ \A i \in DNSIDs : kept.table[i] \in 0 .. LastQuery /\ kept.table[i] \in {0, samples[i]}
        /\ Sampled(kept.table) \subseteq Sampled(samples)
        /\ kept.found \subseteq Sends /\ \A p \in kept.found : p \notin overdue /\ blamed[p] = 0
        /\ kept.late \subseteq Sampled(kept.table)
        /\ \A p \in Sampled(kept.table) \ kept.late : p \notin observed \cup kept.found /\ blamed[p] = 0
        /\ \A p \in kept.late : p \in observed \cup kept.found \/ blamed[p] > 0
        /\ \A p \in Sampled(samples) :
              \/ p \in Sampled(kept.table) \/ p \in observed \cup kept.found \/ blamed[p] > 0
              \/ TooOld(p)
    BY <1>left, <2>1
  <2>6. idOf[q] \in DNSIDs /\ q \in 1 .. LastQuery /\ q # 0
    BY <1>inv, TimesAre DEF SampleType, Sends
  <2>7. /\ \A i \in DNSIDs : samples'[i] = IF i = idOf[q] THEN q
                                           ELSE IF i \in away THEN 0 ELSE kept.table[i]
        /\ samples' \in [DNSIDs -> 0 .. LastQuery]
    <3>1. \A i \in DNSIDs : samples'[i] = IF i = idOf[q] THEN q
                                         ELSE IF i \in away THEN 0 ELSE kept.table[i]
      BY <2>0
    <3>2. \A i \in DNSIDs : samples'[i] \in 0 .. LastQuery
      BY <2>5, <2>6, <3>1, TimesAre
    <3>3. samples' = [i \in DNSIDs |-> samples'[i]]
      BY <2>0
    <3> QED
      BY <3>1, <3>2, <3>3
  <2>8. /\ sending'[q] = "tracked" /\ \A p \in Sends : p # q => sending'[p] = sending[p]
        /\ sending' \in [Sends -> {"new", "written", "tracked"}]
    BY <1>inv, <2>0 DEF SampleType
  <2>9. /\ claim[q] = "none" /\ blamed[q] = 0 /\ q \notin observed /\ q \notin Sampled(samples)
    BY <1>inv, <1>sam, <2>0 DEF NotYet
  <2>10. Sampled(samples)' \subseteq Sampled(kept.table) \cup {q}
    BY <2>7 DEF Sampled
  <2>11. q \in Sampled(samples)'
    BY <2>6, <2>7 DEF Sampled
  <2>12. SampleType'
    <3>1. forgotten' \in SUBSET Sends
      <4>1. \A i \in DNSIDs : kept.table[i] # 0 => kept.table[i] \in Sends
        BY <2>5, TimesAre DEF Sends
      <4>2. away \cup {idOf[q]} \subseteq DNSIDs
        BY <2>2, <2>6
      <4>3. {kept.table[i] : i \in away \cup {idOf[q]}} \ {0} \subseteq Sends
        BY <4>1, <4>2
      <4>4. forgotten \subseteq Sends
        BY <1>inv DEF SampleType
      <4> QED
        BY <2>0, <4>3, <4>4
    <3> QED
      BY <1>inv, <1>time, <2>0, <2>5, <2>7, <2>8, <3>1 DEF SampleType
  <2>13. OwnID'
    <3> SUFFICES ASSUME NEW i \in DNSIDs, samples'[i] # 0
                 PROVE  idOf[samples'[i]] = i /\ sending'[samples'[i]] = "tracked" /\ claim[samples'[i]] = "none"
      BY <2>0 DEF OwnID
    <3>1. CASE i = idOf[q]
      BY <2>7, <2>8, <2>9, <3>1
    <3>2. CASE i # idOf[q]
      <4>1. samples'[i] = samples[i] /\ samples[i] # 0
        BY <2>5, <2>7, <3>2
      <4>2. samples[i] \in Sends /\ samples[i] # q
        BY <1>sam, <2>9, <4>1 DEF Sampled
      <4> QED
        BY <1>inv, <2>8, <4>1, <4>2 DEF OwnID
    <3> QED
      BY <3>1, <3>2
  <2>14. NotYet'
    <3>1. \A p \in kept.found : sending[p] = "tracked"
      BY <1>sam, <2>1 DEF LeftSound
    <3> QED
      BY <1>inv, <2>0, <2>5, <2>8, <3>1 DEF NotYet
  <2>15. Credits'
    BY <1>inv, <2>0 DEF Credits
  <2>16. Blames'
    <3> SUFFICES ASSUME NEW p \in Sends
                 PROVE  /\ blamed[p] <= 1 /\ (p \in observed' => blamed[p] = 0)
                        /\ p \in Sampled(samples)' \ overdue' => p \notin observed' /\ blamed[p] = 0
      BY <2>0 DEF Blames
    <3>1. blamed[p] <= 1 /\ (p \in observed => blamed[p] = 0)
      BY <1>inv DEF Blames
    <3>2. p \in observed' => blamed[p] = 0
      BY <2>0, <2>5, <3>1
    <3>3. ASSUME p \in Sampled(samples)' \ overdue' PROVE p \notin observed' /\ blamed[p] = 0
      <4>1. CASE p = q
        <5>1. q \notin kept.found
          BY <2>1, <2>9 DEF LeftSound
        <5> QED
          BY <2>0, <2>9, <4>1, <5>1
      <4>2. CASE p # q
        <5>1. p \in Sampled(kept.table) \ kept.late
          BY <2>0, <2>10, <3>3, <4>2
        <5> QED
          BY <2>0, <2>5, <5>1
      <4> QED
        BY <4>1, <4>2
    <3> QED
      BY <3>1, <3>2, <3>3
  <2>17. OverdueNoted'
    BY <2>0, <2>5 DEF OverdueNoted
  <2>18. SamplesBounded'
    <3>1. /\ Cardinality(Sampled(kept.table)) \in Nat /\ Cardinality(Sampled(samples)) \in Nat
          /\ Cardinality(Sampled(kept.table)) <= HardCap
      <4>1. /\ Cardinality(Sampled(kept.table)) \in Nat
            /\ Cardinality(Sampled(kept.table)) <= Cardinality(Sampled(samples))
            /\ Cardinality(Sampled(samples)) \in Nat
        BY <1>inv, <2>1, LeftFits
      <4>2. Cardinality(Sampled(samples)) <= HardCap
        BY <1>inv DEF SamplesBounded
      <4> QED
        BY <4>1, <4>2, TimesAre
    <3>2. \A i \in DNSIDs : samples'[i] \in {0, q, kept.table[i]}
      BY <2>7
    <3>3. CASE Cardinality(Sampled(kept.table)) < HardCap
      <4>1. kept.table \in [DNSIDs -> 0 .. LastQuery]
        BY <2>1 DEF LeftSound
      <4>2. Cardinality(Sampled(samples')) <= HardCap
        BY <2>7, <3>2, <3>3, <4>1, TableFits
      <4> QED
        BY <4>2 DEF SamplesBounded
    <3>4. CASE Cardinality(Sampled(kept.table)) = HardCap
      <4>1. kept.table \in [DNSIDs -> 0 .. LastQuery]
        BY <2>1 DEF LeftSound
      <4>2. PICK i \in away : kept.table[i] # 0
        BY <2>3, <2>4, <3>4, TimesAre
      <4>3. i \in DNSIDs /\ samples'[i] \in {0, q}
        BY <2>2, <2>7, <4>2
      <4>4. \A j \in DNSIDs : j # i => kept.table[j] # kept.table[i]
        <5> SUFFICES ASSUME NEW j \in DNSIDs, kept.table[j] = kept.table[i] PROVE j = i
          OBVIOUS
        <5>1. samples[i] = kept.table[i] /\ samples[j] = kept.table[i]
          BY <2>5, <4>2, <4>3
        <5> QED
          BY <1>inv, <4>2, <4>3, <5>1 DEF OwnID
      <4>5. Cardinality(Sampled(samples')) <= HardCap
        BY <2>7, <3>1, <3>2, <4>1, <4>2, <4>3, <4>4, TableFits
      <4> QED
        BY <4>5 DEF SamplesBounded
    <3> QED
      BY <3>1, <3>3, <3>4, TimesAre
  <2>19. SilenceCounts' /\ SentBefore'
    <3>0. SentBefore' /\ \A p \in Sends : TooOld(p) => TooOld(p)'
      BY <1>now, <2>0
    <3> SUFFICES ASSUME NEW p \in Sends, sending'[p] = "tracked"
                 PROVE  \/ p \in Sampled(samples)' \cup observed' \cup forgotten'
                        \/ credited[p] + blamed[p] > 0 \/ claim[p] # "none" \/ TooOld(p)'
      BY <2>0, <3>0 DEF SilenceCounts
    <3>1. CASE p = q
      BY <2>11, <3>1
    <3>2. CASE p # q /\ p \in Sampled(kept.table)
      <4>1. PICK i \in DNSIDs : kept.table[i] = p /\ p # 0
        BY <3>2 DEF Sampled
      <4>2. CASE i \in away \/ i = idOf[q]
        BY <2>0, <4>1, <4>2
      <4>3. CASE i \notin away /\ i # idOf[q]
        <5>1. samples'[i] = p
          BY <2>7, <4>1, <4>3
        <5> QED
          BY <4>1, <5>1 DEF Sampled
      <4> QED
        BY <4>2, <4>3
    <3>3. CASE p # q /\ p \in Sampled(samples) \ Sampled(kept.table)
      <4>1. credited[p] \in Nat /\ blamed[p] \in Nat
        BY <1>inv DEF SampleType
      <4> QED
        BY <2>0, <2>5, <3>0, <3>3, <4>1
    <3>4. CASE p # q /\ p \notin Sampled(samples)
      <4>1. sending[p] = "tracked"
        BY <2>8, <3>4
      <4> QED
        BY <1>inv, <2>0, <3>0, <3>4, <4>1 DEF SilenceCounts
    <3> QED
      BY <3>1, <3>2, <3>3, <3>4
  <2> QED
    BY <2>12, <2>13, <2>14, <2>15, <2>16, <2>17, <2>18, <2>19 DEF SamplesInv
<1>3. CASE Expire
  <2> DEFINE kept == Prunes(moment)
  <2>0. /\ samples' = kept.table /\ overdue' = kept.late /\ observed' = observed \cup kept.found
        /\ UNCHANGED <<moment, idOf, sending, sentAt, claim, credited, blamed, forgotten>>
    BY <1>3 DEF Expire
  <2>1. LeftSound(kept)
    <3>1. moment \in Nat /\ moment <= moment
      BY <1>inv DEF SampleType
    <3> QED
      BY <1>inv, <3>1, PruneLeaves
  <2> HIDE DEF kept
  <2>2. /\ \A i \in DNSIDs : kept.table[i] \in 0 .. LastQuery /\ kept.table[i] \in {0, samples[i]}
        /\ Sampled(kept.table) \subseteq Sampled(samples)
        /\ kept.found \subseteq Sends /\ \A p \in kept.found : p \notin overdue /\ blamed[p] = 0
        /\ kept.late \subseteq Sampled(kept.table)
        /\ \A p \in Sampled(kept.table) \ kept.late : p \notin observed \cup kept.found /\ blamed[p] = 0
        /\ \A p \in kept.late : p \in observed \cup kept.found \/ blamed[p] > 0
        /\ \A p \in Sampled(samples) :
              \/ p \in Sampled(kept.table) \/ p \in observed \cup kept.found \/ blamed[p] > 0
              \/ TooOld(p)
    BY <1>left, <2>1
  <2>3. Sampled(samples)' = Sampled(kept.table)
    BY <2>0 DEF Sampled
  <2>4. SampleType'
    <3>1. samples' \in [DNSIDs -> 0 .. LastQuery]
      BY <2>0, <2>1 DEF LeftSound
    <3> QED
      BY <1>inv, <1>time, <2>0, <2>2, <2>3, <3>1 DEF SampleType
  <2>5. OwnID'
    BY <1>inv, <2>0, <2>2 DEF OwnID
  <2>6. NotYet'
    <3>1. \A p \in kept.found : sending[p] = "tracked"
      BY <1>sam, <2>1 DEF LeftSound
    <3> QED
      BY <1>inv, <2>0, <3>1 DEF NotYet
  <2>7. Credits'
    BY <1>inv, <2>0 DEF Credits
  <2>8. Blames'
    BY <1>inv, <2>0, <2>2, <2>3 DEF Blames
  <2>9. OverdueNoted'
    BY <2>0, <2>2 DEF OverdueNoted
  <2>10. SamplesBounded'
    <3>1. /\ Cardinality(Sampled(kept.table)) \in Nat /\ Cardinality(Sampled(samples)) \in Nat
          /\ Cardinality(Sampled(kept.table)) <= Cardinality(Sampled(samples))
      BY <1>inv, <2>1, LeftFits
    <3> QED
      BY <1>inv, <2>3, <3>1, TimesAre DEF SamplesBounded
  <2>11. SilenceCounts' /\ SentBefore'
    <3>0. SentBefore' /\ \A p \in Sends : TooOld(p) => TooOld(p)'
      BY <1>now, <2>0
    <3> SUFFICES ASSUME NEW p \in Sends, sending[p] = "tracked"
                 PROVE  \/ p \in Sampled(samples)' \cup observed' \cup forgotten'
                        \/ credited[p] + blamed[p] > 0 \/ claim[p] # "none" \/ TooOld(p)'
      BY <2>0, <3>0 DEF SilenceCounts
    <3>1. credited[p] \in Nat /\ blamed[p] \in Nat
      BY <1>inv DEF SampleType
    <3>2. CASE p \in Sampled(samples)
      BY <2>0, <2>2, <2>3, <3>0, <3>1, <3>2
    <3>3. CASE p \notin Sampled(samples)
      BY <1>inv, <2>0, <3>0, <3>3 DEF SilenceCounts
    <3> QED
      BY <3>2, <3>3
  <2> QED
    BY <2>4, <2>5, <2>6, <2>7, <2>8, <2>9, <2>10, <2>11 DEF SamplesInv
<1>claims. ASSUME NEW p, p # 0, Claims(p)
           PROVE  /\ Sampled(samples)' = Sampled(samples) \ {p} /\ overdue' = overdue \ {p}
                  /\ samples' \in [DNSIDs -> 0 .. LastQuery]
                  /\ \A i \in DNSIDs : samples'[i] # 0 => samples'[i] = samples[i] /\ samples[i] # p
                  /\ SamplesBounded'
  <2>1. /\ samples' = [i \in DNSIDs |-> IF samples[i] = p THEN 0 ELSE samples[i]]
        /\ overdue' = overdue \ {p}
    BY <1>claims DEF Claims
  <2>2. samples' \in [DNSIDs -> 0 .. LastQuery]
    BY <1>inv, <2>1, TimesAre DEF SampleType
  <2>3. Sampled(samples)' = Sampled(samples) \ {p}
    BY <2>1, <1>claims DEF Sampled
  <2>4. \A i \in DNSIDs : samples'[i] # 0 => samples'[i] = samples[i] /\ samples[i] # p
    BY <2>1
  <2>5. SamplesBounded'
    <3>1. /\ Cardinality(Sampled(samples)) \in Nat /\ IsFiniteSet(Sampled(samples))
      <4>1. LastQuery \in Nat /\ 1 \in Int /\ LastQuery \in Int
        BY TimesAre
      <4>2. IsFiniteSet(1 .. LastQuery)
        BY <4>1, FS_Interval
      <4>3. Sampled(samples) \subseteq 1 .. LastQuery
        BY <1>sam DEF Sends
      <4>4. IsFiniteSet(Sampled(samples))
        BY <4>2, <4>3, FS_Subset
      <4> QED
        BY <4>4, FS_CardinalityType
    <3>2. IsFiniteSet(Sampled(samples) \ {p}) /\ Cardinality(Sampled(samples) \ {p}) <= Cardinality(Sampled(samples))
      BY <3>1, FS_RemoveElement
    <3>3. Cardinality(Sampled(samples) \ {p}) \in Nat
      BY <3>2, FS_CardinalityType
    <3> QED
      BY <1>inv, <2>3, <3>1, <3>2, <3>3, TimesAre DEF SamplesBounded
  <2> QED
    BY <2>1, <2>2, <2>3, <2>4, <2>5
<1>4. ASSUME NEW p \in Sampled(samples), Claims(p), NEW c \in {"retract", "credit", "done"},
             claim' = [claim EXCEPT ![p] = c],
             UNCHANGED <<moment, idOf, sending, sentAt, observed, credited, forgotten>>,
             \/ UNCHANGED blamed
             \/ p \notin overdue /\ blamed' = [blamed EXCEPT ![p] = @ + 1]
      PROVE  SamplesInv'
  <2>1. /\ p \in Sends /\ p # 0 /\ claim[p] = "none" /\ sending[p] = "tracked"
    BY <1>sam, <1>4
  <2>2. /\ Sampled(samples)' = Sampled(samples) \ {p} /\ overdue' = overdue \ {p}
        /\ samples' \in [DNSIDs -> 0 .. LastQuery]
        /\ \A i \in DNSIDs : samples'[i] # 0 => samples'[i] = samples[i] /\ samples[i] # p
        /\ SamplesBounded'
    BY <1>4, <1>claims, <2>1
  <2>3. /\ claim'[p] = c /\ \A q \in Sends : q # p => claim'[q] = claim[q]
        /\ claim' \in [Sends -> Claimed]
    BY <1>inv, <1>4, <2>1 DEF SampleType, Claimed
  <2>4. /\ blamed' \in [Sends -> Nat] /\ \A q \in Sends : q # p => blamed'[q] = blamed[q]
        /\ blamed'[p] = blamed[p] \/ (p \notin overdue /\ blamed'[p] = blamed[p] + 1)
    BY <1>inv, <1>4, <2>1 DEF SampleType
  <2>5. SampleType'
    BY <1>inv, <1>time, <1>4, <2>2, <2>3, <2>4 DEF SampleType
  <2>6. OwnID'
    <3>1. \A i \in DNSIDs : samples[i] # 0 => samples[i] \in Sends
      BY <1>sam DEF Sampled
    <3> QED
      BY <1>inv, <1>4, <2>2, <2>3, <3>1 DEF OwnID
  <2>7. NotYet'
    BY <1>inv, <1>4, <2>1, <2>3, <2>4 DEF NotYet
  <2>8. Credits'
    BY <1>inv, <1>4, <2>1, <2>3 DEF Credits
  <2>9. Blames'
    <3>1. p \notin overdue => p \notin observed /\ blamed[p] = 0
      BY <1>inv, <1>4, <2>1 DEF Blames
    <3>2. blamed'[p] <= 1 /\ (p \in observed => blamed'[p] = 0)
      BY <1>inv, <2>1, <2>4, <3>1 DEF Blames
    <3> QED
      BY <1>inv, <1>4, <2>2, <2>4, <3>2 DEF Blames
  <2>10. OverdueNoted'
    <3>1. overdue \subseteq Sends
      BY <1>inv, <1>sam DEF SampleType
    <3> QED
      BY <1>inv, <1>4, <2>2, <2>4, <3>1 DEF OverdueNoted
  <2>11. SilenceCounts' /\ SentBefore'
    <3>0. SentBefore' /\ \A q \in Sends : TooOld(q) => TooOld(q)'
      BY <1>now, <1>4
    <3> SUFFICES ASSUME NEW q \in Sends, sending[q] = "tracked"
                 PROVE  \/ q \in Sampled(samples)' \cup observed' \cup forgotten'
                        \/ credited[q] + blamed'[q] > 0 \/ claim'[q] # "none" \/ TooOld(q)'
      BY <1>4, <3>0 DEF SilenceCounts
    <3>1. CASE q = p
      BY <2>3, <3>1
    <3>2. CASE q # p
      BY <1>inv, <1>4, <2>2, <2>3, <2>4, <3>0, <3>2 DEF SilenceCounts
    <3> QED
      BY <3>1, <3>2
  <2> QED
    BY <2>2, <2>5, <2>6, <2>7, <2>8, <2>9, <2>10, <2>11 DEF SamplesInv
<1>5. ASSUME NEW q \in Sends, AnswerOf(q) PROVE SamplesInv'
  <2> DEFINE p == samples[idOf[q]]
  <2>1. p # 0 /\ Claims(p) /\ claim' = [claim EXCEPT ![p] = IF p \in overdue THEN "retract" ELSE "credit"]
        /\ UNCHANGED <<moment, idOf, sending, sentAt, observed, credited, blamed, forgotten>>
    BY <1>5 DEF AnswerOf
  <2>2. p \in Sampled(samples)
    BY <1>inv, <2>1 DEF SampleType, Sampled
  <2> HIDE DEF p
  <2>3. PICK c \in {"retract", "credit", "done"} : claim' = [claim EXCEPT ![p] = c]
    BY <2>1
  <2> QED
    BY <1>4, <2>1, <2>2, <2>3
<1>6. ASSUME NEW q \in Sends, NEW forged \in BOOLEAN, ErrorFor(q, forged) PROVE SamplesInv'
  <2> DEFINE p == samples[idOf[q]]
  <2>1. /\ p # 0 /\ Claims(p) /\ claim' = [claim EXCEPT ![p] = "done"]
        /\ UNCHANGED <<moment, idOf, sending, sentAt, observed, credited, forgotten>>
        /\ UNCHANGED blamed \/ (p \notin overdue /\ blamed' = [blamed EXCEPT ![p] = @ + 1])
    BY <1>6 DEF ErrorFor, Against
  <2>2. p \in Sampled(samples)
    BY <1>inv, <2>1 DEF SampleType, Sampled
  <2> HIDE DEF p
  <2> QED
    BY <1>4, <2>1, <2>2
<1>7. ASSUME NEW q \in Sends, NoteTimeouts(q) PROVE SamplesInv'
  <2>0. /\ q \in observed /\ observed' = observed \ {q} /\ blamed' = [blamed EXCEPT ![q] = @ + 1]
        /\ UNCHANGED <<moment, idOf, sending, sentAt, samples, overdue, claim, credited, forgotten>>
    BY <1>7 DEF NoteTimeouts, Against
  <2>1. /\ blamed[q] = 0 /\ ~(q \in Sampled(samples) \ overdue) /\ sending[q] = "tracked"
    BY <1>inv, <2>0 DEF Blames, NotYet
  <2>2. /\ blamed'[q] = 1 /\ \A p \in Sends : p # q => blamed'[p] = blamed[p]
        /\ blamed' \in [Sends -> Nat]
    BY <1>inv, <2>0, <2>1 DEF SampleType
  <2>3. SampleType'
    BY <1>inv, <1>time, <1>table, <2>0, <2>2 DEF SampleType
  <2>4. OwnID' /\ Credits'
    BY <1>inv, <2>0 DEF OwnID, Credits
  <2>5. NotYet'
    BY <1>inv, <2>0, <2>1, <2>2 DEF NotYet
  <2>6. Blames'
    BY <1>inv, <1>table, <2>0, <2>1, <2>2 DEF Blames
  <2>7. OverdueNoted'
    <3>1. overdue \subseteq Sends
      BY <1>inv, <1>sam DEF SampleType
    <3> QED
      BY <1>inv, <2>0, <2>2, <3>1 DEF OverdueNoted
  <2>8. SilenceCounts' /\ SentBefore'
    <3>0. SentBefore' /\ \A p \in Sends : TooOld(p) => TooOld(p)'
      BY <1>now, <2>0
    <3> SUFFICES ASSUME NEW p \in Sends, sending[p] = "tracked"
                 PROVE  \/ p \in Sampled(samples)' \cup observed' \cup forgotten'
                        \/ credited[p] + blamed'[p] > 0 \/ claim[p] # "none" \/ TooOld(p)'
      BY <2>0, <3>0 DEF SilenceCounts
    <3>1. CASE p = q
      <4>1. credited[q] \in Nat
        BY <1>inv DEF SampleType
      <4> QED
        BY <2>2, <3>1, <4>1
    <3>2. CASE p # q
      BY <1>inv, <1>table, <2>0, <2>2, <3>0, <3>2 DEF SilenceCounts
    <3> QED
      BY <3>1, <3>2
  <2> QED
    BY <1>table, <2>0, <2>3, <2>4, <2>5, <2>6, <2>7, <2>8 DEF SamplesInv
<1>8. ASSUME NEW q \in Sends, Retract(q) \/ Credit(q) PROVE SamplesInv'
  <2>0. UNCHANGED <<moment, idOf, sending, sentAt, samples, overdue, observed, blamed, forgotten>>
    BY <1>8 DEF Retract, Credit
  <2>1. /\ claim[q] # "none" /\ claim[q] # "done" /\ credited[q] = 0 /\ sending[q] = "tracked"
    BY <1>8, <1>inv DEF Retract, Credit, Credits, NotYet
  <2>2. /\ claim' \in [Sends -> Claimed] /\ credited' \in [Sends -> Nat]
        /\ claim'[q] \in {"credit", "done"} /\ \A p \in Sends : p # q => claim'[p] = claim[p]
        /\ \A p \in Sends : p # q => credited'[p] = credited[p]
        /\ credited'[q] = IF claim'[q] = "done" THEN 1 ELSE 0
    <3>1. CASE Retract(q)
      BY <1>inv, <2>1, <3>1 DEF Retract, SampleType, Claimed
    <3>2. CASE Credit(q)
      BY <1>inv, <2>1, <3>2 DEF Credit, SampleType, Claimed
    <3> QED
      BY <1>8, <3>1, <3>2
  <2>3. q \notin Sampled(samples)
    BY <1>sam, <2>1
  <2>4. SampleType'
    BY <1>inv, <1>time, <1>table, <2>0, <2>2 DEF SampleType
  <2>5. OwnID'
    <3>1. \A i \in DNSIDs : samples[i] # 0 => samples[i] \in Sends /\ samples[i] # q
      BY <1>sam, <2>3 DEF Sampled
    <3> QED
      BY <1>inv, <2>0, <2>2, <3>1 DEF OwnID
  <2>6. NotYet' /\ Credits'
    BY <1>inv, <2>0, <2>1, <2>2 DEF NotYet, Credits
  <2>7. Blames' /\ OverdueNoted'
    BY <1>inv, <1>table, <2>0 DEF Blames, OverdueNoted
  <2>8. SilenceCounts' /\ SentBefore'
    <3>0. SentBefore' /\ \A p \in Sends : TooOld(p) => TooOld(p)'
      BY <1>now, <2>0
    <3> SUFFICES ASSUME NEW p \in Sends, sending[p] = "tracked"
                 PROVE  \/ p \in Sampled(samples)' \cup observed' \cup forgotten'
                        \/ credited'[p] + blamed[p] > 0 \/ claim'[p] # "none" \/ TooOld(p)'
      BY <2>0, <3>0 DEF SilenceCounts
    <3>1. CASE p = q
      BY <2>2, <3>1
    <3>2. CASE p # q
      BY <1>inv, <1>table, <2>0, <2>2, <3>0, <3>2 DEF SilenceCounts
    <3> QED
      BY <3>1, <3>2
  <2> QED
    BY <1>table, <2>0, <2>4, <2>5, <2>6, <2>7, <2>8 DEF SamplesInv
<1>9. CASE Pass \/ UNCHANGED sampleVars
  <2>1. /\ UNCHANGED <<idOf, sending, sentAt, samples, overdue, observed, claim, credited, blamed, forgotten>>
        /\ moment' \in Nat /\ moment \in Nat /\ moment <= moment'
    BY <1>9, <1>inv DEF Pass, sampleVars, SampleType
  <2>2. SampleType'
    BY <1>inv, <1>time, <1>table, <2>1 DEF SampleType
  <2>3. OwnID' /\ NotYet' /\ Credits'
    BY <1>inv, <2>1 DEF OwnID, NotYet, Credits
  <2>4. Blames' /\ OverdueNoted'
    BY <1>inv, <1>table, <2>1 DEF Blames, OverdueNoted
  <2>5. SilenceCounts' /\ SentBefore'
    <3>1. \A q \in Sends : TooOld(q) => TooOld(q)'
      BY <1>old, <2>1
    <3>2. \A q \in Sends : sentAt[q] \in Nat
      BY <1>inv DEF SampleType
    <3>3. SentBefore'
      BY <1>inv, <2>1, <3>2 DEF SentBefore
    <3> QED
      BY <1>inv, <1>table, <2>1, <3>1, <3>3 DEF SilenceCounts
  <2> QED
    BY <1>table, <2>1, <2>2, <2>3, <2>4, <2>5 DEF SamplesInv
<1> QED
  BY <1>1, <1>2, <1>3, <1>5, <1>6, <1>7, <1>8, <1>9 DEF SamplesNext, SamplesStep

\* However answers, errors and timeouts cross: a query counts at most once for
\* its resolver and once against it, the table of samples keeps to its limit,
\* and no query is left out of account, but for those that grew too old to time
\* out, where the timeout of a packet is longer than samples are kept.
THEOREM SamplesAreSound == SamplesSpec => []SamplesSound
<1>1. SamplesInv => SamplesSound
  BY DEF SamplesInv, SamplesSound, CountedOnce, Credits, Blames
<1> QED
  BY <1>1, SamplesInvInit, SamplesInvStep, PTL DEF SamplesSpec

-----------------------------------------------------------------------------
(* The client's end of a UDP association.                                   *)

Forwarders ==
    [step : {"idle", "starts", "publishes", "writes", "fails", "pauses", "leaves", "exited"},
     frame : Nat, active : Nat]

\* The type invariant, but for the one variable that is a truth value.
QueueType ==
    /\ frames \in Seq(1 .. MaxFrames) /\ heard \in 0 .. MaxFrames
    /\ socketLoop \in {"reads", "makes_room", "stops", "waits", "gone"}
    /\ forwarder.frame \in 0 .. heard /\ forwarder.active \in 0 .. opened
    /\ published \in 0 .. opened /\ opened \in 0 .. MaxAssociations
    /\ pipes \subseteq carried /\ carried \subseteq 1 .. opened
    /\ delivered \in 0 .. heard

\* A frame is no newer than the last one read, and older while that one waits
\* for room.
NewestHeard ==
    LET newest == IF socketLoop = "makes_room" THEN heard - 1 ELSE heard
    IN  /\ \A i \in 1 .. Len(frames) : frames[i] <= newest
        /\ forwarder.frame <= newest /\ delivered <= newest

\* A stream is the forwarder's from its start to its end, is published while
\* the forwarder may wait for it, and is closed when it is past the close.
StreamOfForwarder ==
    /\ forwarder.step \in {"starts", "pauses", "exited"} => forwarder.active = 0
    /\ forwarder.step # "publishes" /\ forwarder.active # 0 => published = forwarder.active
    /\ socketLoop \in {"stops", "waits", "gone"} => cancelled
    /\ socketLoop = "gone" => forwarder.step = "exited"
    /\ socketLoop \in {"waits", "gone"} /\ forwarder.step # "publishes" =>
           forwarder.active \notin pipes

GenericInv ==
    /\ forwarder \in Forwarders /\ QueueType /\ cancelled \in BOOLEAN
    /\ NewestHeard /\ NewestLast
    /\ StreamOfForwarder /\ OneStream

\* What a queue of frames holds after one is added, and after the oldest goes.
LEMMA QueueGrows ==
    ASSUME NEW S, NEW s \in Seq(S), NEW e \in S
    PROVE  /\ Append(s, e) \in Seq(S) /\ Len(Append(s, e)) = Len(s) + 1
           /\ \A i \in 1 .. Len(s) + 1 : Append(s, e)[i] = IF i = Len(s) + 1 THEN e ELSE s[i]
OBVIOUS

\* The rest of a queue is a queue, one shorter.
LEMMA QueueShrinks ==
    ASSUME NEW S, NEW s \in Seq(S), s # <<>>
    PROVE  /\ Tail(s) \in Seq(S) /\ Len(Tail(s)) = Len(s) - 1 /\ Len(s) \in Nat \ {0}
           /\ \A i \in 1 .. Len(s) - 1 : Tail(s)[i] = s[i + 1]
           /\ Head(s) = s[1] /\ Head(s) \in S /\ s[Len(s)] \in S
OBVIOUS

\* What a queue holds is of its kind.
LEMMA QueueHolds ==
    ASSUME NEW S, NEW s \in Seq(S)
    PROVE  Len(s) \in Nat /\ \A i \in 1 .. Len(s) : s[i] \in S
OBVIOUS

\* The empty queue.
LEMMA QueueEmpty == ASSUME NEW S PROVE <<>> \in Seq(S) /\ Len(<<>>) = 0
OBVIOUS

\* The forwarder starts with nothing queued and nothing heard.
LEMMA GenericInvInit == GenericInit => GenericInv
<1> SUFFICES ASSUME GenericInit PROVE GenericInv
  OBVIOUS
<1>1. frames \in Seq(1 .. MaxFrames) /\ Len(frames) = 0
  BY QueueEmpty DEF GenericInit
<1>2. forwarder \in Forwarders /\ forwarder.step = "idle" /\ forwarder.frame = 0 /\ forwarder.active = 0
  BY DEF GenericInit, Forwarders, Forwarding
<1>3. QueueType
  BY <1>1, <1>2, GenericUDPAssumption DEF GenericInit, QueueType
<1>6. cancelled \in BOOLEAN
  BY Zenon DEF GenericInit
<1>4. NewestHeard /\ NewestLast
  BY <1>1, <1>2 DEF GenericInit, NewestHeard, NewestLast
<1>5. StreamOfForwarder /\ OneStream
  BY <1>1, <1>2 DEF GenericInit, StreamOfForwarder, OneStream
<1> QED
  BY <1>2, <1>3, <1>4, <1>5, <1>6 DEF GenericInv

\* Each step of the association keeps what it knows of the newest stream.
LEMMA GenericInvStep == GenericInv /\ [GenericNext]_genericVars => GenericInv'
<1> SUFFICES ASSUME GenericInv, [GenericNext]_genericVars PROVE GenericInv'
  OBVIOUS
<1>inv. /\ forwarder \in Forwarders /\ QueueType /\ NewestHeard /\ NewestLast
        /\ StreamOfForwarder /\ OneStream
  BY DEF GenericInv
<1>num. /\ forwarder.frame \in Nat /\ forwarder.active \in Nat
        /\ opened \in Nat /\ heard \in Nat /\ delivered \in Nat /\ published \in Nat
  <2>1. forwarder.frame \in Nat /\ forwarder.active \in Nat
    BY <1>inv DEF Forwarders
  <2>2. opened \in 0 .. MaxAssociations /\ heard \in 0 .. MaxFrames /\ delivered \in 0 .. heard
        /\ published \in 0 .. opened
    BY <1>inv DEF QueueType
  <2> QED
    BY <2>1, <2>2, GenericUDPAssumption
<1>own. /\ pipes \subseteq carried /\ carried \subseteq 1 .. opened
        /\ forwarder.frame <= heard /\ forwarder.active <= opened
        /\ published <= opened /\ delivered <= heard
        /\ opened <= MaxAssociations /\ heard <= MaxFrames
  BY <1>inv, <1>num, GenericUDPAssumption DEF QueueType
<1>seq. frames \in Seq(1 .. MaxFrames)
  BY <1>inv DEF QueueType
<1>len. Len(frames) \in Nat /\ \A i \in 1 .. Len(frames) : frames[i] \in Nat
  <2>1. Len(frames) \in Nat /\ \A i \in 1 .. Len(frames) : frames[i] \in 1 .. MaxFrames
    BY <1>seq, QueueHolds
  <2> QED
    BY <2>1, GenericUDPAssumption
<1>1. CASE ReceiveFrame
  <2>0. /\ socketLoop = "reads" /\ heard < MaxFrames /\ heard' = heard + 1
        /\ UNCHANGED <<forwarder, published, opened, pipes, carried, delivered, cancelled>>
        /\ \/ frames' = Append(frames, heard + 1) /\ socketLoop' = "reads"
           \/ frames' = frames /\ socketLoop' = "makes_room"
    BY <1>1 DEF ReceiveFrame
  <2>8. heard + 1 \in 1 .. MaxFrames
    BY <1>num, <2>0, GenericUDPAssumption
  <2>9. ASSUME frames' = Append(frames, heard + 1)
        PROVE  /\ frames' \in Seq(1 .. MaxFrames) /\ Len(frames') = Len(frames) + 1
               /\ \A i \in 1 .. Len(frames) + 1 : frames'[i] = IF i = Len(frames) + 1 THEN heard + 1 ELSE frames[i]
    BY <1>seq, <2>8, <2>9, QueueGrows
  <2>10. frames' \in Seq(1 .. MaxFrames)
    BY <1>seq, <2>0, <2>9
  <2>11. \A i \in 1 .. Len(frames) : /\ frames[i] <= heard /\ forwarder.frame <= heard /\ delivered <= heard
    BY <2>0, <1>inv DEF NewestHeard
  <2>1. forwarder' \in Forwarders
    BY <1>inv, <2>0
  <2>2. QueueType'
    BY <1>inv, <1>num, <1>own, <2>0, <2>8, <2>10 DEF QueueType
  <2>3. NewestHeard'
    <3>1. CASE frames' = Append(frames, heard + 1) /\ socketLoop' = "reads"
      BY <1>num, <1>own, <1>len, <2>0, <2>9, <2>11, <3>1 DEF NewestHeard
    <3>2. CASE frames' = frames /\ socketLoop' = "makes_room"
      BY <1>num, <1>own, <1>len, <2>0, <2>11, <3>2 DEF NewestHeard
    <3> QED
      BY <2>0, <3>1, <3>2
  <2>4. NewestLast'
    <3>1. CASE frames' = Append(frames, heard + 1) /\ socketLoop' = "reads"
      BY <1>inv, <1>num, <1>own, <1>len, <2>0, <2>9, <2>11, <3>1 DEF NewestLast
    <3>2. CASE frames' = frames /\ socketLoop' = "makes_room"
      BY <1>inv, <1>num, <1>own, <1>len, <2>0, <3>2 DEF NewestLast
    <3> QED
      BY <2>0, <3>1, <3>2
  <2>5. StreamOfForwarder'
    BY <1>inv, <1>num, <1>own, <2>0 DEF StreamOfForwarder
  <2>6. OneStream'
    BY <1>inv, <1>num, <1>own, <2>0 DEF StreamOfForwarder, OneStream
  <2>7. cancelled' \in BOOLEAN
    BY <1>1, Zenon DEF ReceiveFrame, GenericInv
  <2> QED
    BY <2>1, <2>2, <2>3, <2>4, <2>5, <2>6, <2>7 DEF GenericInv
<1>2. CASE MakeRoom
  <2> DEFINE rest == IF frames = <<>> THEN <<>> ELSE Tail(frames)
  <2>0. /\ socketLoop = "makes_room" /\ socketLoop' = "reads" /\ heard' = heard
        /\ UNCHANGED <<forwarder, published, opened, pipes, carried, delivered, cancelled>>
        /\ frames' = Append(rest, heard)
    BY <1>2 DEF MakeRoom
  <2>12. /\ forwarder.frame <= heard - 1 /\ delivered <= heard - 1
         /\ \A i \in 1 .. Len(frames) : frames[i] <= heard - 1
    BY <1>inv, <2>0 DEF NewestHeard
  <2>9. heard \in 1 .. MaxFrames
    BY <1>num, <1>own, <2>12, GenericUDPAssumption
  <2>8. /\ rest \in Seq(1 .. MaxFrames) /\ Len(rest) \in Nat
        /\ \A i \in 1 .. Len(rest) : \E n \in 1 .. Len(frames) : rest[i] = frames[n]
        /\ \A i, j \in 1 .. Len(rest) : i < j => rest[i] < rest[j]
    <3>1. CASE frames = <<>>
      BY <3>1, QueueEmpty
    <3>2. CASE frames # <<>>
      <4>1. rest \in Seq(1 .. MaxFrames) /\ Len(rest) = Len(frames) - 1 /\ Len(frames) # 0
            /\ \A i \in 1 .. Len(rest) : rest[i] = frames[i + 1]
        BY <1>seq, <3>2, QueueShrinks
      <4>2. Len(rest) \in Nat /\ \A i \in 1 .. Len(rest) : i + 1 \in 1 .. Len(frames)
        BY <1>len, <4>1
      <4>3. \A i, j \in 1 .. Len(frames) : i < j => frames[i] < frames[j]
        BY <1>inv DEF NewestLast
      <4>4. ASSUME NEW i \in 1 .. Len(rest), NEW j \in 1 .. Len(rest), i < j
            PROVE  rest[i] < rest[j]
        BY <4>1, <4>2, <4>3, <4>4
      <4> HIDE DEF rest
      <4> QED
        BY <4>1, <4>2, <4>4
    <3> QED
      BY <3>1, <3>2
  <2> HIDE DEF rest
  <2>10. /\ frames' \in Seq(1 .. MaxFrames) /\ Len(frames') = Len(rest) + 1
         /\ \A i \in 1 .. Len(rest) + 1 : frames'[i] = IF i = Len(rest) + 1 THEN heard ELSE rest[i]
    BY <2>0, <2>8, <2>9, QueueGrows
  <2>11. \A i \in 1 .. Len(rest) : /\ rest[i] \in Nat /\ rest[i] <= heard - 1
                                   /\ rest[i] > delivered /\ rest[i] > forwarder.frame
    BY <1>inv, <1>len, <2>8, <2>12 DEF NewestLast
  <2>13. \A i, j \in 1 .. Len(rest) : i < j => rest[i] < rest[j]
    BY <2>8
  <2>14. Len(rest) \in Nat
    BY <2>8
  <2>15. /\ Len(frames') = Len(rest) + 1
         /\ \A i \in 1 .. Len(rest) + 1 : frames'[i] = IF i = Len(rest) + 1 THEN heard ELSE rest[i]
    BY <2>10
  <2>1. forwarder' \in Forwarders
    BY <1>inv, <2>0
  <2>2. QueueType'
    BY <1>inv, <1>num, <1>own, <2>0, <2>10 DEF QueueType
  <2>3. NewestHeard'
    BY <1>num, <1>own, <2>0, <2>11, <2>12, <2>14, <2>15 DEF NewestHeard
  <2>4. NewestLast'
    <3>1. forwarder.frame # 0 => delivered < forwarder.frame
      BY <1>inv DEF NewestLast
    <3> QED
      BY <1>num, <1>own, <2>0, <2>11, <2>12, <2>13, <2>14, <2>15, <3>1 DEF NewestLast
  <2>5. StreamOfForwarder'
    BY <1>inv, <1>num, <1>own, <2>0 DEF StreamOfForwarder
  <2>6. OneStream'
    BY <1>inv, <1>num, <1>own, <2>0 DEF StreamOfForwarder, OneStream
  <2>7. cancelled' \in BOOLEAN
    BY <1>2, Zenon DEF MakeRoom, GenericInv
  <2> QED
    BY <2>1, <2>2, <2>3, <2>4, <2>5, <2>6, <2>7 DEF GenericInv
<1>3. CASE CancelForwarder
  <2>0. /\ socketLoop = "reads" /\ socketLoop' = "stops" /\ cancelled' = TRUE
        /\ UNCHANGED <<frames, heard, forwarder, published, opened, pipes, carried, delivered>>
    BY <1>3 DEF CancelForwarder
  <2>1. forwarder' \in Forwarders
    BY <1>inv, <2>0 DEF Forwarders
  <2>2. QueueType'
    BY <1>inv, <1>num, <1>own, <2>0, <1>seq DEF QueueType
  <2>3. NewestHeard'
    BY <1>inv, <1>num, <1>own, <2>0, <1>len DEF NewestHeard
  <2>4. NewestLast'
    BY <1>inv, <1>num, <1>own, <2>0, <1>len DEF NewestLast
  <2>5. StreamOfForwarder'
    BY <1>inv, <1>num, <1>own, <2>0 DEF StreamOfForwarder
  <2>6. OneStream'
    BY <1>inv, <1>num, <1>own, <2>0 DEF StreamOfForwarder, OneStream
  <2>7. cancelled' \in BOOLEAN
    BY <1>3, Zenon DEF CancelForwarder, GenericInv
  <2> QED
    BY <2>1, <2>2, <2>3, <2>4, <2>5, <2>6, <2>7 DEF GenericInv
<1>4. CASE ClosePublished
  <2>0. /\ socketLoop = "stops" /\ socketLoop' = "waits" /\ pipes' = pipes \ {published}
        /\ UNCHANGED <<frames, heard, forwarder, published, opened, carried, delivered, cancelled>>
    BY <1>4 DEF ClosePublished
  <2>1. forwarder' \in Forwarders
    BY <1>inv, <2>0 DEF Forwarders
  <2>2. QueueType'
    BY <1>inv, <1>num, <1>own, <2>0, <1>seq DEF QueueType
  <2>3. NewestHeard'
    BY <1>inv, <1>num, <1>own, <2>0, <1>len DEF NewestHeard
  <2>4. NewestLast'
    BY <1>inv, <1>num, <1>own, <2>0, <1>len DEF NewestLast
  <2>5. StreamOfForwarder'
    BY <1>inv, <1>num, <1>own, <2>0 DEF StreamOfForwarder
  <2>6. OneStream'
    BY <1>inv, <1>num, <1>own, <2>0 DEF StreamOfForwarder, OneStream
  <2>7. cancelled' \in BOOLEAN
    BY <1>4, Zenon DEF ClosePublished, GenericInv
  <2> QED
    BY <2>1, <2>2, <2>3, <2>4, <2>5, <2>6, <2>7 DEF GenericInv
<1>5. CASE LoopReturns
  <2>0. /\ socketLoop = "waits" /\ forwarder.step = "exited" /\ socketLoop' = "gone"
        /\ UNCHANGED <<frames, heard, forwarder, published, opened, pipes, carried, delivered, cancelled>>
    BY <1>5 DEF LoopReturns
  <2>1. forwarder' \in Forwarders
    BY <1>inv, <2>0 DEF Forwarders
  <2>2. QueueType'
    BY <1>inv, <1>num, <1>own, <2>0, <1>seq DEF QueueType
  <2>3. NewestHeard'
    BY <1>inv, <1>num, <1>own, <2>0, <1>len DEF NewestHeard
  <2>4. NewestLast'
    BY <1>inv, <1>num, <1>own, <2>0, <1>len DEF NewestLast
  <2>5. StreamOfForwarder'
    BY <1>inv, <1>num, <1>own, <2>0 DEF StreamOfForwarder
  <2>6. OneStream'
    BY <1>inv, <1>num, <1>own, <2>0 DEF StreamOfForwarder, OneStream
  <2>7. cancelled' \in BOOLEAN
    BY <1>5, Zenon DEF LoopReturns, GenericInv
  <2> QED
    BY <2>1, <2>2, <2>3, <2>4, <2>5, <2>6, <2>7 DEF GenericInv
<1>6. CASE TakeFrame
  <2>0. /\ forwarder.step = "idle" /\ frames # <<>> /\ frames' = Tail(frames)
        /\ UNCHANGED <<heard, socketLoop, published, opened, pipes, carried, delivered, cancelled>>
        /\ forwarder' = [forwarder EXCEPT !.step = IF forwarder.active # 0 THEN "writes" ELSE "starts",
                                          !.frame = Head(frames)]
    BY <1>6 DEF TakeFrame
  <2>9. /\ Len(frames) \in Nat \ {0} /\ Len(frames') = Len(frames) - 1
        /\ \A i \in 1 .. Len(frames) - 1 : frames'[i] = frames[i + 1]
        /\ Head(frames) = frames[1] /\ frames' \in Seq(1 .. MaxFrames)
    BY <1>seq, <2>0, QueueShrinks
  <2>10. /\ frames[1] \in Nat /\ frames[1] > delivered /\ frames[1] <= heard
         /\ socketLoop = "makes_room" => frames[1] <= heard - 1
    BY <1>inv, <1>len, <1>num, <2>9 DEF NewestHeard, NewestLast
  <2>8. /\ forwarder'.frame = frames[1] /\ forwarder'.active = forwarder.active
        /\ forwarder'.step = IF forwarder.active # 0 THEN "writes" ELSE "starts"
    BY <1>inv, <2>0, <2>9 DEF Forwarders
  <2>11. Len(frames) \in Nat \ {0} /\ Len(frames') = Len(frames) - 1
         /\ \A i \in 1 .. Len(frames) - 1 : frames'[i] = frames[i + 1]
    BY <2>9
  <2>12. UNCHANGED <<heard, socketLoop, published, opened, pipes, carried, delivered, cancelled>>
    BY <2>0
  <2>14. forwarder.step = "idle"
    BY <2>0
  <2>13. \A i \in 1 .. Len(frames) - 1 : i + 1 \in 1 .. Len(frames) /\ 1 \in 1 .. Len(frames) /\ 1 < i + 1
    BY <2>11
  <2>1. forwarder' \in Forwarders
    BY <1>inv, <2>0, <2>9, <2>10 DEF Forwarders
  <2>2. QueueType'
    BY <1>inv, <1>num, <1>own, <2>8, <2>9, <2>10, <2>12 DEF QueueType
  <2>3. NewestHeard'
    BY <1>inv, <1>num, <1>len, <2>8, <2>10, <2>11, <2>12, <2>13 DEF NewestHeard
  <2>4. NewestLast'
    <3>1. \A i \in 1 .. Len(frames') : i + 1 \in 1 .. Len(frames) /\ frames'[i] = frames[i + 1]
      BY <2>11, <2>13
    <3>2. \A i \in 1 .. Len(frames') : frames'[i] > delivered /\ frames'[i] > frames[1]
      BY <1>inv, <1>num, <1>len, <2>11, <2>13, <3>1 DEF NewestLast
    <3>3. \A i, j \in 1 .. Len(frames') : i < j => frames'[i] < frames'[j]
      <4> SUFFICES ASSUME NEW i \in 1 .. Len(frames'), NEW j \in 1 .. Len(frames'), i < j
                   PROVE  frames'[i] < frames'[j]
        OBVIOUS
      <4>1. /\ i + 1 \in 1 .. Len(frames) /\ j + 1 \in 1 .. Len(frames) /\ i + 1 < j + 1
            /\ frames'[i] = frames[i + 1] /\ frames'[j] = frames[j + 1]
        BY <2>11, <3>1
      <4> QED
        BY <1>inv, <4>1 DEF NewestLast
    <3> QED
      BY <2>8, <2>10, <2>12, <3>2, <3>3 DEF NewestLast
  <2>5. StreamOfForwarder'
    BY <1>inv, <1>num, <1>own, <2>8, <2>12, <2>14 DEF StreamOfForwarder
  <2>6. OneStream'
    BY <1>inv, <1>num, <1>own, <2>8, <2>12, <2>14 DEF StreamOfForwarder, OneStream
  <2>7. cancelled' \in BOOLEAN
    BY <1>6, Zenon DEF TakeFrame, GenericInv
  <2> QED
    BY <2>1, <2>2, <2>3, <2>4, <2>5, <2>6, <2>7 DEF GenericInv
<1>7. CASE SeesTheEnd
  <2>0. /\ forwarder.step = "idle" /\ UNCHANGED frames
        /\ UNCHANGED <<heard, socketLoop, published, opened, pipes, carried, delivered, cancelled>>
        /\ forwarder' \in Forwarders /\ forwarder'.step = "leaves" /\ forwarder'.frame = forwarder.frame /\ forwarder'.active = forwarder.active
    BY <1>inv, <1>7 DEF SeesTheEnd, Forwarders
  <2>1. forwarder' \in Forwarders
    BY <1>inv, <2>0 DEF Forwarders
  <2>2. QueueType'
    BY <1>inv, <1>num, <1>own, <2>0, <1>seq DEF QueueType
  <2>3. NewestHeard'
    BY <1>inv, <1>num, <1>own, <2>0, <1>len DEF NewestHeard
  <2>4. NewestLast'
    BY <1>inv, <1>num, <1>own, <2>0, <1>len DEF NewestLast
  <2>5. StreamOfForwarder'
    BY <1>inv, <1>num, <1>own, <2>0 DEF StreamOfForwarder
  <2>6. OneStream'
    BY <1>inv, <1>num, <1>own, <2>0 DEF StreamOfForwarder, OneStream
  <2>7. cancelled' \in BOOLEAN
    BY <1>7, Zenon DEF SeesTheEnd, GenericInv
  <2> QED
    BY <2>1, <2>2, <2>3, <2>4, <2>5, <2>6, <2>7 DEF GenericInv
<1>8. CASE StartAssociation
  <2>0. /\ forwarder.step = "starts"
        /\ UNCHANGED <<frames, heard, socketLoop, published, delivered, cancelled>>
    BY <1>8 DEF StartAssociation
  <2>8. \/ /\ forwarder'.step = "pauses" /\ forwarder'.frame = forwarder.frame /\ forwarder'.active = forwarder.active
           /\ UNCHANGED <<opened, pipes, carried>>
        \/ /\ forwarder'.step = "publishes" /\ forwarder'.frame = forwarder.frame /\ forwarder'.active = opened + 1
           /\ opened < MaxAssociations /\ opened' = opened + 1
           /\ pipes' = pipes \cup {opened + 1} /\ carried' = carried \cup {opened + 1}
    BY <1>inv, <1>8 DEF StartAssociation, Forwarders
  <2>1. forwarder' \in Forwarders
    <3>1. CASE forwarder' = [forwarder EXCEPT !.step = "pauses"]
      BY <1>inv, <3>1 DEF Forwarders
    <3>2. CASE forwarder' = [forwarder EXCEPT !.step = "publishes", !.active = opened + 1]
      <4>1. opened + 1 \in Nat
        BY <1>num
      <4> QED
        BY <1>inv, <3>2, <4>1 DEF Forwarders
    <3> QED
      BY <1>8, <3>1, <3>2 DEF StartAssociation
  <2>2. QueueType'
    <3>1. pipes' \subseteq carried' /\ carried' \subseteq 1 .. opened'
      <4>1. CASE UNCHANGED <<opened, pipes, carried>>
        BY <1>own, <4>1
      <4>2. CASE /\ opened' = opened + 1
                 /\ pipes' = pipes \cup {opened + 1} /\ carried' = carried \cup {opened + 1}
        <5>1. 1 .. opened \subseteq 1 .. opened + 1 /\ opened + 1 \in 1 .. opened + 1
          BY <1>num
        <5> QED
          BY <1>own, <4>2, <5>1
      <4> QED
        BY <2>8, <4>1, <4>2
    <3>2. /\ forwarder'.frame \in 0 .. heard' /\ forwarder'.active \in 0 .. opened'
          /\ published' \in 0 .. opened' /\ opened' \in 0 .. MaxAssociations
      BY <1>num, <1>own, <2>0, <2>8, GenericUDPAssumption
    <3>3. /\ frames' \in Seq(1 .. MaxFrames) /\ heard' \in 0 .. MaxFrames
          /\ delivered' \in 0 .. heard'
          /\ socketLoop' \in {"reads", "makes_room", "stops", "waits", "gone"}
      BY <1>inv, <2>0 DEF QueueType
    <3> QED
      BY <3>1, <3>2, <3>3 DEF QueueType
  <2>3. NewestHeard'
    BY <1>inv, <1>num, <1>own, <2>0, <2>8, <1>len DEF NewestHeard
  <2>4. NewestLast'
    BY <1>inv, <1>num, <1>own, <2>0, <2>8, <1>len DEF NewestLast
  <2>5. StreamOfForwarder'
    BY <1>inv, <1>num, <1>own, <2>0, <2>8 DEF StreamOfForwarder
  <2>6. OneStream'
    <3>1. carried = {}
      BY <1>inv, <1>own, <1>num, <2>0 DEF StreamOfForwarder, OneStream
    <3> QED
      BY <1>inv, <2>0, <2>8, <3>1 DEF StreamOfForwarder, OneStream
  <2>7. cancelled' \in BOOLEAN
    BY <1>8, Zenon DEF StartAssociation, GenericInv
  <2> QED
    BY <2>1, <2>2, <2>3, <2>4, <2>5, <2>6, <2>7 DEF GenericInv
<1>9. CASE SetActive
  <2>0. /\ forwarder.step = "publishes"
        /\ UNCHANGED <<frames, heard, socketLoop, opened, delivered, cancelled>>
    BY <1>9 DEF SetActive
  <2>9. \/ /\ cancelled /\ pipes' = pipes \ {forwarder.active}
           /\ carried' = carried \ {forwarder.active} /\ published' = published
           /\ forwarder' = [forwarder EXCEPT !.step = "leaves", !.active = 0]
        \/ /\ ~cancelled /\ published' = forwarder.active /\ UNCHANGED <<pipes, carried>>
           /\ forwarder' = [forwarder EXCEPT !.step = "writes"]
    BY <1>9, Zenon DEF SetActive, Publishes
  <2>8. \/ /\ cancelled /\ pipes' = pipes \ {forwarder.active}
           /\ carried' = carried \ {forwarder.active} /\ published' = published
           /\ forwarder'.step = "leaves" /\ forwarder'.frame = forwarder.frame /\ forwarder'.active = 0
        \/ /\ ~cancelled /\ published' = forwarder.active /\ UNCHANGED <<pipes, carried>>
           /\ forwarder'.step = "writes" /\ forwarder'.frame = forwarder.frame /\ forwarder'.active = forwarder.active
    BY <1>inv, <2>9 DEF Forwarders
  <2>1. forwarder' \in Forwarders
    <3>1. CASE forwarder' = [forwarder EXCEPT !.step = "leaves", !.active = 0]
      BY <1>inv, <3>1 DEF Forwarders
    <3>2. CASE forwarder' = [forwarder EXCEPT !.step = "writes"]
      BY <1>inv, <3>2 DEF Forwarders
    <3> QED
      BY <2>9, <3>1, <3>2
  <2>2. QueueType'
    <3>1. pipes' \subseteq carried' /\ carried' \subseteq 1 .. opened'
      BY <1>own, <2>0, <2>8
    <3>2. /\ forwarder'.frame \in 0 .. heard' /\ forwarder'.active \in 0 .. opened'
          /\ published' \in 0 .. opened'
      BY <1>num, <1>own, <2>0, <2>8
    <3>3. /\ frames' \in Seq(1 .. MaxFrames) /\ heard' \in 0 .. MaxFrames
          /\ delivered' \in 0 .. heard' /\ opened' \in 0 .. MaxAssociations
          /\ socketLoop' \in {"reads", "makes_room", "stops", "waits", "gone"}
      BY <1>inv, <2>0, <2>8 DEF QueueType
    <3> QED
      BY <3>1, <3>2, <3>3 DEF QueueType
  <2>3. NewestHeard'
    BY <1>inv, <1>num, <1>own, <2>0, <2>8, <1>len DEF NewestHeard
  <2>4. NewestLast'
    BY <1>inv, <1>num, <1>own, <2>0, <2>8, <1>len DEF NewestLast
  <2>5. StreamOfForwarder'
    BY <1>inv, <1>num, <1>own, <2>0, <2>8 DEF StreamOfForwarder
  <2>6. OneStream'
    BY <1>inv, <1>num, <1>own, <2>0, <2>8 DEF StreamOfForwarder, OneStream
  <2>7. cancelled' \in BOOLEAN
    BY <1>9, Zenon DEF SetActive, Publishes, GenericInv
  <2> QED
    BY <2>1, <2>2, <2>3, <2>4, <2>5, <2>6, <2>7 DEF GenericInv
<1>10. CASE WriteFrame
  <2>0. /\ forwarder.step = "writes"
        /\ UNCHANGED <<frames, heard, socketLoop, published, opened, pipes, carried, cancelled>>
    BY <1>10 DEF WriteFrame
  <2>9. \/ /\ delivered' = forwarder.frame
           /\ forwarder' = [forwarder EXCEPT !.step = "idle", !.frame = 0]
        \/ /\ forwarder' = [forwarder EXCEPT !.step = "fails"] /\ delivered' = delivered
    BY <1>10 DEF WriteFrame
  <2>8. \/ delivered' = forwarder.frame /\ forwarder'.step = "idle" /\ forwarder'.frame = 0 /\ forwarder'.active = forwarder.active
        \/ delivered' = delivered /\ forwarder'.step = "fails" /\ forwarder'.frame = forwarder.frame /\ forwarder'.active = forwarder.active
    BY <1>inv, <2>9 DEF Forwarders
  <2>1. forwarder' \in Forwarders
    <3>1. CASE forwarder' = [forwarder EXCEPT !.step = "idle", !.frame = 0]
      BY <1>inv, <3>1 DEF Forwarders
    <3>2. CASE forwarder' = [forwarder EXCEPT !.step = "fails"]
      BY <1>inv, <3>2 DEF Forwarders
    <3> QED
      BY <2>9, <3>1, <3>2
  <2>2. QueueType'
    BY <1>inv, <1>num, <1>own, <2>0, <2>8, <1>seq DEF QueueType
  <2>3. NewestHeard'
    BY <1>inv, <1>num, <1>own, <2>0, <2>8, <1>len DEF NewestHeard
  <2>4. NewestLast'
    BY <1>inv, <1>num, <1>own, <2>0, <2>8, <1>len DEF NewestLast
  <2>5. StreamOfForwarder'
    BY <1>inv, <1>num, <1>own, <2>0, <2>8 DEF StreamOfForwarder
  <2>6. OneStream'
    BY <1>inv, <1>num, <1>own, <2>0, <2>8 DEF StreamOfForwarder, OneStream
  <2>7. cancelled' \in BOOLEAN
    BY <1>10, Zenon DEF WriteFrame, GenericInv
  <2> QED
    BY <2>1, <2>2, <2>3, <2>4, <2>5, <2>6, <2>7 DEF GenericInv
<1>11. CASE CloseFailed
  <2>0. /\ forwarder.step = "fails"
        /\ UNCHANGED <<frames, heard, socketLoop, opened, delivered, cancelled>>
        /\ published' = IF published = forwarder.active THEN 0 ELSE published
        /\ pipes' = pipes \ {forwarder.active} /\ carried' = carried \ {forwarder.active}
        /\ forwarder' = [forwarder EXCEPT !.step = "pauses", !.active = 0]
    BY <1>11 DEF CloseFailed, DropsActive
  <2>8. forwarder'.step = "pauses" /\ forwarder'.frame = forwarder.frame /\ forwarder'.active = 0
    BY <1>inv, <2>0 DEF Forwarders
  <2>9. /\ forwarder.step = "fails"
        /\ UNCHANGED <<frames, heard, socketLoop, opened, delivered, cancelled>>
        /\ published' = IF published = forwarder.active THEN 0 ELSE published
        /\ pipes' = pipes \ {forwarder.active} /\ carried' = carried \ {forwarder.active}
    BY <2>0
  <2>1. forwarder' \in Forwarders
    BY <1>inv, <2>0 DEF Forwarders
  <2>2. QueueType'
    <3>1. pipes' \subseteq carried' /\ carried' \subseteq 1 .. opened'
      BY <1>own, <2>8, <2>9
    <3>2. /\ forwarder'.frame \in 0 .. heard' /\ forwarder'.active \in 0 .. opened'
          /\ published' \in 0 .. opened'
      BY <1>num, <1>own, <2>8, <2>9
    <3>3. /\ frames' \in Seq(1 .. MaxFrames) /\ heard' \in 0 .. MaxFrames
          /\ delivered' \in 0 .. heard' /\ opened' \in 0 .. MaxAssociations
          /\ socketLoop' \in {"reads", "makes_room", "stops", "waits", "gone"}
      BY <1>inv, <2>8, <2>9 DEF QueueType
    <3> QED
      BY <3>1, <3>2, <3>3 DEF QueueType
  <2>3. NewestHeard'
    BY <1>inv, <1>num, <1>own, <2>8, <2>9, <1>len DEF NewestHeard
  <2>4. NewestLast'
    BY <1>inv, <1>num, <1>own, <2>8, <2>9, <1>len DEF NewestLast
  <2>5. StreamOfForwarder'
    BY <1>inv, <1>num, <1>own, <2>8, <2>9 DEF StreamOfForwarder
  <2>6. OneStream'
    BY <1>inv, <1>num, <1>own, <2>8, <2>9 DEF StreamOfForwarder, OneStream
  <2>7. cancelled' \in BOOLEAN
    BY <1>11, Zenon DEF CloseFailed, DropsActive, GenericInv
  <2> QED
    BY <2>1, <2>2, <2>3, <2>4, <2>5, <2>6, <2>7 DEF GenericInv
<1>12. CASE LeaveForwarder
  <2>0. /\ forwarder.step = "leaves"
        /\ UNCHANGED <<frames, heard, socketLoop, opened, delivered, cancelled>>
        /\ published' = IF published = forwarder.active THEN 0 ELSE published
        /\ pipes' = pipes \ {forwarder.active} /\ carried' = carried \ {forwarder.active}
        /\ forwarder' = [forwarder EXCEPT !.step = "exited", !.active = 0]
    BY <1>12 DEF LeaveForwarder, DropsActive
  <2>8. forwarder'.step = "exited" /\ forwarder'.frame = forwarder.frame /\ forwarder'.active = 0
    BY <1>inv, <2>0 DEF Forwarders
  <2>9. /\ forwarder.step = "leaves"
        /\ UNCHANGED <<frames, heard, socketLoop, opened, delivered, cancelled>>
        /\ published' = IF published = forwarder.active THEN 0 ELSE published
        /\ pipes' = pipes \ {forwarder.active} /\ carried' = carried \ {forwarder.active}
    BY <2>0
  <2>1. forwarder' \in Forwarders
    BY <1>inv, <2>0 DEF Forwarders
  <2>2. QueueType'
    <3>1. pipes' \subseteq carried' /\ carried' \subseteq 1 .. opened'
      BY <1>own, <2>8, <2>9
    <3>2. /\ forwarder'.frame \in 0 .. heard' /\ forwarder'.active \in 0 .. opened'
          /\ published' \in 0 .. opened'
      BY <1>num, <1>own, <2>8, <2>9
    <3>3. /\ frames' \in Seq(1 .. MaxFrames) /\ heard' \in 0 .. MaxFrames
          /\ delivered' \in 0 .. heard' /\ opened' \in 0 .. MaxAssociations
          /\ socketLoop' \in {"reads", "makes_room", "stops", "waits", "gone"}
      BY <1>inv, <2>8, <2>9 DEF QueueType
    <3> QED
      BY <3>1, <3>2, <3>3 DEF QueueType
  <2>3. NewestHeard'
    BY <1>inv, <1>num, <1>own, <2>8, <2>9, <1>len DEF NewestHeard
  <2>4. NewestLast'
    BY <1>inv, <1>num, <1>own, <2>8, <2>9, <1>len DEF NewestLast
  <2>5. StreamOfForwarder'
    BY <1>inv, <1>num, <1>own, <2>8, <2>9 DEF StreamOfForwarder
  <2>6. OneStream'
    BY <1>inv, <1>num, <1>own, <2>8, <2>9 DEF StreamOfForwarder, OneStream
  <2>7. cancelled' \in BOOLEAN
    BY <1>12, Zenon DEF LeaveForwarder, DropsActive, GenericInv
  <2> QED
    BY <2>1, <2>2, <2>3, <2>4, <2>5, <2>6, <2>7 DEF GenericInv
<1>13. CASE RetryFrame
  <2>0. /\ forwarder.step = "pauses"
        /\ UNCHANGED <<heard, socketLoop, published, opened, pipes, carried, delivered, cancelled>>
    BY <1>13 DEF RetryFrame
  <2> DEFINE newest == IF frames = <<>> THEN forwarder.frame ELSE frames[Len(frames)]
  <2>9. \/ /\ frames' = <<>> /\ forwarder' = [forwarder EXCEPT !.step = "starts", !.frame = newest]
        \/ /\ forwarder' = [forwarder EXCEPT !.step = "leaves"] /\ frames' = frames
    BY <1>13 DEF RetryFrame, Latest
  <2>10. /\ newest \in Nat /\ newest <= heard /\ newest >= forwarder.frame
         /\ newest # 0 => delivered < newest
         /\ socketLoop = "makes_room" => newest <= heard - 1
    <3>1. CASE frames = <<>>
      BY <1>inv, <1>num, <1>own, <3>1 DEF NewestHeard, NewestLast
    <3>2. CASE frames # <<>>
      <4>1. Len(frames) \in 1 .. Len(frames)
        BY <1>seq, <1>len, <3>2, QueueShrinks
      <4> QED
        BY <1>inv, <1>num, <1>len, <3>2, <4>1 DEF NewestHeard, NewestLast
    <3> QED
      BY <3>1, <3>2
  <2> HIDE DEF newest
  <2>8. \/ /\ frames' = <<>> /\ forwarder'.step = "starts" /\ forwarder'.frame = newest /\ forwarder'.active = forwarder.active
        \/ /\ frames' = frames /\ forwarder'.step = "leaves" /\ forwarder'.frame = forwarder.frame /\ forwarder'.active = forwarder.active
    BY <1>inv, <2>9 DEF Forwarders
  <2>11. frames' \in Seq(1 .. MaxFrames)
    BY <1>seq, <2>8, QueueEmpty
  <2>12. \/ /\ Len(frames') = 0 /\ forwarder'.step = "starts" /\ forwarder'.frame = newest /\ forwarder'.active = forwarder.active
         \/ /\ frames' = frames /\ forwarder'.step = "leaves" /\ forwarder'.frame = forwarder.frame /\ forwarder'.active = forwarder.active
    BY <2>8, QueueEmpty
  <2>1. forwarder' \in Forwarders
    BY <1>inv, <2>9, <2>10 DEF Forwarders
  <2>2. QueueType'
    BY <1>inv, <1>num, <1>own, <2>0, <2>10, <2>11, <2>12 DEF QueueType
  <2>3. NewestHeard'
    BY <1>inv, <1>num, <1>own, <2>0, <2>10, <2>12, <1>len DEF NewestHeard
  <2>4. NewestLast'
    BY <1>inv, <1>num, <1>own, <2>0, <2>10, <2>12, <1>len DEF NewestLast
  <2>5. StreamOfForwarder'
    BY <1>inv, <1>num, <1>own, <2>0, <2>10, <2>12 DEF StreamOfForwarder
  <2>6. OneStream'
    BY <1>inv, <1>num, <1>own, <2>0, <2>10, <2>12 DEF StreamOfForwarder, OneStream
  <2>7. cancelled' \in BOOLEAN
    BY <1>13, Zenon DEF RetryFrame, Latest, GenericInv
  <2> QED
    BY <2>1, <2>2, <2>3, <2>4, <2>5, <2>6, <2>7 DEF GenericInv
<1>14. ASSUME NEW b \in Associations, StreamEnds(b) PROVE GenericInv'
  <2>0. /\ pipes' = pipes \ {b}
        /\ UNCHANGED <<frames, heard, socketLoop, forwarder, published, opened, carried, delivered, cancelled>>
    BY <1>14 DEF StreamEnds
  <2>1. forwarder' \in Forwarders
    BY <1>inv, <2>0 DEF Forwarders
  <2>2. QueueType'
    BY <1>inv, <1>num, <1>own, <2>0, <1>seq DEF QueueType
  <2>3. NewestHeard'
    BY <1>inv, <1>num, <1>own, <2>0, <1>len DEF NewestHeard
  <2>4. NewestLast'
    BY <1>inv, <1>num, <1>own, <2>0, <1>len DEF NewestLast
  <2>5. StreamOfForwarder'
    BY <1>inv, <1>num, <1>own, <2>0 DEF StreamOfForwarder
  <2>6. OneStream'
    BY <1>inv, <1>num, <1>own, <2>0 DEF StreamOfForwarder, OneStream
  <2>7. cancelled' \in BOOLEAN
    BY <1>14, Zenon DEF StreamEnds, GenericInv
  <2> QED
    BY <2>1, <2>2, <2>3, <2>4, <2>5, <2>6, <2>7 DEF GenericInv
<1>15. CASE UNCHANGED genericVars
  <2>0. UNCHANGED <<frames, heard, socketLoop, forwarder, published, opened, pipes, carried, delivered, cancelled>>
    BY <1>15 DEF genericVars
  <2>1. forwarder' \in Forwarders
    BY <1>inv, <2>0 DEF Forwarders
  <2>2. QueueType'
    BY <1>inv, <1>num, <1>own, <2>0, <1>seq DEF QueueType
  <2>3. NewestHeard'
    BY <1>inv, <1>num, <1>own, <2>0, <1>len DEF NewestHeard
  <2>4. NewestLast'
    BY <1>inv, <1>num, <1>own, <2>0, <1>len DEF NewestLast
  <2>5. StreamOfForwarder'
    BY <1>inv, <1>num, <1>own, <2>0 DEF StreamOfForwarder
  <2>6. OneStream'
    BY <1>inv, <1>num, <1>own, <2>0 DEF StreamOfForwarder, OneStream
  <2>7. cancelled' \in BOOLEAN
    BY <1>15, Zenon DEF genericVars, GenericInv
  <2> QED
    BY <2>1, <2>2, <2>3, <2>4, <2>5, <2>6, <2>7 DEF GenericInv
<1> QED
  BY <1>1, <1>2, <1>3, <1>4, <1>5, <1>6, <1>7, <1>8, <1>9, <1>10, <1>11, <1>12, <1>13, <1>14, <1>15 DEF GenericNext

\* The association has one stream at a time and leaves none behind, and no
\* datagram is sent twice or after a newer one: for any number of datagrams, of
\* streams and of failures, and any room in the queue.
THEOREM OneStreamAtATime == GenericSpec => [](OneStream /\ NewestLast)
<1>1. GenericInv => OneStream /\ NewestLast
  BY DEF GenericInv
<1> QED
  BY <1>1, GenericInvInit, GenericInvStep, PTL DEF GenericSpec

-----------------------------------------------------------------------------
(* The scan and the operating point.                                        *)

MTUPair == [up : Nat, down : Nat]
Connection == [ok : BOOLEAN, backup : BOOLEAN, mtu : MTUPair]
Sized(m) == m.up > 0 /\ m.down > 0
Running == main \notin {"scanning", "failed"}

MTUType ==
    /\ mode \in [fast : BOOLEAN, grouping : BOOLEAN, weighted : BOOLEAN]
    /\ cap \in [Links -> MTUs] /\ conn \in [Links -> Connection] /\ pool \in [Links -> Connection]
    /\ work \in [Links -> {"todo", "probing", "accepted", "done"}]
    /\ released \in BOOLEAN /\ ended \in BOOLEAN /\ fallback \in BOOLEAN
    /\ main \in {"scanning", "start", "reclassify", "apply", "session", "failed"}
    /\ synced \in MTUPair /\ point \in MTUPair
    /\ check \in [r : Links, at : {"none", "passed", "applied"}] /\ raced \in SUBSET Links

\* Where the main loop may be: it has left the scan when this was released or is
\* over, and then it has an MTU.
Phases ==
    /\ main # "scanning" => released \/ ended
    /\ ended => \A r \in Links : work[r] = "done"
    /\ released => mode.fast /\ Running
    /\ main = "scanning" => ~fallback
    /\ ~Running => check.at = "none" /\ \A r \in Links : ~pool[r].ok
    /\ Running => Sized(synced)
    /\ main \in {"reclassify", "apply"} => mode.grouping /\ Sized(point)

\* A connection that is valid has an MTU, which its resolver carries unless it was
\* judged while the MTU changed; and what the scan is done with is in the pool as
\* it is.
Measured ==
    \A r \in Links :
       /\ work[r] \in {"todo", "probing"} => ~conn[r].ok
       /\ conn[r].ok => Sized(conn[r].mtu) /\ (r \notin raced => Carries(cap[r], conn[r].mtu))
       /\ pool[r].ok => conn[r].ok /\ Sized(pool[r].mtu)
       /\ Running /\ work[r] = "done" /\ conn[r].ok =>
             pool[r].ok /\ pool[r].backup = conn[r].backup

\* A recheck is of a resolver that is not valid, and passed at the MTU of the session,
\* unless that changed.
Rechecked ==
    check.at # "none" =>
        /\ work[check.r] = "done" /\ ~conn[check.r].ok
        /\ check.r \notin raced => Carries(cap[check.r], synced)
        /\ check.at = "applied" =>
              Sized(conn[check.r].mtu) /\ (check.r \notin raced => conn[check.r].mtu = synced)

\* Who is active and was judged carries the MTU of the session, or the next one while
\* that is about to be applied.
JudgedActive(r) == pool[r].ok /\ ~pool[r].backup /\ r \notin Unjudged
ActiveCarry ==
    \A r \in Links : JudgedActive(r) =>
       /\ mode.grouping /\ main = "session" /\ (fallback => r \in Family6) => Carries(cap[r], synced)
       /\ main = "apply" => Carries(cap[r], point)
       /\ ~mode.grouping /\ Running /\ r \notin Family6 => Carries(cap[r], synced)

MTUInv == MTUType /\ Phases /\ Measured /\ Rechecked /\ ActiveCarry

\* What the MTUs are.
LEMMA MTUsSized ==
    ASSUME NEW m \in MTUs
    PROVE  m \in MTUPair /\ (m # NoMTU => Sized(m))
<1>1. CASE m = NoMTU
  BY <1>1 DEF NoMTU, MTUPair
<1>2. CASE m # NoMTU
  <2>1. m \in [up : Nat \ {0}, down : Nat \ {0}]
    BY <1>2, MTUScanAssumption
  <2> QED
    BY <2>1 DEF MTUPair, Sized
<1> QED
  BY <1>1, <1>2

LEMMA CarriesOn ==
    ASSUME NEW l \in MTUPair, NEW m \in MTUPair, NEW n \in MTUPair, Carries(l, m), Carries(m, n)
    PROVE  Carries(l, n)
BY DEF MTUPair, Carries

\* The resolvers are finitely many.
LEMMA LinksFinite == IsFiniteSet(Links) /\ Fleet[1] \in Links
<1>1. Fleet \in Seq(Links) /\ Fleet # <<>>
  BY MTUScanAssumption
<1>2. Links = ToSet(Fleet)
  BY <1>1 DEF Links, ToSet
<1>3. IsFiniteSet(Links)
  BY <1>1, <1>2, LengthOfAny
<1> QED
  BY <1>1, <1>3 DEF Links

\* The largest MTU that all of them carry.
LEMMA LowOf ==
    ASSUME NEW S \in SUBSET MTUPair, S # {}
    PROVE  /\ Low(S) \in MTUPair /\ \A m \in S : Carries(m, Low(S))
           /\ (\A m \in S : Sized(m)) => Sized(Low(S))
<1> DEFINE U == {m.up : m \in S}
           D == {m.down : m \in S}
<1>1. U \in SUBSET Nat /\ U # {} /\ D \in SUBSET Nat /\ D # {}
  BY DEF MTUPair
<1>2. Min(U) \in U /\ (\A y \in U : Min(U) <= y) /\ Min(D) \in D /\ (\A y \in D : Min(D) <= y)
  BY <1>1, LeastSize
<1>3. Low(S) = [up |-> Min(U), down |-> Min(D)]
  BY DEF Low
<1> HIDE DEF U, D
<1>4. Low(S) \in MTUPair
  <2>1. Min(U) \in Nat /\ Min(D) \in Nat
    BY <1>1, <1>2
  <2> QED
    BY <1>3, <2>1 DEF MTUPair
<1>5. \A m \in S : Carries(m, Low(S))
  BY <1>2, <1>3 DEF Carries, U, D
<1>6. (\A m \in S : Sized(m)) => Sized(Low(S))
  BY <1>2, <1>3 DEF Sized, U, D
<1> QED
  BY <1>4, <1>5, <1>6

Point == [mtu : MTUPair, size : Nat]

\* A point to choose from has an MTU and the resolvers that carry it.
LEMMA PointsSized ==
    ASSUME NEW c \in [Links -> Connection], NEW S \in SUBSET Links
    PROVE  /\ Points(c, S) \in SUBSET Point /\ IsFiniteSet(Points(c, S))
           /\ \A p \in Points(c, S) : Sized(p.mtu)
           /\ (\E r \in S : Sized(c[r].mtu)) => Points(c, S) # {}
<1> DEFINE able == {r \in S : c[r].mtu.up > 0 /\ c[r].mtu.down > 0}
           M(r) == {c[q].mtu : q \in PoolOf(c, able, r)}
           pt(r) == [mtu |-> Low(M(r)), size |-> Cardinality(PoolOf(c, able, r))]
<1>1. Points(c, S) = {pt(r) : r \in able}
  BY DEF Points
<1>2. able \in SUBSET Links /\ IsFiniteSet(able)
  BY LinksFinite, FS_Subset
<1>3. ASSUME NEW r \in able PROVE pt(r) \in Point /\ Sized(pt(r).mtu)
  <2>1. r \in PoolOf(c, able, r) /\ PoolOf(c, able, r) \in SUBSET able
    BY <1>2, <1>3 DEF PoolOf, Carries, Connection, MTUPair
  <2>2. IsFiniteSet(PoolOf(c, able, r)) /\ Cardinality(PoolOf(c, able, r)) \in Nat
    BY <1>2, <2>1, FS_Subset, FS_CardinalityType
  <2>3. M(r) \in SUBSET MTUPair /\ M(r) # {} /\ \A m \in M(r) : Sized(m)
    BY <1>2, <2>1 DEF Connection, Sized
  <2> HIDE DEF M
  <2>4. Low(M(r)) \in MTUPair /\ Sized(Low(M(r)))
    BY <2>3, LowOf
  <2> QED
    BY <2>2, <2>4 DEF Point
<1> HIDE DEF pt
<1>4. Points(c, S) \in SUBSET Point /\ \A p \in Points(c, S) : Sized(p.mtu)
  BY <1>1, <1>3
<1>5. IsFiniteSet(Points(c, S))
  <2> DEFINE f == [r \in able |-> pt(r)]
  <2>1. IsFiniteSet({f[r] : r \in able})
    <3> HIDE DEF able
    <3> QED
      BY <1>2, ImageFinite
  <2>2. {f[r] : r \in able} = {pt(r) : r \in able}
    OBVIOUS
  <2> QED
    BY <1>1, <2>1, <2>2
<1>6. ASSUME NEW r \in S, Sized(c[r].mtu) PROVE Points(c, S) # {}
  BY <1>1, <1>6 DEF Sized
<1> QED
  BY <1>4, <1>5, <1>6

\* Where there is something to choose from, something is chosen.
LEMMA PointChosen ==
    ASSUME NEW c \in [Links -> Connection], NEW S \in SUBSET Links
    PROVE  /\ OperatingPoints(c, S) \in SUBSET Points(c, S)
           /\ (\E r \in S : Sized(c[r].mtu)) => OperatingPoints(c, S) # {}
<1> DEFINE P == Points(c, S)
<1>1. P \in SUBSET Point /\ IsFiniteSet(P) /\ ((\E r \in S : Sized(c[r].mtu)) => P # {})
  BY PointsSized
<1> HIDE DEF P
<1>2. ASSUME NEW Q \in SUBSET P, Q # {}
      PROVE  \E p \in Q : \A q \in Q : Higher(p, q)
  <2>1. Q \in SUBSET Point /\ IsFiniteSet(Q)
    BY <1>1, FS_Subset
  <2>2. PICK a \in Q : \A q \in Q : q.mtu.down <= a.mtu.down
    <3> DEFINE f == [q \in Q |-> q.mtu.down]
    <3>1. f \in [Q -> Int]
      BY <2>1 DEF Point, MTUPair
    <3>2. \E x \in Q : \A y \in Q : f[y] <= f[x]
      <4> HIDE DEF f
      <4> QED
        BY <1>2, <2>1, <3>1, MostOf
    <3> QED
      BY <3>2
  <2> DEFINE A == {q \in Q : q.mtu.down = a.mtu.down}
  <2>3. A \in SUBSET Point /\ IsFiniteSet(A) /\ A # {}
    BY <2>1, FS_Subset
  <2>4. PICK b \in A : \A q \in A : q.mtu.up <= b.mtu.up
    <3> DEFINE f == [q \in A |-> q.mtu.up]
    <3>1. f \in [A -> Int]
      BY <2>3 DEF Point, MTUPair
    <3>2. \E x \in A : \A y \in A : f[y] <= f[x]
      <4> HIDE DEF f, A
      <4> QED
        BY <2>3, <3>1, MostOf
    <3> QED
      BY <3>2
  <2> DEFINE B == {q \in A : q.mtu.up = b.mtu.up}
  <2>5. B \in SUBSET Point /\ IsFiniteSet(B) /\ B # {}
    BY <2>3, FS_Subset
  <2>6. PICK p \in B : \A q \in B : q.size <= p.size
    <3> DEFINE f == [q \in B |-> q.size]
    <3>1. f \in [B -> Int]
      BY <2>5 DEF Point
    <3>2. \E x \in B : \A y \in B : f[y] <= f[x]
      <4> HIDE DEF f, B
      <4> QED
        BY <2>5, <3>1, MostOf
    <3> QED
      BY <3>2
  <2>7. ASSUME NEW q \in Q PROVE Higher(p, q)
    <3>1. q \in Point /\ p \in Point /\ p.mtu.down = a.mtu.down /\ p.mtu.up = b.mtu.up
      BY <2>1
    <3>2. q.mtu.down <= p.mtu.down
      BY <2>2, <3>1
    <3>3. q.mtu.down = p.mtu.down => q.mtu.up <= p.mtu.up
      BY <2>4, <3>1
    <3>4. q.mtu = p.mtu => q.size <= p.size
      BY <2>6, <3>1
    <3>5. q.mtu.down = p.mtu.down /\ q.mtu.up = p.mtu.up => q.mtu = p.mtu
      BY <3>1 DEF Point, MTUPair
    <3> QED
      BY <3>1, <3>2, <3>3, <3>4, <3>5 DEF Higher, Point, MTUPair
  <2> QED
    BY <2>6, <2>7
<1>3. ASSUME P # {} PROVE Throughput(P) # {}
  <2>1. \A q \in P : Score(q) \in Nat /\ q.mtu.down \in Nat
    BY <1>1 DEF Score, Point, MTUPair
  <2>2. PICK a \in P : \A q \in P : Score(q) <= Score(a)
    <3> DEFINE f == [q \in P |-> Score(q)]
    <3>1. f \in [P -> Int]
      BY <2>1
    <3>2. \E x \in P : \A y \in P : f[y] <= f[x]
      BY <1>1, <1>3, <3>1, MostOf
    <3> QED
      BY <3>2
  <2> DEFINE A == {q \in P : Score(q) = Score(a)}
  <2>3. IsFiniteSet(A) /\ A # {}
    BY <1>1, FS_Subset
  <2>4. PICK p \in A : \A q \in A : q.mtu.down <= p.mtu.down
    <3> DEFINE f == [q \in A |-> q.mtu.down]
    <3>1. f \in [A -> Int]
      BY <2>1
    <3>2. \E x \in A : \A y \in A : f[y] <= f[x]
      <4> HIDE DEF f, A
      <4> QED
        BY <2>3, <3>1, MostOf
    <3> QED
      BY <3>2
  <2>5. \A q \in P : Score(p) > Score(q) \/ (Score(p) = Score(q) /\ p.mtu.down >= q.mtu.down)
    BY <2>1, <2>2, <2>4
  <2> QED
    BY <2>4, <2>5 DEF Throughput
<1>4. OperatingPoints(c, S) \in SUBSET P
  BY DEF OperatingPoints, Throughput, Wide, P
<1>5. ASSUME P # {} PROVE OperatingPoints(c, S) # {}
  <2>1. Wide(P) \in SUBSET P
    BY DEF Wide
  <2>2. Wide(P) # {} => {p \in Wide(P) : \A q \in Wide(P) : Higher(p, q)} # {}
    BY <1>2, <2>1
  <2> QED
    BY <1>3, <1>5, <2>2 DEF OperatingPoints, P
<1> QED
  BY <1>1, <1>4, <1>5 DEF P

LEMMA MTUInvInit == MTUInit => MTUInv
<1> SUFFICES ASSUME MTUInit PROVE MTUInv
  OBVIOUS
<1>1. /\ mode \in Modes /\ cap \in [Links -> MTUs]
      /\ conn = [r \in Links |-> Unscanned] /\ pool = conn
      /\ work = [r \in Links |-> "todo"] /\ released = FALSE /\ ended = FALSE
      /\ main = "scanning" /\ synced = NoMTU /\ point = NoMTU /\ fallback = FALSE
      /\ check = NoCheck /\ raced = {}
  BY DEF MTUInit
<1>2. NoMTU \in MTUPair /\ Unscanned \in Connection /\ ~Unscanned.ok
  BY DEF NoMTU, MTUPair, Unscanned, Connection
<1>3. MTUType
  <2>1. mode \in [fast : BOOLEAN, grouping : BOOLEAN, weighted : BOOLEAN]
    BY <1>1, MTUScanAssumption
  <2>2. check \in [r : Links, at : {"none", "passed", "applied"}]
    BY <1>1, LinksFinite DEF NoCheck
  <2> QED
    BY <1>1, <1>2, <2>1, <2>2 DEF MTUType
<1>4. Phases
  BY <1>1, <1>2 DEF Phases, Running, NoCheck
<1>5. Measured /\ Rechecked /\ ActiveCarry
  BY <1>1, <1>2 DEF Measured, Rechecked, ActiveCarry, JudgedActive, NoCheck
<1> QED
  BY <1>3, <1>4, <1>5 DEF MTUInv

\* A job is started.
LEMMA DispatchKeeps == ASSUME MTUInv, Dispatch, mode' = mode PROVE MTUInv'
<1>1. /\ UNCHANGED <<mode, conn, pool, cap, released, ended, main, synced, point, fallback, check, raced>>
      /\ MTUType /\ Phases /\ Measured /\ Rechecked /\ ActiveCarry
  BY DEF Dispatch, MTUInv
<1>2. /\ DOMAIN work' = Links
      /\ \A r \in Links : work'[r] = work[r] \/ (work[r] = "todo" /\ work'[r] = "probing")
  BY DEF Dispatch
<1>3. MTUType'
  <2>1. work' \in [Links -> {"todo", "probing", "accepted", "done"}]
    BY <1>1 DEF Dispatch, MTUType
  <2> QED
    BY <1>1, <2>1 DEF MTUType
<1>4. Phases'
  BY <1>1, <1>2 DEF Phases, Running
<1>5. Measured'
  BY <1>1, <1>2 DEF Measured, Running
<1>6. Rechecked'
  BY <1>1, <1>2 DEF Rechecked, MTUType
<1>7. ActiveCarry'
  <2>1. \A r \in Links : JudgedActive(r)' => JudgedActive(r)
    BY <1>1, <1>2 DEF JudgedActive, Unjudged
  <2> QED
    BY <1>1, <2>1 DEF ActiveCarry, Running
<1> QED
  BY <1>3, <1>4, <1>5, <1>6, <1>7 DEF MTUInv

\* A probe ends.
LEMMA ProbeEndsKeeps == ASSUME MTUInv, NEW r \in Links, ProbeEnds(r), mode' = mode PROVE MTUInv'
<1>1. /\ UNCHANGED <<mode, pool, cap, released, ended, main, synced, point, fallback, check, raced>>
      /\ MTUType /\ Phases /\ Measured /\ Rechecked /\ ActiveCarry
      /\ work[r] = "probing" /\ ~conn[r].ok /\ ~pool[r].ok /\ ~ended
      /\ check.at # "none" => check.r # r
  BY DEF ProbeEnds, MTUInv, Measured, Phases, Rechecked
<1>2. /\ work' \in [Links -> {"todo", "probing", "accepted", "done"}]
      /\ work'[r] = IF cap[r] = NoMTU THEN "done" ELSE "accepted"
      /\ \A q \in Links \ {r} : work'[q] = work[q]
  BY <1>1 DEF ProbeEnds, MTUType
<1>3. cap[r] \in MTUPair /\ (cap[r] # NoMTU => Sized(cap[r])) /\ conn[r] \in Connection
  BY <1>1, MTUsSized DEF MTUType
<1>4. /\ conn' \in [Links -> Connection]
      /\ conn'[r].ok = (cap[r] # NoMTU)
      /\ cap[r] # NoMTU => conn'[r].mtu = cap[r]
      /\ \A q \in Links \ {r} : conn'[q] = conn[q]
  <2>1. DOMAIN conn = Links /\ conn \in [Links -> Connection]
    BY <1>1 DEF MTUType
  <2>2. CASE cap[r] = NoMTU
    <3>1. conn' = [conn EXCEPT ![r] = [conn[r] EXCEPT !.ok = FALSE]]
      BY <2>2 DEF ProbeEnds
    <3>2. [conn[r] EXCEPT !.ok = FALSE] \in Connection
      BY <1>3 DEF Connection
    <3> QED
      BY <1>3, <2>1, <2>2, <3>1, <3>2 DEF Connection
  <2>3. CASE cap[r] # NoMTU
    <3> DEFINE c == [[conn[r] EXCEPT !.ok = TRUE] EXCEPT !.mtu = cap[r]]
    <3>1. conn' = [conn EXCEPT ![r] = c]
      BY <2>1, <2>3 DEF ProbeEnds
    <3>2. c \in Connection /\ c.ok = TRUE /\ c.mtu = cap[r]
      BY <1>3 DEF Connection
    <3> QED
      BY <2>1, <2>3, <3>1, <3>2
  <2> QED
    BY <2>2, <2>3
<1>5. MTUType'
  BY <1>1, <1>2, <1>4 DEF MTUType
<1>6. Phases'
  BY <1>1, <1>2 DEF Phases, Running
<1>7. Measured'
  <2>1. ASSUME NEW q \in Links \ {r}
        PROVE  /\ work'[q] = work[q] /\ conn'[q] = conn[q] /\ pool'[q] = pool[q]
    BY <1>1, <1>2, <1>4
  <2>2. cap[r] # NoMTU => Carries(cap[r], conn'[r].mtu) /\ Sized(conn'[r].mtu)
    BY <1>3, <1>4 DEF Carries, MTUPair
  <2> QED
    BY <1>1, <1>2, <1>4, <2>1, <2>2 DEF Measured, Running
<1>8. Rechecked'
  BY <1>1, <1>2, <1>4 DEF Rechecked, MTUType
<1>9. ActiveCarry'
  <2>1. \A q \in Links : JudgedActive(q)' => JudgedActive(q)
    BY <1>1, <1>2 DEF JudgedActive, Unjudged
  <2> QED
    BY <1>1, <2>1 DEF ActiveCarry, Running
<1> QED
  BY <1>5, <1>6, <1>7, <1>8, <1>9 DEF MTUInv

\* The scan derives an MTU that the valid resolvers of the family in use carry; who is
\* valid, and with which MTU, stays.
LEMMA FinalizeDerives ==
    ASSUME MTUInv, Finalize, main = "scanning", Valid(conn) # {}
    PROVE  /\ conn' \in [Links -> Connection] /\ pool' = conn'
           /\ \A r \in Links : conn'[r].ok = conn[r].ok /\ conn'[r].mtu = conn[r].mtu
           /\ synced' \in MTUPair /\ Sized(synced')
           /\ ~mode.grouping =>
                 \A r \in Links \ Family6 : conn[r].ok => Carries(conn[r].mtu, synced')
<1> DEFINE S == ForPoint(Valid(conn))
<1>1. MTUType /\ Measured /\ ~fallback
  BY DEF MTUInv, Phases
<1>2. S \in SUBSET Links /\ S # {} /\ \A r \in S : conn[r].ok
  BY <1>1 DEF ForPoint, Valid
<1>3. \A r \in Links \ Family6 : conn[r].ok => r \in S
  BY <1>1 DEF ForPoint, Valid
<1> HIDE DEF S
<1>4. \A r \in S : conn[r] \in Connection /\ conn[r].mtu \in MTUPair /\ Sized(conn[r].mtu)
  BY <1>1, <1>2 DEF MTUType, Measured, Connection
<1> DEFINE M == {conn[r].mtu : r \in S}
<1>5. M \in SUBSET MTUPair /\ M # {} /\ \A m \in M : Sized(m)
  BY <1>2, <1>4
<1>6. \A r \in S : conn[r].mtu \in M
  OBVIOUS
<1> HIDE DEF M
<1>7. Low(M) \in MTUPair /\ Sized(Low(M)) /\ \A m \in M : Carries(m, Low(M))
  BY <1>5, LowOf
<1>8. CASE pool' = conn /\ synced' = Low(M) /\ conn' = conn
  BY <1>1, <1>3, <1>6, <1>7, <1>8 DEF MTUType
<1>9. ASSUME mode.grouping, NEW p \in OperatingPoints(conn, S),
             conn' = Demoted(p), pool' = conn', synced' = p.mtu
      PROVE  /\ conn' \in [Links -> Connection]
             /\ \A r \in Links : conn'[r].ok = conn[r].ok /\ conn'[r].mtu = conn[r].mtu
             /\ synced' \in MTUPair /\ Sized(synced')
  <2>1. p \in Points(conn, S)
    BY <1>1, <1>2, <1>9, PointChosen DEF MTUType
  <2>2. p \in Point /\ Sized(p.mtu)
    BY <1>1, <1>2, <2>1, PointsSized DEF MTUType
  <2>3. ASSUME NEW r \in Links
        PROVE  conn'[r] \in Connection /\ conn'[r].ok = conn[r].ok /\ conn'[r].mtu = conn[r].mtu
    <3> DEFINE b == conn[r].backup \/ (conn[r].ok /\ ~Carries(conn[r].mtu, p.mtu))
    <3>1. conn'[r] = [conn[r] EXCEPT !.backup = b]
      BY <1>9, <2>3 DEF Demoted
    <3>2. conn[r] \in Connection /\ b \in BOOLEAN
      BY <1>1, <2>3 DEF MTUType
    <3> HIDE DEF b
    <3> QED
      BY <3>1, <3>2 DEF Connection
  <2>4. DOMAIN conn' = Links /\ conn' = [r \in Links |-> conn'[r]]
    BY <1>9 DEF Demoted
  <2>6. \A r \in Links : conn'[r] \in Connection /\ conn'[r].ok = conn[r].ok /\ conn'[r].mtu = conn[r].mtu
    BY <2>3
  <2>7. conn' \in [Links -> Connection]
    BY <2>4, <2>6
  <2> QED
    BY <1>9, <2>2, <2>6, <2>7 DEF Point
<1> QED
  BY <1>8, <1>9 DEF Finalize, S, M

\* OnValid after the probe of a resolver that was disabled meanwhile, or before there
\* is a session, leaves all as it is.
LEMMA OnValidQuiet ==
    ASSUME MTUInv, NEW r \in Links, work[r] = "accepted", work' = [work EXCEPT ![r] = "done"],
           ~Running \/ ~conn[r].ok,
           UNCHANGED <<mode, conn, pool, cap, released, ended, main, synced, point, fallback, check, raced>>
    PROVE  MTUInv'
<1>1. MTUType /\ Phases /\ Measured /\ Rechecked /\ ActiveCarry
  BY DEF MTUInv
<1>2. /\ work' \in [Links -> {"todo", "probing", "accepted", "done"}]
      /\ work'[r] = "done" /\ \A q \in Links \ {r} : work'[q] = work[q]
  BY <1>1 DEF MTUType
<1>3. ~pool[r].ok
  BY <1>1 DEF Phases, Measured
<1>4. MTUType'
  BY <1>1, <1>2 DEF MTUType
<1>5. Phases'
  BY <1>1, <1>2 DEF Phases, Running
<1>6. Measured'
  BY <1>1, <1>2 DEF Measured, Running
<1>7. Rechecked'
  BY <1>1, <1>2 DEF Rechecked, MTUType
<1>8. ActiveCarry'
  <2>1. \A q \in Links : JudgedActive(q)' => JudgedActive(q)
    BY <1>1, <1>2, <1>3 DEF JudgedActive, Unjudged
  <2> QED
    BY <1>1, <2>1 DEF ActiveCarry, Running
<1> QED
  BY <1>4, <1>5, <1>6, <1>7, <1>8 DEF MTUInv

\* Enough are valid: the start is released.
LEMMA OnValidReleases ==
    ASSUME MTUInv, NEW r \in Links, work[r] = "accepted", work' = [work EXCEPT ![r] = "done"],
           mode.fast, conn[r].ok, ~released, Finalize, released' = TRUE, main' = "start",
           UNCHANGED <<mode, cap, ended, point, fallback, check, raced>>
    PROVE  MTUInv'
<1>1. MTUType /\ Phases /\ Measured /\ Rechecked /\ ActiveCarry
  BY DEF MTUInv
<1>2. ~ended /\ main = "scanning" /\ check.at = "none" /\ Valid(conn) # {}
  BY <1>1 DEF Phases, Running, Valid
<1>3. /\ conn' \in [Links -> Connection] /\ pool' = conn'
      /\ \A q \in Links : conn'[q].ok = conn[q].ok /\ conn'[q].mtu = conn[q].mtu
      /\ synced' \in MTUPair /\ Sized(synced')
      /\ ~mode.grouping =>
            \A q \in Links \ Family6 : conn[q].ok => Carries(conn[q].mtu, synced')
  BY <1>2, FinalizeDerives
<1>4. /\ work' \in [Links -> {"todo", "probing", "accepted", "done"}]
      /\ work'[r] = "done" /\ \A q \in Links \ {r} : work'[q] = work[q]
  BY <1>1 DEF MTUType
<1>5. MTUType'
  BY <1>1, <1>3, <1>4 DEF MTUType
<1>6. Phases'
  BY <1>1, <1>2, <1>3 DEF Phases, Running
<1>7. Measured'
  BY <1>1, <1>3, <1>4 DEF Measured
<1>8. Rechecked'
  BY <1>2 DEF Rechecked
<1>9. ActiveCarry'
  <2>1. ASSUME NEW q \in Links, JudgedActive(q)', ~mode.grouping, q \notin Family6
        PROVE  Carries(cap[q], synced')
    <3>1. conn[q].ok /\ q \notin raced
      BY <1>3, <2>1 DEF JudgedActive, Unjudged
    <3>2. Carries(cap[q], conn[q].mtu) /\ Carries(conn[q].mtu, synced')
      BY <1>1, <1>3, <2>1, <3>1 DEF Measured
    <3>3. cap[q] \in MTUPair /\ conn[q].mtu \in MTUPair
      BY <1>1, MTUsSized DEF MTUType, Connection
    <3> QED
      BY <1>3, <3>2, <3>3, CarriesOn
  <2> QED
    BY <1>1, <2>1 DEF ActiveCarry
<1> QED
  BY <1>5, <1>6, <1>7, <1>8, <1>9 DEF MTUInv

\* A resolver is accepted after the start.
LEMMA OnValidLate ==
    ASSUME MTUInv, NEW r \in Links, work[r] = "accepted", work' = [work EXCEPT ![r] = "done"],
           conn[r].ok, released,
           conn' = [conn EXCEPT ![r].backup = @ \/ ~Carries(conn[r].mtu, synced)],
           pool' = conn', raced' = IF main = "apply" THEN raced \cup {r} ELSE raced,
           UNCHANGED <<mode, cap, released, ended, main, synced, point, fallback, check>>
    PROVE  MTUInv'
<1>1. MTUType /\ Phases /\ Measured /\ Rechecked /\ ActiveCarry
  BY DEF MTUInv
<1>2. Running /\ ~ended /\ (check.at # "none" => check.r # r)
  BY <1>1 DEF Phases, Rechecked
<1>3. /\ work' \in [Links -> {"todo", "probing", "accepted", "done"}]
      /\ work'[r] = "done" /\ \A q \in Links \ {r} : work'[q] = work[q]
  BY <1>1 DEF MTUType
<1>4. /\ conn' \in [Links -> Connection]
      /\ conn'[r].ok /\ conn'[r].mtu = conn[r].mtu
      /\ ~conn'[r].backup => Carries(conn[r].mtu, synced)
      /\ \A q \in Links \ {r} : conn'[q] = conn[q]
  <2> DEFINE b == conn[r].backup \/ ~Carries(conn[r].mtu, synced)
             c == [conn[r] EXCEPT !.backup = b]
  <2>1. DOMAIN conn = Links /\ conn \in [Links -> Connection] /\ conn[r] \in Connection
    BY <1>1 DEF MTUType
  <2>2. c \in Connection /\ c.ok = conn[r].ok /\ c.mtu = conn[r].mtu /\ c.backup = b
    BY <2>1 DEF Connection
  <2>3. conn' = [conn EXCEPT ![r] = c]
    OBVIOUS
  <2> HIDE DEF c
  <2> QED
    BY <2>1, <2>2, <2>3
<1>5. MTUType'
  BY <1>1, <1>3, <1>4 DEF MTUType
<1>6. Phases'
  BY <1>1, <1>2 DEF Phases, Running
<1>7. Measured'
  <2>1. ASSUME NEW q \in Links \ {r}
        PROVE  work'[q] = work[q] /\ conn'[q] = conn[q] /\ pool'[q] = conn[q] /\ (q \in raced' <=> q \in raced)
    BY <1>3, <1>4
  <2>2. raced \subseteq raced'
    OBVIOUS
  <2> QED
    BY <1>1, <1>2, <1>3, <1>4, <2>1, <2>2 DEF Measured
<1>8. Rechecked'
  BY <1>1, <1>2, <1>3, <1>4 DEF Rechecked, MTUType
<1>9. ActiveCarry'
  <2>1. ASSUME NEW q \in Links \ {r}, JudgedActive(q)' PROVE JudgedActive(q)
    <3>1. conn[q].ok /\ ~conn[q].backup /\ q \notin raced /\ work[q] # "accepted"
      BY <1>3, <1>4, <2>1 DEF JudgedActive, Unjudged
    <3>2. work[q] = "done"
      BY <1>1, <3>1 DEF Measured, MTUType
    <3> QED
      BY <1>1, <1>2, <3>1, <3>2 DEF Measured, JudgedActive, Unjudged
  <2>2. ASSUME JudgedActive(r)' PROVE main # "apply" /\ Carries(cap[r], synced)
    <3>1. ~conn'[r].backup /\ r \notin raced /\ main # "apply"
      BY <2>2 DEF JudgedActive, Unjudged
    <3>2. Carries(cap[r], conn[r].mtu) /\ Carries(conn[r].mtu, synced)
      BY <1>1, <1>4, <3>1 DEF Measured
    <3>3. cap[r] \in MTUPair /\ conn[r].mtu \in MTUPair /\ synced \in MTUPair
      BY <1>1, MTUsSized DEF MTUType, Connection
    <3> QED
      BY <3>1, <3>2, <3>3, CarriesOn
  <2> QED
    BY <1>1, <2>1, <2>2 DEF ActiveCarry, Running
<1> QED
  BY <1>5, <1>6, <1>7, <1>8, <1>9 DEF MTUInv

LEMMA OnValidKeeps == ASSUME MTUInv, NEW r \in Links, OnValid(r), mode' = mode PROVE MTUInv'
<1>1. /\ work[r] = "accepted" /\ work' = [work EXCEPT ![r] = "done"]
      /\ UNCHANGED <<mode, cap, ended, point, fallback, check>>
  BY DEF OnValid
<1>2. Phases /\ Measured /\ ~ended
  BY <1>1 DEF MTUInv, Phases
<1>3. CASE ~mode.fast \/ ~conn[r].ok
  <2>1. ~Running \/ ~conn[r].ok
    BY <1>2, <1>3 DEF Phases, Running
  <2>2. UNCHANGED <<conn, pool, synced, main, released, raced>>
    BY <1>3 DEF OnValid
  <2> QED
    BY <1>1, <2>1, <2>2, OnValidQuiet
<1>4. CASE mode.fast /\ conn[r].ok /\ released
  <2>1. /\ conn' = [conn EXCEPT ![r].backup = @ \/ ~Carries(conn[r].mtu, synced)]
        /\ pool' = conn' /\ raced' = IF main = "apply" THEN raced \cup {r} ELSE raced
        /\ UNCHANGED <<synced, main, released>>
    BY <1>4 DEF OnValid
  <2> QED
    BY <1>1, <1>4, <2>1, OnValidLate
<1>5. CASE mode.fast /\ conn[r].ok /\ ~released
  <2>1. \/ Finalize /\ released' = TRUE /\ main' = "start" /\ UNCHANGED raced
        \/ UNCHANGED <<conn, pool, synced, main, released, raced>>
    BY <1>5 DEF OnValid
  <2>2. ~Running
    BY <1>2, <1>5 DEF Phases, Running
  <2> QED
    BY <1>1, <1>5, <2>1, <2>2, OnValidQuiet, OnValidReleases
<1> QED
  BY <1>3, <1>4, <1>5

\* The scan is over.
LEMMA ScanEndsKeeps == ASSUME MTUInv, ScanEnds, mode' = mode PROVE MTUInv'
<1>1. /\ MTUType /\ Phases /\ Measured /\ Rechecked /\ ActiveCarry
      /\ ~ended /\ (\A r \in Links : work[r] = "done")
      /\ UNCHANGED <<mode, point, fallback, check, raced>>
  BY DEF MTUInv, ScanEnds
<1>2. CASE released
  <2>1. ended' = TRUE /\ UNCHANGED <<conn, pool, synced, main, released, cap, work>>
    BY <1>2 DEF ScanEnds
  <2>2. MTUType' /\ Phases'
    BY <1>1, <2>1 DEF MTUType, Phases, Running
  <2>3. Measured' /\ Rechecked' /\ ActiveCarry'
    BY <1>1, <2>1 DEF Measured, Rechecked, ActiveCarry, JudgedActive, Unjudged, Running
  <2> QED
    BY <2>2, <2>3 DEF MTUInv
<1>3. ASSUME ~released PROVE main = "scanning" /\ ~Running /\ check.at = "none"
  BY <1>1, <1>3 DEF Phases, Running
<1>4. CASE ~released /\ Valid(conn) # {}
  <2>1. /\ Finalize /\ ended' = TRUE /\ released' = mode.fast /\ main' = "start"
        /\ UNCHANGED <<cap, work>>
    BY <1>4 DEF ScanEnds
  <2>2. /\ conn' \in [Links -> Connection] /\ pool' = conn'
        /\ \A q \in Links : conn'[q].ok = conn[q].ok /\ conn'[q].mtu = conn[q].mtu
        /\ synced' \in MTUPair /\ Sized(synced')
        /\ ~mode.grouping =>
              \A q \in Links \ Family6 : conn[q].ok => Carries(conn[q].mtu, synced')
    BY <1>3, <1>4, <2>1, FinalizeDerives
  <2>3. MTUType'
    BY <1>1, <2>1, <2>2 DEF MTUType
  <2>4. Phases'
    BY <1>1, <1>3, <1>4, <2>1, <2>2 DEF Phases, Running
  <2>5. Measured'
    BY <1>1, <2>1, <2>2 DEF Measured
  <2>6. Rechecked'
    BY <1>1, <1>3, <1>4 DEF Rechecked
  <2>7. ASSUME NEW q \in Links, JudgedActive(q)', ~mode.grouping, q \notin Family6
        PROVE  Carries(cap[q], synced')
    <3>1. conn[q].ok /\ q \notin raced
      BY <1>1, <2>2, <2>7 DEF JudgedActive, Unjudged
    <3>2. Carries(cap[q], conn[q].mtu) /\ Carries(conn[q].mtu, synced')
      BY <1>1, <2>2, <2>7, <3>1 DEF Measured
    <3>3. cap[q] \in MTUPair /\ conn[q].mtu \in MTUPair
      BY <1>1, MTUsSized DEF MTUType, Connection
    <3> QED
      BY <2>2, <3>2, <3>3, CarriesOn
  <2>8. ActiveCarry'
    BY <1>1, <2>1, <2>7 DEF ActiveCarry
  <2> QED
    BY <2>3, <2>4, <2>5, <2>6, <2>8 DEF MTUInv
<1>5. CASE ~released /\ Valid(conn) = {}
  <2>1. \/ /\ cap' \in [Links -> MTUs] /\ conn' = [r \in Links |-> Unscanned]
           /\ work' = [r \in Links |-> "todo"]
           /\ UNCHANGED <<pool, synced, main, released, ended>>
        \/ /\ ended' = TRUE /\ main' = "failed"
           /\ UNCHANGED <<conn, pool, synced, released, cap, work>>
    BY <1>5 DEF ScanEnds
  <2>2. NoMTU \in MTUPair /\ Unscanned \in Connection /\ ~Unscanned.ok
    BY DEF NoMTU, MTUPair, Unscanned, Connection
  <2>3. /\ conn' \in [Links -> Connection] /\ (\A r \in Links : ~conn'[r].ok)
        /\ pool' = pool /\ (\A r \in Links : ~pool[r].ok)
        /\ cap' \in [Links -> MTUs] /\ main' \in {"scanning", "failed"}
        /\ work' \in [Links -> {"todo", "probing", "accepted", "done"}]
        /\ released' = released /\ synced' = synced
        /\ ended' \in BOOLEAN /\ (ended' => \A r \in Links : work'[r] = "done")
        /\ main' # "scanning" => ended'
    <3>1. \A r \in Links : ~conn[r].ok /\ ~pool[r].ok
      BY <1>1, <1>3, <1>5 DEF Valid, Phases
    <3>2. CASE ended' = TRUE
      <4>1. main' = "failed" /\ UNCHANGED <<conn, pool, synced, released, cap, work>>
        BY <1>1, <2>1, <3>2
      <4> QED
        BY <1>1, <3>1, <3>2, <4>1 DEF MTUType
    <3>3. CASE ended' # TRUE
      <4>1. /\ cap' \in [Links -> MTUs] /\ conn' = [r \in Links |-> Unscanned]
            /\ work' = [r \in Links |-> "todo"]
            /\ UNCHANGED <<pool, synced, main, released, ended>>
        BY <2>1, <3>3
      <4>2. conn' \in [Links -> Connection] /\ \A r \in Links : ~conn'[r].ok
        BY <2>2, <4>1
      <4>3. work' \in [Links -> {"todo", "probing", "accepted", "done"}]
        BY <4>1
      <4>4. ~ended' /\ ended' \in BOOLEAN
        BY <1>1, <4>1 DEF MTUType
      <4> QED
        BY <1>3, <1>5, <3>1, <4>1, <4>2, <4>3, <4>4
    <3> QED
      BY <3>2, <3>3
  <2>4. MTUType'
    BY <1>1, <2>3 DEF MTUType
  <2>5. Phases'
    BY <1>1, <1>3, <1>5, <2>3 DEF Phases, Running
  <2>6. Measured' /\ Rechecked' /\ ActiveCarry'
    BY <1>1, <1>3, <1>5, <2>3 DEF Measured, Rechecked, ActiveCarry, JudgedActive, Running
  <2> QED
    BY <2>4, <2>5, <2>6 DEF MTUInv
<1> QED
  BY <1>2, <1>4, <1>5

\* The session is set up: a point is chosen, or there is nobody to derive it from.
LEMMA RecomputeKeeps == ASSUME MTUInv, Recompute, mode' = mode PROVE MTUInv'
<1> DEFINE S == ForPoint(Valid(pool))
<1>1. /\ MTUType /\ Phases /\ Measured /\ Rechecked /\ ActiveCarry /\ main = "start"
      /\ UNCHANGED <<mode, cap, conn, pool, work, released, ended, synced, fallback, check, raced>>
  BY DEF MTUInv, Recompute, scanVars
<1>2. S \in SUBSET Links /\ \A r \in S : pool[r].ok /\ Sized(pool[r].mtu)
  BY <1>1 DEF ForPoint, Valid, Measured
<1>3. \A r \in Links : pool[r].ok /\ (fallback => r \in Family6) => S # {}
  BY DEF ForPoint, Valid
<1>4. Running /\ \A q \in Links : JudgedActive(q)' <=> JudgedActive(q)
  BY <1>1 DEF Running, JudgedActive, Unjudged
<1>5. CASE main' = "session" /\ UNCHANGED point /\ (~mode.grouping \/ OperatingPoints(pool, S) = {})
  <2>1. MTUType' /\ Phases' /\ Measured' /\ Rechecked'
    BY <1>1, <1>5 DEF MTUType, Phases, Measured, Rechecked, Running
  <2>2. mode.grouping => S = {}
    BY <1>1, <1>2, <1>5, PointChosen DEF MTUType
  <2>3. ActiveCarry'
    BY <1>1, <1>3, <1>4, <1>5, <2>2 DEF ActiveCarry, Running, JudgedActive
  <2> QED
    BY <2>1, <2>3 DEF MTUInv
<1>6. ASSUME mode.grouping, main' = "reclassify", NEW p \in OperatingPoints(pool, S),
             point' = IF Adopts(p) THEN p.mtu ELSE synced
      PROVE  MTUInv'
  <2>1. p \in Points(pool, S)
    BY <1>1, <1>2, <1>6, PointChosen DEF MTUType
  <2>2. p \in Point /\ Sized(p.mtu)
    BY <1>1, <1>2, <2>1, PointsSized DEF MTUType
  <2>3. point' \in MTUPair /\ Sized(point')
    BY <1>1, <1>6, <2>2 DEF Point, MTUType, Phases, Running
  <2>4. MTUType' /\ Phases' /\ Measured' /\ Rechecked'
    BY <1>1, <1>6, <2>3 DEF MTUType, Phases, Measured, Rechecked, Running
  <2>5. ActiveCarry'
    BY <1>1, <1>6 DEF ActiveCarry
  <2> QED
    BY <2>4, <2>5 DEF MTUInv
<1> QED
  BY <1>5, <1>6 DEF Recompute, S

\* All are judged by the next MTU.
LEMMA ReclassifyKeeps == ASSUME MTUInv, ReclassifyBackups, mode' = mode PROVE MTUInv'
<1>1. /\ MTUType /\ Phases /\ Measured /\ Rechecked /\ ActiveCarry
      /\ main = "reclassify" /\ main' = (IF point = synced THEN "session" ELSE "apply")
      /\ UNCHANGED <<mode, cap, work, released, ended, synced, point, fallback, check, raced>>
  BY DEF MTUInv, ReclassifyBackups, scanVars
<1>2. ASSUME NEW r \in Links
      PROVE  /\ conn'[r] \in Connection /\ conn'[r].ok = conn[r].ok /\ conn'[r].mtu = conn[r].mtu
             /\ conn'[r].ok /\ ~conn'[r].backup => Carries(conn[r].mtu, point)
  <2> DEFINE b == conn[r].ok /\ ~Carries(conn[r].mtu, point)
  <2>1. conn'[r] = [conn[r] EXCEPT !.backup = b]
    BY <1>2 DEF ReclassifyBackups
  <2>2. conn[r] \in Connection /\ b \in BOOLEAN
    BY <1>1, <1>2 DEF MTUType
  <2>3. /\ conn'[r] \in Connection /\ conn'[r].ok = conn[r].ok /\ conn'[r].mtu = conn[r].mtu
        /\ conn'[r].backup = b
    <3> HIDE DEF b
    <3> QED
      BY <2>1, <2>2 DEF Connection
  <2> QED
    BY <2>3
<1>3. conn' \in [Links -> Connection] /\ pool' = conn'
  <2>1. conn' = [r \in Links |-> conn'[r]] /\ pool' = conn'
    BY DEF ReclassifyBackups
  <2> QED
    BY <1>2, <2>1
<1>4. MTUType' /\ Phases' /\ Rechecked'
  BY <1>1, <1>2, <1>3 DEF MTUType, Phases, Rechecked, Running
<1>5. Measured'
  BY <1>1, <1>2, <1>3 DEF Measured, Running
<1>6. ASSUME NEW q \in Links, JudgedActive(q)' PROVE Carries(cap[q], point)
  <2>1. conn'[q].ok /\ ~conn'[q].backup /\ conn[q].ok /\ q \notin raced
    BY <1>1, <1>2, <1>3, <1>6 DEF JudgedActive, Unjudged
  <2>2. Carries(cap[q], conn[q].mtu) /\ Carries(conn[q].mtu, point)
    BY <1>1, <1>2, <2>1 DEF Measured
  <2>3. cap[q] \in MTUPair /\ conn[q].mtu \in MTUPair /\ point \in MTUPair
    BY <1>1, MTUsSized DEF MTUType, Connection
  <2> QED
    BY <2>2, <2>3, CarriesOn
<1>7. ActiveCarry'
  BY <1>1, <1>6 DEF ActiveCarry, Phases
<1> QED
  BY <1>4, <1>5, <1>7 DEF MTUInv

\* The next MTU becomes that of the session.
LEMMA ApplySyncedKeeps == ASSUME MTUInv, ApplySyncedMTU, mode' = mode PROVE MTUInv'
<1>1. /\ MTUType /\ Phases /\ Measured /\ Rechecked /\ ActiveCarry
      /\ main = "apply" /\ main' = "session" /\ synced' = point
      /\ raced' = (IF check.at = "none" THEN raced ELSE raced \cup {check.r})
      /\ UNCHANGED <<mode, cap, conn, pool, work, released, ended, point, fallback, check>>
  BY DEF MTUInv, ApplySyncedMTU, scanVars
<1>2. raced \subseteq raced' /\ (check.at # "none" => check.r \in raced') /\ raced' \in SUBSET Links
  BY <1>1 DEF MTUType
<1>3. MTUType' /\ Phases'
  BY <1>1, <1>2 DEF MTUType, Phases, Running
<1>4. Measured' /\ Rechecked'
  BY <1>1, <1>2 DEF Measured, Rechecked, Running
<1>5. ActiveCarry'
  <2>1. \A q \in Links : JudgedActive(q)' => JudgedActive(q)
    BY <1>1, <1>2 DEF JudgedActive, Unjudged
  <2> QED
    BY <1>1, <2>1 DEF ActiveCarry, Phases
<1> QED
  BY <1>3, <1>4, <1>5 DEF MTUInv

LEMMA SessionEndsKeeps == ASSUME MTUInv, SessionEnds, mode' = mode PROVE MTUInv'
<1>1. /\ MTUType /\ Phases /\ Measured /\ Rechecked /\ ActiveCarry
      /\ main = "session" /\ main' = "start" /\ fallback' \in BOOLEAN
      /\ UNCHANGED <<mode, cap, conn, pool, work, released, ended, synced, point, check, raced>>
  BY DEF MTUInv, SessionEnds, scanVars, MTUType
<1>2. MTUType' /\ Phases' /\ Measured' /\ Rechecked'
  BY <1>1 DEF MTUType, Phases, Measured, Rechecked, Running
<1>3. ActiveCarry'
  BY <1>1 DEF ActiveCarry, JudgedActive, Unjudged, Running
<1> QED
  BY <1>2, <1>3 DEF MTUInv

\* A step that changes one resolver, and leaves it out of the pool or puts it there
\* as it is, keeps what the others are.
OneChanges(r) ==
    /\ conn' \in [Links -> Connection] /\ pool' \in [Links -> Connection]
    /\ \A q \in Links \ {r} : conn'[q] = conn[q] /\ pool'[q] = pool[q]
    /\ UNCHANGED <<mode, cap, work, released, ended, main, synced, point, fallback>>

LEMMA DisableKeeps == ASSUME MTUInv, NEW r \in Links, Disable(r), mode' = mode PROVE MTUInv'
<1>1. /\ MTUType /\ Phases /\ Measured /\ Rechecked /\ ActiveCarry
      /\ pool[r].ok /\ (check.at # "none" => check.r # r)
      /\ UNCHANGED <<mode, cap, work, released, ended, main, synced, point, fallback, check, raced>>
  BY DEF MTUInv, Disable, scanVars
<1>2. OneChanges(r) /\ ~conn'[r].ok /\ ~pool'[r].ok
  <2> DEFINE c == [conn[r] EXCEPT !.ok = FALSE]
  <2>1. DOMAIN conn = Links /\ conn \in [Links -> Connection] /\ conn[r] \in Connection
        /\ DOMAIN pool = Links /\ pool \in [Links -> Connection]
    BY <1>1 DEF MTUType
  <2>2. c \in Connection /\ ~c.ok
    BY <2>1 DEF Connection
  <2>3. conn' = [conn EXCEPT ![r] = c] /\ pool' = [pool EXCEPT ![r] = conn'[r]]
    BY DEF Disable
  <2> HIDE DEF c
  <2>4. conn'[r] = c /\ pool'[r] = c
    BY <2>1, <2>3
  <2>5. conn' \in [Links -> Connection] /\ \A q \in Links \ {r} : conn'[q] = conn[q]
    BY <2>1, <2>2, <2>3
  <2>6. pool' \in [Links -> Connection] /\ \A q \in Links \ {r} : pool'[q] = pool[q]
    BY <2>1, <2>2, <2>3, <2>4
  <2> QED
    BY <1>1, <2>2, <2>4, <2>5, <2>6 DEF OneChanges
<1>3. MTUType'
  BY <1>1, <1>2 DEF MTUType, OneChanges
<1>4. Phases'
  BY <1>1, <1>2 DEF Phases, Running, OneChanges
<1>5. Measured'
  BY <1>1, <1>2 DEF Measured, Running, OneChanges
<1>6. Rechecked'
  BY <1>1, <1>2 DEF Rechecked, MTUType, OneChanges
<1>7. ActiveCarry'
  <2>1. \A q \in Links : JudgedActive(q)' => JudgedActive(q)
    BY <1>1, <1>2 DEF JudgedActive, Unjudged, OneChanges
  <2> QED
    BY <1>1, <2>1 DEF ActiveCarry, Running
<1> QED
  BY <1>3, <1>4, <1>5, <1>6, <1>7 DEF MTUInv

LEMMA RecheckKeeps == ASSUME MTUInv, NEW r \in Links, RecheckAtMTU(r), mode' = mode PROVE MTUInv'
<1>1. /\ MTUType /\ Phases /\ Measured /\ Rechecked /\ ActiveCarry
      /\ Running /\ ~pool[r].ok /\ work[r] = "done" /\ Carries(cap[r], synced)
      /\ check' = [r |-> r, at |-> "passed"] /\ raced' = raced \ {r}
      /\ UNCHANGED <<mode, cap, conn, pool, work, released, ended, main, synced, point, fallback>>
  BY DEF MTUInv, RecheckAtMTU, scanVars, Running
<1>2. ~conn[r].ok
  BY <1>1 DEF Measured
<1>3. MTUType' /\ Phases'
  BY <1>1 DEF MTUType, Phases, Running
<1>4. Measured'
  BY <1>1, <1>2 DEF Measured, Running
<1>5. Rechecked'
  BY <1>1, <1>2 DEF Rechecked
<1>6. ActiveCarry'
  <2>1. \A q \in Links : JudgedActive(q)' => JudgedActive(q)
    BY <1>1 DEF JudgedActive, Unjudged
  <2> QED
    BY <1>1, <2>1 DEF ActiveCarry, Running
<1> QED
  BY <1>3, <1>4, <1>5, <1>6 DEF MTUInv

LEMMA ApplyRecheckedKeeps == ASSUME MTUInv, ApplyRecheckedMTU, mode' = mode PROVE MTUInv'
<1> SUFFICES ASSUME NEW r \in Links, r = check.r PROVE MTUInv'
  BY DEF MTUInv, MTUType
<1>1. /\ MTUType /\ Phases /\ Measured /\ Rechecked /\ ActiveCarry /\ check.at = "passed"
      /\ check' = [check EXCEPT !.at = "applied"]
      /\ UNCHANGED <<mode, cap, work, released, ended, main, synced, point, fallback, raced>>
  BY DEF MTUInv, ApplyRecheckedMTU, scanVars
<1>2. /\ r \in Links /\ work[r] = "done" /\ ~conn[r].ok /\ Running
      /\ check' \in [r : Links, at : {"none", "passed", "applied"}]
      /\ check'.at = "applied" /\ check'.r = r
      /\ r \notin raced => Carries(cap[r], synced)
  BY <1>1 DEF MTUType, Rechecked, Phases
<1>3. OneChanges(r) /\ ~conn'[r].ok /\ ~pool'[r].ok /\ conn'[r].mtu = synced
  <2> DEFINE c == [conn[r] EXCEPT !.mtu = synced]
  <2>1. /\ DOMAIN conn = Links /\ conn \in [Links -> Connection] /\ conn[r] \in Connection
        /\ DOMAIN pool = Links /\ pool \in [Links -> Connection] /\ synced \in MTUPair
    BY <1>1, <1>2 DEF MTUType
  <2>2. c \in Connection /\ c.ok = conn[r].ok /\ c.mtu = synced
    BY <2>1 DEF Connection
  <2>3. conn' = [conn EXCEPT ![r] = c] /\ pool' = [pool EXCEPT ![r] = conn'[r]]
    BY DEF ApplyRecheckedMTU
  <2> HIDE DEF c
  <2>4. conn'[r] = c /\ pool'[r] = c
    BY <1>2, <2>1, <2>3
  <2>5. conn' \in [Links -> Connection] /\ \A q \in Links \ {r} : conn'[q] = conn[q]
    BY <2>1, <2>2, <2>3
  <2>6. pool' \in [Links -> Connection] /\ \A q \in Links \ {r} : pool'[q] = pool[q]
    BY <2>1, <2>2, <2>3, <2>4
  <2> QED
    BY <1>1, <1>2, <2>2, <2>4, <2>5, <2>6 DEF OneChanges
<1>4. MTUType'
  BY <1>1, <1>2, <1>3 DEF MTUType, OneChanges
<1>5. Phases'
  BY <1>1, <1>2, <1>3 DEF Phases, Running, OneChanges
<1>6. Measured'
  BY <1>1, <1>2, <1>3 DEF Measured, Running, OneChanges
<1>7. Rechecked'
  BY <1>1, <1>2, <1>3 DEF Rechecked, Phases
<1>8. ActiveCarry'
  <2>1. \A q \in Links : JudgedActive(q)' => JudgedActive(q)
    BY <1>1, <1>2, <1>3 DEF JudgedActive, Unjudged, OneChanges
  <2> QED
    BY <1>1, <2>1 DEF ActiveCarry, Running
<1> QED
  BY <1>4, <1>5, <1>6, <1>7, <1>8 DEF MTUInv

LEMMA PromoteKeeps == ASSUME MTUInv, Promote, mode' = mode PROVE MTUInv'
<1> SUFFICES ASSUME NEW r \in Links, r = check.r PROVE MTUInv'
  BY DEF MTUInv, MTUType
<1>1. /\ MTUType /\ Phases /\ Measured /\ Rechecked /\ ActiveCarry /\ check.at = "applied"
      /\ check' = NoCheck /\ raced' = (IF main = "apply" THEN raced \cup {r} ELSE raced)
      /\ UNCHANGED <<mode, cap, work, released, ended, main, synced, point, fallback>>
  BY DEF MTUInv, Promote, scanVars
<1>2. /\ r \in Links /\ work[r] = "done" /\ Running /\ Sized(conn[r].mtu) /\ raced' \in SUBSET Links
      /\ r \notin raced => Carries(cap[r], synced) /\ conn[r].mtu = synced
      /\ raced \subseteq raced' /\ raced' \subseteq raced \cup {r}
      /\ check' \in [r : Links, at : {"none", "passed", "applied"}] /\ check'.at = "none"
  BY <1>1, LinksFinite DEF MTUType, Rechecked, Phases, NoCheck
<1>3. main = "apply" => r \in raced'
  BY <1>1
<1>4. /\ OneChanges(r) /\ conn'[r].ok /\ pool'[r].ok /\ conn'[r].mtu = conn[r].mtu
      /\ pool'[r] = conn'[r]
  <2> DEFINE c == [conn[r] EXCEPT !.ok = TRUE]
  <2>1. /\ DOMAIN conn = Links /\ conn \in [Links -> Connection] /\ conn[r] \in Connection
        /\ DOMAIN pool = Links /\ pool \in [Links -> Connection]
    BY <1>1, <1>2 DEF MTUType
  <2>2. c \in Connection /\ c.ok = TRUE /\ c.mtu = conn[r].mtu
    BY <2>1 DEF Connection
  <2>3. conn' = [conn EXCEPT ![r] = c] /\ pool' = [pool EXCEPT ![r] = conn'[r]]
    BY DEF Promote
  <2> HIDE DEF c
  <2>4. conn'[r] = c /\ pool'[r] = c
    BY <1>2, <2>1, <2>3
  <2>5. conn' \in [Links -> Connection] /\ \A q \in Links \ {r} : conn'[q] = conn[q]
    BY <2>1, <2>2, <2>3
  <2>6. pool' \in [Links -> Connection] /\ \A q \in Links \ {r} : pool'[q] = pool[q]
    BY <2>1, <2>2, <2>3, <2>4
  <2> QED
    BY <1>1, <1>2, <2>2, <2>4, <2>5, <2>6 DEF OneChanges
<1>5. MTUType'
  BY <1>1, <1>2, <1>4 DEF MTUType, OneChanges
<1>6. Phases'
  BY <1>1, <1>2, <1>4 DEF Phases, Running, OneChanges
<1>7. Measured'
  <2>1. ASSUME NEW q \in Links \ {r}
        PROVE  conn'[q] = conn[q] /\ pool'[q] = pool[q] /\ (q \in raced' <=> q \in raced)
    BY <1>2, <1>4 DEF OneChanges
  <2>2. UNCHANGED <<cap, work, main>>
    BY <1>1
  <2> QED
    BY <1>1, <1>2, <1>4, <2>1, <2>2 DEF Measured, Running
<1>8. Rechecked'
  BY <1>2 DEF Rechecked
<1>9. ActiveCarry'
  <2>1. \A q \in Links \ {r} : JudgedActive(q)' => JudgedActive(q)
    BY <1>1, <1>2, <1>4 DEF JudgedActive, Unjudged, OneChanges
  <2>2. ASSUME JudgedActive(r)' PROVE main # "apply" /\ Carries(cap[r], synced)
    <3>1. r \notin raced'
      BY <2>2 DEF JudgedActive, Unjudged
    <3> QED
      BY <1>2, <1>3, <3>1
  <2>3. ASSUME NEW q \in Links, JudgedActive(q)'
        PROVE  /\ mode.grouping /\ main = "session" /\ (fallback => q \in Family6) => Carries(cap[q], synced)
               /\ main = "apply" => Carries(cap[q], point)
               /\ ~mode.grouping /\ Running /\ q \notin Family6 => Carries(cap[q], synced)
    <3>1. CASE q = r
      BY <2>2, <2>3, <3>1
    <3>2. CASE q # r
      <4>1. JudgedActive(q)
        BY <2>1, <2>3, <3>2
      <4> QED
        BY <1>1, <2>3, <4>1 DEF ActiveCarry
    <3> QED
      BY <3>1, <3>2
  <2> QED
    BY <1>1, <2>3 DEF ActiveCarry, Running
<1> QED
  BY <1>5, <1>6, <1>7, <1>8, <1>9 DEF MTUInv

LEMMA MTUInvStep == MTUInv /\ [MTUNext]_mtuVars => MTUInv'
<1> SUFFICES ASSUME MTUInv, [MTUNext]_mtuVars PROVE MTUInv'
  OBVIOUS
<1>1. CASE UNCHANGED mtuVars
  BY <1>1 DEF mtuVars, scanVars, MTUInv, MTUType, Phases, Measured, Rechecked, ActiveCarry, JudgedActive,
         Unjudged, Running
<1>2. CASE MTUNext
  BY <1>2, DispatchKeeps, ScanEndsKeeps, RecomputeKeeps, ReclassifyKeeps, ApplySyncedKeeps,
     SessionEndsKeeps, ProbeEndsKeeps, OnValidKeeps, DisableKeeps, RecheckKeeps,
     ApplyRecheckedKeeps, PromoteKeeps DEF MTUNext
<1> QED
  BY <1>1, <1>2

\* Who carries the session carries its MTU.
LEMMA MTUInvCarried == MTUInv => MTUCarried
<1> SUFFICES ASSUME MTUInv, main = "session", NEW r \in ForPoint(Primaries(pool)) \ Unjudged
             PROVE  Carries(cap[r], synced) \/ (~mode.grouping /\ r \in Family6)
  BY DEF MTUCarried
<1>1. r \in Links /\ JudgedActive(r) /\ (fallback => r \in Family6)
  BY DEF ForPoint, Primaries, JudgedActive
<1> QED
  BY <1>1 DEF MTUInv, ActiveCarry, Running

\* The scan always has a worker, and a point to choose when it must choose one.
LEMMA MTUInvGoesOn == MTUInv => ScanGoesOn
<1> SUFFICES ASSUME MTUInv, ~ended PROVE ScanGoesOn
  BY DEF ScanGoesOn
<1>1. Limit > 0
  <2> DEFINE M == Max({1, BackgroundWorkers})
             L == Min({ScanWorkers, M})
  <2>0. ScanWorkers \in Nat \ {0} /\ BackgroundWorkers \in Int
    BY MTUScanAssumption
  <2>1. M \in Int /\ M >= 1
    <3>1. \E x \in {1, BackgroundWorkers} : \A y \in {1, BackgroundWorkers} : x >= y
      BY <2>0
    <3>2. M \in {1, BackgroundWorkers} /\ \A y \in {1, BackgroundWorkers} : M >= y
      BY <3>1 DEF Max
    <3> QED
      BY <2>0, <3>2
  <2> HIDE DEF M
  <2>2. L \in {ScanWorkers, M}
    <3>1. {ScanWorkers, M} \in SUBSET Nat /\ {ScanWorkers, M} # {}
      BY <2>0, <2>1
    <3> QED
      BY <3>1, LeastSize
  <2>3. Limit = IF released THEN L ELSE ScanWorkers
    BY DEF Limit, M
  <2> HIDE DEF L
  <2> QED
    BY <2>0, <2>1, <2>2, <2>3
<1>2. ASSUME ~released, Valid(conn) # {}
      PROVE  OperatingPoints(conn, ForPoint(Valid(conn))) # {}
  <2>1. ~fallback /\ conn \in [Links -> Connection]
    BY <1>2 DEF MTUInv, MTUType, Phases
  <2>2. ForPoint(Valid(conn)) \in SUBSET Links /\ ForPoint(Valid(conn)) # {}
    BY <1>2, <2>1 DEF ForPoint, Valid
  <2>3. \A r \in ForPoint(Valid(conn)) : Sized(conn[r].mtu)
    BY <2>2 DEF ForPoint, Valid, MTUInv, Measured
  <2> QED
    BY <2>1, <2>2, <2>3, PointChosen
<1> QED
  BY <1>1, <1>2 DEF ScanGoesOn

LEMMA MTUInvSound == MTUInv => MTUSound
BY MTUInvCarried, MTUInvGoesOn DEF MTUSound

\* Whoever the session is sent through and was judged carries its MTU: with any
\* resolvers and any MTUs, whatever the settings and in any order of the scan, of
\* the restarts, of the failures and of the rechecks.  And the scan does not hang.
THEOREM SessionIsCarried == MTUInit /\ [][MTUNext]_mtuVars => [](MTUCarried /\ ScanGoesOn)
<1>1. MTUInit /\ [][MTUNext]_mtuVars => []MTUInv
  BY MTUInvInit, MTUInvStep, PTL
<1> QED
  BY <1>1, MTUInvSound, PTL DEF MTUSound

-----------------------------------------------------------------------------
(* The resolvers that are picked.                                           *)

\* All elements of a set, each once.
Listing(s, S) ==
    /\ s \in [1 .. Cardinality(S) -> S]
    /\ \A i, j \in 1 .. Cardinality(S) : s[i] = s[j] => i = j
    /\ \A r \in S : \E i \in 1 .. Cardinality(S) : s[i] = r

\* A total order numbers a finite set through.
LEMMA RanksByOrder ==
    ASSUME NEW D, IsFiniteSet(D), NEW R,
           \A i, j \in D : <<i, j>> \in R \/ <<j, i>> \in R,
           \A i, j \in D : <<i, j>> \in R /\ <<j, i>> \in R => i = j,
           \A i, j, k \in D : <<i, j>> \in R /\ <<j, k>> \in R => <<i, k>> \in R
    PROVE  LET B(i) == {j \in D : <<j, i>> \in R}
           IN  /\ \A i \in D : Cardinality(B(i)) \in 1 .. Cardinality(D)
               /\ \A k \in 1 .. Cardinality(D) : \E i \in D : Cardinality(B(i)) = k
               /\ \A i, k \in D : Cardinality(B(i)) = Cardinality(B(k)) => i = k
               /\ \A i, k \in D : <<i, k>> \in R => Cardinality(B(i)) <= Cardinality(B(k))
<1> DEFINE B(i) == {j \in D : <<j, i>> \in R}
           N == Cardinality(D)
           f == [i \in D |-> Cardinality(B(i))]
<1>1. N \in Nat
  BY FS_CardinalityType
<1>2. \A i \in D : IsFiniteSet(B(i)) /\ Cardinality(B(i)) \in Nat /\ Cardinality(B(i)) <= N
  BY FS_Subset, FS_CardinalityType
<1>3. \A i \in D : Cardinality(B(i)) \in 1 .. N
  <2> TAKE i \in D
  <2>1. i \in B(i)
    OBVIOUS
  <2>2. Cardinality(B(i)) # 0
    BY <1>2, <2>1, FS_EmptySet
  <2> HIDE DEF B, N
  <2> QED
    BY <1>1, <1>2, <2>2
<1>4. ASSUME NEW i \in D, NEW k \in D, <<i, k>> \in R
      PROVE  /\ Cardinality(B(i)) <= Cardinality(B(k))
             /\ Cardinality(B(i)) = Cardinality(B(k)) => i = k
  <2>1. B(i) \in SUBSET B(k) /\ k \in B(k)
    BY <1>4
  <2>2. k \in B(i) => i = k
    BY <1>4
  <2>3. Cardinality(B(i)) <= Cardinality(B(k))
    BY <1>2, <2>1, FS_Subset
  <2>4. Cardinality(B(i)) = Cardinality(B(k)) => B(i) = B(k)
    BY <1>2, <2>1, FS_Subset
  <2> HIDE DEF B
  <2> QED
    BY <2>1, <2>2, <2>3, <2>4
<1>5. \A i, k \in D : Cardinality(B(i)) = Cardinality(B(k)) => i = k
  <2> TAKE i, k \in D
  <2>1. <<i, k>> \in R \/ <<k, i>> \in R
    OBVIOUS
  <2> HIDE DEF B
  <2> QED
    BY <1>4, <2>1
<1>6. f \in Injection(D, 1 .. N)
  <2> HIDE DEF B, N
  <2> QED
    BY <1>3, <1>5 DEF Injection, IsInjective
<1>7. IsFiniteSet(1 .. N) /\ Cardinality(1 .. N) = N
  BY <1>1, CountTo
<1>8. f \in Surjection(D, 1 .. N)
  <2> HIDE DEF f
  <2> QED
    BY <1>6, <1>7, FS_Injection
<1>9. \A k \in 1 .. N : \E i \in D : Cardinality(B(i)) = k
  <2> HIDE DEF B, N
  <2> QED
    BY <1>8 DEF Surjection
<1> QED
  BY <1>3, <1>4, <1>5, <1>9

\* A listing that is sorted is a listing in the order of the rank.
LEMMA SortedListed ==
    ASSUME NEW T, IsFiniteSet(T), NEW S, Listing(S, T), NEW rank \in [T -> Int]
    PROVE  /\ Listing(SortedBy(S, rank), T)
           /\ \A i, j \in 1 .. Cardinality(T) :
                 i <= j => rank[SortedBy(S, rank)[i]] <= rank[SortedBy(S, rank)[j]]
<1> DEFINE N == Cardinality(T)
           D == 1 .. N
           R == {p \in D \X D : \/ rank[S[p[1]]] < rank[S[p[2]]]
                                \/ rank[S[p[1]]] = rank[S[p[2]]] /\ p[1] <= p[2]}
           Up(j) == {i \in DOMAIN S : \/ rank[S[i]] < rank[S[j]]
                                      \/ rank[S[i]] = rank[S[j]] /\ i <= j}
           C(k) == CHOOSE j \in DOMAIN S : Cardinality(Up(j)) = k
           c == [k \in DOMAIN S |-> C(k)]
<1>1. N \in Nat /\ IsFiniteSet(D) /\ Cardinality(D) = N
  BY FS_CardinalityType, CountTo
<1>2. /\ S \in [D -> T] /\ DOMAIN S = D /\ (\A i, j \in D : S[i] = S[j] => i = j)
      /\ \A r \in T : \E i \in D : S[i] = r
  BY DEF Listing
<1>3. \A i, j \in D : <<i, j>> \in R <=> \/ rank[S[i]] < rank[S[j]]
                                         \/ rank[S[i]] = rank[S[j]] /\ i <= j
  OBVIOUS
<1>4. \A i \in D : rank[S[i]] \in Int /\ i \in Int
  BY <1>2
<1>5. SortedBy(S, rank) = [k \in DOMAIN S |-> S[c[k]]]
  <2>1. SortedBy(S, rank) = [k \in DOMAIN S |-> S[C(k)]]
    BY Zenon DEF SortedBy
  <2> HIDE DEF C
  <2> QED
    BY <2>1
<1> HIDE DEF R, N, D
<1>up. \A j \in D : Up(j) = {i \in D : <<i, j>> \in R}
  <2> TAKE j \in D
  <2>1. \A i : i \in Up(j) <=> i \in D /\ <<i, j>> \in R
    BY <1>2, <1>3
  <2> HIDE DEF Up
  <2>2. \A i : i \in Up(j) <=> i \in {i_1 \in D : <<i_1, j>> \in R}
    BY <2>1
  <2> QED
    BY <2>2
<1> HIDE DEF Up
<1>6. /\ \A i \in D : Cardinality(Up(i)) \in 1 .. N
      /\ \A k \in 1 .. N : \E i \in D : Cardinality(Up(i)) = k
      /\ \A i, k \in D : Cardinality(Up(i)) = Cardinality(Up(k)) => i = k
      /\ \A i, k \in D : <<i, k>> \in R => Cardinality(Up(i)) <= Cardinality(Up(k))
  <2>0. ASSUME NEW i \in D, NEW j \in D
        PROVE  /\ <<i, j>> \in R \/ <<j, i>> \in R
               /\ <<i, j>> \in R /\ <<j, i>> \in R => i = j
    <3>1. rank[S[i]] \in Int /\ rank[S[j]] \in Int /\ i \in Int /\ j \in Int
      BY <1>4
    <3>2. (<<i, j>> \in R <=> rank[S[i]] < rank[S[j]] \/ (rank[S[i]] = rank[S[j]] /\ i <= j))
      BY <1>3
    <3>3. (<<j, i>> \in R <=> rank[S[j]] < rank[S[i]] \/ (rank[S[j]] = rank[S[i]] /\ j <= i))
      BY <1>3
    <3> QED
      BY <3>1, <3>2, <3>3
  <2>1. \A i, j \in D : <<i, j>> \in R \/ <<j, i>> \in R
    BY <2>0
  <2>2. \A i, j \in D : <<i, j>> \in R /\ <<j, i>> \in R => i = j
    BY <2>0
  <2>3. \A i, j, k \in D : <<i, j>> \in R /\ <<j, k>> \in R => <<i, k>> \in R
    <3> TAKE i, j, k \in D
    <3>1. rank[S[i]] \in Int /\ rank[S[j]] \in Int /\ rank[S[k]] \in Int /\ i \in Int /\ j \in Int /\ k \in Int
      BY <1>4
    <3>2. (<<i, j>> \in R <=> rank[S[i]] < rank[S[j]] \/ (rank[S[i]] = rank[S[j]] /\ i <= j))
      BY <1>3
    <3>3. (<<j, k>> \in R <=> rank[S[j]] < rank[S[k]] \/ (rank[S[j]] = rank[S[k]] /\ j <= k))
      BY <1>3
    <3>4. (<<i, k>> \in R <=> rank[S[i]] < rank[S[k]] \/ (rank[S[i]] = rank[S[k]] /\ i <= k))
      BY <1>3
    <3> QED
      BY <3>1, <3>2, <3>3, <3>4
  <2> DEFINE B(i) == {j \in D : <<j, i>> \in R}
  <2>4. /\ \A i \in D : Cardinality(B(i)) \in 1 .. Cardinality(D)
        /\ \A k \in 1 .. Cardinality(D) : \E i \in D : Cardinality(B(i)) = k
        /\ \A i, k \in D : Cardinality(B(i)) = Cardinality(B(k)) => i = k
        /\ \A i, k \in D : <<i, k>> \in R => Cardinality(B(i)) <= Cardinality(B(k))
    BY <1>1, <2>1, <2>2, <2>3, RanksByOrder
  <2>5. \A j \in D : Up(j) = B(j)
    BY <1>up
  <2> HIDE DEF B
  <2> QED
    BY <1>1, <2>4, <2>5
<1>7. \A k \in D : c[k] \in D /\ Cardinality(Up(c[k])) = k
  BY <1>2, <1>6 DEF D
<1>8. \A i \in D : Cardinality(Up(i)) \in D /\ c[Cardinality(Up(i))] = i
  <2> TAKE i \in D
  <2>1. Cardinality(Up(i)) \in D
    BY <1>6 DEF D
  <2>2. c[Cardinality(Up(i))] \in D /\ Cardinality(Up(c[Cardinality(Up(i))])) = Cardinality(Up(i))
    BY <1>7, <2>1
  <2> HIDE DEF Up, c
  <2> QED
    BY <1>6, <2>1, <2>2
<1> DEFINE w == [k \in D |-> S[c[k]]]
<1> HIDE DEF c, Up
<1>9. Listing(w, T)
  <2>1. w \in [D -> T]
    BY <1>2, <1>7
  <2>2. \A i, j \in D : w[i] = w[j] => i = j
    <3> TAKE i, j \in D
    <3>1. w[i] = w[j] => c[i] = c[j]
      BY <1>2, <1>7
    <3> QED
      BY <1>7, <3>1
  <2>3. ASSUME NEW r \in T PROVE \E i \in D : w[i] = r
    <3>1. PICK i \in D : S[i] = r
      BY <1>2
    <3>2. Cardinality(Up(i)) \in D /\ c[Cardinality(Up(i))] = i
      BY <1>8
    <3> QED
      BY <3>1, <3>2
  <2> QED
    BY <2>1, <2>2, <2>3 DEF Listing, D, N
<1>10. ASSUME NEW i \in D, NEW j \in D, i <= j PROVE rank[w[i]] <= rank[w[j]]
  <2>1. c[i] \in D /\ c[j] \in D /\ w[i] = S[c[i]] /\ w[j] = S[c[j]]
    BY <1>7
  <2>2. rank[S[c[i]]] \in Int /\ rank[S[c[j]]] \in Int /\ i \in Int /\ j \in Int
    BY <1>4, <2>1
  <2>3. CASE rank[S[c[j]]] < rank[S[c[i]]]
    <3>1. <<c[j], c[i]>> \in R
      BY <1>3, <2>1, <2>3
    <3>2. j <= i
      BY <1>6, <1>7, <2>1, <3>1
    <3>3. i = j
      BY <1>10, <2>2, <3>2
    <3> QED
      BY <2>2, <2>3, <3>3
  <2> QED
    BY <2>1, <2>2, <2>3
<1>11. SortedBy(S, rank) = w
  BY <1>2, <1>5
<1> QED
  BY <1>9, <1>10, <1>11 DEF D, N

\* Division by a positive number.
LEMMA Division ==
    ASSUME NEW s \in Nat \ {0}, NEW x \in Nat
    PROVE  x \div s \in Nat /\ x % s \in 0 .. s - 1 /\ x = s * (x \div s) + (x % s)
OBVIOUS

\* A counter modulo L goes on or around.
LEMMA GoesAround ==
    ASSUME NEW L \in Nat \ {0}, NEW x \in Nat, NEW n \in 0 .. L
    PROVE  (x + n) % L = IF (x % L) + n < L THEN (x % L) + n ELSE (x % L) + n - L
<1> DEFINE m == x % L
           k == (x + n) % L
           q == x \div L
           p == (x + n) \div L
<1>1. x = L * q + m /\ m \in 0 .. L - 1 /\ q \in Nat
  BY Division
<1>2. x + n = L * p + k /\ k \in 0 .. L - 1 /\ p \in Nat
  <2>1. x + n \in Nat
    OBVIOUS
  <2> QED
    BY <2>1, Division
<1> HIDE DEF m, k, p, q
<1>3. L * (p - q) = L * p - L * q
  BY <1>1, <1>2
<1>4. L * (p - q) = m + n - k
  BY <1>1, <1>2, <1>3
<1>5. p - q \in {0, 1}
  <2> SUFFICES ASSUME NEW d \in Int, d = p - q PROVE d \in {0, 1}
    BY <1>1, <1>2
  <2>1. L * d = m + n - k
    BY <1>4
  <2>2. d <= -1 => L * d <= L * (-1)
    OBVIOUS
  <2>3. d >= 2 => L * d >= L * 2
    OBVIOUS
  <2> QED
    BY <1>1, <1>2, <2>1, <2>2, <2>3
<1>6. k = m + n \/ k = m + n - L
  BY <1>1, <1>2, <1>4, <1>5
<1>7. k = IF m + n < L THEN m + n ELSE m + n - L
  BY <1>1, <1>2, <1>6
<1> QED
  BY <1>7 DEF m, k

PickType ==
    /\ strategy \in Strategies /\ members \in SUBSET (1 .. Paths)
    /\ sends \in [1 .. Paths -> 0 .. HalfLife] /\ answers \in [1 .. Paths -> 0 .. HalfLife]
    /\ rrCounter \in Nat /\ served \in [1 .. Paths -> Nat]

\* The place the counter has reached, and how many picks ago the turn of a place was.
Reached == rrCounter % Cardinality(members)
Behind(p) == IF p <= Reached THEN Reached - p ELSE Reached - p + Cardinality(members)

\* Round robin has served those whose turn was last, once each.
Window ==
    strategy = "roundRobin" /\ members # {} =>
        \E w \in 0 .. Cardinality(members) - 1 :
            \A p \in 1 .. Cardinality(members) :
                served[Ordered[p]] = IF Behind(p) < w THEN 1 ELSE 0

PickInv == PickType /\ Distinct /\ LeastLost /\ Window

\* The loss is of a thousand.
LEMMA LossOfThousand ==
    ASSUME PickType, NEW r \in 1 .. Paths
    PROVE  LossScore(r) \in 0 .. 1000
<1>1. sends[r] \in Nat /\ answers[r] \in Nat /\ Enough \in Nat \ {0}
  <2>1. HalfLife \in Nat /\ Enough \in Nat \ {0}
    BY BalancerPickAssumption
  <2>2. sends[r] \in 0 .. HalfLife /\ answers[r] \in 0 .. HalfLife
    BY DEF PickType
  <2> QED
    BY <2>1, <2>2
<1>2. CASE sends[r] >= Enough /\ answers[r] < sends[r]
  <2> DEFINE s == sends[r]
             x == (sends[r] - answers[r]) * 1000
  <2>1. s \in Nat \ {0} /\ x \in Nat /\ x <= 1000 * s
    BY <1>1, <1>2
  <2> HIDE DEF s, x
  <2>2. x \div s \in 0 .. 1000
    BY <2>1
  <2>3. LossScore(r) = x \div s
    <3>1. ~(sends[r] < Enough) /\ ~(answers[r] >= sends[r])
      BY <1>1, <1>2
    <3> QED
      BY <3>1, Zenon DEF LossScore, s, x
  <2> QED
    BY <2>2, <2>3
<1>3. CASE sends[r] < Enough
  BY <1>3 DEF LossScore
<1>4. CASE sends[r] >= Enough /\ answers[r] >= sends[r]
  BY <1>1, <1>4 DEF LossScore
<1> QED
  BY <1>1, <1>2, <1>3, <1>4

\* The valid resolvers, in the order of the snapshot.
LEMMA OrderedListed ==
    ASSUME PickType
    PROVE  /\ IsFiniteSet(members) /\ Cardinality(members) \in Nat
           /\ Cardinality(members) = 0 <=> members = {}
           /\ Cardinality(members) <= Paths /\ Listing(Ordered, members)
<1>1. members \in SUBSET (1 .. Paths) /\ Paths \in Nat
  BY BalancerPickAssumption DEF PickType
<1>2. IsFiniteSet(1 .. Paths) /\ Cardinality(1 .. Paths) = Paths
  BY <1>1, CountTo
<1>3. IsFiniteSet(members) /\ Cardinality(members) \in Nat /\ Cardinality(members) <= Paths
  BY <1>1, <1>2, FS_Subset, FS_CardinalityType
<1>4. members \in SUBSET Int
  BY <1>1
<1>5. Ordered \in Bijection(1 .. Cardinality(members), members)
  BY <1>3, <1>4, NthProperties DEF Ordered, Ascending
<1>6. Listing(Ordered, members)
  BY <1>5 DEF Listing, Bijection, Injection, Surjection, IsInjective
<1> QED
  BY <1>3, <1>6, FS_EmptySet

\* The same from any place on.
LEMMA FromListed ==
    ASSUME PickType, members # {}, NEW start \in Nat
    PROVE  Listing(From(start), members)
<1> DEFINE N == Cardinality(members)
           f == start % N
           at(i) == IF f + i <= N THEN f + i ELSE f + i - N
<1>1. N \in Nat \ {0} /\ Listing(Ordered, members)
  BY OrderedListed
<1> HIDE DEF N
<1>2. f \in 0 .. N - 1
  BY <1>1, Division
<1>3. From(start) = [i \in 1 .. N |-> Ordered[at(i)]]
  BY DEF From, N
<1> HIDE DEF f
<1>4. /\ \A i \in 1 .. N : at(i) \in 1 .. N
      /\ \A i, j \in 1 .. N : at(i) = at(j) => i = j
      /\ \A p \in 1 .. N : \E i \in 1 .. N : at(i) = p
  <2>1. \A i \in 1 .. N : at(i) \in 1 .. N
    BY <1>1, <1>2
  <2>2. \A i, j \in 1 .. N : at(i) = at(j) => i = j
    BY <1>1, <1>2
  <2>3. ASSUME NEW p \in 1 .. N PROVE \E i \in 1 .. N : at(i) = p
    <3>1. CASE p > f
      <4>1. p - f \in 1 .. N /\ at(p - f) = p
        BY <1>1, <1>2, <3>1
      <4> QED
        BY <4>1
    <3>2. CASE p <= f
      <4>1. p - f + N \in 1 .. N /\ at(p - f + N) = p
        BY <1>1, <1>2, <3>2
      <4> QED
        BY <4>1
    <3> QED
      BY <1>2, <3>1, <3>2
  <2> QED
    BY <2>1, <2>2, <2>3
<1> HIDE DEF at
<1>5. /\ Ordered \in [1 .. N -> members]
      /\ \A i, j \in 1 .. N : Ordered[i] = Ordered[j] => i = j
      /\ \A r \in members : \E i \in 1 .. N : Ordered[i] = r
  BY <1>1 DEF Listing, N
<1> DEFINE w == [i \in 1 .. N |-> Ordered[at(i)]]
<1>6. w \in [1 .. N -> members]
  BY <1>4, <1>5
<1>7. \A i, j \in 1 .. N : w[i] = w[j] => i = j
  <2> TAKE i, j \in 1 .. N
  <2>1. at(i) \in 1 .. N /\ at(j) \in 1 .. N
    BY <1>4
  <2>2. w[i] = w[j] => at(i) = at(j)
    BY <1>5, <2>1
  <2> QED
    BY <1>4, <2>2
<1>8. ASSUME NEW r \in members PROVE \E i \in 1 .. N : w[i] = r
  <2>1. PICK p \in 1 .. N : Ordered[p] = r
    BY <1>5
  <2>2. PICK i \in 1 .. N : at(i) = p
    BY <1>4
  <2> QED
    BY <2>1, <2>2
<1> QED
  BY <1>3, <1>6, <1>7, <1>8 DEF Listing, N

\* Whatever the strategy, a pick goes through a listing of the valid resolvers; with
\* least loss, one that is sorted by the loss.
LEMMA OrdersListed ==
    ASSUME PickType, members # {}, NEW n
    PROVE  /\ \A s \in Orders(n) \cup {Turn(n)} : Listing(s, members)
           /\ strategy = "leastLoss" /\ HasLossSignal =>
                 \A s \in Orders(n) : \A i, j \in 1 .. Cardinality(members) :
                    i <= j => LossScore(s[i]) <= LossScore(s[j])
<1>1. IsFiniteSet(members) /\ Cardinality(members) \in Nat /\ Listing(Ordered, members)
  BY OrderedListed
<1>2. Listing(Turn(n), members)
  BY FromListed DEF PickType, Turn
<1>3. members \in SUBSET (1 .. Paths)
  BY DEF PickType
<1>4. ByLoss \in [members -> Int] /\ \A r \in members : ByLoss[r] = LossScore(r)
  <2>1. \A r \in members : LossScore(r) \in 0 .. 1000
    BY <1>3, LossOfThousand
  <2>2. \A r \in members : LossScore(r) \in Int
    BY <2>1
  <2> QED
    BY <2>2 DEF ByLoss
<1>5. ByMTU \in [members -> Int]
  <2>1. MTURank \in [1 .. Paths -> 1 .. Paths]
    BY BalancerPickAssumption
  <2>2. \A r \in members : MTURank[r] \in Int
    BY <1>3, <2>1
  <2> QED
    BY <2>2 DEF ByMTU
<1>6. Listing(SortedBy(Ordered, ByMTU), members)
  BY <1>1, <1>5, SortedListed
<1>7. /\ Listing(SortedBy(Turn(n), ByLoss), members)
      /\ \A i, j \in 1 .. Cardinality(members) :
            i <= j => ByLoss[SortedBy(Turn(n), ByLoss)[i]] <= ByLoss[SortedBy(Turn(n), ByLoss)[j]]
  BY <1>1, <1>2, <1>4, SortedListed
<1>8. \A s \in SetToSeqs(members) : Listing(s, members)
  <2> TAKE s \in SetToSeqs(members)
  <2> DEFINE D == 1 .. Cardinality(members)
  <2>1. s \in [D -> members] /\ \A i, j \in D : i # j => s[i] # s[j]
    BY DEF SetToSeqs
  <2>2. s \in Injection(D, members)
    <3> HIDE DEF D
    <3> QED
      BY <2>1 DEF Injection, IsInjective
  <2>3. IsFiniteSet(D) /\ Cardinality(D) = Cardinality(members)
    BY <1>1, CountTo
  <2>4. s \in Surjection(D, members)
    BY <1>1, <2>2, <2>3, FS_Injection
  <2> QED
    BY <2>1, <2>4 DEF Listing, Surjection
<1>9. \A i \in 0 .. (Len(Ordered) - 1) : Listing(From(i), members)
  BY FromListed
<1>10. strategy \in {"roundRobin", "random", "weighted", "highestMTU", "leastLoss"}
  BY BalancerPickAssumption DEF PickType
<1>11. \A s \in Orders(n) : Listing(s, members)
  BY <1>2, <1>6, <1>7, <1>8, <1>9, <1>10 DEF Orders
<1>12. ASSUME strategy = "leastLoss", HasLossSignal, NEW s \in Orders(n),
              NEW i \in 1 .. Cardinality(members), NEW j \in 1 .. Cardinality(members), i <= j
       PROVE  LossScore(s[i]) <= LossScore(s[j])
  <2>1. s = SortedBy(Turn(n), ByLoss)
    BY <1>12 DEF Orders
  <2>2. ByLoss[s[i]] <= ByLoss[s[j]]
    BY <1>7, <1>12, <2>1
  <2>3. s[i] \in members /\ s[j] \in members
    BY <1>11 DEF Listing
  <2> QED
    BY <1>4, <2>2, <2>3
<1> QED
  BY <1>2, <1>11, <1>12

\* How many a pick wants.
LEMMA WantWithin ==
    ASSUME PickType, members # {}, NEW want \in Int
    PROVE  Want(want) \in 1 .. Cardinality(members)
<1>1. Cardinality(members) \in Nat \ {0}
  BY OrderedListed
<1> QED
  BY <1>1 DEF Want

\* The first n of a listing.
LEMMA FirstOf ==
    ASSUME PickType, NEW s, Listing(s, members), NEW n \in 1 .. Cardinality(members)
    PROVE  /\ First(s, n) = [i \in 1 .. n |-> s[i]] /\ Len(First(s, n)) = n
           /\ ToSet(First(s, n)) = {s[i] : i \in 1 .. n}
           /\ ToSet(First(s, n)) \subseteq members /\ IsInjective(First(s, n))
<1> DEFINE N == Cardinality(members)
           w == [i \in 1 .. n |-> s[i]]
<1>1. N \in Nat /\ s \in [1 .. N -> members] /\ \A i, j \in 1 .. N : s[i] = s[j] => i = j
  BY OrderedListed DEF Listing
<1>2. s \in Seq(members) /\ Len(s) = N
  BY <1>1
<1>3. n \in 1 .. N /\ \A i \in 1 .. n : i \in 1 .. N
  BY <1>1
<1> HIDE DEF N
<1>4. First(s, n) = w
  BY <1>1, <1>2, <1>3 DEF First
<1>5. n \in Nat /\ w \in Seq(members) /\ Len(w) = n
  BY <1>1, <1>3
<1>6. ToSet(w) = {s[i] : i \in 1 .. n}
  BY DEF ToSet
<1>7. ToSet(w) \subseteq members
  BY <1>1, <1>3, <1>6
<1>8. IsInjective(w)
  BY <1>1, <1>3 DEF IsInjective
<1> QED
  BY <1>4, <1>5, <1>6, <1>7, <1>8

\* Nothing is picked.
LEMMA PickedNone == ToSet(<<>>) = {}
BY DEF ToSet

\* Who was served since the members changed: nobody.
LEMMA NoneServedYet == PickType /\ served = NoneServed => Window
<1> SUFFICES ASSUME PickType, served = NoneServed, members # {} PROVE Window
  BY DEF Window
<1>1. Cardinality(members) \in Nat \ {0} /\ Ordered \in [1 .. Cardinality(members) -> members]
  BY OrderedListed DEF Listing
<1>2. \A p \in 1 .. Cardinality(members) : served[Ordered[p]] = 0 /\ ~(Behind(p) < 0)
  <2> TAKE p \in 1 .. Cardinality(members)
  <2>1. Ordered[p] \in 1 .. Paths
    BY <1>1 DEF PickType
  <2>2. Reached \in 0 .. Cardinality(members) - 1
    BY <1>1, Division DEF PickType, Reached
  <2>3. Behind(p) >= 0 /\ Behind(p) \in Int
    BY <1>1, <2>2 DEF Behind
  <2> QED
    BY <2>1, <2>3 DEF NoneServed
<1>3. 0 \in 0 .. Cardinality(members) - 1
  BY <1>1
<1> QED
  BY <1>2, <1>3 DEF Window

LEMMA PickInvInit == PickInit => PickInv
<1> SUFFICES ASSUME PickInit PROVE PickInv
  OBVIOUS
<1>1. HalfLife \in Nat /\ Paths \in Nat \ {0}
  BY BalancerPickAssumption
<1>2. PickType
  BY <1>1 DEF PickInit, PickType, NoneServed
<1>3. Distinct
  BY DEF PickInit, Distinct
<1>4. LeastLost
  BY PickedNone DEF PickInit, NoPick, LeastLost
<1>5. Window
  BY <1>2, NoneServedYet DEF PickInit
<1> QED
  BY <1>2, <1>3, <1>4, <1>5 DEF PickInv

\* What is counted stays within the threshold.
LEMMA Counted ==
    ASSUME PickType, NEW r \in 1 .. Paths, NEW s \in 0 .. HalfLife + 1,
           NEW a \in 0 .. HalfLife + 1, Count(r, s, a)
    PROVE  sends' \in [1 .. Paths -> 0 .. HalfLife] /\ answers' \in [1 .. Paths -> 0 .. HalfLife]
<1> DEFINE half == s > HalfLife \/ a > HalfLife
           x == IF half THEN s \div 2 ELSE s
           y == IF half THEN a \div 2 ELSE a
<1>1. HalfLife \in Nat
  BY BalancerPickAssumption
<1>2. \A z \in 0 .. HalfLife + 1 : z \div 2 \in 0 .. HalfLife
  BY <1>1
<1>3. x \in 0 .. HalfLife /\ y \in 0 .. HalfLife
  BY <1>1, <1>2
<1>4. sends' = [sends EXCEPT ![r] = x] /\ answers' = [answers EXCEPT ![r] = y]
  BY DEF Count
<1> HIDE DEF x, y
<1> QED
  BY <1>3, <1>4 DEF PickType

\* Without a pick there is nothing wrong with it.
LEMMA NotPicked == ASSUME pick' = NoPick PROVE Distinct' /\ LeastLost'
BY PickedNone DEF NoPick, Distinct, LeastLost

\* A report changes what is counted, and nothing else.
LEMMA ReportKeeps ==
    ASSUME PickInv, NEW r \in 1 .. Paths, ReportSend(r) \/ ReportSuccess(r), UNCHANGED strategy
    PROVE  PickInv'
<1>1. PickType /\ Window /\ UNCHANGED <<members, rrCounter, served>> /\ pick' = NoPick
  BY DEF PickInv, ReportSend, ReportSuccess
<1>2. HalfLife \in Nat /\ sends[r] \in 0 .. HalfLife /\ answers[r] \in 0 .. HalfLife
  <2>1. HalfLife \in Nat
    BY BalancerPickAssumption
  <2> QED
    BY <1>1, <2>1 DEF PickType
<1>3. /\ sends[r] + 1 \in 0 .. HalfLife + 1 /\ answers[r] + 1 \in 0 .. HalfLife + 1
      /\ sends[r] \in 0 .. HalfLife + 1 /\ answers[r] \in 0 .. HalfLife + 1
  BY <1>2
<1>4. sends' \in [1 .. Paths -> 0 .. HalfLife] /\ answers' \in [1 .. Paths -> 0 .. HalfLife]
  <2>1. CASE ReportSend(r)
    BY <1>1, <1>3, <2>1, Counted DEF ReportSend
  <2>2. CASE ReportSuccess(r)
    BY <1>1, <1>3, <2>2, Counted DEF ReportSuccess
  <2> QED
    BY <2>1, <2>2
<1>5. PickType'
  BY <1>1, <1>4 DEF PickType
<1>6. Distinct' /\ LeastLost'
  BY <1>1, NotPicked
<1>7. Window'
  BY <1>1 DEF Window, Behind, Reached, Ordered
<1> QED
  BY <1>5, <1>6, <1>7 DEF PickInv

\* Who leaves or comes back starts the count of the turns anew.
LEMMA MembersKeep ==
    ASSUME PickInv, NEW r \in 1 .. Paths, Leave(r) \/ Rejoin(r), UNCHANGED strategy
    PROVE  PickInv'
<1>1. /\ PickType /\ UNCHANGED rrCounter /\ pick' = NoPick /\ served' = NoneServed
      /\ members' \in SUBSET (1 .. Paths)
  BY DEF PickInv, PickType, Leave, Rejoin
<1>2. /\ HalfLife \in Nat /\ 0 \in 0 .. HalfLife + 1
      /\ SeedSent \in 0 .. HalfLife + 1 /\ SeedAcked \in 0 .. HalfLife + 1
  <2>1. HalfLife \in Nat /\ SeedSent \in 0 .. HalfLife /\ SeedAcked \in 0 .. SeedSent
    BY BalancerPickAssumption
  <2> QED
    BY <2>1
<1>3. sends' \in [1 .. Paths -> 0 .. HalfLife] /\ answers' \in [1 .. Paths -> 0 .. HalfLife]
  <2>1. CASE Leave(r)
    BY <1>1, <1>2, <2>1, Counted DEF Leave
  <2>2. CASE Rejoin(r)
    BY <1>1, <1>2, <2>2, Counted DEF Rejoin
  <2> QED
    BY <2>1, <2>2
<1>4. served' \in [1 .. Paths -> Nat]
  BY <1>1 DEF NoneServed
<1>5. PickType'
  BY <1>1, <1>3, <1>4 DEF PickType
<1>6. Distinct' /\ LeastLost'
  BY <1>1, NotPicked
<1>7. (PickType /\ served = NoneServed => Window)'
  BY NoneServedYet, PTL
<1>8. Window'
  BY <1>1, <1>5, <1>7 DEF NoneServed
<1> QED
  BY <1>5, <1>6, <1>8 DEF PickInv

\* Round robin picks those whose turn is next, and counts them as served.
LEMMA TurnServes ==
    ASSUME PickType, Window, members # {}, strategy = "roundRobin",
           NEW n \in 1 .. Cardinality(members), rrCounter' = rrCounter + n,
           served' = Since(ToSet(First(Turn(n), n))), UNCHANGED <<members, strategy>>
    PROVE  Window'
<1> DEFINE N == Cardinality(members)
           k == Reached
           l == IF k + n < N THEN k + n ELSE k + n - N
           at(i) == IF k + i <= N THEN k + i ELSE k + i - N
           before(p) == IF p <= k THEN k - p ELSE k - p + N
           after(p) == IF p <= l THEN l - p ELSE l - p + N
           taken == ToSet(First(Turn(n), n))
<1>0. /\ Ordered \in [1 .. N -> members]
      /\ \A i, j \in 1 .. N : Ordered[i] = Ordered[j] => i = j
      /\ \A r \in members : \E p \in 1 .. N : Ordered[p] = r
  BY OrderedListed DEF Listing
<1>1. N \in Nat /\ N >= 1 /\ n \in Nat /\ n >= 1 /\ n <= N
  BY OrderedListed
<1>2. k \in 0 .. N - 1 /\ rrCounter \in Nat /\ N \in Nat \ {0} /\ n \in 0 .. N
  <2>1. rrCounter \in Nat
    BY DEF PickType
  <2>2. N \in Nat \ {0} /\ n \in 0 .. N
    BY <1>1
  <2>3. rrCounter % N \in 0 .. N - 1
    <3> HIDE DEF N
    <3> QED
      BY <2>1, <2>2, Division
  <2> QED
    BY <2>1, <2>2, <2>3 DEF Reached
<1>3. Reached' = l
  <2>1. Reached' = (rrCounter + n) % N
    BY DEF Reached
  <2>2. (rrCounter + n) % N = IF (rrCounter % N) + n < N THEN (rrCounter % N) + n
                              ELSE (rrCounter % N) + n - N
    <3> HIDE DEF N
    <3> QED
      BY <1>2, GoesAround
  <2> QED
    BY <2>1, <2>2 DEF Reached
<1>4. \A p : Behind(p) = before(p) /\ Behind(p)' = after(p)
  BY <1>3 DEF Behind
<1>5. Turn(n) = [i \in 1 .. N |-> Ordered[at(i)]]
  BY DEF Turn, From, Reached
<1>6. taken = {Ordered[at(i)] : i \in 1 .. n}
  <2>1. rrCounter \in Nat
    BY DEF PickType
  <2>2. Listing(Turn(n), members)
    BY <2>1, FromListed DEF Turn
  <2>3. taken = {Turn(n)[i] : i \in 1 .. n}
    BY <2>2, FirstOf
  <2>4. \A i \in 1 .. n : i \in 1 .. N
    BY <1>1
  <2> HIDE DEF taken, N, at
  <2> QED
    BY <1>5, <2>3, <2>4
<1>7. PICK w \in 0 .. N - 1 : \A p \in 1 .. N : served[Ordered[p]] = IF before(p) < w THEN 1 ELSE 0
  BY <1>4 DEF Window
<1>8. /\ Ordered' = Ordered /\ Cardinality(members)' = N
      /\ served' = Since(taken)
  BY DEF Ordered
<1> HIDE DEF N, k, taken
<1>w. w \in Nat /\ w < N
  BY <1>1
<1>9. \A p \in 1 .. N : Ordered[p] \in taken <=> after(p) < n
  <2> TAKE p \in 1 .. N
  <2>1. \A i \in 1 .. n : at(i) \in 1 .. N /\ (at(i) = p <=> after(p) = n - i)
    BY <1>1, <1>2
  <2>2. after(p) \in 0 .. N - 1
    BY <1>1, <1>2
  <2> HIDE DEF at, after
  <2>3. ASSUME Ordered[p] \in taken PROVE after(p) < n
    <3>1. PICK i \in 1 .. n : Ordered[p] = Ordered[at(i)]
      BY <1>6, <2>3
    <3>2. at(i) = p
      BY <1>0, <2>1, <3>1
    <3> QED
      BY <1>1, <2>1, <2>2, <3>2
  <2>4. ASSUME after(p) < n PROVE Ordered[p] \in taken
    <3>1. n - after(p) \in 1 .. n /\ n - (n - after(p)) = after(p)
      BY <1>1, <2>2, <2>4
    <3>2. at(n - after(p)) = p
      BY <2>1, <3>1
    <3> QED
      BY <1>6, <3>1, <3>2
  <2> QED
    BY <2>3, <2>4
<1> DEFINE now == [r \in 1 .. Paths |-> served[r] + (IF r \in taken THEN 1 ELSE 0)]
           all == \A r \in members : now[r] > 0
<1>10. served' = [r \in 1 .. Paths |-> IF all /\ r \in members THEN now[r] - 1 ELSE now[r]]
  BY <1>8 DEF Since
<1>11. \A p \in 1 .. N : /\ Ordered[p] \in members /\ Ordered[p] \in 1 .. Paths
                         /\ now[Ordered[p]] = (IF before(p) < w THEN 1 ELSE 0)
                                              + (IF after(p) < n THEN 1 ELSE 0)
  <2> TAKE p \in 1 .. N
  <2>1. Ordered[p] \in members /\ Ordered[p] \in 1 .. Paths
    BY <1>0 DEF PickType
  <2>2. now[Ordered[p]] = served[Ordered[p]] + (IF Ordered[p] \in taken THEN 1 ELSE 0)
    BY <2>1
  <2> HIDE DEF now, before, after
  <2> QED
    BY <1>7, <1>9, <2>1, <2>2
<1>12. \A p \in 1 .. N : served'[Ordered[p]] = IF all THEN now[Ordered[p]] - 1 ELSE now[Ordered[p]]
  <2> HIDE DEF now, all
  <2> QED
    BY <1>10, <1>11
<1> HIDE DEF now
<1>13. \A p \in 1 .. N :
          /\ before(p) \in 0 .. N - 1
          /\ after(p) = IF before(p) + n < N THEN before(p) + n ELSE before(p) + n - N
  BY <1>1, <1>2
<1>14. all <=> \A p \in 1 .. N : before(p) < w \/ after(p) < n
  <2>1. all <=> \A p \in 1 .. N : now[Ordered[p]] > 0
    BY <1>0
  <2> HIDE DEF all, before, after
  <2> QED
    BY <1>11, <2>1
<1>15. w + n < N => ~all
  <2> SUFFICES ASSUME w + n < N PROVE ~all
    OBVIOUS
  <2> DEFINE p == IF k > w THEN k - w ELSE k - w + N
  <2>1. p \in 1 .. N /\ before(p) = w
    BY <1>1, <1>2, <1>w
  <2>2. ~(before(p) < w) /\ ~(after(p) < n)
    BY <1>1, <1>w, <1>13, <2>1
  <2> QED
    BY <1>14, <2>1, <2>2
<1>16. w + n >= N => all
  <2> HIDE DEF all, before, after
  <2> QED
    BY <1>1, <1>w, <1>13, <1>14
<1> HIDE DEF all, before, after
<1>17. CASE w + n < N
  <2>1. \A p \in 1 .. N : served'[Ordered[p]] = IF after(p) < w + n THEN 1 ELSE 0
    BY <1>1, <1>w, <1>11, <1>12, <1>13, <1>15, <1>17
  <2>2. w + n \in 0 .. N - 1
    BY <1>1, <1>w, <1>17
  <2> QED
    BY <1>4, <1>8, <2>1, <2>2 DEF Window
<1>18. CASE w + n >= N
  <2>1. ASSUME NEW p \in 1 .. N
        PROVE  served'[Ordered[p]] = IF after(p) < w + n - N THEN 1 ELSE 0
    <3>1. served'[Ordered[p]] = (IF before(p) < w THEN 1 ELSE 0)
                                + (IF after(p) < n THEN 1 ELSE 0) - 1
      BY <1>11, <1>12, <1>16, <1>18
    <3>2. /\ before(p) \in 0 .. N - 1
          /\ after(p) = IF before(p) + n < N THEN before(p) + n ELSE before(p) + n - N
      BY <1>13
    <3> QED
      BY <1>1, <1>w, <1>18, <3>1, <3>2
  <2>2. w + n - N \in 0 .. N - 1
    BY <1>1, <1>w, <1>18
  <2> QED
    BY <1>4, <1>8, <2>1, <2>2 DEF Window
<1> QED
  BY <1>1, <1>w, <1>17, <1>18

\* Nothing of the losses changes in a pick.
LEMMA SameLoss ==
    ASSUME UNCHANGED <<members, sends, answers>>
    PROVE  (HasLossSignal' <=> HasLossSignal) /\ \A r : LossScore(r)' = LossScore(r)
BY DEF HasLossSignal, LossScore

\* Several resolvers, all different and the best: the first of a listing.
LEMMA GetUniqueKeeps ==
    ASSUME PickInv, NEW want \in 0 .. Paths + 1, GetUnique(want), UNCHANGED strategy
    PROVE  PickInv'
<1> DEFINE n == Want(want)
           several == strategy = "weighted" /\ n > 1
<1>1. /\ PickType /\ Window /\ members # {} /\ UNCHANGED <<members, sends, answers>>
      /\ rrCounter' = IF Advances \/ several THEN rrCounter + n ELSE rrCounter
  BY DEF PickInv, GetUnique
<1>2. n \in 1 .. Cardinality(members) /\ Cardinality(members) \in Nat
  <2>1. want \in Int
    BY BalancerPickAssumption
  <2> QED
    BY <1>1, <2>1, WantWithin, OrderedListed
<1> HIDE DEF n
<1>3. PICK s \in Orders(n) \cup {Turn(n)} :
         /\ s \in (IF several THEN {Turn(n)} ELSE Orders(n))
         /\ pick' = [want |-> want, except |-> 0, got |-> First(s, n)]
         /\ served' = Since(ToSet(First(s, n)))
  BY DEF GetUnique, n
<1>4. Listing(s, members)
  BY <1>1, OrdersListed
<1>5. /\ Len(First(s, n)) = n /\ ToSet(First(s, n)) = {s[i] : i \in 1 .. n}
      /\ ToSet(First(s, n)) \subseteq members /\ IsInjective(First(s, n))
  BY <1>1, <1>2, <1>4, FirstOf
<1>6. pick'.want = want /\ pick'.except = 0 /\ pick'.got = First(s, n)
  BY <1>3
<1>7. Want(want)' = n
  BY <1>1 DEF Want, n
<1>8. Distinct'
  BY <1>1, <1>5, <1>6, <1>7 DEF Distinct
<1>9. LeastLost'
  <2> SUFFICES ASSUME strategy' = "leastLoss", HasLossSignal', NEW r \in ToSet(First(s, n)),
                      NEW q \in members \ ToSet(First(s, n))
               PROVE  LossScore(r) <= LossScore(q)
    BY <1>1, <1>6, SameLoss DEF LeastLost
  <2>1. strategy = "leastLoss" /\ HasLossSignal /\ ~several /\ s \in Orders(n)
    BY <1>1, <1>3, SameLoss
  <2>2. PICK i \in 1 .. n : r = s[i]
    BY <1>5
  <2>3. PICK j \in 1 .. Cardinality(members) : q = s[j]
    BY <1>4 DEF Listing
  <2>4. ~(j \in 1 .. n)
    BY <1>5, <2>3
  <2>5. i \in 1 .. Cardinality(members) /\ i <= j
    BY <1>2, <2>4
  <2> QED
    BY <1>1, <2>1, <2>2, <2>3, <2>5, OrdersListed
<1>10. PickType'
  <2>1. rrCounter' \in Nat
    BY <1>1, <1>2 DEF PickType
  <2>2. served' \in [1 .. Paths -> Nat]
    <3> DEFINE taken == ToSet(First(s, n))
               now == [r \in 1 .. Paths |-> served[r] + (IF r \in taken THEN 1 ELSE 0)]
               all == \A r \in members : now[r] > 0
               result == [r \in 1 .. Paths |-> IF all /\ r \in members THEN now[r] - 1 ELSE now[r]]
    <3>1. served' = NoneServed \/ served' = result
      BY <1>3 DEF Since
    <3>2. now \in [1 .. Paths -> Nat]
      BY <1>1 DEF PickType
    <3>3. result \in [1 .. Paths -> Nat]
      <4> HIDE DEF now
      <4>1. \A r \in 1 .. Paths : now[r] \in Nat /\ (all /\ r \in members => now[r] - 1 \in Nat)
        BY <3>2
      <4> QED
        BY <4>1
    <3> HIDE DEF result
    <3> QED
      BY <3>1, <3>3 DEF NoneServed
  <2> QED
    BY <1>1, <2>1, <2>2 DEF PickType
<1>11. Window'
  <2>1. CASE strategy = "roundRobin"
    <3>1. Advances /\ s = Turn(n)
      BY <1>3, <2>1 DEF Advances, Orders
    <3> QED
      BY <1>1, <1>2, <1>3, <2>1, <3>1, TurnServes
  <2>2. CASE strategy # "roundRobin"
    BY <2>2 DEF Window
  <2> QED
    BY <2>1, <2>2
<1> QED
  BY <1>8, <1>9, <1>10, <1>11 DEF PickInv

\* One that is not the last: the first of the others.
LEMMA GetExcludingKeeps ==
    ASSUME PickInv, NEW x \in 1 .. Paths, GetExcluding(x), UNCHANGED strategy
    PROVE  PickInv'
<1> DEFINE N == Cardinality(members)
<1>1. /\ PickType /\ members # {} /\ UNCHANGED <<members, sends, answers>>
      /\ served' = NoneServed /\ rrCounter' \in {rrCounter, rrCounter + 1}
  BY DEF PickInv, GetExcluding
<1>2. PICK s \in (IF strategy \in {"random", "weighted"} THEN {Turn(1)} ELSE Orders(1)) :
         LET others == {i \in DOMAIN s : s[i] # x}
         IN  pick' = [want |-> 1, except |-> x,
                      got |-> IF others = {} THEN <<>> ELSE <<s[Min(others)]>>]
  BY DEF GetExcluding
<1> DEFINE others == {i \in DOMAIN s : s[i] # x}
           got == IF others = {} THEN <<>> ELSE <<s[Min(others)]>>
<1>3. pick'.want = 1 /\ pick'.except = x /\ pick'.got = got
  BY <1>2
<1>4. Listing(s, members) /\ N \in Nat
  BY <1>1, OrdersListed, OrderedListed
<1>5. s \in [1 .. N -> members] /\ \A r \in members : \E i \in 1 .. N : s[i] = r
  BY <1>4 DEF Listing
<1> HIDE DEF N
<1>6. others = {i \in 1 .. N : s[i] # x}
  BY <1>5
<1>7. ASSUME others # {}
      PROVE  Min(others) \in others /\ \A j \in others : Min(others) <= j
  <2>1. others \in SUBSET Nat
    BY <1>4, <1>6
  <2> HIDE DEF others
  <2> QED
    BY <1>7, <2>1, LeastSize
<1> HIDE DEF others
<1>8. ASSUME others = {} PROVE Distinct' /\ LeastLost'
  <2>1. got = <<>> /\ members \subseteq {x}
    BY <1>5, <1>6, <1>8
  <2>2. Len(<<>>) = 0 /\ IsInjective(<<>>) /\ ToSet(<<>>) = {}
    BY PickedNone DEF IsInjective
  <2>3. Distinct'
    BY <1>1, <1>3, <2>1, <2>2 DEF Distinct
  <2>4. LeastLost'
    BY <1>3, <2>1, <2>2 DEF LeastLost
  <2> QED
    BY <2>3, <2>4
<1>9. ASSUME others # {} PROVE Distinct' /\ LeastLost'
  <2> SUFFICES ASSUME NEW m \in 1 .. N, m = Min(others) PROVE Distinct' /\ LeastLost'
    BY <1>6, <1>7, <1>9
  <2>1. got = <<s[m]>> /\ s[m] \in members /\ s[m] # x /\ \A j \in others : m <= j
    BY <1>5, <1>6, <1>7, <1>9
  <2>2. ToSet(got) = {s[m]} /\ IsInjective(got) /\ got # <<>>
    BY <2>1 DEF ToSet, IsInjective
  <2> HIDE DEF got
  <2>3. Distinct'
    <3>1. x # 0
      BY BalancerPickAssumption
    <3> QED
      BY <1>1, <1>3, <2>1, <2>2, <3>1 DEF Distinct
  <2>4. LeastLost'
    <3> SUFFICES ASSUME strategy' = "leastLoss", HasLossSignal', NEW q \in members \ {s[m], x}
                 PROVE  LossScore(s[m]) <= LossScore(q)
      BY <1>1, <1>3, <2>2, SameLoss DEF LeastLost
    <3>1. strategy = "leastLoss" /\ HasLossSignal /\ s \in Orders(1)
      BY <1>1, SameLoss
    <3>2. PICK j \in 1 .. N : q = s[j]
      BY <1>5
    <3>3. m <= j
      BY <1>6, <2>1, <3>2
    <3> QED
      BY <1>1, <3>1, <3>2, <3>3, OrdersListed DEF N
  <2> QED
    BY <2>3, <2>4
<1>10. PickType'
  BY <1>1 DEF PickType, NoneServed
<1>11. (PickType /\ served = NoneServed => Window)'
  BY NoneServedYet, PTL
<1>12. Window'
  BY <1>1, <1>10, <1>11 DEF NoneServed
<1> QED
  BY <1>8, <1>9, <1>10, <1>12 DEF PickInv

LEMMA PickInvStep == PickInv /\ [PickNext]_pickVars => PickInv'
<1> SUFFICES ASSUME PickInv, [PickNext]_pickVars PROVE PickInv'
  OBVIOUS
<1>1. CASE UNCHANGED pickVars
  <2>1. PickType' /\ Window'
    BY <1>1 DEF PickInv, PickType, pickVars, Window, Behind, Reached, Ordered
  <2>2. Distinct'
    BY <1>1 DEF PickInv, pickVars, Distinct, Want
  <2>3. LeastLost'
    BY <1>1, SameLoss DEF PickInv, pickVars, LeastLost
  <2> QED
    BY <2>1, <2>2, <2>3 DEF PickInv
<1>2. CASE PickNext
  BY <1>2, ReportKeeps, MembersKeep, GetUniqueKeeps, GetExcludingKeeps DEF PickNext
<1> QED
  BY <1>1, <1>2

\* In every pick the resolvers are right, and round robin serves all alike.
LEMMA PickInvSound == PickInv => PickSound
<1> SUFFICES ASSUME PickInv PROVE ServedAlike /\ LossBounded
  BY DEF PickInv, PickSound
<1>1. PickType /\ Window
  BY DEF PickInv
<1>2. ServedAlike
  <2> SUFFICES ASSUME strategy = "roundRobin", NEW q \in members, NEW r \in members
               PROVE  served[q] <= served[r] + 1
    BY DEF ServedAlike
  <2>1. \A p \in members : \E i \in 1 .. Cardinality(members) : Ordered[i] = p
    BY <1>1, OrderedListed DEF Listing
  <2>2. served[q] \in {0, 1} /\ served[r] \in {0, 1}
    BY <1>1, <2>1 DEF Window
  <2> QED
    BY <2>2
<1>3. LossBounded
  <2>1. HalfLife \in Nat
    BY BalancerPickAssumption
  <2>2. \A r \in 1 .. Paths : sends[r] <= HalfLife /\ answers[r] <= HalfLife
    BY <1>1, <2>1 DEF PickType
  <2> QED
    BY <1>1, <2>2, LossOfThousand DEF LossBounded
<1> QED
  BY <1>2, <1>3

\* Whatever strategy picks among the resolvers, it picks as many as were asked for, or
\* all there are, no one twice and none that is excluded; of round robin nobody is
\* served twice before all the others; by the loss nobody is left out that lost less;
\* and a loss is a share of a whole, for as long as the program runs.
THEOREM PicksAreSound == PickInit /\ [][PickNext]_pickVars => []PickSound
<1>1. PickInit /\ [][PickNext]_pickVars => []PickInv
  BY PickInvInit, PickInvStep, PTL
<1> QED
  BY <1>1, PickInvSound, PTL

-----------------------------------------------------------------------------
(* The record types that are chosen.                                        *)

\* Of finitely many, one comes first in an order that is total but for ties.
LEMMA OneComesFirst ==
    ASSUME NEW S, IsFiniteSet(S), S # {}, NEW R,
           \A i \in S : <<i, i>> \in R,
           \A i, j \in S : <<i, j>> \in R \/ <<j, i>> \in R,
           \A i, j, k \in S : <<i, j>> \in R /\ <<j, k>> \in R => <<i, k>> \in R
    PROVE  \E i \in S : \A j \in S : <<i, j>> \in R
<1> DEFINE B(i) == {j \in S : <<j, i>> \in R}
           sizes == {Cardinality(B(i)) : i \in S}
<1>1. \A i \in S : IsFiniteSet(B(i)) /\ Cardinality(B(i)) \in Nat
  BY FS_Subset, FS_CardinalityType
<1>2. sizes \in SUBSET Nat /\ sizes # {}
  <2> HIDE DEF B
  <2> QED
    BY <1>1
<1>3. \E n \in sizes : \A m \in sizes : n <= m
  <2> HIDE DEF sizes
  <2> QED
    BY <1>2, LeastOf
<1>4. PICK i \in S : \A j \in S : Cardinality(B(i)) <= Cardinality(B(j))
  <2> HIDE DEF B
  <2> QED
    BY <1>3
<1>5. ASSUME NEW j \in S PROVE <<i, j>> \in R
  <2> SUFFICES ASSUME <<i, j>> \notin R PROVE FALSE
    OBVIOUS
  <2>1. <<j, i>> \in R
    OBVIOUS
  <2>2. B(j) \in SUBSET B(i) /\ i \in B(i) /\ i \notin B(j)
    BY <2>1
  <2>3. Cardinality(B(j)) <= Cardinality(B(i)) /\ Cardinality(B(j)) # Cardinality(B(i))
    BY <1>1, <2>2, FS_Subset
  <2>4. Cardinality(B(i)) <= Cardinality(B(j))
    BY <1>4
  <2> HIDE DEF B
  <2> QED
    BY <1>1, <2>3, <2>4
<1> QED
  BY <1>5

\* Which of two fractions is the larger is an order.
LEMMA Fractions ==
    ASSUME NEW a \in Nat, NEW c \in Nat, NEW e \in Nat,
           NEW b \in Nat \ {0}, NEW d \in Nat \ {0}, NEW f \in Nat \ {0},
           a * d <= c * b, c * f <= e * d
    PROVE  a * f <= e * b
OBVIOUS

CarriersType ==
    /\ uses \in [Kinds -> 0 .. MaxUses] /\ answersOf \in [Kinds -> 0 .. MaxUses]
    /\ rotation \in Seq(Kinds) /\ Len(rotation) <= Types * MaxWeight
    /\ Len(rotation) > 0 /\ chosen \in Kinds \cup {0} /\ spurned \in [Kinds -> Nat]

\* What the counts are.
LEMMA CountsOf ==
    ASSUME CarriersType, NEW t \in Kinds
    PROVE  uses[t] \in Nat /\ answersOf[t] \in Nat /\ Delivery(t) \in Nat /\ Slowness(t) \in Nat \ {0}
<1>1. uses[t] \in Nat /\ answersOf[t] \in Nat /\ uses[t] + 6 \in Nat \ {0}
  <2>1. MaxUses \in Nat
    BY CarrierRotationAssumption
  <2>2. uses[t] \in 0 .. MaxUses /\ answersOf[t] \in 0 .. MaxUses
    BY DEF CarriersType
  <2> QED
    BY <2>1, <2>2
<1>2. RTTs[t] \in Nat \ {0}
  BY CarrierRotationAssumption DEF Kinds
<1>3. \A x, y \in Nat \ {0} : x * y \in Nat \ {0}
  OBVIOUS
<1> QED
  BY <1>1, <1>2, <1>3 DEF Delivery, Slowness

\* The types are finitely many.
LEMMA KindsFinite == /\ Types \in Nat \ {0, 1} /\ MaxWeight \in Nat \ {0} /\ MinSamples \in Nat \ {0}
                     /\ MaxUses \in Nat /\ IsFiniteSet(Kinds) /\ Cardinality(Kinds) = Types
<1>1. Types \in Nat \ {0, 1} /\ MaxWeight \in Nat \ {0} /\ MinSamples \in Nat \ {0} /\ MaxUses \in Nat
  BY CarrierRotationAssumption
<1> QED
  BY <1>1, CountTo DEF Kinds

\* Of the types that are kept one is the best.
LEMMA BestIsKept == ASSUME CarriersType, KeptTypes # {} PROVE BestKept \in KeptTypes
<1> DEFINE R == {p \in KeptTypes \X KeptTypes : Delivery(p[2]) * Slowness(p[1]) <= Delivery(p[1]) * Slowness(p[2])}
<1>1. KeptTypes \in SUBSET Kinds /\ IsFiniteSet(KeptTypes)
  BY KindsFinite, FS_Subset DEF KeptTypes
<1>2. \A t, u \in KeptTypes : <<t, u>> \in R <=> Delivery(u) * Slowness(t) <= Delivery(t) * Slowness(u)
  OBVIOUS
<1> HIDE DEF R
<1>3. \A t \in KeptTypes : Delivery(t) \in Nat /\ Slowness(t) \in Nat \ {0}
  BY <1>1, CountsOf
<1>4. \A t, u \in KeptTypes : Delivery(u) * Slowness(t) \in Nat
  BY <1>3
<1>5. /\ \A t \in KeptTypes : <<t, t>> \in R
      /\ \A t, u \in KeptTypes : <<t, u>> \in R \/ <<u, t>> \in R
  BY <1>2, <1>4
<1>6. ASSUME NEW t \in KeptTypes, NEW u \in KeptTypes, NEW v \in KeptTypes,
             <<t, u>> \in R, <<u, v>> \in R
      PROVE  <<t, v>> \in R
  <2>1. Delivery(u) * Slowness(t) <= Delivery(t) * Slowness(u)
    BY <1>2, <1>6
  <2>2. Delivery(v) * Slowness(u) <= Delivery(u) * Slowness(v)
    BY <1>2, <1>6
  <2>3. Delivery(v) * Slowness(t) <= Delivery(t) * Slowness(v)
    BY <1>3, <2>1, <2>2, Fractions
  <2> QED
    BY <1>2, <2>3
<1>7. \E t \in KeptTypes : \A u \in KeptTypes : <<t, u>> \in R
  BY <1>1, <1>5, <1>6, OneComesFirst
<1>8. PICK t \in KeptTypes : \A u \in KeptTypes : <<t, u>> \in R
  BY <1>7
<1>9. ASSUME NEW u \in KeptTypes PROVE ~Better(u, t)
  <2>1. Delivery(u) * Slowness(t) <= Delivery(t) * Slowness(u)
    BY <1>2, <1>8
  <2>2. Delivery(u) * Slowness(t) \in Nat /\ Delivery(t) * Slowness(u) \in Nat
    BY <1>4
  <2> QED
    BY <2>1, <2>2 DEF Better
<1> QED
  BY <1>9 DEF BestKept

\* When none is kept there is one to send with all the same.
LEMMA LeastBadIsOne == ASSUME CarriersType PROVE LeastBad \in Kinds
<1> DEFINE used == {t \in Kinds : uses[t] > 0}
           R == {p \in used \X used : ~HigherRate(p[2], p[1])}
<1>1. 1 \in Kinds
  BY KindsFinite DEF Kinds
<1>2. CASE used = {}
  BY <1>1, <1>2 DEF LeastBad
<1>3. CASE used # {}
  <2>1. used \in SUBSET Kinds /\ IsFiniteSet(used)
    BY KindsFinite, FS_Subset
  <2>2. \A t, u \in used : <<t, u>> \in R <=> ~HigherRate(u, t)
    OBVIOUS
  <2>3. \A t \in used : answersOf[t] \in Nat /\ uses[t] \in Nat \ {0} /\ t \in Nat
    BY <2>1, CountsOf, KindsFinite DEF Kinds
  <2> HIDE DEF R, used
  <2>4. \A t, u \in used : answersOf[t] * uses[u] \in Nat
    BY <2>3
  <2>5. \A t, u \in used : <<t, u>> \in R <=> answersOf[u] * uses[t] <= answersOf[t] * uses[u]
    <3> TAKE t, u \in used
    <3>1. answersOf[u] * uses[t] \in Nat /\ answersOf[t] * uses[u] \in Nat
      BY <2>4
    <3>2. HigherRate(u, t) <=> answersOf[u] * uses[t] > answersOf[t] * uses[u]
      BY DEF HigherRate
    <3> QED
      BY <2>2, <3>1, <3>2
  <2>6. /\ \A t \in used : <<t, t>> \in R
        /\ \A t, u \in used : <<t, u>> \in R \/ <<u, t>> \in R
    BY <2>4, <2>5
  <2>7. ASSUME NEW t \in used, NEW u \in used, NEW v \in used, <<t, u>> \in R, <<u, v>> \in R
        PROVE  <<t, v>> \in R
    <3>1. answersOf[u] * uses[t] <= answersOf[t] * uses[u]
      BY <2>5, <2>7
    <3>2. answersOf[v] * uses[u] <= answersOf[u] * uses[v]
      BY <2>5, <2>7
    <3>3. answersOf[v] * uses[t] <= answersOf[t] * uses[v]
      BY <2>3, <3>1, <3>2, Fractions
    <3> QED
      BY <2>5, <3>3
  <2>8. PICK b \in used : \A u \in used : <<b, u>> \in R
    BY <1>3, <2>1, <2>6, <2>7, OneComesFirst
  <2> DEFINE A == {t \in used : <<t, b>> \in R}
  <2>9. A \in SUBSET Nat /\ A # {}
    BY <2>3, <2>6
  <2>10. \E t \in A : \A u \in A : t <= u
    <3> HIDE DEF A
    <3> QED
      BY <2>9, LeastOf
  <2>11. PICK t \in A : \A u \in A : t <= u
    BY <2>10
  <2>12. \A u \in used : <<t, u>> \in R
    BY <2>7, <2>8
  <2>13. ASSUME NEW u \in used \ {t}, ~HigherRate(t, u) PROVE ~HigherRate(u, t) /\ t < u
    <3>1. <<u, t>> \in R
      BY <2>2, <2>13
    <3>2. u \in A
      BY <2>7, <3>1
    <3>3. t <= u /\ t \in Nat /\ u \in Nat
      BY <2>3, <2>11, <3>2
    <3>4. t \in used /\ <<t, u>> \in R /\ t # u
      BY <2>12, <2>13
    <3>5. t < u
      BY <3>3, <3>4
    <3> QED
      BY <2>2, <3>4, <3>5
  <2>14. t \in used /\ \A u \in used \ {t} : HigherRate(t, u) \/ (~HigherRate(u, t) /\ t < u)
    BY <2>13
  <2>15. LeastBad = CHOOSE x \in used : \A u \in used \ {x} : HigherRate(x, u) \/ (~HigherRate(u, x) /\ x < u)
    BY <1>3, Zenon DEF LeastBad, used
  <2> QED
    BY <2>1, <2>14, <2>15
<1> QED
  BY <1>2, <1>3

\* A type that is kept has a weight.
LEMMA WeightOfKept == ASSUME CarriersType, NEW t \in KeptTypes PROVE Weight(t) \in 1 .. MaxWeight
<1>1. MaxWeight \in Nat \ {0}
  BY KindsFinite
<1>2. KeptTypes \in SUBSET Kinds /\ BestKept \in KeptTypes
  BY BestIsKept DEF KeptTypes
<1>3. /\ Delivery(t) \in Nat /\ Slowness(t) \in Nat \ {0}
      /\ Delivery(BestKept) \in Nat \ {0} /\ Slowness(BestKept) \in Nat
  <2>1. answersOf[BestKept] \in Nat /\ Slowness(BestKept) \in Nat
    BY <1>2, CountsOf
  <2>2. Delivery(BestKept) \in Nat \ {0}
    BY <2>1 DEF Delivery
  <2> QED
    BY <1>2, <2>1, <2>2, CountsOf
<1> DEFINE most == Delivery(BestKept) * Slowness(t)
           share == 2 * MaxWeight * Delivery(t) * Slowness(BestKept) + most
           w == share \div (2 * most)
<1>4. most \in Nat \ {0} /\ share \in Nat
  <2>1. \A x, y \in Nat \ {0} : x * y \in Nat \ {0}
    OBVIOUS
  <2>2. most \in Nat \ {0}
    BY <1>3, <2>1
  <2>3. \A x, y \in Nat : x * y \in Nat
    OBVIOUS
  <2>4. 2 * MaxWeight * Delivery(t) * Slowness(BestKept) \in Nat
    <3>1. 2 * MaxWeight \in Nat
      BY <1>1
    <3>2. 2 * MaxWeight * Delivery(t) \in Nat
      BY <1>3, <2>3, <3>1
    <3> QED
      BY <1>3, <2>3, <3>2
  <2> HIDE DEF most
  <2> QED
    BY <2>2, <2>4
<1>5. w \in Int
  <2> HIDE DEF most, share
  <2>1. 2 * most \in Nat \ {0}
    BY <1>4
  <2> QED
    BY <1>4, <2>1
<1>6. Weight(t) = IF \E u \in KeptTypes : ~Mature(u) THEN 1
                  ELSE IF w < 1 THEN 1 ELSE IF w > MaxWeight THEN MaxWeight ELSE w
  BY DEF Weight
<1> HIDE DEF w
<1> QED
  BY <1>1, <1>5, <1>6

\* Every place is of a type, and every type has a first place.
LEMMA TypeSlotsOf ==
    /\ TypeSlots \in Seq(Kinds) /\ Len(TypeSlots) = Types * MaxWeight
    /\ \A t \in Kinds : \E x \in 1 .. Types * MaxWeight : TypeSlots[x] = t /\ (x - 1) % MaxWeight = 0
<1> DEFINE W == MaxWeight
           all == Types * W
<1>1. Types \in Nat \ {0} /\ W \in Nat \ {0}
  BY KindsFinite
<1>2. all \in Nat
  BY <1>1
<1>3. \A x \in 1 .. all : ((x - 1) \div W) + 1 \in Kinds
  <2> HIDE DEF W
  <2>1. ASSUME NEW x \in 1 .. all PROVE ((x - 1) \div W) + 1 \in 1 .. Types
    BY <1>1
  <2> QED
    BY <2>1 DEF Kinds
<1>4. TypeSlots \in Seq(Kinds) /\ Len(TypeSlots) = all
  <2> DEFINE place(x) == ((x - 1) \div W) + 1
  <2>1. TypeSlots = [x \in 1 .. all |-> place(x)]
    BY DEF TypeSlots
  <2> HIDE DEF place, all
  <2>2. \A x \in 1 .. all : place(x) \in Kinds
    BY <1>3 DEF place
  <2> QED
    BY <1>2, <2>1, <2>2
<1>5. ASSUME NEW t \in Kinds PROVE \E x \in 1 .. all : TypeSlots[x] = t /\ (x - 1) % W = 0
  <2> SUFFICES ASSUME NEW x \in Int, x = (t - 1) * W + 1
               PROVE  x \in 1 .. all /\ ((x - 1) \div W) + 1 = t /\ (x - 1) % W = 0
    <3>1. (t - 1) * W + 1 \in Int
      BY <1>1 DEF Kinds
    <3> QED
      BY <3>1 DEF TypeSlots
  <2>1. t \in 1 .. Types
    BY DEF Kinds
  <2> HIDE DEF W
  <2>2. x \in 1 .. all
    BY <1>1, <2>1
  <2>3. ((x - 1) \div W) + 1 = t
    BY <1>1, <2>1
  <2>4. (x - 1) % W = 0
    BY <1>1, <2>1
  <2> QED
    BY <2>2, <2>3, <2>4
<1> QED
  BY <1>4, <1>5

\* There is always a type to send with, and a type that is kept is one of them: what
\* is left out has been used often enough to be judged.
LEMMA RotationOf ==
    ASSUME CarriersType
    PROVE  /\ NewRotation \in Seq(Kinds) /\ Len(NewRotation) \in 1 .. Types * MaxWeight
           /\ \A t \in Kinds : t \notin ToSet(NewRotation) => Mature(t)
<1>1. Types \in Nat \ {0} /\ MaxWeight \in Nat \ {0} /\ Types * MaxWeight \in Nat \ {0}
  <2>1. Types \in Nat \ {0} /\ MaxWeight \in Nat \ {0}
    BY KindsFinite
  <2> QED
    BY <2>1
<1>2. CASE KeptTypes = {}
  <2>1. NewRotation = <<LeastBad>> /\ LeastBad \in Kinds
    BY <1>2, LeastBadIsOne DEF NewRotation
  <2>2. \A t \in Kinds : Mature(t)
    BY <1>2 DEF KeptTypes, Keep
  <2> HIDE DEF NewRotation
  <2>3. NewRotation \in Seq(Kinds) /\ Len(NewRotation) = 1
    BY <2>1
  <2>4. 1 \in 1 .. Types * MaxWeight
    BY <1>1
  <2> QED
    BY <2>2, <2>3, <2>4
<1>3. CASE KeptTypes # {}
  <2>1. NewRotation = PickedAt(TypeSlots, SlotsUsed)
    BY <1>3 DEF NewRotation
  <2>2. TypeSlots \in Seq(Kinds) /\ Len(TypeSlots) = Types * MaxWeight /\ SlotsUsed \in SUBSET (1 .. Len(TypeSlots))
    BY TypeSlotsOf DEF SlotsUsed
  <2> DEFINE q == PickedAt(TypeSlots, SlotsUsed)
  <2>3. /\ IsFiniteSet(SlotsUsed) /\ Cardinality(SlotsUsed) \in Nat /\ Cardinality(SlotsUsed) <= Len(TypeSlots)
        /\ q \in Seq(Kinds) /\ Len(q) = Cardinality(SlotsUsed)
        /\ \E from \in Bijection(1 .. Len(q), SlotsUsed) : \A k \in 1 .. Len(q) : q[k] = TypeSlots[from[k]]
    BY <2>2, PickedProperties
  <2> HIDE DEF q
  <2>4. PICK from \in Bijection(1 .. Len(q), SlotsUsed) : \A k \in 1 .. Len(q) : q[k] = TypeSlots[from[k]]
    BY <2>3
  <2>5. \A x \in SlotsUsed : \E k \in 1 .. Len(q) : from[k] = x
    BY <2>4 DEF Bijection, Surjection
  <2>6. \A x \in SlotsUsed : TypeSlots[x] \in ToSet(q)
    <3> TAKE x \in SlotsUsed
    <3>1. PICK k \in 1 .. Len(q) : from[k] = x
      BY <2>5
    <3>2. q[k] = TypeSlots[x] /\ k \in DOMAIN q
      BY <2>3, <2>4, <3>1
    <3> QED
      BY <3>2 DEF ToSet
  <2>7. ASSUME NEW t \in KeptTypes PROVE t \in ToSet(q)
    <3>1. t \in Kinds /\ Keep(t)
      BY DEF KeptTypes
    <3>2. PICK x \in 1 .. Types * MaxWeight : TypeSlots[x] = t /\ (x - 1) % MaxWeight = 0
      BY <3>1, TypeSlotsOf
    <3>3. Weight(t) \in 1 .. MaxWeight
      BY WeightOfKept
    <3>4. 0 < Weight(t)
      BY <3>3
    <3>5. x \in DOMAIN TypeSlots
      BY <2>2, <3>2
    <3>6. x \in SlotsUsed
      BY <3>1, <3>2, <3>4, <3>5 DEF SlotsUsed
    <3> QED
      BY <2>6, <3>2, <3>6
  <2>8. Len(q) # 0
    <3>1. PICK t \in KeptTypes : TRUE
      BY <1>3
    <3>2. t \in ToSet(q)
      BY <2>7
    <3> QED
      BY <2>3, <3>2 DEF ToSet
  <2>9. \A t \in Kinds : t \notin ToSet(q) => Mature(t)
    BY <2>7 DEF KeptTypes, Keep
  <2>10. Len(q) \in 1 .. Types * MaxWeight
    BY <1>1, <2>2, <2>3, <2>8
  <2> QED
    BY <2>1, <2>3, <2>9, <2>10 DEF q
<1> QED
  BY <1>2, <1>3

\* What halving does.
LEMMA HalfOfNat ==
    ASSUME NEW n \in Nat
    PROVE  /\ n \div 2 \in Nat /\ n \div 2 <= n /\ (n > 0 => n \div 2 < n)
           /\ (n + 1) \div 2 = n \div 2 \/ (n + 1) \div 2 = (n \div 2) + 1
           /\ \A m \in Nat : m <= n => m \div 2 <= n \div 2
OBVIOUS

\* f follows the rule of Fade at m.
FadesAt(f, m) == f[m] = IF m < MinSamples THEN 0 ELSE 1 + f[m \div 2]

\* Up to any number there is a function that does.
LEMMA FadeUpTo ==
    ASSUME NEW n \in Nat
    PROVE  \E f \in [0 .. n -> Nat] : \A m \in 0 .. n : FadesAt(f, m)
<1> DEFINE ok(k) == \E f \in [0 .. k -> Nat] : \A m \in 0 .. k : FadesAt(f, m)
           bad == {k \in Nat : ~ok(k)}
<1> SUFFICES ASSUME bad # {} PROVE FALSE
  OBVIOUS
<1>1. PICK k \in bad : \A j \in bad : k <= j
  <2>1. bad \in SUBSET Nat
    OBVIOUS
  <2> HIDE DEF bad
  <2> QED
    BY <2>1, LeastOf
<1>2. k \in Nat /\ ~ok(k) /\ MinSamples \in Nat \ {0}
  BY KindsFinite
<1>3. CASE k = 0
  <2> DEFINE f == [m \in 0 .. 0 |-> 0]
  <2>1. f \in [0 .. 0 -> Nat] /\ \A m \in 0 .. 0 : f[m] = 0 /\ m < MinSamples
    BY <1>2
  <2> HIDE DEF f
  <2>2. \A m \in 0 .. 0 : FadesAt(f, m)
    BY <2>1 DEF FadesAt
  <2> QED
    BY <1>2, <1>3, <2>1, <2>2
<1>4. CASE k > 0
  <2>1. k - 1 \in Nat /\ ~(k <= k - 1)
    BY <1>2, <1>4
  <2>2. ok(k - 1)
    BY <1>1, <2>1
  <2>3. PICK f \in [0 .. k - 1 -> Nat] : \A m \in 0 .. k - 1 : FadesAt(f, m)
    BY <2>2
  <2> DEFINE g == [m \in 0 .. k |-> IF m < k THEN f[m]
                                    ELSE IF k < MinSamples THEN 0 ELSE 1 + f[k \div 2]]
  <2>4. k \div 2 \in 0 .. k - 1
    BY <1>2, <1>4, HalfOfNat
  <2>5. g \in [0 .. k -> Nat]
    <3>1. \A m \in 0 .. k : m < k => m \in 0 .. k - 1
      BY <1>2
    <3> QED
      BY <2>3, <2>4, <3>1
  <2>6. ASSUME NEW m \in 0 .. k PROVE FadesAt(g, m)
    <3>1. CASE m = k
      <4>1. g[k] = IF k < MinSamples THEN 0 ELSE 1 + f[k \div 2]
        BY <1>2
      <4>2. g[k \div 2] = f[k \div 2]
        BY <1>2, <2>4
      <4> HIDE DEF g
      <4> QED
        BY <3>1, <4>1, <4>2 DEF FadesAt
    <3>2. CASE m # k
      <4>1. m \in 0 .. k - 1 /\ m \in Nat
        BY <1>2, <3>2
      <4>2. m \div 2 \in 0 .. k - 1
        BY <1>2, <4>1, HalfOfNat
      <4>3. g[m] = f[m] /\ g[m \div 2] = f[m \div 2]
        BY <1>2, <4>1, <4>2
      <4> HIDE DEF g
      <4> QED
        BY <2>3, <4>1, <4>3 DEF FadesAt
    <3> QED
      BY <3>1, <3>2
  <2> HIDE DEF g
  <2>7. ok(k)
    BY <2>5, <2>6
  <2> QED
    BY <1>2, <2>7
<1> QED
  BY <1>2, <1>3, <1>4

\* Two that do agree.
FadesTo(f, n) == f \in [0 .. n -> Nat] /\ \A m \in 0 .. n : FadesAt(f, m)

LEMMA FadeOnce ==
    ASSUME NEW n \in Nat, NEW f, FadesTo(f, n), NEW l \in Nat, NEW g, FadesTo(g, l)
    PROVE  \A m \in Nat : m <= n /\ m <= l => f[m] = g[m]
<1>0. /\ f \in [0 .. n -> Nat] /\ \A m \in 0 .. n : FadesAt(f, m)
      /\ g \in [0 .. l -> Nat] /\ \A m \in 0 .. l : FadesAt(g, m)
  BY DEF FadesTo
<1> DEFINE bad == {m \in Nat : m <= n /\ m <= l /\ f[m] # g[m]}
<1> SUFFICES ASSUME bad # {} PROVE FALSE
  OBVIOUS
<1>1. PICK k \in bad : \A j \in bad : k <= j
  <2>1. bad \in SUBSET Nat
    OBVIOUS
  <2> HIDE DEF bad
  <2> QED
    BY <2>1, LeastOf
<1>2. k \in Nat /\ k <= n /\ k <= l /\ f[k] # g[k] /\ MinSamples \in Nat \ {0}
  BY KindsFinite
<1>3. FadesAt(f, k) /\ FadesAt(g, k)
  BY <1>0, <1>2
<1>4. k >= MinSamples /\ f[k \div 2] # g[k \div 2]
  BY <1>2, <1>3 DEF FadesAt
<1>5. k \div 2 \in Nat /\ k \div 2 < k
  BY <1>2, <1>4, HalfOfNat
<1>6. k \div 2 \in bad
  BY <1>2, <1>4, <1>5
<1> HIDE DEF bad
<1> QED
  BY <1>1, <1>2, <1>5, <1>6

\* So there is one for all numbers: Fade.
LEMMA FadeIs == \A n \in Nat : Fade[n] = IF n < MinSamples THEN 0 ELSE 1 + Fade[n \div 2]
<1> DEFINE upto(n) == CHOOSE f \in [0 .. n -> Nat] : \A m \in 0 .. n : FadesAt(f, m)
           G == [n \in Nat |-> upto(n)[n]]
<1>1. \A n \in Nat : upto(n) \in [0 .. n -> Nat] /\ \A m \in 0 .. n : FadesAt(upto(n), m)
  BY FadeUpTo
<1> HIDE DEF upto
<1>2. ASSUME NEW n \in Nat PROVE G[n] = IF n < MinSamples THEN 0 ELSE 1 + G[n \div 2]
  <2>1. FadesAt(upto(n), n)
    BY <1>1
  <2>2. n \div 2 \in Nat /\ n \div 2 <= n
    BY HalfOfNat
  <2>3. upto(n)[n \div 2] = upto(n \div 2)[n \div 2]
    <3> SUFFICES ASSUME NEW l \in Nat, l = n \div 2 PROVE upto(n)[l] = upto(l)[l]
      BY <2>2
    <3>1. /\ upto(n) \in [0 .. n -> Nat] /\ \A m \in 0 .. n : FadesAt(upto(n), m)
          /\ upto(l) \in [0 .. l -> Nat] /\ \A m \in 0 .. l : FadesAt(upto(l), m)
      BY <1>1
    <3>2. l <= n /\ l <= l
      BY <2>2
    <3>3. FadesTo(upto(n), n) /\ FadesTo(upto(l), l)
      BY <3>1 DEF FadesTo
    <3>4. ASSUME NEW f, FadesTo(f, n), NEW g, FadesTo(g, l) PROVE f[l] = g[l]
      <4>1. \A m \in Nat : m <= n /\ m <= l => f[m] = g[m]
        BY <3>4, FadeOnce
      <4> QED
        BY <3>2, <4>1
    <3> QED
      BY <3>3, <3>4
  <2> QED
    BY <2>1, <2>2, <2>3 DEF FadesAt
<1> DEFINE rule(f) == [n \in Nat |-> IF n < MinSamples THEN 0 ELSE 1 + f[n \div 2]]
<1>3. G = rule(G)
  <2>1. DOMAIN G = Nat /\ G = [n \in Nat |-> G[n]]
    OBVIOUS
  <2> HIDE DEF G
  <2> QED
    BY <1>2, <2>1
<1> HIDE DEF G
<1>4. Fade = CHOOSE f : f = rule(f)
  BY Zenon DEF Fade
<1>5. Fade = rule(Fade)
  <2> HIDE DEF rule
  <2> QED
    BY <1>3, <1>4
<1> QED
  BY <1>5

LEMMA FadeNat == \A n \in Nat : Fade[n] \in Nat
<1> DEFINE bad == {m \in Nat : Fade[m] \notin Nat}
<1> SUFFICES ASSUME bad # {} PROVE FALSE
  OBVIOUS
<1>1. PICK k \in bad : \A j \in bad : k <= j
  <2>1. bad \in SUBSET Nat
    OBVIOUS
  <2> HIDE DEF bad
  <2> QED
    BY <2>1, LeastOf
<1>2. k \in Nat /\ Fade[k] \notin Nat /\ MinSamples \in Nat \ {0}
  BY KindsFinite
<1>3. k >= MinSamples /\ Fade[k] = 1 + Fade[k \div 2]
  BY <1>2, FadeIs
<1>4. k \div 2 \in Nat /\ k \div 2 < k
  BY <1>2, <1>3, HalfOfNat
<1>5. Fade[k \div 2] \in Nat
  BY <1>1, <1>2, <1>4
<1> QED
  BY <1>2, <1>3, <1>5

\* A larger count takes no less to fade, and one more takes at most one more.
LEMMA FadeGrows ==
    /\ \A m \in Nat : \A n \in Nat : n <= m => Fade[n] <= Fade[m]
    /\ \A n \in Nat : Fade[n + 1] <= Fade[n] + 1
<1>1. MinSamples \in Nat \ {0} /\ \A n \in Nat : Fade[n] \in Nat
  BY KindsFinite, FadeNat
<1>2. ASSUME NEW S \in SUBSET Nat, \A m \in Nat : (\A n \in Nat : n < m => n \in S) => m \in S
      PROVE  S = Nat
  <2> SUFFICES ASSUME Nat \ S # {} PROVE FALSE
    OBVIOUS
  <2>1. PICK k \in Nat \ S : \A j \in Nat \ S : k <= j
    BY LeastOf
  <2>2. \A n \in Nat : n < k => n \in S
    BY <2>1
  <2> QED
    BY <1>2, <2>1, <2>2
<1>3. \A m \in Nat : \A n \in Nat : n <= m => Fade[n] <= Fade[m]
  <2> DEFINE S == {m \in Nat : \A n \in Nat : n <= m => Fade[n] <= Fade[m]}
  <2>1. ASSUME NEW m \in Nat, \A n \in Nat : n < m => n \in S, NEW n \in Nat, n <= m
        PROVE  Fade[n] <= Fade[m]
    <3>1. CASE n < MinSamples
      <4>1. Fade[n] = 0
        BY <3>1, FadeIs
      <4> QED
        BY <1>1, <4>1
    <3>2. CASE n >= MinSamples
      <4>1. Fade[n] = 1 + Fade[n \div 2] /\ Fade[m] = 1 + Fade[m \div 2]
        BY <1>1, <2>1, <3>2, FadeIs
      <4>2. n \div 2 \in Nat /\ m \div 2 \in Nat /\ m \div 2 < m /\ n \div 2 <= m \div 2
        BY <1>1, <2>1, <3>2, HalfOfNat
      <4>3. Fade[n \div 2] <= Fade[m \div 2]
        BY <2>1, <4>2
      <4> QED
        BY <1>1, <4>1, <4>2, <4>3
    <3> QED
      BY <1>1, <3>1, <3>2
  <2>2. \A m \in Nat : (\A n \in Nat : n < m => n \in S) => m \in S
    BY <2>1
  <2> HIDE DEF S
  <2>3. S = Nat
    BY <1>2, <2>2 DEF S
  <2> QED
    BY <2>3 DEF S
<1>4. \A n \in Nat : Fade[n + 1] <= Fade[n] + 1
  <2> DEFINE S == {n \in Nat : Fade[n + 1] <= Fade[n] + 1}
  <2>1. ASSUME NEW n \in Nat, \A m \in Nat : m < n => m \in S
        PROVE  Fade[n + 1] <= Fade[n] + 1
    <3>1. CASE n + 1 < MinSamples
      <4>1. Fade[n + 1] = 0
        BY <3>1, FadeIs
      <4> QED
        BY <1>1, <4>1
    <3>2. CASE n + 1 = MinSamples
      <4>1. Fade[n + 1] = 1 + Fade[(n + 1) \div 2] /\ (n + 1) \div 2 \in Nat /\ (n + 1) \div 2 < n + 1
        BY <1>1, <3>2, FadeIs, HalfOfNat
      <4>2. Fade[(n + 1) \div 2] = 0
        BY <3>2, <4>1, FadeIs
      <4> QED
        BY <1>1, <4>1, <4>2
    <3>3. CASE n >= MinSamples
      <4>1. Fade[n + 1] = 1 + Fade[(n + 1) \div 2] /\ Fade[n] = 1 + Fade[n \div 2]
        BY <1>1, <3>3, FadeIs
      <4>2. n \div 2 \in Nat /\ n \div 2 < n /\ (n + 1) \div 2 \in {n \div 2, (n \div 2) + 1}
        BY <1>1, <3>3, HalfOfNat
      <4>3. Fade[(n \div 2) + 1] <= Fade[n \div 2] + 1
        BY <2>1, <4>2
      <4>4. Fade[(n + 1) \div 2] <= Fade[n \div 2] + 1
        <5>1. Fade[n \div 2] \in Nat
          BY <1>1, <4>2
        <5> QED
          BY <4>2, <4>3, <5>1
      <4>5. Fade[(n + 1) \div 2] \in Nat /\ Fade[n \div 2] \in Nat
        BY <1>1, <4>2
      <4> QED
        BY <4>1, <4>4, <4>5
    <3> QED
      BY <1>1, <3>1, <3>2, <3>3
  <2>2. \A m \in Nat : (\A n \in Nat : n < m => n \in S) => m \in S
    BY <2>1
  <2> HIDE DEF S
  <2>3. S = Nat
    BY <1>2, <2>2 DEF S
  <2> QED
    BY <2>3 DEF S
<1> QED
  BY <1>3, <1>4

\* A type that is out of the rotation has as many evaluations to wait as its count takes
\* to fade, and one more for a sender that took it before.
Waits ==
    \A t \in Kinds : spurned[t] > 0 =>
        /\ t \notin ToSet(rotation)
        /\ spurned[t] + Fade[uses[t]] <= Fade[MaxUses] + (IF chosen = t THEN 0 ELSE 1)

CarriersInv == CarriersType /\ Waits

LEMMA CarriersInvInit == CarriersInit => CarriersInv
<1> SUFFICES ASSUME CarriersInit PROVE CarriersInv
  OBVIOUS
<1>1. /\ Types \in Nat \ {0, 1} /\ MaxWeight \in Nat \ {0} /\ MaxUses \in Nat
      /\ uses = [t \in Kinds |-> 0] /\ answersOf = uses /\ rotation = [t \in Kinds |-> t]
      /\ chosen = 0 /\ spurned = uses
  BY KindsFinite DEF CarriersInit
<1>2. rotation \in Seq(Kinds) /\ Len(rotation) = Types
  BY <1>1 DEF Kinds
<1>3. Types <= Types * MaxWeight
  BY <1>1
<1>4. CarriersType
  BY <1>1, <1>2, <1>3 DEF CarriersType
<1>5. Waits
  BY <1>1 DEF Waits
<1> QED
  BY <1>4, <1>5 DEF CarriersInv

LEMMA CarriersInvStep == CarriersInv /\ [CarriersNext]_carrierVars => CarriersInv'
<1> SUFFICES ASSUME CarriersInv, [CarriersNext]_carrierVars PROVE CarriersInv'
  OBVIOUS
<1>1. CarriersType /\ Waits /\ MaxUses \in Nat
  BY KindsFinite DEF CarriersInv
<1>2. CASE UNCHANGED carrierVars
  BY <1>1, <1>2 DEF carrierVars, CarriersInv, CarriersType, Waits
<1>3. CASE ChooseType
  <2>1. PICK n \in DOMAIN rotation : chosen' = rotation[n]
    BY <1>3 DEF ChooseType
  <2>2. /\ rotation[n] \in Kinds /\ rotation[n] \in ToSet(rotation)
        /\ chosen = 0 /\ UNCHANGED <<uses, answersOf, rotation, spurned>>
    BY <1>1, <1>3, <2>1 DEF ChooseType, CarriersType, ToSet
  <2>3. CarriersType'
    BY <1>1, <2>1, <2>2 DEF CarriersType
  <2>4. Waits'
    <3>1. \A t \in Kinds : spurned[t] > 0 => chosen # t /\ chosen' # t
      BY <1>1, <2>1, <2>2 DEF Waits, Kinds
    <3> QED
      BY <1>1, <2>2, <3>1 DEF Waits
  <2> QED
    BY <2>3, <2>4 DEF CarriersInv
<1>4. CASE UseType
  <2>1. /\ chosen \in Kinds /\ uses[chosen] < MaxUses /\ chosen' = 0
        /\ uses' = [uses EXCEPT ![chosen] = @ + 1]
        /\ UNCHANGED <<answersOf, rotation, spurned>>
    BY <1>1, <1>4 DEF UseType, CarriersType
  <2>2. uses[chosen] \in 0 .. MaxUses /\ uses[chosen] + 1 \in 0 .. MaxUses
    BY <1>1, <2>1 DEF CarriersType
  <2>3. CarriersType'
    BY <1>1, <2>1, <2>2 DEF CarriersType
  <2>4. Waits'
    <3> SUFFICES ASSUME NEW t \in Kinds, spurned[t] > 0
                 PROVE  /\ t \notin ToSet(rotation)
                        /\ spurned[t] + Fade[uses'[t]] <= Fade[MaxUses] + 1
      BY <2>1 DEF Waits, Kinds
    <3>1. /\ t \notin ToSet(rotation) /\ spurned[t] \in Nat /\ uses[t] \in Nat
          /\ spurned[t] + Fade[uses[t]] <= Fade[MaxUses] + (IF chosen = t THEN 0 ELSE 1)
      BY <1>1, CountsOf DEF Waits, CarriersType
    <3>2. Fade[uses[t]] \in Nat /\ Fade[uses[t] + 1] \in Nat /\ Fade[MaxUses] \in Nat
      BY <1>1, <3>1, FadeNat
    <3>3. CASE chosen = t
      <4>1. uses'[t] = uses[t] + 1
        BY <1>1, <2>1, <3>3 DEF CarriersType
      <4>2. Fade[uses[t] + 1] <= Fade[uses[t]] + 1
        BY <3>1, FadeGrows
      <4> QED
        BY <3>1, <3>2, <3>3, <4>1, <4>2
    <3>4. CASE chosen # t
      <4>1. uses'[t] = uses[t]
        BY <1>1, <2>1, <3>4 DEF CarriersType
      <4> QED
        BY <3>1, <3>2, <3>4, <4>1
    <3> QED
      BY <3>3, <3>4
  <2> QED
    BY <2>3, <2>4 DEF CarriersInv
<1>5. CASE Evaluate
  <2>1. /\ uses' = [t \in Kinds |-> uses[t] \div 2]
        /\ answersOf' = [t \in Kinds |-> answersOf[t] \div 2]
        /\ rotation' = NewRotation /\ UNCHANGED chosen
        /\ spurned' = [t \in Kinds |-> IF t \in ToSet(NewRotation) THEN 0 ELSE spurned[t] + 1]
    BY <1>5 DEF Evaluate, Fades
  <2>2. /\ NewRotation \in Seq(Kinds) /\ Len(NewRotation) \in 1 .. Types * MaxWeight
        /\ \A t \in Kinds : t \notin ToSet(NewRotation) => Mature(t)
    BY <1>1, RotationOf
  <2>3. \A n \in 0 .. MaxUses : n \div 2 \in 0 .. MaxUses
    BY <1>1
  <2>4. \A t \in Kinds : /\ uses[t] \in 0 .. MaxUses /\ answersOf[t] \in 0 .. MaxUses
                         /\ spurned[t] \in Nat
    BY <1>1 DEF CarriersType
  <2>5. CarriersType'
    <3>1. uses' \in [Kinds -> 0 .. MaxUses] /\ answersOf' \in [Kinds -> 0 .. MaxUses]
      BY <2>1, <2>3, <2>4
    <3>2. spurned' \in [Kinds -> Nat]
      <4>1. \A t \in Kinds : spurned[t] + 1 \in Nat
        BY <2>4
      <4> QED
        BY <2>1, <4>1
    <3>3. Len(NewRotation) > 0 /\ Len(NewRotation) <= Types * MaxWeight
      <4>1. Types * MaxWeight \in Nat
        BY KindsFinite
      <4> QED
        BY <2>2, <4>1
    <3>4. chosen' \in Kinds \cup {0}
      BY <1>1, <2>1 DEF CarriersType
    <3> QED
      BY <2>1, <2>2, <3>1, <3>2, <3>3, <3>4 DEF CarriersType
  <2>6. Waits'
    <3> SUFFICES ASSUME NEW t \in Kinds, spurned'[t] > 0
                 PROVE  /\ t \notin ToSet(NewRotation)
                        /\ spurned'[t] + Fade[uses'[t]] <= Fade[MaxUses] + (IF chosen = t THEN 0 ELSE 1)
      BY <2>1 DEF Waits
    <3>1. t \notin ToSet(NewRotation)
      BY <2>1
    <3>2. /\ spurned'[t] = spurned[t] + 1 /\ spurned[t] \in Nat
          /\ uses[t] \in Nat /\ uses[t] <= MaxUses /\ uses'[t] = uses[t] \div 2
          /\ uses[t] >= MinSamples
      BY <1>1, <2>1, <2>2, <2>4, <3>1 DEF Mature
    <3>3. Fade[uses[t]] = 1 + Fade[uses'[t]]
      <4>1. MinSamples \in Nat
        BY KindsFinite
      <4> QED
        BY <3>2, <4>1, FadeIs
    <3>4. /\ uses'[t] \in Nat /\ Fade[uses'[t]] \in Nat /\ Fade[uses[t]] \in Nat
          /\ Fade[MaxUses] \in Nat
      BY <1>1, <3>2, FadeNat, HalfOfNat
    <3>5. spurned[t] + Fade[uses[t]] <= Fade[MaxUses] + (IF chosen = t THEN 0 ELSE 1)
      <4>1. CASE spurned[t] > 0
        BY <1>1, <4>1 DEF Waits
      <4>2. CASE spurned[t] = 0
        <5>1. Fade[uses[t]] <= Fade[MaxUses]
          BY <1>1, <3>2, FadeGrows
        <5> QED
          BY <3>4, <4>2, <5>1
      <4> QED
        BY <3>2, <4>1, <4>2
    <3> QED
      BY <3>1, <3>2, <3>3, <3>4, <3>5
  <2> QED
    BY <2>5, <2>6 DEF CarriersInv
<1>6. ASSUME NEW t \in Kinds, RecordSuccess(t) PROVE CarriersInv'
  <2>1. /\ answersOf[t] < MaxUses /\ answersOf' = [answersOf EXCEPT ![t] = @ + 1]
        /\ UNCHANGED <<uses, rotation, chosen, spurned>>
    BY <1>6 DEF RecordSuccess
  <2>2. answersOf[t] + 1 \in 0 .. MaxUses
    BY <1>1, <2>1 DEF CarriersType
  <2>3. CarriersType'
    BY <1>1, <2>1, <2>2 DEF CarriersType
  <2>4. Waits'
    BY <1>1, <2>1 DEF Waits
  <2> QED
    BY <2>3, <2>4 DEF CarriersInv
<1> QED
  BY <1>2, <1>3, <1>4, <1>5, <1>6 DEF CarriersNext

LEMMA CarriersInvSound == CarriersInv => CarriersTypeOK /\ TriedAgain
<1> SUFFICES ASSUME CarriersInv PROVE CarriersTypeOK /\ TriedAgain
  OBVIOUS
<1>1. CarriersTypeOK /\ Len(rotation) > 0
  BY DEF CarriersInv, CarriersType, CarriersTypeOK
<1>2. ASSUME NEW t \in Kinds PROVE spurned[t] <= Fade[MaxUses] + 1
  <2>1. /\ MaxUses \in Nat /\ uses[t] \in Nat /\ spurned[t] \in Nat
        /\ spurned[t] > 0 => spurned[t] + Fade[uses[t]] <= Fade[MaxUses] + (IF chosen = t THEN 0 ELSE 1)
    BY KindsFinite, CountsOf DEF CarriersInv, CarriersType, Waits
  <2>2. Fade[uses[t]] \in Nat /\ Fade[MaxUses] \in Nat
    BY <2>1, FadeNat
  <2> QED
    BY <2>1, <2>2
<1> QED
  BY <1>1, <1>2 DEF TriedAgain

\* There is always a record type to send with, and one that gets no answers is tried
\* again once its count has faded.
THEOREM TypesAreTriedAgain == CarriersSpec => [](CarriersTypeOK /\ TriedAgain)
<1>1. CarriersSpec => []CarriersInv
  BY CarriersInvInit, CarriersInvStep, PTL DEF CarriersSpec
<1> QED
  BY <1>1, CarriersInvSound, PTL
=============================================================================
