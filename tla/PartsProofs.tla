----------------------------- MODULE PartsProofs -----------------------------
(****************************************************************************)
(* What is proved of the server's components that have no loop that must    *)
(* get somewhere, for every value of their constants, a section each: the   *)
(* sessions (SessionStore), the server's end of a UDP association           *)
(* (UDPAssociation), the DNS queries (DNSResolve) and, of both sides, the   *)
(* fragments (Reassembly) and the cache (DNSCache); and, with the client's  *)
(* (ClientPartsProofs), of all of them side by side (MCParts).              *)
(****************************************************************************)
EXTENDS MCParts, ClientPartsProofs

-----------------------------------------------------------------------------
(* The server's table of sessions.                                          *)

StoreType ==
    /\ made \in 0 .. MaxSessions /\ now \in Nat
    /\ sigOf \in [Sessions -> Signatures] /\ legacyOf \in [Sessions -> BOOLEAN]
    /\ reuseUntil \in [Sessions -> Nat]
    /\ byID \in [SessionIDs -> 0 .. made] /\ bySig \in [Signatures -> SessionIDs \cup {0}]
    /\ recentClosed \in [SessionIDs -> Int] /\ activeCount \in [BOOLEAN -> Int]
    /\ notice \in SessionIDs \cup {0}

\* The invariant: the property is inductive once the state is typed.
StoreInv == StoreType /\ SessionTable

\* The halves of the id space.
LEMMA Halves ==
    /\ \A f \in BOOLEAN : /\ SessionIDsOf(f) \subseteq SessionIDs
                          /\ SessionIDsOf(f) \subseteq Nat
                          /\ IsFiniteSet(SessionIDsOf(f))
    /\ \A f, g \in BOOLEAN : f # g => SessionIDsOf(f) \cap SessionIDsOf(g) = {}
    /\ SessionIDs \subseteq Nat \ {0} /\ 0 \notin SessionIDs
BY SessionStoreAssumption, FS_Interval DEF SessionIDsOf, SessionIDs

\* A set of numbers that is not empty has a least one, which MinSlot chooses.
LEMMA MinSlotIn ==
    ASSUME NEW S, S \subseteq Nat, S # {}
    PROVE  MinSlot(S) \in S
BY LeastOf DEF MinSlot

\* An id that is allocated was free, and the table was not full.
LEMMA AllocatedFree ==
    ASSUME NEW legacy \in BOOLEAN, AllocateSlot(legacy) # 0
    PROVE  /\ AllocateSlot(legacy) \in SessionIDsOf(legacy)
           /\ byID[AllocateSlot(legacy)] = NoSession
           /\ ~(activeCount[TRUE] + activeCount[FALSE] >= MaxActive)
<1> DEFINE above == {i \in Free(legacy) : i >= nextID[legacy]}
           T == IF above # {} THEN above ELSE Free(legacy)
<1>1. AllocateSlot(legacy) = MinSlot(T) /\ Free(legacy) # {}
      /\ ~(activeCount[TRUE] + activeCount[FALSE] >= MaxActive)
  BY DEF AllocateSlot
<1>2. Free(legacy) \subseteq Nat
  BY Halves DEF Free
<1>3. T \subseteq Free(legacy) /\ T # {}
  BY <1>1
<1>4. MinSlot(T) \in T
  BY <1>2, <1>3, MinSlotIn
<1> QED
  BY <1>1, <1>3, <1>4 DEF Free

\* What a sweep leaves: mappings that were there, and those of sessions that
\* may be reused.
LEMMA SweptSound ==
    ASSUME StoreInv
    PROVE  /\ SweptSig \in [Signatures -> SessionIDs \cup {0}]
           /\ \A s \in Signatures : SweptSig[s] # 0 => SweptSig[s] = bySig[s]
           /\ \A s \in Signatures : Reusable(s) => SweptSig[s] = bySig[s]
BY DEF SweptSig, Reusable, StoreInv, StoreType

\* Mappings kept by a step that removes nothing else keep what the property
\* says of signatures.
KeptMappings(sigs) ==
    /\ sigs \in [Signatures -> SessionIDs \cup {0}]
    /\ \A s \in Signatures : sigs[s] # 0 => sigs[s] = bySig[s]
    /\ \A s \in Signatures : Reusable(s) => sigs[s] = bySig[s]

\* A step that sweeps nothing keeps the mappings.
LEMMA KeptAsTheyAre == ASSUME StoreInv PROVE KeptMappings(bySig)
BY DEF KeptMappings, StoreInv, StoreType

\* The sweep keeps the mappings of sessions that may be reused.
LEMMA KeptBySweep == ASSUME StoreInv PROVE KeptMappings(SweptSig)
BY SweptSound DEF KeptMappings

\* A slot that is taken holds a session that was made; different slots hold
\* different ones.
LEMMA SlotFacts ==
    ASSUME StoreInv, NEW i \in SessionIDs, byID[i] # NoSession
    PROVE  /\ byID[i] \in Sessions /\ byID[i] \in 1 .. made
           /\ sigOf[byID[i]] \in Signatures /\ legacyOf[byID[i]] \in BOOLEAN
           /\ i \in SessionIDsOf(legacyOf[byID[i]]) /\ recentClosed[i] = 0
           /\ \A j \in SessionIDs : byID[j] = byID[i] => j = i
<1>1. byID[i] \in 1 .. made
  BY SessionStoreAssumption DEF StoreInv, StoreType, NoSession
<1>2. byID[i] \in Sessions
  BY <1>1, SessionStoreAssumption DEF StoreInv, StoreType, Sessions
<1>3. sigOf[byID[i]] \in Signatures /\ legacyOf[byID[i]] \in BOOLEAN
  BY <1>2 DEF StoreInv, StoreType
<1>4. i \in SessionIDsOf(legacyOf[byID[i]]) /\ recentClosed[i] = 0
  BY DEF StoreInv, SessionTable, TableConsistent
<1>5. \A j \in SessionIDs : byID[j] = byID[i] => j = i
  BY DEF StoreInv, SessionTable, TableConsistent
<1> QED
  BY <1>1, <1>2, <1>3, <1>4, <1>5

\* A session that a retransmitted SESSION_INIT must find is found through its
\* signature, unless that was deleted for another.
LEMMA FoundFact ==
    ASSUME StoreInv, NEW i \in SessionIDs, byID[i] # NoSession,
           now <= reuseUntil[byID[i]], byID[i] \notin robbed,
           \A q \in (byID[i] + 1) .. made : sigOf[q] # sigOf[byID[i]]
    PROVE  bySig[sigOf[byID[i]]] = i /\ Reusable(sigOf[byID[i]])
<1>1. bySig[sigOf[byID[i]]] = i
  BY DEF StoreInv, SessionTable, InitFindsItsSession
<1> QED
  BY <1>1, Halves DEF Reusable

Live(f) == {i \in SessionIDsOf(f) : byID[i] # NoSession}
Taken(f, slots) == {i \in slots : legacyOf[byID[i]] = f}

\* The counters after sessions left the table.
LEMMA CountersDrop ==
    ASSUME StoreInv, NEW slots, slots \subseteq {i \in SessionIDs : byID[i] # NoSession},
           byID' = [i \in SessionIDs |-> IF i \in slots THEN NoSession ELSE byID[i]],
           NEW f \in BOOLEAN
    PROVE  /\ Cardinality(Live(f)') = activeCount[f] - Cardinality(Taken(f, slots))
           /\ Cardinality(Taken(f, slots)) \in Nat
<1>1. IsFiniteSet(Live(f)) /\ activeCount[f] = Cardinality(Live(f))
  BY Halves, FS_Subset DEF Live, StoreInv, SessionTable, TableConsistent
<1>2. Live(f)' = Live(f) \ slots
  BY Halves DEF Live
<1>3. Live(f) \cap slots = Taken(f, slots)
  <2>1. \A i \in slots : i \in SessionIDsOf(legacyOf[byID[i]]) /\ legacyOf[byID[i]] \in BOOLEAN
    BY SlotFacts
  <2>2. \A i \in slots : i \in SessionIDsOf(f) <=> legacyOf[byID[i]] = f
    BY <2>1, Halves
  <2> QED
    BY <2>2 DEF Live, Taken
<1>4. IsFiniteSet(Taken(f, slots)) /\ Cardinality(Taken(f, slots)) \in Nat
  BY <1>1, <1>3, FS_Intersection, FS_CardinalityType
<1>5. Cardinality(Live(f) \ slots) = Cardinality(Live(f)) - Cardinality(Live(f) \cap slots)
  BY <1>1, FS_Difference
<1> QED
  BY <1>1, <1>2, <1>3, <1>4, <1>5

\* What the table is made of, but for signatures, counters and history.
Untouched == UNCHANGED <<made, sigOf, legacyOf, reuseUntil, now>>

\* Sessions that leave the table, by a notice or idle, leave it sound.
LEMMA DropKeeps ==
    ASSUME StoreInv, NEW slots, slots \subseteq {i \in SessionIDs : byID[i] # NoSession},
           NEW sigs, KeptMappings(sigs), Drop(slots, sigs), Untouched,
           recentClosed' \in [SessionIDs -> Int], notice' \in SessionIDs \cup {0},
           \A i \in SessionIDs \ slots : byID[i] # NoSession => recentClosed'[i] = 0
    PROVE  StoreInv'
<1> DEFINE gone == {byID[i] : i \in slots}
           hit == {s \in Signatures : \E r \in gone : sigOf[r] = s}
<1>1. /\ bySig' = [s \in Signatures |-> IF s \in hit THEN 0 ELSE sigs[s]]
      /\ byID' = [i \in SessionIDs |-> IF i \in slots THEN NoSession ELSE byID[i]]
      /\ activeCount' = [f \in BOOLEAN |-> activeCount[f] - Cardinality(Taken(f, slots))]
      /\ robbed' = robbed \cup ({byID[sigs[s]] : s \in {t \in hit : sigs[t] # 0}} \ gone)
  BY DEF Drop, Taken
<1>2. \A i \in SessionIDs : byID'[i] # NoSession => i \notin slots /\ byID'[i] = byID[i]
  BY <1>1
<1>3. \A f \in BOOLEAN : /\ Cardinality(Live(f)') = activeCount'[f]
                          /\ Cardinality(Taken(f, slots)) \in Nat
  BY <1>1, CountersDrop
<1>4. StoreType'
  <2>1. byID' \in [SessionIDs -> 0 .. made']
    BY <1>1, SessionStoreAssumption DEF StoreInv, StoreType, Untouched, NoSession
  <2>2. bySig' \in [Signatures -> SessionIDs \cup {0}]
    BY <1>1 DEF KeptMappings
  <2>3. activeCount' \in [BOOLEAN -> Int]
    BY <1>1, <1>3 DEF StoreInv, StoreType
  <2> QED
    BY <2>1, <2>2, <2>3 DEF StoreInv, StoreType, Untouched
<1>5. SignatureNamesItsSession'
  <2> SUFFICES ASSUME NEW s \in Signatures, bySig'[s] # 0
               PROVE  byID'[bySig'[s]] # NoSession /\ sigOf'[byID'[bySig'[s]]] = s
    BY DEF SignatureNamesItsSession
  <2>1. s \notin hit /\ bySig'[s] = bySig[s] /\ bySig[s] # 0
    BY <1>1 DEF KeptMappings
  <2>2. byID[bySig[s]] # NoSession /\ sigOf[byID[bySig[s]]] = s
    BY <2>1 DEF StoreInv, SessionTable, SignatureNamesItsSession
  <2>3. bySig[s] \in SessionIDs /\ bySig[s] \notin slots
    BY <2>1, <2>2 DEF StoreInv, StoreType
  <2> QED
    BY <1>1, <2>1, <2>2, <2>3 DEF Untouched
<1>6. InitFindsItsSession'
  <2> SUFFICES ASSUME NEW i \in SessionIDs, byID'[i] # NoSession, now' <= reuseUntil'[byID'[i]],
                      byID'[i] \notin robbed',
                      \A q \in (byID'[i] + 1) .. made' : sigOf'[q] # sigOf'[byID'[i]]
               PROVE  bySig'[sigOf'[byID'[i]]] = i
    BY DEF InitFindsItsSession
  <2>1. i \notin slots /\ byID'[i] = byID[i] /\ byID[i] # NoSession
    BY <1>2
  <2>2. bySig[sigOf[byID[i]]] = i /\ Reusable(sigOf[byID[i]])
    BY <1>1, <2>1, FoundFact DEF Untouched
  <2>3. sigOf[byID[i]] \in Signatures /\ \A j \in SessionIDs : byID[j] = byID[i] => j = i
    BY <2>1, SlotFacts
  <2>4. sigs[sigOf[byID[i]]] = i
    BY <2>2, <2>3 DEF KeptMappings
  <2>5. byID[i] \notin gone
    BY <2>1, <2>3
  <2>6. sigOf[byID[i]] \notin hit
    BY <1>1, <2>1, <2>3, <2>4, <2>5, Halves
  <2> QED
    BY <1>1, <2>1, <2>3, <2>4, <2>6 DEF Untouched
<1>7. TableConsistent'
  <2>1. \A i \in SessionIDs : byID'[i] # NoSession =>
            i \in SessionIDsOf(legacyOf'[byID'[i]]) /\ recentClosed'[i] = 0
    BY <1>2, SlotFacts DEF Untouched
  <2>2. \A i, j \in SessionIDs : byID'[i] = byID'[j] /\ byID'[i] # NoSession => i = j
    BY <1>2, SlotFacts
  <2>3. \A f \in BOOLEAN : activeCount'[f] = Cardinality({i \in SessionIDsOf(f) : byID'[i] # NoSession})
    BY <1>3 DEF Live
  <2>4. activeCount'[TRUE] + activeCount'[FALSE] <= MaxActive
    <3>1. activeCount[TRUE] + activeCount[FALSE] <= MaxActive
          /\ activeCount[TRUE] \in Int /\ activeCount[FALSE] \in Int
      BY DEF StoreInv, StoreType, SessionTable, TableConsistent
    <3>2. \A f \in BOOLEAN : activeCount'[f] <= activeCount[f] /\ activeCount'[f] \in Int
      <4> TAKE f \in BOOLEAN
      <4>1. activeCount'[f] = activeCount[f] - Cardinality(Taken(f, slots))
        BY <1>1
      <4>2. activeCount[f] \in Int /\ Cardinality(Taken(f, slots)) \in Nat
        BY <1>3 DEF StoreInv, StoreType
      <4> QED
        BY <4>1, <4>2
    <3>3. /\ activeCount'[TRUE] <= activeCount[TRUE] /\ activeCount'[TRUE] \in Int
          /\ activeCount'[FALSE] <= activeCount[FALSE] /\ activeCount'[FALSE] \in Int
      BY <3>2
    <3> DEFINE t == activeCount[TRUE]  tt == activeCount'[TRUE]
               u == activeCount[FALSE] uu == activeCount'[FALSE]
    <3>4. t + u <= MaxActive /\ t \in Int /\ u \in Int /\ tt <= t /\ uu <= u /\ tt \in Int /\ uu \in Int
      BY <3>1, <3>3
    <3> HIDE DEF t, tt, u, uu
    <3>5. tt + uu <= MaxActive
      BY <3>4, SessionStoreAssumption
    <3> QED
      BY <3>5 DEF tt, uu
  <2> QED
    BY <2>1, <2>2, <2>3, <2>4 DEF TableConsistent
<1> QED
  BY <1>4, <1>5, <1>6, <1>7 DEF StoreInv, SessionTable

\* A sweep, or nothing, happens to the mappings, and perhaps one is deleted
\* whose session the full table refuses.
LEMMA FindExistingKeeps ==
    ASSUME StoreInv, NEW s \in Signatures, NEW legacy \in BOOLEAN, FindExisting(s, legacy)
    PROVE  StoreInv'
<1>1. KeptMappings(SweptSig) /\ bySig' = SweptSig
  BY KeptBySweep DEF FindExisting
<1>2. UNCHANGED <<made, sigOf, legacyOf, reuseUntil, byID, recentClosed, activeCount, now, notice, robbed>>
  BY DEF FindExisting
<1>3. StoreType'
  BY <1>1, <1>2 DEF KeptMappings, StoreInv, StoreType
<1>4. SignatureNamesItsSession'
  BY <1>1, <1>2 DEF KeptMappings, StoreInv, SessionTable, SignatureNamesItsSession
<1>5. InitFindsItsSession'
  <2> SUFFICES ASSUME NEW i \in SessionIDs, byID[i] # NoSession, now <= reuseUntil[byID[i]],
                      byID[i] \notin robbed,
                      \A q \in (byID[i] + 1) .. made : sigOf[q] # sigOf[byID[i]]
               PROVE  bySig'[sigOf[byID[i]]] = i
    BY <1>2 DEF InitFindsItsSession
  <2>1. bySig[sigOf[byID[i]]] = i /\ Reusable(sigOf[byID[i]]) /\ sigOf[byID[i]] \in Signatures
    BY FoundFact, SlotFacts
  <2> QED
    BY <1>1, <2>1 DEF KeptMappings
<1>6. TableConsistent'
  BY <1>2 DEF StoreInv, SessionTable, TableConsistent
<1> QED
  BY <1>3, <1>4, <1>5, <1>6 DEF StoreInv, SessionTable

\* A table without a free id: only the mappings change.
LEMMA TableFullKeeps ==
    ASSUME StoreInv, NEW s \in Signatures, NEW legacy \in BOOLEAN, TableFull(s, legacy)
    PROVE  StoreInv'
<1>1. KeptMappings(SweptSig) /\ bySig' = [SweptSig EXCEPT ![s] = 0]
      /\ robbed' = IF SweptSig[s] = 0 THEN robbed ELSE robbed \cup {byID[SweptSig[s]]}
  BY KeptBySweep DEF TableFull
<1>2. UNCHANGED <<made, sigOf, legacyOf, reuseUntil, byID, recentClosed, activeCount, now, notice>>
  BY DEF TableFull
<1>3. StoreType'
  BY <1>1, <1>2 DEF KeptMappings, StoreInv, StoreType
<1>4. SignatureNamesItsSession'
  BY <1>1, <1>2 DEF KeptMappings, StoreInv, SessionTable, SignatureNamesItsSession
<1>5. InitFindsItsSession'
  <2> SUFFICES ASSUME NEW i \in SessionIDs, byID[i] # NoSession, now <= reuseUntil[byID[i]],
                      byID[i] \notin robbed',
                      \A q \in (byID[i] + 1) .. made : sigOf[q] # sigOf[byID[i]]
               PROVE  bySig'[sigOf[byID[i]]] = i
    BY <1>2 DEF InitFindsItsSession
  <2>1. bySig[sigOf[byID[i]]] = i /\ Reusable(sigOf[byID[i]]) /\ sigOf[byID[i]] \in Signatures
    BY <1>1, FoundFact, SlotFacts
  <2>2. SweptSig[sigOf[byID[i]]] = i
    BY <1>1, <2>1 DEF KeptMappings
  <2>3. sigOf[byID[i]] # s
    BY <1>1, <2>2, Halves
  <2> QED
    BY <1>1, <2>1, <2>2, <2>3 DEF KeptMappings
<1>6. TableConsistent'
  BY <1>2 DEF StoreInv, SessionTable, TableConsistent
<1> QED
  BY <1>3, <1>4, <1>5, <1>6 DEF StoreInv, SessionTable

\* A new session takes a free id and its signature.
LEMMA CreateKeeps ==
    ASSUME StoreInv, NEW s \in Signatures, NEW legacy \in BOOLEAN, CreateSession(s, legacy)
    PROVE  StoreInv'
<1> DEFINE i == AllocateSlot(legacy)
           r == made + 1
<1>1. /\ i \in SessionIDsOf(legacy) /\ i \in SessionIDs /\ i \in Nat /\ i # 0 /\ byID[i] = NoSession
      /\ ~(activeCount[TRUE] + activeCount[FALSE] >= MaxActive)
  BY AllocatedFree, Halves DEF CreateSession
<1>2. /\ r \in Sessions /\ r \in Nat /\ r # NoSession /\ made \in Nat /\ MaxSessions \in Nat
  BY SessionStoreAssumption DEF CreateSession, StoreInv, StoreType, NoSession
<1>3. /\ made' = r /\ sigOf' = [sigOf EXCEPT ![r] = s] /\ legacyOf' = [legacyOf EXCEPT ![r] = legacy]
      /\ reuseUntil' = [reuseUntil EXCEPT ![r] = now + ReuseTTL]
      /\ byID' = [byID EXCEPT ![i] = r] /\ activeCount' = [activeCount EXCEPT ![legacy] = @ + 1]
      /\ bySig' = [SweptSig EXCEPT ![s] = i] /\ recentClosed' = [recentClosed EXCEPT ![i] = 0]
      /\ UNCHANGED <<now, notice, robbed>>
  BY DEF CreateSession
<1>4. KeptMappings(SweptSig)
  BY KeptBySweep
<1> HIDE DEF i, r
<1>5. /\ byID'[i] = r /\ \A j \in SessionIDs : j # i => byID'[j] = byID[j]
      /\ sigOf'[r] = s /\ legacyOf'[r] = legacy
      /\ \A q \in Sessions : q # r => /\ sigOf'[q] = sigOf[q] /\ legacyOf'[q] = legacyOf[q]
                                        /\ reuseUntil'[q] = reuseUntil[q]
  BY <1>1, <1>2, <1>3 DEF StoreInv, StoreType
<1>6. \A j \in SessionIDs : byID[j] # NoSession => byID[j] \in Sessions /\ byID[j] \in 1 .. made /\ byID[j] # r
  <2> TAKE j \in SessionIDs
  <2> HAVE byID[j] # NoSession
  <2>1. byID[j] \in Sessions /\ byID[j] \in 1 .. made
    BY SlotFacts
  <2> QED
    BY <1>2, <2>1 DEF r
<1>7. StoreType'
  <2>1. byID' \in [SessionIDs -> 0 .. made']
    BY <1>1, <1>2, <1>3 DEF StoreInv, StoreType, r
  <2>2. made' \in 0 .. MaxSessions /\ now + ReuseTTL \in Nat
    BY <1>2, <1>3, SessionStoreAssumption DEF Sessions, StoreInv, StoreType
  <2>3. bySig' \in [Signatures -> SessionIDs \cup {0}]
    BY <1>1, <1>3, <1>4 DEF KeptMappings
  <2> QED
    BY <1>1, <1>2, <1>3, <2>1, <2>2, <2>3 DEF StoreInv, StoreType
<1>8. SignatureNamesItsSession'
  <2> SUFFICES ASSUME NEW t \in Signatures, bySig'[t] # 0
               PROVE  byID'[bySig'[t]] # NoSession /\ sigOf'[byID'[bySig'[t]]] = t
    BY DEF SignatureNamesItsSession
  <2>1. CASE t = s
    <3>1. bySig'[t] = i
      BY <1>3, <1>4, <2>1 DEF KeptMappings
    <3> QED
      BY <1>2, <1>5, <2>1, <3>1
  <2>2. CASE t # s
    <3>1. bySig'[t] = bySig[t] /\ bySig[t] # 0 /\ bySig[t] \in SessionIDs
      BY <1>3, <1>4, <2>2 DEF KeptMappings, StoreInv, StoreType
    <3>2. byID[bySig[t]] # NoSession /\ sigOf[byID[bySig[t]]] = t
      BY <3>1 DEF StoreInv, SessionTable, SignatureNamesItsSession
    <3>3. bySig[t] # i /\ byID'[bySig[t]] = byID[bySig[t]]
      BY <1>1, <1>5, <3>1, <3>2
    <3>4. sigOf'[byID[bySig[t]]] = sigOf[byID[bySig[t]]]
      BY <1>5, <1>6, <3>1, <3>2
    <3> QED
      BY <3>1, <3>2, <3>3, <3>4
  <2> QED
    BY <2>1, <2>2
<1>9. InitFindsItsSession'
  <2> SUFFICES ASSUME NEW j \in SessionIDs, byID'[j] # NoSession, now' <= reuseUntil'[byID'[j]],
                      byID'[j] \notin robbed',
                      \A q \in (byID'[j] + 1) .. made' : sigOf'[q] # sigOf'[byID'[j]]
               PROVE  bySig'[sigOf'[byID'[j]]] = j
    BY DEF InitFindsItsSession
  <2>1. CASE j = i
    BY <1>1, <1>3, <1>4, <1>5, <2>1 DEF KeptMappings
  <2>2. CASE j # i
    <3>1. byID'[j] = byID[j] /\ byID[j] # NoSession /\ byID[j] \in Sessions /\ byID[j] \in 1 .. made /\ byID[j] # r
      BY <1>5, <1>6, <2>2
    <3>2. sigOf'[byID[j]] = sigOf[byID[j]] /\ reuseUntil'[byID[j]] = reuseUntil[byID[j]]
      BY <1>5, <3>1
    <3>3. r \in (byID[j] + 1) .. made'
      BY <1>2, <1>3, <3>1 DEF r
    <3>4. sigOf[byID[j]] # s
      BY <1>5, <3>1, <3>2, <3>3
    <3>5. \A q \in (byID[j] + 1) .. made : sigOf[q] # sigOf[byID[j]]
      <4> TAKE q \in (byID[j] + 1) .. made
      <4>1. q \in Sessions /\ q # r /\ q \in (byID[j] + 1) .. made'
        BY <1>2, <1>3, <3>1 DEF r, Sessions, StoreInv, StoreType
      <4> QED
        BY <1>5, <3>1, <3>2, <4>1
    <3>6. bySig[sigOf[byID[j]]] = j /\ Reusable(sigOf[byID[j]]) /\ sigOf[byID[j]] \in Signatures
      BY <1>3, <3>1, <3>2, <3>5, FoundFact, SlotFacts
    <3> QED
      BY <1>3, <1>4, <3>1, <3>2, <3>4, <3>6 DEF KeptMappings
  <2> QED
    BY <2>1, <2>2
<1>10. TableConsistent'
  <2>1. \A j \in SessionIDs : byID'[j] # NoSession =>
            j \in SessionIDsOf(legacyOf'[byID'[j]]) /\ recentClosed'[j] = 0
    <3> TAKE j \in SessionIDs
    <3> HAVE byID'[j] # NoSession
    <3>1. CASE j = i
      BY <1>1, <1>3, <1>5, <3>1 DEF StoreInv, StoreType
    <3>2. CASE j # i
      BY <1>1, <1>3, <1>5, <1>6, <3>2, SlotFacts DEF StoreInv, StoreType
    <3> QED
      BY <3>1, <3>2
  <2>2. \A j, k \in SessionIDs : byID'[j] = byID'[k] /\ byID'[j] # NoSession => j = k
    BY <1>5, <1>6, SlotFacts
  <2>3. \A f \in BOOLEAN : activeCount'[f] = Cardinality({j \in SessionIDsOf(f) : byID'[j] # NoSession})
    <3> TAKE f \in BOOLEAN
    <3>1. IsFiniteSet(Live(f)) /\ activeCount[f] = Cardinality(Live(f))
      BY Halves, FS_Subset DEF Live, StoreInv, SessionTable, TableConsistent
    <3>2. CASE f = legacy
      <4>1. {j \in SessionIDsOf(f) : byID'[j] # NoSession} = Live(f) \cup {i}
        BY <1>1, <1>2, <1>5, <3>2, Halves DEF Live
      <4>2. i \notin Live(f)
        BY <1>1 DEF Live
      <4>3. Cardinality(Live(f) \cup {i}) = Cardinality(Live(f)) + 1
        BY <3>1, <4>2, FS_AddElement
      <4>4. activeCount'[f] = activeCount[f] + 1
        BY <1>3, <3>2 DEF StoreInv, StoreType
      <4> QED
        BY <3>1, <4>1, <4>3, <4>4
    <3>3. CASE f # legacy
      <4>1. i \notin SessionIDsOf(f)
        BY <1>1, <3>3, Halves
      <4>2. {j \in SessionIDsOf(f) : byID'[j] # NoSession} = Live(f)
        BY <1>5, <4>1, Halves DEF Live
      <4> QED
        BY <1>3, <3>1, <3>3, <4>2 DEF StoreInv, StoreType
    <3> QED
      BY <3>2, <3>3
  <2>4. activeCount'[TRUE] + activeCount'[FALSE] <= MaxActive
    <3> DEFINE t == activeCount[TRUE]  tt == activeCount'[TRUE]
               u == activeCount[FALSE] uu == activeCount'[FALSE]
    <3>1. t \in Int /\ u \in Int /\ ~(t + u >= MaxActive)
      BY <1>1 DEF StoreInv, StoreType
    <3>2. CASE legacy = TRUE
      <4>1. tt = t + 1 /\ uu = u
        BY <1>3, <3>2 DEF StoreInv, StoreType
      <4> HIDE DEF t, tt, u, uu
      <4>2. tt + uu <= MaxActive
        BY <3>1, <4>1, SessionStoreAssumption
      <4> QED
        BY <4>2 DEF tt, uu
    <3>3. CASE legacy = FALSE
      <4>1. tt = t /\ uu = u + 1
        BY <1>3, <3>3 DEF StoreInv, StoreType
      <4> HIDE DEF t, tt, u, uu
      <4>2. tt + uu <= MaxActive
        BY <3>1, <4>1, SessionStoreAssumption
      <4> QED
        BY <4>2 DEF tt, uu
    <3> QED
      BY <3>2, <3>3
  <2> QED
    BY <2>1, <2>2, <2>3, <2>4 DEF TableConsistent
<1> QED
  BY <1>7, <1>8, <1>9, <1>10 DEF StoreInv, SessionTable

\* Both ways sessions leave the table are a Drop.
LEMMA CloseKeeps == ASSUME StoreInv, Close PROVE StoreInv'
<1>1. notice \in SessionIDs /\ notice' = 0 /\ Untouched
  BY DEF Close, StoreInv, StoreType, Untouched
<1>2. CASE byID[notice] = NoSession
  <2>1. UNCHANGED <<byID, bySig, activeCount, recentClosed, robbed>>
    BY <1>1, <1>2 DEF Close
  <2>2. StoreType'
    BY <1>1, <2>1 DEF StoreInv, StoreType, Untouched
  <2>3. SignatureNamesItsSession' /\ InitFindsItsSession' /\ TableConsistent'
    BY <1>1, <2>1 DEF StoreInv, SessionTable, Untouched, SignatureNamesItsSession,
                      InitFindsItsSession, TableConsistent
  <2> QED
    BY <2>2, <2>3 DEF StoreInv, SessionTable
<1>3. CASE byID[notice] # NoSession
  <2>1. Drop({notice}, bySig) /\ recentClosed' = [recentClosed EXCEPT ![notice] = now + Retention]
    BY <1>1, <1>3 DEF Close
  <2>2. recentClosed' \in [SessionIDs -> Int]
    <3>1. now + Retention \in Int /\ recentClosed \in [SessionIDs -> Int]
      BY SessionStoreAssumption DEF StoreInv, StoreType
    <3> QED
      BY <2>1, <3>1
  <2>3. \A i \in SessionIDs \ {notice} : byID[i] # NoSession => recentClosed'[i] = 0
    BY <2>1, SlotFacts DEF StoreInv, StoreType
  <2>4. {notice} \subseteq {i \in SessionIDs : byID[i] # NoSession}
    BY <1>1, <1>3
  <2> QED
    BY <1>1, <2>1, <2>2, <2>3, <2>4, KeptAsTheyAre, DropKeeps
<1> QED
  BY <1>2, <1>3

\* The idle cleanup forgets a session with all that names it.
LEMMA CleanupKeeps == ASSUME StoreInv, Cleanup PROVE StoreInv'
<1>1. Drop(IdleSlots, SweptSig) /\ Untouched /\ notice' = notice
  BY DEF Cleanup, Untouched
<1>2. recentClosed' = [i \in SessionIDs |->
           IF i \in IdleSlots THEN now + Retention
           ELSE IF now >= recentClosed[i] THEN 0 ELSE recentClosed[i]]
  BY DEF Cleanup
<1>3. recentClosed' \in [SessionIDs -> Int]
  BY <1>2, SessionStoreAssumption DEF StoreInv, StoreType
<1>4. \A i \in SessionIDs \ IdleSlots : byID[i] # NoSession => recentClosed'[i] = 0
  BY <1>2, SlotFacts DEF StoreInv, StoreType
<1>5. IdleSlots \subseteq {i \in SessionIDs : byID[i] # NoSession}
  BY DEF IdleSlots
<1>6. notice' \in SessionIDs \cup {0}
  BY <1>1 DEF StoreInv, StoreType
<1> QED
  BY <1>1, <1>3, <1>4, <1>5, <1>6, KeptBySweep, DropKeeps

\* The other steps touch what the property does not speak of; time only makes
\* fewer sessions reusable.
LEMMA OthersKeep ==
    ASSUME StoreInv,
           \/ \E i \in SessionIDs : ValidateAndTouch(i) \/ LookupNotice(i)
           \/ Tick
           \/ UNCHANGED sessionVars
    PROVE  StoreInv'
<1>1. /\ UNCHANGED <<made, sigOf, legacyOf, reuseUntil, byID, bySig, recentClosed, activeCount, robbed>>
      /\ now' \in Nat /\ now <= now' /\ notice' \in SessionIDs \cup {0}
  BY DEF ValidateAndTouch, LookupNotice, Tick, sessionVars, StoreInv, StoreType
<1>2. StoreType'
  BY <1>1 DEF StoreInv, StoreType
<1>3. SignatureNamesItsSession' /\ TableConsistent'
  BY <1>1 DEF StoreInv, SessionTable, SignatureNamesItsSession, TableConsistent
<1>4. InitFindsItsSession'
  <2> SUFFICES ASSUME NEW i \in SessionIDs, byID[i] # NoSession, now' <= reuseUntil[byID[i]],
                      byID[i] \notin robbed,
                      \A q \in (byID[i] + 1) .. made : sigOf[q] # sigOf[byID[i]]
               PROVE  bySig[sigOf[byID[i]]] = i
    BY <1>1 DEF InitFindsItsSession
  <2>1. now <= reuseUntil[byID[i]]
    <3>1. reuseUntil[byID[i]] \in Nat /\ now \in Nat
      BY SlotFacts DEF StoreInv, StoreType
    <3> QED
      BY <1>1, <3>1
  <2> QED
    BY <2>1, FoundFact
<1> QED
  BY <1>2, <1>3, <1>4 DEF StoreInv, SessionTable

\* The empty table is sound.
LEMMA StoreInvInit == SessionInit => StoreInv
<1> SUFFICES ASSUME SessionInit PROVE StoreInv
  OBVIOUS
<1>1. StoreType
  BY SessionStoreAssumption DEF SessionInit, StoreType, SessionIDs, NoSession
<1>2. SignatureNamesItsSession /\ InitFindsItsSession
  BY DEF SessionInit, SignatureNamesItsSession, InitFindsItsSession
<1>3. \A f \in BOOLEAN : {i \in SessionIDsOf(f) : byID[i] # NoSession} = {}
  BY Halves DEF SessionInit
<1>4. \A f \in BOOLEAN : activeCount[f] = 0
  BY DEF SessionInit
<1>5. activeCount[TRUE] + activeCount[FALSE] <= MaxActive
  <2>1. activeCount[TRUE] = 0 /\ activeCount[FALSE] = 0
    BY <1>4
  <2> QED
    BY <2>1, SessionStoreAssumption
<1>6. TableConsistent
  BY <1>3, <1>4, <1>5, FS_EmptySet DEF SessionInit, TableConsistent
<1> QED
  BY <1>1, <1>2, <1>6 DEF StoreInv, SessionTable

\* Every step of the table keeps its invariant.
LEMMA StoreInvStep == StoreInv /\ [SessionNext]_sessionVars => StoreInv'
<1> SUFFICES ASSUME StoreInv, [SessionNext]_sessionVars PROVE StoreInv'
  OBVIOUS
<1>1. ASSUME NEW s \in Signatures, NEW legacy \in BOOLEAN, FindOrCreate(s, legacy) PROVE StoreInv'
  BY <1>1, FindExistingKeeps, TableFullKeeps, CreateKeeps DEF FindOrCreate
<1>2. CASE Close
  BY <1>2, CloseKeeps
<1>3. CASE Cleanup
  BY <1>3, CleanupKeeps
<1>4. CASE \/ \E i \in SessionIDs : ValidateAndTouch(i) \/ LookupNotice(i)
           \/ Tick
           \/ UNCHANGED sessionVars
  BY <1>4, OthersKeep
<1> QED
  BY <1>1, <1>2, <1>3, <1>4 DEF SessionNext

\* Signatures, ids, counters and the memory of closed sessions agree, and a
\* retransmitted SESSION_INIT finds its session, whatever the sizes of the id
\* space and the times, and however creation, notices, expiry and sweeps
\* interleave.
THEOREM SessionTableSound == SessionSpec => []SessionTable
<1>1. StoreInv => SessionTable
  BY DEF StoreInv
<1> QED
  BY <1>1, StoreInvInit, StoreInvStep, PTL DEF SessionSpec

-----------------------------------------------------------------------------
(* The server's end of a UDP association.                                   *)

Writers ==
    [step : {"idle", "asks", "resolves", "finds", "dials", "dialed", "sends", "removes", "closes"},
     to : SUBSET Addresses, conn : Nat, now : Nat]

AssociationType ==
    /\ endpoints \in [Addresses -> 0 .. dials] /\ aliases \in [Names -> SUBSET Addresses]
    /\ dials \in 0 .. MaxEndpoints /\ udpSockets \subseteq 1 .. dials
    /\ readers \in [Endpoints -> {"none", "reads", "removes", "closes", "ended"}]
    /\ gauge \in Int /\ hour \in Nat
    /\ bodies \in Seq(Names) /\ (udpWriter.step # "idle" => bodies # <<>>)

\* The address that the writer found no socket for has none, and there is room,
\* until it registers the one it dials; and what it is about to close is not
\* in the table.
WriterKnows ==
    /\ udpWriter.step \in {"finds", "dials", "dialed"} => \E d \in Addresses : udpWriter.to = {d}
    /\ udpWriter.step \in {"dials", "dialed"} =>
           /\ \A d \in udpWriter.to : endpoints[d] = 0
           /\ Cardinality(Listed) < MaxTargets
    /\ udpWriter.step = "dialed" =>
           /\ udpWriter.conn = dials /\ dials \in udpSockets
           /\ dials \notin Listed /\ readers[dials] = "none"
    /\ udpWriter.step = "closes" => udpWriter.conn \notin Listed

\* A socket has no reader before it is in the table, and its reader takes it
\* from there before it closes it.
ReadersKnow ==
    \A e \in Endpoints : /\ readers[e] \in {"none", "closes"} => e \notin Listed
                         /\ e > dials => readers[e] = "none"

AssociationInv ==
    /\ udpWriter \in Writers /\ AssociationType /\ WriterKnows /\ ReadersKnow
    /\ TableWorks /\ NoneForgotten /\ GaugeCovers

\* The sockets in the table are among those dialed.
LEMMA ListedFinite ==
    ASSUME AssociationType
    PROVE  /\ Listed \subseteq 1 .. dials /\ IsFiniteSet(Listed) /\ Cardinality(Listed) \in Nat
           /\ dials \in Nat /\ 0 \notin Listed
<1>1. dials \in Nat
  BY UDPAssociationAssumption DEF AssociationType
<1>2. Listed \subseteq 1 .. dials
  BY <1>1 DEF AssociationType, Listed
<1>3. IsFiniteSet(Listed)
  <2>1. 1 \in Int /\ dials \in Int
    BY <1>1
  <2>2. IsFiniteSet(1 .. dials)
    BY <2>1, FS_Interval
  <2> QED
    BY <1>2, <2>2, FS_Subset
<1> QED
  BY <1>1, <1>2, <1>3, FS_CardinalityType DEF Listed

\* What is left in the table when some sockets are taken out of it.
LEMMA ListedWithout ==
    ASSUME AssociationType, NEW gone,
           endpoints' = [x \in Addresses |-> IF endpoints[x] \in gone THEN 0 ELSE endpoints[x]]
    PROVE  Listed' = Listed \ gone
BY DEF AssociationType, Listed

\* An association starts without a socket, reader or writer.
LEMMA AssociationInvInit == UDPInit => AssociationInv
<1> SUFFICES ASSUME UDPInit PROVE AssociationInv
  OBVIOUS
<1>1. udpWriter \in Writers /\ udpWriter.step = "idle"
  BY DEF UDPInit, WriterIdle, Writing, Writers
<1>2. Listed = {} /\ Cardinality(Listed) = 0
  BY FS_EmptySet DEF UDPInit, Listed
<1>3. AssociationType
  BY <1>1, UDPAssociationAssumption, EmptySeq DEF UDPInit, AssociationType
<1>4. WriterKnows /\ ReadersKnow
  BY <1>1, <1>2 DEF UDPInit, WriterKnows, ReadersKnow
<1>5. TableWorks /\ NoneForgotten /\ GaugeCovers
  BY <1>1, <1>2, UDPAssociationAssumption DEF UDPInit, TableWorks, NoneForgotten, GaugeCovers
<1> QED
  BY <1>1, <1>3, <1>4, <1>5 DEF AssociationInv

\* Steps that leave the table, the sockets and their readers alone: only what
\* the writer knows is to show.
LEMMA TableUntouched ==
    ASSUME AssociationInv, udpWriter' \in Writers, WriterKnows',
           UNCHANGED <<endpoints, aliases, dials, udpSockets, readers, gauge>>,
           hour' \in Nat, bodies' \in Seq(Names), udpWriter'.step # "idle" => bodies' # <<>>,
           ending' = ending \/ ending' # "open",
           udpWriter.step \in {"dialed", "closes"} => UNCHANGED udpWriter
    PROVE  AssociationInv'
<1>1. AssociationType'
  BY DEF AssociationInv, AssociationType
<1>2. Listed' = Listed
  BY DEF Listed
<1>3. ReadersKnow'
  BY <1>2 DEF AssociationInv, ReadersKnow
<1>4. TableWorks'
  BY <1>2 DEF AssociationInv, TableWorks
<1>5. NoneForgotten'
  BY <1>2 DEF AssociationInv, NoneForgotten
<1>6. GaugeCovers'
  BY <1>2 DEF AssociationInv, GaugeCovers
<1> QED
  BY <1>1, <1>3, <1>4, <1>5, <1>6 DEF AssociationInv

\* The writer goes on to the next datagram, or is done.
LEMMA WriterGoesOn ==
    ASSUME hour \in Nat, bodies \in Seq(Names), bodies # <<>>, NextBody
    PROVE  /\ udpWriter' \in Writers /\ udpWriter'.step \in {"idle", "asks"}
           /\ bodies' \in Seq(Names) /\ (udpWriter'.step # "idle" => bodies' # <<>>)
<1>1. udpWriter' \in Writers /\ udpWriter'.step = IF Len(bodies) = 1 THEN "idle" ELSE "asks"
  BY DEF NextBody, WriterIdle, Writing, Writers
<1>2. bodies' \in Seq(Names) /\ Len(bodies') = Len(bodies) - 1
  BY HeadTailProperties DEF NextBody
<1>3. Len(bodies) # 1 => bodies' # <<>>
  BY <1>2, EmptySeq
<1> QED
  BY <1>1, <1>2, <1>3

\* Every step of the association keeps its invariant.
LEMMA AssociationInvStep == AssociationInv /\ [UDPNext]_udpVars => AssociationInv'
<1> SUFFICES ASSUME AssociationInv, [UDPNext]_udpVars PROVE AssociationInv'
  OBVIOUS
<1>inv. /\ udpWriter \in Writers /\ AssociationType /\ WriterKnows /\ ReadersKnow
        /\ TableWorks /\ NoneForgotten /\ GaugeCovers
  BY DEF AssociationInv
<1>fin. /\ Listed \subseteq 1 .. dials /\ IsFiniteSet(Listed) /\ Cardinality(Listed) \in Nat
        /\ dials \in Nat /\ 0 \notin Listed
  BY <1>inv, ListedFinite
<1>bod. bodies \in Seq(Names) /\ (udpWriter.step # "idle" => bodies # <<>> /\ Head(bodies) \in Names)
  BY <1>inv, HeadTailProperties DEF AssociationType
<1>num. gauge \in Int /\ hour \in Nat /\ MaxTargets \in Nat \ {0} /\ MaxEndpoints \in Nat \ {0}
  BY <1>inv, UDPAssociationAssumption DEF AssociationType
<1>same. ASSUME UNCHANGED <<endpoints, dials, readers, udpWriter>> /\ udpSockets' = udpSockets PROVE WriterKnows'
  BY <1>inv, <1>same DEF WriterKnows, Listed
<1>free. ASSUME udpWriter'.step \in {"idle", "asks", "resolves", "sends", "removes"} PROVE WriterKnows'
  BY <1>free DEF WriterKnows
<1>1. CASE HourPasses \/ TakeReply \/ SignalClose
  <2>1. /\ UNCHANGED <<udpWriter, endpoints, aliases, dials, udpSockets, readers, gauge>>
        /\ hour' \in Nat /\ (ending' = ending \/ ending' # "open") /\ UNCHANGED bodies
    BY <1>num, <1>1 DEF HourPasses, TakeReply, SignalClose
  <2> QED
    BY <1>inv, <1>bod, <1>same, <2>1, TableUntouched
<1>2. CASE WriteBodies
  <2>1. /\ UNCHANGED <<endpoints, aliases, dials, udpSockets, readers, gauge, hour, ending>>
        /\ udpWriter' = Writing("asks", {}, 0, hour) /\ udpWriter = WriterIdle
    BY <1>2 DEF WriteBodies
  <2>2. udpWriter' \in Writers /\ udpWriter'.step = "asks" /\ udpWriter.step = "idle"
    BY <1>num, <2>1 DEF Writing, WriterIdle, Writers
  <2>3. bodies' \in Seq(Names) /\ bodies' # <<>>
    <3>1. PICK ns \in [1 .. 1 -> Names] \cup [1 .. 2 -> Names] : bodies' = ns
      BY <1>2 DEF WriteBodies
    <3>2. PICK k \in {1, 2} : ns \in [1 .. k -> Names]
      BY <3>1
    <3>3. ns \in Seq(Names) /\ Len(ns) = k
      BY <3>2, LenProperties
    <3> QED
      BY <3>1, <3>3, EmptySeq
  <2> QED
    BY <1>num, <1>free, <2>1, <2>2, <2>3, TableUntouched
<1>3. CASE FindAlias
  <2> DEFINE n == Head(bodies)
  <2>0. udpWriter.step = "asks" /\ n \in Names
    BY <1>3, <1>bod DEF FindAlias
  <2>1. ASSUME NEW d \in aliases[n], endpoints[d] # 0, SendsOn(endpoints[d]), UNCHANGED aliases
        PROVE  AssociationInv'
    <3>1. UNCHANGED <<bodies, endpoints, aliases, dials, udpSockets, readers, gauge, hour, ending>>
      BY <1>3, <2>1 DEF FindAlias
    <3>2. endpoints[d] \in Nat
      BY <1>inv, <1>fin, <2>0, <2>1 DEF AssociationType
    <3>3. udpWriter' \in Writers /\ udpWriter'.step = "sends"
      BY <2>1, <3>2 DEF SendsOn, Writing, Writers
    <3> QED
      BY <1>num, <1>bod, <1>free, <2>0, <3>1, <3>3, TableUntouched
  <2>2. ASSUME \A d \in aliases[n] : endpoints[d] = 0, aliases' = [aliases EXCEPT ![n] = {}],
               udpWriter' = [udpWriter EXCEPT !.step = "resolves"]
        PROVE  AssociationInv'
    <3>1. UNCHANGED <<bodies, endpoints, dials, udpSockets, readers, gauge, hour, ending>>
      BY <1>3 DEF FindAlias
    <3>2. aliases' = aliases
      <4>1. aliases[n] = {}
        BY <1>inv, <2>0, <2>2 DEF TableWorks
      <4> QED
        BY <1>inv, <2>0, <2>2, <4>1 DEF AssociationType
    <3>3. udpWriter' \in Writers /\ udpWriter'.step = "resolves"
      BY <1>inv, <2>2 DEF Writers
    <3> QED
      BY <1>num, <1>bod, <1>free, <2>0, <3>1, <3>2, <3>3, TableUntouched
  <2> QED
    BY <1>3, <2>1, <2>2 DEF FindAlias
<1>4. CASE ResolveName
  <2>0. /\ udpWriter.step = "resolves"
        /\ UNCHANGED <<endpoints, aliases, dials, udpSockets, readers, gauge, hour, ending>>
    BY <1>4 DEF ResolveName
  <2>1. CASE NextBody
    <3>1. /\ udpWriter' \in Writers /\ udpWriter'.step \in {"idle", "asks"}
          /\ bodies' \in Seq(Names) /\ (udpWriter'.step # "idle" => bodies' # <<>>)
      BY <1>num, <1>bod, <2>0, <2>1, WriterGoesOn
    <3> QED
      BY <1>num, <1>free, <2>0, <3>1, TableUntouched
  <2>2. ASSUME NEW d \in Addresses, udpWriter' = [udpWriter EXCEPT !.step = "finds", !.to = {d}],
               UNCHANGED bodies
        PROVE  AssociationInv'
    <3>1. udpWriter' \in Writers /\ udpWriter'.step = "finds" /\ udpWriter'.to = {d}
      BY <1>inv, <2>2 DEF Writers
    <3>2. WriterKnows'
      BY <3>1 DEF WriterKnows
    <3> QED
      BY <1>num, <1>bod, <2>0, <2>2, <3>1, <3>2, TableUntouched
  <2> QED
    BY <1>4, <2>1, <2>2 DEF ResolveName
<1>5. CASE FindEndpoint
  <2>0. /\ udpWriter.step = "finds" /\ UNCHANGED <<bodies, dials, readers, hour, ending>>
    BY <1>5 DEF FindEndpoint
  <2>1. ASSUME NEW d \in udpWriter.to, endpoints[d] # 0, SendsOn(endpoints[d]),
               aliases' = [aliases EXCEPT ![Head(bodies)] = {d}],
               UNCHANGED <<endpoints, udpSockets, gauge>>
        PROVE  AssociationInv'
    <3>1. d \in Addresses /\ endpoints[d] \in Nat
      BY <1>inv, <1>fin, <2>0 DEF AssociationType, WriterKnows
    <3>2. udpWriter' \in Writers /\ udpWriter'.step = "sends"
      BY <2>1, <3>1 DEF SendsOn, Writing, Writers
    <3>3. aliases' \in [Names -> SUBSET Addresses]
          /\ \A m \in Names : \A x \in aliases'[m] : endpoints[x] # 0
      BY <1>inv, <1>bod, <2>0, <2>1, <3>1 DEF AssociationType, TableWorks
    <3>4. AssociationType'
      BY <1>inv, <1>bod, <2>0, <2>1, <3>2, <3>3 DEF AssociationType
    <3>5. Listed' = Listed
      BY <2>1 DEF Listed
    <3>6. TableWorks'
      BY <1>inv, <2>0, <2>1, <3>3, <3>5 DEF TableWorks
    <3>7. ReadersKnow' /\ GaugeCovers'
      BY <1>inv, <2>0, <2>1, <3>5 DEF ReadersKnow, GaugeCovers
    <3>8. NoneForgotten'
      BY <1>inv, <2>0, <2>1, <3>5 DEF NoneForgotten
    <3> QED
      BY <1>free, <3>2, <3>4, <3>6, <3>7, <3>8 DEF AssociationInv
  <2>2. ASSUME NEW d \in udpWriter.to, endpoints[d] = 0,
               NEW idle, idle = {e \in Listed : Idle(e)},
               NEW evicted \in Evicts(Listed \ idle), NEW gone, gone = idle \cup evicted,
               endpoints' = [x \in Addresses |-> IF endpoints[x] \in gone THEN 0 ELSE endpoints[x]],
               ForgetNames({x \in Addresses : endpoints[x] \in gone}),
               udpSockets' = udpSockets \ gone,
               gauge' = gauge - Cardinality(evicted),
               udpWriter' = [udpWriter EXCEPT !.step = "dials"]
        PROVE  AssociationInv'
    <3>1. Listed' = Listed \ gone
      BY <1>inv, <2>2, ListedWithout
    <3>2. gone \subseteq Listed /\ idle \subseteq Listed /\ 0 \notin gone
      BY <1>fin, <2>2 DEF Evicts, Oldest
    <3>3. IsFiniteSet(Listed \ idle) /\ Cardinality(Listed \ idle) <= Cardinality(Listed)
          /\ Cardinality(Listed \ idle) \in Nat
      BY <1>fin, FS_Subset, FS_CardinalityType
    <3>4. /\ Cardinality(Listed') = Cardinality(Listed \ idle) - Cardinality(evicted)
          /\ Cardinality(evicted) \in Nat /\ Cardinality(Listed') \in Nat
          /\ Cardinality(Listed') < MaxTargets
      <4>1. CASE evicted = {}
        <5>1. Listed' = Listed \ idle /\ Cardinality(evicted) = 0
          BY <2>2, <3>1, <4>1, FS_EmptySet
        <5>2. ~(Cardinality(Listed \ idle) >= MaxTargets)
          BY <2>2, <4>1 DEF Evicts
        <5> QED
          BY <1>num, <3>3, <5>1, <5>2
      <4>2. CASE evicted # {}
        <5>1. PICK e \in Listed \ idle : evicted = {e}
          BY <2>2, <4>2 DEF Evicts, Oldest
        <5>2. Listed' = (Listed \ idle) \ {e}
          BY <2>2, <3>1, <5>1
        <5>3. Cardinality(Listed') = Cardinality(Listed \ idle) - 1
          BY <3>3, <5>1, <5>2, FS_RemoveElement
        <5>4. Cardinality(evicted) = 1
          BY <5>1, FS_Singleton
        <5>5. IsFiniteSet(Listed')
          BY <3>3, <5>2, FS_Subset
        <5>6. Cardinality(Listed') \in Nat
          BY <5>5, FS_CardinalityType
        <5>7. Cardinality(Listed) <= MaxTargets
          BY <1>inv DEF TableWorks
        <5> QED
          BY <1>num, <1>fin, <3>3, <5>3, <5>4, <5>6, <5>7
      <4> QED
        BY <4>1, <4>2
    <3>5. udpWriter' \in Writers /\ udpWriter'.step = "dials" /\ udpWriter'.to = udpWriter.to
      BY <1>inv, <2>2 DEF Writers
    <3>6. endpoints' \in [Addresses -> 0 .. dials]
      BY <1>inv, <1>fin, <2>2 DEF AssociationType
    <3>7. aliases' \in [Names -> SUBSET Addresses]
          /\ \A m \in Names : \A x \in aliases'[m] : endpoints'[x] # 0
      BY <1>inv, <2>2 DEF ForgetNames, AssociationType, TableWorks
    <3>8. AssociationType'
      <4>1. gauge' \in Int
        BY <1>num, <2>2, <3>4
      <4>2. udpSockets' \subseteq 1 .. dials'
        BY <1>inv, <2>0, <2>2 DEF AssociationType
      <4> QED
        BY <1>inv, <1>bod, <2>0, <3>5, <3>6, <3>7, <4>1, <4>2 DEF AssociationType
    <3>9. WriterKnows'
      <4>1. PICK x \in Addresses : udpWriter.to = {x}
        BY <1>inv, <2>0 DEF WriterKnows
      <4>2. endpoints'[d] = 0 /\ d \in Addresses /\ udpWriter'.to = {d}
        BY <1>inv, <2>2, <3>2, <3>5, <4>1 DEF AssociationType
      <4> QED
        BY <3>4, <3>5, <4>2 DEF WriterKnows
    <3>10. TableWorks'
      <4>1. \A d1, d2 \in Addresses : endpoints'[d1] = endpoints'[d2] /\ endpoints'[d1] # 0 => d1 = d2
        BY <1>inv, <2>2 DEF TableWorks
      <4>2. Listed' \subseteq udpSockets'
        BY <1>inv, <2>2, <3>1 DEF TableWorks
      <4>3. ending' = "open" => \A e \in Listed' : readers'[e] \in {"reads", "removes"}
        BY <1>inv, <2>0, <3>1 DEF TableWorks
      <4> QED
        BY <1>num, <3>4, <3>7, <4>1, <4>2, <4>3 DEF TableWorks
    <3>11. ReadersKnow'
      BY <1>inv, <2>0, <3>1 DEF ReadersKnow
    <3>12. NoneForgotten'
      BY <1>inv, <2>0, <2>2, <3>1 DEF NoneForgotten
    <3>13. GaugeCovers'
      <4>1. gauge >= Cardinality(Listed)
        BY <1>inv DEF GaugeCovers
      <4> QED
        BY <1>num, <1>fin, <2>2, <3>3, <3>4, <4>1 DEF GaugeCovers
    <3> QED
      BY <3>5, <3>8, <3>9, <3>10, <3>11, <3>12, <3>13 DEF AssociationInv
  <2> QED
    <3>1. PICK d \in udpWriter.to :
             IF endpoints[d] # 0
             THEN /\ SendsOn(endpoints[d]) /\ aliases' = [aliases EXCEPT ![Head(bodies)] = {d}]
                  /\ UNCHANGED <<endpoints, udpSockets, gauge>>
             ELSE LET idle == {e \in Listed : Idle(e)} IN
                  \E evicted \in Evicts(Listed \ idle) :
                    LET gone == idle \cup evicted IN
                    /\ endpoints' = [x \in Addresses |-> IF endpoints[x] \in gone THEN 0 ELSE endpoints[x]]
                    /\ ForgetNames({x \in Addresses : endpoints[x] \in gone})
                    /\ udpSockets' = udpSockets \ gone
                    /\ gauge' = gauge - Cardinality(evicted)
                    /\ udpWriter' = [udpWriter EXCEPT !.step = "dials"] /\ UNCHANGED lastUsed
      BY <1>5 DEF FindEndpoint
    <3>2. CASE endpoints[d] # 0
      BY <2>1, <3>1, <3>2
    <3>3. CASE endpoints[d] = 0
      <4> DEFINE idle == {e \in Listed : Idle(e)}
      <4>1. PICK evicted \in Evicts(Listed \ idle) :
              /\ endpoints' = [x \in Addresses |-> IF endpoints[x] \in idle \cup evicted THEN 0 ELSE endpoints[x]]
              /\ ForgetNames({x \in Addresses : endpoints[x] \in idle \cup evicted})
              /\ udpSockets' = udpSockets \ (idle \cup evicted)
              /\ gauge' = gauge - Cardinality(evicted)
              /\ udpWriter' = [udpWriter EXCEPT !.step = "dials"]
        BY <3>1, <3>3
      <4> HIDE DEF idle
      <4>2. idle = {e \in Listed : Idle(e)}
        BY DEF idle
      <4> QED
        BY <2>2, <3>3, <4>1, <4>2
    <3> QED
      BY <3>2, <3>3
<1>6. CASE DialEndpoint
  <2>0. /\ udpWriter.step = "dials"
        /\ UNCHANGED <<endpoints, aliases, readers, gauge, hour, ending>>
    BY <1>6 DEF DialEndpoint
  <2>1. CASE NextBody /\ UNCHANGED <<dials, udpSockets>>
    <3>1. /\ udpWriter' \in Writers /\ udpWriter'.step \in {"idle", "asks"}
          /\ bodies' \in Seq(Names) /\ (udpWriter'.step # "idle" => bodies' # <<>>)
      BY <1>num, <1>bod, <2>0, <2>1, WriterGoesOn
    <3> QED
      BY <1>num, <1>free, <2>0, <2>1, <3>1, TableUntouched
  <2>2. ASSUME dials < MaxEndpoints, dials' = dials + 1,
               udpSockets' = udpSockets \cup {dials + 1},
               udpWriter' = [udpWriter EXCEPT !.step = "dialed", !.conn = dials + 1],
               UNCHANGED bodies
        PROVE  AssociationInv'
    <3>1. dials + 1 \in Nat /\ dials + 1 \in Endpoints /\ dials + 1 > dials
      BY <1>fin, <1>num, <2>2 DEF Endpoints
    <3>2. udpWriter' \in Writers /\ udpWriter'.step = "dialed" /\ udpWriter'.conn = dials + 1
          /\ udpWriter'.to = udpWriter.to
      BY <1>inv, <2>2, <3>1 DEF Writers
    <3>3. Listed' = Listed
      BY <2>0 DEF Listed
    <3>4. AssociationType'
      <4>1. endpoints' \in [Addresses -> 0 .. dials']
        BY <1>inv, <1>fin, <2>0, <2>2 DEF AssociationType
      <4>2. dials' \in 0 .. MaxEndpoints /\ udpSockets' \subseteq 1 .. dials'
        BY <1>inv, <1>fin, <1>num, <2>2 DEF AssociationType
      <4> QED
        BY <1>inv, <1>bod, <2>0, <2>2, <4>1, <4>2 DEF AssociationType
    <3>5. readers[dials + 1] = "none" /\ dials + 1 \notin Listed
      BY <1>inv, <1>fin, <3>1 DEF ReadersKnow
    <3>6. WriterKnows'
      BY <1>inv, <2>0, <2>2, <3>2, <3>3, <3>5 DEF WriterKnows
    <3>7. ReadersKnow'
      BY <1>inv, <1>fin, <2>0, <2>2, <3>3 DEF ReadersKnow, Endpoints
    <3>8. TableWorks' /\ GaugeCovers'
      BY <1>inv, <2>0, <2>2, <3>3 DEF TableWorks, GaugeCovers
    <3>9. NoneForgotten'
      BY <1>inv, <2>0, <2>2, <3>2, <3>3 DEF NoneForgotten
    <3> QED
      BY <3>2, <3>4, <3>6, <3>7, <3>8, <3>9 DEF AssociationInv
  <2> QED
    BY <1>6, <2>1, <2>2 DEF DialEndpoint
<1>7. CASE RegisterEndpoint
  <2> DEFINE e == udpWriter.conn
  <2>0. /\ udpWriter.step = "dialed" /\ UNCHANGED <<bodies, dials, udpSockets, hour, ending>>
        /\ gauge' = gauge + 1 /\ readers' = [readers EXCEPT ![e] = "reads"] /\ SendsOn(e)
    BY <1>7 DEF RegisterEndpoint
  <2>1. PICK d \in udpWriter.to : /\ endpoints' = [endpoints EXCEPT ![d] = e]
                                 /\ aliases' = [aliases EXCEPT ![Head(bodies)] = {d}]
    BY <1>7 DEF RegisterEndpoint
  <2>2. /\ d \in Addresses /\ endpoints[d] = 0 /\ Cardinality(Listed) < MaxTargets
        /\ e = dials /\ e \in udpSockets /\ e \notin Listed /\ readers[e] = "none"
    BY <1>inv, <2>0 DEF WriterKnows
  <2>3. e \in Nat /\ e # 0 /\ e \in Endpoints
    BY <1>inv, <1>fin, <1>num, <2>2 DEF AssociationType, Endpoints
  <2> HIDE DEF e
  <2>4. udpWriter' \in Writers /\ udpWriter'.step = "sends"
    BY <2>0, <2>3 DEF SendsOn, Writing, Writers
  <2>5. Listed' = Listed \cup {e}
    BY <1>inv, <2>1, <2>2, <2>3 DEF AssociationType, Listed
  <2>6. Cardinality(Listed') = Cardinality(Listed) + 1
    BY <1>fin, <2>2, <2>5, FS_AddElement
  <2>7. aliases' \in [Names -> SUBSET Addresses]
        /\ \A m \in Names : \A x \in aliases'[m] : endpoints'[x] # 0
    BY <1>inv, <1>bod, <2>0, <2>1, <2>2, <2>3 DEF AssociationType, TableWorks
  <2>8. AssociationType'
    <3>1. endpoints' \in [Addresses -> 0 .. dials]
      BY <1>inv, <1>fin, <2>1, <2>2, <2>3 DEF AssociationType
    <3>2. gauge' \in Int
      BY <1>num, <2>0
    <3>3. readers' \in [Endpoints -> {"none", "reads", "removes", "closes", "ended"}]
      BY <1>inv, <2>0 DEF AssociationType
    <3> QED
      BY <1>inv, <1>bod, <2>0, <2>4, <2>7, <3>1, <3>2, <3>3 DEF AssociationType
  <2>9. TableWorks'
    <3>1. \A d1, d2 \in Addresses : endpoints'[d1] = endpoints'[d2] /\ endpoints'[d1] # 0 => d1 = d2
      <4>1. \A x \in Addresses : x # d => endpoints'[x] = endpoints[x] /\ endpoints[x] # e
        BY <1>inv, <2>1, <2>2, <2>3 DEF AssociationType, Listed
      <4>2. endpoints'[d] = e
        BY <1>inv, <2>1, <2>2 DEF AssociationType
      <4> QED
        BY <1>inv, <4>1, <4>2 DEF TableWorks
    <3>2. Listed' \subseteq udpSockets'
      BY <1>inv, <2>0, <2>2, <2>5 DEF TableWorks
    <3>3. Cardinality(Listed') <= MaxTargets
      BY <1>fin, <1>num, <2>2, <2>6
    <3>4. ending' = "open" => \A x \in Listed' : readers'[x] \in {"reads", "removes"}
      <4>1. \A x \in Listed' : x \in Endpoints
        BY <1>fin, <1>num, <1>inv, <2>3, <2>5 DEF AssociationType, Endpoints
      <4> QED
        BY <1>inv, <2>0, <2>3, <2>5, <4>1 DEF TableWorks, AssociationType
    <3> QED
      BY <2>7, <3>1, <3>2, <3>3, <3>4 DEF TableWorks
  <2>10. ReadersKnow'
    BY <1>inv, <1>fin, <2>0, <2>2, <2>3, <2>5 DEF ReadersKnow, AssociationType, Endpoints
  <2>11. NoneForgotten'
    <3>1. \A x \in udpSockets \ Listed' : readers[x] = "closes"
      BY <1>inv, <2>0, <2>5 DEF NoneForgotten, e
    <3>2. \A x \in udpSockets \ Listed' : readers'[x] = readers[x]
      BY <1>inv, <1>fin, <1>num, <2>0, <2>5 DEF AssociationType, Endpoints
    <3> QED
      BY <2>0, <3>1, <3>2 DEF NoneForgotten
  <2>12. GaugeCovers'
    <3>1. gauge >= Cardinality(Listed)
      BY <1>inv DEF GaugeCovers
    <3> QED
      BY <1>num, <1>fin, <2>0, <2>6, <3>1 DEF GaugeCovers
  <2> QED
    BY <1>free, <2>4, <2>8, <2>9, <2>10, <2>11, <2>12 DEF AssociationInv
<1>8. CASE SendDatagram
  <2>0. /\ udpWriter.step = "sends"
        /\ UNCHANGED <<endpoints, aliases, dials, udpSockets, readers, gauge, hour, ending>>
    BY <1>8 DEF SendDatagram
  <2>1. CASE NextBody
    <3>1. /\ udpWriter' \in Writers /\ udpWriter'.step \in {"idle", "asks"}
          /\ bodies' \in Seq(Names) /\ (udpWriter'.step # "idle" => bodies' # <<>>)
      BY <1>num, <1>bod, <2>0, <2>1, WriterGoesOn
    <3> QED
      BY <1>num, <1>free, <2>0, <2>1, <3>1, TableUntouched
  <2>2. CASE udpWriter' = [udpWriter EXCEPT !.step = "removes"] /\ UNCHANGED bodies
    <3>1. udpWriter' \in Writers /\ udpWriter'.step = "removes"
      BY <1>inv, <2>2 DEF Writers
    <3> QED
      BY <1>num, <1>bod, <1>free, <2>0, <2>2, <3>1, TableUntouched
  <2> QED
    BY <1>8, <2>1, <2>2 DEF SendDatagram
<1>un. ASSUME NEW e, Unlists(e)
       PROVE  /\ Listed' = Listed \ {e}
              /\ endpoints' \in [Addresses -> 0 .. dials]
              /\ aliases' \in [Names -> SUBSET Addresses] /\ gauge' \in Int
              /\ \A d1, d2 \in Addresses : endpoints'[d1] = endpoints'[d2] /\ endpoints'[d1] # 0 => d1 = d2
              /\ Cardinality(Listed') <= MaxTargets
              /\ \A m \in Names : \A x \in aliases'[m] : endpoints'[x] # 0
              /\ GaugeCovers'
  <2>1. endpoints' = [x \in Addresses |-> IF endpoints[x] \in {e} THEN 0 ELSE endpoints[x]]
    BY <1>un DEF Unlists
  <2>2. Listed' = Listed \ {e}
    BY <1>inv, <2>1, ListedWithout
  <2>3. Cardinality(Listed') = IF e \in Listed THEN Cardinality(Listed) - 1 ELSE Cardinality(Listed)
    BY <1>fin, <2>2, FS_RemoveElement
  <2>4. endpoints' \in [Addresses -> 0 .. dials]
    BY <1>inv, <1>fin, <2>1 DEF AssociationType
  <2>5. aliases' \in [Names -> SUBSET Addresses]
        /\ \A m \in Names : \A x \in aliases'[m] : endpoints'[x] # 0
    BY <1>inv, <1>un DEF Unlists, ForgetNames, AssociationType, TableWorks
  <2>6. gauge' = IF e \in Listed THEN gauge - 1 ELSE gauge
    BY <1>un DEF Unlists
  <2>7. gauge >= Cardinality(Listed) /\ Cardinality(Listed) <= MaxTargets
    BY <1>inv DEF GaugeCovers, TableWorks
  <2>8. gauge' \in Int /\ Cardinality(Listed') <= MaxTargets /\ gauge' >= Cardinality(Listed')
    BY <1>num, <1>fin, <2>3, <2>6, <2>7
  <2>9. \A d1, d2 \in Addresses : endpoints'[d1] = endpoints'[d2] /\ endpoints'[d1] # 0 => d1 = d2
    BY <1>inv, <2>1 DEF TableWorks
  <2> QED
    BY <2>2, <2>4, <2>5, <2>8, <2>9 DEF GaugeCovers
<1>9. CASE WriterRemoves
  <2> DEFINE e == udpWriter.conn
  <2>0. /\ udpWriter.step = "removes" /\ Unlists(e) /\ udpWriter' = [udpWriter EXCEPT !.step = "closes"]
        /\ UNCHANGED <<bodies, dials, udpSockets, readers, hour, ending>>
    BY <1>9 DEF WriterRemoves
  <2>1. udpWriter' \in Writers /\ udpWriter'.step = "closes" /\ udpWriter'.conn = e
    BY <1>inv, <2>0 DEF Writers
  <2>2. Listed' = Listed \ {e}
    BY <1>un, <2>0
  <2>3. AssociationType'
    BY <1>inv, <1>bod, <1>un, <2>0, <2>1 DEF AssociationType
  <2>4. WriterKnows'
    BY <2>1, <2>2 DEF WriterKnows
  <2>5. ReadersKnow'
    BY <1>inv, <2>0, <2>2 DEF ReadersKnow
  <2>6. TableWorks' /\ GaugeCovers'
    BY <1>inv, <1>un, <2>0, <2>2 DEF TableWorks
  <2>7. NoneForgotten'
    BY <1>inv, <2>0, <2>1, <2>2 DEF NoneForgotten
  <2> QED
    BY <2>1, <2>3, <2>4, <2>5, <2>6, <2>7 DEF AssociationInv
<1>10. CASE WriterCloses
  <2> DEFINE e == udpWriter.conn
  <2>0. /\ udpWriter.step = "closes" /\ udpSockets' = udpSockets \ {e} /\ NextBody
        /\ UNCHANGED <<endpoints, aliases, dials, readers, gauge, hour, ending>>
    BY <1>10 DEF WriterCloses
  <2>1. /\ udpWriter' \in Writers /\ udpWriter'.step \in {"idle", "asks"}
        /\ bodies' \in Seq(Names) /\ (udpWriter'.step # "idle" => bodies' # <<>>)
    BY <1>num, <1>bod, <2>0, WriterGoesOn
  <2>2. Listed' = Listed /\ e \notin Listed
    BY <1>inv, <2>0 DEF Listed, WriterKnows
  <2>3. AssociationType'
    BY <1>inv, <2>0, <2>1 DEF AssociationType
  <2>4. ReadersKnow' /\ GaugeCovers'
    BY <1>inv, <2>0, <2>2 DEF ReadersKnow, GaugeCovers
  <2>5. TableWorks'
    BY <1>inv, <2>0, <2>2 DEF TableWorks
  <2>6. NoneForgotten'
    BY <1>inv, <2>0, <2>2 DEF NoneForgotten
  <2> QED
    BY <1>free, <2>1, <2>3, <2>4, <2>5, <2>6 DEF AssociationInv
<1>11. ASSUME NEW e \in Endpoints, Reply(e) \/ ReadFails(e) PROVE AssociationInv'
  <2>0. /\ readers[e] = "reads"
        /\ UNCHANGED <<bodies, udpWriter, endpoints, aliases, dials, udpSockets, gauge, hour, ending>>
        /\ \/ UNCHANGED readers
           \/ readers' = [readers EXCEPT ![e] = "removes"]
           \/ readers' = [readers EXCEPT ![e] = "ended"] /\ ending # "open"
    BY <1>11 DEF Reply, ReadFails
  <2>1. Listed' = Listed
    BY <2>0 DEF Listed
  <2>2. /\ readers' \in [Endpoints -> {"none", "reads", "removes", "closes", "ended"}]
        /\ \A x \in Endpoints : x # e => readers'[x] = readers[x]
        /\ readers'[e] \in {"reads", "removes", "ended"} /\ (ending = "open" => readers'[e] # "ended")
    BY <1>inv, <2>0 DEF AssociationType
  <2>3. AssociationType'
    BY <1>inv, <2>0, <2>2 DEF AssociationType
  <2>4. \A x \in Listed \cup udpSockets : x \in Endpoints
    BY <1>inv, <1>fin, <1>num DEF AssociationType, Endpoints
  <2>5. WriterKnows'
    <3>1. udpWriter.step = "dialed" => readers'[dials] = "none"
      BY <1>inv, <2>0, <2>2, <2>4 DEF WriterKnows
    <3> QED
      BY <1>inv, <2>0, <2>1, <3>1 DEF WriterKnows
  <2>6. ReadersKnow'
    BY <1>inv, <2>0, <2>1, <2>2 DEF ReadersKnow
  <2>7. TableWorks' /\ GaugeCovers'
    BY <1>inv, <2>0, <2>1, <2>2, <2>4 DEF TableWorks, GaugeCovers
  <2>8. NoneForgotten'
    BY <1>inv, <2>0, <2>1, <2>2, <2>4 DEF NoneForgotten
  <2> QED
    BY <1>inv, <2>0, <2>3, <2>5, <2>6, <2>7, <2>8 DEF AssociationInv
<1>12. ASSUME NEW e \in Endpoints, ReaderRemoves(e) PROVE AssociationInv'
  <2>0. /\ readers[e] = "removes" /\ Unlists(e) /\ readers' = [readers EXCEPT ![e] = "closes"]
        /\ UNCHANGED <<bodies, udpWriter, dials, udpSockets, hour, ending>>
    BY <1>12 DEF ReaderRemoves
  <2>1. Listed' = Listed \ {e}
    BY <1>un, <2>0
  <2>2. /\ readers' \in [Endpoints -> {"none", "reads", "removes", "closes", "ended"}]
        /\ \A x \in Endpoints : x # e => readers'[x] = readers[x]
        /\ readers'[e] = "closes"
    BY <1>inv, <2>0 DEF AssociationType
  <2>3. AssociationType'
    BY <1>inv, <1>bod, <1>un, <2>0, <2>2 DEF AssociationType
  <2>4. \A x \in Listed \cup udpSockets : x \in Endpoints
    BY <1>inv, <1>fin, <1>num DEF AssociationType, Endpoints
  <2>5. WriterKnows'
    <3>1. udpWriter.step = "dialed" => readers'[dials] = "none"
      BY <1>inv, <2>0, <2>2, <2>4 DEF WriterKnows
    <3>2. \A d \in Addresses : endpoints[d] = 0 => endpoints'[d] = 0
      BY <2>0 DEF Unlists
    <3>3. Cardinality(Listed') <= Cardinality(Listed) /\ Cardinality(Listed') \in Nat
      BY <1>fin, <2>1, FS_Subset, FS_CardinalityType
    <3>4. udpWriter.step \in {"dials", "dialed"} => Cardinality(Listed') < MaxTargets
      BY <1>inv, <1>fin, <1>num, <3>3 DEF WriterKnows
    <3>5. udpWriter.step \in {"finds", "dials", "dialed"} => udpWriter.to \subseteq Addresses
      BY <1>inv DEF WriterKnows
    <3> QED
      BY <1>inv, <2>0, <2>1, <3>1, <3>2, <3>4, <3>5 DEF WriterKnows
  <2>6. ReadersKnow'
    BY <1>inv, <1>fin, <2>0, <2>1, <2>2 DEF ReadersKnow, AssociationType
  <2>7. TableWorks' /\ GaugeCovers'
    BY <1>inv, <1>un, <2>0, <2>1, <2>2, <2>4 DEF TableWorks
  <2>8. NoneForgotten'
    BY <1>inv, <2>0, <2>1, <2>2, <2>4 DEF NoneForgotten
  <2> QED
    BY <1>inv, <2>0, <2>3, <2>5, <2>6, <2>7, <2>8 DEF AssociationInv
<1>13. ASSUME NEW e \in Endpoints, ReaderCloses(e) PROVE AssociationInv'
  <2>0. /\ readers[e] = "closes" /\ readers' = [readers EXCEPT ![e] = "ended"]
        /\ udpSockets' = udpSockets \ {e}
        /\ UNCHANGED <<bodies, udpWriter, endpoints, aliases, dials, gauge, hour, ending>>
    BY <1>13 DEF ReaderCloses
  <2>1. Listed' = Listed /\ e \notin Listed
    BY <1>inv, <2>0 DEF Listed, ReadersKnow
  <2>2. /\ readers' \in [Endpoints -> {"none", "reads", "removes", "closes", "ended"}]
        /\ \A x \in Endpoints : x # e => readers'[x] = readers[x]
        /\ readers'[e] = "ended"
    BY <1>inv, <2>0 DEF AssociationType
  <2>3. AssociationType'
    BY <1>inv, <2>0, <2>2 DEF AssociationType
  <2>4. \A x \in Listed \cup udpSockets : x \in Endpoints
    BY <1>inv, <1>fin, <1>num DEF AssociationType, Endpoints
  <2>5. WriterKnows'
    <3>1. udpWriter.step = "dialed" => dials # e /\ readers'[dials] = "none" /\ dials \in udpSockets'
      BY <1>inv, <2>0, <2>2, <2>4 DEF WriterKnows
    <3> QED
      BY <1>inv, <2>0, <2>1, <3>1 DEF WriterKnows
  <2>6. ReadersKnow'
    BY <1>inv, <2>0, <2>1, <2>2 DEF ReadersKnow
  <2>7. TableWorks' /\ GaugeCovers'
    BY <1>inv, <2>0, <2>1, <2>2, <2>4 DEF TableWorks, GaugeCovers
  <2>8. NoneForgotten'
    BY <1>inv, <2>0, <2>1, <2>2, <2>4 DEF NoneForgotten
  <2> QED
    BY <1>inv, <2>0, <2>3, <2>5, <2>6, <2>7, <2>8 DEF AssociationInv
<1>14. CASE CloseEndpoints
  <2>0. /\ ending' = "closed" /\ udpSockets' = udpSockets \ Listed
        /\ endpoints' = [d \in Addresses |-> 0] /\ aliases' = [n \in Names |-> {}]
        /\ gauge' = gauge - Cardinality(Listed)
        /\ UNCHANGED <<bodies, udpWriter, dials, readers, hour>>
    BY <1>14 DEF CloseEndpoints
  <2>1. Listed' = {} /\ Cardinality(Listed') = 0
    BY <2>0, FS_EmptySet DEF Listed
  <2>2. gauge' \in Int /\ GaugeCovers'
    <3>1. gauge >= Cardinality(Listed)
      BY <1>inv DEF GaugeCovers
    <3> QED
      BY <1>num, <1>fin, <2>0, <2>1, <3>1 DEF GaugeCovers
  <2>3. AssociationType'
    <3>1. endpoints' \in [Addresses -> 0 .. dials] /\ aliases' \in [Names -> SUBSET Addresses]
      BY <1>fin, <2>0
    <3> QED
      BY <1>inv, <2>0, <2>2, <3>1 DEF AssociationType
  <2>4. WriterKnows'
    <3>1. udpWriter.step \in {"finds", "dials", "dialed"} => udpWriter.to \subseteq Addresses
      BY <1>inv DEF WriterKnows
    <3> QED
      BY <1>inv, <1>num, <2>0, <2>1, <3>1 DEF WriterKnows
  <2>5. ReadersKnow'
    BY <1>inv, <2>0, <2>1 DEF ReadersKnow
  <2>6. TableWorks'
    BY <1>num, <2>0, <2>1 DEF TableWorks
  <2>7. NoneForgotten'
    BY <1>inv, <2>0, <2>1 DEF NoneForgotten
  <2> QED
    BY <1>inv, <2>0, <2>2, <2>3, <2>4, <2>5, <2>6, <2>7 DEF AssociationInv
<1>15. CASE UNCHANGED udpVars
  <2>1. UNCHANGED <<bodies, udpWriter, endpoints, aliases, dials, udpSockets, readers, gauge, hour, ending>>
    BY <1>15 DEF udpVars
  <2> QED
    BY <1>inv, <1>num, <1>bod, <1>same, <2>1, TableUntouched
<1> QED
  BY <1>1, <1>2, <1>3, <1>4, <1>5, <1>6, <1>7, <1>8, <1>9, <1>10, <1>11, <1>12, <1>13, <1>14, <1>15
  DEF UDPNext

\* The table of an association is right, no open socket is forgotten, and the
\* gauge covers the sockets in the table: for any number of names, of addresses
\* and of sockets, however expiry, eviction, failure and the close come
\* together.
THEOREM AssociationIsSound == UDPSpec => []AssociationSound
<1>1. AssociationInv => AssociationSound
  BY DEF AssociationInv, AssociationSound
<1> QED
  BY <1>1, AssociationInvInit, AssociationInvStep, PTL DEF UDPSpec

-----------------------------------------------------------------------------
(* The queries for one question, on the server.                             *)

Stages == {"new", "acquire", "waiting", "second_look", "order", "resolving", "resolved",
           "failed", "keep", "done"}
Races == [first : Upstreams \cup {"none"}, asked : SUBSET Upstreams,
          failed : SUBSET Upstreams, late : BOOLEAN]

ResolveType ==
    /\ at \in [Queries -> Stages] /\ answered \in [Queries -> {"none", "answer", "failure"}]
    /\ entry \in Queries \cup {NoLead}
    /\ entryOf \in [Queries -> Queries \cup {NoLead}]
    /\ ready \in [Queries -> {"open", "value", "empty"}]

\* A race is lost when all upstream servers failed, and only those can.
RaceType == race \in [Queries -> Races]
Lost(q) == race[q].late \/ race[q].failed = Upstreams
LostInTime == \A q \in Queries : at[q] = "failed" => Lost(q)

\* What a query has, by where it stands.
StageFacts ==
    \A q \in Queries :
       /\ at[q] \in {"new", "acquire"} =>
             entryOf[q] = NoLead /\ ready[q] = "open" /\ q \notin replaced \cup taken
       /\ at[q] \in {"waiting", "second_look"} => entryOf[q] # q
       /\ Leading(q) \/ at[q] = "keep" => entryOf[q] = q
       /\ at[q] # "done" => answered[q] = "none"

\* The entry in the map is that of a leader, and who leads another has lost
\* its own.
MapFacts ==
    /\ entry # NoLead => Leading(entry) /\ ready[entry] = "open" /\ entry \notin replaced \cup taken
    /\ \A q \in Queries : Leading(q) /\ q \notin replaced \cup taken => q = entry

ResolveInv ==
    /\ ResolveType /\ RaceType /\ StageFacts /\ MapFacts
    /\ LostInTime /\ EntryResolved /\ FailureJust

\* It holds at the start.
LEMMA ResolveInvInit == ResolveInit => ResolveInv
<1> SUFFICES ASSUME ResolveInit PROVE ResolveInv
  OBVIOUS
<1>1. ResolveType
  BY DEF ResolveInit, ResolveType, Stages
<1>2. RaceType
  BY DEF ResolveInit, RaceType, Races, NoRace
<1>3. StageFacts
  BY DEF ResolveInit, StageFacts, Leading
<1>4. MapFacts /\ LostInTime
  BY DEF ResolveInit, MapFacts, LostInTime, Leading
<1>5. EntryResolved /\ FailureJust
  BY DNSResolveAssumption DEF ResolveInit, EntryResolved, FailureJust
<1> QED
  BY <1>1, <1>2, <1>3, <1>4, <1>5 DEF ResolveInv

\* One query goes on and may be answered; no entry changes hands.
LEMMA QueryGoesOn ==
    ASSUME ResolveInv, NEW q \in Queries, NEW x \in Stages, NEW a \in {"none", "answer", "failure"},
           at' = [at EXCEPT ![q] = x], answered' = [answered EXCEPT ![q] = a],
           UNCHANGED <<entry, entryOf, ready, replaced, taken>>,
           RaceType', \A p \in Queries : Lost(p) => Lost(p)',
           x = "failed" => Lost(q)',
           x # "done" => a = "none",
           (x \in {"order", "resolving", "resolved", "failed"}) <=> Leading(q),
           x \in {"new", "acquire"} => at[q] \in {"new", "acquire"},
           x \in {"waiting", "second_look"} => at[q] \in {"waiting", "second_look"},
           x = "keep" => at[q] = "keep",
           a = "failure" => entryOf[q] # q \/ (answered[q] = "failure" /\ Lost(q)),
           entryOf[q] = q => ((a = "failure") <=> (answered[q] = "failure"))
    PROVE  ResolveInv'
<1>inv. /\ ResolveType /\ RaceType /\ StageFacts /\ MapFacts
        /\ LostInTime /\ EntryResolved /\ FailureJust
  BY DEF ResolveInv
<1>1. /\ at'[q] = x /\ \A p \in Queries : p # q => at'[p] = at[p]
      /\ answered'[q] = a /\ \A p \in Queries : p # q => answered'[p] = answered[p]
  BY <1>inv DEF ResolveType
<1>2. \A p \in Queries : Leading(p)' <=> Leading(p)
  BY <1>1 DEF Leading
<1>3. ResolveType'
  BY <1>inv DEF ResolveType
<1>4. StageFacts'
  BY <1>inv, <1>1, <1>2 DEF StageFacts
<1>5. MapFacts'
  <2>1. entry' # NoLead => Leading(entry)'
    BY <1>inv, <1>2, <1>3 DEF MapFacts, ResolveType
  <2> QED
    BY <1>inv, <1>2, <2>1 DEF MapFacts
<1>6. LostInTime'
  BY <1>inv, <1>1 DEF LostInTime
<1>7. EntryResolved'
  BY <1>inv, <1>1, <1>2 DEF EntryResolved
<1>8. FailureJust'
  BY <1>inv, <1>1 DEF FailureJust, Lost
<1> QED
  BY <1>3, <1>4, <1>5, <1>6, <1>7, <1>8 DEF ResolveInv

\* The queries stand where they are.
LEMMA QueriesStand ==
    ASSUME ResolveInv, UNCHANGED <<at, answered, entry, entryOf, ready, replaced, taken>>,
           RaceType', \A p \in Queries : Lost(p) => Lost(p)'
    PROVE  ResolveInv'
<1>1. ResolveType' /\ StageFacts'
  BY DEF ResolveInv, ResolveType, StageFacts, Leading
<1>2. MapFacts' /\ LostInTime'
  BY DEF ResolveInv, MapFacts, LostInTime, Leading
<1>3. EntryResolved'
  BY DEF ResolveInv, EntryResolved, Leading
<1>4. FailureJust'
  BY DEF ResolveInv, FailureJust, Lost
<1> QED
  BY <1>1, <1>2, <1>3, <1>4 DEF ResolveInv

\* A race goes on: who is lost stays lost.
LEMMA RaceGoesOn ==
    ASSUME RaceType, NEW q \in Queries, NEW r \in Races, race' = [race EXCEPT ![q] = r],
           Lost(q) => r.late \/ r.failed = Upstreams
    PROVE  /\ RaceType' /\ \A p \in Queries : Lost(p) => Lost(p)'
           /\ Lost(q)' <=> r.late \/ r.failed = Upstreams
BY DEF RaceType, Lost

\* Every step keeps it.
LEMMA ResolveInvStep == ResolveInv /\ [ResolveNext]_resolveVars => ResolveInv'
<1> SUFFICES ASSUME ResolveInv, [ResolveNext]_resolveVars PROVE ResolveInv'
  OBVIOUS
<1>inv. /\ ResolveType /\ RaceType /\ StageFacts /\ MapFacts
        /\ LostInTime /\ EntryResolved /\ FailureJust
  BY DEF ResolveInv
<1>race. ASSUME UNCHANGED race PROVE RaceType' /\ \A p \in Queries : Lost(p) => Lost(p)'
  BY <1>inv, <1>race DEF RaceType, Lost
<1>same. ASSUME NEW q \in Queries, UNCHANGED answered
         PROVE  answered' = [answered EXCEPT ![q] = answered[q]] /\ answered[q] \in {"none", "answer", "failure"}
  BY <1>inv, <1>same DEF ResolveType
<1>none. ASSUME NEW q \in Queries, at[q] # "done" PROVE answered[q] = "none"
  BY <1>inv, <1>none DEF StageFacts
<1>1. ASSUME NEW q \in Queries, LooksUp(q) PROVE ResolveInv'
  <2>0. /\ at[q] = "new" /\ ~Leading(q) /\ entryOf[q] # q /\ answered[q] = "none"
        /\ UNCHANGED <<entry, entryOf, ready, race, replaced, taken>>
    BY <1>1, <1>inv, DNSResolveAssumption DEF LooksUp, StageFacts, Leading
  <2>1. CASE Ends(q, "answer")
    BY <1>race, <2>0, <2>1, QueryGoesOn DEF Ends, Stages
  <2>2. CASE at' = [at EXCEPT ![q] = "acquire"] /\ UNCHANGED answered
    BY <1>race, <1>same, <2>0, <2>2, QueryGoesOn DEF Stages
  <2> QED
    BY <1>1, <2>1, <2>2 DEF LooksUp
<1>2. ASSUME NEW q \in Queries, Acquire(q) PROVE ResolveInv'
  <2>0. /\ at[q] = "acquire" /\ entryOf[q] = NoLead /\ ready[q] = "open" /\ q \notin replaced \cup taken
        /\ ~Leading(q) /\ q # entry
        /\ UNCHANGED <<answered, ready, race, taken>>
    BY <1>2, <1>inv, DNSResolveAssumption DEF Acquire, StageFacts, MapFacts, Leading
  <2>r. RaceType' /\ \A p \in Queries : Lost(p) => Lost(p)'
    BY <1>race, <2>0
  <2>1. ASSUME entry # NoLead, entryOf' = [entryOf EXCEPT ![q] = entry],
               at' = [at EXCEPT ![q] = "waiting"], UNCHANGED <<entry, replaced>>
        PROVE  ResolveInv'
    <3>1. /\ at'[q] = "waiting" /\ \A p \in Queries : p # q => at'[p] = at[p]
          /\ entryOf'[q] = entry /\ \A p \in Queries : p # q => entryOf'[p] = entryOf[p]
      BY <1>inv, <2>1 DEF ResolveType
    <3>2. \A p \in Queries : Leading(p)' <=> Leading(p)
      BY <2>0, <3>1 DEF Leading
    <3>3. ResolveType'
      BY <1>inv, <2>0, <2>1 DEF ResolveType, Stages
    <3>4. StageFacts'
      BY <1>inv, <2>0, <2>1, <3>1, <3>2 DEF StageFacts
    <3>5. MapFacts'
      <4>1. Leading(entry)'
        BY <1>inv, <2>1, <3>2 DEF MapFacts, ResolveType
      <4> QED
        BY <1>inv, <2>0, <2>1, <3>2, <4>1 DEF MapFacts
    <3>6. LostInTime'
      BY <1>inv, <2>r, <3>1 DEF LostInTime
    <3>7. EntryResolved'
      BY <1>inv, <2>0, <2>1, <3>1, <3>2 DEF EntryResolved
    <3>8. FailureJust'
      BY <1>inv, <2>0, <2>r, <3>1 DEF FailureJust, Lost
    <3> QED
      BY <2>r, <3>3, <3>4, <3>5, <3>6, <3>7, <3>8 DEF ResolveInv
  <2>2. ASSUME entryOf' = [entryOf EXCEPT ![q] = q], at' = [at EXCEPT ![q] = "order"],
               entry' = q, replaced' = replaced \cup ({entry} \ {NoLead})
        PROVE  ResolveInv'
    <3>1. /\ at'[q] = "order" /\ \A p \in Queries : p # q => at'[p] = at[p]
          /\ entryOf'[q] = q /\ \A p \in Queries : p # q => entryOf'[p] = entryOf[p]
      BY <1>inv, <2>2 DEF ResolveType
    <3>2. Leading(q)' /\ \A p \in Queries : p # q => (Leading(p)' <=> Leading(p))
      BY <3>1 DEF Leading
    <3>3. ResolveType'
      BY <1>inv, <2>0, <2>2 DEF ResolveType, Stages
    <3>4. \A p \in Queries : p # q /\ at[p] \in {"new", "acquire"} => p # entry
      BY <1>inv, DNSResolveAssumption DEF MapFacts, Leading
    <3>5. StageFacts'
      <4>1. answered[q] = "none"
        BY <1>none, <2>0
      <4> QED
        BY <1>inv, <2>0, <2>2, <3>1, <3>2, <3>4, <4>1 DEF StageFacts
    <3>6. MapFacts'
      BY <1>inv, <2>0, <2>2, <3>2, DNSResolveAssumption DEF MapFacts
    <3>7. LostInTime'
      BY <1>inv, <2>r, <3>1 DEF LostInTime
    <3>8. EntryResolved'
      BY <1>inv, <2>0, <2>2, <3>1, <3>2 DEF EntryResolved
    <3>9. FailureJust'
      <4>1. answered[q] = "none"
        BY <1>none, <2>0
      <4> QED
        BY <1>inv, <2>0, <2>r, <3>1, <4>1 DEF FailureJust, Lost
    <3> QED
      BY <2>r, <3>3, <3>5, <3>6, <3>7, <3>8, <3>9 DEF ResolveInv
  <2> QED
    BY <1>2, <2>1, <2>2 DEF Acquire
<1>3. ASSUME NEW q \in Queries, AsksFirst(q) PROVE ResolveInv'
  <2>1. PICK u \in Upstreams : race' = [race EXCEPT ![q] = [NoRace EXCEPT !.first = u, !.asked = {u}]]
    BY <1>3 DEF AsksFirst, Best
  <2>2. [NoRace EXCEPT !.first = u, !.asked = {u}] \in Races
    BY DEF NoRace, Races
  <2>0. /\ at[q] = "order" /\ at' = [at EXCEPT ![q] = "resolving"] /\ Leading(q)
        /\ answered[q] = "none"
        /\ UNCHANGED <<answered, entry, entryOf, ready, replaced, taken>>
    BY <1>3, <1>none DEF AsksFirst, Leading
  <2>3. RaceType' /\ \A p \in Queries : p # q => race'[p] = race[p]
    BY <1>inv, <2>1, <2>2 DEF RaceType
  <2>4. /\ at'[q] = "resolving" /\ \A p \in Queries : p # q => at'[p] = at[p]
    BY <1>inv, <2>0 DEF ResolveType
  <2>5. \A p \in Queries : Leading(p)' <=> Leading(p)
    BY <2>0, <2>4 DEF Leading
  <2>6. ResolveType'
    BY <1>inv, <2>0 DEF ResolveType, Stages
  <2>7. StageFacts'
    BY <1>inv, <2>0, <2>4, <2>5 DEF StageFacts
  <2>8. MapFacts'
    <3>1. entry' # NoLead => Leading(entry)'
      BY <1>inv, <2>0, <2>5, <2>6 DEF MapFacts, ResolveType
    <3> QED
      BY <1>inv, <2>0, <2>5, <3>1 DEF MapFacts
  <2>9. LostInTime'
    BY <1>inv, <2>3, <2>4 DEF LostInTime, Lost
  <2>10. EntryResolved'
    BY <1>inv, <2>0, <2>4, <2>5 DEF EntryResolved
  <2>11. FailureJust'
    BY <1>inv, <2>0, <2>3 DEF FailureJust
  <2> QED
    BY <2>3, <2>6, <2>7, <2>8, <2>9, <2>10, <2>11 DEF ResolveInv
<1>4. ASSUME NEW q \in Queries, Hedge(q) PROVE ResolveInv'
  <2>1. /\ race' = [race EXCEPT ![q] = [race[q] EXCEPT !.asked = Upstreams]]
        /\ UNCHANGED <<at, answered, entry, entryOf, ready, replaced, taken>>
    BY <1>4 DEF Hedge
  <2>2. [race[q] EXCEPT !.asked = Upstreams] \in Races
    BY <1>inv DEF RaceType, Races
  <2>3. RaceType' /\ \A p \in Queries : Lost(p) => Lost(p)'
    <3>1. Lost(q) => [race[q] EXCEPT !.asked = Upstreams].late \/ [race[q] EXCEPT !.asked = Upstreams].failed = Upstreams
      BY <1>inv DEF RaceType, Races, Lost
    <3> QED
      BY <1>inv, <2>1, <2>2, <3>1, RaceGoesOn
  <2> QED
    BY <2>1, <2>3, QueriesStand
<1>5. ASSUME NEW q \in Queries, Deadline(q) PROVE ResolveInv'
  <2> DEFINE r == [race[q] EXCEPT !.late = TRUE]
  <2>1. /\ at[q] = "resolving" /\ at' = [at EXCEPT ![q] = "failed"] /\ race' = [race EXCEPT ![q] = r]
        /\ UNCHANGED <<answered, entry, entryOf, ready, replaced, taken>>
    BY <1>5 DEF Deadline
  <2>2. r \in Races /\ r.late
    BY <1>inv DEF RaceType, Races
  <2>3. RaceType' /\ (\A p \in Queries : Lost(p) => Lost(p)') /\ Lost(q)'
    <3> HIDE DEF r
    <3> QED
      BY <1>inv, <2>1, <2>2, RaceGoesOn
  <2>4. Leading(q) /\ answered[q] = "none"
    BY <1>none, <2>1 DEF Leading
  <2> HIDE DEF r
  <2> QED
    BY <1>same, <2>1, <2>3, <2>4, QueryGoesOn DEF Stages
<1>6. ASSUME NEW q \in Queries, Resolve(q) PROVE ResolveInv'
  <2> DEFINE ok == at[q] = "resolved"
  <2>0. /\ at[q] \in {"resolved", "failed"} /\ entry' = NoLead
        /\ ready' = IF entry = NoLead THEN ready
                    ELSE [ready EXCEPT ![entry] = IF at[q] = "resolved" THEN "value" ELSE "empty"]
        /\ taken' = taken \cup ({entry} \ {NoLead, q})
        /\ UNCHANGED <<entryOf, race, replaced>>
    BY <1>6 DEF Resolve
  <2>r. RaceType' /\ \A p \in Queries : Lost(p) => Lost(p)'
    BY <1>race, <2>0
  <2>1. Leading(q) /\ entryOf[q] = q /\ answered[q] = "none"
    BY <1>inv, <1>none, <2>0 DEF StageFacts, Leading
  <2>2. /\ at' = [at EXCEPT ![q] = IF at[q] = "resolved" THEN "keep" ELSE "done"]
        /\ answered' = IF at[q] = "resolved" THEN answered ELSE [answered EXCEPT ![q] = "failure"]
    BY <1>6, <2>0 DEF Resolve, Ends
  <2>3. /\ at'[q] = (IF at[q] = "resolved" THEN "keep" ELSE "done")
        /\ \A p \in Queries : p # q => at'[p] = at[p]
        /\ answered'[q] = (IF at[q] = "resolved" THEN "none" ELSE "failure")
        /\ \A p \in Queries : p # q => answered'[p] = answered[p]
    BY <1>inv, <2>1, <2>2 DEF ResolveType
  <2>4. ~Leading(q)' /\ \A p \in Queries : p # q => (Leading(p)' <=> Leading(p))
    BY <2>3 DEF Leading
  <2>5. /\ \A p \in Queries : p # entry => ready'[p] = ready[p]
        /\ entry # NoLead => ready'[entry] = IF at[q] = "resolved" THEN "value" ELSE "empty"
    BY <1>inv, <2>0 DEF ResolveType
  <2>6. ResolveType'
    <3>1. at' \in [Queries -> Stages] /\ answered' \in [Queries -> {"none", "answer", "failure"}]
      BY <1>inv, <2>2 DEF ResolveType, Stages
    <3>2. ready' \in [Queries -> {"open", "value", "empty"}]
      BY <1>inv, <2>0 DEF ResolveType
    <3> QED
      BY <1>inv, <2>0, <3>1, <3>2 DEF ResolveType
  <2>7. StageFacts'
    <3>1. \A p \in Queries : at[p] \in {"new", "acquire"} => p # entry
      BY <1>inv, DNSResolveAssumption DEF MapFacts, Leading
    <3> QED
      BY <1>inv, <2>0, <2>1, <2>3, <2>4, <2>5, <3>1 DEF StageFacts
  <2>8. MapFacts'
    BY <1>inv, <2>0, <2>4, DNSResolveAssumption DEF MapFacts
  <2>9. LostInTime'
    BY <1>inv, <2>r, <2>3 DEF LostInTime
  <2>10. EntryResolved'
    <3> SUFFICES ASSUME NEW p \in Queries, entryOf[p] = p
                 PROVE  /\ ready'[p] = "open" => Leading(p)' \/ p \in replaced' \cup taken'
                        /\ ready'[p] # "open" /\ p \notin taken' =>
                              /\ ~Leading(p)'
                              /\ (ready'[p] = "empty") <=> (answered'[p] = "failure")
      BY <2>0 DEF EntryResolved
    <3>1. CASE p = q
      <4>1. CASE q = entry
        BY <2>3, <2>4, <2>5, <3>1, <4>1, DNSResolveAssumption
      <4>2. CASE q # entry
        <5>1. q \in replaced \cup taken
          BY <1>inv, <2>1, <4>2 DEF MapFacts
        <5>2. ready[q] # "open" => q \in taken
          BY <1>inv, <2>1 DEF EntryResolved
        <5> QED
          BY <2>0, <2>5, <3>1, <4>2, <5>1, <5>2
      <4> QED
        BY <4>1, <4>2
    <3>2. CASE p # q
      <4>1. CASE p = entry
        BY <2>0, <2>5, <3>2, <4>1, DNSResolveAssumption
      <4>2. CASE p # entry
        BY <1>inv, <2>0, <2>3, <2>4, <2>5, <3>2, <4>2 DEF EntryResolved
      <4> QED
        BY <4>1, <4>2
    <3> QED
      BY <3>1, <3>2
  <2>11. FailureJust'
    <3>1. at[q] = "failed" => Lost(q)
      BY <1>inv DEF LostInTime
    <3> QED
      BY <1>inv, <2>0, <2>3, <3>1 DEF FailureJust, Lost
  <2> QED
    BY <2>r, <2>6, <2>7, <2>8, <2>9, <2>10, <2>11 DEF ResolveInv
<1>7. ASSUME NEW q \in Queries, Keeps(q) PROVE ResolveInv'
  <2>1. /\ at[q] = "keep" /\ at' = [at EXCEPT ![q] = "done"] /\ answered' = [answered EXCEPT ![q] = "answer"]
        /\ ~Leading(q) /\ answered[q] = "none"
        /\ UNCHANGED <<entry, entryOf, ready, race, replaced, taken>>
    BY <1>7, <1>none DEF Keeps, Ends, Leading
  <2> QED
    BY <1>race, <2>1, QueryGoesOn DEF Stages
<1>8. ASSUME NEW q \in Queries, Wakes(q) PROVE ResolveInv'
  <2>0. /\ at[q] = "waiting" /\ ~Leading(q) /\ entryOf[q] # q /\ answered[q] = "none"
        /\ UNCHANGED <<entry, entryOf, ready, race, replaced, taken>>
    BY <1>8, <1>inv, <1>none DEF Wakes, StageFacts, Leading
  <2>1. CASE Ends(q, "answer")
    BY <1>race, <2>0, <2>1, QueryGoesOn DEF Ends, Stages
  <2>2. CASE at' = [at EXCEPT ![q] = "second_look"] /\ UNCHANGED answered
    BY <1>race, <1>same, <2>0, <2>2, QueryGoesOn DEF Stages
  <2> QED
    BY <1>8, <2>1, <2>2 DEF Wakes
<1>9. ASSUME NEW q \in Queries, LooksAgain(q) PROVE ResolveInv'
  <2>0. /\ at[q] = "second_look" /\ ~Leading(q) /\ entryOf[q] # q /\ answered[q] = "none"
        /\ UNCHANGED <<entry, entryOf, ready, race, replaced, taken>>
    BY <1>9, <1>inv, <1>none DEF LooksAgain, StageFacts, Leading
  <2>1. PICK a \in {"answer", "failure"} : at' = [at EXCEPT ![q] = "done"] /\ answered' = [answered EXCEPT ![q] = a]
    BY <1>9 DEF LooksAgain, Ends
  <2> QED
    BY <1>race, <2>0, <2>1, QueryGoesOn DEF Stages
<1>10. ASSUME NEW q \in Queries, NEW u \in Upstreams, NEW ok \in BOOLEAN, UpstreamReports(q, u, ok)
       PROVE ResolveInv'
  <2>0. /\ u \in race[q].asked /\ u \notin race[q].failed
        /\ UNCHANGED <<answered, entry, entryOf, ready, replaced, taken>>
    BY <1>10 DEF UpstreamReports
  <2>1. ASSUME NEW r \in Races, race' = [race EXCEPT ![q] = r], r.late = race[q].late,
               r.failed = race[q].failed \cup {u}
        PROVE  /\ RaceType' /\ \A p \in Queries : Lost(p) => Lost(p)'
               /\ Lost(q)' <=> race[q].late \/ race[q].failed \cup {u} = Upstreams
    BY <1>inv, <2>0, <2>1, RaceGoesOn DEF Lost
  <2>2. ASSUME race' = [race EXCEPT ![q].failed = @ \cup {u}]
        PROVE  RaceType' /\ \A p \in Queries : Lost(p) => Lost(p)'
    <3>1. race' = [race EXCEPT ![q] = [race[q] EXCEPT !.failed = race[q].failed \cup {u}]]
      BY <2>2
    <3>2. [race[q] EXCEPT !.failed = race[q].failed \cup {u}] \in Races
      BY <1>inv DEF RaceType, Races
    <3>3. [race[q] EXCEPT !.failed = race[q].failed \cup {u}].late = race[q].late
          /\ [race[q] EXCEPT !.failed = race[q].failed \cup {u}].failed = race[q].failed \cup {u}
      BY <1>inv DEF RaceType, Races
    <3> QED
      BY <2>1, <3>1, <3>2, <3>3
  <2>3. CASE at[q] # "resolving"
    <3>1. race' = [race EXCEPT ![q].failed = @ \cup {u}] /\ UNCHANGED at
      BY <1>10, <2>3 DEF UpstreamReports
    <3> QED
      BY <2>0, <2>2, <3>1, QueriesStand
  <2>4. CASE at[q] = "resolving" /\ ok
    <3>1. race' = [race EXCEPT ![q].failed = @ \cup {u}] /\ at' = [at EXCEPT ![q] = "resolved"]
      BY <1>10, <2>4 DEF UpstreamReports
    <3>2. Leading(q) /\ answered[q] = "none"
      BY <1>none, <2>4 DEF Leading
    <3> QED
      BY <1>same, <2>0, <2>2, <2>4, <3>1, <3>2, QueryGoesOn DEF Stages
  <2>5. CASE at[q] = "resolving" /\ ~ok
    <3> DEFINE r == [race[q] EXCEPT !.failed = race[q].failed \cup {u}, !.asked = Upstreams]
    <3>1. /\ race' = [race EXCEPT ![q] = r]
          /\ at' = [at EXCEPT ![q] = IF race[q].failed \cup {u} = Upstreams THEN "failed" ELSE at[q]]
      BY <1>10, <2>5 DEF UpstreamReports, UpstreamFails
    <3>2. r \in Races /\ r.late = race[q].late /\ r.failed = race[q].failed \cup {u}
      BY <1>inv DEF RaceType, Races
    <3> HIDE DEF r
    <3>3. /\ RaceType' /\ \A p \in Queries : Lost(p) => Lost(p)'
          /\ Lost(q)' <=> race[q].late \/ race[q].failed \cup {u} = Upstreams
      BY <2>1, <3>1, <3>2
    <3>4. Leading(q) /\ answered[q] = "none"
      BY <1>none, <2>5 DEF Leading
    <3>5. PICK x \in {"failed", "resolving"} : at' = [at EXCEPT ![q] = x] /\ (x = "failed" => Lost(q)')
      BY <2>5, <3>1, <3>3
    <3> QED
      BY <1>same, <2>0, <2>5, <3>3, <3>4, <3>5, QueryGoesOn DEF Stages
  <2> QED
    BY <2>3, <2>4, <2>5
<1>11. CASE GrowsOld \/ Dropped \/ \E u \in Upstreams : CoolsOff(u)
  <2>1. UNCHANGED <<at, answered, entry, entryOf, ready, replaced, taken, race>>
    BY <1>11 DEF GrowsOld, Dropped, CoolsOff
  <2> QED
    BY <1>race, <2>1, QueriesStand
<1>12. CASE CleansUp
  <2>0. /\ entry' = NoLead /\ replaced' = replaced \cup {entry}
        /\ UNCHANGED <<at, answered, entryOf, ready, race, taken>>
    BY <1>12 DEF CleansUp
  <2>1. ResolveType' /\ RaceType'
    BY <1>inv, <2>0 DEF ResolveType, RaceType
  <2>2. \A p \in Queries : Leading(p)' <=> Leading(p)
    BY <2>0 DEF Leading
  <2>3. StageFacts'
    <3>1. \A p \in Queries : at[p] \in {"new", "acquire"} => p # entry
      BY <1>inv, DNSResolveAssumption DEF MapFacts, Leading
    <3> QED
      BY <1>inv, <2>0, <2>2, <3>1 DEF StageFacts
  <2>4. MapFacts'
    BY <1>inv, <2>0, <2>2 DEF MapFacts
  <2>5. LostInTime' /\ FailureJust'
    BY <1>inv, <2>0 DEF LostInTime, Lost, FailureJust
  <2>6. EntryResolved'
    BY <1>inv, <2>0, <2>2 DEF EntryResolved
  <2> QED
    BY <2>1, <2>3, <2>4, <2>5, <2>6 DEF ResolveInv
<1>13. CASE UNCHANGED resolveVars
  <2>1. UNCHANGED <<at, answered, entry, entryOf, ready, replaced, taken, race>>
    BY <1>13 DEF resolveVars
  <2> QED
    BY <1>race, <2>1, QueriesStand
<1> QED
  BY <1>1, <1>2, <1>3, <1>4, <1>5, <1>6, <1>7, <1>8, <1>9, <1>10, <1>11, <1>12, <1>13
     DEF ResolveNext

\* An entry has one leader.
LEMMA ResolveInvSound == ResolveInv => ResolveSound
<1> SUFFICES ASSUME ResolveInv PROVE OneLeader
  BY DEF ResolveInv, ResolveSound
<1> DEFINE L == {q \in Queries : entryOf[q] = q /\ Leading(q)} \ (replaced \cup taken)
<1>1. L \subseteq {entry}
  BY DEF ResolveInv, MapFacts
<1>2. IsFiniteSet({entry}) /\ Cardinality({entry}) = 1
  BY FS_Singleton
<1> HIDE DEF L
<1>3. IsFiniteSet(L) /\ Cardinality(L) <= 1
  BY <1>1, <1>2, FS_Subset
<1> QED
  BY <1>3 DEF OneLeader, L

\* Every query for the question is answered by its own entry or told what
\* became of it: an entry is resolved when its leader is done and says what the
\* leader found, one leader at a time has an entry that counts, and a leader
\* gives up only when every upstream server failed or the time was up.
THEOREM AnswersAreResolved == ResolveSpec => []ResolveSound
BY ResolveInvSound, ResolveInvInit, ResolveInvStep, PTL DEF ResolveSpec

-----------------------------------------------------------------------------
(* The fragments of queries and answers.                                    *)

Horizon == Max({1, Remembers})

\* A fragment of the message q belongs to the assembly of k of so many pieces.
Belongs(side, k, total, q, cuts) ==
    q \in 1 .. Asked /\ Seq16(q) = k /\ (side = "client" \/ cuts[q] = total)

Kept(s, k, time) == k \in DOMAIN s.completed /\ time < s.completed[k]

\* An assembly has pieces of its own message, has not grown old, and is not of
\* a message that is remembered.
AssemblySound(side, s, k, time, cuts) ==
    LET item == s.items[k] IN
    /\ item = [total |-> item.total, created |-> item.created, chunks |-> item.chunks]
    /\ item.created \in Nat /\ item.created > s.lastPurge - Horizon
    /\ \A i \in DOMAIN item.chunks : Belongs(side, k, item.total, item.chunks[i], cuts)
    /\ ~Kept(s, k, time)

StoreSound(side, s, time, cuts) ==
    /\ s = [items |-> s.items, completed |-> s.completed, lastPurge |-> s.lastPurge]
    /\ s.lastPurge \in Nat /\ s.lastPurge <= time
    /\ \A k \in DOMAIN s.completed : s.completed[k] \in Nat
    /\ \A k \in DOMAIN s.items : AssemblySound(side, s, k, time, cuts)

\* What was assembled last, and may still be doubled, is remembered.
LastIsKept(done, s, time) ==
    \A k \in DOMAIN done :
       /\ done[k] \in Nat /\ done[k] <= time
       /\ Remembers > 0 /\ time < done[k] + Remembers =>
             k \in DOMAIN s.completed /\ s.completed[k] = done[k] + Remembers

FragType ==
    /\ cut \in [1 .. Asked -> Nat \ {0}] /\ asked \in 0 .. Asked /\ instant \in Nat \ {0}
    /\ \A f \in wire : f.of \in 1 .. Asked
    /\ tasks \subseteq 1 .. Asked
    /\ store = [side \in Sides |-> store[side]] /\ last = [side \in Sides |-> last[side]]
    /\ joined = [side \in Sides |-> joined[side]]

FragInv ==
    /\ FragType
    /\ \A side \in Sides : StoreSound(side, store[side], instant, cut)
    /\ \A side \in Sides : LastIsKept(last[side], store[side], instant)
    /\ NotMixed /\ OnceWhileKnown

\* The time a store keeps an assembly.
LEMMA HorizonIs == Horizon \in Nat /\ Horizon >= 1 /\ Horizon >= Remembers /\ Remembers \in Nat
<1>1. Remembers \in Nat
  BY ReassemblyAssumption
<1>2. \E x \in {1, Remembers} : \A y \in {1, Remembers} : x >= y
  BY <1>1
<1>3. Horizon \in {1, Remembers} /\ \A y \in {1, Remembers} : Horizon >= y
  BY <1>2 DEF Horizon, Max
<1> QED
  BY <1>1, <1>3

\* It holds at the start.
LEMMA FragInvInit == FragInit => FragInv
<1> SUFFICES ASSUME FragInit PROVE FragInv
  OBVIOUS
<1>1. FragType
  BY ReassemblyAssumption DEF FragInit, FragType
<1>2. ASSUME NEW side \in Sides
      PROVE  StoreSound(side, store[side], instant, cut) /\ LastIsKept(last[side], store[side], instant)
  <2>1. store[side] = EmptyStore /\ last[side] = NoItems /\ instant = 1
    BY DEF FragInit
  <2>2. DOMAIN NoItems = {}
    BY DEF NoItems
  <2> QED
    BY <2>1, <2>2 DEF StoreSound, LastIsKept, EmptyStore
<1>3. NotMixed /\ OnceWhileKnown
  BY DEF FragInit, NotMixed, OnceWhileKnown
<1> QED
  BY <1>1, <1>2, <1>3 DEF FragInv

\* purgeLocked keeps a store sound, and forgets nothing that is still
\* remembered.
LEMMA PurgeKeeps ==
    ASSUME FragType, NEW side, NEW raw, StoreSound(side, raw, instant, cut)
    PROVE  /\ StoreSound(side, Purged(raw), instant, cut)
           /\ \A k : Remembers > 0 /\ Kept(raw, k, instant) =>
                 k \in DOMAIN Purged(raw).completed /\ Purged(raw).completed[k] = raw.completed[k]
<1> DEFINE s == Purged(raw)
<1>0. instant \in Nat /\ raw.lastPurge \in Nat /\ Remembers \in Nat
  BY HorizonIs DEF FragType, StoreSound
<1>1. CASE instant - raw.lastPurge < 1
  <2>1. s = raw
    BY <1>1 DEF Purged
  <2> HIDE DEF s
  <2>2. s = raw => StoreSound(side, s, instant, cut)
    OBVIOUS
  <2>3. \A k : Kept(raw, k, instant) => k \in DOMAIN s.completed /\ s.completed[k] = raw.completed[k]
    BY <2>1 DEF Kept
  <2> QED
    BY <2>1, <2>2, <2>3 DEF s
<1>2. CASE ~(instant - raw.lastPurge < 1) /\ Remembers = 0
  <2>1. s = [EmptyStore EXCEPT !.lastPurge = instant]
    BY <1>2 DEF Purged
  <2>2. s = [items |-> NoItems, completed |-> NoItems, lastPurge |-> instant]
    BY <2>1 DEF EmptyStore
  <2>3. DOMAIN NoItems = {}
    BY DEF NoItems
  <2> HIDE DEF s
  <2>4. StoreSound(side, s, instant, cut)
    BY <1>0, <2>2, <2>3 DEF StoreSound
  <2> QED
    BY <1>2, <2>4 DEF s
<1>3. CASE ~(instant - raw.lastPurge < 1) /\ Remembers # 0
  <2> DEFINE young == {k \in DOMAIN raw.items : raw.items[k].created > instant - Remembers}
             live == {k \in DOMAIN raw.completed : instant < raw.completed[k]}
  <2>1. s = [items |-> [k \in young |-> raw.items[k]], completed |-> [k \in live |-> raw.completed[k]],
             lastPurge |-> instant]
    BY <1>3 DEF Purged, Only
  <2> HIDE DEF s
  <2>2. /\ s.lastPurge = instant /\ DOMAIN s.items = young /\ DOMAIN s.completed = live
        /\ \A k \in young : s.items[k] = raw.items[k]
        /\ \A k \in live : s.completed[k] = raw.completed[k]
    BY <2>1
  <2>3. \A k \in DOMAIN s.completed : s.completed[k] \in Nat
    BY <2>2 DEF StoreSound
  <2>4. ASSUME NEW k \in DOMAIN s.items PROVE AssemblySound(side, s, k, instant, cut)
    <3>1. /\ k \in DOMAIN raw.items /\ s.items[k] = raw.items[k]
          /\ s.items[k].created > instant - Remembers
      BY <2>2, <2>4
    <3>2. AssemblySound(side, raw, k, instant, cut)
      BY <3>1 DEF StoreSound
    <3>3. ~Kept(s, k, instant)
      BY <2>2, <3>2 DEF AssemblySound, Kept
    <3>4. s.items[k].created \in Nat
      BY <3>1, <3>2 DEF AssemblySound
    <3>5. s.items[k].created > s.lastPurge - Horizon
      BY <1>0, <2>2, <3>1, <3>4, HorizonIs
    <3> QED
      BY <3>1, <3>2, <3>3, <3>4, <3>5 DEF AssemblySound
  <2>5. StoreSound(side, s, instant, cut)
    BY <1>0, <2>1, <2>2, <2>3, <2>4 DEF StoreSound
  <2>6. \A k : Kept(raw, k, instant) => k \in DOMAIN s.completed /\ s.completed[k] = raw.completed[k]
    BY <2>2 DEF Kept
  <2> QED
    BY <2>5, <2>6 DEF s
<1> QED
  BY <1>1, <1>2, <1>3

\* What Remember leaves.
Adds(s, k, n, until) ==
    /\ \A j : j # k /\ j \in DOMAIN s.completed =>
          j \in DOMAIN n.completed /\ n.completed[j] = s.completed[j]
    /\ Remembers > 0 => k \in DOMAIN n.completed /\ n.completed[k] = until

\* A key marked as completed leaves the items and the others alone.
LEMMA RememberKeeps ==
    ASSUME FragType, NEW side, NEW s, NEW k, StoreSound(side, s, instant, cut)
    PROVE  /\ StoreSound(side, Remember(s, k), instant, cut)
           /\ Adds(s, k, Remember(s, k), instant + Remembers)
<1> DEFINE r == Remember(s, k)
           its == Drop1(s.items, k)
           completed == IF Remembers > 0 THEN With(s.completed, k, instant + Remembers) ELSE Drop1(s.completed, k)
<1>0. instant \in Nat /\ Remembers \in Nat
  BY HorizonIs DEF FragType
<1>1. r = [items |-> its, completed |-> completed, lastPurge |-> s.lastPurge]
  <2>1. s = [items |-> s.items, completed |-> s.completed, lastPurge |-> s.lastPurge]
    BY DEF StoreSound
  <2>2. r = [s EXCEPT !.items = its, !.completed = completed]
    BY DEF Remember
  <2> HIDE DEF r, its, completed
  <2> QED
    BY <2>1, <2>2
<1>2. DOMAIN its = DOMAIN s.items \ {k} /\ \A j \in DOMAIN its : its[j] = s.items[j]
  BY DEF Drop1, Only
<1>3. /\ \A j : j # k => (j \in DOMAIN completed <=> j \in DOMAIN s.completed)
      /\ \A j : j # k /\ j \in DOMAIN s.completed => completed[j] = s.completed[j]
      /\ Remembers > 0 => k \in DOMAIN completed /\ completed[k] = instant + Remembers
      /\ ~(Remembers > 0) => k \notin DOMAIN completed
  BY DEF Drop1, Only, With
<1> HIDE DEF r, its, completed
<1>4. r.items = its /\ r.completed = completed /\ r.lastPurge = s.lastPurge
  BY <1>1
<1>5. \A j \in DOMAIN r.completed : r.completed[j] \in Nat
  BY <1>0, <1>3, <1>4 DEF StoreSound
<1>6. ASSUME NEW j \in DOMAIN r.items PROVE AssemblySound(side, r, j, instant, cut)
  <2>1. j # k /\ j \in DOMAIN s.items /\ r.items[j] = s.items[j]
    BY <1>2, <1>4, <1>6
  <2>2. AssemblySound(side, s, j, instant, cut)
    BY <2>1 DEF StoreSound
  <2>3. ~Kept(r, j, instant)
    BY <1>3, <1>4, <2>1, <2>2 DEF AssemblySound, Kept
  <2> QED
    BY <1>4, <2>1, <2>2, <2>3 DEF AssemblySound
<1>7. StoreSound(side, r, instant, cut)
  <2>1. s.lastPurge \in Nat /\ s.lastPurge <= instant
    BY DEF StoreSound
  <2> QED
    BY <1>1, <1>4, <1>5, <1>6, <2>1 DEF StoreSound
<1>8. Adds(s, k, r, instant + Remembers)
  BY <1>3, <1>4 DEF Adds
<1> QED
  BY <1>7, <1>8 DEF r

\* What becomes of a store, when it collects a fragment.
Collected(side, raw, k, total, r) ==
    /\ StoreSound(side, r.store, instant, cut)
    /\ \A j : j # k \/ r.out # "ready" =>
          (Remembers > 0 /\ Kept(raw, j, instant) =>
             j \in DOMAIN r.store.completed /\ r.store.completed[j] = raw.completed[j])
    /\ r.out = "ready" =>
          /\ Remembers > 0 => /\ ~Kept(raw, k, instant) /\ k \in DOMAIN r.store.completed
                              /\ r.store.completed[k] = instant + Remembers
          /\ \A p \in r.parts : Belongs(side, k, total, p, cut)

\* Collecting a fragment keeps the store sound, and what comes out of it is made
\* of fragments of one cut.
LEMMA CollectKeeps ==
    ASSUME FragType, NEW side, NEW raw, StoreSound(side, raw, instant, cut),
           NEW f, NEW k, NEW total, Belongs(side, k, total, f.of, cut)
    PROVE  Collected(side, raw, k, total, CollectFragment(raw, k, f, total))
<1> DEFINE s == Purged(raw)
           item == IF k \in DOMAIN s.items THEN s.items[k]
                   ELSE [total |-> total, created |-> instant, chunks |-> [i \in {} |-> 0]]
           got == With(item.chunks, f.id, f.of)
           r == CollectFragment(raw, k, f, total)
<1>0. instant \in Nat /\ Remembers \in Nat
  BY HorizonIs DEF FragType
<1>1. /\ StoreSound(side, s, instant, cut)
      /\ \A j : Remembers > 0 /\ Kept(raw, j, instant) =>
            j \in DOMAIN s.completed /\ s.completed[j] = raw.completed[j]
  BY PurgeKeeps
<1>2. CASE total = 1 /\ Remembers = 0
  <2>1. r = [store |-> raw, out |-> "ready", parts |-> {f.of}]
    BY <1>2 DEF CollectFragment, Result
  <2> HIDE DEF r
  <2>2. r.store = raw /\ r.out = "ready" /\ r.parts = {f.of}
    BY <2>1
  <2>3. Collected(side, raw, k, total, r)
    BY <1>2, <2>2 DEF Collected
  <2> QED
    BY <2>3 DEF r
<1>3. CASE ~(total = 1 /\ Remembers = 0) /\ Known(s, k)
  <2>1. r = [store |-> s, out |-> "completed", parts |-> {}]
    BY <1>3 DEF CollectFragment, Result
  <2> HIDE DEF r, s
  <2>2. r.store = s /\ r.out = "completed"
    BY <2>1
  <2>3. Collected(side, raw, k, total, r)
    BY <1>1, <2>2 DEF Collected
  <2> QED
    BY <2>3 DEF r
<1> DEFINE open == ~(total = 1 /\ Remembers = 0) /\ ~Known(s, k)
<1>fresh. ASSUME open PROVE ~Kept(s, k, instant) /\ (Remembers > 0 => ~Kept(raw, k, instant))
  <2>1. ~Kept(s, k, instant)
    BY <1>fresh DEF Known, Kept
  <2> HIDE DEF s
  <2> QED
    BY <1>1, <2>1 DEF Kept
<1>done. ASSUME open, NEW P, r = [store |-> Remember(s, k), out |-> "ready", parts |-> P],
                \A p \in P : Belongs(side, k, total, p, cut)
         PROVE  Collected(side, raw, k, total, r)
  <2>0. Remembers > 0 => ~Kept(raw, k, instant)
    BY <1>fresh, <1>done
  <2>1. StoreSound(side, Remember(s, k), instant, cut) /\ Adds(s, k, Remember(s, k), instant + Remembers)
    BY <1>1, RememberKeeps
  <2> HIDE DEF s, r
  <2>2. r.store = Remember(s, k) /\ r.out = "ready" /\ r.parts = P
    BY <1>done
  <2>3. StoreSound(side, r.store, instant, cut) /\ Adds(s, k, r.store, instant + Remembers)
    BY <2>1, <2>2
  <2> QED
    BY <1>1, <1>done, <2>0, <2>2, <2>3 DEF Collected, Adds
<1>item. ASSUME open
         PROVE  /\ item = [total |-> item.total, created |-> item.created, chunks |-> item.chunks]
                /\ item.created \in Nat /\ item.created > s.lastPurge - Horizon
                /\ \A i \in DOMAIN item.chunks : Belongs(side, k, item.total, item.chunks[i], cut)
  <2>0. s.lastPurge \in Nat /\ s.lastPurge <= instant
    BY <1>1 DEF StoreSound
  <2> HIDE DEF s
  <2>1. CASE k \in DOMAIN s.items
    <3>1. item = s.items[k] /\ AssemblySound(side, s, k, instant, cut)
      BY <1>1, <2>1 DEF StoreSound
    <3> QED
      BY <3>1 DEF AssemblySound
  <2>2. CASE k \notin DOMAIN s.items
    <3>1. item = [total |-> total, created |-> instant, chunks |-> [i \in {} |-> 0]]
      BY <2>2
    <3> HIDE DEF item
    <3>2. item.created = instant /\ DOMAIN item.chunks = {} /\ item.total = total
      BY <3>1
    <3>3. item = [total |-> item.total, created |-> item.created, chunks |-> item.chunks]
      BY <3>1
    <3> QED
      BY <1>0, <2>0, <3>2, <3>3, HorizonIs
  <2> QED
    BY <2>1, <2>2
<1>got. ASSUME open, item.total = total
        PROVE  \A i \in DOMAIN got : Belongs(side, k, total, got[i], cut)
  <2>1. \A i \in DOMAIN item.chunks : Belongs(side, k, total, item.chunks[i], cut)
    BY <1>item, <1>got
  <2> HIDE DEF item
  <2>2. DOMAIN got = DOMAIN item.chunks \cup {f.id}
        /\ \A i \in DOMAIN got : got[i] = IF i = f.id THEN f.of ELSE item.chunks[i]
    BY DEF With
  <2> HIDE DEF got
  <2> QED
    BY <2>1, <2>2
<1>4. CASE open /\ total = 1
  <2>1. r = [store |-> Remember(s, k), out |-> "ready", parts |-> {f.of}]
    BY <1>4 DEF CollectFragment, Result
  <2> QED
    BY <1>4, <1>done, <2>1
<1>5. CASE open /\ total # 1 /\ item.total # total
  <2>1. r = [store |-> [s EXCEPT !.items = Drop1(s.items, k)], out |-> "conflict", parts |-> {}]
    BY <1>5 DEF CollectFragment, Result
  <2> DEFINE its == Drop1(s.items, k)
             n == [s EXCEPT !.items = its]
  <2>2. DOMAIN its = DOMAIN s.items \ {k} /\ \A j \in DOMAIN its : its[j] = s.items[j]
    BY DEF Drop1, Only
  <2>3. r.store = n /\ r.out = "conflict"
    <3> HIDE DEF s, r
    <3> QED
      BY <2>1
  <2> HIDE DEF s, r, its
  <2>4. /\ n = [items |-> its, completed |-> s.completed, lastPurge |-> s.lastPurge]
        /\ n.items = its /\ n.completed = s.completed /\ n.lastPurge = s.lastPurge
    BY <1>1 DEF StoreSound
  <2> HIDE DEF n
  <2>5. ASSUME NEW j \in DOMAIN n.items PROVE AssemblySound(side, n, j, instant, cut)
    <3>1. j \in DOMAIN s.items /\ n.items[j] = s.items[j]
      BY <2>2, <2>4, <2>5
    <3>2. AssemblySound(side, s, j, instant, cut)
      BY <1>1, <3>1 DEF StoreSound
    <3> QED
      BY <2>4, <3>1, <3>2 DEF AssemblySound, Kept
  <2>6. StoreSound(side, n, instant, cut)
    BY <1>1, <2>4, <2>5 DEF StoreSound
  <2>7. Collected(side, raw, k, total, r)
    BY <1>1, <2>3, <2>4, <2>6 DEF Collected
  <2> QED
    BY <2>7 DEF r
<1>6. CASE open /\ total # 1 /\ item.total = total /\ Cardinality(DOMAIN got) < total
  <2>1. r = [store |-> [s EXCEPT !.items = With(s.items, k, [item EXCEPT !.chunks = got])],
             out |-> "waiting", parts |-> {}]
    BY <1>6 DEF CollectFragment, Result
  <2> DEFINE new == [item EXCEPT !.chunks = got]
             its == With(s.items, k, new)
             n == [s EXCEPT !.items = its]
  <2>2. /\ DOMAIN its = DOMAIN s.items \cup {k} /\ its[k] = new
        /\ \A j \in DOMAIN s.items : j # k => its[j] = s.items[j]
    <3> HIDE DEF new, s
    <3> QED
      BY DEF With
  <2>3. r.store = n /\ r.out = "waiting"
    <3> HIDE DEF s, r, its, new
    <3>1. r = [store |-> n, out |-> "waiting", parts |-> {}]
      BY <2>1 DEF its, new
    <3> QED
      BY <3>1
  <2>4. /\ new = [total |-> total, created |-> item.created, chunks |-> got]
        /\ item.created \in Nat /\ item.created > s.lastPurge - Horizon
    <3>1. /\ item = [total |-> item.total, created |-> item.created, chunks |-> item.chunks]
          /\ item.created \in Nat /\ item.created > s.lastPurge - Horizon
      BY <1>6, <1>item
    <3> HIDE DEF item, got, s
    <3> QED
      BY <1>6, <3>1
  <2>5. \A i \in DOMAIN got : Belongs(side, k, total, got[i], cut)
    BY <1>6, <1>got
  <2>6. ~Kept(s, k, instant)
    BY <1>6, <1>fresh
  <2> HIDE DEF s, r, its, new, got, item
  <2>7. /\ n = [items |-> its, completed |-> s.completed, lastPurge |-> s.lastPurge]
        /\ n.items = its /\ n.completed = s.completed /\ n.lastPurge = s.lastPurge
    BY <1>1 DEF StoreSound
  <2> HIDE DEF n
  <2>8. ASSUME NEW j \in DOMAIN n.items PROVE AssemblySound(side, n, j, instant, cut)
    <3>1. CASE j = k
      <4>1. /\ n.items[k] = [total |-> total, created |-> item.created, chunks |-> got]
            /\ n.items[k].total = total /\ n.items[k].created = item.created /\ n.items[k].chunks = got
        BY <2>2, <2>4, <2>7
      <4>2. ~Kept(n, k, instant)
        BY <2>6, <2>7 DEF Kept
      <4> QED
        BY <2>4, <2>5, <2>7, <3>1, <4>1, <4>2 DEF AssemblySound
    <3>2. CASE j # k
      <4>1. j \in DOMAIN s.items /\ n.items[j] = s.items[j]
        BY <2>2, <2>7, <2>8, <3>2
      <4>2. AssemblySound(side, s, j, instant, cut)
        BY <1>1, <4>1 DEF StoreSound
      <4> QED
        BY <2>7, <4>1, <4>2 DEF AssemblySound, Kept
    <3> QED
      BY <3>1, <3>2
  <2>9. StoreSound(side, n, instant, cut)
    BY <1>1, <2>7, <2>8 DEF StoreSound
  <2>10. Collected(side, raw, k, total, r)
    BY <1>1, <2>3, <2>7, <2>9 DEF Collected
  <2> QED
    BY <2>10 DEF r
<1>7. CASE open /\ total # 1 /\ item.total = total /\ ~(Cardinality(DOMAIN got) < total)
  <2>1. r = [store |-> Remember(s, k), out |-> "ready", parts |-> {got[i] : i \in DOMAIN got}]
    BY <1>7 DEF CollectFragment, Result
  <2>2. \A i \in DOMAIN got : Belongs(side, k, total, got[i], cut)
    BY <1>7, <1>got
  <2>3. \A p \in {got[i] : i \in DOMAIN got} : Belongs(side, k, total, p, cut)
    <3> HIDE DEF got
    <3> QED
      BY <2>2
  <2> QED
    BY <1>7, <1>done, <2>1, <2>3
<1> QED
  BY <1>2, <1>3, <1>4, <1>5, <1>6, <1>7

\* What was assembled last stays remembered: of the message that a side takes
\* in, and of the others.
LEMMA TakenIn ==
    ASSUME FragInv, NEW side \in Sides, NEW k, NEW total, NEW r,
           Collected(side, store[side], k, total, r),
           store' = [store EXCEPT ![side] = r.store], History(side, k, r),
           UNCHANGED <<instant, cut>>
    PROVE  /\ \A z \in Sides : StoreSound(z, store'[z], instant', cut')
           /\ \A z \in Sides : LastIsKept(last'[z], store'[z], instant')
           /\ NotMixed' /\ OnceWhileKnown'
           /\ store' = [z \in Sides |-> store'[z]] /\ last' = [z \in Sides |-> last'[z]]
           /\ joined' = [z \in Sides |-> joined'[z]]
<1>0. /\ instant \in Nat /\ Remembers \in Nat
      /\ store = [z \in Sides |-> store[z]] /\ last = [z \in Sides |-> last[z]]
      /\ joined = [z \in Sides |-> joined[z]]
  BY HorizonIs DEF FragInv, FragType
<1>1. /\ store'[side] = r.store /\ \A z \in Sides : z # side => store'[z] = store[z]
      /\ store' = [z \in Sides |-> store'[z]]
  BY <1>0
<1>2. \A z \in Sides : StoreSound(z, store'[z], instant', cut')
  <2> SUFFICES ASSUME NEW z \in Sides PROVE StoreSound(z, store'[z], instant, cut)
    OBVIOUS
  <2>1. CASE z = side
    BY <1>1, <2>1 DEF Collected
  <2>2. CASE z # side
    BY <1>1, <2>2 DEF FragInv
  <2> QED
    BY <2>1, <2>2
<1>at. LastIsKept(last[side], store[side], instant)
  BY DEF FragInv
<1>others. ASSUME NEW done, NEW j, j \in DOMAIN last[side], done[j] = last[side][j], j # k \/ r.out # "ready"
           PROVE  /\ done[j] \in Nat /\ done[j] <= instant
                  /\ Remembers > 0 /\ instant < done[j] + Remembers =>
                        j \in DOMAIN r.store.completed /\ r.store.completed[j] = done[j] + Remembers
  <2>1. /\ done[j] \in Nat /\ done[j] <= instant
        /\ Remembers > 0 /\ instant < done[j] + Remembers =>
              Kept(store[side], j, instant) /\ store[side].completed[j] = done[j] + Remembers
    BY <1>at, <1>others DEF LastIsKept, Kept
  <2> QED
    BY <1>others, <2>1 DEF Collected
<1>3. CASE r.out # "ready"
  <2>1. UNCHANGED <<last, joined, doubled>>
    BY <1>3 DEF History
  <2>2. \A z \in Sides : LastIsKept(last'[z], store'[z], instant')
    <3> SUFFICES ASSUME NEW z \in Sides PROVE LastIsKept(last[z], store'[z], instant)
      BY <2>1
    <3>1. CASE z = side
      <4>1. \A j \in DOMAIN last[side] :
              /\ last[side][j] \in Nat /\ last[side][j] <= instant
              /\ Remembers > 0 /\ instant < last[side][j] + Remembers =>
                    j \in DOMAIN r.store.completed /\ r.store.completed[j] = last[side][j] + Remembers
        BY <1>3, <1>others
      <4> QED
        BY <1>1, <3>1, <4>1 DEF LastIsKept
    <3>2. CASE z # side
      BY <1>1, <3>2 DEF FragInv
    <3> QED
      BY <3>1, <3>2
  <2>3. NotMixed' /\ OnceWhileKnown'
    BY <2>1 DEF FragInv, NotMixed, OnceWhileKnown
  <2> QED
    BY <1>0, <1>1, <1>2, <2>1, <2>2, <2>3
<1>4. CASE r.out = "ready"
  <2> DEFINE done == With(last[side], k, instant)
  <2>1. /\ last' = [last EXCEPT ![side] = done] /\ joined' = [joined EXCEPT ![side] = r.parts]
        /\ doubled' = (doubled \/ (k \in DOMAIN last[side] /\ instant < last[side][k] + Remembers))
    BY <1>4 DEF History
  <2>2. /\ DOMAIN done = DOMAIN last[side] \cup {k} /\ done[k] = instant
        /\ \A j \in DOMAIN last[side] : j # k => done[j] = last[side][j]
    BY DEF With
  <2> HIDE DEF done
  <2>3. /\ last'[side] = done /\ \A z \in Sides : z # side => last'[z] = last[z]
        /\ last' = [z \in Sides |-> last'[z]]
    BY <1>0, <2>1
  <2>4. /\ joined'[side] = r.parts /\ \A z \in Sides : z # side => joined'[z] = joined[z]
        /\ joined' = [z \in Sides |-> joined'[z]]
    BY <1>0, <2>1
  <2>5. \A z \in Sides : LastIsKept(last'[z], store'[z], instant')
    <3> SUFFICES ASSUME NEW z \in Sides PROVE LastIsKept(last'[z], store'[z], instant)
      OBVIOUS
    <3>1. CASE z = side
      <4>1. \A j \in DOMAIN done : j # k =>
              /\ done[j] \in Nat /\ done[j] <= instant
              /\ Remembers > 0 /\ instant < done[j] + Remembers =>
                    j \in DOMAIN r.store.completed /\ r.store.completed[j] = done[j] + Remembers
        BY <1>others, <2>2
      <4>2. Remembers > 0 => k \in DOMAIN r.store.completed /\ r.store.completed[k] = instant + Remembers
        BY <1>4 DEF Collected
      <4> QED
        BY <1>0, <1>1, <2>2, <2>3, <3>1, <4>1, <4>2 DEF LastIsKept
    <3>2. CASE z # side
      BY <1>1, <2>3, <3>2 DEF FragInv
    <3> QED
      BY <3>1, <3>2
  <2>6. NotMixed'
    <3> SUFFICES ASSUME NEW z \in Sides, NEW p \in joined'[z], NEW q \in joined'[z]
                 PROVE  Seq16(p) = Seq16(q) /\ (z = "client" \/ cut[p] = cut[q])
      BY DEF NotMixed
    <3>1. CASE z = side
      <4>1. Belongs(side, k, total, p, cut) /\ Belongs(side, k, total, q, cut)
        BY <1>4, <2>4, <3>1 DEF Collected
      <4> QED
        BY <3>1, <4>1 DEF Belongs
    <3>2. CASE z # side
      BY <2>4, <3>2 DEF FragInv, NotMixed
    <3> QED
      BY <3>1, <3>2
  <2>7. OnceWhileKnown'
    <3>1. ~(k \in DOMAIN last[side] /\ instant < last[side][k] + Remembers)
      <4> SUFFICES ASSUME k \in DOMAIN last[side], instant < last[side][k] + Remembers PROVE FALSE
        OBVIOUS
      <4>1. last[side][k] \in Nat /\ last[side][k] <= instant
        BY <1>at DEF LastIsKept
      <4>2. Remembers > 0
        BY <1>0, <4>1
      <4>3. Kept(store[side], k, instant)
        BY <1>at, <4>2 DEF LastIsKept, Kept
      <4> QED
        BY <1>4, <4>2, <4>3 DEF Collected
    <3> QED
      BY <2>1, <3>1 DEF FragInv, OnceWhileKnown
  <2> QED
    BY <1>1, <1>2, <2>3, <2>4, <2>5, <2>6, <2>7
<1> QED
  BY <1>3, <1>4

\* Every step keeps it.
LEMMA FragInvStep == FragInv /\ [FragNext]_fragVars => FragInv'
<1> SUFFICES ASSUME FragInv, [FragNext]_fragVars PROVE FragInv'
  OBVIOUS
<1>inv. /\ FragType
        /\ \A side \in Sides : StoreSound(side, store[side], instant, cut)
        /\ \A side \in Sides : LastIsKept(last[side], store[side], instant)
        /\ NotMixed /\ OnceWhileKnown
  BY DEF FragInv
<1>num. Asked \in Nat /\ AnswerCut \in Nat \ {0}
  BY ReassemblyAssumption
<1>wire. ASSUME UNCHANGED <<cut, store, instant, last, joined, doubled>>, FragType' PROVE FragInv'
  <2>1. \A side \in Sides : StoreSound(side, store'[side], instant', cut')
    BY <1>inv, <1>wire
  <2>2. \A side \in Sides : LastIsKept(last'[side], store'[side], instant')
    BY <1>inv, <1>wire
  <2>3. NotMixed' /\ OnceWhileKnown'
    BY <1>inv, <1>wire DEF NotMixed, OnceWhileKnown
  <2> QED
    BY <1>wire, <2>1, <2>2, <2>3 DEF FragInv
<1>1. CASE AskQuery
  <2>1. /\ asked < Asked /\ asked' = asked + 1
        /\ wire' = wire \cup {Frag("query", asked', i) : i \in 1 .. cut[asked']}
        /\ UNCHANGED <<cut, store, tasks, instant, last, joined, doubled>>
    BY <1>1 DEF AskQuery
  <2>2. asked' \in 1 .. Asked
    BY <1>inv, <1>num, <2>1 DEF FragType
  <2>3. \A f \in wire' : f.of \in 1 .. Asked
    BY <1>inv, <2>1, <2>2 DEF FragType, Frag
  <2>4. FragType'
    BY <1>inv, <1>num, <2>1, <2>2, <2>3 DEF FragType
  <2> QED
    BY <1>wire, <2>1, <2>4
<1>2. ASSUME NEW f \in wire, Receives(f) PROVE FragInv'
  <2> DEFINE k == Seq16(f.of)
             r == CollectFragment(store["server"], k, f, cut[f.of])
  <2>1. /\ store' = [store EXCEPT !["server"] = r.store] /\ History("server", k, r)
        /\ UNCHANGED <<cut, asked, instant>>
        /\ tasks' \in {tasks, tasks \cup {f.of}}
        /\ wire' \in {wire, wire \cup {Frag("ack", f.of, f.id)}}
    BY <1>2 DEF Receives
  <2>2. f.of \in 1 .. Asked /\ "server" \in Sides
    BY <1>inv DEF FragType, Sides
  <2>3. Collected("server", store["server"], k, cut[f.of], r)
    <3>1. Belongs("server", k, cut[f.of], f.of, cut)
      BY <2>2 DEF Belongs
    <3>2. StoreSound("server", store["server"], instant, cut)
      BY <1>inv, <2>2
    <3> QED
      BY <1>inv, <3>1, <3>2, CollectKeeps
  <2> HIDE DEF r, k
  <2>4. /\ \A z \in Sides : StoreSound(z, store'[z], instant', cut')
        /\ \A z \in Sides : LastIsKept(last'[z], store'[z], instant')
        /\ NotMixed' /\ OnceWhileKnown'
        /\ store' = [z \in Sides |-> store'[z]] /\ last' = [z \in Sides |-> last'[z]]
        /\ joined' = [z \in Sides |-> joined'[z]]
    BY <2>1, <2>2, <2>3, TakenIn
  <2>5. \A g \in wire' : g.of \in 1 .. Asked
    BY <1>inv, <2>1, <2>2 DEF FragType, Frag
  <2>6. FragType'
    BY <1>inv, <2>1, <2>2, <2>4, <2>5 DEF FragType
  <2> QED
    BY <2>4, <2>6 DEF FragInv
<1>3. ASSUME NEW f \in wire, Hears(f) PROVE FragInv'
  <2> DEFINE k == Seq16(f.of)
             r == CollectFragment(store["client"], k, f, AnswerCut)
  <2>1. /\ store' = [store EXCEPT !["client"] = r.store] /\ History("client", k, r)
        /\ UNCHANGED <<cut, asked, wire, tasks, instant>>
    BY <1>3 DEF Hears
  <2>2. f.of \in 1 .. Asked /\ "client" \in Sides
    BY <1>inv DEF FragType, Sides
  <2>3. Collected("client", store["client"], k, AnswerCut, r)
    <3>1. Belongs("client", k, AnswerCut, f.of, cut)
      BY <2>2 DEF Belongs
    <3>2. StoreSound("client", store["client"], instant, cut)
      BY <1>inv, <2>2
    <3> QED
      BY <1>inv, <3>1, <3>2, CollectKeeps
  <2> HIDE DEF r, k
  <2>4. /\ \A z \in Sides : StoreSound(z, store'[z], instant', cut')
        /\ \A z \in Sides : LastIsKept(last'[z], store'[z], instant')
        /\ NotMixed' /\ OnceWhileKnown'
        /\ store' = [z \in Sides |-> store'[z]] /\ last' = [z \in Sides |-> last'[z]]
        /\ joined' = [z \in Sides |-> joined'[z]]
    BY <2>1, <2>2, <2>3, TakenIn
  <2>5. FragType'
    BY <1>inv, <2>1, <2>4 DEF FragType
  <2> QED
    BY <2>4, <2>5 DEF FragInv
<1>4. ASSUME NEW q \in tasks, RunTask(q) PROVE FragInv'
  <2>1. PICK n \in 0 .. AnswerCut : wire' = wire \cup {Frag("answer", q, i) : i \in 1 .. n}
    BY <1>4 DEF RunTask
  <2>2. tasks' = tasks \ {q} /\ UNCHANGED <<cut, asked, store, instant, last, joined, doubled>>
    BY <1>4 DEF RunTask
  <2>3. q \in 1 .. Asked
    BY <1>inv DEF FragType
  <2>4. \A f \in wire' : f.of \in 1 .. Asked
    BY <1>inv, <2>1, <2>3 DEF FragType, Frag
  <2>5. FragType'
    BY <1>inv, <2>2, <2>4 DEF FragType
  <2> QED
    BY <1>wire, <2>2, <2>5
<1>5. CASE Passes
  <2>1. instant' = instant + 1 /\ UNCHANGED <<cut, asked, wire, store, tasks, last, joined, doubled>>
    BY <1>5 DEF Passes
  <2>2. instant \in Nat /\ Remembers \in Nat
    BY <1>inv, HorizonIs DEF FragType
  <2>3. FragType'
    BY <1>inv, <2>1, <2>2 DEF FragType
  <2>4. ASSUME NEW side \in Sides PROVE StoreSound(side, store'[side], instant', cut')
    <3>0. store'[side] = store[side] /\ StoreSound(side, store[side], instant, cut)
      BY <1>inv, <2>1
    <3> DEFINE s == store[side]
    <3> HIDE DEF s
    <3>1. StoreSound(side, s, instant, cut)
      BY <3>0 DEF s
    <3>2. \A k : Kept(s, k, instant + 1) => Kept(s, k, instant)
      BY <2>2, <3>1 DEF Kept, StoreSound
    <3>3. \A k \in DOMAIN s.items : AssemblySound(side, s, k, instant + 1, cut)
      BY <3>1, <3>2 DEF StoreSound, AssemblySound
    <3>4. StoreSound(side, s, instant + 1, cut)
      BY <2>2, <3>1, <3>3 DEF StoreSound
    <3> QED
      BY <2>1, <3>0, <3>4 DEF s
  <2>5. ASSUME NEW side \in Sides PROVE LastIsKept(last'[side], store'[side], instant')
    <3>1. LastIsKept(last[side], store[side], instant)
      BY <1>inv
    <3> QED
      BY <2>1, <2>2, <3>1 DEF LastIsKept
  <2>6. NotMixed' /\ OnceWhileKnown'
    BY <1>inv, <2>1 DEF NotMixed, OnceWhileKnown
  <2> QED
    BY <2>3, <2>4, <2>5, <2>6 DEF FragInv
<1>6. CASE Cleans
  <2>1. /\ store' = [store EXCEPT !["server"] = Purged(store["server"])]
        /\ UNCHANGED <<cut, asked, wire, tasks, instant, last, joined, doubled>>
    BY <1>6 DEF Cleans
  <2>2. /\ store' = [z \in Sides |-> store'[z]] /\ "server" \in Sides
        /\ store'["server"] = Purged(store["server"])
        /\ \A z \in Sides : z # "server" => store'[z] = store[z]
    BY <1>inv, <2>1 DEF FragType, Sides
  <2>3. /\ StoreSound("server", store'["server"], instant, cut)
        /\ \A k : Remembers > 0 /\ Kept(store["server"], k, instant) =>
              k \in DOMAIN store'["server"].completed
              /\ store'["server"].completed[k] = store["server"].completed[k]
    BY <1>inv, <2>2, PurgeKeeps
  <2>4. FragType'
    BY <1>inv, <2>1, <2>2 DEF FragType
  <2>5. \A z \in Sides : StoreSound(z, store'[z], instant', cut')
    BY <1>inv, <2>1, <2>2, <2>3
  <2>6. LastIsKept(last["server"], store'["server"], instant)
    <3>1. LastIsKept(last["server"], store["server"], instant)
      BY <1>inv, <2>2
    <3> QED
      BY <2>3, <3>1 DEF LastIsKept, Kept
  <2>7. \A z \in Sides : LastIsKept(last'[z], store'[z], instant')
    BY <1>inv, <2>1, <2>2, <2>6
  <2>8. NotMixed' /\ OnceWhileKnown'
    BY <1>inv, <2>1 DEF NotMixed, OnceWhileKnown
  <2> QED
    BY <2>4, <2>5, <2>7, <2>8 DEF FragInv
<1>7. CASE UNCHANGED fragVars
  <2>1. UNCHANGED <<cut, asked, wire, store, tasks, instant, last, joined, doubled>>
    BY <1>7 DEF fragVars
  <2>2. FragType'
    BY <1>inv, <2>1 DEF FragType
  <2> QED
    BY <1>wire, <2>1, <2>2
<1> QED
  BY <1>1, <1>2, <1>3, <1>4, <1>5, <1>6, <1>7 DEF FragNext

\* What is stored is young, and not of a message that is remembered.
LEMMA FragInvSound == FragInv => FragmentsSound
<1> SUFFICES ASSUME FragInv, NEW side \in Sides, NEW k \in DOMAIN store[side].items
             PROVE  /\ store[side].items[k].created > store[side].lastPurge - Max({1, Remembers})
                    /\ ~Known(store[side], k)
  BY DEF FragInv, FragmentsSound, StoreFresh
<1>1. AssemblySound(side, store[side], k, instant, cut)
  BY DEF FragInv, StoreSound
<1> QED
  BY <1>1 DEF AssemblySound, Kept, Known, Horizon

\* However fragments are lost, doubled, delayed and reordered: those of two
\* messages are never put together, but for messages of the same sequence
\* number cut into as many pieces; a message is not taken twice while it is
\* remembered; and a store holds nothing that has grown old.
THEOREM FragmentsAreSound == FragSpec => []FragmentsSound
BY FragInvSound, FragInvInit, FragInvStep, PTL DEF FragSpec

-----------------------------------------------------------------------------
(* The cache of answers.                                                    *)

FileRecord == [key : Keys, rec : {r \in CacheRecord : r.status = "ready"}]
CacheType ==
    /\ order \in Seq(Keys) /\ Cached \in SUBSET Keys /\ items \in [Cached -> CacheRecord]
    /\ clock \in Nat /\ dirty \in BOOLEAN /\ missed \in SUBSET Keys
    /\ file \in Seq(FileRecord)
    /\ save \in [at : {"idle", "count", "write", "rename", "clear"},
                 left : Seq(Keys), out : Seq(FileRecord)]

\* The records of a file have a place in the shard, and no key is twice among them.
NoneTwice(f) == \A i, j \in 1 .. Len(f) : f[i].key = f[j].key => i = j
Storable(f) == Len(f) <= ShardLimit /\ NoneTwice(f)

\* A save has, as far as it has come, every record that is ready, unless one changed
\* since it began; the flag is set until it ends.
SaveKnows ==
    /\ save.at # "idle" => dirty
    /\ missed = {} => \A k \in Cached : Ready(k) =>
          /\ save.at = "write" => k \in ToSet(save.left)
          /\ save.at = "rename" => Holds(save.out, k)
          /\ save.at = "clear" \/ (save.at = "idle" /\ ~dirty) => Holds(file, k)

CacheInv ==
    CacheType /\ CacheConsistent /\ Storable(file) /\ Storable(save.out) /\ SaveKnows

\* The keys of the records that wait for an answer.
Pendings == {k \in Cached : items[k].status = "pending"}
OrderOK(o, K) == IsInjective(o) /\ ToSet(o) = K

\* A file may be empty.
LEMMA NothingStored == Storable(<<>>)
<1>1. Len(<<>>) = 0 /\ 0 <= ShardLimit
  BY DNSCacheAssumption
<1> QED
  BY <1>1 DEF Storable, NoneTwice

\* The order names finitely many keys.
LEMMA CachedIsFinite ==
    ASSUME CacheType, CacheConsistent
    PROVE  /\ IsFiniteSet(Cached) /\ IsFiniteSet(Pendings) /\ Len(order) = Cardinality(Cached)
           /\ pendingTotal = Cardinality(Pendings) /\ pendingTotal \in Nat
<1>1. order \in Seq(Keys) /\ IsInjective(order) /\ ToSet(order) = Cached
  BY DEF CacheType, CacheConsistent
<1>2. IsFiniteSet(Cached) /\ Cardinality(Cached) = Len(order)
  BY <1>1, LengthOfOnce
<1>3. IsFiniteSet(Pendings)
  BY <1>2, FS_Subset DEF Pendings
<1>4. pendingTotal = Cardinality(Pendings)
  BY DEF CacheConsistent, Pendings
<1> QED
  BY <1>2, <1>3, <1>4, FS_CardinalityType

\* A key that goes, and one that goes to the back.
LEMMA OrderWithout ==
    ASSUME CacheType, CacheConsistent, NEW k \in Keys
    PROVE  /\ Without(k) \in Seq(Keys) /\ OrderOK(Without(k), Cached \ {k})
           /\ Len(Without(k)) <= Len(order)
<1> DEFINE I == {i \in 1 .. Len(order) : order[i] # k}
<1>1. order \in Seq(Keys) /\ IsInjective(order) /\ ToSet(order) = Cached
  BY DEF CacheType, CacheConsistent
<1>2. DOMAIN order = 1 .. Len(order)
  BY <1>1
<1>3. {order[i] : i \in I} = Cached \ {k}
  BY <1>1, <1>2 DEF ToSet
<1>4. I \in SUBSET (1 .. Len(order))
  OBVIOUS
<1> HIDE DEF I
<1>5. LET w == PickedAt(order, I)
      IN  /\ w \in Seq(Keys) /\ IsInjective(w) /\ Len(w) <= Len(order)
          /\ ToSet(w) = {order[i] : i \in I}
  BY <1>1, <1>4, PickedOnce
<1> QED
  BY <1>3, <1>5 DEF Without, OrderOK, I

LEMMA OrderBack ==
    ASSUME CacheType, CacheConsistent, NEW k \in Keys
    PROVE  /\ Back(k) \in Seq(Keys) /\ OrderOK(Back(k), Cached \cup {k})
           /\ Len(Back(k)) \in 1 .. Len(order) + 1 /\ Back(k)[Len(Back(k))] = k
           /\ k \in Cached => Len(Back(k)) = Len(order)
<1> DEFINE w == Without(k)
           b == Append(w, k)
<1>1. w \in Seq(Keys) /\ OrderOK(w, Cached \ {k}) /\ Len(w) <= Len(order)
  BY OrderWithout
<1>2. order \in Seq(Keys) /\ Len(order) = Cardinality(Cached)
  BY CachedIsFinite DEF CacheType
<1> HIDE DEF w
<1>3. /\ b \in Seq(Keys) /\ Len(b) = Len(w) + 1 /\ b[Len(b)] = k
      /\ \A i \in 1 .. Len(w) : b[i] = w[i]
      /\ Len(w) \in Nat /\ Len(order) \in Nat /\ DOMAIN w = 1 .. Len(w)
      /\ DOMAIN b = 1 .. Len(w) + 1
  BY <1>1, <1>2
<1>4. \A i \in 1 .. Len(w) : w[i] \in Cached \ {k}
  BY <1>1, <1>3 DEF OrderOK, ToSet
<1> HIDE DEF b
<1>5. IsInjective(b)
  BY <1>1, <1>3, <1>4 DEF OrderOK, IsInjective
<1>6. ToSet(b) = Cached \cup {k}
  <2>1. \A x \in Cached \ {k} : \E i \in 1 .. Len(w) : w[i] = x
    BY <1>1, <1>3 DEF OrderOK, ToSet
  <2>2. ToSet(b) \subseteq Cached \cup {k}
    BY <1>3, <1>4 DEF ToSet
  <2>3. k \in ToSet(b)
    BY <1>3 DEF ToSet
  <2>4. Cached \ {k} \subseteq ToSet(b)
    BY <2>1, <1>3 DEF ToSet
  <2> QED
    BY <2>2, <2>3, <2>4
<1>7. k \in Cached => Len(b) = Len(order)
  <2>1. Cardinality(ToSet(b)) = Len(b)
    BY <1>3, <1>5, LengthOfOnce
  <2> QED
    BY <2>1, <1>2, <1>6
<1>8. Back(k) = b
  BY DEF Back, b, w
<1> QED
  BY <1>1, <1>3, <1>5, <1>6, <1>7, <1>8 DEF OrderOK

\* Who no longer waits is taken off the count.
LEMMA OneWaitsLess ==
    ASSUME CacheType, CacheConsistent, NEW k \in Keys
    PROVE  (IF k \in Cached THEN Less(pendingTotal, items[k]) ELSE pendingTotal)
              = Cardinality(Pendings \ {k})
<1>1. IsFiniteSet(Pendings) /\ pendingTotal = Cardinality(Pendings) /\ pendingTotal \in Nat
  BY CachedIsFinite
<1>2. Cardinality(Pendings \ {k})
         = IF k \in Pendings THEN Cardinality(Pendings) - 1 ELSE Cardinality(Pendings)
  BY <1>1, FS_RemoveElement
<1>3. k \in Pendings <=> k \in Cached /\ items[k].status = "pending"
  BY DEF Pendings
<1>4. k \in Pendings => Cardinality(Pendings) # 0
  BY <1>1, FS_EmptySet
<1> QED
  BY <1>1, <1>2, <1>3, <1>4 DEF Less

\* A record put at the back, with the count of those that wait then, leaves a cache
\* that is consistent.
LEMMA PutKeeps ==
    ASSUME CacheType, CacheConsistent, NEW k \in Keys, NEW rec \in CacheRecord, NEW total,
           Put(k, rec, total, Back(k)),
           total = Cardinality((Pendings \ {k}) \cup
                                  (IF rec.status = "pending" THEN {k} ELSE {}))
    PROVE  /\ order' \in Seq(Keys) /\ Cached' \in SUBSET Keys
           /\ items' \in [Cached' -> CacheRecord] /\ CacheConsistent'
<1> DEFINE b == Back(k)
           n == Len(b)
           P == (Pendings \ {k}) \cup (IF rec.status = "pending" THEN {k} ELSE {})
           new == [q \in Cached \cup {k} |-> IF q = k THEN rec ELSE items[q]]
<1>1. /\ b \in Seq(Keys) /\ OrderOK(b, Cached \cup {k})
      /\ n \in 1 .. Len(order) + 1 /\ b[n] = k
  BY OrderBack
<1>2. /\ order \in Seq(Keys) /\ Cached \in SUBSET Keys /\ items \in [Cached -> CacheRecord]
      /\ Len(order) <= ShardLimit /\ ShardLimit \in Nat \ {0} /\ Len(order) \in Nat
  BY DNSCacheAssumption DEF CacheType, CacheConsistent
<1>3. IsFiniteSet(P) /\ total = Cardinality(P)
  <2>1. IsFiniteSet(Cached \cup {k}) /\ P \subseteq Cached \cup {k}
    BY CachedIsFinite, FS_AddElement DEF Pendings
  <2> QED
    BY <2>1, FS_Subset
<1>4. \A q \in Cached \cup {k} : new[q] \in CacheRecord /\ (q \in P <=> new[q].status = "pending")
  BY <1>2 DEF Pendings
<1>5. P \subseteq Cached \cup {k}
  BY DEF Pendings
<1>6. CASE n <= ShardLimit
  <2>1. items' = new /\ order' = b /\ pendingTotal' = total
    BY <1>1, <1>2, <1>6 DEF Put
  <2>2. Cached' = Cached \cup {k} /\ \A q \in Cached' : items'[q] = new[q]
    BY <2>1 DEF Cached
  <2> HIDE DEF P, new, b, n
  <2>3. {q \in Cached' : items'[q].status = "pending"} = P
    BY <2>2, <1>4, <1>5
  <2>4. items' \in [Cached' -> CacheRecord]
    <3>1. new \in [Cached \cup {k} -> CacheRecord]
      BY <1>4 DEF new
    <3> QED
      BY <3>1, <2>1, <2>2
  <2> QED
    BY <1>1, <1>2, <1>3, <1>6, <2>1, <2>2, <2>3, <2>4 DEF CacheConsistent, OrderOK, n
<1>7. CASE n > ShardLimit
  <2> DEFINE out == Head(b)
             kept == (Cached \cup {k}) \ {out}
  <2>1. /\ items' = [q \in kept |-> IF q = k THEN rec ELSE items[q]] /\ order' = Tail(b)
        /\ pendingTotal' = Less(total, items[out])
    BY <1>7 DEF Put
  <2>2. n = Len(order) + 1 /\ n >= 2 /\ n = ShardLimit + 1
    BY <1>1, <1>2, <1>7
  <2>3. /\ out = b[1] /\ Tail(b) \in Seq(Keys) /\ Len(Tail(b)) = n - 1
        /\ \A i \in 1 .. n - 1 : Tail(b)[i] = b[i + 1]
        /\ DOMAIN Tail(b) = 1 .. n - 1 /\ DOMAIN b = 1 .. n /\ n \in Nat
    BY <1>1, <2>2
  <2>4. /\ \A i, j \in 1 .. n : b[i] = b[j] => i = j
        /\ \A i \in 1 .. n : b[i] \in Cached \cup {k}
        /\ \A q \in Cached \cup {k} : \E i \in 1 .. n : b[i] = q
    BY <1>1, <2>3 DEF OrderOK, IsInjective, ToSet
  <2> HIDE DEF b, n, P, new
  <2>5. out \in Cached /\ out # k
    BY <2>2, <2>3, <2>4, <1>1
  <2>6. Cached' = kept /\ \A q \in kept : items'[q] = new[q]
    BY <2>1 DEF Cached, new
  <2> HIDE DEF out
  <2>7. items' \in [Cached' -> CacheRecord]
    <3>1. \A q \in kept : (IF q = k THEN rec ELSE items[q]) \in CacheRecord
      BY <1>2
    <3>2. items' \in [kept -> CacheRecord]
      BY <2>1, <3>1
    <3> QED
      BY <3>2, <2>6
  <2>8. {q \in Cached' : items'[q].status = "pending"} = P \ {out}
    BY <2>6, <1>4, <1>5
  <2>9. pendingTotal' = Cardinality(P \ {out})
    <3>1. out \in P <=> items[out].status = "pending"
      BY <1>4, <2>5 DEF new
    <3>2. Cardinality(P \ {out})
             = IF out \in P THEN Cardinality(P) - 1 ELSE Cardinality(P)
      BY <1>3, FS_RemoveElement
    <3>3. Cardinality(P) \in Nat /\ (out \in P => Cardinality(P) # 0)
      BY <1>3, FS_CardinalityType, FS_EmptySet
    <3> QED
      BY <3>1, <3>2, <3>3, <2>1, <1>3 DEF Less
  <2>10. IsInjective(order') /\ ToSet(order') = Cached' /\ Len(order') <= ShardLimit
    <3>1. \A i, j \in 1 .. n - 1 : Tail(b)[i] = Tail(b)[j] => i = j
      BY <2>3, <2>4
    <3>2. IsInjective(Tail(b))
      BY <3>1, <2>3 DEF IsInjective
    <3>3. \A i \in 1 .. n - 1 : Tail(b)[i] \in kept
      BY <2>3, <2>4
    <3>4. \A q \in kept : \E i \in 1 .. n - 1 : Tail(b)[i] = q
      <4> TAKE q \in kept
      <4>1. PICK i \in 1 .. n : b[i] = q
        BY <2>4
      <4>2. i # 1
        BY <4>1, <2>3
      <4>3. i - 1 \in 1 .. n - 1 /\ Tail(b)[i - 1] = q
        BY <4>1, <4>2, <2>3
      <4> QED
        BY <4>3
    <3>5. ToSet(Tail(b)) = {Tail(b)[i] : i \in 1 .. n - 1}
      BY <2>3 DEF ToSet
    <3>6. ToSet(Tail(b)) = kept
      BY <3>3, <3>4, <3>5
    <3> QED
      BY <3>2, <3>6, <2>1, <2>2, <2>3, <2>6, <1>2
  <2>11. Cached' \in SUBSET Keys
    BY <2>6, <1>2
  <2> QED
    BY <2>1, <2>3, <2>7, <2>8, <2>9, <2>10, <2>11 DEF CacheConsistent
<1> QED
  BY <1>1, <1>2, <1>6, <1>7

\* A record that is used goes to the back and waits as before.
LEMMA UseKeeps ==
    ASSUME CacheType, CacheConsistent, NEW k \in Cached, NEW rec \in CacheRecord,
           rec.status = items[k].status,
           items' = [items EXCEPT ![k] = rec], order' = Back(k), pendingTotal' = pendingTotal
    PROVE  /\ order' \in Seq(Keys) /\ Cached' \in SUBSET Keys
           /\ items' \in [Cached' -> CacheRecord] /\ CacheConsistent'
<1>1. Cached \in SUBSET Keys /\ items \in [Cached -> CacheRecord]
  BY DEF CacheType
<1>2. k \in Keys /\ Cached \cup {k} = Cached
  BY <1>1
<1>3. /\ Back(k) \in Seq(Keys) /\ OrderOK(Back(k), Cached)
      /\ Len(Back(k)) = Len(order)
  BY <1>2, OrderBack
<1>4. Cached' = Cached /\ items' \in [Cached -> CacheRecord]
  BY <1>1 DEF Cached
<1>5. \A q \in Cached : items'[q].status = items[q].status
  BY <1>1
<1>6. {q \in Cached' : items'[q].status = "pending"} = {q \in Cached : items[q].status = "pending"}
  BY <1>4, <1>5
<1> QED
  BY <1>1, <1>3, <1>4, <1>6 DEF CacheConsistent, OrderOK

\* What changes is remembered by a save under way; else the flag is set.
LEMMA ChangeIsKnown ==
    ASSUME SaveKnows, NEW k, Changed(k), save' = save
    PROVE  SaveKnows'
BY DEF SaveKnows, Changed

\* Otherwise no record becomes ready, and none gets another answer.
SameAnswers ==
    \A k \in Cached' : Ready(k)' => k \in Cached /\ Ready(k) /\ items'[k].answer = items[k].answer
LEMMA KnowsAsBefore ==
    ASSUME SaveKnows, SameAnswers, save' = save, file' = file, missed' = missed, dirty => dirty'
    PROVE  SaveKnows'
<1> SUFFICES ASSUME missed = {}, NEW k \in Cached', Ready(k)'
             PROVE  /\ save.at = "write" => k \in ToSet(save.left)
                    /\ save.at = "rename" => Holds(save.out, k)'
                    /\ save.at = "clear" \/ (save.at = "idle" /\ ~dirty') => Holds(file, k)'
  BY DEF SaveKnows
<1>1. k \in Cached /\ Ready(k) /\ items'[k].answer = items[k].answer
  BY DEF SameAnswers
<1>2. Holds(save.out, k) => Holds(save.out, k)'
  BY <1>1 DEF Holds
<1>3. Holds(file, k) => Holds(file, k)'
  BY <1>1 DEF Holds
<1>4. /\ save.at = "write" => k \in ToSet(save.left)
      /\ save.at = "rename" => Holds(save.out, k)
      /\ save.at = "clear" \/ (save.at = "idle" /\ ~dirty) => Holds(file, k)
  BY <1>1 DEF SaveKnows
<1> QED
  BY <1>2, <1>3, <1>4

LEMMA TouchKeeps ==
    ASSUME CacheInv, NEW k \in Cached, ~Expired(items[k]), Touch(k, items[k]),
           UNCHANGED <<pendingTotal, clock, file, save, stops>>
    PROVE  CacheInv'
<1> DEFINE rec == [items[k] EXCEPT !.used = clock]
<1>1. /\ items \in [Cached -> CacheRecord] /\ clock \in Nat
      /\ CacheType /\ CacheConsistent /\ SaveKnows /\ Storable(file) /\ Storable(save.out)
  BY DEF CacheInv, CacheType
<1>2. /\ items[k] \in CacheRecord
      /\ rec \in CacheRecord /\ rec.status = items[k].status /\ rec.answer = items[k].answer
  BY <1>1 DEF CacheRecord
<1>3. /\ items' = [items EXCEPT ![k] = rec] /\ order' = Back(k) /\ missed' = missed
      /\ dirty' = (dirty \/ clock > items[k].used)
  BY DEF Touch
<1>4. Cached' = Cached /\ items'[k] = rec /\ \A q \in Cached : q # k => items'[q] = items[q]
  BY <1>1, <1>3 DEF Cached
<1> HIDE DEF rec
<1>5. /\ order' \in Seq(Keys) /\ Cached' \in SUBSET Keys
      /\ items' \in [Cached' -> CacheRecord] /\ CacheConsistent'
  BY <1>1, <1>2, <1>3, UseKeeps
<1>6. SameAnswers
  <2> SUFFICES ASSUME NEW q \in Cached', Ready(q)'
               PROVE  q \in Cached /\ Ready(q) /\ items'[q].answer = items[q].answer
    BY DEF SameAnswers
  <2>1. CASE q = k
    BY <2>1, <1>2, <1>4 DEF Ready
  <2>2. CASE q # k
    BY <2>2, <1>4 DEF Ready, Expired
  <2> QED
    BY <2>1, <2>2
<1>7. dirty' \in BOOLEAN /\ (dirty => dirty')
  BY <1>3
<1>8. SaveKnows'
  BY <1>1, <1>3, <1>6, <1>7, KnowsAsBefore
<1>9. CacheType'
  BY <1>1, <1>3, <1>5, <1>7 DEF CacheType
<1> QED
  BY <1>1, <1>5, <1>8, <1>9 DEF CacheInv

\* What the steps that put a record in, or take one out, do to the rest.
LEMMA ChangeKeeps ==
    ASSUME CacheInv, NEW k \in Keys, Changed(k), UNCHANGED <<clock, file, save, stops>>,
           order' \in Seq(Keys), Cached' \in SUBSET Keys, items' \in [Cached' -> CacheRecord],
           CacheConsistent'
    PROVE  CacheInv'
<1>1. CacheType /\ SaveKnows /\ Storable(file) /\ Storable(save.out)
  BY DEF CacheInv
<1>2. SaveKnows'
  BY <1>1, ChangeIsKnown
<1>3. dirty' = TRUE /\ missed' \in SUBSET Keys
  BY <1>1 DEF Changed, CacheType
<1>4. CacheType'
  BY <1>1, <1>3 DEF CacheType
<1> QED
  BY <1>1, <1>2, <1>4 DEF CacheInv

LEMMA LookupKeeps == ASSUME CacheInv, NEW k \in Keys, Lookup(k) PROVE CacheInv'
<1> DEFINE found == k \in Cached /\ ~Expired(items[k])
           fresh == Record("pending", "none", clock, clock)
           total == IF k \in Cached THEN Less(pendingTotal, items[k]) ELSE pendingTotal
           again == found /\ items[k].status = "pending"
                          /\ clock - items[k].sentAt >= PendingTimeout
           rec   == [items[k] EXCEPT !.used = clock, !.sentAt = clock]
<1>1. CacheType /\ CacheConsistent /\ items \in [Cached -> CacheRecord] /\ clock \in Nat
  BY DEF CacheInv, CacheType
<1>2. UNCHANGED <<clock, file, save, stops>>
  BY DEF Lookup
<1>3. CASE again
  <2>1. /\ items' = [items EXCEPT ![k].used = clock, ![k].sentAt = clock]
        /\ order' = Back(k) /\ Changed(k) /\ pendingTotal' = pendingTotal
    BY <1>3 DEF Lookup
  <2>2. k \in Cached
    BY <1>3
  <2>3. items[k] \in CacheRecord /\ rec \in CacheRecord /\ rec.status = items[k].status
    BY <1>1, <2>2 DEF CacheRecord
  <2>4. items' = [items EXCEPT ![k] = rec]
    BY <2>1, <2>2, <2>3, <1>1 DEF CacheRecord
  <2> HIDE DEF rec, again, found, fresh, total
  <2>5. /\ order' \in Seq(Keys) /\ Cached' \in SUBSET Keys
        /\ items' \in [Cached' -> CacheRecord] /\ CacheConsistent'
    BY <1>1, <2>1, <2>2, <2>3, <2>4, UseKeeps
  <2> QED
    BY <1>2, <2>1, <2>5, ChangeKeeps
<1>4. CASE ~again /\ found
  <2>1. Touch(k, items[k]) /\ UNCHANGED pendingTotal
    BY <1>4 DEF Lookup
  <2> QED
    BY <1>2, <1>4, <2>1, TouchKeeps
<1>5. CASE ~found
  <2>1. Put(k, fresh, total + 1, Back(k)) /\ Changed(k)
    BY <1>5 DEF Lookup
  <2>2. fresh \in CacheRecord /\ fresh.status = "pending"
    BY <1>1 DEF CacheRecord, Record
  <2>3. total = Cardinality(Pendings \ {k})
    BY <1>1, OneWaitsLess
  <2> HIDE DEF total, fresh, found, again
  <2>4. IsFiniteSet(Pendings \ {k}) /\ k \notin Pendings \ {k}
    BY <1>1, CachedIsFinite, FS_Subset
  <2>5. total + 1 = Cardinality((Pendings \ {k}) \cup {k})
    BY <2>3, <2>4, FS_AddElement
  <2>6. total + 1 = Cardinality((Pendings \ {k}) \cup
                                  (IF fresh.status = "pending" THEN {k} ELSE {}))
    BY <2>2, <2>5
  <2>7. /\ order' \in Seq(Keys) /\ Cached' \in SUBSET Keys
        /\ items' \in [Cached' -> CacheRecord] /\ CacheConsistent'
    BY <1>1, <2>1, <2>2, <2>6, PutKeeps
  <2> QED
    BY <1>2, <2>1, <2>7, ChangeKeeps
<1> QED
  BY <1>3, <1>4, <1>5

LEMMA SetReadyKeeps ==
    ASSUME CacheInv, NEW k \in Keys, NEW r \in Responses, SetReady(k, r) PROVE CacheInv'
<1> DEFINE rec == Record("ready", r, clock, 0)
           total == IF k \in Cached THEN Less(pendingTotal, items[k]) ELSE pendingTotal
<1>1. CacheType /\ CacheConsistent /\ clock \in Nat
  BY DEF CacheInv, CacheType
<1>2. Put(k, rec, total, Back(k)) /\ Changed(k) /\ UNCHANGED <<clock, file, save, stops>>
  BY DEF SetReady
<1>3. rec \in CacheRecord /\ rec.status = "ready"
  BY <1>1 DEF CacheRecord, Record
<1>4. total = Cardinality(Pendings \ {k})
  BY <1>1, OneWaitsLess
<1> HIDE DEF rec, total
<1>5. (Pendings \ {k}) \cup (IF rec.status = "pending" THEN {k} ELSE {}) = Pendings \ {k}
  BY <1>3
<1>6. /\ order' \in Seq(Keys) /\ Cached' \in SUBSET Keys
      /\ items' \in [Cached' -> CacheRecord] /\ CacheConsistent'
  BY <1>1, <1>2, <1>3, <1>4, <1>5, PutKeeps
<1> QED
  BY <1>2, <1>6, ChangeKeeps

\* Keys that are taken out leave a cache that is consistent.
LEMMA TakeOutKeeps ==
    ASSUME CacheType, CacheConsistent, NEW K \in SUBSET Cached,
           items' = [q \in K |-> items[q]], order' \in Seq(Keys), OrderOK(order', K),
           pendingTotal' = Cardinality(Pendings \cap K)
    PROVE  /\ Cached' \in SUBSET Keys /\ items' \in [Cached' -> CacheRecord]
           /\ CacheConsistent'
<1>1. Cached \in SUBSET Keys /\ items \in [Cached -> CacheRecord]
  BY DEF CacheType
<1>2. Cached' = K
  BY DEF Cached
<1>3. {q \in Cached' : items'[q].status = "pending"} = Pendings \cap K
  BY <1>2 DEF Pendings
<1>4. /\ Len(order) = Cardinality(Cached) /\ IsFiniteSet(Cached)
      /\ Len(order) \in Nat /\ Len(order) <= ShardLimit /\ ShardLimit \in Nat
  <2>1. order \in Seq(Keys) /\ Len(order) <= ShardLimit /\ ShardLimit \in Nat
    BY DNSCacheAssumption DEF CacheType, CacheConsistent
  <2> QED
    BY <2>1, CachedIsFinite
<1>5. Cardinality(K) <= Cardinality(Cached) /\ Cardinality(K) \in Nat
  BY <1>4, FS_Subset, FS_CardinalityType
<1>6. Len(order') = Cardinality(K)
  <2>1. order' \in Seq(Keys) /\ IsInjective(order') /\ ToSet(order') = K
    BY DEF OrderOK
  <2> QED
    BY <2>1, LengthOfOnce
<1>7. Len(order') <= ShardLimit
  BY <1>4, <1>5, <1>6
<1> QED
  BY <1>1, <1>2, <1>3, <1>7 DEF CacheConsistent, OrderOK

LEMMA GetReadyKeeps == ASSUME CacheInv, NEW k \in Keys, GetReady(k) PROVE CacheInv'
<1>1. CacheType /\ CacheConsistent /\ k \in Cached
  BY DEF CacheInv, GetReady
<1>2. UNCHANGED <<clock, file, save, stops>>
  BY DEF GetReady
<1>3. CASE Expired(items[k])
  <2>1. /\ items' = [q \in Cached \ {k} |-> items[q]]
        /\ order' = Without(k) /\ Changed(k)
        /\ pendingTotal' = Less(pendingTotal, items[k])
    BY <1>3 DEF GetReady
  <2>2. Without(k) \in Seq(Keys) /\ OrderOK(Without(k), Cached \ {k})
    BY <1>1, OrderWithout
  <2>3. pendingTotal' = Cardinality(Pendings \ {k})
    BY <1>1, <2>1, OneWaitsLess
  <2>4. Pendings \ {k} = Pendings \cap (Cached \ {k})
    BY DEF Pendings
  <2>5. /\ Cached' \in SUBSET Keys /\ items' \in [Cached' -> CacheRecord]
        /\ CacheConsistent'
    BY <1>1, <2>1, <2>2, <2>3, <2>4, TakeOutKeeps
  <2> QED
    BY <1>2, <2>1, <2>2, <2>5, ChangeKeeps
<1>4. CASE ~Expired(items[k])
  <2>1. Touch(k, items[k]) /\ UNCHANGED pendingTotal
    BY <1>4 DEF GetReady
  <2> QED
    BY <1>1, <1>2, <1>4, <2>1, TouchKeeps
<1> QED
  BY <1>3, <1>4

\* Those taken out of the order for a reason of their own.
LEMMA OrderOf ==
    ASSUME CacheType, CacheConsistent, NEW K \in SUBSET Cached, NEW w,
           w = PickedAt(order, {i \in 1 .. Len(order) : order[i] \in K})
    PROVE  w \in Seq(Keys) /\ OrderOK(w, K)
<1> DEFINE I == {i \in 1 .. Len(order) : order[i] \in K}
<1>1. order \in Seq(Keys) /\ IsInjective(order) /\ ToSet(order) = Cached
  BY DEF CacheType, CacheConsistent
<1>2. DOMAIN order = 1 .. Len(order)
  BY <1>1
<1>3. {order[i] : i \in I} = K
  BY <1>1, <1>2 DEF ToSet
<1>4. I \in SUBSET (1 .. Len(order))
  OBVIOUS
<1> HIDE DEF I
<1>5. LET v == PickedAt(order, I)
      IN  /\ v \in Seq(Keys) /\ IsInjective(v) /\ Len(v) <= Len(order)
          /\ ToSet(v) = {order[i] : i \in I}
  BY <1>1, <1>4, PickedOnce
<1> QED
  BY <1>3, <1>5 DEF OrderOK, I

LEMMA ClearPendingKeeps == ASSUME CacheInv, ClearPending PROVE CacheInv'
<1> DEFINE stay == {k \in Cached : items[k].status = "ready"}
<1>1. /\ CacheType /\ CacheConsistent /\ items \in [Cached -> CacheRecord]
      /\ SaveKnows /\ Storable(file) /\ Storable(save.out)
  BY DEF CacheInv, CacheType
<1>2. /\ items' = [k \in stay |-> items[k]]
      /\ order' = PickedAt(order, {i \in 1 .. Len(order) : order[i] \in stay})
      /\ pendingTotal' = pendingTotal - Cardinality(Cached \ stay)
      /\ dirty' = TRUE /\ UNCHANGED <<clock, file, save, stops, missed>>
  BY DEF ClearPending
<1>3. /\ stay \in SUBSET Cached /\ Cached \ stay = Pendings /\ Pendings \cap stay = {}
  BY <1>1 DEF CacheRecord, Pendings
<1>4. SameAnswers
  BY <1>2 DEF SameAnswers, Ready, Expired, Cached
<1> HIDE DEF stay
<1>5. order' \in Seq(Keys) /\ OrderOK(order', stay)
  BY <1>1, <1>2, <1>3, OrderOf
<1>6. pendingTotal' = Cardinality(Pendings \cap stay)
  <2>1. pendingTotal = Cardinality(Pendings) /\ pendingTotal \in Nat
    BY <1>1, CachedIsFinite
  <2>2. pendingTotal' = 0
    BY <1>2, <1>3, <2>1
  <2> QED
    BY <2>2, <1>3, FS_EmptySet
<1>7. /\ Cached' \in SUBSET Keys /\ items' \in [Cached' -> CacheRecord]
      /\ CacheConsistent'
  BY <1>1, <1>2, <1>3, <1>5, <1>6, TakeOutKeeps
<1>8. SaveKnows'
  BY <1>1, <1>2, <1>4, KnowsAsBefore
<1>9. CacheType'
  BY <1>1, <1>2, <1>5, <1>7 DEF CacheType
<1> QED
  BY <1>1, <1>2, <1>7, <1>8, <1>9 DEF CacheInv

LEMMA CacheTickKeeps == ASSUME CacheInv, CacheTick PROVE CacheInv'
<1>1. /\ CacheType /\ CacheConsistent /\ items \in [Cached -> CacheRecord] /\ clock \in Nat
      /\ SaveKnows /\ Storable(file) /\ Storable(save.out)
  BY DEF CacheInv, CacheType
<1>2. /\ clock' = clock + 1
      /\ UNCHANGED <<items, order, pendingTotal, dirty, file, save, stops, missed>>
  BY DEF CacheTick
<1>3. CacheTTL \in Nat
  BY DNSCacheAssumption
<1>4. SameAnswers
  <2> SUFFICES ASSUME NEW q \in Cached', Ready(q)'
               PROVE  q \in Cached /\ Ready(q) /\ items'[q].answer = items[q].answer
    BY DEF SameAnswers
  <2>1. q \in Cached /\ items' = items
    BY <1>2 DEF Cached
  <2>2. items[q].used \in Nat
    BY <2>1, <1>1 DEF CacheRecord
  <2> QED
    BY <1>1, <1>2, <1>3, <2>1, <2>2 DEF Ready, Expired
<1>5. SaveKnows'
  BY <1>1, <1>2, <1>4, KnowsAsBefore
<1>6. CacheType' /\ CacheConsistent'
  BY <1>1, <1>2 DEF CacheType, CacheConsistent, Cached
<1> QED
  BY <1>1, <1>2, <1>5, <1>6 DEF CacheInv

\* The steps of a save leave the records as they are.
LEMMA SaveLeaves ==
    ASSUME CacheInv, UNCHANGED <<items, order, pendingTotal, clock>>
    PROVE  /\ CacheConsistent' /\ Cached' = Cached
           /\ order' \in Seq(Keys) /\ Cached' \in SUBSET Keys
           /\ items' \in [Cached' -> CacheRecord] /\ clock' \in Nat
           /\ \A k \in Cached : Ready(k)' = Ready(k)
BY DEF CacheInv, CacheType, CacheConsistent, Cached, Ready, Expired

LEMMA SaveStartsKeeps == ASSUME CacheInv, SaveStarts PROVE CacheInv'
<1>1. CacheType /\ SaveKnows /\ Storable(file)
  BY DEF CacheInv
<1>2. /\ dirty /\ save' = [at |-> "count", left |-> <<>>, out |-> <<>>] /\ missed' = {}
      /\ UNCHANGED <<items, order, pendingTotal, dirty, clock, file, stops>>
  BY DEF SaveStarts
<1>3. CacheConsistent' /\ CacheType'
  BY <1>1, <1>2, SaveLeaves DEF CacheType
<1>4. SaveKnows'
  BY <1>2 DEF SaveKnows
<1>5. Storable(save'.out) /\ Storable(file')
  BY <1>1, <1>2, NothingStored
<1> QED
  BY <1>3, <1>4, <1>5 DEF CacheInv

\* The keys that are ready, in their order.
LEMMA ReadyOnes ==
    ASSUME CacheInv
    PROVE  /\ ReadyKeys \in Seq(Keys) /\ IsInjective(ReadyKeys)
           /\ ToSet(ReadyKeys) = {k \in Cached : Ready(k)}
<1> DEFINE K == {k \in Cached : Ready(k)}
<1>1. /\ CacheType /\ CacheConsistent
      /\ order \in Seq(Keys) /\ ToSet(order) = Cached /\ DOMAIN order = 1 .. Len(order)
  BY DEF CacheInv, CacheType, CacheConsistent
<1>2. \A i \in 1 .. Len(order) : order[i] \in Cached
  BY <1>1 DEF ToSet
<1>3. {i \in 1 .. Len(order) : Ready(order[i])} = {i \in 1 .. Len(order) : order[i] \in K}
  BY <1>2
<1>4. ReadyKeys = PickedAt(order, {i \in 1 .. Len(order) : order[i] \in K})
  BY <1>3 DEF ReadyKeys
<1>5. K \in SUBSET Cached
  OBVIOUS
<1> HIDE DEF K
<1>6. ReadyKeys \in Seq(Keys) /\ OrderOK(ReadyKeys, K)
  BY <1>1, <1>4, <1>5, OrderOf
<1> QED
  BY <1>6 DEF OrderOK, K

LEMMA SaveCountsKeeps == ASSUME CacheInv, SaveCounts PROVE CacheInv'
<1>1. CacheType /\ SaveKnows /\ Storable(file)
  BY DEF CacheInv
<1>2. /\ save.at = "count" /\ save' = [at |-> "write", left |-> ReadyKeys, out |-> <<>>]
      /\ UNCHANGED <<items, order, pendingTotal, dirty, clock, file, stops, missed>>
  BY DEF SaveCounts
<1>3. ReadyKeys \in Seq(Keys) /\ ToSet(ReadyKeys) = {k \in Cached : Ready(k)}
  BY ReadyOnes
<1>4. CacheConsistent' /\ CacheType'
  BY <1>1, <1>2, <1>3, SaveLeaves DEF CacheType
<1>5. SaveKnows'
  <2>1. Cached' = Cached /\ \A k \in Cached : Ready(k)' = Ready(k)
    BY <1>2, SaveLeaves
  <2>2. dirty' /\ save'.at = "write" /\ save'.left = ReadyKeys
    BY <1>1, <1>2 DEF SaveKnows
  <2> QED
    BY <1>3, <2>1, <2>2 DEF SaveKnows
<1>6. Storable(save'.out) /\ Storable(file')
  BY <1>1, <1>2, NothingStored
<1> QED
  BY <1>4, <1>5, <1>6 DEF CacheInv

LEMMA SaveWritesKeeps == ASSUME CacheInv, SaveWrites PROVE CacheInv'
<1> DEFINE more == Len(ReadyKeys) > Len(save.left)
           read == IF more THEN SubSeq(ReadyKeys, 1, Len(save.left)) ELSE ReadyKeys
           out  == [i \in DOMAIN read |-> [key |-> read[i], rec |-> items[read[i]]]]
<1>1. /\ CacheType /\ SaveKnows /\ Storable(file) /\ CacheConsistent
      /\ items \in [Cached -> CacheRecord] /\ Cached \in SUBSET Keys
      /\ save.left \in Seq(Keys)
  BY DEF CacheInv, CacheType
<1>2. /\ save.at = "write" /\ save' = [at |-> "rename", left |-> <<>>, out |-> out]
      /\ UNCHANGED <<items, order, pendingTotal, dirty, clock, file, stops, missed>>
  BY DEF SaveWrites
<1>3. /\ ReadyKeys \in Seq(Keys) /\ IsInjective(ReadyKeys)
      /\ ToSet(ReadyKeys) = {k \in Cached : Ready(k)}
  BY ReadyOnes
<1>4. /\ Len(ReadyKeys) \in Nat /\ Len(save.left) \in Nat
      /\ DOMAIN ReadyKeys = 1 .. Len(ReadyKeys)
  BY <1>1, <1>3
<1>5. /\ read \in Seq(Keys) /\ Len(read) \in Nat /\ DOMAIN read = 1 .. Len(read)
      /\ Len(read) <= Len(ReadyKeys)
      /\ \A i \in 1 .. Len(read) : read[i] = ReadyKeys[i]
      /\ ~more => read = ReadyKeys
  <2>1. CASE more
    <3>1. /\ SubSeq(ReadyKeys, 1, Len(save.left)) \in Seq(Keys)
          /\ Len(SubSeq(ReadyKeys, 1, Len(save.left))) = Len(save.left)
          /\ \A i \in 1 .. Len(save.left) :
                SubSeq(ReadyKeys, 1, Len(save.left))[i] = ReadyKeys[i]
      BY <1>3, <1>4, <2>1
    <3> QED
      BY <3>1, <1>4, <2>1
  <2>2. CASE ~more
    BY <1>3, <1>4, <2>2
  <2> QED
    BY <2>1, <2>2
<1>6. /\ \A i \in 1 .. Len(ReadyKeys) : ReadyKeys[i] \in Cached /\ Ready(ReadyKeys[i])
      /\ \A i, j \in 1 .. Len(ReadyKeys) : ReadyKeys[i] = ReadyKeys[j] => i = j
      /\ \A k \in Cached : Ready(k) => \E i \in 1 .. Len(ReadyKeys) : ReadyKeys[i] = k
  BY <1>3, <1>4 DEF ToSet, IsInjective
<1>7. missed = {} => ~more
  <2> SUFFICES ASSUME missed = {} PROVE Len(ReadyKeys) <= Len(save.left)
    BY <1>4
  <2>1. \A k \in Cached : Ready(k) => k \in ToSet(save.left)
    BY <1>1, <1>2 DEF SaveKnows
  <2>2. ToSet(ReadyKeys) \subseteq ToSet(save.left)
    BY <1>3, <2>1
  <2>3. Cardinality(ToSet(ReadyKeys)) = Len(ReadyKeys)
    BY <1>3, LengthOfOnce
  <2>4. /\ IsFiniteSet(ToSet(save.left)) /\ Cardinality(ToSet(save.left)) <= Len(save.left)
    BY <1>1, LengthOfAny
  <2>5. Cardinality(ToSet(ReadyKeys)) <= Cardinality(ToSet(save.left))
    BY <2>2, <2>4, FS_Subset
  <2>6. Cardinality(ToSet(save.left)) \in Nat
    BY <2>4, FS_CardinalityType
  <2> QED
    BY <1>4, <2>3, <2>4, <2>5, <2>6
<1> HIDE DEF read, more
<1>8. /\ out = [i \in 1 .. Len(read) |-> [key |-> read[i], rec |-> items[read[i]]]]
      /\ \A i \in 1 .. Len(read) : read[i] \in Cached /\ read[i] \in Keys
            /\ items[read[i]] \in CacheRecord /\ items[read[i]].status = "ready"
  <2>1. \A i \in 1 .. Len(read) : i \in 1 .. Len(ReadyKeys)
    BY <1>4, <1>5
  <2> QED
    BY <1>1, <1>5, <1>6, <2>1 DEF Ready
<1>9. out \in Seq(FileRecord) /\ Len(out) = Len(read)
  <2>1. \A i \in 1 .. Len(read) : [key |-> read[i], rec |-> items[read[i]]] \in FileRecord
    BY <1>8 DEF FileRecord
  <2> HIDE DEF out
  <2> QED
    BY <1>5, <1>8, <2>1
<1>10. Storable(out)
  <2>1. \A i \in 1 .. Len(read) : i \in 1 .. Len(ReadyKeys) /\ out[i].key = ReadyKeys[i]
    BY <1>4, <1>5, <1>8
  <2> HIDE DEF out
  <2>2. NoneTwice(out)
    BY <1>6, <1>9, <2>1 DEF NoneTwice
  <2>3. Len(ReadyKeys) <= ShardLimit
    <3>1. ToSet(ReadyKeys) \subseteq Cached
      BY <1>3
    <3>2. Cardinality(ToSet(ReadyKeys)) = Len(ReadyKeys)
      BY <1>3, LengthOfOnce
    <3>3. IsFiniteSet(Cached) /\ Cardinality(Cached) = Len(order) /\ Len(order) <= ShardLimit
      BY <1>1, CachedIsFinite DEF CacheConsistent
    <3>4. Cardinality(ToSet(ReadyKeys)) <= Cardinality(Cached) /\ Cardinality(Cached) \in Nat
      BY <3>1, <3>3, FS_Subset, FS_CardinalityType
    <3> QED
      BY <1>4, <3>2, <3>3, <3>4, DNSCacheAssumption
  <2>4. Len(out) <= ShardLimit
    BY <1>4, <1>5, <1>9, <2>3, DNSCacheAssumption
  <2> QED
    BY <2>2, <2>4 DEF Storable
<1>11. SaveKnows'
  <2>1. Cached' = Cached /\ \A k \in Cached : Ready(k)' = Ready(k)
    BY <1>2, SaveLeaves
  <2>2. dirty' /\ save'.at = "rename" /\ save'.out = out /\ missed' = missed /\ items' = items
    BY <1>1, <1>2 DEF SaveKnows
  <2>3. ASSUME missed = {}, NEW k \in Cached, Ready(k) PROVE Holds(save.out, k)'
    <3>1. PICK i \in 1 .. Len(read) : read[i] = k
      BY <1>5, <1>6, <1>7, <2>3
    <3>2. i \in DOMAIN out /\ out[i].key = k /\ out[i].rec.answer = items[k].answer
      BY <1>8, <3>1
    <3> HIDE DEF out
    <3> QED
      BY <3>2, <2>2 DEF Holds
  <2> HIDE DEF out
  <2> QED
    BY <2>1, <2>2, <2>3 DEF SaveKnows
<1> HIDE DEF out
<1>12. CacheConsistent' /\ CacheType'
  BY <1>1, <1>2, <1>9, SaveLeaves DEF CacheType
<1>13. Storable(save'.out) /\ Storable(file')
  BY <1>1, <1>2, <1>10
<1> QED
  BY <1>11, <1>12, <1>13 DEF CacheInv

LEMMA SaveRenamesKeeps == ASSUME CacheInv, SaveRenames PROVE CacheInv'
<1>1. CacheType /\ SaveKnows /\ Storable(save.out)
  BY DEF CacheInv
<1>2. /\ save.at = "rename" /\ file' = save.out /\ save' = [save EXCEPT !.at = "clear"]
      /\ UNCHANGED <<items, order, pendingTotal, dirty, clock, stops, missed>>
  BY DEF SaveRenames
<1>3. /\ save'.at = "clear" /\ save'.left = save.left /\ save'.out = save.out
      /\ save' \in [at : {"idle", "count", "write", "rename", "clear"},
                    left : Seq(Keys), out : Seq(FileRecord)]
      /\ file' \in Seq(FileRecord)
  BY <1>1, <1>2 DEF CacheType
<1>4. CacheConsistent' /\ CacheType'
  BY <1>1, <1>2, <1>3, SaveLeaves DEF CacheType
<1>5. SaveKnows'
  <2>1. Cached' = Cached /\ \A k \in Cached : Ready(k)' = Ready(k)
    BY <1>2, SaveLeaves
  <2>2. missed = {} => \A k \in Cached : Ready(k) => Holds(save.out, k)
    BY <1>1, <1>2 DEF SaveKnows
  <2>3. \A k \in Cached : Holds(save.out, k) => Holds(file, k)'
    BY <1>2 DEF Holds
  <2>4. dirty'
    BY <1>1, <1>2 DEF SaveKnows
  <2> QED
    BY <1>2, <1>3, <2>1, <2>2, <2>3, <2>4 DEF SaveKnows
<1>6. Storable(save'.out) /\ Storable(file')
  BY <1>1, <1>2, <1>3
<1> QED
  BY <1>4, <1>5, <1>6 DEF CacheInv

LEMMA SaveEndsKeeps == ASSUME CacheInv, SaveEnds PROVE CacheInv'
<1>1. CacheType /\ SaveKnows /\ Storable(file)
  BY DEF CacheInv
<1>2. /\ save.at = "clear" /\ dirty' = FALSE /\ save' = NoSave
      /\ UNCHANGED <<items, order, pendingTotal, clock, file, stops, missed>>
  BY DEF SaveEnds
<1>3. CacheConsistent' /\ CacheType'
  <2>1. save' \in [at : {"idle", "count", "write", "rename", "clear"},
                   left : Seq(Keys), out : Seq(FileRecord)]
    BY <1>2 DEF NoSave
  <2> QED
    BY <1>1, <1>2, <2>1, SaveLeaves DEF CacheType
<1>4. SaveKnows'
  <2>1. Cached' = Cached /\ \A k \in Cached : Ready(k)' = Ready(k)
    BY <1>2, SaveLeaves
  <2>2. missed = {} => \A k \in Cached : Ready(k) => Holds(file, k)
    BY <1>1, <1>2 DEF SaveKnows
  <2>3. \A k \in Cached : Holds(file, k) => Holds(file, k)'
    BY <1>2 DEF Holds
  <2>4. save'.at = "idle"
    BY <1>2 DEF NoSave
  <2> QED
    BY <1>2, <2>1, <2>2, <2>3, <2>4 DEF SaveKnows
<1>5. Storable(save'.out) /\ Storable(file')
  BY <1>1, <1>2, NothingStored DEF NoSave
<1> QED
  BY <1>3, <1>4, <1>5 DEF CacheInv

LEMMA SaveFailsKeeps == ASSUME CacheInv, SaveFails PROVE CacheInv'
<1>1. CacheType /\ SaveKnows /\ Storable(file)
  BY DEF CacheInv
<1>2. /\ save.at # "idle" /\ save' = NoSave
      /\ UNCHANGED <<items, order, pendingTotal, dirty, clock, file, stops, missed>>
  BY DEF SaveFails
<1>3. CacheConsistent' /\ CacheType'
  <2>1. save' \in [at : {"idle", "count", "write", "rename", "clear"},
                   left : Seq(Keys), out : Seq(FileRecord)]
    BY <1>2 DEF NoSave
  <2> QED
    BY <1>1, <1>2, <2>1, SaveLeaves DEF CacheType
<1>4. SaveKnows'
  <2>1. dirty' /\ save'.at = "idle"
    BY <1>1, <1>2 DEF SaveKnows, NoSave
  <2> QED
    BY <2>1 DEF SaveKnows
<1>5. Storable(save'.out) /\ Storable(file')
  BY <1>1, <1>2, NothingStored DEF NoSave
<1> QED
  BY <1>3, <1>4, <1>5 DEF CacheInv

\* The records of a file that are loaded: each key is there once, and answered.
LEMMA LoadKeeps ==
    ASSUME CacheType, NEW e \in Seq(FileRecord), Storable(e), Load(e),
           pendingTotal' = 0
    PROVE  /\ order' \in Seq(Keys) /\ Cached' \in SUBSET Keys
           /\ items' \in [Cached' -> CacheRecord] /\ CacheConsistent'
           /\ \A k \in Cached' : \E i \in 1 .. Len(e) : e[i].key = k /\ e[i].rec = items'[k]
<1> DEFINE K == {e[i].key : i \in DOMAIN e}
           o == [i \in DOMAIN e |-> e[i].key]
<1>1. DOMAIN e = 1 .. Len(e) /\ Len(e) \in Nat /\ \A i \in 1 .. Len(e) : e[i] \in FileRecord
  OBVIOUS
<1>2. /\ order' = o /\ Cached' = K
      /\ items' = [k \in K |-> (CHOOSE x \in ToSet(e) : x.key = k).rec]
  BY DEF Load, Cached
<1>3. \A i \in 1 .. Len(e) : e[i].key \in Keys /\ e[i].rec \in CacheRecord /\ e[i].rec.status = "ready"
  BY <1>1 DEF FileRecord
<1>4. o \in Seq(Keys) /\ Len(o) = Len(e) /\ DOMAIN o = 1 .. Len(e)
  <2>1. o = [i \in 1 .. Len(e) |-> e[i].key]
    BY <1>1
  <2> QED
    BY <1>1, <1>3, <2>1
<1>5. IsInjective(o)
  <2>1. \A i, j \in 1 .. Len(e) : o[i] = o[j] => i = j
    BY <1>1 DEF Storable, NoneTwice
  <2> HIDE DEF o
  <2> QED
    BY <1>4, <2>1 DEF IsInjective
<1>6. ToSet(o) = K
  BY <1>1, <1>4 DEF ToSet
<1>7. ASSUME NEW k \in K
      PROVE  \E i \in 1 .. Len(e) : e[i].key = k /\ e[i].rec = items'[k]
  <2>1. \E x \in ToSet(e) : x.key = k
    BY <1>1 DEF ToSet
  <2> DEFINE c == CHOOSE x \in ToSet(e) : x.key = k
  <2>2. c \in ToSet(e) /\ c.key = k /\ items'[k] = c.rec
    BY <2>1, <1>2
  <2> HIDE DEF c
  <2>3. PICK i \in 1 .. Len(e) : c = e[i]
    BY <2>2, <1>1 DEF ToSet
  <2> QED
    BY <2>2, <2>3
<1> HIDE DEF o, K
<1>8. \A k \in K : items'[k] \in CacheRecord /\ items'[k].status = "ready"
  BY <1>3, <1>7
<1>9. K \in SUBSET Keys
  BY <1>1, <1>3 DEF K
<1>10. items' \in [Cached' -> CacheRecord]
  <2>1. items' = [k \in K |-> items'[k]]
    BY <1>2
  <2> QED
    BY <2>1, <1>2, <1>8
<1>11. {k \in Cached' : items'[k].status = "pending"} = {}
  BY <1>2, <1>8
<1>12. CacheConsistent'
  BY <1>2, <1>4, <1>5, <1>6, <1>11, FS_EmptySet DEF CacheConsistent, Storable
<1> QED
  BY <1>2, <1>4, <1>7, <1>9, <1>10, <1>12

\* A part of a file is records of it.
LEMMA PartOfFile ==
    ASSUME NEW e \in Seq(FileRecord), Storable(e), NEW a \in 1 .. Len(e) + 1, NEW b \in 0 .. Len(e),
           a <= b + 1
    PROVE  LET p == SubSeq(e, a, b)
           IN  /\ p \in Seq(FileRecord) /\ Storable(p) /\ Len(p) = b - a + 1
               /\ \A i \in 1 .. Len(p) : \E j \in 1 .. Len(e) : p[i] = e[j]
<1> DEFINE p == SubSeq(e, a, b)
<1>1. Len(e) \in Nat /\ a \in Nat /\ b \in Nat
  OBVIOUS
<1>2. \A i \in a .. b : e[i] \in FileRecord
  BY <1>1
<1>3. p = [i \in 1 .. b - a + 1 |-> e[i + a - 1]]
  BY <1>1
<1>4. \A i \in 1 .. b - a + 1 : i + a - 1 \in 1 .. Len(e)
  BY <1>1
<1>5. p \in Seq(FileRecord) /\ Len(p) = b - a + 1
  <2>1. \A i \in 1 .. b - a + 1 : e[i + a - 1] \in FileRecord
    BY <1>4, ElementOfSeq
  <2>2. b - a + 1 \in Nat
    BY <1>1
  <2> HIDE DEF p
  <2> QED
    BY <1>3, <2>1, <2>2
<1>6. \A i \in 1 .. b - a + 1 : p[i] = e[i + a - 1]
  BY <1>3
<1> HIDE DEF p
<1>7. Storable(p)
  <2>3. Len(p) <= ShardLimit
    BY <1>1, <1>5, DNSCacheAssumption DEF Storable
  <2> SUFFICES ASSUME NEW i \in 1 .. b - a + 1, NEW j \in 1 .. b - a + 1, p[i].key = p[j].key
               PROVE  i = j
    BY <1>5, <2>3 DEF Storable, NoneTwice
  <2>1. e[i + a - 1].key = e[j + a - 1].key
    BY <1>6
  <2>2. i + a - 1 = j + a - 1
    BY <1>4, <2>1 DEF Storable, NoneTwice
  <2> QED
    BY <1>1, <2>2
<1>8. \A i \in 1 .. Len(p) : \E j \in 1 .. Len(e) : p[i] = e[j]
  BY <1>4, <1>5, <1>6
<1> QED
  BY <1>5, <1>7, <1>8 DEF p

\* So is what has lasted of it.
LEMMA LastingOnes ==
    ASSUME CacheInv
    PROVE  /\ Lasting \in Seq(FileRecord) /\ Storable(Lasting)
           /\ \A i \in 1 .. Len(Lasting) : \E j \in 1 .. Len(file) : Lasting[i] = file[j]
<1> DEFINE I == {i \in 1 .. Len(file) : clock - file[i].rec.used < CacheTTL}
<1>1. file \in Seq(FileRecord) /\ Storable(file)
  BY DEF CacheInv, CacheType
<1>2. Lasting = PickedAt(file, I) /\ I \in SUBSET (1 .. Len(file))
  BY DEF Lasting
<1> HIDE DEF I
<1>3. /\ Lasting \in Seq(FileRecord)
      /\ \E f \in Bijection(1 .. Len(Lasting), I) : \A k \in 1 .. Len(Lasting) : Lasting[k] = file[f[k]]
  BY <1>1, <1>2, PickedProperties
<1>4. PICK f \in Bijection(1 .. Len(Lasting), I) : \A k \in 1 .. Len(Lasting) : Lasting[k] = file[f[k]]
  BY <1>3
<1>5. /\ \A k \in 1 .. Len(Lasting) : f[k] \in 1 .. Len(file)
      /\ \A k, m \in 1 .. Len(Lasting) : f[k] = f[m] => k = m
  BY <1>2, <1>4 DEF Bijection, Injection, IsInjective
<1>6. Storable(Lasting)
  <2>3. Len(Lasting) <= ShardLimit
    <3>1. Len(Lasting) = Cardinality(I) /\ Cardinality(I) \in Nat /\ Cardinality(I) <= Len(file)
      BY <1>1, <1>2, PickedProperties
    <3>2. Len(file) <= ShardLimit /\ Len(file) \in Nat /\ ShardLimit \in Nat
      BY <1>1, DNSCacheAssumption DEF Storable
    <3> QED
      BY <3>1, <3>2
  <2> SUFFICES ASSUME NEW k \in 1 .. Len(Lasting), NEW m \in 1 .. Len(Lasting),
                      Lasting[k].key = Lasting[m].key
               PROVE  k = m
    BY <2>3 DEF Storable, NoneTwice
  <2>1. file[f[k]].key = file[f[m]].key
    BY <1>4
  <2>2. f[k] = f[m]
    BY <1>1, <1>5, <2>1 DEF Storable, NoneTwice
  <2> QED
    BY <1>5, <2>2
<1> QED
  BY <1>3, <1>4, <1>5, <1>6

LEMMA RestartKeeps == ASSUME CacheInv, Restart PROVE CacheInv'
<1>1. CacheType /\ Storable(file) /\ file \in Seq(FileRecord) /\ DOMAIN file = 1 .. Len(file)
  BY DEF CacheInv, CacheType
<1>2. /\ pendingTotal' = 0 /\ dirty' = FALSE /\ save' = NoSave /\ clock' = clock
      /\ \/ Load(WithinLimit(Lasting)) /\ missed' = {} /\ UNCHANGED file
         \/ \E n \in 0 .. Len(Lasting) - 1 :
               /\ Load(SubSeq(Lasting, 1, n))
               /\ file' = <<>> /\ missed' = DOMAIN items'
  BY DEF Restart
<1>3. /\ Lasting \in Seq(FileRecord) /\ Storable(Lasting) /\ Len(Lasting) \in Nat
      /\ \A i \in 1 .. Len(Lasting) : \E j \in 1 .. Len(file) : Lasting[i] = file[j]
      /\ ShardLimit \in Nat \ {0}
  BY LastingOnes, DNSCacheAssumption
<1>4. /\ Storable(save'.out) /\ save'.at = "idle"
      /\ save' \in [at : {"idle", "count", "write", "rename", "clear"},
                    left : Seq(Keys), out : Seq(FileRecord)]
  BY <1>2, NothingStored DEF NoSave
<1>5. CASE Load(WithinLimit(Lasting)) /\ missed' = {} /\ UNCHANGED file
  <2> DEFINE e == WithinLimit(Lasting)
  <2>1. /\ e \in Seq(FileRecord) /\ Storable(e)
        /\ \A i \in 1 .. Len(e) : \E j \in 1 .. Len(Lasting) : e[i] = Lasting[j]
    <3>1. CASE Len(Lasting) > ShardLimit
      <4> DEFINE a == Len(Lasting) - ShardLimit + 1
                 z == Len(Lasting)
      <4>1. a \in 1 .. Len(Lasting) + 1 /\ z \in 0 .. Len(Lasting) /\ a <= z + 1
            /\ z - a + 1 = ShardLimit
        BY <1>3, <3>1
      <4>2. e = SubSeq(Lasting, a, z)
        BY <3>1 DEF WithinLimit
      <4> HIDE DEF a, z, e
      <4>3. LET p == SubSeq(Lasting, a, z)
            IN  /\ p \in Seq(FileRecord) /\ Storable(p) /\ Len(p) = z - a + 1
                /\ \A i \in 1 .. Len(p) : \E j \in 1 .. Len(Lasting) : p[i] = Lasting[j]
        BY <1>3, <4>1, PartOfFile
      <4> QED
        BY <1>3, <4>1, <4>2, <4>3
    <3>2. CASE ~(Len(Lasting) > ShardLimit)
      <4>1. e = Lasting
        BY <3>2 DEF WithinLimit
      <4> QED
        BY <4>1, <1>3, <3>2
    <3> QED
      BY <3>1, <3>2
  <2> HIDE DEF e
  <2>2. Load(e)
    BY <1>5 DEF e
  <2>3. /\ order' \in Seq(Keys) /\ Cached' \in SUBSET Keys
        /\ items' \in [Cached' -> CacheRecord] /\ CacheConsistent'
        /\ \A k \in Cached' : \E i \in 1 .. Len(e) : e[i].key = k /\ e[i].rec = items'[k]
    BY <1>1, <1>2, <2>1, <2>2, LoadKeeps
  <2>4. ASSUME NEW k \in Cached' PROVE Holds(file, k)'
    <3>1. PICK i \in 1 .. Len(e) : e[i].key = k /\ e[i].rec = items'[k]
      BY <2>3, <2>4
    <3>2. PICK j \in 1 .. Len(Lasting) : e[i] = Lasting[j]
      BY <2>1
    <3>3. PICK n \in 1 .. Len(file) : Lasting[j] = file[n]
      BY <1>3
    <3>4. n \in DOMAIN file /\ file[n].key = k /\ file[n].rec.answer = items'[k].answer
      BY <1>1, <3>1, <3>2, <3>3
    <3> QED
      BY <3>4, <1>5 DEF Holds
  <2>5. SaveKnows'
    BY <1>4, <2>4 DEF SaveKnows
  <2>6. CacheType'
    BY <1>1, <1>2, <1>4, <1>5, <2>3 DEF CacheType
  <2>7. Storable(file')
    BY <1>1, <1>5
  <2> QED
    BY <1>4, <2>3, <2>5, <2>6, <2>7 DEF CacheInv
<1>6. ASSUME NEW n \in 0 .. Len(Lasting) - 1, Load(SubSeq(Lasting, 1, n)),
             file' = <<>>, missed' = DOMAIN items'
      PROVE  CacheInv'
  <2> DEFINE e == SubSeq(Lasting, 1, n)
  <2>1. e \in Seq(FileRecord) /\ Storable(e)
    <3>1. 1 \in 1 .. Len(Lasting) + 1 /\ n \in 0 .. Len(Lasting) /\ 1 <= n + 1
      BY <1>3
    <3>2. LET p == SubSeq(Lasting, 1, n)
          IN  /\ p \in Seq(FileRecord) /\ Storable(p) /\ Len(p) = n - 1 + 1
              /\ \A i \in 1 .. Len(p) : \E j \in 1 .. Len(Lasting) : p[i] = Lasting[j]
      BY <1>3, <3>1, PartOfFile
    <3> QED
      BY <3>2
  <2> HIDE DEF e
  <2>2. Load(e)
    BY <1>6 DEF e
  <2>3. /\ order' \in Seq(Keys) /\ Cached' \in SUBSET Keys
        /\ items' \in [Cached' -> CacheRecord] /\ CacheConsistent'
    BY <1>1, <1>2, <2>1, <2>2, LoadKeeps
  <2>4. missed' = Cached'
    BY <1>6 DEF Cached
  <2>5. SaveKnows'
    BY <1>4, <2>4 DEF SaveKnows
  <2>6. file' \in Seq(FileRecord)
    BY <1>6
  <2>7. CacheType'
    BY <1>1, <1>2, <1>4, <2>3, <2>4, <2>6 DEF CacheType
  <2> QED
    BY <1>4, <1>6, <2>3, <2>5, <2>7, NothingStored DEF CacheInv
<1> QED
  BY <1>2, <1>5, <1>6

LEMMA CacheInvInit == CacheInit => CacheInv
<1> SUFFICES ASSUME CacheInit PROVE CacheInv
  OBVIOUS
<1> USE DEF CacheInit
<1>1. Cached = {} /\ items \in [{} -> CacheRecord]
  BY DEF Cached, NoRecords
<1>2. CacheType
  <2>1. save \in [at : {"idle", "count", "write", "rename", "clear"},
                  left : Seq(Keys), out : Seq(FileRecord)]
    BY DEF NoSave
  <2>2. order \in Seq(Keys) /\ file \in Seq(FileRecord)
    OBVIOUS
  <2> HIDE DEF CacheInit
  <2> QED
    BY <1>1, <2>1, <2>2 DEF CacheType, CacheInit
<1>3. CacheConsistent
  <2>1. {k \in Cached : items[k].status = "pending"} = {}
    BY <1>1
  <2>2. IsInjective(<<>>) /\ ToSet(<<>>) = {} /\ Len(<<>>) = 0
    BY DEF IsInjective, ToSet
  <2> QED
    BY <1>1, <2>1, <2>2, FS_EmptySet, DNSCacheAssumption DEF CacheConsistent
<1>4. SaveKnows
  BY <1>1 DEF SaveKnows, NoSave
<1>5. Storable(file) /\ Storable(save.out)
  BY NothingStored DEF NoSave
<1> QED
  BY <1>2, <1>3, <1>4, <1>5 DEF CacheInv

LEMMA CacheInvStep == CacheInv /\ [CacheNext]_cacheVars => CacheInv'
<1> SUFFICES ASSUME CacheInv, [CacheNext]_cacheVars PROVE CacheInv'
  OBVIOUS
<1>1. CASE UNCHANGED cacheVars
  BY <1>1 DEF cacheVars, CacheInv, CacheType, CacheConsistent, SaveKnows, Storable, NoneTwice,
         Cached, Ready, Expired, Holds
<1>2. CASE CacheNext
  BY <1>2, LookupKeeps, GetReadyKeeps, SetReadyKeeps, ClearPendingKeeps, CacheTickKeeps,
     SaveStartsKeeps, SaveCountsKeeps, SaveWritesKeeps, SaveRenamesKeeps, SaveEndsKeeps,
     SaveFailsKeeps, RestartKeeps DEF CacheNext
<1> QED
  BY <1>1, <1>2

LEMMA CacheInvSound == CacheInv => CacheSound
<1> SUFFICES ASSUME CacheInv PROVE FileComplete
  BY DEF CacheInv, CacheSound
<1>1. IsInjective([i \in DOMAIN file |-> file[i].key])
  BY DEF CacheInv, CacheType, Storable, NoneTwice, IsInjective
<1> QED
  BY <1>1 DEF CacheInv, SaveKnows, FileComplete

\* The records of the cache are those of its order, within its limit, and the count
\* of those that wait is right; and wherever the program stopped, the file holds no key
\* twice and, when nothing is left to save, every answer that did not change meanwhile.
THEOREM CacheIsSound == CacheInit /\ [][CacheNext]_cacheVars => []CacheSound
<1>1. CacheInit /\ [][CacheNext]_cacheVars => []CacheInv
  BY CacheInvInit, CacheInvStep, PTL
<1> QED
  BY <1>1, CacheInvSound, PTL

-----------------------------------------------------------------------------
(* The types of all variables, of which the invariants needed a part.       *)

\* The table of the sessions: its times, and the ids it gives out next.
StoreTimes ==
    /\ lastActivity \in [Sessions -> Nat] /\ recentClosed \in [SessionIDs -> Nat]
    /\ nextID \in [BOOLEAN -> SessionIDs] /\ nextReuseSweep \in Nat

\* The next sweep is due at a moment of the clock.
LEMMA SweptAtIn == ASSUME StoreInv, StoreTimes PROVE SweptAt \in Nat
<1>1. SweptSig \in [Signatures -> SessionIDs \cup {0}] /\ \A s \in Signatures : SweptSig[s] # 0 => SweptSig[s] = bySig[s]
  BY SweptSound
<1>2. Deadlines(SweptSig) \in SUBSET Nat
  <2> SUFFICES ASSUME NEW s \in Signatures, SweptSig[s] # 0
               PROVE  reuseUntil[byID[SweptSig[s]]] \in Nat
    BY DEF Deadlines
  <2>1. SweptSig[s] \in SessionIDs /\ byID[SweptSig[s]] # NoSession
    BY <1>1 DEF StoreInv, SessionTable, SignatureNamesItsSession
  <2>2. byID[SweptSig[s]] \in Sessions
    BY <2>1, SlotFacts
  <2> QED
    BY <2>2 DEF StoreInv, StoreType
<1>3. ASSUME NEW S \in SUBSET Nat PROVE Earliest(S) \in Nat
  <2>1. CASE S = {}
    BY <2>1 DEF Earliest
  <2>2. CASE S # {}
    <3>1. \E t \in S : \A u \in S : t <= u
      BY <2>2, LeastOf
    <3>2. (CHOOSE t \in S : \A u \in S : t <= u) \in S
      BY <3>1
    <3> QED
      BY <2>2, <3>2, Zenon DEF Earliest
  <2> QED
    BY <2>1, <2>2
<1> QED
  BY <1>2, <1>3 DEF SweptAt, StoreTimes

LEMMA StoreTimesInit == SessionInit => StoreTimes
<1> SUFFICES ASSUME SessionInit PROVE StoreTimes
  OBVIOUS
<1>1. 1 \in SessionIDs /\ LegacyHigh + 1 \in SessionIDs
  BY SessionStoreAssumption DEF SessionIDs
<1>2. nextID \in [BOOLEAN -> SessionIDs]
  BY <1>1 DEF SessionInit
<1> QED
  BY <1>2 DEF SessionInit, StoreTimes

LEMMA StoreTimesStep ==
    ASSUME StoreInv, StoreTimes, [SessionNext]_sessionVars PROVE StoreTimes'
<1>0. now \in Nat /\ ReuseTTL \in Nat /\ Retention \in Nat /\ SweptAt \in Nat
  BY SweptAtIn, SessionStoreAssumption DEF StoreInv, StoreType
<1>1. ASSUME NEW s \in Signatures, NEW legacy \in BOOLEAN, FindExisting(s, legacy) PROVE StoreTimes'
  BY <1>0, <1>1 DEF FindExisting, StoreTimes
<1>2. ASSUME NEW s \in Signatures, NEW legacy \in BOOLEAN, TableFull(s, legacy) PROVE StoreTimes'
  BY <1>0, <1>2 DEF TableFull, StoreTimes
<1>3. ASSUME NEW s \in Signatures, NEW legacy \in BOOLEAN, CreateSession(s, legacy) PROVE StoreTimes'
  <2>1. /\ lastActivity' = [lastActivity EXCEPT ![made + 1] = now]
        /\ nextID' = [nextID EXCEPT ![legacy] = NextSessionID(AllocateSlot(legacy), legacy)]
        /\ nextReuseSweep' = IF SweptAt = 0 THEN now + ReuseTTL ELSE SweptAt
        /\ recentClosed' = [recentClosed EXCEPT ![AllocateSlot(legacy)] = 0]
    BY <1>3 DEF CreateSession
  <2>2. NextSessionID(AllocateSlot(legacy), legacy) \in SessionIDs
    <3>1. 1 \in SessionIDs /\ LegacyHigh + 1 \in SessionIDs
      BY SessionStoreAssumption DEF SessionIDs
    <3> QED
      BY <3>1, Halves DEF NextSessionID
  <2>3. nextID' \in [BOOLEAN -> SessionIDs]
    BY <2>1, <2>2 DEF StoreTimes
  <2>4. lastActivity' \in [Sessions -> Nat]
    BY <1>0, <2>1 DEF StoreTimes
  <2>5. recentClosed' \in [SessionIDs -> Nat]
    BY <2>1 DEF StoreTimes
  <2>6. nextReuseSweep' \in Nat
    BY <1>0, <2>1
  <2> QED
    BY <2>3, <2>4, <2>5, <2>6 DEF StoreTimes
<1>4. ASSUME NEW i \in SessionIDs, ValidateAndTouch(i) PROVE StoreTimes'
  BY <1>0, <1>4 DEF ValidateAndTouch, StoreTimes
<1>5. ASSUME NEW i \in SessionIDs, LookupNotice(i) PROVE StoreTimes'
  BY <1>5 DEF LookupNotice, StoreTimes
<1>6. CASE Close
  BY <1>0, <1>6 DEF Close, StoreTimes
<1>7. CASE Cleanup
  BY <1>0, <1>7 DEF Cleanup, StoreTimes
<1>8. CASE Tick
  BY <1>8 DEF Tick, StoreTimes
<1>9. CASE UNCHANGED sessionVars
  BY <1>9 DEF sessionVars, StoreTimes
<1> QED
  BY <1>1, <1>2, <1>3, <1>4, <1>5, <1>6, <1>7, <1>8, <1>9 DEF SessionNext, FindOrCreate

-----------------------------------------------------------------------------
\* The channel of the buffers that were read.
RxBounded == received <= QueueRoom

LEMMA RxBoundedInit == PipeInit => RxBounded
BY SendPipelineAssumption DEF PipeInit, RxBounded

LEMMA RxBoundedStep == ASSUME PipeInv, RxBounded, [PipeNext]_pipeVars PROVE RxBounded'
<1>0. received \in Nat /\ QueueRoom \in Nat
  BY SendPipelineAssumption DEF PipeInv, PipeType
<1>1. ASSUME NEW r \in ReadWorkers, Datagram(r) PROVE RxBounded'
  BY <1>0, <1>1 DEF Datagram, RxBounded
<1>2. ASSUME NEW p \in ProcessWorkers, TakeDatagram(p) PROVE RxBounded'
  BY <1>0, <1>2 DEF TakeDatagram, RxBounded
<1>3. CASE DrainQueues
  BY <1>0, <1>3 DEF DrainQueues, RxBounded
<1>4. CASE UNCHANGED received
  BY <1>4 DEF RxBounded
<1>5. CASE UNCHANGED pipeVars
  BY <1>4, <1>5 DEF pipeVars
<1> QED
  BY <1>1, <1>2, <1>3, <1>4, <1>5
     DEF PipeNext, PopTask, HandOver, TakeTask, NoFrames, EncodeTask, TakeFrames, WriteFrames,
         StartRead, Handled, WorkerExits, CancelRuntime, RestartRuntime

-----------------------------------------------------------------------------
\* The server's end of a UDP association: its datagrams and its times.
AssociationTimes ==
    /\ Len(bodies) <= 2 /\ udpWriter.conn \in 0 .. dials /\ udpWriter.now \in 0 .. hour
    /\ lastUsed \in [Endpoints -> 0 .. LastHour] /\ replies \in 0 .. ReplyRoom
    /\ ending \in {"open", "signalled", "closed"} /\ hour \in 0 .. LastHour

LEMMA AssociationTimesInit == UDPInit => AssociationTimes
<1> SUFFICES ASSUME UDPInit PROVE AssociationTimes
  OBVIOUS
<1>1. LastHour \in Nat /\ ReplyRoom \in Nat
  BY UDPAssociationAssumption
<1>2. Len(bodies) = 0
  BY DEF UDPInit
<1> QED
  BY <1>1, <1>2 DEF UDPInit, AssociationTimes, WriterIdle, Writing

LEMMA AssociationTimesStep ==
    ASSUME AssociationInv, AssociationTimes, [UDPNext]_udpVars PROVE AssociationTimes'
<1>0. /\ LastHour \in Nat /\ ReplyRoom \in Nat /\ MaxEndpoints \in Nat /\ dials \in 0 .. MaxEndpoints
      /\ udpWriter \in Writers /\ bodies \in Seq(Names) /\ (udpWriter.step # "idle" => bodies # <<>>)
      /\ \A d \in Addresses : endpoints[d] \in 0 .. dials
  BY UDPAssociationAssumption DEF AssociationInv, AssociationType
<1>t. /\ Len(bodies) <= 2 /\ udpWriter.conn \in 0 .. dials /\ udpWriter.now \in 0 .. hour
      /\ lastUsed \in [Endpoints -> 0 .. LastHour] /\ replies \in 0 .. ReplyRoom
      /\ ending \in {"open", "signalled", "closed"} /\ hour \in 0 .. LastHour
  BY DEF AssociationTimes
<1>next. ASSUME NextBody, udpWriter.step # "idle", dials' = dials, hour' = hour
         PROVE  Len(bodies') <= 2 /\ udpWriter'.conn \in (0 .. dials)' /\ udpWriter'.now \in (0 .. hour)'
  <2>1. Len(Tail(bodies)) = Len(bodies) - 1 /\ Len(bodies) \in Nat
    BY <1>0, <1>next
  <2> QED
    BY <1>0, <1>t, <1>next, <2>1 DEF NextBody, WriterIdle, Writing
<1>on. ASSUME NEW e, e \in 0 .. dials, SendsOn(e), dials' = dials, hour' = hour
       PROVE  /\ udpWriter'.conn \in (0 .. dials)' /\ udpWriter'.now \in (0 .. hour)'
              /\ lastUsed' \in [Endpoints -> 0 .. LastHour]
  <2>1. udpWriter.now \in 0 .. LastHour
    BY <1>0, <1>t
  <2>2. udpWriter' = [step |-> "sends", to |-> {}, conn |-> e, now |-> 0]
        /\ lastUsed' = [lastUsed EXCEPT ![e] = udpWriter.now]
    BY <1>on DEF SendsOn, Writing
  <2>3. udpWriter'.conn \in (0 .. dials)' /\ udpWriter'.now \in (0 .. hour)'
    BY <1>0, <1>t, <1>on, <2>2
  <2>4. lastUsed' \in [Endpoints -> 0 .. LastHour]
    BY <1>t, <2>1, <2>2
  <2> QED
    BY <2>3, <2>4
<1>1. CASE HourPasses
  BY <1>0, <1>t, <1>1 DEF HourPasses, AssociationTimes
<1>2. CASE WriteBodies
  <2>1. Len(bodies') <= 2
    <3>1. PICK ns \in [1 .. 1 -> Names] \cup [1 .. 2 -> Names] : bodies' = ns
      BY <1>2 DEF WriteBodies
    <3>2. CASE ns \in [1 .. 1 -> Names]
      BY <3>1, <3>2
    <3>3. CASE ns \in [1 .. 2 -> Names]
      <4>1. Len(ns) = 2
        BY <3>3
      <4> QED
        BY <3>1, <4>1
    <3> QED
      BY <3>1, <3>2, <3>3
  <2> QED
    BY <1>0, <1>t, <1>2, <2>1 DEF WriteBodies, AssociationTimes, Writing
<1>3. CASE FindAlias
  <2>1. ASSUME NEW e, e \in 0 .. dials, SendsOn(e) PROVE AssociationTimes'
    BY <1>t, <1>3, <1>on, <2>1 DEF FindAlias, AssociationTimes
  <2>2. CASE udpWriter' = [udpWriter EXCEPT !.step = "resolves"] /\ UNCHANGED lastUsed
    BY <1>0, <1>t, <1>3, <2>2 DEF FindAlias, AssociationTimes, Writers
  <2>3. aliases[Head(bodies)] \in SUBSET Addresses
    <3>1. Head(bodies) \in Names
      BY <1>0, <1>3 DEF FindAlias
    <3> QED
      BY <3>1 DEF AssociationInv, AssociationType
  <2> QED
    BY <1>0, <1>3, <2>1, <2>2, <2>3 DEF FindAlias
<1>4. CASE ResolveName
  <2>1. CASE NextBody
    BY <1>t, <1>4, <1>next, <2>1 DEF ResolveName, AssociationTimes
  <2>2. ASSUME NEW d \in Addresses, udpWriter' = [udpWriter EXCEPT !.step = "finds", !.to = {d}],
               UNCHANGED bodies
        PROVE  AssociationTimes'
    BY <1>0, <1>t, <1>4, <2>2 DEF ResolveName, AssociationTimes, Writers
  <2> QED
    BY <1>4, <2>1, <2>2 DEF ResolveName
<1>5. CASE FindEndpoint
  <2>0. UNCHANGED <<bodies, dials, readers, replies, ending, hour>> /\ udpWriter.to \in SUBSET Addresses
    BY <1>0, <1>5 DEF FindEndpoint, Writers
  <2>1. ASSUME NEW d \in Addresses, SendsOn(endpoints[d]) PROVE AssociationTimes'
    <3>1. endpoints[d] \in 0 .. dials
      BY <1>0
    <3> QED
      BY <1>t, <1>on, <2>0, <2>1, <3>1 DEF AssociationTimes
  <2>2. CASE udpWriter' = [udpWriter EXCEPT !.step = "dials"] /\ UNCHANGED lastUsed
    BY <1>0, <1>t, <2>0, <2>2 DEF AssociationTimes, Writers
  <2> QED
    BY <1>5, <2>0, <2>1, <2>2 DEF FindEndpoint
<1>6. CASE DialEndpoint
  <2>1. CASE NextBody /\ UNCHANGED <<dials, udpSockets>>
    BY <1>t, <1>6, <1>next, <2>1 DEF DialEndpoint, AssociationTimes
  <2>2. CASE /\ dials < MaxEndpoints /\ dials' = dials + 1
             /\ udpWriter' = [udpWriter EXCEPT !.step = "dialed", !.conn = dials + 1]
             /\ UNCHANGED bodies
    BY <1>0, <1>t, <1>6, <2>2 DEF DialEndpoint, AssociationTimes, Writers
  <2> QED
    BY <1>6, <2>1, <2>2 DEF DialEndpoint
<1>7. CASE RegisterEndpoint
  BY <1>t, <1>7, <1>on DEF RegisterEndpoint, AssociationTimes
<1>8. CASE SendDatagram
  <2>1. CASE lastUsed' = [lastUsed EXCEPT ![udpWriter.conn] = hour] /\ NextBody
    BY <1>t, <1>8, <1>next, <2>1 DEF SendDatagram, AssociationTimes
  <2>2. CASE udpWriter' = [udpWriter EXCEPT !.step = "removes"] /\ UNCHANGED <<bodies, lastUsed>>
    BY <1>0, <1>t, <1>8, <2>2 DEF SendDatagram, AssociationTimes, Writers
  <2> QED
    BY <1>8, <2>1, <2>2 DEF SendDatagram
<1>9. CASE WriterRemoves
  BY <1>0, <1>t, <1>9 DEF WriterRemoves, AssociationTimes, Writers
<1>10. CASE WriterCloses
  BY <1>t, <1>10, <1>next DEF WriterCloses, AssociationTimes
<1>11. ASSUME NEW e \in Endpoints, Reply(e) \/ ReadFails(e) \/ ReaderRemoves(e) \/ ReaderCloses(e)
       PROVE  AssociationTimes'
  BY <1>0, <1>t, <1>11 DEF Reply, ReadFails, ReaderRemoves, ReaderCloses, AssociationTimes
<1>12. CASE TakeReply \/ SignalClose \/ CloseEndpoints
  BY <1>0, <1>t, <1>12 DEF TakeReply, SignalClose, CloseEndpoints, AssociationTimes
<1>13. CASE UNCHANGED udpVars
  BY <1>13 DEF udpVars, AssociationTimes
<1> QED
  BY <1>1, <1>2, <1>3, <1>4, <1>5, <1>6, <1>7, <1>8, <1>9, <1>10, <1>11, <1>12, <1>13 DEF UDPNext
-----------------------------------------------------------------------------
\* The samples: their times are moments of the clock, and of one time there are no
\* more timeouts than queries that were blamed.
BlamedOnes == {q \in Sends : blamed[q] > 0}
SampleTimes ==
    /\ moment \in Moments /\ sentAt \in [Sends -> Moments]
    /\ \A q \in observed : TimedOutAt(q) \in Moments
    /\ health \in [Moments -> Nat]
    /\ \A t \in Moments : health[t] <= Cardinality(BlamedOnes)

LEMMA SampleTimesInit == SamplesInit => SampleTimes
<1> SUFFICES ASSUME SamplesInit PROVE SampleTimes
  OBVIOUS
<1>1. 0 \in Moments
  BY QuerySamplesAssumption DEF Moments
<1>2. BlamedOnes = {}
  BY DEF SamplesInit, BlamedOnes
<1>3. Cardinality(BlamedOnes) = 0
  BY <1>2, FS_EmptySet
<1> QED
  BY <1>1, <1>3 DEF SamplesInit, SampleTimes

\* The queries are finitely many.
LEMMA BlamedAre ==
    ASSUME NEW T \in SUBSET Sends
    PROVE  IsFiniteSet(T) /\ Cardinality(T) \in Nat /\ Cardinality(T) <= LastQuery
<1>1. LastQuery \in Nat /\ 1 \in Int /\ LastQuery \in Int
  BY TimesAre
<1>2. IsFiniteSet(1 .. LastQuery) /\ Cardinality(1 .. LastQuery) = LastQuery
  <2>1. 1 .. LastQuery = {} => LastQuery = 0
    BY <1>1
  <2> QED
    BY <1>1, FS_Interval
<1>3. Sends = 1 .. LastQuery
  BY DEF Sends
<1> QED
  BY <1>2, <1>3, FS_Subset, FS_CardinalityType

\* What is no longer in the window is forgotten.
LEMMA InWindowLess ==
    ASSUME NEW f \in [Moments -> Nat]
    PROVE  InWindow(f) \in [Moments -> Nat] /\ \A t \in Moments : InWindow(f)[t] <= f[t]
BY DEF InWindow

\* One more is blamed, for one more timeout.
LEMMA AgainstKeeps ==
    ASSUME SampleType, SampleTimes, NEW q \in Sends, blamed[q] = 0, NEW t \in Moments, Against(q, t)
    PROVE  /\ health' \in [Moments -> Nat]
           /\ \A m \in Moments : health'[m] <= Cardinality(BlamedOnes')
<1> DEFINE more == [health EXCEPT ![t] = @ + 1]
<1>0. /\ health \in [Moments -> Nat] /\ \A m \in Moments : health[m] <= Cardinality(BlamedOnes)
      /\ blamed \in [Sends -> Nat]
      /\ blamed' = [blamed EXCEPT ![q] = @ + 1] /\ health' = InWindow(more)
  BY DEF SampleType, SampleTimes, Against
<1>1. more \in [Moments -> Nat] /\ \A m \in Moments : more[m] <= health[m] + 1
  BY <1>0
<1>2. BlamedOnes' = BlamedOnes \cup {q} /\ q \notin BlamedOnes /\ BlamedOnes \in SUBSET Sends
  BY <1>0 DEF BlamedOnes
<1>3. Cardinality(BlamedOnes') = Cardinality(BlamedOnes) + 1 /\ Cardinality(BlamedOnes) \in Nat
  BY <1>2, BlamedAre, FS_AddElement
<1> HIDE DEF more
<1>4. InWindow(more) \in [Moments -> Nat] /\ \A m \in Moments : InWindow(more)[m] <= more[m]
  BY <1>1, InWindowLess
<1>5. ASSUME NEW m \in Moments PROVE health'[m] <= Cardinality(BlamedOnes')
  <2>1. health'[m] \in Nat /\ more[m] \in Nat /\ health[m] \in Nat
    BY <1>0, <1>1, <1>4
  <2>2. health'[m] <= more[m] /\ more[m] <= health[m] + 1 /\ health[m] <= Cardinality(BlamedOnes)
    BY <1>0, <1>1, <1>4
  <2> QED
    BY <1>3, <2>1, <2>2
<1> QED
  BY <1>0, <1>4, <1>5

LEMMA SampleTimesStep ==
    ASSUME SamplesInv, SampleTimes, [SamplesNext]_sampleVars PROVE SampleTimes'
<1>inv. SampleType /\ OwnID /\ NotYet /\ Blames
  BY DEF SamplesInv
<1>time. /\ timing' = timing /\ timing \in Timings
         /\ RequestTimeout' = RequestTimeout /\ RequestTimeout \in Nat
  <2>1. timing' = timing /\ timing \in Timings
    BY <1>inv DEF SamplesNext, sampleVars, SampleType
  <2> QED
    BY <2>1, LimitsAre DEF RequestTimeout
<1>t. /\ moment \in Moments /\ sentAt \in [Sends -> Moments] /\ observed \in SUBSET Sends
      /\ \A q \in observed : TimedOutAt(q) \in Moments
      /\ health \in [Moments -> Nat] /\ \A m \in Moments : health[m] <= Cardinality(BlamedOnes)
      /\ blamed \in [Sends -> Nat] /\ LastMoment \in Nat
  BY <1>inv, QuerySamplesAssumption DEF SampleTimes, SampleType
<1>found. ASSUME NEW m \in Moments, NEW q \in LateBy(m) PROVE TimedOutAt(q) \in Moments
  <2>1. q \in Sends /\ TimedOutAt(q) <= m
    BY <1>inv, <1>found, SampledAre DEF LateBy
  <2>2. sentAt[q] \in Nat /\ RequestTimeout \in Nat
    BY <1>t, <1>time, <2>1 DEF Moments
  <2> QED
    BY <1>t, <2>1, <2>2 DEF TimedOutAt, Moments
<1>same. ASSUME UNCHANGED <<health, blamed>>
         PROVE  /\ health' \in [Moments -> Nat]
                /\ \A m \in Moments : health'[m] <= Cardinality(BlamedOnes')
  BY <1>t, <1>same DEF BlamedOnes
<1>1. ASSUME NEW q \in Sends, Write(q) PROVE SampleTimes'
  <2>1. sentAt' = [sentAt EXCEPT ![q] = moment] /\ UNCHANGED <<moment, observed, health, blamed>>
        /\ sending[q] = "new"
    BY <1>1 DEF Write
  <2>2. q \notin observed
    BY <1>inv, <2>1 DEF NotYet
  <2>3. \A p \in observed : TimedOutAt(p)' = TimedOutAt(p)
    BY <1>t, <1>time, <2>1, <2>2 DEF TimedOutAt
  <2>4. sentAt' \in [Sends -> Moments]
    BY <1>t, <2>1
  <2> QED
    BY <1>t, <1>same, <2>1, <2>3, <2>4 DEF SampleTimes, Moments
<1>still. ASSUME UNCHANGED <<moment, sentAt>>,
                 \A q \in observed' : TimedOutAt(q) \in Moments,
                 health' \in [Moments -> Nat],
                 \A m \in Moments : health'[m] <= Cardinality(BlamedOnes')
          PROVE  SampleTimes'
  BY <1>t, <1>time, <1>still DEF SampleTimes, TimedOutAt, Moments
<1>2. ASSUME NEW q \in Sends, Track(q) PROVE SampleTimes'
  <2>1. UNCHANGED <<moment, sentAt, health, blamed>> /\ sentAt[q] \in Moments
    BY <1>t, <1>2 DEF Track
  <2>2. observed' = observed \/ observed' = observed \cup LateBy(sentAt[q])
    BY <1>2 DEF Track, Prunes
  <2>3. \A p \in observed' : TimedOutAt(p) \in Moments
    BY <1>t, <1>found, <2>1, <2>2
  <2> QED
    BY <1>same, <1>still, <2>1, <2>3
<1>3. ASSUME NEW q \in Sends, NoteTimeouts(q) PROVE SampleTimes'
  <2>1. /\ q \in observed /\ observed' = observed \ {q} /\ Against(q, TimedOutAt(q))
        /\ UNCHANGED <<moment, sentAt>>
    BY <1>3 DEF NoteTimeouts
  <2>2. blamed[q] = 0 /\ TimedOutAt(q) \in Moments
    BY <1>inv, <1>t, <2>1 DEF Blames
  <2>3. health' \in [Moments -> Nat] /\ \A m \in Moments : health'[m] <= Cardinality(BlamedOnes')
    BY <1>inv, <2>1, <2>2, AgainstKeeps
  <2> QED
    BY <1>t, <1>still, <2>1, <2>3
<1>4. ASSUME NEW q \in Sends, AnswerOf(q) PROVE SampleTimes'
  <2>1. UNCHANGED <<moment, sentAt, observed, health, blamed>>
    BY <1>4 DEF AnswerOf
  <2> QED
    BY <1>t, <1>same, <1>still, <2>1
<1>5. ASSUME NEW q \in Sends, Retract(q) PROVE SampleTimes'
  <2> DEFINE x == TimedOutAt(q)
             less == [health EXCEPT ![x] = @ - 1]
  <2>1. /\ UNCHANGED <<moment, sentAt, observed, blamed>>
        /\ health' = IF health[x] > 0 THEN InWindow(less) ELSE health
    BY <1>5 DEF Retract
  <2> HIDE DEF x
  <2>2. BlamedOnes' = BlamedOnes
    BY <2>1 DEF BlamedOnes
  <2>3. CASE health[x] > 0
    <3>1. less \in [Moments -> Nat] /\ \A m \in Moments : less[m] <= health[m]
      <4>1. CASE x \in Moments
        BY <1>t, <2>3, <4>1
      <4>2. CASE x \notin Moments
        <5>1. less = health
          BY <1>t, <4>2
        <5> HIDE DEF less
        <5> QED
          BY <1>t, <5>1
      <4> QED
        BY <4>1, <4>2
    <3> HIDE DEF less
    <3>2. health' \in [Moments -> Nat] /\ \A m \in Moments : health'[m] <= less[m]
      BY <2>1, <2>3, <3>1, InWindowLess
    <3>3. Cardinality(BlamedOnes) \in Nat
      <4>1. BlamedOnes \in SUBSET Sends
        BY DEF BlamedOnes
      <4> QED
        BY <4>1, BlamedAre
    <3>4. ASSUME NEW m \in Moments PROVE health'[m] <= Cardinality(BlamedOnes)
      <4>1. health'[m] \in Nat /\ less[m] \in Nat /\ health[m] \in Nat
        BY <1>t, <3>1, <3>2
      <4>2. health'[m] <= less[m] /\ less[m] <= health[m] /\ health[m] <= Cardinality(BlamedOnes)
        BY <1>t, <3>1, <3>2
      <4> QED
        BY <3>3, <4>1, <4>2
    <3> QED
      BY <1>t, <1>still, <2>1, <2>2, <3>2, <3>4
  <2>4. CASE ~(health[x] > 0)
    BY <1>t, <1>same, <1>still, <2>1, <2>4
  <2> QED
    BY <2>3, <2>4
<1>6. ASSUME NEW q \in Sends, Credit(q) PROVE SampleTimes'
  <2>1. health' = [m \in Moments |-> 0] /\ UNCHANGED <<moment, sentAt, observed, blamed>>
    BY <1>6 DEF Credit
  <2>2. BlamedOnes' = BlamedOnes /\ BlamedOnes \in SUBSET Sends
    BY <2>1 DEF BlamedOnes
  <2>3. Cardinality(BlamedOnes) \in Nat
    BY <2>2, BlamedAre
  <2>4. health' \in [Moments -> Nat] /\ \A m \in Moments : health'[m] <= Cardinality(BlamedOnes')
    BY <2>1, <2>2, <2>3
  <2> QED
    BY <1>t, <1>still, <2>1, <2>4
<1>7. ASSUME NEW q \in Sends, NEW forged \in BOOLEAN, ErrorFor(q, forged) PROVE SampleTimes'
  <2> DEFINE p == samples[idOf[q]]
  <2>1. /\ p # 0 /\ UNCHANGED <<moment, sentAt, observed>>
        /\ IF p \in overdue THEN UNCHANGED <<health, blamed>> ELSE Against(p, moment)
    BY <1>7 DEF ErrorFor
  <2>2. p \in Sampled(samples) /\ p \in Sends
    <3>1. idOf[q] \in DNSIDs
      BY <1>inv DEF SampleType
    <3>2. p \in Sampled(samples)
      BY <2>1, <3>1 DEF Sampled
    <3> HIDE DEF p
    <3> QED
      BY <1>inv, <3>2, SampledAre
  <2> HIDE DEF p
  <2>3. CASE p \in overdue
    BY <1>t, <1>same, <1>still, <2>1, <2>3
  <2>4. CASE p \notin overdue
    <3>1. blamed[p] = 0
      BY <1>inv, <2>2, <2>4 DEF Blames
    <3>2. health' \in [Moments -> Nat] /\ \A m \in Moments : health'[m] <= Cardinality(BlamedOnes')
      <4>1. Against(p, moment)
        BY <2>1, <2>4
      <4> QED
        BY <1>inv, <1>t, <2>2, <3>1, <4>1, AgainstKeeps
    <3> QED
      BY <1>t, <1>still, <2>1, <3>2
  <2> QED
    BY <2>3, <2>4
<1>8. CASE Expire
  <2>1. UNCHANGED <<moment, sentAt, health, blamed>> /\ observed' = observed \cup LateBy(moment)
    BY <1>8 DEF Expire, Prunes
  <2>2. \A p \in observed' : TimedOutAt(p) \in Moments
    BY <1>t, <1>found, <2>1
  <2> QED
    BY <1>same, <1>still, <2>1, <2>2
<1>9. CASE Pass
  <2>1. moment' \in Moments /\ UNCHANGED <<sentAt, observed, health, blamed>>
    BY <1>t, <1>9 DEF Pass, Moments
  <2> QED
    BY <1>t, <1>time, <1>same, <2>1 DEF SampleTimes, TimedOutAt, Moments
<1>10. CASE UNCHANGED sampleVars
  <2>1. UNCHANGED <<moment, sentAt, observed, health, blamed>>
    BY <1>10 DEF sampleVars
  <2> QED
    BY <1>t, <1>same, <1>still, <2>1
<1> QED
  BY <1>1, <1>2, <1>3, <1>4, <1>5, <1>6, <1>7, <1>8, <1>9, <1>10
  DEF SamplesNext, SamplesStep

-----------------------------------------------------------------------------
(* The rest of the types: the variables that no invariant above needs.      *)

\* The scan counts.
ScanCounts == mode \in Modes /\ transport \in Nat /\ validCount \in Nat /\ starts \in Nat

LEMMA ScanCountsInit == MTUInit => ScanCounts
BY DEF MTUInit, ScanCounts

LEMMA ScanCountsStep == ASSUME ScanCounts, [MTUNext]_mtuVars PROVE ScanCounts'
<1>1. CASE UNCHANGED mtuVars
  BY <1>1 DEF mtuVars, scanVars, ScanCounts
<1>2. CASE MTUNext
  <2>1. mode' = mode
    BY <1>2 DEF MTUNext
  <2>2. \/ UNCHANGED <<transport, validCount, starts>>
        \/ UNCHANGED <<transport, starts>> /\ validCount' = validCount + 1
        \/ UNCHANGED <<transport, validCount>> /\ starts' = starts + 1
        \/ UNCHANGED starts /\ transport' \in {1, transport + 1} /\ validCount' \in {0, validCount}
    <3>1. CASE Dispatch
      BY <3>1 DEF Dispatch
    <3>2. CASE ScanEnds
      BY <3>2 DEF ScanEnds
    <3>3. CASE Recompute
      BY <3>3 DEF Recompute, scanVars
    <3>4. CASE ReclassifyBackups \/ ApplySyncedMTU \/ SessionEnds \/ ApplyRecheckedMTU \/ Promote
      BY <3>4 DEF ReclassifyBackups, ApplySyncedMTU, SessionEnds, ApplyRecheckedMTU, Promote, scanVars
    <3>5. ASSUME NEW r \in Links, ProbeEnds(r)
          PROVE  /\ UNCHANGED <<transport, starts>>
                 /\ validCount' = validCount \/ validCount' = validCount + 1
      BY <3>5 DEF ProbeEnds
    <3>6. ASSUME NEW r \in Links, OnValid(r) \/ Disable(r) \/ RecheckAtMTU(r)
          PROVE  UNCHANGED <<transport, validCount, starts>>
      BY <3>6 DEF OnValid, Disable, RecheckAtMTU, scanVars
    <3> QED
      BY <1>2, <3>1, <3>2, <3>3, <3>4, <3>5, <3>6 DEF MTUNext
  <2> QED
    BY <2>1, <2>2 DEF ScanCounts
<1> QED
  BY <1>1, <1>2

\* What a pick was asked for.
PickAsked == pick.want \in 0 .. Paths + 1 /\ pick.except \in 0 .. Paths

LEMMA PickAskedInit == PickInit => PickAsked
BY BalancerPickAssumption DEF PickInit, PickAsked, NoPick

LEMMA PickAskedStep == ASSUME PickAsked, [PickNext]_pickVars PROVE PickAsked'
<1>0. Paths \in Nat \ {0}
  BY BalancerPickAssumption
<1>1. CASE pick' = pick \/ pick' = NoPick
  BY <1>0, <1>1 DEF PickAsked, NoPick
<1>2. ASSUME NEW n \in 0 .. Paths + 1, GetUnique(n) PROVE PickAsked'
  <2>1. \E g : pick' = [want |-> n, except |-> 0, got |-> g]
    BY <1>2 DEF GetUnique
  <2> QED
    BY <1>0, <2>1 DEF PickAsked
<1>3. ASSUME NEW x \in 1 .. Paths, GetExcluding(x) PROVE PickAsked'
  <2>1. \E g : pick' = [want |-> 1, except |-> x, got |-> g]
    BY <1>3 DEF GetExcluding
  <2> QED
    BY <1>0, <2>1 DEF PickAsked
<1>4. CASE UNCHANGED pickVars
  BY <1>1, <1>4 DEF pickVars
<1>5. ASSUME NEW r \in 1 .. Paths, ReportSend(r) \/ ReportSuccess(r) \/ Leave(r) \/ Rejoin(r)
      PROVE  pick' = NoPick
  BY <1>5 DEF ReportSend, ReportSuccess, Leave, Rejoin
<1> QED
  BY <1>1, <1>2, <1>3, <1>4, <1>5 DEF PickNext

\* How often the program stopped.
LEMMA StopsStep == ASSUME stops \in Nat, [CacheNext]_cacheVars PROVE stops' \in Nat
<1>1. stops' = stops \/ stops' = stops + 1
  <2>1. ASSUME NEW k \in Keys, Lookup(k) \/ GetReady(k) \/ \E r \in Responses : SetReady(k, r)
        PROVE  stops' = stops
    BY <2>1 DEF Lookup, GetReady, SetReady
  <2>2. CASE ClearPending \/ CacheTick \/ SaveStarts \/ SaveCounts
    BY <2>2 DEF ClearPending, CacheTick, SaveStarts, SaveCounts
  <2>3. CASE SaveWrites \/ SaveRenames \/ SaveEnds \/ SaveFails
    BY <2>3 DEF SaveWrites, SaveRenames, SaveEnds, SaveFails
  <2>4. CASE Restart
    BY <2>4 DEF Restart
  <2>5. CASE UNCHANGED cacheVars
    BY <2>5 DEF cacheVars
  <2> QED
    BY <2>1, <2>2, <2>3, <2>4, <2>5 DEF CacheNext
<1> QED
  BY <1>1

\* The state of the upstream servers, and the histories of the entries.
UpstreamTypes ==
    /\ answerKept \in BOOLEAN /\ old \in BOOLEAN /\ (old => entry # NoLead)
    /\ failures \in [Upstreams -> 0 .. ColdAfter]
    /\ cooling \in SUBSET Upstreams /\ fast \in SUBSET Upstreams
    /\ replaced \in SUBSET Queries /\ taken \in SUBSET Queries

LEMMA UpstreamTypesInit == ResolveInit => UpstreamTypes
<1> SUFFICES ASSUME ResolveInit PROVE UpstreamTypes
  OBVIOUS
<1>1. ColdAfter \in Nat /\ 0 \in 0 .. ColdAfter
  BY DNSResolveAssumption
<1>2. fast \in SUBSET Upstreams
  BY DEF ResolveInit
<1> QED
  BY <1>1, <1>2 DEF ResolveInit, UpstreamTypes

LEMMA UpstreamTypesStep ==
    ASSUME entry \in Queries \cup {NoLead}, UpstreamTypes, [ResolveNext]_resolveVars
    PROVE  UpstreamTypes'
<1>t. /\ answerKept \in BOOLEAN /\ old \in BOOLEAN
      /\ failures \in [Upstreams -> 0 .. ColdAfter]
      /\ cooling \in SUBSET Upstreams /\ fast \in SUBSET Upstreams
      /\ replaced \in SUBSET Queries /\ taken \in SUBSET Queries /\ ColdAfter \in Nat
      /\ (old => entry # NoLead)
  BY DNSResolveAssumption DEF UpstreamTypes
<1>kept. ASSUME UNCHANGED <<failures, cooling, fast>>, answerKept' \in BOOLEAN, old' \in BOOLEAN,
                replaced' \in SUBSET Queries, taken' \in SUBSET Queries, old' => entry' # NoLead
         PROVE  UpstreamTypes'
  BY <1>t, <1>kept DEF UpstreamTypes
<1>1. ASSUME NEW q \in Queries,
             LooksUp(q) \/ AsksFirst(q) \/ Hedge(q) \/ Deadline(q) \/ Wakes(q) \/ LooksAgain(q)
      PROVE  UpstreamTypes'
  <2>1. UNCHANGED <<answerKept, entry, old, failures, cooling, fast, replaced, taken>>
    <3>1. CASE LooksUp(q)
      BY <3>1 DEF LooksUp, healthVars
    <3>2. CASE AsksFirst(q)
      BY <3>2 DEF AsksFirst, healthVars
    <3>3. CASE Hedge(q) \/ Deadline(q)
      BY <3>3 DEF Hedge, Deadline, healthVars
    <3>4. CASE Wakes(q) \/ LooksAgain(q)
      BY <3>4 DEF Wakes, LooksAgain, healthVars
    <3> QED
      BY <1>1, <3>1, <3>2, <3>3, <3>4
  <2> QED
    BY <1>t, <1>kept, <2>1
<1>2. ASSUME NEW q \in Queries, Acquire(q) PROVE UpstreamTypes'
  <2>1. CASE entry # NoLead /\ ~old
    <3>1. UNCHANGED <<answerKept, failures, cooling, fast, taken, entry, old, replaced>>
      BY <1>2, <2>1 DEF Acquire, healthVars
    <3> QED
      BY <1>t, <1>kept, <3>1
  <2>2. CASE ~(entry # NoLead /\ ~old)
    <3>1. /\ UNCHANGED <<answerKept, failures, cooling, fast, taken>>
          /\ old' = FALSE /\ replaced' = replaced \cup ({entry} \ {NoLead})
      BY <1>2, <2>2 DEF Acquire, healthVars
    <3> QED
      BY <1>t, <1>kept, <3>1
  <2> QED
    BY <2>1, <2>2
<1>3. ASSUME NEW q \in Queries, Resolve(q) PROVE UpstreamTypes'
  <2>1. /\ UNCHANGED <<answerKept, failures, cooling, fast, replaced>> /\ old' = FALSE
        /\ taken' = taken \cup ({entry} \ {NoLead, q})
    BY <1>3 DEF Resolve, healthVars
  <2> QED
    BY <1>t, <1>kept, <2>1
<1>4. ASSUME NEW q \in Queries, Keeps(q) PROVE UpstreamTypes'
  <2>1. UNCHANGED <<failures, cooling, fast, entry, old, replaced, taken>> /\ answerKept' = TRUE
    BY <1>4 DEF Keeps, healthVars
  <2> QED
    BY <1>t, <1>kept, <2>1
<1>5. ASSUME NEW q \in Queries, NEW u \in Upstreams, NEW ok \in BOOLEAN, UpstreamReports(q, u, ok)
      PROVE  UpstreamTypes'
  <2>1. UNCHANGED <<answerKept, entry, old, replaced, taken>> /\ Noted(u, ok)
    BY <1>5 DEF UpstreamReports
  <2>2. /\ failures' \in [Upstreams -> 0 .. ColdAfter]
        /\ cooling' \in SUBSET Upstreams /\ fast' \in SUBSET Upstreams
    <3>1. CASE ok
      <4>1. failures' = [failures EXCEPT ![u] = 0] /\ cooling' = cooling \ {u}
            /\ fast' \in {fast, fast \cup {u}, fast \ {u}}
        BY <2>1, <3>1 DEF Noted
      <4> QED
        BY <1>t, <4>1
    <3>2. CASE ~ok
      <4> DEFINE n == IF failures[u] < ColdAfter THEN failures[u] + 1 ELSE ColdAfter
      <4>1. failures' = [failures EXCEPT ![u] = n] /\ cooling' \in {cooling, cooling \cup {u}}
            /\ fast' = fast
        BY <2>1, <3>2 DEF Noted
      <4>2. n \in 0 .. ColdAfter
        BY <1>t
      <4> HIDE DEF n
      <4> QED
        BY <1>t, <4>1, <4>2
    <3> QED
      BY <3>1, <3>2
  <2> QED
    BY <1>t, <2>1, <2>2 DEF UpstreamTypes
<1>6. ASSUME NEW u \in Upstreams, CoolsOff(u) PROVE UpstreamTypes'
  <2>1. UNCHANGED <<answerKept, entry, old, failures, fast, replaced, taken>> /\ cooling' = cooling \ {u}
    BY <1>6 DEF CoolsOff
  <2> QED
    BY <1>t, <2>1 DEF UpstreamTypes
<1>7. CASE GrowsOld
  <2>1. UNCHANGED <<answerKept, entry, failures, cooling, fast, replaced, taken>> /\ old' = TRUE /\ entry # NoLead
    BY <1>7 DEF GrowsOld, healthVars
  <2> QED
    BY <1>t, <1>kept, <2>1
<1>8. CASE CleansUp
  <2>1. /\ UNCHANGED <<answerKept, failures, cooling, fast, taken>> /\ old' = FALSE
        /\ replaced' = replaced \cup {entry} /\ entry # NoLead
    BY <1>t, <1>8 DEF CleansUp, healthVars
  <2> QED
    BY <1>t, <1>kept, <2>1
<1>9. CASE Dropped
  <2>1. UNCHANGED <<failures, cooling, fast, entry, old, replaced, taken>> /\ answerKept' = FALSE
    BY <1>9 DEF Dropped, healthVars
  <2> QED
    BY <1>t, <1>kept, <2>1
<1>10. CASE UNCHANGED resolveVars
  BY <1>t, <1>kept, <1>10 DEF resolveVars
<1> QED
  BY <1>1, <1>2, <1>3, <1>4, <1>5, <1>6, <1>7, <1>8, <1>9, <1>10 DEF ResolveNext

\* The keys of a store are sequence numbers.
IsStore(s) == s = [items |-> s.items, completed |-> s.completed, lastPurge |-> s.lastPurge]
Numbered(s) ==
    /\ DOMAIN s.items \in SUBSET (1 .. SeqSpace) /\ DOMAIN s.completed \in SUBSET (1 .. SeqSpace)
    /\ \A k \in DOMAIN s.items : s.items[k].total \in Nat

LEMMA PurgedNumbered ==
    ASSUME NEW raw, IsStore(raw), Numbered(raw)
    PROVE  IsStore(Purged(raw)) /\ Numbered(Purged(raw))
<1> DEFINE s == Purged(raw)
<1>1. CASE s = raw
  BY <1>1
<1>2. CASE s = [EmptyStore EXCEPT !.lastPurge = instant]
  <2>1. s = [items |-> NoItems, completed |-> NoItems, lastPurge |-> instant] /\ DOMAIN NoItems = {}
    BY <1>2 DEF EmptyStore, NoItems
  <2> HIDE DEF s
  <2>2. IsStore(s) /\ Numbered(s)
    BY <2>1 DEF IsStore, Numbered
  <2> QED
    BY <2>2 DEF s
<1>3. CASE ~(instant - raw.lastPurge < 1) /\ Remembers # 0
  <2> DEFINE young == {k \in DOMAIN raw.items : raw.items[k].created > instant - Remembers}
             live == {k \in DOMAIN raw.completed : instant < raw.completed[k]}
  <2>1. s = [items |-> [k \in young |-> raw.items[k]], completed |-> [k \in live |-> raw.completed[k]],
             lastPurge |-> instant]
    BY <1>3 DEF Purged, Only
  <2>2. young \in SUBSET DOMAIN raw.items /\ live \in SUBSET DOMAIN raw.completed
    OBVIOUS
  <2> HIDE DEF s, young, live
  <2>3. IsStore(s) /\ Numbered(s)
    BY <2>1, <2>2 DEF IsStore, Numbered
  <2> QED
    BY <2>3 DEF s
<1> QED
  BY <1>1, <1>2, <1>3 DEF Purged

LEMMA RememberNumbered ==
    ASSUME NEW s, IsStore(s), Numbered(s), NEW k \in 1 .. SeqSpace
    PROVE  Numbered(Remember(s, k))
<1> DEFINE its == Drop1(s.items, k)
           known == IF Remembers > 0 THEN With(s.completed, k, instant + Remembers)
                    ELSE Drop1(s.completed, k)
<1>1. Remember(s, k) = [items |-> its, completed |-> known, lastPurge |-> s.lastPurge]
  <2>1. Remember(s, k) = [s EXCEPT !.items = its, !.completed = known]
    BY DEF Remember
  <2> HIDE DEF its, known
  <2> QED
    BY <2>1 DEF IsStore
<1>2. DOMAIN its = DOMAIN s.items \ {k} /\ \A j \in DOMAIN its : its[j] = s.items[j]
  BY DEF Drop1, Only
<1>3. DOMAIN known \in SUBSET (DOMAIN s.completed \cup {k})
  BY DEF Drop1, Only, With
<1> HIDE DEF its, known
<1> QED
  BY <1>1, <1>2, <1>3 DEF Numbered

LEMMA CollectNumbered ==
    ASSUME NEW raw, IsStore(raw), Numbered(raw), NEW f, NEW k \in 1 .. SeqSpace, NEW total \in Nat
    PROVE  Numbered(CollectFragment(raw, k, f, total).store)
<1> DEFINE s == Purged(raw)
           item == IF k \in DOMAIN s.items THEN s.items[k]
                   ELSE [total |-> total, created |-> instant, chunks |-> [i \in {} |-> 0]]
           got == With(item.chunks, f.id, f.of)
           r == CollectFragment(raw, k, f, total)
           less == [s EXCEPT !.items = Drop1(s.items, k)]
           new == [item EXCEPT !.chunks = got]
           more == [s EXCEPT !.items = With(s.items, k, new)]
<1>1. IsStore(s) /\ Numbered(s)
  BY PurgedNumbered
<1>2. \/ r = Result(raw, "ready", {f.of})
      \/ r = Result(s, "completed", {})
      \/ \E P : r = Result(Remember(s, k), "ready", P)
      \/ r = Result(less, "conflict", {})
      \/ item.total = total /\ r = Result(more, "waiting", {})
  BY Zenon DEF CollectFragment
<1>3. r.store \in {raw, s, Remember(s, k), less} \/ (item.total = total /\ r.store = more)
  <2> HIDE DEF s, r, less, more, item
  <2> QED
    BY <1>2 DEF Result
<1>4. Numbered(less)
  <2> DEFINE its == Drop1(s.items, k)
  <2>1. DOMAIN its = DOMAIN s.items \ {k} /\ \A j \in DOMAIN its : its[j] = s.items[j]
    BY DEF Drop1, Only
  <2>2. less = [s EXCEPT !.items = its]
    OBVIOUS
  <2> HIDE DEF s, its, less
  <2>3. less.items = its /\ less.completed = s.completed
    BY <1>1, <2>2 DEF IsStore
  <2> QED
    BY <1>1, <2>1, <2>3 DEF Numbered
<1>5. ASSUME item.total = total PROVE Numbered(more)
  <2>1. new.total = total
    <3>1. CASE k \in DOMAIN s.items
      <4>1. item = s.items[k]
        BY <3>1
      <4> HIDE DEF item, got, s
      <4> QED
        BY <1>5
    <3>2. CASE k \notin DOMAIN s.items
      BY <1>5, <3>2
    <3> QED
      BY <3>1, <3>2
  <2> DEFINE its == With(s.items, k, new)
  <2>2. more = [s EXCEPT !.items = its]
    OBVIOUS
  <2> HIDE DEF s, new, more
  <2>3. /\ DOMAIN its = DOMAIN s.items \cup {k} /\ its[k] = new
        /\ \A j \in DOMAIN s.items : j # k => its[j] = s.items[j]
    BY DEF With
  <2> HIDE DEF its
  <2>4. more.items = its /\ more.completed = s.completed
    BY <1>1, <2>2 DEF IsStore
  <2> QED
    BY <1>1, <2>1, <2>3, <2>4 DEF Numbered
<1>6. Numbered(Remember(s, k))
  <2> HIDE DEF s
  <2> QED
    BY <1>1, RememberNumbered
<1> HIDE DEF s, r, less, more, item
<1>7. Numbered(r.store)
  BY <1>1, <1>3, <1>4, <1>5, <1>6
<1> QED
  BY <1>7 DEF r

Packets == [kind : {"query", "ack", "answer"}, of : 1 .. Asked, id : Nat]
FragTypes ==
    /\ wire \in SUBSET Packets /\ doubled \in BOOLEAN
    /\ \A side \in Sides :
          /\ Numbered(store[side]) /\ DOMAIN last[side] \in SUBSET (1 .. SeqSpace)
          /\ joined[side] \in SUBSET (1 .. Asked)

LEMMA FragTypesInit == FragInit => FragTypes
<1> SUFFICES ASSUME FragInit PROVE FragTypes
  OBVIOUS
<1>1. DOMAIN NoItems = {}
  BY DEF NoItems
<1> QED
  BY <1>1 DEF FragInit, FragTypes, EmptyStore, Numbered

\* The sequence number of a message is one.
LEMMA SeqIs == ASSUME NEW q \in 1 .. Asked PROVE Seq16(q) \in 1 .. SeqSpace
<1>1. Asked \in Nat /\ SeqSpace \in Nat \ {0} /\ q - 1 \in Nat
  BY ReassemblyAssumption
<1>2. (q - 1) % SeqSpace \in 0 .. SeqSpace - 1
  BY <1>1
<1> QED
  BY <1>1, <1>2 DEF Seq16

\* What a side takes in is of the type.
LEMMA TakenInTypes ==
    ASSUME FragInv, FragTypes, NEW side \in Sides, NEW f, NEW total \in Nat, f.of \in 1 .. Asked,
           Belongs(side, Seq16(f.of), total, f.of, cut),
           NEW r, r = CollectFragment(store[side], Seq16(f.of), f, total),
           store' = [store EXCEPT ![side] = r.store], History(side, Seq16(f.of), r)
    PROVE  /\ doubled' \in BOOLEAN
           /\ \A z \in Sides :
                 /\ Numbered(store'[z]) /\ DOMAIN last'[z] \in SUBSET (1 .. SeqSpace)
                 /\ joined'[z] \in SUBSET (1 .. Asked)
<1> DEFINE k == Seq16(f.of)
<1>1. k \in 1 .. SeqSpace
  BY SeqIs
<1>2. /\ FragType /\ StoreSound(side, store[side], instant, cut) /\ Numbered(store[side])
      /\ IsStore(store[side])
  BY DEF FragInv, FragTypes, StoreSound, IsStore
<1>3. /\ store = [z \in Sides |-> store[z]] /\ last = [z \in Sides |-> last[z]]
      /\ joined = [z \in Sides |-> joined[z]] /\ doubled \in BOOLEAN
  BY <1>2 DEF FragType, FragTypes
<1>4. Collected(side, store[side], k, total, r)
  BY <1>2, CollectKeeps
<1> HIDE DEF k
<1>5. Numbered(r.store)
  BY <1>1, <1>2, CollectNumbered DEF k
<1>6. /\ store'[side] = r.store
      /\ \A z \in Sides : z # side => store'[z] = store[z]
  BY <1>3
<1>7. \A z \in Sides : Numbered(store'[z])
  BY <1>5, <1>6 DEF FragTypes
<1>8. CASE r.out # "ready"
  <2>1. UNCHANGED <<last, joined, doubled>>
    BY <1>8 DEF History
  <2> QED
    BY <1>7, <2>1 DEF FragTypes
<1>9. CASE r.out = "ready"
  <2> DEFINE done == With(last[side], k, instant)
  <2>1. /\ last' = [last EXCEPT ![side] = done] /\ joined' = [joined EXCEPT ![side] = r.parts]
        /\ doubled' \in BOOLEAN
    BY <1>9 DEF History, k
  <2>2. DOMAIN done = DOMAIN last[side] \cup {k}
    BY DEF With
  <2>3. r.parts \in SUBSET (1 .. Asked)
    BY <1>4, <1>9 DEF Collected, Belongs
  <2> HIDE DEF done
  <2>4. \A z \in Sides : DOMAIN last'[z] \in SUBSET (1 .. SeqSpace)
    BY <1>1, <1>3, <2>1, <2>2 DEF FragTypes
  <2>5. \A z \in Sides : joined'[z] \in SUBSET (1 .. Asked)
    BY <1>3, <2>1, <2>3 DEF FragTypes
  <2> QED
    BY <1>7, <2>1, <2>4, <2>5
<1> QED
  BY <1>8, <1>9

LEMMA FragTypesStep == ASSUME FragInv, FragTypes, [FragNext]_fragVars PROVE FragTypes'
<1>inv. FragType /\ wire \in SUBSET Packets /\ doubled \in BOOLEAN
  BY DEF FragInv, FragTypes
<1>num. Asked \in Nat /\ AnswerCut \in Nat \ {0} /\ cut \in [1 .. Asked -> Nat \ {0}]
  BY <1>inv, ReassemblyAssumption DEF FragType
<1>sent. ASSUME NEW q \in 1 .. Asked, NEW kind \in {"query", "ack", "answer"}, NEW i \in Nat
         PROVE  Frag(kind, q, i) \in Packets
  BY DEF Frag, Packets
<1>wire. ASSUME UNCHANGED <<store, last, joined, doubled>>, wire' \in SUBSET Packets PROVE FragTypes'
  BY <1>wire DEF FragTypes
<1>1. CASE AskQuery
  <2>1. /\ asked < Asked /\ asked' = asked + 1
        /\ wire' = wire \cup {Frag("query", asked', i) : i \in 1 .. cut[asked']}
        /\ UNCHANGED <<store, last, joined, doubled>>
    BY <1>1 DEF AskQuery
  <2>2. asked' \in 1 .. Asked
    BY <1>inv, <1>num, <2>1 DEF FragType
  <2>3. ASSUME NEW i \in 1 .. cut[asked'] PROVE Frag("query", asked', i) \in Packets
    <3>1. i \in Nat
      BY <1>num, <2>2
    <3> QED
      BY <1>sent, <2>2, <3>1
  <2>4. wire' \in SUBSET Packets
    BY <1>inv, <2>1, <2>3
  <2> QED
    BY <1>wire, <2>1, <2>4
<1>2. ASSUME NEW f \in wire, Receives(f) PROVE FragTypes'
  <2> DEFINE r == CollectFragment(store["server"], Seq16(f.of), f, cut[f.of])
  <2>1. /\ store' = [store EXCEPT !["server"] = r.store] /\ History("server", Seq16(f.of), r)
        /\ wire' \in {wire, wire \cup {Frag("ack", f.of, f.id)}}
    BY <1>2 DEF Receives
  <2>2. f \in Packets
    BY <1>inv, <1>2
  <2>3. f.of \in 1 .. Asked /\ f.id \in Nat /\ cut[f.of] \in Nat /\ "server" \in Sides
    BY <1>num, <2>2 DEF Packets, Sides
  <2>4. Belongs("server", Seq16(f.of), cut[f.of], f.of, cut)
    BY <2>3 DEF Belongs
  <2> HIDE DEF r
  <2>5. r = CollectFragment(store["server"], Seq16(f.of), f, cut[f.of])
    BY DEF r
  <2>6. /\ doubled' \in BOOLEAN
        /\ \A z \in Sides :
              /\ Numbered(store'[z]) /\ DOMAIN last'[z] \in SUBSET (1 .. SeqSpace)
              /\ joined'[z] \in SUBSET (1 .. Asked)
    BY <2>1, <2>3, <2>4, <2>5, TakenInTypes
  <2>7. Frag("ack", f.of, f.id) \in Packets
    BY <1>sent, <2>3
  <2>8. wire' \in SUBSET Packets
    BY <1>inv, <2>1, <2>7
  <2> QED
    BY <2>6, <2>8 DEF FragTypes
<1>3. ASSUME NEW f \in wire, Hears(f) PROVE FragTypes'
  <2> DEFINE r == CollectFragment(store["client"], Seq16(f.of), f, AnswerCut)
  <2>1. /\ store' = [store EXCEPT !["client"] = r.store] /\ History("client", Seq16(f.of), r)
        /\ wire' = wire
    BY <1>3 DEF Hears
  <2>2. f \in Packets
    BY <1>inv, <1>3
  <2>3. f.of \in 1 .. Asked /\ AnswerCut \in Nat /\ "client" \in Sides
    BY <1>num, <2>2 DEF Packets, Sides
  <2>4. Belongs("client", Seq16(f.of), AnswerCut, f.of, cut)
    BY <2>3 DEF Belongs
  <2> HIDE DEF r
  <2>5. r = CollectFragment(store["client"], Seq16(f.of), f, AnswerCut)
    BY DEF r
  <2>6. /\ doubled' \in BOOLEAN
        /\ \A z \in Sides :
              /\ Numbered(store'[z]) /\ DOMAIN last'[z] \in SUBSET (1 .. SeqSpace)
              /\ joined'[z] \in SUBSET (1 .. Asked)
    BY <2>1, <2>3, <2>4, <2>5, TakenInTypes
  <2> QED
    BY <1>inv, <2>1, <2>6 DEF FragTypes
<1>4. ASSUME NEW q \in tasks, RunTask(q) PROVE FragTypes'
  <2>1. PICK n \in 0 .. AnswerCut : wire' = wire \cup {Frag("answer", q, i) : i \in 1 .. n}
    BY <1>4 DEF RunTask
  <2>2. UNCHANGED <<store, last, joined, doubled>> /\ q \in 1 .. Asked
    BY <1>inv, <1>4 DEF RunTask, FragType
  <2>3. ASSUME NEW i \in 1 .. n PROVE Frag("answer", q, i) \in Packets
    <3>1. i \in Nat
      BY <1>num
    <3> QED
      BY <1>sent, <2>2, <3>1
  <2>4. wire' \in SUBSET Packets
    BY <1>inv, <2>1, <2>3
  <2> QED
    BY <1>wire, <2>2, <2>4
<1>5. CASE Passes \/ UNCHANGED fragVars
  BY <1>inv, <1>wire, <1>5 DEF Passes, fragVars
<1>6. CASE Cleans
  <2>1. /\ store' = [store EXCEPT !["server"] = Purged(store["server"])]
        /\ UNCHANGED <<wire, last, joined, doubled>>
    BY <1>6 DEF Cleans
  <2>2. store = [z \in Sides |-> store[z]] /\ "server" \in Sides
    BY <1>inv DEF FragType, Sides
  <2>3. StoreSound("server", store["server"], instant, cut) /\ Numbered(store["server"])
    BY <2>2 DEF FragInv, FragTypes
  <2>4. Numbered(Purged(store["server"]))
    BY <2>3, PurgedNumbered DEF StoreSound, IsStore
  <2>5. \A z \in Sides : Numbered(store'[z])
    BY <2>1, <2>2, <2>4 DEF FragTypes
  <2> QED
    BY <1>inv, <2>1, <2>5 DEF FragTypes
<1> QED
  BY <1>1, <1>2, <1>3, <1>4, <1>5, <1>6 DEF FragNext

-----------------------------------------------------------------------------
(* The components side by side.                                             *)

PartsInv ==
    /\ StoreInv /\ PoolInv /\ MTUInv /\ SearchInv /\ PickInv
    /\ PipeInv /\ SamplesInv /\ ConnsInv /\ CarriersInv /\ AssociationInv /\ GenericInv
    /\ ResolveInv /\ FragInv /\ CacheInv
    /\ StoreTimes /\ RxBounded /\ SampleTimes /\ AssociationTimes
    /\ ScanCounts /\ PickAsked /\ stops \in Nat /\ UpstreamTypes /\ FragTypes

\* Each component starts as it does on its own.
LEMMA PartsInvInit == Init => PartsInv
<1> SUFFICES ASSUME Init PROVE PartsInv
  OBVIOUS
<1>1. /\ SessionInit /\ PoolInit /\ MTUInit /\ SearchInit /\ PickInit
      /\ PipeInit /\ SamplesInit /\ ConnsInit /\ CarriersInit
      /\ UDPInit /\ GenericInit /\ ResolveInit /\ FragInit /\ CacheInit
  BY DEF Init
<1>2. StoreTimes /\ RxBounded /\ SampleTimes /\ AssociationTimes
  BY <1>1, StoreTimesInit, RxBoundedInit, SampleTimesInit, AssociationTimesInit
<1>3. ScanCounts /\ PickAsked /\ stops \in Nat /\ UpstreamTypes /\ FragTypes /\ CacheInv
  BY <1>1, ScanCountsInit, PickAskedInit, UpstreamTypesInit, FragTypesInit, CacheInvInit DEF CacheInit
<1> QED
  BY <1>1, <1>2, <1>3, StoreInvInit, PoolInvInit, MTUInvInit, SearchInvInit, PickInvInit,
     PipeInvInit, SamplesInvInit, ConnsInvInit, CarriersInvInit, AssociationInvInit, GenericInvInit, ResolveInvInit, FragInvInit
  DEF PartsInv

\* Each step of all is a step of a component, or leaves it alone.
LEMMA TablesMove ==
    ASSUME [Next]_partsVars
    PROVE  /\ [SessionNext]_sessionVars /\ [PoolNext]_poolVars
           /\ [MTUNext]_mtuVars /\ [SearchNext]_searchVars /\ [PickNext]_pickVars
BY DEF Next, SessionMove, PoolMove, MTUMove, PickMove, partsVars, tableVars, pathVars

\* A step of the composition is a step or a stutter of each component that
\* carries queries.
LEMMA QueriesMove ==
    ASSUME [Next]_partsVars
    PROVE  /\ [PipeNext]_pipeVars /\ [SamplesNext]_sampleVars
           /\ [ConnsNext]_connectionVars /\ [CarriersNext]_carrierVars
BY DEF Next, QueryMove, SamplesMove, partsVars, restVars, queryVars

\* The same of the associations and of the components of the answers.
LEMMA RestMoves ==
    ASSUME [Next]_partsVars
    PROVE  /\ [UDPNext]_udpVars /\ [GenericNext]_genericVars
           /\ [CacheNext]_cacheVars /\ [ResolveNext]_resolveVars /\ [FragNext]_fragVars
BY DEF Next, CacheMove, ResolveMove, partsVars, restVars, associationVars, dnsVars

\* Every step keeps the invariant of every component: it is a step of one of them
\* and leaves the others alone.
LEMMA PartsInvStep == PartsInv /\ [Next]_partsVars => PartsInv'
<1> SUFFICES ASSUME PartsInv, [Next]_partsVars PROVE PartsInv'
  OBVIOUS
<1>1. StoreInv' /\ PoolInv' /\ MTUInv' /\ SearchInv' /\ PickInv'
  BY TablesMove, StoreInvStep, PoolInvStep, MTUInvStep, SearchInvStep, PickInvStep DEF PartsInv
<1>2. PipeInv' /\ SamplesInv' /\ ConnsInv' /\ CarriersInv'
  BY QueriesMove, PipeInvStep, SamplesInvStep, ConnsInvStep, CarriersInvStep DEF PartsInv
<1>3. AssociationInv' /\ GenericInv' /\ ResolveInv' /\ FragInv' /\ CacheInv'
  BY RestMoves, AssociationInvStep, GenericInvStep, ResolveInvStep, FragInvStep, CacheInvStep DEF PartsInv
<1>4. StoreTimes' /\ RxBounded' /\ SampleTimes' /\ AssociationTimes'
  BY TablesMove, QueriesMove, RestMoves, StoreTimesStep, RxBoundedStep, SampleTimesStep,
     AssociationTimesStep DEF PartsInv
<1>5. ScanCounts' /\ PickAsked' /\ stops' \in Nat
  BY TablesMove, RestMoves, ScanCountsStep, PickAskedStep, StopsStep DEF PartsInv
<1>6. UpstreamTypes' /\ FragTypes'
  <2>1. entry \in Queries \cup {NoLead} /\ UpstreamTypes /\ FragInv /\ FragTypes
    BY DEF PartsInv, ResolveInv, ResolveType
  <2> QED
    BY <2>1, RestMoves, UpstreamTypesStep, FragTypesStep
<1> QED
  BY <1>1, <1>2, <1>3, <1>4, <1>5, <1>6 DEF PartsInv

\* In every behaviour of the components side by side their invariants hold.
THEOREM PartsInvariant == Spec => []PartsInv
BY PartsInvInit, PartsInvStep, PTL DEF Spec

\* Every variable of every component stays in its type; in particular the channels,
\* the tables and the counters stay within their limits, and the times are moments of the
\* clock.
THEOREM PartsTypesCorrect == Spec => []PartsTypeOK
<1>1. PartsInv => PartsTypeOK
  <2> SUFFICES ASSUME PartsInv PROVE PartsTypeOK
    OBVIOUS
  <2>1. SessionTypeOK
    BY DEF PartsInv, StoreInv, StoreType, StoreTimes, SessionTypeOK
  <2>2. PoolTypeOK /\ ConnsTypeOK
    BY DEF PartsInv, PoolInv, ConnsInv
  <2>3. PipeTypeOK
    <3>1. received \in 0 .. QueueRoom
      BY SendPipelineAssumption DEF PartsInv, PipeInv, PipeType, RxBounded
    <3> QED
      BY <3>1 DEF PartsInv, PipeInv, PipeType, Places, Encoders, Sockets, PipeTypeOK
  <2>4. SamplesTypeOK
    <3>1. BlamedOnes \in SUBSET Sends /\ LastQuery \in Nat
      BY TimesAre DEF BlamedOnes
    <3>2. Cardinality(BlamedOnes) \in Nat /\ Cardinality(BlamedOnes) <= LastQuery
      BY <3>1, BlamedAre
    <3>3. health \in [Moments -> Nat] /\ \A t \in Moments : health[t] <= Cardinality(BlamedOnes)
      BY DEF PartsInv, SampleTimes
    <3>4. \A t \in Moments : health[t] \in 0 .. LastQuery
      BY <3>1, <3>2, <3>3
    <3>5. health \in [Moments -> 0 .. LastQuery]
      BY <3>3, <3>4
    <3> QED
      BY <3>5 DEF PartsInv, SamplesInv, SampleType, SampleTimes, Claimed, SamplesTypeOK
  <2>5. CarriersTypeOK
    BY CarriersInvSound DEF PartsInv
  <2>6. UDPTypeOK
    BY DEF PartsInv, AssociationInv, AssociationType, AssociationTimes, Writers, UDPTypeOK
  <2>7. GenericTypeOK
    BY DEF PartsInv, GenericInv, QueueType, Forwarders, GenericTypeOK
  <2>8. MTUTypeOK
    BY DEF PartsInv, MTUInv, MTUType, Connection, MTUPair, ScanCounts, MTUTypeOK
  <2>9. SearchTypeOK
    BY DEF PartsInv, SearchInv, SearchType, Verdicts, SearchTypeOK
  <2>10. PickTypeOK
    <3>1. ToSet(pick.got) \in SUBSET (1 .. Paths)
      <4>1. CASE pick = NoPick
        <5>1. ToSet(<<>>) = {}
          BY DEF ToSet
        <5> QED
          BY <4>1, <5>1 DEF NoPick
      <4>2. CASE pick # NoPick
        BY <4>2 DEF PartsInv, PickInv, PickType, Distinct
      <4> QED
        BY <4>1, <4>2
    <3> QED
      BY <3>1 DEF PartsInv, PickInv, PickType, PickAsked, PickTypeOK
  <2>11. CacheTypeOK
    <3>1. CacheType /\ CacheConsistent /\ stops \in Nat
      BY DEF PartsInv, CacheInv
    <3>2. pendingTotal \in Nat
      BY <3>1, CachedIsFinite
    <3>3. FileRecord \in SUBSET FileRecords
      BY DEF FileRecord, FileRecords
    <3>4. file \in Seq(FileRecords)
      BY <3>1, <3>3 DEF CacheType
    <3>5. save \in [at : {"idle", "count", "write", "rename", "clear"},
                    left : Seq(Keys), out : Seq(FileRecords)]
      BY <3>1, <3>3 DEF CacheType
    <3> QED
      BY <3>1, <3>2, <3>4, <3>5 DEF CacheType, CacheTypeOK
  <2>12. ResolveTypeOK
    BY DEF PartsInv, ResolveInv, ResolveType, RaceType, Races, Stages, UpstreamTypes, ResolveTypeOK
  <2>13. FragTypeOK
    <3>1. FragType /\ FragTypes
      BY DEF PartsInv, FragInv
    <3>2. ASSUME NEW side \in Sides
          PROVE  LET s == store[side] IN
                 /\ s.lastPurge \in Nat
                 /\ DOMAIN s.items \cup DOMAIN s.completed \cup DOMAIN last[side] \subseteq 1 .. SeqSpace
                 /\ \A k \in DOMAIN s.items :
                       /\ s.items[k].total \in Nat /\ s.items[k].created \in Nat
                       /\ \A i \in DOMAIN s.items[k].chunks : s.items[k].chunks[i] \in 1 .. Asked
                 /\ \A k \in DOMAIN s.completed : s.completed[k] \in Nat
                 /\ \A k \in DOMAIN last[side] : last[side][k] \in Nat
                 /\ joined[side] \subseteq 1 .. Asked
      <4>1. /\ StoreSound(side, store[side], instant, cut)
            /\ LastIsKept(last[side], store[side], instant)
        BY DEF PartsInv, FragInv
      <4>2. /\ Numbered(store[side]) /\ DOMAIN last[side] \in SUBSET (1 .. SeqSpace)
            /\ joined[side] \in SUBSET (1 .. Asked)
        BY <3>1 DEF FragTypes
      <4>3. \A k \in DOMAIN store[side].items :
               /\ store[side].items[k].created \in Nat
               /\ \A i \in DOMAIN store[side].items[k].chunks :
                     store[side].items[k].chunks[i] \in 1 .. Asked
        BY <4>1 DEF StoreSound, AssemblySound, Belongs
      <4>4. \A k \in DOMAIN last[side] : last[side][k] \in Nat
        BY <4>1 DEF LastIsKept
      <4> QED
        BY <4>1, <4>2, <4>3, <4>4 DEF StoreSound, Numbered
    <3> QED
      BY <3>1, <3>2 DEF FragType, FragTypes, Packets, FragTypeOK
  <2> QED
    BY <2>1, <2>2, <2>3, <2>4, <2>5, <2>6, <2>7, <2>8, <2>9, <2>10, <2>11, <2>12, <2>13
    DEF PartsTypeOK
<1> QED
  BY <1>1, PartsInvariant, PTL

\* On the way of a packet nothing is lost, doubled or left behind: an item of
\* the runtime goes back to its pool once, a query counts as one credit or one
\* timeout and none is silent, no connection or socket is left to nobody, and a
\* datagram is not sent twice.  Of the queries those are left out that
\* grow older than samples are kept, when the packet timeout is longer than that.
THEOREM PathsAreSound == Spec => []PathsSound
<1>1. PartsInv => PathsSound
  <2> SUFFICES ASSUME PartsInv PROVE PathsSound
    OBVIOUS
  <2>1. ReleasedOnce /\ NoStrays /\ AssociationSound /\ OneStream /\ NewestLast
    BY DEF PartsInv, PipeInv, ConnsInv, AssociationInv, AssociationSound, GenericInv
  <2>2. SamplesSound
    BY DEF PartsInv, SamplesInv, SamplesSound, CountedOnce, Credits, Blames
  <2> QED
    BY <2>1, <2>2 DEF PathsSound
<1> QED
  BY <1>1, PartsInvariant, PTL

\* What is chosen is right: the MTU, which whoever carries the session carries, of a
\* scan that does not hang; the size that a search finds; the resolvers picked for a
\* packet; and the record types, of which none is out of use for good.
THEOREM ChoicesAreRight == Spec => []ChoicesRight
<1>1. PartsInv => ChoicesRight
  <2> SUFFICES ASSUME PartsInv PROVE ChoicesRight
    OBVIOUS
  <2>1. MTUSound /\ PickSound /\ TriedAgain
    BY MTUInvSound, PickInvSound, CarriersInvSound DEF PartsInv
  <2>2. MTUFound
    BY SearchInvFound DEF PartsInv
  <2> QED
    BY <2>1, <2>2 DEF ChoicesRight
<1> QED
  BY <1>1, PartsInvariant, PTL

\* Of the queries of many clients for one question each gets an answer that was
\* resolved for it, and of a fragmented message nothing is assembled of other
\* pieces than its own, or twice while it is remembered.
THEOREM AnswersAreSound == Spec => []AnswersSound
<1>1. PartsInv => AnswersSound
  BY ResolveInvSound, FragInvSound DEF PartsInv, AnswersSound
<1> QED
  BY <1>1, PartsInvariant, PTL
=============================================================================
