---------------------------- MODULE SessionStore ----------------------------
(****************************************************************************)
(* The server's table of sessions (internal/udpserver/session.go).  A       *)
(* session has an id from the half of the id space that its wire format can *)
(* express.  A SESSION_INIT that is sent again finds its session by the     *)
(* signature of its payload, for a while; sessions end by a notice of the   *)
(* client or when they are idle, and are remembered as closed for a while.  *)
(*                                                                          *)
(* Every operation but the first half of a close notice is one critical     *)
(* section of the store's mutex.  Sessions are numbered in the order of     *)
(* creation; the cookie of a session is taken to tell it from the others.   *)
(****************************************************************************)
EXTENDS Integers, FiniteSets

CONSTANTS
    Signatures,    \* payloads of SESSION_INIT
    LegacyHigh,    \* maxLegacySessionID: ids 1 .. LegacyHigh are legacy
    NativeHigh,    \* maxServerSessionID: LegacyHigh + 1 .. NativeHigh native
    MaxActive,     \* maxActiveSessions
    ReuseTTL,      \* sessionInitTTL
    IdleTimeout,   \* session idle timeout
    Retention,     \* closed session retention
    MaxSessions,   \* bound: sessions ever created
    MaxNow         \* bound: the clock

ASSUME SessionStoreAssumption ==
    /\ Signatures # {}
    /\ LegacyHigh \in Nat \ {0} /\ NativeHigh \in Nat /\ LegacyHigh < NativeHigh
    /\ MaxActive \in Nat \ {0} /\ MaxSessions \in Nat /\ MaxNow \in Nat
    /\ ReuseTTL \in Nat /\ IdleTimeout \in Nat \ {0} /\ Retention \in Nat \ {0}

NoSession == 0
SessionIDsOf(legacy) == IF legacy THEN 1 .. LegacyHigh ELSE (LegacyHigh + 1) .. NativeHigh
SessionIDs == 1 .. NativeHigh
Sessions == 1 .. MaxSessions

VARIABLES
    made,           \* sessions created so far
    sigOf,          \* Signature of each session
    legacyOf,       \* LegacySessionID
    reuseUntil,     \* reuseUntilUnixNano
    lastActivity,   \* lastActivityUnixNano
    byID,           \* byID, liveByID, activeIDs: slot -> session
    bySig,          \* signature -> slot
    recentClosed,   \* slot -> when the memory of its closed session expires
    activeCount,    \* activeLegacy and activeNative; their sum is activeCount
    nextID,         \* legacyNextID and nativeNextID
    nextReuseSweep, \* nextReuseSweepUnixNano
    now,
    notice,         \* the slot of a close notice that has been looked up, or 0
    robbed          \* history: sessions whose signature was deleted for another

sessionVars == <<made, sigOf, legacyOf, reuseUntil, lastActivity, byID, bySig,
                 recentClosed, activeCount, nextID, nextReuseSweep, now,
                 notice, robbed>>

SessionInit ==
    /\ made = 0 /\ now = 1
    /\ sigOf = [r \in Sessions |-> CHOOSE s \in Signatures : TRUE]
    /\ legacyOf = [r \in Sessions |-> FALSE]
    /\ reuseUntil = [r \in Sessions |-> 0]
    /\ lastActivity = [r \in Sessions |-> 0]
    /\ byID = [i \in SessionIDs |-> NoSession]
    /\ bySig = [s \in Signatures |-> 0]
    /\ recentClosed = [i \in SessionIDs |-> 0]
    /\ activeCount = [f \in BOOLEAN |-> 0]
    /\ nextID = [f \in BOOLEAN |-> IF f THEN 1 ELSE LegacyHigh + 1]
    /\ nextReuseSweep = 0
    /\ notice = 0
    /\ robbed = {}
-----------------------------------------------------------------------------
(* expireReuseLocked, which every findOrCreate and Cleanup begins with.  The*)
(* next sweep is due at the earliest deadline left, 0 when there is none.   *)
SweepDue == nextReuseSweep = 0 \/ now >= nextReuseSweep

Reusable(s) ==
    /\ bySig[s] # 0 /\ byID[bySig[s]] # NoSession
    /\ now <= reuseUntil[byID[bySig[s]]]

SweptSig == IF SweepDue THEN [s \in Signatures |-> IF Reusable(s) THEN bySig[s] ELSE 0]
                        ELSE bySig

Deadlines(sigs) == {reuseUntil[byID[sigs[s]]] : s \in {t \in Signatures : sigs[t] # 0}}
Earliest(S) == IF S = {} THEN 0 ELSE CHOOSE t \in S : \A u \in S : t <= u
SweptAt ==
    IF \A s \in Signatures : bySig[s] = 0 THEN 0
    ELSE IF SweepDue THEN Earliest(Deadlines(SweptSig)) ELSE nextReuseSweep

(* allocateSlotLocked: next fit in the range of the format.                 *)
Free(legacy) == {i \in SessionIDsOf(legacy) : byID[i] = NoSession}
MinSlot(S) == CHOOSE i \in S : \A j \in S : i <= j
AllocateSlot(legacy) ==
    LET above == {i \in Free(legacy) : i >= nextID[legacy]}
    IN  IF activeCount[TRUE] + activeCount[FALSE] >= MaxActive \/ Free(legacy) = {} THEN 0
        ELSE MinSlot(IF above # {} THEN above ELSE Free(legacy))
\* Mutant: the range of the format does not wrap.
NextSessionIDUnwrapped(slot, legacy) == slot + 1
NextSessionID(slot, legacy) ==
    IF slot + 1 \in SessionIDsOf(legacy) THEN slot + 1
    ELSE IF legacy THEN 1 ELSE LegacyHigh + 1

(* findOrCreate.  A mapping that cannot be reused is deleted, even when the *)
(* table then turns out to be full.                                         *)
Reuses(s, legacy) ==
    LET r == byID[SweptSig[s]]
    IN  /\ SweptSig[s] # 0 /\ r # NoSession
        /\ now <= reuseUntil[r] /\ legacyOf[r] = legacy

FindExisting(s, legacy) ==
    /\ Reuses(s, legacy)
    /\ lastActivity' = [lastActivity EXCEPT ![byID[SweptSig[s]]] = now]
    /\ bySig' = SweptSig /\ nextReuseSweep' = SweptAt
    /\ UNCHANGED <<made, sigOf, legacyOf, reuseUntil, byID, recentClosed,
                   activeCount, nextID, now, notice, robbed>>

TableFull(s, legacy) ==
    /\ ~Reuses(s, legacy) /\ AllocateSlot(legacy) = 0
    /\ bySig' = [SweptSig EXCEPT ![s] = 0] /\ nextReuseSweep' = SweptAt
    /\ robbed' = IF SweptSig[s] = 0 THEN robbed ELSE robbed \cup {byID[SweptSig[s]]}
    /\ UNCHANGED <<made, sigOf, legacyOf, reuseUntil, lastActivity, byID,
                   recentClosed, activeCount, nextID, now, notice>>

CreateSession(s, legacy) ==
    LET i == AllocateSlot(legacy)
        r == made + 1
    IN  /\ ~Reuses(s, legacy) /\ i # 0 /\ r \in Sessions
        /\ made' = r
        /\ sigOf' = [sigOf EXCEPT ![r] = s]
        /\ legacyOf' = [legacyOf EXCEPT ![r] = legacy]
        /\ reuseUntil' = [reuseUntil EXCEPT ![r] = now + ReuseTTL]
        /\ lastActivity' = [lastActivity EXCEPT ![r] = now]
        /\ byID' = [byID EXCEPT ![i] = r]
        /\ activeCount' = [activeCount EXCEPT ![legacy] = @ + 1]
        /\ nextID' = [nextID EXCEPT ![legacy] = NextSessionID(i, legacy)]
        /\ bySig' = [SweptSig EXCEPT ![s] = i]
        /\ nextReuseSweep' = IF SweptAt = 0 THEN now + ReuseTTL ELSE SweptAt
        /\ recentClosed' = [recentClosed EXCEPT ![i] = 0]
        /\ UNCHANGED <<now, notice, robbed>>

FindOrCreate(s, legacy) ==
    FindExisting(s, legacy) \/ TableFull(s, legacy) \/ CreateSession(s, legacy)
-----------------------------------------------------------------------------
(* A packet with the right cookie touches its session.                      *)
ValidateAndTouch(i) ==
    /\ byID[i] # NoSession /\ lastActivity[byID[i]] # now
    /\ lastActivity' = [lastActivity EXCEPT ![byID[i]] = now]
    /\ UNCHANGED <<made, sigOf, legacyOf, reuseUntil, byID, bySig, recentClosed,
                   activeCount, nextID, nextReuseSweep, now, notice, robbed>>

(* Sessions leave the table: their signatures are deleted, whatever session *)
(* these name by now.                                                       *)
\* Mutant: the signatures stay.
DropKeepsSigs(slots, sigs) ==
    LET Of(f) == {i \in slots : legacyOf[byID[i]] = f}
    IN  /\ bySig' = sigs
        /\ byID' = [i \in SessionIDs |-> IF i \in slots THEN NoSession ELSE byID[i]]
        /\ activeCount' = [f \in BOOLEAN |-> activeCount[f] - Cardinality(Of(f))]
        /\ UNCHANGED robbed
Drop(slots, sigs) ==
    LET gone == {byID[i] : i \in slots}
        hit  == {s \in Signatures : \E r \in gone : sigOf[r] = s}
        Of(f) == {i \in slots : legacyOf[byID[i]] = f}
    IN  /\ bySig' = [s \in Signatures |-> IF s \in hit THEN 0 ELSE sigs[s]]
        /\ byID' = [i \in SessionIDs |-> IF i \in slots THEN NoSession ELSE byID[i]]
        /\ activeCount' = [f \in BOOLEAN |-> activeCount[f] - Cardinality(Of(f))]
        /\ robbed' = robbed \cup
               ({byID[sigs[s]] : s \in {t \in hit : sigs[t] # 0}} \ gone)

(* handleSessionCloseNotice looks the session up and compares the cookie in *)
(* one step, and closes whatever has the id in the next.                    *)
LookupNotice(i) ==
    /\ notice = 0 /\ byID[i] # NoSession
    /\ notice' = i
    /\ UNCHANGED <<made, sigOf, legacyOf, reuseUntil, lastActivity, byID, bySig,
                   recentClosed, activeCount, nextID, nextReuseSweep, now, robbed>>

Close ==
    /\ notice # 0
    /\ notice' = 0
    /\ IF byID[notice] = NoSession
       THEN UNCHANGED <<byID, bySig, activeCount, recentClosed, robbed>>
       ELSE /\ Drop({notice}, bySig)
            /\ recentClosed' = [recentClosed EXCEPT ![notice] = now + Retention]
    /\ UNCHANGED <<made, sigOf, legacyOf, reuseUntil, lastActivity, nextID,
                   nextReuseSweep, now>>

(* Cleanup, from the loop of the server.                                    *)
IdleSlots == {i \in SessionIDs : byID[i] # NoSession /\ now - lastActivity[byID[i]] >= IdleTimeout}

Cleanup ==
    /\ Drop(IdleSlots, SweptSig)
    /\ nextReuseSweep' = SweptAt
    /\ recentClosed' = [i \in SessionIDs |->
           IF i \in IdleSlots THEN now + Retention
           ELSE IF now >= recentClosed[i] THEN 0 ELSE recentClosed[i]]
    /\ UNCHANGED <<made, sigOf, legacyOf, reuseUntil, lastActivity, nextID, now, notice>>

Tick ==
    /\ now < MaxNow /\ now' = now + 1
    /\ UNCHANGED <<made, sigOf, legacyOf, reuseUntil, lastActivity, byID, bySig,
                   recentClosed, activeCount, nextID, nextReuseSweep, notice, robbed>>

SessionNext ==
    \/ \E s \in Signatures, legacy \in BOOLEAN : FindOrCreate(s, legacy)
    \/ \E i \in SessionIDs : ValidateAndTouch(i) \/ LookupNotice(i)
    \/ Close \/ Cleanup \/ Tick

SessionSpec == SessionInit /\ [][SessionNext]_sessionVars
-----------------------------------------------------------------------------
SessionTypeOK ==
    /\ made \in 0 .. MaxSessions /\ now \in Nat
    /\ sigOf \in [Sessions -> Signatures] /\ legacyOf \in [Sessions -> BOOLEAN]
    /\ reuseUntil \in [Sessions -> Nat] /\ lastActivity \in [Sessions -> Nat]
    /\ byID \in [SessionIDs -> 0 .. made] /\ bySig \in [Signatures -> SessionIDs \cup {0}]
    /\ recentClosed \in [SessionIDs -> Nat] /\ activeCount \in [BOOLEAN -> Int]
    /\ nextID \in [BOOLEAN -> SessionIDs] /\ nextReuseSweep \in Nat
    /\ notice \in SessionIDs \cup {0}

\* A retransmitted SESSION_INIT is answered with the session of its own
\* payload: a signature that is known names a slot that is taken, by a session
\* made for that signature, though slots are freed and taken again and both
\* formats share the index.
SignatureNamesItsSession ==
    \A s \in Signatures :
        bySig[s] # 0 => byID[bySig[s]] # NoSession /\ sigOf[byID[bySig[s]]] = s

\* and, the other way round, it finds that session as long as the session is
\* alive and may be reused, so that a lost answer does not cost a second
\* session; but for a session whose signature was deleted when an older one
\* of the same signature ended, or for one that the full table then refused.
InitFindsItsSession ==
    \A i \in SessionIDs :
        LET r == byID[i]
        IN  /\ r # NoSession /\ now <= reuseUntil[r] /\ r \notin robbed
            /\ \A q \in (r + 1) .. made : sigOf[q] # sigOf[r]
            => bySig[sigOf[r]] = i

\* SessionIDs, formats, counters and the memory of closed sessions agree: a session
\* has an id its format can express, no two slots hold the same session, the
\* counters that limit the table are what it holds, and the id of a live
\* session is not remembered as closed (its packets would be refused).
TableConsistent ==
    /\ \A i \in SessionIDs : byID[i] # NoSession =>
           i \in SessionIDsOf(legacyOf[byID[i]]) /\ recentClosed[i] = 0
    /\ \A i, j \in SessionIDs : byID[i] = byID[j] /\ byID[i] # NoSession => i = j
    /\ \A f \in BOOLEAN :
           activeCount[f] = Cardinality({i \in SessionIDsOf(f) : byID[i] # NoSession})
    /\ activeCount[TRUE] + activeCount[FALSE] <= MaxActive

SessionTable == SignatureNamesItsSession /\ InitFindsItsSession /\ TableConsistent
=============================================================================
