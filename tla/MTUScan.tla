------------------------------- MODULE MTUScan -------------------------------
(****************************************************************************)
(* The MTU scan of the client (internal/client/mtu.go): workers probe every *)
(* resolver; with Fast Connect the client starts as soon as enough of them  *)
(* are valid and the scan goes on behind the session.  The session runs at  *)
(* one MTU; a resolver below it is kept as a backup.  Each (re)start of the *)
(* session derives the MTU again from the resolvers that are left, while    *)
(* the scan and the rechecks of disabled resolvers change these.            *)
(*                                                                          *)
(* An MTU is a pair, upload and download.  What a probe measures is what    *)
(* the resolver carries (MTUSearch has the search).  A step is a critical   *)
(* section of mtuStateMu or of the balancer.                                *)
(****************************************************************************)
EXTENDS Integers, Sequences, FiniteSets, FiniteSetsExt, Functions

CONSTANTS
    Fleet,              \* c.connections: a sequence of resolvers
    Family6,            \* the resolvers with an IPv6 address
    MTUs,               \* what resolvers carry; NoMTU is rejected by the scan
    ScanWorkers,        \* MTUTestParallelism
    BackgroundWorkers,  \* MTUBackgroundParallelism
    MinValid,           \* fastConnectMinValid
    MinPool,            \* MTUWeightedMinPool
    Chain,              \* number of transports to fall back through
    Modes,              \* settings: [fast, grouping, weighted]
    MaxStarts           \* bound: (re)starts of the session

NoMTU == [up |-> 0, down |-> 0]
Links == {Fleet[i] : i \in DOMAIN Fleet}

ASSUME MTUScanAssumption ==
    /\ Fleet \in Seq(Links) /\ Fleet # <<>> /\ Family6 \subseteq Links
    /\ NoMTU \in MTUs /\ MTUs \ {NoMTU} \subseteq [up : Nat \ {0}, down : Nat \ {0}]
    /\ Modes \subseteq [fast : BOOLEAN, grouping : BOOLEAN, weighted : BOOLEAN]
    /\ ScanWorkers \in Nat \ {0} /\ MinValid \in Nat \ {0} /\ MinPool \in Nat
    /\ BackgroundWorkers \in Int

VARIABLES
    mode,       \* the settings
    cap,        \* what each resolver carries over the transport in use
    transport,  \* its place in the chain
    conn,       \* the connections of the client: [ok, backup, mtu]
    pool,       \* the snapshot of the balancer
    work,       \* "todo", "probing", "accepted", "done" of each
    validCount, \* counters.valid
    released,   \* Fast Connect has released the start (background as well)
    ended,      \* the scan is over
    main,       \* where the main loop is
    synced,     \* syncedUploadMTU and syncedDownloadMTU
    point,      \* the MTU that recomputeMTUOperatingPoint applies next
    fallback,   \* ipv6FallbackActive
    starts,
    check,      \* the recheck under way: [r, at]
    raced       \* history: resolvers judged by an MTU on its way out

scanVars == <<work, validCount, released, ended>>
mtuVars == <<mode, cap, transport, conn, pool, scanVars, main, synced, point,
             fallback, starts, check, raced>>

NoCheck == [r |-> Fleet[1], at |-> "none"]
Unscanned == [ok |-> FALSE, backup |-> FALSE, mtu |-> NoMTU]

MTUInit ==
    /\ mode \in Modes
    /\ cap \in [Links -> MTUs]
    /\ transport = 1
    /\ conn = [r \in Links |-> Unscanned] /\ pool = conn
    /\ work = [r \in Links |-> "todo"] /\ validCount = 0
    /\ released = FALSE /\ ended = FALSE
    /\ main = "scanning" /\ synced = NoMTU /\ point = NoMTU
    /\ fallback = FALSE /\ starts = 0
    /\ check = NoCheck /\ raced = {}
-----------------------------------------------------------------------------
Carries(m, n) == m.up >= n.up /\ m.down >= n.down
\* Mutant: the largest instead of the smallest download.
LowOfUpload(S) ==
    IF S = {} THEN NoMTU
    ELSE [up |-> Min({m.up : m \in S}), down |-> Max({m.down : m \in S})]
Low(S) == IF S = {} THEN NoMTU
          ELSE [up |-> Min({m.up : m \in S}), down |-> Min({m.down : m \in S})]

(* The points to choose from: for the MTU of each resolver, the pool that   *)
(* carries it, and the MTU that the pool carries.                           *)
PoolOf(c, S, r) == {q \in S : Carries(c[q].mtu, c[r].mtu)}
Points(c, S) ==
    LET able == {r \in S : c[r].mtu.up > 0 /\ c[r].mtu.down > 0}
    IN  {[mtu |-> Low({c[q].mtu : q \in PoolOf(c, able, r)}),
          size |-> Cardinality(PoolOf(c, able, r))] : r \in able}

Score(p) == (p.mtu.up + p.mtu.down) * p.size
Throughput(P) ==
    {p \in P : \A q \in P :
        \/ Score(p) > Score(q)
        \/ Score(p) = Score(q) /\ p.mtu.down >= q.mtu.down}
Higher(p, q) ==
    \/ p.mtu.down > q.mtu.down
    \/ p.mtu.down = q.mtu.down /\ p.mtu.up > q.mtu.up
    \/ p.mtu = q.mtu /\ p.size >= q.size
Wide(P) == {p \in P : p.size >= Max({1, MinPool})}

(* selectOperatingPoint; of equals, any.                                    *)
OperatingPoints(c, S) ==
    LET P == Points(c, S)
    IN  IF mode.weighted /\ Wide(P) # {}
        THEN {p \in Wide(P) : \A q \in Wide(P) : Higher(p, q)}
        ELSE Throughput(P)

(* resolverConnectionsForOperatingPoint, of RESOLVER_IP_MODE "auto".        *)
ForPoint(S) ==
    IF fallback THEN S \cap Family6
    ELSE IF S \ Family6 # {} THEN S \ Family6 ELSE S
Primaries(c) == {r \in Links : c[r].ok /\ ~c[r].backup}
Valid(c) == {r \in Links : c[r].ok}
-----------------------------------------------------------------------------
(* runAllMTUProbeWorkersWithLimit: as many jobs as the limit allows.        *)
InFlight == {r \in Links : work[r] \in {"probing", "accepted"}}
Limit ==
    IF released THEN Min({ScanWorkers, Max({1, BackgroundWorkers})}) ELSE ScanWorkers

Dispatch ==
    LET free == Limit - Cardinality(InFlight)
        todo == {i \in DOMAIN Fleet : work[Fleet[i]] = "todo"}
        go   == {i \in todo : Cardinality({j \in todo : j <= i}) <= free}
    IN  /\ go # {}
        /\ work' = [r \in Links |->
               IF \E i \in go : Fleet[i] = r THEN "probing" ELSE work[r]]
        /\ UNCHANGED <<conn, pool, cap, transport, validCount, released, ended,
                       main, synced, point, fallback, starts, check, raced>>

(* runConnectionMTUTest.                                                    *)
ProbeEnds(r) ==
    /\ work[r] = "probing"
    /\ IF cap[r] = NoMTU
       THEN /\ conn' = [conn EXCEPT ![r].ok = FALSE]
            /\ work' = [work EXCEPT ![r] = "done"] /\ UNCHANGED validCount
       ELSE /\ conn' = [conn EXCEPT ![r].ok = TRUE, ![r].mtu = cap[r]]
            /\ work' = [work EXCEPT ![r] = "accepted"]
            /\ validCount' = validCount + 1
    /\ UNCHANGED <<pool, cap, transport, released, ended, main, synced, point,
                   fallback, starts, check, raced>>

(* finalizeMTUSelectionLocked.  The point is acted on only when it leaves   *)
(* somebody out.                                                            *)
Demoted(p) ==
    [r \in Links |-> [conn[r] EXCEPT !.backup =
        @ \/ (conn[r].ok /\ ~Carries(conn[r].mtu, p.mtu))]]
Finalize ==
    LET S == ForPoint(Valid(conn))
        all == Low({conn[r].mtu : r \in S})
    IN  \/ /\ mode.grouping
           /\ \E p \in OperatingPoints(conn, S) :
                 /\ p.size < Cardinality(S) /\ Demoted(p) # conn
                 /\ conn' = Demoted(p) /\ pool' = conn' /\ synced' = p.mtu
        \/ /\ \/ ~mode.grouping
              \/ \E p \in OperatingPoints(conn, S) :
                    p.size >= Cardinality(S) \/ Demoted(p) = conn
           /\ pool' = conn /\ synced' = all /\ UNCHANGED conn

(* onValid of Fast Connect, after the start: a resolver below the session's *)
(* MTU becomes a backup.  Before: enough valid ones release the start.      *)
OnValid(r) ==
    /\ work[r] = "accepted"
    /\ work' = [work EXCEPT ![r] = "done"]
    /\ IF ~mode.fast \/ ~conn[r].ok
       THEN UNCHANGED <<conn, pool, synced, main, released, raced>>
       ELSE IF released
       THEN /\ conn' = [conn EXCEPT ![r].backup = @ \/ ~Carries(conn[r].mtu, synced)]
            /\ pool' = conn'
            /\ raced' = IF main = "apply" THEN raced \cup {r} ELSE raced
            /\ UNCHANGED <<synced, main, released>>
       ELSE IF validCount >= Min({MinValid, Len(Fleet)})
       THEN Finalize /\ released' = TRUE /\ main' = "start" /\ UNCHANGED raced
       ELSE UNCHANGED <<conn, pool, synced, main, released, raced>>
    /\ UNCHANGED <<cap, transport, validCount, ended, point, fallback, starts, check>>

(* All workers are back: what is left of runFastConnectMTUTests, or the     *)
(* rest of runFullMTUTests.  With nothing valid, RunInitialMTUTests scans   *)
(* again over the next transport, or fails.                                 *)
ScanEnds ==
    /\ ~ended /\ \A r \in Links : work[r] = "done"
    /\ IF released
       THEN /\ ended' = TRUE
            /\ UNCHANGED <<conn, pool, synced, main, released, cap, transport, work, validCount>>
       ELSE IF Valid(conn) # {}
       THEN /\ Finalize /\ ended' = TRUE /\ released' = mode.fast /\ main' = "start"
            /\ UNCHANGED <<cap, transport, work, validCount>>
       ELSE IF transport < Chain
       THEN /\ transport' = transport + 1
            /\ cap' \in [Links -> MTUs]
            /\ conn' = [r \in Links |-> Unscanned]
            /\ work' = [r \in Links |-> "todo"] /\ validCount' = 0
            /\ UNCHANGED <<pool, synced, main, released, ended>>
       ELSE /\ ended' = TRUE /\ transport' = 1 /\ main' = "failed"
            /\ UNCHANGED <<conn, pool, synced, released, cap, work, validCount>>
    /\ UNCHANGED <<point, fallback, starts, check, raced>>
-----------------------------------------------------------------------------
(* InitializeSession: recomputeMTUOperatingPoint keeps the MTU, unless none *)
(* carries it, or too few, or a better one (by 1/8) is there.               *)
Sustain == {r \in ForPoint(Valid(pool)) : Carries(pool[r].mtu, synced)}
Adopts(p) ==
    \/ Sustain = {}
    \/ mode.weighted /\ Cardinality(Sustain) < Max({1, MinPool}) /\ p.size > Cardinality(Sustain)
    \/ p.mtu.down > synced.down + synced.down \div 8

Recompute ==
    /\ main = "start" /\ starts < MaxStarts
    /\ starts' = starts + 1
    /\ \/ /\ ~mode.grouping \/ OperatingPoints(pool, ForPoint(Valid(pool))) = {}
          /\ main' = "session" /\ UNCHANGED point
       \/ /\ mode.grouping
          /\ \E p \in OperatingPoints(pool, ForPoint(Valid(pool))) :
                point' = IF Adopts(p) THEN p.mtu ELSE synced
          /\ main' = "reclassify"
    /\ UNCHANGED <<cap, transport, conn, pool, scanVars, synced, fallback, check, raced>>

(* ReclassifyBackups works on the connections, scanned or not.              *)
ReclassifyBackups ==
    /\ main = "reclassify"
    /\ conn' = [r \in Links |-> [conn[r] EXCEPT !.backup =
                   conn[r].ok /\ ~Carries(conn[r].mtu, point)]]
    /\ pool' = conn'
    /\ main' = IF point = synced THEN "session" ELSE "apply"
    /\ UNCHANGED <<cap, transport, scanVars, synced, point, fallback, starts, check, raced>>

ApplySyncedMTU ==
    /\ main = "apply"
    /\ synced' = point /\ main' = "session"
    /\ raced' = IF check.at = "none" THEN raced ELSE raced \cup {check.r}
    /\ UNCHANGED <<cap, transport, conn, pool, scanVars, point, fallback, starts, check>>

(* The session ends, or cannot be set up and the family is rotated.         *)
SessionEnds ==
    /\ main = "session" /\ main' = "start"
    /\ \/ UNCHANGED fallback
       \/ ~fallback /\ Valid(pool) \cap Family6 # {} /\ fallback' = TRUE
       \/ fallback /\ Valid(pool) \ Family6 # {} /\ fallback' = FALSE
    /\ UNCHANGED <<cap, transport, conn, pool, scanVars, synced, point, starts, check, raced>>
-----------------------------------------------------------------------------
(* A resolver is disabled for its timeouts, and comes back after a recheck  *)
(* at the session's MTU; that MTU is then noted as its own.                 *)
Disable(r) ==
    /\ main # "scanning" /\ pool[r].ok /\ Cardinality(Valid(pool)) > 1
    /\ ~(check.at # "none" /\ check.r = r)
    /\ conn' = [conn EXCEPT ![r].ok = FALSE]
    /\ pool' = [pool EXCEPT ![r] = conn'[r]]
    /\ UNCHANGED <<cap, transport, scanVars, main, synced, point, fallback, starts,
                   check, raced>>

RecheckAtMTU(r) ==
    /\ main \notin {"scanning", "failed"} /\ check = NoCheck
    /\ ~pool[r].ok /\ work[r] = "done" /\ Carries(cap[r], synced)
    /\ check' = [r |-> r, at |-> "passed"]
    /\ raced' = raced \ {r}
    /\ UNCHANGED <<cap, transport, conn, pool, scanVars, main, synced, point,
                   fallback, starts>>

ApplyRecheckedMTU ==
    /\ check.at = "passed"
    /\ check' = [check EXCEPT !.at = "applied"]
    /\ conn' = [conn EXCEPT ![check.r].mtu = synced]
    /\ pool' = [pool EXCEPT ![check.r] = conn'[check.r]]
    /\ UNCHANGED <<cap, transport, scanVars, main, synced, point, fallback, starts, raced>>

Promote ==
    /\ check.at = "applied"
    /\ check' = NoCheck
    /\ conn' = [conn EXCEPT ![check.r].ok = TRUE]
    /\ pool' = [pool EXCEPT ![check.r] = conn'[check.r]]
    /\ raced' = IF main = "apply" THEN raced \cup {check.r} ELSE raced
    /\ UNCHANGED <<cap, transport, scanVars, main, synced, point, fallback, starts>>

MTUNext ==
    /\ \/ Dispatch \/ ScanEnds
       \/ Recompute \/ ReclassifyBackups \/ ApplySyncedMTU \/ SessionEnds
       \/ \E r \in Links : ProbeEnds(r) \/ OnValid(r) \/ Disable(r) \/ RecheckAtMTU(r)
       \/ ApplyRecheckedMTU \/ Promote
    /\ UNCHANGED mode

-----------------------------------------------------------------------------
MTUTypeOK ==
    LET Pair == [up : Nat, down : Nat]
        Connected == [ok : BOOLEAN, backup : BOOLEAN, mtu : Pair]
    IN  /\ mode \in Modes /\ cap \in [Links -> MTUs] /\ transport \in Nat
        /\ conn \in [Links -> Connected] /\ pool \in [Links -> Connected]
        /\ work \in [Links -> {"todo", "probing", "accepted", "done"}] /\ validCount \in Nat
        /\ released \in BOOLEAN /\ ended \in BOOLEAN /\ fallback \in BOOLEAN
        /\ main \in {"scanning", "start", "reclassify", "apply", "session", "failed"}
        /\ synced \in Pair /\ point \in Pair /\ starts \in Nat
        /\ check \in [r : Links, at : {"none", "passed", "applied"}] /\ raced \subseteq Links

\* The resolvers that carry the session carry its MTU, through the resolvers
\* that are accepted late, disabled, rechecked and promoted: all but those that
\* were judged while the MTU was about to change, and those that wait for their
\* OnValid, which that of another makes active unjudged.  Without grouping
\* nothing derives the MTU again when IPv6 takes over from IPv4.
Unjudged == raced \cup {r \in Links : work[r] = "accepted"}
MTUCarried ==
    main = "session" =>
        \A r \in ForPoint(Primaries(pool)) \ Unjudged :
            Carries(cap[r], synced) \/ (~mode.grouping /\ r \in Family6)

\* The scan never hangs before its end, released or not.  Somebody is in
\* flight, or there is a job to start and a worker for it, or all are done; and
\* where OnValid and ScanEnds are to finalize a selection, there is one.
ScanGoesOn ==
    ~ended =>
        /\ InFlight = {} => Limit > 0 \/ \A r \in Links : work[r] = "done"
        /\ ~released /\ mode.grouping /\ Valid(conn) # {} =>
               OperatingPoints(conn, ForPoint(Valid(conn))) # {}

MTUSound == MTUCarried /\ ScanGoesOn
=============================================================================
