------------------------------ MODULE MCParts ------------------------------
(* Components without a loop that must get somewhere, side by side: in each *)
(* behaviour one of them moves.  The resolver pool is run in two scenarios: *)
(* with the background scan, and with a stream that caches its plan.        *)
EXTENDS SessionStore, ResolverPool, MTUScan, MTUSearch, BalancerPick,
        DNSCache, DNSResolve, Reassembly,
        SendPipeline, QuerySamples, StreamConns, CarrierRotation,
        UDPAssociation, GenericUDP

CONSTANTS ra, rb, rc, rd

VARIABLE part

Settings == {[family |-> "dual", weighted |-> FALSE],
             [family |-> "auto", weighted |-> TRUE]}

MTUOf(u, d) == [up |-> u, down |-> d]
ScanOrder == <<ra, rb, rc, rd>>
CarriedMTUs == {NoMTU, MTUOf(1, 1), MTUOf(2, 2)}
ModeOf(f, g, w) == [fast |-> f, grouping |-> g, weighted |-> w]
ScanModes == {ModeOf(TRUE, FALSE, TRUE), ModeOf(FALSE, TRUE, FALSE),
              ModeOf(TRUE, TRUE, TRUE)}
ProbeBudgets == {[samples |-> n, allowed |-> k] : n \in {2, 3}, k \in {1, 2}}
                    \cup {[samples |-> 1, allowed |-> 0]}
RankOf == <<2, 1, 3>>
AllStrategies == {"roundRobin", "random", "weighted", "highestMTU", "leastLoss"}

CutsOf == {<<2, 2>>, <<2, 3>>, <<1, 2>>}

\* With the second, samples grow too old before they time out.
TimingsOf == {[packet |-> 1, window |-> 2], [packet |-> 5, window |-> 0]}

RTTOf == <<1, 5>>

queryVars == <<pipeVars, sampleVars, connectionVars, carrierVars>>
associationVars == <<udpVars, genericVars>>
tableVars == <<sessionVars, poolVars>>
pathVars == <<mtuVars, searchVars, pickVars>>
dnsVars == <<cacheVars, resolveVars, fragVars>>
restVars == <<dnsVars, queryVars, associationVars>>
partsVars == <<part, tableVars, pathVars, restVars>>

Parts == {"sessions", "pool: scan", "pool: plan", "mtu", "search", "pick",
          "dns: cache", "dns: resolve", "dns: fragments",
          "pipeline", "samples", "dialing", "carriers", "udp: server", "udp: client"}

Init ==
    /\ part \in Parts
    /\ SessionInit /\ PoolInit /\ MTUInit /\ SearchInit /\ PickInit
    /\ part # "pool: scan" => unscanned = {}
    /\ part # "pool: plan" => policy.weighted
    /\ part \notin {"pool: scan", "pool: plan"} => backup[rc]
    /\ part # "mtu" => mode = ModeOf(TRUE, TRUE, TRUE)
    /\ IF part = "mtu" THEN (cap[rd] = MTUOf(2, 2) /\ cap[ra] = MTUOf(1, 1) /\ cap[rb] = cap[ra]) \/ cap = [r \in Links |-> NoMTU]
       ELSE cap = [r \in Links |-> NoMTU]
    /\ part # "search" => budget.samples = 1
    /\ part # "pick" => strategy = "random"
    /\ CacheInit /\ ResolveInit /\ FragInit
    /\ part # "dns: resolve" => fast = {"u"}
    /\ part # "dns: fragments" => cut = <<2, 2>>
    /\ PipeInit /\ SamplesInit /\ ConnsInit /\ CarriersInit
    /\ UDPInit /\ GenericInit
    /\ idOf[3] = 3 /\ (part # "samples" => idOf[2] = 2 /\ timing.packet = 1)

\* One of the payloads is of the native format.
SessionMove ==
    /\ SessionNext
    /\ \A r \in Sessions : sigOf'[r] = "t" => ~legacyOf'[r]

PoolMove ==
    /\ PoolNext
    /\ IF part = "pool: scan"
       THEN choice' = {} /\ events'[rc] = 0 /\ rc \notin unscanned
       ELSE probes'[2] = NoProbe /\ (loop.at \in {"idle", "invalid"} \/ UNCHANGED events)

MTUMove ==
    /\ MTUNext
    /\ cap' # cap => \A r \in {ra, rb, rd} : cap'[r] = MTUOf(1, 1)
    /\ \A r \in {ra, rb} : conn[r].ok => conn'[r].ok
    /\ transport' = 2 => starts' < 2 /\ check' = check

\* One of the resolvers stays, and only with least loss they are measured.
PickMove ==
    /\ PickNext
    /\ sends'[1] = 0 /\ answers'[1] = 0 /\ 1 \in members'
    /\ IF strategy = "leastLoss" THEN rrCounter' <= 2 /\ 3 \in members'
       ELSE members' # members \/ UNCHANGED <<sends, answers>>

Answered(recs) == {k \in DOMAIN recs : recs[k].status = "ready"}

\* After the restart no time passes, and two keys are asked for.
CacheMove ==
    /\ CacheNext
    /\ Answered(items') \subseteq {"k1", "k2"}
    /\ stops' = 1 => "k3" \notin DOMAIN items' /\ clock' = clock

\* What is known of the speed of the servers does not change.
ResolveMove == ResolveNext /\ fast' = fast

\* The third query fills the table, or the second one has the id of the first.
SamplesMove ==
    /\ SamplesNext
    /\ idOf[2] = 1 => sending'[3] = "new"
    /\ claim'[3] = "none"
    /\ \A q \in Sends : sending'[q] # "new" => sentAt'[q] < q

QueryMove ==
    \/ /\ part = "pipeline" /\ PipeNext
       /\ UNCHANGED <<sampleVars, connectionVars, carrierVars>>
    \/ /\ part = "samples" /\ SamplesMove
       /\ UNCHANGED <<pipeVars, connectionVars, carrierVars>>
    \/ /\ part = "dialing" /\ ConnsNext
       /\ UNCHANGED <<pipeVars, sampleVars, carrierVars>>
    \/ /\ part = "carriers" /\ CarriersNext
       /\ UNCHANGED <<pipeVars, sampleVars, connectionVars>>

Next ==
    /\ \/ /\ part = "sessions" /\ SessionMove
          /\ UNCHANGED <<poolVars, pathVars, restVars>>
       \/ /\ part \in {"pool: scan", "pool: plan"} /\ PoolMove
          /\ UNCHANGED <<sessionVars, pathVars, restVars>>
       \/ /\ part = "mtu" /\ MTUMove
          /\ UNCHANGED <<tableVars, searchVars, pickVars, restVars>>
       \/ /\ part = "search" /\ SearchNext
          /\ UNCHANGED <<tableVars, mtuVars, pickVars, restVars>>
       \/ /\ part = "pick" /\ PickMove
          /\ UNCHANGED <<tableVars, mtuVars, searchVars, restVars>>
       \/ /\ part = "dns: cache" /\ CacheMove
          /\ UNCHANGED <<tableVars, pathVars, resolveVars, fragVars, queryVars, associationVars>>
       \/ /\ part = "dns: resolve" /\ ResolveMove
          /\ UNCHANGED <<tableVars, pathVars, cacheVars, fragVars, queryVars, associationVars>>
       \/ /\ part = "dns: fragments" /\ FragNext
          /\ UNCHANGED <<tableVars, pathVars, cacheVars, resolveVars, queryVars, associationVars>>
       \/ /\ QueryMove
          /\ UNCHANGED <<tableVars, pathVars, dnsVars, associationVars>>
       \/ /\ part = "udp: server" /\ UDPNext
          /\ UNCHANGED <<tableVars, pathVars, dnsVars, queryVars, genericVars>>
       \/ /\ part = "udp: client" /\ GenericNext
          /\ UNCHANGED <<tableVars, pathVars, dnsVars, queryVars, udpVars>>
    /\ UNCHANGED part

Spec == Init /\ [][Next]_partsVars

PartsTypeOK ==
    /\ SessionTypeOK /\ PoolTypeOK /\ MTUTypeOK /\ SearchTypeOK /\ PickTypeOK
    /\ CacheTypeOK /\ ResolveTypeOK /\ FragTypeOK
    /\ PipeTypeOK /\ SamplesTypeOK /\ ConnsTypeOK /\ CarriersTypeOK
    /\ UDPTypeOK /\ GenericTypeOK
\* On the way of a packet nothing is lost, doubled or left behind.
PathsSound ==
    /\ ReleasedOnce /\ SamplesSound /\ NoStrays
    /\ AssociationSound /\ OneStream /\ NewestLast
\* The MTU, the resolvers and the record types that are chosen.
ChoicesRight == MTUSound /\ MTUFound /\ PickSound /\ TriedAgain
\* DNS queries, past the cache: who is answered, and with what.
AnswersSound == ResolveSound /\ FragmentsSound
=============================================================================
