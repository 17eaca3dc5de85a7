---------------------------- MODULE UDPAssociation ----------------------------
(****************************************************************************)
(* The server's end of a generic UDP association                            *)
(* (internal/udpserver/udp_association.go): the ARQ's only writer hands it  *)
(* datagrams, each with a target; every target has a socket of its own,     *)
(* found by the name that was asked for (aliases) or by the address it      *)
(* resolves to (endpoints), and a goroutine that reads it.  Sockets are     *)
(* removed when idle, when there are too many, when one fails, and when     *)
(* the stream closes the association, between any two steps of the writer.  *)
(****************************************************************************)
EXTENDS Integers, FiniteSets, Sequences

CONSTANTS
    Names,            \* host and port a datagram names
    Addresses,        \* what they resolve to
    MaxTargets,       \* maxUDPAssociationTargets
    IdleAfter,        \* udpEndpointIdleTimeout
    ReplyRoom,        \* capacity of rx
    MaxEndpoints,     \* bound of the sockets dialed
    LastHour          \* bound of the clock

ASSUME UDPAssociationAssumption ==
    /\ MaxTargets \in Nat \ {0} /\ IdleAfter \in Nat \ {0} /\ ReplyRoom \in Nat \ {0}
    /\ MaxEndpoints \in Nat \ {0} /\ LastHour \in Nat

Endpoints == 1 .. MaxEndpoints

VARIABLES
    bodies,           \* datagrams of the Write in progress that are left
    udpWriter,        \* its step, the address, the socket, and endpointFor's now
    endpoints,        \* the socket of each address, or 0
    aliases,          \* the addresses a name is known by: one or none
    dials,            \* sockets dialed so far
    udpSockets,       \* those that are open
    lastUsed,
    readers,          \* readEndpoint of each: "none", "reads", "removes", "closes", "ended"
    replies,          \* frames in rx
    gauge,            \* the server's genericUDPEndpoints
    ending,           \* Close: "open", "signalled", "closed"
    hour

udpVars == <<bodies, udpWriter, endpoints, aliases, dials, udpSockets, lastUsed,
             readers, replies, gauge, ending, hour>>

Listed == {endpoints[d] : d \in Addresses} \ {0}
Writing(s, on, e, now) == [step |-> s, to |-> on, conn |-> e, now |-> now]
WriterIdle == Writing("idle", {}, 0, 0)

UDPInit ==
    /\ bodies = <<>> /\ udpWriter = WriterIdle
    /\ endpoints = [d \in Addresses |-> 0] /\ aliases = [n \in Names |-> {}]
    /\ dials = 0 /\ udpSockets = {} /\ lastUsed = [e \in Endpoints |-> 0]
    /\ readers = [e \in Endpoints |-> "none"] /\ replies = 0
    /\ gauge = 0 /\ ending = "open" /\ hour = 0

HourPasses ==
    /\ hour < LastHour /\ hour' = hour + 1
    /\ UNCHANGED <<bodies, udpWriter, endpoints, aliases, dials, udpSockets, lastUsed,
                   readers, replies, gauge, ending>>

(* Write: one or two datagrams; an association that is closed takes none    *)
WriteBodies ==
    /\ udpWriter = WriterIdle /\ ending = "open"
    /\ \E ns \in [1 .. 1 -> Names] \cup [1 .. 2 -> Names] : bodies' = ns
    /\ udpWriter' = Writing("asks", {}, 0, hour)
    /\ UNCHANGED <<endpoints, aliases, dials, udpSockets, lastUsed, readers,
                   replies, gauge, ending, hour>>

\* The loop goes on with the next datagram.
NextBody ==
    /\ bodies' = Tail(bodies)
    /\ udpWriter' = IF Len(bodies) = 1 THEN WriterIdle ELSE Writing("asks", {}, 0, hour)

SendsOn(e) == udpWriter' = Writing("sends", {}, e, 0) /\ lastUsed' = [lastUsed EXCEPT ![e] = udpWriter.now]

(* endpointFor, the first lock                                              *)
FindAlias ==
    LET n == Head(bodies) IN
    /\ udpWriter.step = "asks"
    /\ \/ \E d \in aliases[n] : endpoints[d] # 0 /\ SendsOn(endpoints[d]) /\ UNCHANGED aliases
       \/ /\ \A d \in aliases[n] : endpoints[d] = 0
          /\ aliases' = [aliases EXCEPT ![n] = {}]
          /\ udpWriter' = [udpWriter EXCEPT !.step = "resolves"] /\ UNCHANGED lastUsed
    /\ UNCHANGED <<bodies, endpoints, dials, udpSockets, readers, replies, gauge, ending, hour>>

(* resolvePublicUDPAddr, without the lock                                   *)
ResolveName ==
    /\ udpWriter.step = "resolves"
    /\ \/ NextBody
       \/ /\ \E d \in Addresses : udpWriter' = [udpWriter EXCEPT !.step = "finds", !.to = {d}]
          /\ UNCHANGED bodies
    /\ UNCHANGED <<endpoints, aliases, dials, udpSockets, lastUsed, readers,
                   replies, gauge, ending, hour>>

ForgetNames(gone) == aliases' = [n \in Names |-> aliases[n] \ gone]
Idle(e) == udpWriter.now - lastUsed[e] >= IdleAfter
Oldest(es) == {e \in es : \A f \in es : lastUsed[e] <= lastUsed[f]}

EvictsOver(kept) == IF Cardinality(kept) > MaxTargets THEN {{e} : e \in Oldest(kept)} ELSE {{}}

(* The sockets that may go to make room: the oldest, when there are as      *)
(* many as allowed                                                          *)
Evicts(kept) == IF Cardinality(kept) >= MaxTargets THEN {{e} : e \in Oldest(kept)} ELSE {{}}

(* endpointFor, the second lock: the gauge counts the one evicted, and not  *)
(* the idle ones.                                                           *)
FindEndpoint ==
    /\ udpWriter.step = "finds"
    /\ \E d \in udpWriter.to :
       IF endpoints[d] # 0
       THEN /\ SendsOn(endpoints[d]) /\ aliases' = [aliases EXCEPT ![Head(bodies)] = {d}]
            /\ UNCHANGED <<endpoints, udpSockets, gauge>>
       ELSE LET idle == {e \in Listed : Idle(e)} IN
            \E evicted \in Evicts(Listed \ idle) :
              LET gone == idle \cup evicted IN
              /\ endpoints' = [x \in Addresses |-> IF endpoints[x] \in gone THEN 0 ELSE endpoints[x]]
              /\ ForgetNames({x \in Addresses : endpoints[x] \in gone})
              /\ udpSockets' = udpSockets \ gone
              /\ gauge' = gauge - Cardinality(evicted)
              /\ udpWriter' = [udpWriter EXCEPT !.step = "dials"] /\ UNCHANGED lastUsed
    /\ UNCHANGED <<bodies, dials, readers, replies, ending, hour>>

(* DialUDP, without the lock                                                *)
DialEndpoint ==
    /\ udpWriter.step = "dials"
    /\ \/ NextBody /\ UNCHANGED <<dials, udpSockets>>
       \/ /\ dials < MaxEndpoints /\ dials' = dials + 1
          /\ udpSockets' = udpSockets \cup {dials + 1}
          /\ udpWriter' = [udpWriter EXCEPT !.step = "dialed", !.conn = dials + 1]
          /\ UNCHANGED bodies
    /\ UNCHANGED <<endpoints, aliases, lastUsed, readers, replies, gauge, ending, hour>>

(* endpointFor, the third lock: it does not look whether the association    *)
(* was closed meanwhile.  With one writer no other socket can be there.     *)
RegisterEndpoint ==
    LET e == udpWriter.conn IN
    /\ udpWriter.step = "dialed"
    /\ \E d \in udpWriter.to :
          /\ endpoints' = [endpoints EXCEPT ![d] = e]
          /\ aliases' = [aliases EXCEPT ![Head(bodies)] = {d}]
    /\ gauge' = gauge + 1 /\ readers' = [readers EXCEPT ![e] = "reads"]
    /\ SendsOn(e)
    /\ UNCHANGED <<bodies, dials, udpSockets, replies, ending, hour>>

(* Write, the datagram itself: a closed socket fails, an open one may       *)
SendDatagram ==
    LET e == udpWriter.conn IN
    /\ udpWriter.step = "sends"
    /\ \/ e \in udpSockets /\ lastUsed' = [lastUsed EXCEPT ![e] = hour] /\ NextBody
       \/ udpWriter' = [udpWriter EXCEPT !.step = "removes"] /\ UNCHANGED <<bodies, lastUsed>>
    /\ UNCHANGED <<endpoints, aliases, dials, udpSockets, readers, replies, gauge, ending, hour>>

UnlistsAnyway(e) ==
    /\ endpoints' = [x \in Addresses |-> IF endpoints[x] = e THEN 0 ELSE endpoints[x]]
    /\ ForgetNames({x \in Addresses : endpoints[x] = e})
    /\ gauge' = gauge - 1

(* removeEndpoint, its lock: who finds it removed already counts nothing    *)
Unlists(e) ==
    /\ endpoints' = [x \in Addresses |-> IF endpoints[x] = e THEN 0 ELSE endpoints[x]]
    /\ ForgetNames({x \in Addresses : endpoints[x] = e})
    /\ gauge' = IF e \in Listed THEN gauge - 1 ELSE gauge

WriterRemoves ==
    /\ udpWriter.step = "removes" /\ Unlists(udpWriter.conn)
    /\ udpWriter' = [udpWriter EXCEPT !.step = "closes"]
    /\ UNCHANGED <<bodies, dials, udpSockets, lastUsed, readers, replies, ending, hour>>

WriterCloses ==
    /\ udpWriter.step = "closes" /\ udpSockets' = udpSockets \ {udpWriter.conn} /\ NextBody
    /\ UNCHANGED <<endpoints, aliases, dials, lastUsed, readers, replies, gauge, ending, hour>>

(* readEndpoint: a frame waits for room in rx or for the close, which it    *)
(* leaves without closing the socket; the read of a closed socket fails,    *)
(* and that of an open one may.                                             *)
Reply(e) ==
    /\ readers[e] = "reads" /\ e \in udpSockets
    /\ \/ replies < ReplyRoom /\ replies' = replies + 1 /\ UNCHANGED readers
       \/ ending # "open" /\ readers' = [readers EXCEPT ![e] = "ended"] /\ UNCHANGED replies
    /\ UNCHANGED <<bodies, udpWriter, endpoints, aliases, dials, udpSockets, lastUsed, gauge, ending, hour>>

ReadFails(e) ==
    /\ readers[e] = "reads" /\ readers' = [readers EXCEPT ![e] = "removes"]
    /\ UNCHANGED <<bodies, udpWriter, endpoints, aliases, dials, udpSockets, lastUsed, replies, gauge, ending, hour>>

ReaderRemoves(e) ==
    /\ readers[e] = "removes" /\ Unlists(e)
    /\ readers' = [readers EXCEPT ![e] = "closes"]
    /\ UNCHANGED <<bodies, udpWriter, dials, udpSockets, lastUsed, replies, ending, hour>>

ReaderCloses(e) ==
    /\ readers[e] = "closes" /\ readers' = [readers EXCEPT ![e] = "ended"]
    /\ udpSockets' = udpSockets \ {e}
    /\ UNCHANGED <<bodies, udpWriter, endpoints, aliases, dials, lastUsed, replies, gauge, ending, hour>>

(* Read, by the ARQ                                                         *)
TakeReply ==
    /\ replies > 0 /\ replies' = replies - 1
    /\ UNCHANGED <<bodies, udpWriter, endpoints, aliases, dials, udpSockets, lastUsed, readers, gauge, ending, hour>>

(* Close: the channel, then what is listed                                  *)
SignalClose ==
    /\ ending = "open" /\ ending' = "signalled"
    /\ UNCHANGED <<bodies, udpWriter, endpoints, aliases, dials, udpSockets, lastUsed, readers, replies, gauge, hour>>

CloseEndpoints ==
    /\ ending = "signalled" /\ ending' = "closed"
    /\ udpSockets' = udpSockets \ Listed
    /\ endpoints' = [d \in Addresses |-> 0] /\ aliases' = [n \in Names |-> {}]
    /\ gauge' = gauge - Cardinality(Listed)
    /\ UNCHANGED <<bodies, udpWriter, dials, lastUsed, readers, replies, hour>>

UDPNext ==
    \/ HourPasses \/ WriteBodies \/ FindAlias \/ ResolveName \/ FindEndpoint
    \/ DialEndpoint \/ RegisterEndpoint \/ SendDatagram \/ WriterRemoves \/ WriterCloses
    \/ TakeReply \/ SignalClose \/ CloseEndpoints
    \/ \E e \in Endpoints : Reply(e) \/ ReadFails(e) \/ ReaderRemoves(e) \/ ReaderCloses(e)

UDPSpec == UDPInit /\ [][UDPNext]_udpVars
-----------------------------------------------------------------------------
UDPTypeOK ==
    /\ bodies \in Seq(Names) /\ Len(bodies) <= 2
    /\ udpWriter.step \in {"idle", "asks", "resolves", "finds", "dials", "dialed",
                        "sends", "removes", "closes"}
    /\ udpWriter.to \subseteq Addresses /\ udpWriter.conn \in 0 .. dials /\ udpWriter.now \in 0 .. hour
    /\ endpoints \in [Addresses -> 0 .. dials] /\ aliases \in [Names -> SUBSET Addresses]
    /\ dials \in 0 .. MaxEndpoints /\ udpSockets \subseteq 1 .. dials
    /\ lastUsed \in [Endpoints -> 0 .. LastHour]
    /\ readers \in [Endpoints -> {"none", "reads", "removes", "closes", "ended"}]
    /\ replies \in 0 .. ReplyRoom /\ gauge \in Int
    /\ ending \in {"open", "signalled", "closed"} /\ hour \in 0 .. LastHour

\* A socket is in the table at one address at most, is open while it is
\* there, and is read as long as the association is open: no answer of a
\* target is lost for good.  A name known by an address finds a socket there,
\* and the sockets stay within their bound.
TableWorks ==
    /\ \A d1, d2 \in Addresses : endpoints[d1] = endpoints[d2] /\ endpoints[d1] # 0 => d1 = d2
    /\ Listed \subseteq udpSockets /\ Cardinality(Listed) <= MaxTargets
    /\ ending = "open" => \A e \in Listed : readers[e] \in {"reads", "removes"}
    /\ \A n \in Names : \A d \in aliases[n] : endpoints[d] # 0

\* An open socket that is not in the table has just been dialed, or the
\* writer or its reader is about to close it: whichever of expiry, eviction,
\* failure and Close came first, none is left behind by all of them.  (A socket
\* that the writer registers after Close is in the table, and stays there.)
NoneForgotten ==
    \A e \in udpSockets \ Listed :
       \/ udpWriter.conn = e /\ udpWriter.step \in {"dialed", "closes"}
       \/ readers[e] = "closes"

\* The gauge never falls below the sockets in the table, so that it cannot
\* wrap around zero.  (It may stay above: idle sockets are not subtracted.)
GaugeCovers == gauge >= Cardinality(Listed)

AssociationSound == TableWorks /\ NoneForgotten /\ GaugeCovers
=============================================================================
