# XDNS: verification project

TLA+ models, TLC runs and TLAPS proofs about XDNS, a tunnel that carries
TCP streams, SOCKS5 traffic and DNS lookups inside DNS queries and answers.
Source paths are relative to the repository; `arq.go` is
`src/internal/arq/arq.go`, other files are in `src/internal/client` or
`src/internal/udpserver` unless a directory is given.

- [The system](#the-system): parts, state, interaction
- [Files](#files) and [how to read a module](#how-to-read-a-module)
- [The stream](#the-stream): ARQ data path, closing, dispatcher
- [The server](#the-server), [the client](#the-client), [both ends](#messages-of-both-ends)
- [Runs](#runs), [fairness](#fairness), [findings](#findings),
  [behaviours worth knowing](#behaviours-worth-knowing)
- [Proofs](#proofs), [only model-checked](#only-model-checked), [mutants](#mutants)
- [Not modelled](#not-modelled), [plan](#plan)

## The system

| component | where | state | what makes it hard | module |
|---|---|---|---|---|
| ARQ data path | `arq.go` | send and receive buffers, wire counters | five goroutines per end, a lock dropped between the halves of an operation, a lossy network, 16-bit numbers | `ARQData`, `ReliableStream` |
| ARQ control and close | `arq.go` | close and reset flags, deferred terminal packet, waits for ACKs | two peers and two sockets that close in any order, lost ACKs, timers | `ARQClose` |
| TX queue | `mlq/mlq.go`, `stream_client.go`, `stream_server.go` | priority lists and a census | pushed and popped by different goroutines | `Dispatcher`, `ARQData`, `ServerAnswers` |
| client dispatcher | `dispatcher.go` | round-robin cursor, cached entries | queues change between peek and pop | `Dispatcher` |
| server sessions | `session.go`, `server_session.go` | sessions by id and by init signature, recently closed ids | repeated init, id reuse, cleanup | `SessionStore` |
| server streams | `session.go`, `stream_server.go`, `server_postsession.go` | stream table, recently closed ids, gauge | a dial that outlives its stream, three parties that remove it, id reuse | `ServerStreams` |
| deferred work | `deferred_session.go`, `server_deferred.go` | queues of workers, lanes, tracked keys | cancellation and removal racing the workers | `DeferredWork` |
| server answers | `server_session.go`, `session.go` | turn of the round robin, packed block | several workers answer one session | `ServerAnswers` |
| server ingress | `server_runtime.go`, `server.go` | two lanes | lengths read before a send, shutdown | `IngressLanes` |
| server limits | `server_conn_limit.go`, `server_doh_limit.go`, `invalid_cookie_tracker.go` | counters, buckets, windows | slots given back once on every path | `ConnLimits`, `DoHGate`, `FailureWindows` |
| client session | `session.go`, `client.go`, `async_runtime.go`, `runtime_recovery.go` | session, init in flight, restart request | late answers, several who ask for a restart | `ClientSession` |
| resolvers | `balancer.go`, `resolver_health.go`, `resolver_stats.go`, `stream_resolver.go` | valid and disabled resolvers, samples, plans | answers, timeouts, rechecks and a background scan at once | `ResolverPool`, `BalancerPick`, `QuerySamples` |
| MTU discovery | `mtu.go`, `mtu_cluster.go` | measured MTUs, operating point | the scan goes on behind the session | `MTUScan`, `MTUSearch` |
| carriers | `carrier_selector.go`, `tcp_data.go` | rotation of record types, connections | stale choices, two dials for one key | `CarrierRotation`, `StreamConns` |
| client runtime | `async_runtime.go` | queues and pools | stopping with packets in everybody's hands | `SendPipeline` |
| local connections | `socks_manager.go`, `tcp_stream.go`, `stream_admission.go` | streams by id, status, pending replies | a verdict that comes several times, restarts | `LocalStreams` |
| UDP associations | `generic_udp_fallback.go`, `udp_association.go` | sockets per target, the current stream | expiry, eviction, failure and close race | `GenericUDP`, `UDPAssociation` |
| DNS lookups | `dns_tunnel.go`, `inflight/manager.go`, `dnscache/store.go` | entries in flight, cache, its file | concurrent equal questions, timeouts, a stop during a save | `DNSResolve`, `DNSCache` |
| fragments | `fragmentstore/store.go` | partial and completed messages | repeated and re-cut fragments | `Reassembly` |
| FEC | `fec/*.go`, `stream_server.go` | blocks, shards, loss windows | toggled under the worker that holds a packet, eviction | `FECStream` |

How they interact. At each end a stream is an `ARQ` with a TX queue; the local
socket is read by `ioLoop` and written by `writeLoop`. On the client the
dispatcher takes packets round robin from the queues of all streams and hands
them to encoders and writers, which put them in DNS queries to the resolvers the
balancer chose. The server takes packets out of the queries, finds session and
stream, gives them to the stream's `ARQ` or to the deferred workers, and answers
each query with a packet taken from the session's queues. All that a peer learns
it learns from such messages; of all state only the DNS cache and the resolver
cache are written to a file.

What makes each part correct, in a line: bytes come out of a stream as they went
in, in order, or the stream is reset; closing never takes a part for the whole,
and both ends finish; every queued packet is sent, in turn, under its own
stream; an id or a signature never leads to another session; what is set up is
torn down by somebody, once; each lookup gets its own answer; what is admitted is
released, once; what was measured is what is used.

## Files

| files | content |
|---|---|
| the modules of the table above | one component each |
| `ReliableStream.tla` | what the ARQ data path promises: its abstract specification |
| `Queues.tla` | what a loop leaves of a queue when it keeps some elements in order, without recursion; used by `Dispatcher`, `DeferredWork`, `DNSCache`, `ServerAnswers`, `BalancerPick`, `CarrierRotation` |
| `QueuesProofs.tla` | lemmas about these operators and about the least of a set of numbers, which the other proofs share |
| the other `*Proofs.tla` | theorems with TLAPS proofs about the module they are named after (`StreamsProofs`: the components of `MCStreams` and `MCStreams` itself; `TunnelProofs`, `TunnelCoreProofs`: `MCTunnel`; `ClientPartsProofs`, `PartsProofs`: the components of `MCParts` and `MCParts` itself) |
| `MCARQData`, `MCARQClose`, `MCDispatcher` | instances of one component |
| `MCStreams`, `MCTunnel`, `MCParts` | components side by side (see Runs) |
| `*.cfg` | one per run |
| `PROJECT.json` | components, runs, mutants, map to the source, findings, hazards, theorems |

### How to read a module

A module is the state of one component, `...Init`, one action per critical
section, handler or step, `...Next`, its properties last. A step is what the code does
under one hold of a lock, or up to the next point where another goroutine can come
between; a local variable that survives such a point is part of the state. What
the code computes from the clock is either any value it can have (a timer may
fire at any time once armed), or a counter of ticks where the property is about
time. History variables (said so where they are declared) record what a property
needs and the code does not keep.

An operator after the comment `Mutant` is a wrong variant of the one
that follows it; no specification uses it. See [Mutants](#mutants).

## The stream

### ARQData

One direction of one stream: the sending `ARQ` with its TX queue and dispatcher,
the network, the receiving `ARQ`.

| code | actions |
|---|---|
| `ioLoop` (window wait; read, number, buffer, or go back; then queue) | `BeginRead`, `Read` or `ReadTimeout`, `FirstPush` |
| `PushTXPacket`, `RemoveQueuedData` (`stream_client.go`) | `PushTXPacket(p)`, `AckCleanup` |
| dispatcher pop; `NoteTXPacketDequeued` and send | `Pop`, `Transmit` |
| `checkRetransmits`: collect; queue; update entry; give up | `RtxScan`, `RtxPush`, `RtxMark`, `RetryExceeded` |
| `ReceiveAck`, `HandleDataNack` | `ReceiveAck`, `NackTake`, `NackPush` |
| `ReceiveData`, `rxLoop` / `processReceivedDataBatch` | `ReceiveData`, `ProcessReceived` |
| `maybeSendDataNacks`: base; scan | `NackBase`, `NackScan` |
| `writeLoop`: take the run; write it | `TakeReady`, `Write` |

A chunk is what one read returned and is named by its place in the stream. The
code sees only its wire number, `chunk % SeqMod`, as `uint16` does; packets carry
the chunk as payload, so that a mix-up of numbers shows. The network is the set
of messages sent: one may arrive again and again, in any order, or never. Time
is abstract: any dispatched entry may be due at a scan.

The bound `Lag` names what the code takes for granted: a 16-bit number can be
told old from new only when nothing of a chunk is still about after `Lag` more
chunks were read. `Read` enforces it: datagrams older than that are gone.
The assumption `WindowSize + 1 + SendLimit <= Lag <= SeqMod / 2` is weaker than
what the configuration enforces: windows of at most 20000 chunks at the client
and 6000 at the server, each sender limited to 0.8 of its own window, which makes
22001 upwards and 24801 downwards of the 32768 allowed.

Properties: `InOrder` (the application gets the chunks in order, none missing,
none twice, across wraps), `NoChunkLost` (an ACK frees only what arrived),
`WindowRespected`, `SpanBounded` (the sender is never more than both windows
ahead), `ImplementsStream` (refinement of `ReliableStream`), and under fairness
`SettlesUnlessStranded` and `DeliversUnlessStranded`: each chunk is acknowledged,
and delivered, or the stream is reset, unless an entry is stranded for ever.

The refinement maps `sent` to `read`, `received` to `delivered`, `given_up` to
`reset`, `taking` to `reading`: `BeginRead` is a `Take`, `Read` a `Send`, `ReadTimeout` a
`Withdraw`, `Write` a `Deliver`, `RetryExceeded` a `GiveUp`, the rest stutters. `ioLoop` looks whether reading was stopped before
it waits for the socket (`arq.go:962`), so the read in flight when the stream is
reset still numbers and queues its chunk, and the stream accepts at most this one after
it was given up.

### ARQClose

The two `ARQ`s of a stream with their sockets, from open to `finalizeClose`. The
variable `arq` is a record per end with the fields of `ARQ` that closing uses.
Actions are the critical sections of `ioLoop` (`IoCheck`, `ReadChunk`,
`ReadTimeout`, `ReadEOF`, `ReadError`), `writeLoop` (`WriterTake`,
`WriterCheckClose`, `WriteSucceeds`, `WriteFails`), `rxLoop`, the inbound handlers
and the timers of `retransmitLoop` (`DrainTimeout`, `AckWaitTimeout`,
`CloseReadGrace`, `InactivityTimeout`, `ControlExpires`, `DataExpires`). What the
handlers call on the way (deferring or emitting a terminal packet, settling the
drain, trying to finalize) is composed of operators on the record, named after
the functions.

Packets are not variables. What an end has sent may arrive at any later time,
any number of times, or never, so that the sender's state says what can arrive:
CLOSE_READ once `closeReadSent`, chunk n once `n <= read`, an ACK once the packet
was answered. A setting says how much data there is, whose socket may fail, which
timers may fire, and whether time or the network can be relied on.

Properties: `ServerLastWord` (the server's CLOSE_READ leaves when all data before
it is acknowledged, and none follows), `DownloadComplete` (the client's socket is half
closed only after all of the download was written, unless CLOSE_READ overtook
the writer: see the finding `close_cut`), `HandshakeDelivered` (an end that
finished the handshake with a sound socket has delivered everything),
`EveryEndCloses` (time alone brings each end to `finalizeClose`, whatever half of
a close it hangs in) and `HandshakeCompletes` (without any timer, both ends finish
once the applications have ended their data). The first three exempt resets.
`HandshakeDelivered` also exempts the server of a client whose writer broke, for
a reason given under [behaviours](#behaviours-worth-knowing).

Assumed: the local connection is TCP and has `CloseWrite`; chunk numbers do not
wrap here. Loss and recovery of chunks is the subject of `ARQData`.

### Dispatcher

The client's dispatcher goroutine and everything that changes its queues under
it. A queue is the sequence of its packets in pop order (`mlq.go` keeps one list
per priority; `Insert` puts a packet behind all of its own and of higher
priority). The loop of `asyncStreamDispatcher` is cut at each look at shared
state: `LoadVersion`, `CopyStreams`, `Begin` (entries and the bisection for the
resume point), `Scan` (one queue per step), `Resolve` or `NoResolver`, `PopItem`,
`PackAndSend`, `WakeUp` and `IdlePoll`. Between any two of them streams are added
and removed (`AddStream`, `BumpAdded`, `UnmapStream`, `CleanupStream`), packets
pushed and removed, resolvers lost and found.

Properties: `NoLostWakeup` (asleep with work queued only if the wake-up token is
there), `OwnStream` (every block, packed or not, goes out under the stream it was
queued for; only packets of the control stream are excepted, and only where PINGs
are offered, for the reason under [behaviours](#behaviours-worth-knowing)), `StreamsServed` (each stream with work gets its turn, provided that
resolvers stay available).

## The server

`SessionStore` (`session.go`, `server_session.go`, `server_runtime.go`). Creation
or reuse by signature, the two id spaces, the cursor, the close notice with the
gap between its check and its effect, idle cleanup, the sweep of reuse times,
recently closed ids. `SessionTable`: a known signature names a live session made
for it; an init sent again finds its session while that may be reused; ids,
formats, counters and the memory of closed ids agree. Cookies tell sessions
apart and are the numbers of the sessions.

`ServerStreams`. One session's streams: `Syn`, the setup task (`StartSetup`,
`CreateForSetup`, `Dial`, `CheckAfterDial`, `AttachUpstreamConn`,
`CheckAfterAttach`), the end of an ARQ (`ARQCloses`, `Finalize`, the three halves of
`OnStreamClosed`), RST, the sweep of terminal streams, the close of the session.
`ConnOwned`: no dialed connection is left open with nobody to close it.
`ConnectedWorks`: a stream that answers CONNECTED has an open connection.
`TableExact`: the gauge is what the table holds; the active set names listed
streams; a live stream is listed. `SessionReleased`: a closed session releases all
it held. A stream created while an older one with its id is being removed (the
history `ousted`) is excepted: `removeStream` and `noteStreamClosed` go by id.

`DeferredWork`. A handler tracks a key and queues a task on a lane; workers take,
register, look whether the task is wanted, work and finalize; cleanups forget keys
and remove lanes. `PendingBalances` (what sessions and workers are charged for is
what is queued or in hand), `TrackedHasTask` (a retransmission is acknowledged
without work only while the work is still to come), `NoTwin` (no two workers on
one request), `QueuedAnswered` (acknowledged work is answered).

`ServerAnswers`. Each query is answered by round robin over streams and the orphan
queue, with packing and duplication of packed blocks, by several workers:
`OwnBlocks`, `StreamsAnswered`. Queues hold packets of two kinds.

`IngressLanes`. Readers, the two lanes, workers, and the three ways `Run` ends:
`SpillBounded` (at most one control packet per reader in the data lane),
`DrainedUnlessCancelled`, `LanesServed` (neither lane starves).

`ConnLimits`: `SlotsExact`, `ListenersExact`, `Headroom`. `DoHGate`: `RateKept`,
`BytesKept` (compare-and-swap of the memory gate). `FailureWindows`:
`EmitsRare`, `BanLasts`; the client's login limiter is in it too.

`UDPAssociation`. The direct UDP association: the only writer resolves and dials
without the lock, readers remove their socket when it fails, idle sockets
expire, the table evicts, the stream closes it. `TableWorks`, `NoneForgotten`
(no open socket is left to nobody), `GaugeCovers`.

`DNSResolve`: leaders and followers of a question, entries that grow too old, the
hedged race of upstream servers. `EntryResolved`, `OneLeader`, `FailureJust`.

## The client

`ClientSession`. Main loop (`discover`, `connect`, `race`, `backoff`, `connected`,
`stopping`, `draining`), the racers of one SESSION_INIT, three workers that ask for a
restart, a server that loses sessions or restarts with another policy.
`CleanStart` and `RestartNotLost` (a restart request neither hits the next session
nor gets lost), `RescanRare`, `OneSessionPerInit`, `PolicyInForce`, and
`Reconnects` (the client always gets back to a session the server knows).

`ResolverPool`. Disabling from timeouts with the floor, rechecks in slots,
reactivation, the background scan, the rotation of the address family, the
cached plan of a stream. `FloorKept`, `ProbesAccounted`, `NotHalfDisabled`,
`PlanCurrent`. `BalancerPick`: every strategy over one snapshot: `Distinct`,
`LeastLost`, `ServedAlike`, `LossBounded`. `QuerySamples`: an answer claims the
sample of its query, silence counts as a timeout, late answers take it back, with
a packet timeout below and one above the age to which samples are kept: `CountedOnce`, `SilenceCounts`, `SamplesBounded`.

`MTUScan`. Workers, Fast Connect, operating point with its groups, recomputation
at a restart, rechecks, promotion of backups: `MTUCarried` (who carries the session
carries its MTU, the unjudged aside), `ScanGoesOn` (before its end somebody is in flight,
something can start, or all are done and a selection exists). `MTUSearch`: the bisection with repeated probes:
`VerdictCertain`, `SearchSound`, over a network that need not be monotone.

`SendPipeline`: `ReleasedOnce` (pooled items go back once, wherever the stop finds
them). `StreamConns`: `NoStrays` (no connection is left behind by two dials for
one key, failures and Stop). `CarrierRotation`: `TriedAgain` (a record type
without answers is tried again).

`LocalStreams`. Handlers, processors, the cleanup worker and restarts, which wait for
the processors and not for the handlers: `ReplyOnce`, `ToldFirst`, `OneOwner`, all of
connections that do not share their id. Two share one when a restart overtook the
handler of one of them (the history `overtaken`, and `Sharers`). `GenericUDP`: the loop of the local socket,
the queue that keeps the newest, the forwarder that opens a stream anew:
`OneStream`, `NewestLast`.

## Messages of both ends

`DNSCache`: one shard with its order, and the save step by step; the program may
stop between any two: `CacheConsistent`, `FileComplete`. `Reassembly`: the fragment
store for queries and for answers, fragments lost, late, doubled and re-cut:
`NotMixed`, `OnceWhileKnown`, `StoreFresh`. `FECStream`: the encoder that is engaged
and disengaged under the workers, the decoder with eviction: `PoppedIsKept`,
`BlocksNotMixed`, `RecoveredOnce`, `TailLeaves`.

## Runs

| run | instance | distinct states | shows |
|---|---|---|---|
| `arq_wrap` | 6 numbers, window 1, limit 1, 7 chunks | 242,083 | order, window, span, no loss and `IInv` across the wrap |
| `arq_nack` | 8 numbers, window 1, limit 2, NACK gap 1, 2 chunks | 224,686 | refinement of `ReliableStream`, with NACKs |
| `arq_live` | 6 numbers, 2 retries, 2 chunks, fair | 12,005 | settles and delivers unless stranded |
| `close` | five settings (below) | 413,235 | safety of closing, every end closes, the handshake completes |
| `streams` | five scenarios of three components | 161,251 | server streams, deferred work, dispatcher |
| `parts` | fifteen scenarios of fourteen components | 679,971 | tables, choices, measurements, connections, lookups |
| `tunnel` | eleven scenarios of eight components | 392,615 | FEC, client session, answers, ingress, limits, local streams |
| `arq_stranded` | as `arq_live`, 1 chunk | violation | an entry can be stranded |
| `disp_starved` | 4 streams and the orphan queue, fair | violation | a stream is starved |
| `close_unacked` | 1 chunk down, client socket fails | violation | CLOSE_READ never acknowledged |
| `close_cut` | 2 chunks down, nothing fails | violation | the download is cut |
| `session_stale` | 1 racer, 2 possible operating points | violation | a stale MTU is announced |

Several components in one run. `MCStreams`, `MCParts` and `MCTunnel` extend
several modules, and a constant `part`, chosen by `Init`, says which of them moves in a
behaviour; the others stay in an initial state. Their state spaces add up and do
not multiply: the modules share no variable, and the run is the union of a run
per scenario. What one component does to another is inside the modules, as steps of the
environment (the close of a session in `DeferredWork` and in `ServerStreams`, the
server in `ClientSession`, the ARQ's end in `LocalStreams`). The `Move` operators of
these modules narrow a scenario where two dimensions would multiply (a rescan or a
cached plan, never both; a clean or a lossy path) and say which.

### Bounds, and why they are enough to be of interest

- `arq_wrap` reads more chunks than there are numbers, with a number space as
  small as the assumption allows, so that every mix-up of old and new that
  arithmetic permits can happen. The proofs cover the other values. `arq_nack` has two
  chunks in flight, which a gap and a NACK need. In `arq_live` NACKs are off: an
  endless stream of repeated NACKs could refuse each push.
- `close`: a download of two chunks (what overtakes what needs two), one of a
  chunk with sockets that fail at both ends and the grace timer, an upload and a stream
  without data of which only the timers are sure, and data both ways over a
  network that carries it. In the timed settings no copy of a chunk arrives after its
  acknowledgement (`NoLateCopies` of `MCARQClose`). The proofs cover any amount of data
  and any setting, late copies included.
- `streams`: two objects of one id, so that an id is taken again while its first
  owner is being removed; two setups that race for it, or one that races RST,
  sweep and close. Two workers, three requests on two lanes of one session, one
  cleanup, one retransmission too many. Three streams and the orphan queue make
  the dispatcher's cursor wrap, packing spans queues, and one stream comes and goes.
  A second scenario of the dispatcher offers PINGs on the control stream, which are
  deferred or refused while others wait, and lets no stream come or go. In both
  the resolvers go and come around `Resolve` only, the one step that looks at them: a change at
  any other point commutes to there.
- `parts`: three sessions for two signatures and three ids in two formats, a table of
  two; three resolvers (one IPv6, one slow) with a floor of two; a scan
  of four by three workers, with MTUs that one or two of them cannot carry; candidates 3 to 8 with up to three probes each; three
  keys for a cache of two, with one stop of the program; two lookups of one
  question and two upstream servers; sequence numbers that wrap at once; three
  packets through one encoder and one writer; two settings of the packet timeout; two dials by two workers; three
  sockets' worth of names and addresses for a table of one.
- `tunnel`: blocks of two units, loss on either side of each threshold; two racers,
  two attempts, two faults; three streams, two askers; two readers and a data lane
  of three; five connections of two addresses for three slots; three requests for
  two slots and memory for one of them; two handlers and one restart, which may come at any point of either.

Counters of the clock and of everything unbounded are bounded in the guards;
each such constant is called a bound where it is declared.

`CHECK_DEADLOCK FALSE` stands where the system may come to its end: all chunks
transferred, both ends closed, all requests answered, a bound reached. A
dispatcher or a main loop that must not stop is covered by the liveness properties.

### Fairness

| who | fairness | why |
|---|---|---|
| ARQ goroutines | WF of each step; SF of `RetryExceeded` | they run; the TTL elapses once and for all, while a scan only sometimes finds the loop idle |
| closing, `timed` settings | WF of the timers of each end | `retransmitLoop` ticks; sockets may hang and the network may be dead |
| closing, `carried` settings | WF of the arrival of what is retransmitted and of its ACKs, and of `rxLoop` and `writeLoop` | a packet that is retransmitted for ever arrives; copies may not come without end (`NoMoreCopies`) |
| dispatcher | WF of the loop and of an encode worker; who adds or removes a stream finishes | nothing is assumed of who pushes, nor of `WakeUp`: the idle poll looks again |
| deferred work, server streams | WF of each worker and handler, of `SetupStep`, `ObjectStep` and `TeardownStep` | goroutines run and a dial ends, well or not |
| FEC, answers, lanes | WF of pollers, askers, readers, workers | queries of a session keep coming, each is answered; closed sockets wake readers |
| client session | WF of the main loop, of each worker, of inits that are not lost, of responses; SF of leaving a cancelled loop | faults are bounded by `MaxFaults`; a `select` may prefer its other cases for a while |

## Findings

Five runs violate what the repository says of itself; `PROJECT.json` quotes the
lines.

- `arq_stranded`: `checkRetransmits` queues a retransmission and then marks the
  entry as not dispatched. If the dispatcher pops the packet in between and that
  transmission is lost, nothing ever retransmits or gives up the chunk.
- `disp_starved`: the resume point is found by bisection over ids that are not
  ascending when the orphan entry (id -1) stands at the end; with four streams
  and an orphan packet waiting, the last stream is passed over.
- `close_unacked`: CLOSE_WRITE overwrites the wait for the ACK of CLOSE_READ, and
  the handshake completes with CLOSE_READ unacknowledged.
- `close_cut`: `writeLoop` finds nothing ready and looks for CLOSE_READ in a second
  critical section. When the last chunk and CLOSE_READ come between the two, it
  half closes the socket with the chunk still in the receive buffer.
- `session_stale`: the payload of SESSION_INIT is kept across failed attempts
  while a rescan changes the operating point, so that the server is told an MTU
  measured for other resolvers.

## Behaviours worth knowing

Seen while modelling; the properties are stated so that they hold in spite of
them, and each exception is in a comment at the property.

- A PING deferred in favour of the orphan queue is popped all the same and sent
  under the orphan's stream id (`dispatcher.go:313`). `OwnStream` excepts the packets of
  the control stream, and the proof shows that no other packet is affected.
- Emitting CLOSE_WRITE forgets a CLOSE_READ that waits for the drain
  (`arq.go:1178`). After its CLOSE_READ was acknowledged a client allows the peer
  two seconds and then breaks its writer: an application that half closes and waits
  longer for its download loses the rest.
- A client whose writer failed can number one chunk after its CLOSE_READ: that
  path does not wait for the read in flight. `ServerLastWord` therefore speaks of the
  server, and `HandshakeDelivered` leaves out the server of such a client.
- The end of an older stream removes a newer one of the same id from the table
  (`stream_server.go:379`); it stays alive outside. Close notices and init signatures
  of sessions go by id too (`server_session.go:92`, `session.go:515`).
- Stream ids start anew after a restart while a handler may hold one it has not used
  (`async_runtime.go:128`). The id is given out again, the later `new_stream` overwrites
  the earlier in the table, and one of the two connections stays open with a stream
  that nothing serves, or is told another's verdict. `OneOwner`, `ReplyOnce` and
  `ToldFirst` leave out these `Sharers`, and no others. The cap of streams is checked before the stream is created
  (`stream_admission.go:97`), and the HTTP proxy asks for no admission
  (`http_proxy.go:131`).
- A reserve of the family that the policy excludes counts as a reserve
  (`resolver_health.go:109`), and a first primary that comes back shrinks the active tier
  below the floor. The refresh of the background scan may take resolvers away between the
  decision to disable one and the act (`resolver_health.go:429`). `FloorKept`
  therefore speaks of what happened `meanwhile`: active resolvers are left when nothing did,
  valid ones when the pool only grew.
- A resolver the background scan accepts is valid in the balancer's shared array before
  its `onValid` compares its MTU with the session's (`mtu.go:239`) and makes it a backup. The
  `onValid` of another resolver refreshes the pool from that array (`mtu.go:245`,
  `balancer.go:220`), and for that moment the first carries traffic at an MTU it was
  not measured to sustain, where `docs/ENGINEERING_CHANGES.md:310` has it a reserve.
  `MTUCarried` therefore leaves out who is `Unjudged`.
- A query is tracked after it was written (`async_runtime.go:766`), so that its answer
  may find no sample. Samples are pruned at 45 s though the timeout may be 120 s
  (`resolver_stats.go:264`): such a query never counts as a timeout. `SilenceCounts` leaves
  out the queries that grew `TooOld` under such a setting.
- `BansEscalate` of `FailureWindows` states what the comments of
  `socks_ratelimit.go` (28, 34) say; no run checks it, because the purge drops a record, and with
  it the length of the last ban, before the time of decay.
- The gauge of UDP sockets stays too high after idle expiry
  (`udp_association.go:147`). A socket dialed while the association closes is
  registered after `Close` has emptied the table, and stays there with its reader
  (`udp_association.go:184`); `NoneForgotten` counts it as listed.
- While an encrypted connection is refused half way it holds a slot of the common
  budget (`server_conn_limit.go:131`): `Headroom` counts it.
- A leader whose entry was replaced resolves the entry of its successor
  (`inflight/manager.go:88`), which hands out its answer. SERVFAIL is cached like
  an answer. A late SESSION_INIT leaves a session that only idle cleanup ends.

## Proofs

`tlapm` checks, for all values of the constants that the named assumptions of
the modules allow:

| module | theorem | states |
|---|---|---|
| `ARQDataProofs` | `TypeCorrect`, `Invariant`, `OrderCorrect`, `LossFree`, `WindowCorrect`, `SpanCorrect` | `TypeOK`, `IInv`, `InOrder`, `NoChunkLost`, `WindowRespected`, `SpanBounded` |
| | `ImplementsReliableStream` | `ImplementsStream`: the refinement |
| `ARQCloseProofs` | `CloseTypeCorrect`, `LastWord`, `DownloadWhole`, `HandshakeWhole` | `TypeOK`, `ServerLastWord`, `DownloadComplete`, `HandshakeDelivered` |
| `StreamsProofs` | `ConnsOwned`, `TableIsExact`, `ConnectedIsTrue` | `ConnOwned`, `TableExact`, `ConnectedWorks` of `ServerStreams` |
| | `WakeupsAreKept`, `BlocksStayOwn` | `NoLostWakeup`, `OwnStream` of `Dispatcher` |
| | `AllTypesCorrect` | `AllTypeOK`: the types of `DeferredWork`, `ServerStreams` and `Dispatcher` in `MCStreams`, whose `Spec` interleaves them |
| | `DeferredTypeCorrect`, `BooksBalance`, `HeldKeyHasTask`, `NoTwins` | `DeferredTypeOK`, `PendingBalances`, `TrackedHasTask`, `NoTwin` of `DeferredWork` |
| `ClientPartsProofs` | `PoolTypeCorrect`, `PoolIsSound`, `FloorIsKept` | `PoolTypeOK`, `PoolSound`, `FloorKept` (an action property) of `ResolverPool` |
| | `NoConnectionLeftBehind`, `SearchIsRight` | `NoStrays` of `StreamConns`, `MTUFound` of `MTUSearch` |
| | `ItemsGoBackOnce`, `SamplesAreSound`, `OneStreamAtATime` | `ReleasedOnce` of `SendPipeline`, `SamplesSound` of `QuerySamples`, `OneStream` and `NewestLast` of `GenericUDP` |
| | `SessionIsCarried` | `MTUCarried` and `ScanGoesOn` of `MTUScan` |
| | `PicksAreSound`, `TypesAreTriedAgain` | `PickSound` of `BalancerPick`, `TriedAgain` of `CarrierRotation` |
| `PartsProofs` | `SessionTableSound`, `AssociationIsSound` | `SessionTable` of `SessionStore`, `AssociationSound` of `UDPAssociation` |
| | `CacheIsSound` | `CacheSound` of `DNSCache` |
| | `AnswersAreResolved`, `FragmentsAreSound` | `ResolveSound` of `DNSResolve`, `FragmentsSound` of `Reassembly` |
| | `PathsAreSound`, `AnswersAreSound`, `ChoicesAreRight`, `PartsTypesCorrect` | `PathsSound`, `AnswersSound`, `ChoicesRight`, `PartsTypeOK`: the above in `MCParts`, whose `Spec` interleaves all components |
| `TunnelProofs` | `EndsAreSound` | `EndsSound`: `ConnLimits`, `DoHGate`, `FailureWindows`, `LocalStreams` in `MCTunnel` |
| `TunnelCoreProofs` | `TunnelIsSound`, `TunnelTypesCorrect` | `TunnelSound` (`FECStream`, `ClientSession`, `ServerAnswers`, `IngressLanes` in `MCTunnel`), `TunnelTypeOK` |

Each proof has the same shape: an inductive invariant, a lemma that `Init`
implies it, a lemma per action, one for the step, and the temporal theorem. The properties
are not inductive alone; what strengthens them is the argument.

*ARQData.* `InOrder` needs that the buffer holds under number `s` the chunk that
belongs at `s` now and not one `SeqMod` earlier; that follows only if every copy
of a chunk, in a queue, in a retransmission job, in the network or in `rxChan`,
carries its own number and is at most `Lag` behind (`CarriersOK`). `NoChunkLost`
needs that an ACK in transit is for something that arrived (`AcksTruthful`);
`SpanBounded` needs `NoChunkLost`, because a chunk that is neither tracked nor
received would let the sender run ahead. Two chunks less than `SeqMod` apart with
one number are equal, and `Lag <= Half` tells an old number from a new one. Room in
the window is looked at when a read begins and used when it ends; that nothing but
ACKs happened to it in between is `ReadHasRoom`.

*ARQClose.* `CloseInv` says of each end alone that CLOSE_READ waits for the reader to be
done and that what is not in the writer's hands was written (`Sound`), and of the
two directions that no chunk disappears between the buffers (`Unlost`), that
CLOSE_READ follows the last of them, and that where the end of the data was
concluded from, all of it was there (`Whole`). An action does something of its own
and then applies operators that end things; all of these satisfy one transitive
relation, `Finishes`, which is shown to keep the invariant once. Assumed of the
settings: `CloseAssumption`.

*SessionStore.* `SessionTable` with the types is inductive; the work is that a sweep
removes only mappings whose session may no longer be reused, and that the allocated
slot is free (`AllocatedFree`, by well-foundedness of the naturals).

*StreamConns.* `NoStrays` needs that who removes a connection from the table has
closed it (`ClosedFirst`) and that Stop empties the table once (`Stopped`).

*ServerStreams.* `ConnOwned` needs that a task that dials has an object (`Held`);
`TableExact` that only objects that exist come to an end, that an object is finalized
after its ARQ has closed (`Born`), and that the teardown holds a part of the gauge
between two of its steps only, in a closed session (`Torn`). The gauge follows the table by
the theorems on cardinality. `ConnectedWorks` has an invariant of its own on top of
these. The danger is the last check of a setup, which closes the connection it has just
attached when its stream should not execute; it must not do so to a stream that is
alive. It does not, because a live stream is listed, because the record of closed ids
has each id once and not the id of a live stream (`Memory`: creating a stream takes the
id out, and one occurrence is all there is), because objects are listed and held by
tasks under their ids (`Filed`), and because the connection of an object belongs to a
task that held this object and will not touch it again (`Attached`, `Dialed`).

The types of `AllTypeOK` also bound the gauge by `MaxStreams` and the record by
`ClosedCap` (`Limits`): only the creation of a stream raises the gauge, where the
listed streams, which it counts, leave room, and the record is cut before it grows.

*Dispatcher.* `NoLostWakeup` needs that the dispatcher knows of every open stream: it is in
its copy of the map, or the copy is out of date, and then a packet in that stream left the
token that brings the dispatcher back to the copy (`MapKnown`). For the streams it knows, a
push leaves a token; so without one, whatever the scan has passed over is still
empty, or has a PING before all else (`PassedOver`), and a scan that found nothing has
passed over everything, wherever it started (`RoundCovers`). `OwnStream` needs that what is
selected is a stream under its own id, or an orphan with the control stream at
most kept behind it (`Selected`), because `Resolve` peeks and `PopItem` pops later; that a
queue holds packets of its own stream only; and that the queues that packing visits
are under their own ids (`ExtraOwn`). What is packed and what is left of a queue is
described by positions (`PickedAt`), so the lemmas need no induction.

*DeferredWork.* Everything rests on one fact that none of the properties says: a task
is at one place at a time, one position of one channel, one worker or one handler
(`OnePlace`), which in turn needs that tasks of a request are numbered by its
arrivals (`Numbered`). From there the charges are cardinalities of sets of positions:
taking a task, queueing it and dropping it change them by one. Removing a lane and
compaction filter channels; the lemmas describe the filtered channel by a bijection
between its positions and those kept, so that no induction over sequences is needed.
A held key has a task because the task that will let it go stays alive until then
(`HeldByTask`), and two workers never meet on a request because the task alive for it
is the only one until a cleanup clears its key (`SoleTask`).

*ResolverPool.* The health loop decides in one critical section whether a resolver may
be disabled, and takes it out in another. `Judged` carries the decision across the
gap: what was counted still holds as long as nothing, or nothing but growth, happened
meanwhile. That a resolver cannot be active and held disabled needs that one that
became valid in the gap is remembered (`CrossedWhenBack`); that rechecks are accounted
for needs that a recheck under way keeps its mark or lost it to a scan (`Flagged`); and
that a plan names valid resolvers needs the same of a choice not cached yet
(`ChoiceCurrent`).

*DNSCache.* `CacheSound` needs to know how far a save has come (`SaveKnows`): until a
record changes, every record that is ready is still to be written, is among those
written, or is in the file, and the dirty flag stays set until the save ends. The count
is taken in one critical section and the records are written in others, so the
number in the file's header covers every record only when nothing changed in between,
and that is what `missed` tells. A load that stops half way keeps within the shard's
limit, and a key is not loaded twice, only because no file that was ever renamed
has too many records or a key twice (`Storable`). Eviction and expiry filter the order;
`QueuesProofs` says what is left of it by positions.

*The other components of `MCParts`* have small invariants, each about what one step
leaves for a later one.
`MTUSearch`: the search is at the largest candidate, at the smallest, between a size that
carries and a larger one that does not, or over (`AtHighest`, `AtLowest`, `Between`,
`SearchOver`); `MTUFound` is what these leave at the end.
`SendPipeline`: a task is with one worker (`OneWorker`), and the buffers that are out are
counted by the workers that have them (`BuffersBalance`), so that at the stop
nothing is out because nobody is left to have it (`StoppedIsOver`).
`QuerySamples`: a sample lies at its own DNS id until it is claimed (`OwnID`), so one answer
finds it; a claim credits once (`Credits`), and what is blamed has been observed, or is no longer
there to be (`Blames`, `OverdueNoted`). That no query is left out (`SilenceCounts`)
holds for all settings: either a query times out before its sample may be deleted, or the
time-out is above the 45 s to which the code caps the age of samples
(`resolver_stats.go:264`), and then only those are deleted unobserved that are older (`TooOld`).
`GenericUDP`: nothing is newer than the last frame read (`NewestHeard`), and a stream that is
not closed is the forwarder's and was published before it is waited for (`StreamOfForwarder`).
`UDPAssociation`: between its critical sections the writer relies on the address it found
free, on room in the table, and on the socket it dialed being nobody else's (`WriterKnows`); a
reader takes its socket out of the table before it closes it (`ReadersKnow`).
`DNSResolve`: a leader whose entry did not grow too old has the entry of the map
(`MapFacts`), hence there is one. `Reassembly`: an assembly holds fragments of one cut under a
key that is not remembered (`StoreSound`), and what was assembled last is remembered
for as long as doubling it would show (`LastIsKept`).

*MTUScan.* `MTUCarried` is about the pool, while MTUs are measured on connections: `Measured`
says that a valid connection has an MTU its resolver carries and that the pool agrees with
the connections the scan is done with. Where the main loop may be, and that it has an MTU
once it left the scan, is `Phases`; a recheck in flight is of a resolver that is not valid,
at the MTU of the session unless that changed (`Rechecked`). `ActiveCarry` is `MTUCarried`
made inductive: who is active carries the session's MTU, or between the choice of
a new one and its use (`apply`) the new one, which reclassification has looked at; without
groups nothing is derived again, so only those outside IPv6 are sure. `ScanGoesOn` is
stated by the guards of the scan's steps instead of ENABLED; that a point to
finalize exists follows because a valid connection has an MTU, hence a group.

*BalancerPick.* Orderings are given by positions: a snapshot sorted by score puts at place
`k` the resolver with `k` not behind it, which is a total order's numbering of a finite set
(`RanksByOrder`); hence each list has every resolver once (`Listing`), and its first ones
have nobody before them. That round robin serves alike needs `Window`: those served once more
than the rest are the ones just before the cursor.

*CarrierRotation.* `Waits`: what a type has waited and what its count still takes to fade
are together at most what the largest count takes, and one more for a sender that chose the
type before it was dropped. `Fade` is defined by recursion on halves. That it exists, is a
number and grows with the count are inductions over data; they are done on the least
counterexample, over functions on an initial segment (`FadesTo`).

*Types.* `PartsTypesCorrect` needs little more than the invariants above: the clocks of the
table (`StoreTimes`), that datagrams received are at most what the queue has room for
(`RxBounded`), that as many time-outs fall in one moment as queries were blamed
(`SampleTimes`), the hours of an association (`AssociationTimes`), the counters of the scan (`ScanCounts`), what a pick
may ask for (`PickAsked`), the state of the upstream servers and the histories of the
entries (`UpstreamTypes`), and the packets and fragments that exist (`FragTypes`). `PartsTypeOK` has the
variables of all the components of the run, in a conjunct each.

In the composition a step is one of a component, or of a few that nobody else shares,
and a stutter of the rest (`TablesMove`, `QueriesMove`, `RestMoves`), so `PartsInv` is their
conjunction.

*The ends of the tunnel.* `EndsInv` is one inductive invariant per component, and each is
left alone by the steps of the others. `ConnLimits`: the counters are the cardinalities
of the sets of connections that hold a slot (`SlotsExact`, `ListenersExact`), provided that
slots are given back by a connection that is closed and out of its loop (`ConnOrder`).
`DoHGate`: `RateKept` needs that what a bucket has granted and what it still holds is paid
for by the time since it was made (`TokensPaid`), for addresses forgotten too: forgetting
one hands it a full burst, which it must have waited for. `BytesKept` needs that the sum a
compare-and-swap writes fits (`ReadFits`). `FailureWindows`: `EmitsRare` needs that what the
tracker keeps is the end of what failed (`AttemptsOfFailed`) and that it knows of its last
error while it may not report again (`ErrorRemembered`); `BanLasts` that a purge
keeps records with a ban (`BanRemembered`). `LocalStreams`: between restarts ids are handed out in order
(`IDsInOrder`), so two connections have one only when a restart overtook one of them; only
live streams of the others are listed under theirs (`OwnID`), and a verdict not yet told
has a processor that will tell it (`ReplyDue`).

*The core of the tunnel.* `TunnelInv` adds the invariants of four more components to
`EndsInv`. `FECStream`: `BlocksNotMixed` and `RecoveredOnce` both rest on `IDsUnique`, that
the ids and the blocks of all that is on the way or tracked correspond, below the next id
of the encoder, through every disengage and engage. With it a shard finds under its id the
block it is of, or none. The rest is about the decoder's table (`DecoderOK`): one entry per id, shards of
one block in it, and a block recovered more often than it was evicted is still there and
done, which is why its next shards are refused. Opening a block, opening it in the place of the oldest and
adding a shard keep it (`Opening`, `Replacing`, `Receiving`). Ids have 32 bits in the code and do
not wrap in the model. `PoppedIsKept` follows by the places a unit can be (`Somewhere`).
`ClientSession`: nothing asked for in a session
is left when the next begins because the ping loop stops last, and the reset comes after it (`PingLast`); the
second rescan waits because a watcher that is armed has seen the cooldown over, or the other
one has asked since (`ArmedRight`); a session has a number that none had before, so
a new one never meets the policy of another (`ServedInv`). `ServerAnswers`: only an
asker that packs has blocks, and as many as it took (`AskerOK`, `PackedRight`); the stream a
block is under is the one it was taken from. `IngressLanes`: a reader that spills is
counted with what is spilled already, so the bound holds although the lane is looked at before it is
written to; and once the readers are gone the lanes only run empty (`LanesOrder`), so a
worker that leaves by itself has seen the end of them.

## Only model-checked

- Liveness, which is out of the proof system's reach: `SettlesUnlessStranded` and
  `DeliversUnlessStranded` (`arq_live`), `EveryEndCloses` and `HandshakeCompletes` (`close`),
  `QueuedAnswered`, `SessionReleased` and `StreamsServed` (`streams`), `ClientReconnects`
  and `PacketsServed` (`tunnel`).
- What the five runs with a violation refute.

Every invariant and every action property of the passing runs is stated by one of the
theorems above.

## Mutants

`PROJECT.json` gives one mutant for every property of every passing run: a wrong
variant of a mapped definition, which TLC must refute under the same
configuration. Properties that are conjunctions of several components'
invariants have more; these were tried the same way and refuted:

| property | definition | mutants |
|---|---|---|
| `AllTypeOK` | `Dispatcher.HasCapacity` | `RoomForOneMore` |
| `PathsSound` | `SendPipeline.Release`, `QuerySamples.Prunes`, `StreamConns.Removes` | `ReleaseAny`, `PrunesQuietly`, `RemovesAny` |
| | `UDPAssociation.Unlists`, `UDPAssociation.Evicts` | `UnlistsAnyway`, `EvictsOver` |
| `ChoicesRight` | `BalancerPick.Turn`, `CarrierRotation.Fades` | `TurnByCount`, `FadesWhenChosen` |
| `TunnelSound` | `FECStream.Refuses`, `ServerAnswers.Under`, `IngressLanes.MaySpill`, `IngressLanes.WorkerStops` | `RefusesOnlyRepeats`, `UnderTheFirst`, `SpillsAnyway`, `StopsWhenClosed` |
| `EndsSound` | `DoHGate.Forgotten`, `FailureWindows.Purgeable` | `ForgottenSoon`, `PurgeableBanned` |
| | `LocalStreams.CheckStatus`, `LocalStreams.CloseAllStreams` | `CheckUnlocked`, `KeepsStreams` |
| `PacketsServed` | `ServerAnswers.NextTurn`, `IngressLanes.TakeFirst` | `TurnStays`, `ControlFirst` |

## Not modelled

- Wire formats, name matching, parsing of SOCKS, HTTP and DNS, the TLS set-up,
  SNI routing, configuration, logging, the terminal UI: functions on bytes or
  I/O, without state that the properties depend on.
- Rates of wall-clock time: adaptive timeouts and pacing of retransmissions, the AIMD pacer,
  the loss meter, ping intervals. The models let a timer fire at any time.
- The arithmetic of Reed-Solomon (a library), encryption, compression.
- Setup packets inside the ARQ: `LocalStreams` and `ServerStreams` have what they do.
- The UDP association through an upstream SOCKS5 proxy, the DoH client, the
  resolver cache file.

`PROJECT.json` lists every component with what is left out of it.

## Plan

Done: the modules above, the compositions, eight modules of proofs. Next, in this
order: the AIMD pacer over an abstract clock; the UDP association through a proxy; an
abstract session (a client and its packets) that `ClientSession` and `SessionStore`
together implement.
