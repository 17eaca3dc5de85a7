------------------------------ MODULE MCStreams -----------------------------
(* Three components side by side: in each behaviour one of them moves.  The *)
(* server's stream table is run in two scenarios: two setups race for a     *)
(* stream, or one setup races the RST and the sweep.  The dispatcher of the *)
(* client serves uploads on two streams, one of which comes and goes, and   *)
(* an orphan ACK.                                                           *)
EXTENDS DeferredWork, ServerStreams, Dispatcher

VARIABLE part

Scenarios == {"deferred", "streams: two setups", "streams: one setup",
              "dispatcher: streams", "dispatcher: pings"}

MaxArrivalsOf == [p \in {"dns", "connect"} |-> IF p = "dns" THEN 3 ELSE 2]
Lanes == [p \in {"q1", "q2", "f1"} |->
             IF p \in {"q1", "q2"} THEN <<1, 0>> ELSE <<1, 5>>]

Of(t, s, n) == [type |-> t, sid |-> s, sn |-> n]
Uploads == {Of("STREAM_DATA_ACK", 1, 1), Of("STREAM_DATA", 2, 1), Of("PING", 0, 1)}
OrphanAck == {Of("STREAM_RST_ACK", 9, 0)}

allVars == <<part, deferredVars, streamsVars, dispatcherVars>>

Deferring == part = "deferred"
Streaming == part \in {"streams: two setups", "streams: one setup"}
Dispatching == part \in {"dispatcher: streams", "dispatcher: pings"}

Init ==
    /\ part \in Scenarios
    /\ DeferredInit /\ StreamsInit /\ DispatcherInit
    /\ part # "deferred" => processor = "dns"

StreamsMove ==
    /\ StreamsNext
    /\ part = "streams: two setups" => reset' = 0 /\ sweep'.at = "idle" /\ ~shut'
    /\ part = "streams: one setup" => setup'[2] = Idle

\* Only the step after `resolve' looks at the resolvers: they go and come around it.
DispatcherMove ==
    /\ DispatcherNext
    /\ up' \/ pc' \in {"resolve", "stalled"}
    /\ part = "dispatcher: streams" => txq'[0] = <<>>
    /\ part = "dispatcher: pings" => UNCHANGED life

Next ==
    \/ /\ Deferring /\ DeferredNext
       /\ UNCHANGED <<part, streamsVars, dispatcherVars>>
    \/ /\ Streaming /\ StreamsMove
       /\ UNCHANGED <<part, deferredVars, dispatcherVars>>
    \/ /\ Dispatching /\ DispatcherMove
       /\ UNCHANGED <<part, deferredVars, streamsVars>>

(* Each component is fair where it moves: workers and handlers go on, a     *)
(* dial ends, streams that are over are finalized, and the dispatcher polls *)
(* even when idle.                                                          *)
FairDeferred ==
    /\ WF_deferredVars(Deferring /\ HandlerStep /\ UNCHANGED processor)
    /\ \A w \in Pool : WF_deferredVars(Deferring /\ WorkerStep(w) /\ UNCHANGED processor)

FairStreams ==
    /\ \A t \in Setups : WF_streamsVars(Streaming /\ SetupStep(t))
    /\ \A o \in Objects : WF_streamsVars(Streaming /\ ObjectStep(o))
    /\ WF_streamsVars(Streaming /\ TeardownStep)

FairDispatcher ==
    /\ WF_dispatcherVars(Dispatching /\ DispatcherStep)
    /\ WF_dispatcherVars(Dispatching /\ EncodeWorker)
    /\ WF_dispatcherVars(Dispatching /\ Bookkeeping)

Spec ==
    /\ Init /\ [][Next]_allVars
    /\ FairDeferred /\ FairStreams /\ FairDispatcher

AllTypeOK == DeferredTypeOK /\ StreamsTypeOK /\ DispatcherTypeOK
=============================================================================
