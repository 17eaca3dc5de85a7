----------------------------- MODULE MCARQClose -----------------------------
EXTENDS ARQClose

Meets(down, up, failing, timers, timed, carried) ==
    [data |-> [e \in Ends |-> IF e = "server" THEN down ELSE up],
     failing |-> failing, timers |-> timers, timed |-> timed,
     carried |-> carried]

\* A download of two chunks, and one of a chunk that ends in every way, with
\* failing sockets on both sides; an upload, and a stream without data whose
\* sockets fail, of which only the timers are sure; data both ways over a
\* network that carries it, without any timer.
Ways == {
    Meets(2, 0, {}, {}, FALSE, FALSE),
    Meets(1, 0, Ends, {"grace"}, FALSE, FALSE),
    Meets(0, 1, {}, {"drain", "ackWait", "data", "inactivity"}, TRUE, FALSE),
    Meets(0, 0, Ends, AllTimers, TRUE, FALSE),
    Meets(1, 1, {}, {}, FALSE, TRUE)}

\* Where time passes, a chunk does not arrive again after its acknowledgement.
NoLateCopies == \A e \in Ends : (arq'[e].rx \ arq[e].rx) \cap arq[e].got = {}
WayNext == Next /\ (setting.timed => NoLateCopies)
WaySpec ==
    /\ Init /\ [][WayNext]_vars
    /\ \A e \in Ends : FairTime(e) /\ FairNetwork(e) /\ FairReceiver(e)

\* A download to a client whose socket fails.
ClientFails == {Meets(1, 0, {"client"}, {}, FALSE, FALSE)}

\* A download of two chunks that nothing disturbs.
Downloads == {Meets(2, 0, {}, {}, FALSE, FALSE)}
=============================================================================
