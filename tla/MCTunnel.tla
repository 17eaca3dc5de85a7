------------------------------ MODULE MCTunnel ------------------------------
(* The components of the tunnel that must get somewhere, and those that     *)
(* guard its ends, side by side: in each behaviour one of them moves.  FEC  *)
(* is run with a loss that varies and packets that are sent again, and with *)
(* heavy loss without these; answers with orphan packets, and with a stream *)
(* that has packets of both kinds; the two memories of failures apart.      *)
EXTENDS FECStream, ClientSession, ServerAnswers, IngressLanes,
        ConnLimits, DoHGate, FailureWindows, LocalStreams

VARIABLE part

Coded == {"fec", "fec_heavy_loss"}
Answering == {"answers_orphans", "answers_mixed"}
Parts == Coded \cup Answering
            \cup {"session", "lanes", "conns", "gate", "cookies", "logins", "locals"}

CarriedBy == [s \in 0 .. 2 |-> IF s = 0 THEN {} ELSE IF s = 1 THEN {"control", "data"}
                               ELSE {"data"}]

\* Two plain connections and an encrypted one of one address, two of another.
ListenerOf == <<"tcp", "tcp", "dot", "dot", "doh">>
AddressOf == <<"x", "x", "x", "y", "y">>

limitVars == <<connVars, gateVars, windowVars>>
endVars == <<limitVars, localVars>>
tunnelVars == <<part, fecVars, establishVars, answerVars, laneVars, endVars>>

Init ==
    /\ part \in Parts
    /\ FECInit /\ EstablishInit /\ AnswersInit /\ LanesInit
    /\ ConnInit /\ GateInit /\ WindowsInit /\ LocalInit
    /\ part # "session" => policy = 0

FECMove ==
    /\ FECNext
    /\ IF part = "fec" THEN parity' = BaseParity ELSE resends' = 0

AnswersMove ==
    /\ AnswersNext
    /\ IF part = "answers_mixed" THEN ~orphanq' ELSE "data" \notin txqs'[1]

Next ==
    /\ \/ /\ part \in Coded /\ FECMove
          /\ UNCHANGED <<establishVars, answerVars, laneVars, endVars>>
       \/ /\ part = "session" /\ EstablishNext
          /\ UNCHANGED <<fecVars, answerVars, laneVars, endVars>>
       \/ /\ part \in Answering /\ AnswersMove
          /\ UNCHANGED <<fecVars, establishVars, laneVars, endVars>>
       \/ /\ part = "lanes" /\ LanesNext
          /\ UNCHANGED <<fecVars, establishVars, answerVars, endVars>>
       \/ /\ part = "conns" /\ ConnNext
          /\ UNCHANGED <<fecVars, establishVars, answerVars, laneVars, gateVars, windowVars, localVars>>
       \/ /\ part = "gate" /\ GateNext
          /\ UNCHANGED <<fecVars, establishVars, answerVars, laneVars, connVars, windowVars, localVars>>
       \/ /\ part \in {"cookies", "logins"} /\ WindowsNext
          /\ IF part = "cookies" THEN UNCHANGED loginVars ELSE UNCHANGED trackVars
          /\ UNCHANGED <<fecVars, establishVars, answerVars, laneVars, connVars, gateVars, localVars>>
       \/ /\ part = "locals" /\ LocalNext
          /\ UNCHANGED <<fecVars, establishVars, answerVars, laneVars, limitVars>>
    /\ UNCHANGED part

(* The fairness of each component while it is the one that moves: Go's      *)
(* scheduler lets goroutines go on, handlers return, queries of a session   *)
(* keep coming and are answered, and sockets that are closed wake their     *)
(* readers.  For the session see EstablishFairness.                         *)
Fairness ==
    /\ \A p \in Pollers : WF_fecVars(part \in Coded /\ PollerStep(p))
    /\ WF_answerVars(part \in Answering /\ \E p \in Askers : PollerWorks(p))
    /\ \A r \in Readers : WF_laneVars(part = "lanes" /\ ReaderStep(r))
    /\ \A w \in DNSWorkers : WF_laneVars(part = "lanes" /\ DNSWorkerStep(w))
    /\ WF_laneVars(part = "lanes" /\ (CloseLanes \/ RunReturns))
    /\ WF_establishVars(part = "session" /\ MainStep)
    /\ \A r \in Racers : WF_establishVars(part = "session" /\ InitArrives(r))
    /\ WF_establishVars(part = "session" /\ OrphanExpires)
    /\ WF_establishVars(part = "session" /\ Response)
    /\ \A w \in Workers : WF_establishVars(part = "session" /\ WorkerStep(w))
    /\ SF_establishVars(part = "session" /\ \E w \in Workers : Exit(w))

Spec == Init /\ [][Next]_tunnelVars /\ Fairness

TunnelTypeOK ==
    /\ FECTypeOK /\ EstablishTypeOK /\ AnswersTypeOK /\ LanesTypeOK
    /\ ConnTypeOK /\ LocalTypeOK
TunnelSound == FECExact /\ ClientSound /\ OwnBlocks /\ LanesSound
EndsSound == ConnSound /\ GateSound /\ WindowsSound /\ LocalSound

\* The client gets back to a session that the server knows (Reconnects).
ClientReconnects == []<>(part = "session" => InSession)

\* What was given to FEC leaves it, all streams are answered, and both lanes
\* of the server's queue are served.
PacketsServed == TailLeaves /\ StreamsAnswered /\ LanesServed
=============================================================================
