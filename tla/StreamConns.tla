---------------------------- MODULE StreamConns ----------------------------
(****************************************************************************)
(* The client's persistent connections to a resolver over TCP or TLS        *)
(* (internal/client/tcp_data.go): workers send the queries of two queues,   *)
(* and dial when the table has no connection; every connection has a loop   *)
(* that reads; Stop closes them all.  One key of the table, an address and  *)
(* a stripe; the keys are independent of each other.                        *)
(****************************************************************************)
EXTENDS Integers, FiniteSets

CONSTANTS
    Senders,          \* workers
    MaxDials,         \* bound of the connections dialed
    ControlRoom, DataRoom    \* tcpControlQueueCap, tcpDataQueueCap

ASSUME StreamConnsAssumption ==
    MaxDials \in Nat \ {0} /\ ControlRoom \in Nat \ {0} /\ DataRoom \in Nat \ {0}

Dials == 1 .. MaxDials

VARIABLES
    urgent, bulk,     \* jobs in controlQ and dataQ
    sender,           \* what each worker does, and with which connection
    current,          \* the connection of the table, or 0
    dialed,           \* connections dialed so far
    sockets,          \* sockets that are not closed
    reading,          \* readLoop of each: "none", "reads", "closed", "ended"
    closing,          \* connections that Stop took from the table
    life              \* of the manager: "runs", "dead", "stopped"

connectionVars == <<urgent, bulk, sender, current, dialed, sockets, reading, closing, life>>

AtStep(s, on) == [step |-> s, conn |-> on]
IdleSender == AtStep("idle", 0)
Turns(w, s, on) == sender' = [sender EXCEPT ![w] = AtStep(s, on)]

ConnsInit ==
    /\ urgent = 0 /\ bulk = 0
    /\ sender = [w \in Senders |-> IdleSender]
    /\ current = 0 /\ dialed = 0 /\ sockets = {} /\ reading = [d \in Dials |-> "none"]
    /\ closing = {} /\ life = "runs"

(* Send: never waits, whatever the manager's life                           *)
Submit ==
    /\ \/ urgent < ControlRoom /\ urgent' = urgent + 1 /\ UNCHANGED bulk
       \/ bulk < DataRoom /\ bulk' = bulk + 1 /\ UNCHANGED urgent
    /\ UNCHANGED <<sender, current, dialed, sockets, reading, closing, life>>

(* worker: control first, and it may not see the end while there is work    *)
TakeJob(w) ==
    /\ sender[w] = IdleSender
    /\ IF urgent > 0 THEN urgent' = urgent - 1 /\ UNCHANGED bulk
       ELSE bulk > 0 /\ bulk' = bulk - 1 /\ UNCHANGED urgent
    /\ Turns(w, "asks", 0)
    /\ UNCHANGED <<current, dialed, sockets, reading, closing, life>>

SenderExits(w) ==
    /\ life = "dead" /\ sender[w] = IdleSender /\ Turns(w, "exited", 0)
    /\ UNCHANGED <<urgent, bulk, current, dialed, sockets, reading, closing, life>>

(* connFor, up to the dial                                                  *)
LookUp(w) ==
    /\ sender[w].step = "asks"
    /\ IF life # "runs" THEN Turns(w, "idle", 0)
       ELSE IF current # 0 THEN Turns(w, "writes", current) ELSE Turns(w, "dials", 0)
    /\ UNCHANGED <<urgent, bulk, current, dialed, sockets, reading, closing, life>>

Dial(w) ==
    /\ sender[w].step = "dials"
    /\ \/ Turns(w, "idle", 0) /\ UNCHANGED <<dialed, sockets>>
       \/ /\ dialed < MaxDials /\ dialed' = dialed + 1
          /\ sockets' = sockets \cup {dialed + 1} /\ Turns(w, "dialed", dialed + 1)
    /\ UNCHANGED <<urgent, bulk, current, reading, closing, life>>

(* connFor, after the dial: who lost the race uses the winner's             *)
Late(w) == life # "runs"
Register(w) ==
    LET mine == sender[w].conn IN
    /\ sender[w].step = "dialed"
    /\ IF Late(w) THEN sockets' = sockets \ {mine} /\ Turns(w, "idle", 0) /\ UNCHANGED <<current, reading>>
       ELSE IF current # 0
       THEN sockets' = sockets \ {mine} /\ Turns(w, "writes", current) /\ UNCHANGED <<current, reading>>
       ELSE /\ current' = mine /\ reading' = [reading EXCEPT ![mine] = "reads"]
            /\ Turns(w, "writes", mine) /\ UNCHANGED sockets
    /\ UNCHANGED <<urgent, bulk, dialed, closing, life>>

(* sendJob: the write fails on a closed socket, and may fail on any         *)
WriteJob(w) ==
    /\ sender[w].step = "writes"
    /\ \/ sender[w].conn \in sockets /\ Turns(w, "idle", 0) /\ UNCHANGED sockets
       \/ sockets' = sockets \ {sender[w].conn} /\ Turns(w, "failed", sender[w].conn)
    /\ UNCHANGED <<urgent, bulk, current, dialed, reading, closing, life>>

RemovesAny(c) == current' = 0

(* remove                                                                   *)
Removes(c) == current' = IF current = c THEN 0 ELSE current

RemoveFailed(w) ==
    /\ sender[w].step = "failed"
    /\ Removes(sender[w].conn) /\ Turns(w, "idle", 0)
    /\ UNCHANGED <<urgent, bulk, dialed, sockets, reading, closing, life>>

(* readLoop: the other side closes, the answer is none, or the socket is    *)
(* closed here; nobody waits for it.                                        *)
LoopCloses(c) ==
    /\ reading[c] = "reads"
    /\ reading' = [reading EXCEPT ![c] = "closed"] /\ sockets' = sockets \ {c}
    /\ UNCHANGED <<urgent, bulk, sender, current, dialed, closing, life>>

LoopRemoves(c) ==
    /\ reading[c] = "closed"
    /\ reading' = [reading EXCEPT ![c] = "ended"] /\ Removes(c)
    /\ UNCHANGED <<urgent, bulk, sender, dialed, sockets, closing, life>>

(* Stop                                                                     *)
StopConns ==
    /\ life = "runs" /\ life' = "dead"
    /\ closing' = {current} \ {0} /\ current' = 0
    /\ UNCHANGED <<urgent, bulk, sender, dialed, sockets, reading>>

CloseTaken(c) ==
    /\ c \in closing /\ closing' = closing \ {c} /\ sockets' = sockets \ {c}
    /\ UNCHANGED <<urgent, bulk, sender, current, dialed, reading, life>>

StopReturns ==
    /\ life = "dead" /\ closing = {} /\ \A w \in Senders : sender[w].step = "exited"
    /\ life' = "stopped"
    /\ UNCHANGED <<urgent, bulk, sender, current, dialed, sockets, reading, closing>>

ConnsNext ==
    \/ Submit \/ StopConns \/ StopReturns
    \/ \E w \in Senders : \/ TakeJob(w) \/ SenderExits(w) \/ LookUp(w) \/ Dial(w)
                          \/ Register(w) \/ WriteJob(w) \/ RemoveFailed(w)
    \/ \E c \in Dials : LoopCloses(c) \/ LoopRemoves(c) \/ CloseTaken(c)

ConnsSpec == ConnsInit /\ [][ConnsNext]_connectionVars
-----------------------------------------------------------------------------
ConnsTypeOK ==
    /\ urgent \in 0 .. ControlRoom /\ bulk \in 0 .. DataRoom
    /\ sender \in [Senders -> [step : {"idle", "asks", "dials", "dialed", "writes", "failed", "exited"},
                               conn : Dials \cup {0}]]
    /\ dialed \in 0 .. MaxDials /\ current \in 0 .. dialed /\ sockets \subseteq 1 .. dialed /\ closing \subseteq 1 .. dialed
    /\ reading \in [Dials -> {"none", "reads", "closed", "ended"}]
    /\ life \in {"runs", "dead", "stopped"}

\* An open socket has somebody who will use or close it: the table, the
\* worker that dialed it, or Stop.  So none is left when Stop returns.
NoStrays ==
    /\ \A c \in sockets :
          c = current \/ c \in closing \/ \E w \in Senders : sender[w].step = "dialed" /\ sender[w].conn = c
    /\ life = "stopped" => sockets = {}
=============================================================================
