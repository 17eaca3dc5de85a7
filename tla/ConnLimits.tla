------------------------------ MODULE ConnLimits ------------------------------
(****************************************************************************)
(* The limits on the server's stream connections (internal/udpserver/       *)
(* server_conn_limit.go, server_tcp.go, server_dot.go, server_doh.go): one  *)
(* budget for all, a share of it for the encrypted listeners, and limits    *)
(* of each listener, in all and per address.                                *)
(*                                                                          *)
(* Every counter has a lock of its own, so a slot is taken and given back   *)
(* counter by counter, while other connections come and go.  A listener     *)
(* accepts one connection at a time.                                        *)
(****************************************************************************)
EXTENDS Integers, FiniteSets

CONSTANTS
    Conns,            \* connections that may come, again and again
    Listener,         \* the listener of each: "tcp", "dot", "doh"
    IPOf,             \* its address
    MaxConns,         \* TCPMaxConns
    PerIP,            \* TCPMaxConnsPerIP, 0 for no limit
    Configured        \* EncryptedMaxConns, 0 for the default share

ASSUME ConnLimitsAssumption ==
    /\ IsFiniteSet(Conns)
    /\ Listener \in [Conns -> {"tcp", "dot", "doh"}]
    /\ MaxConns \in Nat \ {0} /\ PerIP \in Nat /\ Configured \in Nat

IPs == {IPOf[c] : c \in Conns}
Listeners == {"tcp", "dot", "doh"}
Plain == {c \in Conns : Listener[c] = "tcp"}
Encrypted == Conns \ Plain

VARIABLES
    stage,        \* where each connection is
    closed,       \* once: whether its first Close is done or under way
    inside,       \* whether it has its slot in the accept loop
    total,        \* active of streamConnBudget
    encrypted,    \* active of encryptedConnBudget
    active, activeByIP,   \* of each listener
    loop, loopByIP        \* active and activeByIP of its accept loop

connVars == <<stage, closed, inside, total, encrypted, active, activeByIP,
              loop, loopByIP>>

(* encryptedConnCeiling                                                     *)
EncryptedMax ==
    IF Configured > 0
    THEN IF Configured < MaxConns THEN Configured
         ELSE IF MaxConns > 1 THEN MaxConns - 1 ELSE 1
    ELSE IF (MaxConns * 3) \div 4 >= 1 THEN (MaxConns * 3) \div 4 ELSE 1

ConnInit ==
    /\ stage = [c \in Conns |-> "none"]
    /\ closed = [c \in Conns |-> FALSE] /\ inside = [c \in Conns |-> FALSE]
    /\ total = 0 /\ encrypted = 0
    /\ active = [l \in Listeners |-> 0]
    /\ activeByIP = [l \in Listeners |-> [ip \in IPs |-> 0]]
    /\ loop = [l \in Listeners |-> 0]
    /\ loopByIP = [l \in Listeners |-> [ip \in IPs |-> 0]]

Moves(c, from, to) == stage[c] = from /\ stage' = [stage EXCEPT ![c] = to]
Less(n) == IF n > 0 THEN n - 1 ELSE 0
Counts(f, c, n) == [f EXCEPT ![Listener[c]] = n]
CountsIP(f, c, n) == [f EXCEPT ![Listener[c]][IPOf[c]] = n]
Allowed(count, byIP) == count < MaxConns /\ (PerIP > 0 => byIP < PerIP)

(* Places of the accept loop, which takes the next one only after these.    *)
AcceptPlaces == {"total", "share", "listener", "undo_share", "undo_total", "loop", "refused"}
AcceptLoopFree(c) ==
    \A d \in Conns : Listener[d] = Listener[c] =>
        stage[d] \notin AcceptPlaces
        /\ ~(stage[d] \in {"release_share", "release_total", "release_listener", "released"}
             /\ ~inside[d] /\ Listener[d] # "doh")
-----------------------------------------------------------------------------
(* Accept and reserve.                                                      *)
AcceptConn(c) ==
    /\ AcceptLoopFree(c)
    /\ Moves(c, "none", "total")
    /\ UNCHANGED <<closed, inside, total, encrypted, active, activeByIP, loop, loopByIP>>

ReserveTotal(c) ==
    /\ IF total < MaxConns
       THEN /\ total' = total + 1
            /\ Moves(c, "total", IF c \in Encrypted THEN "share" ELSE "listener")
       ELSE Moves(c, "total", "none") /\ UNCHANGED total
    /\ UNCHANGED <<closed, inside, encrypted, active, activeByIP, loop, loopByIP>>

ReserveShare(c) ==
    /\ IF encrypted < EncryptedMax
       THEN encrypted' = encrypted + 1 /\ Moves(c, "share", "listener")
       ELSE Moves(c, "share", "undo_total") /\ UNCHANGED encrypted
    /\ UNCHANGED <<closed, inside, total, active, activeByIP, loop, loopByIP>>

ReserveListener(c) ==
    LET l == Listener[c]
        undo == IF c \in Encrypted THEN "undo_share" ELSE "undo_total"
    IN  /\ IF Allowed(active[l], activeByIP[l][IPOf[c]])
           THEN /\ active' = Counts(active, c, active[l] + 1)
                /\ activeByIP' = CountsIP(activeByIP, c, activeByIP[l][IPOf[c]] + 1)
                /\ Moves(c, "listener", IF l = "doh" THEN "serving" ELSE "loop")
           ELSE Moves(c, "listener", undo) /\ UNCHANGED <<active, activeByIP>>
        /\ UNCHANGED <<closed, inside, total, encrypted, loop, loopByIP>>

(* The accept loop of serveDNSOverStream counts once more.                  *)
ReserveLoop(c) ==
    LET l == Listener[c]
        ok == Allowed(loop[l], loopByIP[l][IPOf[c]])
        slot == PerIP > 0
    IN  /\ IF ok
           THEN /\ loop' = Counts(loop, c, loop[l] + 1)
                /\ loopByIP' = IF slot THEN CountsIP(loopByIP, c, loopByIP[l][IPOf[c]] + 1)
                               ELSE loopByIP
                /\ inside' = [inside EXCEPT ![c] = TRUE]
                /\ Moves(c, "loop", "serving")
           ELSE Moves(c, "loop", "refused") /\ UNCHANGED <<loop, loopByIP, inside>>
        /\ UNCHANGED <<closed, total, encrypted, active, activeByIP>>

ReleaseShare(c) ==
    /\ Moves(c, "undo_share", "undo_total") \/ Moves(c, "release_share", "release_total")
    /\ encrypted' = Less(encrypted)
    /\ UNCHANGED <<closed, inside, total, active, activeByIP, loop, loopByIP>>

ReleaseTotal(c) ==
    /\ Moves(c, "undo_total", "none") \/ Moves(c, "release_total", "release_listener")
    /\ total' = Less(total)
    /\ UNCHANGED <<closed, inside, encrypted, active, activeByIP, loop, loopByIP>>

ReleaseListener(c) ==
    LET l == Listener[c]
    IN  /\ Moves(c, "release_listener", "released")
        /\ active' = Counts(active, c, Less(active[l]))
        /\ activeByIP' = CountsIP(activeByIP, c, Less(activeByIP[l][IPOf[c]]))
        /\ UNCHANGED <<closed, inside, total, encrypted, loop, loopByIP>>

(* limitedConn.Close: by the accept loop that refuses it, by the handler    *)
(* whose write failed, by the one that serves it, by TLS or HTTP; whoever   *)
(* comes second waits for the first and does nothing.                       *)
Placed(c) == IF c \in Encrypted THEN "release_share" ELSE "release_total"
\* Mutant: each Close gives the slots back.
CloseReleases(c) ==
    /\ stage[c] \in {"refused", "serving", "released"}
    /\ stage' = [stage EXCEPT ![c] = Placed(c)]
    /\ closed' = [closed EXCEPT ![c] = TRUE]
    /\ UNCHANGED <<inside, total, encrypted, active, activeByIP, loop, loopByIP>>
CloseConn(c) ==
    /\ stage[c] \in {"refused", "serving", "released"}
    /\ stage' = IF closed[c] THEN stage ELSE [stage EXCEPT ![c] = Placed(c)]
    /\ closed' = [closed EXCEPT ![c] = TRUE]
    /\ UNCHANGED <<inside, total, encrypted, active, activeByIP, loop, loopByIP>>

(* The goroutine of the connection ends.                                    *)
LeaveConn(c) ==
    LET l == Listener[c]
    IN  /\ Moves(c, "released", "none")
        /\ closed' = [closed EXCEPT ![c] = FALSE]
        /\ inside' = [inside EXCEPT ![c] = FALSE]
        /\ IF inside[c]
           THEN /\ loop' = Counts(loop, c, Less(loop[l]))
                /\ loopByIP' = CountsIP(loopByIP, c, Less(loopByIP[l][IPOf[c]]))
           ELSE UNCHANGED <<loop, loopByIP>>
        /\ UNCHANGED <<total, encrypted, active, activeByIP>>

ConnStep(c) ==
    \/ AcceptConn(c) \/ ReserveTotal(c) \/ ReserveShare(c) \/ ReserveListener(c)
    \/ ReserveLoop(c) \/ ReleaseShare(c) \/ ReleaseTotal(c) \/ ReleaseListener(c)
    \/ CloseConn(c) \/ LeaveConn(c)

ConnNext == \E c \in Conns : ConnStep(c)
ConnSpec == ConnInit /\ [][ConnNext]_connVars
-----------------------------------------------------------------------------
Stages == {"none", "total", "share", "listener", "undo_share", "undo_total", "loop",
           "refused", "serving", "release_share", "release_total", "release_listener",
           "released"}

ConnTypeOK ==
    /\ stage \in [Conns -> Stages]
    /\ closed \in [Conns -> BOOLEAN] /\ inside \in [Conns -> BOOLEAN]
    /\ total \in 0 .. MaxConns /\ encrypted \in 0 .. EncryptedMax
    /\ active \in [Listeners -> 0 .. MaxConns]
    /\ activeByIP \in [Listeners -> [IPs -> Nat]]
    /\ loop \in [Listeners -> 0 .. MaxConns]
    /\ loopByIP \in [Listeners -> [IPs -> Nat]]

(* Who holds a slot of a counter.                                           *)
Established == {"loop", "refused", "serving"}
ShareHolders ==
    {c \in Encrypted :
        stage[c] \in Established \cup {"listener", "undo_share", "release_share"}}
TotalHolders ==
    ShareHolders \cup
    {c \in Conns :
        stage[c] \in Established \cup {"share", "listener", "undo_total", "release_total"}}
ListenerHolders ==
    {c \in Conns :
        stage[c] \in Established \cup {"release_share", "release_total", "release_listener"}}

\* No slot is lost and none is given back twice: the budget, and the share of
\* the encrypted listeners, count exactly the connections that are under way,
\* whatever was refused half way and however often a connection was closed.
SlotsExact ==
    /\ total = Cardinality(TotalHolders)
    /\ encrypted = Cardinality(ShareHolders)

\* The same for the limits of each listener, in all and per address.
ListenersExact ==
    \A l \in Listeners :
        /\ active[l] = Cardinality({c \in ListenerHolders : Listener[c] = l})
        /\ loop[l] = Cardinality({c \in Conns : inside[c] /\ Listener[c] = l})
        /\ \A ip \in IPs :
              activeByIP[l][ip] =
                  Cardinality({c \in ListenerHolders : Listener[c] = l /\ IPOf[c] = ip})

\* The encrypted listeners cannot starve the plain one: they never have more
\* than their share, so when the budget is used up, plain connections have the
\* rest of it, but for what encrypted ones hold that are just coming or going.
Passing == (TotalHolders \ ShareHolders) \cap Encrypted
Headroom ==
    total = MaxConns =>
        Cardinality(TotalHolders \cap Plain) + Cardinality(Passing) >= MaxConns - EncryptedMax

ConnSound == SlotsExact /\ ListenersExact /\ Headroom
=============================================================================
