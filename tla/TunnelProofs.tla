----------------------------- MODULE TunnelProofs -----------------------------
(****************************************************************************)
(* What guards the ends of the tunnel (ConnLimits, DoHGate, FailureWindows, *)
(* LocalStreams), as MCTunnel puts them together: EndsSound, for any        *)
(* connections, requests, addresses and limits.                             *)
(*                                                                          *)
(* Each component has an inductive invariant of its own, and one lemma for  *)
(* each of its actions; the steps of the others leave it alone.             *)
(****************************************************************************)
EXTENDS MCTunnel, QueuesProofs

-----------------------------------------------------------------------------
(* Facts about counting.                                                    *)

\* What a set gains when an element comes or goes.
Change(before, after) ==
    IF after /\ ~before THEN 1 ELSE IF before /\ ~after THEN -1 ELSE 0

\* Two sets that differ in one element at most differ by one in size.
LEMMA Recount ==
    ASSUME NEW S, IsFiniteSet(S), NEW A \in SUBSET S, NEW B \in SUBSET S, NEW c \in S,
           \A d \in S : d # c => (d \in A <=> d \in B)
    PROVE  /\ Cardinality(A) \in Nat /\ Cardinality(B) \in Nat
           /\ Cardinality(B) = Cardinality(A) + Change(c \in A, c \in B)
           /\ c \in A => Cardinality(A) > 0
<1>1. IsFiniteSet(A) /\ IsFiniteSet(B)
  BY FS_Subset
<1>2. Cardinality(A) \in Nat /\ Cardinality(B) \in Nat
  BY <1>1, FS_CardinalityType
<1>3. CASE c \in A /\ c \notin B
  <2>1. B = A \ {c}
    BY <1>3
  <2>2. Cardinality(A \ {c}) = Cardinality(A) - 1
    BY <1>1, <1>3, FS_RemoveElement
  <2> QED
    BY <1>2, <1>3, <2>1, <2>2 DEF Change
<1>4. CASE c \notin A /\ c \in B
  <2>1. B = A \cup {c}
    BY <1>4
  <2>2. Cardinality(A \cup {c}) = Cardinality(A) + 1
    BY <1>1, <1>4, FS_AddElement
  <2> QED
    BY <1>2, <1>4, <2>1, <2>2 DEF Change
<1>5. CASE c \in A /\ c \in B
  <2>1. A = B
    BY <1>5
  <2>2. Cardinality(A) > 0
    <3>1. A # {}
      BY <1>5
    <3>2. Cardinality(A) # 0
      BY <1>1, <3>1, FS_EmptySet
    <3> QED
      BY <1>2, <3>2
  <2> QED
    BY <1>2, <1>5, <2>1, <2>2 DEF Change
<1>6. CASE c \notin A /\ c \notin B
  <2>1. A = B
    BY <1>6
  <2> QED
    BY <1>2, <1>6, <2>1 DEF Change
<1> QED
  BY <1>3, <1>4, <1>5, <1>6
-----------------------------------------------------------------------------
(* The limits on connections.                                               *)

ConnOrder ==
    \A c \in Conns :
        /\ stage[c] \in {"share", "undo_share", "release_share"} => c \in Encrypted
        /\ stage[c] = "released" => closed[c]
        /\ stage[c] \in {"release_share", "release_total", "release_listener"} => closed[c]
        /\ inside[c] => stage[c] \in {"serving", "release_share", "release_total",
                                      "release_listener", "released"}

ConnInv == ConnTypeOK /\ ConnOrder /\ SlotsExact /\ ListenersExact

HasTotal(s, c) ==
    \/ s \in Established \cup {"share", "listener", "undo_total", "release_total"}
    \/ c \in Encrypted /\ s \in {"undo_share", "release_share"}
HasShare(s, c) ==
    c \in Encrypted /\ s \in Established \cup {"listener", "undo_share", "release_share"}
HasListener(s) ==
    s \in Established \cup {"release_share", "release_total", "release_listener"}

\* What moving a connection changes in the size of a set of connections.
LEMMA ConnRecount ==
    ASSUME NEW A \in SUBSET Conns, NEW B \in SUBSET Conns, NEW c \in Conns,
           \A d \in Conns : d # c => (d \in A <=> d \in B)
    PROVE  /\ Cardinality(A) \in Nat /\ Cardinality(B) \in Nat
           /\ Cardinality(B) = Cardinality(A) + Change(c \in A, c \in B)
           /\ c \in A => Cardinality(A) > 0
<1>1. IsFiniteSet(Conns)
  BY ConnLimitsAssumption
<1> QED
  BY <1>1, Recount

HeldOf(l) == {d \in ListenerHolders : Listener[d] = l}
HeldFrom(l, ip) == {d \in ListenerHolders : Listener[d] = l /\ IPOf[d] = ip}
InLoop(l) == {d \in Conns : inside[d] /\ Listener[d] = l}

LEMMA Holders ==
    /\ TotalHolders = {d \in Conns : HasTotal(stage[d], d)}
    /\ ShareHolders = {d \in Conns : HasShare(stage[d], d)}
    /\ ListenerHolders = {d \in Conns : HasListener(stage[d])}
<1>1. Encrypted \subseteq Conns
  BY DEF Encrypted
<1>2. ShareHolders = {d \in Conns : HasShare(stage[d], d)}
  BY <1>1 DEF ShareHolders, HasShare
<1>3. TotalHolders = {d \in Conns : HasTotal(stage[d], d)}
  BY <1>1, <1>2 DEF TotalHolders, HasTotal, HasShare, Established
<1> QED
  BY <1>2, <1>3 DEF ListenerHolders, HasListener

\* A connection that holds a slot is counted.
LEMMA Counted ==
    ASSUME ConnInv, NEW c \in Conns
    PROVE  /\ HasTotal(stage[c], c) => total > 0
           /\ HasShare(stage[c], c) => encrypted > 0
           /\ HasListener(stage[c]) => /\ active[Listener[c]] > 0
                                       /\ activeByIP[Listener[c]][IPOf[c]] > 0
           /\ inside[c] => loop[Listener[c]] > 0
<1> DEFINE l == Listener[c]
<1>1. l \in Listeners /\ IPOf[c] \in IPs
  BY ConnLimitsAssumption DEF Listeners, IPs
<1>2. \A A \in SUBSET Conns : c \in A => Cardinality(A) > 0
  BY ConnRecount
<1>3. /\ total = Cardinality(TotalHolders) /\ encrypted = Cardinality(ShareHolders)
      /\ active[l] = Cardinality(HeldOf(l)) /\ loop[l] = Cardinality(InLoop(l))
      /\ activeByIP[l][IPOf[c]] = Cardinality(HeldFrom(l, IPOf[c]))
  BY <1>1 DEF ConnInv, SlotsExact, ListenersExact, HeldOf, InLoop, HeldFrom
<1>4. /\ TotalHolders \subseteq Conns /\ ShareHolders \subseteq Conns
      /\ HeldOf(l) \subseteq Conns /\ InLoop(l) \subseteq Conns
      /\ HeldFrom(l, IPOf[c]) \subseteq Conns
  BY Holders DEF HeldOf, InLoop, HeldFrom
<1>5. /\ HasTotal(stage[c], c) => c \in TotalHolders
      /\ HasShare(stage[c], c) => c \in ShareHolders
      /\ HasListener(stage[c]) => c \in HeldOf(l) /\ c \in HeldFrom(l, IPOf[c])
      /\ inside[c] => c \in InLoop(l)
  BY Holders DEF HeldOf, InLoop, HeldFrom
<1> HIDE DEF l
<1> QED
  BY <1>2, <1>3, <1>4, <1>5 DEF l

\* The counts after a connection has moved on.
LEMMA AfterMove ==
    ASSUME ConnInv, NEW c \in Conns, NEW s \in Stages, stage' = [stage EXCEPT ![c] = s]
    PROVE  /\ Cardinality(TotalHolders') =
                 Cardinality(TotalHolders) + Change(HasTotal(stage[c], c), HasTotal(s, c))
           /\ Cardinality(ShareHolders') =
                 Cardinality(ShareHolders) + Change(HasShare(stage[c], c), HasShare(s, c))
           /\ Cardinality(TotalHolders') \in Nat /\ Cardinality(ShareHolders') \in Nat
           /\ ListenerHolders' = {d \in Conns : HasListener(stage'[d])}
<1>1. stage \in [Conns -> Stages]
  BY DEF ConnInv, ConnTypeOK
<1>2. /\ \A d \in Conns : d # c => stage'[d] = stage[d]
      /\ stage'[c] = s
  BY <1>1
<1>3. Encrypted \subseteq Conns
  BY DEF Encrypted
<1>4. ShareHolders' = {d \in Conns : HasShare(stage'[d], d)}
  BY <1>3 DEF ShareHolders, HasShare
<1>5. TotalHolders' = {d \in Conns : HasTotal(stage'[d], d)}
  BY <1>3, <1>4 DEF TotalHolders, HasTotal, HasShare, Established
<1>6. Cardinality(TotalHolders') =
          Cardinality(TotalHolders) + Change(HasTotal(stage[c], c), HasTotal(s, c))
  <2>1. TotalHolders \in SUBSET Conns /\ TotalHolders' \in SUBSET Conns
    BY <1>5, Holders
  <2>2. \A d \in Conns : d # c => (d \in TotalHolders <=> d \in TotalHolders')
    BY <1>2, <1>5, Holders
  <2>3. (c \in TotalHolders <=> HasTotal(stage[c], c)) /\ (c \in TotalHolders' <=> HasTotal(s, c))
    BY <1>2, <1>5, Holders
  <2>4. Cardinality(TotalHolders') =
            Cardinality(TotalHolders) + Change(c \in TotalHolders, c \in TotalHolders')
    BY <2>1, <2>2, ConnRecount
  <2> QED
    BY <2>3, <2>4 DEF Change
<1>7. Cardinality(ShareHolders') =
          Cardinality(ShareHolders) + Change(HasShare(stage[c], c), HasShare(s, c))
  <2>1. ShareHolders \in SUBSET Conns /\ ShareHolders' \in SUBSET Conns
    BY <1>4, Holders
  <2>2. \A d \in Conns : d # c => (d \in ShareHolders <=> d \in ShareHolders')
    BY <1>2, <1>4, Holders
  <2>3. (c \in ShareHolders <=> HasShare(stage[c], c)) /\ (c \in ShareHolders' <=> HasShare(s, c))
    BY <1>2, <1>4, Holders
  <2>4. Cardinality(ShareHolders') =
            Cardinality(ShareHolders) + Change(c \in ShareHolders, c \in ShareHolders')
    BY <2>1, <2>2, ConnRecount
  <2> QED
    BY <2>3, <2>4 DEF Change
<1>8. ListenerHolders' = {d \in Conns : HasListener(stage'[d])}
  BY DEF ListenerHolders, HasListener
<1>9. IsFiniteSet(TotalHolders') /\ IsFiniteSet(ShareHolders')
  <2>1. TotalHolders' \in SUBSET Conns /\ ShareHolders' \in SUBSET Conns
    BY <1>4, <1>5
  <2> QED
    BY <2>1, ConnLimitsAssumption, FS_Subset
<1> QED
  BY <1>6, <1>7, <1>8, <1>9, FS_CardinalityType

LEMMA OrderKept ==
    ASSUME ConnInv, NEW c \in Conns, NEW s \in Stages, NEW b \in BOOLEAN,
           stage' = [stage EXCEPT ![c] = s], inside' = [inside EXCEPT ![c] = b],
           NEW x \in BOOLEAN, closed' = [closed EXCEPT ![c] = x],
           s \in {"share", "undo_share", "release_share"} => c \in Encrypted,
           s \in {"release_share", "release_total", "release_listener", "released"} => x,
           b => s \in {"serving", "release_share", "release_total", "release_listener",
                       "released"}
    PROVE  /\ ConnOrder'
           /\ stage' \in [Conns -> Stages] /\ inside' \in [Conns -> BOOLEAN]
           /\ closed' \in [Conns -> BOOLEAN]
<1>1. /\ stage \in [Conns -> Stages] /\ inside \in [Conns -> BOOLEAN]
      /\ closed \in [Conns -> BOOLEAN] /\ ConnOrder
  BY DEF ConnInv, ConnTypeOK
<1>2. /\ stage' \in [Conns -> Stages] /\ inside' \in [Conns -> BOOLEAN]
      /\ closed' \in [Conns -> BOOLEAN]
      /\ \A d \in Conns : d # c =>
             stage'[d] = stage[d] /\ inside'[d] = inside[d] /\ closed'[d] = closed[d]
      /\ stage'[c] = s /\ inside'[c] = b /\ closed'[c] = x
  BY <1>1
<1>3. ConnOrder'
  BY <1>1, <1>2 DEF ConnOrder
<1> QED
  BY <1>2, <1>3

LEMMA Sizes == MaxConns \in Nat /\ EncryptedMax \in Nat
BY ConnLimitsAssumption DEF EncryptedMax

\* The steps that leave the limits of the listeners alone.
LEMMA Passes ==
    ASSUME ConnInv, NEW c \in Conns, NEW s \in Stages, NEW x \in BOOLEAN,
           stage' = [stage EXCEPT ![c] = s], closed' = [closed EXCEPT ![c] = x],
           UNCHANGED <<inside, active, activeByIP, loop, loopByIP>>,
           HasListener(stage[c]) <=> HasListener(s),
           NEW t \in {-1, 0, 1}, t = Change(HasTotal(stage[c], c), HasTotal(s, c)),
           NEW e \in {-1, 0, 1}, e = Change(HasShare(stage[c], c), HasShare(s, c)),
           total' = total + t, encrypted' = encrypted + e,
           total' <= MaxConns, encrypted' <= EncryptedMax,
           s \in {"share", "undo_share", "release_share"} => c \in Encrypted,
           s \in {"release_share", "release_total", "release_listener", "released"} => x,
           inside[c] => s \in {"serving", "release_share", "release_total", "release_listener",
                               "released"}
    PROVE  ConnInv'
<1>1. SlotsExact' /\ total' \in Nat /\ encrypted' \in Nat
  BY AfterMove DEF ConnInv, SlotsExact
<1>2. inside[c] \in BOOLEAN /\ inside' = [inside EXCEPT ![c] = inside[c]]
  BY DEF ConnInv, ConnTypeOK
<1>3. /\ ConnOrder'
      /\ stage' \in [Conns -> Stages] /\ inside' \in [Conns -> BOOLEAN]
      /\ closed' \in [Conns -> BOOLEAN]
  BY <1>2, OrderKept
<1>4. ConnTypeOK'
  <2>1. total' \in 0 .. MaxConns /\ encrypted' \in 0 .. EncryptedMax
    BY <1>1, Sizes
  <2>2. UNCHANGED EncryptedMax
    BY DEF EncryptedMax
  <2> QED
    BY <1>3, <2>1, <2>2 DEF ConnInv, ConnTypeOK
<1>5. ListenerHolders' = ListenerHolders
  <2>1. stage \in [Conns -> Stages]
    BY DEF ConnInv, ConnTypeOK
  <2>2. \A d \in Conns : HasListener(stage'[d]) <=> HasListener(stage[d])
    BY <2>1
  <2>3. ListenerHolders' = {d \in Conns : HasListener(stage'[d])}
    BY AfterMove
  <2> QED
    BY <2>2, <2>3, Holders
<1>6. ListenersExact'
  BY <1>5 DEF ConnInv, ListenersExact
<1> QED
  BY <1>1, <1>3, <1>4, <1>6 DEF ConnInv

LEMMA AcceptConnSafe ==
    ASSUME ConnInv, NEW c \in Conns, AcceptConn(c)
    PROVE  ConnInv'
<1>1. /\ total \in Nat /\ encrypted \in Nat /\ total <= MaxConns /\ encrypted <= EncryptedMax
      /\ closed[c] \in BOOLEAN /\ closed = [closed EXCEPT ![c] = closed[c]]
      /\ MaxConns \in Nat /\ EncryptedMax \in Nat
  BY Sizes DEF ConnInv, ConnTypeOK
<1>2. UNCHANGED <<closed, inside, active, activeByIP, loop, loopByIP>>
  BY DEF AcceptConn
<1>3. /\ stage[c] \in {"share", "undo_share", "release_share"} => c \in Encrypted
      /\ stage[c] \in {"release_share", "release_total", "release_listener"} => closed[c]
      /\ inside[c] => stage[c] \in {"serving", "release_share", "release_total",
                                    "release_listener", "released"}
      /\ HasTotal(stage[c], c) => total > 0
      /\ HasShare(stage[c], c) => encrypted > 0
  BY Counted DEF ConnInv, ConnOrder
<1>4. \/ /\ stage[c] = "none" /\ stage' = [stage EXCEPT ![c] = "total"]
         /\ UNCHANGED <<total, encrypted>>
  BY DEF AcceptConn, Moves
<1>5. CASE /\ stage[c] = "none" /\ stage' = [stage EXCEPT ![c] = "total"]
           /\ UNCHANGED <<total, encrypted>>
  <2>1. /\ "total" \in Stages /\ (HasListener(stage[c]) <=> HasListener("total"))
        /\ Change(HasTotal(stage[c], c), HasTotal("total", c)) = 0
        /\ Change(HasShare(stage[c], c), HasShare("total", c)) = 0
    BY <1>3, <1>5 DEF Stages, Change, HasTotal, HasShare, HasListener, Established
  <2>2. total' = total + 0 /\ total' <= MaxConns
    BY <1>1, <1>3, <1>5 DEF Less, HasTotal, Established
  <2>3. encrypted' = encrypted + 0 /\ encrypted' <= EncryptedMax
    BY <1>1, <1>3, <1>5 DEF Less, HasShare, Established
  <2> QED
    BY <1>1, <1>2, <1>3, <1>5, <2>1, <2>2, <2>3, Passes
<1> QED
  BY <1>4, <1>5

LEMMA ReserveTotalSafe ==
    ASSUME ConnInv, NEW c \in Conns, ReserveTotal(c)
    PROVE  ConnInv'
<1>1. /\ total \in Nat /\ encrypted \in Nat /\ total <= MaxConns /\ encrypted <= EncryptedMax
      /\ closed[c] \in BOOLEAN /\ closed = [closed EXCEPT ![c] = closed[c]]
      /\ MaxConns \in Nat /\ EncryptedMax \in Nat
  BY Sizes DEF ConnInv, ConnTypeOK
<1>2. UNCHANGED <<closed, inside, active, activeByIP, loop, loopByIP>>
  BY DEF ReserveTotal
<1>3. /\ stage[c] \in {"share", "undo_share", "release_share"} => c \in Encrypted
      /\ stage[c] \in {"release_share", "release_total", "release_listener"} => closed[c]
      /\ inside[c] => stage[c] \in {"serving", "release_share", "release_total",
                                    "release_listener", "released"}
      /\ HasTotal(stage[c], c) => total > 0
      /\ HasShare(stage[c], c) => encrypted > 0
  BY Counted DEF ConnInv, ConnOrder
<1>4. \/ /\ stage[c] = "total"
         /\ stage' = [stage EXCEPT ![c] = IF c \in Encrypted THEN "share" ELSE "listener"]
         /\ total < MaxConns /\ total' = total + 1 /\ UNCHANGED encrypted
      \/ /\ stage[c] = "total" /\ stage' = [stage EXCEPT ![c] = "none"]
         /\ UNCHANGED <<total, encrypted>>
  BY DEF ReserveTotal, Moves
<1>5. CASE /\ stage[c] = "total"
           /\ stage' = [stage EXCEPT ![c] = IF c \in Encrypted THEN "share" ELSE "listener"]
           /\ total < MaxConns /\ total' = total + 1 /\ UNCHANGED encrypted
  <2>1. /\ (IF c \in Encrypted THEN "share" ELSE "listener") \in Stages /\ (HasListener(stage[c]) <=> HasListener((IF c \in Encrypted THEN "share" ELSE "listener")))
        /\ Change(HasTotal(stage[c], c), HasTotal((IF c \in Encrypted THEN "share" ELSE "listener"), c)) = 1
        /\ Change(HasShare(stage[c], c), HasShare((IF c \in Encrypted THEN "share" ELSE "listener"), c)) = 0
    BY <1>3, <1>5 DEF Stages, Change, HasTotal, HasShare, HasListener, Established
  <2>2. total' = total + 1 /\ total' <= MaxConns
    BY <1>1, <1>3, <1>5 DEF Less, HasTotal, Established
  <2>3. encrypted' = encrypted + 0 /\ encrypted' <= EncryptedMax
    BY <1>1, <1>3, <1>5 DEF Less, HasShare, Established
  <2> QED
    BY <1>1, <1>2, <1>3, <1>5, <2>1, <2>2, <2>3, Passes
<1>6. CASE /\ stage[c] = "total" /\ stage' = [stage EXCEPT ![c] = "none"]
           /\ UNCHANGED <<total, encrypted>>
  <2>1. /\ "none" \in Stages /\ (HasListener(stage[c]) <=> HasListener("none"))
        /\ Change(HasTotal(stage[c], c), HasTotal("none", c)) = 0
        /\ Change(HasShare(stage[c], c), HasShare("none", c)) = 0
    BY <1>3, <1>6 DEF Stages, Change, HasTotal, HasShare, HasListener, Established
  <2>2. total' = total + 0 /\ total' <= MaxConns
    BY <1>1, <1>3, <1>6 DEF Less, HasTotal, Established
  <2>3. encrypted' = encrypted + 0 /\ encrypted' <= EncryptedMax
    BY <1>1, <1>3, <1>6 DEF Less, HasShare, Established
  <2> QED
    BY <1>1, <1>2, <1>3, <1>6, <2>1, <2>2, <2>3, Passes
<1> QED
  BY <1>4, <1>5, <1>6

LEMMA ReserveShareSafe ==
    ASSUME ConnInv, NEW c \in Conns, ReserveShare(c)
    PROVE  ConnInv'
<1>1. /\ total \in Nat /\ encrypted \in Nat /\ total <= MaxConns /\ encrypted <= EncryptedMax
      /\ closed[c] \in BOOLEAN /\ closed = [closed EXCEPT ![c] = closed[c]]
      /\ MaxConns \in Nat /\ EncryptedMax \in Nat
  BY Sizes DEF ConnInv, ConnTypeOK
<1>2. UNCHANGED <<closed, inside, active, activeByIP, loop, loopByIP>>
  BY DEF ReserveShare
<1>3. /\ stage[c] \in {"share", "undo_share", "release_share"} => c \in Encrypted
      /\ stage[c] \in {"release_share", "release_total", "release_listener"} => closed[c]
      /\ inside[c] => stage[c] \in {"serving", "release_share", "release_total",
                                    "release_listener", "released"}
      /\ HasTotal(stage[c], c) => total > 0
      /\ HasShare(stage[c], c) => encrypted > 0
  BY Counted DEF ConnInv, ConnOrder
<1>4. \/ /\ stage[c] = "share" /\ stage' = [stage EXCEPT ![c] = "listener"]
         /\ encrypted < EncryptedMax /\ encrypted' = encrypted + 1 /\ UNCHANGED total
      \/ /\ stage[c] = "share" /\ stage' = [stage EXCEPT ![c] = "undo_total"]
         /\ UNCHANGED <<total, encrypted>>
  BY DEF ReserveShare, Moves
<1>5. CASE /\ stage[c] = "share" /\ stage' = [stage EXCEPT ![c] = "listener"]
           /\ encrypted < EncryptedMax /\ encrypted' = encrypted + 1 /\ UNCHANGED total
  <2>1. /\ "listener" \in Stages /\ (HasListener(stage[c]) <=> HasListener("listener"))
        /\ Change(HasTotal(stage[c], c), HasTotal("listener", c)) = 0
        /\ Change(HasShare(stage[c], c), HasShare("listener", c)) = 1
    BY <1>3, <1>5 DEF Stages, Change, HasTotal, HasShare, HasListener, Established
  <2>2. total' = total + 0 /\ total' <= MaxConns
    BY <1>1, <1>3, <1>5 DEF Less, HasTotal, Established
  <2>3. encrypted' = encrypted + 1 /\ encrypted' <= EncryptedMax
    BY <1>1, <1>3, <1>5 DEF Less, HasShare, Established
  <2> QED
    BY <1>1, <1>2, <1>3, <1>5, <2>1, <2>2, <2>3, Passes
<1>6. CASE /\ stage[c] = "share" /\ stage' = [stage EXCEPT ![c] = "undo_total"]
           /\ UNCHANGED <<total, encrypted>>
  <2>1. /\ "undo_total" \in Stages /\ (HasListener(stage[c]) <=> HasListener("undo_total"))
        /\ Change(HasTotal(stage[c], c), HasTotal("undo_total", c)) = 0
        /\ Change(HasShare(stage[c], c), HasShare("undo_total", c)) = 0
    BY <1>3, <1>6 DEF Stages, Change, HasTotal, HasShare, HasListener, Established
  <2>2. total' = total + 0 /\ total' <= MaxConns
    BY <1>1, <1>3, <1>6 DEF Less, HasTotal, Established
  <2>3. encrypted' = encrypted + 0 /\ encrypted' <= EncryptedMax
    BY <1>1, <1>3, <1>6 DEF Less, HasShare, Established
  <2> QED
    BY <1>1, <1>2, <1>3, <1>6, <2>1, <2>2, <2>3, Passes
<1> QED
  BY <1>4, <1>5, <1>6

LEMMA ReleaseShareSafe ==
    ASSUME ConnInv, NEW c \in Conns, ReleaseShare(c)
    PROVE  ConnInv'
<1>1. /\ total \in Nat /\ encrypted \in Nat /\ total <= MaxConns /\ encrypted <= EncryptedMax
      /\ closed[c] \in BOOLEAN /\ closed = [closed EXCEPT ![c] = closed[c]]
      /\ MaxConns \in Nat /\ EncryptedMax \in Nat
  BY Sizes DEF ConnInv, ConnTypeOK
<1>2. UNCHANGED <<closed, inside, active, activeByIP, loop, loopByIP>>
  BY DEF ReleaseShare
<1>3. /\ stage[c] \in {"share", "undo_share", "release_share"} => c \in Encrypted
      /\ stage[c] \in {"release_share", "release_total", "release_listener"} => closed[c]
      /\ inside[c] => stage[c] \in {"serving", "release_share", "release_total",
                                    "release_listener", "released"}
      /\ HasTotal(stage[c], c) => total > 0
      /\ HasShare(stage[c], c) => encrypted > 0
  BY Counted DEF ConnInv, ConnOrder
<1>4. \/ /\ stage[c] = "undo_share" /\ stage' = [stage EXCEPT ![c] = "undo_total"]
         /\ encrypted' = Less(encrypted) /\ UNCHANGED total
      \/ /\ stage[c] = "release_share" /\ stage' = [stage EXCEPT ![c] = "release_total"]
         /\ encrypted' = Less(encrypted) /\ UNCHANGED total
  BY DEF ReleaseShare, Moves
<1>5. CASE /\ stage[c] = "undo_share" /\ stage' = [stage EXCEPT ![c] = "undo_total"]
           /\ encrypted' = Less(encrypted) /\ UNCHANGED total
  <2>1. /\ "undo_total" \in Stages /\ (HasListener(stage[c]) <=> HasListener("undo_total"))
        /\ Change(HasTotal(stage[c], c), HasTotal("undo_total", c)) = 0
        /\ Change(HasShare(stage[c], c), HasShare("undo_total", c)) = (-1)
    BY <1>3, <1>5 DEF Stages, Change, HasTotal, HasShare, HasListener, Established
  <2>2. total' = total + 0 /\ total' <= MaxConns
    BY <1>1, <1>3, <1>5 DEF Less, HasTotal, Established
  <2>3. encrypted' = encrypted + (-1) /\ encrypted' <= EncryptedMax
    BY <1>1, <1>3, <1>5 DEF Less, HasShare, Established
  <2> QED
    BY <1>1, <1>2, <1>3, <1>5, <2>1, <2>2, <2>3, Passes
<1>6. CASE /\ stage[c] = "release_share" /\ stage' = [stage EXCEPT ![c] = "release_total"]
           /\ encrypted' = Less(encrypted) /\ UNCHANGED total
  <2>1. /\ "release_total" \in Stages /\ (HasListener(stage[c]) <=> HasListener("release_total"))
        /\ Change(HasTotal(stage[c], c), HasTotal("release_total", c)) = 0
        /\ Change(HasShare(stage[c], c), HasShare("release_total", c)) = (-1)
    BY <1>3, <1>6 DEF Stages, Change, HasTotal, HasShare, HasListener, Established
  <2>2. total' = total + 0 /\ total' <= MaxConns
    BY <1>1, <1>3, <1>6 DEF Less, HasTotal, Established
  <2>3. encrypted' = encrypted + (-1) /\ encrypted' <= EncryptedMax
    BY <1>1, <1>3, <1>6 DEF Less, HasShare, Established
  <2> QED
    BY <1>1, <1>2, <1>3, <1>6, <2>1, <2>2, <2>3, Passes
<1> QED
  BY <1>4, <1>5, <1>6

LEMMA ReleaseTotalSafe ==
    ASSUME ConnInv, NEW c \in Conns, ReleaseTotal(c)
    PROVE  ConnInv'
<1>1. /\ total \in Nat /\ encrypted \in Nat /\ total <= MaxConns /\ encrypted <= EncryptedMax
      /\ closed[c] \in BOOLEAN /\ closed = [closed EXCEPT ![c] = closed[c]]
      /\ MaxConns \in Nat /\ EncryptedMax \in Nat
  BY Sizes DEF ConnInv, ConnTypeOK
<1>2. UNCHANGED <<closed, inside, active, activeByIP, loop, loopByIP>>
  BY DEF ReleaseTotal
<1>3. /\ stage[c] \in {"share", "undo_share", "release_share"} => c \in Encrypted
      /\ stage[c] \in {"release_share", "release_total", "release_listener"} => closed[c]
      /\ inside[c] => stage[c] \in {"serving", "release_share", "release_total",
                                    "release_listener", "released"}
      /\ HasTotal(stage[c], c) => total > 0
      /\ HasShare(stage[c], c) => encrypted > 0
  BY Counted DEF ConnInv, ConnOrder
<1>4. \/ /\ stage[c] = "undo_total" /\ stage' = [stage EXCEPT ![c] = "none"]
         /\ total' = Less(total) /\ UNCHANGED encrypted
      \/ /\ stage[c] = "release_total" /\ stage' = [stage EXCEPT ![c] = "release_listener"]
         /\ total' = Less(total) /\ UNCHANGED encrypted
  BY DEF ReleaseTotal, Moves
<1>5. CASE /\ stage[c] = "undo_total" /\ stage' = [stage EXCEPT ![c] = "none"]
           /\ total' = Less(total) /\ UNCHANGED encrypted
  <2>1. /\ "none" \in Stages /\ (HasListener(stage[c]) <=> HasListener("none"))
        /\ Change(HasTotal(stage[c], c), HasTotal("none", c)) = (-1)
        /\ Change(HasShare(stage[c], c), HasShare("none", c)) = 0
    BY <1>3, <1>5 DEF Stages, Change, HasTotal, HasShare, HasListener, Established
  <2>2. total' = total + (-1) /\ total' <= MaxConns
    BY <1>1, <1>3, <1>5 DEF Less, HasTotal, Established
  <2>3. encrypted' = encrypted + 0 /\ encrypted' <= EncryptedMax
    BY <1>1, <1>3, <1>5 DEF Less, HasShare, Established
  <2> QED
    BY <1>1, <1>2, <1>3, <1>5, <2>1, <2>2, <2>3, Passes
<1>6. CASE /\ stage[c] = "release_total" /\ stage' = [stage EXCEPT ![c] = "release_listener"]
           /\ total' = Less(total) /\ UNCHANGED encrypted
  <2>1. /\ "release_listener" \in Stages /\ (HasListener(stage[c]) <=> HasListener("release_listener"))
        /\ Change(HasTotal(stage[c], c), HasTotal("release_listener", c)) = (-1)
        /\ Change(HasShare(stage[c], c), HasShare("release_listener", c)) = 0
    BY <1>3, <1>6 DEF Stages, Change, HasTotal, HasShare, HasListener, Established
  <2>2. total' = total + (-1) /\ total' <= MaxConns
    BY <1>1, <1>3, <1>6 DEF Less, HasTotal, Established
  <2>3. encrypted' = encrypted + 0 /\ encrypted' <= EncryptedMax
    BY <1>1, <1>3, <1>6 DEF Less, HasShare, Established
  <2> QED
    BY <1>1, <1>2, <1>3, <1>6, <2>1, <2>2, <2>3, Passes
<1> QED
  BY <1>4, <1>5, <1>6

HeldChange(c, s) == Change(HasListener(stage[c]), HasListener(s))
LoopChange(c, b) == Change(inside[c], b)

\* The limits of a listener follow a connection that comes or goes.
Follow(c, held, in) ==
    \A l \in Listeners :
        /\ active'[l] = active[l] + (IF l = Listener[c] THEN held ELSE 0)
        /\ loop'[l] = loop[l] + (IF l = Listener[c] THEN in ELSE 0)
        /\ \A ip \in IPs :
              activeByIP'[l][ip] =
                  activeByIP[l][ip] + (IF l = Listener[c] /\ ip = IPOf[c] THEN held ELSE 0)

LEMMA ListenersFollow ==
    ASSUME ConnInv, NEW c \in Conns, NEW s \in Stages, NEW b \in BOOLEAN,
           stage' = [stage EXCEPT ![c] = s], inside' = [inside EXCEPT ![c] = b],
           Follow(c, HeldChange(c, s), LoopChange(c, b))
    PROVE  ListenersExact'
<1>0. \A l \in Listeners :
         /\ active'[l] = active[l] + (IF l = Listener[c]
               THEN Change(HasListener(stage[c]), HasListener(s)) ELSE 0)
         /\ loop'[l] = loop[l] + (IF l = Listener[c] THEN Change(inside[c], b) ELSE 0)
         /\ \A ip \in IPs :
               activeByIP'[l][ip] = activeByIP[l][ip] + (IF l = Listener[c] /\ ip = IPOf[c]
                  THEN Change(HasListener(stage[c]), HasListener(s)) ELSE 0)
  BY DEF Follow, HeldChange, LoopChange
<1>a. stage \in [Conns -> Stages] /\ inside \in [Conns -> BOOLEAN]
  BY DEF ConnInv, ConnTypeOK
<1>b. /\ \A d \in Conns : d # c => stage'[d] = stage[d] /\ inside'[d] = inside[d]
      /\ stage'[c] = s /\ inside'[c] = b
  BY <1>a
<1>c. ListenerHolders' = {d \in Conns : HasListener(stage'[d])}
  BY AfterMove
<1> DEFINE Of(l) == {d \in ListenerHolders' : Listener[d] = l}
           From(l, ip) == {d \in ListenerHolders' : Listener[d] = l /\ IPOf[d] = ip}
           In(l) == {d \in Conns : inside'[d] /\ Listener[d] = l}
<1> SUFFICES ASSUME NEW l \in Listeners
             PROVE  /\ active'[l] = Cardinality(Of(l)) /\ loop'[l] = Cardinality(In(l))
                    /\ \A ip \in IPs : activeByIP'[l][ip] = Cardinality(From(l, ip))
  BY DEF ListenersExact
<1>1. /\ active[l] = Cardinality(HeldOf(l)) /\ loop[l] = Cardinality(InLoop(l))
      /\ \A ip \in IPs : activeByIP[l][ip] = Cardinality(HeldFrom(l, ip))
  BY DEF ConnInv, ListenersExact, HeldOf, InLoop, HeldFrom
<1>2. active'[l] = Cardinality(Of(l))
  <2>1. HeldOf(l) \in SUBSET Conns /\ Of(l) \in SUBSET Conns
    BY <1>c, Holders DEF HeldOf
  <2>2. \A d \in Conns : d # c => (d \in HeldOf(l) <=> d \in Of(l))
    BY <1>b, <1>c, Holders DEF HeldOf
  <2>3. /\ (c \in HeldOf(l)) = (HasListener(stage[c]) /\ l = Listener[c])
        /\ (c \in Of(l)) = (HasListener(s) /\ l = Listener[c])
    BY <1>b, <1>c, Holders DEF HeldOf
  <2> HIDE DEF Of
  <2>4. Cardinality(Of(l)) = Cardinality(HeldOf(l)) + Change(c \in HeldOf(l), c \in Of(l))
    BY <2>1, <2>2, ConnRecount
  <2>5. Change(c \in HeldOf(l), c \in Of(l)) =
            IF l = Listener[c] THEN Change(HasListener(stage[c]), HasListener(s)) ELSE 0
    BY <2>3 DEF Change
  <2> QED
    BY <1>0, <1>1, <2>4, <2>5
<1>3. loop'[l] = Cardinality(In(l))
  <2>1. InLoop(l) \in SUBSET Conns /\ In(l) \in SUBSET Conns
    BY DEF InLoop
  <2>2. \A d \in Conns : d # c => (d \in InLoop(l) <=> d \in In(l))
    BY <1>b DEF InLoop
  <2>3. /\ (c \in InLoop(l)) = (inside[c] /\ l = Listener[c])
        /\ (c \in In(l)) = (b /\ l = Listener[c])
    BY <1>b DEF InLoop
  <2> HIDE DEF In
  <2>4. Cardinality(In(l)) = Cardinality(InLoop(l)) + Change(c \in InLoop(l), c \in In(l))
    BY <2>1, <2>2, ConnRecount
  <2>5. Change(c \in InLoop(l), c \in In(l)) =
            IF l = Listener[c] THEN Change(inside[c], b) ELSE 0
    BY <1>a, <2>3 DEF Change
  <2> QED
    BY <1>0, <1>1, <2>4, <2>5
<1>4. ASSUME NEW ip \in IPs
      PROVE  activeByIP'[l][ip] = Cardinality(From(l, ip))
  <2>1. HeldFrom(l, ip) \in SUBSET Conns /\ From(l, ip) \in SUBSET Conns
    BY <1>c, Holders DEF HeldFrom
  <2>2. \A d \in Conns : d # c => (d \in HeldFrom(l, ip) <=> d \in From(l, ip))
    BY <1>b, <1>c, Holders DEF HeldFrom
  <2>3. /\ (c \in HeldFrom(l, ip)) = (HasListener(stage[c]) /\ l = Listener[c] /\ ip = IPOf[c])
        /\ (c \in From(l, ip)) = (HasListener(s) /\ l = Listener[c] /\ ip = IPOf[c])
    BY <1>b, <1>c, Holders DEF HeldFrom
  <2> HIDE DEF From
  <2>4. Cardinality(From(l, ip)) =
            Cardinality(HeldFrom(l, ip)) + Change(c \in HeldFrom(l, ip), c \in From(l, ip))
    BY <2>1, <2>2, ConnRecount
  <2>5. Change(c \in HeldFrom(l, ip), c \in From(l, ip)) =
            IF l = Listener[c] /\ ip = IPOf[c]
            THEN Change(HasListener(stage[c]), HasListener(s)) ELSE 0
    BY <2>3 DEF Change
  <2> QED
    BY <1>0, <1>1, <2>4, <2>5
<1> QED
  BY <1>2, <1>3, <1>4

LEMMA SlotsSame ==
    ASSUME ConnInv, NEW c \in Conns, NEW s \in Stages, stage' = [stage EXCEPT ![c] = s],
           HasTotal(stage[c], c) <=> HasTotal(s, c),
           HasShare(stage[c], c) <=> HasShare(s, c),
           UNCHANGED <<total, encrypted>>
    PROVE  SlotsExact'
<1>1. /\ Change(HasTotal(stage[c], c), HasTotal(s, c)) = 0
      /\ Change(HasShare(stage[c], c), HasShare(s, c)) = 0
  BY DEF Change
<1>2. /\ total = Cardinality(TotalHolders) /\ encrypted = Cardinality(ShareHolders)
      /\ total \in Nat /\ encrypted \in Nat
  BY Sizes DEF ConnInv, SlotsExact, ConnTypeOK
<1>3. /\ Cardinality(TotalHolders') = Cardinality(TotalHolders)
      /\ Cardinality(ShareHolders') = Cardinality(ShareHolders)
  <2>1. /\ Cardinality(TotalHolders') =
              Cardinality(TotalHolders) + Change(HasTotal(stage[c], c), HasTotal(s, c))
        /\ Cardinality(ShareHolders') =
              Cardinality(ShareHolders) + Change(HasShare(stage[c], c), HasShare(s, c))
    BY AfterMove
  <2> QED
    BY <1>1, <1>2, <2>1
<1> QED
  BY <1>2, <1>3 DEF SlotsExact

LEMMA CloseConnSafe ==
    ASSUME ConnInv, NEW c \in Conns, CloseConn(c)
    PROVE  ConnInv'
<1>1. CASE closed[c]
  <2>1. closed' = closed
    BY <1>1 DEF CloseConn, ConnInv, ConnTypeOK
  <2>2. UNCHANGED <<stage, inside, total, encrypted, active, activeByIP, loop, loopByIP>>
    BY <1>1 DEF CloseConn
  <2> QED
    <3>1. ConnTypeOK' /\ ConnOrder'
      BY <2>1, <2>2 DEF ConnInv, ConnTypeOK, ConnOrder, EncryptedMax
    <3>2. /\ TotalHolders' = TotalHolders /\ ShareHolders' = ShareHolders
          /\ ListenerHolders' = ListenerHolders
      BY <2>2 DEF TotalHolders, ShareHolders, ListenerHolders
    <3>3. SlotsExact' /\ ListenersExact'
      BY <2>2, <3>2 DEF ConnInv, SlotsExact, ListenersExact
    <3> QED
      BY <3>1, <3>3 DEF ConnInv
<1>2. CASE ~closed[c]
  <2> DEFINE s == Placed(c)
  <2>1. /\ stage[c] \in {"refused", "serving"}
        /\ stage' = [stage EXCEPT ![c] = s] /\ closed' = [closed EXCEPT ![c] = TRUE]
        /\ UNCHANGED <<inside, total, encrypted, active, activeByIP, loop, loopByIP>>
    BY <1>2 DEF CloseConn, ConnInv, ConnOrder
  <2>2. /\ total \in Nat /\ encrypted \in Nat /\ total <= MaxConns /\ encrypted <= EncryptedMax
        /\ MaxConns \in Nat /\ EncryptedMax \in Nat
    BY Sizes DEF ConnInv, ConnTypeOK
  <2>3. /\ s \in Stages /\ (HasListener(stage[c]) <=> HasListener(s))
        /\ Change(HasTotal(stage[c], c), HasTotal(s, c)) = 0
        /\ Change(HasShare(stage[c], c), HasShare(s, c)) = 0
        /\ s \in {"release_share", "release_total"}
        /\ s = "release_share" => c \in Encrypted
    BY <2>1 DEF Placed, Stages, Change, HasTotal, HasShare, HasListener, Established
  <2>4. total' = total + 0 /\ encrypted' = encrypted + 0
    BY <2>1, <2>2
  <2> HIDE DEF s
  <2> QED
    BY <2>1, <2>2, <2>3, <2>4, Passes
<1> QED
  BY <1>1, <1>2

LEMMA ReserveListenerSafe ==
    ASSUME ConnInv, NEW c \in Conns, ReserveListener(c)
    PROVE  ConnInv'
<1> DEFINE l == Listener[c]
           ip == IPOf[c]
<1>1. /\ l \in Listeners /\ ip \in IPs /\ ConnTypeOK
      /\ active \in [Listeners -> 0 .. MaxConns] /\ loop \in [Listeners -> 0 .. MaxConns]
      /\ activeByIP \in [Listeners -> [IPs -> Nat]] /\ loopByIP \in [Listeners -> [IPs -> Nat]]
      /\ inside[c] \in BOOLEAN /\ inside = [inside EXCEPT ![c] = inside[c]]
      /\ closed[c] \in BOOLEAN /\ closed = [closed EXCEPT ![c] = closed[c]]
      /\ MaxConns \in Nat
  BY Sizes, ConnLimitsAssumption DEF ConnInv, ConnTypeOK, Listeners, IPs
<1>2. CASE /\ Allowed(active[l], activeByIP[l][ip])
           /\ active' = Counts(active, c, active[l] + 1)
           /\ activeByIP' = CountsIP(activeByIP, c, activeByIP[l][ip] + 1)
           /\ Moves(c, "listener", IF l = "doh" THEN "serving" ELSE "loop")
           /\ UNCHANGED <<closed, inside, total, encrypted, loop, loopByIP>>
  <2> DEFINE s == IF l = "doh" THEN "serving" ELSE "loop"
  <2>1. /\ stage[c] = "listener" /\ stage' = [stage EXCEPT ![c] = s] /\ ~inside[c]
        /\ inside' = [inside EXCEPT ![c] = inside[c]] /\ closed' = [closed EXCEPT ![c] = closed[c]]
    BY <1>1, <1>2 DEF Moves, ConnInv, ConnOrder
  <2>2. /\ s \in Stages /\ s \in {"serving", "loop"}
        /\ HasTotal(stage[c], c) <=> HasTotal(s, c)
        /\ HasShare(stage[c], c) <=> HasShare(s, c)
        /\ HeldChange(c, s) = 1 /\ LoopChange(c, inside[c]) = 0
    BY <2>1 DEF Stages, Change, HeldChange, LoopChange, HasTotal, HasShare, HasListener, Established
  <2> HIDE DEF s
  <2>3. /\ active' = [active EXCEPT ![l] = active[l] + 1] /\ active[l] < MaxConns
        /\ activeByIP' = [activeByIP EXCEPT ![l] = [@ EXCEPT ![ip] = activeByIP[l][ip] + 1]]
    BY <1>2 DEF Allowed, Counts, CountsIP
  <2>4. /\ active' \in [Listeners -> 0 .. MaxConns]
        /\ \A m \in Listeners : active'[m] = active[m] + (IF m = l THEN 1 ELSE 0)
    BY <1>1, <2>3
  <2>5. /\ activeByIP' \in [Listeners -> [IPs -> Nat]]
        /\ \A m \in Listeners, k \in IPs :
              activeByIP'[m][k] = activeByIP[m][k] + (IF m = l /\ k = ip THEN 1 ELSE 0)
    BY <1>1, <2>3
  <2>6. \A m \in Listeners : loop'[m] = loop[m] + (IF m = l THEN 0 ELSE 0)
    BY <1>1, <1>2
  <2>7. ListenersExact'
    <3>1. Follow(c, 1, 0)
      BY <2>4, <2>5, <2>6 DEF Follow
    <3>2. Follow(c, HeldChange(c, s), LoopChange(c, inside[c]))
      BY <2>2, <3>1
    <3> HIDE DEF l, ip
    <3> QED
      BY <1>1, <2>1, <2>2, <3>2, ListenersFollow
  <2>8. SlotsExact'
    BY <1>2, <2>1, <2>2, SlotsSame
  <2>9. /\ ConnOrder' /\ stage' \in [Conns -> Stages] /\ inside' \in [Conns -> BOOLEAN]
        /\ closed' \in [Conns -> BOOLEAN]
    BY <1>1, <2>1, <2>2, OrderKept
  <2> QED
    BY <1>1, <1>2, <2>4, <2>5, <2>7, <2>8, <2>9 DEF ConnInv, ConnTypeOK, EncryptedMax
<1>3. CASE /\ Moves(c, "listener", IF c \in Encrypted THEN "undo_share" ELSE "undo_total")
           /\ UNCHANGED <<active, activeByIP, closed, inside, total, encrypted, loop, loopByIP>>
  <2> DEFINE s == IF c \in Encrypted THEN "undo_share" ELSE "undo_total"
  <2>1. /\ stage[c] = "listener" /\ stage' = [stage EXCEPT ![c] = s] /\ ~inside[c]
        /\ closed' = [closed EXCEPT ![c] = closed[c]]
    BY <1>1, <1>3 DEF Moves, ConnInv, ConnOrder
  <2>2. /\ total \in Nat /\ encrypted \in Nat /\ total <= MaxConns /\ encrypted <= EncryptedMax
        /\ MaxConns \in Nat /\ EncryptedMax \in Nat
    BY Sizes DEF ConnInv, ConnTypeOK
  <2>3. /\ s \in Stages /\ (HasListener(stage[c]) <=> HasListener(s))
        /\ Change(HasTotal(stage[c], c), HasTotal(s, c)) = 0
        /\ Change(HasShare(stage[c], c), HasShare(s, c)) = 0
        /\ s \in {"undo_share", "undo_total"}
        /\ s = "undo_share" => c \in Encrypted
    BY <2>1 DEF Stages, Change, HasTotal, HasShare, HasListener, Established
  <2>4. total' = total + 0 /\ encrypted' = encrypted + 0
    BY <1>3, <2>2
  <2> HIDE DEF s
  <2> QED
    BY <1>1, <1>3, <2>1, <2>2, <2>3, <2>4, Passes
<1> QED
  BY <1>2, <1>3 DEF ReserveListener

LEMMA ReserveLoopSafe ==
    ASSUME ConnInv, NEW c \in Conns, ReserveLoop(c)
    PROVE  ConnInv'
<1> DEFINE l == Listener[c]
           ip == IPOf[c]
<1>1. /\ l \in Listeners /\ ip \in IPs /\ ConnTypeOK
      /\ active \in [Listeners -> 0 .. MaxConns] /\ loop \in [Listeners -> 0 .. MaxConns]
      /\ activeByIP \in [Listeners -> [IPs -> Nat]] /\ loopByIP \in [Listeners -> [IPs -> Nat]]
      /\ inside[c] \in BOOLEAN /\ inside = [inside EXCEPT ![c] = inside[c]]
      /\ closed[c] \in BOOLEAN /\ closed = [closed EXCEPT ![c] = closed[c]]
      /\ MaxConns \in Nat
  BY Sizes, ConnLimitsAssumption DEF ConnInv, ConnTypeOK, Listeners, IPs
<1>2. stage[c] = "loop" /\ ~inside[c]
  BY DEF ReserveLoop, Moves, ConnInv, ConnOrder
<1>3. CASE /\ Allowed(loop[l], loopByIP[l][ip])
           /\ loop' = Counts(loop, c, loop[l] + 1)
           /\ loopByIP' = (IF PerIP > 0 THEN CountsIP(loopByIP, c, loopByIP[l][ip] + 1)
                           ELSE loopByIP)
           /\ inside' = [inside EXCEPT ![c] = TRUE]
           /\ Moves(c, "loop", "serving")
           /\ UNCHANGED <<closed, total, encrypted, active, activeByIP>>
  <2>1. /\ stage' = [stage EXCEPT ![c] = "serving"]
        /\ closed' = [closed EXCEPT ![c] = closed[c]]
    BY <1>1, <1>3 DEF Moves
  <2>2. /\ "serving" \in Stages
        /\ HasTotal(stage[c], c) <=> HasTotal("serving", c)
        /\ HasShare(stage[c], c) <=> HasShare("serving", c)
        /\ HeldChange(c, "serving") = 0 /\ LoopChange(c, TRUE) = 1
    BY <1>2 DEF Stages, Change, HeldChange, LoopChange, HasTotal, HasShare, HasListener, Established
  <2>3. /\ loop' = [loop EXCEPT ![l] = loop[l] + 1] /\ loop[l] < MaxConns
        /\ \/ loopByIP' = [loopByIP EXCEPT ![l] = [@ EXCEPT ![ip] = loopByIP[l][ip] + 1]]
           \/ loopByIP' = loopByIP
    BY <1>3 DEF Allowed, Counts, CountsIP
  <2>4. /\ loop' \in [Listeners -> 0 .. MaxConns]
        /\ \A m \in Listeners : loop'[m] = loop[m] + (IF m = l THEN 1 ELSE 0)
    BY <1>1, <2>3
  <2>5. loopByIP' \in [Listeners -> [IPs -> Nat]]
    <3>1. loopByIP[l][ip] + 1 \in Nat
      BY <1>1
    <3>2. CASE loopByIP' = [loopByIP EXCEPT ![l] = [@ EXCEPT ![ip] = loopByIP[l][ip] + 1]]
      BY <1>1, <3>1, <3>2
    <3> QED
      BY <1>1, <2>3, <3>2
  <2>6. \A m \in Listeners :
           /\ active'[m] = active[m] + (IF m = l THEN 0 ELSE 0)
           /\ \A k \in IPs : activeByIP'[m][k] = activeByIP[m][k] + (IF m = l /\ k = ip THEN 0 ELSE 0)
    BY <1>1, <1>3
  <2>7. ListenersExact'
    <3>1. Follow(c, 0, 1)
      BY <2>4, <2>6 DEF Follow
    <3>2. Follow(c, HeldChange(c, "serving"), LoopChange(c, TRUE))
      BY <2>2, <3>1
    <3>3. TRUE \in BOOLEAN /\ inside' = [inside EXCEPT ![c] = TRUE]
      BY <1>3
    <3> HIDE DEF l, ip
    <3> QED
      BY <2>1, <2>2, <3>2, <3>3, ListenersFollow
  <2>8. SlotsExact'
    BY <1>3, <2>1, <2>2, SlotsSame
  <2>9. /\ ConnOrder' /\ stage' \in [Conns -> Stages] /\ inside' \in [Conns -> BOOLEAN]
        /\ closed' \in [Conns -> BOOLEAN]
    BY <1>1, <1>3, <2>1, <2>2, OrderKept
  <2> QED
    BY <1>1, <1>3, <2>4, <2>5, <2>7, <2>8, <2>9 DEF ConnInv, ConnTypeOK, EncryptedMax
<1>4. CASE /\ Moves(c, "loop", "refused")
           /\ UNCHANGED <<loop, loopByIP, inside, closed, total, encrypted, active, activeByIP>>
  <2>1. /\ stage' = [stage EXCEPT ![c] = "refused"]
        /\ closed' = [closed EXCEPT ![c] = closed[c]]
    BY <1>1, <1>4 DEF Moves
  <2>2. /\ total \in Nat /\ encrypted \in Nat /\ total <= MaxConns /\ encrypted <= EncryptedMax
        /\ MaxConns \in Nat /\ EncryptedMax \in Nat
    BY Sizes DEF ConnInv, ConnTypeOK
  <2>3. /\ "refused" \in Stages /\ (HasListener(stage[c]) <=> HasListener("refused"))
        /\ Change(HasTotal(stage[c], c), HasTotal("refused", c)) = 0
        /\ Change(HasShare(stage[c], c), HasShare("refused", c)) = 0
    BY <1>2 DEF Stages, Change, HasTotal, HasShare, HasListener, Established
  <2>4. total' = total + 0 /\ encrypted' = encrypted + 0
    BY <1>4, <2>2
  <2> QED
    BY <1>1, <1>2, <1>4, <2>1, <2>2, <2>3, <2>4, Passes
<1> QED
  BY <1>3, <1>4 DEF ReserveLoop

LEMMA ReleaseListenerSafe ==
    ASSUME ConnInv, NEW c \in Conns, ReleaseListener(c)
    PROVE  ConnInv'
<1> DEFINE l == Listener[c]
           ip == IPOf[c]
<1>1. /\ l \in Listeners /\ ip \in IPs /\ ConnTypeOK
      /\ active \in [Listeners -> 0 .. MaxConns] /\ loop \in [Listeners -> 0 .. MaxConns]
      /\ activeByIP \in [Listeners -> [IPs -> Nat]] /\ loopByIP \in [Listeners -> [IPs -> Nat]]
      /\ inside[c] \in BOOLEAN /\ inside = [inside EXCEPT ![c] = inside[c]]
      /\ closed[c] \in BOOLEAN /\ closed = [closed EXCEPT ![c] = closed[c]]
      /\ MaxConns \in Nat
  BY Sizes, ConnLimitsAssumption DEF ConnInv, ConnTypeOK, Listeners, IPs
<1>2. /\ stage[c] = "release_listener" /\ stage' = [stage EXCEPT ![c] = "released"] /\ closed[c]
      /\ UNCHANGED <<closed, inside, total, encrypted, loop, loopByIP>>
  BY DEF ReleaseListener, Moves, ConnInv, ConnOrder
<1>3. /\ inside' = [inside EXCEPT ![c] = inside[c]] /\ closed' = [closed EXCEPT ![c] = closed[c]]
  BY <1>1, <1>2
<1>4. /\ "released" \in Stages
      /\ HasTotal(stage[c], c) <=> HasTotal("released", c)
      /\ HasShare(stage[c], c) <=> HasShare("released", c)
      /\ HeldChange(c, "released") = -1 /\ LoopChange(c, inside[c]) = 0
      /\ HasListener(stage[c])
  BY <1>2 DEF Stages, Change, HeldChange, LoopChange, HasTotal, HasShare, HasListener, Established
<1>5. /\ active[l] > 0 /\ activeByIP[l][ip] > 0
  BY <1>4, Counted
<1>6. /\ active' = [active EXCEPT ![l] = active[l] - 1]
      /\ activeByIP' = [activeByIP EXCEPT ![l] = [@ EXCEPT ![ip] = activeByIP[l][ip] - 1]]
  BY <1>5 DEF ReleaseListener, Counts, CountsIP, Less
<1>7. /\ active' \in [Listeners -> 0 .. MaxConns]
      /\ \A m \in Listeners : active'[m] = active[m] + (IF m = l THEN -1 ELSE 0)
  BY <1>1, <1>5, <1>6
<1>8. /\ activeByIP' \in [Listeners -> [IPs -> Nat]]
      /\ \A m \in Listeners, k \in IPs :
            activeByIP'[m][k] = activeByIP[m][k] + (IF m = l /\ k = ip THEN -1 ELSE 0)
  BY <1>1, <1>5, <1>6
<1>9. \A m \in Listeners : loop'[m] = loop[m] + (IF m = l THEN 0 ELSE 0)
  BY <1>1, <1>2
<1>10. ListenersExact'
  <2>1. Follow(c, -1, 0)
    BY <1>7, <1>8, <1>9 DEF Follow
  <2>2. Follow(c, HeldChange(c, "released"), LoopChange(c, inside[c]))
    BY <1>4, <2>1
  <2> HIDE DEF l, ip
  <2> QED
    BY <1>1, <1>2, <1>3, <1>4, <2>2, ListenersFollow
<1>11. SlotsExact'
  BY <1>2, <1>4, SlotsSame
<1>12. /\ ConnOrder' /\ stage' \in [Conns -> Stages] /\ inside' \in [Conns -> BOOLEAN]
       /\ closed' \in [Conns -> BOOLEAN]
  BY <1>1, <1>2, <1>3, <1>4, OrderKept
<1> QED
  BY <1>1, <1>2, <1>7, <1>8, <1>10, <1>11, <1>12 DEF ConnInv, ConnTypeOK, EncryptedMax

LEMMA LeaveConnSafe ==
    ASSUME ConnInv, NEW c \in Conns, LeaveConn(c)
    PROVE  ConnInv'
<1> DEFINE l == Listener[c]
           ip == IPOf[c]
<1>1. /\ l \in Listeners /\ ip \in IPs /\ ConnTypeOK
      /\ active \in [Listeners -> 0 .. MaxConns] /\ loop \in [Listeners -> 0 .. MaxConns]
      /\ activeByIP \in [Listeners -> [IPs -> Nat]] /\ loopByIP \in [Listeners -> [IPs -> Nat]]
      /\ inside[c] \in BOOLEAN /\ inside = [inside EXCEPT ![c] = inside[c]]
      /\ closed[c] \in BOOLEAN /\ closed = [closed EXCEPT ![c] = closed[c]]
      /\ MaxConns \in Nat
  BY Sizes, ConnLimitsAssumption DEF ConnInv, ConnTypeOK, Listeners, IPs
<1>2. /\ stage[c] = "released" /\ stage' = [stage EXCEPT ![c] = "none"]
      /\ closed' = [closed EXCEPT ![c] = FALSE] /\ inside' = [inside EXCEPT ![c] = FALSE]
      /\ UNCHANGED <<total, encrypted, active, activeByIP>>
  BY DEF LeaveConn, Moves
<1>3. /\ "none" \in Stages
      /\ HasTotal(stage[c], c) <=> HasTotal("none", c)
      /\ HasShare(stage[c], c) <=> HasShare("none", c)
      /\ HeldChange(c, "none") = 0
      /\ LoopChange(c, FALSE) = IF inside[c] THEN -1 ELSE 0
  BY <1>1, <1>2 DEF Stages, Change, HeldChange, LoopChange, HasTotal, HasShare, HasListener, Established
<1> DEFINE i == IF inside[c] THEN -1 ELSE 0
<1>4. /\ loop' \in [Listeners -> 0 .. MaxConns] /\ loopByIP' \in [Listeners -> [IPs -> Nat]]
      /\ \A m \in Listeners : loop'[m] = loop[m] + (IF m = l THEN i ELSE 0)
  <2>1. CASE inside[c]
    <3>1. loop[l] > 0
      BY <2>1, Counted
    <3>2. /\ loop' = [loop EXCEPT ![l] = loop[l] - 1]
          /\ loopByIP' = [loopByIP EXCEPT ![l] = [@ EXCEPT ![ip] = Less(loopByIP[l][ip])]]
      BY <2>1, <3>1 DEF LeaveConn, Counts, CountsIP, Less
    <3>3. Less(loopByIP[l][ip]) \in Nat
      BY <1>1 DEF Less
    <3>4. loopByIP' \in [Listeners -> [IPs -> Nat]]
      BY <1>1, <3>2, <3>3
    <3> QED
      BY <1>1, <2>1, <3>1, <3>2, <3>4
  <2>2. CASE ~inside[c]
    BY <1>1, <2>2 DEF LeaveConn
  <2> QED
    BY <2>1, <2>2
<1>5. i \in {-1, 0, 1} /\ i = LoopChange(c, FALSE)
  BY <1>3
<1> HIDE DEF i
<1>6. \A m \in Listeners :
         /\ active'[m] = active[m] + (IF m = l THEN 0 ELSE 0)
         /\ \A k \in IPs : activeByIP'[m][k] = activeByIP[m][k] + (IF m = l /\ k = ip THEN 0 ELSE 0)
  BY <1>1, <1>2
<1>7. ListenersExact'
  <2>1. Follow(c, 0, i)
    BY <1>4, <1>6 DEF Follow
  <2>2. Follow(c, HeldChange(c, "none"), LoopChange(c, FALSE))
    BY <1>3, <1>5, <2>1
  <2>3. FALSE \in BOOLEAN /\ inside' = [inside EXCEPT ![c] = FALSE]
    BY <1>2
  <2> HIDE DEF l, ip
  <2> QED
    BY <1>2, <1>3, <2>2, <2>3, ListenersFollow
<1>8. SlotsExact'
  BY <1>2, <1>3, SlotsSame
<1>9. /\ ConnOrder' /\ stage' \in [Conns -> Stages] /\ inside' \in [Conns -> BOOLEAN]
      /\ closed' \in [Conns -> BOOLEAN]
  BY <1>1, <1>2, <1>3, OrderKept
<1> QED
  BY <1>1, <1>2, <1>4, <1>7, <1>8, <1>9 DEF ConnInv, ConnTypeOK, EncryptedMax

LEMMA ConnInitSafe == ConnInit => ConnInv
<1> SUFFICES ASSUME ConnInit PROVE ConnInv
  OBVIOUS
<1>1. /\ stage = [c \in Conns |-> "none"] /\ inside = [c \in Conns |-> FALSE]
      /\ closed = [c \in Conns |-> FALSE] /\ total = 0 /\ encrypted = 0
      /\ active = [l \in Listeners |-> 0] /\ loop = [l \in Listeners |-> 0]
      /\ activeByIP = [l \in Listeners |-> [ip \in IPs |-> 0]]
      /\ loopByIP = [l \in Listeners |-> [ip \in IPs |-> 0]]
  BY DEF ConnInit
<1>2. ConnTypeOK
  <2>1. stage \in [Conns -> Stages] /\ inside \in [Conns -> BOOLEAN] /\ closed \in [Conns -> BOOLEAN]
    BY <1>1 DEF Stages
  <2>2. total \in 0 .. MaxConns /\ encrypted \in 0 .. EncryptedMax
    BY <1>1, Sizes
  <2>3. active \in [Listeners -> 0 .. MaxConns] /\ loop \in [Listeners -> 0 .. MaxConns]
    BY <1>1, Sizes
  <2>4. activeByIP \in [Listeners -> [IPs -> Nat]] /\ loopByIP \in [Listeners -> [IPs -> Nat]]
    BY <1>1
  <2> QED
    BY <2>1, <2>2, <2>3, <2>4 DEF ConnTypeOK
<1>3. ConnOrder
  BY <1>1 DEF ConnOrder
<1>4. TotalHolders = {} /\ ShareHolders = {} /\ ListenerHolders = {}
  BY <1>1, Holders DEF HasTotal, HasShare, HasListener, Established
<1>5. Cardinality({}) = 0
  BY FS_EmptySet
<1>6. SlotsExact
  BY <1>1, <1>4, <1>5 DEF SlotsExact
<1>7. ListenersExact
  <2>1. ASSUME NEW l \in Listeners
        PROVE  /\ active[l] = Cardinality({c \in ListenerHolders : Listener[c] = l})
               /\ loop[l] = Cardinality({c \in Conns : inside[c] /\ Listener[c] = l})
               /\ \A ip \in IPs : activeByIP[l][ip] =
                     Cardinality({c \in ListenerHolders : Listener[c] = l /\ IPOf[c] = ip})
    <3>1. /\ {c \in ListenerHolders : Listener[c] = l} = {}
          /\ \A ip \in IPs : {c \in ListenerHolders : Listener[c] = l /\ IPOf[c] = ip} = {}
      BY <1>4
    <3>2. {c \in Conns : inside[c] /\ Listener[c] = l} = {}
      BY <1>1
    <3>3. active[l] = 0 /\ loop[l] = 0 /\ \A ip \in IPs : activeByIP[l][ip] = 0
      BY <1>1
    <3> QED
      BY <1>5, <3>1, <3>2, <3>3
  <2> QED
    BY <2>1 DEF ListenersExact
<1> QED
  BY <1>2, <1>3, <1>6, <1>7 DEF ConnInv

LEMMA ConnKept ==
    ASSUME ConnInv, ConnNext
    PROVE  ConnInv'
<1>1. PICK c \in Conns : ConnStep(c)
  BY DEF ConnNext
<1> QED
  BY <1>1, AcceptConnSafe, ReserveTotalSafe, ReserveShareSafe, ReserveListenerSafe,
     ReserveLoopSafe, ReleaseShareSafe, ReleaseTotalSafe, ReleaseListenerSafe,
     CloseConnSafe, LeaveConnSafe DEF ConnStep

LEMMA HeadroomLeft ==
    ASSUME ConnInv
    PROVE  ConnSound
<1> DEFINE P == TotalHolders \cap Plain
           T == P \cup Passing
<1>1. /\ ConnTypeOK /\ total = Cardinality(TotalHolders) /\ encrypted = Cardinality(ShareHolders)
      /\ encrypted \in Nat /\ encrypted <= EncryptedMax /\ EncryptedMax \in Nat /\ MaxConns \in Nat
  BY Sizes DEF ConnInv, ConnTypeOK, SlotsExact
<1>2. TotalHolders \subseteq Conns /\ ShareHolders \subseteq Encrypted /\ Encrypted = Conns \ Plain
  BY Holders DEF ShareHolders, Encrypted
<1>3. TotalHolders = T \cup ShareHolders
  BY <1>2 DEF Passing, TotalHolders
<1>4. P \cap Passing = {} /\ T \cap ShareHolders = {}
  BY <1>2 DEF Passing
<1>5. IsFiniteSet(P) /\ IsFiniteSet(Passing) /\ IsFiniteSet(ShareHolders)
  <2>1. P \subseteq Conns /\ Passing \subseteq Conns /\ ShareHolders \subseteq Conns
    BY <1>2 DEF Passing
  <2> QED
    BY <2>1, ConnLimitsAssumption, FS_Subset
<1> HIDE DEF P
<1>6. /\ IsFiniteSet(T)
      /\ Cardinality(T) = Cardinality(P) + Cardinality(Passing) - Cardinality(P \cap Passing)
  BY <1>5, FS_Union
<1> HIDE DEF T
<1>7. Cardinality(T \cup ShareHolders) =
          Cardinality(T) + Cardinality(ShareHolders) - Cardinality(T \cap ShareHolders)
  BY <1>5, <1>6, FS_Union
<1>8. Cardinality({}) = 0
  BY FS_EmptySet
<1>9. /\ Cardinality(P) \in Nat /\ Cardinality(Passing) \in Nat
      /\ Cardinality(T) \in Nat /\ Cardinality(ShareHolders) \in Nat
  BY <1>5, <1>6, FS_CardinalityType
<1>10. total = Cardinality(P) + Cardinality(Passing) + encrypted
  <2>1. Cardinality(P \cap Passing) = 0 /\ Cardinality(T \cap ShareHolders) = 0
    BY <1>4, <1>8
  <2>2. Cardinality(TotalHolders) = Cardinality(T \cup ShareHolders)
    BY <1>3
  <2> QED
    BY <1>1, <1>6, <1>7, <1>9, <2>1, <2>2
<1>11. Headroom
  BY <1>1, <1>9, <1>10 DEF Headroom, P
<1> QED
  BY <1>11 DEF ConnInv, ConnSound
-----------------------------------------------------------------------------
(* The admission of DNS-over-HTTPS requests.                                *)

Within == {"load", "swap", "handle", "leave"}
GatePlaces == Within \cup {"none", "gate"}

GateTypeOK ==
    /\ clock \in Nat /\ sweptAt \in Int
    /\ granted \in [Clients -> Nat]
    /\ DOMAIN buckets \subseteq Clients
    /\ \A k \in DOMAIN buckets :
          /\ buckets[k].tokens \in 0 .. Burst
          /\ buckets[k].last \in 0 .. clock /\ buckets[k].seen = buckets[k].last
    /\ place \in [Requests -> GatePlaces]
    /\ read \in [Requests -> Nat]
    /\ gate \in Nat /\ used \in Nat

\* What a client was granted and what its bucket still holds came from its
\* burst and its rate; a bucket is only dropped when it would be full again.
TokensPaid ==
    /\ \A k \in DOMAIN buckets :
          granted[k] + buckets[k].tokens <= Burst + Rate * buckets[k].last
    /\ \A k \in Clients \ DOMAIN buckets : granted[k] <= Rate * clock

\* A request only swaps in a value that leaves room for its body.
ReadFits == \A r \in Requests : place[r] = "swap" => read[r] + BodyLimit <= MaxBytes

GateInv == GateTypeOK /\ TokensPaid /\ ReadFits /\ BytesKept

Handling == {r \in Requests : place[r] = "handle"}
Entered == {r \in Requests : place[r] \in Within}

\* How a step of a request to place s changes these counts.
HoldsMore(r, s) == Change(place[r] = "handle", s = "handle")
EntersMore(r, s) == Change(place[r] \in Within, s \in Within)

LEMMA Numbers ==
    /\ Rate \in Nat /\ Burst \in Nat /\ ForgetAfter \in Nat /\ Burst <= Rate * ForgetAfter
    /\ Burst > 0 /\ Rate > 0
    /\ BodyLimit \in Nat /\ BodyLimit > 0 /\ MaxBytes \in Nat /\ BodyLimit <= MaxBytes
    /\ MaxInflight \in Nat /\ MaxBuckets \in Nat /\ SweepEvery \in Nat
BY DoHGateAssumption

LEMMA Products ==
    ASSUME NEW n \in Nat, NEW a \in Int, NEW b \in Int
    PROVE  /\ n * (a + b) = n * a + n * b /\ n * (a - b) = n * a - n * b
           /\ n * a \in Int
           /\ a <= b => n * a <= n * b
<1>1. n * (a + b) = n * a + n * b /\ n * (a - b) = n * a - n * b /\ n * a \in Int
  OBVIOUS
<1>2. ASSUME a <= b PROVE n * a <= n * b
  <2>1. PICK m \in Nat : b = a + m
    <3>1. b - a \in Nat /\ b = a + (b - a)
      BY <1>2
    <3> QED
      BY <3>1
  <2>2. n * b = n * a + n * m /\ n * m \in Nat /\ n * a \in Int
    BY <2>1
  <2> QED
    BY <2>2
<1> QED
  BY <1>1, <1>2

\* The requests in the gate, and those that hold bytes, after one has moved.
LEMMA AfterWalk ==
    ASSUME GateInv, NEW r \in Requests, NEW s \in GatePlaces,
           place' = [place EXCEPT ![r] = s]
    PROVE  /\ place' \in [Requests -> GatePlaces]
           /\ \A q \in Requests : place'[q] = IF q = r THEN s ELSE place[q]
           /\ Cardinality(Handling) \in Nat /\ Cardinality(Entered) \in Nat
           /\ Cardinality(Handling') =
                 Cardinality(Handling) + HoldsMore(r, s)
           /\ Cardinality(Entered') =
                 Cardinality(Entered) + EntersMore(r, s)
           /\ place[r] = "handle" => Cardinality(Handling) > 0
           /\ place[r] \in Within => Cardinality(Entered) > 0
<1>1. place \in [Requests -> GatePlaces] /\ IsFiniteSet(Requests)
  BY DoHGateAssumption DEF GateInv, GateTypeOK
<1>2. /\ place' \in [Requests -> GatePlaces]
      /\ \A q \in Requests : place'[q] = IF q = r THEN s ELSE place[q]
  BY <1>1
<1>3. /\ Handling \in SUBSET Requests /\ Handling' \in SUBSET Requests
      /\ Entered \in SUBSET Requests /\ Entered' \in SUBSET Requests
  BY DEF Handling, Entered
<1>4. /\ \A q \in Requests : q # r => (q \in Handling <=> q \in Handling')
      /\ \A q \in Requests : q # r => (q \in Entered <=> q \in Entered')
      /\ r \in Handling <=> place[r] = "handle"
      /\ r \in Handling' <=> s = "handle"
      /\ r \in Entered <=> place[r] \in Within
      /\ r \in Entered' <=> s \in Within
  BY <1>2 DEF Handling, Entered
<1>5. /\ Cardinality(Handling) \in Nat
      /\ Cardinality(Handling') = Cardinality(Handling) + Change(r \in Handling, r \in Handling')
      /\ r \in Handling => Cardinality(Handling) > 0
  BY <1>1, <1>3, <1>4, Recount
<1>6. /\ Cardinality(Entered) \in Nat
      /\ Cardinality(Entered') = Cardinality(Entered) + Change(r \in Entered, r \in Entered')
      /\ r \in Entered => Cardinality(Entered) > 0
  BY <1>1, <1>3, <1>4, Recount
<1>7. /\ Change(r \in Handling, r \in Handling') = HoldsMore(r, s)
      /\ Change(r \in Entered, r \in Entered') = EntersMore(r, s)
  BY <1>4 DEF Change, HoldsMore, EntersMore
<1> QED
  BY <1>2, <1>4, <1>5, <1>6, <1>7

\* A step of a request in the gate: h and e say how the counts change.
LEMMA WalkKept ==
    ASSUME GateInv, NEW r \in Requests, NEW s \in GatePlaces,
           place' = [place EXCEPT ![r] = s],
           used' = used + BodyLimit * HoldsMore(r, s), used' <= MaxBytes,
           gate' = gate + EntersMore(r, s), gate' <= MaxInflight,
           NEW v \in Nat, read' = [read EXCEPT ![r] = v],
           s = "swap" => v + BodyLimit <= MaxBytes,
           UNCHANGED <<clock, buckets, sweptAt, granted>>
    PROVE  GateInv'
<1> DEFINE h == HoldsMore(r, s)
           e == EntersMore(r, s)
<1>0. h \in {-1, 0, 1} /\ e \in {-1, 0, 1}
  BY DEF HoldsMore, EntersMore, Change
<1>1. /\ used = BodyLimit * Cardinality(Handling) /\ gate = Cardinality(Entered)
      /\ used \in Nat /\ gate \in Nat /\ read \in [Requests -> Nat]
  BY DEF GateInv, GateTypeOK, BytesKept, Handling, Entered, Within
<1>2. /\ Cardinality(Handling) \in Nat /\ Cardinality(Handling') = Cardinality(Handling) + h
      /\ Cardinality(Entered) \in Nat /\ Cardinality(Entered') = Cardinality(Entered) + e
      /\ h = -1 => Cardinality(Handling) > 0
      /\ e = -1 => Cardinality(Entered) > 0
  <2>1. /\ h = -1 => place[r] = "handle"
        /\ e = -1 => place[r] \in Within
    BY DEF Change, HoldsMore, EntersMore
  <2> QED
    BY <2>1, AfterWalk
<1> HIDE DEF h, e
<1>3. used' = BodyLimit * Cardinality(Handling')
  <2>1. used' = used + BodyLimit * h
    BY DEF h
  <2> QED
    BY <1>0, <1>1, <1>2, <2>1, Numbers, Products
<1>4. Cardinality(Handling') \in Nat /\ Cardinality(Entered') \in Nat
  BY <1>0, <1>2
<1>5. used' \in Nat /\ gate' \in Nat
  <2>1. gate' \in Nat
    BY <1>1, <1>2, <1>4 DEF e
  <2>2. BodyLimit * Cardinality(Handling') \in Nat
    BY <1>4, Numbers
  <2> QED
    BY <1>3, <2>1, <2>2
<1>6. BytesKept'
  <2>1. gate' = gate + e
    BY DEF e
  <2> QED
    BY <1>1, <1>2, <1>3, <2>1 DEF BytesKept, Handling, Entered, Within
<1>7. /\ place' \in [Requests -> GatePlaces]
      /\ \A q \in Requests : place'[q] = IF q = r THEN s ELSE place[q]
  BY AfterWalk
<1>8. /\ read' \in [Requests -> Nat]
      /\ \A q \in Requests : read'[q] = IF q = r THEN v ELSE read[q]
  BY <1>1
<1>9. ReadFits'
  BY <1>7, <1>8 DEF GateInv, ReadFits
<1>10. GateTypeOK' /\ TokensPaid'
  BY <1>5, <1>7, <1>8 DEF GateInv, GateTypeOK, TokensPaid
<1> QED
  BY <1>6, <1>9, <1>10 DEF GateInv

LEMMA EnterGateSafe ==
    ASSUME GateInv, NEW r \in Requests, EnterGate(r)
    PROVE  GateInv'
<1>1. /\ gate \in Nat /\ gate <= MaxInflight /\ used \in Nat /\ used <= MaxBytes
      /\ read[r] \in Nat /\ read = [read EXCEPT ![r] = read[r]]
  BY DEF GateInv, GateTypeOK, BytesKept
<1>2. place[r] = "gate" /\ UNCHANGED <<clock, buckets, sweptAt, granted, read, used>>
  BY DEF EnterGate, Walks
<1>3. CASE gate < MaxInflight
  <2>1. gate' = gate + 1 /\ place' = [place EXCEPT ![r] = "load"]
    BY <1>3 DEF EnterGate, Walks
  <2>2. /\ "load" \in GatePlaces /\ HoldsMore(r, "load") = 0
        /\ EntersMore(r, "load") = 1
    BY <1>2 DEF GatePlaces, Within, Change, HoldsMore, EntersMore
  <2>3. used' = used + BodyLimit * 0 /\ used' <= MaxBytes /\ gate' <= MaxInflight
    BY <1>1, <1>2, <1>3, <2>1, Numbers
  <2> QED
    BY <1>1, <1>2, <2>1, <2>2, <2>3, WalkKept
<1>4. CASE ~(gate < MaxInflight)
  <2>1. gate' = gate + 0 /\ place' = [place EXCEPT ![r] = "none"]
    BY <1>1, <1>4 DEF EnterGate, Walks
  <2>2. /\ "none" \in GatePlaces /\ HoldsMore(r, "none") = 0
        /\ EntersMore(r, "none") = 0
    BY <1>2 DEF GatePlaces, Within, Change, HoldsMore, EntersMore
  <2>3. used' = used + BodyLimit * 0 /\ used' <= MaxBytes /\ gate' <= MaxInflight
    BY <1>1, <1>2, <2>1, Numbers
  <2> QED
    BY <1>1, <1>2, <2>1, <2>2, <2>3, WalkKept
<1> QED
  BY <1>3, <1>4

LEMMA LoadBytesSafe ==
    ASSUME GateInv, NEW r \in Requests, LoadBytes(r)
    PROVE  GateInv'
<1>1. /\ gate \in Nat /\ gate <= MaxInflight /\ used \in Nat /\ used <= MaxBytes
      /\ read[r] \in Nat /\ read = [read EXCEPT ![r] = read[r]]
  BY DEF GateInv, GateTypeOK, BytesKept
<1>2. place[r] = "load" /\ UNCHANGED <<clock, buckets, sweptAt, granted, used>>
  BY DEF LoadBytes, Walks
<1>3. used' = used + BodyLimit * 0 /\ used' <= MaxBytes
  BY <1>1, <1>2, Numbers
<1>4. CASE used > MaxBytes - BodyLimit
  <2>1. gate' = gate + (-1) /\ place' = [place EXCEPT ![r] = "none"] /\ read' = read
    BY <1>1, <1>4 DEF LoadBytes, Walks
  <2>2. /\ "none" \in GatePlaces /\ HoldsMore(r, "none") = 0
        /\ EntersMore(r, "none") = -1
    BY <1>2 DEF GatePlaces, Within, Change, HoldsMore, EntersMore
  <2>3. gate' <= MaxInflight
    BY <1>1, <2>1, Numbers
  <2> QED
    BY <1>1, <1>2, <1>3, <2>1, <2>2, <2>3, WalkKept
<1>5. CASE ~(used > MaxBytes - BodyLimit)
  <2>1. /\ gate' = gate + 0 /\ gate' <= MaxInflight /\ place' = [place EXCEPT ![r] = "swap"]
        /\ read' = [read EXCEPT ![r] = used] /\ used + BodyLimit <= MaxBytes
    BY <1>1, <1>5, Numbers DEF LoadBytes, Walks
  <2>2. /\ "swap" \in GatePlaces /\ HoldsMore(r, "swap") = 0
        /\ EntersMore(r, "swap") = 0
    BY <1>2 DEF GatePlaces, Within, Change, HoldsMore, EntersMore
  <2> QED
    BY <1>1, <1>2, <1>3, <2>1, <2>2, WalkKept
<1> QED
  BY <1>4, <1>5

LEMMA SwapBytesSafe ==
    ASSUME GateInv, NEW r \in Requests, SwapBytes(r)
    PROVE  GateInv'
<1>1. /\ gate \in Nat /\ gate <= MaxInflight /\ used \in Nat /\ used <= MaxBytes
      /\ read[r] \in Nat
  BY DEF GateInv, GateTypeOK, BytesKept
<1>2. /\ place[r] = "swap" /\ UNCHANGED <<clock, buckets, sweptAt, granted, gate>>
      /\ read' = [read EXCEPT ![r] = 0] /\ gate' = gate + 0 /\ gate' <= MaxInflight
      /\ read[r] + BodyLimit <= MaxBytes
  BY <1>1 DEF SwapBytes, Walks, GateInv, ReadFits
<1>3. CASE used = read[r]
  <2>1. used' = used + BodyLimit * 1 /\ used' <= MaxBytes /\ place' = [place EXCEPT ![r] = "handle"]
    BY <1>1, <1>2, <1>3, Numbers DEF SwapBytes, Walks
  <2>2. /\ "handle" \in GatePlaces /\ HoldsMore(r, "handle") = 1
        /\ EntersMore(r, "handle") = 0
    BY <1>2 DEF GatePlaces, Within, Change, HoldsMore, EntersMore
  <2>3. 0 \in Nat /\ used' = used + BodyLimit * HoldsMore(r, "handle")
    BY <2>1, <2>2
  <2>4. gate' = gate + EntersMore(r, "handle")
    BY <1>2, <2>2
  <2> QED
    BY <1>1, <1>2, <2>1, <2>2, <2>3, <2>4, WalkKept
<1>4. CASE used # read[r]
  <2>1. used' = used + BodyLimit * 0 /\ used' <= MaxBytes /\ place' = [place EXCEPT ![r] = "load"]
    BY <1>1, <1>4, Numbers DEF SwapBytes, Walks
  <2>2. /\ "load" \in GatePlaces /\ HoldsMore(r, "load") = 0
        /\ EntersMore(r, "load") = 0
    BY <1>2 DEF GatePlaces, Within, Change, HoldsMore, EntersMore
  <2> QED
    BY <1>1, <1>2, <2>1, <2>2, WalkKept
<1> QED
  BY <1>3, <1>4

LEMMA ReleaseBytesSafe ==
    ASSUME GateInv, NEW r \in Requests, ReleaseBytes(r)
    PROVE  GateInv'
<1>1. /\ gate \in Nat /\ gate <= MaxInflight /\ used \in Nat /\ used <= MaxBytes
      /\ read[r] \in Nat /\ read = [read EXCEPT ![r] = read[r]]
  BY DEF GateInv, GateTypeOK, BytesKept
<1>2. /\ place[r] = "handle" /\ place' = [place EXCEPT ![r] = "leave"]
      /\ UNCHANGED <<clock, buckets, sweptAt, granted, read, gate>>
      /\ gate' = gate + 0 /\ gate' <= MaxInflight
  BY <1>1 DEF ReleaseBytes, Walks
<1>3. used' = used + BodyLimit * (-1) /\ used' <= MaxBytes
  BY <1>1, Numbers DEF ReleaseBytes
<1>4. /\ "leave" \in GatePlaces /\ HoldsMore(r, "leave") = -1
      /\ EntersMore(r, "leave") = 0
  BY <1>2 DEF GatePlaces, Within, Change, HoldsMore, EntersMore
<1> QED
  BY <1>1, <1>2, <1>3, <1>4, WalkKept

LEMMA LeaveGateSafe ==
    ASSUME GateInv, NEW r \in Requests, LeaveGate(r)
    PROVE  GateInv'
<1>1. /\ gate \in Nat /\ gate <= MaxInflight /\ used \in Nat /\ used <= MaxBytes
      /\ read[r] \in Nat /\ read = [read EXCEPT ![r] = read[r]]
  BY DEF GateInv, GateTypeOK, BytesKept
<1>2. /\ place[r] = "leave" /\ place' = [place EXCEPT ![r] = "none"]
      /\ UNCHANGED <<clock, buckets, sweptAt, granted, read, used>>
      /\ gate' = gate + (-1) /\ gate' <= MaxInflight
  BY <1>1, Numbers DEF LeaveGate, Walks
<1>3. used' = used + BodyLimit * 0 /\ used' <= MaxBytes
  BY <1>1, <1>2, Numbers
<1>4. /\ "none" \in GatePlaces /\ HoldsMore(r, "none") = 0
      /\ EntersMore(r, "none") = -1
  BY <1>2 DEF GatePlaces, Within, Change, HoldsMore, EntersMore
<1> QED
  BY <1>1, <1>2, <1>3, <1>4, WalkKept

\* A client whose bucket is not kept has got no more than its rate adds.
LEMMA Unknown ==
    ASSUME GateInv, NEW k \in Clients, k \notin KeptBuckets
    PROVE  granted[k] <= Rate * clock
<1>1. CASE k \notin DOMAIN buckets
  BY <1>1 DEF GateInv, TokensPaid
<1>2. CASE k \in DOMAIN buckets
  <2> DEFINE last == buckets[k].last
             tokens == buckets[k].tokens
  <2>1. /\ last < clock - ForgetAfter /\ last \in Nat /\ tokens \in Nat
        /\ clock \in Nat /\ granted[k] \in Nat
    BY <1>2, Numbers DEF KeptBuckets, Forgotten, GateInv, GateTypeOK
  <2>2. granted[k] + tokens <= Burst + Rate * last
    BY <1>2 DEF GateInv, TokensPaid
  <2>3. last + ForgetAfter <= clock
    BY <2>1, Numbers
  <2> HIDE DEF last, tokens
  <2>4. /\ Rate * (last + ForgetAfter) <= Rate * clock
        /\ Rate * (last + ForgetAfter) = Rate * last + Rate * ForgetAfter
        /\ Rate * last \in Int /\ Rate * clock \in Int /\ Rate * ForgetAfter \in Int
    BY <2>1, <2>3, Numbers, Products
  <2> QED
    BY <2>1, <2>2, <2>4, Numbers
<1> QED
  BY <1>1, <1>2

\* A bucket that is filled again holds no more than its client may still get.
LEMMA Refilling ==
    ASSUME GateInv, NEW k \in Clients
    PROVE  /\ Refilled(k, KeptBuckets) \in 0 .. Burst
           /\ granted[k] + Refilled(k, KeptBuckets) <= Burst + Rate * clock
<1> DEFINE n == Refilled(k, KeptBuckets)
<1>1. granted[k] \in Nat /\ clock \in Nat /\ Rate * clock \in Nat
  BY Numbers DEF GateInv, GateTypeOK
<1>2. CASE k \notin KeptBuckets
  <2>1. n = Burst
    BY <1>2 DEF Refilled
  <2> QED
    BY <1>1, <1>2, <2>1, Unknown, Numbers
<1>3. CASE k \in KeptBuckets
  <2> DEFINE last == buckets[k].last
             tokens == buckets[k].tokens
             more == tokens + Rate * (clock - last)
  <2>1. /\ last \in 0 .. clock /\ tokens \in 0 .. Burst
        /\ granted[k] + tokens <= Burst + Rate * last
    BY <1>3 DEF KeptBuckets, GateInv, GateTypeOK, TokensPaid
  <2>2. n = IF more > Burst THEN Burst ELSE more
    BY <1>3 DEF Refilled
  <2> HIDE DEF last, tokens, n
  <2>3. /\ Rate * (clock - last) = Rate * clock - Rate * last
        /\ Rate * (clock - last) \in Nat /\ Rate * last \in Int
    <3>1. clock - last \in Nat /\ last \in Int /\ clock \in Int
      BY <1>1, <2>1
    <3>2. Rate * (clock - last) \in Nat
      BY <3>1, Numbers
    <3> QED
      BY <3>1, <3>2, Numbers, Products
  <2>4. more \in Nat /\ granted[k] + more <= Burst + Rate * clock
    BY <1>1, <2>1, <2>3, Numbers
  <2> HIDE DEF more
  <2>5. n \in 0 .. Burst /\ n <= more
    BY <2>2, <2>4, Numbers
  <2>6. granted[k] + n <= Burst + Rate * clock
    BY <1>1, <2>4, <2>5, Numbers
  <2> QED
    BY <2>5, <2>6 DEF n
<1> QED
  BY <1>2, <1>3

LEMMA AllowSafe ==
    ASSUME GateInv, NEW r \in Requests, NEW k \in Clients, Allow(r, k)
    PROVE  GateInv'
<1> DEFINE full == k \notin KeptBuckets /\ Cardinality(KeptBuckets) >= MaxBuckets
           n == Refilled(k, KeptBuckets)
           ok == ~full /\ n >= 1
           bucket == [tokens |-> IF ok THEN n - 1 ELSE n, last |-> clock, seen |-> clock]
<1>1. /\ clock \in Nat /\ granted \in [Clients -> Nat] /\ sweptAt \in Int
      /\ KeptBuckets \subseteq DOMAIN buckets /\ DOMAIN buckets \subseteq Clients
      /\ \A j \in DOMAIN buckets :
            /\ buckets[j].tokens \in 0 .. Burst
            /\ buckets[j].last \in 0 .. clock /\ buckets[j].seen = buckets[j].last
            /\ granted[j] + buckets[j].tokens <= Burst + Rate * buckets[j].last
  BY DEF GateInv, GateTypeOK, TokensPaid, KeptBuckets
<1>2. n \in 0 .. Burst /\ granted[k] + n <= Burst + Rate * clock /\ Rate * clock \in Nat
  <2>1. Rate * clock \in Nat
    BY <1>1, Numbers
  <2> QED
    BY <2>1, Refilling
<1>3. /\ UNCHANGED <<clock, read, gate, used>>
      /\ buckets' = IF full THEN [j \in KeptBuckets |-> buckets[j]]
                    ELSE [j \in KeptBuckets \cup {k} |-> IF j = k THEN bucket ELSE buckets[j]]
      /\ granted' = IF ok THEN [granted EXCEPT ![k] = @ + 1] ELSE granted
      /\ sweptAt' = IF SweepNow THEN clock ELSE sweptAt
      /\ IF ok THEN place[r] = "none" /\ place' = [place EXCEPT ![r] = "gate"]
         ELSE UNCHANGED place
  BY DEF Allow, Walks
<1>4. /\ bucket.tokens = (IF ok THEN n - 1 ELSE n)
      /\ bucket.last = clock /\ bucket.seen = clock
  OBVIOUS
<1> HIDE DEF bucket, n
<1>5. bucket.tokens \in 0 .. Burst
  BY <1>2, <1>4, Numbers
<1>6. sweptAt' \in Int /\ granted' \in [Clients -> Nat]
  BY <1>1, <1>3
<1>7. \A j \in Clients : j # k => granted'[j] = granted[j]
  BY <1>1, <1>3
<1>8. granted'[k] = IF ok THEN granted[k] + 1 ELSE granted[k]
  BY <1>1, <1>3
<1> HIDE DEF ok
<1>9. CASE full
  <2>1. buckets' = [j \in KeptBuckets |-> buckets[j]] /\ granted' = granted /\ ~ok
    BY <1>3, <1>9 DEF ok
  <2>2. /\ DOMAIN buckets' = KeptBuckets
        /\ \A j \in KeptBuckets : buckets'[j] = buckets[j]
    BY <2>1
  <2>3. /\ DOMAIN buckets' \subseteq Clients
        /\ \A j \in DOMAIN buckets' :
              /\ buckets'[j].tokens \in 0 .. Burst
              /\ buckets'[j].last \in 0 .. clock' /\ buckets'[j].seen = buckets'[j].last
    BY <1>1, <1>3, <2>2
  <2>4. TokensPaid'
    <3>1. ASSUME NEW j \in DOMAIN buckets'
          PROVE  granted'[j] + buckets'[j].tokens <= Burst + Rate * buckets'[j].last
      BY <1>1, <2>1, <2>2
    <3>2. ASSUME NEW j \in Clients \ DOMAIN buckets'
          PROVE  granted'[j] <= Rate * clock'
      BY <1>3, <2>1, <2>2, Unknown
    <3> QED
      BY <3>1, <3>2 DEF TokensPaid
  <2>5. place' = place
    BY <1>3, <2>1
  <2> QED
    BY <1>1, <1>3, <1>6, <2>3, <2>4, <2>5 DEF GateInv, GateTypeOK, ReadFits, BytesKept
<1>10. CASE ~full
  <2>1. buckets' = [j \in KeptBuckets \cup {k} |-> IF j = k THEN bucket ELSE buckets[j]]
    BY <1>3, <1>10
  <2>2. /\ DOMAIN buckets' = KeptBuckets \cup {k} /\ buckets'[k] = bucket
        /\ \A j \in KeptBuckets : j # k => buckets'[j] = buckets[j]
    BY <2>1
  <2>3. /\ DOMAIN buckets' \subseteq Clients
        /\ \A j \in DOMAIN buckets' :
              /\ buckets'[j].tokens \in 0 .. Burst
              /\ buckets'[j].last \in 0 .. clock' /\ buckets'[j].seen = buckets'[j].last
    <3>1. DOMAIN buckets' \subseteq Clients
      BY <1>1, <2>2
    <3>2. ASSUME NEW j \in DOMAIN buckets'
          PROVE  /\ buckets'[j].tokens \in 0 .. Burst
                 /\ buckets'[j].last \in 0 .. clock' /\ buckets'[j].seen = buckets'[j].last
      <4>1. CASE j = k
        BY <1>1, <1>3, <1>4, <1>5, <2>2, <4>1
      <4>2. CASE j # k
        BY <1>1, <1>3, <2>2, <4>2
      <4> QED
        BY <4>1, <4>2
    <3> QED
      BY <3>1, <3>2
  <2>4. TokensPaid'
    <3>1. ASSUME NEW j \in DOMAIN buckets'
          PROVE  granted'[j] + buckets'[j].tokens <= Burst + Rate * buckets'[j].last
      <4>1. CASE j = k
        <5>1. granted[k] \in Nat
          BY <1>1
        <5>2. granted'[k] + bucket.tokens = granted[k] + n
          BY <5>1, <1>2, <1>4, <1>8
        <5> QED
          BY <1>2, <1>4, <2>2, <4>1, <5>2
      <4>2. CASE j # k
        BY <1>1, <1>7, <2>2, <4>2
      <4> QED
        BY <4>1, <4>2
    <3>2. ASSUME NEW j \in Clients \ DOMAIN buckets'
          PROVE  granted'[j] <= Rate * clock'
      BY <1>3, <1>7, <2>2, Unknown
    <3> QED
      BY <3>1, <3>2 DEF TokensPaid
  <2>5. /\ place' \in [Requests -> GatePlaces]
        /\ \A q \in Requests : place'[q] # place[q] => place[q] = "none" /\ place'[q] = "gate"
    BY <1>3 DEF GateInv, GateTypeOK, GatePlaces
  <2>6. ReadFits'
    BY <1>3, <2>5 DEF GateInv, ReadFits
  <2>7. /\ {q \in Requests : place'[q] = "handle"} = {q \in Requests : place[q] = "handle"}
        /\ {q \in Requests : place'[q] \in {"load", "swap", "handle", "leave"}}
               = {q \in Requests : place[q] \in {"load", "swap", "handle", "leave"}}
    BY <2>5
  <2>8. BytesKept'
    BY <1>3, <2>7 DEF GateInv, BytesKept
  <2>9. GateTypeOK'
    BY <1>1, <1>3, <1>6, <2>3, <2>5 DEF GateInv, GateTypeOK
  <2> QED
    BY <2>4, <2>6, <2>8, <2>9 DEF GateInv
<1> QED
  BY <1>9, <1>10

LEMMA ClockTicksSafe ==
    ASSUME GateInv, ClockTicks
    PROVE  GateInv'
<1>1. /\ clock \in Nat /\ clock' = clock + 1 /\ granted \in [Clients -> Nat]
      /\ UNCHANGED <<buckets, sweptAt, granted, place, read, gate, used>>
  BY DEF ClockTicks, GateInv, GateTypeOK
<1>2. GateTypeOK'
  BY <1>1 DEF GateInv, GateTypeOK
<1>3. Rate * clock <= Rate * clock' /\ Rate * clock \in Int /\ Rate * clock' \in Int
  BY <1>1, Numbers, Products
<1>4. TokensPaid'
  <2>1. ASSUME NEW k \in Clients \ DOMAIN buckets PROVE granted[k] <= Rate * clock'
    <3>1. granted[k] <= Rate * clock /\ granted[k] \in Nat
      BY <1>1 DEF GateInv, TokensPaid
    <3> QED
      BY <1>3, <3>1
  <2> QED
    BY <1>1, <2>1 DEF GateInv, TokensPaid
<1> QED
  BY <1>1, <1>2, <1>4 DEF GateInv, ReadFits, BytesKept

LEMMA GateInitSafe == GateInit => GateInv
<1> SUFFICES ASSUME GateInit PROVE GateInv
  OBVIOUS
<1>1. /\ clock = 0 /\ buckets = <<>> /\ sweptAt = -1 /\ gate = 0 /\ used = 0
      /\ granted = [k \in Clients |-> 0]
      /\ place = [r \in Requests |-> "none"] /\ read = [r \in Requests |-> 0]
  BY DEF GateInit
<1>2. DOMAIN buckets = {}
  BY <1>1
<1>3. GateTypeOK
  BY <1>1, <1>2 DEF GateTypeOK, GatePlaces
<1>4. TokensPaid
  BY <1>1, <1>2, Numbers DEF TokensPaid
<1>5. ReadFits
  BY <1>1 DEF ReadFits
<1>6. BytesKept
  <2>1. /\ {r \in Requests : place[r] = "handle"} = {}
        /\ {r \in Requests : place[r] \in {"load", "swap", "handle", "leave"}} = {}
    BY <1>1
  <2>2. Cardinality({}) = 0
    BY FS_EmptySet
  <2>3. BodyLimit * 0 = 0 /\ 0 <= MaxBytes /\ 0 <= MaxInflight
    BY Numbers
  <2> QED
    BY <1>1, <2>1, <2>2, <2>3 DEF BytesKept
<1> QED
  BY <1>3, <1>4, <1>5, <1>6 DEF GateInv

LEMMA GateKept ==
    ASSUME GateInv, GateNext
    PROVE  GateInv'
BY AllowSafe, EnterGateSafe, LoadBytesSafe, SwapBytesSafe, ReleaseBytesSafe, LeaveGateSafe,
   ClockTicksSafe DEF GateNext

LEMMA GateImplies ==
    ASSUME GateInv
    PROVE  GateSound
<1>1. ASSUME NEW k \in Clients PROVE granted[k] <= Burst + Rate * clock
  <2>1. clock \in Nat /\ granted[k] \in Nat /\ Rate * clock \in Nat
    BY Numbers DEF GateInv, GateTypeOK
  <2>2. CASE k \in DOMAIN buckets
    <3> DEFINE last == buckets[k].last
               tokens == buckets[k].tokens
    <3>1. /\ last \in 0 .. clock /\ tokens \in 0 .. Burst
          /\ granted[k] + tokens <= Burst + Rate * last
      BY <2>2 DEF GateInv, GateTypeOK, TokensPaid
    <3> HIDE DEF last, tokens
    <3>2. Rate * last <= Rate * clock /\ Rate * last \in Int
      BY <2>1, <3>1, Numbers, Products
    <3> QED
      BY <2>1, <3>1, <3>2, Numbers
  <2>3. CASE k \notin DOMAIN buckets
    BY <2>1, <2>3, Numbers DEF GateInv, TokensPaid
  <2> QED
    BY <2>2, <2>3
<1> QED
  BY <1>1 DEF GateSound, RateKept, GateInv
-----------------------------------------------------------------------------
(* The memories of failures.                                                *)

\* a is the end of b.
Ends(a, b) ==
    /\ Len(a) <= Len(b)
    /\ \A i \in 1 .. Len(a) : a[i] = b[Len(b) - Len(a) + i]
Ordered(s) == \A i, j \in 1 .. Len(s) : i <= j => s[i] <= s[j]

LEMMA EndsAppend ==
    ASSUME NEW a \in Seq(Nat), NEW b \in Seq(Nat), NEW t \in Nat, Ends(a, b)
    PROVE  Ends(Append(a, t), Append(b, t))
<1> DEFINE c == Append(a, t)
           d == Append(b, t)
<1>1. /\ c \in Seq(Nat) /\ Len(c) = Len(a) + 1 /\ c[Len(a) + 1] = t
      /\ \A i \in 1 .. Len(a) : c[i] = a[i]
  BY AppendProperties
<1>2. /\ d \in Seq(Nat) /\ Len(d) = Len(b) + 1 /\ d[Len(b) + 1] = t
      /\ \A i \in 1 .. Len(b) : d[i] = b[i]
  BY AppendProperties
<1>3. Len(a) \in Nat /\ Len(b) \in Nat
  BY LenProperties
<1> HIDE DEF c, d
<1>4. ASSUME NEW i \in 1 .. Len(c) PROVE c[i] = d[Len(d) - Len(c) + i]
  <2>1. CASE i = Len(a) + 1
    BY <1>1, <1>2, <1>3, <2>1
  <2>2. CASE i \in 1 .. Len(a)
    <3>0. Len(a) <= Len(b) /\ a[i] = b[Len(b) - Len(a) + i]
      BY <2>2 DEF Ends
    <3>1. Len(b) - Len(a) + i \in 1 .. Len(b) /\ a[i] = b[Len(b) - Len(a) + i]
      BY <1>3, <2>2, <3>0
    <3>2. Len(d) - Len(c) + i = Len(b) - Len(a) + i
      BY <1>1, <1>2, <1>3
    <3> QED
      BY <1>1, <1>2, <2>2, <3>1, <3>2
  <2> QED
    BY <1>1, <1>3, <2>1, <2>2
<1>5. Len(c) <= Len(d)
  BY <1>1, <1>2, <1>3 DEF Ends
<1>6. Ends(c, d)
  BY <1>4, <1>5 DEF Ends
<1> QED
  BY <1>6 DEF c, d

LEMMA NewestOf ==
    ASSUME NEW s \in Seq(Nat), NEW n \in Nat
    PROVE  /\ Newest(s, n) \in Seq(Nat)
           /\ Len(Newest(s, n)) = (IF Len(s) > n THEN n ELSE Len(s))
           /\ Ends(Newest(s, n), s)
<1> DEFINE f == IF Len(s) > n THEN Len(s) - n + 1 ELSE 1
           t == SubSeq(s, f, Len(s))
<1>1. Len(s) \in Nat /\ \A i \in 1 .. Len(s) : s[i] \in Nat
  BY LenProperties, ElementOfSeq
<1>2. f \in 1 .. Len(s) + 1
  BY <1>1
<1>3. \A i \in f .. Len(s) : s[i] \in Nat
  BY <1>1, <1>2
<1> HIDE DEF f
<1>4. /\ t \in Seq(Nat) /\ Len(t) = IF f <= Len(s) THEN Len(s) - f + 1 ELSE 0
      /\ \A i \in 1 .. Len(s) - f + 1 : t[i] = s[f + i - 1]
  <2>1. f \in Int /\ Len(s) \in Int
    BY <1>1, <1>2
  <2> QED
    BY <1>3, <2>1, SubSeqProperties
<1> HIDE DEF t
<1>5. Len(t) = Len(s) - f + 1
  BY <1>1, <1>2, <1>4
<1>6. Ends(t, s)
  <2>1. ASSUME NEW i \in 1 .. Len(t) PROVE t[i] = s[Len(s) - Len(t) + i]
    <3>1. f + i - 1 = Len(s) - Len(t) + i
      BY <1>1, <1>2, <1>5
    <3> QED
      BY <1>4, <1>5, <3>1
  <2> QED
    BY <1>1, <1>2, <1>5, <2>1 DEF Ends
<1>7. Len(t) = IF Len(s) > n THEN n ELSE Len(s)
  BY <1>1, <1>5 DEF f
<1> QED
  BY <1>4, <1>6, <1>7 DEF Newest, t, f

LEMMA EndsAt ==
    ASSUME NEW a \in Seq(Nat), NEW b \in Seq(Nat), Ends(a, b), NEW i \in 1 .. Len(a)
    PROVE  /\ Len(b) - Len(a) + i \in 1 .. Len(b)
           /\ a[i] = b[Len(b) - Len(a) + i]
<1>1. Len(a) \in Nat /\ Len(b) \in Nat /\ Len(a) <= Len(b)
  BY LenProperties DEF Ends
<1>2. Len(b) - Len(a) + i \in 1 .. Len(b)
  BY <1>1
<1>3. a[i] = b[Len(b) - Len(a) + i]
  BY DEF Ends
<1> QED
  BY <1>2, <1>3

LEMMA EndsTrans ==
    ASSUME NEW a \in Seq(Nat), NEW b \in Seq(Nat), NEW c \in Seq(Nat), Ends(a, b), Ends(b, c)
    PROVE  Ends(a, c)
<1>1. Len(a) \in Nat /\ Len(b) \in Nat /\ Len(c) \in Nat /\ Len(a) <= Len(b) /\ Len(b) <= Len(c)
  BY LenProperties DEF Ends
<1>2. ASSUME NEW i \in 1 .. Len(a) PROVE a[i] = c[Len(c) - Len(a) + i]
  <2> DEFINE j == Len(b) - Len(a) + i
  <2>1. j \in 1 .. Len(b) /\ a[i] = b[j]
    BY EndsAt
  <2> HIDE DEF j
  <2>2. b[j] = c[Len(c) - Len(b) + j]
    BY <2>1, EndsAt
  <2>3. Len(c) - Len(b) + j = Len(c) - Len(a) + i
    BY <1>1 DEF j
  <2> QED
    BY <2>1, <2>2, <2>3
<1> QED
  BY <1>1, <1>2 DEF Ends

\* Of two ends of one sequence the shorter is an end of the longer.
LEMMA EndsOfOne ==
    ASSUME NEW a \in Seq(Nat), NEW b \in Seq(Nat), NEW c \in Seq(Nat), Ends(a, c), Ends(b, c),
           Len(a) <= Len(b)
    PROVE  Ends(a, b)
<1>1. Len(a) \in Nat /\ Len(b) \in Nat /\ Len(c) \in Nat /\ Len(b) <= Len(c)
  BY LenProperties DEF Ends
<1>2. ASSUME NEW i \in 1 .. Len(a) PROVE a[i] = b[Len(b) - Len(a) + i]
  <2> DEFINE j == Len(b) - Len(a) + i
  <2>1. a[i] = c[Len(c) - Len(a) + i]
    BY EndsAt
  <2>2. j \in 1 .. Len(b)
    BY <1>1
  <2> HIDE DEF j
  <2>4. b[j] = c[Len(c) - Len(b) + j]
    BY <2>2, EndsAt
  <2>3. Len(c) - Len(b) + j = Len(c) - Len(a) + i
    BY <1>1 DEF j
  <2> QED
    BY <2>1, <2>3, <2>4 DEF j
<1> QED
  BY <1>2 DEF Ends

LEMMA EndsOrdered ==
    ASSUME NEW a \in Seq(Nat), NEW b \in Seq(Nat), Ends(a, b), Ordered(b)
    PROVE  Ordered(a)
<1>1. Len(a) \in Nat /\ Len(b) \in Nat
  BY LenProperties
<1>2. ASSUME NEW i \in 1 .. Len(a), NEW j \in 1 .. Len(a), i <= j
      PROVE  a[i] <= a[j]
  <2> DEFINE v == Len(b) - Len(a) + i
             w == Len(b) - Len(a) + j
  <2>1. v \in 1 .. Len(b) /\ a[i] = b[v]
    BY EndsAt
  <2>2. w \in 1 .. Len(b) /\ a[j] = b[w]
    BY EndsAt
  <2>3. v <= w
    BY <1>1, <1>2
  <2> HIDE DEF v, w
  <2> QED
    BY <2>1, <2>2, <2>3 DEF Ordered
<1> QED
  BY <1>2 DEF Ordered

\* What pruning keeps is the end of the attempts, and none of it too old.
LEMMA SinceOf ==
    ASSUME NEW s \in Seq(Nat), NEW cutoff \in Int, Ordered(s)
    PROVE  /\ Since(s, cutoff) \in Seq(Nat) /\ Ends(Since(s, cutoff), s)
           /\ \A i \in 1 .. Len(Since(s, cutoff)) : Since(s, cutoff)[i] >= cutoff
<1> DEFINE Old(n) == /\ n <= Len(s) => s[n] >= cutoff
                     /\ \A m \in 1 .. n - 1 : s[m] < cutoff
           f == CHOOSE n \in 1 .. Len(s) + 1 : Old(n)
           t == SubSeq(s, f, Len(s))
<1>1. Len(s) \in Nat /\ \A i \in 1 .. Len(s) : s[i] \in Nat
  BY LenProperties, ElementOfSeq
<1>2. \E n \in 1 .. Len(s) + 1 : Old(n)
  <2> DEFINE S == {n \in 1 .. Len(s) + 1 : n <= Len(s) => s[n] >= cutoff}
  <2>1. Len(s) + 1 \in S /\ S \in SUBSET Nat
    BY <1>1
  <2>2. PICK n \in S : \A m \in S : n <= m
    <3> HIDE DEF S
    <3> QED
      BY <2>1, LeastOf
  <2>3. ASSUME NEW m \in 1 .. n - 1 PROVE s[m] < cutoff
    BY <1>1, <2>2
  <2> QED
    BY <2>2, <2>3
<1>3. f \in 1 .. Len(s) + 1 /\ Old(f)
  BY <1>2
<1> HIDE DEF f
<1>4. /\ t \in Seq(Nat) /\ Len(t) = (IF f <= Len(s) THEN Len(s) - f + 1 ELSE 0)
      /\ \A i \in 1 .. Len(s) - f + 1 : t[i] = s[f + i - 1]
  <2>1. f \in Int /\ Len(s) \in Int /\ \A i \in f .. Len(s) : s[i] \in Nat
    BY <1>1, <1>3
  <2> QED
    BY <2>1, SubSeqProperties
<1> HIDE DEF t
<1>5. Len(t) = Len(s) - f + 1
  BY <1>1, <1>3, <1>4
<1>6. Ends(t, s)
  <2>1. ASSUME NEW i \in 1 .. Len(t) PROVE t[i] = s[Len(s) - Len(t) + i]
    <3>1. f + i - 1 = Len(s) - Len(t) + i
      BY <1>1, <1>3, <1>5
    <3> QED
      BY <1>4, <1>5, <3>1
  <2> QED
    BY <1>1, <1>3, <1>5, <2>1 DEF Ends
<1>7. ASSUME NEW i \in 1 .. Len(t) PROVE t[i] >= cutoff
  <2> DEFINE j == f + i - 1
  <2>1. /\ j \in 1 .. Len(s) /\ f \in 1 .. Len(s) /\ f <= j /\ t[i] = s[j]
    BY <1>1, <1>3, <1>4, <1>5
  <2> HIDE DEF j
  <2>2. s[f] <= s[j] /\ s[f] >= cutoff /\ s[f] \in Nat /\ s[j] \in Nat
    BY <1>1, <1>3, <2>1 DEF Ordered
  <2> QED
    BY <2>1, <2>2
<1> QED
  BY <1>4, <1>6, <1>7 DEF Since, t, f

WindowsTypeOK ==
    /\ time \in Nat \ {0}
    /\ DOMAIN tracked \subseteq Cookies
    /\ \A k \in DOMAIN tracked :
          tracked[k].attempts \in Seq(Nat) /\ tracked[k].lastEmitAt \in Nat
    /\ failed \in [Cookies -> Seq(Nat)]
    /\ \A k \in Cookies :
          emitted[k].last \in Nat /\ emitted[k].gap \in Int /\ emitted[k].count \in Int
    /\ DOMAIN emitted = Cookies
    /\ DOMAIN logins \subseteq Logins
    /\ \A ip \in DOMAIN logins : logins[ip].banUntil \in Int /\ logins[ip].banCount \in Int
    /\ DOMAIN ban = Logins /\ \A ip \in Logins : ban[ip].until \in Int

\* The attempts a record keeps are the last of those that failed.
AttemptsOfFailed ==
    /\ \A k \in Cookies :
          /\ Ordered(failed[k]) /\ Len(failed[k]) <= ErrorThreshold
          /\ \A i \in 1 .. Len(failed[k]) : failed[k][i] <= time
    /\ \A k \in DOMAIN tracked : Ends(tracked[k].attempts, failed[k])

\* A record remembers the last error, or it was dropped when the error was
\* longer ago than a window.
ErrorRemembered ==
    \A k \in Cookies :
        \/ LastEmit(k) = emitted[k].last
        \/ LastEmit(k) = 0 /\ emitted[k].last < time - Window

\* A ban that has not run out is in the table as it was given.
BanRemembered ==
    \A ip \in Logins : time < ban[ip].until =>
        ip \in DOMAIN logins /\ logins[ip].banUntil = ban[ip].until

WindowsInv ==
    /\ WindowsTypeOK /\ AttemptsOfFailed /\ ErrorRemembered /\ BanRemembered
    /\ EmitsRare

LEMMA WindowNumbers ==
    /\ Window \in Nat /\ Window > 0 /\ ErrorThreshold \in Nat /\ ErrorThreshold > 0
    /\ LoginWindow \in Nat /\ MaxFailures \in Nat /\ BaseBan \in Nat /\ MaxBan \in Nat
BY FailureWindowsAssumption

\* What is left of the attempts, of any cookie.
LEMMA AttemptsOf ==
    ASSUME WindowsInv, NEW k \in Cookies
    PROVE  /\ Attempts(k) \in Seq(Nat) /\ Ends(Attempts(k), failed[k])
           /\ Ordered(Attempts(k))
           /\ \A i \in 1 .. Len(Attempts(k)) : Attempts(k)[i] >= time - Window
<1>1. /\ failed[k] \in Seq(Nat) /\ Ordered(failed[k]) /\ Len(failed[k]) \in Nat
      /\ time - Window \in Int
  BY WindowNumbers, LenProperties DEF WindowsInv, WindowsTypeOK, AttemptsOfFailed
<1>2. CASE k \in DOMAIN tracked
  <2> DEFINE s == tracked[k].attempts
             t == Since(s, time - Window)
  <2>1. s \in Seq(Nat) /\ Ends(s, failed[k])
    BY <1>2 DEF WindowsInv, WindowsTypeOK, AttemptsOfFailed
  <2> HIDE DEF s
  <2>2. Ordered(s)
    BY <1>1, <2>1, EndsOrdered
  <2>3. t \in Seq(Nat) /\ Ends(t, s) /\ \A i \in 1 .. Len(t) : t[i] >= time - Window
    BY <1>1, <2>1, <2>2, SinceOf
  <2>4. Attempts(k) = t
    BY <1>2 DEF Attempts, s
  <2> HIDE DEF t
  <2>5. Ends(t, failed[k]) /\ Ordered(t)
    BY <1>1, <2>1, <2>2, <2>3, EndsTrans, EndsOrdered
  <2> QED
    BY <2>3, <2>4, <2>5
<1>3. CASE k \notin DOMAIN tracked
  <2>1. Attempts(k) = <<>> /\ Len(<<>>) = 0 /\ <<>> \in Seq(Nat)
    BY <1>3 DEF Attempts
  <2>2. Ends(Attempts(k), failed[k]) /\ Ordered(Attempts(k))
    BY <1>1, <2>1 DEF Ends, Ordered
  <2> QED
    BY <2>1, <2>2
<1> QED
  BY <1>2, <1>3

LEMMA NoteSafe ==
    ASSUME WindowsInv, NEW k \in Cookies, Note(k)
    PROVE  WindowsInv'
<1> DEFINE a == Append(Attempts(k), time)
           b == Append(failed[k], time)
           attempts == Newest(a, ErrorThreshold)
           recent == Newest(b, ErrorThreshold)
           emits == Len(attempts) >= ErrorThreshold /\ ~Quiet(k)
           record == [attempts |-> attempts, lastEmitAt |-> IF emits THEN time ELSE LastEmit(k)]
<1>0. WindowsTypeOK /\ AttemptsOfFailed /\ ErrorRemembered /\ BanRemembered /\ EmitsRare
  BY DEF WindowsInv
<1>1. /\ time \in Nat /\ time > 0 /\ failed \in [Cookies -> Seq(Nat)] /\ failed[k] \in Seq(Nat)
      /\ Len(failed[k]) \in Nat /\ DOMAIN emitted = Cookies /\ DOMAIN tracked \subseteq Cookies
  BY <1>0, LenProperties DEF WindowsTypeOK
<1>2. /\ tracked' = With(tracked, k, record)
      /\ failed' = [failed EXCEPT ![k] = recent]
      /\ UNCHANGED <<time, logins, purgedAt, ban>>
  BY DEF Note, loginVars
<1>3. emitted' = IF ~emits THEN emitted
          ELSE [emitted EXCEPT ![k] =
                  [last |-> time,
                   gap |-> IF emitted[k].last = 0 THEN Window ELSE time - emitted[k].last,
                   count |-> Cardinality({n \in DOMAIN failed'[k] :
                                              failed'[k][n] >= time - Window})]]
  BY DEF Note
<1>4. record.attempts = attempts /\ record.lastEmitAt = IF emits THEN time ELSE LastEmit(k)
  OBVIOUS
<1> HIDE DEF record, emits, attempts, recent
<1>5. /\ DOMAIN tracked' = DOMAIN tracked \cup {k} /\ tracked'[k] = record
      /\ \A j \in DOMAIN tracked : j # k => tracked'[j] = tracked[j]
  BY <1>2 DEF With
<1>6. /\ a \in Seq(Nat) /\ b \in Seq(Nat) /\ Ends(a, b)
      /\ Len(a) = Len(Attempts(k)) + 1 /\ Len(Attempts(k)) \in Nat
      /\ Len(b) = Len(failed[k]) + 1
  <2>1. Attempts(k) \in Seq(Nat) /\ Ends(Attempts(k), failed[k])
    BY AttemptsOf
  <2> QED
    BY <1>1, <2>1, EndsAppend, AppendProperties, LenProperties
<1>7. \A i \in 1 .. Len(a) : a[i] >= time - Window
  <2>1. /\ Attempts(k) \in Seq(Nat)
        /\ \A i \in 1 .. Len(Attempts(k)) : Attempts(k)[i] >= time - Window
    BY AttemptsOf
  <2>2. /\ \A i \in 1 .. Len(Attempts(k)) : a[i] = Attempts(k)[i]
        /\ a[Len(Attempts(k)) + 1] = time
    BY <1>1, <2>1, AppendProperties
  <2>3. time >= time - Window
    BY <1>1, WindowNumbers
  <2> HIDE DEF a
  <2>4. ASSUME NEW i \in 1 .. Len(a) PROVE a[i] >= time - Window
    <3>1. i \in 1 .. Len(Attempts(k)) \/ i = Len(Attempts(k)) + 1
      BY <1>6
    <3> QED
      BY <2>1, <2>2, <2>3, <3>1
  <2> QED
    BY <2>4
<1>8. Ordered(b) /\ \A i \in 1 .. Len(b) : b[i] <= time
  <2>1. /\ \A i \in 1 .. Len(failed[k]) : b[i] = failed[k][i] /\ failed[k][i] <= time
        /\ b[Len(failed[k]) + 1] = time /\ Ordered(failed[k])
    BY <1>0, <1>1, AppendProperties DEF AttemptsOfFailed
  <2> HIDE DEF b
  <2>2. ASSUME NEW i \in 1 .. Len(b) PROVE b[i] <= time
    <3>1. i \in 1 .. Len(failed[k]) \/ i = Len(failed[k]) + 1
      BY <1>1, <1>6
    <3> QED
      BY <1>1, <2>1, <3>1
  <2>3. ASSUME NEW i \in 1 .. Len(b), NEW j \in 1 .. Len(b), i <= j
        PROVE  b[i] <= b[j]
    <3>1. CASE j = Len(failed[k]) + 1
      BY <2>1, <2>2, <2>3, <3>1
    <3>2. CASE j \in 1 .. Len(failed[k])
      <4>1. i \in 1 .. Len(failed[k])
        BY <1>1, <2>3, <3>2
      <4> QED
        BY <2>1, <2>3, <3>2, <4>1 DEF Ordered
    <3> QED
      BY <1>1, <1>6, <3>1, <3>2
  <2> QED
    BY <2>2, <2>3 DEF Ordered
<1> HIDE DEF a, b
<1>9. /\ attempts \in Seq(Nat) /\ recent \in Seq(Nat)
      /\ Len(attempts) = IF Len(a) > ErrorThreshold THEN ErrorThreshold ELSE Len(a)
      /\ Len(recent) = IF Len(b) > ErrorThreshold THEN ErrorThreshold ELSE Len(b)
      /\ Ends(attempts, a) /\ Ends(recent, b)
  BY <1>6, WindowNumbers, NewestOf DEF attempts, recent
<1>10. /\ Len(a) \in Nat /\ Len(b) \in Nat /\ Len(a) <= Len(b)
       /\ Len(attempts) \in Nat /\ Len(recent) \in Nat
  BY <1>6, <1>9, LenProperties DEF Ends
<1>11. Len(attempts) <= Len(recent) /\ Len(recent) <= ErrorThreshold
  BY <1>9, <1>10, WindowNumbers
<1>12. Ends(attempts, recent) /\ Ordered(recent)
  <2>1. Ends(attempts, b)
    BY <1>6, <1>9, EndsTrans
  <2> QED
    BY <1>6, <1>8, <1>9, <1>11, <2>1, EndsOfOne, EndsOrdered
<1>13. \A i \in 1 .. Len(recent) : recent[i] <= time
  <2>1. ASSUME NEW i \in 1 .. Len(recent) PROVE recent[i] <= time
    <3>1. /\ Len(b) - Len(recent) + i \in 1 .. Len(b)
          /\ recent[i] = b[Len(b) - Len(recent) + i]
      BY <1>6, <1>9, EndsAt
    <3> QED
      BY <1>8, <3>1
  <2> QED
    BY <2>1
<1>14. \A i \in 1 .. Len(attempts) : attempts[i] >= time - Window
  <2>1. ASSUME NEW i \in 1 .. Len(attempts) PROVE attempts[i] >= time - Window
    <3>1. /\ Len(a) - Len(attempts) + i \in 1 .. Len(a)
          /\ attempts[i] = a[Len(a) - Len(attempts) + i]
      BY <1>6, <1>9, EndsAt
    <3> QED
      BY <1>7, <3>1
  <2> QED
    BY <2>1
<1>15. /\ failed' \in [Cookies -> Seq(Nat)] /\ failed'[k] = recent
       /\ \A j \in Cookies : j # k => failed'[j] = failed[j]
  BY <1>1, <1>2, <1>9
<1>16. LastEmit(k) \in Nat
  BY <1>0 DEF LastEmit, WindowsTypeOK
<1>17. AttemptsOfFailed'
  <2>1. ASSUME NEW j \in Cookies
        PROVE  /\ Ordered(failed'[j]) /\ Len(failed'[j]) <= ErrorThreshold
               /\ \A i \in 1 .. Len(failed'[j]) : failed'[j][i] <= time'
    <3>1. CASE j = k
      BY <1>2, <1>11, <1>12, <1>13, <1>15, <3>1
    <3>2. CASE j # k
      BY <1>0, <1>2, <1>15, <3>2 DEF AttemptsOfFailed
    <3> QED
      BY <3>1, <3>2
  <2>2. ASSUME NEW j \in DOMAIN tracked' PROVE Ends(tracked'[j].attempts, failed'[j])
    <3>1. CASE j = k
      BY <1>4, <1>5, <1>12, <1>15, <3>1
    <3>2. CASE j # k
      BY <1>0, <1>1, <1>5, <1>15, <3>2 DEF AttemptsOfFailed
    <3> QED
      BY <3>1, <3>2
  <2> QED
    BY <2>1, <2>2 DEF AttemptsOfFailed
<1>18. \A j \in Cookies : j # k => emitted'[j] = emitted[j] /\ LastEmit(j)' = LastEmit(j)
  <2>1. \A j \in Cookies : j # k => emitted'[j] = emitted[j]
    BY <1>1, <1>3
  <2>2. \A j \in Cookies : j # k => LastEmit(j)' = LastEmit(j)
    BY <1>5 DEF LastEmit
  <2> QED
    BY <2>1, <2>2
<1>19. LastEmit(k)' = IF emits THEN time ELSE LastEmit(k)
  BY <1>4, <1>5 DEF LastEmit
<1>20. CASE ~emits
  <2>1. emitted' = emitted /\ LastEmit(k)' = LastEmit(k)
    BY <1>3, <1>19, <1>20
  <2>2. ErrorRemembered' /\ EmitsRare'
    <3>1. \A j \in Cookies : LastEmit(j)' = LastEmit(j)
      BY <1>18, <2>1
    <3> QED
      BY <1>0, <1>2, <2>1, <3>1 DEF ErrorRemembered, EmitsRare
  <2>3. WindowsTypeOK'
    <3>1. ASSUME NEW j \in DOMAIN tracked'
          PROVE  tracked'[j].attempts \in Seq(Nat) /\ tracked'[j].lastEmitAt \in Nat
      <4>1. CASE j = k
        BY <1>4, <1>5, <1>9, <1>16, <1>20, <4>1
      <4>2. CASE j # k
        BY <1>0, <1>5, <4>2 DEF WindowsTypeOK
      <4> QED
        BY <4>1, <4>2
    <3> QED
      BY <1>0, <1>1, <1>2, <1>5, <1>15, <2>1, <3>1 DEF WindowsTypeOK
  <2> QED
    BY <1>0, <1>2, <1>17, <2>2, <2>3 DEF WindowsInv, BanRemembered
<1>21. CASE emits
  <2> DEFINE new == {n \in DOMAIN recent : recent[n] >= time - Window}
             gap == IF emitted[k].last = 0 THEN Window ELSE time - emitted[k].last
             count == Cardinality(new)
  <2>1. emitted' = [emitted EXCEPT ![k] = [last |-> time, gap |-> gap, count |-> count]]
    BY <1>3, <1>15, <1>21
  <2>2. Len(attempts) = ErrorThreshold /\ Len(recent) = ErrorThreshold
    BY <1>10, <1>11, <1>21, WindowNumbers DEF emits
  <2>3. count = ErrorThreshold
    <3>1. DOMAIN recent = 1 .. ErrorThreshold
      BY <1>9, <2>2, LenProperties
    <3>2. ASSUME NEW n \in 1 .. ErrorThreshold PROVE recent[n] >= time - Window
      <4>1. n \in 1 .. Len(attempts) /\ attempts[n] = recent[Len(recent) - Len(attempts) + n]
        BY <1>9, <1>12, <2>2, EndsAt
      <4>2. Len(recent) - Len(attempts) + n = n
        BY <2>2, WindowNumbers
      <4> QED
        BY <1>14, <4>1, <4>2
    <3>3. new = 1 .. ErrorThreshold
      BY <3>1, <3>2
    <3> QED
      BY <3>3, CountTo, WindowNumbers
  <2>4. gap >= Window /\ gap \in Int
    <3>1. emitted[k].last \in Nat
      BY <1>0 DEF WindowsTypeOK
    <3>2. LastEmit(k) = 0 \/ time - LastEmit(k) >= Window
      BY <1>1, <1>16, <1>21, WindowNumbers DEF emits, Quiet
    <3>3. \/ LastEmit(k) = emitted[k].last
          \/ emitted[k].last < time - Window
      BY <1>0 DEF ErrorRemembered
    <3> QED
      BY <1>1, <1>16, <3>1, <3>2, <3>3, WindowNumbers
  <2> HIDE DEF gap, count
  <2>5. /\ DOMAIN emitted' = Cookies
        /\ emitted'[k].last = time /\ emitted'[k].gap = gap /\ emitted'[k].count = count
    BY <1>1, <2>1
  <2>6. EmitsRare'
    BY <1>0, <1>18, <2>3, <2>4, <2>5, WindowNumbers DEF EmitsRare
  <2>7. ErrorRemembered'
    <3>1. LastEmit(k)' = emitted'[k].last
      BY <1>19, <1>21, <2>5
    <3> QED
      BY <1>0, <1>2, <1>18, <3>1 DEF ErrorRemembered
  <2>8. WindowsTypeOK'
    <3>1. ASSUME NEW j \in DOMAIN tracked'
          PROVE  tracked'[j].attempts \in Seq(Nat) /\ tracked'[j].lastEmitAt \in Nat
      <4>1. CASE j = k
        BY <1>1, <1>4, <1>5, <1>9, <1>21, <4>1
      <4>2. CASE j # k
        BY <1>0, <1>5, <4>2 DEF WindowsTypeOK
      <4> QED
        BY <4>1, <4>2
    <3>2. ASSUME NEW j \in Cookies
          PROVE  emitted'[j].last \in Nat /\ emitted'[j].gap \in Int /\ emitted'[j].count \in Int
      <4>1. CASE j = k
        BY <1>1, <2>3, <2>4, <2>5, <4>1, WindowNumbers
      <4>2. CASE j # k
        BY <1>0, <1>18, <4>2 DEF WindowsTypeOK
      <4> QED
        BY <4>1, <4>2
    <3> QED
      BY <1>0, <1>1, <1>2, <1>5, <1>15, <2>5, <3>1, <3>2 DEF WindowsTypeOK
  <2> QED
    BY <1>0, <1>2, <1>17, <2>6, <2>7, <2>8 DEF WindowsInv, BanRemembered
<1> QED
  BY <1>20, <1>21

LEMMA CleanTrackerSafe ==
    ASSUME WindowsInv, CleanTracker
    PROVE  WindowsInv'
<1>0. WindowsTypeOK /\ AttemptsOfFailed /\ ErrorRemembered /\ BanRemembered /\ EmitsRare
  BY DEF WindowsInv
<1> DEFINE Staying == {j \in DOMAIN tracked : ~Expired(j)}
<1>1. /\ tracked' = [k \in Staying |-> [attempts |-> Attempts(k), lastEmitAt |-> tracked[k].lastEmitAt]]
      /\ UNCHANGED <<time, emitted, failed, logins, purgedAt, ban>>
  BY DEF CleanTracker, loginVars
<1>2. DOMAIN tracked' = Staying /\ Staying \subseteq DOMAIN tracked /\ DOMAIN tracked \subseteq Cookies
  BY <1>0, <1>1 DEF WindowsTypeOK
<1>3. ASSUME NEW k \in Staying
      PROVE  /\ tracked'[k].attempts = Attempts(k)
             /\ tracked'[k].lastEmitAt = tracked[k].lastEmitAt
             /\ tracked[k].lastEmitAt \in Nat
             /\ Attempts(k) \in Seq(Nat) /\ Ends(Attempts(k), failed[k])
  <2>1. /\ tracked'[k].attempts = Attempts(k)
        /\ tracked'[k].lastEmitAt = tracked[k].lastEmitAt
    BY <1>1
  <2>2. k \in Cookies /\ tracked[k].lastEmitAt \in Nat
    BY <1>0, <1>2 DEF WindowsTypeOK
  <2> QED
    BY <2>1, <2>2, AttemptsOf
<1> HIDE DEF Staying
<1>4. WindowsTypeOK'
  BY <1>0, <1>1, <1>2, <1>3 DEF WindowsTypeOK
<1>5. AttemptsOfFailed'
  BY <1>0, <1>1, <1>2, <1>3 DEF AttemptsOfFailed
<1>6. ErrorRemembered'
  <2>1. ASSUME NEW k \in Cookies
        PROVE  \/ LastEmit(k)' = emitted[k].last
               \/ LastEmit(k)' = 0 /\ emitted[k].last < time - Window
    <3>1. \/ LastEmit(k) = emitted[k].last
          \/ LastEmit(k) = 0 /\ emitted[k].last < time - Window
      BY <1>0 DEF ErrorRemembered
    <3>2. CASE k \in Staying
      <4>1. LastEmit(k)' = LastEmit(k)
        BY <1>2, <1>3, <3>2 DEF LastEmit
      <4> QED
        BY <3>1, <4>1
    <3>3. CASE k \notin Staying
      <4>1. LastEmit(k)' = 0
        BY <1>2, <3>3 DEF LastEmit
      <4>2. LastEmit(k) = 0 \/ LastEmit(k) < time - Window
        BY <3>3 DEF Staying, Expired, LastEmit
      <4> QED
        BY <3>1, <4>1, <4>2
    <3> QED
      BY <3>2, <3>3
  <2> QED
    BY <1>1, <2>1 DEF ErrorRemembered
<1> QED
  BY <1>0, <1>1, <1>4, <1>5, <1>6 DEF WindowsInv, EmitsRare, BanRemembered

\* A step of the limiter leaves what is known of cookies alone.
LEMMA LoginStep ==
    ASSUME WindowsInv, UNCHANGED <<time, tracked, emitted, failed>>,
           DOMAIN logins' \subseteq Logins,
           \A ip \in DOMAIN logins' : logins'[ip].banUntil \in Int /\ logins'[ip].banCount \in Int,
           DOMAIN ban' = Logins, \A ip \in Logins : ban'[ip].until \in Int,
           BanRemembered'
    PROVE  WindowsInv'
<1>1. WindowsTypeOK'
  BY DEF WindowsInv, WindowsTypeOK
<1>2. AttemptsOfFailed' /\ EmitsRare'
  BY DEF WindowsInv, AttemptsOfFailed, EmitsRare
<1>3. ErrorRemembered'
  BY DEF WindowsInv, ErrorRemembered, LastEmit
<1> QED
  BY <1>1, <1>2, <1>3 DEF WindowsInv

LEMMA FailureSafe ==
    ASSUME WindowsInv, NEW ip \in Logins, Failure(ip)
    PROVE  WindowsInv'
<1> DEFINE rec == RecordOf(ip)
           blocked == rec.banUntil # 0 /\ time < rec.banUntil
           decayed == rec.banUntil # 0 /\ time > rec.banUntil /\ time - rec.banUntil >= DecayAfter
           count == IF decayed THEN 0 ELSE rec.banCount
           times == Append(After(rec.timestamps, time - LoginWindow), time)
           bans == ~blocked /\ Len(times) >= MaxFailures
           length == BanLength(count + 1)
           new == IF blocked THEN rec
                  ELSE IF bans
                  THEN [timestamps |-> <<>>, banUntil |-> time + length, banCount |-> count + 1]
                  ELSE [timestamps |-> times, banUntil |-> rec.banUntil, banCount |-> count]
<1>0. WindowsTypeOK /\ BanRemembered
  BY DEF WindowsInv
<1>1. /\ logins' = With([j \in KeptLogins |-> logins[j]], ip, new)
      /\ ban' = IF bans THEN [ban EXCEPT ![ip] = [until |-> time + length, long |-> length]]
                ELSE ban
      /\ UNCHANGED <<time, tracked, emitted, failed>>
  BY DEF Failure, trackVars
<1>2. /\ time \in Nat /\ time > 0 /\ DOMAIN ban = Logins /\ DOMAIN logins \subseteq Logins
      /\ \A j \in DOMAIN logins : logins[j].banUntil \in Int /\ logins[j].banCount \in Int
      /\ KeptLogins \subseteq DOMAIN logins /\ \A j \in Logins : ban[j].until \in Int
  BY <1>0 DEF WindowsTypeOK, KeptLogins
<1>3. rec.banUntil \in Int /\ rec.banCount \in Int
  BY <1>2 DEF RecordOf, Fresh
<1> HIDE DEF rec, times
<1>4. count \in Int
  BY <1>3
<1> HIDE DEF decayed, count
<1>5. length \in Int
  BY <1>4, WindowNumbers DEF BanLength
<1> HIDE DEF length
<1>6. new.banUntil \in Int /\ new.banCount \in Int
  <2>1. CASE blocked
    BY <1>3, <2>1
  <2>2. CASE ~blocked /\ bans
    BY <1>2, <1>4, <1>5, <2>2
  <2>3. CASE ~blocked /\ ~bans
    BY <1>3, <1>4, <2>3
  <2> QED
    BY <2>1, <2>2, <2>3
<1>7. bans => new.banUntil = time + length
  OBVIOUS
<1>8. blocked => new = rec
  OBVIOUS
<1> HIDE DEF new
<1>9. /\ DOMAIN logins' = KeptLogins \cup {ip} /\ logins'[ip] = new
      /\ \A j \in KeptLogins : j # ip => logins'[j] = logins[j]
  BY <1>1 DEF With
<1>10. /\ DOMAIN ban' = Logins
       /\ \A j \in Logins : j # ip => ban'[j] = ban[j]
       /\ bans => ban'[ip].until = time + length
       /\ ~bans => ban' = ban
  BY <1>1, <1>2
<1>11. ASSUME NEW j \in Logins, time < ban[j].until
       PROVE  j \in KeptLogins /\ logins[j].banUntil = ban[j].until
  <2>1. j \in DOMAIN logins /\ logins[j].banUntil = ban[j].until
    BY <1>0, <1>11 DEF BanRemembered
  <2>2. ~(time > logins[j].banUntil)
    BY <1>2, <1>11, <2>1
  <2> QED
    BY <2>1, <2>2 DEF KeptLogins, Purgeable
<1>12. BanRemembered'
  <2>1. ASSUME NEW j \in Logins, time < ban'[j].until
        PROVE  j \in DOMAIN logins' /\ logins'[j].banUntil = ban'[j].until
    <3>1. CASE j # ip
      BY <1>9, <1>10, <1>11, <2>1, <3>1
    <3>2. CASE j = ip /\ bans
      BY <1>7, <1>9, <1>10, <3>2
    <3>3. CASE j = ip /\ ~bans
      <4>1. ban' = ban /\ ip \in KeptLogins /\ logins[ip].banUntil = ban[ip].until
        BY <1>10, <1>11, <2>1, <3>3
      <4>2. rec = logins[ip]
        BY <4>1 DEF rec, RecordOf
      <4>3. blocked
        BY <1>2, <2>1, <3>3, <4>1, <4>2
      <4> QED
        BY <1>8, <1>9, <3>3, <4>1, <4>2, <4>3
    <3> QED
      BY <3>1, <3>2, <3>3
  <2> QED
    BY <1>1, <2>1 DEF BanRemembered
<1>13. \A j \in Logins : ban'[j].until \in Int
  BY <1>2, <1>5, <1>10
<1>14. /\ DOMAIN logins' \subseteq Logins
       /\ \A j \in DOMAIN logins' : logins'[j].banUntil \in Int /\ logins'[j].banCount \in Int
  BY <1>2, <1>6, <1>9
<1> QED
  BY <1>1, <1>10, <1>12, <1>13, <1>14, LoginStep

LEMMA SuccessSafe ==
    ASSUME WindowsInv, NEW ip \in Logins, Success(ip)
    PROVE  WindowsInv'
<1>1. /\ logins' = [j \in DOMAIN logins \ {ip} |-> logins[j]]
      /\ ban' = [ban EXCEPT ![ip] = NoBan]
      /\ UNCHANGED <<time, tracked, emitted, failed>>
  BY DEF Success, trackVars
<1>2. /\ time \in Nat /\ time > 0 /\ DOMAIN ban = Logins /\ DOMAIN logins \subseteq Logins
      /\ \A j \in DOMAIN logins : logins[j].banUntil \in Int /\ logins[j].banCount \in Int
      /\ \A j \in Logins : ban[j].until \in Int
  BY DEF WindowsInv, WindowsTypeOK
<1>3. /\ DOMAIN logins' = DOMAIN logins \ {ip}
      /\ \A j \in DOMAIN logins' : logins'[j] = logins[j]
  BY <1>1
<1>4. /\ DOMAIN ban' = Logins /\ ban'[ip].until = 0
      /\ \A j \in Logins : j # ip => ban'[j] = ban[j]
  BY <1>1, <1>2 DEF NoBan
<1>5. BanRemembered'
  BY <1>1, <1>2, <1>3, <1>4 DEF WindowsInv, BanRemembered
<1>6. \A j \in Logins : ban'[j].until \in Int
  BY <1>2, <1>4
<1>7. /\ DOMAIN logins' \subseteq Logins
      /\ \A j \in DOMAIN logins' : logins'[j].banUntil \in Int /\ logins'[j].banCount \in Int
  BY <1>2, <1>3
<1> QED
  BY <1>1, <1>4, <1>5, <1>6, <1>7, LoginStep

LEMMA MinuteSafe ==
    ASSUME WindowsInv, Minute
    PROVE  WindowsInv'
<1>0. WindowsTypeOK /\ AttemptsOfFailed /\ ErrorRemembered /\ BanRemembered /\ EmitsRare
  BY DEF WindowsInv
<1>1. /\ time \in Nat /\ time' = time + 1
      /\ UNCHANGED <<tracked, emitted, failed, logins, purgedAt, ban>>
  BY <1>0 DEF Minute, trackVars, loginVars, WindowsTypeOK
<1>2. WindowsTypeOK'
  BY <1>0, <1>1 DEF WindowsTypeOK
<1>3. AttemptsOfFailed'
  <2>1. ASSUME NEW k \in Cookies, NEW i \in 1 .. Len(failed[k])
        PROVE  failed[k][i] <= time'
    <3>1. failed[k] \in Seq(Nat) /\ failed[k][i] <= time
      BY <1>0 DEF WindowsTypeOK, AttemptsOfFailed
    <3>2. failed[k][i] \in Nat
      BY <3>1, ElementOfSeq
    <3> QED
      BY <1>1, <3>1, <3>2
  <2> QED
    BY <1>0, <1>1, <2>1 DEF AttemptsOfFailed
<1>4. ErrorRemembered'
  <2>1. ASSUME NEW k \in Cookies
        PROVE  \/ LastEmit(k)' = emitted[k].last
               \/ LastEmit(k)' = 0 /\ emitted[k].last < time' - Window
    <3>1. LastEmit(k)' = LastEmit(k) /\ emitted[k].last \in Nat
      BY <1>0, <1>1 DEF LastEmit, WindowsTypeOK
    <3> QED
      BY <1>0, <1>1, <3>1, WindowNumbers DEF ErrorRemembered
  <2> QED
    BY <1>1, <2>1 DEF ErrorRemembered
<1>5. BanRemembered'
  <2>1. \A ip \in Logins : ban[ip].until \in Int
    BY <1>0 DEF WindowsTypeOK
  <2> QED
    BY <1>0, <1>1, <2>1 DEF BanRemembered
<1> QED
  BY <1>0, <1>1, <1>2, <1>3, <1>4, <1>5 DEF WindowsInv, EmitsRare

LEMMA WindowsInitSafe == WindowsInit => WindowsInv
<1> SUFFICES ASSUME WindowsInit PROVE WindowsInv
  OBVIOUS
<1>1. /\ time = 1 /\ tracked = <<>> /\ logins = <<>>
      /\ failed = [k \in Cookies |-> <<>>] /\ emitted = [k \in Cookies |-> NoError]
      /\ ban = [ip \in Logins |-> NoBan]
  BY DEF WindowsInit
<1>2. DOMAIN tracked = {} /\ DOMAIN logins = {}
  BY <1>1
<1>3. \A k \in Cookies : failed[k] = <<>> /\ emitted[k] = NoError
  BY <1>1
<1>4. \A ip \in Logins : ban[ip] = NoBan
  BY <1>1
<1>5. WindowsTypeOK
  BY <1>1, <1>2, <1>3, <1>4, WindowNumbers DEF WindowsTypeOK, NoError, NoBan
<1>6. AttemptsOfFailed
  BY <1>2, <1>3, WindowNumbers DEF AttemptsOfFailed, Ordered
<1>7. ErrorRemembered
  BY <1>2, <1>3 DEF ErrorRemembered, LastEmit, NoError
<1>8. BanRemembered
  BY <1>1, <1>4 DEF BanRemembered, NoBan
<1>9. EmitsRare
  BY <1>3, WindowNumbers DEF EmitsRare, NoError
<1> QED
  BY <1>5, <1>6, <1>7, <1>8, <1>9 DEF WindowsInv

LEMMA WindowsKept ==
    ASSUME WindowsInv, WindowsNext
    PROVE  WindowsInv'
BY NoteSafe, CleanTrackerSafe, FailureSafe, SuccessSafe, MinuteSafe DEF WindowsNext

LEMMA WindowsImply ==
    ASSUME WindowsInv
    PROVE  WindowsSound
BY DEF WindowsInv, WindowsTypeOK, WindowsSound, BanLasts, IsBlocked, Known, BanRemembered
-----------------------------------------------------------------------------
(* The local connections of the client.                                     *)

Named == {c \in Locals : streamID[c] # NoStream}

\* The ids up to the last one were given to connections; a stream in the table
\* has its id, and a handler that has not used its id yet has it alone, or a
\* restart has overtaken one of those that have it.
IDsInOrder ==
    /\ \A i \in 1 .. lastID : \E c \in Named : streamID[c] = i
    /\ overtaken \subseteq Named
    /\ \A i \in 1 .. MaxStreamID : streams[i] # NoStream =>
          /\ streamID[streams[i]] = i /\ handler[streams[i]] \in {"made", "done"}
          /\ i <= lastID \/ streams[i] \in overtaken
    /\ \A c \in Locals :
          /\ handler[c] \in {"new", "admitted"} => streamID[c] = NoStream
          /\ handler[c] \in {"named", "made"} => streamID[c] # NoStream
          /\ handler[c] \in {"new", "admitted", "named"} =>
                status[c] = "none" /\ arq[c] = "none"
          /\ handler[c] = "done" /\ open[c] => streamID[c] # NoStream
          /\ arq[c] # "none" => streamID[c] # NoStream
          /\ handler[c] = "named" =>
                /\ streamID[c] <= lastID \/ c \in overtaken
                /\ c \in overtaken \/ streams[streamID[c]] \in overtaken \cup {NoStream}
                /\ \A d \in Locals : handler[d] = "named" /\ d # c /\ streamID[d] = streamID[c] =>
                      c \in overtaken \/ d \in overtaken

\* A verdict is on a stream whose handler is done, or on a shared id.
VerdictOf ==
    \A i \in 1 .. MaxStreamID : verdict[i] # "none" =>
        /\ i <= lastID \/ \E c \in overtaken : streamID[c] = i
        /\ \A d \in Locals : streamID[d] = i =>
              /\ handler[d] = "named" => d \in Sharers
              /\ streams[i] = d => handler[d] = "done" \/ d \in Sharers

OwnID ==
    \A p \in Processors : proc[p].at # "idle" =>
        LET c == proc[p].of
        IN  /\ c \in Locals /\ streamID[c] # NoStream
            /\ handler[c] = "done" \/ (handler[c] = "made" /\ c \in Sharers)
            /\ streamID[c] <= lastID \/ c \in overtaken
            /\ c \in overtaken \/ streams[streamID[c]] \in overtaken \cup {NoStream, c}
            /\ \A d \in Locals : handler[d] = "named" /\ streamID[d] = streamID[c] =>
                  c \in overtaken \/ d \in overtaken

Told == Ended \cup {"failed", "active"}

ReplyDue ==
    /\ \A p \in Processors :
          LET c == proc[p].of
          IN  /\ proc[p].at \in {"write", "pending", "ready"} => c \in Socks
              /\ proc[p].at = "tcp" => c \notin Socks
              /\ proc[p].at = "write" => resultMu[c] = p
              /\ proc[p].at = "write" /\ c \notin Sharers => replies[c] = 0
              /\ proc[p].at = "ready" /\ c \notin Sharers => replies[c] = 1
              /\ proc[p].at # "idle" /\ c \in Socks \ Sharers /\ status[c] = "active" =>
                    verdict[streamID[c]] = "ok"
    /\ \A c \in Socks \ Sharers : replies[c] = 1 => status[c] \in Told /\ handler[c] = "done"
    /\ \A i \in 1 .. MaxStreamID : streams[i] \in Socks \ Sharers =>
          (status[streams[i]] = "active" => verdict[i] = "ok")

LocalInv == LocalTypeOK /\ IDsInOrder /\ VerdictOf /\ OwnID /\ ReplyDue /\ LocalSound

ProcTypes == [Processors -> [at : {"idle", "found", "write", "pending", "ready", "close",
                                   "force", "tcp"}, of : Locals \cup {NoStream}]]
StatusTypes == [Locals -> {"none", "connecting", "active", "failed", "cancelled"} \cup Ended]
ARQTypes == [Locals -> {"none", "paused", "ready", "closed"}]

LEMMA InTable ==
    ASSUME LocalTypeOK, IDsInOrder, NEW i \in 1 .. MaxStreamID, streams[i] # NoStream
    PROVE  streams[i] \in Locals /\ streamID[streams[i]] = i
<1>1. streams[i] \in Locals
  BY DEF LocalTypeOK
<1>2. streamID[streams[i]] = i
  BY DEF IDsInOrder
<1> QED
  BY <1>1, <1>2

\* The next id is beyond the last, free, and those between are in the table.
LEMMA NextIsNew ==
    ASSUME LocalTypeOK, IDsInOrder, NEW c \in Locals, handler[c] = "admitted"
    PROVE  /\ NextID \in 1 .. MaxStreamID /\ NextID > lastID /\ streams[NextID] = NoStream
           /\ \A j \in 1 .. MaxStreamID : lastID < j /\ j < NextID => streams[j] # NoStream
<1> DEFINE ids == {streamID[d] : d \in Named}
<1>1. Named \subseteq Locals \ {c}
  BY DEF IDsInOrder, Named
<1>2. /\ IsFiniteSet(Named) /\ Cardinality(Named) \in Nat
      /\ Cardinality(Named) < MaxStreamID
  <2>1. IsFiniteSet(Locals \ {c}) /\ Cardinality(Locals \ {c}) = Cardinality(Locals) - 1
        /\ Cardinality(Locals) \in Nat
    BY LocalStreamsAssumption, FS_RemoveElement, FS_CardinalityType
  <2>2. IsFiniteSet(Named) /\ Cardinality(Named) <= Cardinality(Locals \ {c})
    BY <1>1, <2>1, FS_Subset
  <2> QED
    BY <2>1, <2>2, FS_CardinalityType, LocalStreamsAssumption
<1>3. IsFiniteSet(ids) /\ Cardinality(ids) <= Cardinality(Named)
  <2>1. [d \in Named |-> streamID[d]] \in Surjection(Named, ids)
    BY DEF Surjection
  <2> QED
    BY <1>2, <2>1, FS_Surjection
<1>4. Following \subseteq Nat /\ Following # {}
  <2>1. Following \subseteq Nat
    BY DEF Following, Unused
  <2>2. ASSUME Following = {} PROVE FALSE
    <3>1. ASSUME NEW i \in 1 .. MaxStreamID PROVE i \in ids
      <4>1. CASE i <= lastID
        <5>1. i \in 1 .. lastID
          BY <4>1 DEF LocalTypeOK
        <5> QED
          BY <5>1 DEF IDsInOrder
      <4>2. CASE ~(i <= lastID)
        <5>1. streams[i] # NoStream
          <6>1. i \notin Following /\ i > lastID
            BY <2>2, <4>2 DEF LocalTypeOK
          <6> QED
            BY <6>1 DEF Following, Unused, Active
        <5>2. streams[i] \in Locals /\ streamID[streams[i]] = i
          BY <5>1, InTable
        <5>3. streams[i] \in Named
          BY <5>2 DEF Named, NoStream
        <5> QED
          BY <5>2, <5>3
      <4> QED
        BY <4>1, <4>2
    <3>2. Cardinality(1 .. MaxStreamID) = MaxStreamID /\ 1 .. MaxStreamID \subseteq ids
      <4>1. 1 \in Int /\ MaxStreamID \in Int /\ MaxStreamID >= 1
        BY LocalStreamsAssumption
      <4>2. Cardinality(1 .. MaxStreamID) = MaxStreamID
        BY <4>1, FS_Interval
      <4> QED
        BY <3>1, <4>2
    <3> HIDE DEF ids
    <3>3. MaxStreamID <= Cardinality(ids)
      <4>1. Cardinality(1 .. MaxStreamID) <= Cardinality(ids)
        BY <1>3, <3>2, FS_Subset
      <4> QED
        BY <3>2, <4>1
    <3>4. Cardinality(ids) \in Nat
      BY <1>3, FS_CardinalityType
    <3> QED
      BY <1>2, <1>3, <3>3, <3>4, LocalStreamsAssumption
  <2> QED
    BY <2>1, <2>2
<1>5. NextID \in Following /\ \A j \in Following : NextID <= j
  <2>1. \E i \in Following : \A j \in Following : i <= j
    BY <1>4, LeastOf
  <2> QED
    BY <1>4, <2>1 DEF NextID
<1> QED
  BY <1>5 DEF Following, Unused, Active, LocalTypeOK

LEMMA SharersSame ==
    ASSUME UNCHANGED <<streamID, overtaken>>
    PROVE  Sharers' = Sharers
BY DEF Sharers

LEMMA SharersGrow ==
    ASSUME overtaken \subseteq Named, overtaken \subseteq overtaken',
           \A c \in Named : streamID'[c] = streamID[c]
    PROVE  Sharers \subseteq Sharers'
<1> SUFFICES ASSUME NEW c \in Sharers PROVE c \in Sharers'
  OBVIOUS
<1>1. PICK d \in Locals \ {c} :
          streamID[d] = streamID[c] /\ (c \in overtaken \/ d \in overtaken)
  BY DEF Sharers
<1>2. c \in Locals /\ c \in Named /\ d \in Named
  BY <1>1 DEF Sharers, Named
<1>3. streamID'[d] = streamID'[c] /\ (c \in overtaken' \/ d \in overtaken')
  BY <1>1, <1>2
<1> QED
  BY <1>2, <1>3 DEF Sharers

LEMMA Sharing ==
    ASSUME NEW c \in Locals, NEW d \in Locals, c # d, streamID[c] = streamID[d],
           c \in overtaken \/ d \in overtaken
    PROVE  c \in Sharers /\ d \in Sharers
BY DEF Sharers

LEMMA ProcGoes ==
    ASSUME LocalTypeOK, NEW p \in Processors, NEW from,
           NEW to \in {"idle", "found", "write", "pending", "ready", "close", "force", "tcp"},
           Goes(p, from, to)
    PROVE  /\ proc' \in ProcTypes
           /\ \A q \in Processors : q # p => proc'[q] = proc[q]
           /\ proc[p].at = from /\ proc'[p].at = to /\ proc'[p].of = proc[p].of
BY DEF LocalTypeOK, Goes, ProcTypes

LEMMA ProcStops ==
    ASSUME LocalTypeOK, NEW p \in Processors, Stops(p)
    PROVE  /\ proc' \in ProcTypes
           /\ \A q \in Processors : q # p => proc'[q] = proc[q]
           /\ proc'[p].at = "idle"
BY DEF LocalTypeOK, Stops, Idle, ProcTypes

\* Steps that give no ids and begin no streams.
LEMMA IDsKept ==
    ASSUME LocalTypeOK, IDsInOrder, VerdictOf,
           UNCHANGED <<handler, streamID, lastID, verdict, overtaken>>,
           \A i \in 1 .. MaxStreamID : streams'[i] \in {NoStream, streams[i]},
           \A c \in Locals : handler[c] \in {"new", "admitted", "named"} =>
               status'[c] = status[c] /\ arq'[c] = arq[c],
           \A c \in Locals : open'[c] => open[c],
           \A c \in Locals : arq'[c] = arq[c] \/ streamID[c] # NoStream
    PROVE  IDsInOrder' /\ VerdictOf' /\ Sharers' = Sharers
<1>1. Sharers' = Sharers /\ Named' = Named
  BY SharersSame DEF Named
<1>2. VerdictOf'
  <2> SUFFICES ASSUME NEW i \in 1 .. MaxStreamID, verdict'[i] # "none",
                      NEW d \in Locals, streamID'[d] = i
               PROVE  /\ i <= lastID' \/ \E c \in overtaken' : streamID'[c] = i
                      /\ handler'[d] = "named" => d \in Sharers'
                      /\ streams'[i] = d => handler'[d] = "done" \/ d \in Sharers'
    <3>1. ASSUME NEW i \in 1 .. MaxStreamID, verdict'[i] # "none"
          PROVE  i <= lastID' \/ \E c \in overtaken' : streamID'[c] = i
      BY <3>1 DEF VerdictOf
    <3> QED
      BY <3>1 DEF VerdictOf
  <2>1. streams'[i] = d => streams[i] = d
    BY LocalStreamsAssumption
  <2> QED
    BY <1>1, <2>1 DEF VerdictOf
<1>3. IDsInOrder'
  <2>1. ASSUME NEW i \in 1 .. MaxStreamID, streams'[i] # NoStream
        PROVE  /\ streamID'[streams'[i]] = i /\ handler'[streams'[i]] \in {"made", "done"}
               /\ i <= lastID' \/ streams'[i] \in overtaken'
    BY <2>1 DEF IDsInOrder
  <2>2. ASSUME NEW c \in Locals, handler'[c] = "named"
        PROVE  /\ streamID'[c] <= lastID' \/ c \in overtaken'
               /\ c \in overtaken' \/ streams'[streamID'[c]] \in overtaken' \cup {NoStream}
               /\ \A d \in Locals : handler'[d] = "named" /\ d # c /\ streamID'[d] = streamID'[c] =>
                     c \in overtaken' \/ d \in overtaken'
    <3>1. streamID[c] \in 1 .. MaxStreamID
      BY <2>2 DEF IDsInOrder, LocalTypeOK, NoStream
    <3> QED
      BY <2>2, <3>1 DEF IDsInOrder
  <2>3. ASSUME NEW c \in Locals
        PROVE  /\ handler'[c] \in {"new", "admitted"} => streamID'[c] = NoStream
               /\ handler'[c] \in {"named", "made"} => streamID'[c] # NoStream
               /\ handler'[c] \in {"new", "admitted", "named"} =>
                     status'[c] = "none" /\ arq'[c] = "none"
               /\ handler'[c] = "done" /\ open'[c] => streamID'[c] # NoStream
               /\ arq'[c] # "none" => streamID'[c] # NoStream
    BY DEF IDsInOrder
  <2>4. /\ \A i \in 1 .. lastID' : \E c \in Named' : streamID'[c] = i
        /\ overtaken' \subseteq Named'
    BY <1>1 DEF IDsInOrder
  <2> QED
    BY <2>1, <2>2, <2>3, <2>4 DEF IDsInOrder
<1> QED
  BY <1>1, <1>2, <1>3

\* Steps of processors that go on with the stream they have.
LEMMA OwnIDKept ==
    ASSUME LocalTypeOK, OwnID, Sharers' = Sharers,
           UNCHANGED <<handler, streamID, lastID, overtaken>>,
           \A i \in 1 .. MaxStreamID : streams'[i] \in {NoStream, streams[i]},
           \A q \in Processors : proc'[q].at # "idle" =>
               proc[q].at # "idle" /\ proc'[q].of = proc[q].of
    PROVE  OwnID'
<1> SUFFICES ASSUME NEW q \in Processors, proc'[q].at # "idle", NEW c, c = proc'[q].of
             PROVE  /\ c \in Locals /\ streamID'[c] # NoStream
                    /\ handler'[c] = "done" \/ (handler'[c] = "made" /\ c \in Sharers')
                    /\ streamID'[c] <= lastID' \/ c \in overtaken'
                    /\ \/ c \in overtaken'
                       \/ streams'[streamID'[c]] \in overtaken' \cup {NoStream, c}
                    /\ \A d \in Locals : handler'[d] = "named" /\ streamID'[d] = streamID'[c] =>
                          c \in overtaken' \/ d \in overtaken'
  BY DEF OwnID
<1>1. proc[q].at # "idle" /\ proc[q].of = c
  OBVIOUS
<1>2. c \in Locals /\ streamID[c] \in 1 .. MaxStreamID
  BY <1>1 DEF OwnID, LocalTypeOK, NoStream
<1> QED
  BY <1>1, <1>2 DEF OwnID

LEMMA Closing ==
    ASSUME LocalInv, NEW cs \in SUBSET Locals, Finalized(cs),
           \A c \in cs : streamID[c] # NoStream /\ handler[c] \in {"made", "done"},
           streams' = [i \in 1 .. MaxStreamID |->
                          IF streams[i] \in cs THEN NoStream ELSE streams[i]],
           proc' \in ProcTypes,
           \A q \in Processors : proc'[q].at # "idle" => proc'[q] = proc[q],
           UNCHANGED <<handler, streamID, lastID, terminal, replies, verdict, resultMu, overtaken>>
    PROVE  LocalInv'
<1>0. LocalTypeOK /\ IDsInOrder /\ VerdictOf /\ OwnID /\ ReplyDue /\ LocalSound
  BY DEF LocalInv
<1>1. arq' \in ARQTypes /\ status' \in StatusTypes /\ open' \in [Locals -> BOOLEAN]
  BY <1>0 DEF Finalized, LocalTypeOK, Ended, ARQTypes, StatusTypes
<1>2. /\ \A k \in Locals : k \notin cs =>
             arq'[k] = arq[k] /\ status'[k] = status[k] /\ open'[k] = open[k]
      /\ \A k \in cs : arq'[k] = "closed" /\ status'[k] = "closed" /\ ~open'[k]
  BY <1>0 DEF Finalized, LocalTypeOK
<1>3. /\ streams' \in [1 .. MaxStreamID -> Locals \cup {NoStream}]
      /\ \A i \in 1 .. MaxStreamID : streams'[i] \in {NoStream, streams[i]}
      /\ \A i \in 1 .. MaxStreamID : streams[i] \notin cs => streams'[i] = streams[i]
      /\ \A i \in 1 .. MaxStreamID : streams'[i] \notin cs
  BY <1>0, LocalStreamsAssumption DEF LocalTypeOK
<1>4. LocalTypeOK'
  BY <1>0, <1>1, <1>3 DEF LocalTypeOK, ProcTypes, StatusTypes, ARQTypes
<1>5. \A k \in Locals : streamID[k] # NoStream => streamID[k] \in 1 .. MaxStreamID
  BY <1>0 DEF LocalTypeOK, NoStream
<1>6. IDsInOrder' /\ VerdictOf' /\ Sharers' = Sharers
  <2>1. \A k \in Locals : open'[k] => open[k]
    BY <1>2
  <2>2. \A k \in Locals : arq'[k] = arq[k] \/ streamID[k] # NoStream
    BY <1>2
  <2>3. \A k \in Locals : handler[k] \in {"new", "admitted", "named"} =>
             status'[k] = status[k] /\ arq'[k] = arq[k]
    BY <1>2
  <2> QED
    BY <1>0, <1>3, <2>1, <2>2, <2>3, IDsKept
<1>7. OwnID'
  BY <1>0, <1>3, <1>6, OwnIDKept
<1>8. ReplyDue'
  <2>1. ASSUME NEW q \in Processors, NEW c, c = proc'[q].of
        PROVE  /\ proc'[q].at \in {"write", "pending", "ready"} => c \in Socks
               /\ proc'[q].at = "tcp" => c \notin Socks
               /\ proc'[q].at = "write" => resultMu'[c] = q
               /\ proc'[q].at = "write" /\ c \notin Sharers' => replies'[c] = 0
               /\ proc'[q].at = "ready" /\ c \notin Sharers' => replies'[c] = 1
               /\ proc'[q].at # "idle" /\ c \in Socks \ Sharers' /\ status'[c] = "active" =>
                     verdict'[streamID'[c]] = "ok"
    <3>1. CASE proc'[q].at = "idle"
      BY <3>1
    <3>2. CASE proc'[q].at # "idle"
      <4>1. proc'[q] = proc[q] /\ c \in Locals
        BY <1>0, <2>1, <3>2 DEF OwnID
      <4>2. status'[c] = "active" => status[c] = "active"
        BY <1>2, <4>1
      <4> QED
        BY <1>0, <1>6, <2>1, <4>1, <4>2 DEF ReplyDue
    <3> QED
      BY <3>1, <3>2
  <2>2. ASSUME NEW k \in Socks \ Sharers', replies'[k] = 1
        PROVE  status'[k] \in Told /\ handler'[k] = "done"
    BY <1>0, <1>2, <1>6, <2>2, LocalStreamsAssumption DEF ReplyDue, Told, Ended
  <2>3. ASSUME NEW i \in 1 .. MaxStreamID, streams'[i] \in Socks \ Sharers',
               status'[streams'[i]] = "active"
        PROVE  verdict'[i] = "ok"
    <3>1. streams'[i] = streams[i] /\ streams[i] \in Locals /\ streams[i] \notin cs
      BY <1>3, <2>3, LocalStreamsAssumption
    <3>2. status[streams[i]] = "active"
      BY <1>2, <2>3, <3>1
    <3> QED
      BY <1>0, <1>6, <2>3, <3>1, <3>2 DEF ReplyDue
  <2> QED
    BY <2>1, <2>2, <2>3 DEF ReplyDue
<1>9. LocalSound'
  <2>1. ASSUME NEW k \in Locals \ Sharers', open'[k], handler'[k] \in {"made", "done"}
        PROVE  streams'[streamID'[k]] = k /\ arq'[k] # "closed"
    <3>1. k \notin cs /\ open[k] /\ streamID[k] \in 1 .. MaxStreamID
      BY <1>0, <1>2, <1>5, <2>1 DEF IDsInOrder
    <3>2. streams[streamID[k]] = k /\ arq[k] # "closed"
      BY <1>0, <1>6, <2>1, <3>1 DEF LocalSound, OneOwner
    <3> QED
      BY <1>2, <1>3, <3>1, <3>2
  <2>2. ASSUME NEW k \in Socks \ Sharers', arq'[k] = "ready"
        PROVE  replies'[k] = 1
    BY <1>0, <1>2, <1>6, <2>2, LocalStreamsAssumption DEF LocalSound, ToldFirst
  <2> QED
    BY <1>0, <1>6, <2>1, <2>2 DEF LocalSound, ReplyOnce, ToldFirst, OneOwner
<1> QED
  BY <1>4, <1>6, <1>7, <1>8, <1>9 DEF LocalInv

\* Steps of a handler leave what is written and decided alone.
LEMMA AdmitSafe ==
    ASSUME LocalInv, NEW c \in Locals, Admit(c)
    PROVE  LocalInv'
<1>0. LocalTypeOK /\ IDsInOrder /\ VerdictOf /\ OwnID /\ ReplyDue /\ LocalSound
  BY DEF LocalInv
<1>1. UNCHANGED <<streamID, lastID, streams, status, terminal, arq, replies, verdict,
                  resultMu, proc, overtaken>>
  BY DEF Admit
<1>2. /\ handler[c] = "new"
      /\ \/ handler' = [handler EXCEPT ![c] = "admitted"] /\ UNCHANGED open
         \/ handler' = [handler EXCEPT ![c] = "done"] /\ open' = [open EXCEPT ![c] = FALSE]
  BY DEF Admit, Handles
<1>3. /\ handler' \in [Locals -> {"new", "admitted", "named", "made", "done"}]
      /\ open' \in [Locals -> BOOLEAN]
      /\ \A d \in Locals : d # c => handler'[d] = handler[d] /\ open'[d] = open[d]
      /\ handler'[c] = "admitted" \/ (handler'[c] = "done" /\ ~open'[c])
  BY <1>0, <1>2 DEF LocalTypeOK
<1>4. LocalTypeOK'
  BY <1>0, <1>1, <1>3 DEF LocalTypeOK
<1>5. Sharers' = Sharers /\ Named' = Named /\ streamID[c] = NoStream /\ arq[c] = "none"
  BY <1>0, <1>1, <1>2, SharersSame DEF Named, IDsInOrder
<1>6. IDsInOrder'
  <2>1. ASSUME NEW i \in 1 .. MaxStreamID, streams'[i] # NoStream
        PROVE  /\ streamID'[streams'[i]] = i /\ handler'[streams'[i]] \in {"made", "done"}
               /\ i <= lastID' \/ streams'[i] \in overtaken'
    <3>1. streams[i] \in Locals /\ streams[i] # c
      BY <1>0, <1>1, <1>2, <2>1, InTable DEF IDsInOrder
    <3> QED
      BY <1>0, <1>1, <1>3, <2>1, <3>1 DEF IDsInOrder
  <2>2. ASSUME NEW d \in Locals, handler'[d] = "named"
        PROVE  /\ streamID'[d] <= lastID' \/ d \in overtaken'
               /\ d \in overtaken' \/ streams'[streamID'[d]] \in overtaken' \cup {NoStream}
               /\ \A k \in Locals : handler'[k] = "named" /\ k # d /\ streamID'[k] = streamID'[d] =>
                     d \in overtaken' \/ k \in overtaken'
    <3>1. \A k \in Locals : handler'[k] = "named" => handler[k] = "named"
      BY <1>3
    <3> QED
      BY <1>0, <1>1, <2>2, <3>1 DEF IDsInOrder
  <2>3. ASSUME NEW d \in Locals
        PROVE  /\ handler'[d] \in {"new", "admitted"} => streamID'[d] = NoStream
               /\ handler'[d] \in {"named", "made"} => streamID'[d] # NoStream
               /\ handler'[d] \in {"new", "admitted", "named"} =>
                     status'[d] = "none" /\ arq'[d] = "none"
               /\ handler'[d] = "done" /\ open'[d] => streamID'[d] # NoStream
               /\ arq'[d] # "none" => streamID'[d] # NoStream
    BY <1>0, <1>1, <1>2, <1>3 DEF IDsInOrder
  <2>4. /\ \A i \in 1 .. lastID' : \E d \in Named' : streamID'[d] = i
        /\ overtaken' \subseteq Named'
    BY <1>0, <1>1, <1>5 DEF IDsInOrder
  <2> QED
    BY <2>1, <2>2, <2>3, <2>4 DEF IDsInOrder
<1>7. VerdictOf'
  <2>1. \A d \in Locals : /\ handler'[d] = "named" => handler[d] = "named"
                          /\ handler[d] = "done" => handler'[d] = "done"
    BY <1>2, <1>3
  <2> QED
    BY <1>0, <1>1, <1>5, <2>1 DEF VerdictOf
<1>8. OwnID'
  <2>1. \A d \in Locals : /\ handler'[d] = "named" => handler[d] = "named"
                          /\ handler[d] \in {"done", "made"} => handler'[d] = handler[d]
    BY <1>2, <1>3
  <2> QED
    BY <1>0, <1>1, <1>5, <2>1 DEF OwnID
<1>9. ReplyDue'
  <2>1. \A d \in Locals : handler[d] = "done" => handler'[d] = "done"
    BY <1>2, <1>3
  <2> QED
    BY <1>0, <1>1, <1>5, <2>1, LocalStreamsAssumption DEF ReplyDue
<1>10. LocalSound'
  BY <1>0, <1>1, <1>2, <1>3, <1>5 DEF LocalSound, ReplyOnce, ToldFirst, OneOwner
<1> QED
  BY <1>4, <1>6, <1>7, <1>8, <1>9, <1>10 DEF LocalInv

LEMMA GetNewStreamIDSafe ==
    ASSUME LocalInv, NEW c \in Locals, GetNewStreamID(c)
    PROVE  LocalInv'
<1>0. LocalTypeOK /\ IDsInOrder /\ VerdictOf /\ OwnID /\ ReplyDue /\ LocalSound
  BY DEF LocalInv
<1> DEFINE n == NextID
<1>1. /\ handler[c] = "admitted" /\ handler' = [handler EXCEPT ![c] = "named"]
      /\ streamID' = [streamID EXCEPT ![c] = n] /\ lastID' = n
      /\ UNCHANGED <<streams, status, terminal, arq, open, replies, verdict, resultMu,
                     proc, overtaken>>
  BY DEF GetNewStreamID, Handles
<1>2. /\ n \in 1 .. MaxStreamID /\ n > lastID /\ streams[n] = NoStream
      /\ \A j \in 1 .. MaxStreamID : lastID < j /\ j < n => streams[j] # NoStream
  BY <1>0, <1>1, NextIsNew
<1> HIDE DEF n
<1>3. /\ handler'[c] = "named" /\ streamID'[c] = n /\ streamID[c] = NoStream
      /\ status[c] = "none" /\ arq[c] = "none" /\ c \notin overtaken
      /\ \A d \in Locals : d # c => handler'[d] = handler[d] /\ streamID'[d] = streamID[d]
  BY <1>0, <1>1 DEF LocalTypeOK, IDsInOrder, Named
<1>4. LocalTypeOK'
  <2>1. /\ handler' \in [Locals -> {"new", "admitted", "named", "made", "done"}]
        /\ streamID' \in [Locals -> 0 .. MaxStreamID] /\ lastID' \in 0 .. MaxStreamID
    BY <1>0, <1>1, <1>2 DEF LocalTypeOK
  <2> QED
    BY <1>0, <1>1, <2>1 DEF LocalTypeOK
<1>5. /\ Named' = Named \cup {c} /\ Sharers \subseteq Sharers' /\ lastID \in Nat
      /\ \A d \in Named : streamID'[d] = streamID[d] /\ d # c /\ d \in Locals
  <2>1. Named' = Named \cup {c} /\ \A d \in Named : streamID'[d] = streamID[d] /\ d # c /\ d \in Locals
    BY <1>2, <1>3 DEF Named, NoStream
  <2>2. Sharers \subseteq Sharers'
    BY <1>0, <1>1, <2>1, SharersGrow DEF IDsInOrder
  <2> QED
    BY <1>0, <2>1, <2>2 DEF LocalTypeOK
<1>6. \A d \in Locals : streamID[d] = n => d \in Named /\ d # c
  BY <1>2, <1>3 DEF Named, NoStream
<1>7. IDsInOrder'
  <2>1. ASSUME NEW i \in 1 .. lastID' PROVE \E d \in Named' : streamID'[d] = i
    <3>1. CASE i = n
      BY <1>3, <1>5, <3>1
    <3>2. CASE i <= lastID
      <4>1. i \in 1 .. lastID
        BY <1>5, <3>2
      <4>2. PICK d \in Named : streamID[d] = i
        BY <1>0, <4>1 DEF IDsInOrder
      <4> QED
        BY <1>5, <4>2
    <3>3. CASE lastID < i /\ i < n
      <4>1. i \in 1 .. MaxStreamID /\ streams[i] # NoStream
        <5>1. i \in Nat /\ n \in Nat /\ 1 <= i /\ i <= MaxStreamID
          BY <1>1, <1>2, <3>3, LocalStreamsAssumption
        <5> QED
          BY <1>2, <3>3, <5>1, LocalStreamsAssumption
      <4>2. streams[i] \in Locals /\ streamID[streams[i]] = i
        BY <1>0, <4>1, InTable
      <4>3. streams[i] \in Named
        BY <4>2 DEF Named, NoStream
      <4> QED
        BY <1>5, <4>2, <4>3
    <3> QED
      BY <1>1, <1>2, <1>5, <3>1, <3>2, <3>3
  <2>2. ASSUME NEW i \in 1 .. MaxStreamID, streams'[i] # NoStream
        PROVE  /\ streamID'[streams'[i]] = i /\ handler'[streams'[i]] \in {"made", "done"}
               /\ i <= lastID' \/ streams'[i] \in overtaken'
    <3>1. streams[i] \in Locals /\ streams[i] # c /\ handler[streams[i]] \in {"made", "done"}
      BY <1>0, <1>1, <2>2, InTable DEF IDsInOrder
    <3>2. streamID[streams[i]] = i /\ (i <= lastID \/ streams[i] \in overtaken)
      BY <1>0, <1>1, <2>2 DEF IDsInOrder
    <3> QED
      BY <1>1, <1>2, <1>3, <1>5, <3>1, <3>2
  <2>3. \A d \in Locals \ {c} : handler[d] = "named" /\ streamID[d] = n => d \in overtaken
    BY <1>0, <1>2, <1>5 DEF IDsInOrder
  <2>4. ASSUME NEW d \in Locals, handler'[d] = "named"
        PROVE  /\ streamID'[d] <= lastID' \/ d \in overtaken'
               /\ d \in overtaken' \/ streams'[streamID'[d]] \in overtaken' \cup {NoStream}
               /\ \A k \in Locals : handler'[k] = "named" /\ k # d /\ streamID'[k] = streamID'[d] =>
                     d \in overtaken' \/ k \in overtaken'
    <3>1. CASE d = c
      BY <1>1, <1>2, <1>3, <2>3, <3>1
    <3>2. CASE d # c
      <4>1. handler[d] = "named" /\ streamID'[d] = streamID[d]
        BY <1>3, <2>4, <3>2
      <4>2. streamID[d] <= n \/ d \in overtaken
        BY <1>0, <1>2, <1>5, <4>1 DEF IDsInOrder, LocalTypeOK
      <4>3. \A k \in Locals : handler'[k] = "named" /\ k # d /\ streamID'[k] = streamID'[d] =>
                  d \in overtaken \/ k \in overtaken
        BY <1>0, <1>3, <2>3, <4>1 DEF IDsInOrder
      <4> QED
        BY <1>0, <1>1, <4>1, <4>2, <4>3 DEF IDsInOrder
    <3> QED
      BY <3>1, <3>2
  <2>5. ASSUME NEW d \in Locals
        PROVE  /\ handler'[d] \in {"new", "admitted"} => streamID'[d] = NoStream
               /\ handler'[d] \in {"named", "made"} => streamID'[d] # NoStream
               /\ handler'[d] \in {"new", "admitted", "named"} =>
                     status'[d] = "none" /\ arq'[d] = "none"
               /\ handler'[d] = "done" /\ open'[d] => streamID'[d] # NoStream
               /\ arq'[d] # "none" => streamID'[d] # NoStream
    <3>1. CASE d = c
      BY <1>1, <1>2, <1>3, <3>1 DEF NoStream
    <3>2. CASE d # c
      BY <1>0, <1>1, <1>3, <3>2 DEF IDsInOrder
    <3> QED
      BY <3>1, <3>2
  <2>6. overtaken' \subseteq Named'
    BY <1>0, <1>1, <1>5 DEF IDsInOrder
  <2> QED
    BY <2>1, <2>2, <2>4, <2>5, <2>6 DEF IDsInOrder
<1>8. VerdictOf'
  <2> SUFFICES ASSUME NEW i \in 1 .. MaxStreamID, verdict'[i] # "none"
               PROVE  /\ i <= lastID' \/ \E d \in overtaken' : streamID'[d] = i
                      /\ \A d \in Locals : streamID'[d] = i =>
                            /\ handler'[d] = "named" => d \in Sharers'
                            /\ streams'[i] = d => handler'[d] = "done" \/ d \in Sharers'
    BY DEF VerdictOf
  <2>1. i <= lastID \/ \E d \in overtaken : streamID[d] = i
    BY <1>0, <1>1 DEF VerdictOf
  <2>2. i <= lastID' \/ \E d \in overtaken' : streamID'[d] = i
    <3>1. CASE i <= lastID
      BY <1>1, <1>2, <1>5, <3>1
    <3>2. CASE \E d \in overtaken : streamID[d] = i
      BY <1>0, <1>1, <1>5, <3>2 DEF IDsInOrder
    <3> QED
      BY <2>1, <3>1, <3>2
  <2>3. ASSUME NEW d \in Locals, streamID'[d] = i
        PROVE  /\ handler'[d] = "named" => d \in Sharers'
               /\ streams'[i] = d => handler'[d] = "done" \/ d \in Sharers'
    <3>1. CASE d = c
      <4>1. i = n
        BY <1>3, <2>3, <3>1
      <4>2. PICK k \in overtaken : streamID[k] = n
        BY <1>2, <1>5, <2>1, <4>1
      <4>3. k \in Locals /\ k # c /\ streamID'[k] = n /\ k \in overtaken'
        BY <1>0, <1>1, <1>5, <4>2 DEF IDsInOrder
      <4> QED
        BY <1>3, <3>1, <4>3 DEF Sharers
    <3>2. CASE d # c
      BY <1>0, <1>1, <1>3, <1>5, <2>3, <3>2 DEF VerdictOf
    <3> QED
      BY <3>1, <3>2
  <2> QED
    BY <2>2, <2>3
<1>9. OwnID'
  <2> SUFFICES ASSUME NEW q \in Processors, proc'[q].at # "idle", NEW k, k = proc'[q].of
               PROVE  /\ k \in Locals /\ streamID'[k] # NoStream
                      /\ handler'[k] = "done" \/ (handler'[k] = "made" /\ k \in Sharers')
                      /\ streamID'[k] <= lastID' \/ k \in overtaken'
                      /\ \/ k \in overtaken'
                         \/ streams'[streamID'[k]] \in overtaken' \cup {NoStream, k}
                      /\ \A d \in Locals : handler'[d] = "named" /\ streamID'[d] = streamID'[k] =>
                            k \in overtaken' \/ d \in overtaken'
    BY DEF OwnID
  <2>1. /\ k \in Locals /\ streamID[k] # NoStream
        /\ handler[k] = "done" \/ (handler[k] = "made" /\ k \in Sharers)
        /\ streamID[k] <= lastID \/ k \in overtaken
        /\ k \in overtaken \/ streams[streamID[k]] \in overtaken \cup {NoStream, k}
        /\ \A d \in Locals : handler[d] = "named" /\ streamID[d] = streamID[k] =>
              k \in overtaken \/ d \in overtaken
    BY <1>0, <1>1 DEF OwnID
  <2>0. streamID[k] \in Nat
    BY <1>0, <2>1 DEF LocalTypeOK
  <2>2. k # c /\ streamID'[k] = streamID[k] /\ handler'[k] = handler[k]
    BY <1>1, <1>3, <2>1
  <2>3. streamID[k] <= n \/ k \in overtaken
    BY <1>2, <1>5, <2>0, <2>1
  <2>4. ASSUME NEW d \in Locals, handler'[d] = "named", streamID'[d] = streamID'[k]
        PROVE  k \in overtaken' \/ d \in overtaken'
    <3>1. CASE d = c
      BY <1>1, <1>2, <1>3, <1>5, <2>0, <2>1, <2>2, <2>4, <3>1
    <3>2. CASE d # c
      BY <1>1, <1>3, <2>1, <2>2, <2>4, <3>2
    <3> QED
      BY <3>1, <3>2
  <2> QED
    BY <1>1, <1>5, <2>1, <2>2, <2>3, <2>4
<1>10. ReplyDue'
  <2>1. \A d \in Locals : handler[d] = "done" => handler'[d] = "done"
    BY <1>1, <1>3
  <2>2. \A q \in Processors : proc[q].at # "idle" =>
            proc[q].of \in Locals /\ streamID'[proc[q].of] = streamID[proc[q].of]
    BY <1>0, <1>3 DEF OwnID
  <2>3. ASSUME NEW q \in Processors, NEW k, k = proc'[q].of
        PROVE  /\ proc'[q].at \in {"write", "pending", "ready"} => k \in Socks
               /\ proc'[q].at = "tcp" => k \notin Socks
               /\ proc'[q].at = "write" => resultMu'[k] = q
               /\ proc'[q].at = "write" /\ k \notin Sharers' => replies'[k] = 0
               /\ proc'[q].at = "ready" /\ k \notin Sharers' => replies'[k] = 1
               /\ proc'[q].at # "idle" /\ k \in Socks \ Sharers' /\ status'[k] = "active" =>
                     verdict'[streamID'[k]] = "ok"
    BY <1>0, <1>1, <1>5, <2>2, <2>3 DEF ReplyDue
  <2>4. ASSUME NEW k \in Socks \ Sharers', replies'[k] = 1
        PROVE  status'[k] \in Told /\ handler'[k] = "done"
    BY <1>0, <1>1, <1>5, <2>1, <2>4, LocalStreamsAssumption DEF ReplyDue
  <2>5. ASSUME NEW i \in 1 .. MaxStreamID, streams'[i] \in Socks \ Sharers',
               status'[streams'[i]] = "active"
        PROVE  verdict'[i] = "ok"
    BY <1>0, <1>1, <1>5, <2>5 DEF ReplyDue
  <2> QED
    BY <2>3, <2>4, <2>5 DEF ReplyDue
<1>11. LocalSound'
  <2>1. ASSUME NEW k \in Locals \ Sharers', open'[k], handler'[k] \in {"made", "done"}
        PROVE  streams'[streamID'[k]] = k /\ arq'[k] # "closed"
    <3>1. k # c /\ k \in Locals \ Sharers
      BY <1>3, <1>5, <2>1
    <3> QED
      BY <1>0, <1>1, <1>3, <2>1, <3>1 DEF LocalSound, OneOwner
  <2> QED
    BY <1>0, <1>1, <1>5, <2>1 DEF LocalSound, ReplyOnce, ToldFirst, OneOwner
<1> QED
  BY <1>4, <1>7, <1>8, <1>9, <1>10, <1>11 DEF LocalInv

LEMMA NewStreamSafe ==
    ASSUME LocalInv, NEW c \in Locals, NewStream(c)
    PROVE  LocalInv'
<1>0. LocalTypeOK /\ IDsInOrder /\ VerdictOf /\ OwnID /\ ReplyDue /\ LocalSound
  BY DEF LocalInv
<1> DEFINE n == streamID[c]
<1>1. /\ handler[c] = "named" /\ handler' = [handler EXCEPT ![c] = "made"]
      /\ streams' = [streams EXCEPT ![n] = c] /\ arq' = [arq EXCEPT ![c] = "paused"]
      /\ UNCHANGED <<streamID, lastID, status, terminal, open, replies, verdict, resultMu,
                     proc, overtaken>>
  BY DEF NewStream, Handles
<1>2. /\ n \in 1 .. MaxStreamID /\ status[c] = "none" /\ c # NoStream
      /\ n <= lastID \/ c \in overtaken
      /\ c \in overtaken \/ streams[n] \in overtaken \cup {NoStream}
      /\ \A d \in Locals : handler[d] = "named" /\ d # c /\ streamID[d] = n =>
            c \in overtaken \/ d \in overtaken
  BY <1>0, <1>1, LocalStreamsAssumption DEF IDsInOrder, LocalTypeOK, NoStream
<1>3. /\ handler'[c] = "made" /\ arq'[c] = "paused" /\ streams'[n] = c
      /\ \A d \in Locals : d # c => handler'[d] = handler[d] /\ arq'[d] = arq[d]
      /\ \A i \in 1 .. MaxStreamID : i # n => streams'[i] = streams[i]
  BY <1>0, <1>1, <1>2 DEF LocalTypeOK
<1>4. LocalTypeOK'
  <2>1. /\ handler' \in [Locals -> {"new", "admitted", "named", "made", "done"}]
        /\ streams' \in [1 .. MaxStreamID -> Locals \cup {NoStream}]
        /\ arq' \in [Locals -> {"none", "paused", "ready", "closed"}]
    BY <1>0, <1>1, <1>2 DEF LocalTypeOK
  <2> QED
    BY <1>0, <1>1, <2>1 DEF LocalTypeOK
<1>5. Sharers' = Sharers /\ Named' = Named
  BY <1>1, SharersSame DEF Named
<1>6. IDsInOrder'
  <2>1. ASSUME NEW i \in 1 .. MaxStreamID, streams'[i] # NoStream
        PROVE  /\ streamID'[streams'[i]] = i /\ handler'[streams'[i]] \in {"made", "done"}
               /\ i <= lastID' \/ streams'[i] \in overtaken'
    <3>1. CASE i = n
      BY <1>1, <1>2, <1>3, <3>1
    <3>2. CASE i # n
      <4>1. /\ streams'[i] = streams[i] /\ streams[i] \in Locals /\ streamID[streams[i]] = i
            /\ handler[streams[i]] \in {"made", "done"}
            /\ i <= lastID \/ streams[i] \in overtaken
        BY <1>0, <1>3, <2>1, <3>2, InTable DEF IDsInOrder
      <4> QED
        BY <1>1, <1>3, <4>1
    <3> QED
      BY <3>1, <3>2
  <2>2. ASSUME NEW d \in Locals, handler'[d] = "named"
        PROVE  /\ streamID'[d] <= lastID' \/ d \in overtaken'
               /\ d \in overtaken' \/ streams'[streamID'[d]] \in overtaken' \cup {NoStream}
               /\ \A k \in Locals : handler'[k] = "named" /\ k # d /\ streamID'[k] = streamID'[d] =>
                     d \in overtaken' \/ k \in overtaken'
    <3>1. d # c /\ handler[d] = "named" /\ streamID[d] \in 1 .. MaxStreamID
      BY <1>0, <1>3, <2>2 DEF IDsInOrder, LocalTypeOK, NoStream
    <3>2. /\ streamID[d] <= lastID \/ d \in overtaken
          /\ d \in overtaken \/ streams[streamID[d]] \in overtaken \cup {NoStream}
          /\ \A k \in Locals : handler[k] = "named" /\ k # d /\ streamID[k] = streamID[d] =>
                d \in overtaken \/ k \in overtaken
      BY <1>0, <3>1 DEF IDsInOrder
    <3>3. d \in overtaken \/ streams'[streamID[d]] \in overtaken \cup {NoStream}
      BY <1>2, <1>3, <3>1, <3>2
    <3> QED
      BY <1>1, <1>3, <3>1, <3>2, <3>3
  <2>3. ASSUME NEW d \in Locals
        PROVE  /\ handler'[d] \in {"new", "admitted"} => streamID'[d] = NoStream
               /\ handler'[d] \in {"named", "made"} => streamID'[d] # NoStream
               /\ handler'[d] \in {"new", "admitted", "named"} =>
                     status'[d] = "none" /\ arq'[d] = "none"
               /\ handler'[d] = "done" /\ open'[d] => streamID'[d] # NoStream
               /\ arq'[d] # "none" => streamID'[d] # NoStream
    <3>1. CASE d = c
      BY <1>1, <1>2, <1>3, <3>1 DEF NoStream
    <3>2. CASE d # c
      BY <1>0, <1>1, <1>3, <3>2 DEF IDsInOrder
    <3> QED
      BY <3>1, <3>2
  <2>4. /\ \A i \in 1 .. lastID' : \E d \in Named' : streamID'[d] = i
        /\ overtaken' \subseteq Named'
    BY <1>0, <1>1, <1>5 DEF IDsInOrder
  <2> QED
    BY <2>1, <2>2, <2>3, <2>4 DEF IDsInOrder
<1>7. VerdictOf'
  <2> SUFFICES ASSUME NEW i \in 1 .. MaxStreamID, verdict'[i] # "none"
               PROVE  /\ i <= lastID' \/ \E d \in overtaken' : streamID'[d] = i
                      /\ \A d \in Locals : streamID'[d] = i =>
                            /\ handler'[d] = "named" => d \in Sharers'
                            /\ streams'[i] = d => handler'[d] = "done" \/ d \in Sharers'
    BY DEF VerdictOf
  <2>1. i <= lastID' \/ \E d \in overtaken' : streamID'[d] = i
    BY <1>0, <1>1 DEF VerdictOf
  <2>2. ASSUME NEW d \in Locals, streamID'[d] = i
        PROVE  /\ handler'[d] = "named" => d \in Sharers'
               /\ streams'[i] = d => handler'[d] = "done" \/ d \in Sharers'
    <3>1. CASE d = c
      BY <1>0, <1>1, <1>5, <2>2, <3>1 DEF VerdictOf
    <3>2. CASE d # c
      <4>1. streams'[i] = d => streams[i] = d
        BY <1>3, <3>2
      <4> QED
        BY <1>0, <1>1, <1>3, <1>5, <2>2, <3>2, <4>1 DEF VerdictOf
    <3> QED
      BY <3>1, <3>2
  <2> QED
    BY <2>1, <2>2
<1>8. OwnID'
  <2> SUFFICES ASSUME NEW q \in Processors, proc'[q].at # "idle", NEW k, k = proc'[q].of
               PROVE  /\ k \in Locals /\ streamID'[k] # NoStream
                      /\ handler'[k] = "done" \/ (handler'[k] = "made" /\ k \in Sharers')
                      /\ streamID'[k] <= lastID' \/ k \in overtaken'
                      /\ \/ k \in overtaken'
                         \/ streams'[streamID'[k]] \in overtaken' \cup {NoStream, k}
                      /\ \A d \in Locals : handler'[d] = "named" /\ streamID'[d] = streamID'[k] =>
                            k \in overtaken' \/ d \in overtaken'
    BY DEF OwnID
  <2>1. /\ k \in Locals /\ streamID[k] # NoStream
        /\ handler[k] = "done" \/ (handler[k] = "made" /\ k \in Sharers)
        /\ streamID[k] <= lastID \/ k \in overtaken
        /\ k \in overtaken \/ streams[streamID[k]] \in overtaken \cup {NoStream, k}
        /\ \A d \in Locals : handler[d] = "named" /\ streamID[d] = streamID[k] =>
              k \in overtaken \/ d \in overtaken
    BY <1>0, <1>1 DEF OwnID
  <2>2. k # c /\ handler'[k] = handler[k] /\ streamID[k] \in 1 .. MaxStreamID
    BY <1>0, <1>1, <1>3, <2>1 DEF LocalTypeOK, NoStream
  <2>3. k \in overtaken \/ streams'[streamID[k]] \in overtaken \cup {NoStream, k}
    BY <1>1, <1>3, <2>1, <2>2
  <2>4. \A d \in Locals : handler'[d] = "named" => handler[d] = "named"
    BY <1>3
  <2> QED
    BY <1>1, <1>5, <2>1, <2>2, <2>3, <2>4
<1>9. ReplyDue'
  <2>1. ASSUME NEW k \in Socks \ Sharers', replies'[k] = 1
        PROVE  status'[k] \in Told /\ handler'[k] = "done"
    <3>1. status[k] \in Told /\ handler[k] = "done" /\ k \in Locals
      BY <1>0, <1>1, <1>5, <2>1, LocalStreamsAssumption DEF ReplyDue
    <3> QED
      BY <1>1, <1>3, <3>1
  <2>2. ASSUME NEW i \in 1 .. MaxStreamID, streams'[i] \in Socks \ Sharers',
               status'[streams'[i]] = "active"
        PROVE  verdict'[i] = "ok"
    <3>1. i # n
      BY <1>1, <1>2, <1>3, <2>2
    <3> QED
      BY <1>0, <1>1, <1>3, <1>5, <2>2, <3>1 DEF ReplyDue
  <2> QED
    BY <1>0, <1>1, <1>5, <2>1, <2>2 DEF ReplyDue
<1>10. LocalSound'
  <2>1. ASSUME NEW k \in Locals \ Sharers', open'[k], handler'[k] \in {"made", "done"}
        PROVE  streams'[streamID'[k]] = k /\ arq'[k] # "closed"
    <3>1. CASE k = c
      BY <1>1, <1>3, <3>1
    <3>2. CASE k # c
      <4>1. streams[streamID[k]] = k /\ arq[k] # "closed" /\ streamID[k] \in 1 .. MaxStreamID
        BY <1>0, <1>1, <1>3, <1>5, <2>1, <3>2
           DEF LocalSound, OneOwner, IDsInOrder, LocalTypeOK, NoStream
      <4>2. ASSUME streamID[k] = n PROVE FALSE
        <5>1. c \in overtaken \/ k \in overtaken
          BY <1>2, <4>1, <4>2, LocalStreamsAssumption
        <5> QED
          BY <1>5, <2>1, <3>2, <4>2, <5>1, Sharing
      <4> QED
        BY <1>1, <1>3, <3>2, <4>1, <4>2
    <3> QED
      BY <3>1, <3>2
  <2>2. ASSUME NEW k \in Socks \ Sharers', arq'[k] = "ready"
        PROVE  replies'[k] = 1
    BY <1>0, <1>1, <1>3, <1>5, <2>2, LocalStreamsAssumption DEF LocalSound, ToldFirst
  <2> QED
    BY <1>0, <1>1, <1>5, <2>1, <2>2 DEF LocalSound, ReplyOnce, ToldFirst, OneOwner
<1> QED
  BY <1>4, <1>6, <1>7, <1>8, <1>9, <1>10 DEF LocalInv

LEMMA SendSYNSafe ==
    ASSUME LocalInv, NEW c \in Locals, SendSYN(c)
    PROVE  LocalInv'
<1>0. LocalTypeOK /\ IDsInOrder /\ VerdictOf /\ OwnID /\ ReplyDue /\ LocalSound
  BY DEF LocalInv
<1>1. /\ handler[c] = "made" /\ handler' = [handler EXCEPT ![c] = "done"]
      /\ status' = [status EXCEPT ![c] = "connecting"]
      /\ UNCHANGED <<streamID, lastID, streams, terminal, arq, open, replies, verdict,
                     resultMu, proc, overtaken>>
  BY DEF SendSYN, Handles
<1>2. /\ handler'[c] = "done" /\ status'[c] = "connecting"
      /\ \A d \in Locals : d # c => handler'[d] = handler[d] /\ status'[d] = status[d]
  BY <1>0, <1>1 DEF LocalTypeOK
<1>3. LocalTypeOK'
  <2>1. /\ handler' \in [Locals -> {"new", "admitted", "named", "made", "done"}]
        /\ status' \in StatusTypes
    BY <1>0, <1>1 DEF LocalTypeOK, StatusTypes
  <2> QED
    BY <1>0, <1>1, <2>1 DEF LocalTypeOK, StatusTypes
<1>4. Sharers' = Sharers /\ Named' = Named
  BY <1>1, SharersSame DEF Named
<1>5. \A d \in Locals :
          /\ handler'[d] = "named" <=> handler[d] = "named"
          /\ handler[d] \in {"made", "done"} <=> handler'[d] \in {"made", "done"}
          /\ handler[d] = "done" => handler'[d] = "done"
          /\ handler'[d] = "made" => handler[d] = "made"
  BY <1>1, <1>2
<1>6. IDsInOrder'
  <2>1. ASSUME NEW i \in 1 .. MaxStreamID, streams'[i] # NoStream
        PROVE  /\ streamID'[streams'[i]] = i /\ handler'[streams'[i]] \in {"made", "done"}
               /\ i <= lastID' \/ streams'[i] \in overtaken'
    <3>1. streams[i] \in Locals
      BY <1>0, <1>1, <2>1, InTable
    <3> QED
      BY <1>0, <1>1, <1>5, <2>1, <3>1 DEF IDsInOrder
  <2>2. ASSUME NEW d \in Locals, handler'[d] = "named"
        PROVE  /\ streamID'[d] <= lastID' \/ d \in overtaken'
               /\ d \in overtaken' \/ streams'[streamID'[d]] \in overtaken' \cup {NoStream}
               /\ \A k \in Locals : handler'[k] = "named" /\ k # d /\ streamID'[k] = streamID'[d] =>
                     d \in overtaken' \/ k \in overtaken'
    BY <1>0, <1>1, <1>5, <2>2 DEF IDsInOrder
  <2>3. ASSUME NEW d \in Locals
        PROVE  /\ handler'[d] \in {"new", "admitted"} => streamID'[d] = NoStream
               /\ handler'[d] \in {"named", "made"} => streamID'[d] # NoStream
               /\ handler'[d] \in {"new", "admitted", "named"} =>
                     status'[d] = "none" /\ arq'[d] = "none"
               /\ handler'[d] = "done" /\ open'[d] => streamID'[d] # NoStream
               /\ arq'[d] # "none" => streamID'[d] # NoStream
    <3>1. CASE d = c
      BY <1>0, <1>1, <1>2, <3>1 DEF IDsInOrder
    <3>2. CASE d # c
      BY <1>0, <1>1, <1>2, <3>2 DEF IDsInOrder
    <3> QED
      BY <3>1, <3>2
  <2>4. /\ \A i \in 1 .. lastID' : \E d \in Named' : streamID'[d] = i
        /\ overtaken' \subseteq Named'
    BY <1>0, <1>1, <1>4 DEF IDsInOrder
  <2> QED
    BY <2>1, <2>2, <2>3, <2>4 DEF IDsInOrder
<1>7. VerdictOf'
  BY <1>0, <1>1, <1>4, <1>5 DEF VerdictOf
<1>8. OwnID'
  BY <1>0, <1>1, <1>4, <1>5 DEF OwnID
<1>9. ReplyDue'
  <2>1. \A d \in Locals : status'[d] = "active" => status[d] = "active"
    BY <1>2
  <2>2. ASSUME NEW k \in Socks \ Sharers', replies'[k] = 1
        PROVE  status'[k] \in Told /\ handler'[k] = "done"
    <3>1. status[k] \in Told /\ handler[k] = "done" /\ k \in Locals
      BY <1>0, <1>1, <1>4, <2>2, LocalStreamsAssumption DEF ReplyDue
    <3> QED
      BY <1>1, <1>2, <3>1
  <2> QED
    BY <1>0, <1>1, <1>4, <2>1, <2>2, LocalStreamsAssumption DEF ReplyDue
<1>10. LocalSound'
  BY <1>0, <1>1, <1>4, <1>5 DEF LocalSound, ReplyOnce, ToldFirst, OneOwner
<1> QED
  BY <1>3, <1>6, <1>7, <1>8, <1>9, <1>10 DEF LocalInv

LEMMA ServerDecidesSafe ==
    ASSUME LocalInv, NEW c \in Locals, ServerDecides(c)
    PROVE  LocalInv'
<1>0. LocalTypeOK /\ IDsInOrder /\ VerdictOf /\ OwnID /\ ReplyDue /\ LocalSound
  BY DEF LocalInv
<1> DEFINE n == streamID[c]
<1>1. /\ handler[c] = "done" /\ arq[c] = "paused" /\ streams[n] = c /\ verdict[n] = "none"
      /\ UNCHANGED <<handler, streamID, lastID, streams, status, terminal, arq, open,
                     replies, resultMu, proc, overtaken>>
  BY DEF ServerDecides
<1>2. PICK v \in {"ok", "fail"} : verdict' = [verdict EXCEPT ![n] = v]
  BY DEF ServerDecides
<1>3. n \in 1 .. MaxStreamID /\ c # NoStream
  BY <1>0, <1>1, LocalStreamsAssumption DEF IDsInOrder, LocalTypeOK, NoStream
<1>4. /\ verdict' \in [1 .. MaxStreamID -> {"none", "ok", "fail"}]
      /\ \A i \in 1 .. MaxStreamID : i # n => verdict'[i] = verdict[i]
  BY <1>0, <1>2 DEF LocalTypeOK
<1>5. LocalTypeOK'
  BY <1>0, <1>1, <1>4 DEF LocalTypeOK
<1>6. Sharers' = Sharers /\ Named' = Named
  BY <1>1, SharersSame DEF Named
<1>7. IDsInOrder'
  BY <1>0, <1>1, <1>6 DEF IDsInOrder
<1>8. VerdictOf'
  <2> SUFFICES ASSUME NEW i \in 1 .. MaxStreamID, verdict'[i] # "none"
               PROVE  /\ i <= lastID' \/ \E d \in overtaken' : streamID'[d] = i
                      /\ \A d \in Locals : streamID'[d] = i =>
                            /\ handler'[d] = "named" => d \in Sharers'
                            /\ streams'[i] = d => handler'[d] = "done" \/ d \in Sharers'
    BY DEF VerdictOf
  <2>1. CASE i # n
    BY <1>0, <1>1, <1>4, <1>6, <2>1 DEF VerdictOf
  <2>2. CASE i = n
    <3>1. i <= lastID \/ c \in overtaken
      BY <1>0, <1>1, <1>3, <2>2 DEF IDsInOrder
    <3>2. ASSUME NEW d \in Locals, streamID[d] = n, handler[d] = "named"
          PROVE  d \in Sharers
      <4>1. d # c /\ (d \in overtaken \/ c \in overtaken)
        BY <1>0, <1>1, <1>3, <3>2 DEF IDsInOrder
      <4> QED
        BY <3>2, <4>1, Sharing
    <3> QED
      BY <1>1, <1>6, <2>2, <3>1, <3>2
  <2> QED
    BY <2>1, <2>2
<1>9. OwnID'
  BY <1>0, <1>1, <1>6 DEF OwnID
<1>10. ReplyDue'
  <2>1. \A i \in 1 .. MaxStreamID : verdict[i] = "ok" => verdict'[i] = "ok"
    BY <1>1, <1>4
  <2>2. \A q \in Processors : proc[q].at # "idle" => streamID[proc[q].of] \in 1 .. MaxStreamID
    BY <1>0 DEF OwnID, LocalTypeOK, NoStream
  <2>3. ASSUME NEW q \in Processors, NEW k, k = proc'[q].of
        PROVE  /\ proc'[q].at \in {"write", "pending", "ready"} => k \in Socks
               /\ proc'[q].at = "tcp" => k \notin Socks
               /\ proc'[q].at = "write" => resultMu'[k] = q
               /\ proc'[q].at = "write" /\ k \notin Sharers' => replies'[k] = 0
               /\ proc'[q].at = "ready" /\ k \notin Sharers' => replies'[k] = 1
               /\ proc'[q].at # "idle" /\ k \in Socks \ Sharers' /\ status'[k] = "active" =>
                     verdict'[streamID'[k]] = "ok"
    BY <1>0, <1>1, <1>6, <2>1, <2>2, <2>3 DEF ReplyDue
  <2> QED
    BY <1>0, <1>1, <1>6, <2>1, <2>3 DEF ReplyDue
<1>11. LocalSound'
  BY <1>0, <1>1, <1>6 DEF LocalSound, ReplyOnce, ToldFirst, OneOwner
<1> QED
  BY <1>5, <1>7, <1>8, <1>9, <1>10, <1>11 DEF LocalInv

LEMMA ARQClosesSafe ==
    ASSUME LocalInv, NEW c \in Locals, ARQCloses(c)
    PROVE  LocalInv'
<1>1. streams' = [i \in 1 .. MaxStreamID |-> IF streams[i] \in {c} THEN NoStream ELSE streams[i]]
  BY DEF ARQCloses, Removed
<1>2. /\ Finalized({c}) /\ arq[c] # "none"
      /\ UNCHANGED <<handler, streamID, lastID, terminal, replies, verdict, resultMu, proc,
                     overtaken>>
  BY DEF ARQCloses
<1>3. streamID[c] # NoStream /\ handler[c] \in {"made", "done"}
  BY <1>2 DEF LocalInv, IDsInOrder, LocalTypeOK
<1> QED
  BY <1>1, <1>2, <1>3, Closing DEF LocalInv, LocalTypeOK, ProcTypes

LEMMA RemoveStreamOfSafe ==
    ASSUME LocalInv, NEW c \in Locals, RemoveStreamOf(c)
    PROVE  LocalInv'
<1>1. streams' = [i \in 1 .. MaxStreamID |-> IF streams[i] \in {c} THEN NoStream ELSE streams[i]]
  BY DEF RemoveStreamOf, Removed
<1>2. /\ Finalized({c}) /\ streamID[c] # NoStream /\ handler[c] = "done"
      /\ UNCHANGED <<handler, streamID, lastID, terminal, replies, verdict, resultMu, proc,
                     overtaken>>
  BY DEF RemoveStreamOf
<1> QED
  BY <1>1, <1>2, Closing DEF LocalInv, LocalTypeOK, ProcTypes

LEMMA CleanupNotesSafe ==
    ASSUME LocalInv, NEW c \in Locals, CleanupNotes(c)
    PROVE  LocalInv'
<1>0. LocalTypeOK /\ IDsInOrder /\ VerdictOf /\ OwnID /\ ReplyDue /\ LocalSound
  BY DEF LocalInv
<1>1. /\ arq[c] # "none" /\ status' = [status EXCEPT ![c] = "ending"]
      /\ UNCHANGED <<handler, streamID, lastID, streams, terminal, arq, open, replies,
                     verdict, resultMu, proc, overtaken>>
  BY DEF CleanupNotes
<1>2. /\ status' \in StatusTypes /\ status'[c] = "ending"
      /\ \A d \in Locals : d # c => status'[d] = status[d]
  BY <1>0, <1>1 DEF LocalTypeOK, StatusTypes, Ended
<1>3. LocalTypeOK'
  BY <1>0, <1>1, <1>2 DEF LocalTypeOK, StatusTypes
<1>4. IDsInOrder' /\ VerdictOf' /\ Sharers' = Sharers
  <2>1. \A d \in Locals : handler[d] \in {"new", "admitted", "named"} =>
            status'[d] = status[d] /\ arq'[d] = arq[d]
    BY <1>0, <1>1, <1>2 DEF IDsInOrder
  <2> QED
    BY <1>0, <1>1, <2>1, IDsKept
<1>5. OwnID'
  BY <1>0, <1>1, <1>4, OwnIDKept
<1>6. ReplyDue'
  <2>1. \A d \in Locals : /\ status'[d] = "active" => status[d] = "active"
                          /\ status[d] \in Told => status'[d] \in Told
    BY <1>2 DEF Told, Ended
  <2>2. \A q \in Processors : proc[q].at # "idle" => proc[q].of \in Locals
    BY <1>0 DEF OwnID
  <2>3. ASSUME NEW q \in Processors, NEW k, k = proc'[q].of
        PROVE  /\ proc'[q].at \in {"write", "pending", "ready"} => k \in Socks
               /\ proc'[q].at = "tcp" => k \notin Socks
               /\ proc'[q].at = "write" => resultMu'[k] = q
               /\ proc'[q].at = "write" /\ k \notin Sharers' => replies'[k] = 0
               /\ proc'[q].at = "ready" /\ k \notin Sharers' => replies'[k] = 1
               /\ proc'[q].at # "idle" /\ k \in Socks \ Sharers' /\ status'[k] = "active" =>
                     verdict'[streamID'[k]] = "ok"
    BY <1>0, <1>1, <1>4, <2>1, <2>2, <2>3 DEF ReplyDue
  <2> QED
    BY <1>0, <1>1, <1>4, <2>1, <2>3, LocalStreamsAssumption DEF ReplyDue
<1>7. LocalSound'
  BY <1>0, <1>1, <1>4 DEF LocalSound, ReplyOnce, ToldFirst, OneOwner
<1> QED
  BY <1>3, <1>4, <1>5, <1>6, <1>7 DEF LocalInv

LEMMA ResultArrivesSafe ==
    ASSUME LocalInv, NEW p \in Processors, ResultArrives(p)
    PROVE  LocalInv'
<1>0. LocalTypeOK /\ IDsInOrder /\ VerdictOf /\ OwnID /\ ReplyDue /\ LocalSound
  BY DEF LocalInv
<1>1. UNCHANGED <<handler, streamID, lastID, streams, status, terminal, arq, open,
                  replies, verdict, resultMu, overtaken>>
  BY DEF ResultArrives
<1>2. PICK c \in Locals : /\ streamID[c] # NoStream /\ streams[streamID[c]] = c
                          /\ verdict[streamID[c]] # "none"
                          /\ proc' = [proc EXCEPT ![p] = [at |-> "found", of |-> c]]
  BY DEF ResultArrives
<1>3. streamID[c] \in 1 .. MaxStreamID /\ c # NoStream
  BY <1>0, <1>2, LocalStreamsAssumption DEF LocalTypeOK, NoStream
<1>4. /\ proc' \in ProcTypes /\ proc'[p] = [at |-> "found", of |-> c]
      /\ \A q \in Processors : q # p => proc'[q] = proc[q]
  BY <1>0, <1>2 DEF LocalTypeOK, ProcTypes
<1>5. LocalTypeOK'
  BY <1>0, <1>1, <1>4 DEF LocalTypeOK, ProcTypes
<1>6. IDsInOrder' /\ VerdictOf' /\ Sharers' = Sharers
  BY <1>0, <1>1, IDsKept
<1>7. OwnID'
  <2>1. /\ streamID[c] <= lastID \/ c \in overtaken
        /\ handler[c] \in {"made", "done"}
        /\ \A d \in Locals : handler[d] = "named" /\ streamID[d] = streamID[c] =>
              c \in overtaken \/ d \in overtaken
    BY <1>0, <1>2, <1>3 DEF IDsInOrder
  <2>2. handler[c] = "done" \/ c \in Sharers
    BY <1>0, <1>2, <1>3 DEF VerdictOf
  <2>3. ASSUME NEW q \in Processors, proc'[q].at # "idle", NEW k, k = proc'[q].of
        PROVE  /\ k \in Locals /\ streamID'[k] # NoStream
               /\ handler'[k] = "done" \/ (handler'[k] = "made" /\ k \in Sharers')
               /\ streamID'[k] <= lastID' \/ k \in overtaken'
               /\ \/ k \in overtaken'
                  \/ streams'[streamID'[k]] \in overtaken' \cup {NoStream, k}
               /\ \A d \in Locals : handler'[d] = "named" /\ streamID'[d] = streamID'[k] =>
                     k \in overtaken' \/ d \in overtaken'
    <3>1. CASE q = p
      <4>1. k = c
        BY <1>4, <2>3, <3>1
      <4> QED
        BY <1>1, <1>2, <1>6, <2>1, <2>2, <4>1
    <3>2. CASE q # p
      BY <1>0, <1>1, <1>4, <1>6, <2>3, <3>2 DEF OwnID
    <3> QED
      BY <3>1, <3>2
  <2> QED
    BY <2>3 DEF OwnID
<1>8. ReplyDue'
  <2>1. ASSUME NEW q \in Processors, NEW k, k = proc'[q].of
        PROVE  /\ proc'[q].at \in {"write", "pending", "ready"} => k \in Socks
               /\ proc'[q].at = "tcp" => k \notin Socks
               /\ proc'[q].at = "write" => resultMu'[k] = q
               /\ proc'[q].at = "write" /\ k \notin Sharers' => replies'[k] = 0
               /\ proc'[q].at = "ready" /\ k \notin Sharers' => replies'[k] = 1
               /\ proc'[q].at # "idle" /\ k \in Socks \ Sharers' /\ status'[k] = "active" =>
                     verdict'[streamID'[k]] = "ok"
    <3>1. CASE q = p
      <4>1. k = c /\ proc'[q].at = "found"
        BY <1>4, <2>1, <3>1
      <4>2. c \in Socks \ Sharers /\ status[c] = "active" => verdict[streamID[c]] = "ok"
        BY <1>0, <1>2, <1>3 DEF ReplyDue
      <4> QED
        BY <1>1, <1>6, <4>1, <4>2
    <3>2. CASE q # p
      BY <1>0, <1>1, <1>4, <1>6, <2>1, <3>2 DEF ReplyDue
    <3> QED
      BY <3>1, <3>2
  <2> QED
    BY <1>0, <1>1, <1>6, <2>1 DEF ReplyDue
<1>9. LocalSound'
  BY <1>0, <1>1, <1>6 DEF LocalSound, ReplyOnce, ToldFirst, OneOwner
<1> QED
  BY <1>5, <1>6, <1>7, <1>8, <1>9 DEF LocalInv

LEMMA CheckStatusSafe ==
    ASSUME LocalInv, NEW p \in Processors, CheckStatus(p)
    PROVE  LocalInv'
<1> DEFINE c == proc[p].of
<1>0. LocalTypeOK /\ IDsInOrder /\ VerdictOf /\ OwnID /\ ReplyDue /\ LocalSound
  BY DEF LocalInv
<1>1. /\ proc[p].at = "found" /\ c \in Socks /\ c \in Locals /\ resultMu[c] = Nobody
      /\ UNCHANGED <<handler, streamID, lastID, streams, status, terminal, arq, open,
                     replies, verdict, restarts, stopping, overtaken>>
      /\ \/ Stops(p) /\ UNCHANGED resultMu
         \/ ~Settled(c) /\ Goes(p, "found", "close") /\ UNCHANGED resultMu
         \/ /\ ~Settled(c) /\ Goes(p, "found", "write")
            /\ resultMu' = [resultMu EXCEPT ![c] = p]
  BY LocalStreamsAssumption DEF CheckStatus
<1>2. /\ proc' \in ProcTypes
      /\ \A q \in Processors : q # p => proc'[q] = proc[q]
      /\ \/ proc'[p].at = "idle" /\ UNCHANGED resultMu
         \/ proc'[p].at = "close" /\ proc'[p].of = c /\ UNCHANGED resultMu
         \/ /\ proc'[p].at = "write" /\ proc'[p].of = c /\ ~Settled(c)
            /\ resultMu' = [resultMu EXCEPT ![c] = p]
  BY <1>0, <1>1, ProcGoes, ProcStops
<1>3. LocalTypeOK'
  <2>1. resultMu' \in [Locals -> Processors \cup {Nobody}]
    BY <1>0, <1>1, <1>2 DEF LocalTypeOK
  <2> QED
    BY <1>0, <1>1, <1>2, <2>1 DEF LocalTypeOK, ProcTypes
<1>4. IDsInOrder' /\ VerdictOf' /\ Sharers' = Sharers
  BY <1>0, <1>1, IDsKept
<1>5. \A q \in Processors : proc'[q].at # "idle" =>
          proc[q].at # "idle" /\ proc'[q].of = proc[q].of
  BY <1>1, <1>2
<1>6. OwnID'
  BY <1>0, <1>1, <1>4, <1>5, OwnIDKept
<1>7. ReplyDue'
  <2>1. c \notin Sharers /\ ~Settled(c) => replies[c] = 0
    <3>1. c \notin Sharers => replies[c] \in Nat /\ replies[c] <= 1
      BY <1>0, <1>1 DEF LocalSound, ReplyOnce, LocalTypeOK
    <3>2. c \notin Sharers /\ replies[c] = 1 => Settled(c)
      BY <1>0, <1>1 DEF ReplyDue, Settled, Told
    <3> QED
      BY <3>1, <3>2
  <2>2. ASSUME NEW q \in Processors, NEW k, k = proc'[q].of
        PROVE  /\ proc'[q].at \in {"write", "pending", "ready"} => k \in Socks
               /\ proc'[q].at = "tcp" => k \notin Socks
               /\ proc'[q].at = "write" => resultMu'[k] = q
               /\ proc'[q].at = "write" /\ k \notin Sharers' => replies'[k] = 0
               /\ proc'[q].at = "ready" /\ k \notin Sharers' => replies'[k] = 1
               /\ proc'[q].at # "idle" /\ k \in Socks \ Sharers' /\ status'[k] = "active" =>
                     verdict'[streamID'[k]] = "ok"
    <3>1. CASE proc'[q].at = "idle"
      BY <3>1
    <3>2. CASE q = p /\ proc'[p].at # "idle"
      <4>1. k = c /\ proc'[q].at \in {"close", "write"}
        BY <1>2, <2>2, <3>2
      <4>2. proc'[q].at = "write" => resultMu'[c] = p /\ (c \notin Sharers => replies[c] = 0)
        BY <1>0, <1>1, <1>2, <2>1, <3>2 DEF LocalTypeOK
      <4>3. c \in Socks \ Sharers /\ status[c] = "active" => verdict[streamID[c]] = "ok"
        BY <1>0, <1>1 DEF ReplyDue
      <4> QED
        BY <1>1, <1>4, <3>2, <4>1, <4>2, <4>3
    <3>3. CASE q # p /\ proc'[q].at # "idle"
      <4>1. proc'[q] = proc[q] /\ k = proc[q].of /\ k \in Locals
        BY <1>0, <1>2, <2>2, <3>3 DEF OwnID
      <4>2. proc[q].at = "write" => resultMu[k] = q /\ k # c
        BY <1>0, <1>1, <4>1, LocalStreamsAssumption DEF ReplyDue
      <4>3. proc[q].at = "write" => resultMu'[k] = q
        BY <1>0, <1>1, <1>2, <4>1, <4>2 DEF LocalTypeOK
      <4> QED
        BY <1>0, <1>1, <1>4, <4>1, <4>3 DEF ReplyDue
    <3> QED
      BY <3>1, <3>2, <3>3
  <2> QED
    BY <1>0, <1>1, <1>4, <2>2 DEF ReplyDue
<1>8. LocalSound'
  BY <1>0, <1>1, <1>4 DEF LocalSound, ReplyOnce, ToldFirst, OneOwner
<1> QED
  BY <1>3, <1>4, <1>6, <1>7, <1>8 DEF LocalInv

LEMMA WriteResultSafe ==
    ASSUME LocalInv, NEW p \in Processors, WriteResult(p)
    PROVE  LocalInv'
<1> DEFINE c == proc[p].of
           ok == verdict[streamID[c]] = "ok"
<1>0. LocalTypeOK /\ IDsInOrder /\ VerdictOf /\ OwnID /\ ReplyDue /\ LocalSound
  BY DEF LocalInv
<1>1. /\ proc[p].at = "write"
      /\ UNCHANGED <<handler, streamID, lastID, streams, arq, verdict, restarts, stopping,
                     terminal, open, overtaken>>
      /\ resultMu' = [resultMu EXCEPT ![c] = Nobody]
  BY DEF WriteResult
<1>2. \/ /\ \E to \in {"close", "pending"} : Goes(p, "write", to)
         /\ UNCHANGED <<status, replies>>
      \/ /\ Goes(p, "write", IF ok THEN "ready" ELSE "force")
         /\ replies' = [replies EXCEPT ![c] = @ + 1]
         /\ status' = [status EXCEPT ![c] = IF ok THEN "active" ELSE "failed"]
  BY DEF WriteResult
<1>3. /\ c \in Socks /\ c \in Locals /\ (c \notin Sharers => replies[c] = 0)
      /\ resultMu[c] = p /\ handler[c] \in {"made", "done"}
      /\ c \notin Sharers => handler[c] = "done"
  BY <1>0, <1>1, LocalStreamsAssumption DEF OwnID, ReplyDue
<1> HIDE DEF ok
<1>4. /\ proc' \in ProcTypes
      /\ \A q \in Processors : q # p => proc'[q] = proc[q]
      /\ proc'[p].of = c
      /\ \/ proc'[p].at \in {"close", "pending"} /\ UNCHANGED <<status, replies>>
         \/ /\ proc'[p].at \in {"ready", "force"}
            /\ replies' = [replies EXCEPT ![c] = @ + 1]
            /\ status' = [status EXCEPT ![c] = IF ok THEN "active" ELSE "failed"]
  BY <1>0, <1>2, ProcGoes
<1>5. /\ replies' \in [Locals -> Nat] /\ status' \in StatusTypes
      /\ resultMu' \in [Locals -> Processors \cup {Nobody}]
      /\ \A k \in Locals : k # c =>
            status'[k] = status[k] /\ replies'[k] = replies[k] /\ resultMu'[k] = resultMu[k]
  <2>1. /\ replies \in [Locals -> Nat] /\ resultMu \in [Locals -> Processors \cup {Nobody}]
        /\ status \in StatusTypes
    BY <1>0 DEF LocalTypeOK, StatusTypes
  <2>2. \/ UNCHANGED <<status, replies>>
        \/ /\ replies' = [replies EXCEPT ![c] = @ + 1]
           /\ status' = [status EXCEPT ![c] = IF ok THEN "active" ELSE "failed"]
    BY <1>4
  <2> HIDE DEF c
  <2>3. /\ resultMu' \in [Locals -> Processors \cup {Nobody}]
        /\ \A k \in Locals : k # c => resultMu'[k] = resultMu[k]
    BY <1>1, <2>1
  <2>4. /\ replies' \in [Locals -> Nat]
        /\ \A k \in Locals : k # c => replies'[k] = replies[k]
    BY <2>1, <2>2
  <2>5. status' \in StatusTypes /\ \A k \in Locals : k # c => status'[k] = status[k]
    BY <2>1, <2>2 DEF StatusTypes
  <2> QED
    BY <2>3, <2>4, <2>5
<1>6. \/ proc'[p].at \in {"close", "pending"} /\ UNCHANGED <<status, replies>>
      \/ /\ proc'[p].at \in {"ready", "force"} /\ replies'[c] = replies[c] + 1
         /\ status'[c] = IF ok THEN "active" ELSE "failed"
  BY <1>0, <1>3, <1>4 DEF LocalTypeOK
<1>7. LocalTypeOK'
  BY <1>0, <1>1, <1>4, <1>5 DEF LocalTypeOK, ProcTypes, StatusTypes
<1>8. IDsInOrder' /\ VerdictOf' /\ Sharers' = Sharers
  <2>1. \A k \in Locals : handler[k] \in {"new", "admitted", "named"} =>
            status'[k] = status[k] /\ arq'[k] = arq[k]
    BY <1>1, <1>3, <1>5
  <2> QED
    BY <1>0, <1>1, <2>1, IDsKept
<1>9. \A q \in Processors : proc'[q].at # "idle" =>
          proc[q].at # "idle" /\ proc'[q].of = proc[q].of
  BY <1>1, <1>4
<1>10. OwnID'
  BY <1>0, <1>1, <1>8, <1>9, OwnIDKept
<1>11. c \notin Sharers /\ status'[c] = "active" => ok
  <2>1. c \notin Sharers /\ status[c] = "active" => ok
    BY <1>0, <1>1, <1>3 DEF ReplyDue, ok
  <2> QED
    BY <1>6, <2>1
<1>12. ReplyDue'
  <2>1. ASSUME NEW q \in Processors, NEW k, k = proc'[q].of
        PROVE  /\ proc'[q].at \in {"write", "pending", "ready"} => k \in Socks
               /\ proc'[q].at = "tcp" => k \notin Socks
               /\ proc'[q].at = "write" => resultMu'[k] = q
               /\ proc'[q].at = "write" /\ k \notin Sharers' => replies'[k] = 0
               /\ proc'[q].at = "ready" /\ k \notin Sharers' => replies'[k] = 1
               /\ proc'[q].at # "idle" /\ k \in Socks \ Sharers' /\ status'[k] = "active" =>
                     verdict'[streamID'[k]] = "ok"
    <3>1. CASE proc'[q].at = "idle"
      BY <3>1
    <3>2. CASE q = p
      <4>1. k = c /\ proc'[q].at \in {"close", "pending", "ready", "force"}
        BY <1>4, <2>1, <3>2
      <4>2. proc'[q].at = "ready" /\ c \notin Sharers => replies'[c] = 1
        BY <1>3, <1>6, <3>2
      <4>3. c \notin Sharers /\ status'[c] = "active" => verdict[streamID[c]] = "ok"
        BY <1>11 DEF ok
      <4> QED
        BY <1>1, <1>3, <1>8, <4>1, <4>2, <4>3
    <3>3. CASE q # p /\ proc'[q].at # "idle"
      <4>1. proc'[q] = proc[q] /\ k = proc[q].of /\ k \in Locals
        BY <1>0, <1>4, <2>1, <3>3 DEF OwnID
      <4>2. proc[q].at = "write" => k # c
        BY <1>0, <1>3, <3>3, <4>1 DEF ReplyDue
      <4>3. CASE k = c
        <5>1. proc[q].at = "ready" => c \in Sharers
          <6>1. proc[q].at = "ready" /\ k \notin Sharers => replies[k] = 1
            BY <1>0, <4>1 DEF ReplyDue
          <6> QED
            BY <1>3, <4>3, <6>1
        <5>2. c \notin Sharers /\ status'[c] = "active" => verdict[streamID[c]] = "ok"
          BY <1>11 DEF ok
        <5> QED
          BY <1>0, <1>1, <1>3, <1>8, <4>1, <4>2, <4>3, <5>1, <5>2 DEF ReplyDue
      <4>4. CASE k # c
        BY <1>0, <1>1, <1>5, <1>8, <4>1, <4>4 DEF ReplyDue
      <4> QED
        BY <4>3, <4>4
    <3> QED
      BY <3>1, <3>2, <3>3
  <2>2. ASSUME NEW k \in Socks \ Sharers', replies'[k] = 1
        PROVE  status'[k] \in Told /\ handler'[k] = "done"
    <3>1. CASE k = c
      BY <1>1, <1>3, <1>6, <1>8, <2>2, <3>1 DEF Told
    <3>2. CASE k # c
      BY <1>0, <1>1, <1>5, <1>8, <2>2, <3>2, LocalStreamsAssumption DEF ReplyDue
    <3> QED
      BY <3>1, <3>2
  <2>3. ASSUME NEW i \in 1 .. MaxStreamID, streams'[i] \in Socks \ Sharers',
               status'[streams'[i]] = "active"
        PROVE  verdict'[i] = "ok"
    <3>1. CASE streams[i] = c
      <4>1. streamID[c] = i
        BY <1>0, <1>3, <3>1, InTable, LocalStreamsAssumption
      <4> QED
        BY <1>1, <1>8, <1>11, <2>3, <3>1, <4>1 DEF ok
    <3>2. CASE streams[i] # c
      BY <1>0, <1>1, <1>5, <1>8, <2>3, <3>2, LocalStreamsAssumption DEF ReplyDue
    <3> QED
      BY <3>1, <3>2
  <2> QED
    BY <2>1, <2>2, <2>3 DEF ReplyDue
<1>13. LocalSound'
  <2>1. \A k \in Socks \ Sharers : replies'[k] <= 1 /\ (replies[k] = 1 => replies'[k] = 1)
    BY <1>0, <1>3, <1>5, <1>6, LocalStreamsAssumption DEF LocalSound, ReplyOnce, LocalTypeOK
  <2> QED
    BY <1>0, <1>1, <1>8, <2>1 DEF LocalSound, ReplyOnce, ToldFirst, OneOwner
<1> QED
  BY <1>7, <1>8, <1>10, <1>12, <1>13 DEF LocalInv

\* What a handler that stops, and tells nobody anything, leaves of the replies.
LEMMA ReplyDueKept ==
    ASSUME ReplyDue, Sharers' = Sharers,
           UNCHANGED <<handler, streamID, streams, status, verdict, resultMu, replies>>,
           \A q \in Processors :
               proc'[q].at # "idle" => proc[q].at # "idle" /\ proc'[q] = proc[q]
    PROVE  ReplyDue'
<1>1. ASSUME NEW q \in Processors
      PROVE  LET k == proc'[q].of
             IN  /\ proc'[q].at \in {"write", "pending", "ready"} => k \in Socks
                 /\ proc'[q].at = "tcp" => k \notin Socks
                 /\ proc'[q].at = "write" => resultMu'[k] = q
                 /\ proc'[q].at = "write" /\ k \notin Sharers' => replies'[k] = 0
                 /\ proc'[q].at = "ready" /\ k \notin Sharers' => replies'[k] = 1
                 /\ proc'[q].at # "idle" /\ k \in Socks \ Sharers' /\ status'[k] = "active" =>
                       verdict'[streamID'[k]] = "ok"
  <2>1. CASE proc'[q].at = "idle"
    BY <2>1
  <2>2. CASE proc'[q].at # "idle"
    BY <2>2 DEF ReplyDue
  <2> QED
    BY <2>1, <2>2
<1>2. \A k \in Socks \ Sharers' :
          replies'[k] = 1 => status'[k] \in Told /\ handler'[k] = "done"
  BY DEF ReplyDue
<1>3. \A i \in 1 .. MaxStreamID : streams'[i] \in Socks \ Sharers' =>
          (status'[streams'[i]] = "active" => verdict'[i] = "ok")
  BY DEF ReplyDue
<1> QED
  BY <1>1, <1>2, <1>3 DEF ReplyDue

LEMMA CancelPendingSafe ==
    ASSUME LocalInv, NEW p \in Processors, CancelPending(p)
    PROVE  LocalInv'
<1> DEFINE c == proc[p].of
<1>0. LocalTypeOK /\ IDsInOrder /\ VerdictOf /\ OwnID /\ ReplyDue /\ LocalSound
  BY DEF LocalInv
<1>1. /\ proc[p].at = "pending"
      /\ UNCHANGED <<handler, streamID, lastID, streams, arq, replies, verdict, resultMu,
                     restarts, stopping, overtaken>>
      /\ \/ Stops(p) /\ UNCHANGED <<status, terminal, open>>
         \/ /\ status[c] = "connecting" /\ Goes(p, "pending", "close")
            /\ status' = [status EXCEPT ![c] = "cancelled"]
            /\ terminal' = [terminal EXCEPT ![c] = TRUE]
            /\ open' = [open EXCEPT ![c] = FALSE]
  BY DEF CancelPending
<1>2. c \in Socks /\ c \in Locals /\ handler[c] \in {"made", "done"}
  BY <1>0, <1>1, LocalStreamsAssumption DEF ReplyDue, OwnID
<1>3. /\ proc' \in ProcTypes
      /\ \A q \in Processors : q # p => proc'[q] = proc[q]
      /\ proc'[p].at = "idle" \/ (proc'[p].at = "close" /\ proc'[p].of = c)
  BY <1>0, <1>1, ProcGoes, ProcStops
<1>4. /\ status' \in StatusTypes
      /\ terminal' \in [Locals -> BOOLEAN] /\ open' \in [Locals -> BOOLEAN]
      /\ \A k \in Locals :
            status'[k] = status[k] \/ (k = c /\ status[c] = "connecting" /\ status'[k] = "cancelled")
      /\ \A k \in Locals : open'[k] => open[k]
  <2>1. status \in StatusTypes /\ terminal \in [Locals -> BOOLEAN] /\ open \in [Locals -> BOOLEAN]
    BY <1>0 DEF LocalTypeOK, StatusTypes
  <2>2. \/ UNCHANGED <<status, terminal, open>>
        \/ /\ status[c] = "connecting"
           /\ status' = [status EXCEPT ![c] = "cancelled"]
           /\ terminal' = [terminal EXCEPT ![c] = TRUE]
           /\ open' = [open EXCEPT ![c] = FALSE]
    BY <1>1
  <2> HIDE DEF c
  <2>3. /\ status' \in StatusTypes
        /\ \A k \in Locals :
              status'[k] = status[k] \/ (k = c /\ status[c] = "connecting" /\ status'[k] = "cancelled")
    BY <2>1, <2>2 DEF StatusTypes
  <2>4. terminal' \in [Locals -> BOOLEAN] /\ open' \in [Locals -> BOOLEAN]
    BY <2>1, <2>2
  <2>5. \A k \in Locals : open'[k] => open[k]
    BY <1>2, <2>1, <2>2
  <2> QED
    BY <2>3, <2>4, <2>5
<1>5. LocalTypeOK'
  BY <1>0, <1>1, <1>3, <1>4 DEF LocalTypeOK, ProcTypes, StatusTypes
<1>6. IDsInOrder' /\ VerdictOf' /\ Sharers' = Sharers
  <2>1. \A k \in Locals : handler[k] \in {"new", "admitted", "named"} =>
            status'[k] = status[k] /\ arq'[k] = arq[k]
    BY <1>1, <1>2, <1>4
  <2> QED
    BY <1>0, <1>1, <1>4, <2>1, IDsKept
<1>7. OwnID'
  <2>1. \A q \in Processors : proc'[q].at # "idle" =>
            proc[q].at # "idle" /\ proc'[q].of = proc[q].of
    BY <1>1, <1>3
  <2> QED
    BY <1>0, <1>1, <1>6, <2>1, OwnIDKept
<1>8. ReplyDue'
  <2>1. \A k \in Locals : /\ status'[k] = "active" => status[k] = "active"
                          /\ status[k] \in Told => status'[k] \in Told
    BY <1>4 DEF Told, Ended
  <2>2. ASSUME NEW q \in Processors, NEW k, k = proc'[q].of
        PROVE  /\ proc'[q].at \in {"write", "pending", "ready"} => k \in Socks
               /\ proc'[q].at = "tcp" => k \notin Socks
               /\ proc'[q].at = "write" => resultMu'[k] = q
               /\ proc'[q].at = "write" /\ k \notin Sharers' => replies'[k] = 0
               /\ proc'[q].at = "ready" /\ k \notin Sharers' => replies'[k] = 1
               /\ proc'[q].at # "idle" /\ k \in Socks \ Sharers' /\ status'[k] = "active" =>
                     verdict'[streamID'[k]] = "ok"
    <3>1. CASE proc'[q].at = "idle"
      BY <3>1
    <3>2. CASE proc'[q].at # "idle"
      <4>1. /\ k = proc[q].of /\ proc[q].at # "idle" /\ k \in Locals
            /\ proc'[q].at = proc[q].at \/ (q = p /\ k = c /\ proc'[q].at = "close")
        BY <1>0, <1>1, <1>2, <1>3, <2>2, <3>2 DEF OwnID
      <4> QED
        BY <1>0, <1>1, <1>6, <2>1, <4>1 DEF ReplyDue
    <3> QED
      BY <3>1, <3>2
  <2> QED
    BY <1>0, <1>1, <1>6, <2>1, <2>2, LocalStreamsAssumption DEF ReplyDue
<1>9. LocalSound'
  BY <1>0, <1>1, <1>4, <1>6 DEF LocalSound, ReplyOnce, ToldFirst, OneOwner
<1> QED
  BY <1>5, <1>6, <1>7, <1>8, <1>9 DEF LocalInv

LEMMA ApplyResultSafe ==
    ASSUME LocalInv, NEW p \in Processors, ApplyResult(p)
    PROVE  LocalInv'
<1> DEFINE c == proc[p].of
           t == IF c \in Socks /\ streams[streamID[c]] # NoStream
                THEN streams[streamID[c]] ELSE c
<1>0. LocalTypeOK /\ IDsInOrder /\ VerdictOf /\ OwnID /\ ReplyDue /\ LocalSound
  BY DEF LocalInv
<1>1. /\ proc[p].at \in {"ready", "close", "force"} /\ Stops(p)
      /\ UNCHANGED <<handler, streamID, lastID, terminal, replies, verdict, resultMu,
                     restarts, stopping, overtaken>>
  BY DEF ApplyResult
<1>2. \/ UNCHANGED <<streams, status, arq, open>>
      \/ /\ proc[p].at = "ready" /\ arq[t] # "closed"
         /\ arq' = [arq EXCEPT ![t] = "ready"] /\ UNCHANGED <<streams, status, open>>
      \/ Finalized({t}) /\ streams' = Removed(t)
  BY <1>1 DEF ApplyResult
<1>3. /\ c \in Locals /\ streamID[c] \in 1 .. MaxStreamID /\ handler[c] \in {"made", "done"}
      /\ c \in overtaken \/ streams[streamID[c]] \in overtaken \cup {NoStream, c}
  BY <1>0, <1>1 DEF OwnID, LocalTypeOK, NoStream
<1>4. /\ t \in Locals /\ streamID[t] = streamID[c] /\ handler[t] \in {"made", "done"}
      /\ t = c \/ t \in Sharers
  <2>1. CASE t = c
    BY <1>3, <2>1
  <2>2. CASE t # c
    <3>1. t = streams[streamID[c]] /\ t # NoStream
      BY <2>2
    <3>2. t \in Locals /\ streamID[t] = streamID[c] /\ handler[t] \in {"made", "done"}
      BY <1>0, <1>3, <3>1, InTable DEF IDsInOrder
    <3>3. c \in overtaken \/ t \in overtaken
      BY <1>3, <2>2, <3>1
    <3> QED
      BY <1>3, <2>2, <3>2, <3>3, Sharing
  <2> QED
    BY <2>1, <2>2
<1>5. /\ proc' \in ProcTypes
      /\ \A q \in Processors : q # p => proc'[q] = proc[q]
      /\ proc'[p].at = "idle"
  BY <1>0, <1>1, ProcStops
<1>6. proc[p].at = "ready" => c \in Socks /\ (c \notin Sharers => replies[c] = 1)
  BY <1>0 DEF ReplyDue
<1> HIDE DEF t, c
<1>7. CASE Finalized({t}) /\ streams' = Removed(t)
  <2>1. streams' = [i \in 1 .. MaxStreamID |-> IF streams[i] \in {t} THEN NoStream ELSE streams[i]]
    BY <1>7 DEF Removed
  <2>2. streamID[t] # NoStream
    BY <1>3, <1>4 DEF NoStream
  <2> QED
    BY <1>1, <1>4, <1>5, <1>7, <2>1, <2>2, Closing
<1>8. CASE /\ UNCHANGED <<streams, status, open>>
           /\ \/ UNCHANGED arq
              \/ /\ proc[p].at = "ready" /\ arq[t] # "closed"
                 /\ arq' = [arq EXCEPT ![t] = "ready"]
  <2>1. /\ arq' \in ARQTypes
        /\ \A k \in Locals : \/ arq'[k] = arq[k]
                             \/ /\ k = t /\ arq'[k] = "ready" /\ arq[k] # "closed"
                                /\ proc[p].at = "ready"
    BY <1>0, <1>4, <1>8 DEF LocalTypeOK, ARQTypes
  <2>2. LocalTypeOK'
    BY <1>0, <1>1, <1>5, <1>8, <2>1 DEF LocalTypeOK, ProcTypes, ARQTypes
  <2>3. IDsInOrder' /\ VerdictOf' /\ Sharers' = Sharers
    <3>1. \A k \in Locals : arq'[k] = arq[k] \/ streamID[k] # NoStream
      BY <1>3, <1>4, <2>1 DEF NoStream
    <3>2. \A k \in Locals : handler[k] \in {"new", "admitted", "named"} =>
               status'[k] = status[k] /\ arq'[k] = arq[k]
      BY <1>4, <1>8, <2>1
    <3> QED
      BY <1>0, <1>1, <1>8, <3>1, <3>2, IDsKept
  <2>4. \A q \in Processors : proc'[q].at # "idle" => proc[q].at # "idle" /\ proc'[q] = proc[q]
    BY <1>5
  <2>5. OwnID'
    BY <1>0, <1>1, <1>8, <2>3, <2>4, OwnIDKept
  <2>6. ReplyDue'
    BY <1>0, <1>1, <1>8, <2>3, <2>4, ReplyDueKept
  <2>7. LocalSound'
    <3>1. ASSUME NEW k \in Socks \ Sharers', arq'[k] = "ready"
          PROVE  replies'[k] = 1
      <4>1. CASE arq'[k] = arq[k]
        BY <1>0, <1>1, <2>3, <3>1, <4>1 DEF LocalSound, ToldFirst
      <4>2. CASE arq'[k] # arq[k]
        <5>1. k = t /\ k = c /\ proc[p].at = "ready"
          BY <1>4, <2>1, <2>3, <3>1, <4>2, LocalStreamsAssumption
        <5> QED
          BY <1>1, <1>6, <2>3, <3>1, <5>1
      <4> QED
        BY <4>1, <4>2
    <3> QED
      BY <1>0, <1>1, <1>8, <2>1, <2>3, <3>1 DEF LocalSound, ReplyOnce, ToldFirst, OneOwner
  <2> QED
    BY <2>2, <2>3, <2>5, <2>6, <2>7 DEF LocalInv
<1> QED
  BY <1>2, <1>7, <1>8

LEMMA CheckTCPSafe ==
    ASSUME LocalInv, NEW p \in Processors, CheckTCP(p)
    PROVE  LocalInv'
<1> DEFINE c == proc[p].of
<1>0. LocalTypeOK /\ IDsInOrder /\ VerdictOf /\ OwnID /\ ReplyDue /\ LocalSound
  BY DEF LocalInv
<1>1. /\ proc[p].at = "found" /\ c \notin Socks
      /\ Stops(p) \/ \E to \in {"tcp", "force"} : Goes(p, "found", to)
      /\ UNCHANGED <<handler, streamID, lastID, streams, status, terminal, arq, open,
                     replies, verdict, resultMu, restarts, stopping, overtaken>>
  BY DEF CheckTCP
<1>2. /\ proc' \in ProcTypes
      /\ \A q \in Processors : q # p => proc'[q] = proc[q]
      /\ proc'[p].at = "idle" \/ (proc'[p].at \in {"tcp", "force"} /\ proc'[p].of = c)
  BY <1>0, <1>1, ProcGoes, ProcStops
<1>3. LocalTypeOK'
  BY <1>0, <1>1, <1>2 DEF LocalTypeOK, ProcTypes
<1>4. IDsInOrder' /\ VerdictOf' /\ Sharers' = Sharers
  BY <1>0, <1>1, IDsKept
<1>5. OwnID'
  <2>1. \A q \in Processors : proc'[q].at # "idle" =>
            proc[q].at # "idle" /\ proc'[q].of = proc[q].of
    BY <1>1, <1>2
  <2> QED
    BY <1>0, <1>1, <1>4, <2>1, OwnIDKept
<1>6. ReplyDue'
  <2>1. ASSUME NEW q \in Processors, NEW k, k = proc'[q].of
        PROVE  /\ proc'[q].at \in {"write", "pending", "ready"} => k \in Socks
               /\ proc'[q].at = "tcp" => k \notin Socks
               /\ proc'[q].at = "write" => resultMu'[k] = q
               /\ proc'[q].at = "write" /\ k \notin Sharers' => replies'[k] = 0
               /\ proc'[q].at = "ready" /\ k \notin Sharers' => replies'[k] = 1
               /\ proc'[q].at # "idle" /\ k \in Socks \ Sharers' /\ status'[k] = "active" =>
                     verdict'[streamID'[k]] = "ok"
    <3>1. CASE proc'[q].at = "idle"
      BY <3>1
    <3>2. CASE q = p /\ proc'[q].at # "idle"
      BY <1>1, <1>2, <2>1, <3>2
    <3>3. CASE q # p
      BY <1>0, <1>1, <1>2, <1>4, <2>1, <3>3 DEF ReplyDue
    <3> QED
      BY <3>1, <3>2, <3>3
  <2> QED
    BY <1>0, <1>1, <1>4, <2>1 DEF ReplyDue
<1>7. LocalSound'
  BY <1>0, <1>1, <1>4 DEF LocalSound, ReplyOnce, ToldFirst, OneOwner
<1> QED
  BY <1>3, <1>4, <1>5, <1>6, <1>7 DEF LocalInv

LEMMA ReadyTCPSafe ==
    ASSUME LocalInv, NEW p \in Processors, ReadyTCP(p)
    PROVE  LocalInv'
<1> DEFINE c == proc[p].of
<1>0. LocalTypeOK /\ IDsInOrder /\ VerdictOf /\ OwnID /\ ReplyDue /\ LocalSound
  BY DEF LocalInv
<1>1. /\ proc[p].at = "tcp" /\ Stops(p)
      /\ arq' = [arq EXCEPT ![c] = IF @ = "paused" THEN "ready" ELSE @]
      /\ status' = [status EXCEPT ![c] = "active"]
      /\ UNCHANGED <<handler, streamID, lastID, streams, terminal, open, replies, verdict,
                     resultMu, overtaken>>
  BY DEF ReadyTCP
<1>2. c \in Locals /\ c \notin Socks /\ handler[c] \in {"made", "done"} /\ streamID[c] # NoStream
  BY <1>0, <1>1 DEF OwnID, ReplyDue
<1>3. /\ proc' \in ProcTypes /\ proc'[p].at = "idle"
      /\ \A q \in Processors : q # p => proc'[q] = proc[q]
  BY <1>0, <1>1, ProcStops
<1> HIDE DEF c
<1>4. /\ arq' \in ARQTypes /\ status' \in StatusTypes
      /\ \A k \in Locals : k # c => arq'[k] = arq[k] /\ status'[k] = status[k]
      /\ arq'[c] = "closed" => arq[c] = "closed"
  BY <1>0, <1>1, <1>2 DEF LocalTypeOK, StatusTypes, ARQTypes
<1>5. LocalTypeOK'
  BY <1>0, <1>1, <1>3, <1>4 DEF LocalTypeOK, ProcTypes, StatusTypes, ARQTypes
<1>6. IDsInOrder' /\ VerdictOf' /\ Sharers' = Sharers
  <2>1. \A k \in Locals : handler[k] \in {"new", "admitted", "named"} =>
             status'[k] = status[k] /\ arq'[k] = arq[k]
    BY <1>2, <1>4
  <2>2. \A k \in Locals : arq'[k] = arq[k] \/ streamID[k] # NoStream
    BY <1>2, <1>4
  <2> QED
    BY <1>0, <1>1, <2>1, <2>2, IDsKept
<1>7. OwnID'
  <2>1. \A q \in Processors : proc'[q].at # "idle" =>
            proc[q].at # "idle" /\ proc'[q].of = proc[q].of
    BY <1>3
  <2> QED
    BY <1>0, <1>1, <1>6, <2>1, OwnIDKept
<1>8. ReplyDue'
  <2>1. \A k \in Socks : k \in Locals /\ status'[k] = status[k]
    BY <1>2, <1>4, LocalStreamsAssumption
  <2>2. ASSUME NEW q \in Processors, NEW k, k = proc'[q].of
        PROVE  /\ proc'[q].at \in {"write", "pending", "ready"} => k \in Socks
               /\ proc'[q].at = "tcp" => k \notin Socks
               /\ proc'[q].at = "write" => resultMu'[k] = q
               /\ proc'[q].at = "write" /\ k \notin Sharers' => replies'[k] = 0
               /\ proc'[q].at = "ready" /\ k \notin Sharers' => replies'[k] = 1
               /\ proc'[q].at # "idle" /\ k \in Socks \ Sharers' /\ status'[k] = "active" =>
                     verdict'[streamID'[k]] = "ok"
    <3>1. CASE proc'[q].at = "idle"
      BY <3>1
    <3>2. CASE proc'[q].at # "idle"
      <4>1. proc'[q] = proc[q]
        BY <1>3, <3>2
      <4> QED
        BY <1>0, <1>1, <1>6, <2>1, <2>2, <3>2, <4>1 DEF ReplyDue
    <3> QED
      BY <3>1, <3>2
  <2> QED
    BY <1>0, <1>1, <1>6, <2>1, <2>2 DEF ReplyDue
<1>9. LocalSound'
  <2>1. \A k \in Socks : arq'[k] = arq[k]
    BY <1>2, <1>4, LocalStreamsAssumption
  <2>2. \A k \in Locals : arq'[k] = "closed" => arq[k] = "closed"
    BY <1>4
  <2> QED
    BY <1>0, <1>1, <1>6, <2>1, <2>2 DEF LocalSound, ReplyOnce, ToldFirst, OneOwner
<1> QED
  BY <1>5, <1>6, <1>7, <1>8, <1>9 DEF LocalInv

\* A restart: what was in the table is closed, and the handlers that hold an
\* unused id are overtaken.
LEMMA CloseAllSafe ==
    ASSUME LocalInv, CloseAllStreams
    PROVE  LocalInv'
<1>0. LocalTypeOK /\ IDsInOrder /\ VerdictOf /\ OwnID /\ ReplyDue /\ LocalSound
  BY DEF LocalInv
<1> DEFINE cs == {streams[i] : i \in Active}
<1>1. /\ \A p \in Processors : proc[p].at = "idle"
      /\ Finalized(cs) /\ lastID' = 0
      /\ streams' = [i \in 1 .. MaxStreamID |-> NoStream]
      /\ verdict' = [i \in 1 .. MaxStreamID |-> "none"]
      /\ overtaken' = overtaken \cup {k \in Locals : handler[k] = "named"}
      /\ UNCHANGED <<handler, streamID, terminal, replies, resultMu, proc>>
  BY DEF CloseAllStreams, BeginsAnew
<1>2. \A k \in cs : k \in Locals /\ streamID[k] # NoStream /\ handler[k] \in {"made", "done"}
  <2>1. ASSUME NEW i \in Active
        PROVE  /\ streams[i] \in Locals /\ streamID[streams[i]] # NoStream
               /\ handler[streams[i]] \in {"made", "done"}
    <3>1. i \in 1 .. MaxStreamID /\ streams[i] # NoStream
      BY DEF Active
    <3> QED
      BY <1>0, <3>1, InTable DEF IDsInOrder, NoStream
  <2> QED
    BY <2>1
<1>3. \A k \in Locals \ Sharers : open[k] /\ handler[k] \in {"made", "done"} => k \in cs
  <2>1. ASSUME NEW k \in Locals \ Sharers, open[k], handler[k] \in {"made", "done"}
        PROVE  streamID[k] \in Active /\ streams[streamID[k]] = k
    <3>1. streamID[k] \in 1 .. MaxStreamID
      BY <1>0, <2>1 DEF IDsInOrder, LocalTypeOK, NoStream
    <3>2. streams[streamID[k]] = k
      BY <1>0, <2>1 DEF LocalSound, OneOwner
    <3> QED
      BY <3>1, <3>2, LocalStreamsAssumption DEF Active
  <2> QED
    BY <2>1
<1> HIDE DEF cs
<1>4. arq' \in ARQTypes /\ status' \in StatusTypes /\ open' \in [Locals -> BOOLEAN]
  BY <1>0, <1>1 DEF Finalized, LocalTypeOK, Ended, ARQTypes, StatusTypes
<1>5. /\ \A k \in Locals : k \notin cs =>
             arq'[k] = arq[k] /\ status'[k] = status[k] /\ open'[k] = open[k]
      /\ \A k \in cs : arq'[k] = "closed" /\ status'[k] = "closed" /\ ~open'[k]
  BY <1>0, <1>1, <1>2 DEF Finalized, LocalTypeOK
<1>6. LocalTypeOK'
  <2>1. overtaken' \subseteq Locals
    BY <1>0, <1>1 DEF LocalTypeOK
  <2>2. /\ streams' \in [1 .. MaxStreamID -> Locals \cup {NoStream}]
        /\ verdict' \in [1 .. MaxStreamID -> {"none", "ok", "fail"}]
        /\ lastID' \in 0 .. MaxStreamID
    BY <1>1, LocalStreamsAssumption
  <2> QED
    BY <1>0, <1>1, <1>4, <2>1, <2>2 DEF LocalTypeOK, ARQTypes, StatusTypes
<1>7. Sharers \subseteq Sharers' /\ Named' = Named
  <2>1. overtaken \subseteq Named /\ overtaken \subseteq overtaken'
    BY <1>0, <1>1 DEF IDsInOrder
  <2> QED
    BY <1>1, <2>1, SharersGrow DEF Named
<1>8. IDsInOrder'
  <2>1. 1 .. lastID' = {}
    BY <1>1
  <2>2. overtaken' \subseteq Named'
    BY <1>0, <1>1, <1>7 DEF IDsInOrder, Named
  <2>3. \A i \in 1 .. MaxStreamID : streams'[i] = NoStream
    BY <1>1
  <2>4. ASSUME NEW k \in Locals
        PROVE  /\ handler'[k] \in {"new", "admitted"} => streamID'[k] = NoStream
               /\ handler'[k] \in {"named", "made"} => streamID'[k] # NoStream
               /\ handler'[k] \in {"new", "admitted", "named"} =>
                     status'[k] = "none" /\ arq'[k] = "none"
               /\ handler'[k] = "done" /\ open'[k] => streamID'[k] # NoStream
               /\ arq'[k] # "none" => streamID'[k] # NoStream
    BY <1>0, <1>1, <1>2, <1>5 DEF IDsInOrder
  <2>5. \A k \in Locals : handler'[k] = "named" => k \in overtaken'
    BY <1>1
  <2> QED
    BY <2>1, <2>2, <2>3, <2>4, <2>5 DEF IDsInOrder
<1>9. VerdictOf' /\ OwnID'
  BY <1>1 DEF VerdictOf, OwnID
<1>10. ReplyDue'
  <2>1. ASSUME NEW k \in Socks \ Sharers', replies'[k] = 1
        PROVE  status'[k] \in Told /\ handler'[k] = "done"
    BY <1>0, <1>1, <1>5, <1>7, <2>1, LocalStreamsAssumption DEF ReplyDue, Told, Ended
  <2>2. \A i \in 1 .. MaxStreamID : streams'[i] \notin Socks
    BY <1>1, LocalStreamsAssumption
  <2> QED
    BY <1>1, <2>1, <2>2 DEF ReplyDue
<1>11. LocalSound'
  <2>1. ASSUME NEW k \in Locals \ Sharers', open'[k], handler'[k] \in {"made", "done"}
        PROVE  FALSE
    BY <1>1, <1>3, <1>5, <1>7, <2>1
  <2>2. ASSUME NEW k \in Socks \ Sharers', arq'[k] = "ready"
        PROVE  replies'[k] = 1
    BY <1>0, <1>1, <1>5, <1>7, <2>2, LocalStreamsAssumption DEF LocalSound, ToldFirst
  <2> QED
    BY <1>0, <1>1, <1>7, <2>1, <2>2 DEF LocalSound, ReplyOnce, ToldFirst, OneOwner
<1> QED
  BY <1>6, <1>8, <1>9, <1>10, <1>11 DEF LocalInv

LEMMA LocalInitSafe == LocalInit => LocalInv
<1> SUFFICES ASSUME LocalInit PROVE LocalInv
  OBVIOUS
<1>1. LocalTypeOK
  BY LocalStreamsAssumption DEF LocalInit, LocalTypeOK, Idle, NoStream, Ended
<1>2. IDsInOrder
  <2>1. 1 .. lastID = {}
    BY DEF LocalInit
  <2> QED
    BY <2>1 DEF LocalInit, IDsInOrder
<1>3. VerdictOf /\ OwnID /\ ReplyDue
  BY LocalStreamsAssumption DEF LocalInit, VerdictOf, OwnID, ReplyDue, Idle
<1>4. LocalSound
  BY LocalStreamsAssumption DEF LocalInit, LocalSound, ReplyOnce, ToldFirst, OneOwner
<1> QED
  BY <1>1, <1>2, <1>3, <1>4 DEF LocalInv

LEMMA LocalKept ==
    ASSUME LocalInv, LocalNext
    PROVE  LocalInv'
<1>1. ASSUME NEW c \in Locals, HandlerStep(c)
      PROVE  LocalInv'
  BY <1>1, AdmitSafe, GetNewStreamIDSafe, NewStreamSafe, SendSYNSafe DEF HandlerStep
<1>2. ASSUME NEW c \in Locals,
             ServerDecides(c) \/ ARQCloses(c) \/ CleanupNotes(c) \/ RemoveStreamOf(c)
      PROVE  LocalInv'
  BY <1>2, ServerDecidesSafe, ARQClosesSafe, CleanupNotesSafe, RemoveStreamOfSafe
<1>3. ASSUME NEW p \in Processors, ResultArrives(p) \/ ProcessorStep(p)
      PROVE  LocalInv'
  BY <1>3, ResultArrivesSafe, CheckStatusSafe, WriteResultSafe, CancelPendingSafe,
     ApplyResultSafe, CheckTCPSafe, ReadyTCPSafe DEF ProcessorStep
<1>4. CASE StopRuntime
  <2>1. UNCHANGED <<handler, streamID, lastID, streams, status, terminal, arq, open,
                    replies, verdict, resultMu, proc, overtaken>>
    BY <1>4 DEF StopRuntime
  <2> QED
    BY <2>1 DEF LocalInv, LocalTypeOK, IDsInOrder, Named, VerdictOf, Sharers, OwnID, ReplyDue,
                LocalSound, ReplyOnce, ToldFirst, OneOwner
<1>5. CASE CloseAllStreams
  BY <1>5, CloseAllSafe
<1> QED
  BY <1>1, <1>2, <1>3, <1>4, <1>5 DEF LocalNext
-----------------------------------------------------------------------------
(* All of them together.                                                    *)

EndsInv == ConnInv /\ GateInv /\ WindowsInv /\ LocalInv

LEMMA ConnStays ==
    ASSUME ConnInv, UNCHANGED connVars
    PROVE  ConnInv'
<1>1. UNCHANGED <<stage, closed, inside, total, encrypted, active, activeByIP, loop, loopByIP>>
  BY DEF connVars
<1>2. ConnTypeOK' /\ ConnOrder'
  BY <1>1 DEF ConnInv, ConnTypeOK, ConnOrder, EncryptedMax
<1>3. /\ TotalHolders' = TotalHolders /\ ShareHolders' = ShareHolders
      /\ ListenerHolders' = ListenerHolders
  BY <1>1 DEF TotalHolders, ShareHolders, ListenerHolders
<1>4. SlotsExact' /\ ListenersExact'
  BY <1>1, <1>3 DEF ConnInv, SlotsExact, ListenersExact
<1> QED
  BY <1>2, <1>4 DEF ConnInv

LEMMA GateStays ==
    ASSUME GateInv, UNCHANGED gateVars
    PROVE  GateInv'
BY DEF gateVars, GateInv, GateTypeOK, TokensPaid, ReadFits, BytesKept

LEMMA WindowsStay ==
    ASSUME WindowsInv, UNCHANGED windowVars
    PROVE  WindowsInv'
BY DEF windowVars, trackVars, loginVars, WindowsInv, WindowsTypeOK, AttemptsOfFailed,
       ErrorRemembered, LastEmit, BanRemembered, EmitsRare

LEMMA LocalStays ==
    ASSUME LocalInv, UNCHANGED localVars
    PROVE  LocalInv'
BY DEF localVars, LocalInv, LocalTypeOK, IDsInOrder, Named, VerdictOf, Sharers, OwnID,
       ReplyDue, LocalSound, ReplyOnce, ToldFirst, OneOwner

LEMMA EndsStart == Init => EndsInv
BY ConnInitSafe, GateInitSafe, WindowsInitSafe, LocalInitSafe DEF Init, EndsInv

LEMMA EndsStep ==
    ASSUME EndsInv, [Next]_tunnelVars
    PROVE  EndsInv'
<1>0. ConnInv /\ GateInv /\ WindowsInv /\ LocalInv
  BY DEF EndsInv
<1>1. CASE UNCHANGED endVars
  BY <1>0, <1>1, ConnStays, GateStays, WindowsStay, LocalStays DEF endVars, limitVars, EndsInv
<1>2. CASE ConnNext /\ UNCHANGED <<gateVars, windowVars, localVars>>
  BY <1>0, <1>2, ConnKept, GateStays, WindowsStay, LocalStays DEF EndsInv
<1>3. CASE GateNext /\ UNCHANGED <<connVars, windowVars, localVars>>
  BY <1>0, <1>3, ConnStays, GateKept, WindowsStay, LocalStays DEF EndsInv
<1>4. CASE WindowsNext /\ UNCHANGED <<connVars, gateVars, localVars>>
  BY <1>0, <1>4, ConnStays, GateStays, WindowsKept, LocalStays DEF EndsInv
<1>5. CASE LocalNext /\ UNCHANGED limitVars
  BY <1>0, <1>5, ConnStays, GateStays, WindowsStay, LocalKept DEF limitVars, EndsInv
<1>6. CASE UNCHANGED tunnelVars
  BY <1>1, <1>6 DEF tunnelVars
<1> QED
  BY <1>1, <1>2, <1>3, <1>4, <1>5, <1>6 DEF Next

\* The ends of the tunnel keep what they promise: connections are counted
\* exactly and encrypted ones leave room for the others, requests over HTTPS
\* get no more than their rate and their memory, errors are rare and bans last,
\* and each local connection has its own stream and hears its answer once
\* (EndsSound).  Those that share an id are left out of the last: a restart sets
\* last_stream_id to 0 while the handler of one of them has not used its id yet
\* (async_runtime.go:128).
THEOREM EndsAreSound == Spec => []EndsSound
<1>1. Init => EndsInv
  BY EndsStart
<1>2. EndsInv /\ [Next]_tunnelVars => EndsInv'
  BY EndsStep
<1>3. EndsInv => EndsSound
  BY HeadroomLeft, GateImplies, WindowsImply DEF EndsInv, EndsSound, LocalInv
<1> QED
  BY <1>1, <1>2, <1>3, PTL DEF Spec
=============================================================================
