------------------------------ MODULE GenericUDP ------------------------------
(****************************************************************************)
(* The client's end of a SOCKS5 UDP association                             *)
(* (handleSocksUDPAssociate in internal/client/socks_manager.go and         *)
(* generic_udp_fallback.go): the loop that reads the local socket puts the  *)
(* datagrams into a queue that keeps the newest; a goroutine sends them     *)
(* through a stream of the tunnel, which it opens anew when it fails; the   *)
(* control connection's end stops both.                                     *)
(****************************************************************************)
EXTENDS Integers, Sequences, FiniteSets

CONSTANTS
    FrameRoom,        \* genericUDPFrameQueueCapacity
    MaxFrames,        \* bound of the datagrams
    MaxAssociations   \* bound of the streams opened

ASSUME GenericUDPAssumption ==
    FrameRoom \in Nat \ {0} /\ MaxFrames \in Nat /\ MaxAssociations \in Nat

Associations == 1 .. MaxAssociations

VARIABLES
    frames,           \* genericFrames: datagrams by number
    heard,            \* datagrams read so far
    socketLoop,       \* the reader: "reads", "makes_room", "stops", "waits", "gone"
    forwarder,        \* the goroutine: its step, its frame, its stream (active)
    published,        \* genericActive, or 0
    opened,           \* streams opened so far
    pipes,            \* streams whose local pipe is open
    carried,          \* streams that the client has not closed
    delivered,        \* the last frame written
    cancelled         \* genericCtx

genericVars == <<frames, heard, socketLoop, forwarder, published, opened, pipes,
                 carried, delivered, cancelled>>

Forwarding(s, f, a) == [step |-> s, frame |-> f, active |-> a]

GenericInit ==
    /\ frames = <<>> /\ heard = 0 /\ socketLoop = "reads"
    /\ forwarder = Forwarding("idle", 0, 0) /\ published = 0
    /\ opened = 0 /\ pipes = {} /\ carried = {} /\ delivered = 0 /\ cancelled = FALSE

(* enqueueLatestGenericUDPFrame: when the queue is full the oldest goes     *)
ReceiveFrame ==
    /\ socketLoop = "reads" /\ heard < MaxFrames /\ heard' = heard + 1
    /\ IF Len(frames) < FrameRoom
       THEN frames' = Append(frames, heard + 1) /\ UNCHANGED socketLoop
       ELSE socketLoop' = "makes_room" /\ UNCHANGED frames
    /\ UNCHANGED <<forwarder, published, opened, pipes, carried, delivered, cancelled>>

MakeRoom ==
    /\ socketLoop = "makes_room" /\ socketLoop' = "reads"
    /\ frames' = Append(IF frames = <<>> THEN <<>> ELSE Tail(frames), heard)
    /\ UNCHANGED <<heard, forwarder, published, opened, pipes, carried, delivered, cancelled>>

(* The socket fails or is closed with the control connection: the deferred  *)
(* function cancels, closes what is published, and waits.                   *)
CancelForwarder ==
    /\ socketLoop = "reads" /\ socketLoop' = "stops" /\ cancelled' = TRUE
    /\ UNCHANGED <<frames, heard, forwarder, published, opened, pipes, carried, delivered>>

ClosePublished ==
    /\ socketLoop = "stops" /\ socketLoop' = "waits" /\ pipes' = pipes \ {published}
    /\ UNCHANGED <<frames, heard, forwarder, published, opened, carried, delivered, cancelled>>

LoopReturns ==
    /\ socketLoop = "waits" /\ forwarder.step = "exited" /\ socketLoop' = "gone"
    /\ UNCHANGED <<frames, heard, forwarder, published, opened, pipes, carried, delivered, cancelled>>

(* The forwarder waits for a frame or the end, whichever the select takes   *)
TakeFrame ==
    /\ forwarder.step = "idle" /\ frames # <<>>
    /\ frames' = Tail(frames)
    /\ forwarder' = [forwarder EXCEPT !.step = IF forwarder.active # 0 THEN "writes" ELSE "starts",
                                      !.frame = Head(frames)]
    /\ UNCHANGED <<heard, socketLoop, published, opened, pipes, carried, delivered, cancelled>>

SeesTheEnd ==
    /\ forwarder.step = "idle" /\ cancelled /\ forwarder' = [forwarder EXCEPT !.step = "leaves"]
    /\ UNCHANGED <<frames, heard, socketLoop, published, opened, pipes, carried, delivered, cancelled>>

(* startGenericAssociation: no identifier is free, or the stream and its    *)
(* pipe are there                                                           *)
StartAssociation ==
    /\ forwarder.step = "starts"
    /\ \/ forwarder' = [forwarder EXCEPT !.step = "pauses"] /\ UNCHANGED <<opened, pipes, carried>>
       \/ /\ opened < MaxAssociations /\ opened' = opened + 1
          /\ pipes' = pipes \cup {opened + 1} /\ carried' = carried \cup {opened + 1}
          /\ forwarder' = [forwarder EXCEPT !.step = "publishes", !.active = opened + 1]
    /\ UNCHANGED <<frames, heard, socketLoop, published, delivered, cancelled>>

PublishesAnyway ==
    /\ published' = forwarder.active /\ forwarder' = [forwarder EXCEPT !.step = "writes"]
    /\ UNCHANGED <<pipes, carried>>

(* setGenericActive: under its lock it looks for the end                    *)
Publishes ==
    IF cancelled
    THEN /\ pipes' = pipes \ {forwarder.active} /\ carried' = carried \ {forwarder.active}
         /\ forwarder' = [forwarder EXCEPT !.step = "leaves", !.active = 0]
         /\ UNCHANGED published
    ELSE /\ published' = forwarder.active /\ forwarder' = [forwarder EXCEPT !.step = "writes"]
         /\ UNCHANGED <<pipes, carried>>

SetActive ==
    /\ forwarder.step = "publishes" /\ Publishes
    /\ UNCHANGED <<frames, heard, socketLoop, opened, delivered, cancelled>>

(* The write goes through, or fails: the pipe is closed, or nobody reads it *)
(* for genericUDPWriteStallTimeout.                                         *)
WriteFrame ==
    /\ forwarder.step = "writes"
    /\ \/ /\ forwarder.active \in pipes /\ delivered' = forwarder.frame
          /\ forwarder' = [forwarder EXCEPT !.step = "idle", !.frame = 0]
       \/ forwarder' = [forwarder EXCEPT !.step = "fails"] /\ UNCHANGED delivered
    /\ UNCHANGED <<frames, heard, socketLoop, published, opened, pipes, carried, cancelled>>

(* closeGeneric                                                             *)
DropsActive(next) ==
    /\ published' = IF published = forwarder.active THEN 0 ELSE published
    /\ pipes' = pipes \ {forwarder.active} /\ carried' = carried \ {forwarder.active}
    /\ forwarder' = [forwarder EXCEPT !.step = next, !.active = 0]
    /\ UNCHANGED <<frames, heard, socketLoop, opened, delivered, cancelled>>

CloseFailed == forwarder.step = "fails" /\ DropsActive("pauses")
LeaveForwarder == forwarder.step = "leaves" /\ DropsActive("exited")

(* latestGenericUDPFrame: the newest datagram replaces the one that failed  *)
Latest ==
    /\ frames' = <<>>
    /\ forwarder' = [forwarder EXCEPT !.step = "starts",
                         !.frame = IF frames = <<>> THEN @ ELSE frames[Len(frames)]]

(* waitGenericUDPRetry, and another round                                   *)
RetryFrame ==
    /\ forwarder.step = "pauses"
    /\ \/ Latest
       \/ cancelled /\ forwarder' = [forwarder EXCEPT !.step = "leaves"] /\ UNCHANGED frames
    /\ UNCHANGED <<heard, socketLoop, published, opened, pipes, carried, delivered, cancelled>>

(* The tunnel ends the stream: its end of the pipe is closed.               *)
StreamEnds(a) ==
    /\ a \in pipes /\ pipes' = pipes \ {a}
    /\ UNCHANGED <<frames, heard, socketLoop, forwarder, published, opened, carried, delivered, cancelled>>

GenericNext ==
    \/ ReceiveFrame \/ MakeRoom \/ CancelForwarder \/ ClosePublished \/ LoopReturns
    \/ TakeFrame \/ SeesTheEnd \/ StartAssociation \/ SetActive \/ WriteFrame
    \/ CloseFailed \/ LeaveForwarder \/ RetryFrame
    \/ \E a \in Associations : StreamEnds(a)

GenericSpec == GenericInit /\ [][GenericNext]_genericVars
-----------------------------------------------------------------------------
GenericTypeOK ==
    /\ frames \in Seq(1 .. MaxFrames) /\ heard \in 0 .. MaxFrames
    /\ socketLoop \in {"reads", "makes_room", "stops", "waits", "gone"}
    /\ forwarder.step \in {"idle", "starts", "publishes", "writes", "fails", "pauses", "leaves", "exited"}
    /\ forwarder.frame \in 0 .. heard /\ forwarder.active \in 0 .. opened
    /\ published \in 0 .. opened /\ opened \in 0 .. MaxAssociations
    /\ pipes \subseteq carried /\ carried \subseteq 1 .. opened
    /\ delivered \in 0 .. heard /\ cancelled \in BOOLEAN

\* The association has one stream at a time, whatever fails; it leaves none
\* behind; and the end never waits for a write that nothing will fail: what
\* the forwarder writes to was published, and so closed, before the wait.
OneStream ==
    /\ \A a \in carried : forwarder.active = a
    /\ socketLoop = "gone" => carried = {}
    /\ socketLoop \in {"waits", "gone"} /\ forwarder.step = "writes" => forwarder.active \notin pipes

\* A datagram is sent once and never after a newer one, though the queue
\* drops the oldest and a failed one is tried again.
NewestLast ==
    /\ forwarder.frame # 0 => delivered < forwarder.frame
    /\ \A i \in 1 .. Len(frames) : frames[i] > delivered /\ frames[i] > forwarder.frame
    /\ \A i, j \in 1 .. Len(frames) : i < j => frames[i] < frames[j]
=============================================================================
