---------------------------- MODULE ServerAnswers ----------------------------
(****************************************************************************)
(* What the server puts into its answers (internal/udpserver/               *)
(* server_session.go, session.go): each query of a session is answered with *)
(* one packet of its streams or of the orphan queue, in round robin, or     *)
(* with several control packets in one block, or with a PONG.               *)
(*                                                                          *)
(* Askers are workers that answer queries of the session at the same time.  *)
(* The turn is read under the lock of the record, the streams are looked at *)
(* without it, and the turn is moved on under it again.                     *)
(*                                                                          *)
(* A queue holds at most one packet of a kind: control packets, which have  *)
(* no payload and come first, and data.  FEC is the subject of FECStream.   *)
(****************************************************************************)
EXTENDS Queues, SequencesExt

CONSTANTS
    Streams,           \* ids of streams
    Existing,          \* those that exist from the beginning
    Ending,            \* those that may end
    Carried,           \* kinds of packets of each stream
    Orphaned,          \* whether there are packets of no stream
    Askers,
    MaxPackedBlocks,
    Duplication        \* PacketBlockControlDuplication

ASSUME AnswersAssumption ==
    /\ Streams \subseteq Nat /\ Existing \subseteq Streams /\ Ending \subseteq Streams
    /\ Carried \in [Streams -> SUBSET {"control", "data"}]
    /\ MaxPackedBlocks \in Nat /\ Duplication \in Nat \ {0} /\ Orphaned \in BOOLEAN

OrphanTurn == -1

VARIABLES
    txqs,       \* TXQueue of each stream
    orphanq,    \* whether the orphan queue holds a packet
    activeIDs,  \* ActiveStreams
    ended,      \* streams whose ARQ is closed
    rrStreamID,
    copies,     \* LastPackedControlBlockRemaining
    mu,         \* the asker that packs under the lock of the record, or none
    poll        \* what each asker is at

answerVars == <<txqs, orphanq, activeIDs, ended, rrStreamID, copies, mu, poll>>

NoPoller == 0
Waiting == [at |-> "idle", ids |-> <<>>, turn |-> 0, id |-> 0, blocks |-> <<>>]

AnswersInit ==
    /\ txqs = [s \in Streams |-> {}] /\ orphanq = FALSE
    /\ activeIDs = Existing /\ ended = {}
    /\ rrStreamID = 0 /\ copies = 0 /\ mu = NoPoller
    /\ poll = [p \in Askers |-> Waiting]

Becomes(p, x) == poll' = [poll EXCEPT ![p] = x]
-----------------------------------------------------------------------------
(* dequeueSessionResponse: a copy of the last block, or the turn.           *)
Copy(p) ==
    /\ poll[p].at = "idle" /\ mu = NoPoller /\ copies > 0
    /\ copies' = copies - 1
    /\ UNCHANGED <<txqs, orphanq, activeIDs, ended, rrStreamID, mu, poll>>

ReadTurn(p) ==
    /\ poll[p].at = "idle" /\ mu = NoPoller /\ copies = 0
    /\ activeIDs # {} \/ orphanq
    /\ Becomes(p, [Waiting EXCEPT !.at = "snapshot", !.turn = rrStreamID])
    /\ UNCHANGED <<txqs, orphanq, activeIDs, ended, rrStreamID, copies, mu>>

ActiveInOrder == Ascending(activeIDs)

(* The candidates, from the first whose id is not below the turn.           *)
Candidates(turn) ==
    LET ids == IF orphanq THEN <<OrphanTurn>> \o ActiveInOrder ELSE ActiveInOrder
        above == {i \in DOMAIN ids : ids[i] >= turn}
        first == IF above = {} THEN 1 ELSE CHOOSE i \in above : \A j \in above : i <= j
    IN  SubSeq(ids, first, Len(ids)) \o SubSeq(ids, 1, first - 1)

Snapshot(p) ==
    /\ poll[p].at = "snapshot"
    /\ LET ids == Candidates(poll[p].turn)
       IN  Becomes(p, IF ids = <<>> THEN Waiting
                      ELSE [Waiting EXCEPT !.at = "scan", !.ids = ids])
    /\ UNCHANGED <<txqs, orphanq, activeIDs, ended, rrStreamID, copies, mu>>

(* One candidate, which may have changed since the snapshot.                *)
Scans(p, id) == poll[p].at = "scan" /\ Head(poll[p].ids) = id

PassOver(p) ==
    Becomes(p, IF Len(poll[p].ids) = 1 THEN Waiting
               ELSE [poll[p] EXCEPT !.ids = Tail(@)])

Took(p, id, kind) ==
    Becomes(p, [Waiting EXCEPT !.at = kind, !.id = id])

PopOrphan(p) ==
    /\ Scans(p, OrphanTurn)
    /\ IF orphanq THEN Took(p, OrphanTurn, "control") ELSE PassOver(p)
    /\ orphanq' = FALSE
    /\ UNCHANGED <<txqs, activeIDs, ended, rrStreamID, copies, mu>>

NothingQueued(p) ==
    /\ \E s \in Streams : Scans(p, s) /\ txqs[s] = {}
    /\ PassOver(p)
    /\ UNCHANGED <<txqs, orphanq, activeIDs, ended, rrStreamID, copies, mu>>

(* deactivateStream: a closed stream is looked at no more.                  *)
DeactivateStream(p) ==
    /\ \E s \in ended :
          /\ Scans(p, s) /\ txqs[s] # {}
          /\ txqs' = [txqs EXCEPT ![s] = {}]
          /\ activeIDs' = activeIDs \ ({s} \ {0})
    /\ PassOver(p)
    /\ UNCHANGED <<orphanq, ended, rrStreamID, copies, mu>>

Highest(kinds) == IF "control" \in kinds THEN "control" ELSE "data"

(* Data that was acknowledged meanwhile is dropped.                         *)
PopStream(p) ==
    \E s \in Streams \ ended :
        /\ Scans(p, s) /\ txqs[s] # {}
        /\ LET kind == Highest(txqs[s])
           IN  /\ txqs' = [txqs EXCEPT ![s] = @ \ {kind}]
               /\ Took(p, s, kind) \/ (kind = "data" /\ PassOver(p))
        /\ UNCHANGED <<orphanq, activeIDs, ended, rrStreamID, copies, mu>>
-----------------------------------------------------------------------------
(* The turn moves on, and the answer is sent, or packed.                    *)
\* Mutant: the stream that was served is next again.
TurnStays(id) == id
NextTurn(id) == id + 1

\* Mutant: all blocks go under the stream of the first.
UnderTheFirst(p, id) == poll[p].id
Under(p, id) == id

Block(sid, id) == [sid |-> sid, from |-> id]

ServeAnswer(p) ==
    /\ poll[p].at \in {"control", "data"} /\ mu = NoPoller
    /\ rrStreamID' = NextTurn(poll[p].id)
    /\ IF poll[p].at = "control" /\ MaxPackedBlocks > 1
       THEN /\ mu' = p
            /\ Becomes(p, [poll[p] EXCEPT !.at = "begin",
                             !.blocks = <<Block(poll[p].id, poll[p].id)>>])
       ELSE mu' = mu /\ Becomes(p, Waiting)
    /\ UNCHANGED <<txqs, orphanq, activeIDs, ended, copies>>

(* packControlBlocks: the stream of the first packet, orphans, and the      *)
(* others after it; when the first is an orphan, the streams in order.      *)
PackOrder(id) ==
    LET others == SelectSeq(ActiveInOrder, LAMBDA s : s > id) \o SelectSeq(ActiveInOrder, LAMBDA s : s < id)
        own == IF id \in activeIDs \cup {OrphanTurn} THEN <<id>> ELSE <<>>
    IN  IF id = OrphanTurn THEN own \o ActiveInOrder
        ELSE own \o (IF orphanq THEN <<OrphanTurn>> ELSE <<>>)
                 \o IF id \in activeIDs THEN others ELSE ActiveInOrder

BeginPack(p) ==
    /\ poll[p].at = "begin"
    /\ Becomes(p, [poll[p] EXCEPT !.at = "pack", !.ids = PackOrder(poll[p].id)])
    /\ UNCHANGED <<txqs, orphanq, activeIDs, ended, rrStreamID, copies, mu>>

Packs(p) == poll[p].at = "pack" /\ poll[p].ids # <<>> /\ Len(poll[p].blocks) < MaxPackedBlocks

PackOne(p) ==
    LET id == Head(poll[p].ids)
        has == IF id = OrphanTurn THEN orphanq ELSE "control" \in txqs[id]
    IN  /\ Packs(p)
        /\ Becomes(p, [poll[p] EXCEPT !.ids = Tail(@),
                         !.blocks = IF has THEN Append(@, Block(Under(p, id), id)) ELSE @])
        /\ orphanq' = (orphanq /\ id # OrphanTurn)
        /\ txqs' = IF id = OrphanTurn THEN txqs ELSE [txqs EXCEPT ![id] = @ \ {"control"}]
        /\ UNCHANGED <<activeIDs, ended, rrStreamID, copies, mu>>

(* cachePackedControlBlockDuplicate, for a block of more than one.          *)
Packed(p) ==
    /\ poll[p].at = "pack" /\ ~Packs(p)
    /\ copies' = IF Len(poll[p].blocks) > 1 THEN Duplication - 1 ELSE 0
    /\ mu' = NoPoller
    /\ Becomes(p, Waiting)
    /\ UNCHANGED <<txqs, orphanq, activeIDs, ended, rrStreamID>>
-----------------------------------------------------------------------------
(* The streams, meanwhile.                                                  *)
PushTXPacket ==
    /\ \E s \in activeIDs \ ended : \E k \in Carried[s] \ txqs[s] :
          txqs' = [txqs EXCEPT ![s] = @ \cup {k}]
    /\ UNCHANGED <<orphanq, activeIDs, ended, rrStreamID, copies, mu, poll>>

EnqueueOrphanReset ==
    /\ Orphaned /\ ~orphanq /\ orphanq' = TRUE
    /\ UNCHANGED <<txqs, activeIDs, ended, rrStreamID, copies, mu, poll>>

StreamOpens ==
    /\ \E s \in Streams \ (activeIDs \cup ended) : activeIDs' = activeIDs \cup {s}
    /\ UNCHANGED <<txqs, orphanq, ended, rrStreamID, copies, mu, poll>>

StreamEnds ==
    /\ \E s \in (activeIDs \cap Ending) \ ended : ended' = ended \cup {s}
    /\ UNCHANGED <<txqs, orphanq, activeIDs, rrStreamID, copies, mu, poll>>

RemoveStream ==
    /\ \E s \in ended :
          /\ s \in activeIDs \/ txqs[s] # {}
          /\ activeIDs' = activeIDs \ {s} /\ txqs' = [txqs EXCEPT ![s] = {}]
    /\ UNCHANGED <<orphanq, ended, rrStreamID, copies, mu, poll>>

PollerWorks(p) ==
    \/ Copy(p) \/ ReadTurn(p) \/ Snapshot(p)
    \/ PopOrphan(p) \/ NothingQueued(p) \/ DeactivateStream(p) \/ PopStream(p)
    \/ ServeAnswer(p) \/ BeginPack(p) \/ PackOne(p) \/ Packed(p)

AnswersNext ==
    \/ \E p \in Askers : PollerWorks(p)
    \/ PushTXPacket \/ EnqueueOrphanReset
    \/ StreamOpens \/ StreamEnds \/ RemoveStream
-----------------------------------------------------------------------------
AnswersTypeOK ==
    /\ DOMAIN txqs = Streams /\ \A s \in Streams : txqs[s] \subseteq Carried[s]
    /\ orphanq \in BOOLEAN /\ activeIDs \cup ended \subseteq Streams
    /\ rrStreamID \in {0} \cup {NextTurn(s) : s \in Streams}
    /\ copies \in 0 .. (Duplication - 1) /\ mu \in Askers \cup {NoPoller}
    /\ DOMAIN poll = Askers

\* A block never carries more than it can, nor a packet under the id of another
\* stream, whatever is pushed, and whichever streams come and go, meanwhile.
OwnBlocks ==
    \A p \in Askers :
        /\ Len(poll[p].blocks) <= (IF MaxPackedBlocks > 1 THEN MaxPackedBlocks ELSE 0)
        /\ \A b \in ToSet(poll[p].blocks) : b.sid = b.from

\* Every stream that has something to send is served in the end, and the orphan
\* queue too, though the turn is read and moved on by several at once, streams
\* come and go, and others always have more to send.
StreamsAnswered ==
    /\ \A s \in {t \in Streams : Carried[t] # {}} :
          \/ []<>(txqs[s] = {} \/ s \in ended)
          \/ []<><<txqs[s] \ txqs'[s] # {}>>_answerVars
    /\ []<>~orphanq
=============================================================================
