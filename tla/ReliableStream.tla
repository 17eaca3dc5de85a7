--------------------------- MODULE ReliableStream ---------------------------
(****************************************************************************)
(* What one direction of a stream promises the two local applications,      *)
(* whatever the tunnel does: the chunks that come out are the chunks that   *)
(* went in, in order, each once; or the stream is given up, and then what   *)
(* came out is still a prefix of what went in, and what was being taken in  *)
(* at that moment is the last to be accepted.                               *)
(****************************************************************************)
EXTENDS Naturals, Sequences

VARIABLES
    sent,       \* number of chunks accepted from the sending application
    received,   \* chunks handed to the receiving application, by number
    given_up,   \* the sender has reset the stream
    taking      \* a chunk is being taken from the sending application

streamVars == <<sent, received, given_up, taking>>

StreamInit == sent = 0 /\ received = <<>> /\ given_up = FALSE /\ taking = FALSE

(* The application is asked for a chunk, until the stream is given up.      *)
Take ==
    /\ ~given_up /\ ~taking
    /\ taking' = TRUE
    /\ UNCHANGED <<sent, received, given_up>>

(* It had one, or it had none.                                              *)
Send ==
    /\ taking /\ taking' = FALSE
    /\ sent' = sent + 1
    /\ UNCHANGED <<received, given_up>>

Withdraw == taking /\ taking' = FALSE /\ UNCHANGED <<sent, received, given_up>>

(* The next n chunks in order, never one that was not sent.                 *)
Deliver ==
    \E n \in 1 .. sent - Len(received) :
        /\ received' = [i \in 1 .. Len(received) + n |-> i - 1]
        /\ UNCHANGED <<sent, given_up, taking>>

GiveUp == ~given_up /\ given_up' = TRUE /\ UNCHANGED <<sent, received, taking>>

StreamNext == Take \/ Send \/ Withdraw \/ Deliver \/ GiveUp

StreamSpec == StreamInit /\ [][StreamNext]_streamVars
=============================================================================
