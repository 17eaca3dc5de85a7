---------------------------- MODULE MCDispatcher ----------------------------
EXTENDS Dispatcher

Of(t, s, n) == [type |-> t, sid |-> s, sn |-> n]

OrphanReset == {Of("STREAM_RST", 9, 0)}

\* Uploads on every stream but the control stream.
Uploads == {Of("STREAM_DATA", s, 1) : s \in Streams \ {0}}
=============================================================================
