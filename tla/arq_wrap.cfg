\* The wire numbers wrap: seven chunks under six numbers.
CONSTANTS
    SeqMod = 6
    WindowSize = 1
    SendLimit = 1
    NackMaxGap = 0
    MaxDataRetries = 0
    RxCap = 1
    Lag = 3
    MaxData = 7
SPECIFICATION Spec
INVARIANTS
    TypeOK
    InOrder
    NoChunkLost
    WindowRespected
    SpanBounded
    IInv
\* A transfer that is over leaves nothing to do.
CHECK_DEADLOCK FALSE
