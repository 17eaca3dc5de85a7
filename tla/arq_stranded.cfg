\* One chunk: a retransmission overtaken by its own dispatch.
CONSTANTS
    SeqMod = 6
    WindowSize = 1
    SendLimit = 1
    NackMaxGap = 0
    MaxDataRetries = 2
    RxCap = 1
    Lag = 3
    MaxData = 1
SPECIFICATION FairSpec
PROPERTIES
    Settles
\* A transfer that is over leaves nothing to do.
CHECK_DEADLOCK FALSE
