\* NACKs on, two chunks in flight against a window of one.
CONSTANTS
    SeqMod = 8
    WindowSize = 1
    SendLimit = 2
    NackMaxGap = 1
    MaxDataRetries = 0
    RxCap = 1
    Lag = 4
    MaxData = 2
SPECIFICATION Spec
PROPERTIES
    ImplementsStream
\* A transfer that is over leaves nothing to do.
CHECK_DEADLOCK FALSE
