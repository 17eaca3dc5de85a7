\* Fair goroutines over a network that may lose everything.
CONSTANTS
    SeqMod = 6
    WindowSize = 1
    SendLimit = 1
    NackMaxGap = 0
    MaxDataRetries = 2
    RxCap = 1
    Lag = 3
    MaxData = 2
SPECIFICATION FairSpec
PROPERTIES
    SettlesUnlessStranded
    DeliversUnlessStranded
\* A transfer that is over leaves nothing to do.
CHECK_DEADLOCK FALSE
