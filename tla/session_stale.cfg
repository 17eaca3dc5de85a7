\* A single resolver, one failing attempt per initialization, and a rescan that
\* finds another operating point.
CONSTANTS
    Racers = {1}
    PathMTUs = {1, 2}
    Ceilings = {0}
    MaxAttempts = 1
    FailLimit = 3
    EscalateAt = 3
    MaxSessions = 1
    MaxFaults = 1
SPECIFICATION EstablishSpec
INVARIANT
    MTUAgreed
CHECK_DEADLOCK FALSE
