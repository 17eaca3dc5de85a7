\* Five settings at once: see MCARQClose.
CONSTANTS
    MaxData = 2
    Settings <- Ways
SPECIFICATION WaySpec
INVARIANTS
    TypeOK
    ServerLastWord
    DownloadComplete
    HandshakeDelivered
PROPERTIES
    EveryEndCloses
    HandshakeCompletes
\* A stream that has ended leaves nothing to do.
CHECK_DEADLOCK FALSE
