\* Uploads on three streams and an orphan reset: five entries.
CONSTANTS
    Streams = {0, 1, 2, 3}
    Opened = {0, 1, 2, 3}
    Closing = {}
    Offered <- Uploads
    OfferedOrphans <- OrphanReset
    MaxPackedBlocks = 1
    PingLimit = 1
    TxCap = 1
SPECIFICATION FairSpec
PROPERTIES
    StreamsServed
