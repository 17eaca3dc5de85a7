SPECIFICATION Spec
CONSTANTS
 Requests = {"q1", "q2", "f1"}
 LaneOf <- Lanes
 Workers = 2
 QueueLimit = 1
 MaxArrivals <- MaxArrivalsOf
 MaxCleanups = 1
 Ids = {1}
 MaxObjects = 2
 MaxStreams = 1
 ClosedCap = 1
 Setups = {1, 2}
 Streams = {0, 1, 2}
 Opened = {0, 2}
 Closing = {1}
 Offered <- Uploads
 OfferedOrphans <- OrphanAck
 MaxPackedBlocks = 2
 PingLimit = 1
 TxCap = 1
INVARIANTS AllTypeOK PendingBalances TrackedHasTask NoTwin ConnOwned ConnectedWorks TableExact NoLostWakeup OwnStream
PROPERTIES QueuedAnswered SessionReleased StreamsServed
CHECK_DEADLOCK FALSE
