SPECIFICATION Spec
CONSTANTS
 Signatures = {"s", "t"}
 LegacyHigh = 1
 NativeHigh = 3
 MaxActive = 2
 ReuseTTL = 0
 IdleTimeout = 1
 Retention = 1
 MaxSessions = 3
 MaxNow = 2
 Nobody = Nobody ra = ra rb = rb rc = rc rd = rd
 Resolvers = {ra, rb, rc}
 IPv6 = {rc}
 Slow = {rc}
 Policies <- Settings
 Floor = 2
 MinEvents = 1
 Successes = 2
 Pressure = 1
 Slots = {1, 2}
 MaxScans = 1
 Fleet <- ScanOrder
 Family6 = {rc}
 MTUs <- CarriedMTUs
 ScanWorkers = 3
 BackgroundWorkers = 0
 MinValid = 2
 MinPool = 2
 Chain = 2
 Modes <- ScanModes
 MaxStarts = 2
 Lowest = 2
 Highest = 8
 MTUFloor = 3
 Budgets <- ProbeBudgets
 Retries = 2
 Paths = 3
 MTURank <- RankOf
 Strategies <- AllStrategies
 Enough = 2
 HalfLife = 3
 SeedSent = 2
 SeedAcked = 1
 MaxCounter = 6
 Keys = {"k1", "k2", "k3"}
 Responses = {"r"}
 ShardLimit = 2
 CacheTTL = 1
 PendingTimeout = 1
 Stops = 1
 LastTick = 1
 Queries = {"x", "y"}
 Upstreams = {"u", "v"}
 ColdAfter = 2
 NoLead = NoLead
 Asked = 2
 SeqSpace = 1
 Cuts <- CutsOf
 AnswerCut = 2
 Remembers = 2
 EndOfTime = 3
 Tasks = {"a", "b", "c"}
 Merged = {"c"}
 EncodeWorkers = {1}
 WriteWorkers = {1}
 ReadWorkers = {"r"}
 ProcessWorkers = {"p"}
 QueueRoom = 1
 NoTask = ""
 LastQuery = 3
 DNSIDs = {1, 2, 3}
 Timings <- TimingsOf
 LowestTTL = 1
 HighestTTL = 3
 SoftCap = 1
 HardCap = 2
 IgnoresForged = TRUE
 LastMoment = 4
 Senders = {1, 2}
 MaxDials = 2
 ControlRoom = 1
 DataRoom = 1
 Types = 2
 MinSamples = 2
 MaxWeight = 4
 RTTs <- RTTOf
 MaxUses = 4
 Names = {"n", "m"}
 Addresses = {"d", "e"}
 MaxTargets = 1
 IdleAfter = 1
 ReplyRoom = 1
 MaxEndpoints = 2
 LastHour = 1
 FrameRoom = 2
 MaxFrames = 5
 MaxAssociations = 3
INVARIANTS PartsTypeOK SessionTable PoolSound ChoicesRight PathsSound CacheSound AnswersSound
PROPERTY FloorKept
CHECK_DEADLOCK FALSE
