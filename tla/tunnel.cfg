SPECIFICATION Spec
CONSTANTS
 Units = {1, 2}
 Pollers = {"p"}
 BlockSize = 2
 MaxShards = 4
 BaseParity = 1
 MaxParity = 1
 SuperParity = 2
 Threshold = 10
 SuperFloor = 60
 SuperCeil = 80
 CleanWindows = 2
 MaxTracked = 1
 MaxWindows = 4
 MaxResends = 1
 Losses = {0, 20, 70, 90}
 Racers = {1, 2}
 PathMTUs = {1}
 Ceilings = {0, 1}
 MaxAttempts = 2
 FailLimit = 2
 EscalateAt = 2
 MaxSessions = 1
 MaxFaults = 2
 Streams = {0, 1, 2}
 Existing = {0, 1}
 Ending = {2}
 Carried <- CarriedBy
 Orphaned = TRUE
 Askers = {1, 2}
 MaxPackedBlocks = 2
 Duplication = 2
 Readers = {1, 2}
 DNSWorkers = {1}
 ControlLane = 1
 DataLane = 3
 ControlBurst = 2
 Conns = {1, 2, 3, 4, 5}
 Listener <- ListenerOf
 IPOf <- AddressOf
 MaxConns = 3
 PerIP = 1
 Configured = 0
 Requests = {1, 2, 3}
 Clients = {"x", "y"}
 Rate = 1
 Burst = 2
 ForgetAfter = 2
 SweepEvery = 1
 MaxBuckets = 1
 MaxInflight = 2
 BodyLimit = 2
 MaxBytes = 3
 LastTick = 4
 Cookies = {"j", "k"}
 Window = 2
 ErrorThreshold = 2
 MaxRecords = 1
 Logins = {"p", "q"}
 LoginWindow = 2
 MaxFailures = 2
 BaseBan = 2
 MaxBan = 3
 DecayAfter = 3
 PurgeEvery = 1
 LastMinute = 6
 Locals = {1, 2}
 Socks = {1}
 HTTP = {1}
 Processors = {"p", "q"}
 MaxStreamID = 2
 MaxActive = 1
 MaxRestarts = 1
INVARIANTS TunnelTypeOK TunnelSound EndsSound
PROPERTIES ClientReconnects PacketsServed
CHECK_DEADLOCK FALSE
