SPECIFICATION Spec
CHECK_DEADLOCK FALSE
CONSTANTS
    Parts = {"settings"}
    Capture <- MCCapture
    Hash <- MCHash
    ShardIndex = 0
    ShardCount = 2
    MaxConcurrency = 2
    FailOnEmpty = TRUE
    MaxDiskFaults = 1
    Consumers = {c1, c2}
    FeedBuffer = 1
    FeedBatch = 2
    MaxAcks = 1
    Engines = {"builtin", "ghz", "k6"}
    EngineWorkers = {w1, w2}
    Window = 1
    StreamBuffer = 1
    Versions = {1, 2, 3}
    BadVersions = {2}
    Processes = {1, 2, 3}
    Timers = {1, 2}
    ShardCounts = {2, 3}
    MaxPreshards = 2
    PreBatch = 2
    LastDay = 2
    Recorded <- MCRecorded
    LoadTestSpecs <- MCSpecs
    EditedSpecs <- MCEdited
    LayoutCount = 2
    LayoutDay = 9
    Day <- MCDay
    MaxSpecEdits = 1
INVARIANT LimitPerShard
