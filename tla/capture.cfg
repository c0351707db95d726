SPECIFICATION Spec
CONSTANTS
    r1 = r1
    r2 = r2
    Requests = {r1, r2}
    GRPC = {r2}
    Backends = {"s3", "fs"}
    QueueSize = 1
    BatchSize = 2
    MaxFailures = 1
    MaxStarts = 2
    MaxDays = 2
INVARIANTS
    StoredAsRecorded
PROPERTIES
    ImplementsLog
    AcceptedIsStored
    ShutdownEnds
