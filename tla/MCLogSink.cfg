SPECIFICATION FairSpec
CONSTANTS
    traffic = traffic
    plain = plain
    health = health
    k1 = k1
    k2 = k2
    Call = {traffic, health}
    Closer = {k1, k2}
    Op <- MCOp
    Messages <- MCMessages
    Size <- MCSize
    Unencodable <- MCUnencodable
    Unbuildable = {}
    RunContext = {health}
    QueueSize = 2
    MaxBatchSize = 2
    MaxBatchBytes = 9
    MaxEventBytes = 5
    EventOverhead = 2
    MaxFlushAttempts = 2
INVARIANTS
    TypeOK
    NothingLostOrReordered
    StoredInOrderOnce
    StoredOrReported
    BatchWithinLimits
    BatchBytesExact
    CloseFlushes
    CallsAccountForEvents
PROPERTIES
    ServiceSpec
    EventuallySettled
    StopEndsWorker
