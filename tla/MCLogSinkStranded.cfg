SPECIFICATION FairSpec
CONSTANTS
    traffic = traffic
    plain = plain
    health = health
    k1 = k1
    k2 = k2
    Call = {traffic}
    Closer = {k1}
    Op <- MCOp
    Messages <- MCMessages
    Size <- MCSize
    Unencodable <- MCUnencodable
    Unbuildable = {}
    RunContext = {}
    QueueSize = 2
    MaxBatchSize = 2
    MaxBatchBytes = 9
    MaxEventBytes = 5
    EventOverhead = 2
    MaxFlushAttempts = 2
INVARIANTS
    NothingStranded
