SPECIFICATION Spec
CONSTANTS
    c1 = c1
    c2 = c2
    c3 = c3
    Call = {c1, c2, c3}
    Data <- MCData
    Closer = {k1, k2}
    QueueSize = 1
    MaxBatchSize = 2
INVARIANTS
    NilIsKept
PROPERTIES
    ServiceSpec
