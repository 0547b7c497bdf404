SPECIFICATION FairSpec
CONSTANTS
    Exchange = {e1, e2}
    Probe = {p1}
    Capacity = 2
    MaxBatch = 2
    MaxTime = 0
    Faulty = TRUE
    None = None
INVARIANTS
    LinesIntact
    LossIsReported
PROPERTIES
    CallsReturn
CHECK_DEADLOCK FALSE
