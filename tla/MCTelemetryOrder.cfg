SPECIFICATION Spec
CONSTANTS
    Exchange = {e1, e2}
    Probe = {}
    Capacity = 2
    MaxBatch = 2
    MaxTime = 1
    Faulty = FALSE
    None = None
INVARIANTS
    SentIsStored
CHECK_DEADLOCK FALSE
