SPECIFICATION FairSpec
CONSTANTS
    Endpoint = {e1, e2, bad}
    Malformed = {bad}
INVARIANTS
    RoundsDoNotOverlap
    NoFalseDownInCloud
PROPERTIES
    RunnerGoesOnAndEnds
