SPECIFICATION FairSpec
CONSTANTS
    Closers <- MCClosers
    ExitCodes <- MCExitCodes
INVARIANTS
    NoOrphan
    ExitCodeIsChilds
    CleanExitIsFlushed
    SinksOutliveTraffic
PROPERTIES
    EndsWhenTold
