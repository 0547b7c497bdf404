SPECIFICATION FairSpec
CONSTANTS
    Closers <- MCClosers
    ExitCodes <- MCExitCodes
INVARIANTS
    LaunchersSupported
