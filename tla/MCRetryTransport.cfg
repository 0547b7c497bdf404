SPECIFICATION FairSpec
CONSTANTS
    Policies <- MCPolicies
    Requests <- MCRequests
INVARIANTS
    WholeBodyEveryAttempt
    NeverRepeated
    ResponsesReleased
    AttemptsBounded
PROPERTIES
    CancelledReturns
