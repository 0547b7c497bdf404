SPECIFICATION Spec
CONSTANTS
    Limit = 2
    MaxBody = 3
    Statuses = {200, 404, 500}
    ErrorText = 1
INVARIANTS
    TruncationIsMarked
    OneEntryPerExchange
    SuccessIsComplete
    EntryIsConsistent
