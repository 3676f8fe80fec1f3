SPECIFICATION Spec
CONSTANTS
    ToolLimit = 2
    KeepRecent = 1
    InboxCap = 1
    MaxCalls = 2
    MaxSteer = 1
    MaxRequests = 1
CHECK_DEADLOCK FALSE
INVARIANT TypeOK
INVARIANT JournalClosed
INVARIANT NoOrphanInContext
INVARIANT StreamsArePaidFor
INVARIANT UsageIsOfThisHistory
PROPERTY CancelStops
PROPERTY RequestEnds
