SPECIFICATION Spec
CONSTANTS
    ToolLimit = 1
    KeepRecent = 1
    MaxCalls = 1
    MaxRequests = 1
    MaxForks = 0
    MaxRestarts = 0
CHECK_DEADLOCK FALSE
INVARIANT DrainTakesWhatWasAdded
