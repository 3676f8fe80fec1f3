SPECIFICATION Spec
CONSTANTS
    ToolLimit = 1
    KeepRecent = 1
    MaxCalls = 1
    MaxRequests = 2
    MaxForks = 1
    MaxRestarts = 1
CHECK_DEADLOCK FALSE
INVARIANT DiskFollowsTheRecord
