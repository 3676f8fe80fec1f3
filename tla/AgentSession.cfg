SPECIFICATION Spec
CONSTANTS
    ToolLimit = 1
    KeepRecent = 1
    InboxCap = 1
    MaxCalls = 1
    MaxSteer = 1
    MaxRequests = 2
CHECK_DEADLOCK FALSE
INVARIANT ContextIsTheRecord
INVARIANT SteeringIsRecorded
PROPERTY RecordIsATranscript
