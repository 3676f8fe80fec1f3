CONSTANTS
    Capacity = 1
    MaxCalls = 2
    MaxGroups = 2
    MaxBuffered = 1
SPECIFICATION Spec
INVARIANTS
    CommandsLeaveNothing
    LiveGroupsAreNoted
PROPERTIES
    ConsentIsForTheCall
    CancelStartsNothing
    CallEnds
    LaterIsTaken
CHECK_DEADLOCK FALSE
