SPECIFICATION StoreSpec
CONSTANTS
    Procs = {p1}
    MaxRecords = 4
    MaxCrashes = 1
CHECK_DEADLOCK FALSE
INVARIANT WorstCaseIsTheLastTurn
