SPECIFICATION MCSpec
CONSTANTS
    Starts = {p1, p2}
    Models = {m1, m2}
    Endpoints = {e1, e2}
    Absent = Absent
    Torn = Torn
    Unread = Unread
    Procs = {q1, q2}
    MaxRecords = 5
    MaxCrashes = 2
    FreshFor = 1
    MaxTime = 2
    MaxChanges = 1
    Contents = {c1, c2}
    Rests = {r1, r2}
    Uncovered = Uncovered
SYMMETRY Symmetry
CHECK_DEADLOCK FALSE
INVARIANT OneKey
INVARIANT RunsWhatWasAgreed
INVARIANT OneFirstPin
INVARIANT RefusalIsCurrent
INVARIANT CatalogIsFresh
INVARIANT OneConversation
INVARIANT AckedSurvive
