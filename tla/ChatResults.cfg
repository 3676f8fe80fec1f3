SPECIFICATION Spec
CONSTANTS
    CallIds = {c1, c2}
    MaxLen = 5
    Keeps = {1, 2}
SYMMETRY Symmetry
CHECK_DEADLOCK FALSE
INVARIANT ResultsRightAfterCalls
