SPECIFICATION Spec
CONSTANTS
    MaxText = 1
    MaxCalls = 2
    MaxArgs = 2
    MaxNoise = 1
CHECK_DEADLOCK FALSE
INVARIANT UsageIsTheCount
INVARIANT CallsRunInOrder
INVARIANT PatienceIsBounded
PROPERTY TurnIsTheAnswer
PROPERTY AskEnds
