SPECIFICATION Spec
CONSTANTS
    MaxText = 1
    MaxCalls = 1
    MaxArgs = 2
    MaxNoise = 0
CHECK_DEADLOCK FALSE
INVARIANT ToolTurnsAskForTools
