SPECIFICATION Spec
CONSTANTS
    d = d
    Ids = {1, 2}
    Registered = {1}
    Application = "stk"
    Positions <- MCPositions
    Origin = "origin"
    Data = {d}
    MaxObjects = 1
    MaxPackets = 1
INVARIANT SetPositionHasNode
CHECK_DEADLOCK FALSE
