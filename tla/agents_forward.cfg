SPECIFICATION Spec
CONSTANTS
    d = d
    Ids = {1, 2}
    Registered = {1}
    Application = "Default"
    Positions <- MCPositions
    Origin = "origin"
    Data = {d}
    MaxObjects = 1
    MaxPackets = 1
INVARIANT ForwardKeepsMessage
CHECK_DEADLOCK FALSE
