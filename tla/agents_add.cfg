SPECIFICATION Spec
CONSTANTS
    d = d
    Ids = {1, 2}
    Registered = {1}
    Application = "Default"
    Positions <- MCPositions
    Origin = "origin"
    Data = {d}
    MaxObjects = 2
    MaxPackets = 1
PROPERTY AddHonoured
CHECK_DEADLOCK FALSE
