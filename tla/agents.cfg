SPECIFICATION Spec
CONSTANTS
    d = d
    Ids = {1, 2}
    Registered = {1}
    Application = "Default"
    Positions <- MCPositions
    Origin = "origin"
    Data = {d}
    MaxObjects = 2
    MaxPackets = 2
INVARIANT TypeOK
INVARIANT RegistryOwnsObjects
INVARIANT PositionTracks
INVARIANT SetPositionHasNode
INVARIANT DeliveredToAddressee
PROPERTY StaysBound
CHECK_DEADLOCK FALSE
