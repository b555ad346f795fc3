SPECIFICATION SysFairSpec
CONSTANTS
    Messages <- MCMessages
    Fragile <- MCFragile
    SimBundles <- MCSimBundles
    StalePackets = TRUE
    Faults <- NoFault
    Window = 1
    MaxBundles = 4
    MaxForwards = 8
    Ids = {1, 2}
    Registered = {1}
    Application = "Default"
    Positions <- MCPositions
    Origin = "origin"
    Data = {"d"}
    MaxObjects = 5
    MaxPackets = 8
INVARIANT OneReplyPerTick
INVARIANT InStep
PROPERTY TickAnswered
PROPERTY ImplementsBarrier
CHECK_DEADLOCK FALSE
