SPECIFICATION Spec
CONSTANTS
    Messages <- MCMessages
    Fragile <- NoMessage
    SimBundles <- LockstepBundles
    StalePackets = FALSE
    Faults <- NoFault
    Window = 2
    MaxBundles = 2
    MaxForwards = 1
INVARIANT OutgoingWellFormed
CHECK_DEADLOCK FALSE
