SPECIFICATION Spec
CONSTANTS
    Messages <- MCMessages
    Fragile <- NoMessage
    SimBundles <- LockstepBundles
    StalePackets = FALSE
    Faults <- CloseOnly
    Window = 2
    MaxBundles = 2
    MaxForwards = 0
INVARIANT EofHandled
CHECK_DEADLOCK FALSE
