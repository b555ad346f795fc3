SPECIFICATION Spec
CONSTANTS
    Messages <- MCMessages
    Fragile <- NoMessage
    SimBundles <- SplitBundles
    StalePackets = FALSE
    Faults <- NoFault
    Window = 2
    MaxBundles = 2
    MaxForwards = 0
INVARIANT ReplyOnlyWhenReady
CHECK_DEADLOCK FALSE
