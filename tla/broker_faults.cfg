SPECIFICATION FairSpec
CONSTANTS
    Messages <- MCMessages
    Fragile <- SendOnly
    SimBundles <- WildBundles
    StalePackets = TRUE
    Faults <- AllFaults
    Window = 2
    MaxBundles = 3
    MaxForwards = 1
INVARIANT TypeOK
INVARIANT WakeupExact
INVARIANT QueueOrder
INVARIANT TickNeedsBundle
PROPERTY EofEndsProcess
PROPERTY QueuedIsHandled
CHECK_DEADLOCK FALSE
