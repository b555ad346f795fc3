SPECIFICATION Spec
CONSTANTS
    Msgs <- MCMsgs
    Typed <- MCTyped
    Heads <- MCHeads
    Batches <- MCBatches
INVARIANT RoundTrip
CHECK_DEADLOCK FALSE
