SPECIFICATION FairSpec
CONSTANTS
    Ids <- MCIds
    Applications = {"Default", "stk", "other"}
    ServerBundles <- MCServerBundles
    Timeout = 3
    GroupHosts = 2
    BaseHosts = 2
    MaxServed = 4
INVARIANT TypeOK
INVARIANT StartedAfterHandshake
INVARIANT OneGroupOwner
INVARIANT OwnAddresses
PROPERTY EndsOrWaits
CHECK_DEADLOCK FALSE
