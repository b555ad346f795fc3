SPECIFICATION FairSpec
CONSTANTS
    Ids = {1, 2}
    Positions <- MCPositions
    Origin = "origin"
    Lines <- MCLines
    maxNOFAgents = 1
    Protocols = {"80211b", "80211a"}
    Disable <- MCDisable
    SelfId = 9
    Parts = 2
    MaxLines = 5
INVARIANT TypeOK
INVARIANT ReplayedOnTime
INVARIANT LowestAgents
INVARIANT PositionsReplayed
INVARIANT LogComplete
PROPERTY GoodTraceCompletes
CHECK_DEADLOCK FALSE
