CONSTANTS
    j1 = j1
    j2 = j2
    j3 = j3
    Ids = {j1, j2, j3}
    Cards <- TwoCards
    CardSeats <- TwoSeats
    CardMem <- TwoSeats
    Unit = 2
    MinMem = 1
    Asks <- LiveAsks
    Sizes = {}
    LaunchMayFail = FALSE
    SuspendMayFail = FALSE
    MaxOrder = 3
SPECIFICATION FairSpec
INVARIANTS NoGhost WaitingInLine WaitsForRoom
PROPERTIES QueuedStarts StopEnds
CHECK_DEADLOCK FALSE
