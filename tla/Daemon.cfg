CONSTANTS
    j1 = j1
    j2 = j2
    j3 = j3
    Ids = {j1, j2, j3}
    Cards <- OneCard
    CardSeats <- TwoSeats
    CardMem <- TwoSeats
    Unit = 2
    MinMem = 1
    Asks <- StormyAsks
    Sizes <- Halves
    LaunchMayFail = TRUE
    SuspendMayFail = TRUE
    MaxOrder = 5
SPECIFICATION Spec
SYMMETRY Symmetry
INVARIANTS TypeOK CardsDivided ViewsAgree RunningRuns WaitsOnce
PROPERTIES ExitedForGood
CHECK_DEADLOCK FALSE
