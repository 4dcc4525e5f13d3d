CONSTANTS
    j1 = j1
    j2 = j2
    j3 = j3
    Ids = {j1, j2, j3}
    Cards <- OneCard
    CardSeats <- TwoSeats
    CardMem <- TwoSeats
    Unit = 2
    MinMem = 1
    Asks <- StormyAsks
    Sizes = {}
    LaunchMayFail = FALSE
    SuspendMayFail = FALSE
    MaxOrder = 5
SPECIFICATION Spec
SYMMETRY Symmetry
INVARIANTS NoGhost
CHECK_DEADLOCK FALSE
