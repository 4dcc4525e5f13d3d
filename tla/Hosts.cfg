CONSTANTS
    me = me
    j1 = j1
    j2 = j2
    c1 = c1
    c2 = c2
    Ids = {me, j1, j2}
    Mine = me
    Cards <- MCCards
    CardSeats <- MCCardSeats
    CardMem <- MCCardMem
    Unit = 4
    MinMem = 1
    HostCards <- MCHostCards
    MyAsks <- MCMyAsks
    LocalAsks <- MCLocalAsks
    Commands = {c1, c2}
SPECIFICATION HostsSpec
SYMMETRY Symmetry
INVARIANTS DefaultListed MostRoom
CHECK_DEADLOCK FALSE
