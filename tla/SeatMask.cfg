CONSTANTS
    j1 = j1
    j2 = j2
    j3 = j3
    Ids = {j1, j2, j3}
    Card = 0
    Cards = {0}
    CardSeats <- MCCardSeats
    CardMem <- MCCardMem
    Unit = 4
    MinMem = 1
    Topologies <- MCTopologies
    Bursty = {j3}
    Asks <- MCAsks
    Sizes <- MCSizes
    Serviced = {}
    MaxQueue = 1
    MaxOrder = 4
SPECIFICATION MaskSpec
SYMMETRY Symmetry
INVARIANTS MasksApart
