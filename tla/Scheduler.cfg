CONSTANTS
    j1 = j1
    j2 = j2
    j3 = j3
    Ids = {j1, j2, j3}
    Cards <- MCCards
    CardSeats <- MCCardSeats
    CardMem <- MCCardMem
    Unit = 4
    MinMem = 1
    Asks <- MCAsks
    Sizes <- MCSizes
    Serviced = {1}
    MaxQueue = 2
    MaxOrder = 4
SPECIFICATION Spec
SYMMETRY Symmetry
INVARIANTS TypeOK SeatsDivided WithinCapacity GangWhole
PROPERTIES PreemptionJustified NoInversion SeatsOwned
