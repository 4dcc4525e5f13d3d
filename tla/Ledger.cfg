CONSTANTS
    a = a
    b = b
    Jobs = {a, b}
    MaxSlots = 2
    Cuts = {"nothing", "half", "unterminated"}
    MaxIv = 3
    MaxClock = 2
SPECIFICATION Spec
SYMMETRY Symmetry
INVARIANTS TypeOK NeverOvercounts ExactWhenQuiet SyncedKept
CHECK_DEADLOCK FALSE
