CONSTANTS
    t1 = t1
    t2 = t2
    Threads = {t1, t2}
    Ptrs = {1, 3, 4, 5}
    Sizes = {1, 2, 7}
    Limits = {0, 4}
    Room = 6
    Word = 8
    MAP = 3
SPECIFICATION Spec
SYMMETRY Symmetry
INVARIANTS CapHeld CountExact
