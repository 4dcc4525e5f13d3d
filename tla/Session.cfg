CONSTANTS
    h1 = h1
    h2 = h2
    red = red
    blue = blue
    Torn = torn
    N = 1
    Contents = {red, blue}
    Handlers = {h1, h2}
    MaxEdits = 1
    MaxWrites = 3
SPECIFICATION Spec
SYMMETRY Symmetry
INVARIANTS Delivered CacheTrue SyncExact
CHECK_DEADLOCK FALSE
