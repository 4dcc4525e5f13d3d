CONSTANTS
    a = a
    b = b
    e = e
    l = l
    None = None
    Pipes = {"o", "e"}
    Room = 1
    Buffer = 1
    Calls = {a}
    Locals = {l}
    Earlier = {e}
    Kinds = {"line", "long"}
    OthersStop = TRUE
    MaxLines = 2
SPECIFICATION FairSpec
INVARIANTS TypeOK TapOnce AllSent
PROPERTIES Answered TakenAlong
CHECK_DEADLOCK FALSE
