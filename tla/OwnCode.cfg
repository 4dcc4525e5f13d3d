CONSTANTS
    a = a
    b = b
    e = e
    l = l
    None = None
    Pipes = {"o", "e"}
    Room = 1
    Buffer = 1
    Calls = {a}
    Locals = {l}
    Earlier = {}
    Kinds = {"line"}
    OthersStop = FALSE
    MaxLines = 0
SPECIFICATION Spec
INVARIANTS OwnCode
CHECK_DEADLOCK FALSE
