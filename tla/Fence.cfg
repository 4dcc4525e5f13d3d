CONSTANTS
    t1 = t1
    t2 = t2
    Threads = {t1, t2}
    Fds = {0, 1}
    Program <- MCProgram
SPECIFICATION Spec
INVARIANTS FencedOrGone TableAgrees
PROPERTIES StartReturns ProxyCloses
CHECK_DEADLOCK FALSE
