\* Two processes: a program and its child.
CONSTANTS
    Pids = {p1, p2}
    First = p1
    None = none
    KillBound = 1
SPECIFICATION FairSpec
INVARIANTS SyscallsPaired NobodyLeft
PROPERTIES Resumed
CHECK_DEADLOCK FALSE
