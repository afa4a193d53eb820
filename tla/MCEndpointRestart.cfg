CONSTANTS
    Daemons = {d1, d2}
    Clients = {c1, c2}
    Inodes = {i1, i2}
    None = None
SPECIFICATION Spec
INVARIANTS RestartOnNextUse
CHECK_DEADLOCK FALSE
