SPECIFICATION Spec
CONSTANTS
    None = None
    Commands = {c1}
    Removers = {r1}
    Inodes = {i1, i2}
    Data = {d1}
    Links = {l1}
    c1 = c1
    r1 = r1
    i1 = i1
    i2 = i2
    d1 = d1
    l1 = l1
SYMMETRY Symmetry
INVARIANTS EvidenceKept RetryCompletes
PROPERTIES FencesMutations ExecutableLast
CHECK_DEADLOCK FALSE
