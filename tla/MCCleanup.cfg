SPECIFICATION Spec
CONSTANTS
    d1 = d1
    d2 = d2
    f1 = f1
    f2 = f2
    u = u
    d = d
    f = f
    Objects <- MCObjects
    Dirs <- MCDirs
    Inode <- MCInode
    Names <- MCNames
    Paths <- MCPaths
    Layout <- MCLayout
    Root = Root
    Installations = {i1, i2}
    Edits = 2
    None = None
SYMMETRY Symmetry
INVARIANTS RemovedGone InterruptedFinishes
PROPERTIES DeletesRecorded SharedKept
CHECK_DEADLOCK FALSE
