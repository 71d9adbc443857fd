SPECIFICATION Spec
CONSTANTS
    Procs = {p1, p2}
    Inum = {1, 2, 3}
    Dirs = {1, 2}
    Page = {g1, g2}
    NFILE = 3
    NOFILE = 2
    NINODE = 2
    MaxLost = 1
VIEW View
SYMMETRY Alike
CHECK_DEADLOCK FALSE
INVARIANTS
    FilesCounted
    PipesOwned
    InodesHeld
