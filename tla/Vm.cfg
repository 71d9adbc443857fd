SPECIFICATION Spec
CONSTANTS
    Procs = {p1, p2}
    NPAGE = 16
    NPTENTRIES = 2
    KBASE = 6
    VSIZE = 12
    Image = {1, 2}
    Grow = {1, 2, 11}
    MaxPipe = 2
VIEW View
SYMMETRY Alike
CHECK_DEADLOCK FALSE
INVARIANTS
    PagesOwned
    SpaceMapped
PROPERTIES
    NothingLost
