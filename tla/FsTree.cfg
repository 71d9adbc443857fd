SPECIFICATION Spec
CONSTANTS
    Users = {1}
    Inum = {1, 2, 3}
    Block = {1, 2, 3}
    NSLOT = 4
    Name <- MCName
    Path <- MCPath
CONSTRAINTS LastEntryErased FewLeaks FewMiscounts
VIEW View
INVARIANTS
    LinksCovered
    DirTree
    BlocksOwned
    HeldIsLive
