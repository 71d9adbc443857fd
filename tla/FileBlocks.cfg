SPECIFICATION FairSpec
CONSTANTS
    NBUF = 6
    Sector <- MCSector
    Index <- MCIndex
    Disk0 <- MCDisk
    NDIRECT = 1
    NINDIRECT = 2
    SB = 1
    BM = 2
    IB = 3
    Blocks <- MCBlocks
    Value = {1, 2}
VIEW View
INVARIANTS
    CacheCoherent
    ReadsBack
    BlocksSound
PROPERTY CallEnds
CHECK_DEADLOCK FALSE
