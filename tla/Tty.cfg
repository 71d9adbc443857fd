SPECIFICATION FairSpec
CONSTANTS
    BUFSIZE = 3
    ROWS = 4
    COLS = 2
    VIDEO = 16
    Key <- MCKey
    MaxRead = 2
VIEW View
INVARIANTS
    RingIsQueue
    CursorOnScreen
PROPERTIES
    LineIsRead
