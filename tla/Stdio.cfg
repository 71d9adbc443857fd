SPECIFICATION Spec
CONSTANTS
    MORE = 4
    PAGEUNITS = 2
    LIMIT = 10
    BUFSIZ = 2
    BufUnits = 2
    Want = {2, 5}
    MaxMine = 1
    MaxChars = 3
VIEW View
CHECK_DEADLOCK FALSE
INVARIANTS
    HeapTiled
    StreamsInOrder
