\* The memory task may be left asleep for good.
SPECIFICATION FairSpec
CONSTANTS
    Proc <- MCProc
    initproc = 4
    Ops <- MCAll
    NULL = NULL
    MaxPid = 4
VIEW View
INVARIANTS
    NoMissedChild
    ParentAlive
    WaitReturnsOwnChild
    NoCallLost
PROPERTY ZombiesReaped
CHECK_DEADLOCK FALSE
