\* Keys wake every sleeper in the end; nothing else may stop.
SPECIFICATION FairSpec
CONSTANTS
    Proc <- MCProc
    Request <- MCRequest
    Blocking <- MCBlocking
    Result <- MCResult
    Chan <- MCTty
    TtyChan <- MCTty
    NULL = NULL
INVARIANTS
    TypeOK
    NoCallLost
    ReplyMatches
    NoPanic
PROPERTIES
    ImplementsRpc
    CallReturns
