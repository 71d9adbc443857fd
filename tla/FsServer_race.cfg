SPECIFICATION Spec
CONSTANTS
    Proc <- MCProc
    Request <- MCRequest
    Blocking <- MCBlocking
    Result <- MCResult
    Chan <- MCChan
    TtyChan <- MCTty
    NULL = NULL
INVARIANT OnlyCallersSleep
