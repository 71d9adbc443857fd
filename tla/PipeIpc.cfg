\* A pipeline ends when its processes have closed their ends.
SPECIFICATION PipeFairSpec
CONSTANTS
    Proc <- MCProc
    Writers <- MCWriters
    Readers <- MCReaders
    PIPESIZE = 2
    CHUNK = 2
    MaxBytes = 2
    Request <- PipeRequest
    Blocking <- PipeBlocking
    Result <- PipeResult
    Chan <- PipeChan
    TtyChan <- MCNoTty
    NULL = NULL
VIEW View
INVARIANTS
    PipeTypeOK
    BytesOnceInOrder
    NoLostWakeup
PROPERTIES
    ImplementsFsServer
    PipelineFinishes
CHECK_DEADLOCK FALSE
