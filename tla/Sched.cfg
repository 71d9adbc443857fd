SPECIFICATION FairSpec
CONSTANTS
    Proc <- MCProc
    Tasks <- MCTasks
    initproc = 4
    TaskPriority = 4
    UserPriority = 3
    CounterMax = 15
INVARIANTS
    TypeOK
    CreditLeft
    ScheduleEnds
PROPERTIES
    NoStarvation
