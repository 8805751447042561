CONSTANTS
    Idle = idle
    Task = {idle, t1, t2}
    Lock = {}
    NumPriorities = 3
    TicksPerTask = 2
    TickRate = 1
    MaxSleep = 2
    CreatePriorities = {1, 3}
    ApiPriorities = {1, 2}
    ApiStates = {"SUSPENDED", "READY", "SLEEPING"}
    SleepTimes = {0, 1, 2}
SPECIFICATION TimingSpec
INVARIANTS
    TypeOK
    QueuesConsistent
    PriorityInRange
    PreemptionBound
PROPERTIES
    DispatchesBest
