CONSTANTS
    Idle = idle
    Task = {idle, t1, t2, t3}
    Lock = {m}
    NumPriorities = 3
    TicksPerTask = 1
    TickRate = 1
    MaxSleep = 1
    CreatePriorities = {1, 2}
    ApiPriorities = {}
    ApiStates = {}
    SleepTimes = {1}
    Mutex = {m}
    Resources = 1
    MaxCount = 1
    MaxHeld = 1
    StrayUnlocks = TRUE
    NoTask = NoTask
SPECIFICATION MCLocksSpec
INVARIANTS
    LocksTypeOK
    MutualExclusion
    BooksBalance
    NoLostWakeup
    BlockedIsListed
    PriorityReturned
PROPERTY
    FreeLockTaken
