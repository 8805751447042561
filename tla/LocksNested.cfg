CONSTANTS
    Idle = idle
    Task = {idle, t1, t2, t3}
    Lock = {m, n}
    NumPriorities = 3
    TicksPerTask = 1
    TickRate = 1
    MaxSleep = 1
    CreatePriorities = {1, 2}
    ApiPriorities = {}
    ApiStates = {}
    SleepTimes = {1}
    Mutex = {m, n}
    Resources = 1
    MaxCount = 1
    MaxHeld = 2
    StrayUnlocks = FALSE
    NoTask = NoTask
SPECIFICATION LocksSpec
INVARIANTS
    BlockedIsListed
