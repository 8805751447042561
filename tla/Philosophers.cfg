CONSTANTS
    Idle = idle
    Task = {idle, p1, p2, p3}
    print = print
    entry = entry
    Lock = {p1, p2, p3, print, entry}
    Mutex = {p1, p2, p3, print}
    NumPriorities = 2
    TicksPerTask = 1
    TickRate = 1
    MaxSleep = 1
    CreatePriorities = {1}
    ApiPriorities = {}
    ApiStates = {}
    SleepTimes = {1}
    Resources = 2
    MaxCount = 3
    MaxHeld = 3
    StrayUnlocks = FALSE
    NoTask = NoTask
SPECIFICATION PhilosophersSpec
INVARIANTS
    NoDeadlock
    SeatsBalance
