CONSTANTS
    Idle = idle
    Task = {idle, t1, t2}
    Lock = {}
    NumPriorities = 3
    TicksPerTask = 1
    TickRate = 1
    MaxSleep = 2
    CreatePriorities = {1}
    ApiPriorities = {}
    ApiStates = {}
    SleepTimes = {0, 1, 2}
    Ports = {"mega128", "mega2560"}
    IsrSendOn = {"mega2560"}
SPECIFICATION EventsSpec
INVARIANTS
    EventsTypeOK
    NoLostEvent
PROPERTIES
    EventDelivered
    SleepersWake
    RoundRobin
