CONSTANTS
    Value = {v1, v2}
    ItemSize = 11
    FifoSizes = {11, 22, 31, 33, 50}
    LifoSizes = {11, 31, 33, 40}
    Nothing = Nothing
SPECIFICATION Spec
INVARIANT
    WritesReachSlots
PROPERTY
    ImplementsStore
