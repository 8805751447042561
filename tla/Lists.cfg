CONSTANTS
    List = {l1, l2}
    Item = {i1, i2, i3, i4}
    NULL = NULL
SPECIFICATION Spec
INVARIANTS
    TypeOK
    Linked
PROPERTIES
    ImplementsSequences
    OperationsMatch
