CONSTANTS
    Span = 12
    HeaderSize = 3
    MinBlock = 1
    Request = {1, 4}
    Owner = {t1, t2}
    NoOwner = NoOwner
    Nowhere = Nowhere
SPECIFICATION Spec
INVARIANTS
    TypeOK
    HeapTiled
    ChainMerged
    AllocListsExact
PROPERTY
    ImplementsFirstFit
