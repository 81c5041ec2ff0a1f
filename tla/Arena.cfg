SPECIFICATION Spec
CONSTANTS
    PAGE = 8
    HEADER = 6
    MEMARENA_DEFAULT_SIZE = 8
    DEFAULT_ALIGNMENT = 2
    TOP = 64
    Sizes = {0, 1, 4, 17}
    Aligns = {2, 4}
    MaxObjects = 3
INVARIANTS
    ObjectsApart
    MappedExactly
    WriteXorExecute
PROPERTIES
    ScratchReturned
    ImplementsPool
CHECK_DEADLOCK FALSE
