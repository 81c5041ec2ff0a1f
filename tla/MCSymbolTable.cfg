SPECIFICATION Spec
CONSTANTS
    a = a
    b = b
    c = c
    d = d
    Names <- MCNames
    Hashes <- MCHashes
    TableSize = 3
    MaxParams = 1
    MaxLocals = 3
    MaxDepth = 2
INVARIANTS
    TypeOK
    ChainsUnbroken
    WatermarksOnList
    OverflowOnlyWhenFull
PROPERTIES
    ImplementsScopedMap
    RestoreTerminates
CHECK_DEADLOCK FALSE
