SPECIFICATION Spec
CONSTANTS
    MaxVregs = 8
    MaxLocals = 2
INVARIANTS
    TypeOK
    NoSharing
    SpillsClear
    OnlyLastSlotBelowRsp
    BodyAligned
PROPERTIES
    LocationsStable
