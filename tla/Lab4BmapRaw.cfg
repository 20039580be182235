SPECIFICATION Spec
CONSTANTS
    NumBits = 10
    NumReserved = 3
INVARIANTS
    RawTypeOK
    ScanAgrees
PROPERTIES
    OneBitAStep
    NumbersGrow
