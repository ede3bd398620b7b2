SPECIFICATION Spec
CONSTANTS
    IntMin <- MCIntMin
    IntMax = 7
    Bits = 3
    DimMax = 3
    Depth = 3
    Literals <- MCLiterals
    Baked <- MCBaked
CONSTRAINT UntilWide
INVARIANTS
    LoweredAgrees
    HandedOnAgrees
CHECK_DEADLOCK FALSE
