SPECIFICATION Spec
CONSTANTS
    IntMin <- MCIntMin
    IntMax = 7
    Bits = 3
    DimMax = 3
    Depth = 3
    Literals <- MCLiterals
    Baked <- MCBaked
INVARIANT ComputedIsTritons
CHECK_DEADLOCK FALSE
