SPECIFICATION Spec
CONSTANTS
    b1 = b1
    t1 = t1
    t2 = t2
    l1 = l1
    l2 = l2
    v1 = v1
    v2 = v2
    v3 = v3
    a1 = a1
    a2 = a2
    a3 = a3
    Nothing = Nothing
    Base = {b1}
    Temp <- Slots
    Lists <- Results
    Vectors <- Columns3
    MaxCols = 2
    MaxFixes = 3
    Caller <- Protected
SYMMETRY ObjectSymmetry
CHECK_DEADLOCK FALSE
INVARIANT VectorBacked
PROPERTY StopIsSafe
