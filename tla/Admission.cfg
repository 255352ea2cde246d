SPECIFICATION Spec
CONSTANTS
    Workers = {w1, w2, w3}
    Claims = {0, 1, 2}
    Threshold = 3
    MayCall = TRUE
SYMMETRY WorkerSymmetry
INVARIANT ClaimsBound
