SPECIFICATION Spec
CONSTANTS
    t1 = t1
    t2 = t2
    Sessions = {s1, s2}
    Tables = {t1, t2}
    Statements <- Mixed
    MaxStamp = 7
    MaxWork = 1
SYMMETRY Symmetry
CHECK_DEADLOCK FALSE
INVARIANTS ChainSorted GtransStamps HeldIsLive CommittedOnly NoLostUpdate
PROPERTIES SnapshotStable
