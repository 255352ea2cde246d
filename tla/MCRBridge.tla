----------------------------- MODULE MCRBridge -----------------------------
EXTENDS RBridge

CONSTANTS b1, t1, t2, l1, l2, v1, v2, v3, a1, a2, a3

Protected == <<a1, a2, a3>>
Slots == {t1, t2}
Results == {l1, l2}
Columns3 == {v1, v2, v3}

\* The objects R allocates are interchangeable.
ObjectSymmetry == Permutations(Results) \cup Permutations(Columns3) \cup Permutations(Slots)
=============================================================================
