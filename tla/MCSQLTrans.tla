----------------------------- MODULE MCSQLTrans -----------------------------
EXTENDS SQLTrans, TLC

CONSTANTS t1, t2

AllStatements ==
    {"bind_col", "bind_ucol", "bind_del", "count_col", "append_col", "update_col",
     "delete_tab"}

\* Every statement on one table; the other one is appended to.
Mixed == t1 :> AllStatements @@ t2 :> {"append_col"}

Symmetry == Permutations(Sessions)
=============================================================================
