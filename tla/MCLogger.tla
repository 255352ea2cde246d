------------------------------ MODULE MCLogger ------------------------------
EXTENDS Logger

\* The names of the columns are alike.
Symmetry == Permutations(Names)
=============================================================================
