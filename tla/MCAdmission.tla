----------------------------- MODULE MCAdmission -----------------------------
EXTENDS Admission, TLC

WorkerSymmetry == Permutations(Workers)
=============================================================================
