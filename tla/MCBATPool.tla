----------------------------- MODULE MCBATPool -----------------------------
(***************************************************************************)
(* Instances of BATPool for TLC.  The threads do the same things, so they  *)
(* may be exchanged; the slots may not (slot 1 holds the committed bat).   *)
(***************************************************************************)
EXTENDS BATPool

Symmetry == Permutations(Threads)
=============================================================================
