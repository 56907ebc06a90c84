------------------------------ MODULE MCBringUp ------------------------------
(***************************************************************************)
(* Instances of BringUp for TLC: versions are interchangeable, and so are  *)
(* volumes.                                                                *)
(***************************************************************************)
EXTENDS BringUp, TLC

Symmetry == Permutations(Versions) \cup Permutations(Volumes)

=============================================================================
