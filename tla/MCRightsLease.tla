---------------------------- MODULE MCRightsLease ----------------------------
(***************************************************************************)
(* Instances of RightsLease for TLC: two suites on one service-account     *)
(* user. The lease identities are interchangeable, and so are the rights.  *)
(***************************************************************************)
EXTENDS RightsLease, TLC

Symmetry == Permutations(Leases) \cup Permutations(Rights)

=============================================================================
