---------------------------- MODULE MCOnboarding ----------------------------
(***************************************************************************)
(* Two validators, the first with two CI users and, sometimes, a PQS       *)
(* script.                                                                 *)
(***************************************************************************)
EXTENDS Onboarding

MCValidators == <<"a", "b">>
MCCiUsers == <<"ci-1", "ci-2">>
MCPqsSlots == <<"a">>

=============================================================================
