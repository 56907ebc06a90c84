----------------------------- MODULE MCActionJob -----------------------------
(***************************************************************************)
(* Instances of ActionJob for TLC: a slot with a PQS pipeline and one      *)
(* without, both needed for multi-sync.                                    *)
(***************************************************************************)
EXTENDS ActionJob

MCSlots == {"a", "d"}
MCPqsSlots == {"a"}

=============================================================================
