-------------------------- MODULE MCPartyAllocation --------------------------
(***************************************************************************)
(* An instance of PartyAllocation for TLC: its two calls have one hint or  *)
(* two.                                                                    *)
(***************************************************************************)
EXTENDS PartyAllocation

=============================================================================
