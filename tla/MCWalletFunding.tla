--------------------------- MODULE MCWalletFunding ---------------------------
(***************************************************************************)
(* Instances of WalletFunding for TLC: four units to one Amulet, and a     *)
(* price that divides no gap evenly beside one that is more than twice it. *)
(***************************************************************************)
EXTENDS WalletFunding

MCPrices == {3, 8}

=============================================================================
