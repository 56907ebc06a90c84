---------------------------- MODULE MCRightsPrune ----------------------------
(***************************************************************************)
(* Instances of RightsPrune for TLC: a user with the three base rights on  *)
(* its own party and an act-as right a suite leaked, and policies that     *)
(* preserve either party.                                                  *)
(***************************************************************************)
EXTENDS RightsPrune

MCParties == {"own", "suite"}
MCRights == {[kind |-> "admin", party |-> ""], [kind |-> "actas", party |-> "own"],
             [kind |-> "readas", party |-> "own"], [kind |-> "actas", party |-> "suite"]}

=============================================================================
