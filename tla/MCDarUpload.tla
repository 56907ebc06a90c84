---------------------------- MODULE MCDarUpload ----------------------------
(***************************************************************************)
(* Two uploads at a time, of two DARs that share a name and a version; one *)
(* gives the id it expects. Two synchronizers, connected or not.           *)
(***************************************************************************)
EXTENDS DarUpload

MCCalls == {"one", "other"}
MCDar == [c \in MCCalls |-> IF c = "one" THEN "dar" ELSE "rival"]

=============================================================================
