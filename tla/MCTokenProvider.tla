--------------------------- MODULE MCTokenProvider ---------------------------
(***************************************************************************)
(* Instances of TokenProvider for TLC. One lifetime lies within            *)
(* RefreshSkew (such a token is never fresh) and one lies beyond it.       *)
(***************************************************************************)
EXTENDS TokenProvider

MCLifetimes == {1, 2}

=============================================================================
