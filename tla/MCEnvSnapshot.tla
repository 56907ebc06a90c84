--------------------------- MODULE MCEnvSnapshot ---------------------------
(***************************************************************************)
(* Two OAuth2 slots and the SV. The files name a client in compose only,   *)
(* another in the yaml, only an id or a secret there, none for one slot,   *)
(* or cannot be read. One job brings a client and a scope of its own for a *)
(* slot, one a secret alone, as the refusal of env.go advises.             *)
(***************************************************************************)
EXTENDS EnvSnapshot, TLC

MCSlots == {"sv", "a", "b"}
MCTokens == {<<"jwt">>}
MCCiClient == <<"builtin">>

MCDefaultClient == [s \in MCSlots |-> <<s, "validator">>]

Whole(s, client) ==
    Key(s, "id") :> client @@ Key(s, "secret") :> client @@ Key(s, "user") :> client

MCJobEnvs ==
    {<<>>,
     Key("a", "secret") :> <<"mine">>,
     Key("b", "id") :> <<"mine">> @@ Key("b", "secret") :> <<"mine">> @@ Key("b", "scope") :> <<"wide">>}

Compose == Whole("a", <<"a1">>) @@ Whole("b", <<"b1">>)
Ci == Whole("a", <<"ci1">>)
Files(yaml, compose, ci, pqs) ==
    [yaml |-> yaml, compose |-> compose, ci |-> ci, pqs |-> pqs, readable |-> TRUE]
MCConfigs ==
    {Files(<<>>, Compose, <<>>, <<"pw">>),
     Files(Key("a", "id") :> <<"a2">> @@ Key("a", "secret") :> <<"a2">> @@ Key("b", "id") :> <<"b2">>,
           Compose, Ci, <<"pw">>),
     Files(Key("b", "secret") :> <<"b2">>, Whole("a", <<"a1">>), <<>>, <<"pw2">>),
     [Files(<<>>, Compose, <<>>, <<"pw">>) EXCEPT !.readable = FALSE]}

Asked(slots, ci, jwt, offline, party, pqs) ==
    [slots |-> slots, ci |-> ci, jwt |-> jwt, offline |-> offline, party |-> party, pqs |-> pqs]
MCRequests ==
    {Asked(<<"a", "b">>, FALSE, TRUE, FALSE, TRUE, FALSE),
     Asked(<<"b", "a">>, FALSE, FALSE, FALSE, TRUE, TRUE),
     Asked(<<"a">>, TRUE, TRUE, TRUE, FALSE, TRUE),
     Asked(<<"b">>, TRUE, FALSE, FALSE, FALSE, FALSE),
     Asked(<<"a", "sv">>, FALSE, FALSE, FALSE, FALSE, FALSE)}

\* One secret is of two lines that a bare CR parts, one is of two lines and an
\* empty one, one holds what would be taken for an escaped newline.
MCText ==
    [v \in {<<"a1">>, <<"a2">>, <<"b1">>, <<"b2">>, <<"mine">>, <<"builtin">>, <<"ci1">>, <<"pw">>,
           <<"pw2">>} \cup MCTokens |->
        CASE v = <<"a1">> -> <<"x", CR, "y">>
          [] v = <<"pw">> -> <<"u", CR, LF, LF, "v">>
          [] v = <<"ci1">> -> <<"p", PercentOA, "q">>
          [] OTHER -> v]

=============================================================================
