---------------------------- MODULE MCWaitReady ----------------------------
(***************************************************************************)
(* Three slots, two of them with a PQS pipeline and one of those by        *)
(* default; files that turn everything off, that turn a slot off and give  *)
(* another a new hint, and that do not load.                               *)
(***************************************************************************)
EXTENDS WaitReady

MCSlots == {"sv", "a", "b"}
MCPqsSlots == {"sv", "a"}
MCPqsDefaultSlots == {"a"}
MCHints == MCSlots \cup {"other"}

Empty == <<>>
Keys(set, enabled, hint) ==
    [sound |-> TRUE, set |-> set, enabled |-> enabled, hint |-> hint]

MCFiles ==
    {Keys("pqs" :> FALSE @@ "obs" :> FALSE, "b" :> FALSE, "a" :> "other"),
     Keys("multiSync" :> TRUE, "sv" :> FALSE, Empty)}

Given(auth, obs, multiSync) ==
    [auth |-> auth, obs |-> obs, pqs |-> FALSE, multiSync |-> multiSync]
MCFlags == {Given("oauth2", TRUE, TRUE), Given("secret", FALSE, FALSE)}

Wanting(slot, syncs, pqs) == [slot |-> slot, syncs |-> syncs, pqs |-> pqs]
MCWants ==
    {Wanting("a", TRUE, TRUE), Wanting("sv", TRUE, FALSE), Wanting("b", FALSE, TRUE)}

=============================================================================
