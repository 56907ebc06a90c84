--------------------------- MODULE PackageVetting ---------------------------
(***************************************************************************)
(* What DarUploader promises of an upload (its summaries): it aims at the  *)
(* synchronizers the participant is connected to at one moment, and when   *)
(* it reports success the package version is vetted on all of them: by     *)
(* its own doing on one at least when it says Uploaded; and when it says   *)
(* AlreadyKnown the package it was told to expect is there.                *)
(***************************************************************************)
EXTENDS Naturals

CONSTANTS
    Calls,    \* uploads
    Dars,     \* DARs of one package name and version
    Dar,      \* of an upload: its DAR
    Expects,  \* uploads that give expectedMainPackageId
    Sites     \* synchronizers, or the one the participant takes

VARIABLES
    vetted,    \* pairs of a DAR and a site it is vetted on
    aims,      \* of an upload: the sites it aims at, {} before and after
    accepted,  \* of an upload under way: the sites it had its DAR vetted on
    outcome    \* none, uploaded, known or failed

vars == <<vetted, aims, accepted, outcome>>

KnownOn(site) == \E pair \in vetted : pair[2] = site
Present(dar) == \E pair \in vetted : pair[1] = dar
Open(c) == outcome[c] = "none"

Init ==
    /\ vetted = {}
    /\ aims = [c \in Calls |-> {}]
    /\ accepted = [c \in Calls |-> {}]
    /\ outcome = [c \in Calls |-> "none"]

Aim(c) ==
    /\ Open(c) /\ aims[c] = {}
    /\ \E sites \in (SUBSET Sites) \ {{}} : aims' = [aims EXCEPT ![c] = sites]
    /\ UNCHANGED <<vetted, accepted, outcome>>

\* Whether the upload hears of it or not.
Accept(c) ==
    /\ Open(c)
    /\ \E site \in aims[c] :
        /\ ~KnownOn(site)
        /\ vetted' = vetted \cup {<<Dar[c], site>>}
        /\ accepted' = [accepted EXCEPT ![c] = @ \cup {site}]
    /\ UNCHANGED <<aims, outcome>>

Reports(c, how) ==
    /\ Open(c) /\ outcome' = [outcome EXCEPT ![c] = how]
    /\ aims' = [aims EXCEPT ![c] = {}]
    /\ accepted' = [accepted EXCEPT ![c] = {}]

Succeed(c) ==
    /\ aims[c] # {}
    /\ \A site \in aims[c] : KnownOn(site)
    /\ \/ Reports(c, "uploaded") /\ accepted[c] # {}
       \/ Reports(c, "known") /\ (c \in Expects => Present(Dar[c]))
    /\ UNCHANGED vetted

Fail(c) ==
    /\ Reports(c, "failed")
    /\ UNCHANGED vetted

VetElsewhere ==
    /\ \E dar \in Dars, site \in Sites : vetted' = vetted \cup {<<dar, site>>}
    /\ UNCHANGED <<aims, accepted, outcome>>

Next == (\E c \in Calls : Aim(c) \/ Accept(c) \/ Succeed(c) \/ Fail(c)) \/ VetElsewhere

Spec == Init /\ [][Next]_vars

=============================================================================
