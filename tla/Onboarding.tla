----------------------------- MODULE Onboarding -----------------------------
(***************************************************************************)
(* The splice-onboarding container (compose/modules/splice-onboarding, in  *)
(* oauth2 mode): its health check is the script that onboards. Docker runs *)
(* it again and again, kills it when it takes too long, and calls the      *)
(* container healthy when it exits with 0; Scribes wait for that. What a   *)
(* check has done is in the participants and in keycloak, on volumes; what *)
(* it has finished is marked in the container's /tmp, which a new          *)
(* container does not have.                                                *)
(*                                                                         *)
(* A check is a sequence of sections, each of them a sequence of calls.    *)
(***************************************************************************)
EXTENDS Naturals, Sequences, Functions

CONSTANTS
    Validators,   \* sequence: those whose profile is on
    CiValidator,  \* a-validator-1, which has the CI users
    CiUsers,      \* sequence: their names
    PqsSlots,     \* sequence: those that may have a PQS script, as ls has them
    MaxFaults,    \* bound: failed calls and killed checks
    MaxStarts     \* bound: restarts of the container, downs and ups

ASSUME OnboardingAssumption ==
    /\ CiValidator \in Range(Validators)
    /\ Range(PqsSlots) \subseteq Range(Validators)
    /\ Validators \in Seq(Range(Validators)) /\ PqsSlots \in Seq(Range(PqsSlots))
    /\ CiUsers \in Seq(Range(CiUsers)) /\ CiUsers # <<>>
    /\ {"participant_admin", "pqs"} \cap Range(CiUsers) = {}
    /\ {MaxFaults, MaxStarts} \subseteq Nat

VARIABLES
    present,  \* users the participants know, apart from those Splice needs
    rights,   \* pairs of a user and a right
    realm,    \* the realm has the CI clients and their users
    pqs,      \* slots whose script is in the container
    markers,  \* sections that are marked as done
    healthy,  \* docker's opinion of the container
    section,  \* where the check is; 0 between two checks
    call,
    token,    \* validators whose admin token this check has
    party,    \* validators whose operator's party this check has
    code,     \* the status create_user and delete_user go by
    orphans,  \* requests of killed checks that may still be served
    scribes,  \* slots whose Scribe runs
    begun,    \* slots whose Scribe container exists
    faults, starts

volumes == <<present, rights, realm>>
check == <<section, call, token, party, code>>
container == <<pqs, markers, healthy>>
scribing == <<scribes, begun>>
onboarding == <<volumes, check, container, orphans, scribing, faults, starts>>

----------------------------------------------------------------------------
(* The scripts.                                                            *)

User(slot, name) == <<slot, name>>
Pqs(slot) == User(slot, "pqs")
Admin(slot) == User(slot, "participant_admin")
Keycloak == User(CiValidator, "admin-cli")
CiUser(i) == User(CiValidator, CiUsers[i])
Cis == {CiUser(i) : i \in DOMAIN CiUsers}

CiRights == {"ParticipantAdmin", "ReadAs", "ActAs"}
PqsRights == {"ReadAs", "ReadAsAnyParty"}
Granted(user) == IF user \in Cis THEN CiRights ELSE PqsRights

Call(op, user) == [op |-> op, user |-> user]

\* create_user asks for the user first; so does delete_user.
Onboard(user) == <<Call("look", user), Call("create", user), Call("grant", user)>>
Delete(user) == <<Call("look", user), Call("delete", user)>>

OnboardAll ==
    [k \in 1 .. 3 * Len(CiUsers) |-> Onboard(CiUser(((k - 1) \div 3) + 1))[((k - 1) % 3) + 1]]

Section(name, slot) == [name |-> name, slot |-> slot]
ValidatorSections == <<"auth", "cleanup", "migrate", "ci", "dars">>

Calls(s) ==
    LET validator == User(s.slot, "validator") IN
    CASE s.name = "auth" -> <<Call("token", validator), Call("party", validator)>>
      [] s.name = "cleanup" ->
            <<Call("update", User(s.slot, "wallet")), Call("update", validator)>>
            \o Delete(Admin(s.slot))
      [] s.name = "migrate" -> <<Call("login", Keycloak), Call("import", Keycloak)>>
      [] s.name = "ci" -> OnboardAll
      [] s.name = "dars" -> <<Call("discover", validator)>>
      [] s.name = "script" -> Onboard(Pqs(s.slot))

Program ==
    [k \in 1 .. 5 * Len(Validators) |->
        Section(ValidatorSections[((k - 1) % 5) + 1], Validators[((k - 1) \div 5) + 1])]
    \o [k \in DOMAIN PqsSlots |-> Section("script", PqsSlots[k])]

AllDone == Section("all-done", CiValidator)

Current == Program[section]

\* One validator has the CI clients; a script may not be in the container.
Missing(s) ==
    \/ s.name \in {"migrate", "ci"} /\ s.slot # CiValidator
    \/ s.name = "script" /\ s.slot \notin pqs
Skipped(s) == s \in markers \/ Missing(s)
InSection == section \in DOMAIN Program /\ ~Skipped(Current)
Sent == Calls(Current)[call]
Requested(c) ==
    [op |-> c.op, user |-> c.user, token |-> Current.slot \in token, party |-> Current.slot \in party]
Request == Requested(Sent)

----------------------------------------------------------------------------
(* The start.                                                              *)

\* Volumes of splice itself, or those of a release before the CI users, whose
\* PQS users could read as one party only.
OnboardingInit ==
    /\ \/ /\ present = {Admin(s) : s \in Range(Validators)}
          /\ rights = {} /\ realm = TRUE
       \/ /\ present = {Pqs(s) : s \in Range(PqsSlots)}
          /\ rights = {<<Pqs(s), "ReadAs">> : s \in Range(PqsSlots)} /\ realm = FALSE
    /\ pqs \in SUBSET Range(PqsSlots)
    /\ markers = {} /\ healthy = FALSE
    /\ section = 0 /\ call = 1 /\ token = {} /\ party = {} /\ code = "none"
    /\ orphans = {}
    /\ scribes = {} /\ begun = {}
    /\ faults = 0 /\ starts = 0

----------------------------------------------------------------------------
(* External: the participants and keycloak.                                *)

Accepted(r) ==
    CASE r.op \in {"token", "login", "import"} -> TRUE
      [] r.op \in {"party", "look", "discover"} -> r.token
      [] r.op = "update" -> r.token /\ r.party
      [] r.op = "create" -> r.token /\ r.user \notin present
      [] r.op = "grant" -> r.token /\ r.party /\ r.user \in present
      [] r.op = "delete" -> r.token /\ r.user \in present

\* Without a party a user is created all the same, without a primary one.
Served(r) ==
    /\ present' = CASE r.op = "create" -> present \cup {r.user}
                    [] r.op = "delete" -> present \ {r.user}
                    [] OTHER -> present
    /\ rights' = IF r.op = "grant" THEN rights \cup ({r.user} \X Granted(r.user)) ELSE rights
    /\ realm' = (realm \/ r.op = "import")

----------------------------------------------------------------------------
(* The check.                                                              *)

Knows(t, p, c) == token' = t /\ party' = p /\ code' = c

Exits ==
    /\ section' = 0 /\ call' = 1 /\ Knows({}, {}, "none")
    /\ UNCHANGED markers

\* The next call, or the mark and the next section.
Advance ==
    IF call < Len(Calls(Current))
    THEN call' = call + 1 /\ UNCHANGED <<section, markers>>
    ELSE /\ section' = section + 1 /\ call' = 1
         /\ markers' = IF Current.name = "auth" THEN markers ELSE markers \cup {Current}

Checks == UNCHANGED <<pqs, healthy, scribing, starts>>

Begin ==
    /\ section = 0 /\ ~healthy
    /\ IF AllDone \in markers
       THEN healthy' = TRUE /\ UNCHANGED section
       ELSE section' = 1 /\ UNCHANGED healthy
    /\ UNCHANGED <<volumes, call, token, party, code, pqs, markers, orphans, scribing, faults, starts>>

Skip ==
    /\ section \in DOMAIN Program /\ Skipped(Current)
    /\ section' = section + 1
    /\ UNCHANGED <<volumes, call, token, party, code, markers, orphans, faults>> /\ Checks

\* Fault: rights are granted to users that are new only.
OmittedForKnown ==
    \/ Sent.op \in {"create", "grant"} /\ code # "404"
    \/ Sent.op = "delete" /\ code # "200"

\* Fault: a user is created without asking for it first.
OmittedNever == Sent.op = "delete" /\ code # "200"

Omitted ==
    \/ Sent.op = "create" /\ code # "404"
    \/ Sent.op = "delete" /\ code # "200"

Omit ==
    /\ InSection /\ Omitted
    /\ Advance
    /\ UNCHANGED <<volumes, token, party, code, orphans, faults>> /\ Checks

\* Fault: the scripts go on after any failure (no set -e).
GoesOnRegardless ==
    CASE Sent.op = "token" -> Advance /\ Knows(token \ {Current.slot}, party, code)
      [] Sent.op = "party" -> Advance /\ Knows(token, party \ {Current.slot}, code)
      [] Sent.op = "look" -> Advance /\ Knows(token, party, "other")
      [] OTHER -> Advance /\ Knows(token, party, code)

\* `export X=$(...)` hides that the command failed, and what comes back of a
\* request without an answer is a status like any other.
GoesOnWithout ==
    CASE Sent.op = "token" -> Advance /\ Knows(token \ {Current.slot}, party, code)
      [] Sent.op = "party" -> Advance /\ Knows(token, party \ {Current.slot}, code)
      [] Sent.op = "look" -> Advance /\ Knows(token, party, "other")
      [] OTHER -> Exits

Answered ==
    /\ InSection /\ ~Omitted /\ Accepted(Request)
    /\ Served(Request)
    /\ Advance
    /\ CASE Sent.op = "token" -> Knows(token \cup {Current.slot}, party, code)
         [] Sent.op = "party" -> Knows(token, party \cup {Current.slot}, code)
         [] Sent.op = "look" ->
                Knows(token, party, IF Sent.user \in present THEN "200" ELSE "404")
         [] OTHER -> Knows(token, party, code)
    /\ UNCHANGED <<orphans, faults>> /\ Checks

Refused ==
    /\ InSection /\ ~Omitted /\ ~Accepted(Request)
    /\ GoesOnWithout
    /\ UNCHANGED <<volumes, orphans, faults>> /\ Checks

Fault == faults < MaxFaults /\ faults' = faults + 1

\* Another status or none, whether the request was served or not.
CallFails ==
    /\ InSection /\ ~Omitted /\ Fault
    /\ \/ Accepted(Request) /\ Served(Request)
       \/ UNCHANGED volumes
    /\ GoesOnWithout
    /\ UNCHANGED orphans /\ Checks

\* The calls up to last that may yet be served.
CutOff(last) ==
    \/ UNCHANGED orphans
    \/ /\ InSection /\ ~Omitted
       /\ LET sent == {Requested(Calls(Current)[k]) : k \in call .. last}
          IN orphans' = orphans \cup {r \in sent : r.op \in {"create", "grant", "delete", "import"}}

\* The last call of what outlives a check that is killed: its curl, or the whole
\* of a PQS script, a process of its own.
LastCall == IF Current.name = "script" THEN Len(Calls(Current)) ELSE call

\* Docker kills a check after its timeout.
Killed ==
    /\ InSection /\ ~Omitted /\ Fault
    /\ CutOff(LastCall)
    /\ Exits
    /\ UNCHANGED volumes /\ Checks

ServeOrphan ==
    /\ \E r \in orphans :
        /\ orphans' = orphans \ {r}
        /\ IF Accepted(r) THEN Served(r) ELSE UNCHANGED volumes
    /\ UNCHANGED <<check, container, scribing, faults, starts>>

Finish ==
    /\ section = Len(Program) + 1
    /\ section' = 0 /\ call' = 1 /\ Knows({}, {}, "none")
    /\ markers' = markers \cup {AllDone}
    /\ healthy' = TRUE
    /\ UNCHANGED <<volumes, pqs, orphans, scribing, faults, starts>>

----------------------------------------------------------------------------
(* Docker: the container is started anew, with or without its /tmp.        *)

StartsAnew == starts < MaxStarts /\ starts' = starts + 1

\* A check in progress ends with its container.
Restart ==
    /\ StartsAnew
    /\ CutOff(call)
    /\ healthy' = FALSE /\ Exits
    /\ UNCHANGED <<volumes, pqs, scribing, faults>>

\* An up makes a new container when other scripts are mounted.
UpWithOthers ==
    /\ StartsAnew
    /\ pqs' \in (SUBSET Range(PqsSlots)) \ {pqs}
    /\ CutOff(call)
    /\ healthy' = FALSE /\ section' = 0 /\ call' = 1 /\ Knows({}, {}, "none")
    /\ markers' = {}
    /\ UNCHANGED <<volumes, scribing, faults>>

Fresh ==
    /\ present' = {Admin(s) : s \in Range(Validators)}
    /\ rights' = {} /\ realm' = TRUE

DownUp ==
    /\ StartsAnew
    /\ pqs' \in SUBSET Range(PqsSlots)
    /\ healthy' = FALSE /\ section' = 0 /\ call' = 1 /\ Knows({}, {}, "none")
    /\ markers' = {} /\ scribes' = {} /\ begun' = {}
    /\ orphans' = {}
    /\ Fresh \/ UNCHANGED volumes  \* with --volumes or without
    /\ UNCHANGED faults

\* depends_on is for the first start, on-failure for the others.
ScribeStarts ==
    /\ \E slot \in (pqs \cup begun) \ scribes :
        /\ slot \in begun \/ healthy
        /\ scribes' = scribes \cup {slot} /\ begun' = begun \cup {slot}
    /\ UNCHANGED <<volumes, check, container, orphans, faults, starts>>

ScribeFails ==
    /\ \E slot \in scribes : scribes' = scribes \ {slot}
    /\ UNCHANGED <<volumes, check, container, orphans, begun, faults, starts>>

Check == Begin \/ Skip \/ Omit \/ Answered \/ Refused \/ Finish

OnboardingNext ==
    \/ Check \/ CallFails \/ Killed \/ ServeOrphan
    \/ Restart \/ UpWithOthers \/ DownUp
    \/ ScribeStarts \/ ScribeFails

OnboardingSpec == OnboardingInit /\ [][OnboardingNext]_onboarding

\* Docker goes on checking (retries: 1000), and every call is answered in time
\* when it does not fail.
FairSpec == OnboardingSpec /\ WF_onboarding(Check)

----------------------------------------------------------------------------
(* Properties.                                                             *)

Holds(user) == {r \in CiRights \cup PqsRights : <<user, r>> \in rights}

\* When the container says that all is done, it is: each CI client is in the
\* realm and its user on the participant, with exactly the rights of the bundle
\* (ci_users_integration_test.go); the PQS users may read as any party. Whatever
\* failed, was killed or was served late on the way, and whatever an earlier
\* release left behind.
DoneMeansOnboarded ==
    AllDone \in markers =>
        /\ realm
        /\ \A user \in Cis : user \in present /\ Holds(user) = CiRights
        /\ \A slot \in pqs : Pqs(slot) \in present /\ PqsRights \subseteq Holds(Pqs(slot))

\* A Scribe looks once, at its start, for what it may read: whenever one is
\* started, first or again, its user may read as any party (CHANGELOG.md,
\* "Fixed": PQS streams contracts for every party).
ScribesReadAll ==
    [][\A slot \in scribes' \ scribes : <<Pqs(slot), "ReadAsAnyParty">> \in rights]_onboarding

\* No failure is for good: once calls no longer fail, the container becomes
\* healthy, however far the checks before got.
OnboardingEnds == ~healthy ~> healthy

=============================================================================
