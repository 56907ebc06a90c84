----------------------------- MODULE RightsPrune -----------------------------
(***************************************************************************)
(* `canton-localnet rights prune`: one run of the command against a ledger *)
(* user other suites go on granting and revoking rights of. The command    *)
(* reads the user's rights, plans, asks for consent, reads the rights      *)
(* again, revokes what both reads agree on, and reads back what remains.   *)
(***************************************************************************)
EXTENDS FiniteSets, Integers

CONSTANTS
    Rights,     \* records [kind, party]: what a right's identity() tells apart
    Parties,    \* parties a policy may preserve
    Bounds,     \* values of --max-revoke
    MaxOutside  \* bound: grants and revokes by others while the command runs

ASSUME PruneAssumption ==
    /\ IsFiniteSet(Rights)
    /\ \A r \in Rights : r.kind \in {"admin", "actas", "readas"}
    /\ Bounds \subseteq Nat
    /\ MaxOutside \in Nat

VARIABLES
    flags,      \* the command line, the terminal, and the resolved party
    held,       \* the rights on the user, at the participant
    pc,         \* where the command is
    status,     \* its exit status, "none" while it runs
    consented,  \* the rights the plan was made from
    live,       \* the rights the second read returned
    wire,       \* the rights in the revoke request
    answer,     \* newlyRevokedRights of the answer on its way
    late,       \* a revoke the command no longer waits for is not served yet
    taken,      \* history: rights this run took off the user
    gone,       \* history: rights off the user at some time since the plan
    outside     \* grants and revokes by others so far

plans == <<consented, live>>
request == <<wire, answer>>
vars == <<flags, held, pc, status, plans, request, late, taken, gone, outside>>

Flags == [party : Parties, base : BOOLEAN, max : Bounds,
          mode : {"yes", "dry-run", "ask"}, terminal : BOOLEAN]
Locations == {"planning", "confirming", "rereading", "revoking", "revoked",
              "reading back", "exited"}

Init ==
    /\ flags \in Flags
    /\ held \in SUBSET Rights
    /\ pc = "planning"
    /\ status = "none"
    /\ consented = {}
    /\ live = {}
    /\ wire = {}
    /\ answer = {}
    /\ late = FALSE
    /\ taken = {}
    /\ gone = {}
    /\ outside = 0

----------------------------------------------------------------------------
(* Classify, Validate and NewSince. A plan is the set of rights it was     *)
(* made from; its Keep and Revoke lists are what preserves() splits.       *)

Preserves(r) ==
    \/ r.kind = "admin"
    \/ r.party = flags.party /\ (r.kind = "actas" \/ (flags.base /\ r.kind = "readas"))

Revocable(S) == {r \in S : ~Preserves(r)}
Keeps(S, kind) == \E r \in S : Preserves(r) /\ r.kind = kind

IsMarked(S) == Keeps(S, "admin") /\ Keeps(S, "actas")
Validate(S) == IsMarked(S) /\ Cardinality(Revocable(S)) <= flags.max

\* Fault: consent is taken to cover whatever is live.
NewSinceNothing(S, agreed) == {}

NewSince(S, agreed) == Revocable(S) \ Revocable(agreed)

Goto(from, to) == pc = from /\ pc' = to /\ UNCHANGED status
Exit(code) == pc' = "exited" /\ status' = code

----------------------------------------------------------------------------
(* prune's RunE.                                                           *)

Plan ==
    /\ pc = "planning"
    /\ consented' = held
    /\ gone' = {}
    /\ \/ Revocable(held) = {} /\ Exit("0")
       \/ Revocable(held) # {} /\ ~Validate(held) /\ Exit("1")
       \/ /\ Revocable(held) # {} /\ Validate(held)
          /\ IF flags.mode = "dry-run" THEN Exit("0") ELSE Goto("planning", "confirming")
    /\ UNCHANGED <<flags, held, live, request, late, taken, outside>>

\* --yes, or the word typed at the prompt.
Confirm ==
    /\ flags.mode = "yes" \/ flags.terminal
    /\ Goto("confirming", "rereading")
    /\ UNCHANGED <<flags, held, plans, request, late, taken, gone, outside>>

\* No terminal to ask at, or another answer: notAuthorised.
Decline ==
    /\ pc = "confirming"
    /\ flags.mode # "yes"
    /\ Exit("2")
    /\ UNCHANGED <<flags, held, plans, request, late, taken, gone, outside>>

PromptFails ==
    /\ pc = "confirming"
    /\ flags.mode # "yes" /\ flags.terminal
    /\ Exit("1")
    /\ UNCHANGED <<flags, held, plans, request, late, taken, gone, outside>>

\* Fault: the live rights are not validated again.
RereadUnvalidated ==
    /\ pc = "rereading"
    /\ live' = held
    /\ \/ NewSince(held, consented) # {} /\ Exit("1") /\ UNCHANGED wire
       \/ /\ NewSince(held, consented) = {}
          /\ wire' = Revocable(held)
          /\ IF Revocable(held) = {} THEN Exit("0") ELSE Goto("rereading", "revoking")
    /\ UNCHANGED <<flags, held, consented, answer, late, taken, gone, outside>>

\* The second read, its checks, and the revoke request sent at once.
Reread ==
    /\ pc = "rereading"
    /\ live' = held
    /\ \/ ~Validate(held) /\ Exit("1") /\ UNCHANGED wire
       \/ /\ Validate(held) /\ NewSince(held, consented) # {}
          /\ Exit("1") /\ UNCHANGED wire
       \/ /\ Validate(held) /\ NewSince(held, consented) = {}
          /\ wire' = Revocable(held)
          /\ IF Revocable(held) = {} THEN Exit("0") ELSE Goto("rereading", "revoking")
    /\ UNCHANGED <<flags, held, consented, answer, late, taken, gone, outside>>

\* Fault: any answer is taken for a full revoke.
SettleUnchecked ==
    /\ Goto("revoked", "reading back")
    /\ UNCHANGED <<flags, held, plans, request, late, taken, gone, outside>>

\* Every right requested must be confirmed.
Settle ==
    /\ pc = "revoked"
    /\ IF wire \subseteq answer THEN Goto("revoked", "reading back") ELSE Exit("1")
    /\ UNCHANGED <<flags, held, plans, request, late, taken, gone, outside>>

ReadBack ==
    /\ pc = "reading back"
    /\ Exit("0")
    /\ UNCHANGED <<flags, held, plans, request, late, taken, gone, outside>>

\* A read that fails, the token and the primary party of the plan's included.
ReadFails ==
    /\ pc \in {"planning", "rereading", "reading back"}
    /\ Exit("1")
    /\ UNCHANGED <<flags, held, plans, request, late, taken, gone, outside>>

----------------------------------------------------------------------------
(* The revoke request at the participant.                                  *)

TakeOff(S) ==
    /\ held' = held \ S
    /\ taken' = taken \cup (S \cap held)
    /\ gone' = gone \cup S

Serve(S) ==
    /\ Goto("revoking", "revoked")
    /\ TakeOff(S)
    /\ answer' = S
    /\ UNCHANGED <<flags, plans, wire, late, outside>>

ServeRevoke == Serve(wire \cap held)

\* The participant revokes, and reports, only some of what the user holds.
ServePartly == \E S \in SUBSET (wire \cap held) : S # wire \cap held /\ Serve(S)

RevokeRefused ==
    /\ pc = "revoking"
    /\ Exit("1")
    /\ UNCHANGED <<flags, held, plans, request, late, taken, gone, outside>>

\* Fault: a revoke that timed out is reported as one not authorised.
RevokeLostAsUnauthorised ==
    /\ pc = "revoking" /\ late' = TRUE
    /\ Exit("2")
    /\ UNCHANGED <<flags, held, plans, request, taken, gone, outside>>

\* The client's 30 s timeout, or a dropped connection, before the request is
\* served; after that, a lost or unreadable answer.
RevokeLost ==
    /\ \/ pc = "revoking" /\ late' = TRUE
       \/ pc = "revoked" /\ UNCHANGED late
    /\ Exit("1")
    /\ UNCHANGED <<flags, held, plans, request, taken, gone, outside>>

ServeLate ==
    /\ late
    /\ late' = FALSE
    /\ TakeOff(wire)
    /\ UNCHANGED <<flags, pc, status, plans, request, outside>>

----------------------------------------------------------------------------
(* Suites, leases and other prunes on the same user.                       *)

OutsideGrant(r) ==
    /\ outside < MaxOutside
    /\ outside' = outside + 1
    /\ held' = held \cup {r}
    /\ UNCHANGED <<flags, pc, status, plans, request, late, taken, gone>>

OutsideRevoke(r) ==
    /\ outside < MaxOutside
    /\ outside' = outside + 1
    /\ held' = held \ {r}
    /\ gone' = gone \cup {r}
    /\ UNCHANGED <<flags, pc, status, plans, request, late, taken>>

Next ==
    \/ Plan \/ Confirm \/ Decline \/ PromptFails
    \/ Reread \/ Settle \/ ReadBack \/ ReadFails
    \/ ServeRevoke \/ ServePartly \/ RevokeRefused \/ RevokeLost \/ ServeLate
    \/ \E r \in Rights : OutsideGrant(r) \/ OutsideRevoke(r)

Spec == Init /\ [][Next]_vars

----------------------------------------------------------------------------
(* Properties.                                                             *)

\* Types; the exit status is set exactly when the command ends, and the
\* revoke asks only for rights the second read returned.
TypeOK ==
    /\ flags \in Flags
    /\ held \subseteq Rights
    /\ pc \in Locations
    /\ status \in {"none", "0", "1", "2"}
    /\ (pc = "exited") <=> (status # "none")
    /\ consented \subseteq Rights /\ live \subseteq Rights
    /\ wire \subseteq Revocable(live) /\ answer \subseteq wire
    /\ late \in BOOLEAN
    /\ taken \subseteq Rights /\ gone \subseteq Rights
    /\ outside \in 0 .. MaxOutside

\* "the revoke proceeds only if that live set is contained in the plan that
\* was consented to": whatever others grant in between, and however late the
\* request is served, every right taken was in the plan shown, and no more
\* than --max-revoke are.
TakesOnlyConsented ==
    /\ taken \subseteq Revocable(consented)
    /\ Cardinality(taken) <= flags.max
    /\ taken # {} => flags.mode # "dry-run"

\* "Two refusals stop a prune aimed at the wrong user": a right is taken only
\* from a user that, when last read, still had the two marks of a validator
\* user, so that a user stripped of them after consent is left alone.
TakesFromMarkedUserOnly == taken # {} => IsMarked(live)

\* "Only 2 guarantees nothing was changed": nothing was taken, and no request
\* is on its way that would still take something.
StatusTwoIsUntouched == status = "2" => taken = {} /\ ~late

\* "0 means there was nothing to revoke, the revoke succeeded, or --dry-run":
\* a run that was not a dry run and exits 0 ends with every right of its plan
\* having been off the user at some time since.
StatusZeroIsSwept ==
    status = "0" /\ flags.mode # "dry-run" => Revocable(consented) \subseteq gone

=============================================================================
