------------------------------ MODULE CliProofs ------------------------------
(***************************************************************************)
(* Proofs about two commands of the CLI, for any rights and parties, any   *)
(* slots, files and flags, and any number of steps.                        *)
(*                                                                         *)
(* Of `canton-localnet rights prune`: it takes only what was consented to, *)
(* from a user that bears the marks of a validator user, and its exit      *)
(* statuses 0 and 2 mean what the help text says.                          *)
(*                                                                         *)
(* Of `canton-localnet env --format github`: a secret is masked before the *)
(* first call after the step has it and is never reported, an id and its   *)
(* secret are of one client, a step that fails exports nothing, and no     *)
(* step changes what a step before exported of a slot.                     *)
(***************************************************************************)
EXTENDS RightsPrune, EnvSnapshot, FiniteSetTheorems, WellFoundedInduction, TLAPS

----------------------------------------------------------------------------
(* `rights prune`.                                                         *)

Early == {"planning", "confirming", "rereading"}
Requested == {"revoking", "revoked", "reading back"}

\* Before the second read nothing is asked for, and a dry run goes no further
\* than its plan.
NothingEarly ==
    /\ pc \in Early => wire = {}
    /\ pc \in Requested => wire # {}
    /\ pc \in {"confirming", "rereading"} \cup Requested => flags.mode # "dry-run"

\* Whatever is asked for is all that both reads agree may be revoked, on the
\* strength of a second read that passed the checks.
RequestJustified ==
    wire # {} =>
        /\ wire = Revocable(live)
        /\ Validate(live)
        /\ Revocable(live) \subseteq Revocable(consented)
        /\ flags.mode # "dry-run"
        /\ status # "2"

\* What was taken was asked for; a request the command left behind exists
\* only if it sent one.
TakenWasAsked == taken \subseteq wire /\ (late => wire # {})

\* Since the plan was made, a right of it is on the user or has been off it.
GoneIsHistory ==
    /\ pc \notin {"planning", "exited"} => consented \subseteq held \cup gone
    /\ wire # {} => Revocable(consented) \subseteq wire \cup gone
    /\ pc = "revoked" => answer \subseteq gone
    /\ pc = "reading back" => wire \subseteq gone

PruneInv ==
    /\ TypeOK
    /\ NothingEarly
    /\ RequestJustified
    /\ TakenWasAsked
    /\ GoneIsHistory
    /\ StatusZeroIsSwept

\* The invariant holds when the command starts.
LEMMA PruneInitHolds == Init => PruneInv
<1> SUFFICES ASSUME Init PROVE PruneInv
  OBVIOUS
<1>1. 0 \in 0 .. MaxOutside
  BY PruneAssumption
<1>2. QED
  BY <1>1 DEF Init, PruneInv, TypeOK, NothingEarly, RequestJustified, TakenWasAsked,
     GoneIsHistory, StatusZeroIsSwept, Early, Requested, Locations, Revocable

\* What a policy preserves depends on the command line alone, so a step that
\* leaves the flags and the plans alone leaves the split of the plans alone.
LEMMA SameFlags ==
  ASSUME flags' = flags
  PROVE  /\ consented' = consented => Revocable(consented)' = Revocable(consented)
         /\ live' = live => Revocable(live)' = Revocable(live)
         /\ live' = live => (Validate(live)' <=> Validate(live))
  BY DEF Revocable, Preserves, Validate, IsMarked, Keeps

\* Steps that send no request and take nothing: the plan, the consent, the
\* checks of the answer, the failures and the exits.
LEMMA CommandStep ==
  ASSUME PruneInv, Plan \/ Confirm \/ Decline \/ PromptFails \/ Settle \/ ReadBack
              \/ ReadFails \/ RevokeRefused \/ RevokeLost
  PROVE  PruneInv'
<1> USE SameFlags DEF PruneInv, TypeOK, NothingEarly, RequestJustified, TakenWasAsked,
        GoneIsHistory, StatusZeroIsSwept, Early, Requested, Locations, Exit, Goto,
        plans, request
<1>1. CASE Plan
  <2>1. Revocable(consented)' = Revocable(held)
    BY <1>1 DEF Plan, Revocable, Preserves
  <2>2. QED
    BY <1>1, <2>1 DEF Plan
<1>2. CASE Confirm
  BY <1>2 DEF Confirm
<1>3. CASE Decline
  BY <1>3 DEF Decline
<1>4. CASE PromptFails
  BY <1>4 DEF PromptFails
<1>5. CASE Settle
  BY <1>5 DEF Settle
<1>6. CASE ReadBack
  BY <1>6 DEF ReadBack
<1>7. CASE ReadFails
  BY <1>7 DEF ReadFails
<1>8. CASE RevokeRefused
  BY <1>8 DEF RevokeRefused
<1>9. CASE RevokeLost
  BY <1>9 DEF RevokeLost
<1>10. QED
  BY <1>1, <1>2, <1>3, <1>4, <1>5, <1>6, <1>7, <1>8, <1>9

\* The second read: whatever it lets through was planned and passes the checks.
LEMMA RereadStep ==
  ASSUME PruneInv, Reread
  PROVE  PruneInv'
<1> USE DEF PruneInv, TypeOK, NothingEarly, RequestJustified, TakenWasAsked,
        GoneIsHistory, StatusZeroIsSwept, Early, Requested, Locations, Exit, Goto
<1>1. /\ Revocable(consented)' = Revocable(consented)
      /\ Revocable(live)' = Revocable(held)
      /\ Validate(live)' <=> Validate(held)
      /\ Revocable(held) \subseteq held
      /\ Revocable(consented) \cap held \subseteq Revocable(held)
      /\ Revocable(consented) \subseteq consented
  BY DEF Reread, Revocable, Preserves, Validate, IsMarked, Keeps
<1>2. wire = {} /\ taken = {} /\ ~late /\ answer = {} /\ consented \subseteq held \cup gone
  BY DEF Reread
<1>3. CASE wire' = {}
  BY <1>1, <1>2, <1>3 DEF Reread, NewSince
<1>4. CASE wire' # {}
  BY <1>1, <1>2, <1>4 DEF Reread, NewSince
<1>5. QED
  BY <1>3, <1>4

\* The participant serves the request, in full or in part, in time or late.
LEMMA ServeStep ==
  ASSUME PruneInv, ServeRevoke \/ ServePartly \/ ServeLate
  PROVE  PruneInv'
<1> USE SameFlags DEF PruneInv, TypeOK, NothingEarly, RequestJustified, TakenWasAsked,
        GoneIsHistory, StatusZeroIsSwept, Early, Requested, Locations, Goto,
        plans, request, TakeOff
<1>1. ASSUME NEW S \in SUBSET (wire \cap held), Serve(S) PROVE PruneInv'
  <2>1. /\ Revocable(consented)' = Revocable(consented)
        /\ Revocable(live)' = Revocable(live)
        /\ Validate(live)' <=> Validate(live)
    BY <1>1 DEF Serve
  <2>2. /\ held' = held \ S /\ taken' = taken \cup (S \cap held) /\ gone' = gone \cup S
        /\ pc = "revoking" /\ pc' = "revoked" /\ answer' = S
        /\ UNCHANGED <<flags, status, consented, live, wire, late, outside>>
    BY <1>1 DEF Serve
  <2>3. TypeOK'
    BY <2>1, <2>2
  <2>4. (NothingEarly /\ RequestJustified /\ TakenWasAsked)'
    BY <2>1, <2>2
  <2>5. (GoneIsHistory /\ StatusZeroIsSwept)'
    BY <2>1, <2>2
  <2>6. QED
    BY <2>3, <2>4, <2>5
<1>2. CASE ServeLate
  <2>1. /\ Revocable(consented)' = Revocable(consented)
        /\ Revocable(live)' = Revocable(live)
        /\ Validate(live)' <=> Validate(live)
    BY <1>2 DEF ServeLate
  <2>2. /\ held' = held \ wire /\ taken' = taken \cup (wire \cap held)
        /\ gone' = gone \cup wire
        /\ late /\ late' = FALSE
        /\ UNCHANGED <<flags, pc, status, consented, live, wire, answer, outside>>
    BY <1>2 DEF ServeLate
  <2>3. TypeOK'
    <3>1. wire \subseteq Rights
      BY DEF Revocable
    <3>2. QED
      BY <2>1, <2>2, <3>1
  <2>4. (NothingEarly /\ RequestJustified /\ TakenWasAsked)'
    BY <2>1, <2>2
  <2>5. (GoneIsHistory /\ StatusZeroIsSwept)'
    BY <2>1, <2>2
  <2>6. QED
    BY <2>3, <2>4, <2>5
<1>3. QED
  BY <1>1, <1>2 DEF ServeRevoke, ServePartly

\* The bound on the grants and revokes by others is kept.
LEMMA OutsideCounts ==
  \A n \in 0 .. MaxOutside : n < MaxOutside => n + 1 \in 0 .. MaxOutside
<1>1. MaxOutside \in Nat
  BY PruneAssumption
<1>2. QED
  BY <1>1

\* Others grant and revoke.
LEMMA OutsideStep ==
  ASSUME PruneInv, NEW r \in Rights, OutsideGrant(r) \/ OutsideRevoke(r)
  PROVE  PruneInv'
<1> USE DEF PruneInv, TypeOK, NothingEarly, RequestJustified, TakenWasAsked,
        GoneIsHistory, StatusZeroIsSwept, Early, Requested, Locations
<1>1. /\ UNCHANGED <<flags, pc, status, consented, live, wire, answer, late, taken>>
      /\ outside < MaxOutside /\ outside' = outside + 1
      /\ \/ held' = held \cup {r} /\ gone' = gone
         \/ held' = held \ {r} /\ gone' = gone \cup {r}
  BY DEF OutsideGrant, OutsideRevoke, plans, request
<1>2. /\ Revocable(consented)' = Revocable(consented)
      /\ Revocable(live)' = Revocable(live)
      /\ Validate(live)' <=> Validate(live)
  BY <1>1, SameFlags
<1>3. TypeOK'
  <2>1. (flags \in Flags)'
    BY <1>1
  <2>2. (held \subseteq Rights /\ gone \subseteq Rights)'
    BY <1>1
  <2>3. (wire \subseteq Revocable(live))'
    BY <1>1, <1>2
  <2>4. (/\ pc \in Locations
         /\ status \in {"none", "0", "1", "2"}
         /\ (pc = "exited") <=> (status # "none"))'
    BY <1>1
  <2>5. (consented \subseteq Rights /\ live \subseteq Rights /\ answer \subseteq wire
          /\ late \in BOOLEAN /\ taken \subseteq Rights)'
    BY <1>1
  <2>6. (outside \in 0 .. MaxOutside)'
    BY <1>1, OutsideCounts
  <2>7. QED
    BY <2>1, <2>2, <2>3, <2>4, <2>5, <2>6
<1>4. (NothingEarly /\ RequestJustified /\ TakenWasAsked)'
  BY <1>1, <1>2
<1>5. (GoneIsHistory /\ StatusZeroIsSwept)'
  BY <1>1, <1>2
<1>6. QED
  BY <1>3, <1>4, <1>5

\* PruneInv is an invariant of the command.
THEOREM PruneInvHolds == Spec => []PruneInv
<1>1. PruneInv /\ [Next]_vars => PruneInv'
  <2> SUFFICES ASSUME PruneInv, [Next]_vars PROVE PruneInv'
    OBVIOUS
  <2>1. CASE UNCHANGED vars
    BY <2>1, SameFlags DEF vars, plans, request, PruneInv, TypeOK, NothingEarly,
       RequestJustified, TakenWasAsked, GoneIsHistory, StatusZeroIsSwept
  <2>2. CASE Next
    BY <2>2, CommandStep, RereadStep, ServeStep, OutsideStep DEF Next
  <2>3. QED
    BY <2>1, <2>2
<1>2. QED
  BY PruneInitHolds, <1>1, PTL DEF Spec

----------------------------------------------------------------------------
(* The properties.                                                         *)

\* Types, the exit status, and a request made from the second read.
THEOREM PruneTypeCorrect == Spec => []TypeOK
<1>1. PruneInv => TypeOK
  BY DEF PruneInv
<1>2. QED
  BY PruneInvHolds, <1>1, PTL

\* Every right taken was in the plan shown, and the bound is kept.
THEOREM OnlyConsentedTaken == Spec => []TakesOnlyConsented
<1>1. PruneInv => TakesOnlyConsented
  <2> SUFFICES ASSUME PruneInv PROVE TakesOnlyConsented
    OBVIOUS
  <2> USE DEF PruneInv, TypeOK, TakenWasAsked, RequestJustified, Flags
  <2>1. flags.max \in Nat
    BY PruneAssumption
  <2>2. CASE wire = {}
    BY <2>1, <2>2, FS_EmptySet DEF TakesOnlyConsented
  <2>3. CASE wire # {}
    <3>1. IsFiniteSet(Revocable(live))
      BY FS_Subset, PruneAssumption DEF Revocable
    <3>2. taken \in SUBSET Revocable(live)
      BY <2>3
    <3>3. /\ IsFiniteSet(taken)
          /\ Cardinality(taken) <= Cardinality(Revocable(live))
      BY <3>1, <3>2, FS_Subset
    <3>4. Cardinality(taken) \in Nat /\ Cardinality(Revocable(live)) \in Nat
      BY <3>1, <3>3, FS_CardinalityType
    <3>5. QED
      BY <2>1, <2>3, <3>3, <3>4 DEF TakesOnlyConsented, Validate
  <2>4. QED
    BY <2>2, <2>3
<1>2. QED
  BY PruneInvHolds, <1>1, PTL

\* Nothing is taken from a user without the two marks.
THEOREM MarkedUsersOnly == Spec => []TakesFromMarkedUserOnly
<1>1. PruneInv => TakesFromMarkedUserOnly
  BY DEF PruneInv, TakenWasAsked, RequestJustified, Validate, TakesFromMarkedUserOnly
<1>2. QED
  BY PruneInvHolds, <1>1, PTL

\* Exit status 2 means nothing was changed and nothing will be.
THEOREM StatusTwo == Spec => []StatusTwoIsUntouched
<1>1. PruneInv => StatusTwoIsUntouched
  BY DEF PruneInv, TakenWasAsked, RequestJustified, StatusTwoIsUntouched
<1>2. QED
  BY PruneInvHolds, <1>1, PTL

\* Exit status 0 means the plan was swept.
THEOREM StatusZero == Spec => []StatusZeroIsSwept
<1>1. PruneInv => StatusZeroIsSwept
  BY DEF PruneInv
<1>2. QED
  BY PruneInvHolds, <1>1, PTL

----------------------------------------------------------------------------
(* `env --format github`: what holds at every step of a job.               *)

\* The members of a sequence.
Elements(s) == {s[i] : i \in DOMAIN s}

Phases == {"idle", "resolving", "masking", "minting", "maskingJwt", "findingParticipant",
           "findingParty", "appending", "reporting"}

EnvTypes ==
    /\ config \in Configs /\ req \in Requests
    /\ phase \in Phases /\ at \in Nat
    /\ eps \in Seq(Elements(eps)) /\ exports \in Seq(Elements(exports))

\* The endpoints are those of the first slots asked for, in their order.
SlotsResolved ==
    /\ phase = "idle" => eps = <<>> /\ exports = <<>> /\ at = 1
    /\ phase = "resolving" => at = Len(eps) + 1 /\ at <= Len(req.slots)
    /\ phase \notin {"idle", "resolving"} => Len(eps) = Len(req.slots) /\ at \in DOMAIN eps
    /\ \A i \in DOMAIN eps : eps[i].slot = req.slots[i] /\ IsName(eps[i].user)

\* What is true of each variable. One of a slot is of a slot that is resolved;
\* one that the job has already has the value it has there, and a scope it has
\* not is the one that is shared; one that is reported is not a secret.
Owners == {Shared} \cup {eps[i].slot : i \in DOMAIN eps}
SharedScope(value) ==
    Key(Shared, "scope") \in DOMAIN jobEnv /\ value = jobEnv[Key(Shared, "scope")]
Stays(x) ==
    x.key[1] # Shared =>
        /\ x.key \in DOMAIN jobEnv /\ x.key[2] \in Static => x.value = jobEnv[x.key]
        /\ x.key \notin DOMAIN jobEnv /\ x.key[2] = "scope" => SharedScope(x.value)
Reportable(x) == /\ x.secret => x.value \in DOMAIN Text
                 /\ ~x.secret /\ x.key[2] \in Reported => x.value \notin DOMAIN Text
Fits(field, value) ==
    /\ field = "secret" => value \in DOMAIN Text
    /\ field \in {"host", "url"} => IsAddress(value)
    /\ field = "user" => IsName(value)
VarsSound ==
    \A x \in Elements(exports) :
        /\ x.key[1] \in Owners
        /\ phase # "reporting" => Stays(x)
        /\ Reportable(x) /\ Fits(x.key[2], x.value)

\* An id is followed by its secret, and a secret preceded by its id; the two
\* are of one client, unless a source of the slot's had one without the other.
PairedVars(s) ==
    /\ \A i \in DOMAIN s : s[i].key[2] = "id" =>
          /\ i + 1 \in DOMAIN s /\ s[i + 1].key = Key(s[i].key[1], "secret")
          /\ s[i].key[1] \in split \/ s[i].value = s[i + 1].value
    /\ \A i \in DOMAIN s : s[i].key[2] = "secret" =>
          i - 1 \in DOMAIN s /\ s[i - 1].key = Key(s[i].key[1], "id")

\* What is masked by now, and what the report has.
SecretsMasked ==
    /\ phase \in Calling \cup {"appending", "reporting"} => \A v \in SecretVars : Known(v)
    /\ phase = "maskingJwt" => \A v \in SecretVars \ {token} : Known(v)
    /\ summary \cap DOMAIN Text = {}

\* A step has a token while it makes a slot's calls; one that it exports is
\* masked before the first of them.
TokenInHand ==
    /\ IF phase \in {"maskingJwt", "findingParticipant", "findingParty"}
       THEN token \in Tokens ELSE token = NoToken
    /\ phase \in {"findingParticipant", "findingParty"} /\ req.jwt => Known(token)

\* What the job has between two steps.
JobSound ==
    /\ WellTyped(jobEnv) /\ PairedUnlessSplit /\ UnpairedIn(config) \subseteq split
    /\ NothingOfFailedSteps

EnvInv ==
    /\ EnvTypes /\ SlotsResolved /\ VarsSound /\ PairedVars(exports)
    /\ SecretsMasked /\ TokenInHand /\ JobSound

----------------------------------------------------------------------------
(* Sequences of variables.                                                 *)

\* Two sequences, one after the other: a sequence of the members of both.
LEMMA ElementsOfConcat ==
  ASSUME NEW s, NEW t, s \in Seq(Elements(s)), t \in Seq(Elements(t))
  PROVE  /\ s \o t \in Seq(Elements(s \o t))
         /\ Elements(s \o t) = Elements(s) \cup Elements(t)
         /\ Len(s \o t) = Len(s) + Len(t)
         /\ \A i \in DOMAIN (s \o t) :
              (s \o t)[i] = IF i <= Len(s) THEN s[i] ELSE t[i - Len(s)]
<1> DEFINE S == Elements(s)
           T == Elements(t)
           st == s \o t
<1>1. s \in Seq(S \cup T) /\ t \in Seq(S \cup T)
  OBVIOUS
<1>2. /\ st \in Seq(S \cup T) /\ Len(st) = Len(s) + Len(t)
      /\ \A i \in DOMAIN st : st[i] = IF i <= Len(s) THEN s[i] ELSE t[i - Len(s)]
  <2> HIDE DEF S, T
  <2>1. QED
    BY <1>1
<1>3. DOMAIN s = 1 .. Len(s) /\ DOMAIN t = 1 .. Len(t) /\ DOMAIN st = 1 .. Len(st)
      /\ Len(s) \in Nat /\ Len(t) \in Nat
  BY <1>1, <1>2
<1>4. \A i \in DOMAIN s : i \in DOMAIN st /\ st[i] = s[i]
  BY <1>2, <1>3
<1>5. \A i \in DOMAIN t : Len(s) + i \in DOMAIN st /\ st[Len(s) + i] = t[i]
  BY <1>2, <1>3
<1>6. \A i \in DOMAIN st : st[i] \in Elements(s) \cup Elements(t)
  BY <1>2, <1>3 DEF Elements
<1>7. Elements(st) = Elements(s) \cup Elements(t)
  <2> HIDE DEF st
  <2>1. Elements(st) \subseteq Elements(s) \cup Elements(t)
    BY <1>6 DEF Elements
  <2>2. Elements(s) \subseteq Elements(st) /\ Elements(t) \subseteq Elements(st)
    BY <1>4, <1>5 DEF Elements
  <2>3. QED
    BY <2>1, <2>2
<1>8. QED
  BY <1>2, <1>7

\* Pairs stay pairs when sequences are put one after the other.
LEMMA PairsOfConcat ==
  ASSUME NEW s, NEW t, s \in Seq(Elements(s)), t \in Seq(Elements(t)),
         PairedVars(s), PairedVars(t)
  PROVE  PairedVars(s \o t)
<1> DEFINE st == s \o t
           n == Len(s)
<1>1. /\ DOMAIN s = 1 .. n /\ DOMAIN t = 1 .. Len(t) /\ DOMAIN st = 1 .. n + Len(t)
      /\ n \in Nat /\ Len(t) \in Nat
      /\ \A i \in DOMAIN s : st[i] = s[i]
      /\ \A i \in 1 .. n + Len(t) : i > n => i - n \in DOMAIN t /\ st[i] = t[i - n]
  BY ElementsOfConcat
<1>2. ASSUME NEW i \in DOMAIN st, st[i].key[2] = "id"
      PROVE  /\ i + 1 \in DOMAIN st /\ st[i + 1].key = Key(st[i].key[1], "secret")
             /\ st[i].key[1] \in split \/ st[i].value = st[i + 1].value
  <2>1. CASE i <= n
    BY <1>1, <1>2, <2>1 DEF PairedVars
  <2>2. CASE i > n
    <3>1. i - n \in DOMAIN t /\ t[i - n].key[2] = "id"
      BY <1>1, <1>2, <2>2
    <3>2. (i - n) + 1 \in DOMAIN t /\ t[(i - n) + 1].key = Key(t[i - n].key[1], "secret")
          /\ (t[i - n].key[1] \in split \/ t[i - n].value = t[(i - n) + 1].value)
      BY <3>1 DEF PairedVars
    <3>3. i + 1 \in DOMAIN st /\ i + 1 > n /\ (i + 1) - n = (i - n) + 1
      BY <1>1, <3>2
    <3>4. st[i] = t[i - n] /\ st[i + 1] = t[(i - n) + 1]
      BY <1>1, <2>2, <3>3
    <3> HIDE DEF st
    <3>5. QED
      BY <3>2, <3>3, <3>4
  <2>3. QED
    BY <1>1, <2>1, <2>2
<1>3. ASSUME NEW i \in DOMAIN st, st[i].key[2] = "secret"
      PROVE  i - 1 \in DOMAIN st /\ st[i - 1].key = Key(st[i].key[1], "id")
  <2>1. CASE i <= n
    BY <1>1, <1>3, <2>1 DEF PairedVars
  <2>2. CASE i > n
    <3>1. i - n \in DOMAIN t /\ t[i - n].key[2] = "secret"
      BY <1>1, <1>3, <2>2
    <3>2. (i - n) - 1 \in DOMAIN t /\ t[(i - n) - 1].key = Key(t[i - n].key[1], "id")
      BY <3>1 DEF PairedVars
    <3>3. i - 1 \in DOMAIN st /\ i - 1 > n /\ (i - 1) - n = (i - n) - 1
      BY <1>1, <3>2
    <3>4. QED
      BY <1>1, <3>2, <3>3
  <2>3. QED
    BY <1>1, <2>1, <2>2
<1>4. QED
  BY <1>2, <1>3 DEF PairedVars

\* A sequence without ids and secrets has its pairs.
LEMMA NoPairs ==
  ASSUME NEW s, \A x \in Elements(s) : x.key[2] \notin {"id", "secret"}
  PROVE  PairedVars(s)
  BY DEF PairedVars, Elements

\* Short sequences.
LEMMA ShortSequences ==
  ASSUME NEW a
  PROVE  /\ <<>> \in Seq(Elements(<<>>)) /\ Elements(<<>>) = {}
         /\ <<a>> \in Seq(Elements(<<a>>)) /\ Elements(<<a>>) = {a}
<1>1. Elements(<<>>) = {} /\ Elements(<<a>>) = {a}
  BY DEF Elements
<1>2. QED
  BY <1>1

\* A sequence that is there only unless a condition holds.
LEMMA UnlessSequence ==
  ASSUME NEW c \in BOOLEAN, NEW a
  PROVE  /\ Unless(c, <<a>>) \in Seq(Elements(Unless(c, <<a>>)))
         /\ Elements(Unless(c, <<a>>)) = IF c THEN {} ELSE {a}
  BY ShortSequences DEF Unless

----------------------------------------------------------------------------
(* Endpoints, the variables made of them, and their masks.                 *)

\* What the sources are, the environment and the files: of their types, and each
\* with the id and the secret of one client, or neither, of a slot not split.
LEMMA Layers ==
  ASSUME EnvInv
  PROVE  \A layer \in {jobEnv, config.yaml, config.compose, config.ci} :
            WellTyped(layer) /\ \A s \in Slots \ split : Paired(layer, s)
<1>1. config \in Configs /\ WellTyped(jobEnv)
      /\ Unpaired(jobEnv) \subseteq split /\ UnpairedIn(config) \subseteq split
  BY DEF EnvInv, EnvTypes, JobSound, PairedUnlessSplit
<1>2. WellTyped(config.yaml) /\ WellTyped(config.compose) /\ WellTyped(config.ci)
  BY <1>1, ValuesAssumption
<1>3. \A layer \in {config.yaml, config.compose, config.ci} : Unpaired(layer) \subseteq split
  BY <1>1 DEF UnpairedIn
<1>4. QED
  BY <1>1, <1>2, <1>3 DEF Unpaired

\* What a source has of a secret and an id, each by itself.
LEMMA LayerPair ==
  ASSUME NEW layer, NEW s \in Slots
  PROVE  /\ WellTyped(layer) /\ Key(s, "secret") \in DOMAIN layer =>
              layer[Key(s, "secret")] \in DOMAIN Text
         /\ Paired(layer, s) =>
              /\ Key(s, "id") \in DOMAIN layer <=> Key(s, "secret") \in DOMAIN layer
              /\ Key(s, "id") \in DOMAIN layer =>
                    layer[Key(s, "id")] = layer[Key(s, "secret")]
<1>1. Key(s, "secret")[2] = "secret"
  BY DEF Key
<1>2. QED
  BY <1>1 DEF WellTyped, Paired

\* The id and the secret a slot resolves to are of one client, wherever they
\* are looked up: unless it is split, a source has both of them or neither.
LEMMA OneClient ==
  ASSUME EnvInv, NEW s \in Slots
  PROVE  /\ OfCiSlot(Key(s, "secret")) \in DOMAIN Text
         /\ s \in split \/ OfCiSlot(Key(s, "id")) = OfCiSlot(Key(s, "secret"))
         /\ Configured(Key(s, "secret"), NoSecret) # NoSecret =>
              /\ Configured(Key(s, "secret"), NoSecret) \in DOMAIN Text
              /\ s \in split \/ Configured(Key(s, "id"), DefaultClient[s])
                                 = Configured(Key(s, "secret"), NoSecret)
<1> DEFINE id == Key(s, "id")
           secret == Key(s, "secret")
           sources == {jobEnv, config.yaml, config.compose, config.ci}
<1>1. \A layer \in sources : secret \in DOMAIN layer => layer[secret] \in DOMAIN Text
  BY Layers, LayerPair
<1>2. s \in split \/ \A layer \in sources :
          /\ id \in DOMAIN layer <=> secret \in DOMAIN layer
          /\ id \in DOMAIN layer => layer[id] = layer[secret]
  BY Layers, LayerPair
<1>3. CiClient \in DOMAIN Text
  BY ValuesAssumption
<1> HIDE DEF id, secret
<1>4. /\ OfCiSlot(secret) \in DOMAIN Text
      /\ s \in split \/ OfCiSlot(id) = OfCiSlot(secret)
  BY <1>1, <1>2, <1>3 DEF OfCiSlot, Or, Pick
<1>5. ASSUME Configured(secret, NoSecret) # NoSecret
      PROVE  /\ Configured(secret, NoSecret) \in DOMAIN Text
             /\ s \in split \/ Configured(id, DefaultClient[s]) = Configured(secret, NoSecret)
  BY <1>1, <1>2, <1>5 DEF Configured, Or, Pick
<1>6. QED
  BY <1>4, <1>5 DEF id, secret

\* What the environment has of a slot takes precedence.
Precedes(s, field, value) == Key(s, field) \in DOMAIN jobEnv => value = jobEnv[Key(s, field)]

\* An endpoint a step accepts: of its slot, with addresses that are not secrets,
\* of one client unless it is split, and as the job has it, as far as the job
\* has it; a scope the job has not of it is the shared one.
SoundEndpoint(ep) ==
    /\ ep.slot \in Slots /\ ep.slot = Slot
    /\ IsAddress(ep.host) /\ IsAddress(ep.url) /\ IsName(ep.user)
    /\ ep.secret \in DOMAIN Text
    /\ ep.slot \in split \/ ep.id = ep.secret
    /\ ep.scope # NoScope /\ Key(ep.slot, "scope") \notin DOMAIN jobEnv => SharedScope(ep.scope)
    /\ Precedes(ep.slot, "url", ep.url) /\ Precedes(ep.slot, "id", ep.id)
    /\ Precedes(ep.slot, "secret", ep.secret) /\ Precedes(ep.slot, "audience", ep.audience)
    /\ Precedes(ep.slot, "user", ep.user) /\ Precedes(ep.slot, "scope", ep.scope)

\* Names that are put together are longer than a secret.
LEMMA LongerThanSecrets ==
  ASSUME NEW v, NEW w, IsName(v), IsName(w)
  PROVE  IsAddress(v \o w)
<1>1. v \o w \in Seq(STRING) /\ Len(v) \in Nat \ {0} /\ Len(w) \in Nat \ {0}
      /\ Len(v \o w) = Len(v) + Len(w)
  BY DEF IsName
<1>2. \A u \in DOMAIN Text : Len(u) = 1
  BY ValuesAssumption
<1> DEFINE vw == v \o w
<1>3. vw \in Seq(STRING) /\ Len(vw) \in Nat /\ Len(vw) # 1 /\ Len(vw) # 0
  BY <1>1
<1> HIDE DEF vw
<1>4. vw # <<>> /\ vw \notin DOMAIN Text
  BY <1>2, <1>3
<1>5. IsAddress(vw)
  BY <1>3, <1>4 DEF IsAddress, IsName
<1>6. QED
  BY <1>5 DEF vw

\* What the environment or the default says of a host, a url or a user.
LEMMA NamesLookedUp ==
  ASSUME EnvInv, NEW owner, NEW name
  PROVE  /\ IsAddress(name) => IsAddress(Or(Key(owner, "host"), name))
         /\ IsAddress(name) => IsAddress(Or(Key(owner, "url"), name))
         /\ IsName(name) => IsName(Or(Key(owner, "user"), name))
<1>1. Key(owner, "host")[2] = "host" /\ Key(owner, "url")[2] = "url"
      /\ Key(owner, "user")[2] = "user"
  BY DEF Key
<1>2. QED
  BY <1>1 DEF EnvInv, JobSound, WellTyped, Or

\* What a file or the default says of a user.
LEMMA NamesPicked ==
  ASSUME NEW layer, WellTyped(layer), NEW owner, NEW name, IsName(name)
  PROVE  IsName(Pick(layer, Key(owner, "user"), name))
<1>1. Key(owner, "user")[2] = "user"
  BY DEF Key
<1>2. QED
  BY <1>1 DEF WellTyped, Pick

\* An endpoint a step accepts is sound, with --ci-slot or without.
LEMMA Resolution ==
  ASSUME EnvInv, phase = "resolving", Accepts(Endpoint)
  PROVE  SoundEndpoint(Endpoint)
<1> DEFINE s == Slot
           base == Resolve(s)
           ep == Endpoint
<1>1. s \in Slots
  <2>1. req.slots \in Seq(Slots) /\ at \in 1 .. Len(req.slots)
    BY EnvAssumption DEF EnvInv, EnvTypes, SlotsResolved
  <2>2. QED
    BY <2>1 DEF Slot
<1>2. WellTyped(config.compose) /\ WellTyped(config.ci)
  BY Layers
<1>3. IsName(CiClient)
  BY ValuesAssumption
<1>4. IsAddress(<<"localhost">>) /\ IsName(DefaultClient[s]) /\ IsName(<<s>>)
  BY <1>1, ValuesAssumption DEF IsName
<1>5. IsAddress(base.host) /\ IsAddress(base.url) /\ IsName(base.user)
  <2>1. IsAddress(base.host)
    BY <1>4, NamesLookedUp DEF Resolve
  <2>2. base.url = Or(Key(s, "url"), base.host \o <<s>>)
    BY DEF Resolve
  <2>3. IsAddress(base.host \o <<s>>)
    BY <1>4, <2>1, LongerThanSecrets DEF IsAddress
  <2>4. IsName(Pick(config.compose, Key(s, "user"), DefaultClient[s]))
    BY <1>2, <1>4, NamesPicked
  <2>5. base.user = Or(Key(s, "user"), Pick(config.compose, Key(s, "user"), DefaultClient[s]))
    BY DEF Resolve
  <2> HIDE DEF base
  <2>6. QED
    BY <2>1, <2>2, <2>3, <2>4, <2>5, NamesLookedUp
<1>6. /\ base.slot = s /\ base.id = Configured(Key(s, "id"), DefaultClient[s])
      /\ base.secret = Configured(Key(s, "secret"), NoSecret)
      /\ base.scope # NoScope /\ Key(s, "scope") \notin DOMAIN jobEnv => SharedScope(base.scope)
  BY DEF Resolve, OrShared, Or, SharedScope
<1>7. /\ Precedes(s, "url", base.url) /\ Precedes(s, "id", base.id)
      /\ Precedes(s, "secret", base.secret) /\ Precedes(s, "audience", base.audience)
      /\ Precedes(s, "user", base.user) /\ Precedes(s, "scope", base.scope)
  BY DEF Resolve, Precedes, Or, OrShared, Configured
<1>8. CASE req.ci
  <2>1. ep = ResolveCI(base)
    BY <1>8 DEF Endpoint
  <2>2. /\ ep.slot = s /\ ep.host = base.host /\ ep.url = base.url
        /\ ep.audience = base.audience /\ ep.scope = base.scope
        /\ ep.id = OfCiSlot(Key(s, "id")) /\ ep.secret = OfCiSlot(Key(s, "secret"))
        /\ ep.user = OfCiSlot(Key(s, "user"))
    BY <2>1 DEF ResolveCI, Resolve
  <2>3. IsName(ep.user)
    BY <1>2, <1>3, <2>2, NamesLookedUp, NamesPicked DEF OfCiSlot
  <2>4. Precedes(s, "id", ep.id) /\ Precedes(s, "secret", ep.secret) /\ Precedes(s, "user", ep.user)
    BY <2>2 DEF Precedes, OfCiSlot, Or
  <2>5. ep.secret \in DOMAIN Text /\ (s \in split \/ ep.id = ep.secret)
    BY <1>1, <2>2, OneClient
  <2> HIDE DEF ep, base, s
  <2>6. QED
    BY <1>1, <1>5, <1>6, <1>7, <2>2, <2>3, <2>4, <2>5 DEF SoundEndpoint, s, ep
<1>9. CASE ~req.ci
  <2>1. ep = base
    BY <1>9 DEF Endpoint
  <2>2. ep.secret # NoSecret
    BY DEF Accepts
  <2>3. ep.secret \in DOMAIN Text /\ (s \in split \/ ep.id = ep.secret)
    BY <1>1, <1>6, <2>1, <2>2, OneClient
  <2> HIDE DEF ep, base, s
  <2>4. QED
    BY <1>1, <1>5, <1>6, <1>7, <2>1, <2>3 DEF SoundEndpoint, s, ep
<1>10. QED
  BY <1>8, <1>9

\* What a variable has to be once its step has resolved the slot it is of.
SoundVar(x) == Stays(x) /\ Reportable(x) /\ Fits(x.key[2], x.value)

\* The variables of a slot.
LEMMA StaticVarsSound ==
  ASSUME EnvInv, NEW ep, SoundEndpoint(ep)
  PROVE  /\ StaticVars(ep) \in Seq(Elements(StaticVars(ep)))
         /\ PairedVars(StaticVars(ep))
         /\ \A x \in Elements(StaticVars(ep)) : x.key[1] = ep.slot /\ SoundVar(x)
<1> DEFINE url == Var(ep.slot, "url", ep.url)
           id == Var(ep.slot, "id", ep.id)
           secret == Secret(ep.slot, "secret", ep.secret)
           audience == Var(ep.slot, "audience", ep.audience)
           user == Var(ep.slot, "user", ep.user)
           scope == Var(ep.slot, "scope", ep.scope)
           pqs == Secret(ep.slot, "pqs", config.pqs)
           five == <<url, id, secret, audience, user>>
           scopes == Unless(ep.scope = NoScope, <<scope>>)
           passwords == Unless(~req.pqs, <<pqs>>)
<1>1. \A x \in {url, id, secret, audience, user, scope, pqs} : x.key[1] = ep.slot
  BY DEF Var, Secret, Key
<1>2. SoundVar(url)
  BY DEF SoundVar, SoundEndpoint, Stays, Reportable, Fits, Var, Key, Precedes, IsAddress
<1>3. SoundVar(id)
  BY DEF SoundVar, SoundEndpoint, Stays, Reportable, Fits, Var, Key, Precedes, Reported
<1>4. SoundVar(secret)
  BY DEF SoundVar, SoundEndpoint, Stays, Reportable, Fits, Secret, Key, Precedes
<1>5. SoundVar(audience) /\ (ep.scope # NoScope => SoundVar(scope))
  BY DEF SoundVar, SoundEndpoint, Stays, Reportable, Fits, Var, Key, Precedes, Reported
<1>6. SoundVar(user)
  BY DEF SoundVar, SoundEndpoint, Stays, Reportable, Fits, Var, Key, Precedes, Reported
<1>7. SoundVar(pqs)
  BY ValuesAssumption
     DEF EnvInv, EnvTypes, SoundVar, Stays, Reportable, Fits, Secret, Key, Static
<1>8. /\ five \in Seq(Elements(five)) /\ Elements(five) = {url, id, secret, audience, user}
      /\ DOMAIN five = 1 .. 5 /\ five[1] = url /\ five[2] = id /\ five[3] = secret
      /\ five[4] = audience /\ five[5] = user
  <2> HIDE DEF url, id, secret, audience, user
  <2>1. DOMAIN five = 1 .. 5 /\ five[1] = url /\ five[2] = id /\ five[3] = secret
        /\ five[4] = audience /\ five[5] = user
    OBVIOUS
  <2>2. Elements(five) = {url, id, secret, audience, user}
    BY <2>1 DEF Elements
  <2>3. five \in Seq({url, id, secret, audience, user})
    OBVIOUS
  <2>4. QED
    BY <2>1, <2>2, <2>3
<1>9. /\ scopes \in Seq(Elements(scopes)) /\ Elements(scopes) \subseteq {scope}
      /\ ep.scope = NoScope => Elements(scopes) = {}
      /\ passwords \in Seq(Elements(passwords)) /\ Elements(passwords) \subseteq {pqs}
  BY UnlessSequence
<1>10. PairedVars(five)
  <2>1. /\ url.key[2] = "url" /\ id.key[2] = "id" /\ secret.key[2] = "secret"
        /\ audience.key[2] = "audience" /\ user.key[2] = "user"
        /\ secret.key = Key(id.key[1], "secret") /\ id.key = Key(secret.key[1], "id")
        /\ id.key[1] \in split \/ id.value = secret.value
    BY DEF Var, Secret, Key, SoundEndpoint
  <2> HIDE DEF five, url, id, secret, audience, user
  <2>2. \A i \in DOMAIN five : i = 1 \/ i = 2 \/ i = 3 \/ i = 4 \/ i = 5
    BY <1>8
  <2>3. \A i \in DOMAIN five : (five[i].key[2] = "id" => i = 2) /\ (five[i].key[2] = "secret" => i = 3)
    BY <1>8, <2>1, <2>2
  <2>4. 3 \in DOMAIN five /\ 2 \in DOMAIN five /\ 2 + 1 = 3 /\ 3 - 1 = 2
    BY <1>8
  <2>5. QED
    BY <1>8, <2>1, <2>3, <2>4 DEF PairedVars
<1>11. PairedVars(scopes) /\ PairedVars(passwords)
  <2>1. scope.key[2] = "scope" /\ pqs.key[2] = "pqs"
    BY DEF Var, Secret, Key
  <2>2. QED
    BY <1>9, <2>1, NoPairs
<1>12. StaticVars(ep) = (five \o scopes) \o passwords
  BY DEF StaticVars
<1> HIDE DEF five, scopes, passwords, url, id, secret, audience, user, scope, pqs
<1>13. /\ five \o scopes \in Seq(Elements(five \o scopes)) /\ PairedVars(five \o scopes)
       /\ Elements(five \o scopes) = Elements(five) \cup Elements(scopes)
  BY <1>8, <1>9, <1>10, <1>11, ElementsOfConcat, PairsOfConcat
<1>14. /\ StaticVars(ep) \in Seq(Elements(StaticVars(ep))) /\ PairedVars(StaticVars(ep))
       /\ Elements(StaticVars(ep)) = Elements(five) \cup Elements(scopes) \cup Elements(passwords)
  <2> DEFINE most == five \o scopes
  <2> HIDE DEF most
  <2>1. most \in Seq(Elements(most)) /\ PairedVars(most) /\ StaticVars(ep) = most \o passwords
    BY <1>12, <1>13 DEF most
  <2>2. /\ StaticVars(ep) \in Seq(Elements(StaticVars(ep))) /\ PairedVars(StaticVars(ep))
        /\ Elements(StaticVars(ep)) = Elements(most) \cup Elements(passwords)
    BY <1>9, <1>11, <2>1, ElementsOfConcat, PairsOfConcat
  <2>3. QED
    BY <1>13, <2>2 DEF most
<1>15. QED
  BY <1>1, <1>2, <1>3, <1>4, <1>5, <1>6, <1>7, <1>8, <1>9, <1>14

\* The variables that are not of a slot.
LEMMA GlobalVarsSound ==
  ASSUME EnvInv, NEW ep, SoundEndpoint(ep)
  PROVE  /\ GlobalVars(ep) \in Seq(Elements(GlobalVars(ep)))
         /\ PairedVars(GlobalVars(ep))
         /\ \A x \in Elements(GlobalVars(ep)) : x.key[1] = Shared /\ SoundVar(x)
<1> DEFINE host == Var(Shared, "host", ep.host)
           audience == Var(Shared, "audience", ep.audience)
           scope == Var(Shared, "scope", ep.scope)
           two == <<host, audience>>
           scopes == Unless(ep.scope = NoScope, <<scope>>)
<1>1. \A x \in {host, audience, scope} :
         x.key[1] = Shared /\ SoundVar(x) /\ x.key[2] \notin {"id", "secret"}
  BY DEF SoundVar, SoundEndpoint, Stays, Reportable, Fits, Var, Key, Reported, IsAddress
<1> HIDE DEF host, audience, scope
<1>2. two \in Seq(Elements(two)) /\ Elements(two) = {host, audience}
  <2>1. DOMAIN two = 1 .. 2 /\ two[1] = host /\ two[2] = audience /\ two \in Seq({host, audience})
    OBVIOUS
  <2>2. QED
    BY <2>1 DEF Elements
<1>3. scopes \in Seq(Elements(scopes)) /\ Elements(scopes) \subseteq {scope}
  BY UnlessSequence
<1>4. GlobalVars(ep) = two \o scopes
  BY DEF GlobalVars, host, audience, scope
<1> HIDE DEF two, scopes
<1>5. /\ GlobalVars(ep) \in Seq(Elements(GlobalVars(ep)))
      /\ Elements(GlobalVars(ep)) = Elements(two) \cup Elements(scopes)
  BY <1>2, <1>3, <1>4, ElementsOfConcat
<1>6. PairedVars(GlobalVars(ep))
  BY <1>1, <1>2, <1>3, <1>5, NoPairs
<1>7. QED
  BY <1>1, <1>2, <1>3, <1>5, <1>6

\* A line of a secret that was escaped for the runner, and unescaped by it, is
\* the line: every line of a secret is masked with its secret.
LEMMA MaskedLines ==
  ASSUME NEW S \in SUBSET DOMAIN Text, NEW v \in S
  PROVE  Runs(Text[v], LineEnds) \subseteq Masks(S)
<1> DEFINE text == Text[v]
<1>1. text \in Seq(STRING) /\ \A i \in DOMAIN text : text[i] # Escaped
  BY ValuesAssumption
<1>2. SUFFICES ASSUME NEW line \in Runs(text, LineEnds)
               PROVE  Unescape(EscapeData(line)) = line
  BY DEF Masks, SplitSecretLines
<1>3. PICK p \in (DOMAIN text) \X (DOMAIN text) : p[1] <= p[2] /\ line = SubSeq(text, p[1], p[2])
  BY DEF Runs
<1>4. /\ p[1] \in 1 .. Len(text) /\ p[2] \in 1 .. Len(text) /\ p[1] <= p[2]
      /\ line = SubSeq(text, p[1], p[2])
  BY <1>1, <1>3
<1>5. /\ line \in Seq(STRING)
      /\ \A i \in DOMAIN line : line[i] = text[p[1] + i - 1] /\ p[1] + i - 1 \in DOMAIN text
  <2> HIDE DEF text
  <2>1. QED
    BY <1>1, <1>4
<1>6. \A i \in DOMAIN line : line[i] # Escaped
  BY <1>1, <1>5
<1> DEFINE data == EscapeData(line)
<1>7. /\ DOMAIN data = DOMAIN line
      /\ \A i \in DOMAIN line : data[i] = IF line[i] = PercentOA THEN Escaped ELSE line[i]
  BY DEF EscapeData
<1>8. Unescape(data) = [i \in DOMAIN line |-> line[i]]
  <2> HIDE DEF data
  <2>1. \A i \in DOMAIN line :
          (CASE data[i] = Escaped -> PercentOA [] data[i] = PercentOA -> LF [] OTHER -> data[i])
             = line[i]
    BY <1>6, <1>7 DEF Escaped, PercentOA
  <2>2. QED
    BY <1>7, <2>1 DEF Unescape
<1>9. QED
  BY <1>5, <1>8

----------------------------------------------------------------------------
(* The environment that variables make.                                    *)

\* Of natural numbers there is a least one.
LEMMA LeastNatural ==
  ASSUME NEW T \in SUBSET Nat, T # {}
  PROVE  \E m \in T : \A r \in T : m <= r
<1> DEFINE R == {p \in Nat \X Nat : p[1] < p[2]}
<1>1. IsWellFoundedOn(R, Nat)
  BY NatLessThanWellFounded DEF OpToRel
<1>2. PICK m \in T : \A r \in T : <<r, m>> \notin R
  <2> HIDE DEF R
  <2>1. QED
    BY <1>1, WFMin
<1>3. SUFFICES ASSUME NEW r \in T PROVE m <= r
  OBVIOUS
<1>4. <<r, m>> \in Nat \X Nat /\ <<r, m>>[1] = r /\ <<r, m>>[2] = m
  OBVIOUS
<1>5. ~ (r < m)
  BY <1>2, <1>4
<1>6. QED
  BY <1>5

\* The last of the first n variables with a name.
LEMMA LastOfName ==
  ASSUME EnvTypes, NEW n \in 0 .. Len(exports), NEW k \in {exports[i].key : i \in 1 .. n}
  PROVE  \E i \in 1 .. n : exports[i].key = k /\ \A j \in i + 1 .. n : exports[j].key # k
<1> DEFINE named == {i \in 1 .. n : exports[i].key = k}
           rest == {n - i : i \in named}
<1>1. n \in Nat /\ named # {}
  BY DEF EnvTypes
<1>2. rest \in SUBSET Nat /\ rest # {}
  BY <1>1
<1>3. PICK m \in rest : \A r \in rest : m <= r
  BY <1>2, LeastNatural
<1>4. PICK i \in named : m = n - i
  BY <1>3
<1>5. \A j \in named : j <= i
  <2> SUFFICES ASSUME NEW j \in named PROVE j <= i
    OBVIOUS
  <2>1. n - j \in rest /\ j \in Int /\ i \in Int
    OBVIOUS
  <2>2. n - i <= n - j
    BY <1>3, <1>4, <2>1
  <2>3. QED
    BY <1>1, <2>1, <2>2
<1>6. \A j \in i + 1 .. n : exports[j].key # k
  BY <1>1, <1>4, <1>5
<1>7. QED
  BY <1>4, <1>6

\* The environment the first n variables make.
LEMMA ExportedEnv ==
  ASSUME EnvTypes, NEW n \in 0 .. Len(exports)
  PROVE  /\ DOMAIN Exported(n) = {exports[i].key : i \in 1 .. n} \cup DOMAIN jobEnv
         /\ \A k \in DOMAIN Exported(n) :
              \/ \E i \in 1 .. n :
                    /\ exports[i].key = k /\ \A j \in i + 1 .. n : exports[j].key # k
                    /\ Exported(n)[k] = exports[i].value
              \/ /\ k \in DOMAIN jobEnv /\ \A i \in 1 .. n : exports[i].key # k
                 /\ Exported(n)[k] = jobEnv[k]
<1> DEFINE keys == {exports[i].key : i \in 1 .. n}
           IsLast(k, i) == exports[i].key = k /\ \A j \in i + 1 .. n : exports[j].key # k
           last(k) == CHOOSE i \in 1 .. n : IsLast(k, i)
<1>1. Exported(n) = [k \in keys \cup DOMAIN jobEnv |->
                       IF k \in keys THEN exports[last(k)].value ELSE jobEnv[k]]
  BY DEF Exported
<1>2. ASSUME NEW k \in keys
      PROVE  last(k) \in 1 .. n /\ IsLast(k, last(k))
  <2>1. \E i \in 1 .. n : exports[i].key = k /\ \A j \in i + 1 .. n : exports[j].key # k
    BY <1>2, LastOfName
  <2>2. QED
    BY <2>1
<1> HIDE DEF last, IsLast
<1>3. ASSUME NEW k \in DOMAIN Exported(n)
      PROVE  \/ \E i \in 1 .. n : IsLast(k, i) /\ Exported(n)[k] = exports[i].value
             \/ k \in DOMAIN jobEnv /\ k \notin keys /\ Exported(n)[k] = jobEnv[k]
  BY <1>1, <1>2
<1>4. QED
  BY <1>1, <1>3 DEF IsLast

\* A member is added at the end.
LEMMA ElementsOfAppend ==
  ASSUME NEW s, s \in Seq(Elements(s)), NEW a
  PROVE  /\ Append(s, a) \in Seq(Elements(Append(s, a)))
         /\ Elements(Append(s, a)) = Elements(s) \cup {a}
         /\ Append(s, a) = s \o <<a>>
<1>1. Append(s, a) = s \o <<a>>
  <2> DEFINE S == Elements(s) \cup {a}
  <2>1. s \in Seq(S) /\ a \in S
    OBVIOUS
  <2> HIDE DEF S
  <2>2. QED
    BY <2>1
<1> DEFINE t == <<a>>
<1>2. t \in Seq(Elements(t)) /\ Elements(t) = {a} /\ Append(s, a) = s \o t
  BY <1>1, ShortSequences
<1> HIDE DEF t
<1>3. s \o t \in Seq(Elements(s \o t)) /\ Elements(s \o t) = Elements(s) \cup Elements(t)
  BY <1>2, ElementsOfConcat
<1>4. QED
  BY <1>1, <1>2, <1>3

----------------------------------------------------------------------------
(* The steps.                                                              *)

\* Before the first step nothing has been resolved.
LEMMA EnvInitHolds == ASSUME EnvInit PROVE EnvInv
<1>1. jobEnv \in JobEnvs /\ config \in Configs /\ req \in Requests
      /\ exports = <<>> /\ eps = <<>> /\ summary = {} /\ token = NoToken
      /\ phase = "idle" /\ at = 1 /\ split = Unpaired(jobEnv) \cup UnpairedIn(config)
  BY DEF EnvInit
<1>2. EnvTypes
  <2>1. eps \in Seq(Elements(eps)) /\ exports \in Seq(Elements(exports))
    BY <1>1, ShortSequences
  <2>2. QED
    BY <1>1, <2>1 DEF EnvTypes, Phases
<1>3. SlotsResolved
  BY <1>1 DEF SlotsResolved
<1>4. VarsSound /\ PairedVars(exports) /\ SecretsMasked /\ TokenInHand
  BY <1>1, ShortSequences, NoPairs DEF VarsSound, SecretsMasked, TokenInHand, Calling
<1>5. WellTyped(jobEnv) /\ PairedUnlessSplit /\ UnpairedIn(config) \subseteq split
  BY <1>1, ValuesAssumption DEF PairedUnlessSplit
<1>6. NothingOfFailedSteps
  BY DEF EnvInit, NothingOfFailedSteps
<1>7. QED
  BY <1>2, <1>3, <1>4, <1>5, <1>6 DEF EnvInv, JobSound

\* Neither the job nor the files change.
LEMMA JobUntouched ==
  ASSUME JobSound, UNCHANGED <<config, jobEnv, torn, split, complete>>
  PROVE  JobSound'
  BY DEF JobSound, WellTyped, PairedUnlessSplit, Unpaired, UnpairedIn, Paired, NothingOfFailedSteps

\* A step of the job that ends, or begins, has no variables.
LEMMA BoundaryStep ==
  ASSUME EnvInv, Begin \/ Fails \/ MaskFails \/ Summarize \/ Edit \/ UNCHANGED allvars
  PROVE  EnvInv'
<1> USE DEF job, local, history
<1>1. CASE Begin
  <2>1. /\ UNCHANGED <<config, jobEnv, masked, summary, at, eps, exports, token, torn, split, complete>>
        /\ phase = "idle" /\ phase' = "resolving" /\ req' \in Requests
    BY <1>1 DEF Begin
  <2>2. eps = <<>> /\ exports = <<>> /\ at = 1
    BY <2>1 DEF EnvInv, SlotsResolved
  <2>3. EnvTypes'
    BY <2>1 DEF EnvInv, EnvTypes, Phases, Elements
  <2>4. SlotsResolved'
    <3>1. req'.slots \in Seq(Slots) /\ req'.slots # <<>>
      BY <2>1, EnvAssumption
    <3>2. Len(req'.slots) \in Nat /\ 1 <= Len(req'.slots)
      BY <3>1
    <3>3. QED
      BY <2>1, <2>2, <3>2 DEF SlotsResolved
  <2>5. VarsSound' /\ PairedVars(exports)'
    BY <2>1, <2>2 DEF VarsSound, Elements, PairedVars
  <2>6. SecretsMasked' /\ TokenInHand'
    BY <2>1 DEF EnvInv, SecretsMasked, TokenInHand, Calling
  <2>7. JobSound'
    BY <2>1, JobUntouched DEF EnvInv
  <2>8. QED
    BY <2>3, <2>4, <2>5, <2>6, <2>7 DEF EnvInv
<1>2. CASE Fails \/ MaskFails \/ Summarize
  <2>1. Ends /\ UNCHANGED <<config, jobEnv, torn, split, complete>>
        /\ summary' \cap DOMAIN Text = {}
    <3>1. summary \cap DOMAIN Text = {}
      BY DEF EnvInv, SecretsMasked
    <3>2. CASE Fails \/ MaskFails
      BY <3>1, <3>2 DEF Fails, MaskFails
    <3>3. CASE Summarize
      <4>1. \A i \in DOMAIN exports : ~exports[i].secret /\ exports[i].key[2] \in Reported =>
              exports[i].value \notin DOMAIN Text
        BY DEF EnvInv, VarsSound, Elements, Reportable
      <4>2. QED
        BY <3>1, <3>3, <4>1 DEF Summarize
    <3>4. QED
      BY <1>2, <3>2, <3>3
  <2>2. EnvTypes'
    BY <2>1, ShortSequences DEF EnvInv, EnvTypes, Phases, Ends
  <2>3. SlotsResolved' /\ VarsSound' /\ PairedVars(exports)' /\ SecretsMasked' /\ TokenInHand'
    BY <2>1 DEF Ends, SlotsResolved, VarsSound, Elements, PairedVars, SecretsMasked, TokenInHand,
                Calling
  <2>4. JobSound'
    BY <2>1, JobUntouched DEF EnvInv
  <2>5. QED
    BY <2>2, <2>3, <2>4 DEF EnvInv
<1>3. CASE Edit \/ UNCHANGED allvars
  <2>1. /\ config' \in Configs /\ split \subseteq split' /\ UnpairedIn(config)' \subseteq split'
        /\ UNCHANGED <<jobEnv, masked, summary, req, phase, at, eps, exports, token, torn, complete>>
    <3>1. CASE Edit
      BY <3>1 DEF Edit, UnpairedIn, Unpaired, Paired
    <3>2. CASE UNCHANGED allvars
      BY <3>2 DEF EnvInv, EnvTypes, JobSound, allvars, UnpairedIn, Unpaired, Paired
    <3>3. QED
      BY <1>3, <3>1, <3>2
  <2>2. EnvTypes' /\ SlotsResolved'
    BY <2>1 DEF EnvInv, EnvTypes, Phases, Elements, SlotsResolved
  <2>3. VarsSound'
    BY <2>1 DEF EnvInv, VarsSound, Owners, Stays, SharedScope, Elements
  <2>4. PairedVars(exports)'
    BY <2>1 DEF EnvInv, PairedVars
  <2>5. SecretsMasked' /\ TokenInHand'
    BY <2>1 DEF EnvInv, SecretsMasked, TokenInHand, SecretVars, Known
  <2>6. JobSound'
    BY <2>1 DEF EnvInv, JobSound, WellTyped, PairedUnlessSplit, Unpaired, Paired,
                NothingOfFailedSteps
  <2>7. QED
    BY <2>2, <2>3, <2>4, <2>5, <2>6 DEF EnvInv
<1>4. QED
  BY <1>1, <1>2, <1>3

\* A slot is resolved: its variables are added.
LEMMA ResolveStep ==
  ASSUME EnvInv, ResolveSlot
  PROVE  EnvInv'
<1> DEFINE ep == Endpoint
           global == Unless(at > 1, GlobalVars(ep))
           static == StaticVars(ep)
           before == global \o exports
           new == before \o static
<1>1. /\ phase = "resolving" /\ Accepts(ep) /\ eps' = Append(eps, ep) /\ exports' = new
      /\ UNCHANGED <<job, req, token, history>>
      /\ IF at < Len(req.slots) THEN at' = at + 1 /\ phase' = phase
         ELSE at' = 1 /\ phase' = "masking"
  BY DEF ResolveSlot
<1>2. SoundEndpoint(ep)
  BY <1>1, Resolution
<1> HIDE DEF ep
<1>3. /\ static \in Seq(Elements(static)) /\ PairedVars(static)
      /\ \A x \in Elements(static) : x.key[1] = ep.slot /\ SoundVar(x)
  BY <1>2, StaticVarsSound
<1>4. /\ global \in Seq(Elements(global)) /\ PairedVars(global)
      /\ \A x \in Elements(global) : x.key[1] = Shared /\ SoundVar(x)
  <2>1. CASE at > 1
    <3>1. global = <<>>
      BY <2>1 DEF Unless
    <3>2. global \in Seq(Elements(global)) /\ Elements(global) = {}
      BY <3>1, ShortSequences
    <3>3. QED
      BY <3>2, NoPairs
  <2>2. CASE ~(at > 1)
    BY <1>2, <2>2, GlobalVarsSound DEF Unless
  <2>3. QED
    BY <2>1, <2>2
<1>5. /\ exports \in Seq(Elements(exports)) /\ PairedVars(exports)
      /\ \A x \in Elements(exports) : x.key[1] \in Owners /\ SoundVar(x)
  BY <1>1 DEF EnvInv, EnvTypes, VarsSound, SoundVar
<1> HIDE DEF global, static
<1>6. /\ before \in Seq(Elements(before)) /\ PairedVars(before)
      /\ Elements(before) = Elements(global) \cup Elements(exports)
  BY <1>4, <1>5, ElementsOfConcat, PairsOfConcat
<1> HIDE DEF before
<1>7. /\ new \in Seq(Elements(new)) /\ PairedVars(new)
      /\ Elements(new) = Elements(before) \cup Elements(static)
  BY <1>3, <1>6, ElementsOfConcat, PairsOfConcat
<1>8. /\ eps' \in Seq(Elements(eps')) /\ Len(eps') = Len(eps) + 1 /\ Len(eps) \in Nat
      /\ \A i \in DOMAIN eps : i \in DOMAIN eps' /\ eps'[i] = eps[i]
      /\ Len(eps') \in DOMAIN eps' /\ eps'[Len(eps')] = ep
      /\ \A i \in DOMAIN eps' : i \in DOMAIN eps \/ i = Len(eps) + 1
  <2>1. eps \in Seq(Elements(eps))
    BY DEF EnvInv, EnvTypes
  <2>2. eps' \in Seq(Elements(eps'))
    BY <1>1, <2>1, ElementsOfAppend
  <2>3. eps \in Seq(Elements(eps) \cup {ep}) /\ ep \in Elements(eps) \cup {ep}
    BY <2>1
  <2>4. QED
    BY <1>1, <2>2, <2>3
<1>9. EnvTypes'
  BY <1>1, <1>7, <1>8 DEF EnvInv, EnvTypes, Phases, job, history
<1>10. SlotsResolved'
  <2>1. at = Len(eps) + 1 /\ at <= Len(req.slots) /\ Len(req.slots) \in Nat
    BY <1>1, EnvAssumption DEF EnvInv, SlotsResolved, EnvTypes
  <2>2. \A i \in DOMAIN eps' : eps'[i].slot = req.slots[i] /\ IsName(eps'[i].user)
    BY <1>2, <1>8, <2>1 DEF EnvInv, SlotsResolved, SoundEndpoint, Slot
  <2>3. DOMAIN eps' = 1 .. Len(eps')
    BY <1>8
  <2>4. QED
    BY <1>1, <1>8, <2>1, <2>2, <2>3 DEF SlotsResolved
<1>11. VarsSound'
  <2>1. Owners \subseteq Owners' /\ ep.slot \in Owners' /\ Shared \in Owners'
    BY <1>8 DEF Owners
  <2>2. \A x \in Elements(new) : x.key[1] \in Owners' /\ SoundVar(x)
    BY <1>3, <1>4, <1>5, <1>6, <1>7, <2>1
  <2>3. \A x : SoundVar(x) => Stays(x)' /\ Reportable(x) /\ Fits(x.key[2], x.value)
    BY <1>1 DEF SoundVar, Stays, SharedScope, job
  <2>4. Elements(exports)' = Elements(new)
    BY <1>1 DEF Elements
  <2> HIDE DEF new
  <2>5. QED
    BY <2>2, <2>3, <2>4 DEF VarsSound
<1>12. PairedVars(exports)'
  <2> HIDE DEF new
  <2>1. QED
    BY <1>1, <1>7 DEF PairedVars, history
<1>13. SecretsMasked' /\ TokenInHand'
  BY <1>1 DEF EnvInv, SecretsMasked, TokenInHand, Calling, job
<1>14. JobSound'
  BY <1>1, JobUntouched DEF EnvInv, job, history
<1>15. QED
  BY <1>9, <1>10, <1>11, <1>12, <1>13, <1>14 DEF EnvInv

\* Every secret a step exports has a text.
LEMMA SecretsHaveText ==
  ASSUME EnvInv
  PROVE  SecretVars \subseteq DOMAIN Text
  BY DEF EnvInv, VarsSound, Reportable, Elements, SecretVars

\* What is masked stays masked, and what is being masked is from now on.
LEMMA MaskStep ==
  ASSUME EnvInv, Mask \/ MaskJwt
  PROVE  EnvInv'
<1>1. /\ UNCHANGED <<config, jobEnv, summary, local, torn, split, complete>>
      /\ phase' \in Phases \ {"idle", "resolving", "maskingJwt", "reporting"}
      /\ phase \notin {"idle", "resolving", "reporting"}
      /\ masked \subseteq masked'
      /\ \/ /\ phase = "masking" /\ phase' \in {"minting", "appending"}
            /\ masked' = masked \cup Masks(SecretVars)
         \/ /\ phase = "maskingJwt" /\ phase' \in {"findingParticipant", "findingParty"}
            /\ masked' = masked \cup Masks({token})
  BY DEF Mask, MaskJwt, history, Phases
<1>2. EnvTypes' /\ SlotsResolved'
  BY <1>1 DEF EnvInv, EnvTypes, Elements, SlotsResolved, local
<1>3. VarsSound' /\ PairedVars(exports)'
  BY <1>1 DEF EnvInv, VarsSound, Owners, Stays, SharedScope, Elements, PairedVars, local
<1>4. phase = "maskingJwt" => token \in Tokens /\ Known(token)'
  <2> SUFFICES ASSUME phase = "maskingJwt" PROVE token \in Tokens /\ Known(token)'
    OBVIOUS
  <2>1. token \in Tokens /\ token \in DOMAIN Text
    BY ValuesAssumption DEF EnvInv, TokenInHand
  <2>2. Runs(Text[token], LineEnds) \subseteq Masks({token})
    BY <2>1, MaskedLines
  <2>3. token' = token /\ masked' = masked \cup Masks({token})
    BY <1>1 DEF local
  <2>4. QED
    BY <2>1, <2>2, <2>3 DEF Known
<1>5. SecretsMasked'
  <2>1. \A v \in SecretVars : Runs(Text[v], LineEnds) \subseteq masked'
    <3>1. CASE masked' = masked \cup Masks(SecretVars)
      BY <3>1, SecretsHaveText, MaskedLines
    <3>2. CASE phase = "maskingJwt"
      <4>1. \A v \in SecretVars \ {token} : Runs(Text[v], LineEnds) \subseteq masked'
        BY <1>1, <3>2 DEF EnvInv, SecretsMasked, Known
      <4>2. Runs(Text[token], LineEnds) \subseteq masked'
        BY <1>1, <1>4, <3>2 DEF Known, local
      <4>3. QED
        BY <4>1, <4>2
    <3>3. QED
      BY <1>1, <3>1, <3>2
  <2>2. SecretVars' = SecretVars
    BY <1>1 DEF SecretVars, local
  <2>3. QED
    BY <1>1, <2>1, <2>2 DEF EnvInv, SecretsMasked, Known
<1>6. TokenInHand'
  BY <1>1, <1>4 DEF EnvInv, TokenInHand, local
<1>7. JobSound'
  BY <1>1, JobUntouched DEF EnvInv
<1>8. QED
  BY <1>2, <1>3, <1>5, <1>6, <1>7 DEF EnvInv

\* A step that adds sound variables of its slot that are neither ids nor
\* secrets of clients, and nothing but a token that is secret.
LEMMA AddingStep ==
  ASSUME EnvInv, NEW more, more \in Seq(Elements(more)), exports' = exports \o more,
         \A x \in Elements(more) :
            /\ x.key[1] = Slot /\ SoundVar(x) /\ x.key[2] \notin {"id", "secret"}
            /\ x.secret => x.value = token' /\ phase' = "maskingJwt",
         UNCHANGED <<config, jobEnv, masked, summary, req, eps, torn, split, complete>>,
         TokenInHand',
         phase \in {"minting", "findingParticipant", "findingParty"},
         phase' \in Phases \ {"idle", "resolving", "reporting"},
         at' \in DOMAIN eps
  PROVE  EnvInv'
<1>1. exports \in Seq(Elements(exports)) /\ eps \in Seq(Elements(eps)) /\ at \in DOMAIN eps
      /\ Len(eps) = Len(req.slots)
  BY DEF EnvInv, EnvTypes, SlotsResolved
<1> DEFINE new == exports \o more
<1>2. /\ new \in Seq(Elements(new)) /\ Elements(new) = Elements(exports) \cup Elements(more)
      /\ PairedVars(new)
  BY <1>1, NoPairs, ElementsOfConcat, PairsOfConcat DEF EnvInv
<1> HIDE DEF new
<1>3. exports' = new /\ Elements(exports)' = Elements(new)
  BY DEF Elements, new
<1>4. EnvTypes'
  BY <1>1, <1>2, <1>3 DEF EnvInv, EnvTypes, Elements
<1>5. SlotsResolved'
  BY <1>1 DEF EnvInv, SlotsResolved
<1>6. Slot \in Owners
  BY <1>1 DEF EnvInv, SlotsResolved, Owners, Slot
<1>7. VarsSound'
  <2>1. \A x \in Elements(new) : x.key[1] \in Owners /\ SoundVar(x)
    BY <1>2, <1>6 DEF EnvInv, VarsSound, SoundVar
  <2>2. Owners' = Owners /\ \A x : SoundVar(x) => Stays(x)' /\ Reportable(x) /\ Fits(x.key[2], x.value)
    BY DEF Owners, SoundVar, Stays, SharedScope
  <2>3. QED
    BY <1>3, <2>1, <2>2 DEF VarsSound
<1>8. PairedVars(exports)'
  BY <1>2, <1>3 DEF PairedVars
<1>9. SecretsMasked'
  <2>1. \A v \in SecretVars : Known(v)
    BY DEF EnvInv, SecretsMasked, Calling
  <2>2. \A v \in SecretVars' : v \in SecretVars \/ (v = token' /\ phase' = "maskingJwt")
    <3>1. SUFFICES ASSUME NEW i \in DOMAIN exports', exports'[i].secret
                   PROVE  exports'[i].value \in SecretVars
                            \/ (exports'[i].value = token' /\ phase' = "maskingJwt")
      BY DEF SecretVars
    <3>2. exports'[i] \in Elements(exports) \cup Elements(more)
      BY <1>2, <1>3 DEF Elements
    <3>3. CASE exports'[i] \in Elements(exports)
      BY <3>1, <3>3 DEF Elements, SecretVars
    <3>4. CASE exports'[i] \in Elements(more)
      BY <3>1, <3>4
    <3>5. QED
      BY <3>2, <3>3, <3>4
  <2>3. \A v : (Runs(Text[v], LineEnds) \subseteq masked') <=> Known(v)
    BY DEF Known
  <2>4. phase' \in Calling \cup {"appending", "reporting"} => phase' # "maskingJwt"
    BY DEF Calling
  <2>5. summary' \cap DOMAIN Text = {}
    BY DEF EnvInv, SecretsMasked
  <2>6. QED
    BY <2>1, <2>2, <2>3, <2>4, <2>5 DEF SecretsMasked, Known
<1>10. JobSound'
  BY JobUntouched DEF EnvInv
<1>11. QED
  BY <1>4, <1>5, <1>7, <1>8, <1>9, <1>10 DEF EnvInv

\* The calls that find a token, a participant and a party.
LEMMA CallStep ==
  ASSUME EnvInv, Mint \/ FindParticipant \/ FindParty
  PROVE  EnvInv'
<1> USE DEF job, history
<1>1. exports \in Seq(Elements(exports)) /\ eps \in Seq(Elements(eps)) /\ Tokens \subseteq DOMAIN Text
  BY ValuesAssumption DEF EnvInv, EnvTypes
<1>2. at \in DOMAIN eps /\ IsName(eps[at].user)
  BY DEF EnvInv, SlotsResolved, Mint, FindParticipant, FindParty
<1>3. CASE Mint
  <2> DEFINE jwt == Secret(Slot, "jwt", token')
             more == Unless(~req.jwt, <<jwt>>)
  <2>1. /\ more \in Seq(Elements(more)) /\ Elements(more) \subseteq {jwt}
        /\ req.jwt \/ Elements(more) = {}
    BY UnlessSequence
  <2>2. /\ jwt.key[1] = Slot /\ jwt.key[2] = "jwt" /\ jwt.value = token' /\ SoundVar(jwt)
    BY <1>1, <1>3 DEF Mint, Secret, Key, SoundVar, Stays, Reportable, Fits, Static
  <2>3. /\ exports' = exports \o more /\ (req.jwt => phase' = "maskingJwt")
        /\ UNCHANGED <<config, jobEnv, masked, summary, req, eps, at, torn, split, complete>>
        /\ phase = "minting" /\ phase' \in Phases \ {"idle", "resolving", "reporting"}
    BY <1>3 DEF Mint, Phases
  <2>4. TokenInHand'
    BY <1>3 DEF Mint, TokenInHand
  <2> HIDE DEF jwt, more
  <2>5. QED
    BY <1>2, <2>1, <2>2, <2>3, <2>4, AddingStep
<1>4. CASE FindParticipant
  <2> DEFINE participant == Var(Slot, "participant", <<"participant", Slot>>)
             more == <<participant>>
  <2>1. more \in Seq(Elements(more)) /\ Elements(more) = {participant}
    BY ShortSequences
  <2>2. /\ participant.key[1] = Slot /\ participant.key[2] = "participant"
        /\ ~participant.secret /\ SoundVar(participant)
    BY DEF Var, Key, SoundVar, Stays, Reportable, Fits, Static, Reported
  <2>3. /\ exports' = exports \o more
        /\ UNCHANGED <<config, jobEnv, masked, summary, req, eps, at, torn, split, complete>>
        /\ phase = "findingParticipant" /\ phase' \in Phases \ {"idle", "resolving", "reporting"}
    BY <1>1, <1>4, ElementsOfAppend DEF FindParticipant, Phases
  <2>4. TokenInHand'
    BY <1>4 DEF EnvInv, FindParticipant, TokenInHand, Known
  <2> HIDE DEF participant, more
  <2>5. QED
    BY <1>2, <2>1, <2>2, <2>3, <2>4, AddingStep
<1>5. CASE FindParty
  <2> DEFINE value == <<"party">> \o eps[at].user
             party == Var(Slot, "party", value)
             more == Unless(~req.party, <<party>>)
  <2>1. more \in Seq(Elements(more)) /\ Elements(more) \subseteq {party}
    BY UnlessSequence
  <2>2. IsAddress(value)
    BY <1>2, ValuesAssumption, LongerThanSecrets
  <2> HIDE DEF value
  <2>3. /\ party.key[1] = Slot /\ party.key[2] = "party" /\ ~party.secret /\ SoundVar(party)
    BY <2>2 DEF Var, Key, SoundVar, Stays, Reportable, Fits, Static, Reported, IsAddress
  <2>4. /\ exports' = exports \o more
        /\ UNCHANGED <<config, jobEnv, masked, summary, req, eps, torn, split, complete>>
        /\ phase = "findingParty" /\ phase' \in Phases \ {"idle", "resolving", "reporting"}
        /\ at' \in DOMAIN eps
    BY <1>1, <1>2, <1>5 DEF FindParty, NextSlot, Phases, value
  <2>5. TokenInHand'
    BY <1>5 DEF FindParty, NextSlot, TokenInHand
  <2> HIDE DEF party, more
  <2>6. QED
    BY <2>1, <2>3, <2>4, <2>5, AddingStep
<1>6. QED
  BY <1>3, <1>4, <1>5

\* Of the variables a step writes, the last one of each name counts: it fits its
\* name, it stays what the job had, and a scope the job had not is the shared one.
LEMMA ExportedSound ==
  ASSUME EnvInv, NEW n \in 0 .. Len(exports), phase = "appending"
  PROVE  /\ WellTyped(Exported(n))
         /\ \A k \in DOMAIN jobEnv : k \in DOMAIN Exported(n)
                /\ (k[1] # Shared /\ k[2] \in Static => Exported(n)[k] = jobEnv[k])
         /\ \A k \in DOMAIN Exported(n) \ DOMAIN jobEnv :
                k[1] # Shared /\ k[2] = "scope" => SharedScope(Exported(n)[k])
<1> DEFINE env == Exported(n)
<1>1. /\ DOMAIN env = {exports[i].key : i \in 1 .. n} \cup DOMAIN jobEnv
      /\ \A k \in DOMAIN env :
           \/ \E i \in 1 .. n : exports[i].key = k /\ env[k] = exports[i].value
           \/ k \in DOMAIN jobEnv /\ env[k] = jobEnv[k]
  <2>1. /\ DOMAIN env = {exports[i].key : i \in 1 .. n} \cup DOMAIN jobEnv
        /\ \A k \in DOMAIN env :
             \/ \E i \in 1 .. n :
                   /\ exports[i].key = k /\ \A j \in i + 1 .. n : exports[j].key # k
                   /\ env[k] = exports[i].value
             \/ /\ k \in DOMAIN jobEnv /\ \A i \in 1 .. n : exports[i].key # k
                /\ env[k] = jobEnv[k]
    BY ExportedEnv DEF EnvInv
  <2> HIDE DEF env
  <2>2. QED
    BY <2>1
<1>2. \A i \in 1 .. n : Stays(exports[i]) /\ Fits(exports[i].key[2], exports[i].value)
  BY DEF EnvInv, EnvTypes, VarsSound, Elements
<1> HIDE DEF env
<1>3. \A k \in DOMAIN jobEnv : k \in DOMAIN env
          /\ (k[1] # Shared /\ k[2] \in Static => env[k] = jobEnv[k])
  BY <1>1, <1>2 DEF Stays
<1>4. WellTyped(env)
  BY <1>1, <1>2 DEF EnvInv, JobSound, WellTyped, Fits
<1>5. \A k \in DOMAIN env \ DOMAIN jobEnv :
         k[1] # Shared /\ k[2] = "scope" => SharedScope(env[k])
  BY <1>1, <1>2 DEF Stays
<1>6. QED
  BY <1>3, <1>4, <1>5 DEF env

\* Of a slot that is not split, the first variables keep the id and the secret
\* those of one client: unless the last of them is the id, cut from its secret.
LEMMA ExportedPaired ==
  ASSUME EnvInv, phase = "appending", NEW n \in 0 .. Len(exports),
         NEW s \in Slots \ split, n \in DOMAIN exports => exports[n].key # Key(s, "id")
  PROVE  Paired(Exported(n), s)
<1> DEFINE env == Exported(n)
<1>1. /\ n \in Nat /\ DOMAIN exports = 1 .. Len(exports) /\ Len(exports) \in Nat
      /\ 1 .. n \subseteq DOMAIN exports
      /\ PairedVars(exports) /\ Paired(jobEnv, s)
  BY Layers DEF EnvInv, EnvTypes
<1>2. /\ DOMAIN env = {exports[i].key : i \in 1 .. n} \cup DOMAIN jobEnv
      /\ \A k \in DOMAIN env :
           \/ \E i \in 1 .. n :
                 /\ exports[i].key = k /\ \A j \in i + 1 .. n : exports[j].key # k
                 /\ env[k] = exports[i].value
           \/ /\ k \in DOMAIN jobEnv /\ \A i \in 1 .. n : exports[i].key # k
              /\ env[k] = jobEnv[k]
  BY <1>1, ExportedEnv DEF EnvInv
<1> HIDE DEF env
<1> SUFFICES ASSUME {Key(s, "id"), Key(s, "secret")} \cap DOMAIN env # {}
             PROVE  /\ {Key(s, "id"), Key(s, "secret")} \subseteq DOMAIN env
                    /\ env[Key(s, "id")] = env[Key(s, "secret")]
  BY DEF Paired, env
<1> DEFINE id == Key(s, "id")
           secret == Key(s, "secret")
<1>3. id[1] = s /\ id[2] = "id" /\ secret[1] = s /\ secret[2] = "secret" /\ id # secret
  BY DEF Key
<1>4. \A i \in 1 .. n : exports[i].key = id =>
          /\ i + 1 \in 1 .. n /\ exports[i + 1].key = secret
          /\ exports[i].value = exports[i + 1].value
  <2> SUFFICES ASSUME NEW i \in 1 .. n, exports[i].key = id
               PROVE  /\ i + 1 \in 1 .. n /\ exports[i + 1].key = secret
                      /\ exports[i].value = exports[i + 1].value
    OBVIOUS
  <2>1. i \in DOMAIN exports /\ exports[i].key[1] = s /\ exports[i].key[2] = "id" /\ s \notin split
    BY <1>1, <1>3
  <2>2. /\ exports[i + 1].key = secret /\ exports[i].value = exports[i + 1].value
    BY <1>1, <2>1 DEF PairedVars
  <2>3. i # n
    BY <1>1
  <2> HIDE DEF id, secret
  <2>4. QED
    BY <1>1, <2>2, <2>3
<1>5. \A i \in 1 .. n : exports[i].key = secret =>
          i - 1 \in 1 .. n /\ exports[i - 1].key = id
  <2> SUFFICES ASSUME NEW i \in 1 .. n, exports[i].key = secret
               PROVE  i - 1 \in 1 .. n /\ exports[i - 1].key = id
    OBVIOUS
  <2>1. i \in DOMAIN exports /\ exports[i].key[1] = s /\ exports[i].key[2] = "secret"
    BY <1>1, <1>3
  <2>2. i - 1 \in DOMAIN exports /\ exports[i - 1].key = id
    BY <1>1, <2>1 DEF PairedVars
  <2> HIDE DEF id, secret
  <2>3. QED
    BY <1>1, <2>2
<1>6. id \in DOMAIN jobEnv \/ secret \in DOMAIN jobEnv =>
          id \in DOMAIN jobEnv /\ secret \in DOMAIN jobEnv /\ jobEnv[id] = jobEnv[secret]
  BY <1>1 DEF Paired
<1> HIDE DEF id, secret
<1>7. CASE \E i \in 1 .. n : exports[i].key \in {id, secret}
  <2>1. id \in DOMAIN env /\ secret \in DOMAIN env
    BY <1>2, <1>4, <1>5, <1>7
  <2>2. PICK i \in 1 .. n :
            /\ exports[i].key = id /\ \A j \in i + 1 .. n : exports[j].key # id
            /\ env[id] = exports[i].value
    BY <1>2, <1>4, <1>5, <1>7, <2>1
  <2>3. PICK l \in 1 .. n :
            /\ exports[l].key = secret /\ \A j \in l + 1 .. n : exports[j].key # secret
            /\ env[secret] = exports[l].value
    BY <1>2, <1>4, <1>5, <1>7, <2>1
  <2>4. l = i + 1
    <3>1. i + 1 \in 1 .. n /\ exports[i + 1].key = secret
      BY <1>4, <2>2
    <3>2. l - 1 \in 1 .. n /\ exports[l - 1].key = id
      BY <1>5, <2>3
    <3>3. ~(l < i + 1)
      BY <1>1, <2>3, <3>1
    <3>4. ~(l - 1 > i)
      BY <1>1, <2>2, <3>2
    <3>5. QED
      BY <1>1, <3>3, <3>4
  <2>5. QED
    BY <1>4, <2>1, <2>2, <2>3, <2>4 DEF id, secret
<1>8. CASE \A i \in 1 .. n : exports[i].key \notin {id, secret}
  <2>1. id \in DOMAIN jobEnv /\ secret \in DOMAIN jobEnv /\ jobEnv[id] = jobEnv[secret]
    BY <1>2, <1>6, <1>8 DEF id, secret
  <2>2. QED
    BY <1>2, <1>8, <2>1 DEF id, secret
<1>9. QED
  BY <1>7, <1>8

\* The variables are appended, all of them or only the first.
LEMMA AppendStep ==
  ASSUME EnvInv, AppendEnv \/ AppendTorn
  PROVE  EnvInv'
<1> USE DEF local
<1>1. CASE AppendEnv
  <2> DEFINE n == Len(exports)
  <2>1. /\ phase = "appending" /\ phase' = "reporting" /\ jobEnv' = Exported(n)
        /\ complete' = complete \cup {eps[i].slot : i \in DOMAIN eps}
        /\ UNCHANGED <<config, masked, summary, req, at, eps, exports, token, torn, split>>
    BY <1>1 DEF AppendEnv
  <2>2. n \in 0 .. Len(exports) /\ DOMAIN exports = 1 .. n
    BY DEF EnvInv, EnvTypes
  <2>3. EnvTypes' /\ SlotsResolved'
    BY <2>1 DEF EnvInv, EnvTypes, Phases, Elements, SlotsResolved
  <2>4. VarsSound' /\ PairedVars(exports)'
    BY <2>1 DEF EnvInv, VarsSound, Owners, Elements, PairedVars
  <2>5. SecretsMasked' /\ TokenInHand'
    BY <2>1 DEF EnvInv, SecretsMasked, TokenInHand, SecretVars, Known, Calling
  <2>6. WellTyped(jobEnv')
    BY <2>1, <2>2, ExportedSound
  <2>7. Unpaired(jobEnv') \subseteq split
    <3>1. SUFFICES ASSUME NEW s \in Slots \ split PROVE Paired(jobEnv', s)
      BY DEF Unpaired
    <3>2. n \in DOMAIN exports => exports[n].key # Key(s, "id")
      <4>1. n + 1 \notin DOMAIN exports
        BY <2>2
      <4>2. Key(s, "id")[2] = "id"
        BY DEF Key
      <4>3. QED
        BY <4>1, <4>2 DEF EnvInv, PairedVars
    <3>3. QED
      BY <2>1, <2>2, <3>2, ExportedPaired
  <2>8. NothingOfFailedSteps'
    <3>1. DOMAIN jobEnv' = {exports[i].key : i \in 1 .. n} \cup DOMAIN jobEnv
      BY <2>1, <2>2, ExportedEnv DEF EnvInv
    <3>2. \A i \in 1 .. n : exports[i].key[1] \in Owners
      BY <2>2 DEF EnvInv, VarsSound, Elements
    <3>3. QED
      BY <2>1, <3>1, <3>2 DEF EnvInv, JobSound, NothingOfFailedSteps, Owners
  <2>9. JobSound'
    BY <2>1, <2>6, <2>7, <2>8
       DEF EnvInv, JobSound, WellTyped, PairedUnlessSplit, Unpaired, UnpairedIn, Paired
  <2>10. QED
    BY <2>3, <2>4, <2>5, <2>9 DEF EnvInv
<1>2. CASE AppendTorn
  <2>1. PICK n \in 1 .. Len(exports) - 1 :
            /\ jobEnv' = Exported(n)
            /\ split' = split \cup {s \in Slots : exports[n].key = Key(s, "id")}
    BY <1>2 DEF AppendTorn
  <2>2. /\ phase = "appending" /\ torn' = TRUE /\ Ends
        /\ UNCHANGED <<config, masked, summary, complete>>
    BY <1>2 DEF AppendTorn
  <2>3. n \in 0 .. Len(exports)
    BY DEF EnvInv, EnvTypes
  <2>4. EnvTypes'
    BY <2>2, ShortSequences DEF EnvInv, EnvTypes, Phases, Ends
  <2>5. SlotsResolved' /\ VarsSound' /\ PairedVars(exports)'
    BY <2>2 DEF Ends, SlotsResolved, VarsSound, Elements, PairedVars
  <2>6. SecretsMasked' /\ TokenInHand'
    BY <2>2 DEF EnvInv, Ends, SecretsMasked, TokenInHand, Calling
  <2>7. WellTyped(jobEnv')
    BY <2>1, <2>2, <2>3, ExportedSound
  <2>8. Unpaired(jobEnv') \subseteq split'
    <3>1. SUFFICES ASSUME NEW s \in Slots \ split' PROVE Paired(jobEnv', s)
      BY DEF Unpaired
    <3>2. s \in Slots \ split /\ exports[n].key # Key(s, "id")
      BY <2>1
    <3>3. QED
      BY <2>1, <2>2, <2>3, <3>2, ExportedPaired
  <2>9. JobSound'
    <3>1. UnpairedIn(config)' \subseteq split'
      BY <2>1, <2>2 DEF EnvInv, JobSound, UnpairedIn, Unpaired, Paired
    <3>2. NothingOfFailedSteps'
      BY <2>2 DEF NothingOfFailedSteps
    <3>3. QED
      BY <2>7, <2>8, <3>1, <3>2 DEF JobSound, WellTyped, PairedUnlessSplit, Unpaired, Paired
  <2>10. QED
    BY <2>4, <2>5, <2>6, <2>9 DEF EnvInv
<1>3. QED
  BY <1>1, <1>2

----------------------------------------------------------------------------
(* The theorems of a job.                                                  *)

\* The invariant of a job: what its endpoints and variables are, what is masked
\* at each point of a step, and what the environment has between two steps.
THEOREM EnvInvHolds == EnvSpec => []EnvInv
<1>1. EnvInit => EnvInv
  BY EnvInitHolds
<1>2. EnvInv /\ [EnvNext]_allvars => EnvInv'
  <2> SUFFICES ASSUME EnvInv, [EnvNext]_allvars PROVE EnvInv'
    OBVIOUS
  <2>1. CASE Begin \/ Fails \/ MaskFails \/ Summarize \/ Edit \/ UNCHANGED allvars
    BY <2>1, BoundaryStep
  <2>2. CASE ResolveSlot
    BY <2>2, ResolveStep
  <2>3. CASE Mask \/ MaskJwt
    BY <2>3, MaskStep
  <2>4. CASE Mint \/ FindParticipant \/ FindParty
    BY <2>4, CallStep
  <2>5. CASE AppendEnv \/ AppendTorn
    BY <2>5, AppendStep
  <2>6. QED
    BY <2>1, <2>2, <2>3, <2>4, <2>5 DEF EnvNext
<1>3. QED
  BY <1>1, <1>2, PTL DEF EnvSpec

\* From its first network call on no line of a secret that a step exports is
\* unmasked, the token of --jwt included, and the run report has no secret.
THEOREM SecretsKeptHolds == EnvSpec => []SecretsKept
<1>1. EnvInv => SecretsKept
  <2> SUFFICES ASSUME EnvInv PROVE SecretsKept
    OBVIOUS
  <2>1. ASSUME phase \in Calling \cup {"appending", "reporting"}, NEW v \in Secrets
        PROVE  Known(v) \/ (v = token /\ ~req.jwt)
    <3>1. CASE v \in SecretVars
      BY <2>1, <3>1 DEF EnvInv, SecretsMasked
    <3>2. CASE v = token /\ token # NoToken
      BY <2>1, <3>2 DEF EnvInv, TokenInHand, Calling
    <3>3. QED
      BY <3>1, <3>2 DEF Secrets
  <2>2. QED
    BY <2>1 DEF EnvInv, SecretsMasked, SecretsKept
<1>2. QED
  BY <1>1, EnvInvHolds, PTL

\* The id and the secret a job has of a slot are of one client, if each source
\* had both of them or neither and no append was cut between the two.
THEOREM PairedHolds == EnvSpec => []PairedUnlessSplit
<1>1. EnvInv => PairedUnlessSplit
  BY DEF EnvInv, JobSound
<1>2. QED
  BY <1>1, EnvInvHolds, PTL

\* A step that fails before it appends exports nothing.
THEOREM NothingOfFailedStepsHolds == EnvSpec => []NothingOfFailedSteps
<1>1. EnvInv => NothingOfFailedSteps
  BY DEF EnvInv, JobSound
<1>2. QED
  BY <1>1, EnvInvHolds, PTL

\* What a job has of a slot no later step changes, torn appends included, and a
\* scope it adds is the shared one.
THEOREM StableExportsHolds == EnvSpec => StableExports
<1> DEFINE Stable ==
             /\ \A k \in DOMAIN jobEnv :
                   k[1] # Shared /\ k[2] \in Static => jobEnv'[k] = jobEnv[k]
             /\ \A k \in DOMAIN jobEnv' \ DOMAIN jobEnv :
                   k[1] # Shared /\ k[2] = "scope" =>
                       /\ Key(Shared, "scope") \in DOMAIN jobEnv
                       /\ jobEnv'[k] = jobEnv[Key(Shared, "scope")]
<1>1. EnvInv /\ [EnvNext]_allvars => [Stable]_allvars
  <2> SUFFICES ASSUME EnvInv, EnvNext PROVE Stable
    OBVIOUS
  <2>1. CASE AppendEnv
    <3>1. phase = "appending" /\ jobEnv' = Exported(Len(exports))
      BY <2>1 DEF AppendEnv
    <3>2. Len(exports) \in 0 .. Len(exports)
      BY DEF EnvInv, EnvTypes
    <3>3. QED
      BY <3>1, <3>2, ExportedSound DEF SharedScope
  <2>2. CASE AppendTorn
    <3>1. PICK n \in 1 .. Len(exports) - 1 : jobEnv' = Exported(n)
      BY <2>2 DEF AppendTorn
    <3>2. phase = "appending" /\ n \in 0 .. Len(exports)
      BY <2>2 DEF AppendTorn, EnvInv, EnvTypes
    <3>3. QED
      BY <3>1, <3>2, ExportedSound DEF SharedScope
  <2>3. CASE Begin \/ ResolveSlot \/ Mask \/ MaskFails \/ Mint \/ MaskJwt \/ FindParticipant
             \/ FindParty \/ Summarize \/ Fails \/ Edit
    BY <2>3 DEF Begin, ResolveSlot, Mask, MaskFails, Mint, MaskJwt, FindParticipant, FindParty,
                NextSlot, Summarize, Fails, Edit, job
  <2>4. QED
    BY <2>1, <2>2, <2>3 DEF EnvNext
<1>2. QED
  BY <1>1, EnvInvHolds, PTL DEF EnvSpec, StableExports

=============================================================================
