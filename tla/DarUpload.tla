----------------------------- MODULE DarUpload -----------------------------
(***************************************************************************)
(* DarUploader of the C# library: uploads that run at the same time, each  *)
(* of which discovers the connected synchronizers, posts its DAR for each  *)
(* in turn with retries, and may read the package back. Every call takes a *)
(* token from the provider they share (TokenCache), which the fixture may  *)
(* dispose of meanwhile. It implements PackageVetting.                     *)
(***************************************************************************)
EXTENDS TokenCache, FiniteSets

CONSTANTS
    Dars,          \* DARs of one package name and version
    Dar,           \* of an upload: its DAR
    Expects,       \* uploads that give expectedMainPackageId
    Synchronizers,
    Null,          \* no synchronizerId: the participant takes one
    MaxAttempts    \* MaxAttempts of DarUploaderRetryOptions

ASSUME DarUploadAssumption ==
    /\ Dar \in [Calls -> Dars]
    /\ Expects \subseteq Calls
    /\ Null \notin Synchronizers
    /\ MaxAttempts \in Nat \ {0}

VARIABLES
    vetted,     \* pairs of a DAR and a site it is vetted on
    step,       \* where an upload is
    aims,       \* targets
    todo,       \* targets it has not come to the end of
    site,       \* the target it is at
    attempt,    \* attempt of SendWithRetryAsync
    reply,      \* the answer on its way
    anywhere,   \* uploadedAnywhere
    accepted,   \* history: sites its own POSTs vetted the DAR on
    outcome     \* how it ended

progress == <<aims, todo, site, attempt, anywhere>>
uploads == <<step, progress, reply, accepted, outcome>>
vars == <<provider, vetted, uploads>>

Sites == Synchronizers \cup {Null}

Init ==
    /\ TokenInit
    /\ vetted = {}
    /\ step = [c \in Calls |-> "idle"]
    /\ aims = [c \in Calls |-> {}] /\ todo = [c \in Calls |-> {}]
    /\ site = [c \in Calls |-> Null]
    /\ attempt = [c \in Calls |-> 0]
    /\ reply = [c \in Calls |-> "none"]
    /\ anywhere = [c \in Calls |-> FALSE]
    /\ accepted = [c \in Calls |-> {}]
    /\ outcome = [c \in Calls |-> "none"]

Set(f, c, value) == [f EXCEPT ![c] = value]

\* Its variables go with it.
Done(c, how) ==
    /\ step' = Set(step, c, "done") /\ outcome' = Set(outcome, c, how)
    /\ aims' = Set(aims, c, {}) /\ todo' = Set(todo, c, {})
    /\ site' = Set(site, c, Null) /\ attempt' = Set(attempt, c, 0)
    /\ anywhere' = Set(anywhere, c, FALSE)
    /\ reply' = Set(reply, c, "none") /\ accepted' = Set(accepted, c, {})

Ends(c, how) == Done(c, how) /\ UNCHANGED provider

\* The next call, for which a token is asked.
NextCall(c, next) ==
    /\ Ask(c)
    /\ step' = Set(step, c, next) /\ UNCHANGED outcome

Start(c) ==
    /\ step[c] = "idle"
    /\ NextCall(c, "discovery")
    /\ UNCHANGED <<vetted, progress, reply, accepted>>

\* The provider's refusal is the upload's.
TokenRefused(c) ==
    /\ step[c] \in {"discovery", "upload", "verification"} /\ TakeRefusal(c)
    /\ Done(c, "failed")
    /\ UNCHANGED vetted

ToDiscover(c) ==
    /\ step[c] = "discovery" /\ Take(c)
    /\ step' = Set(step, c, "discovering")
    /\ UNCHANGED <<vetted, progress, reply, accepted, outcome>>

ToPost(c) ==
    /\ step[c] = "upload" /\ Take(c)
    /\ step' = Set(step, c, "posting")
    /\ \E target \in todo[c] : site' = Set(site, c, target)
    /\ attempt' = Set(attempt, c, 1)
    /\ UNCHANGED <<vetted, aims, todo, anywhere, reply, accepted, outcome>>

ToVerify(c) ==
    /\ step[c] = "verification" /\ Take(c)
    /\ step' = Set(step, c, "verifying")
    /\ UNCHANGED <<vetted, progress, reply, accepted, outcome>>

\* The request is cancelled, times out, breaks off, or is answered with a
\* status that is neither retried nor taken for success.
Throws(c) ==
    /\ step[c] \in {"discovering", "posting", "verifying"}
    /\ Ends(c, "failed")
    /\ UNCHANGED vetted

\* ResolveVettingTargetsAsync.
Discovered(c) ==
    /\ step[c] = "discovering"
    /\ \E connected \in SUBSET Synchronizers :
        LET targets == IF connected = {} THEN {Null} ELSE connected
        IN  aims' = Set(aims, c, targets) /\ todo' = Set(todo, c, targets)
    /\ NextCall(c, "upload")
    /\ UNCHANGED <<vetted, site, attempt, anywhere, reply, accepted>>

Posts(c, how) == step[c] = "posting" /\ reply[c] = how /\ UNCHANGED vetted

\* The next target.
ToNext(c, uploaded) ==
    /\ NextCall(c, "upload")
    /\ todo' = Set(todo, c, todo[c] \ {site[c]})
    /\ site' = Set(site, c, Null) /\ attempt' = Set(attempt, c, 0)
    /\ anywhere' = Set(anywhere, c, uploaded)
    /\ reply' = Set(reply, c, "none")
    /\ UNCHANGED <<aims, accepted>>

\* Without an accepted upload, the package is there already.
AllKnown(c) ==
    IF c \in Expects
    THEN NextCall(c, "verification") /\ UNCHANGED <<progress, reply, accepted>>
    ELSE Ends(c, "known")

\* Fault: one accepted upload is enough.
OnFirstSuccess(c, uploaded) ==
    IF uploaded THEN Ends(c, "uploaded")
    ELSE IF todo[c] # {site[c]} THEN ToNext(c, uploaded) ELSE AllKnown(c)

\* The next target, or what follows the last one.
OnSuccess(c, uploaded) ==
    IF todo[c] # {site[c]} THEN ToNext(c, uploaded)
    ELSE IF uploaded THEN Ends(c, "uploaded") ELSE AllKnown(c)

PostAccepted(c) == Posts(c, "accepted") /\ OnSuccess(c, TRUE)

PostKnown(c) == Posts(c, "known") /\ OnSuccess(c, anywhere[c])

\* A 503 is retried with the same token.
PostUnavailable(c) ==
    /\ Posts(c, "unavailable")
    /\ IF attempt[c] < MaxAttempts
       THEN /\ attempt' = Set(attempt, c, attempt[c] + 1)
            /\ reply' = Set(reply, c, "none")
            /\ UNCHANGED <<provider, step, aims, todo, site, anywhere, accepted, outcome>>
       ELSE Ends(c, "failed")

\* PackageExistsAsync.
Verified(c) ==
    /\ step[c] = "verifying"
    /\ Ends(c, IF \E pair \in vetted : pair[1] = Dar[c] THEN "known" ELSE "failed")
    /\ UNCHANGED vetted

----------------------------------------------------------------------------
(* External: the participant, and a gateway before it.                     *)

KnownOn(place) == \E pair \in vetted : pair[2] = place
Awaited(c) == step[c] = "posting" /\ reply[c] = "none"

Answer(c) ==
    /\ Awaited(c)
    /\ IF KnownOn(site[c])
       THEN reply' = Set(reply, c, "known") /\ UNCHANGED <<vetted, accepted>>
       ELSE /\ vetted' = vetted \cup {<<Dar[c], site[c]>>}
            /\ accepted' = Set(accepted, c, accepted[c] \cup {site[c]})
            /\ \E how \in {"accepted", "unavailable"} : reply' = Set(reply, c, how)
    /\ UNCHANGED <<provider, step, progress, outcome>>

\* The participant is not reached, or is not up yet.
Unavailable(c) ==
    /\ Awaited(c)
    /\ reply' = Set(reply, c, "unavailable")
    /\ UNCHANGED <<provider, vetted, step, progress, accepted, outcome>>

\* The provider, and those who cancel and dispose.
Provide ==
    /\ \/ \E c \in Calls : Proceed(c) \/ Cancel(c)
       \/ Dispose \/ Tick
    /\ UNCHANGED <<vetted, uploads>>

Upload(c) ==
    \/ TokenRefused(c) \/ ToDiscover(c) \/ ToPost(c) \/ ToVerify(c)
    \/ Throws(c) \/ Discovered(c) \/ PostAccepted(c) \/ PostKnown(c)
    \/ PostUnavailable(c) \/ Verified(c) \/ Answer(c) \/ Unavailable(c)

Next ==
    \/ \E c \in Calls : Start(c) \/ Upload(c)
    \/ Provide

Spec == Init /\ [][Next]_vars

\* An HttpClient's request ends, and so does a delay between attempts.
Fairness == \A c \in Calls :
    WF_vars(Upload(c)) /\ WF_vars(Proceed(c) /\ UNCHANGED <<vetted, uploads>>)
FairSpec == Spec /\ Fairness

----------------------------------------------------------------------------
(* Properties.                                                             *)

PV == INSTANCE PackageVetting

\* An upload keeps the promises of PackageVetting, whatever was lost, retried,
\* vetted by others or connected since it chose its targets.
ImplementsPackageVetting == PV!Spec

\* An upload comes to an end, unless the provider is disposed of, which leaves
\* those who wait for its semaphore waiting.
UploadEnds ==
    \A c \in Calls : step[c] \notin {"idle", "done"} ~> step[c] = "done" \/ disposed

=============================================================================
