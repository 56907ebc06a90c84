--------------------------- MODULE PartyAllocation ---------------------------
(***************************************************************************)
(* PartyAllocator (csharp): POST /v2/parties is not idempotent, and a call *)
(* repeats it after a timeout, a 503, a 504 or a 409 of a request already  *)
(* in flight, while requests it has given up on are still at the           *)
(* participant. Calls of several allocators may carry the same hint.       *)
(***************************************************************************)
EXTENDS FiniteSets, Integers

CONSTANTS
    Calls,        \* calls of AllocateWithHintOnSynchronizerAsync
    Hints,        \* party hints; a party id is its hint, "::" and a namespace
    None,         \* no caller, no party
    MaxAttempts   \* _retryOptions.MaxAttempts

Answers == {"ok", "exists", "in-flight", "unavailable", "refused"}

\* The participant's 400 of a party that exists, its other refusals that are
\* not retried, and every other exception.
Reasons == {"exists", "refused", "error"}

ASSUME AllocationAssumption ==
    /\ MaxAttempts \in Nat \ {0}
    /\ None \notin Calls \cup Hints \cup Answers \cup Reasons

VARIABLES
    pc,            \* where a call is, or how it ended
    hint,          \* its partyIdHint
    attempt,       \* its loop counter, 0 before the first POST
    inconclusive,  \* its earlierAttemptInconclusive
    answer,        \* the answer to the POST it awaits
    why,           \* the outcome it threw
    party,         \* the party it returned
    inbox,         \* POSTs <<call, attempt>> the participant has not begun
    executing,     \* POSTs the participant is executing
    creator,       \* for each hint, the call whose POST made the party
    listed         \* parties GET /v2/parties shows

locals == <<hint, attempt, inconclusive>>
outcome == <<why, party>>
participant == <<inbox, executing, creator, listed>>
vars == <<pc, locals, answer, outcome, participant>>

Ended == {"done", "failed"}
States == {"idle", "discover", "token", "post", "backoff", "lookup"} \cup Ended
Posts == Calls \X (1 .. MaxAttempts)

Init ==
    /\ pc = [c \in Calls |-> "idle"]
    /\ hint = [c \in Calls |-> None]
    /\ attempt = [c \in Calls |-> 0]
    /\ inconclusive = [c \in Calls |-> FALSE]
    /\ answer = [c \in Calls |-> None]
    /\ why = [c \in Calls |-> None]
    /\ party = [c \in Calls |-> None]
    /\ inbox = {} /\ executing = {}
    /\ creator = [h \in Hints |-> None]
    /\ listed = {}

----------------------------------------------------------------------------
(* The call.                                                               *)

Throw(c, reason) ==
    /\ pc' = [pc EXCEPT ![c] = "failed"]
    /\ why' = [why EXCEPT ![c] = reason]
    /\ party' = party

Return(c, p) ==
    /\ pc' = [pc EXCEPT ![c] = "done"]
    /\ party' = [party EXCEPT ![c] = p]
    /\ why' = why

GoTo(c, state) ==
    /\ pc' = [pc EXCEPT ![c] = state]
    /\ UNCHANGED outcome

\* A caller that names a synchronizer skips its discovery.
Start(c) ==
    /\ pc[c] = "idle"
    /\ \E h \in Hints : hint' = [hint EXCEPT ![c] = h]
    /\ \E state \in {"discover", "token"} : GoTo(c, state)
    /\ UNCHANGED <<attempt, inconclusive, answer, participant>>

Discover(c) ==
    /\ pc[c] = "discover"
    /\ GoTo(c, "token") \/ Throw(c, "error")
    /\ UNCHANGED <<locals, answer, participant>>

\* Fault: the counter does not advance.
PostAgain(c) ==
    /\ inbox' = inbox \cup {<<c, 1>>}
    /\ GoTo(c, "post")
    /\ UNCHANGED <<hint, attempt, answer, executing, creator, listed>>

\* The loop counter advances, and SendAllocationAsync posts the hint.
PostNext(c) ==
    /\ attempt' = [attempt EXCEPT ![c] = @ + 1]
    /\ inbox' = inbox \cup {<<c, attempt[c] + 1>>}
    /\ GoTo(c, "post")
    /\ UNCHANGED <<hint, answer, executing, creator, listed>>

TokenObtained(c) ==
    /\ pc[c] = "token"
    /\ PostNext(c)
    /\ UNCHANGED inconclusive

TokenRefused(c) ==
    /\ pc[c] = "token"
    /\ Throw(c, "error")
    /\ UNCHANGED <<locals, answer, participant>>

\* Fault: the flag is not set before the loop goes on.
BackedOffForgetting(c) ==
    /\ pc[c] = "backoff"
    /\ UNCHANGED inconclusive
    /\ PostNext(c)

\* BackOffAsync returned.
BackedOff(c) ==
    /\ pc[c] = "backoff"
    /\ inconclusive' = [inconclusive EXCEPT ![c] = TRUE]
    /\ PostNext(c)

RetryOrThrow(c) ==
    IF attempt[c] >= MaxAttempts THEN Throw(c, "error") ELSE GoTo(c, "backoff")

\* HttpClient.Timeout: whatever the participant has done or will do.
TimedOut(c) ==
    /\ pc[c] = "post"
    /\ RetryOrThrow(c)
    /\ answer' = [answer EXCEPT ![c] = None]
    /\ UNCHANGED <<locals, participant>>

\* Any other failure of the transport, which is not caught.
ConnectionLost(c) ==
    /\ pc[c] = "post"
    /\ Throw(c, "error")
    /\ answer' = [answer EXCEPT ![c] = None]
    /\ UNCHANGED <<locals, participant>>

Receive(c, answers) ==
    /\ pc[c] = "post" /\ answer[c] \in answers
    /\ answer' = [answer EXCEPT ![c] = None]
    /\ UNCHANGED <<locals, participant>>

\* ReadAllocatedPartyAsync, which throws when the body names no party.
ReceiveParty(c) ==
    /\ Receive(c, {"ok"})
    /\ Return(c, hint[c]) \/ Throw(c, "error")

ReceiveTransient(c) ==
    /\ Receive(c, {"unavailable", "in-flight"})
    /\ RetryOrThrow(c)

\* Fault: the lookup whatever the earlier attempts came to.
AdoptsAlways(c) == TRUE

Adopts(c) == inconclusive[c]

ReceiveExists(c) ==
    /\ Receive(c, {"exists"})
    /\ IF Adopts(c) THEN GoTo(c, "lookup") ELSE Throw(c, "exists")

ReceiveRefused(c) ==
    /\ Receive(c, {"refused"})
    /\ Throw(c, "refused")

\* The listed parties whose id begins with the hint and "::": not those of a
\* longer hint that begins with this one.
WithPrefix(h) == {g \in listed : g = h}

\* FindPartyByHintAsync.
LookupAnswered(c) ==
    /\ pc[c] = "lookup"
    /\ IF WithPrefix(hint[c]) = {}
         THEN Throw(c, "error")
         ELSE \E p \in WithPrefix(hint[c]) : Return(c, p)
    /\ UNCHANGED <<locals, answer, participant>>

LookupFailed(c) ==
    /\ pc[c] = "lookup"
    /\ Throw(c, "error")
    /\ UNCHANGED <<locals, answer, participant>>

\* The caller's cancellationToken, honoured by every await.
Cancel(c) ==
    /\ pc[c] \notin {"idle"} \cup Ended
    /\ Throw(c, "error")
    /\ answer' = [answer EXCEPT ![c] = None]
    /\ UNCHANGED <<locals, participant>>

----------------------------------------------------------------------------
(* The participant. A POST nobody waits for any more is served all the     *)
(* same.                                                                   *)

client == <<pc, locals, outcome>>

Awaited(r) == pc[r[1]] = "post" /\ attempt[r[1]] = r[2] /\ answer[r[1]] = None

Reply(r, a) ==
    answer' = IF Awaited(r) THEN [answer EXCEPT ![r[1]] = a] ELSE answer

\* Another POST for the hint is being executed.
InFlight(h) == \E r \in executing : hint[r[1]] = h

Begin(r) ==
    /\ r \in inbox
    /\ creator[hint[r[1]]] = None /\ ~InFlight(hint[r[1]])
    /\ inbox' = inbox \ {r}
    /\ executing' = executing \cup {r}
    /\ UNCHANGED <<client, answer, creator, listed>>

AnswerExists(r) ==
    /\ r \in inbox
    /\ creator[hint[r[1]]] # None
    /\ inbox' = inbox \ {r}
    /\ Reply(r, "exists")
    /\ UNCHANGED <<client, executing, creator, listed>>

AnswerInFlight(r) ==
    /\ r \in inbox
    /\ InFlight(hint[r[1]])
    /\ inbox' = inbox \ {r}
    /\ Reply(r, "in-flight")
    /\ UNCHANGED <<client, executing, creator, listed>>

\* A 503 of a participant that is not ready, or any other refusal.
Refuse(r) ==
    /\ r \in inbox
    /\ inbox' = inbox \ {r}
    /\ \E a \in {"unavailable", "refused"} : Reply(r, a)
    /\ UNCHANGED <<client, executing, creator, listed>>

Commit(r) ==
    /\ r \in executing
    /\ executing' = executing \ {r}
    /\ creator' = [creator EXCEPT ![hint[r[1]]] = r[1]]
    /\ Reply(r, "ok")
    /\ UNCHANGED <<client, inbox, listed>>

Abort(r) ==
    /\ r \in executing
    /\ executing' = executing \ {r}
    /\ \E a \in {"unavailable", "refused"} : Reply(r, a)
    /\ UNCHANGED <<client, inbox, creator, listed>>

\* A gateway answers 504 for a POST that goes on.
GatewayGivesUp(r) ==
    /\ r \in inbox \cup executing
    /\ Awaited(r)
    /\ Reply(r, "unavailable")
    /\ UNCHANGED <<client, participant>>

\* A party that exists reaches the listing later.
List(h) ==
    /\ creator[h] # None
    /\ listed' = listed \cup {h}
    /\ UNCHANGED <<client, answer, inbox, executing, creator>>

----------------------------------------------------------------------------
Step(c) ==
    \/ Discover(c) \/ TokenObtained(c) \/ TokenRefused(c) \/ BackedOff(c)
    \/ TimedOut(c) \/ ConnectionLost(c) \/ ReceiveParty(c) \/ ReceiveTransient(c)
    \/ ReceiveExists(c) \/ ReceiveRefused(c) \/ LookupAnswered(c) \/ LookupFailed(c)

Serve(r) ==
    \/ Begin(r) \/ AnswerExists(r) \/ AnswerInFlight(r) \/ Refuse(r)
    \/ Commit(r) \/ Abort(r) \/ GatewayGivesUp(r)

Next ==
    \/ \E c \in Calls : Start(c) \/ Step(c) \/ Cancel(c)
    \/ \E r \in Posts : Serve(r)
    \/ \E h \in Hints : List(h)

Spec == Init /\ [][Next]_vars

\* HttpClient.Timeout ends every request and the delays are bounded; nothing
\* is asked of the participant.
FairSpec == Spec /\ \A c \in Calls : WF_vars(Step(c))

----------------------------------------------------------------------------
(* Properties.                                                             *)

\* Types; a POST is numbered within the attempts allowed, and only a call that
\* is posting holds an answer.
TypeOK ==
    /\ pc \in [Calls -> States]
    /\ hint \in [Calls -> Hints \cup {None}]
    /\ attempt \in [Calls -> 0 .. MaxAttempts]
    /\ inconclusive \in [Calls -> BOOLEAN]
    /\ answer \in [Calls -> Answers \cup {None}]
    /\ why \in [Calls -> Reasons \cup {None}]
    /\ party \in [Calls -> Hints \cup {None}]
    /\ inbox \subseteq Posts /\ executing \subseteq Posts
    /\ creator \in [Hints -> Calls \cup {None}]
    /\ listed \subseteq Hints

\* A call that returns, returns a party of the hint it was given, and that
\* party exists at the participant: the lookup of FindPartyByHintAsync never
\* takes the party of a hint that merely begins with this one.
ReturnsItsHint ==
    \A c \in Calls :
        pc[c] = "done" => party[c] = hint[c] /\ creator[hint[c]] # None

\* A call whose earlier attempts all came to a clear end returns only the party
\* its own POST made; somebody else's is adopted only in doubt.
AdoptsOnlyInDoubt ==
    \A c \in Calls :
        pc[c] = "done" /\ ~inconclusive[c] => creator[hint[c]] = c

\* A call that fails because the party exists, without having looked it up, is
\* right that the party is another's, and a call that is refused or told so on
\* its first attempt leaves no POST behind that could make the party later.
VerdictIsFinal ==
    \A c \in Calls :
        why[c] = "exists" \/ (why[c] = "refused" /\ ~inconclusive[c]) =>
            /\ \A h \in Hints : creator[h] # c
            /\ \A r \in inbox \cup executing : r[1] # c

\* Every call ends, whatever the participant does or fails to do.
AllocationEnds ==
    \A c \in Calls : pc[c] = "discover" \/ pc[c] = "token" ~> pc[c] \in Ended

=============================================================================
