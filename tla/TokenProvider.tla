---------------------------- MODULE TokenProvider ----------------------------
(***************************************************************************)
(* The OAuth2 token provider of the Go fixture                             *)
(* (go/fixture/oauth2_token_provider.go): a mutex, a cached access token   *)
(* with its local expiry, and an in-flight refresh that concurrent callers *)
(* of Token join through a channel the refreshing caller closes.           *)
(*                                                                         *)
(* Every action below is one critical section of Token, or one step Token  *)
(* takes with the mutex released: the select, the token request, and the   *)
(* decision a follower takes on what it copied under the mutex.            *)
(***************************************************************************)
EXTENDS Naturals

CONSTANTS
    Callers,          \* goroutines that call Token
    Lifetimes,        \* expires_in values the endpoint answers with
    RefreshSkew,      \* the constant RefreshSkew
    RequestTimeout,   \* http.Client.Timeout of the client the fixture passes
    MaxTime,          \* bound: clock ticks
    MaxCalls,         \* bound: calls of Token over all goroutines
    MaxInvalidations  \* bound: calls of Invalidate

\* fetchToken refuses a non-positive expires_in; fixture.go gives the HTTP
\* client the same 30 s that RefreshSkew holds.
ASSUME ProviderAssumption ==
    /\ Lifetimes \subseteq Nat \ {0}
    /\ RefreshSkew \in Nat
    /\ RequestTimeout \in Nat
    /\ RequestTimeout <= RefreshSkew
    /\ MaxTime \in Nat
    /\ MaxCalls \in Nat
    /\ MaxInvalidations \in Nat

VARIABLES
    now,          \* cfg.Now()
    epoch,        \* how many times Invalidate has run
    calls,        \* how many calls of Token have started
    cached,       \* p.cached, NoToken for ""
    expiresAt,    \* p.expiresAt, 0 for the zero time
    refreshing,   \* p.refreshing
    refreshDone,  \* p.refreshDone: channels are numbered in creation order
    closed,       \* the channels that have been closed
    refreshErr,   \* p.refreshErr
    pc,           \* where each goroutine is in Token
    cancelled,    \* whether the ctx of the goroutine's call is done
    awaited,      \* the local `done` of a follower in its select, else 0
    led,          \* whether the current call became a leader
    outcome       \* what the call has in hand, then what it returned

provider == <<cached, expiresAt, refreshing, refreshDone, closed, refreshErr>>
callVars == <<pc, cancelled, awaited, led, outcome>>
vars == <<now, epoch, calls, provider, callVars>>

Errors == {"none", "ctx", "other"}
Locations == {"idle", "returned", "entry", "waiting", "woken", "judging",
              "fetching", "minted", "fetched"}
InFlight == {"fetching", "minted", "fetched"}

\* A token is told apart by the Invalidate epoch and the time it was minted in
\* and by its lifetime: equal tokens are interchangeable for every property.
NoToken == [epoch |-> 0, minted |-> 0, life |-> 0]
Tokens == [epoch : Nat, minted : Nat, life : Nat \ {0}]
MaybeToken == Tokens \cup {NoToken}
Dies(t) == t.minted + t.life

Outcomes == [err : Errors, token : MaybeToken, until : Nat]
Nothing == [err |-> "none", token |-> NoToken, until |-> 0]
Failed(e) == [Nothing EXCEPT !.err = e]
Holding(t) == [Nothing EXCEPT !.token = t]

Goto(c, from, to) ==
    /\ pc[c] = from
    /\ pc' = [pc EXCEPT ![c] = to]

Init ==
    /\ now = 0
    /\ epoch = 0
    /\ calls = 0
    /\ cached = NoToken
    /\ expiresAt = 0
    /\ refreshing = FALSE
    /\ refreshDone = 0
    /\ closed = {}
    /\ refreshErr = "none"
    /\ pc = [c \in Callers |-> "idle"]
    /\ cancelled = [c \in Callers |-> FALSE]
    /\ awaited = [c \in Callers |-> 0]
    /\ led = [c \in Callers |-> FALSE]
    /\ outcome = [c \in Callers |-> Nothing]

----------------------------------------------------------------------------
(* Token: the loop's head, under the mutex.                                *)

\* Fault: freshness without the safety margin.
FreshWithoutSkew == cached # NoToken /\ now < expiresAt

IsFresh == cached # NoToken /\ now + RefreshSkew < expiresAt

StartCall(c) ==
    /\ calls < MaxCalls
    /\ pc[c] \in {"idle", "returned"}
    /\ pc' = [pc EXCEPT ![c] = "entry"]
    /\ calls' = calls + 1
    /\ cancelled' = [cancelled EXCEPT ![c] = FALSE]
    /\ led' = [led EXCEPT ![c] = FALSE]
    /\ outcome' = [outcome EXCEPT ![c] = Nothing]
    /\ UNCHANGED <<now, epoch, provider, awaited>>

ReturnCached(c) ==
    /\ IsFresh
    /\ Goto(c, "entry", "returned")
    /\ outcome' = [outcome EXCEPT ![c] = Holding(cached)]
    /\ UNCHANGED <<now, epoch, calls, provider, cancelled, awaited, led>>

Follow(c) ==
    /\ ~IsFresh
    /\ refreshing
    /\ Goto(c, "entry", "waiting")
    /\ awaited' = [awaited EXCEPT ![c] = refreshDone]
    /\ UNCHANGED <<now, epoch, calls, provider, cancelled, led, outcome>>

\* Fault: the leader forgets to set the flag that makes others follow.
LeadUnannounced(c) ==
    /\ ~IsFresh
    /\ ~refreshing
    /\ Goto(c, "entry", "fetching")
    /\ refreshDone' = refreshDone + 1
    /\ refreshErr' = "none"
    /\ led' = [led EXCEPT ![c] = TRUE]
    /\ UNCHANGED <<now, epoch, calls, cached, expiresAt, refreshing, closed,
                   cancelled, awaited, outcome>>

Lead(c) ==
    /\ ~IsFresh
    /\ ~refreshing
    /\ Goto(c, "entry", "fetching")
    /\ refreshing' = TRUE
    /\ refreshDone' = refreshDone + 1
    /\ refreshErr' = "none"
    /\ led' = [led EXCEPT ![c] = TRUE]
    /\ UNCHANGED <<now, epoch, calls, cached, expiresAt, closed,
                   cancelled, awaited, outcome>>

----------------------------------------------------------------------------
(* A follower: the select, the copy under the mutex, the decision.         *)

Wake(c) ==
    /\ awaited[c] \in closed
    /\ Goto(c, "waiting", "woken")
    /\ awaited' = [awaited EXCEPT ![c] = 0]
    /\ UNCHANGED <<now, epoch, calls, provider, cancelled, led, outcome>>

\* Fault: the select has no case for the follower's own context.
GiveUpNever(c) == FALSE

GiveUp(c) ==
    /\ cancelled[c]
    /\ Goto(c, "waiting", "returned")
    /\ awaited' = [awaited EXCEPT ![c] = 0]
    /\ outcome' = [outcome EXCEPT ![c] = Failed("ctx")]
    /\ UNCHANGED <<now, epoch, calls, provider, cancelled, led>>

CopyOutcome(c) ==
    /\ Goto(c, "woken", "judging")
    /\ outcome' = [outcome EXCEPT ![c] =
                     IF refreshErr = "none" THEN Holding(cached) ELSE Failed(refreshErr)]
    /\ UNCHANGED <<now, epoch, calls, provider, cancelled, awaited, led>>

\* Fault: a follower takes over whatever error its leader ended with.
NeverRetries(c) == FALSE

\* The leader's context ended and the follower's own did not.
Retries(c) == outcome[c].err = "ctx" /\ ~cancelled[c]

Retry(c) ==
    /\ Retries(c)
    /\ Goto(c, "judging", "entry")
    /\ outcome' = [outcome EXCEPT ![c] = Nothing]
    /\ UNCHANGED <<now, epoch, calls, provider, cancelled, awaited, led>>

ReturnJoined(c) ==
    /\ ~Retries(c)
    /\ Goto(c, "judging", "returned")
    /\ UNCHANGED <<now, epoch, calls, provider, cancelled, awaited, led,
                   outcome>>

----------------------------------------------------------------------------
(* A leader: the token request, then the publication under the mutex.      *)

\* The endpoint mints the token; nothing of the provider changes.
Mint(c, life) ==
    /\ Goto(c, "fetching", "minted")
    /\ outcome' = [outcome EXCEPT ![c] =
                     Holding([epoch |-> epoch, minted |-> now, life |-> life])]
    /\ UNCHANGED <<now, epoch, calls, provider, cancelled, awaited, led>>

\* The answer arrives: expires_in counts from the clock at this moment.
Receive(c) ==
    /\ Goto(c, "minted", "fetched")
    /\ outcome' = [outcome EXCEPT ![c].until = now + outcome[c].token.life]
    /\ UNCHANGED <<now, epoch, calls, provider, cancelled, awaited, led>>

\* A refused connection, a non-2xx status or an unusable body ("other"); the
\* caller's context, or the client's own timeout, which errors.Is reports as
\* context.DeadlineExceeded ("ctx"). The token may have been minted already.
FetchFails(c, e) ==
    /\ pc[c] \in {"fetching", "minted"}
    /\ pc' = [pc EXCEPT ![c] = "fetched"]
    /\ outcome' = [outcome EXCEPT ![c] = Failed(e)]
    /\ UNCHANGED <<now, epoch, calls, provider, cancelled, awaited, led>>

\* Fault: the error path returns before it closes the channel.
PublishClosingOnSuccess(c) ==
    /\ Goto(c, "fetched", "returned")
    /\ IF outcome[c].err = "none"
         THEN /\ cached' = outcome[c].token
              /\ expiresAt' = outcome[c].until
              /\ closed' = closed \cup {refreshDone}
              /\ UNCHANGED refreshErr
         ELSE /\ refreshErr' = outcome[c].err
              /\ UNCHANGED <<cached, expiresAt, closed>>
    /\ refreshing' = FALSE
    /\ UNCHANGED <<now, epoch, calls, refreshDone, cancelled, awaited, led,
                   outcome>>

Publish(c) ==
    /\ Goto(c, "fetched", "returned")
    /\ IF outcome[c].err = "none"
         THEN /\ cached' = outcome[c].token
              /\ expiresAt' = outcome[c].until
              /\ UNCHANGED refreshErr
         ELSE /\ refreshErr' = outcome[c].err
              /\ UNCHANGED <<cached, expiresAt>>
    /\ closed' = closed \cup {refreshDone}
    /\ refreshing' = FALSE
    /\ UNCHANGED <<now, epoch, calls, refreshDone, cancelled, awaited, led,
                   outcome>>

----------------------------------------------------------------------------
(* The surroundings: Invalidate, cancelled contexts, the clock.            *)

Invalidate ==
    /\ epoch < MaxInvalidations
    /\ epoch' = epoch + 1
    /\ cached' = NoToken
    /\ expiresAt' = 0
    /\ UNCHANGED <<now, calls, refreshing, refreshDone, closed, refreshErr, callVars>>

Cancel(c) ==
    /\ pc[c] \notin {"idle", "returned"}
    /\ ~cancelled[c]
    /\ cancelled' = [cancelled EXCEPT ![c] = TRUE]
    /\ UNCHANGED <<now, epoch, calls, provider, pc, awaited, led, outcome>>

\* An answer on its way is received, or the client gives up, within
\* RequestTimeout: the clock does not run past it.
Tick ==
    /\ now < MaxTime
    /\ \A c \in Callers : pc[c] = "minted" => now < outcome[c].token.minted + RequestTimeout
    /\ now' = now + 1
    /\ UNCHANGED <<epoch, calls, provider, callVars>>

FetchStep(c) ==
    \/ \E life \in Lifetimes : Mint(c, life)
    \/ Receive(c)
    \/ \E e \in {"ctx", "other"} : FetchFails(c, e)

\* The steps a goroutine takes once scheduled, its token request apart.
Step(c) ==
    \/ ReturnCached(c) \/ Follow(c) \/ Lead(c)
    \/ Wake(c) \/ GiveUp(c) \/ CopyOutcome(c) \/ Retry(c) \/ ReturnJoined(c)
    \/ Publish(c)

Next ==
    \/ \E c \in Callers : StartCall(c) \/ Step(c) \/ FetchStep(c) \/ Cancel(c)
    \/ Invalidate
    \/ Tick

\* A runnable goroutine is scheduled. A token request is not assumed to end
\* here: only a client with a timeout promises that (see CallReturns).
Spec == Init /\ [][Next]_vars /\ \A c \in Callers : WF_vars(Step(c))

----------------------------------------------------------------------------
(* Properties.                                                             *)

\* Types of the fields and locals of Token; the struct never pairs an empty
\* token with an expiry, or a token with the zero time.
TypeOK ==
    /\ now \in Nat /\ epoch \in Nat /\ calls \in Nat
    /\ cached \in MaybeToken
    /\ expiresAt \in Nat
    /\ (cached = NoToken) <=> (expiresAt = 0)
    /\ refreshing \in BOOLEAN
    /\ refreshDone \in Nat
    /\ closed \subseteq Nat
    /\ refreshErr \in Errors
    /\ pc \in [Callers -> Locations]
    /\ cancelled \in [Callers -> BOOLEAN]
    /\ awaited \in [Callers -> Nat]
    /\ led \in [Callers -> BOOLEAN]
    /\ outcome \in [Callers -> Outcomes]

\* "in-flight refreshes are coalesced": at most one goroutine is between
\* setting p.refreshing and clearing it, and p.refreshing says that one is.
SingleFlight ==
    /\ refreshing <=> \E c \in Callers : pc[c] \in InFlight
    /\ \A c, d \in Callers : pc[c] \in InFlight /\ pc[d] \in InFlight => c = d

\* No follower sleeps on a channel nobody will close: the one it holds is
\* closed, or it is the channel of the refresh in flight.
NoLostWakeup ==
    \A c \in Callers : pc[c] = "waiting" =>
        \/ awaited[c] \in closed
        \/ awaited[c] = refreshDone /\ refreshing

\* A follower never returns a context error that is not its own: the leader's
\* cancellation or timeout sends it round the loop instead.
OwnCancellationOnly ==
    \A c \in Callers :
        pc[c] = "returned" /\ outcome[c].err = "ctx" /\ ~led[c] => cancelled[c]

\* RefreshSkew covers the flight of the answer: although expiresAt counts from
\* the answer's arrival, a token the cache calls fresh has not expired at the
\* server that minted it.
FreshMeansAlive == IsFresh => now < Dies(cached)

\* When every token request ends, as a client with a timeout makes it, every
\* call of Token returns, however its leaders fail or are cancelled; and a
\* follower whose context ends leaves the select even if its leader's token
\* request never does.
CallReturns ==
    /\ (\A c \in Callers : WF_vars(FetchStep(c))) =>
            \A c \in Callers : pc[c] = "entry" ~> pc[c] = "returned"
    /\ \A c \in Callers : pc[c] = "waiting" /\ cancelled[c] ~> pc[c] # "waiting"

\* "Token returns a cached access token, refreshing it via the token endpoint
\* if the current one is missing": a call that returns no error returns a
\* token.
NilErrorCarriesToken ==
    \A c \in Callers :
        pc[c] = "returned" /\ outcome[c].err = "none" => outcome[c].token # NoToken

=============================================================================
