----------------------------- MODULE TokenCache -----------------------------
(***************************************************************************)
(* OAuth2TokenProvider of the C# library: a token in memory, checked once  *)
(* without and once with the semaphore that lets one caller at a time      *)
(* fetch another. It implements TokenService.                              *)
(***************************************************************************)
EXTENDS Integers

CONSTANTS
    Calls,      \* concurrent calls of GetAccessTokenAsync
    Cancellable, \* those that give a CancellationToken
    Leeway,     \* ExpiryLeeway
    Lifetimes,  \* expires_in of the tokens, or the default
    NoToken,    \* no cached token
    Free,       \* nobody holds _refreshLock
    MaxTime     \* bound: the clock

ASSUME TokenCacheAssumption ==
    /\ Cancellable \subseteq Calls
    /\ Leeway \in Nat /\ MaxTime \in Nat
    /\ Lifetimes \subseteq Nat \ {0}
    /\ NoToken \notin Nat
    /\ Free \notin Calls

VARIABLES
    now,        \* GetUtcNow()
    cached,     \* ExpiresAtUtc of _cached
    lock,       \* who holds _refreshLock
    at,         \* where a call is
    got,        \* the token it will return
    cancelled,  \* calls whose CancellationToken is cancelled
    disposed    \* Dispose() was called

provider == <<now, cached, lock, at, got, cancelled, disposed>>

Places ==
    {"out", "asking", "entering", "waiting", "holding", "fetching", "leaving",
     "given", "refused"}

TokenInit ==
    /\ now = 0 /\ cached = NoToken /\ lock = Free
    /\ at = [c \in Calls |-> "out"]
    /\ got = [c \in Calls |-> NoToken]
    /\ cancelled = {} /\ disposed = FALSE

IsValid == cached # NoToken /\ now + Leeway < cached

Moves(c, from, to) == at[c] = from /\ at' = [at EXCEPT ![c] = to]
Gets(c, token) == got' = [got EXCEPT ![c] = token]
Same == UNCHANGED <<now, cancelled, disposed>>

Ask(c) ==
    /\ Moves(c, "out", "asking")
    /\ UNCHANGED <<cached, lock, got>> /\ Same

\* The check without the semaphore.
Peek(c) ==
    /\ IF IsValid
       THEN Moves(c, "asking", "given") /\ Gets(c, cached)
       ELSE Moves(c, "asking", "entering") /\ UNCHANGED got
    /\ UNCHANGED <<cached, lock>> /\ Same

\* WaitAsync.
Enter(c) ==
    /\ ~disposed /\ c \notin cancelled
    /\ IF lock = Free
       THEN Moves(c, "entering", "holding") /\ lock' = c
       ELSE Moves(c, "entering", "waiting") /\ UNCHANGED lock
    /\ UNCHANGED <<cached, got>> /\ Same

\* A disposed semaphore forgets who waits for it.
Abandon(c) ==
    /\ \/ Moves(c, "entering", "refused") /\ (disposed \/ c \in cancelled)
       \/ Moves(c, "waiting", "refused") /\ c \in cancelled
    /\ UNCHANGED <<cached, lock, got>> /\ Same

\* Fault: the token is not looked at again with the semaphore.
CheckAlone(c) ==
    /\ Moves(c, "holding", "fetching") /\ UNCHANGED got
    /\ UNCHANGED <<cached, lock>> /\ Same

Check(c) ==
    /\ IF IsValid
       THEN Moves(c, "holding", "leaving") /\ Gets(c, cached)
       ELSE Moves(c, "holding", "fetching") /\ UNCHANGED got
    /\ UNCHANGED <<cached, lock>> /\ Same

Fetch(c) ==
    /\ Moves(c, "fetching", "leaving")
    /\ \E lifetime \in Lifetimes : cached' = now + lifetime
    /\ Gets(c, cached')
    /\ UNCHANGED lock /\ Same

\* Another status, no token, no answer, or the call's cancellation.
FetchFails(c) ==
    /\ Moves(c, "fetching", "leaving")
    /\ UNCHANGED <<cached, got, lock>> /\ Same

\* Fault: only a call that got a token releases.
ReleaseOnSuccess(c) ==
    /\ ~disposed
    /\ at[c] = "leaving"
    /\ IF got[c] = NoToken
       THEN Moves(c, "leaving", "refused") /\ UNCHANGED lock
       ELSE Moves(c, "leaving", "given") /\ lock' = Free
    /\ UNCHANGED <<cached, got>> /\ Same

\* Release, to one that waits if there is one.
Release(c) ==
    /\ ~disposed
    /\ at[c] = "leaving"
    /\ LET end == IF got[c] = NoToken THEN "refused" ELSE "given"
           waiting == {d \in Calls : at[d] = "waiting"}
       IN  \/ /\ waiting = {} /\ lock' = Free
              /\ at' = [at EXCEPT ![c] = end]
           \/ \E d \in waiting :
              /\ lock' = d
              /\ at' = [at EXCEPT ![c] = end, ![d] = "holding"]
    /\ UNCHANGED <<cached, got>> /\ Same

\* It throws in the finally, and what was fetched is lost to the call.
ReleaseThrows(c) ==
    /\ disposed
    /\ Moves(c, "leaving", "refused") /\ Gets(c, NoToken)
    /\ lock' = Free
    /\ UNCHANGED cached /\ Same

Take(c) ==
    /\ Moves(c, "given", "out") /\ Gets(c, NoToken)
    /\ UNCHANGED <<cached, lock>> /\ Same

TakeRefusal(c) ==
    /\ Moves(c, "refused", "out")
    /\ UNCHANGED <<cached, lock, got>> /\ Same

\* What a caller's cancellation does elsewhere is not the provider's.
Cancel(c) ==
    /\ c \in Cancellable \ cancelled /\ at[c] # "out"
    /\ cancelled' = cancelled \cup {c}
    /\ UNCHANGED <<now, cached, lock, at, got, disposed>>

Dispose ==
    /\ ~disposed /\ disposed' = TRUE
    /\ UNCHANGED <<now, cached, lock, at, got, cancelled>>

Tick ==
    /\ now < MaxTime
    /\ now' = now + 1
    /\ UNCHANGED <<cached, lock, at, got, cancelled, disposed>>

\* What a call does once it has asked.
Proceed(c) ==
    \/ Peek(c) \/ Enter(c) \/ Check(c) \/ Fetch(c) \/ FetchFails(c)
    \/ Release(c) \/ ReleaseThrows(c) \/ Abandon(c)

TokenNext ==
    \/ \E c \in Calls : Ask(c) \/ Proceed(c) \/ Take(c) \/ TakeRefusal(c) \/ Cancel(c)
    \/ Dispose \/ Tick

----------------------------------------------------------------------------
(* What TokenService sees of a call.                                       *)

PhaseOf(place, token) ==
    CASE place = "out" -> "none"
      [] place \in {"asking", "entering", "waiting", "holding"} -> "open"
      [] place = "fetching" -> "refreshing"
      [] place = "leaving" /\ token = NoToken -> "refused"
      [] place = "leaving" /\ token # NoToken -> "offered"
      [] place = "given" -> "offered"
      [] place = "refused" -> "refused"

phase == [c \in Calls |-> PhaseOf(at[c], got[c])]

TS == INSTANCE TokenService WITH stock <- cached, offer <- got

\* The provider keeps the promises of TokenService: two callers that find the
\* token stale fetch one between them, unless the first one's fetch fails.
ImplementsTokenService == TS!Spec

\* The semaphore is held by the call between its two checks and its Release:
\* by one at a time, also when it is handed on, and while it is held somebody
\* is to release it.
LockHeldByOne ==
    /\ \A c \in Calls : at[c] \in {"holding", "fetching", "leaving"} => lock = c
    /\ lock # Free => at[lock] \in {"holding", "fetching", "leaving"}

=============================================================================
