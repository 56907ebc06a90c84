---------------------------- MODULE TokenService ----------------------------
(***************************************************************************)
(* What OAuth2TokenProvider promises its callers (the summary of the class *)
(* and of GetAccessTokenAsync): one refresh at a time, which the others    *)
(* await; none while a token in stock is fresh; a caller is handed a token *)
(* that is fresh, or one minted for it; and it is refused only over a      *)
(* refresh of its own, its own cancellation, or the provider's end.        *)
(*                                                                         *)
(* A token is told by the time it expires at.                              *)
(***************************************************************************)
EXTENDS Integers

CONSTANTS
    Calls,   \* callers of GetAccessTokenAsync
    Leeway,  \* ExpiryLeeway
    NoToken  \* no token

VARIABLES
    now,        \* the clock
    stock,      \* the token in stock
    phase,      \* of a caller: none, open, refreshing, offered or refused
    offer,      \* the token a caller is handed
    cancelled,  \* callers that gave up
    disposed    \* the provider is at its end

vars == <<now, stock, phase, offer, cancelled, disposed>>

FreshStock == stock # NoToken /\ now + Leeway < stock

Init ==
    /\ now = 0 /\ stock = NoToken
    /\ phase = [c \in Calls |-> "none"]
    /\ offer = [c \in Calls |-> NoToken]
    /\ cancelled = {} /\ disposed = FALSE

Turns(c, from, to) == phase[c] = from /\ phase' = [phase EXCEPT ![c] = to]
Hands(c, token) == offer' = [offer EXCEPT ![c] = token]

Open(c) ==
    /\ Turns(c, "none", "open")
    /\ UNCHANGED <<now, stock, offer, cancelled, disposed>>

Offer(c) ==
    /\ FreshStock
    /\ Turns(c, "open", "offered") /\ Hands(c, stock)
    /\ UNCHANGED <<now, stock, cancelled, disposed>>

Refresh(c) ==
    /\ ~FreshStock
    /\ \A d \in Calls : phase[d] # "refreshing"
    /\ Turns(c, "open", "refreshing")
    /\ UNCHANGED <<now, stock, offer, cancelled, disposed>>

Restock(c) ==
    /\ stock' # NoToken /\ now < stock'
    /\ Turns(c, "refreshing", "offered") /\ Hands(c, stock')
    /\ UNCHANGED <<now, cancelled, disposed>>

FailRefresh(c) ==
    /\ Turns(c, "refreshing", "refused")
    /\ UNCHANGED <<now, stock, offer, cancelled, disposed>>

Refuse(c) ==
    /\ \/ Turns(c, "open", "refused") /\ (c \in cancelled \/ disposed)
       \/ Turns(c, "offered", "refused") /\ disposed
    /\ Hands(c, NoToken)
    /\ UNCHANGED <<now, stock, cancelled, disposed>>

Close(c) ==
    /\ Turns(c, "offered", "none") \/ Turns(c, "refused", "none")
    /\ Hands(c, NoToken)
    /\ UNCHANGED <<now, stock, cancelled, disposed>>

Cancel(c) ==
    /\ cancelled' = cancelled \cup {c}
    /\ UNCHANGED <<now, stock, phase, offer, disposed>>

Dispose ==
    /\ disposed' = TRUE
    /\ UNCHANGED <<now, stock, phase, offer, cancelled>>

Tick ==
    /\ now' = now + 1
    /\ UNCHANGED <<stock, phase, offer, cancelled, disposed>>

Next ==
    \/ \E c \in Calls :
        \/ Open(c) \/ Offer(c) \/ Refresh(c) \/ Restock(c) \/ FailRefresh(c)
        \/ Refuse(c) \/ Close(c) \/ Cancel(c)
    \/ Dispose \/ Tick

Spec == Init /\ [][Next]_vars

=============================================================================
