---------------------------- MODULE WalletFunding ----------------------------
(***************************************************************************)
(* `canton-localnet tap` against a validator app's wallet                  *)
(* (cli/internal/wallet): the login, the taps of --amount and --at-least,  *)
(* and the retry loop every call runs in. The wallet's holdings and the    *)
(* amulet price go on changing while the command runs.                     *)
(***************************************************************************)
EXTENDS FiniteSets, Integers

CONSTANTS
    Target,          \* --at-least, in units of Amulet
    Amount,          \* --amount, in units of USD
    Prices,          \* prices of Scale units of Amulet, in units of USD
    Scale,           \* 10^10: the wallet counts in ten fractional digits
    MaxFundingTaps,  \* the constant maxFundingTaps
    Budget,          \* the constant defaultBudget
    InitialBackoff,  \* the constant initialBackoff
    MaxBackoff,      \* the constant maxBackoff
    RetryAfters,     \* Retry-After values, 0 for none
    Holdings,        \* balances the wallet starts with
    MaxTime,         \* bound: mining rounds that open
    MaxOutside,      \* bound: fees, spends and credits of the wallet
    MaxRuns          \* bound: runs of the command

ASSUME FundingAssumption ==
    /\ {Target, Amount, Scale, MaxFundingTaps, Budget, InitialBackoff, MaxBackoff}
          \subseteq Nat \ {0}
    /\ Prices \subseteq Nat \ {0}
    /\ InitialBackoff <= MaxBackoff
    /\ RetryAfters \subseteq Nat /\ Holdings \subseteq Nat
    /\ {MaxTime, MaxOutside, MaxRuns} \subseteq Nat

VARIABLES
    balance,  \* effective_unlocked_qty of the wallet
    price,    \* amuletPrice of each mining round; round r has opensAt r
    now,      \* the clock; round 1 is the first to open
    mints,    \* history: taps of this run that committed
    tapped,   \* history: a tap committed since the run's last balance read
    quiet,    \* history: no fee, spend or price rise since that read
    funded,   \* history: an --at-least run succeeded and nothing was spent since
    outside,  \* fees, spends and credits so far
    runs,     \* runs of the command so far
    mode,     \* which of the two flags the run has
    call,     \* the call the command is in, or how it ended
    reply,    \* the answer of that call, NoReply while it is awaited
    waited,   \* waited of the call's retry loop
    backoff,  \* backoff of the call's retry loop
    asked,    \* the now() AmuletPrice was called with
    held,     \* the balance last read
    usd,      \* the amount of the tap
    taps      \* Tap calls of this run

wallet == <<balance, price, now, mints, tapped, quiet, funded, outside>>
retry == <<waited, backoff>>
locals == <<asked, held, usd, taps>>
vars == <<wallet, runs, mode, call, reply, retry, locals>>

Calls == {"login", "balance", "price", "tap"}
Ended == {"unstarted", "done", "failed"}
Statuses == {"ok", "busy", "gateway", "error"}
NoReply == [status |-> "none", retryAfter |-> 0, value |-> 0]
Reply(status, after, value) == [status |-> status, retryAfter |-> after, value |-> value]

Init ==
    /\ balance \in Holdings
    /\ price \in [1 .. MaxTime -> Prices]
    /\ now = 0
    /\ mints = 0 /\ tapped = FALSE /\ quiet = FALSE /\ funded = FALSE
    /\ outside = 0 /\ runs = 0
    /\ mode = "at-least"
    /\ call = "unstarted" /\ reply = NoReply
    /\ waited = 0 /\ backoff = InitialBackoff
    /\ asked = 0 /\ held = 0 /\ usd = 0 /\ taps = 0

----------------------------------------------------------------------------
(* Arithmetic.                                                             *)

\* Fault: the remainder is dropped.
RoundDown(units) == units \div Scale

RoundUp(units) == (units + Scale - 1) \div Scale

\* The Amulet the wallet mints for an amount at the price of the latest round
\* to have opened.
Minted(amount) == (amount * Scale) \div price[now]

\* The rounds the scan proxy lists: two that have opened, one that has not.
OpenRounds == {r \in 1 .. MaxTime : now - 2 < r /\ r <= now + 1}
OpenedAt(t) == {r \in OpenRounds : r <= t}
LatestOpen(t) == CHOOSE r \in OpenedAt(t) : \A q \in OpenedAt(t) : q <= r

----------------------------------------------------------------------------
(* Retry.run. A "busy" answer is a 429 or a refused connection, a          *)
(* "gateway" one a 502, 503 or 504; any other failure is an "error".       *)

\* Fault: transientAnswer for every call.
RetryableTransient(kind, status) == status \in {"busy", "gateway"}

Retryable(kind, status) ==
    \/ status = "busy"
    \/ status = "gateway" /\ kind = "login"

Delay == IF reply.retryAfter > 0 THEN reply.retryAfter ELSE backoff

BudgetSpent == waited + Delay > Budget

Answered == call \in Calls /\ reply # NoReply
Fails == ~Retryable(call, reply.status) \/ BudgetSpent

\* Fault: the waits are not added up.
ResendUncounted ==
    /\ Answered /\ Retryable(call, reply.status) /\ ~BudgetSpent
    /\ reply' = NoReply
    /\ backoff' = IF 2 * backoff < MaxBackoff THEN 2 * backoff ELSE MaxBackoff
    /\ UNCHANGED <<wallet, runs, mode, call, waited, locals>>

Resend ==
    /\ Answered /\ Retryable(call, reply.status) /\ ~BudgetSpent
    /\ reply' = NoReply
    /\ waited' = waited + Delay
    /\ backoff' = IF 2 * backoff < MaxBackoff THEN 2 * backoff ELSE MaxBackoff
    /\ UNCHANGED <<wallet, runs, mode, call, locals>>

\* The command ends with the last answer as its error.
GiveUp ==
    /\ Answered /\ reply.status # "ok" /\ Fails
    /\ call' = "failed" /\ reply' = NoReply
    /\ UNCHANGED <<wallet, runs, mode, retry, locals>>

\* The next call, with a retry loop of its own.
Proceed(next) ==
    /\ call' = next
    /\ reply' = NoReply
    /\ waited' = 0
    /\ backoff' = InitialBackoff

Succeeded(kind) == call = kind /\ reply.status = "ok"

----------------------------------------------------------------------------
(* The command.                                                            *)

Run(flag) ==
    /\ call \in Ended
    /\ runs < MaxRuns
    /\ runs' = runs + 1
    /\ mode' = flag
    /\ Proceed("login")
    /\ mints' = 0 /\ tapped' = FALSE /\ quiet' = FALSE
    /\ asked' = 0 /\ held' = 0 /\ usd' = 0 /\ taps' = 0
    /\ UNCHANGED <<balance, price, now, funded, outside>>

LoggedIn ==
    /\ Succeeded("login")
    /\ IF mode = "amount"
         THEN Proceed("tap") /\ usd' = Amount /\ taps' = taps + 1
         ELSE Proceed("balance") /\ UNCHANGED <<usd, taps>>
    /\ UNCHANGED <<wallet, runs, mode, asked, held>>

\* Fault: a balance that equals the target is raised all the same.
ReachedAbove(quantity) == quantity > Target

Reached(quantity) == quantity >= Target

\* The head of TapAtLeast's loop.
BalanceRead ==
    /\ Succeeded("balance")
    /\ held' = reply.value
    /\ \/ /\ Reached(reply.value)
          /\ Proceed("done")
          /\ UNCHANGED asked
       \/ /\ ~Reached(reply.value) /\ taps = MaxFundingTaps
          /\ Proceed("failed")
          /\ UNCHANGED asked
       \/ /\ ~Reached(reply.value) /\ taps < MaxFundingTaps
          /\ Proceed("price")
          /\ asked' = now
    /\ UNCHANGED <<wallet, runs, mode, usd, taps>>

\* The gap in USD; a price of 0 stands for no round that has opened.
PriceRead ==
    /\ Succeeded("price")
    /\ IF reply.value = 0
         THEN Proceed("failed") /\ UNCHANGED <<usd, taps>>
         ELSE /\ Proceed("tap")
              /\ usd' = RoundUp((Target - held) * reply.value)
              /\ taps' = taps + 1
    /\ UNCHANGED <<wallet, runs, mode, asked, held>>

TapReturned ==
    /\ Succeeded("tap")
    /\ Proceed(IF mode = "amount" THEN "done" ELSE "balance")
    /\ UNCHANGED <<wallet, runs, mode, locals>>

----------------------------------------------------------------------------
(* Keycloak and the wallet.                                                *)

Awaited(kind) == call = kind /\ reply = NoReply
Answer(status, value) == reply' = Reply(status, 0, value)

ServeLogin ==
    /\ Awaited("login")
    /\ Answer("ok", 0)
    /\ UNCHANGED <<wallet, runs, mode, call, retry, locals>>

ServeBalance ==
    /\ Awaited("balance")
    /\ Answer("ok", balance)
    /\ tapped' = FALSE
    /\ quiet' = TRUE
    /\ funded' = (funded \/ balance >= Target)
    /\ UNCHANGED <<balance, price, now, mints, outside, runs, mode, call, retry, locals>>

ServePrice ==
    /\ Awaited("price")
    /\ Answer("ok", IF OpenedAt(asked) = {} THEN 0 ELSE price[LatestOpen(asked)])
    /\ UNCHANGED <<wallet, runs, mode, call, retry, locals>>

\* The mint commits; its answer may be lost behind a gateway or a timeout.
ServeTap ==
    /\ Awaited("tap")
    /\ now > 0
    /\ balance' = balance + Minted(usd)
    /\ mints' = mints + 1
    /\ tapped' = TRUE
    /\ \E status \in {"ok", "gateway", "error"} : Answer(status, 0)
    /\ UNCHANGED <<price, now, quiet, funded, outside, runs, mode, call, retry, locals>>

\* Not processed: 429 with or without a Retry-After, or connection refused.
Refuse ==
    /\ call \in Calls /\ reply = NoReply
    /\ \E after \in RetryAfters : reply' = Reply("busy", after, 0)
    /\ UNCHANGED <<wallet, runs, mode, call, retry, locals>>

\* A 5xx, another status, a timeout or an unreadable body.
Break ==
    /\ call \in Calls /\ reply = NoReply
    /\ \E status \in {"gateway", "error"} : Answer(status, 0)
    /\ UNCHANGED <<wallet, runs, mode, call, retry, locals>>

\* The next mining round opens.
Tick ==
    /\ now < MaxTime
    /\ now' = now + 1
    /\ quiet' = (quiet /\ now > 0 /\ price[now + 1] <= price[now])
    /\ UNCHANGED <<balance, price, mints, tapped, funded, outside, runs, mode,
                   call, reply, retry, locals>>

\* A holding fee, or Amulet spent or locked by others.
Spend ==
    /\ outside < MaxOutside
    /\ balance > 0
    /\ outside' = outside + 1
    /\ balance' = balance - 1
    /\ quiet' = FALSE
    /\ funded' = FALSE
    /\ UNCHANGED <<price, now, mints, tapped, runs, mode, call, reply, retry, locals>>

\* A tap of another suite, or a reward.
Credit ==
    /\ outside < MaxOutside
    /\ outside' = outside + 1
    /\ balance' = balance + 1
    /\ UNCHANGED <<price, now, mints, tapped, quiet, funded, runs, mode, call,
                   reply, retry, locals>>

Command == Resend \/ GiveUp \/ LoggedIn \/ BalanceRead \/ PriceRead \/ TapReturned
Server == ServeLogin \/ ServeBalance \/ ServePrice \/ ServeTap \/ Refuse \/ Break

Next ==
    \/ \E flag \in {"amount", "at-least"} : Run(flag)
    \/ Command \/ Server
    \/ Tick \/ Spend \/ Credit

\* The command runs, and every request is answered or times out after 30 s.
Spec == Init /\ [][Next]_vars /\ WF_vars(Command) /\ WF_vars(Server)

----------------------------------------------------------------------------
(* Properties.                                                             *)

\* Types; the waits of one call stay within the budget.
TypeOK ==
    /\ balance \in Nat /\ now \in Nat /\ mints \in Nat /\ outside \in Nat /\ runs \in Nat
    /\ asked \in Nat /\ held \in Nat /\ usd \in Nat /\ taps \in Nat
    /\ price \in [1 .. MaxTime -> Prices]
    /\ tapped \in BOOLEAN /\ quiet \in BOOLEAN /\ funded \in BOOLEAN
    /\ mode \in {"amount", "at-least"}
    /\ call \in Calls \cup Ended
    /\ reply = NoReply \/ (call \in Calls /\ reply.status \in Statuses)
    /\ waited \in 0 .. Budget
    /\ backoff \in InitialBackoff .. MaxBackoff

\* "A tap is never retried on a 5xx, because the mint may have committed
\* behind it": however often a tap is resent, it mints at most once, and an
\* --at-least run taps at most three times.
MintsOncePerTap == mints <= taps /\ taps <= MaxFundingTaps

\* "rounded up so the mint cannot land short": without a fee, a spend or a
\* price rise since the balance was read, one tap of the gap reaches the
\* target, whichever round's price the gap was converted at.
OneTapSuffices == tapped /\ quiet => balance >= Target

\* "Running it again is a no-op": once the wallet has been read at the target,
\* and until something is spent, no --at-least run taps it.
RunningAgainIsNoOp == funded /\ mode = "at-least" => call # "tap"

\* However long the validator app goes on answering 429, the command ends.
CommandEnds == call \in Calls ~> call \in Ended

=============================================================================
