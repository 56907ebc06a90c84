---------------------------- MODULE CliWaitProofs ----------------------------
(***************************************************************************)
(* Proofs about the two commands of the CLI that poll what they wait for.  *)
(*                                                                         *)
(* Of `canton-localnet tap`: a tap mints at most once, the waits of a call *)
(* stay within its budget, one tap of the gap reaches the target unless a  *)
(* fee, a spend or a price rise comes in between, and running it again     *)
(* taps nothing, for any prices, target, scale, budget and backoff.        *)
(*                                                                         *)
(* Of `canton-localnet wait-ready`, beside `up` and `down`: what it        *)
(* reports ready is ready, what it reports as fatal or as a timeout on the *)
(* synchronizers has its cause, and a `down` leaves no PQS container       *)
(* behind, for any slots, files, flags and timeouts.                       *)
(***************************************************************************)
EXTENDS WalletFunding, WaitReady, TLAPS

----------------------------------------------------------------------------
(* `tap`.                                                                  *)

\* The answer of a call is a typed record, and "none" is no answer.
ReplyTyped ==
    /\ reply \in [status : Statuses \cup {"none"}, retryAfter : Nat, value : Nat]
    /\ (reply = NoReply) <=> (reply.status = "none")
    /\ call \in Ended => reply = NoReply
    /\ now <= MaxTime

\* A tap that has not committed, and may be resent, is not counted in mints.
Pending == reply.status \in {"none", "busy"}
MintsCounted ==
    /\ mints <= taps
    /\ call = "tap" /\ Pending => mints < taps /\ ~tapped
    /\ call = "price" => ~tapped /\ taps < MaxFundingTaps
    /\ taps <= MaxFundingTaps
    /\ mode = "amount" => ~quiet /\ call \notin {"balance", "price"}
    /\ call = "login" => taps = 0 /\ ~tapped
    /\ call = "balance" /\ reply.status = "ok" => ~tapped

\* While nothing disturbs the wallet, its balance covers what was read.
BalanceKnown ==
    /\ quiet /\ call = "balance" /\ reply.status = "ok" => balance >= reply.value
    /\ quiet /\ call \in {"price", "tap"} => balance >= held
    /\ call \in {"price", "tap"} /\ mode = "at-least" => held < Target

\* The amount of the tap is worth the gap at the price of the latest round.
AmountCovers == usd * Scale >= (Target - held) * price[now]

\* While no price has risen, the price in hand covers the one of the mint.
PriceKnown ==
    /\ asked <= now
    /\ quiet /\ call = "price" /\ asked > 0 => price[asked] >= price[now]
    /\ quiet /\ call = "price" /\ reply.value > 0 => now > 0 /\ reply.value >= price[now]
    /\ quiet /\ call = "tap" /\ Pending => now > 0 /\ AmountCovers

FundingInv == TypeOK /\ ReplyTyped /\ MintsCounted /\ BalanceKnown /\ PriceKnown /\ OneTapSuffices

\* The defining equation of integer division.
LEMMA DivMod ==
  ASSUME NEW x \in Nat, NEW p \in Nat \ {0}
  PROVE  x \div p \in Nat /\ x = p * (x \div p) + (x % p) /\ x % p \in 0 .. p - 1
  OBVIOUS

\* Multiplication by a natural number is monotonic.
LEMMA TimesMonotonic ==
  ASSUME NEW g \in Nat, NEW p \in Nat, NEW q \in Nat, q <= p
  PROVE  g * q <= g * p /\ q * g <= p * g
  OBVIOUS

\* What an amount buys covers a gap that costs no more than the amount.
LEMMA DivAtLeast ==
  ASSUME NEW x \in Nat, NEW g \in Nat, NEW p \in Nat \ {0}, x >= g * p
  PROVE  x \div p >= g
<1> DEFINE q == x \div p
<1>1. q \in Nat /\ x < p * (q + 1)
  BY DivMod, SMT
<1>2. SUFFICES ASSUME q < g PROVE FALSE
  BY <1>1
<1>3. (q + 1) * p <= g * p
  BY <1>1, <1>2, TimesMonotonic
<1>4. QED
  BY <1>1, <1>3

\* roundUpUSD never rounds below the amount it is given.
LEMMA RoundUpCovers ==
  ASSUME NEW u \in Nat
  PROVE  RoundUp(u) \in Nat /\ RoundUp(u) * Scale >= u
<1>1. Scale \in Nat \ {0}
  BY FundingAssumption
<1>2. u + Scale - 1 \in Nat
  BY <1>1
<1>3. QED
  BY <1>1, <1>2, DivMod DEF RoundUp

\* AmuletPrice answers with the price of the round that opens at the time it
\* was asked for, or finds no round that has opened.
LEMMA LatestIsAsked ==
  ASSUME now \in Nat, asked \in Nat, asked <= now, now <= MaxTime, OpenedAt(asked) # {}
  PROVE  LatestOpen(asked) = asked /\ asked > 0
<1>1. MaxTime \in Nat
  BY FundingAssumption
<1>2. PICK r \in 1 .. MaxTime : now - 2 < r /\ r <= now + 1 /\ r <= asked
  BY DEF OpenedAt, OpenRounds
<1>3. asked \in OpenedAt(asked)
  BY <1>1, <1>2 DEF OpenedAt, OpenRounds
<1>4. \A q \in OpenedAt(asked) : q \in Nat /\ q <= asked
  BY <1>1 DEF OpenedAt, OpenRounds
<1>5. \A x \in OpenedAt(asked) : (\A q \in OpenedAt(asked) : q <= x) => x = asked
  BY <1>3, <1>4
<1>6. QED
  BY <1>2, <1>3, <1>4, <1>5 DEF LatestOpen

\* The price of a round that has opened is a positive number.
LEMMA PricePositive ==
  ASSUME TypeOK, NEW r \in Nat, r > 0, r <= now, now <= MaxTime
  PROVE  price[r] \in Nat \ {0}
<1>1. now \in Nat /\ MaxTime \in Nat
  BY FundingAssumption DEF TypeOK
<1>2. r \in 1 .. MaxTime
  BY <1>1
<1>3. price[r] \in Prices
  BY <1>2 DEF TypeOK
<1>4. QED
  BY <1>3, FundingAssumption

\* A step that touches neither the amount nor the price changes nothing there.
LEMMA SameAmount ==
  ASSUME UNCHANGED <<usd, held, price, now>>
  PROVE  AmountCovers' <=> AmountCovers
  BY DEF AmountCovers

\* The constants, one by one.
LEMMA ConstantTypes ==
  /\ Target \in Nat \ {0} /\ Amount \in Nat \ {0} /\ Scale \in Nat \ {0}
  /\ MaxFundingTaps \in Nat \ {0} /\ Budget \in Nat \ {0}
  /\ InitialBackoff \in Nat \ {0} /\ MaxBackoff \in Nat \ {0}
  /\ InitialBackoff <= MaxBackoff
  /\ MaxTime \in Nat
  BY FundingAssumption

\* What a call starts with has its type.
LEMMA FreshCall ==
  /\ NoReply \in [status : Statuses \cup {"none"}, retryAfter : Nat, value : Nat]
  /\ NoReply.status = "none"
  /\ 0 \in 0 .. Budget
  /\ InitialBackoff \in InitialBackoff .. MaxBackoff
  BY ConstantTypes DEF NoReply

\* The invariant holds before the first run.
LEMMA FundingInitHolds == Init => FundingInv
<1> SUFFICES ASSUME Init PROVE FundingInv
  OBVIOUS
<1>1. TypeOK /\ ReplyTyped
  <2>1. balance \in Nat
    BY FundingAssumption DEF Init
  <2>2. TypeOK
    BY <2>1, ConstantTypes, FreshCall DEF Init, TypeOK, Ended
  <2>3. ReplyTyped
    BY ConstantTypes, FreshCall DEF Init, ReplyTyped
  <2>4. QED
    BY <2>2, <2>3
<1>2. MintsCounted /\ BalanceKnown /\ PriceKnown /\ OneTapSuffices
  BY ConstantTypes
     DEF Init, MintsCounted, BalanceKnown, PriceKnown, OneTapSuffices
<1>3. QED
  BY <1>1, <1>2 DEF FundingInv

\* The retry loop: a call is sent again, or the command gives up on it.
LEMMA RetryStep ==
  ASSUME FundingInv, Resend \/ GiveUp
  PROVE  FundingInv'
<1> USE ConstantTypes, SameAmount
        DEF FundingInv, TypeOK, ReplyTyped, Pending, MintsCounted, BalanceKnown, PriceKnown,
            OneTapSuffices, Ended, Calls, NoReply, Statuses, wallet, retry, locals
<1>1. CASE Resend
  <2>1. Delay \in Nat
    BY DEF Delay
  <2>2. waited' \in 0 .. Budget
    BY <1>1, <2>1 DEF Resend, BudgetSpent
  <2>3. backoff' \in InitialBackoff .. MaxBackoff
    BY <1>1 DEF Resend
  <2>4. call = "tap" => reply.status = "busy"
    BY <1>1 DEF Resend, Retryable, Answered
  <2>5. QED
    BY <1>1, <2>2, <2>3, <2>4 DEF Resend, Answered
<1>2. CASE GiveUp
  BY <1>2 DEF GiveUp, Answered
<1>3. QED
  BY <1>1, <1>2

\* A new run, and the command's moves from one call to the next.
LEMMA CommandStep ==
  ASSUME FundingInv, (\E flag \in {"amount", "at-least"} : Run(flag)) \/ LoggedIn \/ BalanceRead
                \/ PriceRead \/ TapReturned
  PROVE  FundingInv'
<1> USE ConstantTypes, SameAmount
        DEF FundingInv, TypeOK, ReplyTyped, Pending, MintsCounted, BalanceKnown, PriceKnown,
            OneTapSuffices, Ended, Calls, NoReply, Statuses, wallet, retry, locals,
            Proceed, Succeeded
<1>1. ASSUME NEW flag \in {"amount", "at-least"}, Run(flag)
      PROVE  FundingInv'
  <2>1. TypeOK' /\ ReplyTyped'
    <3>1. /\ reply' = NoReply /\ waited' = 0 /\ backoff' = InitialBackoff /\ call' = "login"
          /\ mode' = flag /\ runs' = runs + 1 /\ mints' = 0 /\ tapped' = FALSE /\ quiet' = FALSE
          /\ asked' = 0 /\ held' = 0 /\ usd' = 0 /\ taps' = 0
          /\ UNCHANGED <<balance, price, now, funded, outside>>
      BY <1>1 DEF Run
    <3>2. TypeOK'
      <4>1. /\ mode' \in {"amount", "at-least"} /\ call' \in Calls /\ runs' \in Nat
            /\ mints' \in Nat /\ asked' \in Nat /\ held' \in Nat /\ usd' \in Nat
            /\ taps' \in Nat
        BY <3>1
      <4>2. waited' \in 0 .. Budget /\ backoff' \in InitialBackoff .. MaxBackoff
        BY <3>1, FreshCall
      <4> HIDE DEF NoReply, Calls, Ended
      <4>3. QED
        BY <3>1, <4>1, <4>2
    <3>3. ReplyTyped'
      <4>1. reply'.status = "none" /\ now' <= MaxTime
        BY <3>1
      <4> HIDE DEF NoReply, FundingInv, TypeOK
      <4>2. QED
        BY <3>1, <4>1, FreshCall
    <3>4. QED
      BY <3>2, <3>3
  <2>2. MintsCounted' /\ BalanceKnown' /\ PriceKnown' /\ OneTapSuffices'
    BY <1>1 DEF Run
  <2>3. QED
    BY <2>1, <2>2
<1>2. CASE LoggedIn
  BY <1>2 DEF LoggedIn
<1>3. CASE BalanceRead
  <2>1. TypeOK' /\ ReplyTyped'
    BY <1>3 DEF BalanceRead, Reached
  <2>2. MintsCounted'
    BY <1>3 DEF BalanceRead, Reached
  <2>3. BalanceKnown'
    BY <1>3 DEF BalanceRead, Reached
  <2>4. PriceKnown'
    <3>1. ASSUME now > 0
          PROVE  price[now] \in Nat \ {0}
      BY <3>1, PricePositive
    <3>2. QED
      BY <1>3, <3>1 DEF BalanceRead, Reached
  <2>5. OneTapSuffices'
    BY <1>3 DEF BalanceRead, Reached
  <2>6. QED
    BY <2>1, <2>2, <2>3, <2>4, <2>5
<1>4. CASE PriceRead
  <2>1. CASE reply.value = 0
    BY <1>4, <2>1 DEF PriceRead
  <2>2. CASE reply.value > 0
    <3> DEFINE gap == Target - held
    <3>1. gap \in Nat /\ gap * reply.value \in Nat
      BY <1>4 DEF PriceRead
    <3>2. /\ usd' = RoundUp(gap * reply.value) /\ usd' \in Nat
          /\ usd' * Scale >= gap * reply.value
      <4>1. usd' = RoundUp(gap * reply.value)
        BY <1>4, <2>2 DEF PriceRead
      <4>2. QED
        BY <3>1, <4>1, RoundUpCovers
    <3>3. ASSUME quiet
          PROVE  /\ now > 0 /\ reply.value >= price[now]
                 /\ gap * reply.value >= gap * price[now]
      <4>1. now > 0 /\ reply.value >= price[now]
        BY <1>4, <2>2, <3>3 DEF PriceRead
      <4>2. price[now] \in Nat \ {0}
        BY <4>1, PricePositive
      <4>3. QED
        BY <3>1, <4>1, <4>2, TimesMonotonic
    <3>4. ASSUME quiet
          PROVE  now > 0 /\ usd' * Scale >= gap * price[now]
      <4>1. price[now] \in Nat \ {0}
        BY <3>3, <3>4, PricePositive
      <4>2. usd' * Scale \in Nat /\ gap * reply.value \in Nat /\ gap * price[now] \in Nat
        BY <3>1, <3>2, <4>1
      <4>3. QED
        BY <3>2, <3>3, <3>4, <4>2
    <3>5. call' = "tap" /\ taps' = taps + 1 /\ UNCHANGED <<wallet, runs, mode, asked, held>>
          /\ reply' = NoReply /\ waited' = 0 /\ backoff' = InitialBackoff
      BY <1>4, <2>2 DEF PriceRead
    <3>6. quiet => now > 0 /\ AmountCovers'
      BY <3>4, <3>5 DEF AmountCovers
    <3>7. QED
      BY <1>4, <3>2, <3>5, <3>6 DEF PriceRead
  <2>3. QED
    BY <2>1, <2>2
<1>5. CASE TapReturned
  BY <1>5 DEF TapReturned
<1>6. QED
  BY <1>1, <1>2, <1>3, <1>4, <1>5

\* Answers; the one to a tap is where the wallet's balance rises.
LEMMA ServerStep ==
  ASSUME FundingInv, Server
  PROVE  FundingInv'
<1> USE ConstantTypes, SameAmount
        DEF FundingInv, TypeOK, ReplyTyped, Pending, MintsCounted, BalanceKnown, PriceKnown,
            OneTapSuffices, Ended, Calls, NoReply, Statuses, wallet, retry, locals,
            Awaited, Answer, Reply
<1>1. CASE ServeLogin
  BY <1>1 DEF ServeLogin
<1>2. CASE ServeBalance
  <2>1. TypeOK' /\ ReplyTyped'
    BY <1>2 DEF ServeBalance
  <2>2. MintsCounted' /\ OneTapSuffices'
    BY <1>2 DEF ServeBalance
  <2>3. BalanceKnown' /\ PriceKnown'
    BY <1>2 DEF ServeBalance
  <2>4. QED
    BY <2>1, <2>2, <2>3
<1>3. CASE ServePrice
  <2> DEFINE quote == IF OpenedAt(asked) = {} THEN 0 ELSE price[LatestOpen(asked)]
  <2>1. quote = 0 \/ (asked > 0 /\ quote = price[asked])
    BY LatestIsAsked
  <2>2. quote \in Nat
    BY <2>1, PricePositive
  <2>3. quote > 0 => asked > 0 /\ quote = price[asked] /\ now > 0
    BY <2>1, <2>2
  <2>4. reply' = [status |-> "ok", retryAfter |-> 0, value |-> quote]
    BY <1>3 DEF ServePrice
  <2>5. QED
    BY <1>3, <2>2, <2>3, <2>4 DEF ServePrice
<1>4. CASE ServeTap
  <2>1. price[now] \in Nat \ {0} /\ now > 0
    BY <1>4, PricePositive DEF ServeTap
  <2>2. usd * Scale \in Nat
    OBVIOUS
  <2>3. Minted(usd) \in Nat
    BY <2>1, <2>2, DivMod DEF Minted
  <2>4. ASSUME quiet
        PROVE  balance + Minted(usd) >= Target
    <3>1. mode = "at-least"
      BY <2>4
    <3>2. Target - held \in Nat /\ balance >= held
      BY <1>4, <2>4, <3>1 DEF ServeTap
    <3>3. usd * Scale >= (Target - held) * price[now]
      BY <1>4, <2>4 DEF ServeTap, AmountCovers
    <3>4. Minted(usd) >= Target - held
      BY <2>1, <2>2, <3>2, <3>3, DivAtLeast DEF Minted
    <3>5. QED
      BY <2>3, <3>2, <3>4
  <2>5. QED
    BY <1>4, <2>3, <2>4 DEF ServeTap
<1>5. CASE Refuse
  BY <1>5, FundingAssumption DEF Refuse
<1>6. CASE Break
  BY <1>6 DEF Break
<1>7. QED
  BY <1>1, <1>2, <1>3, <1>4, <1>5, <1>6 DEF Server

\* The wallet and the clock move on their own.
LEMMA OutsideStep ==
  ASSUME FundingInv, Tick \/ Spend \/ Credit
  PROVE  FundingInv'
<1> USE ConstantTypes, SameAmount
        DEF FundingInv, TypeOK, ReplyTyped, Pending, MintsCounted, BalanceKnown, PriceKnown,
            OneTapSuffices, Ended, Calls, NoReply, Statuses, wallet, retry, locals
<1>1. CASE Tick
  <2>1. quiet' => quiet /\ now > 0 /\ price[now + 1] <= price[now]
    BY <1>1 DEF Tick
  <2>2. now' = now + 1 /\ now' \in Nat /\ now' <= MaxTime
    BY <1>1 DEF Tick
  <2>3. price[now + 1] \in Nat \ {0}
    <3>1. now + 1 \in 1 .. MaxTime
      BY <2>2
    <3>2. QED
      BY <3>1, FundingAssumption
  <2>4. ASSUME now > 0
        PROVE  price[now] \in Nat \ {0}
    BY <2>4, PricePositive
  <2>5. ASSUME asked > 0
        PROVE  price[asked] \in Nat \ {0}
    BY <2>5, PricePositive
  <2>6. ASSUME quiet', call = "tap", Pending
        PROVE  AmountCovers'
    <3>1. now > 0 /\ usd * Scale >= (Target - held) * price[now] /\ mode = "at-least"
      BY <2>1, <2>6 DEF AmountCovers
    <3>2. Target - held \in Nat
      BY <2>6, <3>1
    <3>3. (Target - held) * price[now + 1] <= (Target - held) * price[now]
      BY <2>1, <2>3, <2>4, <2>6, <3>1, <3>2, TimesMonotonic
    <3>4. usd * Scale >= (Target - held) * price[now + 1]
      BY <2>3, <2>4, <3>1, <3>2, <3>3
    <3>5. QED
      BY <1>1, <3>4 DEF AmountCovers, Tick
  <2>7. PriceKnown'
    BY <1>1, <2>1, <2>2, <2>3, <2>4, <2>5, <2>6 DEF Tick
  <2>8. QED
    BY <1>1, <2>1, <2>2, <2>7 DEF Tick
<1>2. CASE Spend
  <2>1. balance' \in Nat /\ quiet' = FALSE /\ funded' = FALSE /\ outside' \in Nat
        /\ UNCHANGED <<price, now, mints, tapped, runs, mode, call, reply, retry, locals>>
    BY <1>2 DEF Spend
  <2>2. TypeOK' /\ ReplyTyped'
    BY <2>1
  <2>3. MintsCounted' /\ BalanceKnown' /\ PriceKnown' /\ OneTapSuffices'
    BY <2>1
  <2>4. QED
    BY <2>2, <2>3
<1>3. CASE Credit
  BY <1>3 DEF Credit
<1>4. QED
  BY <1>1, <1>2, <1>3

\* The invariant holds in every reachable state.
THEOREM FundingInvHolds == Spec => []FundingInv
<1>1. Init => FundingInv
  BY FundingInitHolds
<1>2. FundingInv /\ [Next]_vars => FundingInv'
  <2> SUFFICES ASSUME FundingInv, [Next]_vars PROVE FundingInv'
    OBVIOUS
  <2>1. CASE Next
    BY <2>1, RetryStep, CommandStep, ServerStep, OutsideStep DEF Next, Command
  <2>2. CASE UNCHANGED vars
    BY <2>2, SameAmount DEF vars, wallet, retry, locals, FundingInv, TypeOK, ReplyTyped, Pending,
       MintsCounted, BalanceKnown, PriceKnown, OneTapSuffices
  <2>3. QED
    BY <2>1, <2>2
<1>3. QED
  BY <1>1, <1>2, PTL DEF Spec

\* The waits of a call never exceed its budget, and every variable has its type.
THEOREM FundingTypeCorrect == Spec => []TypeOK
<1>1. FundingInv => TypeOK
  BY DEF FundingInv
<1>2. QED
  BY <1>1, FundingInvHolds, PTL

\* A tap mints at most once however often it is sent, and at most
\* MaxFundingTaps taps are made.
THEOREM TapsMintOnce == Spec => []MintsOncePerTap
<1>1. FundingInv => MintsOncePerTap
  BY DEF FundingInv, MintsCounted, MintsOncePerTap
<1>2. QED
  BY <1>1, FundingInvHolds, PTL

\* One undisturbed tap reaches the target, whatever the prices and the scale.
THEOREM GapIsCovered == Spec => []OneTapSuffices
<1>1. FundingInv => OneTapSuffices
  BY DEF FundingInv
<1>2. QED
  BY <1>1, FundingInvHolds, PTL

\* What a read at the target leaves behind until something is spent: the balance
\* stays there, and an --at-least run is not past the read that ends it.
FundedKept ==
    /\ funded => balance >= Target
    /\ funded /\ mode = "at-least" => call \notin {"price", "tap"}
    /\ funded /\ mode = "at-least" /\ call = "balance" /\ reply.status = "ok" =>
         reply.value >= Target

\* What a tap mints is a natural number.
LEMMA MintedType ==
  ASSUME FundingInv, now > 0
  PROVE  Minted(usd) \in Nat
<1>1. now \in Nat /\ now <= MaxTime /\ usd \in Nat
  BY DEF FundingInv, TypeOK, ReplyTyped
<1>2. price[now] \in Nat \ {0}
  BY <1>1, PricePositive DEF FundingInv
<1>3. usd * Scale \in Nat
  BY <1>1, ConstantTypes
<1>4. QED
  BY <1>2, <1>3, DivMod DEF Minted

\* No step of the command, of the services or of others takes a funded wallet
\* below the target, or an --at-least run past the read that found it there.
LEMMA FundedStep ==
  ASSUME FundingInv, FundedKept, [Next]_vars
  PROVE  FundedKept'
<1> USE DEF FundedKept, wallet, retry, locals
<1>1. balance \in Nat /\ Target \in Nat
  BY ConstantTypes DEF FundingInv, TypeOK
<1>2. ASSUME NEW flag \in {"amount", "at-least"}, Run(flag) PROVE FundedKept'
  BY <1>2 DEF Run, Proceed
<1>3. CASE Resend \/ GiveUp
  BY <1>3 DEF Resend, GiveUp, NoReply
<1>4. CASE LoggedIn
  BY <1>4 DEF LoggedIn, Proceed, NoReply, FundingInv, TypeOK
<1>5. CASE BalanceRead
  BY <1>5 DEF BalanceRead, Succeeded, Reached, Proceed, NoReply
<1>6. CASE PriceRead
  BY <1>6 DEF PriceRead, Succeeded, Proceed, NoReply
<1>7. CASE TapReturned
  BY <1>7 DEF TapReturned, Succeeded, Proceed, NoReply
<1>8. CASE ServeLogin \/ ServePrice
  BY <1>8 DEF ServeLogin, ServePrice, Awaited, Answer, Reply
<1>9. CASE ServeBalance
  BY <1>9 DEF ServeBalance, Awaited, Answer, Reply
<1>10. CASE ServeTap
  <2>1. Minted(usd) \in Nat
    BY <1>10, MintedType DEF ServeTap
  <2>2. funded => balance' >= Target
    BY <1>1, <1>10, <2>1 DEF ServeTap
  <2>3. QED
    BY <1>10, <2>2 DEF ServeTap, Awaited
<1>11. CASE Refuse \/ Break
  BY <1>11 DEF Refuse, Break, Answer, Reply
<1>12. CASE Tick \/ Spend
  BY <1>12 DEF Tick, Spend
<1>13. CASE Credit
  BY <1>1, <1>13 DEF Credit
<1>14. CASE UNCHANGED vars
  BY <1>14 DEF vars
<1>15. QED
  BY <1>2, <1>3, <1>4, <1>5, <1>6, <1>7, <1>8, <1>9, <1>10, <1>11, <1>12, <1>13, <1>14
     DEF Next, Command, Server

\* Once the wallet has been read at the target, and until something is spent, no
\* --at-least run taps it, whatever retries, lost answers and --amount runs come
\* in between.
THEOREM RunningAgainHolds == Spec => []RunningAgainIsNoOp
<1>1. Init => FundedKept
  BY DEF Init, FundedKept
<1>2. FundingInv /\ FundedKept /\ [Next]_vars => FundedKept'
  BY FundedStep
<1>3. FundedKept => RunningAgainIsNoOp
  BY DEF FundedKept, RunningAgainIsNoOp
<1>4. QED
  BY <1>1, <1>2, <1>3, FundingInvHolds, PTL DEF Spec

----------------------------------------------------------------------------
(* `wait-ready`, `up` and `down`.                                          *)

\* Of the stack: a participant that answers is in a container, a second
\* synchronizer is one that was brought up, and a mismatch splice has logged is
\* still there.
StackSound ==
    /\ containers \subseteq Groups /\ applied.enabled \subseteq Slots
    /\ serving => Core \in containers
    /\ connected \in 0 .. Enough
    /\ connected = Enough => Shared("sync") \in containers
    /\ fatalLine => Mismatch

Loop(loop, places) == pc \in places => stage = loop

\* Of the wait: which loop it is in, and what it has found on the way there.
WaitSound ==
    /\ stage \in {"health", "syncs", "pqs"}
    /\ Loop("health", {"probing", "inspecting", "reading"})
    /\ Loop("syncs", {"minting", "polling"})
    /\ Loop("pqs", {"querying"})
    /\ calm /\ stage # "health" => serving
    /\ calm /\ stage = "pqs" /\ want.syncs => connected = Enough
    /\ stage = "pqs" => want.pqs

\* Connected and answering for a while, the participant is so now. Between two
\* polls it has been so for no longer than the pause has lasted.
SteadySound ==
    /\ steady \in Nat /\ timer \in Nat
    /\ steady > 0 => serving /\ connected = Enough
    /\ stage = "syncs" /\ pc = "pausing" => steady = 0 \/ expired
    /\ stage = "syncs" /\ pc = "napping" => steady + timer <= PollInterval \/ expired
    /\ stage = "health" => steady = 0

WaitInv == StackSound /\ WaitSound /\ SteadySound

\* What a command line activates, docker compose knows.
LEMMA KnownGroups ==
  /\ \A o : Active(o) \subseteq Groups
  /\ Core \in Groups
  /\ \A s \in PqsSlots : Group("pqs", s) \in Groups
BY DEF Active, Defined, Groups, Core, Shared

\* An up adds containers, and makes the core anew if its variables change.
LEMMA UpStep ==
  ASSUME WaitInv, UpRuns \/ MakeUpRuns
  PROVE  WaitInv'
<1>1. /\ containers \subseteq containers' /\ containers' \subseteq Groups
      /\ applied'.enabled \subseteq Slots /\ recorded' = recorded
      /\ calm' = FALSE /\ steady' = 0 /\ UNCHANGED wait
  <2>1. CASE UpRuns
    <3>1. PICK flags \in Flags, done \in BOOLEAN : Up(flags, done)
      BY <2>1 DEF UpRuns
    <3>2. QED
      BY <2>1, <3>1, KnownGroups DEF UpRuns, Up, Env, EnabledSlots, WaitInv, StackSound
  <2>2. CASE MakeUpRuns
    <3>1. PICK scribes \in SUBSET PqsSlots : MakeUp(scribes)
      BY <2>2 DEF MakeUpRuns
    <3>2. QED
      BY <2>2, <3>1, KnownGroups DEF MakeUpRuns, MakeUp, Env, EnabledSlots, WaitInv, StackSound
  <2>3. QED
    BY <2>1, <2>2
<1>2. \/ serving' = FALSE /\ connected' = 0 /\ fatalLine' = FALSE
      \/ applied' = applied /\ UNCHANGED container
  BY DEF UpRuns, MakeUpRuns, Fresh
<1>3. StackSound'
  BY <1>1, <1>2 DEF WaitInv, StackSound, Mismatch, container, Enough
<1>4. WaitSound'
  BY <1>1 DEF WaitInv, WaitSound, Loop, wait
<1>5. SteadySound'
  <2>1. PollInterval \in Nat
    BY WaitAssumption
  <2>2. QED
    BY <1>1, <2>1 DEF WaitInv, SteadySound, wait
<1>6. QED
  BY <1>3, <1>4, <1>5 DEF WaitInv

\* A down takes the core away; an edit changes the file alone.
LEMMA DownStep ==
  ASSUME WaitInv, DownRuns \/ Edits
  PROVE  WaitInv'
<1>1. CASE DownRuns
  <2>1. /\ containers' \subseteq containers /\ serving' = FALSE /\ connected' = 0
        /\ fatalLine' = FALSE /\ calm' = FALSE /\ steady' = 0 /\ UNCHANGED wait
        /\ applied'.enabled = {}
    BY <1>1 DEF DownRuns, Down, Fresh, NotRunning
  <2>2. StackSound'
    BY <2>1 DEF WaitInv, StackSound, Enough
  <2>3. WaitSound'
    BY <2>1 DEF WaitInv, WaitSound, Loop, wait
  <2>4. SteadySound'
    <3>1. PollInterval \in Nat
      BY WaitAssumption
    <3>2. QED
      BY <2>1, <3>1 DEF WaitInv, SteadySound, wait
  <2>5. QED
    BY <2>2, <2>3, <2>4 DEF WaitInv
<1>2. CASE Edits
  <2>1. UNCHANGED <<containers, applied, recorded, container, wait, calm, steady>>
    BY <1>2 DEF Edits, EditFile
  <2>2. QED
    BY <2>1 DEF WaitInv, StackSound, Mismatch, WaitSound, Loop, SteadySound, container, wait
<1>3. QED
  BY <1>1, <1>2

\* The stack gets ready, falters, dies and streams.
LEMMA StackStep ==
  ASSUME WaitInv, Stack
  PROVE  WaitInv'
<1> USE DEF Outside, topology, container
<1>1. UNCHANGED wait
  BY DEF Stack, Serve, Falter, Connect, SpliceDies, SpliceBootstraps, Stream, wait
<1>2. CASE Serve
  <2>1. /\ Core \in containers /\ UNCHANGED <<containers, applied, recorded, connected, fatalLine, calm, steady>>
        /\ serving' = TRUE
    BY <1>2 DEF Serve
  <2>2. QED
    BY <1>1, <2>1 DEF WaitInv, StackSound, Mismatch, WaitSound, Loop, SteadySound, wait
<1>3. CASE Falter
  <2>1. /\ UNCHANGED <<containers, applied, recorded, fatalLine>>
        /\ serving' = FALSE /\ connected' = 0 /\ calm' = FALSE /\ steady' = 0
    BY <1>3 DEF Falter
  <2>2. PollInterval \in Nat
    BY WaitAssumption
  <2>3. QED
    BY <1>1, <2>1, <2>2 DEF WaitInv, StackSound, Mismatch, WaitSound, Loop, SteadySound, wait, Enough
<1>4. CASE Connect
  <2>1. /\ UNCHANGED <<containers, applied, recorded, serving, fatalLine, calm, steady>>
        /\ serving /\ connected' = connected + 1
        /\ connected = 0 \/ (connected = 1 /\ Shared("sync") \in containers)
    BY <1>4 DEF Connect
  <2>2. QED
    BY <1>1, <2>1 DEF WaitInv, StackSound, Mismatch, WaitSound, Loop, SteadySound, wait, Enough
<1>5. CASE SpliceDies
  <2>1. /\ UNCHANGED <<containers, applied, recorded, serving, connected, calm, steady>>
        /\ fatalLine' = (fatalLine \/ Mismatch)
    BY <1>5 DEF SpliceDies
  <2>2. QED
    BY <1>1, <2>1 DEF WaitInv, StackSound, Mismatch, WaitSound, Loop, SteadySound, wait
<1>6. CASE SpliceBootstraps
  <2>1. /\ UNCHANGED <<containers, applied, serving, connected, fatalLine, calm, steady>>
        /\ recorded' = [s \in Slots |-> IF s \in applied.enabled \ {SV} /\ recorded[s] = NoHint
                                        THEN applied.hint[s] ELSE recorded[s]]
    BY <1>6 DEF SpliceBootstraps, Bootstrap
  <2>2. Mismatch => Mismatch'
    BY <2>1 DEF WaitInv, StackSound, Mismatch
  <2>3. QED
    BY <1>1, <2>1, <2>2 DEF WaitInv, StackSound, WaitSound, Loop, SteadySound, wait
<1>7. CASE Stream
  <2>1. UNCHANGED <<containers, applied, recorded, serving, connected, fatalLine, calm, steady>>
    BY <1>7 DEF Stream
  <2>2. QED
    BY <1>1, <2>1 DEF WaitInv, StackSound, Mismatch, WaitSound, Loop, SteadySound, wait
<1>8. QED
  BY <1>2, <1>3, <1>4, <1>5, <1>6, <1>7 DEF Stack

\* A step of the wait leaves the stack alone.
LEMMA SameStack == ASSUME StackSound, UNCHANGED stack PROVE StackSound'
BY DEF StackSound, Mismatch, stack, topology, container

\* A wait that ends, or a stage that ends, leaves nothing to account for.
LEMMA EndsStep ==
  ASSUME WaitInv, NEW how, Ends(how), UNCHANGED <<stack, want>>
  PROVE  WaitInv'
<1>1. StackSound'
  BY SameStack DEF WaitInv
<1>2. WaitSound'
  BY DEF Ends, WaitSound, Loop
<1>3. SteadySound'
  BY DEF Ends, SteadySound
<1>4. QED
  BY <1>1, <1>2, <1>3 DEF WaitInv

\* The loop over the watermark is entered when everything else was found.
LEMMA EntersPqsStep ==
  ASSUME WaitInv, EntersPqs, want.pqs, UNCHANGED <<stack, want>>,
         calm => serving, calm /\ want.syncs => connected = Enough
  PROVE  WaitInv'
<1>1. CASE Ends("failed")
  BY <1>1, EndsStep
<1>2. CASE Enters("pqs", "querying", 0)
  <2>1. StackSound'
    BY SameStack DEF WaitInv
  <2>2. WaitSound'
    BY <1>2 DEF Enters, WaitSound, Loop, stack, container
  <2>3. SteadySound'
    BY <1>2 DEF WaitInv, Enters, SteadySound, stack, container
  <2>4. QED
    BY <2>1, <2>2, <2>3 DEF WaitInv
<1>3. QED
  BY <1>1, <1>2 DEF EntersPqs

\* The probe and what follows it.
LEMMA ProbingStep ==
  ASSUME WaitInv, StartWait \/ Probing
  PROVE  WaitInv'
<1>1. UNCHANGED <<stack, want>> /\ StackSound'
  BY SameStack DEF StartWait, Probing, ProbeReady, ProbeFails, InspectFails, Inspect, ReadLogs,
                   Within, WaitInv
<1>2. CASE StartWait
  BY <1>1, <1>2, WaitAssumption DEF StartWait, WaitInv, WaitSound, Loop, SteadySound
<1>3. CASE ProbeReady
  <2>1. serving /\ AfterHealth /\ pc = "probing" /\ stage = "health"
    BY <1>3 DEF ProbeReady, Within, WaitInv, WaitSound, Loop
  <2>2. CASE Ends("ready") \/ Ends("failed")
    BY <1>1, <2>2, EndsStep
  <2>3. CASE want.syncs /\ Enters("syncs", "minting", RequestTimeout)
    <3>1. RequestTimeout \in Nat
      BY WaitAssumption
    <3>2. WaitSound'
      BY <1>1, <2>1, <2>3 DEF WaitInv, Enters, WaitSound, Loop, stack, container
    <3>3. SteadySound'
      BY <1>1, <2>1, <2>3, <3>1 DEF WaitInv, Enters, SteadySound, stack, container
    <3>4. QED
      BY <1>1, <3>2, <3>3 DEF WaitInv
  <2>4. CASE ~want.syncs /\ want.pqs /\ EntersPqs
    BY <1>1, <2>1, <2>4, EntersPqsStep
  <2>5. QED
    BY <2>1, <2>2, <2>3, <2>4 DEF AfterHealth, Further
<1>4. CASE ReadLogs /\ Ends("fatal")
  BY <1>1, <1>4, EndsStep
<1>5. CASE \E place \in {"inspecting", "reading", "pausing"} : Goes(place, 0) /\ UNCHANGED steady
  <2>1. stage = "health" \/ StartWait \/ ProbeReady
    BY DEF Probing, ProbeFails, InspectFails, Inspect, ReadLogs, Within, WaitInv, WaitSound, Loop
  <2>2. CASE stage = "health"
    BY <1>1, <1>5, <2>2 DEF Goes, WaitInv, WaitSound, Loop, SteadySound
  <2>3. QED
    BY <1>2, <1>3, <2>1, <2>2
<1>6. QED
  BY <1>2, <1>3, <1>4, <1>5 DEF Probing, ProbeFails, InspectFails, Inspect, ReadLogs

\* The loop over the synchronizers.
LEMMA PollingStep ==
  ASSUME WaitInv, Polling
  PROVE  WaitInv'
<1>1. UNCHANGED <<stack, want>> /\ StackSound' /\ stage = "syncs"
  BY SameStack DEF Polling, Mint, MintFails, PollAnswered, PollUnauthorized, PollFails,
                   Within, WaitInv, WaitSound, Loop
<1>2. CASE Mint
  <2>1. Goes("polling", RequestTimeout) /\ UNCHANGED steady /\ RequestTimeout \in Nat
    BY <1>2, WaitAssumption DEF Mint
  <2>2. QED
    BY <1>1, <2>1 DEF Goes, WaitInv, WaitSound, Loop, SteadySound, stack, container
<1>3. CASE MintFails
  BY <1>1, <1>3, EndsStep DEF MintFails
<1>4. CASE PollAnswered
  <2>1. CASE AreEnough
    <3>1. AfterSyncs /\ serving /\ connected = Enough
      BY <1>4, <2>1 DEF PollAnswered, AreEnough, WaitInv, StackSound, Enough
    <3>2. CASE want.pqs
      BY <1>1, <3>1, <3>2, EntersPqsStep DEF AfterSyncs
    <3>3. CASE ~want.pqs
      BY <1>1, <3>1, <3>3, EndsStep DEF AfterSyncs
    <3>4. QED
      BY <3>2, <3>3
  <2>2. CASE ~AreEnough
    <3>1. Goes("pausing", 0) /\ UNCHANGED steady /\ steady = 0
      BY <1>4, <2>2 DEF PollAnswered, AreEnough, WaitInv, SteadySound, Enough
    <3>2. QED
      BY <1>1, <3>1 DEF Goes, WaitInv, WaitSound, Loop, SteadySound, stack, container
  <2>3. QED
    BY <2>1, <2>2
<1>5. CASE PollUnauthorized \/ PollFails
  <2>1. Goes("pausing", 0) /\ (expired \/ steady' = 0) /\ steady' \in {0, steady}
    BY <1>5 DEF PollUnauthorized, PollFails
  <2>2. QED
    BY <1>1, <2>1 DEF Goes, WaitInv, WaitSound, Loop, SteadySound, stack, container
<1>6. QED
  BY <1>2, <1>3, <1>4, <1>5 DEF Polling

\* The loop over the watermark, and the pauses of all three.
LEMMA PausingStep ==
  ASSUME WaitInv, Querying \/ Pausing
  PROVE  WaitInv'
<1>1. UNCHANGED <<stack, want>> /\ StackSound' /\ PollInterval \in Nat /\ RequestTimeout \in Nat
  BY SameStack, WaitAssumption DEF Querying, QueryAnswered, QueryFails, Pausing, Pause, Expire, Wake,
                                   Within, WaitInv
<1>2. CASE \E how : Ends(how)
  BY <1>1, <1>2, EndsStep
<1>3. CASE Querying /\ Goes("napping", PollInterval) /\ UNCHANGED steady
  <2>1. stage = "pqs"
    BY <1>3 DEF Querying, QueryAnswered, QueryFails, Within, WaitInv, WaitSound, Loop
  <2>2. QED
    BY <1>1, <1>3, <2>1 DEF Goes, WaitInv, WaitSound, Loop, SteadySound, stack, container
<1>4. CASE pc = "pausing" /\ Goes("napping", PollInterval) /\ UNCHANGED steady
  BY <1>1, <1>4 DEF Goes, WaitInv, WaitSound, Loop, SteadySound, stack, container
<1>5. CASE Wake
  <2>1. /\ UNCHANGED <<stage, expired, calm, steady>> /\ timer' \in Nat
        /\ \/ stage = "health" /\ pc' = "probing"
           \/ stage = "syncs" /\ pc' = "polling"
           \/ stage = "pqs" /\ pc' = "querying"
    <3>1. CASE stage = "health"
      BY <1>1, <1>5, <3>1 DEF Wake, Goes
    <3>2. CASE stage = "syncs"
      BY <1>1, <1>5, <3>2 DEF Wake, Goes
    <3>3. CASE stage = "pqs"
      BY <1>1, <1>5, <3>3 DEF Wake, Goes
    <3>4. QED
      BY <3>1, <3>2, <3>3 DEF WaitInv, WaitSound
  <2>2. QED
    BY <1>1, <2>1 DEF WaitInv, WaitSound, Loop, SteadySound, stack, container
<1>6. QED
  BY <1>2, <1>3, <1>4, <1>5 DEF Querying, QueryAnswered, QueryFails, Pausing, Pause, Expire, Within

\* Time passes.
LEMMA ElapseStep ==
  ASSUME WaitInv, Elapse
  PROVE  WaitInv'
<1>1. UNCHANGED <<stack, want, stage, pc, calm>> /\ StackSound' /\ pc # "pausing"
  BY SameStack DEF Elapse, WaitInv
<1>2. WaitSound'
  BY <1>1 DEF WaitInv, WaitSound, Loop, stack, container
<1>3. SteadySound'
  <2>1. /\ timer \in Nat /\ timer' = IF timer = 0 THEN 0 ELSE timer - 1
        /\ steady \in Nat /\ (expired => expired')
        /\ pc = "napping" => timer > 0
        /\ \/ steady' = steady
           \/ stage = "syncs" /\ serving /\ connected >= Enough /\ steady' = steady + 1
    BY DEF Elapse, Decrement, Timed, WaitInv, SteadySound
  <2>2. connected >= Enough => connected = Enough
    BY DEF WaitInv, StackSound, Enough
  <2>3. PollInterval \in Nat
    BY WaitAssumption
  <2>4. QED
    BY <1>1, <2>1, <2>2, <2>3 DEF WaitInv, SteadySound, stack, container
<1>4. QED
  BY <1>1, <1>2, <1>3 DEF WaitInv

\* The invariant of the stack and of a wait for it.
THEOREM WaitInvHolds == WaitSpec => []WaitInv
<1>1. WaitInit => WaitInv
  BY DEF WaitInit, TopologyInit, NotRunning, WaitInv, StackSound, WaitSound, Loop, SteadySound, Enough
<1>2. WaitInv /\ [WaitNext]_allvars => WaitInv'
  <2> SUFFICES ASSUME WaitInv, [WaitNext]_allvars PROVE WaitInv'
    OBVIOUS
  <2>1. CASE UNCHANGED allvars
    BY <2>1 DEF allvars, stack, topology, container, wait, WaitInv, StackSound, Mismatch, WaitSound,
                Loop, SteadySound
  <2>2. QED
    BY <2>1, UpStep, DownStep, StackStep, ProbingStep, PollingStep, PausingStep, ElapseStep
       DEF WaitNext, Wait, Commands
<1>3. QED
  BY <1>1, <1>2, PTL DEF WaitSpec

\* A down leaves nothing behind but what it has no reason to take.
THEOREM DownHolds == WaitSpec => DownLeavesOnlyUnselected
<1>1. ASSUME WaitInv, NEW flags \in Flags, NEW volumes \in BOOLEAN, Down(flags, volumes)
      PROVE  containers' \subseteq Unselected(flags)
  <2> DEFINE o == DownOptions(flags)
  <2>1. containers' = containers \ Removed(o) /\ containers \subseteq Groups
    BY <1>1 DEF Down, WaitInv, StackSound
  <2>2. o.teardown = TRUE
    BY DEF DownOptions, Options
  <2> HIDE DEF o
  <2>3. ASSUME NEW g \in Groups, g \notin Removed(o)
        PROVE  \/ \E s \in Slots \ o.enabled : g = Group("ui", s)
               \/ ~o.multiSync /\ g = Shared("sync")
    <3>1. g.kind \in ComposeFiles(o) /\ g \notin Profiles(o)
      BY <2>3 DEF Removed, Active, Defined
    <3>2. QED
      BY <2>2, <2>3, <3>1 DEF Groups, ComposeFiles, Profiles, PqsProfiles, If, Core, Shared, Group
  <2>4. QED
    BY <2>1, <2>3 DEF Unselected, If, o
<1>2. WaitInv /\ [WaitNext]_allvars =>
        [commands' > commands /\ applied' = NotRunning =>
           \A flags \in Flags, volumes \in BOOLEAN :
             Down(flags, volumes) => containers' \subseteq Unselected(flags)]_allvars
  BY <1>1
<1>3. QED
  BY <1>2, WaitInvHolds, PTL DEF WaitSpec, DownLeavesOnlyUnselected

\* What a wait reports, it reports at the end of one of its stages.
LEMMA Reported ==
  ASSUME WaitInv, WaitNext, pc # "idle", pc' = "idle"
  PROVE  Wait
BY DEF WaitNext, StartWait, Elapse, Commands, UpRuns, MakeUpRuns, DownRuns, Edits, Stack,
       Serve, Falter, Connect, SpliceDies, SpliceBootstraps, Stream, Outside, wait

\* A wait is broken off only for a mismatch that is there.
THEOREM AbortsHolds == WaitSpec => AbortsForCause
<1>1. WaitInv /\ [WaitNext]_allvars => [Reports("fatal") => Mismatch]_allvars
  <2> SUFFICES ASSUME WaitInv, WaitNext, Reports("fatal") PROVE Mismatch
    OBVIOUS
  <2>1. Wait /\ pc' = "idle" /\ verdict' = "fatal"
    BY Reported DEF Reports
  <2>2. ReadLogs
    BY <2>1 DEF Wait, Probing, ProbeReady, ProbeFails, InspectFails, Inspect, Polling, Mint,
                MintFails, PollAnswered, PollUnauthorized, PollFails, Querying, QueryAnswered,
                QueryFails, Pausing, Pause, Expire, Wake, AfterHealth, Further, AfterSyncs, EntersPqs,
                Ends, Goes, Enters, WaitInv, WaitSound
  <2>3. fatalLine
    BY <2>1, <2>2 DEF ReadLogs, Goes
  <2>4. QED
    BY <2>3 DEF WaitInv, StackSound
<1>2. QED
  BY <1>1, WaitInvHolds, PTL DEF WaitSpec, AbortsForCause

\* A wait that was let alone and reports ready has found all it was asked for.
THEOREM ReadyIsReady == WaitSpec => ReadyHolds
<1>1. WaitInv /\ [WaitNext]_allvars =>
        [Reports("ready") /\ calm =>
           /\ serving /\ Core \in containers
           /\ want.syncs => connected = Enough /\ Shared("sync") \in containers
           /\ want.pqs => watermark]_allvars
  <2> SUFFICES ASSUME WaitInv, WaitNext, Reports("ready"), calm
               PROVE  /\ serving /\ Core \in containers
                      /\ want.syncs => connected = Enough /\ Shared("sync") \in containers
                      /\ want.pqs => watermark
    OBVIOUS
  <2>1. Wait /\ pc' = "idle" /\ verdict' = "ready"
    BY Reported DEF Reports
  <2>2. \/ ProbeReady /\ ~want.syncs /\ ~want.pqs
        \/ PollAnswered /\ AreEnough /\ ~want.pqs
        \/ QueryAnswered /\ watermark
    BY <2>1 DEF Wait, Probing, ProbeReady, ProbeFails, InspectFails, Inspect, ReadLogs, Polling, Mint,
                MintFails, PollAnswered, PollUnauthorized, PollFails, Querying, QueryAnswered,
                QueryFails, Pausing, Pause, Expire, Wake, AfterHealth, Further, AfterSyncs, EntersPqs,
                Ends, Goes, Enters, WaitInv, WaitSound
  <2>3. CASE ProbeReady /\ ~want.syncs /\ ~want.pqs
    BY <2>3 DEF ProbeReady, WaitInv, StackSound
  <2>4. CASE PollAnswered /\ AreEnough /\ ~want.pqs
    BY <2>4 DEF PollAnswered, AreEnough, WaitInv, StackSound, Enough
  <2>5. CASE QueryAnswered /\ watermark
    BY <2>5 DEF QueryAnswered, Within, WaitInv, StackSound, WaitSound, Loop
  <2>6. QED
    BY <2>2, <2>3, <2>4, <2>5
<1>2. QED
  BY <1>1, WaitInvHolds, PTL DEF WaitSpec, ReadyHolds

\* A wait for the synchronizers times out for a cause.
THEOREM TimeoutHasCause == WaitSpec => SyncTimeoutHasCause
<1>1. WaitInv /\ [WaitNext]_allvars =>
        [Reports("timeout") /\ stage = "syncs" => steady <= PollInterval \/ expired]_allvars
  <2> SUFFICES ASSUME WaitInv, WaitNext, Reports("timeout"), stage = "syncs"
               PROVE  steady <= PollInterval \/ expired
    OBVIOUS
  <2>1. Wait /\ pc' = "idle" /\ verdict' = "timeout"
    BY Reported DEF Reports
  <2>2. pc \in {"pausing", "napping"}
    BY <2>1 DEF Wait, Probing, ProbeReady, ProbeFails, InspectFails, Inspect, ReadLogs, Polling, Mint,
                MintFails, PollAnswered, PollUnauthorized, PollFails, Querying, QueryAnswered,
                QueryFails, Pausing, Pause, Expire, Wake, AfterHealth, Further, AfterSyncs, EntersPqs,
                Ends, Goes, Enters, Within
  <2>3. PollInterval \in Nat
    BY WaitAssumption
  <2>4. QED
    BY <2>2, <2>3 DEF WaitInv, SteadySound
<1>2. QED
  BY <1>1, WaitInvHolds, PTL DEF WaitSpec, SyncTimeoutHasCause


==============================================================================
