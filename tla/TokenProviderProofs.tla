------------------------- MODULE TokenProviderProofs -------------------------
(***************************************************************************)
(* Proofs that the safety properties of TokenProvider hold for any set of  *)
(* callers, any lifetimes and any bounds. Inv is the inductive invariant;  *)
(* its conjuncts beyond the properties say what a leader has in hand while *)
(* its request is out, and how far expiresAt can lag behind the server.    *)
(***************************************************************************)
EXTENDS TokenProvider, TLAPS

\* A minted token on its way is younger than the client's timeout; once it is
\* received, the computed expiry exceeds the server's by that much at most.
InHand ==
    \A c \in Callers :
        /\ pc[c] = "minted" =>
             /\ outcome[c].err = "none"
             /\ outcome[c].token \in Tokens
             /\ now <= outcome[c].token.minted + RequestTimeout
        /\ pc[c] = "fetched" /\ outcome[c].err = "none" =>
             /\ outcome[c].token \in Tokens
             /\ outcome[c].until > 0
             /\ outcome[c].until <= Dies(outcome[c].token) + RequestTimeout

\* Only a call that became a leader has a request in flight.
LeadersLed == \A c \in Callers : pc[c] \in InFlight => led[c]

ExpiryBound == cached # NoToken => expiresAt <= Dies(cached) + RequestTimeout

Inv ==
    /\ TypeOK
    /\ InHand
    /\ SingleFlight
    /\ NoLostWakeup
    /\ LeadersLed
    /\ OwnCancellationOnly
    /\ ExpiryBound

\* What the records of the module have in their fields.
LEMMA TokenFacts ==
    /\ NoToken \notin Tokens
    /\ \A t \in Tokens : t.epoch \in Nat /\ t.minted \in Nat /\ t.life \in Nat /\ t.life > 0
    /\ \A t \in MaybeToken : t.minted \in Nat /\ t.life \in Nat /\ (t # NoToken => t \in Tokens)
    /\ Nothing \in Outcomes
    /\ \A e \in Errors : Failed(e) \in Outcomes /\ Failed(e).err = e
    /\ \A t \in MaybeToken : Holding(t) \in Outcomes /\ Holding(t).err = "none"
                                /\ Holding(t).token = t
  BY DEF NoToken, Tokens, MaybeToken, Nothing, Outcomes, Failed, Holding, Errors

\* The invariant holds before the first call of Token.
LEMMA InitInv == Init => Inv
<1> SUFFICES ASSUME Init PROVE Inv
  OBVIOUS
<1>1. TypeOK
  BY TokenFacts DEF Init, TypeOK, MaybeToken, Errors, Locations
<1>2. QED
  BY <1>1 DEF Init, Inv, InHand, SingleFlight, NoLostWakeup, LeadersLed,
     OwnCancellationOnly, ExpiryBound, InFlight

----------------------------------------------------------------------------
(* TypeOK is preserved given what a leader has in hand.                    *)

\* Every step keeps the types: what a leader publishes is a token with an expiry.
LEMMA TypeStep == TypeOK /\ InHand /\ [Next]_vars => TypeOK'
<1> SUFFICES ASSUME TypeOK, InHand, [Next]_vars PROVE TypeOK'
  OBVIOUS
<1> USE DEF TypeOK, provider, callVars, Goto, Errors, Locations
<1>1. ASSUME NEW c \in Callers, StartCall(c) PROVE TypeOK'
  BY <1>1, TokenFacts DEF StartCall
<1>2. ASSUME NEW c \in Callers, ReturnCached(c) PROVE TypeOK'
  BY <1>2, TokenFacts DEF ReturnCached
<1>3. ASSUME NEW c \in Callers, Follow(c) PROVE TypeOK'
  BY <1>3 DEF Follow
<1>4. ASSUME NEW c \in Callers, Lead(c) PROVE TypeOK'
  BY <1>4 DEF Lead
<1>5. ASSUME NEW c \in Callers, Wake(c) PROVE TypeOK'
  BY <1>5 DEF Wake
<1>6. ASSUME NEW c \in Callers, GiveUp(c) PROVE TypeOK'
  BY <1>6, TokenFacts DEF GiveUp
<1>7. ASSUME NEW c \in Callers, CopyOutcome(c) PROVE TypeOK'
  BY <1>7, TokenFacts DEF CopyOutcome
<1>8. ASSUME NEW c \in Callers, Retry(c) PROVE TypeOK'
  BY <1>8, TokenFacts DEF Retry
<1>9. ASSUME NEW c \in Callers, ReturnJoined(c) PROVE TypeOK'
  BY <1>9 DEF ReturnJoined
<1>10. ASSUME NEW c \in Callers, Publish(c) PROVE TypeOK'
  <2>1. outcome[c] \in Outcomes
    OBVIOUS
  <2>2. outcome[c].err = "none" =>
           outcome[c].token \in Tokens /\ outcome[c].until \in Nat /\ outcome[c].until > 0
    BY <1>10, <2>1 DEF Publish, InHand, Outcomes
  <2>3. /\ cached' \in MaybeToken
        /\ expiresAt' \in Nat
        /\ (cached' = NoToken) <=> (expiresAt' = 0)
    BY <1>10, <2>2, TokenFacts DEF Publish, MaybeToken
  <2>4. refreshErr' \in Errors
    BY <1>10, <2>1 DEF Publish, Outcomes
  <2>5. QED
    BY <1>10, <2>3, <2>4 DEF Publish
<1>11. ASSUME NEW c \in Callers, NEW life \in Lifetimes, Mint(c, life) PROVE TypeOK'
  <2>1. [epoch |-> epoch, minted |-> now, life |-> life] \in MaybeToken
    BY ProviderAssumption DEF MaybeToken, Tokens
  <2>2. QED
    BY <1>11, <2>1, TokenFacts DEF Mint
<1>12. ASSUME NEW c \in Callers, Receive(c) PROVE TypeOK'
  <2>1. now + outcome[c].token.life \in Nat
    BY <1>12, TokenFacts DEF Receive, InHand
  <2>2. [outcome[c] EXCEPT !.until = now + outcome[c].token.life] \in Outcomes
    BY <2>1 DEF Outcomes
  <2>3. QED
    BY <1>12, <2>2 DEF Receive
<1>13. ASSUME NEW c \in Callers, NEW e \in {"ctx", "other"}, FetchFails(c, e) PROVE TypeOK'
  BY <1>13, TokenFacts DEF FetchFails
<1>14. ASSUME NEW c \in Callers, Cancel(c) PROVE TypeOK'
  BY <1>14 DEF Cancel
<1>15. ASSUME Invalidate PROVE TypeOK'
  BY <1>15 DEF Invalidate, MaybeToken
<1>16. ASSUME Tick PROVE TypeOK'
  BY <1>16 DEF Tick
<1>17. ASSUME UNCHANGED vars PROVE TypeOK'
  BY <1>17 DEF vars
<1>18. QED
  BY <1>1, <1>2, <1>3, <1>4, <1>5, <1>6, <1>7, <1>8, <1>9, <1>10, <1>11, <1>12, <1>13,
     <1>14, <1>15, <1>16, <1>17 DEF Next, Step, FetchStep

----------------------------------------------------------------------------
(* Single flight, and the channel a follower sleeps on.                    *)

\* Every step keeps one flight at most, and a channel that flight will close
\* for every follower.
LEMMA FlightStep ==
    TypeOK /\ SingleFlight /\ NoLostWakeup /\ [Next]_vars => SingleFlight' /\ NoLostWakeup'
<1> DEFINE Safe == SingleFlight /\ NoLostWakeup
<1> SUFFICES ASSUME TypeOK, Safe, [Next]_vars PROVE Safe'
  OBVIOUS
<1> USE DEF Safe, TypeOK, SingleFlight, NoLostWakeup, InFlight, provider, callVars, Goto, Locations
<1>1. ASSUME NEW c \in Callers, StartCall(c) PROVE Safe'
  BY <1>1 DEF StartCall
<1>2. ASSUME NEW c \in Callers, ReturnCached(c) PROVE Safe'
  BY <1>2 DEF ReturnCached
<1>3. ASSUME NEW c \in Callers, Follow(c) PROVE Safe'
  BY <1>3 DEF Follow
<1>4. ASSUME NEW c \in Callers, Lead(c) PROVE Safe'
  <2>1. \A d \in Callers : pc[d] \notin InFlight
    BY <1>4 DEF Lead
  <2>2. \A d \in Callers : pc[d] = "waiting" => awaited[d] \in closed
    BY <1>4 DEF Lead
  <2>3. QED
    BY <1>4, <2>1, <2>2 DEF Lead
<1>5. ASSUME NEW c \in Callers, Wake(c) PROVE Safe'
  BY <1>5 DEF Wake
<1>6. ASSUME NEW c \in Callers, GiveUp(c) PROVE Safe'
  BY <1>6 DEF GiveUp
<1>7. ASSUME NEW c \in Callers, CopyOutcome(c) PROVE Safe'
  BY <1>7 DEF CopyOutcome
<1>8. ASSUME NEW c \in Callers, Retry(c) PROVE Safe'
  BY <1>8 DEF Retry
<1>9. ASSUME NEW c \in Callers, ReturnJoined(c) PROVE Safe'
  BY <1>9 DEF ReturnJoined
<1>10. ASSUME NEW c \in Callers, Publish(c) PROVE Safe'
  <2>1. \A d \in Callers : pc'[d] \notin InFlight
    BY <1>10 DEF Publish
  <2>2. NoLostWakeup'
    BY <1>10 DEF Publish
  <2>3. QED
    BY <1>10, <2>1, <2>2 DEF Publish
<1>11. ASSUME NEW c \in Callers, FetchStep(c) PROVE Safe'
  <2>1. /\ pc[c] \in InFlight
        /\ \E l \in InFlight : pc' = [pc EXCEPT ![c] = l]
        /\ UNCHANGED <<refreshing, refreshDone, closed, awaited>>
    BY <1>11 DEF FetchStep, Mint, Receive, FetchFails
  <2>2. QED
    BY <2>1
<1>12. ASSUME NEW c \in Callers, Cancel(c) PROVE Safe'
  BY <1>12 DEF Cancel
<1>13. ASSUME Invalidate PROVE Safe'
  BY <1>13 DEF Invalidate
<1>14. ASSUME Tick PROVE Safe'
  BY <1>14 DEF Tick
<1>15. ASSUME UNCHANGED vars PROVE Safe'
  BY <1>15 DEF vars
<1>16. QED
  BY <1>1, <1>2, <1>3, <1>4, <1>5, <1>6, <1>7, <1>8, <1>9, <1>10, <1>11, <1>12, <1>13,
     <1>14, <1>15 DEF Next, Step

----------------------------------------------------------------------------
(* Whose context error a call returns.                                     *)

\* Every step keeps a follower from a context error that is not its own.
LEMMA OwnershipStep ==
    TypeOK /\ LeadersLed /\ OwnCancellationOnly /\ [Next]_vars
      => LeadersLed' /\ OwnCancellationOnly'
<1> DEFINE Safe == LeadersLed /\ OwnCancellationOnly
<1> SUFFICES ASSUME TypeOK, Safe, [Next]_vars PROVE Safe'
  OBVIOUS
<1> USE DEF Safe, TypeOK, LeadersLed, OwnCancellationOnly, InFlight, provider, callVars, Goto, Locations
<1>1. ASSUME NEW c \in Callers, StartCall(c) PROVE Safe'
  BY <1>1 DEF StartCall
<1>2. ASSUME NEW c \in Callers, ReturnCached(c) PROVE Safe'
  BY <1>2, TokenFacts DEF ReturnCached
<1>3. ASSUME NEW c \in Callers, Follow(c) PROVE Safe'
  BY <1>3 DEF Follow
<1>4. ASSUME NEW c \in Callers, Lead(c) PROVE Safe'
  BY <1>4 DEF Lead
<1>5. ASSUME NEW c \in Callers, Wake(c) PROVE Safe'
  BY <1>5 DEF Wake
<1>6. ASSUME NEW c \in Callers, GiveUp(c) PROVE Safe'
  BY <1>6 DEF GiveUp
<1>7. ASSUME NEW c \in Callers, CopyOutcome(c) PROVE Safe'
  BY <1>7 DEF CopyOutcome
<1>8. ASSUME NEW c \in Callers, Retry(c) PROVE Safe'
  BY <1>8 DEF Retry
<1>9. ASSUME NEW c \in Callers, ReturnJoined(c) PROVE Safe'
  BY <1>9 DEF ReturnJoined, Retries
<1>10. ASSUME NEW c \in Callers, Publish(c) PROVE Safe'
  BY <1>10 DEF Publish
<1>11. ASSUME NEW c \in Callers, FetchStep(c) PROVE Safe'
  <2>1. /\ pc[c] \in InFlight
        /\ \E l \in InFlight : pc' = [pc EXCEPT ![c] = l]
        /\ \E o : outcome' = [outcome EXCEPT ![c] = o]
        /\ UNCHANGED <<led, cancelled>>
    BY <1>11 DEF FetchStep, Mint, Receive, FetchFails
  <2>2. QED
    BY <2>1
<1>12. ASSUME NEW c \in Callers, Cancel(c) PROVE Safe'
  BY <1>12 DEF Cancel
<1>13. ASSUME Invalidate PROVE Safe'
  BY <1>13 DEF Invalidate
<1>14. ASSUME Tick PROVE Safe'
  BY <1>14 DEF Tick
<1>15. ASSUME UNCHANGED vars PROVE Safe'
  BY <1>15 DEF vars
<1>16. QED
  BY <1>1, <1>2, <1>3, <1>4, <1>5, <1>6, <1>7, <1>8, <1>9, <1>10, <1>11, <1>12, <1>13,
     <1>14, <1>15 DEF Next, Step

----------------------------------------------------------------------------
(* How far the computed expiry can exceed the server's.                    *)

\* Every step keeps the cached expiry within RequestTimeout of the server's.
LEMMA ExpiryStep ==
    TypeOK /\ InHand /\ ExpiryBound /\ [Next]_vars => InHand' /\ ExpiryBound'
<1> DEFINE Safe == InHand /\ ExpiryBound
<1> SUFFICES ASSUME TypeOK, Safe, [Next]_vars PROVE Safe'
  OBVIOUS
<1> USE DEF Safe, TypeOK, InHand, ExpiryBound, provider, callVars, Goto, Locations
<1>1. ASSUME NEW c \in Callers, StartCall(c) PROVE Safe'
  BY <1>1 DEF StartCall
<1>2. ASSUME NEW c \in Callers, ReturnCached(c) PROVE Safe'
  BY <1>2 DEF ReturnCached
<1>3. ASSUME NEW c \in Callers, Follow(c) PROVE Safe'
  BY <1>3 DEF Follow
<1>4. ASSUME NEW c \in Callers, Lead(c) PROVE Safe'
  BY <1>4 DEF Lead
<1>5. ASSUME NEW c \in Callers, Wake(c) PROVE Safe'
  BY <1>5 DEF Wake
<1>6. ASSUME NEW c \in Callers, GiveUp(c) PROVE Safe'
  BY <1>6 DEF GiveUp
<1>7. ASSUME NEW c \in Callers, CopyOutcome(c) PROVE Safe'
  BY <1>7 DEF CopyOutcome
<1>8. ASSUME NEW c \in Callers, Retry(c) PROVE Safe'
  BY <1>8 DEF Retry
<1>9. ASSUME NEW c \in Callers, ReturnJoined(c) PROVE Safe'
  BY <1>9 DEF ReturnJoined
<1>10. ASSUME NEW c \in Callers, Publish(c) PROVE Safe'
  BY <1>10 DEF Publish
<1>11. ASSUME NEW c \in Callers, NEW life \in Lifetimes, Mint(c, life) PROVE Safe'
  <2>1. [epoch |-> epoch, minted |-> now, life |-> life] \in Tokens
    BY ProviderAssumption DEF Tokens
  <2>2. QED
    BY <1>11, <2>1, TokenFacts, ProviderAssumption DEF Mint, MaybeToken
<1>12. ASSUME NEW c \in Callers, Receive(c) PROVE Safe'
  <2>1. /\ outcome[c].token \in Tokens
        /\ now + outcome[c].token.life <= Dies(outcome[c].token) + RequestTimeout
        /\ now + outcome[c].token.life > 0
    BY <1>12, TokenFacts, ProviderAssumption DEF Receive, Dies
  <2>2. /\ outcome[c] \in Outcomes
        /\ outcome'[c] = [outcome[c] EXCEPT !.until = now + outcome[c].token.life]
    BY <1>12 DEF Receive
  <2>3. /\ outcome'[c].token = outcome[c].token
        /\ outcome'[c].until = now + outcome[c].token.life
    BY <2>2 DEF Outcomes
  <2>4. QED
    BY <1>12, <2>1, <2>3 DEF Receive
<1>13. ASSUME NEW c \in Callers, NEW e \in {"ctx", "other"}, FetchFails(c, e) PROVE Safe'
  BY <1>13, TokenFacts DEF FetchFails, Errors
<1>14. ASSUME NEW c \in Callers, Cancel(c) PROVE Safe'
  BY <1>14 DEF Cancel
<1>15. ASSUME Invalidate PROVE Safe'
  BY <1>15 DEF Invalidate
<1>16. ASSUME Tick PROVE Safe'
  BY <1>16, TokenFacts, ProviderAssumption DEF Tick
<1>17. ASSUME UNCHANGED vars PROVE Safe'
  BY <1>17 DEF vars
<1>18. QED
  BY <1>1, <1>2, <1>3, <1>4, <1>5, <1>6, <1>7, <1>8, <1>9, <1>10, <1>11, <1>12, <1>13,
     <1>14, <1>15, <1>16, <1>17 DEF Next, Step, FetchStep

----------------------------------------------------------------------------

\* Inv is an inductive invariant of the provider.
THEOREM InvHolds == Spec => []Inv
<1>1. Init => Inv
  BY InitInv
<1>2. Inv /\ [Next]_vars => Inv'
  BY TypeStep, FlightStep, OwnershipStep, ExpiryStep DEF Inv
<1>3. QED
  BY <1>1, <1>2, PTL DEF Spec

\* The struct's fields and Token's locals keep their types, and an empty
\* cached token goes with the zero expiry, for any number of goroutines.
THEOREM TypeCorrect == Spec => []TypeOK
  BY InvHolds, PTL DEF Inv

\* In-flight refreshes are coalesced: at most one token request is out, and
\* p.refreshing tells whether one is.
THEOREM RefreshesCoalesced == Spec => []SingleFlight
  BY InvHolds, PTL DEF Inv

\* A follower never sleeps on a channel that no refresh in flight will close.
THEOREM WakeupsNotLost == Spec => []NoLostWakeup
  BY InvHolds, PTL DEF Inv

\* A follower never returns its leader's cancellation as its own error.
THEOREM CancellationIsOwn == Spec => []OwnCancellationOnly
  BY InvHolds, PTL DEF Inv

\* With a request timeout no longer than RefreshSkew, a token the cache calls
\* fresh is alive at the server, whatever its lifetime.
THEOREM FreshTokensAlive == Spec => []FreshMeansAlive
<1>1. Inv => FreshMeansAlive
  <2> SUFFICES ASSUME Inv, IsFresh PROVE now < Dies(cached)
    BY DEF FreshMeansAlive
  <2>1. /\ now + RefreshSkew < expiresAt
        /\ expiresAt <= Dies(cached) + RequestTimeout
    BY DEF Inv, IsFresh, ExpiryBound
  <2>2. Dies(cached) \in Nat
    BY TokenFacts DEF Inv, TypeOK, Dies
  <2>3. QED
    BY <2>1, <2>2, ProviderAssumption DEF Inv, TypeOK
<1>2. QED
  BY <1>1, InvHolds, PTL

=============================================================================
