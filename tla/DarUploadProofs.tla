--------------------------- MODULE DarUploadProofs ---------------------------
(***************************************************************************)
(* The C# library's token provider implements TokenService and its DAR     *)
(* uploader PackageVetting, for any number of uploads, synchronizers, DARs *)
(* and attempts, and whatever is cancelled, disposed of or lost.           *)
(***************************************************************************)
EXTENDS DarUpload, TLAPS

Inside == {"holding", "fetching", "leaving"}

Tokens == Nat \cup {NoToken}

TokenTypeOK ==
    /\ now \in Nat
    /\ cached \in Tokens
    /\ lock \in Calls \cup {Free}
    /\ at \in [Calls -> Places]
    /\ got \in [Calls -> Tokens]
    /\ cancelled \subseteq Calls
    /\ disposed \in BOOLEAN

\* A call holds a token only between the moment it found or fetched it and
\* the moment its caller takes it.
GotWhenLeaving == \A c \in Calls : got[c] # NoToken => at[c] \in {"leaving", "given"}

TokenInv == TokenTypeOK /\ GotWhenLeaving /\ LockHeldByOne

----------------------------------------------------------------------------
(* The provider by itself.                                                 *)

\* Nobody has asked for a token yet.
LEMMA TokenInitInv == TokenInit => TokenInv
<1> SUFFICES ASSUME TokenInit PROVE TokenInv
  OBVIOUS
<1>1. TokenTypeOK
  BY TokenCacheAssumption DEF TokenInit, TokenTypeOK, Places, Tokens
<1>2. GotWhenLeaving /\ LockHeldByOne
  BY TokenCacheAssumption DEF TokenInit, GotWhenLeaving, LockHeldByOne
<1> QED
  BY <1>1, <1>2 DEF TokenInv

\* What a call does that takes and gives up no semaphore.
LEMMA StepsAside ==
  ASSUME TokenInv, NEW c \in Calls,
         Ask(c) \/ Peek(c) \/ Abandon(c) \/ Take(c) \/ TakeRefusal(c)
  PROVE  TokenInv'
<1> USE TokenCacheAssumption
    DEF TokenInv, TokenTypeOK, GotWhenLeaving, LockHeldByOne, Places, Tokens, Moves, Gets, Same
<1>1. CASE Ask(c)
  BY <1>1 DEF Ask
<1>2. CASE Peek(c)
  BY <1>2 DEF Peek, IsValid
<1>3. CASE Abandon(c)
  BY <1>3 DEF Abandon
<1>4. CASE Take(c)
  BY <1>4 DEF Take
<1>5. CASE TakeRefusal(c)
  BY <1>5 DEF TakeRefusal
<1> QED
  BY <1>1, <1>2, <1>3, <1>4, <1>5

\* What a call does from WaitAsync to its Release.
LEMMA StepsInside ==
  ASSUME TokenInv, NEW c \in Calls,
         Enter(c) \/ Check(c) \/ Fetch(c) \/ FetchFails(c) \/ Release(c) \/ ReleaseThrows(c)
  PROVE  TokenInv'
<1> USE TokenCacheAssumption
    DEF TokenInv, TokenTypeOK, GotWhenLeaving, LockHeldByOne, Places, Tokens, Moves, Gets, Same
<1>1. CASE Enter(c)
  BY <1>1 DEF Enter
<1>2. CASE Check(c)
  BY <1>2 DEF Check, IsValid
<1>3. CASE Fetch(c)
  BY <1>3 DEF Fetch
<1>4. CASE FetchFails(c)
  BY <1>4 DEF FetchFails
<1>5. CASE Release(c)
  BY <1>5 DEF Release
<1>6. CASE ReleaseThrows(c)
  BY <1>6 DEF ReleaseThrows
<1> QED
  BY <1>1, <1>2, <1>3, <1>4, <1>5, <1>6

\* Every step of the provider keeps its invariant.
LEMMA TokenNextInv ==
  ASSUME TokenInv, [TokenNext]_provider
  PROVE  TokenInv'
<1>1. CASE UNCHANGED provider
  BY <1>1 DEF TokenInv, TokenTypeOK, GotWhenLeaving, LockHeldByOne, provider
<1>2. ASSUME NEW c \in Calls, Ask(c) \/ Proceed(c) \/ Take(c) \/ TakeRefusal(c)
      PROVE  TokenInv'
  BY <1>2, StepsAside, StepsInside DEF Proceed
<1>3. ASSUME NEW c \in Calls, Cancel(c)
      PROVE  TokenInv'
  BY <1>3 DEF Cancel, TokenInv, TokenTypeOK, GotWhenLeaving, LockHeldByOne
<1>4. CASE Dispose
  BY <1>4 DEF Dispose, TokenInv, TokenTypeOK, GotWhenLeaving, LockHeldByOne
<1>5. CASE Tick
  BY <1>5 DEF Tick, TokenInv, TokenTypeOK, GotWhenLeaving, LockHeldByOne
<1> QED
  BY <1>1, <1>2, <1>3, <1>4, <1>5 DEF TokenNext

\* How a phase follows from a place.
LEMMA Phases ==
  ASSUME NEW token
  PROVE  /\ PhaseOf("out", token) = "none"
         /\ \A place \in {"asking", "entering", "waiting", "holding"} :
              PhaseOf(place, token) = "open"
         /\ PhaseOf("fetching", token) = "refreshing"
         /\ PhaseOf("leaving", token) = IF token = NoToken THEN "refused" ELSE "offered"
         /\ PhaseOf("given", token) = "offered"
         /\ PhaseOf("refused", token) = "refused"
  BY DEF PhaseOf

\* A call that moves changes no phase but its own.
LEMMA PhaseMoves ==
  ASSUME TokenInv, NEW c \in Calls, NEW place, NEW token,
         at' = [at EXCEPT ![c] = place], got' = [got EXCEPT ![c] = token]
  PROVE  /\ TS!Turns(c, PhaseOf(at[c], got[c]), PhaseOf(place, token))
         /\ TS!Hands(c, token)
  BY DEF phase, TokenInv, TokenTypeOK, TS!Turns, TS!Hands

\* A token that is not touched is as good as handed to its call again.
LEMMA KeptToken ==
  ASSUME TokenInv, NEW c \in Calls, got' = got
  PROVE  /\ got' = [got EXCEPT ![c] = got[c]]
         /\ at[c] \notin {"leaving", "given"} => got' = [got EXCEPT ![c] = NoToken]
  BY DEF TokenInv, TokenTypeOK, GotWhenLeaving

\* A call of one phase before and after a step that keeps the rest.
LEMMA NoPhase ==
  ASSUME TokenInv, NEW c \in Calls, NEW place, at' = [at EXCEPT ![c] = place],
         UNCHANGED <<now, cached, got, cancelled, disposed>>,
         PhaseOf(place, got[c]) = PhaseOf(at[c], got[c])
  PROVE  UNCHANGED TS!vars
<1>1. \A d \in Calls : PhaseOf(at'[d], got'[d]) = PhaseOf(at[d], got[d])
  BY DEF TokenInv, TokenTypeOK
<1> QED
  BY <1>1 DEF phase, TS!vars

\* To TokenService, what is not a step of its own is none at all.
LEMMA StepsAsideRefine ==
  ASSUME TokenInv, NEW c \in Calls,
         Ask(c) \/ Peek(c) \/ Abandon(c) \/ Take(c) \/ TakeRefusal(c)
  PROVE  [TS!Next]_TS!vars
<1> USE DEF Moves, Gets, Same
<1>1. CASE Ask(c)
  <2>1. got' = [got EXCEPT ![c] = got[c]]
    BY <1>1, KeptToken DEF Ask
  <2>2. TS!Turns(c, PhaseOf("out", got[c]), PhaseOf("asking", got[c]))
    BY <1>1, <2>1, PhaseMoves DEF Ask
  <2>3. TS!Open(c)
    BY <1>1, <2>2, Phases DEF Ask, TS!Open
  <2> QED
    BY <2>3 DEF TS!Next
<1>2. CASE Peek(c) /\ IsValid
  <2>1. TS!Offer(c)
    BY <1>2, PhaseMoves, Phases DEF Peek, IsValid, TS!Offer, TS!FreshStock
  <2> QED
    BY <2>1 DEF TS!Next
<1>3. CASE Peek(c) /\ ~IsValid
  BY <1>3, NoPhase, Phases DEF Peek
<1>4. CASE Abandon(c)
  <2>1. TS!Refuse(c)
    BY <1>4, PhaseMoves, KeptToken, Phases DEF Abandon, TS!Refuse
  <2> QED
    BY <2>1 DEF TS!Next
<1>5. CASE Take(c)
  <2>1. TS!Turns(c, PhaseOf("given", got[c]), PhaseOf("out", NoToken)) /\ TS!Hands(c, NoToken)
    BY <1>5, PhaseMoves DEF Take
  <2>2. TS!Close(c)
    BY <1>5, <2>1, Phases DEF Take, TS!Close
  <2> QED
    BY <2>2 DEF TS!Next
<1>6. CASE TakeRefusal(c)
  <2>1. got' = [got EXCEPT ![c] = NoToken]
    BY <1>6, KeptToken DEF TakeRefusal
  <2>2. TS!Turns(c, PhaseOf("refused", got[c]), PhaseOf("out", NoToken)) /\ TS!Hands(c, NoToken)
    BY <1>6, <2>1, PhaseMoves DEF TakeRefusal
  <2>3. TS!Close(c)
    BY <1>6, <2>2, Phases DEF TakeRefusal, TS!Close
  <2> QED
    BY <2>3 DEF TS!Next
<1> QED
  BY <1>1, <1>2, <1>3, <1>4, <1>5, <1>6

\* The semaphore changes hands without TokenService.
LEMMA ReleaseRefines ==
  ASSUME TokenInv, NEW c \in Calls, Release(c)
  PROVE  UNCHANGED TS!vars
<1> DEFINE end == IF got[c] = NoToken THEN "refused" ELSE "given"
<1>1. PhaseOf(end, got[c]) = PhaseOf(at[c], got[c])
  BY Phases DEF Release
<1>2. CASE at' = [at EXCEPT ![c] = end]
  BY <1>1, <1>2, NoPhase DEF Release, Same
<1>3. ASSUME NEW d \in Calls, at[d] = "waiting",
             at' = [at EXCEPT ![c] = end, ![d] = "holding"]
      PROVE  UNCHANGED TS!vars
  <2>1. at[c] = "leaving" /\ UNCHANGED <<now, cached, got, cancelled, disposed>>
    BY DEF Release, Same
  <2>2. \A e \in Calls : PhaseOf(at'[e], got[e]) = PhaseOf(at[e], got[e])
    <3> TAKE e \in Calls
    <3>1. CASE e = d
      BY <1>3, <2>1, <3>1, Phases DEF TokenInv, TokenTypeOK
    <3>2. CASE e = c
      BY <1>1, <1>3, <2>1, <3>2 DEF TokenInv, TokenTypeOK
    <3>3. CASE e # c /\ e # d
      BY <1>3, <3>3 DEF TokenInv, TokenTypeOK
    <3> QED
      BY <3>1, <3>2, <3>3
  <2> QED
    BY <2>1, <2>2 DEF phase, TS!vars
<1> QED
  BY <1>2, <1>3 DEF Release

\* Behind the semaphore a call refreshes alone, and only a stale stock.
LEMMA StepsInsideRefine ==
  ASSUME TokenInv, NEW c \in Calls,
         Enter(c) \/ Check(c) \/ Fetch(c) \/ FetchFails(c) \/ Release(c) \/ ReleaseThrows(c)
  PROVE  [TS!Next]_TS!vars
<1> USE DEF Moves, Gets, Same
<1>1. CASE Enter(c)
  BY <1>1, NoPhase, Phases DEF Enter
<1>2. CASE Check(c) /\ IsValid
  <2>1. TS!Offer(c)
    BY <1>2, PhaseMoves, Phases DEF Check, IsValid, TS!Offer, TS!FreshStock
  <2> QED
    BY <2>1 DEF TS!Next
<1>3. CASE Check(c) /\ ~IsValid
  <2>1. \A d \in Calls : at[d] # "fetching"
    BY <1>3 DEF Check, TokenInv, LockHeldByOne
  <2>2. \A d \in Calls : phase[d] # "refreshing"
    BY <2>1 DEF phase, PhaseOf, TokenInv, TokenTypeOK, Places
  <2>3. TS!Refresh(c)
    BY <1>3, <2>2, PhaseMoves, KeptToken, Phases DEF Check, IsValid, TS!Refresh, TS!FreshStock
  <2> QED
    BY <2>3 DEF TS!Next
<1>4. CASE Fetch(c)
  <2>1. cached' \in Nat /\ cached' # NoToken /\ now < cached'
    BY <1>4, TokenCacheAssumption DEF Fetch, TokenInv, TokenTypeOK
  <2>2. /\ TS!Turns(c, PhaseOf("fetching", got[c]), PhaseOf("leaving", cached'))
        /\ TS!Hands(c, cached')
    BY <1>4, PhaseMoves DEF Fetch
  <2>3. TS!Restock(c)
    BY <1>4, <2>1, <2>2, Phases DEF Fetch, TS!Restock
  <2> QED
    BY <2>3 DEF TS!Next
<1>5. CASE FetchFails(c)
  <2>1. got[c] = NoToken
    BY <1>5 DEF FetchFails, TokenInv, GotWhenLeaving
  <2>2. got' = [got EXCEPT ![c] = NoToken]
    BY <1>5, KeptToken DEF FetchFails
  <2>3. TS!Turns(c, PhaseOf("fetching", got[c]), PhaseOf("leaving", NoToken))
    BY <1>5, <2>2, PhaseMoves DEF FetchFails
  <2>4. TS!FailRefresh(c)
    BY <1>5, <2>3, Phases DEF FetchFails, TS!FailRefresh
  <2> QED
    BY <2>4 DEF TS!Next
<1>6. CASE Release(c)
  BY <1>6, ReleaseRefines
<1>7. CASE ReleaseThrows(c) /\ got[c] = NoToken
  <2>1. UNCHANGED <<now, cached, got, cancelled, disposed>>
    BY <1>7 DEF ReleaseThrows, TokenInv, TokenTypeOK
  <2> QED
    BY <1>7, <2>1, NoPhase, Phases DEF ReleaseThrows
<1>8. CASE ReleaseThrows(c) /\ got[c] # NoToken
  <2>1. TS!Turns(c, PhaseOf("leaving", got[c]), PhaseOf("refused", NoToken)) /\ TS!Hands(c, NoToken)
    BY <1>8, PhaseMoves DEF ReleaseThrows
  <2>2. TS!Refuse(c)
    BY <1>8, <2>1, Phases DEF ReleaseThrows, TS!Refuse
  <2> QED
    BY <2>2 DEF TS!Next
<1> QED
  BY <1>1, <1>2, <1>3, <1>4, <1>5, <1>6, <1>7, <1>8

\* Every step of the provider is one that TokenService allows, or none.
LEMMA TokenNextRefines ==
  ASSUME TokenInv, [TokenNext]_provider
  PROVE  [TS!Next]_TS!vars
<1>1. CASE UNCHANGED provider
  BY <1>1 DEF provider, TS!vars, phase
<1>2. ASSUME NEW c \in Calls, Ask(c) \/ Proceed(c) \/ Take(c) \/ TakeRefusal(c)
      PROVE  [TS!Next]_TS!vars
  BY <1>2, StepsAsideRefine, StepsInsideRefine DEF Proceed
<1>3. ASSUME NEW c \in Calls, Cancel(c)
      PROVE  TS!Next
  BY <1>3 DEF Cancel, TS!Next, TS!Cancel, phase
<1>4. CASE Dispose
  BY <1>4 DEF Dispose, TS!Next, TS!Dispose, phase
<1>5. CASE Tick
  BY <1>5 DEF Tick, TS!Next, TS!Tick, phase
<1> QED
  BY <1>1, <1>2, <1>3, <1>4, <1>5 DEF TokenNext

----------------------------------------------------------------------------
(* The provider under the uploads.                                         *)

\* Whatever an upload does is to its provider one of the provider's steps.
LEMMA StepsOfProvider == [Next]_vars => [TokenNext]_provider
<1>1. UNCHANGED vars => UNCHANGED provider
  BY DEF vars
<1>2. ASSUME NEW c \in Calls, NEW how, NEW next,
             Ends(c, how) \/ NextCall(c, next) \/ AllKnown(c) \/ UNCHANGED provider
      PROVE  [TokenNext]_provider
  BY <1>2 DEF Ends, NextCall, AllKnown, TokenNext
<1>3. ASSUME NEW c \in Calls, PostAccepted(c) \/ PostKnown(c)
      PROVE  [TokenNext]_provider
  BY <1>2, <1>3 DEF PostAccepted, PostKnown, OnSuccess, ToNext
<1>4. ASSUME NEW c \in Calls, Start(c) \/ Upload(c)
      PROVE  [TokenNext]_provider
  <2>1. CASE Start(c) \/ Discovered(c) \/ Throws(c) \/ Verified(c)
    BY <1>2, <2>1 DEF Start, Discovered, Throws, Verified
  <2>2. CASE TokenRefused(c) \/ ToDiscover(c) \/ ToPost(c) \/ ToVerify(c)
    BY <2>2 DEF TokenRefused, ToDiscover, ToPost, ToVerify, TokenNext
  <2>3. CASE PostUnavailable(c) \/ Answer(c) \/ Unavailable(c)
    BY <1>2, <2>3 DEF PostUnavailable, Answer, Unavailable
  <2> QED
    BY <1>3, <1>4, <2>1, <2>2, <2>3 DEF Upload
<1>5. Provide => TokenNext
  BY DEF Provide, TokenNext
<1> QED
  BY <1>1, <1>4, <1>5 DEF Next

\* The invariant of the provider is one of the uploads.
LEMMA TokenInvariant == Spec => []TokenInv
<1>1. Init => TokenInv
  BY TokenInitInv DEF Init
<1>2. TokenInv /\ [Next]_vars => TokenInv'
  BY StepsOfProvider, TokenNextInv
<1> QED
  BY <1>1, <1>2, PTL DEF Spec

\* The semaphore of OAuth2TokenProvider.cs is held by one call at a time, and
\* by one that is to release it, however many wait.
THEOREM SemaphoreHeldByOne == Spec => []LockHeldByOne
<1>1. TokenInv => LockHeldByOne
  BY DEF TokenInv
<1> QED
  BY <1>1, TokenInvariant, PTL

\* The provider keeps the promises of TokenService: one refresh at a time and
\* only of a stale token, and a token for whoever is not refused for cause.
THEOREM RefinesTokenService == Spec => ImplementsTokenService
<1>1. Init => TS!Init
  BY DEF Init, TokenInit, TS!Init, phase, PhaseOf
<1>2. TokenInv /\ [Next]_vars => [TS!Next]_TS!vars
  BY StepsOfProvider, TokenNextRefines
<1> QED
  BY <1>1, <1>2, TokenInvariant, PTL DEF Spec, ImplementsTokenService, TS!Spec

----------------------------------------------------------------------------
(* The uploads.                                                            *)

Steps ==
    {"idle", "discovery", "discovering", "upload", "posting", "verification",
     "verifying", "done"}

TypeOK ==
    /\ vetted \subseteq Dars \X Sites
    /\ step \in [Calls -> Steps]
    /\ aims \in [Calls -> SUBSET Sites]
    /\ todo \in [Calls -> SUBSET Sites]
    /\ site \in [Calls -> Sites]
    /\ attempt \in [Calls -> Nat]
    /\ reply \in [Calls -> {"none", "accepted", "known", "unavailable"}]
    /\ anywhere \in [Calls -> BOOLEAN]
    /\ accepted \in [Calls -> SUBSET Sites]
    /\ outcome \in [Calls -> {"none", "uploaded", "known", "failed"}]

\* The targets an upload is through with have the package version, and one it
\* was accepted at is on record.
Consistent(c) ==
    /\ outcome[c] = "none" <=> step[c] # "done"
    /\ aims[c] = {} <=> step[c] \in {"idle", "discovery", "discovering", "done"}
    /\ todo[c] \subseteq aims[c]
    /\ \A s \in aims[c] : s \notin todo[c] => KnownOn(s)
    /\ step[c] = "posting" => site[c] \in todo[c]
    /\ reply[c] # "none" => step[c] \in {"posting", "verification", "verifying"}
    /\ reply[c] \in {"accepted", "known"} => KnownOn(site[c])
    /\ reply[c] = "accepted" => accepted[c] # {}
    /\ anywhere[c] = TRUE => accepted[c] # {}
    /\ step[c] \in {"verification", "verifying"} => \A s \in aims[c] : KnownOn(s)

UploadInv == TypeOK /\ \A c \in Calls : Consistent(c)

Mine(c) ==
    <<step[c], aims[c], todo[c], site[c], reply[c], anywhere[c], accepted[c], outcome[c]>>

\* What a step of an upload must show.
Keeps(c) ==
    /\ TypeOK' /\ Consistent(c)'
    /\ \A d \in Calls : d # c => Mine(d)' = Mine(d)
    /\ vetted \subseteq vetted'

\* A package is never unvetted, so the other uploads stay as they were.
LEMMA KeepsInv ==
  ASSUME UploadInv, NEW c \in Calls, Keeps(c)
  PROVE  UploadInv'
<1>1. \A s : KnownOn(s) => KnownOn(s)'
  BY DEF Keeps, KnownOn
<1>2. ASSUME NEW d \in Calls, d # c
      PROVE  Consistent(d)'
  BY <1>1, <1>2 DEF Keeps, Mine, UploadInv, Consistent
<1> QED
  BY <1>2 DEF Keeps, UploadInv

\* An upload that ends has nothing left to be wrong about.
LEMMA DoneKeeps ==
  ASSUME UploadInv, NEW c \in Calls, NEW how \in {"uploaded", "known", "failed"},
         Done(c, how), UNCHANGED vetted
  PROVE  Keeps(c)
<1> USE DEF Done, Set, UploadInv, TypeOK
<1>1. TypeOK'
  BY DEF Steps, Sites
<1>2. Consistent(c)'
  BY DEF Consistent
<1>3. \A d \in Calls : d # c => Mine(d)' = Mine(d)
  BY DEF Mine
<1> QED
  BY <1>1, <1>2, <1>3 DEF Keeps

\* A step that changes only where an upload is.
LEMMA StepKeeps ==
  ASSUME UploadInv, NEW c \in Calls, NEW next \in Steps,
         step' = Set(step, c, next),
         UNCHANGED <<vetted, progress, reply, accepted, outcome>>,
         \/ step[c] \in {"idle", "discovery"} /\ next \in {"discovery", "discovering"}
         \/ step[c] = "verification" /\ next = "verifying"
         \/ /\ step[c] = "posting" /\ next = "verification"
            /\ reply[c] \in {"accepted", "known"} /\ todo[c] = {site[c]}
  PROVE  Keeps(c)
<1> USE DEF Set, progress, UploadInv, TypeOK
<1>1. TypeOK'
  OBVIOUS
<1>2. Consistent(c)'
  BY DEF Consistent, KnownOn
<1>3. \A d \in Calls : d # c => Mine(d)' = Mine(d)
  BY DEF Mine
<1> QED
  BY <1>1, <1>2, <1>3 DEF Keeps

\* The next target is asked for once this one has the package version.
LEMMA NextKeeps ==
  ASSUME UploadInv, NEW c \in Calls, NEW uploaded \in BOOLEAN,
         step[c] = "posting", reply[c] \in {"accepted", "known"},
         uploaded = TRUE => accepted[c] # {},
         todo[c] # {site[c]}, ToNext(c, uploaded), UNCHANGED vetted
  PROVE  Keeps(c)
<1> USE DEF ToNext, NextCall, Set, UploadInv, TypeOK
<1>1. TypeOK'
  BY DEF Steps, Sites
<1>2. Consistent(c)'
  <2>1. /\ step'[c] = "upload" /\ reply'[c] = "none" /\ anywhere'[c] = uploaded
        /\ todo'[c] = todo[c] \ {site[c]} /\ UNCHANGED <<aims, accepted, outcome, vetted>>
    OBVIOUS
  <2>2. KnownOn(site[c])
    BY DEF Consistent
  <2> QED
    BY <2>1, <2>2 DEF Consistent, KnownOn
<1>3. \A d \in Calls : d # c => Mine(d)' = Mine(d)
  BY DEF Mine
<1> QED
  BY <1>1, <1>2, <1>3 DEF Keeps

\* What an upload does on an answer that is no failure.
LEMMA SuccessKeeps ==
  ASSUME UploadInv, NEW c \in Calls, NEW uploaded \in BOOLEAN,
         step[c] = "posting", reply[c] \in {"accepted", "known"},
         uploaded = TRUE => accepted[c] # {},
         OnSuccess(c, uploaded), UNCHANGED vetted
  PROVE  Keeps(c)
<1>1. CASE todo[c] # {site[c]}
  BY <1>1, NextKeeps DEF OnSuccess
<1>2. CASE todo[c] = {site[c]} /\ uploaded = TRUE
  BY <1>2, DoneKeeps DEF OnSuccess, Ends
<1>3. CASE todo[c] = {site[c]} /\ uploaded = FALSE /\ c \in Expects
  <2>1. /\ step' = Set(step, c, "verification")
        /\ UNCHANGED <<vetted, progress, reply, accepted, outcome>>
    BY <1>3 DEF OnSuccess, AllKnown, NextCall
  <2> QED
    BY <1>3, <2>1, StepKeeps DEF Steps
<1>4. CASE todo[c] = {site[c]} /\ uploaded = FALSE /\ c \notin Expects
  BY <1>4, DoneKeeps DEF OnSuccess, AllKnown, Ends
<1> QED
  BY <1>1, <1>2, <1>3, <1>4

\* An accepted upload is on record; so is an earlier one.
LEMMA PostedKeeps ==
  ASSUME UploadInv, NEW c \in Calls, PostAccepted(c) \/ PostKnown(c)
  PROVE  Keeps(c)
<1>1. CASE PostAccepted(c)
  BY <1>1, SuccessKeeps DEF PostAccepted, Posts, UploadInv, Consistent
<1>2. CASE PostKnown(c)
  <2>1. anywhere[c] \in BOOLEAN /\ (anywhere[c] = TRUE => accepted[c] # {})
    BY DEF UploadInv, TypeOK, Consistent
  <2> QED
    BY <1>2, <2>1, SuccessKeeps DEF PostKnown, Posts
<1> QED
  BY <1>1, <1>2

\* The targets are those of one moment, and none has been come to the end of.
LEMMA DiscoveredKeeps ==
  ASSUME UploadInv, NEW c \in Calls, Discovered(c)
  PROVE  Keeps(c)
<1> USE DEF Discovered, NextCall, Set, UploadInv, TypeOK
<1>1. PICK targets \in SUBSET Sites :
        /\ targets # {}
        /\ aims' = [aims EXCEPT ![c] = targets] /\ todo' = [todo EXCEPT ![c] = targets]
  BY DEF Sites
<1>2. TypeOK'
  BY <1>1 DEF Steps
<1>3. Consistent(c)'
  BY <1>1 DEF Consistent
<1>4. \A d \in Calls : d # c => Mine(d)' = Mine(d)
  BY <1>1 DEF Mine
<1> QED
  BY <1>2, <1>3, <1>4 DEF Keeps

\* The POST that is sent is for a target of the upload.
LEMMA ToPostKeeps ==
  ASSUME UploadInv, NEW c \in Calls, ToPost(c)
  PROVE  Keeps(c)
<1> USE DEF ToPost, Set, UploadInv, TypeOK
<1>1. PICK target \in todo[c] : site' = [site EXCEPT ![c] = target]
  OBVIOUS
<1>2. TypeOK'
  BY <1>1 DEF Steps
<1>3. Consistent(c)'
  BY <1>1 DEF Consistent, KnownOn
<1>4. \A d \in Calls : d # c => Mine(d)' = Mine(d)
  BY <1>1 DEF Mine
<1> QED
  BY <1>2, <1>3, <1>4 DEF Keeps

\* What the participant answers is what it did.
LEMMA AnswerKeeps ==
  ASSUME UploadInv, NEW c \in Calls, Answer(c) \/ Unavailable(c)
  PROVE  Keeps(c)
<1> USE DEF Set, progress, UploadInv, TypeOK, Awaited
<1>1. CASE Answer(c) /\ KnownOn(site[c])
  <2>1. TypeOK' /\ Consistent(c)'
    BY <1>1 DEF Answer, Consistent, KnownOn
  <2>2. \A d \in Calls : d # c => Mine(d)' = Mine(d)
    BY <1>1 DEF Answer, Mine
  <2> QED
    BY <1>1, <2>1, <2>2 DEF Answer, Keeps
<1>2. CASE Answer(c) /\ ~KnownOn(site[c])
  <2>1. PICK how \in {"accepted", "unavailable"} : reply' = [reply EXCEPT ![c] = how]
    BY <1>2 DEF Answer
  <2>2. /\ vetted' = vetted \cup {<<Dar[c], site[c]>>}
        /\ accepted' = [accepted EXCEPT ![c] = accepted[c] \cup {site[c]}]
        /\ UNCHANGED <<step, aims, todo, site, attempt, anywhere, outcome>>
    BY <1>2 DEF Answer
  <2>3. TypeOK'
    <3>1. <<Dar[c], site[c]>> \in Dars \X Sites
      BY DarUploadAssumption
    <3>2. vetted' \subseteq Dars \X Sites
      BY <2>2, <3>1
    <3> QED
      BY <2>1, <2>2, <3>2
  <2>4. (\A s : KnownOn(s) => KnownOn(s)') /\ KnownOn(site[c])'
    <3>1. <<Dar[c], site[c]>> \in vetted' /\ <<Dar[c], site[c]>>[2] = site'[c]
      BY <2>2
    <3>2. KnownOn(site[c])'
      BY <3>1 DEF KnownOn
    <3>3. \A s : KnownOn(s) => KnownOn(s)'
      BY <2>2 DEF KnownOn
    <3> QED
      BY <3>2, <3>3
  <2>5. Consistent(c)'
    BY <1>2, <2>1, <2>2, <2>4 DEF Answer, Consistent
  <2>6. \A d \in Calls : d # c => Mine(d)' = Mine(d)
    BY <2>1, <2>2 DEF Mine
  <2> QED
    BY <2>2, <2>3, <2>5, <2>6 DEF Keeps
<1>3. CASE Unavailable(c)
  <2>1. TypeOK' /\ Consistent(c)'
    BY <1>3 DEF Unavailable, Consistent, KnownOn
  <2>2. \A d \in Calls : d # c => Mine(d)' = Mine(d)
    BY <1>3 DEF Unavailable, Mine
  <2> QED
    BY <1>3, <2>1, <2>2 DEF Unavailable, Keeps
<1> QED
  BY <1>1, <1>2, <1>3

\* A 503 changes nothing but the attempt, and may be the last.
LEMMA UnavailableKeeps ==
  ASSUME UploadInv, NEW c \in Calls, PostUnavailable(c)
  PROVE  Keeps(c)
<1> USE DEF PostUnavailable, Posts, Set, UploadInv, TypeOK
<1>1. CASE attempt[c] < MaxAttempts
  <2>1. TypeOK' /\ Consistent(c)'
    BY <1>1 DEF Consistent, KnownOn
  <2>2. \A d \in Calls : d # c => Mine(d)' = Mine(d)
    BY <1>1 DEF Mine
  <2> QED
    BY <1>1, <2>1, <2>2 DEF Keeps
<1>2. CASE ~(attempt[c] < MaxAttempts)
  BY <1>2, DoneKeeps DEF Ends
<1> QED
  BY <1>1, <1>2

\* Every step of an upload shows it.
LEMMA UploadKeeps ==
  ASSUME UploadInv, NEW c \in Calls, Start(c) \/ Upload(c)
  PROVE  Keeps(c)
<1>1. CASE Start(c)
  BY <1>1, StepKeeps DEF Start, NextCall, Steps
<1>2. CASE ToDiscover(c)
  BY <1>2, StepKeeps DEF ToDiscover, Steps
<1>3. CASE ToVerify(c)
  BY <1>3, StepKeeps DEF ToVerify, Steps
<1>4. CASE TokenRefused(c)
  BY <1>4, DoneKeeps DEF TokenRefused
<1>5. CASE Throws(c)
  BY <1>5, DoneKeeps DEF Throws, Ends
<1>6. CASE Verified(c)
  BY <1>6, DoneKeeps DEF Verified, Ends
<1> QED
  BY <1>1, <1>2, <1>3, <1>4, <1>5, <1>6, PostedKeeps, DiscoveredKeeps, ToPostKeeps,
     AnswerKeeps, UnavailableKeeps DEF Upload

\* No upload has begun at first, and none is wrong later.
LEMMA UploadInvariant == Spec => []UploadInv
<1>1. Init => UploadInv
  BY DEF Init, UploadInv, TypeOK, Consistent, Steps, Sites
<1>2. UploadInv /\ [Next]_vars => UploadInv'
  <2> SUFFICES ASSUME UploadInv, [Next]_vars PROVE UploadInv'
    OBVIOUS
  <2>1. CASE UNCHANGED <<vetted, uploads>>
    BY <2>1 DEF uploads, progress, UploadInv, TypeOK, Consistent, KnownOn
  <2>2. ASSUME NEW c \in Calls, Start(c) \/ Upload(c)
        PROVE  UploadInv'
    BY <2>2, UploadKeeps, KeepsInv
  <2> QED
    BY <2>1, <2>2 DEF Next, Provide, vars
<1> QED
  BY <1>1, <1>2, PTL DEF Spec

----------------------------------------------------------------------------
(* The refinement of PackageVetting.                                       *)

\* To PackageVetting, an upload that ends has succeeded for good reason, or
\* has failed.
LEMMA DoneRefines ==
  ASSUME UploadInv, NEW c \in Calls, NEW how \in {"uploaded", "known", "failed"},
         Done(c, how), UNCHANGED vetted, step[c] # "done",
         how # "failed" => aims[c] # {} /\ \A s \in aims[c] : KnownOn(s),
         how = "uploaded" => accepted[c] # {},
         how = "known" => (c \in Expects => PV!Present(Dar[c]))
  PROVE  PV!Next
<1>1. PV!Reports(c, how)
  BY DEF Done, Set, UploadInv, Consistent, PV!Reports, PV!Open
<1>2. CASE how = "failed"
  BY <1>1, <1>2 DEF PV!Fail, PV!Next
<1>3. CASE how # "failed"
  BY <1>1, <1>3 DEF PV!Succeed, PV!Next, PV!KnownOn, KnownOn
<1> QED
  BY <1>2, <1>3

\* What follows an answer that is no failure is a success, or no step.
LEMMA SuccessRefines ==
  ASSUME UploadInv, NEW c \in Calls, NEW uploaded \in BOOLEAN,
         step[c] = "posting", reply[c] \in {"accepted", "known"},
         uploaded = TRUE => accepted[c] # {},
         OnSuccess(c, uploaded), UNCHANGED vetted
  PROVE  [PV!Next]_PV!vars
<1>1. CASE todo[c] # {site[c]}
  BY <1>1 DEF OnSuccess, ToNext, NextCall, PV!vars
<1>2. CASE todo[c] = {site[c]} /\ ~(uploaded = TRUE) /\ c \in Expects
  BY <1>2 DEF OnSuccess, AllKnown, NextCall, progress, PV!vars
<1>3. CASE todo[c] = {site[c]} /\ (uploaded = TRUE \/ c \notin Expects)
  <2>1. aims[c] # {} /\ \A s \in aims[c] : KnownOn(s)
    BY <1>3 DEF UploadInv, Consistent
  <2>2. \/ uploaded = TRUE /\ Done(c, "uploaded")
        \/ c \notin Expects /\ Done(c, "known")
    BY <1>3 DEF OnSuccess, AllKnown, Ends
  <2> QED
    BY <2>1, <2>2, DoneRefines
<1> QED
  BY <1>1, <1>2, <1>3

\* An answer the participant gives is a step of PackageVetting when it vets.
LEMMA AnswerRefines ==
  ASSUME UploadInv, NEW c \in Calls, Answer(c)
  PROVE  [PV!Next]_PV!vars
<1>1. CASE KnownOn(site[c])
  BY <1>1 DEF Answer, progress, PV!vars
<1>2. CASE ~KnownOn(site[c])
  <2>1. site[c] \in aims[c] /\ PV!Open(c) /\ ~PV!KnownOn(site[c])
    BY <1>2 DEF Answer, Awaited, UploadInv, Consistent, PV!Open, PV!KnownOn, KnownOn
  <2>2. /\ vetted' = vetted \cup {<<Dar[c], site[c]>>}
        /\ accepted' = [accepted EXCEPT ![c] = accepted[c] \cup {site[c]}]
        /\ UNCHANGED <<aims, outcome>>
    BY <1>2 DEF Answer, Set, progress
  <2>3. PV!Accept(c)
    BY <2>1, <2>2 DEF PV!Accept
  <2> QED
    BY <2>3 DEF PV!Next
<1> QED
  BY <1>1, <1>2

\* Every step of an upload is one that PackageVetting allows, or none.
LEMMA UploadRefines ==
  ASSUME UploadInv, NEW c \in Calls, Start(c) \/ Upload(c)
  PROVE  [PV!Next]_PV!vars
<1>1. CASE Start(c)
  BY <1>1 DEF Start, NextCall, progress, PV!vars
<1>2. CASE ToDiscover(c) \/ ToPost(c) \/ ToVerify(c) \/ Unavailable(c)
  BY <1>2 DEF ToDiscover, ToPost, ToVerify, Unavailable, progress, PV!vars
<1>3. CASE TokenRefused(c)
  <2>1. step[c] # "done"
    BY <1>3 DEF TokenRefused
  <2> QED
    BY <1>3, <2>1, DoneRefines DEF TokenRefused
<1>4. CASE Throws(c)
  BY <1>4, DoneRefines DEF Throws, Ends
<1>5. CASE Discovered(c)
  <2>1. PICK targets \in SUBSET Sites :
          targets # {} /\ aims' = [aims EXCEPT ![c] = targets]
    BY <1>5 DEF Discovered, Set, Sites
  <2>2. PV!Open(c) /\ aims[c] = {} /\ UNCHANGED <<vetted, accepted, outcome>>
    BY <1>5 DEF Discovered, NextCall, UploadInv, Consistent, PV!Open
  <2>3. PV!Aim(c)
    BY <2>1, <2>2 DEF PV!Aim
  <2> QED
    BY <2>3 DEF PV!Next
<1>6. CASE PostAccepted(c)
  BY <1>6, SuccessRefines DEF PostAccepted, Posts, UploadInv, Consistent
<1>7. CASE PostKnown(c)
  <2>1. anywhere[c] \in BOOLEAN /\ (anywhere[c] = TRUE => accepted[c] # {})
    BY DEF UploadInv, TypeOK, Consistent
  <2> QED
    BY <1>7, <2>1, SuccessRefines DEF PostKnown, Posts
<1>8. CASE PostUnavailable(c)
  <2>1. CASE attempt[c] < MaxAttempts
    BY <1>8, <2>1 DEF PostUnavailable, Posts, PV!vars
  <2>2. CASE ~(attempt[c] < MaxAttempts)
    BY <1>8, <2>2, DoneRefines DEF PostUnavailable, Posts, Ends
  <2> QED
    BY <2>1, <2>2
<1>9. CASE Verified(c)
  <2>1. aims[c] # {} /\ \A s \in aims[c] : KnownOn(s)
    BY <1>9 DEF Verified, UploadInv, Consistent
  <2>2. CASE PV!Present(Dar[c])
    BY <1>9, <2>1, <2>2, DoneRefines DEF Verified, Ends, PV!Present
  <2>3. CASE ~PV!Present(Dar[c])
    BY <1>9, <2>3, DoneRefines DEF Verified, Ends, PV!Present
  <2> QED
    BY <2>2, <2>3
<1> QED
  BY <1>1, <1>2, <1>3, <1>4, <1>5, <1>6, <1>7, <1>8, <1>9, AnswerRefines DEF Upload

\* DarUploader keeps the promises of PackageVetting: it says Uploaded only
\* when the package version is vetted on every synchronizer it aimed at, its
\* own DAR on one of them, and AlreadyKnown only when it is vetted on all, and
\* an expected package is there.
THEOREM RefinesPackageVetting == Spec => ImplementsPackageVetting
<1>1. Init => PV!Init
  BY DEF Init, PV!Init
<1>2. UploadInv /\ [Next]_vars => [PV!Next]_PV!vars
  <2> SUFFICES ASSUME UploadInv, [Next]_vars PROVE [PV!Next]_PV!vars
    OBVIOUS
  <2>1. CASE UNCHANGED <<vetted, uploads>>
    BY <2>1 DEF uploads, progress, PV!vars
  <2> QED
    BY <2>1, UploadRefines DEF Next, Provide, vars
<1> QED
  BY <1>1, <1>2, UploadInvariant, PTL DEF Spec, ImplementsPackageVetting, PV!Spec

=============================================================================
