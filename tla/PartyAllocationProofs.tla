------------------------ MODULE PartyAllocationProofs ------------------------
(***************************************************************************)
(* What PartyAllocator.cs promises, for any number of calls, hints and     *)
(* attempts, and whatever the participant answers, delays or drops.        *)
(***************************************************************************)
EXTENDS PartyAllocation, TLAPS

AtParticipant == inbox \cup executing

\* A call has its hint from the start, and posts only once it has a token.
Progress(c) ==
    /\ pc[c] # "idle" => hint[c] \in Hints
    /\ pc[c] \in {"idle", "discover", "token"} => attempt[c] = 0 /\ ~inconclusive[c]
    /\ pc[c] \in {"post", "backoff"} => attempt[c] > 0
    /\ pc[c] = "backoff" => attempt[c] < MaxAttempts
    /\ pc[c] = "lookup" => inconclusive[c]
    /\ ~inconclusive[c] => attempt[c] <= 1
    /\ answer[c] # None => pc[c] = "post"
    /\ why[c] # None => pc[c] = "failed"
    /\ why[c] = "exists" => ~inconclusive[c]

\* POSTs at the participant are ones a call has sent, in one place each, and
\* no two of those being executed are for one hint.
PostsSent ==
    /\ \A r \in AtParticipant : r[2] <= attempt[r[1]]
    /\ inbox \cap executing = {}
    /\ \A r \in executing : creator[hint[r[1]]] = None
    /\ \A q, r \in executing : hint[q[1]] = hint[r[1]] => q = r

\* A party was made by a POST of the call it is put down to. While the call
\* is in no doubt that POST was its only one.
PartiesMade ==
    /\ \A h \in Hints : \A c \in Calls :
          creator[h] = c =>
            /\ hint[c] = h /\ attempt[c] > 0
            /\ ~inconclusive[c] => \A r \in AtParticipant : r[1] # c
    /\ \A h \in listed : creator[h] # None

\* Nothing of the call is at the participant, and it made no party.
LeftNothing(c) ==
    /\ \A h \in Hints : creator[h] # c
    /\ \A r \in AtParticipant : r[1] # c

\* What an answer on its way, and an outcome, say of the participant.
AnswersTrue(c) ==
    /\ answer[c] = "ok" => creator[hint[c]] = c
    /\ ~inconclusive[c] /\ {answer[c], why[c]} \cap {"exists", "refused"} # {} => LeftNothing(c)
    /\ pc[c] = "done" =>
         /\ party[c] = hint[c] /\ creator[hint[c]] # None
         /\ ~inconclusive[c] => creator[hint[c]] = c

Inv ==
    /\ TypeOK
    /\ PostsSent
    /\ PartiesMade
    /\ \A c \in Calls : Progress(c) /\ AnswersTrue(c)

----------------------------------------------------------------------------
\* The invariant holds before any call is made.
LEMMA InitInv == Init => Inv
<1> SUFFICES ASSUME Init PROVE Inv
  OBVIOUS
<1> USE AllocationAssumption DEF Init
<1>1. TypeOK
  BY DEF TypeOK, States
<1>2. PostsSent /\ PartiesMade
  BY DEF PostsSent, PartiesMade, AtParticipant
<1>3. ASSUME NEW c \in Calls PROVE Progress(c) /\ AnswersTrue(c)
  BY DEF Progress, AnswersTrue, LeftNothing, AtParticipant, Answers, Reasons
<1>4. QED
  BY <1>1, <1>2, <1>3 DEF Inv

\* A call is made: it gets its hint, and has nothing at the participant.
LEMMA StartInv ==
  ASSUME Inv, NEW c \in Calls, Start(c)
  PROVE  Inv'
<1> USE AllocationAssumption
<1>1. TypeOK'
  BY DEF Inv, TypeOK, Start, GoTo, outcome, participant, States
<1>2. \A r \in AtParticipant : r[1] # c
  BY DEF Inv, TypeOK, Start, Progress, PostsSent, AtParticipant, Posts
<1>3. \A h \in Hints : creator[h] # c
  BY DEF Inv, TypeOK, Start, Progress, PartiesMade
<1>4. PostsSent'
  BY <1>2 DEF Inv, TypeOK, Start, GoTo, outcome, participant, PostsSent, AtParticipant, Posts
<1>5. PartiesMade'
  BY <1>3 DEF Inv, TypeOK, Start, GoTo, outcome, participant, PartiesMade, AtParticipant
<1>6. ASSUME NEW d \in Calls PROVE (Progress(d) /\ AnswersTrue(d))'
  <2>1. CASE d = c
    <3>1. hint'[c] \in Hints /\ pc'[c] \in {"discover", "token"}
      BY DEF Inv, TypeOK, Start, GoTo
    <3>2. UNCHANGED <<attempt, inconclusive, answer, outcome, participant>>
      BY DEF Start, GoTo
    <3>3. attempt[c] = 0 /\ ~inconclusive[c] /\ answer[c] = None /\ why[c] = None
      BY DEF Inv, TypeOK, Start, Progress
    <3>4. QED
      BY <2>1, <3>1, <3>2, <3>3
         DEF outcome, Progress, AnswersTrue, Answers, Reasons
  <2>2. CASE d # c
    BY <2>2
       DEF Inv, TypeOK, Start, GoTo, outcome, participant, Progress, AnswersTrue,
           LeftNothing, AtParticipant
  <2>3. QED
    BY <2>1, <2>2
<1>7. QED
  BY <1>1, <1>4, <1>5, <1>6 DEF Inv

\* A step of one call that sends nothing and leaves the participant alone.
Moves(c) ==
    /\ pc[c] \notin {"idle"} \cup Ended
    /\ answer' = [answer EXCEPT ![c] = None]
    /\ UNCHANGED <<locals, participant>>

\* Such a step disturbs only what is said of that call.
LEMMA MovesInv ==
  ASSUME Inv, TypeOK', NEW c \in Calls, Moves(c),
         pc' = [pc EXCEPT ![c] = pc'[c]],
         why' = [why EXCEPT ![c] = why'[c]],
         party' = [party EXCEPT ![c] = party'[c]],
         (Progress(c) /\ AnswersTrue(c))'
  PROVE  Inv'
<1>1. PostsSent' /\ PartiesMade'
  BY DEF Inv, Moves, locals, participant, PostsSent, PartiesMade, AtParticipant
<1>2. ASSUME NEW d \in Calls PROVE (Progress(d) /\ AnswersTrue(d))'
  <2>1. CASE d # c
    BY <2>1 DEF Inv, TypeOK, Moves, locals, participant, Progress, AnswersTrue,
                LeftNothing, AtParticipant
  <2>2. QED
    BY <2>1
<1>3. QED
  BY <1>1, <1>2 DEF Inv

\* A call throws: the participant's word that the party exists, and a refusal
\* that meets a call in no doubt, leave nothing of the call behind.
LEMMA ThrowInv ==
  ASSUME Inv, NEW c \in Calls, Moves(c), NEW reason \in Reasons, Throw(c, reason),
         reason = "exists" => ~inconclusive[c],
         reason # "error" /\ ~inconclusive[c] => LeftNothing(c)
  PROVE  Inv'
<1> USE AllocationAssumption
<1>1. TypeOK'
  BY DEF Inv, TypeOK, Moves, locals, participant, Throw, States, Ended
<1>2. pc'[c] = "failed" /\ why'[c] = reason /\ answer'[c] = None
  BY DEF Inv, TypeOK, Moves, Throw
<1>3. Progress(c)'
  BY <1>2 DEF Inv, TypeOK, Moves, Ended, locals, Progress
<1>4. AnswersTrue(c)'
  BY <1>2 DEF Moves, locals, participant, AnswersTrue, LeftNothing, AtParticipant, Answers, Reasons
<1>5. /\ pc' = [pc EXCEPT ![c] = pc'[c]]
      /\ why' = [why EXCEPT ![c] = why'[c]]
      /\ party' = [party EXCEPT ![c] = party'[c]]
  BY DEF Inv, TypeOK, Throw
<1>6. QED
  BY <1>1, <1>3, <1>4, <1>5, MovesInv

\* A call returns a party that exists, its own if the call is in no doubt.
LEMMA ReturnInv ==
  ASSUME Inv, NEW c \in Calls, Moves(c), Return(c, hint[c]),
         creator[hint[c]] # None,
         ~inconclusive[c] => creator[hint[c]] = c
  PROVE  Inv'
<1> USE AllocationAssumption
<1>1. TypeOK'
  BY DEF Inv, TypeOK, Moves, locals, participant, Return, States, Ended
<1>2. pc'[c] = "done" /\ party'[c] = hint[c] /\ why'[c] = None /\ answer'[c] = None
  BY DEF Inv, TypeOK, Moves, Ended, Return, Progress
<1>3. Progress(c)'
  BY <1>2 DEF Inv, TypeOK, Moves, Ended, locals, Progress
<1>4. AnswersTrue(c)'
  BY <1>2 DEF Moves, locals, participant, AnswersTrue, Answers, Reasons
<1>5. QED
  BY <1>1, <1>2, <1>3, <1>4, MovesInv DEF Inv, TypeOK, Return

\* A call goes on to its token, a delay or the lookup.
LEMMA GoToInv ==
  ASSUME Inv, NEW c \in Calls, Moves(c),
         NEW state \in {"token", "backoff", "lookup"}, GoTo(c, state),
         state = "token" => pc[c] = "discover",
         state = "backoff" => attempt[c] \in 1 .. MaxAttempts - 1,
         state = "lookup" => inconclusive[c]
  PROVE  Inv'
<1> USE AllocationAssumption
<1>1. TypeOK'
  BY DEF Inv, TypeOK, Moves, locals, outcome, participant, GoTo, States
<1>2. /\ pc'[c] = state /\ why'[c] = None /\ answer'[c] = None
      /\ UNCHANGED outcome
  BY DEF Inv, TypeOK, Moves, Ended, GoTo, outcome, Progress
<1>3. Progress(c)'
  BY <1>2 DEF Inv, TypeOK, Moves, Ended, locals, Progress, Reasons
<1>4. AnswersTrue(c)'
  BY <1>2 DEF Moves, locals, AnswersTrue, Answers, Reasons
<1>5. QED
  BY <1>1, <1>2, <1>3, <1>4, MovesInv DEF Inv, TypeOK, GoTo, outcome

\* An answer, a timeout, the end of the lookup or of the preparations, and a
\* cancellation: the steps of a call that send nothing.
LEMMA WaitingInv ==
  ASSUME Inv, NEW c \in Calls,
         \/ Discover(c) \/ TokenRefused(c) \/ TimedOut(c) \/ ConnectionLost(c)
         \/ ReceiveParty(c) \/ ReceiveTransient(c) \/ ReceiveExists(c)
         \/ ReceiveRefused(c) \/ LookupAnswered(c) \/ LookupFailed(c) \/ Cancel(c)
  PROVE  Inv'
<1> USE AllocationAssumption
<1>1. pc[c] # "post" => answer = [answer EXCEPT ![c] = None]
  BY DEF Inv, TypeOK, Progress
<1>2. ASSUME RetryOrThrow(c), Moves(c), pc[c] = "post" PROVE Inv'
  <2>1. attempt[c] \in 1 .. MaxAttempts
    BY <1>2 DEF Inv, TypeOK, Progress
  <2>2. CASE attempt[c] >= MaxAttempts
    BY <1>2, <2>2, ThrowInv DEF RetryOrThrow, Reasons
  <2>3. CASE ~(attempt[c] >= MaxAttempts)
    BY <1>2, <2>1, <2>3, GoToInv DEF RetryOrThrow
  <2>4. QED
    BY <2>2, <2>3
<1>3. CASE Discover(c)
  BY <1>1, <1>3, GoToInv, ThrowInv DEF Discover, Moves, Ended, Reasons
<1>4. CASE TokenRefused(c)
  BY <1>1, <1>4, ThrowInv DEF TokenRefused, Moves, Ended, Reasons
<1>5. CASE TimedOut(c)
  BY <1>2, <1>5 DEF TimedOut, Moves, Ended
<1>6. CASE ConnectionLost(c)
  BY <1>6, ThrowInv DEF ConnectionLost, Moves, Ended, Reasons
<1>7. CASE ReceiveParty(c)
  <2>1. Moves(c) /\ creator[hint[c]] = c
    BY <1>7 DEF ReceiveParty, Receive, Moves, Ended, Inv, AnswersTrue
  <2>2. QED
    BY <1>7, <2>1, ReturnInv, ThrowInv DEF ReceiveParty, Reasons
<1>8. CASE ReceiveTransient(c)
  BY <1>2, <1>8 DEF ReceiveTransient, Receive, Moves, Ended
<1>9. CASE ReceiveExists(c)
  <2>1. Moves(c) /\ answer[c] = "exists"
    BY <1>9 DEF ReceiveExists, Receive, Moves, Ended
  <2>2. ~inconclusive[c] => LeftNothing(c)
    BY <2>1 DEF Inv, AnswersTrue
  <2>3. QED
    BY <1>9, <2>1, <2>2, GoToInv, ThrowInv DEF ReceiveExists, Adopts, Reasons
<1>10. CASE ReceiveRefused(c)
  <2>1. Moves(c) /\ answer[c] = "refused"
    BY <1>10 DEF ReceiveRefused, Receive, Moves, Ended
  <2>2. ~inconclusive[c] => LeftNothing(c)
    BY <2>1 DEF Inv, AnswersTrue
  <2>3. QED
    BY <1>10, <2>1, <2>2, ThrowInv DEF ReceiveRefused, Reasons
<1>11. CASE LookupAnswered(c)
  <2>1. Moves(c) /\ inconclusive[c]
    BY <1>1, <1>11 DEF LookupAnswered, Moves, Ended, Inv, Progress
  <2>2. CASE WithPrefix(hint[c]) = {}
    BY <1>11, <2>1, <2>2, ThrowInv DEF LookupAnswered, Reasons
  <2>3. CASE WithPrefix(hint[c]) # {}
    <3>1. Return(c, hint[c]) /\ hint[c] \in listed
      BY <1>11, <2>3 DEF LookupAnswered, WithPrefix
    <3>2. creator[hint[c]] # None
      BY <3>1 DEF Inv, PartiesMade
    <3>3. QED
      BY <2>1, <3>1, <3>2, ReturnInv
  <2>4. QED
    BY <2>2, <2>3
<1>12. CASE LookupFailed(c)
  BY <1>1, <1>12, ThrowInv DEF LookupFailed, Moves, Ended, Reasons
<1>13. CASE Cancel(c)
  BY <1>13, ThrowInv DEF Cancel, Moves, Reasons
<1>14. QED
  BY <1>3, <1>4, <1>5, <1>6, <1>7, <1>8, <1>9, <1>10, <1>11, <1>12, <1>13

\* A call posts: the first time with nothing at the participant, and again
\* only with its doubt recorded.
LEMMA PostInv ==
  ASSUME Inv, NEW c \in Calls, TokenObtained(c) \/ BackedOff(c)
  PROVE  Inv'
<1> USE AllocationAssumption
<1> DEFINE r == <<c, attempt[c] + 1>>
<1>1. /\ pc[c] \in {"token", "backoff"}
      /\ PostNext(c)
      /\ inconclusive' = [inconclusive EXCEPT ![c] = (pc[c] = "backoff")]
  BY DEF TokenObtained, BackedOff, Inv, TypeOK, Progress
<1>2. /\ attempt[c] \in 0 .. MaxAttempts - 1
      /\ answer[c] = None /\ why[c] = None
      /\ pc[c] = "token" => attempt[c] = 0
      /\ hint[c] \in Hints
  BY <1>1 DEF Inv, TypeOK, Progress
<1>3. inconclusive'[c] \/ attempt[c] = 0
  <2>1. CASE TokenObtained(c)
    BY <1>2, <2>1 DEF TokenObtained
  <2>2. CASE BackedOff(c)
    BY <2>2 DEF BackedOff, Inv, TypeOK
  <2>3. QED
    BY <2>1, <2>2
<1>4. TypeOK'
  BY <1>1, <1>2 DEF Inv, TypeOK, PostNext, GoTo, outcome, States, Posts
<1>5. \A q \in AtParticipant : q # r
  BY <1>2 DEF Inv, TypeOK, PostsSent, AtParticipant, Posts
<1>6. AtParticipant' = AtParticipant \cup {r} /\ executing' = executing
  BY <1>1 DEF PostNext, AtParticipant
<1>7. PostsSent'
  <2>1. \A q \in AtParticipant' : q[2] <= attempt'[q[1]]
    <3>1. \A d \in Calls : attempt[d] <= attempt'[d]
      BY <1>1, <1>2 DEF Inv, TypeOK, PostNext
    <3>2. r[2] <= attempt'[r[1]]
      BY <1>1, <1>2 DEF Inv, TypeOK, PostNext
    <3>3. \A q \in AtParticipant : q[2] <= attempt'[q[1]]
      BY <1>4, <3>1 DEF Inv, TypeOK, PostsSent, AtParticipant, Posts
    <3>4. QED
      BY <1>6, <3>2, <3>3
  <2>2. QED
    BY <1>1, <1>5, <2>1 DEF Inv, PostNext, PostsSent, AtParticipant
<1>8. PartiesMade'
  <2>1. UNCHANGED <<hint, creator, listed>>
    BY <1>1 DEF PostNext
  <2>2. ASSUME NEW h \in Hints, NEW d \in Calls, creator[h] = d
        PROVE  /\ hint[d] = h /\ attempt'[d] > 0
               /\ ~inconclusive'[d] => \A q \in AtParticipant' : q[1] # d
    <3>1. hint[d] = h /\ attempt[d] > 0
      BY <2>2 DEF Inv, PartiesMade
    <3>2. CASE d = c
      BY <1>1, <1>2, <1>3, <3>1, <3>2 DEF Inv, TypeOK, PostNext
    <3>3. CASE d # c
      <4>1. attempt'[d] = attempt[d] /\ inconclusive'[d] = inconclusive[d]
        BY <1>1, <3>3 DEF Inv, TypeOK, PostNext
      <4>2. QED
        BY <1>6, <2>2, <3>1, <3>3, <4>1 DEF Inv, PartiesMade
    <3>4. QED
      BY <3>2, <3>3
  <2>3. QED
    BY <2>1, <2>2 DEF Inv, PartiesMade
<1>9. ASSUME NEW d \in Calls PROVE (Progress(d) /\ AnswersTrue(d))'
  <2>1. CASE d = c
    <3>1. /\ pc'[c] = "post" /\ attempt'[c] = attempt[c] + 1
          /\ answer'[c] = None /\ why'[c] = None
          /\ inconclusive'[c] \/ attempt'[c] = 1
          /\ hint'[c] \in Hints
      BY <1>1, <1>2, <1>3 DEF Inv, TypeOK, PostNext, GoTo, outcome
    <3>2. QED
      BY <1>1, <1>2, <2>1, <3>1 DEF Progress, AnswersTrue, Answers, Reasons
  <2>2. CASE d # c
    <3>1. /\ pc'[d] = pc[d] /\ attempt'[d] = attempt[d]
          /\ inconclusive'[d] = inconclusive[d]
          /\ UNCHANGED <<hint, answer, why, party, creator>>
      BY <1>1, <2>2 DEF Inv, TypeOK, PostNext, GoTo, outcome
    <3>2. LeftNothing(d) => LeftNothing(d)'
      BY <1>6, <2>2, <3>1 DEF LeftNothing
    <3>3. QED
      BY <3>1, <3>2 DEF Inv, Progress, AnswersTrue
  <2>3. QED
    BY <2>1, <2>2
<1>10. QED
  BY <1>4, <1>7, <1>8, <1>9 DEF Inv

\* The participant answers a POST, to whoever still waits, and is rid of it.
\* A call in no doubt has sent no other.
LEMMA AnswerInv ==
  ASSUME Inv, NEW r \in AtParticipant,
         NEW a \in {"exists", "in-flight", "unavailable", "refused"}, Reply(r, a),
         inbox' = inbox \ {r}, executing' = executing \ {r},
         UNCHANGED <<client, creator, listed>>,
         a = "exists" => creator[hint[r[1]]] # None
  PROVE  Inv'
<1> USE AllocationAssumption
<1>1. TypeOK'
  BY DEF Inv, TypeOK, Reply, client, locals, outcome, Answers
<1>2. AtParticipant' = AtParticipant \ {r}
  BY DEF AtParticipant
<1>3. PostsSent' /\ PartiesMade'
  BY <1>2 DEF Inv, PostsSent, PartiesMade, client, locals, outcome
<1>4. ASSUME NEW c \in Calls PROVE (Progress(c) /\ AnswersTrue(c))'
  <2>1. CASE r[1] = c /\ Awaited(r)
    <3>1. pc[c] = "post" /\ attempt[c] = r[2] /\ answer'[c] = a
      BY <2>1 DEF Awaited, Reply, Inv, TypeOK
    <3>2. why[c] = None
      BY <3>1 DEF Inv, Progress
    <3>3. ~inconclusive[c] => LeftNothing(c)'
      <4>1. ASSUME ~inconclusive[c] PROVE \A h \in Hints : creator[h] # c
        BY <2>1, <4>1 DEF Inv, PartiesMade
      <4>2. ASSUME ~inconclusive[c], NEW q \in AtParticipant, q[1] = c
            PROVE  q = r
        <5>1. q \in Posts /\ r \in Posts
          BY DEF Inv, TypeOK, AtParticipant
        <5>2. attempt[c] \in Nat /\ attempt[c] <= 1 /\ q[2] <= attempt[c]
          BY <4>2 DEF Inv, TypeOK, Progress, PostsSent
        <5>3. q[2] = 1 /\ r[2] = 1
          BY <3>1, <5>1, <5>2 DEF Posts
        <5>4. QED
          BY <2>1, <4>2, <5>1, <5>3 DEF Posts
      <4>3. QED
        BY <1>2, <4>1, <4>2 DEF LeftNothing
    <3>4. Progress(c)'
      BY <3>1 DEF Inv, Progress, client, locals, outcome
    <3>5. QED
      BY <3>1, <3>2, <3>3, <3>4 DEF AnswersTrue, client, locals, outcome
  <2>2. CASE ~(r[1] = c /\ Awaited(r))
    <3>1. answer'[c] = answer[c]
      BY <2>2 DEF Reply, Inv, TypeOK
    <3>2. LeftNothing(c) => LeftNothing(c)'
      BY <1>2 DEF LeftNothing
    <3>3. QED
      BY <3>1, <3>2 DEF Inv, Progress, AnswersTrue, client, locals, outcome
  <2>3. QED
    BY <2>1, <2>2
<1>5. QED
  BY <1>1, <1>3, <1>4 DEF Inv

\* The participant begins a POST whose hint is free.
LEMMA BeginInv ==
  ASSUME Inv, NEW r \in Posts, Begin(r)
  PROVE  Inv'
<1>1. TypeOK'
  BY DEF Inv, TypeOK, Begin, client, locals, outcome
<1>2. AtParticipant' = AtParticipant
  BY DEF Begin, AtParticipant
<1>3. PostsSent'
  BY <1>2 DEF Inv, PostsSent, Begin, InFlight, client, locals, outcome
<1>4. PartiesMade'
  BY <1>2 DEF Inv, PartiesMade, Begin, client, locals, outcome
<1>5. ASSUME NEW c \in Calls PROVE (Progress(c) /\ AnswersTrue(c))'
  BY <1>2 DEF Inv, Progress, AnswersTrue, LeftNothing, Begin, client, locals, outcome
<1>6. QED
  BY <1>1, <1>3, <1>4, <1>5 DEF Inv

\* A POST makes its party: the hint was free, and the call, if in no doubt,
\* has no other POST at the participant.
LEMMA CommitInv ==
  ASSUME Inv, NEW r \in Posts, Commit(r)
  PROVE  Inv'
<1> USE AllocationAssumption
<1> DEFINE k == r[1]
<1>1. /\ k \in Calls /\ r \in executing /\ r \in AtParticipant
      /\ creator[hint[k]] = None /\ r[2] \in Nat \ {0} /\ r[2] <= attempt[k]
  BY DEF Commit, Posts, Inv, PostsSent, AtParticipant
<1>2. hint[k] \in Hints /\ pc[k] # "idle"
  BY <1>1 DEF Inv, TypeOK, Progress
<1>3. TypeOK'
  BY <1>1, <1>2 DEF Inv, TypeOK, Commit, Reply, Answers, client, locals, outcome
<1>4. AtParticipant' = AtParticipant \ {r}
  BY DEF Commit, AtParticipant, Inv, PostsSent
<1>5. /\ creator'[hint[k]] = k
      /\ \A h \in Hints : h # hint[k] => creator'[h] = creator[h]
  BY <1>2 DEF Commit, Inv, TypeOK
<1>6. PostsSent'
  <2>1. ASSUME NEW q \in executing' PROVE creator'[hint[q[1]]] = None
    <3>1. q \in executing /\ q # r /\ hint[q[1]] # hint[k] /\ creator[hint[q[1]]] = None
      BY <1>1 DEF Commit, Inv, PostsSent
    <3>2. q[1] \in Calls /\ attempt[q[1]] > 0
      BY <3>1 DEF Inv, TypeOK, PostsSent, AtParticipant, Posts
    <3>3. hint[q[1]] \in Hints
      BY <3>2 DEF Inv, TypeOK, Progress
    <3>4. QED
      BY <1>5, <3>1, <3>3
  <2>2. QED
    BY <1>4, <2>1 DEF Inv, PostsSent, Commit, client, locals, outcome
<1>7. PartiesMade'
  <2>1. ASSUME ~inconclusive[k], NEW q \in AtParticipant, q[1] = k
        PROVE  q = r
    <3>1. q \in Posts /\ attempt[k] \in Nat /\ attempt[k] <= 1 /\ q[2] <= attempt[k]
      BY <1>1, <2>1 DEF Inv, TypeOK, Progress, PostsSent, AtParticipant
    <3>2. QED
      BY <1>1, <2>1, <3>1 DEF Posts
  <2>2. ASSUME NEW h \in Hints, NEW c \in Calls, creator'[h] = c
        PROVE  /\ hint[c] = h /\ attempt[c] > 0
               /\ ~inconclusive[c] => \A q \in AtParticipant' : q[1] # c
    <3>1. CASE h = hint[k]
      BY <1>1, <1>4, <1>5, <2>1, <2>2, <3>1 DEF Inv, TypeOK
    <3>2. CASE h # hint[k]
      BY <1>4, <1>5, <2>2, <3>2 DEF Inv, PartiesMade
    <3>3. QED
      BY <3>1, <3>2
  <2>3. \A h \in listed : creator'[h] # None
    BY <1>1, <1>5 DEF Inv, TypeOK, PartiesMade
  <2>4. QED
    BY <2>2, <2>3 DEF PartiesMade, Commit, client, locals, outcome
<1>8. ASSUME NEW c \in Calls PROVE (Progress(c) /\ AnswersTrue(c))'
  <2>1. UNCHANGED <<pc, hint, attempt, inconclusive, why, party, listed>>
    BY DEF Commit, client, locals, outcome
  <2>2. CASE c = k
    <3>1. ~LeftNothing(c) /\ creator[hint[c]] = None
      BY <1>1, <2>2 DEF LeftNothing
    <3>2. answer'[c] = answer[c] \/ (pc[c] = "post" /\ answer'[c] = "ok")
      BY <2>2 DEF Commit, Reply, Awaited, Inv, TypeOK
    <3>3. answer[c] # "ok" /\ pc[c] # "done"
      BY <1>1, <3>1 DEF Inv, TypeOK, AnswersTrue
    <3>4. ~inconclusive[c] => {answer[c], why[c]} \cap {"exists", "refused"} = {}
      BY <3>1 DEF Inv, AnswersTrue
    <3>5. QED
      BY <1>5, <2>1, <2>2, <3>2, <3>3, <3>4 DEF Inv, Progress, AnswersTrue
  <2>3. CASE c # k
    <3>1. answer'[c] = answer[c]
      BY <2>3 DEF Commit, Reply, Inv, TypeOK
    <3>2. LeftNothing(c) => LeftNothing(c)'
      BY <1>4, <1>5, <2>3 DEF LeftNothing
    <3>3. pc[c] # "idle" /\ creator[hint[c]] # None => creator'[hint[c]] = creator[hint[c]]
      BY <1>1, <1>5 DEF Inv, Progress
    <3>4. Progress(c) /\ AnswersTrue(c)
      BY DEF Inv
    <3>5. Progress(c)'
      BY <2>1, <3>1, <3>4 DEF Progress
    <3>6. answer[c] = "ok" => pc[c] # "idle" /\ creator[hint[c]] = c /\ c # None
      BY <3>4 DEF Progress, AnswersTrue, Answers
    <3>7. AnswersTrue(c)'
      BY <2>1, <3>1, <3>2, <3>3, <3>4, <3>6 DEF AnswersTrue
    <3>8. QED
      BY <3>5, <3>7
  <2>4. QED
    BY <2>2, <2>3
<1>9. QED
  BY <1>3, <1>6, <1>7, <1>8 DEF Inv

\* The gateway's 504 tells a call nothing, and the POST stays.
LEMMA GatewayInv ==
  ASSUME Inv, NEW r \in Posts, GatewayGivesUp(r)
  PROVE  Inv'
<1> USE AllocationAssumption
<1>1. UNCHANGED <<client, participant>>
  BY DEF GatewayGivesUp
<1>2. PICK k \in Calls :
         /\ pc[k] = "post"
         /\ answer' = [answer EXCEPT ![k] = "unavailable"]
  BY DEF GatewayGivesUp, Reply, Awaited, Posts
<1>3. TypeOK' /\ PostsSent' /\ PartiesMade'
  BY <1>1, <1>2 DEF Inv, TypeOK, PostsSent, PartiesMade, AtParticipant, Answers,
              client, locals, outcome, participant
<1>4. ASSUME NEW c \in Calls PROVE (Progress(c) /\ AnswersTrue(c))'
  <2>1. answer'[c] = answer[c] \/ (pc[c] = "post" /\ answer'[c] = "unavailable")
    BY <1>2 DEF Inv, TypeOK
  <2>2. QED
    BY <1>1, <2>1 DEF Inv, Progress, AnswersTrue, LeftNothing, AtParticipant,
                      client, locals, outcome, participant
<1>5. QED
  BY <1>3, <1>4 DEF Inv

\* The participant serves a POST.
LEMMA ServeInv ==
  ASSUME Inv, NEW r \in Posts, Serve(r)
  PROVE  Inv'
<1>1. /\ r \in inbox => r \in AtParticipant /\ executing = executing \ {r}
      /\ r \in executing => r \in AtParticipant /\ inbox = inbox \ {r}
  BY DEF Inv, PostsSent, AtParticipant
<1>2. CASE AnswerExists(r)
  BY <1>1, <1>2, AnswerInv DEF AnswerExists
<1>3. CASE AnswerInFlight(r)
  BY <1>1, <1>3, AnswerInv DEF AnswerInFlight
<1>4. CASE Refuse(r)
  BY <1>1, <1>4, AnswerInv DEF Refuse
<1>5. CASE Abort(r)
  BY <1>1, <1>5, AnswerInv DEF Abort
<1>6. QED
  BY <1>2, <1>3, <1>4, <1>5, BeginInv, CommitInv, GatewayInv DEF Serve

\* A party that exists is listed.
LEMMA ListInv ==
  ASSUME Inv, NEW h \in Hints, List(h)
  PROVE  Inv'
<1>1. TypeOK' /\ PostsSent' /\ PartiesMade'
  BY DEF Inv, TypeOK, PostsSent, PartiesMade, List, AtParticipant, client, locals, outcome
<1>2. ASSUME NEW c \in Calls PROVE (Progress(c) /\ AnswersTrue(c))'
  BY DEF Inv, Progress, AnswersTrue, LeftNothing, AtParticipant, List, client, locals, outcome
<1>3. QED
  BY <1>1, <1>2 DEF Inv

\* Nothing happens.
LEMMA StutterInv == Inv /\ UNCHANGED vars => Inv'
BY DEF Inv, TypeOK, PostsSent, PartiesMade, Progress, AnswersTrue, LeftNothing,
       AtParticipant, vars, locals, outcome, participant

\* Every step preserves the invariant.
LEMMA NextInv == Inv /\ [Next]_vars => Inv'
<1> SUFFICES ASSUME Inv, [Next]_vars PROVE Inv'
  OBVIOUS
<1>1. ASSUME NEW c \in Calls, Start(c) \/ Step(c) \/ Cancel(c) PROVE Inv'
  BY <1>1, StartInv, WaitingInv, PostInv DEF Step
<1>2. QED
  BY <1>1, ServeInv, ListInv, StutterInv DEF Next

\* The invariant holds always.
LEMMA InvHolds == Spec => []Inv
BY InitInv, NextInv, PTL DEF Spec

----------------------------------------------------------------------------
\* A call makes no more than MaxAttempts POSTs, and keeps the types of its
\* variables.
THEOREM TypeCorrect == Spec => []TypeOK
<1>1. Inv => TypeOK
  BY DEF Inv
<1>2. QED
  BY <1>1, InvHolds, PTL

\* The party returned is one of the hint that was given, and exists.
THEOREM HintsReturned == Spec => []ReturnsItsHint
<1>1. Inv => ReturnsItsHint
  BY DEF Inv, AnswersTrue, ReturnsItsHint
<1>2. QED
  BY <1>1, InvHolds, PTL

\* A party of another caller is returned only by a call that was left in
\* doubt by an earlier attempt.
THEOREM AdoptionsDoubtful == Spec => []AdoptsOnlyInDoubt
<1>1. Inv => AdoptsOnlyInDoubt
  BY DEF Inv, AnswersTrue, AdoptsOnlyInDoubt
<1>2. QED
  BY <1>1, InvHolds, PTL

\* A call in no doubt that is refused, or told that the party exists, has made
\* no party and will make none.
THEOREM VerdictsFinal == Spec => []VerdictIsFinal
<1>1. Inv => VerdictIsFinal
  BY DEF Inv, Progress, AnswersTrue, LeftNothing, AtParticipant, VerdictIsFinal
<1>2. QED
  BY <1>1, InvHolds, PTL

=============================================================================
