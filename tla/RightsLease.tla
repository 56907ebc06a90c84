----------------------------- MODULE RightsLease -----------------------------
(***************************************************************************)
(* Leases of ledger-user rights in the C# package (UserBuilder.cs): a      *)
(* lease owns the rights the participant reported as newly granted to it   *)
(* and hands exactly those back when disposed, retrying a hand-back that   *)
(* failed. Several suites lease, grant and revoke rights of the one        *)
(* service-account user of a shared participant.                           *)
(*                                                                         *)
(* A request is sent, served by the participant and answered in separate   *)
(* steps. The client may stop waiting between any two of them, and a       *)
(* request it stopped waiting for may still be served later.               *)
(***************************************************************************)
EXTENDS FiniteSets, Integers

CONSTANTS
    Leases,     \* calls of GrantRightsLeaseAsync
    Rights,     \* rights of the user, by RightIdentity
    Nobody,     \* the grantor of a right that is not on the user
    Outsider,   \* whoever grants or revokes without a lease
    MaxFaults,  \* bound: requests lost, refused or answered unreadably
    MaxOutside  \* bound: unleased grants and revokes

ASSUME LeaseAssumption ==
    /\ IsFiniteSet(Rights)
    /\ Nobody \notin Leases
    /\ Outsider \notin Leases \cup {Nobody}
    /\ MaxFaults \in Nat
    /\ MaxOutside \in Nat

VARIABLES
    grantor,   \* who put each right on the user, Nobody if it is not there
    orphans,   \* requests nobody waits for any more and not served yet
    pc,        \* where each lease is
    owned,     \* _owned
    attempts,  \* _attempts, counted up to 2: the code only asks whether it is > 1
    wire,      \* the rights in the request the lease waits on
    answer,    \* the rights in the response on its way
    doubt,     \* history: rights that left the user while a lease claimed them
    faults,    \* faults so far
    outside    \* unleased grants and revokes so far

lease == <<pc, owned, attempts, wire, answer>>
vars == <<grantor, orphans, lease, doubt, faults, outside>>

Locations == {"unused", "granting", "granted", "failed", "open",
              "revoking", "revoked", "reading", "read", "closed"}

Held == {r \in Rights : grantor[r] # Nobody}

\* The rights a lease owns or is about to, when the grant's answer arrives.
Claimed(l) == IF pc[l] = "granted" THEN answer[l] ELSE owned[l]

\* The participant's side of a grant and of a revoke of S.
PutOn(g, S) == grantor' = [r \in Rights |-> IF r \in S \ Held THEN g ELSE grantor[r]]
TakeOff(S) ==
    /\ grantor' = [r \in Rights |-> IF r \in S THEN Nobody ELSE grantor[r]]
    /\ doubt' = [l \in Leases |-> doubt[l] \cup (Claimed(l) \cap S \cap Held)]

Fault == faults < MaxFaults /\ faults' = faults + 1

Goto(l, from, to) ==
    /\ pc[l] = from
    /\ pc' = [pc EXCEPT ![l] = to]

Init ==
    /\ grantor \in [Rights -> {Nobody, Outsider}]
    /\ orphans = {}
    /\ pc = [l \in Leases |-> "unused"]
    /\ owned = [l \in Leases |-> {}]
    /\ attempts = [l \in Leases |-> 0]
    /\ wire = [l \in Leases |-> {}]
    /\ answer = [l \in Leases |-> {}]
    /\ doubt = [l \in Leases |-> {}]
    /\ faults = 0
    /\ outside = 0

----------------------------------------------------------------------------
(* GrantRightsLeaseAsync.                                                  *)

\* No rights requested: a lease that owns nothing, and no request.
LeaseNothing(l) ==
    /\ Goto(l, "unused", "open")
    /\ UNCHANGED <<grantor, orphans, owned, attempts, wire, answer, doubt, faults, outside>>

SendGrant(l, S) ==
    /\ Goto(l, "unused", "granting")
    /\ wire' = [wire EXCEPT ![l] = S]
    /\ UNCHANGED <<grantor, orphans, owned, attempts, answer, doubt, faults, outside>>

ServeGrant(l) ==
    /\ Goto(l, "granting", "granted")
    /\ PutOn(l, wire[l])
    /\ answer' = [answer EXCEPT ![l] = wire[l] \ Held]
    /\ UNCHANGED <<orphans, owned, attempts, wire, doubt, faults, outside>>

\* Fault: the lease owns all it asked for.
OpenOwningRequested(l) ==
    /\ Goto(l, "granted", "open")
    /\ owned' = [owned EXCEPT ![l] = wire[l]]
    /\ UNCHANGED <<grantor, orphans, attempts, wire, answer, doubt, faults, outside>>

Open(l) ==
    /\ Goto(l, "granted", "open")
    /\ owned' = [owned EXCEPT ![l] = answer[l]]
    /\ UNCHANGED <<grantor, orphans, attempts, wire, answer, doubt, faults, outside>>

\* UserRightsGrantedWithoutLeaseException: granted, and no readable answer.
GrantUnreadable(l) ==
    /\ Fault
    /\ Goto(l, "granted", "failed")
    /\ UNCHANGED <<grantor, orphans, owned, attempts, wire, answer, doubt, outside>>

\* A non-success status: nothing granted.
GrantRefused(l) ==
    /\ Fault
    /\ Goto(l, "granting", "failed")
    /\ UNCHANGED <<grantor, orphans, owned, attempts, wire, answer, doubt, outside>>

\* HttpClient.Timeout or a dropped connection, before or after the commit.
GrantLost(l) ==
    /\ Fault
    /\ \/ /\ Goto(l, "granting", "failed")
          /\ orphans' = orphans \cup {[op |-> "grant", lease |-> l, rights |-> wire[l]]}
       \/ Goto(l, "granted", "failed") /\ UNCHANGED orphans
    /\ UNCHANGED <<grantor, owned, attempts, wire, answer, doubt, outside>>

----------------------------------------------------------------------------
(* DisposeAsync. A call while another is in flight, or after one that      *)
(* returned, finds _disposed set and does nothing; so does the first call  *)
(* on a lease that owns nothing.                                           *)

NextAttempt(l) == attempts' = [attempts EXCEPT ![l] = IF @ = 0 THEN 1 ELSE 2]

DisposeEmpty(l) ==
    /\ owned[l] = {}
    /\ Goto(l, "open", "closed")
    /\ UNCHANGED <<grantor, orphans, owned, attempts, wire, answer, doubt, faults, outside>>

SendRevoke(l) ==
    /\ owned[l] # {}
    /\ Goto(l, "open", "revoking")
    /\ NextAttempt(l)
    /\ wire' = [wire EXCEPT ![l] = owned[l]]
    /\ UNCHANGED <<grantor, orphans, owned, answer, doubt, faults, outside>>

\* No token to send the revoke with: the attempt counts all the same.
DisposeWithoutToken(l) ==
    /\ Fault
    /\ pc[l] = "open" /\ owned[l] # {}
    /\ NextAttempt(l)
    /\ UNCHANGED <<grantor, orphans, pc, owned, wire, answer, doubt, outside>>

Revoked(l, S) ==
    /\ Goto(l, "revoking", "revoked")
    /\ TakeOff(S)
    /\ answer' = [answer EXCEPT ![l] = S]
    /\ UNCHANGED <<orphans, owned, attempts, wire, outside>>

ServeRevoke(l) == Revoked(l, wire[l] \cap Held) /\ UNCHANGED faults

\* The participant reports, and revokes, only some of what it holds.
ServeRevokePartly(l) ==
    /\ Fault
    /\ \E S \in SUBSET (wire[l] \cap Held) : S # wire[l] \cap Held /\ Revoked(l, S)

\* Fault: what is outstanding is never read back.
SettleWithoutReadBack(l, confirmed) ==
    /\ pc[l] = "revoked"
    /\ LET outstanding == owned[l] \ confirmed
       IN  IF Cardinality(confirmed) >= Cardinality(owned[l])
           THEN /\ pc' = [pc EXCEPT ![l] = "closed"]
                /\ owned' = [owned EXCEPT ![l] = {}]
           ELSE /\ pc' = [pc EXCEPT ![l] = "open"]
                /\ owned' = [owned EXCEPT ![l] = outstanding]
    /\ UNCHANGED <<grantor, orphans, attempts, wire, answer, doubt, outside>>

\* What the revoke confirmed is compared with what was requested. A shortfall
\* on a first attempt narrows the lease and throws; on a later one the rights
\* still on the user are read back first.
Settle(l, confirmed) ==
    /\ pc[l] = "revoked"
    /\ LET outstanding == owned[l] \ confirmed
       IN  \/ /\ Cardinality(confirmed) >= Cardinality(owned[l])
              /\ pc' = [pc EXCEPT ![l] = "closed"]
              /\ owned' = [owned EXCEPT ![l] = {}]
              /\ UNCHANGED wire
           \/ /\ Cardinality(confirmed) < Cardinality(owned[l])
              /\ attempts[l] = 1
              /\ pc' = [pc EXCEPT ![l] = "open"]
              /\ owned' = [owned EXCEPT ![l] = outstanding]
              /\ UNCHANGED wire
           \/ /\ Cardinality(confirmed) < Cardinality(owned[l])
              /\ attempts[l] > 1
              /\ pc' = [pc EXCEPT ![l] = "reading"]
              /\ wire' = [wire EXCEPT ![l] = outstanding]
              /\ UNCHANGED owned
    /\ UNCHANGED <<grantor, orphans, attempts, answer, doubt, outside>>

SettleReadable(l) == Settle(l, answer[l]) /\ UNCHANGED faults

\* No readable newlyRevokedRights counts as nothing revoked.
SettleUnreadable(l) == Fault /\ Settle(l, {})

\* Fault: the lease lets go of its rights before it knows they are gone.
RevokeRefusedForgetting(l) ==
    /\ Fault
    /\ Goto(l, "revoking", "open")
    /\ owned' = [owned EXCEPT ![l] = {}]
    /\ UNCHANGED <<grantor, orphans, attempts, wire, answer, doubt, outside>>

RevokeRefused(l) ==
    /\ Fault
    /\ Goto(l, "revoking", "open")
    /\ UNCHANGED <<grantor, orphans, owned, attempts, wire, answer, doubt, outside>>

RevokeLost(l) ==
    /\ Fault
    /\ \/ /\ Goto(l, "revoking", "open")
          /\ orphans' = orphans \cup {[op |-> "revoke", lease |-> l, rights |-> wire[l]]}
       \/ Goto(l, "revoked", "open") /\ UNCHANGED orphans
    /\ UNCHANGED <<grantor, owned, attempts, wire, answer, doubt, outside>>

ServeRead(l) ==
    /\ Goto(l, "reading", "read")
    /\ answer' = [answer EXCEPT ![l] = Held]
    /\ UNCHANGED <<grantor, orphans, owned, attempts, wire, doubt, faults, outside>>

\* Own(outstanding), then return if it is empty and throw if it is not.
Narrow(l, outstanding) ==
    /\ owned' = [owned EXCEPT ![l] = outstanding]
    /\ pc' = [pc EXCEPT ![l] = IF outstanding = {} THEN "closed" ELSE "open"]
    /\ UNCHANGED <<grantor, orphans, attempts, wire, answer, doubt, outside>>

FinishRead(l) == pc[l] = "read" /\ Narrow(l, wire[l] \cap answer[l]) /\ UNCHANGED faults

\* A non-success or unreadable read-back keeps every candidate.
ReadUnreadable(l) == Fault /\ pc[l] \in {"reading", "read"} /\ Narrow(l, wire[l])

\* The read-back throws before Own: what the revoke confirmed stays owned.
ReadLost(l) ==
    /\ Fault
    /\ pc[l] \in {"reading", "read"}
    /\ pc' = [pc EXCEPT ![l] = "open"]
    /\ UNCHANGED <<grantor, orphans, owned, attempts, wire, answer, doubt, outside>>

----------------------------------------------------------------------------
(* The other users of the participant, and requests served late.           *)

\* GrantRightsAsync, or the CLI of another suite: rights without a lease.
OutsideGrant(S) ==
    /\ outside < MaxOutside
    /\ outside' = outside + 1
    /\ PutOn(Outsider, S)
    /\ UNCHANGED <<orphans, lease, doubt, faults>>

\* RevokeRightsAsync, or `rights prune`.
OutsideRevoke(S) ==
    /\ outside < MaxOutside
    /\ outside' = outside + 1
    /\ TakeOff(S)
    /\ UNCHANGED <<orphans, lease, faults>>

ServeOrphan(o) ==
    /\ orphans' = orphans \ {o}
    /\ IF o.op = "grant" THEN PutOn(o.lease, o.rights) /\ UNCHANGED doubt
                         ELSE TakeOff(o.rights)
    /\ UNCHANGED <<lease, faults, outside>>

\* Steps of the participant and of a client once its call has begun.
Progress(l) ==
    \/ ServeGrant(l) \/ Open(l) \/ GrantUnreadable(l) \/ GrantRefused(l) \/ GrantLost(l)
    \/ ServeRevoke(l) \/ ServeRevokePartly(l) \/ SettleReadable(l) \/ SettleUnreadable(l)
    \/ RevokeRefused(l) \/ RevokeLost(l)
    \/ ServeRead(l) \/ FinishRead(l) \/ ReadUnreadable(l) \/ ReadLost(l)

Dispose(l) == DisposeEmpty(l) \/ SendRevoke(l) \/ DisposeWithoutToken(l)

Next ==
    \/ \E l \in Leases :
         \/ LeaseNothing(l)
         \/ \E S \in SUBSET Rights \ {{}} : SendGrant(l, S)
         \/ Progress(l)
         \/ Dispose(l)
    \/ \E S \in SUBSET Rights \ {{}} : OutsideGrant(S) \/ OutsideRevoke(S)
    \/ \E o \in orphans : ServeOrphan(o)

\* A call that has begun gets its answer or times out (HttpClient.Timeout).
Spec == Init /\ [][Next]_vars /\ \A l \in Leases : WF_vars(Progress(l))

----------------------------------------------------------------------------
(* Properties.                                                             *)

\* Types, and that a closed lease owns nothing.
TypeOK ==
    /\ grantor \in [Rights -> Leases \cup {Nobody, Outsider}]
    /\ orphans \subseteq [op : {"grant", "revoke"}, lease : Leases, rights : SUBSET Rights]
    /\ pc \in [Leases -> Locations]
    /\ owned \in [Leases -> SUBSET Rights]
    /\ attempts \in [Leases -> 0 .. 2]
    /\ wire \in [Leases -> SUBSET Rights]
    /\ answer \in [Leases -> SUBSET Rights]
    /\ doubt \in [Leases -> SUBSET Rights]
    /\ faults \in 0 .. MaxFaults
    /\ outside \in 0 .. MaxOutside
    /\ \A l \in Leases : pc[l] = "closed" => owned[l] = {}

\* "an empty list after a dispose means nothing was left behind": a right a
\* lease put on the user and that is still there is owned by that lease, or
\* the grant's answer is on its way, or the grant threw and the caller knows.
NoSilentLeak ==
    \A r \in Held, l \in Leases : grantor[r] = l =>
        \/ r \in owned[l]
        \/ pc[l] = "granted" /\ r \in answer[l]
        \/ pc[l] = "failed"

\* "a right that was already on the user belongs to whoever granted it first":
\* a lease owns a right of the user only if it put it there itself, unless the
\* right it had put there was taken off in between.
OwnsOnlyItsGrants ==
    \A l \in Leases : \A r \in owned[l] \cap Held : grantor[r] = l \/ r \in doubt[l]

\* A hand-back that is retried until it returns does return, even when others
\* have revoked the rights or an earlier revoke committed without an answer:
\* the read-back tells rights that are gone from rights left behind.
LeaseDrains ==
    (\A l \in Leases : WF_vars(Dispose(l))) =>
        \A l \in Leases : pc[l] = "open" ~> pc[l] = "closed"

=============================================================================
