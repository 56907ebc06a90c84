-------------------------- MODULE RightsLeaseProofs --------------------------
(***************************************************************************)
(* Proofs that a lease leaks no right silently and owns no right that was  *)
(* not its own grant, for any number of leases, rights, faults and unleased *)
(* grants and revokes. The inductive invariant is per lease: what the lease *)
(* has in hand at each step of its dispose, and what no other actor can do  *)
(* to it (Untouched).                                                      *)
(***************************************************************************)
EXTENDS RightsLease, FiniteSetTheorems, TLAPS

\* A revoke asks for what the lease owns; what it confirmed, and what the
\* read-back dropped, this lease no longer has on the user.
DisposeInHand(l) ==
    /\ pc[l] \in {"revoking", "revoked"} => wire[l] = owned[l]
    /\ pc[l] = "revoked" =>
         answer[l] \subseteq owned[l] /\ \A r \in answer[l] : grantor[r] # l
    /\ pc[l] \in {"reading", "read"} =>
         wire[l] \subseteq owned[l] /\ \A r \in owned[l] \ wire[l] : grantor[r] # l
    /\ pc[l] = "read" => \A r \in wire[l] \ answer[l] : grantor[r] # l

OwnsNothingYet(l) ==
    pc[l] \in {"unused", "granting", "granted", "failed", "closed"} => owned[l] = {}

NoLeak(l) ==
    \A r \in Rights : grantor[r] = l =>
        \/ r \in owned[l]
        \/ pc[l] = "granted" /\ r \in answer[l]
        \/ pc[l] = "failed"

ClaimsItsGrants(l) == \A r \in Claimed(l) : grantor[r] = l \/ r \in doubt[l]

LeaseInv(l) == DisposeInHand(l) /\ OwnsNothingYet(l) /\ NoLeak(l) /\ ClaimsItsGrants(l)

\* A grant nobody waits for is one whose call threw.
OrphanInv == \A o \in orphans : o.op = "grant" => pc[o.lease] = "failed"

Inv == TypeOK /\ OrphanInv /\ \A l \in Leases : LeaseInv(l)

----------------------------------------------------------------------------
(* What a step of another actor does to a lease.                           *)

Still(m) == pc'[m] = pc[m] /\ owned'[m] = owned[m] /\ wire'[m] = wire[m] /\ answer'[m] = answer[m]

Untouched(m) ==
    /\ \A r \in Rights : grantor'[r] = m => grantor[r] = m
    /\ \A r \in Claimed(m) : grantor[r] = m => grantor'[r] = m \/ r \in doubt'[m]
    /\ doubt[m] \subseteq doubt'[m]

\* A lease that stands still and is untouched keeps its invariant.
LEMMA Frame ==
  ASSUME TypeOK, NEW m \in Leases, LeaseInv(m), Still(m), Untouched(m)
  PROVE  LeaseInv(m)'
<1> USE DEF LeaseInv, Still, Untouched
<1>0. owned[m] \subseteq Rights /\ answer[m] \subseteq Rights /\ wire[m] \subseteq Rights
  BY DEF TypeOK
<1>1. DisposeInHand(m)'
  BY <1>0 DEF DisposeInHand
<1>2. OwnsNothingYet(m)'
  BY DEF OwnsNothingYet
<1>3. NoLeak(m)'
  BY DEF NoLeak
<1>4. ClaimsItsGrants(m)'
  BY DEF ClaimsItsGrants, Claimed
<1>5. QED
  BY <1>1, <1>2, <1>3, <1>4

\* Nobody is neither a lease nor the outsider.
LEMMA NobodyApart == Nobody \notin Leases /\ Outsider # Nobody /\ Outsider \notin Leases
  BY LeaseAssumption

\* A step that leaves the participant alone touches no lease.
LEMMA SameFrame ==
  ASSUME UNCHANGED <<grantor, doubt>>, NEW m \in Leases
  PROVE  Untouched(m)
  BY DEF Untouched

\* A grant to one grantor touches no other.
LEMMA PutOnFrame ==
  ASSUME TypeOK, NEW g, NEW S, PutOn(g, S), doubt' = doubt, NEW m \in Leases, m # g
  PROVE  Untouched(m)
  BY NobodyApart DEF Untouched, PutOn, Held, TypeOK, Claimed

\* A revoke leaves a trace with every lease that claimed the right.
LEMMA TakeOffFrame ==
  ASSUME TypeOK, NEW S, TakeOff(S), NEW m \in Leases
  PROVE  Untouched(m)
<1>1. \A r \in Rights : grantor'[r] = m => grantor[r] = m
  BY NobodyApart DEF TakeOff, TypeOK
<1>2. doubt'[m] = doubt[m] \cup (Claimed(m) \cap S \cap Held)
  BY DEF TakeOff
<1>3. Claimed(m) \subseteq Rights
  BY DEF Claimed, TypeOK
<1>4. \A r \in Claimed(m) : grantor[r] = m => grantor'[r] = m \/ r \in doubt'[m]
  BY <1>2, <1>3, NobodyApart DEF TakeOff, Held
<1>5. QED
  BY <1>1, <1>2, <1>4 DEF Untouched

----------------------------------------------------------------------------
(* TypeOK is preserved.                                                    *)

\* The bounds on faults and on the others' steps are kept.
LEMMA CountersStay ==
  /\ 0 \in 0 .. MaxFaults /\ 0 \in 0 .. MaxOutside
  /\ \A n \in 0 .. MaxFaults : n < MaxFaults => n + 1 \in 0 .. MaxFaults
  /\ \A n \in 0 .. MaxOutside : n < MaxOutside => n + 1 \in 0 .. MaxOutside
<1>1. MaxFaults \in Nat /\ MaxOutside \in Nat
  BY LeaseAssumption
<1>2. QED
  BY <1>1

\* A fault is counted within its bound.
LEMMA FaultCounted == ASSUME TypeOK, Fault PROVE faults' \in 0 .. MaxFaults
  BY CountersStay DEF TypeOK, Fault

\* The participant's two operations keep the types of what they change.
LEMMA PutOnTyped ==
  ASSUME TypeOK, NEW g \in Leases \cup {Outsider}, NEW S, PutOn(g, S)
  PROVE  grantor' \in [Rights -> Leases \cup {Nobody, Outsider}]
  BY DEF TypeOK, PutOn

\* See PutOnTyped.
LEMMA TakeOffTyped ==
  ASSUME TypeOK, NEW S, TakeOff(S)
  PROVE  /\ grantor' \in [Rights -> Leases \cup {Nobody, Outsider}]
         /\ doubt' \in [Leases -> SUBSET Rights]
<1>1. \A l \in Leases : Claimed(l) \subseteq Rights
  BY DEF Claimed, TypeOK
<1>2. QED
  BY <1>1 DEF TypeOK, TakeOff

\* A step that takes a lease's grant forward keeps the types.
LEMMA GrantTyped ==
  ASSUME TypeOK, NEW l \in Leases,
         \/ LeaseNothing(l) \/ (\E S \in SUBSET Rights : SendGrant(l, S))
         \/ ServeGrant(l) \/ Open(l) \/ GrantUnreadable(l) \/ GrantRefused(l) \/ GrantLost(l)
  PROVE  TypeOK'
<1> USE FaultCounted DEF Goto, Locations
<1>1. CASE LeaseNothing(l)
  BY <1>1 DEF TypeOK, LeaseNothing
<1>2. ASSUME NEW S \in SUBSET Rights, SendGrant(l, S) PROVE TypeOK'
  BY <1>2 DEF TypeOK, SendGrant
<1>3. CASE ServeGrant(l)
  <2>1. grantor' \in [Rights -> Leases \cup {Nobody, Outsider}]
    BY <1>3, PutOnTyped DEF ServeGrant
  <2>2. QED
    BY <1>3, <2>1 DEF TypeOK, ServeGrant
<1>4. CASE Open(l)
  BY <1>4 DEF TypeOK, Open
<1>5. CASE GrantUnreadable(l)
  BY <1>5 DEF TypeOK, GrantUnreadable
<1>6. CASE GrantRefused(l)
  BY <1>6 DEF TypeOK, GrantRefused
<1>7. CASE GrantLost(l)
  BY <1>7 DEF TypeOK, GrantLost
<1>8. QED
  BY <1>1, <1>2, <1>3, <1>4, <1>5, <1>6, <1>7

\* A step of a dispose keeps the types.
LEMMA DisposeTyped ==
  ASSUME TypeOK, NEW l \in Leases,
         \/ Dispose(l) \/ ServeRevoke(l) \/ ServeRevokePartly(l)
         \/ SettleReadable(l) \/ SettleUnreadable(l) \/ RevokeRefused(l) \/ RevokeLost(l)
         \/ ServeRead(l) \/ FinishRead(l) \/ ReadUnreadable(l) \/ ReadLost(l)
  PROVE  TypeOK'
<1> USE FaultCounted DEF Goto, Locations
<1>1. CASE DisposeEmpty(l)
  BY <1>1 DEF TypeOK, DisposeEmpty
<1>2. CASE SendRevoke(l)
  BY <1>2 DEF TypeOK, SendRevoke, NextAttempt
<1>3. CASE DisposeWithoutToken(l)
  BY <1>3 DEF TypeOK, DisposeWithoutToken, NextAttempt
<1>4. ASSUME NEW S \in SUBSET Rights, Revoked(l, S), faults' \in 0 .. MaxFaults
      PROVE TypeOK'
  <2>1. /\ grantor' \in [Rights -> Leases \cup {Nobody, Outsider}]
        /\ doubt' \in [Leases -> SUBSET Rights]
    BY <1>4, TakeOffTyped DEF Revoked
  <2>2. QED
    BY <1>4, <2>1 DEF TypeOK, Revoked
<1>5. ASSUME NEW confirmed \in SUBSET Rights, Settle(l, confirmed), faults' \in 0 .. MaxFaults
      PROVE TypeOK'
  BY <1>5 DEF TypeOK, Settle
<1>6. ASSUME NEW S \in SUBSET Rights, Narrow(l, S), pc[l] \in {"reading", "read"},
             faults' \in 0 .. MaxFaults
      PROVE TypeOK'
  BY <1>6 DEF TypeOK, Narrow
<1>7. wire[l] \in SUBSET Rights /\ answer[l] \in SUBSET Rights /\ faults \in 0 .. MaxFaults
  BY DEF TypeOK
<1>8. CASE ServeRevoke(l)
  BY <1>4, <1>7, <1>8 DEF ServeRevoke
<1>9. CASE ServeRevokePartly(l)
  BY <1>4, <1>7, <1>9 DEF ServeRevokePartly
<1>10. CASE SettleReadable(l)
  BY <1>5, <1>7, <1>10 DEF SettleReadable
<1>11. CASE SettleUnreadable(l)
  BY <1>5, <1>11 DEF SettleUnreadable
<1>12. CASE RevokeRefused(l)
  BY <1>12 DEF TypeOK, RevokeRefused
<1>13. CASE RevokeLost(l)
  BY <1>13 DEF TypeOK, RevokeLost
<1>14. CASE ServeRead(l)
  BY <1>14 DEF TypeOK, ServeRead, Held
<1>15. CASE FinishRead(l)
  BY <1>6, <1>7, <1>15 DEF FinishRead
<1>16. CASE ReadUnreadable(l)
  BY <1>6, <1>7, <1>16 DEF ReadUnreadable
<1>17. CASE ReadLost(l)
  BY <1>17 DEF TypeOK, ReadLost
<1>18. QED
  BY <1>1, <1>2, <1>3, <1>8, <1>9, <1>10, <1>11, <1>12, <1>13, <1>14, <1>15,
     <1>16, <1>17 DEF Dispose

\* A step of the others keeps the types.
LEMMA OthersTyped ==
  ASSUME TypeOK, \/ \E S \in SUBSET Rights : OutsideGrant(S) \/ OutsideRevoke(S)
                 \/ \E o \in orphans : ServeOrphan(o)
  PROVE  TypeOK'
<1>1. ASSUME NEW S \in SUBSET Rights, OutsideGrant(S) PROVE TypeOK'
  <2>1. grantor' \in [Rights -> Leases \cup {Nobody, Outsider}]
    BY <1>1, PutOnTyped DEF OutsideGrant
  <2>2. QED
    BY <1>1, <2>1, CountersStay DEF TypeOK, OutsideGrant, lease
<1>2. ASSUME NEW S \in SUBSET Rights, OutsideRevoke(S) PROVE TypeOK'
  <2>1. /\ grantor' \in [Rights -> Leases \cup {Nobody, Outsider}]
        /\ doubt' \in [Leases -> SUBSET Rights]
    BY <1>2, TakeOffTyped DEF OutsideRevoke
  <2>2. QED
    BY <1>2, <2>1, CountersStay DEF TypeOK, OutsideRevoke, lease
<1>3. ASSUME NEW o \in orphans, ServeOrphan(o) PROVE TypeOK'
  <2>1. o.lease \in Leases /\ o.rights \in SUBSET Rights
    BY DEF TypeOK
  <2>2. /\ grantor' \in [Rights -> Leases \cup {Nobody, Outsider}]
        /\ doubt' \in [Leases -> SUBSET Rights]
    <3>1. CASE o.op = "grant"
      BY <1>3, <2>1, <3>1, PutOnTyped DEF ServeOrphan, TypeOK
    <3>2. CASE o.op # "grant"
      BY <1>3, <3>2, TakeOffTyped DEF ServeOrphan
    <3>3. QED
      BY <3>1, <3>2
  <2>3. QED
    BY <1>3, <2>2 DEF TypeOK, ServeOrphan, lease
<1>4. QED
  BY <1>1, <1>2, <1>3

----------------------------------------------------------------------------
(* LeaseInv is preserved.                                                  *)

\* What a step of lease l has to do: keep l's invariant, leave the others.
Keeps(l) == LeaseInv(l)' /\ \A m \in Leases \ {l} : Still(m) /\ Untouched(m)

\* A step of one lease that keeps it keeps all of them.
LEMMA KeepsAll ==
  ASSUME Inv, NEW l \in Leases, Keeps(l)
  PROVE  \A m \in Leases : LeaseInv(m)'
<1>1. ASSUME NEW m \in Leases, m # l PROVE LeaseInv(m)'
  BY <1>1, Frame DEF Keeps, Inv
<1>2. QED
  BY <1>1 DEF Keeps

\* Up to the moment the lease is open, it owns nothing and leaks nothing.
LEMMA GrantKeeps ==
  ASSUME Inv, NEW l \in Leases,
         \/ LeaseNothing(l) \/ (\E S \in SUBSET Rights : SendGrant(l, S))
         \/ ServeGrant(l) \/ Open(l) \/ GrantUnreadable(l) \/ GrantRefused(l) \/ GrantLost(l)
  PROVE  Keeps(l)
<1> USE DEF Inv, LeaseInv, DisposeInHand, OwnsNothingYet, NoLeak, ClaimsItsGrants,
        Claimed, Goto, Keeps
<1>0. TypeOK
  OBVIOUS
<1>1. CASE LeaseNothing(l)
  BY <1>1, SameFrame DEF LeaseNothing, Still, TypeOK
<1>2. ASSUME NEW S \in SUBSET Rights, SendGrant(l, S) PROVE Keeps(l)
  BY <1>2, SameFrame DEF SendGrant, Still, TypeOK
<1>3. CASE ServeGrant(l)
  <2>1. \A m \in Leases \ {l} : Still(m)
    BY <1>3 DEF ServeGrant, Still, TypeOK
  <2>2. \A m \in Leases \ {l} : Untouched(m)
    BY <1>0, <1>3, PutOnFrame DEF ServeGrant
  <2>3. /\ pc[l] = "granting" /\ pc'[l] = "granted" /\ owned[l] = {} /\ owned'[l] = {}
        /\ answer'[l] = wire[l] \ Held /\ wire[l] \subseteq Rights
        /\ \A r \in Rights : grantor'[r] = IF r \in wire[l] \ Held THEN l ELSE grantor[r]
    BY <1>3 DEF ServeGrant, PutOn, TypeOK
  <2>4. LeaseInv(l)'
    BY <2>3
  <2>5. QED
    BY <2>1, <2>2, <2>4
<1>4. CASE Open(l)
  BY <1>4, SameFrame DEF Open, Still, TypeOK
<1>5. CASE GrantUnreadable(l)
  BY <1>5, SameFrame DEF GrantUnreadable, Still, TypeOK
<1>6. CASE GrantRefused(l)
  BY <1>6, SameFrame DEF GrantRefused, Still, TypeOK
<1>7. CASE GrantLost(l)
  BY <1>7, SameFrame DEF GrantLost, Still, TypeOK
<1>8. QED
  BY <1>1, <1>2, <1>3, <1>4, <1>5, <1>6, <1>7

\* When at least as many rights are confirmed as are owned, all are.
LEMMA AllConfirmed ==
  ASSUME NEW S \in SUBSET Rights, NEW T \in SUBSET S, Cardinality(T) >= Cardinality(S)
  PROVE  S = T
<1>1. IsFiniteSet(S)
  BY LeaseAssumption, FS_Subset
<1>2. /\ Cardinality(T) <= Cardinality(S) /\ IsFiniteSet(T)
      /\ Cardinality(S) = Cardinality(T) => S = T
  BY <1>1, FS_Subset
<1>3. Cardinality(S) \in Nat /\ Cardinality(T) \in Nat
  BY <1>1, <1>2, FS_CardinalityType
<1>4. QED
  BY <1>2, <1>3

\* A revoke, in full or in part: what it takes off is in doubt for whoever
\* claimed it, this lease included.
LEMMA RevokedKeeps ==
  ASSUME Inv, NEW l \in Leases, NEW S \in SUBSET wire[l], Revoked(l, S)
  PROVE  Keeps(l)
<1> USE DEF Inv, Keeps
<1>1. \A m \in Leases \ {l} : Still(m)
  BY DEF Revoked, Goto, Still, TypeOK
<1>2. \A m \in Leases : Untouched(m)
  BY TakeOffFrame DEF Revoked
<1>3. /\ pc[l] = "revoking" /\ pc'[l] = "revoked" /\ wire' = wire /\ owned' = owned
      /\ answer'[l] = S /\ wire[l] = owned[l] /\ wire[l] \subseteq Rights
      /\ \A r \in Rights : grantor'[r] = IF r \in S THEN Nobody ELSE grantor[r]
  BY DEF Revoked, Goto, TakeOff, TypeOK, LeaseInv, DisposeInHand
<1>4. DisposeInHand(l)'
  BY <1>3, NobodyApart DEF DisposeInHand
<1>5. OwnsNothingYet(l)'
  BY <1>3 DEF OwnsNothingYet
<1>6. NoLeak(l)'
  BY <1>2, <1>3 DEF NoLeak, LeaseInv, Untouched
<1>7. ClaimsItsGrants(l)'
  BY <1>2, <1>3 DEF ClaimsItsGrants, Claimed, LeaseInv, Untouched
<1>8. QED
  BY <1>1, <1>2, <1>4, <1>5, <1>6, <1>7 DEF LeaseInv

\* The lease closes, narrows to what was not confirmed, or goes to read back:
\* nothing it lets go of is still on the user as its grant.
LEMMA SettleKeeps ==
  ASSUME Inv, NEW l \in Leases, NEW confirmed \in SUBSET answer[l], Settle(l, confirmed)
  PROVE  Keeps(l)
<1> USE DEF Inv, Keeps
<1>1. \A m \in Leases \ {l} : Still(m) /\ Untouched(m)
  BY SameFrame DEF Settle, Still, TypeOK
<1>2. /\ pc[l] = "revoked" /\ UNCHANGED <<grantor, doubt>>
      /\ owned[l] \subseteq Rights /\ confirmed \subseteq owned[l]
      /\ \A r \in confirmed : grantor[r] # l
      /\ \A r \in owned[l] : grantor[r] = l \/ r \in doubt[l]
      /\ \A r \in Rights : grantor[r] = l => r \in owned[l]
  BY DEF Settle, TypeOK, LeaseInv, DisposeInHand, NoLeak, ClaimsItsGrants, Claimed
<1>3. \/ /\ pc'[l] = "closed" /\ owned'[l] = {}
         /\ Cardinality(confirmed) >= Cardinality(owned[l])
      \/ pc'[l] = "open" /\ owned'[l] = owned[l] \ confirmed
      \/ /\ pc'[l] = "reading" /\ owned' = owned
         /\ wire'[l] = owned[l] \ confirmed
  BY DEF Settle, TypeOK
<1>4. CASE pc'[l] = "closed" /\ owned'[l] = {} /\ Cardinality(confirmed) >= Cardinality(owned[l])
  <2>1. confirmed = owned[l]
    BY <1>2, <1>4, AllConfirmed
  <2>2. QED
    BY <1>1, <1>2, <1>4, <2>1 DEF LeaseInv, DisposeInHand, OwnsNothingYet, NoLeak,
       ClaimsItsGrants, Claimed
<1>5. CASE pc'[l] = "open" /\ owned'[l] = owned[l] \ confirmed
  BY <1>1, <1>2, <1>5 DEF LeaseInv, DisposeInHand, OwnsNothingYet, NoLeak,
     ClaimsItsGrants, Claimed
<1>6. CASE pc'[l] = "reading" /\ owned' = owned /\ wire'[l] = owned[l] \ confirmed
  BY <1>1, <1>2, <1>6 DEF LeaseInv, DisposeInHand, OwnsNothingYet, NoLeak,
     ClaimsItsGrants, Claimed
<1>7. QED
  BY <1>3, <1>4, <1>5, <1>6

\* After the read-back the lease keeps a part of what was outstanding that
\* holds every right of its own still on the user.
LEMMA NarrowKeeps ==
  ASSUME Inv, NEW l \in Leases, NEW S \in SUBSET wire[l], Narrow(l, S),
         pc[l] \in {"reading", "read"},
         \A r \in wire[l] \ S : grantor[r] # l
  PROVE  Keeps(l)
<1> USE DEF Inv, Keeps
<1>1. \A m \in Leases \ {l} : Still(m) /\ Untouched(m)
  BY SameFrame DEF Narrow, Still, TypeOK
<1>2. /\ UNCHANGED <<grantor, doubt>> /\ owned'[l] = S /\ S \subseteq owned[l]
      /\ pc'[l] = IF S = {} THEN "closed" ELSE "open"
      /\ owned[l] \subseteq Rights
      /\ \A r \in owned[l] \ S : grantor[r] # l
      /\ \A r \in owned[l] : grantor[r] = l \/ r \in doubt[l]
      /\ \A r \in Rights : grantor[r] = l => r \in owned[l]
  BY DEF Narrow, TypeOK, LeaseInv, DisposeInHand, NoLeak, ClaimsItsGrants, Claimed
<1>3. QED
  BY <1>1, <1>2 DEF LeaseInv, DisposeInHand, OwnsNothingYet, NoLeak, ClaimsItsGrants, Claimed

\* Every step of a dispose keeps its lease.
LEMMA DisposeKeeps ==
  ASSUME Inv, NEW l \in Leases,
         \/ Dispose(l) \/ ServeRevoke(l) \/ ServeRevokePartly(l)
         \/ SettleReadable(l) \/ SettleUnreadable(l) \/ RevokeRefused(l) \/ RevokeLost(l)
         \/ ServeRead(l) \/ FinishRead(l) \/ ReadUnreadable(l) \/ ReadLost(l)
  PROVE  Keeps(l)
<1> USE DEF Inv, Goto
<1>1. CASE DisposeEmpty(l)
  BY <1>1, SameFrame DEF DisposeEmpty, Still, TypeOK, Keeps, LeaseInv, DisposeInHand,
     OwnsNothingYet, NoLeak, ClaimsItsGrants, Claimed
<1>2. CASE SendRevoke(l)
  BY <1>2, SameFrame DEF SendRevoke, NextAttempt, Still, TypeOK, Keeps, LeaseInv,
     DisposeInHand, OwnsNothingYet, NoLeak, ClaimsItsGrants, Claimed
<1>3. CASE DisposeWithoutToken(l)
  BY <1>3, SameFrame DEF DisposeWithoutToken, Still, TypeOK, Keeps, LeaseInv,
     DisposeInHand, OwnsNothingYet, NoLeak, ClaimsItsGrants, Claimed
<1>4. CASE ServeRevoke(l)
  BY <1>4, RevokedKeeps DEF ServeRevoke
<1>5. CASE ServeRevokePartly(l)
  BY <1>5, RevokedKeeps DEF ServeRevokePartly
<1>6. CASE SettleReadable(l)
  BY <1>6, SettleKeeps DEF SettleReadable
<1>7. CASE SettleUnreadable(l)
  BY <1>7, SettleKeeps DEF SettleUnreadable
<1>8. CASE RevokeRefused(l)
  BY <1>8, SameFrame DEF RevokeRefused, Still, TypeOK, Keeps, LeaseInv,
     DisposeInHand, OwnsNothingYet, NoLeak, ClaimsItsGrants, Claimed
<1>9. CASE RevokeLost(l)
  BY <1>9, SameFrame DEF RevokeLost, Still, TypeOK, Keeps, LeaseInv,
     DisposeInHand, OwnsNothingYet, NoLeak, ClaimsItsGrants, Claimed
<1>10. CASE ServeRead(l)
  <2>1. /\ \A m \in Leases \ {l} : Still(m) /\ Untouched(m)
        /\ UNCHANGED <<grantor, owned, wire, doubt>>
        /\ pc[l] = "reading" /\ pc'[l] = "read" /\ answer'[l] = Held
        /\ wire[l] \subseteq Rights
    BY <1>10, SameFrame DEF ServeRead, Still, TypeOK
  <2>2. \A r \in wire[l] \ Held : grantor[r] # l
    BY <2>1, NobodyApart DEF Held
  <2>3. QED
    BY <2>1, <2>2 DEF Keeps, LeaseInv, DisposeInHand, OwnsNothingYet, NoLeak,
       ClaimsItsGrants, Claimed
<1>11. CASE FinishRead(l)
  <2>1. \A r \in wire[l] \ (wire[l] \cap answer[l]) : grantor[r] # l
    BY <1>11 DEF FinishRead, LeaseInv, DisposeInHand
  <2>2. QED
    BY <1>11, <2>1, NarrowKeeps DEF FinishRead
<1>12. CASE ReadUnreadable(l)
  BY <1>12, NarrowKeeps DEF ReadUnreadable
<1>13. CASE ReadLost(l)
  BY <1>13, SameFrame DEF ReadLost, Still, TypeOK, Keeps, LeaseInv,
     DisposeInHand, OwnsNothingYet, NoLeak, ClaimsItsGrants, Claimed
<1>14. QED
  BY <1>1, <1>2, <1>3, <1>4, <1>5, <1>6, <1>7, <1>8, <1>9, <1>10, <1>11, <1>12,
     <1>13 DEF Dispose

\* The others: a late grant reaches only a lease whose call threw, and any
\* revoke leaves its trace.
LEMMA OthersKeep ==
  ASSUME Inv, \/ \E S \in SUBSET Rights : OutsideGrant(S) \/ OutsideRevoke(S)
              \/ \E o \in orphans : ServeOrphan(o)
  PROVE  \A m \in Leases : LeaseInv(m)'
<1> USE DEF Inv
<1>1. ASSUME NEW m \in Leases, UNCHANGED lease, Untouched(m) PROVE LeaseInv(m)'
  BY <1>1, Frame DEF Still, lease
<1>2. ASSUME NEW S \in SUBSET Rights, OutsideGrant(S), NEW m \in Leases PROVE LeaseInv(m)'
  BY <1>1, <1>2, PutOnFrame, NobodyApart DEF OutsideGrant
<1>3. ASSUME NEW S \in SUBSET Rights, OutsideRevoke(S), NEW m \in Leases PROVE LeaseInv(m)'
  BY <1>1, <1>3, TakeOffFrame DEF OutsideRevoke
<1>4. ASSUME NEW o \in orphans, ServeOrphan(o), NEW m \in Leases PROVE LeaseInv(m)'
  <2>1. CASE o.op = "grant" /\ o.lease = m
    <3>1. pc[m] = "failed" /\ UNCHANGED lease
      BY <1>4, <2>1 DEF OrphanInv, ServeOrphan
    <3>2. QED
      BY <3>1 DEF lease, LeaseInv, DisposeInHand, OwnsNothingYet, NoLeak,
         ClaimsItsGrants, Claimed
  <2>2. CASE o.op = "grant" /\ o.lease # m
    BY <1>1, <1>4, <2>2, PutOnFrame DEF ServeOrphan
  <2>3. CASE o.op # "grant"
    BY <1>1, <1>4, <2>3, TakeOffFrame DEF ServeOrphan
  <2>4. QED
    BY <2>1, <2>2, <2>3
<1>5. QED
  BY <1>2, <1>3, <1>4

\* A lease whose grant threw does nothing more.
LEMMA OrphanStep == ASSUME Inv, [Next]_vars PROVE OrphanInv'
<1> USE DEF Inv, OrphanInv, Goto, TypeOK
<1>1. ASSUME NEW l \in Leases, Progress(l) PROVE OrphanInv'
  <2>1. CASE GrantLost(l)
    BY <1>1, <2>1 DEF GrantLost
  <2>2. CASE RevokeLost(l)
    BY <1>1, <2>2 DEF RevokeLost
  <2>3. CASE ~GrantLost(l) /\ ~RevokeLost(l)
    <3>1. orphans' = orphans /\ pc[l] # "failed" /\ \A m \in Leases \ {l} : pc'[m] = pc[m]
      BY <1>1, <2>3 DEF Progress, ServeGrant, Open, GrantUnreadable, GrantRefused,
         ServeRevoke, ServeRevokePartly, Revoked, SettleReadable, SettleUnreadable, Settle,
         RevokeRefused, ServeRead, FinishRead, ReadUnreadable, ReadLost, Narrow
    <3>2. QED
      BY <3>1
  <2>4. QED
    BY <2>1, <2>2, <2>3
<1>2. ASSUME NEW l \in Leases, Dispose(l) PROVE OrphanInv'
  BY <1>2 DEF Dispose, DisposeEmpty, SendRevoke, DisposeWithoutToken
<1>3. ASSUME NEW l \in Leases, NEW S, LeaseNothing(l) \/ SendGrant(l, S) PROVE OrphanInv'
  BY <1>3 DEF LeaseNothing, SendGrant
<1>4. ASSUME NEW S, OutsideGrant(S) \/ OutsideRevoke(S) PROVE OrphanInv'
  BY <1>4 DEF OutsideGrant, OutsideRevoke, lease
<1>5. ASSUME NEW o \in orphans, ServeOrphan(o) PROVE OrphanInv'
  BY <1>5 DEF ServeOrphan, lease
<1>6. CASE UNCHANGED vars
  BY <1>6 DEF vars, lease
<1>7. QED
  BY <1>1, <1>2, <1>3, <1>4, <1>5, <1>6 DEF Next

\* The invariant holds before any lease is taken.
LEMMA InitInv == Init => Inv
<1> SUFFICES ASSUME Init PROVE Inv
  OBVIOUS
<1>1. TypeOK
  BY CountersStay DEF Init, TypeOK, Locations
<1>2. OrphanInv
  BY DEF Init, OrphanInv
<1>3. ASSUME NEW l \in Leases PROVE LeaseInv(l)
  BY <1>3, NobodyApart DEF Init, LeaseInv, DisposeInHand, OwnsNothingYet, NoLeak,
     ClaimsItsGrants, Claimed
<1>4. QED
  BY <1>1, <1>2, <1>3 DEF Inv

\* Inv is an invariant of the leases.
THEOREM InvHolds == Spec => []Inv
<1>1. Inv /\ [Next]_vars => Inv'
  <2> SUFFICES ASSUME Inv, [Next]_vars PROVE Inv'
    OBVIOUS
  <2>0. OrphanInv'
    BY OrphanStep
  <2>1. ASSUME NEW l \in Leases,
               \/ LeaseNothing(l) \/ (\E S \in SUBSET Rights : SendGrant(l, S))
               \/ Progress(l) \/ Dispose(l)
        PROVE TypeOK' /\ \A m \in Leases : LeaseInv(m)'
    <3>1. TypeOK'
      BY <2>1, GrantTyped, DisposeTyped DEF Progress, Inv
    <3>2. Keeps(l)
      BY <2>1, GrantKeeps, DisposeKeeps DEF Progress
    <3>3. QED
      BY <3>1, <3>2, KeepsAll
  <2>2. ASSUME \/ \E S \in SUBSET Rights : OutsideGrant(S) \/ OutsideRevoke(S)
               \/ \E o \in orphans : ServeOrphan(o)
        PROVE TypeOK' /\ \A m \in Leases : LeaseInv(m)'
    BY <2>2, OthersTyped, OthersKeep DEF Inv
  <2>3. ASSUME UNCHANGED vars
        PROVE TypeOK' /\ \A m \in Leases : LeaseInv(m)'
    <3>1. TypeOK'
      BY <2>3 DEF Inv, vars, lease, TypeOK
    <3>2. ASSUME NEW m \in Leases PROVE LeaseInv(m)'
      BY <2>3, SameFrame, Frame DEF Inv, vars, lease, Still
    <3>3. QED
      BY <3>1, <3>2
  <2>4. QED
    BY <2>0, <2>1, <2>2, <2>3 DEF Next, Inv
<1>2. QED
  BY InitInv, <1>1, PTL DEF Spec

----------------------------------------------------------------------------
(* The properties.                                                         *)

\* Types, and that a closed lease owns nothing.
THEOREM TypeCorrect == Spec => []TypeOK
<1>1. Inv => TypeOK
  BY DEF Inv
<1>2. QED
  BY InvHolds, <1>1, PTL

\* A right a lease put on the user is still its own, or its caller knows.
THEOREM NothingLeaks == Spec => []NoSilentLeak
<1>1. Inv => NoSilentLeak
  BY DEF Inv, LeaseInv, NoLeak, NoSilentLeak, Held
<1>2. QED
  BY InvHolds, <1>1, PTL

\* A lease owns nothing of the user's that it did not grant.
THEOREM OwnGrantsOnly == Spec => []OwnsOnlyItsGrants
<1>1. Inv => OwnsOnlyItsGrants
  <2> SUFFICES ASSUME Inv, NEW l \in Leases, NEW r \in owned[l] \cap Held
               PROVE grantor[r] = l \/ r \in doubt[l]
    BY DEF OwnsOnlyItsGrants
  <2>1. r \in Claimed(l)
    BY DEF Inv, LeaseInv, OwnsNothingYet, Claimed
  <2>2. QED
    BY <2>1 DEF Inv, LeaseInv, ClaimsItsGrants
<1>2. QED
  BY InvHolds, <1>1, PTL

=============================================================================
