------------------------- MODULE ProvisioningProofs -------------------------
(***************************************************************************)
(* Proofs about the scripts that provision a LocalNet.                     *)
(*                                                                         *)
(* Of bring-up-localnet.sh: a changed version starts on volumes no other   *)
(* version has written, and the key tells who wrote the volumes, for any   *)
(* versions and volumes and any number of boots.                           *)
(*                                                                         *)
(* Of the onboarding container: when it says that all is done it is, and a *)
(* Scribe finds its right whenever it is started, for any validators, CI   *)
(* users and PQS slots, and any number of failed and killed checks, late   *)
(* requests, restarts, downs and ups.                                      *)
(***************************************************************************)
EXTENDS BringUp, Onboarding, TLAPS

----------------------------------------------------------------------------
(* bring-up-localnet.sh.                                                   *)

\* A boot that decided to wipe has wiped everything before it starts.
FreshOnceWiped ==
    /\ pc = "reset" /\ previous # current =>
         containers = NoKey /\ \A v \in Volumes : writers[v] = {}
    /\ pc \in {"starting", "started"} /\ previous # current =>
         containers = current /\ \A v \in Volumes : writers[v] \subseteq {current}

\* Containers left behind are of a version the key and the history account for.
ContainersAccounted == keyFile # NoKey /\ containers # NoKey => containers \in {keyFile} \cup unkept

\* The inductive invariant.
BringUpInv == TypeOK /\ FreshOnceWiped /\ ContainersAccounted /\ KeyTellsWriters

\* The bound on boots is kept.
LEMMA BootCounts ==
  /\ 0 \in 0 .. MaxBoots
  /\ \A n \in 0 .. MaxBoots : n < MaxBoots => n + 1 \in 0 .. MaxBoots
<1>1. MaxBoots \in Nat
  BY BringUpAssumption
<1>2. QED
  BY <1>1

\* Before the first boot nothing has been written.
LEMMA BringUpInitHolds == Init => BringUpInv
  BY BootCounts DEF Init, BringUpInv, TypeOK, FreshOnceWiped, ContainersAccounted,
     KeyTellsWriters, Locations

\* Every step keeps the types.
LEMMA TypeStep == ASSUME TypeOK, [Next]_vars PROVE TypeOK'
<1> USE DEF TypeOK, Goto, Locations
<1>1. ASSUME NEW version \in Versions, Boot(version) PROVE TypeOK'
  BY <1>1, BootCounts DEF Boot
<1>2. CASE KeepVolumes
  BY <1>2 DEF KeepVolumes
<1>3. CASE DecideToWipe
  BY <1>3 DEF DecideToWipe
<1>4. CASE RemoveContainers
  BY <1>4 DEF RemoveContainers
<1>5. CASE Wiped
  BY <1>5 DEF Wiped
<1>6. CASE WipeFails
  BY <1>6 DEF WipeFails
<1>7. ASSUME NEW v \in Volumes, RemoveVolume(v) PROVE TypeOK'
  BY <1>7 DEF RemoveVolume
<1>8. ASSUME NEW v \in Volumes, Write(v) PROVE TypeOK'
  BY <1>8 DEF Write
<1>9. CASE Start
  BY <1>9 DEF Start
<1>10. CASE StartSucceeds
  BY <1>10 DEF StartSucceeds
<1>11. CASE StartFails
  BY <1>11 DEF StartFails
<1>12. CASE Record
  BY <1>12 DEF Record
<1>13. CASE Destroy
  BY <1>13 DEF Destroy
<1>14. CASE DeleteKey
  BY <1>14 DEF DeleteKey
<1>15. CASE UNCHANGED vars
  BY <1>15 DEF vars
<1>16. QED
  BY <1>1, <1>2, <1>3, <1>4, <1>5, <1>6, <1>7, <1>8, <1>9, <1>10, <1>11, <1>12,
     <1>13, <1>14, <1>15 DEF Next

\* Every step keeps the rest of the invariant. Record is where the two parts
\* meet: a boot that wiped has only its own writes to account for, and one
\* that did not records the key that was there.
LEMMA AccountStep ==
  ASSUME BringUpInv, [Next]_vars
  PROVE  FreshOnceWiped' /\ ContainersAccounted' /\ KeyTellsWriters'
<1> USE DEF BringUpInv, TypeOK, FreshOnceWiped, ContainersAccounted, KeyTellsWriters, Goto
<1> DEFINE Goal == FreshOnceWiped' /\ ContainersAccounted' /\ KeyTellsWriters'
<1>1. ASSUME NEW version \in Versions, Boot(version) PROVE Goal
  BY <1>1 DEF Boot
<1>2. CASE KeepVolumes
  BY <1>2 DEF KeepVolumes
<1>3. CASE DecideToWipe
  BY <1>3 DEF DecideToWipe
<1>4. CASE RemoveContainers
  BY <1>4 DEF RemoveContainers
<1>5. CASE Wiped
  BY <1>5 DEF Wiped
<1>6. CASE WipeFails
  BY <1>6 DEF WipeFails
<1>7. ASSUME NEW v \in Volumes, RemoveVolume(v) PROVE Goal
  BY <1>7 DEF RemoveVolume
<1>8. ASSUME NEW v \in Volumes, Write(v) PROVE Goal
  BY <1>8 DEF Write
<1>9. CASE Start
  BY <1>9 DEF Start
<1>10. CASE StartSucceeds
  BY <1>10 DEF StartSucceeds
<1>11. CASE StartFails
  BY <1>11 DEF StartFails
<1>12. CASE Record
  BY <1>12, BringUpAssumption DEF Record
<1>13. CASE Destroy
  BY <1>13 DEF Destroy
<1>14. CASE DeleteKey
  BY <1>14 DEF DeleteKey
<1>15. CASE UNCHANGED vars
  BY <1>15 DEF vars
<1>16. QED
  BY <1>1, <1>2, <1>3, <1>4, <1>5, <1>6, <1>7, <1>8, <1>9, <1>10, <1>11, <1>12,
     <1>13, <1>14, <1>15 DEF Next

\* BringUpInv is an invariant of the VM's life.
THEOREM BringUpInvHolds == Spec => []BringUpInv
<1>1. BringUpInv /\ [Next]_vars => BringUpInv'
  BY TypeStep, AccountStep DEF BringUpInv
<1>2. QED
  BY BringUpInitHolds, <1>1, PTL DEF Spec

\* Types, and a key file that stays as read while a server is provisioned.
THEOREM BringUpTypeCorrect == Spec => []TypeOK
<1>1. BringUpInv => TypeOK
  BY DEF BringUpInv
<1>2. QED
  BY BringUpInvHolds, <1>1, PTL

\* A version other than the recorded one starts on volumes of its own.
THEOREM ChangedStartsFresh == Spec => []ChangedVersionStartsFresh
<1>1. BringUpInv => ChangedVersionStartsFresh
  BY DEF BringUpInv, FreshOnceWiped, ChangedVersionStartsFresh
<1>2. QED
  BY BringUpInvHolds, <1>1, PTL

\* The key names the writers, apart from bring-ups that were never recorded.
THEOREM KeyTells == Spec => []KeyTellsWriters
<1>1. BringUpInv => KeyTellsWriters
  BY DEF BringUpInv
<1>2. QED
  BY BringUpInvHolds, <1>1, PTL

----------------------------------------------------------------------------
(* The onboarding: what holds at every step.                               *)

\* What is so once a call was answered with success, whatever was done since.
Achieved(c) ==
    /\ c.op = "grant" => c.user \in present /\ {c.user} \X Granted(c.user) \subseteq rights
    /\ c.op = "import" => realm

\* A section that is marked has had all its calls, and so have the calls of this
\* section before the one the check is at.
SectionsAchieved ==
    /\ \A s \in markers \ {AllDone} : \A k \in DOMAIN Calls(s) : Achieved(Calls(s)[k])
    /\ section \in DOMAIN Program => \A k \in DOMAIN Calls(Current) : k < call => Achieved(Calls(Current)[k])

\* A check leaves no section behind that it has to go through.
Behind(n) == \A k \in DOMAIN Program : k < n => Program[k].name = "auth" \/ Skipped(Program[k])
NoneLeftBehind ==
    /\ Behind(section)
    /\ AllDone \in markers => Behind(Len(Program) + 1)

\* Requests left behind by checks delete one user, which has no rights.
OrphansDelete == \A r \in orphans : r.op = "delete" => r.user[2] = "participant_admin"

\* CI users have the rights of the bundle and no others.
CiBundle == \A user \in Cis : Holds(user) \subseteq CiRights

\* A container that is healthy has finished; a Scribe that was ever started
\* found its right, and it is still there.
ScribesServed ==
    /\ healthy => AllDone \in markers
    /\ pqs \subseteq Range(PqsSlots)
    /\ \A slot \in begun : <<Pqs(slot), "ReadAsAnyParty">> \in rights

SectionNames == {"auth", "cleanup", "migrate", "ci", "dars", "script"}

OnboardingTypes ==
    /\ section \in Nat
    /\ section \in DOMAIN Program => call \in 1 .. Len(Calls(Current))
    /\ section \notin DOMAIN Program \/ Skipped(Current) => call = 1
    /\ \A s \in markers \ {AllDone} : s.name \in SectionNames

OnboardingInv ==
    /\ OnboardingTypes /\ SectionsAchieved /\ NoneLeftBehind /\ OrphansDelete
    /\ CiBundle /\ ScribesServed

----------------------------------------------------------------------------
(* The scripts.                                                            *)

\* The sections of a validator are found by division.
LEMMA FiveEach ==
  ASSUME NEW v \in Nat, NEW i \in 1 .. 5, v # 0
  PROVE  /\ ((5 * (v - 1) + i - 1) % 5) + 1 = i
         /\ ((5 * (v - 1) + i - 1) \div 5) + 1 = v
OBVIOUS

\* So are the calls of a CI user.
LEMMA ThreeEach ==
  ASSUME NEW v \in Nat, v # 0
  PROVE  ((3 * v - 1) % 3) + 1 = 3 /\ ((3 * v - 1) \div 3) + 1 = v
OBVIOUS

\* The program is a sequence of sections; of them are the two of the validator
\* that has the CI users, and the PQS scripts.
LEMMA ProgramSections ==
  /\ DOMAIN Program = 1 .. Len(Program) /\ Len(Program) \in Nat
  /\ \A k \in DOMAIN Program : Program[k].name \in SectionNames
  /\ \E k \in DOMAIN Program : Program[k] = Section("migrate", CiValidator)
  /\ \E k \in DOMAIN Program : Program[k] = Section("ci", CiValidator)
  /\ \A slot \in Range(PqsSlots) : \E k \in DOMAIN Program : Program[k] = Section("script", slot)
<1> DEFINE n == Len(Validators)
           name(k) == ValidatorSections[((k - 1) % 5) + 1]
           of(k) == Validators[((k - 1) \div 5) + 1]
           first == [k \in 1 .. 5 * n |-> Section(name(k), of(k))]
           scripts == [k \in DOMAIN PqsSlots |-> Section("script", PqsSlots[k])]
<1>1. n \in Nat /\ DOMAIN Validators = 1 .. n /\ DOMAIN PqsSlots = 1 .. Len(PqsSlots)
      /\ Len(PqsSlots) \in Nat
  BY OnboardingAssumption
<1>2. Program = first \o scripts
  BY DEF Program
<1>3. PICK v \in 1 .. n : Validators[v] = CiValidator
  BY <1>1, OnboardingAssumption DEF Range
<1>4. \A i \in 1 .. 5 : /\ 5 * (v - 1) + i \in 1 .. 5 * n
                        /\ first[5 * (v - 1) + i] = Section(ValidatorSections[i], CiValidator)
  <2> SUFFICES ASSUME NEW i \in 1 .. 5
               PROVE  /\ 5 * (v - 1) + i \in 1 .. 5 * n
                      /\ first[5 * (v - 1) + i] = Section(ValidatorSections[i], CiValidator)
    OBVIOUS
  <2>1. 5 * (v - 1) + i \in 1 .. 5 * n
    BY <1>1
  <2>2. name(5 * (v - 1) + i) = ValidatorSections[i] /\ of(5 * (v - 1) + i) = CiValidator
    BY <1>1, <1>3, FiveEach
  <2>3. QED
    BY <2>1, <2>2
<1>5. \A k \in 1 .. 5 * n : first[k].name \in SectionNames
  <2> SUFFICES ASSUME NEW k \in 1 .. 5 * n PROVE name(k) \in SectionNames
    BY DEF Section
  <2>1. ((k - 1) % 5) + 1 \in 1 .. 5
    BY <1>1
  <2>2. QED
    BY <2>1 DEF ValidatorSections, SectionNames
<1>6. DOMAIN scripts = 1 .. Len(PqsSlots)
      /\ \A k \in DOMAIN scripts : scripts[k] = Section("script", PqsSlots[k])
  BY <1>1
<1>7. DOMAIN first = 1 .. 5 * n /\ 5 * n \in Nat
  BY <1>1
<1> HIDE DEF first, scripts, name, of
<1>8. /\ DOMAIN Program = 1 .. 5 * n + Len(PqsSlots) /\ Len(Program) = 5 * n + Len(PqsSlots)
      /\ \A k \in 1 .. 5 * n : Program[k] = first[k]
      /\ \A k \in 1 .. Len(PqsSlots) : Program[5 * n + k] = scripts[k]
  <2> DEFINE S == {first[k] : k \in DOMAIN first} \cup {scripts[k] : k \in DOMAIN scripts}
  <2>1. first \in Seq(S) /\ scripts \in Seq(S) /\ Len(first) = 5 * n /\ Len(scripts) = Len(PqsSlots)
    BY <1>1, <1>6, <1>7 DEF first, scripts
  <2> HIDE DEF S
  <2>2. QED
    <3>1. Len(first \o scripts) = 5 * n + Len(PqsSlots)
          /\ DOMAIN (first \o scripts) = 1 .. 5 * n + Len(PqsSlots)
      BY <2>1
    <3>2. \A k \in 1 .. 5 * n : (first \o scripts)[k] = first[k]
      BY <1>1, <1>7, <2>1, <3>1
    <3>3. ASSUME NEW k \in 1 .. Len(PqsSlots)
          PROVE  (first \o scripts)[5 * n + k] = scripts[k]
      BY <1>1, <1>7, <2>1, <3>1
    <3>4. QED
      BY <1>2, <3>1, <3>2, <3>3
<1>9. \A k \in DOMAIN Program : Program[k].name \in SectionNames
  <2> SUFFICES ASSUME NEW k \in DOMAIN Program PROVE Program[k].name \in SectionNames
    OBVIOUS
  <2>1. CASE k <= 5 * n
    BY <1>1, <1>5, <1>8, <2>1
  <2>2. CASE k > 5 * n
    <3>1. k - 5 * n \in 1 .. Len(PqsSlots) /\ k = 5 * n + (k - 5 * n)
      BY <1>1, <1>8, <2>2
    <3>2. Program[k] = Section("script", PqsSlots[k - 5 * n])
      BY <1>6, <1>8, <3>1
    <3>3. QED
      BY <3>2 DEF Section, SectionNames
  <2>3. QED
    BY <1>1, <1>8, <2>1, <2>2
<1>10. \A i \in 1 .. 5 : \E k \in DOMAIN Program : Program[k] = Section(ValidatorSections[i], CiValidator)
  <2> SUFFICES ASSUME NEW i \in 1 .. 5
               PROVE  \E k \in DOMAIN Program : Program[k] = Section(ValidatorSections[i], CiValidator)
    OBVIOUS
  <2>1. 5 * (v - 1) + i \in 1 .. 5 * n /\ 5 * (v - 1) + i \in DOMAIN Program
    BY <1>1, <1>4, <1>8
  <2>2. QED
    BY <1>4, <1>8, <2>1
<1>11. ValidatorSections[3] = "migrate" /\ ValidatorSections[4] = "ci"
  BY DEF ValidatorSections
<1>12. \A slot \in Range(PqsSlots) : \E k \in DOMAIN Program : Program[k] = Section("script", slot)
  <2> SUFFICES ASSUME NEW slot \in Range(PqsSlots)
               PROVE  \E k \in DOMAIN Program : Program[k] = Section("script", slot)
    OBVIOUS
  <2>1. PICK i \in 1 .. Len(PqsSlots) : PqsSlots[i] = slot
    BY <1>1 DEF Range
  <2>2. 5 * n + i \in DOMAIN Program /\ Program[5 * n + i] = Section("script", slot)
    BY <1>1, <1>6, <1>8, <2>1
  <2>3. QED
    BY <2>2
<1>13. QED
  BY <1>1, <1>8, <1>9, <1>10, <1>11, <1>12

\* The calls of a section are a sequence. A user that is deleted is granted
\* nothing.
LEMMA SectionCalls ==
  ASSUME NEW s, s.name \in SectionNames
  PROVE  /\ Len(Calls(s)) \in Nat \ {0} /\ DOMAIN Calls(s) = 1 .. Len(Calls(s))
         /\ \A k \in DOMAIN Calls(s) :
              /\ Calls(s)[k].op = "delete" => Calls(s)[k].user[2] = "participant_admin"
              /\ Calls(s)[k].op = "grant" => Calls(s)[k].user[2] # "participant_admin"
<1> DEFINE Shaped(calls) ==
      /\ Len(calls) \in Nat \ {0} /\ DOMAIN calls = 1 .. Len(calls)
      /\ \A k \in DOMAIN calls :
           /\ calls[k].op = "delete" => calls[k].user[2] = "participant_admin"
           /\ calls[k].op = "grant" => calls[k].user[2] # "participant_admin"
<1>1. CASE s.name = "auth"
  <2>1. Calls(s) = <<Call("token", User(s.slot, "validator")), Call("party", User(s.slot, "validator"))>>
    BY <1>1 DEF Calls
  <2>2. QED
    BY <2>1 DEF Call
<1>2. CASE s.name = "cleanup"
  <2> DEFINE updates == <<Call("update", User(s.slot, "wallet")), Call("update", User(s.slot, "validator"))>>
             delete == Delete(Admin(s.slot))
             S == {updates[1], updates[2], delete[1], delete[2]}
  <2>1. Calls(s) = updates \o delete
    BY <1>2 DEF Calls
  <2>2. \A c \in S : /\ c.op = "delete" => c.user[2] = "participant_admin"
                     /\ c.op # "grant"
    BY DEF Delete, Call, Admin, User
  <2>3. updates \in Seq(S) /\ delete \in Seq(S)
    BY DEF Delete
  <2>4. Len(updates) = 2 /\ Len(delete) = 2
    BY DEF Delete
  <2> HIDE DEF updates, delete, S
  <2>5. updates \o delete \in Seq(S)
    BY <2>3
  <2>6. Len(updates \o delete) = Len(updates) + Len(delete)
    BY <2>3
  <2>7. QED
    BY <2>1, <2>2, <2>4, <2>5, <2>6
<1>3. CASE s.name = "migrate"
  <2>1. Calls(s) = <<Call("login", Keycloak), Call("import", Keycloak)>>
    BY <1>3 DEF Calls
  <2>2. QED
    BY <2>1 DEF Call
<1>4. CASE s.name = "ci"
  <2>1. Calls(s) = OnboardAll
    BY <1>4 DEF Calls
  <2>2. Shaped(OnboardAll)
    <3> DEFINE n == 3 * Len(CiUsers)
    <3>1. Len(CiUsers) \in Nat \ {0} /\ DOMAIN CiUsers = 1 .. Len(CiUsers) /\ n \in Nat \ {0}
          /\ \A i \in DOMAIN CiUsers : CiUsers[i] # "participant_admin"
      <4>1. \A i \in DOMAIN CiUsers : CiUsers[i] \in Range(CiUsers)
        BY DEF Range
      <4>2. "participant_admin" \notin Range(CiUsers) /\ CiUsers \in Seq(Range(CiUsers)) /\ CiUsers # <<>>
        BY OnboardingAssumption
      <4>3. QED
        BY <4>1, <4>2
    <3>2. DOMAIN OnboardAll = 1 .. n /\ Len(OnboardAll) = n
      BY <3>1 DEF OnboardAll
    <3>3. ASSUME NEW k \in 1 .. n
          PROVE  /\ OnboardAll[k].op # "delete"
                 /\ OnboardAll[k].user[2] # "participant_admin"
      <4> DEFINE i == ((k - 1) \div 3) + 1
                 j == ((k - 1) % 3) + 1
      <4>1. i \in 1 .. Len(CiUsers) /\ j \in 1 .. 3
        BY <3>1
      <4>2. OnboardAll[k] = Onboard(CiUser(i))[j]
        BY <3>1 DEF OnboardAll
      <4> HIDE DEF i, j
      <4>3. Onboard(CiUser(i))[j].op # "delete" /\ Onboard(CiUser(i))[j].user = CiUser(i)
        BY <4>1 DEF Onboard, Call
      <4>4. QED
        BY <3>1, <4>1, <4>2, <4>3 DEF CiUser, User
    <3>4. QED
      BY <3>1, <3>2, <3>3
  <2>3. QED
    BY <2>1, <2>2
<1>5. CASE s.name = "dars"
  <2>1. Calls(s) = <<Call("discover", User(s.slot, "validator"))>>
    BY <1>5 DEF Calls
  <2>2. QED
    BY <2>1 DEF Call
<1>6. CASE s.name = "script"
  <2>1. Calls(s) = Onboard(Pqs(s.slot))
    BY <1>6 DEF Calls
  <2>2. QED
    BY <2>1 DEF Onboard, Call, Pqs, User
<1>7. QED
  BY <1>1, <1>2, <1>3, <1>4, <1>5, <1>6 DEF SectionNames


----------------------------------------------------------------------------
(* The steps.                                                              *)

\* The volumes keep what the checks put on them.
VolumesKeep ==
    /\ \A user \in present : user[2] # "participant_admin" => user \in present'
    /\ rights \subseteq rights' /\ (realm => realm')
    /\ CiBundle'

\* Whatever is served, the volumes keep what was achieved.
LEMMA ServedKeeps ==
  ASSUME CiBundle, NEW r, r.op = "delete" => r.user[2] = "participant_admin", Served(r)
  PROVE  VolumesKeep
<1>1. \A user \in present : user[2] # "participant_admin" => user \in present'
  BY DEF Served
<1>2. rights \subseteq rights' /\ (realm => realm')
  BY DEF Served
<1>3. CiBundle'
  <2> SUFFICES ASSUME NEW user \in Cis, NEW right \in CiRights \cup PqsRights, <<user, right>> \in rights'
               PROVE  right \in CiRights
    BY DEF CiBundle, Holds
  <2>1. CASE <<user, right>> \in rights
    BY <2>1 DEF CiBundle, Holds
  <2>2. CASE user = r.user /\ right \in Granted(r.user)
    BY <2>2 DEF Granted
  <2>3. QED
    BY <2>1, <2>2 DEF Served
<1>4. QED
  BY <1>1, <1>2, <1>3 DEF VolumesKeep

\* So do volumes nothing is served on.
LEMMA UnchangedKeeps == ASSUME CiBundle, UNCHANGED volumes PROVE VolumesKeep
BY DEF VolumesKeep, volumes, CiBundle, Holds

\* What was achieved stays so on volumes that keep it.
LEMMA AchievedStays ==
  ASSUME VolumesKeep, NEW c, c.op = "grant" => c.user[2] # "participant_admin", Achieved(c)
  PROVE  Achieved(c)'
BY DEF Achieved, VolumesKeep

\* What the marked sections achieved stays so.
LEMMA MarkedStays ==
  ASSUME OnboardingTypes, SectionsAchieved, VolumesKeep,
         NEW s \in markers \ {AllDone}, NEW k \in DOMAIN Calls(s)
  PROVE  Achieved(Calls(s)[k])'
<1>1. s.name \in SectionNames /\ Achieved(Calls(s)[k])
  BY DEF OnboardingTypes, SectionsAchieved
<1>2. Calls(s)[k].op = "grant" => Calls(s)[k].user[2] # "participant_admin"
  BY <1>1, SectionCalls
<1>3. QED
  BY <1>1, <1>2, AchievedStays

\* Where a check is, there is a call, of which the scripts say what it is.
LEMMA SentCall ==
  ASSUME OnboardingTypes, section \in DOMAIN Program
  PROVE  /\ Current.name \in SectionNames /\ Current # AllDone
         /\ Len(Calls(Current)) \in Nat \ {0} /\ DOMAIN Calls(Current) = 1 .. Len(Calls(Current))
         /\ call \in DOMAIN Calls(Current)
         /\ Sent.op = "delete" => Sent.user[2] = "participant_admin"
         /\ Sent.op = "grant" => Sent.user[2] # "participant_admin"
<1>1. Current.name \in SectionNames
  BY ProgramSections DEF Current
<1>2. Current # AllDone
  BY <1>1 DEF SectionNames, AllDone, Section
<1>3. QED
  BY <1>1, <1>2, SectionCalls DEF OnboardingTypes, Sent

\* The check goes on to the next call, or the next section.
LEMMA AdvanceKeeps ==
  ASSUME OnboardingInv, InSection, Advance, VolumesKeep,
         NEW s \in {Current}, NEW n \in {call}, Achieved(Calls(s)[n])',
         UNCHANGED <<pqs, healthy, begun, orphans>>
  PROVE  OnboardingInv'
<1>1. /\ section \in DOMAIN Program /\ ~Skipped(Current)
      /\ section \in Nat /\ DOMAIN Program = 1 .. Len(Program) /\ Len(Program) \in Nat
  BY ProgramSections DEF InSection, OnboardingInv, OnboardingTypes
<1>2. /\ s = Current /\ n = call
      /\ s.name \in SectionNames /\ s # AllDone
      /\ Len(Calls(s)) \in Nat \ {0} /\ DOMAIN Calls(s) = 1 .. Len(Calls(s))
      /\ n \in DOMAIN Calls(s)
  BY <1>1, SentCall DEF OnboardingInv
<1>3. \A t \in markers \ {AllDone} : \A k \in DOMAIN Calls(t) : Achieved(Calls(t)[k])'
  BY MarkedStays DEF OnboardingInv
<1>4. \A k \in DOMAIN Calls(s) : k <= n => Achieved(Calls(s)[k])'
  <2> SUFFICES ASSUME NEW k \in DOMAIN Calls(s), k < n
               PROVE  Achieved(Calls(s)[k])'
    BY <1>2
  <2>1. Achieved(Calls(s)[k])
    BY <1>1, <1>2 DEF OnboardingInv, SectionsAchieved
  <2>2. Calls(s)[k].op = "grant" => Calls(s)[k].user[2] # "participant_admin"
    BY <1>2, SectionCalls
  <2>3. QED
    BY <2>1, <2>2, AchievedStays
<1>5. OrphansDelete' /\ CiBundle' /\ ScribesServed'
  <2>1. AllDone \in markers => AllDone \in markers'
    BY DEF Advance
  <2>2. QED
    BY <2>1 DEF OnboardingInv, OrphansDelete, ScribesServed, VolumesKeep
<1>6. CASE n < Len(Calls(s))
  <2>1. call' = n + 1 /\ section' = section /\ markers' = markers
    BY <1>2, <1>6 DEF Advance
  <2>2. Current' = s /\ ~Skipped(s)'
    BY <1>1, <1>2, <2>1 DEF Current, Skipped, Missing
  <2>3. OnboardingTypes'
    BY <1>1, <1>2, <1>6, <2>1, <2>2 DEF OnboardingInv, OnboardingTypes
  <2>4. SectionsAchieved'
    <3>1. \A k \in DOMAIN Calls(s) : k < n + 1 => Achieved(Calls(s)[k])'
      BY <1>2, <1>4
    <3>2. QED
      BY <1>1, <1>3, <2>1, <2>2, <3>1 DEF SectionsAchieved
  <2>5. NoneLeftBehind'
    BY <2>1 DEF OnboardingInv, NoneLeftBehind, Behind, Skipped, Missing
  <2>6. QED
    BY <1>5, <2>3, <2>4, <2>5 DEF OnboardingInv
<1>7. CASE ~(n < Len(Calls(s)))
  <2>1. /\ section' = section + 1 /\ call' = 1
        /\ markers' = IF s.name = "auth" THEN markers ELSE markers \cup {s}
    BY <1>2, <1>7 DEF Advance
  <2>2. \A k \in DOMAIN Calls(s) : Achieved(Calls(s)[k])'
    BY <1>2, <1>4, <1>7
  <2>3. OnboardingTypes'
    <3>1. section' \in DOMAIN Program => Len(Calls(Current')) \in Nat \ {0}
      BY ProgramSections, SectionCalls DEF Current
    <3>2. QED
      BY <1>1, <1>2, <2>1, <3>1 DEF OnboardingInv, OnboardingTypes
  <2>4. SectionsAchieved'
    <3>1. \A t \in markers' \ {AllDone} : \A k \in DOMAIN Calls(t) : Achieved(Calls(t)[k])'
      BY <1>3, <2>1, <2>2
    <3>2. section' \in DOMAIN Program => \A k \in DOMAIN Calls(Current') : ~(k < call')
      <4>1. section' \in DOMAIN Program => DOMAIN Calls(Current') = 1 .. Len(Calls(Current'))
                                            /\ Len(Calls(Current')) \in Nat
        BY ProgramSections, SectionCalls DEF Current
      <4>2. QED
        BY <2>1, <4>1
    <3>3. QED
      BY <3>1, <3>2 DEF SectionsAchieved
  <2>5. NoneLeftBehind'
    <3>1. markers \subseteq markers' /\ (AllDone \in markers' => AllDone \in markers)
      BY <1>2, <2>1
    <3>2. \A t : Skipped(t) => Skipped(t)'
      BY <3>1 DEF Skipped, Missing
    <3>3. \A k : Behind(k) => Behind(k)'
      BY <3>2 DEF Behind
    <3>4. ASSUME NEW k \in DOMAIN Program, k < section + 1
          PROVE  Program[k].name = "auth" \/ Skipped(Program[k])'
      <4>1. CASE k < section
        BY <3>2, <3>4, <4>1 DEF OnboardingInv, NoneLeftBehind, Behind
      <4>2. CASE k = section
        BY <1>2, <2>1, <4>2 DEF Current, Skipped
      <4>3. QED
        BY <1>1, <3>4, <4>1, <4>2
    <3>5. QED
      <4>1. Behind(section)'
        BY <2>1, <3>4 DEF Behind
      <4>2. (AllDone \in markers)' => Behind(Len(Program) + 1)'
        BY <3>1, <3>3 DEF OnboardingInv, NoneLeftBehind
      <4>3. QED
        BY <4>1, <4>2 DEF NoneLeftBehind
  <2>6. QED
    BY <1>5, <2>3, <2>4, <2>5 DEF OnboardingInv
<1>8. QED
  BY <1>6, <1>7

\* The check ends; its container may be made anew, and the volumes with it.
LEMMA EndKeeps ==
  ASSUME OnboardingInv, section' = 0, call' = 1, OrphansDelete', pqs' \subseteq Range(PqsSlots),
         \/ UNCHANGED <<pqs, markers>> /\ (healthy' => healthy)
         \/ markers' = {} /\ ~healthy',
         \/ VolumesKeep /\ begun' = begun
         \/ CiBundle' /\ begun' = {} /\ markers' = {}
  PROVE  OnboardingInv'
<1>1. 0 \notin DOMAIN Program /\ \A k \in DOMAIN Program : ~(k < 0)
  BY ProgramSections
<1>2. OnboardingTypes'
  BY <1>1 DEF OnboardingInv, OnboardingTypes
<1>3. SectionsAchieved'
  <2>1. \A s \in markers' \ {AllDone} : \A k \in DOMAIN Calls(s) : Achieved(Calls(s)[k])'
    BY MarkedStays DEF OnboardingInv
  <2>2. QED
    BY <1>1, <2>1 DEF SectionsAchieved
<1>4. NoneLeftBehind'
  BY <1>1 DEF OnboardingInv, NoneLeftBehind, Behind, Skipped, Missing
<1>5. CiBundle' /\ ScribesServed'
  BY DEF OnboardingInv, ScribesServed, VolumesKeep
<1>6. QED
  BY <1>2, <1>3, <1>4, <1>5 DEF OnboardingInv

\* A call fails: the check ends, or goes on without what it asked for.
LEMMA GoesOnKeeps ==
  ASSUME OnboardingInv, InSection, GoesOnWithout, VolumesKeep,
         UNCHANGED <<pqs, healthy, begun, orphans>>
  PROVE  OnboardingInv'
<1>1. CASE Sent.op \in {"token", "party", "look"}
  <2>1. Advance
    BY <1>1 DEF GoesOnWithout
  <2>2. PICK s \in {Current}, n \in {call} : TRUE
    OBVIOUS
  <2>3. Calls(s)[n].op \notin {"grant", "import"}
    BY <1>1, <2>2 DEF Sent
  <2>4. Achieved(Calls(s)[n])'
    BY <2>3 DEF Achieved
  <2>5. QED
    BY <2>1, <2>4, AdvanceKeeps
<1>2. CASE Sent.op \notin {"token", "party", "look"}
  <2>1. Exits
    BY <1>2 DEF GoesOnWithout
  <2>2. OrphansDelete' /\ pqs' \subseteq Range(PqsSlots)
    BY DEF OnboardingInv, OrphansDelete, ScribesServed
  <2>3. QED
    BY <2>1, <2>2, EndKeeps DEF Exits
<1>3. QED
  BY <1>1, <1>2

\* What a check that ends leaves behind are calls of its section.
LEMMA CutOffOrphans ==
  ASSUME OnboardingInv, NEW last, CutOff(last), last \in {call, LastCall}
  PROVE  OrphansDelete'
<1>1. CASE UNCHANGED orphans
  BY <1>1 DEF OnboardingInv, OrphansDelete
<1>2. CASE InSection /\ orphans' \subseteq orphans \cup {Requested(Calls(Current)[k]) : k \in call .. last}
  <2>1. /\ Current.name \in SectionNames /\ call \in DOMAIN Calls(Current)
        /\ Len(Calls(Current)) \in Nat /\ DOMAIN Calls(Current) = 1 .. Len(Calls(Current))
    BY <1>2, SentCall DEF OnboardingInv, InSection
  <2>2. \A k \in call .. last : k \in DOMAIN Calls(Current)
    BY <2>1 DEF LastCall
  <2>3. \A k \in call .. last : Requested(Calls(Current)[k]).op = "delete" =>
            Requested(Calls(Current)[k]).user[2] = "participant_admin"
    BY <2>1, <2>2, SectionCalls DEF Requested
  <2>4. QED
    BY <1>2, <2>3 DEF OnboardingInv, OrphansDelete
<1>3. QED
  BY <1>1, <1>2 DEF CutOff

\* The steps of a check.
LEMMA CheckStep ==
  ASSUME OnboardingInv, Check
  PROVE  OnboardingInv'
<1> USE DEF Checks, scribing
<1>1. CASE Begin
  <2>1. section = 0 /\ UNCHANGED <<volumes, call, pqs, markers, orphans, begun>>
    BY <1>1 DEF Begin
  <2>2. \/ section' = 0 /\ healthy' /\ AllDone \in markers
        \/ section' = 1 /\ healthy' = healthy
    BY <1>1 DEF Begin
  <2>3. call = 1
    BY <2>1, ProgramSections DEF OnboardingInv, OnboardingTypes
  <2>4. \A k \in DOMAIN Program : ~(k < section')
    BY <2>2, ProgramSections
  <2>5. OnboardingTypes'
    <3>1. section' \in DOMAIN Program => Len(Calls(Current')) \in Nat \ {0}
      BY ProgramSections, SectionCalls DEF Current
    <3>2. QED
      BY <2>1, <2>2, <2>3, <3>1 DEF OnboardingInv, OnboardingTypes
  <2>6. SectionsAchieved'
    <3>1. \A s \in markers' \ {AllDone} : \A k \in DOMAIN Calls(s) : Achieved(Calls(s)[k])'
      BY <2>1, UnchangedKeeps, MarkedStays DEF OnboardingInv
    <3>2. section' \in DOMAIN Program => \A k \in DOMAIN Calls(Current') : ~(k < 1)
      BY ProgramSections, SectionCalls DEF Current
    <3>3. QED
      BY <2>1, <2>3, <3>1, <3>2 DEF SectionsAchieved
  <2>7. NoneLeftBehind'
    BY <2>1, <2>4 DEF OnboardingInv, NoneLeftBehind, Behind, Skipped, Missing
  <2>8. OrphansDelete' /\ CiBundle' /\ ScribesServed'
    BY <2>1, <2>2 DEF OnboardingInv, OrphansDelete, CiBundle, Holds, ScribesServed, volumes
  <2>9. QED
    BY <2>5, <2>6, <2>7, <2>8 DEF OnboardingInv
<1>2. CASE Skip
  <2>1. /\ section \in DOMAIN Program /\ Skipped(Current) /\ section' = section + 1
        /\ UNCHANGED <<volumes, call, pqs, markers, healthy, orphans, begun>>
    BY <1>2 DEF Skip
  <2>2. call = 1 /\ section \in Nat
    BY <2>1 DEF OnboardingInv, OnboardingTypes
  <2>3. OnboardingTypes'
    <3>1. section' \in DOMAIN Program => Len(Calls(Current')) \in Nat \ {0}
      BY ProgramSections, SectionCalls DEF Current
    <3>2. QED
      BY <2>1, <2>2, <3>1 DEF OnboardingInv, OnboardingTypes
  <2>4. SectionsAchieved'
    <3>1. \A s \in markers' \ {AllDone} : \A k \in DOMAIN Calls(s) : Achieved(Calls(s)[k])'
      BY <2>1, UnchangedKeeps, MarkedStays DEF OnboardingInv
    <3>2. section' \in DOMAIN Program => \A k \in DOMAIN Calls(Current') : ~(k < 1)
      BY ProgramSections, SectionCalls DEF Current
    <3>3. QED
      BY <2>1, <2>2, <3>1, <3>2 DEF SectionsAchieved
  <2>5. NoneLeftBehind'
    <3>1. \A k \in DOMAIN Program : k < section + 1 =>
            Program[k].name = "auth" \/ Skipped(Program[k])
      BY <2>1, <2>2, ProgramSections DEF OnboardingInv, NoneLeftBehind, Behind, Current
    <3>2. QED
      BY <2>1, <3>1 DEF OnboardingInv, NoneLeftBehind, Behind, Skipped, Missing
  <2>6. OrphansDelete' /\ CiBundle' /\ ScribesServed'
    BY <2>1 DEF OnboardingInv, OrphansDelete, CiBundle, Holds, ScribesServed, volumes
  <2>7. QED
    BY <2>3, <2>4, <2>5, <2>6 DEF OnboardingInv
<1>3. CASE Omit
  <2>1. InSection /\ Advance /\ UNCHANGED <<volumes, pqs, healthy, begun, orphans>>
    BY <1>3 DEF Omit
  <2>2. VolumesKeep
    BY <2>1, UnchangedKeeps DEF OnboardingInv
  <2>3. PICK s \in {Current}, n \in {call} : TRUE
    OBVIOUS
  <2>4. Calls(s)[n].op \notin {"grant", "import"}
    BY <1>3, <2>3 DEF Omit, Omitted, Sent
  <2>5. Achieved(Calls(s)[n])'
    BY <2>4 DEF Achieved
  <2>6. QED
    BY <2>1, <2>2, <2>5, AdvanceKeeps
<1>4. CASE Answered
  <2>1. InSection /\ Accepted(Request) /\ Served(Request) /\ Advance
        /\ UNCHANGED <<pqs, healthy, begun, orphans>>
    BY <1>4 DEF Answered
  <2>2. Request.op = Sent.op /\ Request.user = Sent.user
    BY DEF Request, Requested
  <2>3. VolumesKeep
    BY <2>1, <2>2, SentCall, ServedKeeps DEF OnboardingInv, InSection
  <2>4. PICK s \in {Current}, n \in {call} : TRUE
    OBVIOUS
  <2>5. Calls(s)[n] = Sent
    BY <2>4 DEF Sent
  <2>6. Achieved(Calls(s)[n])'
    <3>1. Sent.op = "grant" => Sent.user \in present' /\ {Sent.user} \X Granted(Sent.user) \subseteq rights'
      BY <2>1, <2>2 DEF Accepted, Served
    <3>2. Sent.op = "import" => realm'
      BY <2>1, <2>2 DEF Served
    <3>3. QED
      BY <2>5, <3>1, <3>2 DEF Achieved
  <2>7. QED
    BY <2>1, <2>3, <2>6, AdvanceKeeps
<1>5. CASE Refused
  <2>1. InSection /\ GoesOnWithout /\ UNCHANGED <<volumes, pqs, healthy, begun, orphans>>
    BY <1>5 DEF Refused
  <2>2. QED
    BY <2>1, UnchangedKeeps, GoesOnKeeps DEF OnboardingInv
<1>6. CASE Finish
  <2>1. /\ section = Len(Program) + 1 /\ section' = 0 /\ call' = 1
        /\ markers' = markers \cup {AllDone}
        /\ UNCHANGED <<volumes, pqs, orphans, begun>>
    BY <1>6 DEF Finish
  <2>2. 0 \notin DOMAIN Program /\ \A k \in DOMAIN Program : ~(k < 0)
    BY ProgramSections
  <2>3. OnboardingTypes'
    BY <2>1, <2>2 DEF OnboardingInv, OnboardingTypes
  <2>4. SectionsAchieved'
    <3>1. \A s \in markers' \ {AllDone} : \A k \in DOMAIN Calls(s) : Achieved(Calls(s)[k])'
      BY <2>1, UnchangedKeeps, MarkedStays DEF OnboardingInv
    <3>2. QED
      BY <2>1, <2>2, <3>1 DEF SectionsAchieved
  <2>5. NoneLeftBehind'
    <3>1. Behind(Len(Program) + 1)
      BY <2>1 DEF OnboardingInv, NoneLeftBehind
    <3>2. QED
      BY <2>1, <2>2, <3>1 DEF NoneLeftBehind, Behind, Skipped, Missing
  <2>6. OrphansDelete' /\ CiBundle' /\ ScribesServed'
    BY <2>1 DEF OnboardingInv, OrphansDelete, CiBundle, Holds, ScribesServed, volumes
  <2>7. QED
    BY <2>3, <2>4, <2>5, <2>6 DEF OnboardingInv
<1>7. QED
  BY <1>1, <1>2, <1>3, <1>4, <1>5, <1>6 DEF Check

\* A container that has finished has onboarded everybody.
LEMMA FinishedMeansOnboarded ==
  ASSUME OnboardingInv
  PROVE  /\ AllDone \in markers =>
              /\ realm
              /\ \A user \in Cis : user \in present /\ Holds(user) = CiRights
              /\ \A slot \in pqs : Pqs(slot) \in present /\ PqsRights \subseteq Holds(Pqs(slot))
         /\ \A slot \in pqs : healthy => <<Pqs(slot), "ReadAsAnyParty">> \in rights
<1>1. ASSUME AllDone \in markers, NEW k \in DOMAIN Program, Program[k].name # "auth",
             ~Missing(Program[k]), NEW c \in DOMAIN Calls(Program[k])
      PROVE  Achieved(Calls(Program[k])[c])
  <2>1. k < Len(Program) + 1
    BY <1>1, ProgramSections
  <2>2. Program[k] \in markers
    BY <1>1, <2>1 DEF OnboardingInv, NoneLeftBehind, Behind, Skipped
  <2>3. Program[k] # AllDone
    BY <1>1, ProgramSections DEF SectionNames, AllDone, Section
  <2>4. QED
    BY <1>1, <2>2, <2>3 DEF OnboardingInv, SectionsAchieved
<1>2. ASSUME AllDone \in markers PROVE realm
  <2>1. PICK k \in DOMAIN Program : Program[k] = Section("migrate", CiValidator)
    BY ProgramSections
  <2>2. Calls(Program[k]) = <<Call("login", Keycloak), Call("import", Keycloak)>>
    BY <2>1 DEF Calls, Section
  <2>3. Program[k].name # "auth" /\ ~Missing(Program[k])
    BY <2>1 DEF Section, Missing
  <2>4. 2 \in DOMAIN Calls(Program[k]) /\ Calls(Program[k])[2].op = "import"
    BY <2>2 DEF Call
  <2>5. QED
    BY <1>1, <1>2, <2>3, <2>4 DEF Achieved
<1>3. ASSUME AllDone \in markers, NEW user \in Cis
      PROVE  user \in present /\ Holds(user) = CiRights
  <2>1. PICK k \in DOMAIN Program : Program[k] = Section("ci", CiValidator)
    BY ProgramSections
  <2>2. PICK i \in DOMAIN CiUsers : user = CiUser(i)
    BY <1>3 DEF Cis
  <2>3. i \in Nat /\ i # 0 /\ i <= Len(CiUsers) /\ Len(CiUsers) \in Nat
    BY OnboardingAssumption
  <2>4. Program[k].name # "auth" /\ ~Missing(Program[k]) /\ Calls(Program[k]) = OnboardAll
    BY <2>1 DEF Section, Missing, Calls
  <2>5. 3 * i \in DOMAIN OnboardAll
    BY <2>3 DEF OnboardAll
  <2>6. OnboardAll[3 * i] = Onboard(CiUser(i))[3]
    BY <2>3, <2>5, ThreeEach DEF OnboardAll
  <2>7. OnboardAll[3 * i].op = "grant" /\ OnboardAll[3 * i].user = user
    BY <2>2, <2>6 DEF Onboard, Call
  <2>8. user \in present /\ {user} \X Granted(user) \subseteq rights
    BY <1>1, <1>3, <2>4, <2>5, <2>7 DEF Achieved
  <2>9. CiRights \subseteq Holds(user) /\ Holds(user) \subseteq CiRights
    BY <1>3, <2>8 DEF Granted, Holds, OnboardingInv, CiBundle
  <2>10. QED
    BY <2>8, <2>9
<1>4. ASSUME AllDone \in markers, NEW slot \in pqs
      PROVE  Pqs(slot) \in present /\ PqsRights \subseteq Holds(Pqs(slot))
  <2>1. slot \in Range(PqsSlots)
    BY <1>4 DEF OnboardingInv, ScribesServed
  <2>2. PICK k \in DOMAIN Program : Program[k] = Section("script", slot)
    BY <2>1, ProgramSections
  <2>3. /\ Program[k].name # "auth" /\ ~Missing(Program[k])
        /\ Calls(Program[k]) = Onboard(Pqs(slot))
    BY <1>4, <2>2 DEF Section, Missing, Calls
  <2>4. 3 \in DOMAIN Calls(Program[k]) /\ Calls(Program[k])[3] = Call("grant", Pqs(slot))
    BY <2>3 DEF Onboard
  <2>5. Pqs(slot) \in present /\ {Pqs(slot)} \X Granted(Pqs(slot)) \subseteq rights
    BY <1>1, <1>4, <2>3, <2>4 DEF Achieved, Call
  <2>6. Pqs(slot) \notin Cis
    <3>1. \A i \in DOMAIN CiUsers : CiUsers[i] \in Range(CiUsers)
      BY DEF Range
    <3>2. "pqs" \notin Range(CiUsers)
      BY OnboardingAssumption
    <3>3. QED
      BY <3>1, <3>2 DEF Pqs, Cis, CiUser, User
  <2>7. QED
    BY <2>5, <2>6 DEF Granted, Holds
<1>5. ASSUME NEW slot \in pqs, healthy PROVE <<Pqs(slot), "ReadAsAnyParty">> \in rights
  <2>1. AllDone \in markers
    BY <1>5 DEF OnboardingInv, ScribesServed
  <2>2. "ReadAsAnyParty" \in Holds(Pqs(slot))
    BY <1>4, <1>5, <2>1 DEF PqsRights
  <2>3. QED
    BY <2>2 DEF Holds
<1>6. QED
  BY <1>2, <1>3, <1>4, <1>5

\* Calls that fail, checks that are killed, requests that are served late.
LEMMA FaultStep ==
  ASSUME OnboardingInv, CallFails \/ Killed \/ ServeOrphan
  PROVE  OnboardingInv'
<1> USE DEF Checks, scribing
<1>1. CASE CallFails
  <2>1. InSection /\ GoesOnWithout /\ UNCHANGED <<pqs, healthy, begun, orphans>>
    BY <1>1 DEF CallFails
  <2>2. CASE Served(Request)
    <3>1. Request.op = Sent.op /\ Request.user = Sent.user
      BY DEF Request, Requested
    <3>2. VolumesKeep
      BY <2>1, <2>2, <3>1, SentCall, ServedKeeps DEF OnboardingInv, InSection
    <3>3. QED
      BY <2>1, <3>2, GoesOnKeeps
  <2>3. CASE UNCHANGED volumes
    BY <2>1, <2>3, UnchangedKeeps, GoesOnKeeps DEF OnboardingInv
  <2>4. QED
    BY <1>1, <2>2, <2>3 DEF CallFails
<1>2. CASE Killed
  <2>1. /\ CutOff(LastCall) /\ Exits
        /\ UNCHANGED <<volumes, pqs, healthy, begun>>
    BY <1>2 DEF Killed
  <2>2. OrphansDelete' /\ VolumesKeep
    BY <2>1, CutOffOrphans, UnchangedKeeps DEF OnboardingInv
  <2>3. QED
    BY <2>1, <2>2, EndKeeps DEF Exits, OnboardingInv, ScribesServed
<1>3. CASE ServeOrphan
  <2>1. PICK r \in orphans : /\ orphans' = orphans \ {r}
                             /\ Served(r) \/ UNCHANGED volumes
    BY <1>3 DEF ServeOrphan
  <2>2. UNCHANGED <<section, call, pqs, markers, healthy, begun>>
    BY <1>3 DEF ServeOrphan, check, container
  <2>3. VolumesKeep
    BY <2>1, ServedKeeps, UnchangedKeeps DEF OnboardingInv, OrphansDelete
  <2>4. SectionsAchieved'
    <3>1. \A s \in markers' \ {AllDone} : \A k \in DOMAIN Calls(s) : Achieved(Calls(s)[k])'
      BY <2>2, <2>3, MarkedStays DEF OnboardingInv
    <3>2. ASSUME section \in DOMAIN Program, NEW s \in {Current}, NEW k \in DOMAIN Calls(s), k < call
          PROVE  Achieved(Calls(s)[k])'
      <4>1. Achieved(Calls(s)[k])
        BY <3>2 DEF OnboardingInv, SectionsAchieved
      <4>2. Calls(s)[k].op = "grant" => Calls(s)[k].user[2] # "participant_admin"
        BY <3>2, SentCall, SectionCalls DEF OnboardingInv
      <4>3. QED
        BY <2>3, <4>1, <4>2, AchievedStays
    <3>3. Current' = Current
      BY <2>2 DEF Current
    <3>4. QED
      BY <2>2, <3>1, <3>2, <3>3 DEF SectionsAchieved
  <2>5. OnboardingTypes' /\ NoneLeftBehind'
    BY <2>2 DEF OnboardingInv, OnboardingTypes, NoneLeftBehind, Behind, Skipped, Missing, Current
  <2>6. OrphansDelete' /\ CiBundle' /\ ScribesServed'
    BY <2>1, <2>2, <2>3 DEF OnboardingInv, OrphansDelete, VolumesKeep, ScribesServed
  <2>7. QED
    BY <2>4, <2>5, <2>6 DEF OnboardingInv
<1>4. QED
  BY <1>1, <1>2, <1>3

\* What docker does with the container and with the Scribes.
LEMMA DockerStep ==
  ASSUME OnboardingInv,
         Restart \/ UpWithOthers \/ DownUp \/ ScribeStarts \/ ScribeFails \/ UNCHANGED onboarding
  PROVE  OnboardingInv'
<1> USE DEF scribing
<1>1. CASE Restart
  <2>1. CutOff(call) /\ Exits /\ ~healthy' /\ UNCHANGED <<volumes, pqs, begun>>
    BY <1>1 DEF Restart
  <2>2. OrphansDelete' /\ VolumesKeep
    BY <2>1, CutOffOrphans, UnchangedKeeps DEF OnboardingInv
  <2>3. QED
    BY <2>1, <2>2, EndKeeps DEF Exits, OnboardingInv, ScribesServed
<1>2. CASE UpWithOthers
  <2>1. /\ CutOff(call) /\ section' = 0 /\ call' = 1 /\ markers' = {} /\ ~healthy'
        /\ pqs' \subseteq Range(PqsSlots) /\ UNCHANGED <<volumes, begun>>
    BY <1>2 DEF UpWithOthers
  <2>2. OrphansDelete' /\ VolumesKeep
    BY <2>1, CutOffOrphans, UnchangedKeeps DEF OnboardingInv
  <2>3. QED
    BY <2>1, <2>2, EndKeeps
<1>3. CASE DownUp
  <2>1. /\ section' = 0 /\ call' = 1 /\ markers' = {} /\ ~healthy' /\ orphans' = {} /\ begun' = {}
        /\ pqs' \subseteq Range(PqsSlots)
    BY <1>3 DEF DownUp
  <2>2. CiBundle'
    BY <1>3 DEF DownUp, Fresh, OnboardingInv, CiBundle, Holds, volumes
  <2>3. QED
    BY <2>1, <2>2, EndKeeps DEF OrphansDelete
<1>4. CASE ScribeStarts \/ ScribeFails \/ UNCHANGED onboarding
  <2>1. UNCHANGED <<present, rights, realm, section, call, pqs, markers, healthy, orphans>>
    BY <1>4 DEF ScribeStarts, ScribeFails, onboarding, volumes, check, container
  <2>2. \A slot \in begun' : slot \in begun \/ (healthy /\ slot \in pqs)
    BY <1>4 DEF ScribeStarts, ScribeFails, onboarding
  <2>3. \A slot \in begun' : <<Pqs(slot), "ReadAsAnyParty">> \in rights
    BY <2>2, FinishedMeansOnboarded DEF OnboardingInv, ScribesServed
  <2>4. OnboardingTypes' /\ SectionsAchieved' /\ NoneLeftBehind'
    BY <2>1 DEF OnboardingInv, OnboardingTypes, SectionsAchieved, Achieved, NoneLeftBehind, Behind,
                Skipped, Missing, Current
  <2>5. OrphansDelete' /\ CiBundle' /\ ScribesServed'
    BY <2>1, <2>3 DEF OnboardingInv, OrphansDelete, CiBundle, Holds, ScribesServed
  <2>6. QED
    BY <2>4, <2>5 DEF OnboardingInv
<1>5. QED
  BY <1>1, <1>2, <1>3, <1>4

----------------------------------------------------------------------------
(* The theorems of the onboarding.                                         *)

\* The invariant of the onboarding.
THEOREM OnboardingInvHolds == OnboardingSpec => []OnboardingInv
<1>1. OnboardingInit => OnboardingInv
  <2> SUFFICES ASSUME OnboardingInit PROVE OnboardingInv
    OBVIOUS
  <2>1. 0 \notin DOMAIN Program /\ \A k \in DOMAIN Program : ~(k < 0)
    BY ProgramSections
  <2>2. section = 0 /\ call = 1 /\ markers = {} /\ orphans = {} /\ begun = {} /\ healthy = FALSE
        /\ pqs \subseteq Range(PqsSlots)
    BY DEF OnboardingInit
  <2>3. CiBundle
    BY DEF OnboardingInit, CiBundle, Holds, CiRights
  <2>4. QED
    BY <2>1, <2>2, <2>3 DEF OnboardingInv, OnboardingTypes, SectionsAchieved, NoneLeftBehind, Behind,
                            OrphansDelete, ScribesServed
<1>2. OnboardingInv /\ [OnboardingNext]_onboarding => OnboardingInv'
  BY CheckStep, FaultStep, DockerStep DEF OnboardingNext
<1>3. QED
  BY <1>1, <1>2, PTL DEF OnboardingSpec

\* When the container says that all is done, it is.
THEOREM DoneHolds == OnboardingSpec => []DoneMeansOnboarded
<1>1. OnboardingInv => DoneMeansOnboarded
  BY FinishedMeansOnboarded DEF DoneMeansOnboarded
<1>2. QED
  BY <1>1, OnboardingInvHolds, PTL

\* A Scribe finds the right to read as any party whenever it is started.
THEOREM ScribesReadAllHolds == OnboardingSpec => ScribesReadAll
<1>1. OnboardingInv /\ [OnboardingNext]_onboarding =>
        [\A slot \in scribes' \ scribes : <<Pqs(slot), "ReadAsAnyParty">> \in rights]_onboarding
  <2> SUFFICES ASSUME OnboardingInv, OnboardingNext, NEW slot \in scribes' \ scribes
               PROVE  <<Pqs(slot), "ReadAsAnyParty">> \in rights
    OBVIOUS
  <2>1. CASE ScribeStarts
    <3>1. slot \in begun \/ (healthy /\ slot \in pqs)
      BY <2>1 DEF ScribeStarts
    <3>2. QED
      BY <3>1, FinishedMeansOnboarded DEF OnboardingInv, ScribesServed
  <2>2. CASE ~ScribeStarts
    BY <2>2 DEF OnboardingNext, Check, Begin, Skip, Omit, Answered, Refused, Finish, CallFails,
                Killed, ServeOrphan, Restart, UpWithOthers, DownUp, ScribeFails, Checks, scribing
  <2>3. QED
    BY <2>1, <2>2
<1>2. QED
  BY <1>1, OnboardingInvHolds, PTL DEF OnboardingSpec, ScribesReadAll

=============================================================================
