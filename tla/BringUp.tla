------------------------------- MODULE BringUp -------------------------------
(***************************************************************************)
(* The part-time Hetzner VM: every server create runs cloud-init, which    *)
(* checks out a version and runs bring-up-localnet.sh; every scheduled     *)
(* `down` destroys the server, whatever it is in the middle of. The data   *)
(* volume survives, and with it Docker's volumes and the state key that    *)
(* says which version they were brought up with.                           *)
(***************************************************************************)
EXTENDS Naturals

CONSTANTS
    Versions,   \* state keys: splice, postgres and protocol version together
    Volumes,    \* Docker volumes of the stack
    NoKey,      \* no state-key file
    MaxBoots    \* bound: server creations

ASSUME BringUpAssumption == NoKey \notin Versions /\ MaxBoots \in Nat

VARIABLES
    pc,        \* where provisioning is; "destroyed" between two servers
    current,   \* current_key of the boot
    previous,  \* previous_key, as the boot read it
    keyFile,   \* the contents of the state-key file
    containers,\* the version whose containers exist, NoKey if there are none
    writers,   \* the versions that have written each Docker volume since its wipe
    unkept,    \* history: versions brought up, and not recorded, since the last wipe
    boots      \* server creations so far

vars == <<pc, current, previous, keyFile, containers, writers, unkept, boots>>

Locations == {"destroyed", "deciding", "wiping", "reset", "starting", "started",
              "running", "halted"}

Init ==
    /\ pc = "destroyed"
    /\ current \in Versions
    /\ previous = NoKey
    /\ keyFile = NoKey
    /\ containers = NoKey
    /\ writers = [v \in Volumes |-> {}]
    /\ unkept = {}
    /\ boots = 0

Goto(from, to) == pc = from /\ pc' = to

\* The script reads the key of the checkout and the key file.
Boot(version) ==
    /\ boots < MaxBoots
    /\ boots' = boots + 1
    /\ Goto("destroyed", "deciding")
    /\ current' = version
    /\ previous' = keyFile
    /\ UNCHANGED <<keyFile, containers, writers, unkept>>

\* The key is unchanged: make down, which may fail and leave the containers.
KeepVolumes ==
    /\ previous = current
    /\ Goto("deciding", "reset")
    /\ containers' \in {containers, NoKey}
    /\ UNCHANGED <<current, previous, keyFile, writers, unkept, boots>>

\* Fault: the key is recorded as soon as it is found to differ.
DecideRecording ==
    /\ previous # current
    /\ Goto("deciding", "wiping")
    /\ keyFile' = current
    /\ UNCHANGED <<current, previous, containers, writers, unkept, boots>>

DecideToWipe ==
    /\ previous # current
    /\ Goto("deciding", "wiping")
    /\ UNCHANGED <<current, previous, keyFile, containers, writers, unkept, boots>>

\* make clean removes the containers, then one volume after another.
RemoveContainers ==
    /\ pc = "wiping"
    /\ containers' = NoKey
    /\ UNCHANGED <<pc, current, previous, keyFile, writers, unkept, boots>>

RemoveVolume(v) ==
    /\ pc = "wiping"
    /\ containers = NoKey
    /\ writers[v] # {}
    /\ writers' = [writers EXCEPT ![v] = {}]
    /\ UNCHANGED <<pc, current, previous, keyFile, containers, unkept, boots>>

\* Fault: a make clean that fails is carried past, as a make down is.
WipedTolerantly ==
    /\ Goto("wiping", "reset")
    /\ unkept' = {}
    /\ UNCHANGED <<current, previous, keyFile, containers, writers, boots>>

Wiped ==
    /\ containers = NoKey
    /\ \A v \in Volumes : writers[v] = {}
    /\ Goto("wiping", "reset")
    /\ unkept' = {}
    /\ UNCHANGED <<current, previous, keyFile, containers, writers, boots>>

WipeFails ==
    /\ Goto("wiping", "halted")
    /\ UNCHANGED <<current, previous, keyFile, containers, writers, unkept, boots>>

\* The up-command recreates the containers.
Start ==
    /\ Goto("reset", "starting")
    /\ containers' = current
    /\ unkept' = unkept \cup {current}
    /\ UNCHANGED <<current, previous, keyFile, writers, boots>>

\* Containers write their volumes whenever a server runs: Docker restarts them
\* on a new server before the script has decided anything.
Write(v) ==
    /\ pc # "destroyed"
    /\ containers # NoKey
    /\ writers' = [writers EXCEPT ![v] = @ \cup {containers}]
    /\ UNCHANGED <<pc, current, previous, keyFile, containers, unkept, boots>>

StartSucceeds ==
    /\ Goto("starting", "started")
    /\ UNCHANGED <<current, previous, keyFile, containers, writers, unkept, boots>>

\* "bring-up failed": the containers that did start stay.
StartFails ==
    /\ Goto("starting", "halted")
    /\ UNCHANGED <<current, previous, keyFile, containers, writers, unkept, boots>>

\* The key file is replaced by an atomic rename.
Record ==
    /\ Goto("started", "running")
    /\ keyFile' = current
    /\ unkept' = unkept \ {current}
    /\ UNCHANGED <<current, previous, containers, writers, boots>>

\* The scheduled `down`, or a `up` that recreates the server.
Destroy ==
    /\ pc # "destroyed"
    /\ pc' = "destroyed"
    /\ UNCHANGED <<current, previous, keyFile, containers, writers, unkept, boots>>

\* "To force a wipe without a version bump, delete the key file".
DeleteKey ==
    /\ pc \in {"running", "halted"}
    /\ keyFile' = NoKey
    /\ UNCHANGED <<pc, current, previous, containers, writers, unkept, boots>>

Next ==
    \/ \E version \in Versions : Boot(version)
    \/ KeepVolumes \/ DecideToWipe \/ RemoveContainers \/ Wiped \/ WipeFails
    \/ \E v \in Volumes : RemoveVolume(v) \/ Write(v)
    \/ Start \/ StartSucceeds \/ StartFails \/ Record
    \/ Destroy \/ DeleteKey

Spec == Init /\ [][Next]_vars

----------------------------------------------------------------------------
(* Properties.                                                             *)

\* Types; while a server is being provisioned the key file stays as it was
\* read.
TypeOK ==
    /\ pc \in Locations
    /\ current \in Versions
    /\ previous \in Versions \cup {NoKey}
    /\ keyFile \in Versions \cup {NoKey}
    /\ containers \in Versions \cup {NoKey}
    /\ writers \in [Volumes -> SUBSET Versions]
    /\ unkept \subseteq Versions
    /\ boots \in 0 .. MaxBoots
    /\ pc \in {"deciding", "wiping", "reset", "starting", "started"} => previous = keyFile

\* "refusing to bring LocalNet up on volumes written by another version": a
\* version that differs from the recorded one runs on volumes no other version
\* has written, through destroyed servers and half-finished wipes.
ChangedVersionStartsFresh ==
    pc \in {"starting", "started"} /\ previous # current =>
        \A v \in Volumes : writers[v] \subseteq {current}

\* The key file names the version that wrote the volumes, apart from versions
\* whose bring-up began after the last wipe and was never recorded.
KeyTellsWriters ==
    keyFile # NoKey => \A v \in Volumes : writers[v] \subseteq {keyFile} \cup unkept

=============================================================================
