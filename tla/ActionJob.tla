------------------------------ MODULE ActionJob ------------------------------
(***************************************************************************)
(* GitHub Actions jobs that boot LocalNet with the composite action        *)
(* (action/boot.sh), run their tests, and tear it down (action/down.sh),   *)
(* one after another on the Docker daemon of one runner. A job can be      *)
(* killed at any moment; what it leaves on the daemon, the next one finds. *)
(*                                                                         *)
(* The commands of the boot share one deadline: each runs under the        *)
(* seconds left of it, and a command that stalls is killed when they are   *)
(* spent.                                                                  *)
(***************************************************************************)
EXTENDS Integers

CONSTANTS
    Slots,      \* validators a job can list
    PqsSlots,   \* the slots with a PQS pipeline by default
    SyncSlots,  \* the slots the multi-sync profile requires
    Budget,     \* the timeout input, in seconds
    Caps,       \* up-timeout inputs, 0 for none
    MaxBoots    \* bound: uses of the boot action, over all jobs

ASSUME JobAssumption ==
    /\ "sv" \notin Slots
    /\ PqsSlots \subseteq Slots /\ SyncSlots \subseteq Slots
    /\ Budget \in Nat \ {0}
    /\ Caps \subseteq Nat
    /\ MaxBoots \in Nat

VARIABLES
    containers,  \* the boot whose containers are on the daemon, 0 for none
    volumes,     \* the boots that have written the named volumes
    stateFile,   \* state.env exists in this job's RUNNER_TEMP
    boot,        \* uses of the boot action so far
    inputs,      \* the inputs of this use
    pc,          \* the step the job is in
    left,        \* seconds to the deadline, 0 once it has passed
    limit,       \* seconds `timeout` gives the command that runs
    attempt,     \* the `up` attempt
    todo,        \* waits of the current stage that are not over
    exported,    \* this use has exported its variables to GITHUB_ENV
    failed       \* a step of the job failed

daemon == <<containers, volumes>>
clock == <<left, limit>>
progress == <<attempt, todo, exported>>
vars == <<daemon, stateFile, boot, inputs, pc, clock, progress, failed>>

Inputs == [slots : SUBSET Slots \ {{}}, pqs : BOOLEAN, sync : {"off", "input", "config"},
           selfHosted : BOOLEAN, cap : Caps]

Timed == {"pre-boot", "checking", "up", "re-teardown", "waiting", "syncing", "watermarks"}
Untimed == {"capturing", "sleeping", "exporting"}
Booting == {"validating"} \cup Timed \cup Untimed
Steps == Booting \cup {"ended", "cleaning", "testing", "tearing"}

Init ==
    /\ containers = 0 /\ volumes = {}
    /\ stateFile = FALSE
    /\ boot = 0
    /\ inputs \in Inputs
    /\ pc = "ended"
    /\ left = 0 /\ limit = 0
    /\ attempt = 0 /\ todo = {} /\ exported = FALSE
    /\ failed = FALSE

----------------------------------------------------------------------------
(* What the commands of the action do to the daemon.                       *)

DownSucceeds == containers' = 0 /\ volumes' = {}

\* Compose removes containers before volumes, and may stop anywhere.
DownFails ==
    \/ UNCHANGED daemon
    \/ containers' = 0 /\ volumes' \in {volumes, {}}

\* The seconds `timeout` gives an `up` attempt.
AttemptSeconds == IF inputs.cap > 0 /\ inputs.cap < left THEN inputs.cap ELSE left

\* The step fails; the action's own teardown follows.
BootFails ==
    /\ pc' = "cleaning"
    /\ failed' = TRUE
    /\ UNCHANGED clock

\* deadline_remaining, then the next command under what is left.
Launch(step, seconds) ==
    IF left > 0
    THEN pc' = step /\ limit' = seconds /\ UNCHANGED <<left, failed>>
    ELSE BootFails

----------------------------------------------------------------------------
(* boot.sh.                                                                *)

Use(given) ==
    /\ boot < MaxBoots
    /\ boot' = boot + 1
    /\ inputs' = given
    /\ pc' = "validating"
    /\ exported' = FALSE
    /\ UNCHANGED <<daemon, clock, attempt, todo>>

StartJob(given) ==
    /\ pc = "ended"
    /\ Use(given)
    /\ stateFile' = FALSE
    /\ failed' = FALSE

\* A second use of the action in the same job.
BootAgain(given) ==
    /\ pc = "testing"
    /\ Use(given)
    /\ UNCHANGED <<stateFile, failed>>

PqsSupported == inputs.pqs => inputs.slots \subseteq PqsSlots

\* An override, a config or an input the action refuses.
Reject ==
    /\ pc = "validating"
    /\ BootFails
    /\ UNCHANGED <<daemon, stateFile, boot, inputs, progress>>

\* Fault: the state is not saved before the stack is touched.
AcceptUnsaved ==
    /\ pc = "validating"
    /\ PqsSupported
    /\ left' = Budget /\ limit' = Budget
    /\ pc' = "pre-boot"
    /\ UNCHANGED <<daemon, stateFile, boot, inputs, progress, failed>>

Accept ==
    /\ pc = "validating"
    /\ PqsSupported
    /\ stateFile' = TRUE
    /\ left' = Budget /\ limit' = Budget
    /\ pc' = "pre-boot"
    /\ UNCHANGED <<daemon, boot, inputs, progress, failed>>

Reconciled ==
    /\ pc = "pre-boot"
    /\ DownSucceeds
    /\ Launch("checking", left)
    /\ UNCHANGED <<stateFile, boot, inputs, progress>>

\* Fault: a failed reconciliation is carried past, as a failed teardown is.
ReconciliationTolerated ==
    /\ pc = "pre-boot"
    /\ DownFails
    /\ Launch("checking", left)
    /\ UNCHANGED <<stateFile, boot, inputs, progress>>

ReconciliationFails ==
    /\ pc = "pre-boot"
    /\ DownFails
    /\ BootFails
    /\ UNCHANGED <<stateFile, boot, inputs, progress>>

\* The Docker version check decides on a self-hosted runner only.
Checked ==
    /\ pc = "checking"
    /\ Launch("up", AttemptSeconds)
    /\ attempt' = 1
    /\ UNCHANGED <<daemon, stateFile, boot, inputs, todo, exported>>

CheckFails ==
    /\ pc = "checking"
    /\ inputs.selfHosted
    /\ BootFails
    /\ UNCHANGED <<daemon, stateFile, boot, inputs, progress>>

\* Compose creates volumes and containers while `up` runs.
Create ==
    /\ pc = "up"
    /\ containers # boot
    /\ containers' = boot
    /\ volumes' = volumes \cup {boot}
    /\ UNCHANGED <<stateFile, boot, inputs, pc, clock, progress, failed>>

UpSucceeds ==
    /\ pc = "up"
    /\ containers = boot
    /\ Launch("waiting", left)
    /\ todo' = inputs.slots \cup {"sv"}
    /\ UNCHANGED <<daemon, stateFile, boot, inputs, attempt, exported>>

UpFails ==
    /\ pc = "up"
    /\ IF attempt = 1
         THEN pc' = "capturing" /\ UNCHANGED <<clock, failed>>
         ELSE BootFails
    /\ UNCHANGED <<daemon, stateFile, boot, inputs, progress>>

Captured ==
    /\ pc = "capturing"
    /\ Launch("re-teardown", left)
    /\ UNCHANGED <<daemon, stateFile, boot, inputs, progress>>

\* A failed pre-retry teardown is only a warning.
RetornDown ==
    /\ pc = "re-teardown"
    /\ DownSucceeds \/ DownFails
    /\ pc' = "sleeping"
    /\ UNCHANGED <<stateFile, boot, inputs, clock, progress, failed>>

Slept ==
    /\ pc = "sleeping"
    /\ Launch("up", AttemptSeconds)
    /\ attempt' = 2
    /\ UNCHANGED <<daemon, stateFile, boot, inputs, todo, exported>>

\* The stages after the slot waits: multi-sync, PQS, export. A config file
\* that turns multi-sync on is noticed unless the probe fails.
AfterSync ==
    IF inputs.pqs
    THEN Launch("watermarks", left) /\ todo' = inputs.slots
    ELSE pc' = "exporting" /\ todo' = {} /\ UNCHANGED <<clock, failed>>

AfterSlots ==
    \/ /\ inputs.sync # "off"
       /\ todo' = {}
       /\ IF SyncSlots \subseteq inputs.slots THEN Launch("syncing", left) ELSE BootFails
    \/ inputs.sync # "input" /\ AfterSync

\* One wait-ready call succeeds, and the next starts under what is left.
SlotReady(s) ==
    /\ pc = "waiting" /\ s \in todo
    /\ IF todo = {s}
         THEN AfterSlots
         ELSE todo' = todo \ {s} /\ Launch("waiting", left)
    /\ UNCHANGED <<daemon, stateFile, boot, inputs, attempt, exported>>

Synced ==
    /\ pc = "syncing"
    /\ AfterSync
    /\ UNCHANGED <<daemon, stateFile, boot, inputs, attempt, exported>>

WatermarkSet(s) ==
    /\ pc = "watermarks" /\ s \in todo
    /\ todo' = todo \ {s}
    /\ IF todo = {s}
         THEN pc' = "exporting" /\ UNCHANGED <<clock, failed>>
         ELSE Launch("watermarks", left)
    /\ UNCHANGED <<daemon, stateFile, boot, inputs, attempt, exported>>

\* wait-ready gives up: its time is spent, or the stack cannot start.
WaitFails ==
    /\ pc \in {"waiting", "syncing", "watermarks"}
    /\ BootFails
    /\ UNCHANGED <<daemon, stateFile, boot, inputs, progress>>

Export ==
    /\ pc = "exporting"
    /\ pc' = "testing"
    /\ exported' = TRUE
    /\ UNCHANGED <<daemon, stateFile, boot, inputs, clock, attempt, todo, failed>>

ExportFails ==
    /\ pc = "exporting"
    /\ BootFails
    /\ UNCHANGED <<daemon, stateFile, boot, inputs, progress>>

\* Fault: `up` is not run under timeout.
StalledButUp ==
    /\ pc \in Timed \ {"up"} /\ limit = 0
    /\ WaitFails \/ ReconciliationFails \/ CheckFails \/ RetornDown
       \/ (Checked /\ ~inputs.selfHosted)

\* `timeout` kills the command that runs, which is how it fails.
Stalled ==
    /\ pc \in Timed /\ limit = 0
    /\ WaitFails \/ ReconciliationFails \/ CheckFails \/ UpFails \/ RetornDown
       \/ (Checked /\ ~inputs.selfHosted)

----------------------------------------------------------------------------
(* down.sh after a failed boot, the job's tests, and the strict teardown.  *)

\* STRICT=false: whatever happens, the step does not fail.
CleanUp ==
    /\ pc = "cleaning"
    /\ IF stateFile THEN DownSucceeds \/ DownFails ELSE UNCHANGED daemon
    /\ pc' = "tearing"
    /\ UNCHANGED <<stateFile, boot, inputs, clock, progress, failed>>

TestsEnd ==
    /\ pc = "testing"
    /\ pc' = "tearing"
    /\ failed' \in {failed, TRUE}
    /\ UNCHANGED <<daemon, stateFile, boot, inputs, clock, progress>>

\* Fault: a teardown that fails reads green.
TearDownGreen ==
    /\ pc = "tearing"
    /\ IF stateFile THEN DownSucceeds \/ DownFails ELSE UNCHANGED daemon
    /\ pc' = "ended"
    /\ UNCHANGED <<stateFile, boot, inputs, clock, progress, failed>>

\* STRICT=true, if: always().
TearDown ==
    /\ pc = "tearing"
    /\ \/ stateFile /\ DownSucceeds /\ UNCHANGED failed
       \/ stateFile /\ DownFails /\ failed' = TRUE
       \/ ~stateFile /\ UNCHANGED daemon /\ failed' = TRUE
    /\ pc' = "ended"
    /\ UNCHANGED <<stateFile, boot, inputs, clock, progress>>

\* The job is cancelled by force, or its runner dies.
Kill ==
    /\ pc # "ended"
    /\ pc' = "ended"
    /\ failed' = TRUE
    /\ UNCHANGED <<daemon, stateFile, boot, inputs, clock, progress>>

Tick ==
    /\ left > 0
    /\ \/ pc \in Timed /\ limit > 0 /\ limit' = limit - 1
       \/ pc \in Untimed /\ UNCHANGED limit
    /\ left' = left - 1
    /\ UNCHANGED <<daemon, stateFile, boot, inputs, pc, progress, failed>>

\* Steps of the script that come without fail.
Script == Accept \/ Reject \/ Stalled \/ Captured \/ Slept \/ Export \/ ExportFails

Next ==
    \/ \E given \in Inputs : StartJob(given) \/ BootAgain(given)
    \/ Accept \/ Reject \/ Reconciled \/ ReconciliationFails \/ Checked \/ CheckFails
    \/ Create \/ UpSucceeds \/ UpFails \/ Captured \/ RetornDown \/ Slept
    \/ \E s \in Slots \cup {"sv"} : SlotReady(s) \/ WatermarkSet(s)
    \/ Synced \/ WaitFails \/ Export \/ ExportFails
    \/ CleanUp \/ TestsEnd \/ TearDown \/ Kill
    \/ Tick

\* Time passes, and the script goes on. Nothing says that `up` or a wait
\* succeeds: the vendored health check retries for hours.
Spec == Init /\ [][Next]_vars /\ WF_vars(Tick) /\ WF_vars(Script)

----------------------------------------------------------------------------
(* Properties.                                                             *)

\* Types; "one total deadline shared by pre-boot cleanup, up (with its one
\* retry) and wait-ready": no command is given more seconds than are left.
TypeOK ==
    /\ containers \in 0 .. MaxBoots /\ volumes \subseteq 1 .. MaxBoots
    /\ stateFile \in BOOLEAN /\ exported \in BOOLEAN /\ failed \in BOOLEAN
    /\ boot \in 0 .. MaxBoots
    /\ inputs \in Inputs
    /\ pc \in Steps
    /\ left \in 0 .. Budget /\ limit \in Nat
    /\ attempt \in 0 .. 2
    /\ todo \subseteq Slots \cup {"sv"}
    /\ pc \in Timed => limit <= left

\* "refusing to continue; a leftover stack or volumes may contaminate the test
\* run": the variables are exported only with volumes this boot alone has
\* written, whatever killed jobs and failed teardowns left on the daemon.
UncontaminatedExport == exported /\ pc = "testing" => volumes \subseteq {boot}

\* The teardown can find what to tear down from the moment anything of this
\* job's is on the daemon, a failed boot included.
TeardownFinds == pc # "ended" /\ containers = boot /\ boot > 0 => stateFile

\* "a failed teardown fails the job instead of reading green": a job that
\* ends green leaves no container and no volume behind.
GreenMeansClean == pc = "ended" /\ ~failed => containers = 0 /\ volumes = {}

\* However long `up` or a wait stalls, the boot step ends.
BootEnds == pc \in Booting ~> pc \notin Booting

=============================================================================
