--------------------------- MODULE ActionJobProofs ---------------------------
(***************************************************************************)
(* Proofs that no command outlives the shared deadline, that an export     *)
(* sees only its own boot's volumes, that the teardown always finds its    *)
(* stack, and that a green job leaves nothing behind, for any slots,       *)
(* timeouts and number of jobs.                                            *)
(***************************************************************************)
EXTENDS ActionJob, TLAPS

Running == Timed \cup Untimed \cup {"testing"}

\* What the daemon holds and what RUNNER_TEMP knows of it, step by step: the
\* reconciliation of a boot removes what earlier ones left.
Accounted ==
    /\ pc # "ended" => boot > 0
    /\ containers <= boot
    /\ pc \in Running => stateFile
    /\ pc \in Running \ {"pre-boot"} => volumes \subseteq {boot}
    /\ pc = "validating" => containers < boot
    /\ pc # "ended" /\ containers = boot => stateFile

Inv == TypeOK /\ Accounted /\ GreenMeansClean

\* The constants, one by one.
LEMMA ConstantTypes ==
  /\ Budget \in Nat /\ Budget > 0 /\ MaxBoots \in Nat
  /\ \A cap \in Caps : cap \in Nat
  BY JobAssumption

\* The invariant holds before the first job.
LEMMA InitInv == Init => Inv
<1> SUFFICES ASSUME Init PROVE Inv
  OBVIOUS
<1>1. TypeOK
  <2>1. containers \in 0 .. MaxBoots /\ boot \in 0 .. MaxBoots
    BY ConstantTypes DEF Init
  <2>2. volumes \subseteq 1 .. MaxBoots
    BY DEF Init
  <2>3. left \in 0 .. Budget /\ limit \in Nat /\ attempt \in 0 .. 2
    BY ConstantTypes DEF Init
  <2>4. pc \in Steps /\ pc \notin Timed
    BY DEF Init, Steps, Timed
  <2>5. inputs \in Inputs /\ todo \subseteq Slots \cup {"sv"}
    BY DEF Init
  <2>6. stateFile \in BOOLEAN /\ exported \in BOOLEAN /\ failed \in BOOLEAN
    BY DEF Init
  <2>7. QED
    BY <2>1, <2>2, <2>3, <2>4, <2>5, <2>6 DEF TypeOK
<1>2. Accounted /\ GreenMeansClean
  BY DEF Init, Accounted, GreenMeansClean, Running, Timed, Untimed
<1>3. QED
  BY <1>1, <1>2 DEF Inv

\* An `up` attempt is never given more than what is left.
LEMMA AttemptFits ==
  ASSUME TypeOK
  PROVE  AttemptSeconds \in Nat /\ AttemptSeconds <= left
  BY ConstantTypes DEF TypeOK, Inputs, AttemptSeconds

\* What the start of a command comes to: it runs within the deadline, or the
\* boot has failed.
Launched(step) ==
    /\ left' = left /\ limit' \in Nat
    /\ \/ pc' = step /\ limit' <= left' /\ failed' = failed
       \/ pc' = "cleaning" /\ failed' = TRUE

\* A command given no more than what is left runs within the deadline.
LEMMA LaunchFits ==
  ASSUME TypeOK, NEW step \in Timed, NEW seconds \in Nat, seconds <= left,
         Launch(step, seconds)
  PROVE  Launched(step)
  BY DEF TypeOK, Launch, Launched, BootFails, clock

\* The types of what the start of a command sets.
LEMMA LaunchedTypes ==
  ASSUME TypeOK, NEW step \in Timed, Launched(step)
  PROVE  /\ left' = left /\ limit' \in Nat /\ pc' \in Steps /\ failed' \in BOOLEAN
         /\ pc' \in Timed => limit' <= left'
<1>1. left' = left /\ limit' \in Nat
  BY DEF Launched
<1>2. failed' \in BOOLEAN
  BY DEF TypeOK, Launched
<1>3. pc' \in Steps
  BY DEF Launched, Steps, Booting
<1>4. pc' \in Timed => limit' <= left'
  BY DEF Launched, Timed
<1>5. QED
  BY <1>1, <1>2, <1>3, <1>4

\* A down, whether it succeeds or not, adds nothing to the daemon.
LEMMA DownShrinks ==
  ASSUME TypeOK, DownSucceeds \/ DownFails
  PROVE  containers' \in {containers, 0} /\ volumes' \subseteq volumes
  BY DEF DownSucceeds, DownFails, daemon

\* A step that leaves the inputs, the boot count and the state file alone, and
\* launches a command in time or none, keeps every type.
LEMMA TypesKept ==
  ASSUME TypeOK,
         UNCHANGED <<stateFile, boot, inputs, todo, exported>>,
         containers' \in {containers, 0}, volumes' \subseteq volumes,
         attempt' \in 0 .. 2, left' = left, limit' \in Nat,
         pc' \in Steps, failed' \in BOOLEAN, pc' \in Timed => limit' <= left'
  PROVE  TypeOK'
<1>1. containers' \in 0 .. MaxBoots /\ volumes' \subseteq 1 .. MaxBoots
  BY ConstantTypes DEF TypeOK
<1>2. /\ stateFile' \in BOOLEAN /\ exported' \in BOOLEAN /\ boot' \in 0 .. MaxBoots
      /\ inputs' \in Inputs /\ left' \in 0 .. Budget /\ todo' \subseteq Slots \cup {"sv"}
  BY Zenon DEF TypeOK
<1>3. QED
  BY <1>1, <1>2 DEF TypeOK

\* A use of the action starts with nothing of its own on the daemon.
LEMMA UseStep ==
  ASSUME Inv, \E given \in Inputs : StartJob(given) \/ BootAgain(given)
  PROVE  Inv'
<1> PICK given \in Inputs : StartJob(given) \/ BootAgain(given)
  OBVIOUS
<1>1. /\ boot' = boot + 1 /\ boot < MaxBoots /\ inputs' = given /\ pc' = "validating"
      /\ exported' = FALSE /\ UNCHANGED <<daemon, clock, attempt, todo>>
      /\ stateFile' \in BOOLEAN /\ failed' \in BOOLEAN
  BY DEF StartJob, BootAgain, Use, Inv, TypeOK
<1>2. TypeOK'
  <2>1. boot' \in 0 .. MaxBoots /\ pc' \in Steps /\ pc' \notin Timed /\ inputs' \in Inputs
    BY <1>1, ConstantTypes DEF Inv, TypeOK, Steps, Booting, Timed
  <2>2. QED
    BY <1>1, <2>1 DEF Inv, TypeOK, daemon, clock
<1>3. Accounted' /\ GreenMeansClean'
  BY <1>1 DEF Inv, TypeOK, Accounted, GreenMeansClean, daemon, Running, Timed, Untimed
<1>4. QED
  BY <1>2, <1>3 DEF Inv

\* The boot up to the first `up`.
LEMMA ReconcileStep ==
  ASSUME Inv, Reject \/ Accept \/ Reconciled \/ ReconciliationFails \/ Checked \/ CheckFails
  PROVE  Inv'
<1> USE ConstantTypes
        DEF Inv, TypeOK, Accounted, GreenMeansClean, Running, Timed, Untimed, Steps, Booting,
            daemon, clock, progress
<1>1. CASE Reject
  BY <1>1 DEF Reject, BootFails
<1>2. CASE Accept
  BY <1>2 DEF Accept
<1>3. CASE Reconciled
  <2>1. containers' = 0 /\ volumes' = {} /\ Launch("checking", left)
        /\ UNCHANGED <<stateFile, boot, inputs, attempt, todo, exported>> /\ pc = "pre-boot"
    BY <1>3 DEF Reconciled, DownSucceeds
  <2>2. Launched("checking")
    BY <2>1, LaunchFits
  <2>3. TypeOK'
    <3>1. /\ left' = left /\ limit' \in Nat /\ pc' \in Steps /\ failed' \in BOOLEAN
          /\ pc' \in Timed => limit' <= left'
      BY <2>2, LaunchedTypes
    <3>2. containers' \in {containers, 0} /\ volumes' \subseteq volumes /\ attempt' \in 0 .. 2
      BY <2>1
    <3>3. QED
      BY <2>1, <3>1, <3>2, TypesKept
  <2>4. Accounted' /\ GreenMeansClean'
    BY <2>1, <2>2 DEF Launched
  <2>5. QED
    BY <2>3, <2>4
<1>4. CASE ReconciliationFails
  <2>1. containers' \in {containers, 0} /\ volumes' \subseteq volumes
    BY <1>4, DownShrinks DEF ReconciliationFails
  <2>2. QED
    BY <1>4, <2>1 DEF ReconciliationFails, BootFails
<1>5. CASE Checked
  <2>1. Launched("up")
    BY <1>5, AttemptFits, LaunchFits DEF Checked
  <2>2. TypeOK'
    <3>1. /\ left' = left /\ limit' \in Nat /\ pc' \in Steps /\ failed' \in BOOLEAN
          /\ pc' \in Timed => limit' <= left'
      BY <2>1, LaunchedTypes
    <3>2. /\ UNCHANGED <<stateFile, boot, inputs, todo, exported>>
          /\ attempt' \in 0 .. 2
          /\ containers' \in {containers, 0} /\ volumes' \subseteq volumes
      BY <1>5 DEF Checked
    <3>3. QED
      BY <3>1, <3>2, TypesKept
  <2>3. Accounted' /\ GreenMeansClean'
    BY <1>5, <2>1 DEF Checked, Launched
  <2>4. QED
    BY <2>2, <2>3
<1>6. CASE CheckFails
  BY <1>6 DEF CheckFails, BootFails
<1>7. QED
  BY <1>1, <1>2, <1>3, <1>4, <1>5, <1>6

\* Both attempts of `up`, and the teardown between them.
LEMMA UpStep ==
  ASSUME Inv, Create \/ UpSucceeds \/ UpFails \/ Captured \/ RetornDown \/ Slept
  PROVE  Inv'
<1> USE ConstantTypes
        DEF Inv, TypeOK, Accounted, GreenMeansClean, Running, Timed, Untimed, Steps, Booting,
            daemon, clock, progress
<1>1. CASE Create
  BY <1>1 DEF Create
<1>2. CASE UpSucceeds
  <2>1. Launched("waiting") /\ inputs.slots \subseteq Slots
    BY <1>2, LaunchFits DEF UpSucceeds, Inputs
  <2>2. QED
    BY <1>2, <2>1 DEF UpSucceeds, Launched
<1>3. CASE UpFails
  BY <1>3 DEF UpFails, BootFails
<1>4. CASE Captured
  <2>1. Launched("re-teardown")
    BY <1>4, LaunchFits DEF Captured
  <2>2. QED
    BY <1>4, <2>1 DEF Captured, Launched
<1>5. CASE RetornDown
  <2>1. containers' \in {containers, 0} /\ volumes' \subseteq volumes
    BY <1>5, DownShrinks DEF RetornDown
  <2>2. QED
    BY <1>5, <2>1 DEF RetornDown
<1>6. CASE Slept
  <2>1. Launched("up")
    BY <1>6, AttemptFits, LaunchFits DEF Slept
  <2>2. TypeOK'
    <3>1. /\ left' = left /\ limit' \in Nat /\ pc' \in Steps /\ failed' \in BOOLEAN
          /\ pc' \in Timed => limit' <= left'
      BY <2>1, LaunchedTypes
    <3>2. /\ UNCHANGED <<stateFile, boot, inputs, todo, exported>>
          /\ attempt' \in 0 .. 2
          /\ containers' \in {containers, 0} /\ volumes' \subseteq volumes
      BY <1>6 DEF Slept
    <3>3. QED
      BY <3>1, <3>2, TypesKept
  <2>3. Accounted' /\ GreenMeansClean'
    BY <1>6, <2>1 DEF Slept, Launched
  <2>4. QED
    BY <2>2, <2>3
<1>7. QED
  BY <1>1, <1>2, <1>3, <1>4, <1>5, <1>6

\* What leads from one stage of waits to the next, to the export or to failure.
WaitsOn ==
    /\ left' = left /\ limit' \in Nat /\ todo' \subseteq Slots \cup {"sv"}
    /\ \/ pc' \in {"syncing", "watermarks", "exporting"} /\ failed' = failed
          /\ (pc' \in Timed => limit' <= left')
       \/ pc' = "cleaning" /\ failed' = TRUE

\* The waits and the export.
LEMMA WaitStep ==
  ASSUME Inv, (\E s \in Slots \cup {"sv"} : SlotReady(s) \/ WatermarkSet(s))
                \/ Synced \/ WaitFails \/ Export \/ ExportFails
  PROVE  Inv'
<1> USE ConstantTypes
        DEF Inv, TypeOK, Accounted, GreenMeansClean, Running, Timed, Untimed, Steps, Booting,
            daemon, clock, progress
<1>1. ASSUME AfterSync
      PROVE  WaitsOn
  <2>1. CASE inputs.pqs
    <3>1. Launched("watermarks") /\ inputs.slots \subseteq Slots /\ todo' = inputs.slots
      BY <1>1, <2>1, LaunchFits DEF AfterSync, Inputs
    <3>2. QED
      BY <3>1 DEF Launched, WaitsOn
  <2>2. CASE ~inputs.pqs
    BY <1>1, <2>2 DEF AfterSync, WaitsOn
  <2>3. QED
    BY <2>1, <2>2
<1>2. ASSUME AfterSlots
      PROVE  WaitsOn
  <2>1. CASE todo' = {} /\ Launch("syncing", left)
    <3>1. Launched("syncing")
      BY <2>1, LaunchFits
    <3>2. QED
      BY <2>1, <3>1 DEF Launched, WaitsOn
  <2>2. CASE todo' = {} /\ BootFails
    BY <2>2 DEF BootFails, WaitsOn
  <2>3. QED
    BY <1>1, <1>2, <2>1, <2>2 DEF AfterSlots
<1>3. ASSUME NEW s \in Slots \cup {"sv"}, SlotReady(s)
      PROVE  Inv'
  <2>1. CASE AfterSlots
    BY <1>2, <1>3, <2>1 DEF SlotReady, WaitsOn
  <2>2. CASE todo' = todo \ {s} /\ Launch("waiting", left)
    <3>1. Launched("waiting")
      BY <2>2, LaunchFits
    <3>2. QED
      BY <1>3, <2>2, <3>1 DEF SlotReady, Launched
  <2>3. QED
    BY <1>3, <2>1, <2>2 DEF SlotReady
<1>4. ASSUME NEW s \in Slots \cup {"sv"}, WatermarkSet(s)
      PROVE  Inv'
  <2>1. CASE Launch("watermarks", left)
    <3>1. Launched("watermarks")
      BY <2>1, LaunchFits
    <3>2. QED
      BY <1>4, <3>1 DEF WatermarkSet, Launched
  <2>2. CASE pc' = "exporting" /\ UNCHANGED <<clock, failed>>
    BY <1>4, <2>2 DEF WatermarkSet
  <2>3. QED
    BY <1>4, <2>1, <2>2 DEF WatermarkSet
<1>5. CASE Synced
  BY <1>1, <1>5 DEF Synced, WaitsOn
<1>6. CASE WaitFails \/ ExportFails
  BY <1>6 DEF WaitFails, ExportFails, BootFails
<1>7. CASE Export
  BY <1>7 DEF Export
<1>8. QED
  BY <1>3, <1>4, <1>5, <1>6, <1>7

\* The teardowns, the tests, a killed job and the clock.
LEMMA EndStep ==
  ASSUME Inv, CleanUp \/ TestsEnd \/ TearDown \/ Kill \/ Tick
  PROVE  Inv'
<1> USE ConstantTypes
        DEF Inv, TypeOK, Accounted, GreenMeansClean, Running, Timed, Untimed, Steps, Booting,
            daemon, clock, progress
<1>1. CASE CleanUp
  <2>1. containers' \in {containers, 0} /\ volumes' \subseteq volumes
    BY <1>1, DownShrinks DEF CleanUp
  <2>2. QED
    BY <1>1, <2>1 DEF CleanUp
<1>2. CASE TestsEnd
  BY <1>2 DEF TestsEnd
<1>3. CASE TearDown
  <2>1. /\ containers' \in {containers, 0} /\ volumes' \subseteq volumes
        /\ failed' = TRUE \/ (failed' = failed /\ containers' = 0 /\ volumes' = {})
        /\ pc' = "ended"
    BY <1>3, DownShrinks DEF TearDown, DownSucceeds
  <2>2. TypeOK'
    <3>1. /\ left' = left /\ limit' \in Nat /\ attempt' \in 0 .. 2
          /\ pc' \in Steps /\ failed' \in BOOLEAN /\ pc' \notin Timed
      BY <1>3, <2>1 DEF TearDown
    <3>2. UNCHANGED <<stateFile, boot, inputs, todo, exported>>
      BY <1>3 DEF TearDown
    <3>3. QED
      BY <2>1, <3>1, <3>2, TypesKept
  <2>3. Accounted' /\ GreenMeansClean'
    BY <1>3, <2>1 DEF TearDown
  <2>4. QED
    BY <2>2, <2>3
<1>4. CASE Kill
  BY <1>4 DEF Kill
<1>5. CASE Tick
  BY <1>5 DEF Tick
<1>6. QED
  BY <1>1, <1>2, <1>3, <1>4, <1>5

\* The invariant holds in every reachable state.
THEOREM InvHolds == Spec => []Inv
<1>1. Init => Inv
  BY InitInv
<1>2. Inv /\ [Next]_vars => Inv'
  <2> SUFFICES ASSUME Inv, [Next]_vars PROVE Inv'
    OBVIOUS
  <2>1. CASE Next
    BY <2>1, UseStep, ReconcileStep, UpStep, WaitStep, EndStep DEF Next
  <2>2. CASE UNCHANGED vars
    BY <2>2 DEF vars, daemon, clock, progress, Inv, TypeOK, Accounted, GreenMeansClean
  <2>3. QED
    BY <2>1, <2>2
<1>3. QED
  BY <1>1, <1>2, PTL DEF Spec

\* Every variable has its type, and no command is given more seconds than are
\* left to the deadline.
THEOREM TypeCorrect == Spec => []TypeOK
<1>1. Inv => TypeOK
  BY DEF Inv
<1>2. QED
  BY <1>1, InvHolds, PTL

\* The variables are exported only with volumes this boot alone has written.
THEOREM ExportsUncontaminated == Spec => []UncontaminatedExport
<1>1. Inv => UncontaminatedExport
  BY DEF Inv, Accounted, UncontaminatedExport, Running
<1>2. QED
  BY <1>1, InvHolds, PTL

\* Whatever of this boot is on the daemon, the teardown finds.
THEOREM TeardownsFind == Spec => []TeardownFinds
<1>1. Inv => TeardownFinds
  BY DEF Inv, Accounted, TeardownFinds
<1>2. QED
  BY <1>1, InvHolds, PTL

\* A job that ends green leaves nothing behind.
THEOREM GreenJobsClean == Spec => []GreenMeansClean
<1>1. Inv => GreenMeansClean
  BY DEF Inv
<1>2. QED
  BY <1>1, InvHolds, PTL

=============================================================================
