----------------------------- MODULE WaitReady -----------------------------
(***************************************************************************)
(* `canton-localnet wait-ready` beside the commands that bring the stack   *)
(* up and down (Topology) and the stack itself. One wait goes through at   *)
(* most three stages under one deadline: the readiness probe with its      *)
(* abort check (internal/health, internal/startupfatal), the connected     *)
(* synchronizers (waitready.go, internal/slot) and the watermark of the    *)
(* slot's PQS pipeline (internal/pqs).                                     *)
(***************************************************************************)
EXTENDS Topology

CONSTANTS
    Wants,           \* what waits may ask for: [slot, syncs, pqs]
    Timeout,         \* --timeout
    PollInterval,    \* --interval
    RequestTimeout   \* --request-timeout

ASSUME WaitAssumption ==
    /\ Wants \subseteq [slot : Slots, syncs : BOOLEAN, pqs : BOOLEAN]
    /\ {Timeout, PollInterval, RequestTimeout} \subseteq Nat \ {0}

VARIABLES
    serving,    \* /readyz answers 200
    connected,  \* synchronizers the slot's participant is connected to
    restarts,   \* RestartCount of the splice container is not 0
    fatalLine,  \* its log has a line of the mismatch
    watermark,  \* the PQS database of the slot asked about has a watermark
    want,       \* what the waits ask for
    stage,      \* the loop the wait is in
    pc,         \* where in that loop
    left,       \* time to the deadline of the wait's context
    timer,      \* time to the end of the request or of the sleep
    expired,    \* the wait's token has expired
    verdict,    \* how the wait ended
    calm,       \* history: in this wait no command ran and nothing broke
    steady      \* history: how long, in this wait for the synchronizers, the
                \* participant has been connected and answering

container == <<serving, connected, restarts, fatalLine>>
stack == <<topology, container, watermark>>
wait == <<want, stage, pc, left, timer, expired, verdict>>
allvars == <<stack, wait, calm, steady>>

Enough == 2  \* --synchronizers
MaxSteady == PollInterval + 1

WaitInit ==
    /\ TopologyInit
    /\ serving = FALSE /\ connected = 0 /\ restarts = FALSE /\ fatalLine = FALSE
    /\ watermark = FALSE
    /\ want \in Wants
    /\ stage = "health" /\ pc = "idle"
    /\ left = 0 /\ timer = 0 /\ expired = FALSE
    /\ verdict = "none"
    /\ calm = FALSE /\ steady = 0

Within(places) == pc \in places /\ UNCHANGED <<stack, want>>

Ends(how) ==
    /\ pc' = "idle" /\ verdict' = how
    /\ stage' = "health" /\ left' = 0 /\ timer' = 0 /\ expired' = FALSE
    /\ calm' = FALSE /\ steady' = 0

Goes(place, time) ==
    /\ pc' = place /\ timer' = time
    /\ UNCHANGED <<stage, left, expired, verdict, calm>>

Enters(loop, place, time) ==
    /\ stage' = loop /\ pc' = place /\ timer' = time
    /\ UNCHANGED <<left, expired, verdict, calm, steady>>

----------------------------------------------------------------------------
(* The stages.                                                             *)

StartWait ==
    /\ pc = "idle"
    /\ stage' = "health" /\ pc' = "probing"
    /\ left' = Timeout /\ timer' = RequestTimeout /\ expired' = FALSE
    /\ verdict' = "none"
    /\ calm' = TRUE /\ steady' = 0
    /\ UNCHANGED <<stack, want>>

\* waitForPqsWatermark: a slot without a pipeline is refused.
EntersPqs ==
    IF want.slot \in PqsSlots THEN Enters("pqs", "querying", 0) ELSE Ends("failed")

\* resolveSlotEndpoints reads the file for the further waits.
Further ==
    CASE ~Loads(file) -> Ends("failed")
      [] Loads(file) /\ want.syncs -> Enters("syncs", "minting", RequestTimeout)
      [] OTHER -> EntersPqs

\* Fault: a further wait is entered only when both are asked for.
AfterHealthSkipping == IF want.syncs /\ want.pqs THEN Further ELSE Ends("ready")

AfterHealth == IF want.syncs \/ want.pqs THEN Further ELSE Ends("ready")

AfterSyncs == IF want.pqs THEN EntersPqs ELSE Ends("ready")

----------------------------------------------------------------------------
(* health.WaitReady and startupfatal.Check.                                *)

ProbeReady == Within({"probing"}) /\ serving /\ AfterHealth

\* No answer in time, none at all, or one other than 200.
ProbeFails ==
    /\ Within({"probing"})
    /\ ~serving \/ timer = 0 \/ left = 0
    /\ Goes("inspecting", 0) /\ UNCHANGED steady

\* docker may not answer, and is stopped at the deadline.
InspectFails ==
    /\ Within({"inspecting", "reading"})
    /\ Goes("pausing", 0) /\ UNCHANGED steady

Inspect ==
    /\ Within({"inspecting"})
    /\ Goes(IF restarts THEN "reading" ELSE "pausing", 0)
    /\ UNCHANGED steady

\* Fault: a container that restarts is taken for one that cannot start.
FatalOnRestart ==
    /\ Within({"reading"})
    /\ Ends("fatal")

ReadLogs ==
    /\ Within({"reading"})
    /\ IF fatalLine THEN Ends("fatal") ELSE Goes("pausing", 0) /\ UNCHANGED steady

\* The wait is given up early when it cannot last for another interval.
Pause ==
    /\ Within({"pausing"})
    /\ IF left < PollInterval THEN Ends("timeout")
       ELSE Goes("napping", PollInterval) /\ UNCHANGED steady

\* Fault: the sleep is slept out, whatever the deadline.
SleepOut == Within({"napping"}) /\ left = 0 /\ Goes("napping", 0) /\ UNCHANGED steady

\* select: the deadline and the end of the sleep may coincide.
Expire == Within({"napping"}) /\ left = 0 /\ Ends("timeout")

Wake ==
    /\ Within({"napping"})
    /\ timer = 0
    /\ CASE stage = "health" -> Goes("probing", RequestTimeout)
         [] stage = "syncs" -> Goes("polling", RequestTimeout)
         [] stage = "pqs" -> Goes("querying", 0)
    /\ UNCHANGED steady

----------------------------------------------------------------------------
(* waitForSynchronizers.                                                   *)

\* The SV's HS256 token is signed here, the others' come from keycloak.
Mint ==
    /\ Within({"minting"})
    /\ want.slot = SV \/ Shared("keycloak") \in containers
    /\ Goes("polling", RequestTimeout) /\ UNCHANGED steady

\* Not retried.
MintFails == Within({"minting"}) /\ Ends("failed")

\* Fault: one more synchronizer than asked for.
MoreThanEnough == connected > Enough

AreEnough == connected >= Enough

PollAnswered ==
    /\ Within({"polling"})
    /\ serving /\ ~expired
    /\ IF AreEnough THEN AfterSyncs ELSE Goes("pausing", 0) /\ UNCHANGED steady

\* A token that has expired is not replaced.
PollUnauthorized ==
    /\ Within({"polling"})
    /\ serving /\ expired
    /\ Goes("pausing", 0) /\ UNCHANGED steady

PollFails == Within({"polling"}) /\ Goes("pausing", 0) /\ steady' = 0

----------------------------------------------------------------------------
(* pqs.WaitWatermark.                                                      *)

QueryAnswered ==
    /\ Within({"querying"})
    /\ Core \in containers
    /\ IF watermark THEN Ends("ready")
       ELSE Goes("napping", PollInterval) /\ UNCHANGED steady

QueryFails == Within({"querying"}) /\ Goes("napping", PollInterval) /\ UNCHANGED steady

----------------------------------------------------------------------------
(* Time. Every call ends at the wait's deadline, a request at its own too; *)
(* how long a token lives is the issuer's affair.                          *)

Timed == {"probing", "minting", "polling", "napping"}
Decrement(n) == IF n = 0 THEN 0 ELSE n - 1

Elapse ==
    /\ pc \notin {"idle", "pausing"}
    /\ left > 0
    /\ pc \in Timed => timer > 0
    /\ left' = left - 1 /\ timer' = Decrement(timer)
    /\ \E gone \in {FALSE, stage = "syncs"} : expired' = (expired \/ gone)
    /\ steady' = IF stage = "syncs" /\ serving /\ connected >= Enough /\ steady < MaxSteady
                 THEN steady + 1 ELSE steady
    /\ UNCHANGED <<stack, want, stage, pc, verdict, calm>>

----------------------------------------------------------------------------
(* The stack.                                                              *)

Fresh(new) ==
    IF new
    THEN serving' = FALSE /\ connected' = 0 /\ restarts' = FALSE /\ fatalLine' = FALSE
    ELSE UNCHANGED container

\* A container whose variables have changed, of which `applied` holds a part,
\* is made anew.
UpRuns ==
    /\ \E flags \in Flags, done \in BOOLEAN : Up(flags, done)
    /\ \E new \in {TRUE, Core \notin containers \/ applied' # applied} : Fresh(new)
    /\ calm' = FALSE /\ steady' = 0
    /\ UNCHANGED <<watermark, wait>>

MakeUpRuns ==
    /\ \E scribes \in SUBSET PqsSlots : MakeUp(scribes)
    /\ \E new \in {TRUE, Core \notin containers \/ applied' # applied} : Fresh(new)
    /\ calm' = FALSE /\ steady' = 0
    /\ UNCHANGED <<watermark, wait>>

\* The watermarks are in a volume.
DownRuns ==
    \E flags \in Flags, volumes \in BOOLEAN :
        /\ Down(flags, volumes)
        /\ Fresh(TRUE)
        /\ watermark' = (watermark /\ ~volumes)
        /\ calm' = FALSE /\ steady' = 0
        /\ UNCHANGED wait

Edits ==
    /\ \E f \in Files \cup {NoFile} : EditFile(f)
    /\ UNCHANGED <<container, watermark, wait, calm, steady>>

Outside == UNCHANGED <<topology, wait>>

Serve ==
    /\ Core \in containers /\ ~serving
    /\ serving' = TRUE
    /\ UNCHANGED <<connected, restarts, fatalLine, watermark, calm, steady>> /\ Outside

\* The participant goes away, and its connections with it.
Falter ==
    /\ serving
    /\ serving' = FALSE /\ connected' = 0 /\ calm' = FALSE /\ steady' = 0
    /\ UNCHANGED <<restarts, fatalLine, watermark>> /\ Outside

\* The second synchronizer is the one --multi-sync brings up.
Connect ==
    /\ serving
    /\ \/ connected = 0
       \/ connected = 1 /\ Shared("sync") \in containers
    /\ connected' = connected + 1
    /\ UNCHANGED <<serving, restarts, fatalLine, watermark, calm, steady>> /\ Outside

\* splice exits over the mismatch, or for a reason a restart does cure.
SpliceDies ==
    /\ Core \in containers
    /\ restarts' = TRUE /\ fatalLine' = (fatalLine \/ Mismatch)
    /\ UNCHANGED <<serving, connected, watermark, calm, steady>> /\ Outside

SpliceBootstraps ==
    /\ Core \in containers
    /\ Bootstrap
    /\ UNCHANGED <<container, watermark, wait, calm, steady>>

\* The scribe of the slot streams its first transaction.
Stream ==
    /\ serving /\ Group("pqs", want.slot) \in containers
    /\ ~watermark /\ watermark' = TRUE
    /\ UNCHANGED <<container, calm, steady>> /\ Outside

Probing == ProbeReady \/ ProbeFails \/ InspectFails \/ Inspect \/ ReadLogs
Polling == Mint \/ MintFails \/ PollAnswered \/ PollUnauthorized \/ PollFails
Querying == QueryAnswered \/ QueryFails
Pausing == Pause \/ Expire \/ Wake

Wait == Probing \/ Polling \/ Querying \/ Pausing
Commands == UpRuns \/ MakeUpRuns \/ DownRuns \/ Edits
Stack ==
    \/ Serve \/ Falter \/ Connect
    \/ SpliceDies \/ SpliceBootstraps \/ Stream

WaitNext ==
    \/ StartWait \/ Wait \/ Elapse \/ Commands \/ Stack

WaitSpec == WaitInit /\ [][WaitNext]_allvars

\* Time passes, and a wait goes on once its request, command or sleep is over.
Fairness == WF_allvars(Wait) /\ WF_allvars(Elapse)
FairSpec == WaitSpec /\ Fairness

----------------------------------------------------------------------------
(* Properties.                                                             *)

Reports(how) == pc # "idle" /\ pc' = "idle" /\ verdict' = how

\* Containers a down of these flags has no reason to take: the UI of a slot
\* the file has meanwhile turned off, and the second synchronizer unless asked
\* for.
Unselected(flags) ==
    LET o == DownOptions(flags) IN
        {Group("ui", s) : s \in Slots \ o.enabled}
        \cup If(~o.multiSync, {Shared("sync")})

\* A down leaves no PQS container behind, whichever slots' scribes were asked
\* for by ups or by `make up PQS_SLOTS=`, and whatever the file and the flags
\* are by now (down.go's Long, compose.go's Teardown).
DownLeavesOnlyUnselected ==
    [][commands' > commands /\ applied' = NotRunning =>
         \A flags \in Flags, volumes \in BOOLEAN :
             Down(flags, volumes) => containers' \subseteq Unselected(flags)]_allvars

\* A wait is broken off only while splice cannot start with the hints it was
\* given (startupfatal.go): not over the log of a container made anew since,
\* over a restart that helped, or over a hint the file has but splice has not.
AbortsForCause ==
    [][Reports("fatal") => Mismatch]_allvars

\* A wait that was not interfered with and reports ready found, in one moment
\* or in several, all it was asked for: an answering participant, both
\* synchronizers, and the watermark (waitready.go's RunE).
ReadyHolds ==
    [][Reports("ready") /\ calm =>
         /\ serving /\ Core \in containers
         /\ want.syncs => connected = Enough /\ Shared("sync") \in containers
         /\ want.pqs => watermark]_allvars

\* A wait for the synchronizers times out only if the participant has not been
\* connected to them, and answering, for longer than an interval, or if the
\* token minted once for the stage has expired (waitForSynchronizers).
SyncTimeoutHasCause ==
    [][Reports("timeout") /\ stage = "syncs" =>
         steady <= PollInterval \/ expired]_allvars

\* A wait ends, whatever happens to the stack, docker and keycloak meanwhile.
WaitEnds == pc # "idle" ~> pc = "idle"

=============================================================================
