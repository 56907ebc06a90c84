------------------------------ MODULE Topology ------------------------------
(***************************************************************************)
(* `canton-localnet up` and `down`: a canton-localnet.yaml is merged over  *)
(* the built-in defaults (internal/yamlconfig), the command's flags are    *)
(* added (flags.go), and the result becomes a docker compose command line  *)
(* (internal/compose): the files to load, the profiles to activate and the *)
(* variables of the containers. Between two commands the file may change.  *)
(*                                                                         *)
(* Containers are told apart by the compose profile that starts them.      *)
(***************************************************************************)
EXTENDS Naturals, FiniteSets, TLC

CONSTANTS
    Slots,            \* slot.All()
    SV,               \* slot.SVCanonical
    PqsSlots,         \* slot.PqsSlots()
    PqsDefaultSlots,  \* slot.PqsDefaultSlots()
    Hints,            \* party hints; a slot's default hint is the slot
    Files,            \* the canton-localnet.yaml files that are written
    NoFile,           \* no file is found on the way up
    Flags,            \* the flags up and down are given
    NoHint,           \* a volume in which a slot has not been bootstrapped
    MaxCommands       \* bound: ups, downs and edits of the file

\* A file holds the keys it sets: `set` of "obs", "pqs" and "multiSync",
\* `enabled` and `hint` of some slots. `sound` is whether it decodes, has the
\* known version and no unknown key, and its secret references resolve.
ASSUME TopologyAssumption ==
    /\ SV \in Slots
    /\ PqsDefaultSlots \subseteq PqsSlots
    /\ PqsSlots \subseteq Slots
    /\ Slots \subseteq Hints
    /\ NoHint \notin Hints
    /\ NoFile \notin Files
    /\ MaxCommands \in Nat

VARIABLES
    file,        \* the canton-localnet.yaml a command finds
    containers,  \* the containers that exist
    applied,     \* the variables canton and splice run with
    recorded,    \* the party hint each slot was bootstrapped with, in the volume
    commands     \* commands so far

topology == <<file, containers, applied, recorded, commands>>

Group(kind, slot) == [kind |-> kind, slot |-> slot]
Shared(kind) == Group(kind, SV)
Core == Shared("core")
Groups ==
    {Shared(k) : k \in {"core", "keycloak", "observability", "sync"}}
    \cup {Group("ui", s) : s \in Slots}
    \cup {Group("pqs", s) : s \in PqsSlots}

----------------------------------------------------------------------------
(* internal/yamlconfig: the file over the defaults.                        *)

Defaults ==
    [set |-> [obs |-> TRUE, pqs |-> TRUE, multiSync |-> FALSE],
     enabled |-> [s \in Slots |-> TRUE],
     hint |-> [s \in Slots |-> s]]

\* Parse and mergeValidator refuse a file that turns the SV off.
Loads(f) ==
    f # NoFile =>
        /\ f.sound
        /\ SV \in DOMAIN f.enabled => f.enabled[SV]

Merged(f) ==
    IF f = NoFile THEN Defaults
    ELSE [set |-> f.set @@ Defaults.set,
          enabled |-> f.enabled @@ Defaults.enabled,
          hint |-> f.hint @@ Defaults.hint]

EnabledSlots(cfg) == {s \in Slots : s = SV \/ cfg.enabled[s]}

----------------------------------------------------------------------------
(* flags.go and internal/compose: the command line.                        *)

\* Flags add to the file, they never take away.
Options(cfg, flags, teardown) ==
    [auth |-> flags.auth,
     obs |-> cfg.set["obs"] \/ flags.obs,
     pqs |-> cfg.set["pqs"] \/ flags.pqs,
     multiSync |-> cfg.set["multiSync"] \/ flags.multiSync,
     enabled |-> EnabledSlots(cfg),
     teardown |-> teardown]

If(condition, set) == IF condition THEN set ELSE {}

PqsDefaults(o) == {Group("pqs", s) : s \in o.enabled \cap PqsDefaultSlots}

\* Fault: the PQS profiles of a teardown are those an up would activate.
PqsProfilesOfUp(o) == If(o.pqs, PqsDefaults(o))

PqsProfiles(o) ==
    IF o.teardown THEN {Group("pqs", s) : s \in PqsSlots} ELSE If(o.pqs, PqsDefaults(o))

\* Every slot's profile also starts the shared core.
Profiles(o) ==
    {Core}
    \cup {Group("ui", s) : s \in o.enabled}
    \cup If(o.auth = "oauth2", {Shared("keycloak")})
    \cup PqsProfiles(o)
    \cup If(o.obs, {Shared("observability")})
    \cup If(o.multiSync, {Shared("sync")})

ComposeFiles(o) ==
    {"core", "ui", "sync"}
    \cup If(o.auth = "oauth2", {"keycloak"})
    \cup If(o.pqs \/ o.teardown, {"pqs"})
    \cup If(o.obs, {"observability"})

\* Config.Env: what the containers of the core are started with. The hint of
\* the SV is emitted and read by nothing.
Env(cfg) == [enabled |-> EnabledSlots(cfg), hint |-> cfg.hint]
NotRunning == [enabled |-> {}, hint |-> [s \in Slots |-> s]]

----------------------------------------------------------------------------
(* docker compose.                                                         *)

Defined(o) == {g \in Groups : g.kind \in ComposeFiles(o)}
Active(o) == Defined(o) \cap Profiles(o)

\* A container whose service the loaded files do not define is an orphan; one
\* of a defined service whose profile is not active is left alone.
Removed(o) == Active(o) \cup (Groups \ Defined(o))

Mismatch ==
    \E s \in applied.enabled \ {SV} : recorded[s] \notin {NoHint, applied.hint[s]}

----------------------------------------------------------------------------
(* The commands.                                                           *)

TopologyInit ==
    /\ file \in Files \cup {NoFile}
    /\ containers = {}
    /\ applied = NotRunning
    /\ recorded = [s \in Slots |-> NoHint]
    /\ commands = 0

CountCommand ==
    /\ commands < MaxCommands
    /\ commands' = commands + 1

\* An up that fails or runs into its --timeout has started a part of the
\* containers, of which the core is the first.
Up(flags, done) ==
    LET cfg == Merged(file)
        o == Options(cfg, flags, FALSE)
    IN  /\ CountCommand
        /\ Loads(file)
        /\ containers' = containers \cup (IF done THEN Active(o) ELSE {Core})
        /\ applied' = Env(cfg)
        /\ UNCHANGED <<file, recorded>>

\* `make up PQS_SLOTS=...`: all slots, no file, and the scribes it names.
MakeUp(scribes) ==
    LET o == Options([Defaults EXCEPT !.set = [x \in DOMAIN @ |-> FALSE]],
                     [auth |-> "oauth2", obs |-> FALSE, pqs |-> FALSE, multiSync |-> FALSE],
                     FALSE)
    IN  /\ CountCommand
        /\ containers' = containers \cup Active(o) \cup {Group("pqs", s) : s \in scribes}
        /\ applied' = Env(Defaults)
        /\ UNCHANGED <<file, recorded>>

DownOptions(flags) == Options(Merged(file), flags, TRUE)

Down(flags, volumes) ==
    /\ CountCommand
    /\ Loads(file)
    /\ containers' = containers \ Removed(DownOptions(flags))
    /\ applied' = NotRunning
    /\ recorded' = IF volumes THEN [s \in Slots |-> NoHint] ELSE recorded
    /\ UNCHANGED file

EditFile(f) ==
    /\ CountCommand
    /\ f # file
    /\ file' = f
    /\ UNCHANGED <<containers, applied, recorded>>

\* splice bootstraps the validators of the slots whose volume is empty.
Bootstrap ==
    LET new == {s \in applied.enabled \ {SV} : recorded[s] = NoHint} IN
        /\ new # {}
        /\ recorded' = [s \in Slots |-> IF s \in new THEN applied.hint[s] ELSE recorded[s]]
        /\ UNCHANGED <<file, containers, applied, commands>>

=============================================================================
