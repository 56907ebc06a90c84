---------------------------- MODULE EnvSnapshot ----------------------------
(***************************************************************************)
(* The steps of a job that run `canton-localnet env --format github`       *)
(* (env.go, env_summary.go, auth.go, internal/slot). What a step appends   *)
(* to $GITHUB_ENV is in the process environment of the steps after it, and *)
(* the environment takes precedence when they resolve their slots: over    *)
(* canton-localnet.yaml, over the oauth2.env of compose, over a default.   *)
(*                                                                         *)
(* A client stands for its id, its secret and its user, but each of them   *)
(* is looked up by itself, so that a source may name one without another.  *)
(* A secret's text matters only for where its lines end.                   *)
(***************************************************************************)
EXTENDS Naturals, Sequences, FiniteSets

CONSTANTS
    Slots,         \* slots of slot.All()
    SV,            \* the slot with AuthKindHS256
    CiSlot,        \* the slot --ci-slot is for
    PqsSlots,      \* slot.PqsSlots()
    JobEnvs,       \* environments a job starts with
    Configs,       \* contents of canton-localnet.yaml and of the compose files
    Requests,      \* the flags of the steps
    DefaultClient, \* of a slot: its id and user; its secret is not known
    CiClient,      \* built in, of the --ci-slot given
    Tokens,        \* tokens minted
    Text,          \* of a secret: its text, a sequence of pieces
    MaxSteps,      \* bound: steps of the job
    MaxEdits       \* bound: changes of the files

\* A configuration is [yaml, compose, ci : layers; pqs : a password;
\* readable : BOOLEAN], ci being what compose has of the --ci-slot given; a
\* layer is a partial function on Keys, as the environment is. A request is
\* [slots : sequence; ci, jwt, offline, party, pqs : BOOLEAN].
ASSUME EnvAssumption ==
    /\ SV \in Slots /\ CiSlot \in Slots \ {SV} /\ PqsSlots \subseteq Slots
    /\ \A r \in Requests : r.slots \in Seq(Slots) /\ r.slots # <<>>
    /\ {MaxSteps, MaxEdits} \subseteq Nat

VARIABLES
    config,    \* the files
    jobEnv,    \* the environment of the next step: a function on Keys
    masked,    \* lines the runner masks
    summary,   \* the values in the run's report
    req,       \* the flags of the step
    phase,     \* where the step is
    at,        \* the slot it is at
    eps,       \* endpoints
    exports,   \* the variables so far: a sequence of [key, value, secret]
    token,     \* the token the slot's calls are made with
    steps,     \* steps so far
    edits,     \* changes of the files so far
    torn,      \* history: an append was cut short
    split,     \* history: slots of which a source had an id without its secret
    complete   \* history: slots the job set, or a step exported to the end

job == <<config, jobEnv, masked, summary>>
local == <<req, at, eps, exports, token>>
history == <<torn, split, complete>>
allvars == <<job, local, phase, steps, edits, history>>

Shared == "all"
Key(owner, field) == <<owner, field>>
\* Values are tuples: of a client its name, of an address its parts.
NoSecret == <<"none">>
NoToken == <<"none">>
NoScope == <<"none">>

Slot == req.slots[at]

\* A layer has of a slot the id and the secret of one client, or neither.
Paired(layer, s) ==
    {Key(s, "id"), Key(s, "secret")} \cap DOMAIN layer # {} =>
        /\ {Key(s, "id"), Key(s, "secret")} \subseteq DOMAIN layer
        /\ layer[Key(s, "id")] = layer[Key(s, "secret")]

Unpaired(layer) == {s \in Slots : ~Paired(layer, s)}
UnpairedIn(files) == UNION {Unpaired(layer) : layer \in {files.yaml, files.compose, files.ci}}

EnvInit ==
    /\ config \in Configs
    /\ jobEnv \in JobEnvs
    /\ masked = {} /\ summary = {}
    /\ req \in Requests
    /\ phase = "idle" /\ at = 1 /\ eps = <<>> /\ exports = <<>> /\ token = NoToken
    /\ steps = 0 /\ edits = 0
    /\ torn = FALSE
    /\ split = Unpaired(jobEnv) \cup UnpairedIn(config)
    /\ complete = {k[1] : k \in DOMAIN jobEnv} \ {Shared}

----------------------------------------------------------------------------
(* slot.Resolve, applyYAMLOverrides and slot.ResolveCI.                    *)

Or(key, fallback) == IF key \in DOMAIN jobEnv THEN jobEnv[key] ELSE fallback
OrShared(s, field, fallback) == Or(Key(s, field), Or(Key(Shared, field), fallback))

Pick(layer, key, fallback) == IF key \in DOMAIN layer THEN layer[key] ELSE fallback

\* Fault: the file takes precedence over the environment.
ConfiguredOverEnv(key, fallback) ==
    Pick(config.yaml, key, Or(key, Pick(config.compose, key, fallback)))

Configured(key, fallback) ==
    Or(key, Pick(config.yaml, key, Pick(config.compose, key, fallback)))

Resolve(s) ==
    LET host == Or(Key(Shared, "host"), <<"localhost">>) IN
        [slot |-> s,
         host |-> host,
         url |-> Or(Key(s, "url"), host \o <<s>>),
         audience |-> OrShared(s, "audience", <<"default">>),
         scope |-> OrShared(s, "scope", NoScope),
         id |-> Configured(Key(s, "id"), DefaultClient[s]),
         secret |-> Configured(Key(s, "secret"), NoSecret),
         user |-> Or(Key(s, "user"), Pick(config.compose, Key(s, "user"), DefaultClient[s]))]

OfCiSlot(key) == Or(key, Pick(config.ci, key, CiClient))

\* Fault: the secret stays that of the slot's own client.
ResolveCIWithoutSecret(ep) ==
    [ep EXCEPT !.id = OfCiSlot(Key(ep.slot, "id")),
               !.user = OfCiSlot(Key(ep.slot, "user"))]

ResolveCI(ep) ==
    [ep EXCEPT !.id = OfCiSlot(Key(ep.slot, "id")),
               !.secret = OfCiSlot(Key(ep.slot, "secret")),
               !.user = OfCiSlot(Key(ep.slot, "user"))]

Endpoint == IF req.ci THEN ResolveCI(Resolve(Slot)) ELSE Resolve(Slot)

\* requireCredentialContract, and the refusals of ResolveCI and --pqs.
Accepts(ep) ==
    /\ config.readable
    /\ ep.slot # SV /\ ep.secret # NoSecret
    /\ req.ci => ep.slot = CiSlot
    /\ req.pqs => ep.slot \in PqsSlots

----------------------------------------------------------------------------
(* The variables of a snapshot.                                            *)

Var(owner, field, value) == [key |-> Key(owner, field), value |-> value, secret |-> FALSE]
Secret(owner, field, value) == [key |-> Key(owner, field), value |-> value, secret |-> TRUE]

Unless(condition, sequence) == IF condition THEN <<>> ELSE sequence

GlobalVars(ep) ==
    <<Var(Shared, "host", ep.host), Var(Shared, "audience", ep.audience)>>
    \o Unless(ep.scope = NoScope, <<Var(Shared, "scope", ep.scope)>>)

\* PQS passwords come from common.env and are not looked up in the environment
\* under the name they are exported by.
StaticVars(ep) ==
    <<Var(ep.slot, "url", ep.url), Var(ep.slot, "id", ep.id),
      Secret(ep.slot, "secret", ep.secret),
      Var(ep.slot, "audience", ep.audience), Var(ep.slot, "user", ep.user)>>
    \o Unless(ep.scope = NoScope, <<Var(ep.slot, "scope", ep.scope)>>)
    \o Unless(~req.pqs, <<Secret(ep.slot, "pqs", config.pqs)>>)

SecretVars == {exports[i].value : i \in {j \in DOMAIN exports : exports[j].secret}}

\* The secrets a step has: those it exports, and its token.
Secrets == SecretVars \cup ({token} \ {NoToken})

\* The environment the first n variables make; of two with one name, the last.
Exported(n) ==
    LET keys == {exports[i].key : i \in 1 .. n}
        last(k) == CHOOSE i \in 1 .. n :
            exports[i].key = k /\ \A j \in i + 1 .. n : exports[j].key # k
    IN  [k \in keys \cup DOMAIN jobEnv |->
            IF k \in keys THEN exports[last(k)].value ELSE jobEnv[k]]

----------------------------------------------------------------------------
(* githubMaskCallback and the runner that reads its commands.              *)

CR == "cr"
LF == "lf"
LineEnds == {CR, LF}
PercentOA == "%0A"     \* these three characters, in a secret
Escaped == "%250A"

Runs(text, ends) ==
    {SubSeq(text, line[1], line[2]) : line \in
        {p \in (DOMAIN text) \X (DOMAIN text) :
            /\ p[1] <= p[2]
            /\ \A k \in p[1] .. p[2] : text[k] \notin ends
            /\ p[1] = 1 \/ text[p[1] - 1] \in ends
            /\ p[2] = Len(text) \/ text[p[2] + 1] \in ends}}

SplitSecretLines(text) == Runs(text, LineEnds)

EscapeData(line) == [i \in DOMAIN line |-> IF line[i] = PercentOA THEN Escaped ELSE line[i]]

\* External: the runner.
Unescape(data) ==
    [i \in DOMAIN data |->
        CASE data[i] = Escaped -> PercentOA
          [] data[i] = PercentOA -> LF
          [] OTHER -> data[i]]

Masks(secrets) ==
    UNION {{Unescape(EscapeData(line)) : line \in SplitSecretLines(Text[v])} : v \in secrets}

\* A client's id and secret, a password and a token are one word each, and
\* none is the name of a host. Escaped stands for what EscapeData makes.
IsName(value) == value \in Seq(STRING) /\ value # <<>>
IsAddress(value) == IsName(value) /\ value \notin DOMAIN Text

WellTyped(layer) ==
    \A k \in DOMAIN layer :
        /\ k[2] = "secret" => layer[k] \in DOMAIN Text
        /\ k[2] \in {"host", "url"} => IsAddress(layer[k])
        /\ k[2] = "user" => IsName(layer[k])

ASSUME ValuesAssumption ==
    /\ Slots \subseteq STRING
    /\ DefaultClient \in [Slots -> Seq(STRING) \ {<<>>}]
    /\ IsAddress(<<"localhost">>) /\ IsName(<<"party">>) /\ NoSecret \notin DOMAIN Text
    /\ \A v \in DOMAIN Text :
          /\ IsName(v) /\ Len(v) = 1
          /\ Text[v] \in Seq(STRING) /\ \A i \in DOMAIN Text[v] : Text[v][i] # Escaped
    /\ CiClient \in DOMAIN Text /\ Tokens \subseteq DOMAIN Text
    /\ \A c \in Configs :
          /\ c.pqs \in DOMAIN Text
          /\ WellTyped(c.yaml) /\ WellTyped(c.compose) /\ WellTyped(c.ci)
    /\ \A env \in JobEnvs : WellTyped(env)

----------------------------------------------------------------------------
(* The step.                                                               *)

\* A step that has ended keeps nothing.
Ends ==
    /\ phase' = "idle" /\ at' = 1 /\ eps' = <<>> /\ exports' = <<>> /\ token' = NoToken
    /\ UNCHANGED req

Fails ==
    /\ phase # "idle"
    /\ Ends
    /\ UNCHANGED <<job, steps, edits, history>>

Begin ==
    /\ phase = "idle" /\ steps < MaxSteps
    /\ steps' = steps + 1
    /\ req' \in Requests
    /\ phase' = "resolving"
    /\ UNCHANGED <<job, at, eps, exports, token, edits, history>>

\* The files are read for each slot.
ResolveSlot ==
    /\ phase = "resolving"
    /\ Accepts(Endpoint)
    /\ LET ep == Endpoint
           global == Unless(at > 1, GlobalVars(ep))
       IN  /\ eps' = Append(eps, ep)
           /\ exports' = global \o exports \o StaticVars(ep)
    /\ IF at < Len(req.slots) THEN at' = at + 1 /\ phase' = phase
       ELSE at' = 1 /\ phase' = "masking"
    /\ UNCHANGED <<job, req, token, steps, edits, history>>

Mask ==
    /\ phase = "masking"
    /\ masked' = masked \cup Masks(SecretVars)
    /\ phase' = IF req.jwt \/ req.party THEN "minting" ELSE "appending"
    /\ UNCHANGED <<config, jobEnv, summary, local, steps, edits, history>>

\* stdout breaks off.
MaskFails ==
    /\ phase \in {"masking", "maskingJwt"}
    /\ \E some \in SUBSET SecretVars : masked' = masked \cup Masks(some)
    /\ Ends
    /\ UNCHANGED <<config, jobEnv, summary, steps, edits, history>>

\* With --party alone the token is neither exported nor masked.
Mint ==
    /\ phase = "minting"
    /\ token' \in Tokens
    /\ exports' = exports \o Unless(~req.jwt, <<Secret(Slot, "jwt", token')>>)
    /\ phase' = IF req.jwt THEN "maskingJwt" ELSE "findingParty"
    /\ UNCHANGED <<job, req, at, eps, steps, edits, history>>

\* Fault: a token is masked with the variables it is exported with.
MaskJwtLater ==
    /\ phase = "maskingJwt"
    /\ phase' = IF req.offline THEN "findingParty" ELSE "findingParticipant"
    /\ UNCHANGED <<job, local, steps, edits, history>>

MaskJwt ==
    /\ phase = "maskingJwt"
    /\ masked' = masked \cup Masks({token})
    /\ phase' = IF req.offline THEN "findingParty" ELSE "findingParticipant"
    /\ UNCHANGED <<config, jobEnv, summary, local, steps, edits, history>>

FindParticipant ==
    /\ phase = "findingParticipant"
    /\ exports' = Append(exports, Var(Slot, "participant", <<"participant", Slot>>))
    /\ phase' = "findingParty"
    /\ UNCHANGED <<job, req, at, eps, token, steps, edits, history>>

\* Fault: a slot's variables are appended as soon as it is done.
NextSlotAppending ==
    /\ jobEnv' = Exported(Len(exports))
    /\ IF at < Len(eps) THEN at' = at + 1 /\ phase' = "minting"
       ELSE at' = at /\ phase' = "appending"

NextSlot ==
    /\ IF at < Len(eps) THEN at' = at + 1 /\ phase' = "minting"
       ELSE at' = at /\ phase' = "appending"
    /\ UNCHANGED jobEnv

FindParty ==
    /\ phase = "findingParty"
    /\ exports' = exports \o Unless(~req.party, <<Var(Slot, "party", <<"party">> \o eps[at].user)>>)
    /\ token' = NoToken
    /\ NextSlot
    /\ UNCHANGED <<config, masked, summary, req, eps, steps, edits, history>>

\* appendGithubEnv writes one variable at a time; the runner reads what there
\* is, also of a step that failed.
AppendEnv ==
    /\ phase = "appending"
    /\ jobEnv' = Exported(Len(exports))
    /\ complete' = complete \cup {eps[i].slot : i \in DOMAIN eps}
    /\ phase' = "reporting"
    /\ UNCHANGED <<config, masked, summary, local, steps, edits, torn, split>>

AppendTorn ==
    /\ phase = "appending"
    /\ \E n \in 1 .. Len(exports) - 1 :
          /\ jobEnv' = Exported(n)
          /\ split' = split \cup {s \in Slots : exports[n].key = Key(s, "id")}
    /\ torn' = TRUE
    /\ Ends
    /\ UNCHANGED <<config, masked, summary, steps, edits, complete>>

Reported == {"host", "url", "party"}
Summarize ==
    /\ phase = "reporting"
    /\ \/ UNCHANGED summary  \* no --summary-file
       \/ summary' = summary \cup {exports[i].value : i \in
              {j \in DOMAIN exports : ~exports[j].secret /\ exports[j].key[2] \in Reported}}
    /\ Ends
    /\ UNCHANGED <<config, jobEnv, masked, steps, edits, history>>

\* The files are written by other steps, or while this one runs.
Edit ==
    /\ edits < MaxEdits
    /\ edits' = edits + 1
    /\ config' \in Configs
    /\ split' = split \cup UnpairedIn(config')
    /\ UNCHANGED <<jobEnv, masked, summary, local, phase, steps, torn, complete>>

EnvNext ==
    \/ Begin \/ ResolveSlot \/ Mask \/ MaskFails \/ Mint \/ MaskJwt
    \/ FindParticipant \/ FindParty \/ AppendEnv \/ AppendTorn \/ Summarize
    \/ Fails \/ Edit

EnvSpec == EnvInit /\ [][EnvNext]_allvars

----------------------------------------------------------------------------
(* Properties.                                                             *)

Calling == {"minting", "findingParticipant", "findingParty"}
Known(v) == Runs(Text[v], LineEnds) \subseteq masked

\* Whatever the log prints from the first network call on, no line of it shows
\* a secret the step exports: a password or client secret is masked before any
\* call, a token before the call after its minting, all of them before
\* $GITHUB_ENV is written; and the run report has no secret at all (the
\* comments of githubMaskCallback and renderEnvSummary). The one exception is
\* a token that is not exported: with --party and without --jwt it is passed to
\* FetchPrimaryParty and masked nowhere, though the comment of resolveEnvVars
\* promises "a minted JWT masked before the very next call".
SecretsKept ==
    /\ phase \in Calling \cup {"appending", "reporting"} =>
          \A v \in Secrets : Known(v) \/ (v = token /\ ~req.jwt)
    /\ summary \cap DOMAIN Text = {}

\* What a job has of a slot stays: a later step that exports the slot again
\* exports the same endpoint, client, audience and scope, whatever happened to
\* the files and whichever slots it is asked for beside it or first (pick,
\* applyYAMLOverrides, ResolveCI). All that it may add to the slot is a scope
\* the slot had none of, and then the one that the job shares already, of
\* whichever slot that was: never one of another slot of the same step.
Static == {"url", "id", "secret", "audience", "user", "scope"}
StableExports ==
    [][/\ \A k \in DOMAIN jobEnv :
             k[1] # Shared /\ k[2] \in Static => jobEnv'[k] = jobEnv[k]
       /\ \A k \in DOMAIN jobEnv' \ DOMAIN jobEnv :
             k[1] # Shared /\ k[2] = "scope" =>
                 /\ Key(Shared, "scope") \in DOMAIN jobEnv
                 /\ jobEnv'[k] = jobEnv[Key(Shared, "scope")]]_allvars

\* The id and the secret a job has for a slot are those of one client, though
\* they are looked up apart, at times in other files, with or without
\* --ci-slot: unless a source itself had one of them without the other, or an
\* append was cut short between the two.
PairedUnlessSplit == Unpaired(jobEnv) \subseteq split

\* A step that fails at any of its slots exports nothing of any of them
\* (resolveEnvVars): unless it fails in the append itself.
NothingOfFailedSteps ==
    ~torn => {k[1] : k \in DOMAIN jobEnv} \ {Shared} \subseteq complete

=============================================================================
