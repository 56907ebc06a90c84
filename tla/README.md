# A TLA+ model of canton-localnet

TLA+ modules that model the stateful parts of this repository, TLC
configurations that check them on small instances, and TLAPS proofs of their
safety properties for every instance. Every definition is translated from the
source; `PROJECT.json` names, for each one, the lines it stands for.

    tlc -workers 2 -config TokenProvider.cfg MCTokenProvider    # one run
    tlapm TokenProviderProofs.tla                               # its proofs

A run takes between seconds and, for `stack`, two minutes.

## The system

canton-localnet boots a local Canton network (five validators: the super
validator `sv` and `a` to `d`) with Docker compose, and gives test suites what
they need to use it. Its parts, the state they keep and how they interact:

| Part | State | Operations | Talks to |
|---|---|---|---|
| CLI `up`, `down` (`cli/internal/compose`) | none of its own; the Docker daemon's containers and volumes | build a compose plan, run it | Docker |
| CLI `wait-ready` (`health`, `pqs`, `startupfatal`) | a deadline, the last answer | poll health, synchronizers, PQS watermark; abort on a fatal log | validators, Postgres, Docker logs |
| CLI `env`, `info`, `auth` (`slot`) | resolved endpoints of the slots | resolve, mint tokens, export | Keycloak, participants, `GITHUB_ENV` |
| CLI `rights list`, `rights prune` (`rights`) | a plan that was consented to | read, plan, ask, re-read, revoke, read back | one participant's user |
| CLI `tap` (`wallet`) | a retry loop's budget, the balance last read | login, balance, price, tap | Keycloak, a validator app's wallet |
| Composite action (`action.yml`, `action/*.sh`, `teardown/`) | `state.env`, one shared deadline, exported variables | reconcile, up with one retry, waits, export, teardown | the CLI, the runner's Docker daemon |
| Hetzner VM (`terraform/hetzner`) | the data volume: Docker's volumes and the state key | boot, keep or wipe, start, record | Docker, a schedule that destroys the server |
| Go fixture (`go/fixture`) | cached token and refresh in flight, validators by slot | tokens, DAR upload, parties, users | Keycloak, participants |
| C# package (`csharp/src`) | the same, and leases of rights | the same, leases granted and handed back | Keycloak, participants |
| Splice onboarding (`compose/modules/splice-onboarding`) | marker files in the container; users, rights and clients on the volumes | check, create, grant, mark done | participants, Keycloak, validator apps |

What is hard about it is not any single call. Many suites share one Keycloak
client, one service-account user and one participant, with no coordination
but what the participant answers. Requests time out in a client and are served
all the same. Servers, runners and jobs are killed anywhere, and Docker
volumes survive them. Waits stall for hours. `PROJECT.json` lists the hazards
at their lines with the properties that cover them.

What makes each part correct:

- token providers: one refresh in flight, nobody waits for nothing, a caller
  fails only for its own reasons, the token returned is alive;
- leases: nothing is left on the user silently, nobody's right is taken by
  another's hand-back, a hand-back can be retried to its end;
- prune: nothing is taken that was not agreed to, and the exit status is true;
- funding: an interrupted tap never mints twice, and one tap is enough;
- action: tests never see another boot's volumes, a failure is never green,
  the deadline is one;
- VM: a version never runs on another version's volumes;
- allocation: the party returned exists and is of the hint given, another
  caller's is taken only in doubt, a clear refusal leaves nothing behind;
- the C# token provider: one refresh at a time, none while the token in stock
  is fresh, a caller is refused only for its own reasons or at the provider's
  end;
- uploads: one reported as a success has its package vetted on every
  synchronizer it aimed at, whoever vetted it;
- up, down and waiting: a down leaves no PQS container behind, a wait ends,
  reports ready only what was there, and is broken off only over a stack that
  cannot start;
- exports: a failed step exports nothing, an exported secret is masked before it can be
  printed, a job keeps working against what it exported first;
- onboarding: all done means that users, rights and clients are there, a Scribe
  starts with its rights, and no failure keeps it from its end;
- (not modelled) a fixture is ready when it says so.

## The modules

Each component has a module of its own (`X.tla`), an instance for TLC
(`MCX.tla`, `X.cfg`) and its proofs, which are in `XProofs.tla` or, for two
components at a time, in `CliProofs` (RightsPrune, EnvSnapshot),
`CliWaitProofs` (WalletFunding, WaitReady) and `ProvisioningProofs` (BringUp,
Onboarding). The operators whose
comment starts with *Fault:* are the same step with a plausible bug in it;
none of them is part of a specification: they are there to check that the
property next to them in `PROJECT.json` can tell the difference.

### TokenProvider: `go/fixture/oauth2_token_provider.go`

The fields of the struct are variables (`cached`, `expiresAt`, `refreshing`,
`refreshDone`, `refreshErr`); channels are numbered and `closed` is the set of
closed ones. `pc` is where each goroutine is in `Token`: one action per
critical section (`ReturnCached`, `Follow`, `Lead`, `CopyOutcome`, `Publish`),
one per step taken without the mutex (`Wake` and `GiveUp` are the two cases of
the select, `Retry` and `ReturnJoined` what a follower decides on its copy).
`Mint` and `Receive` split the token request in two, because the clock runs
between the mint and the answer and the expiry counts from the answer.
`FetchFails` covers every error return of `fetchToken`; an error is `ctx` when
`errors.Is` would call it a context error. Tokens are told apart by when they
were minted.

Run `token_provider`: two goroutines, three calls, two ticks, one Invalidate,
a lifetime inside `RefreshSkew` and one beyond it. Three calls on two
goroutines are enough for a leader to fail, a second to lead and a follower of
the first to be late. Fairness: a runnable goroutine is scheduled (weak
fairness of each goroutine's own steps). That a token request ends is a
premise of `CallReturns` alone, because only a client with a timeout promises
it: `fixture.go` gives one of 30 s, a nil `HTTPClient` means
`http.DefaultClient`, which has none; a follower whose own context ends returns
without that premise, and `CallReturns` says so too. Calls are bounded, so a
follower can be overtaken only finitely often in the model; in the code each
retry follows another caller's failed call.

One run refutes what the code says. `token_nil_error`: a leader fails, its
follower is woken, a second leader takes the mutex first and clears
`refreshErr`, the follower reads no error and an empty cache and returns an
empty token with a nil error.

One behaviour the model has and no run checks: a refresh in flight during
`Invalidate` puts its token into the cache afterwards, though the comment of
`Invalidate` (line 160) says that the next call forces a refresh.

### RightsLease: leases of `csharp/.../UserBuilder.cs`

`grantor` is the participant's side: who put each right on the user. A lease's
`owned`, `attempts` are the fields of `UserRightsLease`; `pc`, `wire`,
`answer` the call it is in. A request is sent, served and answered in separate
steps; the client may stop waiting between any two, and a request that was not
served yet becomes an orphan that may be served later (`GrantLost`,
`RevokeLost`, `ServeOrphan`). `Settle` is the comparison in `DisposeAsync` with
both kinds of attempt; `Narrow` is `Own` and what follows it. Concurrent calls
of `DisposeAsync` on one lease are turned away by `_disposed` and change
nothing. A refused or lost call is a *fault*, of which there are
`MaxFaults`.

Run `rights_lease`: two leases, two rights, two faults, one unleased grant or
revoke: two faults are a lost revoke and a lost retry, or a lost answer on
each lease. `LeaseDrains` assumes that a call that began gets its answer or
times out (`HttpClient.Timeout`), and, as its premise, that the caller goes on
disposing a lease whose disposal threw. `OwnsOnlyItsGrants` allows for rights
that were taken off by somebody else since (`doubt`): the code cannot know.
After a revoke whose answer was lost, a second lease may therefore be granted a
right the first one still claims, which is more than the doc comment (lines
580-583) admits.

### RightsPrune: `canton-localnet rights prune`

One run of the command: `flags` holds the command line, the terminal and the
preserved party; `consented` and `live` are the two reads, and a plan is what
`Classify` makes of a read. Each read, prompt, request and answer is an action
of its own, with other suites granting and revoking in between; `Reread` is
one step with the revoke request it sends, as the code goes from the answer to
the request without leaving the function, and the participant serves the
request later. `late` is a revoke the client gave up on and the participant
has not served yet. `taken` and `gone` are history.

Run `rights_prune`: four rights (the three base rights of a user on its own
party and a leaked act-as right), either party preserved, both values of
`--max-revoke` around what is planned, two grants or revokes by others, every
combination of flags. A right that somebody else revokes between the second
read and the revoke is reported as unconfirmed though nobody holds it any more.
There is no liveness property: the command is a straight line of calls, each
with a 30 s timeout.

### WalletFunding: `canton-localnet tap`

`call` is the request the command is in, `reply` its answer, `waited` and
`backoff` the locals of `Retry.run`, which every call runs in anew
(`Proceed`). A 429 or a refused connection is `busy`, a 502, 503 or 504
`gateway`, anything else `error`; a `gateway` or `error` answer to a tap may
hide a mint (`ServeTap`). Decimals are integers: units of Amulet and of USD,
`Scale` units to one, so that rounding up to the last digit is real.
`Minted` is what the wallet mints at the price of the latest round to have
opened; `asked` is the clock `AmuletPrice` was called with, so that the gap
can be converted at a round's price and minted in the next.

Run `wallet_funding`: a target of 3 units with four to one Amulet, prices 3
and 8 over three rounds, a retry budget of 3 with waits of 1, 2 and a
Retry-After of 3, two fees, spends or credits, two runs of the command, either
flag. A price of 3 divides no gap evenly, so cutting off instead of rounding
up falls short. Fairness: the command runs, and a request is answered or times
out. The context of the command is taken not to be cancelled: `Retry.run`
would end earlier.

### ActionJob: the composite action

`containers` and `volumes` are what is on the runner's daemon, by the boot
that put it there; they outlive jobs. `left` is the shared deadline of
`boot.sh`, `limit` what `timeout` gives the command that runs; `Launch` is
`deadline_remaining` with the command it guards, and fails the boot when the
deadline has passed. `StartJob` begins a job on the same runner with an empty
`RUNNER_TEMP`, `BootAgain` is a second use of the action in one job, `Kill`
ends a job anywhere. `docker compose down -v` may stop with the containers
removed and the volumes not (`DownFails`). Readiness is an answer: `SlotReady`,
`Synced` and `WatermarkSet` are successful `wait-ready` calls, `WaitFails` an
unsuccessful one. The strict teardown is taken to be wired as documented, with
`if: always()`.

Run `action_job`: two boots (in one job or two), a slot with a PQS pipeline and
one without, both needed by multi-sync, three seconds of deadline with and
without an `up-timeout` of two. Two boots are what contamination takes; three
seconds are enough for both attempts of `up` and for the deadline to pass in
every stage. Fairness: time passes and the script goes on; nothing says that
`up` or a wait ever succeeds, so `BootEnds` rests on `timeout` alone.

### BringUp: `terraform/hetzner/scripts/bring-up-localnet.sh`

Servers are created with some version checked out (`Boot`) and destroyed
anywhere (`Destroy`); `writers` says which versions have written each Docker
volume since it was wiped, `keyFile` is the recorded version. The containers
have `restart: always` and Docker's state is on the data volume, so they come
back with the server and write before the script decides (`Write`). `make
clean` removes containers first and then volume after volume, and may fail or
be cut off anywhere. `unkept` is history: versions brought up and not
recorded since the last wipe.

Run `bring_up`: three versions, two volumes, four servers (a wipe cut off, a
bring-up cut off, and a boot after each). The script makes no progress
promise, so there is no liveness property.

What the model also has, and `unkept` allows for: a version that failed to come
up leaves the previous key in place, and going back to that version keeps the
volumes the failed one wrote, against the script's header (lines 14-16). That
sequence is an ordinary one: a `repo_ref` override lasts until the next
scheduled apply.

### PartyAllocation: `csharp/.../PartyAllocator.cs`

A call is `pc`, `hint`, `attempt`, `inconclusive` (`earlierAttemptInconclusive`)
and the answer it awaits, in the order of `PostWithRetryAsync`; a party is its
hint, and `creator` remembers which call's POST made it. A timeout leaves the
POST where it is: in `inbox` or `executing`, to be served when nobody waits.
The participant executes one POST per hint at a time and answers `exists`,
`in-flight`, a transient refusal or a final one; a gateway may answer 504 for
a POST that goes on; a party that exists reaches the listing later. Discovery
of the synchronizer and the token are answers, which may be failures; argument
checks, display names and the lengths of the delays are left out. `WithPrefix`
is the lookup's `StartsWith(hint + "::")`, which the `::` keeps from taking the
party of a longer hint.

Run `party_allocation`: two calls, on one hint or on two, three attempts. Three attempts are what the code's longest
story takes: a POST that is lost, one refused as in flight, one refused because
the party exists. What the run shows is how far the flag can be trusted: a call
in no doubt returns only its own party, and one refused in no doubt has nothing
left at the participant (`VerdictIsFinal`). It also shows the limit of
that: a call in doubt may return a party another caller made, because a first
POST refused as in flight counts as inconclusive whoever's POST was in flight.
Fairness: the call goes on and `HttpClient.Timeout` ends every request; nothing
is asked of the participant.

### Topology and WaitReady: `up`, `down` and `wait-ready`

`Topology` is the CLI's side of the stack. `file` is the `canton-localnet.yaml`
a command finds, which may change between two commands, `containers` the
containers that exist, told apart by the compose profile that starts them,
`applied` what canton and splice were started with and `recorded` the hint each
slot was bootstrapped with, in the volume. `Loads` and `Merged` are
`yamlconfig`, `Options` the flags over it (`flags.go`), `ComposeFiles`,
`Profiles` and `Env` what `compose.Build` makes of them; `Removed` is what
`docker compose down --remove-orphans` takes. `MakeUp` is `make up PQS_SLOTS=`,
which the CLI has to tear down as well. An up that fails is abstracted to one
that started the core only.

`WaitReady` is one `wait-ready` after another beside those commands and a stack
that serves, falters, connects, dies and bootstraps. `stage` is the loop the
command is in (`health.WaitReady` with `startupfatal.Check`,
`waitForSynchronizers`, `pqs.WaitWatermark`), `pc` the call it waits for, `left`
the deadline all three share, `timer` the request's own timeout or the sleep.
A select in which the deadline and the sleep coincide may go either way
(`Expire`, `Wake`). `calm` and `steady` are history.

Run `stack`: three slots (the SV; `a`, with PQS by default; `b`, without),
two commands, a timeout of 2, an interval and a request timeout of 1; files
that turn a slot or a flag off, that give a slot another hint, that turn the SV
off (refused), and none. Two commands are an up and what undoes it: a down with
other flags, an up with another hint, a down after an edit made before the up.
A timeout of 2 holds two polls, and a request that outlives the deadline.
Fairness: time passes and a wait goes on once its call or sleep is over; nothing
is asked of docker, keycloak or the stack. `ReadyHolds` is about waits nothing
interfered with (`calm`), because the three stages look at different moments.

What the model also shows, and the properties allow for: a watermark in the
volume answers at once, even where no scribe runs; the abort check is made in
the first stage only; the token of the second stage is minted once, so that the
stage times out when it expires; a `down --volumes` leaves the UI of a slot that
was turned off after the up, and the second synchronizer unless `--multi-sync`
is repeated; after an edit of the file, an up leaves the containers it no
longer selects.

### EnvSnapshot: `canton-localnet env --format github`

A job is a sequence of steps, each of which exports some slots. `jobEnv` is the
environment of the next step, `config` the files it resolves against, `exports`
the variables the step has so far, `token` the one its calls are made with,
`masked` the lines the runner masks. The sources are layers on the same keys: the
environment, the yaml, the compose file and, for `--ci-slot`, its own entries of
the compose file, each of which may have the id or the secret of a slot alone, as
the code looks each of them up by itself. `Resolve` is `slot.Resolve` with `applyYAMLOverrides`, `ResolveCI` what `--ci-slot` does,
`Accepts` the refusals; `Mask`, `Mint`, `MaskJwt`, `FindParticipant`,
`FindParty` and `AppendEnv` the order in which masking, network calls and
writing happen. A step may fail between any two (`Fails`), while it prints the
masks (`MaskFails`) and within the append (`AppendTorn`). Values are tuples
that name their client; a secret's text matters only for where its lines end,
which is what `githubMaskCallback` and the runner's own unescaping are about.

Run `env_snapshot`: three steps, one change of the files, two OAuth2 slots and
the SV, with and without `--ci-slot`, tokens, parties and PQS passwords, a job
that brings a client of its own, one that brings a secret alone, as the refusal of
`requireCredentialContract` (line 242) advises, and a yaml with the id or the secret
alone. Three steps are an export, one with `--ci-slot` and an export again. It
is a straight line, so there is no liveness property.

One behaviour the model has and no run asks for: the comment of `resolveEnvVars`
promises "a minted JWT masked before the very next call" (lines 141-142), but with
`--party` and without `--jwt` the token minted at line 204 is handed to
`FetchPrimaryParty` at line 225 and never masked. `token` and `Secrets` have this
token, and it is the one exception `SecretsKept` makes: every secret a step
exports is masked, which is what the help promises, and the report shows no
secret, that token included.

`PairedUnlessSplit` says that the program makes no pair of two clients out of
pairs, over all steps, files and flags. Out of anything else it may:
`split` collects the slots of which a source had an id without its
secret, a secret without its id or two that do not belong together, and those
whose append was cut between the two. In the run, a job with the secret of slot `a`
alone exports with `--ci-slot` the id of the CI client and its own secret, and
without it the id of the compose file and its own secret; each value has the
precedence that `ResolveCI` and `applyYAMLOverrides` document, and the two together
are nobody's. The theorem needs no assumption about it.

What the model also shows: `StableExports` leaves out the PQS password, which is
read from `common.env` and not from the environment it was exported to, and
what is shared by all slots, since the first slot of a step determines the
shared audience and scope. A slot that was exported without a scope is given, when
it is exported again, the shared one, of whichever slot that is: `StableExports`
allows for this and for no other addition. An exported client wins over a later
`--ci-slot`. The `sh` and `json` formats print to
stdout and keep nothing.

### TokenCache and DarUpload, with TokenService and PackageVetting

`TokenService` and `PackageVetting` are abstract specifications: what the
summaries of `OAuth2TokenProvider` and `DarUploader` (C#) promise their callers,
without semaphore, retries or requests. `TokenCache` and `DarUpload` are the
code.

In `TokenCache`, `at` is where a call of `GetAccessTokenAsync` is: the check
without the semaphore (`Peek`), `WaitAsync` (`Enter`, `Abandon`), the check with
it (`Check`), the fetch, and the `finally` (`Release`, which hands the semaphore
to a waiter, or `ReleaseThrows` when the provider has been disposed of).
`TokenService` sees of it the token in stock, the phase of each caller
(`PhaseOf`) and the token a caller is handed.

In `DarUpload` each upload asks the shared provider before every call, discovers
the connected synchronizers, posts its DAR for each of them (`Answer` is the
participant, which may have vetted the package though a 503 comes back), retries
503s with the same token, and reads the package back when every synchronizer
knew the version. `PackageVetting` is implemented under its own variables: the
sites an upload aims at, those it had its DAR vetted on, how it ended.

Run `dar_upload`: two uploads of DARs that share name and version, one that can
be cancelled and one that gives the id it expects, two synchronizers, two
attempts, tokens that live for 2 with a leeway of 1, one tick of the clock, and
`Dispose` anywhere. Two attempts are a POST that was served though its answer
was lost, and its retry; one tick makes the token stale between two calls of one
upload. Fairness: a request ends (`HttpClient.Timeout`) and a call that can go
on does. `UploadEnds` exempts a disposed provider: a `SemaphoreSlim` disposed of
leaves those who wait for it waiting.

What the model also shows: an upload that was accepted on one synchronizer and
found the version known on another reports `Uploaded` without reading its
package back, so the other may have vetted another DAR of that version; a POST
whose first answer was lost is reported as `AlreadyKnown`. `PackageVetting` says
no more than that. `UploadManyAsync`, a loop over files, is left out.

### Onboarding: `compose/modules/splice-onboarding`, oauth2 mode

The health check of the container is the script that onboards. `Program` is
what `health-check.sh` goes through: for each validator its `auth` section
(token and operator's party, read anew by every check), the cleanup of users,
for `a` the CI clients of the realm and their users, the discovery before the
upload of DARs, and then the PQS scripts; `Calls` are a section's requests, in
their order, and `markers` the files in `/tmp` that let a later check skip it.
`section` and `call` say where the check is. A request that fails ends the check
(`set -e`), unless `export X=$(...)` hides it or the status only decides what
comes next (`GoesOnWithout`); `code` is the status `create_user` and
`delete_user` go by. Docker kills a check that takes too long (`Killed`), and
what it had sent may still be served (`ServeOrphan`); `Restart` keeps `/tmp`,
`UpWithOthers` and `DownUp` do not. `ScribeStarts` waits for the container's
health the first time (`depends_on`), and not when the Scribe failed.

Run `onboarding`: validators `a` and `b`, two CI users, a PQS script that is
mounted or not, two failed calls or killed checks, one new start of the
container, volumes that are fresh or those of a release without CI users whose
PQS user could read as one party. Two faults are what it takes to get past the
cleanup in one check and into the CI users without a party in the next, or to
lose an answer and then that of the retry. Fairness: docker goes on
checking, and a call that does not fail is answered (weak fairness of the
check's own steps); late requests need not be served.

What the model also has, and the properties leave out: a check that cannot read
the operator's party goes on without it, and if the cleanup is marked already,
the first call to notice is the grant of rights, after a CI user was created with
an empty primary party; later checks find the user and leave it so, while the
test of the CI users (`ci_users_integration_test.go`, lines 44-46) expects the
operator there. A look-up of `delete_user` that fails is taken for an absent
user, and the cleanup is marked though `participant_admin` is there.
Left out are shared-secret mode, the wallet token and DSO party that the other
validators read and no script uses, the upload of DARs (none is mounted), and
users changed by others meanwhile.

## What is proved

For every value of the constants that their `ASSUME` allows, from the
specification alone:

| Module | Theorems | Argument |
|---|---|---|
| TokenProviderProofs | `TypeCorrect`, `RefreshesCoalesced`, `WakeupsNotLost`, `CancellationIsOwn`, `FreshTokensAlive` | `Inv` adds to the properties what a leader has in hand (`InHand`), that only leaders fetch (`LeadersLed`), and that the local expiry exceeds the server's by `RequestTimeout` at most (`ExpiryBound`) |
| RightsLeaseProofs | `TypeCorrect`, `NothingLeaks`, `OwnGrantsOnly` | `Inv` relates each request and answer on its way to what the lease owns and who granted it |
| CliProofs (RightsPrune) | `PruneTypeCorrect`, `OnlyConsentedTaken`, `MarkedUsersOnly`, `StatusTwo`, `StatusZero` | `PruneInv` says where in the command something can have been taken and bounds it by the plan |
| CliProofs (EnvSnapshot) | `SecretsKeptHolds`, `PairedHolds`, `NothingOfFailedStepsHolds`, `StableExportsHolds` | `EnvInv` follows the endpoints and the variables of a step: each variable is of a slot that is resolved, is not a secret if it is reported, and has the value the job has already or, for a scope it has not, the shared one (`VarsSound`); an id is followed by its secret, of one client unless the slot is `split`, in the sequence (`PairedVars`) before it is in the environment, and no source of a slot that is not `split` is half a pair (`JobSound`); and every secret is masked from the end of `Mask` on (`SecretsMasked`), an exported token from the end of `MaskJwt` on (`TokenInHand`) |
| ProvisioningProofs (BringUp) | `BringUpTypeCorrect`, `ChangedStartsFresh`, `KeyTells` | `BringUpInv` follows the containers and the writers through an interrupted wipe |
| ProvisioningProofs (Onboarding) | `DoneHolds`, `ScribesReadAllHolds` | `OnboardingInv` says that a marked section has had all its calls answered, and the current one those before `call` (`SectionsAchieved`), that a check leaves no section behind that it has to go through (`NoneLeftBehind`), and that a request which outlives its check can delete no user whose rights count (`OrphansDelete`) |
| CliWaitProofs (WalletFunding) | `FundingTypeCorrect`, `TapsMintOnce`, `GapIsCovered`, `RunningAgainHolds` | `FundingInv` ties the balance read, the price asked for and the amount on its way to the wallet; a lemma on rounding up and one on quotients carry the arithmetic. `FundedKept` adds that a funded wallet is read at the target |
| CliWaitProofs (Topology, WaitReady) | `DownHolds`, `AbortsHolds`, `ReadyIsReady`, `TimeoutHasCause` | `WaitInv` joins what the stack is (`StackSound`: who answers is in a container, a logged mismatch is still there), what the wait has found on its way to the stage it is in (`WaitSound`), and for how long the synchronizers have been connected when it last looked (`SteadySound`) |
| ActionJobProofs | `TypeCorrect`, `ExportsUncontaminated`, `TeardownsFind`, `GreenJobsClean` | `Accounted` says, step by step, whose volumes are on the daemon and when the saved state exists |
| DarUploadProofs | `SemaphoreHeldByOne`, `RefinesTokenService`, `RefinesPackageVetting` | initial states map to initial states and each step to a step or a stutter of the abstract specification, from two invariants: `TokenInv` (types, a token is in hand only between its fetch and its delivery, the semaphore has one holder who will release it) and `UploadInv` (what an upload has come to the end of is known at the participant) |
| PartyAllocationProofs | `TypeCorrect`, `HintsReturned`, `AdoptionsDoubtful`, `VerdictsFinal` | `Inv` counts the POSTs of a call: in no doubt it has sent one at most, so an answer to it leaves none (`AnswerInv`), and no two POSTs being executed share a hint (`PostsSent`) |

An invariant of a run is seldom inductive: `FreshMeansAlive` does not follow
from itself, because the step that fills the cache takes the token from a
leader's hands; the strengthening says what those hands can hold. The same
holds for `UncontaminatedExport` (the export happens long after the
reconciliation it rests on) and for `OneTapSuffices` (the amount was computed
two calls before the mint). The proofs are laid out as one lemma per group of
actions, with one case per action.

`DoneMeansOnboarded` is the same once more: that a marker is there says nothing
of the rights, unless the call behind it was answered in this container or in
one before it, and no request left behind by a killed check undoes it. And
`SyncTimeoutHasCause` counts for how long the synchronizers have been connected
at the moment the deadline fires, which only the sum of that time and the pause
bounds: `steady + timer <= PollInterval` while the wait sleeps.

Six properties are about steps (`[][...]_vars`; here they are `StableExports`,
`ScribesReadAll` and those of `stack`, `WaitEnds` apart): they follow from the invariant
in the state before the step, with one case per action. For `StableExports` that
is the append, and the append that is torn: a lemma on folding the first `n`
variables into the environment (`ExportedSound`) serves both.

The assumptions on constants are named in the modules. These carry weight:

- `RequestTimeout <= RefreshSkew` (both 30 s in the code, set in different
  files), and `InitialBackoff <= MaxBackoff`;
- `ValuesAssumption` of EnvSnapshot: secrets, tokens among them, are single names
  with a text and thus differ from hosts and URLs, and no line of a secret
  reads like an escape of the runner. The code checks none of this. Which
  keys the environment and the files have is left open;
- `OnboardingAssumption`: `participant_admin` and the PQS user are not CI users,
  and there is a CI user. The scripts name them so.

A type invariant is proved in seven modules (`...TypeCorrect`). Where it is
proved for every instance the run does not check it again; the same goes for
`HintsReturned`. Two type theorems say more than types: the waits of a call of
`tap` stay within its budget, and no command of the action is given more seconds
than are left of the deadline.

Every safety invariant, every property of steps and both refinements that the
runs check are proved. What only TLC checks is liveness (`CallReturns`,
`LeaseDrains`, `CommandEnds`, `BootEnds`, `AllocationEnds`, `WaitEnds`,
`UploadEnds`, `OnboardingEnds`): it rests on fairness, whose `ENABLED` the prover
does not handle, so it holds of the files, requests, flags and faults of the
instances. `NilErrorCarriesToken` is a claim of a comment, which its run refutes.
The types of EnvSnapshot, Onboarding and WaitReady are proved as far as their
invariants need them (`EnvTypes`, `OnboardingTypes`, `StackSound`) and are not
stated as theorems of their own.

## Bounds

A bound on the number of calls, faults, boots, ticks or runs is a constant
named `Max...` and appears in a guard of the action it bounds; the proofs hold
for every value of it. Deadlock is checked in `stack`, where a wait can always
begin again, and nowhere else, because every other component may stop: calls,
commands, jobs and servers come to their end, and the bounds stop the
surroundings.

## What is not modelled, and the plan

In the order of what is next:

1. ActionJob's successful and failed waits, which are answers there, refined by
   WaitReady.
2. What the Go token provider promises, as an abstract specification. It is not
   `TokenService`: a caller that joined a refresh is refused when that one
   fails, and may be handed a token that is no longer fresh, or none.
3. Fixtures of both languages: readiness, validators by slot, disposal. The Go
   fixture reads its ready flag without the mutex it keeps its validators under.
4. The Go uploader, allocator and admin client, which make a single attempt each.
5. What is left of modelled parts: `UploadManyAsync`, `CreateUserAsync`, `rights
   list`, the `sh` and `json` formats of `env`, `auth token`, the diagnostics and
   the CLI download of the action.

Left out for good: printed layouts and log texts, the ssh argument list of
`tunnel`, Terraform resources, vendored Splice configuration, CI workflows. A
reader finds the full list, with reasons, under `components` in
`PROJECT.json`.
