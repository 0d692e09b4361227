# dva: verification project

TLA+ models, TLC runs and TLAPS proofs for
`github.com/ScriptonBasestar/dva`, the "developer environment" command line
program whose source is under `src/`. Paths below are relative to `src/`.

## 1. The system

`dva` is one Go binary. Each invocation is one operating-system process; the
processes of one user share state only through files (lock files, receipts, PID
files, claims) and through the processes they start. There is no daemon: what
looks like a service here is a *protocol between short-lived processes over a
directory*, and that is where most of the hard behaviour is.

| Component | Source | State it keeps | Operations |
|---|---|---|---|
| CI run locks | `internal/cirun/locks.go`, `cirun.go` | one `flock`ed file per canonical root and per declared lock, holding the owner's run ID; one JSON receipt per run | `acquire`, `release`, `lockOwner` (probe), `checkParent`, `Run`, `Status` |
| CI step scheduler | `internal/cirun/cirun_steps.go` | status of every step, count of running goroutines, a completion channel | `execute` (skip, start, receive, fail fast, cancel), `checkpoint` |
| CI composition | `internal/cirun/composition*.go` | scope and grant files, child records, closing tombstones | `createGrant`, `admitComposition`, `acquireComposition`, `monitorComposition`, `drain`, `finishCompositionChild` |
| CI step reuse | `internal/cirun/ci_reuse.go` | a cache record per step with input and output digests | `reuseFor`, `runReusableStep`, `saveReuse` |
| OCI step execution | `internal/cirun/ociexec` | containers, scratch directories | build argv, run, clean up |
| Plan orchestration | `internal/lifecycle/composition_*.go`, `orchestrator*.go`, `plan_orchestrator.go` | a report per child of a composition | `Up` (waves, readiness gate, LIFO rollback), `Down`, `Stop`, `Status` |
| Plan resolution | `internal/lifecycle/resolver*.go` | none (pure) | `ResolvePlan`, `ResolvePlanAlias`, `MergePlanExtends`, `CalculateWaves` |
| Process plugin | `internal/lifecycle/process.go` | PID file and log file per service | `Up`, `Down`, `Stop`, `Status` |
| Health and readiness | `internal/lifecycle/health.go`, `composition_orchestrator.go` | none | `checkPass`, `WaitUntilReadyWithContext`, `waitEntryReady` |
| Tunnels | `internal/lifecycle/tunnel.go` | map of the `cloudflared` processes this manager started | `acquireContext`, `Close`, `CloseStatus` |
| Source fetch | `internal/lifecycle/source_fetch.go` | a clone cache | `ensureSource`, `requireSource` |
| Skill claims | `internal/skillclaim` | a claim file and a lock directory per destination | `AcquireLocks`, `Begin`, `CompareAndSwap`, `Remove`, `Transition` |
| Skill installation | `internal/skillinstall` | bundles, receipts | `Install`, `Uninstall`, `Status` |
| Takeover backups | `internal/skillinstall/takeover_backup*.go` | backups, tombstones in receipts, staging directories | `Install --takeover`, `Uninstall`, `Uninstall --restore-takeover-backup` |
| Agent deny rules | `internal/agentdeny` | rules in agents' configuration files, a receipt | deploy, undeploy, status |
| Secret transfer | `internal/secretpush` | a lock per destination, remote secrets | plan, push, verify |
| Remote artifact jobs | `internal/jobrun`, `ociverify`, `remotetarget` | a receipt and a lock per job | `run`, `status`, `resume`, `verify` |
| Environment files | `internal/cli/config_env*.go` | an encrypted source and a plaintext target per entry | `unseal`, `seal`, `reseal` |
| Gitignore block | `internal/cli/gitignore.go` | the lines of `.gitignore` | `ensureGitignore`, as `dva init` and `dva doctor --fix` call it |
| Command line | `internal/cli`, `cmd/dva` | provision markers | argument handling, provision steps, hooks |
| Configuration | `internal/config` | none (parsed YAML) | load, merge, validate |
| Runners, exec, output, logger | `internal/runner`, `exec`, `output`, `logger` | none | start commands, print |
| Repository tools | `tools`, `agent-mesh-flows`, `skills` | none | developer checks, prompt texts |

How they interact: the command line loads the configuration, resolves a plan and
hands it to the orchestrator, which calls plugins, which call the runners.
`dva ci run` takes the locks, runs the scheduler, and the scheduler's steps may
start further `dva ci run` processes (nesting is refused, composition is granted
explicitly). `dva skill` commands use the claim store for every destination they
write to. Nothing else is shared between components.

## 2. What is hard

* Liveness of another process is inferred from a file lock. A probe *takes* the
  lock for an instant, so probes disturb each other and disturb `acquire`.
* A result is written to disk in several steps (lock, truncate, write; start,
  PID file; reserve, replace, receipt, activate), and a crash can fall between
  any two of them.
* The scheduler mixes dependency propagation, a parallelism bound, fail-fast
  cancellation, an external deadline and checkpoint failures in one loop.
* Rollback and tear-down run while the caller is being cancelled.
* Two `dva` processes may run the same command at the same time.

The places where this bites most are listed, with their lines, under `hazards` in
`PROJECT.json`, each with the properties that would catch it going wrong. The list
keeps to the most telling ones of a component.

What makes each component correct, in a sentence each (the properties of the
modules say it precisely):

* **run locks**: two runs that share a root or a declared lock never execute at
  the same time, and what `status` says of a run is true of it;
* **scheduler**: a step starts only after what it depends on succeeded, never
  more than `max_parallel` at once, the receipt on disk knows what may be
  running, and nothing is left behind when the run returns;
* **composition**: a step reports success only when every run below it, at any
  depth, is gone and succeeded; a closed scope admits nobody;
* **skill claims and installation**: one writer per destination, what belongs to
  others stays, success is real and failure leaves what was there;
* **step reuse**: a reused result is what running the step again would give;
* **plan orchestration**: dependents come up after their dependencies are ready
  and are gone before them, and a failed `up` leaves nothing of its own running;
* **process plugin**: a PID file names a process of this service or nobody;
* **readiness**: an entry is ready only if a check passed inside its deadline;
* **secret transfer, remote jobs**: no receipt claims more than what was observed;
* **agent deny rules, environment files**: only what `dva` wrote is changed, and a
  file is either the old or the new one;
* **takeover backups**: what a person had at the place of a skill exists somewhere
  until it is back;
* **OCI steps**: no container is lost sight of, and a success was seen;
* **plan resolution**: what is validated can be brought up, a plan means what it means
  to the file that declares it, and a comparison splits what starts;
* **configuration**: a service gets the values that are declared for it, and an
  environment whose inputs fail is as if no file had been read;
* **gitignore block**: a clone never commits what `dva` leaves behind, and modules
  stay addable.

## 3. Plan

Modules in the order in which they were written.

| # | Module | Composes / implements | Status |
|---|---|---|---|
| 1 | `CiRunLocks` | implements `CiExclusion` | checked, proved |
| 2 | `CiScheduler` | implements `CiDag` | checked, safety proved |
| 3 | `CiComposition` | runs as in 1, steps as in 2, scopes between them | checked, safety proved |
| 4 | `SkillClaim` | the protocol of the claim store, as an abstract specification | used by 5 |
| 5 | `SkillInstall` | implements `SkillClaim` | checked, safety proved |
| 6 | `PlanWaves`, `PlanComposition` | the commands on a composition over the waves of its plan; implements `CompositionSaga` | checked, safety and refinement proved |
| 7 | `ProcessPlugin` | several invocations over one PID file | checked, proved |
| 8 | `SecretPush`, `JobRun` | a job extends the pushes it begins with | checked, proved |
| 9 | `CiReuse` | one run at a time, as 1 guarantees | checked, proved |
| 10 | `OciStep` | a step of 2 that runs in a container | checked, proved |
| 11 | `EnvBridge` | commands that meet over two files | checked, proved |
| 12 | `AgentDeny` | settings and receipt | checked, proved |
| 13 | `SkillTakeover` | one operation at a time, as 5 guarantees | checked, proved |
| 14 | `GitIgnore` | the literal reader against git's own rules | checked, proved |
| 15 | `PlanResolve` | from two files to the entries whose waves 6 takes | checked, proved |
| 16 | `EnvVars` | the variables of the entries of 15 | checked |
| 17 | `SourceFetch` | the git source of an entry of 15 | checked, proved |
| 18 | `Tunnels` | the tunnels of the entries of a command | checked, proved |

Modules planned next: `Provision` (markers against steps that fail), and the merge of two
configuration files.

## 4. How the modules are laid out

Every component is a module with its constants and one named assumption, its
variables, one action per handler or system call, `Next`, `Spec`, and its
properties at the end. `MC*.tla` gives constants their values, a `.cfg` is one
question. `*Proofs.tla` extends the component and has its theorems.
A definition commented "Faulty" is a plausible bug of the definition that follows
it (a dropped guard, a swapped order). `PROJECT.json` pairs it, under `mutants`,
with the property that it breaks; no specification uses it.

A step of a model is one system call where another process can see the
difference, and otherwise the whole stretch of code between two such calls.

`MCHost`, `MCCiSteps`, `MCPlaces` and `MCPlans` are *sums*: components that share no
state are instances of one module, and a variable `side` says which of them has the
behaviour to itself. A state of a sum is a state of one
component with the others as they began, so nothing is multiplied and nothing is
claimed of their interaction, of which there is none. In a sum each component
still has its own `Init`, `Next` and properties, with names of its own.

Properties that the theorems of section 13 establish and that need no run beside
them (`ExclusiveExecution`, `OwnerRecorded`, `NestedRunRefused`,
`LiveRunNeverStale`, `OneChildAtATime`, `ConfirmedMeansGone`, `ReceiptTruthful` of the
scheduler, `ClosedAdmitsNobody`, `DependencyOrder`, `CountersExact`, `ReceiptKnowsWhatRuns`,
`NothingLeftBehind`, `OnlyBlockedStepsSkipped`, `IndependentWorkGoesOn`,
`CycleIsReal`, `OneWriter`) are left to the proofs.

## 5. CI run locks: `CiRunLocks`, `CiExclusion`

*State.* `holder[k]` is the `flock` of the file of key `k` (a root or a declared
lock), `content[k]` the run ID inside it. `pc[a]` is where a run or a `status`
reader is; `cursor` is the last key `acquire` opened; `receipt[r]` the receipt.
*Actions.* `Start` is `Run` up to `checkParent`; the probe is taken apart into
`ProbeTake`, `ProbeGiveBack`, `ProbeContended` and `ProbeRead`, since it holds the
real lock for a moment. `TryLock`, `Truncate`, `WriteId`, `ReadOwner` and
`AcquireFails` are the loop body of `acquire`; `RecordRunning`, `Finish` and
`Release` are the rest of `Run`; `ReadReceipt` is `Status`. `Crash` can come at
any time: locks are dropped, files keep what they had.

`CiExclusion` is the promise: runs wait, become active when no run with a common
key is active, and leave. `ImplementsExclusion` maps `pc` to these phases.

| Run | Instance | Shows |
|---|---|---|
| `ci_locks_safety` | two runs of one root that share a declared lock, a run nested in the first that shares the other lock of the second, one `status` reader; 1.94 M states | `ImplementsExclusion`; `SomeRunGetsThrough`: contention alone never stops everybody, because all walk the keys in one order |

*Why this is enough.* The code compares runs only through shared keys: equal
roots, a declared lock shared across roots, and nesting are the three ways, and
all are in the first instance. Each process does one operation; a second one
would find files with old content, which a crashed or released run already leaves.
No lock call of this code blocks (`LOCK_NB`), so there is nothing to wait for and
no liveness to assume fairness for.

## 6. CI steps: `CiScheduler`, `CiDag`

*State.* `status` are the reports in memory, `disk` those of the last receipt that
could be written, `worker`/`result` the goroutine of a step, `running`, `complete`,
`failed` and `fatal` the variables of the loop, `outer`/`ctx` the caller's context
and the derived one, `receipt` the status of the whole run.
*Actions.* `Top`, `Skip`, `SkipsDone`, `Start`, `StartsDone`, `Receive`, `RunDry`
and `AllComplete` are the loop of `execute` in its order, with every checkpoint as
a choice of success or failure; `Prepare`, `Replay`, `Launch`, `LaunchFails`,
`Exit` and `Kill` the goroutine; `Finish` what `Run` does afterwards. `OuterEnds`
is the interrupt or the deadline.

`CiDag` is the promise: a step goes waiting, running, ended; it runs only when all
it depends on succeeded; after giving up nothing new starts.

| Run | Instance | Shows |
|---|---|---|
| `ci_sched_failfast` | five steps with a join, two at a time, `fail_fast`, one reusable step; commands need not end | `ImplementsDag`; `CancelledRunReturns`: a run that is called off returns, whatever its commands do |
| `ci_sched_continue` | a cycle and independent steps, `max_parallel: 9` (clamped), `fail_fast: false` | `RunReturns`: every run returns when its commands end |

*Why this is enough.* Two free places with three ready steps make every order of
starts and results occur; the join sees a success and a failure in both orders; a
dependency declared after its dependent exercises the repeated skip pass.
*Fairness.* The loop and the moves of a goroutine that nobody outside can hold up
(`FairSpec`). That a command ends by itself is assumed only in `EndingSpec`; a
command whose context is over ends because the runner kills it.

## 7. CI composition: `CiComposition`

*State.* Per run: `pc`, `canceled`, `receipt`, its child `record`; per root: `lock`
and `content` as above; per step with `child_ci`: the files `closed`, `cancel` and
the admission lock, whether its deadline `expired`, where its parent is (`phase`,
`shell`, `tainted`, `draining`) and its `result`.
*Actions.* A child: `Start`, `Admit`, `EnterAdmission`, `GiveUpWaiting`, `Verify`,
`CheckSiblings`, `Acquire`, `AcquireBusy`, `Register`, `RegisterFails`, `Monitor`,
`Interrupt`, `FinishRun`, `Release`, `RecordEnd`, `Crash`. The step: `OpenScope`,
`Expire`, `ShellEnds`, `Close`, `Drained`, `Escalate`, `GiveUpDraining`,
`DrainFails`. A probe is one step with every answer it can give, which is what
`CiRunLocks` shows a probe to be: a free lock that still has an ID can look held.

| Run | Instance | Shows |
|---|---|---|
| `ci_composition`, depth | run *a* has a step whose shell starts *b*, *b* one that starts *d*; *b* may get a signal; one crash or failing call; 133 k states | `SuccessIsComplete`, `OrphansEnd`, `CancelReachesLeaves` |
| `ci_composition`, width | the shell of *a* starts *b* and *c*, which need the same root; 22 k states | the same |

*Why this is enough.* Depth two is the first with a grandparent, so that loss of an
ancestor other than the parent, and success over two levels, occur; two siblings are the
first that compete for a scope and a root. One fault can fall at every place. The two
compositions are explored apart, since starting a run is up to the shell; together they
are left to the proofs (`OneChildHolds`, `SuccessHolds`), which are for any tree of runs.
*Fairness.* Weak fairness of what a live run does by itself (`Continues`): the
monitor's ticker, the loops of `locked` and `drain`, the end of its own code. It
is one formula per process because steps of one process that the model lists as
alternatives are steps of one program. The 15 s bound of `drain` and deadlines are
events that may come at any time; only the former must come.
*Left out.* Worker budgets, the depth limit of 8, the limit of 256 children, and
declared locks of children (`CiRunLocks` has them).

## 8. Skills: `SkillClaim`, `SkillInstall`, `SkillTakeover`

*State.* Shared: `lock` (lock directories), `claim`, `tree` (what is at the place
of a skill) and the `receipt`. Per process: `pc` is the phase of the operation
(`reserve`, `mark`, `swap`, `record`, `activate`, ... and the phases of the way
back), `left` the skills the phase still has to treat, `job` the request and what
was read, `base` the claims read under the locks, `aside` what is in the staging
directory, `mine` the reservations, `why` the phase that failed.
*Actions.* `Start` is the preflight, `Read` the unlocked look at the receipt that
decides which locks to take, `Mkdir` one lock, `Check` what is verified under the
locks, `WriteClaim` one claim write or removal with its compare-and-swap, `Look`
and `Place` the two halves of a replacement, `Stage` one staged removal,
`Undo`, `WriteReceipt`, `Clean`, `Release`. `FailsEarly`, `FailsLate`,
`BackFails`, `RestoreFails`, `CleanFails` and `ReleaseFails` are failing system
calls, before or after their effect; `Crash`, `RemoveStaleLock` and `AddTree` are
the rest of the world. `PhaseEnds` with `Following` and `WayBack` is the order of
the phases in the three flows (fresh install, update or upgrade, removal).

`SkillClaim` is what the claim store promises whoever writes: claims are created
reserved, move along the allowed transitions one generation at a time, are removed
only while releasing, and only under the lock of their skill.

| Run | Instance | Shows |
|---|---|---|
| `places`, installs | an old and a new release (the new bundle has one skill more), two consumers, three operations, one failing call; 462 k states | `ReadUnderLockStays`: what was verified under the locks stays true while they are held; `FailedMeansUndone` |
| `places`, takeovers | `SkillTakeover`, below; 228 k states | `OriginalsKept` |
| `skill_crash` | two failures, late ones too, one crash, locks removed by hand, foreign trees and claims; 1.03 M states | `SuccessIsReal`, `ForeignKept`, `FollowsProtocol` |

*Why this is enough.* The receipt is shared by all skills while locks are per
skill, so the interesting bundles are two that differ; two processes and three
operations give install, upgrade or second consumer, and uninstall over each
other. One failure covers every error path; two let the way back fail as well.
In `places` failures are early: a late failure of the receipt is set aside
(section 14, d). Lock acquisition does not wait but fails when the directory
exists, so nothing here needs fairness.

**`SkillTakeover`** has one operation at a time, as `SkillInstall` shows that the
locks see to. *State.* `place` (what is at a skill's place), `stage` (captured
originals, dva's trees, copies), `backup` (the published backups), `deed` (the
receipt and the trees its manifests describe), `hold` (the claims), `taker` (the
operation: its phase, what it still has to treat, what it read), `kept` (artefacts
that operations left behind). *Actions.* `ListForeign`, `Capture`, `Publish`, `Fill`
and `RecordTakeover` are an install with `--takeover`, `Unfill`, `GiveBack`,
`DiscardBackup` and `Unrecord` its way back; `SetAside`, `PutBack` and `Forget` are
an uninstall; `CopyBack`, `SwapBack`, `UndoSwap` and `Purge` the restore of a backup,
from an installation or from the tombstone an uninstall left. `PersonAdds` and
`PersonSpoils` are people. `OriginalsKept` says that no tree of a person's is lost.
Two places, three trees, four operations (takeover, uninstall, reinstall, restore is
the longest route a backup takes), two calls that fail or operations that die (a
failure and another on its way back), one spoilt backup. People do not add a tree
where dva has looked and does not look again (`AddsInWindow`, section 14, c and m).

## 9. Plans: `PlanWaves`, `PlanComposition`, `CompositionSaga`, `PlanResolve`, `EnvVars`

*State.* `PlanWaves` has the variables of `CalculateWaves`: `inDegree`, `queue`,
`processed`, `wave`. `PlanComposition` extends it with the children in the order
they are run (`plan`), the services that run, the command and where it is (`cmd`: verb,
step, position among the children and among the entries of one, whether it is
undoing), the readiness poll (`probe`: an answer in the channel, the deadline), the
list `succeeded`, the rows and the outcome of the report, the caller's context.
*Actions.* `Process` and `Conclude` are Kahn's algorithm; the code's queue is first
in, first out, the model's is any, so the waves are shown not to depend on it.
`UpEntry`, `UpFails`, `EntryReady`, `NotReady`, `Probe`, `Expire`, `TakeAnswer`,
`WaitOver`, `DownEntry`, `DownFailsWhole`, `DownEnds`, `Query`, `TearDown` and
`ReportStatus` are the steps of `Up` with its gate and its rollback, `Down`, `Stop`,
restart and `Status`; `Die` and `Cancel` are services that end and the caller.

`CompositionSaga` is the promise of `up`: children come up after what they depend
on, and when one fails those that came up go down again, dependents first.

| Run | Instance | Shows |
|---|---|---|
| `plans`, commands | every dependency graph over three children, one with an unknown name; the commands on four of them (free, chain declared backwards, fork, join), the first child with two entries, entries with and without checks and with a PID file, a clean machine and one that is half up, one service that dies; 267 k states | `WavesRight` against the longest chain of the graph, `ReportTruthful`, `LeftoversAccounted`, `TeardownOrder`, `ImplementsSaga`, `CommandEnds` |
| `plans`, names | three plans of the root and two of a subproject, each absent, with entries, an alias, a child of another, a composition, or an alias and a composition at once; one of the subproject's imported under two names; entries of the same name in both, optional or not, their directories there or not; 265 k states | `SplitMatchesStart`, `ValidatedResolves`, `ImportKeepsMeaning` |
| `plans`, environment | three variables declared in the vars, the environment, two files and the layers of plans, the shell with and without one of them; two plans brought up, of the root or imported; 97 k states | `EnvSettled`, `EntryGetsDeclared` |
| `places`, source | two commands, two repositories, two commits, one mishap; refs none, branch, tag and commit; 97 k states | `PinnedSourceStays` |
| `places`, tunnels | a command with three entries and two tunnels, and one whose tunnel wants a port of the first; 120 k states | `TunnelsAccounted` |
| `tunnel_never_reused` | as tunnels | violated: `NeverReused` |
| `plan_optional_entry` | as names | violated: `OptionalSkipsAlone` |
| `plan_import_meaning` | as names | violated: `EveryImportKeepsMeaning` |

*Why this is enough.* Three children are the first with a join and with a cycle that
has something behind it; two entries are the first child that can be half up; one
death suffices to make any earlier observation stale.
*Fairness.* `FairSpec` is weak fairness of `Work`, the steps of the one process that
executes the command: the wait for readiness ends with its deadline, and no other
step waits. It does not include services that die, or answers of health checks.

**`PlanResolve`.** *State.* The two files and the directories that exist, chosen once; the
book of plans the root has once loaded; the result of the last command. *Actions.*
`Load` (the import and what loading refuses), `Validate`, `UpPlan`. What the actions
compute is `ResolvePlanAlias`, `MergePlanConfigs`, `RunnerOf`, `Skipped` and
`ResolveEntries`, the steps of `ResolvePlan` in its order, with the first that fails
as the error; `ComparePlanEntries` is the other implementation of the same rules.
The loops of the code that go from name to name are one function on the depth, `Follow`. The two bounds of depth are 2 in
the instances: with three plans, chains that reach a bound, pass it, and are cycles
all occur. The names of a plan, of its parent and of the one it is imported as can
meet in every way with two files of three and two.
`SplitMatchesStart` has an exception. `ResolvePlanAlias` follows an alias whatever else the plan
says, `resolveCompareAlias` stops at any plan with `composes:` (`compare.go:254`); so for
an alias that leads over a plan that is both, which `dva config validate` refuses, `dva up` starts
the plan and a comparison declines it. The wrong entries it never names.

Two runs on `PlanResolve` end in a violation, since the documents promise what the code does not do.
`plan_optional_entry`: an optional entry that is not checked out is dropped, but an
entry that depends on it then depends on an unknown name, and the plan fails
(`USAGE.md:1152` says that it does not). `plan_import_meaning`: `alias:` and `extends:` of
an imported plan are looked up in the importer's book, so that it may start another
plan of that name (`docs/31-execution-plan-resolution.md:237` says that its meaning is
the same). `ImportKeepsMeaning` is what is left of the second promise.

**`EnvVars`.** *State.* The declarations and the shell, chosen once; the environment of
each config with the verdict on its files; the pass of the repair; the plans brought
up with what their service got. *Actions.* `ApplyEnvFiles`, then `RepairName` in any order
of the names, since the code walks a Go map, and `RepairPassEnds`; `Choose` and `StartPlan`.
Values are sequences of literals and references, of which nested defaults are a part;
text that becomes a reference by being put together is left out. `EntryGetsDeclared`
compares `MergeVars`, which resolves by dependency, with its definition: the value in
which every reference reads what the service itself gets.
Declarations in which a reference leads back to itself have no such value and are set
aside in both properties (section 14, q); three variables are the shortest chain that
sorts differently from its dependencies.

**`SourceFetch`.** *State.* The upstream's last commit, the source in `dva.yml`, the cache
directory (how far git came with it, its origin, HEAD, commits, and whether the files are
there), the commands and the gits they started. *Actions.* `StatCache`, `CheckCache`,
`StartClone`, `Checkout`, `DetachFails` are `ensureSource` and `requireSource`; `NameOrigin`,
`FetchCommits`, `FillTree`, `CloneFails`, `DetachHead` what git does in view of others;
`KillFetcher`, `UpstreamPush`, `RemoveCache`, `EditSource` the world. Edits and removals fall
between commands. One mishap is a kill or a failure at any point; with two the
property holds too (188 k states). HEAD moves when a checkout is complete, so a commit
other than the one the clone left HEAD at vouches for its files; nothing else does (14 s).

**`Tunnels`.** *State.* Per command its place, the entries left, the tunnels it holds; the
`cloudflared` processes; who listens on each port. *Actions.* `NextTunnel` to `Served` are
`acquireContext` for every entry, `CloseNext`, `TerminateTunnel`, `ReapTunnel` and `GraceOver` the two
ways to close; `CloudflaredBinds` and `CloudflaredExits` the child, `StrangerComes` and
`StrangerGoes` the port, `CancelQuery` and `KillOpener` the user. `tunnel_never_reused` shows
that an entry can run over a listener that came after the check of the port
(`internal/lifecycle/tunnel.go:22` says that it cannot). A `down` whose `cloudflared` ignores
SIGTERM waits for ever; only `status` kills.

## 10. On one machine: `ProcessPlugin`, `EnvBridge`, `AgentDeny`, `GitIgnore`

| Run | Instance | Shows |
|---|---|---|
| `host`, services | two processes, up to three commands, three PIDs, one service that may leave a child, one PID that is reused; 414 k states | `TrackedUntilGone`, `NoSecondStart`, `CommandsMeanIt` |
| `host`, files | every pair of `unseal`, `unseal --force`, `seal`, `reseal`, two `seal` or two `reseal` too, on one entry, one change by a person; 770 k states | `EnvTruthful`, `EnvKeepsOthers` |
| `host`, rules | an install by an old and by a new version, which wants a rule more, and an uninstall, two edits; 206 k states | `DenyKeepsForeign` |
| `host`, ignore | twenty lines of the repository's own contract test, two edits, with and without a rule of this machine; 9 k states | `GitignoreSettled` |

**`ProcessPlugin`.** *State.* `leader` and `member` are the process with a PID and the
rest of its group, `file` the PID file (a PID, absent, truncated, or a PID that must
not be signalled), `dva[d]` the command of a process of dva's with what it read.
*Actions.* `Read`, `Check`, `Kill`, `WaitForExit`, `GiveUp` and `Unlink` halt; `UpRead`,
`UpCheck`, `Start`, `Open`, `Write` and `SaveFails` start: each is one system call, since
nothing is locked. `Crash`, `LeaderExits`, `MemberExits` and `Reuse` are the world.
The properties are about services whose start overlapped no other command; what two
overlapping ones do is in section 14. Three commands are the shortest history
in which a start follows a halt that timed out; three PIDs are a service, its
replacement and one more; `tilt`, `sam` and `serverless` differ in the stop and are
the `kind` "background".

**`EnvBridge`.** *State.* What the encrypted source and the target say, the temporary
files with their age, and per command its place, what sops gave it and what it put
into place. *Actions.* `LookAt`, `Sweep`, `MakeTemp`, `Sops`, `Validate`, `Wrap`,
`CommitTemp`, `Place`, `Flush`, `Tidy`, and `Stop` for any call that fails, `Killed`,
`Change`, `Hour`. `Place` is a link for `seal` and a rename for the others, which is the
difference between never and usually replacing what came meanwhile. Two commands
and one change suffice for each look to be stale by the time of the write.

**`AgentDeny`.** *State.* The deny rules of the settings file, the receipt, and per
command what it read of both; `theirs` remembers whose copy of a rule is in the file.
*Actions.* `ReadReceipt`, `ReadSettings`, `WriteSettings`, `WriteReceipt`,
`RemoveReceipt`, `KilledAt`, `Edit`, `DeleteReceipt`. Two rules tell "wanted by both
versions" from "by one"; two edits take a rule out and write it again.

**`GitIgnore`.** *State.* The lines of `.gitignore` as patterns, the rules of the machine, what
`ensureGitignore` did last. *Actions.* `InitCommand`, `DoctorFix` (which asks git a
wider question first), `EditFile`; git may answer one call and not the next, and a
block may be written in part. The literal reader (`IsDvaIgnored`, `NegationReaches`) is
translated from the code; git's matching (`Names`, `FitsPath`, `Excluder`) is external,
and was compared with `git check-ignore` on four thousand random files of up to six
lines. `Segments` is what may stand between slashes and `Covers` what a glob stands for, so that
nothing in the proof depends on the twenty lines of the run. `GitignoreSettled` is the code's own contract with git; beyond the pairs of
lines of the contract test it covers removals, the block among them, and what
happens next.

## 11. Secrets and remote jobs: `SecretPush`, `JobRun`

*State.* Of a push: its place and key, its receipt per key (`secretReceipt`), the lock of the
destination, requests on their way (`flying`), what the remote keeps. Of a job: the
receipt per entry, its lock, the command of each process with the copy it read,
dispatches on their way, the branch's head, the workflow runs with their attempt.
*Actions.* `Lock`, `First`, `Mark`, `Send`, `Answered`, `Refused`, `Doubt`, `Accept` are
`Push`; `CreateReceipt`, `PushSecrets`, `MarkEntry`, `SaveUnknown`, `Dispatch`, `NoAnswer`, `Answer` and
`SaveDispatched` are `job run`; `Look`, `TakeReceipt`, `ReadEntry`, `VerifyArtifact`,
`SaveEntries`, `SaveBad` are the refresh of the others. `SecretLands` and `SecretLost` are late
and lost requests; `ActorDies`, `Dies`, `Commit`, `RunStarts`, `RunEnds`, `RunsAgain` the world.

| Run | Instance | Shows |
|---|---|---|
| `ci_steps`, jobs | a job of two runs, the first with images, after pushes to a repository and to a cluster; beside it another push to the repository or a process that watches, resumes or verifies; 1.2 M states | `NothingUnrecorded`, `ReceiptGrows`, `SuccessIsEarned` |

*Why this is enough.* Two entries and two keys let one be done, one in doubt and one
not begun; one rival suffices to overtake a late request. `Casts` bounds who takes
part together. Safety only: nothing makes a remote answer.

## 12. Steps with effects: `CiReuse`, `OciStep`

**`CiReuse`.** *State.* The input files, the outputs, the clock, the cache by key, the step
with its two hashes. *Actions.* `Hash` file by file, `Reuse`, `Execute`, `ReadFile`
(the command reads at its own pace), `Finish`, `Rehash`, `Save`, `Reject`; `Edit`,
`Spoil`, `SetClock`, `PowerFails`, `Crash`. Two inputs that must agree for the step to
succeed are the smallest for which reading them at different moments matters.

**`OciStep`.** *State.* `oci` (the place of `Run` and its locals), `intent` and `snapshot` on
disk, the daemon behind the endpoint, the container (`box`) and the requests on their
way. *Actions.* One per call of Docker or write, from `Prepare` to `Conclude`, and for
the cleanup `CheckAgain`, `InspectOwn`, `InspectNothing`, `ProveAbsent`, `Remove`,
`ProveRemoved`, `Unsnap`; `Land`, `Lose`, `StartLands`, `Meddle`, `TakeName`, `Switch`,
`Expire`, `Die` are the rest.

| Run | Instance | Shows |
|---|---|---|
| `ci_steps`, reuse | two files of two values, `max_age` 1 of times 0 to 2, three runs, three edits, one touch of the outputs; 0.38 M states | `CacheTruthful`, `ReuseIsSound` |
| `ci_steps`, container | two daemons, two switches; 36 k states | `OciAccounted` |

*Why this is enough.* Three runs are record, reuse and a run after an edit; three edits
change both inputs and change one back. The two values mean the same, so that the
first file begins with either without loss. Two switches lead to the other daemon and back.

## 13. What is proved

`tlapm` checks all theorems for every value of the constants that satisfies the
named assumptions: the parameters are of the right type; for `CiRunLocks` the declared
locks are numbered in the order of their names; for `CiScheduler` the steps are
finitely many naturals; for `CiComposition` an ancestry is a chain without cycles; for
`SkillInstall` every bundle has the skill `dva`; for `SkillTakeover` the spots are finitely
many naturals, and `Ours`, `Spoiled` and `Empty` differ and are nothing that people write; for
`PlanWaves` the children are finitely many naturals, at least one, and every graph is a
function on them; for `PlanResolve` names are finitely many, "no name" is none of them, and a
plan has the fields of a plan; for `PlanComposition` orders are naturals, entry counts positive, and
checked and native services among the services; for
`SourceFetch` the tips of a remote are numbered and "no address" is none of the addresses; for
`Tunnels` a command's declarations are a sequence of tunnels; for `SecretPush` the pushes are
finitely many and each has finitely many keys, at least one, in an order; for `JobRun` and
`CiReuse` entries and files are numbered from 1; for `ProcessPlugin` PIDs are positive and
finitely many; for `EnvBridge` a command is of one kind; for `AgentDeny` each command wants a set
of rules; for `GitIgnore` lines are
patterns over `Segments`, and the two globs of dva's block stand for the names that git takes them for.
Values that mark an absence are none of the others. Bounds on edits, kills and reuses
are arbitrary numbers. Five theorems have a hypothesis of their own. Four are about people who work
in the same directory at the same moment: `ForeignKeptHolds` has `~UserInWindow`, and
`TakeoverInvAlways`, `TakeoverTypes` and `OriginalsKeptHolds` have `AddsInWindow = FALSE`
(section 14, c and m, for what happens otherwise). `FailedMeansUndoneHolds` has `~LateFaults` and
`~UserAdds`, and speaks of runs with one failure at most and no death: just what the run `places`
bounds (`LateFaults`, `UserAdds`, `MaxFaults`, `MaxCrashes`), for any number of processes,
operations, skills and releases. A second failure may hit the way back itself, a dead process
undoes nothing, and a call that fails after its effect is section 14, d.

**`CiRunLocksProofs`.** `LockInv` adds to the type: `ProbeHolds` (who is inside a
probe holds that key), `NothingHeldYet` (before `acquire` a run holds nothing but what it probes),
`CursorHeld` (the file that is truncated or written is one whose lock is held), `ActiveHolds` (an
executing run holds all its keys) and `HeldRecorded` (a key held after its ID was
written has that ID). `ExclusiveExecution` alone is not inductive: nothing in it
says that an executing run still holds its locks. Follow `MutualExclusion`,
`OwnersRecorded`, `NestedRunsRefused` (with `NestedInv`: a run that was
started inside another is refused unless that other is over), `LiveRunsNeverStale` and the refinement
`ExclusionImplemented`. `SomeRunGetsThroughHolds` is about contention: `OrderInv` says that until
some run executes, fails or dies nobody probes, each run holds only keys that come before those it
lacks (`InOrder`), and if some run backs out, another on its way holds a key behind all keys of those
that do (`Leading`). So they cannot all back out.

**`CiSchedulerProofs`.** `SchedInv` links the loop's variables to the goroutines
(`Linked`: a step is "running" in memory exactly while its result has not been
received; `Counted`: `running` and `complete` are cardinalities), memory to disk
(`Recorded`), and the place of the loop to what it has established (`Scanned`: after
the skip pass no pending step is blocked; `Clean`, `Ended`). Cardinalities change
by one through the lemmas on adding and removing an element. Every safety property
of the two runs, both action properties and the refinement of `CiDag` follow.

**`CiCompositionProofs`.** `AdmissionInv` says who holds the admission lock and the
root of a run at each place (`AdmissionHeld`, `RootHeld`), that whoever executes as
a child has its record (`RecordOpen`), that the scope stays open and no sibling
starts between verification and registration (`OpenInside`, `NoSiblings`), and that
a scope that is drained is closed (`DrainClosed`). `SuccessIsComplete` speaks of every depth. Instead of an induction
over the depth, `AllBelow` speaks of every step and of every run that has it in its
ancestry: nobody there executes or holds a root, who registered succeeded, and who
started late finds a closed scope. When a step ends well, its registered children
succeeded, hence (`ReceiptLast`) so did their steps, for which `AllBelow` holds
already; `ChainBegan` excludes anyone below a child that never began. Lemmas on frames (`RunFrame`,
`ScopeFrame`) say what a step of one run or scope leaves alone, so each case
argues about one process only.

**`SkillProofs`.** All bundles share one skill, so its lock, the *anchor*,
orders all operations: `WriterInv` says that a process past acquisition holds the
anchor until it releases, and never releases a lock of another. `OneWriter` follows for
any number of processes and releases. Without `SharedSkill` it is false, and the
code relies on it: the receipt has no lock of its own.
`ProtoInv` adds, per operation, that what it has left to do lies within the locks it holds,
and that each claim in its hands is unmarked, marked or past the mark as its
phase and its list say, and that a claim it has reserved says just that. Every write is then
`Legal`, whence `FollowsProtocol` and `ReadUnderLockStays`.
`WorkInv` adds what the anchor protects: the plan, the receipt, the trees, the moves
into and out of quarantine fit the place of the operation (`PlanFits`, `ReceiptFits`, `TreesFit`,
`MovesFit`), and so do the claims it has done with (`ClaimsDone`). `WriterAlone` is the frame: only who is
`Secure` changes receipt, trees and claims, so each step is argued for one process.
`TypeOK`, `ForeignKept` and `SuccessIsReal` follow; for uninstalls the last as long
as no receipt changed its skills between their two readings (`SameSkillsRead`; section 14,
u).
`UndoInv` is for `FailedMeansUndone`. It is about the skills an operation is concerned with, those
that the receipt lists and those it adds: which trees are still as they were, away or
back (`TreesKept`, with `aside` for what was there before), which claims are as they were, carry
the operation's mark or are restored (`ClaimsKept`), that every claim added so far is in the
operation's own list (`MineAll`; a claim not in it would not be withdrawn), and that no claim of
another producer is among what is put back (`SeenOurs`, `ReceiptOurs`). An operation finds all that in
order because the ones before it left it so: `SettledBetween` says that receipt, trees and claims
agree whenever nobody writes and nothing has failed yet. None of this survives a
second failure, so all of it is conditional on `Calm`, the count of failures and deaths.
For `SkillTakeover`, `TakeoverInv` says at each call of the one operation what its places,
backup and staging directory can contain (`PlacesFit`, `StageFits`, `TakenFits`, `RestoreFits`),
whatever failed so far. `Covered` is the heart of `OriginalsKept`: whatever a person wrote and nobody
spoilt is at a place, among what this operation captured, in a directory left behind for
recovery, or in the backup that the receipt describes.

**`LifecycleProofs`.** For the plans, `WavesInv` is Kahn's: in-degrees count the dependencies not
yet processed, the queue has those without any, and a processed child has a greater wave than
what it depends on. The sorted plan is then a bijection onto the children
(`PlanComplete`: an injection into a finite set of the same size) that puts dependents
behind (`DependentsAfter`). `Tight` adds that every wave but the first is one above that of some
dependency, so that chains of just that length exist; `ChainBounded`, by least counterexample, that
none is longer: `WavesRight`. `PlanInv` describes what a command has done as beginnings of
that plan, forwards for `up` (`UpSoFar`, `ReadySoFar`, `TakenSoFar`), backwards for
`down` and the rollback (`DownSoFar`, `TornSoFar`, `UndoneSoFar`), and ties the report's rows to the
services (`RowsTrue`). `ReportTruthful`, `LeftoversAccounted` and `TeardownOrder` follow for any
graph of children, and the refinement of `CompositionSaga`, one lemma per action of the
command.
For `PlanResolve` there are two kinds of chains and two programs that follow each, with bounds, starts
and ways to stop of their own. All are `Follow`: `FollowIs` says that it exists and what it is,
`SameWay` that two ways that agree somewhere and have the same links from there go on
together, `EndsOnce` that what ends does so at one place. Hence validation and resolution find the same
plan, one link apart (`ValidAlias`), and the same parents (`ValidExtends`). A comparison
follows as many links as there are plans, a resolution `MaxAlias`: a way to a concrete plan visits
no plan twice, so it is an injection and both bounds suffice (`CompareFinds`).
For `Tunnels`, `TunnelInv` says of each command alone what it holds, told and waits
for (`StartedKnown`, `ToldWaitedFor`, `EndedHoldsNothing`) and that the tunnels that the
entry at hand needs are among those it holds or has still to open (`NeededCovered`).
`TunnelsAccounted` follows for any number of commands, entries and strangers.
For `SourceFetch`, `FetchInv` says that at most one git fills the cache (`OneFetches`) and from the
declared origin (`FetchesDeclared`), that HEAD leaves the commit of the clone when all files are
there and no sooner (`HeadLast`), and that a plugin whose source is pinned to another commit works on
that one (`RunsOnPinned`). `PinnedSourceStays` follows.

**`CiStepProofs`.** For `OciStep`, `OciInv` follows the order of the writes: nothing is
created before the intent is on disk (`NothingYet`, `NamedFirst`), the intent is bound to
the container before it is started (`BoundFirst`, `BoundIsMade`), at most one request
and one start are ever sent (`OnceOnly`), and what is reported of the cleanup or of a
success was seen on the pinned daemon (`OnPinned`, `CleanupEarned`, `SuccessSoFar`).
`OciAccounted` and `OciTouchesOwn` follow.
For `CiReuse`, `ReuseInv` says what a hash taken file by file tells about the
files while people edit them: `SinceTells` and `AgainTells` hold the first and the second
hash against the edits since each file was read, `OutputTold` and `RecordTold` carry that on to the
outputs and the record. `CacheTruthful` and `ReuseIsSound` follow for any files, values,
ages and number of edits.

**`JobRunProofs`.** `PushInv` orders a push by its keys (`KeysInOrder`), says which requests are on
their way (`Flying`), who has the lock and what that excludes (`LockHeld`, `TurnTaken`), and
that whoever had the lock before is done, and what is kept of it all the same the receipt
calls unknown (`LateKnown`). `JobInv` adds the lock of the job
and the copy a process read under it (`LockSound`, `ActorSound`), where the process that
began the job is (`RunnerSound`), and what of an entry can be on the remote (`EntrySound`).
`NothingUnrecorded`, `SuccessIsEarned` and `ReceiptGrows` follow for any number of
entries, pushes and processes that watch, resume or verify.

**`HostProofs`.** Four components. In three of them commands meet over a file without a lock. What
an invariant says of a command concerns that command and the files; per component one
lemma says what a step leaves of the *other* commands, and one per action what it does to its own.
`DenyInv`: what a command read still stands unless it was met (`ReadStands`), and dva's
rules were added before they are owned (`AddedFirst`, `OwnWereAdded`). `BridgeInv`: what
will be placed comes from an input (`FromInput`), what was placed was right
(`PlacedRight`), who was not hindered tidied up (`Tidied`), and who may replace the output
saw it so or it changed late (`MayReplace`). `ProcInv` is about the PID file. `TrackedUntilGone`
says nothing of the commands that may be about to break it; `Tracked` adds that while
such a service is to be kept, no command is about to start, write or unlink, and whoever signals or
waits has read that very PID (`Follows`). It rests on `AloneIs` (a start no other
command overlapped is alone), `Started` (a PID that was written was given), and `Saves`. For
`CommandsMeanIt`, `Chases` says that what a command was to halt has ended by the time it goes
on, with its group (`Groups`), and `FindsFresh` that what a restart may find running
after that was saved since it began.
For `GitIgnore` the matter is in the operators: `Reached` (whichever line names a path for git,
the reader takes for one that may), hence `SpellingTells` and `ReaderTells` (the reader never claims
what git would not ignore), `GitTells` (nor does git's own answer claim more than a clone
ignores), `BlockDecides` (behind all lines the block decides at its own level and names nothing
above it) and `BlockFound` (both git and the reader find it again). `GitignoreSettled` follows for
any lines of people and any rules of a machine.

Only model-checked: all liveness (outside the reach of the prover) and `EnvVars`, a computation over data: what a value
with references comes to is a recursive definition, and facts about those for all inputs need
induction rules with operator parameters, which the available provers cannot instantiate. No module
with theorems uses a recursive operator.

## 14. Observations

What the models set aside, or show when a bound is lifted. Each is a behaviour of the
code as it is; most need an unlikely moment.

* a) `internal/cirun/locks.go:99`, "metadata alone never establishes liveness": the probe
  takes the real lock and the ID stays in the file, so of two simultaneous `status`
  calls for a dead run one can see the other's probe and report the run as active.
* b) `internal/skillinstall/install_flow.go:72`: the downgrade check is made without a
  lock and not repeated under it, although the comment at line 18 says that checks
  are. Two releases that install at once can leave the older one.
* c) `internal/skillinstall/replace.go:150`: a move is recorded before its rename; a tree
  that appears in between makes the rename fail and is removed by the rollback. Set
  `UserInWindow = TRUE` in `SkillInstallCrash.cfg` to see `ForeignKept` fail, or
  `AddsInWindow = TRUE` in `Places.cfg` for `OriginalsKept`.
* d) `internal/skillinstall/install_flow.go:257`: when the receipt is in place but its
  directory cannot be synced, trees and claims are undone and the new receipt stays.
  A failed clean-up (`finalize`) makes an upgrade fail and leaves a fresh install
  successful.
* e) `internal/lifecycle/composition_orchestrator.go:323`, "An unreadable state is not
  evidence the child is down. Tear it down anyway": an error of a plugin's status is
  only logged by `Orchestrator.Status` (`orchestrator.go:403`), so the child counts as down,
  is skipped, and `down` reports "down". `LeftoversAccounted` sets such services aside (`unread`).
* f) `internal/cli/composition_restart.go:54`: "definitely down" is not true of a child
  whose earlier entry came up. The rollback of `up` also takes down children that were
  up before it, and `rolled_back` replaces the row of the child that failed.
* g) `internal/lifecycle/process.go`: two overlapping `up` start two services, of which
  one is lost sight of; a leader that ends and leaves a child behind lets `down`
  succeed without a signal; a PID reused by another process can be taken for the service.
* h) `internal/jobrun`: the receipt's lock is not waited for, so a `job status` at the
  wrong moment makes storing the ID of a dispatched run fail
  (`docs/62-remote-artifact-jobs.md:110` describes what remains); a late request of an
  earlier push can replace a newer secret; a branch that moves between the look-up of
  its head and the dispatch leaves a run that never verifies.
* i) `internal/cirun/cirun_steps.go:289`: an input that is changed and changed back while the
  step runs is recorded as a success of its key (`twice`), and so are outputs
  altered between the end of the step and its record.
* j) `docs` on composition let siblings run one after the other "once the root lock is
  released"; the code also requires the finished record
  (`internal/cirun/composition_runtime.go:84`), so a child killed after it registered
  keeps later siblings of its step out.
* k) `internal/cli/config_env.go:63`: `unseal` without `--force` replaces a target that
  appears between its look and its rename; `reseal` loses an edit made in that time.
  `seal` does not look at what sops returned, and a failed last sync of `seal` is reported as
  if nothing had been written.
* l) `internal/agentdeny/deploy.go:232`: a command that fails between settings and receipt
  leaves rules that no uninstall will remove; a concurrent edit is lost.
* m) `internal/skillinstall/uninstall.go:338`: the restore from a tombstone takes a tree
  that appeared after its check for dva's and deletes it in the end.
* n) `internal/cirun/ociexec/execute.go`: a switch of daemons between the check and the inspection
  lets a cleanup report "absent" for a container that lives on the other (`strayed`); a
  left-over temporary file makes every later write of the intent fail.
* o) `internal/cli/gitignore.go:580`: when `.git/info/exclude` or `core.excludesFile` of a
  machine excludes `.sb/`, git names that rule although the repository has dva's
  block too, so each call of `ensureGitignore` on this machine appends the block again
  (`GitignoreSettled` asks for `own = <<>>` there). The reader trims leading blanks, which
  git takes as part of the pattern.
* p) `internal/config/validate.go:476` counts the links of an alias from its second plan,
  `resolver_plan.go:80` from its first: a chain of exactly ten links is accepted and cannot
  be brought up (`LongAlias`). Any chain is an error to `USAGE.md:1432`. A plan that extends
  one of another owner has its environment checked against its own owner and looked up
  in the parent's. A composition may list an alias of a composition
  (`composition_plan.go:94` looks at the plan as written): it resolves to no entries,
  and so does `dva up` of an alias of a composition (`composition_flags.go:25`), with success.
* q) `internal/config/envfile.go:170`: when references lead back to themselves, the repair
  grows the values for ten passes, and what comes out depends on the order of a Go
  map. A variable of a plan that refers to itself is applied twice, by the plan and by
  its entry (`resolver.go:224`).
* r) `internal/cli/plan_runtime.go:47`: the children of a composition that are the root's
  own share one environment, so a later one sees the variables of an earlier one.

* s) `internal/lifecycle/source_fetch.go:17`, "makes a stack entry's source available": but
  for a full commit, whatever `git clone` left when it was killed, failed at the files or is still
  at work passes for a checkout as soon as its origin is named; for a full commit, so it
  does when the clone left HEAD at that commit (`SourceAvailable`, which TLC refutes on
  `SourceFetch` with two fetchers and no mishap). `down` and `stop` pass over an entry whose
  source is not usable with a warning, and succeed (`orchestrator.go:230`).
* t) `internal/lifecycle/tunnel.go:312`: when cloudflared ends at the very moment at which
  the grace of `status` is over, its process group is killed after it was reaped.
* u) `internal/skillinstall/uninstall.go:145`: which locks to take and which claims to compare
  comes from the receipt as read before the locks, which trees and consumers from the second
  reading. When in between an upgrade failed late, failed to undo what it had
  done twice and failed to withdraw its new claim, an uninstall reports success and leaves that claim.
  It takes four faults; with up to three `SuccessIsReal` holds as the run has it.

## 15. What is not modelled

`PROJECT.json` lists every part.

* *Configuration but for environments and plans, CI reports and preview*: pure
  transformations of documents, sequential, where the data is the point.
* *Command line, runners, exec, output, logger*: arguments, printing and the start of
  processes. Provision markers are planned.
* *Repository tools*: not part of the program.

Inside the modelled parts these are abstracted: digests and file contents to
equality, time to events (but for `CiReuse`, whose clock is the point), health
checks to an answer or none, the policy of a container to holding or not, JSON
documents to the rules that matter. Left out are worker budgets, legacy receipts,
operations over several destinations, and dry runs.

## 16. Running it

`tlc -config X.cfg MCModule` for a run (the pairs are under `runs` in
`PROJECT.json`), `tlapm XProofs.tla` for proofs. The longest run takes two to three
minutes with two workers, the proofs of a module one to five minutes.
