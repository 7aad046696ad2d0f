# slogcp-grpc-adapter: TLA+ models and proofs

This directory models the parts of the repository in which the order of things
matters: the logging adapter that many requests share (`adapter.go`), and the
automation under `.github/` that chooses Go releases, validates a pull request
and its CI actions, bounds what Renovate may merge, verifies earlier cloud
evidence and publishes a release. TLC checks the
models on small instances; the TLA+ proof system proves the properties that
matter most for every value of the constants.

## 1. The system

| Component | State it keeps | Operations | Talks to |
|---|---|---|---|
| Logger adapter (`adapter.go`) | none after construction; construction goes through a `loggerConfig` | `NewLogger` with its options, `Log` | the slog default, `slogcp` for the logger in a context, slog handlers |
| Field conversion (`buildAttrs`) | the slice it builds | one loop | called by `Log` |
| Interceptor helpers and the RPC pipeline (middleware and `slogcp` interceptors, seen in the integration tests) | the contexts of a request | derive a context, log at the start and the end of an RPC | the adapter |
| Release policy and Auto Release (`release_policy.py`, `auto-release.yml`) | run queue, job results, outputs and attempts; signing key on the runner; tags and releases on GitHub | plan, validate, tag, publish, retry, rerun | Git server, GitHub API, the validation pipeline, cloud E2E |
| Validation pipeline (`validation_pipeline.yml`) | results and outputs of jobs, kept over reruns; the base found by the preflight | plan, four jobs, identity recheck, evaluation | GitHub API, Go releases; called by the canary and by Auto Release |
| Latest Go canary (`latest-go-canary.yml`) | none | calls the pipeline in mode `latest`, then judges its outputs | the validation pipeline |
| Existing cloud evidence verifier (`verify_existing_e2e.py`) | position in a sequence of reads; a deadline | read identity, authority, trees, history, local validation | GitHub API, while it changes |
| CI action smoke fixture (`action_smoke_server.py`, `ci-action-smoke.yml`) | counters and errors of a threaded server; `fixture.json`; step outcomes | serve, verify, stop | the action under test |
| Module E2E (`module-e2e.yml`) | none | calls another repository's workflow | Auto Release |
| Renovate scope validation (`validate_renovate_pr.py`, rules in `renovate.json`) | none; it judges branches that Renovate and people keep changing, against a main that moves | accepts or rejects a candidate | called by the preflight; what it accepts is merged, and released by Auto Release |
| Go toolchain selection (`plan_go_validation.sh`, `resolve_latest_go.py`, `resolve_go_version.py`) | the outputs of the plan, used by later jobs | read manifests, choose series or an exact release, select from a list | go.dev, `setup-go` in the jobs; called by the preflight |
| Tool installation, documentation checks, license headers | files | sequential scripts | the validation jobs |
| Example, package documentation, `Version` | none | demonstration | – |

### What is hard

* **Adapter.** One `Logger` serves every RPC. `Log` reads the adapter, the
  context it was given and two handlers in turn, while other goroutines log,
  derive contexts and call `slog.SetDefault`. Correct means: an event goes to
  exactly one logger, the one that the configuration and *this* call's context
  dictate, whatever interleaves; and no order of options leads to a nil call.
* **Release.** A tag cannot be taken back. Runs queue, jobs fail, reruns keep
  the results of earlier attempts, an answer may be lost after GitHub acted on
  it, a runner may die between any two steps, and others may push the tag or
  make the release. Correct means: a version is bound to one validated commit
  for ever, what is published is what is tagged, the signing key does not
  outlive its use, and any such accident can be recovered from by a rerun.
* **Validation.** The policy job accepts a pull request after four separate
  reads of a moving GitHub, with results that may come from earlier attempts
  and a base found in an earlier job. Correct means: what it accepts was
  current as a whole at some moment and had all work done, and it refuses
  nothing without a reason.
* **Evidence verifier.** Dozens of reads, a listing that is paginated while it
  changes, and a wait for a run that may not exist yet.
* **Renovate.** Several repairs wait at once, and each prepares the same next
  version; people push to main and to Renovate's own branches. Correct means:
  what is merged without a person looking at it stays in its scope, every
  repair that reaches main is released, and none waits for ever.
* **Go releases.** The plan fixes a series or a release; the jobs set Go up
  later, twice each, while Go publishes. Versions are texts that three programs
  order. Correct means: no job gets less than its module asks for, the tools
  are never older than what they check, and what the canary passes has been
  built with the newest release.
* **Smoke fixture.** A server that publishes a file which the workflow polls,
  threads that share counters without a lock, and an action that retries.

## 2. Modules

| Module | Models | EXTENDS / INSTANCE |
|---|---|---|
| `BuildAttrs` | `buildAttrs`, one action per step of the loop | |
| `EventRouting` | abstract: each event is routed atomically by a configuration written once | |
| `Adapter` | `NewLogger` option by option, `Log` as entry, selection, emission | refines `EventRouting` |
| `VersionRegistry` | abstract: a version is bound once, and published after the proof of the commit it is bound to | |
| `Release` | Auto Release and the release policy, step by step | refines `VersionRegistry` |
| `PrValidation` | the validation pipeline of a pull request and its policy job; in mode `latest`, the canary's call | |
| `GoPlan` | the plan, the set-up of Go in the jobs, the canary's policy job; `select_version` | |
| `Renovate` | pull requests of Renovate from their preparation to main, and the validator between | |
| `HistoricalEvidence` | `verify`, read by read | |
| `ActionSmoke` | the smoke job, the fixture server with its threads, the action | |
| `BuildAttrsProofs`, `AdapterProofs`, `ReleaseProofs`, `PrValidationProofs`, `RenovateProofs`, `GoPlanProofs`, `HistoricalEvidenceProofs`, `ActionSmokeProofs` | theorems | `TLAPS` |
| `MC...` | definitions for the configurations | the module they are named for |

Operators named `X_Something` beside an operator `X` are mutants: plausible bugs
of that code. `PROJECT.json` pairs each checked property with a mutant that
violates it under the same configuration.

### How state and actions correspond to the code

**`Adapter`.** `build[a]` is the running `NewLogger` call (the arguments and the
local `cfg`), `adapter[a]` the `*Logger` it returned, `ctx[r]` the context of
request `r`, `call[r]` a running `Log`. `CallNewLogger`, `ApplyOption` and
`ReturnLogger` are the function's beginning, one iteration of its option loop,
and its end, where `slog.Default()` may be read; splitting it lets
`slog.SetDefault` (`SetDefault`) come between. `EnterLog` evaluates the receiver
and the arguments, `SelectLogger` chooses by the policy, `Emit` calls
`LogAttrs`, which may filter or fail without telling. `ReturnSilently` is the
return for nil and zero receivers. A logger is what identity, destination and
filter make it; `slog` and `slogcp` are external.

**`Release`.** `pc[r]` is the job and step of run `r`; `version`, `preflight`
and `e2e` are what GitHub keeps of the jobs, `tries` the loop variable of the
push loop and of `publish`, `tag` and `release` GitHub's state, `key` the
runners that hold the key file. `Push`, `PushOther` and `Dispatch` are the
triggers, `Start` the concurrency group, `Plan`, `Preflight` and `E2E` the jobs,
and `Gate`, `Graph`, `TagState`, `Sign`, `PushTag`, `VerifyPush`, `Cleanup`,
`VerifyTag`, `GetRelease` and `Post` the steps of the release job down to each
request to GitHub. Each may fail; `PushTag` and `Post` may also take effect and
lose their answer; `Abort` is the death of the runner or of the process in any
step. `RerunAll` and `RerunFailed` start a new attempt, the second with the
results that succeeded. `ForeignTag` and `ForeignRelease` are other people.
Commits are positions on main, versions ranks in the semantic order, 0 a
`version.go` without a canonical declaration.

**`PrValidation`.** An attempt `<<r, n>>` has its own `pc`, results and outputs
(`base`, `spec`, `runtime`); `newest[r]` is what `getWorkflowRun` answers as
`run_attempt`. A rerun starts a new attempt while the runner of the old one may
go on, as after a forced cancellation. `ReadBase` and `Plan` are the preflight,
`RunJob` one of the four jobs (its body is one result: what the steps of a job
do to the checked out files is nobody else's state), `ReadAttempt`, `ReadNewer`,
`ReadPull` and `ReadRef` the four reads of the recheck, one action each,
`Evaluate` the last step. `ActionPassed` and `PlannedMode` are outputs that jobs
write when they succeed, so that `Evaluate` tests them beside the results. Main is a counter and a head is the commit with the newest commit of main
it contains, which is all that `merge-base --is-ancestor` asks. The comparison
at line 456 comes after both reads; the model ends the job at the first read
that shows a change, which has the same outcome.

**`GoPlan`.** `manifest` and `alone` are the checkout, `releases` what go.dev
serves, in any order; `PlanValidation` is the shell script with its call of
`resolve_latest_go.py`, `spec` its four outputs; `SetUp(s)` one `setup-go` step,
of which two jobs have two each; `Canary` the policy job of the canary. A
version is the tuple of its numeric parts behind the major one, so that
`1.10` > `1.9` is a matter of `Less`, and a text that is no version is empty.
`SelectVersion` is given a directive, unreadable ones included, and any list: the
script asks go.dev for all releases (`include=all`), here the same list with its
unstable and unreadable entries. No workflow calls it at this commit.
`known` is history: what the list was when the plan was made. `PrValidation`
has the reruns and failures of the same jobs, and Go releases as numbers.

**`Renovate`.** A tree is a record of what `inspect_candidate` tells apart.
`Comparable` is the part that raises for an unreadable file, a changed module
or go line, `NonReleasing` and `SecurityPatch` are its two returns. `Prepare`
creates a pull request or brings it up to date, as `renovate.json` has it: a
repair sets its requirement, bumps `version.go` and tidies the examples.
`Preflight` asks for the tip of main, requires it in the branch and inspects
the change against it; the validator reads nothing else that moves, so that
this is one action. `Accept` is the policy job's recheck, whose own
interleavings are the subject of `PrValidation`. `Edit` and `PushMain` are people.

**`HistoricalEvidence`.** `Program` lists the reads of each part of `verify` in
their order, and `stage` and `index` are the position in it; `page`, `expected`
and `values` are the locals of `GitHub.pages`, `late` says that the deadline has
passed, which is a step of time (`DeadlinePasses`) and not of the loop. A
`require` that fails ends in `failed`, and a read may fail in any case. Of a
validation run that is green, the jobs are all successful (`passed`), or some job
or required step is skipped or missing (`partial`), which the listing of runs
does not show and `ReadValidation` refuses. That listing of jobs is one read,
since it is made of an attempt that has ended and cannot change between its
pages. A rerun keeps the result of the first attempt, which the code asks for,
and is refused for its `run_attempt`. `Lost` is what is gone of the evidence.

**`ActionSmoke`.** `step` and `outcome` are the job; `server` and `file` the
server process, which opens, writes and then serves in steps of their own, and may
die in any of them; each of `threads` is one request and its handler, whose
`counts[...] += 1` is a read and a write; `awaited`, `obtained` and `refused`
are the action. `Retry` lets go of a request whose thread works on.

## 3. What is checked

| Run | Shows |
|---|---|
| `build_attrs` | `ResultIsPairs`: the loop returns exactly the pairs, for all 364 lists of at most five fields over three values, two of which print alike |
| `adapter` | `OptionPrecedence`, `NeverCallsNil`: every list of at most two of nine options (nil option, nil arguments and a cleared mapper among them), with and without a handler, nil and zero receivers; `RequestIsolation`, `ImplementsRouting`: two requests over what was built |
| `release_conflicts` | `OneCommitPerVersion`, `ReleaseAdvances`: two runs *at once* on a main that bumps, reverts and bumps again |
| `release_recovery` | `PublishedMatchesTag`, `ProvenBeforeRelease`, `KeyConfined`, `UndisturbedSucceeds`, `ImplementsRegistry`, `QueuedRunsEnd`: two runs in the queue and their reruns, every failure and every interference; no queued run waits or retries for ever |
| `release_failed_jobs` | violation of `RecoveryRevalidates`, see section 5 |
| `release_order` | violation of `PublishedInOrder`, see section 5 |
| `validation_recheck` | `AcceptedWasCurrent`: two runs, two bases, the head forced back, the pull request closed, reopened and retargeted |
| `validation_rerun` | `AllWorkDone`, `NoSpuriousRejection`, `OneGoRelease`: an attempt and its rerun in mode `latest`, with every job failing or cancelled, and Go releases between the plan, the jobs and the rerun |
| `go_plan` | `RuntimesFit`, `ToolsNotOlder`, `CanaryProvesNewest`, `PlanFailsForReason`, `SelectsNewest`: both modes, six checkouts, releases that appear anywhere in the list and at any moment |
| `renovate` | `MergedInScope`, `RepairsAreReleased`, `PreparedLands`: two repairs and a routine update at once, with a push by a person at any moment, to main or to a branch |
| `evidence` | `VerifiedWasCurrent`, `RefusesForReason`, `VerifierEnds`: three validation runs that appear, end and are rerun at any moment, two pages of a listing apart too, while the pull request and main move and evidence is lost |
| `smoke` | `PassedIsEarned`, `FailsForReason`, `JobEnds`, `ServerStops` |

`UndisturbedSucceeds`, `NoSpuriousRejection`, `FailsForReason`,
`RefusesForReason`, `PlanFailsForReason` and `PreparedLands` are the other half
of the safety properties: a checker that refuses everything would satisfy
`AcceptedWasCurrent`. The first three say that an attempt which met no failure and
no change succeeds, whatever state earlier attempts, lost answers or other
threads left. (`NoSpuriousRejection` excepts a head that lacks the tip of main,
which the preflight refuses as it is.) `RefusesForReason` and
`PlanFailsForReason` list the reasons there are, as they hold in that moment: the
verifier does not fail because a validation is absent, active or older than the
newest, nor because its deadline passed before a validation that had ended was
read. The last says that what Renovate prepares is merged in the end.

Every module has one type invariant, checked in one of its runs.

### Bounds

* `build_attrs`: five fields give both parities, two pairs and a loop that runs
  three times; two values that print alike give colliding keys. The theorem
  covers every list.
* `adapter`: two options are enough for each to override or be overridden; one
  adapter, shared by two requests, is where they could meet. `MaxLogs` is one:
  calls of one request are sequential and keep nothing. The theorems cover any
  number of adapters, requests and calls.
* `release_recovery`: two runs and two attempts, so that one run waits, and finds
  what the other left, while the other is rerun;
  two commits, one slot (the workflow's), and others' tags and releases of one
  version. `release_conflicts` has four commits, which is what two
  commits that both declare a transition to one version take, and two slots, so that
  safety does not depend on the concurrency group. `MaxTries` is the code's 3.
* `validation_*`: two runs for the check of newer runs, two attempts for what a
  rerun keeps, two commits of main and two Go releases for a change to be
  possible. `validation_recheck` has the three jobs with outputs;
  `validation_rerun` has the two with a runtime and the one without an output,
  which is guarded by its result alone.
* `go_plan`: three releases of five names: two series whose texts are not in the
  order of their numbers, two patches of one, a version without a patch and a
  text that is none. Three suffice for one before the plan, one after it and one
  between two set-ups.
* `renovate`: two repairs that compete for a version, and one update that must
  not touch it; each can be prepared, overtaken and prepared anew. `MaxHands` is
  one: a push of a person comes at any moment, and may be any single change of
  a tree, with main merged in or not. With two, instances of two pull requests
  pass as well; with all three they exceed ten million states.
* `evidence`: pages of one entry and three validation runs, so that a run can
  appear between two pages of the two before it, which then shows one of them
  twice. Without the checks of `pages` for a total that changes and for
  duplicates, the newest run would go unseen, and `VerifiedWasCurrent` fails;
  three pages is what that takes. The limit of pages (100 in the code,
  `MaxPages` 3 here) is not exceeded in the run: the proofs cover it. One loss of
  evidence (`MaxLosses`), since none is made good and the first is refused. What
  changes after `verify` ended is not looked at.
* `smoke`: four requests: both routes, and two that are refused, repeated or
  late. Two polls stand for 100.

### Fairness

Safety needs none. `evidence` assumes weak fairness of its one sequential
program, whose requests have timeouts, and of the passing of time to the
deadline. `release_recovery` assumes it of `Start` and of each
run's steps: GitHub starts a queued run when its group is free, and a step ends,
because the requests and the jobs have timeouts. Nothing is assumed of failures,
reruns or other people. `smoke` assumes it of the job's own steps and of giving
up to wait for an answer (`urlopen` has a timeout of 5 seconds), and of
`serve_forever` after a request to shut down; not of the server's start nor of
its threads. `renovate` assumes that what Renovate and its runs can do for a
pull request is done in the end: Renovate comes back to a branch that is behind
(`rebaseWhen`), jobs end, and it merges what was accepted; not that people ever
push. `PreparedLands` assumes besides that nobody edits that branch, since Renovate then
keeps off it, that main again and again has a version that can be bumped, and
that the work is still to do.

`CHECK_DEADLOCK FALSE` is set where programs end: all runs do, when their calls,
runs and events are used up.

## 4. What is proved

The proofs hold for every value of the constants that satisfies the module's
assumptions, which TLC evaluates in the runs.

* **`BuildAttrsProofs`** – `LoopInv`: what is built is the prefix of the pairs
  that the index stands behind, and the capacity suffices for the rest. Hence
  `TypeOK` and `ResultIsPairs` for lists of any length, and `CapacityIsExact`: the
  one allocation is filled and never outgrown.
* **`AdapterProofs`** – `IInv` strengthens the properties with where a
  half-built configuration can have its logger from (`ConstructionInv`), which
  loggers contexts can carry (`ContextInv`), that a call carries its own choice
  (`CallInv`), and that an offer is what its call was entered with (`OfferInv`).
  `PrecedenceInv` adds, for each moment of the option loop, that the logger, the
  mapper and the policy are those of the last option *so far* that sets them.
  Hence type correctness, `OptionPrecedence`, `RequestIsolation`, `NoFallThrough`,
  `NeverCallsNil` and `ImplementsRouting` for option lists of any length and any
  number of adapters, requests and calls. The
  step simulation is the lemma that maps each action to a step of
  `EventRouting` or to a stutter.
* **`ReleaseProofs`** – the safety properties alone are not inductive: that a
  run in the step `push` may push says nothing of the tag. `RunInv(r)` states,
  for each step, what the run has established (its plan, the results that its
  gate saw, whose tag it found), `TagInv(v)` and `ReleaseInv(v)` where a tag or
  a release can have come from, `EvidenceInv` that evidence
  belongs to runs that exist, `QueueInv` that the queue holds each queued run
  once. The argument separates what a
  run does to itself from what others do to it: `Grows` says that commits,
  evidence, tags and published releases only grow, the lemmas `RunStable`,
  `TagStable` and `ReleaseStable` that each conjunct survives any step that
  only grows, and there is then one lemma per action, about the run that takes
  it. Hence all of `release_recovery`'s and `release_conflicts`'s properties
  for any number of runs, attempts, commits, versions and slots, and the
  refinement of `VersionRegistry`.
* **`PrValidationProofs`** – `AttemptInv(p)` gives for each step of an attempt
  where it can be (`PlaceInv`), what base it has (`BaseInv`), what its results
  have earned (`WorkInv`), and two facts that make the recheck sound. `FreshInv`:
  an attempt that waits for its last read either saw the pull request current, or
  main is past its base, and since main only advances that read will refuse it.
  `CalmInv`: an attempt without failure or change, whose head contains the tip of
  main, still has everything as the reads want it. An event either leaves an attempt so or disturbs it (`Heeded`),
  and `AttemptStable` carries the invariant over all steps of others. Hence
  `TypeOK`, `AcceptedWasCurrent`, `AllWorkDone`, `OneGoRelease` and
  `NoSpuriousRejection` for any number of runs, attempts, jobs and commits.

* **`RenovateProofs`** – `InspectedInv(p)`: what waits for its merge was inspected
  against a commit that main still has, and which at the merge is the tip; hence
  `MergedInScope`. That a repair's version is still free is about the whole
  history: `RisingInv` says that between two commits the version only rises,
  if no commit between lowers it, which an appended commit preserves because the
  order of versions is transitive. Hence `RepairsAreReleased`, for any number
  of repairs that prepare the same version.

* **`GoPlanProofs`** – `NewestInv` says that whatever selection of the releases is
  looked at has a newest one, which a published release preserves because the order
  of versions is total. `PlanInv` gives the outputs of a plan, and
  `RuntimeInv` that each release set up matched its output and was no older than any
  release of the plan's list that matches, which later releases do not change.
  The properties follow by what the manifests ask for: `ToolsRequired` is one
  module's preference and no older than any. Hence `TypeOK`, `RuntimesFit`,
  `ToolsNotOlder`, `CanaryProvesNewest` and `PlanFailsForReason` for all manifests
  and releases, listed in any order and published at any moment.
  `SelectsNewest` is about the loop of `select_version`, which is the recursive
  function `Found` over the positions of the list. That `Found[n]` holds the
  newest of the first `n` releases (`LoopFinds`) takes an induction over `n`; the
  library's induction theorem takes an operator, so `NatSetInduction` states it
  for a set of numbers, which follows from the order of the numbers being
  well-founded: a missing number would have a least one. `VisitStep` and
  `KeepTracks` are the step.

* **`HistoricalEvidenceProofs`** – the reads are one after the other while GitHub
  changes, so the invariant says what each leaves to those after it. `TreeInv`:
  behind the comparison of trees the candidate has no change but the additions.
  `PagesInv`: the runs on the pages so far exist, for runs never disappear;
  distinct numbers as many as the total are therefore all of them, and the one
  chosen was the newest at that moment (`ChosenInv`). `HeldInv`: that run had passed and all other evidence held at that moment if
  the reads after it find everything as it must be, since no rerun, loss or
  commit of main is undone. `TogetherInv` concerns the
  last two reads, of the pull request and then of main: between them either
  main is past BASE, and since it never comes back the last read will refuse, or
  the pull request was current while main was BASE. For `RefusesForReason` the
  pages matter once more: while no run is created between them they are the
  listing cut in pieces, so that no check of `pages` fails below its limit.
  Hence `TypeOK`, `VerifiedWasCurrent` and `RefusesForReason` for any number of
  runs and losses, and pages of any number and size.

* **`ActionSmokeProofs`** – the server's threads may lose each other's increments,
  so no counter equals anything. `BoundInv` bounds each counter, and the value a
  thread has read and not yet written, by the number of threads that have written.
  `ThreadInv` has the other bound, the one that matters: a counter that was
  written is at least one, whichever thread writes next and from whatever old
  value. `ActionInv` relates what the action holds to threads that counted it,
  `OutcomeInv` the outcomes of the job to the step it is in, `FileInv` the file to
  the server, `CalmInv` what holds until something goes wrong. Hence `TypeOK`,
  `PassedIsEarned` and `FailsForReason` for any number of requests and polls.

So each invariant, action property and refinement that a passing run checks is
also proved. Only model-checked is liveness (`QueuedRunsEnd`, `VerifierEnds`,
`JobEnds`, `ServerStops`, `PreparedLands`): it rests on fairness and on which
actions are enabled, which the provers do not reach.

## 5. Where the code and its documents differ

* **`release_failed_jobs`.** `docs/RELEASE_POLICY.md:109-110`: "Recovery retains
  the original version and commit and repeats the required validation." The
  release job requires `needs.release_preflight` and `needs.release_e2e` to
  have succeeded, not that they ran in this attempt; "Re-run failed jobs" keeps
  their results. The run shows a publication in attempt 2 whose validations
  both ran in attempt 1. (They were of the same commit: `ProvenBeforeRelease`
  holds and is proved.)
* **`release_order`.** `docs/RELEASE_POLICY.md:84-85`: Auto Release "requires a
  strictly increasing stable semantic version". `plan` compares with the push's
  baseline or the parent commit, not with what was released: after a revert of
  `version.go` whose run fails, a version below a released one is published.
  (What `plan` does check, `ReleaseAdvances`, holds and is proved.)

## 6. What is not modelled

* Inside `Release`: the request to the Go proxy and the `pr_number` mode, which
  change no state of a release; the E2E suite, which runs in another repository.
* Tags and releases moved or deleted by others: the repository's rules, outside
  the code, forbid it.
* Pull requests from forks: GitHub lists no pull request for their runs, so the
  check for newer runs sees nothing there. Deletion of workflow runs.
* A fixture server that is left behind by a job that failed: when the job gives up
  before `fixture.json` is there, cleanup finds nothing to stop, and the runner
  ends with it. `ServerStops` is about jobs that passed.
* Inside `ActionSmoke`: how a request is checked (it is well formed or not) and
  the second, Google, authentication action, which this workflow does not run.
* Inside `Renovate`: the external proof that a repair is one (the shared policy
  script that the preflight checks out and runs) and the jobs are taken to pass;
  `PreparedLands` is about what this repository's own rules let through. The
  branch rules (`docs/RELEASE_POLICY.md:69-72`) are taken at their word: what is
  merged was accepted on the tip of main. A merge queue would run the pipeline
  for `merge_group` events, for which the validator is skipped. GitHub is taken to
  show a moved base before the policy job ends. Malformed requirements, and what
  else is in `go.mod` (the toolchain line, replacements), which the validator
  lets a repair change.
* Inside `GoPlan`: major versions other than 1, the wrapper of `select_version`
  that prints and writes one output, and failures and reruns of the jobs, which
  `PrValidation` has.
* When the middleware calls `Log` in an RPC's life: that is the code of another
  module. `Adapter` lets it call at any time with any context, and the helpers
  here add nothing to `NewLogger(handler)`.
* Module E2E, tool installation, documentation checks, license headers and the
  example: no state that another step could see in a wrong order.

## 7. Plan

Done, in this order: `BuildAttrs`, `Adapter` with `EventRouting`, `Release` with
`VersionRegistry`, `PrValidation`, `HistoricalEvidence`, `ActionSmoke`,
`GoPlan`, `Renovate` and the proofs named above. Next:

* Composition of `PrValidation` with `HistoricalEvidence`: the verifier
  accepts on the word of the policy job; at the moment it does, that job's
  own recheck was about the same head and base.
