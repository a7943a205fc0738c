# Verification of runner_operator

TLA+ models of the operator in `src/`, the TLC instances that check them and the
TLAPS proofs about them. Line numbers refer to `src/internal/controller/` unless a
path is given.

## 1. The system

runner_operator is a Kubernetes operator with three custom resources.

| Part | Source | Role | State it changes |
|---|---|---|---|
| Runner controller | `runner_controller.go` | one Job per Runner, drift by spec hash, status mirrored from the Job | Runner status, Job, metrics |
| Workflow controller, flat | `workflow_controller.go` 51-540 | one Runner per step, in dependency order, with retries, conditions and a timeout | Workflow status, Runners, requeue timer |
| Workflow controller, jobs | `workflow_controller.go` 213-237, 661-1023 | the same for jobs that hold steps | as above, job statuses |
| Cycle detection, sort | `workflow_controller.go` 542-596, 1129-1172 | pure | none |
| Namespace quota | `workflow_controller.go` 1174-1211 | defers a new workflow for 30 s | none of its own |
| EventTrigger controller | `eventtrigger_controller.go` | registers webhook routes | trigger status, route table |
| Webhook server | `../webhook/events/server.go` | route table, rate limiter, HMAC, creates Workflows | routes, counters, Workflows |
| Git set-up | `../gitops/` | builds init containers | none |
| Conditions, metrics | `conditions.go`, `metrics.go` | helpers | metrics |
| Start-up checks | `../startup/`, `cmd/main.go` | abort on missing CRDs or RBAC, wiring | none |

How they interact: every controller has one worker. It takes a key from a queue that
keeps each key once, reads **informer caches**, which lag the API server independently of
each other, and writes to the API server with calls that may fail. A status write is
`Status().Patch(MergeFrom(base))`: only fields that differ from `base` are sent, and the
local object becomes the server's answer. A change of the object or of an owned object
queues the key; a returned error queues it again; a `RequeueAfter` is a timer in process
memory. A restart lists the caches afresh, queues every object and forgets timers and
metrics. Most of what can go wrong lies in these gaps, so the models cut every
reconcile at its API calls and let everything else happen in between.

## 2. Modules

| Module | Models |
|---|---|
| `RunnerController` | the Runner controller with its Job, the Job controller, users, caches, faults |
| `RunnerControllerProofs` | theorems about it |
| `WorkflowDecisions` | the pure functions of the step loop: `evaluateStep`, `computeWorkflowPhase`, phase conversion, backoff |
| `FlatWorkflow` | the Workflow controller for flat steps with its Runners, timers, clock, faults |
| `DagExecution` | what that promises: an abstract execution of a dependency graph |
| `FlatWorkflowProofs`, `FlatWorkflowFreshProofs` | theorems about `FlatWorkflow`, the refinement included |
| `JobWorkflow` | the Workflow controller for jobs |
| `JobWorkflowProofs`, `JobWorkflowSuccessProofs` | theorems about it |
| `NamespaceQuota` | several workflows under one quota |
| `NamespaceQuotaProofs` | theorems about it |
| `EventTriggers` | the EventTrigger controller composed with the webhook server |
| `EventTriggersProofs` | theorems about it |
| `DagAlgorithms` | `cycleDetector` and `topologicalSortSteps` |
| `DagAlgorithmsProofs` | theorems about it |
| `MC...` | values of the constants for TLC |

### RunnerController

API state: `runner` (spec, generation, liveness, status), `job`, `secret`. Caches:
`runnerCache`, `jobCache`. Process: `queued`, `pc`, `work` (the reconcile under way),
`metrics`. History: `created`, `ended`, `faults`, and `undeleted`, whether a fault hit a
reconcile between the patch of the new hash (174) and the Delete (177).

`Reconcile` is split by its early returns. Each `Reconcile...` action is one path from
the reads to the first API call: `ReconcileNotFound`, `ReconcileDeleting`,
`ReconcileInvalid`, `ReconcileCreate` (no Job), `ReconcileDeferDrift`,
`ReconcileDriftInvalid`, `ReconcileReplace` (drift), `ReconcileUpToDate`,
`ReconcileUpdateStatus`. Then `PatchStatus`, `CreateJob`, `DeleteJob` and their failing
variants are the calls, in the order of the code. `JobStart`, `JobEnd`, `JobRemoved`,
`RunnerRemoved` are Kubernetes; it sets a Job's `CompletionTime` only on success.

Abstractions:
- a spec is a model value, and a hash is a function of it;
- of the Job that `buildJob` makes, the spec it was built from, its label and its owner are kept;
- a condition is its reason (and, for a Runner, its generation);
- a start or completion time is the uid of the Job it was read from;
- an absent Job or Runner keeps the uid of the one that went;
- a cache update jumps to the current API state, which also covers updates that are merged;
- the local `DesiredSpecHash` branch at lines 150-159 is part of `ReconcileDeferDrift`; the
  theorem `LateWritesTheorem` shows it is never taken;
- `RunnerPhaseUnknown` (382-383) is unreachable and left out.

### FlatWorkflow

API state: `shape` (the spec, its steps in the order the sort gives them; it does not change
while the workflow runs, and `OrderAssumption` says of the order what `OrderTheorem` shows of
the sort), `wf` (status, step statuses), `runners` (one slot per step). Caches: `wfCache`,
`runnersCache`. Process: `queued`, `timer`, `work` (the local Workflow, the listed Runners, the
steps still to walk). `clock` counts ticks.

A pass starts with one of the `Reconcile...` actions (not found, rejected, deferred by
the quota, timed out, walk). What `detectCycle` finds is stated there as a property of the
dependencies; that the search in the code finds the same is what `DagAlgorithms` shows. The
walk is one action per iteration of the step loop: `StepWithoutCall`, `CreateRunner`,
`CreateRunnerFails`, `RetryStep`. `EndSteps` computes the phase and the `RequeueAfter`, and
`PatchStatus` ends the pass. `RunnerAdvances` is the Runner controller as the Workflow
controller sees it: a phase that moves to an outcome.

Abstractions: step names, and the Runner names made from them, are distinct; the order of
`StepStatuses` is left out; the 30 s of a quota deferral are one tick; whether the quota
is exceeded is a free choice for the shapes in `QuotaFor`, and `NamespaceQuota`'s subject;
the workflow's deadline lies between two ticks; Workflows are deleted in the background;
condition reasons are named by idea (`Succeeded` is `AllStepsSucceeded`, `NoSteps` is `NoStepsDefined`).

The delay of a backoff keeps its width: `duration` wraps at `DurationLimit`, which is 2^63 ns
in the code and 4 ticks in the instances, where a second retry of an initial delay of 2
overflows.

### DagExecution

The abstract specification has no caches, statuses, queues or failures: a step starts when
its graph is orderable and, if it runs on success, its dependencies have succeeded; it may
succeed, stop and start again; reports name steps that have succeeded. `FlatWorkflow!Execution`
maps the steps with a Runner to `active`, the history of successes to `succeeded` and the
steps whose status says Succeeded to `reported`; `ExecutesDag` says that every behaviour of
`FlatWorkflow`, stale caches and faults included, is one of `DagExecution`.

### JobWorkflow

The same cut as `FlatWorkflow`, with two loops: `EnterJob` is `reconcileJob` up to its steps,
`StepWithoutCall`, `CreateRunner`, `CreateRunnerFails` and `RetryStep` are the shared step loop,
`LeaveJob` derives the job's phase. Job phases are read from the status as it was before the
first job (`jobStatusMap`). Step statuses are keyed by step name and Runners by the sanitized
name (`runnerName`), so jobs may share either. `dropped` says which steps the sort leaves out;
`DagAlgorithms` shows that the sort does so. Left out, as `FlatWorkflow` has them: backoff,
deletions by users, the completion time; and the fields a job adds to its Runners.
A workflow without jobs goes to the flat path (65), so lines 664-673 are never reached.

### NamespaceQuota

The workflows of one namespace, each with the part of its status that `checkNamespaceQuota`
reads, and one worker. `walk` stands for the whole pass after the check: it creates the missing
Runners at once and then patches. A Runner set is none, active or ended. `mix` says which workflows
users create and which of them are rejected, never end, have a timeout, or may be deleted or
reopened. `overdue` holds the workflows past their timeout: `ReconcileTimeout` fails such a
workflow and leaves its Runners running. A workflow that ended goes on in two ways: a user deletes one of
its Runners (`UserReopens`), or a step that had no Runner at the timeout still runs
(`ReconcileReopens`). The timer of a timeout may be missing when it elapses (`DeadlinePasses`).

### EventTriggers

API state: `triggers`, `secret`. Caches: `cache`, `secretCache`. Process: `queue`, `work` (a patch
under way), `routes`, and the counters: `counts` holds the entries of all rate counters, each
tagged with its path and with the number (`epoch`) of the counter of that path, as a handler may still
hold a counter that `DeregisterRoute` has dropped. Every `Reconcile...` action is one path
through `Reconcile`; the route table changes in it and the patch is a step of its own. A request is
`LookUpRoute` (or `RefuseRequest`), `FetchCounter`, `Allow`, then `createWorkflow` or `FailRequest`;
`Allow` is one step because the code holds the counter's lock.

Abstractions: a spec is a model value with a path, a limit, whether it names the Secret and
whether its namespace is allowed; the address, body, signature and parameter checks may
refuse any request; the created Workflow's contents are left out; all triggers name one Secret.

### DagAlgorithms

A list of steps is a sequence of `DependsOn` lists, which may repeat names and name steps
that do not exist. Each turn of a loop is an action, and so is each call of the recursive
`dfs` and each return from it, with the call stack as a variable; what the algorithms promise of
their result is then an invariant of the steps that lead to it, and can be proved.
`checked` tells the two callers apart: the flat path runs the detector first, `reconcileJobSteps`
(844) does not. The reference is stated with sets: a list has a cycle if each step of some set depends on
a step of that set (`Cyclic`), the definition that `FlatWorkflow` and `JobWorkflow` use too.

## 3. Runs

Every bound is a constant of the cfg: `MaxGeneration` (spec changes + 1), `MaxJobs`, `MaxRunners`
(objects created), `MaxFaults` (failed calls and restarts together), `MaxClock`, `MaxStart`
(ticks in all, and before the start), `MetricCap` (metrics saturate). `FreshCaches` lets a
reconcile start only with up-to-date caches; they may grow old during it. `PromptReconciles`
(of `FlatWorkflow` and `JobWorkflow`) lets no time pass during a reconcile, so that none starts
before and ends after a deadline; it is TRUE in `FlatLive` and `Jobs`. Deadlock is not checked: a Runner whose Job has
ended, or a workflow that has, really stops.

| Run | Bounds | Shows |
|---|---|---|
| `RunnerFaults` | stale caches, 2 generations, 3 Jobs, 1 fault | `TypeOK`, `OutcomeIsReal`, `HashBeforeJob`, `SettledMeansHandled` |
| `RunnerFresh` | fresh caches, 3 generations, 4 Jobs, 1 fault, Secret changes, metrics to 2 | `OneJobPerGeneration`, `TerminalIsFinal`, `ValidatedBeforeJob`, `SettledMeansHandled`, `MetricsFollowStatus` |
| `RunnerLive` | fresh caches, 2 generations, 4 Jobs, 1 fault, deletions | `OutcomeReported`, `DriftConverges`, `NothingLeftBehind` |
| `FlatFaults` | pairs, triples, retries, backoff, quota, rejected workflows, 1 fault; stale caches for pairs and rejected ones, deleted Runners for two shapes | `DependenciesSucceededFirst`, `StepSuccessIsReal`, `NoRunnerForCycle`, `SuccessMeansAllDone`, `SettledMeansMirrored`, `RunnableMeansRunner`, `RetriesBounded`, `FailureStepsFollowFailure`, `EndedStaysEnded`, `ExecutesDag` |
| `FlatLive` | workflows with and without timeout, deletion, 1 fault | `WorkflowEnds`, `NothingLeftBehind` |
| `DagSort` | all lists of up to 3 steps with up to 2 dependencies each, all relations on 4 steps without self-dependency | `VerdictIsRight`, `DependenciesPlacedFirst`, `SortKeepsPlaceable` |
| `Jobs` | two jobs, two steps, eleven shapes, 1 fault, 3 Runners per name, clock to 3 | `JobSuccessIsReal`, `NeedsRanFirst`, `SettledMeansUpToDate`, `NothingStartsAfterEnd`, `JobWorkflowEnds`, `TimeoutEnds` |
| `Triggers` | two triggers, two paths, five specs, two Secret values; `MCBudgets` trades changes, requests and faults against one another; symmetric in triggers and requests | `StatusIsRight`, `PathClosedWhileDeleting`, `RateLimitRespected`, `RouteKept` |
| `Quota` | three mixes of up to three workflows (`MCMixes`), limit 2, 1 fault | `QuotaRespected`, `WaitingIsRetried`, `EndIsReported` |

Every module has a type invariant `TypeOK`. That of `RunnerController` is also a property of a run; all
are theorems (section 4).

Why the bounds are enough to be of interest: two generations are what drift needs, a third
lets a second drift meet the first; one Job more than generations lets a duplicate appear;
one fault at any call or restart at any point reaches every pair of adjacent calls; two steps
show every dependency condition, three a fork, a join and a skip that is passed on. Metrics that
saturate at 2 tell a second count from the first. Three workflows under a limit of 2 let one run, one
wait and one be in the way, and exceed the limit if they all run; two triggers are what a
collision needs, and three requests exceed either limit within and across a window of two ticks.
Constants that are sets of shapes (`StaleFor`, `QuotaFor`, `RunnersDeletable`) give each shape the
disturbances it is of interest for.

Fairness (`FairSpec`): the worker takes queued keys and its calls return (the work queue and
the client guarantee it), informers deliver every change, timers fire, time passes, Jobs
and Runners run to an end, the garbage collector removes orphans. Users, faults and
the quota owe nothing. In `NamespaceQuota` each key's reconcile is strongly fair: the queue is served
in order, so a key is not starved by others that keep coming back; a failing check is not fair.

### Where the code and its documents disagree

Three runs are expected to be violated, each against one sentence of the repository.

| Run | Sentence | What happens |
|---|---|---|
| `RunnerFailedDrift` | README.md:579 | a failed Job has no `CompletionTime`, so line 138 takes it for running and defers the drift for ever |
| `FlatStuck` | workflow_controller.go:394, arch/blueprint.md:206 | a step that waited is never skipped; the workflow never ends |
| `FlatBackoff` | workflow_controller.go:1251 | the retry is decided before the failure is recorded, so no delay applies |

Further behaviours that the models contain. The properties name them as exceptions or
their run excludes them by a constant; they are not runs of their own.

- `DesiredSpecHash` of a deferred drift (141-143) and the `ValidationFailed` condition (86-87)
  are set before the base of the patch is copied and never stored (`LateWritesTheorem`),
  contrary to `api/v1alpha1/runner_types.go:154` and the comment at 81-82.
- A fault between the patch at 174 and the Delete at 177 hides a drift for good; `DriftConverges`
  excepts it (`undeleted`), and a Job that failed (`RunnerFailedDrift`). After any other fault or restart
  it wants the drift resolved.
- With stale caches a reconcile may delete a Job of the current spec and create another
  (`ledger/vision.md:131`), and a terminal phase may be left again; hence `FreshCaches` in `RunnerFresh`.
- The Delete at 177 may hit a Job that started after it was read (`ledger/vision.md:132`).
- A spec that changes between lines 70/84 and 111 gives a Job whose label is the hash of another
  spec and whose Secret was not validated; `ValidatedBeforeJob` excludes such Jobs by their label.
- `runner_active_count` is lost in a restart and counted twice by a retried creation.
- A failed Create of a retried step (317-320), of one whose Runner a user deleted, or of one that the
  timeout lets run loses the wake-up; `RunnableMeansRunner` names it (`runsUntried`).
- A fault after the Delete at 346 loses the count of one retry; `RetriesBounded` allows one more Runner per fault.
- A pass that starts before and ends after the deadline returns no `RequeueAfter` (170-176);
  after a restart nothing else enforces the timeout. `PromptReconciles` excludes it.
- The timeout fails every step, those that succeeded included (197-199), and leaves Runners
  running; the next pass may start an `always` or `on_failure` step that never had a Runner, and the
  workflow is Running again (compare `ledger/tasks.md:231`). Hence `EndedStaysEnded` and
  `FailureStepsFollowFailure` speak of workflows without a timeout.
- A pass whose Create failed is followed by another only if it changed something else, `StartTime` or
  another step. When the Create fails again and nothing else changes, nothing wakes the operator
  for the step. `RunnableMeansRunner` names it.
- A pass that reads an older status may write an older count of retries and so retry a step whose
  failure others have acted on; `FailureStepsFollowFailure` excludes it, and a Workflow that was deleted
  while a pass with an older list goes on creating Runners (`FatesLast`).
- A pass that reads an older status may rewrite `StartTime`, and another take the workflow for timed out
  while it is not. A step that starts after that has a `CompletedAt`, and so its retry waits for a backoff
  that nothing ends (337). `SettledMeansMirrored` names this case, and that of a Runner deleted by
  a user; the proof shows that there is no other.
- `on_failure` (423-426) also runs after a dependency that was skipped (compare the comment at 396).
- Inside a job, steps on or behind a cycle are dropped without a word (844, compare
  `ledger/vision.md:135`); `SortKeepsPlaceable` says exactly which.
- Deleting the Runner of a step that is done runs the step again (272-274).
- The status of a Runner that was seen to run keeps its `StartTime`, which 332 compares with the one an
  ended Job no longer yields: it is never up to date, and each further reconcile counts the end again
  (364; metrics.go:28 says "Total number of completed Runner jobs"). `MetricsFollowStatus` wants every other end
  counted once and names this case; a count by a retry after a failed patch is outside it.
- The backoff doubles before it is capped (1258-1264); when it overflows the cap does not apply.

Jobs:
- A job, like a step, that waited is not skipped any more when a job it needs fails (790, against
  arch/blueprint.md:206); the workflow ends only by its timeout. `JobWorkflowEnds` and
  `SettledMeansUpToDate` name it (`skipMissed`).
- As with flat steps, a pass that straddles the deadline returns no `RequeueAfter` (764-770). If it comes
  after a restart and a job waits for good, nothing enforces the timeout: `TimeoutEnds` holds with
  `PromptReconciles`, and TLC finds it violated without.
- A pass that read the status from before the timeout writes its older jobs back and goes on
  starting Runners. A list from before the Delete of a retry (346), read after the retry was counted,
  ends the workflow on the failure of the deleted Runner, while a pass with an older status
  still creates the next one. `NothingStartsAfterEnd` excludes these two, timeouts and retries
  with stale caches. The run `Jobs` has retries only with up-to-date caches: with stale ones
  an older count is written back, more retries happen than the bound on Runners allows, and a
  behaviour would stop there.
- Jobs that share a step name share its status: the second job ends on the first one's Runner. Steps
  whose names sanitize to one Runner name block one another (README.md:105 "Unique step name").
- A job all of whose steps are dropped by the sort succeeds at once.
- With stale caches, a retry may write an older retry count.
- No shape of the run `Jobs` has both lagging caches and a timeout, so that `SettledMeansUpToDate` is not
  checked for the two together.

Quota:
- The workflow that asks counts itself, so a limit of n lets n - 1 run and a limit of 1 none
  (examples/advanced/namespace-quota.yaml:1 "Limits concurrent Workflows in a namespace"); waiting and
  rejected workflows count too, so that workflows may keep one another waiting for ever with none
  running. `QuotaRespected` demands no more than the limit and does not demand that it can be reached;
  `WaitingIsRetried` demands only that those who wait ask again.
- A failed read of the namespace or list lets the workflow start (109). A workflow that is reopened, by
  a deleted Runner or after a timeout, has a StartTime and is not checked. `QuotaRespected` excepts both.

Triggers:
- A collision is not retried, so a trigger stays unregistered when its path becomes free; after a
  restart two colliding triggers both fail. A collision leaves the trigger's own older route.
- The deletion of a trigger removes the route under its path even if another trigger owns it.
- A background deletion, a path change, the removal of the webhook and a deletion that is
  delivered too late leave the old route in place (arch/blueprint.md:510 "Routes are
  registered/deregistered dynamically as EventTrigger CRs are created/updated/deleted").
- A deleted Secret leaves the route with its last value, and a failed list in `mapSecretToTriggers`
  loses a rotation.
- `MaxPerMinute` counts requests that pass it, whether or not a Workflow is created after that
  (`api/v1alpha1/eventtrigger_types.go:59` "limits the number of workflow creations"); `MaxConcurrent`
  is not read. A handler that holds a dropped counter counts in that one.

## 4. Proofs

Proved for all specs, hashes, Secrets, workflows, bounds and settings of the constants, from
the named assumptions on the constants in the modules: sets and functions have the obvious
types, the hash is injective and never the empty hash, no step comes twice in a workflow, the
values that stand for "none" differ from what they stand in for, `Workflows` is finite.

| Theorem | Statement | Inductive invariant |
|---|---|---|
| `RunnerControllerProofs!TypeCorrect` | `TypeOK` | itself |
| `OutcomeTheorem` | `OutcomeIsReal` | `OutcomeInv`: the caches and a patch under way claim no outcome that did not happen |
| `HashTheorem` | `HashBeforeJob` | `HashInv`: a hash in the base of a patch, or in a cache, is still in the API server |
| `LateWritesTheorem` | `LateWritesNeverStored` | `LateWritesInv`: a patch under way contains neither write |
| `OneJobTheorem` | `OneJobPerGeneration` | `GenerationInv`: a Job that a reconcile is about to create is counted ahead, and its generation has none yet |
| `ValidatedTheorem` | `ValidatedBeforeJob` | `ValidInv`, for as long as the Secret has its keys: the spec whose hash labels a Job, or is to label it, was validated |
| `SettledTheorem` | `SettledMeansHandled` | `SettledInv`: the cached Job is an earlier state of a Job whose changes queue the key; and unless it is queued, what the reconcile under way is about to write changes what the cache shows, or the Runner is handled |
| `TerminalTheorem` | `TerminalIsFinal` | `TerminalInv`: beside a terminal phase, stored or about to be, there is the Job whose phase it is |
| `MetricsTheorem` | `MetricsFollowStatus` | `MetricsInv`: the series are those of the phase that the patch under way will leave, and the counter is that of its end; it exceeds it only beside a `StartTime` |
| `FlatWorkflowProofs!TypeCorrect` | `TypeOK` | itself |
| `StepSuccessTheorem` | `StepSuccessIsReal` | `SuccessInv`: no copy of statuses or Runners, however old, claims a success that did not happen |
| `DependencyTheorem` | `DependenciesSucceededFirst` | `SuccessInv` |
| `CycleTheorem` | `NoRunnerForCycle` | `CycleInv`: no walk starts for a rejected workflow |
| `RefinementTheorem` | `ExecutesDag` | `SuccessInv` and `CycleInv`; each step maps to a step of `DagExecution` or a stutter |
| `MirrorTheorem` | `SettledMeansMirrored` | `MirrorInv` and `WaitInv`, see below |
| `FlatWorkflowFreshProofs!SuccessTheorem` | `SuccessMeansAllDone` | `PhaseInv`: a phase that says Succeeded comes with steps that are done, in every copy |
| `RetryTheorem` | `RetriesBounded` | `RetryInv`: Runners created are covered by the retries counted in the status or in the pass, and by faults |
| `EndedTheorem` | `EndedStaysEnded` | `EndInv`: a step shown as done has its Runner or is skipped by steps that are done, so that a pass over a workflow that ended finds nothing to do |
| `FailureTheorem` | `FailureStepsFollowFailure` | `FateInv`: what any copy of the statuses shows as done is what became of the step for good, and every Runner was let run by such statuses |
| `RunnableTheorem` | `RunnableMeansRunner` | `ProvideInv`, with `TriedInv`, see below |
| `JobWorkflowProofs!TypeCorrect` | `TypeOK` | itself |
| `JobWorkflowSuccessProofs!JobSuccessTheorem`, `NeedsTheorem` | `JobSuccessIsReal`, `NeedsRanFirst` | `JobInv`: no copy of the status or of the Runners claims a success that did not happen, and a job whose steps are walked was let run by the phases the pass started from |
| `NothingStartsTheorem` | `NothingStartsAfterEnd` | `JobEndInv`: all copies of the status, however old, are parts of one outcome, see below |
| `DagAlgorithmsProofs!VerdictTheorem` | `VerdictIsRight` | `SearchInv`: the grey steps are the stack and form a path, the black ones depend on black ones only and contain no cycle |
| `OrderTheorem`, `SortTheorem` | `DependenciesPlacedFirst`, `SortKeepsPlaceable` | `SortInv`: a step is in line, placed or queued, exactly when its count is 0, the count is that of the dependencies not yet released, and no step that waits for a cycle gets there |
| `NamespaceQuotaProofs!TypeCorrect` | `TypeOK` | itself |
| `WaitingTheorem` | `WaitingIsRetried` | `StartInv`: a StartTime is never lost, and a patch of a workflow that is not rejected stores one or comes with a timer |
| `QuotaIsRespected` | `QuotaRespected` | `QuotaInv`, with `StartInv`: the cached list shows every workflow that has Runners as not ended before it is; as the one that asks counts itself, fewer than the limit run |
| `EventTriggersProofs!TypeCorrect` | `TypeOK` | itself, with `PathInv` |
| `RoutesAreKept` | `RouteKept` | `RouteInv`: a cache is an earlier state of its trigger, and a route of the cached generation has the path of the cached spec |
| `DeletionCloses` | `PathClosedWhileDeleting` | itself, with the types |
| `StatusTheorem` | `StatusIsRight` | `StatusInv`, with `RouteInv`: every trigger whose key is not queued is right as its cache shows it, or its patch under way or the delivery of a change will queue it |
| `RateIsLimited` | `RateLimitRespected` | `RateInv`: a counter holds every entry of the last minute |

The inductive invariants stand at the head of the proof modules, or before the theorem that needs them.
Those about the API state alone are not inductive, because a stale cache or a
patch under way can write an older claim back; each strengthening says that such copies
are no worse than the present. In the Runner proofs `ReconcileEffect` sums up what any
reconcile can put in a patch and `PatchEffect` what a merge patch leaves, so that each
invariant is shown per kind of step and not per path.

The theorems that no wake-up is lost (`SettledTheorem`, `MirrorTheorem`, `RunnableTheorem`, `StatusTheorem`)
share one argument. The claim about the API state, under the condition that the operator is idle and its
caches have caught up, says nothing of a state in between. The invariant therefore speaks of what the
caches show whenever the key is not queued: either it is right, or the pass under way is going to change
it, or the API server is ahead of the cache, and then the delivery queues the key. For a change not to
get lost it has to differ from what the cache shows. For a status this follows from the merge
patch: a field that is sent differs from the base, which is the cache. For a Runner or a Job it needs
that an object never returns to an earlier state, which the uid and the order of phases give
(`age` and `watched` for flat workflows, `cachedJobInv` for Runners).

`MirrorTheorem` needs a second invariant. A pass leaves a failed Runner alone while its retry waits for
the backoff, so that the step is not mirrored and nothing wakes the operator. `WaitInv` shows that no step
gets there: a status with a `CompletedAt` either says Succeeded and has its Runner, or has no retry left, or
belongs to a workflow that timed out (`conclusive`), and the Runners a pass has listed are earlier states of
the present ones (`earlier`), as the controller replaces a Runner only when it has seen it go.

`RunnableTheorem` has to show that a single failed call costs no step its first Runner. A pass that changes
nothing and whose Create fails is the last one, so the failure must not be the first. `TriedInv` says that in
any copy of the status of a workflow that started, a step that may run has been tried: the pass that wrote
why it may run came to it afterwards, in the same walk, because the order places a step behind its
dependencies (`WalkOrder`). If the first try created the Runner it is there, or it was deleted by a retry that is
counted (`RetryInv`); if it failed, this was the second fault. The steps for which this does not hold
(`runsUntried`) are the ones that the property names.

`NothingStartsTheorem` has two cases. With up-to-date caches a pass works on the phases of the server, and
a workflow ends only when all its jobs are done, or are made so by the timeout; a pass skips
jobs that are done (`leavesDoneJobs`, `freshEnds`). With stale caches a pass may work on a status from
before the end. If the first Runner of a step decides (`firstRunnerDecides`: no timeout, no retry), any two
copies of a status agree on the steps and jobs that are done in both (`oneOutcome`). A
decision taken in one copy needs the dependencies done, and is the same in every copy where they are. So
the steps on which two copies could differ depend on one another, and the sort, which places a step after its
dependencies, places none of these; for jobs, cycle detection rejects the workflow. An end
shown anywhere therefore says how every step ended or that it was skipped, and no older copy can let it run.

`OneJobTheorem`, `TerminalTheorem` and `MetricsTheorem` need up-to-date caches at the start of a reconcile
(`FreshCaches`) and Jobs that users do not delete; `SuccessTheorem`, `RetryTheorem` and `EndedTheorem` need the
like of the shapes they speak of.

Only model-checked: liveness (TLAPS has no fairness reasoning here), and `SettledMeansUpToDate` of
the jobs.

## 5. Not modelled

- Start-up checks and `main.go`: they run once and change nothing the controllers work on.
- Generated deep copies: no behaviour of their own.
- Contents of objects: containers, volumes and scripts of `gitops`, `buildJob`'s pod, what
  `buildStepRunner` and `buildJobStepRunner` copy, the Workflow made from a template. They are built
  from a spec in one go and nothing reads them back.
- `fetchPodLogs`, events, condition messages, histograms and the workflow counters: output only.
- Signature, address and payload checks and parameter extraction in the webhook server: pure
  functions of one request, whose outcome is a free choice in `EventTriggers`.
- Start and graceful shutdown of the HTTP server: `Crash` ends handlers at any point, which includes it.
- Changes of a workflow's spec while it runs, and several operator processes: leader election
  (on by default, `cmd/main.go:77`) keeps one process active, and the models have one.
