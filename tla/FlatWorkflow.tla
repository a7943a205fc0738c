---------------------------- MODULE FlatWorkflow ----------------------------
(***************************************************************************)
(* The Workflow controller for a workflow with flat steps                  *)
(* (internal/controller/workflow_controller.go): one Workflow, the Runners *)
(* it owns, one per step, and the reconciler.                              *)
(*                                                                         *)
(* A reconcile reads the Workflow and the list of its Runners from caches, *)
(* walks over the steps in topological order, creating and deleting        *)
(* Runners on the way, and writes the status with one merge patch at the   *)
(* end.  An iteration makes at most one API call, so each is an action.    *)
(* Errors of the calls inside the walk are logged and swallowed; an error  *)
(* of the patch is returned and the key is queued again.                   *)
(*                                                                         *)
(* The spec of the Workflow does not change while it runs, and step names, *)
(* as well as the Runner names derived from them, are distinct.            *)
(***************************************************************************)
EXTENDS WorkflowDecisions, Sequences, FiniteSets

CONSTANTS
  Steps,             \* step names
  Shapes,            \* the workflows to consider, see ShapesAssumption
  NoWork,            \* no reconcile in progress
  RunnerOutcomes,    \* how Runners may end
  StaleFor,          \* those whose caches may lag when a reconcile starts
  RunnersDeletable,  \* those whose Runners users may delete
  QuotaFor,          \* those whose namespace quota may be exhausted
  WorkflowDeletable, \* TRUE: a user may delete the Workflow
  PromptReconciles,  \* TRUE: no time passes while a reconcile is in progress
  MaxRunners,        \* bound on Runners created for one step
  MaxFaults,         \* bound on failed API calls and operator restarts
  MaxStart,          \* bound on the clock until the workflow has started
  MaxClock           \* bound on the clock

\* The spec of a Workflow: its steps in the order of topologicalSortSteps, and
\* for each step DependsOn, When and the retry policy.  An initialDelay of 0 is
\* no backoff, a maxDelay of 0 no cap, and a timeout of 0 no timeout.
WorkflowSpecs ==
  [order : Seq(Steps), deps : [Steps -> SUBSET Steps], when : [Steps -> Whens],
   maxRetries : [Steps -> Nat],
   backoff : [Steps -> [initialDelay : Nat, maxDelay : Nat]], timeout : Nat]

\* No step comes twice in the order, and every step comes after its dependencies
\* unless detectCycle rejects them.
ASSUME ShapesAssumption ==
  /\ Shapes \subseteq WorkflowSpecs
  /\ \A p \in Shapes : \A i, j \in DOMAIN p.order :
       p.order[i] = p.order[j] => i = j
ASSUME OrderAssumption ==
  \A p \in Shapes :
    LET names == {p.order[i] : i \in DOMAIN p.order}
    IN  \/ \E s \in names : ~(p.deps[s] \subseteq names)
        \/ \E S \in SUBSET names : S # {} /\ \A s \in S : p.deps[s] \cap S # {}
        \/ \A i, j \in DOMAIN p.order :
             p.order[i] \in p.deps[p.order[j]] => i < j
ASSUME WorkflowBoundsAssumption ==
  /\ {WorkflowDeletable, PromptReconciles} \subseteq BOOLEAN
  /\ StaleFor \cup RunnersDeletable \cup QuotaFor \subseteq Shapes
  /\ RunnerOutcomes \subseteq {"Succeeded", "Failed"}
  /\ MaxRunners \in Nat /\ MaxFaults \in Nat
  /\ MaxStart \in Nat /\ MaxClock \in Nat

VARIABLES
  shape,        \* the spec of the Workflow
  wf,           \* the Workflow in the API server: its existence and status
  runners,      \* the Runner of every step in the API server
  wfCache, runnersCache,
  queued,       \* the Workflow's key is in the work queue
  timer,        \* when a RequeueAfter is due; 0 is none
  work,         \* the local variables of the reconcile in progress
  clock,
  succeeded,    \* history: steps a Runner of which succeeded
  created,      \* history: the number of Runners created for every step
  faults

apiVars == <<shape, wf, runners>>
cacheVars == <<wfCache, runnersCache>>
procVars == <<queued, timer, work>>
ghostVars == <<succeeded, created, faults>>
vars == <<apiVars, cacheVars, procVars, clock, ghostVars>>

WorkflowStatus ==
  [live : BOOLEAN, phase : WorkflowPhases, startTime : Nat,
   completionTime : Nat, reason : {"none", "NoSteps", "CycleDetected",
     "QuotaExceeded", "Running", "Succeeded", "Failed", "TimedOut"},
   steps : [Steps -> StepStatuses]]

\* owned: the Workflow is the controlling owner.  endedAt is when the Runner
\* ended.
RunnerObject ==
  [there : BOOLEAN, phase : RunnerPhases, uid : Nat, owned : BOOLEAN,
   endedAt : Nat]
RunnerObjects == [Steps -> RunnerObject]
NoRunner ==
  [there |-> FALSE, phase |-> "none", uid |-> 0, owned |-> FALSE, endedAt |-> 0]

\* An absent Runner keeps the uid and the owner of the one that went, so that
\* its removal is a change the informer delivers.
removed(r) == [NoRunner EXCEPT !.uid = r.uid, !.owned = r.owned]

\* list is the snapshot listStepRunners returned, next the index of the step
\* the walk has come to.
Work ==
  [local : WorkflowStatus, base : WorkflowStatus, list : RunnerObjects,
   next : Nat, updated : BOOLEAN, then : {"steps", "patch"},
   requeueAfter : Nat]

ASSUME NoWorkAssumption == NoWork \notin Work

TypeOK ==
  /\ shape \in Shapes
  /\ wf \in WorkflowStatus /\ wfCache \in WorkflowStatus
  /\ runners \in RunnerObjects /\ runnersCache \in RunnerObjects
  /\ queued \in BOOLEAN /\ timer \in Nat
  /\ work # NoWork => work \in Work /\ (work.then = "steps" => work.next # 0)
  /\ clock \in Nat
  /\ succeeded \subseteq Steps /\ created \in [Steps -> Nat]
  /\ faults \in Nat

Init ==
  /\ shape \in Shapes
  /\ wf = [live |-> TRUE, phase |-> "none", startTime |-> 0,
           completionTime |-> 0, reason |-> "none",
           steps |-> [s \in Steps |-> NoStepStatus]]
  /\ runners = [s \in Steps |-> NoRunner]
  /\ wfCache = wf /\ runnersCache = runners
  /\ queued = TRUE /\ timer = 0 /\ work = NoWork
  /\ clock = 1
  /\ succeeded = {} /\ created = [s \in Steps |-> 0] /\ faults = 0

fault == faults < MaxFaults /\ faults' = faults + 1

-----------------------------------------------------------------------------
(* Reconcile up to the walk *)

startReconcile ==
  /\ work = NoWork /\ queued
  /\ shape \in StaleFor \/ (wfCache = wf /\ runnersCache = runners)
  /\ queued' = FALSE
  /\ UNCHANGED <<apiVars, cacheVars, timer, clock, succeeded, created>>

callPatch(base, new, requeueAfter) ==
  work' = [local |-> new, base |-> base, list |-> runnersCache, next |-> 0,
           updated |-> TRUE, then |-> "patch", requeueAfter |-> requeueAfter]

\* The read of the Workflow or the list of its Runners fails.
ReconcileReadFails ==
  /\ work = NoWork /\ queued /\ fault
  /\ UNCHANGED <<apiVars, cacheVars, procVars, clock, succeeded, created>>

ReconcileNotFound ==
  /\ startReconcile /\ ~wfCache.live
  /\ UNCHANGED <<work, faults>>

stepNames == {shape.order[i] : i \in DOMAIN shape.order}

\* Some dependency is not a step of the workflow, or some steps depend on one
\* another in a circle: from each of them a dependency leads to another.
detectCycle ==
  \/ \E s \in stepNames : ~(shape.deps[s] \subseteq stepNames)
  \/ \E S \in SUBSET stepNames :
       S # {} /\ \A s \in S : shape.deps[s] \cap S # {}

\* Mutant: cycles are not looked for.
rejectedWithoutSteps == shape.order = <<>>

rejected == shape.order = <<>> \/ detectCycle

ReconcileRejected ==
  /\ startReconcile /\ wfCache.live /\ rejected
  /\ callPatch(wfCache,
       [wfCache EXCEPT !.reason =
          IF shape.order = <<>> THEN "NoSteps" ELSE "CycleDetected"], 0)
  /\ UNCHANGED faults

timedOut ==
  /\ shape.timeout # 0 /\ ~isWorkflowTerminal(wfCache.phase)
  /\ wfCache.startTime # 0
  /\ clock - wfCache.startTime > shape.timeout

\* handleTimeoutFlat fails every step, done or not, and leaves the Runners.
ReconcileTimeout ==
  /\ startReconcile /\ wfCache.live /\ ~rejected /\ timedOut
  /\ callPatch(wfCache,
       [wfCache EXCEPT
          !.phase = "Failed", !.completionTime = clock, !.reason = "TimedOut",
          !.steps = [s \in Steps |->
                       IF s \in stepNames
                         THEN upsertStepStatus(wfCache.steps[s], "Failed", clock)
                         ELSE wfCache.steps[s]]],
       0)
  /\ UNCHANGED faults

\* Whether the workflows of the namespace exhaust its quota is not up to this
\* one: where there is a quota it may be, and ReconcileSteps assumes it is not.
quotaExceeded == shape \in QuotaFor

\* The namespace quota defers a workflow that has not started by 30 seconds.
ReconcileDeferred ==
  /\ startReconcile /\ wfCache.live /\ ~rejected
  /\ wfCache.startTime = 0 /\ quotaExceeded
  /\ callPatch(wfCache, [wfCache EXCEPT !.reason = "QuotaExceeded"], clock + 1)
  /\ UNCHANGED faults

ReconcileSteps ==
  /\ startReconcile /\ wfCache.live /\ ~rejected /\ ~timedOut
  /\ work' = [local |-> IF wfCache.startTime = 0
                          THEN [wfCache EXCEPT !.startTime = clock] ELSE wfCache,
              base |-> wfCache, list |-> runnersCache, next |-> 1,
              updated |-> wfCache.startTime = 0, then |-> "steps",
              requeueAfter |-> 0]
  /\ UNCHANGED faults

-----------------------------------------------------------------------------
(* reconcileStepLoop: one action per iteration *)

stepNow == shape.order[work.next]
statusNow == work.local.steps[stepNow]
runnerNow == work.list[stepNow]
decisionNow ==
  evaluateStep(shape.deps[stepNow], shape.when[stepNow], work.local.steps)

inStepLoop ==
  /\ work # NoWork
  /\ work.then = "steps" /\ work.next <= Len(shape.order)

\* A step that is done and has a Runner is not looked at again.
stepClosed == statusNow.phase \in DoneStepPhases /\ runnerNow.there

continueLoop == work' = [work EXCEPT !.next = @ + 1]

recordStep(s) ==
  work' = [work EXCEPT !.next = @ + 1, !.updated = TRUE,
                       !.local.steps[stepNow] = s]

\* Mutant: one retry too many.
retryOnceMore ==
  /\ runnerPhaseToStepPhase(runnerNow.phase) = "Failed"
  /\ statusNow.retryCount <= shape.maxRetries[stepNow]

retryNow ==
  /\ runnerPhaseToStepPhase(runnerNow.phase) = "Failed"
  /\ statusNow.retryCount < shape.maxRetries[stepNow]

\* Iterations without an API call.  Skipped and Waiting are only recorded for
\* a step that has no status yet.
StepWithoutCall ==
  /\ inStepLoop
  /\ \/ stepClosed /\ continueLoop
     \/ /\ ~stepClosed /\ decisionNow \in {"skip", "wait"}
        /\ IF statusNow.phase = "none"
             THEN recordStep([NoStepStatus EXCEPT
                    !.phase = IF decisionNow = "skip" THEN "Skipped" ELSE "Waiting"])
             ELSE continueLoop
     \/ /\ ~stepClosed /\ decisionNow = "run" /\ runnerNow.there
        /\ IF retryNow
             THEN /\ ~retryBackoffElapsed(shape.backoff[stepNow], statusNow, clock)
                  /\ continueLoop
             ELSE LET phase == runnerPhaseToStepPhase(runnerNow.phase)
                  IN  IF statusNow.phase # phase
                        THEN recordStep(upsertStepStatus(statusNow, phase, clock))
                        ELSE continueLoop
  /\ UNCHANGED <<apiVars, cacheVars, queued, timer, clock, ghostVars>>

wantsRunner ==
  inStepLoop /\ ~stepClosed /\ decisionNow = "run" /\ ~runnerNow.there

\* Mutant: the owner reference is not set.
buildStepRunnerUnowned(uid) == [NoRunner EXCEPT !.there = TRUE, !.uid = uid]

\* buildStepRunner and SetControllerReference.
buildStepRunner(uid) ==
  [NoRunner EXCEPT !.there = TRUE, !.uid = uid, !.owned = TRUE]

CreateRunner ==
  /\ wantsRunner /\ ~runners[stepNow].there /\ created[stepNow] < MaxRunners
  /\ runners' =
       [runners EXCEPT ![stepNow] = buildStepRunner(created[stepNow] + 1)]
  /\ created' = [created EXCEPT ![stepNow] = @ + 1]
  /\ recordStep(upsertStepStatus(statusNow, "Pending", clock))
  /\ UNCHANGED <<shape, wf, cacheVars, queued, timer, clock, succeeded, faults>>

\* Any error, AlreadyExists included, is logged and the walk goes on.
CreateRunnerFails ==
  /\ wantsRunner
  /\ \/ runners[stepNow].there /\ UNCHANGED faults
     \/ fault
  /\ continueLoop
  /\ UNCHANGED <<apiVars, cacheVars, queued, timer, clock, succeeded, created>>

\* Mutant: all Runners of the workflow are deleted, not the failed one alone.
RetryStepDeletesAll ==
  /\ inStepLoop /\ ~stepClosed /\ decisionNow = "run" /\ runnerNow.there
  /\ retryNow /\ retryBackoffElapsed(shape.backoff[stepNow], statusNow, clock)
  /\ runners' = [s \in Steps |-> removed(runners[s])]
  /\ recordStep([upsertStepStatus(statusNow, "Pending", clock) EXCEPT
                   !.retryCount = @ + 1])
  /\ UNCHANGED <<shape, wf, cacheVars, queued, timer, clock, succeeded, created, faults>>

\* The Runner is deleted by name, whichever Runner has it by now.  An error,
\* NotFound included, is logged and the retry counts all the same.
RetryStep ==
  /\ inStepLoop /\ ~stepClosed /\ decisionNow = "run" /\ runnerNow.there
  /\ retryNow /\ retryBackoffElapsed(shape.backoff[stepNow], statusNow, clock)
  /\ \/ /\ runners' = [runners EXCEPT ![stepNow] = removed(@)]
        /\ UNCHANGED faults
     \/ fault /\ UNCHANGED runners
  /\ recordStep([upsertStepStatus(statusNow, "Pending", clock) EXCEPT
                   !.retryCount = @ + 1])
  /\ UNCHANGED <<shape, wf, cacheVars, queued, timer, clock, succeeded, created>>

-----------------------------------------------------------------------------
(* The end of a reconcile *)

\* The phase, its condition and the completion time follow from the steps.
withPhase(s) ==
  LET phase == computeWorkflowPhase(stepNames, s.steps)
  IN  [s EXCEPT
         !.phase = phase,
         !.reason = IF phase # s.phase /\ phase # "Pending" THEN phase ELSE @,
         !.completionTime =
           IF isWorkflowTerminal(phase) /\ @ = 0 THEN clock ELSE @]

\* RequeueAfter: the pending timer is kept if it is due earlier.
requeue(due) ==
  timer' = IF due # 0 /\ (timer = 0 \/ due < timer) THEN due ELSE timer

\* Mutant: no RequeueAfter is returned.
timeoutDueNever(s) == 0

\* The deadline lies between two ticks: the one at which it has not passed,
\* so that some of it remains, and the next, at which it has.
timeoutDue(s) ==
  IF /\ ~isWorkflowTerminal(s.phase) /\ shape.timeout # 0 /\ s.startTime # 0
     /\ clock - s.startTime <= shape.timeout
    THEN s.startTime + shape.timeout + 1 ELSE 0

\* The walk is over: without a change no patch is sent.
EndSteps ==
  /\ work # NoWork /\ work.then = "steps" /\ work.next > Len(shape.order)
  /\ LET new == withPhase(work.local)
     IN  IF work.updated \/ new # work.local
           THEN /\ work' = [work EXCEPT !.local = new, !.then = "patch"]
                /\ UNCHANGED timer
           ELSE /\ work' = NoWork
                /\ requeue(timeoutDue(work.local))
  /\ UNCHANGED <<apiVars, cacheVars, queued, clock, ghostVars>>

merge(server, base, new) == IF new # base THEN new ELSE server

\* The merge patch replaces the fields that differ from the base; the list of
\* step statuses is one field.
mergePatch(server, base, new) ==
  [live |-> server.live,
   phase |-> merge(server.phase, base.phase, new.phase),
   startTime |-> merge(server.startTime, base.startTime, new.startTime),
   completionTime |->
     merge(server.completionTime, base.completionTime, new.completionTime),
   reason |-> merge(server.reason, base.reason, new.reason),
   steps |-> merge(server.steps, base.steps, new.steps)]

\* After the patch the local Workflow is what the API server returned.
PatchStatus ==
  /\ work # NoWork /\ work.then = "patch" /\ wf.live
  /\ wf' = mergePatch(wf, work.base, work.local)
  /\ requeue(IF work.next = 0 THEN work.requeueAfter ELSE timeoutDue(wf'))
  /\ work' = NoWork
  /\ UNCHANGED <<shape, runners, cacheVars, queued, clock, ghostVars>>

PatchStatusFails ==
  /\ work # NoWork /\ work.then = "patch"
  /\ \/ ~wf.live /\ UNCHANGED faults
     \/ fault
  /\ work' = NoWork /\ queued' = TRUE
  /\ UNCHANGED <<apiVars, cacheVars, timer, clock, succeeded, created>>

Controller ==
  \/ ReconcileReadFails \/ ReconcileNotFound \/ ReconcileRejected
  \/ ReconcileTimeout \/ ReconcileDeferred \/ ReconcileSteps
  \/ StepWithoutCall \/ CreateRunner \/ CreateRunnerFails \/ RetryStep
  \/ EndSteps \/ PatchStatus \/ PatchStatusFails

-----------------------------------------------------------------------------
(* The environment *)

\* Mutant: a change of the status alone does not queue the key.
SyncWorkflowSpecOnly ==
  /\ wfCache # wf
  /\ wfCache' = wf
  /\ queued' = (queued \/ wfCache.live # wf.live)
  /\ UNCHANGED <<apiVars, runnersCache, timer, work, clock, ghostVars>>

\* Watches For(Workflow) and Owns(Runner).
SyncWorkflow ==
  /\ wfCache # wf
  /\ wfCache' = wf /\ queued' = TRUE
  /\ UNCHANGED <<apiVars, runnersCache, timer, work, clock, ghostVars>>

\* Mutant: the controller does not watch the Runners it owns.
SyncRunnersUnwatched ==
  /\ runnersCache # runners
  /\ runnersCache' = runners
  /\ UNCHANGED <<apiVars, wfCache, queued, timer, work, clock, ghostVars>>

SyncRunners ==
  /\ runnersCache # runners
  /\ runnersCache' = runners
  /\ queued' = (queued \/ \E s \in Steps :
                  /\ runnersCache[s] # runners[s]
                  /\ runnersCache[s].owned \/ runners[s].owned)
  /\ UNCHANGED <<apiVars, wfCache, timer, work, clock, ghostVars>>

TimerFires ==
  /\ timer # 0 /\ clock >= timer
  /\ timer' = 0 /\ queued' = TRUE
  /\ UNCHANGED <<apiVars, cacheVars, work, clock, ghostVars>>

\* Time passes where it matters: for a timeout, a backoff or a pending requeue.
Tick ==
  /\ \/ shape.timeout # 0 \/ timer > clock
     \/ \E s \in stepNames : shape.backoff[s].initialDelay # 0
  /\ clock < IF wf.startTime = 0 THEN MaxStart ELSE MaxClock
  /\ PromptReconciles => work = NoWork
  /\ clock' = clock + 1
  /\ UNCHANGED <<apiVars, cacheVars, procVars, ghostVars>>

\* The Runner controller moves a Runner on; it may go from Pending straight to
\* its end as far as the status shows.
RunnerAdvances(s) ==
  /\ runners[s].there
  /\ \E p \in {"Pending", "Running"} \cup RunnerOutcomes :
       /\ <<runners[s].phase, p>> \in
            {<<"none", "Pending">>, <<"Pending", "Running">>,
             <<"Pending", "Succeeded">>, <<"Pending", "Failed">>,
             <<"Running", "Succeeded">>, <<"Running", "Failed">>}
       /\ runners' = [runners EXCEPT ![s].phase = p,
                        ![s].endedAt = IF p \in RunnerOutcomes THEN clock ELSE 0]
       /\ succeeded' = IF p = "Succeeded" THEN succeeded \cup {s} ELSE succeeded
  /\ UNCHANGED <<shape, wf, cacheVars, procVars, clock, created, faults>>

removeRunner(s) ==
  /\ runners[s].there
  /\ runners' = [runners EXCEPT ![s] = removed(@)]
  /\ UNCHANGED <<shape, wf, cacheVars, procVars, clock, ghostVars>>

\* Within the bound MaxRunners, so that the next Runner can be created.
UserDeletesRunner ==
  /\ shape \in RunnersDeletable
  /\ \E s \in Steps : created[s] + 1 < MaxRunners /\ removeRunner(s)

UserDeletesWorkflow ==
  /\ WorkflowDeletable /\ wf.live
  /\ wf' = [wf EXCEPT !.live = FALSE]
  /\ UNCHANGED <<shape, runners, cacheVars, procVars, clock, ghostVars>>

\* The garbage collector removes the Runners of a Workflow that is gone.
RunnerCollected ==
  ~wf.live /\ \E s \in Steps : runners[s].owned /\ removeRunner(s)

Crash ==
  /\ fault
  /\ wfCache' = wf /\ runnersCache' = runners
  /\ queued' = TRUE /\ timer' = 0 /\ work' = NoWork
  /\ UNCHANGED <<apiVars, clock, succeeded, created>>

Next ==
  \/ Controller
  \/ SyncWorkflow \/ SyncRunners \/ TimerFires \/ Tick
  \/ \E s \in Steps : RunnerAdvances(s)
  \/ UserDeletesRunner \/ UserDeletesWorkflow \/ RunnerCollected
  \/ Crash

Spec == Init /\ [][Next]_vars

\* Reconciles and calls proceed, informers deliver, timers fire, time passes
\* and Runners run to an end.  Users, faults and the quota owe nothing.
Fairness ==
  /\ WF_vars(Controller)
  /\ WF_vars(SyncWorkflow) /\ WF_vars(SyncRunners) /\ WF_vars(TimerFires)
  /\ WF_vars(Tick) /\ WF_vars(RunnerCollected)
  /\ \A s \in Steps : WF_vars(RunnerAdvances(s))

FairSpec == Spec /\ Fairness

-----------------------------------------------------------------------------
(* Properties *)

\* evaluateStep's default condition: a Runner for an on_success step exists
\* only if, for each of its dependencies, a Runner has succeeded.  It takes a
\* wrong status in the API server, a cache or a walk to break it.
DependenciesSucceededFirst ==
  \A s \in Steps :
    runners[s].there /\ shape.when[s] = "on_success" =>
      shape.deps[s] \subseteq succeeded

\* "DAG cycle detection must abort the workflow before any Runner is created.":
\* not even the steps outside the cycle get a Runner.
NoRunnerForCycle == detectCycle => \A s \in Steps : ~runners[s].there

\* Every step the status shows as Succeeded had a Runner that succeeded:
\* upsertStepStatus copies phases from a list of Runners that may be old, and
\* a timeout, a retry or a patch of an old base may overwrite what it wrote.
StepSuccessIsReal ==
  \A s \in Steps : wf.steps[s].phase = "Succeeded" => s \in succeeded

\* A workflow that says Succeeded has no step that is active or failed: the
\* phase and the steps are written by different passes and never disagree,
\* unless a pass reads a status older than the last patch.
SuccessMeansAllDone ==
  shape \notin StaleFor /\ wf.phase = "Succeeded" =>
    \A s \in stepNames : wf.steps[s].phase \in {"Succeeded", "Skipped"}

Quiescent ==
  work = NoWork /\ ~queued /\ wfCache = wf /\ runnersCache = runners

Started == wf.live /\ ~rejected /\ wf.startTime # 0

\* Step s, if it may run, has a Runner and is not done, shows its phase, or it
\* waits for the backoff of a retry, if waiting.
mirrored(s, steps, list, waiting) ==
  /\ list[s].there /\ steps[s].phase \notin DoneStepPhases
  /\ evaluateStep(shape.deps[s], shape.when[s], steps) = "run"
  => \/ steps[s].phase = runnerPhaseToStepPhase(list[s].phase)
     \/ waiting /\ steps[s].completedAt # 0 /\ list[s].phase = "Failed"

\* A user may delete the Runner of a step that was done; a pass that reads an
\* old status may take a workflow for timed out that is not yet.  Either way a
\* step that starts may have a CompletedAt.
startsCompleted ==
  shape \in RunnersDeletable \/ (shape \in StaleFor /\ shape.timeout # 0)

settled(status, list) ==
  /\ status.phase = computeWorkflowPhase(stepNames, status.steps)
  /\ \A s \in stepNames : mirrored(s, status.steps, list, startsCompleted)

\* No wake-up is lost: when the operator has nothing left to do, the status of
\* every step that may run and is not done shows the phase of its Runner, and
\* the phase of the workflow is the one its steps give.  A retry that waits for
\* its backoff, for which no reconcile is requested, is left waiting only if
\* the step had a CompletedAt when it started.
SettledMeansMirrored == Quiescent /\ Started => settled(wf, runners)

\* A step whose status may let it run though no pass has tried to create its
\* Runner: users may delete the Runner, a timeout may end the dependencies, and a
\* pass that reads an old count of retries may take the Runner to be there.
runsUntried(s) ==
  \/ shape \in RunnersDeletable
  \/ shape.timeout # 0 /\ shape.when[s] # "on_success"
  \/ shape \in StaleFor /\ shape.maxRetries[s] > 0

\* A step may lack the Runner of its status if a Create failed twice, or failed
\* in a pass that had nothing else to record.
excused(s, steps) ==
  faults > IF steps[s].retryCount > 0 \/ runsUntried(s) THEN 0 ELSE 1

runs(s, steps) == evaluateStep(shape.deps[s], shape.when[s], steps) = "run"

\* "Never swallow failures": when the operator has nothing left to do, every
\* step that evaluateStep lets run has a Runner, even if a Create has failed.
\* Only a step whose Runner was deleted, for a retry or by a user, or that runs
\* because of a timeout may be left without one: its status is recorded already,
\* so the pass whose Create failed changes nothing and wakes nobody.  The same
\* holds of any step if its Create fails twice in a row.
RunnableMeansRunner ==
  Quiescent /\ Started =>
    \A s \in stepNames :
      runs(s, wf.steps) => runners[s].there \/ excused(s, wf.steps)

\* "maximum number of retry attempts": unless users delete Runners, a step gets
\* one Runner and at most MaxRetries more, but for one more per fault: a restart
\* or failed patch after the Delete of a failed Runner loses the count of that
\* attempt.
RetriesBounded ==
  shape \notin StaleFor \cup RunnersDeletable =>
    \A s \in Steps : created[s] <= shape.maxRetries[s] + 1 + faults

\* A workflow that ended stays ended, unless users delete its Runners, a pass
\* reads a status older than the last patch, or there is a timeout: that fails
\* steps which never had a Runner, and the next pass may create one.
EndedStaysEnded ==
  [][/\ shape \notin StaleFor \cup RunnersDeletable /\ shape.timeout = 0
     /\ isWorkflowTerminal(wf.phase)
     => isWorkflowTerminal(wf'.phase)]_vars

\* Users who delete a Runner give its step another chance, and so does a pass
\* that reads an old count of retries; a timeout fails steps that succeeded; and
\* a pass that has not seen the Workflow go may create Runners anew.
FatesLast ==
  /\ wf.live /\ shape \notin RunnersDeletable /\ shape.timeout = 0
  /\ shape \in StaleFor => \A s \in Steps : shape.maxRetries[s] = 0

\* A Runner for an on_failure step exists only if some dependency of the step
\* never succeeded: it failed for good or was skipped.
FailureStepsFollowFailure ==
  FatesLast => \A s \in Steps :
    runners[s].there /\ shape.when[s] = "on_failure" =>
      ~(shape.deps[s] \subseteq succeeded)

\* "delay = InitialDelay * 2^retryCount, capped at MaxDelay".
documentedDelay(backoff, retryCount) ==
  LET delay == backoff.initialDelay * 2^retryCount
  IN  IF backoff.maxDelay # 0 /\ delay > backoff.maxDelay
        THEN backoff.maxDelay ELSE delay

\* "Returns true when the backoff period has elapsed since the step's last
\* completion": a failed Runner is replaced only after its backoff.
BackoffRespected ==
  [][\A s \in Steps :
       RetryStep /\ stepNow = s /\ runners[s].there /\ runners[s].phase = "Failed" =>
         clock - runners[s].endedAt
           >= documentedDelay(shape.backoff[s], statusNow.retryCount)]_vars

Execution ==
  INSTANCE DagExecution WITH
    Plans <- Shapes, plan <- shape, active <- {s \in Steps : runners[s].there},
    reported <- {s \in Steps : wf.steps[s].phase = "Succeeded"}

\* The operator implements DagExecution: whatever the caches, the queue, faults
\* and users do, every change of the Runners and of what the status reports is
\* one the abstract execution allows, and one at a time.
ExecutesDag == Execution!Spec

\* Every workflow that is not deleted eventually ends, and stays ended.
WorkflowEnds == <>[](wf.live => isWorkflowTerminal(wf.phase))

\* A deleted Workflow leaves no Runner behind for good.
NothingLeftBehind == <>[](~wf.live => \A s \in Steps : ~runners[s].there)
=============================================================================
