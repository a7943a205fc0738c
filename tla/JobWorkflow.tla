----------------------------- MODULE JobWorkflow -----------------------------
(***************************************************************************)
(* The Workflow controller for a workflow with jobs (reconcileJobWorkflow  *)
(* and reconcileJob in internal/controller/workflow_controller.go): one    *)
(* Workflow, the Runners of the steps of its jobs, and the reconciler.     *)
(*                                                                         *)
(* A reconcile takes the job phases once, before it goes over the jobs in  *)
(* spec order; a job that runs walks over its sorted steps as a flat       *)
(* workflow does, an action per iteration, and then derives its own phase. *)
(* Step statuses and Runner names are derived from the step's name alone,  *)
(* whichever job the step belongs to.                                      *)
(*                                                                         *)
(* Left out: backoff, deletion of the Workflow and of Runners by users and  *)
(* the completion time (FlatWorkflow has them), and the fields a job adds  *)
(* to its Runners.                                                         *)
(***************************************************************************)
EXTENDS WorkflowDecisions, Sequences

CONSTANTS
  Jobs, Steps,  \* job and step names
  Names,        \* Runner names
  Shapes,       \* the workflows to consider
  StaleFor,     \* those whose caches may lag when a reconcile starts
  QuotaFor,     \* those whose namespace quota may be exhausted
  NoWork,       \* no reconcile in progress
  PromptReconciles, \* no deadline passes during a reconcile
  MaxRunners,   \* bound on Runners created under one name
  MaxFaults,    \* bound on failed API calls and operator restarts
  MaxClock      \* bound on the clock

\* jobs: the jobs in spec order; steps: the steps of a job in the order of
\* topologicalSortSteps, those it drops last; runnerName: the Runner name that
\* sanitizeStepName makes of a step's name; 0 is no timeout.  A workflow
\* without jobs is a flat one.
JobWorkflowSpecs ==
  [jobs : Seq(Jobs), needs : [Jobs -> SUBSET Jobs], when : [Jobs -> Whens],
   steps : [Jobs -> Seq(Steps)], deps : [Steps -> SUBSET Steps],
   stepWhen : [Steps -> Whens], maxRetries : [Steps -> Nat],
   runnerName : [Steps -> Names], timeout : Nat]

ASSUME JobAssumption ==
  /\ Shapes \subseteq {sp \in JobWorkflowSpecs : sp.jobs # <<>>}
  /\ StaleFor \subseteq Shapes /\ QuotaFor \subseteq Shapes
  /\ PromptReconciles \in BOOLEAN
  /\ MaxRunners \in Nat /\ MaxFaults \in Nat /\ MaxClock \in Nat

VARIABLES
  shape,      \* the spec of the Workflow
  wf,         \* the Workflow in the API server
  runners,    \* the Runners in the API server, by name
  wfCache, runnersCache,
  queued,     \* the Workflow's key is in the work queue
  timer,      \* when a RequeueAfter is due; 0 is none
  work,       \* the local variables of the reconcile in progress
  clock,
  succeeded,  \* history: <<job, step>> of Runners that succeeded
  skipped,    \* history: steps that were recorded as Skipped
  created,    \* history: the number of Runners created under every name
  faults

apiVars == <<shape, wf, runners>>
cacheVars == <<wfCache, runnersCache>>
procVars == <<queued, timer, work>>
ghostVars == <<succeeded, skipped, created, faults>>
vars == <<apiVars, cacheVars, procVars, clock, ghostVars>>

\* The phases of jobs are those of steps.
JobStatuses == [phase : StepPhases]
NoJobStatus == [phase |-> "none"]

WorkflowStatus ==
  [phase : WorkflowPhases, startTime : Nat,
   reason : {"none", "CycleDetected", "QuotaExceeded", "TimedOut",
             "Running", "Succeeded", "Failed"},
   jobs : [Jobs -> JobStatuses], steps : [Steps -> StepStatuses]]

\* The labels name the job and the step a Runner is for.
NoRunner == [there |-> FALSE, phase |-> "none", uid |-> 0, labels |-> <<>>]
RunnerObject ==
  [there : BOOLEAN, phase : RunnerPhases, uid : Nat,
   labels : (Jobs \X Steps) \cup {<<>>}]
RunnerObjects == [Names -> RunnerObject]

\* job and step index the job and the step the walk has come to; step 0 is
\* before the job's own decision.
Work ==
  [local : WorkflowStatus, base : WorkflowStatus, list : RunnerObjects,
   job : Nat, step : Nat, updated : BOOLEAN, then : {"jobs", "patch"},
   requeueAfter : Nat]

TypeOK ==
  /\ shape \in Shapes
  /\ wf \in WorkflowStatus /\ wfCache \in WorkflowStatus
  /\ runners \in RunnerObjects /\ runnersCache \in RunnerObjects
  /\ \A n \in Names : runners[n].there => runners[n].labels \in Jobs \X Steps
  /\ queued \in BOOLEAN /\ timer \in Nat /\ clock \in Nat
  /\ work # NoWork => work \in Work /\ (work.then = "jobs" => work.job # 0)
  /\ succeeded \subseteq Jobs \X Steps /\ skipped \subseteq Steps
  /\ created \in [Names -> Nat] /\ faults \in Nat

Init ==
  /\ shape \in Shapes
  /\ wf = [phase |-> "none", startTime |-> 0, reason |-> "none",
           jobs |-> [j \in Jobs |-> NoJobStatus],
           steps |-> [s \in Steps |-> NoStepStatus]]
  /\ runners = [n \in Names |-> NoRunner]
  /\ wfCache = wf /\ runnersCache = runners
  /\ queued = TRUE /\ timer = 0 /\ work = NoWork /\ clock = 1
  /\ succeeded = {} /\ skipped = {} /\ created = [n \in Names |-> 0] /\ faults = 0

fault == faults < MaxFaults /\ faults' = faults + 1

-----------------------------------------------------------------------------
(* Reconcile up to the jobs *)

startReconcile ==
  /\ work = NoWork /\ queued
  /\ shape \in StaleFor \/ (wfCache = wf /\ runnersCache = runners)
  /\ queued' = FALSE
  /\ UNCHANGED <<apiVars, cacheVars, timer, clock, succeeded, skipped, created>>

callPatch(new, requeueAfter) ==
  work' = [local |-> new, base |-> wfCache, list |-> runnersCache, job |-> 0,
           step |-> 0, updated |-> TRUE, then |-> "patch",
           requeueAfter |-> requeueAfter]

\* The Get of the Workflow or the list of its Runners fails.
ReconcileReadFails ==
  /\ work = NoWork /\ queued /\ fault
  /\ UNCHANGED <<apiVars, cacheVars, procVars, clock, succeeded, skipped, created>>

elements(seq) == {seq[i] : i \in DOMAIN seq}
jobNames == elements(shape.jobs)
stepsOf(j) == elements(shape.steps[j])

\* A job needs one that does not exist, or jobs need one another in a circle.
detectJobCycle ==
  \/ \E j \in jobNames : ~(shape.needs[j] \subseteq jobNames)
  \/ \E S \in SUBSET jobNames : S # {} /\ \A j \in S : shape.needs[j] \cap S # {}

ReconcileRejected ==
  /\ startReconcile /\ detectJobCycle
  /\ callPatch([wfCache EXCEPT !.reason = "CycleDetected"], 0)
  /\ UNCHANGED faults

timedOut ==
  /\ shape.timeout # 0 /\ ~isWorkflowTerminal(wfCache.phase)
  /\ wfCache.startTime # 0 /\ clock - wfCache.startTime > shape.timeout

\* Mutant: only the workflow and its steps are failed.
handleTimeoutJobsStepsOnly(s) ==
  [s EXCEPT
     !.phase = "Failed", !.reason = "TimedOut",
     !.steps = [x \in Steps |-> IF \E j \in jobNames : x \in stepsOf(j)
                                  THEN upsertStepStatus(s.steps[x], "Failed", 0)
                                  ELSE s.steps[x]]]

\* Every job and every step fails, done or not; the Runners go on.
handleTimeoutJobs(s) ==
  [s EXCEPT
     !.phase = "Failed", !.reason = "TimedOut",
     !.jobs = [j \in Jobs |-> IF j \in jobNames THEN [phase |-> "Failed"] ELSE s.jobs[j]],
     !.steps = [x \in Steps |-> IF \E j \in jobNames : x \in stepsOf(j)
                                  THEN upsertStepStatus(s.steps[x], "Failed", 0)
                                  ELSE s.steps[x]]]

ReconcileTimeout ==
  /\ startReconcile /\ ~detectJobCycle /\ timedOut
  /\ callPatch(handleTimeoutJobs(wfCache), 0)
  /\ UNCHANGED faults

\* The namespace quota defers a workflow that has not started by 30 seconds.
ReconcileDeferred ==
  /\ startReconcile /\ ~detectJobCycle
  /\ wfCache.startTime = 0 /\ shape \in QuotaFor
  /\ callPatch([wfCache EXCEPT !.reason = "QuotaExceeded"], clock + 1)
  /\ UNCHANGED faults

ReconcileJobs ==
  /\ startReconcile /\ ~detectJobCycle /\ ~timedOut
  /\ work' = [local |-> IF wfCache.startTime = 0
                          THEN [wfCache EXCEPT !.startTime = clock] ELSE wfCache,
              base |-> wfCache, list |-> runnersCache, job |-> 1, step |-> 0,
              updated |-> wfCache.startTime = 0, then |-> "jobs",
              requeueAfter |-> 0]
  /\ UNCHANGED faults

-----------------------------------------------------------------------------
(* reconcileJob *)

jobNow == shape.jobs[work.job]

\* The phases before the first job was looked at.
jobStatusMap == work.base.jobs

\* Mutant: a needed job that was skipped does not count.
evaluateJobWhenSkipped(j, statuses) ==
  evaluateStep({i \in shape.needs[j] : statuses[i].phase # "Skipped"}, shape.when[j], statuses)

evaluateJobWhen(j, statuses) == evaluateStep(shape.needs[j], shape.when[j], statuses)

\* The steps that topologicalSortSteps drops: they wait for one another or for a
\* step that is not in the job.
dropped(j) ==
  UNION {S \in SUBSET stepsOf(j) :
           \A s \in S : shape.deps[s] \cap S # {} \/ ~(shape.deps[s] \subseteq stepsOf(j))}

placed(j) == stepsOf(j) \ dropped(j)

atJob == work # NoWork /\ work.then = "jobs" /\ work.job <= Len(shape.jobs)

nextJob(phase) ==
  work' = [work EXCEPT !.job = @ + 1, !.step = 0,
                       !.local.jobs[jobNow].phase = phase,
                       !.updated = @ \/ phase # work.local.jobs[jobNow].phase]

\* A job that is done is left alone.  Skipped is only recorded for a job that
\* has no status yet.
EnterJob ==
  /\ atJob /\ work.step = 0
  /\ LET phase == jobStatusMap[jobNow].phase
         decision == evaluateJobWhen(jobNow, jobStatusMap)
     IN  IF phase \in DoneStepPhases THEN nextJob(phase)
         ELSE \/ /\ decision = "skip"
                 /\ nextJob(IF phase = "none" THEN "Skipped" ELSE phase)
              \/ decision = "wait" /\ nextJob("Waiting")
              \/ /\ decision = "run"
                 /\ work' = [work EXCEPT !.step = 1,
                               !.local.jobs[jobNow].phase = "Running",
                               !.updated = @ \/ phase # "Running"]
  /\ UNCHANGED <<apiVars, cacheVars, queued, timer, clock, ghostVars>>

stepNow == shape.steps[jobNow][work.step]

\* The walk goes over the steps that sorting kept.
inStepLoop ==
  atJob /\ work.step \in DOMAIN shape.steps[jobNow] /\ stepNow \in placed(jobNow)

statusNow == work.local.steps[stepNow]

\* filterRunnersByJob, then the Runner with the step's label.
runnerOf(list) ==
  LET r == list[shape.runnerName[stepNow]]
  IN  IF r.labels = <<jobNow, stepNow>> THEN r ELSE NoRunner

runnerNow == runnerOf(work.list)

decisionNow == evaluateStep(shape.deps[stepNow], shape.stepWhen[stepNow], work.local.steps)

stepClosed == statusNow.phase \in DoneStepPhases /\ runnerNow.there

continueLoop == work' = [work EXCEPT !.step = @ + 1]

recordStep(s) ==
  work' = [work EXCEPT !.step = @ + 1, !.updated = TRUE, !.local.steps[stepNow] = s]

retryNow ==
  /\ runnerPhaseToStepPhase(runnerNow.phase) = "Failed"
  /\ statusNow.retryCount < shape.maxRetries[stepNow]

StepWithoutCall ==
  /\ inStepLoop
  /\ \/ stepClosed /\ continueLoop
     \/ /\ ~stepClosed /\ decisionNow \in {"skip", "wait"}
        /\ IF statusNow.phase = "none"
             THEN recordStep([NoStepStatus EXCEPT
                    !.phase = IF decisionNow = "skip" THEN "Skipped" ELSE "Waiting"])
             ELSE continueLoop
     \/ /\ ~stepClosed /\ decisionNow = "run" /\ runnerNow.there /\ ~retryNow
        /\ LET phase == runnerPhaseToStepPhase(runnerNow.phase)
           IN  IF statusNow.phase # phase
                 THEN recordStep(upsertStepStatus(statusNow, phase, 0))
                 ELSE continueLoop
  /\ UNCHANGED <<apiVars, cacheVars, queued, timer, clock, ghostVars>>

wantsRunner == inStepLoop /\ ~stepClosed /\ decisionNow = "run" /\ ~runnerNow.there

buildJobStepRunner(uid) ==
  [NoRunner EXCEPT !.there = TRUE, !.uid = uid, !.labels = <<jobNow, stepNow>>]

CreateRunner ==
  LET name == shape.runnerName[stepNow]
  IN  /\ wantsRunner /\ ~runners[name].there /\ created[name] < MaxRunners
      /\ runners' = [runners EXCEPT ![name] = buildJobStepRunner(created[name] + 1)]
      /\ created' = [created EXCEPT ![name] = @ + 1]
      /\ recordStep(upsertStepStatus(statusNow, "Pending", 0))
      /\ UNCHANGED <<shape, wf, cacheVars, queued, timer, clock, succeeded, skipped, faults>>

\* Any error, AlreadyExists included, is logged and the walk goes on.
CreateRunnerFails ==
  /\ wantsRunner
  /\ \/ runners[shape.runnerName[stepNow]].there /\ UNCHANGED faults
     \/ fault
  /\ continueLoop
  /\ UNCHANGED <<apiVars, cacheVars, queued, timer, clock, succeeded, skipped, created>>

\* The retry counts whether or not the Delete succeeds.
RetryStep ==
  /\ inStepLoop /\ ~stepClosed /\ decisionNow = "run" /\ runnerNow.there /\ retryNow
  /\ \/ /\ runners' = [runners EXCEPT ![shape.runnerName[stepNow]] = NoRunner]
        /\ UNCHANGED faults
     \/ fault /\ UNCHANGED runners
  /\ recordStep([upsertStepStatus(statusNow, "Pending", 0) EXCEPT !.retryCount = @ + 1])
  /\ UNCHANGED <<shape, wf, cacheVars, queued, timer, clock, succeeded, skipped, created>>

\* Mutant: steps that sorting dropped are waited for.
jobPhaseOfAllSteps(j, statuses) ==
  IF \E s \in stepsOf(j) : statuses[s].phase \notin DoneStepPhases THEN "Running"
  ELSE IF \E s \in stepsOf(j) : statuses[s].phase = "Failed" THEN "Failed" ELSE "Succeeded"

\* Mutant: the job is done when no step is active; unrecorded steps are missed.
jobPhaseEarly(j, statuses) ==
  IF \E s \in placed(j) : statuses[s].phase \in ActiveStepPhases THEN "Running"
  ELSE IF \E s \in placed(j) : statuses[s].phase = "Failed" THEN "Failed" ELSE "Succeeded"

\* Job.Steps is the sorted list by now: steps it dropped are not looked at, and
\* a job all of whose steps were dropped succeeds at once.
jobPhase(j, statuses) ==
  IF \E s \in placed(j) : statuses[s].phase \notin DoneStepPhases THEN "Running"
  ELSE IF \E s \in placed(j) : statuses[s].phase = "Failed" THEN "Failed" ELSE "Succeeded"

LeaveJob ==
  /\ atJob /\ work.step > 0 /\ ~inStepLoop
  /\ nextJob(jobPhase(jobNow, work.local.steps))
  /\ UNCHANGED <<apiVars, cacheVars, queued, timer, clock, ghostVars>>

-----------------------------------------------------------------------------
(* The end of a reconcile *)

computeJobWorkflowPhase(s) == computeWorkflowPhase(jobNames, s.jobs)

withPhase(s) ==
  LET phase == computeJobWorkflowPhase(s)
  IN  [s EXCEPT
         !.phase = phase,
         !.reason = IF phase # s.phase /\ phase # "Pending" THEN phase ELSE @]

requeue(due) ==
  timer' = IF due # 0 /\ (timer = 0 \/ due < timer) THEN due ELSE timer

\* Mutant: no reconcile is requested for the timeout.
timeoutDueNever(s) == 0

timeoutDue(s) ==
  IF /\ ~isWorkflowTerminal(s.phase) /\ shape.timeout # 0 /\ s.startTime # 0
     /\ clock - s.startTime <= shape.timeout
    THEN s.startTime + shape.timeout + 1 ELSE 0

EndJobs ==
  /\ work # NoWork /\ work.then = "jobs" /\ work.job > Len(shape.jobs)
  /\ LET new == withPhase(work.local)
     IN  IF work.updated \/ new # work.local
           THEN /\ work' = [work EXCEPT !.local = new, !.then = "patch"]
                /\ UNCHANGED timer
           ELSE work' = NoWork /\ requeue(timeoutDue(work.local))
  /\ UNCHANGED <<apiVars, cacheVars, queued, clock, ghostVars>>

merge(server, base, new) == IF new # base THEN new ELSE server

\* The lists of job and of step statuses are one field each.
mergePatch(server, base, new) ==
  [phase |-> merge(server.phase, base.phase, new.phase),
   startTime |-> merge(server.startTime, base.startTime, new.startTime),
   reason |-> merge(server.reason, base.reason, new.reason),
   jobs |-> merge(server.jobs, base.jobs, new.jobs),
   steps |-> merge(server.steps, base.steps, new.steps)]

PatchStatus ==
  /\ work # NoWork /\ work.then = "patch"
  /\ wf' = mergePatch(wf, work.base, work.local)
  /\ skipped' = skipped \cup {s \in Steps : wf'.steps[s].phase = "Skipped"}
  /\ requeue(IF work.job = 0 THEN work.requeueAfter ELSE timeoutDue(wf'))
  /\ work' = NoWork
  /\ UNCHANGED <<shape, runners, cacheVars, queued, clock, succeeded, created, faults>>

PatchStatusFails ==
  /\ work # NoWork /\ work.then = "patch" /\ fault
  /\ work' = NoWork /\ queued' = TRUE
  /\ UNCHANGED <<apiVars, cacheVars, timer, clock, succeeded, skipped, created>>

Controller ==
  \/ ReconcileReadFails \/ ReconcileRejected \/ ReconcileTimeout \/ ReconcileDeferred
  \/ ReconcileJobs \/ EnterJob \/ StepWithoutCall \/ CreateRunner \/ CreateRunnerFails
  \/ RetryStep \/ LeaveJob \/ EndJobs \/ PatchStatus \/ PatchStatusFails

-----------------------------------------------------------------------------
(* The environment *)

\* Mutant: a change of the status alone does not queue the key.
SyncWorkflowSpecOnly ==
  /\ wfCache # wf
  /\ wfCache' = wf
  /\ UNCHANGED <<apiVars, runnersCache, procVars, clock, ghostVars>>

SyncWorkflow ==
  /\ wfCache # wf
  /\ wfCache' = wf /\ queued' = TRUE
  /\ UNCHANGED <<apiVars, runnersCache, timer, work, clock, ghostVars>>

SyncRunners ==
  /\ runnersCache # runners
  /\ runnersCache' = runners /\ queued' = TRUE
  /\ UNCHANGED <<apiVars, wfCache, timer, work, clock, ghostVars>>

TimerFires ==
  /\ timer # 0 /\ clock >= timer
  /\ timer' = 0 /\ queued' = TRUE
  /\ UNCHANGED <<apiVars, cacheVars, work, clock, ghostVars>>

\* Time matters to a started workflow's timeout and to the quota's retry.
Tick ==
  /\ clock < MaxClock /\ (PromptReconciles => work = NoWork)
  /\ (shape.timeout # 0 /\ wf.startTime # 0) \/ timer > clock
  /\ clock' = clock + 1
  /\ UNCHANGED <<apiVars, cacheVars, procVars, ghostVars>>

RunnerAdvances(n) ==
  /\ runners[n].there
  /\ \E p \in {"Running", "Succeeded", "Failed"} :
       /\ <<runners[n].phase, p>> \in
            {<<"none", "Running">>, <<"Running", "Succeeded">>, <<"Running", "Failed">>}
       /\ runners' = [runners EXCEPT ![n].phase = p]
       /\ succeeded' = IF p = "Succeeded" THEN succeeded \cup {runners[n].labels}
                       ELSE succeeded
  /\ UNCHANGED <<shape, wf, cacheVars, procVars, clock, skipped, created, faults>>

Crash ==
  /\ fault
  /\ wfCache' = wf /\ runnersCache' = runners
  /\ queued' = TRUE /\ timer' = 0 /\ work' = NoWork
  /\ UNCHANGED <<apiVars, clock, succeeded, skipped, created>>

Next ==
  \/ Controller
  \/ SyncWorkflow \/ SyncRunners \/ TimerFires \/ Tick
  \/ \E n \in Names : RunnerAdvances(n)
  \/ Crash

Spec == Init /\ [][Next]_vars

\* Reconciles and calls proceed, informers deliver, timers fire, time passes and
\* Runners run to an end; the quota and faults owe nothing.
Fairness ==
  /\ WF_vars(Controller)
  /\ WF_vars(SyncWorkflow) /\ WF_vars(SyncRunners) /\ WF_vars(TimerFires)
  /\ WF_vars(Tick) /\ \A n \in Names : WF_vars(RunnerAdvances(n))

FairSpec == Spec /\ Fairness

-----------------------------------------------------------------------------
(* Properties *)

\* The step's name occurs in another job too.
shared(j, s) == \E i \in jobNames \ {j} : s \in stepsOf(i)

\* Every step of the job that was not dropped ran under this job and succeeded,
\* was skipped, or shares its status with the step of another job.
ran(j) ==
  \A s \in placed(j) : <<j, s>> \in succeeded \/ s \in skipped \/ shared(j, s)

\* A job that the status shows as Succeeded did its work, whatever old lists of
\* Runners, statuses and failed patches the passes worked with.  Steps that
\* sorting dropped and step names that jobs share are the exceptions: such a
\* job succeeds without a Runner of its own.
JobSuccessIsReal == \A j \in jobNames : wf.jobs[j].phase = "Succeeded" => ran(j)

\* A Runner for a job that runs on success exists only when each job it needs
\* did its work: the job phases a pass starts from may be old, never ahead.
NeedsRanFirst ==
  \A n \in Names :
    runners[n].there /\ shape.when[runners[n].labels[1]] = "on_success" =>
      \A i \in shape.needs[runners[n].labels[1]] : ran(i)

Quiescent ==
  work = NoWork /\ ~queued /\ timer = 0 /\ wfCache = wf /\ runnersCache = runners

foreign(j, s) ==
  LET r == runners[shape.runnerName[s]] IN r.there /\ r.labels # <<j, s>>

\* The job waits for good: it is to be skipped, and only a job without a status
\* is.
skipMissed(j) ==
  wf.jobs[j].phase = "Waiting" /\ evaluateJobWhen(j, wf.jobs) = "skip"

\* When the operator has nothing left to do, the phase of the workflow follows
\* from its jobs and every phase of a job from the jobs it needs and its own
\* steps, although a pass decides on job phases that it took at its start; and
\* a running job has a Runner for each step that may run.  Exceptions: a job
\* that waits because its skip was missed; and a step that lacks its Runner
\* because another step has the Runner's name, or because a fault hit the
\* Create after a retry.
SettledMeansUpToDate ==
  Quiescent /\ wf.startTime # 0 =>
    /\ wf.phase = computeJobWorkflowPhase(wf)
    /\ \A j \in jobNames :
         LET decision == evaluateJobWhen(j, wf.jobs)
         IN  CASE wf.jobs[j].phase = "Waiting" -> decision = "wait" \/ skipMissed(j)
               [] wf.jobs[j].phase = "Running" ->
                    /\ decision = "run" /\ jobPhase(j, wf.steps) = "Running"
                    /\ \A s \in placed(j) :
                         evaluateStep(shape.deps[s], shape.stepWhen[s], wf.steps) = "run" =>
                           \/ runners[shape.runnerName[s]].there
                           \/ faults > 0 /\ wf.steps[s].retryCount > 0
               [] OTHER -> wf.jobs[j].phase \in DoneStepPhases

\* No step is failed by a timeout or tried again.
firstRunnerDecides == shape.timeout = 0 /\ \A s \in Steps : shape.maxRetries[s] = 0

\* A workflow that ended, by its jobs or by its timeout, starts no Runner, however
\* old the phases and Runners a pass reads.  Two exceptions, with lagging caches:
\* a pass that reads a status from before the timeout patches over the failed
\* jobs and goes on; and a list from before a retry's Delete, read after the
\* retry was counted, ends the workflow on the deleted Runner's failure, while
\* an older status still lets a pass create the next one.
NothingStartsAfterEnd ==
  [][shape \notin StaleFor \/ firstRunnerDecides =>
       created' = created \/ ~isWorkflowTerminal(wf.phase)]_vars

\* What keeps a workflow from ending: a job, or a step of a running job, waits
\* although it is to be skipped (only one without a status can be), a step
\* whose Runner name another step has, a retry whose Create failed, a
\* workflow that was rejected, and a quota that stays exhausted.
heldUp ==
  \/ detectJobCycle \/ (wf.startTime = 0 /\ shape \in QuotaFor)
  \/ \E j \in jobNames :
       \/ skipMissed(j)
       \/ /\ wf.jobs[j].phase = "Running"
          /\ \E s \in placed(j) :
               \/ /\ wf.steps[s].phase = "Waiting"
                  /\ evaluateStep(shape.deps[s], shape.stepWhen[s], wf.steps) = "skip"
               \/ foreign(j, s)
               \/ /\ faults > 0 /\ wf.steps[s].retryCount > 0
                  /\ ~runners[shape.runnerName[s]].there

\* Every workflow ends, unless one of these holds it up for good.
JobWorkflowEnds == <>[](isWorkflowTerminal(wf.phase) \/ heldUp)

\* A workflow with a timeout that got past the checks ends in any case, be its
\* jobs held up, if no reconcile is under way when the deadline passes: one that
\* started before it and ends after it requests no further reconcile.
TimeoutEnds ==
  <>[](wf.startTime # 0 /\ shape.timeout # 0 => isWorkflowTerminal(wf.phase))
=============================================================================
