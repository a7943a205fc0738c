-------------------------- MODULE JobWorkflowProofs --------------------------
(* Types of JobWorkflow, and what each of its actions does, for every value of
   its constants. *)
EXTENDS JobWorkflow, TLAPS

-----------------------------------------------------------------------------
(* Inductive invariants *)

\* A step shown as Succeeded had a Runner of its job that succeeded.
honestSteps(steps) ==
  \A j \in jobNames : \A s \in placed(j) :
    steps[s].phase = "Succeeded" => <<j, s>> \in succeeded \/ shared(j, s)

honestStatus(st) ==
  /\ \A j \in jobNames : st.jobs[j].phase = "Succeeded" => ran(j)
  /\ honestSteps(st.steps)
  /\ \A s \in Steps : st.steps[s].phase = "Skipped" => s \in skipped

honestRunners(list) ==
  \A n \in Names : list[n].phase = "Succeeded" => list[n].labels \in succeeded

\* In a pass, steps that it skips itself count as well.
ranIn(j, steps) ==
  \A s \in placed(j) :
    \/ <<j, s>> \in succeeded \/ s \in skipped \/ shared(j, s)
    \/ steps[s].phase = "Skipped"

\* What makes JobSuccessIsReal and NeedsRanFirst inductive: no copy of the
\* status or of the Runners claims a success that did not happen, and a job
\* whose steps are walked over is Running and was let run by the phases the
\* pass started from.
JobInv ==
  /\ honestStatus(wf) /\ honestStatus(wfCache)
  /\ honestRunners(runners) /\ honestRunners(runnersCache)
  /\ work # NoWork =>
       /\ honestStatus(work.base) /\ honestRunners(work.list)
       /\ honestSteps(work.local.steps)
       /\ \A j \in jobNames :
            work.local.jobs[j].phase = "Succeeded" => ranIn(j, work.local.steps)
       /\ work.then = "jobs" => ~detectJobCycle
       /\ atJob /\ work.step # 0 =>
            /\ work.local.jobs[jobNow].phase = "Running"
            /\ evaluateJobWhen(jobNow, work.base.jobs) = "run"
  /\ NeedsRanFirst

\* A step that is shown as done follows from the statuses beside it, and one that
\* ran ended as its Runner did.
settledSteps(steps) ==
  \A s \in Steps : steps[s].phase \in DoneStepPhases =>
    /\ \E j \in jobNames : s \in placed(j)
    /\ IF steps[s].phase = "Skipped"
         THEN evaluateStep(shape.deps[s], shape.stepWhen[s], steps) = "skip"
         ELSE /\ evaluateStep(shape.deps[s], shape.stepWhen[s], steps) = "run"
              /\ runners[shape.runnerName[s]].there
              /\ runners[shape.runnerName[s]].phase = steps[s].phase

\* A job that is shown as done follows from the phases that were looked at, and
\* one that ran from some such statuses of its steps.
settledJobs(jobs, looked) ==
  \A j \in jobNames : jobs[j].phase \in DoneStepPhases =>
    IF jobs[j].phase = "Skipped" THEN evaluateJobWhen(j, looked) = "skip"
    ELSE /\ evaluateJobWhen(j, looked) = "run"
         /\ \E steps \in [Steps -> JobStatuses] :
              settledSteps(steps) /\ jobPhase(j, steps) = jobs[j].phase

allDone(jobs) == \A j \in jobNames : jobs[j].phase \in DoneStepPhases

\* There are such phases for all jobs.
ended == \E jobs \in [Jobs -> JobStatuses] : settledJobs(jobs, jobs) /\ allDone(jobs)

settledStatus(st) ==
  /\ settledSteps(st.steps) /\ settledJobs(st.jobs, st.jobs)
  /\ isWorkflowTerminal(st.phase) => ended

\* The Runners of an older list are there still, and ended as it says.
seenRunners(list) ==
  \A n \in Names : list[n].there =>
    /\ runners[n].there
    /\ list[n].phase \in {"Succeeded", "Failed"} => runners[n].phase = list[n].phase

\* A pass leaves jobs alone that are done.
leavesDoneJobs ==
  work # NoWork /\ work.then = "jobs" =>
    /\ work.local.phase = work.base.phase
    /\ \A j \in jobNames : work.base.jobs[j].phase \in DoneStepPhases =>
         work.local.jobs[j].phase = work.base.jobs[j].phase
    /\ atJob /\ work.step # 0 => work.base.jobs[jobNow].phase \notin DoneStepPhases

\* If caches do not lag, a pass works on the phases of the server.
freshEnds ==
  shape \notin StaleFor =>
    /\ isWorkflowTerminal(wf.phase) => allDone(wf.jobs)
    /\ work # NoWork =>
         work.base = wf /\ (isWorkflowTerminal(work.local.phase) => allDone(work.local.jobs))

\* The job phases that a pass decides on, and those that its patch shows.
lookedAt == IF work.then = "jobs" THEN work.base.jobs ELSE work.local.jobs

\* If the first Runner of a step decides, all copies of the status, however old,
\* are parts of one outcome: what is done in two of them is done alike.
oneOutcome ==
  firstRunnerDecides =>
    /\ settledStatus(wf) /\ settledStatus(wfCache) /\ seenRunners(runnersCache)
    /\ work # NoWork =>
         /\ settledStatus(work.base) /\ seenRunners(work.list)
         /\ settledSteps(work.local.steps)
         /\ settledJobs(work.local.jobs, lookedAt)
         /\ isWorkflowTerminal(work.local.phase) => ended

\* What makes NothingStartsAfterEnd inductive: the end that the server shows is
\* the one the pass works on, or an old copy lets nothing run that had not run
\* before the end.
JobEndInv == leavesDoneJobs /\ freshEnds /\ oneOutcome

USE DEF StepPhases, DoneStepPhases, ActiveStepPhases, WorkflowPhases, RunnerPhases

-----------------------------------------------------------------------------
(* Types of the decisions *)

\* upsertStepStatus yields a step status with the phase it is given.
LEMMA UpsertType ==
  ASSUME NEW s \in StepStatuses, NEW p \in StepPhases, NEW now \in Nat
  PROVE  /\ upsertStepStatus(s, p, now) \in StepStatuses
         /\ upsertStepStatus(s, p, now).phase = p
BY Zenon DEF upsertStepStatus, StepStatuses, NoStepStatus

\* jobPhase yields the phase of a job.
LEMMA JobPhaseType ==
  ASSUME NEW j, NEW statuses
  PROVE  jobPhase(j, statuses) \in {"Running", "Failed", "Succeeded"}
BY DEF jobPhase

\* The phase and its reason keep a status a status.
LEMMA WithPhaseType ==
  ASSUME NEW s \in WorkflowStatus
  PROVE  /\ withPhase(s) \in WorkflowStatus
         /\ withPhase(s).steps = s.steps /\ withPhase(s).jobs = s.jobs
         /\ withPhase(s).phase = computeJobWorkflowPhase(s)
<1> DEFINE phase == computeJobWorkflowPhase(s)
<1>1. phase \in {"Pending", "Running", "Succeeded", "Failed"}
  BY DEF computeJobWorkflowPhase, computeWorkflowPhase
<1>2. withPhase(s) = [s EXCEPT
         !.phase = phase,
         !.reason = IF phase # s.phase /\ phase # "Pending" THEN phase ELSE @]
  BY DEF withPhase
<1> HIDE DEF phase
<1>3. /\ withPhase(s) \in WorkflowStatus /\ withPhase(s).phase = phase
      /\ withPhase(s).steps = s.steps /\ withPhase(s).jobs = s.jobs
  BY Zenon, <1>1, <1>2 DEF WorkflowStatus
<1> QED BY <1>3 DEF phase

\* A merge patch takes each list from the one side or the other.
LEMMA MergeType ==
  ASSUME NEW s \in WorkflowStatus, NEW b \in WorkflowStatus,
         NEW n \in WorkflowStatus
  PROVE  /\ mergePatch(s, b, n) \in WorkflowStatus
         /\ mergePatch(s, b, n).jobs \in {s.jobs, n.jobs}
         /\ mergePatch(s, b, n).phase \in {s.phase, n.phase}
         /\ b = s => /\ mergePatch(s, b, n).jobs = n.jobs
                     /\ mergePatch(s, b, n).phase = n.phase
         /\ mergePatch(s, b, n).steps = IF n.steps # b.steps THEN n.steps ELSE s.steps
BY DEF mergePatch, merge, WorkflowStatus

\* The status that handleTimeoutJobs writes.
LEMMA TimeoutStatus ==
  ASSUME NEW s \in WorkflowStatus
  PROVE  /\ handleTimeoutJobs(s) \in WorkflowStatus
         /\ \A j \in Jobs : j \in jobNames =>
              handleTimeoutJobs(s).jobs[j].phase = "Failed"
         /\ \A x \in Steps :
              \/ handleTimeoutJobs(s).steps[x].phase = "Failed"
              \/ handleTimeoutJobs(s).steps[x] = s.steps[x]
<1> DEFINE jobs == [j \in Jobs |-> IF j \in jobNames THEN [phase |-> "Failed"] ELSE s.jobs[j]]
           steps == [x \in Steps |-> IF \E j \in jobNames : x \in stepsOf(j)
                                  THEN upsertStepStatus(s.steps[x], "Failed", 0)
                                  ELSE s.steps[x]]
<1>1. /\ jobs \in [Jobs -> JobStatuses]
      /\ \A j \in Jobs : j \in jobNames => jobs[j].phase = "Failed"
  BY DEF JobStatuses, WorkflowStatus
<1>2. s.steps \in [Steps -> StepStatuses]
  BY DEF WorkflowStatus
<1>3. \A x \in Steps : /\ steps[x] \in StepStatuses
                       /\ steps[x].phase = "Failed" \/ steps[x] = s.steps[x]
  <2> TAKE x \in Steps
  <2>1. s.steps[x] \in StepStatuses
    BY <1>2
  <2>2. /\ upsertStepStatus(s.steps[x], "Failed", 0) \in StepStatuses
        /\ upsertStepStatus(s.steps[x], "Failed", 0).phase = "Failed"
    BY ZenonT(40), <2>1, UpsertType
  <2>3. steps[x] \in {upsertStepStatus(s.steps[x], "Failed", 0), s.steps[x]}
    OBVIOUS
  <2> QED BY <2>1, <2>2, <2>3
<1>4. steps \in [Steps -> StepStatuses]
  BY <1>3
<1>5. handleTimeoutJobs(s) =
        [s EXCEPT !.phase = "Failed", !.reason = "TimedOut", !.jobs = jobs, !.steps = steps]
  BY DEF handleTimeoutJobs
<1> HIDE DEF jobs, steps
<1> QED BY Zenon, <1>1, <1>3, <1>4, <1>5 DEF WorkflowStatus

-----------------------------------------------------------------------------
(* Places in the walk *)

\* The fields of the shape.
LEMMA ShapeType ==
  ASSUME TypeOK
  PROVE  /\ shape.jobs \in Seq(Jobs) /\ shape.steps \in [Jobs -> Seq(Steps)]
         /\ shape.needs \in [Jobs -> SUBSET Jobs]
         /\ shape.runnerName \in [Steps -> Names] /\ shape.timeout \in Nat
         /\ jobNames \subseteq Jobs
<1>1. shape \in JobWorkflowSpecs
  BY JobAssumption DEF TypeOK
<1>2. /\ shape.jobs \in Seq(Jobs) /\ shape.steps \in [Jobs -> Seq(Steps)]
      /\ shape.needs \in [Jobs -> SUBSET Jobs]
      /\ shape.runnerName \in [Steps -> Names] /\ shape.timeout \in Nat
  BY <1>1 DEF JobWorkflowSpecs
<1> QED BY <1>2 DEF jobNames, elements

\* The job that the walk has come to.
LEMMA AtJobType ==
  ASSUME TypeOK, atJob
  PROVE  /\ work \in Work /\ work # NoWork /\ work.then = "jobs"
         /\ jobNow \in Jobs /\ jobNow \in jobNames
<1>1. work \in Work /\ work.job \in Nat /\ work.job # 0 /\ work.then = "jobs" /\ work # NoWork
  BY DEF TypeOK, atJob, Work
<1>2. work.job \in DOMAIN shape.jobs
  BY <1>1, ShapeType DEF atJob
<1> QED BY <1>1, <1>2, ShapeType DEF jobNow, jobNames, elements

\* The step that the walk has come to.
LEMMA WalkType ==
  ASSUME TypeOK, inStepLoop
  PROVE  /\ work \in Work /\ work # NoWork /\ work.then = "jobs" /\ work.step # 0 /\ atJob
         /\ jobNow \in Jobs /\ jobNow \in jobNames
         /\ stepNow \in Steps /\ stepNow \in placed(jobNow)
         /\ statusNow \in StepStatuses /\ runnerNow \in RunnerObject
         /\ runnerNow.phase = "Succeeded" =>
              /\ work.list[shape.runnerName[stepNow]].phase = "Succeeded"
              /\ work.list[shape.runnerName[stepNow]].labels = <<jobNow, stepNow>>
<1>1. atJob /\ work \in Work /\ jobNow \in Jobs /\ jobNow \in jobNames
  BY AtJobType DEF inStepLoop
<1>2. shape.steps[jobNow] \in Seq(Steps)
  BY <1>1, ShapeType
<1>3. work.step \in 1 .. Len(shape.steps[jobNow])
  BY <1>2 DEF inStepLoop
<1>4. stepNow \in Steps
  BY <1>2, <1>3 DEF stepNow
<1>5. work.list[shape.runnerName[stepNow]] \in RunnerObject
  BY <1>1, <1>4, ShapeType DEF Work, RunnerObjects
<1>6. NoRunner \in RunnerObject /\ NoRunner.phase = "none"
  BY DEF NoRunner, RunnerObject
<1>7. statusNow \in StepStatuses
  BY <1>1, <1>4 DEF statusNow, Work, WorkflowStatus
<1> QED BY <1>1, <1>3, <1>4, <1>5, <1>6, <1>7
  DEF inStepLoop, runnerNow, runnerOf, atJob

\* work' after an iteration: only the place in the walk, the status of the step
\* and the flag change.
stepped(steps) ==
  /\ work' \in Work
  /\ work'.then = "jobs" /\ work'.job = work.job /\ work'.step # 0
  /\ work'.base = work.base /\ work'.list = work.list
  /\ work'.local.phase = work.local.phase
  /\ work'.local.jobs = work.local.jobs /\ work'.local.steps = steps

\* An iteration that records nothing.
LEMMA ContinueEffect ==
  ASSUME TypeOK, inStepLoop, continueLoop
  PROVE  stepped(work.local.steps)
<1>1. work \in Work /\ work.then = "jobs" /\ work.step + 1 \in Nat /\ work.step + 1 # 0
  BY WalkType DEF Work
<1>2. work' = [work EXCEPT !.step = work.step + 1]
  BY DEF continueLoop
<1> QED BY <1>1, <1>2 DEF stepped, Work

\* An iteration that records s.
LEMMA RecordEffect ==
  ASSUME TypeOK, inStepLoop, NEW s \in StepStatuses, recordStep(s)
  PROVE  stepped([work.local.steps EXCEPT ![stepNow] = s])
<1>1. work \in Work /\ work.then = "jobs" /\ work.step + 1 \in Nat
        /\ work.step + 1 # 0 /\ stepNow \in Steps
  BY WalkType DEF Work
<1> DEFINE steps == [work.local.steps EXCEPT ![stepNow] = s]
           l == [work.local EXCEPT !.steps = steps]
<1>2. work.local \in WorkflowStatus /\ steps \in [Steps -> StepStatuses]
  BY <1>1 DEF Work, WorkflowStatus
<1>3. work' = [work EXCEPT !.step = work.step + 1, !.updated = TRUE, !.local = l]
  BY <1>1, <1>2 DEF recordStep, Work, WorkflowStatus
<1> HIDE DEF steps
<1>4. /\ l \in WorkflowStatus /\ l.steps = steps
      /\ l.jobs = work.local.jobs /\ l.phase = work.local.phase
  BY <1>2 DEF WorkflowStatus
<1> HIDE DEF l
<1>5. stepped(steps)
  BY Zenon, <1>1, <1>3, <1>4 DEF stepped, Work
<1> QED BY <1>5 DEF steps

\* A step of the walk over the jobs that ends a job, or passes it over.
LEMMA NextJobEffect ==
  ASSUME TypeOK, atJob, NEW p \in StepPhases, nextJob(p)
  PROVE  /\ work' \in Work /\ work'.then = "jobs" /\ work'.job # 0 /\ work'.step = 0
         /\ work'.base = work.base /\ work'.list = work.list
         /\ work'.local.steps = work.local.steps /\ work'.local.phase = work.local.phase
         /\ \A j \in Jobs : work'.local.jobs[j].phase =
              IF j = jobNow THEN p ELSE work.local.jobs[j].phase
<1>1. work \in Work /\ work.then = "jobs" /\ work.job + 1 \in Nat
        /\ work.job + 1 # 0 /\ jobNow \in Jobs
  BY AtJobType DEF Work
<1> DEFINE new == [work.local.jobs[jobNow] EXCEPT !.phase = p]
           jobs == [work.local.jobs EXCEPT ![jobNow] = new]
           l == [work.local EXCEPT !.jobs = jobs]
           u == work.updated \/ p # work.local.jobs[jobNow].phase
<1>2. /\ work.local \in WorkflowStatus /\ work.local.jobs \in [Jobs -> JobStatuses]
      /\ work.local.jobs[jobNow] \in JobStatuses
  BY <1>1 DEF Work, WorkflowStatus
<1>3. work' = [work EXCEPT !.job = work.job + 1, !.step = 0, !.local = l, !.updated = u]
  BY <1>1, <1>2 DEF nextJob, Work, WorkflowStatus
<1>4. u \in BOOLEAN
  OBVIOUS
<1>5. new \in JobStatuses /\ new.phase = p
  BY <1>2 DEF JobStatuses
<1> HIDE DEF u, new
<1>6. /\ jobs \in [Jobs -> JobStatuses]
      /\ \A j \in Jobs : jobs[j].phase =
           IF j = jobNow THEN p ELSE work.local.jobs[j].phase
  BY <1>1, <1>2, <1>5
<1> HIDE DEF jobs
<1>7. /\ l \in WorkflowStatus /\ l.jobs = jobs
      /\ l.steps = work.local.steps /\ l.phase = work.local.phase
  BY <1>2, <1>6 DEF WorkflowStatus
<1> HIDE DEF l
<1> QED BY Zenon, <1>1, <1>3, <1>4, <1>6, <1>7 DEF Work

\* What EnterJob does with a job that is to run.
runJob(u) ==
  work' = [work EXCEPT !.step = 1, !.local.jobs[jobNow].phase = "Running",
                       !.updated = u]

\* A step of the walk over the jobs that starts on the steps of a job.
LEMMA RunJobEffect ==
  ASSUME TypeOK, atJob, NEW u \in BOOLEAN, runJob(u)
  PROVE  /\ work' \in Work /\ work'.then = "jobs" /\ work'.job = work.job /\ work'.step = 1
         /\ work'.base = work.base /\ work'.list = work.list
         /\ work'.local.steps = work.local.steps /\ work'.local.phase = work.local.phase
         /\ \A j \in Jobs : work'.local.jobs[j].phase =
              IF j = jobNow THEN "Running" ELSE work.local.jobs[j].phase
<1>1. work \in Work /\ work.then = "jobs" /\ jobNow \in Jobs
  BY AtJobType
<1> DEFINE new == [work.local.jobs[jobNow] EXCEPT !.phase = "Running"]
           jobs == [work.local.jobs EXCEPT ![jobNow] = new]
           l == [work.local EXCEPT !.jobs = jobs]
<1>2. /\ work.local \in WorkflowStatus /\ work.local.jobs \in [Jobs -> JobStatuses]
      /\ work.local.jobs[jobNow] \in JobStatuses
  BY <1>1 DEF Work, WorkflowStatus
<1>3. work' = [work EXCEPT !.step = 1, !.local = l, !.updated = u]
  BY <1>1, <1>2 DEF Work, WorkflowStatus, runJob
<1>5. new \in JobStatuses /\ new.phase = "Running"
  BY <1>2 DEF JobStatuses
<1> HIDE DEF new
<1>6. /\ jobs \in [Jobs -> JobStatuses]
      /\ \A j \in Jobs : jobs[j].phase =
           IF j = jobNow THEN "Running" ELSE work.local.jobs[j].phase
  BY <1>1, <1>2, <1>5
<1> HIDE DEF jobs
<1>7. /\ l \in WorkflowStatus /\ l.jobs = jobs
      /\ l.steps = work.local.steps /\ l.phase = work.local.phase
  BY <1>2, <1>6 DEF WorkflowStatus
<1> HIDE DEF l
<1> QED BY Zenon, <1>1, <1>3, <1>6, <1>7 DEF Work

-----------------------------------------------------------------------------
(* What the steps of a pass do *)

\* The reconcile of the cached Workflow, up to its jobs or to its patch.
StartOfPass ==
  \/ ReconcileReadFails \/ ReconcileRejected \/ ReconcileTimeout
  \/ ReconcileDeferred \/ ReconcileJobs

\* The iterations of the walk over the steps of a job.
Iteration ==
  StepWithoutCall \/ CreateRunner \/ CreateRunnerFails \/ RetryStep

\* Everything that is not the controller.
Environment ==
  \/ SyncWorkflow \/ SyncRunners \/ TimerFires \/ Tick
  \/ (\E n \in Names : RunnerAdvances(n))
  \/ Crash

\* Next taken apart for the proofs.
LEMMA NextSplit ==
  Next <=> \/ StartOfPass \/ EnterJob \/ Iteration \/ LeaveJob
           \/ EndJobs \/ PatchStatus \/ PatchStatusFails \/ Environment
BY DEF Next, Controller, StartOfPass, Iteration, Environment

\* A pass starts from the cached Workflow: its step statuses, and its jobs, are
\* taken over or, by a timeout, failed.
takenOver(new) ==
  new.jobs = wfCache.jobs /\ new.steps = wfCache.steps /\ new.phase = wfCache.phase

startedFrom(new) ==
  /\ new \in WorkflowStatus
  /\ \/ takenOver(new)
     \/ shape.timeout # 0 /\ \A j \in jobNames : new.jobs[j].phase = "Failed"
  /\ \A s \in Steps : new.steps[s].phase = "Failed" \/ new.steps[s] = wfCache.steps[s]

\* What the start of a pass leaves in work.
LEMMA StartEffect ==
  ASSUME TypeOK, StartOfPass, work' # NoWork, work = NoWork
  PROVE  /\ work' \in Work /\ work'.step = 0
         /\ work'.then = "jobs" => work'.job # 0 /\ ~detectJobCycle /\ takenOver(work'.local)
         /\ work'.base = wfCache /\ work'.list = runnersCache
         /\ startedFrom(work'.local)
<1>0. wfCache \in WorkflowStatus /\ runnersCache \in RunnerObjects /\ clock \in Nat
  BY DEF TypeOK
<1>1. CASE ReconcileReadFails
  BY <1>1 DEF ReconcileReadFails, procVars
<1>2. ASSUME NEW new, startedFrom(new), NEW due \in Nat, callPatch(new, due)
      PROVE  /\ work' \in Work /\ work'.step = 0 /\ work'.then = "patch"
             /\ work'.base = wfCache /\ work'.list = runnersCache
             /\ startedFrom(work'.local)
  BY <1>0, <1>2 DEF callPatch, Work, startedFrom, takenOver
<1>3. CASE ReconcileRejected
  <2> DEFINE new == [wfCache EXCEPT !.reason = "CycleDetected"]
  <2>1. startedFrom(new)
    BY <1>0 DEF WorkflowStatus, startedFrom, takenOver
  <2>2. callPatch(new, 0)
    BY <1>3 DEF ReconcileRejected
  <2> QED BY <2>1, <2>2, <1>2
<1>4. CASE ReconcileTimeout
  <2>1. callPatch(handleTimeoutJobs(wfCache), 0)
    BY <1>4 DEF ReconcileTimeout
  <2>2. startedFrom(handleTimeoutJobs(wfCache))
    BY <1>0, <1>4, TimeoutStatus, ShapeType DEF startedFrom, ReconcileTimeout, timedOut
  <2> QED BY <2>1, <2>2, <1>2
<1>5. CASE ReconcileDeferred
  <2> DEFINE new == [wfCache EXCEPT !.reason = "QuotaExceeded"]
  <2>1. startedFrom(new)
    BY <1>0 DEF WorkflowStatus, startedFrom, takenOver
  <2>2. callPatch(new, clock + 1) /\ clock + 1 \in Nat
    BY <1>0, <1>5 DEF ReconcileDeferred
  <2> QED BY <2>1, <2>2, <1>2
<1>6. CASE ReconcileJobs
  <2> DEFINE local == IF wfCache.startTime = 0
                        THEN [wfCache EXCEPT !.startTime = clock] ELSE wfCache
  <2>1. startedFrom(local)
    BY <1>0 DEF WorkflowStatus, startedFrom, takenOver
  <2>2. PICK u \in BOOLEAN :
          work' = [local |-> local, base |-> wfCache, list |-> runnersCache,
                   job |-> 1, step |-> 0, updated |-> u, then |-> "jobs",
                   requeueAfter |-> 0]
    BY <1>6, Zenon DEF ReconcileJobs
  <2>3. ~detectJobCycle /\ takenOver(local)
    BY <1>0, <1>6 DEF ReconcileJobs, WorkflowStatus, takenOver
  <2> HIDE DEF local
  <2> QED BY <1>0, <2>1, <2>2, <2>3 DEF Work, startedFrom, takenOver
<1> QED BY <1>1, <1>3, <1>4, <1>5, <1>6 DEF StartOfPass

\* The start of a pass changes nothing but the queue, work and the faults.
LEMMA StartFrame ==
  ASSUME TypeOK, StartOfPass
  PROVE  /\ work = NoWork
         /\ UNCHANGED <<shape, wf, runners, wfCache, runnersCache, timer, clock,
                        succeeded, skipped, created>>
         /\ queued' \in BOOLEAN /\ faults' \in Nat
<1>1. queued \in BOOLEAN /\ faults \in Nat /\ (fault => faults' \in Nat)
  BY DEF TypeOK, fault
<1>2. CASE ReconcileReadFails
  BY <1>1, <1>2 DEF ReconcileReadFails, apiVars, cacheVars, procVars
<1>3. CASE ~ReconcileReadFails
  <2>1. startReconcile /\ faults' = faults
    BY <1>3 DEF StartOfPass, ReconcileRejected, ReconcileTimeout,
                ReconcileDeferred, ReconcileJobs
  <2> QED BY Zenon, <2>1, <1>1 DEF startReconcile, apiVars, cacheVars
<1> QED BY <1>2, <1>3

\* An iteration records a status in which the step is Succeeded only if its
\* listed Runner is, or it records nothing.
LEMMA IterationEffect ==
  ASSUME TypeOK, Iteration
  PROVE  /\ inStepLoop
         /\ \/ stepped(work.local.steps)
            \/ \E s \in StepStatuses :
                 /\ stepped([work.local.steps EXCEPT ![stepNow] = s])
                 /\ s.phase = "Succeeded" => runnerNow.phase = "Succeeded"
<1>0. inStepLoop
  BY DEF Iteration, StepWithoutCall, CreateRunner, CreateRunnerFails, RetryStep, wantsRunner
<1>1. statusNow \in StepStatuses /\ runnerNow \in RunnerObject /\ 0 \in Nat
  BY <1>0, WalkType
<1>2. continueLoop => stepped(work.local.steps)
  BY <1>0, ContinueEffect
<1>3. \A s \in StepStatuses :
        recordStep(s) => stepped([work.local.steps EXCEPT ![stepNow] = s])
  BY <1>0, RecordEffect
<1> DEFINE goal == \/ stepped(work.local.steps)
                   \/ \E s \in StepStatuses :
                        /\ stepped([work.local.steps EXCEPT ![stepNow] = s])
                        /\ s.phase = "Succeeded" => runnerNow.phase = "Succeeded"
<1>4. ASSUME NEW s \in StepStatuses, recordStep(s),
             s.phase = "Succeeded" => runnerNow.phase = "Succeeded"
      PROVE  goal
  BY <1>3, <1>4
<1>5. continueLoop => goal
  BY <1>2
<1> SUFFICES goal
  BY <1>0
<1> HIDE DEF goal
<1>6. CASE StepWithoutCall
  <2>1. CASE stepClosed /\ continueLoop
    BY <2>1, <1>5
  <2>2. CASE /\ ~stepClosed /\ decisionNow \in {"skip", "wait"}
             /\ IF statusNow.phase = "none"
                  THEN recordStep([NoStepStatus EXCEPT
                         !.phase = IF decisionNow = "skip" THEN "Skipped" ELSE "Waiting"])
                  ELSE continueLoop
    <3> DEFINE s == [NoStepStatus EXCEPT
                  !.phase = IF decisionNow = "skip" THEN "Skipped" ELSE "Waiting"]
    <3>1. s \in StepStatuses /\ s.phase # "Succeeded"
      BY DEF NoStepStatus, StepStatuses
    <3>2. recordStep(s) \/ continueLoop
      BY <2>2
    <3> HIDE DEF s
    <3> QED BY <3>1, <3>2, <1>4, <1>5
  <2>3. CASE /\ ~stepClosed /\ decisionNow = "run" /\ runnerNow.there /\ ~retryNow
             /\ LET phase == runnerPhaseToStepPhase(runnerNow.phase)
                IN  IF statusNow.phase # phase
                      THEN recordStep(upsertStepStatus(statusNow, phase, 0))
                      ELSE continueLoop
    <3> DEFINE phase == runnerPhaseToStepPhase(runnerNow.phase)
               s == upsertStepStatus(statusNow, phase, 0)
    <3>1. phase \in StepPhases /\ (phase = "Succeeded" => runnerNow.phase = "Succeeded")
      BY <1>1 DEF runnerPhaseToStepPhase, RunnerObject
    <3>2. recordStep(s) \/ continueLoop
      BY <2>3
    <3> HIDE DEF phase
    <3>3. s \in StepStatuses /\ s.phase = phase
      BY ZenonT(40), <1>1, <3>1, UpsertType
    <3> HIDE DEF s
    <3> QED BY <3>1, <3>2, <3>3, <1>4, <1>5
  <2> QED BY <1>6, <2>1, <2>2, <2>3 DEF StepWithoutCall
<1>7. CASE CreateRunner \/ CreateRunnerFails \/ RetryStep
  <2> DEFINE p == upsertStepStatus(statusNow, "Pending", 0)
  <2>1. p \in StepStatuses /\ p.phase = "Pending"
    BY <1>1, UpsertType
  <2>2. continueLoop \/ recordStep(p) \/ recordStep([p EXCEPT !.retryCount = @ + 1])
    BY <1>7 DEF CreateRunner, CreateRunnerFails, RetryStep
  <2> HIDE DEF p
  <2>3. /\ [p EXCEPT !.retryCount = @ + 1] \in StepStatuses
        /\ [p EXCEPT !.retryCount = @ + 1].phase = "Pending"
    BY <2>1 DEF StepStatuses
  <2> QED BY Zenon, <2>1, <2>2, <2>3, <1>4, <1>5
<1> QED BY <1>6, <1>7 DEF Iteration

\* What an iteration does to the Runners: it creates or deletes that of its step.
LEMMA IterationFrame ==
  ASSUME TypeOK, Iteration
  PROVE  /\ UNCHANGED <<shape, wf, wfCache, runnersCache, queued, timer, clock,
                        succeeded, skipped>>
         /\ created' \in [Names -> Nat] /\ faults' \in Nat
         /\ runners' \in RunnerObjects
         /\ \A n \in Names :
              \/ runners'[n] = runners[n]
              \/ ~runners'[n].there /\ runners'[n].phase # "Succeeded"
              \/ /\ runners'[n].labels = <<jobNow, stepNow>>
                 /\ runners'[n].phase # "Succeeded"
<1> USE DEF apiVars, cacheVars, ghostVars
<1>1. inStepLoop /\ jobNow \in Jobs /\ stepNow \in Steps
  BY IterationEffect, WalkType
<1> DEFINE name == shape.runnerName[stepNow]
<1>2. name \in Names
  BY <1>1, ShapeType
<1>3. created[name] + 1 \in Nat /\ runners \in RunnerObjects /\ created \in [Names -> Nat]
  BY <1>2 DEF TypeOK
<1>4. faults' \in Nat
  BY DEF Iteration, StepWithoutCall, CreateRunner, CreateRunnerFails, RetryStep, fault, TypeOK
<1>5. UNCHANGED <<shape, wf, wfCache, runnersCache, queued, timer, clock, succeeded, skipped>>
  BY DEF Iteration, StepWithoutCall, CreateRunner, CreateRunnerFails, RetryStep
<1>6. \/ runners' = runners
      \/ runners' = [runners EXCEPT ![name] = buildJobStepRunner(created[name] + 1)]
      \/ runners' = [runners EXCEPT ![name] = NoRunner]
  BY DEF Iteration, StepWithoutCall, CreateRunner, CreateRunnerFails, RetryStep
<1>7. created' = created \/ created' = [created EXCEPT ![name] = created[name] + 1]
  BY DEF Iteration, StepWithoutCall, CreateRunner, CreateRunnerFails, RetryStep
<1> HIDE DEF name
<1>8. created' \in [Names -> Nat]
  BY <1>2, <1>3, <1>7
<1>9. /\ NoRunner \in RunnerObject /\ ~NoRunner.there /\ NoRunner.phase = "none"
      /\ \A u \in Nat : /\ buildJobStepRunner(u) \in RunnerObject
                        /\ buildJobStepRunner(u).labels = <<jobNow, stepNow>>
                        /\ buildJobStepRunner(u).phase = "none"
  BY Zenon, <1>1 DEF NoRunner, RunnerObject, buildJobStepRunner
<1>10. runners' \in RunnerObjects
  BY <1>2, <1>3, <1>6, <1>9 DEF RunnerObjects
<1>11. \A n \in Names :
         \/ runners'[n] = runners[n]
         \/ ~runners'[n].there /\ runners'[n].phase # "Succeeded"
         \/ /\ runners'[n].labels = <<jobNow, stepNow>>
            /\ runners'[n].phase # "Succeeded"
  BY <1>2, <1>3, <1>6, <1>9 DEF RunnerObjects
<1> QED BY <1>4, <1>5, <1>8, <1>10, <1>11

\* A step of the walk over the jobs gives its job a phase: one that is not
\* Succeeded, or one that its status at the start of the pass or its own steps
\* give; only a job that is let run has its steps walked over.
LEMMA JobEffect ==
  ASSUME TypeOK, EnterJob \/ LeaveJob
  PROVE  /\ atJob /\ UNCHANGED <<shape, wf, runners, wfCache, runnersCache, queued,
                                timer, clock, succeeded, skipped, created, faults>>
         /\ work' \in Work /\ work'.then = "jobs" /\ work'.job # 0
         /\ work'.base = work.base /\ work'.list = work.list
         /\ work'.local.steps = work.local.steps
         /\ \A j \in Jobs : j # jobNow =>
              work'.local.jobs[j].phase = work.local.jobs[j].phase
         /\ work'.local.jobs[jobNow].phase = "Succeeded" =>
              \/ work.base.jobs[jobNow].phase = "Succeeded"
              \/ jobPhase(jobNow, work.local.steps) = "Succeeded"
         /\ work'.step # 0 =>
              /\ work'.job = work.job
              /\ work'.local.jobs[jobNow].phase = "Running"
              /\ evaluateJobWhen(jobNow, work.base.jobs) = "run"
<1>1. atJob /\ UNCHANGED <<shape, wf, runners, wfCache, runnersCache, queued, timer,
                          clock, succeeded, skipped, created, faults>>
  BY DEF EnterJob, LeaveJob, apiVars, cacheVars, ghostVars
<1>2. jobNow \in Jobs /\ work \in Work /\ work.job # 0 /\ work.then = "jobs"
  BY <1>1, AtJobType DEF TypeOK
<1> DEFINE phase == work.base.jobs[jobNow].phase
           decision == evaluateJobWhen(jobNow, work.base.jobs)
<1>3. phase \in StepPhases
  BY <1>2 DEF Work, WorkflowStatus, JobStatuses
<1>4. \/ \E p \in StepPhases :
            /\ nextJob(p)
            /\ p = "Succeeded" => \/ phase = "Succeeded"
                                 \/ jobPhase(jobNow, work.local.steps) = "Succeeded"
      \/ \E u \in BOOLEAN : runJob(u) /\ decision = "run"
  <2>1. CASE EnterJob
    <3>1. \/ phase \in DoneStepPhases /\ nextJob(phase)
          \/ nextJob(IF phase = "none" THEN "Skipped" ELSE phase)
          \/ nextJob("Waiting")
          \/ /\ decision = "run"
             /\ work' = [work EXCEPT !.step = 1, !.local.jobs[jobNow].phase = "Running",
                                     !.updated = @ \/ phase # "Running"]
      BY <2>1 DEF EnterJob, jobStatusMap
    <3>2. CASE /\ decision = "run"
               /\ work' = [work EXCEPT !.step = 1, !.local.jobs[jobNow].phase = "Running",
                                       !.updated = @ \/ phase # "Running"]
      <4>1. runJob(work.updated \/ phase # "Running")
        BY <3>2 DEF runJob
      <4>2. (work.updated \/ phase # "Running") \in BOOLEAN
        OBVIOUS
      <4> QED BY <3>2, <4>1, <4>2, Zenon
    <3> HIDE DEF phase, decision
    <3>3. CASE phase \in DoneStepPhases /\ nextJob(phase)
      BY <1>3, <3>3
    <3>4. CASE nextJob(IF phase = "none" THEN "Skipped" ELSE phase)
      <4>1. CASE phase = "none"
        BY <3>4, <4>1
      <4>2. CASE phase # "none"
        BY <1>3, <3>4, <4>2
      <4> QED BY <4>1, <4>2
    <3>5. CASE nextJob("Waiting")
      BY <3>5
    <3> QED BY <3>1, <3>2, <3>3, <3>4, <3>5
  <2>2. CASE LeaveJob
    <3>1. nextJob(jobPhase(jobNow, work.local.steps))
      BY <2>2 DEF LeaveJob
    <3>2. jobPhase(jobNow, work.local.steps) \in StepPhases
      BY JobPhaseType
    <3> QED BY <3>1, <3>2
  <2> QED BY <2>1, <2>2
<1> HIDE DEF phase, decision
<1>5. ASSUME NEW p \in StepPhases, nextJob(p),
             p = "Succeeded" => \/ phase = "Succeeded"
                                \/ jobPhase(jobNow, work.local.steps) = "Succeeded"
      PROVE  /\ work' \in Work /\ work'.then = "jobs" /\ work'.job # 0
             /\ work'.base = work.base /\ work'.list = work.list
             /\ work'.local.steps = work.local.steps
             /\ \A j \in Jobs : j # jobNow =>
                  work'.local.jobs[j].phase = work.local.jobs[j].phase
             /\ work'.local.jobs[jobNow].phase = "Succeeded" =>
                  \/ phase = "Succeeded"
                  \/ jobPhase(jobNow, work.local.steps) = "Succeeded"
             /\ work'.step = 0
  BY <1>1, <1>2, <1>5, NextJobEffect
<1>6. ASSUME NEW u \in BOOLEAN, runJob(u), decision = "run"
      PROVE  /\ work' \in Work /\ work'.then = "jobs" /\ work'.job # 0
             /\ work'.base = work.base /\ work'.list = work.list
             /\ work'.local.steps = work.local.steps
             /\ \A j \in Jobs : j # jobNow =>
                  work'.local.jobs[j].phase = work.local.jobs[j].phase
             /\ work'.local.jobs[jobNow].phase = "Running" /\ work'.job = work.job
  BY <1>1, <1>2, <1>6, RunJobEffect
<1> QED BY <1>1, <1>4, <1>5, <1>6 DEF phase, decision

\* The end of the walk computes the phase of the workflow and leaves its lists.
LEMMA EndEffect ==
  ASSUME TypeOK, EndJobs
  PROVE  /\ UNCHANGED <<shape, wf, runners, wfCache, runnersCache, queued, clock,
                        succeeded, skipped, created, faults>>
         /\ timer' \in Nat
         /\ \/ work' = NoWork
            \/ /\ work # NoWork /\ work' \in Work /\ work'.then = "patch"
               /\ work'.base = work.base /\ work'.list = work.list
               /\ work'.local.steps = work.local.steps
               /\ work'.local.jobs = work.local.jobs
               /\ work'.local.phase = computeJobWorkflowPhase(work.local)
<1>1. UNCHANGED <<shape, wf, runners, wfCache, runnersCache, queued, clock,
                  succeeded, skipped, created, faults>>
  BY DEF EndJobs, apiVars, cacheVars, ghostVars
<1>2. work # NoWork /\ work \in Work /\ work.local \in WorkflowStatus
  BY DEF EndJobs, TypeOK, Work
<1>3. \/ work' = [work EXCEPT !.local = withPhase(work.local), !.then = "patch"]
           /\ timer' = timer
      \/ work' = NoWork /\ requeue(timeoutDue(work.local))
  BY DEF EndJobs
<1>4. timeoutDue(work.local) \in Nat
  BY <1>2, ShapeType DEF timeoutDue, WorkflowStatus
<1>5. timer' \in Nat
  BY <1>3, <1>4 DEF requeue, TypeOK
<1>6. withPhase(work.local) \in WorkflowStatus
        /\ withPhase(work.local).steps = work.local.steps
        /\ withPhase(work.local).jobs = work.local.jobs
        /\ withPhase(work.local).phase = computeJobWorkflowPhase(work.local)
  BY <1>2, WithPhaseType
<1>7. \A l \in WorkflowStatus : LET w == [work EXCEPT !.local = l, !.then = "patch"]
                                IN  /\ w \in Work /\ w.then = "patch" /\ w.local = l
                                    /\ w.base = work.base /\ w.list = work.list
  BY <1>2 DEF Work
<1> QED BY Zenon, <1>1, <1>2, <1>3, <1>5, <1>6, <1>7

\* What a patch writes.
LEMMA PatchEffect ==
  ASSUME TypeOK, PatchStatus
  PROVE  /\ UNCHANGED <<shape, runners, wfCache, runnersCache, queued, clock,
                        succeeded, created, faults>>
         /\ work # NoWork /\ work \in Work /\ work' = NoWork /\ timer' \in Nat
         /\ wf' \in WorkflowStatus
         /\ wf'.jobs \in {wf.jobs, work.local.jobs}
         /\ wf'.phase \in {wf.phase, work.local.phase}
         /\ work.base = wf => wf'.jobs = work.local.jobs /\ wf'.phase = work.local.phase
         /\ wf'.steps = IF work.local.steps # work.base.steps
                          THEN work.local.steps ELSE wf.steps
         /\ skipped' = skipped \cup {s \in Steps : wf'.steps[s].phase = "Skipped"}
<1>1. /\ work # NoWork /\ work \in Work /\ work.requeueAfter \in Nat
      /\ work.base \in WorkflowStatus /\ work.local \in WorkflowStatus
      /\ wf \in WorkflowStatus /\ clock \in Nat /\ timer \in Nat
  BY DEF PatchStatus, TypeOK, Work
<1>2. /\ wf' = mergePatch(wf, work.base, work.local)
      /\ requeue(IF work.job = 0 THEN work.requeueAfter ELSE timeoutDue(wf'))
      /\ work' = NoWork
      /\ skipped' = skipped \cup {s \in Steps : wf'.steps[s].phase = "Skipped"}
      /\ UNCHANGED <<shape, runners, wfCache, runnersCache, queued, clock,
                     succeeded, created, faults>>
  BY DEF PatchStatus, cacheVars
<1>3. /\ wf' \in WorkflowStatus
      /\ wf'.jobs \in {wf.jobs, work.local.jobs}
      /\ wf'.phase \in {wf.phase, work.local.phase}
      /\ work.base = wf => wf'.jobs = work.local.jobs /\ wf'.phase = work.local.phase
      /\ wf'.steps = IF work.local.steps # work.base.steps
                       THEN work.local.steps ELSE wf.steps
  BY <1>1, <1>2, MergeType
<1>4. timeoutDue(wf') \in Nat
  BY <1>1, <1>3, ShapeType DEF timeoutDue, WorkflowStatus
<1>5. timer' \in Nat
  BY <1>1, <1>2, <1>4 DEF requeue
<1> QED BY <1>1, <1>2, <1>3, <1>5

-----------------------------------------------------------------------------
(* Type correctness *)

\* The initial states are well typed.
LEMMA InitType == Init => TypeOK
<1> SUFFICES ASSUME Init PROVE TypeOK OBVIOUS
<1>1. /\ [s \in Steps |-> NoStepStatus] \in [Steps -> StepStatuses]
      /\ [j \in Jobs |-> NoJobStatus] \in [Jobs -> JobStatuses]
  BY DEF NoStepStatus, StepStatuses, NoJobStatus, JobStatuses
<1>2. wf \in WorkflowStatus
  BY <1>1 DEF Init, WorkflowStatus
<1>3. runners \in RunnerObjects /\ \A n \in Names : ~runners[n].there
  BY DEF Init, RunnerObjects, RunnerObject, NoRunner
<1> QED BY <1>2, <1>3 DEF Init, TypeOK

\* The caches, time, Runners and a restart keep the types.
LEMMA EnvironmentType == TypeOK /\ Environment => TypeOK'
<1> SUFFICES ASSUME TypeOK, Environment PROVE TypeOK' OBVIOUS
<1> USE DEF apiVars, cacheVars, procVars, ghostVars
<1>1. CASE SyncWorkflow
  BY <1>1 DEF SyncWorkflow, TypeOK
<1>2. CASE SyncRunners
  BY <1>2 DEF SyncRunners, TypeOK
<1>3. CASE TimerFires
  BY <1>3 DEF TimerFires, TypeOK
<1>4. CASE Tick
  BY <1>4 DEF Tick, TypeOK
<1>5. ASSUME NEW n \in Names, RunnerAdvances(n) PROVE TypeOK'
  <2>1. PICK p \in {"Running", "Succeeded", "Failed"} :
          /\ runners' = [runners EXCEPT ![n].phase = p]
          /\ succeeded' = IF p = "Succeeded" THEN succeeded \cup {runners[n].labels}
                          ELSE succeeded
    BY Zenon, <1>5 DEF RunnerAdvances
  <2>2. runners' \in RunnerObjects
    <3> DEFINE new == [runners[n] EXCEPT !.phase = p]
    <3>1. runners[n] \in RunnerObject
      BY DEF TypeOK, RunnerObjects
    <3>2. new \in RunnerObject
      BY <3>1 DEF RunnerObject
    <3>3. runners' = [runners EXCEPT ![n] = new]
      BY <2>1 DEF TypeOK, RunnerObjects
    <3> HIDE DEF new
    <3> QED BY <3>2, <3>3 DEF TypeOK, RunnerObjects
  <2>3. \A m \in Names : /\ runners'[m].there = runners[m].there
                         /\ runners'[m].labels = runners[m].labels
    BY <2>1 DEF TypeOK, RunnerObjects, RunnerObject
  <2>4. succeeded' \subseteq Jobs \X Steps
    BY <1>5, <2>1 DEF RunnerAdvances, TypeOK
  <2> QED BY <1>5, <2>2, <2>3, <2>4 DEF RunnerAdvances, TypeOK
<1>6. CASE Crash
  BY <1>6 DEF Crash, fault, TypeOK
<1> QED BY <1>1, <1>2, <1>3, <1>4, <1>5, <1>6 DEF Environment

\* Every reachable state of a workflow with jobs is well typed: no phase outside
\* the API's enumerations is ever computed for a job, a step or the workflow,
\* and the walk leaves neither the list of jobs nor that of a job's steps.
THEOREM TypeCorrect == Spec => []TypeOK
<1>1. TypeOK /\ [Next]_vars => TypeOK'
  <2> SUFFICES ASSUME TypeOK, [Next]_vars PROVE TypeOK' OBVIOUS
  <2>1. CASE StartOfPass
    <3>1. work' # NoWork => work' \in Work /\ (work'.then = "jobs" => work'.job # 0)
      BY <2>1, StartEffect, StartFrame
    <3> QED BY <2>1, <3>1, StartFrame DEF TypeOK
  <2>2. CASE EnterJob \/ LeaveJob
    <3>1. work' \in Work /\ work'.job # 0
      BY <2>2, JobEffect
    <3>2. UNCHANGED <<shape, wf, runners, wfCache, runnersCache, queued, timer, clock,
                      succeeded, skipped, created, faults>>
      BY <2>2, JobEffect
    <3> QED BY <3>1, <3>2 DEF TypeOK
  <2>3. CASE Iteration
    <3>1. work' \in Work /\ work'.job = work.job /\ inStepLoop
      BY Zenon, <2>3, IterationEffect DEF stepped
    <3>2. work.job # 0 /\ jobNow \in Jobs /\ stepNow \in Steps
      BY <3>1, WalkType DEF TypeOK
    <3>3. \A n \in Names : runners'[n].there => runners'[n].labels \in Jobs \X Steps
      <4> SUFFICES ASSUME NEW n \in Names, runners'[n].there
                   PROVE  runners'[n].labels \in Jobs \X Steps
        OBVIOUS
      <4>1. <<jobNow, stepNow>> \in Jobs \X Steps
        BY <3>2
      <4>2. runners'[n] = runners[n] \/ runners'[n].labels = <<jobNow, stepNow>>
        BY <2>3, IterationFrame
      <4> QED BY <4>1, <4>2 DEF TypeOK
    <3> QED BY <2>3, <3>1, <3>2, <3>3, IterationFrame DEF TypeOK
  <2>4. CASE EndJobs
    BY <2>4, EndEffect DEF TypeOK
  <2>5. CASE PatchStatus
    BY <2>5, PatchEffect DEF TypeOK
  <2>6. CASE PatchStatusFails
    BY <2>6 DEF PatchStatusFails, fault, TypeOK, apiVars, cacheVars
  <2>7. CASE Environment
    BY <2>7, EnvironmentType
  <2>8. CASE UNCHANGED vars
    BY <2>8 DEF vars, apiVars, cacheVars, procVars, ghostVars, TypeOK
  <2> QED BY <2>1, <2>2, <2>3, <2>4, <2>5, <2>6, <2>7, <2>8, NextSplit
<1> QED BY <1>1, InitType, PTL DEF Spec
=============================================================================
