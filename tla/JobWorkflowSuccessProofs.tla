---------------------- MODULE JobWorkflowSuccessProofs ----------------------
(***************************************************************************)
(* Proofs about JobWorkflow for every value of its constants: a job that   *)
(* shows success did its work, a job runs after the jobs it needs, and     *)
(* nothing starts after the end.                                           *)
(***************************************************************************)
EXTENDS JobWorkflowProofs

USE DEF StepPhases, DoneStepPhases, ActiveStepPhases, WorkflowPhases, RunnerPhases

-----------------------------------------------------------------------------
(* Success is real *)

\* What depends on the spec alone does not change.
LEMMA ShapeFixed ==
  ASSUME shape' = shape
  PROVE  /\ jobNames' = jobNames /\ detectJobCycle' = detectJobCycle
         /\ \A j : stepsOf(j)' = stepsOf(j)
         /\ \A j : placed(j)' = placed(j)
         /\ \A j, s : shared(j, s)' = shared(j, s)
<1>1. jobNames' = jobNames /\ \A j : stepsOf(j)' = stepsOf(j)
  BY DEF jobNames, stepsOf
<1>2. detectJobCycle' = detectJobCycle
  BY <1>1, Zenon DEF detectJobCycle
<1>3. \A j : placed(j)' = placed(j)
  BY <1>1, Zenon DEF placed, dropped
<1>4. \A j, s : shared(j, s)' = shared(j, s)
  BY <1>1, Zenon DEF shared
<1> QED BY <1>1, <1>2, <1>3, <1>4

\* Histories only grow.
grows == shape' = shape /\ succeeded \subseteq succeeded' /\ skipped \subseteq skipped'

\* The steps of a job that sorting keeps are steps of it, and a name that two
\* jobs use is shared.
LEMMA PlacedType ==
  ASSUME TypeOK
  PROVE  /\ \A j \in jobNames : placed(j) \subseteq Steps
         /\ \A i, j \in jobNames : \A s \in placed(i) : i # j => shared(j, s)
<1>1. \A j \in jobNames : stepsOf(j) \subseteq Steps
  BY ShapeType DEF stepsOf, elements
<1>2. \A j : placed(j) \subseteq stepsOf(j)
  BY DEF placed
<1> QED BY <1>1, <1>2 DEF shared

\* What no step of the pass or of the environment falsifies: copies of honest
\* statuses and lists of Runners stay honest while the histories grow.
LEMMA HonestyKept ==
  ASSUME TypeOK, JobInv, grows
  PROVE  /\ wf' = wf => honestStatus(wf)'
         /\ wfCache' \in {wf, wfCache} => honestStatus(wfCache)'
         /\ runnersCache' \in {runners, runnersCache} => honestRunners(runnersCache)'
         /\ work # NoWork /\ work'.base = work.base => honestStatus(work.base)'
         /\ work # NoWork /\ work'.list = work.list => honestRunners(work.list)'
         /\ runners' = runners => honestRunners(runners)' /\ NeedsRanFirst'
<1>1. jobNames' = jobNames /\ \A j : ran(j) => ran(j)'
  BY ShapeFixed DEF grows, ran
<1>2. \A st : honestStatus(st) =>
        /\ \A j \in jobNames : st.jobs[j].phase = "Succeeded" => ran(j)'
        /\ \A j \in jobNames : \A s \in placed(j) : st.steps[s].phase = "Succeeded" =>
             <<j, s>> \in succeeded' \/ shared(j, s)
        /\ \A s \in Steps : st.steps[s].phase = "Skipped" => s \in skipped'
  BY Zenon, <1>1 DEF honestStatus, honestSteps, grows
<1>3. wf' = wf => honestStatus(wf)'
  BY <1>1, <1>2, ShapeFixed DEF grows, JobInv, honestStatus, honestSteps
<1>4. wfCache' \in {wf, wfCache} => honestStatus(wfCache)'
  BY <1>1, <1>2, ShapeFixed DEF grows, JobInv, honestStatus, honestSteps
<1>5. work # NoWork /\ work'.base = work.base => honestStatus(work.base)'
  BY <1>1, <1>2, ShapeFixed DEF grows, JobInv, honestStatus, honestSteps
<1>6. /\ runnersCache' \in {runners, runnersCache} => honestRunners(runnersCache)'
      /\ work # NoWork /\ work'.list = work.list => honestRunners(work.list)'
      /\ runners' = runners => honestRunners(runners)'
  BY Zenon DEF grows, JobInv, honestRunners
<1>7. runners' = runners => NeedsRanFirst'
  BY Zenon, <1>1 DEF grows, JobInv, NeedsRanFirst
<1> QED BY <1>3, <1>4, <1>5, <1>6, <1>7

\* The start of a pass keeps JobInv.
LEMMA InvStart == TypeOK /\ JobInv /\ StartOfPass => JobInv'
<1> SUFFICES ASSUME TypeOK, JobInv, StartOfPass PROVE JobInv' OBVIOUS
<1>1. /\ work = NoWork
      /\ UNCHANGED <<shape, wf, runners, wfCache, runnersCache, succeeded, skipped>>
  BY StartFrame
<1>2. grows
  BY <1>1 DEF grows
<1>3. /\ honestStatus(wf)' /\ honestStatus(wfCache)'
      /\ honestRunners(runners)' /\ honestRunners(runnersCache)' /\ NeedsRanFirst'
  BY <1>1, <1>2, HonestyKept
<1>4. ASSUME work' # NoWork
      PROVE  /\ honestStatus(work.base)' /\ honestRunners(work.list)'
             /\ honestSteps(work.local.steps)'
             /\ \A j \in jobNames : work'.local.jobs[j].phase = "Succeeded" =>
                  ranIn(j, work'.local.steps)
             /\ work'.then = "jobs" => ~detectJobCycle
             /\ work'.step = 0
  <2>1. /\ work'.step = 0 /\ (work'.then = "jobs" => ~detectJobCycle)
        /\ work'.base = wfCache /\ work'.list = runnersCache /\ startedFrom(work'.local)
    BY <1>1, <1>4, StartEffect
  <2>2. honestStatus(wfCache) /\ honestRunners(runnersCache)
    BY Zenon DEF JobInv
  <2>3. honestStatus(work.base)' /\ honestRunners(work.list)'
    BY <1>3, <2>1, <1>1 DEF honestStatus, honestRunners
  <2>4. \A j \in jobNames : \A s \in placed(j) :
          work'.local.steps[s].phase = "Succeeded" => <<j, s>> \in succeeded \/ shared(j, s)
    BY Zenon, <2>1, <2>2, PlacedType DEF startedFrom, honestStatus, honestSteps
  <2>5. honestSteps(work.local.steps)'
    BY <1>1, <2>4, ShapeFixed DEF honestSteps
  <2>6. \A j \in jobNames : work'.local.jobs[j].phase = "Succeeded" => ran(j)
    BY Zenon, <2>1, <2>2 DEF startedFrom, takenOver, honestStatus
  <2>7. \A j \in jobNames : work'.local.jobs[j].phase = "Succeeded" =>
          ranIn(j, work'.local.steps)
    BY <2>6 DEF ran, ranIn
  <2> QED BY Zenon, <2>1, <2>3, <2>5, <2>7
<1>5. \A j : ranIn(j, work'.local.steps) => ranIn(j, work.local.steps)'
  BY Zenon, <1>1, ShapeFixed DEF ranIn
<1> QED BY <1>1, <1>3, <1>4, <1>5, ShapeFixed DEF JobInv

\* Going on to a job, and leaving it, keeps JobInv.
LEMMA InvJob == TypeOK /\ JobInv /\ (EnterJob \/ LeaveJob) => JobInv'
<1> SUFFICES ASSUME TypeOK, JobInv, EnterJob \/ LeaveJob PROVE JobInv' BY Zenon
<1>1. /\ UNCHANGED <<shape, wf, runners, wfCache, runnersCache, succeeded, skipped>>
      /\ atJob /\ work'.base = work.base /\ work'.list = work.list
      /\ work'.local.steps = work.local.steps
      /\ \A j \in Jobs : j # jobNow =>
           work'.local.jobs[j].phase = work.local.jobs[j].phase
      /\ work'.local.jobs[jobNow].phase = "Succeeded" =>
           \/ work.base.jobs[jobNow].phase = "Succeeded"
           \/ jobPhase(jobNow, work.local.steps) = "Succeeded"
      /\ work'.step # 0 =>
           /\ work'.job = work.job
           /\ work'.local.jobs[jobNow].phase = "Running"
           /\ evaluateJobWhen(jobNow, work.base.jobs) = "run"
  BY Zenon, JobEffect
<1>2. /\ grows /\ work # NoWork /\ work.then = "jobs"
      /\ jobNow \in jobNames /\ jobNames \subseteq Jobs
  BY Zenon, <1>1, AtJobType, ShapeType DEF grows
<1>3. /\ honestStatus(wf)' /\ honestStatus(wfCache)' /\ honestStatus(work.base)'
      /\ honestRunners(runners)' /\ honestRunners(runnersCache)'
      /\ honestRunners(work.list)' /\ NeedsRanFirst'
  BY Zenon, <1>1, <1>2, HonestyKept
<1>4. /\ honestStatus(work.base) /\ honestSteps(work.local.steps) /\ ~detectJobCycle
      /\ \A j \in jobNames :
           work.local.jobs[j].phase = "Succeeded" => ranIn(j, work.local.steps)
  BY Zenon, <1>2 DEF JobInv
<1>5. honestSteps(work.local.steps)'
  BY Zenon, <1>1, <1>4, ShapeFixed DEF honestSteps
<1>6. \A j \in jobNames : work'.local.jobs[j].phase = "Succeeded" =>
        ranIn(j, work.local.steps)
  <2> SUFFICES ASSUME NEW j \in jobNames, work'.local.jobs[j].phase = "Succeeded"
               PROVE  ranIn(j, work.local.steps)
    BY Zenon
  <2>1. CASE j # jobNow
    BY Zenon, <1>1, <1>2, <1>4, <2>1
  <2>2. CASE j = jobNow /\ work.base.jobs[jobNow].phase = "Succeeded"
    BY Zenon, <1>4, <2>2 DEF honestStatus, ran, ranIn
  <2>3. CASE j = jobNow /\ jobPhase(jobNow, work.local.steps) = "Succeeded"
    <3>1. \A s \in placed(j) : work.local.steps[s].phase \in {"Succeeded", "Skipped"}
      BY Zenon, <2>3 DEF jobPhase
    <3> QED BY Zenon, <1>4, <3>1 DEF honestSteps, ranIn
  <2> QED BY Zenon, <1>1, <2>1, <2>2, <2>3
<1>7. \A j : ranIn(j, work.local.steps) => ranIn(j, work.local.steps)'
  BY Zenon, <1>1, ShapeFixed DEF ranIn
<1>8. work'.step # 0 =>
        /\ (work.local.jobs[jobNow].phase = "Running")'
        /\ (evaluateJobWhen(jobNow, work.base.jobs) = "run")'
  BY Zenon, <1>1 DEF jobNow, evaluateJobWhen
<1>9. detectJobCycle' = detectJobCycle /\ jobNames' = jobNames
  BY <1>1, ShapeFixed
<1> QED BY <1>3, <1>4, <1>5, <1>6, <1>7, <1>8, <1>9 DEF JobInv

\* A job that runs on success is let run only after the jobs it needs ran.
LEMMA NeedsRan ==
  ASSUME TypeOK, JobInv, inStepLoop, shape.when[jobNow] = "on_success"
  PROVE  \A i \in shape.needs[jobNow] : ran(i)
<1>1. work # NoWork /\ atJob /\ work.step # 0 /\ work.then = "jobs" /\ jobNow \in jobNames
  BY Zenon, WalkType
<1>2. /\ honestStatus(work.base) /\ ~detectJobCycle
      /\ evaluateJobWhen(jobNow, work.base.jobs) = "run"
  BY Zenon, <1>1 DEF JobInv
<1>3. shape.needs[jobNow] \subseteq jobNames
  BY <1>1, <1>2 DEF detectJobCycle
<1>4. \A i \in shape.needs[jobNow] : work.base.jobs[i].phase = "Succeeded"
  BY Zenon, <1>2 DEF evaluateJobWhen, evaluateStep
<1> QED BY Zenon, <1>2, <1>3, <1>4 DEF honestStatus

\* An iteration of the walk over a job's steps keeps JobInv.
LEMMA InvIteration == TypeOK /\ JobInv /\ Iteration => JobInv'
<1> SUFFICES ASSUME TypeOK, JobInv, Iteration PROVE JobInv' BY Zenon
<1>1. UNCHANGED <<shape, wf, wfCache, runnersCache, succeeded, skipped>>
  BY Zenon, IterationFrame
<1>2. /\ inStepLoop /\ atJob /\ grows /\ work # NoWork /\ work.then = "jobs" /\ work.step # 0
      /\ jobNow \in jobNames /\ stepNow \in Steps /\ stepNow \in placed(jobNow)
      /\ work.local.steps \in [Steps -> StepStatuses]
  BY Zenon, <1>1, IterationEffect, WalkType DEF grows, Work, WorkflowStatus
<1>3. /\ honestStatus(work.base) /\ honestSteps(work.local.steps) /\ ~detectJobCycle
      /\ honestRunners(work.list) /\ honestRunners(runners) /\ NeedsRanFirst
      /\ \A j \in jobNames :
           work.local.jobs[j].phase = "Succeeded" => ranIn(j, work.local.steps)
      /\ work.local.jobs[jobNow].phase = "Running"
      /\ evaluateJobWhen(jobNow, work.base.jobs) = "run"
  BY <1>2 DEF JobInv
<1>4. runnerNow.phase = "Succeeded" => <<jobNow, stepNow>> \in succeeded
  BY Zenon, <1>2, <1>3, WalkType, ShapeType DEF honestRunners
<1>5. /\ work'.then = "jobs" /\ work'.job = work.job /\ work'.step # 0
      /\ work'.base = work.base /\ work'.list = work.list
      /\ work'.local.jobs = work.local.jobs
      /\ \A s \in Steps :
           \/ work'.local.steps[s] = work.local.steps[s]
           \/ /\ s = stepNow
              /\ work'.local.steps[s].phase = "Succeeded" =>
                   <<jobNow, stepNow>> \in succeeded
  BY Zenon, <1>2, <1>4, IterationEffect DEF stepped
<1>6. /\ honestStatus(wf)' /\ honestStatus(wfCache)' /\ honestStatus(work.base)'
      /\ honestRunners(runnersCache)' /\ honestRunners(work.list)'
  BY Zenon, <1>1, <1>2, <1>5, HonestyKept
<1>7. \A j \in jobNames : \A s \in placed(j) :
        work'.local.steps[s].phase = "Succeeded" => <<j, s>> \in succeeded \/ shared(j, s)
  <2> TAKE j \in jobNames
  <2> TAKE s \in placed(j)
  <2>1. s \in Steps
    BY Zenon, PlacedType
  <2>2. s = stepNow /\ j # jobNow => shared(j, s)
    BY Zenon, <1>2, PlacedType
  <2> QED BY Zenon, <1>3, <1>5, <2>1, <2>2 DEF honestSteps
<1>8. honestSteps(work.local.steps)'
  BY Zenon, <1>1, <1>7, ShapeFixed DEF honestSteps
<1>9. \A j \in jobNames : work'.local.jobs[j].phase = "Succeeded" =>
        ranIn(j, work.local.steps)'
  <2> SUFFICES ASSUME NEW j \in jobNames, work'.local.jobs[j].phase = "Succeeded",
                      NEW s \in placed(j)
               PROVE  \/ <<j, s>> \in succeeded \/ s \in skipped \/ shared(j, s)
                      \/ work'.local.steps[s].phase = "Skipped"
    BY Zenon, <1>1, ShapeFixed DEF ranIn
  <2>1. s \in Steps /\ j # jobNow /\ ranIn(j, work.local.steps)
    BY Zenon, <1>3, <1>5, PlacedType
  <2>2. s = stepNow => shared(j, s)
    BY Zenon, <1>2, <2>1, PlacedType
  <2> QED BY Zenon, <1>5, <2>1, <2>2 DEF ranIn
<1>10. honestRunners(runners)'
  BY Zenon, <1>1, <1>3, IterationFrame DEF honestRunners
<1>11. NeedsRanFirst'
  <2> SUFFICES ASSUME NEW n \in Names, runners'[n].there,
                      shape.when[runners'[n].labels[1]] = "on_success",
                      NEW i \in shape.needs[runners'[n].labels[1]]
               PROVE  ran(i)
    <3>1. \A i : ran(i)' = ran(i)
      BY <1>1, ShapeFixed DEF ran
    <3> QED BY Zenon, <1>1, <3>1 DEF NeedsRanFirst
  <2>1. CASE runners'[n] = runners[n]
    BY Zenon, <1>3, <2>1 DEF NeedsRanFirst
  <2>2. CASE runners'[n].labels = <<jobNow, stepNow>>
    BY <1>2, <2>2, NeedsRan
  <2> QED BY Zenon, <2>1, <2>2, IterationFrame
<1>12. /\ (work.local.jobs[jobNow].phase = "Running")'
       /\ (evaluateJobWhen(jobNow, work.base.jobs) = "run")'
  BY Zenon, <1>1, <1>3, <1>5 DEF jobNow, evaluateJobWhen
<1>13. detectJobCycle' = detectJobCycle /\ jobNames' = jobNames
  BY Zenon, <1>1, ShapeFixed
<1> QED BY <1>3, <1>6, <1>8, <1>9, <1>10, <1>11, <1>12, <1>13 DEF JobInv

\* The end of the walk keeps JobInv.
LEMMA InvEnd == TypeOK /\ JobInv /\ EndJobs => JobInv'
<1> SUFFICES ASSUME TypeOK, JobInv, EndJobs PROVE JobInv' OBVIOUS
<1>1. /\ UNCHANGED <<shape, wf, runners, wfCache, runnersCache, succeeded, skipped>>
      /\ work # NoWork
      /\ \/ work' = NoWork
         \/ /\ work'.then = "patch" /\ work'.base = work.base /\ work'.list = work.list
            /\ work'.local.steps = work.local.steps
            /\ work'.local.jobs = work.local.jobs
  BY Zenon, EndEffect DEF EndJobs
<1>2. grows /\ jobNames' = jobNames
  BY <1>1, ShapeFixed DEF grows
<1>3. /\ honestStatus(wf)' /\ honestStatus(wfCache)'
      /\ honestRunners(runners)' /\ honestRunners(runnersCache)' /\ NeedsRanFirst'
  BY Zenon, <1>1, <1>2, HonestyKept
<1>4. ASSUME work' # NoWork
      PROVE  /\ honestStatus(work.base)' /\ honestRunners(work.list)'
             /\ honestSteps(work.local.steps)'
             /\ \A j \in jobNames : work'.local.jobs[j].phase = "Succeeded" =>
                  ranIn(j, work.local.steps)'
             /\ work'.then = "patch"
  <2>1. honestStatus(work.base)' /\ honestRunners(work.list)' /\ work'.then = "patch"
    BY Zenon, <1>1, <1>2, <1>4, HonestyKept
  <2>2. /\ honestSteps(work.local.steps)
        /\ \A j \in jobNames :
             work.local.jobs[j].phase = "Succeeded" => ranIn(j, work.local.steps)
    BY Zenon, <1>1 DEF JobInv
  <2>3. honestSteps(work.local.steps)'
    BY Zenon, <1>1, <1>4, <2>2, ShapeFixed DEF honestSteps
  <2>4. \A j : ranIn(j, work.local.steps) => ranIn(j, work.local.steps)'
    BY Zenon, <1>1, <1>4, ShapeFixed DEF ranIn
  <2> QED BY Zenon, <1>1, <1>4, <2>1, <2>2, <2>3, <2>4
<1> QED BY <1>2, <1>3, <1>4 DEF JobInv, atJob

\* A patch keeps JobInv: a job it shows as Succeeded ran, for the steps that the
\* pass skipped itself are in the list of steps it writes.
LEMMA InvPatch == TypeOK /\ JobInv /\ PatchStatus => JobInv'
<1> SUFFICES ASSUME TypeOK, JobInv, PatchStatus PROVE JobInv' BY Zenon
<1>1. /\ UNCHANGED <<shape, runners, wfCache, runnersCache, succeeded>>
      /\ work # NoWork /\ work \in Work /\ work' = NoWork
      /\ wf'.jobs \in {wf.jobs, work.local.jobs}
      /\ wf'.steps = IF work.local.steps # work.base.steps
                       THEN work.local.steps ELSE wf.steps
      /\ skipped' = skipped \cup {s \in Steps : wf'.steps[s].phase = "Skipped"}
  BY Zenon, PatchEffect
<1>2. grows /\ jobNames' = jobNames
  BY Zenon, <1>1, ShapeFixed DEF grows
<1>3. /\ honestStatus(wfCache)'
      /\ honestRunners(runners)' /\ honestRunners(runnersCache)' /\ NeedsRanFirst'
  BY Zenon, <1>1, <1>2, HonestyKept
<1>4. /\ honestStatus(wf) /\ honestStatus(work.base) /\ honestSteps(work.local.steps)
      /\ \A j \in jobNames :
           work.local.jobs[j].phase = "Succeeded" => ranIn(j, work.local.steps)
  BY Zenon, <1>1 DEF JobInv
<1>5. \A j : ran(j) => ran(j)'
  BY Zenon, <1>1, ShapeFixed DEF ran
<1>6. \A j \in jobNames : ranIn(j, work.local.steps) => ran(j)'
  <2> SUFFICES ASSUME NEW j \in jobNames, ranIn(j, work.local.steps), NEW s \in placed(j)
               PROVE  <<j, s>> \in succeeded \/ s \in skipped' \/ shared(j, s)
    BY Zenon, <1>1, ShapeFixed DEF ran
  <2>1. s \in Steps
    BY Zenon, PlacedType
  <2>2. CASE work.local.steps[s].phase = "Skipped"
    BY Zenon, <1>1, <1>4, <2>1, <2>2 DEF honestStatus
  <2>3. CASE work.local.steps[s].phase # "Skipped"
    BY Zenon, <1>1, <2>3 DEF ranIn
  <2> QED BY Zenon, <2>2, <2>3
<1>7. \A j \in jobNames : wf'.jobs[j].phase = "Succeeded" => ran(j)'
  BY Zenon, <1>1, <1>4, <1>5, <1>6 DEF honestStatus
<1>8. honestSteps(wf.steps)'
  BY <1>1, <1>4, ShapeFixed DEF honestStatus, honestSteps
<1>9. honestStatus(wf)'
  BY Zenon, <1>1, <1>2, <1>7, <1>8 DEF honestStatus
<1> QED BY Zenon, <1>1, <1>3, <1>9 DEF JobInv

\* A failed patch, the environment and a stuttering step keep JobInv; a Runner
\* that succeeds is counted.
LEMMA InvEnvironment ==
  TypeOK /\ JobInv /\ (Environment \/ PatchStatusFails \/ UNCHANGED vars) => JobInv'
<1> SUFFICES ASSUME TypeOK, JobInv, Environment \/ PatchStatusFails \/ UNCHANGED vars
             PROVE  JobInv'
  OBVIOUS
<1> USE DEF vars, apiVars, cacheVars, procVars, ghostVars
<1>1. /\ grows /\ wf' = wf /\ wfCache' \in {wf, wfCache}
      /\ runnersCache' \in {runners, runnersCache} /\ work' \in {work, NoWork}
      /\ shape' = shape /\ skipped' = skipped /\ succeeded \subseteq succeeded'
  BY Zenon DEF Environment, PatchStatusFails, SyncWorkflow, SyncRunners, TimerFires, Tick,
         RunnerAdvances, Crash, grows
<1>2. honestStatus(wf)' /\ honestStatus(wfCache)' /\ honestRunners(runnersCache)'
  BY Zenon, <1>1, HonestyKept
<1>3. honestRunners(runners)' /\ NeedsRanFirst'
  <2>1. CASE runners' = runners
    BY <1>1, <2>1, HonestyKept
  <2>2. ASSUME NEW n \in Names, RunnerAdvances(n)
        PROVE  honestRunners(runners)' /\ NeedsRanFirst'
    <3>1. /\ \A m \in Names : /\ runners'[m].there = runners[m].there
                             /\ runners'[m].labels = runners[m].labels
          /\ \A m \in Names : runners'[m].phase = "Succeeded" =>
               \/ runners[m].phase = "Succeeded"
               \/ runners[m].labels \in succeeded'
      BY <2>2 DEF RunnerAdvances, TypeOK, RunnerObjects, RunnerObject
    <3>2. \A j : ran(j) => ran(j)'
      BY Zenon, <1>1, ShapeFixed DEF ran
    <3>3. honestRunners(runners) /\ NeedsRanFirst
      BY Zenon DEF JobInv
    <3>4. honestRunners(runners)'
      BY Zenon, <1>1, <3>1, <3>3 DEF honestRunners
    <3>5. NeedsRanFirst'
      BY Zenon, <1>1, <3>1, <3>2, <3>3 DEF NeedsRanFirst
    <3> QED BY Zenon, <3>4, <3>5
  <2> QED BY Zenon, <2>1, <2>2
    DEF Environment, PatchStatusFails, SyncWorkflow, SyncRunners, TimerFires, Tick, Crash
<1>4. ASSUME work' # NoWork
      PROVE  /\ honestStatus(work.base)' /\ honestRunners(work.list)'
             /\ honestSteps(work.local.steps)'
             /\ \A j \in jobNames :
                  work.local.jobs[j].phase = "Succeeded" => ranIn(j, work.local.steps)'
  <2>1. work' = work /\ work # NoWork
    BY Zenon, <1>1, <1>4
  <2>2. /\ honestSteps(work.local.steps)
        /\ \A j \in jobNames :
             work.local.jobs[j].phase = "Succeeded" => ranIn(j, work.local.steps)
    BY Zenon, <2>1 DEF JobInv
  <2>3. honestSteps(work.local.steps)'
    BY Zenon, <1>1, <2>1, <2>2, ShapeFixed DEF honestSteps
  <2>4. \A j : ranIn(j, work.local.steps) => ranIn(j, work.local.steps)'
    BY Zenon, <1>1, <2>1, ShapeFixed DEF ranIn
  <2> QED BY Zenon, <1>1, <2>1, <2>2, <2>3, <2>4, HonestyKept
<1>5. work' # NoWork =>
        /\ work' = work /\ atJob' = atJob /\ jobNow' = jobNow
        /\ (evaluateJobWhen(jobNow, work.base.jobs) = "run") =>
             (evaluateJobWhen(jobNow, work.base.jobs) = "run")'
  BY <1>1 DEF atJob, jobNow, evaluateJobWhen
<1>6. detectJobCycle' = detectJobCycle /\ jobNames' = jobNames
  BY Zenon, <1>1, ShapeFixed
<1> QED BY <1>2, <1>3, <1>4, <1>5, <1>6 DEF JobInv

\* JobInv is an invariant.
LEMMA JobInvariant == Spec => []JobInv
<1>1. Init => JobInv
  <2> SUFFICES ASSUME Init PROVE JobInv OBVIOUS
  <2>1. /\ jobNames \subseteq Jobs
        /\ \A j \in jobNames : placed(j) \subseteq Steps
    BY Zenon, InitType, ShapeType, PlacedType
  <2>2. /\ work = NoWork /\ wfCache = wf /\ runnersCache = runners
        /\ \A j \in Jobs : wf.jobs[j].phase = "none"
        /\ \A s \in Steps : wf.steps[s].phase = "none"
        /\ \A n \in Names : ~runners[n].there /\ runners[n].phase = "none"
    BY Zenon DEF Init, NoStepStatus, NoJobStatus, NoRunner
  <2>3. honestStatus(wf)
    BY Zenon, <2>1, <2>2 DEF honestStatus, honestSteps
  <2>4. honestRunners(runners) /\ NeedsRanFirst
    BY <2>2 DEF honestRunners, NeedsRanFirst
  <2> QED BY Zenon, <2>2, <2>3, <2>4 DEF JobInv
<1>2. TypeOK /\ JobInv /\ [Next]_vars => JobInv'
  BY Zenon, NextSplit, InvStart, InvJob, InvIteration, InvEnd, InvPatch, InvEnvironment
<1> QED BY <1>1, <1>2, TypeCorrect, PTL DEF Spec

\* For every workflow with jobs, every number of Runners, failed calls and
\* restarts, and caches however old: a job is shown as Succeeded only if its
\* steps ran for it, were skipped, or share their status with another job's.
THEOREM JobSuccessTheorem == Spec => []JobSuccessIsReal
<1>1. JobInv => JobSuccessIsReal
  BY Zenon DEF JobInv, JobSuccessIsReal, honestStatus
<1> QED BY <1>1, JobInvariant, PTL

\* Under the same conditions: a job that runs on success gets a Runner only when
\* each job that it needs ran.
THEOREM NeedsTheorem == Spec => []NeedsRanFirst
<1>1. JobInv => NeedsRanFirst
  BY DEF JobInv
<1> QED BY <1>1, JobInvariant, PTL

-----------------------------------------------------------------------------
(* Nothing starts after the end *)

\* A decision other than to wait was taken on dependencies that are done, and
\* statuses that agree with those lead to the same decision.
LEMMA SameDecision ==
  ASSUME NEW deps, NEW when, NEW c, NEW d,
         evaluateStep(deps, when, c) # "wait",
         \A i \in deps : c[i].phase \in DoneStepPhases => d[i].phase = c[i].phase
  PROVE  /\ \A i \in deps : c[i].phase \in DoneStepPhases
         /\ evaluateStep(deps, when, d) = evaluateStep(deps, when, c)
<1>1. \A i \in deps : c[i].phase \in DoneStepPhases /\ d[i].phase = c[i].phase
  BY Zenon DEF evaluateStep
<1>2. /\ (\E i \in deps : d[i].phase \notin DoneStepPhases) <=>
           \E i \in deps : c[i].phase \notin DoneStepPhases
      /\ (\A i \in deps : d[i].phase = "Succeeded") <=>
           \A i \in deps : c[i].phase = "Succeeded"
  BY <1>1, Zenon
<1> QED BY <1>1, <1>2, Zenon DEF evaluateStep

\* Whether a step is dropped follows from its dependencies.
LEMMA DroppedClosed ==
  ASSUME NEW j, NEW x \in stepsOf(j),
         shape.deps[x] \cap dropped(j) # {} \/ ~(shape.deps[x] \subseteq stepsOf(j))
  PROVE  x \in dropped(j)
<1> DEFINE bad(S) == \A s \in S : shape.deps[s] \cap S # {} \/ ~(shape.deps[s] \subseteq stepsOf(j))
<1>1. dropped(j) = UNION {S \in SUBSET stepsOf(j) : bad(S)}
  BY Zenon DEF dropped
<1>2. dropped(j) \subseteq stepsOf(j)
  BY Zenon, <1>1
<1>3. bad(dropped(j))
  <2> SUFFICES ASSUME NEW s \in dropped(j)
               PROVE  shape.deps[s] \cap dropped(j) # {} \/ ~(shape.deps[s] \subseteq stepsOf(j))
    OBVIOUS
  <2>1. PICK S \in SUBSET stepsOf(j) : bad(S) /\ s \in S
    BY <1>1, Zenon
  <2>2. S \subseteq dropped(j)
    BY <1>1, <2>1, Zenon
  <2> QED BY Zenon, <2>1, <2>2
<1>4. bad(dropped(j) \cup {x})
  BY <1>3
<1>5. dropped(j) \cup {x} \in SUBSET stepsOf(j)
  BY Zenon, <1>2
<1> HIDE DEF bad
<1> QED BY <1>1, <1>4, <1>5, Zenon

\* The dependencies of a step that sorting kept were kept, and no set of such
\* steps is closed under having a dependency in it.
LEMMA PlacedFounded ==
  ASSUME NEW j
  PROVE  /\ \A x \in placed(j) : shape.deps[x] \subseteq placed(j)
         /\ \A S \in SUBSET placed(j) :
              (\A x \in S : shape.deps[x] \cap S # {}) => S = {}
<1>1. \A x \in placed(j) : shape.deps[x] \subseteq placed(j)
  <2> TAKE x \in placed(j)
  <2>1. x \in stepsOf(j) /\ x \notin dropped(j)
    BY Zenon DEF placed
  <2>2. shape.deps[x] \cap dropped(j) = {} /\ shape.deps[x] \subseteq stepsOf(j)
    BY <2>1, DroppedClosed
  <2> QED BY Zenon, <2>2 DEF placed
<1>2. ASSUME NEW S \in SUBSET placed(j), \A x \in S : shape.deps[x] \cap S # {}
      PROVE  S = {}
  <2>1. S \in SUBSET stepsOf(j)
    BY DEF placed
  <2>2. S \subseteq dropped(j)
    BY <1>2, <2>1, Zenon DEF dropped
  <2> QED BY <2>2 DEF placed
<1> QED BY Zenon, <1>1, <1>2

\* Two copies of the step statuses agree on what is done in both: if not, take the
\* steps of a job on which they differ.  One of them skipped such a step and
\* the other ran it, so they differ on a dependency of it.
LEMMA StepsAgree ==
  ASSUME NEW c, NEW d, settledSteps(c), settledSteps(d), TypeOK,
         NEW j \in jobNames, NEW s \in placed(j),
         c[s].phase \in DoneStepPhases, d[s].phase \in DoneStepPhases
  PROVE  c[s].phase = d[s].phase
<1> DEFINE differ(x) == /\ c[x].phase \in DoneStepPhases /\ d[x].phase \in DoneStepPhases
                        /\ c[x].phase # d[x].phase
           S == {x \in placed(j) : differ(x)}
<1>1. ASSUME NEW x \in S PROVE shape.deps[x] \cap S # {}
  <2>1. x \in Steps /\ x \in placed(j) /\ differ(x) /\ shape.deps[x] \subseteq placed(j)
    BY PlacedType, PlacedFounded
  <2> DEFINE decision(e) == evaluateStep(shape.deps[x], shape.stepWhen[x], e)
  <2>2. /\ decision(c) = IF c[x].phase = "Skipped" THEN "skip" ELSE "run"
        /\ decision(d) = IF d[x].phase = "Skipped" THEN "skip" ELSE "run"
        /\ c[x].phase # "Skipped" => c[x].phase = runners[shape.runnerName[x]].phase
        /\ d[x].phase # "Skipped" => d[x].phase = runners[shape.runnerName[x]].phase
    BY <2>1, Zenon DEF settledSteps
  <2>3. decision(c) # decision(d) /\ decision(c) # "wait" /\ decision(d) # "wait"
    BY Zenon, <2>1, <2>2
  <2> HIDE DEF S
  <2>4. ASSUME shape.deps[x] \cap S = {} PROVE FALSE
    <3>1. \A y \in shape.deps[x] :
            d[y].phase \in DoneStepPhases /\ c[y].phase \in DoneStepPhases
      BY <2>3, Zenon DEF evaluateStep
    <3>2. \A y \in shape.deps[x] : d[y].phase = c[y].phase
      BY <2>1, <2>4, <3>1, Zenon DEF S
    <3>3. decision(d) = decision(c)
      BY <2>3, <3>2, SameDecision
    <3> QED BY <2>3, <3>3
  <2> QED BY Zenon, <2>4
<1>2. S = {}
  <2>1. S \in SUBSET placed(j)
    OBVIOUS
  <2> HIDE DEF S
  <2> QED BY <1>1, <2>1, PlacedFounded, Zenon
<1> QED BY Zenon, <1>2

\* A job that ran came to one phase.
LEMMA JobPhaseAgrees ==
  ASSUME NEW c, NEW d, settledSteps(c), settledSteps(d), TypeOK, NEW j \in jobNames,
         jobPhase(j, c) # "Running", jobPhase(j, d) # "Running"
  PROVE  jobPhase(j, c) = jobPhase(j, d)
<1>1. \A s \in placed(j) : c[s].phase \in DoneStepPhases /\ d[s].phase \in DoneStepPhases
  BY Zenon DEF jobPhase
<1>2. \A s \in placed(j) : c[s].phase = d[s].phase
  BY <1>1, StepsAgree
<1> QED BY <1>1, <1>2, Zenon DEF jobPhase

\* Two copies of the job phases agree on what is done in both, by the same
\* argument.
LEMMA JobsAgree ==
  ASSUME NEW c, NEW d, settledJobs(c, c), settledJobs(d, d), TypeOK, ~detectJobCycle,
         NEW j \in jobNames, c[j].phase \in DoneStepPhases, d[j].phase \in DoneStepPhases
  PROVE  c[j].phase = d[j].phase
<1> DEFINE differ(x) == /\ c[x].phase \in DoneStepPhases /\ d[x].phase \in DoneStepPhases
                        /\ c[x].phase # d[x].phase
           S == {x \in jobNames : differ(x)}
<1>1. ASSUME NEW x \in S PROVE shape.needs[x] \cap S # {}
  <2>1. x \in jobNames /\ differ(x) /\ shape.needs[x] \subseteq jobNames
    BY DEF detectJobCycle
  <2> DEFINE decision(e) == evaluateStep(shape.needs[x], shape.when[x], e)
             ranTo(e) == \E p \in [Steps -> JobStatuses] :
                           settledSteps(p) /\ jobPhase(x, p) = e[x].phase
  <2>2. /\ decision(c) = IF c[x].phase = "Skipped" THEN "skip" ELSE "run"
        /\ decision(d) = IF d[x].phase = "Skipped" THEN "skip" ELSE "run"
        /\ c[x].phase # "Skipped" => ranTo(c)
        /\ d[x].phase # "Skipped" => ranTo(d)
    BY <2>1, Zenon DEF settledJobs, evaluateJobWhen
  <2>3. ~(ranTo(c) /\ ranTo(d))
    <3> SUFFICES ASSUME ranTo(c), ranTo(d) PROVE FALSE OBVIOUS
    <3>1. PICK p : settledSteps(p) /\ jobPhase(x, p) = c[x].phase
      BY Zenon
    <3>2. PICK q : settledSteps(q) /\ jobPhase(x, q) = d[x].phase
      BY Zenon
    <3>3. c[x].phase # "Running" /\ d[x].phase # "Running"
      BY Zenon, <2>1
    <3> QED BY <2>1, <3>1, <3>2, <3>3, JobPhaseAgrees, Zenon
  <2> HIDE DEF ranTo
  <2>4. decision(c) # decision(d) /\ decision(c) # "wait" /\ decision(d) # "wait"
    BY Zenon, <2>2, <2>3
  <2> HIDE DEF S
  <2>5. ASSUME shape.needs[x] \cap S = {} PROVE FALSE
    <3>1. \A y \in shape.needs[x] :
            d[y].phase \in DoneStepPhases /\ c[y].phase \in DoneStepPhases
      BY <2>4, Zenon DEF evaluateStep
    <3>2. \A y \in shape.needs[x] : d[y].phase = c[y].phase
      BY <2>1, <2>5, <3>1, Zenon DEF S
    <3>3. decision(d) = decision(c)
      BY <2>4, <3>2, SameDecision
    <3> QED BY <2>4, <3>3
  <2> QED BY Zenon, <2>5
<1>2. S = {}
  <2>1. S \in SUBSET jobNames
    BY Zenon
  <2> HIDE DEF S
  <2> QED BY <1>1, <2>1, Zenon DEF detectJobCycle
<1> QED BY Zenon, <1>2

\* Once all jobs came to an end, a step that a pass would run has its Runner, on
\* whatever old phases and statuses the pass decides.
LEMMA EndedMeansStarted ==
  ASSUME TypeOK, JobInv, oneOutcome, firstRunnerDecides, wantsRunner, ended
  PROVE  runners[shape.runnerName[stepNow]].there
<1> DEFINE deps == shape.deps[stepNow]
           local == work.local.steps
           base == work.base.jobs
           stepDecision(c) == evaluateStep(deps, shape.stepWhen[stepNow], c)
           jobDecision(c) == evaluateStep(shape.needs[jobNow], shape.when[jobNow], c)
<1>1. /\ work # NoWork /\ work.then = "jobs" /\ atJob /\ work.step # 0
      /\ jobNow \in jobNames /\ stepNow \in placed(jobNow) /\ stepNow \in Steps
      /\ stepDecision(local) = "run"
  BY Zenon, WalkType DEF wantsRunner, decisionNow
<1>2. ~detectJobCycle /\ jobDecision(base) = "run"
  BY Zenon, <1>1 DEF JobInv, evaluateJobWhen
<1>3. settledJobs(base, base) /\ settledSteps(local)
  BY Zenon, <1>1 DEF oneOutcome, settledStatus
<1>4. PICK jobs : settledJobs(jobs, jobs) /\ allDone(jobs)
  BY Zenon DEF ended
<1>5. shape.needs[jobNow] \subseteq jobNames /\ deps \subseteq placed(jobNow)
  BY Zenon, <1>1, <1>2, PlacedFounded DEF detectJobCycle
<1>6. jobDecision(jobs) = "run"
  <2>1. \A i \in shape.needs[jobNow] : base[i].phase \in DoneStepPhases
    BY <1>2, Zenon DEF evaluateStep
  <2>2. \A i \in shape.needs[jobNow] : jobs[i].phase = base[i].phase
    BY <1>2, <1>3, <1>4, <1>5, <2>1, JobsAgree DEF allDone
  <2> QED BY <1>2, <2>2, SameDecision
<1>7. jobs[jobNow].phase \in DoneStepPhases /\ jobs[jobNow].phase # "Skipped"
  BY Zenon, <1>1, <1>4, <1>6 DEF allDone, settledJobs, evaluateJobWhen
<1>8. PICK steps : settledSteps(steps) /\ jobPhase(jobNow, steps) = jobs[jobNow].phase
  BY <1>1, <1>4, <1>7, Zenon DEF settledJobs
<1>9. steps[stepNow].phase \in DoneStepPhases
  BY Zenon, <1>1, <1>7, <1>8 DEF jobPhase
<1>10. steps[stepNow].phase # "Skipped"
  <2> SUFFICES ASSUME steps[stepNow].phase = "Skipped" PROVE FALSE OBVIOUS
  <2>1. stepDecision(steps) = "skip"
    BY <1>1, <1>8, <1>9, Zenon DEF settledSteps
  <2>2. \A i \in deps : steps[i].phase \in DoneStepPhases /\ local[i].phase \in DoneStepPhases
    BY <1>1, <2>1, Zenon DEF evaluateStep
  <2>3. \A i \in deps : steps[i].phase = local[i].phase
    BY <1>1, <1>3, <1>5, <1>8, <2>2, StepsAgree
  <2>4. stepDecision(steps) = stepDecision(local)
    BY <1>1, <2>3, SameDecision
  <2> QED BY <1>1, <2>1, <2>4
<1> QED BY <1>1, <1>8, <1>9, <1>10, Zenon DEF settledSteps

\* No Runner is removed, and an ended one stays as it is.
runnersKept ==
  /\ shape' = shape
  /\ \A n \in Names : runners[n].there =>
       /\ runners'[n].there
       /\ runners[n].phase \in {"Succeeded", "Failed"} => runners'[n].phase = runners[n].phase

\* Then what was settled stays settled.
LEMMA SettledKept ==
  ASSUME TypeOK, runnersKept
  PROVE  /\ \A steps : settledSteps(steps) => settledSteps(steps)'
         /\ \A jobs, looked : settledJobs(jobs, looked) => settledJobs(jobs, looked)'
         /\ ended => ended'
         /\ \A st : settledStatus(st) => settledStatus(st)'
         /\ \A list : seenRunners(list) => seenRunners(list)'
<1>1. /\ shape' = shape /\ jobNames' = jobNames
      /\ \A j : placed(j)' = placed(j)
      /\ \A s \in Steps : shape.runnerName[s] \in Names
  BY Zenon, ShapeFixed, ShapeType DEF runnersKept
<1>2. ASSUME NEW steps, settledSteps(steps) PROVE settledSteps(steps)'
  <2> SUFFICES ASSUME NEW s \in Steps, steps[s].phase \in DoneStepPhases,
                      steps[s].phase # "Skipped"
               PROVE  /\ runners'[shape.runnerName[s]].there
                      /\ runners'[shape.runnerName[s]].phase = steps[s].phase
    BY <1>1, <1>2, Zenon DEF settledSteps
  <2>1. /\ runners[shape.runnerName[s]].there
        /\ runners[shape.runnerName[s]].phase = steps[s].phase
    BY <1>2, Zenon DEF settledSteps
  <2> QED BY <1>1, <2>1 DEF runnersKept
<1>3. ASSUME NEW jobs, NEW looked, settledJobs(jobs, looked)
      PROVE  settledJobs(jobs, looked)'
  <2>1. \A j : evaluateJobWhen(j, looked)' = evaluateJobWhen(j, looked)
    BY <1>1 DEF evaluateJobWhen
  <2>2. \A j, steps : jobPhase(j, steps)' = jobPhase(j, steps)
    BY <1>1, Zenon DEF jobPhase
  <2> QED BY <1>1, <1>2, <1>3, <2>1, <2>2, Zenon DEF settledJobs
<1>4. ended => ended'
  BY <1>1, <1>3, Zenon DEF ended, allDone
<1>5. ASSUME NEW st, settledStatus(st) PROVE settledStatus(st)'
  BY <1>2, <1>3, <1>4, <1>5, Zenon DEF settledStatus
<1>6. ASSUME NEW list, seenRunners(list) PROVE seenRunners(list)'
  BY Zenon, <1>6 DEF seenRunners, runnersKept
<1> QED BY <1>2, <1>3, <1>4, <1>5, <1>6, Zenon

\* The phase that a step of the walk over the jobs gives its job.
LEMMA JobGiven ==
  ASSUME TypeOK, EnterJob \/ LeaveJob
  PROVE  LET old == work.base.jobs[jobNow].phase
             new == work'.local.jobs[jobNow].phase
         IN  /\ work'.local.phase = work.local.phase
             /\ \/ old \in DoneStepPhases /\ new = old /\ work'.step = 0 /\ work.step = 0
                \/ /\ old \notin DoneStepPhases /\ work.step = 0
                   /\ \/ new \notin DoneStepPhases
                      \/ new = "Skipped" /\ evaluateJobWhen(jobNow, work.base.jobs) = "skip"
                \/ /\ work.step # 0 /\ work'.step = 0
                   /\ new = jobPhase(jobNow, work.local.steps)
<1> DEFINE old == work.base.jobs[jobNow].phase
           new == work'.local.jobs[jobNow].phase
           decision == evaluateJobWhen(jobNow, work.base.jobs)
<1>1. atJob /\ jobNow \in Jobs /\ old \in StepPhases
  BY Zenon, AtJobType DEF EnterJob, LeaveJob, Work, WorkflowStatus, JobStatuses
<1>2. \A p \in StepPhases : nextJob(p) =>
        new = p /\ work'.step = 0 /\ work'.local.phase = work.local.phase
  BY Zenon, <1>1, NextJobEffect
<1>3. \A u \in BOOLEAN : runJob(u) =>
        new = "Running" /\ work'.local.phase = work.local.phase
  BY Zenon, <1>1, RunJobEffect
<1>4. CASE EnterJob
  <2>1. /\ work.step = 0
        /\ \/ old \in DoneStepPhases /\ nextJob(old)
           \/ /\ old \notin DoneStepPhases
              /\ \/ decision = "skip" /\ nextJob(IF old = "none" THEN "Skipped" ELSE old)
                 \/ nextJob("Waiting")
                 \/ runJob(work.updated \/ old # "Running")
    BY Zenon, <1>4 DEF EnterJob, jobStatusMap, runJob
  <2>2. (work.updated \/ old # "Running") \in BOOLEAN
    BY Zenon
  <2> HIDE DEF old, new, decision
  <2>3. CASE old \in DoneStepPhases /\ nextJob(old)
    BY Zenon, <1>1, <1>2, <2>1, <2>3 DEF old, new
  <2>4. CASE /\ old \notin DoneStepPhases /\ decision = "skip"
             /\ nextJob(IF old = "none" THEN "Skipped" ELSE old)
    <3>1. new = (IF old = "none" THEN "Skipped" ELSE old) /\ work'.local.phase = work.local.phase
      BY <1>1, <1>2, <2>4
    <3> QED BY Zenon, <2>1, <2>4, <3>1 DEF old, new, decision
  <2>5. CASE old \notin DoneStepPhases /\ nextJob("Waiting")
    <3>1. new = "Waiting" /\ work'.local.phase = work.local.phase
      BY Zenon, <1>2, <2>5
    <3> QED BY Zenon, <2>1, <2>5, <3>1 DEF old, new
  <2>6. CASE old \notin DoneStepPhases /\ runJob(work.updated \/ old # "Running")
    <3>1. new = "Running" /\ work'.local.phase = work.local.phase
      BY Zenon, <1>3, <2>2, <2>6
    <3> QED BY Zenon, <2>1, <2>6, <3>1 DEF old, new
  <2> QED BY Zenon, <2>1, <2>3, <2>4, <2>5, <2>6
<1>5. CASE LeaveJob
  <2>1. nextJob(jobPhase(jobNow, work.local.steps)) /\ work.step # 0
    BY <1>5 DEF LeaveJob
  <2>2. jobPhase(jobNow, work.local.steps) \in StepPhases
    BY Zenon, JobPhaseType
  <2> QED BY <1>2, <2>1, <2>2
<1> QED BY Zenon, <1>4, <1>5

\* A pass that goes on leaves jobs alone that are done.
LEMMA LeavesStep == TypeOK /\ leavesDoneJobs /\ [Next]_vars => leavesDoneJobs'
<1> SUFFICES ASSUME TypeOK, leavesDoneJobs, [Next]_vars PROVE leavesDoneJobs' BY Zenon
<1> USE DEF leavesDoneJobs
<1>1. CASE StartOfPass
  <2>1. work = NoWork /\ jobNames' = jobNames
    BY Zenon, <1>1, StartFrame, ShapeFixed
  <2>2. work' # NoWork /\ work'.then = "jobs" =>
          /\ work'.step = 0 /\ work'.base = wfCache
          /\ work'.local.jobs = wfCache.jobs /\ work'.local.phase = wfCache.phase
    BY Zenon, <1>1, <2>1, StartEffect DEF takenOver
  <2> QED BY Zenon, <2>1, <2>2
<1>2. CASE EnterJob \/ LeaveJob
  <2>1. /\ atJob /\ shape' = shape /\ jobNames' = jobNames /\ work'.base = work.base
        /\ work'.then = "jobs"
        /\ \A j \in Jobs : j # jobNow =>
             work'.local.jobs[j].phase = work.local.jobs[j].phase
        /\ work'.step # 0 => work'.job = work.job
    BY Zenon, <1>2, JobEffect, ShapeFixed
  <2>2. /\ work # NoWork /\ work.then = "jobs" /\ jobNow \in jobNames /\ jobNames \subseteq Jobs
    BY Zenon, <2>1, AtJobType, ShapeType
  <2>3. /\ work'.local.phase = work.local.phase
        /\ work.base.jobs[jobNow].phase \in DoneStepPhases =>
             /\ work'.local.jobs[jobNow].phase = work.base.jobs[jobNow].phase
             /\ work'.step = 0
    BY Zenon, <1>2, <2>1, <2>2, JobGiven
  <2>4. \A j \in jobNames : work.base.jobs[j].phase \in DoneStepPhases =>
          work'.local.jobs[j].phase = work.base.jobs[j].phase
    BY Zenon, <2>1, <2>2, <2>3
  <2>5. work'.step # 0 => jobNow' = jobNow
    BY Zenon, <2>1 DEF jobNow
  <2> QED BY Zenon, <2>1, <2>2, <2>3, <2>4, <2>5
<1>3. CASE Iteration
  <2>1. /\ shape' = shape /\ jobNames' = jobNames
        /\ work # NoWork /\ work.then = "jobs" /\ atJob /\ work.step # 0
    BY Zenon, <1>3, IterationFrame, IterationEffect, WalkType, ShapeFixed
  <2>2. /\ work'.base = work.base /\ work'.local.phase = work.local.phase
        /\ work'.local.jobs = work.local.jobs /\ work'.job = work.job
    BY <1>3, IterationEffect, Zenon DEF stepped
  <2>3. jobNow' = jobNow
    BY Zenon, <2>1, <2>2 DEF jobNow
  <2> QED BY Zenon, <2>1, <2>2, <2>3
<1>4. CASE EndJobs \/ PatchStatus \/ PatchStatusFails
  BY Zenon, <1>4, EndEffect, PatchEffect DEF PatchStatusFails
<1>5. CASE Environment \/ UNCHANGED vars
  <2>1. work' \in {work, NoWork} /\ shape' = shape
    BY Zenon, <1>5 DEF Environment, SyncWorkflow, SyncRunners, TimerFires, Tick,
           RunnerAdvances, Crash, vars, apiVars, procVars
  <2>2. work' = work => jobNow' = jobNow /\ atJob' = atJob /\ jobNames' = jobNames
    BY Zenon, <2>1, ShapeFixed DEF jobNow, atJob
  <2> QED BY Zenon, <2>1, <2>2
<1> QED BY Zenon, <1>1, <1>2, <1>3, <1>4, <1>5, NextSplit

\* A workflow is given a phase at its end only when all its jobs are done.
LEMMA TerminalIsDone ==
  ASSUME TypeOK, NEW st \in WorkflowStatus, isWorkflowTerminal(computeJobWorkflowPhase(st))
  PROVE  allDone(st.jobs)
<1>1. \A j \in jobNames : st.jobs[j].phase \in StepPhases
  BY Zenon, ShapeType DEF WorkflowStatus, JobStatuses
<1>2. \A j \in jobNames :
        st.jobs[j].phase # "none" /\ st.jobs[j].phase \notin ActiveStepPhases
  BY Zenon DEF computeJobWorkflowPhase, computeWorkflowPhase, isWorkflowTerminal
<1> QED BY Zenon, <1>1, <1>2 DEF allDone

\* What the server and a pass show of the end, when caches do not lag.
LEMMA FreshEndsStep ==
  TypeOK /\ leavesDoneJobs /\ leavesDoneJobs' /\ freshEnds /\ [Next]_vars => freshEnds'
<1> SUFFICES ASSUME TypeOK, leavesDoneJobs', freshEnds, [Next]_vars,
                    shape' \notin StaleFor
             PROVE  /\ isWorkflowTerminal(wf'.phase) => allDone(wf.jobs)'
                    /\ work' # NoWork =>
                         /\ work'.base = wf'
                         /\ isWorkflowTerminal(work'.local.phase) => allDone(work.local.jobs)'
  BY DEF freshEnds
<1>0. shape' = shape /\ jobNames' = jobNames
  <2>1. shape' = shape
    BY Zenon, NextSplit, StartFrame, JobEffect, IterationFrame, EndEffect, PatchEffect
    DEF PatchStatusFails, Environment, SyncWorkflow, SyncRunners, TimerFires, Tick,
        RunnerAdvances, Crash, vars, apiVars
  <2> QED BY Zenon, <2>1, ShapeFixed
<1>1. /\ isWorkflowTerminal(wf.phase) => allDone(wf.jobs)
      /\ work # NoWork =>
           work.base = wf /\ (isWorkflowTerminal(work.local.phase) => allDone(work.local.jobs))
  BY Zenon, <1>0 DEF freshEnds
<1>2. wf' = wf => (isWorkflowTerminal(wf'.phase) => allDone(wf.jobs)')
  BY Zenon, <1>0, <1>1 DEF allDone
<1>3. ASSUME wf' = wf, work' # NoWork, work'.base = wf, work'.then = "jobs",
             isWorkflowTerminal(work'.local.phase)
      PROVE  allDone(work.local.jobs)'
  <2>1. /\ work'.local.phase = wf.phase
        /\ \A j \in jobNames : wf.jobs[j].phase \in DoneStepPhases =>
             work'.local.jobs[j].phase = wf.jobs[j].phase
    BY Zenon, <1>0, <1>3 DEF leavesDoneJobs
  <2> QED BY Zenon, <1>0, <1>1, <1>3, <2>1 DEF allDone
<1>4. CASE StartOfPass
  <2>1. work = NoWork /\ wf' = wf
    BY Zenon, <1>4, StartFrame
  <2> SUFFICES ASSUME work' # NoWork
               PROVE  /\ work'.base = wf
                      /\ isWorkflowTerminal(work'.local.phase) => allDone(work.local.jobs)'
    BY <1>2, <2>1
  <2>2. wfCache = wf
    BY Zenon, <1>0, <1>4, <2>1 DEF StartOfPass, ReconcileReadFails, ReconcileRejected,
      ReconcileTimeout, ReconcileDeferred, ReconcileJobs, startReconcile, procVars
  <2>3. work'.base = wf /\ startedFrom(work'.local)
    BY Zenon, <1>4, <2>1, <2>2, StartEffect
  <2> QED BY <1>0, <1>1, <2>2, <2>3 DEF startedFrom, takenOver, allDone
<1>5. CASE EnterJob \/ LeaveJob
  <2>1. work # NoWork /\ wf' = wf /\ work'.base = work.base /\ work'.then = "jobs"
    BY Zenon, <1>5, JobEffect, AtJobType
  <2> QED BY Zenon, <1>1, <1>2, <1>3, <2>1
<1>6. CASE Iteration
  <2>1. work # NoWork /\ wf' = wf
    BY Zenon, <1>6, IterationFrame, IterationEffect, WalkType
  <2>2. work'.base = work.base /\ work'.then = "jobs"
    BY <1>6, IterationEffect, Zenon DEF stepped
  <2> QED BY Zenon, <1>1, <1>2, <1>3, <2>1, <2>2
<1>7. CASE EndJobs
  <2>1. wf' = wf
    BY Zenon, <1>7, EndEffect
  <2>2. ASSUME work' # NoWork
        PROVE  /\ work # NoWork /\ work'.base = work.base /\ work'.local.jobs = work.local.jobs
               /\ isWorkflowTerminal(work'.local.phase) => allDone(work.local.jobs)
    <3>1. /\ work # NoWork /\ work'.base = work.base /\ work'.local.jobs = work.local.jobs
          /\ work'.local.phase = computeJobWorkflowPhase(work.local)
      BY Zenon, <1>7, <2>2, EndEffect
    <3>2. work.local \in WorkflowStatus
      BY Zenon, <3>1 DEF TypeOK, Work
    <3> QED BY Zenon, <3>1, <3>2, TerminalIsDone
  <2> QED BY Zenon, <1>0, <1>1, <1>2, <2>1, <2>2 DEF allDone
<1>8. CASE PatchStatus
  <2>1. /\ work # NoWork /\ work' = NoWork
        /\ work.base = wf => wf'.jobs = work.local.jobs /\ wf'.phase = work.local.phase
    BY Zenon, <1>8, PatchEffect
  <2> QED BY Zenon, <1>0, <1>1, <2>1 DEF allDone
<1>9. CASE PatchStatusFails \/ Environment \/ UNCHANGED vars
  <2>1. wf' = wf /\ work' \in {work, NoWork}
    BY Zenon, <1>9 DEF PatchStatusFails, Environment, SyncWorkflow, SyncRunners, TimerFires, Tick,
           RunnerAdvances, Crash, vars, apiVars, procVars
  <2> QED BY Zenon, <1>0, <1>1, <1>2, <2>1 DEF allDone
<1> QED BY Zenon, <1>4, <1>5, <1>6, <1>7, <1>8, <1>9, NextSplit

\* Recording a step that was not done, on the decision that the statuses lead to,
\* keeps what is settled.
LEMMA RecordSettles ==
  ASSUME TypeOK, NEW c, NEW new, NEW j \in jobNames, NEW s \in placed(j),
         settledSteps(c), c[s].phase \notin DoneStepPhases,
         \A i \in Steps : i # s => new[i] = c[i],
         new[s].phase \in DoneStepPhases =>
           IF new[s].phase = "Skipped"
             THEN evaluateStep(shape.deps[s], shape.stepWhen[s], c) = "skip"
             ELSE /\ evaluateStep(shape.deps[s], shape.stepWhen[s], c) = "run"
                  /\ runners[shape.runnerName[s]].there
                  /\ runners[shape.runnerName[s]].phase = new[s].phase
  PROVE  settledSteps(new)
<1> DEFINE decision(i, e) == evaluateStep(shape.deps[i], shape.stepWhen[i], e)
<1>1. s \in Steps /\ \A i \in Steps : shape.deps[i] \subseteq Steps
  BY Zenon, PlacedType, JobAssumption DEF TypeOK, JobWorkflowSpecs
<1>2. \A i \in Steps : decision(i, c) # "wait" => decision(i, new) = decision(i, c)
  <2> SUFFICES ASSUME NEW i \in Steps, decision(i, c) # "wait"
               PROVE  decision(i, new) = decision(i, c)
    BY Zenon
  <2>1. \A d \in shape.deps[i] : c[d].phase \in DoneStepPhases => new[d].phase = c[d].phase
    BY Zenon, <1>1
  <2> QED BY <2>1, SameDecision
<1>3. ASSUME NEW i \in Steps, new[i].phase \in DoneStepPhases
      PROVE  /\ \E k \in jobNames : i \in placed(k)
             /\ IF new[i].phase = "Skipped" THEN decision(i, new) = "skip"
                ELSE /\ decision(i, new) = "run"
                     /\ runners[shape.runnerName[i]].there
                     /\ runners[shape.runnerName[i]].phase = new[i].phase
  <2> HIDE DEF decision
  <2>1. CASE i = s
    BY Zenon, <1>2, <1>3, <2>1 DEF decision
  <2>2. CASE i # s
    <3>1. new[i] = c[i]
      BY Zenon, <2>2
    <3>2. /\ \E k \in jobNames : i \in placed(k)
          /\ IF c[i].phase = "Skipped" THEN decision(i, c) = "skip"
             ELSE /\ decision(i, c) = "run"
                  /\ runners[shape.runnerName[i]].there
                  /\ runners[shape.runnerName[i]].phase = c[i].phase
      BY <1>3, <3>1, Zenon DEF settledSteps, decision
    <3> QED BY Zenon, <1>2, <3>1, <3>2
  <2> QED BY Zenon, <2>1, <2>2
<1> QED BY <1>3, Zenon DEF settledSteps

\* A walk whose step has no Runner yet finds it not done.
LEMMA UnstartedIsOpen ==
  ASSUME TypeOK, inStepLoop, settledSteps(work.local.steps), decisionNow = "run",
         ~runners[shape.runnerName[stepNow]].there
  PROVE  statusNow.phase \notin DoneStepPhases
<1>1. stepNow \in Steps
  BY Zenon, WalkType
<1> QED BY <1>1, Zenon DEF settledSteps, decisionNow, statusNow

\* What an iteration records, when the first Runner of a step decides.
LEMMA IterationSettles ==
  ASSUME TypeOK, Iteration, firstRunnerDecides,
         settledSteps(work.local.steps), seenRunners(work.list)
  PROVE  runnersKept /\ settledSteps(work'.local.steps)
<1> DEFINE name == shape.runnerName[stepNow]
           local == work.local.steps
<1>1. /\ inStepLoop /\ jobNow \in jobNames /\ stepNow \in Steps /\ stepNow \in placed(jobNow)
      /\ statusNow \in StepStatuses /\ runnerNow \in RunnerObject /\ name \in Names
      /\ local \in [Steps -> StepStatuses] /\ local[stepNow] = statusNow
  BY Zenon, IterationEffect, WalkType, ShapeType DEF statusNow, Work, WorkflowStatus
<1>2. continueLoop => work'.local.steps = local
  BY Zenon, <1>1, ContinueEffect DEF stepped
<1>3. \A s \in StepStatuses : recordStep(s) => work'.local.steps = [local EXCEPT ![stepNow] = s]
  BY Zenon, <1>1, RecordEffect DEF stepped
<1>4. ASSUME NEW s \in StepStatuses, recordStep(s), statusNow.phase \notin DoneStepPhases,
             s.phase \in DoneStepPhases =>
               IF s.phase = "Skipped" THEN decisionNow = "skip"
               ELSE decisionNow = "run" /\ runners[name].there /\ runners[name].phase = s.phase
      PROVE  settledSteps(work'.local.steps)
  <2>1. /\ work'.local.steps[stepNow] = s
        /\ \A i \in Steps : i # stepNow => work'.local.steps[i] = local[i]
    BY Zenon, <1>1, <1>3, <1>4
  <2> DEFINE new == work'.local.steps
             decision == evaluateStep(shape.deps[stepNow], shape.stepWhen[stepNow], local)
  <2>2. /\ new[stepNow].phase \in DoneStepPhases =>
             IF new[stepNow].phase = "Skipped" THEN decision = "skip"
             ELSE /\ decision = "run" /\ runners[name].there
                  /\ runners[name].phase = new[stepNow].phase
        /\ local[stepNow].phase \notin DoneStepPhases
    BY Zenon, <1>1, <1>4, <2>1 DEF decisionNow
  <2>3. /\ jobNow \in jobNames /\ stepNow \in placed(jobNow)
        /\ \A i \in Steps : i # stepNow => new[i] = local[i]
    BY Zenon, <1>1, <2>1
  <2> HIDE DEF new, local, DoneStepPhases
  <2>4. settledSteps(local)
    BY Zenon DEF local
  <2>5. settledSteps(new)
    BY Zenon, <2>2, <2>3, <2>4, RecordSettles
  <2> QED BY Zenon, <2>5 DEF new
<1>5. shape' = shape
  BY IterationFrame
<1>6. runners' = runners => runnersKept
  BY <1>5 DEF runnersKept
<1>7. CASE StepWithoutCall
  <2>1. runners' = runners
    BY <1>7 DEF StepWithoutCall, apiVars
  <2>2. CASE continueLoop
    BY <1>2, <1>6, <2>1, <2>2
  <2>3. CASE /\ decisionNow \in {"skip", "wait"} /\ statusNow.phase = "none"
             /\ recordStep([NoStepStatus EXCEPT
                    !.phase = IF decisionNow = "skip" THEN "Skipped" ELSE "Waiting"])
    <3> DEFINE s == [NoStepStatus EXCEPT
                       !.phase = IF decisionNow = "skip" THEN "Skipped" ELSE "Waiting"]
    <3>1. /\ s \in StepStatuses
          /\ s.phase = IF decisionNow = "skip" THEN "Skipped" ELSE "Waiting"
      BY Zenon DEF NoStepStatus, StepStatuses
    <3> HIDE DEF s
    <3>2. recordStep(s)
      BY Zenon, <2>3 DEF s
    <3> QED BY <1>4, <1>6, <2>1, <2>3, <3>1, <3>2
  <2>4. CASE /\ ~stepClosed /\ decisionNow = "run" /\ runnerNow.there
             /\ recordStep(upsertStepStatus(statusNow,
                             runnerPhaseToStepPhase(runnerNow.phase), 0))
    <3> DEFINE phase == runnerPhaseToStepPhase(runnerNow.phase)
               s == upsertStepStatus(statusNow, phase, 0)
    <3>1. phase \in StepPhases /\ (phase \in DoneStepPhases =>
                                     phase # "Skipped" /\ runnerNow.phase = phase)
      BY Zenon, <1>1 DEF runnerPhaseToStepPhase, RunnerObject
    <3>2. runnerNow = work.list[name]
      BY Zenon, <2>4 DEF runnerNow, runnerOf, NoRunner
    <3>3. runners[name].there /\ (phase \in DoneStepPhases => runners[name].phase = phase)
      BY Zenon, <1>1, <2>4, <3>1, <3>2 DEF seenRunners
    <3>4. statusNow.phase \notin DoneStepPhases
      BY <2>4 DEF stepClosed
    <3>5. s \in StepStatuses /\ s.phase = phase
      <4>1. statusNow \in StepStatuses /\ phase \in StepPhases
        BY <1>1, <3>1
      <4> HIDE DEF phase, StepPhases
      <4> QED BY <4>1, UpsertType, Zenon
    <3> HIDE DEF s, phase
    <3>6. recordStep(s)
      BY Zenon, <2>4 DEF s, phase
    <3> QED BY Zenon, <1>4, <1>6, <2>1, <2>4, <3>1, <3>3, <3>4, <3>5, <3>6
  <2> QED BY <1>7, <2>2, <2>3, <2>4, Zenon DEF StepWithoutCall
<1>8. CASE CreateRunner
  <2>1. /\ ~runners[name].there /\ decisionNow = "run"
        /\ runners' = [runners EXCEPT ![name] = buildJobStepRunner(created[name] + 1)]
        /\ recordStep(upsertStepStatus(statusNow, "Pending", 0))
    BY Zenon, <1>8 DEF CreateRunner, wantsRunner
  <2>2. runnersKept
    BY Zenon, <1>1, <1>5, <2>1 DEF runnersKept, TypeOK, RunnerObjects
  <2> DEFINE s == upsertStepStatus(statusNow, "Pending", 0)
  <2>3. s \in StepStatuses /\ s.phase = "Pending"
    BY <1>1, UpsertType
  <2>4. statusNow.phase \notin DoneStepPhases
    BY Zenon, <1>1, <2>1, UnstartedIsOpen
  <2> HIDE DEF s
  <2>5. recordStep(s)
    BY Zenon, <2>1 DEF s
  <2> QED BY Zenon, <1>4, <2>2, <2>3, <2>4, <2>5
<1>9. CASE CreateRunnerFails
  BY Zenon, <1>2, <1>6, <1>9 DEF CreateRunnerFails, apiVars
<1>10. ~RetryStep
  BY <1>1 DEF RetryStep, retryNow, firstRunnerDecides, StepStatuses
<1> QED BY Zenon, <1>7, <1>8, <1>9, <1>10 DEF Iteration

\* What a step has to show for oneOutcome to hold after it.
nextOutcome ==
  /\ settledStatus(wf') /\ settledStatus(wfCache') /\ seenRunners(runnersCache')
  /\ work' # NoWork =>
       /\ settledStatus(work'.base) /\ seenRunners(work'.list)
       /\ settledSteps(work'.local.steps)
       /\ settledJobs(work'.local.jobs, lookedAt')
       /\ isWorkflowTerminal(work'.local.phase) => ended

LEMMA OutcomeNext ==
  ASSUME TypeOK, runnersKept, nextOutcome
  PROVE  oneOutcome'
<1>1. /\ \A c : c = wf' /\ settledStatus(c)' => settledStatus(wf)'
      /\ \A c : c = wfCache' /\ settledStatus(c)' => settledStatus(wfCache)'
      /\ \A c : c = work'.base /\ settledStatus(c)' => settledStatus(work.base)'
  <2>1. ASSUME NEW c, c = wf', settledStatus(c)' PROVE settledStatus(wf)'
    BY <2>1, Zenon DEF settledStatus, settledSteps, settledJobs, evaluateJobWhen
  <2>2. ASSUME NEW c, c = wfCache', settledStatus(c)' PROVE settledStatus(wfCache)'
    BY <2>2, Zenon DEF settledStatus, settledSteps, settledJobs, evaluateJobWhen
  <2>3. ASSUME NEW c, c = work'.base, settledStatus(c)' PROVE settledStatus(work.base)'
    BY <2>3, Zenon DEF settledStatus, settledSteps, settledJobs, evaluateJobWhen
  <2> QED BY <2>1, <2>2, <2>3, Zenon
<1>2. /\ \A c : c = runnersCache' /\ seenRunners(c)' => seenRunners(runnersCache)'
      /\ \A c : c = work'.list /\ seenRunners(c)' => seenRunners(work.list)'
  BY Zenon DEF seenRunners
<1>3. \A c : c = work'.local.steps /\ settledSteps(c)' => settledSteps(work.local.steps)'
  BY Zenon DEF settledSteps
<1>4. \A c, d : c = work'.local.jobs /\ d = lookedAt' /\ settledJobs(c, d)' =>
        settledJobs(work.local.jobs, lookedAt)'
  BY Zenon DEF settledJobs, evaluateJobWhen
<1>5. /\ \A steps : settledSteps(steps) => settledSteps(steps)'
      /\ \A jobs, looked : settledJobs(jobs, looked) => settledJobs(jobs, looked)'
      /\ ended => ended'
      /\ \A st : settledStatus(st) => settledStatus(st)'
      /\ \A list : seenRunners(list) => seenRunners(list)'
  BY Zenon, SettledKept
<1>6. settledStatus(wf)' /\ settledStatus(wfCache)' /\ seenRunners(runnersCache)'
  BY <1>1, <1>2, <1>5, Zenon DEF nextOutcome
<1>7. ASSUME work' # NoWork
      PROVE  /\ settledStatus(work.base)' /\ seenRunners(work.list)'
             /\ settledSteps(work.local.steps)'
             /\ settledJobs(work.local.jobs, lookedAt)'
             /\ isWorkflowTerminal(work'.local.phase) => ended'
  BY <1>1, <1>2, <1>3, <1>4, <1>5, <1>7, Zenon DEF nextOutcome
<1> QED BY <1>6, <1>7, Zenon DEF oneOutcome

\* The phase that a job is given comes from its settled steps.
LEMMA PhasesSettled ==
  ASSUME TypeOK, NEW c \in [Steps -> StepStatuses], settledSteps(c), NEW j \in jobNames
  PROVE  \E p \in [Steps -> JobStatuses] : settledSteps(p) /\ jobPhase(j, p) = jobPhase(j, c)
<1> DEFINE p == [s \in Steps |-> [phase |-> c[s].phase]]
           decision(i, e) == evaluateStep(shape.deps[i], shape.stepWhen[i], e)
<1>1. p \in [Steps -> JobStatuses] /\ \A s \in Steps : p[s].phase = c[s].phase
  BY Zenon DEF StepStatuses, JobStatuses
<1> HIDE DEF p
<1>2. placed(j) \subseteq Steps /\ \A i \in Steps : shape.deps[i] \subseteq Steps
  BY Zenon, PlacedType, JobAssumption DEF TypeOK, JobWorkflowSpecs
<1>3. \A i \in Steps : decision(i, c) # "wait" => decision(i, p) = decision(i, c)
  <2> SUFFICES ASSUME NEW i \in Steps, decision(i, c) # "wait"
               PROVE  decision(i, p) = decision(i, c)
    BY Zenon
  <2>1. \A d \in shape.deps[i] : p[d].phase = c[d].phase
    BY Zenon, <1>1, <1>2
  <2> QED BY <2>1, SameDecision
<1>4. settledSteps(p)
  <2> SUFFICES ASSUME NEW i \in Steps, p[i].phase \in DoneStepPhases
               PROVE  /\ \E k \in jobNames : i \in placed(k)
                      /\ IF p[i].phase = "Skipped" THEN decision(i, p) = "skip"
                         ELSE /\ decision(i, p) = "run"
                              /\ runners[shape.runnerName[i]].there
                              /\ runners[shape.runnerName[i]].phase = p[i].phase
    BY Zenon DEF settledSteps
  <2> HIDE DEF decision
  <2>1. /\ \E k \in jobNames : i \in placed(k)
        /\ IF c[i].phase = "Skipped" THEN decision(i, c) = "skip"
           ELSE /\ decision(i, c) = "run"
                /\ runners[shape.runnerName[i]].there
                /\ runners[shape.runnerName[i]].phase = c[i].phase
    BY <1>1, Zenon DEF settledSteps, decision
  <2> QED BY <1>1, <1>3, <2>1
<1>5. jobPhase(j, p) = jobPhase(j, c)
  <2>1. \A s \in placed(j) : p[s].phase = c[s].phase
    BY Zenon, <1>1, <1>2
  <2> QED BY <2>1, Zenon DEF jobPhase
<1> QED BY Zenon, <1>1, <1>4, <1>5

\* The phases that a pass gives its jobs fit together, not only with those it
\* started from.
LEMMA LookedAgain ==
  ASSUME NEW jobs, NEW looked, settledJobs(jobs, looked), ~detectJobCycle,
         \A j \in jobNames : looked[j].phase \in DoneStepPhases => jobs[j].phase = looked[j].phase
  PROVE  settledJobs(jobs, jobs)
<1>1. \A j \in jobNames : evaluateJobWhen(j, looked) # "wait" =>
        evaluateJobWhen(j, jobs) = evaluateJobWhen(j, looked)
  <2> SUFFICES ASSUME NEW j \in jobNames, evaluateJobWhen(j, looked) # "wait"
               PROVE  evaluateJobWhen(j, jobs) = evaluateJobWhen(j, looked)
    BY Zenon
  <2>1. \A i \in shape.needs[j] : looked[i].phase \in DoneStepPhases =>
          jobs[i].phase = looked[i].phase
    BY DEF detectJobCycle
  <2> QED BY <2>1, SameDecision DEF evaluateJobWhen
<1> SUFFICES ASSUME NEW j \in jobNames, jobs[j].phase \in DoneStepPhases
             PROVE  IF jobs[j].phase = "Skipped" THEN evaluateJobWhen(j, jobs) = "skip"
                    ELSE /\ evaluateJobWhen(j, jobs) = "run"
                         /\ \E steps \in [Steps -> JobStatuses] :
                              settledSteps(steps) /\ jobPhase(j, steps) = jobs[j].phase
  BY Zenon DEF settledJobs
<1>2. IF jobs[j].phase = "Skipped" THEN evaluateJobWhen(j, looked) = "skip"
      ELSE /\ evaluateJobWhen(j, looked) = "run"
           /\ \E steps \in [Steps -> JobStatuses] :
                settledSteps(steps) /\ jobPhase(j, steps) = jobs[j].phase
  BY Zenon DEF settledJobs
<1> QED BY Zenon, <1>1, <1>2

\* The start of a pass keeps the one outcome.
LEMMA OutcomeStart ==
  ASSUME TypeOK, oneOutcome, firstRunnerDecides, StartOfPass
  PROVE  runnersKept /\ nextOutcome
<1>1. /\ work = NoWork /\ UNCHANGED <<shape, wf, runners, wfCache, runnersCache>>
  BY StartFrame
<1>2. /\ settledStatus(wf') /\ settledStatus(wfCache') /\ seenRunners(runnersCache')
      /\ settledStatus(wfCache) /\ seenRunners(runnersCache)
  BY <1>1, Zenon DEF oneOutcome
<1>3. ASSUME work' # NoWork
      PROVE  /\ work'.base = wfCache /\ work'.list = runnersCache
             /\ work'.local.jobs = wfCache.jobs /\ work'.local.steps = wfCache.steps
             /\ work'.local.phase = wfCache.phase /\ lookedAt' = wfCache.jobs
  BY Zenon, <1>1, <1>3, StartEffect DEF startedFrom, takenOver, firstRunnerDecides, lookedAt
<1>4. work' # NoWork =>
        /\ settledStatus(work'.base) /\ seenRunners(work'.list)
        /\ settledSteps(work'.local.steps)
        /\ settledJobs(work'.local.jobs, lookedAt')
        /\ isWorkflowTerminal(work'.local.phase) => ended
  BY Zenon, <1>2, <1>3 DEF settledStatus
<1> QED BY Zenon, <1>1, <1>2, <1>4 DEF runnersKept, nextOutcome

\* So does a step of the walk over the jobs.
LEMMA OutcomeJob ==
  ASSUME TypeOK, JobInv, oneOutcome, firstRunnerDecides, EnterJob \/ LeaveJob
  PROVE  runnersKept /\ nextOutcome
<1> DEFINE base == work.base.jobs
           old == base[jobNow].phase
           new == work'.local.jobs
<1>1. /\ atJob /\ UNCHANGED <<shape, wf, runners, wfCache, runnersCache>>
      /\ work'.then = "jobs" /\ work'.base = work.base /\ work'.list = work.list
      /\ work'.local.steps = work.local.steps
      /\ \A j \in Jobs : j # jobNow => new[j].phase = work.local.jobs[j].phase
  BY Zenon, JobEffect
<1>2. /\ work # NoWork /\ work.then = "jobs" /\ jobNow \in jobNames /\ jobNames \subseteq Jobs
      /\ work.local.steps \in [Steps -> StepStatuses]
  BY Zenon, <1>1, AtJobType, ShapeType DEF Work, WorkflowStatus
<1>3. /\ settledStatus(wf) /\ settledStatus(wfCache) /\ seenRunners(runnersCache)
      /\ settledStatus(work.base) /\ seenRunners(work.list)
      /\ settledSteps(work.local.steps) /\ settledJobs(work.local.jobs, base)
      /\ isWorkflowTerminal(work.local.phase) => ended
  BY Zenon, <1>2 DEF oneOutcome, lookedAt
<1>4. /\ work'.local.phase = work.local.phase
      /\ \/ new[jobNow].phase = old
         \/ new[jobNow].phase \notin DoneStepPhases
         \/ new[jobNow].phase = "Skipped" /\ evaluateJobWhen(jobNow, base) = "skip"
         \/ /\ evaluateJobWhen(jobNow, base) = "run"
            /\ new[jobNow].phase = jobPhase(jobNow, work.local.steps)
  <2>1. work.step # 0 => evaluateJobWhen(jobNow, base) = "run"
    BY Zenon, <1>1, <1>2 DEF JobInv
  <2> QED BY Zenon, <2>1, JobGiven
<1> DEFINE follows(j) ==
             IF new[j].phase = "Skipped" THEN evaluateJobWhen(j, base) = "skip"
             ELSE /\ evaluateJobWhen(j, base) = "run"
                  /\ \E steps \in [Steps -> JobStatuses] :
                       settledSteps(steps) /\ jobPhase(j, steps) = new[j].phase
<1>5. ASSUME NEW j \in jobNames, j # jobNow, new[j].phase \in DoneStepPhases
      PROVE  follows(j)
  <2>1. new[j].phase = work.local.jobs[j].phase
    BY Zenon, <1>1, <1>2, <1>5
  <2> QED BY <1>3, <1>5, <2>1, Zenon DEF settledJobs
<1>6. ASSUME new[jobNow].phase \in DoneStepPhases PROVE follows(jobNow)
  <2>1. CASE new[jobNow].phase = old
    BY <1>2, <1>3, <1>6, <2>1, Zenon DEF settledStatus, settledJobs
  <2>2. CASE new[jobNow].phase = "Skipped" /\ evaluateJobWhen(jobNow, base) = "skip"
    BY Zenon, <2>2
  <2>3. CASE /\ evaluateJobWhen(jobNow, base) = "run"
             /\ new[jobNow].phase = jobPhase(jobNow, work.local.steps)
    <3>1. \E p \in [Steps -> JobStatuses] :
            settledSteps(p) /\ jobPhase(jobNow, p) = new[jobNow].phase
      BY Zenon, <1>2, <1>3, <2>3, PhasesSettled
    <3>2. new[jobNow].phase # "Skipped"
      BY <2>3, JobPhaseType
    <3> QED BY <2>3, <3>1, <3>2, Zenon
  <2> QED BY Zenon, <1>4, <1>6, <2>1, <2>2, <2>3
<1>7. settledJobs(new, base)
  BY <1>5, <1>6, Zenon DEF settledJobs
<1>8. lookedAt' = base
  BY <1>1 DEF lookedAt
<1> HIDE DEF new, base
<1>9. settledJobs(work'.local.jobs, lookedAt')
  BY Zenon, <1>7, <1>8 DEF new
<1> QED BY Zenon, <1>1, <1>3, <1>4, <1>9 DEF runnersKept, nextOutcome

\* So does an iteration.
LEMMA OutcomeIteration ==
  ASSUME TypeOK, oneOutcome, firstRunnerDecides, Iteration
  PROVE  runnersKept /\ nextOutcome
<1>1. /\ UNCHANGED <<shape, wf, wfCache, runnersCache>>
      /\ work # NoWork /\ work.then = "jobs"
  BY Zenon, IterationFrame, IterationEffect, WalkType
<1>2. /\ work'.then = "jobs" /\ work'.base = work.base /\ work'.list = work.list
      /\ work'.local.jobs = work.local.jobs /\ work'.local.phase = work.local.phase
  BY IterationEffect, Zenon DEF stepped
<1>3. /\ settledStatus(wf) /\ settledStatus(wfCache) /\ seenRunners(runnersCache)
      /\ settledStatus(work.base) /\ seenRunners(work.list)
      /\ settledSteps(work.local.steps) /\ settledJobs(work.local.jobs, work.base.jobs)
      /\ isWorkflowTerminal(work.local.phase) => ended
  BY Zenon, <1>1 DEF oneOutcome, lookedAt
<1>4. runnersKept /\ settledSteps(work'.local.steps)
  BY Zenon, <1>3, IterationSettles
<1>5. lookedAt' = work.base.jobs
  BY Zenon, <1>2 DEF lookedAt
<1> QED BY Zenon, <1>1, <1>2, <1>3, <1>4, <1>5 DEF nextOutcome

\* So does the end of the walk: jobs that are all done are an end.
LEMMA OutcomeEnd ==
  ASSUME TypeOK, JobInv, leavesDoneJobs, oneOutcome, firstRunnerDecides, EndJobs
  PROVE  runnersKept /\ nextOutcome
<1>1. /\ UNCHANGED <<shape, wf, runners, wfCache, runnersCache>>
      /\ work # NoWork /\ work.then = "jobs"
  BY Zenon, EndEffect DEF EndJobs
<1>2. /\ settledStatus(wf) /\ settledStatus(wfCache) /\ seenRunners(runnersCache)
      /\ settledStatus(work.base) /\ seenRunners(work.list)
      /\ settledSteps(work.local.steps) /\ settledJobs(work.local.jobs, work.base.jobs)
  BY Zenon, <1>1 DEF oneOutcome, lookedAt
<1>3. settledJobs(work.local.jobs, work.local.jobs)
  <2>1. ~detectJobCycle
    BY Zenon, <1>1 DEF JobInv
  <2>2. \A j \in jobNames : work.base.jobs[j].phase \in DoneStepPhases =>
          work.local.jobs[j].phase = work.base.jobs[j].phase
    BY Zenon, <1>1 DEF leavesDoneJobs
  <2> QED BY Zenon, <1>2, <2>1, <2>2, LookedAgain
<1>4. work.local \in WorkflowStatus /\ work.local.jobs \in [Jobs -> JobStatuses]
  BY Zenon, <1>1 DEF TypeOK, Work, WorkflowStatus
<1>5. isWorkflowTerminal(computeJobWorkflowPhase(work.local)) => ended
  BY <1>3, <1>4, TerminalIsDone, Zenon DEF ended
<1>6. ASSUME work' # NoWork
      PROVE  /\ settledStatus(work'.base) /\ seenRunners(work'.list)
             /\ settledSteps(work'.local.steps)
             /\ settledJobs(work'.local.jobs, lookedAt')
             /\ isWorkflowTerminal(work'.local.phase) => ended
  <2>1. /\ work'.then = "patch" /\ work'.base = work.base /\ work'.list = work.list
        /\ work'.local.steps = work.local.steps /\ work'.local.jobs = work.local.jobs
        /\ work'.local.phase = computeJobWorkflowPhase(work.local)
    BY Zenon, <1>6, EndEffect
  <2>2. lookedAt' = work.local.jobs
    BY Zenon, <2>1 DEF lookedAt
  <2> QED BY Zenon, <1>2, <1>3, <1>5, <2>1, <2>2
<1> QED BY Zenon, <1>1, <1>2, <1>6 DEF runnersKept, nextOutcome

\* So does a patch, which may write some of the lists only.
LEMMA OutcomePatch ==
  ASSUME TypeOK, oneOutcome, firstRunnerDecides, PatchStatus
  PROVE  runnersKept /\ nextOutcome
<1>1. /\ UNCHANGED <<shape, runners, wfCache, runnersCache>>
      /\ work # NoWork /\ work' = NoWork
      /\ wf'.jobs \in {wf.jobs, work.local.jobs}
      /\ wf'.phase \in {wf.phase, work.local.phase}
      /\ wf'.steps \in {wf.steps, work.local.steps}
  BY Zenon, PatchEffect
<1>2. work.then = "patch"
  BY Zenon DEF PatchStatus
<1>3. /\ settledStatus(wf) /\ settledStatus(wfCache) /\ seenRunners(runnersCache)
      /\ settledSteps(work.local.steps) /\ settledJobs(work.local.jobs, work.local.jobs)
      /\ isWorkflowTerminal(work.local.phase) => ended
  BY Zenon, <1>1, <1>2 DEF oneOutcome, lookedAt
<1>4. settledStatus(wf')
  BY <1>1, <1>3 DEF settledStatus
<1> QED BY Zenon, <1>1, <1>3, <1>4 DEF runnersKept, nextOutcome

\* So do a failed patch, the caches, time, Runners and a restart.
LEMMA OutcomeEnvironment ==
  ASSUME TypeOK, oneOutcome, firstRunnerDecides,
         PatchStatusFails \/ Environment \/ UNCHANGED vars
  PROVE  runnersKept /\ nextOutcome
<1> USE DEF vars, apiVars, cacheVars, procVars, ghostVars
<1>1. /\ shape' = shape /\ wf' = wf /\ wfCache' \in {wf, wfCache}
      /\ runnersCache' \in {runners, runnersCache} /\ work' \in {work, NoWork}
  BY Zenon DEF Environment, PatchStatusFails, SyncWorkflow, SyncRunners, TimerFires, Tick,
         RunnerAdvances, Crash
<1>2. runnersKept
  <2>1. CASE runners' = runners
    BY Zenon, <1>1, <2>1 DEF runnersKept
  <2>2. ASSUME NEW n \in Names, RunnerAdvances(n)
        PROVE  runnersKept
    <3>1. PICK p : /\ runners' = [runners EXCEPT ![n].phase = p]
                   /\ runners[n].phase \notin {"Succeeded", "Failed"}
      BY Zenon, <2>2 DEF RunnerAdvances
    <3> QED BY Zenon, <1>1, <3>1 DEF runnersKept, TypeOK, RunnerObjects, RunnerObject
  <2> QED BY Zenon, <2>1, <2>2
    DEF Environment, PatchStatusFails, SyncWorkflow, SyncRunners, TimerFires, Tick, Crash
<1>3. seenRunners(runners)
  BY Zenon DEF seenRunners
<1>4. settledStatus(wf) /\ settledStatus(wfCache) /\ seenRunners(runnersCache)
  BY Zenon DEF oneOutcome
<1>5. work' # NoWork =>
        /\ settledStatus(work'.base) /\ seenRunners(work'.list)
        /\ settledSteps(work'.local.steps)
        /\ settledJobs(work'.local.jobs, lookedAt')
        /\ isWorkflowTerminal(work'.local.phase) => ended
  <2> SUFFICES ASSUME work' # NoWork
               PROVE  /\ settledStatus(work'.base) /\ seenRunners(work'.list)
                      /\ settledSteps(work'.local.steps)
                      /\ settledJobs(work'.local.jobs, lookedAt')
                      /\ isWorkflowTerminal(work'.local.phase) => ended
    BY Zenon
  <2>1. work' = work /\ work # NoWork /\ lookedAt' = lookedAt
    BY Zenon, <1>1 DEF lookedAt
  <2> QED BY <2>1 DEF oneOutcome
<1> QED BY Zenon, <1>1, <1>2, <1>3, <1>4, <1>5 DEF nextOutcome

\* Every step keeps the one outcome.
LEMMA OutcomeStep ==
  TypeOK /\ JobInv /\ leavesDoneJobs /\ oneOutcome /\ [Next]_vars => oneOutcome'
<1> SUFFICES ASSUME TypeOK, JobInv, leavesDoneJobs, oneOutcome, [Next]_vars
             PROVE  oneOutcome'
  BY Zenon
<1>1. firstRunnerDecides' = firstRunnerDecides
  <2>1. shape' = shape
    BY Zenon, NextSplit, StartFrame, JobEffect, IterationFrame, EndEffect, PatchEffect
    DEF PatchStatusFails, Environment, SyncWorkflow, SyncRunners, TimerFires, Tick,
        RunnerAdvances, Crash, vars, apiVars
  <2> QED BY Zenon, <2>1 DEF firstRunnerDecides
<1>2. firstRunnerDecides => runnersKept /\ nextOutcome
  BY Zenon, NextSplit, OutcomeStart, OutcomeJob, OutcomeIteration, OutcomeEnd, OutcomePatch,
     OutcomeEnvironment
<1>3. CASE firstRunnerDecides
  BY Zenon, <1>2, <1>3, OutcomeNext
<1>4. CASE ~firstRunnerDecides
  BY <1>1, <1>4, Zenon DEF oneOutcome
<1> QED BY <1>3, <1>4

\* JobEndInv holds at the start.
LEMMA JobEndInit == Init => JobEndInv
<1> SUFFICES ASSUME Init PROVE JobEndInv BY Zenon
<1>1. /\ work = NoWork /\ wfCache = wf /\ runnersCache = runners /\ wf.phase = "none"
      /\ \A j \in Jobs : wf.jobs[j].phase = "none"
      /\ \A s \in Steps : wf.steps[s].phase = "none"
  BY Zenon DEF Init, NoStepStatus, NoJobStatus
<1>2. jobNames \subseteq Jobs /\ ~isWorkflowTerminal(wf.phase)
  BY Zenon, <1>1, InitType, ShapeType DEF isWorkflowTerminal
<1>3. settledSteps(wf.steps) /\ settledJobs(wf.jobs, wf.jobs)
  BY Zenon, <1>1, <1>2 DEF settledSteps, settledJobs
<1>4. settledStatus(wf) /\ seenRunners(runners)
  BY Zenon, <1>2, <1>3 DEF settledStatus, seenRunners
<1> QED BY Zenon, <1>1, <1>2, <1>4 DEF JobEndInv, leavesDoneJobs, freshEnds, oneOutcome

\* A step that creates a Runner finds the workflow not ended.
LEMMA StartsBeforeEnd ==
  ASSUME TypeOK, JobInv, JobEndInv, [Next]_vars, shape \notin StaleFor \/ firstRunnerDecides,
         created' # created
  PROVE  ~isWorkflowTerminal(wf.phase)
<1>1. CreateRunner
  BY Zenon, NextSplit, StartFrame, JobEffect, EndEffect, PatchEffect
  DEF Iteration, StepWithoutCall, CreateRunnerFails, RetryStep, PatchStatusFails, Environment,
      SyncWorkflow, SyncRunners, TimerFires, Tick, RunnerAdvances, Crash, vars, ghostVars
<1>2. wantsRunner /\ inStepLoop /\ ~runners[shape.runnerName[stepNow]].there
  BY <1>1 DEF CreateRunner, wantsRunner
<1>3. /\ work # NoWork /\ work.then = "jobs" /\ atJob /\ work.step # 0 /\ jobNow \in jobNames
  BY Zenon, <1>2, WalkType
<1>4. CASE shape \notin StaleFor
  <2>1. work.base = wf /\ work.base.jobs[jobNow].phase \notin DoneStepPhases
    BY <1>3, <1>4 DEF JobEndInv, freshEnds, leavesDoneJobs
  <2> QED BY Zenon, <1>3, <1>4, <2>1 DEF JobEndInv, freshEnds, allDone
<1>5. CASE firstRunnerDecides
  <2>1. ~ended
    BY <1>2, <1>5, EndedMeansStarted DEF JobEndInv
  <2> QED BY Zenon, <1>5, <2>1 DEF JobEndInv, oneOutcome, settledStatus
<1> QED BY Zenon, <1>4, <1>5

\* For every workflow with jobs, every number of failed calls and restarts: once
\* the workflow ended, no Runner is created, if caches do not lag or, with caches
\* however old, if steps have no retries and the workflow has no timeout.
THEOREM NothingStartsTheorem == Spec => NothingStartsAfterEnd
<1>1. TypeOK /\ JobInv /\ JobEndInv /\ [Next]_vars => JobEndInv'
  BY Zenon, LeavesStep, FreshEndsStep, OutcomeStep DEF JobEndInv
<1>2. TypeOK /\ JobInv /\ JobEndInv /\ [Next]_vars =>
        [shape \notin StaleFor \/ firstRunnerDecides =>
           created' = created \/ ~isWorkflowTerminal(wf.phase)]_vars
  BY StartsBeforeEnd
<1> QED BY <1>1, <1>2, JobEndInit, TypeCorrect, JobInvariant, PTL
  DEF Spec, NothingStartsAfterEnd
=============================================================================
