---------------------- MODULE FlatWorkflowFreshProofs ----------------------
(***************************************************************************)
(* Proofs about FlatWorkflow that need the counts of retries: retries are  *)
(* bounded, and the phase agrees with the steps, when passes start from    *)
(* caches that have caught up; steps for failures follow a failure; and    *)
(* no step that may run is left without a Runner.                          *)
(***************************************************************************)
EXTENDS FlatWorkflowProofs

USE DEF StepPhases, DoneStepPhases, ActiveStepPhases, WorkflowPhases, RunnerPhases

-----------------------------------------------------------------------------
(* Counts of retries *)

\* A recorded status keeps the count of retries, and is recorded.
LEMMA UpsertKeepsCount ==
  ASSUME NEW s \in StepStatuses, NEW p \in StepPhases \ {"none"}, NEW now \in Nat
  PROVE  /\ upsertStepStatus(s, p, now).phase # "none"
         /\ (s.phase = "none" => s.retryCount = 0) =>
              upsertStepStatus(s, p, now).retryCount = s.retryCount
BY DEF upsertStepStatus, StepStatuses, NoStepStatus

\* handleTimeoutFlat writes the Failed phase and keeps the counts.
LEMMA TimeoutKeepsCounts ==
  ASSUME TypeOK
  PROVE  /\ timeoutStatus.phase = "Failed"
         /\ unrecordedUntried(wfCache.steps) =>
              /\ unrecordedUntried(timeoutStatus.steps)
              /\ \A s \in Steps : timeoutStatus.steps[s].retryCount
                                    = wfCache.steps[s].retryCount
<1> DEFINE steps == [s \in Steps |->
                  IF s \in stepNames
                    THEN upsertStepStatus(wfCache.steps[s], "Failed", clock)
                    ELSE wfCache.steps[s]]
<1>1. wfCache \in WorkflowStatus /\ clock \in Nat
      /\ \A s \in Steps : wfCache.steps[s] \in StepStatuses
  BY DEF TypeOK, WorkflowStatus
<1>2. ASSUME NEW s \in Steps
      PROVE  /\ steps[s] = wfCache.steps[s]
                  \/ steps[s] = upsertStepStatus(wfCache.steps[s], "Failed", clock)
             /\ upsertStepStatus(wfCache.steps[s], "Failed", clock).phase # "none"
             /\ (wfCache.steps[s].phase = "none" => wfCache.steps[s].retryCount = 0) =>
                  upsertStepStatus(wfCache.steps[s], "Failed", clock).retryCount
                    = wfCache.steps[s].retryCount
  <2>1. "Failed" \in StepPhases \ {"none"} /\ wfCache.steps[s] \in StepStatuses
    BY <1>1
  <2>2. \/ steps[s] = wfCache.steps[s]
        \/ steps[s] = upsertStepStatus(wfCache.steps[s], "Failed", clock)
    OBVIOUS
  <2> HIDE DEF steps
  <2> QED BY <1>1, <2>1, <2>2, UpsertKeepsCount
<1>3. timeoutStatus = [wfCache EXCEPT !.phase = "Failed",
         !.completionTime = clock, !.reason = "TimedOut", !.steps = steps]
  BY DEF timeoutStatus
<1> HIDE DEF steps
<1>4. timeoutStatus.phase = "Failed" /\ timeoutStatus.steps = steps
  BY Zenon, <1>1, <1>3 DEF WorkflowStatus
<1> QED BY <1>2, <1>4 DEF unrecordedUntried

-----------------------------------------------------------------------------
(* Retries are bounded *)

\* What an iteration records for its step: a status with the same count, or
\* with one more if the step is retried and has a retry left.
LEMMA CountEffect ==
  ASSUME TypeOK, unrecordedUntried(work.local.steps),
         StepWithoutCall \/ CreateRunner \/ CreateRunnerFails \/ RetryStep
  PROVE  /\ unrecordedUntried(work'.local.steps)
         /\ \/ /\ StepWithoutCall \/ CreateRunner \/ CreateRunnerFails
               /\ work'.local.steps[stepNow].retryCount = statusNow.retryCount
            \/ /\ RetryStep /\ statusNow.retryCount < shape.maxRetries[stepNow]
               /\ work'.local.steps[stepNow].retryCount = statusNow.retryCount + 1
<1>1. /\ inStepLoop /\ work \in Work /\ stepNow \in Steps
      /\ \A t \in Steps : t # stepNow =>
              work'.local.steps[t] = work.local.steps[t]
  BY Zenon, IterationFrame
<1>2. /\ statusNow \in StepStatuses /\ clock \in Nat /\ runnerNow \in RunnerObject
      /\ statusNow = work.local.steps[stepNow]
      /\ statusNow.phase = "none" => statusNow.retryCount = 0
  BY <1>1, WalkType DEF statusNow, TypeOK, unrecordedUntried
<1>3. \A p \in StepPhases \ {"none"} :
        /\ upsertStepStatus(statusNow, p, clock) \in StepStatuses
        /\ upsertStepStatus(statusNow, p, clock).phase # "none"
        /\ upsertStepStatus(statusNow, p, clock).retryCount = statusNow.retryCount
  BY Zenon, <1>2, UpsertType, UpsertKeepsCount
<1>4. ASSUME NEW s \in StepStatuses, recordStep(s), s.phase # "none"
      PROVE  /\ unrecordedUntried(work'.local.steps)
             /\ work'.local.steps[stepNow] = s
  BY <1>1, <1>4, RecordEffect DEF unrecordedUntried
<1>5. ASSUME continueLoop
      PROVE  /\ unrecordedUntried(work'.local.steps)
             /\ work'.local.steps[stepNow] = statusNow
  <2>1. work'.local = work.local
    BY <1>1, <1>5 DEF continueLoop, Work
  <2> QED BY <1>2, <2>1
<1>6. CASE StepWithoutCall
  <2>1. ASSUME decisionNow \in {"skip", "wait"}, statusNow.phase = "none",
               recordStep([NoStepStatus EXCEPT
                 !.phase = IF decisionNow = "skip" THEN "Skipped" ELSE "Waiting"])
        PROVE  /\ unrecordedUntried(work'.local.steps)
               /\ work'.local.steps[stepNow].retryCount = statusNow.retryCount
    <3> DEFINE s == [NoStepStatus EXCEPT
                 !.phase = IF decisionNow = "skip" THEN "Skipped" ELSE "Waiting"]
    <3>1. s \in StepStatuses /\ s.phase # "none" /\ s.retryCount = 0
      BY DEF NoStepStatus, StepStatuses
    <3> HIDE DEF s
    <3>2. recordStep(s)
      BY Zenon, <2>1 DEF s
    <3> QED BY Zenon, <1>2, <1>4, <2>1, <3>1, <3>2
  <2>2. ASSUME recordStep(upsertStepStatus(statusNow,
                 runnerPhaseToStepPhase(runnerNow.phase), clock))
        PROVE  /\ unrecordedUntried(work'.local.steps)
               /\ work'.local.steps[stepNow].retryCount = statusNow.retryCount
    <3>1. runnerPhaseToStepPhase(runnerNow.phase) \in StepPhases \ {"none"}
      BY Zenon, <1>2 DEF runnerPhaseToStepPhase, RunnerObject
    <3> QED BY Zenon, <1>3, <1>4, <2>2, <3>1
  <2> QED BY Zenon, <1>5, <1>6, <2>1, <2>2 DEF StepWithoutCall
<1>7. CASE CreateRunner
  <2>1. recordStep(upsertStepStatus(statusNow, "Pending", clock))
    BY Zenon, <1>7 DEF CreateRunner
  <2> QED BY <1>3, <1>4, <1>7, <2>1
<1>8. CASE CreateRunnerFails
  BY <1>5, <1>8 DEF CreateRunnerFails
<1>9. CASE RetryStep
  <2> DEFINE p == upsertStepStatus(statusNow, "Pending", clock)
  <2>1. /\ p \in StepStatuses /\ p.phase # "none"
        /\ p.retryCount = statusNow.retryCount
    BY <1>3
  <2>2. recordStep([p EXCEPT !.retryCount = @ + 1])
    BY <1>9 DEF RetryStep
  <2> HIDE DEF p
  <2>3. /\ [p EXCEPT !.retryCount = @ + 1] \in StepStatuses
        /\ [p EXCEPT !.retryCount = @ + 1].phase # "none"
        /\ [p EXCEPT !.retryCount = @ + 1].retryCount = statusNow.retryCount + 1
    BY <2>1 DEF StepStatuses
  <2>4. statusNow.retryCount < shape.maxRetries[stepNow]
    BY <1>9 DEF RetryStep, retryNow
  <2> QED BY Zenon, <1>4, <1>9, <2>2, <2>3, <2>4
<1> QED BY Zenon, <1>6, <1>7, <1>8, <1>9

\* A fault, or none, never lowers their number.
LEMMA FaultsGrow == ASSUME TypeOK, [Next]_vars PROVE faults' \in Nat /\ faults <= faults'
<1>1. faults \in Nat /\ (fault => faults' = faults + 1)
  BY Zenon DEF TypeOK, fault
<1>2. fault \/ faults' = faults
  BY Zenon DEF Next, Controller, ReconcileReadFails, ReconcileNotFound, ReconcileRejected,
     ReconcileTimeout, ReconcileDeferred, ReconcileSteps, StepWithoutCall,
     CreateRunner, CreateRunnerFails, RetryStep, EndSteps, PatchStatus,
     PatchStatusFails, SyncWorkflow, SyncRunners, TimerFires, Tick,
     RunnerAdvances, removeRunner, UserDeletesRunner, UserDeletesWorkflow,
     RunnerCollected, Crash, vars, ghostVars
<1> QED BY <1>1, <1>2

\* The numbers that RetryInv compares.
LEMMA NumbersType ==
  ASSUME TypeOK, NEW s \in Steps
  PROVE  /\ created[s] \in Nat /\ shape.maxRetries[s] \in Nat
         /\ wf.steps[s].retryCount \in Nat /\ faults \in Nat
         /\ work # NoWork => work.local.steps[s].retryCount \in Nat
         /\ counted(s) \in Nat
<1>1. shape.maxRetries[s] \in Nat
  BY Zenon, ShapesAssumption DEF WorkflowSpecs, TypeOK
<1>2. work # NoWork => work.local.steps[s].retryCount \in Nat
  BY DEF TypeOK, Work, WorkflowStatus, StepStatuses
<1>3. wf.steps[s].retryCount \in Nat
  BY Zenon DEF TypeOK, WorkflowStatus, StepStatuses
<1> QED BY Zenon, <1>1, <1>2, <1>3 DEF TypeOK, counted

\* RetryInv holds initially.
LEMMA RetryInit == Init => RetryInv
<1> SUFFICES ASSUME Init PROVE RetryInv OBVIOUS
<1>1. TypeOK
  BY Zenon, InitType
<1>2. unrecordedUntried(wf.steps) /\ work = NoWork
  BY Zenon DEF Init, unrecordedUntried, NoStepStatus
<1>3. ASSUME NEW s \in Steps PROVE triesCovered(s)
  <2>1. /\ counted(s) = 0 /\ wf.steps[s].retryCount = 0 /\ created[s] = 0
        /\ faults = 0 /\ ~ahead(s) /\ ~runners[s].there
    BY DEF Init, counted, ahead, NoStepStatus, NoRunner
  <2> QED BY <1>1, <2>1, NumbersType DEF triesCovered
<1> QED BY <1>2, <1>3 DEF RetryInv

\* RetryInv is inductive.
LEMMA RetryInvStep == TypeOK /\ TypeOK' /\ RetryInv /\ [Next]_vars => RetryInv'
<1> SUFFICES ASSUME TypeOK, TypeOK', RetryInv, [Next]_vars,
                    shape' \notin StaleFor \cup RunnersDeletable
             PROVE  RetryInv'
  BY Zenon DEF RetryInv
<1> USE DEF apiVars, cacheVars, procVars, ghostVars
<1>0. shape' = shape
  BY Zenon, NextSplit, StartFrame
  DEF RestOfPass, Environment, StepWithoutCall, CreateRunner, CreateRunnerFails,
      RetryStep, EndSteps, PatchStatus, PatchStatusFails, SyncWorkflow, SyncRunners,
      TimerFires, Tick, RunnerAdvances, removeRunner, UserDeletesRunner,
      UserDeletesWorkflow, RunnerCollected, Crash, vars
<1>1. /\ shape' = shape /\ shape \notin StaleFor \cup RunnersDeletable
      /\ unrecordedUntried(wf.steps)
      /\ work # NoWork =>
           /\ work.base.steps = wf.steps /\ unrecordedUntried(work.local.steps)
           /\ work.then = "steps" /\ ~work.updated => work.local.steps = wf.steps
      /\ \A s \in Steps : triesCovered(s)
  BY <1>0 DEF RetryInv
<1>f. faults' \in Nat /\ faults <= faults'
  BY Zenon, FaultsGrow
<1>n. ASSUME NEW s \in Steps
      PROVE  /\ created[s] \in Nat /\ shape.maxRetries[s] \in Nat
             /\ wf.steps[s].retryCount \in Nat /\ faults \in Nat
             /\ counted(s) \in Nat
  BY Zenon, NumbersType
<1>q. ASSUME unrecordedUntried(wf'.steps),
             work' # NoWork =>
               /\ work'.base.steps = wf'.steps
               /\ unrecordedUntried(work'.local.steps)
               /\ work'.then = "steps" /\ ~work'.updated =>
                    work'.local.steps = wf'.steps,
             \A s \in Steps : triesCovered(s)'
      PROVE  RetryInv'
  BY <1>q DEF RetryInv, unrecordedUntried
<1>2. CASE StartOfPass
  <2>1. UNCHANGED <<wf, runners, created>> /\ work = NoWork
    BY Zenon, <1>2, StartFrame
  <2>2. CASE work' = NoWork
    <3>1. ASSUME NEW s \in Steps PROVE triesCovered(s)'
      BY <1>1, <1>f, <1>n, <2>1, <2>2 DEF triesCovered, counted, ahead
    <3> QED BY Zenon, <1>1, <1>q, <2>1, <2>2, <3>1
  <2>3. CASE work' # NoWork
    <3>1. /\ wf.live /\ work' \in Work /\ work'.base = wf /\ work'.list = runners
          /\ \/ work'.local.steps = wf.steps
             \/ /\ work'.then = "patch" /\ unrecordedUntried(work'.local.steps)
                /\ \A s \in Steps : work'.local.steps[s].retryCount
                                      = wf.steps[s].retryCount
      BY Zenon, <1>1, <1>2, <2>1, <2>3, StartWork, TimeoutKeepsCounts
    <3>2. ASSUME NEW s \in Steps PROVE triesCovered(s)'
      <4>1. /\ counted(s) = wf.steps[s].retryCount
            /\ counted(s)' = wf.steps[s].retryCount
        BY Zenon, <2>1, <2>3, <3>1 DEF counted
      <4>2. ahead(s)' => work'.then = "steps"
        BY Zenon DEF ahead
      <4> QED BY <1>1, <1>f, <1>n, <2>1, <3>1, <4>1, <4>2 DEF triesCovered
    <3> QED BY Zenon, <1>1, <1>q, <2>1, <3>1, <3>2
  <2> QED BY <2>2, <2>3
<1>3. CASE StepWithoutCall \/ CreateRunner \/ CreateRunnerFails \/ RetryStep
  <2>1. /\ work # NoWork /\ work' # NoWork /\ work.then = "steps"
        /\ work \in Work /\ stepNow \in Steps /\ UNCHANGED wf
        /\ work'.base = work.base /\ work'.list = work.list
        /\ work'.then = "steps"
        /\ \A t \in Steps : t # stepNow =>
             work'.local.steps[t] = work.local.steps[t]
        /\ work'.updated \/ (~work.updated /\ work'.local = work.local)
    BY Zenon, <1>3, IterationFrame DEF inStepLoop
  <2>2. /\ ahead(stepNow)
        /\ \A s \in Steps : ahead(s)' => ahead(s) /\ s # stepNow
    BY Zenon, <1>3, AheadEffect
  <2>3. /\ unrecordedUntried(work'.local.steps)
        /\ \/ /\ StepWithoutCall \/ CreateRunner \/ CreateRunnerFails
              /\ work'.local.steps[stepNow].retryCount = statusNow.retryCount
           \/ /\ RetryStep /\ statusNow.retryCount < shape.maxRetries[stepNow]
              /\ work'.local.steps[stepNow].retryCount = statusNow.retryCount + 1
    BY Zenon, <1>1, <1>3, <2>1, CountEffect
  <2>4. statusNow.retryCount = counted(stepNow)
    BY Zenon, <2>1 DEF statusNow, counted
  <2>5. ASSUME NEW s \in Steps, s # stepNow PROVE triesCovered(s)'
    <3>1. created'[s] = created[s] /\ runners'[s] = runners[s]
      BY Zenon, <1>3, <2>1, <2>5 DEF StepWithoutCall, CreateRunner, CreateRunnerFails,
         RetryStep, TypeOK, RunnerObjects
    <3>2. counted(s)' = counted(s)
      BY Zenon, <2>1, <2>5 DEF counted
    <3> QED BY <1>1, <1>f, <1>n, <2>1, <2>2, <2>5, <3>1, <3>2 DEF triesCovered
  <2>6. ASSUME NEW s, s = stepNow PROVE triesCovered(s)'
    <3>1. /\ s \in Steps /\ ahead(s) /\ ~ahead(s)'
          /\ counted(s)' = work'.local.steps[s].retryCount
          /\ counted(s) = wf.steps[s].retryCount
      BY Zenon, <1>1, <2>1, <2>2, <2>6 DEF counted, triesCovered
    <3>2. CASE StepWithoutCall \/ CreateRunnerFails
      <4>1. UNCHANGED <<runners, created>>
        BY Zenon, <3>2 DEF StepWithoutCall, CreateRunnerFails
      <4>2. counted(s)' = counted(s)
        BY Zenon, <2>3, <2>4, <2>6, <3>1, <3>2 DEF StepWithoutCall, CreateRunnerFails,
           RetryStep, wantsRunner, continueLoop
      <4> QED BY <1>1, <1>f, <1>n, <2>1, <3>1, <4>1, <4>2 DEF triesCovered
    <3>3. CASE CreateRunner
      <4>1. /\ created' = [created EXCEPT ![s] = created[s] + 1]
            /\ runners' = [runners EXCEPT ![s] = buildStepRunner(created[s] + 1)]
            /\ ~work.list[s].there
        BY Zenon, <2>6, <3>3 DEF CreateRunner, wantsRunner, runnerNow
      <4>2. created'[s] = created[s] + 1 /\ runners'[s].there
        BY Zenon, <3>1, <4>1 DEF TypeOK, RunnerObjects, buildStepRunner, NoRunner
      <4>3. created[s] <= counted(s) + faults
        BY Zenon, <1>1, <3>1, <4>1 DEF triesCovered
      <4>4. counted(s)' = counted(s)
        BY Zenon, <2>3, <2>4, <2>6, <3>1, <3>3 DEF CreateRunner, wantsRunner, RetryStep
      <4> QED BY <1>1, <1>f, <1>n, <2>1, <3>1, <4>2, <4>3, <4>4 DEF triesCovered
    <3>4. CASE RetryStep
      <4>1. created' = created
        BY Zenon, <3>4 DEF RetryStep
      <4>2. /\ counted(s)' = counted(s) + 1
            /\ counted(s) < shape.maxRetries[s]
        BY Zenon, <2>3, <2>4, <2>6, <3>1, <3>4 DEF StepWithoutCall, CreateRunner,
           CreateRunnerFails, RetryStep, wantsRunner
      <4> QED BY <1>1, <1>f, <1>n, <2>1, <3>1, <4>1, <4>2 DEF triesCovered
    <3> QED BY Zenon, <1>3, <3>2, <3>3, <3>4
  <2>7. \A s \in Steps : triesCovered(s)'
    BY Zenon, <2>5, <2>6
  <2> QED BY Zenon, <1>1, <1>q, <2>1, <2>3, <2>7
<1>4. CASE EndSteps
  <2>1. /\ work # NoWork /\ work \in Work /\ UNCHANGED <<wf, runners, created>>
        /\ work.then = "steps" /\ clock \in Nat /\ work.local \in WorkflowStatus
    BY Zenon, <1>4 DEF EndSteps, TypeOK, Work
  <2>2. withPhase(work.local).steps = work.local.steps
    BY Zenon, <2>1, WithPhaseType
  <2>3. \/ work' = NoWork /\ work.local.steps = wf.steps
        \/ /\ work' # NoWork /\ work'.base = work.base /\ work'.then = "patch"
           /\ work'.local.steps = work.local.steps
    <3>1. withPhase(work.local) \in WorkflowStatus
      BY Zenon, <2>1, WithPhaseType
    <3>2. \/ /\ work' = [work EXCEPT !.local = withPhase(work.local), !.then = "patch"]
          \/ work' = NoWork /\ ~work.updated
      BY <1>4 DEF EndSteps
    <3>3. ASSUME NEW l \in WorkflowStatus
          PROVE  /\ [work EXCEPT !.local = l, !.then = "patch"] \in Work
                 /\ [work EXCEPT !.local = l, !.then = "patch"].base = work.base
                 /\ [work EXCEPT !.local = l, !.then = "patch"].then = "patch"
                 /\ [work EXCEPT !.local = l, !.then = "patch"].local = l
      BY ZenonT(40), <2>1 DEF Work
    <3>4. CASE work' = NoWork /\ ~work.updated
      BY Zenon, <1>1, <2>1, <3>4
    <3>5. CASE work' = [work EXCEPT !.local = withPhase(work.local), !.then = "patch"]
      <4>1. /\ work' \in Work /\ work'.base = work.base
            /\ work'.then = "patch" /\ work'.local = withPhase(work.local)
        BY Zenon, <3>1, <3>3, <3>5
      <4> QED BY Zenon, <2>2, <4>1, NoWorkAssumption
    <3> QED BY Zenon, <3>2, <3>4, <3>5
  <2>4. ASSUME NEW s \in Steps PROVE triesCovered(s)'
    <3>1. counted(s)' = counted(s) /\ ~ahead(s)'
      BY Zenon, <2>1, <2>3 DEF counted, ahead
    <3> QED BY <1>1, <1>f, <1>n, <2>1, <3>1 DEF triesCovered
  <2> QED BY Zenon, <1>1, <1>q, <2>1, <2>3, <2>4
<1>5. CASE PatchStatus
  <2>1. /\ work # NoWork /\ work.then = "patch" /\ work' = NoWork /\ wf.live
        /\ wf' = mergePatch(wf, work.base, work.local)
        /\ UNCHANGED <<runners, created>>
    BY Zenon, <1>5 DEF PatchStatus
  <2>2. wf'.live /\ wf'.steps = work.local.steps
    BY Zenon, <1>1, <2>1 DEF mergePatch, merge
  <2>3. ASSUME NEW s \in Steps PROVE triesCovered(s)'
    <3>1. /\ counted(s)' = counted(s) /\ ~ahead(s)'
          /\ wf'.steps[s].retryCount = counted(s)
      BY Zenon, <2>1, <2>2 DEF counted, ahead
    <3> QED BY <1>1, <1>f, <1>n, <2>1, <3>1 DEF triesCovered
  <2> QED BY Zenon, <1>1, <1>q, <2>1, <2>2, <2>3
<1>6. CASE PatchStatusFails \/ Crash
  <2>1. /\ work' = NoWork /\ UNCHANGED <<wf, runners, created>>
        /\ work = NoWork \/ ~wf.live \/ faults' = faults + 1
    BY Zenon, <1>6 DEF PatchStatusFails, Crash, fault
  <2>2. ASSUME NEW s \in Steps PROVE triesCovered(s)'
    <3>1. counted(s)' = wf.steps[s].retryCount /\ ~ahead(s)'
      BY Zenon, <2>1 DEF counted, ahead
    <3>2. work = NoWork => counted(s) = wf.steps[s].retryCount
      BY Zenon DEF counted
    <3> QED BY <1>1, <1>f, <1>n, <2>1, <3>1, <3>2 DEF triesCovered
  <2> QED BY Zenon, <1>1, <1>q, <2>1, <2>2
<1>7. CASE Environment /\ ~Crash
  <2>1. /\ wf'.steps = wf.steps /\ UNCHANGED <<created, work>>
        /\ wf'.live => wf.live
    BY Zenon, <1>7 DEF Environment, SyncWorkflow, SyncRunners, TimerFires, Tick,
       RunnerAdvances, removeRunner, UserDeletesRunner, UserDeletesWorkflow,
       RunnerCollected, TypeOK, WorkflowStatus
  <2>2. wf'.live => \A s \in Steps : runners'[s].there = runners[s].there
    <3>1. ASSUME NEW t \in Steps, RunnerAdvances(t)
          PROVE  \A s \in Steps : runners'[s].there = runners[s].there
      BY <3>1 DEF RunnerAdvances, TypeOK, RunnerObjects, RunnerObject
    <3>2. ~UserDeletesRunner /\ (RunnerCollected => ~wf.live)
      BY Zenon, <1>1 DEF UserDeletesRunner, RunnerCollected
    <3> QED BY Zenon, <1>7, <2>1, <3>1, <3>2 DEF Environment, SyncWorkflow, SyncRunners,
        TimerFires, Tick, UserDeletesWorkflow
  <2>3. ASSUME NEW s \in Steps PROVE triesCovered(s)'
    <3>1. counted(s)' = counted(s) /\ (ahead(s)' => ahead(s))
      BY Zenon, <1>1, <2>1 DEF counted, ahead
    <3> QED BY <1>1, <1>f, <1>n, <2>1, <2>2, <3>1 DEF triesCovered
  <2> QED BY Zenon, <1>1, <1>q, <2>1, <2>3
<1>8. CASE UNCHANGED vars
  <2>1. UNCHANGED <<wf, runners, created, work>>
    BY Zenon, <1>8 DEF vars
  <2>2. ASSUME NEW s \in Steps PROVE triesCovered(s)'
    <3>1. counted(s)' = counted(s) /\ (ahead(s)' => ahead(s))
      BY Zenon, <1>1, <2>1 DEF counted, ahead
    <3> QED BY <1>1, <1>f, <1>n, <2>1, <3>1 DEF triesCovered
  <2> QED BY Zenon, <1>1, <1>q, <2>1, <2>2
<1> QED BY Zenon, <1>2, <1>3, <1>4, <1>5, <1>6, <1>7, <1>8, NextSplit DEF RestOfPass

\* RetryInv is an invariant.
LEMMA RetryInvariant == Spec => []RetryInv
BY RetryInit, RetryInvStep, TypeCorrect, PTL DEF Spec

\* A step gets one Runner, MaxRetries more and one more per fault at most, for
\* every workflow and however calls fail, when passes start from caches that
\* have caught up and no user deletes a Runner.
THEOREM RetryTheorem == Spec => []RetriesBounded
<1>1. RetryInv => RetriesBounded
  BY Zenon DEF RetryInv, RetriesBounded, triesCovered
<1> QED BY <1>1, RetryInvariant, PTL

-----------------------------------------------------------------------------
(* The phase agrees with the steps *)

\* A computed phase is Succeeded only if every step is done and none failed.
LEMMA SucceededIsDone ==
  ASSUME NEW steps, \A s \in stepNames : steps[s].phase \in StepPhases,
         computeWorkflowPhase(stepNames, steps) = "Succeeded"
  PROVE  allDone(steps)
<1> DEFINE recorded == {i \in stepNames : steps[i].phase # "none"}
<1>1. /\ recorded = stepNames
      /\ ~\E i \in recorded : steps[i].phase \in ActiveStepPhases
      /\ ~\E i \in recorded : steps[i].phase = "Failed"
  BY Zenon DEF computeWorkflowPhase
<1>2. \A i \in stepNames : steps[i].phase # "none"
  BY Zenon, <1>1
<1> HIDE DEF recorded
<1> QED BY <1>1, <1>2 DEF allDone

\* PhaseInv is inductive.
LEMMA PhaseStep == TypeOK /\ PhaseInv /\ [Next]_vars => PhaseInv'
<1> SUFFICES ASSUME TypeOK, PhaseInv, [Next]_vars, shape' \notin StaleFor
             PROVE  PhaseInv'
  BY Zenon DEF PhaseInv
<1> USE DEF apiVars, cacheVars, procVars, ghostVars
<1>0. shape' = shape
  BY Zenon, NextSplit, StartFrame
  DEF RestOfPass, Environment, StepWithoutCall, CreateRunner, CreateRunnerFails,
      RetryStep, EndSteps, PatchStatus, PatchStatusFails, SyncWorkflow, SyncRunners,
      TimerFires, Tick, RunnerAdvances, removeRunner, UserDeletesRunner,
      UserDeletesWorkflow, RunnerCollected, Crash, vars
<1>1. /\ shape' = shape /\ shape \notin StaleFor /\ stepNames' = stepNames
      /\ wf.phase = "Succeeded" => allDone(wf.steps)
      /\ work # NoWork =>
           /\ work.base.phase = wf.phase /\ work.base.steps = wf.steps
           /\ work.then = "patch" /\ work.local.phase = "Succeeded" =>
                allDone(work.local.steps)
  BY Zenon, <1>0 DEF PhaseInv, SuccessMeansAllDone, allDone, stepNames
<1>q. ASSUME wf'.phase = "Succeeded" => allDone(wf'.steps),
             work' # NoWork =>
               /\ work'.base.phase = wf'.phase /\ work'.base.steps = wf'.steps
               /\ work'.then = "patch" /\ work'.local.phase = "Succeeded" =>
                    allDone(work'.local.steps)
      PROVE  PhaseInv'
  BY Zenon, <1>q, <1>1 DEF PhaseInv, SuccessMeansAllDone, allDone
<1>2. CASE StartOfPass
  <2>1. UNCHANGED wf /\ work = NoWork
    BY Zenon, <1>2, StartFrame
  <2>2. CASE work' # NoWork
    <3>1. /\ work'.base = wf
          /\ \/ work'.local.phase = wf.phase /\ work'.local.steps = wf.steps
             \/ work'.local.phase = "Failed"
             \/ work'.then = "steps"
      BY Zenon, <1>1, <1>2, <2>1, <2>2, StartWork, TimeoutKeepsCounts
    <3> QED BY Zenon, <1>1, <1>q, <2>1, <3>1
  <2> QED BY Zenon, <1>1, <1>q, <2>1, <2>2
<1>3. CASE StepWithoutCall \/ CreateRunner \/ CreateRunnerFails \/ RetryStep
  <2>1. /\ UNCHANGED wf /\ work # NoWork
        /\ work'.base = work.base /\ work'.then = "steps"
    BY Zenon, <1>3, IterationFrame DEF inStepLoop
  <2> QED BY Zenon, <1>1, <1>q, <2>1
<1>4. CASE EndSteps
  <2>1. /\ work # NoWork /\ work \in Work /\ clock \in Nat /\ UNCHANGED wf
        /\ work.local \in WorkflowStatus
    BY Zenon, <1>4 DEF EndSteps, TypeOK, Work
  <2>2. \/ work' = NoWork
        \/ work'.base = work.base /\ work'.local = withPhase(work.local)
    BY Zenon, <1>4, <2>1 DEF EndSteps, Work
  <2>3. /\ withPhase(work.local).steps = work.local.steps
        /\ withPhase(work.local).phase
             = computeWorkflowPhase(stepNames, work.local.steps)
    BY Zenon, <2>1, WithPhaseType DEF withPhase, WorkflowStatus
  <2>4. stepNames \subseteq Steps
    BY ShapesAssumption DEF stepNames, WorkflowSpecs, TypeOK
  <2>5. \A s \in stepNames : work.local.steps[s].phase \in StepPhases
    BY Zenon, <2>1, <2>4 DEF WorkflowStatus, StepStatuses
  <2>6. withPhase(work.local).phase = "Succeeded" => allDone(work.local.steps)
    BY Zenon, <2>3, <2>5, SucceededIsDone
  <2> QED BY Zenon, <1>1, <1>q, <2>1, <2>2, <2>3, <2>6
<1>5. CASE PatchStatus
  <2>1. work # NoWork /\ work.then = "patch" /\ work' = NoWork
        /\ wf' = mergePatch(wf, work.base, work.local)
    BY Zenon, <1>5 DEF PatchStatus
  <2>2. wf'.phase = work.local.phase /\ wf'.steps = work.local.steps
    BY Zenon, <1>1, <2>1 DEF mergePatch, merge
  <2> QED BY Zenon, <1>1, <1>q, <2>1, <2>2
<1>6. CASE PatchStatusFails
  BY Zenon, <1>1, <1>6, <1>q DEF PatchStatusFails
<1>7. CASE Environment
  <2>1. /\ wf'.phase = wf.phase /\ wf'.steps = wf.steps
        /\ work' = work \/ work' = NoWork
    BY Zenon, <1>7 DEF Environment, SyncWorkflow, SyncRunners, TimerFires, Tick,
       RunnerAdvances, removeRunner, UserDeletesRunner, UserDeletesWorkflow,
       RunnerCollected, Crash, TypeOK, WorkflowStatus
  <2> QED BY Zenon, <1>1, <1>q, <2>1
<1>8. CASE UNCHANGED vars
  BY Zenon, <1>1, <1>8, <1>q DEF vars
<1> QED BY Zenon, <1>2, <1>3, <1>4, <1>5, <1>6, <1>7, <1>8, NextSplit DEF RestOfPass

\* A workflow that is Succeeded has only steps that are Succeeded or Skipped,
\* for every workflow, whatever calls fail, when passes start from caches that
\* have caught up.
THEOREM SuccessTheorem == Spec => []SuccessMeansAllDone
<1>1. Init => PhaseInv
  BY DEF Init, PhaseInv, SuccessMeansAllDone
<1>2. PhaseInv => SuccessMeansAllDone
  BY DEF PhaseInv, SuccessMeansAllDone
<1> QED BY <1>1, <1>2, PhaseStep, TypeCorrect, PTL DEF Spec

-----------------------------------------------------------------------------
(* A workflow that ended stays ended *)

\* A step that is skipped is skipped however the steps that are not done go on.
LEMMA SkipStays ==
  ASSUME NEW deps, NEW when, NEW old, NEW new,
         evaluateStep(deps, when, old) = "skip",
         \A d \in deps : old[d].phase \in DoneStepPhases => new[d] = old[d]
  PROVE  evaluateStep(deps, when, new) = "skip"
BY Zenon DEF evaluateStep

\* An iteration leaves a step that is done as it is, and what it makes of
\* another one is closed as well.
LEMMA ClosedIteration ==
  ASSUME TypeOK, StepWithoutCall \/ CreateRunner \/ CreateRunnerFails \/ RetryStep,
         closed(work.local.steps),
         work.list[stepNow].there = runners[stepNow].there
  PROVE  /\ statusNow.phase \in DoneStepPhases =>
              work'.local = work.local /\ runners' = runners
         /\ closed(work.local.steps)'
         /\ \A t \in Steps : t # stepNow => runners'[t] = runners[t]
<1>1. /\ stepNow \in Steps /\ shape' = shape /\ work \in Work
      /\ \A t \in Steps : t # stepNow => work'.local.steps[t] = work.local.steps[t]
  BY Zenon, IterationFrame
<1>2. /\ statusNow = work.local.steps[stepNow] /\ statusNow \in StepStatuses
      /\ runnerNow = work.list[stepNow] /\ runnerNow \in RunnerObject /\ clock \in Nat
  BY <1>1, WalkType, IterationFrame DEF statusNow, runnerNow, TypeOK
<1>3. /\ statusNow.phase \in {"Succeeded", "Failed"} => stepClosed
      /\ statusNow.phase = "Skipped" => decisionNow = "skip"
  BY Zenon, <1>1, <1>2 DEF closed, stepClosed, decisionNow
<1>4. statusNow.phase \in DoneStepPhases => StepKept
  BY Zenon, <1>3, StepEffect
  DEF StepKept, StepMarked, StepCopied, StepCreated, StepRetried, mayRun
<1>5. statusNow.phase \in DoneStepPhases =>
        work'.local = work.local /\ runners' = runners
  BY Zenon, <1>4 DEF StepKept
<1>6. \A t \in Steps : t # stepNow => runners'[t] = runners[t]
  BY <1>1, StepEffect DEF StepKept, StepMarked, StepCopied, StepCreated, StepRetried,
     TypeOK, RunnerObjects
<1>7. \/ work'.local = work.local
      \/ newStatus.phase \notin DoneStepPhases
      \/ newStatus.phase = "Skipped" /\ decisionNow = "skip"
      \/ runnerNow.there /\ runners' = runners /\ newStatus.phase # "Skipped"
  <2>1. \A p \in StepPhases : upsertStepStatus(statusNow, p, clock).phase = p
    BY Zenon, <1>2 DEF upsertStepStatus, StepStatuses, NoStepStatus
  <2>2. StepKept => work'.local = work.local
    BY DEF StepKept
  <2>3. StepMarked => \/ newStatus.phase \notin DoneStepPhases
                      \/ newStatus.phase = "Skipped" /\ decisionNow = "skip"
    BY Zenon DEF StepMarked, NoStepStatus
  <2>4. StepCopied => /\ runnerNow.there /\ runners' = runners
                      /\ newStatus.phase # "Skipped"
    BY <1>2, <2>1 DEF StepCopied, runnerPhaseToStepPhase, RunnerObject
  <2>5. StepCreated => newStatus.phase \notin DoneStepPhases
    BY Zenon, <2>1 DEF StepCreated
  <2>6. StepRetried => newStatus.phase \notin DoneStepPhases
    <3> DEFINE p == upsertStepStatus(statusNow, "Pending", clock)
    <3>1. p \in StepStatuses /\ p.phase = "Pending"
      BY Zenon, <1>2, <2>1, UpsertType
    <3> HIDE DEF p
    <3>2. [p EXCEPT !.retryCount = @ + 1].phase = "Pending"
      BY Zenon, <3>1 DEF StepStatuses
    <3> QED BY Zenon, <3>2 DEF StepRetried, p
  <2> QED BY Zenon, <2>2, <2>3, <2>4, <2>5, <2>6, StepEffect
<1>8. ASSUME NEW s \in Steps
      PROVE  /\ work'.local.steps[s].phase \in {"Succeeded", "Failed"} =>
                  runners'[s].there
             /\ work'.local.steps[s].phase = "Skipped" =>
                  evaluateStep(shape.deps[s], shape.when[s], work'.local.steps) = "skip"
  <2>1. shape.deps[s] \subseteq Steps
    BY ShapesAssumption DEF WorkflowSpecs, TypeOK
  <2>2. \A d \in shape.deps[s] : work.local.steps[d].phase \in DoneStepPhases =>
          work'.local.steps[d] = work.local.steps[d]
    BY Zenon, <1>1, <1>2, <1>5, <2>1
  <2>3. evaluateStep(shape.deps[s], shape.when[s], work.local.steps) = "skip" =>
          evaluateStep(shape.deps[s], shape.when[s], work'.local.steps) = "skip"
    BY Zenon, <2>2, SkipStays
  <2>4. CASE s # stepNow
    BY <1>1, <1>6, <2>3, <2>4 DEF closed
  <2>5. CASE s = stepNow /\ work'.local = work.local
    <3>1. statusNow.phase \in {"Succeeded", "Failed"} => runners' = runners
      BY Zenon, <1>4 DEF StepKept
    <3> QED BY Zenon, <1>2, <2>3, <2>5, <3>1 DEF closed
  <2>6. CASE s = stepNow /\ work'.local # work.local
    BY Zenon, <1>2, <1>7, <2>3, <2>6 DEF closed, newStatus, decisionNow
  <2> QED BY Zenon, <2>4, <2>5, <2>6
<1>9. closed(work.local.steps)'
  BY Zenon, <1>1, <1>8 DEF closed
<1> QED BY Zenon, <1>5, <1>6, <1>9

\* EndInv is inductive.
LEMMA EndStep == TypeOK /\ TypeOK' /\ EndInv /\ [Next]_vars => EndInv'
<1> DEFINE scope == /\ shape \notin StaleFor \cup RunnersDeletable
                    /\ shape.timeout = 0 /\ wf.live
<1> SUFFICES ASSUME TypeOK, TypeOK', EndInv, [Next]_vars, scope'
             PROVE  EndInv'
  BY DEF EndInv
<1>0. shape' = shape /\ stepNames' = stepNames
  BY ShapeFrame DEF stepNames
<1>l. wf.live
  <2>1. CASE StartOfPass
    BY Zenon, <2>1, StartFrame
  <2>2. CASE RestOfPass
    BY <2>2, IterationFrame, EndEffect
    DEF RestOfPass, PatchStatus, PatchStatusFails, apiVars
  <2>3. CASE Environment
    BY <2>3, EnvironmentFrame
  <2> QED BY <2>1, <2>2, <2>3, NextSplit DEF vars, apiVars
<1>s. scope
  BY Zenon, <1>0, <1>l
<1> HIDE DEF scope
<1>1. /\ isWorkflowTerminal(wf.phase) => ended(wf.steps)
      /\ closed(wf.steps)
      /\ work # NoWork =>
           /\ work.base.phase = wf.phase /\ work.base.steps = wf.steps
           /\ closed(work.local.steps)
           /\ work.then = "steps" => shape.order # <<>>
           /\ isWorkflowTerminal(wf.phase) =>
                /\ work.local.steps = wf.steps
                /\ work.then = "patch" => isWorkflowTerminal(work.local.phase)
           /\ work.then = "patch" /\ isWorkflowTerminal(work.local.phase) =>
                ended(work.local.steps)
           /\ \A s \in Steps : ahead(s) =>
                /\ work.local.steps[s] = wf.steps[s]
                /\ work.list[s].there = runners[s].there
  BY Zenon, <1>s DEF EndInv, scope
<1>q. ASSUME isWorkflowTerminal(wf'.phase) => ended(wf'.steps),
             closed(wf.steps)',
             work' # NoWork =>
               /\ work'.base.phase = wf'.phase /\ work'.base.steps = wf'.steps
               /\ closed(work.local.steps)'
               /\ work'.then = "steps" => shape.order # <<>>
               /\ isWorkflowTerminal(wf'.phase) =>
                    /\ work'.local.steps = wf'.steps
                    /\ work'.then = "patch" => isWorkflowTerminal(work'.local.phase)
               /\ work'.then = "patch" /\ isWorkflowTerminal(work'.local.phase) =>
                    ended(work'.local.steps)
               /\ \A s \in Steps : ahead(s)' =>
                    /\ work'.local.steps[s] = wf'.steps[s]
                    /\ work'.list[s].there = runners'[s].there
      PROVE  EndInv'
  BY Zenon, <1>0, <1>q DEF EndInv, ended
<1>2. CASE StartOfPass
  <2>1. UNCHANGED <<wf, runners>> /\ work = NoWork
    BY Zenon, <1>2, StartFrame
  <2>2. closed(wf.steps)'
    BY Zenon, <1>0, <1>1, <2>1 DEF closed
  <2>3. CASE work' # NoWork
    <3>1. /\ work'.base = wf /\ work'.list = runners /\ work'.local.steps = wf.steps
          /\ \/ work'.then = "patch" /\ work'.local.phase = wf.phase
             \/ work'.then = "steps" /\ shape.order # <<>>
      BY Zenon, <1>2, <1>s, <2>1, <2>3, StartWork DEF timedOut, rejected, scope
    <3>2. closed(work.local.steps)'
      BY <2>1, <2>2, <3>1 DEF closed
    <3> QED BY <1>1, <1>q, <2>1, <2>2, <3>1, <3>2
  <2> QED BY Zenon, <1>1, <1>q, <2>1, <2>2, <2>3
<1>3. CASE StepWithoutCall \/ CreateRunner \/ CreateRunnerFails \/ RetryStep
  <2>1. /\ wf' = wf /\ work # NoWork /\ work' # NoWork
        /\ \A t \in Steps : t # stepNow =>
             work'.local.steps[t] = work.local.steps[t]
        /\ stepNow \in Steps /\ stepNow \in stepNames
        /\ work'.base = work.base /\ work'.list = work.list
        /\ work.then = "steps" /\ work'.then = "steps"
    BY Zenon, <1>3, IterationFrame, StepNowIsNamed DEF inStepLoop
  <2>2. ahead(stepNow) /\ \A s \in Steps : ahead(s)' => ahead(s) /\ s # stepNow
    BY Zenon, <1>3, AheadEffect
  <2>3. /\ statusNow.phase \in DoneStepPhases =>
             work'.local = work.local /\ runners' = runners
        /\ closed(work.local.steps)'
        /\ \A t \in Steps : t # stepNow => runners'[t] = runners[t]
    BY Zenon, <1>1, <1>3, <2>1, <2>2, ClosedIteration
  <2>4. isWorkflowTerminal(wf.phase) => work'.local.steps = wf.steps
    BY Zenon, <1>1, <2>1, <2>3 DEF ended, statusNow
  <2>5. closed(wf.steps)'
    <3>1. wf.steps[stepNow].phase \in {"Succeeded", "Failed"} => runners'[stepNow].there
      BY Zenon, <1>1, <2>1, <2>2, <2>3 DEF closed, statusNow
    <3> QED BY Zenon, <1>0, <1>1, <2>1, <2>3, <3>1 DEF closed
  <2> QED BY Zenon, <1>1, <1>q, <2>1, <2>2, <2>3, <2>4, <2>5
<1>4. CASE EndSteps
  <2>1. /\ work # NoWork /\ work \in Work /\ UNCHANGED <<wf, runners>>
        /\ work.then = "steps"
        /\ \/ work' = NoWork
           \/ /\ work' # NoWork /\ work'.base = work.base /\ work'.then = "patch"
              /\ work'.local.steps = work.local.steps
              /\ work'.local.phase
                   = computeWorkflowPhase(stepNames, work.local.steps)
    BY Zenon, <1>4, EndEffect
  <2>2. closed(wf.steps)' /\ (work' # NoWork => closed(work.local.steps)')
    BY Zenon, <1>0, <1>1, <2>1 DEF closed
  <2>3. isWorkflowTerminal(computeWorkflowPhase(stepNames, work.local.steps)) <=>
          ended(work.local.steps)
    <3>1. stepNames \subseteq Steps /\ stepNames # {}
      BY Zenon, <1>1, <2>1, NamesOfOrder
    <3>2. \A s \in stepNames : work.local.steps[s].phase \in StepPhases
      BY Zenon, <2>1, <3>1 DEF Work, WorkflowStatus, StepStatuses
    <3> QED BY Zenon, <3>1, <3>2, TerminalIsEnded
  <2> QED BY Zenon, <1>1, <1>q, <2>1, <2>2, <2>3 DEF ahead
<1>5. CASE PatchStatus
  <2>1. /\ work # NoWork /\ work.then = "patch" /\ work' = NoWork
        /\ wf' = mergePatch(wf, work.base, work.local) /\ runners' = runners
    BY Zenon, <1>5 DEF PatchStatus
  <2>2. wf'.phase = work.local.phase /\ wf'.steps = work.local.steps
    BY Zenon, <1>1, <2>1 DEF mergePatch, merge
  <2>3. closed(wf.steps)'
    BY Zenon, <1>0, <1>1, <2>1, <2>2 DEF closed
  <2> QED BY Zenon, <1>1, <1>q, <2>1, <2>2, <2>3
<1>6. CASE PatchStatusFails
  <2>1. work' = NoWork /\ UNCHANGED <<wf, runners>>
    BY Zenon, <1>6 DEF PatchStatusFails, apiVars
  <2>2. closed(wf.steps)'
    BY Zenon, <1>0, <1>1, <2>1 DEF closed
  <2> QED BY Zenon, <1>1, <1>q, <2>1, <2>2
<1>7. CASE Environment
  <2>1. /\ wf'.phase = wf.phase /\ wf'.steps = wf.steps
        /\ work' = work \/ work' = NoWork
    BY Zenon, <1>7, EnvironmentFrame
  <2>2. \A s \in Steps : runners'[s].there = runners[s].there
    BY Zenon, <1>7, <1>s, EnvironmentKeeps DEF scope
  <2>3. closed(wf.steps)' /\ (work' # NoWork => closed(work.local.steps)')
    BY Zenon, <1>0, <1>1, <2>1, <2>2 DEF closed
  <2>4. \A s \in Steps : ahead(s)' => ahead(s)
    BY Zenon, <1>0, <2>1 DEF ahead
  <2> QED BY Zenon, <1>1, <1>q, <2>1, <2>2, <2>3, <2>4
<1>8. CASE UNCHANGED vars
  <2>1. UNCHANGED <<wf, runners, work>>
    BY Zenon, <1>8 DEF vars, apiVars, procVars
  <2>2. closed(wf.steps)' /\ (work' # NoWork => closed(work.local.steps)')
    BY Zenon, <1>0, <1>1, <2>1 DEF closed
  <2>3. \A s \in Steps : ahead(s)' => ahead(s)
    BY <1>0, <2>1 DEF ahead
  <2> QED BY Zenon, <1>1, <1>q, <2>1, <2>2, <2>3
<1> QED BY <1>2, <1>3, <1>4, <1>5, <1>6, <1>7, <1>8, NextSplit DEF RestOfPass

\* A workflow that ended stays ended, for every workflow without a timeout,
\* whatever calls fail, when passes start from caches that have caught up and
\* no user deletes a Runner.
THEOREM EndedTheorem == Spec => EndedStaysEnded
<1>1. Init => EndInv
  BY DEF Init, EndInv, closed, isWorkflowTerminal, NoStepStatus
<1>2. TypeOK /\ EndInv /\ [Next]_vars =>
        [/\ shape \notin StaleFor \cup RunnersDeletable /\ shape.timeout = 0
         /\ isWorkflowTerminal(wf.phase)
         => isWorkflowTerminal(wf'.phase)]_vars
  <2> SUFFICES ASSUME TypeOK, EndInv, [Next]_vars,
                      shape \notin StaleFor \cup RunnersDeletable, shape.timeout = 0,
                      isWorkflowTerminal(wf.phase)
               PROVE  isWorkflowTerminal(wf'.phase)
    OBVIOUS
  <2>1. CASE StartOfPass
    BY Zenon, <2>1, StartFrame
  <2>2. CASE PatchStatus
    <3>1. /\ work # NoWork /\ work.then = "patch" /\ wf.live
          /\ wf' = mergePatch(wf, work.base, work.local)
      BY Zenon, <2>2 DEF PatchStatus
    <3>2. wf'.phase \in {wf.phase, work.local.phase}
      BY Zenon, <3>1 DEF mergePatch, merge
    <3> QED BY Zenon, <3>1, <3>2 DEF EndInv
  <2>3. CASE RestOfPass /\ ~PatchStatus
    BY <2>3, IterationFrame, EndEffect DEF RestOfPass, PatchStatusFails, apiVars
  <2>4. CASE Environment
    BY <2>4, EnvironmentFrame
  <2> QED BY Zenon, <2>1, <2>2, <2>3, <2>4, NextSplit DEF vars, apiVars
<1> QED BY <1>1, <1>2, EndStep, TypeCorrect, PTL DEF Spec, EndedStaysEnded
-----------------------------------------------------------------------------
(* What becomes of a step *)

\* What steps shows as done is what became of the steps, and it lasts: a Runner
\* that failed is out of retries, and a step that is skipped has no Runner.
borneOut(steps) ==
  \A s \in Steps :
    /\ steps[s].phase \in {"Succeeded", "Failed"} =>
         runners[s].there /\ runners[s].phase = steps[s].phase
    /\ steps[s].phase = "Failed" =>
         wf.steps[s].retryCount >= shape.maxRetries[s]
    /\ steps[s].phase = "Skipped" =>
         ~runners[s].there /\ evaluateStep(shape.deps[s], shape.when[s], steps) = "skip"

\* Some statuses that are borne out let step s run.
founded(s) ==
  \E steps \in [Steps -> StepStatuses] : borneOut(steps) /\ runs(s, steps)

\* What makes FailureStepsFollowFailure inductive: the statuses, however old,
\* agree on what became of the steps they show as done, so that a step that runs
\* by one of them is not skipped by another.
FateInv ==
  FatesLast =>
    /\ \A s \in succeeded : runners[s].there /\ runners[s].phase = "Succeeded"
    /\ borneOut(wf.steps) /\ borneOut(wfCache.steps)
    /\ work # NoWork => borneOut(work.local.steps)
    /\ \A s \in Steps :
         /\ runners[s].there => founded(s)
         /\ shape \in StaleFor /\ runnersCache[s].there => runners[s].there
         /\ ahead(s) /\ work.list[s].there => runners[s].there

\* Statuses that are borne out agree on the steps they show as done.
LEMMA FatesAgree ==
  ASSUME TypeOK, NEW old, NEW new, borneOut(old), borneOut(new), NEW s \in Steps,
         runs(s, old), evaluateStep(shape.deps[s], shape.when[s], new) = "skip"
  PROVE  FALSE
<1>1. shape.deps[s] \subseteq Steps
  BY ShapesAssumption DEF WorkflowSpecs, TypeOK
<1>2. \A d \in shape.deps[s] : /\ old[d].phase \in DoneStepPhases
                               /\ new[d].phase \in DoneStepPhases
  BY DEF runs, evaluateStep
<1>3. \A d \in shape.deps[s] : old[d].phase = new[d].phase
  BY <1>1, <1>2 DEF borneOut
<1> QED BY Zenon, <1>3 DEF runs, evaluateStep

\* A step that is out of retries stays so.
LEMMA CountsStay ==
  ASSUME TypeOK, TypeOK', [Next]_vars, FatesLast, RetryInv, NEW s \in Steps,
         wf.steps[s].retryCount >= shape.maxRetries[s]
  PROVE  wf'.steps[s].retryCount >= shape.maxRetries[s]
<1>0. wf'.steps[s].retryCount \in Nat
  BY Zenon DEF TypeOK, WorkflowStatus, StepStatuses
<1>1. /\ wf.steps[s].retryCount \in Nat /\ wf'.steps[s].retryCount \in Nat
      /\ shape.maxRetries[s] \in Nat
      /\ work # NoWork => work.local.steps[s].retryCount \in Nat
  BY Zenon, <1>0, NumbersType
<1>2. CASE shape \in StaleFor
  BY <1>1, <1>2 DEF FatesLast
<1>3. CASE shape \notin StaleFor
  <2>1. /\ work # NoWork => work.base.steps = wf.steps
        /\ wf.steps[s].retryCount <= counted(s)
    BY <1>3 DEF RetryInv, triesCovered, FatesLast
  <2>2. wf'.steps = wf.steps \/ (work # NoWork /\ wf'.steps = work.local.steps)
    <3>1. CASE PatchStatus
      BY Zenon, <3>1 DEF PatchStatus, mergePatch, merge
    <3>2. CASE StartOfPass
      BY Zenon, <3>2, StartFrame
    <3>3. CASE RestOfPass /\ ~PatchStatus
      BY Zenon, <3>3, IterationFrame, EndEffect DEF RestOfPass, PatchStatusFails, apiVars
    <3>4. CASE Environment
      BY Zenon, <3>4, EnvironmentFrame
    <3> QED BY Zenon, <3>1, <3>2, <3>3, <3>4, NextSplit DEF vars, apiVars
  <2> QED BY <1>1, <2>1, <2>2 DEF counted
<1> QED BY <1>2, <1>3

\* The step that the walk has come to: the count of its retries is the one in
\* the API server, if it matters, and its Runner is the one the walk has listed.
LEMMA FateNow ==
  ASSUME TypeOK, FatesLast, FateInv, RetryInv, WaitInv,
         StepWithoutCall \/ CreateRunner \/ CreateRunnerFails \/ RetryStep
  PROVE  /\ retryNow => ~(wf.steps[stepNow].retryCount >= shape.maxRetries[stepNow])
         /\ runnerPhaseToStepPhase(runnerNow.phase) = "Failed" /\ ~retryNow =>
              wf.steps[stepNow].retryCount >= shape.maxRetries[stepNow]
         /\ retryNow => shape \notin StaleFor
         /\ runnerNow.there => runners[stepNow].there
         /\ runnerNow.there /\ runnerNow.phase \in {"Succeeded", "Failed"} =>
              runners[stepNow].phase = runnerNow.phase
<1>1. /\ stepNow \in Steps /\ work # NoWork /\ work \in Work /\ ahead(stepNow)
      /\ runnerNow = work.list[stepNow] /\ statusNow = work.local.steps[stepNow]
  BY Zenon, IterationFrame, AheadEffect DEF inStepLoop, runnerNow, statusNow
<1>2. /\ wf.steps[stepNow].retryCount \in Nat /\ shape.maxRetries[stepNow] \in Nat
      /\ statusNow.retryCount \in Nat
  BY Zenon, <1>1, NumbersType
<1>3. runnerNow.there => runners[stepNow].there
  BY Zenon, <1>1 DEF FateInv
<1>4. earlier(runnerNow, runners[stepNow])
  BY <1>1 DEF WaitInv, startsCompleted, FatesLast
<1>5. runnerNow.there /\ runnerNow.phase \in {"Succeeded", "Failed"} =>
        runners[stepNow].phase = runnerNow.phase
  BY <1>3, <1>4 DEF earlier
<1>6. CASE shape \in StaleFor
  <2>1. shape.maxRetries[stepNow] = 0
    BY <1>1, <1>6 DEF FatesLast
  <2> QED BY <1>2, <1>3, <1>5, <2>1 DEF retryNow
<1>7. CASE shape \notin StaleFor
  <2>1. statusNow = wf.steps[stepNow]
    BY Zenon, <1>1, <1>7 DEF RetryInv, triesCovered, FatesLast
  <2> QED BY <1>2, <1>3, <1>5, <1>7, <2>1 DEF retryNow
<1> QED BY <1>6, <1>7

\* What became of a step lasts.
LEMMA FateLasts ==
  ASSUME TypeOK, TypeOK', [Next]_vars, FatesLast, FateInv, RetryInv, WaitInv,
         NEW s \in Steps
  PROVE  /\ runners[s].there /\ runners[s].phase = "Succeeded" =>
              runners'[s].there /\ runners'[s].phase = "Succeeded"
         /\ /\ runners[s].there /\ runners[s].phase = "Failed"
            /\ wf.steps[s].retryCount >= shape.maxRetries[s]
            => runners'[s].there /\ runners'[s].phase = "Failed"
         /\ shape \in StaleFor /\ runners[s].there => runners'[s].there
         /\ \A steps : /\ borneOut(steps) /\ ~runners[s].there
                       /\ evaluateStep(shape.deps[s], shape.when[s], steps) = "skip"
                       => ~runners'[s].there
<1>1. CASE runners'[s] = runners[s]
  BY <1>1
<1>2. CASE Advance(runners[s], runners'[s])
  BY <1>2 DEF Advance
<1>3. CASE runners'[s] = removed(runners[s])
  <2>1. ~runners'[s].there
    BY <1>3 DEF removed, NoRunner
  <2>2. CASE RetryStep /\ s = stepNow
    <3>1. retryNow /\ runnerNow.there /\ runnerNow.phase = "Failed"
      BY <2>2 DEF RetryStep, retryNow, runnerPhaseToStepPhase
    <3> QED BY Zenon, <2>1, <2>2, <3>1, FateNow
  <2>3. CASE ~(RetryStep /\ s = stepNow)
    <3>0. buildStepRunner(created[s] + 1).there /\ shape \notin RunnersDeletable /\ wf.live
      BY Zenon DEF buildStepRunner, NoRunner, FatesLast
    <3>1. \/ runners'[s] = runners[s]
          \/ Advance(runners[s], runners'[s])
          \/ runners'[s].there
      BY Zenon, <2>3, <3>0, RunnerMoves
    <3> QED BY Zenon, <1>1, <1>2, <2>1, <3>1
  <2> QED BY <2>2, <2>3
<1>4. CASE CreateRunner /\ s = stepNow /\ ~runners[s].there
  <2>1. work # NoWork /\ runs(s, work.local.steps)
    BY Zenon, <1>4 DEF CreateRunner, wantsRunner, inStepLoop, decisionNow, runs
  <2>2. borneOut(work.local.steps)
    BY Zenon, <2>1 DEF FateInv
  <2> QED BY Zenon, <1>4, <2>1, <2>2, FatesAgree
<1> QED BY Zenon, <1>1, <1>2, <1>3, <1>4, RunnerMoves

\* Statuses are still borne out after the step.
stillBorneOut(steps) ==
  \A s \in Steps :
    /\ steps[s].phase \in {"Succeeded", "Failed"} =>
         runners'[s].there /\ runners'[s].phase = steps[s].phase
    /\ steps[s].phase = "Failed" =>
         wf'.steps[s].retryCount >= shape.maxRetries[s]
    /\ steps[s].phase = "Skipped" =>
         ~runners'[s].there /\ evaluateStep(shape.deps[s], shape.when[s], steps) = "skip"

\* Statuses that are borne out stay so.
LEMMA BorneOutLasts ==
  ASSUME TypeOK, TypeOK', [Next]_vars, FatesLast, FateInv, RetryInv, WaitInv,
         NEW steps, borneOut(steps)
  PROVE  stillBorneOut(steps)
<1> SUFFICES ASSUME NEW s \in Steps
             PROVE  /\ steps[s].phase \in {"Succeeded", "Failed"} =>
                         runners'[s].there /\ runners'[s].phase = steps[s].phase
                    /\ steps[s].phase = "Failed" =>
                         wf'.steps[s].retryCount >= shape.maxRetries[s]
                    /\ steps[s].phase = "Skipped" =>
                         /\ ~runners'[s].there
                         /\ evaluateStep(shape.deps[s], shape.when[s], steps) = "skip"
  BY Zenon DEF stillBorneOut
<1>1. /\ steps[s].phase \in {"Succeeded", "Failed"} =>
           runners[s].there /\ runners[s].phase = steps[s].phase
      /\ steps[s].phase = "Failed" => wf.steps[s].retryCount >= shape.maxRetries[s]
      /\ steps[s].phase = "Skipped" =>
           ~runners[s].there /\ evaluateStep(shape.deps[s], shape.when[s], steps) = "skip"
  BY Zenon DEF borneOut
<1> QED BY Zenon, <1>1, FateLasts, CountsStay

\* An iteration leaves a step that is done as it is, and what it makes of
\* another one is borne out as well.
LEMMA FateIteration ==
  ASSUME TypeOK, TypeOK', [Next]_vars, FatesLast, FateInv, RetryInv, WaitInv,
         StepWithoutCall \/ CreateRunner \/ CreateRunnerFails \/ RetryStep
  PROVE  stillBorneOut(work'.local.steps)
<1> DEFINE steps == work.local.steps
           new == work'.local.steps
<1>1. /\ stepNow \in Steps /\ work # NoWork /\ work \in Work /\ wf' = wf
      /\ \A t \in Steps : t # stepNow => new[t] = steps[t]
  BY Zenon, IterationFrame DEF inStepLoop
<1>2. /\ statusNow = steps[stepNow] /\ statusNow \in StepStatuses
      /\ runnerNow \in RunnerObject /\ clock \in Nat
  BY <1>1, WalkType, IterationFrame DEF statusNow, runnerNow, TypeOK
<1>3. borneOut(steps) /\ stillBorneOut(steps)
  BY Zenon, <1>1, BorneOutLasts DEF FateInv
<1>4. statusNow.phase \in DoneStepPhases => new = steps
  <2>1. /\ statusNow.phase \in {"Succeeded", "Failed"} => runners[stepNow].there
        /\ statusNow.phase = "Skipped" => decisionNow = "skip"
    BY Zenon, <1>1, <1>2, <1>3 DEF borneOut, decisionNow
  <2>2. statusNow.phase \in DoneStepPhases /\ runnerNow.there => stepClosed
    BY Zenon DEF stepClosed
  <2>3. statusNow.phase \in DoneStepPhases => StepKept
    BY Zenon, <2>1, <2>2, StepEffect
    DEF StepKept, StepMarked, StepCopied, StepCreated, StepRetried, mayRun
  <2> QED BY Zenon, <2>3 DEF StepKept
<1>5. \/ new = steps
      \/ newStatus.phase \notin DoneStepPhases
      \/ newStatus.phase = "Skipped" /\ decisionNow = "skip" /\ runners' = runners
      \/ /\ newStatus.phase = runnerNow.phase /\ runnerNow.there /\ runners' = runners
         /\ runnerNow.phase \in {"Succeeded", "Failed"}
         /\ runnerPhaseToStepPhase(runnerNow.phase) = runnerNow.phase /\ ~retryNow
  <2>1. \A p \in StepPhases : upsertStepStatus(statusNow, p, clock).phase = p
    BY Zenon, <1>2 DEF upsertStepStatus, StepStatuses, NoStepStatus
  <2>2. StepKept => new = steps
    BY Zenon DEF StepKept
  <2>3. StepMarked => \/ newStatus.phase \notin DoneStepPhases
                      \/ newStatus.phase = "Skipped" /\ decisionNow = "skip"
                           /\ runners' = runners
    BY Zenon DEF StepMarked, NoStepStatus
  <2>4. StepCopied => \/ newStatus.phase \notin DoneStepPhases
                      \/ /\ newStatus.phase = runnerNow.phase /\ runnerNow.there
                         /\ runners' = runners
                         /\ runnerNow.phase \in {"Succeeded", "Failed"}
                         /\ runnerPhaseToStepPhase(runnerNow.phase) = runnerNow.phase
                         /\ ~retryNow
    BY <1>2, <2>1 DEF StepCopied, runnerPhaseToStepPhase, RunnerObject
  <2>5. StepCreated => newStatus.phase \notin DoneStepPhases
    BY Zenon, <2>1 DEF StepCreated
  <2>6. StepRetried => newStatus.phase \notin DoneStepPhases
    <3> DEFINE p == upsertStepStatus(statusNow, "Pending", clock)
    <3>1. p \in StepStatuses /\ p.phase = "Pending"
      BY Zenon, <1>2, <2>1, UpsertType
    <3> HIDE DEF p
    <3>2. [p EXCEPT !.retryCount = @ + 1].phase = "Pending"
      BY Zenon, <3>1 DEF StepStatuses
    <3> QED BY Zenon, <3>2 DEF StepRetried, p
  <2> QED BY Zenon, <2>2, <2>3, <2>4, <2>5, <2>6, StepEffect
<1>6. \A s \in Steps :
        evaluateStep(shape.deps[s], shape.when[s], steps) = "skip" =>
          evaluateStep(shape.deps[s], shape.when[s], new) = "skip"
  <2> SUFFICES ASSUME NEW s \in Steps,
                      evaluateStep(shape.deps[s], shape.when[s], steps) = "skip"
               PROVE  evaluateStep(shape.deps[s], shape.when[s], new) = "skip"
    OBVIOUS
  <2>1. shape.deps[s] \subseteq Steps
    BY ShapesAssumption DEF WorkflowSpecs, TypeOK
  <2>2. \A d \in shape.deps[s] : steps[d].phase \in DoneStepPhases => new[d] = steps[d]
    BY Zenon, <1>1, <1>2, <1>4, <2>1
  <2> QED BY Zenon, <2>2, SkipStays
<1>7. CASE new = steps
  BY <1>3, <1>7
<1>8. ASSUME new # steps
      PROVE  /\ newStatus.phase \in {"Succeeded", "Failed"} =>
                  runners'[stepNow].there /\ runners'[stepNow].phase = newStatus.phase
             /\ newStatus.phase = "Failed" =>
                  wf'.steps[stepNow].retryCount >= shape.maxRetries[stepNow]
             /\ newStatus.phase = "Skipped" => /\ ~runners'[stepNow].there
                                               /\ decisionNow = "skip"
  <2>1. ~runners[stepNow].there \/ decisionNow # "skip"
    <3> SUFFICES ASSUME runners[stepNow].there, decisionNow = "skip" PROVE FALSE
      OBVIOUS
    <3>1. PICK old \in [Steps -> StepStatuses] : borneOut(old) /\ runs(stepNow, old)
      BY Zenon, <1>1 DEF FateInv, founded
    <3> QED BY Zenon, <1>1, <1>3, <3>1, FatesAgree DEF decisionNow
  <2>2. CASE newStatus.phase \notin DoneStepPhases
    BY <2>2
  <2>3. CASE newStatus.phase = "Skipped" /\ decisionNow = "skip" /\ runners' = runners
    BY <2>1, <2>3
  <2>4. CASE /\ newStatus.phase = runnerNow.phase /\ runnerNow.there /\ runners' = runners
             /\ runnerNow.phase \in {"Succeeded", "Failed"}
             /\ runnerPhaseToStepPhase(runnerNow.phase) = runnerNow.phase /\ ~retryNow
    <3>1. /\ runners[stepNow].there /\ runners[stepNow].phase = runnerNow.phase
          /\ runnerNow.phase = "Failed" =>
               wf.steps[stepNow].retryCount >= shape.maxRetries[stepNow]
      BY Zenon, <2>4, FateNow
    <3>2. newStatus.phase # "Skipped"
      BY <2>4
    <3> QED BY Zenon, <1>1, <2>4, <3>1, <3>2
  <2> QED BY Zenon, <1>5, <1>8, <2>2, <2>3, <2>4
<1>9. CASE new # steps
  <2> SUFFICES ASSUME NEW s \in Steps
               PROVE  /\ new[s].phase \in {"Succeeded", "Failed"} =>
                           runners'[s].there /\ runners'[s].phase = new[s].phase
                      /\ new[s].phase = "Failed" =>
                           wf'.steps[s].retryCount >= shape.maxRetries[s]
                      /\ new[s].phase = "Skipped" =>
                           /\ ~runners'[s].there
                           /\ evaluateStep(shape.deps[s], shape.when[s], new) = "skip"
    BY Zenon DEF stillBorneOut
  <2>1. CASE s = stepNow
    BY Zenon, <1>6, <1>8, <1>9, <2>1 DEF newStatus, decisionNow
  <2>2. CASE s # stepNow
    BY Zenon, <1>1, <1>3, <1>6, <2>2 DEF stillBorneOut
  <2> QED BY <2>1, <2>2
<1> QED BY <1>7, <1>9

\* A step that the walk has yet to come to was ahead of it before.
LEMMA AheadBefore ==
  ASSUME TypeOK, [Next]_vars, work # NoWork, NEW s \in Steps, ahead(s)'
  PROVE  /\ ahead(s)
         /\ StepWithoutCall \/ CreateRunner \/ CreateRunnerFails \/ RetryStep =>
              s # stepNow
<1>1. /\ work' # NoWork /\ work'.then = "steps"
      /\ work' = work => ahead(s)
  BY Zenon, ShapeFrame DEF ahead
<1>2. CASE StepWithoutCall \/ CreateRunner \/ CreateRunnerFails \/ RetryStep
  BY Zenon, <1>2, AheadEffect
<1>3. ~StartOfPass /\ ~EndSteps /\ ~PatchStatus /\ ~PatchStatusFails
  BY <1>1, StartFrame, EndEffect DEF PatchStatus, PatchStatusFails
<1>4. Environment \/ UNCHANGED vars => work' = work
  BY Zenon, <1>1, EnvironmentFrame DEF vars, procVars
<1> QED BY Zenon, <1>1, <1>2, <1>3, <1>4, NextSplit DEF RestOfPass

\* FateInv is inductive.
LEMMA FateStep ==
  ASSUME TypeOK, TypeOK', FateInv, RetryInv, WaitInv, [Next]_vars
  PROVE  FateInv'
<1> SUFFICES ASSUME FatesLast' PROVE FateInv'
  BY DEF FateInv
<1>0. shape' = shape
  BY ShapeFrame
<1>1. FatesLast
  BY Zenon, <1>0, LiveFrame DEF FatesLast
<1>2. /\ \A s \in succeeded : runners[s].there /\ runners[s].phase = "Succeeded"
      /\ borneOut(wf.steps) /\ borneOut(wfCache.steps)
      /\ work # NoWork => borneOut(work.local.steps)
      /\ \A s \in Steps :
           /\ runners[s].there => founded(s)
           /\ shape \in StaleFor /\ runnersCache[s].there => runners[s].there
           /\ ahead(s) /\ work.list[s].there => runners[s].there
  BY Zenon, <1>1 DEF FateInv
<1>3. \A steps : borneOut(steps) => stillBorneOut(steps)
  BY Zenon, <1>1, BorneOutLasts
<1>4. \A s \in succeeded' : runners'[s].there /\ runners'[s].phase = "Succeeded"
  <2>1. \A s \in succeeded : runners'[s].there /\ runners'[s].phase = "Succeeded"
    BY Zenon, <1>1, <1>2, FateLasts DEF TypeOK
  <2>2. ASSUME NEW t \in Steps, RunnerAdvances(t)
        PROVE  /\ succeeded' \subseteq succeeded \cup {t}
               /\ t \in succeeded' \ succeeded =>
                    runners'[t].there /\ runners'[t].phase = "Succeeded"
    <3>1. PICK p \in {"Pending", "Running"} \cup RunnerOutcomes, e \in {0, clock} :
            /\ runners' = [runners EXCEPT ![t].phase = p, ![t].endedAt = e]
            /\ succeeded' = IF p = "Succeeded" THEN succeeded \cup {t} ELSE succeeded
      BY Zenon, <2>2 DEF RunnerAdvances
    <3>2. /\ runners[t] \in RunnerObject /\ runners[t].there
          /\ runners \in [Steps -> RunnerObject]
      BY Zenon, <2>2 DEF TypeOK, RunnerObjects, RunnerAdvances
    <3>3. runners'[t].there = runners[t].there /\ runners'[t].phase = p
      BY Zenon, <3>1, <3>2 DEF RunnerObject
    <3> QED BY Zenon, <3>1, <3>2, <3>3
  <2>3. succeeded' = succeeded \/ \E t \in Steps : RunnerAdvances(t)
    BY Zenon, StartFrame, NextSplit
    DEF RestOfPass, Environment, StepWithoutCall, CreateRunner, CreateRunnerFails,
        RetryStep, EndSteps, PatchStatus, PatchStatusFails, SyncWorkflow, SyncRunners,
        TimerFires, Tick, removeRunner, UserDeletesRunner, UserDeletesWorkflow,
        RunnerCollected, Crash, vars, ghostVars
  <2> QED BY Zenon, <2>1, <2>2, <2>3
<1>5. stillBorneOut(wf'.steps) /\ (work' # NoWork => stillBorneOut(work'.local.steps))
  <2>1. CASE StartOfPass
    <3>1. work = NoWork /\ wf' = wf
      BY Zenon, <2>1, StartFrame
    <3>2. work' # NoWork => work'.local.steps = wfCache.steps
      BY Zenon, <1>1, <2>1, <3>1, StartWork DEF timedOut, FatesLast
    <3> QED BY Zenon, <1>2, <1>3, <3>1, <3>2
  <2>2. CASE StepWithoutCall \/ CreateRunner \/ CreateRunnerFails \/ RetryStep
    BY Zenon, <1>1, <1>2, <1>3, <2>2, FateIteration, IterationFrame
  <2>3. CASE EndSteps
    BY Zenon, <1>2, <1>3, <2>3, EndEffect
  <2>4. CASE PatchStatus
    BY Zenon, <1>2, <1>3, <2>4 DEF PatchStatus, mergePatch, merge
  <2>5. CASE PatchStatusFails
    BY Zenon, <1>2, <1>3, <2>5 DEF PatchStatusFails, apiVars
  <2>6. CASE Environment
    BY Zenon, <1>2, <1>3, <2>6, EnvironmentFrame
  <2>7. CASE UNCHANGED vars
    BY Zenon, <1>2, <1>3, <2>7 DEF vars, apiVars, procVars
  <2> QED BY Zenon, <2>1, <2>2, <2>3, <2>4, <2>5, <2>6, <2>7, NextSplit DEF RestOfPass
<1>6. stillBorneOut(wfCache'.steps)
  BY Zenon, <1>2, <1>3, CacheMoves
<1>7. ASSUME NEW s \in Steps, runners'[s].there
      PROVE  \E steps \in [Steps -> StepStatuses] : stillBorneOut(steps) /\ runs(s, steps)
  <2>1. CASE runners[s].there
    BY Zenon, <1>2, <1>3, <2>1 DEF founded
  <2>2. CASE ~runners[s].there
    <3>1. CreateRunner /\ s = stepNow
      BY Zenon, <1>7, <2>2, RunnerMoves DEF Advance, removed, NoRunner
    <3>2. work # NoWork /\ runs(s, work.local.steps)
      BY Zenon, <3>1 DEF CreateRunner, wantsRunner, inStepLoop, decisionNow, runs
    <3>3. work.local.steps \in [Steps -> StepStatuses]
      BY Zenon, <3>2 DEF TypeOK, Work, WorkflowStatus
    <3> QED BY Zenon, <1>2, <1>3, <3>2, <3>3
  <2> QED BY <2>1, <2>2
<1>8. ASSUME NEW s \in Steps, shape \in StaleFor, runnersCache'[s].there
      PROVE  runners'[s].there
  BY Zenon, <1>1, <1>2, <1>8, CacheMoves, FateLasts
<1>9. ASSUME NEW s \in Steps, ahead(s)', work'.list[s].there PROVE runners'[s].there
  <2>1. work' # NoWork
    BY Zenon, <1>9 DEF ahead
  <2>2. CASE work = NoWork /\ StartOfPass
    <3>1. /\ work'.list = runnersCache /\ runners' = runners
          /\ shape \notin StaleFor => runnersCache = runners
      BY Zenon, <2>1, <2>2, StartWork, StartFrame
    <3> QED BY Zenon, <1>2, <1>9, <3>1
  <2>3. CASE work # NoWork /\ work'.list = work.list
    <3>1. /\ ahead(s)
          /\ StepWithoutCall \/ CreateRunner \/ CreateRunnerFails \/ RetryStep =>
               s # stepNow
      BY Zenon, <1>9, <2>3, AheadBefore
    <3>2. runners[s].there
      BY Zenon, <1>2, <1>9, <2>3, <3>1
    <3> QED BY Zenon, <1>1, <3>1, <3>2, RunnerMoves DEF Advance, FatesLast
  <2> QED BY Zenon, <2>1, <2>2, <2>3, WorkMoves
<1>10. ASSUME NEW steps, stillBorneOut(steps) PROVE borneOut(steps)'
  BY Zenon, <1>0, <1>10 DEF stillBorneOut, borneOut
<1>11. borneOut(wf.steps)'
  BY Zenon, <1>0, <1>5 DEF stillBorneOut, borneOut
<1>12. borneOut(wfCache.steps)'
  BY Zenon, <1>0, <1>6 DEF stillBorneOut, borneOut
<1>13. work' # NoWork => borneOut(work.local.steps)'
  BY Zenon, <1>0, <1>5 DEF stillBorneOut, borneOut
<1>14. \A s \in Steps : runners'[s].there => founded(s)'
  BY Zenon, <1>0, <1>7, <1>10 DEF founded, runs
<1> QED BY Zenon, <1>0, <1>4, <1>8, <1>9, <1>11, <1>12, <1>13, <1>14 DEF FateInv

\* A Runner for an on_failure step is preceded by a dependency that never
\* succeeds: for every workflow without a timeout, whatever calls fail, and with
\* caches that lag by any amount if no step is retried.
THEOREM FailureTheorem == Spec => []FailureStepsFollowFailure
<1>1. Init => FateInv
  BY DEF Init, FateInv, borneOut, NoStepStatus, NoRunner, ahead
<1>2. ASSUME TypeOK, FateInv PROVE FailureStepsFollowFailure
  <2> SUFFICES ASSUME FatesLast, NEW s \in Steps, runners[s].there,
                      shape.when[s] = "on_failure"
               PROVE  ~(shape.deps[s] \subseteq succeeded)
    BY DEF FailureStepsFollowFailure
  <2>1. PICK steps \in [Steps -> StepStatuses] : borneOut(steps) /\ runs(s, steps)
    BY Zenon, <1>2 DEF FateInv, founded
  <2>2. PICK d \in shape.deps[s] : /\ steps[d].phase \in DoneStepPhases
                                   /\ steps[d].phase # "Succeeded"
    BY <2>1 DEF runs, evaluateStep
  <2>3. d \in Steps
    BY <1>2, ShapesAssumption DEF WorkflowSpecs, TypeOK
  <2>4. ~(runners[d].there /\ runners[d].phase = "Succeeded")
    BY <2>1, <2>2, <2>3 DEF borneOut
  <2> QED BY Zenon, <1>2, <2>2, <2>4 DEF FateInv
<1> QED BY <1>1, <1>2, FateStep, TypeCorrect, RetryInvariant, MirrorInvariant, PTL DEF Spec

-----------------------------------------------------------------------------
(* Every step that may run has a Runner *)

\* A Create has been tried for step s.
tried(s) == created[s] > 0 \/ faults > 0

attempted(s, steps) == runs(s, steps) /\ ~runsUntried(s) => tried(s)

\* A workflow that has not started shows no step, and in one that has every step
\* that runs has been tried.
allAttempted(status) ==
  /\ status.startTime = 0 => status.steps = [s \in Steps |-> NoStepStatus]
  /\ status.startTime # 0 => \A s \in stepNames : attempted(s, status.steps)

\* What a failed Create of a step's first Runner rests on: it happens in the pass
\* that also records why the step runs.
TriedInv ==
  ~rejected =>
    /\ allAttempted(wf) /\ allAttempted(wfCache)
    /\ wfCache.startTime # 0 => wf.startTime # 0
    /\ \A s \in Steps :
         /\ runners[s].there \/ runnersCache[s].there => created[s] > 0
         /\ wf.live /\ shape \in StaleFor /\ ~runsUntried(s) /\ created[s] > 0 =>
              runners[s].there
    /\ work # NoWork =>
         /\ allAttempted(work.base)
         /\ work.base.startTime # 0 => wf.startTime # 0
         /\ \A s \in Steps : work.list[s].there => created[s] > 0
         /\ work.next = 0 =>
              allAttempted(work.local) /\ work.local.startTime = work.base.startTime
         /\ work.next # 0 =>
              /\ work.local.startTime # 0
              /\ \A s \in stepNames : ahead(s) \/ attempted(s, work.local.steps)

\* Step s, if it runs, has a Runner or is excused.
provided(s, steps, list) == runs(s, steps) => list[s].there \/ excused(s, steps)

\* A pass that has changed nothing so far has provided for every step behind it.
providing ==
  /\ \A s \in Steps : age(work.list[s]) <= age(runners[s])
  /\ /\ wf.live /\ ~rejected /\ work.next # 0 /\ work.base.startTime # 0
     /\ work.local.steps = work.base.steps
     => \A s \in stepNames :
          \/ ahead(s) \/ age(work.list[s]) < age(runners[s])
          \/ provided(s, work.base.steps, work.list)

\* What makes RunnableMeansRunner inductive: a pass that ends without a change has
\* provided for every step, or a change of a Runner has yet to reach the cache.
ProvideInv ==
  /\ work # NoWork => providing
  /\ work = NoWork /\ ~queued =>
       \/ wfCache # wf \/ runnersCache # runners
       \/ ~wfCache.live \/ rejected \/ wfCache.startTime = 0
       \/ \A s \in stepNames : provided(s, wfCache.steps, runnersCache)

\* A step's dependencies lie behind it: the step that the walk has come to is none
\* of its own or of those behind it.
LEMMA WalkOrder ==
  ASSUME TypeOK, ~rejected, inStepLoop, NEW s \in stepNames, ~ahead(s) \/ s = stepNow
  PROVE  stepNow \notin shape.deps[s]
<1>1. /\ shape \in Shapes /\ shape.order \in Seq(Steps) /\ work.next \in Nat
      /\ work.next # 0 /\ work.next <= Len(shape.order) /\ work # NoWork
      /\ work.then = "steps"
  BY ShapesAssumption DEF WorkflowSpecs, TypeOK, Work, inStepLoop
<1>2. work.next \in DOMAIN shape.order
  BY <1>1
<1>3. PICK j \in DOMAIN shape.order : shape.order[j] = s /\ j <= work.next
  <2>1. PICK j \in DOMAIN shape.order : shape.order[j] = s
    BY Zenon DEF stepNames
  <2>2. CASE s = stepNow
    BY <1>1, <1>2, <2>2 DEF stepNow
  <2>3. CASE ~ahead(s)
    BY <1>1, <2>1, <2>3 DEF ahead
  <2> QED BY <2>2, <2>3
<1>4. ~(work.next < j)
  BY <1>1, <1>3
<1> QED BY Zenon, <1>1, <1>2, <1>3, <1>4, OrderAssumption
  DEF rejected, detectCycle, stepNames, stepNow

\* Whether a step runs depends on its dependencies alone.
LEMMA RunsSame ==
  ASSUME NEW s, NEW old, NEW new, \A d \in shape.deps[s] : new[d] = old[d]
  PROVE  runs(s, new) <=> runs(s, old)
BY Zenon DEF runs, evaluateStep

\* A step that has been tried stays so, and only a Create gives it a Runner.
LEMMA TriedLasts ==
  ASSUME TypeOK, TypeOK', [Next]_vars, NEW s \in Steps
  PROVE  /\ created[s] > 0 => created'[s] > 0
         /\ faults > 0 => faults' > 0
         /\ created'[s] = created[s] \/ runners'[s].there
<1>1. created[s] \in Nat /\ created'[s] \in Nat /\ faults \in Nat
  BY Zenon DEF TypeOK
<1>2. faults' \in Nat /\ faults <= faults'
  BY Zenon, FaultsGrow
<1>3. created' = created \/ CreateRunner
  BY Zenon, StartFrame, NextSplit, EnvironmentFrame
  DEF RestOfPass, StepWithoutCall, CreateRunnerFails, RetryStep, EndSteps, PatchStatus,
      PatchStatusFails, vars, ghostVars
<1>4. ASSUME CreateRunner
      PROVE  \/ created'[s] = created[s]
             \/ created'[s] = created[s] + 1 /\ runners'[s].there
  <2>1. /\ runners' =
             [runners EXCEPT ![stepNow] = buildStepRunner(created[stepNow] + 1)]
        /\ created' = [created EXCEPT ![stepNow] = @ + 1] /\ stepNow \in Steps
    BY Zenon, <1>4, IterationFrame DEF CreateRunner
  <2>2. buildStepRunner(created[stepNow] + 1).there
    BY Zenon DEF buildStepRunner, NoRunner
  <2> QED BY <2>1, <2>2 DEF TypeOK, RunnerObjects
<1> QED BY <1>1, <1>2, <1>3, <1>4

\* An iteration tries the step it has come to, if that runs.
LEMMA TriesNow ==
  ASSUME TypeOK, TypeOK', [Next]_vars, TriedInv, ~rejected,
         StepWithoutCall \/ CreateRunner \/ CreateRunnerFails \/ RetryStep,
         decisionNow = "run"
  PROVE  created'[stepNow] > 0 \/ faults' > 0
<1>1. stepNow \in Steps /\ work # NoWork /\ runnerNow = work.list[stepNow]
  BY Zenon, IterationFrame DEF inStepLoop, runnerNow
<1>2. /\ runnerNow.there => created[stepNow] > 0
      /\ runners[stepNow].there => created[stepNow] > 0
  BY Zenon, <1>1 DEF TriedInv
<1>3. CASE created[stepNow] > 0
  BY Zenon, <1>1, <1>3, TriedLasts
<1>4. CASE ~runnerNow.there /\ ~runners[stepNow].there
  <2>1. ~StepWithoutCall /\ ~RetryStep
    BY <1>4 DEF StepWithoutCall, RetryStep, stepClosed
  <2>2. CASE CreateRunner
    BY <1>1, <2>2 DEF CreateRunner, TypeOK
  <2>3. CASE CreateRunnerFails
    BY <1>4, <2>3 DEF CreateRunnerFails, fault, TypeOK
  <2> QED BY <2>1, <2>2, <2>3
<1> QED BY <1>2, <1>3, <1>4

\* handleTimeoutFlat lets no step run that did not run before, if that waits for
\* the success of its dependencies.
LEMMA TimeoutAttempts ==
  ASSUME TypeOK, ~rejected, timedOut, allAttempted(wfCache), NEW s \in stepNames
  PROVE  attempted(s, timeoutStatus.steps)
<1> SUFFICES ASSUME runs(s, timeoutStatus.steps), ~runsUntried(s) PROVE tried(s)
  BY DEF attempted
<1>1. shape.timeout # 0 /\ wfCache.startTime # 0
  BY DEF timedOut
<1>2. shape.when[s] = "on_success"
  BY Zenon, <1>1 DEF runsUntried
<1>3. shape.deps[s] \subseteq stepNames /\ stepNames \subseteq Steps
  BY Zenon, NamesOfOrder DEF rejected, detectCycle
<1>4. \A d \in stepNames : timeoutStatus.steps[d].phase = "Failed"
  <2> DEFINE steps == [t \in Steps |->
                  IF t \in stepNames
                    THEN upsertStepStatus(wfCache.steps[t], "Failed", clock)
                    ELSE wfCache.steps[t]]
  <2>1. timeoutStatus.steps = steps
    BY DEF timeoutStatus, TypeOK, WorkflowStatus
  <2>2. ASSUME NEW d \in stepNames PROVE steps[d].phase = "Failed"
    <3>1. d \in Steps /\ wfCache.steps[d] \in StepStatuses
      BY <1>3 DEF TypeOK, WorkflowStatus
    <3>2. steps[d] = upsertStepStatus(wfCache.steps[d], "Failed", clock)
      BY Zenon, <3>1
    <3> QED BY Zenon, <3>1, <3>2 DEF upsertStepStatus, StepStatuses, NoStepStatus
  <2> QED BY Zenon, <2>1, <2>2
<1>5. shape.deps[s] = {}
  BY <1>2, <1>3, <1>4 DEF runs, evaluateStep
<1>6. runs(s, wfCache.steps)
  BY <1>2, <1>5 DEF runs, evaluateStep
<1> QED BY Zenon, <1>1, <1>6 DEF allAttempted, attempted

\* At the start of a walk every step is ahead, and at its end none.
LEMMA AllAhead ==
  ASSUME TypeOK
  PROVE  /\ StartOfPass /\ work' # NoWork /\ work'.next # 0 =>
              \A s \in stepNames : ahead(s)'
         /\ EndSteps => \A s : ~ahead(s)
<1>1. shape.order \in Seq(Steps)
  BY ShapesAssumption DEF WorkflowSpecs, TypeOK
<1>2. ASSUME StartOfPass, work' # NoWork, work'.next # 0, NEW s \in stepNames
      PROVE  ahead(s)'
  <2>1. work = NoWork /\ shape' = shape
    BY Zenon, <1>2, StartFrame
  <2>2. work'.then = "steps" /\ work'.next = 1
    BY Zenon, <1>2, <2>1, StartWork
  <2>3. PICK i \in DOMAIN shape.order : shape.order[i] = s
    BY Zenon DEF stepNames
  <2>4. i >= 1
    BY <1>1, <2>3
  <2> QED BY Zenon, <1>2, <2>1, <2>2, <2>3, <2>4 DEF ahead
<1>3. ASSUME EndSteps, NEW s PROVE ~ahead(s)
  <2>1. work.next \in Nat /\ work.next > Len(shape.order)
    BY Zenon, <1>3, EndEffect DEF Work
  <2> QED BY Zenon, <1>1, <2>1, PastTheEnd DEF ahead
<1> QED BY <1>2, <1>3

\* The same after the step.
attemptedNext(s, steps) ==
  runs(s, steps) /\ ~runsUntried(s) => created'[s] > 0 \/ faults' > 0

allAttemptedNext(status) ==
  /\ status.startTime = 0 => status.steps = [s \in Steps |-> NoStepStatus]
  /\ status.startTime # 0 => \A s \in stepNames : attemptedNext(s, status.steps)

workAttemptedNext ==
  /\ allAttemptedNext(work'.base)
  /\ work'.next = 0 =>
       allAttemptedNext(work'.local) /\ work'.local.startTime = work'.base.startTime
  /\ work'.next # 0 =>
       /\ work'.local.startTime # 0
       /\ \A s \in stepNames : ahead(s)' \/ attemptedNext(s, work'.local.steps)

LEMMA AttemptsLast ==
  ASSUME TypeOK, TypeOK', [Next]_vars
  PROVE  /\ \A steps : \A s \in Steps : attempted(s, steps) => attemptedNext(s, steps)
         /\ \A status : allAttempted(status) => allAttemptedNext(status)
<1>1. ASSUME NEW s \in Steps, NEW steps, attempted(s, steps)
      PROVE  attemptedNext(s, steps)
  BY Zenon, <1>1, TriedLasts DEF attempted, attemptedNext, tried
<1> QED BY Zenon, <1>1, NamesOfOrder DEF allAttempted, allAttemptedNext

LEMMA AttemptsAtStart ==
  ASSUME TypeOK, TypeOK', [Next]_vars, TriedInv, ~rejected, clock # 0,
         StartOfPass, work' # NoWork
  PROVE  workAttemptedNext
<1>1. work = NoWork /\ shape' = shape
  BY Zenon, StartFrame
<1>2. /\ work'.base = wfCache /\ allAttempted(wfCache)
      /\ allAttemptedNext(wfCache)
  BY Zenon, <1>1, StartWork, AttemptsLast DEF TriedInv
<1>3. CASE /\ work'.next = 0 /\ work'.local.steps = wfCache.steps
           /\ work'.local.startTime = wfCache.startTime
  BY Zenon, <1>2, <1>3 DEF workAttemptedNext, allAttemptedNext
<1>4. CASE work'.next = 0 /\ timedOut /\ work'.local = timeoutStatus
  <2>1. timeoutStatus.startTime = wfCache.startTime
    BY DEF timeoutStatus, TypeOK, WorkflowStatus
  <2>2. wfCache.startTime # 0
    BY Zenon, <1>4 DEF timedOut
  <2>3. \A s \in stepNames : attemptedNext(s, timeoutStatus.steps)
    BY Zenon, <1>2, <1>4, TimeoutAttempts, AttemptsLast, NamesOfOrder
  <2> QED BY Zenon, <1>2, <1>4, <2>1, <2>2, <2>3
          DEF workAttemptedNext, allAttemptedNext
<1>5. CASE /\ work'.next = 1
           /\ IF wfCache.startTime = 0
                THEN work'.updated /\ work'.local.startTime = clock
                ELSE work'.local = wfCache
  <2>1. work'.next # 0
    BY <1>5
  <2>2. work'.local.startTime # 0
    BY Zenon, <1>5
  <2>3. \A s \in stepNames : ahead(s)'
    BY Zenon, <2>1, AllAhead
  <2> QED BY Zenon, <1>2, <2>1, <2>2, <2>3 DEF workAttemptedNext
<1> QED BY Zenon, <1>1, <1>3, <1>4, <1>5, StartWork

LEMMA AttemptsAtIteration ==
  ASSUME TypeOK, TypeOK', [Next]_vars, TriedInv, ~rejected,
         StepWithoutCall \/ CreateRunner \/ CreateRunnerFails \/ RetryStep
  PROVE  workAttemptedNext
<1>1. /\ inStepLoop /\ work # NoWork /\ work \in Work /\ stepNow \in Steps
      /\ work'.next = work.next + 1 /\ work'.base = work.base
      /\ work'.local.startTime = work.local.startTime
      /\ \A t \in Steps : t # stepNow =>
           work'.local.steps[t] = work.local.steps[t]
  BY Zenon, IterationFrame DEF inStepLoop
<1>2. work.next # 0 /\ work'.next # 0
  BY <1>1 DEF inStepLoop, TypeOK, Work
<1>3. /\ allAttempted(work.base) /\ work.local.startTime # 0
      /\ \A s \in stepNames : ahead(s) \/ attempted(s, work.local.steps)
  BY Zenon, <1>1, <1>2 DEF TriedInv
<1>4. ASSUME NEW s \in stepNames, ~ahead(s)'
      PROVE  attemptedNext(s, work'.local.steps)
  <2>1. s \in Steps /\ shape.deps[s] \subseteq Steps
    BY NamesOfOrder, ShapesAssumption DEF TypeOK, WorkflowSpecs
  <2>2. ~ahead(s) \/ s = stepNow
    BY Zenon, <1>4, <2>1, AheadStays
  <2>3. stepNow \notin shape.deps[s]
    BY Zenon, <1>1, <2>2, WalkOrder
  <2>4. \A d \in shape.deps[s] : work'.local.steps[d] = work.local.steps[d]
    BY Zenon, <1>1, <2>1, <2>3
  <2>5. runs(s, work'.local.steps) <=> runs(s, work.local.steps)
    BY Zenon, <2>4, RunsSame
  <2>6. CASE ~ahead(s)
    BY Zenon, <1>3, <2>1, <2>5, <2>6, AttemptsLast DEF attemptedNext
  <2>7. CASE s = stepNow /\ runs(s, work.local.steps)
    <3>1. decisionNow = "run"
      BY Zenon, <2>7 DEF runs, decisionNow
    <3> QED BY Zenon, <2>7, <3>1, TriesNow DEF attemptedNext
  <2> QED BY Zenon, <2>2, <2>5, <2>6, <2>7 DEF attemptedNext
<1> QED BY Zenon, <1>1, <1>2, <1>3, <1>4, AttemptsLast DEF workAttemptedNext

LEMMA AttemptsInWork ==
  ASSUME TypeOK, TypeOK', [Next]_vars, TriedInv, ~rejected, clock # 0, work' # NoWork
  PROVE  workAttemptedNext
<1>1. CASE StartOfPass
  BY Zenon, <1>1, AttemptsAtStart
<1>2. CASE StepWithoutCall \/ CreateRunner \/ CreateRunnerFails \/ RetryStep
  BY Zenon, <1>2, AttemptsAtIteration
<1>3. CASE EndSteps \/ Environment \/ UNCHANGED vars
  <2>1. /\ work # NoWork /\ work'.base = work.base /\ work'.next = work.next
        /\ work'.local.startTime = work.local.startTime
        /\ work'.local.steps = work.local.steps
        /\ EndSteps => work.next # 0
    <3>1. CASE EndSteps
      <4>1. work \in Work /\ work.next > Len(shape.order) /\ shape.order \in Seq(Steps)
        BY Zenon, <3>1, EndEffect, ShapesAssumption DEF WorkflowSpecs, TypeOK
      <4>2. work.next # 0
        BY Zenon, <4>1, PastTheEnd DEF Work
      <4> QED BY Zenon, <3>1, <4>2, EndEffect
    <3>2. CASE ~EndSteps
      BY Zenon, <1>3, <3>2, EnvironmentFrame DEF vars, procVars
    <3> QED BY Zenon, <3>1, <3>2
  <2>2. \A s \in stepNames : ahead(s) => ahead(s)'
    <3>1. CASE EndSteps
      BY Zenon, <3>1, AllAhead
    <3>2. CASE ~EndSteps
      BY Zenon, <1>3, <3>2, EnvironmentFrame DEF ahead, vars, procVars, apiVars
    <3> QED BY Zenon, <3>1, <3>2
  <2>3. CASE work.next = 0
    BY Zenon, <2>1, <2>3, AttemptsLast
    DEF TriedInv, workAttemptedNext, allAttempted, allAttemptedNext
  <2>4. CASE work.next # 0
    <3>1. /\ allAttempted(work.base) /\ work.local.startTime # 0
          /\ \A s \in stepNames : ahead(s) \/ attempted(s, work.local.steps)
      BY Zenon, <2>1, <2>4 DEF TriedInv
    <3> QED BY Zenon, <2>1, <2>2, <2>4, <3>1, AttemptsLast, NamesOfOrder
            DEF workAttemptedNext
  <2> QED BY Zenon, <2>3, <2>4
<1>4. ~PatchStatus /\ ~PatchStatusFails
  BY Zenon DEF PatchStatus, PatchStatusFails
<1> QED BY Zenon, <1>1, <1>2, <1>3, <1>4, NextSplit DEF RestOfPass

\* The patch of a pass that tried its steps, merged into the Workflow.
LEMMA AttemptsInPatch ==
  ASSUME TypeOK, TypeOK', [Next]_vars, TriedInv, ~rejected, PatchStatus
  PROVE  allAttemptedNext(wf') /\ (wf.startTime # 0 => wf'.startTime # 0)
<1>1. /\ work # NoWork /\ work.then = "patch"
      /\ wf'.startTime = merge(wf.startTime, work.base.startTime, work.local.startTime)
      /\ wf'.steps = merge(wf.steps, work.base.steps, work.local.steps)
  BY Zenon DEF PatchStatus, mergePatch
<1>2. /\ allAttempted(wf) /\ allAttempted(work.base)
      /\ work.base.startTime # 0 => wf.startTime # 0
      /\ work.next = 0 =>
           allAttempted(work.local) /\ work.local.startTime = work.base.startTime
      /\ work.next # 0 =>
           /\ work.local.startTime # 0
           /\ \A s \in stepNames : ahead(s) \/ attempted(s, work.local.steps)
  BY Zenon, <1>1 DEF TriedInv
<1>3. \A s : ~ahead(s)
  BY Zenon, <1>1 DEF ahead
<1>4. CASE work.next = 0
  <2>1. wf'.startTime = wf.startTime
    BY Zenon, <1>1, <1>2, <1>4 DEF merge
  <2>2. CASE work.local.steps = work.base.steps
    <3>1. wf'.steps = wf.steps
      BY Zenon, <1>1, <2>2 DEF merge
    <3> QED BY Zenon, <1>2, <2>1, <3>1, AttemptsLast DEF allAttemptedNext
  <2>3. CASE work.local.steps # work.base.steps
    <3>1. wf'.steps = work.local.steps
      BY Zenon, <1>1, <2>3 DEF merge
    <3>2. work.base.startTime # 0
      BY Zenon, <1>2, <1>4, <2>3 DEF allAttempted
    <3>3. allAttemptedNext(work.local) /\ work.local.startTime # 0 /\ wf.startTime # 0
      BY Zenon, <1>2, <1>4, <3>2, AttemptsLast
    <3> QED BY Zenon, <2>1, <3>1, <3>3 DEF allAttemptedNext
  <2> QED BY Zenon, <2>2, <2>3
<1>5. CASE work.next # 0
  <2>1. /\ work.local.startTime # 0
        /\ \A s \in stepNames : attempted(s, work.local.steps)
    BY Zenon, <1>2, <1>3, <1>5
  <2>2. wf'.startTime # 0
    BY Zenon, <1>1, <1>2, <2>1 DEF merge
  <2>3. \/ wf'.steps = work.local.steps
        \/ wf'.steps = wf.steps /\ wf.startTime # 0
    BY Zenon, <1>1, <1>2 DEF merge, allAttempted
  <2>4. \A s \in stepNames : attempted(s, wf'.steps)
    BY Zenon, <1>2, <2>1, <2>3 DEF allAttempted
  <2> QED BY Zenon, <2>2, <2>4, AttemptsLast, NamesOfOrder DEF allAttemptedNext
<1> QED BY Zenon, <1>4, <1>5

\* A Runner has been created, and without retries, deletions by users and the
\* garbage collector it stays.
LEMMA CreatedStep ==
  ASSUME TypeOK, TypeOK', [Next]_vars, TriedInv, ~rejected, NEW s \in Steps
  PROVE  /\ runners'[s].there \/ runnersCache'[s].there => created'[s] > 0
         /\ wf'.live /\ shape \in StaleFor /\ ~runsUntried(s) /\ created'[s] > 0 =>
              runners'[s].there
<1>1. /\ runners[s].there \/ runnersCache[s].there => created[s] > 0
      /\ wf.live /\ shape \in StaleFor /\ ~runsUntried(s) /\ created[s] > 0 =>
           runners[s].there
  BY Zenon DEF TriedInv
<1>2. created[s] > 0 => created'[s] > 0
  BY Zenon, TriedLasts
<1>3. CASE CreateRunner /\ s = stepNow
  <2>1. created'[s] > 0
    BY <1>3, IterationFrame DEF CreateRunner, TypeOK
  <2>2. runners' = [runners EXCEPT ![stepNow] = buildStepRunner(created[stepNow] + 1)]
    BY Zenon, <1>3 DEF CreateRunner
  <2>3. buildStepRunner(created[stepNow] + 1).there
    BY Zenon DEF buildStepRunner, NoRunner
  <2>4. runners'[s].there
    BY <1>3, <2>2, <2>3 DEF TypeOK, RunnerObjects
  <2> QED BY Zenon, <2>1, <2>4
<1>4. CASE ~(CreateRunner /\ s = stepNow)
  <2>1. \/ runners'[s] = runners[s]
        \/ Advance(runners[s], runners'[s])
        \/ /\ runners'[s] = removed(runners[s])
           /\ \/ RetryStep /\ s = stepNow
              \/ shape \in RunnersDeletable \/ ~wf.live
    BY Zenon, <1>4, RunnerMoves
  <2>2. runners[s] \in RunnerObject
    BY DEF TypeOK, RunnerObjects
  <2>3. Advance(runners[s], runners'[s]) => runners[s].there /\ runners'[s].there
    BY <2>2 DEF Advance, RunnerObject
  <2>4. ~removed(runners[s]).there
    BY Zenon DEF removed, NoRunner
  <2>5. RetryStep /\ s = stepNow /\ shape \in StaleFor => runsUntried(s)
    <3>1. shape.maxRetries[s] \in Nat
      BY ShapesAssumption DEF TypeOK, WorkflowSpecs
    <3>2. ASSUME RetryStep, s = stepNow PROVE statusNow.retryCount \in Nat
      BY <3>2, IterationFrame DEF statusNow, Work, WorkflowStatus, StepStatuses
    <3> QED BY <3>1, <3>2 DEF RetryStep, retryNow, runsUntried
  <2>6. runners'[s].there => created'[s] > 0
    BY Zenon, <1>1, <1>2, <2>1, <2>3, <2>4
  <2>7. runnersCache'[s].there => created'[s] > 0
    BY Zenon, <1>1, <1>2, CacheMoves
  <2>8. ASSUME wf'.live, shape \in StaleFor, ~runsUntried(s), created'[s] > 0
        PROVE  runners'[s].there
    <3>1. wf.live /\ shape \notin RunnersDeletable
      BY Zenon, <2>8, LiveFrame DEF runsUntried
    <3>2. created'[s] = created[s] \/ runners'[s].there
      BY Zenon, TriedLasts
    <3> QED BY Zenon, <1>1, <2>1, <2>3, <2>5, <2>8, <3>1, <3>2
  <2> QED BY Zenon, <2>6, <2>7, <2>8
<1> QED BY Zenon, <1>3, <1>4

LEMMA TriedStep ==
  ASSUME TypeOK, TypeOK', [Next]_vars, TriedInv, clock # 0
  PROVE  TriedInv'
<1>1. shape' = shape
  BY Zenon, ShapeFrame
<1>2. /\ (rejected' <=> rejected) /\ stepNames' = stepNames
      /\ \A s : runsUntried(s)' <=> runsUntried(s)
  BY <1>1 DEF rejected, detectCycle, stepNames, runsUntried
<1>3. CASE rejected
  BY Zenon, <1>2, <1>3 DEF TriedInv
<1>4. CASE ~rejected
  <2>1. /\ allAttempted(wf) /\ allAttempted(wfCache)
        /\ wfCache.startTime # 0 => wf.startTime # 0
        /\ work # NoWork => /\ work.base.startTime # 0 => wf.startTime # 0
                            /\ \A s \in Steps : work.list[s].there => created[s] > 0
    BY Zenon, <1>4 DEF TriedInv
  <2>2. allAttemptedNext(wf') /\ (wf.startTime # 0 => wf'.startTime # 0)
    <3>1. CASE PatchStatus
      BY Zenon, <1>4, <3>1, AttemptsInPatch
    <3>2. CASE wf'.steps = wf.steps /\ wf'.startTime = wf.startTime
      BY Zenon, <2>1, <3>2, AttemptsLast DEF allAttemptedNext
    <3> QED BY Zenon, <3>1, <3>2, StatusMoves
  <2>3. allAttemptedNext(wfCache') /\ (wfCache'.startTime # 0 => wf'.startTime # 0)
    BY Zenon, <2>1, <2>2, CacheMoves, AttemptsLast
  <2>4. \A s \in Steps :
           /\ runners'[s].there \/ runnersCache'[s].there => created'[s] > 0
           /\ wf'.live /\ shape \in StaleFor /\ ~runsUntried(s) /\ created'[s] > 0 =>
                runners'[s].there
    BY Zenon, <1>4, CreatedStep
  <2>5. ASSUME work' # NoWork
        PROVE  /\ workAttemptedNext
               /\ work'.base.startTime # 0 => wf'.startTime # 0
               /\ \A s \in Steps : work'.list[s].there => created'[s] > 0
    <3>1. workAttemptedNext
      BY Zenon, <1>4, <2>5, AttemptsInWork
    <3>2. CASE work = NoWork /\ StartOfPass
      <4>1. /\ work'.base = wfCache /\ work'.list = runnersCache
            /\ wf' = wf /\ runnersCache' = runnersCache
        BY Zenon, <2>5, <3>2, StartWork, StartFrame
      <4> QED BY Zenon, <2>1, <2>4, <3>1, <4>1
    <3>3. CASE /\ work # NoWork
               /\ work'.base = work.base /\ work'.list = work.list
               /\ wf'.startTime = wf.startTime
      BY Zenon, <2>1, <3>1, <3>3, TriedLasts
    <3> QED BY Zenon, <2>5, <3>2, <3>3, WorkMoves
  <2>6. /\ allAttemptedNext(wf') => allAttempted(wf)'
        /\ allAttemptedNext(wfCache') => allAttempted(wfCache)'
        /\ allAttemptedNext(work'.base) => allAttempted(work.base)'
        /\ allAttemptedNext(work'.local) => allAttempted(work.local)'
        /\ \A s : attemptedNext(s, work'.local.steps) => attempted(s, work.local.steps)'
    BY Zenon, <1>1, <1>2
    DEF allAttempted, allAttemptedNext, attempted, attemptedNext, tried, runs
  <2> QED BY Zenon, <1>1, <1>2, <2>2, <2>3, <2>4, <2>5, <2>6
          DEF TriedInv, workAttemptedNext
<1> QED BY Zenon, <1>3, <1>4

\* The same after the step.
excusedNext(s, steps) ==
  faults' > IF steps[s].retryCount > 0 \/ runsUntried(s) THEN 0 ELSE 1

providedNext(s, steps, list) ==
  runs(s, steps) => list[s].there \/ excusedNext(s, steps)

providingNext ==
  /\ \A s \in Steps : age(work'.list[s]) <= age(runners'[s])
  /\ /\ wf'.live /\ ~rejected /\ work'.next # 0 /\ work'.base.startTime # 0
     /\ work'.local.steps = work'.base.steps
     => \A s \in stepNames :
          \/ ahead(s)' \/ age(work'.list[s]) < age(runners'[s])
          \/ providedNext(s, work'.base.steps, work'.list)

LEMMA ProvidedLasts ==
  ASSUME TypeOK, [Next]_vars, NEW s, NEW steps, NEW list, provided(s, steps, list)
  PROVE  providedNext(s, steps, list)
<1>1. faults \in Nat /\ faults' \in Nat /\ faults <= faults'
  BY FaultsGrow DEF TypeOK
<1>2. excused(s, steps) => excusedNext(s, steps)
  BY <1>1 DEF excused, excusedNext
<1> QED BY Zenon, <1>2 DEF provided, providedNext

\* A Runner that is there is not as old as one that is not.
LEMMA AgeTells ==
  ASSUME NEW r \in RunnerObject, NEW q \in RunnerObject, r.there, ~q.there
  PROVE  age(r) # age(q)
<1>1. /\ age(q) = 5 * q.uid + 4
      /\ age(r) \in Nat /\ 5 * r.uid <= age(r) /\ age(r) <= 5 * r.uid + 4
      /\ age(r) # 5 * r.uid + 4
  BY Zenon, AgeType
<1>2. r.uid \in Nat /\ q.uid \in Nat
  BY DEF RunnerObject
<1> QED BY <1>1, <1>2

\* An iteration that leaves the status of its step as it is provides for it: the
\* Runner is there, is created, is there by now, or the Create fails by a fault;
\* a second one if it is the first Runner of the step.
LEMMA ProvidesNow ==
  ASSUME TypeOK, TypeOK', [Next]_vars, TriedInv, RetryInv, ~rejected, wf.live,
         StepWithoutCall \/ CreateRunner \/ CreateRunnerFails \/ RetryStep,
         stepNow \in stepNames, work.base.startTime # 0,
         work.local.steps = work.base.steps,
         age(work.list[stepNow]) <= age(runners'[stepNow])
  PROVE  \/ age(work.list[stepNow]) < age(runners'[stepNow])
         \/ providedNext(stepNow, work.base.steps, work.list)
<1>1. /\ stepNow \in Steps /\ work \in Work /\ work # NoWork
      /\ runnerNow = work.list[stepNow]
  BY Zenon, IterationFrame DEF inStepLoop, runnerNow
<1>2. SUFFICES ASSUME runs(stepNow, work.base.steps), ~runnerNow.there
               PROVE  \/ age(work.list[stepNow]) < age(runners'[stepNow])
                      \/ excusedNext(stepNow, work.base.steps)
  BY Zenon, <1>1 DEF providedNext
<1>3. decisionNow = "run"
  BY Zenon, <1>2 DEF runs, decisionNow
<1>4. CreateRunner \/ CreateRunnerFails
  BY <1>2, <1>3 DEF StepWithoutCall, RetryStep, stepClosed
<1>5. work.list[stepNow] \in RunnerObject /\ runners'[stepNow] \in RunnerObject
  BY <1>1 DEF TypeOK, Work, RunnerObjects
<1>6. CASE runners'[stepNow].there
  <2>1. age(work.list[stepNow]) # age(runners'[stepNow])
    BY Zenon, <1>1, <1>2, <1>5, <1>6, AgeTells
  <2> QED BY <1>5, <2>1, AgeType
<1>7. CASE ~runners'[stepNow].there
  <2>1. ~CreateRunner
    <3>1. buildStepRunner(created[stepNow] + 1).there
      BY Zenon DEF buildStepRunner, NoRunner
    <3> QED BY <1>1, <1>7, <3>1 DEF CreateRunner, TypeOK, RunnerObjects
  <2>2. /\ CreateRunnerFails /\ runners' = runners /\ ~runners[stepNow].there
        /\ faults' = faults + 1 /\ faults \in Nat
    BY <1>4, <1>7, <2>1 DEF CreateRunnerFails, fault, TypeOK, apiVars
  <2>3. CASE work.base.steps[stepNow].retryCount > 0 \/ runsUntried(stepNow)
    BY <2>2, <2>3 DEF excusedNext
  <2>4. CASE ~(work.base.steps[stepNow].retryCount > 0) /\ ~runsUntried(stepNow)
    <3>1. created[stepNow] > 0 \/ faults > 0
      BY Zenon, <1>1, <1>2, <2>4 DEF TriedInv, allAttempted, attempted, tried
    <3>2. CASE created[stepNow] > 0 /\ ~(faults > 0)
      <4>1. shape \notin StaleFor \cup RunnersDeletable
        BY Zenon, <1>1, <2>2, <2>4, <3>2 DEF TriedInv, runsUntried
      <4>2. /\ created[stepNow] <= counted(stepNow) + faults
                                     + (IF runners[stepNow].there THEN 1 ELSE 0)
            /\ work.base.steps = wf.steps
        BY Zenon, <1>1, <4>1 DEF RetryInv, triesCovered
      <4>3. counted(stepNow) = work.base.steps[stepNow].retryCount
        BY Zenon, <1>1, <4>2 DEF counted
      <4>4. work.base.steps[stepNow].retryCount \in Nat /\ created[stepNow] \in Nat
        BY <1>1 DEF TypeOK, Work, WorkflowStatus, StepStatuses
      <4> QED BY <2>2, <2>4, <3>2, <4>2, <4>3, <4>4
    <3>3. CASE faults > 0
      BY <2>2, <3>3 DEF excusedNext
    <3> QED BY Zenon, <3>1, <3>2, <3>3
  <2> QED BY Zenon, <2>3, <2>4
<1> QED BY Zenon, <1>6, <1>7

LEMMA ProvidingStep ==
  ASSUME TypeOK, TypeOK', [Next]_vars, \A s \in Steps : watched(s),
         TriedInv, RetryInv, work # NoWork => mirroring /\ providing, work' # NoWork
  PROVE  providingNext
<1>1. shape' = shape /\ stepNames \subseteq Steps
  BY Zenon, ShapeFrame, NamesOfOrder
<1>2. ASSUME NEW s \in Steps
      PROVE  /\ age(runners[s]) <= age(runners'[s])
             /\ age(runners[s]) \in Nat /\ age(runners'[s]) \in Nat
             /\ work # NoWork => age(work.list[s]) \in Nat
             /\ age(runnersCache[s]) <= age(runners[s])
             /\ age(runnersCache[s]) \in Nat
  <2>1. /\ runners[s] \in RunnerObject /\ runners'[s] \in RunnerObject
        /\ runnersCache[s] \in RunnerObject
        /\ work # NoWork => work.list[s] \in RunnerObject
    BY DEF TypeOK, Work, RunnerObjects
  <2> QED BY Zenon, <2>1, RunnersGrow, AgeType DEF watched
<1>3. \A s \in Steps : age(work'.list[s]) <= age(runners'[s])
  <2>1. CASE work = NoWork /\ StartOfPass
    <3>1. work'.list = runnersCache /\ runners' = runners
      BY Zenon, <2>1, StartWork, StartFrame
    <3> QED BY Zenon, <1>2, <3>1
  <2>2. CASE work # NoWork /\ work'.list = work.list
    <3>1. \A s \in Steps : age(work.list[s]) <= age(runners[s])
      BY Zenon, <2>2 DEF providing
    <3> QED BY <1>2, <2>2, <3>1
  <2> QED BY Zenon, <2>1, <2>2, WorkMoves
<1>4. ASSUME wf'.live, ~rejected, work'.next # 0, work'.base.startTime # 0,
             work'.local.steps = work'.base.steps, NEW s \in stepNames, ~ahead(s)'
      PROVE  \/ age(work'.list[s]) < age(runners'[s])
             \/ providedNext(s, work'.base.steps, work'.list)
  <2>1. wf.live /\ s \in Steps
    BY Zenon, <1>1, <1>4, LiveFrame
  <2>2. ~StartOfPass
    BY Zenon, <1>4, AllAhead
  <2>3. /\ work # NoWork /\ work'.base = work.base /\ work'.list = work.list
        /\ work.next # 0
    BY Zenon, <1>4, <2>2, WorkMoves
  <2>4. ASSUME work.local.steps = work.base.steps, ~ahead(s)
        PROVE  \/ age(work'.list[s]) < age(runners'[s])
               \/ providedNext(s, work'.base.steps, work'.list)
    <3>1. CASE age(work.list[s]) < age(runners[s])
      BY <1>2, <2>1, <2>3, <3>1
    <3>2. CASE provided(s, work.base.steps, work.list)
      BY Zenon, <2>3, <3>2, ProvidedLasts
    <3> QED BY Zenon, <1>4, <2>1, <2>3, <2>4, <3>1, <3>2 DEF providing
  <2>5. CASE StepWithoutCall \/ CreateRunner \/ CreateRunnerFails \/ RetryStep
    <3>1. /\ inStepLoop /\ work \in Work /\ work' \in Work /\ stepNow \in Steps
          /\ \A t \in Steps : t # stepNow =>
               work'.local.steps[t] = work.local.steps[t]
      BY Zenon, <2>5, IterationFrame
    <3>2. ahead(stepNow)
      BY Zenon, <2>5, AheadEffect
    <3>3. work.local.steps[stepNow] = work.base.steps[stepNow]
      BY Zenon, <2>3, <3>1, <3>2 DEF mirroring
    <3>4. work.local.steps = work.base.steps
      <4>1. /\ work.local.steps \in [Steps -> StepStatuses]
            /\ work.base.steps \in [Steps -> StepStatuses]
        BY Zenon, <3>1 DEF Work, WorkflowStatus
      <4> QED BY <1>4, <2>3, <3>1, <3>3, <4>1
    <3>5. CASE s = stepNow
      BY Zenon, <1>3, <1>4, <2>1, <2>3, <2>5, <3>4, <3>5, ProvidesNow
    <3>6. CASE s # stepNow
      BY Zenon, <1>4, <2>1, <2>4, <2>5, <3>4, <3>6, AheadStays
    <3> QED BY Zenon, <3>5, <3>6
  <2>6. CASE EndSteps
    BY Zenon, <1>4, <2>3, <2>4, <2>6, EndEffect, AllAhead
  <2>7. CASE Environment \/ UNCHANGED vars
    <3>1. work' = work
      BY Zenon, <1>1, <2>7, EnvironmentFrame DEF vars, procVars
    <3>2. ~ahead(s)
      BY Zenon, <1>1, <1>4, <3>1 DEF ahead
    <3> QED BY Zenon, <1>4, <2>4, <3>1, <3>2
  <2>8. ~PatchStatus /\ ~PatchStatusFails
    BY Zenon DEF PatchStatus, PatchStatusFails
  <2> QED BY Zenon, <2>2, <2>5, <2>6, <2>7, <2>8, NextSplit DEF RestOfPass
<1> QED BY Zenon, <1>3, <1>4 DEF providingNext

\* What holds when the operator is idle, after the step.
idleProvidedNext ==
  \/ wfCache' # wf' \/ runnersCache' # runners'
  \/ ~wfCache'.live \/ rejected \/ wfCache'.startTime = 0
  \/ \A s \in stepNames : providedNext(s, wfCache'.steps, runnersCache')

\* A pass that has changed nothing ends, and its key is not queued again.
LEMMA IdleProvided ==
  ASSUME TypeOK, [Next]_vars, mirroring, providing, work # NoWork, ~queued,
         EndSteps \/ PatchStatus, work.next # 0, work.local.steps = work.base.steps,
         UNCHANGED <<wfCache, runnersCache, runners>>
  PROVE  idleProvidedNext
<1>1. work.base = wfCache /\ work.list = runnersCache /\ wfCache.live
  BY Zenon DEF mirroring
<1>2. SUFFICES ASSUME wfCache = wf', runnersCache = runners, ~rejected,
                      wfCache.startTime # 0, NEW s \in stepNames
               PROVE  providedNext(s, wfCache.steps, runnersCache)
  BY Zenon DEF idleProvidedNext
<1>3. wf.live
  BY Zenon, <1>1, <1>2, LiveFrame
<1>4. ~ahead(s)
  BY Zenon, AllAhead DEF PatchStatus, ahead
<1>5. ~(age(runnersCache[s]) < age(runners[s]))
  <2>1. s \in Steps
    BY Zenon, NamesOfOrder
  <2>2. age(runners[s]) \in Nat
    BY <2>1, AgeType DEF TypeOK, RunnerObjects
  <2> QED BY <1>2, <2>2
<1> QED BY Zenon, <1>1, <1>2, <1>3, <1>4, <1>5, ProvidedLasts DEF providing

LEMMA IdleProvidedKept ==
  ASSUME TypeOK, TypeOK', MirrorInv, ProvideInv, work' = NoWork, ~queued',
         Environment \/ UNCHANGED vars
  PROVE  idleProvidedNext
<1>1. [Next]_vars /\ \A s \in Steps : watched(s)
  BY NextSplit DEF MirrorInv
<1>2. /\ ~queued /\ work = NoWork
      /\ wfCache' = wfCache /\ runnersCache' = runnersCache
  BY <1>1, QuietFrame
<1>3. \/ wfCache # wf \/ runnersCache # runners
      \/ ~wfCache.live \/ rejected \/ wfCache.startTime = 0
      \/ \A s \in stepNames : provided(s, wfCache.steps, runnersCache)
  BY Zenon, <1>2 DEF ProvideInv
<1>4. CASE wfCache # wf
  <2>1. wf' = wf \/ (wf' = [wf EXCEPT !.live = FALSE] /\ wf \in WorkflowStatus)
    BY EnvironmentFrame DEF vars, apiVars, TypeOK
  <2>2. wf' = wf \/ ~wf'.live
    BY Zenon, <2>1 DEF WorkflowStatus
  <2>3. wfCache' # wf' \/ ~wfCache'.live
    BY Zenon, <1>2, <1>4, <2>2
  <2> QED BY Zenon, <2>3 DEF idleProvidedNext
<1>5. CASE runnersCache # runners
  BY Zenon, <1>1, <1>2, <1>5, NeverBack DEF idleProvidedNext
<1> QED BY Zenon, <1>1, <1>2, <1>3, <1>4, <1>5, ProvidedLasts DEF idleProvidedNext

LEMMA ProvideStep ==
  ASSUME TypeOK, TypeOK', [Next]_vars, MirrorInv, RetryInv, TriedInv, ProvideInv
  PROVE  ProvideInv'
<1>1. (\A s \in Steps : watched(s)) /\ (work # NoWork => mirroring /\ providing)
  BY Zenon DEF MirrorInv, ProvideInv
<1>2. shape' = shape
  BY Zenon, ShapeFrame
<1>3. work' # NoWork => providingNext
  BY Zenon, <1>1, ProvidingStep
<1>4. ASSUME work' = NoWork, ~queued' PROVE idleProvidedNext
  <2>1. CASE StartOfPass
    BY Zenon, <1>4, <2>1, IdleStart DEF idleProvidedNext
  <2>2. CASE StepWithoutCall \/ CreateRunner \/ CreateRunnerFails \/ RetryStep
    BY Zenon, <1>4, <2>2, IterationFrame
  <2>3. CASE EndSteps
    <3>1. /\ work # NoWork /\ work \in Work /\ work.then = "steps" /\ ~work.updated
          /\ UNCHANGED <<wfCache, runnersCache, runners, queued>>
          /\ work.next > Len(shape.order)
      BY <1>4, <2>3, EndEffect, NoWorkAssumption
    <3>2. work.next # 0
      <4>1. shape.order \in Seq(Steps) /\ work.next \in Nat
        BY Zenon, <3>1, ShapesAssumption DEF WorkflowSpecs, TypeOK, Work
      <4> QED BY Zenon, <3>1, <4>1, PastTheEnd
    <3>3. work.local.steps = work.base.steps
      BY Zenon, <1>1, <3>1, <3>2 DEF mirroring
    <3> QED BY Zenon, <1>1, <1>4, <2>3, <3>1, <3>2, <3>3, IdleProvided
  <2>4. CASE PatchStatus
    <3>1. /\ work # NoWork /\ UNCHANGED <<wfCache, runnersCache, runners, queued>>
          /\ wf' = mergePatch(wf, work.base, work.local)
      BY Zenon, <2>4 DEF PatchStatus, cacheVars
    <3>2. work.base = wfCache
      BY Zenon, <1>1, <1>4, <3>1 DEF mirroring
    <3>3. SUFFICES ASSUME wfCache = wf', ~rejected, wfCache.startTime # 0
                   PROVE  idleProvidedNext
      BY Zenon, <3>1 DEF idleProvidedNext
    <3>4. /\ work.local.phase = work.base.phase /\ work.local.steps = work.base.steps
      <4>1. /\ wf'.phase = merge(wf.phase, work.base.phase, work.local.phase)
            /\ wf'.steps = merge(wf.steps, work.base.steps, work.local.steps)
        BY Zenon, <3>1 DEF mergePatch
      <4> QED BY Zenon, <3>2, <3>3, <4>1 DEF merge
    <3>5. work.next # 0
      BY Zenon, <1>1, <3>1, <3>2, <3>3, <3>4 DEF mirroring
    <3> QED BY Zenon, <1>1, <1>4, <2>4, <3>1, <3>4, <3>5, IdleProvided
  <2>5. CASE PatchStatusFails
    BY Zenon, <1>4, <2>5 DEF PatchStatusFails
  <2>6. CASE Environment \/ UNCHANGED vars
    BY Zenon, <1>4, <2>6, IdleProvidedKept
  <2> QED BY Zenon, <2>1, <2>2, <2>3, <2>4, <2>5, <2>6, NextSplit DEF RestOfPass
<1>5. (rejected' <=> rejected) /\ stepNames' = stepNames
  BY <1>2 DEF rejected, detectCycle, stepNames
<1>6. providingNext => providing'
  BY Zenon, <1>2, <1>5 DEF providing, providingNext, provided, providedNext, excused,
                           excusedNext, runs, runsUntried
<1>7. idleProvidedNext => \/ wfCache' # wf' \/ runnersCache' # runners'
                          \/ ~wfCache'.live \/ rejected' \/ wfCache'.startTime = 0
                          \/ \A s \in stepNames' :
                               provided(s, wfCache.steps, runnersCache)'
  BY Zenon, <1>2, <1>5 DEF idleProvidedNext, provided, providedNext, excused,
                           excusedNext, runs, runsUntried
<1> QED BY Zenon, <1>3, <1>4, <1>6, <1>7 DEF ProvideInv

\* No step is forgotten: when the operator has nothing left to do, every step that
\* may run has a Runner, whatever the workflow, the caches and the users; only
\* calls that failed excuse it, one for a retry, two for a first Runner.
THEOREM RunnableTheorem == Spec => []RunnableMeansRunner
<1>1. Init => TriedInv /\ ProvideInv
  <2> SUFFICES ASSUME Init PROVE TriedInv /\ ProvideInv
    OBVIOUS
  <2>1. /\ work = NoWork /\ queued /\ wfCache = wf /\ wf.startTime = 0
        /\ wf.steps = [s \in Steps |-> NoStepStatus]
        /\ \A s \in Steps : created[s] = 0
        /\ \A s \in Steps : runners[s] = NoRunner /\ runnersCache[s] = NoRunner
    BY DEF Init
  <2>2. ~NoRunner.there /\ ~(0 > 0)
    BY DEF NoRunner
  <2> QED BY Zenon, <2>1, <2>2 DEF TriedInv, ProvideInv, allAttempted
<1>2. MirrorInv => clock # 0
  BY Zenon DEF MirrorInv
<1>3. ProvideInv => RunnableMeansRunner
  BY Zenon DEF ProvideInv, RunnableMeansRunner, Quiescent, Started, provided
<1> QED BY <1>1, <1>2, <1>3, TriedStep, ProvideStep, TypeCorrect, MirrorInvariant,
           RetryInvariant, PTL DEF Spec
=============================================================================
