------------------------- MODULE FlatWorkflowProofs -------------------------
(* Proofs about FlatWorkflow for every value of its constants. *)
EXTENDS FlatWorkflow, TLAPS

-----------------------------------------------------------------------------
(* Inductive invariant *)

honestSteps(steps) ==
  \A s \in Steps : steps[s].phase = "Succeeded" => s \in succeeded
honestRunners(list) ==
  \A s \in Steps : list[s].phase = "Succeeded" => s \in succeeded

\* What makes StepSuccessIsReal and DependenciesSucceededFirst inductive: no
\* copy of the status or of the Runners, however old, claims a success that
\* did not happen.
SuccessInv ==
  /\ honestSteps(wf.steps) /\ honestSteps(wfCache.steps)
  /\ honestRunners(runners) /\ honestRunners(runnersCache)
  /\ work # NoWork => honestSteps(work.local.steps) /\ honestRunners(work.list)
  /\ DependenciesSucceededFirst

\* What makes NoRunnerForCycle inductive: no walk over the steps ever starts.
CycleInv ==
  detectCycle =>
    /\ \A s \in Steps : ~runners[s].there
    /\ work # NoWork => work.then = "patch"

allDone(steps) ==
  \A s \in stepNames : steps[s].phase \in {"Succeeded", "Skipped"}

\* What makes SuccessMeansAllDone inductive: the status a pass patches is still
\* the one it read, and the phase it writes agrees with the steps it writes.
PhaseInv ==
  shape \notin StaleFor =>
    /\ SuccessMeansAllDone
    /\ work # NoWork =>
         /\ work.base.phase = wf.phase /\ work.base.steps = wf.steps
         /\ work.then = "patch" /\ work.local.phase = "Succeeded" =>
              allDone(work.local.steps)

\* A step without a status has not been retried.
unrecordedUntried(steps) ==
  \A s \in Steps : steps[s].phase = "none" => steps[s].retryCount = 0

\* The retries of a step, as the pass in progress counts them.
counted(s) ==
  IF work = NoWork THEN wf.steps[s].retryCount
                   ELSE work.local.steps[s].retryCount

\* The walk has not come to step s yet.
ahead(s) ==
  /\ work # NoWork /\ work.then = "steps"
  /\ \E i \in DOMAIN shape.order : i >= work.next /\ shape.order[i] = s

\* Every Runner of s but the present one was replaced by a counted retry or
\* lost its count to a fault; a Runner that the walk may still create has its
\* place left.
triesCovered(s) ==
  /\ created[s] <= shape.maxRetries[s] + 1 + faults
  /\ counted(s) <= shape.maxRetries[s]
  /\ wf.steps[s].retryCount <= counted(s)
  /\ counted(s) <= wf.steps[s].retryCount + 1
  /\ wf.live => created[s] <= counted(s) + faults
                              + (IF runners[s].there THEN 1 ELSE 0)
  /\ ahead(s) => /\ work.local.steps[s] = wf.steps[s]
                 /\ work.list[s].there \/ created[s] <= counted(s) + faults

\* How far a Runner has come: its number, then its phase, then its removal.
age(r) ==
  5 * r.uid + (IF ~r.there THEN 4 ELSE
               IF r.phase = "none" THEN 0 ELSE
               IF r.phase = "Pending" THEN 1 ELSE
               IF r.phase = "Running" THEN 2 ELSE 3)

\* Under MirrorInv: a change of a Runner is one that the informer delivers and
\* that queues the key.
watched(s) ==
  /\ runners[s] = NoRunner \/ runners[s].owned
  /\ runnersCache[s] = NoRunner \/ runnersCache[s].owned
  /\ ~runners[s].there => runners[s] = removed(runners[s])
  /\ runners[s].uid <= created[s] /\ age(runnersCache[s]) <= age(runners[s])

\* Under MirrorInv: a pass that has changed nothing so far, and whose key is not
\* queued again, has found every step behind it mirrored in what the caches show.
mirroring ==
  /\ work.base.live
  /\ ~queued => work.base = wfCache /\ work.list = runnersCache
  /\ work.next = 0 => \/ rejected \/ work.base.startTime = 0
                      \/ work.local.phase # work.base.phase
  /\ work.next # 0 =>
       /\ work.then = "steps" /\ ~work.updated => work.local = work.base
       /\ work.base.startTime = 0 => work.local.startTime # 0
       /\ work.then = "patch" =>
            work.local.phase = computeWorkflowPhase(stepNames, work.local.steps)
       /\ \A s \in Steps : ahead(s) => work.local.steps[s] = work.base.steps[s]
       /\ work.local.steps = work.base.steps => \A s \in stepNames :
            \/ ahead(s)
            \/ mirrored(s, work.base.steps, work.list,
                 work.base.steps[s].retryCount < shape.maxRetries[s])

\* What makes SettledMeansMirrored inductive: a pass that ends without a change
\* leaves a settled status, and a change of what the caches show queues the key
\* when they catch up.
MirrorInv ==
  /\ clock # 0 /\ \A s \in Steps : watched(s)
  /\ work # NoWork => mirroring
  /\ work = NoWork /\ ~queued =>
       \/ wfCache # wf \/ runnersCache # runners
       \/ ~wfCache.live \/ rejected \/ wfCache.startTime = 0
       \/ settled(wfCache, runnersCache)

\* Runner c, of a cache, is an earlier state of r: the controller replaces a
\* Runner only when it has seen it go, and deletes one only when it has seen it
\* fail.
earlier(c, r) ==
  /\ age(c) <= age(r)
  /\ c.there => r.uid = c.uid
  /\ c.there /\ c.phase = "Succeeded" => r.there /\ r.phase = "Succeeded"
  /\ c.there /\ c.phase = "Failed" => ~r.there \/ r.phase = "Failed"
  /\ ~r.there => c.uid = r.uid

expired(status) ==
  /\ shape.timeout # 0 /\ status.startTime # 0
  /\ clock - status.startTime > shape.timeout

\* A step shown as Succeeded has its Runner, and one that has a CompletedAt for
\* another reason has no retry left, or the workflow has timed out.
conclusive(status) ==
  \A s \in Steps :
    /\ status.steps[s].phase = "Succeeded" =>
         /\ runnersCache[s].there /\ runnersCache[s].phase = "Succeeded"
         /\ work # NoWork => work.list[s].there /\ work.list[s].phase = "Succeeded"
    /\ status.steps[s].phase # "Succeeded" /\ status.steps[s].completedAt # 0 =>
         status.steps[s].retryCount >= shape.maxRetries[s] \/ expired(status)

\* What MirrorInv needs to exclude a step that waits for its backoff.
WaitInv ==
  ~startsCompleted /\ wf.live =>
    /\ \A s \in Steps : earlier(runnersCache[s], runners[s])
    /\ conclusive(wf) /\ conclusive(wfCache)
    /\ work # NoWork =>
         /\ conclusive(work.local)
         /\ shape \notin StaleFor =>
              work.base.steps = wf.steps /\ work.base.startTime = wf.startTime
         /\ \A s \in Steps : /\ earlier(work.list[s], runners[s])
                             /\ earlier(work.list[s], runnersCache[s])
         /\ work.next # 0 /\ ~isWorkflowTerminal(work.base.phase) =>
              \A s \in Steps :
                \/ work.base.steps[s].phase \in DoneStepPhases
                \/ work.base.steps[s].completedAt = 0
                \/ work.base.steps[s].retryCount >= shape.maxRetries[s]

\* Every step is done.
ended(steps) == \A s \in stepNames : steps[s].phase \in DoneStepPhases

\* What the statuses show as done stays so: the Runner is there and is not
\* looked at again, or the dependencies, which are done, skip the step.
closed(steps) ==
  \A s \in Steps :
    /\ steps[s].phase \in {"Succeeded", "Failed"} => runners[s].there
    /\ steps[s].phase = "Skipped" =>
         evaluateStep(shape.deps[s], shape.when[s], steps) = "skip"

\* What makes EndedStaysEnded inductive: once all steps are done a pass finds
\* them as they were, and so it computes a terminal phase again.
EndInv ==
  /\ shape \notin StaleFor \cup RunnersDeletable /\ shape.timeout = 0 /\ wf.live
  => /\ isWorkflowTerminal(wf.phase) => ended(wf.steps)
     /\ closed(wf.steps)
     /\ work # NoWork =>
          /\ work.base.phase = wf.phase /\ work.base.steps = wf.steps
          /\ closed(work.local.steps)
          /\ work.then = "steps" => shape.order # <<>>
          /\ isWorkflowTerminal(wf.phase) =>
               /\ work.local.steps = wf.steps
               /\ work.then = "patch" => isWorkflowTerminal(work.local.phase)
          /\ work.then = "patch" /\ isWorkflowTerminal(work.local.phase) =>
               ended(work.local.steps)
          /\ \A s \in Steps : ahead(s) =>
               /\ work.local.steps[s] = wf.steps[s]
               /\ work.list[s].there = runners[s].there

\* What makes RetriesBounded inductive: a fault loses one count of a step at
\* most, as a pass counts each step once and patches the status it read.
RetryInv ==
  shape \notin StaleFor \cup RunnersDeletable =>
    /\ unrecordedUntried(wf.steps)
    /\ work # NoWork =>
         /\ work.base.steps = wf.steps /\ unrecordedUntried(work.local.steps)
         /\ work.then = "steps" /\ ~work.updated => work.local.steps = wf.steps
    /\ \A s \in Steps : triesCovered(s)

USE DEF StepPhases, DoneStepPhases, ActiveStepPhases, WorkflowPhases, RunnerPhases

-----------------------------------------------------------------------------
(* Arithmetic *)

\* A walk past the end of the order has no step ahead.
LEMMA PastTheEnd ==
  ASSUME NEW S, NEW order \in Seq(S), NEW n \in Nat, n > Len(order)
  PROVE  n # 0 /\ \A i \in DOMAIN order : ~(i >= n)
OBVIOUS

\* A count has not reached its limit if and only if it is below it.
LEMMA NatOrder == \A m, n \in Nat : m >= n <=> ~(m < n)
OBVIOUS

-----------------------------------------------------------------------------
(* Types of the decisions *)

\* upsertStepStatus yields a step status.
LEMMA UpsertType ==
  ASSUME NEW s \in StepStatuses, NEW p \in StepPhases, NEW now \in Nat
  PROVE  upsertStepStatus(s, p, now) \in StepStatuses
BY Zenon DEF upsertStepStatus, StepStatuses, NoStepStatus

\* computeWorkflowPhase yields a workflow phase.
LEMMA PhaseType ==
  ASSUME NEW items, NEW statuses
  PROVE  computeWorkflowPhase(items, statuses) \in WorkflowPhases
BY DEF computeWorkflowPhase

\* The phase and what follows from it keep a status a status.
LEMMA WithPhaseType ==
  ASSUME NEW s \in WorkflowStatus, clock \in Nat
  PROVE  withPhase(s) \in WorkflowStatus /\ withPhase(s).steps = s.steps
<1> DEFINE phase == computeWorkflowPhase(stepNames, s.steps)
<1>1. phase \in {"none", "Pending", "Running", "Succeeded", "Failed"}
  BY PhaseType
<1>2. phase # "none"
  BY DEF computeWorkflowPhase
<1>3. withPhase(s) = [s EXCEPT
         !.phase = phase,
         !.reason = IF phase # s.phase /\ phase # "Pending" THEN phase ELSE @,
         !.completionTime =
           IF isWorkflowTerminal(phase) /\ @ = 0 THEN clock ELSE @]
  BY DEF withPhase
<1> HIDE DEF phase
<1> QED BY Zenon, <1>1, <1>2, <1>3 DEF WorkflowStatus

\* A merge patch of statuses yields a status.
LEMMA MergeType ==
  ASSUME NEW s \in WorkflowStatus, NEW b \in WorkflowStatus,
         NEW n \in WorkflowStatus
  PROVE  /\ mergePatch(s, b, n) \in WorkflowStatus
         /\ mergePatch(s, b, n).steps \in {s.steps, n.steps}
BY DEF mergePatch, merge, WorkflowStatus

\* The absent Runner, one that was removed and a new one are Runners.
LEMMA RunnerType ==
  /\ NoRunner \in RunnerObject
  /\ \A r \in RunnerObject : removed(r) \in RunnerObject
  /\ \A n \in Nat : buildStepRunner(n) \in RunnerObject
BY Zenon DEF NoRunner, removed, buildStepRunner, RunnerObject

-----------------------------------------------------------------------------
(* Type correctness *)

\* The step that the walk has come to, its status, and what is written for it.
LEMMA WalkType ==
  ASSUME TypeOK, inStepLoop
  PROVE  /\ work \in Work /\ work.next + 1 \in Nat /\ work.next + 1 # 0
         /\ stepNow \in Steps
         /\ statusNow \in StepStatuses
         /\ runnerNow \in RunnerObject
<1>1. work \in Work /\ work.next \in Nat /\ work.next # 0
  BY DEF TypeOK, inStepLoop, Work
<1>2. shape.order \in Seq(Steps)
  BY ShapesAssumption DEF WorkflowSpecs, TypeOK
<1>3. work.next \in 1 .. Len(shape.order)
  BY <1>1, <1>2 DEF inStepLoop
<1>4. stepNow \in Steps
  BY <1>2, <1>3 DEF stepNow
<1> QED
  BY <1>1, <1>4 DEF statusNow, runnerNow, Work, WorkflowStatus, RunnerObjects

\* An iteration that records s, or nothing, for its step keeps work well typed.
LEMMA RecordType ==
  ASSUME TypeOK, inStepLoop,
         continueLoop \/ \E s \in StepStatuses : recordStep(s)
  PROVE  work' \in Work /\ (work'.then = "steps" => work'.next # 0)
<1>1. work \in Work /\ work.next + 1 \in Nat /\ work.next + 1 # 0 /\ stepNow \in Steps
  BY WalkType
<1>2. CASE continueLoop
  <2>1. \A n \in Nat : [work EXCEPT !.next = n] \in Work
                         /\ [work EXCEPT !.next = n].next = n
    BY <1>1 DEF Work
  <2> QED BY <1>1, <1>2, <2>1 DEF continueLoop
<1>3. ASSUME NEW s \in StepStatuses, recordStep(s)
      PROVE  work' \in Work /\ (work'.then = "steps" => work'.next # 0)
  <2>1. [work.local EXCEPT !.steps[stepNow] = s] \in WorkflowStatus
    BY Zenon, <1>1 DEF Work, WorkflowStatus
  <2>2. \A n \in Nat, l \in WorkflowStatus :
          /\ [work EXCEPT !.next = n, !.updated = TRUE, !.local = l] \in Work
          /\ [work EXCEPT !.next = n, !.updated = TRUE, !.local = l].next = n
    BY Zenon, <1>1 DEF Work
  <2>3. work' = [work EXCEPT !.next = work.next + 1, !.updated = TRUE,
                   !.local = [work.local EXCEPT !.steps[stepNow] = s]]
    BY Zenon, <1>1, <1>3 DEF recordStep, Work, WorkflowStatus
  <2> QED BY Zenon, <1>1, <2>1, <2>2, <2>3
<1> QED BY <1>2, <1>3

\* The initial states are well typed.
LEMMA InitType == Init => TypeOK
<1> SUFFICES ASSUME Init PROVE TypeOK OBVIOUS
<1>1. [s \in Steps |-> NoStepStatus] \in [Steps -> StepStatuses]
  BY DEF NoStepStatus, StepStatuses
<1>2. wf \in WorkflowStatus
  BY <1>1 DEF Init, WorkflowStatus
<1>3. runners \in RunnerObjects
  BY RunnerType DEF Init, RunnerObjects
<1> QED BY <1>2, <1>3 DEF Init, TypeOK

\* The reconcile of the cached Workflow, up to its walk or to its patch.
StartOfPass ==
  \/ ReconcileReadFails \/ ReconcileNotFound \/ ReconcileRejected
  \/ ReconcileTimeout \/ ReconcileDeferred \/ ReconcileSteps

\* The rest of a reconcile.
RestOfPass ==
  \/ StepWithoutCall \/ CreateRunner \/ CreateRunnerFails \/ RetryStep
  \/ EndSteps \/ PatchStatus \/ PatchStatusFails

\* Everything that is not the controller.
Environment ==
  \/ SyncWorkflow \/ SyncRunners \/ TimerFires \/ Tick
  \/ (\E s \in Steps : RunnerAdvances(s))
  \/ UserDeletesRunner \/ UserDeletesWorkflow \/ RunnerCollected
  \/ Crash

\* Next taken apart for the proofs.
LEMMA NextSplit == Next <=> StartOfPass \/ RestOfPass \/ Environment
BY DEF Next, Controller, StartOfPass, RestOfPass, Environment

\* The status that handleTimeoutFlat writes.
timeoutStatus ==
  [wfCache EXCEPT
     !.phase = "Failed", !.completionTime = clock, !.reason = "TimedOut",
     !.steps = [s \in Steps |->
                  IF s \in stepNames
                    THEN upsertStepStatus(wfCache.steps[s], "Failed", clock)
                    ELSE wfCache.steps[s]]]

\* handleTimeoutFlat writes a status in which no step has newly succeeded.
LEMMA TimeoutStatus ==
  ASSUME wfCache \in WorkflowStatus, clock \in Nat
  PROVE  /\ timeoutStatus \in WorkflowStatus
         /\ \A s \in Steps : timeoutStatus.steps[s].phase = "Succeeded" =>
              wfCache.steps[s].phase = "Succeeded"
<1> DEFINE steps == [s \in Steps |->
                  IF s \in stepNames
                    THEN upsertStepStatus(wfCache.steps[s], "Failed", clock)
                    ELSE wfCache.steps[s]]
<1>1. steps \in [Steps -> StepStatuses]
  BY UpsertType DEF WorkflowStatus
<1>2. \A s \in Steps : steps[s].phase = "Succeeded" =>
        wfCache.steps[s].phase = "Succeeded"
  BY DEF upsertStepStatus, WorkflowStatus, StepStatuses, NoStepStatus
<1> HIDE DEF steps
<1>3. timeoutStatus = [wfCache EXCEPT !.phase = "Failed",
         !.completionTime = clock, !.reason = "TimedOut", !.steps = steps]
  BY Zenon DEF timeoutStatus, steps
<1> QED BY Zenon, <1>1, <1>2, <1>3 DEF WorkflowStatus

\* What the start of a pass leaves in work: a status well typed, in which no
\* step is newly Succeeded, and the cached Runners.
LEMMA StartEffect ==
  ASSUME TypeOK, StartOfPass, work = NoWork,
         work' # NoWork \/ (~ReconcileReadFails /\ ~ReconcileNotFound)
  PROVE  /\ work' \in Work /\ (work'.then = "steps" => work'.next # 0)
         /\ work'.list = runnersCache
         /\ \A s \in Steps : work'.local.steps[s].phase = "Succeeded" =>
              wfCache.steps[s].phase = "Succeeded"
<1> USE DEF TypeOK
<1>1. CASE ReconcileReadFails \/ ReconcileNotFound
  BY Zenon, <1>1 DEF ReconcileReadFails, ReconcileNotFound, procVars
<1>2. ASSUME NEW new \in WorkflowStatus, NEW due \in Nat,
             callPatch(wfCache, new, due),
             \A s \in Steps : new.steps[s].phase = "Succeeded" =>
               wfCache.steps[s].phase = "Succeeded"
      PROVE  /\ work' \in Work /\ (work'.then = "steps" => work'.next # 0)
             /\ work'.list = runnersCache
             /\ \A s \in Steps : work'.local.steps[s].phase = "Succeeded" =>
                  wfCache.steps[s].phase = "Succeeded"
  BY <1>2 DEF callPatch, Work
<1>3. CASE ReconcileRejected
  <2> DEFINE new == [wfCache EXCEPT !.reason =
               IF shape.order = <<>> THEN "NoSteps" ELSE "CycleDetected"]
  <2>1. new \in WorkflowStatus /\ new.steps = wfCache.steps
    BY Zenon DEF WorkflowStatus
  <2>2. callPatch(wfCache, new, 0)
    BY Zenon, <1>3 DEF ReconcileRejected
  <2> QED BY Zenon, <2>1, <2>2, <1>2
<1>4. CASE ReconcileTimeout
  <2>1. callPatch(wfCache, timeoutStatus, 0)
    BY <1>4 DEF ReconcileTimeout, timeoutStatus
  <2> QED BY <2>1, <1>2, TimeoutStatus
<1>5. CASE ReconcileDeferred
  <2> DEFINE new == [wfCache EXCEPT !.reason = "QuotaExceeded"]
  <2>1. new \in WorkflowStatus /\ new.steps = wfCache.steps
    BY DEF WorkflowStatus
  <2>2. callPatch(wfCache, new, clock + 1) /\ clock + 1 \in Nat
    BY <1>5 DEF ReconcileDeferred
  <2> QED BY Zenon, <2>1, <2>2, <1>2
<1>6. CASE ReconcileSteps
  <2> DEFINE local == IF wfCache.startTime = 0
                        THEN [wfCache EXCEPT !.startTime = clock] ELSE wfCache
  <2>1. local \in WorkflowStatus /\ local.steps = wfCache.steps
    BY DEF WorkflowStatus
  <2>2. PICK u \in BOOLEAN :
          work' = [local |-> local, base |-> wfCache, list |-> runnersCache,
                   next |-> 1, updated |-> u, then |-> "steps", requeueAfter |-> 0]
    BY <1>6, Zenon DEF ReconcileSteps
  <2> HIDE DEF local
  <2> QED BY <2>1, <2>2 DEF Work
<1> QED BY Zenon, <1>1, <1>3, <1>4, <1>5, <1>6 DEF StartOfPass

\* The start of a pass changes nothing but the queue, work and the faults.
LEMMA StartFrame ==
  ASSUME TypeOK, StartOfPass
  PROVE  /\ work = NoWork
         /\ UNCHANGED <<shape, wf, runners, wfCache, runnersCache, timer, clock,
                        succeeded, created>>
         /\ queued' \in BOOLEAN /\ faults' \in Nat
<1>1. queued \in BOOLEAN /\ faults \in Nat /\ (fault => faults' \in Nat)
  BY DEF TypeOK, fault
<1>2. CASE ReconcileReadFails
  BY <1>1, <1>2 DEF ReconcileReadFails, apiVars, cacheVars, procVars
<1>3. CASE ~ReconcileReadFails
  <2>1. startReconcile /\ faults' = faults
    BY Zenon, <1>3 DEF StartOfPass, ReconcileNotFound, ReconcileRejected,
                ReconcileTimeout, ReconcileDeferred, ReconcileSteps
  <2> QED BY Zenon, <2>1, <1>1 DEF startReconcile, apiVars, cacheVars
<1> QED BY <1>2, <1>3

\* The start of a pass keeps the types.
LEMMA StartType == TypeOK /\ StartOfPass => TypeOK'
<1> SUFFICES ASSUME TypeOK, StartOfPass PROVE TypeOK' BY Zenon
<1>1. work' # NoWork => work' \in Work /\ (work'.then = "steps" => work'.next # 0)
  BY Zenon, StartEffect, StartFrame
<1> QED BY <1>1, StartFrame DEF TypeOK

\* An iteration of the walk that makes no call records a well-typed status, in
\* which the step is Succeeded only if it was, or if its listed Runner is.
LEMMA WithoutCallEffect ==
  ASSUME TypeOK, StepWithoutCall
  PROVE  \/ continueLoop
         \/ \E s \in StepStatuses :
              /\ recordStep(s)
              /\ s.phase = "Succeeded" => runnerNow.phase = "Succeeded"
<1>1. statusNow \in StepStatuses /\ runnerNow \in RunnerObject /\ clock \in Nat
  BY WalkType DEF StepWithoutCall, TypeOK
<1>2. CASE stepClosed /\ continueLoop
  BY <1>2
<1>3. CASE /\ ~stepClosed /\ decisionNow \in {"skip", "wait"}
           /\ IF statusNow.phase = "none"
                THEN recordStep([NoStepStatus EXCEPT
                       !.phase = IF decisionNow = "skip" THEN "Skipped" ELSE "Waiting"])
                ELSE continueLoop
  <2> DEFINE s == [NoStepStatus EXCEPT
                !.phase = IF decisionNow = "skip" THEN "Skipped" ELSE "Waiting"]
  <2>1. s \in StepStatuses /\ s.phase # "Succeeded"
    BY DEF NoStepStatus, StepStatuses
  <2>2. recordStep(s) \/ continueLoop
    BY <1>3
  <2> QED BY Zenon, <2>1, <2>2
<1>4. CASE /\ ~stepClosed /\ decisionNow = "run" /\ runnerNow.there
           /\ IF retryNow
                THEN /\ ~retryBackoffElapsed(shape.backoff[stepNow], statusNow, clock)
                     /\ continueLoop
                ELSE LET phase == runnerPhaseToStepPhase(runnerNow.phase)
                     IN  IF statusNow.phase # phase
                           THEN recordStep(upsertStepStatus(statusNow, phase, clock))
                           ELSE continueLoop
  <2> DEFINE phase == runnerPhaseToStepPhase(runnerNow.phase)
             s == upsertStepStatus(statusNow, phase, clock)
  <2>1. phase \in StepPhases /\ (phase = "Succeeded" => runnerNow.phase = "Succeeded")
    BY <1>1 DEF runnerPhaseToStepPhase, RunnerObject
  <2>2. (statusNow.phase # phase /\ recordStep(s)) \/ continueLoop
    BY <1>4
  <2>3. s \in StepStatuses
    BY Zenon, <1>1, <2>1, UpsertType
  <2>4. statusNow.phase # phase => s.phase = phase
    BY <1>1 DEF upsertStepStatus, StepStatuses, NoStepStatus
  <2> QED BY Zenon, <2>1, <2>2, <2>3, <2>4
<1> QED BY Zenon, <1>2, <1>3, <1>4 DEF StepWithoutCall

\* The iterations that make a call record nothing, or the Pending phase.
LEMMA CallEffect ==
  ASSUME TypeOK, CreateRunner \/ CreateRunnerFails \/ RetryStep
  PROVE  \/ continueLoop
         \/ \E s \in StepStatuses : recordStep(s) /\ s.phase = "Pending"
<1>1. statusNow \in StepStatuses /\ clock \in Nat
  BY WalkType DEF CreateRunner, CreateRunnerFails, RetryStep, wantsRunner, TypeOK
<1> DEFINE p == upsertStepStatus(statusNow, "Pending", clock)
<1>2. p \in StepStatuses /\ p.phase = "Pending"
  <2>1. p \in StepStatuses
    BY <1>1, UpsertType
  <2>2. p.phase = "Pending"
    BY <1>1 DEF upsertStepStatus, StepStatuses, NoStepStatus
  <2> QED BY <2>1, <2>2
<1> HIDE DEF p
<1>3. p.retryCount + 1 \in Nat
        /\ \A n \in Nat : [p EXCEPT !.retryCount = n] \in StepStatuses
                            /\ [p EXCEPT !.retryCount = n].phase = "Pending"
  BY <1>2 DEF StepStatuses
<1>4. continueLoop \/ recordStep(p) \/ recordStep([p EXCEPT !.retryCount = @ + 1])
  BY DEF CreateRunner, CreateRunnerFails, RetryStep, p
<1> QED BY Zenon, <1>2, <1>3, <1>4

\* The timer that a reconcile leaves is a time.
LEMMA RequeueType ==
  ASSUME TypeOK, NEW s \in WorkflowStatus
  PROVE  /\ timeoutDue(s) \in Nat
         /\ \A due \in Nat : requeue(due) => timer' \in Nat
<1>1. shape.timeout \in Nat
  BY ShapesAssumption DEF WorkflowSpecs, TypeOK
<1> QED BY <1>1 DEF TypeOK, timeoutDue, requeue, WorkflowStatus

\* The rest of a pass keeps the types.
LEMMA RestType == TypeOK /\ RestOfPass => TypeOK'
<1> SUFFICES ASSUME TypeOK, RestOfPass PROVE TypeOK' OBVIOUS
<1> USE DEF apiVars, cacheVars, ghostVars
<1>a. fault => faults' \in Nat
  BY DEF TypeOK, fault
<1>1. CASE StepWithoutCall
  <2>1. work' \in Work /\ (work'.then = "steps" => work'.next # 0)
    BY Zenon, <1>1, WithoutCallEffect, RecordType DEF StepWithoutCall
  <2> QED BY Zenon, <1>1, <2>1 DEF StepWithoutCall, TypeOK
<1>2. CASE CreateRunner \/ CreateRunnerFails \/ RetryStep
  <2>1. inStepLoop
    BY <1>2 DEF CreateRunner, CreateRunnerFails, RetryStep, wantsRunner
  <2>2. work' \in Work /\ (work'.then = "steps" => work'.next # 0)
    BY Zenon, <1>2, <2>1, CallEffect, RecordType
  <2>3. stepNow \in Steps
    BY Zenon, <2>1, WalkType
  <2>4. runners' \in RunnerObjects
    <3>1. created[stepNow] + 1 \in Nat
      BY <2>3 DEF TypeOK
    <3>2. \/ runners' = [runners EXCEPT ![stepNow] = buildStepRunner(created[stepNow] + 1)]
          \/ runners' = [runners EXCEPT ![stepNow] = removed(runners[stepNow])]
          \/ runners' = runners
      BY <1>2 DEF CreateRunner, CreateRunnerFails, RetryStep
    <3> QED BY <2>3, <3>1, <3>2, RunnerType DEF TypeOK, RunnerObjects
  <2>5. created' \in [Steps -> Nat]
    <3>1. created[stepNow] + 1 \in Nat
      BY <2>3 DEF TypeOK
    <3>2. \/ created' = created
          \/ created' = [created EXCEPT ![stepNow] = created[stepNow] + 1]
      BY Zenon, <1>2 DEF CreateRunner, CreateRunnerFails, RetryStep
    <3> QED BY Zenon, <2>3, <3>1, <3>2 DEF TypeOK
  <2>6. faults' \in Nat
    BY Zenon, <1>2, <1>a DEF CreateRunner, CreateRunnerFails, RetryStep, TypeOK
  <2>7. UNCHANGED <<shape, wf, wfCache, runnersCache, queued, timer, clock, succeeded>>
    BY <1>2 DEF CreateRunner, CreateRunnerFails, RetryStep
  <2> QED BY Zenon, <2>2, <2>4, <2>5, <2>6, <2>7 DEF TypeOK
<1>3. CASE EndSteps
  <2>1. work \in Work /\ work.local \in WorkflowStatus /\ clock \in Nat
    BY <1>3 DEF EndSteps, TypeOK, Work
  <2>2. withPhase(work.local) \in WorkflowStatus
    BY <2>1, WithPhaseType
  <2>3. \A l \in WorkflowStatus :
          /\ [work EXCEPT !.local = l, !.then = "patch"] \in Work
          /\ [work EXCEPT !.local = l, !.then = "patch"].then = "patch"
    BY Zenon, <2>1 DEF Work
  <2>4. \/ work' = [work EXCEPT !.local = withPhase(work.local), !.then = "patch"]
             /\ timer' = timer
        \/ work' = NoWork /\ requeue(timeoutDue(work.local))
    BY <1>3 DEF EndSteps
  <2>5. timer' \in Nat
    BY Zenon, <2>1, <2>4, RequeueType DEF TypeOK
  <2>6. work' # NoWork => work' \in Work /\ (work'.then = "steps" => work'.next # 0)
    BY Zenon, <2>2, <2>3, <2>4
  <2> QED BY Zenon, <1>3, <2>5, <2>6 DEF EndSteps, TypeOK
<1>4. CASE PatchStatus
  <2>1. work \in Work /\ work.requeueAfter \in Nat
    BY Zenon, <1>4 DEF PatchStatus, TypeOK, Work
  <2>2. wf' \in WorkflowStatus
    BY Zenon, <1>4, <2>1, MergeType DEF PatchStatus, TypeOK, Work
  <2>3. timeoutDue(wf') \in Nat
    BY <2>2, RequeueType
  <2>4. timer' \in Nat
    <3>1. PICK due \in Nat : requeue(due)
      BY Zenon, <1>4, <2>1, <2>3 DEF PatchStatus
    <3> QED BY Zenon, <3>1, <2>2, RequeueType
  <2> QED BY Zenon, <1>4, <2>2, <2>4 DEF PatchStatus, TypeOK
<1>5. CASE PatchStatusFails
  BY Zenon, <1>5, <1>a DEF PatchStatusFails, TypeOK
<1> QED BY Zenon, <1>1, <1>2, <1>3, <1>4, <1>5 DEF RestOfPass

\* The caches, time, Runners, users and a restart keep the types.
LEMMA EnvironmentType == TypeOK /\ Environment => TypeOK'
<1> SUFFICES ASSUME TypeOK, Environment PROVE TypeOK' BY Zenon
<1> USE DEF apiVars, cacheVars, procVars, ghostVars
<1>1. CASE SyncWorkflow
  BY Zenon, <1>1 DEF SyncWorkflow, TypeOK
<1>2. CASE SyncRunners
  <2>1. queued' \in BOOLEAN
    BY <1>2, Zenon DEF SyncRunners
  <2> QED BY <1>2, <2>1 DEF SyncRunners, TypeOK
<1>3. CASE TimerFires
  BY Zenon, <1>3 DEF TimerFires, TypeOK
<1>4. CASE Tick
  BY <1>4 DEF Tick, TypeOK
<1>5. ASSUME NEW s \in Steps, RunnerAdvances(s) PROVE TypeOK'
  <2>1. PICK p \in {"Pending", "Running"} \cup RunnerOutcomes :
          /\ runners' = [runners EXCEPT ![s].phase = p,
                           ![s].endedAt = IF p \in RunnerOutcomes THEN clock ELSE 0]
          /\ succeeded' = IF p = "Succeeded" THEN succeeded \cup {s} ELSE succeeded
    BY Zenon, <1>5 DEF RunnerAdvances
  <2>2. p \in RunnerPhases
    BY Zenon, <2>1, WorkflowBoundsAssumption
  <2>3. runners' \in RunnerObjects
    <3> DEFINE at == IF p \in RunnerOutcomes THEN clock ELSE 0
               new == [runners[s] EXCEPT !.phase = p, !.endedAt = at]
    <3>1. at \in Nat /\ runners[s] \in RunnerObject
      BY DEF TypeOK, RunnerObjects
    <3> HIDE DEF at
    <3>2. new \in RunnerObject
      BY Zenon, <2>2, <3>1 DEF RunnerObject
    <3>3. runners' = [runners EXCEPT ![s] = new]
      BY Zenon, <2>1 DEF TypeOK, RunnerObjects, at
    <3> HIDE DEF new
    <3> QED BY Zenon, <3>2, <3>3 DEF TypeOK, RunnerObjects
  <2>4. succeeded' \subseteq Steps
    BY Zenon, <2>1 DEF TypeOK
  <2> QED BY <1>5, <2>3, <2>4 DEF RunnerAdvances, TypeOK
<1>6. ASSUME NEW s \in Steps, removeRunner(s) PROVE TypeOK'
  <2>1. runners' \in RunnerObjects
    BY Zenon, <1>6, RunnerType DEF removeRunner, TypeOK, RunnerObjects
  <2> QED BY Zenon, <1>6, <2>1 DEF removeRunner, TypeOK
<1>7. CASE UserDeletesRunner \/ RunnerCollected
  BY <1>6, <1>7 DEF UserDeletesRunner, RunnerCollected
<1>8. CASE UserDeletesWorkflow
  BY ZenonT(40), <1>8 DEF UserDeletesWorkflow, TypeOK, WorkflowStatus
<1>9. CASE Crash
  BY <1>9 DEF Crash, fault, TypeOK
<1> QED BY Zenon, <1>1, <1>2, <1>3, <1>4, <1>5, <1>7, <1>8, <1>9 DEF Environment

\* Every reachable state of a flat workflow is well typed: no phase outside the
\* API's enumerations is ever computed, counters and times stay natural
\* numbers, and a walk never leaves the list of steps.
THEOREM TypeCorrect == Spec => []TypeOK
<1>1. TypeOK /\ [Next]_vars => TypeOK'
  <2> SUFFICES ASSUME TypeOK, [Next]_vars PROVE TypeOK' OBVIOUS
  <2>1. CASE Next
    BY Zenon, <2>1, NextSplit, StartType, RestType, EnvironmentType
  <2>2. CASE UNCHANGED vars
    BY <2>2 DEF vars, apiVars, cacheVars, procVars, ghostVars, TypeOK
  <2> QED BY <2>1, <2>2
<1> QED BY <1>1, InitType, PTL DEF Spec

-----------------------------------------------------------------------------
(* A success is never invented *)

\* A walk that records s for its step keeps the other steps.
LEMMA RecordEffect ==
  ASSUME TypeOK, inStepLoop, NEW s \in StepStatuses, recordStep(s)
  PROVE  /\ work'.list = work.list
         /\ \A t \in Steps : work'.local.steps[t] =
              IF t = stepNow THEN s ELSE work.local.steps[t]
<1>1. work \in Work /\ stepNow \in Steps
  BY Zenon, WalkType
<1> QED BY <1>1 DEF recordStep, Work, WorkflowStatus

\* The phases of a walk's step statuses, after an iteration, are honest.
LEMMA WalkHonest ==
  ASSUME TypeOK, SuccessInv, inStepLoop,
         \/ continueLoop
         \/ \E s \in StepStatuses :
              /\ recordStep(s)
              /\ s.phase = "Succeeded" => runnerNow.phase = "Succeeded"
  PROVE  /\ work'.list = work.list
         /\ honestSteps(work'.local.steps)
<1>1. /\ work # NoWork /\ work \in Work /\ stepNow \in Steps
      /\ honestSteps(work.local.steps) /\ honestRunners(work.list)
  BY WalkType DEF inStepLoop, SuccessInv
<1>2. CASE continueLoop
  <2>1. work'.list = work.list /\ work'.local = work.local
    BY Zenon, <1>1, <1>2 DEF continueLoop, Work
  <2> QED BY <1>1, <2>1
<1>3. ASSUME NEW s \in StepStatuses, recordStep(s),
             s.phase = "Succeeded" => runnerNow.phase = "Succeeded"
      PROVE  work'.list = work.list /\ honestSteps(work'.local.steps)
  BY Zenon, <1>1, <1>3, RecordEffect DEF honestSteps, honestRunners, runnerNow
<1> QED BY Zenon, <1>2, <1>3

\* A step with the default condition gets a Runner only after successes.
LEMMA RunMeansSucceeded ==
  ASSUME TypeOK, SuccessInv, inStepLoop, decisionNow = "run",
         shape.when[stepNow] = "on_success"
  PROVE  shape.deps[stepNow] \subseteq succeeded
<1>1. stepNow \in Steps /\ work # NoWork
  BY Zenon, WalkType DEF inStepLoop
<1>2. shape.deps[stepNow] \subseteq Steps
  BY Zenon, <1>1, ShapesAssumption DEF WorkflowSpecs, TypeOK
<1>3. \A d \in shape.deps[stepNow] : work.local.steps[d].phase = "Succeeded"
  BY DEF decisionNow, evaluateStep
<1> QED BY Zenon, <1>1, <1>2, <1>3 DEF SuccessInv, honestSteps

\* SuccessInv survives every step of a reconcile in progress.
LEMMA SuccessRest == TypeOK /\ SuccessInv /\ RestOfPass => SuccessInv'
<1> SUFFICES ASSUME TypeOK, SuccessInv, RestOfPass PROVE SuccessInv' BY Zenon
<1> USE DEF apiVars, cacheVars, ghostVars
<1>1. CASE StepWithoutCall
  <2>1. inStepLoop
    BY <1>1 DEF StepWithoutCall
  <2>2. work'.list = work.list /\ honestSteps(work'.local.steps)
    BY Zenon, <1>1, <2>1, WithoutCallEffect, WalkHonest
  <2> QED BY <1>1, <2>1, <2>2
    DEF StepWithoutCall, SuccessInv, honestSteps, honestRunners, inStepLoop,
        DependenciesSucceededFirst
<1>2. CASE CreateRunner \/ CreateRunnerFails \/ RetryStep
  <2>1. inStepLoop /\ decisionNow = "run"
    BY <1>2 DEF CreateRunner, CreateRunnerFails, RetryStep, wantsRunner
  <2>2. work'.list = work.list /\ honestSteps(work'.local.steps)
    BY Zenon, <1>2, <2>1, CallEffect, WalkHonest
  <2>3. stepNow \in Steps
    BY Zenon, <2>1, WalkType
  <2>4. UNCHANGED <<shape, wf, wfCache, runnersCache, succeeded>>
    BY Zenon, <1>2 DEF CreateRunner, CreateRunnerFails, RetryStep
  <2>5. \A s \in Steps :
          /\ s # stepNow => runners'[s] = runners[s]
          /\ runners'[s].phase = "Succeeded" => runners[s].phase = "Succeeded"
    <3>1. /\ \A n : buildStepRunner(n).phase = "none"
          /\ \A x : removed(x).phase = "none"
      BY DEF buildStepRunner, removed, NoRunner
    <3>2. \/ \E n : runners' = [runners EXCEPT ![stepNow] = buildStepRunner(n)]
          \/ runners' = [runners EXCEPT ![stepNow] = removed(runners[stepNow])]
          \/ runners' = runners
      BY Zenon, <1>2 DEF CreateRunner, CreateRunnerFails, RetryStep
    <3> QED BY Zenon, <2>3, <3>1, <3>2 DEF TypeOK, RunnerObjects
  <2>6. DependenciesSucceededFirst'
    <3> SUFFICES ASSUME NEW s \in Steps, runners'[s].there, shape.when[s] = "on_success"
                 PROVE  shape.deps[s] \subseteq succeeded
      BY Zenon, <2>4 DEF DependenciesSucceededFirst
    <3>1. CASE s = stepNow
      BY Zenon, <2>1, <3>1, RunMeansSucceeded
    <3>2. CASE s # stepNow
      BY Zenon, <2>5, <3>2 DEF SuccessInv, DependenciesSucceededFirst
    <3> QED BY Zenon, <3>1, <3>2
  <2> QED BY Zenon, <2>1, <2>2, <2>4, <2>5, <2>6
    DEF SuccessInv, honestSteps, honestRunners, inStepLoop
<1>3. CASE EndSteps
  <2>1. /\ work # NoWork /\ work \in Work
        /\ honestSteps(work.local.steps) /\ honestRunners(work.list)
    BY Zenon, <1>3 DEF EndSteps, TypeOK, SuccessInv
  <2>2. withPhase(work.local).steps = work.local.steps
    BY <2>1, WithPhaseType DEF Work, TypeOK
  <2>3. \/ work' = NoWork
        \/ work'.list = work.list /\ work'.local.steps = work.local.steps
    BY ZenonT(40), <1>3, <2>1, <2>2 DEF EndSteps, Work
  <2> QED BY Zenon, <1>3, <2>1, <2>3
    DEF EndSteps, SuccessInv, honestSteps, honestRunners, DependenciesSucceededFirst
<1>4. CASE PatchStatus
  <2>1. work \in Work /\ honestSteps(work.local.steps) /\ honestSteps(wf.steps)
    BY Zenon, <1>4 DEF PatchStatus, TypeOK, SuccessInv
  <2>2. wf'.steps \in {wf.steps, work.local.steps}
    BY Zenon, <1>4, <2>1, MergeType DEF PatchStatus, TypeOK, Work
  <2> QED BY Zenon, <1>4, <2>1, <2>2
    DEF PatchStatus, SuccessInv, honestSteps, honestRunners, DependenciesSucceededFirst
<1>5. CASE PatchStatusFails
  BY Zenon, <1>5 DEF PatchStatusFails, SuccessInv, honestSteps, honestRunners,
              DependenciesSucceededFirst
<1> QED BY <1>1, <1>2, <1>3, <1>4, <1>5 DEF RestOfPass

\* SuccessInv survives the environment; a Runner that succeeds is counted.
LEMMA SuccessEnvironment == TypeOK /\ SuccessInv /\ Environment => SuccessInv'
<1> SUFFICES ASSUME TypeOK, SuccessInv, Environment PROVE SuccessInv' BY Zenon
<1> USE DEF apiVars, cacheVars, procVars, ghostVars, SuccessInv, honestSteps,
            honestRunners, DependenciesSucceededFirst
<1>1. CASE SyncWorkflow
  BY Zenon, <1>1 DEF SyncWorkflow
<1>2. CASE SyncRunners
  BY Zenon, <1>2 DEF SyncRunners
<1>3. CASE TimerFires \/ Tick
  BY Zenon, <1>3 DEF TimerFires, Tick
<1>4. ASSUME NEW s \in Steps, RunnerAdvances(s) PROVE SuccessInv'
  <2>1. UNCHANGED <<shape, wf, wfCache, runnersCache, work>>
    BY Zenon, <1>4 DEF RunnerAdvances
  <2>2. succeeded \subseteq succeeded'
    BY Zenon, <1>4 DEF RunnerAdvances
  <2>3. \A t \in Steps :
          /\ runners'[t].there = runners[t].there
          /\ runners'[t].phase = "Succeeded" =>
               t \in succeeded' \/ runners[t].phase = "Succeeded"
    BY <1>4 DEF RunnerAdvances, TypeOK, RunnerObjects, RunnerObject
  <2> QED BY Zenon, <2>1, <2>2, <2>3
<1>5. ASSUME NEW s \in Steps, removeRunner(s) PROVE SuccessInv'
  <2>1. UNCHANGED <<shape, wf, wfCache, runnersCache, work, succeeded>>
    BY Zenon, <1>5 DEF removeRunner
  <2>2. ~removed(runners[s]).there /\ removed(runners[s]).phase = "none"
    BY Zenon DEF removed, NoRunner
  <2>3. \A t \in Steps :
          /\ runners'[t].there => runners'[t] = runners[t]
          /\ runners'[t].phase = "Succeeded" => runners[t].phase = "Succeeded"
    BY Zenon, <1>5, <2>2 DEF removeRunner, TypeOK, RunnerObjects
  <2> QED BY Zenon, <2>1, <2>3
<1>6. CASE UserDeletesRunner \/ RunnerCollected
  BY Zenon, <1>5, <1>6 DEF UserDeletesRunner, RunnerCollected
<1>7. CASE UserDeletesWorkflow
  BY Zenon, <1>7 DEF UserDeletesWorkflow, TypeOK, WorkflowStatus
<1>8. CASE Crash
  BY <1>8 DEF Crash
<1> QED BY Zenon, <1>1, <1>2, <1>3, <1>4, <1>6, <1>7, <1>8 DEF Environment

\* SuccessInv is an invariant.
LEMMA SuccessInvariant == Spec => [](TypeOK /\ SuccessInv)
<1>1. Init => SuccessInv
  BY DEF Init, SuccessInv, honestSteps, honestRunners, NoStepStatus, NoRunner,
         DependenciesSucceededFirst
<1>2. TypeOK /\ SuccessInv /\ [Next]_vars => SuccessInv'
  <2> SUFFICES ASSUME TypeOK, SuccessInv, [Next]_vars PROVE SuccessInv' BY Zenon
  <2>1. CASE StartOfPass
    BY <2>1, StartFrame, StartEffect
    DEF SuccessInv, honestSteps, honestRunners, DependenciesSucceededFirst
  <2>2. CASE RestOfPass
    BY Zenon, <2>2, SuccessRest
  <2>3. CASE Environment
    BY Zenon, <2>3, SuccessEnvironment
  <2>4. CASE UNCHANGED vars
    BY Zenon, <2>4 DEF vars, apiVars, cacheVars, procVars, ghostVars, SuccessInv,
                honestSteps, honestRunners, DependenciesSucceededFirst
  <2> QED BY Zenon, <2>1, <2>2, <2>3, <2>4, NextSplit
<1> QED BY <1>1, <1>2, TypeCorrect, PTL DEF Spec

\* For every workflow, every number of Runners, failed calls and restarts, and
\* caches however old: a step is shown as Succeeded only if a Runner of it has
\* succeeded.
THEOREM StepSuccessTheorem == Spec => []StepSuccessIsReal
<1>1. SuccessInv => StepSuccessIsReal
  BY DEF SuccessInv, StepSuccessIsReal, honestSteps
<1> QED BY <1>1, SuccessInvariant, PTL

\* Under the same conditions: the Runner of an on_success step is created only
\* when every dependency has had a Runner that succeeded.
THEOREM DependencyTheorem == Spec => []DependenciesSucceededFirst
<1>1. SuccessInv => DependenciesSucceededFirst
  BY Zenon DEF SuccessInv
<1> QED BY <1>1, SuccessInvariant, PTL

-----------------------------------------------------------------------------
(* A workflow with a cycle creates nothing *)

\* CycleInv is inductive.
LEMMA CycleStep == TypeOK /\ CycleInv /\ [Next]_vars => CycleInv'
<1> SUFFICES ASSUME TypeOK, CycleInv, [Next]_vars, detectCycle' PROVE CycleInv'
  BY Zenon DEF CycleInv
<1> USE DEF apiVars, cacheVars, procVars, ghostVars, CycleInv
<1>0. shape' = shape
  BY Zenon, NextSplit, StartFrame
  DEF RestOfPass, Environment, StepWithoutCall, CreateRunner, CreateRunnerFails,
      RetryStep, EndSteps, PatchStatus, PatchStatusFails, SyncWorkflow, SyncRunners,
      TimerFires, Tick, RunnerAdvances, removeRunner, UserDeletesRunner,
      UserDeletesWorkflow, RunnerCollected, Crash, vars
<1>1. shape' = shape /\ detectCycle
  <2>1. stepNames' = stepNames
    BY <1>0 DEF stepNames
  <2>2. detectCycle' = detectCycle
    BY <1>0, <2>1, Zenon DEF detectCycle
  <2> QED BY Zenon, <1>0, <2>2
<1>2. CASE StartOfPass
  <2>1. rejected
    BY Zenon, <1>1 DEF rejected
  <2>2. work' # NoWork => work'.then = "patch"
    BY <1>2, <2>1, StartFrame
    DEF StartOfPass, ReconcileReadFails, ReconcileNotFound, ReconcileRejected,
        ReconcileTimeout, ReconcileDeferred, ReconcileSteps, callPatch
  <2> QED BY Zenon, <1>1, <1>2, <2>2, StartFrame
<1>3. CASE RestOfPass
  <2>1. PatchStatus \/ PatchStatusFails
    BY Zenon, <1>1, <1>3 DEF RestOfPass, StepWithoutCall, CreateRunner, CreateRunnerFails,
       RetryStep, EndSteps, wantsRunner, inStepLoop
  <2> QED BY Zenon, <1>1, <2>1 DEF PatchStatus, PatchStatusFails
<1>4. CASE Environment
  <2>1. runners' = runners /\ work' \in {work, NoWork}
    BY Zenon, <1>1, <1>4 DEF Environment, SyncWorkflow, SyncRunners, TimerFires, Tick,
       RunnerAdvances, removeRunner, UserDeletesRunner, UserDeletesWorkflow,
       RunnerCollected, Crash
  <2> QED BY Zenon, <1>1, <2>1
<1>5. CASE UNCHANGED vars
  BY Zenon, <1>1, <1>5 DEF vars
<1> QED BY Zenon, <1>2, <1>3, <1>4, <1>5, NextSplit

\* A workflow that detectCycle rejects never gets a Runner, not even for the
\* steps outside the cycle.
THEOREM CycleTheorem == Spec => []NoRunnerForCycle
<1>1. Init => CycleInv
  BY DEF Init, CycleInv, NoRunner
<1>2. CycleInv => NoRunnerForCycle
  BY DEF CycleInv, NoRunnerForCycle
<1> QED BY <1>1, <1>2, CycleStep, TypeCorrect, PTL DEF Spec

-----------------------------------------------------------------------------
(* The operator implements DagExecution *)

\* The steps with a Runner and the steps shown as Succeeded.
running == {s \in Steps : runners[s].there}
shown == {s \in Steps : wf.steps[s].phase = "Succeeded"}

\* The start of a walk's iteration is a place in the order of the steps.
LEMMA StepNowIsNamed ==
  ASSUME TypeOK, inStepLoop
  PROVE  stepNow \in stepNames
<1>1. work.next \in Nat /\ work.next # 0 /\ shape.order \in Seq(Steps)
  BY Zenon, ShapesAssumption DEF TypeOK, inStepLoop, Work, WorkflowSpecs
<1>2. work.next \in DOMAIN shape.order
  BY <1>1 DEF inStepLoop
<1> QED BY Zenon, <1>2 DEF stepNow, stepNames

\* What detectCycle accepts is orderable.
LEMMA AcceptedIsOrderable == ~detectCycle => Execution!orderable
BY Zenon DEF detectCycle, stepNames, Execution!orderable, Execution!steps

\* A Create starts the step.
LEMMA CreateStarts ==
  ASSUME TypeOK, SuccessInv, CycleInv, CreateRunner, NEW s \in Steps, s = stepNow
  PROVE  Execution!Start(s)
<1>1. inStepLoop /\ decisionNow = "run"
  BY DEF CreateRunner, wantsRunner
<1>2. stepNow \in Steps /\ stepNow \in stepNames
  BY Zenon, <1>1, WalkType, StepNowIsNamed
<1>3. Execution!orderable
  BY Zenon, <1>1, AcceptedIsOrderable DEF CycleInv, inStepLoop
<1>4. stepNow \in Execution!steps
  BY Zenon, <1>2 DEF stepNames, Execution!steps
<1>5. shape.when[stepNow] = "on_success" => shape.deps[stepNow] \subseteq succeeded
  BY Zenon, <1>1, RunMeansSucceeded
<1>6. running' = running \cup {stepNow}
  <2>1. buildStepRunner(created[stepNow] + 1).there
    BY Zenon DEF buildStepRunner, NoRunner
  <2> HIDE DEF buildStepRunner
  <2>2. runners' = [runners EXCEPT ![stepNow] = buildStepRunner(created[stepNow] + 1)]
    BY Zenon DEF CreateRunner
  <2>3. \A t \in Steps : runners'[t].there <=> runners[t].there \/ t = stepNow
    BY Zenon, <1>2, <2>1, <2>2 DEF TypeOK, RunnerObjects
  <2> QED BY <1>2, <2>3 DEF running
<1>7. stepNow \notin running /\ shown' = shown /\ UNCHANGED <<shape, succeeded>>
  BY Zenon DEF CreateRunner, running, shown
<1> QED BY Zenon, <1>3, <1>4, <1>5, <1>6, <1>7 DEF Execution!Start, running, shown

\* The removal of a Runner stops the step.
LEMMA RemovalStops ==
  ASSUME TypeOK, NEW s \in Steps, runners[s].there,
         runners' = [runners EXCEPT ![s] = removed(@)],
         UNCHANGED <<shape, wf, succeeded>>
  PROVE  Execution!Stop(s)
<1>1. ~removed(runners[s]).there
  BY Zenon DEF removed, NoRunner
<1>2. \A t \in Steps : runners'[t].there <=> runners[t].there /\ t # s
  BY Zenon, <1>1 DEF TypeOK, RunnerObjects
<1>3. running' = running \ {s} /\ s \in running /\ shown' = shown
  BY Zenon, <1>2 DEF running, shown
<1> QED BY <1>3 DEF Execution!Stop, running, shown

\* A step that leaves the Runners and the statuses of the steps is no step.
LEMMA NothingShown ==
  ASSUME UNCHANGED <<shape, runners, succeeded>>, wf'.steps = wf.steps
  PROVE  UNCHANGED Execution!vars
<1>1. running' = running /\ shown' = shown
  BY DEF running, shown
<1> QED BY Zenon, <1>1 DEF Execution!vars, running, shown

\* Every step of a pass is a step of the abstract execution.
LEMMA PassRefines ==
  ASSUME TypeOK, SuccessInv, CycleInv, SuccessInv', RestOfPass
  PROVE  [Execution!Next]_(Execution!vars)
<1> USE DEF apiVars, cacheVars, ghostVars
<1>1. CASE CreateRunner
  <2>1. stepNow \in Steps
    BY <1>1, WalkType DEF CreateRunner, wantsRunner
  <2>2. PICK s \in Steps : s = stepNow
    BY Zenon, <2>1
  <2> QED BY Zenon, <1>1, <2>2, CreateStarts DEF Execution!Next
<1>2. CASE RetryStep
  <2>1. stepNow \in Steps
    BY <1>2, WalkType DEF RetryStep
  <2>2. UNCHANGED <<shape, wf, succeeded>>
    BY <1>2 DEF RetryStep
  <2>3. CASE runners' = runners
    BY Zenon, <2>2, <2>3, NothingShown
  <2>4. CASE runners' = [runners EXCEPT ![stepNow] = removed(@)] /\ runners[stepNow].there
    BY Zenon, <2>1, <2>2, <2>4, RemovalStops DEF Execution!Next
  <2>5. CASE runners' = [runners EXCEPT ![stepNow] = removed(@)] /\ ~runners[stepNow].there
    <3>1. ~removed(runners[stepNow]).there
      BY Zenon DEF removed, NoRunner
    <3>2. \A t \in Steps : runners'[t].there <=> runners[t].there
      BY Zenon, <2>1, <2>5, <3>1 DEF TypeOK, RunnerObjects
    <3>3. running' = running /\ shown' = shown
      BY Zenon, <2>2, <3>2 DEF running, shown
    <3> QED BY <2>2, <3>3 DEF Execution!vars, running, shown
  <2> QED BY Zenon, <1>2, <2>3, <2>4, <2>5 DEF RetryStep
<1>3. CASE PatchStatus
  <2>1. UNCHANGED <<shape, runners, succeeded>>
    BY Zenon, <1>3 DEF PatchStatus
  <2>2. running' = running /\ shown' \subseteq succeeded
    BY Zenon, <2>1 DEF running, shown, SuccessInv, honestSteps
  <2> QED BY Zenon, <2>1, <2>2 DEF Execution!Next, Execution!Report, running, shown
<1>4. CASE StepWithoutCall \/ CreateRunnerFails \/ EndSteps \/ PatchStatusFails
  BY Zenon, <1>4, NothingShown
  DEF StepWithoutCall, CreateRunnerFails, EndSteps, PatchStatusFails
<1> QED BY Zenon, <1>1, <1>2, <1>3, <1>4 DEF RestOfPass

\* So is every step of the environment.
LEMMA EnvironmentRefines ==
  ASSUME TypeOK, Environment
  PROVE  [Execution!Next]_(Execution!vars)
<1> USE DEF apiVars, cacheVars, procVars, ghostVars
<1>1. CASE SyncWorkflow \/ SyncRunners \/ TimerFires \/ Tick \/ Crash
  BY Zenon, <1>1, NothingShown DEF SyncWorkflow, SyncRunners, TimerFires, Tick, Crash
<1>2. ASSUME NEW s \in Steps, RunnerAdvances(s)
      PROVE  [Execution!Next]_(Execution!vars)
  <2>1. /\ UNCHANGED <<shape, wf>> /\ runners[s].there
        /\ succeeded' \in {succeeded, succeeded \cup {s}}
    BY <1>2 DEF RunnerAdvances
  <2>2. \A t \in Steps : runners'[t].there = runners[t].there
    BY <1>2 DEF RunnerAdvances, TypeOK, RunnerObjects, RunnerObject
  <2>3. s \in running /\ running' = running /\ shown' = shown
    BY Zenon, <2>1, <2>2 DEF running, shown
  <2>4. CASE succeeded' = succeeded
    BY Zenon, <2>1, <2>3, <2>4 DEF Execution!vars, running, shown
  <2>5. CASE succeeded' = succeeded \cup {s}
    BY <2>1, <2>3, <2>5 DEF Execution!Next, Execution!Succeed, running, shown
  <2> QED BY Zenon, <2>1, <2>4, <2>5
<1>3. CASE UserDeletesRunner \/ RunnerCollected
  <2>1. PICK s \in Steps : removeRunner(s)
    BY Zenon, <1>3 DEF UserDeletesRunner, RunnerCollected
  <2> QED BY Zenon, <2>1, RemovalStops DEF removeRunner, Execution!Next
<1>4. CASE UserDeletesWorkflow
  <2>1. wf'.steps = wf.steps /\ UNCHANGED <<shape, runners, succeeded>>
    BY <1>4 DEF UserDeletesWorkflow, TypeOK, WorkflowStatus
  <2> QED BY <2>1, NothingShown
<1> QED BY Zenon, <1>1, <1>2, <1>3, <1>4 DEF Environment

\* For every workflow, and whatever the caches, the queue, faults and users do:
\* every change of the Runners and of the reported steps is one that the
\* abstract execution of a DAG allows.
THEOREM RefinementTheorem == Spec => ExecutesDag
<1>1. Init => Execution!Init
  <2> SUFFICES ASSUME Init PROVE Execution!Init BY Zenon
  <2>1. running = {} /\ shown = {}
    BY DEF Init, NoRunner, NoStepStatus, running, shown
  <2> QED BY <2>1 DEF Init, Execution!Init, running, shown
<1>2. TypeOK /\ SuccessInv /\ CycleInv /\ SuccessInv' /\ [Next]_vars
        => [Execution!Next]_(Execution!vars)
  <2> SUFFICES ASSUME TypeOK, SuccessInv, CycleInv, SuccessInv', [Next]_vars
               PROVE  [Execution!Next]_(Execution!vars)
    OBVIOUS
  <2>1. CASE StartOfPass
    BY Zenon, <2>1, StartFrame, NothingShown
  <2>2. CASE RestOfPass
    BY <2>2, PassRefines
  <2>3. CASE Environment
    BY Zenon, <2>3, EnvironmentRefines
  <2>4. CASE UNCHANGED vars
    BY Zenon, <2>4, NothingShown DEF vars, apiVars, ghostVars
  <2> QED BY Zenon, <2>1, <2>2, <2>3, <2>4, NextSplit
<1>3. Init => CycleInv
  BY DEF Init, CycleInv, NoRunner
<1> QED BY <1>1, <1>2, <1>3, CycleStep, TypeCorrect, SuccessInvariant, PTL
  DEF Spec, ExecutesDag, Execution!Spec
-----------------------------------------------------------------------------
(* What a pass leaves in work *)

\* What the start of a pass leaves in work: the cached status as the base, and
\* its phase and steps unless the workflow has timed out.
LEMMA StartWork ==
  ASSUME TypeOK, StartOfPass, work' # NoWork, work = NoWork
  PROVE  /\ wfCache.live /\ ~queued' /\ work' \in Work
         /\ shape \notin StaleFor => wfCache = wf /\ runnersCache = runners
         /\ work'.base = wfCache /\ work'.list = runnersCache
         /\ \/ /\ work'.then = "patch" /\ work'.next = 0
               /\ rejected \/ wfCache.startTime = 0
               /\ work'.local.phase = wfCache.phase
               /\ work'.local.steps = wfCache.steps
               /\ work'.local.startTime = wfCache.startTime
            \/ /\ work'.then = "patch" /\ work'.next = 0 /\ timedOut
               /\ work'.local = timeoutStatus
            \/ /\ work'.then = "steps" /\ work'.next = 1 /\ ~rejected /\ ~timedOut
               /\ work'.local.steps = wfCache.steps
               /\ IF wfCache.startTime = 0
                    THEN work'.updated /\ work'.local.startTime = clock
                    ELSE work'.local = wfCache
<1>1. ~ReconcileReadFails /\ ~ReconcileNotFound
  BY DEF ReconcileReadFails, ReconcileNotFound, procVars
<1>2. startReconcile /\ wfCache.live
  BY <1>1 DEF StartOfPass, ReconcileRejected, ReconcileTimeout,
              ReconcileDeferred, ReconcileSteps
<1>3. /\ shape \notin StaleFor => wfCache = wf /\ runnersCache = runners
      /\ ~queued'
  BY Zenon, <1>2 DEF startReconcile
<1>4. work' \in Work /\ work'.list = runnersCache
  BY StartEffect
<1>5. ASSUME NEW new, NEW due, callPatch(wfCache, new, due)
      PROVE  /\ work'.then = "patch" /\ work'.base = wfCache /\ work'.local = new
             /\ work'.next = 0
  BY Zenon, <1>5 DEF callPatch
<1>6. CASE ReconcileRejected
  <2> DEFINE new == [wfCache EXCEPT !.reason =
               IF shape.order = <<>> THEN "NoSteps" ELSE "CycleDetected"]
  <2>1. /\ new.phase = wfCache.phase /\ new.steps = wfCache.steps
        /\ new.startTime = wfCache.startTime
    BY DEF TypeOK, WorkflowStatus
  <2>2. callPatch(wfCache, new, 0) /\ rejected
    BY <1>6 DEF ReconcileRejected
  <2> QED BY Zenon, <1>2, <1>3, <1>4, <1>5, <2>1, <2>2
<1>7. CASE ReconcileTimeout
  <2>1. callPatch(wfCache, timeoutStatus, 0) /\ timedOut
    BY <1>7 DEF ReconcileTimeout, timeoutStatus
  <2> QED BY Zenon, <1>2, <1>3, <1>4, <1>5, <2>1
<1>8. CASE ReconcileDeferred
  <2> DEFINE new == [wfCache EXCEPT !.reason = "QuotaExceeded"]
  <2>1. /\ new.phase = wfCache.phase /\ new.steps = wfCache.steps
        /\ new.startTime = wfCache.startTime
    BY DEF TypeOK, WorkflowStatus
  <2>2. callPatch(wfCache, new, clock + 1) /\ wfCache.startTime = 0
    BY Zenon, <1>8 DEF ReconcileDeferred
  <2> QED BY Zenon, <1>2, <1>3, <1>4, <1>5, <2>1, <2>2
<1>9. CASE ReconcileSteps
  <2> DEFINE started == [wfCache EXCEPT !.startTime = clock]
  <2>1. started.steps = wfCache.steps /\ started.startTime = clock
    BY DEF TypeOK, WorkflowStatus
  <2>2. /\ work'.local = IF wfCache.startTime = 0 THEN started ELSE wfCache
        /\ work'.base = wfCache /\ work'.next = 1 /\ work'.then = "steps"
        /\ work'.updated = (wfCache.startTime = 0) /\ ~rejected /\ ~timedOut
    BY <1>9 DEF ReconcileSteps
  <2> HIDE DEF started
  <2> QED BY Zenon, <1>2, <1>3, <1>4, <2>1, <2>2
<1> QED BY <1>1, <1>6, <1>7, <1>8, <1>9 DEF StartOfPass

\* An iteration of the walk goes on to the next step and changes the status of
\* its own step alone.
LEMMA IterationFrame ==
  ASSUME TypeOK, StepWithoutCall \/ CreateRunner \/ CreateRunnerFails \/ RetryStep
  PROVE  /\ inStepLoop /\ work \in Work /\ stepNow \in Steps
         /\ work' \in Work /\ work' # NoWork
         /\ UNCHANGED <<shape, wf, wfCache, runnersCache, queued, clock>>
         /\ work'.then = "steps" /\ work'.next = work.next + 1
         /\ work'.list = work.list /\ work'.base = work.base
         /\ work'.local.startTime = work.local.startTime
         /\ \A t \in Steps : t # stepNow =>
              work'.local.steps[t] = work.local.steps[t]
         /\ work'.updated \/ (~work.updated /\ work'.local = work.local)
<1>1. inStepLoop /\ UNCHANGED <<shape, wf, wfCache, runnersCache, queued, clock>>
  BY DEF StepWithoutCall, CreateRunner, CreateRunnerFails, RetryStep,
         wantsRunner, apiVars, cacheVars
<1>2. work \in Work /\ stepNow \in Steps /\ work.then = "steps"
  BY <1>1, WalkType DEF inStepLoop
<1>3. continueLoop \/ \E s \in StepStatuses : recordStep(s)
  BY WithoutCallEffect, CallEffect
<1>4. work' \in Work /\ work' # NoWork
  BY Zenon, <1>1, <1>3, RecordType, NoWorkAssumption
<1>5. CASE continueLoop
  <2>1. /\ work'.then = work.then /\ work'.next = work.next + 1
        /\ work'.list = work.list /\ work'.base = work.base
        /\ work'.local = work.local /\ work'.updated = work.updated
    BY Zenon, <1>2, <1>5 DEF continueLoop, Work
  <2> QED BY Zenon, <1>1, <1>2, <1>4, <2>1
<1>6. ASSUME NEW s \in StepStatuses, recordStep(s)
      PROVE  /\ work'.then = work.then /\ work'.next = work.next + 1
             /\ work'.list = work.list /\ work'.base = work.base
             /\ work'.updated
             /\ work'.local.startTime = work.local.startTime
             /\ \A t \in Steps : t # stepNow =>
                  work'.local.steps[t] = work.local.steps[t]
  <2>1. /\ work'.then = work.then /\ work'.next = work.next + 1
        /\ work'.base = work.base /\ work'.updated
        /\ work'.local = [work.local EXCEPT !.steps[stepNow] = s]
    BY Zenon, <1>2, <1>6 DEF recordStep, Work
  <2>2. work'.local.startTime = work.local.startTime
    BY Zenon, <1>2, <2>1 DEF Work, WorkflowStatus
  <2> QED BY Zenon, <1>1, <1>6, <2>1, <2>2, RecordEffect
<1> QED BY Zenon, <1>1, <1>2, <1>3, <1>4, <1>5, <1>6

\* The walk leaves the step it has come to behind, for good.
LEMMA AheadEffect ==
  ASSUME TypeOK, StepWithoutCall \/ CreateRunner \/ CreateRunnerFails \/ RetryStep
  PROVE  /\ ahead(stepNow)
         /\ \A s \in Steps : ahead(s)' => ahead(s) /\ s # stepNow
<1>1. /\ inStepLoop /\ work \in Work /\ stepNow \in Steps /\ shape' = shape
      /\ work'.next = work.next + 1
  BY Zenon, IterationFrame
<1>2. /\ shape.order \in Seq(Steps) /\ work.next \in Nat
      /\ \A i, j \in DOMAIN shape.order : shape.order[i] = shape.order[j] => i = j
  BY Zenon, <1>1, ShapesAssumption DEF WorkflowSpecs, TypeOK, Work
<1>3. work.next # 0 /\ work.next \in DOMAIN shape.order
  BY <1>1, <1>2 DEF inStepLoop, TypeOK
<1>4. ahead(stepNow)
  BY <1>1, <1>2, <1>3 DEF ahead, inStepLoop, stepNow
<1>5. ASSUME NEW s \in Steps, ahead(s)' PROVE ahead(s) /\ s # stepNow
  <2>1. PICK i \in DOMAIN shape.order : i >= work.next + 1 /\ shape.order[i] = s
    BY Zenon, <1>1, <1>5 DEF ahead
  <2>2. i \in Nat /\ i >= work.next /\ i # work.next
    BY <1>2, <2>1
  <2> QED BY Zenon, <1>1, <1>2, <1>3, <2>1, <2>2 DEF ahead, inStepLoop, stepNow
<1> QED BY <1>4, <1>5

\* What an iteration does with the step it has come to: it leaves the status as
\* it is, marks the step, copies its Runner's phase, creates a Runner for it or
\* deletes it for a retry.
newStatus == work'.local.steps[stepNow]
mayRun == ~stepClosed /\ decisionNow = "run"
backoffElapsed == retryBackoffElapsed(shape.backoff[stepNow], statusNow, clock)

StepKept ==
  /\ work'.local = work.local /\ runners' = runners /\ created' = created
  /\ \/ stepClosed
     \/ decisionNow \in {"skip", "wait"} /\ statusNow.phase # "none"
     \/ mayRun /\ ~runnerNow.there
     \/ mayRun /\ runnerNow.there /\ retryNow /\ ~backoffElapsed
     \/ /\ mayRun /\ runnerNow.there /\ ~retryNow
        /\ statusNow.phase = runnerPhaseToStepPhase(runnerNow.phase)
StepMarked ==
  /\ runners' = runners /\ created' = created
  /\ ~stepClosed /\ statusNow.phase = "none"
  /\ decisionNow \in {"skip", "wait"}
  /\ newStatus = [NoStepStatus EXCEPT
                    !.phase = IF decisionNow = "skip" THEN "Skipped" ELSE "Waiting"]
StepCopied ==
  /\ runners' = runners /\ created' = created
  /\ mayRun /\ runnerNow.there /\ ~retryNow
  /\ statusNow.phase # runnerPhaseToStepPhase(runnerNow.phase)
  /\ newStatus = upsertStepStatus(statusNow,
                   runnerPhaseToStepPhase(runnerNow.phase), clock)
StepCreated ==
  /\ mayRun /\ ~runnerNow.there /\ ~runners[stepNow].there
  /\ runners' =
       [runners EXCEPT ![stepNow] = buildStepRunner(created[stepNow] + 1)]
  /\ created' = [created EXCEPT ![stepNow] = @ + 1]
  /\ newStatus = upsertStepStatus(statusNow, "Pending", clock)
StepRetried ==
  /\ mayRun /\ runnerNow.there /\ retryNow /\ created' = created
  /\ \/ runners' = runners
     \/ runners' = [runners EXCEPT ![stepNow] = removed(@)]
  /\ newStatus = [upsertStepStatus(statusNow, "Pending", clock) EXCEPT
                    !.retryCount = @ + 1]

\* Every iteration goes in one of these ways.
LEMMA StepEffect ==
  ASSUME TypeOK, StepWithoutCall \/ CreateRunner \/ CreateRunnerFails \/ RetryStep
  PROVE  StepKept \/ StepMarked \/ StepCopied \/ StepCreated \/ StepRetried
<1> USE DEF apiVars, ghostVars, mayRun
<1>1. inStepLoop /\ work \in Work /\ stepNow \in Steps
  BY IterationFrame
<1>2. statusNow \in StepStatuses /\ clock \in Nat /\ runnerNow \in RunnerObject
  BY Zenon, <1>1, WalkType DEF TypeOK
<1>3. ASSUME continueLoop PROVE work'.local = work.local
  BY Zenon, <1>1, <1>3 DEF continueLoop, Work
<1>4. ASSUME NEW s \in StepStatuses, recordStep(s) PROVE newStatus = s
  BY Zenon, <1>1, <1>4, RecordEffect DEF newStatus
<1>5. \A p \in StepPhases : upsertStepStatus(statusNow, p, clock) \in StepStatuses
  BY Zenon, <1>2, UpsertType
<1>6. CASE StepWithoutCall
  <2> DEFINE p == runnerPhaseToStepPhase(runnerNow.phase)
             mark == [NoStepStatus EXCEPT
                    !.phase = IF decisionNow = "skip" THEN "Skipped" ELSE "Waiting"]
  <2>1. p \in StepPhases /\ mark \in StepStatuses
    BY <1>2 DEF runnerPhaseToStepPhase, RunnerObject, NoStepStatus, StepStatuses
  <2>2. runners' = runners /\ created' = created
    BY <1>6 DEF StepWithoutCall
  <2>3. \/ continueLoop /\ stepClosed
        \/ /\ decisionNow \in {"skip", "wait"} /\ statusNow.phase # "none"
           /\ continueLoop
        \/ mayRun /\ runnerNow.there /\ retryNow /\ ~backoffElapsed /\ continueLoop
        \/ /\ mayRun /\ runnerNow.there /\ ~retryNow /\ statusNow.phase = p
           /\ continueLoop
        \/ /\ ~stepClosed /\ statusNow.phase = "none"
           /\ decisionNow \in {"skip", "wait"} /\ recordStep(mark)
        \/ /\ mayRun /\ runnerNow.there /\ ~retryNow /\ statusNow.phase # p
           /\ recordStep(upsertStepStatus(statusNow, p, clock))
    BY Zenon, <1>6 DEF StepWithoutCall, backoffElapsed
  <2> HIDE DEF p, mark, mayRun
  <2>4. continueLoop => work'.local = work.local
    BY Zenon, <1>3
  <2>5. recordStep(mark) => newStatus = mark
    BY <1>4, <2>1
  <2>6. recordStep(upsertStepStatus(statusNow, p, clock)) =>
          newStatus = upsertStepStatus(statusNow, p, clock)
    BY Zenon, <1>4, <1>5, <2>1
  <2>7. ASSUME newStatus = mark, ~stepClosed, statusNow.phase = "none",
               decisionNow \in {"skip", "wait"}
        PROVE  StepMarked
    BY <2>2, <2>7 DEF StepMarked, mark
  <2>8. ASSUME newStatus = upsertStepStatus(statusNow, p, clock), mayRun,
               runnerNow.there, ~retryNow, statusNow.phase # p
        PROVE  StepCopied
    BY Zenon, <2>2, <2>8 DEF StepCopied, p
  <2>9. ASSUME continueLoop, ~StepKept
        PROVE  /\ ~stepClosed
               /\ ~(decisionNow \in {"skip", "wait"} /\ statusNow.phase # "none")
               /\ ~(mayRun /\ runnerNow.there /\ retryNow /\ ~backoffElapsed)
               /\ ~(mayRun /\ runnerNow.there /\ ~retryNow /\ statusNow.phase = p)
    BY Zenon, <2>2, <2>4, <2>9 DEF StepKept, p
  <2> QED BY Zenon, <2>3, <2>5, <2>6, <2>7, <2>8, <2>9
<1>7. CASE CreateRunner
  <2>1. recordStep(upsertStepStatus(statusNow, "Pending", clock))
    BY <1>7 DEF CreateRunner
  <2> QED BY Zenon, <1>4, <1>5, <1>7, <2>1 DEF CreateRunner, wantsRunner, StepCreated
<1>8. CASE CreateRunnerFails
  BY Zenon, <1>3, <1>8 DEF CreateRunnerFails, wantsRunner, StepKept
<1>9. CASE RetryStep
  <2> DEFINE p == upsertStepStatus(statusNow, "Pending", clock)
  <2>1. p \in StepStatuses
    BY <1>5
  <2>2. recordStep([p EXCEPT !.retryCount = @ + 1])
    BY <1>9 DEF RetryStep
  <2> HIDE DEF p
  <2>3. [p EXCEPT !.retryCount = @ + 1] \in StepStatuses
    BY <2>1 DEF StepStatuses
  <2> QED BY Zenon, <1>4, <1>9, <2>2, <2>3 DEF RetryStep, StepRetried, p, backoffElapsed
<1> QED BY Zenon, <1>6, <1>7, <1>8, <1>9

\* The end of a walk: it stops if nothing has changed, or else goes on to the
\* patch with the phase that the steps give.
LEMMA EndEffect ==
  ASSUME TypeOK, EndSteps
  PROVE  /\ work # NoWork /\ work \in Work
         /\ work.then = "steps" /\ work.next > Len(shape.order)
         /\ UNCHANGED <<shape, wf, runners, wfCache, runnersCache, queued, clock,
                        created>>
         /\ \/ /\ work' = NoWork /\ ~work.updated
               /\ work.local.phase = computeWorkflowPhase(stepNames, work.local.steps)
            \/ /\ work' \in Work /\ work' # NoWork /\ work'.then = "patch"
               /\ work'.base = work.base /\ work'.list = work.list
               /\ work'.next = work.next
               /\ work'.local.startTime = work.local.startTime
               /\ work'.local.steps = work.local.steps
               /\ work'.local.phase
                    = computeWorkflowPhase(stepNames, work.local.steps)
<1> DEFINE new == withPhase(work.local)
<1>1. /\ work # NoWork /\ work \in Work /\ work.local \in WorkflowStatus
      /\ clock \in Nat /\ work.then = "steps" /\ work.next > Len(shape.order)
      /\ UNCHANGED <<shape, wf, runners, wfCache, runnersCache, queued, clock, created>>
  BY DEF EndSteps, TypeOK, Work, apiVars, cacheVars, ghostVars
<1>2. /\ new \in WorkflowStatus /\ new.steps = work.local.steps
      /\ new.phase = computeWorkflowPhase(stepNames, work.local.steps)
      /\ new.startTime = work.local.startTime
  BY Zenon, <1>1, WithPhaseType DEF withPhase, WorkflowStatus
<1>3. \/ work' = [work EXCEPT !.local = new, !.then = "patch"]
      \/ work' = NoWork /\ ~work.updated /\ new = work.local
  BY Zenon DEF EndSteps
<1> HIDE DEF new
<1>4. CASE work' = [work EXCEPT !.local = new, !.then = "patch"]
  <2>1. /\ work' \in Work /\ work'.then = "patch" /\ work'.local = new
        /\ work'.base = work.base /\ work'.list = work.list /\ work'.next = work.next
    BY ZenonT(40), <1>1, <1>2, <1>4 DEF Work
  <2> QED BY Zenon, <1>1, <1>2, <2>1, NoWorkAssumption
<1> QED BY Zenon, <1>1, <1>2, <1>3, <1>4

\* The environment never changes the status, only whether the Workflow exists,
\* and it ends a pass only in a crash.
LEMMA EnvironmentFrame ==
  ASSUME TypeOK, Environment
  PROVE  /\ shape' = shape /\ created' = created
         /\ work' = work \/ (work' = NoWork /\ Crash)
         /\ wf' = wf \/ wf' = [wf EXCEPT !.live = FALSE]
         /\ wf'.live => wf.live
         /\ wf'.phase = wf.phase /\ wf'.steps = wf.steps
         /\ wf'.startTime = wf.startTime
<1> USE DEF apiVars, cacheVars, procVars, ghostVars
<1>1. \/ /\ shape' = shape /\ created' = created /\ wf' = wf
         /\ work' = work \/ (work' = NoWork /\ Crash)
      \/ UserDeletesWorkflow
  <2>1. CASE Crash
    BY Zenon, <2>1 DEF Crash
  <2>2. CASE SyncWorkflow \/ SyncRunners \/ TimerFires \/ Tick
    BY Zenon, <2>2 DEF SyncWorkflow, SyncRunners, TimerFires, Tick
  <2>3. CASE (\E s \in Steps : RunnerAdvances(s)) \/ UserDeletesRunner \/ RunnerCollected
    BY <2>3 DEF RunnerAdvances, UserDeletesRunner, RunnerCollected, removeRunner
  <2> QED BY <2>1, <2>2, <2>3 DEF Environment
<1>2. CASE UserDeletesWorkflow
  <2>1. /\ shape' = shape /\ created' = created /\ work' = work
        /\ wf' = [wf EXCEPT !.live = FALSE] /\ wf.live
    BY <1>2 DEF UserDeletesWorkflow
  <2>2. /\ wf'.phase = wf.phase /\ wf'.steps = wf.steps
        /\ wf'.startTime = wf.startTime
    BY Zenon, <2>1 DEF TypeOK, WorkflowStatus
  <2> QED BY Zenon, <2>1, <2>2
<1> QED BY Zenon, <1>1, <1>2

\* While the Workflow is live and users leave its Runners alone, the environment
\* neither creates nor removes a Runner.
LEMMA EnvironmentKeeps ==
  ASSUME TypeOK, Environment, shape \notin RunnersDeletable, wf.live, NEW s \in Steps
  PROVE  runners'[s].there = runners[s].there
<1> USE DEF apiVars, ghostVars
<1>1. ASSUME NEW t \in Steps, RunnerAdvances(t)
      PROVE  runners'[s].there = runners[s].there
  BY <1>1 DEF RunnerAdvances, TypeOK, RunnerObjects, RunnerObject
<1>2. ~UserDeletesRunner /\ ~RunnerCollected
  BY DEF UserDeletesRunner, RunnerCollected
<1> QED BY Zenon, <1>1, <1>2 DEF Environment, SyncWorkflow, SyncRunners, TimerFires, Tick,
      UserDeletesWorkflow, Crash

\* The spec of the Workflow never changes.
LEMMA ShapeFrame == ASSUME TypeOK, [Next]_vars PROVE shape' = shape
<1>1. CASE StartOfPass
  BY Zenon, <1>1, StartFrame
<1>2. CASE RestOfPass
  BY <1>2 DEF RestOfPass, StepWithoutCall, CreateRunner, CreateRunnerFails, RetryStep,
              EndSteps, PatchStatus, PatchStatusFails, apiVars
<1>3. CASE Environment
  BY <1>3, EnvironmentFrame
<1>4. CASE UNCHANGED vars
  BY Zenon, <1>4 DEF vars, apiVars
<1> QED BY Zenon, <1>1, <1>2, <1>3, <1>4, NextSplit

\* A workflow with steps has a terminal phase if and only if they are all done.
LEMMA TerminalIsEnded ==
  ASSUME NEW steps, \A s \in stepNames : steps[s].phase \in StepPhases,
         stepNames # {}
  PROVE  isWorkflowTerminal(computeWorkflowPhase(stepNames, steps)) <=> ended(steps)
<1> DEFINE found == {i \in stepNames : steps[i].phase # "none"}
           hasRunning == \E i \in found : steps[i].phase \in ActiveStepPhases
<1>1. isWorkflowTerminal(computeWorkflowPhase(stepNames, steps)) <=>
        found # {} /\ found = stepNames /\ ~hasRunning
  BY DEF computeWorkflowPhase, isWorkflowTerminal
<1>2. ended(steps) => found = stepNames /\ ~hasRunning
  BY DEF ended
<1>3. found = stepNames /\ ~hasRunning => ended(steps)
  BY Zenon DEF ended
<1> HIDE DEF found, hasRunning
<1> QED BY Zenon, <1>1, <1>2, <1>3

\* The steps of a workflow that is not rejected.
LEMMA NamesOfOrder ==
  ASSUME TypeOK
  PROVE  stepNames \subseteq Steps /\ (shape.order # <<>> => stepNames # {})
<1>1. shape.order \in Seq(Steps)
  BY ShapesAssumption DEF WorkflowSpecs, TypeOK
<1>2. stepNames \subseteq Steps
  BY <1>1 DEF stepNames
<1>3. shape.order # <<>> => 1 \in DOMAIN shape.order
  BY <1>1
<1> QED BY Zenon, <1>2, <1>3 DEF stepNames

-----------------------------------------------------------------------------
(* No wake-up is lost *)

\* The age of a Runner tells its number and whether it is gone.
LEMMA AgeType ==
  ASSUME NEW r \in RunnerObject
  PROVE  /\ age(r) \in Nat /\ 5 * r.uid <= age(r) /\ age(r) <= 5 * r.uid + 4
         /\ ~r.there <=> age(r) = 5 * r.uid + 4
         /\ r.there /\ r.phase \in {"Succeeded", "Failed"} => age(r) = 5 * r.uid + 3
<1>1. r.uid \in Nat /\ r.there \in BOOLEAN /\ r.phase \in RunnerPhases
  BY DEF RunnerObject
<1> QED BY <1>1 DEF age

\* A Runner that moves on.
Advance(r, new) ==
  /\ r.there /\ new.there /\ r.phase \notin {"Succeeded", "Failed"}
  /\ new.uid = r.uid /\ new.owned = r.owned /\ age(r) < age(new)

\* RunnerAdvances moves one Runner on.
LEMMA AdvanceEffect ==
  ASSUME TypeOK, NEW t \in Steps, RunnerAdvances(t), NEW s \in Steps
  PROVE  runners'[s] = runners[s] \/ Advance(runners[s], runners'[s])
<1>1. runners[t] \in RunnerObject /\ runners[t].there /\ runners \in [Steps -> RunnerObject]
  BY Zenon DEF TypeOK, RunnerObjects, RunnerAdvances
<1>2. PICK p \in {"Pending", "Running"} \cup RunnerOutcomes, e \in {0, clock} :
        /\ <<runners[t].phase, p>> \in
             {<<"none", "Pending">>, <<"Pending", "Running">>,
              <<"Pending", "Succeeded">>, <<"Pending", "Failed">>,
              <<"Running", "Succeeded">>, <<"Running", "Failed">>}
        /\ runners' = [runners EXCEPT ![t].phase = p, ![t].endedAt = e]
  BY Zenon DEF RunnerAdvances
<1>3. CASE s # t
  BY Zenon, <1>1, <1>2, <1>3
<1>4. CASE s = t
  <2>1. /\ runners'[t].there = runners[t].there /\ runners'[t].uid = runners[t].uid
        /\ runners'[t].owned = runners[t].owned /\ runners'[t].phase = p
    BY Zenon, <1>1, <1>2 DEF RunnerObject
  <2>2. /\ runners[t].phase \notin {"Succeeded", "Failed"}
        /\ \/ runners[t].phase = "none" /\ p = "Pending"
           \/ runners[t].phase = "Pending" /\ p \in {"Running", "Succeeded", "Failed"}
           \/ runners[t].phase = "Running" /\ p \in {"Succeeded", "Failed"}
    BY <1>2
  <2>3. runners[t].uid \in Nat
    BY <1>1 DEF RunnerObject
  <2>4. age(runners[t]) < age(runners'[t])
    BY <1>1, <2>1, <2>2, <2>3 DEF age
  <2> QED BY <1>1, <1>4, <2>1, <2>2, <2>4 DEF Advance
<1> QED BY <1>3, <1>4

\* What can happen to the Runner of a step, if it is as MirrorInv says: it
\* moves on, it is removed, or it is created where none was.
LEMMA RunnerMoves ==
  ASSUME TypeOK, [Next]_vars, NEW s \in Steps
  PROVE  \/ runners'[s] = runners[s] /\ created[s] <= created'[s]
         \/ Advance(runners[s], runners'[s]) /\ created'[s] = created[s]
         \/ /\ runners'[s] = removed(runners[s]) /\ created'[s] = created[s]
            /\ \/ /\ RetryStep /\ s = stepNow /\ inStepLoop /\ ~stepClosed
                  /\ work.list[s].there /\ work.list[s].phase = "Failed"
               \/ runners[s].there /\ (shape \in RunnersDeletable \/ ~wf.live)
         \/ /\ CreateRunner /\ s = stepNow /\ inStepLoop
            /\ ~work.list[s].there /\ ~runners[s].there
            /\ runners'[s] = buildStepRunner(created[s] + 1)
            /\ created'[s] = created[s] + 1
<1> USE DEF apiVars, ghostVars
<1>1. /\ runners \in [Steps -> RunnerObject] /\ created \in [Steps -> Nat]
  BY Zenon DEF TypeOK, RunnerObjects
<1>2. ASSUME UNCHANGED <<runners, created>>
      PROVE  runners'[s] = runners[s] /\ created[s] <= created'[s]
  BY <1>1, <1>2
<1>3. CASE StartOfPass \/ EndSteps \/ PatchStatus \/ PatchStatusFails
           \/ StepWithoutCall \/ CreateRunnerFails
  BY Zenon, <1>2, <1>3, StartFrame, EndEffect
  DEF PatchStatus, PatchStatusFails, StepWithoutCall, CreateRunnerFails
<1>4. CASE CreateRunner
  <2>1. /\ inStepLoop /\ ~runnerNow.there /\ ~runners[stepNow].there
        /\ runners' =
             [runners EXCEPT ![stepNow] = buildStepRunner(created[stepNow] + 1)]
        /\ created' = [created EXCEPT ![stepNow] = @ + 1]
    BY Zenon, <1>4 DEF CreateRunner, wantsRunner
  <2>2. stepNow \in Steps
    BY Zenon, <2>1, WalkType
  <2> QED BY <1>1, <1>4, <2>1, <2>2 DEF runnerNow
<1>5. CASE RetryStep
  <2>1. /\ inStepLoop /\ ~stepClosed /\ runnerNow.there /\ runnerNow.phase = "Failed"
        /\ \/ runners' = runners
           \/ runners' = [runners EXCEPT ![stepNow] = removed(runners[stepNow])]
        /\ created' = created
    BY <1>5 DEF RetryStep, retryNow, runnerPhaseToStepPhase
  <2>2. stepNow \in Steps
    BY Zenon, <2>1, WalkType
  <2> QED BY <1>1, <1>5, <2>1, <2>2 DEF runnerNow
<1>6. CASE SyncWorkflow \/ SyncRunners \/ TimerFires \/ Tick \/ UserDeletesWorkflow
           \/ Crash
  BY Zenon, <1>2, <1>6 DEF SyncWorkflow, SyncRunners, TimerFires, Tick,
     UserDeletesWorkflow, Crash
<1>7. ASSUME NEW t \in Steps, RunnerAdvances(t)
      PROVE  /\ created'[s] = created[s]
             /\ runners'[s] = runners[s] \/ Advance(runners[s], runners'[s])
  BY Zenon, <1>7, AdvanceEffect DEF RunnerAdvances
<1>8. CASE UserDeletesRunner \/ RunnerCollected
  <2>1. PICK t \in Steps : removeRunner(t) /\ (shape \in RunnersDeletable \/ ~wf.live)
    BY <1>8 DEF UserDeletesRunner, RunnerCollected
  <2>2. /\ runners' = [runners EXCEPT ![t] = removed(runners[t])]
        /\ runners[t].there /\ created' = created
    BY Zenon, <2>1 DEF removeRunner
  <2> QED BY <1>1, <2>1, <2>2
<1>9. CASE UNCHANGED vars
  BY <1>2, <1>9 DEF vars
<1>10. created[s] <= created[s]
  BY <1>1
<1> QED BY Zenon, <1>3, <1>4, <1>5, <1>6, <1>7, <1>8, <1>9, <1>10, NextSplit
  DEF RestOfPass, Environment

\* Every change of a Runner is watched, and makes it older.
LEMMA RunnersGrow ==
  ASSUME TypeOK, TypeOK', [Next]_vars, NEW s \in Steps, watched(s)
  PROVE  /\ runners'[s] = runners[s] \/ age(runners[s]) < age(runners'[s])
         /\ runners'[s] = NoRunner \/ runners'[s].owned
         /\ ~runners'[s].there => runners'[s] = removed(runners'[s])
         /\ runners'[s].uid <= created'[s] /\ age(runners[s]) <= age(runners'[s])
<1>1. /\ runners[s] \in RunnerObject /\ runners'[s] \in RunnerObject
      /\ created[s] \in Nat /\ created'[s] \in Nat
  BY DEF TypeOK, RunnerObjects
<1>2. /\ runners[s] = NoRunner \/ runners[s].owned
      /\ ~runners[s].there => runners[s] = removed(runners[s])
      /\ runners[s].uid <= created[s]
  BY Zenon DEF watched
<1>3. runners[s].uid \in Nat /\ age(runners[s]) \in Nat /\ age(runners'[s]) \in Nat
  BY Zenon, <1>1, AgeType DEF RunnerObject
<1>4. CASE runners'[s] = runners[s] /\ created[s] <= created'[s]
  BY <1>1, <1>2, <1>3, <1>4
<1>5. CASE Advance(runners[s], runners'[s]) /\ created'[s] = created[s]
  BY <1>2, <1>3, <1>5 DEF Advance, NoRunner
<1>6. CASE runners'[s] = removed(runners[s]) /\ created'[s] = created[s]
  <2>1. /\ runners'[s].uid = runners[s].uid /\ runners'[s].owned = runners[s].owned
        /\ ~runners'[s].there /\ runners'[s] = removed(runners'[s])
    BY Zenon, <1>6 DEF removed, NoRunner
  <2>2. CASE ~runners[s].there
    BY <1>1, <1>2, <1>3, <1>6, <2>2
  <2>3. CASE runners[s].there
    <3>1. age(runners[s]) < age(runners'[s])
      BY <1>1, <1>3, <2>1, <2>3, AgeType
    <3> QED BY <1>2, <1>3, <1>6, <2>1, <2>3, <3>1 DEF NoRunner
  <2> QED BY Zenon, <2>2, <2>3
<1>7. CASE /\ runners'[s] = buildStepRunner(created[s] + 1)
           /\ created'[s] = created[s] + 1
  <2>1. /\ runners'[s].there /\ runners'[s].owned
        /\ runners'[s].uid = created[s] + 1
    BY Zenon, <1>7 DEF buildStepRunner, NoRunner
  <2>2. age(runners[s]) < age(runners'[s])
    BY <1>1, <1>2, <1>3, <2>1, AgeType
  <2> QED BY <1>1, <1>3, <1>7, <2>1, <2>2
<1> QED BY Zenon, <1>4, <1>5, <1>6, <1>7, RunnerMoves

\* A cache that has caught up again with the Runners has lost nothing: a Runner
\* never returns to a state it had.
LEMMA NeverBack ==
  ASSUME TypeOK, TypeOK', [Next]_vars, \A s \in Steps : watched(s),
         runnersCache = runners'
  PROVE  runners' = runners
<1>1. ASSUME NEW s \in Steps PROVE runners'[s] = runners[s]
  <2>1. /\ runners'[s] = runners[s] \/ age(runners[s]) < age(runners'[s])
        /\ age(runnersCache[s]) <= age(runners[s])
        /\ age(runners'[s]) = age(runnersCache[s])
    BY Zenon, RunnersGrow DEF watched
  <2>2. age(runners[s]) \in Nat /\ age(runners'[s]) \in Nat
    BY AgeType DEF TypeOK, RunnerObjects
  <2> QED BY <2>1, <2>2
<1> QED BY <1>1 DEF TypeOK, RunnerObjects

\* The caches change only when they catch up or in a crash.
LEMMA CacheMoves ==
  ASSUME TypeOK, [Next]_vars
  PROVE  /\ wfCache' = wfCache \/ wfCache' = wf
         /\ runnersCache' = runnersCache \/ runnersCache' = runners
         /\ runnersCache' # runnersCache => runners' = runners
<1>1. CASE StartOfPass
  BY Zenon, <1>1, StartFrame
<1>2. CASE RestOfPass
  BY Zenon, <1>2, IterationFrame, EndEffect
  DEF RestOfPass, PatchStatus, PatchStatusFails, cacheVars
<1>3. CASE Environment
  BY <1>3 DEF Environment, SyncWorkflow, SyncRunners, TimerFires, Tick, RunnerAdvances,
     UserDeletesRunner, UserDeletesWorkflow, RunnerCollected, removeRunner, Crash,
     cacheVars, apiVars
<1>4. CASE UNCHANGED vars
  BY Zenon, <1>4 DEF vars, cacheVars
<1> QED BY Zenon, <1>1, <1>2, <1>3, <1>4, NextSplit

\* Runners stay watched.
LEMMA WatchedStep ==
  ASSUME TypeOK, TypeOK', [Next]_vars, NEW s \in Steps, watched(s)
  PROVE  watched(s)'
<1>1. /\ age(runners[s]) \in Nat /\ age(runners'[s]) \in Nat
      /\ age(runnersCache[s]) \in Nat
  BY Zenon, AgeType DEF TypeOK, RunnerObjects
<1> QED BY <1>1, CacheMoves, RunnersGrow DEF watched

\* A Workflow that is gone stays gone.
LEMMA LiveFrame == ASSUME TypeOK, [Next]_vars, wf'.live PROVE wf.live
<1>1. CASE StartOfPass
  BY Zenon, <1>1, StartFrame
<1>2. CASE RestOfPass
  BY Zenon, <1>2, IterationFrame, EndEffect
  DEF RestOfPass, PatchStatus, PatchStatusFails, apiVars
<1>3. CASE Environment
  BY Zenon, <1>3, EnvironmentFrame
<1> QED BY <1>1, <1>2, <1>3, NextSplit DEF vars, apiVars

\* An earlier state of a Runner is one of what becomes of it, unless users
\* interfere, if a pass in progress has not seen more.
LEMMA EarlierMoves ==
  ASSUME TypeOK, TypeOK', [Next]_vars, shape \notin RunnersDeletable, wf.live,
         NEW s \in Steps, watched(s), NEW c \in RunnerObject, earlier(c, runners[s]),
         work # NoWork => /\ earlier(work.list[s], runners[s])
                          /\ age(work.list[s]) <= age(c)
  PROVE  earlier(c, runners'[s])
<1> DEFINE r == runners[s]
           new == runners'[s]
           l == work.list[s]
<1>1. r \in RunnerObject /\ new \in RunnerObject
  BY Zenon DEF TypeOK, RunnerObjects
<1>2. work # NoWork => l \in RunnerObject
  BY Zenon DEF TypeOK, Work, RunnerObjects
<1>3. /\ c.uid \in Nat /\ r.uid \in Nat /\ new.uid \in Nat
      /\ age(c) \in Nat /\ age(r) \in Nat /\ age(new) \in Nat
  BY Zenon, <1>1, AgeType DEF RunnerObject
<1>4. inStepLoop => work # NoWork
  BY Zenon DEF inStepLoop
<1>5. /\ age(c) <= age(r) /\ (c.there => r.uid = c.uid)
      /\ c.there /\ c.phase = "Succeeded" => r.there /\ r.phase = "Succeeded"
      /\ c.there /\ c.phase = "Failed" => ~r.there \/ r.phase = "Failed"
      /\ ~r.there => c.uid = r.uid
  BY Zenon DEF earlier
<1>6. CASE new = r
  BY Zenon, <1>6
<1>7. CASE Advance(r, new)
  BY <1>3, <1>5, <1>7 DEF Advance, earlier
<1>8. CASE new = removed(r) /\ work # NoWork /\ l.there /\ l.phase = "Failed"
  <2>1. new.uid = r.uid /\ ~new.there
    BY Zenon, <1>8 DEF removed, NoRunner
  <2>2. /\ l.uid = r.uid /\ (~r.there \/ r.phase = "Failed") /\ age(l) <= age(c)
        /\ age(l) = 5 * l.uid + 3 /\ l.uid \in Nat
    BY Zenon, <1>2, <1>8, AgeType DEF earlier, RunnerObject
  <2>3. /\ age(r) <= 5 * r.uid + 4 /\ age(new) = 5 * new.uid + 4
        /\ 5 * c.uid <= age(c) /\ age(c) <= 5 * c.uid + 4
    BY Zenon, <1>1, <2>1, AgeType
  <2>4. c.uid = r.uid /\ age(c) <= age(new)
    BY <1>3, <1>5, <2>1, <2>2, <2>3
  <2> QED BY Zenon, <1>5, <2>1, <2>2, <2>4 DEF earlier
<1>9. CASE /\ new = buildStepRunner(created[s] + 1) /\ work # NoWork
           /\ ~l.there /\ ~r.there
  <2>1. new.there /\ new.uid = created[s] + 1 /\ created[s] \in Nat
    BY Zenon, <1>9 DEF buildStepRunner, NoRunner, TypeOK
  <2>2. l.uid = r.uid /\ age(l) <= age(c) /\ age(l) = 5 * l.uid + 4 /\ l.uid \in Nat
    BY Zenon, <1>2, <1>9, AgeType DEF earlier, RunnerObject
  <2>3. /\ age(r) <= 5 * r.uid + 4 /\ 5 * new.uid <= age(new)
        /\ 5 * c.uid <= age(c) /\ age(c) <= 5 * c.uid + 4
        /\ ~c.there <=> age(c) = 5 * c.uid + 4
    BY Zenon, <1>1, AgeType
  <2>4. r.uid <= created[s]
    BY Zenon DEF watched
  <2>5. ~c.there /\ age(c) <= age(new)
    BY <1>3, <1>5, <2>1, <2>2, <2>3, <2>4
  <2> QED BY Zenon, <2>1, <2>5 DEF earlier
<1> QED BY Zenon, <1>4, <1>6, <1>7, <1>8, <1>9, RunnerMoves

\* How work changes: a pass starts or ends, or goes on with what it has read.
LEMMA WorkMoves ==
  ASSUME TypeOK, [Next]_vars, work' # NoWork
  PROVE  \/ work = NoWork /\ StartOfPass
         \/ /\ work # NoWork /\ ~StartOfPass
            /\ work'.base = work.base /\ work'.list = work.list
            /\ work'.next # 0 => work.next # 0
            /\ wf'.steps = wf.steps /\ wf'.startTime = wf.startTime
<1>1. CASE StartOfPass
  BY Zenon, <1>1, StartFrame
<1>2. CASE StepWithoutCall \/ CreateRunner \/ CreateRunnerFails \/ RetryStep
  <2>1. /\ inStepLoop /\ work'.base = work.base /\ work'.list = work.list /\ wf' = wf
    BY Zenon, <1>2, IterationFrame
  <2>2. work # NoWork /\ work.next # 0
    BY Zenon, <2>1 DEF inStepLoop, TypeOK
  <2> QED BY Zenon, <2>1, <2>2, StartFrame
<1>3. CASE EndSteps
  BY Zenon, <1>3, EndEffect, StartFrame
<1>4. CASE PatchStatus \/ PatchStatusFails
  BY <1>4 DEF PatchStatus, PatchStatusFails
<1>5. CASE Environment
  BY Zenon, <1>5, EnvironmentFrame, StartFrame
<1>6. CASE UNCHANGED vars
  BY Zenon, <1>6, StartFrame DEF vars, apiVars, procVars
<1> QED BY Zenon, <1>1, <1>2, <1>3, <1>4, <1>5, <1>6, NextSplit DEF RestOfPass

\* A CompletedAt comes from the end of the step or was there before.
LEMMA UpsertEffect ==
  ASSUME NEW s \in StepStatuses, NEW p \in StepPhases, NEW now \in Nat
  PROVE  LET u == upsertStepStatus(s, p, now)
         IN  /\ u \in StepStatuses /\ u.phase = p
             /\ u.completedAt # 0 =>
                  /\ u.retryCount = s.retryCount
                  /\ p \in {"Succeeded", "Failed"} \/ u.completedAt = s.completedAt
<1> DEFINE u == upsertStepStatus(s, p, now)
<1>1. u \in StepStatuses
  BY Zenon, UpsertType
<1>2. CASE s.phase = "none"
  <2>1. u.phase = p /\ u.completedAt = 0
    BY <1>2 DEF upsertStepStatus, NoStepStatus
  <2> QED BY <1>1, <2>1
<1>3. CASE s.phase # "none" /\ s.phase = p
  BY Zenon, <1>1, <1>3 DEF upsertStepStatus
<1>4. CASE s.phase # "none" /\ s.phase # p
  <2> DEFINE at == IF p = "Running" THEN 0
                   ELSE IF p \in {"Succeeded", "Failed"} THEN now ELSE s.completedAt
  <2>1. u = [s EXCEPT !.phase = p, !.completedAt = at]
    BY Zenon, <1>4 DEF upsertStepStatus
  <2>2. at # 0 => p \in {"Succeeded", "Failed"} \/ at = s.completedAt
    OBVIOUS
  <2> HIDE DEF at, u
  <2>3. u.phase = p /\ u.completedAt = at /\ u.retryCount = s.retryCount
    BY Zenon, <2>1 DEF StepStatuses
  <2> QED BY Zenon, <1>1, <2>2, <2>3 DEF u
<1> QED BY Zenon, <1>2, <1>3, <1>4

\* An iteration keeps the statuses conclusive.
LEMMA ConclusiveIteration ==
  ASSUME TypeOK, StepWithoutCall \/ CreateRunner \/ CreateRunnerFails \/ RetryStep,
         conclusive(work.local),
         \A s \in Steps : earlier(work.list[s], runnersCache[s])
  PROVE  conclusive(work.local)'
<1>1. /\ inStepLoop /\ stepNow \in Steps /\ work \in Work /\ work' # NoWork
      /\ shape' = shape /\ runnersCache' = runnersCache /\ clock' = clock
      /\ work'.list = work.list
      /\ work'.local.startTime = work.local.startTime
      /\ \A t \in Steps : t # stepNow => work'.local.steps[t] = work.local.steps[t]
  BY Zenon, IterationFrame
<1>2. /\ statusNow = work.local.steps[stepNow] /\ statusNow \in StepStatuses
      /\ runnerNow = work.list[stepNow] /\ runnerNow \in RunnerObject /\ clock \in Nat
      /\ work # NoWork
  BY Zenon, <1>1, WalkType DEF statusNow, runnerNow, TypeOK, inStepLoop
<1>3. shape.maxRetries[stepNow] \in Nat /\ statusNow.retryCount \in Nat
  BY Zenon, <1>1, <1>2, ShapesAssumption DEF WorkflowSpecs, TypeOK, StepStatuses
<1>4. /\ statusNow.phase = "Succeeded" => stepClosed
      /\ statusNow.phase # "Succeeded" /\ statusNow.completedAt # 0 =>
           statusNow.retryCount >= shape.maxRetries[stepNow] \/ expired(work.local)
  BY Zenon, <1>1, <1>2 DEF conclusive, stepClosed
<1>5. expired(work.local)' <=> expired(work.local)
  BY Zenon, <1>1 DEF expired
<1> DEFINE concluded(st) ==
             /\ st.phase = "Succeeded" =>
                  work.list[stepNow].there /\ work.list[stepNow].phase = "Succeeded"
             /\ st.phase # "Succeeded" /\ st.completedAt # 0 =>
                  st.retryCount >= shape.maxRetries[stepNow] \/ expired(work.local)
<1>6. concluded(newStatus)
  <2>1. CASE StepKept
    <3>1. newStatus = statusNow
      BY <1>2, <2>1 DEF StepKept, newStatus
    <3> QED BY Zenon, <1>1, <1>2, <3>1 DEF conclusive
  <2>2. CASE StepMarked
    BY Zenon, <2>2 DEF StepMarked, NoStepStatus
  <2>3. CASE StepCopied
    <3> DEFINE p == runnerPhaseToStepPhase(runnerNow.phase)
    <3>1. /\ newStatus = upsertStepStatus(statusNow, p, clock) /\ ~stepClosed
          /\ runnerNow.there /\ ~retryNow
      BY Zenon, <2>3 DEF StepCopied, mayRun
    <3>2. /\ p \in StepPhases
          /\ p = "Succeeded" => runnerNow.phase = "Succeeded"
          /\ p = "Failed" => statusNow.retryCount >= shape.maxRetries[stepNow]
      BY <1>2, <1>3, <3>1 DEF runnerPhaseToStepPhase, RunnerObject, retryNow
    <3> HIDE DEF p, concluded, StepPhases
    <3>3. /\ newStatus.phase = p
          /\ newStatus.completedAt # 0 =>
               /\ newStatus.retryCount = statusNow.retryCount
               /\ \/ p \in {"Succeeded", "Failed"}
                  \/ newStatus.completedAt = statusNow.completedAt
      BY ZenonT(40), <1>2, <3>1, <3>2, UpsertEffect
    <3> QED BY Zenon, <1>2, <1>4, <3>1, <3>2, <3>3 DEF concluded
  <2>4. CASE StepCreated
    <3>1. newStatus = upsertStepStatus(statusNow, "Pending", clock) /\ ~stepClosed
      BY <2>4 DEF StepCreated, mayRun
    <3>2. /\ newStatus.phase = "Pending"
          /\ newStatus.completedAt # 0 =>
               /\ newStatus.retryCount = statusNow.retryCount
               /\ newStatus.completedAt = statusNow.completedAt
      <4>1. "Pending" \in StepPhases
        OBVIOUS
      <4> HIDE DEF StepPhases
      <4> QED BY Zenon, <1>2, <3>1, <4>1, UpsertEffect
    <3> QED BY Zenon, <1>4, <3>1, <3>2
  <2>5. CASE StepRetried
    <3> DEFINE u == upsertStepStatus(statusNow, "Pending", clock)
    <3>1. newStatus = [u EXCEPT !.retryCount = @ + 1] /\ ~stepClosed
      BY Zenon, <2>5 DEF StepRetried, mayRun
    <3>2. /\ u \in StepStatuses /\ u.phase = "Pending"
          /\ u.completedAt # 0 =>
               /\ u.retryCount = statusNow.retryCount
               /\ u.completedAt = statusNow.completedAt
      <4>1. "Pending" \in StepPhases
        OBVIOUS
      <4> HIDE DEF StepPhases
      <4> QED BY Zenon, <1>2, <4>1, UpsertEffect
    <3> HIDE DEF u
    <3>3. /\ newStatus.phase = "Pending" /\ newStatus.completedAt = u.completedAt
          /\ newStatus.retryCount = u.retryCount + 1
      BY Zenon, <3>1, <3>2 DEF StepStatuses
    <3> QED BY <1>3, <1>4, <3>1, <3>2, <3>3
  <2> QED BY Zenon, <2>1, <2>2, <2>3, <2>4, <2>5, StepEffect
<1> HIDE DEF concluded
<1>7. ASSUME NEW s \in Steps
      PROVE  /\ work'.local.steps[s].phase = "Succeeded" =>
                  /\ runnersCache[s].there /\ runnersCache[s].phase = "Succeeded"
                  /\ work.list[s].there /\ work.list[s].phase = "Succeeded"
             /\ work'.local.steps[s].phase # "Succeeded"
                /\ work'.local.steps[s].completedAt # 0 =>
                  \/ work'.local.steps[s].retryCount >= shape.maxRetries[s]
                  \/ expired(work.local)
  <2>1. CASE s = stepNow
    BY Zenon, <1>6, <2>1 DEF concluded, newStatus, earlier
  <2>2. CASE s # stepNow
    BY Zenon, <1>1, <1>2, <2>2 DEF conclusive
  <2> QED BY Zenon, <2>1, <2>2
<1> QED BY Zenon, <1>1, <1>5, <1>7 DEF conclusive

\* How the clock and the steps of the status change.
LEMMA StatusMoves ==
  ASSUME TypeOK, [Next]_vars
  PROVE  /\ clock' \in Nat /\ clock <= clock'
         /\ PatchStatus \/ (wf'.steps = wf.steps /\ wf'.startTime = wf.startTime)
<1>1. CASE StartOfPass
  BY <1>1, StartFrame DEF TypeOK
<1>2. CASE StepWithoutCall \/ CreateRunner \/ CreateRunnerFails \/ RetryStep
  BY <1>2, IterationFrame DEF TypeOK
<1>3. CASE EndSteps
  BY <1>3, EndEffect DEF TypeOK
<1>4. CASE PatchStatus
  BY <1>4 DEF TypeOK, PatchStatus
<1>5. CASE PatchStatusFails
  BY <1>5 DEF TypeOK, PatchStatusFails, apiVars
<1>6. CASE Environment
  <2>1. clock' = clock \/ clock' = clock + 1
    BY Zenon, <1>6 DEF Environment, SyncWorkflow, SyncRunners, TimerFires, Tick, RunnerAdvances,
       UserDeletesRunner, UserDeletesWorkflow, RunnerCollected, removeRunner, Crash
  <2> QED BY <1>6, <2>1, EnvironmentFrame DEF TypeOK
<1>7. CASE UNCHANGED vars
  BY <1>7 DEF vars, apiVars, TypeOK
<1> QED BY Zenon, <1>1, <1>2, <1>3, <1>4, <1>5, <1>6, <1>7, NextSplit DEF RestOfPass

\* A status that is conclusive after the step.
lasting(status) ==
  \A s \in Steps :
    /\ status.steps[s].phase = "Succeeded" =>
         /\ runnersCache'[s].there /\ runnersCache'[s].phase = "Succeeded"
         /\ work' # NoWork =>
              work'.list[s].there /\ work'.list[s].phase = "Succeeded"
    /\ status.steps[s].phase # "Succeeded" /\ status.steps[s].completedAt # 0 =>
         \/ status.steps[s].retryCount >= shape.maxRetries[s]
         \/ /\ shape.timeout # 0 /\ status.startTime # 0
            /\ clock' - status.startTime > shape.timeout

LEMMA LastingIsConclusive ==
  ASSUME TypeOK, [Next]_vars
  PROVE  /\ lasting(wf') => conclusive(wf)' 
         /\ lasting(wfCache') => conclusive(wfCache)'
         /\ lasting(work'.local) => conclusive(work.local)'
<1>1. shape' = shape
  BY Zenon, ShapeFrame
<1>2. lasting(wf') => conclusive(wf)'
  BY Zenon, <1>1 DEF lasting, conclusive, expired
<1>3. lasting(wfCache') => conclusive(wfCache)'
  BY Zenon, <1>1 DEF lasting, conclusive, expired
<1>4. lasting(work'.local) => conclusive(work.local)'
  BY Zenon, <1>1 DEF lasting, conclusive, expired
<1> QED BY <1>2, <1>3, <1>4

\* A status that is conclusive stays so.
LEMMA ConclusiveLasts ==
  ASSUME TypeOK, [Next]_vars, \A s \in Steps : earlier(runnersCache[s], runners[s]),
         NEW status \in WorkflowStatus, conclusive(status)
  PROVE  lasting(status)
<1>1. /\ clock \in Nat /\ clock' \in Nat /\ clock <= clock' /\ shape.timeout \in Nat
      /\ status.startTime \in Nat
  BY Zenon, StatusMoves, ShapesAssumption DEF TypeOK, WorkflowSpecs, WorkflowStatus
<1>2. expired(status) => /\ shape.timeout # 0 /\ status.startTime # 0
                         /\ clock' - status.startTime > shape.timeout
  BY <1>1 DEF expired
<1>3. ASSUME NEW s \in Steps, runnersCache[s].there,
             runnersCache[s].phase = "Succeeded"
      PROVE  runnersCache'[s].there /\ runnersCache'[s].phase = "Succeeded"
  BY Zenon, <1>3, CacheMoves DEF earlier
<1>4. ASSUME NEW s \in Steps, status.steps[s].phase = "Succeeded", work' # NoWork
      PROVE  work'.list[s].there /\ work'.list[s].phase = "Succeeded"
  BY Zenon, <1>4, WorkMoves, StartWork DEF conclusive
<1> QED BY Zenon, <1>2, <1>3, <1>4 DEF conclusive, lasting

\* A pass starts from a conclusive status, or fails all steps of a workflow that
\* has expired.
LEMMA ConclusiveStart ==
  ASSUME TypeOK, StartOfPass, work' # NoWork, conclusive(wfCache)
  PROVE  lasting(work'.local)
<1>1. /\ work = NoWork /\ runnersCache' = runnersCache /\ clock' = clock
  BY Zenon, StartFrame
<1>2. work'.list = runnersCache
  BY Zenon, <1>1, StartWork
<1>3. CASE /\ work'.local.steps = wfCache.steps
           /\ \/ work'.local.startTime = wfCache.startTime
              \/ wfCache.startTime = 0
  BY Zenon, <1>1, <1>2, <1>3 DEF conclusive, lasting, expired
<1>4. CASE timedOut /\ work'.local = timeoutStatus
  <2>1. timeoutStatus.startTime = wfCache.startTime
    BY Zenon DEF timeoutStatus, TypeOK, WorkflowStatus
  <2>2. \A s \in Steps : timeoutStatus.steps[s].phase = "Succeeded" =>
          wfCache.steps[s].phase = "Succeeded"
    BY Zenon, TimeoutStatus DEF TypeOK
  <2>3. /\ shape.timeout # 0 /\ timeoutStatus.startTime # 0
        /\ clock - timeoutStatus.startTime > shape.timeout
    BY Zenon, <1>4, <2>1 DEF timedOut
  <2> HIDE DEF timeoutStatus
  <2> QED BY Zenon, <1>1, <1>2, <1>4, <2>2, <2>3 DEF conclusive, lasting
<1> QED BY <1>1, <1>3, <1>4, StartWork

\* A patch writes a conclusive status.
LEMMA ConclusivePatch ==
  ASSUME TypeOK, PatchStatus, ~startsCompleted, lasting(wf), lasting(work.local),
         shape \notin StaleFor =>
           work.base.steps = wf.steps /\ work.base.startTime = wf.startTime
  PROVE  lasting(wf')
<1>1. /\ work.base \in WorkflowStatus /\ work.local \in WorkflowStatus
      /\ wf \in WorkflowStatus /\ wf' = mergePatch(wf, work.base, work.local)
  BY Zenon DEF TypeOK, PatchStatus, Work
<1>2. CASE shape \notin StaleFor
  <2>1. wf'.steps = work.local.steps /\ wf'.startTime = work.local.startTime
    BY Zenon, <1>1, <1>2 DEF mergePatch, merge
  <2> QED BY Zenon, <2>1 DEF lasting
<1>3. CASE shape \in StaleFor
  <2>1. shape.timeout = 0
    BY Zenon, <1>3 DEF startsCompleted
  <2>2. wf'.steps = wf.steps \/ wf'.steps = work.local.steps
    BY Zenon, <1>1, MergeType
  <2> QED BY <2>1, <2>2 DEF lasting
<1> QED BY Zenon, <1>2, <1>3

\* What the passes know of the Runners stays an earlier state of them.
LEMMA EarlierStep ==
  ASSUME TypeOK, TypeOK', [Next]_vars, \A s \in Steps : watched(s), WaitInv,
         ~startsCompleted, wf.live, NEW s \in Steps
  PROVE  /\ earlier(runnersCache'[s], runners'[s])
         /\ work' # NoWork => /\ earlier(work'.list[s], runners'[s])
                              /\ earlier(work'.list[s], runnersCache'[s])
<1>1. /\ runnersCache[s] \in RunnerObject /\ runners'[s] \in RunnerObject
      /\ work # NoWork => work.list[s] \in RunnerObject
  BY Zenon DEF TypeOK, RunnerObjects, Work
<1>2. /\ earlier(runnersCache[s], runners[s]) /\ shape \notin RunnersDeletable
      /\ work # NoWork => /\ earlier(work.list[s], runners[s])
                          /\ earlier(work.list[s], runnersCache[s])
  BY DEF WaitInv, startsCompleted
<1>3. ASSUME NEW r \in RunnerObject PROVE earlier(r, r)
  BY AgeType DEF earlier
<1>4. earlier(runnersCache[s], runners'[s])
  <2>1. work # NoWork => age(work.list[s]) <= age(runnersCache[s])
    BY Zenon, <1>2 DEF earlier
  <2> QED BY Zenon, <1>1, <1>2, <2>1, EarlierMoves
<1>5. work # NoWork => earlier(work.list[s], runners'[s])
  <2>1. work # NoWork => age(work.list[s]) <= age(work.list[s])
    BY <1>1, AgeType
  <2> QED BY Zenon, <1>1, <1>2, <2>1, EarlierMoves
<1>6. earlier(runnersCache'[s], runners'[s])
  BY Zenon, <1>1, <1>3, <1>4, CacheMoves
<1>7. ASSUME work' # NoWork
      PROVE  /\ earlier(work'.list[s], runners'[s])
             /\ earlier(work'.list[s], runnersCache'[s])
  <2>1. CASE StartOfPass /\ work = NoWork
    BY Zenon, <1>1, <1>3, <1>4, <1>7, <2>1, StartWork, StartFrame
  <2>2. CASE work # NoWork /\ work'.list = work.list
    BY Zenon, <1>2, <1>5, <2>2, CacheMoves
  <2> QED BY Zenon, <1>7, <2>1, <2>2, WorkMoves
<1> QED BY Zenon, <1>6, <1>7

\* The walk of a workflow that has not ended finds no step that has a CompletedAt
\* and a retry left.
untiring(base) ==
  \A s \in Steps : \/ base.steps[s].phase \in DoneStepPhases
                   \/ base.steps[s].completedAt = 0
                   \/ base.steps[s].retryCount >= shape.maxRetries[s]

LEMMA WaitStep ==
  ASSUME TypeOK, TypeOK', [Next]_vars, \A s \in Steps : watched(s), WaitInv
  PROVE  WaitInv'
<1>1. shape' = shape /\ (startsCompleted' <=> startsCompleted)
  BY Zenon, ShapeFrame DEF startsCompleted
<1> SUFFICES ASSUME ~startsCompleted, wf'.live
             PROVE  WaitInv'
  BY Zenon, <1>1 DEF WaitInv
<1>2. wf.live
  BY LiveFrame
<1>3. /\ \A s \in Steps : earlier(runnersCache[s], runners[s])
      /\ conclusive(wf) /\ conclusive(wfCache)
      /\ work # NoWork =>
           /\ conclusive(work.local)
           /\ shape \notin StaleFor =>
                work.base.steps = wf.steps /\ work.base.startTime = wf.startTime
           /\ \A s \in Steps : earlier(work.list[s], runnersCache[s])
           /\ work.next # 0 /\ ~isWorkflowTerminal(work.base.phase) =>
                untiring(work.base)
  BY Zenon, <1>2 DEF WaitInv, untiring
<1>4. /\ wf \in WorkflowStatus /\ wfCache \in WorkflowStatus
      /\ work # NoWork => work.local \in WorkflowStatus
  BY Zenon DEF TypeOK, Work
<1>5. /\ lasting(wf) /\ lasting(wfCache)
      /\ work # NoWork => lasting(work.local)
  BY Zenon, <1>3, <1>4, ConclusiveLasts
<1>6. \A s \in Steps :
        /\ earlier(runnersCache'[s], runners'[s])
        /\ work' # NoWork => /\ earlier(work'.list[s], runners'[s])
                             /\ earlier(work'.list[s], runnersCache'[s])
  BY Zenon, <1>2, EarlierStep
<1>7. lasting(wf')
  <2>1. CASE PatchStatus
    <3>1. work # NoWork
      BY Zenon, <2>1 DEF PatchStatus
    <3> QED BY Zenon, <1>3, <1>5, <2>1, <3>1, ConclusivePatch
  <2>2. CASE wf'.steps = wf.steps /\ wf'.startTime = wf.startTime
    BY Zenon, <1>5, <2>2 DEF lasting
  <2> QED BY Zenon, <2>1, <2>2, StatusMoves
<1>8. lasting(wfCache')
  BY Zenon, <1>5, CacheMoves
<1>9. work' # NoWork => conclusive(work.local)'
  <2> SUFFICES ASSUME work' # NoWork PROVE conclusive(work.local)'
    BY Zenon
  <2>1. CASE StartOfPass
    BY Zenon, <1>3, <2>1, ConclusiveStart, LastingIsConclusive
  <2>2. CASE StepWithoutCall \/ CreateRunner \/ CreateRunnerFails \/ RetryStep
    <3>1. work # NoWork
      BY Zenon, <2>2, IterationFrame DEF inStepLoop
    <3> QED BY Zenon, <1>3, <2>2, <3>1, ConclusiveIteration
  <2>3. CASE EndSteps
    <3>1. /\ work # NoWork /\ work'.local.steps = work.local.steps
          /\ work'.local.startTime = work.local.startTime
      BY Zenon, <2>3, EndEffect
    <3>2. lasting(work'.local)
      BY Zenon, <1>5, <3>1 DEF lasting
    <3> QED BY Zenon, <3>2, LastingIsConclusive
  <2>4. CASE PatchStatus \/ PatchStatusFails
    BY <2>4 DEF PatchStatus, PatchStatusFails
  <2>5. CASE Environment
    <3>1. work' = work
      BY Zenon, <2>5, EnvironmentFrame
    <3> QED BY Zenon, <1>5, <3>1, LastingIsConclusive
  <2>6. CASE UNCHANGED vars
    <3>1. work' = work
      BY Zenon, <2>6 DEF vars, procVars
    <3> QED BY Zenon, <1>5, <3>1, LastingIsConclusive
  <2> QED BY Zenon, <2>1, <2>2, <2>3, <2>4, <2>5, <2>6, NextSplit DEF RestOfPass
<1>10. work' # NoWork =>
         /\ shape \notin StaleFor =>
              work'.base.steps = wf'.steps /\ work'.base.startTime = wf'.startTime
         /\ work'.next # 0 /\ ~isWorkflowTerminal(work'.base.phase) =>
              untiring(work'.base)
  <2> SUFFICES ASSUME work' # NoWork
               PROVE  /\ shape \notin StaleFor =>
                           /\ work'.base.steps = wf'.steps
                           /\ work'.base.startTime = wf'.startTime
                      /\ work'.next # 0 /\ ~isWorkflowTerminal(work'.base.phase) =>
                           untiring(work'.base)
    BY Zenon
  <2>1. CASE work = NoWork /\ StartOfPass
    <3>1. /\ work'.base = wfCache /\ wf' = wf
          /\ shape \notin StaleFor => wfCache = wf
          /\ work'.next # 0 => ~timedOut
      BY Zenon, <2>1, StartWork, StartFrame
    <3>2. ~timedOut /\ ~isWorkflowTerminal(wfCache.phase) => ~expired(wfCache)
      BY DEF timedOut, expired
    <3>3. ~expired(wfCache) => untiring(wfCache)
      BY Zenon, <1>3 DEF conclusive, untiring, DoneStepPhases
    <3> QED BY Zenon, <3>1, <3>2, <3>3
  <2>2. CASE /\ work # NoWork /\ work'.base = work.base
             /\ work'.next # 0 => work.next # 0
             /\ wf'.steps = wf.steps /\ wf'.startTime = wf.startTime
    BY Zenon, <1>3, <2>2
  <2> QED BY Zenon, <2>1, <2>2, WorkMoves
<1>11. conclusive(wf)' /\ conclusive(wfCache)'
  BY Zenon, <1>7, <1>8, LastingIsConclusive
<1> QED BY Zenon, <1>1, <1>6, <1>9, <1>10, <1>11 DEF WaitInv, untiring

\* The other steps stay ahead.
LEMMA AheadStays ==
  ASSUME TypeOK, StepWithoutCall \/ CreateRunner \/ CreateRunnerFails \/ RetryStep,
         NEW s \in Steps, ahead(s), s # stepNow
  PROVE  ahead(s)'
<1>1. /\ inStepLoop /\ work \in Work /\ shape' = shape /\ work' # NoWork
      /\ work'.then = "steps" /\ work'.next = work.next + 1
  BY Zenon, IterationFrame
<1>2. PICK i \in DOMAIN shape.order : i >= work.next /\ shape.order[i] = s
  BY Zenon DEF ahead
<1>3. shape.order \in Seq(Steps) /\ work.next \in Nat
  BY Zenon, <1>1, ShapesAssumption DEF WorkflowSpecs, TypeOK, Work
<1>4. i >= work.next + 1
  BY <1>2, <1>3 DEF stepNow
<1> QED BY Zenon, <1>1, <1>2, <1>4 DEF ahead

\* If the key is not queued the environment has shown the operator nothing new.
LEMMA QuietFrame ==
  ASSUME TypeOK, \A s \in Steps : watched(s), ~queued',
         Environment \/ UNCHANGED vars
  PROVE  /\ ~queued /\ work' = work
         /\ wfCache' = wfCache /\ runnersCache' = runnersCache
<1>1. ~SyncRunners \/ queued'
  <2>1. SUFFICES ASSUME SyncRunners PROVE queued'
    BY Zenon
  <2>2. runners \in [Steps -> RunnerObject] /\ runnersCache \in [Steps -> RunnerObject]
    BY Zenon DEF TypeOK, RunnerObjects
  <2>3. PICK s \in Steps : runnersCache[s] # runners[s]
    BY <2>1, <2>2 DEF SyncRunners
  <2>4. runnersCache[s].owned \/ runners[s].owned
    BY Zenon, <2>3 DEF watched
  <2> QED BY Zenon, <2>1, <2>3, <2>4 DEF SyncRunners
<1> QED BY <1>1 DEF Environment, SyncWorkflow, TimerFires, Tick, RunnerAdvances,
     UserDeletesRunner, UserDeletesWorkflow, RunnerCollected, removeRunner, Crash,
     cacheVars, procVars, vars

found(s, base, list) ==
  mirrored(s, base.steps, list, base.steps[s].retryCount < shape.maxRetries[s])

\* An iteration that changes nothing has found its step mirrored.
LEMMA FoundMirrored ==
  ASSUME TypeOK, StepWithoutCall \/ CreateRunner \/ CreateRunnerFails \/ RetryStep,
         work.local.steps = work.base.steps, newStatus = statusNow
  PROVE  found(stepNow, work.base, work.list)
<1>1. /\ inStepLoop /\ stepNow \in Steps /\ work \in Work
      /\ statusNow = work.base.steps[stepNow] /\ statusNow \in StepStatuses
      /\ runnerNow = work.list[stepNow] /\ runnerNow \in RunnerObject
      /\ clock \in Nat
      /\ decisionNow =
           evaluateStep(shape.deps[stepNow], shape.when[stepNow], work.base.steps)
  BY Zenon, IterationFrame, WalkType DEF statusNow, runnerNow, decisionNow, TypeOK
<1> DEFINE seen == /\ runnerNow.there /\ statusNow.phase \notin DoneStepPhases
                   /\ decisionNow = "run"
<1>2. SUFFICES ASSUME seen
               PROVE  \/ statusNow.phase = runnerPhaseToStepPhase(runnerNow.phase)
                      \/ /\ statusNow.retryCount < shape.maxRetries[stepNow]
                         /\ statusNow.completedAt # 0 /\ runnerNow.phase = "Failed"
  BY Zenon, <1>1 DEF found, mirrored
<1>3. CASE StepKept
  <2>1. \/ mayRun /\ retryNow /\ ~backoffElapsed
        \/ statusNow.phase = runnerPhaseToStepPhase(runnerNow.phase)
    BY Zenon, <1>2, <1>3 DEF StepKept, stepClosed, DoneStepPhases
  <2>2. ~backoffElapsed => statusNow.completedAt # 0
    BY Zenon DEF backoffElapsed, retryBackoffElapsed
  <2>3. retryNow => /\ runnerNow.phase = "Failed"
                    /\ statusNow.retryCount < shape.maxRetries[stepNow]
    BY DEF retryNow, runnerPhaseToStepPhase
  <2> QED BY Zenon, <2>1, <2>2, <2>3
<1>4. CASE StepMarked
  BY Zenon, <1>4 DEF StepMarked, NoStepStatus
<1>5. CASE StepCopied
  <2> DEFINE p == runnerPhaseToStepPhase(runnerNow.phase)
  <2>1. newStatus = upsertStepStatus(statusNow, p, clock) /\ statusNow.phase # p
    BY Zenon, <1>5 DEF StepCopied
  <2>2. p \in StepPhases
    BY Zenon, <1>1 DEF runnerPhaseToStepPhase, RunnerObject
  <2> HIDE DEF p, StepPhases
  <2>3. upsertStepStatus(statusNow, p, clock).phase = p
    BY Zenon, <1>1, <2>2, UpsertEffect
  <2> QED BY Zenon, <2>1, <2>3
<1>6. CASE StepCreated
  BY Zenon, <1>2, <1>6 DEF StepCreated
<1>7. CASE StepRetried
  <2> DEFINE u == upsertStepStatus(statusNow, "Pending", clock)
  <2>1. newStatus = [u EXCEPT !.retryCount = @ + 1]
    BY <1>7 DEF StepRetried
  <2>2. u \in StepStatuses /\ u.phase = "Pending"
    <3>1. "Pending" \in StepPhases
      OBVIOUS
    <3> HIDE DEF StepPhases
    <3> QED BY Zenon, <1>1, <3>1, UpsertEffect
  <2>3. statusNow.phase = "Pending" => u = statusNow
    BY DEF upsertStepStatus
  <2> HIDE DEF u
  <2>4. /\ newStatus.phase = "Pending" /\ newStatus.retryCount = u.retryCount + 1
        /\ u.retryCount \in Nat
    BY <2>1, <2>2 DEF StepStatuses
  <2> QED BY <2>3, <2>4
<1> QED BY Zenon, <1>3, <1>4, <1>5, <1>6, <1>7, StepEffect

\* mirroring after the step.
mirroringNext ==
  /\ work'.base.live
  /\ ~queued' => work'.base = wfCache' /\ work'.list = runnersCache'
  /\ work'.next = 0 => \/ rejected \/ work'.base.startTime = 0
                       \/ work'.local.phase # work'.base.phase
  /\ work'.next # 0 =>
       /\ work'.then = "steps" /\ ~work'.updated => work'.local = work'.base
       /\ work'.base.startTime = 0 => work'.local.startTime # 0
       /\ work'.then = "patch" =>
            work'.local.phase = computeWorkflowPhase(stepNames, work'.local.steps)
       /\ \A s \in Steps : ahead(s)' => work'.local.steps[s] = work'.base.steps[s]
       /\ work'.local.steps = work'.base.steps =>
            \A s \in stepNames : ahead(s)' \/ found(s, work'.base, work'.list)

LEMMA MirroringNext ==
  ASSUME shape' = shape, mirroringNext
  PROVE  mirroring'
<1>1. (rejected' <=> rejected) /\ stepNames' = stepNames
  BY DEF rejected, detectCycle, stepNames
<1>2. \A s : found(s, work'.base, work'.list) <=>
        mirrored(s, work.base.steps, work.list,
                 work.base.steps[s].retryCount < shape.maxRetries[s])'
  BY Zenon DEF found, mirrored
<1> HIDE DEF rejected, stepNames
<1> QED BY Zenon, <1>1, <1>2 DEF mirroring, mirroringNext

LEMMA MirroringStart ==
  ASSUME TypeOK, clock # 0, StartOfPass, work' # NoWork
  PROVE  mirroringNext
<1>1. /\ work = NoWork /\ shape' = shape
      /\ wfCache' = wfCache /\ runnersCache' = runnersCache
  BY Zenon, StartFrame
<1>2. /\ wfCache.live /\ work'.base = wfCache /\ work'.list = runnersCache
      /\ work' \in Work
  BY Zenon, <1>1, StartWork
<1>3. CASE work'.next = 0 /\ (rejected \/ wfCache.startTime = 0)
  BY Zenon, <1>1, <1>2, <1>3 DEF mirroringNext
<1>4. CASE work'.next = 0 /\ timedOut /\ work'.local = timeoutStatus
  <2>1. timeoutStatus.phase = "Failed"
    BY DEF timeoutStatus, TypeOK, WorkflowStatus
  <2>2. wfCache.phase # "Failed"
    BY Zenon, <1>4 DEF timedOut, isWorkflowTerminal
  <2> QED BY Zenon, <1>1, <1>2, <1>4, <2>1, <2>2 DEF mirroringNext
<1>5. CASE /\ work'.then = "steps" /\ work'.next = 1
           /\ work'.local.steps = wfCache.steps
           /\ IF wfCache.startTime = 0
                THEN work'.updated /\ work'.local.startTime = clock
                ELSE work'.local = wfCache
  <2>1. ASSUME NEW s \in stepNames PROVE ahead(s)'
    <3>1. PICK i \in DOMAIN shape.order : shape.order[i] = s
      BY Zenon DEF stepNames
    <3>2. i \in Nat /\ i >= 1
      BY ShapesAssumption DEF WorkflowSpecs, TypeOK
    <3> QED BY <1>1, <1>5, <3>1, <3>2 DEF ahead
  <2> QED BY <1>1, <1>2, <1>5, <2>1 DEF mirroringNext
<1> QED BY <1>1, <1>3, <1>4, <1>5, StartWork

LEMMA MirroringIteration ==
  ASSUME TypeOK, TypeOK', mirroring,
         StepWithoutCall \/ CreateRunner \/ CreateRunnerFails \/ RetryStep
  PROVE  mirroringNext
<1>1. /\ inStepLoop /\ work \in Work /\ stepNow \in Steps
      /\ work' \in Work /\ shape' = shape /\ wfCache' = wfCache
      /\ runnersCache' = runnersCache /\ queued' = queued
      /\ work'.then = "steps" /\ work'.next = work.next + 1
      /\ work'.list = work.list /\ work'.base = work.base
      /\ work'.local.startTime = work.local.startTime
      /\ \A t \in Steps : t # stepNow =>
           work'.local.steps[t] = work.local.steps[t]
      /\ work'.updated \/ (~work.updated /\ work'.local = work.local)
  BY Zenon, IterationFrame
<1>2. work.then = "steps" /\ work.next # 0 /\ work'.next # 0
  BY <1>1 DEF inStepLoop, TypeOK, Work
<1>3. /\ work.base.live
      /\ ~queued => work.base = wfCache /\ work.list = runnersCache
      /\ ~work.updated => work.local = work.base
      /\ work.base.startTime = 0 => work.local.startTime # 0
      /\ \A s \in Steps : ahead(s) => work.local.steps[s] = work.base.steps[s]
      /\ work.local.steps = work.base.steps =>
           \A s \in stepNames : ahead(s) \/ found(s, work.base, work.list)
  BY Zenon, <1>2 DEF mirroring, found
<1>4. ahead(stepNow) /\ \A s \in Steps : ahead(s)' => ahead(s) /\ s # stepNow
  BY AheadEffect
<1>5. \A s \in Steps : ahead(s)' => work'.local.steps[s] = work'.base.steps[s]
  BY Zenon, <1>1, <1>3, <1>4
<1>6. ASSUME work'.local.steps = work'.base.steps, NEW s \in stepNames
      PROVE  ahead(s)' \/ found(s, work'.base, work'.list)
  <2>1. /\ work.local.steps \in [Steps -> StepStatuses]
        /\ work'.local.steps \in [Steps -> StepStatuses]
    BY Zenon, <1>1 DEF Work, WorkflowStatus
  <2>2. work.local.steps[stepNow] = work'.local.steps[stepNow]
    BY <1>1, <1>3, <1>4, <1>6
  <2>3. work.local.steps = work'.local.steps
    BY <1>1, <2>1, <2>2
  <2>4. newStatus = statusNow
    BY Zenon, <2>3 DEF newStatus, statusNow
  <2>5. CASE s = stepNow
    BY Zenon, <1>1, <1>6, <2>3, <2>4, <2>5, FoundMirrored
  <2>6. CASE s # stepNow
    <3>1. s \in Steps
      BY <1>6, NamesOfOrder
    <3> QED BY Zenon, <1>1, <1>3, <1>6, <2>3, <2>6, <3>1, AheadStays
  <2> QED BY Zenon, <2>5, <2>6
<1> QED BY Zenon, <1>1, <1>2, <1>3, <1>5, <1>6 DEF mirroringNext

LEMMA MirroringEnd ==
  ASSUME TypeOK, mirroring, EndSteps, work' # NoWork
  PROVE  mirroringNext
<1>1. /\ work \in Work /\ work.then = "steps" /\ work' \in Work
      /\ shape' = shape /\ wfCache' = wfCache
      /\ runnersCache' = runnersCache /\ queued' = queued
      /\ work'.then = "patch" /\ work'.base = work.base /\ work'.list = work.list
      /\ work'.next = work.next /\ work'.local.startTime = work.local.startTime
      /\ work'.local.steps = work.local.steps
      /\ work'.local.phase = computeWorkflowPhase(stepNames, work.local.steps)
  BY EndEffect
<1>2. work.next # 0 /\ \A s \in Steps : ~ahead(s)
  <2>1. shape.order \in Seq(Steps) /\ work.next \in Nat /\ work.next > Len(shape.order)
    BY Zenon, <1>1, EndEffect, ShapesAssumption DEF WorkflowSpecs, TypeOK, Work
  <2> QED BY Zenon, <2>1, PastTheEnd DEF ahead
<1>3. /\ work.base.live
      /\ ~queued => work.base = wfCache /\ work.list = runnersCache
      /\ work.base.startTime = 0 => work.local.startTime # 0
      /\ work.local.steps = work.base.steps =>
           \A s \in stepNames : ahead(s) \/ found(s, work.base, work.list)
  BY Zenon, <1>2 DEF mirroring, found
<1>4. \A s \in Steps : ~ahead(s)'
  BY Zenon, <1>1 DEF ahead
<1>5. stepNames \subseteq Steps
  BY Zenon, NamesOfOrder
<1> QED BY Zenon, <1>1, <1>2, <1>3, <1>4, <1>5 DEF mirroringNext

\* A pass that has found every step mirrored and the phase right leaves a settled
\* status: a step that waits for its backoff has a CompletedAt and a retry left,
\* which WaitInv excludes.
LEMMA FoundIsSettled ==
  ASSUME TypeOK, WaitInv, work # NoWork, work.next # 0, wf.live, ~rejected,
         work.base.phase = computeWorkflowPhase(stepNames, work.base.steps),
         \A s \in stepNames : found(s, work.base, work.list)
  PROVE  settled(work.base, work.list)
<1>1. CASE startsCompleted
  BY Zenon, <1>1 DEF settled, found, mirrored
<1>2. CASE ~startsCompleted
  <2>1. stepNames \subseteq Steps /\ stepNames # {}
    BY Zenon, NamesOfOrder DEF rejected
  <2>2. \A s \in stepNames : work.base.steps[s].phase \in StepPhases
    BY <2>1 DEF TypeOK, Work, WorkflowStatus, StepStatuses
  <2>3. ended(work.base.steps) \/ untiring(work.base)
    <3> HIDE DEF StepPhases
    <3>1. isWorkflowTerminal(work.base.phase) <=> ended(work.base.steps)
      BY Zenon, <2>1, <2>2, TerminalIsEnded
    <3> QED BY Zenon, <1>2, <3>1 DEF WaitInv, untiring
  <2>4. ASSUME NEW s \in stepNames
        PROVE  mirrored(s, work.base.steps, work.list, startsCompleted)
    <3>1. work.base.steps[s].retryCount \in Nat /\ shape.maxRetries[s] \in Nat
      <4>1. work.base.steps[s] \in StepStatuses
        BY <2>1 DEF TypeOK, Work, WorkflowStatus
      <4>2. shape.maxRetries \in [Steps -> Nat]
        BY Zenon, ShapesAssumption DEF TypeOK, WorkflowSpecs
      <4> QED BY Zenon, <2>1, <4>1, <4>2 DEF StepStatuses
    <3>2. \/ work.base.steps[s].phase \in DoneStepPhases
          \/ work.base.steps[s].completedAt = 0
          \/ ~(work.base.steps[s].retryCount < shape.maxRetries[s])
      BY Zenon, <2>1, <2>3, <3>1, NatOrder DEF ended, untiring
    <3> QED BY Zenon, <3>2 DEF found, mirrored
  <2> QED BY Zenon, <2>4 DEF settled
<1> QED BY <1>1, <1>2

\* What holds when the operator is idle, after the step.
idleNext ==
  \/ wfCache' # wf' \/ runnersCache' # runners'
  \/ ~wfCache'.live \/ rejected \/ wfCache'.startTime = 0
  \/ settled(wfCache', runnersCache')

\* A pass that ends without a change, and whose key is not queued again.
LEMMA IdleEnd ==
  ASSUME TypeOK, WaitInv, mirroring, EndSteps, work' = NoWork, ~queued'
  PROVE  idleNext
<1>1. /\ work # NoWork /\ work \in Work /\ work.then = "steps" /\ ~work.updated
      /\ wf' = wf /\ wfCache' = wfCache /\ runnersCache' = runnersCache
      /\ ~queued
      /\ work.local.phase = computeWorkflowPhase(stepNames, work.local.steps)
  BY EndEffect, NoWorkAssumption
<1>2. work.next # 0 /\ \A s \in Steps : ~ahead(s)
  <2>1. shape.order \in Seq(Steps) /\ work.next \in Nat /\ work.next > Len(shape.order)
    BY Zenon, <1>1, EndEffect, ShapesAssumption DEF WorkflowSpecs, TypeOK, Work
  <2> QED BY Zenon, <2>1, PastTheEnd DEF ahead
<1>3. /\ work.base.live /\ work.base = wfCache /\ work.list = runnersCache
      /\ work.local = work.base
      /\ \A s \in stepNames : ahead(s) \/ found(s, work.base, work.list)
  BY Zenon, <1>1, <1>2 DEF mirroring, found
<1>4. \A s \in stepNames : found(s, work.base, work.list)
  BY Zenon, <1>2, <1>3, NamesOfOrder
<1>5. CASE wf.live /\ ~rejected
  BY Zenon, <1>1, <1>2, <1>3, <1>4, <1>5, FoundIsSettled DEF idleNext
<1>6. CASE ~wf.live
  BY <1>1, <1>3, <1>6 DEF idleNext
<1> QED BY Zenon, <1>5, <1>6 DEF idleNext

\* A pass that ends with a patch, and whose key is not queued again: if the patch
\* changes a field the cache has yet to catch up.
LEMMA IdlePatch ==
  ASSUME TypeOK, WaitInv, mirroring, PatchStatus, ~queued'
  PROVE  idleNext
<1>1. /\ work # NoWork /\ work \in Work /\ work.then = "patch" /\ wf.live
      /\ wfCache' = wfCache /\ runnersCache' = runnersCache /\ ~queued
      /\ wf' = mergePatch(wf, work.base, work.local)
  BY DEF PatchStatus, cacheVars, TypeOK
<1>2. work.base = wfCache /\ work.list = runnersCache
  BY Zenon, <1>1 DEF mirroring
<1>3. SUFFICES ASSUME wfCache = wf', ~rejected, wfCache.startTime # 0
               PROVE  settled(wfCache, runnersCache)
  BY Zenon, <1>1 DEF idleNext
<1>4. /\ work.local.phase = work.base.phase /\ work.local.steps = work.base.steps
  <2>1. /\ wf'.phase = merge(wf.phase, work.base.phase, work.local.phase)
        /\ wf'.steps = merge(wf.steps, work.base.steps, work.local.steps)
    BY Zenon, <1>1 DEF mergePatch
  <2> QED BY Zenon, <1>2, <1>3, <2>1 DEF merge
<1>5. work.next # 0
  BY Zenon, <1>2, <1>3, <1>4 DEF mirroring
<1>6. /\ work.local.phase = computeWorkflowPhase(stepNames, work.local.steps)
      /\ \A s \in stepNames : ahead(s) \/ found(s, work.base, work.list)
  BY Zenon, <1>1, <1>4, <1>5 DEF mirroring, found
<1>7. \A s : ~ahead(s)
  BY <1>1 DEF ahead
<1> QED BY Zenon, <1>1, <1>2, <1>3, <1>4, <1>5, <1>6, <1>7, FoundIsSettled

\* An operator that is idle stays as it is unless it is shown something new.
LEMMA IdleKept ==
  ASSUME TypeOK, TypeOK', MirrorInv, work' = NoWork, ~queued',
         Environment \/ UNCHANGED vars
  PROVE  idleNext
<1>1. [Next]_vars /\ \A s \in Steps : watched(s)
  BY NextSplit DEF MirrorInv
<1>2. /\ ~queued /\ work = NoWork
      /\ wfCache' = wfCache /\ runnersCache' = runnersCache
  BY <1>1, QuietFrame
<1>3. \/ wfCache # wf \/ runnersCache # runners
      \/ ~wfCache.live \/ rejected \/ wfCache.startTime = 0
      \/ settled(wfCache, runnersCache)
  BY Zenon, <1>2 DEF MirrorInv
<1>4. CASE wfCache # wf
  <2>1. wf' = wf \/ (wf' = [wf EXCEPT !.live = FALSE] /\ wf \in WorkflowStatus)
    BY EnvironmentFrame DEF vars, apiVars, TypeOK
  <2>2. wf' = wf \/ ~wf'.live
    BY Zenon, <2>1 DEF WorkflowStatus
  <2> QED BY Zenon, <1>2, <1>4, <2>2 DEF idleNext
<1>5. CASE runnersCache # runners
  BY Zenon, <1>1, <1>2, <1>5, NeverBack DEF idleNext
<1> QED BY Zenon, <1>2, <1>3, <1>4, <1>5 DEF idleNext

\* A pass that ends at once has found no Workflow.
LEMMA IdleStart ==
  ASSUME TypeOK, StartOfPass, work' = NoWork, ~queued'
  PROVE  ~wfCache'.live
<1>1. ~ReconcileReadFails
  BY DEF ReconcileReadFails, procVars
<1>2. ReconcileNotFound => ~wfCache'.live
  BY Zenon, StartFrame DEF ReconcileNotFound
<1>3. ~ReconcileReadFails /\ ~ReconcileNotFound => work' \in Work
  BY StartFrame, StartEffect
<1> QED BY Zenon, <1>1, <1>2, <1>3, NoWorkAssumption

LEMMA MirrorStep ==
  ASSUME TypeOK, TypeOK', [Next]_vars, WaitInv, MirrorInv
  PROVE  MirrorInv'
<1>1. /\ clock # 0 /\ (\A s \in Steps : watched(s)) /\ (work # NoWork => mirroring)
  BY Zenon DEF MirrorInv
<1>2. clock' # 0
  BY <1>1, StatusMoves DEF TypeOK
<1>3. \A s \in Steps : watched(s)'
  BY <1>1, WatchedStep
<1>4. shape' = shape
  BY Zenon, ShapeFrame
<1>5. work' # NoWork => mirroringNext
  <2> SUFFICES ASSUME work' # NoWork PROVE mirroringNext
    BY Zenon
  <2>1. CASE StartOfPass
    BY <1>1, <2>1, MirroringStart
  <2>2. CASE StepWithoutCall \/ CreateRunner \/ CreateRunnerFails \/ RetryStep
    <3>1. work # NoWork
      BY <2>2, IterationFrame DEF inStepLoop
    <3> QED BY Zenon, <1>1, <2>2, <3>1, MirroringIteration
  <2>3. CASE EndSteps
    <3>1. work # NoWork
      BY Zenon, <2>3, EndEffect
    <3> QED BY Zenon, <1>1, <2>3, <3>1, MirroringEnd
  <2>4. CASE PatchStatus \/ PatchStatusFails
    BY Zenon, <2>4 DEF PatchStatus, PatchStatusFails
  <2>5. CASE Environment \/ UNCHANGED vars
    <3>1. work' = work
      BY Zenon, <2>5, EnvironmentFrame DEF vars, procVars
    <3>2. ~queued' => ~queued /\ wfCache' = wfCache /\ runnersCache' = runnersCache
      BY Zenon, <1>1, <2>5, QuietFrame
    <3>3. \A s \in Steps : ahead(s)' <=> ahead(s)
      BY Zenon, <1>4, <3>1 DEF ahead
    <3>4. stepNames \subseteq Steps
      BY NamesOfOrder
    <3> QED BY Zenon, <1>1, <3>1, <3>2, <3>3, <3>4 DEF mirroring, mirroringNext, found
  <2> QED BY Zenon, <2>1, <2>2, <2>3, <2>4, <2>5, NextSplit DEF RestOfPass
<1>6. work' = NoWork /\ ~queued' => idleNext
  <2> SUFFICES ASSUME work' = NoWork, ~queued' PROVE idleNext
    OBVIOUS
  <2>1. CASE StartOfPass
    BY Zenon, <2>1, IdleStart DEF idleNext
  <2>2. CASE StepWithoutCall \/ CreateRunner \/ CreateRunnerFails \/ RetryStep
    BY Zenon, <2>2, IterationFrame
  <2>3. CASE EndSteps
    <3>1. work # NoWork
      BY <2>3, EndEffect
    <3> QED BY Zenon, <1>1, <2>3, <3>1, IdleEnd
  <2>4. CASE PatchStatus
    <3>1. work # NoWork
      BY <2>4 DEF PatchStatus
    <3> QED BY Zenon, <1>1, <2>4, <3>1, IdlePatch
  <2>5. CASE PatchStatusFails
    BY Zenon, <2>5 DEF PatchStatusFails
  <2>6. CASE Environment \/ UNCHANGED vars
    BY <2>6, IdleKept
  <2> QED BY Zenon, <2>1, <2>2, <2>3, <2>4, <2>5, <2>6, NextSplit DEF RestOfPass
<1>7. work' # NoWork => mirroring'
  BY Zenon, <1>4, <1>5, MirroringNext
<1>8. (rejected' <=> rejected) /\ stepNames' = stepNames
      /\ (startsCompleted' <=> startsCompleted)
  BY <1>4 DEF rejected, detectCycle, stepNames, startsCompleted
<1>9. settled(wfCache', runnersCache') => settled(wfCache, runnersCache)'
  BY Zenon, <1>4, <1>8 DEF settled, mirrored
<1> QED BY Zenon, <1>2, <1>3, <1>6, <1>7, <1>8, <1>9 DEF MirrorInv, idleNext

LEMMA MirrorInit == Init => WaitInv /\ MirrorInv
<1> SUFFICES ASSUME Init PROVE WaitInv /\ MirrorInv
  BY Zenon
<1>1. \A s \in Steps : runners[s] = NoRunner /\ runnersCache[s] = NoRunner
  BY Zenon DEF Init
<1>2. \A s \in Steps : wf.steps[s] = NoStepStatus
  BY Zenon DEF Init
<1>3. /\ work = NoWork /\ queued /\ wfCache = wf /\ clock # 0
      /\ \A s \in Steps : created[s] = 0
  BY DEF Init
<1>4. age(NoRunner) \in Nat
  BY Zenon, AgeType, RunnerType
<1>5. \A s \in Steps : watched(s)
  <2>1. removed(NoRunner) = NoRunner /\ NoRunner.uid = 0
    BY Zenon DEF removed, NoRunner
  <2> QED BY <1>1, <1>3, <1>4, <2>1 DEF watched
<1>6. \A s \in Steps : earlier(runnersCache[s], runners[s])
  BY <1>1, <1>4 DEF earlier, NoRunner
<1>7. conclusive(wf) /\ conclusive(wfCache)
  BY <1>2, <1>3 DEF conclusive, NoStepStatus
<1> QED BY Zenon, <1>3, <1>5, <1>6, <1>7 DEF WaitInv, MirrorInv

\* WaitInv and MirrorInv are invariants.
LEMMA MirrorInvariant == Spec => [](WaitInv /\ MirrorInv)
<1>1. WaitInv /\ MirrorInv /\ TypeOK /\ TypeOK' /\ [Next]_vars => (WaitInv /\ MirrorInv)'
  <2> SUFFICES ASSUME WaitInv, MirrorInv, TypeOK, TypeOK', [Next]_vars
               PROVE  WaitInv' /\ MirrorInv'
    OBVIOUS
  <2>1. \A s \in Steps : watched(s)
    BY Zenon DEF MirrorInv
  <2> QED BY Zenon, <2>1, WaitStep, MirrorStep
<1> QED BY <1>1, MirrorInit, TypeCorrect, PTL DEF Spec

\* No wake-up is lost: whatever the caches, the queue, faults and users do, an
\* operator with nothing left to do has a status that shows its Runners.
THEOREM MirrorTheorem == Spec => []SettledMeansMirrored
<1>1. MirrorInv => SettledMeansMirrored
  BY Zenon DEF MirrorInv, SettledMeansMirrored, Quiescent, Started
<1> QED BY <1>1, MirrorInvariant, PTL
=============================================================================
