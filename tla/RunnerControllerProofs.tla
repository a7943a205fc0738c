----------------------- MODULE RunnerControllerProofs -----------------------
(***************************************************************************)
(* Proofs about RunnerController for every value of its constants: types,  *)
(* writes that come too late, Jobs, their validation and their outcome,    *)
(* wake-ups and metrics.                                                   *)
(***************************************************************************)
EXTENDS RunnerController, TLAPS

-----------------------------------------------------------------------------
(* Inductive invariants *)

realStatus(s) ==
  /\ s.phase = "Succeeded" => \E e \in ended : e[2] = "complete"
  /\ s.phase = "Failed" => \E e \in ended : e[2] = "failed"

realJob(j) ==
  j.stage \in {"complete", "failed"} => \E e \in ended : e[2] = j.stage

\* What makes OutcomeIsReal inductive: the caches and a patch under way say
\* nothing about the Job's end that did not happen.
OutcomeInv ==
  /\ realStatus(runner.status) /\ realStatus(runnerCache.status)
  /\ realJob(job) /\ realJob(jobCache)
  /\ pc = "patch" => realStatus(work.runner.status)

hashed(s) == s.resourceHash # NoHash

\* What makes HashBeforeJob inductive: a hash, once recorded, is never erased,
\* not even by the merge patch of a reconcile that read an older Runner.
HashInv ==
  /\ job.stage # "absent" \/ pc = "create" => hashed(runner.status)
  /\ hashed(runnerCache.status) => hashed(runner.status)
  /\ pc = "patch" =>
       /\ hashed(work.base) => hashed(runner.status)
       /\ hashed(work.runner.status) \/ work.runner.status.resourceHash
                                          = work.base.resourceHash
       /\ work.then = "create" => hashed(work.runner.status)

underWay(call) == pc = call \/ (pc = "patch" /\ work.then = call)

\* What makes OneJobPerGeneration inductive: a generation is left over whenever
\* a Job may still be created (there is none, it is going, or a reconcile is
\* about to delete it), and whenever the recorded hash is not that of the spec.
\* A creation under way leaves one over unless it is for the current spec.
GenerationInv ==
  FreshCaches /\ DeletableJobs = {} =>
    /\ created <= runner.generation
    /\ \/ job.stage = "absent" /\ runner.live = "live"
       \/ job.stage # "absent" /\ job.terminating
       \/ underWay("create") \/ underWay("delete")
       => created < runner.generation
    /\ job.stage # "absent" /\ created = runner.generation =>
         runner.status.resourceHash = computeSpecHash[runner.spec]
    /\ underWay("create") =>
         /\ job.stage = "absent"
         /\ \/ work.hash = computeSpecHash[runner.spec]
            \/ created + 1 < runner.generation
    /\ pc = "create" => runner.status.resourceHash = work.hash
    /\ pc = "patch" =>
         /\ work.base.resourceHash = runner.status.resourceHash
         /\ work.then = "create" => work.runner.status.resourceHash = work.hash
         /\ \/ work.then # "return" \/ job.stage = "absent"
            \/ work.runner.status.resourceHash = work.base.resourceHash

\* Every spec with this hash finds the keys it needs.
validated(hash, keys) ==
  \A s \in Specs : computeSpecHash[s] = hash => RequiredSecretKeys[s] \subseteq keys

\* What makes ValidatedBeforeJob inductive while the Secret has these keys: the
\* spec whose hash labels a Job, or is to label it, was validated.
ValidInv(keys) ==
  /\ underWay("create") => validated(work.hash, keys)
  /\ job.stage # "absent" => validated(job.label, keys)

\* The patch under way changes a field of the status that the reconcile read.
patchShows ==
  \/ /\ work.base.phase = runnerCache.status.phase
     /\ work.runner.status.phase # work.base.phase
  \/ /\ work.base.observedGeneration = runnerCache.status.observedGeneration
     /\ work.runner.status.observedGeneration # work.base.observedGeneration
  \/ /\ work.base.reason = runnerCache.status.reason
     /\ work.base.reasonGeneration = runnerCache.status.reasonGeneration
     /\ <<work.runner.status.reason, work.runner.status.reasonGeneration>>
          # <<work.base.reason, work.base.reasonGeneration>>

\* The cached Job is an earlier state of the Job, by its uid, and the Job is a
\* child of the Runner, so that every change of it queues the Runner.
cachedJobInv ==
  /\ jobCache.uid <= job.uid /\ job.uid <= created
  /\ jobCache.uid = job.uid /\ jobCache.stage = "absent" => job.stage = "absent"
  /\ job.owned \/ (job.stage = "absent" /\ jobCache = job)

\* What the caches hold was handled or a change is on its way to them, and a
\* call under way will make such a change.
nothingLost ==
  /\ pc = "idle" => \/ handled(runnerCache, jobCache)
                    \/ runner.status # runnerCache.status
                    \/ jobCache.uid < job.uid
  /\ pc = "patch" /\ work.then = "return" =>
       handled(runnerCache, jobCache) \/ patchShows
  /\ underWay("create") => jobCache.stage = "absent"
  /\ pc = "patch" /\ work.then = "delete" =>
       /\ work.base.resourceHash = runnerCache.status.resourceHash
       /\ work.runner.status.resourceHash # work.base.resourceHash
  /\ pc = "delete" =>
       runner.status.resourceHash # runnerCache.status.resourceHash

\* What makes SettledMeansHandled inductive.
SettledInv == cachedJobInv /\ (queued \/ nothingLost)

\* A Job has the terminal phase, unless it went with its Runner.
outcomeStands(phase) ==
  phase \in TerminalPhases =>
    created # 0 /\ (runner.live = "live" => phaseOfJob(job) = phase)

\* What makes TerminalIsFinal inductive: beside a terminal phase, stored or about
\* to be, there is the Job whose phase it is.
TerminalInv ==
  /\ runner.generation # 0
  /\ FreshCaches /\ DeletableJobs = {} /\ runner.generation = 1 =>
       /\ created = 0 => job.stage = "absent"
       /\ outcomeStands(runner.status.phase)
       /\ pc = "patch" =>
            /\ work.base.phase = runner.status.phase
            /\ runner.status.phase \in TerminalPhases =>
                 work.runner.status.phase = runner.status.phase
            /\ outcomeStands(work.runner.status.phase)

\* The active series count one Runner in this phase.
counts(phase) ==
  \A p \in ActivePhases : metrics.active[p] = clamp(IF phase = p THEN 1 ELSE 0)

\* The total counts the end this status reports, once unless the status keeps a
\* StartTime; any other status that reports it is up to date.
endCounted(s) ==
  IF s.phase \in TerminalPhases
    THEN /\ metrics.completed = clamp(1)
            \/ (metrics.completed > clamp(1) /\ s.startTime # 0)
         /\ s.observedGeneration = 1
         /\ s.completionTime = IF job.stage = "complete" THEN job.uid ELSE 0
    ELSE metrics.completed = 0 /\ s.completionTime = 0

\* The patch under way starts from the status that is stored.
patchFromStored ==
  /\ work.base.startTime = runner.status.startTime
  /\ work.base.completionTime = runner.status.completionTime
  /\ work.base.observedGeneration = runner.status.observedGeneration

\* What makes MetricsFollowStatus inductive: the series are moved when a patch is
\* prepared, and a Runner enters them with the patch before its only Create.
MetricsInv ==
  /\ FreshCaches /\ DeletableJobs = {} /\ faults = 0
  /\ runner.live = "live" /\ runner.generation = 1
  => /\ created = 0 /\ pc # "create" => counts("none")
     /\ pc = "patch" /\ work.then = "create" => work.runner.status.phase = "Pending"
     /\ pc = "create" => counts("Pending") /\ runner.status.phase = "Pending"
     /\ created # 0 => counts(IF pc = "patch" THEN work.runner.status.phase
                                              ELSE runner.status.phase)
     /\ pc = "patch" => patchFromStored
     /\ endCounted(IF pc = "patch" THEN work.runner.status ELSE runner.status)

\* What Reconcile sets before it copies the base of its merge patch never
\* reaches the API server: neither DesiredSpecHash of a deferred drift, which
\* is meant to survive restarts, nor the ValidationFailed condition.
LateWritesNeverStored ==
  /\ runner.status.desiredSpecHash = NoHash
  /\ runner.status.reason # "ValidationFailed"

LateWritesInv ==
  /\ LateWritesNeverStored
  /\ runnerCache.status.desiredSpecHash = NoHash
  /\ pc = "patch" =>
       /\ work.runner.status.desiredSpecHash = work.base.desiredSpecHash
       /\ \/ work.runner.status.reason # "ValidationFailed"
          \/ /\ work.runner.status.reason = work.base.reason
             /\ work.runner.status.reasonGeneration = work.base.reasonGeneration

-----------------------------------------------------------------------------
(* Type correctness *)

\* Setting the Ready condition keeps a status a status.
LEMMA ConditionType ==
  ASSUME NEW s \in RunnerStatus, NEW r \in Runners, NEW why \in Reasons
  PROVE  setRunnerCondition(s, r, why) \in RunnerStatus
BY Zenon DEF setRunnerCondition, RunnerStatus, Runners, Reasons

\* A merge patch of statuses yields a status.
LEMMA MergePatchType ==
  ASSUME NEW s \in RunnerStatus, NEW b \in RunnerStatus, NEW n \in RunnerStatus
  PROVE  mergePatch(s, b, n) \in RunnerStatus
BY DEF mergePatch, merge, RunnerStatus

\* The metric updates keep the shape of the metrics.
LEMMA MetricsType ==
  ASSUME NEW m \in [active : [ActivePhases -> Int], completed : Int],
         NEW from, NEW to
  PROVE  /\ moveActive(m, from, to)
              \in [active : [ActivePhases -> Int], completed : Int]
         /\ countCompleted(m, to)
              \in [active : [ActivePhases -> Int], completed : Int]
<1> USE DEF RunnerPhases, Reasons, ActivePhases, TerminalPhases
<1>1. \A n \in Int : clamp(n) \in Int
  BY BoundsAssumption DEF clamp
<1>2. \A p \in ActivePhases :
        m.active[p] + (IF to = p THEN 1 ELSE 0) - (IF from = p THEN 1 ELSE 0) \in Int
  OBVIOUS
<1>3. [p \in ActivePhases |-> clamp(m.active[p] + (IF to = p THEN 1 ELSE 0)
                                   - (IF from = p THEN 1 ELSE 0))]
        \in [ActivePhases -> Int]
  BY <1>1, <1>2
<1>4. moveActive(m, from, to)
        \in [active : [ActivePhases -> Int], completed : Int]
  BY <1>3 DEF moveActive
<1>5. countCompleted(m, to)
        \in [active : [ActivePhases -> Int], completed : Int]
  BY <1>1 DEF countCompleted
<1> QED BY <1>4, <1>5

\* The metrics of a process that has just started are well typed.
LEMMA NoMetricsType == NoMetrics \in [active : [ActivePhases -> Int], completed : Int]
BY DEF NoMetrics, ActivePhases

\* The absent Job is a Job.
LEMMA NoJobType == NoJob \in Jobs
BY SpecsAssumption DEF NoJob, Jobs

\* The status that updateStatusFromJob writes is a status.
LEMMA StatusFromJobType ==
  ASSUME runnerCache \in Runners, jobCache \in Jobs
  PROVE  statusFromJob \in RunnerStatus
<1> USE DEF RunnerPhases, Reasons, ActivePhases, TerminalPhases
<1> DEFINE s == [runnerCache.status EXCEPT
              !.phase = phaseOfJob(jobCache),
              !.observedGeneration = runnerCache.generation,
              !.startTime = IF jobStartTime # 0 THEN jobStartTime ELSE @,
              !.completionTime =
                IF jobCompletionTime # 0 THEN jobCompletionTime ELSE @]
<1>1. jobStartTime \in Nat /\ jobCompletionTime \in Nat
  BY DEF jobStartTime, jobCompletionTime, Jobs
<1>2. phaseOfJob(jobCache) \in RunnerPhases
  BY DEF phaseOfJob
<1>3. s \in RunnerStatus
  BY ZenonT(40), <1>1, <1>2 DEF Runners, RunnerStatus
<1> HIDE DEF s
<1>4. /\ setRunnerCondition(s, runnerCache, "JobSucceeded") \in RunnerStatus
      /\ setRunnerCondition(s, runnerCache, "JobFailed") \in RunnerStatus
      /\ setRunnerCondition(s, runnerCache, "Running") \in RunnerStatus
  BY <1>3, ConditionType
<1>5. statusFromJob = CASE phaseOfJob(jobCache) = "Succeeded" ->
             setRunnerCondition(s, runnerCache, "JobSucceeded")
        [] phaseOfJob(jobCache) = "Failed" -> setRunnerCondition(s, runnerCache, "JobFailed")
        [] phaseOfJob(jobCache) = "Running" -> setRunnerCondition(s, runnerCache, "Running")
        [] OTHER -> s
  BY DEF statusFromJob, s
<1> QED BY <1>3, <1>4, <1>5

\* The initial states are well typed.
LEMMA InitType == Init => TypeOK
<1> USE DEF RunnerPhases, Reasons, ActivePhases, TerminalPhases
<1> SUFFICES ASSUME Init PROVE TypeOK OBVIOUS
<1>1. NoStatus \in RunnerStatus BY DEF NoStatus, RunnerStatus
<1>2. runner \in Runners BY <1>1 DEF Init, Runners
<1> QED BY <1>2, NoJobType, NoMetricsType DEF Init, TypeOK

\* What callPatch leaves behind is well typed when the two statuses are.
LEMMA CallPatchType ==
  ASSUME TypeOK, NEW base \in RunnerStatus, NEW new \in RunnerStatus,
         NEW then \in {"return", "create", "delete"},
         callPatch(base, new, then)
  PROVE  pc' = "patch" /\ work' \in Work
<1> USE DEF RunnerPhases, Reasons, ActivePhases, TerminalPhases
<1>1. [runnerCache EXCEPT !.status = new] \in Runners
  BY DEF TypeOK, Runners
<1>2. computeSpecHash[runnerCache.spec] \in Hashes
  BY HashAssumption DEF TypeOK, Runners
<1> QED BY <1>1, <1>2 DEF callPatch, Work

\* A fault, or none, keeps the types of the history of faults.
LEMMA FaultType ==
  ASSUME TypeOK, fault \/ UNCHANGED faultVars
  PROVE  faults' \in Nat /\ undeleted' \in BOOLEAN
<1>1. faults' \in Nat
  BY DEF TypeOK, fault, faultVars
<1>2. undeleted' \in BOOLEAN
  BY Zenon DEF TypeOK, fault, faultVars
<1> QED BY Zenon, <1>1, <1>2

\* A reconcile, up to its first API call, keeps the types.
LEMMA ReconcileType == TypeOK /\ Reconcile => TypeOK'
<1> USE DEF RunnerPhases, Reasons, ActivePhases, TerminalPhases
<1> SUFFICES ASSUME TypeOK, Reconcile PROVE TypeOK' OBVIOUS
<1> DEFINE rest == /\ UNCHANGED <<runner, job, secret, runnerCache, jobCache, created, ended>>
                   /\ queued' \in BOOLEAN /\ faults' \in Nat /\ undeleted' \in BOOLEAN
<1>a. fault \/ UNCHANGED faultVars => faults' \in Nat /\ undeleted' \in BOOLEAN
  BY FaultType
<1>b. metrics \in [active : [ActivePhases -> Int], completed : Int]
  BY DEF TypeOK
<1>c. runnerCache.status \in RunnerStatus /\ runnerCache.generation \in Nat
      /\ computeSpecHash[runnerCache.spec] \in Hashes /\ runnerCache \in Runners
  BY HashAssumption DEF TypeOK, Runners
<1>d. \A s \in RunnerStatus : pendingStatus(s) \in RunnerStatus
  BY Zenon, <1>c DEF pendingStatus, RunnerStatus
<1>e. \A s \in RunnerStatus, h \in Hashes \cup {NoHash} :
        [s EXCEPT !.desiredSpecHash = h] \in RunnerStatus
  BY DEF RunnerStatus
<1>f. \A s \in RunnerStatus, why \in Reasons :
        setRunnerCondition(s, runnerCache, why) \in RunnerStatus
  BY Zenon, <1>c, ConditionType
<1>q. ASSUME rest, metrics' \in [active : [ActivePhases -> Int], completed : Int],
             \/ pc' = "idle"
             \/ pc' = "patch" /\ work' \in Work
      PROVE  TypeOK'
  BY <1>q DEF TypeOK
<1>1. CASE ReconcileReadFails
  BY <1>1, <1>a DEF ReconcileReadFails, TypeOK, apiVars, cacheVars, procVars
<1>2. CASE ReconcileNotFound
  BY Zenon, <1>2, <1>a, <1>b, <1>q
     DEF ReconcileNotFound, startReconcile, returnNil, apiVars, cacheVars
<1>3. CASE ReconcileDeleting
  BY Zenon, <1>3, <1>a, <1>b, <1>q, MetricsType
  DEF ReconcileDeleting, startReconcile, returnNil, apiVars, cacheVars
<1>4. CASE ReconcileInvalid
  <2>1. PICK base \in RunnerStatus : callPatch(base, pendingStatus(base), "return")
    BY <1>4, <1>c, <1>f DEF ReconcileInvalid
  <2>2. pc' = "patch" /\ work' \in Work
    BY <2>1, <1>d, CallPatchType
  <2>3. rest
    BY Zenon, <1>4, <1>a
       DEF ReconcileInvalid, startReconcile, validateFails, apiVars, cacheVars
  <2> QED BY <1>4, <2>2, <2>3, <1>b, <1>q DEF ReconcileInvalid
<1>5. CASE ReconcileCreate
  <2>1. [pendingStatus(runnerCache.status) EXCEPT !.desiredSpecHash = NoHash] \in RunnerStatus
    BY <1>c, <1>d, <1>e
  <2>2. pc' = "patch" /\ work' \in Work
    BY <1>5, <2>1, <1>c, CallPatchType DEF ReconcileCreate
  <2>3. rest
    BY Zenon, <1>5, <1>a
       DEF ReconcileCreate, startReconcile, validateSucceeds, apiVars, cacheVars
  <2> QED BY <1>5, <2>2, <2>3, <1>b, <1>q DEF ReconcileCreate
<1>6. CASE ReconcileDeferDrift
  <2>1. PICK base \in RunnerStatus, new \in RunnerStatus : callPatch(base, new, "return")
    <3> DEFINE desired == IF ~jobRunning THEN NoHash
                    ELSE IF specDrift THEN computeSpecHash[runnerCache.spec]
                    ELSE runnerCache.status.desiredSpecHash
               base == [runnerCache.status EXCEPT !.desiredSpecHash = desired]
               new == IF jobRunning
                     THEN setRunnerCondition(base, runnerCache, "SpecDriftDeferred")
                     ELSE base
    <3>1. desired \in Hashes \cup {NoHash}
      BY <1>c DEF RunnerStatus
    <3>2. base \in RunnerStatus
      BY <3>1, <1>c, <1>e
    <3>3. new \in RunnerStatus
      BY <3>2, <1>f
    <3>4. callPatch(base, new, "return")
      BY <1>6 DEF ReconcileDeferDrift
    <3> QED BY <3>2, <3>3, <3>4
  <2>2. pc' = "patch" /\ work' \in Work
    BY <2>1, CallPatchType
  <2>3. rest
    BY Zenon, <1>6, <1>a DEF ReconcileDeferDrift, startReconcile, apiVars, cacheVars
  <2> QED BY <1>6, <2>2, <2>3, <1>b, <1>q DEF ReconcileDeferDrift
<1>7. CASE ReconcileDriftInvalid
  BY Zenon, <1>7, <1>a, <1>b, <1>q
  DEF ReconcileDriftInvalid, startReconcile, validateFails, returnNil, apiVars, cacheVars
<1>8. CASE ReconcileReplace
  <2> DEFINE s == [runnerCache.status EXCEPT !.desiredSpecHash = NoHash,
                     !.resourceHash = computeSpecHash[runnerCache.spec]]
  <2>1. s \in RunnerStatus
    BY Zenon, <1>c DEF RunnerStatus
  <2>2. setRunnerCondition(s, runnerCache, "SpecDriftReplaced") \in RunnerStatus
    BY <2>1, <1>f
  <2>3. pc' = "patch" /\ work' \in Work
    BY <1>8, <2>2, <1>c, CallPatchType DEF ReconcileReplace
  <2>4. rest
    BY Zenon, <1>8, <1>a
       DEF ReconcileReplace, startReconcile, validateSucceeds, apiVars, cacheVars
  <2> QED BY <1>8, <2>3, <2>4, <1>b, <1>q DEF ReconcileReplace
<1>9. CASE ReconcileUpToDate
  BY Zenon, <1>9, <1>a, <1>b, <1>q
     DEF ReconcileUpToDate, startReconcile, returnNil, apiVars, cacheVars
<1>10. CASE ReconcileUpdateStatus
  <2>1. statusFromJob \in RunnerStatus
    BY Zenon, StatusFromJobType DEF TypeOK
  <2>2. pc' = "patch" /\ work' \in Work
    BY <1>10, <2>1, <1>c, CallPatchType DEF ReconcileUpdateStatus
  <2>3. metrics' \in [active : [ActivePhases -> Int], completed : Int]
    BY <1>10, <1>b, MetricsType DEF ReconcileUpdateStatus
  <2>4. rest
    BY Zenon, <1>10, <1>a DEF ReconcileUpdateStatus, startReconcile, apiVars, cacheVars
  <2> QED BY <2>2, <2>3, <2>4, <1>q
<1> QED BY <1>1, <1>2, <1>3, <1>4, <1>5, <1>6, <1>7, <1>8, <1>9, <1>10 DEF Reconcile

\* The API calls of a reconcile in progress.
Calls ==
  \/ PatchStatus \/ PatchStatusFails
  \/ CreateJob \/ CreateJobExists \/ CreateJobFails
  \/ DeleteJob \/ DeleteJobFails

\* The API calls of a reconcile keep the types.
LEMMA CallsType == TypeOK /\ Calls => TypeOK'
<1> USE DEF RunnerPhases, Reasons, ActivePhases, TerminalPhases
<1> SUFFICES ASSUME TypeOK, Calls PROVE TypeOK' OBVIOUS
<1>a. fault \/ UNCHANGED faultVars => faults' \in Nat /\ undeleted' \in BOOLEAN
  BY FaultType
<1>1. CASE PatchStatus
  <2> DEFINE merged == mergePatch(runner.status, work.base, work.runner.status)
             patched == [runner EXCEPT !.status = merged]
  <2>1. work \in Work /\ runner \in Runners
    BY <1>1 DEF TypeOK, PatchStatus
  <2>2. merged \in RunnerStatus
    BY <2>1, MergePatchType DEF Work, Runners
  <2> HIDE DEF merged
  <2>3. patched \in Runners
    BY <2>1, <2>2 DEF Runners
  <2>4. metrics' \in [active : [ActivePhases -> Int], completed : Int]
    BY <1>1, MetricsType DEF TypeOK, PatchStatus
  <2>5. runner' = patched
    BY <1>1 DEF PatchStatus, merged
  <2>6. pc' = "idle" \/ (pc' \in {"create", "delete"} /\ work' \in Work)
    <3>1. CASE work.then = "return"
      BY <1>1, <3>1 DEF PatchStatus, returnNil
    <3>2. CASE work.then # "return"
      <4>1. pc' = work.then /\ work' = [work EXCEPT !.runner = patched]
        BY <1>1, <3>2 DEF PatchStatus, merged
      <4> HIDE DEF patched
      <4> QED BY Zenon, <4>1, <3>2, <2>1, <2>3 DEF Work
    <3> QED BY <3>1, <3>2
  <2> QED
    BY <1>1, <2>3, <2>4, <2>5, <2>6 DEF PatchStatus, TypeOK, cacheVars, ghostVars, faultVars
<1>2. CASE PatchStatusFails
  BY <1>2, <1>a DEF PatchStatusFails, returnError, TypeOK, apiVars, cacheVars
<1>3. CASE CreateJob
  <2>1. buildJob(work.runner, work.hash) \in Jobs
    BY <1>3 DEF CreateJob, buildJob, TypeOK, Work, Runners, Jobs
  <2> QED BY <1>3, <2>1, <1>a DEF CreateJob, returnNil, TypeOK, cacheVars
<1>4. CASE CreateJobExists
  BY <1>4 DEF CreateJobExists, returnNil, TypeOK, apiVars, cacheVars, ghostVars, faultVars
<1>5. CASE CreateJobFails
  BY <1>5, <1>a DEF CreateJobFails, returnError, TypeOK, apiVars, cacheVars
<1>6. CASE DeleteJob
  <2>1. [job EXCEPT !.terminating = TRUE] \in Jobs
    BY Zenon DEF TypeOK, Jobs
  <2> QED BY <1>6, <2>1 DEF DeleteJob, returnNil, TypeOK, cacheVars, ghostVars, faultVars
<1>7. CASE DeleteJobFails
  BY <1>7, <1>a DEF DeleteJobFails, returnError, TypeOK, apiVars, cacheVars
<1> QED BY <1>1, <1>2, <1>3, <1>4, <1>5, <1>6, <1>7 DEF Calls

\* Everything that is not the controller.
Environment ==
  \/ SyncRunner \/ SyncJob \/ JobStart \/ JobEnd \/ JobRemoved
  \/ UserDeletesJob \/ UserUpdatesSpec \/ UserDeletesRunner \/ RunnerRemoved
  \/ SecretChanges \/ Crash

\* Next taken apart for the proofs.
LEMMA NextSplit == Next <=> Reconcile \/ Calls \/ Environment
BY DEF Next, Controller, JobController, Calls, Environment

\* The caches, the Job controller, users and a restart keep the types.
LEMMA EnvironmentType == TypeOK /\ Environment => TypeOK'
<1> USE DEF RunnerPhases, Reasons, ActivePhases, TerminalPhases
<1> SUFFICES ASSUME TypeOK, Environment PROVE TypeOK' BY Zenon
<1> USE DEF apiVars, cacheVars, procVars, ghostVars, faultVars
<1>1. CASE SyncRunner
  BY <1>1 DEF SyncRunner, TypeOK
<1>2. CASE SyncJob
  BY <1>2 DEF SyncJob, TypeOK, Jobs
<1>3. CASE JobStart
  BY <1>3 DEF JobStart, TypeOK, Jobs
<1>4. CASE JobEnd
  <2>1. PICK outcome \in JobOutcomes :
          /\ job' = [job EXCEPT !.stage = outcome]
          /\ ended' = ended \cup {<<job.uid, outcome>>}
    BY <1>4 DEF JobEnd
  <2>2. outcome \in {"complete", "failed"}
    BY OutcomeAssumption
  <2>3. job' \in Jobs
    BY <2>1, <2>2 DEF TypeOK, Jobs
  <2>4. ended' \subseteq Nat \X {"complete", "failed"}
    BY <2>1, <2>2 DEF TypeOK, Jobs
  <2> QED BY <1>4, <2>3, <2>4 DEF JobEnd, TypeOK
<1>5. CASE JobRemoved
  <2>1. [NoJob EXCEPT !.uid = job.uid, !.owned = job.owned] \in Jobs
    BY Zenon, NoJobType DEF TypeOK, Jobs
  <2> QED BY <1>5, <2>1 DEF JobRemoved, TypeOK
<1>6. CASE UserDeletesJob
  BY Zenon, <1>6 DEF UserDeletesJob, TypeOK, Jobs
<1>7. CASE UserUpdatesSpec
  <2>1. PICK s \in Specs :
          runner' = [runner EXCEPT !.spec = s, !.generation = @ + 1]
    BY Zenon, <1>7 DEF UserUpdatesSpec
  <2>a. runner \in Runners /\ runner.generation + 1 \in Nat
    BY DEF TypeOK, Runners
  <2>b. \A g \in Nat : [[runner EXCEPT !.spec = s] EXCEPT !.generation = g] \in Runners
    BY Zenon, <2>a DEF Runners
  <2>2. runner' \in Runners
    BY Zenon, <2>1, <2>a, <2>b
  <2> QED BY <1>7, <2>2 DEF UserUpdatesSpec, TypeOK
<1>8. CASE UserDeletesRunner
  BY <1>8 DEF UserDeletesRunner, TypeOK, Runners
<1>9. CASE RunnerRemoved
  BY <1>9 DEF RunnerRemoved, TypeOK, Runners
<1>10. CASE SecretChanges
  BY <1>10 DEF SecretChanges, TypeOK
<1>11. CASE Crash
  BY <1>11, NoMetricsType DEF Crash, fault, TypeOK
<1> QED
  BY <1>1, <1>2, <1>3, <1>4, <1>5, <1>6, <1>7, <1>8, <1>9, <1>10, <1>11
  DEF Environment

\* Every reachable state of the Runner controller is well typed: no phase but
\* the five of the model is ever written (the API's sixth one, Unknown, never
\* is) and a call in progress always has its local variables.
THEOREM TypeCorrect == Spec => []TypeOK
<1> USE DEF RunnerPhases, Reasons, ActivePhases, TerminalPhases
<1>1. Init => TypeOK BY InitType
<1>2. TypeOK /\ [Next]_vars => TypeOK'
  <2> SUFFICES ASSUME TypeOK, [Next]_vars PROVE TypeOK' OBVIOUS
  <2>1. CASE Next
    BY Zenon, <2>1, NextSplit, ReconcileType, CallsType, EnvironmentType
  <2>2. CASE UNCHANGED vars
    BY Zenon, <2>2 DEF vars, apiVars, cacheVars, procVars, ghostVars, faultVars, TypeOK
  <2> QED BY <2>1, <2>2
<1> QED BY <1>1, <1>2, PTL DEF Spec

-----------------------------------------------------------------------------
(* What a reconcile sends *)

\* The patch w that Reconcile prepares from the cached Runner and Job.
patchContents(w) ==
  /\ runnerCache.live = "live" /\ w.base.phase = runnerCache.status.phase
  /\ \/ w.runner.status.phase \in {runnerCache.status.phase, phaseOfJob(jobCache)}
     \/ w.runner.status.phase = "Pending" /\ jobCache.stage = "absent"
  /\ w.base.resourceHash = runnerCache.status.resourceHash
  /\ \/ w.runner.status.resourceHash = w.base.resourceHash
     \/ w.runner.status.resourceHash = computeSpecHash[runnerCache.spec]
  /\ w.hash = computeSpecHash[runnerCache.spec]
  /\ w.then = "create" =>
       /\ w.runner.status.resourceHash = computeSpecHash[runnerCache.spec]
       /\ w.runner.status.phase = "Pending" /\ jobCache.stage = "absent"
  /\ w.then = "delete" =>
       /\ jobCache.stage # "absent" /\ specDrift
       /\ w.runner.status.resourceHash = computeSpecHash[runnerCache.spec]
  /\ \/ w.then # "return" \/ jobCache.stage = "absent"
     \/ w.runner.status.resourceHash = w.base.resourceHash
  /\ \/ w.runner.status.desiredSpecHash = w.base.desiredSpecHash
     \/ /\ w.runner.status.desiredSpecHash = NoHash
        /\ w.base.desiredSpecHash = runnerCache.status.desiredSpecHash
  /\ \/ w.runner.status.reason # "ValidationFailed"
     \/ /\ w.runner.status.reason = w.base.reason
        /\ w.runner.status.reasonGeneration = w.base.reasonGeneration

\* Reconcile changes neither the API objects nor the caches, and the patch it
\* prepares is one of those patchContents describes.
LEMMA ReconcileEffect ==
  ASSUME TypeOK, Reconcile
  PROVE  /\ UNCHANGED <<runner, job, runnerCache, jobCache, created, ended>>
         /\ pc' \in {"idle", "patch"}
         /\ pc' = "patch" => patchContents(work')
         /\ pc' = "patch" /\ FreshCaches => runnerCache = runner /\ jobCache = job
<1> USE DEF RunnerPhases, Reasons, ActivePhases, TerminalPhases
<1> USE DEF apiVars, cacheVars, procVars, startReconcile, returnNil
<1>a. /\ runnerCache \in Runners
      /\ runnerCache.status \in RunnerStatus
      /\ computeSpecHash[runnerCache.spec] \in Hashes
  BY HashAssumption DEF TypeOK, Runners
<1>b. ASSUME NEW base, NEW new, NEW then, callPatch(base, new, then)
      PROVE  /\ pc' = "patch"
             /\ work'.base = base /\ work'.runner.status = new
             /\ work'.then = then /\ work'.hash = computeSpecHash[runnerCache.spec]
  BY <1>a, <1>b DEF callPatch, Runners
<1>1. CASE ReconcileReadFails
  BY <1>1 DEF ReconcileReadFails
<1>2. CASE ReconcileNotFound
  BY Zenon, <1>2 DEF ReconcileNotFound
<1>3. CASE ReconcileDeleting
  BY Zenon, <1>3 DEF ReconcileDeleting
<1>4. CASE ReconcileInvalid
  <2> DEFINE base == setRunnerCondition(runnerCache.status, runnerCache, "ValidationFailed")
  <2>1. base \in RunnerStatus
    BY <1>a, ConditionType
  <2>2. /\ base.phase = runnerCache.status.phase
        /\ base.resourceHash = runnerCache.status.resourceHash
        /\ base.desiredSpecHash = runnerCache.status.desiredSpecHash
    BY <1>a DEF setRunnerCondition, RunnerStatus
  <2>3. callPatch(base, pendingStatus(base), "return")
    BY <1>4 DEF ReconcileInvalid
  <2> HIDE DEF base
  <2>4. /\ pendingStatus(base).phase = "Pending"
        /\ pendingStatus(base).resourceHash = computeSpecHash[runnerCache.spec]
        /\ pendingStatus(base).desiredSpecHash = base.desiredSpecHash
        /\ pendingStatus(base).reason = base.reason
        /\ pendingStatus(base).reasonGeneration = base.reasonGeneration
    BY Zenon, <2>1 DEF pendingStatus, RunnerStatus
  <2> QED BY <1>4, <1>b, <2>2, <2>3, <2>4 DEF ReconcileInvalid, patchContents
<1>5. CASE ReconcileCreate
  <2> DEFINE new == [pendingStatus(runnerCache.status) EXCEPT !.desiredSpecHash = NoHash]
  <2>1. callPatch(runnerCache.status, new, "create")
    BY <1>5 DEF ReconcileCreate
  <2>2. /\ new.phase = "Pending"
        /\ new.resourceHash = computeSpecHash[runnerCache.spec]
        /\ new.desiredSpecHash = NoHash
        /\ new.reason = runnerCache.status.reason
        /\ new.reasonGeneration = runnerCache.status.reasonGeneration
    BY Zenon, <1>a DEF pendingStatus, RunnerStatus
  <2> HIDE DEF new
  <2> QED BY <1>5, <1>b, <2>1, <2>2 DEF ReconcileCreate, patchContents
<1>6. CASE ReconcileDeferDrift
  <2> DEFINE desired == IF ~jobRunning THEN NoHash
                  ELSE IF specDrift THEN computeSpecHash[runnerCache.spec]
                  ELSE runnerCache.status.desiredSpecHash
             base == [runnerCache.status EXCEPT !.desiredSpecHash = desired]
             new == IF jobRunning
                   THEN setRunnerCondition(base, runnerCache, "SpecDriftDeferred")
                   ELSE base
  <2>1. callPatch(base, new, "return")
    BY <1>6 DEF ReconcileDeferDrift
  <2>2. /\ base.phase = runnerCache.status.phase
        /\ base.resourceHash = runnerCache.status.resourceHash
        /\ new.phase = base.phase
        /\ new.resourceHash = base.resourceHash
        /\ new.desiredSpecHash = base.desiredSpecHash
        /\ new.reason = "SpecDriftDeferred" \/ new = base
    BY Zenon, <1>a DEF setRunnerCondition, RunnerStatus
  <2> HIDE DEF base, new
  <2> QED BY <1>6, <1>b, <2>1, <2>2 DEF ReconcileDeferDrift, driftBranch, patchContents
<1>7. CASE ReconcileDriftInvalid
  BY Zenon, <1>7 DEF ReconcileDriftInvalid
<1>8. CASE ReconcileReplace
  <2> DEFINE new == setRunnerCondition(
                 [runnerCache.status EXCEPT
                    !.desiredSpecHash = NoHash,
                    !.resourceHash = computeSpecHash[runnerCache.spec]],
                 runnerCache, "SpecDriftReplaced")
  <2>1. callPatch(runnerCache.status, new, "delete")
    BY Zenon, <1>8 DEF ReconcileReplace
  <2>2. /\ new.phase = runnerCache.status.phase
        /\ new.resourceHash = computeSpecHash[runnerCache.spec]
        /\ new.desiredSpecHash = NoHash
        /\ new.reason = "SpecDriftReplaced"
    BY Zenon, <1>a DEF setRunnerCondition, RunnerStatus
  <2> HIDE DEF new
  <2> QED BY <1>8, <1>b, <2>1, <2>2 DEF ReconcileReplace, driftBranch, patchContents
<1>9. CASE ReconcileUpToDate
  BY Zenon, <1>9 DEF ReconcileUpToDate
<1>10. CASE ReconcileUpdateStatus
  <2>1. callPatch(runnerCache.status, statusFromJob, "return")
    BY <1>10 DEF ReconcileUpdateStatus
  <2>2. /\ statusFromJob.phase = phaseOfJob(jobCache)
        /\ statusFromJob.resourceHash = runnerCache.status.resourceHash
        /\ statusFromJob.desiredSpecHash = runnerCache.status.desiredSpecHash
        /\ \/ statusFromJob.reason \in {"JobSucceeded", "JobFailed", "Running"}
           \/ /\ statusFromJob.reason = runnerCache.status.reason
              /\ statusFromJob.reasonGeneration = runnerCache.status.reasonGeneration
    BY <1>a DEF statusFromJob, setRunnerCondition, RunnerStatus
  <2> QED BY <1>10, <1>b, <2>1, <2>2 DEF ReconcileUpdateStatus, updateBranch, patchContents
<1> QED BY Zenon, <1>1, <1>2, <1>3, <1>4, <1>5, <1>6, <1>7, <1>8, <1>9, <1>10 DEF Reconcile

\* A patch leaves in every field of the status either what the API server
\* held or what the reconcile wrote, the latter when it differs from the base.
LEMMA PatchEffect ==
  ASSUME TypeOK, PatchStatus
  PROVE  /\ pc = "patch" /\ work \in Work
         /\ runner' = [runner EXCEPT !.status =
              mergePatch(runner.status, work.base, work.runner.status)]
         /\ runner'.status =
              mergePatch(runner.status, work.base, work.runner.status)
         /\ pc' = IF work.then = "return" THEN "idle" ELSE work.then
         /\ pc' # "idle" => work'.hash = work.hash /\ work'.then = work.then
         /\ UNCHANGED <<job, runnerCache, jobCache, created, ended>>
BY Zenon DEF PatchStatus, Work, TypeOK, returnNil, Runners, cacheVars, ghostVars, faultVars

\* The calls other than PatchStatus: none touches the Runner, the caches or
\* the history, and none leads to a patch.
LEMMA OtherCallsEffect ==
  ASSUME Calls, ~PatchStatus
  PROVE  /\ UNCHANGED <<runner, runnerCache, jobCache, ended>>
         /\ pc' = "idle"
BY Zenon DEF Calls, PatchStatusFails, CreateJob, CreateJobExists, CreateJobFails,
       DeleteJob, DeleteJobFails, returnError, returnNil, apiVars, cacheVars,
       ghostVars, faultVars

-----------------------------------------------------------------------------
(* A terminal phase is the outcome of a Job *)

\* OutcomeInv is inductive.
LEMMA OutcomeStep == TypeOK /\ OutcomeInv /\ [Next]_vars => OutcomeInv'
<1> USE DEF RunnerPhases, Reasons, ActivePhases, TerminalPhases
<1> SUFFICES ASSUME TypeOK, OutcomeInv, [Next]_vars PROVE OutcomeInv' BY Zenon
<1> USE DEF OutcomeInv, realStatus, realJob
<1>1. CASE Reconcile
  <2>1. /\ UNCHANGED <<runner, job, runnerCache, jobCache, created, ended>>
        /\ pc' = "patch" => patchContents(work')
    BY <1>1, ReconcileEffect
  <2>2. /\ phaseOfJob(jobCache) = "Succeeded" => jobCache.stage = "complete"
        /\ phaseOfJob(jobCache) = "Failed" => jobCache.stage = "failed"
    BY Zenon DEF phaseOfJob
  <2>3. pc' = "patch" => work'.runner.status.phase
          \in {runnerCache.status.phase, "Pending", phaseOfJob(jobCache)}
    BY Zenon, <2>1 DEF patchContents
  <2> QED BY <2>1, <2>2, <2>3
<1>2. CASE PatchStatus
  <2>1. runner'.status.phase \in {runner.status.phase, work.runner.status.phase}
    BY <1>2, PatchEffect DEF mergePatch, merge
  <2>2. /\ pc = "patch" /\ pc' # "patch"
        /\ UNCHANGED <<job, runnerCache, jobCache, ended>>
    BY Zenon, <1>2, PatchEffect DEF Work
  <2> QED BY Zenon, <2>1, <2>2
<1>3. CASE Calls /\ ~PatchStatus
  <2>1. UNCHANGED <<runner, runnerCache, jobCache, ended>> /\ pc' = "idle"
    BY Zenon, <1>3, OtherCallsEffect
  <2>2. job'.stage = job.stage \/ job'.stage = "pending"
    BY <1>3 DEF Calls, PatchStatusFails, CreateJob, buildJob, CreateJobExists,
        CreateJobFails, DeleteJob, DeleteJobFails, returnError, apiVars, TypeOK, Jobs
  <2> QED BY <2>1, <2>2
<1>4. CASE Environment
  <2> USE DEF apiVars, cacheVars, procVars, ghostVars, faultVars
  <2>1. CASE SyncRunner
    BY Zenon, <2>1 DEF SyncRunner
  <2>2. CASE SyncJob
    BY <2>2 DEF SyncJob
  <2>3. CASE JobStart
    BY Zenon, <2>3 DEF JobStart, TypeOK, Jobs
  <2>4. CASE JobEnd
    <3>1. PICK outcome \in JobOutcomes :
            /\ job' = [job EXCEPT !.stage = outcome]
            /\ ended' = ended \cup {<<job.uid, outcome>>}
      BY <2>4 DEF JobEnd
    <3>2. job'.stage = outcome
      BY Zenon, <3>1 DEF TypeOK, Jobs
    <3>3. <<job.uid, outcome>> \in ended' /\ <<job.uid, outcome>>[2] = outcome
      BY <3>1
    <3>4. ended \subseteq ended'
      BY <3>1
    <3>5. UNCHANGED <<runner, runnerCache, jobCache, pc, work>>
      BY Zenon, <2>4 DEF JobEnd
    <3> QED BY <3>2, <3>3, <3>4, <3>5
  <2>5. CASE JobRemoved
    <3>1. job'.stage = "absent"
      BY <2>5, NoJobType DEF JobRemoved, NoJob, Jobs
    <3> QED BY <2>5, <3>1 DEF JobRemoved
  <2>6. CASE UserDeletesJob
    BY Zenon, <2>6 DEF UserDeletesJob, TypeOK, Jobs
  <2>7. CASE UserUpdatesSpec
    BY Zenon, <2>7 DEF UserUpdatesSpec, TypeOK, Runners
  <2>8. CASE UserDeletesRunner
    BY <2>8 DEF UserDeletesRunner, TypeOK, Runners
  <2>9. CASE RunnerRemoved
    BY Zenon, <2>9 DEF RunnerRemoved, TypeOK, Runners
  <2>10. CASE SecretChanges
    BY Zenon, <2>10 DEF SecretChanges
  <2>11. CASE Crash
    BY Zenon, <2>11 DEF Crash
  <2> QED
    BY Zenon, <1>4, <2>1, <2>2, <2>3, <2>4, <2>5, <2>6, <2>7, <2>8, <2>9, <2>10, <2>11
    DEF Environment
<1>5. CASE UNCHANGED vars
  BY Zenon, <1>5 DEF vars, apiVars, cacheVars, procVars, ghostVars, faultVars
<1> QED BY <1>1, <1>2, <1>3, <1>4, <1>5, NextSplit

\* A Runner is Succeeded (Failed) only if one of its Jobs completed (failed),
\* for every number of generations, Jobs, failed calls and restarts, and
\* however far the two caches lag.
THEOREM OutcomeTheorem == Spec => []OutcomeIsReal
<1> USE DEF RunnerPhases, Reasons, ActivePhases, TerminalPhases
<1>1. Init => OutcomeInv
  BY DEF Init, OutcomeInv, realStatus, realJob, NoStatus, NoJob
<1>2. OutcomeInv => OutcomeIsReal
  BY Zenon DEF OutcomeInv, realStatus, OutcomeIsReal
<1> QED BY <1>1, <1>2, OutcomeStep, TypeCorrect, PTL DEF Spec

-----------------------------------------------------------------------------
(* The hash is recorded before a Job exists *)

\* Steps of the environment keep the recorded hash.
LEMMA EnvironmentKeepsStatus ==
  ASSUME TypeOK, Environment
  PROVE  /\ UNCHANGED runner.status
         /\ runnerCache'.status \in {runnerCache.status, runner.status}
         /\ job'.stage # "absent" => job.stage # "absent"
         /\ pc' = "idle" \/ UNCHANGED <<pc, work>>
<1> USE DEF RunnerPhases, Reasons, ActivePhases, TerminalPhases
<1> USE DEF apiVars, cacheVars, procVars, ghostVars, faultVars, TypeOK, Runners, Jobs
<1>1. CASE SyncRunner \/ SyncJob
  BY <1>1 DEF SyncRunner, SyncJob
<1>2. CASE JobStart \/ JobEnd \/ UserDeletesJob
  BY Zenon, <1>2 DEF JobStart, JobEnd, UserDeletesJob
<1>3. CASE JobRemoved
  BY Zenon, <1>3, NoJobType DEF JobRemoved, NoJob
<1>4. CASE UserUpdatesSpec \/ UserDeletesRunner \/ RunnerRemoved
  BY ZenonT(40), <1>4 DEF UserUpdatesSpec, UserDeletesRunner, RunnerRemoved
<1>5. CASE SecretChanges \/ Crash
  BY Zenon, <1>5 DEF SecretChanges, Crash
<1> QED BY Zenon, <1>1, <1>2, <1>3, <1>4, <1>5 DEF Environment

\* HashInv is inductive.
LEMMA HashStep == TypeOK /\ HashInv /\ [Next]_vars => HashInv'
<1> USE DEF RunnerPhases, Reasons, ActivePhases, TerminalPhases
<1> SUFFICES ASSUME TypeOK, HashInv, [Next]_vars PROVE HashInv' BY Zenon
<1> USE DEF HashInv, hashed
<1>1. CASE Reconcile
  <2>1. computeSpecHash[runnerCache.spec] # NoHash
    BY HashAssumption DEF TypeOK, Runners
  <2> QED BY Zenon, <1>1, <2>1, ReconcileEffect DEF patchContents
<1>2. CASE PatchStatus
  <2>1. runner'.status.resourceHash =
          merge(runner.status.resourceHash, work.base.resourceHash,
                work.runner.status.resourceHash)
    BY <1>2, PatchEffect DEF mergePatch
  <2>2. /\ pc = "patch" /\ pc' = IF work.then = "return" THEN "idle" ELSE work.then
        /\ pc' # "patch" /\ UNCHANGED <<job, runnerCache>>
    BY Zenon, <1>2, PatchEffect DEF Work
  <2>3. hashed(runner.status) => hashed(runner'.status)
    BY Zenon, <2>1, <2>2 DEF merge
  <2>4. pc' = "create" => hashed(runner'.status)
    BY Zenon, <2>1, <2>2 DEF merge
  <2> QED BY Zenon, <2>2, <2>3, <2>4
<1>3. CASE Calls /\ ~PatchStatus
  <2>1. UNCHANGED <<runner, runnerCache>> /\ pc' = "idle"
    BY Zenon, <1>3, OtherCallsEffect
  <2>2. job'.stage # "absent" => job.stage # "absent" \/ pc = "create"
    BY Zenon, <1>3 DEF Calls, PatchStatusFails, CreateJob, CreateJobExists,
        CreateJobFails, DeleteJob, DeleteJobFails, returnError, apiVars
  <2> QED BY <2>1, <2>2
<1>4. CASE Environment
  BY Zenon, <1>4, EnvironmentKeepsStatus
<1>5. CASE UNCHANGED vars
  BY Zenon, <1>5 DEF vars, apiVars, cacheVars, procVars, ghostVars, faultVars
<1> QED BY Zenon, <1>1, <1>2, <1>3, <1>4, <1>5, NextSplit

\* A Job exists only beside a Runner whose ResourceHash is recorded.
THEOREM HashTheorem == Spec => []HashBeforeJob
<1> USE DEF RunnerPhases, Reasons, ActivePhases, TerminalPhases
<1>1. Init => HashInv
  BY DEF Init, HashInv, hashed, NoStatus, NoJob
<1>2. HashInv => HashBeforeJob
  BY Zenon DEF HashInv, hashed, HashBeforeJob
<1> QED BY <1>1, <1>2, HashStep, TypeCorrect, PTL DEF Spec

-----------------------------------------------------------------------------
(* What is set before the base of a patch is copied is never stored *)

\* LateWritesInv is inductive.
LEMMA LateWritesStep == TypeOK /\ LateWritesInv /\ [Next]_vars => LateWritesInv'
<1> USE DEF RunnerPhases, Reasons, ActivePhases, TerminalPhases
<1> SUFFICES ASSUME TypeOK, LateWritesInv, [Next]_vars PROVE LateWritesInv' BY Zenon
<1> USE DEF LateWritesInv, LateWritesNeverStored
<1>1. CASE Reconcile
  BY Zenon, <1>1, ReconcileEffect DEF patchContents
<1>2. CASE PatchStatus
  <2>1. runner'.status.desiredSpecHash = runner.status.desiredSpecHash
    BY <1>2, PatchEffect DEF mergePatch, merge
  <2>2. runner'.status.reason # "ValidationFailed"
    BY <1>2, PatchEffect DEF mergePatch
  <2>3. pc' # "patch" /\ UNCHANGED runnerCache
    BY Zenon, <1>2, PatchEffect DEF Work
  <2> QED BY Zenon, <2>1, <2>2, <2>3
<1>3. CASE Calls /\ ~PatchStatus
  BY Zenon, <1>3, OtherCallsEffect
<1>4. CASE Environment
  BY Zenon, <1>4, EnvironmentKeepsStatus
<1>5. CASE UNCHANGED vars
  BY Zenon, <1>5 DEF vars, apiVars, cacheVars, procVars, ghostVars, faultVars
<1> QED BY Zenon, <1>1, <1>2, <1>3, <1>4, <1>5, NextSplit

\* Status.DesiredSpecHash and the ValidationFailed condition never reach the API
\* server: Reconcile sets them before it copies the base of its patch, so no
\* patch ever contains them.
THEOREM LateWritesTheorem == Spec => []LateWritesNeverStored
<1> USE DEF RunnerPhases, Reasons, ActivePhases, TerminalPhases
<1>1. Init => LateWritesInv
  BY DEF Init, LateWritesInv, LateWritesNeverStored, NoStatus
<1>2. LateWritesInv => LateWritesNeverStored
  BY Zenon DEF LateWritesInv
<1> QED BY <1>1, <1>2, LateWritesStep, TypeCorrect, PTL DEF Spec

-----------------------------------------------------------------------------
(* No duplicate Jobs *)

\* What a step of the environment does to the Runner and its Job: it never
\* brings a Job back, and a new spec is a new generation.
LEMMA EnvironmentKeepsJobs ==
  ASSUME TypeOK, Environment, DeletableJobs = {}
  PROVE  /\ UNCHANGED <<created, runner.status>>
         /\ \/ UNCHANGED <<runner.spec, runner.generation>>
            \/ runner'.generation = runner.generation + 1
         /\ runner'.live = "live" => runner.live = "live"
         /\ job'.stage # "absent" => job.stage # "absent"
         /\ job'.stage # "absent" /\ job'.terminating => job.terminating
         /\ job'.stage = "absent" /\ runner'.live = "live" =>
              job.stage = "absent" \/ job.terminating
         /\ pc' = "idle" \/ UNCHANGED <<pc, work>>
<1> USE DEF apiVars, cacheVars, procVars, ghostVars, faultVars, TypeOK, Runners, Jobs
<1>1. CASE SyncRunner \/ SyncJob
  BY <1>1 DEF SyncRunner, SyncJob
<1>2. CASE JobStart
  BY <1>2 DEF JobStart
<1>3. CASE JobEnd
  BY Zenon, <1>3, OutcomeAssumption DEF JobEnd
<1>4. CASE JobRemoved
  BY <1>4, NoJobType DEF JobRemoved, NoJob
<1>5. CASE UserDeletesJob
  BY <1>5 DEF UserDeletesJob
<1>6. CASE UserUpdatesSpec
  BY Zenon, <1>6 DEF UserUpdatesSpec
<1>7. CASE UserDeletesRunner \/ RunnerRemoved
  BY <1>7 DEF UserDeletesRunner, RunnerRemoved
<1>8. CASE SecretChanges \/ Crash
  BY <1>8 DEF SecretChanges, Crash
<1> QED BY Zenon, <1>1, <1>2, <1>3, <1>4, <1>5, <1>6, <1>7, <1>8 DEF Environment

\* GenerationInv is inductive.
LEMMA GenerationStep == TypeOK /\ GenerationInv /\ [Next]_vars => GenerationInv'
<1> SUFFICES ASSUME TypeOK, GenerationInv, [Next]_vars,
                    FreshCaches, DeletableJobs = {}
             PROVE  GenerationInv'
  BY ZenonT(40) DEF GenerationInv
<1>a. /\ created \in Nat /\ runner.generation \in Nat
      /\ job.stage = "absent" \/ job.stage # "absent"
      /\ pc # "idle" => work.then \in {"return", "create", "delete"}
  BY ZenonT(40) DEF TypeOK, Runners, Work
<1> USE DEF GenerationInv, underWay
<1>1. CASE Reconcile
  <2>1. /\ UNCHANGED <<runner, job, created>> /\ pc' \in {"idle", "patch"}
        /\ pc' = "patch" => /\ patchContents(work')
                            /\ runnerCache = runner /\ jobCache = job
    BY Zenon, <1>1, ReconcileEffect
  <2>2. CASE pc' = "idle"
    BY Zenon, <2>1, <2>2, <1>a
  <2>3. CASE pc' = "patch"
    <3>1. /\ work'.hash = computeSpecHash[runner.spec]
          /\ work'.base.resourceHash = runner.status.resourceHash
          /\ work'.then = "create" =>
               /\ work'.runner.status.resourceHash = work'.hash
               /\ job.stage = "absent" /\ runner.live = "live"
          /\ work'.then = "delete" =>
               /\ job.stage # "absent"
               /\ runner.status.resourceHash # computeSpecHash[runner.spec]
          /\ \/ work'.then # "return" \/ job.stage = "absent"
             \/ work'.runner.status.resourceHash = work'.base.resourceHash
      BY Zenon, <2>1, <2>3 DEF patchContents, specDrift
    <3>2. work'.then \in {"create", "delete"} => created < runner.generation
      BY <3>1, <1>a
    <3> QED BY Zenon, <2>1, <2>3, <3>1, <3>2, <1>a
  <2> QED BY Zenon, <2>1, <2>2, <2>3
<1>2. CASE PatchStatus
  <2>1. /\ pc = "patch"
        /\ pc' = IF work.then = "return" THEN "idle" ELSE work.then
        /\ pc' # "idle" => work'.hash = work.hash /\ work'.then = work.then
        /\ UNCHANGED <<job, created>>
        /\ runner' = [runner EXCEPT !.status =
              mergePatch(runner.status, work.base, work.runner.status)]
    BY Zenon, <1>2, PatchEffect
  <2>2. /\ UNCHANGED <<runner.spec, runner.generation, runner.live>>
        /\ runner'.status.resourceHash = work.runner.status.resourceHash
    BY Zenon, <2>1 DEF TypeOK, Runners, mergePatch, merge
  <2> QED BY <2>1, <2>2, <1>a
<1>3. CASE CreateJob
  <2>1. /\ pc = "create" /\ pc' = "idle" /\ created' = created + 1
        /\ job'.stage = "pending" /\ ~job'.terminating /\ UNCHANGED runner
    BY Zenon, <1>3 DEF CreateJob, buildJob, returnNil
  <2> QED BY <2>1, <1>a
<1>4. CASE DeleteJob
  <2>1. /\ pc = "delete" /\ pc' = "idle" /\ UNCHANGED <<runner, created>>
        /\ job'.stage = job.stage /\ job.stage # "absent"
    BY Zenon, <1>4 DEF DeleteJob, returnNil, ghostVars, faultVars, TypeOK, Jobs
  <2> QED BY Zenon, <2>1, <1>a
<1>5. CASE PatchStatusFails \/ CreateJobExists \/ CreateJobFails \/ DeleteJobFails
  <2>1. pc' = "idle" /\ UNCHANGED <<runner, job, created>>
    BY Zenon, <1>5 DEF PatchStatusFails, CreateJobExists, CreateJobFails,
        DeleteJobFails, returnError, returnNil, apiVars, ghostVars, faultVars
  <2> QED BY Zenon, <2>1, <1>a
<1>6. CASE Environment
  BY <1>6, <1>a, EnvironmentKeepsJobs
<1>7. CASE UNCHANGED vars
  BY Zenon, <1>7 DEF vars, apiVars, cacheVars, procVars, ghostVars, faultVars
<1> QED BY ZenonT(40), <1>1, <1>2, <1>3, <1>4, <1>5, <1>6, <1>7, NextSplit DEF Calls

\* At most one Job is created for every generation of the spec, for every number
\* of generations, failed calls and restarts, when reconciles start from
\* caught-up caches and no user deletes a Job.
THEOREM OneJobTheorem == Spec => []OneJobPerGeneration
<1>1. Init => GenerationInv
  BY DEF Init, GenerationInv, underWay, NoJob
<1>2. GenerationInv => OneJobPerGeneration
  BY Zenon DEF GenerationInv, OneJobPerGeneration
<1> QED BY <1>1, <1>2, GenerationStep, TypeCorrect, PTL DEF Spec
-----------------------------------------------------------------------------
(* Jobs are created from validated specs *)

\* ValidInv is inductive as long as the Secret has these keys.
LEMMA ValidStep ==
  ASSUME NEW keys \in Secrets \ {NoSecret}, TypeOK, ValidInv(keys), secret = keys,
         [Next]_vars
  PROVE  ValidInv(keys)'
<1> USE DEF ValidInv, underWay
<1>1. CASE Reconcile
  <2>1. /\ UNCHANGED job /\ pc' \in {"idle", "patch"}
        /\ pc' = "patch" => work'.hash = computeSpecHash[runnerCache.spec]
    BY Zenon, <1>1, ReconcileEffect DEF patchContents
  <2>2. pc' = "patch" /\ work'.then = "create" => secretValid
    <3>1. CASE ReconcileCreate
      BY Zenon, <3>1 DEF ReconcileCreate, validateSucceeds
    <3>2. CASE ReconcileInvalid \/ ReconcileUpdateStatus
      BY <3>2 DEF ReconcileInvalid, ReconcileUpdateStatus, callPatch
    <3>3. CASE ReconcileDeferDrift \/ ReconcileReplace
      BY <3>3 DEF ReconcileDeferDrift, ReconcileReplace, callPatch
    <3>4. CASE \/ ReconcileReadFails \/ ReconcileNotFound \/ ReconcileDeleting
               \/ ReconcileDriftInvalid \/ ReconcileUpToDate
      BY Zenon, <3>4 DEF ReconcileReadFails, ReconcileNotFound, ReconcileDeleting,
          ReconcileDriftInvalid, ReconcileUpToDate, returnNil, procVars
    <3> QED BY <1>1, <3>1, <3>2, <3>3, <3>4 DEF Reconcile
  <2>3. secretValid => validated(computeSpecHash[runnerCache.spec], keys)
    BY Zenon, HashAssumption DEF secretValid, validated, TypeOK, Runners
  <2> QED BY Zenon, <2>1, <2>2, <2>3
<1>2. CASE PatchStatus
  BY Zenon, <1>2, PatchEffect DEF Work
<1>3. CASE CreateJob
  BY Zenon, <1>3 DEF CreateJob, buildJob, returnNil
<1>4. CASE PatchStatusFails \/ CreateJobExists \/ CreateJobFails \/ DeleteJob \/ DeleteJobFails
  <2>1. pc' = "idle" /\ job'.stage = job.stage /\ job'.label = job.label
    BY Zenon, <1>4 DEF PatchStatusFails, CreateJobExists, CreateJobFails, DeleteJob,
        DeleteJobFails, returnError, returnNil, apiVars, TypeOK, Jobs
  <2> QED BY Zenon, <2>1
<1>5. CASE Environment
  <2>1. job'.stage # "absent" => job.stage # "absent" /\ job'.label = job.label
    <3> USE DEF apiVars, TypeOK, Jobs
    <3>1. CASE SyncRunner \/ SyncJob \/ SecretChanges \/ Crash \/ UserUpdatesSpec
               \/ UserDeletesRunner \/ RunnerRemoved
      BY Zenon, <3>1 DEF SyncRunner, SyncJob, SecretChanges, Crash, UserUpdatesSpec,
          UserDeletesRunner, RunnerRemoved
    <3>2. CASE JobStart \/ JobEnd \/ UserDeletesJob
      BY Zenon, <3>2 DEF JobStart, JobEnd, UserDeletesJob
    <3>3. CASE JobRemoved
      BY Zenon, <3>3, NoJobType DEF JobRemoved, NoJob
    <3> QED BY Zenon, <1>5, <3>1, <3>2, <3>3 DEF Environment
  <2>2. pc' = "idle" \/ UNCHANGED <<pc, work>>
    BY Zenon, <1>5, EnvironmentKeepsStatus
  <2> QED BY Zenon, <2>1, <2>2
<1>6. CASE UNCHANGED vars
  BY Zenon, <1>6 DEF vars, apiVars, procVars
<1> QED BY Zenon, <1>1, <1>2, <1>3, <1>4, <1>5, <1>6, NextSplit DEF Calls

\* As long as the Secret keeps the same keys, no Job needs a key it lacks, but
\* for the Jobs of a spec that replaced the validated one: for every number of
\* specs, keys, failed calls and restarts, and however far the caches lag.
THEOREM ValidatedTheorem == Spec => ValidatedBeforeJob
<1>1. ASSUME NEW keys \in Secrets \ {NoSecret}
      PROVE  Spec /\ [](secret = keys) =>
               [](job.stage # "absent" /\ job.label = computeSpecHash[job.spec] =>
                    RequiredSecretKeys[job.spec] \subseteq keys)
  <2>1. Init => ValidInv(keys)
    BY DEF Init, ValidInv, underWay, NoJob
  <2>2. TypeOK /\ ValidInv(keys) /\ secret = keys /\ [Next]_vars => ValidInv(keys)'
    BY Zenon, ValidStep
  <2>3. TypeOK /\ ValidInv(keys) =>
          (job.stage # "absent" /\ job.label = computeSpecHash[job.spec] =>
             RequiredSecretKeys[job.spec] \subseteq keys)
    BY Zenon DEF ValidInv, validated, TypeOK, Jobs
  <2> QED BY <2>1, <2>2, <2>3, TypeCorrect, PTL DEF Spec
<1> QED BY Zenon, <1>1 DEF ValidatedBeforeJob

-----------------------------------------------------------------------------
(* No wake-up is lost *)

\* A reconcile that returns without a call has handled what it read, and the
\* patch of one that returns after it shows, unless it was handled.
LEMMA ReconcileSettles ==
  ASSUME TypeOK, LateWritesInv, Reconcile, ~queued'
  PROVE  /\ pc' = "idle" => handled(runnerCache, jobCache)
         /\ pc' = "patch" /\ work'.then = "return" =>
              handled(runnerCache, jobCache) \/ patchShows'
<1>a. /\ runnerCache \in Runners /\ runnerCache.status \in RunnerStatus
      /\ runnerCache.status.desiredSpecHash = NoHash
  BY DEF TypeOK, Runners, LateWritesInv
<1>b. ASSUME NEW base, NEW new, NEW then, callPatch(base, new, then)
      PROVE  /\ pc' = "patch" /\ work'.then = then
             /\ work'.base = base /\ work'.runner.status = new
  BY <1>a, <1>b DEF callPatch, Runners
<1>c. drifted(runnerCache) <=> specDrift
  BY Zenon, <1>a DEF drifted, specDrift
<1>d. UNCHANGED runnerCache
  BY Zenon, ReconcileEffect
<1>e. validateFails => RequiredSecretKeys[runnerCache.spec] # {}
  BY DEF validateFails, secretValid
<1>1. CASE ReconcileReadFails
  BY Zenon, <1>1 DEF ReconcileReadFails, procVars
<1>2. CASE ReconcileNotFound \/ ReconcileDeleting
  BY Zenon, <1>2 DEF ReconcileNotFound, ReconcileDeleting, returnNil, handled
<1>3. CASE ReconcileInvalid
  <2> DEFINE base == setRunnerCondition(runnerCache.status, runnerCache, "ValidationFailed")
  <2>1. base.observedGeneration = runnerCache.status.observedGeneration
        /\ pendingStatus(base).observedGeneration = runnerCache.generation
    BY Zenon, <1>a DEF setRunnerCondition, pendingStatus, RunnerStatus
  <2>2. callPatch(base, pendingStatus(base), "return")
    BY Zenon, <1>3 DEF ReconcileInvalid
  <2> HIDE DEF base
  <2>3. CASE runnerCache.status.observedGeneration = runnerCache.generation
    BY Zenon, <1>3, <1>b, <1>e, <2>2, <2>3 DEF ReconcileInvalid, handled
  <2>4. CASE runnerCache.status.observedGeneration # runnerCache.generation
    BY Zenon, <1>b, <1>d, <2>1, <2>2, <2>4 DEF patchShows
  <2> QED BY <2>3, <2>4
<1>4. CASE ReconcileCreate
  BY Zenon, <1>4, <1>b DEF ReconcileCreate
<1>5. CASE ReconcileDeferDrift
  <2> DEFINE base == [runnerCache.status EXCEPT
                        !.desiredSpecHash = computeSpecHash[runnerCache.spec]]
             new == setRunnerCondition(base, runnerCache, "SpecDriftDeferred")
  <2>1. specDrift /\ jobRunning
    BY Zenon, <1>5, <1>a DEF ReconcileDeferDrift, driftBranch
  <2>2. callPatch(base, new, "return")
    BY Zenon, <1>5, <2>1 DEF ReconcileDeferDrift
  <2>3. /\ base.reason = runnerCache.status.reason
        /\ base.reasonGeneration = runnerCache.status.reasonGeneration
        /\ new.reason = "SpecDriftDeferred"
    BY Zenon, <1>a DEF setRunnerCondition, RunnerStatus
  <2> HIDE DEF base, new
  <2>4. CASE runnerCache.status.reason = "SpecDriftDeferred"
    BY Zenon, <2>1, <2>2, <2>4, <1>b, <1>c DEF handled, jobRunning, started, completionTimeSet
  <2>5. CASE runnerCache.status.reason # "SpecDriftDeferred"
    BY Zenon, <1>b, <1>d, <2>2, <2>3, <2>5 DEF patchShows
  <2> QED BY <2>4, <2>5
<1>6. CASE ReconcileDriftInvalid
  BY Zenon, <1>6, <1>c, <1>e DEF ReconcileDriftInvalid, driftBranch, returnNil, handled
<1>7. CASE ReconcileReplace
  BY Zenon, <1>7, <1>b DEF ReconcileReplace
<1>8. CASE ReconcileUpToDate
  BY Zenon, <1>8, <1>c DEF ReconcileUpToDate, updateBranch, statusUpToDate, returnNil, handled
<1>9. CASE ReconcileUpdateStatus
  <2>1. callPatch(runnerCache.status, statusFromJob, "return")
    BY <1>9 DEF ReconcileUpdateStatus
  <2>2. statusFromJob.phase = phaseOfJob(jobCache)
    BY Zenon, <1>a DEF statusFromJob, setRunnerCondition, RunnerStatus
  <2>3. CASE runnerCache.status.phase = phaseOfJob(jobCache)
    BY Zenon, <1>9, <2>1, <2>3, <1>b, <1>c DEF ReconcileUpdateStatus, updateBranch, handled
  <2>4. CASE runnerCache.status.phase # phaseOfJob(jobCache)
    BY <1>b, <1>d, <2>1, <2>2, <2>4 DEF patchShows
  <2> QED BY Zenon, <2>3, <2>4
<1> QED BY Zenon, <1>1, <1>2, <1>3, <1>4, <1>5, <1>6, <1>7, <1>8, <1>9 DEF Reconcile

\* What a step of the environment that queues no reconcile leaves alone, and what
\* every step of it does to the Job and its cached copy.
LEMMA EnvironmentQueues ==
  ASSUME TypeOK, Environment
  PROVE  /\ \/ queued'
            \/ UNCHANGED <<queued, runnerCache, runner.status, jobCache, pc, work>>
            \/ jobCache' = job /\ ~job.owned /\ jobCache # job
         /\ jobCache' = jobCache \/ (jobCache' = job /\ UNCHANGED job)
         /\ job' = job \/ /\ job.stage # "absent"
                          /\ job'.uid = job.uid /\ job'.owned = job.owned
         /\ UNCHANGED created
<1> USE DEF apiVars, cacheVars, procVars, ghostVars, faultVars, TypeOK, Runners, Jobs
<1>1. CASE SyncRunner \/ SyncJob \/ Crash
  BY Zenon, <1>1 DEF SyncRunner, SyncJob, Crash
<1>2. CASE JobStart \/ JobEnd \/ UserDeletesJob
  BY Zenon, <1>2 DEF JobStart, JobEnd, UserDeletesJob
<1>3. CASE JobRemoved
  BY Zenon, <1>3, NoJobType DEF JobRemoved, NoJob
<1>4. CASE UserUpdatesSpec \/ UserDeletesRunner \/ RunnerRemoved
  BY Zenon, <1>4 DEF UserUpdatesSpec, UserDeletesRunner, RunnerRemoved
<1>5. CASE SecretChanges
  BY Zenon, <1>5 DEF SecretChanges
<1> QED BY Zenon, <1>1, <1>2, <1>3, <1>4, <1>5 DEF Environment

\* SettledInv is inductive.
LEMMA SettledStep ==
  TypeOK /\ LateWritesInv /\ SettledInv /\ [Next]_vars => SettledInv'
<1> SUFFICES ASSUME TypeOK, LateWritesInv, SettledInv, [Next]_vars PROVE SettledInv' OBVIOUS
<1>a. /\ created \in Nat /\ job.uid \in Nat /\ jobCache.uid \in Nat
      /\ pc # "idle" => work.then \in {"return", "create", "delete"}
  BY ZenonT(40) DEF TypeOK, Jobs, Work
<1>b. cachedJobInv /\ (queued \/ nothingLost)
  BY Zenon DEF SettledInv
<1>q. ASSUME UNCHANGED <<job, jobCache, created>> PROVE cachedJobInv'
  BY <1>b, <1>q DEF cachedJobInv
<1>1. CASE Reconcile
  <2>1. /\ UNCHANGED <<runner, job, runnerCache, jobCache, created>>
        /\ pc' \in {"idle", "patch"}
        /\ pc' = "patch" => patchContents(work')
    BY <1>1, ReconcileEffect
  <2>2. ~queued' => /\ pc' = "idle" => handled(runnerCache, jobCache)
                    /\ pc' = "patch" /\ work'.then = "return" =>
                         handled(runnerCache, jobCache) \/ patchShows'
    BY <1>1, ReconcileSettles
  <2>3. handled(runnerCache, jobCache) => handled(runnerCache, jobCache)'
    BY Zenon, <2>1 DEF handled, drifted
  <2>4. ~queued' => nothingLost'
    BY Zenon, <2>1, <2>2, <2>3 DEF nothingLost, underWay, patchContents, specDrift
  <2> QED BY Zenon, <2>1, <2>4, <1>q DEF SettledInv
<1>2. CASE PatchStatus
  <2>1. /\ pc = "patch" /\ work \in Work
        /\ pc' = IF work.then = "return" THEN "idle" ELSE work.then
        /\ runner'.status = mergePatch(runner.status, work.base, work.runner.status)
        /\ UNCHANGED <<job, runnerCache, jobCache, created>> /\ UNCHANGED queued
    BY Zenon, <1>2, PatchEffect DEF PatchStatus
  <2>2. handled(runnerCache, jobCache) => handled(runnerCache, jobCache)'
    BY Zenon, <2>1 DEF handled, drifted
  <2>3. patchShows => runner'.status # runnerCache.status
    <3>1. /\ runner'.status.phase =
               merge(runner.status.phase, work.base.phase, work.runner.status.phase)
          /\ runner'.status.observedGeneration =
               merge(runner.status.observedGeneration, work.base.observedGeneration,
                     work.runner.status.observedGeneration)
          /\ <<work.runner.status.reason, work.runner.status.reasonGeneration>>
               # <<work.base.reason, work.base.reasonGeneration>> =>
               /\ runner'.status.reason = work.runner.status.reason
               /\ runner'.status.reasonGeneration = work.runner.status.reasonGeneration
      BY SMTT(30), <2>1 DEF mergePatch
    <3> QED BY Zenon, <3>1 DEF patchShows, merge
  <2>4. CASE queued
    BY Zenon, <2>1, <2>4, <1>q DEF SettledInv
  <2>5. CASE nothingLost /\ work.then = "return"
    BY Zenon, <2>1, <2>2, <2>3, <2>5, <1>q DEF SettledInv, nothingLost, underWay
  <2>6. CASE nothingLost /\ work.then = "create"
    BY Zenon, <2>1, <2>6, <1>q DEF SettledInv, nothingLost, underWay
  <2>7. CASE nothingLost /\ work.then = "delete"
    <3>1. runner'.status.resourceHash # runnerCache.status.resourceHash
      BY <2>1, <2>7 DEF nothingLost, mergePatch, merge
    <3> QED BY Zenon, <2>1, <2>7, <3>1, <1>q DEF SettledInv, nothingLost, underWay
  <2> QED BY <2>1, <2>4, <2>5, <2>6, <2>7, <1>a, <1>b
<1>3. CASE CreateJob
  <2>1. /\ pc = "create" /\ pc' = "idle"
        /\ job'.uid = created + 1 /\ job'.owned /\ job'.stage = "pending"
        /\ created' = created + 1 /\ UNCHANGED jobCache
    BY Zenon, <1>3 DEF CreateJob, buildJob, returnNil, cacheVars
  <2> QED BY <2>1, <1>a, <1>b DEF SettledInv, cachedJobInv, nothingLost, underWay
<1>4. CASE CreateJobExists
  <2>1. /\ pc = "create" /\ pc' = "idle" /\ job.stage # "absent"
        /\ UNCHANGED <<job, jobCache, created, queued>>
    BY Zenon, <1>4 DEF CreateJobExists, returnNil, apiVars, cacheVars, ghostVars, faultVars
  <2>2. jobCache.stage = "absent" => jobCache.uid < job.uid
    BY <2>1, <1>a, <1>b DEF cachedJobInv
  <2> QED BY Zenon, <2>1, <2>2, <1>b, <1>q DEF SettledInv, nothingLost, underWay
<1>5. CASE DeleteJob
  <2>1. /\ pc = "delete" /\ pc' = "idle" /\ job.stage # "absent"
        /\ job'.uid = job.uid /\ job'.owned = job.owned /\ job'.stage = job.stage
        /\ UNCHANGED <<runner, runnerCache, jobCache, created, queued>>
    BY Zenon, <1>5 DEF DeleteJob, returnNil, cacheVars, ghostVars, faultVars, TypeOK, Jobs
  <2> QED BY Zenon, <2>1, <1>b DEF SettledInv, cachedJobInv, nothingLost, underWay
<1>6. CASE PatchStatusFails \/ CreateJobFails \/ DeleteJobFails
  <2>1. queued' /\ UNCHANGED <<job, jobCache, created>>
    BY Zenon, <1>6 DEF PatchStatusFails, CreateJobFails, DeleteJobFails, returnError,
        apiVars, cacheVars
  <2> QED BY Zenon, <2>1, <1>q DEF SettledInv
<1>7. CASE Environment
  <2>1. cachedJobInv'
    <3>1. CASE jobCache' = job /\ UNCHANGED job
      BY <3>1, <1>7, <1>a, <1>b, EnvironmentQueues DEF cachedJobInv
    <3>2. CASE jobCache' = jobCache /\ job' = job
      BY Zenon, <3>2, <1>7, <1>b, EnvironmentQueues DEF cachedJobInv
    <3>3. CASE jobCache' = jobCache /\ job.stage # "absent" /\ job'.uid = job.uid
               /\ job'.owned = job.owned
      BY <3>3, <1>7, <1>b, EnvironmentQueues DEF cachedJobInv
    <3> QED BY Zenon, <3>1, <3>2, <3>3, <1>7, EnvironmentQueues
  <2>2. CASE queued'
    BY Zenon, <2>1, <2>2 DEF SettledInv
  <2>3. CASE ~queued'
    <3>1. /\ UNCHANGED <<queued, runnerCache, runner.status, jobCache, pc, work>>
          /\ job'.uid = job.uid
      BY Zenon, <1>7, <1>b, <2>3, EnvironmentQueues DEF cachedJobInv
    <3>2. /\ handled(runnerCache, jobCache) => handled(runnerCache, jobCache)'
          /\ patchShows => patchShows'
      BY Zenon, <3>1 DEF handled, drifted, patchShows
    <3> QED BY Zenon, <2>1, <2>3, <3>1, <3>2, <1>b DEF SettledInv, nothingLost, underWay
  <2> QED BY Zenon, <2>2, <2>3
<1>8. CASE UNCHANGED vars
  <2>1. /\ handled(runnerCache, jobCache) => handled(runnerCache, jobCache)'
        /\ patchShows => patchShows'
    BY Zenon, <1>8 DEF vars, cacheVars, procVars, handled, drifted, patchShows
  <2> QED BY Zenon, <1>8, <1>q, <1>b, <2>1
    DEF vars, apiVars, cacheVars, procVars, ghostVars, faultVars, SettledInv, nothingLost, underWay
<1> QED BY <1>1, <1>2, <1>3, <1>4, <1>5, <1>6, <1>7, <1>8, NextSplit DEF Calls

\* No wake-up is lost: whatever the caches, users, failed calls and restarts did,
\* when nothing is queued or under way and the caches are caught up, the live
\* Runner is handled.
THEOREM SettledTheorem == Spec => []SettledMeansHandled
<1>1. Init => LateWritesInv /\ SettledInv
  BY DEF Init, LateWritesInv, LateWritesNeverStored, NoStatus, SettledInv, cachedJobInv, NoJob
<1>2. SettledInv /\ TypeOK => SettledMeansHandled
  BY DEF SettledInv, nothingLost, SettledMeansHandled, Quiescent, TypeOK, Jobs
<1> QED BY <1>1, <1>2, LateWritesStep, SettledStep, TypeCorrect, PTL DEF Spec
-----------------------------------------------------------------------------
(* A terminal phase is final *)

\* What a step of the environment does to the Job: it moves on, or goes when it
\* is terminating or its Runner is not live.
LEMMA EnvironmentMovesJob ==
  ASSUME TypeOK, Environment, DeletableJobs = {}
  PROVE  \/ job'.stage = job.stage
         \/ job.stage \in {"pending", "running"} /\ job'.stage # "absent"
         \/ job.stage # "absent" /\ (job.terminating \/ runner'.live # "live")
<1> USE DEF apiVars, TypeOK, Jobs
<1>1. CASE SyncRunner \/ SyncJob \/ SecretChanges \/ Crash \/ UserUpdatesSpec
           \/ UserDeletesRunner \/ RunnerRemoved
  BY Zenon, <1>1 DEF SyncRunner, SyncJob, SecretChanges, Crash, UserUpdatesSpec,
      UserDeletesRunner, RunnerRemoved
<1>2. CASE JobStart \/ UserDeletesJob
  BY <1>2 DEF JobStart, UserDeletesJob
<1>3. CASE JobEnd
  BY <1>3, OutcomeAssumption DEF JobEnd
<1>4. CASE JobRemoved
  BY Zenon, <1>4 DEF JobRemoved
<1> QED BY Zenon, <1>1, <1>2, <1>3, <1>4 DEF Environment

\* A new spec is a new generation, and a Runner that is not live never is again.
LEMMA RunnerMovesOn ==
  ASSUME TypeOK, [Next]_vars
  PROVE  /\ runner'.generation = runner.generation \/ runner'.generation = runner.generation + 1
         /\ runner'.live = "live" => runner.live = "live"
<1>1. CASE Reconcile \/ (Calls /\ ~PatchStatus)
  BY <1>1, ReconcileEffect, OtherCallsEffect
<1>2. CASE PatchStatus
  BY Zenon, <1>2, PatchEffect DEF TypeOK, Runners
<1>3. CASE SyncRunner \/ SyncJob \/ JobStart \/ JobEnd \/ JobRemoved \/ UserDeletesJob
           \/ SecretChanges \/ Crash
  BY Zenon, <1>3 DEF SyncRunner, SyncJob, JobStart, JobEnd, JobRemoved, UserDeletesJob,
      SecretChanges, Crash, apiVars
<1>4. CASE UserUpdatesSpec \/ UserDeletesRunner \/ RunnerRemoved
  BY Zenon, <1>4 DEF UserUpdatesSpec, UserDeletesRunner, RunnerRemoved, TypeOK, Runners
<1>5. CASE UNCHANGED vars
  BY Zenon, <1>5 DEF vars, apiVars
<1> QED BY Zenon, <1>1, <1>2, <1>3, <1>4, <1>5, NextSplit DEF Environment

\* TerminalInv is inductive, and under it a step keeps a terminal phase.
LEMMA TerminalStep ==
  ASSUME TypeOK, GenerationInv, TerminalInv, [Next]_vars
  PROVE  /\ TerminalInv'
         /\ FreshCaches /\ DeletableJobs = {} /\ runner.generation = 1
            /\ runner.status.phase \in TerminalPhases
            => runner'.status.phase = runner.status.phase
<1>a. runner.generation \in Nat /\ created \in Nat /\ runner.generation # 0
  BY DEF TypeOK, Runners, TerminalInv
<1>b. /\ runner'.generation = runner.generation \/ runner'.generation = runner.generation + 1
      /\ runner'.live = "live" => runner.live = "live"
  BY Zenon, RunnerMovesOn
<1>c. runner'.generation # 0 /\ (runner'.generation = 1 => runner.generation = 1)
  BY <1>a, <1>b
<1>d. SUFFICES ASSUME FreshCaches, DeletableJobs = {}, runner.generation = 1
               PROVE  /\ (created = 0 => job.stage = "absent")'
                      /\ outcomeStands(runner.status.phase)'
                      /\ pc' = "patch" =>
                           /\ work'.base.phase = runner'.status.phase
                           /\ runner'.status.phase \in TerminalPhases =>
                                work'.runner.status.phase = runner'.status.phase
                           /\ outcomeStands(work.runner.status.phase)'
                      /\ runner.status.phase \in TerminalPhases =>
                           runner'.status.phase = runner.status.phase
  BY Zenon, <1>c DEF TerminalInv
<1>e. /\ created = 0 => job.stage = "absent"
      /\ outcomeStands(runner.status.phase)
      /\ pc = "patch" =>
           /\ work.base.phase = runner.status.phase
           /\ runner.status.phase \in TerminalPhases =>
                work.runner.status.phase = runner.status.phase
           /\ outcomeStands(work.runner.status.phase)
  BY Zenon, <1>d DEF TerminalInv
<1>f. created # 0 =>
        /\ job.stage # "absent" \/ runner.live # "live"
        /\ job.stage # "absent" => ~job.terminating
        /\ ~underWay("create") /\ ~underWay("delete")
  BY <1>a, <1>d DEF GenerationInv
<1>g. /\ phaseOfJob(job) \in TerminalPhases <=> job.stage \in {"complete", "failed"}
      /\ "Pending" \notin TerminalPhases
  BY Zenon DEF phaseOfJob, TerminalPhases
<1>1. CASE Reconcile
  <2>1. /\ UNCHANGED <<runner, job, created>>
        /\ pc' = "patch" => /\ patchContents(work')
                            /\ runnerCache = runner /\ jobCache = job
    BY Zenon, <1>1, <1>d, ReconcileEffect
  <2>2. pc' = "patch" =>
          /\ work'.base.phase = runner.status.phase
          /\ \/ work'.runner.status.phase \in {runner.status.phase, phaseOfJob(job)}
             \/ work'.runner.status.phase = "Pending" /\ job.stage = "absent"
          /\ runner.live = "live"
    BY Zenon, <2>1 DEF patchContents
  <2>3. pc' = "patch" => outcomeStands(work'.runner.status.phase)
    BY Zenon, <2>2, <1>e, <1>g DEF outcomeStands
  <2>4. pc' = "patch" /\ runner.status.phase \in TerminalPhases =>
          work'.runner.status.phase = runner.status.phase
    BY Zenon, <2>2, <1>e, <1>f DEF outcomeStands
  <2> QED BY <2>1, <2>2, <2>3, <2>4, <1>e DEF outcomeStands
<1>2. CASE PatchStatus
  <2>1. /\ pc = "patch" /\ pc' # "patch" /\ UNCHANGED <<job, created>>
        /\ runner'.live = runner.live
        /\ runner'.status = mergePatch(runner.status, work.base, work.runner.status)
    BY Zenon, <1>2, PatchEffect DEF TypeOK, Runners, Work
  <2>2. runner'.status.phase = work.runner.status.phase
    BY <2>1, <1>e DEF mergePatch, merge
  <2> QED BY Zenon, <2>1, <2>2, <1>e DEF outcomeStands
<1>3. CASE CreateJob
  <2>1. /\ pc = "create" /\ pc' = "idle" /\ created' = created + 1 /\ UNCHANGED runner
    BY <1>3 DEF CreateJob, returnNil
  <2> QED BY <2>1, <1>a, <1>e, <1>f DEF outcomeStands, underWay
<1>4. CASE DeleteJob
  <2>1. pc = "delete" /\ job.stage # "absent"
    BY Zenon, <1>4 DEF DeleteJob
  <2> QED BY Zenon, <2>1, <1>e, <1>f DEF underWay
<1>5. CASE PatchStatusFails \/ CreateJobExists \/ CreateJobFails \/ DeleteJobFails
  <2>1. pc' = "idle" /\ UNCHANGED <<runner, job, created>>
    BY Zenon, <1>5 DEF PatchStatusFails, CreateJobExists, CreateJobFails,
        DeleteJobFails, returnError, returnNil, apiVars, ghostVars, faultVars
  <2> QED BY <2>1, <1>e DEF outcomeStands
<1>6. CASE Environment
  <2>1. /\ UNCHANGED <<created, runner.status>>
        /\ pc' = "idle" \/ UNCHANGED <<pc, work>>
        /\ job'.stage # "absent" => job.stage # "absent"
    BY <1>6, <1>d, EnvironmentKeepsJobs
  <2>2. \/ job'.stage = job.stage
        \/ job.stage \in {"pending", "running"} /\ job'.stage # "absent"
        \/ job.stage # "absent" /\ (job.terminating \/ runner'.live # "live")
    BY Zenon, <1>6, <1>d, EnvironmentMovesJob
  <2>3. job'.stage = job.stage => phaseOfJob(job)' = phaseOfJob(job)
    BY DEF phaseOfJob
  <2>4. ASSUME NEW p, outcomeStands(p)
        PROVE  p \in TerminalPhases =>
                 created' # 0 /\ (runner'.live = "live" => phaseOfJob(job)' = p)
    BY Zenon, <2>1, <2>2, <2>3, <2>4, <1>b, <1>f, <1>g DEF outcomeStands
  <2>5. outcomeStands(runner.status.phase)'
    BY Zenon, <2>1, <2>4, <1>e DEF outcomeStands
  <2>6. pc' = "patch" => outcomeStands(work.runner.status.phase)'
    BY <2>1, <2>4, <1>e DEF outcomeStands
  <2> QED BY Zenon, <2>1, <2>5, <2>6, <1>e
<1>7. CASE UNCHANGED vars
  BY <1>7, <1>e DEF vars, apiVars, procVars, ghostVars, faultVars, outcomeStands, phaseOfJob
<1> QED BY Zenon, <1>1, <1>2, <1>3, <1>4, <1>5, <1>6, <1>7, NextSplit DEF Calls

\* While the spec does not change, a terminal phase is final, for every number
\* of failed calls and restarts and every change of the Secret, when reconciles
\* start from caught-up caches and no user deletes a Job.
THEOREM TerminalTheorem == Spec => TerminalIsFinal
<1>1. Init => TerminalInv /\ GenerationInv
  BY DEF Init, TerminalInv, GenerationInv, underWay, outcomeStands, NoJob, NoStatus,
      TerminalPhases
<1>2. TypeOK /\ GenerationInv /\ TerminalInv /\ [Next]_vars =>
        /\ TerminalInv'
        /\ FreshCaches /\ DeletableJobs = {} /\ runner.status.phase \in TerminalPhases
           /\ runner.generation = 1
           => runner'.status.phase = runner.status.phase
  BY Zenon, TerminalStep
<1> QED BY <1>1, <1>2, GenerationStep, TypeCorrect, PTL DEF Spec, TerminalIsFinal
-----------------------------------------------------------------------------
(* The metrics follow the status *)

\* Moving the Runner from one phase to another turns the series of the one into
\* those of the other, wherever the series saturate.
LEMMA MoveCounts ==
  ASSUME TypeOK, NEW from, NEW to, counts(from)
  PROVE  /\ from # to => \A p \in ActivePhases :
              moveActive(metrics, from, to).active[p] = clamp(IF to = p THEN 1 ELSE 0)
         /\ moveActive(metrics, from, to).completed = metrics.completed
<1>1. /\ metrics \in [active : [ActivePhases -> Int], completed : Int]
  BY Zenon DEF TypeOK
<1>2. /\ clamp(clamp(0) + 1 - 0) = clamp(1) /\ clamp(clamp(1) + 0 - 1) = clamp(0)
      /\ clamp(clamp(0) + 0 - 0) = clamp(0)
  BY BoundsAssumption DEF clamp
<1>3. \A p \in ActivePhases : moveActive(metrics, from, to).active[p] =
        clamp(metrics.active[p] + (IF to = p THEN 1 ELSE 0) - (IF from = p THEN 1 ELSE 0))
  BY <1>1 DEF moveActive
<1>4. moveActive(metrics, from, to).completed = metrics.completed
  BY Zenon, <1>1 DEF moveActive
<1> QED BY Zenon, <1>2, <1>3, <1>4 DEF counts

\* Counting an end leaves the active series alone and raises the total.
LEMMA CompletedCounts ==
  ASSUME NEW m \in [active : [ActivePhases -> Int], completed : Int], NEW phase
  PROVE  /\ countCompleted(m, phase).active = m.active
         /\ countCompleted(m, phase).completed =
              IF phase \in TerminalPhases THEN clamp(m.completed + 1) ELSE m.completed
BY Zenon DEF countCompleted

\* The first end makes the total one, a further one makes it no smaller.
LEMMA ClampCounts ==
  ASSUME NEW n \in Int
  PROVE  /\ n = 0 => clamp(n + 1) = clamp(1)
         /\ n >= clamp(1) => clamp(n + 1) >= clamp(1)
         /\ clamp(1) \in Int /\ clamp(n + 1) \in Int /\ clamp(0) = 0
BY SMTT(30), BoundsAssumption DEF clamp

\* A step that leaves no fault behind found none and is none.
LEMMA FaultsCount ==
  ASSUME TypeOK, Next, faults' = 0
  PROVE  faults = 0 /\ ~fault
<1>a. faults \in Nat
  BY DEF TypeOK
<1>b. ~fault
  BY <1>a DEF fault
<1>1. CASE Reconcile
  BY Zenon, <1>1, <1>b DEF Reconcile, ReconcileReadFails, ReconcileNotFound,
     ReconcileDeleting, ReconcileInvalid, ReconcileCreate, ReconcileDeferDrift,
     ReconcileDriftInvalid, ReconcileReplace, ReconcileUpToDate,
     ReconcileUpdateStatus, validateFails, validateSucceeds, faultVars
<1>2. CASE Calls
  BY Zenon, <1>2, <1>b DEF Calls, PatchStatus, PatchStatusFails, CreateJob, CreateJobExists,
     CreateJobFails, DeleteJob, DeleteJobFails, ghostVars, faultVars
<1>3. CASE Environment
  BY Zenon, <1>3, <1>b DEF Environment, SyncRunner, SyncJob, JobStart, JobEnd, JobRemoved,
     UserDeletesJob, UserUpdatesSpec, UserDeletesRunner, RunnerRemoved,
     SecretChanges, Crash, ghostVars, faultVars
<1> QED BY Zenon, <1>b, <1>1, <1>2, <1>3, NextSplit

\* What a reconcile that updates the status does to the total: an end that was
\* counted before is counted again only when the status keeps a StartTime.
LEMMA UpdateCounts ==
  ASSUME TypeOK, ReconcileUpdateStatus, runnerCache = runner, jobCache = job,
         runner.generation = 1, endCounted(runner.status),
         runner.status.phase \in TerminalPhases => phaseOfJob(job) = runner.status.phase,
         metrics'.completed = IF phaseOfJob(job) \in TerminalPhases
                                THEN clamp(metrics.completed + 1) ELSE metrics.completed
  PROVE  /\ endCounted(work.runner.status)'
         /\ work'.base = runner.status
<1>a. runner \in Runners /\ runner.status \in RunnerStatus
  BY DEF TypeOK, Runners
<1>b. metrics.completed \in Int
  BY DEF TypeOK
<1>1. /\ work'.base = runner.status /\ work'.runner.status = statusFromJob
      /\ ~statusUpToDate /\ UNCHANGED job
  BY Zenon, <1>a DEF ReconcileUpdateStatus, callPatch, startReconcile, apiVars, Runners
<1>2. /\ statusFromJob.phase = phaseOfJob(job)
      /\ statusFromJob.observedGeneration = 1
      /\ statusFromJob.startTime =
           IF jobStartTime # 0 THEN jobStartTime ELSE runner.status.startTime
      /\ statusFromJob.completionTime =
           IF jobCompletionTime # 0 THEN jobCompletionTime ELSE runner.status.completionTime
  BY Zenon, <1>a DEF statusFromJob, setRunnerCondition, RunnerStatus
<1>3. /\ jobCompletionTime = IF job.stage = "complete" THEN job.uid ELSE 0
      /\ jobStartTime = IF job.stage = "running" THEN job.uid ELSE 0
  BY Zenon DEF jobCompletionTime, jobStartTime, completionTimeSet
<1>4. /\ phaseOfJob(job) \in TerminalPhases <=> job.stage \in {"complete", "failed"}
  BY Zenon DEF phaseOfJob, TerminalPhases
<1>5. CASE phaseOfJob(job) \notin TerminalPhases
  <2>1. jobCompletionTime = 0 /\ runner.status.phase \notin TerminalPhases
    BY <1>3, <1>4, <1>5
  <2> QED BY Zenon, <1>1, <1>2, <1>5, <2>1 DEF endCounted
<1>6. CASE phaseOfJob(job) \in TerminalPhases /\ runner.status.phase \notin TerminalPhases
  <2>1. metrics.completed = 0 /\ runner.status.completionTime = 0
    BY Zenon, <1>6 DEF endCounted
  <2>2. metrics'.completed = clamp(1)
    BY <1>6, <1>b, <2>1, ClampCounts
  <2>3. statusFromJob.completionTime = IF job.stage = "complete" THEN job.uid ELSE 0
    BY Zenon, <1>2, <1>3, <2>1
  <2> QED BY Zenon, <1>1, <1>2, <1>6, <2>2, <2>3 DEF endCounted
<1>7. CASE phaseOfJob(job) \in TerminalPhases /\ runner.status.phase \in TerminalPhases
  <2>1. /\ metrics.completed = clamp(1) \/ metrics.completed > clamp(1)
        /\ runner.status.observedGeneration = 1
        /\ runner.status.completionTime = IF job.stage = "complete" THEN job.uid ELSE 0
    BY Zenon, <1>7 DEF endCounted
  <2>2. jobStartTime = 0
    BY <1>3, <1>4, <1>7
  <2>3. runner.status.startTime # 0
    BY Zenon, <1>1, <1>3, <1>7, <2>1, <2>2 DEF statusUpToDate
  <2>4. metrics'.completed = clamp(1) \/ metrics'.completed > clamp(1)
    BY <1>7, <1>b, <2>1, ClampCounts
  <2>5. /\ statusFromJob.completionTime = IF job.stage = "complete" THEN job.uid ELSE 0
        /\ statusFromJob.startTime # 0
    BY Zenon, <1>2, <1>3, <2>1, <2>2, <2>3
  <2> QED BY Zenon, <1>1, <1>2, <1>7, <2>4, <2>5 DEF endCounted
<1> QED BY Zenon, <1>1, <1>5, <1>6, <1>7

\* MetricsInv is inductive.
LEMMA MetricsStep ==
  ASSUME TypeOK, GenerationInv, TerminalInv, TerminalInv', MetricsInv, Next
  PROVE  MetricsInv'
<1> SUFFICES ASSUME FreshCaches, DeletableJobs = {}, faults' = 0,
                    runner'.live = "live", runner'.generation = 1
             PROVE  /\ created' = 0 /\ pc' # "create" => counts("none")'
                    /\ pc' = "patch" /\ work'.then = "create" =>
                         work'.runner.status.phase = "Pending"
                    /\ pc' = "create" =>
                         counts("Pending")' /\ runner'.status.phase = "Pending"
                    /\ created' # 0 =>
                         counts(IF pc = "patch" THEN work.runner.status.phase
                                                ELSE runner.status.phase)'
                    /\ pc' = "patch" => patchFromStored'
                    /\ endCounted(IF pc = "patch" THEN work.runner.status
                                                  ELSE runner.status)'
  BY Zenon DEF MetricsInv
<1>a. faults = 0 /\ ~fault
  BY Zenon, FaultsCount
<1>b. runner.live = "live" /\ runner.generation = 1
  BY RunnerMovesOn DEF TypeOK, Runners, TerminalInv
<1>c. created \in Nat /\ metrics \in [active : [ActivePhases -> Int], completed : Int]
  BY Zenon DEF TypeOK
<1>d. /\ created = 0 => job.stage = "absent"
      /\ pc = "patch" => work.base.phase = runner.status.phase
      /\ runner.status.phase \in TerminalPhases =>
           created # 0 /\ phaseOfJob(job) = runner.status.phase
  BY Zenon, <1>b DEF TerminalInv, outcomeStands
<1>e. /\ created = 0 /\ pc # "create" => counts("none")
      /\ pc = "patch" /\ work.then = "create" => work.runner.status.phase = "Pending"
      /\ pc = "create" => counts("Pending") /\ runner.status.phase = "Pending"
      /\ created # 0 => counts(IF pc = "patch" THEN work.runner.status.phase
                                               ELSE runner.status.phase)
      /\ pc = "patch" => patchFromStored
      /\ endCounted(IF pc = "patch" THEN work.runner.status ELSE runner.status)
  BY Zenon, <1>a, <1>b DEF MetricsInv
<1>f. /\ job.stage = "absent" \/ underWay("create") \/ underWay("delete") => created = 0
      /\ underWay("create") => job.stage = "absent"
  BY <1>b, <1>c DEF GenerationInv
<1>g. "Pending" \notin TerminalPhases
  BY Zenon DEF TerminalPhases
<1>1. CASE Reconcile
  <2>1. /\ UNCHANGED <<runner, job, created>>
        /\ pc' \in {"idle", "patch"}
        /\ pc' = "patch" => patchContents(work')
    BY Zenon, <1>1, ReconcileEffect
  <2>2. pc = "idle" /\ runnerCache = runner /\ jobCache = job
    BY Zenon, <1>1, <1>a DEF Reconcile, ReconcileReadFails, ReconcileNotFound,
       ReconcileDeleting, ReconcileInvalid, ReconcileCreate, ReconcileDeferDrift,
       ReconcileDriftInvalid, ReconcileReplace, ReconcileUpToDate,
       ReconcileUpdateStatus, startReconcile
  <2>a. /\ runnerCache \in Runners /\ runnerCache.status \in RunnerStatus
        /\ endCounted(runner.status)
    BY Zenon, <2>2, <1>e DEF TypeOK, Runners
  <2>b. \A s : s \in RunnerStatus =>
          /\ pendingStatus(s).phase = "Pending"
          /\ pendingStatus(s).completionTime = s.completionTime
          /\ pendingStatus(s) \in RunnerStatus
    BY Zenon, <2>a, HashAssumption DEF pendingStatus, RunnerStatus, RunnerPhases, Runners
  <2>3. CASE ReconcileInvalid \/ ReconcileCreate
    <3>1. job.stage = "absent" /\ UNCHANGED metrics /\ pc' = "patch"
      BY Zenon, <2>2, <2>3 DEF ReconcileInvalid, ReconcileCreate, callPatch
    <3>2. /\ work'.base.startTime = runner.status.startTime
          /\ work'.base.completionTime = runner.status.completionTime
          /\ work'.base.observedGeneration = runner.status.observedGeneration
          /\ work'.runner.status.phase = "Pending"
          /\ work'.runner.status.completionTime = runner.status.completionTime
      <4>1. CASE ReconcileInvalid
        <5> DEFINE base == setRunnerCondition(runnerCache.status, runnerCache, "ValidationFailed")
        <5>1. /\ base \in RunnerStatus
              /\ base.startTime = runner.status.startTime
              /\ base.completionTime = runner.status.completionTime
              /\ base.observedGeneration = runner.status.observedGeneration
          BY Zenon, <2>a, <2>2 DEF setRunnerCondition, Runners, RunnerStatus, Reasons
        <5>2. work'.base = base /\ work'.runner.status = pendingStatus(base)
          BY Zenon, <2>a, <4>1 DEF ReconcileInvalid, callPatch, Runners
        <5> HIDE DEF base
        <5> QED BY Zenon, <2>b, <5>1, <5>2
      <4>2. CASE ReconcileCreate
        <5>1. /\ work'.base = runnerCache.status
              /\ work'.runner.status = [pendingStatus(runnerCache.status) EXCEPT
                                          !.desiredSpecHash = NoHash]
          BY Zenon, <2>a, <4>2 DEF ReconcileCreate, callPatch, Runners
        <5>2. pendingStatus(runnerCache.status) \in RunnerStatus
          BY Zenon, <2>a, <2>b
        <5>3. /\ work'.runner.status.phase = pendingStatus(runnerCache.status).phase
              /\ work'.runner.status.completionTime =
                   pendingStatus(runnerCache.status).completionTime
          BY Zenon, <5>1, <5>2 DEF RunnerStatus
        <5> QED BY Zenon, <2>a, <2>b, <2>2, <5>1, <5>3
      <4> QED BY Zenon, <2>3, <4>1, <4>2
    <3>3. runner.status.phase \notin TerminalPhases
      BY Zenon, <3>1, <1>d, <1>f
    <3>4. metrics.completed = 0 /\ runner.status.completionTime = 0
      BY Zenon, <2>a, <3>3 DEF endCounted
    <3>5. endCounted(work.runner.status)' /\ patchFromStored'
      BY Zenon, <2>1, <3>1, <3>2, <3>4, <1>g DEF endCounted, patchFromStored
    <3> QED BY Zenon, <2>1, <2>2, <3>1, <3>5, <1>e, <1>f DEF counts, patchContents
  <2>4. CASE ReconcileDeferDrift \/ ReconcileReplace
    <3>1. /\ UNCHANGED metrics /\ pc' = "patch" /\ work'.then # "create"
          /\ work'.runner.status.phase = runner.status.phase
          /\ work'.runner.status.startTime = runner.status.startTime
          /\ work'.runner.status.completionTime = runner.status.completionTime
          /\ work'.runner.status.observedGeneration = runner.status.observedGeneration
          /\ work'.base.startTime = runner.status.startTime
          /\ work'.base.completionTime = runner.status.completionTime
          /\ work'.base.observedGeneration = runner.status.observedGeneration
      <4>2. CASE ReconcileDeferDrift
        BY Zenon, <2>2, <2>a, <4>2 DEF ReconcileDeferDrift, callPatch, setRunnerCondition,
            Runners, RunnerStatus
      <4>3. CASE ReconcileReplace
        BY Zenon, <2>2, <2>a, <4>3 DEF ReconcileReplace, callPatch, setRunnerCondition,
            Runners, RunnerStatus
      <4> QED BY Zenon, <2>4, <4>2, <4>3
    <3>2. endCounted(work.runner.status)' /\ patchFromStored'
      BY Zenon, <2>1, <2>a, <3>1 DEF endCounted, patchFromStored
    <3> QED BY Zenon, <2>1, <2>2, <3>1, <3>2, <1>e DEF counts
  <2>5. CASE ReconcileDriftInvalid \/ ReconcileUpToDate
    <3>1. UNCHANGED metrics /\ pc' = "idle"
      BY Zenon, <2>5 DEF ReconcileDriftInvalid, ReconcileUpToDate, returnNil
    <3> QED BY Zenon, <2>1, <2>2, <2>a, <3>1, <1>e DEF counts, endCounted
  <2>6. CASE ReconcileUpdateStatus
    <3> DEFINE old == runner.status.phase
               new == phaseOfJob(job)
               moved == IF old # new THEN moveActive(metrics, old, new) ELSE metrics
    <3>1. /\ job.stage # "absent" /\ pc' = "patch" /\ work'.then = "return"
          /\ work'.runner.status.phase = new
          /\ metrics' = countCompleted(moved, new)
      <4>2. statusFromJob.phase = phaseOfJob(jobCache)
        BY Zenon, <2>a DEF statusFromJob, setRunnerCondition, RunnerStatus
      <4> QED BY Zenon, <2>2, <2>6, <2>a, <4>2
        DEF ReconcileUpdateStatus, updateBranch, callPatch, Runners
    <3>2. counts(old)
      BY Zenon, <2>2, <3>1, <1>d, <1>e
    <3> HIDE DEF old, new
    <3>3. /\ moved \in [active : [ActivePhases -> Int], completed : Int]
          /\ moved.completed = metrics.completed
          /\ \A p \in ActivePhases : moved.active[p] = clamp(IF new = p THEN 1 ELSE 0)
      BY <3>2, <1>c, MetricsType, MoveCounts DEF counts
    <3> HIDE DEF moved
    <3>4. /\ metrics'.active = moved.active
          /\ metrics'.completed = IF new \in TerminalPhases
                                    THEN clamp(metrics.completed + 1) ELSE metrics.completed
      BY Zenon, <3>1, <3>3, CompletedCounts
    <3>5. \A p \in ActivePhases : metrics'.active[p] = clamp(IF new = p THEN 1 ELSE 0)
      BY Zenon, <3>3, <3>4
    <3>6. endCounted(work.runner.status)' /\ work'.base = runner.status
      BY Zenon, <2>2, <2>6, <2>a, <3>4, <1>b, <1>d, UpdateCounts DEF new
    <3> QED BY Zenon, <2>1, <3>1, <3>5, <3>6, <1>d DEF counts, patchFromStored
  <2>7. CASE ReconcileReadFails \/ ReconcileNotFound \/ ReconcileDeleting
    BY Zenon, <2>2, <2>7, <1>a, <1>b
    DEF ReconcileReadFails, ReconcileNotFound, ReconcileDeleting
  <2> QED BY Zenon, <1>1, <2>3, <2>4, <2>5, <2>6, <2>7 DEF Reconcile
<1>2. CASE PatchStatus
  <2>1. /\ pc = "patch" /\ work \in Work /\ UNCHANGED <<job, created>>
        /\ pc' = IF work.then = "return" THEN "idle" ELSE work.then
        /\ runner'.status = mergePatch(runner.status, work.base, work.runner.status)
        /\ metrics' = IF work.then = "create"
                        THEN moveActive(metrics, "none", "Pending") ELSE metrics
    BY Zenon, <1>2, PatchEffect DEF PatchStatus
  <2>2. runner'.status.phase = work.runner.status.phase
    BY SMTT(30), <2>1, <1>d DEF mergePatch, merge
  <2>a. /\ runner'.status.startTime = work.runner.status.startTime
        /\ runner'.status.completionTime = work.runner.status.completionTime
        /\ runner'.status.observedGeneration = work.runner.status.observedGeneration
    <3>1. patchFromStored
      BY Zenon, <2>1, <1>e
    <3> QED BY SMTT(30), <2>1, <3>1 DEF mergePatch, merge, patchFromStored
  <2>b. metrics'.completed = metrics.completed /\ pc' # "patch"
    BY Zenon, <2>1, <1>c DEF moveActive, Work
  <2>c. endCounted(runner.status)'
    <3>1. endCounted(work.runner.status)
      BY Zenon, <2>1, <1>e
    <3> QED BY Zenon, <2>1, <2>2, <2>a, <2>b, <3>1 DEF endCounted
  <2>3. CASE work.then = "create"
    <3>1. created = 0 /\ counts("none")
      BY Zenon, <2>1, <2>3, <1>e, <1>f DEF underWay
    <3>2. counts("Pending")'
      BY <2>1, <2>3, <3>1, MoveCounts DEF counts
    <3> QED BY Zenon, <2>1, <2>2, <2>3, <2>b, <2>c, <3>1, <3>2, <1>e
  <2>4. CASE work.then # "create"
    BY Zenon, <2>1, <2>2, <2>4, <2>b, <2>c, <1>e DEF counts, Work
  <2> QED BY Zenon, <2>3, <2>4
<1>3. CASE CreateJob
  <2>1. pc = "create" /\ pc' = "idle" /\ created' = created + 1
        /\ UNCHANGED <<runner, metrics>>
    BY <1>3 DEF CreateJob, returnNil
  <2>2. endCounted(runner.status)'
    BY Zenon, <2>1, <1>e, <1>g DEF endCounted
  <2> QED BY <2>1, <2>2, <1>c, <1>e DEF counts
<1>4. CASE CreateJobExists \/ DeleteJob
  BY <1>4, <1>d, <1>f DEF CreateJobExists, DeleteJob, underWay
<1>5. CASE PatchStatusFails \/ CreateJobFails
  BY Zenon, <1>5, <1>a, <1>b DEF PatchStatusFails, CreateJobFails
<1>6. CASE DeleteJobFails
  <2>1. pc = "delete" /\ pc' = "idle" /\ UNCHANGED <<runner, job, metrics, created>>
    BY Zenon, <1>6 DEF DeleteJobFails, returnError, apiVars
  <2>2. endCounted(runner.status)'
    BY Zenon, <2>1, <1>e DEF endCounted
  <2> QED BY <2>1, <2>2, <1>e, <1>f DEF counts, underWay
<1>7. CASE Environment
  <2>1. UNCHANGED <<pc, work, metrics>>
    BY Zenon, <1>7, <1>a DEF Environment, SyncRunner, SyncJob, JobStart, JobEnd, JobRemoved,
       UserDeletesJob, UserUpdatesSpec, UserDeletesRunner, RunnerRemoved,
       SecretChanges, Crash, procVars
  <2>2. UNCHANGED <<created, runner.status>>
    BY Zenon, <1>7, EnvironmentKeepsJobs
  <2>3. job'.uid = job.uid
    BY Zenon, <1>7, EnvironmentQueues
  <2> DEFINE s == IF pc = "patch" THEN work.runner.status ELSE runner.status
  <2>4. /\ s' = s
        /\ s.phase \in TerminalPhases =>
             phaseOfJob(job) = s.phase /\ phaseOfJob(job)' = s.phase
    BY Zenon, <2>1, <2>2, <1>b DEF TerminalInv, outcomeStands
  <2> HIDE DEF s
  <2>5. s.phase \in TerminalPhases => (job'.stage = "complete" <=> job.stage = "complete")
    BY <2>4 DEF phaseOfJob, TerminalPhases
  <2>6. endCounted(s)
    BY Zenon, <1>e DEF s
  <2>7. endCounted(s)'
    BY Zenon, <2>1, <2>3, <2>4, <2>5, <2>6 DEF endCounted
  <2>8. patchFromStored => patchFromStored'
    BY Zenon, <2>1, <2>2 DEF patchFromStored
  <2> QED BY Zenon, <2>1, <2>2, <2>7, <2>8, <1>e DEF counts, s
<1> QED BY Zenon, <1>1, <1>2, <1>3, <1>4, <1>5, <1>6, <1>7, NextSplit DEF Calls

\* The metrics of a live Runner whose spec did not change follow its status, for
\* every value the series saturate at: no order of reconciles and deliveries
\* counts a Runner in two series, loses it or forgets its end, and none counts
\* the end twice unless the status keeps a StartTime.
THEOREM MetricsTheorem == Spec => []MetricsFollowStatus
<1>1. Init => GenerationInv /\ TerminalInv /\ MetricsInv
  <2> SUFFICES ASSUME Init PROVE GenerationInv /\ TerminalInv /\ MetricsInv BY Zenon
  <2>1. GenerationInv /\ TerminalInv
    BY SMTT(30) DEF Init, TerminalInv, GenerationInv, underWay, outcomeStands, NoJob, NoStatus,
        TerminalPhases
  <2>2. clamp(0) = 0
    BY ClampCounts
  <2>3. MetricsInv
    BY SMTT(30), <2>2 DEF Init, MetricsInv, counts, endCounted, NoMetrics, NoStatus,
        ActivePhases, TerminalPhases
  <2> QED BY SMTT(30), <2>1, <2>3
<1>2. TypeOK /\ GenerationInv /\ TerminalInv /\ MetricsInv /\ [Next]_vars => MetricsInv'
  <2>1. CASE UNCHANGED vars
    BY Zenon, <2>1
      DEF vars, apiVars, procVars, ghostVars, faultVars, MetricsInv, counts, endCounted,
          patchFromStored
  <2> QED BY Zenon, <2>1, MetricsStep, TerminalStep
<1>3. TypeOK /\ TerminalInv /\ MetricsInv => MetricsFollowStatus
  <2>1. clamp(0) = 0
    BY ClampCounts
  <2> QED BY Zenon, <2>1
    DEF TerminalInv, MetricsInv, MetricsFollowStatus, Quiescent, counts, endCounted
<1>4. TypeOK /\ GenerationInv /\ TerminalInv /\ [Next]_vars => TerminalInv'
  BY TerminalStep
<1> QED BY <1>1, <1>2, <1>3, <1>4, GenerationStep, TypeCorrect, PTL DEF Spec
=============================================================================
