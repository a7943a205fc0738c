-------------------------- MODULE RunnerController --------------------------
(***************************************************************************)
(* The Runner controller (internal/controller/runner_controller.go): one   *)
(* Runner object, the Job it owns, and the reconciler that keeps the two   *)
(* in step.                                                                *)
(*                                                                         *)
(* The reconciler reads the Runner and the Job from informer caches, which *)
(* lag the API server independently of each other, and writes with three   *)
(* calls: a status merge patch, Job creation and Job deletion.  Reconcile  *)
(* is therefore cut at those calls: one action takes it from its reads to  *)
(* the first call, and one action per call takes it further.  Between any  *)
(* two of them the user, the Job controller, the caches or a crash of the  *)
(* operator may act.                                                       *)
(***************************************************************************)
EXTENDS Integers

CONSTANTS
  Specs,              \* the contents spec may have
  Hashes,             \* the values of computeSpecHash
  computeSpecHash,    \* the hash of every spec
  NoHash,             \* the empty hash string
  Secrets,            \* what the git auth Secret may be: NoSecret or its keys
  RequiredSecretKeys, \* the keys the git auth of a spec needs; {} without auth
  NoSecret,           \* the Secret does not exist
  NoWork,             \* no reconcile in progress
  MutableSecret,      \* TRUE: the Secret may change
  JobOutcomes,        \* how Jobs may end: a subset of {"complete", "failed"}
  DeletableJobs,      \* uids of the Jobs a user may delete
  FreshCaches,        \* TRUE: the caches have caught up when a reconcile starts
  RunnerDeletable,    \* TRUE: a user may delete the Runner
  MaxGeneration,      \* bound on spec generations
  MaxJobs,            \* bound on Jobs ever created
  MaxFaults,          \* bound on failed API calls and operator restarts
  MetricCap           \* the metrics saturate at this value

ASSUME SpecsAssumption == Specs # {}
ASSUME HashAssumption ==
  /\ computeSpecHash \in [Specs -> Hashes]
  /\ \A s, t \in Specs : computeSpecHash[s] = computeSpecHash[t] => s = t
  /\ NoHash \notin Hashes
ASSUME SecretAssumption == DOMAIN RequiredSecretKeys = Specs /\ Secrets # {}
ASSUME OutcomeAssumption == JobOutcomes \subseteq {"complete", "failed"}
ASSUME BoundsAssumption ==
  /\ {FreshCaches, RunnerDeletable, MutableSecret} \subseteq BOOLEAN
  /\ DeletableJobs \subseteq Nat
  /\ MaxGeneration \in Nat \ {0} /\ MaxJobs \in Nat
  /\ MaxFaults \in Nat /\ MetricCap \in Nat

VARIABLES
  runner,       \* the Runner in the API server
  job,          \* the Job in the API server
  secret,       \* keys of the git auth Secret, or NoSecret
  runnerCache,  \* the Runner as the informer last delivered it
  jobCache,     \* the Job as the informer last delivered it
  queued,       \* the Runner's key is in the work queue
  pc,           \* the API call the reconcile in progress makes next
  work,         \* the local variables of the reconcile in progress
  metrics,      \* the process's Prometheus series
  created,      \* number of Jobs ever created
  ended,        \* history: the Jobs that ended, as <<uid, outcome>>
  faults,       \* number of failed API calls and restarts
  undeleted     \* history: a fault hit a reconcile that was to delete the Job

apiVars == <<runner, job, secret>>
cacheVars == <<runnerCache, jobCache>>
procVars == <<queued, pc, work, metrics>>
faultVars == <<faults, undeleted>>
ghostVars == <<created, ended, faultVars>>
vars == <<apiVars, cacheVars, procVars, ghostVars>>

-----------------------------------------------------------------------------
(* Objects *)

\* "none" is the empty phase of a Runner no reconcile has seen.
RunnerPhases == {"none", "Pending", "Running", "Succeeded", "Failed"}
TerminalPhases == {"Succeeded", "Failed"}
ActivePhases == {"Pending", "Running"}

Reasons == {"none", "Running", "JobSucceeded", "JobFailed",
            "SpecDriftDeferred", "SpecDriftReplaced", "ValidationFailed"}

\* StartTime and CompletionTime are copied from a Job, so the Job's uid stands
\* for them; 0 is the nil time.  The one condition is Ready: its reason and
\* the generation it was set for.
RunnerStatus ==
  [phase : RunnerPhases, resourceHash : Hashes \cup {NoHash},
   desiredSpecHash : Hashes \cup {NoHash}, observedGeneration : Nat,
   startTime : Nat, completionTime : Nat,
   reason : Reasons, reasonGeneration : Nat]

NoStatus ==
  [phase |-> "none", resourceHash |-> NoHash, desiredSpecHash |-> NoHash,
   observedGeneration |-> 0, startTime |-> 0, completionTime |-> 0,
   reason |-> "none", reasonGeneration |-> 0]

\* "deleting": DeletionTimestamp is set (foreground deletion); "gone": removed.
Runners ==
  [spec : Specs, generation : Nat, live : {"live", "deleting", "gone"},
   status : RunnerStatus]

\* A Job's StartTime is set in every stage after "pending"; its CompletionTime
\* is set only in "complete", as the Job controller does not set it on failure.
Jobs ==
  [stage : {"absent", "pending", "running", "complete", "failed"}, uid : Nat,
   spec : Specs, label : Hashes \cup {NoHash}, owned : BOOLEAN,
   terminating : BOOLEAN]

NoJob ==
  [stage |-> "absent", uid |-> 0, spec |-> CHOOSE s \in Specs : TRUE,
   label |-> NoHash, owned |-> FALSE, terminating |-> FALSE]

started(j) == j.stage \in {"running", "complete", "failed"}
completionTimeSet(j) == j.stage = "complete"

NoMetrics == [active |-> [p \in ActivePhases |-> 0], completed |-> 0]

Work ==
  [runner : Runners, base : RunnerStatus, hash : Hashes,
   then : {"return", "create", "delete"}]

TypeOK ==
  /\ runner \in Runners /\ runnerCache \in Runners
  /\ job \in Jobs /\ jobCache \in Jobs
  /\ secret \in Secrets
  /\ queued \in BOOLEAN
  /\ pc \in {"idle", "patch", "create", "delete"}
  /\ pc # "idle" => work \in Work
  /\ metrics \in [active : [ActivePhases -> Int], completed : Int]
  /\ created \in Nat
  /\ ended \subseteq Nat \X {"complete", "failed"}
  /\ faults \in Nat /\ undeleted \in BOOLEAN

Init ==
  /\ \E s \in Specs :
       runner = [spec |-> s, generation |-> 1, live |-> "live",
                 status |-> NoStatus]
  /\ runnerCache = runner
  /\ job = NoJob /\ jobCache = NoJob
  /\ secret \in Secrets
  /\ queued = TRUE /\ pc = "idle" /\ work = NoWork
  /\ metrics = NoMetrics
  /\ created = 0 /\ ended = {} /\ faults = 0 /\ undeleted = FALSE

-----------------------------------------------------------------------------
(* Status writes *)

setRunnerCondition(s, r, why) ==
  [s EXCEPT !.reason = why, !.reasonGeneration = r.generation]

merge(server, base, new) == IF new # base THEN new ELSE server

\* client.MergeFrom(base) sends the fields in which the object differs from
\* base; the API server overwrites those and keeps the others.
mergePatch(server, base, new) ==
  [phase |-> merge(server.phase, base.phase, new.phase),
   resourceHash |->
     merge(server.resourceHash, base.resourceHash, new.resourceHash),
   desiredSpecHash |->
     merge(server.desiredSpecHash, base.desiredSpecHash, new.desiredSpecHash),
   observedGeneration |->
     merge(server.observedGeneration, base.observedGeneration,
           new.observedGeneration),
   startTime |-> merge(server.startTime, base.startTime, new.startTime),
   completionTime |->
     merge(server.completionTime, base.completionTime, new.completionTime),
   reason |->
     IF <<new.reason, new.reasonGeneration>>
          # <<base.reason, base.reasonGeneration>>
       THEN new.reason ELSE server.reason,
   reasonGeneration |->
     IF <<new.reason, new.reasonGeneration>>
          # <<base.reason, base.reasonGeneration>>
       THEN new.reasonGeneration ELSE server.reasonGeneration]

-----------------------------------------------------------------------------
(* Metrics *)

clamp(n) ==
  IF n > MetricCap THEN MetricCap ELSE IF n < -MetricCap THEN -MetricCap ELSE n

\* Mutant: the series of the old phase is not decremented.
moveActiveAddsOnly(m, from, to) ==
  [m EXCEPT !.active =
     [p \in ActivePhases |-> clamp(@[p] + (IF to = p THEN 1 ELSE 0))]]

\* RunnerActiveCount moves from one phase's series to another's; phases that
\* are not active have no series.
moveActive(m, from, to) ==
  [m EXCEPT !.active =
     [p \in ActivePhases |-> clamp(@[p] + (IF to = p THEN 1 ELSE 0)
                                        - (IF from = p THEN 1 ELSE 0))]]

countCompleted(m, phase) ==
  IF phase \in TerminalPhases THEN [m EXCEPT !.completed = clamp(@ + 1)] ELSE m

-----------------------------------------------------------------------------
(* Faults: an API call that fails, or a restart *)

fault ==
  /\ faults < MaxFaults /\ faults' = faults + 1
  /\ undeleted' = (undeleted \/ pc = "delete")

-----------------------------------------------------------------------------
(* Reconcile, from its reads to its first API call *)

\* Dequeue the key.  All reads are of the caches.
startReconcile ==
  /\ pc = "idle" /\ queued
  /\ FreshCaches => runnerCache = runner /\ jobCache = job
  /\ queued' = FALSE
  /\ UNCHANGED <<apiVars, cacheVars, created, ended>>

returnNil == pc' = "idle" /\ work' = NoWork

\* Status().Patch of the cached Runner with status new against base.
callPatch(base, new, then) ==
  /\ pc' = "patch"
  /\ work' = [runner |-> [runnerCache EXCEPT !.status = new], base |-> base,
              hash |-> computeSpecHash[runnerCache.spec], then |-> then]

\* validateGitRepoSecret: a missing Secret is accepted, and a failed read of
\* the Secret counts as a validation failure.
secretValid ==
  secret # NoSecret => RequiredSecretKeys[runnerCache.spec] \subseteq secret

validateFails ==
  \/ ~secretValid /\ UNCHANGED faultVars
  \/ /\ RequiredSecretKeys[runnerCache.spec] # {}
     /\ fault

\* Mutant: the Secret is not looked at.
validateSkipped == UNCHANGED faultVars

validateSucceeds == secretValid /\ UNCHANGED faultVars

\* A read fails: the key is queued again.
ReconcileReadFails ==
  /\ pc = "idle" /\ queued
  /\ fault
  /\ UNCHANGED <<apiVars, cacheVars, procVars, created, ended>>

ReconcileNotFound ==
  /\ startReconcile
  /\ runnerCache.live = "gone"
  /\ returnNil /\ UNCHANGED <<metrics, faultVars>>

ReconcileDeleting ==
  /\ startReconcile
  /\ runnerCache.live = "deleting"
  /\ metrics' = moveActive(metrics, runnerCache.status.phase, "none")
  /\ returnNil /\ UNCHANGED faultVars

\* Mutant: the hash is not recorded.
pendingStatusUnhashed(s) ==
  [s EXCEPT !.phase = "Pending",
            !.observedGeneration = runnerCache.generation]

pendingStatus(s) ==
  [s EXCEPT !.phase = "Pending",
            !.resourceHash = computeSpecHash[runnerCache.spec],
            !.observedGeneration = runnerCache.generation]

\* No Job and an invalid Secret.  The condition is set before the base of the
\* patch is copied, so base already holds it.
ReconcileInvalid ==
  /\ startReconcile
  /\ runnerCache.live = "live" /\ jobCache.stage = "absent"
  /\ validateFails
  /\ LET base == setRunnerCondition(runnerCache.status, runnerCache,
                                    "ValidationFailed")
     IN  callPatch(base, pendingStatus(base), "return")
  /\ UNCHANGED metrics

\* No Job: record the hash and the Pending phase, then create the Job.
ReconcileCreate ==
  /\ startReconcile
  /\ runnerCache.live = "live" /\ jobCache.stage = "absent"
  /\ validateSucceeds
  /\ callPatch(runnerCache.status,
               [pendingStatus(runnerCache.status) EXCEPT
                  !.desiredSpecHash = NoHash],
               "create")
  /\ UNCHANGED metrics

\* Mutant: only a Runner without a hash counts as drifted.
specDriftUnhashed == runnerCache.status.resourceHash = NoHash

specDrift ==
  runnerCache.status.resourceHash # computeSpecHash[runnerCache.spec]

driftBranch ==
  /\ runnerCache.live = "live" /\ jobCache.stage # "absent"
  /\ specDrift \/ runnerCache.status.desiredSpecHash # NoHash

jobRunning == started(jobCache) /\ ~completionTimeSet(jobCache)

\* While the Job has a StartTime and no CompletionTime the drift is deferred;
\* a DesiredSpecHash without drift is otherwise cleared.  DesiredSpecHash is
\* changed before the base of the patch is copied, so the patch never holds it.
ReconcileDeferDrift ==
  /\ startReconcile
  /\ driftBranch /\ (specDrift => jobRunning)
  /\ LET desired == IF ~jobRunning THEN NoHash
                    ELSE IF specDrift THEN computeSpecHash[runnerCache.spec]
                    ELSE runnerCache.status.desiredSpecHash
         base == [runnerCache.status EXCEPT !.desiredSpecHash = desired]
     IN  callPatch(base,
                   IF jobRunning
                     THEN setRunnerCondition(base, runnerCache,
                                             "SpecDriftDeferred")
                     ELSE base,
                   "return")
  /\ UNCHANGED <<metrics, faultVars>>

\* The condition is set on the local copy only.
ReconcileDriftInvalid ==
  /\ startReconcile
  /\ driftBranch /\ ~jobRunning /\ specDrift
  /\ validateFails
  /\ returnNil /\ UNCHANGED metrics

\* Record the new hash, then delete the Job.
ReconcileReplace ==
  /\ startReconcile
  /\ driftBranch /\ ~jobRunning /\ specDrift
  /\ validateSucceeds
  /\ callPatch(runnerCache.status,
               setRunnerCondition(
                 [runnerCache.status EXCEPT
                    !.desiredSpecHash = NoHash,
                    !.resourceHash = computeSpecHash[runnerCache.spec]],
                 runnerCache, "SpecDriftReplaced"),
               "delete")
  /\ UNCHANGED metrics

\* Mutant: a Job that has not started has no phase of its own.
phaseOfJobUnknown(j) ==
  CASE j.stage = "complete" -> "Succeeded"
    [] j.stage = "failed"   -> "Failed"
    [] j.stage = "running"  -> "Running"
    [] OTHER                -> "Unknown"

\* Mutant: a Job that started and did not fail counts as a success.
phaseOfJobHopeful(j) ==
  IF j.stage = "failed" THEN "Failed"
  ELSE IF started(j) THEN "Succeeded" ELSE "Pending"

phaseOfJob(j) ==
  CASE j.stage = "complete" -> "Succeeded"
    [] j.stage = "failed"   -> "Failed"
    [] j.stage = "running"  -> "Running"
    [] OTHER                -> "Pending"

\* startTime is only taken from a Job that runs, completionTime only from one
\* that has ended.
jobStartTime == IF jobCache.stage = "running" THEN jobCache.uid ELSE 0
jobCompletionTime == IF completionTimeSet(jobCache) THEN jobCache.uid ELSE 0

\* Mutant: the phase is not compared.
statusTimesUpToDate ==
  /\ runnerCache.status.observedGeneration = runnerCache.generation
  /\ runnerCache.status.startTime = jobStartTime
  /\ runnerCache.status.completionTime = jobCompletionTime

statusUpToDate ==
  /\ runnerCache.status.phase = phaseOfJob(jobCache)
  /\ runnerCache.status.observedGeneration = runnerCache.generation
  /\ runnerCache.status.startTime = jobStartTime
  /\ runnerCache.status.completionTime = jobCompletionTime

statusFromJob ==
  LET phase == phaseOfJob(jobCache)
      s == [runnerCache.status EXCEPT
              !.phase = phase,
              !.observedGeneration = runnerCache.generation,
              !.startTime = IF jobStartTime # 0 THEN jobStartTime ELSE @,
              !.completionTime =
                IF jobCompletionTime # 0 THEN jobCompletionTime ELSE @]
  IN  CASE phase = "Succeeded" ->
             setRunnerCondition(s, runnerCache, "JobSucceeded")
        [] phase = "Failed" -> setRunnerCondition(s, runnerCache, "JobFailed")
        [] phase = "Running" -> setRunnerCondition(s, runnerCache, "Running")
        [] OTHER -> s

updateBranch ==
  /\ runnerCache.live = "live" /\ jobCache.stage # "absent"
  /\ ~specDrift /\ runnerCache.status.desiredSpecHash = NoHash

ReconcileUpToDate ==
  /\ startReconcile
  /\ updateBranch /\ statusUpToDate
  /\ returnNil /\ UNCHANGED <<metrics, faultVars>>

\* The metrics are updated before the patch is sent.
ReconcileUpdateStatus ==
  /\ startReconcile
  /\ updateBranch /\ ~statusUpToDate
  /\ LET old == runnerCache.status.phase
         new == phaseOfJob(jobCache)
     IN  metrics' = countCompleted(
                      IF old # new THEN moveActive(metrics, old, new)
                                   ELSE metrics, new)
  /\ callPatch(runnerCache.status, statusFromJob, "return")
  /\ UNCHANGED faultVars

Reconcile ==
  \/ ReconcileReadFails
  \/ ReconcileNotFound \/ ReconcileDeleting
  \/ ReconcileInvalid \/ ReconcileCreate
  \/ ReconcileDeferDrift \/ ReconcileDriftInvalid \/ ReconcileReplace
  \/ ReconcileUpToDate \/ ReconcileUpdateStatus

-----------------------------------------------------------------------------
(* Reconcile, one action per API call *)

\* Mutant: an error is logged and swallowed.
returnErrorSwallowed ==
  /\ pc' = "idle" /\ work' = NoWork
  /\ UNCHANGED <<apiVars, cacheVars, queued, metrics, created, ended>>

\* A call returns an error: Reconcile returns it and the key is queued again.
returnError ==
  /\ pc' = "idle" /\ work' = NoWork /\ queued' = TRUE
  /\ UNCHANGED <<apiVars, cacheVars, metrics, created, ended>>

\* After a patch the local object is the one the API server returned, its spec
\* included.
PatchStatus ==
  /\ pc = "patch" /\ runner.live # "gone"
  /\ LET patched == [runner EXCEPT !.status =
                       mergePatch(runner.status, work.base, work.runner.status)]
     IN  /\ runner' = patched
         /\ IF work.then = "return"
              THEN returnNil
              ELSE pc' = work.then /\ work' = [work EXCEPT !.runner = patched]
  /\ metrics' = IF work.then = "create"
                  THEN moveActive(metrics, "none", "Pending") ELSE metrics
  /\ UNCHANGED <<job, secret, cacheVars, queued, ghostVars>>

PatchStatusFails ==
  /\ pc = "patch"
  /\ \/ runner.live = "gone" /\ UNCHANGED faultVars
     \/ fault
  /\ returnError

\* Mutant: the owner reference is not set.
buildJobUnowned(r, specHash) ==
  [stage |-> "pending", uid |-> created + 1, spec |-> r.spec,
   label |-> specHash, owned |-> FALSE, terminating |-> FALSE]

buildJob(r, specHash) ==
  [stage |-> "pending", uid |-> created + 1, spec |-> r.spec,
   label |-> specHash, owned |-> TRUE, terminating |-> FALSE]

CreateJob ==
  /\ pc = "create" /\ job.stage = "absent" /\ created < MaxJobs
  /\ job' = buildJob(work.runner, work.hash)
  /\ created' = created + 1
  /\ returnNil
  /\ UNCHANGED <<runner, secret, cacheVars, queued, metrics, ended, faultVars>>

\* AlreadyExists is not an error.
CreateJobExists ==
  /\ pc = "create" /\ job.stage # "absent"
  /\ returnNil
  /\ UNCHANGED <<apiVars, cacheVars, queued, metrics, ghostVars>>

CreateJobFails == pc = "create" /\ fault /\ returnError

\* The Job is deleted by name, whichever Job has it by now.
DeleteJob ==
  /\ pc = "delete" /\ job.stage # "absent"
  /\ job' = [job EXCEPT !.terminating = TRUE]
  /\ returnNil
  /\ UNCHANGED <<runner, secret, cacheVars, queued, metrics, ghostVars>>

DeleteJobFails ==
  /\ pc = "delete"
  /\ \/ job.stage = "absent" /\ UNCHANGED faultVars
     \/ fault
  /\ returnError

Controller ==
  \/ Reconcile
  \/ PatchStatus \/ PatchStatusFails
  \/ CreateJob \/ CreateJobExists \/ CreateJobFails
  \/ DeleteJob \/ DeleteJobFails

-----------------------------------------------------------------------------
(* The environment *)

\* Watches For(Runner) and Owns(Job): a delivered change queues the key.
SyncRunner ==
  /\ runnerCache # runner
  /\ runnerCache' = runner /\ queued' = TRUE
  /\ UNCHANGED <<apiVars, jobCache, pc, work, metrics, ghostVars>>

SyncJob ==
  /\ jobCache # job
  /\ jobCache' = job
  /\ queued' = (queued \/ job.owned \/ jobCache.owned)
  /\ UNCHANGED <<apiVars, runnerCache, pc, work, metrics, ghostVars>>

JobStart ==
  /\ job.stage = "pending" /\ ~job.terminating
  /\ job' = [job EXCEPT !.stage = "running"]
  /\ UNCHANGED <<runner, secret, cacheVars, procVars, ghostVars>>

JobEnd ==
  /\ job.stage = "running"
  /\ \E outcome \in JobOutcomes :
       /\ job' = [job EXCEPT !.stage = outcome]
       /\ ended' = ended \cup {<<job.uid, outcome>>}
  /\ UNCHANGED <<runner, secret, cacheVars, procVars, created, faultVars>>

\* An absent Job keeps the uid and the owner of the one that went, so that its
\* removal is a change the informer delivers.  A deleted Job goes once its
\* finalizers have run; the garbage collector removes an owned Job whose owner
\* is being deleted or gone.
JobRemoved ==
  /\ job.stage # "absent"
  /\ job.terminating \/ (job.owned /\ runner.live # "live")
  /\ job' = [NoJob EXCEPT !.uid = job.uid, !.owned = job.owned]
  /\ UNCHANGED <<runner, secret, cacheVars, procVars, ghostVars>>

UserDeletesJob ==
  /\ job.stage # "absent" /\ ~job.terminating /\ job.uid \in DeletableJobs
  /\ job' = [job EXCEPT !.terminating = TRUE]
  /\ UNCHANGED <<runner, secret, cacheVars, procVars, ghostVars>>

UserUpdatesSpec ==
  /\ runner.live = "live" /\ runner.generation < MaxGeneration
  /\ \E s \in Specs \ {runner.spec} :
       runner' = [runner EXCEPT !.spec = s, !.generation = @ + 1]
  /\ UNCHANGED <<job, secret, cacheVars, procVars, ghostVars>>

\* Background deletion removes the Runner at once; foreground deletion marks
\* it and removes it when its dependents are gone.
UserDeletesRunner ==
  /\ RunnerDeletable /\ runner.live = "live"
  /\ \E l \in {"deleting", "gone"} : runner' = [runner EXCEPT !.live = l]
  /\ UNCHANGED <<job, secret, cacheVars, procVars, ghostVars>>

RunnerRemoved ==
  /\ runner.live = "deleting" /\ job.stage = "absent"
  /\ runner' = [runner EXCEPT !.live = "gone"]
  /\ UNCHANGED <<job, secret, cacheVars, procVars, ghostVars>>

SecretChanges ==
  /\ MutableSecret /\ secret' \in Secrets \ {secret}
  /\ UNCHANGED <<runner, job, cacheVars, procVars, ghostVars>>

\* The operator restarts: its memory is lost, the caches are listed afresh and
\* every object is queued.
Crash ==
  /\ fault
  /\ runnerCache' = runner /\ jobCache' = job
  /\ queued' = TRUE /\ pc' = "idle" /\ work' = NoWork
  /\ metrics' = NoMetrics
  /\ UNCHANGED <<apiVars, created, ended>>

JobController == JobStart \/ JobEnd \/ JobRemoved

Next ==
  \/ Controller
  \/ SyncRunner \/ SyncJob
  \/ JobController
  \/ UserDeletesJob \/ UserUpdatesSpec \/ UserDeletesRunner \/ RunnerRemoved
  \/ SecretChanges \/ Crash

Spec == Init /\ [][Next]_vars

\* The work queue and the client make every pending call return; informers
\* deliver every change; Jobs run to an end and deleted objects go away.
\* Users, API errors and crashes owe nothing.
Fairness ==
  /\ WF_vars(Controller)
  /\ WF_vars(SyncRunner) /\ WF_vars(SyncJob)
  /\ WF_vars(JobStart) /\ WF_vars(JobEnd) /\ WF_vars(JobRemoved)
  /\ WF_vars(RunnerRemoved)

FairSpec == Spec /\ Fairness

-----------------------------------------------------------------------------
(* Properties *)

\* A Runner says Succeeded (Failed) only if a Job of this Runner really
\* completed (failed), whatever caches, retries, restarts and spec changes did
\* in between: updateStatusFromJob is the only source of terminal phases.
OutcomeIsReal ==
  /\ runner.status.phase = "Succeeded" => \E e \in ended : e[2] = "complete"
  /\ runner.status.phase = "Failed" => \E e \in ended : e[2] = "failed"

\* Reconcile records the hash of a spec before it creates the Job, so a Job
\* never exists beside a Runner without a ResourceHash, in which the next
\* reconcile would see drift.
HashBeforeJob == job.stage # "absent" => runner.status.resourceHash # NoHash

drifted(r) ==
  \/ r.status.resourceHash # computeSpecHash[r.spec]
  \/ r.status.desiredSpecHash # NoHash

\* The status of the Runner shows what the Job does; or a drift is deferred,
\* which Reconcile does while the Job has a StartTime and no CompletionTime; or
\* the Runner needs a Secret and failed validation.
handled(r, j) ==
  r.live = "live" =>
    IF j.stage # "absent" /\ ~drifted(r)
      THEN r.status.phase = phaseOfJob(j)
      ELSE \/ j.stage \in {"running", "failed"} /\ r.status.reason = "SpecDriftDeferred"
           \/ /\ RequiredSecretKeys[r.spec] # {}
              /\ j.stage = "absent" => r.status.observedGeneration = r.generation

\* Nothing is left to do for the operator: no reconcile runs or is queued and
\* the caches hold what the API server holds.
Quiescent ==
  pc = "idle" /\ ~queued /\ runnerCache = runner /\ jobCache = job

\* No wake-up is lost: when the operator has nothing left to do, a live Runner
\* is handled, although most reconciles end without asking for another one and
\* rely on the change they made to come back through a watch.
SettledMeansHandled == Quiescent => handled(runner, job)

\* validateGitRepoSecret "checks that the Git auth Secret exists and contains
\* all required keys before a Job is created": as long as the Secret stays as
\* it is, no Job needs a key it lacks.  The one exception are Jobs built from a
\* spec that replaced the validated one between validation and buildJob; their
\* label is the hash of the validated spec.
ValidatedBeforeJob ==
  \A keys \in Secrets \ {NoSecret} :
    [](secret = keys) =>
      [](job.stage # "absent" /\ job.label = computeSpecHash[job.spec] =>
           RequiredSecretKeys[job.spec] \subseteq keys)

\* "Every Runner must map to exactly one Job. No duplicates.": when reconciles
\* start from caught-up caches and no user deletes a Job, a Job is created at
\* most once for every spec generation, whatever calls fail.
OneJobPerGeneration ==
  FreshCaches /\ DeletableJobs = {} => created <= runner.generation

\* While the spec does not change, a terminal phase is final: no failed call,
\* restart or change of the Secret reopens the Runner, when reconciles start
\* from caught-up caches and no user deletes a Job.
TerminalIsFinal ==
  [][/\ FreshCaches /\ DeletableJobs = {}
     /\ runner.status.phase \in TerminalPhases /\ runner.generation = 1
     => runner'.status.phase = runner.status.phase]_vars

\* The Job of a Runner whose spec does not change any more is eventually, and
\* then for ever, one that runs that spec.
SpecEventuallyRuns ==
  <>[](runner.live = "live" => job.stage # "absent" /\ job.spec = runner.spec)

\* A drift is resolved, whenever it comes and whatever calls fail, unless a Job
\* failed, which Reconcile takes for a running one, or a fault came between the
\* patch that records the new hash and the Delete of the old Job.
DriftConverges ==
  [](~undeleted /\ job.stage # "failed") => SpecEventuallyRuns

\* A live Runner whose spec does not change eventually has a terminal phase,
\* for good.
OutcomeReported ==
  [](runner.generation = 1) =>
    <>[](runner.live = "live" => runner.status.phase \in TerminalPhases)

\* Once a Runner is deleted no Job is left behind for good, one created by a
\* reconcile that was under way included.
NothingLeftBehind == <>[](runner.live # "live" => job.stage = "absent")

\* The metrics follow the status of a live Runner whose spec was not changed, as
\* long as no call failed, the operator did not restart and no user deleted the
\* Job: RunnerActiveCount counts the Runner once in the series of its phase and
\* not in any other, and RunnerJobCompletedTotal counts its end once.  One
\* exception: the status of a Runner that was seen to run keeps a StartTime that
\* the ended Job no longer yields, so it is never up to date, and each further
\* reconcile counts the end again.
MetricsFollowStatus ==
  /\ Quiescent /\ FreshCaches /\ DeletableJobs = {} /\ faults = 0
  /\ runner.live = "live" /\ runner.generation = 1 /\ job.stage # "absent"
  => LET ends == IF runner.status.phase \in TerminalPhases THEN 1 ELSE 0
     IN  /\ \A p \in ActivePhases :
              metrics.active[p] = clamp(IF runner.status.phase = p THEN 1 ELSE 0)
         /\ \/ metrics.completed = clamp(ends)
            \/ ends = 1 /\ runner.status.startTime # 0 /\ metrics.completed > clamp(ends)
=============================================================================
