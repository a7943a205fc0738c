--------------------------- MODULE NamespaceQuota ---------------------------
(***************************************************************************)
(* The namespace quota of the Workflow controller (checkNamespaceQuota in  *)
(* internal/controller/workflow_controller.go) over all the workflows of   *)
(* one namespace.                                                          *)
(*                                                                         *)
(* The quota is checked in every reconcile of a workflow that has no       *)
(* StartTime, against the cached list of Workflows.  Runners are created   *)
(* after the check and StartTime is patched after that, so one worker may  *)
(* fail, or the operator restart, between any two of the three.  What a    *)
(* workflow does with its Runners is FlatWorkflow's and JobWorkflow's      *)
(* subject; here its Runners are none, active or ended.                    *)
(***************************************************************************)
EXTENDS Integers, FiniteSets

CONSTANTS
  Workflows,    \* names of workflows
  Mixes,        \* the mixes of workflows to consider
  Limit,        \* the annotation max-concurrent-workflows; 0 is unlimited
  NoWork,       \* no reconcile in progress
  MaxFaults     \* bound on failed API calls and operator restarts

\* The workflows users create, and among them: those that the cycle or the
\* no-steps check rejects, those whose Runners never come to an end, those with
\* a timeout, those a user may delete Runners of after their end, and those a
\* user may delete.
NamespaceMixes ==
  [created : SUBSET Workflows, rejected : SUBSET Workflows, stuck : SUBSET Workflows,
   timed : SUBSET Workflows, reopenable : SUBSET Workflows, deletable : SUBSET Workflows]

ASSUME QuotaAssumption ==
  /\ IsFiniteSet(Workflows)
  /\ Mixes \subseteq NamespaceMixes
  /\ Limit \in Nat /\ MaxFaults \in Nat

VARIABLES
  mix,       \* the workflows of the namespace
  wfs,       \* the Workflows in the API server
  cache,     \* the Workflows as the informer last delivered them
  runs,      \* the Runners of every workflow
  overdue,   \* the workflows that are past the timeout, by their StartTime
  queue,     \* keys in the work queue
  timers,    \* keys a RequeueAfter of 30 seconds is pending for
  work,      \* the reconcile in progress
  bypassed,  \* history: workflows let through by a check that failed
  reopened,  \* history: workflows that got a Runner after their end
  faults

apiVars == <<mix, wfs, runs>>
ghostVars == <<bypassed, reopened, faults>>
vars == <<apiVars, overdue, cache, queue, timers, work, ghostVars>>

\* "Running" stands for every phase that isWorkflowTerminal refuses, "Ended"
\* for the two it accepts.
Status ==
  [there : {"no", "yes", "gone"}, started : BOOLEAN,
   phase : {"Running", "Ended"}, reason : {"none", "Rejected", "QuotaExceeded"}]

NoStatus ==
  [there |-> "no", started |-> FALSE, phase |-> "Running", reason |-> "none"]

Work == [wf : Workflows, base : Status, new : Status, requeueAfter : BOOLEAN]

ASSUME NoWorkAssumption == NoWork \notin Work

TypeOK ==
  /\ mix \in Mixes
  /\ wfs \in [Workflows -> Status] /\ cache \in [Workflows -> Status]
  /\ runs \in [Workflows -> {"none", "active", "ended"}]
  /\ overdue \subseteq Workflows /\ queue \subseteq Workflows /\ timers \subseteq Workflows
  /\ work # NoWork => work \in Work
  /\ bypassed \subseteq Workflows /\ reopened \subseteq Workflows
  /\ faults \in Nat

Init ==
  /\ mix \in Mixes
  /\ wfs = [w \in Workflows |-> NoStatus] /\ cache = wfs
  /\ runs = [w \in Workflows |-> "none"]
  /\ overdue = {} /\ queue = {} /\ timers = {} /\ work = NoWork
  /\ bypassed = {} /\ reopened = {} /\ faults = 0

fault == faults < MaxFaults /\ faults' = faults + 1

-----------------------------------------------------------------------------
(* Reconcile *)

isWorkflowTerminal(s) == s.phase = "Ended"

\* Mutant: only workflows that have started count.
activeStarted ==
  {w \in Workflows : /\ cache[w].there = "yes" /\ cache[w].started
                     /\ ~isWorkflowTerminal(cache[w])}

\* The workflows the quota counts: all that have not ended, the one that asks,
\* those that still wait and those that were rejected included.
active == {w \in Workflows : cache[w].there = "yes" /\ ~isWorkflowTerminal(cache[w])}

checkNamespaceQuota == Limit = 0 \/ Cardinality(active) < Limit

startReconcile(w) ==
  /\ work = NoWork /\ w \in queue
  /\ queue' = queue \ {w}
  /\ UNCHANGED <<mix, wfs, overdue, cache, timers>>

callPatch(w, new, requeueAfter) ==
  work' = [wf |-> w, base |-> cache[w], new |-> new, requeueAfter |-> requeueAfter]

ReconcileNotFound(w) ==
  /\ startReconcile(w) /\ cache[w].there # "yes"
  /\ UNCHANGED <<runs, work, ghostVars>>

ReconcileRejected(w) ==
  /\ startReconcile(w) /\ cache[w].there = "yes" /\ w \in mix.rejected
  /\ callPatch(w, [cache[w] EXCEPT !.reason = "Rejected"], FALSE)
  /\ UNCHANGED <<runs, ghostVars>>

timedOut(w) == w \in overdue /\ cache[w].started /\ ~isWorkflowTerminal(cache[w])

\* Every step fails, and the workflow; its Runners go on.
ReconcileTimeout(w) ==
  /\ startReconcile(w) /\ cache[w].there = "yes" /\ w \notin mix.rejected /\ timedOut(w)
  /\ callPatch(w, [cache[w] EXCEPT !.phase = "Ended"], FALSE)
  /\ UNCHANGED <<runs, ghostVars>>

\* Mutant: a deferred workflow is not queued again.
ReconcileDeferredForGood(w) ==
  /\ startReconcile(w) /\ cache[w].there = "yes" /\ w \notin mix.rejected
  /\ ~cache[w].started /\ ~checkNamespaceQuota
  /\ callPatch(w, [cache[w] EXCEPT !.reason = "QuotaExceeded"], FALSE)
  /\ UNCHANGED <<runs, ghostVars>>

\* The quota is exhausted: come back in 30 seconds.
ReconcileDeferred(w) ==
  /\ startReconcile(w) /\ cache[w].there = "yes" /\ w \notin mix.rejected
  /\ ~cache[w].started /\ ~checkNamespaceQuota
  /\ callPatch(w, [cache[w] EXCEPT !.reason = "QuotaExceeded"], TRUE)
  /\ UNCHANGED <<runs, ghostVars>>

\* A step that is done and has a Runner is left alone, whatever the Runner does.
phaseFromRunners(w) ==
  IF runs[w] = "ended" \/ (runs[w] = "active" /\ isWorkflowTerminal(cache[w]))
    THEN "Ended" ELSE "Running"

\* The walk over the steps: Runners that are missing are created, and the phase
\* follows from the Runners.  StartTime is set if it is not.
walk(w) ==
  /\ startReconcile(w) /\ cache[w].there = "yes" /\ w \notin mix.rejected /\ ~timedOut(w)
  /\ runs' = [runs EXCEPT ![w] = IF @ = "none" THEN "active" ELSE @]
  /\ LET new == [cache[w] EXCEPT !.started = TRUE, !.phase = phaseFromRunners(w)]
     IN  IF new = cache[w] THEN UNCHANGED work ELSE callPatch(w, new, FALSE)
  /\ UNCHANGED reopened

\* The workflow has started before, or the quota allows it to.
ReconcileAdmitted(w) ==
  /\ walk(w)
  /\ cache[w].started \/ checkNamespaceQuota
  /\ UNCHANGED <<bypassed, faults>>

\* The read of the namespace or the list of its workflows fails: the error is
\* logged and the workflow starts.
ReconcileUnchecked(w) ==
  /\ walk(w)
  /\ ~cache[w].started /\ fault
  /\ bypassed' = bypassed \cup {w}

\* A step that had no Runner at the timeout may still run, or the pass read a
\* StartTime that was stored later: the workflow goes on.
ReconcileReopens(w) ==
  /\ startReconcile(w) /\ cache[w].there = "yes" /\ w \notin mix.rejected
  /\ isWorkflowTerminal(cache[w]) /\ w \in overdue /\ runs[w] = "active"
  /\ w \notin reopened /\ reopened' = reopened \cup {w}
  /\ callPatch(w, [cache[w] EXCEPT !.phase = "Running"], FALSE)
  /\ UNCHANGED <<runs, bypassed, faults>>

merge(server, base, new) == IF new # base THEN new ELSE server

mergePatch(server, base, new) ==
  [there |-> server.there,
   started |-> merge(server.started, base.started, new.started),
   phase |-> merge(server.phase, base.phase, new.phase),
   reason |-> merge(server.reason, base.reason, new.reason)]

\* A StartTime that is stored, or stored again by a pass that had not seen it,
\* is the present time.
PatchStatus ==
  /\ work # NoWork /\ wfs[work.wf].there = "yes"
  /\ wfs' = [wfs EXCEPT ![work.wf] = mergePatch(@, work.base, work.new)]
  /\ overdue' = IF work.new.started = work.base.started
                  THEN overdue ELSE overdue \ {work.wf}
  /\ timers' = IF work.requeueAfter THEN timers \cup {work.wf} ELSE timers
  /\ work' = NoWork
  /\ UNCHANGED <<mix, runs, cache, queue, ghostVars>>

\* Mutant: the error of the patch is not returned.
PatchStatusFailsSwallowed ==
  /\ work # NoWork
  /\ \/ wfs[work.wf].there # "yes" /\ UNCHANGED faults
     \/ fault
  /\ work' = NoWork
  /\ UNCHANGED <<apiVars, overdue, cache, queue, timers, bypassed, reopened>>

PatchStatusFails ==
  /\ work # NoWork
  /\ \/ wfs[work.wf].there # "yes" /\ UNCHANGED faults
     \/ fault
  /\ queue' = queue \cup {work.wf} /\ work' = NoWork
  /\ UNCHANGED <<apiVars, overdue, cache, timers, bypassed, reopened>>

Reconcile ==
  \/ \E w \in Workflows :
       \/ ReconcileNotFound(w) \/ ReconcileRejected(w) \/ ReconcileTimeout(w)
       \/ ReconcileDeferred(w) \/ ReconcileAdmitted(w) \/ ReconcileUnchecked(w)
       \/ ReconcileReopens(w)
  \/ PatchStatus \/ PatchStatusFails

-----------------------------------------------------------------------------
(* The environment *)

UserCreates(w) ==
  /\ w \in mix.created /\ wfs[w].there = "no"
  /\ wfs' = [wfs EXCEPT ![w].there = "yes"]
  /\ UNCHANGED <<mix, runs, overdue, cache, queue, timers, work, ghostVars>>

\* The garbage collector takes the Runners with the Workflow.
UserDeletes(w) ==
  /\ w \in mix.deletable /\ wfs[w].there = "yes"
  /\ wfs' = [wfs EXCEPT ![w].there = "gone"]
  /\ runs' = [runs EXCEPT ![w] = "none"]
  /\ UNCHANGED <<mix, overdue, cache, queue, timers, work, ghostVars>>

\* The informer delivers w, and the watch queues it.
Sync(w) ==
  /\ cache[w] # wfs[w]
  /\ cache' = [cache EXCEPT ![w] = wfs[w]]
  /\ queue' = queue \cup {w}
  /\ UNCHANGED <<apiVars, overdue, timers, work, ghostVars>>

TimerFires(w) ==
  /\ w \in timers
  /\ timers' = timers \ {w} /\ queue' = queue \cup {w}
  /\ UNCHANGED <<apiVars, overdue, cache, work, ghostVars>>

\* The timeout elapses; the reconcile that was requested for it may be missing.
DeadlinePasses(w) ==
  /\ w \in mix.timed \ overdue /\ wfs[w].started /\ ~isWorkflowTerminal(wfs[w])
  /\ overdue' = overdue \cup {w}
  /\ queue' \in {queue, queue \cup {w}}
  /\ UNCHANGED <<apiVars, cache, timers, work, ghostVars>>

\* All Runners of w are through, and the watch on Runners queues it.
RunEnds(w) ==
  /\ runs[w] = "active" /\ wfs[w].there = "yes" /\ w \notin mix.stuck
  /\ runs' = [runs EXCEPT ![w] = "ended"]
  /\ queue' = queue \cup {w}
  /\ UNCHANGED <<mix, wfs, overdue, cache, timers, work, ghostVars>>

\* A user deletes a Runner of a workflow that has ended; the next pass creates
\* it again and reopens the workflow.
UserReopens(w) ==
  /\ w \in mix.reopenable /\ wfs[w].there = "yes" /\ isWorkflowTerminal(wfs[w])
  /\ runs[w] = "ended" /\ w \notin reopened
  /\ runs' = [runs EXCEPT ![w] = "none"]
  /\ reopened' = reopened \cup {w}
  /\ queue' = queue \cup {w}
  /\ UNCHANGED <<mix, wfs, overdue, cache, timers, work, bypassed, faults>>

\* A restart loses the queue, the timers and the reconcile in progress, and
\* lists every Workflow.
Crash ==
  /\ fault
  /\ cache' = wfs /\ work' = NoWork /\ timers' = {}
  /\ queue' = {w \in Workflows : wfs[w].there = "yes"}
  /\ UNCHANGED <<apiVars, overdue, bypassed, reopened>>

Next ==
  \/ Reconcile
  \/ \E w \in Workflows :
       \/ UserCreates(w) \/ UserDeletes(w) \/ Sync(w) \/ TimerFires(w)
       \/ DeadlinePasses(w) \/ RunEnds(w) \/ UserReopens(w)
  \/ Crash

Spec == Init /\ [][Next]_vars

\* The queue is served in order, so every key in it gets its turn however often
\* the others come back (SF); informers deliver, timers fire and Runners end.
Fairness ==
  /\ \A w \in Workflows :
       /\ SF_vars(ReconcileNotFound(w) \/ ReconcileRejected(w) \/ ReconcileTimeout(w)
                  \/ ReconcileDeferred(w) \/ ReconcileAdmitted(w))
       /\ WF_vars(Sync(w)) /\ WF_vars(TimerFires(w)) /\ WF_vars(RunEnds(w))
  /\ WF_vars(PatchStatus \/ PatchStatusFails)

FairSpec == Spec /\ Fairness

-----------------------------------------------------------------------------
(* Properties *)

\* The workflows that have Runners and have not ended.
running ==
  {w \in Workflows : /\ wfs[w].there = "yes" /\ ~isWorkflowTerminal(wfs[w])
                     /\ runs[w] # "none"}

\* "Limits concurrent Workflows in a namespace": whatever the caches, failed
\* patches and restarts do, no more than Limit workflows run at once, but for the
\* ones a failed check let through and the ones that were reopened.
QuotaRespected ==
  Limit # 0 => Cardinality(running \ (bypassed \cup reopened)) <= Limit

\* A workflow that waits for the quota asks again: its retries every 30 seconds
\* are lost to no failed patch, lagging cache or restart.
WaitingIsRetried ==
  \A w \in Workflows \ mix.rejected :
    wfs[w].there = "yes" /\ ~wfs[w].started =>
      \/ w \in queue \cup timers \/ cache[w] # wfs[w]
      \/ work # NoWork /\ work.wf = w

\* A workflow whose Runners have ended is reported as ended, unless it lost its
\* StartTime to a failed patch and is now waiting for the quota.
EndIsReported ==
  <>[](\A w \in Workflows :
         wfs[w].there = "yes" /\ runs[w] = "ended" =>
           isWorkflowTerminal(wfs[w]) \/ ~wfs[w].started)
=============================================================================
