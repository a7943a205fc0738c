------------------------ MODULE NamespaceQuotaProofs ------------------------
(* Proofs about NamespaceQuota for every value of its constants. *)
EXTENDS NamespaceQuota, FiniteSetTheorems, TLAPS

-----------------------------------------------------------------------------
(* Inductive invariant *)

\* A StartTime, once stored, stays, a workflow that ended has one, and a patch of
\* a workflow that was not rejected stores one or comes with a retry.
StartInv ==
  /\ \A w \in Workflows :
       /\ cache[w].there # "no" => wfs[w].there # "no"
       /\ cache[w].started => wfs[w].started
       /\ isWorkflowTerminal(wfs[w]) => wfs[w].started
       /\ isWorkflowTerminal(cache[w]) => cache[w].started
  /\ work # NoWork =>
       /\ work.base.started => work.new.started /\ wfs[work.wf].started
       /\ isWorkflowTerminal(work.new) => work.new.started
       /\ work.wf \in mix.rejected \/ work.requeueAfter \/ work.new.started

\* Workflows of which nothing is claimed below.
exempt(w) == w \in reopened \/ wfs[w].there = "gone"

\* The Runners of w have ended, or w is past its timeout and the informer has
\* delivered the StartTime.
endDue(w) == runs[w] = "ended" \/ (w \in overdue /\ cache[w].started)

\* A workflow with Runners is in the cache, where it has not ended before it has
\* in the API server, and a workflow shown as started has Runners.
workflowInv(w) ==
  /\ cache[w].there = "gone" => wfs[w].there = "gone"
  /\ runs[w] # "none" => cache[w].there # "no"
  /\ isWorkflowTerminal(cache[w]) => isWorkflowTerminal(wfs[w]) \/ exempt(w)
  /\ isWorkflowTerminal(wfs[w]) => endDue(w) \/ exempt(w)
  /\ wfs[w].started => runs[w] # "none" \/ exempt(w)

\* A patch under way starts only a workflow with Runners, and changes the phase
\* only of one whose end is due; if it stores a StartTime, the timeout, which it
\* puts off, has not ended the workflow.
patchInv ==
  work # NoWork =>
    \/ exempt(work.wf)
    \/ /\ work.new.started => runs[work.wf] # "none"
       /\ work.new.phase # work.base.phase =>
            work.new.phase = "Ended" /\ endDue(work.wf)
       /\ work.new.started # work.base.started =>
            \/ runs[work.wf] = "ended"
            \/ ~isWorkflowTerminal(wfs[work.wf]) /\ work.new.phase = work.base.phase

\* The workflows that run, without the ones QuotaRespected excepts.
counted == running \ (bypassed \cup reopened)

\* As the workflow that asks counts itself, the limit is never reached.
belowLimit == Limit # 0 => Cardinality(counted) < Limit

\* What makes QuotaRespected inductive: the check sees every workflow that runs,
\* and passing it is the only way into the set of running ones.
QuotaInv ==
  (\A w \in Workflows : workflowInv(w)) /\ patchInv /\ belowLimit

-----------------------------------------------------------------------------
(* Type correctness *)

\* A merge patch of statuses yields a status of the object that is there.
LEMMA MergeType ==
  ASSUME NEW s \in Status, NEW b \in Status, NEW n \in Status
  PROVE  /\ mergePatch(s, b, n) \in Status
         /\ mergePatch(s, b, n).there = s.there
         /\ mergePatch(s, b, n).started = IF n.started # b.started THEN n.started ELSE s.started
         /\ mergePatch(s, b, n).phase = IF n.phase # b.phase THEN n.phase ELSE s.phase
BY DEF mergePatch, merge, Status

\* A patch of the cached workflow w keeps work well typed.
LEMMA CallType ==
  ASSUME TypeOK, NEW w \in Workflows, NEW n \in Status, NEW r \in BOOLEAN,
         callPatch(w, n, r)
  PROVE  /\ work' \in Work
         /\ work'.wf = w /\ work'.base = cache[w] /\ work'.new = n
         /\ work'.requeueAfter = r
BY DEF callPatch, TypeOK, Work

\* The patches a reconcile prepares are statuses.
LEMMA NewStatus ==
  ASSUME TypeOK, NEW w \in Workflows
  PROVE  /\ \A r \in {"Rejected", "QuotaExceeded"} :
              /\ [cache[w] EXCEPT !.reason = r] \in Status
              /\ [cache[w] EXCEPT !.reason = r].phase = cache[w].phase
              /\ [cache[w] EXCEPT !.reason = r].started = cache[w].started
         /\ \A p \in {"Running", "Ended"} :
              /\ [cache[w] EXCEPT !.phase = p] \in Status
              /\ [cache[w] EXCEPT !.phase = p].phase = p
              /\ [cache[w] EXCEPT !.phase = p].started = cache[w].started
              /\ [cache[w] EXCEPT !.started = TRUE, !.phase = p] \in Status
              /\ [cache[w] EXCEPT !.started = TRUE, !.phase = p].phase = p
              /\ [cache[w] EXCEPT !.started = TRUE, !.phase = p].started
BY DEF TypeOK, Status

\* A pass of w that does not walk over the steps.
quietPass(w) ==
  \/ ReconcileNotFound(w) \/ ReconcileRejected(w) \/ ReconcileTimeout(w)
  \/ ReconcileDeferred(w) \/ ReconcileReopens(w)

\* It changes no Runners, and a patch it prepares keeps the StartTime.
LEMMA QuietEffect ==
  ASSUME TypeOK, NEW w \in Workflows, quietPass(w)
  PROVE  /\ work = NoWork /\ queue' = queue \ {w}
         /\ UNCHANGED <<mix, wfs, cache, runs, overdue, timers, bypassed>>
         /\ \/ work' = work /\ cache[w].there # "yes" /\ UNCHANGED <<reopened, faults>>
            \/ /\ work' \in Work /\ work'.wf = w /\ work'.base = cache[w]
               /\ work'.new.started = cache[w].started
               /\ \/ /\ w \in mix.rejected \/ work'.requeueAfter
                     /\ work'.new.phase = cache[w].phase /\ UNCHANGED <<reopened, faults>>
                  \/ /\ timedOut(w) /\ work'.new.phase = "Ended"
                     /\ UNCHANGED <<reopened, faults>>
                  \/ /\ isWorkflowTerminal(cache[w]) /\ work'.new.phase = "Running"
                     /\ reopened' = reopened \cup {w} /\ UNCHANGED faults
<1>1. CASE ReconcileNotFound(w)
  BY Zenon, <1>1 DEF ReconcileNotFound, startReconcile, ghostVars
<1>2. CASE ReconcileRejected(w)
  <2> DEFINE n == [cache[w] EXCEPT !.reason = "Rejected"]
  <2>1. n \in Status /\ n.phase = cache[w].phase /\ n.started = cache[w].started
    BY NewStatus
  <2>2. callPatch(w, n, FALSE)
    BY Zenon, <1>2 DEF ReconcileRejected
  <2> HIDE DEF n
  <2>3. /\ work' \in Work /\ work'.wf = w /\ work'.base = cache[w] /\ work'.new = n
        /\ work'.requeueAfter = FALSE
    BY Zenon, <2>1, <2>2, CallType
  <2> QED BY Zenon, <1>2, <2>1, <2>3 DEF ReconcileRejected, startReconcile, ghostVars
<1>3. CASE ReconcileTimeout(w)
  <2> DEFINE n == [cache[w] EXCEPT !.phase = "Ended"]
  <2>1. n \in Status /\ n.phase = "Ended" /\ n.started = cache[w].started
    BY NewStatus
  <2>2. callPatch(w, n, FALSE)
    BY Zenon, <1>3 DEF ReconcileTimeout
  <2> HIDE DEF n
  <2>3. /\ work' \in Work /\ work'.wf = w /\ work'.base = cache[w] /\ work'.new = n
        /\ work'.requeueAfter = FALSE
    BY Zenon, <2>1, <2>2, CallType
  <2> QED BY Zenon, <1>3, <2>1, <2>3 DEF ReconcileTimeout, startReconcile, ghostVars
<1>4. CASE ReconcileDeferred(w)
  <2> DEFINE n == [cache[w] EXCEPT !.reason = "QuotaExceeded"]
  <2>1. n \in Status /\ n.phase = cache[w].phase /\ n.started = cache[w].started
    BY NewStatus
  <2>2. callPatch(w, n, TRUE)
    BY Zenon, <1>4 DEF ReconcileDeferred
  <2> HIDE DEF n
  <2>3. /\ work' \in Work /\ work'.wf = w /\ work'.base = cache[w] /\ work'.new = n
        /\ work'.requeueAfter = TRUE
    BY Zenon, <2>1, <2>2, CallType
  <2> QED BY Zenon, <1>4, <2>1, <2>3 DEF ReconcileDeferred, startReconcile, ghostVars
<1>5. CASE ReconcileReopens(w)
  <2> DEFINE n == [cache[w] EXCEPT !.phase = "Running"]
  <2>1. n \in Status /\ n.phase = "Running" /\ n.started = cache[w].started
    BY NewStatus
  <2>2. callPatch(w, n, FALSE)
    BY Zenon, <1>5 DEF ReconcileReopens
  <2> HIDE DEF n
  <2>3. work' \in Work /\ work'.wf = w /\ work'.base = cache[w] /\ work'.new = n
    BY Zenon, <2>1, <2>2, CallType
  <2> QED BY Zenon, <1>5, <2>1, <2>3 DEF ReconcileReopens, startReconcile
<1> QED BY Zenon, <1>1, <1>2, <1>3, <1>4, <1>5 DEF quietPass

\* The walk of w leaves w's Runners created and, if it sends a patch, one that
\* says started and has the phase of the Runners.
LEMMA WalkEffect ==
  ASSUME TypeOK, NEW w \in Workflows, walk(w)
  PROVE  /\ work = NoWork /\ queue' = queue \ {w}
         /\ cache[w].there = "yes"
         /\ UNCHANGED <<mix, wfs, cache, overdue, timers, reopened>>
         /\ runs' = [runs EXCEPT ![w] = IF runs[w] = "none" THEN "active" ELSE runs[w]]
         /\ runs' \in [Workflows -> {"none", "active", "ended"}]
         /\ \/ work' = work /\ cache[w].started
            \/ /\ work' \in Work
               /\ work'.wf = w /\ work'.base = cache[w]
               /\ work'.new.started /\ work'.new.phase = phaseFromRunners(w)
<1> DEFINE new == [cache[w] EXCEPT !.started = TRUE, !.phase = phaseFromRunners(w)]
<1>1. new \in Status /\ new.phase = phaseFromRunners(w) /\ new.started
  BY Zenon, NewStatus DEF phaseFromRunners
<1>2. (work' = work /\ new = cache[w]) \/ callPatch(w, new, FALSE)
  BY Zenon DEF walk
<1> HIDE DEF new
<1>3. \/ work' = work /\ cache[w].started
      \/ /\ work' \in Work
         /\ work'.wf = w /\ work'.base = cache[w]
         /\ work'.new.started /\ work'.new.phase = phaseFromRunners(w)
  BY Zenon, <1>1, <1>2, CallType
<1>4. /\ runs' = [runs EXCEPT ![w] = IF runs[w] = "none" THEN "active" ELSE runs[w]]
      /\ runs' \in [Workflows -> {"none", "active", "ended"}]
  BY DEF walk, TypeOK
<1> QED BY Zenon, <1>3, <1>4 DEF walk, startReconcile

\* What PatchStatus does to the workflow w it patches.
LEMMA PatchEffect ==
  ASSUME TypeOK, PatchStatus
  PROVE  \E w \in Workflows :
           /\ work \in Work /\ work.wf = w /\ wfs[w].there = "yes"
           /\ wfs' \in [Workflows -> Status]
           /\ \A v \in Workflows : v # w => wfs'[v] = wfs[v]
           /\ wfs'[w].there = "yes"
           /\ wfs'[w].started = IF work.new.started # work.base.started
                                  THEN work.new.started ELSE wfs[w].started
           /\ wfs'[w].phase = IF work.new.phase # work.base.phase
                                THEN work.new.phase ELSE wfs[w].phase
           /\ overdue' = IF work.new.started = work.base.started
                           THEN overdue ELSE overdue \ {w}
           /\ timers' = IF work.requeueAfter THEN timers \cup {w} ELSE timers
           /\ work' = NoWork
           /\ UNCHANGED <<mix, runs, cache, queue, bypassed, reopened, faults>>
<1>1. PICK w \in Workflows : work \in Work /\ work.wf = w /\ wfs[w].there = "yes"
  BY DEF PatchStatus, TypeOK, Work
<1> DEFINE s == mergePatch(wfs[w], work.base, work.new)
<1>2. /\ s \in Status /\ s.there = wfs[w].there
      /\ s.started = IF work.new.started # work.base.started
                       THEN work.new.started ELSE wfs[w].started
      /\ s.phase = IF work.new.phase # work.base.phase
                     THEN work.new.phase ELSE wfs[w].phase
  <2>1. wfs[w] \in Status /\ work.base \in Status /\ work.new \in Status
    BY Zenon, <1>1 DEF TypeOK, Work
  <2> QED BY <2>1, MergeType
<1>3. wfs' = [wfs EXCEPT ![w] = s]
  BY Zenon, <1>1 DEF PatchStatus
<1> HIDE DEF s
<1>4. /\ wfs' \in [Workflows -> Status] /\ wfs'[w] = s
      /\ \A v \in Workflows : v # w => wfs'[v] = wfs[v]
  BY Zenon, <1>2, <1>3 DEF TypeOK
<1>5. /\ overdue' = IF work.new.started = work.base.started THEN overdue ELSE overdue \ {w}
      /\ timers' = IF work.requeueAfter THEN timers \cup {w} ELSE timers
      /\ work' = NoWork
      /\ UNCHANGED <<mix, runs, cache, queue, bypassed, reopened, faults>>
  BY Zenon, <1>1 DEF PatchStatus, ghostVars
<1> QED BY Zenon, <1>1, <1>2, <1>4, <1>5

\* What users, the informer, the timers and the Runners do to one workflow.
environment(w) ==
  \/ UserCreates(w) \/ UserDeletes(w) \/ Sync(w) \/ TimerFires(w)
  \/ DeadlinePasses(w) \/ RunEnds(w) \/ UserReopens(w)

LEMMA EnvironmentEffect ==
  ASSUME TypeOK, NEW w \in Workflows, environment(w)
  PROVE  /\ UNCHANGED <<mix, work, bypassed, faults>>
         /\ queue' \in {queue, queue \cup {w}} /\ timers' \in {timers, timers \ {w}}
         /\ w \in timers' \cup queue' \/ w \notin timers \cup queue
         /\ overdue' \in {overdue, overdue \cup {w}}
         /\ wfs' \in [Workflows -> Status] /\ cache' \in [Workflows -> Status]
         /\ runs' \in [Workflows -> {"none", "active", "ended"}]
         /\ \A v \in Workflows : v # w => /\ wfs'[v] = wfs[v] /\ cache'[v] = cache[v]
                                          /\ runs'[v] = runs[v]
         /\ wfs'[w].started = wfs[w].started /\ wfs'[w].phase = wfs[w].phase
         /\ \/ /\ UNCHANGED <<cache, runs, reopened>>
               /\ wfs[w].there = "no" /\ wfs'[w].there = "yes"
            \/ /\ UNCHANGED <<cache, reopened>>
               /\ wfs'[w].there = "gone" /\ runs'[w] = "none"
            \/ UNCHANGED <<wfs, runs, reopened>> /\ cache'[w] = wfs[w] /\ w \in queue'
            \/ UNCHANGED <<wfs, cache, runs, reopened>>
            \/ /\ UNCHANGED <<wfs, cache, reopened>>
               /\ runs[w] = "active" /\ runs'[w] = "ended"
            \/ /\ UNCHANGED <<wfs, cache>>
               /\ runs'[w] = "none" /\ reopened' = reopened \cup {w}
<1> USE DEF apiVars, ghostVars
<1>1. CASE UserCreates(w)
  <2>1. /\ wfs' \in [Workflows -> Status]
        /\ \A v \in Workflows : v # w => wfs'[v] = wfs[v]
        /\ wfs'[w].started = wfs[w].started /\ wfs'[w].phase = wfs[w].phase
        /\ wfs[w].there = "no" /\ wfs'[w].there = "yes"
    <3> DEFINE s == [wfs[w] EXCEPT !.there = "yes"]
    <3>1. /\ s \in Status /\ s.there = "yes"
          /\ s.started = wfs[w].started /\ s.phase = wfs[w].phase
      BY DEF TypeOK, Status
    <3>2. wfs' = [wfs EXCEPT ![w] = s] /\ wfs[w].there = "no"
      BY Zenon, <1>1 DEF UserCreates
    <3> HIDE DEF s
    <3>3. wfs' \in [Workflows -> Status] /\ wfs'[w] = s
      BY Zenon, <3>1, <3>2 DEF TypeOK
    <3>4. \A v \in Workflows : v # w => wfs'[v] = wfs[v]
      BY Zenon, <3>2 DEF TypeOK
    <3> QED BY Zenon, <3>1, <3>2, <3>3, <3>4
  <2>2. UNCHANGED <<mix, runs, overdue, cache, queue, timers, work, bypassed, reopened, faults>>
    BY Zenon, <1>1 DEF UserCreates
  <2> QED BY Zenon, <2>1, <2>2 DEF TypeOK
<1>2. CASE UserDeletes(w)
  BY <1>2 DEF UserDeletes, TypeOK, Status
<1>3. CASE Sync(w)
  BY Zenon, <1>3 DEF Sync, TypeOK
<1>4. CASE TimerFires(w)
  BY Zenon, <1>4 DEF TimerFires, TypeOK
<1>5. CASE DeadlinePasses(w)
  BY Zenon, <1>5 DEF DeadlinePasses, TypeOK
<1>6. CASE RunEnds(w)
  BY Zenon, <1>6 DEF RunEnds, TypeOK
<1>7. CASE UserReopens(w)
  BY Zenon, <1>7 DEF UserReopens, TypeOK
<1> QED BY Zenon, <1>1, <1>2, <1>3, <1>4, <1>5, <1>6, <1>7 DEF environment

\* Next taken apart for the proofs.
LEMMA NextSplit ==
  Next <=> \/ \E w \in Workflows :
                \/ quietPass(w) \/ ReconcileAdmitted(w) \/ ReconcileUnchecked(w)
                \/ environment(w)
           \/ PatchStatus \/ PatchStatusFails \/ Crash
BY Zenon DEF Next, Reconcile, quietPass, environment

\* Every variable keeps its type.
LEMMA TypeStep == TypeOK /\ [Next]_vars => TypeOK'
<1> SUFFICES ASSUME TypeOK, [Next]_vars PROVE TypeOK' BY Zenon
<1>a. fault => faults' \in Nat
  BY DEF fault, TypeOK
<1>1. ASSUME NEW w \in Workflows, quietPass(w) PROVE TypeOK'
  <2>1. work' \in Work \/ work' = work
    BY Zenon, <1>1, QuietEffect
  <2>2. reopened' \subseteq Workflows /\ queue' \subseteq Workflows
    BY <1>1, QuietEffect DEF TypeOK
  <2>3. UNCHANGED <<mix, wfs, cache, runs, overdue, timers, bypassed, faults>>
    BY Zenon, <1>1, QuietEffect
  <2> QED BY Zenon, <2>1, <2>2, <2>3 DEF TypeOK
<1>2. ASSUME NEW w \in Workflows, ReconcileAdmitted(w) \/ ReconcileUnchecked(w)
      PROVE  TypeOK'
  <2>1. walk(w)
    BY Zenon, <1>2 DEF ReconcileAdmitted, ReconcileUnchecked
  <2>2. bypassed' \subseteq Workflows /\ faults' \in Nat
    BY <1>2, <1>a DEF ReconcileAdmitted, ReconcileUnchecked, TypeOK
  <2>3. queue' \subseteq Workflows
    BY <2>1, WalkEffect DEF TypeOK
  <2> QED BY Zenon, <2>1, <2>2, <2>3, WalkEffect DEF TypeOK
<1>3. CASE PatchStatus
  <2>1. /\ overdue' \subseteq Workflows /\ timers' \subseteq Workflows
    BY <1>3, PatchEffect DEF TypeOK
  <2> QED BY Zenon, <1>3, <2>1, PatchEffect DEF TypeOK
<1>4. CASE PatchStatusFails
  BY <1>4, <1>a DEF PatchStatusFails, TypeOK, Work, apiVars
<1>5. ASSUME NEW w \in Workflows, environment(w) PROVE TypeOK'
  <2>1. /\ overdue' \subseteq Workflows /\ timers' \subseteq Workflows
        /\ queue' \subseteq Workflows /\ reopened' \subseteq Workflows
    BY <1>5, EnvironmentEffect DEF TypeOK
  <2> QED BY Zenon, <1>5, <2>1, EnvironmentEffect DEF TypeOK
<1>6. CASE Crash
  BY <1>6, <1>a DEF Crash, TypeOK, apiVars
<1>7. CASE UNCHANGED vars
  BY Zenon, <1>7 DEF vars, TypeOK, apiVars, ghostVars
<1> QED BY Zenon, <1>1, <1>2, <1>3, <1>4, <1>5, <1>6, <1>7, NextSplit

\* Every variable always has its type.
THEOREM TypeCorrect == Spec => []TypeOK
<1>1. Init => TypeOK
  BY DEF Init, TypeOK, NoStatus, Status
<1> QED BY <1>1, TypeStep, PTL DEF Spec

-----------------------------------------------------------------------------
(* Waiting workflows *)

\* StartInv is inductive.
LEMMA StartStep == TypeOK /\ StartInv /\ [Next]_vars => StartInv'
<1> SUFFICES ASSUME TypeOK, StartInv, [Next]_vars PROVE StartInv' BY Zenon
<1>1. ASSUME NEW w \in Workflows, quietPass(w) PROVE StartInv'
  <2>1. /\ \A v \in Workflows :
             /\ cache[v].there # "no" => wfs[v].there # "no"
             /\ cache[v].started => wfs[v].started
             /\ isWorkflowTerminal(wfs[v]) => wfs[v].started
             /\ isWorkflowTerminal(cache[v]) => cache[v].started
        /\ UNCHANGED <<mix, wfs, cache>> /\ work = NoWork
    BY Zenon, <1>1, QuietEffect DEF StartInv
  <2>2. \/ work' = work
        \/ /\ work'.wf = w /\ work'.base = cache[w]
           /\ work'.new.started = cache[w].started
           /\ work'.wf \in mix.rejected \/ work'.requeueAfter \/ work'.new.started
           /\ isWorkflowTerminal(work'.new) => work'.new.started
    BY Zenon, <1>1, <2>1, QuietEffect DEF timedOut, isWorkflowTerminal
  <2> QED BY Zenon, <2>1, <2>2 DEF StartInv, isWorkflowTerminal
<1>2. ASSUME NEW w \in Workflows, ReconcileAdmitted(w) \/ ReconcileUnchecked(w)
      PROVE  StartInv'
  <2>1. walk(w)
    BY Zenon, <1>2 DEF ReconcileAdmitted, ReconcileUnchecked
  <2>2. /\ work = NoWork /\ UNCHANGED <<mix, wfs, cache>>
        /\ \/ work' = work
           \/ work'.wf = w /\ work'.base = cache[w] /\ work'.new.started
    BY Zenon, <2>1, WalkEffect
  <2>3. cache[w].started => wfs[w].started
    BY Zenon DEF StartInv
  <2>4. /\ \A v \in Workflows :
             /\ cache'[v].there # "no" => wfs'[v].there # "no"
             /\ cache'[v].started => wfs'[v].started
             /\ isWorkflowTerminal(wfs'[v]) => wfs'[v].started
             /\ isWorkflowTerminal(cache'[v]) => cache'[v].started
    BY Zenon, <2>2 DEF StartInv
  <2> QED BY Zenon, <2>2, <2>3, <2>4 DEF StartInv, isWorkflowTerminal
<1>3. CASE PatchStatus
  <2>1. PICK w \in Workflows :
          /\ work \in Work /\ work.wf = w /\ wfs[w].there = "yes"
          /\ \A v \in Workflows : v # w => wfs'[v] = wfs[v]
          /\ wfs'[w].there = "yes"
          /\ wfs'[w].started = IF work.new.started # work.base.started
                                 THEN work.new.started ELSE wfs[w].started
          /\ wfs'[w].phase = IF work.new.phase # work.base.phase
                               THEN work.new.phase ELSE wfs[w].phase
          /\ work' = NoWork /\ UNCHANGED cache
    BY Zenon, <1>3, PatchEffect
  <2>2. /\ wfs[w].started => wfs'[w].started
        /\ work.new.started => wfs'[w].started
    <3>1. /\ work # NoWork
          /\ work.new.started \in BOOLEAN /\ work.base.started \in BOOLEAN
      BY <1>3, <2>1 DEF PatchStatus, Work, Status
    <3>2. work.base.started => work.new.started /\ wfs[w].started
      BY Zenon, <2>1, <3>1 DEF StartInv
    <3> QED BY <2>1, <3>1, <3>2
  <2>3. isWorkflowTerminal(wfs'[w]) => wfs'[w].started
    <3>1. /\ work # NoWork
          /\ isWorkflowTerminal(work.new) => work.new.started
          /\ isWorkflowTerminal(wfs[w]) => wfs[w].started
      BY Zenon, <1>3 DEF StartInv, PatchStatus
    <3> QED BY <2>1, <2>2, <3>1 DEF isWorkflowTerminal
  <2>4. \A v \in Workflows :
          /\ cache'[v].there # "no" => wfs'[v].there # "no"
          /\ cache'[v].started => wfs'[v].started
          /\ isWorkflowTerminal(wfs'[v]) => wfs'[v].started
          /\ isWorkflowTerminal(cache'[v]) => cache'[v].started
    BY <2>1, <2>2, <2>3 DEF StartInv
  <2> QED BY Zenon, <2>1, <2>4 DEF StartInv, isWorkflowTerminal
<1>4. CASE PatchStatusFails
  BY Zenon, <1>4 DEF PatchStatusFails, apiVars, StartInv, isWorkflowTerminal
<1>5. ASSUME NEW w \in Workflows, environment(w) PROVE StartInv'
  <2>1. /\ cache'[w].there # "no" => wfs'[w].there # "no"
        /\ cache'[w].started => wfs'[w].started
        /\ isWorkflowTerminal(wfs'[w]) => wfs'[w].started
        /\ isWorkflowTerminal(cache'[w]) => cache'[w].started
    BY <1>5, EnvironmentEffect DEF StartInv, isWorkflowTerminal
  <2>2. \A v \in Workflows : v # w => wfs'[v] = wfs[v] /\ cache'[v] = cache[v]
    BY <1>5, EnvironmentEffect
  <2>3. /\ UNCHANGED <<mix, work>> /\ wfs'[w].started = wfs[w].started
    BY <1>5, EnvironmentEffect
  <2>4. work # NoWork => work.wf \in Workflows
    BY Zenon DEF TypeOK, Work
  <2>5. \A v \in Workflows : wfs'[v].started = wfs[v].started
    BY Zenon, <2>2, <2>3
  <2>6. \A v \in Workflows :
          /\ cache'[v].there # "no" => wfs'[v].there # "no"
          /\ cache'[v].started => wfs'[v].started
          /\ isWorkflowTerminal(wfs'[v]) => wfs'[v].started
          /\ isWorkflowTerminal(cache'[v]) => cache'[v].started
    BY Zenon, <2>1, <2>2 DEF StartInv
  <2> QED BY Zenon, <2>3, <2>4, <2>5, <2>6 DEF StartInv, isWorkflowTerminal
<1>6. CASE Crash
  BY Zenon, <1>6 DEF Crash, apiVars, StartInv, isWorkflowTerminal
<1>7. CASE UNCHANGED vars
  BY Zenon, <1>7 DEF vars, apiVars, StartInv, isWorkflowTerminal
<1> QED BY Zenon, <1>1, <1>2, <1>3, <1>4, <1>5, <1>6, <1>7, NextSplit

\* Whatever a step does, the workflows that wait are still going to ask.
LEMMA RetryStep ==
  TypeOK /\ StartInv /\ WaitingIsRetried /\ [Next]_vars => WaitingIsRetried'
<1> SUFFICES ASSUME TypeOK, StartInv, WaitingIsRetried, [Next]_vars,
                    NEW v \in Workflows, v \notin mix'.rejected,
                    wfs'[v].there = "yes", ~wfs'[v].started
             PROVE  \/ v \in queue' \cup timers' \/ cache'[v] # wfs'[v]
                    \/ work' # NoWork /\ work'.wf = v
  BY Zenon DEF WaitingIsRetried
<1>a. v \notin mix.rejected /\ wfs[v].there = "yes" /\ ~wfs[v].started =>
        \/ v \in queue \/ v \in timers \/ cache[v] # wfs[v]
        \/ work # NoWork /\ work.wf = v
  BY Zenon DEF WaitingIsRetried
<1>1. ASSUME NEW w \in Workflows, quietPass(w)
      PROVE  \/ v \in queue' \cup timers' \/ cache'[v] # wfs'[v]
             \/ work' # NoWork /\ work'.wf = v
  <2>1. /\ work = NoWork /\ queue' = queue \ {w} /\ UNCHANGED <<mix, wfs, cache, timers>>
        /\ cache[w].there # "yes" \/ (work' \in Work /\ work'.wf = w)
    BY Zenon, <1>1, QuietEffect
  <2>2. work' \in Work => work' # NoWork
    BY Zenon, NoWorkAssumption
  <2> QED BY Zenon, <2>1, <2>2, <1>a
<1>2. ASSUME NEW w \in Workflows, ReconcileAdmitted(w) \/ ReconcileUnchecked(w)
      PROVE  \/ v \in queue' \cup timers' \/ cache'[v] # wfs'[v]
             \/ work' # NoWork /\ work'.wf = v
  <2>1. walk(w)
    BY Zenon, <1>2 DEF ReconcileAdmitted, ReconcileUnchecked
  <2>2. /\ work = NoWork /\ queue' = queue \ {w} /\ UNCHANGED <<mix, wfs, cache, timers>>
        /\ cache[w].started \/ (work' \in Work /\ work'.wf = w)
    BY Zenon, <2>1, WalkEffect
  <2>3. work' \in Work => work' # NoWork
    BY Zenon, NoWorkAssumption
  <2>4. cache[w].started => wfs[w].started
    BY Zenon DEF StartInv
  <2> QED BY Zenon, <2>2, <2>3, <2>4, <1>a
<1>3. CASE PatchStatus
  <2>1. PICK w \in Workflows :
          /\ work \in Work /\ work.wf = w /\ wfs[w].there = "yes"
          /\ \A u \in Workflows : u # w => wfs'[u] = wfs[u]
          /\ wfs'[w].started = IF work.new.started # work.base.started
                                 THEN work.new.started ELSE wfs[w].started
          /\ timers' = IF work.requeueAfter THEN timers \cup {w} ELSE timers
          /\ UNCHANGED <<mix, cache, queue>>
    BY Zenon, <1>3, PatchEffect
  <2>2. CASE v # w
    BY Zenon, <2>1, <2>2, <1>a
  <2>3. CASE v = w
    <3>1. /\ work.new.started \in BOOLEAN /\ work.base.started \in BOOLEAN
      BY Zenon, <2>1 DEF Work, Status
    <3>2. /\ work.base.started => wfs[w].started
          /\ work.requeueAfter \/ work.new.started
      BY Zenon, <1>3, <2>1, <2>3 DEF StartInv, PatchStatus
    <3>3. work.new.started => wfs'[w].started
      BY <2>1, <3>1, <3>2
    <3> QED BY Zenon, <2>1, <2>3, <3>2, <3>3
  <2> QED BY Zenon, <2>2, <2>3
<1>4. CASE PatchStatusFails
  BY Zenon, <1>4, <1>a DEF PatchStatusFails, apiVars
<1>5. ASSUME NEW w \in Workflows, environment(w)
      PROVE  \/ v \in queue' \cup timers' \/ cache'[v] # wfs'[v]
             \/ work' # NoWork /\ work'.wf = v
  <2>1. /\ UNCHANGED <<mix, work>>
        /\ \A u \in Workflows : u # w => wfs'[u] = wfs[u] /\ cache'[u] = cache[u]
        /\ queue' \in {queue, queue \cup {w}} /\ timers' \in {timers, timers \ {w}}
        /\ w \in timers' \cup queue' \/ w \notin timers \cup queue
        /\ wfs'[w].started = wfs[w].started
    BY <1>5, EnvironmentEffect
  <2>2. CASE v # w
    BY <2>1, <2>2, <1>a
  <2>3. CASE v = w
    <3>1. \/ UNCHANGED cache /\ wfs[w].there = "no"
          \/ w \in queue'
          \/ UNCHANGED <<wfs, cache>>
      BY Zenon, <1>5, <2>3, EnvironmentEffect
    <3>2. wfs[w].there = "no" => cache[w].there = "no"
      BY Zenon DEF StartInv
    <3> QED BY Zenon, <2>1, <2>3, <3>1, <3>2, <1>a
  <2> QED BY Zenon, <2>2, <2>3
<1>6. CASE Crash
  BY Zenon, <1>6 DEF Crash, apiVars
<1>7. CASE UNCHANGED vars
  BY Zenon, <1>7, <1>a DEF vars, apiVars
<1> QED BY Zenon, <1>1, <1>2, <1>3, <1>4, <1>5, <1>6, <1>7, NextSplit

\* A workflow that waits for the quota asks again: whatever calls fail, however old
\* the caches and whenever the operator restarts, it is queued, a timer or a
\* delivery is going to queue it, or a reconcile of it is under way.
THEOREM WaitingTheorem == Spec => []WaitingIsRetried
<1>1. Init => StartInv /\ WaitingIsRetried
  BY DEF Init, StartInv, WaitingIsRetried, NoStatus, isWorkflowTerminal
<1> QED BY <1>1, StartStep, RetryStep, TypeCorrect, PTL DEF Spec

-----------------------------------------------------------------------------
(* The quota *)

\* A step that lets no workflow into the set keeps it below the limit.
LEMMA NoNewRun ==
  ASSUME counted' \subseteq counted, belowLimit
  PROVE  belowLimit'
<1>1. IsFiniteSet(counted)
  <2>1. counted \subseteq Workflows
    BY DEF counted, running
  <2> QED BY <2>1, QuotaAssumption, FS_Subset
<1>2. IsFiniteSet(counted') /\ Cardinality(counted') <= Cardinality(counted)
  BY <1>1, FS_Subset
<1>3. Cardinality(counted) \in Nat /\ Cardinality(counted') \in Nat /\ Limit \in Nat
  BY <1>1, <1>2, FS_CardinalityType, QuotaAssumption
<1> QED BY <1>2, <1>3 DEF belowLimit

\* A workflow that the check admits is one of the workflows the check counted,
\* as are all that run already.
LEMMA AdmittedRun ==
  ASSUME counted' \subseteq active, Limit # 0 => checkNamespaceQuota
  PROVE  belowLimit'
<1>1. IsFiniteSet(active)
  <2>1. active \subseteq Workflows
    BY DEF active
  <2> QED BY <2>1, QuotaAssumption, FS_Subset
<1>2. IsFiniteSet(counted') /\ Cardinality(counted') <= Cardinality(active)
  BY <1>1, FS_Subset
<1>3. Cardinality(active) \in Nat /\ Cardinality(counted') \in Nat /\ Limit \in Nat
  BY <1>1, <1>2, FS_CardinalityType, QuotaAssumption
<1>4. Limit # 0 => Cardinality(active) < Limit
  BY DEF checkNamespaceQuota
<1> QED BY <1>2, <1>3, <1>4 DEF belowLimit

\* What a running workflow that is not excepted looks like to the check.
LEMMA RunningIsCounted ==
  ASSUME TypeOK, QuotaInv
  PROVE  counted \subseteq active
<1> SUFFICES ASSUME NEW w \in counted PROVE w \in active OBVIOUS
<1>1. w \in Workflows /\ wfs[w].there = "yes" /\ ~isWorkflowTerminal(wfs[w])
        /\ runs[w] # "none" /\ w \notin reopened
  BY DEF counted, running
<1>2. cache[w].there \in {"no", "yes", "gone"}
  BY <1>1 DEF TypeOK, Status
<1> QED BY <1>1, <1>2 DEF QuotaInv, workflowInv, exempt, active

\* A pass that does not walk lets no workflow run, unless it reopens one.
LEMMA QuietPass ==
  ASSUME TypeOK, StartInv, QuotaInv, NEW w \in Workflows, quietPass(w)
  PROVE  QuotaInv'
<1>1. /\ work = NoWork /\ reopened \subseteq reopened'
      /\ UNCHANGED <<wfs, cache, runs, overdue, bypassed>>
  BY Zenon, QuietEffect
<1>2. \A v \in Workflows : workflowInv(v)'
  BY Zenon, <1>1 DEF QuotaInv, workflowInv, exempt, endDue, isWorkflowTerminal
<1>3. belowLimit'
  <2>1. counted' \subseteq counted
    BY Zenon, <1>1 DEF counted, running, isWorkflowTerminal
  <2> QED BY Zenon, <2>1, NoNewRun DEF QuotaInv
<1>4. patchInv'
  <2>1. CASE work' = work
    BY Zenon, <2>1, <1>1 DEF patchInv
  <2>2. CASE work' # work
    <3>1. /\ work'.wf = w /\ work'.base = cache[w]
          /\ work'.new.started = cache[w].started
          /\ \/ work'.new.phase = cache[w].phase
             \/ timedOut(w) /\ work'.new.phase = "Ended"
             \/ w \in reopened'
      BY Zenon, <2>2, QuietEffect
    <3>2. cache[w].started => runs[w] # "none" \/ exempt(w)
      BY Zenon DEF StartInv, QuotaInv, workflowInv
    <3>3. timedOut(w) => endDue(w)
      BY Zenon DEF timedOut, endDue
    <3>4. (exempt(w) => exempt(w)') /\ (endDue(w) => endDue(w)')
      BY Zenon, <1>1 DEF exempt, endDue
    <3>5. w \in reopened' => exempt(w)'
      BY Zenon DEF exempt
    <3> QED BY Zenon, <1>1, <3>1, <3>2, <3>3, <3>4, <3>5 DEF patchInv, exempt, endDue
  <2> QED BY Zenon, <2>1, <2>2
<1> QED BY Zenon, <1>2, <1>3, <1>4 DEF QuotaInv

\* The walk creates the Runners of w, and only a workflow that passed the check,
\* or is excepted, is one it newly lets run.
LEMMA WalkPass ==
  ASSUME TypeOK, StartInv, QuotaInv, NEW w \in Workflows,
         ReconcileAdmitted(w) \/ ReconcileUnchecked(w)
  PROVE  QuotaInv'
<1>1. walk(w)
  BY Zenon DEF ReconcileAdmitted, ReconcileUnchecked
<1>2. /\ work = NoWork /\ cache[w].there = "yes"
      /\ UNCHANGED <<wfs, cache, overdue, reopened>>
      /\ \/ work' = work
         \/ /\ work'.wf = w /\ work'.base = cache[w]
            /\ work'.new.started /\ work'.new.phase = phaseFromRunners(w)
  BY Zenon, <1>1, WalkEffect
<1>3. /\ \A v \in Workflows : v # w => runs'[v] = runs[v]
      /\ runs'[w] # "none" /\ (runs[w] # "none" => runs'[w] = runs[w])
  BY <1>1, WalkEffect DEF TypeOK
<1>4. counted' \subseteq counted \cup {w}
  <2>1. bypassed \subseteq bypassed'
    BY DEF ReconcileAdmitted, ReconcileUnchecked
  <2> QED BY <1>2, <1>3, <2>1 DEF counted, running, isWorkflowTerminal
<1>5. belowLimit'
  <2>1. CASE w \notin counted' \/ w \in counted
    BY <2>1, <1>4, NoNewRun DEF QuotaInv
  <2>2. CASE w \in counted' /\ w \notin counted
    <3>1. /\ wfs[w].there = "yes" /\ ~isWorkflowTerminal(wfs[w])
          /\ w \notin reopened /\ w \notin bypassed'
      BY <2>2, <1>2 DEF counted, running, isWorkflowTerminal
    <3>2. ReconcileAdmitted(w) /\ bypassed' = bypassed
      BY <3>1 DEF ReconcileAdmitted, ReconcileUnchecked
    <3>3. runs[w] = "none"
      BY <2>2, <3>1, <3>2 DEF counted, running
    <3>4. ~cache[w].started
      BY <3>1, <3>3 DEF StartInv, QuotaInv, workflowInv, exempt
    <3>5. checkNamespaceQuota
      BY <3>2, <3>4 DEF ReconcileAdmitted
    <3>6. w \in active
      BY <1>2, <3>1 DEF active, QuotaInv, workflowInv, exempt
    <3>7. counted' \subseteq active
      BY <1>4, <3>6, RunningIsCounted
    <3> QED BY <3>5, <3>7, AdmittedRun
  <2> QED BY <2>1, <2>2
<1>6. patchInv'
  <2>1. CASE work' = work
    BY Zenon, <2>1, <1>2 DEF patchInv
  <2>2. CASE work' # work /\ exempt(w)
    BY Zenon, <2>2, <1>2 DEF patchInv, exempt
  <2>3. CASE work' # work /\ ~exempt(w)
    <3>1. cache[w].phase \in {"Running", "Ended"} /\ cache[w].started \in BOOLEAN
      BY DEF TypeOK, Status
    <3>2. cache[w].phase = "Ended" => cache[w].started /\ endDue(w) /\ runs[w] # "none"
      BY Zenon, <2>3 DEF QuotaInv, workflowInv, StartInv, isWorkflowTerminal
    <3>3. runs[w] \in {"none", "active", "ended"}
      BY Zenon DEF TypeOK
    <3>4. phaseFromRunners(w) # cache[w].phase =>
            phaseFromRunners(w) = "Ended" /\ runs'[w] = "ended"
      BY <3>1, <3>2, <3>3, <1>3 DEF phaseFromRunners, isWorkflowTerminal
    <3>5. ~cache[w].started => runs'[w] = "ended" \/ ~isWorkflowTerminal(wfs[w])
      BY Zenon, <2>3, <1>3 DEF QuotaInv, workflowInv, endDue
    <3>6. work'.new.started # work'.base.started => ~cache[w].started
      BY <2>3, <1>2, <3>1
    <3>7. /\ work'.wf = w /\ work'.base = cache[w]
          /\ work'.new.phase = phaseFromRunners(w)
      BY Zenon, <2>3, <1>2
    <3>8. work'.new.phase # work'.base.phase =>
            work'.new.phase = "Ended" /\ runs'[w] = "ended"
      BY Zenon, <3>4, <3>7
    <3>9. work'.new.started # work'.base.started =>
            \/ runs'[w] = "ended"
            \/ ~isWorkflowTerminal(wfs[w]) /\ work'.new.phase = work'.base.phase
      BY Zenon, <3>5, <3>6, <3>8
    <3> QED BY Zenon, <3>7, <3>8, <3>9, <1>2, <1>3 DEF patchInv, endDue, isWorkflowTerminal
  <2> QED BY Zenon, <2>1, <2>2, <2>3
<1>7. \A v \in Workflows : workflowInv(v)'
  BY <1>2, <1>3 DEF QuotaInv, workflowInv, exempt, endDue, isWorkflowTerminal
<1> QED BY Zenon, <1>5, <1>6, <1>7 DEF QuotaInv

\* A patch never takes the end of a workflow back, nor starts one without Runners,
\* unless the workflow is excepted.
LEMMA PatchPass ==
  ASSUME TypeOK, StartInv, QuotaInv, PatchStatus
  PROVE  QuotaInv'
<1>1. PICK w \in Workflows :
        /\ work \in Work /\ work.wf = w /\ wfs[w].there = "yes"
        /\ \A v \in Workflows : v # w => wfs'[v] = wfs[v]
        /\ wfs'[w].there = "yes"
        /\ wfs'[w].started = IF work.new.started # work.base.started
                               THEN work.new.started ELSE wfs[w].started
        /\ wfs'[w].phase = IF work.new.phase # work.base.phase
                             THEN work.new.phase ELSE wfs[w].phase
        /\ overdue' = IF work.new.started = work.base.started
                        THEN overdue ELSE overdue \ {w}
        /\ work' = NoWork
        /\ UNCHANGED <<runs, cache, bypassed, reopened>>
  BY Zenon, PatchEffect
<1>2. \/ exempt(w)
      \/ /\ work.new.started => runs[w] # "none"
         /\ work.new.phase # work.base.phase =>
              work.new.phase = "Ended" /\ endDue(w)
         /\ work.new.started # work.base.started =>
              \/ runs[w] = "ended"
              \/ ~isWorkflowTerminal(wfs[w]) /\ work.new.phase = work.base.phase
  BY Zenon, <1>1 DEF QuotaInv, patchInv, PatchStatus
<1>3. workflowInv(w)
  BY Zenon, <1>1 DEF QuotaInv
<1>4. (exempt(w) => exempt(w)') /\ (exempt(w) => w \in reopened)
  BY Zenon, <1>1 DEF exempt
<1>5. isWorkflowTerminal(wfs'[w]) => endDue(w)' \/ exempt(w)'
  BY <1>1, <1>2, <1>3, <1>4 DEF workflowInv, endDue, isWorkflowTerminal
<1>6. wfs'[w].started => runs'[w] # "none" \/ exempt(w)'
  BY <1>1, <1>2, <1>3, <1>4 DEF workflowInv
<1>7. isWorkflowTerminal(wfs[w]) => isWorkflowTerminal(wfs'[w]) \/ exempt(w)'
  BY <1>1, <1>2, <1>4 DEF isWorkflowTerminal
<1>8. counted' \subseteq counted
  <2>1. w \in counted' => w \in counted
    BY <1>1, <1>4, <1>7 DEF counted, running, isWorkflowTerminal, exempt
  <2>2. \A v \in Workflows : v # w /\ v \in counted' => v \in counted
    BY <1>1 DEF counted, running, isWorkflowTerminal
  <2>3. counted' \subseteq Workflows
    BY DEF counted, running
  <2> QED BY <2>1, <2>2, <2>3
<1>9. belowLimit'
  BY Zenon, <1>8, NoNewRun DEF QuotaInv
<1>10. \A v \in Workflows : workflowInv(v)'
  <2>1. workflowInv(w)'
    BY Zenon, <1>1, <1>3, <1>4, <1>5, <1>6, <1>7 DEF workflowInv, isWorkflowTerminal
  <2>2. \A v \in Workflows : v # w => (v \in overdue => v \in overdue')
    BY <1>1
  <2>3. \A v \in Workflows : v # w => workflowInv(v)'
    BY <1>1, <2>2 DEF QuotaInv, workflowInv, exempt, endDue, isWorkflowTerminal
  <2> QED BY Zenon, <2>1, <2>3
<1> QED BY Zenon, <1>1, <1>9, <1>10 DEF QuotaInv, patchInv

\* Users, the informer, the timers, deadlines and the Runners.
LEMMA EnvironmentStep ==
  ASSUME TypeOK, StartInv, QuotaInv, NEW w \in Workflows, environment(w)
  PROVE  QuotaInv'
<1>1. /\ UNCHANGED <<work, bypassed>>
      /\ overdue \subseteq overdue' /\ reopened \subseteq reopened'
      /\ \A v \in Workflows : v # w => /\ wfs'[v] = wfs[v] /\ cache'[v] = cache[v]
                                       /\ runs'[v] = runs[v]
      /\ wfs'[w].started = wfs[w].started /\ wfs'[w].phase = wfs[w].phase
  BY EnvironmentEffect
<1>2. /\ exempt(w) => exempt(w)'
      /\ endDue(w) => endDue(w)' \/ exempt(w)'
      /\ runs[w] # "none" => runs'[w] # "none" \/ exempt(w)'
      /\ runs[w] = "ended" => runs'[w] = "ended" \/ exempt(w)'
      /\ runs'[w] # "none" => runs[w] # "none"
      /\ wfs[w].there = "no" => runs[w] = "none"
  BY EnvironmentEffect DEF exempt, endDue, StartInv, QuotaInv, workflowInv
<1>3. workflowInv(w)'
  <2>1. /\ cache'[w].there = "gone" => wfs'[w].there = "gone"
        /\ runs'[w] # "none" => cache'[w].there # "no"
        /\ isWorkflowTerminal(cache'[w]) => isWorkflowTerminal(wfs'[w]) \/ exempt(w)'
    BY EnvironmentEffect DEF exempt, isWorkflowTerminal, StartInv, QuotaInv, workflowInv
  <2> QED BY Zenon, <1>1, <1>2, <2>1 DEF QuotaInv, workflowInv, isWorkflowTerminal
<1>4. \A v \in Workflows : workflowInv(v)'
  BY <1>1, <1>3 DEF QuotaInv, workflowInv, exempt, endDue, isWorkflowTerminal
<1>5. belowLimit'
  <2>1. w \in counted' => w \in counted
    BY EnvironmentEffect, <1>1, <1>2 DEF counted, running, isWorkflowTerminal
  <2>2. \A v \in Workflows : v # w /\ v \in counted' => v \in counted
    BY <1>1 DEF counted, running, isWorkflowTerminal
  <2>3. counted' \subseteq Workflows
    BY DEF counted, running
  <2> QED BY <2>1, <2>2, <2>3, NoNewRun DEF QuotaInv
<1>6. patchInv'
  <2>1. CASE work = NoWork
    BY Zenon, <2>1, <1>1 DEF patchInv
  <2>2. CASE work # NoWork
    <3>1. work.wf \in Workflows
      BY Zenon, <2>2 DEF TypeOK, Work
    <3>2. CASE work.wf = w
      BY Zenon, <2>2, <3>2, <1>1, <1>2 DEF QuotaInv, patchInv, isWorkflowTerminal
    <3>3. CASE work.wf # w
      BY <2>2, <3>1, <3>3, <1>1 DEF QuotaInv, patchInv, exempt, endDue, isWorkflowTerminal
    <3> QED BY Zenon, <3>2, <3>3
  <2> QED BY Zenon, <2>1, <2>2
<1> QED BY Zenon, <1>4, <1>5, <1>6 DEF QuotaInv

\* Every step keeps the invariant.
LEMMA QuotaStep == TypeOK /\ StartInv /\ QuotaInv /\ [Next]_vars => QuotaInv'
<1> SUFFICES ASSUME TypeOK, StartInv, QuotaInv, [Next]_vars PROVE QuotaInv' BY Zenon
<1>1. CASE PatchStatusFails \/ Crash
  <2>1. /\ UNCHANGED <<wfs, runs, overdue, bypassed, reopened>> /\ work' = NoWork
        /\ cache' \in {cache, wfs}
    BY Zenon, <1>1 DEF PatchStatusFails, Crash, apiVars
  <2>2. counted' \subseteq counted
    BY Zenon, <2>1 DEF counted, running, isWorkflowTerminal
  <2>3. \A w \in Workflows : workflowInv(w)'
    BY <2>1 DEF StartInv, QuotaInv, workflowInv, exempt, endDue, isWorkflowTerminal
  <2> QED BY Zenon, <2>1, <2>2, <2>3, NoNewRun DEF QuotaInv, patchInv
<1>2. CASE UNCHANGED vars
  <2>1. UNCHANGED <<wfs, cache, runs, overdue, bypassed, reopened, work>>
    BY Zenon, <1>2 DEF vars, apiVars, ghostVars
  <2>2. counted' \subseteq counted
    BY Zenon, <2>1 DEF counted, running, isWorkflowTerminal
  <2>3. patchInv' /\ \A w \in Workflows : workflowInv(w)'
    BY Zenon, <2>1 DEF QuotaInv, patchInv, workflowInv, exempt, endDue, isWorkflowTerminal
  <2> QED BY Zenon, <2>2, <2>3, NoNewRun DEF QuotaInv
<1> QED
  BY Zenon, <1>1, <1>2, QuietPass, WalkPass, PatchPass, EnvironmentStep, NextSplit

\* "Limits concurrent Workflows in a namespace": however old the caches and
\* whatever calls fail, no more than Limit workflows run at the same time, but for
\* those a failed checkNamespaceQuota let through and those that were reopened.
THEOREM QuotaIsRespected == Spec => []QuotaRespected
<1>1. Init => StartInv /\ QuotaInv
  <2> SUFFICES ASSUME Init PROVE StartInv /\ QuotaInv OBVIOUS
  <2>1. counted = {}
    BY DEF Init, counted, running
  <2>2. belowLimit
    BY <2>1, FS_EmptySet, QuotaAssumption DEF belowLimit
  <2>3. \A w \in Workflows : workflowInv(w)
    BY DEF Init, workflowInv, NoStatus, isWorkflowTerminal
  <2>4. StartInv
    BY DEF Init, StartInv, NoStatus, isWorkflowTerminal
  <2> QED BY <2>2, <2>3, <2>4 DEF Init, QuotaInv, patchInv
<1>2. QuotaInv => QuotaRespected
  <2> SUFFICES ASSUME belowLimit PROVE QuotaRespected BY DEF QuotaInv
  <2>1. IsFiniteSet(counted)
    <3>1. counted \subseteq Workflows
      BY DEF counted, running
    <3> QED BY <3>1, QuotaAssumption, FS_Subset
  <2>2. Cardinality(counted) \in Nat /\ Limit \in Nat
    BY <2>1, FS_CardinalityType, QuotaAssumption
  <2> QED BY <2>2 DEF belowLimit, QuotaRespected, counted
<1> QED BY <1>1, <1>2, StartStep, QuotaStep, TypeCorrect, PTL DEF Spec
=============================================================================
