------------------------- MODULE WorkflowDecisions -------------------------
(***************************************************************************)
(* The pure functions of internal/controller/workflow_controller.go that   *)
(* decide what happens to a step and what phase a workflow has.  A step    *)
(* status is a record; the phase "none" stands for a step that has no      *)
(* entry in Status.StepStatuses.  Time 0 is the nil time.                  *)
(***************************************************************************)
EXTENDS Integers

CONSTANT DurationLimit  \* what a time.Duration stays below: 2^63 in the code

ASSUME DurationAssumption == DurationLimit \in Nat \ {0}

StepPhases ==
  {"none", "Pending", "Waiting", "Running", "Succeeded", "Failed", "Skipped"}
ActiveStepPhases == {"Pending", "Waiting", "Running"}
DoneStepPhases == {"Succeeded", "Failed", "Skipped"}
WorkflowPhases == {"none", "Pending", "Running", "Succeeded", "Failed"}
isWorkflowTerminal(p) == p \in {"Succeeded", "Failed"}
RunnerPhases == {"none", "Pending", "Running", "Succeeded", "Failed"}
Whens == {"on_success", "on_failure", "always"}

StepStatuses == [phase : StepPhases, retryCount : Nat, completedAt : Nat]
NoStepStatus == [phase |-> "none", retryCount |-> 0, completedAt |-> 0]

\* Mutant: the when condition is not looked at.
evaluateStepUnconditional(deps, when, statuses) ==
  IF \E d \in deps : statuses[d].phase \notin DoneStepPhases
    THEN "wait" ELSE "run"

\* Wait while a dependency is unresolved; then the when condition decides.
\* on_failure runs as soon as one dependency did not succeed.
evaluateStep(deps, when, statuses) ==
  LET unresolved == \E d \in deps : statuses[d].phase \notin DoneStepPhases
      allDepSucceeded == \A d \in deps : statuses[d].phase = "Succeeded"
  IN  IF unresolved THEN "wait"
      ELSE IF when = "always" THEN "run"
      ELSE IF when = "on_failure" THEN IF allDepSucceeded THEN "skip" ELSE "run"
      ELSE IF allDepSucceeded THEN "run" ELSE "skip"

\* Mutant: a Runner that has not failed counts as a success.
runnerPhaseToStepPhaseHopeful(p) ==
  CASE p \in {"none", "Pending"} -> "Pending"
    [] p = "Failed" -> "Failed"
    [] OTHER -> "Succeeded"

runnerPhaseToStepPhase(p) == IF p = "none" THEN "Pending" ELSE p

\* CompletedAt is set when a recorded step succeeds or fails, and reset only
\* when it runs.  A step recorded for the first time gets no CompletedAt.
upsertStepStatus(s, phase, now) ==
  IF s.phase = "none" THEN [NoStepStatus EXCEPT !.phase = phase]
  ELSE IF s.phase = phase THEN s
  ELSE [s EXCEPT !.phase = phase,
                 !.completedAt = IF phase = "Running" THEN 0
                                 ELSE IF phase \in {"Succeeded", "Failed"}
                                   THEN now ELSE @]

\* Mutant: failed steps are not looked for.
computeWorkflowPhaseHopeful(items, statuses) ==
  LET phases == {statuses[i].phase : i \in items}
  IN  IF phases = {"none"} THEN "Pending"
      ELSE IF phases \cap ({"none"} \cup ActiveStepPhases) = {} THEN "Succeeded"
      ELSE "Running"

\* Mutant: steps that wait for their Runner to start count as done.
computeWorkflowPhaseEarly(items, statuses) ==
  LET phases == {statuses[i].phase : i \in items}
  IN  IF phases \cap {"none", "Running"} # {} THEN "Running"
      ELSE IF "Failed" \in phases THEN "Failed" ELSE "Succeeded"

\* A workflow is done when all its steps are recorded and none is active.
computeWorkflowPhase(items, statuses) ==
  LET found == {i \in items : statuses[i].phase # "none"}
      hasRunning == \E i \in found : statuses[i].phase \in ActiveStepPhases
      hasFailed == \E i \in found : statuses[i].phase = "Failed"
      allDone == found = items /\ ~hasRunning
  IN  IF found = {} THEN "Pending"
      ELSE IF allDone THEN IF hasFailed THEN "Failed" ELSE "Succeeded"
      ELSE IF hasRunning THEN "Running" ELSE "Pending"

\* Durations are signed and wrap around.
duration(d) == ((d + DurationLimit) % (2 * DurationLimit)) - DurationLimit

\* The delay doubles with every retry, wherever that takes it; then the cap is
\* applied.
backoffDelay(backoff, retryCount) ==
  LET delay == duration(backoff.initialDelay * 2^retryCount)
  IN  IF backoff.maxDelay # 0 /\ delay > backoff.maxDelay
        THEN backoff.maxDelay ELSE delay

\* No backoff is applied to a step without CompletedAt.
retryBackoffElapsed(backoff, s, now) ==
  \/ backoff.initialDelay = 0
  \/ s.completedAt = 0
  \/ now - s.completedAt >= backoffDelay(backoff, s.retryCount)
=============================================================================
