---------------------------- MODULE DagExecution ----------------------------
(***************************************************************************)
(* What the operator promises about the steps of a workflow: they run in    *)
(* the order of their dependencies, and what is reported has happened.     *)
(*                                                                         *)
(* There are no caches, queues, statuses or failures here: a step starts   *)
(* when it may, it may stop and start again, and reports name steps that   *)
(* succeeded, though not always all of them.                               *)
(***************************************************************************)
CONSTANTS Steps, Plans

VARIABLES
  plan,       \* the steps, their dependencies and conditions; never changes
  active,     \* steps that are being run, or were and still have a Runner
  succeeded,  \* steps that a run of succeeded
  reported    \* steps reported as succeeded

vars == <<plan, active, succeeded, reported>>

steps == {plan.order[i] : i \in DOMAIN plan.order}

\* No set of steps waits for itself or for steps that do not exist.
orderable ==
  \A S \in SUBSET steps :
    (\A s \in S : plan.deps[s] \cap S # {} \/ ~(plan.deps[s] \subseteq steps)) => S = {}

Init == plan \in Plans /\ active = {} /\ succeeded = {} /\ reported = {}

Start(s) ==
  /\ orderable /\ s \in steps \ active
  /\ plan.when[s] = "on_success" => plan.deps[s] \subseteq succeeded
  /\ active' = active \cup {s}
  /\ UNCHANGED <<plan, succeeded, reported>>

Succeed(s) ==
  /\ s \in active
  /\ succeeded' = succeeded \cup {s}
  /\ UNCHANGED <<plan, active, reported>>

Stop(s) ==
  /\ s \in active
  /\ active' = active \ {s}
  /\ UNCHANGED <<plan, succeeded, reported>>

Report ==
  /\ reported' \subseteq succeeded
  /\ UNCHANGED <<plan, active, succeeded>>

Next == Report \/ \E s \in Steps : Start(s) \/ Succeed(s) \/ Stop(s)

Spec == Init /\ [][Next]_vars
=============================================================================
