---------------------------- MODULE MCJobWorkflow ----------------------------
(* Finite instances of JobWorkflow: two jobs A and B, steps a and b. *)
EXTENDS JobWorkflow

CONSTANTS A, B, a, b, x, y

every(S, v) == [s \in S |-> v]

\* A runs a, B needs A and runs b, each under a Runner name of its own.
MCBase ==
  [jobs |-> <<A, B>>, needs |-> [every(Jobs, {}) EXCEPT ![B] = {A}],
   when |-> every(Jobs, "on_success"),
   steps |-> [every(Jobs, <<a>>) EXCEPT ![B] = <<b>>],
   deps |-> every(Steps, {}), stepWhen |-> every(Steps, "on_success"),
   maxRetries |-> every(Steps, 0),
   runnerName |-> [every(Steps, x) EXCEPT ![b] = y], timeout |-> 0]

single == [MCBase EXCEPT !.jobs = <<A>>, !.steps = every(Jobs, <<a, b>>)]

MCQuota == {[single EXCEPT !.deps[b] = {a}]}
MCTimeout == {[MCBase EXCEPT !.timeout = 1]}
MCRetry == {[MCBase EXCEPT !.when[B] = "on_failure", !.maxRetries[a] = 1]}
MCStale ==
  {MCBase, [MCBase EXCEPT !.jobs = <<B, A>>],
   [MCBase EXCEPT !.needs[B] = {}, !.steps[B] = <<a, b>>],   \* shared step
   [MCBase EXCEPT !.deps[b] = {a}],                          \* b is dropped
   [single EXCEPT !.runnerName[b] = x],                      \* one Runner name
   [single EXCEPT !.deps[b] = {a}, !.stepWhen[b] = "on_failure"],
   [MCBase EXCEPT !.when[A] = "on_failure"],                 \* A is skipped
   [MCBase EXCEPT !.needs[A] = {B}]}                         \* rejected
MCShapes == MCStale \cup MCQuota \cup MCTimeout \cup MCRetry
=============================================================================
