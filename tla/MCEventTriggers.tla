--------------------------- MODULE MCEventTriggers ---------------------------
(* EventTriggers with two triggers and two paths. *)
EXTENDS EventTriggers, TLC

CONSTANTS t1, t2, hookA, hookB, r1, r2, r3

\* A spec with the Secret and a limit, one without, one on the other path, one
\* that is not allowed in its namespace and one without a webhook.
MCSpecs == {"signed", "open", "other", "blocked", "none"}
MCPath == [s \in MCSpecs |-> CASE s = "other" -> hookB [] s = "none" -> NoPath
                               [] OTHER -> hookA]
MCMaxPerMinute == [s \in MCSpecs |-> CASE s = "signed" -> 1 [] s = "open" -> 2
                                       [] OTHER -> 0]
MCBudgets ==
  {[changes |-> 4, requests |-> 0, faults |-> 0],
   [changes |-> 3, requests |-> 0, faults |-> 1],
   [changes |-> 2, requests |-> 2, faults |-> 1],
   [changes |-> 1, requests |-> 3, faults |-> 0]}

\* Neither triggers nor requests are told apart by their names.
MCSymmetry == Permutations(Triggers) \cup Permutations(Requests)
=============================================================================
