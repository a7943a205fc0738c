--------------------------- MODULE MCFlatWorkflow ---------------------------
(* Finite instances of FlatWorkflow for TLC: the workflows to consider. *)
EXTENDS FlatWorkflow

CONSTANTS a, b, c

NoBackoff == [initialDelay |-> 0, maxDelay |-> 0]

\* A workflow of the steps in order, with the given dependencies, conditions
\* and retries, and nothing else.
flow(order, deps, when, retries) ==
  [order |-> order, deps |-> [s \in Steps |-> deps[s]],
   when |-> [s \in Steps |-> when[s]],
   maxRetries |-> [s \in Steps |-> retries],
   backoff |-> [s \in Steps |-> NoBackoff], timeout |-> 0]

every(v) == [s \in Steps |-> v]
on(s, v, rest) == [t \in Steps |-> IF t = s THEN v ELSE rest]

\* b after a, under each of the three conditions; a and b retry once.
MCPairs ==
  {flow(<<a, b>>, on(b, {a}, {}), on(b, w, "on_success"), 1) : w \in Whens}

\* b runs after a, whatever a does.  No retries.
MCLoose == {flow(<<a, b>>, on(b, {a}, {}), on(b, "always", "on_success"), 0)}

\* A chain of three; a fork; a join.
MCTriples ==
  {flow(<<a, b, c>>, [every({}) EXCEPT ![b] = {a}, ![c] = {b}], every("on_success"), 0),
   flow(<<a, b, c>>, [every({}) EXCEPT ![b] = {a}, ![c] = {a}], on(b, "on_failure", "on_success"), 0),
   flow(<<a, b, c>>, on(c, {a, b}, {}), on(c, "on_failure", "on_success"), 0)}

MCChain == {flow(<<a, b>>, on(b, {a}, {}), every("on_success"), 0)}
MCSingle == {flow(<<a>>, every({}), every("on_success"), 1)}
MCDeleted ==
  {flow(<<b, c>>, on(c, {b}, {}), every("on_success"), 0)} \cup
  {[f EXCEPT !.backoff = every([initialDelay |-> 2, maxDelay |-> 1]),
             !.maxRetries = every(2)] : f \in MCSingle}
MCRetryWithBackoff ==
  {[flow(<<a>>, every({}), every("on_success"), 1) EXCEPT
      !.backoff = every([initialDelay |-> 2, maxDelay |-> 0])]}

\* Workflows that detectCycle rejects, and one without steps.
MCRejected ==
  {flow(<<a, b>>, [every({}) EXCEPT ![a] = {b}, ![b] = {a}], every("on_success"), 0),
   flow(<<a, b>>, on(b, {b}, {}), every("on_success"), 0),
   flow(<<a>>, on(a, {b}, {}), every("on_success"), 0),
   flow(<<>>, every({}), every("on_success"), 0)}

\* As MCPairs, without retries.
MCPairsOnce == {[f EXCEPT !.maxRetries = every(0)] : f \in MCPairs}

\* Workflows whose passes may read old caches.
MCStale == MCPairsOnce \cup MCRejected

\* a is skipped, as it has no dependency that could fail; b follows it.
MCSkippedFirst == {flow(<<a, b>>, on(b, {a}, {}), every("on_failure"), 0)}

MCShapes == MCPairs \cup MCTriples \cup MCSkippedFirst
MCFaults == MCStale \cup MCShapes \cup MCDeleted

\* Workflows that end: no step waits on one that may fail, or there is a timeout.
withTimeout(f) == [f EXCEPT !.timeout = 1]
MCEnding == MCLoose \cup {withTimeout(f) : f \in MCChain \cup MCSingle}
=============================================================================
