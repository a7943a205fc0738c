--------------------------- MODULE DagAlgorithms ---------------------------
(***************************************************************************)
(* The two pure algorithms a workflow pass runs on its list of steps:      *)
(* cycleDetector, the three-colour depth-first search that rejects a list, *)
(* and topologicalSortSteps, Kahn's algorithm, which orders the list the   *)
(* step loop then walks.  A list of steps is a sequence of sequences: item *)
(* i is the DependsOn list of the step whose name is i.  Names are unique  *)
(* (the CRD declares the list as a map keyed by name); a DependsOn list is *)
(* free, so it may repeat a name and may name a step that does not exist.  *)
(* Loops are one action per turn, and the recursive search is one action   *)
(* per call and per return, with its call stack as a variable: what holds  *)
(* of the result is then an invariant of the steps that lead to it.        *)
(***************************************************************************)
EXTENDS Naturals, Sequences, Functions

CONSTANT
    Inputs      \* the lists of steps considered

ASSUME InputsAssumption == Inputs \subseteq Seq(Seq(Nat))

VARIABLES
    checked,    \* TRUE: the caller runs cycleDetector first, as
                \* reconcileFlatWorkflow does; FALSE: it sorts at once, as
                \* reconcileJobSteps does for the steps inside a job
    items,      \* the list of steps
    verdict,    \* what cycleDetector returned, "none" before it has run
    item,       \* the item at which the outer loop of a search or sort is
    visited,    \* search: 0 unvisited, 1 on the stack, 2 finished
    stack,      \* search: the calls of dfs that have not returned
    inDegree,   \* Kahn: occurrences of names not yet released, per step
    queue,      \* Kahn: the steps with no such occurrence left, in order
    toRelease,  \* Kahn: children of the step placed last, still to be released
    sorted,     \* Kahn: the result so far
    pc          \* "names", "search", "sort", "roots", "visit", then "done"

searchVars == <<verdict, visited, stack>>
sortVars == <<inDegree, queue, toRelease, sorted>>
vars == <<checked, items, verdict, item, visited, stack,
          inDegree, queue, toRelease, sorted, pc>>

Names == DOMAIN items

dependsOn(i) == Range(items[i])

Init ==
    /\ checked \in BOOLEAN
    /\ items \in Inputs
    /\ verdict = "none"
    /\ item = 1
    /\ visited = [n \in Names |-> 0]
    /\ stack = << >>
    /\ inDegree = [n \in Names |-> 0]
    /\ queue = << >>
    /\ toRelease = {}
    /\ sorted = << >>
    /\ pc = IF checked THEN "names" ELSE "sort"

(***************************************************************************)
(* cycleDetector                                                           *)
(***************************************************************************)

\* Unknown names are looked for in the whole list before any search starts.
CheckNames ==
    /\ pc = "names"
    /\ IF \A i \in Names : dependsOn(i) \subseteq Names
         THEN pc' = "search" /\ UNCHANGED verdict
         ELSE pc' = "done" /\ verdict' = "unknown"
    /\ UNCHANGED <<checked, items, item, visited, stack, sortVars>>

\* Mutant: a search that colours a step black as soon as it enters it.
dfsTwoColours(cur, callers) ==
    /\ visited' = [visited EXCEPT ![cur] = 2]
    /\ stack' = IF visited[cur] = 0 THEN Append(callers, [cur |-> cur, next |-> 1])
                ELSE callers
    /\ UNCHANGED <<verdict, pc>>

\* A call of dfs.  A step on the stack is found again: all callers return true
\* and the search ends.  A finished one returns false at once.
dfs(cur, callers) ==
    \/ /\ visited[cur] = 1
       /\ verdict' = "cycle" /\ pc' = "done" /\ stack' = << >>
       /\ UNCHANGED visited
    \/ /\ visited[cur] = 2
       /\ stack' = callers
       /\ UNCHANGED <<verdict, visited, pc>>
    \/ /\ visited[cur] = 0
       /\ visited' = [visited EXCEPT ![cur] = 1]
       /\ stack' = Append(callers, [cur |-> cur, next |-> 1])
       /\ UNCHANGED <<verdict, pc>>

SearchItem ==
    /\ pc = "search" /\ stack = << >> /\ item <= Len(items)
    /\ dfs(item, stack)
    /\ item' = item + 1
    /\ UNCHANGED <<checked, items, sortVars>>

frame == stack[Len(stack)]

SearchDep ==
    /\ pc = "search" /\ stack # << >> /\ frame.next <= Len(items[frame.cur])
    /\ dfs(items[frame.cur][frame.next],
           [stack EXCEPT ![Len(stack)].next = @ + 1])
    /\ UNCHANGED <<checked, items, item, sortVars>>

FinishStep ==
    /\ pc = "search" /\ stack # << >> /\ frame.next > Len(items[frame.cur])
    /\ visited' = [visited EXCEPT ![frame.cur] = 2]
    /\ stack' = SubSeq(stack, 1, Len(stack) - 1)
    /\ UNCHANGED <<checked, items, verdict, item, sortVars, pc>>

\* Only a list without cycle is sorted.
EndSearch ==
    /\ pc = "search" /\ stack = << >> /\ item > Len(items)
    /\ verdict' = "acyclic"
    /\ pc' = "sort"
    /\ UNCHANGED <<checked, items, item, visited, stack, sortVars>>

(***************************************************************************)
(* topologicalSortSteps                                                    *)
(***************************************************************************)

StartSort ==
    /\ pc = "sort"
    /\ inDegree' = [n \in Names |-> Len(items[n])]
    /\ item' = 1
    /\ pc' = "roots"
    /\ UNCHANGED <<checked, items, searchVars, queue, toRelease, sorted>>

\* Mutant: a step with one dependency is queued at the start.
isRootLoose(n) == inDegree[n] <= 1

isRoot(n) == inDegree[n] = 0

\* The queue starts with the steps that depend on nothing, in list order.
QueueRoot ==
    /\ pc = "roots" /\ item <= Len(items)
    /\ queue' = IF isRoot(item) THEN Append(queue, item) ELSE queue
    /\ item' = item + 1
    /\ UNCHANGED <<checked, items, searchVars, inDegree, toRelease, sorted, pc>>

EndRoots ==
    /\ pc = "roots" /\ item > Len(items)
    /\ pc' = "visit"
    /\ UNCHANGED <<checked, items, item, searchVars, sortVars>>

\* Mutant: a dependant is noted once, however often it lists dep.
childrenOnce(dep) ==
    {o \in UNION {{n} \X DOMAIN items[n] : n \in Names} :
       /\ items[o[1]][o[2]] = dep
       /\ \A k \in 1..(o[2] - 1) : items[o[1]][k] # dep}

\* children[dep]: the steps that list dep, once per occurrence.
children(dep) ==
    {o \in UNION {{n} \X DOMAIN items[n] : n \in Names} : items[o[1]][o[2]] = dep}

\* One turn of the outer loop: the head of the queue is placed.
Visit ==
    /\ pc = "visit" /\ toRelease = {} /\ queue # << >>
    /\ sorted' = Append(sorted, Head(queue))
    /\ queue' = Tail(queue)
    /\ toRelease' = children(Head(queue))
    /\ UNCHANGED <<checked, items, item, searchVars, inDegree, pc>>

\* children[dep] was filled by going over the list, and over each DependsOn.
first(o, S) ==
    \A p \in S : o[1] < p[1] \/ (o[1] = p[1] /\ o[2] <= p[2])

\* One turn of the inner loop: a child is queued when its count reaches 0.
Release ==
    /\ pc = "visit"
    /\ \E o \in toRelease :
         /\ first(o, toRelease)
         /\ toRelease' = toRelease \ {o}
         /\ inDegree' = [inDegree EXCEPT ![o[1]] = @ - 1]
         /\ queue' = IF inDegree'[o[1]] = 0 THEN Append(queue, o[1]) ELSE queue
    /\ UNCHANGED <<checked, items, item, searchVars, sorted, pc>>

Return ==
    /\ pc = "visit" /\ toRelease = {} /\ queue = << >>
    /\ pc' = "done"
    /\ UNCHANGED <<checked, items, item, searchVars, sortVars>>

Next ==
    \/ CheckNames \/ SearchItem \/ SearchDep \/ FinishStep \/ EndSearch
    \/ StartSort \/ QueueRoot \/ EndRoots \/ Visit \/ Release \/ Return

Spec == Init /\ [][Next]_vars

Frames == [cur : Names, next : Nat \ {0}]

TypeOK ==
    /\ checked \in BOOLEAN
    /\ items \in Seq(Seq(Nat))
    /\ verdict \in {"none", "unknown", "cycle", "acyclic"}
    /\ item \in 1..(Len(items) + 1)
    /\ visited \in [Names -> 0..2]
    /\ stack \in Seq(Frames)
    /\ inDegree \in [Names -> Nat]
    /\ queue \in Seq(Names)
    /\ toRelease \subseteq Names \X Nat
    /\ sorted \in Seq(Names)
    /\ pc \in {"names", "search", "sort", "roots", "visit", "done"}

(***************************************************************************)
(* Properties                                                              *)
(***************************************************************************)

\* Each step of S depends on a step of S.  A finite set of steps has such a
\* subset, if any at all, exactly when there is a cycle.
closed(S) == \A i \in S : dependsOn(i) \cap S # {}

Cyclic == \E S \in SUBSET Names : S # {} /\ closed(S)

namesUnknown(i) == ~(dependsOn(i) \subseteq Names)

\* No step of S can go first: each waits for one of them, or for a step that does
\* not exist.
stuck(S) == \A i \in S : dependsOn(i) \cap S # {} \/ namesUnknown(i)

\* The steps that neither are nor depend on a step that is on a cycle or names
\* a step that does not exist.
Placeable == Names \ UNION {S \in SUBSET Names : stuck(S)}

\* cycleDetector's answer is the one of the reference definition, the one that
\* FlatWorkflow and JobWorkflow use: unknown when some dependency is not a step
\* of the list, otherwise cycle exactly when there is one.  The colours carried
\* from one search to the next hide no cycle and invent none.
VerdictIsRight ==
    verdict # "none" =>
        verdict = IF \E i \in Names : namesUnknown(i) THEN "unknown"
                  ELSE IF Cyclic THEN "cycle" ELSE "acyclic"

\* In what topologicalSortSteps has placed so far every dependency of a step
\* comes before it: the order that lets one walk of the step loop see each
\* dependency's new status first.
DependenciesPlacedFirst ==
    \A i \in DOMAIN sorted :
        \A d \in dependsOn(sorted[i]) : \E k \in 1..(i - 1) : sorted[k] = d

\* topologicalSortSteps returns each step that can be placed exactly once, and
\* no other.  A list that passed cycleDetector is thus returned whole, and a
\* step can only be dropped without a word inside a job, where reconcileJobSteps
\* does not run the detector: there the steps on or behind a cycle vanish and
\* the others run.
SortKeepsPlaceable ==
    pc = "done" /\ verdict \in {"none", "acyclic"} =>
        /\ Range(sorted) = Placeable /\ IsInjective(sorted)
        /\ verdict = "acyclic" => Placeable = Names
=============================================================================
