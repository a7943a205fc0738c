------------------------ MODULE DagAlgorithmsProofs ------------------------
(***************************************************************************)
(* Proofs about DagAlgorithms, for every list of steps: cycleDetector is   *)
(* right, and topologicalSortSteps returns the steps that can be placed,   *)
(* each once and after its dependencies.  TypeOK, SearchInv and SortInv    *)
(* are inductive together.                                                 *)
(***************************************************************************)
EXTENDS DagAlgorithms, TLAPS

(***************************************************************************)
(* Inductive invariants                                                    *)
(***************************************************************************)

black == {n \in Names : visited[n] = 2}

\* The steps on the stack are the grey ones and form a path: each was called for
\* a dependency of the one below, whose earlier dependencies are finished.
pathInv ==
    /\ \A n \in Names : visited[n] = 1 => \E i \in DOMAIN stack : stack[i].cur = n
    /\ \A i \in DOMAIN stack :
         /\ visited[stack[i].cur] = 1
         /\ \A j \in DOMAIN stack : stack[i].cur = stack[j].cur => i = j
         /\ stack[i].next <= Len(items[stack[i].cur]) + 1
         /\ \A k \in 1..(stack[i].next - 1) :
              \/ items[stack[i].cur][k] \in black
              \/ /\ k = stack[i].next - 1 /\ i < Len(stack)
                 /\ items[stack[i].cur][k] = stack[i + 1].cur
         /\ i < Len(stack) =>
              /\ stack[i].next > 1
              /\ items[stack[i].cur][stack[i].next - 1] = stack[i + 1].cur

\* Finished steps depend on finished steps only, and not on one another in a
\* cycle.
blackInv ==
    /\ \A n \in black : dependsOn(n) \subseteq black
    /\ \A S \in SUBSET black : closed(S) => S = {}

\* What makes VerdictIsRight inductive.
SearchInv ==
    /\ pc = "search" =>
         /\ verdict = "none"
         /\ \A i \in Names : ~namesUnknown(i)
         /\ \A n \in 1..(item - 1) : visited[n] # 0
         /\ pathInv /\ blackInv
    /\ pc = "names" => verdict = "none" /\ item = 1 /\ stack = << >>
                       /\ visited = [n \in Names |-> 0]
    /\ verdict \in {"unknown", "cycle"} => pc = "done"
    /\ VerdictIsRight

\* The steps placed and those queued, in the order in which they were queued.
line == sorted \o queue

\* The occurrences in step n's DependsOn that have not been released.
waitsFor(n) ==
    {k \in DOMAIN items[n] : items[n][k] \notin Range(sorted) \/ <<n, k>> \in toRelease}

sortReturned == pc = "done" /\ verdict \in {"none", "acyclic"}

\* A count is the number of occurrences left.
counted == \A n \in Names : ExistsBijection(1..inDegree[n], waitsFor(n))

\* A step is in line exactly when nothing is left that it waits for.
inLine ==
    Range(line) = {n \in Names : inDegree[n] = 0 /\ (pc = "roots" => n < item)}

\* By then what it depends on is placed.
placedFirst ==
    \A i \in DOMAIN line : \A d \in dependsOn(line[i]) :
        \E k \in DOMAIN sorted : k < i /\ sorted[k] = d

\* No step that is stuck gets there.
noneStuck == \A S \in SUBSET Names : stuck(S) => S \cap Range(line) = {}

\* What makes the claims about the sort inductive.
SortInv ==
    /\ pc \notin {"roots", "visit"} /\ ~sortReturned =>
         queue = << >> /\ sorted = << >> /\ toRelease = {}
    /\ pc = "roots" => sorted = << >> /\ toRelease = {}
    /\ sortReturned => queue = << >> /\ toRelease = {}
    /\ toRelease # {} => sorted # << >> /\ toRelease \subseteq children(sorted[Len(sorted)])
    /\ pc \in {"roots", "visit"} \/ sortReturned => counted /\ inLine
    /\ IsInjective(line) /\ placedFirst /\ noneStuck

DagInv == TypeOK /\ SearchInv /\ SortInv

\* The names of the steps are the positions in the list.
LEMMA NamesAre ==
  ASSUME TypeOK
  PROVE  /\ Names = 1..Len(items)
         /\ Len(items) \in Nat /\ item \in Nat /\ item \in 1..(Len(items) + 1)
         /\ \A n \in Names : /\ items[n] \in Seq(Nat) /\ Len(items[n]) \in Nat
                             /\ DOMAIN items[n] = 1..Len(items[n])
<1>1. items \in Seq(Seq(Nat)) /\ item \in 1..(Len(items) + 1)
  BY DEF TypeOK
<1>2. /\ Names = 1..Len(items) /\ Len(items) \in Nat
      /\ \A n \in Names : items[n] \in Seq(Nat)
  BY <1>1 DEF Names
<1>3. \A q \in Seq(Nat) : Len(q) \in Nat /\ DOMAIN q = 1..Len(q)
  OBVIOUS
<1> QED BY <1>1, <1>2, <1>3

\* Positions in a sequence.
LEMMA PositionsAre ==
  /\ \A a \in Nat : 1 <= a + 1
  /\ \A a, b \in Nat : a < b => a < b + 1
  /\ \A a, b, c \in Nat : 1 <= a /\ a <= b /\ b <= c /\ b # c =>
       b \in 1..c /\ b < c /\ b + 1 \in a..c
OBVIOUS

\* Sequences of elements of a set, whatever the set is.
LEMMA SequenceIs ==
  ASSUME NEW S, NEW q \in Seq(S)
  PROVE  /\ Len(q) \in Nat /\ DOMAIN q = 1..Len(q)
         /\ \A i \in 1..Len(q) : q[i] \in S
         /\ q # << >> => Len(q) \in DOMAIN q
OBVIOUS

\* The changes that the search makes to its stack.
LEMMA SequenceChanges ==
  ASSUME NEW S, NEW q \in Seq(S), NEW e \in S
  PROVE  /\ q # << >> =>
              /\ [q EXCEPT ![Len(q)] = e] \in Seq(S)
              /\ Len([q EXCEPT ![Len(q)] = e]) = Len(q)
              /\ SubSeq(q, 1, Len(q) - 1) \in Seq(S)
              /\ Len(SubSeq(q, 1, Len(q) - 1)) = Len(q) - 1
              /\ \A i \in 1..(Len(q) - 1) : SubSeq(q, 1, Len(q) - 1)[i] = q[i]
         /\ Append(q, e) \in Seq(S) /\ Len(Append(q, e)) = Len(q) + 1
         /\ Append(q, e)[Len(q) + 1] = e
         /\ \A i \in 1..Len(q) : Append(q, e)[i] = q[i]
<1>1. /\ Append(q, e) \in Seq(S) /\ Len(Append(q, e)) = Len(q) + 1
      /\ Append(q, e)[Len(q) + 1] = e
      /\ \A i \in 1..Len(q) : Append(q, e)[i] = q[i]
  OBVIOUS
<1>2. ASSUME q # << >>
      PROVE  /\ [q EXCEPT ![Len(q)] = e] \in Seq(S)
             /\ Len([q EXCEPT ![Len(q)] = e]) = Len(q)
  <2>1. Len(q) \in DOMAIN q
    BY <1>2
  <2> QED BY <2>1
<1>3. ASSUME q # << >>
      PROVE  /\ SubSeq(q, 1, Len(q) - 1) \in Seq(S)
             /\ Len(SubSeq(q, 1, Len(q) - 1)) = Len(q) - 1
             /\ \A i \in 1..(Len(q) - 1) : SubSeq(q, 1, Len(q) - 1)[i] = q[i]
  <2>1. Len(q) - 1 \in Nat /\ Len(q) \in Nat
    BY <1>3
  <2>2. \A i \in 1..(Len(q) - 1) : i \in 1..Len(q) /\ q[i] \in S
    BY <2>1
  <2>3. SubSeq(q, 1, Len(q) - 1) = [i \in 1..(Len(q) - 1) |-> q[i]]
    BY <2>1
  <2>4. [i \in 1..(Len(q) - 1) |-> q[i]] \in Seq(S)
    BY <2>1, <2>2
  <2>5. Len([i \in 1..(Len(q) - 1) |-> q[i]]) = Len(q) - 1
    BY <2>1
  <2>6. \A i \in 1..(Len(q) - 1) : [j \in 1..(Len(q) - 1) |-> q[j]][i] = q[i]
    OBVIOUS
  <2> QED BY <2>3, <2>4, <2>5, <2>6, Zenon
<1> QED BY <1>1, <1>2, <1>3

\* The stack of the search, by position.
LEMMA StackIs ==
  ASSUME TypeOK
  PROVE  /\ stack \in Seq(Frames) /\ Len(stack) \in Nat /\ DOMAIN stack = 1..Len(stack)
         /\ \A i \in DOMAIN stack :
              /\ stack[i] \in Frames /\ stack[i].cur \in Names
              /\ stack[i].next \in Nat \ {0}
         /\ stack # << >> => Len(stack) \in DOMAIN stack
<1>1. stack \in Seq(Frames)
  BY DEF TypeOK, Frames
<1>2. /\ Len(stack) \in Nat /\ DOMAIN stack = 1..Len(stack)
      /\ \A i \in 1..Len(stack) : stack[i] \in Frames
      /\ stack # << >> => Len(stack) \in DOMAIN stack
  BY <1>1, SequenceIs
<1>3. \A f \in Frames : f.cur \in Names /\ f.next \in Nat \ {0}
  BY DEF Frames
<1> QED BY <1>1, <1>2, <1>3

(***************************************************************************)
(* cycleDetector                                                           *)
(***************************************************************************)

\* A step that is on the stack, and that the step on top depends on, is on a
\* cycle: each step from there up depends on the next.
LEMMA PathCloses ==
  ASSUME TypeOK, pathInv, stack # << >>,
         NEW d \in dependsOn(frame.cur), visited[d] = 1, d \in Names
  PROVE  Cyclic
<1>1. PICK m \in DOMAIN stack : stack[m].cur = d
  BY DEF pathInv
<1> DEFINE S == {stack[i].cur : i \in m..Len(stack)}
<1>2. DOMAIN stack = 1..Len(stack) /\ Len(stack) \in Nat
      /\ \A i \in DOMAIN stack : stack[i].cur \in Names /\ stack[i].next \in Nat
  BY StackIs
<1>3. S \in SUBSET Names /\ d \in S
  BY <1>1, <1>2
<1>4. ASSUME NEW i \in m..Len(stack)
      PROVE  dependsOn(stack[i].cur) \cap S # {}
  <2>1. CASE i = Len(stack)
    BY <2>1, <1>3 DEF frame
  <2>2. CASE i # Len(stack)
    <3>1. i \in DOMAIN stack /\ i < Len(stack) /\ i + 1 \in m..Len(stack)
      <4>1. m \in Nat /\ 1 <= m /\ m <= Len(stack)
        BY <1>2
      <4>2. i \in Nat /\ m <= i /\ i <= Len(stack)
        BY <4>1, <1>2
      <4>3. i \in 1..Len(stack) /\ i < Len(stack) /\ i + 1 \in m..Len(stack)
        BY Zenon, <4>1, <4>2, <2>2, <1>2, PositionsAre
      <4> QED BY <4>3, <1>2
    <3>2. /\ stack[i].next > 1 /\ stack[i].next <= Len(items[stack[i].cur]) + 1
          /\ items[stack[i].cur][stack[i].next - 1] = stack[i + 1].cur
      BY <3>1, <1>2 DEF pathInv
    <3>3. stack[i].next \in Nat /\ stack[i].cur \in Names
      BY <3>1, <1>2
    <3>4. stack[i].next - 1 \in DOMAIN items[stack[i].cur]
      <4>1. Len(items[stack[i].cur]) \in Nat
            /\ DOMAIN items[stack[i].cur] = 1..Len(items[stack[i].cur])
        BY <3>3, NamesAre
      <4> QED BY <3>2, <3>3, <4>1
    <3>5. stack[i + 1].cur \in dependsOn(stack[i].cur)
      BY <3>2, <3>4 DEF dependsOn, Range
    <3>6. stack[i + 1].cur \in S
      BY <3>1
    <3> QED BY <3>5, <3>6
  <2> QED BY <2>1, <2>2
<1>5. closed(S)
  BY <1>4 DEF closed
<1> QED BY Zenon, <1>3, <1>5 DEF Cyclic

\* A step whose dependencies are all finished can be finished.
LEMMA BlackGrows ==
  ASSUME blackInv, NEW c \in Names, c \notin black, dependsOn(c) \subseteq black,
         NEW S \in SUBSET (black \cup {c}), closed(S)
  PROVE  S = {}
<1>1. SUFFICES ASSUME c \in S PROVE FALSE
  BY DEF blackInv
<1>2. closed(S \ {c})
  BY DEF closed, blackInv
<1>3. S \ {c} = {}
  BY <1>2 DEF blackInv
<1>4. dependsOn(c) \cap S # {}
  BY <1>1 DEF closed
<1> QED BY <1>3, <1>4

\* What dfs does to the colours and to the stack.
LEMMA SearchItemStep ==
  ASSUME TypeOK, SearchInv, SearchItem
  PROVE  SearchInv'
<1> DEFINE new == [cur |-> item, next |-> 1]
<1>0. /\ pc = "search" /\ stack = << >> /\ item <= Len(items) /\ item \in Names
      /\ items' = items /\ item' = item + 1 /\ item \in Nat
      /\ pathInv /\ blackInv /\ verdict = "none"
  BY NamesAre DEF SearchItem, SearchInv, TypeOK
<1>1. visited[item] # 1
  BY <1>0 DEF pathInv
<1>2. CASE visited[item] = 2
  <2>1. visited' = visited /\ stack' = stack /\ verdict' = verdict /\ pc' = pc
    BY <1>2, <1>0 DEF SearchItem, dfs
  <2>2. pathInv' /\ blackInv'
    BY SMTT(30), <2>1, <1>0 DEF pathInv, blackInv, black, closed, dependsOn, Names
  <2>3. \A n \in 1..(item' - 1) : visited'[n] # 0
    BY <2>1, <1>0, <1>2 DEF SearchInv
  <2> QED
    BY <2>1, <2>2, <2>3, <1>0
    DEF SearchInv, VerdictIsRight, namesUnknown, dependsOn, Names
<1>3. CASE visited[item] = 0
  <2>1. /\ visited' = [visited EXCEPT ![item] = 1] /\ stack' = << new >>
        /\ verdict' = verdict /\ pc' = pc
    BY <1>3, <1>0 DEF SearchItem, dfs
  <2>2. black' = black
    BY <2>1, <1>0, <1>3 DEF black, TypeOK, Names
  <2>3. \A n \in Names : visited'[n] = IF n = item THEN 1 ELSE visited[n]
    BY <2>1, <1>0 DEF TypeOK
  <2>4. pathInv'
    BY <2>1, <2>3, <1>0 DEF pathInv, Names
  <2>5. blackInv'
    BY <2>2, <1>0 DEF blackInv, closed, dependsOn
  <2>6. \A n \in 1..(item' - 1) : visited'[n] # 0
    BY <2>3, <1>0, NamesAre DEF SearchInv
  <2> QED
    BY <2>1, <2>4, <2>5, <2>6, <1>0
    DEF SearchInv, VerdictIsRight, namesUnknown, dependsOn, Names
<1> QED BY <1>0, <1>1, <1>2, <1>3 DEF TypeOK, SearchItem, dfs

\* The step on top of the stack calls dfs for its next dependency.
LEMMA SearchDepStep ==
  ASSUME TypeOK, SearchInv, SearchDep
  PROVE  SearchInv'
<1> DEFINE top == Len(stack)
           c == stack[top].cur
           k == stack[top].next
           d == items[c][k]
           callers == [stack EXCEPT ![top].next = @ + 1]
<1>0. /\ pc = "search" /\ stack # << >> /\ k <= Len(items[c])
      /\ items' = items /\ item' = item
      /\ pathInv /\ blackInv /\ verdict = "none"
      /\ \A i \in Names : ~namesUnknown(i)
  BY DEF SearchDep, SearchInv, frame
<1>1. /\ top \in DOMAIN stack /\ top \in Nat /\ DOMAIN stack = 1..top
      /\ \A i \in DOMAIN stack : stack[i].cur \in Names /\ stack[i].next \in Nat \ {0}
  BY <1>0, StackIs
<1>2. k \in DOMAIN items[c] /\ d \in dependsOn(c) /\ d \in Names
  <2>1. k \in DOMAIN items[c]
    BY <1>0, <1>1, NamesAre
  <2> QED BY <2>1, <1>0, <1>1 DEF namesUnknown, dependsOn, Range
<1>3. /\ Len(callers) = top /\ DOMAIN callers = DOMAIN stack
      /\ \A i \in DOMAIN stack :
           /\ callers[i].cur = stack[i].cur
           /\ callers[i].next = IF i = top THEN k + 1 ELSE stack[i].next
  BY <1>1 DEF TypeOK
<1>4. dfs(d, callers)
  BY DEF SearchDep, frame
<1>5. CASE visited[d] = 1
  <2>1. verdict' = "cycle" /\ pc' = "done"
    BY <1>4, <1>5 DEF dfs
  <2>2. Cyclic
    BY <1>0, <1>2, <1>5, PathCloses DEF frame
  <2>3. Cyclic'
    BY <2>2, <1>0 DEF Cyclic, closed, dependsOn, Names
  <2> QED
    BY <2>1, <2>3, <1>0 DEF SearchInv, VerdictIsRight, namesUnknown, dependsOn, Names
<1>6. CASE visited[d] = 2
  <2>1. visited' = visited /\ stack' = callers /\ verdict' = verdict /\ pc' = pc
    BY <1>4, <1>6 DEF dfs
  <2>2. black' = black /\ Names' = Names
    BY Zenon, <2>1, <1>0 DEF black, Names
  <2>3. d \in black
    BY <1>6, <1>2 DEF black
  <2>4. pathInv'
    <3>1. \A n \in Names : visited[n] = 1 => \E i \in DOMAIN stack' : stack'[i].cur = n
      BY <2>1, <1>3, <1>0 DEF pathInv
    <3>2. ASSUME NEW i \in DOMAIN stack
          PROVE  /\ visited[callers[i].cur] = 1
                 /\ \A j \in DOMAIN stack : callers[i].cur = callers[j].cur => i = j
                 /\ callers[i].next <= Len(items[callers[i].cur]) + 1
      <4>1. /\ visited[stack[i].cur] = 1
            /\ \A j \in DOMAIN stack : stack[i].cur = stack[j].cur => i = j
            /\ stack[i].next <= Len(items[stack[i].cur]) + 1
        BY <1>0 DEF pathInv
      <4>2. Len(items[stack[i].cur]) \in Nat
        BY <1>1, NamesAre
      <4> HIDE DEF callers
      <4> QED BY <4>1, <4>2, <1>0, <1>1, <1>3
    <3>3. ASSUME NEW i \in DOMAIN stack, NEW q \in 1..(callers[i].next - 1)
          PROVE  \/ items[callers[i].cur][q] \in black
                 \/ /\ q = callers[i].next - 1 /\ i < top
                    /\ items[callers[i].cur][q] = callers[i + 1].cur
      <4>1. CASE i = top
        <5>1. CASE q = k
          BY Zenon, <5>1, <4>1, <2>3, <1>3
        <5>2. CASE q # k
          BY <5>2, <4>1, <1>0, <1>1, <1>3 DEF pathInv
        <5> QED BY Zenon, <5>1, <5>2
      <4>2. CASE i # top
        <5>1. i < top /\ i + 1 \in DOMAIN stack
          BY <4>2, <1>1
        <5> QED BY <5>1, <4>2, <1>0, <1>1, <1>3 DEF pathInv
      <4> QED BY <4>1, <4>2
    <3>4. ASSUME NEW i \in DOMAIN stack, i < top
          PROVE  /\ callers[i].next > 1
                 /\ items[callers[i].cur][callers[i].next - 1] = callers[i + 1].cur
      <4>1. i + 1 \in DOMAIN stack
        BY <3>4, <1>1
      <4> QED BY <4>1, <3>4, <1>0, <1>1, <1>3 DEF pathInv
    <3> HIDE DEF callers
    <3> QED
      BY <3>1, <3>2, <3>3, <3>4, <2>1, <2>2, <1>0, <1>3 DEF pathInv
  <2>5. blackInv'
    BY Zenon, <2>2, <1>0 DEF blackInv, closed, dependsOn
  <2> QED
    BY <2>1, <2>4, <2>5, <1>0
    DEF SearchInv, VerdictIsRight, namesUnknown, dependsOn, Names
<1>7. CASE visited[d] = 0
  <2> DEFINE new == [cur |-> d, next |-> 1]
  <2>1. /\ visited' = [visited EXCEPT ![d] = 1] /\ stack' = Append(callers, new)
        /\ verdict' = verdict /\ pc' = pc
    BY <1>4, <1>7 DEF dfs
  <2>2. \A n \in Names : visited'[n] = IF n = d THEN 1 ELSE visited[n]
    BY <2>1, <1>2 DEF TypeOK
  <2>3. black' = black /\ Names' = Names
    BY <2>2, <1>0, <1>7 DEF black, Names
  <2>4. callers \in Seq(Frames) /\ new \in Frames
    <3> DEFINE e == [stack[top] EXCEPT !.next = @ + 1]
    <3>1. e \in Frames /\ new \in Frames
      <4>1. stack[top] \in Frames /\ d \in Names
        BY <1>0, <1>2, StackIs
      <4>2. \A f \in Frames : [f EXCEPT !.next = @ + 1] \in Frames
        BY DEF Frames
      <4> QED BY <4>1, <4>2 DEF Frames
    <3>2. callers = [stack EXCEPT ![top] = e]
      OBVIOUS
    <3> HIDE DEF e
    <3> QED BY Zenon, <3>1, <3>2, <1>0, StackIs, SequenceChanges
  <2>5. /\ Len(stack') = top + 1 /\ DOMAIN stack' = 1..(top + 1)
        /\ stack'[top + 1] = new
        /\ \A i \in DOMAIN stack : stack'[i] = callers[i]
    <3> HIDE DEF callers, new
    <3>1. stack' \in Seq(Frames) /\ Len(stack') = Len(callers) + 1
          /\ stack'[Len(callers) + 1] = new
          /\ \A i \in 1..Len(callers) : stack'[i] = callers[i]
      BY <2>1, <2>4, SequenceChanges
    <3> QED BY <3>1, <1>1, <1>3, SequenceIs
  <2>6. pathInv'
    <3> HIDE DEF callers
    <3>1. ASSUME NEW n \in Names, visited'[n] = 1
          PROVE  \E i \in DOMAIN stack' : stack'[i].cur = n
      <4>1. CASE n = d
        BY <4>1, <2>5, <1>1
      <4>2. CASE n # d
        <5>1. PICK i \in DOMAIN stack : stack[i].cur = n
          BY <4>2, <3>1, <2>2, <1>0 DEF pathInv
        <5> QED BY <5>1, <2>5, <1>1, <1>3
      <4> QED BY <4>1, <4>2
    <3>2. \A i \in DOMAIN stack : stack[i].cur # d /\ visited[stack[i].cur] = 1
      BY <1>0, <1>7 DEF pathInv
    <3>3. ASSUME NEW i \in DOMAIN stack'
          PROVE  /\ visited'[stack'[i].cur] = 1
                 /\ \A j \in DOMAIN stack' : stack'[i].cur = stack'[j].cur => i = j
                 /\ stack'[i].next <= Len(items[stack'[i].cur]) + 1
      <4>1. CASE i = top + 1
        <5>1. stack'[i].cur = d /\ stack'[i].next = 1 /\ visited'[d] = 1
          BY <4>1, <2>2, <2>5, <1>2
        <5>2. ASSUME NEW j \in DOMAIN stack', stack'[j].cur = d
              PROVE  j = i
          <6>1. CASE j # top + 1
            <7>1. j \in DOMAIN stack
              BY <6>1, <2>5, <1>1
            <7> QED BY <7>1, <5>2, <3>2, <2>5, <1>3
          <6> QED BY Zenon, <6>1, <4>1
        <5>3. Len(items[d]) \in Nat
          BY <1>2, NamesAre
        <5>4. stack'[i].next <= Len(items[stack'[i].cur]) + 1
          <6>1. 1 <= Len(items[d]) + 1
            BY Zenon, <5>3, PositionsAre
          <6> HIDE DEF d
          <6> QED BY <6>1, <5>1
        <5>5. \A j \in DOMAIN stack' : stack'[i].cur = stack'[j].cur => i = j
          BY <5>1, <5>2
        <5> QED BY Zenon, <5>1, <5>4, <5>5
      <4>2. CASE i # top + 1
        <5>1. i \in DOMAIN stack
          BY <4>2, <2>5, <1>1
        <5>2. visited'[stack'[i].cur] = 1
          BY <5>1, <3>2, <2>2, <2>5, <1>1, <1>3
        <5>3. ASSUME NEW j \in DOMAIN stack', stack'[i].cur = stack'[j].cur
              PROVE  i = j
          <6>1. CASE j = top + 1
            BY <6>1, <5>1, <5>3, <3>2, <2>5, <1>3
          <6>2. CASE j # top + 1
            BY <6>2, <5>1, <5>3, <2>5, <1>0, <1>1, <1>3 DEF pathInv
          <6> QED BY <6>1, <6>2
        <5>4. stack'[i].next <= Len(items[stack'[i].cur]) + 1
          <6>1. stack'[i].cur = stack[i].cur
                /\ stack'[i].next = IF i = top THEN k + 1 ELSE stack[i].next
            BY <5>1, <2>5, <1>3
          <6>2. stack[i].next <= Len(items[stack[i].cur]) + 1
            BY <5>1, <1>0 DEF pathInv
          <6>3. Len(items[stack[i].cur]) \in Nat
            BY <5>1, <1>1, NamesAre
          <6> QED BY <6>1, <6>2, <6>3, <1>0, <1>1
        <5> QED BY <5>2, <5>3, <5>4
      <4> QED BY Zenon, <4>1, <4>2
    <3>4. ASSUME NEW i \in DOMAIN stack', NEW q \in 1..(stack'[i].next - 1)
          PROVE  \/ items[stack'[i].cur][q] \in black
                 \/ /\ q = stack'[i].next - 1 /\ i < top + 1
                    /\ items[stack'[i].cur][q] = stack'[i + 1].cur
      <4>1. i # top + 1
        BY <2>5
      <4>2. i \in DOMAIN stack /\ stack'[i] = callers[i] /\ i + 1 \in DOMAIN stack'
        BY <4>1, <2>5, <1>1
      <4>3. CASE i = top
        <5>1. CASE q = k
          BY <5>1, <4>2, <4>3, <2>5, <1>1, <1>3
        <5>2. CASE q # k
          <6>1. callers[top].cur = c /\ callers[top].next = k + 1 /\ k \in Nat
            BY <1>1, <1>3
          <6>2. q \in 1..(k - 1)
            BY <6>1, <5>2, <4>2, <4>3
          <6>3. items[c][q] \in black
            BY <6>2, <1>0, <1>1 DEF pathInv
          <6> QED BY <6>1, <6>3, <4>2, <4>3
        <5> QED BY <5>1, <5>2
      <4>4. CASE i # top
        <5>1. i < top /\ i + 1 \in DOMAIN stack
          BY <4>4, <4>2, <1>1
        <5>2. /\ stack'[i].cur = stack[i].cur /\ stack'[i].next = stack[i].next
              /\ stack'[i + 1].cur = stack[i + 1].cur
          BY <5>1, <4>2, <4>4, <2>5, <1>3
        <5>3. \/ items[stack[i].cur][q] \in black
              \/ /\ q = stack[i].next - 1
                 /\ items[stack[i].cur][q] = stack[i + 1].cur
          BY <5>2, <4>2, <1>0 DEF pathInv
        <5>4. i < top + 1
          <6>1. i \in Nat /\ top \in Nat
            BY <4>2, <1>1
          <6> QED BY <5>1, <6>1, PositionsAre
        <5> QED BY <5>2, <5>3, <5>4
      <4> QED BY <4>3, <4>4
    <3>5. ASSUME NEW i \in DOMAIN stack', i < top + 1
          PROVE  /\ stack'[i].next > 1
                 /\ items[stack'[i].cur][stack'[i].next - 1] = stack'[i + 1].cur
      <4>1. i \in DOMAIN stack /\ stack'[i] = callers[i]
        BY <3>5, <2>5, <1>1
      <4>2. CASE i = top
        BY <4>1, <4>2, <2>5, <1>1, <1>3
      <4>3. CASE i # top
        <5>1. i < top /\ i + 1 \in DOMAIN stack
          BY <4>3, <4>1, <1>1
        <5>2. /\ stack'[i].cur = stack[i].cur /\ stack'[i].next = stack[i].next
              /\ stack'[i + 1].cur = stack[i + 1].cur
          BY <5>1, <4>1, <4>3, <2>5, <1>3
        <5>3. /\ stack[i].next > 1
              /\ items[stack[i].cur][stack[i].next - 1] = stack[i + 1].cur
          BY <5>1, <4>1, <1>0 DEF pathInv
        <5> QED BY <5>2, <5>3
      <4> QED BY <4>2, <4>3
    <3> QED
      BY <3>1, <3>3, <3>4, <3>5, <2>3, <2>5, <1>0 DEF pathInv
  <2>7. blackInv'
    BY Zenon, <2>3, <1>0 DEF blackInv, closed, dependsOn
  <2>8. \A n \in 1..(item' - 1) : visited'[n] # 0
    <3>1. \A n \in 1..(item - 1) : n \in Names /\ visited[n] # 0
      BY <1>0, NamesAre DEF SearchInv
    <3> QED BY <3>1, <2>2, <1>0
  <2> QED
    BY Zenon, <2>1, <2>6, <2>7, <2>8, <1>0
    DEF SearchInv, VerdictIsRight, namesUnknown, dependsOn, Names
<1>8. visited[d] \in 0..2
  BY Zenon, <1>2 DEF TypeOK
<1> QED BY <1>5, <1>6, <1>7, <1>8

\* The step on top of the stack has no dependency left and is finished.
LEMMA FinishStepStep ==
  ASSUME TypeOK, SearchInv, FinishStep
  PROVE  SearchInv'
<1> DEFINE top == Len(stack)
           c == stack[top].cur
<1>0. /\ pc = "search" /\ stack # << >> /\ stack[top].next > Len(items[c])
      /\ visited' = [visited EXCEPT ![c] = 2] /\ stack' = SubSeq(stack, 1, top - 1)
      /\ items' = items /\ item' = item /\ verdict' = verdict /\ pc' = pc
      /\ pathInv /\ blackInv /\ verdict = "none"
  BY DEF FinishStep, SearchInv, frame
<1>1. /\ top \in DOMAIN stack /\ top \in Nat /\ DOMAIN stack = 1..top
      /\ \A i \in DOMAIN stack : stack[i].cur \in Names /\ stack[i].next \in Nat \ {0}
  BY <1>0, StackIs
<1>2. /\ Len(stack') = top - 1 /\ DOMAIN stack' = 1..(top - 1)
      /\ \A i \in DOMAIN stack' : stack'[i] = stack[i] /\ i \in DOMAIN stack /\ i # top
  <2>1. /\ stack' \in Seq(Frames) /\ Len(stack') = top - 1
        /\ \A i \in 1..(top - 1) : stack'[i] = stack[i]
    BY <1>0, <1>1, StackIs, SequenceChanges
  <2>2. DOMAIN stack' = 1..(top - 1)
    BY <2>1, SequenceIs
  <2> QED BY <2>1, <2>2, <1>1
<1>3. \A n \in Names : visited'[n] = IF n = c THEN 2 ELSE visited[n]
  BY <1>0, <1>1 DEF TypeOK
<1>4. black' = black \cup {c} /\ Names' = Names /\ c \in Names
  BY <1>0, <1>1, <1>3 DEF black, Names
<1>5. c \notin black
  BY <1>0, <1>1 DEF black, pathInv
<1>6. dependsOn(c) \subseteq black
  <2>1. SUFFICES ASSUME NEW q \in DOMAIN items[c] PROVE items[c][q] \in black
    BY DEF dependsOn, Range
  <2>2. q \in 1..(stack[top].next - 1)
    <3>1. Len(items[c]) \in Nat /\ DOMAIN items[c] = 1..Len(items[c])
      BY <1>1, NamesAre
    <3>2. stack[top].next \in Nat /\ stack[top].next > Len(items[c])
      BY <1>0, <1>1
    <3> QED BY <3>1, <3>2
  <2> QED BY <2>2, <1>0, <1>1 DEF pathInv
<1>7. blackInv'
  <2>1. \A n \in black' : dependsOn(n) \subseteq black'
    BY <1>4, <1>6, <1>0 DEF blackInv
  <2>2. \A S \in SUBSET black' : closed(S) => S = {}
    BY <1>0, <1>4, <1>5, <1>6, BlackGrows
  <2> QED BY <2>1, <2>2, <1>0 DEF blackInv, closed, dependsOn
<1>8. pathInv'
  <2>1. ASSUME NEW n \in Names, visited'[n] = 1
        PROVE  \E i \in DOMAIN stack' : stack'[i].cur = n
    <3>1. n # c /\ visited[n] = 1
      BY <2>1, <1>3
    <3>2. PICK i \in DOMAIN stack : stack[i].cur = n
      BY <3>1, <1>0 DEF pathInv
    <3> QED BY <3>1, <3>2, <1>1, <1>2
  <2>2. ASSUME NEW i \in DOMAIN stack'
        PROVE  /\ visited'[stack'[i].cur] = 1
               /\ \A j \in DOMAIN stack' : stack'[i].cur = stack'[j].cur => i = j
               /\ stack'[i].next <= Len(items[stack'[i].cur]) + 1
    <3>1. /\ stack'[i] = stack[i] /\ i \in DOMAIN stack /\ i # top
          /\ \A j \in DOMAIN stack' : stack'[j] = stack[j] /\ j \in DOMAIN stack
      BY <1>2
    <3>2. /\ visited[stack[i].cur] = 1 /\ stack[i].cur \in Names
          /\ \A j \in DOMAIN stack : stack[i].cur = stack[j].cur => i = j
          /\ stack[i].next <= Len(items[stack[i].cur]) + 1
      BY Zenon, <3>1, <1>0, <1>1 DEF pathInv
    <3>3. visited'[stack[i].cur] = 1
      BY <3>1, <3>2, <1>1, <1>3
    <3> QED BY Zenon, <3>1, <3>2, <3>3
  <2>3. ASSUME NEW i \in DOMAIN stack', NEW q \in 1..(stack'[i].next - 1)
        PROVE  \/ items[stack'[i].cur][q] \in black'
               \/ /\ q = stack'[i].next - 1 /\ i < Len(stack')
                  /\ items[stack'[i].cur][q] = stack'[i + 1].cur
    <3>1. /\ i \in DOMAIN stack /\ stack'[i] = stack[i]
          /\ i # top - 1 => i + 1 \in DOMAIN stack' /\ stack'[i + 1] = stack[i + 1]
      BY <1>1, <1>2
    <3>2. \/ items[stack[i].cur][q] \in black
          \/ /\ q = stack[i].next - 1 /\ items[stack[i].cur][q] = stack[i + 1].cur
      BY <3>1, <1>0 DEF pathInv
    <3>3. CASE i = top - 1
      BY <3>1, <3>2, <3>3, <1>1, <1>4
    <3>4. CASE i # top - 1
      BY <3>1, <3>2, <3>4, <1>1, <1>2, <1>4
    <3> QED BY <3>3, <3>4
  <2>4. ASSUME NEW i \in DOMAIN stack', i < Len(stack')
        PROVE  /\ stack'[i].next > 1
               /\ items[stack'[i].cur][stack'[i].next - 1] = stack'[i + 1].cur
    <3>1. i \in DOMAIN stack /\ i < top /\ i + 1 \in DOMAIN stack'
      BY <2>4, <1>1, <1>2
    <3>2. /\ stack[i].next > 1
          /\ items[stack[i].cur][stack[i].next - 1] = stack[i + 1].cur
      BY <3>1, <1>0 DEF pathInv
    <3>3. stack'[i] = stack[i] /\ stack'[i + 1] = stack[i + 1]
      BY <3>1, <1>2
    <3> QED BY <3>2, <3>3
  <2>5. items' = items /\ Names' = Names
    BY <1>0, <1>4
  <2> QED BY <2>1, <2>2, <2>3, <2>4, <2>5 DEF pathInv
<1>9. \A n \in 1..(item' - 1) : visited'[n] # 0
  <2>1. \A n \in 1..(item - 1) : n \in Names /\ visited[n] # 0
    BY <1>0, NamesAre DEF SearchInv
  <2> QED BY <2>1, <1>0, <1>3
<1> QED
  BY <1>0, <1>7, <1>8, <1>9
  DEF SearchInv, VerdictIsRight, namesUnknown, dependsOn, Names

\* All steps are finished, so that no cycle is left for any of them.
LEMMA EndSearchStep ==
  ASSUME TypeOK, SearchInv, EndSearch
  PROVE  SearchInv'
<1>0. /\ pc = "search" /\ stack = << >> /\ item > Len(items)
      /\ verdict' = "acyclic" /\ pc' = "sort" /\ items' = items
      /\ pathInv /\ blackInv /\ \A i \in Names : ~namesUnknown(i)
  BY DEF EndSearch, SearchInv
<1>1. \A n \in Names : n \in black
  <2> SUFFICES ASSUME NEW n \in Names PROVE visited[n] = 2
    BY DEF black
  <2>1. n \in 1..(item - 1)
    BY <1>0, NamesAre DEF TypeOK
  <2>2. visited[n] # 0
    BY <2>1, <1>0 DEF SearchInv
  <2>3. visited[n] # 1
    BY <1>0 DEF pathInv
  <2> QED BY <2>2, <2>3 DEF TypeOK
<1>2. ~Cyclic
  BY <1>0, <1>1 DEF Cyclic, blackInv
<1>3. ~Cyclic'
  BY <1>0, <1>2 DEF Cyclic, closed, dependsOn, Names
<1> QED
  BY <1>0, <1>3 DEF SearchInv, VerdictIsRight, namesUnknown, dependsOn, Names

\* Before the search all steps are white and the stack is empty.
LEMMA CheckNamesStep ==
  ASSUME TypeOK, SearchInv, CheckNames
  PROVE  SearchInv'
<1>0. /\ pc = "names" /\ items' = items /\ item' = item /\ visited' = visited
      /\ stack' = stack /\ item = 1 /\ stack = << >> /\ verdict = "none"
      /\ visited = [n \in Names |-> 0]
  BY DEF CheckNames, SearchInv
<1>1. CASE \A i \in Names : dependsOn(i) \subseteq Names
  <2>1. pc' = "search" /\ verdict' = verdict
    BY <1>0, <1>1 DEF CheckNames
  <2>2. black' = {}
    BY <1>0 DEF black, Names
  <2>3. pathInv' /\ blackInv'
    BY <2>2, <1>0 DEF pathInv, blackInv, Names
  <2> QED
    BY <1>0, <1>1, <2>1, <2>3
    DEF SearchInv, VerdictIsRight, namesUnknown, dependsOn, Names
<1>2. CASE ~ \A i \in Names : dependsOn(i) \subseteq Names
  BY Zenon, <1>0, <1>2 DEF CheckNames, SearchInv, VerdictIsRight, namesUnknown, dependsOn, Names
<1> QED BY <1>1, <1>2

\* The sort leaves what the search found.
LEMMA SearchInvKept ==
  ASSUME SearchInv, items' = items, verdict' = verdict,
         pc \notin {"names", "search"}, pc' \notin {"names", "search"},
         pc = "done" => pc' = "done"
  PROVE  SearchInv'
BY Zenon DEF SearchInv, VerdictIsRight, Cyclic, closed, namesUnknown, dependsOn, Names

\* SearchInv holds of every step.
LEMMA SearchStep ==
  ASSUME TypeOK, SearchInv, [Next]_vars
  PROVE  SearchInv'
<1>1. CASE UNCHANGED vars
  BY SMTT(30), <1>1
  DEF vars, SearchInv, pathInv, blackInv, black, VerdictIsRight, Cyclic, closed,
      namesUnknown, dependsOn, Names
<1>2. CASE StartSort \/ QueueRoot \/ EndRoots \/ Visit \/ Release \/ Return
  BY Zenon, <1>2, SearchInvKept
  DEF StartSort, QueueRoot, EndRoots, Visit, Release, Return, searchVars
<1> QED
  BY Zenon, <1>1, <1>2, CheckNamesStep, SearchItemStep, SearchDepStep, FinishStepStep,
     EndSearchStep
  DEF Next

(***************************************************************************)
(* topologicalSortSteps                                                    *)
(***************************************************************************)

\* The steps in line, by position.
LEMMA LineIs ==
  ASSUME NEW a \in Seq(Names), NEW b \in Seq(Names)
  PROVE  /\ a \o b \in Seq(Names) /\ Len(a \o b) = Len(a) + Len(b)
         /\ DOMAIN (a \o b) = 1..(Len(a) + Len(b))
         /\ \A i \in 1..Len(a) : (a \o b)[i] = a[i]
         /\ \A i \in 1..Len(b) : (a \o b)[Len(a) + i] = b[i]
         /\ Range(a \o b) = Range(a) \cup Range(b)
<1>1. /\ a \o b \in Seq(Names) /\ Len(a \o b) = Len(a) + Len(b)
      /\ DOMAIN (a \o b) = 1..(Len(a) + Len(b))
      /\ \A i \in 1..Len(a) : (a \o b)[i] = a[i]
      /\ \A i \in 1..Len(b) : (a \o b)[Len(a) + i] = b[i]
  OBVIOUS
<1>2. \A x \in Range(a \o b) : x \in Range(a) \cup Range(b)
  <2> SUFFICES ASSUME NEW i \in 1..(Len(a) + Len(b))
               PROVE  (a \o b)[i] \in Range(a) \cup Range(b)
    BY <1>1 DEF Range
  <2>1. CASE i \in 1..Len(a)
    BY <1>1, <2>1 DEF Range
  <2>2. CASE i \notin 1..Len(a)
    <3>1. i - Len(a) \in 1..Len(b) /\ i = Len(a) + (i - Len(a))
      BY <2>2
    <3> QED BY <1>1, <3>1 DEF Range
  <2> QED BY <2>1, <2>2
<1>3. \A x \in Range(a) : x \in Range(a \o b)
  BY <1>1 DEF Range
<1>4. \A x \in Range(b) : x \in Range(a \o b)
  <2> SUFFICES ASSUME NEW i \in 1..Len(b) PROVE b[i] \in Range(a \o b)
    BY SMTT(30) DEF Range
  <2>1. Len(a) + i \in 1..(Len(a) + Len(b))
    OBVIOUS
  <2> QED BY Zenon, <1>1, <2>1 DEF Range
<1> QED BY <1>1, <1>2, <1>3, <1>4

\* A step that is added to the line.
LEMMA LineGrows ==
  ASSUME NEW a \in Seq(Names), NEW b \in Seq(Names), NEW n \in Names,
         IsInjective(a \o b), n \notin Range(a \o b)
  PROVE  /\ a \o Append(b, n) = Append(a \o b, n)
         /\ Range(a \o Append(b, n)) = Range(a \o b) \cup {n}
         /\ IsInjective(a \o Append(b, n))
         /\ DOMAIN (a \o Append(b, n)) = 1..(Len(a) + Len(b) + 1)
         /\ \A i \in 1..(Len(a) + Len(b)) : (a \o Append(b, n))[i] = (a \o b)[i]
         /\ (a \o Append(b, n))[Len(a) + Len(b) + 1] = n
<1> DEFINE l == a \o b
<1>1. l \in Seq(Names) /\ Len(l) = Len(a) + Len(b) /\ DOMAIN l = 1..Len(l)
  BY LineIs
<1>2. a \o Append(b, n) = Append(l, n)
  OBVIOUS
<1>3. /\ DOMAIN Append(l, n) = 1..(Len(l) + 1)
      /\ \A i \in 1..Len(l) : Append(l, n)[i] = l[i]
      /\ Append(l, n)[Len(l) + 1] = n
  <2> HIDE DEF l
  <2> QED BY <1>1
<1>4. Range(Append(l, n)) = Range(l) \cup {n}
  <2> HIDE DEF l
  <2>1. \A x \in Range(Append(l, n)) : x \in Range(l) \cup {n}
    BY <1>1, <1>3 DEF Range
  <2>2. \A x \in Range(l) \cup {n} : x \in Range(Append(l, n))
    BY <1>1, <1>3 DEF Range
  <2> QED BY <2>1, <2>2
<1>5. IsInjective(Append(l, n))
  <2> HIDE DEF l
  <2>0. IsInjective(l) /\ n \notin Range(l)
    BY DEF l
  <2>1. ASSUME NEW i \in 1..(Len(l) + 1), NEW j \in 1..(Len(l) + 1),
               Append(l, n)[i] = Append(l, n)[j]
        PROVE  i = j
    <3>1. \A m \in 1..(Len(l) + 1) : m \in 1..Len(l) \/ m = Len(l) + 1
      BY <1>1
    <3>2. \A m \in 1..Len(l) : l[m] # n
      BY Zenon, <2>0, <1>1 DEF Range
    <3>3. \A m1, m2 \in 1..Len(l) : l[m1] = l[m2] => m1 = m2
      BY <2>0, <1>1 DEF IsInjective
    <3> QED BY <2>1, <3>1, <3>2, <3>3, <1>3
  <2> QED BY <2>1, <1>3 DEF IsInjective
<1> QED BY <1>1, <1>2, <1>3, <1>4, <1>5

\* Placing the head of the queue leaves the line as it is.
LEMMA LineStays ==
  ASSUME NEW a \in Seq(Names), NEW b \in Seq(Names), b # << >>
  PROVE  /\ Append(a, Head(b)) \o Tail(b) = a \o b
         /\ Head(b) \in Names /\ Append(a, Head(b)) \in Seq(Names)
         /\ Tail(b) \in Seq(Names)
         /\ Range(Append(a, Head(b))) = Range(a) \cup {Head(b)}
         /\ Append(a, Head(b))[Len(Append(a, Head(b)))] = Head(b)
         /\ IsInjective(a \o b) => Head(b) \notin Range(a)
<1>1. /\ Append(a, Head(b)) \o Tail(b) = a \o b
      /\ Head(b) \in Names /\ Append(a, Head(b)) \in Seq(Names)
      /\ Tail(b) \in Seq(Names)
      /\ Append(a, Head(b))[Len(Append(a, Head(b)))] = Head(b)
  OBVIOUS
<1>2. Range(Append(a, Head(b))) = Range(a) \cup {Head(b)}
  <2>1. /\ DOMAIN Append(a, Head(b)) = 1..(Len(a) + 1)
        /\ \A i \in 1..Len(a) : Append(a, Head(b))[i] = a[i]
        /\ Append(a, Head(b))[Len(a) + 1] = Head(b)
    OBVIOUS
  <2>2. \A x \in Range(Append(a, Head(b))) : x \in Range(a) \cup {Head(b)}
    BY <2>1 DEF Range
  <2>3. \A x \in Range(a) \cup {Head(b)} : x \in Range(Append(a, Head(b)))
    BY <2>1 DEF Range
  <2> QED BY <2>2, <2>3
<1>3. ASSUME IsInjective(a \o b), Head(b) \in Range(a)
      PROVE  FALSE
  <2>1. PICK i \in 1..Len(a) : a[i] = Head(b)
    BY <1>3 DEF Range
  <2>2. (a \o b)[i] = a[i] /\ (a \o b)[Len(a) + 1] = b[1] /\ b[1] = Head(b)
        /\ i \in DOMAIN (a \o b) /\ Len(a) + 1 \in DOMAIN (a \o b)
    BY LineIs
  <2>3. i = Len(a) + 1
    BY <2>1, <2>2, <1>3 DEF IsInjective
  <2> QED BY <2>3
<1> QED BY <1>1, <1>2, <1>3

\* Counting by bijections: an interval has as many elements as its bound, a set of
\* none is empty, and removing an element leaves one less.
LEMMA CountOfInterval ==
  ASSUME NEW m \in Nat
  PROVE  ExistsBijection(1..m, 1..m)
<1>1. [i \in 1..m |-> i] \in Bijection(1..m, 1..m)
  BY DEF Bijection, Injection, Surjection, IsInjective
<1> QED BY <1>1 DEF ExistsBijection

LEMMA CountOfNone ==
  ASSUME NEW m \in Nat, NEW W, ExistsBijection(1..m, W)
  PROVE  m = 0 <=> W = {}
<1>1. PICK f \in [1..m -> W] : \A w \in W : \E i \in 1..m : f[i] = w
  BY DEF ExistsBijection, Bijection, Injection, Surjection
<1>2. ASSUME m = 0 PROVE W = {}
  BY <1>1, <1>2
<1>3. ASSUME m # 0 PROVE W # {}
  <2>1. 1 \in 1..m
    BY <1>3
  <2> QED BY <1>1, <2>1
<1> QED BY <1>2, <1>3

LEMMA CountOfRest ==
  ASSUME NEW m \in Nat, NEW W, ExistsBijection(1..m, W), NEW k \in W
  PROVE  m \in Nat \ {0} /\ ExistsBijection(1..(m - 1), W \ {k})
<1>1. PICK f \in [1..m -> W] :
        /\ \A w \in W : \E i \in 1..m : f[i] = w
        /\ \A i, j \in 1..m : f[i] = f[j] => i = j
  BY Zenon DEF ExistsBijection, Bijection, Injection, Surjection, IsInjective
<1>2. PICK q \in 1..m : f[q] = k
  BY <1>1
<1>3. m \in Nat \ {0}
  BY <1>2
<1>4. \A i \in 1..(m - 1) : i \in 1..m /\ i # m
  BY <1>3
<1>5. m \in 1..m /\ \A i \in 1..m : i # m => i \in 1..(m - 1)
  BY <1>3
<1> DEFINE g == [i \in 1..(m - 1) |-> IF i = q THEN f[m] ELSE f[i]]
<1>6. \A i \in 1..(m - 1) : g[i] = IF i = q THEN f[m] ELSE f[i]
  OBVIOUS
<1>7. g \in [1..(m - 1) -> W \ {k}]
  <2>1. \A i \in 1..(m - 1) : (IF i = q THEN f[m] ELSE f[i]) \in W \ {k}
    BY <1>1, <1>2, <1>4, <1>5
  <2> QED BY <2>1
<1>8. \A i, j \in 1..(m - 1) : g[i] = g[j] => i = j
  <2> HIDE DEF g
  <2> QED BY <1>1, <1>4, <1>5, <1>6
<1>9. ASSUME NEW w \in W \ {k}
      PROVE  \E i \in 1..(m - 1) : g[i] = w
  <2> HIDE DEF g
  <2>1. PICK j \in 1..m : f[j] = w
    BY <1>1
  <2>2. j # q
    BY <2>1, <1>2
  <2>3. CASE j = m
    <3>1. q \in 1..(m - 1)
      BY <2>2, <2>3, <1>5
    <3> QED BY <3>1, <2>1, <2>3, <1>6
  <2>4. CASE j # m
    <3>1. j \in 1..(m - 1)
      BY <2>4, <1>5
    <3> QED BY <3>1, <2>1, <2>2, <1>6
  <2> QED BY <2>3, <2>4
<1>10. g \in Bijection(1..(m - 1), W \ {k})
  <2> HIDE DEF g
  <2> QED BY <1>7, <1>8, <1>9 DEF Bijection, Injection, Surjection, IsInjective
<1> QED BY <1>3, <1>10 DEF ExistsBijection

\* The steps placed are in line.
LEMMA SortedInLine ==
  ASSUME TypeOK
  PROVE  Range(sorted) \subseteq Range(line) /\ Range(sorted) \subseteq Names
<1>1. sorted \in Seq(Names) /\ queue \in Seq(Names)
  BY DEF TypeOK
<1>2. Range(line) = Range(sorted) \cup Range(queue)
  BY <1>1, LineIs DEF line
<1>3. \A i \in DOMAIN sorted : sorted[i] \in Names
  BY <1>1
<1> QED BY <1>2, <1>3 DEF Range

\* A step that waits for nothing depends on steps that are placed, and is in no
\* set of steps that are stuck.
LEMMA ReadyStep ==
  ASSUME TypeOK, NEW n \in Names, waitsFor(n) = {},
         \A S \in SUBSET Names : stuck(S) => S \cap Range(line) = {}
  PROVE  /\ dependsOn(n) \subseteq Range(sorted)
         /\ \A S \in SUBSET Names : stuck(S) => n \notin S
<1>1. dependsOn(n) \subseteq Range(sorted)
  BY Zenon DEF dependsOn, waitsFor, Range
<1>2. Range(sorted) \subseteq Range(line) /\ Range(sorted) \subseteq Names
  BY SortedInLine
<1>3. ASSUME NEW S \in SUBSET Names, stuck(S), n \in S
      PROVE  FALSE
  <2>1. dependsOn(n) \cap S # {} \/ namesUnknown(n)
    BY <1>3 DEF stuck
  <2> QED BY <2>1, <1>1, <1>2, <1>3 DEF namesUnknown
<1> QED BY <1>1, <1>3

\* A step that does not change the list changes none of what is defined by it.
LEMMA ListStays ==
  ASSUME items' = items
  PROVE  /\ Names' = Names /\ Frames' = Frames
         /\ \A d : children(d)' = children(d)
         /\ \A S : stuck(S)' = stuck(S)
         /\ placedFirst' = \A i \in DOMAIN line' : \A d \in dependsOn(line'[i]) :
                             \E k \in DOMAIN sorted' : k < i /\ sorted'[k] = d
         /\ noneStuck' = \A S \in SUBSET Names : stuck(S) => S \cap Range(line') = {}
<1>1. Names' = Names
  BY DEF Names
<1>2. Frames' = Frames
  BY <1>1 DEF Frames
<1>3. \A d : children(d)' = children(d)
  BY <1>1 DEF children
<1>4. \A S : stuck(S)' = stuck(S)
  BY <1>1 DEF stuck, namesUnknown, dependsOn
<1>5. placedFirst' = \A i \in DOMAIN line' : \A d \in dependsOn(line'[i]) :
                       \E k \in DOMAIN sorted' : k < i /\ sorted'[k] = d
  BY DEF placedFirst, dependsOn
<1>6. noneStuck' = \A S \in SUBSET Names : stuck(S) => S \cap Range(line') = {}
  BY <1>1, <1>4 DEF noneStuck
<1> QED BY <1>1, <1>2, <1>3, <1>4, <1>5, <1>6

\* Before the sort nothing is in line.
LEMMA EmptyLine ==
  ASSUME queue = << >>, sorted = << >>
  PROVE  /\ DOMAIN line = {} /\ Range(line) = {} /\ Range(sorted) = {}
         /\ IsInjective(line) /\ placedFirst /\ noneStuck
<1>1. line = << >>
  BY DEF line
<1>2. DOMAIN line = {} /\ Range(line) = {} /\ Range(sorted) = {} /\ IsInjective(line)
  BY <1>1 DEF Range, IsInjective
<1> QED BY <1>2 DEF placedFirst, noneStuck

\* The same of the next state.
LEMMA EmptyLineNext ==
  ASSUME queue' = << >>, sorted' = << >>
  PROVE  /\ DOMAIN line' = {} /\ Range(line') = {} /\ Range(sorted') = {}
         /\ IsInjective(line') /\ placedFirst' /\ noneStuck'
<1>1. line' = << >>
  BY DEF line
<1>2. DOMAIN line' = {} /\ Range(line') = {} /\ Range(sorted') = {} /\ IsInjective(line')
  BY <1>1 DEF Range, IsInjective
<1> QED BY <1>2 DEF placedFirst, noneStuck

\* The search leaves the state of the sort alone.
LEMMA SearchKeepsSort ==
  ASSUME TypeOK, SearchInv, SortInv,
         CheckNames \/ SearchItem \/ SearchDep \/ FinishStep \/ EndSearch
  PROVE  SortInv'
<1>1. /\ queue' = queue /\ sorted' = sorted /\ toRelease' = toRelease /\ items' = items
      /\ pc \in {"names", "search"} /\ verdict = "none"
  BY DEF CheckNames, SearchItem, SearchDep, FinishStep, EndSearch, sortVars, SearchInv
<1>2. /\ pc' \in {"search", "sort", "done"}
      /\ pc' = "done" => verdict' \in {"unknown", "cycle"}
  BY <1>1 DEF CheckNames, SearchItem, SearchDep, FinishStep, EndSearch, dfs
<1>3. queue' = << >> /\ sorted' = << >> /\ toRelease' = {}
  BY <1>1 DEF SortInv, sortReturned
<1>4. pc' \notin {"roots", "visit"} /\ ~sortReturned'
  BY Zenon, <1>2 DEF sortReturned
<1> QED BY Zenon, <1>3, <1>4, EmptyLineNext DEF SortInv

\* The counts start with the lengths of the DependsOn lists.
LEMMA StartSortStep ==
  ASSUME TypeOK, SearchInv, SortInv, StartSort
  PROVE  SortInv'
<1>1. /\ pc = "sort" /\ pc' = "roots" /\ item' = 1 /\ items' = items
      /\ inDegree' = [n \in Names |-> Len(items[n])]
      /\ queue' = queue /\ sorted' = sorted /\ toRelease' = toRelease
  BY DEF StartSort
<1>2. queue' = << >> /\ sorted' = << >> /\ toRelease' = {}
  BY <1>1 DEF SortInv, sortReturned
<1>3. /\ Range(line') = {} /\ Range(sorted') = {}
      /\ IsInjective(line') /\ placedFirst' /\ noneStuck'
  BY <1>2, EmptyLineNext
<1>4. counted'
  <2> SUFFICES ASSUME NEW n \in Names PROVE ExistsBijection(1..inDegree'[n], waitsFor(n)')
    BY Zenon, <1>1, ListStays DEF counted
  <2>1. waitsFor(n)' = 1..Len(items[n])
    BY <1>1, <1>3, NamesAre DEF waitsFor
  <2>2. Len(items[n]) \in Nat /\ inDegree'[n] = Len(items[n])
    BY <1>1, NamesAre
  <2> QED BY <2>1, <2>2, CountOfInterval
<1>5. inLine'
  <2>1. \A n \in Names' : ~(n < item')
    BY <1>1, NamesAre, ListStays
  <2> QED BY Zenon, <2>1, <1>1, <1>3 DEF inLine
<1>6. ~sortReturned'
  BY <1>1 DEF sortReturned
<1> QED BY <1>1, <1>2, <1>3, <1>4, <1>5, <1>6 DEF SortInv

\* What holds while the sort runs.
LEMMA WhileSorting ==
  ASSUME TypeOK, SortInv, pc \in {"roots", "visit"}
  PROVE  /\ \A n \in Names : ExistsBijection(1..inDegree[n], waitsFor(n))
         /\ Range(line) = {n \in Names : inDegree[n] = 0 /\ (pc = "roots" => n < item)}
         /\ IsInjective(line)
         /\ \A i \in DOMAIN line : \A d \in dependsOn(line[i]) :
              \E k \in DOMAIN sorted : k < i /\ sorted[k] = d
         /\ \A S \in SUBSET Names : stuck(S) => S \cap Range(line) = {}
         /\ queue \in Seq(Names) /\ sorted \in Seq(Names) /\ inDegree \in [Names -> Nat]
         /\ ~sortReturned
BY Zenon DEF SortInv, counted, inLine, placedFirst, noneStuck, TypeOK, sortReturned

\* The line after a step is added to it.
LEMMA JoinsLine ==
  ASSUME TypeOK, SortInv, pc \in {"roots", "visit"}, NEW n \in Names,
         sorted' = sorted, queue' = Append(queue, n), n \notin Range(line)
  PROVE  /\ Range(line') = Range(line) \cup {n} /\ IsInjective(line')
         /\ Len(line) \in Nat /\ Len(line) >= Len(sorted) /\ DOMAIN line = 1..Len(line)
         /\ DOMAIN line' = 1..(Len(line) + 1)
         /\ \A i \in 1..Len(line) : line'[i] = line[i]
         /\ line'[Len(line) + 1] = n
<1>1. queue \in Seq(Names) /\ sorted \in Seq(Names) /\ IsInjective(line)
  BY WhileSorting
<1>2. line = sorted \o queue /\ line' = sorted \o Append(queue, n)
  BY DEF line
<1>3. /\ Len(line) = Len(sorted) + Len(queue) /\ DOMAIN line = 1..Len(line)
      /\ Len(sorted) \in Nat /\ Len(queue) \in Nat
  BY <1>1, <1>2, LineIs
<1> QED BY <1>1, <1>2, <1>3, LineGrows

\* A step that depends on nothing is added to the line.
LEMMA QueueRootStep ==
  ASSUME TypeOK, SearchInv, SortInv, QueueRoot
  PROVE  SortInv'
<1>1. /\ pc = "roots" /\ pc' = "roots" /\ item' = item + 1 /\ items' = items
      /\ inDegree' = inDegree /\ sorted' = sorted /\ toRelease' = toRelease
      /\ sorted = << >> /\ toRelease = {} /\ item <= Len(items)
      /\ queue' = IF inDegree[item] = 0 THEN Append(queue, item) ELSE queue
  BY DEF QueueRoot, isRoot, SortInv
<1>2. item \in Names /\ item \in Nat /\ \A n \in Names : n \in Nat
  BY <1>1, NamesAre
<1>3. /\ \A n \in Names : ExistsBijection(1..inDegree[n], waitsFor(n))
      /\ Range(line) = {n \in Names : inDegree[n] = 0 /\ n < item}
      /\ IsInjective(line)
      /\ \A i \in DOMAIN line : \A d \in dependsOn(line[i]) :
           \E k \in DOMAIN sorted : k < i /\ sorted[k] = d
      /\ \A S \in SUBSET Names : stuck(S) => S \cap Range(line) = {}
  BY <1>1, WhileSorting
<1>4. counted'
  <2>1. \A n \in Names : waitsFor(n)' = waitsFor(n)
    BY <1>1 DEF waitsFor
  <2> QED BY <2>1, <1>1, <1>3, ListStays DEF counted
<1>5. ASSUME Range(line') = {n \in Names : inDegree[n] = 0 /\ n < item + 1}
      PROVE  inLine'
  BY <1>5, <1>1, ListStays DEF inLine
<1>6. CASE inDegree[item] # 0
  <2>1. line' = line
    BY <1>1, <1>6 DEF line
  <2>2. inLine'
    <3>1. \A n \in Names : inDegree[n] = 0 => (n < item <=> n < item + 1)
      BY <1>2, <1>6
    <3> QED BY <2>1, <3>1, <1>3, <1>5
  <2>3. IsInjective(line') /\ placedFirst' /\ noneStuck'
    BY <2>1, <1>1, <1>3, ListStays
  <2> QED BY <2>2, <2>3, <1>1, <1>4 DEF SortInv, sortReturned
<1>7. CASE inDegree[item] = 0
  <2>1. waitsFor(item) = {}
    BY <1>2, <1>3, <1>7, CountOfNone
  <2>2. /\ dependsOn(item) \subseteq Range(sorted)
        /\ \A S \in SUBSET Names : stuck(S) => item \notin S
    BY <2>1, <1>2, <1>3, ReadyStep
  <2>3. dependsOn(item) = {}
    BY <2>2, <1>1 DEF Range
  <2>4. /\ Range(line') = Range(line) \cup {item} /\ IsInjective(line')
        /\ Len(line) \in Nat /\ DOMAIN line = 1..Len(line)
        /\ DOMAIN line' = 1..(Len(line) + 1)
        /\ \A i \in 1..Len(line) : line'[i] = line[i]
        /\ line'[Len(line) + 1] = item
    BY <1>1, <1>2, <1>3, <1>7, JoinsLine
  <2>5. inLine'
    <3>1. \A n \in Names : n < item + 1 <=> n < item \/ n = item
      BY <1>2
    <3>2. Range(line) \cup {item} = {n \in Names : inDegree[n] = 0 /\ n < item + 1}
      <4>1. \A n : n \in Range(line) <=> n \in Names /\ inDegree[n] = 0 /\ n < item
        BY Zenon, <1>3
      <4> QED BY Zenon, <4>1, <3>1, <1>2, <1>7
    <3> QED BY <2>4, <3>2, <1>5
  <2>6. placedFirst'
    <3>1. \A i \in DOMAIN line' : \A d \in dependsOn(line'[i]) :
             \E k \in DOMAIN sorted' : k < i /\ sorted'[k] = d
      BY <2>3, <2>4, <1>1, <1>3
    <3> QED BY Zenon, <3>1, <1>1, ListStays
  <2>7. noneStuck'
    <3>1. \A S \in SUBSET Names : stuck(S) => S \cap Range(line') = {}
      BY <2>2, <2>4, <1>3
    <3> QED BY Zenon, <3>1, <1>1, ListStays
  <2> QED BY <2>4, <2>5, <2>6, <2>7, <1>1, <1>4 DEF SortInv, sortReturned
<1> QED BY <1>6, <1>7

\* All steps have been looked at.
LEMMA EndRootsStep ==
  ASSUME TypeOK, SearchInv, SortInv, EndRoots
  PROVE  SortInv'
<1>1. /\ pc = "roots" /\ pc' = "visit" /\ item > Len(items) /\ items' = items
      /\ inDegree' = inDegree /\ sorted' = sorted /\ toRelease' = toRelease
      /\ queue' = queue /\ toRelease = {}
  BY DEF EndRoots, sortVars, SortInv
<1>2. \A n \in Names : n < item
  BY <1>1, NamesAre
<1>3. line' = line
  BY Zenon, <1>1 DEF line
<1>4. counted' /\ inLine'
  BY <1>1, <1>2, <1>3, ListStays, WhileSorting DEF counted, inLine, waitsFor
<1>5. IsInjective(line') /\ placedFirst' /\ noneStuck'
  BY <1>1, <1>3, ListStays, WhileSorting
<1> QED BY <1>1, <1>4, <1>5 DEF SortInv, sortReturned

\* The head of the queue is placed: what was waited for is now to be released.
LEMMA VisitStep ==
  ASSUME TypeOK, SearchInv, SortInv, Visit
  PROVE  SortInv'
<1> DEFINE h == Head(queue)
<1>1. /\ pc = "visit" /\ pc' = pc /\ toRelease = {} /\ queue # << >> /\ items' = items
      /\ sorted' = Append(sorted, h) /\ queue' = Tail(queue)
      /\ toRelease' = children(h) /\ inDegree' = inDegree
  BY DEF Visit
<1>2. /\ \A n \in Names : ExistsBijection(1..inDegree[n], waitsFor(n))
      /\ Range(line) = {n \in Names : inDegree[n] = 0}
      /\ IsInjective(line)
      /\ \A i \in DOMAIN line : \A d \in dependsOn(line[i]) :
           \E k \in DOMAIN sorted : k < i /\ sorted[k] = d
      /\ \A S \in SUBSET Names : stuck(S) => S \cap Range(line) = {}
      /\ queue \in Seq(Names) /\ sorted \in Seq(Names)
  BY Zenon, <1>1, WhileSorting
<1>3. /\ line' = line /\ Range(sorted') = Range(sorted) \cup {h} /\ h \notin Range(sorted)
      /\ sorted'[Len(sorted')] = h
  BY Zenon, <1>1, <1>2, LineStays DEF line
<1>4. /\ Len(sorted) \in Nat /\ DOMAIN sorted = 1..Len(sorted) /\ sorted' # << >>
      /\ DOMAIN sorted' = 1..(Len(sorted) + 1)
      /\ \A i \in DOMAIN sorted : sorted'[i] = sorted[i]
  BY <1>1, <1>2
<1>5. ASSUME NEW n \in Names
      PROVE  waitsFor(n)' = waitsFor(n)
  <2>1. waitsFor(n)' = {k \in DOMAIN items[n] :
                          items[n][k] \notin Range(sorted) \cup {h} \/ items[n][k] = h}
    <3>1. \A k \in DOMAIN items[n] : <<n, k>> \in children(h) <=> items[n][k] = h
      BY DEF children
    <3> QED BY <3>1, <1>1, <1>3 DEF waitsFor
  <2>2. waitsFor(n) = {k \in DOMAIN items[n] : items[n][k] \notin Range(sorted)}
    BY Zenon, <1>1 DEF waitsFor
  <2> QED BY <2>1, <2>2, <1>3
<1>6. counted' /\ inLine'
  BY <1>1, <1>2, <1>3, <1>5, ListStays DEF counted, inLine
<1>7. placedFirst'
  <2>1. \A i \in DOMAIN line : \A d \in dependsOn(line[i]) :
          \E k \in DOMAIN sorted' : k < i /\ sorted'[k] = d
    BY <1>2, <1>4
  <2> QED BY Zenon, <2>1, <1>1, <1>3, ListStays
<1>8. noneStuck'
  BY Zenon, <1>1, <1>2, <1>3, ListStays
<1>9. sorted' # << >> /\ toRelease' \subseteq children(sorted[Len(sorted)])'
  BY Zenon, <1>1, <1>3, <1>4, ListStays DEF children
<1> QED
  BY Zenon, <1>1, <1>2, <1>3, <1>6, <1>7, <1>8, <1>9 DEF SortInv, sortReturned

\* One occurrence is released; a step that waits for nothing else joins the line.
LEMMA ReleaseStep ==
  ASSUME TypeOK, SearchInv, SortInv, Release
  PROVE  /\ SortInv' /\ inDegree' \in [Names -> Nat] /\ queue' \in Seq(Names)
         /\ toRelease' \subseteq toRelease
<1> DEFINE last == sorted[Len(sorted)]
<1>0. PICK o \in toRelease :
        /\ toRelease' = toRelease \ {o}
        /\ inDegree' = [inDegree EXCEPT ![o[1]] = @ - 1]
        /\ queue' = IF inDegree'[o[1]] = 0 THEN Append(queue, o[1]) ELSE queue
  BY Zenon DEF Release
<1>1. /\ pc = "visit" /\ pc' = pc /\ items' = items /\ sorted' = sorted
      /\ sorted # << >> /\ toRelease \subseteq children(last)
  BY <1>0 DEF Release, SortInv
<1>2. PICK n \in Names, k \in Nat :
        k \in DOMAIN items[n] /\ o = <<n, k>> /\ items[n][k] = last
  <2>1. \A n \in Names : DOMAIN items[n] \subseteq Nat
    BY NamesAre
  <2> QED BY <2>1, <1>0, <1>1 DEF children
<1>3. /\ toRelease' = toRelease \ {<<n, k>>} /\ <<n, k>> \in toRelease
      /\ inDegree' = [inDegree EXCEPT ![n] = @ - 1]
      /\ queue' = IF inDegree'[n] = 0 THEN Append(queue, n) ELSE queue
  BY <1>0, <1>2
<1>4. /\ \A m \in Names : ExistsBijection(1..inDegree[m], waitsFor(m))
      /\ Range(line) = {m \in Names : inDegree[m] = 0}
      /\ IsInjective(line)
      /\ \A i \in DOMAIN line : \A d \in dependsOn(line[i]) :
           \E q \in DOMAIN sorted : q < i /\ sorted[q] = d
      /\ \A S \in SUBSET Names : stuck(S) => S \cap Range(line) = {}
      /\ queue \in Seq(Names) /\ sorted \in Seq(Names) /\ inDegree \in [Names -> Nat]
  BY Zenon, <1>1, WhileSorting
<1>5. last \in Range(sorted)
  BY <1>1, <1>4 DEF Range
<1>6. waitsFor(n)' = waitsFor(n) \ {k} /\ k \in waitsFor(n)
  <2>1. \A j : <<n, j>> \in toRelease' <=> <<n, j>> \in toRelease /\ j # k
    BY Zenon, <1>3
  <2>2. k \in waitsFor(n)
    BY <1>2, <1>3 DEF waitsFor
  <2>3. waitsFor(n)' = {j \in DOMAIN items[n] :
                          items[n][j] \notin Range(sorted) \/ (<<n, j>> \in toRelease /\ j # k)}
    BY Zenon, <2>1, <1>1 DEF waitsFor
  <2>4. waitsFor(n) = {j \in DOMAIN items[n] :
                         items[n][j] \notin Range(sorted) \/ <<n, j>> \in toRelease}
    BY DEF waitsFor
  <2> QED BY <2>2, <2>3, <2>4, <1>2, <1>5
<1>7. \A m \in Names : m # n => waitsFor(m)' = waitsFor(m)
  BY <1>1, <1>3 DEF waitsFor
<1>8. inDegree[n] \in Nat \ {0} /\ ExistsBijection(1..(inDegree[n] - 1), waitsFor(n)')
  <2>1. inDegree[n] \in Nat /\ ExistsBijection(1..inDegree[n], waitsFor(n))
    BY Zenon, <1>4
  <2> QED BY <2>1, <1>6, CountOfRest
<1>9. /\ inDegree' \in [Names -> Nat]
      /\ \A m \in Names : inDegree'[m] = IF m = n THEN inDegree[n] - 1 ELSE inDegree[m]
  BY <1>3, <1>4, <1>8
<1>10. counted'
  <2>1. \A m \in Names : ExistsBijection(1..inDegree'[m], waitsFor(m)')
    BY SMTT(30), <1>4, <1>7, <1>8, <1>9
  <2> QED BY Zenon, <2>1, <1>1, ListStays DEF counted
<1>11. sorted' # << >> /\ toRelease' \subseteq children(sorted[Len(sorted)])'
  BY <1>1, <1>3, ListStays DEF children
<1>12. n \notin Range(line)
  BY <1>4, <1>8
<1>13. ASSUME Range(line') = {m \in Names : inDegree'[m] = 0}
       PROVE  inLine'
  BY Zenon, <1>13, <1>1, ListStays DEF inLine
<1>14. toRelease' \subseteq toRelease /\ queue' \in Seq(Names)
  BY <1>3, <1>4
<1>15. CASE inDegree'[n] # 0
  <2>1. line' = line
    BY Zenon, <1>1, <1>3, <1>15 DEF line
  <2>2. inLine'
    BY <2>1, <1>4, <1>8, <1>9, <1>13, <1>15
  <2>3. IsInjective(line') /\ placedFirst' /\ noneStuck'
    BY Zenon, <2>1, <1>1, <1>4, ListStays
  <2> QED
    BY Zenon, <2>2, <2>3, <1>1, <1>9, <1>10, <1>11, <1>14 DEF SortInv, sortReturned
<1>16. CASE inDegree'[n] = 0
  <2>1. waitsFor(n)' = {}
    BY Zenon, <1>8, <1>9, <1>16, CountOfNone
  <2>2. dependsOn(n) \subseteq Range(sorted)
    <3>1. \A j \in DOMAIN items[n] : items[n][j] \in Range(sorted)
      BY Zenon, <2>1, <1>1 DEF waitsFor
    <3> QED BY <3>1 DEF dependsOn, Range
  <2>3. Range(sorted) \subseteq Range(line) /\ Range(sorted) \subseteq Names
    BY Zenon, SortedInLine
  <2>4. ASSUME NEW S \in SUBSET Names, stuck(S), n \in S
        PROVE  FALSE
    <3>1. dependsOn(n) \cap S # {} \/ namesUnknown(n)
      BY <2>4 DEF stuck
    <3> QED BY <3>1, <2>2, <2>3, <2>4, <1>4 DEF namesUnknown
  <2>5. /\ Range(line') = Range(line) \cup {n} /\ IsInjective(line')
        /\ Len(line) \in Nat /\ Len(line) >= Len(sorted) /\ DOMAIN line = 1..Len(line)
        /\ DOMAIN line' = 1..(Len(line) + 1)
        /\ \A i \in 1..Len(line) : line'[i] = line[i]
        /\ line'[Len(line) + 1] = n
    BY Zenon, <1>1, <1>3, <1>12, <1>16, JoinsLine
  <2>6. inLine'
    BY SMTT(30), <2>5, <1>4, <1>9, <1>13, <1>16
  <2>7. placedFirst'
    <3>1. ASSUME NEW d \in dependsOn(n)
          PROVE  \E q \in DOMAIN sorted : q < Len(line) + 1 /\ sorted[q] = d
      <4>1. PICK q \in DOMAIN sorted : sorted[q] = d
        BY Zenon, <2>2 DEF Range
      <4> QED BY <4>1, <2>5, <1>4
    <3>2. \A i \in DOMAIN line' : \A d \in dependsOn(line'[i]) :
             \E q \in DOMAIN sorted : q < i /\ sorted[q] = d
      <4>1. \A i \in 1..(Len(line) + 1) : i \in 1..Len(line) \/ i = Len(line) + 1
        BY <2>5
      <4>2. \A i \in 1..Len(line) : \A d \in dependsOn(line'[i]) :
               \E q \in DOMAIN sorted : q < i /\ sorted[q] = d
        BY Zenon, <2>5, <1>4
      <4> QED BY Zenon, <4>1, <4>2, <3>1, <2>5
    <3> QED BY Zenon, <3>2, <1>1, ListStays
  <2>8. noneStuck'
    <3>1. \A S \in SUBSET Names : stuck(S) => S \cap Range(line') = {}
      BY <2>4, <2>5, <1>4
    <3> QED BY Zenon, <3>1, <1>1, ListStays
  <2> QED
    BY Zenon, <2>5, <2>6, <2>7, <2>8, <1>1, <1>9, <1>10, <1>11, <1>14 DEF SortInv, sortReturned
<1> QED BY <1>15, <1>16

\* The loop ends when nothing is queued and nothing left to release.
LEMMA ReturnStep ==
  ASSUME TypeOK, SearchInv, SortInv, Return
  PROVE  SortInv'
<1>1. /\ pc = "visit" /\ pc' = "done" /\ items' = items /\ verdict' = verdict
      /\ inDegree' = inDegree /\ sorted' = sorted /\ toRelease' = toRelease /\ queue' = queue
      /\ toRelease = {} /\ queue = << >>
  BY DEF Return, sortVars, searchVars
<1>2. sortReturned'
  BY SMTT(30), <1>1 DEF sortReturned, SearchInv, TypeOK
<1>3. line' = line
  BY Zenon, <1>1 DEF line
<1>4. counted' /\ inLine'
  BY <1>1, <1>3, ListStays, WhileSorting DEF counted, inLine, waitsFor
<1>5. IsInjective(line') /\ placedFirst' /\ noneStuck'
  BY <1>1, <1>3, ListStays, WhileSorting
<1> QED BY <1>1, <1>2, <1>4, <1>5 DEF SortInv

(***************************************************************************)
(* The theorems                                                            *)
(***************************************************************************)

\* dfs keeps the types of what it changes.
LEMMA DfsTypes ==
  ASSUME TypeOK, NEW d \in Names, NEW callers \in Seq(Frames), dfs(d, callers)
  PROVE  /\ visited' \in [Names -> 0..2] /\ stack' \in Seq(Frames)
         /\ verdict' \in {"none", "unknown", "cycle", "acyclic"}
         /\ pc' \in {"names", "search", "sort", "roots", "visit", "done"}
<1> DEFINE new == [cur |-> d, next |-> 1]
<1>1. visited \in [Names -> 0..2] /\ verdict \in {"none", "unknown", "cycle", "acyclic"}
      /\ pc \in {"names", "search", "sort", "roots", "visit", "done"}
  BY DEF TypeOK
<1>2. new \in Frames
  BY DEF Frames
<1>3. << >> \in Seq(Frames) /\ Append(callers, new) \in Seq(Frames)
  <2> HIDE DEF new
  <2> QED BY <1>2, SequenceChanges
<1>4. visited' \in [Names -> 0..2]
  BY <1>1 DEF dfs
<1>5. stack' \in Seq(Frames)
  BY Zenon, <1>3 DEF dfs
<1> QED BY <1>1, <1>4, <1>5 DEF dfs

\* Every variable keeps its type: a dependency that dfs is called for is a step,
\* and a count that is decremented is not 0.
LEMMA TypeStep ==
  ASSUME DagInv, [Next]_vars
  PROVE  TypeOK'
<1>0. TypeOK /\ SearchInv /\ SortInv
  BY DEF DagInv
<1>1. CASE UNCHANGED vars
  BY Zenon, <1>0, <1>1, ListStays DEF vars, TypeOK
<1>2. CASE CheckNames \/ EndSearch \/ EndRoots \/ Return
  <2>1. items' = items
    BY Zenon, <1>2 DEF CheckNames, EndSearch, EndRoots, Return
  <2> QED
    BY Zenon, <1>0, <1>2, <2>1, ListStays
    DEF CheckNames, EndSearch, EndRoots, Return, TypeOK, sortVars, searchVars
<1>3. CASE SearchItem
  <2>1. item \in Names /\ item + 1 \in 1..(Len(items) + 1) /\ stack \in Seq(Frames)
    BY <1>0, <1>3, NamesAre DEF SearchItem, TypeOK
  <2>2. dfs(item, stack) /\ items' = items /\ item' = item + 1
    BY <1>3 DEF SearchItem
  <2>3. /\ visited' \in [Names -> 0..2] /\ stack' \in Seq(Frames)
        /\ verdict' \in {"none", "unknown", "cycle", "acyclic"}
        /\ pc' \in {"names", "search", "sort", "roots", "visit", "done"}
    BY <1>0, <2>1, <2>2, DfsTypes
  <2> QED BY Zenon, <1>0, <1>3, <2>1, <2>2, <2>3, ListStays DEF SearchItem, TypeOK, sortVars
<1>4. CASE SearchDep
  <2> DEFINE d == items[frame.cur][frame.next]
             callers == [stack EXCEPT ![Len(stack)].next = @ + 1]
             e == [stack[Len(stack)] EXCEPT !.next = @ + 1]
  <2>1. /\ frame \in Frames /\ frame.cur \in Names /\ frame.next \in Nat \ {0}
        /\ stack \in Seq(Frames) /\ stack # << >>
    BY <1>0, <1>4, StackIs DEF SearchDep, frame
  <2>2. d \in Names
    <3>1. frame.next \in DOMAIN items[frame.cur]
      BY <1>0, <1>4, <2>1, NamesAre DEF SearchDep
    <3> QED
      BY <1>0, <1>4, <2>1, <3>1 DEF SearchDep, SearchInv, namesUnknown, dependsOn, Range
  <2>3. callers \in Seq(Frames)
    <3>1. \A f \in Frames : [f EXCEPT !.next = @ + 1] \in Frames
      BY DEF Frames
    <3>2. e \in Frames
      BY <2>1, <3>1 DEF frame
    <3>3. callers = [stack EXCEPT ![Len(stack)] = e]
      OBVIOUS
    <3> HIDE DEF e, callers
    <3> QED BY <2>1, <3>2, <3>3, SequenceChanges
  <2>4. dfs(d, callers) /\ items' = items
    BY <1>4 DEF SearchDep
  <2>5. /\ visited' \in [Names -> 0..2] /\ stack' \in Seq(Frames)
        /\ verdict' \in {"none", "unknown", "cycle", "acyclic"}
        /\ pc' \in {"names", "search", "sort", "roots", "visit", "done"}
    <3> HIDE DEF d, callers
    <3> QED BY Zenon, <1>0, <2>2, <2>3, <2>4, DfsTypes
  <2> QED BY Zenon, <1>0, <1>4, <2>4, <2>5, ListStays DEF SearchDep, TypeOK, sortVars
<1>5. CASE FinishStep
  <2>1. /\ frame.cur \in Names /\ stack \in Seq(Frames) /\ stack # << >>
        /\ frame \in Frames /\ items' = items
        /\ visited' = [visited EXCEPT ![frame.cur] = 2] /\ visited \in [Names -> 0..2]
    BY Zenon, <1>0, <1>5, StackIs DEF FinishStep, frame, TypeOK
  <2>2. SubSeq(stack, 1, Len(stack) - 1) \in Seq(Frames)
    BY Zenon, <2>1, SequenceChanges
  <2>3. visited' \in [Names -> 0..2]
    BY <2>1
  <2> QED BY Zenon, <1>0, <1>5, <2>1, <2>2, <2>3, ListStays DEF FinishStep, TypeOK, sortVars
<1>6. CASE StartSort
  <2>1. items' = items /\ item' = 1 /\ inDegree' = [n \in Names |-> Len(items[n])]
    BY Zenon, <1>6 DEF StartSort
  <2>2. inDegree' \in [Names -> Nat] /\ item' \in 1..(Len(items) + 1)
    BY <1>0, <2>1, NamesAre
  <2> QED BY Zenon, <1>0, <1>6, <2>1, <2>2, ListStays DEF StartSort, TypeOK, searchVars
<1>7. CASE QueueRoot
  <2>1. /\ item \in Names /\ item + 1 \in 1..(Len(items) + 1)
        /\ items' = items /\ item' = item + 1 /\ queue \in Seq(Names)
        /\ queue' = IF isRoot(item) THEN Append(queue, item) ELSE queue
    BY <1>0, <1>7, NamesAre DEF QueueRoot, TypeOK
  <2>2. queue' \in Seq(Names)
    BY <2>1
  <2> QED BY Zenon, <1>0, <1>7, <2>1, <2>2, ListStays DEF QueueRoot, TypeOK, searchVars
<1>8. CASE Visit
  <2>1. children(Head(queue)) \subseteq Names \X Nat
    BY <1>0, NamesAre DEF children
  <2>2. items' = items /\ queue' \in Seq(Names) /\ sorted' \in Seq(Names)
    BY Zenon, <1>0, <1>8, LineStays DEF Visit, TypeOK
  <2> QED BY <1>0, <1>8, <2>1, <2>2, ListStays DEF Visit, TypeOK, searchVars
<1>9. CASE Release
  <2>1. /\ inDegree' \in [Names -> Nat] /\ queue' \in Seq(Names)
        /\ toRelease' \subseteq toRelease /\ items' = items
    BY Zenon, <1>0, <1>9, ReleaseStep DEF Release
  <2> QED BY Zenon, <1>0, <1>9, <2>1, ListStays DEF Release, TypeOK, searchVars
<1> QED BY Zenon, <1>1, <1>2, <1>3, <1>4, <1>5, <1>6, <1>7, <1>8, <1>9 DEF Next

\* SortInv holds of every step.
LEMMA SortStep ==
  ASSUME DagInv, [Next]_vars
  PROVE  SortInv'
<1>1. CASE UNCHANGED vars
  <2>1. /\ items' = items /\ inDegree' = inDegree /\ sorted' = sorted /\ queue' = queue
        /\ toRelease' = toRelease /\ pc' = pc /\ verdict' = verdict /\ item' = item
    BY <1>1 DEF vars
  <2>2. line' = line /\ sortReturned' = sortReturned
    BY Zenon, <2>1 DEF line, sortReturned
  <2>3. counted' = counted /\ inLine' = inLine
    BY Zenon, <2>1, <2>2, ListStays DEF counted, inLine, waitsFor
  <2>4. placedFirst' = placedFirst /\ noneStuck' = noneStuck
    BY <2>1, <2>2, ListStays DEF placedFirst, noneStuck
  <2>5. children(sorted[Len(sorted)])' = children(sorted[Len(sorted)])
    BY Zenon, <2>1, ListStays DEF children
  <2> QED BY <2>1, <2>2, <2>3, <2>4, <2>5 DEF DagInv, SortInv
<1> QED
  BY Zenon, <1>1, SearchKeepsSort, StartSortStep, QueueRootStep, EndRootsStep, VisitStep,
     ReleaseStep, ReturnStep
  DEF DagInv, Next

\* The three invariants hold when an algorithm starts.
LEMMA DagInit == Init => DagInv
<1> SUFFICES ASSUME Init PROVE DagInv
  OBVIOUS
<1>1. TypeOK
  <2>1. items \in Seq(Seq(Nat)) /\ Len(items) \in Nat
    BY InputsAssumption DEF Init
  <2> QED BY <2>1 DEF Init, TypeOK, Names
<1>2. SearchInv
  BY DEF Init, SearchInv, VerdictIsRight
<1>3. SortInv
  BY EmptyLine DEF Init, SortInv, sortReturned
<1> QED BY <1>1, <1>2, <1>3 DEF DagInv

\* The three invariants hold always.
LEMMA DagAlways == Spec => []DagInv
<1>1. DagInv /\ [Next]_vars => DagInv'
  BY TypeStep, SearchStep, SortStep DEF DagInv
<1> QED BY <1>1, DagInit, PTL DEF Spec

\* cycleDetector (542-596) is right about every list of steps: the three colours,
\* shared by all searches, hide no cycle and invent none.
THEOREM VerdictTheorem == Spec => []VerdictIsRight
<1>1. DagInv => VerdictIsRight
  BY DEF DagInv, SearchInv
<1> QED BY <1>1, DagAlways, PTL

\* topologicalSortSteps (1134-1172) puts every step of every list behind the steps
\* it depends on.
THEOREM OrderTheorem == Spec => []DependenciesPlacedFirst
<1>1. DagInv => DependenciesPlacedFirst
  <2> SUFFICES ASSUME DagInv, NEW i \in DOMAIN sorted, NEW d \in dependsOn(sorted[i])
               PROVE  \E k \in 1..(i - 1) : sorted[k] = d
    BY DEF DependenciesPlacedFirst
  <2>1. sorted \in Seq(Names) /\ queue \in Seq(Names)
    BY DEF DagInv, TypeOK
  <2>2. i \in DOMAIN line /\ line[i] = sorted[i]
    BY <2>1, LineIs DEF line
  <2>3. PICK k \in DOMAIN sorted : k < i /\ sorted[k] = d
    BY <2>2 DEF DagInv, SortInv, placedFirst
  <2> QED BY <2>1, <2>3
<1> QED BY <1>1, DagAlways, PTL

\* topologicalSortSteps returns the steps of every list that can be placed, and each
\* once; after cycleDetector accepted the list, these are all steps.
THEOREM SortTheorem == Spec => []SortKeepsPlaceable
<1>1. DagInv => SortKeepsPlaceable
  <2> SUFFICES ASSUME DagInv, sortReturned
               PROVE  /\ Range(sorted) = Placeable /\ IsInjective(sorted)
                      /\ verdict = "acyclic" => Placeable = Names
    BY Zenon DEF SortKeepsPlaceable, sortReturned
  <2>0. /\ TypeOK /\ queue = << >> /\ toRelease = {} /\ pc = "done"
        /\ \A n \in Names : ExistsBijection(1..inDegree[n], waitsFor(n))
        /\ Range(line) = {n \in Names : inDegree[n] = 0}
        /\ IsInjective(line)
        /\ \A S \in SUBSET Names : stuck(S) => S \cap Range(line) = {}
    BY DEF DagInv, SortInv, sortReturned, counted, inLine, noneStuck
  <2>1. line = sorted
    BY <2>0 DEF line, TypeOK
  <2> DEFINE left == Names \ Range(sorted)
  <2>2. stuck(left)
    <3> SUFFICES ASSUME NEW i \in left
                 PROVE  dependsOn(i) \cap left # {} \/ namesUnknown(i)
      BY DEF stuck
    <3>1. waitsFor(i) # {}
      BY <2>0, <2>1, CountOfNone DEF TypeOK
    <3>2. PICK k \in DOMAIN items[i] : items[i][k] \notin Range(sorted)
      BY <3>1, <2>0 DEF waitsFor
    <3> QED BY Zenon, <3>2 DEF dependsOn, Range, namesUnknown
  <2>3. Range(sorted) = Placeable
    BY <2>0, <2>1, <2>2 DEF Placeable
  <2>4. ASSUME verdict = "acyclic"
        PROVE  Placeable = Names
    <3>1. ~Cyclic /\ \A i \in Names : ~namesUnknown(i)
      BY <2>4 DEF DagInv, SearchInv, VerdictIsRight
    <3>2. \A S \in SUBSET Names : stuck(S) => S = {}
      BY <3>1 DEF stuck, Cyclic, closed
    <3> QED BY <3>2 DEF Placeable
  <2> QED BY Zenon, <2>0, <2>1, <2>3, <2>4
<1> QED BY <1>1, DagAlways, PTL
=============================================================================
