------------------------- MODULE EventTriggersProofs -------------------------
(***************************************************************************)
(* Proofs about EventTriggers, for any number of triggers, paths, specs    *)
(* and requests, any budget and any staleness of the caches: type          *)
(* correctness, RateLimitRespected, RouteKept, PathClosedWhileDeleting and *)
(* StatusIsRight.                                                          *)
(***************************************************************************)
EXTENDS EventTriggers, FiniteSetTheorems, TLAPS

-----------------------------------------------------------------------------
(* Inductive invariants *)

\* Routes and the handlers' copies carry the path they were looked up under.
PathInv ==
  /\ \A p \in Paths : routes[p] # NoRoute => path[routes[p].spec] = p
  /\ \A r \in Requests : requests[r].pc \in {"limit", "allow", "create"} =>
       requests[r].route \in Routes /\ path[requests[r].route.spec] \in Paths

\* The cache is an earlier state of the trigger, with the same spec when it has
\* the same generation.
cacheInv(t) ==
  /\ triggers[t].there = "no" <=> triggers[t].gen = 0
  /\ cache[t].there = "no" <=> cache[t].gen = 0
  /\ cache[t].gen <= triggers[t].gen
  /\ cache[t].gen = triggers[t].gen => cache[t].spec = triggers[t].spec
  /\ cache[t].there \in {"deleting", "gone"} => triggers[t].there \in {"deleting", "gone"}

\* A route is as old as the cache or older; a route of the cached generation has
\* the path of the cached spec, where the other triggers' reconciles find it.
routeInv(p) ==
  routes[p] # NoRoute =>
    /\ routes[p].gen > 0 /\ routes[p].gen <= cache[routes[p].trigger].gen
    /\ routes[p].gen = cache[routes[p].trigger].gen =>
         path[cache[routes[p].trigger].spec] = p

RouteInv == (\A t \in Triggers : cacheInv(t)) /\ (\A p \in Paths : routeInv(p))

\* A trigger that is not queued has the right status, or an informer event for it
\* is under way, or a status patch is that changes it or ends in an error.
settled(t) ==
  IF work # NoWork /\ work.trigger = t
    THEN /\ work.base = cache[t]
         /\ \/ work.new.registered # cache[t].registered
            \/ work.new.reason # cache[t].reason
            \/ work.mustRegister /\ ~cache[t].registered
            \/ rightStatus(t, cache[t], secretCache)
    ELSE cache[t] # triggers[t] \/ rightStatus(t, cache[t], secretCache)

StatusInv == \A t \in Triggers \ queue : settled(t)

\* The counters hold every entry of the last minute, whichever they dropped.
RateInv ==
  /\ \A e \in log : /\ e.serial < Cardinality(log) /\ e.time <= clock
                    /\ e.time > clock - Minute => e \in counts
  /\ RateLimitRespected

USE DEF vars, objectVars, cacheVars, routeVars, requestVars, operatorIdle

-----------------------------------------------------------------------------
(* What the steps change *)

\* The reconciles that neither register nor remove a route.
quietReconcile(t) ==
  \/ ReconcileNotFound(t) \/ ReadFails(t) \/ ReconcileBlocked(t)
  \/ ReconcileWithoutWebhook(t) \/ ReconcileCollision(t) \/ ReconcileRouteFails(t)

\* The steps of users and of the API server on trigger t.
userStep(t) ==
  \/ TriggerRemoved(t)
  \/ \E s \in Specs : UserCreates(t, s) \/ UserEdits(t, s)
  \/ \E there \in {"deleting", "gone"} : UserDeletes(t, there)

LEMMA QuietEffect ==
  ASSUME NEW t \in Triggers, quietReconcile(t)
  PROVE  /\ UNCHANGED <<triggers, secret, cache, secretCache, requests, counts, log, clock,
                        routes, evicted, epoch, missed, restarts>>
         /\ work = NoWork /\ (queue' = queue \/ queue' = queue \ {t})
         /\ UNCHANGED left \/ fault
BY Zenon DEF quietReconcile, ReconcileNotFound, ReadFails, ReconcileBlocked,
     ReconcileWithoutWebhook, ReconcileCollision, ReconcileRouteFails, startReconcile, dequeue

LEMMA UserEffect ==
  ASSUME NEW t \in Triggers, userStep(t)
  PROVE  /\ UNCHANGED <<secret, cache, secretCache, queue, work, routes, evicted, requests,
                        counts, log, clock, epoch, missed, restarts>>
         /\ UNCHANGED left \/ change
BY ZenonT(40) DEF userStep, TriggerRemoved, UserCreates, UserEdits, UserDeletes

\* A step is one of a handler or the clock, which leave the controller alone, or
\* one of the controller and its environment, which leave the limiter alone.
LEMMA Changes ==
  ASSUME [Next]_vars
  PROVE  \/ /\ controllerIdle
            /\ UNCHANGED <<counts, log, clock>> \/ Tick \/ \E r \in Requests : Allow(r)
         \/ /\ UNCHANGED <<counts, log, clock>>
            /\ \/ \E t \in Triggers : \/ quietReconcile(t) \/ ReconcileDeleting(t)
                                       \/ ReconcileRegisters(t) \/ userStep(t) \/ Sync(t)
               \/ PatchStatus \/ PatchStatusFails \/ SyncSecret \/ Crash
               \/ \E v \in Secrets \cup {NoSecret} : UserChangesSecret(v)
<1>1. ASSUME NEW t \in Triggers, ReconcileDeleting(t) \/ ReconcileRegisters(t) \/ Sync(t)
      PROVE  UNCHANGED <<counts, log, clock>>
  BY Zenon, <1>1 DEF ReconcileDeleting, ReconcileRegisters, Sync, startReconcile
<1>2. ASSUME NEW r \in Requests, handleRequest(r)
      PROVE  controllerIdle /\ (UNCHANGED <<counts, log, clock>> \/ Allow(r))
  BY Zenon, <1>2 DEF handleRequest, LookUpRoute, RefuseRequest, FetchCounter, FailRequest,
              createWorkflow, Allow
<1>3. ASSUME \/ PatchStatus \/ PatchStatusFails \/ SyncSecret \/ Crash
             \/ \E v \in Secrets \cup {NoSecret} : UserChangesSecret(v)
      PROVE  UNCHANGED <<counts, log, clock>>
  BY Zenon, <1>3 DEF PatchStatus, PatchStatusFails, SyncSecret, Crash, UserChangesSecret
<1>4. ASSUME Tick \/ UNCHANGED vars PROVE controllerIdle
  BY Zenon, <1>4 DEF Tick, controllerIdle
<1>5. ASSUME UNCHANGED vars PROVE UNCHANGED <<counts, log, clock>>
  BY <1>5
<1>6. CASE Reconcile
  BY Zenon, <1>1, <1>3, <1>6, QuietEffect DEF Reconcile, quietReconcile
<1>7. ASSUME NEW t \in Triggers, userStep(t) PROVE UNCHANGED <<counts, log, clock>>
  BY Zenon, <1>7, UserEffect
<1> HIDE DEF vars
<1> QED BY ZenonT(40), <1>1, <1>2, <1>3, <1>4, <1>5, <1>6, <1>7 DEF Next, userStep

-----------------------------------------------------------------------------
(* Types *)

TypeInv == TypeOK /\ PathInv /\ IsFiniteSet(log)

LEMMA TypeInit == Init => TypeInv
<1> SUFFICES ASSUME Init PROVE TypeInv OBVIOUS
<1>1. Absent \in TriggerRecords
  BY TriggerAssumption DEF Absent, TriggerRecords, Reasons
<1>2. left \in [changes : Int, requests : Int, faults : Int]
  BY TriggerAssumption DEF Init
<1>3. NewHandler \in Handlers /\ NewHandler.pc = "new"
  BY DEF NewHandler, Handlers
<1> QED BY Zenon, <1>1, <1>2, <1>3, FS_EmptySet DEF Init, TypeInv, TypeOK, PathInv, NoRoutes

LEMMA EpochType ==
  ASSUME epoch \in [Paths -> Nat], NEW ps, dropCounters(ps)
  PROVE  epoch' \in [Paths -> Nat]
<1> DEFINE next(p) == IF p \in ps /\ counterInUse(p) THEN epoch[p] + 1 ELSE epoch[p]
<1>1. \A p \in Paths : next(p) \in Nat
  BY DEF next
<1> HIDE DEF next
<1>2. epoch' = [p \in Paths |-> next(p)]
  BY DEF dropCounters, next
<1> QED BY <1>1, <1>2

LEMMA LeftType ==
  ASSUME left \in [changes : Int, requests : Int, faults : Int],
         UNCHANGED left \/ fault \/ change
           \/ left' = [left EXCEPT !.requests = @ - 1]
  PROVE  left' \in [changes : Int, requests : Int, faults : Int]
BY DEF fault, change

\* A reconcile leaves the routes alone or registers a route on its own path.
LEMMA TypeReconcile ==
  ASSUME TypeInv, NEW t \in Triggers,
         quietReconcile(t) \/ ReconcileDeleting(t) \/ ReconcileRegisters(t)
  PROVE  TypeInv'
<1>1. /\ UNCHANGED <<triggers, secret, cache, secretCache, requests, counts, log, clock,
                     missed, restarts>>
      /\ queue' = queue \/ queue' = queue \ {t}
      /\ UNCHANGED left \/ fault
  BY Zenon, QuietEffect DEF ReconcileDeleting, ReconcileRegisters, startReconcile, dequeue
<1>2. cache[t] \in TriggerRecords /\ left' \in [changes : Int, requests : Int, faults : Int]
  BY <1>1, LeftType DEF TypeInv, TypeOK
<1>3. ASSUME NEW reg \in BOOLEAN, NEW reason \in Reasons, NEW must \in BOOLEAN,
             callPatch(t, reg, reason, must)
      PROVE  work' \in Work
  BY Zenon, <1>2, <1>3 DEF callPatch, Work, TriggerRecords
<1>4. work' # NoWork => work' \in Work
  BY ZenonT(40), <1>3 DEF TypeInv, TypeOK, quietReconcile, ReconcileNotFound, ReadFails,
         ReconcileDeleting, ReconcileBlocked, ReconcileWithoutWebhook, ReconcileCollision,
         ReconcileRouteFails, ReconcileRegisters, Reasons, startReconcile
<1>5. SUFFICES ASSUME routes' \in [Paths -> Routes \cup {NoRoute}], evicted' \subseteq Paths,
                      epoch' \in [Paths -> Nat],
                      \A p \in Paths : routes'[p] # NoRoute =>
                        routes'[p] = routes[p] \/ path[routes'[p].spec] = p
               PROVE  TypeInv'
  <2>1. CASE quietReconcile(t)
    BY Zenon, <1>5, <2>1, QuietEffect DEF TypeInv, TypeOK
  <2>2. CASE ReconcileDeleting(t)
    <3>1. path[cache[t].spec] # NoPath => path[cache[t].spec] \in Paths
      BY <1>2, TriggerAssumption DEF TriggerRecords
    <3>2. epoch' \in [Paths -> Nat]
      BY Zenon, <2>2, EpochType DEF TypeInv, TypeOK, ReconcileDeleting, DeregisterRoute
    <3> QED BY Zenon, <1>5, <2>2, <3>1, <3>2
            DEF TypeInv, TypeOK, ReconcileDeleting, DeregisterRoute
  <2>3. CASE ReconcileRegisters(t)
    <3>1. path[cache[t].spec] \in Paths
      BY Zenon, <1>2, <2>3, TriggerAssumption DEF TriggerRecords, ReconcileRegisters, wantsRoute
    <3>2. route(t) \in Routes /\ route(t).spec = cache[t].spec
      BY <1>2 DEF route, Routes, TriggerRecords, TypeInv, TypeOK
    <3> QED BY Zenon, <1>5, <2>3, <3>1, <3>2
            DEF TypeInv, TypeOK, ReconcileRegisters, RegisterRoute
  <2> QED BY Zenon, <2>1, <2>2, <2>3
<1> QED BY <1>1, <1>2, <1>4, <1>5 DEF TypeInv, TypeOK, PathInv

LEMMA TypePatch ==
  ASSUME TypeInv, PatchStatus \/ PatchStatusFails
  PROVE  TypeInv'
<1>1. CASE PatchStatus
  <2>1. work \in Work
    BY <1>1 DEF PatchStatus, TypeInv, TypeOK
  <2>2. /\ triggers[work.trigger] \in TriggerRecords
        /\ work.new \in TriggerRecords /\ work.trigger \in Triggers
    BY <2>1 DEF Work, TypeInv, TypeOK
  <2>3. mergePatch(triggers[work.trigger], work.base, work.new) \in TriggerRecords
    BY Zenon, <2>2 DEF mergePatch, merge, TriggerRecords
  <2>4. triggers' \in [Triggers -> TriggerRecords] /\ queue' \subseteq Triggers
    BY <1>1, <2>2, <2>3 DEF PatchStatus, TypeInv, TypeOK
  <2>5. work' = NoWork
    BY <1>1 DEF PatchStatus
  <2> QED BY <1>1, <2>4, <2>5 DEF PatchStatus, TypeInv, TypeOK, PathInv
<1>2. CASE PatchStatusFails
  <2>1. left' \in [changes : Int, requests : Int, faults : Int]
    BY Zenon, <1>2, LeftType DEF PatchStatusFails, TypeInv, TypeOK
  <2>2. work.trigger \in Triggers
    BY <1>2 DEF PatchStatusFails, Work, TypeInv, TypeOK
  <2> QED BY <1>2, <2>1, <2>2 DEF PatchStatusFails, TypeInv, TypeOK, PathInv
<1> QED BY Zenon, <1>1, <1>2

LEMMA TypeRequest ==
  ASSUME TypeInv, NEW r \in Requests, handleRequest(r)
  PROVE  TypeInv'
<1>1. /\ UNCHANGED <<triggers, secret, cache, secretCache, queue, work, routes, evicted,
                     epoch, missed, restarts, clock>>
      /\ UNCHANGED left \/ left' = [left EXCEPT !.requests = @ - 1]
  BY Zenon DEF handleRequest, LookUpRoute, RefuseRequest, FetchCounter, Allow, FailRequest,
         createWorkflow, controllerIdle
<1>2. left' \in [changes : Int, requests : Int, faults : Int]
  BY <1>1, LeftType DEF TypeInv, TypeOK
<1>3. requests[r] \in Handlers
  BY DEF TypeInv, TypeOK
<1>4. SUFFICES ASSUME NEW h \in Handlers, requests' = [requests EXCEPT ![r] = h],
                      h.pc \in {"limit", "allow", "create"} =>
                        h.route \in Routes /\ path[h.route.spec] \in Paths,
                      log' \subseteq Entries, counts' \subseteq log', IsFiniteSet(log')
               PROVE  TypeInv'
  <2>1. ASSUME NEW p \in Paths, LookUpRoute(r, p) PROVE TypeInv'
    <3>1. routes[p] \in Routes /\ path[routes[p].spec] \in Paths
      BY <2>1 DEF LookUpRoute, TypeInv, TypeOK, PathInv
    <3>2. [requests[r] EXCEPT !.pc = "limit", !.route = routes[p]] \in Handlers
      BY Zenon, <1>3, <3>1 DEF Handlers
    <3> QED BY Zenon, <1>3, <1>4, <2>1, <3>1, <3>2 DEF LookUpRoute, TypeInv, TypeOK, Handlers
  <2>2. [NewHandler EXCEPT !.pc = "refused"] \in Handlers
    BY DEF NewHandler, Handlers
  <2>3. CASE RefuseRequest(r) \/ FailRequest(r)
    BY <1>4, <2>2, <2>3
       DEF RefuseRequest, FailRequest, answer, NewHandler, TypeInv, TypeOK
  <2>4. CASE FetchCounter(r)
    <3>1. /\ requests[r].route \in Routes /\ path[requests[r].route.spec] \in Paths
          /\ epoch[path[requests[r].route.spec]] \in Nat
      BY <2>4 DEF FetchCounter, handler, TypeInv, TypeOK, PathInv
    <3> DEFINE h == IF maxPerMinute[requests[r].route.spec] = 0
                      THEN [requests[r] EXCEPT !.pc = "create"]
                      ELSE [requests[r] EXCEPT !.pc = "allow",
                              !.epoch = epoch[path[requests[r].route.spec]]]
    <3>2. h \in Handlers /\ h.route = requests[r].route
      BY Zenon, <1>3, <3>1 DEF Handlers
    <3>3. requests' = [requests EXCEPT ![r] = h] /\ UNCHANGED <<log, counts>>
      BY Zenon, <2>4 DEF FetchCounter
    <3> HIDE DEF h
    <3> QED BY Zenon, <1>4, <3>1, <3>2, <3>3 DEF TypeInv, TypeOK
  <2>5. CASE Allow(r)
    <3>1. requests[r].route \in Routes /\ path[requests[r].route.spec] \in Paths
      BY <2>5 DEF Allow, handler, TypeInv, PathInv
    <3>2. [requests[r] EXCEPT !.pc = "create"] \in Handlers
          /\ [requests[r] EXCEPT !.pc = "create"].route = requests[r].route
      BY <1>3 DEF Handlers
    <3>3. CASE answer(r) /\ UNCHANGED log /\ counts' \subseteq counts
      BY Zenon, <1>4, <2>2, <3>3 DEF answer, NewHandler, TypeInv, TypeOK
    <3>4. CASE /\ log' = log \cup {newEntry(requests[r])}
               /\ counts' \subseteq counts \cup {newEntry(requests[r])}
               /\ requests' = [requests EXCEPT ![r].pc = "create"]
      <4>1. Cardinality(log) \in Nat /\ IsFiniteSet(log')
        BY Zenon, <3>4, FS_CardinalityType, FS_AddElement DEF TypeInv
      <4>2. newEntry(requests[r]) \in Entries
        BY <1>3, <3>1, <4>1, TriggerAssumption
           DEF newEntry, Entries, Handlers, Routes, TypeInv, TypeOK
      <4> QED BY Zenon, <1>4, <3>1, <3>2, <3>4, <4>1, <4>2 DEF TypeInv, TypeOK
    <3> QED BY <2>5, <3>3, <3>4 DEF Allow, counter, recent
  <2>6. CASE createWorkflow(r)
    BY Zenon, <1>3, <1>4, <2>6 DEF createWorkflow, Handlers, TypeInv, TypeOK
  <2> QED BY <2>1, <2>3, <2>4, <2>5, <2>6 DEF handleRequest
<1> QED BY <1>1, <1>2, <1>4 DEF TypeInv, TypeOK, PathInv

LEMMA TypeUser ==
  ASSUME TypeInv, NEW t \in Triggers, userStep(t)
  PROVE  TypeInv'
<1>1. left' \in [changes : Int, requests : Int, faults : Int]
  BY Zenon, UserEffect, LeftType DEF TypeInv, TypeOK
<1>2. triggers \in [Triggers -> TriggerRecords] /\ triggers[t] \in TriggerRecords
  BY DEF TypeInv, TypeOK
<1>3. SUFFICES ASSUME NEW c \in TriggerRecords, triggers' = [triggers EXCEPT ![t] = c]
               PROVE  TypeInv'
  <2>1. ASSUME NEW s \in Specs, UserCreates(t, s) PROVE TypeInv'
    <3>1. [triggers[t] EXCEPT !.there = "live", !.gen = 1, !.spec = s] \in TriggerRecords
      BY Zenon, <1>2 DEF TriggerRecords
    <3> QED BY Zenon, <1>2, <1>3, <2>1, <3>1 DEF UserCreates
  <2>2. ASSUME NEW s \in Specs, UserEdits(t, s) PROVE TypeInv'
    <3>1. triggers[t].gen + 1 \in Nat
      BY <1>2 DEF TriggerRecords
    <3>2. [triggers[t] EXCEPT !.gen = @ + 1, !.spec = s] \in TriggerRecords
      BY Zenon, <1>2, <3>1 DEF TriggerRecords
    <3> QED BY Zenon, <1>2, <1>3, <2>2, <3>2 DEF UserEdits
  <2>3. ASSUME NEW x \in {"deleting", "gone"},
               triggers' = [triggers EXCEPT ![t].there = x]
        PROVE  TypeInv'
    <3>1. [triggers[t] EXCEPT !.there = x] \in TriggerRecords
      BY <1>2 DEF TriggerRecords
    <3> QED BY Zenon, <1>2, <1>3, <2>3, <3>1
  <2> QED BY Zenon, <2>1, <2>2, <2>3 DEF userStep, UserDeletes, TriggerRemoved
<1>4. triggers' \in [Triggers -> TriggerRecords]
  BY <1>2, <1>3
<1> QED BY <1>1, <1>4, UserEffect DEF TypeInv, TypeOK, PathInv

LEMMA TypeOperator ==
  ASSUME TypeInv, \/ \E t \in Triggers : Sync(t)
                  \/ SyncSecret \/ Tick \/ Crash
                  \/ \E v \in Secrets \cup {NoSecret} : UserChangesSecret(v)
  PROVE  TypeInv'
<1>1. ASSUME NEW t \in Triggers, Sync(t) PROVE TypeInv'
  BY Zenon, <1>1 DEF Sync, TypeInv, TypeOK, PathInv
<1>2. CASE SyncSecret
  <2>1. left' \in [changes : Int, requests : Int, faults : Int]
    BY <1>2, LeftType DEF SyncSecret, TypeInv, TypeOK
  <2>2. queue' \subseteq Triggers /\ missed' \in BOOLEAN
    BY Zenon, <1>2 DEF SyncSecret, mapSecretToTriggers, TypeInv, TypeOK
  <2> QED BY <1>2, <2>1, <2>2 DEF SyncSecret, TypeInv, TypeOK, PathInv
<1>3. CASE Tick
  BY <1>3 DEF Tick, controllerIdle, TypeInv, TypeOK, PathInv
<1>4. CASE Crash
  <2>1. left' \in [changes : Int, requests : Int, faults : Int]
    BY <1>4, LeftType DEF Crash, TypeInv, TypeOK
  <2>2. epoch' \in [Paths -> Nat]
    BY <1>4, EpochType DEF Crash, TypeInv, TypeOK
  <2>3. /\ [NewHandler EXCEPT !.pc = "refused"] \in Handlers
        /\ [NewHandler EXCEPT !.pc = "refused"].pc = "refused"
    BY DEF NewHandler, Handlers
  <2>4. /\ requests' \in [Requests -> Handlers]
        /\ \A r \in Requests : requests'[r].pc \notin {"limit", "allow", "create"}
    BY <1>4, <2>3 DEF Crash, TypeInv, TypeOK
  <2>5. routes' = NoRoutes /\ work' = NoWork
    BY <1>4 DEF Crash
  <2>6. PathInv'
    BY <2>4, <2>5 DEF PathInv, NoRoutes
  <2>7. TypeOK'
    <3>1. routes' \in [Paths -> Routes \cup {NoRoute}]
      BY <2>5 DEF NoRoutes
    <3>2. /\ UNCHANGED <<triggers, secret, counts, log, clock>>
          /\ cache' = triggers /\ secretCache' = secret /\ queue' \subseteq Triggers
          /\ evicted' = {} /\ missed' = FALSE /\ restarts' = restarts + 1
      BY Zenon, <1>4 DEF Crash
    <3>3. /\ triggers \in [Triggers -> TriggerRecords] /\ secret \in Secrets \cup {NoSecret}
          /\ log \subseteq Entries /\ counts \subseteq log /\ clock \in Nat
          /\ restarts + 1 \in Nat
      BY DEF TypeInv, TypeOK
    <3> QED BY <2>1, <2>2, <2>4, <2>5, <3>1, <3>2, <3>3, Zenon DEF TypeOK
  <2> QED BY <1>4, <2>6, <2>7 DEF Crash, TypeInv
<1>5. ASSUME NEW v \in Secrets \cup {NoSecret}, UserChangesSecret(v) PROVE TypeInv'
  <2>1. left' \in [changes : Int, requests : Int, faults : Int]
    BY Zenon, <1>5, LeftType DEF UserChangesSecret, TypeInv, TypeOK
  <2> QED BY <1>5, <2>1 DEF UserChangesSecret, TypeInv, TypeOK, PathInv
<1> QED BY Zenon, <1>1, <1>2, <1>3, <1>4, <1>5

LEMMA TypeStep == TypeInv /\ [Next]_vars => TypeInv'
<1> SUFFICES ASSUME TypeInv, [Next]_vars PROVE TypeInv' BY Zenon
<1>1. CASE UNCHANGED vars
  BY <1>1 DEF TypeInv, TypeOK, PathInv
<1> HIDE DEF vars
<1> QED
  BY ZenonT(40), <1>1, TypeReconcile, TypePatch, TypeRequest, TypeUser, TypeOperator
     DEF Next, Reconcile, quietReconcile, userStep

LEMMA TypeAlways == Spec => []TypeInv
BY TypeInit, TypeStep, PTL DEF Spec

\* Every reachable state is well typed: routes, handlers, rate counters and the
\* status patch under way hold what their types say.
THEOREM TypeCorrect == Spec => []TypeOK
BY TypeAlways, PTL DEF TypeInv

-----------------------------------------------------------------------------
(* The rate limiter *)

\* What RateLimitRespected counts for an entry e.
before(e) == {d \in log : /\ d.path = e.path /\ d.epoch = e.epoch
                          /\ d.serial <= e.serial /\ d.time > e.time - Minute}

\* The limiter lets a request through: with the entries of the last minute still
\* in the counter, what the new entry is counted with is what allow counted.
LEMMA RateAllow ==
  ASSUME TypeInv, RateInv, NEW r \in Requests, Allow(r)
  PROVE  RateInv'
<1> DEFINE h == requests[r]
           n == newEntry(h)
           kept == recent(counter(h))
<1>1. /\ IsFiniteSet(log) /\ Cardinality(log) \in Nat /\ clock' = clock
      /\ log \subseteq Entries /\ counts \subseteq log /\ clock \in Nat
  BY FS_CardinalityType DEF Allow, TypeInv, TypeOK
<1>2. \A e \in log : /\ e.serial \in Nat /\ e.time \in Nat /\ e.max \in Nat
                     /\ e.serial < Cardinality(log) /\ e.time <= clock
                     /\ e.time > clock - Minute => e \in counts
  BY Zenon, <1>1 DEF Entries, RateInv
<1>3. CASE log' = log /\ counts' = (counts \ counter(h)) \cup kept
  BY <1>1, <1>2, <1>3 DEF RateInv, RateLimitRespected, recent, counter
<1>4. CASE /\ log' = log \cup {n} /\ counts' = (counts \ counter(h)) \cup kept \cup {n}
           /\ Cardinality(kept) < maxPerMinute[h.route.spec]
  <2>1. /\ n.serial = Cardinality(log) /\ n.time = clock /\ n.epoch = h.epoch
        /\ n.path = path[h.route.spec] /\ n.max = maxPerMinute[h.route.spec]
    BY DEF newEntry
  <2>2. n \notin log
    BY <1>1, <1>2, <2>1
  <2>3. Cardinality(log') = Cardinality(log) + 1
    BY Zenon, <1>1, <1>4, <2>2, FS_AddElement
  <2>4. n.max \in Nat
    BY Zenon, <2>1, TriggerAssumption
       DEF Allow, handler, TypeInv, PathInv, Routes
  <2>5. \A e \in log' : /\ e.serial < Cardinality(log') /\ e.time <= clock'
                        /\ e.time > clock' - Minute => e \in counts'
    <3>1. \A e \in counts : e.time > clock - Minute => e \in counts'
      BY Zenon, <1>4 DEF recent
    <3>2. n \in counts'
      BY Zenon, <1>4
    <3> HIDE DEF h, n, kept
    <3> QED BY <1>1, <1>2, <1>4, <2>1, <2>3, <3>1, <3>2
  <2>6. ASSUME NEW e \in log' PROVE Cardinality(before(e)') <= e.max
    <3>1. CASE e \in log
      <4>1. before(e)' = before(e)
        BY <1>1, <1>2, <1>4, <2>1, <3>1 DEF before
      <4> QED BY Zenon, <3>1, <4>1 DEF RateInv, RateLimitRespected, before
    <3>2. CASE e = n
      <4>1. before(e)' \subseteq kept \cup {n}
        BY Zenon, <1>1, <1>2, <1>4, <2>1, <3>2 DEF before, recent, counter
      <4>2. IsFiniteSet(kept) /\ Cardinality(kept) \in Nat
        <5>1. kept \subseteq log
          BY <1>1 DEF recent, counter
        <5> QED BY <1>1, <5>1, FS_Subset, FS_CardinalityType
      <4>3. n \notin kept
        BY <1>1, <2>2 DEF recent, counter
      <4>4. IsFiniteSet(kept \cup {n}) /\ Cardinality(kept \cup {n}) = Cardinality(kept) + 1
        BY <4>2, <4>3, FS_AddElement
      <4>5. /\ Cardinality(before(e)') <= Cardinality(kept \cup {n})
            /\ Cardinality(before(e)') \in Nat
        BY Zenon, <4>1, <4>4, FS_Subset, FS_CardinalityType
      <4> HIDE DEF kept, n
      <4> QED BY <1>4, <2>1, <2>4, <3>2, <4>2, <4>4, <4>5
    <3> QED BY <1>4, <3>1, <3>2
  <2> QED BY Zenon, <2>5, <2>6 DEF RateInv, RateLimitRespected, before
<1>5. Cardinality(kept) \in Nat /\ maxPerMinute[h.route.spec] \in Nat
  <2>1. kept \subseteq log
    BY <1>1 DEF recent, counter
  <2> QED BY Zenon, <1>1, <2>1, FS_Subset, FS_CardinalityType, TriggerAssumption
          DEF Allow, handler, TypeInv, PathInv, Routes
<1> QED BY <1>3, <1>4, <1>5 DEF Allow

LEMMA RateStep == TypeInv /\ RateInv /\ [Next]_vars => RateInv'
<1> SUFFICES ASSUME TypeInv, RateInv, [Next]_vars PROVE RateInv' OBVIOUS
<1>1. CASE UNCHANGED <<counts, log, clock>>
  BY Zenon, <1>1 DEF RateInv, RateLimitRespected
<1>2. CASE Tick
  <2>1. UNCHANGED <<counts, log>> /\ clock' = clock + 1 /\ clock \in Nat
    BY <1>2 DEF Tick, controllerIdle, TypeInv, TypeOK
  <2>2. \A e \in log : e.time \in Nat
    BY DEF TypeInv, TypeOK, Entries
  <2> QED BY <2>1, <2>2, TriggerAssumption DEF RateInv, RateLimitRespected
<1> QED BY Zenon, <1>1, <1>2, RateAllow, Changes

\* The window of the rate limiter is exact for every limit, window and history
\* of route changes: of the requests one counter let through, at most the
\* limit fall into any minute that ends with a request it let through.
THEOREM RateIsLimited == Spec => []RateLimitRespected
<1>1. Init => RateInv
  BY DEF Init, RateInv, RateLimitRespected
<1>2. TypeInv /\ RateInv /\ [Next]_vars => RateInv'
  BY RateStep
<1>3. RateInv => RateLimitRespected
  BY DEF RateInv
<1> QED BY <1>1, <1>2, <1>3, TypeAlways, PTL DEF Spec
-----------------------------------------------------------------------------
(* Routes *)

\* The steps that leave triggers, cache and routes alone, and the others.
LEMMA RouteChanges ==
  ASSUME [Next]_vars
  PROVE  \/ UNCHANGED <<triggers, cache, routes, restarts>>
         \/ \E t \in Triggers : \/ ReconcileDeleting(t) \/ ReconcileRegisters(t)
                                \/ userStep(t) \/ Sync(t)
         \/ PatchStatus \/ Crash
<1>1. ASSUME \/ controllerIdle \/ PatchStatusFails \/ SyncSecret
             \/ \E v \in Secrets \cup {NoSecret} : UserChangesSecret(v)
      PROVE  UNCHANGED <<triggers, cache, routes, restarts>>
  BY Zenon, <1>1 DEF controllerIdle, PatchStatusFails, SyncSecret, UserChangesSecret
<1> QED BY Zenon, <1>1, Changes, QuietEffect

LEMMA RouteInit == Init => RouteInv
BY DEF Init, RouteInv, cacheInv, routeInv, Absent, NoRoutes

\* A status patch changes neither generation nor spec nor deletion timestamp.
LEMMA PatchKeeps ==
  ASSUME TypeInv, PatchStatus
  PROVE  /\ \A t \in Triggers : /\ triggers'[t].gen = triggers[t].gen
                                /\ triggers'[t].spec = triggers[t].spec
                                /\ triggers'[t].there = triggers[t].there
         /\ UNCHANGED <<cache, routes, restarts>>
<1>1. work \in Work /\ triggers \in [Triggers -> TriggerRecords]
  BY DEF PatchStatus, TypeInv, TypeOK
<1>2. triggers' = [triggers EXCEPT ![work.trigger] =
                     mergePatch(triggers[work.trigger], work.base, work.new)]
  BY DEF PatchStatus
<1>3. ASSUME NEW c \in TriggerRecords, NEW b, NEW n
      PROVE  /\ mergePatch(c, b, n).gen = c.gen /\ mergePatch(c, b, n).spec = c.spec
             /\ mergePatch(c, b, n).there = c.there
  BY Zenon DEF mergePatch, TriggerRecords
<1> QED BY <1>1, <1>2, <1>3 DEF PatchStatus, Work

\* A step of a user raises the generation or deletes the trigger.
LEMMA UserMoves ==
  ASSUME TypeInv, RouteInv, NEW t \in Triggers, userStep(t)
  PROVE  /\ \A u \in Triggers \ {t} : triggers'[u] = triggers[u]
         /\ \/ /\ triggers'[t].gen = triggers[t].gen + 1 /\ triggers[t].there = "no"
               /\ triggers'[t].there = "live"
            \/ /\ triggers'[t].gen = triggers[t].gen + 1 /\ exists(triggers[t])
               /\ triggers'[t].there = triggers[t].there
            \/ /\ triggers'[t].gen = triggers[t].gen /\ exists(triggers[t])
               /\ triggers'[t].spec = triggers[t].spec
               /\ triggers'[t].there \in {"deleting", "gone"}
<1>1. triggers \in [Triggers -> TriggerRecords] /\ cacheInv(t)
  BY DEF TypeInv, TypeOK, RouteInv
<1>2. \A u \in Triggers \ {t} : triggers'[u] = triggers[u]
  BY Zenon, <1>1 DEF userStep, TriggerRemoved, UserCreates, UserEdits, UserDeletes
<1> QED BY <1>1, <1>2 DEF userStep, TriggerRemoved, UserCreates, UserEdits, UserDeletes,
                          exists, cacheInv, TriggerRecords

LEMMA RouteStep == TypeInv /\ RouteInv /\ [Next]_vars => RouteInv'
<1> SUFFICES ASSUME TypeInv, RouteInv, [Next]_vars PROVE RouteInv' OBVIOUS
<1>1. /\ triggers \in [Triggers -> TriggerRecords] /\ cache \in [Triggers -> TriggerRecords]
      /\ routes \in [Paths -> Routes \cup {NoRoute}]
  BY Zenon DEF TypeInv, TypeOK
<1>2. CASE UNCHANGED <<triggers, cache, routes, restarts>>
  BY Zenon, <1>2 DEF RouteInv, cacheInv, routeInv
<1>3. ASSUME NEW t \in Triggers, ReconcileDeleting(t) PROVE RouteInv'
  <2>1. UNCHANGED <<triggers, cache>>
    BY Zenon, <1>3 DEF ReconcileDeleting, startReconcile
  <2>2. \A p \in Paths : routes'[p] = NoRoute \/ routes'[p] = routes[p]
    BY Zenon, <1>1, <1>3 DEF ReconcileDeleting, DeregisterRoute
  <2> QED BY ZenonT(40), <2>1, <2>2 DEF RouteInv, cacheInv, routeInv
<1>4. ASSUME NEW t \in Triggers, ReconcileRegisters(t) PROVE RouteInv'
  <2>1. /\ UNCHANGED <<triggers, cache>> /\ cache[t].there = "live"
        /\ path[cache[t].spec] \in Paths
    BY Zenon, <1>1, <1>4, TriggerAssumption
       DEF ReconcileRegisters, startReconcile, wantsRoute, TriggerRecords
  <2>2. cache[t].gen > 0
    BY <1>1, <2>1 DEF RouteInv, cacheInv, TriggerRecords
  <2>3. routes' = [routes EXCEPT ![path[cache[t].spec]] = route(t)]
    BY Zenon, <1>4 DEF ReconcileRegisters, RegisterRoute
  <2>4. route(t).trigger = t /\ route(t).gen = cache[t].gen /\ cache[t].gen \in Nat
    BY Zenon, <1>1 DEF route, TriggerRecords
  <2>5. ASSUME NEW p \in Paths PROVE routeInv(p)'
    <3>1. CASE p = path[cache[t].spec]
      <4>1. routes'[p] = route(t)
        BY Zenon, <1>1, <2>1, <2>3, <3>1
      <4> QED BY <2>1, <2>2, <2>4, <3>1, <4>1 DEF routeInv
    <3>2. CASE p # path[cache[t].spec]
      <4>1. routes'[p] = routes[p]
        BY Zenon, <1>1, <2>3, <3>2
      <4> QED BY Zenon, <2>1, <4>1 DEF RouteInv, routeInv
    <3> QED BY <3>1, <3>2
  <2> QED BY Zenon, <2>1, <2>5 DEF RouteInv, cacheInv
<1>5. CASE PatchStatus
  BY <1>5, PatchKeeps DEF RouteInv, cacheInv, routeInv
<1>6. ASSUME NEW t \in Triggers, userStep(t) PROVE RouteInv'
  <2>1. cacheInv(t)'
    BY <1>1, <1>6, UserMoves, UserEffect DEF RouteInv, cacheInv, TriggerRecords, exists
  <2>2. UNCHANGED <<cache, routes>> /\ \A u \in Triggers \ {t} : triggers'[u] = triggers[u]
    BY Zenon, <1>6, UserEffect, UserMoves
  <2> QED BY <2>1, <2>2 DEF RouteInv, cacheInv, routeInv
<1>7. ASSUME NEW t \in Triggers, Sync(t) PROVE RouteInv'
  <2>1. /\ UNCHANGED <<triggers, routes>> /\ cache' = [cache EXCEPT ![t] = triggers[t]]
    BY Zenon, <1>7 DEF Sync
  <2>2. \A u \in Triggers : cacheInv(u)'
    BY <1>1, <2>1 DEF RouteInv, cacheInv, TriggerRecords
  <2>3. ASSUME NEW p \in Paths, routes[p] # NoRoute PROVE routeInv(p)'
    <3>1. routes[p] \in Routes /\ routes[p].trigger \in Triggers /\ routes[p].gen \in Nat
      BY <1>1, <2>3 DEF Routes
    <3>2. routeInv(p) /\ cacheInv(t)
      BY Zenon DEF RouteInv
    <3>3. CASE routes[p].trigger = t
      <4>1. triggers[t].gen \in Nat /\ cache[t].gen \in Nat
        BY <1>1 DEF TriggerRecords
      <4>2. cache'[t] = triggers[t]
        BY Zenon, <1>1, <2>1
      <4> QED BY <2>1, <2>3, <3>1, <3>2, <3>3, <4>1, <4>2 DEF cacheInv, routeInv
    <3>4. CASE routes[p].trigger # t
      BY Zenon, <1>1, <2>1, <2>3, <3>1, <3>2, <3>4 DEF routeInv
    <3> QED BY <3>3, <3>4
  <2> QED BY Zenon, <2>1, <2>2, <2>3 DEF RouteInv, routeInv
<1>8. CASE Crash
  <2>1. cache' = triggers /\ triggers' = triggers /\ routes' = NoRoutes
    BY <1>8 DEF Crash
  <2> QED BY <1>1, <2>1 DEF RouteInv, cacheInv, routeInv, NoRoutes, TriggerRecords
<1> QED BY Zenon, <1>2, <1>3, <1>4, <1>5, <1>6, <1>7, <1>8, RouteChanges

LEMMA RouteAlways == Spec => [](TypeInv /\ RouteInv)
<1>1. Init => TypeInv /\ RouteInv
  BY Zenon, TypeInit, RouteInit
<1>2. TypeInv /\ RouteInv /\ [Next]_vars => (TypeInv /\ RouteInv)'
  BY Zenon, TypeStep, RouteStep
<1> QED BY <1>1, <1>2, PTL DEF Spec

\* The action that RouteKept asks of every step.
KeepsRoutes ==
  \A p \in Paths :
    inForce(routes[p]) =>
      \/ /\ routes'[p] # NoRoute
         /\ routes'[p].trigger = routes[p].trigger /\ routes'[p].gen = routes[p].gen
      \/ routes'[p] = NoRoute /\ restarts' # restarts
      \/ /\ routes'[p] = NoRoute
         /\ \E u \in Triggers : cache[u].there = "deleting" /\ path[cache[u].spec] = p

\* The trigger of a route in force is in the cache, live and with the route's
\* path and generation: the cache lies between the route and the API server.
LEMMA InForceIsListed ==
  ASSUME TypeInv, RouteInv, NEW p \in Paths, inForce(routes[p])
  PROVE  /\ routes[p].trigger \in Triggers
         /\ exists(cache[routes[p].trigger])
         /\ path[cache[routes[p].trigger].spec] = p
         /\ cache[routes[p].trigger].gen = routes[p].gen
<1>1. routes[p] # NoRoute /\ routes[p] \in Routes
  BY DEF inForce, TypeInv, TypeOK
<1>2. routes[p].trigger \in Triggers /\ routes[p].gen \in Nat
  BY <1>1 DEF Routes
<1> DEFINE t == routes[p].trigger
<1>3. /\ triggers[t] \in TriggerRecords /\ cache[t] \in TriggerRecords
  BY <1>2 DEF TypeInv, TypeOK
<1>4. cacheInv(t) /\ routeInv(p)
  BY ZenonT(40), <1>2 DEF RouteInv
<1>5. /\ routes[p].gen <= cache[t].gen /\ cache[t].gen <= triggers[t].gen
      /\ triggers[t].gen = routes[p].gen /\ cache[t].gen \in Nat
  BY Zenon, <1>1, <1>3, <1>4 DEF cacheInv, routeInv, inForce, TriggerRecords
<1>6. cache[t].gen = routes[p].gen
  BY <1>2, <1>5
<1> QED BY Zenon, <1>1, <1>2, <1>3, <1>4, <1>6
           DEF cacheInv, routeInv, inForce, TriggerRecords, exists

LEMMA KeepsRoutesStep == TypeInv /\ RouteInv /\ [Next]_vars => KeepsRoutes
<1> SUFFICES ASSUME TypeInv, RouteInv, [Next]_vars, NEW p \in Paths, inForce(routes[p]),
                    routes'[p] # routes[p]
             PROVE  \/ /\ routes'[p] # NoRoute
                       /\ routes'[p].trigger = routes[p].trigger
                       /\ routes'[p].gen = routes[p].gen
                    \/ routes'[p] = NoRoute /\ restarts' # restarts
                    \/ /\ routes'[p] = NoRoute
                       /\ \E u \in Triggers : /\ cache[u].there = "deleting"
                                              /\ path[cache[u].spec] = p
  BY Zenon DEF KeepsRoutes, inForce
<1>1. routes \in [Paths -> Routes \cup {NoRoute}] /\ cache \in [Triggers -> TriggerRecords]
  BY Zenon DEF TypeInv, TypeOK
<1>2. ASSUME NEW t \in Triggers, ReconcileDeleting(t)
      PROVE  routes'[p] = NoRoute /\ cache[t].there = "deleting" /\ path[cache[t].spec] = p
  BY <1>1, <1>2 DEF ReconcileDeleting, DeregisterRoute
<1>3. ASSUME NEW t \in Triggers, ReconcileRegisters(t)
      PROVE  /\ routes'[p] # NoRoute /\ routes'[p].trigger = routes[p].trigger
             /\ routes'[p].gen = routes[p].gen
  <2>1. routes' = [routes EXCEPT ![path[cache[t].spec]] = route(t)] /\ ~collides(t)
    BY Zenon, <1>3 DEF ReconcileRegisters, RegisterRoute
  <2>2. path[cache[t].spec] = p /\ routes'[p] = route(t)
    BY <1>1, <2>1
  <2>3. t = routes[p].trigger
    BY ZenonT(40), <2>1, <2>2, InForceIsListed DEF collides
  <2>4. route(t).trigger = t /\ route(t).gen = cache[t].gen
    BY DEF route
  <2>5. route(t) \in Routes
    BY <1>1 DEF route, Routes, TriggerRecords, TypeInv, TypeOK
  <2> QED BY Zenon, <2>2, <2>3, <2>4, <2>5, InForceIsListed, RouteAssumption
<1>4. CASE Crash
  <2>1. routes'[p] = NoRoute /\ restarts' = restarts + 1 /\ restarts \in Nat
    BY <1>4 DEF Crash, NoRoutes, TypeInv, TypeOK
  <2> QED BY <2>1
<1>5. ASSUME \/ UNCHANGED <<triggers, cache, routes, restarts>> \/ PatchStatus
             \/ \E t \in Triggers : userStep(t) \/ Sync(t)
      PROVE  routes' = routes
  BY Zenon, <1>5, UserEffect DEF PatchStatus, Sync
<1> QED BY Zenon, <1>2, <1>3, <1>4, <1>5, RouteChanges

\* No reconcile, however stale the list it compares paths with, gives the route
\* of a live and unchanged trigger to another trigger; only a restart or the
\* deletion of a trigger with the same path removes it.
THEOREM RoutesAreKept == Spec => RouteKept
<1>1. TypeInv /\ RouteInv /\ [Next]_vars => [KeepsRoutes]_vars
  BY KeepsRoutesStep
<1>2. Spec => [][KeepsRoutes]_vars
  BY <1>1, RouteAlways, PTL DEF Spec
<1> QED BY Zenon, <1>2 DEF RouteKept, KeepsRoutes

LEMMA ClosedStep ==
  TypeInv /\ PathClosedWhileDeleting /\ [Next]_vars => PathClosedWhileDeleting'
<1> SUFFICES ASSUME TypeInv, PathClosedWhileDeleting, [Next]_vars, NEW t \in Triggers,
                    cache'[t].there = "deleting", t \notin queue',
                    path[cache'[t].spec] # NoPath
             PROVE  routes'[path[cache'[t].spec]] = NoRoute
  BY Zenon DEF PathClosedWhileDeleting
<1>1. /\ cache \in [Triggers -> TriggerRecords] /\ triggers \in [Triggers -> TriggerRecords]
      /\ routes \in [Paths -> Routes \cup {NoRoute}]
  BY DEF TypeInv, TypeOK
<1>2. CASE cache'[t] = cache[t]
  <2>1. path[cache[t].spec] \in Paths
    BY Zenon, <1>1, <1>2, TriggerAssumption DEF TriggerRecords
  <2>2. ASSUME NEW u \in Triggers, ReconcileDeleting(u)
        PROVE  routes'[path[cache[t].spec]] = NoRoute
    <3>1. CASE u = t
      BY Zenon, <1>1, <1>2, <2>1, <2>2, <3>1 DEF ReconcileDeleting, DeregisterRoute
    <3>2. CASE u # t
      <4>1. t \notin queue
        BY Zenon, <2>2, <3>2 DEF ReconcileDeleting, dequeue
      <4>2. routes[path[cache[t].spec]] = NoRoute
        BY Zenon, <1>2, <4>1 DEF PathClosedWhileDeleting
      <4> QED BY Zenon, <1>1, <2>1, <2>2, <4>2 DEF ReconcileDeleting, DeregisterRoute
    <3> QED BY Zenon, <3>1, <3>2
  <2>3. ASSUME NEW u \in Triggers, ReconcileRegisters(u)
        PROVE  routes'[path[cache[t].spec]] = NoRoute
    <3>1. /\ u # t /\ t \notin queue /\ ~collides(u)
          /\ routes' = [routes EXCEPT ![path[cache[u].spec]] = route(u)]
      BY Zenon, <1>2, <2>3 DEF ReconcileRegisters, RegisterRoute, wantsRoute, dequeue
    <3>2. path[cache[u].spec] # path[cache[t].spec]
      BY Zenon, <1>2, <3>1 DEF collides, exists
    <3>3. routes[path[cache[t].spec]] = NoRoute
      BY <1>2, <3>1 DEF PathClosedWhileDeleting
    <3> QED BY Zenon, <1>1, <2>1, <3>1, <3>2, <3>3
  <2>4. CASE Crash
    BY Zenon, <2>1, <2>4, <1>2 DEF Crash, NoRoutes
  <2>5. CASE routes' = routes /\ t \notin queue
    BY <1>2, <2>5 DEF PathClosedWhileDeleting
  <2>6. ASSUME NEW u \in Triggers, quietReconcile(u) PROVE routes' = routes /\ t \notin queue
    BY Zenon, <1>2, <2>6
       DEF quietReconcile, ReconcileNotFound, ReadFails, ReconcileBlocked, dequeue, exists,
         ReconcileWithoutWebhook, ReconcileCollision, ReconcileRouteFails, wantsRoute
  <2>7. ASSUME \/ controllerIdle \/ PatchStatus \/ PatchStatusFails \/ SyncSecret
               \/ \E u \in Triggers : userStep(u) \/ Sync(u)
               \/ \E v \in Secrets \cup {NoSecret} : UserChangesSecret(v)
        PROVE  routes' = routes /\ t \notin queue
    BY Zenon, <2>7, UserEffect
       DEF controllerIdle, PatchStatus, PatchStatusFails, SyncSecret, Sync, UserChangesSecret
  <2> QED BY Zenon, <1>2, <2>2, <2>3, <2>4, <2>5, <2>6, <2>7, Changes
<1>3. CASE cache'[t] # cache[t]
  <2>1. Crash \/ \E u \in Triggers : Sync(u)
    BY Zenon, <1>3, RouteChanges, UserEffect
       DEF PatchStatus, ReconcileDeleting, ReconcileRegisters, startReconcile
  <2>2. ASSUME NEW u \in Triggers, Sync(u) PROVE FALSE
    BY Zenon, <1>1, <1>3, <2>2 DEF Sync
  <2>3. CASE Crash
    BY <1>1, <2>3, TriggerAssumption DEF Crash, NoRoutes, TriggerRecords
  <2> QED BY <2>1, <2>2, <2>3
<1> QED BY Zenon, <1>2, <1>3

\* While a trigger that is being deleted is listed and has been handled, nothing
\* serves its path: a deletion that was seen is not undone by a stale reconcile.
THEOREM DeletionCloses == Spec => []PathClosedWhileDeleting
<1>1. Init => PathClosedWhileDeleting
  BY DEF Init, PathClosedWhileDeleting, Absent
<1>2. TypeInv /\ PathClosedWhileDeleting /\ [Next]_vars => PathClosedWhileDeleting'
  BY ClosedStep
<1> QED BY <1>1, <1>2, TypeAlways, PTL DEF Spec

-----------------------------------------------------------------------------
(* The status of a trigger and its route *)

\* The patch a reconcile of t starts is one of t's.
LEMMA PatchOfReconcile ==
  ASSUME TypeInv, NEW t \in Triggers, NEW reg \in BOOLEAN, NEW reason \in Reasons,
         NEW must \in BOOLEAN, callPatch(t, reg, reason, must)
  PROVE  /\ work' # NoWork /\ work'.trigger = t /\ work'.base = cache[t]
         /\ work'.new.registered = reg /\ work'.new.reason = reason
         /\ work'.mustRegister = must
<1>1. cache[t] \in TriggerRecords
  BY DEF TypeInv, TypeOK
<1>2. work' \in Work
  BY Zenon, <1>1 DEF callPatch, Work, TriggerRecords
<1> QED BY Zenon, <1>1, <1>2, WorkAssumption DEF callPatch, TriggerRecords

\* A reconcile of t settles t: it leaves the right status, or its patch changes
\* the status or ends in an error.
LEMMA ReconcileSettles ==
  ASSUME TypeInv, NEW t \in Triggers, t \notin queue',
         quietReconcile(t) \/ ReconcileDeleting(t) \/ ReconcileRegisters(t)
  PROVE  settled(t)'
<1>1. cache \in [Triggers -> TriggerRecords] /\ routes \in [Paths -> Routes \cup {NoRoute}]
  BY DEF TypeInv, TypeOK
<1>2. UNCHANGED <<cache, secretCache, missed>> /\ work = NoWork
  BY Zenon DEF quietReconcile, ReconcileNotFound, ReadFails, ReconcileBlocked,
     ReconcileWithoutWebhook, ReconcileCollision, ReconcileRouteFails, ReconcileDeleting,
     ReconcileRegisters, startReconcile
<1>3. CASE ReconcileNotFound(t) \/ ReconcileDeleting(t) \/ ReconcileWithoutWebhook(t)
  <2>1. work' = NoWork /\ (cache[t].there = "live" =>
                             cache[t].spec \notin Blocked /\ path[cache[t].spec] = NoPath)
    BY Zenon, <1>2, <1>3
       DEF ReconcileNotFound, ReconcileDeleting, ReconcileWithoutWebhook, exists
  <2> QED BY Zenon, <1>2, <2>1 DEF settled, rightStatus
<1>4. CASE ReadFails(t)
  BY <1>4 DEF ReadFails, startReconcile
<1>5. CASE ReconcileBlocked(t)
  <2>1. callPatch(t, FALSE, "NamespaceNotAllowed", FALSE) /\ cache[t].spec \in Blocked
    BY Zenon, <1>5 DEF ReconcileBlocked
  <2>2. /\ work' # NoWork /\ work'.trigger = t /\ work'.base = cache[t]
        /\ work'.new.registered = FALSE
    BY Zenon, <2>1, PatchOfReconcile DEF Reasons
  <2> QED BY Zenon, <1>2, <2>1, <2>2 DEF settled, rightStatus
<1>6. CASE ReconcileCollision(t)
  <2>1. callPatch(t, FALSE, "PathCollision", FALSE) /\ cache[t].spec \notin Blocked
    BY Zenon, <1>6 DEF ReconcileCollision, wantsRoute
  <2>2. /\ work' # NoWork /\ work'.trigger = t /\ work'.base = cache[t]
        /\ work'.new.registered = FALSE /\ work'.new.reason = "PathCollision"
    BY Zenon, <2>1, PatchOfReconcile DEF Reasons
  <2> QED BY Zenon, <1>2, <2>1, <2>2 DEF settled, rightStatus
<1>7. CASE ReconcileRouteFails(t)
  <2>1. /\ work' # NoWork /\ work'.trigger = t /\ work'.base = cache[t]
        /\ work'.new.registered = FALSE /\ work'.mustRegister = TRUE
    BY Zenon, <1>7, PatchOfReconcile DEF ReconcileRouteFails, Reasons
  <2>2. cache[t].registered \in BOOLEAN
    BY <1>1 DEF TriggerRecords
  <2> QED BY Zenon, <1>2, <2>1, <2>2 DEF settled
<1>8. CASE ReconcileRegisters(t) /\ ~cache[t].registered
  <2>1. /\ work' # NoWork /\ work'.trigger = t /\ work'.base = cache[t]
        /\ work'.new.registered = TRUE
    BY Zenon, <1>8, PatchOfReconcile DEF ReconcileRegisters, Reasons
  <2> QED BY Zenon, <1>2, <1>8, <2>1 DEF settled
<1>9. CASE ReconcileRegisters(t) /\ cache[t].registered
  <2>1. /\ work' = NoWork /\ wantsRoute(t)
        /\ routes' = [routes EXCEPT ![path[cache[t].spec]] = route(t)]
    BY Zenon, <1>2, <1>9 DEF ReconcileRegisters, RegisterRoute
  <2>2. routes'[path[cache[t].spec]] = route(t)
    BY Zenon, <1>1, <2>1, TriggerAssumption DEF wantsRoute, TriggerRecords
  <2>3. /\ route(t).trigger = t /\ route(t).gen = cache[t].gen
        /\ cache[t].spec \in SecretRef => route(t).secret = secretCache
    BY Zenon DEF route
  <2>4. route(t) # NoRoute
    BY <1>1, RouteAssumption DEF route, Routes, TriggerRecords, TypeInv, TypeOK
  <2> QED BY Zenon, <1>2, <1>9, <2>1, <2>2, <2>3, <2>4 DEF settled, rightStatus, wantsRoute
<1> QED BY Zenon, <1>3, <1>4, <1>5, <1>6, <1>7, <1>8, <1>9 DEF quietReconcile

\* A reconcile of another trigger takes no route away from t, except that of a
\* trigger that is being deleted, which makes the path an evicted one.
LEMMA ReconcileSpares ==
  ASSUME TypeInv, NEW t \in Triggers, NEW u \in Triggers \ {t}, settled(t),
         quietReconcile(u) \/ ReconcileDeleting(u) \/ ReconcileRegisters(u)
  PROVE  settled(t)'
<1>1. routes \in [Paths -> Routes \cup {NoRoute}] /\ cache \in [Triggers -> TriggerRecords]
  BY DEF TypeInv, TypeOK
<1>2. UNCHANGED <<triggers, cache, secretCache, missed>> /\ work = NoWork
  BY Zenon DEF quietReconcile, ReconcileNotFound, ReadFails, ReconcileBlocked,
     ReconcileWithoutWebhook, ReconcileCollision, ReconcileRouteFails, ReconcileDeleting,
     ReconcileRegisters, startReconcile
<1>3. work' = NoWork \/ work'.trigger = u
  BY ZenonT(40), <1>2, PatchOfReconcile
     DEF quietReconcile, ReconcileNotFound, ReadFails, ReconcileBlocked, Reasons,
         ReconcileWithoutWebhook, ReconcileCollision, ReconcileRouteFails,
         ReconcileDeleting, ReconcileRegisters
<1>4. rightStatus(t, cache[t], secretCache) => rightStatus(t, cache[t], secretCache)'
  <2>1. CASE quietReconcile(u)
    BY Zenon, <1>2, <2>1, QuietEffect DEF rightStatus
  <2> SUFFICES ASSUME rightStatus(t, cache[t], secretCache), cache[t].there = "live",
                      path[cache[t].spec] # NoPath, ~quietReconcile(u)
               PROVE  rightStatus(t, cache[t], secretCache)'
    BY Zenon, <1>2, <2>1 DEF rightStatus
  <2>2. path[cache[t].spec] \in Paths
    BY <1>1, TriggerAssumption DEF TriggerRecords
  <2>3. CASE ReconcileRegisters(u)
    <3>1. path[cache[u].spec] # path[cache[t].spec]
      BY Zenon, <2>3 DEF ReconcileRegisters, collides, exists
    <3>2. /\ routes'[path[cache[t].spec]] = routes[path[cache[t].spec]]
          /\ path[cache[t].spec] \in evicted => path[cache[t].spec] \in evicted'
      BY Zenon, <1>1, <2>2, <2>3, <3>1 DEF ReconcileRegisters, RegisterRoute
    <3> QED BY Zenon, <1>2, <3>2 DEF rightStatus
  <2>4. CASE ReconcileDeleting(u)
    <3>1. \/ routes'[path[cache[t].spec]] = routes[path[cache[t].spec]]
          \/ /\ routes[path[cache[t].spec]] # NoRoute
             /\ routes[path[cache[t].spec]].trigger = t
               => path[cache[t].spec] \in evicted'
      BY Zenon, <1>1, <2>2, <2>4 DEF ReconcileDeleting, DeregisterRoute
    <3>2. path[cache[t].spec] \in evicted => path[cache[t].spec] \in evicted'
      BY Zenon, <2>4 DEF ReconcileDeleting, DeregisterRoute
    <3> QED BY Zenon, <1>2, <3>1, <3>2 DEF rightStatus
  <2> QED BY Zenon, <2>3, <2>4
<1> QED BY Zenon, <1>2, <1>3, <1>4 DEF settled

\* A patch of t that leaves t as the controller has it cached changed nothing,
\* and did not end in an error.
LEMMA PatchSettles ==
  ASSUME TypeInv, NEW t \in Triggers, settled(t), t \notin queue', PatchStatus
  PROVE  settled(t)'
<1>1. /\ work \in Work /\ work # NoWork /\ triggers \in [Triggers -> TriggerRecords]
      /\ cache \in [Triggers -> TriggerRecords]
  BY DEF PatchStatus, TypeInv, TypeOK
<1>2. UNCHANGED <<cache, secretCache, missed, routes, evicted>> /\ work' = NoWork
  BY Zenon DEF PatchStatus
<1>3. rightStatus(t, cache[t], secretCache) => rightStatus(t, cache[t], secretCache)'
  BY Zenon, <1>2 DEF rightStatus
<1>4. CASE work.trigger # t
  <2>1. triggers'[t] = triggers[t]
    BY <1>1, <1>4 DEF PatchStatus
  <2> QED BY Zenon, <1>2, <1>3, <1>4, <2>1 DEF settled
<1>5. CASE work.trigger = t /\ cache[t] = triggers'[t]
  <2>1. /\ cache[t] = mergePatch(triggers[t], cache[t], work.new)
        /\ work.mustRegister => cache[t].registered
    BY <1>1, <1>5 DEF PatchStatus, settled
  <2>2. /\ cache[t].registered = merge(triggers[t].registered, cache[t].registered,
                                       work.new.registered)
        /\ cache[t].reason = merge(triggers[t].reason, cache[t].reason, work.new.reason)
    BY Zenon, <1>1, <2>1 DEF mergePatch, TriggerRecords
  <2>3. work.new.registered = cache[t].registered /\ work.new.reason = cache[t].reason
    BY <2>2 DEF merge
  <2> QED BY ZenonT(40), <1>1, <1>2, <1>3, <1>5, <2>1, <2>3 DEF settled
<1> QED BY Zenon, <1>2, <1>4, <1>5 DEF settled

LEMMA StatusStep == TypeInv /\ RouteInv /\ StatusInv /\ [Next]_vars => StatusInv'
<1> SUFFICES ASSUME TypeInv, RouteInv, StatusInv, [Next]_vars,
                    NEW t \in Triggers, t \notin queue'
             PROVE  settled(t)'
  BY Zenon DEF StatusInv
<1>1. /\ triggers \in [Triggers -> TriggerRecords] /\ cache \in [Triggers -> TriggerRecords]
      /\ cacheInv(t)
  BY DEF TypeInv, TypeOK, RouteInv
<1>2. t \notin queue => settled(t)
  BY DEF StatusInv
<1>3. ASSUME controllerIdle \/ \E v \in Secrets \cup {NoSecret} : UserChangesSecret(v)
      PROVE  settled(t)'
  <2>1. UNCHANGED <<triggers, cache, secretCache, queue, work, routes, evicted, missed>>
    BY Zenon, <1>3 DEF controllerIdle, UserChangesSecret
  <2> QED BY Zenon, <1>2, <2>1 DEF settled, rightStatus
<1>4. ASSUME NEW u \in Triggers,
             quietReconcile(u) \/ ReconcileDeleting(u) \/ ReconcileRegisters(u)
      PROVE  settled(t)'
  <2>1. u # t => t \notin queue
    BY Zenon, <1>4, QuietEffect DEF ReconcileDeleting, ReconcileRegisters, dequeue
  <2> QED BY Zenon, <1>2, <1>4, <2>1, ReconcileSettles, ReconcileSpares
<1>5. ASSUME NEW u \in Triggers, userStep(u) PROVE settled(t)'
  <2>1. UNCHANGED <<cache, secretCache, queue, work, routes, evicted, missed>>
    BY Zenon, <1>5, UserEffect
  <2>2. triggers'[t] = triggers[t] \/ cache[t].there # "live" \/ cache[t] # triggers'[t]
    <3>1. CASE u = t
      <4>1. \/ triggers'[t].there \in {"deleting", "gone"}
            \/ triggers'[t].gen = triggers[t].gen + 1
        BY Zenon, <1>5, <3>1, UserMoves
      <4>2. cache[t].gen \in Nat /\ triggers[t].gen \in Nat /\ cache[t].gen <= triggers[t].gen
        BY <1>1 DEF cacheInv, TriggerRecords
      <4> QED BY <4>1, <4>2
    <3> QED BY Zenon, <1>5, <3>1, UserMoves
  <2> QED BY Zenon, <1>2, <2>1, <2>2 DEF settled, rightStatus
<1>6. ASSUME NEW u \in Triggers, Sync(u) PROVE settled(t)'
  <2>1. /\ UNCHANGED <<triggers, secretCache, work, routes, evicted, missed>>
        /\ t \notin queue /\ cache'[t] = cache[t]
    BY <1>1, <1>6 DEF Sync
  <2> QED BY Zenon, <1>2, <2>1 DEF settled, rightStatus
<1>7. CASE PatchStatus
  BY Zenon, <1>2, <1>7, PatchSettles DEF PatchStatus
<1>8. CASE PatchStatusFails
  <2>1. /\ UNCHANGED <<triggers, cache, secretCache, routes, evicted, missed>>
        /\ t \notin queue /\ work.trigger # t /\ work' = NoWork
    BY Zenon, <1>8 DEF PatchStatusFails
  <2> QED BY Zenon, <1>2, <2>1 DEF settled, rightStatus
<1>9. CASE SyncSecret
  <2>1. /\ UNCHANGED <<triggers, cache, work, routes, evicted>> /\ t \notin queue
        /\ missed' = TRUE \/ (missed' = missed /\ t \notin mapSecretToTriggers)
    BY Zenon, <1>9 DEF SyncSecret
  <2>2. rightStatus(t, cache[t], secretCache) => rightStatus(t, cache[t], secretCache)'
    BY Zenon, <2>1 DEF rightStatus, mapSecretToTriggers, exists
  <2> QED BY Zenon, <1>2, <2>1, <2>2 DEF settled
<1>10. CASE Crash
  <2>1. cache'[t].there # "live" /\ work' = NoWork
    BY Zenon, <1>10 DEF Crash, exists
  <2> QED BY Zenon, <2>1 DEF settled, rightStatus
<1> QED BY Zenon, <1>3, <1>4, <1>5, <1>6, <1>7, <1>8, <1>9, <1>10, Changes

\* No event is lost on the way from the API server to a trigger's route: with
\* nothing queued or under way, every live trigger has the status and the
\* route its spec and the Secret call for, but for the exceptions that
\* StatusIsRight names.
THEOREM StatusTheorem == Spec => []StatusIsRight
<1>1. Init => StatusInv
  <2>1. Init => work = NoWork /\ cache = [t \in Triggers |-> Absent]
    BY Zenon DEF Init
  <2>2. Absent.there = "no"
    BY Zenon DEF Absent
  <2> QED BY Zenon, <2>1, <2>2 DEF StatusInv, settled, rightStatus
<1>2. TypeInv /\ RouteInv /\ StatusInv /\ [Next]_vars => StatusInv'
  BY StatusStep
<1>3. StatusInv => StatusIsRight
  BY Zenon DEF StatusInv, StatusIsRight, Quiescent, settled
<1> QED BY <1>1, <1>2, <1>3, RouteAlways, PTL DEF Spec
=============================================================================
