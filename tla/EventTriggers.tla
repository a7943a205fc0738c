---------------------------- MODULE EventTriggers ----------------------------
(***************************************************************************)
(* Event triggers: the EventTrigger controller                             *)
(* (internal/controller/eventtrigger_controller.go), which turns           *)
(* EventTriggers into routes, and the webhook server                       *)
(* (internal/webhook/events/server.go), whose handlers look up a route,    *)
(* pass the rate limit and create a Workflow.                              *)
(*                                                                         *)
(* The routes and the rate counters live in the operator's memory.  The    *)
(* controller's one worker changes the routes, and any number of handlers  *)
(* read them.  A handler is cut at its critical sections: it copies the    *)
(* route, then fetches the counter of the path, then counts itself, then   *)
(* validates the request and creates the Workflow.                         *)
(***************************************************************************)
EXTENDS Integers, FiniteSets

CONSTANTS
  Triggers,      \* EventTriggers users may create
  Specs,         \* the specs an EventTrigger may have
  Paths,         \* webhook paths
  path,          \* [Specs -> Paths \cup {NoPath}]
  maxPerMinute,  \* [Specs -> Nat], 0 is unlimited
  SecretRef,     \* the specs that name the Secret
  Blocked,       \* the specs whose allowedNamespaces exclude the trigger's own
  Secrets,       \* the values of the Secret
  NoPath, NoSecret, NoRoute, NoWork,
  Requests,      \* webhook requests, each of which is sent at most once
  Minute,        \* length of the rate limiter's window
  MaxClock,      \* bound on the clock
  Budgets        \* how many changes, requests and faults a behaviour may have

ASSUME TriggerAssumption ==
  /\ path \in [Specs -> Paths \cup {NoPath}] /\ NoPath \notin Paths
  /\ maxPerMinute \in [Specs -> Nat]
  /\ SecretRef \subseteq Specs /\ Blocked \subseteq Specs
  /\ NoSecret \notin Secrets /\ Specs # {}
  /\ Minute \in Nat \ {0} /\ MaxClock \in Nat
  /\ Budgets \subseteq [changes : Nat, requests : Nat, faults : Nat]

VARIABLES
  triggers,     \* the EventTriggers in the API server
  cache,        \* the EventTriggers as the informer last delivered them
  secret,       \* the Secret in the API server
  secretCache,  \* the Secret as the informer last delivered it
  queue,        \* keys in the work queue
  work,         \* the status patch under way
  routes,       \* Server.routes
  requests,     \* the handlers
  counts,       \* the entries of all rate counters
  epoch,        \* counters of a path that were dropped so far
  clock,
  log,          \* history: every request the rate limiter let through
  evicted,      \* history: paths whose route another trigger's deletion removed
  missed,       \* history: a change of the Secret was mapped to no trigger
  restarts,     \* history: restarts of the operator
  left          \* what is left of the budget

objectVars == <<triggers, secret>>
cacheVars == <<cache, secretCache>>
routeVars == <<routes, evicted>>
requestVars == <<requests, counts, log, clock>>
vars == <<objectVars, cacheVars, queue, work, routeVars, requestVars, epoch,
          missed, restarts, left>>

Reasons == {"none", "NamespaceNotAllowed", "PathCollision", "RouteFailed",
            "RouteRegistered"}

\* gen is metadata.generation, which every change of the spec increments.
TriggerRecords ==
  [there : {"no", "live", "deleting", "gone"}, gen : Nat, spec : Specs,
   registered : BOOLEAN, reason : Reasons]

Routes ==
  [trigger : Triggers, gen : Nat, spec : Specs, secret : Secrets \cup {NoSecret}]

ASSUME RouteAssumption == NoRoute \notin Routes

\* Where a handler is: route is its copy, epoch the counter it fetched.
Handlers ==
  [pc : {"new", "limit", "allow", "create", "created", "refused"},
   route : Routes \cup {NoRoute}, epoch : Nat]

\* One entry of a rate counter; serial numbers tell entries of the same time
\* apart, and max is the limit the entry was let through under.
Entries == [serial : Nat, path : Paths, epoch : Nat, time : Nat, max : Nat]

Work == [trigger : Triggers, base : TriggerRecords, new : TriggerRecords,
         mustRegister : BOOLEAN]

ASSUME WorkAssumption == NoWork \notin Work

TypeOK ==
  /\ triggers \in [Triggers -> TriggerRecords]
  /\ cache \in [Triggers -> TriggerRecords]
  /\ secret \in Secrets \cup {NoSecret} /\ secretCache \in Secrets \cup {NoSecret}
  /\ queue \subseteq Triggers
  /\ work # NoWork => work \in Work
  /\ routes \in [Paths -> Routes \cup {NoRoute}]
  /\ requests \in [Requests -> Handlers]
  /\ log \subseteq Entries /\ counts \subseteq log
  /\ epoch \in [Paths -> Nat] /\ clock \in Nat
  /\ evicted \subseteq Paths /\ missed \in BOOLEAN /\ restarts \in Nat
  /\ left \in [changes : Int, requests : Int, faults : Int]

NoRoutes == [p \in Paths |-> NoRoute]
NewHandler == [pc |-> "new", route |-> NoRoute, epoch |-> 0]

Absent ==
  [there |-> "no", gen |-> 0, spec |-> CHOOSE s \in Specs : TRUE,
   registered |-> FALSE, reason |-> "none"]

Init ==
  /\ triggers = [t \in Triggers |-> Absent] /\ cache = triggers
  /\ secret = NoSecret /\ secretCache = NoSecret
  /\ queue = {} /\ work = NoWork
  /\ routes = NoRoutes /\ evicted = {}
  /\ requests = [r \in Requests |-> NewHandler]
  /\ counts = {} /\ log = {} /\ epoch = [p \in Paths |-> 0] /\ clock = 0
  /\ missed = FALSE /\ restarts = 0 /\ left \in Budgets

change == left.changes > 0 /\ left' = [left EXCEPT !.changes = @ - 1]
fault == left.faults > 0 /\ left' = [left EXCEPT !.faults = @ - 1]

-----------------------------------------------------------------------------
(* The routes of the server *)

\* The counter of path p that requests fetch now has entries or a holder.
counterInUse(p) ==
  \/ \E e \in log : e.path = p /\ e.epoch = epoch[p]
  \/ \E r \in Requests : /\ requests[r].pc = "allow"
                         /\ path[requests[r].route.spec] = p
                         /\ requests[r].epoch = epoch[p]

\* delete(s.rateData, p): the next request on p creates a new counter, while a
\* handler that has fetched the old one still counts in it.
dropCounters(ps) ==
  epoch' = [p \in Paths |->
              IF p \in ps /\ counterInUse(p) THEN epoch[p] + 1 ELSE epoch[p]]

route(t) ==
  [trigger |-> t, gen |-> cache[t].gen, spec |-> cache[t].spec,
   secret |-> IF cache[t].spec \in SecretRef THEN secretCache ELSE NoSecret]

RegisterRoute(t) ==
  LET p == path[cache[t].spec]
  IN  /\ routes' = [routes EXCEPT ![p] = route(t)]
      /\ evicted' = evicted \ {p}

\* The route goes whoever registered it.
DeregisterRoute(p, t) ==
  /\ routes' = [routes EXCEPT ![p] = NoRoute]
  /\ evicted' = IF routes[p] # NoRoute /\ routes[p].trigger # t
                  THEN evicted \cup {p} ELSE evicted
  /\ dropCounters({p})

-----------------------------------------------------------------------------
(* The controller *)

exists(c) == c.there \in {"live", "deleting"}

\* Mutant: triggers that are being deleted are not compared.
collidesWithLive(t) ==
  \E u \in Triggers \ {t} :
    cache[u].there = "live" /\ path[cache[u].spec] = path[cache[t].spec]

\* Mutant: a live trigger counts only if it is reported as registered.
collidesWithRegistered(t) ==
  \E u \in Triggers \ {t} : /\ exists(cache[u]) /\ path[cache[u].spec] = path[cache[t].spec]
                            /\ cache[u].there = "live" => cache[u].registered

\* Another trigger in the cached list has the path, deleted ones included.
collides(t) ==
  \E u \in Triggers \ {t} :
    exists(cache[u]) /\ path[cache[u].spec] = path[cache[t].spec]

startReconcile(t) ==
  /\ work = NoWork /\ t \in queue
  /\ UNCHANGED <<objectVars, cacheVars, requestVars, missed, restarts>>

dequeue(t) == queue' = queue \ {t}

callPatch(t, registered, reason, mustRegister) ==
  work' = [trigger |-> t, base |-> cache[t],
           new |-> [cache[t] EXCEPT !.registered = registered, !.reason = reason],
           mustRegister |-> mustRegister]

ReconcileNotFound(t) ==
  /\ startReconcile(t) /\ dequeue(t)
  /\ ~exists(cache[t])
  /\ UNCHANGED <<work, routeVars, epoch, left>>

\* The read of the trigger or the list of all triggers fails.
ReadFails(t) ==
  /\ startReconcile(t) /\ fault
  /\ UNCHANGED <<queue, work, routeVars, epoch>>

ReconcileDeleting(t) ==
  /\ startReconcile(t) /\ dequeue(t)
  /\ cache[t].there = "deleting"
  /\ IF path[cache[t].spec] = NoPath THEN UNCHANGED <<routeVars, epoch>>
     ELSE DeregisterRoute(path[cache[t].spec], t)
  /\ UNCHANGED <<work, left>>

ReconcileBlocked(t) ==
  /\ startReconcile(t) /\ dequeue(t)
  /\ cache[t].there = "live" /\ cache[t].spec \in Blocked
  /\ callPatch(t, FALSE, "NamespaceNotAllowed", FALSE)
  /\ UNCHANGED <<routeVars, epoch, left>>

ReconcileWithoutWebhook(t) ==
  /\ startReconcile(t) /\ dequeue(t)
  /\ cache[t].there = "live" /\ cache[t].spec \notin Blocked
  /\ path[cache[t].spec] = NoPath
  /\ UNCHANGED <<work, routeVars, epoch, left>>

\* The controller goes on to the path: it is allowed to and has one.
wantsRoute(t) ==
  /\ cache[t].there = "live" /\ cache[t].spec \notin Blocked
  /\ path[cache[t].spec] # NoPath

\* The trigger is not queued again, and its own route, if it has one, stays.
ReconcileCollision(t) ==
  /\ startReconcile(t) /\ dequeue(t)
  /\ wantsRoute(t) /\ collides(t)
  /\ callPatch(t, FALSE, "PathCollision", FALSE)
  /\ UNCHANGED <<routeVars, epoch, left>>

\* The Secret cannot be read.
ReconcileRouteFails(t) ==
  /\ startReconcile(t) /\ dequeue(t)
  /\ wantsRoute(t) /\ ~collides(t) /\ cache[t].spec \in SecretRef
  /\ \/ secretCache = NoSecret /\ UNCHANGED left
     \/ fault
  /\ callPatch(t, FALSE, "RouteFailed", TRUE)
  /\ UNCHANGED <<routeVars, epoch>>

ReconcileRegisters(t) ==
  /\ startReconcile(t) /\ dequeue(t)
  /\ wantsRoute(t) /\ ~collides(t)
  /\ cache[t].spec \in SecretRef => secretCache # NoSecret
  /\ RegisterRoute(t)
  /\ IF cache[t].registered THEN UNCHANGED work
     ELSE callPatch(t, TRUE, "RouteRegistered", TRUE)
  /\ UNCHANGED <<epoch, left>>

merge(server, base, new) == IF new # base THEN new ELSE server

mergePatch(server, base, new) ==
  [server EXCEPT !.registered = merge(@, base.registered, new.registered),
                 !.reason = merge(@, base.reason, new.reason)]

\* A reconcile that asked for a route ends in an error, and is queued again, when
\* the trigger the API server answers with is not registered.
PatchStatus ==
  /\ work # NoWork /\ exists(triggers[work.trigger])
  /\ LET answer == mergePatch(triggers[work.trigger], work.base, work.new)
     IN  /\ triggers' = [triggers EXCEPT ![work.trigger] = answer]
         /\ queue' = IF work.mustRegister /\ ~answer.registered
                       THEN queue \cup {work.trigger} ELSE queue
  /\ work' = NoWork
  /\ UNCHANGED <<secret, cacheVars, routeVars, requestVars, epoch, missed,
                 restarts, left>>

PatchStatusFails ==
  /\ work # NoWork
  /\ \/ ~exists(triggers[work.trigger]) /\ UNCHANGED left
     \/ fault
  /\ work' = NoWork /\ queue' = queue \cup {work.trigger}
  /\ UNCHANGED <<objectVars, cacheVars, routeVars, requestVars, epoch, missed,
                 restarts>>

Reconcile ==
  \/ \E t \in Triggers :
       \/ ReconcileNotFound(t) \/ ReadFails(t) \/ ReconcileDeleting(t)
       \/ ReconcileBlocked(t) \/ ReconcileWithoutWebhook(t)
       \/ ReconcileCollision(t) \/ ReconcileRouteFails(t) \/ ReconcileRegisters(t)
  \/ PatchStatus \/ PatchStatusFails

-----------------------------------------------------------------------------
(* The handlers *)

handler(r, pc) == requests[r].pc = pc

controllerIdle ==
  UNCHANGED <<objectVars, cacheVars, queue, work, routeVars, epoch, missed, restarts>>

answer(r) == requests' = [requests EXCEPT ![r] = [NewHandler EXCEPT !.pc = "refused"]]

\* Under the read lock; the route may change while the handler runs.
LookUpRoute(r, p) ==
  /\ handler(r, "new") /\ left.requests > 0
  /\ left' = [left EXCEPT !.requests = @ - 1]
  /\ routes[p] # NoRoute
  /\ requests' = [requests EXCEPT ![r].pc = "limit", ![r].route = routes[p]]
  /\ controllerIdle /\ UNCHANGED <<counts, log, clock>>

\* No route has the path, or the sender's address is not allowed.
RefuseRequest(r) ==
  /\ handler(r, "new") /\ left.requests > 0
  /\ left' = [left EXCEPT !.requests = @ - 1]
  /\ answer(r)
  /\ controllerIdle /\ UNCHANGED <<counts, log, clock>>

\* The counter is looked up, or created, under the server's lock.
FetchCounter(r) ==
  /\ handler(r, "limit")
  /\ LET h == requests[r]
     IN  requests' = [requests EXCEPT ![r] =
           IF maxPerMinute[h.route.spec] = 0 THEN [h EXCEPT !.pc = "create"]
           ELSE [h EXCEPT !.pc = "allow", !.epoch = epoch[path[h.route.spec]]]]
  /\ controllerIdle /\ UNCHANGED <<counts, log, clock, left>>

counter(h) == {e \in counts : e.path = path[h.route.spec] /\ e.epoch = h.epoch}

\* Mutant: an entry leaves the window half a minute early.
recentHalf(es) == {e \in es : e.time > clock - (Minute \div 2)}

recent(es) == {e \in es : e.time > clock - Minute}

newEntry(h) ==
  [serial |-> Cardinality(log), path |-> path[h.route.spec], epoch |-> h.epoch,
   time |-> clock, max |-> maxPerMinute[h.route.spec]]

\* rateCounter.allow, under the counter's lock: entries older than a minute are
\* dropped, then the limit decides.
Allow(r) ==
  /\ handler(r, "allow")
  /\ LET h == requests[r]
         others == counts \ counter(h)
         kept == recent(counter(h))
     IN  IF Cardinality(kept) >= maxPerMinute[h.route.spec]
           THEN counts' = others \cup kept /\ answer(r) /\ UNCHANGED log
           ELSE /\ counts' = others \cup kept \cup {newEntry(h)}
                /\ log' = log \cup {newEntry(h)}
                /\ requests' = [requests EXCEPT ![r].pc = "create"]
  /\ controllerIdle /\ UNCHANGED <<clock, left>>

\* The body, its signature or a required parameter is refused, the template
\* cannot be read or the Workflow cannot be created.
FailRequest(r) ==
  /\ handler(r, "create")
  /\ answer(r)
  /\ controllerIdle /\ UNCHANGED <<counts, log, clock, left>>

\* The Workflow's controller is the trigger of the handler's copy.
createWorkflow(r) ==
  /\ handler(r, "create")
  /\ requests[r].route.spec \notin Blocked
  /\ requests' = [requests EXCEPT ![r].pc = "created"]
  /\ controllerIdle /\ UNCHANGED <<counts, log, clock, left>>

handleRequest(r) ==
  \/ (\E p \in Paths : LookUpRoute(r, p)) \/ RefuseRequest(r) \/ FetchCounter(r)
  \/ Allow(r) \/ FailRequest(r) \/ createWorkflow(r)

-----------------------------------------------------------------------------
(* The environment *)

operatorIdle ==
  UNCHANGED <<queue, work, routeVars, requestVars, epoch, missed, restarts>>

UserCreates(t, s) ==
  /\ triggers[t].there = "no" /\ change
  /\ triggers' = [triggers EXCEPT ![t].there = "live", ![t].gen = 1, ![t].spec = s]
  /\ operatorIdle /\ UNCHANGED <<secret, cacheVars>>

UserEdits(t, s) ==
  /\ exists(triggers[t]) /\ s # triggers[t].spec /\ change
  /\ triggers' = [triggers EXCEPT ![t].gen = @ + 1, ![t].spec = s]
  /\ operatorIdle /\ UNCHANGED <<secret, cacheVars>>

\* In the background the object is gone at once; in the foreground it stays, with
\* a deletion timestamp, until its dependents are gone.
UserDeletes(t, there) ==
  /\ triggers[t].there = "live" /\ there \in {"deleting", "gone"} /\ change
  /\ triggers' = [triggers EXCEPT ![t].there = there]
  /\ operatorIdle /\ UNCHANGED <<secret, cacheVars>>

TriggerRemoved(t) ==
  /\ triggers[t].there = "deleting"
  /\ triggers' = [triggers EXCEPT ![t].there = "gone"]
  /\ operatorIdle /\ UNCHANGED <<secret, cacheVars, left>>

UserChangesSecret(v) ==
  /\ v # secret /\ change
  /\ secret' = v
  /\ operatorIdle /\ UNCHANGED <<triggers, cacheVars>>

Sync(t) ==
  /\ cache[t] # triggers[t]
  /\ cache' = [cache EXCEPT ![t] = triggers[t]]
  /\ queue' = queue \cup {t}
  /\ UNCHANGED <<objectVars, secretCache, work, routeVars, requestVars, epoch,
                 missed, restarts, left>>

\* Mutant: a change of the Secret wakes no trigger.
mapSecretToNoTrigger == {}

mapSecretToTriggers ==
  {t \in Triggers : exists(cache[t]) /\ path[cache[t].spec] # NoPath
                    /\ cache[t].spec \in SecretRef}

SyncSecret ==
  /\ secretCache # secret
  /\ secretCache' = secret
  /\ \/ queue' = queue \cup mapSecretToTriggers /\ UNCHANGED <<missed, left>>
     \/ fault /\ missed' = TRUE /\ UNCHANGED queue \* the list of triggers fails
  /\ UNCHANGED <<objectVars, cache, work, routeVars, requestVars, epoch, restarts>>

\* Time is followed once a counter has an entry.
Tick ==
  /\ log # {} /\ clock < MaxClock
  /\ clock' = clock + 1
  /\ controllerIdle /\ UNCHANGED <<requests, counts, log, left>>

\* A restart loses routes, counters and handlers, and lists every trigger.
Crash ==
  /\ fault
  /\ cache' = triggers /\ secretCache' = secret
  /\ queue' = {t \in Triggers : exists(triggers[t])} /\ work' = NoWork
  /\ routes' = NoRoutes /\ evicted' = {} /\ missed' = FALSE
  /\ dropCounters(Paths)
  /\ requests' = [r \in Requests |-> IF requests[r].pc \in {"limit", "allow", "create"}
                                       THEN [NewHandler EXCEPT !.pc = "refused"]
                                       ELSE requests[r]]
  /\ restarts' = restarts + 1
  /\ UNCHANGED <<objectVars, counts, log, clock>>

Next ==
  \/ Reconcile
  \/ \E r \in Requests : handleRequest(r)
  \/ \E t \in Triggers :
       \/ \E s \in Specs : UserCreates(t, s) \/ UserEdits(t, s)
       \/ \E there \in {"deleting", "gone"} : UserDeletes(t, there)
       \/ TriggerRemoved(t) \/ Sync(t)
  \/ \E v \in Secrets \cup {NoSecret} : UserChangesSecret(v)
  \/ SyncSecret \/ Tick \/ Crash

Spec == Init /\ [][Next]_vars

-----------------------------------------------------------------------------
(* Properties *)

Quiescent ==
  queue = {} /\ work = NoWork /\ cache = triggers /\ secretCache = secret

\* Trigger t, seen as c, and the Secret, seen as v, are what t's status and route
\* were made from.
rightStatus(t, c, v) ==
  LET r == routes[path[c.spec]]
  IN  c.there = "live" =>
        IF c.spec \in Blocked THEN ~c.registered
        ELSE \/ path[c.spec] = NoPath
             \/ c.registered /\ path[c.spec] \in evicted
             \/ /\ c.registered
                /\ r # NoRoute /\ r.trigger = t /\ r.gen = c.gen
                /\ (c.spec \in SecretRef /\ ~missed) => r.secret = v
             \/ ~c.registered /\ c.reason = "PathCollision"

\* When the controller has nothing left to do, a live trigger that is reported as
\* registered is served as its spec and the Secret say: no rotation, edit, failed
\* patch or restart leaves an older route.  The exceptions: the deletion of a
\* trigger with the same path removed the route, and, until a restart, the Secret
\* after one of its changes was lost on the failed list.  A trigger that is not registered is blocked or
\* found its path taken (it may be free by now: nothing wakes the trigger then).
StatusIsRight ==
  Quiescent => \A t \in Triggers : rightStatus(t, triggers[t], secret)

\* The route of a live trigger whose spec has not changed since.
inForce(r) ==
  r # NoRoute /\ triggers[r.trigger].there = "live" /\ triggers[r.trigger].gen = r.gen

\* The route of a live trigger whose spec has not changed since it was registered
\* is not given to another trigger, however stale the controller's list of
\* triggers is, and is removed only by a restart or on behalf of a trigger
\* with the same path that is being deleted.
RouteKept ==
  [][\A p \in Paths :
       inForce(routes[p]) =>
         \/ /\ routes'[p] # NoRoute
            /\ routes'[p].trigger = routes[p].trigger /\ routes'[p].gen = routes[p].gen
         \/ routes'[p] = NoRoute /\ restarts' # restarts
         \/ /\ routes'[p] = NoRoute
            /\ \E u \in Triggers : cache[u].there = "deleting" /\ path[cache[u].spec] = p]_vars

\* Once the controller has handled a trigger that is being deleted, its path is
\* not served: nothing registers the path as long as the trigger is listed.
PathClosedWhileDeleting ==
  \A t \in Triggers :
    cache[t].there = "deleting" /\ t \notin queue /\ path[cache[t].spec] # NoPath =>
      routes[path[cache[t].spec]] = NoRoute

\* Whenever the rate limiter let a request through, at most as many as the limit
\* it was given, the request included, were let through by the same counter
\* in the minute before.
RateLimitRespected ==
  \A e \in log :
    Cardinality({d \in log : /\ d.path = e.path /\ d.epoch = e.epoch
                             /\ d.serial <= e.serial
                             /\ d.time > e.time - Minute}) <= e.max
=============================================================================
