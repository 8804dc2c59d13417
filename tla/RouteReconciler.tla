-------------------------- MODULE RouteReconciler --------------------------
(***************************************************************************)
(* The Route controller of one replica: the generated reconciler loop      *)
(* (Reconcile, finalizers, status update) around ReconcileKind and         *)
(* FinalizeKind, the informer caches it reads, the work queue that feeds   *)
(* it, and the actors it shares the API server with: users, serving's own  *)
(* Route controller, the Gateway implementation, the garbage collector.    *)
(*                                                                         *)
(* api[k] is the object stored under key k, cache[k] the lister's copy and *)
(* feed[k] the versions the watch has not delivered yet, oldest first.  A  *)
(* write with the resourceVersion of the lister's copy conflicts exactly   *)
(* when feed[k] is not empty.                                              *)
(***************************************************************************)
EXTENDS Resources

CONSTANTS
  Absent,        \* no object under a key
  Tags,          \* the tags of traffic targets
  Traffics,      \* the traffic blocks a user may write: sequences of targets
  Configs,       \* the configurations: [domain, gateway]
  LabelChoices,  \* the metadata.labels of Routes, a subset of LabelMaps
  Workers,       \* controller.DefaultThreadsPerController
  MaxAttempts,   \* retry.DefaultRetry.Steps
  MaxLag,        \* bound: undelivered versions of one object
  MaxEdits,      \* bound: edits by users, operators and Gateway rejections
  MaxFaults,     \* bound: failed or unanswered API calls and crashes
  MaxResyncs     \* bound: periodic resyncs of the informers

ASSUME TrafficAssumption ==
  \A t \in Traffics : t \in Seq({t[i] : i \in DOMAIN t})

ASSUME TagsAssumption ==
  \A t \in Traffics : \A i \in DOMAIN t : t[i].tag \in Tags

ASSUME BoundsAssumption ==
  /\ MaxAttempts \in Nat \ {0}
  /\ MaxLag \in Nat \ {0}
  /\ {MaxEdits, MaxFaults, MaxResyncs} \subseteq Nat

(* No two Routes get Gateways of one name.                                 *)
ASSUME NamesAssumption ==
  \A r, q \in Routes : GatewayBase[r] = GatewayBase[q] => r = q

VARIABLES
  api, cache, feed,  \* functions on Keys
  config,            \* what the config store loads
  proc,              \* "up", "crashed" or "panicked"
  events,            \* Routes an informer callback is about to enqueue
  queue,             \* Routes in the work queue
  pc, run,           \* the reconciliation of each Route
  budget,            \* what is left of MaxEdits, MaxFaults and MaxResyncs
  seen,              \* history: Route and config of the last run without error
  missed             \* history: Gateways FinalizeKind's listing did not show

apiVars  == <<api, feed>>
procVars == <<config, proc>>
histVars == <<seen, missed>>
vars == <<api, cache, feed, config, proc, events, queue, pc, run, budget,
          seen, missed>>

-----------------------------------------------------------------------------
(* Keys and objects.                                                       *)

RouteKey(r)      == <<"Route", r>>
HTTPRouteKey(r)  == <<"HTTPRoute", r>>
ServiceKey(r, t) == <<"Service", r, t>>

RouteKeys     == {RouteKey(r) : r \in Routes}
HTTPRouteKeys == {HTTPRouteKey(r) : r \in Routes}
ServiceKeys   == {ServiceKey(r, t) : r \in Routes, t \in Tags}
GatewayKeys   == {GatewayKey(c, r, v) : c \in Configs, r \in Routes, v \in Visibilities}
Keys == RouteKeys \cup HTTPRouteKeys \cup ServiceKeys \cup GatewayKeys

(* The keys of the objects that carry a controller reference to Route r,   *)
(* and the Route itself: Gateways carry none.                              *)
OwnedKeys(r) == {HTTPRouteKey(r)} \cup {ServiceKey(r, t) : t \in Tags}

(* Mutation: no event handler on the HTTPRoute informer. *)
NotifyingKeysWithoutHTTPRoute(r) == {RouteKey(r)} \cup {ServiceKey(r, t) : t \in Tags}

NotifyingKeys(r) == {RouteKey(r)} \cup OwnedKeys(r)

Statuses == [traffic : Traffics \cup {<< >>}, obs : Nat,
             ingress : BOOLEAN, ready : BOOLEAN]
RouteObjects == [labels : LabelChoices, enabled : BOOLEAN, spec : Traffics,
                 gen : Nat, deleting : BOOLEAN, fin : BOOLEAN,
                 status : Statuses]

ASSUME AbsentAssumption == Absent \notin RouteObjects

NewStatus == [traffic |-> << >>, obs |-> 0, ingress |-> FALSE, ready |-> FALSE]
NewRoutes == [labels : LabelChoices, enabled : BOOLEAN, spec : Traffics,
              gen : {1}, deleting : {FALSE}, fin : {FALSE}, status : {NewStatus}]

(* The locals of one reconciliation: the lister's copy, the working copy,  *)
(* the frozen configuration, the keys of a loop still to visit, the        *)
(* Gateways collected, and the state of the status update.                 *)
Runs == [orig : RouteObjects \cup {Absent}, res : RouteObjects \cup {Absent},
         cfg : Configs \cup {Absent}, todo : SUBSET GatewayKeys,
         refs : Seq(GatewayKeys), stale : BOOLEAN,
         attempt : 0 .. MaxAttempts - 1, failed : BOOLEAN]

NoRun == [orig |-> Absent, res |-> Absent, cfg |-> Absent, todo |-> {},
          refs |-> << >>, stale |-> TRUE, attempt |-> 0, failed |-> FALSE]

Stages == {"idle", "finalizer", "services", "plan", "gateways", "post",
           "update", "refetch", "delete"}

-----------------------------------------------------------------------------
(* Init: every Route was just created and no informer has seen it.         *)

Init ==
  \E c \in Configs, o \in [Routes -> NewRoutes] :
    /\ api = [k \in Keys |-> IF k \in RouteKeys THEN o[k[2]] ELSE Absent]
    /\ cache = [k \in Keys |-> Absent]
    /\ feed = [k \in Keys |-> IF k \in RouteKeys THEN << o[k[2]] >> ELSE << >>]
    /\ config = c
    /\ proc = "up"
    /\ events = {}
    /\ queue = {}
    /\ pc = [r \in Routes |-> "idle"]
    /\ run = [r \in Routes |-> NoRun]
    /\ budget = [edits |-> MaxEdits, faults |-> MaxFaults, resyncs |-> MaxResyncs]
    /\ seen = [r \in Routes |-> <<Absent, c>>]
    /\ missed = [r \in Routes |-> {}]

-----------------------------------------------------------------------------
(* The API server.                                                         *)

(* A write that changes nothing makes no new version.                      *)
Write(k, v) ==
  /\ api' = [api EXCEPT ![k] = v]
  /\ IF v = api[k] \/ proc # "up"
     THEN UNCHANGED feed
     ELSE /\ Len(feed[k]) < MaxLag
          /\ feed' = [feed EXCEPT ![k] = Append(@, v)]

(* A write to Route r by somebody else: the copy a run holds goes stale.   *)
WriteRoute(r, v) ==
  /\ Write(RouteKey(r), v)
  /\ run' = [run EXCEPT ![r].stale = TRUE]

(* Create when the lister has no copy, Update of the lister's copy when it *)
(* has one: AlreadyExists, NotFound and Conflict are refusals.             *)
Accepted(k) ==
  IF cache[k] = Absent THEN api[k] = Absent ELSE feed[k] = << >>

(* A call is answered, fails without effect, or takes effect and its       *)
(* answer is lost (the ten second deadline of ReconcileKind included).     *)
Outcomes == {"ok", "failed", "lost"}

Outcome(o) ==
  IF o = "ok" THEN UNCHANGED budget
  ELSE /\ budget.faults > 0
       /\ budget' = [budget EXCEPT !.faults = @ - 1]

Edit ==
  /\ budget.edits > 0
  /\ budget' = [budget EXCEPT !.edits = @ - 1]

-----------------------------------------------------------------------------
(* The reconciler loop.                                                    *)

Running(r, stage) == proc = "up" /\ pc[r] = stage

Goto(r, stage, state) ==
  /\ pc' = [pc EXCEPT ![r] = stage]
  /\ run' = [run EXCEPT ![r] = state]
  /\ UNCHANGED <<queue, seen>>

(* Mutation: the key of a failed run is forgotten. *)
ReturnWithoutRequeue(r, err) ==
  /\ pc' = [pc EXCEPT ![r] = "idle"]
  /\ run' = [run EXCEPT ![r] = NoRun]
  /\ seen' = IF err THEN seen ELSE [seen EXCEPT ![r] = <<run[r].orig, run[r].cfg>>]
  /\ UNCHANGED queue

(* Reconcile returns: an error puts the key back, rate limited.            *)
Return(r, err) ==
  /\ pc' = [pc EXCEPT ![r] = "idle"]
  /\ run' = [run EXCEPT ![r] = NoRun]
  /\ queue' = IF err THEN queue \cup {r} ELSE queue
  /\ seen' = IF err THEN seen ELSE [seen EXCEPT ![r] = <<run[r].orig, run[r].cfg>>]

(* ReconcileKind returns an error.                                         *)
Fail(r) ==
  Goto(r, "post", [run[r] EXCEPT !.todo = {}, !.refs = << >>, !.failed = TRUE])

(* Mutation: the lister's status goes out under a live resourceVersion. *)
LiveCopy(k) == FALSE

(* The lister's copy, and with it its resourceVersion, is out of date.     *)
Outdated(k) == feed[k] # << >>

(* FinalizeKind lists the Gateways by the Route's labels, in the cache.    *)
ListGateways(r, objects) ==
  {g \in GatewayKeys : objects[g] # Absent /\ objects[g].owner = r}

Start(r) ==
  /\ Running(r, "idle")
  /\ r \in queue
  /\ Cardinality({q \in Routes : pc[q] # "idle"}) < Workers
  /\ queue' = queue \ {r}
  /\ LET original == cache[RouteKey(r)]
         begin == [NoRun EXCEPT !.orig = original, !.res = original,
                     !.cfg = config, !.stale = Outdated(RouteKey(r))]
     IN \/ /\ original = Absent
           /\ seen' = [seen EXCEPT ![r] = <<Absent, config>>]
           /\ UNCHANGED <<pc, run, missed>>
        \/ /\ original # Absent
           /\ ~original.deleting
           /\ pc' = [pc EXCEPT ![r] = "finalizer"]
           /\ run' = [run EXCEPT ![r] = begin]
           /\ UNCHANGED histVars
        \/ /\ original # Absent
           /\ original.deleting
           /\ LET listed == ListGateways(r, cache)
              IN /\ pc' = [pc EXCEPT ![r] = "delete"]
                 /\ run' = [run EXCEPT ![r] = [begin EXCEPT !.todo = listed]]
                 /\ missed' = IF api[RouteKey(r)] = Absent THEN missed
                              ELSE [missed EXCEPT ![r] = ListGateways(r, api) \ listed]
           /\ UNCHANGED seen
  /\ UNCHANGED <<api, cache, feed, procVars, events, budget>>

(* PreProcessReconcile on the working copy res, then ReconcileKind starts; *)
(* it does nothing for a Route that did not opt in.                        *)
BeginReconcile(r, res, stale) ==
  LET fresh == IF res.status.obs = res.gen THEN res
               ELSE [res EXCEPT !.status.ready = FALSE]
  IN  Goto(r, IF res.enabled THEN "services" ELSE "post",
           [run[r] EXCEPT !.res = fresh, !.stale = stale])

(* Mutation: a patch that conflicts or fails does not stop the run. *)
SetFinalizerIgnoringErrors(r) ==
  LET k == RouteKey(r)
      patched == [api[k] EXCEPT !.fin = TRUE]
  IN
  /\ Running(r, "finalizer")
  /\ cache[k] # Absent
  /\ \/ /\ cache[k].fin \/ feed[k] # << >>
        /\ BeginReconcile(r, run[r].res, run[r].stale)
        /\ UNCHANGED <<apiVars, budget>>
     \/ /\ ~cache[k].fin
        /\ feed[k] = << >>
        /\ \E o \in Outcomes :
             /\ Outcome(o)
             /\ IF o = "failed" THEN UNCHANGED apiVars ELSE Write(k, patched)
             /\ BeginReconcile(r, patched, TRUE)
  /\ UNCHANGED <<cache, procVars, events, missed>>

(* setFinalizerIfFinalizer reads the lister again and patches with that    *)
(* copy's resourceVersion; the patched object becomes the working copy.    *)
SetFinalizer(r) ==
  LET k == RouteKey(r)
      patched == [api[k] EXCEPT !.fin = TRUE]
  IN
  /\ Running(r, "finalizer")
  /\ \/ /\ cache[k] = Absent
        /\ Return(r, TRUE)
        /\ UNCHANGED <<apiVars, budget>>
     \/ /\ cache[k] # Absent
        /\ cache[k].fin
        /\ BeginReconcile(r, run[r].res, run[r].stale)
        /\ UNCHANGED <<apiVars, budget>>
     \/ /\ cache[k] # Absent
        /\ ~cache[k].fin
        /\ \/ /\ feed[k] # << >>
              /\ Return(r, TRUE)
              /\ UNCHANGED <<apiVars, budget>>
           \/ /\ feed[k] = << >>
              /\ \E o \in Outcomes :
                   /\ Outcome(o)
                   /\ IF o = "failed" THEN UNCHANGED apiVars ELSE Write(k, patched)
                   /\ IF o = "ok" THEN BeginReconcile(r, patched, TRUE)
                                  ELSE Return(r, TRUE)
  /\ UNCHANGED <<cache, procVars, events, missed>>

(* Mutation: the error of a create or update is logged and dropped. *)
PutChildIgnoringErrors(r, k, v, Then) ==
  /\ Then
  /\ \/ /\ ~Accepted(k)
        /\ UNCHANGED <<apiVars, budget>>
     \/ /\ Accepted(k)
        /\ \E o \in Outcomes :
             /\ Outcome(o)
             /\ IF o = "failed" THEN UNCHANGED apiVars ELSE Write(k, v)

(* Create or update child k; go on with Then when it worked.               *)
PutChild(r, k, v, Then) ==
  \/ /\ ~Accepted(k)
     /\ Fail(r)
     /\ UNCHANGED <<apiVars, budget>>
  \/ /\ Accepted(k)
     /\ \E o \in Outcomes :
          /\ Outcome(o)
          /\ IF o = "failed" THEN UNCHANGED apiVars ELSE Write(k, v)
          /\ IF o = "ok" THEN Then ELSE Fail(r)

(* The targets in order; the function returns after the first write.       *)
ReconcilePlaceholderServices(r) ==
  LET traffic == run[r].res.status.traffic
      desired == MakePlaceholderService(run[r].cfg, run[r].res)
      key(i)  == ServiceKey(r, traffic[i].tag)
      due == {i \in DOMAIN traffic :
                \/ cache[key(i)] = Absent
                \/ Differs(cache[key(i)], desired)}
      next == Goto(r, "plan", run[r])
  IN
  /\ Running(r, "services")
  /\ \/ due = {} /\ next /\ UNCHANGED <<apiVars, budget>>
     \/ \E i \in due :
          /\ \A j \in due : i <= j
          /\ PutChild(r, key(i), desired, next)
  /\ UNCHANGED <<cache, procVars, events, missed>>

(* The map of hostnames by visibility.  VisibilityToDomain writes into the *)
(* Route's label map, which panics when that map is nil.                   *)
Panics(route) == route.labels = "nil"

CollectHostnames(r) ==
  LET route == run[r].res
      cfg   == run[r].cfg
  IN
  /\ Running(r, "plan")
  /\ IF route.status.traffic = << >>
     THEN Goto(r, "gateways", run[r])
     ELSE IF ExternalDomainError(cfg, route)
     THEN Fail(r)
     ELSE /\ ~Panics(route)
          /\ Goto(r, "gateways", [run[r] EXCEPT !.todo =
                    {GatewayKey(cfg, r, v) : v \in RouteVisibilities(route)}])
  /\ UNCHANGED <<apiVars, cache, procVars, events, budget, missed>>

(* One turn of the loop over the map, which Go visits in any order.  A     *)
(* Gateway that needs no update is left out of the result.                 *)
ReconcileGateway(r, g) ==
  LET desired == MakeGateway(run[r].cfg, r, run[r].res, g[4])
      state   == [run[r] EXCEPT !.todo = @ \ {g}]
  IN
  /\ Running(r, "gateways")
  /\ g \in run[r].todo
  /\ IF cache[g] # Absent /\ ~Differs(cache[g], desired)
     THEN Goto(r, "gateways", state) /\ UNCHANGED <<apiVars, budget>>
     ELSE PutChild(r, g, desired,
                   Goto(r, "gateways", [state EXCEPT !.refs = Append(@, g)]))
  /\ UNCHANGED <<cache, procVars, events, missed>>

(* MarkIngressNotConfigured, or PropagateIngressStatus(True) and           *)
(* MarkTLSNotEnabled: Ready follows when the conditions that serving's     *)
(* controller sets together with Status.Traffic are true.                  *)
IngressStatus(status, admitted) ==
  [status EXCEPT !.ingress = admitted,
                 !.ready = admitted /\ status.traffic # << >>]

(* httproute is what reconcileHTTPRoute returned.                          *)
PropagateReadiness(r, httproute) ==
  Goto(r, "post",
       [run[r] EXCEPT !.refs = << >>,
                      !.res.status = IngressStatus(@, IsHTTPRouteReady(httproute))])

ReconcileHTTPRoute(r) ==
  LET k == HTTPRouteKey(r)
  IN
  /\ Running(r, "gateways")
  /\ run[r].todo = {}
  /\ \E desired \in MakeHTTPRoute(run[r].cfg, r, run[r].res, run[r].refs) :
       IF cache[k] # Absent /\ ~Differs(cache[k].spec, desired)
       THEN PropagateReadiness(r, cache[k]) /\ UNCHANGED <<apiVars, budget>>
       ELSE LET stored == [spec |-> desired,
                           status |-> IF api[k] = Absent THEN << >> ELSE api[k].status]
            IN  PutChild(r, k, stored, PropagateReadiness(r, stored))
  /\ UNCHANGED <<cache, procVars, events, missed>>

(* Mutation: the status is written only for a new generation. *)
PostProcessNewGenerations(r) ==
  LET status == [run[r].res.status EXCEPT !.obs = run[r].res.gen]
  IN
  /\ Running(r, "post")
  /\ IF status.obs = run[r].orig.status.obs
     THEN Return(r, run[r].failed)
     ELSE Goto(r, "update", [run[r] EXCEPT !.res.status = status])
  /\ UNCHANGED <<apiVars, cache, procVars, events, budget, missed>>

(* PostProcessReconcile, and no status write when nothing changed.         *)
PostProcess(r) ==
  LET status == [run[r].res.status EXCEPT !.obs = run[r].res.gen]
  IN
  /\ Running(r, "post")
  /\ IF status = run[r].orig.status
     THEN Return(r, run[r].failed)
     ELSE Goto(r, "update", [run[r] EXCEPT !.res.status = status])
  /\ UNCHANGED <<apiVars, cache, procVars, events, budget, missed>>

(* Mutation: one attempt too many. *)
RetriesOnceMore(attempt) == attempt < MaxAttempts

(* retry.OnConflict gives up after MaxAttempts attempts.                   *)
Retries(attempt) == attempt + 1 < MaxAttempts

(* updateStatus: the first attempt uses the lister's copy, after a         *)
(* conflict the object is fetched again and takes the same status.         *)
UpdateStatus(r) ==
  LET k == RouteKey(r)
  IN
  /\ Running(r, "update")
  /\ \/ /\ api[k] = Absent
        /\ Return(r, TRUE)
        /\ UNCHANGED <<apiVars, budget>>
     \/ /\ api[k] # Absent
        /\ run[r].stale
        /\ IF Retries(run[r].attempt)
           THEN Goto(r, "refetch", [run[r] EXCEPT !.attempt = @ + 1])
           ELSE Return(r, TRUE)
        /\ UNCHANGED <<apiVars, budget>>
     \/ /\ api[k] # Absent
        /\ ~run[r].stale
        /\ \E o \in Outcomes :
             /\ Outcome(o)
             /\ IF o = "failed" THEN UNCHANGED apiVars
                ELSE Write(k, [api[k] EXCEPT !.status = run[r].res.status])
             /\ Return(r, o # "ok" \/ run[r].failed)
  /\ UNCHANGED <<cache, procVars, events, missed>>

Refetch(r) ==
  LET current == api[RouteKey(r)]
  IN
  /\ Running(r, "refetch")
  /\ \/ /\ current = Absent
        /\ Return(r, TRUE)
        /\ UNCHANGED budget
     \/ /\ current # Absent
        /\ \E o \in {"ok", "failed"} :
             /\ Outcome(o)
             /\ IF o = "failed" THEN Return(r, TRUE)
                ELSE IF current.status = run[r].res.status
                THEN Return(r, run[r].failed)
                ELSE Goto(r, "update", [run[r] EXCEPT !.stale = FALSE])
  /\ UNCHANGED <<apiVars, cache, procVars, events, missed>>

(* Mutation: a failed deletion does not stop FinalizeKind. *)
DeleteGatewayIgnoringErrors(r, g) ==
  /\ Running(r, "delete")
  /\ g \in run[r].todo
  /\ \E o \in Outcomes :
       /\ Outcome(o)
       /\ IF o = "failed" THEN UNCHANGED apiVars ELSE Write(g, Absent)
  /\ Goto(r, "delete", [run[r] EXCEPT !.todo = @ \ {g}])
  /\ UNCHANGED <<cache, procVars, events, missed>>

(* FinalizeKind deletes what it listed and returns on the first error.     *)
DeleteGateway(r, g) ==
  /\ Running(r, "delete")
  /\ g \in run[r].todo
  /\ \/ /\ api[g] = Absent
        /\ Return(r, TRUE)
        /\ UNCHANGED <<apiVars, budget>>
     \/ /\ api[g] # Absent
        /\ \E o \in Outcomes :
             /\ Outcome(o)
             /\ IF o = "failed" THEN UNCHANGED apiVars ELSE Write(g, Absent)
             /\ IF o = "ok"
                THEN Goto(r, "delete", [run[r] EXCEPT !.todo = @ \ {g}])
                ELSE Return(r, TRUE)
  /\ UNCHANGED <<cache, procVars, events, missed>>

(* clearFinalizer after FinalizeKind succeeded.  Without finalizers the    *)
(* object is gone, and a status that differs cannot be written any more.   *)
ClearFinalizer(r) ==
  LET k == RouteKey(r)
  IN
  /\ Running(r, "delete")
  /\ run[r].todo = {}
  /\ \/ /\ cache[k] = Absent \/ feed[k] # << >>
        /\ Return(r, TRUE)
        /\ UNCHANGED <<apiVars, budget>>
     \/ /\ cache[k] # Absent
        /\ feed[k] = << >>
        /\ \E o \in Outcomes :
             /\ Outcome(o)
             /\ IF o = "failed" THEN UNCHANGED apiVars ELSE Write(k, Absent)
             /\ Return(r, o # "ok" \/ cache[k].status # run[r].orig.status)
  /\ UNCHANGED <<cache, procVars, events, missed>>

-----------------------------------------------------------------------------
(* The process: informers, configuration, crashes.                         *)

(* The watch delivers a version to the store; the handlers of Routes and   *)
(* of objects with a controller reference to one will enqueue it.          *)
Deliver(k) ==
  /\ proc = "up"
  /\ feed[k] # << >>
  /\ cache' = [cache EXCEPT ![k] = Head(feed[k])]
  /\ feed' = [feed EXCEPT ![k] = Tail(@)]
  /\ events' = events \cup {r \in Routes : k \in NotifyingKeys(r)}
  /\ UNCHANGED <<api, procVars, queue, pc, run, budget, histVars>>

Enqueue(r) ==
  /\ proc = "up"
  /\ r \in events
  /\ events' = events \ {r}
  /\ queue' = queue \cup {r}
  /\ UNCHANGED <<apiVars, cache, procVars, pc, run, budget, histVars>>

CachedRoutes == {r \in Routes : cache[RouteKey(r)] # Absent}

(* The periodic resync of the informers.                                   *)
Resync ==
  /\ proc = "up"
  /\ budget.resyncs > 0
  /\ budget' = [budget EXCEPT !.resyncs = @ - 1]
  /\ events' = events \cup CachedRoutes
  /\ UNCHANGED <<apiVars, cache, procVars, queue, pc, run, histVars>>

(* Mutation: no resync callback. *)
ConfigChangeWithoutResync(c) ==
  /\ c # config
  /\ Edit
  /\ config' = c
  /\ UNCHANGED <<apiVars, cache, proc, events, queue, pc, run, histVars>>

(* OnConfigChanged stores the value, then calls back to GlobalResync.      *)
ConfigChange(c) ==
  /\ c # config
  /\ Edit
  /\ config' = c
  /\ events' = events \cup (IF proc = "up" THEN CachedRoutes ELSE {})
  /\ UNCHANGED <<apiVars, cache, proc, queue, pc, run, histVars>>

Stop(how) ==
  /\ proc' = how
  /\ events' = {}
  /\ queue' = {}
  /\ cache' = [k \in Keys |-> Absent]
  /\ feed' = [k \in Keys |-> << >>]
  /\ pc' = [r \in Routes |-> "idle"]
  /\ run' = [r \in Routes |-> NoRun]
  /\ UNCHANGED <<api, config, histVars>>

Crash ==
  /\ proc = "up"
  /\ budget.faults > 0
  /\ budget' = [budget EXCEPT !.faults = @ - 1]
  /\ Stop("crashed")

(* The workers do not recover.                                             *)
Panic(r) ==
  /\ Running(r, "plan")
  /\ run[r].res.status.traffic # << >>
  /\ ~ExternalDomainError(run[r].cfg, run[r].res)
  /\ Panics(run[r].res)
  /\ Stop("panicked")
  /\ UNCHANGED budget

(* Mutation: the objects that exist at the start raise no events. *)
RestartWithoutEvents ==
  /\ proc # "up"
  /\ proc' = "up"
  /\ cache' = api
  /\ UNCHANGED <<apiVars, config, events, queue, pc, run, budget, histVars>>

(* A new process lists every object before the workers start.              *)
Restart ==
  /\ proc # "up"
  /\ proc' = "up"
  /\ cache' = api
  /\ events' = {r \in Routes : \E k \in NotifyingKeys(r) : api[k] # Absent}
  /\ UNCHANGED <<apiVars, config, queue, pc, run, budget, histVars>>

-----------------------------------------------------------------------------
(* Users, serving's Route controller, the Gateway implementation, the      *)
(* garbage collector.                                                      *)

envUnchanged == <<cache, procVars, events, queue, pc, histVars>>

(* Only a change of the spec makes a new generation.                       *)
EditRoute(r) ==
  LET route == api[RouteKey(r)]
  IN
  /\ route # Absent
  /\ Edit
  /\ \/ \E t \in Traffics \ {route.spec} :
          WriteRoute(r, [route EXCEPT !.spec = t, !.gen = @ + 1])
     \/ \E l \in LabelChoices \ {route.labels} :
          WriteRoute(r, [route EXCEPT !.labels = l])
     \/ WriteRoute(r, [route EXCEPT !.enabled = ~ @])
  /\ UNCHANGED envUnchanged

DeleteRoute(r) ==
  LET route == api[RouteKey(r)]
  IN
  /\ route # Absent
  /\ ~route.deleting
  /\ Edit
  /\ WriteRoute(r, IF route.fin THEN [route EXCEPT !.deleting = TRUE] ELSE Absent)
  /\ UNCHANGED envUnchanged

(* With the README's patch, serving assigns the traffic of every Route.    *)
ServingSync(r) ==
  LET route == api[RouteKey(r)]
      status == [traffic |-> route.spec, obs |-> route.gen,
                 ingress |-> route.status.ingress, ready |-> route.status.ingress]
  IN
  /\ route # Absent
  /\ ~route.deleting
  /\ status # route.status
  /\ WriteRoute(r, [route EXCEPT !.status = status])
  /\ UNCHANGED <<envUnchanged, budget>>

GatewayRefs(httproute) == {httproute.spec.refs[i] : i \in DOMAIN httproute.spec.refs}

WriteGatewayStatus(r, status) ==
  /\ Write(HTTPRouteKey(r), [api[HTTPRouteKey(r)] EXCEPT !.status = status])
  /\ UNCHANGED <<envUnchanged, run>>

(* The entry of Gateway g is added or updated. *)
SetEntry(status, g, admitted) ==
  LET entries == Entries(status)
  IN  << [h \in DOMAIN entries \cup {g} |->
            IF h = g THEN admitted ELSE entries[h]] >>

(* The implementation admits the HTTPRoute to one of the Gateways it names. *)
Admit(r, g) ==
  LET httproute == api[HTTPRouteKey(r)]
  IN
  /\ httproute # Absent
  /\ g \in GatewayRefs(httproute)
  /\ api[g] # Absent
  /\ g \in DOMAIN Entries(httproute.status) => ~Entries(httproute.status)[g]
  /\ WriteGatewayStatus(r, SetEntry(httproute.status, g, TRUE))
  /\ UNCHANGED budget

Reject(r, g) ==
  LET httproute == api[HTTPRouteKey(r)]
  IN
  /\ httproute # Absent
  /\ g \in GatewayRefs(httproute)
  /\ g \in DOMAIN Entries(httproute.status) => Entries(httproute.status)[g]
  /\ Edit
  /\ WriteGatewayStatus(r, SetEntry(httproute.status, g, FALSE))

(* Entries of Gateways that are no longer named go away: the list that     *)
(* stays may be empty, and is not nil.                                     *)
Prune(r) ==
  LET httproute == api[HTTPRouteKey(r)]
      entries   == Entries(httproute.status)
  IN
  /\ httproute # Absent
  /\ ~ (DOMAIN entries \subseteq GatewayRefs(httproute))
  /\ WriteGatewayStatus(r, << [g \in DOMAIN entries \cap GatewayRefs(httproute)
                                 |-> entries[g]] >>)
  /\ UNCHANGED budget

CollectGarbage(r, k) ==
  /\ k \in OwnedKeys(r)
  /\ api[RouteKey(r)] = Absent
  /\ api[k] # Absent
  /\ Write(k, Absent)
  /\ UNCHANGED <<envUnchanged, run, budget>>

-----------------------------------------------------------------------------
Worker(r) ==
  \/ SetFinalizer(r)
  \/ ReconcilePlaceholderServices(r)
  \/ CollectHostnames(r)
  \/ \E g \in GatewayKeys : ReconcileGateway(r, g)
  \/ ReconcileHTTPRoute(r)
  \/ PostProcess(r)
  \/ UpdateStatus(r)
  \/ Refetch(r)
  \/ \E g \in GatewayKeys : DeleteGateway(r, g)
  \/ ClearFinalizer(r)
  \/ Panic(r)

Process ==
  \/ \E k \in Keys : Deliver(k)
  \/ \E r \in Routes : Enqueue(r)
  \/ Resync
  \/ \E c \in Configs : ConfigChange(c)
  \/ Crash
  \/ Restart

Others(r) ==
  \/ EditRoute(r)
  \/ DeleteRoute(r)
  \/ ServingSync(r)
  \/ \E g \in GatewayKeys : Admit(r, g)
  \/ \E g \in GatewayKeys : Reject(r, g)
  \/ Prune(r)
  \/ \E k \in Keys : CollectGarbage(r, k)

Next ==
  \/ \E r \in Routes : Start(r) \/ Worker(r) \/ Others(r)
  \/ Process

Spec == Init /\ [][Next]_vars

-----------------------------------------------------------------------------
(* Fairness: threads run, watches deliver, callbacks are made, a crashed   *)
(* process is restarted, and the external controllers react.               *)
Fairness ==
  /\ \A r \in Routes : /\ WF_vars(Start(r))
                       /\ WF_vars(Worker(r))
                       /\ WF_vars(Enqueue(r))
                       /\ WF_vars(ServingSync(r))
                       /\ WF_vars(Prune(r))
                       /\ WF_vars(\E g \in GatewayKeys : Admit(r, g))
                       /\ WF_vars(\E k \in Keys : CollectGarbage(r, k))
  /\ \A k \in Keys : WF_vars(Deliver(k))
  /\ WF_vars(Restart)

FairSpec == Spec /\ Fairness

-----------------------------------------------------------------------------
(* Properties.                                                             *)

StoreTyped ==
  /\ DOMAIN api = Keys /\ DOMAIN cache = Keys /\ DOMAIN feed = Keys
  /\ \A k \in RouteKeys : /\ api[k] \in RouteObjects \cup {Absent}
                          /\ cache[k] \in RouteObjects \cup {Absent}
                          /\ feed[k] \in Seq(RouteObjects \cup {Absent})

RunsTyped ==
  /\ pc \in [Routes -> Stages]
  /\ run \in [Routes -> Runs]
  /\ \A r \in Routes :
       pc[r] # "idle" => /\ run[r].orig \in RouteObjects
                         /\ run[r].res \in RouteObjects
                         /\ run[r].cfg \in Configs

Budgets == [edits : 0 .. MaxEdits, faults : 0 .. MaxFaults, resyncs : 0 .. MaxResyncs]

(* The type of every variable: Routes, caches, watches and the run records *)
(* of the reconciler loop hold what the code's types allow, and a run that *)
(* is under way holds a Route and a frozen configuration.                  *)
TypeOK ==
  /\ StoreTyped
  /\ RunsTyped
  /\ config \in Configs
  /\ proc \in {"up", "crashed", "panicked"}
  /\ events \subseteq Routes
  /\ queue \subseteq Routes
  /\ budget \in Budgets
  /\ DOMAIN seen = Routes
  /\ missed \in [Routes -> SUBSET GatewayKeys]

(* Nothing of Route r waits to be enqueued, processed or delivered.        *)
Idle(r)  == proc = "up" /\ pc[r] = "idle" /\ r \notin queue \cup events
Quiet(r) == Idle(r) /\ feed[RouteKey(r)] = << >> /\ feed[HTTPRouteKey(r)] = << >>

Managed(r) ==
  LET route == api[RouteKey(r)]
  IN  route # Absent /\ route.enabled /\ ~route.deleting

(* No lost wakeup: a Route that no worker handles and nobody is about to   *)
(* enqueue was last reconciled, without error, in the version the lister   *)
(* shows and under the configuration in force.  Informer callbacks, config *)
(* callbacks, the queue and the retry of failed runs all contribute.       *)
NoLostWakeup ==
  \A r \in Routes :
    Idle(r) /\ cache[RouteKey(r)] # Absent
      => seen[r] = <<cache[RouteKey(r)], config>>

(* When all is quiet, the readiness in the Route's status is the verdict   *)
(* of IsHTTPRouteReady on the HTTPRoute that is stored now: admissions     *)
(* that race with updates and status writes are never lost for good.       *)
ReadinessIsCurrent ==
  \A r \in Routes :
    Quiet(r) /\ Managed(r)
      => /\ api[HTTPRouteKey(r)] # Absent
         /\ api[RouteKey(r)].status.ingress <=> IsHTTPRouteReady(api[HTTPRouteKey(r)])

(* When all is quiet, the Gateways and the HTTPRoute of an opted-in Route  *)
(* are what its labels, its Status.Traffic and the configuration ask for,  *)
(* whatever failed, crashed or was answered too late on the way.           *)
ChildrenInSync ==
  \A r \in Routes :
    Quiet(r) /\ Managed(r)
      => LET route == api[RouteKey(r)]
             keys  == {GatewayKey(config, r, v) : v \in RouteVisibilities(route)}
         IN /\ \A g \in keys : api[g] = MakeGateway(config, r, route, g[4])
            /\ api[HTTPRouteKey(r)] # Absent
            /\ LET spec == api[HTTPRouteKey(r)].spec
               IN /\ GatewayRefs(api[HTTPRouteKey(r)]) = keys
                  /\ spec \in MakeHTTPRoute(config, r, route, spec.refs)

(* A reader of the API server never finds an HTTPRoute of a live Route     *)
(* that names a Gateway that does not exist: reconcileHTTPRoute follows    *)
(* reconcileGateway, and only FinalizeKind deletes.                        *)
RefsResolve ==
  \A r \in Routes :
    LET route == api[RouteKey(r)]
        httproute == api[HTTPRouteKey(r)]
    IN  route # Absent /\ httproute # Absent
          => route.deleting \/ \A g \in GatewayRefs(httproute) : api[g] # Absent

(* A Route leaves the API server only after its Gateways, except for those *)
(* that were missing from FinalizeKind's listing: they have no owner       *)
(* reference, so nothing else deletes them.                                *)
FinalizeLeavesOnlyMissed ==
  \A r \in Routes :
    api[RouteKey(r)] = Absent => ListGateways(r, api) \subseteq missed[r]

(* When reconcileHTTPRoute writes, every hostname of the HTTPRoute has a   *)
(* listener on a Gateway the HTTPRoute names: reconcileGateway and         *)
(* reconcileHTTPRoute work from one frozen Route and configuration.        *)
HostsBoundWhenWritten ==
  [][\A r \in Routes :
       LET k == HTTPRouteKey(r)
       IN  api'[k] # Absent /\ (api[k] = Absent \/ api'[k].spec # api[k].spec)
             => \A i \in DOMAIN api'[k].spec.hosts :
                  \E g \in GatewayRefs(api'[k]) :
                    \E j \in DOMAIN api'[g].hosts :
                      api'[g].hosts[j] = api'[k].spec.hosts[i]]_vars

(* The first attempt of updateStatus carries the resourceVersion of the    *)
(* copy the run started from, so it never undoes traffic that serving      *)
(* assigned in the meantime.                                               *)
FirstWriteKeepsTraffic ==
  [][\A r \in Routes :
       LET k == RouteKey(r)
       IN  pc[r] = "update" /\ pc'[r] = "idle" /\ proc' = "up"
             /\ run[r].attempt = 0 /\ api'[k] # Absent
             => api'[k].status.traffic = api[k].status.traffic]_vars

(* The life of a Route and its children as the API server shows it: no     *)
(* child before the finalizer, no Gateway deleted before the Route, no     *)
(* Route let go with a Gateway that the finalization saw.                  *)
Lifecycle == INSTANCE RouteLifecycle WITH
  Gateways   <- GatewayKeys,
  phase      <- [r \in Routes |->
                   IF api[RouteKey(r)] = Absent THEN "gone"
                   ELSE IF api[RouteKey(r)].deleting THEN "deleting" ELSE "live"],
  held       <- [r \in Routes |-> api[RouteKey(r)] # Absent /\ api[RouteKey(r)].fin],
  gateways   <- [r \in Routes |-> ListGateways(r, api)],
  bound      <- [r \in Routes |-> api[HTTPRouteKey(r)] # Absent],
  overlooked <- missed

FollowsLifecycle == Lifecycle!Spec

(* A deleted Route is finalized and leaves the API server, through lost    *)
(* answers, stale listings and restarts.                                   *)
DeletionCompletes ==
  \A r \in Routes :
    (api[RouteKey(r)] # Absent /\ api[RouteKey(r)].deleting)
      ~> api[RouteKey(r)] = Absent

(* An opted-in Route whose labels can be read and whose names are valid    *)
(* ends up Ready for its latest generation once the traffic that serving   *)
(* assigned stays: through stale listers, conflicts and readmissions the   *)
(* controller comes to rest.  (That the traffic stays is an assumption: a  *)
(* retried status write carries the traffic of an outdated copy.)          *)
EventuallyReady ==
  \A r \in Routes :
    LET route == api[RouteKey(r)]
    IN  <>[](/\ Managed(r)
             /\ ~Panics(route)
             /\ ~ExternalDomainError(config, route)
             /\ route.status.traffic = route.spec)
          => <>[](/\ route # Absent
                  /\ route.status.ready
                  /\ route.status.obs = route.gen)

-----------------------------------------------------------------------------
(* Statements of the repository's comments that the code does not keep.    *)

(* "If cluster-local label is not added, add the external domain."  A      *)
(* Route without any label takes the process down instead.                 *)
NeverPanics == proc # "panicked"

(* "reconcilePlaceholderServices reconciles placholder k8s service": when  *)
(* all is quiet, every target of the Route has its placeholder Service.    *)
ServicesInSync ==
  \A r \in Routes :
    Quiet(r) /\ Managed(r)
      => \A i \in DOMAIN api[RouteKey(r)].status.traffic :
           api[ServiceKey(r, api[RouteKey(r)].status.traffic[i].tag)] # Absent

(* "IsHTTPRouteReady will check the status conditions of the ingress and   *)
(* return true if all gateways have been admitted": when all is quiet, a   *)
(* Route whose ingress is ready is admitted by every Gateway its HTTPRoute *)
(* names.                                                                  *)
ReadyMeansAdmitted ==
  \A r \in Routes :
    Quiet(r) /\ Managed(r) /\ api[RouteKey(r)].status.ingress
      => LET httproute == api[HTTPRouteKey(r)]
         IN  \A g \in GatewayRefs(httproute) :
               /\ g \in DOMAIN Entries(httproute.status)
               /\ Entries(httproute.status)[g]

=============================================================================
