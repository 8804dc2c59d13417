----------------------- MODULE RouteReconciler_proofs -----------------------
(***************************************************************************)
(* Proofs about RouteReconciler for every set of Routes, configurations    *)
(* and bounds: the type invariant, that no wakeup is lost, and, from what  *)
(* an old version of a Route tells of the stored one, which Gateways a     *)
(* finalization leaves behind and which traffic a status write carries.    *)
(***************************************************************************)
EXTENDS RouteReconciler, SequenceTheorems, TLAPS

-----------------------------------------------------------------------------
(* The watch of a Route leads from the lister's copy to the stored object. *)
(* Nothing is under way while the process is down.                         *)
WatchInv ==
  \A k \in RouteKeys :
    IF proc = "up"
    THEN IF feed[k] = << >> THEN cache[k] = api[k]
                            ELSE feed[k][Len(feed[k])] = api[k]
    ELSE feed[k] = << >>

StoreInv == StoreTyped /\ WatchInv

(* A process that is down runs nothing, and a run whose Route will not be  *)
(* processed again works on the lister's current copy and configuration.   *)
RunInv ==
  \A r \in Routes :
    pc[r] # "idle"
      => /\ proc = "up"
         /\ run[r].orig # Absent
         /\ r \notin queue \cup events
              => run[r].orig = cache[RouteKey(r)] /\ run[r].cfg = config

IInv == TypeOK /\ WatchInv /\ RunInv /\ NoLostWakeup

-----------------------------------------------------------------------------
(* What a run that goes on, and one that returns, do to the variables the  *)
(* queue discipline depends on.                                            *)

Continues(r) ==
  /\ \E stage \in Stages \ {"idle"} : pc' = [pc EXCEPT ![r] = stage]
  /\ \E x \in Runs : /\ run' = [run EXCEPT ![r] = x]
                     /\ x.orig = run[r].orig
                     /\ x.cfg = run[r].cfg
                     /\ x.res \in RouteObjects
  /\ UNCHANGED <<queue, seen>>

Finishes(r) == \E err \in BOOLEAN : Return(r, err)

Progress(r) ==
  /\ Continues(r) \/ Finishes(r)
  /\ StoreInv'
  /\ budget' \in Budgets
  /\ UNCHANGED <<cache, procVars, events, missed>>

-----------------------------------------------------------------------------
(* Keys of different kinds are different.                                  *)
LEMMA KeyKinds ==
  /\ \A r \in Routes : RouteKey(r) \in RouteKeys
  /\ \A r \in Routes : HTTPRouteKey(r) \in Keys \ RouteKeys
  /\ \A r \in Routes, t \in Tags : ServiceKey(r, t) \in Keys \ RouteKeys
  /\ \A g \in GatewayKeys : g \in Keys \ RouteKeys
  /\ RouteKeys \subseteq Keys
  /\ \A r, q \in Routes : RouteKey(r) = RouteKey(q) => r = q
<1>1. \A k \in RouteKeys : k[1] = "Route"
  BY DEF RouteKeys, RouteKey
<1>2. \A r \in Routes : HTTPRouteKey(r)[1] = "HTTPRoute"
  BY DEF HTTPRouteKey
<1>3. \A r \in Routes, t \in Tags : ServiceKey(r, t)[1] = "Service"
  BY DEF ServiceKey
<1>4. \A g \in GatewayKeys : g[1] = "Gateway"
  BY DEF GatewayKeys, GatewayKey
<1>5. "Route" # "HTTPRoute" /\ "Route" # "Service" /\ "Route" # "Gateway"
  OBVIOUS
<1>6. /\ \A r \in Routes : RouteKey(r) \in RouteKeys
      /\ \A r \in Routes : HTTPRouteKey(r) \in HTTPRouteKeys
      /\ \A r \in Routes, t \in Tags : ServiceKey(r, t) \in ServiceKeys
  BY DEF RouteKeys, HTTPRouteKeys, ServiceKeys
<1>7. \A r, q \in Routes : RouteKey(r) = RouteKey(q) => r = q
  BY DEF RouteKey
<1> QED
  BY <1>1, <1>2, <1>3, <1>4, <1>5, <1>6, <1>7 DEF Keys

(* A write keeps the stores typed and the watches in order: for a Route    *)
(* when the new version is one, for other objects always.                  *)
LEMMA WriteKeepsStore ==
  ASSUME NEW k \in Keys, NEW v, StoreInv, Write(k, v), UNCHANGED <<cache, proc>>,
         k \in RouteKeys => v \in RouteObjects \cup {Absent}
  PROVE  StoreInv'
<1> USE DEF StoreInv, StoreTyped
<1>1. DOMAIN api' = Keys /\ DOMAIN cache' = Keys /\ DOMAIN feed' = Keys
  BY DEF Write
<1>2. ASSUME NEW j \in RouteKeys, j # k
      PROVE  api'[j] = api[j] /\ feed'[j] = feed[j] /\ cache'[j] = cache[j]
  BY <1>2, KeyKinds DEF Write
<1>3. ASSUME k \in RouteKeys
      PROVE  /\ api'[k] = v
             /\ cache'[k] = cache[k]
             /\ feed'[k] = IF v = api[k] \/ proc # "up" THEN feed[k] ELSE Append(feed[k], v)
  BY <1>3, KeyKinds DEF Write
<1>4. ASSUME k \in RouteKeys
      PROVE  feed'[k] \in Seq(RouteObjects \cup {Absent})
  <2> DEFINE S == RouteObjects \cup {Absent}
  <2>1. feed[k] \in Seq(S) /\ v \in S
    BY <1>4
  <2>2. Append(feed[k], v) \in Seq(S)
    <3> HIDE DEF S
    <3> QED BY <2>1, AppendProperties
  <2> QED BY <1>3, <1>4, <2>1, <2>2
<1>5. StoreTyped'
  BY <1>1, <1>2, <1>3, <1>4
<1>6. WatchInv'
  <2>0. CASE proc # "up"
    <3>1. UNCHANGED <<feed, proc>>
      BY <2>0 DEF Write
    <3> QED BY <2>0, <3>1 DEF WatchInv
  <2> SUFFICES ASSUME proc = "up", NEW j \in RouteKeys
               PROVE  IF feed'[j] = << >> THEN cache'[j] = api'[j]
                                          ELSE feed'[j][Len(feed'[j])] = api'[j]
    BY <2>0 DEF WatchInv
  <2>1. CASE j # k
    BY <1>2, <2>1 DEF WatchInv
  <2>2. CASE j = k /\ v = api[k]
    BY <1>3, <2>2 DEF WatchInv
  <2>3. CASE j = k /\ v # api[k]
    <3> DEFINE S == RouteObjects \cup {Absent}
    <3>1. feed[k] \in Seq(S) /\ v \in S
      BY <2>3
    <3>2. feed'[k] = Append(feed[k], v) /\ api'[k] = v
      BY <1>3, <2>3
    <3>3. Append(feed[k], v) # << >> /\ Append(feed[k], v)[Len(Append(feed[k], v))] = v
      <4> HIDE DEF S
      <4> QED BY <3>1, AppendProperties
    <3> QED BY <2>3, <3>2, <3>3
  <2> QED BY <2>1, <2>2, <2>3
<1> QED BY <1>5, <1>6

LEMMA NoWriteKeepsStore ==
  ASSUME StoreInv, UNCHANGED <<apiVars, cache, proc>>
  PROVE  StoreInv'
  BY DEF StoreInv, StoreTyped, WatchInv, apiVars

(* Calls and edits use up their budget.                                    *)
LEMMA BudgetTyped ==
  ASSUME budget \in Budgets
  PROVE  /\ \A o \in Outcomes : Outcome(o) => budget' \in Budgets
         /\ Edit => budget' \in Budgets
         /\ UNCHANGED budget => budget' \in Budgets
  BY BoundsAssumption DEF Budgets, Outcome, Edit, Outcomes

-----------------------------------------------------------------------------
(* Changes of a Route object that the actions make.                        *)
LEMMA RouteChanges ==
  ASSUME NEW o \in RouteObjects
  PROVE  /\ [o EXCEPT !.fin = TRUE] \in RouteObjects
         /\ [o EXCEPT !.deleting = TRUE] \in RouteObjects
         /\ [o EXCEPT !.enabled = ~ @] \in RouteObjects
         /\ [o EXCEPT !.status.ready = FALSE] \in RouteObjects
         /\ \A l \in LabelChoices : [o EXCEPT !.labels = l] \in RouteObjects
         /\ \A t \in Traffics : [o EXCEPT !.spec = t, !.gen = @ + 1] \in RouteObjects
         /\ \A st \in Statuses : [o EXCEPT !.status = st] \in RouteObjects
         /\ o.status \in Statuses
         /\ o.gen \in Nat
<1>1. /\ [o EXCEPT !.fin = TRUE] \in RouteObjects
      /\ [o EXCEPT !.deleting = TRUE] \in RouteObjects
      /\ o.status \in Statuses
      /\ o.gen \in Nat
  BY DEF RouteObjects
<1>2. [o EXCEPT !.enabled = ~ @] \in RouteObjects
  BY DEF RouteObjects
<1>3. \A l \in LabelChoices : [o EXCEPT !.labels = l] \in RouteObjects
  BY DEF RouteObjects
<1>4. \A t \in Traffics : [o EXCEPT !.spec = t, !.gen = @ + 1] \in RouteObjects
  <2>1. \A t \in Traffics, n \in Nat : [o EXCEPT !.spec = t, !.gen = n] \in RouteObjects
    BY DEF RouteObjects
  <2>2. o.gen + 1 \in Nat
    BY <1>1
  <2> QED BY <2>1, <2>2
<1>5. \A st \in Statuses : [o EXCEPT !.status = st] \in RouteObjects
  BY DEF RouteObjects
<1>6. [o.status EXCEPT !.ready = FALSE] \in Statuses
  BY <1>1 DEF Statuses
<1>7. [o EXCEPT !.status.ready = FALSE] \in RouteObjects
  BY <1>6 DEF RouteObjects
<1> QED BY <1>1, <1>2, <1>3, <1>4, <1>5, <1>7

LEMMA StatusChanges ==
  ASSUME NEW st \in Statuses
  PROVE  /\ \A b \in BOOLEAN : IngressStatus(st, b) \in Statuses
         /\ \A n \in Nat : [st EXCEPT !.obs = n] \in Statuses
  BY DEF Statuses, IngressStatus

LEMMA GotoContinues ==
  ASSUME NEW r \in Routes, NEW stage \in Stages \ {"idle"}, NEW x \in Runs,
         x.orig = run[r].orig, x.cfg = run[r].cfg, x.res \in RouteObjects,
         Goto(r, stage, x)
  PROVE  Continues(r)
  BY DEF Goto, Continues

LEMMA FailContinues ==
  ASSUME TypeOK, NEW r \in Routes, pc[r] # "idle", Fail(r)
  PROVE  Continues(r)
<1> DEFINE x == [run[r] EXCEPT !.todo = {}, !.refs = << >>, !.failed = TRUE]
<1>1. run[r] \in Runs /\ run[r].res \in RouteObjects
  BY DEF TypeOK, RunsTyped
<1>2. << >> \in Seq(GatewayKeys)
  OBVIOUS
<1>3. x \in Runs /\ x.orig = run[r].orig /\ x.cfg = run[r].cfg /\ x.res \in RouteObjects
  BY <1>1, <1>2 DEF Runs
<1>4. Goto(r, "post", x)
  BY DEF Fail
<1> QED BY <1>3, <1>4, GotoContinues DEF Stages

LEMMA SetFinalizerProgress ==
  ASSUME TypeOK, StoreInv, NEW r \in Routes, SetFinalizer(r)
  PROVE  Progress(r)
<1> DEFINE k == RouteKey(r)
           patched == [api[k] EXCEPT !.fin = TRUE]
<1>1. k \in RouteKeys /\ k \in Keys
  BY KeyKinds
<1>2. pc[r] = "finalizer" /\ proc = "up"
  BY DEF SetFinalizer, Running
<1>3. run[r] \in Runs /\ run[r].res \in RouteObjects /\ run[r].stale \in BOOLEAN
  BY <1>2 DEF TypeOK, RunsTyped, Runs
<1>4. ASSUME NEW res \in RouteObjects, NEW b \in BOOLEAN, BeginReconcile(r, res, b)
      PROVE  Continues(r)
  <2> DEFINE fresh == IF res.status.obs = res.gen THEN res
                      ELSE [res EXCEPT !.status.ready = FALSE]
             x == [run[r] EXCEPT !.res = fresh, !.stale = b]
             stage == IF res.enabled THEN "services" ELSE "post"
  <2>1. fresh \in RouteObjects
    BY RouteChanges
  <2>2. x \in Runs /\ x.orig = run[r].orig /\ x.cfg = run[r].cfg /\ x.res \in RouteObjects
    <3> HIDE DEF fresh
    <3> QED BY <1>3, <2>1 DEF Runs
  <2>3. Goto(r, stage, x)
    BY <1>4 DEF BeginReconcile
  <2>4. stage \in Stages \ {"idle"}
    BY DEF Stages
  <2> QED BY <2>2, <2>3, <2>4, GotoContinues
<1>5. UNCHANGED <<cache, procVars, events, missed>>
  BY DEF SetFinalizer
<1>6. CASE /\ Return(r, TRUE) \/ BeginReconcile(r, run[r].res, run[r].stale)
           /\ UNCHANGED <<apiVars, budget>>
  <2>1. Continues(r) \/ Finishes(r)
    BY <1>3, <1>4, <1>6 DEF Finishes
  <2> QED BY <1>5, <1>6, <2>1, NoWriteKeepsStore, BudgetTyped
          DEF Progress, TypeOK, procVars
<1>7. ASSUME cache[k] # Absent, feed[k] = << >>, NEW o \in Outcomes, Outcome(o),
             IF o = "failed" THEN UNCHANGED apiVars ELSE Write(k, patched),
             IF o = "ok" THEN BeginReconcile(r, patched, TRUE) ELSE Return(r, TRUE)
      PROVE  Progress(r)
  <2>1. api[k] = cache[k]
    BY <1>1, <1>2, <1>7 DEF StoreInv, WatchInv
  <2>2. api[k] \in RouteObjects
    BY <1>1, <1>7, <2>1 DEF StoreInv, StoreTyped
  <2>3. patched \in RouteObjects
    BY <2>2, RouteChanges
  <2>4. StoreInv'
    <3> HIDE DEF patched, k
    <3> QED BY <1>1, <1>5, <1>7, <2>3, NoWriteKeepsStore, WriteKeepsStore DEF procVars
  <2>5. Continues(r) \/ Finishes(r)
    <3> HIDE DEF patched
    <3> QED BY <1>4, <1>7, <2>3 DEF Finishes
  <2> QED BY <1>5, <1>7, <2>4, <2>5, BudgetTyped DEF Progress, TypeOK
<1> QED
  BY <1>6, <1>7 DEF SetFinalizer

(* What the create or update of a child leaves behind.                     *)
LEMMA PutChildEffect ==
  ASSUME TypeOK, StoreInv, NEW k \in Keys \ RouteKeys, NEW v, NEW o \in Outcomes,
         UNCHANGED <<cache, proc>>,
         \/ UNCHANGED <<apiVars, budget>>
         \/ /\ Outcome(o)
            /\ IF o = "failed" THEN UNCHANGED apiVars ELSE Write(k, v)
  PROVE  StoreInv' /\ budget' \in Budgets
<1>1. k \in Keys /\ k \notin RouteKeys
  OBVIOUS
<1>2. budget' \in Budgets
  BY BudgetTyped DEF TypeOK
<1>3. UNCHANGED apiVars \/ Write(k, v)
  OBVIOUS
<1> QED BY <1>1, <1>2, <1>3, NoWriteKeepsStore, WriteKeepsStore

LEMMA ServicesProgress ==
  ASSUME TypeOK, StoreInv, NEW r \in Routes, ReconcilePlaceholderServices(r)
  PROVE  Progress(r)
<1> DEFINE traffic == run[r].res.status.traffic
           desired == MakePlaceholderService(run[r].cfg, run[r].res)
           next == Goto(r, "plan", run[r])
<1>1. pc[r] = "services" /\ UNCHANGED <<cache, procVars, events, missed>>
  BY DEF ReconcilePlaceholderServices, Running
<1>2. run[r] \in Runs /\ run[r].res \in RouteObjects
  BY <1>1 DEF TypeOK, RunsTyped
<1>3. next \/ Fail(r) => Continues(r)
  BY <1>1, <1>2, GotoContinues, FailContinues DEF Stages
<1>4. CASE next /\ UNCHANGED <<apiVars, budget>>
  BY <1>1, <1>3, <1>4, NoWriteKeepsStore, BudgetTyped DEF Progress, TypeOK, procVars
<1>5. ASSUME NEW i \in DOMAIN traffic,
             PutChild(r, ServiceKey(r, traffic[i].tag), desired, next)
      PROVE  Progress(r)
  <2> DEFINE k == ServiceKey(r, traffic[i].tag)
  <2>1. k \in Keys \ RouteKeys
    BY <1>2, <1>5, TagsAssumption, KeyKinds DEF RouteObjects, Statuses
  <2>2. PICK o \in Outcomes :
          \/ UNCHANGED <<apiVars, budget>>
          \/ /\ Outcome(o)
             /\ IF o = "failed" THEN UNCHANGED apiVars ELSE Write(k, desired)
    BY <1>5 DEF PutChild, Outcomes
  <2>3. Continues(r)
    BY <1>3, <1>5 DEF PutChild
  <2>4. StoreInv' /\ budget' \in Budgets
    <3> HIDE DEF k, desired
    <3> QED BY <1>1, <2>1, <2>2, PutChildEffect DEF procVars
  <2> QED BY <1>1, <2>3, <2>4 DEF Progress
<1> QED BY <1>4, <1>5 DEF ReconcilePlaceholderServices

LEMMA CollectHostnamesProgress ==
  ASSUME TypeOK, StoreInv, NEW r \in Routes, CollectHostnames(r)
  PROVE  Progress(r)
<1> DEFINE route == run[r].res
           cfg == run[r].cfg
           todo == {GatewayKey(cfg, r, v) : v \in RouteVisibilities(route)}
           x == [run[r] EXCEPT !.todo = todo]
<1>1. pc[r] = "plan" /\ UNCHANGED <<apiVars, cache, procVars, events, budget, missed>>
  BY DEF CollectHostnames, Running
<1>2. run[r] \in Runs /\ route \in RouteObjects /\ cfg \in Configs
  BY <1>1 DEF TypeOK, RunsTyped
<1>3. todo \subseteq GatewayKeys
  BY <1>2 DEF GatewayKeys, RouteVisibilities, Visibility, Visibilities
<1>4. x \in Runs /\ x.orig = run[r].orig /\ x.cfg = run[r].cfg /\ x.res \in RouteObjects
  <2> HIDE DEF todo
  <2> QED BY <1>2, <1>3 DEF Runs
<1>5. \/ Goto(r, "gateways", run[r])
      \/ Fail(r)
      \/ Goto(r, "gateways", x)
  BY DEF CollectHostnames
<1>6. Continues(r)
  <2> HIDE DEF x
  <2> QED BY <1>1, <1>2, <1>4, <1>5, GotoContinues, FailContinues DEF Stages
<1> QED BY <1>1, <1>6, NoWriteKeepsStore, BudgetTyped DEF Progress, TypeOK, procVars

LEMMA GatewayProgress ==
  ASSUME TypeOK, StoreInv, NEW r \in Routes, NEW g \in GatewayKeys, ReconcileGateway(r, g)
  PROVE  Progress(r)
<1> DEFINE desired == MakeGateway(run[r].cfg, r, run[r].res, g[4])
           skip == [run[r] EXCEPT !.todo = @ \ {g}]
           done == [skip EXCEPT !.refs = Append(@, g)]
<1>1. pc[r] = "gateways" /\ UNCHANGED <<cache, procVars, events, missed>>
  BY DEF ReconcileGateway, Running
<1>2. run[r] \in Runs /\ run[r].res \in RouteObjects
  BY <1>1 DEF TypeOK, RunsTyped
<1>3. /\ skip \in Runs /\ skip.orig = run[r].orig /\ skip.cfg = run[r].cfg
      /\ skip.res \in RouteObjects
  BY <1>2 DEF Runs
<1>4. Append(skip.refs, g) \in Seq(GatewayKeys)
  <2>1. skip.refs \in Seq(GatewayKeys)
    BY <1>3 DEF Runs
  <2> QED BY <2>1, AppendProperties
<1>5. /\ done \in Runs /\ done.orig = run[r].orig /\ done.cfg = run[r].cfg
      /\ done.res \in RouteObjects
  <2> HIDE DEF skip
  <2> QED BY <1>3, <1>4 DEF Runs
<1>6. Goto(r, "gateways", skip) \/ Goto(r, "gateways", done) \/ Fail(r) => Continues(r)
  <2> HIDE DEF skip, done
  <2> QED BY <1>1, <1>3, <1>5, GotoContinues, FailContinues DEF Stages
<1>7. CASE Goto(r, "gateways", skip) /\ UNCHANGED <<apiVars, budget>>
  BY <1>1, <1>6, <1>7, NoWriteKeepsStore, BudgetTyped DEF Progress, TypeOK, procVars
<1>8. CASE PutChild(r, g, desired, Goto(r, "gateways", done))
  <2>1. g \in Keys \ RouteKeys
    BY KeyKinds
  <2>2. PICK o \in Outcomes :
          \/ UNCHANGED <<apiVars, budget>>
          \/ /\ Outcome(o)
             /\ IF o = "failed" THEN UNCHANGED apiVars ELSE Write(g, desired)
    BY <1>8 DEF PutChild, Outcomes
  <2>3. Continues(r)
    <3> HIDE DEF done
    <3> QED BY <1>6, <1>8 DEF PutChild
  <2>4. StoreInv' /\ budget' \in Budgets
    <3> HIDE DEF desired
    <3> QED BY <1>1, <2>1, <2>2, PutChildEffect DEF procVars
  <2> QED BY <1>1, <2>3, <2>4 DEF Progress
<1> QED BY <1>7, <1>8 DEF ReconcileGateway

LEMMA HTTPRouteProgress ==
  ASSUME TypeOK, StoreInv, NEW r \in Routes, ReconcileHTTPRoute(r)
  PROVE  Progress(r)
<1> DEFINE k == HTTPRouteKey(r)
           ready(h) == [run[r] EXCEPT
                          !.refs = << >>,
                          !.res.status = IngressStatus(@, IsHTTPRouteReady(h))]
           stored(d) == [spec |-> d,
                         status |-> IF api[k] = Absent THEN << >> ELSE api[k].status]
<1>1. pc[r] = "gateways" /\ UNCHANGED <<cache, procVars, events, missed>>
  BY DEF ReconcileHTTPRoute, Running
<1>2. run[r] \in Runs /\ run[r].res \in RouteObjects
  BY <1>1 DEF TypeOK, RunsTyped
<1>3. ASSUME NEW h, PropagateReadiness(r, h)
      PROVE  Continues(r)
  <2> DEFINE b == IsHTTPRouteReady(h)
             st == IngressStatus(run[r].res.status, b)
             res == [run[r].res EXCEPT !.status = st]
             x == [run[r] EXCEPT !.refs = << >>, !.res = res]
  <2>1. b \in BOOLEAN
    BY DEF IsHTTPRouteReady
  <2>2. run[r].res.status \in Statuses
    BY <1>2, RouteChanges
  <2>3. st \in Statuses
    <3> HIDE DEF b
    <3> QED BY <2>1, <2>2, StatusChanges
  <2>4. res \in RouteObjects
    <3> HIDE DEF st
    <3> QED BY <1>2, <2>3, RouteChanges
  <2>5. << >> \in Seq(GatewayKeys)
    OBVIOUS
  <2>6. /\ x \in Runs /\ x.orig = run[r].orig /\ x.cfg = run[r].cfg
        /\ x.res \in RouteObjects
    <3> HIDE DEF res
    <3> QED BY <1>2, <2>4, <2>5 DEF Runs
  <2>7. ready(h) = x
    OBVIOUS
  <2>8. Goto(r, "post", x)
    <3> HIDE DEF x
    <3> QED BY <1>3, <2>7 DEF PropagateReadiness
  <2> HIDE DEF x
  <2> QED BY <2>6, <2>8, GotoContinues DEF Stages
<1>4. ASSUME NEW h, PropagateReadiness(r, h), UNCHANGED <<apiVars, budget>>
      PROVE  Progress(r)
  BY <1>1, <1>3, <1>4, NoWriteKeepsStore, BudgetTyped DEF Progress, TypeOK, procVars
<1>5. ASSUME NEW v, PutChild(r, k, v, PropagateReadiness(r, v))
      PROVE  Progress(r)
  <2>1. k \in Keys \ RouteKeys
    BY KeyKinds
  <2>2. PICK o \in Outcomes :
          \/ UNCHANGED <<apiVars, budget>>
          \/ /\ Outcome(o)
             /\ IF o = "failed" THEN UNCHANGED apiVars ELSE Write(k, v)
    BY <1>5 DEF PutChild, Outcomes
  <2>3. Continues(r)
    BY <1>1, <1>3, <1>5, FailContinues DEF PutChild
  <2>4. StoreInv' /\ budget' \in Budgets
    <3> HIDE DEF k
    <3> QED BY <1>1, <2>1, <2>2, PutChildEffect DEF procVars
  <2> QED BY <1>1, <2>3, <2>4 DEF Progress
<1>6. PICK d \in MakeHTTPRoute(run[r].cfg, r, run[r].res, run[r].refs) :
        \/ PropagateReadiness(r, cache[k]) /\ UNCHANGED <<apiVars, budget>>
        \/ PutChild(r, k, stored(d), PropagateReadiness(r, stored(d)))
  BY DEF ReconcileHTTPRoute
<1> HIDE DEF stored
<1> QED BY <1>4, <1>5, <1>6

LEMMA PostProcessProgress ==
  ASSUME TypeOK, StoreInv, NEW r \in Routes, PostProcess(r)
  PROVE  Progress(r)
<1> DEFINE status == [run[r].res.status EXCEPT !.obs = run[r].res.gen]
           res == [run[r].res EXCEPT !.status = status]
           x == [run[r] EXCEPT !.res.status = status]
<1>1. /\ pc[r] = "post"
      /\ UNCHANGED <<apiVars, cache, procVars, events, budget, missed>>
  BY DEF PostProcess, Running
<1>2. run[r] \in Runs /\ run[r].res \in RouteObjects /\ run[r].failed \in BOOLEAN
  BY <1>1 DEF TypeOK, RunsTyped, Runs
<1>3. status \in Statuses
  BY <1>2, RouteChanges, StatusChanges
<1>4. res \in RouteObjects
  <2> HIDE DEF status
  <2> QED BY <1>2, <1>3, RouteChanges
<1>5. x = [run[r] EXCEPT !.res = res]
  OBVIOUS
<1>6. x \in Runs /\ x.orig = run[r].orig /\ x.cfg = run[r].cfg /\ x.res \in RouteObjects
  <2> HIDE DEF x, res
  <2> QED BY <1>2, <1>4, <1>5 DEF Runs
<1>7. Return(r, run[r].failed) \/ Goto(r, "update", x)
  BY DEF PostProcess
<1>8. Continues(r) \/ Finishes(r)
  <2> HIDE DEF x
  <2> QED BY <1>2, <1>6, <1>7, GotoContinues DEF Stages, Finishes
<1> QED BY <1>1, <1>8, NoWriteKeepsStore, BudgetTyped DEF Progress, TypeOK, procVars

LEMMA UpdateStatusProgress ==
  ASSUME TypeOK, StoreInv, NEW r \in Routes, UpdateStatus(r)
  PROVE  Progress(r)
<1> DEFINE k == RouteKey(r)
           v == [api[k] EXCEPT !.status = run[r].res.status]
           x == [run[r] EXCEPT !.attempt = @ + 1]
<1>1. pc[r] = "update" /\ UNCHANGED <<cache, procVars, events, missed>>
  BY DEF UpdateStatus, Running
<1>2. /\ run[r] \in Runs /\ run[r].res \in RouteObjects /\ run[r].failed \in BOOLEAN
      /\ run[r].attempt \in 0 .. MaxAttempts - 1
  BY <1>1 DEF TypeOK, RunsTyped, Runs
<1>3. k \in RouteKeys /\ k \in Keys
  BY KeyKinds
<1>4. CASE Return(r, TRUE) /\ UNCHANGED <<apiVars, budget>>
  BY <1>1, <1>4, NoWriteKeepsStore, BudgetTyped DEF Progress, Finishes, TypeOK, procVars
<1>5. CASE /\ Retries(run[r].attempt)
           /\ Goto(r, "refetch", x)
           /\ UNCHANGED <<apiVars, budget>>
  <2>1. run[r].attempt + 1 \in 0 .. MaxAttempts - 1
    BY <1>2, <1>5, BoundsAssumption DEF Retries
  <2>2. x \in Runs /\ x.orig = run[r].orig /\ x.cfg = run[r].cfg /\ x.res \in RouteObjects
    BY <1>2, <2>1 DEF Runs
  <2>3. Continues(r)
    <3> HIDE DEF x
    <3> QED BY <1>5, <2>2, GotoContinues DEF Stages
  <2> QED BY <1>1, <1>5, <2>3, NoWriteKeepsStore, BudgetTyped DEF Progress, TypeOK, procVars
<1>6. ASSUME api[k] # Absent, NEW o \in Outcomes, Outcome(o),
             IF o = "failed" THEN UNCHANGED apiVars ELSE Write(k, v),
             Return(r, o # "ok" \/ run[r].failed)
      PROVE  Progress(r)
  <2>1. v \in RouteObjects
    <3>1. api[k] \in RouteObjects
      BY <1>3, <1>6 DEF StoreInv, StoreTyped
    <3>2. run[r].res.status \in Statuses
      BY <1>2, RouteChanges
    <3> QED BY <3>1, <3>2, RouteChanges
  <2>2. StoreInv'
    <3> HIDE DEF k, v
    <3> QED BY <1>1, <1>3, <1>6, <2>1, NoWriteKeepsStore, WriteKeepsStore DEF procVars
  <2>3. Finishes(r)
    BY <1>2, <1>6 DEF Finishes
  <2> QED BY <1>1, <1>6, <2>2, <2>3, BudgetTyped DEF Progress, TypeOK
<1> QED BY <1>4, <1>5, <1>6 DEF UpdateStatus

LEMMA RefetchProgress ==
  ASSUME TypeOK, StoreInv, NEW r \in Routes, Refetch(r)
  PROVE  Progress(r)
<1> DEFINE x == [run[r] EXCEPT !.stale = FALSE]
<1>1. pc[r] = "refetch" /\ UNCHANGED <<apiVars, cache, procVars, events, missed>>
  BY DEF Refetch, Running
<1>2. run[r] \in Runs /\ run[r].res \in RouteObjects /\ run[r].failed \in BOOLEAN
  BY <1>1 DEF TypeOK, RunsTyped, Runs
<1>3. x \in Runs /\ x.orig = run[r].orig /\ x.cfg = run[r].cfg /\ x.res \in RouteObjects
  BY <1>2 DEF Runs
<1>4. /\ \/ Return(r, TRUE)
         \/ Return(r, run[r].failed)
         \/ Goto(r, "update", x)
      /\ UNCHANGED budget \/ \E o \in Outcomes : Outcome(o)
  BY DEF Refetch, Outcomes
<1>5. Continues(r) \/ Finishes(r)
  <2> HIDE DEF x
  <2> QED BY <1>2, <1>3, <1>4, GotoContinues DEF Stages, Finishes
<1> QED BY <1>1, <1>4, <1>5, NoWriteKeepsStore, BudgetTyped DEF Progress, TypeOK, procVars

LEMMA DeleteGatewayProgress ==
  ASSUME TypeOK, StoreInv, NEW r \in Routes, NEW g \in GatewayKeys, DeleteGateway(r, g)
  PROVE  Progress(r)
<1> DEFINE x == [run[r] EXCEPT !.todo = @ \ {g}]
<1>1. pc[r] = "delete" /\ UNCHANGED <<cache, procVars, events, missed>>
  BY DEF DeleteGateway, Running
<1>2. run[r] \in Runs /\ run[r].res \in RouteObjects
  BY <1>1 DEF TypeOK, RunsTyped
<1>3. x \in Runs /\ x.orig = run[r].orig /\ x.cfg = run[r].cfg /\ x.res \in RouteObjects
  BY <1>2 DEF Runs
<1>4. PICK o \in Outcomes :
        \/ UNCHANGED <<apiVars, budget>>
        \/ /\ Outcome(o)
           /\ IF o = "failed" THEN UNCHANGED apiVars ELSE Write(g, Absent)
  BY DEF DeleteGateway, Outcomes
<1>5. Return(r, TRUE) \/ Goto(r, "delete", x)
  BY DEF DeleteGateway
<1>6. Continues(r) \/ Finishes(r)
  <2> HIDE DEF x
  <2> QED BY <1>3, <1>5, GotoContinues DEF Stages, Finishes
<1>7. StoreInv' /\ budget' \in Budgets
  BY <1>1, <1>4, KeyKinds, PutChildEffect DEF procVars
<1> QED BY <1>1, <1>6, <1>7 DEF Progress

LEMMA ClearFinalizerProgress ==
  ASSUME TypeOK, StoreInv, NEW r \in Routes, ClearFinalizer(r)
  PROVE  Progress(r)
<1> DEFINE k == RouteKey(r)
<1>1. UNCHANGED <<cache, procVars, events, missed>>
  BY DEF ClearFinalizer
<1>2. k \in RouteKeys /\ k \in Keys
  BY KeyKinds
<1>3. PICK o \in Outcomes :
        \/ UNCHANGED <<apiVars, budget>>
        \/ /\ Outcome(o)
           /\ IF o = "failed" THEN UNCHANGED apiVars ELSE Write(k, Absent)
  BY DEF ClearFinalizer, Outcomes
<1>4. Finishes(r)
  BY DEF ClearFinalizer, Finishes
<1>5. StoreInv'
  <2> HIDE DEF k
  <2> QED BY <1>1, <1>2, <1>3, NoWriteKeepsStore, WriteKeepsStore DEF procVars
<1>6. budget' \in Budgets
  BY <1>3, BudgetTyped DEF TypeOK
<1> QED BY <1>1, <1>4, <1>5, <1>6 DEF Progress

(* Every step of a worker but a panic goes on or returns.                  *)
LEMMA WorkerProgress ==
  ASSUME TypeOK, StoreInv, NEW r \in Routes, Worker(r), ~Panic(r)
  PROVE  Progress(r)
  BY SetFinalizerProgress, ServicesProgress, CollectHostnamesProgress, GatewayProgress,
     HTTPRouteProgress, PostProcessProgress, UpdateStatusProgress, RefetchProgress,
     DeleteGatewayProgress, ClearFinalizerProgress
  DEF Worker

LEMMA WorkerRuns ==
  ASSUME NEW r \in Routes, Worker(r)
  PROVE  proc = "up" /\ pc[r] # "idle"
  BY DEF Worker, Running, SetFinalizer, ReconcilePlaceholderServices, CollectHostnames,
         ReconcileGateway, ReconcileHTTPRoute, PostProcess, UpdateStatus, Refetch,
         DeleteGateway, ClearFinalizer, Panic

-----------------------------------------------------------------------------
LEMMA SingletonSequence ==
  ASSUME NEW S, NEW x \in S
  PROVE  << x >> \in Seq(S) /\ << x >> # << >> /\ << x >>[Len(<< x >>)] = x
<1>1. Len(<< x >>) = 1 /\ << x >>[1] = x
  OBVIOUS
<1>2. << x >> # << >>
  BY <1>1, EmptySeq
<1> QED BY <1>1, <1>2

(* The Routes that the controller starts with are Route objects.           *)
LEMMA NewRoutesTyped == NewRoutes \subseteq RouteObjects
<1>1. NewStatus \in Statuses
  BY DEF NewStatus, Statuses
<1> SUFFICES ASSUME NEW n \in NewRoutes PROVE n \in RouteObjects
  OBVIOUS
<1> HIDE DEF NewStatus
<1>2. n = [labels |-> n.labels, enabled |-> n.enabled, spec |-> n.spec,
           gen |-> n.gen, deleting |-> n.deleting, fin |-> n.fin,
           status |-> n.status]
  BY DEF NewRoutes
<1>3. n.labels \in LabelChoices /\ n.enabled \in BOOLEAN /\ n.spec \in Traffics
  BY DEF NewRoutes
<1>4. n.gen \in Nat
  BY DEF NewRoutes
<1>5. n.deleting \in BOOLEAN /\ n.fin \in BOOLEAN
  BY DEF NewRoutes
<1>6. n.status \in Statuses
  BY <1>1 DEF NewRoutes
<1> QED BY <1>2, <1>3, <1>4, <1>5, <1>6 DEF RouteObjects

(* The inductive invariant holds initially.                                *)
LEMMA InitInv == Init => IInv
<1> SUFFICES ASSUME Init PROVE IInv
  OBVIOUS
<1>1. PICK c \in Configs, o \in [Routes -> NewRoutes] :
        /\ api = [k \in Keys |-> IF k \in RouteKeys THEN o[k[2]] ELSE Absent]
        /\ cache = [k \in Keys |-> Absent]
        /\ feed = [k \in Keys |-> IF k \in RouteKeys THEN << o[k[2]] >> ELSE << >>]
        /\ config = c
        /\ proc = "up"
        /\ events = {}
        /\ queue = {}
        /\ pc = [r \in Routes |-> "idle"]
        /\ run = [r \in Routes |-> NoRun]
        /\ budget = [edits |-> MaxEdits, faults |-> MaxFaults, resyncs |-> MaxResyncs]
        /\ seen = [r \in Routes |-> <<Absent, c>>]
        /\ missed = [r \in Routes |-> {}]
  BY DEF Init
<1>2. ASSUME NEW k \in RouteKeys
      PROVE  /\ k \in Keys
             /\ o[k[2]] \in RouteObjects
             /\ api[k] = o[k[2]]
             /\ feed[k] = << o[k[2]] >>
             /\ cache[k] = Absent
             /\ feed[k] \in Seq(RouteObjects \cup {Absent})
             /\ feed[k] # << >> /\ feed[k][Len(feed[k])] = api[k]
  <2>1. k \in Keys
    BY KeyKinds
  <2>2. k[2] \in Routes
    BY DEF RouteKeys, RouteKey
  <2>3. o[k[2]] \in NewRoutes
    BY <2>2
  <2> DEFINE S == RouteObjects \cup {Absent}
             x == o[k[2]]
  <2>6. x \in S /\ x \in RouteObjects
    BY <2>3, NewRoutesTyped
  <2>7. api[k] = x /\ feed[k] = << x >> /\ cache[k] = Absent
    BY <1>1, <2>1
  <2>8. << x >> \in Seq(S) /\ << x >> # << >> /\ << x >>[Len(<< x >>)] = x
    <3> HIDE DEF S, x
    <3> QED BY <2>6, SingletonSequence
  <2> HIDE DEF x
  <2> QED BY <2>1, <2>6, <2>7, <2>8 DEF x
<1>3. StoreTyped
  BY <1>1, <1>2 DEF StoreTyped
<1>4. WatchInv
  BY <1>1, <1>2 DEF WatchInv
<1>5. RunsTyped
  <2>1. NoRun \in Runs
    <3>1. << >> \in Seq(GatewayKeys)
      OBVIOUS
    <3> QED BY <3>1, BoundsAssumption DEF NoRun, Runs
  <2> QED BY <1>1, <2>1 DEF RunsTyped, Stages
<1>6. budget \in Budgets
  BY <1>1, BoundsAssumption DEF Budgets
<1>7. RunInv
  BY <1>1 DEF RunInv
<1>8. NoLostWakeup
  BY <1>1, <1>2, KeyKinds DEF NoLostWakeup
<1>9. TypeOK
  BY <1>1, <1>3, <1>5, <1>6 DEF TypeOK
<1> QED BY <1>4, <1>7, <1>8, <1>9 DEF IInv

(* A run that goes on keeps what it works on, and one that returns has     *)
(* either seen the current version or leaves the key in the queue.         *)
LEMMA ProgressKeepsInv ==
  ASSUME IInv, NEW r \in Routes, Progress(r), proc = "up", pc[r] # "idle"
  PROVE  IInv'
<1> USE DEF IInv
<1>1. UNCHANGED <<cache, config, proc, events, missed>>
  BY DEF Progress, procVars
<1>2. StoreInv' /\ budget' \in Budgets
  BY DEF Progress
<1>3. CASE Continues(r)
  <2>1. PICK stage \in Stages \ {"idle"}, x \in Runs :
          /\ pc' = [pc EXCEPT ![r] = stage]
          /\ run' = [run EXCEPT ![r] = x]
          /\ x.orig = run[r].orig /\ x.cfg = run[r].cfg /\ x.res \in RouteObjects
    BY <1>3 DEF Continues
  <2>2. UNCHANGED <<queue, seen>>
    BY <1>3 DEF Continues
  <2>3. RunsTyped'
    BY <2>1 DEF RunsTyped, TypeOK
  <2>4. /\ pc'[r] # "idle" /\ run'[r].orig = run[r].orig /\ run'[r].cfg = run[r].cfg
        /\ \A q \in Routes \ {r} : pc'[q] = pc[q] /\ run'[q] = run[q]
    BY <2>1 DEF TypeOK, RunsTyped
  <2>5. RunInv'
    BY <1>1, <2>2, <2>4 DEF RunInv
  <2>6. NoLostWakeup'
    BY <1>1, <2>2, <2>4 DEF NoLostWakeup, Idle
  <2> QED BY <1>1, <1>2, <2>2, <2>3, <2>5, <2>6 DEF TypeOK, StoreInv
<1>4. CASE Finishes(r)
  <2>1. PICK err \in BOOLEAN : Return(r, err)
    BY <1>4 DEF Finishes
  <2>2. RunsTyped'
    <3>1. NoRun \in Runs
      <4>1. << >> \in Seq(GatewayKeys)
        OBVIOUS
      <4> QED BY <4>1, BoundsAssumption DEF NoRun, Runs
    <3> QED BY <2>1, <3>1 DEF RunsTyped, TypeOK, Return, Stages
  <2>3. /\ pc'[r] = "idle"
        /\ \A q \in Routes \ {r} : pc'[q] = pc[q] /\ run'[q] = run[q] /\ seen'[q] = seen[q]
        /\ queue \subseteq queue' /\ queue' \subseteq queue \cup {r}
        /\ err => r \in queue'
        /\ ~err => seen'[r] = <<run[r].orig, run[r].cfg>>
        /\ DOMAIN seen' = Routes
    BY <2>1 DEF Return, TypeOK, RunsTyped
  <2>4. RunInv'
    BY <1>1, <2>3 DEF RunInv
  <2>5. NoLostWakeup'
    <3> SUFFICES ASSUME NEW q \in Routes, Idle(q)', cache'[RouteKey(q)] # Absent
                 PROVE  seen'[q] = <<cache'[RouteKey(q)], config'>>
      BY DEF NoLostWakeup
    <3>1. CASE q # r
      BY <1>1, <2>3, <3>1 DEF NoLostWakeup, Idle
    <3>2. CASE q = r
      BY <1>1, <2>3, <3>2 DEF RunInv, Idle
    <3> QED BY <3>1, <3>2
  <2> QED BY <1>1, <1>2, <2>2, <2>3, <2>4, <2>5 DEF TypeOK, StoreInv
<1> QED BY <1>3, <1>4 DEF Progress

LEMMA StartKeepsInv ==
  ASSUME IInv, NEW r \in Routes, Start(r)
  PROVE  IInv'
<1> USE DEF IInv
<1> DEFINE original == cache[RouteKey(r)]
           begin == [NoRun EXCEPT !.orig = original, !.res = original,
                       !.cfg = config, !.stale = Outdated(RouteKey(r))]
           listed == ListGateways(r, cache)
<1>1. /\ proc = "up" /\ pc[r] = "idle"
      /\ queue' = queue \ {r}
      /\ UNCHANGED <<api, cache, feed, config, proc, events, budget>>
  BY DEF Start, Running, procVars
<1>2. NoRun \in Runs
  <2>1. << >> \in Seq(GatewayKeys)
    OBVIOUS
  <2> QED BY <2>1, BoundsAssumption DEF NoRun, Runs
<1>3. original \in RouteObjects \cup {Absent}
  BY KeyKinds DEF TypeOK, StoreTyped
<1>4. listed \subseteq GatewayKeys /\ ListGateways(r, api) \subseteq GatewayKeys
  BY DEF ListGateways
<1>5. Outdated(RouteKey(r)) \in BOOLEAN
  BY DEF Outdated
<1>6. /\ begin \in Runs /\ begin.orig = original /\ begin.res = original
      /\ begin.cfg = config
  <2> HIDE DEF original
  <2> QED BY <1>2, <1>3, <1>5 DEF Runs, TypeOK
<1>7. LET x == [begin EXCEPT !.todo = listed]
      IN  x \in Runs /\ x.orig = original /\ x.res = original /\ x.cfg = config
  <2> HIDE DEF begin, listed, original
  <2> QED BY <1>4, <1>6 DEF Runs
<1>8. StoreTyped' /\ WatchInv'
  BY <1>1 DEF TypeOK, StoreTyped, WatchInv
<1>9. CASE original = Absent
  <2>1. UNCHANGED <<pc, run, missed>> /\ seen' = [seen EXCEPT ![r] = <<Absent, config>>]
    BY <1>9 DEF Start
  <2>2. RunsTyped'
    BY <2>1 DEF RunsTyped, TypeOK
  <2>3. RunInv'
    BY <1>1, <2>1 DEF RunInv
  <2>4. NoLostWakeup'
    BY <1>1, <1>9, <2>1 DEF NoLostWakeup, Idle, TypeOK
  <2> QED BY <1>1, <1>8, <2>1, <2>2, <2>3, <2>4 DEF TypeOK
<1>10. CASE original # Absent
  <2>1. PICK stage \in {"finalizer", "delete"}, x \in Runs :
          /\ pc' = [pc EXCEPT ![r] = stage]
          /\ run' = [run EXCEPT ![r] = x]
          /\ x.orig = original /\ x.res = original /\ x.cfg = config
    <3> HIDE DEF original, begin, listed
    <3>1. \/ pc' = [pc EXCEPT ![r] = "finalizer"] /\ run' = [run EXCEPT ![r] = begin]
          \/ /\ pc' = [pc EXCEPT ![r] = "delete"]
             /\ run' = [run EXCEPT ![r] = [begin EXCEPT !.todo = listed]]
      BY <1>10 DEF Start, original, begin, listed
    <3> QED BY <1>6, <1>7, <3>1
  <2>2. UNCHANGED seen /\ missed' \in [Routes -> SUBSET GatewayKeys]
    <3> HIDE DEF listed
    <3>1. \/ UNCHANGED <<seen, missed>>
          \/ UNCHANGED seen /\ missed' = [missed EXCEPT ![r] = ListGateways(r, api) \ listed]
      BY <1>10 DEF Start, listed, histVars
    <3> QED BY <1>4, <3>1 DEF TypeOK
  <2>3. original \in RouteObjects /\ config \in Configs
    BY <1>3, <1>10 DEF TypeOK
  <2> HIDE DEF original
  <2>4. RunsTyped'
    BY <2>1, <2>3 DEF RunsTyped, TypeOK, Stages
  <2>5. /\ pc'[r] # "idle" /\ run'[r].orig = original /\ run'[r].cfg = config
        /\ \A q \in Routes \ {r} : pc'[q] = pc[q] /\ run'[q] = run[q]
    BY <2>1 DEF RunsTyped, TypeOK
  <2>6. RunInv'
    BY <1>1, <1>10, <2>5 DEF RunInv, original
  <2>7. NoLostWakeup'
    BY <1>1, <2>2, <2>5 DEF NoLostWakeup, Idle
  <2> QED BY <1>1, <1>8, <2>2, <2>4, <2>6, <2>7 DEF TypeOK
<1> QED BY <1>9, <1>10

-----------------------------------------------------------------------------
LEMMA NoRunTyped == NoRun \in Runs
<1>1. << >> \in Seq(GatewayKeys)
  OBVIOUS
<1> QED BY <1>1, BoundsAssumption DEF NoRun, Runs

(* A delivery moves the oldest version into the lister; its Route is then  *)
(* about to be enqueued.                                                   *)
LEMMA DeliverKeepsInv ==
  ASSUME IInv, NEW k \in Keys, Deliver(k)
  PROVE  IInv'
<1> USE DEF IInv
<1> DEFINE S == RouteObjects \cup {Absent}
<1>1. /\ proc = "up" /\ feed[k] # << >>
      /\ cache' = [cache EXCEPT ![k] = Head(feed[k])]
      /\ feed' = [feed EXCEPT ![k] = Tail(@)]
      /\ events' = events \cup {r \in Routes : k \in NotifyingKeys(r)}
      /\ UNCHANGED <<api, config, proc, queue, pc, run, budget, seen, missed>>
  BY DEF Deliver, procVars, histVars
<1>2. DOMAIN api' = Keys /\ DOMAIN cache' = Keys /\ DOMAIN feed' = Keys
  BY <1>1 DEF TypeOK, StoreTyped
<1>3. ASSUME NEW j \in RouteKeys, j # k
      PROVE  cache'[j] = cache[j] /\ feed'[j] = feed[j]
  BY <1>1, <1>3, KeyKinds DEF TypeOK, StoreTyped
<1>4. ASSUME k \in RouteKeys
      PROVE  /\ cache'[k] \in S
             /\ feed'[k] \in Seq(S)
             /\ IF feed'[k] = << >> THEN cache'[k] = api[k]
                                    ELSE feed'[k][Len(feed'[k])] = api[k]
  <2> DEFINE s == feed[k]
  <2>1. s \in Seq(S) /\ s # << >> /\ s[Len(s)] = api[k]
    BY <1>1, <1>4 DEF TypeOK, StoreTyped, WatchInv
  <2>2. cache'[k] = Head(s) /\ feed'[k] = Tail(s)
    BY <1>1 DEF TypeOK, StoreTyped
  <2> HIDE DEF S, s
  <2>3. /\ Head(s) \in S /\ Tail(s) \in Seq(S) /\ Len(Tail(s)) = Len(s) - 1
        /\ \A i \in 1 .. Len(Tail(s)) : Tail(s)[i] = s[i + 1]
    BY <2>1, HeadTailProperties
  <2>4. Len(s) \in Nat \ {0} /\ Head(s) = s[1]
    BY <2>1, EmptySeq
  <2>5. CASE Tail(s) = << >>
    <3>1. Len(s) = 1
      BY <2>3, <2>4, <2>5, EmptySeq
    <3> QED BY <2>1, <2>2, <2>3, <2>4, <2>5, <3>1
  <2>6. CASE Tail(s) # << >>
    <3>1. Len(Tail(s)) \in Nat \ {0}
      BY <2>3, <2>6, EmptySeq
    <3>2. Tail(s)[Len(Tail(s))] = s[Len(s)]
      BY <2>3, <2>4, <3>1
    <3> QED BY <2>1, <2>2, <2>3, <2>6, <3>2
  <2> QED BY <2>5, <2>6
<1>5. StoreTyped'
  BY <1>1, <1>2, <1>3, <1>4 DEF TypeOK, StoreTyped
<1>6. WatchInv'
  BY <1>1, <1>3, <1>4 DEF WatchInv
<1>7. events \subseteq events' /\ events' \subseteq Routes
  BY <1>1 DEF TypeOK
<1>8. ASSUME NEW r \in Routes
      PROVE  r \in events' \/ cache'[RouteKey(r)] = cache[RouteKey(r)]
  <2>1. CASE k = RouteKey(r)
    BY <1>1, <2>1 DEF NotifyingKeys
  <2>2. CASE k # RouteKey(r)
    BY <1>3, <2>2, KeyKinds
  <2> QED BY <2>1, <2>2
<1>9. RunInv'
  BY <1>1, <1>7, <1>8 DEF RunInv
<1>10. NoLostWakeup'
  BY <1>1, <1>7, <1>8 DEF NoLostWakeup, Idle
<1>11. TypeOK'
  BY <1>1, <1>5, <1>7 DEF TypeOK, RunsTyped
<1> QED BY <1>6, <1>9, <1>10, <1>11

(* Callbacks only move Routes between events and queue, or add to events.  *)
LEMMA CallbackKeepsInv ==
  ASSUME IInv, proc = "up",
         events' \subseteq Routes, queue' \subseteq Routes,
         queue \cup events \subseteq queue' \cup events',
         budget' \in Budgets, config' \in Configs,
         config' = config \/ CachedRoutes \subseteq events',
         UNCHANGED <<api, cache, feed, proc, pc, run, seen, missed>>
  PROVE  IInv'
<1> USE DEF IInv
<1>1. StoreTyped' /\ WatchInv'
  BY DEF TypeOK, StoreTyped, WatchInv
<1>2. TypeOK'
  BY <1>1 DEF TypeOK, RunsTyped
<1>3. RunInv'
  BY DEF RunInv, CachedRoutes
<1>4. NoLostWakeup'
  BY DEF NoLostWakeup, Idle, CachedRoutes
<1> QED BY <1>1, <1>2, <1>3, <1>4

LEMMA EnqueueKeepsInv ==
  ASSUME IInv, NEW r \in Routes, Enqueue(r)
  PROVE  IInv'
<1>1. /\ proc = "up" /\ events' = events \ {r} /\ queue' = queue \cup {r}
      /\ UNCHANGED <<api, cache, feed, config, proc, pc, run, budget, seen, missed>>
  BY DEF Enqueue, apiVars, procVars, histVars
<1> QED BY <1>1, CallbackKeepsInv DEF IInv, TypeOK

LEMMA ResyncKeepsInv ==
  ASSUME IInv, Resync
  PROVE  IInv'
<1>1. /\ proc = "up" /\ events' = events \cup CachedRoutes
      /\ UNCHANGED <<api, cache, feed, config, proc, queue, pc, run, seen, missed>>
  BY DEF Resync, apiVars, procVars, histVars
<1>2. budget' \in Budgets
  BY BoundsAssumption DEF Resync, IInv, TypeOK, Budgets
<1>3. CachedRoutes \subseteq Routes
  BY DEF CachedRoutes
<1> QED BY <1>1, <1>2, <1>3, CallbackKeepsInv DEF IInv, TypeOK

(* A process that is down has nothing to keep but the stores.              *)
LEMMA DownKeepsInv ==
  ASSUME IInv, proc # "up", proc' = proc,
         config' \in Configs, budget' \in Budgets,
         events' = events, StoreTyped', WatchInv',
         UNCHANGED <<queue, pc, run, seen, missed>>
  PROVE  IInv'
<1> USE DEF IInv
<1>1. TypeOK'
  BY DEF TypeOK, RunsTyped
<1>2. RunInv' /\ NoLostWakeup'
  BY DEF RunInv, NoLostWakeup, Idle
<1> QED BY <1>1, <1>2

LEMMA ConfigChangeKeepsInv ==
  ASSUME IInv, NEW c \in Configs, ConfigChange(c)
  PROVE  IInv'
<1>1. /\ config' = c
      /\ events' = events \cup (IF proc = "up" THEN CachedRoutes ELSE {})
      /\ UNCHANGED <<api, cache, feed, proc, queue, pc, run, seen, missed>>
  BY DEF ConfigChange, apiVars, histVars
<1>2. budget' \in Budgets
  BY BudgetTyped DEF ConfigChange, IInv, TypeOK
<1>3. CachedRoutes \subseteq Routes
  BY DEF CachedRoutes
<1>4. CASE proc = "up"
  BY <1>1, <1>2, <1>3, <1>4, CallbackKeepsInv DEF IInv, TypeOK
<1>5. CASE proc # "up"
  <2>1. StoreTyped' /\ WatchInv'
    BY <1>1 DEF IInv, TypeOK, StoreTyped, WatchInv
  <2>2. events' = events
    BY <1>1, <1>5
  <2> QED BY <1>1, <1>2, <1>5, <2>1, <2>2, DownKeepsInv
<1> QED BY <1>4, <1>5

(* A process that stops forgets everything but the API server's objects.   *)
LEMMA StopKeepsInv ==
  ASSUME IInv, NEW how \in {"crashed", "panicked"}, Stop(how), budget' \in Budgets
  PROVE  IInv'
<1> USE DEF IInv
<1>1. /\ proc' = how /\ events' = {} /\ queue' = {}
      /\ cache' = [k \in Keys |-> Absent] /\ feed' = [k \in Keys |-> << >>]
      /\ pc' = [r \in Routes |-> "idle"] /\ run' = [r \in Routes |-> NoRun]
      /\ UNCHANGED <<api, config, seen, missed>>
  BY DEF Stop, histVars
<1>2. StoreTyped'
  <2>1. << >> \in Seq(RouteObjects \cup {Absent})
    OBVIOUS
  <2> QED BY <1>1, <2>1, KeyKinds DEF TypeOK, StoreTyped
<1>3. WatchInv'
  BY <1>1, KeyKinds DEF WatchInv
<1>4. RunsTyped'
  BY <1>1, NoRunTyped DEF RunsTyped, Stages
<1>5. TypeOK'
  BY <1>1, <1>2, <1>4 DEF TypeOK
<1>6. RunInv' /\ NoLostWakeup'
  BY <1>1 DEF RunInv, NoLostWakeup, Idle
<1> QED BY <1>3, <1>5, <1>6

LEMMA CrashKeepsInv ==
  ASSUME IInv, Crash
  PROVE  IInv'
<1>1. Stop("crashed")
  BY DEF Crash
<1>2. budget' \in Budgets
  BY BoundsAssumption DEF Crash, IInv, TypeOK, Budgets
<1> QED BY <1>1, <1>2, StopKeepsInv

LEMMA PanicKeepsInv ==
  ASSUME IInv, NEW r \in Routes, Panic(r)
  PROVE  IInv'
<1>1. Stop("panicked")
  BY DEF Panic
<1>2. budget' \in Budgets
  BY BudgetTyped DEF Panic, IInv, TypeOK
<1> QED BY <1>1, <1>2, StopKeepsInv

(* The first listing of a new process raises an event for every Route.     *)
LEMMA RestartKeepsInv ==
  ASSUME IInv, Restart
  PROVE  IInv'
<1> USE DEF IInv
<1>1. /\ proc # "up" /\ proc' = "up" /\ cache' = api
      /\ events' = {r \in Routes : \E k \in NotifyingKeys(r) : api[k] # Absent}
      /\ UNCHANGED <<api, feed, config, queue, pc, run, budget, seen, missed>>
  BY DEF Restart, apiVars, histVars
<1>2. StoreTyped' /\ WatchInv'
  BY <1>1 DEF TypeOK, StoreTyped, WatchInv
<1>3. TypeOK'
  BY <1>1, <1>2 DEF TypeOK, RunsTyped
<1>4. RunInv'
  BY <1>1 DEF RunInv
<1>5. \A r \in Routes : cache'[RouteKey(r)] # Absent => r \in events'
  BY <1>1 DEF NotifyingKeys
<1>6. NoLostWakeup'
  BY <1>5 DEF NoLostWakeup, Idle
<1> QED BY <1>2, <1>3, <1>4, <1>6

-----------------------------------------------------------------------------
(* What the other actors do reaches the controller through its watches and *)
(* through the resourceVersions it holds, and in no other way.             *)
LEMMA OthersKeepInv ==
  ASSUME IInv, NEW r \in Routes, StoreInv', budget' \in Budgets,
         UNCHANGED envUnchanged,
         UNCHANGED run \/ run' = [run EXCEPT ![r].stale = TRUE]
  PROVE  IInv'
<1> USE DEF IInv
<1>1. UNCHANGED <<cache, config, proc, events, queue, pc, seen, missed>>
  BY DEF envUnchanged, procVars, histVars
<1>2. \A q \in Routes : /\ run'[q] \in Runs
                        /\ run'[q].orig = run[q].orig
                        /\ run'[q].res = run[q].res
                        /\ run'[q].cfg = run[q].cfg
  <2>1. CASE UNCHANGED run
    BY <2>1 DEF TypeOK, RunsTyped
  <2>2. CASE run' = [run EXCEPT ![r].stale = TRUE]
    <3>1. run \in [Routes -> Runs]
      BY DEF TypeOK, RunsTyped
    <3>2. ASSUME NEW x \in Runs
          PROVE  LET y == [x EXCEPT !.stale = TRUE]
                 IN  y \in Runs /\ y.orig = x.orig /\ y.res = x.res /\ y.cfg = x.cfg
      BY DEF Runs
    <3> QED BY <2>2, <3>1, <3>2
  <2> QED BY <2>1, <2>2
<1>3. run' \in [Routes -> Runs]
  BY <1>2 DEF TypeOK, RunsTyped
<1>4. RunsTyped'
  BY <1>1, <1>2, <1>3 DEF TypeOK, RunsTyped
<1>5. TypeOK' /\ WatchInv'
  BY <1>1, <1>4 DEF TypeOK, StoreInv
<1>6. RunInv'
  BY <1>1, <1>2 DEF RunInv
<1>7. NoLostWakeup'
  BY <1>1 DEF NoLostWakeup, Idle
<1> QED BY <1>5, <1>6, <1>7

LEMMA WriteRouteKeepsInv ==
  ASSUME IInv, NEW r \in Routes, NEW v \in RouteObjects \cup {Absent},
         WriteRoute(r, v), budget' \in Budgets, UNCHANGED envUnchanged
  PROVE  IInv'
<1>1. RouteKey(r) \in Keys /\ Write(RouteKey(r), v) /\ UNCHANGED <<cache, proc>>
  BY KeyKinds DEF WriteRoute, envUnchanged, procVars
<1>2. StoreInv'
  BY <1>1, WriteKeepsStore DEF IInv, TypeOK, StoreInv
<1> QED BY <1>2, OthersKeepInv DEF WriteRoute

LEMMA WriteChildKeepsInv ==
  ASSUME IInv, NEW r \in Routes, NEW k \in Keys \ RouteKeys, NEW v,
         Write(k, v), budget' \in Budgets, UNCHANGED <<envUnchanged, run>>
  PROVE  IInv'
<1>1. k \in Keys /\ k \notin RouteKeys /\ UNCHANGED <<cache, proc>>
  BY DEF envUnchanged, procVars
<1>2. StoreInv'
  BY <1>1, WriteKeepsStore DEF IInv, TypeOK, StoreInv
<1> QED BY <1>2, OthersKeepInv

LEMMA EditRouteKeepsInv ==
  ASSUME IInv, NEW r \in Routes, EditRoute(r)
  PROVE  IInv'
<1> DEFINE route == api[RouteKey(r)]
<1>1. route \in RouteObjects
  BY KeyKinds DEF EditRoute, IInv, TypeOK, StoreTyped
<1>2. budget' \in Budgets /\ UNCHANGED envUnchanged
  BY BudgetTyped DEF EditRoute, IInv, TypeOK
<1>3. PICK v \in RouteObjects : WriteRoute(r, v)
  BY <1>1, RouteChanges DEF EditRoute
<1> QED BY <1>2, <1>3, WriteRouteKeepsInv

LEMMA DeleteRouteKeepsInv ==
  ASSUME IInv, NEW r \in Routes, DeleteRoute(r)
  PROVE  IInv'
<1> DEFINE route == api[RouteKey(r)]
<1>1. route \in RouteObjects
  BY KeyKinds DEF DeleteRoute, IInv, TypeOK, StoreTyped
<1>2. budget' \in Budgets /\ UNCHANGED envUnchanged
  BY BudgetTyped DEF DeleteRoute, IInv, TypeOK
<1>3. PICK v \in RouteObjects \cup {Absent} : WriteRoute(r, v)
  BY <1>1, RouteChanges DEF DeleteRoute
<1> QED BY <1>2, <1>3, WriteRouteKeepsInv

LEMMA ServingSyncKeepsInv ==
  ASSUME IInv, NEW r \in Routes, ServingSync(r)
  PROVE  IInv'
<1> DEFINE route == api[RouteKey(r)]
           status == [traffic |-> route.spec, obs |-> route.gen,
                      ingress |-> route.status.ingress,
                      ready |-> route.status.ingress]
           v == [route EXCEPT !.status = status]
<1>1. route \in RouteObjects
  BY KeyKinds DEF ServingSync, IInv, TypeOK, StoreTyped
<1>2. budget' \in Budgets /\ UNCHANGED envUnchanged /\ WriteRoute(r, v)
  BY BudgetTyped DEF ServingSync, IInv, TypeOK
<1>3. route.status.ingress \in BOOLEAN /\ route.spec \in Traffics /\ route.gen \in Nat
  BY <1>1 DEF RouteObjects, Statuses
<1>4. status \in Statuses
  BY <1>3 DEF Statuses
<1>5. v \in RouteObjects
  <2> HIDE DEF status
  <2> QED BY <1>1, <1>4, RouteChanges
<1> HIDE DEF v
<1> QED BY <1>2, <1>5, WriteRouteKeepsInv

(* The writes to the HTTPRoute's status and the garbage collector's.       *)
LEMMA ChildrenKeepInv ==
  ASSUME IInv, NEW r \in Routes,
         \/ \E g \in GatewayKeys : Admit(r, g) \/ Reject(r, g)
         \/ Prune(r)
         \/ \E k \in Keys : CollectGarbage(r, k)
  PROVE  IInv'
<1>1. budget' \in Budgets
  BY BudgetTyped DEF IInv, TypeOK, Admit, Reject, Prune, CollectGarbage
<1>2. ASSUME NEW status, WriteGatewayStatus(r, status)
      PROVE  IInv'
  <2>1. HTTPRouteKey(r) \in Keys \ RouteKeys
    BY KeyKinds
  <2> QED BY <1>1, <1>2, <2>1, WriteChildKeepsInv DEF WriteGatewayStatus
<1>3. CASE \/ \E g \in GatewayKeys : Admit(r, g) \/ Reject(r, g)
           \/ Prune(r)
  BY <1>2, <1>3 DEF Admit, Reject, Prune
<1>4. ASSUME NEW k \in Keys, CollectGarbage(r, k)
      PROVE  IInv'
  <2>1. k \in Keys \ RouteKeys
    BY <1>4, KeyKinds DEF CollectGarbage, OwnedKeys
  <2>2. Write(k, Absent) /\ UNCHANGED <<envUnchanged, run>>
    BY <1>4 DEF CollectGarbage
  <2> QED BY <1>1, <2>1, <2>2, WriteChildKeepsInv
<1> QED BY <1>3, <1>4

LEMMA OthersStepKeepsInv ==
  ASSUME IInv, NEW r \in Routes, Others(r)
  PROVE  IInv'
  BY EditRouteKeepsInv, DeleteRouteKeepsInv, ServingSyncKeepsInv, ChildrenKeepInv
  DEF Others

LEMMA WorkerKeepsInv ==
  ASSUME IInv, NEW r \in Routes, Worker(r)
  PROVE  IInv'
<1>1. CASE Panic(r)
  BY <1>1, PanicKeepsInv
<1>2. CASE ~Panic(r)
  <2>1. TypeOK /\ StoreInv
    BY DEF IInv, TypeOK, StoreInv
  <2> QED BY <1>2, <2>1, WorkerProgress, WorkerRuns, ProgressKeepsInv
<1> QED BY <1>1, <1>2

LEMMA ProcessKeepsInv ==
  ASSUME IInv, Process
  PROVE  IInv'
  BY DeliverKeepsInv, EnqueueKeepsInv, ResyncKeepsInv, ConfigChangeKeepsInv,
     CrashKeepsInv, RestartKeepsInv
  DEF Process

LEMMA StutterKeepsInv ==
  ASSUME IInv, UNCHANGED vars
  PROVE  IInv'
<1> USE DEF IInv, vars
<1>1. TypeOK'
  BY DEF TypeOK, StoreTyped, RunsTyped
<1>2. WatchInv' /\ RunInv' /\ NoLostWakeup'
  BY DEF WatchInv, RunInv, NoLostWakeup, Idle
<1> QED BY <1>1, <1>2

(* The invariant is inductive.                                             *)
LEMMA NextKeepsInv == IInv /\ [Next]_vars => IInv'
<1> SUFFICES ASSUME IInv, [Next]_vars PROVE IInv'
  OBVIOUS
<1>1. ASSUME NEW r \in Routes, Start(r) \/ Worker(r) \/ Others(r)
      PROVE  IInv'
  BY <1>1, StartKeepsInv, WorkerKeepsInv, OthersStepKeepsInv
<1>2. CASE Process
  BY <1>2, ProcessKeepsInv
<1>3. CASE UNCHANGED vars
  BY <1>3, StutterKeepsInv
<1> QED BY <1>1, <1>2, <1>3 DEF Next

(* In every behaviour, whatever the sets of Routes, tags, traffic blocks   *)
(* and configurations and whatever the bounds: the informer caches and the *)
(* API server hold Routes, and a run under way holds one together with the *)
(* configuration it froze.                                                 *)
THEOREM TypeCorrect == Spec => []TypeOK
<1>1. IInv => TypeOK
  BY DEF IInv
<1> QED BY InitInv, NextKeepsInv, <1>1, PTL DEF Spec

(* No interleaving of watches, informer callbacks, config callbacks,       *)
(* workers, retries, crashes and restarts leaves a Route unprocessed that  *)
(* the lister shows in a version, or the store in a configuration, that no *)
(* run has completed without error.                                        *)
THEOREM WakeupsNotLost == Spec => []NoLostWakeup
<1>1. IInv => NoLostWakeup
  BY DEF IInv
<1> QED BY InitInv, NextKeepsInv, <1>1, PTL DEF Spec

-----------------------------------------------------------------------------
(* What an earlier version v of a Route tells of the stored object now: a  *)
(* deletion stands, and a finalizer stays until the end.                   *)
Behind(v, now) ==
  v # Absent => /\ v.deleting => v.fin
                /\ v.deleting => now = Absent \/ now.deleting
                /\ v.fin => now = Absent \/ now.fin

(* The lister and the watch show earlier versions of the stored object.    *)
VersionsInv(r) ==
  LET k == RouteKey(r)
  IN  /\ Behind(api[k], api[k])
      /\ Behind(cache[k], api[k])
      /\ \A i \in DOMAIN feed[k] : Behind(feed[k][i], api[k])

Unheld(v) == v = Absent \/ ~v.fin

(* Of a Route that is gone no version with a finalizer is left to come,    *)
(* and the lister shows one only together with the deletion.               *)
GoneInv(r) ==
  LET k == RouteKey(r)
  IN  api[k] = Absent => /\ \A i \in DOMAIN feed[k] : Unheld(feed[k][i])
                         /\ Unheld(cache[k]) \/ cache[k].deleting

(* A run that makes children has a Route that is held; one that deletes    *)
(* Gateways has one whose deletion was asked for.                          *)
StageInv(r) ==
  LET k == RouteKey(r)
  IN  /\ pc[r] = "finalizer" /\ api[k] = Absent => Unheld(cache[k])
      /\ pc[r] \in {"services", "plan", "gateways"} => ~Unheld(api[k])
      /\ pc[r] = "delete" => api[k] = Absent \/ api[k].deleting

(* Gateways of a Route: none before the finalizer, and during and after a  *)
(* finalization only those it is about to delete or did not see.           *)
GatewaysInv(r) ==
  LET k == RouteKey(r)
      left == ListGateways(r, api)
  IN  /\ api[k] # Absent /\ ~api[k].fin => left = {}
      /\ api[k] = Absent => left \subseteq missed[r]
      /\ pc[r] = "delete" => left \subseteq missed[r] \cup run[r].todo

(* A status that goes out with the resourceVersion of the lister's copy    *)
(* has the traffic of the stored object.                                   *)
TrafficInv(r) ==
  /\ pc[r] = "refetch" => run[r].attempt # 0
  /\ pc[r] # "idle" /\ ~run[r].stale /\ run[r].attempt = 0
       => /\ api[RouteKey(r)] # Absent
          /\ run[r].res.status.traffic = api[RouteKey(r)].status.traffic

RouteInv(r) ==
  /\ VersionsInv(r)
  /\ GoneInv(r)
  /\ StageInv(r)
  /\ GatewaysInv(r)
  /\ TrafficInv(r)

LifeInv == IInv /\ \A r \in Routes : RouteInv(r)

-----------------------------------------------------------------------------
(* Writes.                                                                 *)

LEMMA WriteEffect ==
  ASSUME StoreTyped, NEW k \in Keys, NEW v, Write(k, v)
  PROVE  /\ api'[k] = v
         /\ feed'[k] = IF v = api[k] \/ proc # "up" THEN feed[k] ELSE Append(feed[k], v)
         /\ \A j \in Keys : j # k => api'[j] = api[j] /\ feed'[j] = feed[j]
  BY DEF Write, StoreTyped

LEMMA AppendedElements ==
  ASSUME NEW S, NEW s \in Seq(S), NEW v \in S,
         NEW i \in DOMAIN Append(s, v)
  PROVE  Append(s, v)[i] = v \/ \E j \in DOMAIN s : Append(s, v)[i] = s[j]
<1>1. /\ Len(Append(s, v)) = Len(s) + 1 /\ Len(s) \in Nat
      /\ DOMAIN Append(s, v) = 1 .. Len(s) + 1 /\ DOMAIN s = 1 .. Len(s)
      /\ \A j \in 1 .. Len(s) : Append(s, v)[j] = s[j]
      /\ Append(s, v)[Len(s) + 1] = v
  OBVIOUS
<1> QED BY <1>1

(* A new version of a Route that exists, its removal without a finalizer,  *)
(* and the end of a finalization whose lister is up to date.               *)
Succeeds(r, v) ==
  LET k == RouteKey(r)
  IN  /\ api[k] # Absent
      /\ \/ /\ v # Absent
            /\ api[k].fin => v.fin
            /\ api[k].deleting => v.deleting
            /\ v.deleting => v.fin
         \/ v = Absent /\ ~api[k].fin
         \/ v = Absent /\ cache[k] = api[k] /\ api[k].deleting /\ feed[k] = << >>

LEMMA WriteKeepsVersions ==
  ASSUME TypeOK, NEW r \in Routes, NEW v \in RouteObjects \cup {Absent},
         Write(RouteKey(r), v), UNCHANGED cache,
         Succeeds(r, v), VersionsInv(r), GoneInv(r)
  PROVE  VersionsInv(r)' /\ GoneInv(r)'
<1> DEFINE k == RouteKey(r)
           S == RouteObjects \cup {Absent}
<1>1. k \in Keys /\ k \in RouteKeys
  BY KeyKinds
<1>2. /\ api'[k] = v /\ cache'[k] = cache[k]
      /\ feed'[k] = IF v = api[k] \/ proc # "up" THEN feed[k] ELSE Append(feed[k], v)
  BY <1>1, WriteEffect DEF TypeOK
<1>3. \A w : Behind(w, api[k]) => Behind(w, v)
  BY DEF Succeeds, Behind
<1>4. Behind(v, v)
  BY DEF Succeeds, Behind
<1>5. feed[k] \in Seq(S) /\ v \in S
  BY <1>1 DEF TypeOK, StoreTyped
<1>6. \A i \in DOMAIN feed'[k] : feed'[k][i] = v \/ \E j \in DOMAIN feed[k] : feed'[k][i] = feed[k][j]
  <2> HIDE DEF S, k
  <2> QED BY <1>2, <1>5, AppendedElements
<1>7. VersionsInv(r)'
  BY <1>2, <1>3, <1>4, <1>6 DEF VersionsInv
<1>8. ASSUME v = Absent
      PROVE  /\ \A i \in DOMAIN feed[k] : Unheld(feed[k][i])
             /\ Unheld(cache[k]) \/ cache[k].deleting
  <2>1. CASE ~api[k].fin
    BY <2>1 DEF Succeeds, VersionsInv, Behind, Unheld
  <2>2. CASE cache[k] = api[k] /\ api[k].deleting /\ feed[k] = << >>
    BY <2>2
  <2> QED BY <1>8, <2>1, <2>2 DEF Succeeds
<1>9. GoneInv(r)'
  BY <1>2, <1>6, <1>8 DEF GoneInv, Unheld
<1> QED BY <1>7, <1>9

(* A step that leaves a Route's versions and its run alone, and adds no    *)
(* Gateway of it.                                                          *)
LEMMA BystanderKeepsInv ==
  ASSUME NEW q \in Routes, RouteInv(q),
         LET k == RouteKey(q)
         IN  api'[k] = api[k] /\ cache'[k] = cache[k] /\ feed'[k] = feed[k],
         pc'[q] = pc[q], run'[q] = run[q], missed'[q] = missed[q],
         ListGateways(q, api') \subseteq ListGateways(q, api)
  PROVE  RouteInv(q)'
<1> USE DEF RouteInv
<1>1. VersionsInv(q)' /\ GoneInv(q)'
  BY DEF VersionsInv, GoneInv
<1>2. StageInv(q)' /\ TrafficInv(q)'
  BY DEF StageInv, TrafficInv
<1>3. GatewaysInv(q)'
  BY DEF GatewaysInv
<1> QED BY <1>1, <1>2, <1>3

(* Which Gateways a write adds or removes.                                 *)
LEMMA GatewaysAfterWrite ==
  ASSUME StoreTyped, NEW k \in Keys, NEW v, Write(k, v), NEW q \in Routes
  PROVE  /\ k \notin GatewayKeys => ListGateways(q, api') = ListGateways(q, api)
         /\ v = Absent => ListGateways(q, api') = ListGateways(q, api) \ {k}
         /\ v.owner # q => ListGateways(q, api') \subseteq ListGateways(q, api)
         /\ ListGateways(q, api') \subseteq ListGateways(q, api) \cup {k}
<1>1. \A g \in GatewayKeys : api'[g] = IF g = k THEN v ELSE api[g]
  BY WriteEffect, KeyKinds
<1> QED BY <1>1 DEF ListGateways

-----------------------------------------------------------------------------
(* The steps of the worker that processes Route r.                         *)

LEMMA GotoEffect ==
  ASSUME TypeOK, NEW r \in Routes, NEW stage, NEW x, Goto(r, stage, x)
  PROVE  /\ pc'[r] = stage /\ run'[r] = x
         /\ \A q \in Routes : q # r => pc'[q] = pc[q] /\ run'[q] = run[q]
  BY DEF Goto, TypeOK, RunsTyped

LEMMA ReturnEffect ==
  ASSUME TypeOK, NEW r \in Routes, NEW err, Return(r, err)
  PROVE  /\ pc'[r] = "idle" /\ run'[r] = NoRun
         /\ \A q \in Routes : q # r => pc'[q] = pc[q] /\ run'[q] = run[q]
  BY DEF Return, TypeOK, RunsTyped

(* A run that goes on with the resourceVersion, attempt and traffic it has. *)
Carries(r) ==
  /\ pc[r] # "idle" /\ pc'[r] # "refetch"
  /\ run'[r].stale = run[r].stale
  /\ run'[r].attempt = run[r].attempt
  /\ run'[r].res.status.traffic = run[r].res.status.traffic

LEMMA CarriesKeepsTraffic ==
  ASSUME NEW r \in Routes, TrafficInv(r), Carries(r) \/ pc'[r] = "idle",
         api'[RouteKey(r)] = api[RouteKey(r)]
  PROVE  TrafficInv(r)'
  BY DEF TrafficInv, Carries

LEMMA FailCarries ==
  ASSUME TypeOK, NEW r \in Routes, pc[r] # "idle", Fail(r)
  PROVE  /\ Carries(r) /\ pc'[r] = "post"
         /\ \A q \in Routes : q # r => pc'[q] = pc[q] /\ run'[q] = run[q]
<1> DEFINE x == [run[r] EXCEPT !.todo = {}, !.refs = << >>, !.failed = TRUE]
<1>1. run[r] \in Runs
  BY DEF TypeOK, RunsTyped
<1>2. x.stale = run[r].stale /\ x.attempt = run[r].attempt /\ x.res = run[r].res
  BY <1>1 DEF Runs
<1>3. Goto(r, "post", x)
  BY DEF Fail
<1> HIDE DEF x
<1> QED BY <1>2, <1>3, GotoEffect DEF Carries

(* What a worker's step that does not write the Route owes.                *)
ChildStep(r) ==
  LET k == RouteKey(r)
      left == ListGateways(r, api)
  IN  /\ api'[k] = api[k] /\ feed'[k] = feed[k]
      /\ UNCHANGED <<cache, missed>>
      /\ \A q \in Routes : q # r => pc'[q] = pc[q] /\ run'[q] = run[q]
      /\ pc'[r] # "finalizer"
      /\ pc'[r] \in {"services", "plan", "gateways"} => ~Unheld(api[k])
      /\ ListGateways(r, api') \subseteq left \/ ~Unheld(api[k])
      /\ pc'[r] = "delete" =>
           /\ pc[r] = "delete"
           /\ ListGateways(r, api') \subseteq missed[r] \cup run'[r].todo
      /\ TrafficInv(r)'

LEMMA ChildStepKeepsInv ==
  ASSUME NEW r \in Routes, RouteInv(r), ChildStep(r)
  PROVE  RouteInv(r)'
<1> USE DEF RouteInv, ChildStep
<1>1. VersionsInv(r)' /\ GoneInv(r)'
  BY DEF VersionsInv, GoneInv
<1>2. StageInv(r)'
  BY DEF StageInv
<1>3. GatewaysInv(r)'
  BY DEF GatewaysInv, Unheld
<1> QED BY <1>1, <1>2, <1>3

(* Other Routes look on.                                                   *)
LEMMA WorkerBystanders ==
  ASSUME TypeOK, NEW r \in Routes, NEW q \in Routes, q # r, RouteInv(q),
         UNCHANGED <<cache, missed>>, pc'[q] = pc[q], run'[q] = run[q],
         \/ UNCHANGED apiVars
         \/ \E k \in Keys : \E v :
              /\ Write(k, v)
              /\ k # RouteKey(q)
              /\ k \notin GatewayKeys \/ v = Absent \/ v.owner = r
  PROVE  RouteInv(q)'
<1>1. CASE UNCHANGED apiVars
  BY <1>1, BystanderKeepsInv DEF apiVars, ListGateways
<1>2. ASSUME NEW k \in Keys, NEW v, Write(k, v), k # RouteKey(q),
             k \notin GatewayKeys \/ v = Absent \/ v.owner = r
      PROVE  RouteInv(q)'
  <2>1. api'[RouteKey(q)] = api[RouteKey(q)] /\ feed'[RouteKey(q)] = feed[RouteKey(q)]
    BY <1>2, WriteEffect, KeyKinds DEF TypeOK
  <2>2. ListGateways(q, api') \subseteq ListGateways(q, api)
    BY <1>2, GatewaysAfterWrite DEF TypeOK
  <2> QED BY <2>1, <2>2, BystanderKeepsInv
<1> QED BY <1>1, <1>2

(* Every Route after a worker's step that writes at most one child.        *)
LEMMA ChildWriteKeepsInv ==
  ASSUME LifeInv, NEW r \in Routes, NEW k \in Keys \ RouteKeys, NEW v,
         \/ UNCHANGED apiVars
         \/ Write(k, v),
         k \notin GatewayKeys \/ v = Absent \/ v.owner = r,
         UNCHANGED <<cache, missed>>,
         \A q \in Routes : q # r => pc'[q] = pc[q] /\ run'[q] = run[q],
         pc'[r] # "finalizer",
         pc'[r] \in {"services", "plan", "gateways"} => ~Unheld(api[RouteKey(r)]),
         pc'[r] = "delete" =>
           /\ pc[r] = "delete"
           /\ ListGateways(r, api') \subseteq missed[r] \cup run'[r].todo,
         k \in GatewayKeys /\ v # Absent => ~Unheld(api[RouteKey(r)]),
         Carries(r) \/ pc'[r] = "idle"
  PROVE  \A q \in Routes : RouteInv(q)'
<1> DEFINE kr == RouteKey(r)
           left == ListGateways(r, api)
<1>0. TypeOK /\ StoreTyped /\ RouteInv(r)
  BY DEF LifeInv, IInv, TypeOK
<1>1. api'[kr] = api[kr] /\ feed'[kr] = feed[kr]
  BY <1>0, WriteEffect, KeyKinds DEF apiVars
<1>2. ListGateways(r, api') \subseteq left \/ ~Unheld(api[kr])
  <2>1. CASE UNCHANGED apiVars
    BY <2>1 DEF apiVars
  <2>2. CASE Write(k, v)
    BY <1>0, <2>2, GatewaysAfterWrite
  <2> QED BY <2>1, <2>2
<1>3. TrafficInv(r)'
  BY <1>0, <1>1, CarriesKeepsTraffic DEF RouteInv
<1>4. RouteInv(r)'
  BY <1>0, <1>1, <1>2, <1>3, ChildStepKeepsInv DEF ChildStep
<1>5. ASSUME NEW q \in Routes, q # r
      PROVE  RouteInv(q)'
  <2>1. RouteInv(q) /\ k # RouteKey(q) /\ k \in Keys
    BY KeyKinds DEF LifeInv
  <2> QED BY <1>0, <1>5, <2>1, WorkerBystanders
<1> QED BY <1>4, <1>5


LEMMA HTTPRouteKeyKind ==
  ASSUME NEW r \in Routes
  PROVE  HTTPRouteKey(r) \in Keys \ RouteKeys /\ HTTPRouteKey(r) \notin GatewayKeys
<1>1. HTTPRouteKey(r)[1] = "HTTPRoute" /\ \A g \in GatewayKeys : g[1] = "Gateway"
  BY DEF HTTPRouteKey, GatewayKeys, GatewayKey
<1> QED BY <1>1, KeyKinds

LEMMA ServicesKeepLife ==
  ASSUME LifeInv, NEW r \in Routes, ReconcilePlaceholderServices(r)
  PROVE  \A q \in Routes : RouteInv(q)'
<1> DEFINE traffic == run[r].res.status.traffic
           desired == MakePlaceholderService(run[r].cfg, run[r].res)
           next == Goto(r, "plan", run[r])
<1>0. TypeOK
  BY DEF LifeInv, IInv
<1>1. pc[r] = "services" /\ UNCHANGED <<cache, missed>>
  BY DEF ReconcilePlaceholderServices, Running
<1>2. run[r].res \in RouteObjects /\ ~Unheld(api[RouteKey(r)])
  BY <1>0, <1>1 DEF TypeOK, RunsTyped, LifeInv, RouteInv, StageInv
<1>3. ASSUME next \/ Fail(r)
      PROVE  /\ Carries(r) /\ pc'[r] \in {"plan", "post"}
             /\ \A q \in Routes : q # r => pc'[q] = pc[q] /\ run'[q] = run[q]
  BY <1>0, <1>1, <1>3, GotoEffect, FailCarries DEF Carries
<1>4. ASSUME NEW i \in DOMAIN traffic,
             (next /\ UNCHANGED apiVars) \/ PutChild(r, ServiceKey(r, traffic[i].tag), desired, next)
      PROVE  \A q \in Routes : RouteInv(q)'
  <2> DEFINE k == ServiceKey(r, traffic[i].tag)
  <2>1. k \in Keys \ RouteKeys /\ k \notin GatewayKeys
    <3>1. k \in Keys \ RouteKeys
      BY <1>2, <1>4, TagsAssumption, KeyKinds DEF RouteObjects, Statuses
    <3>2. k[1] = "Service" /\ \A g \in GatewayKeys : g[1] = "Gateway"
      BY DEF ServiceKey, GatewayKeys, GatewayKey
    <3> QED BY <3>1, <3>2
  <2>2. UNCHANGED apiVars \/ Write(k, desired)
    BY <1>4 DEF PutChild
  <2>3. next \/ Fail(r)
    BY <1>4 DEF PutChild
  <2> HIDE DEF k, desired, next
  <2> QED BY <1>1, <1>2, <1>3, <2>1, <2>2, <2>3, ChildWriteKeepsInv
<1>5. CASE next /\ UNCHANGED apiVars
  <2> HIDE DEF next
  <2> QED BY <1>1, <1>2, <1>3, <1>5, HTTPRouteKeyKind, ChildWriteKeepsInv
<1> QED BY <1>4, <1>5 DEF ReconcilePlaceholderServices

(* A worker's step that writes nothing.                                    *)
LEMMA QuietStepKeepsInv ==
  ASSUME LifeInv, NEW r \in Routes, UNCHANGED <<apiVars, cache, missed>>,
         \A q \in Routes : q # r => pc'[q] = pc[q] /\ run'[q] = run[q],
         pc'[r] \notin {"finalizer", "delete"},
         pc'[r] \in {"services", "plan", "gateways"} => ~Unheld(api[RouteKey(r)]),
         Carries(r) \/ pc'[r] = "idle"
  PROVE  \A q \in Routes : RouteInv(q)'
  BY HTTPRouteKeyKind, ChildWriteKeepsInv

LEMMA CollectHostnamesKeepsLife ==
  ASSUME LifeInv, NEW r \in Routes, CollectHostnames(r)
  PROVE  \A q \in Routes : RouteInv(q)'
<1> DEFINE x == [run[r] EXCEPT !.todo =
                   {GatewayKey(run[r].cfg, r, v) : v \in RouteVisibilities(run[r].res)}]
<1>0. TypeOK
  BY DEF LifeInv, IInv
<1>1. pc[r] = "plan" /\ UNCHANGED <<apiVars, cache, missed>>
  BY DEF CollectHostnames, Running
<1>2. run[r] \in Runs /\ ~Unheld(api[RouteKey(r)])
  BY <1>0, <1>1 DEF TypeOK, RunsTyped, LifeInv, RouteInv, StageInv
<1>3. x.stale = run[r].stale /\ x.attempt = run[r].attempt /\ x.res = run[r].res
  BY <1>2 DEF Runs
<1>4. Goto(r, "gateways", run[r]) \/ Fail(r) \/ Goto(r, "gateways", x)
  BY DEF CollectHostnames
<1> HIDE DEF x
<1>5. /\ Carries(r) /\ pc'[r] \in {"gateways", "post"}
      /\ \A q \in Routes : q # r => pc'[q] = pc[q] /\ run'[q] = run[q]
  BY <1>0, <1>1, <1>3, <1>4, GotoEffect, FailCarries DEF Carries
<1> QED BY <1>1, <1>2, <1>5, QuietStepKeepsInv

LEMMA GatewayKeepsLife ==
  ASSUME LifeInv, NEW r \in Routes, NEW g \in GatewayKeys, ReconcileGateway(r, g)
  PROVE  \A q \in Routes : RouteInv(q)'
<1> DEFINE desired == MakeGateway(run[r].cfg, r, run[r].res, g[4])
           skip == [run[r] EXCEPT !.todo = @ \ {g}]
           done == [skip EXCEPT !.refs = Append(@, g)]
<1>0. TypeOK
  BY DEF LifeInv, IInv
<1>1. pc[r] = "gateways" /\ UNCHANGED <<cache, missed>>
  BY DEF ReconcileGateway, Running
<1>2. run[r] \in Runs /\ ~Unheld(api[RouteKey(r)])
  BY <1>0, <1>1 DEF TypeOK, RunsTyped, LifeInv, RouteInv, StageInv
<1>3. /\ skip.stale = run[r].stale /\ skip.attempt = run[r].attempt /\ skip.res = run[r].res
      /\ done.stale = run[r].stale /\ done.attempt = run[r].attempt /\ done.res = run[r].res
  BY <1>2 DEF Runs
<1>4. g \in Keys \ RouteKeys /\ desired.owner = r
  BY KeyKinds DEF MakeGateway
<1>5. /\ UNCHANGED apiVars \/ Write(g, desired)
      /\ Goto(r, "gateways", skip) \/ Goto(r, "gateways", done) \/ Fail(r)
  BY DEF ReconcileGateway, PutChild
<1> HIDE DEF skip, done, desired
<1>6. /\ Carries(r) /\ pc'[r] \in {"gateways", "post"}
      /\ \A q \in Routes : q # r => pc'[q] = pc[q] /\ run'[q] = run[q]
  BY <1>0, <1>1, <1>3, <1>5, GotoEffect, FailCarries DEF Carries
<1> QED BY <1>1, <1>2, <1>4, <1>5, <1>6, ChildWriteKeepsInv

LEMMA HTTPRouteKeepsLife ==
  ASSUME LifeInv, NEW r \in Routes, ReconcileHTTPRoute(r)
  PROVE  \A q \in Routes : RouteInv(q)'
<1> DEFINE k == HTTPRouteKey(r)
           stored(d) == [spec |-> d,
                         status |-> IF api[k] = Absent THEN << >> ELSE api[k].status]
<1>0. TypeOK
  BY DEF LifeInv, IInv
<1>1. pc[r] = "gateways" /\ UNCHANGED <<cache, missed>>
  BY DEF ReconcileHTTPRoute, Running
<1>2. run[r] \in Runs /\ run[r].res \in RouteObjects /\ run[r].res.status \in Statuses
  BY <1>0, <1>1, RouteChanges DEF TypeOK, RunsTyped
<1>3. ASSUME NEW h, PropagateReadiness(r, h)
      PROVE  /\ Carries(r) /\ pc'[r] = "post"
             /\ \A q \in Routes : q # r => pc'[q] = pc[q] /\ run'[q] = run[q]
  <2> DEFINE st == IngressStatus(run[r].res.status, IsHTTPRouteReady(h))
             res == [run[r].res EXCEPT !.status = st]
             x == [run[r] EXCEPT !.refs = << >>, !.res = res]
  <2>1. st.traffic = run[r].res.status.traffic
    BY <1>2 DEF IngressStatus, Statuses
  <2>2. res.status = st
    BY <1>2 DEF RouteObjects
  <2>3. x.stale = run[r].stale /\ x.attempt = run[r].attempt /\ x.res = res
    <3> HIDE DEF res
    <3> QED BY <1>2 DEF Runs
  <2>4. Goto(r, "post", x)
    BY <1>3 DEF PropagateReadiness
  <2> HIDE DEF x, res, st
  <2> QED BY <1>0, <1>1, <2>1, <2>2, <2>3, <2>4, GotoEffect DEF Carries
<1>4. PICK d \in MakeHTTPRoute(run[r].cfg, r, run[r].res, run[r].refs) :
        \/ PropagateReadiness(r, cache[k]) /\ UNCHANGED <<apiVars, budget>>
        \/ PutChild(r, k, stored(d), PropagateReadiness(r, stored(d)))
  BY DEF ReconcileHTTPRoute
<1> DEFINE v == stored(d)
<1>5. UNCHANGED apiVars \/ Write(k, v)
  <2> HIDE DEF stored
  <2> QED BY <1>4 DEF PutChild
<1>6. PropagateReadiness(r, cache[k]) \/ PropagateReadiness(r, v) \/ Fail(r)
  <2> HIDE DEF stored
  <2> QED BY <1>4 DEF PutChild
<1>7. /\ Carries(r) /\ pc'[r] = "post"
      /\ \A q \in Routes : q # r => pc'[q] = pc[q] /\ run'[q] = run[q]
  <2> HIDE DEF v
  <2> QED BY <1>0, <1>1, <1>3, <1>6, FailCarries
<1> HIDE DEF v
<1> QED BY <1>1, <1>5, <1>7, HTTPRouteKeyKind, ChildWriteKeepsInv

LEMMA PostProcessKeepsLife ==
  ASSUME LifeInv, NEW r \in Routes, PostProcess(r)
  PROVE  \A q \in Routes : RouteInv(q)'
<1> DEFINE status == [run[r].res.status EXCEPT !.obs = run[r].res.gen]
           res == [run[r].res EXCEPT !.status = status]
           x == [run[r] EXCEPT !.res = res]
<1>0. TypeOK
  BY DEF LifeInv, IInv
<1>1. pc[r] = "post" /\ UNCHANGED <<apiVars, cache, missed>>
  BY DEF PostProcess, Running
<1>2. run[r] \in Runs /\ run[r].res \in RouteObjects /\ run[r].res.status \in Statuses
  BY <1>0, <1>1, RouteChanges DEF TypeOK, RunsTyped
<1>3. status.traffic = run[r].res.status.traffic
  BY <1>2 DEF Statuses
<1>4. res.status = status
  <2> HIDE DEF status
  <2> QED BY <1>2 DEF RouteObjects
<1>5. x.stale = run[r].stale /\ x.attempt = run[r].attempt /\ x.res = res
  <2> HIDE DEF res
  <2> QED BY <1>2 DEF Runs
<1>6. Return(r, run[r].failed) \/ Goto(r, "update", x)
  BY DEF PostProcess
<1> HIDE DEF x, res, status
<1>7. /\ Carries(r) \/ pc'[r] = "idle"
      /\ pc'[r] \in {"update", "idle"}
      /\ \A q \in Routes : q # r => pc'[q] = pc[q] /\ run'[q] = run[q]
  BY <1>0, <1>1, <1>3, <1>4, <1>5, <1>6, GotoEffect, ReturnEffect DEF Carries
<1> QED BY <1>1, <1>7, QuietStepKeepsInv

(* A step between attempts of the status update.                           *)
LEMMA AttemptKeepsInv ==
  ASSUME LifeInv, NEW r \in Routes, UNCHANGED <<apiVars, cache, missed>>,
         pc'[r] \in {"refetch", "update"}, run'[r].attempt # 0,
         \A q \in Routes : q # r => pc'[q] = pc[q] /\ run'[q] = run[q]
  PROVE  \A q \in Routes : RouteInv(q)'
<1>1. RouteInv(r)'
  <2>1. TrafficInv(r)'
    BY DEF TrafficInv
  <2> QED BY <2>1, ChildStepKeepsInv DEF ChildStep, LifeInv, apiVars, ListGateways
<1>2. ASSUME NEW q \in Routes, q # r
      PROVE  RouteInv(q)'
  BY <1>2, WorkerBystanders DEF LifeInv, IInv
<1> QED BY <1>1, <1>2

LEMMA RefetchKeepsLife ==
  ASSUME LifeInv, NEW r \in Routes, Refetch(r)
  PROVE  \A q \in Routes : RouteInv(q)'
<1> DEFINE x == [run[r] EXCEPT !.stale = FALSE]
<1>0. TypeOK
  BY DEF LifeInv, IInv
<1>1. pc[r] = "refetch" /\ UNCHANGED <<apiVars, cache, missed>>
  BY DEF Refetch, Running
<1>2. run[r] \in Runs /\ run[r].attempt # 0
  BY <1>0, <1>1 DEF TypeOK, RunsTyped, LifeInv, RouteInv, TrafficInv
<1>3. x.attempt = run[r].attempt
  BY <1>2 DEF Runs
<1>4. Return(r, TRUE) \/ Return(r, run[r].failed) \/ Goto(r, "update", x)
  BY DEF Refetch
<1> HIDE DEF x
<1>5. CASE Goto(r, "update", x)
  BY <1>0, <1>1, <1>2, <1>3, <1>5, GotoEffect, AttemptKeepsInv
<1>6. CASE Return(r, TRUE) \/ Return(r, run[r].failed)
  BY <1>0, <1>1, <1>6, ReturnEffect, QuietStepKeepsInv
<1> QED BY <1>4, <1>5, <1>6

LEMMA DeleteGatewayKeepsLife ==
  ASSUME LifeInv, NEW r \in Routes, NEW g \in GatewayKeys, DeleteGateway(r, g)
  PROVE  \A q \in Routes : RouteInv(q)'
<1> DEFINE x == [run[r] EXCEPT !.todo = @ \ {g}]
<1>0. TypeOK /\ StoreTyped
  BY DEF LifeInv, IInv, TypeOK
<1>1. pc[r] = "delete" /\ UNCHANGED <<cache, missed>>
  BY DEF DeleteGateway, Running
<1>2. run[r] \in Runs /\ ListGateways(r, api) \subseteq missed[r] \cup run[r].todo
  BY <1>0, <1>1 DEF TypeOK, RunsTyped, LifeInv, RouteInv, GatewaysInv
<1>3. /\ x.stale = run[r].stale /\ x.attempt = run[r].attempt /\ x.res = run[r].res
      /\ x.todo = run[r].todo \ {g}
  BY <1>2 DEF Runs
<1>4. /\ UNCHANGED apiVars \/ Write(g, Absent)
      /\ \/ Return(r, TRUE)
         \/ Goto(r, "delete", x) /\ Write(g, Absent)
  <2> HIDE DEF x
  <2>1. CASE api[g] = Absent
    BY <2>1 DEF DeleteGateway
  <2>2. CASE api[g] # Absent
    <3>1. PICK o \in Outcomes :
            /\ IF o = "failed" THEN UNCHANGED apiVars ELSE Write(g, Absent)
            /\ IF o = "ok" THEN Goto(r, "delete", x) ELSE Return(r, TRUE)
      BY <2>2 DEF DeleteGateway, x
    <3> QED BY <3>1
  <2> QED BY <2>1, <2>2
<1>5. g \in Keys \ RouteKeys
  BY KeyKinds
<1> HIDE DEF x
<1>6. CASE Goto(r, "delete", x) /\ Write(g, Absent)
  <2>1. ListGateways(r, api') = ListGateways(r, api) \ {g}
    BY <1>0, <1>5, <1>6, GatewaysAfterWrite
  <2>2. /\ pc'[r] = "delete" /\ run'[r] = x
        /\ \A q \in Routes : q # r => pc'[q] = pc[q] /\ run'[q] = run[q]
    BY <1>0, <1>6, GotoEffect
  <2>3. Carries(r)
    BY <1>1, <1>3, <2>2 DEF Carries
  <2>4. ListGateways(r, api') \subseteq missed[r] \cup run'[r].todo
    BY <1>2, <1>3, <2>1, <2>2
  <2> QED BY <1>1, <1>5, <1>6, <2>2, <2>3, <2>4, ChildWriteKeepsInv
<1>7. CASE Return(r, TRUE)
  <2>1. /\ pc'[r] = "idle"
        /\ \A q \in Routes : q # r => pc'[q] = pc[q] /\ run'[q] = run[q]
    BY <1>0, <1>7, ReturnEffect
  <2> QED BY <1>1, <1>4, <1>5, <2>1, ChildWriteKeepsInv
<1> QED BY <1>4, <1>6, <1>7

-----------------------------------------------------------------------------
(* Steps that write the Route.                                             *)

LEMMA RouteWriteKeepsInv ==
  ASSUME LifeInv, NEW r \in Routes, NEW v \in RouteObjects \cup {Absent},
         Write(RouteKey(r), v), UNCHANGED <<cache, missed>>, Succeeds(r, v),
         \A q \in Routes : q # r => pc'[q] = pc[q] /\ run'[q] = run[q],
         v = Absent => Unheld(api[RouteKey(r)]) \/ ListGateways(r, api) \subseteq missed[r],
         pc'[r] = "delete" => pc[r] = "delete" /\ run'[r].todo = run[r].todo,
         StageInv(r)', TrafficInv(r)'
  PROVE  \A q \in Routes : RouteInv(q)'
<1> DEFINE k == RouteKey(r)
<1>0. TypeOK /\ StoreTyped /\ RouteInv(r) /\ k \in Keys /\ k \notin GatewayKeys
  BY KeyKinds DEF LifeInv, IInv, TypeOK
<1>1. VersionsInv(r)' /\ GoneInv(r)'
  BY <1>0, WriteKeepsVersions DEF RouteInv
<1>2. api'[k] = v /\ ListGateways(r, api') = ListGateways(r, api)
  BY <1>0, WriteEffect, GatewaysAfterWrite
<1>3. GatewaysInv(r)'
  <2>1. GatewaysInv(r) /\ api[k] # Absent
    BY <1>0 DEF RouteInv, Succeeds
  <2>2. ~Unheld(v) \/ v = Absent \/ ListGateways(r, api) = {}
    BY <2>1 DEF GatewaysInv, Succeeds, Unheld
  <2>3. v = Absent => ListGateways(r, api) \subseteq missed[r]
    BY <2>1 DEF GatewaysInv, Unheld
  <2> QED BY <1>2, <2>1, <2>2, <2>3 DEF GatewaysInv, Unheld
<1>4. RouteInv(r)'
  BY <1>1, <1>3 DEF RouteInv
<1>5. ASSUME NEW q \in Routes, q # r
      PROVE  RouteInv(q)'
  <2>1. RouteInv(q) /\ k # RouteKey(q)
    BY <1>5, KeyKinds DEF LifeInv
  <2> QED BY <1>0, <1>5, <2>1, WorkerBystanders
<1> QED BY <1>4, <1>5

(* The finalizer patch.                                                    *)
LEMMA SetFinalizerKeepsLife ==
  ASSUME LifeInv, NEW r \in Routes, SetFinalizer(r)
  PROVE  \A q \in Routes : RouteInv(q)'
<1> DEFINE k == RouteKey(r)
           patched == [api[k] EXCEPT !.fin = TRUE]
<1>0. TypeOK /\ StoreTyped /\ RouteInv(r) /\ k \in Keys /\ k \in RouteKeys
  BY KeyKinds DEF LifeInv, IInv, TypeOK
<1>1. pc[r] = "finalizer" /\ proc = "up" /\ UNCHANGED <<cache, missed>>
  BY DEF SetFinalizer, Running
<1>2. run[r] \in Runs /\ run[r].res \in RouteObjects
  BY <1>0, <1>1 DEF TypeOK, RunsTyped
<1>3. ASSUME NEW res \in RouteObjects, NEW b \in BOOLEAN, BeginReconcile(r, res, b)
      PROVE  /\ pc'[r] \in {"services", "post"}
             /\ run'[r].stale = b /\ run'[r].attempt = run[r].attempt
             /\ run'[r].res.status.traffic = res.status.traffic
             /\ \A q \in Routes : q # r => pc'[q] = pc[q] /\ run'[q] = run[q]
  <2> DEFINE st == [res.status EXCEPT !.ready = FALSE]
             fresh == IF res.status.obs = res.gen THEN res
                      ELSE [res EXCEPT !.status = st]
             x == [run[r] EXCEPT !.res = fresh, !.stale = b]
             stage == IF res.enabled THEN "services" ELSE "post"
  <2>1. st.traffic = res.status.traffic
    BY RouteChanges DEF Statuses
  <2>2. fresh.status.traffic = res.status.traffic
    <3> HIDE DEF st
    <3> QED BY <2>1 DEF RouteObjects
  <2>3. x.stale = b /\ x.attempt = run[r].attempt /\ x.res = fresh
    <3> HIDE DEF fresh
    <3> QED BY <1>2 DEF Runs
  <2>4. Goto(r, stage, x)
    BY <1>3 DEF BeginReconcile
  <2>5. stage \in {"services", "post"}
    OBVIOUS
  <2> HIDE DEF x, fresh, stage
  <2> QED BY <1>0, <2>2, <2>3, <2>4, <2>5, GotoEffect
<1>4. CASE Return(r, TRUE) /\ UNCHANGED apiVars
  BY <1>0, <1>1, <1>4, ReturnEffect, QuietStepKeepsInv
<1>5. CASE /\ cache[k] # Absent /\ cache[k].fin
           /\ BeginReconcile(r, run[r].res, run[r].stale)
           /\ UNCHANGED apiVars
  <2>1. ~Unheld(api[k])
    BY <1>0, <1>1, <1>5 DEF RouteInv, StageInv, VersionsInv, Behind, Unheld
  <2>2. run[r].stale \in BOOLEAN
    BY <1>2 DEF Runs
  <2>3. /\ Carries(r) /\ pc'[r] \in {"services", "post"}
        /\ \A q \in Routes : q # r => pc'[q] = pc[q] /\ run'[q] = run[q]
    BY <1>1, <1>2, <1>3, <1>5, <2>2 DEF Carries
  <2> QED BY <1>1, <1>5, <2>1, <2>3, QuietStepKeepsInv
<1>6. ASSUME cache[k] # Absent, ~cache[k].fin, feed[k] = << >>, Write(k, patched),
             BeginReconcile(r, patched, TRUE) \/ Return(r, TRUE)
      PROVE  \A q \in Routes : RouteInv(q)'
  <2>1. api[k] = cache[k] /\ api[k] \in RouteObjects
    BY <1>0, <1>1, <1>6 DEF LifeInv, IInv, WatchInv, StoreTyped
  <2>2. patched \in RouteObjects /\ patched # Absent
    BY <2>1, RouteChanges, AbsentAssumption
  <2>3. patched.fin /\ patched.deleting = api[k].deleting
    BY <2>1 DEF RouteObjects
  <2>4. Succeeds(r, patched) /\ api'[k] = patched
    BY <1>0, <1>6, <2>1, <2>2, <2>3, WriteEffect DEF Succeeds
  <2> HIDE DEF patched
  <2>5. /\ pc'[r] \in {"services", "post", "idle"}
        /\ pc'[r] = "idle" \/ run'[r].stale = TRUE
        /\ \A q \in Routes : q # r => pc'[q] = pc[q] /\ run'[q] = run[q]
    BY <1>0, <1>3, <1>6, <2>2, ReturnEffect
  <2>6. StageInv(r)' /\ TrafficInv(r)'
    BY <2>2, <2>3, <2>4, <2>5 DEF StageInv, TrafficInv, Unheld
  <2> QED BY <1>1, <1>6, <2>2, <2>4, <2>5, <2>6, RouteWriteKeepsInv
<1>7. \/ Return(r, TRUE) /\ UNCHANGED apiVars
      \/ /\ cache[k] # Absent /\ cache[k].fin
         /\ BeginReconcile(r, run[r].res, run[r].stale)
         /\ UNCHANGED apiVars
      \/ /\ cache[k] # Absent /\ ~cache[k].fin /\ feed[k] = << >>
         /\ Write(k, patched)
         /\ BeginReconcile(r, patched, TRUE) \/ Return(r, TRUE)
  BY DEF SetFinalizer
<1> QED BY <1>4, <1>5, <1>6, <1>7

(* The status update goes to the stored object's current version.          *)
LEMMA UpdateStatusKeepsLife ==
  ASSUME LifeInv, NEW r \in Routes, UpdateStatus(r)
  PROVE  \A q \in Routes : RouteInv(q)'
<1> DEFINE k == RouteKey(r)
           v == [api[k] EXCEPT !.status = run[r].res.status]
           x == [run[r] EXCEPT !.attempt = @ + 1]
<1>0. TypeOK /\ StoreTyped /\ RouteInv(r) /\ k \in Keys /\ k \in RouteKeys
  BY KeyKinds DEF LifeInv, IInv, TypeOK
<1>1. pc[r] = "update" /\ UNCHANGED <<cache, missed>>
  BY DEF UpdateStatus, Running
<1>2. run[r] \in Runs /\ run[r].res \in RouteObjects /\ run[r].attempt \in 0 .. MaxAttempts - 1
  BY <1>0, <1>1 DEF TypeOK, RunsTyped, Runs
<1>3. \/ UNCHANGED apiVars /\ \E err : Return(r, err)
      \/ UNCHANGED apiVars /\ Goto(r, "refetch", x)
      \/ api[k] # Absent /\ Write(k, v) /\ \E err : Return(r, err)
  BY DEF UpdateStatus
<1>4. CASE UNCHANGED apiVars /\ \E err : Return(r, err)
  BY <1>0, <1>1, <1>4, ReturnEffect, QuietStepKeepsInv
<1>5. CASE UNCHANGED apiVars /\ Goto(r, "refetch", x)
  <2>1. x.attempt # 0
    BY <1>2, BoundsAssumption DEF Runs
  <2> HIDE DEF x
  <2> QED BY <1>0, <1>1, <1>5, <2>1, GotoEffect, AttemptKeepsInv
<1>6. CASE api[k] # Absent /\ Write(k, v) /\ \E err : Return(r, err)
  <2>1. api[k] \in RouteObjects
    BY <1>0, <1>6 DEF StoreTyped
  <2>2. v \in RouteObjects /\ v # Absent
    BY <1>2, <2>1, RouteChanges, AbsentAssumption
  <2>3. v.fin = api[k].fin /\ v.deleting = api[k].deleting
    BY <2>1 DEF RouteObjects
  <2> HIDE DEF v
  <2>4. Succeeds(r, v)
    BY <1>0, <1>6, <2>2, <2>3 DEF Succeeds, RouteInv, VersionsInv, Behind
  <2>5. /\ pc'[r] = "idle"
        /\ \A q \in Routes : q # r => pc'[q] = pc[q] /\ run'[q] = run[q]
    BY <1>0, <1>6, ReturnEffect
  <2>6. StageInv(r)' /\ TrafficInv(r)'
    BY <2>5 DEF StageInv, TrafficInv
  <2> QED BY <1>1, <1>6, <2>2, <2>4, <2>5, <2>6, RouteWriteKeepsInv
<1> QED BY <1>3, <1>4, <1>5, <1>6

(* Clearing the finalizer removes the Route.                               *)
LEMMA ClearFinalizerKeepsLife ==
  ASSUME LifeInv, NEW r \in Routes, ClearFinalizer(r)
  PROVE  \A q \in Routes : RouteInv(q)'
<1> DEFINE k == RouteKey(r)
<1>0. TypeOK /\ StoreTyped /\ RouteInv(r) /\ k \in Keys /\ k \in RouteKeys
  BY KeyKinds DEF LifeInv, IInv, TypeOK
<1>1. /\ pc[r] = "delete" /\ proc = "up" /\ run[r].todo = {}
      /\ UNCHANGED <<cache, missed>>
  BY DEF ClearFinalizer, Running
<1>2. \/ UNCHANGED apiVars
      \/ cache[k] # Absent /\ feed[k] = << >> /\ Write(k, Absent)
  BY DEF ClearFinalizer
<1>3. /\ pc'[r] = "idle"
      /\ \A q \in Routes : q # r => pc'[q] = pc[q] /\ run'[q] = run[q]
  BY <1>0, ReturnEffect DEF ClearFinalizer
<1>4. CASE UNCHANGED apiVars
  BY <1>1, <1>3, <1>4, QuietStepKeepsInv
<1>5. CASE cache[k] # Absent /\ feed[k] = << >> /\ Write(k, Absent)
  <2>1. cache[k] = api[k]
    BY <1>0, <1>1, <1>5 DEF LifeInv, IInv, WatchInv
  <2>2. api[k].deleting /\ ListGateways(r, api) \subseteq missed[r]
    BY <1>0, <1>1, <1>5, <2>1 DEF RouteInv, StageInv, GatewaysInv
  <2>3. Succeeds(r, Absent)
    BY <1>5, <2>1, <2>2 DEF Succeeds
  <2>4. StageInv(r)' /\ TrafficInv(r)'
    BY <1>3 DEF StageInv, TrafficInv
  <2> QED BY <1>1, <1>3, <1>5, <2>2, <2>3, <2>4, RouteWriteKeepsInv
<1> QED BY <1>2, <1>4, <1>5

LEMMA WorkerKeepsLife ==
  ASSUME LifeInv, NEW r \in Routes, Worker(r), ~Panic(r)
  PROVE  \A q \in Routes : RouteInv(q)'
  BY SetFinalizerKeepsLife, ServicesKeepLife, CollectHostnamesKeepsLife, GatewayKeepsLife,
     HTTPRouteKeepsLife, PostProcessKeepsLife, UpdateStatusKeepsLife, RefetchKeepsLife,
     DeleteGatewayKeepsLife, ClearFinalizerKeepsLife
  DEF Worker

(* A run begins with the lister's copy; a finalization lists.              *)
LEMMA StartKeepsLife ==
  ASSUME LifeInv, NEW r \in Routes, Start(r)
  PROVE  \A q \in Routes : RouteInv(q)'
<1> DEFINE k == RouteKey(r)
           original == cache[k]
           begin == [NoRun EXCEPT !.orig = original, !.res = original,
                       !.cfg = config, !.stale = Outdated(k)]
           listed == ListGateways(r, cache)
           x == [begin EXCEPT !.todo = listed]
<1>0. TypeOK /\ StoreTyped /\ RouteInv(r) /\ k \in Keys /\ k \in RouteKeys
  BY KeyKinds DEF LifeInv, IInv, TypeOK
<1>1. /\ proc = "up" /\ pc[r] = "idle"
      /\ UNCHANGED <<api, cache, feed>>
      /\ pc \in [Routes -> Stages] /\ run \in [Routes -> Runs]
      /\ missed \in [Routes -> SUBSET GatewayKeys]
  BY <1>0 DEF Start, Running, TypeOK, RunsTyped
<1>2. \/ UNCHANGED <<pc, run, missed>>
      \/ /\ original # Absent /\ ~original.deleting
         /\ pc' = [pc EXCEPT ![r] = "finalizer"]
         /\ run' = [run EXCEPT ![r] = begin]
         /\ UNCHANGED missed
      \/ /\ original # Absent /\ original.deleting
         /\ pc' = [pc EXCEPT ![r] = "delete"]
         /\ run' = [run EXCEPT ![r] = x]
         /\ missed' = IF api[k] = Absent THEN missed
                      ELSE [missed EXCEPT ![r] = ListGateways(r, api) \ listed]
  BY DEF Start, histVars
<1>3. /\ begin.res = original /\ begin.stale = (feed[k] # << >>)
      /\ x.res = original /\ x.stale = (feed[k] # << >>) /\ x.todo = listed
  BY DEF NoRun, Outdated
<1> HIDE DEF begin, x
<1>4. /\ pc'[r] \in {"idle", "finalizer", "delete"}
      /\ pc'[r] # "idle" => /\ original # Absent
                            /\ run'[r].res = original
                            /\ run'[r].stale = (feed[k] # << >>)
                            /\ original.deleting => pc'[r] = "delete"
      /\ pc'[r] = "delete" => /\ original.deleting /\ run'[r].todo = listed
                              /\ api[k] # Absent => missed'[r] = ListGateways(r, api) \ listed
      /\ missed'[r] = missed[r] \/ api[k] # Absent
      /\ pc'[r] # "delete" \/ api[k] = Absent => missed'[r] = missed[r]
      /\ \A q \in Routes : q # r => /\ pc'[q] = pc[q] /\ run'[q] = run[q]
                                    /\ missed'[q] = missed[q]
  BY <1>1, <1>2, <1>3
<1>5. VersionsInv(r)' /\ GoneInv(r)'
  BY <1>0, <1>1 DEF RouteInv, VersionsInv, GoneInv
<1>6. StageInv(r)'
  BY <1>0, <1>1, <1>4 DEF RouteInv, StageInv, VersionsInv, GoneInv, Behind, Unheld
<1>7. GatewaysInv(r)'
  BY <1>0, <1>1, <1>4 DEF RouteInv, GatewaysInv, ListGateways
<1>8. TrafficInv(r)'
  <2>1. ASSUME pc'[r] # "idle", ~run'[r].stale
        PROVE  api[k] = original /\ original # Absent
    BY <1>0, <1>1, <1>4, <2>1 DEF LifeInv, IInv, WatchInv
  <2> QED BY <1>1, <1>4, <2>1 DEF TrafficInv
<1>9. ASSUME NEW q \in Routes, q # r
      PROVE  RouteInv(q)'
  BY <1>1, <1>4, <1>9, BystanderKeepsInv DEF LifeInv, ListGateways
<1> QED BY <1>5, <1>6, <1>7, <1>8, <1>9 DEF RouteInv

(* A delivery shows the lister the next version.                           *)
LEMMA DeliverKeepsLife ==
  ASSUME LifeInv, NEW k \in Keys, Deliver(k), NEW r \in Routes
  PROVE  RouteInv(r)'
<1> DEFINE j == RouteKey(r)
           S == RouteObjects \cup {Absent}
           s == feed[j]
<1>0. TypeOK /\ StoreTyped /\ RouteInv(r) /\ j \in Keys /\ j \in RouteKeys
  BY KeyKinds DEF LifeInv, IInv, TypeOK
<1>1. /\ feed[k] # << >>
      /\ cache' = [cache EXCEPT ![k] = Head(feed[k])]
      /\ feed' = [feed EXCEPT ![k] = Tail(@)]
      /\ UNCHANGED <<api, pc, run, missed>>
  BY DEF Deliver, histVars
<1>2. CASE k # j
  <2>1. cache'[j] = cache[j] /\ feed'[j] = feed[j]
    BY <1>0, <1>1, <1>2 DEF StoreTyped
  <2> QED BY <1>0, <1>1, <2>1, BystanderKeepsInv DEF ListGateways
<1>3. CASE k = j
  <2>1. s \in Seq(S) /\ s # << >> /\ cache'[j] = Head(s) /\ feed'[j] = Tail(s)
    BY <1>0, <1>1, <1>3 DEF StoreTyped
  <2>2. /\ 1 \in DOMAIN s /\ cache'[j] = s[1]
        /\ \A i \in DOMAIN feed'[j] : i + 1 \in DOMAIN s /\ feed'[j][i] = s[i + 1]
    <3> HIDE DEF S, s
    <3> QED BY <2>1, HeadTailProperties, EmptySeq
  <2> HIDE DEF s
  <2>3. /\ \A i \in DOMAIN s : Behind(s[i], api[j])
        /\ api[j] = Absent => \A i \in DOMAIN s : Unheld(s[i])
    BY <1>0 DEF RouteInv, VersionsInv, GoneInv, s
  <2>4. VersionsInv(r)' /\ GoneInv(r)'
    BY <1>0, <1>1, <2>2, <2>3 DEF RouteInv, VersionsInv, GoneInv
  <2>5. StageInv(r)'
    BY <1>0, <1>1, <2>2, <2>3 DEF RouteInv, StageInv
  <2>6. GatewaysInv(r)' /\ TrafficInv(r)'
    BY <1>0, <1>1 DEF RouteInv, GatewaysInv, TrafficInv, ListGateways
  <2> QED BY <2>4, <2>5, <2>6 DEF RouteInv
<1> QED BY <1>2, <1>3

LEMMA StopKeepsLife ==
  ASSUME LifeInv, NEW how, Stop(how), NEW r \in Routes
  PROVE  RouteInv(r)'
<1> DEFINE k == RouteKey(r)
<1>0. RouteInv(r) /\ k \in Keys
  BY KeyKinds DEF LifeInv
<1>1. /\ cache'[k] = Absent /\ feed'[k] = << >> /\ pc'[r] = "idle"
      /\ UNCHANGED <<api, missed>>
  BY <1>0 DEF Stop, histVars
<1>2. VersionsInv(r)' /\ GoneInv(r)'
  BY <1>0, <1>1 DEF RouteInv, VersionsInv, GoneInv, Behind, Unheld
<1>3. StageInv(r)' /\ TrafficInv(r)'
  BY <1>1 DEF StageInv, TrafficInv
<1>4. GatewaysInv(r)'
  BY <1>0, <1>1 DEF RouteInv, GatewaysInv, ListGateways
<1> QED BY <1>2, <1>3, <1>4 DEF RouteInv

LEMMA RestartKeepsLife ==
  ASSUME LifeInv, Restart, NEW r \in Routes
  PROVE  RouteInv(r)'
<1> DEFINE k == RouteKey(r)
<1>0. RouteInv(r) /\ k \in RouteKeys
  BY KeyKinds DEF LifeInv
<1>1. /\ proc # "up" /\ cache' = api /\ UNCHANGED <<api, feed, pc, run, missed>>
  BY DEF Restart, apiVars, histVars
<1>2. feed[k] = << >> /\ pc[r] = "idle"
  BY <1>0, <1>1 DEF LifeInv, IInv, WatchInv, RunInv
<1>3. VersionsInv(r)' /\ GoneInv(r)'
  BY <1>0, <1>1, <1>2 DEF RouteInv, VersionsInv, GoneInv, Unheld
<1>4. StageInv(r)' /\ TrafficInv(r)'
  BY <1>1, <1>2 DEF StageInv, TrafficInv
<1>5. GatewaysInv(r)'
  BY <1>0, <1>1 DEF RouteInv, GatewaysInv, ListGateways
<1> QED BY <1>3, <1>4, <1>5 DEF RouteInv

LEMMA ProcessKeepsLife ==
  ASSUME LifeInv, Process
  PROVE  \A r \in Routes : RouteInv(r)'
<1>1. CASE \/ \E r \in Routes : Enqueue(r)
           \/ Resync
           \/ \E c \in Configs : ConfigChange(c)
  <2>1. UNCHANGED <<api, feed, cache, pc, run, missed>>
    BY <1>1 DEF Enqueue, Resync, ConfigChange, apiVars, histVars
  <2> QED BY <2>1, BystanderKeepsInv DEF LifeInv, ListGateways
<1>2. CASE Crash
  BY <1>2, StopKeepsLife DEF Crash
<1>3. CASE Restart
  BY <1>3, RestartKeepsLife
<1>4. CASE \E k \in Keys : Deliver(k)
  BY <1>4, DeliverKeepsLife
<1> QED BY <1>1, <1>2, <1>3, <1>4 DEF Process

-----------------------------------------------------------------------------
(* The other actors.                                                       *)

LEMMA WriteRouteKeepsLife ==
  ASSUME LifeInv, NEW r \in Routes, NEW v \in RouteObjects \cup {Absent},
         WriteRoute(r, v), UNCHANGED envUnchanged, Succeeds(r, v),
         v = Absent => Unheld(api[RouteKey(r)])
  PROVE  \A q \in Routes : RouteInv(q)'
<1> DEFINE k == RouteKey(r)
<1>0. TypeOK /\ StoreTyped /\ RouteInv(r) /\ k \in Keys
  BY KeyKinds DEF LifeInv, IInv, TypeOK
<1>1. /\ Write(k, v) /\ api'[k] = v /\ UNCHANGED <<cache, pc, missed>>
      /\ run' = [run EXCEPT ![r].stale = TRUE]
  BY <1>0, WriteEffect DEF WriteRoute, envUnchanged, histVars
<1>2. /\ run'[r].stale = TRUE /\ run'[r].attempt = run[r].attempt
      /\ run'[r].todo = run[r].todo
      /\ \A q \in Routes : q # r => run'[q] = run[q]
  <2>1. run \in [Routes -> Runs] /\ run[r] \in Runs
    BY <1>0 DEF TypeOK, RunsTyped
  <2> QED BY <1>1, <2>1 DEF Runs
<1>3. StageInv(r)'
  BY <1>0, <1>1 DEF RouteInv, StageInv, VersionsInv, Behind, Succeeds, Unheld
<1>4. TrafficInv(r)'
  BY <1>0, <1>1, <1>2 DEF RouteInv, TrafficInv
<1> QED BY <1>1, <1>2, <1>3, <1>4, RouteWriteKeepsInv

LEMMA EditRouteKeepsLife ==
  ASSUME LifeInv, NEW r \in Routes, EditRoute(r) \/ ServingSync(r)
  PROVE  \A q \in Routes : RouteInv(q)'
<1> DEFINE route == api[RouteKey(r)]
           status == [traffic |-> route.spec, obs |-> route.gen,
                      ingress |-> route.status.ingress,
                      ready |-> route.status.ingress]
<1>0. StoreTyped /\ RouteInv(r) /\ RouteKey(r) \in RouteKeys
  BY KeyKinds DEF LifeInv, IInv, TypeOK
<1>1. route # Absent /\ UNCHANGED envUnchanged /\ route \in RouteObjects
  BY <1>0 DEF EditRoute, ServingSync, StoreTyped
<1>2. status \in Statuses
  BY <1>1 DEF RouteObjects, Statuses
<1>3. PICK v \in RouteObjects :
        /\ WriteRoute(r, v)
        /\ v.fin = route.fin /\ v.deleting = route.deleting
  <2>1. CASE EditRoute(r)
    <3>1. /\ \A t \in Traffics :
               LET v == [route EXCEPT !.spec = t, !.gen = @ + 1]
               IN  v.fin = route.fin /\ v.deleting = route.deleting
          /\ \A l \in LabelChoices :
               LET v == [route EXCEPT !.labels = l]
               IN  v.fin = route.fin /\ v.deleting = route.deleting
          /\ LET v == [route EXCEPT !.enabled = ~ @]
             IN  v.fin = route.fin /\ v.deleting = route.deleting
      BY <1>1 DEF RouteObjects
    <3> QED BY <1>1, <2>1, <3>1, RouteChanges DEF EditRoute
  <2>2. CASE ServingSync(r)
    <3> DEFINE v == [route EXCEPT !.status = status]
    <3>1. v.fin = route.fin /\ v.deleting = route.deleting /\ WriteRoute(r, v)
      BY <1>1, <2>2 DEF RouteObjects, ServingSync
    <3>2. v \in RouteObjects
      <4> HIDE DEF status
      <4> QED BY <1>1, <1>2, RouteChanges
    <3> QED BY <3>1, <3>2
  <2> QED BY <2>1, <2>2
<1>4. v # Absent
  BY AbsentAssumption
<1>5. Succeeds(r, v)
  BY <1>0, <1>1, <1>3, <1>4 DEF Succeeds, RouteInv, VersionsInv, Behind
<1> QED BY <1>1, <1>3, <1>4, <1>5, WriteRouteKeepsLife

LEMMA DeleteRouteKeepsLife ==
  ASSUME LifeInv, NEW r \in Routes, DeleteRoute(r)
  PROVE  \A q \in Routes : RouteInv(q)'
<1> DEFINE route == api[RouteKey(r)]
           marked == [route EXCEPT !.deleting = TRUE]
           v == IF route.fin THEN marked ELSE Absent
<1>0. StoreTyped /\ RouteKey(r) \in RouteKeys
  BY KeyKinds DEF LifeInv, IInv, TypeOK
<1>1. /\ route # Absent /\ UNCHANGED envUnchanged /\ WriteRoute(r, v)
      /\ route \in RouteObjects
  BY <1>0 DEF DeleteRoute, StoreTyped
<1>2. marked \in RouteObjects /\ marked # Absent /\ marked.deleting /\ marked.fin = route.fin
  <2>1. marked \in RouteObjects
    BY <1>1, RouteChanges
  <2>2. marked.deleting /\ marked.fin = route.fin
    BY <1>1 DEF RouteObjects
  <2>3. marked # Absent
    BY <2>1, AbsentAssumption
  <2> QED BY <2>1, <2>2, <2>3
<1> HIDE DEF marked
<1>3. Succeeds(r, v)
  BY <1>1, <1>2 DEF Succeeds
<1>4. v \in RouteObjects \cup {Absent} /\ (v = Absent => Unheld(route))
  BY <1>2 DEF Unheld
<1> HIDE DEF v
<1> QED BY <1>1, <1>3, <1>4, WriteRouteKeepsLife

(* A write to an object other than a Route by somebody else.               *)
LEMMA ChildWriteKeepsLife ==
  ASSUME LifeInv, NEW k \in Keys \ RouteKeys, NEW v, Write(k, v),
         k \notin GatewayKeys \/ v = Absent,
         UNCHANGED <<envUnchanged, run>>
  PROVE  \A q \in Routes : RouteInv(q)'
<1>1. UNCHANGED <<cache, pc, run, missed>>
  BY DEF envUnchanged, histVars
<1>2. TypeOK
  BY DEF LifeInv, IInv
<1>3. ASSUME NEW q \in Routes
      PROVE  RouteInv(q)'
  <2>1. k # RouteKey(q) /\ RouteInv(q) /\ RouteKey(q) \in Keys /\ StoreTyped
    BY <1>2, KeyKinds DEF LifeInv, TypeOK
  <2>2. api'[RouteKey(q)] = api[RouteKey(q)] /\ feed'[RouteKey(q)] = feed[RouteKey(q)]
    BY <2>1, WriteEffect
  <2>3. ListGateways(q, api') \subseteq ListGateways(q, api)
    BY <2>1, GatewaysAfterWrite
  <2> QED BY <1>1, <2>1, <2>2, <2>3, BystanderKeepsInv
<1> QED BY <1>3

(* The writes to an HTTPRoute's status and the garbage collector's.        *)
LEMMA ChildrenKeepLife ==
  ASSUME LifeInv, NEW r \in Routes,
         \/ \E g \in GatewayKeys : Admit(r, g) \/ Reject(r, g)
         \/ Prune(r)
         \/ \E k \in Keys : CollectGarbage(r, k)
  PROVE  \A q \in Routes : RouteInv(q)'
<1>1. ASSUME NEW status, WriteGatewayStatus(r, status)
      PROVE  \A q \in Routes : RouteInv(q)'
  BY <1>1, HTTPRouteKeyKind, ChildWriteKeepsLife DEF WriteGatewayStatus
<1>2. ASSUME NEW k \in Keys, CollectGarbage(r, k)
      PROVE  \A q \in Routes : RouteInv(q)'
  <2>1. k \in Keys \ RouteKeys /\ Write(k, Absent) /\ UNCHANGED <<envUnchanged, run>>
    BY <1>2, HTTPRouteKeyKind, KeyKinds DEF CollectGarbage, OwnedKeys
  <2> QED BY <2>1, ChildWriteKeepsLife
<1>3. CASE \E g \in GatewayKeys : Admit(r, g) \/ Reject(r, g)
  BY <1>1, <1>3 DEF Admit, Reject
<1>4. CASE Prune(r)
  BY <1>1, <1>4 DEF Prune
<1> QED BY <1>2, <1>3, <1>4

-----------------------------------------------------------------------------
LEMMA InitLife == Init => \A r \in Routes : RouteInv(r)
<1> SUFFICES ASSUME Init, NEW r \in Routes PROVE RouteInv(r)
  OBVIOUS
<1> DEFINE k == RouteKey(r)
<1>1. PICK o \in [Routes -> NewRoutes] :
        /\ api = [j \in Keys |-> IF j \in RouteKeys THEN o[j[2]] ELSE Absent]
        /\ cache = [j \in Keys |-> Absent]
        /\ feed = [j \in Keys |-> IF j \in RouteKeys THEN << o[j[2]] >> ELSE << >>]
        /\ pc = [q \in Routes |-> "idle"]
  BY DEF Init
<1>2. k \in Keys /\ k \in RouteKeys /\ k[2] = r /\ \A g \in GatewayKeys : g \in Keys /\ g \notin RouteKeys
  BY KeyKinds DEF RouteKey
<1>3. api[k] = o[r] /\ cache[k] = Absent /\ feed[k] = << o[r] >> /\ pc[r] = "idle"
  BY <1>1, <1>2
<1>4. ~o[r].fin /\ ~o[r].deleting
  BY <1>1 DEF NewRoutes
<1>5. ListGateways(r, api) = {}
  BY <1>1, <1>2 DEF ListGateways
<1>6. \A i \in DOMAIN feed[k] : feed[k][i] = o[r]
  BY <1>3
<1>7. VersionsInv(r) /\ GoneInv(r)
  BY <1>3, <1>4, <1>6 DEF VersionsInv, GoneInv, Behind, Unheld
<1>8. StageInv(r) /\ TrafficInv(r)
  BY <1>3 DEF StageInv, TrafficInv
<1>9. GatewaysInv(r)
  BY <1>3, <1>5 DEF GatewaysInv
<1> QED BY <1>7, <1>8, <1>9 DEF RouteInv

LEMMA OthersKeepLife ==
  ASSUME LifeInv, NEW r \in Routes, Others(r)
  PROVE  \A q \in Routes : RouteInv(q)'
  BY EditRouteKeepsLife, DeleteRouteKeepsLife, ChildrenKeepLife DEF Others

LEMMA NextKeepsLife == LifeInv /\ [Next]_vars => LifeInv'
<1> SUFFICES ASSUME LifeInv, [Next]_vars PROVE LifeInv'
  OBVIOUS
<1>1. IInv'
  BY NextKeepsInv DEF LifeInv
<1>2. ASSUME NEW r \in Routes, Start(r) \/ Worker(r) \/ Others(r)
      PROVE  \A q \in Routes : RouteInv(q)'
  <2>1. CASE Panic(r)
    BY <2>1, StopKeepsLife DEF Panic
  <2> QED BY <1>2, <2>1, StartKeepsLife, WorkerKeepsLife, OthersKeepLife
<1>3. CASE Process
  BY <1>1, <1>3, ProcessKeepsLife DEF LifeInv
<1>4. CASE UNCHANGED vars
  <2>1. \A r \in Routes : RouteInv(r)'
    BY <1>4, BystanderKeepsInv DEF LifeInv, vars, ListGateways
  <2> QED BY <1>1, <2>1 DEF LifeInv
<1>5. CASE \E r \in Routes : Start(r) \/ Worker(r) \/ Others(r)
  BY <1>1, <1>2, <1>5 DEF LifeInv
<1> QED BY <1>3, <1>4, <1>5 DEF Next

LEMMA AlwaysLife == Spec => []LifeInv
<1>1. Init => LifeInv
  BY InitInv, InitLife DEF LifeInv
<1> QED BY <1>1, NextKeepsLife, PTL DEF Spec

(* Whatever fails, crashes or is listed too late, a Route that has left    *)
(* the API server has left behind only Gateways that the listing of its    *)
(* last finalization did not show.                                         *)
THEOREM FinalizationsAreComplete == Spec => []FinalizeLeavesOnlyMissed
<1>1. LifeInv => FinalizeLeavesOnlyMissed
  BY DEF LifeInv, RouteInv, GatewaysInv, FinalizeLeavesOnlyMissed
<1> QED BY <1>1, AlwaysLife, PTL

LEMMA FirstAttempt ==
  ASSUME LifeInv, [Next]_vars, NEW r \in Routes, pc[r] = "update", pc'[r] = "idle",
         proc' = "up", run[r].attempt = 0, api'[RouteKey(r)] # Absent
  PROVE  api'[RouteKey(r)].status.traffic = api[RouteKey(r)].status.traffic
<1> DEFINE k == RouteKey(r)
           v == [api[k] EXCEPT !.status = run[r].res.status]
<1>0. TypeOK /\ StoreTyped /\ RouteInv(r) /\ k \in Keys /\ k \in RouteKeys
  BY KeyKinds DEF LifeInv, IInv, TypeOK
<1>1. ASSUME NEW q \in Routes, Worker(q), ~Panic(q), q # r
      PROVE  pc'[r] = pc[r]
  <2>1. Progress(q)
    BY <1>0, <1>1, WorkerProgress DEF LifeInv, IInv, StoreInv
  <2> QED BY <1>0, <1>1, <2>1 DEF Progress, Continues, Finishes, Return, TypeOK, RunsTyped
<1>2. ASSUME NEW q \in Routes, Start(q)
      PROVE  pc'[r] = pc[r]
  BY <1>0, <1>2 DEF Start, Running, TypeOK, RunsTyped
<1>3. ASSUME NEW q \in Routes, Others(q)
      PROVE  pc'[r] = pc[r]
  BY <1>3 DEF Others, EditRoute, DeleteRoute, ServingSync, Admit, Reject, Prune,
              CollectGarbage, WriteGatewayStatus, envUnchanged
<1>4. ASSUME Process
      PROVE  pc'[r] = pc[r]
  BY <1>4 DEF Process, Deliver, Enqueue, Resync, ConfigChange, Crash, Restart, Stop
<1>5. \A q \in Routes : ~Panic(q)
  BY DEF Panic, Stop
<1>6. UpdateStatus(r)
  <2>1. Worker(r) /\ ~Panic(r)
    <3>1. pc'[r] # pc[r]
      OBVIOUS
    <3>2. Next
      BY <3>1 DEF vars
    <3>3. PICK q \in Routes : Start(q) \/ Worker(q) \/ Others(q)
      BY <1>4, <3>1, <3>2 DEF Next
    <3> QED BY <1>1, <1>2, <1>3, <1>5, <3>1, <3>3
  <2> QED BY <2>1 DEF Worker, Running, SetFinalizer, ReconcilePlaceholderServices,
                      CollectHostnames, ReconcileGateway, ReconcileHTTPRoute, PostProcess,
                      Refetch, DeleteGateway, ClearFinalizer
<1>7. \/ UNCHANGED api
      \/ api[k] # Absent /\ ~run[r].stale /\ Write(k, v)
  BY <1>6 DEF UpdateStatus, apiVars
<1>8. CASE api[k] # Absent /\ ~run[r].stale /\ Write(k, v)
  <2>1. api'[k] = v /\ api[k] \in RouteObjects
    BY <1>0, <1>8, WriteEffect DEF StoreTyped
  <2>2. v.status = run[r].res.status
    BY <2>1 DEF RouteObjects
  <2>3. run[r].res.status.traffic = api[k].status.traffic
    BY <1>0, <1>8 DEF RouteInv, TrafficInv
  <2> QED BY <2>1, <2>2, <2>3
<1> QED BY <1>7, <1>8

(* The first attempt of a status update never undoes traffic that serving  *)
(* assigned after the run began.                                           *)
THEOREM FirstWritesKeepTraffic == Spec => FirstWriteKeepsTraffic
<1>1. LifeInv /\ [Next]_vars =>
        [\A r \in Routes :
           LET k == RouteKey(r)
           IN  pc[r] = "update" /\ pc'[r] = "idle" /\ proc' = "up"
                 /\ run[r].attempt = 0 /\ api'[k] # Absent
                 => api'[k].status.traffic = api[k].status.traffic]_vars
  BY FirstAttempt
<1> QED BY <1>1, AlwaysLife, PTL DEF Spec, FirstWriteKeepsTraffic

=============================================================================
