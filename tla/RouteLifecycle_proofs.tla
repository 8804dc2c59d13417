----------------------- MODULE RouteLifecycle_proofs -----------------------
(***************************************************************************)
(* RouteReconciler implements RouteLifecycle, the Gateways that an         *)
(* HTTPRoute of a live Route names exist and its hostnames are bound when  *)
(* they are written, and the children and the readiness of a Route at rest *)
(* are current, for every set of Routes whose Gateways have different      *)
(* names.                                                                  *)
(***************************************************************************)
EXTENDS RouteReconciler_proofs

(* The lemmas about hostnames and listeners, for any Route and traffic.    *)
Walk == INSTANCE ResourcesCheck_proofs
          WITH cfg <- 0, labels <- 0, traffic <- 0, Splittings <- {}, MaxTargets <- 0

(* An absent object is none that the controller makes.                     *)
ObjectsArePresent ==
  /\ \A cfg, r, route, v : MakeGateway(cfg, r, route, v) # Absent
  /\ \A spec, status : [spec |-> spec, status |-> status] # Absent

-----------------------------------------------------------------------------
(* The Gateway keys whose name is made for Route r.                        *)
NamedFor(g, r) == g[3] = GatewayBase[r]

OwnerNamed(g, v) == v # Absent => v.owner \in Routes /\ NamedFor(g, v.owner)

IsSeq(s) == \E S : s \in Seq(S)

(* Every Gateway, stored, listed or on its way, has the name that is made  *)
(* for its owner.                                                          *)
OwnersInv ==
  \A g \in GatewayKeys :
    /\ OwnerNamed(g, api[g])
    /\ OwnerNamed(g, cache[g])
    /\ IsSeq(feed[g])
    /\ \A i \in DOMAIN feed[g] : OwnerNamed(g, feed[g][i])

(* A run visits Gateways of its own Route, and those it collected for the  *)
(* HTTPRoute exist.                                                        *)
LoopInv(r) ==
  /\ \A g \in run[r].todo : NamedFor(g, r)
  /\ \A i \in DOMAIN run[r].refs :
       LET g == run[r].refs[i] IN g \in GatewayKeys /\ NamedFor(g, r) /\ api[g] # Absent
  /\ pc[r] # "gateways" => run[r].refs = << >>

(* An HTTPRoute names Gateways of its Route, which exist as long as the    *)
(* Route is not being deleted.                                             *)
RefsInv(r) ==
  LET h == api[HTTPRouteKey(r)]
      route == api[RouteKey(r)]
  IN  h # Absent =>
        /\ h = [spec |-> h.spec, status |-> h.status]
        /\ \A g \in GatewayRefs(h) :
             /\ g \in GatewayKeys /\ NamedFor(g, r)
             /\ route # Absent /\ ~route.deleting => api[g] # Absent

ChildInv ==
  /\ LifeInv
  /\ OwnersInv
  /\ \A r \in Routes : LoopInv(r) /\ RefsInv(r)

-----------------------------------------------------------------------------
(* The writes that the life of Route r consists of.                        *)

Held(r) == ~Unheld(api[RouteKey(r)])

Live(r) == api[RouteKey(r)] # Absent /\ ~api[RouteKey(r)].deleting

(* A version of the Route: of its labels, spec or status, its finalizer,   *)
(* the mark of its deletion, its end.                                      *)
NextVersion(r, v) ==
  LET route == api[RouteKey(r)]
  IN  /\ route # Absent
      /\ \/ v # Absent /\ v.fin = route.fin /\ v.deleting = route.deleting
         \/ v # Absent /\ v.fin /\ ~v.deleting /\ ~route.deleting
         \/ v # Absent /\ v.fin /\ v.deleting /\ ~route.deleting /\ route.fin
         \/ v = Absent /\ ~route.deleting /\ ~route.fin
         \/ v = Absent /\ route.deleting /\ ListGateways(r, api) \subseteq missed[r]

GatewayVersion(r, g, v) ==
  /\ NamedFor(g, r)
  /\ \/ v # Absent /\ v.owner = r /\ Held(r)
     \/ v = Absent /\ ~Live(r)

Resolves(r, h) ==
  \A g \in GatewayRefs(h) :
    g \in GatewayKeys /\ NamedFor(g, r) /\ (Live(r) => api[g] # Absent)

HTTPRouteVersion(r, v) ==
  \/ v = Absent /\ api[RouteKey(r)] = Absent
  \/ /\ v # Absent /\ v = [spec |-> v.spec, status |-> v.status]
     /\ Resolves(r, v)
     /\ Held(r) \/ api[HTTPRouteKey(r)] # Absent

Chapter(r, k, v) ==
  \/ k = RouteKey(r) /\ NextVersion(r, v)
  \/ k = HTTPRouteKey(r) /\ HTTPRouteVersion(r, v)
  \/ k \in GatewayKeys /\ GatewayVersion(r, k, v)
  \/ k \in ServiceKeys

LEMMA KeySorts ==
  /\ \A r \in Routes : /\ RouteKey(r) \in Keys /\ RouteKey(r)[1] = "Route" /\ RouteKey(r)[2] = r
                       /\ HTTPRouteKey(r) \in Keys /\ HTTPRouteKey(r)[1] = "HTTPRoute"
                       /\ HTTPRouteKey(r)[2] = r
  /\ \A g \in GatewayKeys : g \in Keys /\ g[1] = "Gateway"
  /\ \A k \in ServiceKeys : k \in Keys /\ k[1] = "Service"
<1>1. \A g \in GatewayKeys : g[1] = "Gateway"
  BY DEF GatewayKeys, GatewayKey
<1>2. \A k \in ServiceKeys : k \in Keys /\ k[1] = "Service"
  BY DEF ServiceKeys, ServiceKey, Keys
<1>3. \A r \in Routes : /\ RouteKey(r)[1] = "Route" /\ RouteKey(r)[2] = r
                        /\ HTTPRouteKey(r)[1] = "HTTPRoute" /\ HTTPRouteKey(r)[2] = r
  BY DEF RouteKey, HTTPRouteKey
<1> QED BY <1>1, <1>2, <1>3, KeyKinds

LEMMA ChapterKeepsRefs ==
  ASSUME ChildInv, NEW r \in Routes, NEW k \in Keys, NEW v, Write(k, v), Chapter(r, k, v),
         NEW q \in Routes
  PROVE  RefsInv(q)'
<1> DEFINE h == HTTPRouteKey(q)
           route == RouteKey(q)
<1>0. RefsInv(q) /\ StoreTyped
  BY DEF ChildInv, LifeInv, IInv, TypeOK
<1>1. \A j \in Keys : api'[j] = IF j = k THEN v ELSE api[j]
  BY <1>0, WriteEffect
<1>2. CASE k = RouteKey(r)
  <2>1. /\ api'[h] = api[h]
        /\ \A g \in GatewayKeys : api'[g] = api[g]
        /\ q # r => api'[route] = api[route]
        /\ q = r => api'[route] = v
    BY <1>1, <1>2, KeySorts
  <2>2. NextVersion(r, v)
    BY <1>2, KeySorts DEF Chapter
  <2>3. q = r => (v # Absent /\ ~v.deleting => Live(r))
    BY <2>2 DEF NextVersion, Live
  <2> QED BY <1>0, <2>1, <2>3 DEF RefsInv, Live, GatewayRefs
<1>3. CASE k = HTTPRouteKey(r)
  <2>1. /\ api'[route] = api[route]
        /\ \A g \in GatewayKeys : api'[g] = api[g]
        /\ q # r => api'[h] = api[h]
        /\ q = r => api'[h] = v
    BY <1>1, <1>3, KeySorts
  <2>2. HTTPRouteVersion(r, v)
    BY <1>3, KeySorts DEF Chapter
  <2>3. CASE q = r
    BY <2>1, <2>2, <2>3 DEF HTTPRouteVersion, Resolves, RefsInv, Live, GatewayRefs
  <2>4. CASE q # r
    BY <1>0, <2>1, <2>4 DEF RefsInv, GatewayRefs
  <2> QED BY <2>3, <2>4
<1>4. CASE k \in GatewayKeys
  <2>1. /\ api'[route] = api[route] /\ api'[h] = api[h]
        /\ \A g \in GatewayKeys : g # k => api'[g] = api[g]
        /\ api'[k] = v
    BY <1>1, <1>4, KeySorts
  <2>2. GatewayVersion(r, k, v)
    BY <1>4, KeySorts DEF Chapter
  <2>3. q # r => \A g : NamedFor(g, q) => g # k
    BY <2>2, NamesAssumption DEF GatewayVersion, NamedFor
  <2> QED BY <1>0, <2>1, <2>2, <2>3 DEF RefsInv, GatewayVersion, Live, GatewayRefs
<1>5. CASE k \in ServiceKeys
  <2>1. /\ api'[route] = api[route] /\ api'[h] = api[h]
        /\ \A g \in GatewayKeys : api'[g] = api[g]
    BY <1>1, <1>5, KeySorts
  <2> QED BY <1>0, <2>1 DEF RefsInv, GatewayRefs
<1> QED BY <1>2, <1>3, <1>4, <1>5 DEF Chapter

LEMMA AppendIsSeq ==
  ASSUME NEW s, IsSeq(s), NEW v
  PROVE  /\ IsSeq(Append(s, v))
         /\ \A i \in DOMAIN Append(s, v) :
              Append(s, v)[i] = v \/ \E j \in DOMAIN s : Append(s, v)[i] = s[j]
<1>1. PICK S : s \in Seq(S)
  BY DEF IsSeq
<1> DEFINE T == S \cup {v}
<1>2. s \in Seq(T) /\ v \in T
  BY <1>1
<1> HIDE DEF T
<1>3. Append(s, v) \in Seq(T)
  BY <1>2
<1> QED BY <1>2, <1>3, AppendedElements DEF IsSeq

LEMMA ChapterKeepsOwners ==
  ASSUME ChildInv, NEW r \in Routes, NEW k \in Keys, NEW v, Write(k, v), Chapter(r, k, v),
         UNCHANGED cache
  PROVE  OwnersInv'
<1> SUFFICES ASSUME NEW g \in GatewayKeys
             PROVE  /\ OwnerNamed(g, api'[g])
                    /\ OwnerNamed(g, cache'[g])
                    /\ IsSeq(feed'[g])
                    /\ \A i \in DOMAIN feed'[g] : OwnerNamed(g, feed'[g][i])
  BY DEF OwnersInv, OwnerNamed, IsSeq, NamedFor
<1>0. StoreTyped /\ g \in Keys
  BY KeySorts DEF ChildInv, LifeInv, IInv, TypeOK
<1>1. /\ OwnerNamed(g, api[g]) /\ OwnerNamed(g, cache[g]) /\ IsSeq(feed[g])
      /\ \A i \in DOMAIN feed[g] : OwnerNamed(g, feed[g][i])
  BY DEF ChildInv, OwnersInv
<1>2. CASE k # g
  BY <1>0, <1>1, <1>2, WriteEffect
<1>3. CASE k = g
  <2>1. OwnerNamed(g, v)
    BY <1>3, KeySorts DEF Chapter, GatewayVersion, OwnerNamed
  <2>2. /\ api'[g] = v
        /\ feed'[g] = feed[g] \/ feed'[g] = Append(feed[g], v)
    BY <1>0, <1>3, WriteEffect
  <2>3. CASE feed'[g] = feed[g]
    BY <1>1, <2>1, <2>2, <2>3
  <2>4. CASE feed'[g] = Append(feed[g], v)
    <3> DEFINE s == feed[g]
    <3>1. IsSeq(s) /\ \A i \in DOMAIN s : OwnerNamed(g, s[i])
      BY <1>1
    <3>2. feed'[g] = Append(s, v)
      BY <2>4
    <3> HIDE DEF s
    <3>3. IsSeq(Append(s, v)) /\ \A i \in DOMAIN Append(s, v) : OwnerNamed(g, Append(s, v)[i])
      BY <2>1, <3>1, AppendIsSeq
    <3> QED BY <1>1, <2>1, <2>2, <3>2, <3>3
  <2> QED BY <2>2, <2>3, <2>4
<1> QED BY <1>2, <1>3

-----------------------------------------------------------------------------
(* Every such write is a step of the Lifecycle, or no step of it.          *)

LEMMA NextVersionRefines ==
  ASSUME ChildInv, NEW r \in Routes, NEW v, Write(RouteKey(r), v), NextVersion(r, v),
         UNCHANGED missed
  PROVE  Lifecycle!Next \/ UNCHANGED Lifecycle!vars
<1> DEFINE route == api[RouteKey(r)]
<1>0. StoreTyped
  BY DEF ChildInv, LifeInv, IInv, TypeOK
<1>1. /\ api'[RouteKey(r)] = v
      /\ \A q \in Routes : q # r => api'[RouteKey(q)] = api[RouteKey(q)]
      /\ \A q \in Routes : api'[HTTPRouteKey(q)] = api[HTTPRouteKey(q)]
  BY <1>0, WriteEffect, KeySorts
<1>2. \A q \in Routes : ListGateways(q, api') = ListGateways(q, api)
  BY <1>0, GatewaysAfterWrite, KeySorts
<1>3. route # Absent
  BY DEF NextVersion
<1>4. CASE v # Absent /\ v.fin = route.fin /\ v.deleting = route.deleting
  BY <1>1, <1>2, <1>3, <1>4 DEF Lifecycle!vars
<1>5. CASE v # Absent /\ v.fin /\ ~v.deleting /\ ~route.deleting
  BY <1>1, <1>2, <1>3, <1>5 DEF Lifecycle!Next, Lifecycle!Hold
<1>6. CASE v # Absent /\ v.fin /\ v.deleting /\ ~route.deleting /\ route.fin
  BY <1>1, <1>2, <1>3, <1>6 DEF Lifecycle!Next, Lifecycle!Delete
<1>7. CASE v = Absent /\ ~route.deleting /\ ~route.fin
  BY <1>1, <1>2, <1>3, <1>7 DEF Lifecycle!Next, Lifecycle!Delete
<1>8. CASE v = Absent /\ route.deleting /\ ListGateways(r, api) \subseteq missed[r]
  BY <1>1, <1>2, <1>3, <1>8 DEF Lifecycle!Next, Lifecycle!Release
<1> QED BY <1>4, <1>5, <1>6, <1>7, <1>8 DEF NextVersion

LEMMA GatewayVersionRefines ==
  ASSUME ChildInv, NEW r \in Routes, NEW g \in GatewayKeys, NEW v, Write(g, v),
         GatewayVersion(r, g, v), UNCHANGED missed
  PROVE  Lifecycle!Next \/ UNCHANGED Lifecycle!vars
<1>0. StoreTyped /\ OwnerNamed(g, api[g]) /\ NamedFor(g, r)
  BY DEF ChildInv, OwnersInv, LifeInv, IInv, TypeOK, GatewayVersion
<1>1. \A q \in Routes : /\ api'[RouteKey(q)] = api[RouteKey(q)]
                        /\ api'[HTTPRouteKey(q)] = api[HTTPRouteKey(q)]
  BY <1>0, WriteEffect, KeySorts
<1>2. \A j \in GatewayKeys : api'[j] = IF j = g THEN v ELSE api[j]
  BY <1>0, WriteEffect, KeySorts
<1>3. api[g] # Absent => api[g].owner = r
  BY <1>0, NamesAssumption DEF OwnerNamed, NamedFor
<1>4. CASE v # Absent /\ v.owner = r /\ Held(r)
  <2>1. /\ ListGateways(r, api') = ListGateways(r, api) \cup {g}
        /\ \A q \in Routes : q # r => ListGateways(q, api') = ListGateways(q, api)
    BY <1>2, <1>3, <1>4 DEF ListGateways
  <2>2. api[RouteKey(r)] # Absent /\ api[RouteKey(r)].fin
    BY <1>4 DEF Held, Unheld
  <2>3. Lifecycle!Build(r, g)
    BY <1>1, <2>1, <2>2 DEF Lifecycle!Build
  <2> QED BY <2>3 DEF Lifecycle!Next
<1>5. CASE v = Absent /\ ~Live(r)
  <2>1. /\ ListGateways(r, api') = ListGateways(r, api) \ {g}
        /\ \A q \in Routes : q # r => ListGateways(q, api') = ListGateways(q, api)
    BY <1>2, <1>3, <1>5 DEF ListGateways
  <2>2. Lifecycle!TearDown(r, g)
    BY <1>1, <1>5, <2>1 DEF Lifecycle!TearDown, Live
  <2> QED BY <2>2 DEF Lifecycle!Next
<1> QED BY <1>4, <1>5 DEF GatewayVersion

LEMMA HTTPRouteVersionRefines ==
  ASSUME ChildInv, NEW r \in Routes, NEW v, Write(HTTPRouteKey(r), v),
         HTTPRouteVersion(r, v), UNCHANGED missed
  PROVE  Lifecycle!Next \/ UNCHANGED Lifecycle!vars
<1>0. StoreTyped
  BY DEF ChildInv, LifeInv, IInv, TypeOK
<1>1. /\ api'[HTTPRouteKey(r)] = v
      /\ \A q \in Routes : q # r => api'[HTTPRouteKey(q)] = api[HTTPRouteKey(q)]
      /\ \A q \in Routes : api'[RouteKey(q)] = api[RouteKey(q)]
  BY <1>0, WriteEffect, KeySorts
<1>2. \A q \in Routes : ListGateways(q, api') = ListGateways(q, api)
  BY <1>0, GatewaysAfterWrite, KeySorts
<1>3. CASE v = Absent /\ api[RouteKey(r)] = Absent
  BY <1>1, <1>2, <1>3 DEF Lifecycle!Next, Lifecycle!Collect
<1>4. CASE v # Absent /\ Held(r)
  BY <1>1, <1>2, <1>4 DEF Lifecycle!Next, Lifecycle!Bind, Held, Unheld
<1>5. CASE v # Absent /\ api[HTTPRouteKey(r)] # Absent
  BY <1>1, <1>2, <1>5 DEF Lifecycle!vars
<1> QED BY <1>3, <1>4, <1>5 DEF HTTPRouteVersion

LEMMA ChapterRefines ==
  ASSUME ChildInv, NEW r \in Routes, NEW k \in Keys, NEW v, Write(k, v), Chapter(r, k, v),
         UNCHANGED missed
  PROVE  Lifecycle!Next \/ UNCHANGED Lifecycle!vars
<1>1. CASE k \in ServiceKeys
  <2>1. StoreTyped
    BY DEF ChildInv, LifeInv, IInv, TypeOK
  <2>2. \A q \in Routes : /\ api'[RouteKey(q)] = api[RouteKey(q)]
                          /\ api'[HTTPRouteKey(q)] = api[HTTPRouteKey(q)]
    BY <1>1, <2>1, WriteEffect, KeySorts
  <2>3. \A q \in Routes : ListGateways(q, api') = ListGateways(q, api)
    BY <1>1, <2>1, GatewaysAfterWrite, KeySorts
  <2> QED BY <2>2, <2>3 DEF Lifecycle!vars
<1> QED BY <1>1, NextVersionRefines, GatewayVersionRefines, HTTPRouteVersionRefines DEF Chapter

LEMMA NoChapterRefines ==
  ASSUME UNCHANGED <<api, missed>>
  PROVE  UNCHANGED Lifecycle!vars
  BY DEF Lifecycle!vars, ListGateways

(* A finalization lists.                                                   *)
LEMMA StartRefines ==
  ASSUME ChildInv, NEW r \in Routes, Start(r)
  PROVE  Lifecycle!Next \/ UNCHANGED Lifecycle!vars
<1> DEFINE k == RouteKey(r)
           listed == ListGateways(r, cache)
<1>1. UNCHANGED api
  BY DEF Start
<1>2. CASE UNCHANGED missed
  BY <1>1, <1>2, NoChapterRefines
<1>3. CASE ~ UNCHANGED missed
  <2>1. /\ cache[k] # Absent /\ cache[k].deleting /\ api[k] # Absent
        /\ missed' = [missed EXCEPT ![r] = ListGateways(r, api) \ listed]
    BY <1>3 DEF Start, histVars
  <2>2. api[k].deleting
    BY <2>1 DEF ChildInv, LifeInv, RouteInv, VersionsInv, Behind
  <2>3. \A q \in Routes : ListGateways(q, api') = ListGateways(q, api)
    BY <1>1
  <2> QED BY <1>1, <2>1, <2>2, <2>3 DEF Lifecycle!Next, Lifecycle!Finalize
<1> QED BY <1>2, <1>3

-----------------------------------------------------------------------------
(* The steps of Route r's worker, and of others on r and its HTTPRoute:    *)
(* they write what a Chapter allows and keep the loops within r.           *)

Narrates(r) ==
  /\ UNCHANGED <<cache, missed>>
  /\ \/ UNCHANGED apiVars
     \/ \E k \in Keys : \E v : Write(k, v) /\ Chapter(r, k, v)
  /\ \A q \in Routes : q # r => pc'[q] = pc[q] /\ run'[q] = run[q]
  /\ LoopInv(r)'

LEMMA NarrationIsSound ==
  ASSUME ChildInv, NEW r \in Routes, Narrates(r)
  PROVE  /\ OwnersInv'
         /\ \A q \in Routes : LoopInv(q)' /\ RefsInv(q)'
         /\ Lifecycle!Next \/ UNCHANGED Lifecycle!vars
<1>1. UNCHANGED <<cache, missed>> /\ LoopInv(r)'
  BY DEF Narrates
<1>2. CASE UNCHANGED apiVars
  <2>1. OwnersInv' /\ \A q \in Routes : RefsInv(q)'
    BY <1>1, <1>2 DEF ChildInv, OwnersInv, OwnerNamed, IsSeq, NamedFor, RefsInv, GatewayRefs, apiVars
  <2>2. \A q \in Routes : q # r => LoopInv(q)'
    BY <1>2 DEF Narrates, ChildInv, LoopInv, NamedFor, apiVars
  <2>3. UNCHANGED Lifecycle!vars
    BY <1>1, <1>2, NoChapterRefines DEF apiVars
  <2> QED BY <1>1, <2>1, <2>2, <2>3
<1>3. ASSUME NEW k \in Keys, NEW v, Write(k, v), Chapter(r, k, v)
      PROVE  /\ OwnersInv'
             /\ \A q \in Routes : LoopInv(q)' /\ RefsInv(q)'
             /\ Lifecycle!Next \/ UNCHANGED Lifecycle!vars
  <2>1. ASSUME NEW q \in Routes, q # r
        PROVE  LoopInv(q)'
    <3>1. LoopInv(q) /\ pc'[q] = pc[q] /\ run'[q] = run[q] /\ StoreTyped
      BY <2>1 DEF Narrates, ChildInv, LifeInv, IInv, TypeOK
    <3>2. ASSUME NEW g \in GatewayKeys, NamedFor(g, q)
          PROVE  api'[g] = api[g]
      <4>1. k \in GatewayKeys => NamedFor(k, r)
        BY <1>3, KeySorts DEF Chapter, GatewayVersion
      <4>2. g # k
        BY <2>1, <3>2, <4>1, NamesAssumption DEF NamedFor
      <4> QED BY <1>3, <3>1, <4>2, WriteEffect, KeySorts
    <3> QED BY <3>1, <3>2 DEF LoopInv, NamedFor
  <2> QED BY <1>1, <1>3, <2>1, ChapterKeepsOwners, ChapterKeepsRefs, ChapterRefines
<1> QED BY <1>2, <1>3 DEF Narrates

LEMMA LoopGoesOn ==
  ASSUME NEW r \in Routes, LoopInv(r),
         run'[r].refs = << >>, run'[r].todo \subseteq run[r].todo
  PROVE  LoopInv(r)'
  BY DEF LoopInv, NamedFor

(* A worker's step that collects nothing.                                  *)
LEMMA PlainStepNarrates ==
  ASSUME ChildInv, NEW r \in Routes, UNCHANGED <<cache, missed>>,
         \/ UNCHANGED apiVars
         \/ \E k \in Keys : \E v : Write(k, v) /\ Chapter(r, k, v),
         \A q \in Routes : q # r => pc'[q] = pc[q] /\ run'[q] = run[q],
         run'[r].refs = << >>, run'[r].todo \subseteq run[r].todo
  PROVE  Narrates(r)
  BY LoopGoesOn DEF Narrates, ChildInv

LEMMA ReturnEnds ==
  ASSUME ChildInv, NEW r \in Routes, \E err : Return(r, err)
  PROVE  /\ \A q \in Routes : q # r => pc'[q] = pc[q] /\ run'[q] = run[q]
         /\ run'[r].refs = << >> /\ run'[r].todo = {}
<1>1. TypeOK
  BY DEF ChildInv, LifeInv, IInv
<1>2. NoRun.refs = << >> /\ NoRun.todo = {}
  BY DEF NoRun
<1> HIDE DEF NoRun
<1> QED BY <1>1, <1>2, ReturnEffect

LEMMA FailEnds ==
  ASSUME ChildInv, NEW r \in Routes, Fail(r)
  PROVE  /\ \A q \in Routes : q # r => pc'[q] = pc[q] /\ run'[q] = run[q]
         /\ run'[r].refs = << >> /\ run'[r].todo = {}
<1> DEFINE x == [run[r] EXCEPT !.todo = {}, !.refs = << >>, !.failed = TRUE]
<1>1. TypeOK /\ run[r] \in Runs
  BY DEF ChildInv, LifeInv, IInv, TypeOK, RunsTyped
<1>2. x.refs = << >> /\ x.todo = {}
  BY <1>1 DEF Runs
<1>3. Goto(r, "post", x)
  BY DEF Fail
<1> HIDE DEF x
<1> QED BY <1>1, <1>2, <1>3, GotoEffect

LEMMA ReturnNarrates ==
  ASSUME ChildInv, NEW r \in Routes, UNCHANGED <<apiVars, cache, missed>>,
         \E err : Return(r, err)
  PROVE  Narrates(r)
  BY ReturnEnds, PlainStepNarrates

LEMMA SetFinalizerNarrates ==
  ASSUME ChildInv, NEW r \in Routes, SetFinalizer(r)
  PROVE  Narrates(r)
<1> DEFINE k == RouteKey(r)
           patched == [api[k] EXCEPT !.fin = TRUE]
<1>0. /\ TypeOK /\ StoreTyped /\ RouteInv(r) /\ LoopInv(r)
      /\ k \in Keys /\ k \in RouteKeys
  BY KeyKinds DEF ChildInv, LifeInv, IInv, TypeOK
<1>1. pc[r] = "finalizer" /\ proc = "up" /\ UNCHANGED <<cache, missed>>
  BY DEF SetFinalizer, Running
<1>2. run[r] \in Runs /\ run[r].refs = << >>
  BY <1>0, <1>1 DEF TypeOK, RunsTyped, LoopInv
<1>3. ASSUME NEW res, NEW b, BeginReconcile(r, res, b)
      PROVE  /\ \A q \in Routes : q # r => pc'[q] = pc[q] /\ run'[q] = run[q]
             /\ run'[r].refs = << >> /\ run'[r].todo = run[r].todo
  <2> DEFINE fresh == IF res.status.obs = res.gen THEN res
                      ELSE [res EXCEPT !.status.ready = FALSE]
             x == [run[r] EXCEPT !.res = fresh, !.stale = b]
             stage == IF res.enabled THEN "services" ELSE "post"
  <2>1. x.refs = << >> /\ x.todo = run[r].todo
    <3> HIDE DEF fresh
    <3> QED BY <1>2 DEF Runs
  <2>2. Goto(r, stage, x)
    BY <1>3 DEF BeginReconcile
  <2> HIDE DEF x, stage
  <2> QED BY <1>0, <2>1, <2>2, GotoEffect
<1>4. CASE Return(r, TRUE) /\ UNCHANGED apiVars
  BY <1>1, <1>4, ReturnNarrates
<1>5. CASE BeginReconcile(r, run[r].res, run[r].stale) /\ UNCHANGED apiVars
  BY <1>1, <1>3, <1>5, PlainStepNarrates
<1>6. ASSUME cache[k] # Absent, ~cache[k].fin, feed[k] = << >>, Write(k, patched),
             BeginReconcile(r, patched, TRUE) \/ Return(r, TRUE)
      PROVE  Narrates(r)
  <2>1. api[k] = cache[k] /\ api[k] \in RouteObjects
    BY <1>0, <1>1, <1>6 DEF ChildInv, LifeInv, IInv, WatchInv, StoreTyped
  <2>2. patched # Absent
    BY <2>1, RouteChanges, AbsentAssumption
  <2>3. patched.fin /\ patched.deleting = api[k].deleting
    BY <2>1 DEF RouteObjects
  <2>4. ~api[k].deleting
    BY <1>0, <1>6, <2>1 DEF RouteInv, VersionsInv, Behind
  <2> HIDE DEF patched
  <2>5. Chapter(r, k, patched)
    BY <1>6, <2>1, <2>2, <2>3, <2>4 DEF Chapter, NextVersion
  <2>6. /\ \A q \in Routes : q # r => pc'[q] = pc[q] /\ run'[q] = run[q]
        /\ run'[r].refs = << >> /\ run'[r].todo \subseteq run[r].todo
    BY <1>3, <1>6, ReturnEnds
  <2> QED BY <1>0, <1>1, <1>6, <2>5, <2>6, PlainStepNarrates
<1>7. \/ Return(r, TRUE) /\ UNCHANGED apiVars
      \/ BeginReconcile(r, run[r].res, run[r].stale) /\ UNCHANGED apiVars
      \/ /\ cache[k] # Absent /\ ~cache[k].fin /\ feed[k] = << >>
         /\ Write(k, patched)
         /\ BeginReconcile(r, patched, TRUE) \/ Return(r, TRUE)
  BY DEF SetFinalizer
<1> QED BY <1>4, <1>5, <1>6, <1>7

LEMMA ServicesNarrate ==
  ASSUME ChildInv, NEW r \in Routes, ReconcilePlaceholderServices(r)
  PROVE  Narrates(r)
<1> DEFINE traffic == run[r].res.status.traffic
           desired == MakePlaceholderService(run[r].cfg, run[r].res)
           next == Goto(r, "plan", run[r])
<1>0. TypeOK /\ LoopInv(r)
  BY DEF ChildInv, LifeInv, IInv
<1>1. pc[r] = "services" /\ UNCHANGED <<cache, missed>>
  BY DEF ReconcilePlaceholderServices, Running
<1>2. run[r].res \in RouteObjects /\ run[r].refs = << >>
  BY <1>0, <1>1 DEF TypeOK, RunsTyped, LoopInv
<1>3. ASSUME next \/ Fail(r)
      PROVE  /\ \A q \in Routes : q # r => pc'[q] = pc[q] /\ run'[q] = run[q]
             /\ run'[r].refs = << >> /\ run'[r].todo \subseteq run[r].todo
  BY <1>0, <1>2, <1>3, GotoEffect, FailEnds
<1>4. ASSUME NEW i \in DOMAIN traffic,
             PutChild(r, ServiceKey(r, traffic[i].tag), desired, next)
      PROVE  Narrates(r)
  <2> DEFINE k == ServiceKey(r, traffic[i].tag)
  <2>1. k \in ServiceKeys /\ k \in Keys
    BY <1>2, <1>4, TagsAssumption, KeySorts DEF RouteObjects, Statuses, ServiceKeys
  <2>2. UNCHANGED apiVars \/ Write(k, desired)
    BY <1>4 DEF PutChild
  <2>3. next \/ Fail(r)
    BY <1>4 DEF PutChild
  <2>4. Chapter(r, k, desired)
    BY <2>1 DEF Chapter
  <2> HIDE DEF k, desired, next
  <2> QED BY <1>1, <1>3, <2>1, <2>2, <2>3, <2>4, PlainStepNarrates
<1>5. CASE next /\ UNCHANGED apiVars
  <2> HIDE DEF next
  <2> QED BY <1>1, <1>3, <1>5, PlainStepNarrates
<1> QED BY <1>4, <1>5 DEF ReconcilePlaceholderServices

LEMMA CollectHostnamesNarrates ==
  ASSUME ChildInv, NEW r \in Routes, CollectHostnames(r)
  PROVE  Narrates(r)
<1> DEFINE keys == {GatewayKey(run[r].cfg, r, v) : v \in RouteVisibilities(run[r].res)}
           x == [run[r] EXCEPT !.todo = keys]
<1>0. TypeOK /\ LoopInv(r)
  BY DEF ChildInv, LifeInv, IInv
<1>1. pc[r] = "plan" /\ UNCHANGED <<apiVars, cache, missed>>
  BY DEF CollectHostnames, Running
<1>2. run[r] \in Runs /\ run[r].refs = << >>
  BY <1>0, <1>1 DEF TypeOK, RunsTyped, LoopInv
<1>3. \A g \in keys : NamedFor(g, r)
  BY DEF GatewayKey, NamedFor
<1>4. x.refs = << >> /\ x.todo = keys
  <2> HIDE DEF keys
  <2> QED BY <1>2 DEF Runs
<1>5. Goto(r, "gateways", run[r]) \/ Fail(r) \/ Goto(r, "gateways", x)
  BY DEF CollectHostnames
<1> HIDE DEF x, keys
<1>6. CASE Goto(r, "gateways", run[r]) \/ Fail(r)
  <2>1. /\ \A q \in Routes : q # r => pc'[q] = pc[q] /\ run'[q] = run[q]
        /\ run'[r].refs = << >> /\ run'[r].todo \subseteq run[r].todo
    BY <1>0, <1>2, <1>6, GotoEffect, FailEnds
  <2> QED BY <1>1, <2>1, PlainStepNarrates
<1>7. CASE Goto(r, "gateways", x)
  <2>1. /\ run'[r] = x
        /\ \A q \in Routes : q # r => pc'[q] = pc[q] /\ run'[q] = run[q]
    BY <1>0, <1>7, GotoEffect
  <2>2. LoopInv(r)'
    BY <1>3, <1>4, <2>1 DEF LoopInv, NamedFor
  <2> QED BY <1>1, <2>1, <2>2 DEF Narrates
<1> QED BY <1>5, <1>6, <1>7

(* The Gateway that a run collects is the one it has just written.         *)
LEMMA GatewayNarrates ==
  ASSUME ObjectsArePresent, ChildInv, NEW r \in Routes, NEW g \in GatewayKeys,
         ReconcileGateway(r, g)
  PROVE  Narrates(r)
<1> DEFINE desired == MakeGateway(run[r].cfg, r, run[r].res, g[4])
           skip == [run[r] EXCEPT !.todo = @ \ {g}]
           done == [skip EXCEPT !.refs = Append(@, g)]
           refs == run[r].refs
<1>0. TypeOK /\ StoreTyped /\ LoopInv(r) /\ g \in Keys
  BY KeySorts DEF ChildInv, LifeInv, IInv, TypeOK
<1>1. pc[r] = "gateways" /\ g \in run[r].todo /\ UNCHANGED <<cache, missed>>
  BY DEF ReconcileGateway, Running
<1>2. run[r] \in Runs /\ Held(r) /\ NamedFor(g, r)
  BY <1>0, <1>1 DEF TypeOK, RunsTyped, ChildInv, LifeInv, RouteInv, StageInv, LoopInv, Held
<1>3. /\ skip.refs = refs /\ skip.todo = run[r].todo \ {g}
      /\ done.refs = Append(refs, g) /\ done.todo = run[r].todo \ {g}
      /\ refs \in Seq(GatewayKeys)
  BY <1>2 DEF Runs
<1>4. desired # Absent /\ desired.owner = r
  BY DEF ObjectsArePresent, MakeGateway
<1>5. \/ UNCHANGED apiVars /\ Goto(r, "gateways", skip)
      \/ Write(g, desired) /\ Goto(r, "gateways", done)
      \/ (UNCHANGED apiVars \/ Write(g, desired)) /\ Fail(r)
  BY DEF ReconcileGateway, PutChild
<1> HIDE DEF skip, done, desired, refs
<1>6. Chapter(r, g, desired)
  BY <1>2, <1>4 DEF Chapter, GatewayVersion
<1>7. CASE UNCHANGED apiVars /\ Goto(r, "gateways", skip)
  <2>1. /\ run'[r] = skip /\ pc'[r] = "gateways"
        /\ \A q \in Routes : q # r => pc'[q] = pc[q] /\ run'[q] = run[q]
    BY <1>0, <1>7, GotoEffect
  <2>2. LoopInv(r)'
    BY <1>0, <1>3, <1>7, <2>1 DEF LoopInv, NamedFor, apiVars, refs
  <2> QED BY <1>1, <1>7, <2>1, <2>2 DEF Narrates
<1>8. CASE Write(g, desired) /\ Goto(r, "gateways", done)
  <2>1. /\ run'[r] = done /\ pc'[r] = "gateways"
        /\ \A q \in Routes : q # r => pc'[q] = pc[q] /\ run'[q] = run[q]
    BY <1>0, <1>8, GotoEffect
  <2>2. \A j \in Keys : api'[j] = IF j = g THEN desired ELSE api[j]
    BY <1>0, <1>8, WriteEffect
  <2>3. \A i \in DOMAIN refs : refs[i] \in GatewayKeys /\ NamedFor(refs[i], r) /\ api[refs[i]] # Absent
    BY <1>0 DEF LoopInv, refs
  <2>4. ASSUME NEW i \in DOMAIN Append(refs, g)
        PROVE  LET j == Append(refs, g)[i]
               IN  j \in GatewayKeys /\ NamedFor(j, r) /\ api'[j] # Absent
    <3>1. Append(refs, g)[i] = g \/ \E m \in DOMAIN refs : Append(refs, g)[i] = refs[m]
      BY <1>3, AppendedElements
    <3> QED BY <1>2, <1>4, <2>2, <2>3, <3>1, KeySorts
  <2>5. LoopInv(r)'
    BY <1>0, <1>3, <2>1, <2>4 DEF LoopInv, NamedFor
  <2> QED BY <1>0, <1>1, <1>6, <1>8, <2>1, <2>5 DEF Narrates
<1>9. CASE (UNCHANGED apiVars \/ Write(g, desired)) /\ Fail(r)
  BY <1>0, <1>1, <1>6, <1>9, FailEnds, PlainStepNarrates
<1> QED BY <1>5, <1>7, <1>8, <1>9

(* The HTTPRoute names the Gateways that the run collected.                *)
LEMMA HTTPRouteNarrates ==
  ASSUME ObjectsArePresent, ChildInv, NEW r \in Routes, ReconcileHTTPRoute(r)
  PROVE  Narrates(r)
<1> DEFINE k == HTTPRouteKey(r)
           refs == run[r].refs
           stored(d) == [spec |-> d,
                         status |-> IF api[k] = Absent THEN << >> ELSE api[k].status]
<1>0. TypeOK /\ LoopInv(r) /\ k \in Keys
  BY KeySorts DEF ChildInv, LifeInv, IInv
<1>1. pc[r] = "gateways" /\ UNCHANGED <<cache, missed>>
  BY DEF ReconcileHTTPRoute, Running
<1>2. run[r] \in Runs /\ Held(r)
  BY <1>0, <1>1 DEF TypeOK, RunsTyped, ChildInv, LifeInv, RouteInv, StageInv, Held
<1>3. ASSUME NEW h, PropagateReadiness(r, h)
      PROVE  /\ \A q \in Routes : q # r => pc'[q] = pc[q] /\ run'[q] = run[q]
             /\ run'[r].refs = << >> /\ run'[r].todo = run[r].todo
  <2> DEFINE st == IngressStatus(run[r].res.status, IsHTTPRouteReady(h))
             res == [run[r].res EXCEPT !.status = st]
             x == [run[r] EXCEPT !.refs = << >>, !.res = res]
  <2>1. x.refs = << >> /\ x.todo = run[r].todo
    <3> HIDE DEF res
    <3> QED BY <1>2 DEF Runs
  <2>2. Goto(r, "post", x)
    BY <1>3 DEF PropagateReadiness
  <2> HIDE DEF x
  <2> QED BY <1>0, <2>1, <2>2, GotoEffect
<1>4. PICK d \in MakeHTTPRoute(run[r].cfg, r, run[r].res, refs) :
        \/ PropagateReadiness(r, cache[k]) /\ UNCHANGED <<apiVars, budget>>
        \/ PutChild(r, k, stored(d), PropagateReadiness(r, stored(d)))
  BY DEF ReconcileHTTPRoute
<1> DEFINE v == stored(d)
<1>5. UNCHANGED apiVars \/ Write(k, v)
  <2> HIDE DEF stored
  <2> QED BY <1>4 DEF PutChild
<1>6. PropagateReadiness(r, cache[k]) \/ PropagateReadiness(r, v) \/ Fail(r)
  <2> HIDE DEF stored
  <2> QED BY <1>4 DEF PutChild
<1>7. d.refs = refs
  BY <1>4 DEF MakeHTTPRoute
<1>8. v # Absent /\ v = [spec |-> v.spec, status |-> v.status] /\ v.spec = d
  BY DEF ObjectsArePresent
<1> HIDE DEF v
<1>9. Chapter(r, k, v)
  <2>1. Resolves(r, v)
    BY <1>0, <1>7, <1>8 DEF Resolves, GatewayRefs, LoopInv
  <2> QED BY <1>2, <1>8, <2>1 DEF Chapter, HTTPRouteVersion
<1>10. /\ \A q \in Routes : q # r => pc'[q] = pc[q] /\ run'[q] = run[q]
       /\ run'[r].refs = << >> /\ run'[r].todo \subseteq run[r].todo
  BY <1>3, <1>6, FailEnds
<1> HIDE DEF k
<1> QED BY <1>0, <1>1, <1>5, <1>9, <1>10, PlainStepNarrates

LEMMA PostProcessNarrates ==
  ASSUME ChildInv, NEW r \in Routes, PostProcess(r)
  PROVE  Narrates(r)
<1> DEFINE status == [run[r].res.status EXCEPT !.obs = run[r].res.gen]
           res == [run[r].res EXCEPT !.status = status]
           x == [run[r] EXCEPT !.res = res]
<1>0. TypeOK /\ LoopInv(r)
  BY DEF ChildInv, LifeInv, IInv
<1>1. pc[r] = "post" /\ UNCHANGED <<apiVars, cache, missed>>
  BY DEF PostProcess, Running
<1>2. run[r] \in Runs /\ run[r].refs = << >>
  BY <1>0, <1>1 DEF TypeOK, RunsTyped, LoopInv
<1>3. x.refs = << >> /\ x.todo = run[r].todo
  <2> HIDE DEF res
  <2> QED BY <1>2 DEF Runs
<1>4. Return(r, run[r].failed) \/ Goto(r, "update", x)
  BY DEF PostProcess
<1> HIDE DEF x
<1>5. CASE Goto(r, "update", x)
  BY <1>0, <1>1, <1>3, <1>5, GotoEffect, PlainStepNarrates
<1> QED BY <1>1, <1>4, <1>5, ReturnNarrates

LEMMA RefetchNarrates ==
  ASSUME ChildInv, NEW r \in Routes, Refetch(r)
  PROVE  Narrates(r)
<1> DEFINE x == [run[r] EXCEPT !.stale = FALSE]
<1>0. TypeOK /\ LoopInv(r)
  BY DEF ChildInv, LifeInv, IInv
<1>1. pc[r] = "refetch" /\ UNCHANGED <<apiVars, cache, missed>>
  BY DEF Refetch, Running
<1>2. run[r] \in Runs /\ run[r].refs = << >>
  BY <1>0, <1>1 DEF TypeOK, RunsTyped, LoopInv
<1>3. x.refs = << >> /\ x.todo = run[r].todo
  BY <1>2 DEF Runs
<1>4. Return(r, TRUE) \/ Return(r, run[r].failed) \/ Goto(r, "update", x)
  BY DEF Refetch
<1> HIDE DEF x
<1>5. CASE Goto(r, "update", x)
  BY <1>0, <1>1, <1>3, <1>5, GotoEffect, PlainStepNarrates
<1> QED BY <1>1, <1>4, <1>5, ReturnNarrates

LEMMA UpdateStatusNarrates ==
  ASSUME ChildInv, NEW r \in Routes, UpdateStatus(r)
  PROVE  Narrates(r)
<1> DEFINE k == RouteKey(r)
           v == [api[k] EXCEPT !.status = run[r].res.status]
           x == [run[r] EXCEPT !.attempt = @ + 1]
<1>0. TypeOK /\ StoreTyped /\ LoopInv(r) /\ k \in Keys /\ k \in RouteKeys
  BY KeyKinds DEF ChildInv, LifeInv, IInv, TypeOK
<1>1. pc[r] = "update" /\ UNCHANGED <<cache, missed>>
  BY DEF UpdateStatus, Running
<1>2. run[r] \in Runs /\ run[r].res \in RouteObjects /\ run[r].refs = << >>
  BY <1>0, <1>1 DEF TypeOK, RunsTyped, LoopInv
<1>3. x.refs = << >> /\ x.todo = run[r].todo
  BY <1>2 DEF Runs
<1>4. \/ UNCHANGED apiVars /\ \E err : Return(r, err)
      \/ UNCHANGED apiVars /\ Goto(r, "refetch", x)
      \/ api[k] # Absent /\ Write(k, v) /\ \E err : Return(r, err)
  BY DEF UpdateStatus
<1> HIDE DEF x
<1>5. CASE UNCHANGED apiVars /\ \E err : Return(r, err)
  BY <1>1, <1>5, ReturnNarrates
<1>6. CASE UNCHANGED apiVars /\ Goto(r, "refetch", x)
  BY <1>0, <1>1, <1>3, <1>6, GotoEffect, PlainStepNarrates
<1>7. CASE api[k] # Absent /\ Write(k, v) /\ \E err : Return(r, err)
  <2>1. api[k] \in RouteObjects
    BY <1>0, <1>7 DEF StoreTyped
  <2>2. v # Absent
    BY <1>2, <2>1, RouteChanges, AbsentAssumption
  <2>3. v.fin = api[k].fin /\ v.deleting = api[k].deleting
    BY <2>1 DEF RouteObjects
  <2> HIDE DEF v
  <2>4. Chapter(r, k, v)
    BY <1>7, <2>2, <2>3 DEF Chapter, NextVersion
  <2> QED BY <1>0, <1>1, <1>7, <2>4, ReturnEnds, PlainStepNarrates
<1> QED BY <1>4, <1>5, <1>6, <1>7

LEMMA DeleteGatewayNarrates ==
  ASSUME ChildInv, NEW r \in Routes, NEW g \in GatewayKeys, DeleteGateway(r, g)
  PROVE  Narrates(r)
<1> DEFINE x == [run[r] EXCEPT !.todo = @ \ {g}]
<1>0. TypeOK /\ LoopInv(r) /\ g \in Keys
  BY KeySorts DEF ChildInv, LifeInv, IInv
<1>1. pc[r] = "delete" /\ g \in run[r].todo /\ UNCHANGED <<cache, missed>>
  BY DEF DeleteGateway, Running
<1>2. run[r] \in Runs /\ run[r].refs = << >> /\ NamedFor(g, r)
  BY <1>0, <1>1 DEF TypeOK, RunsTyped, LoopInv
<1>3. x.refs = << >> /\ x.todo \subseteq run[r].todo
  BY <1>2 DEF Runs
<1>4. /\ UNCHANGED apiVars \/ Write(g, Absent)
      /\ Return(r, TRUE) \/ Goto(r, "delete", x)
  BY DEF DeleteGateway
<1>5. ~Live(r)
  BY <1>1 DEF ChildInv, LifeInv, RouteInv, StageInv, Live
<1>6. Chapter(r, g, Absent)
  BY <1>2, <1>5 DEF Chapter, GatewayVersion
<1> HIDE DEF x
<1>7. /\ \A q \in Routes : q # r => pc'[q] = pc[q] /\ run'[q] = run[q]
      /\ run'[r].refs = << >> /\ run'[r].todo \subseteq run[r].todo
  BY <1>0, <1>3, <1>4, ReturnEnds, GotoEffect
<1> QED BY <1>0, <1>1, <1>4, <1>6, <1>7, PlainStepNarrates

LEMMA ClearFinalizerNarrates ==
  ASSUME ChildInv, NEW r \in Routes, ClearFinalizer(r)
  PROVE  Narrates(r)
<1> DEFINE k == RouteKey(r)
<1>0. TypeOK /\ StoreTyped /\ RouteInv(r) /\ k \in Keys /\ k \in RouteKeys
  BY KeyKinds DEF ChildInv, LifeInv, IInv, TypeOK
<1>1. /\ pc[r] = "delete" /\ proc = "up" /\ run[r].todo = {}
      /\ UNCHANGED <<cache, missed>>
  BY DEF ClearFinalizer, Running
<1>2. /\ \/ UNCHANGED apiVars
         \/ cache[k] # Absent /\ feed[k] = << >> /\ Write(k, Absent)
      /\ \E err : Return(r, err)
  BY DEF ClearFinalizer
<1>3. CASE UNCHANGED apiVars
  BY <1>1, <1>2, <1>3, ReturnNarrates
<1>4. CASE cache[k] # Absent /\ feed[k] = << >> /\ Write(k, Absent)
  <2>1. cache[k] = api[k]
    BY <1>0, <1>1, <1>4 DEF ChildInv, LifeInv, IInv, WatchInv
  <2>2. api[k] # Absent /\ api[k].deleting /\ ListGateways(r, api) \subseteq missed[r]
    BY <1>0, <1>1, <1>4, <2>1 DEF RouteInv, StageInv, GatewaysInv
  <2>3. Chapter(r, k, Absent)
    BY <2>2 DEF Chapter, NextVersion
  <2> QED BY <1>0, <1>1, <1>2, <1>4, <2>3, ReturnEnds, PlainStepNarrates
<1> QED BY <1>2, <1>3, <1>4

LEMMA WorkerNarrates ==
  ASSUME ObjectsArePresent, ChildInv, NEW r \in Routes, Worker(r), ~Panic(r)
  PROVE  Narrates(r)
  BY SetFinalizerNarrates, ServicesNarrate, CollectHostnamesNarrates, GatewayNarrates,
     HTTPRouteNarrates, PostProcessNarrates, UpdateStatusNarrates, RefetchNarrates,
     DeleteGatewayNarrates, ClearFinalizerNarrates
  DEF Worker

-----------------------------------------------------------------------------
(* Users, serving, the Gateway implementation, the garbage collector.      *)

LEMMA RouteWriteNarrates ==
  ASSUME ChildInv, NEW r \in Routes, NEW v, WriteRoute(r, v), UNCHANGED envUnchanged,
         NextVersion(r, v)
  PROVE  Narrates(r)
<1>0. /\ run \in [Routes -> Runs] /\ run[r] \in Runs /\ LoopInv(r) /\ RouteKey(r) \in Keys
      /\ StoreTyped
  BY KeySorts DEF ChildInv, LifeInv, IInv, TypeOK, RunsTyped
<1>1. /\ Write(RouteKey(r), v) /\ UNCHANGED <<cache, pc, missed>>
      /\ run' = [run EXCEPT ![r].stale = TRUE]
  BY DEF WriteRoute, envUnchanged, histVars
<1>2. /\ run'[r].refs = run[r].refs /\ run'[r].todo = run[r].todo
      /\ \A q \in Routes : q # r => run'[q] = run[q]
  BY <1>0, <1>1 DEF Runs
<1>3. \A g \in GatewayKeys : api'[g] = api[g]
  BY <1>0, <1>1, WriteEffect, KeySorts
<1>4. LoopInv(r)'
  BY <1>0, <1>1, <1>2, <1>3 DEF LoopInv, NamedFor
<1>5. Chapter(r, RouteKey(r), v)
  BY DEF Chapter
<1> QED BY <1>0, <1>1, <1>2, <1>4, <1>5 DEF Narrates

LEMMA EditRouteNarrates ==
  ASSUME ChildInv, NEW r \in Routes, EditRoute(r) \/ ServingSync(r) \/ DeleteRoute(r)
  PROVE  Narrates(r)
<1> DEFINE route == api[RouteKey(r)]
           marked == [route EXCEPT !.deleting = TRUE]
           status == [traffic |-> route.spec, obs |-> route.gen,
                      ingress |-> route.status.ingress,
                      ready |-> route.status.ingress]
<1>1. UNCHANGED envUnchanged /\ route # Absent /\ route \in RouteObjects
  <2>1. StoreTyped /\ RouteKey(r) \in RouteKeys
    BY KeyKinds DEF ChildInv, LifeInv, IInv, TypeOK
  <2> QED BY <2>1 DEF EditRoute, ServingSync, DeleteRoute, StoreTyped
<1>2. ASSUME NEW v \in RouteObjects, WriteRoute(r, v),
             v.fin = route.fin /\ v.deleting = route.deleting
      PROVE  Narrates(r)
  <2>1. NextVersion(r, v)
    BY <1>1, <1>2, AbsentAssumption DEF NextVersion
  <2> QED BY <1>1, <1>2, <2>1, RouteWriteNarrates
<1>3. CASE EditRoute(r)
  <2>1. /\ \A t \in Traffics :
             LET v == [route EXCEPT !.spec = t, !.gen = @ + 1]
             IN  v.fin = route.fin /\ v.deleting = route.deleting
        /\ \A l \in LabelChoices :
             LET v == [route EXCEPT !.labels = l]
             IN  v.fin = route.fin /\ v.deleting = route.deleting
        /\ LET v == [route EXCEPT !.enabled = ~ @]
           IN  v.fin = route.fin /\ v.deleting = route.deleting
    BY <1>1 DEF RouteObjects
  <2> QED BY <1>1, <1>2, <1>3, <2>1, RouteChanges DEF EditRoute
<1>4. CASE ServingSync(r)
  <2> DEFINE v == [route EXCEPT !.status = status]
  <2>1. v.fin = route.fin /\ v.deleting = route.deleting /\ WriteRoute(r, v)
    BY <1>1, <1>4 DEF RouteObjects, ServingSync
  <2>2. status \in Statuses
    BY <1>1 DEF RouteObjects, Statuses
  <2>3. v \in RouteObjects
    <3> HIDE DEF status
    <3> QED BY <1>1, <2>2, RouteChanges
  <2> QED BY <1>2, <2>1, <2>3
<1>5. CASE DeleteRoute(r)
  <2>1. marked.deleting /\ marked.fin = route.fin /\ marked # Absent
    <3>1. marked.deleting /\ marked.fin = route.fin
      BY <1>1 DEF RouteObjects
    <3> QED BY <1>1, <3>1, RouteChanges, AbsentAssumption
  <2>2. ~route.deleting /\ WriteRoute(r, IF route.fin THEN marked ELSE Absent)
    BY <1>5 DEF DeleteRoute
  <2> HIDE DEF marked
  <2>3. NextVersion(r, IF route.fin THEN marked ELSE Absent)
    BY <1>1, <2>1, <2>2 DEF NextVersion
  <2> QED BY <1>1, <2>2, <2>3, RouteWriteNarrates
<1> QED BY <1>3, <1>4, <1>5

(* A write to r's HTTPRoute or one of its Services by somebody else.       *)
LEMMA OwnedWriteNarrates ==
  ASSUME ChildInv, NEW r \in Routes, NEW k \in Keys \ GatewayKeys, NEW v, Write(k, v),
         Chapter(r, k, v), UNCHANGED <<envUnchanged, run>>
  PROVE  Narrates(r)
<1>1. UNCHANGED <<cache, pc, run, missed>>
  BY DEF envUnchanged, histVars
<1>2. LoopInv(r) /\ StoreTyped
  BY DEF ChildInv, LifeInv, IInv, TypeOK
<1>3. \A g \in GatewayKeys : api'[g] = api[g]
  BY <1>2, WriteEffect, KeySorts
<1>4. LoopInv(r)'
  BY <1>1, <1>2, <1>3 DEF LoopInv, NamedFor
<1> QED BY <1>1, <1>4 DEF Narrates

LEMMA GatewayStatusNarrates ==
  ASSUME ObjectsArePresent, ChildInv, NEW r \in Routes, api[HTTPRouteKey(r)] # Absent,
         NEW status, WriteGatewayStatus(r, status)
  PROVE  Narrates(r)
<1> DEFINE k == HTTPRouteKey(r)
           h == api[k]
           v == [h EXCEPT !.status = status]
<1>1. RefsInv(r) /\ k \in Keys \ GatewayKeys
  BY KeySorts DEF ChildInv
<1>2. h = [spec |-> h.spec, status |-> h.status] /\ Resolves(r, h)
  BY <1>1 DEF RefsInv, Resolves, Live
<1>3. v = [spec |-> h.spec, status |-> status]
  <2> HIDE DEF h
  <2> QED BY <1>2
<1>4. Write(k, v) /\ UNCHANGED <<envUnchanged, run>>
  BY DEF WriteGatewayStatus
<1> HIDE DEF v
<1>5. v # Absent /\ v = [spec |-> v.spec, status |-> v.status] /\ v.spec = h.spec
  BY <1>3 DEF ObjectsArePresent
<1>6. Chapter(r, k, v)
  BY <1>2, <1>5 DEF Chapter, HTTPRouteVersion, Resolves, GatewayRefs
<1> QED BY <1>1, <1>4, <1>6, OwnedWriteNarrates

LEMMA CollectGarbageNarrates ==
  ASSUME ChildInv, NEW r \in Routes, NEW k \in Keys, CollectGarbage(r, k)
  PROVE  Narrates(r)
<1>1. k = HTTPRouteKey(r) \/ k \in ServiceKeys
  BY DEF CollectGarbage, OwnedKeys, ServiceKeys
<1>2. /\ k \in Keys \ GatewayKeys /\ api[RouteKey(r)] = Absent
      /\ Write(k, Absent) /\ UNCHANGED <<envUnchanged, run>>
  BY <1>1, KeySorts DEF CollectGarbage
<1>3. Chapter(r, k, Absent)
  BY <1>1, <1>2 DEF Chapter, HTTPRouteVersion
<1> QED BY <1>2, <1>3, OwnedWriteNarrates

LEMMA OthersNarrate ==
  ASSUME ObjectsArePresent, ChildInv, NEW r \in Routes, Others(r)
  PROVE  Narrates(r)
<1>1. CASE \E g \in GatewayKeys : Admit(r, g)
  BY <1>1, GatewayStatusNarrates DEF Admit
<1>2. CASE \E g \in GatewayKeys : Reject(r, g)
  BY <1>2, GatewayStatusNarrates DEF Reject
<1>3. CASE Prune(r)
  BY <1>3, GatewayStatusNarrates DEF Prune
<1> QED BY <1>1, <1>2, <1>3, EditRouteNarrates, CollectGarbageNarrates DEF Others

-----------------------------------------------------------------------------
(* The process.                                                            *)

(* The loops of a run that has not begun, and of one that begins.          *)
LEMMA StartKeepsChildren ==
  ASSUME ChildInv, NEW r \in Routes, Start(r)
  PROVE  OwnersInv' /\ \A q \in Routes : LoopInv(q)' /\ RefsInv(q)'
<1> DEFINE original == cache[RouteKey(r)]
           begin == [NoRun EXCEPT !.orig = original, !.res = original,
                       !.cfg = config, !.stale = Outdated(RouteKey(r))]
           listed == ListGateways(r, cache)
           x == [begin EXCEPT !.todo = listed]
<1>0. /\ pc \in [Routes -> Stages] /\ run \in [Routes -> Runs]
      /\ UNCHANGED <<api, cache, feed>>
  BY DEF ChildInv, LifeInv, IInv, TypeOK, RunsTyped, Start
<1>1. \/ UNCHANGED <<pc, run>>
      \/ /\ pc' = [pc EXCEPT ![r] = "finalizer"]
         /\ run' = [run EXCEPT ![r] = begin]
      \/ /\ pc' = [pc EXCEPT ![r] = "delete"]
         /\ run' = [run EXCEPT ![r] = x]
  BY DEF Start
<1>2. begin.refs = << >> /\ begin.todo = {} /\ x.refs = << >> /\ x.todo = listed
  BY DEF NoRun
<1>3. \A g \in listed : NamedFor(g, r)
  BY DEF ChildInv, OwnersInv, OwnerNamed, ListGateways
<1> HIDE DEF begin, x, listed
<1>4. OwnersInv' /\ \A q \in Routes : RefsInv(q)'
  BY <1>0 DEF ChildInv, OwnersInv, OwnerNamed, IsSeq, NamedFor, RefsInv, GatewayRefs
<1>5. ASSUME NEW q \in Routes
      PROVE  LoopInv(q)'
  <2>1. LoopInv(q)
    BY DEF ChildInv
  <2>2. CASE pc'[q] = pc[q] /\ run'[q] = run[q]
    BY <1>0, <2>1, <2>2 DEF LoopInv, NamedFor
  <2>3. CASE run'[q] = begin
    BY <1>2, <2>3 DEF LoopInv, NamedFor
  <2>4. CASE q = r /\ run'[q] = x
    BY <1>2, <1>3, <2>4 DEF LoopInv, NamedFor
  <2> QED BY <1>0, <1>1, <2>2, <2>3, <2>4
<1> QED BY <1>4, <1>5

LEMMA DeliverKeepsChildren ==
  ASSUME ChildInv, NEW k \in Keys, Deliver(k)
  PROVE  OwnersInv' /\ \A q \in Routes : LoopInv(q)' /\ RefsInv(q)'
<1>0. /\ StoreTyped /\ feed[k] # << >>
      /\ cache' = [cache EXCEPT ![k] = Head(feed[k])]
      /\ feed' = [feed EXCEPT ![k] = Tail(@)]
      /\ UNCHANGED <<api, pc, run>>
  BY DEF Deliver, ChildInv, LifeInv, IInv, TypeOK
<1>1. \A q \in Routes : LoopInv(q)' /\ RefsInv(q)'
  BY <1>0 DEF ChildInv, LoopInv, RefsInv, NamedFor, GatewayRefs
<1>2. ASSUME NEW g \in GatewayKeys
      PROVE  /\ OwnerNamed(g, api'[g])
             /\ OwnerNamed(g, cache'[g])
             /\ IsSeq(feed'[g])
             /\ \A i \in DOMAIN feed'[g] : OwnerNamed(g, feed'[g][i])
  <2> DEFINE s == feed[g]
  <2>0. /\ OwnerNamed(g, api[g]) /\ OwnerNamed(g, cache[g]) /\ IsSeq(s)
        /\ \A i \in DOMAIN s : OwnerNamed(g, s[i])
        /\ g \in Keys
    BY KeySorts DEF ChildInv, OwnersInv
  <2>1. CASE k # g
    BY <1>0, <2>0, <2>1 DEF StoreTyped
  <2>2. CASE k = g
    <3>1. s # << >> /\ cache'[g] = Head(s) /\ feed'[g] = Tail(s) /\ api'[g] = api[g]
      BY <1>0, <2>0, <2>2 DEF StoreTyped
    <3>2. PICK S : s \in Seq(S)
      BY <2>0 DEF IsSeq
    <3> HIDE DEF s
    <3>3. /\ 1 \in DOMAIN s /\ Head(s) = s[1] /\ Tail(s) \in Seq(S)
          /\ \A i \in DOMAIN Tail(s) : i + 1 \in DOMAIN s /\ Tail(s)[i] = s[i + 1]
      BY <3>1, <3>2, HeadTailProperties, EmptySeq
    <3> QED BY <2>0, <3>1, <3>3 DEF IsSeq
  <2> QED BY <2>1, <2>2
<1>3. OwnersInv'
  BY <1>2 DEF OwnersInv, OwnerNamed, NamedFor, IsSeq
<1> QED BY <1>1, <1>3

LEMMA EmptyIsSeq == IsSeq(<< >>) /\ DOMAIN << >> = {}
<1>1. << >> \in Seq({})
  OBVIOUS
<1> QED BY <1>1 DEF IsSeq

LEMMA StopKeepsChildren ==
  ASSUME ChildInv, NEW how, Stop(how)
  PROVE  OwnersInv' /\ \A q \in Routes : LoopInv(q)' /\ RefsInv(q)'
<1>1. /\ \A g \in GatewayKeys : cache'[g] = Absent /\ feed'[g] = << >>
      /\ \A q \in Routes : run'[q] = NoRun
      /\ UNCHANGED api
  BY KeySorts DEF Stop
<1>2. NoRun.refs = << >> /\ NoRun.todo = {}
  BY DEF NoRun
<1>3. OwnersInv'
  <2>1. ASSUME NEW g \in GatewayKeys
        PROVE  /\ OwnerNamed(g, api'[g])
               /\ OwnerNamed(g, cache'[g])
               /\ IsSeq(feed'[g])
               /\ \A i \in DOMAIN feed'[g] : OwnerNamed(g, feed'[g][i])
    BY <1>1, EmptyIsSeq DEF ChildInv, OwnersInv, OwnerNamed
  <2> QED BY <2>1 DEF OwnersInv, OwnerNamed, NamedFor, IsSeq
<1>4. \A q \in Routes : LoopInv(q)'
  <2> HIDE DEF NoRun
  <2> QED BY <1>1, <1>2, EmptyIsSeq DEF LoopInv
<1>5. \A q \in Routes : RefsInv(q)'
  BY <1>1 DEF ChildInv, RefsInv, NamedFor, GatewayRefs
<1> QED BY <1>3, <1>4, <1>5

LEMMA RestartKeepsChildren ==
  ASSUME ChildInv, Restart
  PROVE  OwnersInv' /\ \A q \in Routes : LoopInv(q)' /\ RefsInv(q)'
<1>1. cache' = api /\ UNCHANGED <<api, feed, pc, run>>
  BY DEF Restart, apiVars
<1>2. OwnersInv'
  BY <1>1 DEF ChildInv, OwnersInv, OwnerNamed, IsSeq, NamedFor
<1>3. \A q \in Routes : LoopInv(q)' /\ RefsInv(q)'
  BY <1>1 DEF ChildInv, LoopInv, RefsInv, NamedFor, GatewayRefs
<1> QED BY <1>2, <1>3

(* Steps that leave everything alone that the children depend on.          *)
LEMMA BystandersKeepChildren ==
  ASSUME ChildInv, UNCHANGED <<api, cache, feed, pc, run>>
  PROVE  OwnersInv' /\ \A q \in Routes : LoopInv(q)' /\ RefsInv(q)'
  BY DEF ChildInv, OwnersInv, OwnerNamed, IsSeq, NamedFor, LoopInv, RefsInv, GatewayRefs

LEMMA ProcessKeepsChildren ==
  ASSUME ChildInv, Process
  PROVE  /\ OwnersInv'
         /\ \A q \in Routes : LoopInv(q)' /\ RefsInv(q)'
         /\ UNCHANGED Lifecycle!vars
<1>1. UNCHANGED Lifecycle!vars
  <2>1. UNCHANGED <<api, missed>>
    BY DEF Process, Deliver, Enqueue, Resync, ConfigChange, Crash, Restart, Stop,
           apiVars, histVars
  <2> QED BY <2>1, NoChapterRefines
<1>2. CASE \/ \E r \in Routes : Enqueue(r)
           \/ Resync
           \/ \E c \in Configs : ConfigChange(c)
  <2>1. UNCHANGED <<api, cache, feed, pc, run>>
    BY <1>2 DEF Enqueue, Resync, ConfigChange, apiVars
  <2> QED BY <1>1, <2>1, BystandersKeepChildren
<1>3. CASE Crash
  BY <1>1, <1>3, StopKeepsChildren DEF Crash
<1>4. CASE Restart
  BY <1>1, <1>4, RestartKeepsChildren
<1>5. CASE \E k \in Keys : Deliver(k)
  BY <1>1, <1>5, DeliverKeepsChildren
<1> QED BY <1>2, <1>3, <1>4, <1>5 DEF Process

-----------------------------------------------------------------------------
LEMMA InitChildren ==
  Init => /\ OwnersInv
          /\ \A q \in Routes : LoopInv(q) /\ RefsInv(q)
          /\ Lifecycle!Init
<1> SUFFICES ASSUME Init
             PROVE  /\ OwnersInv
                    /\ \A q \in Routes : LoopInv(q) /\ RefsInv(q)
                    /\ Lifecycle!Init
  OBVIOUS
<1>1. PICK o \in [Routes -> NewRoutes] :
        /\ api = [j \in Keys |-> IF j \in RouteKeys THEN o[j[2]] ELSE Absent]
        /\ cache = [j \in Keys |-> Absent]
        /\ feed = [j \in Keys |-> IF j \in RouteKeys THEN << o[j[2]] >> ELSE << >>]
        /\ run = [q \in Routes |-> NoRun]
        /\ missed = [q \in Routes |-> {}]
  BY DEF Init
<1>2. /\ \A g \in GatewayKeys : api[g] = Absent /\ cache[g] = Absent /\ feed[g] = << >>
      /\ \A q \in Routes : /\ api[HTTPRouteKey(q)] = Absent
                           /\ api[RouteKey(q)] = o[q]
  BY <1>1, KeyKinds, KeySorts
<1>3. \A q \in Routes : o[q] # Absent /\ ~o[q].fin /\ ~o[q].deleting
  BY NewRoutesTyped, AbsentAssumption DEF NewRoutes
<1>4. OwnersInv
  BY <1>2, EmptyIsSeq DEF OwnersInv, OwnerNamed
<1>5. \A q \in Routes : LoopInv(q) /\ RefsInv(q)
  <2>1. NoRun.refs = << >> /\ NoRun.todo = {}
    BY DEF NoRun
  <2> HIDE DEF NoRun
  <2> QED BY <1>1, <1>2, <2>1, EmptyIsSeq DEF LoopInv, RefsInv
<1>6. \A q \in Routes : ListGateways(q, api) = {}
  BY <1>2 DEF ListGateways
<1>7. Lifecycle!Init
  BY <1>1, <1>2, <1>3, <1>6 DEF Lifecycle!Init
<1> QED BY <1>4, <1>5, <1>7

LEMMA NextKeepsChildren ==
  ASSUME ObjectsArePresent
  PROVE  ChildInv /\ [Next]_vars => ChildInv' /\ [Lifecycle!Next]_(Lifecycle!vars)
<1> SUFFICES ASSUME ChildInv, [Next]_vars
             PROVE  ChildInv' /\ (Lifecycle!Next \/ UNCHANGED Lifecycle!vars)
  OBVIOUS
<1>1. LifeInv'
  BY NextKeepsLife DEF ChildInv
<1>2. ASSUME NEW r \in Routes, Start(r)
      PROVE  ChildInv' /\ (Lifecycle!Next \/ UNCHANGED Lifecycle!vars)
  BY <1>1, <1>2, StartKeepsChildren, StartRefines DEF ChildInv
<1>3. ASSUME NEW r \in Routes, Panic(r)
      PROVE  ChildInv' /\ (Lifecycle!Next \/ UNCHANGED Lifecycle!vars)
  <2>1. Stop("panicked") /\ UNCHANGED <<api, missed>>
    BY <1>3 DEF Panic, Stop, histVars
  <2> QED BY <1>1, <2>1, StopKeepsChildren, NoChapterRefines DEF ChildInv
<1>4. ASSUME NEW r \in Routes, (Worker(r) /\ ~Panic(r)) \/ Others(r)
      PROVE  ChildInv' /\ (Lifecycle!Next \/ UNCHANGED Lifecycle!vars)
  BY <1>1, <1>4, WorkerNarrates, OthersNarrate, NarrationIsSound DEF ChildInv
<1>5. CASE Process
  BY <1>1, <1>5, ProcessKeepsChildren DEF ChildInv
<1>6. CASE UNCHANGED vars
  BY <1>1, <1>6, BystandersKeepChildren, NoChapterRefines DEF ChildInv, vars
<1> QED BY <1>2, <1>3, <1>4, <1>5, <1>6 DEF Next

LEMMA AlwaysChildren ==
  ASSUME ObjectsArePresent
  PROVE  Spec => []ChildInv /\ Lifecycle!Spec
<1>1. Init => ChildInv /\ Lifecycle!Init
  BY InitInv, InitLife, InitChildren DEF ChildInv, LifeInv
<1> QED BY <1>1, NextKeepsChildren, PTL DEF Spec, Lifecycle!Spec

(* Whatever the interleaving, a stored HTTPRoute of a Route that is not    *)
(* being deleted names only Gateways that exist.                           *)
THEOREM ReferencesResolve ==
  ASSUME ObjectsArePresent
  PROVE  Spec => []RefsResolve
<1>1. ChildInv => RefsResolve
  BY DEF ChildInv, RefsInv, RefsResolve, GatewayRefs
<1> QED BY <1>1, AlwaysChildren, PTL

(* The controller implements the Lifecycle of a Route, through failed and  *)
(* lost calls, outdated listers, crashes and restarts.                     *)
THEOREM LifecycleIsKept ==
  ASSUME ObjectsArePresent
  PROVE  Spec => FollowsLifecycle
  BY AlwaysChildren DEF FollowsLifecycle

-----------------------------------------------------------------------------
(* What the controller leaves behind when it comes to rest.                *)

Awaited(r) == r \in queue \cup events

(* The Gateways that a Route with this traffic and these labels asks for.  *)
Wanted(cfg, r, route) == {GatewayKey(cfg, r, v) : v \in RouteVisibilities(route)}

AsMade(objects, gs, cfg, r, route) ==
  \A g \in gs : objects[g] = MakeGateway(cfg, r, route, g[4])

(* The watch will still show a version of the HTTPRoute, or the stored one *)
(* is what the Route asks for and has the readiness the status tells.      *)
Matches(versions, h, cfg, r, route) ==
  \/ versions # << >>
  \/ /\ h # Absent
     /\ route.status.ingress <=> IsHTTPRouteReady(h)
     /\ ApiDefaults => /\ GatewayRefs(h) = Wanted(cfg, r, route)
                       /\ h.spec \in MakeHTTPRoute(cfg, r, route, h.spec.refs)

Served(r, cfg, route) ==
  LET h == HTTPRouteKey(r)
  IN  /\ Matches(feed[h], api[h], cfg, r, route)
      /\ ApiDefaults => AsMade(api, Wanted(cfg, r, route), cfg, r, route)

(* The same after a step.                                                  *)
ServedNext(r, cfg, route) ==
  LET h == HTTPRouteKey(r)
  IN  /\ Matches(feed'[h], api'[h], cfg, r, route)
      /\ ApiDefaults => AsMade(api', Wanted(cfg, r, route), cfg, r, route)

(* The fields of a Route that decide what it asks for.                     *)
SameInput(a, b) ==
  /\ a.enabled = b.enabled
  /\ a.labels = b.labels
  /\ a.status.traffic = b.status.traffic

(* The watch of an HTTPRoute leads to the stored object.                   *)
HTTPRouteWatch(r) ==
  LET h == HTTPRouteKey(r)
  IN  /\ IsSeq(feed[h])
      /\ IF proc = "up"
         THEN IF feed[h] = << >> THEN cache[h] = api[h]
                                 ELSE feed[h][Len(feed[h])] = api[h]
         ELSE feed[h] = << >>

Members(refs) == {refs[i] : i \in DOMAIN refs}

(* The loop over the Gateways: those visited are as the Route asks, and    *)
(* the HTTPRoute will name them all.                                       *)
Collected(objects, cfg, r, route, todo, refs) ==
  LET done == Wanted(cfg, r, route) \ todo
  IN  /\ todo \subseteq Wanted(cfg, r, route)
      /\ Members(refs) = done
      /\ AsMade(objects, done, cfg, r, route)

CollectInv(r) ==
  LET x == run[r]
  IN  /\ pc[r] \in {"finalizer", "services", "plan"} => x.todo = {}
      /\ pc[r] = "gateways" /\ ApiDefaults
           => Collected(api, x.cfg, r, x.res, x.todo, x.refs)

Late == {"post", "update", "refetch"}

(* A run whose Route nobody is about to process again works on what the    *)
(* lister shows.                                                           *)
InputInv(r) ==
  pc[r] # "idle" /\ ~Awaited(r) => SameInput(run[r].res, run[r].orig)

(* Such a run has made the children once it is past ReconcileKind, and     *)
(* when it returned they are there.                                        *)
LateInv(r) ==
  pc[r] \in Late /\ ~run[r].failed /\ run[r].res.enabled /\ ~Awaited(r)
    => Served(r, run[r].cfg, run[r].res)

RestInv(r) ==
  Idle(r) /\ feed[RouteKey(r)] = << >> /\ Managed(r)
    => Served(r, config, api[RouteKey(r)])

StepInv(r) == CollectInv(r) /\ InputInv(r) /\ LateInv(r) /\ RestInv(r)

ServedInv ==
  /\ ChildInv
  /\ \A r \in Routes : HTTPRouteWatch(r) /\ StepInv(r)

(* The children depend on a Route's labels and traffic, and on nothing     *)
(* else in it.                                                             *)
LEMMA SameWanted ==
  ASSUME NEW a, NEW b, SameInput(a, b), NEW cfg, NEW r
  PROVE  /\ Wanted(cfg, r, a) = Wanted(cfg, r, b)
         /\ \A v : MakeGateway(cfg, r, a, v) = MakeGateway(cfg, r, b, v)
         /\ \A refs : MakeHTTPRoute(cfg, r, a, refs) = MakeHTTPRoute(cfg, r, b, refs)
<1>1. a.labels = b.labels /\ a.status.traffic = b.status.traffic
  BY DEF SameInput
<1>2. Wanted(cfg, r, a) = Wanted(cfg, r, b)
  BY <1>1 DEF Wanted, RouteVisibilities
<1>3. \A v : MakeGateway(cfg, r, a, v) = MakeGateway(cfg, r, b, v)
  BY <1>1 DEF MakeGateway
<1>4. \A refs : MakeHTTPRoute(cfg, r, a, refs) = MakeHTTPRoute(cfg, r, b, refs)
  BY <1>1 DEF MakeHTTPRoute
<1> QED BY <1>2, <1>3, <1>4

(* So what serves one version of a Route serves every version with the     *)
(* same labels, traffic and readiness.                                     *)
LEMMA SameServed ==
  ASSUME NEW a, NEW b, SameInput(a, b), a.status.ingress = b.status.ingress,
         NEW cfg, NEW r, NEW versions, NEW h, NEW objects,
         Matches(versions, h, cfg, r, a),
         ApiDefaults => AsMade(objects, Wanted(cfg, r, a), cfg, r, a)
  PROVE  /\ Matches(versions, h, cfg, r, b)
         /\ ApiDefaults => AsMade(objects, Wanted(cfg, r, b), cfg, r, b)
<1>1. /\ Wanted(cfg, r, a) = Wanted(cfg, r, b)
      /\ \A v : MakeGateway(cfg, r, a, v) = MakeGateway(cfg, r, b, v)
      /\ \A refs : MakeHTTPRoute(cfg, r, a, refs) = MakeHTTPRoute(cfg, r, b, refs)
  BY SameWanted
<1>2. Matches(versions, h, cfg, r, b)
  BY <1>1 DEF Matches
<1>3. ApiDefaults => AsMade(objects, Wanted(cfg, r, b), cfg, r, b)
  BY <1>1 DEF AsMade
<1> QED BY <1>2, <1>3

LEMMA WantedAreKeys ==
  ASSUME NEW cfg \in Configs, NEW r \in Routes, NEW route
  PROVE  \A g \in Wanted(cfg, r, route) : g \in GatewayKeys /\ NamedFor(g, r)
<1>1. RouteVisibilities(route) \subseteq Visibilities
  BY DEF RouteVisibilities, Visibility, Visibilities
<1>2. \A v \in Visibilities : GatewayKey(cfg, r, v) \in GatewayKeys
  BY DEF GatewayKeys
<1>3. \A v : GatewayKey(cfg, r, v)[3] = GatewayBase[r]
  BY DEF GatewayKey
<1> QED BY <1>1, <1>2, <1>3 DEF Wanted, NamedFor

-----------------------------------------------------------------------------
(* What the others see of a step: a version that will be delivered, or no  *)
(* difference; and the Gateways of a Route change through its own runs.    *)
Unmoved(k) == (api'[k] = api[k] /\ feed'[k] = feed[k]) \/ feed'[k] # << >>

KeptFor(r) ==
  /\ Unmoved(RouteKey(r))
  /\ Unmoved(HTTPRouteKey(r))
  /\ \A g \in GatewayKeys : NamedFor(g, r) => api'[g] = api[g]

(* A step that happened to somebody else.                                  *)
Spectates(r) ==
  /\ pc'[r] = pc[r]
  /\ /\ run'[r].orig = run[r].orig /\ run'[r].res = run[r].res
     /\ run'[r].cfg = run[r].cfg /\ run'[r].todo = run[r].todo
     /\ run'[r].refs = run[r].refs /\ run'[r].failed = run[r].failed

LEMMA ServedStays ==
  ASSUME NEW r \in Routes, NEW cfg \in Configs, NEW route,
         KeptFor(r), Served(r, cfg, route)
  PROVE  ServedNext(r, cfg, route)
<1>1. Matches(feed'[HTTPRouteKey(r)], api'[HTTPRouteKey(r)], cfg, r, route)
  <2>1. Matches(feed[HTTPRouteKey(r)], api[HTTPRouteKey(r)], cfg, r, route)
    BY DEF Served
  <2>2. CASE feed'[HTTPRouteKey(r)] # << >>
    BY <2>2 DEF Matches
  <2> QED BY <2>1, <2>2 DEF KeptFor, Unmoved
<1>2. ApiDefaults => AsMade(api', Wanted(cfg, r, route), cfg, r, route)
  BY WantedAreKeys DEF Served, AsMade, KeptFor
<1> QED BY <1>1, <1>2 DEF ServedNext

(* A write shows in the watches of the Route and its HTTPRoute.            *)
LEMMA WriteMoves ==
  ASSUME ServedInv, NEW r \in Routes, NEW k \in Keys, NEW v, Write(k, v),
         UNCHANGED <<cache, proc>>
  PROVE  /\ HTTPRouteWatch(r)'
         /\ proc = "up" => Unmoved(RouteKey(r)) /\ Unmoved(HTTPRouteKey(r))
<1>1. StoreTyped
  BY DEF ServedInv, ChildInv, LifeInv, IInv, TypeOK
<1>2. HTTPRouteKey(r) \in Keys /\ RouteKey(r) \in Keys /\ RouteKey(r) \in RouteKeys
  BY KeySorts, KeyKinds
<1>3. HTTPRouteWatch(r)
  BY DEF ServedInv
<1>4. IsSeq(feed[HTTPRouteKey(r)]) /\ IsSeq(feed[RouteKey(r)])
  BY <1>1, <1>2, <1>3 DEF HTTPRouteWatch, StoreTyped, IsSeq
<1>5. CASE proc # "up"
  <2>1. feed' = feed
    BY <1>5 DEF Write
  <2> QED BY <1>3, <1>5, <2>1 DEF HTTPRouteWatch, IsSeq
<1>6. ASSUME proc = "up", NEW j \in Keys, IsSeq(feed[j])
      PROVE  \/ api'[j] = api[j] /\ feed'[j] = feed[j]
             \/ /\ IsSeq(feed'[j]) /\ feed'[j] # << >>
                /\ feed'[j][Len(feed'[j])] = api'[j]
  <2> DEFINE s == feed[j]
  <2>1. \/ api'[j] = api[j] /\ feed'[j] = s
        \/ api'[j] = v /\ feed'[j] = Append(s, v)
    BY <1>1, <1>6, WriteEffect
  <2>2. PICK S : s \in Seq(S)
    BY <1>6 DEF IsSeq
  <2> DEFINE T == S \cup {v}
  <2>3. s \in Seq(T) /\ v \in T
    BY <2>2
  <2> HIDE DEF s, T
  <2>4. Append(s, v) \in Seq(T) /\ Append(s, v) # << >> /\ Append(s, v)[Len(Append(s, v))] = v
    BY <2>3, AppendProperties
  <2>5. IsSeq(Append(s, v))
    BY <2>4 DEF IsSeq
  <2> QED BY <2>1, <2>4, <2>5 DEF s
<1>7. CASE proc = "up"
  <2>1. Unmoved(RouteKey(r)) /\ Unmoved(HTTPRouteKey(r))
    BY <1>2, <1>4, <1>6, <1>7 DEF Unmoved
  <2>2. HTTPRouteWatch(r)'
    <3> DEFINE h == HTTPRouteKey(r)
    <3>1. \/ api'[h] = api[h] /\ feed'[h] = feed[h]
          \/ /\ IsSeq(feed'[h]) /\ feed'[h] # << >>
             /\ feed'[h][Len(feed'[h])] = api'[h]
      BY <1>2, <1>4, <1>6, <1>7
    <3> QED BY <1>3, <1>7, <3>1 DEF HTTPRouteWatch, IsSeq
  <2> QED BY <2>1, <2>2
<1> QED BY <1>5, <1>7

(* A Route that will be processed again is served later.                   *)
LEMMA AwaitedIsServed ==
  ASSUME NEW r \in Routes, Awaited(r)', CollectInv(r)'
  PROVE  StepInv(r)'
  BY DEF StepInv, Awaited, InputInv, LateInv, RestInv, Idle

LEMMA SpectatorCollects ==
  ASSUME ServedInv, NEW r \in Routes, Spectates(r),
         \A g \in GatewayKeys : NamedFor(g, r) => api'[g] = api[g]
  PROVE  CollectInv(r)'
<1>1. CollectInv(r)
  BY DEF ServedInv, StepInv
<1>2. pc[r] = "gateways" => run[r].cfg \in Configs
  BY DEF ServedInv, ChildInv, LifeInv, IInv, TypeOK, RunsTyped
<1>3. CASE pc[r] = "gateways" /\ ApiDefaults
  <2> DEFINE x == run[r]
  <2>1. Collected(api, x.cfg, r, x.res, x.todo, x.refs) /\ x.cfg \in Configs
    BY <1>1, <1>2, <1>3 DEF CollectInv
  <2>2. \A g \in Wanted(x.cfg, r, x.res) : api'[g] = api[g]
    BY <2>1, WantedAreKeys
  <2>3. Collected(api', x.cfg, r, x.res, x.todo, x.refs)
    <3> HIDE DEF x
    <3> QED BY <2>1, <2>2 DEF Collected, AsMade
  <2> QED BY <1>3, <2>3 DEF CollectInv, Spectates
<1>4. CASE ~(pc[r] = "gateways" /\ ApiDefaults)
  BY <1>1, <1>4 DEF CollectInv, Spectates
<1> QED BY <1>3, <1>4

LEMMA SpectatorIsServed ==
  ASSUME ServedInv, NEW r \in Routes, Spectates(r), KeptFor(r),
         Awaited(r) => Awaited(r)', UNCHANGED <<proc, config>>
  PROVE  StepInv(r)'
<1>1. StepInv(r) /\ config \in Configs /\ (pc[r] # "idle" => run[r].cfg \in Configs)
  BY DEF ServedInv, ChildInv, LifeInv, IInv, TypeOK, RunsTyped
<1>2. CollectInv(r)'
  BY SpectatorCollects DEF KeptFor
<1>3. CASE Awaited(r)'
  BY <1>2, <1>3, AwaitedIsServed
<1>4. CASE ~Awaited(r)'
  <2>1. ~Awaited(r)
    BY <1>4 DEF Awaited
  <2>2. InputInv(r)'
    BY <1>1, <2>1 DEF StepInv, InputInv, Spectates
  <2>3. LateInv(r)'
    <3> SUFFICES ASSUME pc[r] \in Late, ~run[r].failed, run[r].res.enabled
                 PROVE  ServedNext(r, run[r].cfg, run[r].res)
      BY DEF LateInv, Spectates, Served, ServedNext
    <3>1. Served(r, run[r].cfg, run[r].res) /\ run[r].cfg \in Configs
      BY <1>1, <2>1 DEF StepInv, LateInv, Late
    <3> QED BY <3>1, ServedStays
  <2>4. RestInv(r)'
    <3> SUFFICES ASSUME Idle(r)', feed'[RouteKey(r)] = << >>, Managed(r)'
                 PROVE  ServedNext(r, config', api'[RouteKey(r)])
      BY DEF RestInv, Served, ServedNext
    <3>1. api'[RouteKey(r)] = api[RouteKey(r)] /\ feed[RouteKey(r)] = << >>
      BY DEF KeptFor, Unmoved
    <3>2. Idle(r) /\ Managed(r)
      BY <2>1, <3>1 DEF Idle, Managed, Awaited, Spectates
    <3>3. Served(r, config, api[RouteKey(r)])
      BY <1>1, <3>1, <3>2 DEF StepInv, RestInv
    <3>4. ServedNext(r, config, api[RouteKey(r)])
      BY <1>1, <3>3, ServedStays
    <3> QED BY <3>1, <3>4
  <2> QED BY <1>2, <2>2, <2>3, <2>4 DEF StepInv
<1> QED BY <1>3, <1>4

-----------------------------------------------------------------------------
(* The steps of a Route's own run.                                         *)

(* What holds of a run that nobody is about to repeat.                     *)
LEMMA RunIsCurrent ==
  ASSUME ServedInv, NEW r \in Routes, pc[r] # "idle", ~Awaited(r)
  PROVE  /\ run[r].orig = cache[RouteKey(r)] /\ run[r].cfg = config
         /\ SameInput(run[r].res, run[r].orig)
         /\ feed[RouteKey(r)] = << >> => run[r].orig = api[RouteKey(r)]
<1>1. RouteKey(r) \in RouteKeys
  BY KeyKinds
<1>2. InputInv(r) /\ RunInv /\ WatchInv
  BY DEF ServedInv, StepInv, ChildInv, LifeInv, IInv
<1>3. proc = "up" /\ run[r].orig = cache[RouteKey(r)] /\ run[r].cfg = config
  BY <1>2 DEF RunInv, Awaited
<1>4. SameInput(run[r].res, run[r].orig)
  BY <1>2 DEF InputInv
<1>5. feed[RouteKey(r)] = << >> => cache[RouteKey(r)] = api[RouteKey(r)]
  BY <1>1, <1>2, <1>3 DEF WatchInv
<1> QED BY <1>3, <1>4, <1>5

LEMMA ServedGoesOn ==
  ASSUME ServedInv, NEW r \in Routes, NEW stage \in Stages \ {"idle"}, NEW x,
         Goto(r, stage, x), UNCHANGED events,
         ~Awaited(r) => SameInput(x.res, x.orig),
         stage \in {"finalizer", "services", "plan"} => x.todo = {},
         stage = "gateways" /\ ApiDefaults
           => Collected(api', x.cfg, r, x.res, x.todo, x.refs),
         stage \in Late /\ ~x.failed /\ x.res.enabled /\ ~Awaited(r)
           => ServedNext(r, x.cfg, x.res)
  PROVE  StepInv(r)'
<1>1. pc'[r] = stage /\ run'[r] = x /\ stage # "idle"
  BY GotoEffect DEF ServedInv, ChildInv, LifeInv, IInv
<1>2. Awaited(r)' <=> Awaited(r)
  BY DEF Goto, Awaited
<1>3. CollectInv(r)'
  BY <1>1 DEF CollectInv
<1>4. InputInv(r)'
  BY <1>1, <1>2 DEF InputInv
<1>5. LateInv(r)'
  BY <1>1, <1>2 DEF LateInv, Served, ServedNext
<1>6. RestInv(r)'
  BY <1>1 DEF RestInv, Idle
<1> QED BY <1>3, <1>4, <1>5, <1>6 DEF StepInv

LEMMA ServedReturns ==
  ASSUME ServedInv, NEW r \in Routes, NEW err \in BOOLEAN, Return(r, err),
         UNCHANGED <<events, config>>,
         ~err /\ ~Awaited(r) /\ feed'[RouteKey(r)] = << >> /\ Managed(r)'
           => ServedNext(r, config, api'[RouteKey(r)])
  PROVE  StepInv(r)'
<1>1. pc'[r] = "idle"
  BY DEF Return, ServedInv, ChildInv, LifeInv, IInv, TypeOK, RunsTyped
<1>2. CollectInv(r)'
  BY <1>1 DEF CollectInv
<1>3. CASE Awaited(r)'
  BY <1>2, <1>3, AwaitedIsServed
<1>4. CASE ~Awaited(r)'
  <2>1. ~err /\ ~Awaited(r)
    BY <1>4 DEF Return, Awaited
  <2>2. InputInv(r)' /\ LateInv(r)'
    BY <1>1 DEF InputInv, LateInv, Late
  <2>3. RestInv(r)'
    BY <2>1 DEF RestInv, Served, ServedNext
  <2> QED BY <1>2, <2>2, <2>3 DEF StepInv
<1> QED BY <1>3, <1>4

LEMMA ServedFails ==
  ASSUME ServedInv, NEW r \in Routes, pc[r] # "idle", Fail(r), UNCHANGED events
  PROVE  StepInv(r)'
<1> DEFINE x == [run[r] EXCEPT !.todo = {}, !.refs = << >>, !.failed = TRUE]
<1>1. run[r] \in Runs
  BY DEF ServedInv, ChildInv, LifeInv, IInv, TypeOK, RunsTyped
<1>2. x.res = run[r].res /\ x.orig = run[r].orig /\ x.failed
  BY <1>1 DEF Runs
<1>3. Goto(r, "post", x)
  BY DEF Fail
<1>4. ~Awaited(r) => SameInput(x.res, x.orig)
  BY <1>2, RunIsCurrent
<1> HIDE DEF x
<1> QED BY <1>2, <1>3, <1>4, ServedGoesOn DEF Stages

LEMMA SetFinalizerServed ==
  ASSUME ServedInv, NEW r \in Routes, SetFinalizer(r)
  PROVE  StepInv(r)'
<1> DEFINE k == RouteKey(r)
           patched == [api[k] EXCEPT !.fin = TRUE]
<1>0. TypeOK /\ StoreTyped /\ WatchInv /\ StepInv(r) /\ k \in RouteKeys
  BY KeyKinds DEF ServedInv, ChildInv, LifeInv, IInv, TypeOK
<1>1. pc[r] = "finalizer" /\ proc = "up" /\ UNCHANGED <<cache, events, config>>
  BY DEF SetFinalizer, Running, procVars
<1>2. run[r] \in Runs /\ run[r].res \in RouteObjects /\ run[r].todo = {}
  BY <1>0, <1>1 DEF TypeOK, RunsTyped, StepInv, CollectInv
<1>3. ASSUME NEW res \in RouteObjects, NEW b, BeginReconcile(r, res, b),
             ~Awaited(r) => SameInput(res, run[r].orig)
      PROVE  StepInv(r)'
  <2> DEFINE fresh == IF res.status.obs = res.gen THEN res
                      ELSE [res EXCEPT !.status.ready = FALSE]
             x == [run[r] EXCEPT !.res = fresh, !.stale = b]
             stage == IF res.enabled THEN "services" ELSE "post"
  <2>1. SameInput(fresh, res)
    <3>1. /\ [res EXCEPT !.status.ready = FALSE].enabled = res.enabled
          /\ [res EXCEPT !.status.ready = FALSE].labels = res.labels
          /\ [res EXCEPT !.status.ready = FALSE].status.traffic = res.status.traffic
      BY DEF RouteObjects, Statuses
    <3> QED BY <3>1 DEF SameInput
  <2>2. x.res = fresh /\ x.orig = run[r].orig /\ x.todo = {}
    <3> HIDE DEF fresh
    <3> QED BY <1>2 DEF Runs
  <2>3. Goto(r, stage, x)
    BY <1>3 DEF BeginReconcile
  <2>4. ~Awaited(r) => SameInput(x.res, x.orig)
    <3> HIDE DEF x, fresh
    <3> QED BY <1>3, <2>1, <2>2 DEF SameInput
  <2>5. /\ stage \in Stages \ {"idle"} /\ stage # "gateways"
        /\ stage \in Late => ~x.res.enabled
    <3> HIDE DEF x, fresh
    <3> QED BY <2>1, <2>2 DEF Stages, Late, SameInput
  <2> HIDE DEF x, fresh, stage
  <2> QED BY <1>1, <2>2, <2>3, <2>4, <2>5, ServedGoesOn
<1>4. CASE Return(r, TRUE)
  BY <1>1, <1>4, ServedReturns
<1>5. CASE BeginReconcile(r, run[r].res, run[r].stale)
  BY <1>1, <1>2, <1>3, <1>5, RunIsCurrent
<1>6. CASE cache[k] # Absent /\ feed[k] = << >> /\ BeginReconcile(r, patched, TRUE)
  <2>1. api[k] = cache[k] /\ api[k] \in RouteObjects
    BY <1>0, <1>1, <1>6 DEF WatchInv, StoreTyped
  <2>2. patched \in RouteObjects
    BY <2>1, RouteChanges
  <2>3. SameInput(patched, api[k])
    BY <2>1 DEF SameInput, RouteObjects
  <2>4. ~Awaited(r) => SameInput(patched, run[r].orig)
    BY <1>1, <1>6, <2>3, RunIsCurrent
  <2> HIDE DEF patched
  <2> QED BY <1>3, <1>6, <2>2, <2>4
<1> QED BY <1>4, <1>5, <1>6 DEF SetFinalizer

LEMMA ServicesServed ==
  ASSUME ServedInv, NEW r \in Routes, ReconcilePlaceholderServices(r)
  PROVE  StepInv(r)'
<1>1. pc[r] = "services" /\ UNCHANGED events /\ StepInv(r)
  BY DEF ReconcilePlaceholderServices, Running, ServedInv
<1>2. run[r].todo = {}
  BY <1>1 DEF StepInv, CollectInv
<1>3. Goto(r, "plan", run[r]) \/ Fail(r)
  BY DEF ReconcilePlaceholderServices, PutChild
<1>4. CASE Goto(r, "plan", run[r])
  BY <1>1, <1>2, <1>4, RunIsCurrent, ServedGoesOn DEF Stages, Late
<1> QED BY <1>1, <1>3, <1>4, ServedFails

(* The loop over the Gateways begins.                                      *)
LEMMA CollectHostnamesServed ==
  ASSUME ServedInv, NEW r \in Routes, CollectHostnames(r)
  PROVE  StepInv(r)'
<1> DEFINE want == {GatewayKey(run[r].cfg, r, v) : v \in RouteVisibilities(run[r].res)}
           x == [run[r] EXCEPT !.todo = want]
<1>1. /\ pc[r] = "plan" /\ UNCHANGED <<api, events>> /\ StepInv(r) /\ LoopInv(r)
  BY DEF CollectHostnames, Running, ServedInv, ChildInv, apiVars
<1>2. run[r] \in Runs /\ run[r].todo = {} /\ run[r].refs = << >>
  BY <1>1 DEF StepInv, CollectInv, LoopInv, ServedInv, ChildInv, LifeInv, IInv, TypeOK, RunsTyped
<1>3. \/ run[r].res.status.traffic = << >> /\ Goto(r, "gateways", run[r])
      \/ Goto(r, "gateways", x)
      \/ Fail(r)
  BY DEF CollectHostnames
<1>4. Members(run[r].refs) = {}
  BY <1>2, EmptyIsSeq DEF Members
<1>5. want = Wanted(run[r].cfg, r, run[r].res)
  BY DEF Wanted
<1>6. CASE run[r].res.status.traffic = << >> /\ Goto(r, "gateways", run[r])
  <2>1. Wanted(run[r].cfg, r, run[r].res) = {}
    BY <1>6 DEF Wanted, RouteVisibilities
  <2>2. Collected(api', run[r].cfg, r, run[r].res, run[r].todo, run[r].refs)
    BY <1>2, <1>4, <2>1 DEF Collected, AsMade
  <2> QED BY <1>1, <1>6, <2>2, RunIsCurrent, ServedGoesOn DEF Stages, Late
<1>7. CASE Goto(r, "gateways", x)
  <2>1. /\ x.cfg = run[r].cfg /\ x.res = run[r].res /\ x.orig = run[r].orig
        /\ x.todo = want /\ x.refs = run[r].refs
    <3> HIDE DEF want
    <3> QED BY <1>2 DEF Runs
  <2> HIDE DEF x, want
  <2>2. Collected(api', x.cfg, r, x.res, x.todo, x.refs)
    BY <1>4, <1>5, <2>1 DEF Collected, AsMade
  <2>3. ~Awaited(r) => SameInput(x.res, x.orig)
    BY <1>1, <2>1, RunIsCurrent
  <2> QED BY <1>1, <1>7, <2>2, <2>3, ServedGoesOn DEF Stages, Late
<1> QED BY <1>1, <1>3, <1>6, <1>7, ServedFails

LEMMA AppendedRange ==
  ASSUME NEW S, NEW s \in Seq(S), NEW v \in S
  PROVE  Members(Append(s, v)) = Members(s) \cup {v}
<1>1. /\ Len(Append(s, v)) = Len(s) + 1 /\ Len(s) \in Nat
      /\ DOMAIN Append(s, v) = 1 .. Len(s) + 1 /\ DOMAIN s = 1 .. Len(s)
      /\ \A j \in 1 .. Len(s) : Append(s, v)[j] = s[j]
      /\ Append(s, v)[Len(s) + 1] = v
  OBVIOUS
<1>2. /\ Len(s) + 1 \in DOMAIN Append(s, v)
      /\ \A j \in DOMAIN s : j \in DOMAIN Append(s, v)
  BY <1>1
<1>3. \A i \in DOMAIN Append(s, v) : i \in DOMAIN s \/ i = Len(s) + 1
  BY <1>1
<1> QED BY <1>1, <1>2, <1>3 DEF Members

(* One turn of the loop makes one Gateway as the Route asks.               *)
LEMMA GatewayServed ==
  ASSUME ServedInv, NEW r \in Routes, NEW g \in GatewayKeys, ReconcileGateway(r, g)
  PROVE  StepInv(r)'
<1> DEFINE desired == MakeGateway(run[r].cfg, r, run[r].res, g[4])
           skip == [run[r] EXCEPT !.todo = @ \ {g}]
           done == [skip EXCEPT !.refs = Append(@, g)]
           refs == run[r].refs
           todo == run[r].todo
<1>0. TypeOK /\ StoreTyped /\ StepInv(r) /\ g \in Keys
  BY KeySorts DEF ServedInv, ChildInv, LifeInv, IInv, TypeOK
<1>1. pc[r] = "gateways" /\ g \in todo /\ UNCHANGED events
  BY DEF ReconcileGateway, Running
<1>2. run[r] \in Runs /\ run[r].cfg \in Configs /\ refs \in Seq(GatewayKeys)
  BY <1>0, <1>1 DEF TypeOK, RunsTyped, Runs
<1>3. /\ skip.res = run[r].res /\ skip.orig = run[r].orig
      /\ done.res = run[r].res /\ done.orig = run[r].orig /\ done.cfg = run[r].cfg
      /\ done.refs = Append(refs, g) /\ done.todo = todo \ {g}
  BY <1>2 DEF Runs
<1>4. \/ ~ApiDefaults /\ Goto(r, "gateways", skip)
      \/ Write(g, desired) /\ Goto(r, "gateways", done)
      \/ Fail(r)
  BY DEF ReconcileGateway, PutChild, Differs
<1> HIDE DEF skip, done, desired
<1>5. CASE ~ApiDefaults /\ Goto(r, "gateways", skip)
  <2>1. ~Awaited(r) => SameInput(skip.res, skip.orig)
    BY <1>1, <1>3, RunIsCurrent
  <2> QED BY <1>1, <1>5, <2>1, ServedGoesOn DEF Stages, Late
<1>6. CASE Write(g, desired) /\ Goto(r, "gateways", done)
  <2>1. ~Awaited(r) => SameInput(done.res, done.orig)
    BY <1>1, <1>3, RunIsCurrent
  <2>2. ASSUME ApiDefaults
        PROVE  Collected(api', done.cfg, r, done.res, done.todo, done.refs)
    <3> DEFINE want == Wanted(run[r].cfg, r, run[r].res)
    <3>1. Collected(api, run[r].cfg, r, run[r].res, todo, refs)
      BY <1>0, <1>1, <2>2 DEF StepInv, CollectInv
    <3>2. /\ todo \subseteq want /\ Members(refs) = want \ todo
          /\ AsMade(api, want \ todo, run[r].cfg, r, run[r].res)
      BY <3>1 DEF Collected
    <3>3. \A j \in Keys : api'[j] = IF j = g THEN desired ELSE api[j]
      BY <1>0, <1>6, WriteEffect
    <3>4. \A j \in want : j \in Keys
      BY <1>2, WantedAreKeys, KeySorts
    <3>5. want \ (todo \ {g}) = (want \ todo) \cup {g}
      BY <1>1, <3>2
    <3>6. Members(Append(refs, g)) = Members(refs) \cup {g}
      <4>1. refs \in Seq(GatewayKeys)
        BY <1>2
      <4> HIDE DEF refs
      <4> QED BY <4>1, AppendedRange
    <3>7. Members(Append(refs, g)) = want \ (todo \ {g})
      BY <3>2, <3>5, <3>6
    <3> HIDE DEF want
    <3>8. AsMade(api', want \ (todo \ {g}), run[r].cfg, r, run[r].res)
      BY <1>0, <1>1, <3>2, <3>3, <3>4, <3>5 DEF AsMade, desired
    <3> HIDE DEF todo
    <3>9. todo \ {g} \subseteq want
      BY <3>2
    <3> QED BY <1>3, <3>7, <3>8, <3>9 DEF Collected, want
  <2> QED BY <1>1, <1>6, <2>1, <2>2, ServedGoesOn DEF Stages, Late
<1> QED BY <1>1, <1>4, <1>5, <1>6, ServedFails

(* The status gets the readiness of the HTTPRoute that was found or made.  *)
LEMMA PropagateServed ==
  ASSUME ServedInv, NEW r \in Routes, NEW h, pc[r] = "gateways",
         PropagateReadiness(r, h), UNCHANGED events,
         \/ feed'[HTTPRouteKey(r)] # << >>
         \/ /\ api'[HTTPRouteKey(r)] = h /\ h # Absent
            /\ ApiDefaults
                 => /\ GatewayRefs(h) = Wanted(run[r].cfg, r, run[r].res)
                    /\ h.spec \in MakeHTTPRoute(run[r].cfg, r, run[r].res, h.spec.refs),
         ApiDefaults
           => AsMade(api', Wanted(run[r].cfg, r, run[r].res), run[r].cfg, r, run[r].res)
  PROVE  StepInv(r)'
<1> DEFINE b == IsHTTPRouteReady(h)
           st == IngressStatus(run[r].res.status, b)
           res == [run[r].res EXCEPT !.status = st]
           x == [run[r] EXCEPT !.refs = << >>, !.res = res]
<1>1. run[r] \in Runs /\ run[r].res \in RouteObjects /\ b \in BOOLEAN
  BY DEF ServedInv, ChildInv, LifeInv, IInv, TypeOK, RunsTyped, IsHTTPRouteReady
<1>2. st.ingress = b /\ st.traffic = run[r].res.status.traffic
  <2>1. run[r].res.status \in Statuses
    BY <1>1, RouteChanges
  <2> HIDE DEF b
  <2> QED BY <2>1 DEF IngressStatus, Statuses
<1>3. res.status = st /\ res.enabled = run[r].res.enabled /\ res.labels = run[r].res.labels
  <2> HIDE DEF st
  <2> QED BY <1>1 DEF RouteObjects
<1>4. SameInput(run[r].res, res) /\ res.status.ingress = b
  <2> HIDE DEF res, st, b
  <2> QED BY <1>2, <1>3 DEF SameInput
<1>5. x.res = res /\ x.orig = run[r].orig /\ x.cfg = run[r].cfg
  <2> HIDE DEF res
  <2> QED BY <1>1 DEF Runs
<1>6. Goto(r, "post", x)
  BY DEF PropagateReadiness
<1> HIDE DEF x, res, st
<1>7. ~Awaited(r) => SameInput(x.res, x.orig)
  <2>1. ~Awaited(r) => SameInput(run[r].res, run[r].orig)
    BY RunIsCurrent
  <2> QED BY <1>4, <1>5, <2>1 DEF SameInput
<1>8. ServedNext(r, run[r].cfg, res)
  <2>1. /\ Wanted(run[r].cfg, r, run[r].res) = Wanted(run[r].cfg, r, res)
        /\ \A v : MakeGateway(run[r].cfg, r, run[r].res, v) = MakeGateway(run[r].cfg, r, res, v)
        /\ \A refs : MakeHTTPRoute(run[r].cfg, r, run[r].res, refs)
                       = MakeHTTPRoute(run[r].cfg, r, res, refs)
    BY <1>4, SameWanted
  <2>2. Matches(feed'[HTTPRouteKey(r)], api'[HTTPRouteKey(r)], run[r].cfg, r, res)
    BY <1>4, <2>1 DEF Matches
  <2>3. ApiDefaults => AsMade(api', Wanted(run[r].cfg, r, res), run[r].cfg, r, res)
    BY <2>1 DEF AsMade
  <2> QED BY <2>2, <2>3 DEF ServedNext
<1> QED BY <1>5, <1>6, <1>7, <1>8, ServedGoesOn DEF Stages

LEMMA HTTPRouteServed ==
  ASSUME ObjectsArePresent, ServedInv, NEW r \in Routes, ReconcileHTTPRoute(r)
  PROVE  StepInv(r)'
<1> DEFINE k == HTTPRouteKey(r)
           refs == run[r].refs
           want == Wanted(run[r].cfg, r, run[r].res)
           stored(d) == [spec |-> d,
                         status |-> IF api[k] = Absent THEN << >> ELSE api[k].status]
<1>0. /\ TypeOK /\ StoreTyped /\ StepInv(r) /\ HTTPRouteWatch(r) /\ k \in Keys
      /\ \A g \in GatewayKeys : g \in Keys /\ g # k
  BY KeySorts DEF ServedInv, ChildInv, LifeInv, IInv, TypeOK
<1>1. /\ pc[r] = "gateways" /\ run[r].todo = {} /\ proc = "up"
      /\ UNCHANGED <<cache, events>>
  BY DEF ReconcileHTTPRoute, Running
<1>2. run[r].cfg \in Configs
  BY <1>0, <1>1 DEF TypeOK, RunsTyped
<1>3. ApiDefaults => /\ Members(refs) = want
                     /\ AsMade(api, want, run[r].cfg, r, run[r].res)
  BY <1>0, <1>1 DEF StepInv, CollectInv, Collected
<1>4. PICK d \in MakeHTTPRoute(run[r].cfg, r, run[r].res, refs) :
        \/ /\ cache[k] # Absent /\ ~Differs(cache[k].spec, d)
           /\ PropagateReadiness(r, cache[k]) /\ UNCHANGED apiVars
        \/ PutChild(r, k, stored(d), PropagateReadiness(r, stored(d)))
  BY DEF ReconcileHTTPRoute
<1> DEFINE v == stored(d)
<1>5. \/ /\ cache[k] # Absent /\ ~ApiDefaults
         /\ PropagateReadiness(r, cache[k]) /\ UNCHANGED apiVars
      \/ Write(k, v) /\ PropagateReadiness(r, v)
      \/ Fail(r)
  <2> HIDE DEF stored
  <2> QED BY <1>4 DEF PutChild, Differs
<1>6. d.refs = refs
  BY <1>4 DEF MakeHTTPRoute
<1>7. v # Absent /\ v.spec = d
  BY DEF ObjectsArePresent
<1> HIDE DEF v
<1>8. CASE /\ cache[k] # Absent /\ ~ApiDefaults
           /\ PropagateReadiness(r, cache[k]) /\ UNCHANGED apiVars
  <2>1. feed'[k] # << >> \/ api'[k] = cache[k]
    BY <1>0, <1>1, <1>8 DEF HTTPRouteWatch, apiVars
  <2> QED BY <1>1, <1>8, <2>1, PropagateServed
<1>9. CASE Write(k, v) /\ PropagateReadiness(r, v)
  <2>1. api'[k] = v /\ \A g \in GatewayKeys : api'[g] = api[g]
    BY <1>0, <1>9, WriteEffect
  <2>2. ApiDefaults => AsMade(api', want, run[r].cfg, r, run[r].res)
    BY <1>2, <1>3, <2>1, WantedAreKeys DEF AsMade
  <2>3. ApiDefaults => /\ GatewayRefs(v) = want
                       /\ v.spec \in MakeHTTPRoute(run[r].cfg, r, run[r].res, v.spec.refs)
    BY <1>3, <1>4, <1>6, <1>7 DEF GatewayRefs, Members
  <2> QED BY <1>1, <1>7, <1>9, <2>1, <2>2, <2>3, PropagateServed
<1> QED BY <1>1, <1>5, <1>8, <1>9, ServedFails

(* What a run that has made the children hands over when it returns.       *)
LEMMA LateServes ==
  ASSUME ServedInv, NEW r \in Routes, pc[r] \in Late, ~Awaited(r), ~run[r].failed,
         NEW route, SameInput(run[r].res, route), route.enabled,
         run[r].res.status.ingress = route.status.ingress, KeptFor(r)
  PROVE  ServedNext(r, run[r].cfg, route)
<1>1. LateInv(r) /\ pc[r] # "idle"
  BY DEF ServedInv, StepInv, Late
<1>2. run[r].cfg \in Configs
  BY <1>1 DEF ServedInv, ChildInv, LifeInv, IInv, TypeOK, RunsTyped
<1>3. run[r].res.enabled
  BY DEF SameInput
<1>4. Served(r, run[r].cfg, run[r].res)
  BY <1>1, <1>3 DEF LateInv
<1>5. ServedNext(r, run[r].cfg, run[r].res)
  BY <1>2, <1>4, ServedStays
<1> QED BY <1>5, SameServed DEF ServedNext

(* A step that writes nothing, or the Route's status.                      *)
LEMMA RouteStepKeeps ==
  ASSUME ServedInv, NEW r \in Routes, proc = "up", UNCHANGED <<cache, proc>>,
         UNCHANGED apiVars \/ \E v : Write(RouteKey(r), v)
  PROVE  KeptFor(r)
<1>1. StoreTyped /\ RouteKey(r) \in Keys /\ \A g \in GatewayKeys : g \in Keys /\ g # RouteKey(r)
  BY KeySorts DEF ServedInv, ChildInv, LifeInv, IInv, TypeOK
<1>2. CASE UNCHANGED apiVars
  BY <1>2 DEF KeptFor, Unmoved, apiVars
<1>3. CASE \E v : Write(RouteKey(r), v)
  BY <1>1, <1>3, WriteMoves, WriteEffect DEF KeptFor
<1> QED BY <1>2, <1>3

LEMMA PostProcessServed ==
  ASSUME ServedInv, NEW r \in Routes, PostProcess(r)
  PROVE  StepInv(r)'
<1> DEFINE status == [run[r].res.status EXCEPT !.obs = run[r].res.gen]
           res == [run[r].res EXCEPT !.status = status]
           x == [run[r] EXCEPT !.res = res]
<1>0. TypeOK
  BY DEF ServedInv, ChildInv, LifeInv, IInv
<1>1. /\ pc[r] = "post" /\ proc = "up"
      /\ UNCHANGED <<apiVars, cache, proc, config, events>>
  BY DEF PostProcess, Running, procVars
<1>2. run[r] \in Runs /\ run[r].res \in RouteObjects /\ run[r].failed \in BOOLEAN
  BY <1>0, <1>1 DEF TypeOK, RunsTyped, Runs
<1>3. status.ingress = run[r].res.status.ingress /\ status.traffic = run[r].res.status.traffic
  <2>1. run[r].res.status \in Statuses
    BY <1>2, RouteChanges
  <2> QED BY <2>1 DEF Statuses
<1>4. /\ res.status = status /\ res.enabled = run[r].res.enabled
      /\ res.labels = run[r].res.labels
  <2> HIDE DEF status
  <2> QED BY <1>2 DEF RouteObjects
<1>5. SameInput(run[r].res, res) /\ res.status.ingress = run[r].res.status.ingress
  <2> HIDE DEF res, status
  <2> QED BY <1>3, <1>4 DEF SameInput
<1>6. /\ x.res = res /\ x.orig = run[r].orig /\ x.cfg = run[r].cfg
      /\ x.failed = run[r].failed
  <2> HIDE DEF res
  <2> QED BY <1>2 DEF Runs
<1>7. KeptFor(r)
  BY <1>1, RouteStepKeeps
<1>8. \/ status = run[r].orig.status /\ Return(r, run[r].failed)
      \/ Goto(r, "update", x)
  BY DEF PostProcess
<1> HIDE DEF x, res, status
<1>9. CASE Goto(r, "update", x)
  <2>1. ~Awaited(r) => SameInput(x.res, x.orig)
    BY <1>1, <1>5, <1>6, RunIsCurrent DEF SameInput
  <2>2. ~x.failed /\ x.res.enabled /\ ~Awaited(r) => ServedNext(r, x.cfg, x.res)
    BY <1>1, <1>5, <1>6, <1>7, LateServes DEF Late
  <2> QED BY <1>1, <1>9, <2>1, <2>2, ServedGoesOn DEF Stages
<1>10. CASE status = run[r].orig.status /\ Return(r, run[r].failed)
  <2> SUFFICES ASSUME ~run[r].failed, ~Awaited(r), feed'[RouteKey(r)] = << >>, Managed(r)'
               PROVE  ServedNext(r, config, api'[RouteKey(r)])
    BY <1>1, <1>2, <1>10, ServedReturns
  <2> DEFINE route == api[RouteKey(r)]
  <2>1. api'[RouteKey(r)] = route /\ feed[RouteKey(r)] = << >>
    BY <1>1 DEF apiVars
  <2>2. run[r].orig = route /\ run[r].cfg = config /\ SameInput(run[r].res, route)
    BY <1>1, <2>1, RunIsCurrent
  <2>3. route.enabled
    BY <2>1 DEF Managed
  <2>4. run[r].res.status.ingress = route.status.ingress
    BY <1>3, <1>10, <2>2
  <2> HIDE DEF route
  <2>5. ServedNext(r, run[r].cfg, route)
    BY <1>1, <1>7, <2>2, <2>3, <2>4, LateServes DEF Late
  <2> QED BY <2>1, <2>2, <2>5
<1> QED BY <1>8, <1>9, <1>10

(* A status that is stored already, or that the write stored without       *)
(* making a new version.                                                   *)
LEMMA StoredStatusServes ==
  ASSUME ServedInv, NEW r \in Routes, pc[r] \in Late, ~Awaited(r), ~run[r].failed,
         KeptFor(r), feed'[RouteKey(r)] = << >>, api'[RouteKey(r)].enabled,
         api'[RouteKey(r)].status = run[r].res.status
  PROVE  ServedNext(r, config, api'[RouteKey(r)])
<1> DEFINE route == api[RouteKey(r)]
<1>1. api'[RouteKey(r)] = route /\ feed[RouteKey(r)] = << >>
  BY DEF KeptFor, Unmoved
<1>2. run[r].orig = route /\ run[r].cfg = config /\ SameInput(run[r].res, route)
  BY <1>1, RunIsCurrent DEF Late
<1>3. route.enabled /\ run[r].res.status.ingress = route.status.ingress
  BY <1>1
<1> HIDE DEF route
<1>4. ServedNext(r, run[r].cfg, route)
  BY <1>2, <1>3, LateServes
<1> QED BY <1>1, <1>2, <1>4

LEMMA UpdateStatusServed ==
  ASSUME ServedInv, NEW r \in Routes, UpdateStatus(r)
  PROVE  StepInv(r)'
<1> DEFINE k == RouteKey(r)
           v == [api[k] EXCEPT !.status = run[r].res.status]
           x == [run[r] EXCEPT !.attempt = @ + 1]
<1>0. TypeOK /\ StoreTyped /\ k \in Keys /\ k \in RouteKeys
  BY KeyKinds DEF ServedInv, ChildInv, LifeInv, IInv, TypeOK
<1>1. pc[r] = "update" /\ proc = "up" /\ UNCHANGED <<cache, proc, config, events>>
  BY DEF UpdateStatus, Running, procVars
<1>2. run[r] \in Runs /\ run[r].failed \in BOOLEAN
  BY <1>0, <1>1 DEF TypeOK, RunsTyped, Runs
<1>3. /\ x.res = run[r].res /\ x.orig = run[r].orig /\ x.cfg = run[r].cfg
      /\ x.failed = run[r].failed
  BY <1>2 DEF Runs
<1>4. KeptFor(r)
  <2>1. UNCHANGED apiVars \/ \E u : Write(k, u)
    BY DEF UpdateStatus
  <2> QED BY <1>1, <2>1, RouteStepKeeps
<1>5. \/ Return(r, TRUE)
      \/ Goto(r, "refetch", x)
      \/ api[k] # Absent /\ Write(k, v) /\ Return(r, run[r].failed)
  <2>1. CASE \E o \in Outcomes :
               /\ api[k] # Absent
               /\ IF o = "failed" THEN UNCHANGED apiVars ELSE Write(k, v)
               /\ Return(r, o # "ok" \/ run[r].failed)
    <3>1. PICK o \in Outcomes :
               /\ api[k] # Absent
               /\ IF o = "failed" THEN UNCHANGED apiVars ELSE Write(k, v)
               /\ Return(r, o # "ok" \/ run[r].failed)
      BY <2>1
    <3>2. CASE o = "ok"
      <4>1. (o # "ok" \/ run[r].failed) = run[r].failed
        BY <1>2, <3>2
      <4> QED BY <3>1, <3>2, <4>1
    <3>3. CASE o # "ok"
      <4>1. (o # "ok" \/ run[r].failed) = TRUE
        BY <3>3
      <4> QED BY <3>1, <4>1
    <3> QED BY <3>2, <3>3
  <2> QED BY <2>1 DEF UpdateStatus
<1>6. api[k] # Absent => v.status = run[r].res.status
  BY <1>0 DEF StoreTyped, RouteObjects
<1> HIDE DEF x, v
<1>7. CASE Return(r, TRUE)
  BY <1>1, <1>7, ServedReturns
<1>8. CASE Goto(r, "refetch", x)
  <2>1. ~Awaited(r) => SameInput(x.res, x.orig)
    BY <1>1, <1>3, RunIsCurrent
  <2>2. ~x.failed /\ x.res.enabled /\ ~Awaited(r) => ServedNext(r, x.cfg, x.res)
    BY <1>1, <1>3, <1>4, LateServes DEF Late, SameInput
  <2> QED BY <1>1, <1>8, <2>1, <2>2, ServedGoesOn DEF Stages
<1>9. CASE api[k] # Absent /\ Write(k, v) /\ Return(r, run[r].failed)
  <2> SUFFICES ASSUME ~run[r].failed, ~Awaited(r), feed'[k] = << >>, Managed(r)'
               PROVE  ServedNext(r, config, api'[k])
    BY <1>1, <1>2, <1>9, ServedReturns
  <2>1. api'[k].enabled /\ api'[k].status = run[r].res.status
    BY <1>0, <1>6, <1>9, WriteEffect DEF Managed
  <2> QED BY <1>1, <1>4, <2>1, StoredStatusServes DEF Late
<1> QED BY <1>5, <1>7, <1>8, <1>9

LEMMA RefetchServed ==
  ASSUME ServedInv, NEW r \in Routes, Refetch(r)
  PROVE  StepInv(r)'
<1> DEFINE k == RouteKey(r)
           x == [run[r] EXCEPT !.stale = FALSE]
<1>0. TypeOK
  BY DEF ServedInv, ChildInv, LifeInv, IInv
<1>1. /\ pc[r] = "refetch" /\ proc = "up"
      /\ UNCHANGED <<apiVars, cache, proc, config, events>>
  BY DEF Refetch, Running, procVars
<1>2. run[r] \in Runs /\ run[r].failed \in BOOLEAN
  BY <1>0, <1>1 DEF TypeOK, RunsTyped, Runs
<1>3. /\ x.res = run[r].res /\ x.orig = run[r].orig /\ x.cfg = run[r].cfg
      /\ x.failed = run[r].failed
  BY <1>2 DEF Runs
<1>4. KeptFor(r)
  BY <1>1, RouteStepKeeps
<1>5. \/ Return(r, TRUE)
      \/ api[k].status = run[r].res.status /\ Return(r, run[r].failed)
      \/ Goto(r, "update", x)
  BY DEF Refetch
<1> HIDE DEF x
<1>6. CASE Return(r, TRUE)
  BY <1>1, <1>6, ServedReturns
<1>7. CASE api[k].status = run[r].res.status /\ Return(r, run[r].failed)
  <2> SUFFICES ASSUME ~run[r].failed, ~Awaited(r), feed'[k] = << >>, Managed(r)'
               PROVE  ServedNext(r, config, api'[k])
    BY <1>1, <1>2, <1>7, ServedReturns
  <2>1. api'[k].enabled /\ api'[k].status = run[r].res.status
    BY <1>1, <1>7 DEF Managed, apiVars
  <2> QED BY <1>1, <1>4, <2>1, StoredStatusServes DEF Late
<1>8. CASE Goto(r, "update", x)
  <2>1. ~Awaited(r) => SameInput(x.res, x.orig)
    BY <1>1, <1>3, RunIsCurrent
  <2>2. ~x.failed /\ x.res.enabled /\ ~Awaited(r) => ServedNext(r, x.cfg, x.res)
    BY <1>1, <1>3, <1>4, LateServes DEF Late, SameInput
  <2> QED BY <1>1, <1>8, <2>1, <2>2, ServedGoesOn DEF Stages
<1> QED BY <1>5, <1>6, <1>7, <1>8

LEMMA FinalizeServed ==
  ASSUME ServedInv, NEW r \in Routes,
         ClearFinalizer(r) \/ \E g \in GatewayKeys : DeleteGateway(r, g)
  PROVE  StepInv(r)'
<1>0. /\ TypeOK /\ StoreTyped /\ RouteKey(r) \in Keys
      /\ pc[r] = "delete" /\ UNCHANGED <<config, events>>
  BY KeySorts DEF ServedInv, ChildInv, LifeInv, IInv, TypeOK, ClearFinalizer, DeleteGateway,
                  Running, procVars
<1>1. ASSUME NEW g \in GatewayKeys, DeleteGateway(r, g)
      PROVE  StepInv(r)'
  <2> DEFINE x == [run[r] EXCEPT !.todo = @ \ {g}]
  <2>1. Return(r, TRUE) \/ Goto(r, "delete", x)
    BY <1>1 DEF DeleteGateway
  <2>2. x.res = run[r].res /\ x.orig = run[r].orig
    BY <1>0 DEF TypeOK, RunsTyped, Runs
  <2> HIDE DEF x
  <2>3. ~Awaited(r) => SameInput(x.res, x.orig)
    BY <1>0, <2>2, RunIsCurrent
  <2>4. CASE Goto(r, "delete", x)
    BY <1>0, <2>3, <2>4, ServedGoesOn DEF Stages, Late
  <2> QED BY <1>0, <2>1, <2>4, ServedReturns
<1>2. CASE ClearFinalizer(r)
  <2>1. PICK err \in BOOLEAN : Return(r, err) /\ (err \/ Write(RouteKey(r), Absent))
    BY <1>2 DEF ClearFinalizer, Outcomes
  <2>2. ~err => ~Managed(r)'
    BY <1>0, <2>1, WriteEffect DEF Managed
  <2> QED BY <1>0, <2>1, <2>2, ServedReturns
<1> QED BY <1>1, <1>2

LEMMA OwnStepServed ==
  ASSUME ObjectsArePresent, ServedInv, NEW r \in Routes, Worker(r), ~Panic(r)
  PROVE  StepInv(r)'
  BY SetFinalizerServed, ServicesServed, CollectHostnamesServed, GatewayServed,
     HTTPRouteServed, PostProcessServed, UpdateStatusServed, RefetchServed, FinalizeServed
  DEF Worker

(* The other Routes see nothing of it but versions to come.                *)
LEMMA WorkerServed ==
  ASSUME ObjectsArePresent, ServedInv, NEW r \in Routes, Worker(r), ~Panic(r)
  PROVE  \A q \in Routes : HTTPRouteWatch(q)' /\ StepInv(q)'
<1>1. TypeOK /\ StoreInv /\ StoreTyped /\ ChildInv
  BY DEF ServedInv, ChildInv, LifeInv, IInv, TypeOK, StoreInv
<1>2. Narrates(r) /\ Progress(r) /\ proc = "up"
  BY <1>1, WorkerNarrates, WorkerProgress, WorkerRuns
<1>3. UNCHANGED <<cache, config, proc, events>> /\ queue \subseteq queue'
  BY <1>2 DEF Progress, Continues, Finishes, Return, procVars
<1>4. ASSUME NEW q \in Routes
      PROVE  /\ HTTPRouteWatch(q)'
             /\ Unmoved(RouteKey(q)) /\ Unmoved(HTTPRouteKey(q))
  <2>1. CASE UNCHANGED apiVars
    BY <1>3, <2>1 DEF ServedInv, HTTPRouteWatch, IsSeq, Unmoved, apiVars
  <2>2. CASE \E k \in Keys : \E v : Write(k, v)
    BY <1>2, <1>3, <2>2, WriteMoves
  <2> QED BY <1>2, <2>1, <2>2 DEF Narrates
<1>5. ASSUME NEW q \in Routes, q # r
      PROVE  StepInv(q)'
  <2>1. Spectates(q)
    BY <1>2, <1>5 DEF Narrates, Spectates
  <2>2. ASSUME NEW g \in GatewayKeys, NamedFor(g, q)
        PROVE  api'[g] = api[g]
    <3>1. ASSUME NEW k \in Keys, NEW v, Write(k, v), Chapter(r, k, v)
          PROVE  api'[g] = api[g]
      <4>1. k \in GatewayKeys => NamedFor(k, r)
        BY <3>1, KeySorts DEF Chapter, GatewayVersion
      <4>2. g # k
        BY <1>5, <2>2, <4>1, NamesAssumption DEF NamedFor
      <4> QED BY <1>1, <3>1, <4>2, WriteEffect, KeySorts
    <3> QED BY <1>2, <3>1 DEF Narrates, apiVars
  <2>3. KeptFor(q)
    BY <1>4, <2>2 DEF KeptFor
  <2>4. Awaited(q) => Awaited(q)'
    BY <1>3 DEF Awaited
  <2> QED BY <1>3, <2>1, <2>3, <2>4, SpectatorIsServed
<1> QED BY <1>4, <1>5, OwnStepServed

-----------------------------------------------------------------------------
(* Steps of the others and of the process.                                 *)

LEMMA DownIsServed ==
  ASSUME NEW r \in Routes, proc' # "up", pc'[r] = "idle"
  PROVE  StepInv(r)'
  BY DEF StepInv, CollectInv, InputInv, LateInv, RestInv, Idle, Late

LEMMA OthersWrite ==
  ASSUME NEW r \in Routes, Others(r)
  PROVE  /\ UNCHANGED envUnchanged
         /\ UNCHANGED run \/ run' = [run EXCEPT ![r].stale = TRUE]
         /\ \E k \in Keys \ GatewayKeys : \E v : Write(k, v)
<1>1. RouteKey(r) \in Keys \ GatewayKeys /\ HTTPRouteKey(r) \in Keys \ GatewayKeys
  BY KeySorts
<1>2. CASE EditRoute(r) \/ DeleteRoute(r) \/ ServingSync(r)
  <2>1. UNCHANGED envUnchanged /\ \E v : WriteRoute(r, v)
    BY <1>2 DEF EditRoute, DeleteRoute, ServingSync
  <2> QED BY <1>1, <2>1 DEF WriteRoute
<1>3. CASE Prune(r) \/ \E g \in GatewayKeys : Admit(r, g) \/ Reject(r, g)
  <2>1. \E status : WriteGatewayStatus(r, status)
    BY <1>3 DEF Admit, Reject, Prune
  <2>2. UNCHANGED <<envUnchanged, run>> /\ \E v : Write(HTTPRouteKey(r), v)
    BY <2>1 DEF WriteGatewayStatus
  <2> QED BY <1>1, <2>2
<1>4. ASSUME NEW k \in Keys, CollectGarbage(r, k)
      PROVE  k \in Keys \ GatewayKeys /\ Write(k, Absent) /\ UNCHANGED <<envUnchanged, run>>
  <2>1. k = HTTPRouteKey(r) \/ k \in ServiceKeys
    BY <1>4 DEF CollectGarbage, OwnedKeys, ServiceKeys
  <2> QED BY <1>4, <2>1, KeySorts DEF CollectGarbage
<1> QED BY <1>2, <1>3, <1>4 DEF Others

LEMMA OthersServed ==
  ASSUME ServedInv, NEW r \in Routes, Others(r)
  PROVE  \A q \in Routes : HTTPRouteWatch(q)' /\ StepInv(q)'
<1>1. PICK k \in Keys \ GatewayKeys : \E v : Write(k, v)
  BY OthersWrite
<1>2. /\ UNCHANGED <<cache, config, proc, events, queue, pc>>
      /\ UNCHANGED run \/ run' = [run EXCEPT ![r].stale = TRUE]
  BY OthersWrite DEF envUnchanged, procVars
<1>3. StoreTyped /\ RunInv /\ run \in [Routes -> Runs]
  BY DEF ServedInv, ChildInv, LifeInv, IInv, TypeOK, RunsTyped
<1>4. ASSUME NEW q \in Routes
      PROVE  HTTPRouteWatch(q)' /\ StepInv(q)'
  <2>1. /\ HTTPRouteWatch(q)'
        /\ proc = "up" => Unmoved(RouteKey(q)) /\ Unmoved(HTTPRouteKey(q))
    BY <1>1, <1>2, WriteMoves
  <2>2. \A g \in GatewayKeys : api'[g] = api[g]
    BY <1>1, <1>3, WriteEffect, KeySorts
  <2>3. Spectates(q)
    <3>1. run[q] \in Runs /\ pc'[q] = pc[q]
      BY <1>2, <1>3
    <3>2. run'[q] = run[q] \/ run'[q] = [run[q] EXCEPT !.stale = TRUE]
      BY <1>2, <1>3
    <3> DEFINE x == run[q]
    <3>3. x \in Runs /\ (run'[q] = x \/ run'[q] = [x EXCEPT !.stale = TRUE])
      BY <3>1, <3>2
    <3> HIDE DEF x
    <3>4. /\ run'[q].orig = x.orig /\ run'[q].res = x.res
          /\ run'[q].cfg = x.cfg /\ run'[q].todo = x.todo
          /\ run'[q].refs = x.refs /\ run'[q].failed = x.failed
      BY <3>3 DEF Runs
    <3> QED BY <3>1, <3>4 DEF Spectates, x
  <2>4. CASE proc = "up"
    BY <1>2, <2>1, <2>2, <2>3, <2>4, SpectatorIsServed DEF KeptFor, Awaited
  <2>5. CASE proc # "up"
    <3>1. proc' # "up" /\ pc'[q] = "idle"
      BY <1>2, <1>3, <2>5 DEF RunInv
    <3> QED BY <2>1, <3>1, DownIsServed
  <2> QED BY <2>1, <2>4, <2>5
<1> QED BY <1>4

LEMMA DeliverServed ==
  ASSUME ServedInv, NEW k \in Keys, Deliver(k)
  PROVE  \A q \in Routes : HTTPRouteWatch(q)' /\ StepInv(q)'
<1>1. /\ proc = "up" /\ feed[k] # << >>
      /\ cache' = [cache EXCEPT ![k] = Head(feed[k])]
      /\ feed' = [feed EXCEPT ![k] = Tail(@)]
      /\ events' = events \cup {q \in Routes : k \in NotifyingKeys(q)}
      /\ UNCHANGED <<api, config, proc, queue, pc, run>>
  BY DEF Deliver, procVars
<1>2. DOMAIN cache = Keys /\ DOMAIN feed = Keys
  BY DEF ServedInv, ChildInv, LifeInv, IInv, TypeOK, StoreTyped
<1>3. ASSUME NEW q \in Routes
      PROVE  HTTPRouteWatch(q)' /\ StepInv(q)'
  <2> DEFINE h == HTTPRouteKey(q)
             s == feed[h]
  <2>1. h \in Keys /\ RouteKey(q) \in Keys /\ HTTPRouteWatch(q)
    BY KeySorts, KeyKinds DEF ServedInv
  <2>2. HTTPRouteWatch(q)'
    <3>1. CASE k # h
      <4>1. feed'[h] = feed[h] /\ cache'[h] = cache[h]
        BY <1>1, <1>2, <2>1, <3>1
      <4> QED BY <1>1, <2>1, <4>1 DEF HTTPRouteWatch, IsSeq
    <3>2. CASE k = h
      <4>1. /\ s # << >> /\ cache'[h] = Head(s) /\ feed'[h] = Tail(s)
            /\ s[Len(s)] = api'[h] /\ IsSeq(s)
        BY <1>1, <1>2, <2>1, <3>2 DEF HTTPRouteWatch
      <4>2. PICK S : s \in Seq(S)
        BY <4>1 DEF IsSeq
      <4> HIDE DEF s
      <4>3. /\ Head(s) = s[1] /\ Tail(s) \in Seq(S) /\ Len(Tail(s)) = Len(s) - 1
            /\ \A i \in 1 .. Len(Tail(s)) : Tail(s)[i] = s[i + 1]
            /\ Len(s) \in Nat \ {0}
        BY <4>1, <4>2, HeadTailProperties, EmptySeq
      <4>4. Tail(s) = << >> => Head(s) = api'[h]
        <5>1. Tail(s) = << >> => Len(Tail(s)) = 0
          BY EmptySeq
        <5>2. Tail(s) = << >> => Len(s) = 1
          BY <4>3, <5>1
        <5> QED BY <4>1, <4>3, <5>2
      <4>5. Tail(s) # << >> => Tail(s)[Len(Tail(s))] = api'[h]
        <5>1. Tail(s) # << >> => Len(Tail(s)) # 0
          BY <4>3, EmptySeq
        <5> QED BY <4>1, <4>3, <5>1
      <4>6. IsSeq(feed'[h])
        BY <4>1, <4>3 DEF IsSeq
      <4> QED BY <1>1, <4>1, <4>4, <4>5, <4>6 DEF HTTPRouteWatch, IsSeq
    <3> QED BY <3>1, <3>2
  <2>3. Spectates(q) /\ \A g \in GatewayKeys : NamedFor(g, q) => api'[g] = api[g]
    BY <1>1 DEF Spectates
  <2>4. CASE k \in {RouteKey(q), h}
    <3>1. Awaited(q)'
      BY <1>1, <2>4 DEF Awaited, NotifyingKeys, OwnedKeys
    <3>2. CollectInv(q)'
      BY <2>3, SpectatorCollects
    <3> QED BY <2>2, <3>1, <3>2, AwaitedIsServed
  <2>5. CASE k \notin {RouteKey(q), h}
    <3>1. Unmoved(RouteKey(q)) /\ Unmoved(h)
      BY <1>1, <1>2, <2>1, <2>5 DEF Unmoved
    <3>2. KeptFor(q) /\ (Awaited(q) => Awaited(q)')
      BY <1>1, <2>3, <3>1 DEF KeptFor, Awaited
    <3>3. UNCHANGED <<proc, config>>
      BY <1>1
    <3> QED BY <2>2, <2>3, <3>2, <3>3, SpectatorIsServed
  <2> QED BY <2>4, <2>5
<1> QED BY <1>3

(* Steps that leave the objects and the runs alone and drop no event.      *)
LEMMA BystandersServe ==
  ASSUME ServedInv, UNCHANGED <<api, cache, feed, config, proc, pc, run>>,
         queue \cup events \subseteq queue' \cup events'
  PROVE  \A q \in Routes : HTTPRouteWatch(q)' /\ StepInv(q)'
<1>1. ASSUME NEW q \in Routes
      PROVE  HTTPRouteWatch(q)' /\ StepInv(q)'
  <2>1. HTTPRouteWatch(q)'
    BY DEF ServedInv, HTTPRouteWatch, IsSeq
  <2>2. Spectates(q) /\ KeptFor(q) /\ (Awaited(q) => Awaited(q)')
    BY DEF Spectates, KeptFor, Unmoved, Awaited
  <2> QED BY <2>1, <2>2, SpectatorIsServed
<1> QED BY <1>1

(* A Route that is not in the lister, with nothing left in its watch, is   *)
(* not there.                                                              *)
LEMMA UncachedRests ==
  ASSUME ServedInv, NEW r \in Routes, proc = "up", cache[RouteKey(r)] = Absent,
         pc'[r] = "idle", UNCHANGED <<api, feed>>
  PROVE  StepInv(r)'
<1>1. feed[RouteKey(r)] = << >> => api[RouteKey(r)] = Absent
  BY KeyKinds DEF ServedInv, ChildInv, LifeInv, IInv, WatchInv
<1>2. RestInv(r)'
  BY <1>1 DEF RestInv, Managed
<1> QED BY <1>2 DEF StepInv, CollectInv, InputInv, LateInv, Late

LEMMA ConfigChangeServed ==
  ASSUME ServedInv, NEW c \in Configs, ConfigChange(c)
  PROVE  \A q \in Routes : HTTPRouteWatch(q)' /\ StepInv(q)'
<1>1. /\ UNCHANGED <<api, cache, feed, proc, queue, pc, run>>
      /\ events' = events \cup (IF proc = "up" THEN CachedRoutes ELSE {})
  BY DEF ConfigChange, apiVars
<1>2. ASSUME NEW q \in Routes
      PROVE  HTTPRouteWatch(q)' /\ StepInv(q)'
  <2>1. HTTPRouteWatch(q)'
    BY <1>1 DEF ServedInv, HTTPRouteWatch, IsSeq
  <2>2. RunInv
    BY DEF ServedInv, ChildInv, LifeInv, IInv
  <2>3. CASE proc # "up"
    <3>1. proc' # "up" /\ pc'[q] = "idle"
      BY <1>1, <2>2, <2>3 DEF RunInv
    <3> QED BY <2>1, <3>1, DownIsServed
  <2>4. CASE Awaited(q)'
    <3>1. Spectates(q) /\ \A g \in GatewayKeys : NamedFor(g, q) => api'[g] = api[g]
      BY <1>1 DEF Spectates
    <3>2. CollectInv(q)'
      BY <3>1, SpectatorCollects
    <3> QED BY <2>1, <2>4, <3>2, AwaitedIsServed
  <2>5. CASE proc = "up" /\ ~Awaited(q)'
    <3>1. cache[RouteKey(q)] = Absent /\ ~Awaited(q)
      BY <1>1, <2>5 DEF Awaited, CachedRoutes
    <3>2. pc'[q] = "idle"
      BY <1>1, <2>2, <3>1 DEF RunInv, Awaited
    <3>3. UNCHANGED <<api, feed>>
      BY <1>1
    <3> QED BY <2>1, <2>5, <3>1, <3>2, <3>3, UncachedRests
  <2> QED BY <2>3, <2>4, <2>5
<1> QED BY <1>2

LEMMA StopServed ==
  ASSUME NEW how, how # "up", Stop(how)
  PROVE  \A q \in Routes : HTTPRouteWatch(q)' /\ StepInv(q)'
<1>1. ASSUME NEW q \in Routes
      PROVE  HTTPRouteWatch(q)' /\ StepInv(q)'
  <2>1. proc' # "up" /\ pc'[q] = "idle" /\ feed'[HTTPRouteKey(q)] = << >>
    BY KeySorts DEF Stop
  <2>2. HTTPRouteWatch(q)'
    BY <2>1, EmptyIsSeq DEF HTTPRouteWatch, IsSeq
  <2> QED BY <2>1, <2>2, DownIsServed
<1> QED BY <1>1

LEMMA RestartServed ==
  ASSUME ServedInv, Restart
  PROVE  \A q \in Routes : HTTPRouteWatch(q)' /\ StepInv(q)'
<1>1. ASSUME NEW q \in Routes
      PROVE  HTTPRouteWatch(q)' /\ StepInv(q)'
  <2>1. /\ proc # "up" /\ proc' = "up" /\ cache' = api
        /\ UNCHANGED <<api, feed, pc, run>>
        /\ events' = {r \in Routes : \E k \in NotifyingKeys(r) : api[k] # Absent}
    BY DEF Restart, apiVars
  <2>2. HTTPRouteWatch(q)'
    BY <2>1 DEF ServedInv, HTTPRouteWatch, IsSeq
  <2>3. pc'[q] = "idle"
    BY <2>1 DEF ServedInv, ChildInv, LifeInv, IInv, RunInv
  <2>4. RestInv(q)'
    <3>1. api[RouteKey(q)] # Absent => q \in events'
      BY <2>1 DEF NotifyingKeys
    <3> QED BY <2>1, <3>1 DEF RestInv, Idle, Managed
  <2>5. StepInv(q)'
    BY <2>3, <2>4 DEF StepInv, CollectInv, InputInv, LateInv, Late
  <2> QED BY <2>2, <2>5
<1> QED BY <1>1

LEMMA StartServed ==
  ASSUME ServedInv, NEW r \in Routes, Start(r)
  PROVE  \A q \in Routes : HTTPRouteWatch(q)' /\ StepInv(q)'
<1> DEFINE original == cache[RouteKey(r)]
           begin == [NoRun EXCEPT !.orig = original, !.res = original,
                       !.cfg = config, !.stale = Outdated(RouteKey(r))]
           x == [begin EXCEPT !.todo = ListGateways(r, cache)]
<1>0. /\ pc \in [Routes -> Stages] /\ run \in [Routes -> Runs]
      /\ UNCHANGED <<api, cache, feed, config, proc, events>>
      /\ proc = "up" /\ pc[r] = "idle" /\ queue' = queue \ {r}
  BY DEF ServedInv, ChildInv, LifeInv, IInv, TypeOK, RunsTyped, Start, Running, procVars
<1>1. \/ original = Absent /\ UNCHANGED <<pc, run>>
      \/ /\ pc' = [pc EXCEPT ![r] = "finalizer"]
         /\ run' = [run EXCEPT ![r] = begin]
      \/ /\ pc' = [pc EXCEPT ![r] = "delete"]
         /\ run' = [run EXCEPT ![r] = x]
  BY DEF Start
<1>2. begin.todo = {} /\ begin.res = begin.orig /\ x.res = x.orig
  BY DEF NoRun
<1> HIDE DEF begin, x
<1>3. \A q \in Routes : HTTPRouteWatch(q)'
  BY <1>0 DEF ServedInv, HTTPRouteWatch, IsSeq
<1>4. ASSUME NEW q \in Routes, q # r
      PROVE  StepInv(q)'
  <2>1. pc'[q] = pc[q] /\ run'[q] = run[q]
    BY <1>0, <1>1, <1>4
  <2>2. Spectates(q) /\ KeptFor(q) /\ (Awaited(q) => Awaited(q)')
    BY <1>0, <1>4, <2>1 DEF Spectates, KeptFor, Unmoved, Awaited
  <2>3. UNCHANGED <<proc, config>>
    BY <1>0
  <2> QED BY <2>2, <2>3, SpectatorIsServed
<1>5. StepInv(r)'
  <2>1. CASE original = Absent /\ UNCHANGED <<pc, run>>
    <3>1. pc'[r] = "idle" /\ UNCHANGED <<api, feed>>
      BY <1>0, <2>1
    <3> QED BY <1>0, <2>1, <3>1, UncachedRests
  <2>2. CASE pc' = [pc EXCEPT ![r] = "finalizer"] /\ run' = [run EXCEPT ![r] = begin]
    <3>1. pc'[r] = "finalizer" /\ run'[r] = begin
      BY <1>0, <2>2
    <3> QED BY <1>2, <3>1 DEF StepInv, CollectInv, InputInv, LateInv, Late,
                              RestInv, Idle, SameInput
  <2>3. CASE pc' = [pc EXCEPT ![r] = "delete"] /\ run' = [run EXCEPT ![r] = x]
    <3>1. pc'[r] = "delete" /\ run'[r] = x
      BY <1>0, <2>3
    <3> QED BY <1>2, <3>1 DEF StepInv, CollectInv, InputInv, LateInv, Late,
                              RestInv, Idle, SameInput
  <2> QED BY <1>1, <2>1, <2>2, <2>3
<1> QED BY <1>3, <1>4, <1>5

LEMMA ProcessServed ==
  ASSUME ServedInv, Process
  PROVE  \A q \in Routes : HTTPRouteWatch(q)' /\ StepInv(q)'
<1>1. CASE \E k \in Keys : Deliver(k)
  BY <1>1, DeliverServed
<1>2. CASE Resync \/ \E r \in Routes : Enqueue(r)
  <2>1. /\ UNCHANGED <<api, cache, feed, config, proc, pc, run>>
        /\ queue \cup events \subseteq queue' \cup events'
    BY <1>2 DEF Enqueue, Resync, apiVars, procVars
  <2> QED BY <2>1, BystandersServe
<1>3. CASE \E c \in Configs : ConfigChange(c)
  BY <1>3, ConfigChangeServed
<1>4. CASE Crash
  <2>1. Stop("crashed") /\ "crashed" # "up"
    BY <1>4 DEF Crash
  <2> QED BY <2>1, StopServed
<1>5. CASE Restart
  BY <1>5, RestartServed
<1> QED BY <1>1, <1>2, <1>3, <1>4, <1>5 DEF Process

-----------------------------------------------------------------------------
LEMMA InitServed ==
  Init => \A q \in Routes : HTTPRouteWatch(q) /\ StepInv(q)
<1> SUFFICES ASSUME Init, NEW q \in Routes
             PROVE  HTTPRouteWatch(q) /\ StepInv(q)
  OBVIOUS
<1>1. PICK o \in [Routes -> NewRoutes] :
        /\ api = [j \in Keys |-> IF j \in RouteKeys THEN o[j[2]] ELSE Absent]
        /\ cache = [j \in Keys |-> Absent]
        /\ feed = [j \in Keys |-> IF j \in RouteKeys THEN << o[j[2]] >> ELSE << >>]
        /\ pc = [j \in Routes |-> "idle"]
        /\ proc = "up"
  BY DEF Init
<1>2. /\ api[HTTPRouteKey(q)] = Absent /\ cache[HTTPRouteKey(q)] = Absent
      /\ feed[HTTPRouteKey(q)] = << >>
      /\ feed[RouteKey(q)] = << o[RouteKey(q)[2]] >>
      /\ pc[q] = "idle"
  BY <1>1, KeyKinds
<1>3. HTTPRouteWatch(q)
  BY <1>1, <1>2, EmptyIsSeq DEF HTTPRouteWatch
<1>4. feed[RouteKey(q)] # << >>
  BY <1>2
<1> QED BY <1>2, <1>3, <1>4 DEF StepInv, CollectInv, InputInv, LateInv, Late, RestInv

LEMMA NextKeepsServed ==
  ASSUME ObjectsArePresent
  PROVE  ServedInv /\ [Next]_vars => ServedInv'
<1> SUFFICES ASSUME ServedInv, [Next]_vars
             PROVE  ServedInv'
  OBVIOUS
<1>1. ChildInv'
  BY NextKeepsChildren DEF ServedInv
<1>2. \A q \in Routes : HTTPRouteWatch(q)' /\ StepInv(q)'
  <2>1. ASSUME NEW r \in Routes, Start(r)
        PROVE  \A q \in Routes : HTTPRouteWatch(q)' /\ StepInv(q)'
    BY <2>1, StartServed
  <2>2. ASSUME NEW r \in Routes, Panic(r)
        PROVE  \A q \in Routes : HTTPRouteWatch(q)' /\ StepInv(q)'
    <3>1. Stop("panicked") /\ "panicked" # "up"
      BY <2>2 DEF Panic
    <3> QED BY <3>1, StopServed
  <2>3. ASSUME NEW r \in Routes, Worker(r), ~Panic(r)
        PROVE  \A q \in Routes : HTTPRouteWatch(q)' /\ StepInv(q)'
    BY <2>3, WorkerServed
  <2>4. ASSUME NEW r \in Routes, Others(r)
        PROVE  \A q \in Routes : HTTPRouteWatch(q)' /\ StepInv(q)'
    BY <2>4, OthersServed
  <2>5. CASE Process
    BY <2>5, ProcessServed
  <2>6. CASE UNCHANGED vars
    <3>1. /\ UNCHANGED <<api, cache, feed, config, proc, pc, run>>
          /\ queue \cup events \subseteq queue' \cup events'
      BY <2>6 DEF vars, apiVars, procVars
    <3> QED BY <3>1, BystandersServe
  <2> QED BY <2>1, <2>2, <2>3, <2>4, <2>5, <2>6 DEF Next
<1> QED BY <1>1, <1>2 DEF ServedInv

LEMMA AlwaysServed ==
  ASSUME ObjectsArePresent
  PROVE  Spec => []ServedInv
<1>1. Init => ServedInv
  BY InitInv, InitLife, InitChildren, InitServed DEF ServedInv, ChildInv, LifeInv
<1> QED BY <1>1, NextKeepsServed, PTL DEF Spec

(* What the invariant says of a Route that is at rest.                     *)
LEMMA RestIsServed ==
  ASSUME ServedInv, NEW r \in Routes, Quiet(r), Managed(r)
  PROVE  LET route == api[RouteKey(r)]
             h == api[HTTPRouteKey(r)]
         IN  /\ h # Absent
             /\ route.status.ingress <=> IsHTTPRouteReady(h)
             /\ ApiDefaults => /\ AsMade(api, Wanted(config, r, route), config, r, route)
                               /\ GatewayRefs(h) = Wanted(config, r, route)
                               /\ h.spec \in MakeHTTPRoute(config, r, route, h.spec.refs)
<1>1. Served(r, config, api[RouteKey(r)]) /\ feed[HTTPRouteKey(r)] = << >>
  BY DEF ServedInv, StepInv, RestInv, Quiet
<1> QED BY <1>1 DEF Served, Matches

(* Whatever was edited, failed, went stale or crashed before: once a Route *)
(* is at rest, the readiness PostProcess stored in its status is what the  *)
(* Gateway implementation says of the HTTPRoute.                           *)
THEOREM ReadinessAlwaysCurrent ==
  ASSUME ObjectsArePresent
  PROVE  Spec => []ReadinessIsCurrent
<1>1. ServedInv => ReadinessIsCurrent
  BY RestIsServed DEF ReadinessIsCurrent
<1> QED BY <1>1, AlwaysServed, PTL

(* And where the API server fills fields that the code leaves empty, so    *)
(* that each run writes all children anew, the Gateways and the HTTPRoute  *)
(* of a Route at rest are what reconcileGateway and reconcileHTTPRoute     *)
(* make of its traffic, its labels and the configuration in force.  (Where *)
(* it does not, reconcileGateway returns no Gateway it left unchanged, and *)
(* the HTTPRoute does not name it.)                                        *)
THEOREM ChildrenAlwaysInSync ==
  ASSUME ObjectsArePresent, ApiDefaults
  PROVE  Spec => []ChildrenInSync
<1>1. ServedInv => ChildrenInSync
  BY RestIsServed DEF ChildrenInSync, AsMade, Wanted
<1> QED BY <1>1, AlwaysServed, PTL

-----------------------------------------------------------------------------
(* What reconcileHTTPRoute writes.                                         *)

LEMMA SameListeners ==
  ASSUME NEW conf, NEW r, NEW lmap, NEW targets
  PROVE  Walk!VisibilityHosts(conf, r, lmap, targets) = VisibilityHosts(conf, r, lmap, targets)
BY DEF Walk!VisibilityHosts, VisibilityHosts, Walk!UnionMaps, UnionMaps,
       Walk!VisibilityToDomain, VisibilityToDomain, Walk!LocalHosts, LocalHosts,
       Walk!Visibility, Visibility, Walk!Seqs!FoldLeft, Seqs!FoldLeft,
       Walk!Seqs!MapThenFoldSet, Seqs!MapThenFoldSet, Walk!Seqs!Max, Seqs!Max

LEMMA SameHostLists ==
  ASSUME NEW conf, NEW r, NEW lmap, NEW targets
  PROVE  Walk!HostLists(conf, r, lmap, targets) = HostLists(conf, r, lmap, targets)
BY DEF Walk!HostLists, HostLists, Walk!TargetHostLists, TargetHostLists,
       Walk!VisibilityToDomain, VisibilityToDomain, Walk!LocalHosts, LocalHosts,
       Walk!Visibility, Visibility, Walk!Seqs!FoldLeft, Seqs!FoldLeft,
       Walk!Seqs!MapThenFoldSet, Seqs!MapThenFoldSet, Walk!Seqs!Max, Seqs!Max

(* Every hostname of the HTTPRoute is a listener of a Gateway that the     *)
(* same Route and configuration ask for: reconcileGateway and              *)
(* makeHTTPRouteSpec derive the hostnames each on their own.               *)
LEMMA HostsHaveListeners ==
  ASSUME NEW conf, NEW r, NEW route, NEW S, route.status.traffic \in Seq(S),
         NEW objects, AsMade(objects, Wanted(conf, r, route), conf, r, route),
         NEW h \in HostLists(conf, r, route.labels, route.status.traffic),
         NEW i \in DOMAIN h
  PROVE  \E g \in Wanted(conf, r, route) :
           \E j \in DOMAIN objects[g].hosts : objects[g].hosts[j] = h[i]
<1> DEFINE lmap == route.labels
           targets == route.status.traffic
           hosts == VisibilityHosts(conf, r, lmap, targets)
<1>1. /\ Walk!VisibilityHosts(conf, r, lmap, targets) = hosts
      /\ Walk!Visibility(lmap) = Visibility(lmap)
  BY SameListeners DEF Walk!Visibility, Visibility
<1>2. h \in Walk!HostLists(conf, r, lmap, targets)
  BY SameHostLists
<1>3. \E v \in DOMAIN Walk!VisibilityHosts(conf, r, lmap, targets) :
        /\ targets # << >> /\ v \in {Walk!Visibility(lmap), "cluster-local"}
        /\ \E j \in DOMAIN Walk!VisibilityHosts(conf, r, lmap, targets)[v] :
             Walk!VisibilityHosts(conf, r, lmap, targets)[v][j] = h[i]
  BY <1>2, Walk!EveryHostListens
<1> HIDE DEF hosts
<1>4. PICK v \in DOMAIN hosts : /\ targets # << >> /\ v \in {Visibility(lmap), "cluster-local"}
                               /\ \E j \in DOMAIN hosts[v] : hosts[v][j] = h[i]
  BY <1>1, <1>3
<1> DEFINE g == GatewayKey(conf, r, v)
<1>5. g \in Wanted(conf, r, route) /\ g[4] = v
  BY <1>4 DEF Wanted, RouteVisibilities, GatewayKey
<1>6. objects[g].hosts = hosts[v]
  <2>1. objects[g] = MakeGateway(conf, r, route, v)
    BY <1>5 DEF AsMade
  <2> QED BY <2>1 DEF MakeGateway, hosts
<1> HIDE DEF g
<1> QED BY <1>4, <1>5, <1>6

(* Traffic in a status is a sequence of targets.                           *)
LEMMA TrafficIsSeq ==
  ASSUME NEW route \in RouteObjects
  PROVE  \E S : route.status.traffic \in Seq(S)
<1>1. route.status.traffic \in Traffics \cup {<< >>}
  BY DEF RouteObjects, Statuses
<1>2. CASE route.status.traffic = << >>
  BY <1>2, EmptyIsSeq DEF IsSeq
<1>3. CASE route.status.traffic \in Traffics
  BY <1>3, TrafficAssumption
<1> QED BY <1>1, <1>2, <1>3

(* What a step may do to the HTTPRoute of r if it is not reconcileHTTPRoute *)
(* of r: delete it, or leave its specification alone.                      *)
KeepsSpec(r) ==
  LET k == HTTPRouteKey(r)
  IN  api'[k] = Absent \/ (api[k] # Absent /\ api'[k].spec = api[k].spec)

LEMMA OtherKeysKeepSpec ==
  ASSUME StoreTyped, NEW r \in Routes,
         \/ api' = api
         \/ \E k \in Keys : \E v : Write(k, v) /\ k # HTTPRouteKey(r)
  PROVE  KeepsSpec(r)
<1>1. HTTPRouteKey(r) \in Keys
  BY KeySorts
<1>2. api'[HTTPRouteKey(r)] = api[HTTPRouteKey(r)]
  BY <1>1, WriteEffect
<1> QED BY <1>2 DEF KeepsSpec

LEMMA ServicesKeepSpec ==
  ASSUME StoreTyped, RunsTyped, NEW r \in Routes, ReconcilePlaceholderServices(r)
  PROVE  KeepsSpec(r)
<1> DEFINE traffic == run[r].res.status.traffic
           desired == MakePlaceholderService(run[r].cfg, run[r].res)
           next == Goto(r, "plan", run[r])
<1>1. pc[r] = "services"
  BY DEF ReconcilePlaceholderServices, Running
<1>2. run[r].res \in RouteObjects
  BY <1>1 DEF RunsTyped
<1>3. ASSUME NEW i \in DOMAIN traffic,
             PutChild(r, ServiceKey(r, traffic[i].tag), desired, next)
      PROVE  KeepsSpec(r)
  <2> DEFINE k == ServiceKey(r, traffic[i].tag)
  <2>1. k \in ServiceKeys /\ k \in Keys /\ k # HTTPRouteKey(r)
    BY <1>2, <1>3, TagsAssumption, KeySorts DEF RouteObjects, Statuses, ServiceKeys
  <2>2. UNCHANGED apiVars \/ Write(k, desired)
    BY <1>3 DEF PutChild
  <2> HIDE DEF k, desired, next
  <2> QED BY <2>1, <2>2, OtherKeysKeepSpec DEF apiVars
<1>4. CASE UNCHANGED apiVars
  BY <1>4, OtherKeysKeepSpec DEF apiVars
<1> QED BY <1>3, <1>4 DEF ReconcilePlaceholderServices

LEMMA OwnStepKeepsSpec ==
  ASSUME StoreTyped, RunsTyped, NEW r \in Routes, Worker(r), ~ReconcileHTTPRoute(r)
  PROVE  KeepsSpec(r)
<1>0. /\ RouteKey(r) \in Keys /\ RouteKey(r) # HTTPRouteKey(r)
      /\ \A k \in GatewayKeys : k \in Keys /\ k # HTTPRouteKey(r)
  BY KeySorts
<1>1. CASE SetFinalizer(r) \/ UpdateStatus(r) \/ ClearFinalizer(r)
  <2> DEFINE k == RouteKey(r)
             patched == [api[k] EXCEPT !.fin = TRUE]
             updated == [api[k] EXCEPT !.status = run[r].res.status]
  <2>1. SetFinalizer(r) => UNCHANGED apiVars \/ Write(k, patched)
    BY DEF SetFinalizer
  <2>2. UpdateStatus(r) => UNCHANGED apiVars \/ Write(k, updated)
    BY DEF UpdateStatus
  <2>3. ClearFinalizer(r) => UNCHANGED apiVars \/ Write(k, Absent)
    BY DEF ClearFinalizer
  <2> HIDE DEF patched, updated, k
  <2>4. UNCHANGED apiVars \/ \E v : Write(k, v)
    BY <1>1, <2>1, <2>2, <2>3
  <2> QED BY <1>0, <2>4, OtherKeysKeepSpec DEF apiVars, k
<1>2. CASE ReconcilePlaceholderServices(r)
  BY <1>2, ServicesKeepSpec
<1>3. ASSUME NEW g \in GatewayKeys, ReconcileGateway(r, g) \/ DeleteGateway(r, g)
      PROVE  KeepsSpec(r)
  <2>1. UNCHANGED apiVars \/ \E v : Write(g, v)
    BY <1>3 DEF ReconcileGateway, DeleteGateway, PutChild
  <2> QED BY <1>0, <2>1, OtherKeysKeepSpec DEF apiVars
<1>4. CASE CollectHostnames(r) \/ Panic(r) \/ PostProcess(r) \/ Refetch(r)
  <2>1. api' = api
    BY <1>4 DEF CollectHostnames, Panic, Stop, PostProcess, Refetch, apiVars
  <2> QED BY <2>1, OtherKeysKeepSpec
<1> QED BY <1>1, <1>2, <1>3, <1>4 DEF Worker

LEMMA OthersKeepSpec ==
  ASSUME ObjectsArePresent, ChildInv, NEW r \in Routes, Others(r)
  PROVE  KeepsSpec(r)
<1> DEFINE k == HTTPRouteKey(r)
<1>0. /\ StoreTyped /\ RefsInv(r) /\ k \in Keys /\ RouteKey(r) \in Keys /\ RouteKey(r) # k
  BY KeySorts DEF ChildInv, LifeInv, IInv, TypeOK
<1>1. CASE EditRoute(r) \/ DeleteRoute(r) \/ ServingSync(r)
  <2>1. \E v : WriteRoute(r, v)
    BY <1>1 DEF EditRoute, DeleteRoute, ServingSync
  <2>2. \E v : Write(RouteKey(r), v)
    BY <2>1 DEF WriteRoute
  <2> QED BY <1>0, <2>2, OtherKeysKeepSpec
<1>2. CASE Prune(r) \/ \E g \in GatewayKeys : Admit(r, g) \/ Reject(r, g)
  <2>1. api[k] # Absent /\ \E status : Write(k, [api[k] EXCEPT !.status = status])
    BY <1>2 DEF Admit, Reject, Prune, WriteGatewayStatus
  <2>2. PICK status : api'[k] = [api[k] EXCEPT !.status = status]
    BY <1>0, <2>1, WriteEffect
  <2>3. api[k] = [spec |-> api[k].spec, status |-> api[k].status]
    BY <1>0, <2>1 DEF RefsInv
  <2>4. api'[k].spec = api[k].spec
    BY <2>2, <2>3
  <2> QED BY <2>1, <2>4 DEF KeepsSpec
<1>3. ASSUME NEW j \in Keys, CollectGarbage(r, j)
      PROVE  KeepsSpec(r)
  <2>1. Write(j, Absent)
    BY <1>3 DEF CollectGarbage
  <2>2. CASE j = k
    BY <1>0, <2>1, <2>2, WriteEffect DEF KeepsSpec
  <2>3. CASE j # k
    BY <1>0, <2>1, <2>3, OtherKeysKeepSpec
  <2> QED BY <2>2, <2>3
<1> QED BY <1>1, <1>2, <1>3 DEF Others

LEMMA OtherStepsKeepSpec ==
  ASSUME ObjectsArePresent, ChildInv, [Next]_vars,
         NEW r \in Routes, ~ReconcileHTTPRoute(r)
  PROVE  KeepsSpec(r)
<1>0. StoreTyped /\ RunsTyped
  BY DEF ChildInv, LifeInv, IInv, TypeOK
<1>1. ASSUME NEW q \in Routes, q # r, Narrates(q)
      PROVE  KeepsSpec(r)
  <2>1. ASSUME NEW k \in Keys, NEW v, Chapter(q, k, v)
        PROVE  k # HTTPRouteKey(r)
    BY <1>1, <2>1, KeySorts DEF Chapter
  <2> QED BY <1>0, <1>1, <2>1, OtherKeysKeepSpec DEF Narrates, apiVars
<1>2. ASSUME NEW q \in Routes, Worker(q)
      PROVE  KeepsSpec(r)
  <2>1. CASE q = r
    BY <1>0, <1>2, <2>1, OwnStepKeepsSpec
  <2>2. CASE Panic(q)
    <3>1. api' = api
      BY <2>2 DEF Panic, Stop
    <3> QED BY <1>0, <3>1, OtherKeysKeepSpec
  <2>3. CASE q # r /\ ~Panic(q)
    <3>1. Narrates(q)
      BY <1>2, <2>3, WorkerNarrates
    <3> QED BY <1>1, <2>3, <3>1
  <2> QED BY <2>1, <2>2, <2>3
<1>3. ASSUME NEW q \in Routes, Others(q)
      PROVE  KeepsSpec(r)
  <2>1. CASE q = r
    BY <1>0, <1>3, <2>1, OthersKeepSpec
  <2>2. CASE q # r
    <3>1. Narrates(q)
      BY <1>3, OthersNarrate
    <3> QED BY <1>1, <2>2, <3>1
  <2> QED BY <2>1, <2>2
<1>4. ASSUME NEW q \in Routes, Start(q)
      PROVE  KeepsSpec(r)
  <2>1. api' = api
    BY <1>4 DEF Start
  <2> QED BY <1>0, <2>1, OtherKeysKeepSpec
<1>5. CASE Process
  <2>1. api' = api
    BY <1>5 DEF Process, Deliver, Enqueue, Resync, ConfigChange, Crash, Stop, Restart, apiVars
  <2> QED BY <1>0, <2>1, OtherKeysKeepSpec
<1>6. CASE UNCHANGED vars
  <2>1. api' = api
    BY <1>6 DEF vars
  <2> QED BY <1>0, <2>1, OtherKeysKeepSpec
<1> QED BY <1>2, <1>3, <1>4, <1>5, <1>6 DEF Next

(* At that moment the loop has put every Gateway in place.                 *)
LEMMA HTTPRouteBindsHosts ==
  ASSUME ObjectsArePresent, ApiDefaults, ServedInv, NEW r \in Routes, ReconcileHTTPRoute(r)
  PROVE  LET k == HTTPRouteKey(r)
         IN  \/ api' = api
             \/ \A i \in DOMAIN api'[k].spec.hosts :
                  \E g \in GatewayRefs(api'[k]) :
                    \E j \in DOMAIN api'[g].hosts : api'[g].hosts[j] = api'[k].spec.hosts[i]
<1> DEFINE k == HTTPRouteKey(r)
           x == run[r]
           want == Wanted(x.cfg, r, x.res)
           stored(d) == [spec |-> d,
                         status |-> IF api[k] = Absent THEN << >> ELSE api[k].status]
<1>0. /\ TypeOK /\ StoreTyped /\ StepInv(r) /\ k \in Keys
      /\ \A g \in GatewayKeys : g \in Keys /\ g # k
  BY KeySorts DEF ServedInv, ChildInv, LifeInv, IInv, TypeOK
<1>1. pc[r] = "gateways" /\ x.todo = {}
  BY DEF ReconcileHTTPRoute, Running
<1>2. x.cfg \in Configs /\ x.res \in RouteObjects
  BY <1>0, <1>1 DEF TypeOK, RunsTyped
<1>3. Members(x.refs) = want /\ AsMade(api, want, x.cfg, r, x.res)
  BY <1>0, <1>1 DEF StepInv, CollectInv, Collected
<1>4. PICK d \in MakeHTTPRoute(x.cfg, r, x.res, x.refs) :
        UNCHANGED apiVars \/ Write(k, stored(d))
  BY DEF ReconcileHTTPRoute, PutChild
<1>5. /\ d.refs = x.refs
      /\ d.hosts \in HostLists(x.cfg, r, x.res.labels, x.res.status.traffic)
  BY <1>4 DEF MakeHTTPRoute
<1>6. CASE UNCHANGED apiVars
  BY <1>6 DEF apiVars
<1>7. CASE Write(k, stored(d))
  <2>1. api'[k] = stored(d) /\ \A g \in GatewayKeys : api'[g] = api[g]
    BY <1>0, <1>7, WriteEffect
  <2>2. api'[k].spec = d
    BY <2>1
  <2>3. GatewayRefs(api'[k]) = want
    BY <1>3, <1>5, <2>2 DEF GatewayRefs, Members
  <2>4. PICK S : x.res.status.traffic \in Seq(S)
    BY <1>2, TrafficIsSeq
  <2> DEFINE traffic == x.res.status.traffic
  <2>5. ASSUME NEW i \in DOMAIN d.hosts
        PROVE  \E g \in GatewayRefs(api'[k]) :
                 \E j \in DOMAIN api'[g].hosts : api'[g].hosts[j] = d.hosts[i]
    <3>1. \E g \in want : \E j \in DOMAIN api[g].hosts : api[g].hosts[j] = d.hosts[i]
      <4> DEFINE h == d.hosts
      <4>1. /\ traffic \in Seq(S)
            /\ AsMade(api, Wanted(x.cfg, r, x.res), x.cfg, r, x.res)
            /\ h \in HostLists(x.cfg, r, x.res.labels, traffic)
            /\ i \in DOMAIN h
        BY <1>3, <1>5, <2>4
      <4> HIDE DEF h
      <4>2. \E g \in want : \E j \in DOMAIN api[g].hosts : api[g].hosts[j] = h[i]
        <5> DEFINE c == x.cfg
                   route == x.res
        <5>1. /\ route.status.traffic \in Seq(S)
              /\ AsMade(api, Wanted(c, r, route), c, r, route)
              /\ h \in HostLists(c, r, route.labels, route.status.traffic)
          BY <4>1
        <5> HIDE DEF c, route
        <5>2. \E g \in Wanted(c, r, route) :
                \E j \in DOMAIN api[g].hosts : api[g].hosts[j] = h[i]
          BY <4>1, <5>1, HostsHaveListeners
        <5> QED BY <5>2 DEF c, route
      <4> QED BY <4>2 DEF h
    <3>2. PICK g \in want : \E j \in DOMAIN api[g].hosts : api[g].hosts[j] = d.hosts[i]
      BY <3>1
    <3>3. g \in GatewayKeys
      BY <1>2, WantedAreKeys
    <3>4. api'[g] = api[g] /\ g \in GatewayRefs(api'[k])
      BY <2>1, <2>3, <3>3
    <3> HIDE DEF k, want
    <3> QED BY <3>2, <3>4
  <2> HIDE DEF k
  <2> QED BY <2>2, <2>5 DEF k
<1> QED BY <1>4, <1>6, <1>7

(* So an HTTPRoute never carries a hostname that no listener accepts at    *)
(* the time of its writing, for traffic of any length and in whatever      *)
(* order the two loops list the names.                                     *)
THEOREM HostsAreBound ==
  ASSUME ObjectsArePresent, ApiDefaults
  PROVE  Spec => HostsBoundWhenWritten
<1> DEFINE Bound(r) ==
             LET k == HTTPRouteKey(r)
             IN  api'[k] # Absent /\ (api[k] = Absent \/ api'[k].spec # api[k].spec)
                   => \A i \in DOMAIN api'[k].spec.hosts :
                        \E g \in GatewayRefs(api'[k]) :
                          \E j \in DOMAIN api'[g].hosts :
                            api'[g].hosts[j] = api'[k].spec.hosts[i]
<1>1. ServedInv /\ [Next]_vars => [\A r \in Routes : Bound(r)]_vars
  <2> SUFFICES ASSUME ServedInv, [Next]_vars, NEW r \in Routes PROVE Bound(r)
    OBVIOUS
  <2>1. CASE ReconcileHTTPRoute(r)
    BY <2>1, HTTPRouteBindsHosts
  <2>2. CASE ~ReconcileHTTPRoute(r)
    <3>1. KeepsSpec(r)
      BY <2>2, OtherStepsKeepSpec DEF ServedInv
    <3> QED BY <3>1 DEF KeepsSpec
  <2> QED BY <2>1, <2>2
<1> QED BY <1>1, AlwaysServed, PTL DEF Spec, HostsBoundWhenWritten

=============================================================================
