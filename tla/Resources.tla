----------------------------- MODULE Resources -----------------------------
(***************************************************************************)
(* The objects the Route controller derives from a Route: package          *)
(* pkg/reconciler/route/resources and the Gateway configuration it looks   *)
(* up.  Everything here is a pure function of a Route and a configuration. *)
(*                                                                         *)
(* A hostname is a triple <<route, tag, suffix>>: "tag-route" under a      *)
(* domain.  A traffic target is a record [tag, split] where split stands   *)
(* for the revision and its percentage, NoSplit for a percentage of zero.  *)
(***************************************************************************)
EXTENDS Naturals, Sequences, FiniteSets
Seqs == INSTANCE SequencesExt

CONSTANTS
  Routes,          \* the namespaced names of Routes
  RouteNamespace,  \* [Routes -> STRING]: the namespace of each Route
  GatewayBase,     \* [Routes -> ...]: "name-namespace", the stem of Gateway names
  InvalidDomain,   \* a domain under which no name is a valid FQDN
  NoSplit,         \* a target that receives zero percent
  ApiDefaults      \* TRUE: the API server fills fields the controller leaves out

Visibilities == {"default", "cluster-local"}

(* The Go map metadata.labels: a nil map, a map without the visibility    *)
(* label, a map with networking.knative.dev/visibility=cluster-local (the *)
(* only value the admission webhook of Routes accepts).                    *)
LabelMaps == {"nil", "none", "cluster-local"}

-----------------------------------------------------------------------------
(* The Gateway part of the configuration.                                  *)

DefaultGateways ==
  [v \in Visibilities |->
     [class |-> "istio", ns |-> "istio-system",
      addr  |-> IF v = "cluster-local" THEN "knative-local-gateway" ELSE ""]]

(* data is the ConfigMap's Data: a function on a subset of Visibilities.   *)
NewGatewayFromConfigMap(data) ==
  [v \in Visibilities |->
     IF v \in DOMAIN data THEN data[v] ELSE DefaultGateways[v]]

LookupGateway(cfg, v) == NewGatewayFromConfigMap(cfg.gateway)[v]

GatewayNamespace(cfg, r, v) ==
  LET ns == LookupGateway(cfg, v).ns
  IN  IF ns = "" THEN RouteNamespace[r] ELSE ns

(* Namespace and name of the Gateway of Route r for visibility v.          *)
GatewayKey(cfg, r, v) ==
  <<"Gateway", GatewayNamespace(cfg, r, v), GatewayBase[r], v>>

-----------------------------------------------------------------------------
(* Hostnames.  route is a Route object: [labels, status.traffic, ...]; the *)
(* hostnames depend on its labels and its traffic.                         *)

Visibility(labels) ==
  IF labels = "cluster-local" THEN "cluster-local" ELSE "default"

(* DomainNameFromTemplate fails for the external name.                     *)
ExternalDomainError(cfg, route) ==
  /\ Visibility(route.labels) # "cluster-local"
  /\ cfg.domain = InvalidDomain

LocalHosts(r, tag) ==
  << <<r, tag, "ns">>, <<r, tag, "ns.svc">>, <<r, tag, "ns.svc.cluster.local">> >>

VisibilityToDomain(cfg, r, labels, tag) ==
  [v \in {Visibility(labels), "cluster-local"} |->
     IF v = "cluster-local" THEN LocalHosts(r, tag)
                            ELSE << <<r, tag, cfg.domain>> >>]

(* A key of both maps gets the values of both. *)
UnionMaps(m1, m2) ==
  LET at(m, k) == IF k \in DOMAIN m THEN m[k] ELSE << >>
  IN  [k \in DOMAIN m1 \cup DOMAIN m2 |-> at(m1, k) \o at(m2, k)]

(* The map visibilityToDomain that reconcileGateway accumulates.           *)
VisibilityHosts(cfg, r, labels, traffic) ==
  Seqs!FoldLeft(
    LAMBDA m, t : UnionMaps(m, VisibilityToDomain(cfg, r, labels, t.tag)), << >>, traffic)

(* Mutation: a Gateway for the Route's own visibility only. *)
OwnVisibility(route) ==
  IF route.status.traffic = << >> THEN {} ELSE {Visibility(route.labels)}

(* Its keys.                                                               *)
RouteVisibilities(route) ==
  IF route.status.traffic = << >>
  THEN {} ELSE {Visibility(route.labels), "cluster-local"}

(* Mutation: the local names are left out of external Routes. *)
OwnHostLists(cfg, r, labels, tag) ==
  {VisibilityToDomain(cfg, r, labels, tag)[Visibility(labels)]}

(* The hostnames of one target, in either order: the code ranges over a    *)
(* Go map.                                                                 *)
TargetHostLists(cfg, r, labels, tag) ==
  LET m == VisibilityToDomain(cfg, r, labels, tag)
  IN  IF Visibility(labels) = "cluster-local"
      THEN {m["cluster-local"]}
      ELSE {m["default"] \o m["cluster-local"], m["cluster-local"] \o m["default"]}

HostLists(cfg, r, labels, traffic) ==
  Seqs!FoldLeft(
    LAMBDA S, t : {s \o h : s \in S, h \in TargetHostLists(cfg, r, labels, t.tag)},
    {<< >>}, traffic)

-----------------------------------------------------------------------------
(* The desired objects.                                                    *)

MakeGateway(cfg, r, route, v) ==
  [owner  |-> r,
   labels |-> route.labels,
   class  |-> LookupGateway(cfg, v).class,
   addr   |-> LookupGateway(cfg, v).addr,
   hosts  |-> VisibilityHosts(cfg, r, route.labels, route.status.traffic)[v]]

Splits(traffic) ==
  LET receives(t) == t.split # NoSplit IN SelectSeq(traffic, receives)

(* One desired HTTPRoute for every order of the hostnames; refs are the    *)
(* Gateways reconcileGateway returned.                                     *)
MakeHTTPRoute(cfg, r, route, refs) ==
  {[labels |-> route.labels, hosts |-> h,
    splits |-> Splits(route.status.traffic), refs |-> refs] :
     h \in HostLists(cfg, r, route.labels, route.status.traffic)}

MakePlaceholderService(cfg, route) ==
  [labels       |-> route.labels,
   externalName |-> LookupGateway(cfg, "cluster-local").addr]

(* The stored object is compared with the desired one.  Gateway listeners, *)
(* HTTPRoute rules and Service ports have fields that the API server fills *)
(* and the controller leaves empty: the comparison then always fails.      *)
Differs(stored, desired) == ApiDefaults \/ stored # desired

(* Status.Gateways is << >> when it is nil and << entries >> when it is a  *)
(* list, an empty one included; the entries are a function from Gateway    *)
(* keys to "admitted".                                                     *)
Entries(status) == IF status = << >> THEN << >> ELSE status[1]

(* Only a nil list is tested for: the loop over an empty one finds nothing. *)
IsHTTPRouteReady(httproute) ==
  /\ httproute.status # << >>
  /\ \A g \in DOMAIN Entries(httproute.status) : Entries(httproute.status)[g]

=============================================================================
