-------------------------- MODULE ResourcesCheck --------------------------
(***************************************************************************)
(* The derivation of hostnames, Gateways and HTTPRoutes as a machine that  *)
(* walks a Route's Status.Traffic: one step appends one traffic target,    *)
(* the way reconcileGateway and makeHTTPRouteSpec range over it.  The      *)
(* invariants compare the code's folds with reference definitions.         *)
(***************************************************************************)
EXTENDS Resources

CONSTANTS Tags, Splittings, Configs, MaxTargets

VARIABLES cfg, labels, traffic

vars == <<cfg, labels, traffic>>

Init ==
  /\ cfg \in Configs
  /\ labels \in LabelMaps \ {"nil"}
  /\ traffic = << >>

AddTarget(tag, split) ==
  /\ Len(traffic) < MaxTargets
  /\ traffic' = Append(traffic, [tag |-> tag, split |-> split])
  /\ UNCHANGED <<cfg, labels>>

Next == \E tag \in Tags, split \in Splittings : AddTarget(tag, split)

Spec == Init /\ [][Next]_vars

-----------------------------------------------------------------------------
route == [labels |-> labels, status |-> [traffic |-> traffic]]

Hosts(r) == VisibilityHosts(cfg, r, labels, traffic)

(* The n-th local name, counted over all targets, and the n-th external.   *)
ReferenceHosts(r, v) ==
  IF v = "cluster-local"
  THEN [n \in 1 .. 3 * Len(traffic) |->
          LocalHosts(r, traffic[((n - 1) \div 3) + 1].tag)[((n - 1) % 3) + 1]]
  ELSE [n \in 1 .. Len(traffic) |-> <<r, traffic[n].tag, cfg.domain>>]

(* The map that reconcileGateway accumulates with UnionMaps holds, for     *)
(* every visibility, the names of all targets, in order and complete.  It  *)
(* is what the Gateways need and not what the comment of UnionMaps says,   *)
(* "values from latter maps win" (reconcile_resources.go:217-218).         *)
HostsComplete ==
  \A r \in Routes :
    /\ DOMAIN Hosts(r) = RouteVisibilities(route)
    /\ \A v \in DOMAIN Hosts(r) : Hosts(r)[v] = ReferenceHosts(r, v)

Occurrences(s, x) == Cardinality({i \in DOMAIN s : s[i] = x})

(* reconcileGateway and makeHTTPRouteSpec compute hostnames separately:    *)
(* every order of the HTTPRoute's hostnames names exactly the hostnames    *)
(* of the Gateways' listeners, as often as they occur there, also when an  *)
(* external name is a local one (a domain svc.cluster.local).              *)
HostnamesAreListeners ==
  \A r \in Routes : \A h \in HostLists(cfg, r, labels, traffic) :
    LET names == UNION {{Hosts(r)[v][i] : i \in DOMAIN Hosts(r)[v]} : v \in DOMAIN Hosts(r)}
        on(v, x) == IF v \in DOMAIN Hosts(r) THEN Occurrences(Hosts(r)[v], x) ELSE 0
    IN  /\ {h[i] : i \in DOMAIN h} = names
        /\ \A x \in names : Occurrences(h, x) = on("default", x) + on("cluster-local", x)

\* The CRD's limit on Hostnames of an HTTPRoute.
MaxHostnames == 16

(* The API server takes the HTTPRoute of up to four targets, or five of a  *)
(* cluster-local Route, and refuses any other: targets of one tag count as *)
(* often as they occur, and the order of the Go map makes no difference.   *)
HostnamesFit ==
  \A r \in Routes : \A h \in HostLists(cfg, r, labels, traffic) :
    Len(h) <= MaxHostnames <=>
      Len(traffic) <= (IF Visibility(labels) = "cluster-local" THEN 5 ELSE 4)

=============================================================================
