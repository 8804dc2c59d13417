------------------------- MODULE MCRouteReconciler -------------------------
(* Instances of RouteReconciler for TLC.                                   *)
EXTENDS RouteReconciler

CONSTANTS r1, d1, d2, t0, t1, s1, s2

OneNamespace == [r \in Routes |-> "ns1"]
OneBase      == [r \in Routes |-> r]

Target(tag, split) == [tag |-> tag, split |-> split]

(* One target; the same on another revision; a target and a tagged one.    *)
Single   == << Target(t0, s1) >>
Shifted  == << Target(t0, s2) >>
WithTag  == << Target(t0, s1), Target(t1, NoSplit) >>

NoData == [v \in {} |-> Absent]

OwnNamespace == [v \in Visibilities |-> [class |-> "istio", ns |-> "", addr |-> ""]]

Base      == [domain |-> d1, gateway |-> NoData]
NewPlace  == [domain |-> d1, gateway |-> OwnNamespace]
BadDomain == [domain |-> InvalidDomain, gateway |-> NoData]

OneConfig    == {Base}
MoveConfigs  == {Base, NewPlace}
ErrorConfigs == {Base, BadDomain}

SingleOnly == {Single}
TwoSplits  == {Single, Shifted}
TagOnly    == {WithTag}

(* Two instances in one run: a Route with two Gateways that nobody edits,  *)
(* with an invalid domain, with admissions or with a fault; a cluster-     *)
(* local one with two of an edit, a fault and admissions, and a lister of  *)
(* Routes that is MaxLag versions behind when there are no admissions.     *)
Unedited   == budget.edits = MaxEdits
Faultless  == budget.faults = MaxFaults
Unadmitted == \A k \in HTTPRouteKeys : api[k] # Absent => api[k].status = << >>

Fresh(keys) == \A k \in keys : Len(feed[k]) <= 1

TwoGateways ==
  /\ Unedited
  /\ Faultless \/ (config = Base /\ Unadmitted)
  /\ Fresh(RouteKeys)

OneGateway ==
  /\ config = Base
  /\ Unedited \/ Faultless \/ Unadmitted
  /\ Unadmitted \/ Fresh(RouteKeys)

OneOrTheOther ==
  /\ IF \E k \in RouteKeys : api[k] # Absent /\ api[k].labels = "none"
     THEN TwoGateways ELSE OneGateway
  /\ Fresh(Keys \ RouteKeys)

LabelsStay ==
  \A k \in RouteKeys : api'[k] # Absent => api'[k].labels = api[k].labels
=============================================================================
