------------------------- MODULE MCResourcesCheck -------------------------
(* An instance of ResourcesCheck for TLC.                                  *)
EXTENDS ResourcesCheck

CONSTANTS r1, d1, t0, t1, s1, Absent

OneNamespace == [r \in Routes |-> "ns1"]
OneBase      == [r \in Routes |-> r]

NoData     == [v \in {} |-> Absent]

\* One domain is that of the local names: config-domain has svc.cluster.local.
TwoDomains ==
  {[domain |-> d, gateway |-> NoData] : d \in {d1, "ns.svc.cluster.local"}}
=============================================================================
