------------------------ MODULE MCGatewayInformers -------------------------
(* Constants of GatewayInformers for TLC.                                  *)
EXTENDS GatewayInformers

TwoNamespaces == {"a", "b"}

(* A kind with namespaces and the kind without see every change and a      *)
(* resync; the others, which differ from the first in names only, do not.  *)
Deep     == kind \in {"HTTPRoute", "GatewayClass"}
Narrowed == Deep \/ (Len(log) < MaxVersions /\ budget.resyncs = MaxResyncs)

AllKindsSpec == Init /\ [][Next /\ Narrowed']_vars /\ Fairness
=============================================================================
