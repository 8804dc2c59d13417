------------------------- MODULE MCGatewayClients --------------------------
(* Constants of GatewayClients for TLC.                                    *)
EXTENDS GatewayClients

CONSTANT c1

TwoNamespaces == {"a", "b"}

(* One caller with objects in both namespaces; or all callers with objects *)
(* in one, of a kind with namespaces and of the kind without.              *)
Narrowed ==
  \/ \A c \in Callers \ {c1} : held[c] = Absent
  \/ /\ kind \in {"Gateway", "GatewayClass"}
     /\ \A i \in DOMAIN log : log[i].key[1] # "b"

NarrowedSpec == Init /\ [][Next /\ Narrowed']_vars
=============================================================================
