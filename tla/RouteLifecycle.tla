--------------------------- MODULE RouteLifecycle ---------------------------
(***************************************************************************)
(* What the Route controller promises about the life of a Route and its    *)
(* children, whatever fails, restarts or is out of date: a Route that has  *)
(* children is held by the finalizer, the Gateways of a Route go only      *)
(* after its deletion, and a held Route is let go only when no Gateway is  *)
(* left but those its last finalization overlooked.                        *)
(***************************************************************************)
CONSTANTS Routes, Gateways

VARIABLES phase,       \* "live", "deleting" or "gone"
          held,        \* whether the Route has the finalizer
          gateways,    \* its Gateways
          bound,       \* whether it has an HTTPRoute
          overlooked   \* Gateways the last finalization did not see

vars == <<phase, held, gateways, bound, overlooked>>

Init ==
  /\ phase = [r \in Routes |-> "live"]
  /\ held = [r \in Routes |-> FALSE]
  /\ gateways = [r \in Routes |-> {}]
  /\ bound = [r \in Routes |-> FALSE]
  /\ overlooked = [r \in Routes |-> {}]

Hold(r) ==
  /\ phase[r] = "live"
  /\ held' = [held EXCEPT ![r] = TRUE]
  /\ UNCHANGED <<phase, gateways, bound, overlooked>>

(* A run that began before the deletion may still build after it.          *)
Build(r, g) ==
  /\ phase[r] # "gone" /\ held[r]
  /\ gateways' = [gateways EXCEPT ![r] = @ \cup {g}]
  /\ UNCHANGED <<phase, held, bound, overlooked>>

Bind(r) ==
  /\ phase[r] # "gone" /\ held[r]
  /\ bound' = [bound EXCEPT ![r] = TRUE]
  /\ UNCHANGED <<phase, held, gateways, overlooked>>

(* A Route that is not held is gone at once.                               *)
Delete(r) ==
  /\ phase[r] = "live"
  /\ phase' = [phase EXCEPT ![r] = IF held[r] THEN "deleting" ELSE "gone"]
  /\ UNCHANGED <<held, gateways, bound, overlooked>>

Finalize(r) ==
  /\ phase[r] = "deleting"
  /\ \E unseen \in SUBSET gateways[r] : overlooked' = [overlooked EXCEPT ![r] = unseen]
  /\ UNCHANGED <<phase, held, gateways, bound>>

(* A finalization that works from an outdated copy may come after the end. *)
TearDown(r, g) ==
  /\ phase[r] # "live"
  /\ gateways' = [gateways EXCEPT ![r] = @ \ {g}]
  /\ UNCHANGED <<phase, held, bound, overlooked>>

Release(r) ==
  /\ phase[r] = "deleting"
  /\ gateways[r] \subseteq overlooked[r]
  /\ phase' = [phase EXCEPT ![r] = "gone"]
  /\ held' = [held EXCEPT ![r] = FALSE]
  /\ UNCHANGED <<gateways, bound, overlooked>>

(* The garbage collector.                                                  *)
Collect(r) ==
  /\ phase[r] = "gone"
  /\ bound' = [bound EXCEPT ![r] = FALSE]
  /\ UNCHANGED <<phase, held, gateways, overlooked>>

Next ==
  \E r \in Routes :
    \/ Hold(r)
    \/ \E g \in Gateways : Build(r, g) \/ TearDown(r, g)
    \/ Bind(r)
    \/ Delete(r)
    \/ Finalize(r)
    \/ Release(r)
    \/ Collect(r)

Spec == Init /\ [][Next]_vars
=============================================================================
