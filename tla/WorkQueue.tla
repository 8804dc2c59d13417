----------------------------- MODULE WorkQueue -----------------------------
(***************************************************************************)
(* What the workers of a controller and the event handlers that feed it    *)
(* are promised by their work queue: a key that is added is handed out     *)
(* after that, it is never handed out to two workers at once, and keys     *)
(* that are added more than once may be handed out once.                   *)
(***************************************************************************)
CONSTANTS Keys

VARIABLES pending,   \* keys that will be handed out
          running,   \* keys handed out and not done
          open       \* whether keys are still accepted

vars == <<pending, running, open>>

Init ==
  /\ pending = {}
  /\ running = {}
  /\ open = TRUE

Add(key) ==
  /\ open
  /\ pending' = pending \cup {key}
  /\ UNCHANGED <<running, open>>

(* A key that was added twice may stay pending.                            *)
Get(key) ==
  /\ key \in pending \ running
  /\ running' = running \cup {key}
  /\ pending' \in {pending, pending \ {key}}
  /\ UNCHANGED open

Done(key) ==
  /\ key \in running
  /\ running' = running \ {key}
  /\ UNCHANGED <<pending, open>>

ShutDown ==
  /\ open' = FALSE
  /\ UNCHANGED <<pending, running>>

Next == ShutDown \/ \E key \in Keys : Add(key) \/ Get(key) \/ Done(key)

Spec == Init /\ [][Next]_vars
=============================================================================
