\* One worker; k1 comes by the fast lane, k2 by the slow lane and, when its
\* Reconcile failed, by the fast lane.
SPECIFICATION FairSpec
CONSTANTS
  Keys = {k1, k2}
  Workers = {w1}
  None = None
  FastKeys = {k1}
  SlowKeys = {k2}
  FailingKeys = {k2}
PROPERTIES FastIsServed SlowIsServed ShutdownCompletes
CHECK_DEADLOCK FALSE
