\* Two keys, two workers, any number of enqueues, failures and retries.
SPECIFICATION Spec
CONSTANTS
  Keys = {k1, k2}
  Workers = {w1, w2}
  None = None
  FastKeys = {k1, k2}
  SlowKeys = {k1, k2}
  FailingKeys = {k1, k2}
SYMMETRY KeySymmetry
INVARIANTS TypeOK OneWorkerPerKey ReturnsWhenDrained
PROPERTIES IsWorkQueue
CHECK_DEADLOCK FALSE
