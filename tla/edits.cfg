\* An API server that stores objects as they are written: one edit of the Route, its deletion or a change of
\* configuration; a label map that may be nil; a resync.
CONSTANTS
  r1 = r1
  d1 = d1
  d2 = d2
  t0 = t0
  t1 = t1
  s1 = s1
  s2 = s2
  Absent = Absent
  NoSplit = NoSplit
  InvalidDomain = InvalidDomain
  Routes = {r1}
  Tags = {t0, t1}
  RouteNamespace <- OneNamespace
  GatewayBase <- OneBase
  Traffics <- TwoSplits
  Configs <- MoveConfigs
  LabelChoices = {"nil", "cluster-local"}
  ApiDefaults = FALSE
  Workers = 2
  MaxAttempts = 1
  MaxLag = 1
  MaxEdits = 1
  MaxFaults = 0
  MaxResyncs = 1
SPECIFICATION Spec
CHECK_DEADLOCK FALSE
INVARIANTS TypeOK NoLostWakeup ReadinessIsCurrent
PROPERTIES FirstWriteKeepsTraffic
