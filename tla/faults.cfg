\* A failed or lost API call or a crash: of a Route with two Gateways, whose domain may be invalid when there is no
\* fault, or of one that is edited or deleted as well, with a lister of Routes up to two versions behind.
CONSTANTS
  r1 = r1
  d1 = d1
  d2 = d2
  t0 = t0
  t1 = t1
  s1 = s1
  s2 = s2
  Absent = Absent
  NoSplit = NoSplit
  InvalidDomain = InvalidDomain
  Routes = {r1}
  Tags = {t0}
  RouteNamespace <- OneNamespace
  GatewayBase <- OneBase
  Traffics <- SingleOnly
  Configs <- ErrorConfigs
  LabelChoices = {"none", "cluster-local"}
  ApiDefaults = TRUE
  Workers = 2
  MaxAttempts = 2
  MaxLag = 2
  MaxEdits = 1
  MaxFaults = 1
  MaxResyncs = 0
SPECIFICATION Spec
CONSTRAINT OneOrTheOther
ACTION_CONSTRAINT LabelsStay
CHECK_DEADLOCK FALSE
INVARIANTS FinalizeLeavesOnlyMissed ReadinessIsCurrent ChildrenInSync RefsResolve
PROPERTIES HostsBoundWhenWritten FollowsLifecycle
