\* Readiness and deletion, with one edit and one failed or lost API call or crash.
CONSTANTS
  r1 = r1
  d1 = d1
  d2 = d2
  t0 = t0
  t1 = t1
  s1 = s1
  s2 = s2
  Absent = Absent
  NoSplit = NoSplit
  InvalidDomain = InvalidDomain
  Routes = {r1}
  Tags = {t0}
  RouteNamespace <- OneNamespace
  GatewayBase <- OneBase
  Traffics <- SingleOnly
  Configs <- OneConfig
  LabelChoices = {"cluster-local"}
  ApiDefaults = TRUE
  Workers = 2
  MaxAttempts = 1
  MaxLag = 1
  MaxEdits = 1
  MaxFaults = 1
  MaxResyncs = 0
SPECIFICATION FairSpec
CHECK_DEADLOCK FALSE
PROPERTIES EventuallyReady DeletionCompletes
