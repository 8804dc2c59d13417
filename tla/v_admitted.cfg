\* A Route with two Gateways, admitted one after the other.
CONSTANTS
  r1 = r1
  d1 = d1
  d2 = d2
  t0 = t0
  t1 = t1
  s1 = s1
  s2 = s2
  Absent = Absent
  NoSplit = NoSplit
  InvalidDomain = InvalidDomain
  Routes = {r1}
  Tags = {t0, t1}
  RouteNamespace <- OneNamespace
  GatewayBase <- OneBase
  Traffics <- SingleOnly
  Configs <- OneConfig
  LabelChoices = {"none"}
  ApiDefaults = TRUE
  Workers = 2
  MaxAttempts = 2
  MaxLag = 1
  MaxEdits = 0
  MaxFaults = 0
  MaxResyncs = 0
SPECIFICATION Spec
CHECK_DEADLOCK FALSE
INVARIANTS ReadyMeansAdmitted
