\* Every traffic block of up to six targets over two tags.
CONSTANTS
  r1 = r1
  d1 = d1
  t0 = t0
  t1 = t1
  s1 = s1
  Absent = Absent
  NoSplit = NoSplit
  InvalidDomain = InvalidDomain
  Routes = {r1}
  RouteNamespace <- OneNamespace
  GatewayBase <- OneBase
  ApiDefaults = TRUE
  Tags = {t0, t1}
  Splittings = {s1}
  Configs <- TwoDomains
  MaxTargets = 6
SPECIFICATION Spec
CHECK_DEADLOCK FALSE
INVARIANTS HostnamesAreListeners HostnamesFit
