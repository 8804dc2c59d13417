\* Every kind, plain and filtered; one name in each of two namespaces.
SPECIFICATION AllKindsSpec
CONSTANTS
  Namespaces <- TwoNamespaces
  Names = {n}
  Contents = {zero}
  Empty = zero
  Absent = Absent
  MaxVersions = 3
  MaxExpiries = 1
  MaxResyncs = 1
INVARIANTS TypeOK ListersAgree HandlersTrailTheCache SyncedShowsFirstList
PROPERTIES NeverBackwards CacheCatchesUp
CHECK_DEADLOCK FALSE
