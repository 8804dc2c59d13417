\* Every kind of the Gateway API: a caller with an object in each of two namespaces, or two callers that write
\* one object with copies that the other's writes have outdated; up to three changes on the server.
SPECIFICATION NarrowedSpec
CONSTANTS
  c1 = c1
  Namespaces <- TwoNamespaces
  Names = {n}
  Contents = {zero, one}
  Empty = zero
  Absent = Absent
  Callers = {c1, c2}
  MaxVersions = 3
INVARIANTS TypeOK FakeStandsIn
PROPERTIES OneNamespacePerCall NoWriteIsUndone
CHECK_DEADLOCK FALSE
