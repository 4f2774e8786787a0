CONSTANTS
  Keys = {k1, k2, k3}
  Values = {v1, v2}
  KVS_ARRAY_SIZE = 4
  NULL = NULL
  Dangling = Dangling
  Wild = Wild
  Free = Free
  Server = Server
  NullArgs = TRUE
  MallocMayFail = TRUE
SYMMETRY KeyValueSymmetry
SPECIFICATION Spec
INVARIANTS
  TypeOK
  UniqueKeys
  LiveBelowTotal
PROPERTIES
  ImplementsMap
CHECK_DEADLOCK FALSE
