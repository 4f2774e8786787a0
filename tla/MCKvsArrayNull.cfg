CONSTANTS
  Keys = {k1, k2}
  Values = {v1, v2}
  KVS_ARRAY_SIZE = 3
  NULL = NULL
  Dangling = Dangling
  Wild = Wild
  Free = Free
  Server = Server
  NullArgs = TRUE
  MallocMayFail = TRUE
SPECIFICATION FairSpec
PROPERTIES
  RequestsEnd
CHECK_DEADLOCK FALSE
