CONSTANTS
  k1 = k1
  k2 = k2
  k3 = k3
  small = small
  big = big
  Keys <- MCKeys
  Values <- MCValues
  KeySum <- MCKeySum
  KeySize <- MCKeySize
  ValueSize <- MCValueSize
  MAX_TABLE_SIZE = 2
  WildSlots = {0}
  NODE_SIZE = 2
  POOL_CHUNK_SIZE = 2
  POOL_CHUNK_COUNT = 4
  MaxHeap = 2
  NULL = NULL
  Lost = Lost
SPECIFICATION Spec
INVARIANTS
  TypeOK
  SingleOwner
  FitsItsBlock
  CountMatches
PROPERTY ImplementsDict
