CONSTANTS
  ArrayKeys = {a1}
  TreeKeys = {}
  HashKeys = {h1}
  Values = {v1}
  EmptyKey = EmptyKey
  NULL = NULL
  rdb_crc64 = FALSE
  rdb_backup = FALSE
  SaveCommand = TRUE
  AutoSave = TRUE
  BackupMayFail = FALSE
  MaxTime = 1
SPECIFICATION Spec
INVARIANTS
  AllOrNothing
