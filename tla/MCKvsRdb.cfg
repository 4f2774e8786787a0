CONSTANTS
  ArrayKeys = {a1, a2}
  TreeKeys = {}
  HashKeys = {h1}
  Values = {v1}
  EmptyKey = EmptyKey
  NULL = NULL
  rdb_crc64 = FALSE
  rdb_backup = TRUE
  SaveCommand = FALSE
  AutoSave = TRUE
  BackupMayFail = TRUE
  MaxTime = 1
SPECIFICATION Spec
INVARIANTS
  TypeOK
  AllOrNothing
  LastSaveRecoverable
PROPERTIES
  ArraySnapshot
