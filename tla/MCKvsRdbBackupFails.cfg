CONSTANTS
  ArrayKeys = {a1, a2}
  TreeKeys = {}
  HashKeys = {}
  Values = {v1}
  EmptyKey = EmptyKey
  NULL = NULL
  rdb_crc64 = FALSE
  rdb_backup = TRUE
  SaveCommand = TRUE
  AutoSave = FALSE
  BackupMayFail = TRUE
  MaxTime = 1
SPECIFICATION Spec
INVARIANTS
  BackupBeforeEverySave
