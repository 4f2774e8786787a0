CONSTANTS
  ArrayKeys = {a1, a2}
  TreeKeys = {t1}
  HashKeys = {h1}
  Values = {v1}
  EmptyKey = EmptyKey
  NULL = NULL
  rdb_crc64 = TRUE
  rdb_backup = FALSE
  SaveCommand = TRUE
  AutoSave = TRUE
  BackupMayFail = FALSE
  MaxTime = 0
SPECIFICATION FairSpec
PROPERTIES
  AutosaveUnlocks
