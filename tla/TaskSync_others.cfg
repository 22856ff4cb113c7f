SPECIFICATION SyncSpec
CONSTANTS
  Status = status
  Absent = Absent
  NoEntry = NoEntry
  Serial = Serial
  Task = {t1}
  Field = {status, title}
  Derived = {}
  Value = {v1, v2}
  UserPatch <- MCUserPatch
  MaxVersion = 3
  MaxLate = 1
SYMMETRY Symmetry
INVARIANTS
  VersionsSound
PROPERTIES
  UneditedFieldsUntouched
  VersionsOnlyGrow
CHECK_DEADLOCK FALSE
