SPECIFICATION FairSpec
CONSTANTS
  Status = status
  Absent = Absent
  NoEntry = NoEntry
  Serial = Serial
  Task = {t1}
  Field = {status, progress, title}
  Derived = {progress}
  Value = {v1, v2}
  Whole = v1
  UserPatch <- MCUserPatch
INVARIANTS
  IInv
PROPERTIES
  ImplementsLedger
  EditsSettle
CHECK_DEADLOCK FALSE
