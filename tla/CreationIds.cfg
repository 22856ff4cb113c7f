SPECIFICATION Spec
CHECK_DEADLOCK FALSE
SYMMETRY Symmetry
CONSTANTS
  t1 = t1
  t2 = t2
  p = p
  d = d
  existing = existing
  Tab = {t1, t2}
  Draft = {p, d}
  ProjectDraft = {p}
  Project = {existing}
  None = None
  ClientTTL = 1
  ServerTTL = 2
  ReceiptTTL = 1
  Plan <- MCPlan
  PendingLimit = 2
  MaxIds = 2
  MaxTime = 2
  MaxLate = 1
  MaxTries = 4
INVARIANTS
  DraftCreatedOnce
  ReleaseIsFinal
  UncertainKeepsAlias
  ProofsHoldOnTheWay
