SPECIFICATION FairCatalogSpec
CONSTANTS
  a = a
  b = b
  c = c
  Node = {a, b, c}
  TaskNode = {b}
  Root = Root
  Plan <- MCPlan
  Run = {j1, j2, admin}
  Scheduled = {j1, j2}
  Request = {q1, q2}
  NoRecord = NoRecord
  NoRun = NoRun
  Windowed = TRUE
  MaxEvents = 2
INVARIANTS SingleFlight TreeIsSound
PROPERTIES RequestsAreServed CatalogConverges
CHECK_DEADLOCK FALSE
