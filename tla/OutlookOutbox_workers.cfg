SPECIFICATION Spec
CONSTANTS
  Worker = {w1, w2}
  Content = {soon}
  Upcoming = {soon}
  MaxAttempts = 2
  NoRev = NoRev
  NoWorker = NoWorker
  Gone = Gone
  MaxQueueSeq = 2
  MaxSequence = 2
  Hidden = TRUE
  Stalls = TRUE
SYMMETRY Symmetry
INVARIANTS
  ClosedSafely
CHECK_DEADLOCK FALSE
