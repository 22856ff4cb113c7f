SPECIFICATION FairSpec
CONSTANTS
  Worker = {w1}
  Content = {past, soon}
  Upcoming = {soon}
  MaxAttempts = 2
  NoRev = NoRev
  NoWorker = NoWorker
  Gone = Gone
  MaxQueueSeq = 3
  MaxSequence = 3
  Hidden = FALSE
  Stalls = FALSE
INVARIANTS
  RecordSound
PROPERTIES
  ClosedOnlyForReason
  EveryIntentSettles
CHECK_DEADLOCK FALSE
