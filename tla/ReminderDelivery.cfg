CONSTANTS
  Worker = {w1, w2}
  Recipient = {r1, r2}
  Stale = 2
  RoundLimit = 1
  Window = 1
  MaxChanges = 2
  Null = Null
  Masked = Masked
SPECIFICATION FairSpec
CHECK_DEADLOCK FALSE
INVARIANTS
  DeliveredOnce
  CheckpointIsTrue
PROPERTIES
  OutcomeIsFinal
  EveryReminderSettles
