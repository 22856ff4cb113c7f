SPECIFICATION MCSpec
CONSTANTS
  r1 = r1
  r2 = r2
  r3 = r3
  first = first
  next = next
  ana1 = ana1
  ben1 = ben1
  ben2 = ben2
  srv1 = srv1
  srv2 = srv2
  ana = ana
  ben = ben
  small = small
  large = large
  Nobody = Nobody
  Request = {r1, r2, r3}
  Turn = {first, next}
  FirstTurn = {first}
  Grounded = {next}
  TurnOf <- MCTurnOf
  MaxMessages = 4
  Call = {r1, r2, r3, ana1, ben1, ben2, srv1, srv2}
  User = {ana, ben}
  Model = {small, large}
  Server = Server
  NoModel = NoModel
  UserOf <- MCUserOf
  ModelOf <- MCModelOf
  ModelLimit <- MCModelLimit
  MaxActive = 3
  MaxQueued = 2
  MaxActivePerUser = 1
  MaxQueuedPerUser = 1
INVARIANTS
  ConversationsSound
  DoneIsStored
  OneGeneration
  CapacityKept
PROPERTIES
  NothingAfterDelete
  QueueIsFair
  EveryTurnSettles
CHECK_DEADLOCK FALSE
