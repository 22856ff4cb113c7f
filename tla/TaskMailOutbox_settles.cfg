CONSTANTS
  m1 = m1
  m2 = m2
  a = a
  b = b
  NoMail = NoMail
  Mail = {m1, m2}
  Token = {1, 2, 3, 4, 5}
  NoToken = 0
  Worker = {a}
  Requested = 5
  Budget = 1
  Slack = 1
  MinLease = 2
  MaxLease = 4
  RetryBase = 1
  MaxAttempts = 2
SPECIFICATION FairSpec
CHECK_DEADLOCK FALSE
PROPERTY EveryMailSettles
