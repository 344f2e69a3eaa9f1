CONSTANTS
  None = none
  Tags = {1, 2}
  Workers = {w1}
  Driver = driver
  Handler = handler
  Other = other
  Senders = {w1, driver, handler, other}
  SqSize = 2
  CqSize = 2
  PoolSize = 1
  Ids = {1, 2}
  Width = 2
  LastReg = 1
  Steady = {1}
  NvmeId = 1
  OtherId = 2
  Guests <- GuestKinds
SPECIFICATION FairSpec
INVARIANTS CommandsConserved CompletionNoticed ResetQuiet PendingCovered
PROPERTY CommandsComplete
