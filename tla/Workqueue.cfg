CONSTANTS
  Producers = {p1, p2}
  Workers = {w1, w2}
  Size = 2
  Wrap = 16
  Start = 15
  MaxTasks = 3
SPECIFICATION FairSpec
INVARIANTS TypeOK SlotsExclusive TasksConserved TaskNoticed
PROPERTIES TasksPerformed TerminateReturns
CHECK_DEADLOCK FALSE
