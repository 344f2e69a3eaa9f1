CONSTANTS
  t1 = t1
  t2 = t2
  m1 = m1
  m2 = m2
  Loop = loop
  Api = {t1}
  Machines = {m1, m2}
  Drives <- All
  LoopCallers = {t1}
  Hotplug = FALSE
SPECIFICATION FairSpec
INVARIANTS TypeOK RunningServed FreedNotUsed CondOutlivesLoop LoopsExclusive
PROPERTIES CallsReturn PowerOffEndsManual
