CONSTANTS
  t1 = t1
  t2 = t2
  m1 = m1
  m2 = m2
  Loop = loop
  Api = {t1, t2}
  Machines = {m1}
  Drives <- OnlyT1
  LoopCallers = {t2}
  Hotplug = FALSE
SPECIFICATION FairSpec
PROPERTY CallsReturn
CHECK_DEADLOCK FALSE
