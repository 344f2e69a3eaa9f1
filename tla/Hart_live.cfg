CONSTANTS
  HartThread = hart
  Supervisor = sup
  Devices = {d1}
  OtherHarts = {}
  DeviceIrqs = {11}
  SoftIrqs = {}
  Timers = {7}
  MaxTime = 0
  RebaseTimes = {}
SPECIFICATION FairSpec
PROPERTIES WfiEnds PauseReturns
