CONSTANTS
  HartThread = hart
  Supervisor = sup
  Devices = {}
  OtherHarts = {}
  DeviceIrqs = {}
  SoftIrqs = {}
  Timers = {5, 7}
  MaxTime = 1
  RebaseTimes = {0}
SPECIFICATION FairSpec
INVARIANT SleepCoversTimers
PROPERTY TimerEndsWfi
