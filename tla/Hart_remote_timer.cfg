CONSTANTS
  HartThread = hart
  Supervisor = sup
  Devices = {}
  OtherHarts = {h2}
  DeviceIrqs = {}
  SoftIrqs = {}
  Timers = {7}
  MaxTime = 1
  RebaseTimes = {}
SPECIFICATION Spec
INVARIANT SleepCoversTimers
