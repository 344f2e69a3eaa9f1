CONSTANTS
  HartThread = hart
  Supervisor = sup
  Devices = {}
  OtherHarts = {h2}
  DeviceIrqs = {3}
  SoftIrqs = {1}
  Timers = {7}
  MaxTime = 0
  RebaseTimes = {0}
SPECIFICATION Spec
INVARIANTS TypeOK SleepsOnlyUnnotified InterruptNotOverlooked PauseNotDropped
