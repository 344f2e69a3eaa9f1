CONSTANTS
  h1 = h1
  h2 = h2
  Harts = {h1, h2}
  Devices = {d1}
  CtxCount = 2
  Irqs = {1, 2}
  Prios = {0, 1}
  Guests <- AllGuests
SPECIFICATION Spec
INVARIANTS TypeOK PendingSignalled RaisedKept ClaimedOnce
SYMMETRY HartSymmetry
