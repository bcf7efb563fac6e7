SPECIFICATION Spec
CONSTANTS
  Bhs <- MCBhs
  Handlers <- MCHandlers
  Workers = {w1}
  Reqs = {r1}
  NoCb = {}
  None = None
  MaySpin = FALSE
INVARIANTS
  BhInterruptsMain
