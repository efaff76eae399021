\* Two viewers start the same HLS session at once.
SPECIFICATION Spec
CONSTANTS
  Request = {r1, r2}
  Key = {k1}
  Modes = {"video"}
  Backend = "vaapi"
  NumCPU = 1
  Caps = {0}
  CapacityBound = 2
  ScratchPressure = FALSE
  MaxRestarts = 0
  None = None
INVARIANTS RegisteredHasScratch
