\* Two viewers of every kind of mode, on a one-processor box whose cap is patched while they
\* run, under disk pressure and one restart; a third where two videos fill the cap.
SPECIFICATION Spec
CONSTANTS
  Request = {r1, r2, r3}
  Key = {k1}
  Modes = {"direct", "audio", "video"}
  Backend = "software"
  NumCPU = 1
  Caps = {0, 2}
  CapacityBound = 2
  ScratchPressure = TRUE
  MaxRestarts = 1
  None = None
SYMMETRY Symmetry
CONSTRAINT TwoOrTogether
INVARIANTS TypeOK SlotsAccounted SlotHasOwner WithinBudget EncoderIsPaid
PROPERTIES ImplementsPool WinnerKept
