\* The connection code is rotated while a device pairs.
SPECIFICATION Spec
CONSTANTS
  Token = {t1}
  Device = {d1}
  Profile = {1}
  Legacy = {}
  Call = {q1, q2}
  MaxRotations = 1
  None = None
INVARIANTS RotationComplete
CHECK_DEADLOCK FALSE
