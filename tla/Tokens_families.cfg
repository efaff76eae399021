\* Two requests at a time on one device, with room for a chain of three tokens.
SPECIFICATION Spec
CONSTANTS
  Token = {t1, t2, t3}
  Device = {d1}
  Profile = {1, 2}
  Legacy = {}
  Call = {q1, q2}
  MaxRotations = 1
  None = None
SYMMETRY Symmetry
INVARIANTS TypeOK OneLiveToken LiveHasProfile
PROPERTIES ImplementsLife
CHECK_DEADLOCK FALSE
