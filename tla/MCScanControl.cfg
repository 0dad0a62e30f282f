SPECIFICATION Spec
CONSTANTS
  Ids = {user, scheduled}
  Cancellers = {c1, c2}
SYMMETRY Symmetry
INVARIANTS ControlInv CancelHonoured
CHECK_DEADLOCK FALSE
