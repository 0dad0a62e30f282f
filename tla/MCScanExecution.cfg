SPECIFICATION HistorySpec
CONSTANTS
  Callers = {c1, c2}
  Keys = {k1, k2, k3}
  OldKey = k3
  Plans <- WebAndFull
  MaxRows = 3
  Keep = 1
  MaxFaults = 1
  MaxCrashes = 1
SYMMETRY Symmetry
INVARIANTS IInv StatusCoherent EvidenceBacked OneCollector
PROPERTIES SettledFrozen RetentionSafe
CHECK_DEADLOCK FALSE
