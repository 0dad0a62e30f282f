SPECIFICATION Spec
CONSTANTS
  Groups = {"issue"}
  Files = {"x", "y"}
  Kinds <- EveryKind
  Last = 2
  Day = 3
  MaxFaults = 0
  MaxCrashes = 0
INVARIANTS OneActivePerTarget GroupMarkedByAttempt
PROPERTIES SettledFinal StillFailingWasChecked ExpiresUnattended
CHECK_DEADLOCK FALSE
