SPECIFICATION FairSpec
CONSTANTS
  Groups = {"issue"}
  Files = {"x", "y"}
  Kinds <- EveryKind
  Last = 1
  Day = 3
  MaxFaults = 1
  MaxCrashes = 1
PROPERTIES Settles
CHECK_DEADLOCK FALSE
