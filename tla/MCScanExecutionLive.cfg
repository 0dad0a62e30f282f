SPECIFICATION FairSpec
CONSTANTS
  Callers = {c1, c2}
  Keys = {k1}
  OldKey = none
  Plans <- MixedPlans
  MaxRows = 2
  Keep = 1
  MaxFaults = 1
  MaxCrashes = 1
PROPERTIES Settles NeverStuckOpen LedgerKept
CHECK_DEADLOCK FALSE
