SPECIFICATION FairSpec
CONSTANTS
  Kinds <- AllKinds
  MaxRequests = 2
  MaxFaults = 2
  MaxPanics = 1
  MaxCrashes = 1
INVARIANTS ServedOnce FulfilledIsDone SerializedWhileQueueHolds
PROPERTIES SettledFinal BookKept RequestsSettle
CHECK_DEADLOCK FALSE
