SPECIFICATION FairSpec
CONSTANTS
  MaxRelease = 4
  TooNew <- SkipsOne
  MaxFaults = 4
INVARIANTS TypeOK FloorStands
PROPERTIES NeverOlder Heals
