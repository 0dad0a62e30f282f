SPECIFICATION FairSpec
CONSTANTS
  Keys = {k1, k2}
  Commands = {c1, c2}
  Loop = loop
  NoKey = none
  NoOne = free
  SeatCap = 1
  MaxStarts = 2
  MaxMints = 2
  MaxFaults = 1
INVARIANTS CredentialHasHandle SeatHasHandle
CHECK_DEADLOCK FALSE
PROPERTIES Settles
