SPECIFICATION Spec
CONSTANTS
  Groups = {"csp"}
  Syncs = {s1, s2}
  MaxDecisions = 2
  MaxForeign = 1
  MaxUnlinks = 1
SYMMETRY Interchangeable
INVARIANTS NoDecisionLost GuardedByWhatWasSeen
PROPERTIES NewerStands KnownNeverFalls RegisterKept
