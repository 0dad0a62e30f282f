SPECIFICATION Spec
CONSTANTS
  Groups = {"csp"}
  Syncs = {s1, s2}
  MaxDecisions = 1
  MaxForeign = 0
  MaxUnlinks = 1
SYMMETRY Interchangeable
INVARIANT CarriedDecisionsArrive
