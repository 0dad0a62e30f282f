SPECIFICATION Spec
CONSTANTS
  Routes <- TwoPages
  Producers <- AllProducers
  SourceOf <- Engines
  GroupOf <- Canonical
  KeyOf <- Keys
  Skippable = {"axe.rule"}
  Choices <- UserDecides
INVARIANTS OpenIsLastVerdict RegressedWasGone VerifiedWasGone
PROPERTIES Resurfaces GroupsPromise
CHECK_DEADLOCK FALSE
