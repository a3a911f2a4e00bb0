SPECIFICATION Spec
CONSTANTS
  Workflows = {"review", "consult"}
  AvailableTargets <- MCTargets
  ParentPolicy <- MCParent
  Numbers = {0, 1, 2}
  MaxTargets = 2
  MaxEdits = 4
  MaxWrites = 2
PROPERTIES SavedAsShown UntouchedKept
CHECK_DEADLOCK FALSE
