SPECIFICATION MCFairSpec
CONSTANTS
  Projects <- MCProjects
  Jobs = {j1, j2}
  NoJob = NoJob
  Owner <- MCOwner
  MaxVersion = 2
  MaxNet = 2
  MaxFaults = 1
  MaxMoves = 2
  MaxHides = 1
CHECK_DEADLOCK FALSE
INVARIANTS
  ScreenInv
  ShowsTheRoute
  KeepsPolling
PROPERTIES
  QueryNeverGoesBack
  EndIsShown
