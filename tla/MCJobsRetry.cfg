SPECIFICATION MCSpec
CONSTANTS
  Jobs <- MCJobs
  Workers = {w1, w2}
  Projects = {p1}
  Scopes = {s1, s2}
  MaxProjectReaders = 2
  MaxRetries = 1
  MaxCrashes = 0
SYMMETRY Symmetry
CHECK_DEADLOCK FALSE
INVARIANTS
  RecordsAgree
  RunningExclusion
  DependenciesHold
  NoUnexplainedWait
PROPERTIES
  WaiterSeesOutcome
  BoundedBypass
  OutcomeIsFinal
