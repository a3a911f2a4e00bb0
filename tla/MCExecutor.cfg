SPECIFICATION MCFairSpec
CONSTANTS
  Jobs <- MCJobs
  Scopes = {s1, s2}
  Targets <- MCTargets
  Capacity <- MCCapacity
  Plans <- MCPlans
  MaxAttempts = 3
  MaxRuns = 2
  MaxCrashes = 1
CHECK_DEADLOCK FALSE
INVARIANTS
  ExecTypeOK
  PermitsAccounted
  ResumesCurrentSession
  NoOutdatedSession
  MemoryMatchesOutcome
PROPERTIES
  NoReplayAfterTools
  NoStartAfterCancel
  ExecutionEnds
