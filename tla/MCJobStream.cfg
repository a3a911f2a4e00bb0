SPECIFICATION MCFairSpec
CONSTANTS
  Jobs = {j1, j2}
  NoJob = NoJob
  MaxLog = 2
  PageSize = 1
  Faults = {"fail", "drop", "refuse", "refresh", "retry", "lose"}
  MaxFaults = 1
  MaxShows = 2
CHECK_DEADLOCK FALSE
INVARIANTS
  StreamInv
  TranscriptIsPrefix
PROPERTIES
  FollowsWhileAttached
