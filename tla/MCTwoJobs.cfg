SPECIFICATION FairSpec
CONSTANTS
  Jobs <- MCTwoJobs
  Workers = {w1, w2}
  Projects = {p1}
  Scopes = {s1}
  MaxProjectReaders = 2
  MaxRetries = 1
  MaxCrashes = 1
CHECK_DEADLOCK FALSE
PROPERTIES
  QueuedJobsLeave
  WaitersAndCloseEnd
  ImplementsLedger
