SPECIFICATION MCSpec
CONSTANTS
  Jobs <- MCJobs
  Workers = {w1, w2, w3}
  Projects = {p1}
  Scopes = {s1, s2, s3}
  MaxProjectReaders = 2
  MaxDispatches = 3
SYMMETRY Symmetry
INVARIANTS
  SchedTypeOK
  ExecutionExclusion
  AdmissionLimits
  NoLostWork
