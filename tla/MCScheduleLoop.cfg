SPECIFICATION LoopSpec
CONSTANTS
  Jobs <- MCJobs
  Workers = {w1, w2, w3}
  Projects = {p1, p2}
  Scopes = {s1, s2}
  MaxProjectReaders = 2
SYMMETRY Symmetry
CHECK_DEADLOCK FALSE
INVARIANT LoopIsOnePass
