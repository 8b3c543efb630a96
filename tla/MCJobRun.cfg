SPECIFICATION FairRunSpec
CONSTANTS
  Threads = {t1, t2}
  JobIds = {j1}
  Jobs <- ChainJobs
  Reports = {"running", "completed"}
  RegBound = 2
  ClockBound = 0
  Workers = {w1, w2}
  LeaseBound = 5
  FaultBound = 1
INVARIANTS RunTypeOK StepsExclusive WorkNotLost
PROPERTIES  JobsEnd
CHECK_DEADLOCK FALSE
