SPECIFICATION FairSpec
CONSTANTS
  Threads = {t1}
  JobIds = {j1}
  Jobs <- DelayedJobs
  Reports = {"completed"}
  RegBound = 1
  ClockBound = 2
PROPERTIES ReadyGetsDispatched
