\* Concurrent reports on a job that may be posted again: the assignments.
SPECIFICATION Spec
CONSTANTS
  Threads = {t1, t2}
  JobIds = {j1}
  Jobs <- BoardJobs
  Reports = {"completed", "pending"}
  RegBound = 2
  ClockBound = 1
SYMMETRY Symmetry
INVARIANTS TypeOK AssignedOnce DispatchedIsAssigned ReadyIsDispatched
PROPERTIES WaitsWereOver
