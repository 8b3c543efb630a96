\* A job that has run as far as it can stops.
SPECIFICATION Spec
CONSTANT PlanJobs <- SmallJobs
INVARIANTS RunsAllItCan CyclesNeverStart
PROPERTIES AcyclicJobsEnd
CHECK_DEADLOCK FALSE
