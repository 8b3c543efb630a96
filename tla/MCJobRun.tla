------------------------------ MODULE MCJobRun ------------------------------
(* JobRun with a small job for TLC.                                        *)
EXTENDS JobRun, TLC

Free == [deps |-> {}, wait |-> {}, notBefore |-> 0, deadline |-> NoDeadline, priority |-> 0]

\* A step, and one that depends on it.
Chain ==
  [step |-> << Free, [Free EXCEPT !.deps = {[step |-> 1, delay |-> 0]}] >>, barrier |-> << >>]

ChainJobs == {Chain}
=============================================================================
