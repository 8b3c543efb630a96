----------------------------- MODULE MCJobPlan -----------------------------
(* All jobs of three steps, any of which may wait for any, and for one     *)
(* barrier of either mode.                                                 *)
EXTENDS JobPlan

Ids == 1..3

SmallJobs ==
  {[step |-> [s \in Ids |->
                [deps |-> {[step |-> r, delay |-> 0] : r \in needs[s]},
                 wait |-> IF s \in waiting THEN {"sync"} ELSE {},
                 notBefore |-> 0, deadline |-> NoDeadline, priority |-> 0]],
    barrier |-> [b \in {"sync"} |-> [requires |-> required, mode |-> mode]]] :
   needs \in [Ids -> SUBSET Ids], waiting \in SUBSET Ids,
   required \in SUBSET Ids, mode \in Modes}
=============================================================================
