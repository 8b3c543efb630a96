------------------------------- MODULE JobPlan -------------------------------
(***************************************************************************)
(* A job without time gates, run to its end by a fleet that does what it   *)
(* is told: of the ready steps one is done at a time, with success or not. *)
(* This relates get_ready_steps, which looks at one step and what it waits *)
(* for, to the graph of the whole job.                                     *)
(***************************************************************************)
EXTENDS Orchestration

CONSTANT PlanJobs  \* the jobs to run, valid ones without time gates and deadlines

ASSUME PlanAssumption ==
  \A j \in PlanJobs :
    /\ ValidJob(j)
    /\ \A s \in Steps(j) :
         /\ j.step[s].notBefore = 0 /\ j.step[s].deadline = NoDeadline
         /\ \A d \in j.step[s].deps : d.delay = 0

VARIABLES
  job,
  st    \* JobState

vars == <<job, st>>

Init == job \in PlanJobs /\ st = Fresh(job)

\* mark_step_completed, mark_step_failed, mark_step_skipped.
Done(s, status) ==
  /\ s \in Ready(job, st, 0)
  /\ st' = Mark(st, s, status, 0)
  /\ UNCHANGED job

Next == \E s \in Steps(job), status \in {"completed", "failed", "skipped"} : Done(s, status)

Spec == Init /\ [][Next]_vars /\ WF_vars(Next)

-----------------------------------------------------------------------------
(* The graph of the job, from its definition alone.                        *)

\* s needs r to be completed.
NeedsSuccess(s, r) ==
  \/ \E d \in job.step[s].deps : d.step = r
  \/ \E b \in job.step[s].wait \cap DOMAIN job.barrier :
       r \in job.barrier[b].requires /\ job.barrier[b].mode = "all_completed"

\* s needs r to have ended.
NeedsEnd(s, r) ==
  \/ NeedsSuccess(s, r)
  \/ \E b \in job.step[s].wait \cap DOMAIN job.barrier : r \in job.barrier[b].requires

\* A set of steps none of which can be the first to start: each waits for
\* another of them, or for a step that ended without success.
Stuck(S) ==
  \A s \in S : \E r \in Steps(job) :
    \/ r \in S /\ NeedsEnd(s, r)
    \/ st.status[r] \in {"failed", "skipped"} /\ NeedsSuccess(s, r)

Acyclic ==
  ~ \E S \in SUBSET Steps(job) : S # {} /\ \A s \in S : \E r \in S : NeedsEnd(s, r)

\* When nothing is ready, the steps that were not run are those of the largest
\* stuck set: get_ready_steps has neither let one of them start nor left out
\* any other, and a failure stops only what needs the failed step.
RunsAllItCan ==
  Ready(job, st, 0) = {} =>
    UNION {S \in SUBSET Steps(job) : Stuck(S)} =
      {s \in Steps(job) : st.status[s] = "pending"}

\* No step of a cycle is ever started.
CyclesNeverStart ==
  \A S \in SUBSET Steps(job) :
    (\A s \in S : \E r \in S : NeedsEnd(s, r)) => \A s \in S : st.status[s] = "pending"

\* A job whose graph has no cycle ends, unless a step was not successful.
AcyclicJobsEnd ==
  Acyclic => <>(\/ JobIsComplete(job, st)
                \/ \E s \in Steps(job) : st.status[s] \in {"failed", "skipped"})

=============================================================================
