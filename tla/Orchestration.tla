---------------------------- MODULE Orchestration ----------------------------
(***************************************************************************)
(* orchestration.py: which steps of a job are ready.                       *)
(*                                                                         *)
(* A job is a record of two functions: job.step, from the ids of its steps *)
(* to what each waits for, and job.barrier, from the ids of its barriers   *)
(* to what each requires.  A state of a job gives every step its status    *)
(* and the time of its last terminal status.  Step ids are numbers, their  *)
(* order that of the strings.                                              *)
(***************************************************************************)
EXTENDS Integers, FiniteSets

Statuses == {"pending", "running", "completed", "failed", "skipped", "timed_out"}
Terminal == {"completed", "failed", "skipped", "timed_out"}

Modes == {"all_completed", "all_terminal"}

NoDeadline == -1

Steps(job) == DOMAIN job.step

\* StepSpec.from_dict and Dependency.from_dict.  A dependency without
\* min_delay_seconds has delay 0, a step without not_before_ts notBefore 0.
StepSpec(step) ==
  /\ \A d \in step.deps : d.delay \in Nat
  /\ step.notBefore \in Nat
  /\ step.deadline \in Nat \cup {NoDeadline}
  /\ step.priority \in Int

\* validate_job_spec.  Cycles, and barriers that are waited for and not
\* defined, are let through.
ValidJob(job) ==
  /\ \A s \in Steps(job) : /\ StepSpec(job.step[s])
                           /\ \A d \in job.step[s].deps : d.step \in Steps(job)
  /\ \A b \in DOMAIN job.barrier : /\ job.barrier[b].requires \subseteq Steps(job)
                                   /\ job.barrier[b].mode \in Modes

\* build_job_state.
Fresh(job) ==
  [status |-> [s \in Steps(job) |-> "pending"],
   completedAt |-> [s \in Steps(job) |-> 0]]

\* StepState.mark; any status may follow any other.
Mark(st, s, status, now) ==
  [status |-> [st.status EXCEPT ![s] = status],
   completedAt |-> IF status \in Terminal
                   THEN [st.completedAt EXCEPT ![s] = now] ELSE st.completedAt]

Overrun(job, s, now) ==
  job.step[s].deadline # NoDeadline /\ now > job.step[s].deadline

\* update_timeouts: only what has not been started can time out.
UpdateTimeouts(job, st, now) ==
  LET T == {s \in Steps(job) : st.status[s] = "pending" /\ Overrun(job, s, now)}
  IN  [status |-> [s \in Steps(job) |-> IF s \in T THEN "timed_out" ELSE st.status[s]],
       completedAt |-> [s \in Steps(job) |-> IF s \in T THEN now ELSE st.completedAt[s]]]

BarrierOpen(barrier, st) ==
  \A s \in barrier.requires :
    IF barrier.mode = "all_terminal" THEN st.status[s] \in Terminal
                                     ELSE st.status[s] = "completed"

\* Mutant: any end of a dependency will do.
DependenciesEnded(step, st, now) ==
  \A d \in step.deps :
    st.status[d.step] \in Terminal /\ now >= st.completedAt[d.step] + d.delay

\* Mutant: one dependency is enough.
DependenciesAny(step, st, now) ==
  \/ step.deps = {}
  \/ \E d \in step.deps :
       st.status[d.step] = "completed" /\ now >= st.completedAt[d.step] + d.delay

\* Mutant: the delay is not waited for.
DependenciesSoon(step, st, now) ==
  \A d \in step.deps : st.status[d.step] = "completed"

DependenciesSatisfied(step, st, now) ==
  \A d \in step.deps :
    st.status[d.step] = "completed" /\ now >= st.completedAt[d.step] + d.delay

\* Mutant: every barrier of the job is waited for.
BarriersPassedAll(job, step, st) ==
  \A b \in DOMAIN job.barrier : BarrierOpen(job.barrier[b], st)

BarriersPassed(job, step, st) ==
  \A b \in step.wait \cap DOMAIN job.barrier : BarrierOpen(job.barrier[b], st)

\* get_ready_steps, once the timeouts are brought up to date.
Ready(job, st, now) ==
  {s \in Steps(job) :
     /\ st.status[s] = "pending"
     /\ now >= job.step[s].notBefore
     /\ ~Overrun(job, s, now)
     /\ DependenciesSatisfied(job.step[s], st, now)
     /\ BarriersPassed(job, job.step[s], st)}

\* The order of the ready steps: priority first, then the id.
Precedes(job, r, s) ==
  \/ job.step[r].priority > job.step[s].priority
  \/ job.step[r].priority = job.step[s].priority /\ r <= s

JobIsComplete(job, st) == \A s \in Steps(job) : st.status[s] \in Terminal

=============================================================================
