---------------------------- MODULE JobPlanProofs ----------------------------
(***************************************************************************)
(* Proofs about JobPlan, for jobs of any size and shape: a job runs all    *)
(* that its graph lets run, and nothing else.                              *)
(***************************************************************************)
EXTENDS JobPlan, TLAPS

\* Every step is pending or was done, at time 0.
Typed ==
  /\ job \in PlanJobs
  /\ st \in [status : [Steps(job) -> {"pending", "completed", "failed", "skipped"}],
             completedAt : [Steps(job) -> {0}]]

\* What a step that was started needs had come about.
NeedsMet ==
  \A s, r \in Steps(job) :
    st.status[s] # "pending" =>
      /\ NeedsSuccess(s, r) => st.status[r] = "completed"
      /\ NeedsEnd(s, r) => st.status[r] # "pending"

\* Of a stuck set, nothing was started.
StuckPending ==
  \A S \in SUBSET Steps(job) : Stuck(S) => \A s \in S : st.status[s] = "pending"

PlanInv == Typed /\ NeedsMet /\ StuckPending

-----------------------------------------------------------------------------
(* Ready steps, in terms of the graph.                                     *)

\* What a ready step needs has come about (_dependencies_satisfied, and the
\* barriers).
LEMMA ReadyNeeds ==
  ASSUME Typed, NEW s \in Ready(job, st, 0), NEW r \in Steps(job)
  PROVE  /\ s \in Steps(job) /\ st.status[s] = "pending"
         /\ NeedsSuccess(s, r) => st.status[r] = "completed"
         /\ NeedsEnd(s, r) => st.status[r] # "pending"
<1>1. /\ s \in Steps(job) /\ st.status[s] = "pending"
      /\ \A d \in job.step[s].deps : st.status[d.step] = "completed"
      /\ \A b \in job.step[s].wait \cap DOMAIN job.barrier : BarrierOpen(job.barrier[b], st)
  BY DEF Ready, DependenciesSatisfied, BarriersPassed
<1>2. ASSUME NEW b \in job.step[s].wait \cap DOMAIN job.barrier, r \in job.barrier[b].requires
      PROVE  /\ st.status[r] # "pending"
             /\ job.barrier[b].mode = "all_completed" => st.status[r] = "completed"
  BY <1>1, <1>2 DEF BarrierOpen, Terminal
<1>3. NeedsSuccess(s, r) => st.status[r] = "completed"
  BY <1>1, <1>2 DEF NeedsSuccess
<1>4. NeedsEnd(s, r) => st.status[r] # "pending"
  BY <1>2, <1>3 DEF NeedsEnd
<1> QED
  BY <1>1, <1>3, <1>4

\* A step that is pending and not ready needs one that has not ended, or that
\* ended without success.
LEMMA NotReadyNeeds ==
  ASSUME Typed, NEW s \in Steps(job), st.status[s] = "pending", s \notin Ready(job, st, 0)
  PROVE  \E r \in Steps(job) :
           \/ NeedsEnd(s, r) /\ st.status[r] = "pending"
           \/ NeedsSuccess(s, r) /\ st.status[r] \in {"failed", "skipped"}
<1>1. /\ \A d \in job.step[s].deps : d.step \in Steps(job) /\ d.delay = 0
      /\ \A b \in DOMAIN job.barrier : /\ job.barrier[b].requires \subseteq Steps(job)
                                       /\ job.barrier[b].mode \in Modes
      /\ job.step[s].notBefore = 0 /\ job.step[s].deadline = NoDeadline
  BY PlanAssumption DEF Typed, ValidJob
<1>2. ~DependenciesSatisfied(job.step[s], st, 0) \/ ~BarriersPassed(job, job.step[s], st)
  BY <1>1 DEF Ready, Overrun
<1>3. \A r \in Steps(job) :
        /\ st.status[r] \in {"pending", "completed", "failed", "skipped"}
        /\ st.completedAt[r] = 0
  BY DEF Typed
<1>4. CASE ~DependenciesSatisfied(job.step[s], st, 0)
  <2>1. PICK d \in job.step[s].deps :
          ~(st.status[d.step] = "completed" /\ 0 >= st.completedAt[d.step] + d.delay)
    BY <1>4 DEF DependenciesSatisfied
  <2>2. d.step \in Steps(job) /\ st.status[d.step] # "completed"
    BY <1>1, <1>3, <2>1
  <2>3. NeedsSuccess(s, d.step) /\ NeedsEnd(s, d.step)
    BY DEF NeedsSuccess, NeedsEnd
  <2> QED
    BY <1>3, <2>2, <2>3
<1>5. CASE ~BarriersPassed(job, job.step[s], st)
  <2>1. PICK b \in job.step[s].wait \cap DOMAIN job.barrier : ~BarrierOpen(job.barrier[b], st)
    BY <1>5 DEF BarriersPassed
  <2>2. PICK r \in job.barrier[b].requires :
          ~(IF job.barrier[b].mode = "all_terminal" THEN st.status[r] \in Terminal
                                                    ELSE st.status[r] = "completed")
    BY <2>1 DEF BarrierOpen
  <2>3. r \in Steps(job) /\ NeedsEnd(s, r)
    BY <1>1, <2>2 DEF NeedsEnd
  <2>4. CASE job.barrier[b].mode = "all_terminal"
    BY <1>3, <2>2, <2>3, <2>4 DEF Terminal
  <2>5. CASE job.barrier[b].mode = "all_completed"
    <3>1. NeedsSuccess(s, r)
      BY <2>2, <2>5 DEF NeedsSuccess
    <3> QED
      BY <1>3, <2>2, <2>3, <2>5, <3>1
  <2> QED
    BY <1>1, <2>4, <2>5 DEF Modes
<1> QED
  BY <1>2, <1>4, <1>5

-----------------------------------------------------------------------------
(* The invariant.                                                          *)

\* The status of one step changes, and it was pending.
LEMMA DoneFacts ==
  ASSUME Typed, NEW s \in Steps(job), NEW status \in {"completed", "failed", "skipped"},
         Done(s, status)
  PROVE  /\ Typed' /\ job' = job /\ s \in Ready(job, st, 0)
         /\ st.status[s] = "pending" /\ st'.status[s] = status
         /\ \A r \in Steps(job) : r # s => st'.status[r] = st.status[r]
<1>1. job' = job /\ s \in Ready(job, st, 0) /\ st' = Mark(st, s, status, 0)
  BY DEF Done
<1>2. /\ st'.status = [st.status EXCEPT ![s] = status]
      /\ st' = [status |-> [st.status EXCEPT ![s] = status],
                completedAt |-> [st.completedAt EXCEPT ![s] = 0]]
  BY <1>1 DEF Mark, Terminal
<1>3. st.status[s] = "pending"
  BY <1>1 DEF Ready
<1> QED
  BY <1>1, <1>2, <1>3 DEF Typed

\* Doing a ready step keeps what was needed, and starts nothing that is stuck:
\* a set that is stuck afterwards and has the step was stuck before, and of one
\* that has it not what was started would be stuck by itself.
LEMMA NextPlan == PlanInv /\ [Next]_vars => PlanInv'
<1> SUFFICES ASSUME PlanInv, [Next]_vars PROVE PlanInv'
  OBVIOUS
<1>1. CASE UNCHANGED vars
  <2>1. job' = job /\ st' = st
    BY <1>1 DEF vars
  <2>2. /\ \A s, r : NeedsSuccess(s, r)' <=> NeedsSuccess(s, r)
        /\ \A s, r : NeedsEnd(s, r)' <=> NeedsEnd(s, r)
    BY <2>1 DEF NeedsSuccess, NeedsEnd
  <2>3. Typed'
    BY <2>1 DEF PlanInv, Typed
  <2>4. NeedsMet'
    BY <2>1, <2>2 DEF PlanInv, NeedsMet
  <2>5. \A S \in SUBSET Steps(job) : Stuck(S)' => Stuck(S)
    BY <2>1, <2>2 DEF Stuck
  <2>6. StuckPending'
    BY <2>1, <2>5 DEF PlanInv, StuckPending
  <2> QED
    BY <2>3, <2>4, <2>6 DEF PlanInv
<1>2. ASSUME NEW s0 \in Steps(job), NEW status \in {"completed", "failed", "skipped"},
             Done(s0, status)
      PROVE  PlanInv'
  <2>1. /\ Typed' /\ job' = job /\ s0 \in Ready(job, st, 0)
        /\ st.status[s0] = "pending" /\ st'.status[s0] = status
        /\ \A r \in Steps(job) : r # s0 => st'.status[r] = st.status[r]
    BY <1>2, DoneFacts DEF PlanInv
  <2>2. /\ \A s, r : NeedsSuccess(s, r)' <=> NeedsSuccess(s, r)
        /\ \A s, r : NeedsEnd(s, r)' <=> NeedsEnd(s, r)
        /\ \A s, r : NeedsSuccess(s, r) => NeedsEnd(s, r)
    BY <2>1 DEF NeedsSuccess, NeedsEnd
  <2>3. \A r \in Steps(job) : /\ NeedsSuccess(s0, r) => st.status[r] = "completed"
                              /\ NeedsEnd(s0, r) => st.status[r] # "pending"
    BY <2>1, ReadyNeeds DEF PlanInv
  <2>4. \A s, r \in Steps(job) :
          st.status[s] # "pending" =>
            /\ NeedsSuccess(s, r) => st.status[r] = "completed"
            /\ NeedsEnd(s, r) => st.status[r] # "pending"
    BY DEF PlanInv, NeedsMet
  <2>5. NeedsMet'
    <3> SUFFICES ASSUME NEW s \in Steps(job), NEW r \in Steps(job), st'.status[s] # "pending"
                 PROVE  /\ NeedsSuccess(s, r) => st'.status[r] = "completed"
                        /\ NeedsEnd(s, r) => st'.status[r] # "pending"
      BY <2>1, <2>2 DEF NeedsMet
    <3>1. /\ NeedsSuccess(s, r) => st.status[r] = "completed"
          /\ NeedsEnd(s, r) => st.status[r] # "pending"
      BY <2>1, <2>3, <2>4
    <3> QED
      BY <2>1, <3>1
  <2>6. StuckPending'
    <3> SUFFICES ASSUME NEW S \in SUBSET Steps(job), Stuck(S)'
                 PROVE  \A s \in S : st'.status[s] = "pending"
      BY <2>1 DEF StuckPending
    <3>1. \A s \in S : \E r \in Steps(job) :
            \/ r \in S /\ NeedsEnd(s, r)
            \/ st'.status[r] \in {"failed", "skipped"} /\ NeedsSuccess(s, r)
      BY <2>1, <2>2 DEF Stuck
    <3>2. CASE s0 \in S
      <4>1. Stuck(S)
        BY <2>1, <2>2, <3>1, <3>2 DEF Stuck
      <4>2. \A s \in S : st.status[s] = "pending"
        BY <4>1 DEF PlanInv, StuckPending
      <4>3. PICK r \in Steps(job) :
              \/ r \in S /\ NeedsEnd(s0, r)
              \/ st'.status[r] \in {"failed", "skipped"} /\ NeedsSuccess(s0, r)
        BY <3>1, <3>2
      <4> QED
        BY <2>1, <2>3, <4>2, <4>3
    <3>3. CASE s0 \notin S
      <4> DEFINE R == {s \in S : st.status[s] # "pending"}
      <4>1. ASSUME NEW s \in R PROVE \E r \in R : NeedsEnd(s, r)
        <5>1. PICK r \in Steps(job) :
                \/ r \in S /\ NeedsEnd(s, r)
                \/ st'.status[r] \in {"failed", "skipped"} /\ NeedsSuccess(s, r)
          BY <3>1, <4>1
        <5>2. ~NeedsSuccess(s, r) \/ st.status[r] = "completed"
          BY <2>4, <4>1
        <5> QED
          BY <2>1, <2>4, <4>1, <5>1, <5>2
      <4>2. Stuck(R) /\ R \in SUBSET Steps(job)
        BY <4>1 DEF Stuck
      <4>3. R = {}
        BY <4>2 DEF PlanInv, StuckPending
      <4> QED
        BY <2>1, <3>3, <4>3
    <3> QED
      BY <3>2, <3>3
  <2> QED
    BY <2>1, <2>5, <2>6 DEF PlanInv
<1> QED
  BY <1>1, <1>2 DEF Next

\* The invariant holds in every state of every run.
THEOREM PlanInvariant == Spec => []PlanInv
<1>1. Init => PlanInv
  <2> SUFFICES ASSUME Init PROVE PlanInv
    OBVIOUS
  <2>1. job \in PlanJobs /\ st = Fresh(job)
    BY DEF Init
  <2>2. Typed /\ \A s \in Steps(job) : st.status[s] = "pending"
    BY <2>1 DEF Fresh, Typed
  <2> QED
    BY <2>2 DEF PlanInv, NeedsMet, StuckPending
<1> QED
  BY <1>1, NextPlan, PTL DEF Spec

\* No step of a cycle is ever started: what waits for itself through others is
\* stuck.
THEOREM CyclesAreNotStarted == Spec => []CyclesNeverStart
<1>1. ASSUME PlanInv PROVE CyclesNeverStart
  <2> SUFFICES ASSUME NEW S \in SUBSET Steps(job), \A s \in S : \E r \in S : NeedsEnd(s, r)
               PROVE  \A s \in S : st.status[s] = "pending"
    BY DEF CyclesNeverStart
  <2>1. Stuck(S)
    BY DEF Stuck
  <2> QED
    BY <1>1, <2>1 DEF PlanInv, StuckPending
<1> QED
  BY <1>1, PlanInvariant, PTL

\* When nothing is ready, what is left of the job are its stuck steps and no
\* others: the pending steps are then stuck themselves.
THEOREM AllThatCanRunIsRun == Spec => []RunsAllItCan
<1>1. ASSUME PlanInv PROVE RunsAllItCan
  <2> SUFFICES ASSUME Ready(job, st, 0) = {}
               PROVE  UNION {S \in SUBSET Steps(job) : Stuck(S)} =
                        {s \in Steps(job) : st.status[s] = "pending"}
    BY DEF RunsAllItCan
  <2> DEFINE P == {s \in Steps(job) : st.status[s] = "pending"}
  <2>1. ASSUME NEW s \in P
        PROVE  \E r \in Steps(job) :
                 \/ r \in P /\ NeedsEnd(s, r)
                 \/ st.status[r] \in {"failed", "skipped"} /\ NeedsSuccess(s, r)
    BY <1>1, <2>1, NotReadyNeeds DEF PlanInv
  <2>2. Stuck(P) /\ P \in SUBSET Steps(job)
    BY <2>1 DEF Stuck
  <2>3. \A S \in SUBSET Steps(job) : Stuck(S) => S \subseteq P
    BY <1>1 DEF PlanInv, StuckPending
  <2> QED
    BY <2>2, <2>3
<1> QED
  BY <1>1, PlanInvariant, PTL

=============================================================================
