------------------------------ MODULE JobBoard ------------------------------
(***************************************************************************)
(* The orchestration side of server.py: jobs are registered and their      *)
(* steps' statuses reported by POST /bus/messages, and the steps that      *)
(* become ready are assigned through the queue.                            *)
(*                                                                         *)
(* A handler takes _jobs_lock twice, once to check the request and once to *)
(* act on it, and puts the assignments on the queue after it gave the lock *)
(* back: one action for each.  That the request itself is appended to the  *)
(* bus between the two touches nothing here (see MessageBus).              *)
(***************************************************************************)
EXTENDS Orchestration

CONSTANTS
  Threads,     \* request threads of the server
  JobIds,      \* job_id values
  Jobs,        \* the job specs that clients post, valid ones
  Reports,     \* the statuses that clients report, of the six they may
  RegBound,    \* bound of the model: registrations
  ClockBound   \* bound of the model: last second of the clock

ASSUME BoardAssumption ==
  /\ IsFiniteSet(Threads)
  /\ \A job \in Jobs : ValidJob(job)
  /\ Reports \subseteq Statuses
  /\ RegBound \in Nat
  /\ ClockBound \in Nat

Regs == 1..RegBound
StepIds == UNION {Steps(job) : job \in Jobs}

NoId == 0
NoStep == 0
NoJob == [step |-> << >>, barrier |-> << >>]
NoEntry == [job |-> NoJob, st |-> Fresh(NoJob), dispatched |-> {}, reg |-> 0]
NoRequest == [id |-> NoId, job |-> NoJob, step |-> NoStep, status |-> "pending"]

\* A registration is named by its number, in the order of the registrations.
Assignment == [reg : Regs, step : StepIds]

VARIABLES
  clock,     \* time.time(), in seconds
  entry,     \* _jobs: spec, state and dispatched steps of each job
  pc,        \* where each thread is in its handler
  request,   \* the request each thread handles
  todo,      \* the assignments each thread has yet to put on the queue
  regs,      \* number of registrations so far
  queued,    \* history: the assignments put on the queue so far
  achieved   \* history: the terminal statuses that the steps of the present
             \* registrations have had, and when

board == <<entry, regs>>
history == <<queued, achieved>>
vars == <<clock, entry, pc, request, todo, regs, queued, achieved>>

Registered(j) == entry[j].reg # 0

TypeOK ==
  /\ clock \in 0..ClockBound
  /\ regs \in 0..RegBound
  /\ \A j \in JobIds :
       LET e == entry[j]
       IN  \/ e = NoEntry
           \/ /\ e.job \in Jobs
              /\ e.st \in [status : [Steps(e.job) -> Statuses],
                           completedAt : [Steps(e.job) -> 0..clock]]
              /\ e.dispatched \subseteq Steps(e.job)
              /\ e.reg \in 1..regs
  /\ pc \in [Threads -> {"idle", "register", "update", "enqueue"}]
  /\ request \in [Threads -> [id : JobIds \cup {NoId}, job : Jobs \cup {NoJob},
                              step : StepIds \cup {NoStep}, status : Statuses]]
  /\ todo \in [Threads -> SUBSET Assignment]
  /\ queued \subseteq Assignment
  /\ achieved \subseteq [reg : Regs, step : StepIds, status : Terminal, at : 0..clock]

Init ==
  /\ clock = 0
  /\ entry = [j \in JobIds |-> NoEntry]
  /\ pc = [t \in Threads |-> "idle"]
  /\ request = [t \in Threads |-> NoRequest]
  /\ todo = [t \in Threads |-> {}]
  /\ regs = 0
  /\ queued = {}
  /\ achieved = {}

-----------------------------------------------------------------------------

Receive(t, stage, r) ==
  /\ pc[t] = "idle"
  /\ pc' = [pc EXCEPT ![t] = stage]
  /\ request' = [request EXCEPT ![t] = r]
  /\ UNCHANGED <<clock, board, todo, history>>

Achieved(reg, st) ==
  {[reg |-> reg, step |-> s, status |-> st.status[s], at |-> st.completedAt[s]] :
     s \in {x \in DOMAIN st.status : st.status[x] \in Terminal}}

\* What is left of the history when registration reg is, or becomes, that of job j.
EndsOf(j, reg) == {e \in achieved : e.reg = entry[j].reg => e.reg = reg}

\* Mutant: what was dispatched before is dispatched again.
DispatchAgain(t, j, job, st, dispatched, reg) ==
  LET up  == UpdateTimeouts(job, st, clock)
      new == Ready(job, up, clock)
  IN  /\ entry' = [entry EXCEPT ![j] = [job |-> job, st |-> up,
                                        dispatched |-> dispatched \cup new, reg |-> reg]]
      /\ todo' = [todo EXCEPT ![t] = {[reg |-> reg, step |-> s] : s \in new}]
      /\ pc' = [pc EXCEPT ![t] = IF new = {} THEN "idle" ELSE "enqueue"]
      /\ request' = [request EXCEPT ![t] = IF new = {} THEN NoRequest
                                           ELSE [NoRequest EXCEPT !.id = j, !.job = job]]
      /\ achieved' = EndsOf(j, reg) \cup Achieved(reg, up)
      /\ UNCHANGED <<clock, queued>>

\* _dispatch_ready_steps_locked: the ready steps that were not dispatched
\* before are, and become the thread's to enqueue.
Dispatch(t, j, job, st, dispatched, reg) ==
  LET up  == UpdateTimeouts(job, st, clock)
      new == Ready(job, up, clock) \ dispatched
  IN  /\ entry' = [entry EXCEPT ![j] = [job |-> job, st |-> up,
                                        dispatched |-> dispatched \cup new, reg |-> reg]]
      /\ todo' = [todo EXCEPT ![t] = {[reg |-> reg, step |-> s] : s \in new}]
      /\ pc' = [pc EXCEPT ![t] = IF new = {} THEN "idle" ELSE "enqueue"]
      /\ request' = [request EXCEPT ![t] = IF new = {} THEN NoRequest
                                           ELSE [NoRequest EXCEPT !.id = j, !.job = job]]
      /\ achieved' = EndsOf(j, reg) \cup Achieved(reg, up)
      /\ UNCHANGED <<clock, queued>>

\* The threads whose request will register a job.
Registering == {t \in Threads : pc[t] = "register"}

\* POST of an orchestration.job message.
JobStart(t, j, job) ==
  /\ regs + Cardinality(Registering) < RegBound
  /\ Receive(t, "register", [NoRequest EXCEPT !.id = j, !.job = job])

\* Mutant: the steps that were dispatched for the job it replaces still count.
JobRegisterKeeps(t) ==
  LET r == request[t]
  IN  /\ pc[t] = "register"
      /\ regs' = regs + 1
      /\ Dispatch(t, r.id, r.job, Fresh(r.job), entry[r.id].dispatched, regs')

\* _register_job_locked: a job that is posted again starts over.
JobRegister(t) ==
  LET r == request[t]
  IN  /\ pc[t] = "register"
      /\ regs' = regs + 1
      /\ Dispatch(t, r.id, r.job, Fresh(r.job), {}, regs')

\* POST of an orchestration.step.status message, let in if the job and the
\* step are known; 404 otherwise.
StatusStart(t, j, s, status) ==
  /\ Registered(j) /\ s \in Steps(entry[j].job)
  /\ Receive(t, "update", [NoRequest EXCEPT !.id = j, !.step = s, !.status = status])

\* Mutant: the ready steps are looked for before the status is recorded.
StatusUpdateLate(t) ==
  LET r == request[t]
      e == entry[r.id]
      up == Mark(e.st, r.step, r.status, clock)
      new == Ready(e.job, e.st, clock) \ e.dispatched
  IN  /\ pc[t] = "update"
      /\ entry' = [entry EXCEPT ![r.id] = [e EXCEPT !.st = up, !.dispatched = @ \cup new]]
      /\ todo' = [todo EXCEPT ![t] = {[reg |-> e.reg, step |-> s] : s \in new}]
      /\ pc' = [pc EXCEPT ![t] = IF new = {} THEN "idle" ELSE "enqueue"]
      /\ request' = [request EXCEPT ![t] = IF new = {} THEN NoRequest
                                           ELSE [NoRequest EXCEPT !.id = r.id, !.job = e.job]]
      /\ achieved' = achieved \cup Achieved(e.reg, up)
      /\ UNCHANGED <<clock, queued, regs>>

\* _update_job_step_locked, of the job as it is now: if it was replaced by
\* one without the step since the check, a KeyError ends the handler.
StatusUpdate(t) ==
  LET r == request[t]
      e == entry[r.id]
  IN  /\ pc[t] = "update"
      /\ \/ /\ r.step \in Steps(e.job)
            /\ Dispatch(t, r.id, e.job, Mark(e.st, r.step, r.status, clock),
                        e.dispatched, e.reg)
         \/ /\ r.step \notin Steps(e.job)
            /\ pc' = [pc EXCEPT ![t] = "idle"]
            /\ request' = [request EXCEPT ![t] = NoRequest]
            /\ UNCHANGED <<clock, entry, todo, history>>
      /\ UNCHANGED regs

\* _bus_add_message of the next assignment, in the order of the ready steps.
Enqueue(t) ==
  /\ pc[t] = "enqueue"
  /\ \E next \in todo[t] :
       /\ \A a \in todo[t] : Precedes(request[t].job, next.step, a.step)
       /\ queued' = queued \cup {next}
       /\ todo' = [todo EXCEPT ![t] = @ \ {next}]
       /\ \/ /\ todo[t] = {next}
             /\ pc' = [pc EXCEPT ![t] = "idle"]
             /\ request' = [request EXCEPT ![t] = NoRequest]
          \/ /\ todo[t] # {next}
             /\ UNCHANGED <<pc, request>>
  /\ UNCHANGED <<clock, board, achieved>>

\* GET /bus/orchestration/jobs/<job_id>/ready.  It reads, and times out.
QueryReady(j) ==
  /\ Registered(j)
  /\ LET up == UpdateTimeouts(entry[j].job, entry[j].st, clock)
     IN  /\ entry' = [entry EXCEPT ![j].st = up]
         /\ achieved' = achieved \cup Achieved(entry[j].reg, up)
  /\ UNCHANGED <<clock, pc, request, todo, regs, queued>>

Tick ==
  /\ clock < ClockBound
  /\ clock' = clock + 1
  /\ UNCHANGED <<board, pc, request, todo, history>>

\* The process dies and is started again; jobs are not persisted.
Restart ==
  /\ entry' = [j \in JobIds |-> NoEntry]
  /\ pc' = [t \in Threads |-> "idle"]
  /\ request' = [t \in Threads |-> NoRequest]
  /\ todo' = [t \in Threads |-> {}]
  /\ achieved' = {}
  /\ UNCHANGED <<clock, regs, queued>>

Next ==
  \/ \E t \in Threads :
       \/ \E j \in JobIds :
            \/ \E job \in Jobs : JobStart(t, j, job)
            \/ \E s \in StepIds, status \in Reports : StatusStart(t, j, s, status)
       \/ JobRegister(t) \/ StatusUpdate(t) \/ Enqueue(t)
  \/ \E j \in JobIds : QueryReady(j)
  \/ Tick
  \/ Restart

Spec == Init /\ [][Next]_vars

-----------------------------------------------------------------------------
(* Properties.                                                             *)

AllTodo == UNION {todo[t] : t \in Threads}

\* No step of a registration is put on the queue twice, though any number of
\* status reports may find it ready and enqueue outside the lock.
AssignedOnce ==
  /\ AllTodo \cap queued = {}
  /\ \A t, u \in Threads : t # u => todo[t] \cap todo[u] = {}

\* The steps a job believes to be dispatched are exactly those whose
\* assignments were enqueued or are in the hands of a thread that will.
DispatchedIsAssigned ==
  \A j \in JobIds :
    Registered(j) =>
      {a \in queued \cup AllTodo : a.reg = entry[j].reg} =
        {[reg |-> entry[j].reg, step |-> s] : s \in entry[j].dispatched}

Was(ends, reg, s, status) == \E e \in ends : e.reg = reg /\ e.step = s /\ e.status = status

\* What a step of a registration waits for has come about, at the time now and
\* with the ends of steps that were achieved by then.
WaitOver(now, ends, job, reg, s) ==
  /\ now >= job.step[s].notBefore /\ ~Overrun(job, s, now)
  /\ \A d \in job.step[s].deps :
       /\ Was(ends, reg, d.step, "completed")
       /\ \A e \in ends : e.reg = reg /\ e.step = d.step => now >= e.at + d.delay
  /\ \A b \in job.step[s].wait \cap DOMAIN job.barrier :
       \A r \in job.barrier[b].requires :
         IF job.barrier[b].mode = "all_completed"
         THEN Was(ends, reg, r, "completed") ELSE \E x \in Terminal : Was(ends, reg, r, x)

\* The steps of the job's registration that are assigned in this step.
NewlyDispatched(j) ==
  entry'[j].dispatched \
    (IF entry'[j].reg = entry[j].reg THEN entry[j].dispatched ELSE {})

\* When a step is assigned, everything it waits for is over: its time has come
\* and its deadline has not passed, each dependency was completed and its delay
\* has passed since the dependency last ended, and its barriers' steps were
\* completed or ended; all that in this registration of the job and not in one
\* it replaced, whichever report or post came to look for ready steps.
WaitsWereOver ==
  [][\A j \in JobIds :
       \A s \in NewlyDispatched(j) :
         WaitOver(clock, achieved', entry'[j].job, entry'[j].reg, s)]_vars

\* A job without time gates and deadlines.
Timeless(job) ==
  \A s \in Steps(job) :
    /\ job.step[s].notBefore = 0 /\ job.step[s].deadline = NoDeadline
    /\ \A d \in job.step[s].deps : d.delay = 0

\* Of a job without time gates, no ready step is ever left waiting for
\* somebody to dispatch it: GET .../ready answers with the empty list.
ReadyIsDispatched ==
  \A j \in JobIds :
    Registered(j) /\ Timeless(entry[j].job) =>
      Ready(entry[j].job, entry[j].st, clock) \subseteq entry[j].dispatched

\* The threads run, and time passes.
Fairness ==
  /\ WF_clock(Tick)
  /\ \A t \in Threads : WF_vars(JobRegister(t) \/ StatusUpdate(t) \/ Enqueue(t))

FairSpec == Spec /\ Fairness

\* A step that is ready is dispatched, or ceases to be ready.  (It need not:
\* only a post to the job looks for ready steps to dispatch, and none need come
\* when a time gate opens.)
ReadyGetsDispatched ==
  \A j \in JobIds, s \in StepIds :
    LET Waiting == /\ Registered(j)
                   /\ s \in Ready(entry[j].job, entry[j].st, clock) \ entry[j].dispatched
    IN  Waiting ~> ~Waiting

-----------------------------------------------------------------------------
(* The inductive invariants behind these properties (in JobRunProofs).      *)

\* Registrations under way are counted, and a handler has the request, and
\* the assignments, of the section it is at.
Shaped ==
  /\ regs + Cardinality(Registering) <= RegBound
  /\ entry = [j \in JobIds |-> [job |-> entry[j].job, st |-> entry[j].st,
                               dispatched |-> entry[j].dispatched, reg |-> entry[j].reg]]
  /\ \A t \in Threads :
       /\ pc[t] = "register" => request[t].id \in JobIds /\ request[t].job \in Jobs
       /\ pc[t] = "update" => request[t].id \in JobIds
       /\ todo[t] # {} => pc[t] = "enqueue"

\* No two jobs are one registration, and nothing is assigned for one to come.
RegsKnown ==
  /\ \A i, j \in JobIds : Registered(i) /\ entry[i].reg = entry[j].reg => i = j
  /\ \A a \in queued \cup AllTodo : a.reg <= regs

\* The ends of steps that a job records are in its history, and the latest there.
EndsAchieved ==
  \A j \in JobIds :
    Registered(j) =>
      /\ Achieved(entry[j].reg, entry[j].st) \subseteq achieved
      /\ \A e \in achieved :
           e.reg = entry[j].reg => /\ e.step \in Steps(entry[j].job)
                                  /\ e.at <= entry[j].st.completedAt[e.step]

\* No end is of a registration to come.
EndsKnown == \A e \in achieved : e.reg <= regs

=============================================================================
