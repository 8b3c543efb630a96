------------------------------- MODULE JobRun -------------------------------
(***************************************************************************)
(* A job run by workers: JobBoard composed with the leased queue its       *)
(* assignments are put on, and with workers that claim an assignment, do   *)
(* it, report its status and ack it.  The repository has one such worker,  *)
(* claim_and_complete of scripts/dogfood_litmus.sh; it claims, reports and *)
(* acks in this order, but reports the step that its caller expects, while *)
(* the workers here report the step they claimed.                          *)
(*                                                                         *)
(* The queue is WorkLease, which MessageBus implements; an item is an      *)
(* assignment message, numbered in the order of the appends.  A worker may *)
(* die anywhere, a lease may lapse under a worker that is alive, and the   *)
(* store may drop a message.  All steps are on one queue.                  *)
(***************************************************************************)
EXTENDS JobBoard, Sequences

CONSTANTS
  Workers,     \* worker names
  LeaseBound,  \* bound of the model: leases ever granted
  FaultBound   \* bound of the model: workers that die, leases that lapse under
               \* a worker that is alive, messages that the store drops

ItemIds == 1..(RegBound * Cardinality(StepIds))
LeaseIds == 1..LeaseBound
NoThread == "no thread"

\* The clock stands still here, so the jobs have no time gates and deadlines:
\* those, and GET .../ready, which changes only timed jobs, are JobBoard's.
\* What a worker reports after it claimed is that it runs, or how it ended.
ASSUME RunAssumption ==
  /\ \A job \in Jobs : Timeless(job)
  /\ NoThread \notin Threads
  /\ IsFiniteSet(StepIds)
  /\ Reports \subseteq {"running"} \cup Terminal
  /\ LeaseBound \in Nat
  /\ FaultBound \in Nat

VARIABLES
  stage, lease, owner, returned, lapsed,  \* the queue, see WorkLease
  what,    \* the assignment that each item carries
  worker,  \* where each worker is, its lease, and the thread that serves it
  faults,  \* number of faults so far
  via,     \* history: the lease of the report that each thread is to record
  ender    \* history: the lease of the report that ended each step that has ended

Queue == INSTANCE WorkLease WITH Items <- ItemIds, Leases <- LeaseIds

queue == <<stage, lease, owner, returned, lapsed>>
reports == <<via, ender>>
runVars == <<vars, queue, what, worker, faults, reports>>

NoEnds == [s \in StepIds |-> Queue!NoLease]

Idle == [at |-> "idle", lease |-> Queue!NoLease, thread |-> NoThread]

\* A worker that waits for the reply to a report is where the reply takes it.
WorkerState == [at : {"idle", "claimed", "working", "reported"},
                lease : LeaseIds \cup {Queue!NoLease}, thread : Threads \cup {NoThread}]

RunTypeOK ==
  /\ TypeOK
  /\ Queue!TypeOK
  /\ what \in Seq([job : JobIds, reg : Regs, step : StepIds])
  /\ Len(what) = Cardinality(queued)
  /\ \A i \in ItemIds : stage[i] # "absent" <=> i <= Len(what)
  /\ worker \in [Workers -> WorkerState]
  /\ \A w \in Workers :
       /\ worker[w].at # "idle" => owner[worker[w].lease].worker = w
       /\ worker[w].thread # NoThread => pc[worker[w].thread] \in {"update", "enqueue"}
  /\ faults \in 0..FaultBound
  /\ via \in [Threads -> LeaseIds \cup {Queue!NoLease}]
  /\ ender \in [JobIds -> [StepIds -> LeaseIds \cup {Queue!NoLease}]]

RunInit ==
  /\ Init
  /\ Queue!Init
  /\ what = << >>
  /\ worker = [w \in Workers |-> Idle]
  /\ faults = 0
  /\ via = [t \in Threads |-> Queue!NoLease]
  /\ ender = [j \in JobIds |-> NoEnds]

-----------------------------------------------------------------------------
(* The server.                                                             *)

\* Which of the idle threads gets a request does not matter, they run one program.
Serves(t) == pc[t] = "idle" /\ t = CHOOSE u \in Threads : pc[u] = "idle"

Post(t, j, job) ==
  Serves(t) /\ JobStart(t, j, job) /\ UNCHANGED <<queue, what, worker, faults, reports>>

Register(t) ==
  /\ JobRegister(t)
  /\ ender' = [ender EXCEPT ![request[t].id] = NoEnds]
  /\ UNCHANGED <<queue, what, worker, faults, via>>

\* The worker that thread t serves gets the reply.  If it is an error the
\* worker ends, and starts again without its lease.
Answer(t, ok) ==
  worker' = [w \in Workers |-> IF worker[w].thread # t THEN worker[w]
                               ELSE IF ok THEN [worker[w] EXCEPT !.thread = NoThread]
                               ELSE Idle]

Update(t) ==
  LET r == request[t]
      known == r.step \in Steps(entry[r.id].job)
  IN  /\ StatusUpdate(t)
      /\ \/ pc'[t] = "idle" /\ Answer(t, known)
         \/ pc'[t] = "enqueue" /\ UNCHANGED worker
      /\ via' = [via EXCEPT ![t] = Queue!NoLease]
      /\ ender' = IF ~known THEN ender
                  ELSE [ender EXCEPT ![r.id][r.step] =
                          IF r.status \in Terminal THEN via[t] ELSE Queue!NoLease]
      /\ UNCHANGED <<queue, what, faults>>

\* The append of an assignment to the store.
Put(t) ==
  /\ Enqueue(t)
  /\ \E a \in todo[t] \ todo'[t] :
       what' = Append(what, [job |-> request[t].id, reg |-> a.reg, step |-> a.step])
  /\ Queue!Submit(Len(what'))
  /\ \/ pc'[t] = "idle" /\ Answer(t, TRUE)
     \/ pc'[t] = "enqueue" /\ UNCHANGED worker
  /\ UNCHANGED <<faults, reports>>

-----------------------------------------------------------------------------
(* The workers.                                                            *)

Claimable == {i \in ItemIds : stage[i] = "available" \/ Queue!Lapsed(i)}

\* A claim is granted the first message that is not leased.  Which of the idle
\* workers claims does not matter, they run one program.
Claim(w) ==
  /\ worker[w] = Idle
  /\ w = CHOOSE v \in Workers : worker[v] = Idle
  /\ \E i \in Claimable, l \in LeaseIds :
       /\ \A k \in Claimable : i <= k
       /\ l = Cardinality(Queue!Granted) + 1
       /\ UNCHANGED lapsed /\ Queue!Grant(i, l, w)
       /\ worker' = [worker EXCEPT ![w] = [Idle EXCEPT !.at = "claimed", !.lease = l]]
  /\ UNCHANGED <<vars, what, faults, reports>>

Work(w) == what[owner[worker[w].lease].item]

\* Mutant: the worker does not wait for the reply.
WaitsNot(t) == NoThread

\* The thread whose reply the worker waits for.
Waits(t) == t

\* A worker may report that it runs the step, and reports how the step ended.
\* Rejected (404), it ends.
Report(w, t, status) ==
  LET a == Work(w)
  IN  /\ worker[w].at \in {"claimed", "working"} /\ worker[w].thread = NoThread
      /\ status = "running" => worker[w].at = "claimed"
      /\ Serves(t)
      /\ \/ /\ StatusStart(t, a.job, a.step, status)
            /\ worker' = [worker EXCEPT ![w].at = IF status = "running" THEN "working"
                                                  ELSE "reported",
                                        ![w].thread = Waits(t)]
            /\ via' = [via EXCEPT ![t] = worker[w].lease]
         \/ /\ ~(Registered(a.job) /\ a.step \in Steps(entry[a.job].job))
            /\ worker' = [worker EXCEPT ![w] = Idle]
            /\ UNCHANGED <<vars, via>>
      /\ UNCHANGED <<queue, what, faults, ender>>

\* Mutant: the worker acks what it has not done.
IsDoneAlways(w) == TRUE

\* Whether the worker has reported how the step ended.
IsDone(w) == worker[w].at = "reported"

\* The request releases the lease first if it notices that it has lapsed.  The
\* worker does not look at the reply.
Ack(w) ==
  LET i == owner[worker[w].lease].item
      held == Queue!Holds(worker[w].lease, w)
  IN
  /\ worker[w] # Idle /\ IsDone(w) /\ worker[w].thread = NoThread
  /\ \/ Queue!Remove(worker[w].lease, w)
     \/ held /\ Queue!Lapsed(i) /\ Queue!Sweep({i}, {})
     \/ ~held /\ UNCHANGED queue
  /\ worker' = [worker EXCEPT ![w] = Idle]
  /\ UNCHANGED <<vars, what, faults, reports>>

-----------------------------------------------------------------------------
(* What goes wrong.                                                        *)

Fault ==
  /\ faults < FaultBound
  /\ faults' = faults + 1

\* A worker dies, or never gets the reply to its claim; another takes its name.
Crash(w) ==
  /\ worker[w] # Idle
  /\ Fault
  /\ worker' = [worker EXCEPT ![w] = Idle]
  /\ UNCHANGED <<vars, queue, what, reports>>

Abandoned(l) ==
  /\ l \in Queue!Granted \ (returned \cup lapsed)
  /\ \A w \in Workers : worker[w].lease # l

\* The time of a lease is over.
LapseAbandoned(l) ==
  /\ Abandoned(l)
  /\ Queue!Lapse({l})
  /\ UNCHANGED <<vars, what, worker, faults, reports>>

LapseHeld(w) ==
  /\ worker[w] # Idle /\ worker[w].lease \notin lapsed
  /\ Fault
  /\ Queue!Lapse({worker[w].lease})
  /\ UNCHANGED <<vars, what, worker, reports>>

\* An assignment is dropped by age or size, claimed or not.
Drop(i) ==
  /\ i \in Queue!Present
  /\ Fault
  /\ Queue!Sweep({}, {i})
  /\ UNCHANGED <<vars, what, worker, reports>>

\* Mutant: the workers wait for their replies all the same.
CutOffNone == {}

\* The workers that wait for a reply, and get none.
CutOff == {w \in Workers : worker[w].thread # NoThread}

ServerRestart ==
  /\ Restart
  /\ Fault
  /\ Queue!Sweep({}, Queue!Present)
  /\ worker' = [w \in Workers |-> IF w \in CutOff THEN Idle ELSE worker[w]]
  /\ via' = [t \in Threads |-> Queue!NoLease]
  /\ ender' = [j \in JobIds |-> NoEnds]
  /\ UNCHANGED what

RunNext ==
  \/ \E t \in Threads :
       \/ \E j \in JobIds, job \in Jobs : Post(t, j, job)
       \/ Register(t) \/ Update(t) \/ Put(t)
  \/ \E w \in Workers :
       \/ Claim(w)
       \/ \E t \in Threads, status \in Reports : Report(w, t, status)
       \/ Ack(w) \/ Crash(w) \/ LapseHeld(w)
  \/ \E l \in LeaseIds : LapseAbandoned(l)
  \/ \E i \in ItemIds : Drop(i)
  \/ ServerRestart

RunSpec == RunInit /\ [][RunNext]_runVars

\* The threads come to the end of their requests (each section is enabled once
\* the one before has ended), the workers run, and the leases of the dead lapse.
RunFairness ==
  /\ \A t \in Threads : []<>(pc[t] = "idle")
  /\ WF_runVars(
       \/ \E w \in Workers :
            Claim(w) \/ Ack(w) \/ \E t \in Threads, status \in Reports : Report(w, t, status)
       \/ \E l \in LeaseIds : LapseAbandoned(l))

FairRunSpec == RunSpec /\ RunFairness

-----------------------------------------------------------------------------
(* Properties.                                                             *)

Carries(i, j, reg, s) == i <= Len(what) /\ what[i] = [job |-> j, reg |-> reg, step |-> s]

\* Two workers hold one step of one registration only if the lease of one of
\* them has lapsed: neither concurrent reports nor retries hand it out twice.
StepsExclusive ==
  \A v, w \in Workers :
    /\ v # w /\ worker[v] # Idle /\ worker[w] # Idle
    /\ Work(v) = Work(w)
    => {worker[v].lease, worker[w].lease} \cap lapsed # {}

\* A message that left the store without being acked.
Dropped(i) == stage[i] = "gone" /\ \A l \in returned : owner[l].item # i

Ended(j, s) == \E x \in Terminal : Was(achieved, entry[j].reg, s, x)

\* A step that was assigned and has not ended is on the queue, or about to be
\* put there, unless the store dropped it: whoever dies, it will be retried.
WorkNotLost ==
  \A j \in JobIds :
    Registered(j) =>
      \A s \in entry[j].dispatched :
        \/ Ended(j, s)
        \/ [reg |-> entry[j].reg, step |-> s] \in AllTodo
        \/ \E i \in ItemIds : /\ Carries(i, j, entry[j].reg, s)
                              /\ i \in Queue!Present \/ Dropped(i)

\* A report of job j under lease l is late if the lease has lapsed, or the
\* assignment is of a registration that was replaced.
Late(j, l) == l \in lapsed \/ what[owner[l].item].reg < entry[j].reg

\* Thread t records its report of step s of job j, and the step has not ended
\* any more.
Reopens(t, j, s) ==
  /\ pc[t] = "update" /\ pc'[t] # "update"
  /\ request[t].id = j /\ request[t].step = s
  /\ entry[j].st.status[s] \in Terminal /\ entry'[j].st.status[s] \notin Terminal

\* A step that has ended is reopened only if one of two reports was late, the one
\* that reopens it or the one that ended it: a worker that reports in time is
\* never contradicted by another that reports in time, nor by itself.
ReopenedOnlyLate ==
  [][\A j \in JobIds :
       Registered(j) /\ entry'[j].reg = entry[j].reg =>
         \A s \in Steps(entry[j].job) :
           entry[j].st.status[s] \in Terminal /\ entry'[j].st.status[s] \notin Terminal
             => \E t \in Threads : /\ Reopens(t, j, s)
                                   /\ Late(j, via[t]) \/ Late(j, ender[j][s])]_runVars

Excused(j) ==
  \E s \in Steps(entry[j].job) :
    \/ entry[j].st.status[s] \in Terminal \ {"completed"}
    \/ Ended(j, s) /\ entry[j].st.status[s] \notin Terminal
    \/ s \notin entry[j].dispatched /\ entry[j].st.status[s] # "pending"
    \/ \E i \in ItemIds : Carries(i, j, entry[j].reg, s) /\ Dropped(i)

\* A job comes to its end though workers die and leases lapse, unless it is
\* replaced, a step fails or is reopened, or the store drops an assignment.
JobsEnd ==
  \A j \in JobIds :
    Registered(j) ~> \/ ~Registered(j)
                     \/ JobIsComplete(entry[j].job, entry[j].st)
                     \/ Excused(j)

=============================================================================
