---------------------------- MODULE JobRunProofs ----------------------------
(***************************************************************************)
(* Proofs about JobBoard, for any jobs, any number of threads and any      *)
(* number of registrations: nothing here cites RunAssumption.              *)
(*                                                                         *)
(* Then about JobRun, for any jobs without time gates, and any number of   *)
(* threads, workers, leases and faults: no two workers hold a step unless  *)
(* a lease lapsed, no assigned step is lost, and what has ended is         *)
(* reopened only if the report that reopens it, or the one that ended it,  *)
(* was late.                                                               *)
(***************************************************************************)
EXTENDS JobRun, FiniteSetTheorems, SequenceTheorems, TLAPS

-----------------------------------------------------------------------------
(* The states of a job.                                                    *)

JobStates(job, n) ==
  [status : [Steps(job) -> Statuses], completedAt : [Steps(job) -> 0..n]]

\* A new job is in one of its states.
LEMMA FreshType ==
  ASSUME NEW job, NEW n \in Nat
  PROVE  Fresh(job) \in JobStates(job, n)
BY DEF Fresh, JobStates, Statuses

\* Reporting a status leads to another.
LEMMA MarkType ==
  ASSUME NEW job, NEW n \in Nat, NEW st \in JobStates(job, n),
         NEW s \in Steps(job), NEW status \in Statuses
  PROVE  Mark(st, s, status, n) \in JobStates(job, n)
BY DEF Mark, JobStates

\* So does timing steps out.
LEMMA UpdateType ==
  ASSUME NEW job, NEW n \in Nat, NEW st \in JobStates(job, n)
  PROVE  UpdateTimeouts(job, st, n) \in JobStates(job, n)
BY DEF UpdateTimeouts, JobStates, Statuses

\* Time that passes does not leave the states of a job.
LEMMA LaterStates ==
  ASSUME NEW job, NEW n \in Nat, NEW k \in Nat, n <= k
  PROVE  JobStates(job, n) \subseteq JobStates(job, k)
<1>1. 0..n \subseteq 0..k
  OBVIOUS
<1> QED
  BY <1>1 DEF JobStates

\* A job that is not registered has no steps.
LEMMA NoEntryFacts == NoEntry.reg = 0 /\ Steps(NoEntry.job) = {}
BY DEF NoEntry, NoJob, Steps

-----------------------------------------------------------------------------
(* Types.                                                                  *)

Typed == TypeOK /\ Shaped

\* What an entry is, in the terms the proofs use.
LEMMA EntryFacts ==
  ASSUME Typed, NEW j \in JobIds
  PROVE  /\ Registered(j) =>
              /\ entry[j].job \in Jobs
              /\ entry[j].st \in JobStates(entry[j].job, clock)
              /\ entry[j].dispatched \subseteq Steps(entry[j].job)
              /\ entry[j].reg \in 1..regs
         /\ ~Registered(j) => Steps(entry[j].job) = {}
<1>1. CASE entry[j] = NoEntry
  BY <1>1, NoEntryFacts DEF Registered
<1>2. CASE entry[j] # NoEntry
  BY <1>2 DEF Typed, TypeOK, Registered, JobStates
<1> QED
  BY <1>1, <1>2

\* When the entry of one job is replaced the others stay.
LEMMA EntryKept ==
  ASSUME Typed, NEW j \in JobIds, NEW job, NEW st, NEW D, NEW reg,
         entry' = [entry EXCEPT ![j] = [job |-> job, st |-> st, dispatched |-> D, reg |-> reg]]
  PROVE  /\ entry'[j] = [job |-> job, st |-> st, dispatched |-> D, reg |-> reg]
         /\ \A i \in JobIds : i # j => entry'[i] = entry[i]
         /\ entry' = [i \in JobIds |-> [job |-> entry'[i].job, st |-> entry'[i].st,
                        dispatched |-> entry'[i].dispatched, reg |-> entry'[i].reg]]
<1> DEFINE E(i) == [job |-> entry[i].job, st |-> entry[i].st,
                    dispatched |-> entry[i].dispatched, reg |-> entry[i].reg]
           new == [job |-> job, st |-> st, dispatched |-> D, reg |-> reg]
<1>1. entry = [i \in JobIds |-> E(i)]
  BY DEF Typed, Shaped
<1>2. \A i \in JobIds : entry[i] = E(i)
  BY <1>1
<1>3. entry' = [i \in JobIds |-> IF i = j THEN new ELSE entry[i]]
  BY <1>1
<1>4. \A i \in JobIds : entry'[i] = [job |-> entry'[i].job, st |-> entry'[i].st,
                        dispatched |-> entry'[i].dispatched, reg |-> entry'[i].reg]
  BY <1>2, <1>3
<1> QED
  BY <1>3, <1>4

\* How the number of registrations under way changes when one thread moves.
LEMMA RegisteringMove ==
  ASSUME Typed, NEW t \in Threads, NEW s, pc' = [pc EXCEPT ![t] = s]
  PROVE  /\ Cardinality(Registering) \in Nat /\ Cardinality(Registering)' \in Nat
         /\ s = "register" => Cardinality(Registering)' <= Cardinality(Registering) + 1
         /\ s # "register" => Cardinality(Registering)' <= Cardinality(Registering)
         /\ s # "register" /\ pc[t] = "register" =>
              Cardinality(Registering)' = Cardinality(Registering) - 1
<1> DEFINE R == Registering
<1>1. R \in SUBSET Threads /\ R' \in SUBSET Threads
  BY DEF Registering
<1>2. IsFiniteSet(R) /\ IsFiniteSet(R')
  BY <1>1, FS_Subset, BoardAssumption
<1>3. Cardinality(R) \in Nat /\ Cardinality(R') \in Nat
  BY <1>2, FS_CardinalityType
<1>4. R' = IF s = "register" THEN R \cup {t} ELSE R \ {t}
  BY DEF Registering, Typed, TypeOK
<1>5. t \in R <=> pc[t] = "register"
  BY DEF Registering
<1>6. /\ Cardinality(R \cup {t}) = IF t \in R THEN Cardinality(R) ELSE Cardinality(R) + 1
      /\ Cardinality(R \ {t}) = IF t \in R THEN Cardinality(R) - 1 ELSE Cardinality(R)
  BY <1>2, FS_AddElement, FS_RemoveElement
<1> QED
  BY <1>3, <1>4, <1>5, <1>6

\* Initially no job is registered.
LEMMA InitTyped == Init => Typed
<1> SUFFICES ASSUME Init PROVE Typed
  OBVIOUS
<1>1. Registering = {}
  BY DEF Init, Registering
<1>2. Shaped
  BY <1>1, FS_EmptySet, BoardAssumption DEF Init, Shaped, NoEntry
<1>3. request \in [Threads -> [id : JobIds \cup {NoId}, job : Jobs \cup {NoJob},
                               step : StepIds \cup {NoStep}, status : Statuses]]
  BY DEF Init, NoRequest, Statuses
<1>4. TypeOK
  BY <1>3, BoardAssumption DEF Init, TypeOK
<1> QED
  BY <1>2, <1>4 DEF Typed

\* What is dispatched are steps of the job.
LEMMA DispatchTyped ==
  ASSUME Typed, NEW t \in Threads, pc[t] \in {"register", "update"},
         NEW j \in JobIds, NEW job \in Jobs, NEW st \in JobStates(job, clock),
         NEW D \in SUBSET Steps(job), NEW reg \in 1..regs',
         regs' \in 0..RegBound, regs <= regs',
         regs' + Cardinality(Registering)' <= RegBound,
         Dispatch(t, j, job, st, D, reg)
  PROVE  Typed'
<1> DEFINE up == UpdateTimeouts(job, st, clock)
           new == Ready(job, up, clock) \ D
           N == {[reg |-> reg, step |-> s] : s \in new}
<1>1. /\ entry' = [entry EXCEPT ![j] = [job |-> job, st |-> up,
                                        dispatched |-> D \cup new, reg |-> reg]]
      /\ todo' = [todo EXCEPT ![t] = N]
      /\ pc' = [pc EXCEPT ![t] = IF new = {} THEN "idle" ELSE "enqueue"]
      /\ request' = [request EXCEPT ![t] = IF new = {} THEN NoRequest
                                           ELSE [NoRequest EXCEPT !.id = j, !.job = job]]
      /\ achieved' = EndsOf(j, reg) \cup Achieved(reg, up)
      /\ UNCHANGED <<clock, queued>>
  BY DEF Dispatch
<1>2. clock \in Nat /\ regs \in Nat /\ regs' \in Nat /\ RegBound \in Nat
  BY BoardAssumption DEF Typed, TypeOK
<1>3. up \in JobStates(job, clock) /\ new \subseteq Steps(job)
  BY <1>2, UpdateType DEF Ready
<1>4. reg \in Regs /\ \A s \in Steps(job) : s \in StepIds
  BY <1>2 DEF Regs, StepIds
<1>5. N \subseteq Assignment
  BY <1>3, <1>4 DEF Assignment
<1>6. achieved' \subseteq [reg : Regs, step : StepIds, status : Terminal, at : 0..clock]
  <2>1. Achieved(reg, up)
          \subseteq [reg : Regs, step : StepIds, status : Terminal, at : 0..clock]
    BY <1>3, <1>4 DEF Achieved, JobStates
  <2>2. EndsOf(j, reg) \subseteq achieved
    BY DEF EndsOf
  <2> QED
    BY <1>1, <2>1, <2>2 DEF Typed, TypeOK
<1> HIDE DEF up, new, N
<1>7. \A i \in JobIds :
        LET e == entry'[i]
        IN  \/ e = NoEntry
            \/ /\ e.job \in Jobs
               /\ e.st \in [status : [Steps(e.job) -> Statuses],
                            completedAt : [Steps(e.job) -> 0..clock]]
               /\ e.dispatched \subseteq Steps(e.job)
               /\ e.reg \in 1..regs'
  <2> TAKE i \in JobIds
  <2>1. CASE i = j
    <3>1. entry'[j] = [job |-> job, st |-> up, dispatched |-> D \cup new, reg |-> reg]
      BY <1>1 DEF Typed, Shaped
    <3> QED
      BY <2>1, <3>1, <1>3 DEF JobStates
  <2>2. CASE i # j
    <3>1. entry'[i] = entry[i]
      BY <1>1, <2>2 DEF Typed, Shaped
    <3>2. 1..regs \subseteq 1..regs'
      BY <1>2
    <3> QED
      BY <3>1, <3>2 DEF Typed, TypeOK
  <2> QED
    BY <2>1, <2>2
<1>8. pc' \in [Threads -> {"idle", "register", "update", "enqueue"}]
  BY <1>1 DEF Typed, TypeOK
<1>9. request' \in [Threads -> [id : JobIds \cup {NoId}, job : Jobs \cup {NoJob},
                                step : StepIds \cup {NoStep}, status : Statuses]]
  BY <1>1 DEF Typed, TypeOK, NoRequest, Statuses
<1>10. TypeOK'
  BY <1>1, <1>5, <1>6, <1>7, <1>8, <1>9 DEF Typed, TypeOK
<1>11. entry' = [i \in JobIds |-> [job |-> entry'[i].job, st |-> entry'[i].st,
                                   dispatched |-> entry'[i].dispatched, reg |-> entry'[i].reg]]
  BY <1>1, EntryKept
<1>12. \A u \in Threads :
         /\ pc'[u] = "register" => request'[u].id \in JobIds /\ request'[u].job \in Jobs
         /\ pc'[u] = "update" => request'[u].id \in JobIds
         /\ todo'[u] # {} => pc'[u] = "enqueue"
  <2> TAKE u \in Threads
  <2>1. CASE u = t
    <3>1. new = {} => N = {}
      BY DEF N
    <3> QED
      BY <1>1, <2>1, <3>1 DEF Typed, TypeOK
  <2>2. CASE u # t
    BY <1>1, <2>2 DEF Typed, TypeOK, Shaped
  <2> QED
    BY <2>1, <2>2
<1>13. Shaped'
  BY <1>11, <1>12 DEF Shaped
<1> QED
  BY <1>10, <1>13 DEF Typed

\* A registration starts with none of its steps dispatched.
LEMMA RegisterTyped ==
  ASSUME Typed, NEW t \in Threads, JobRegister(t)
  PROVE  Typed'
<1> DEFINE r == request[t]
<1>1. /\ pc[t] = "register" /\ regs' = regs + 1
      /\ Dispatch(t, r.id, r.job, Fresh(r.job), {}, regs')
  BY DEF JobRegister
<1>2. r.id \in JobIds /\ r.job \in Jobs /\ clock \in Nat /\ regs \in Nat
  BY <1>1, BoardAssumption DEF Typed, TypeOK, Shaped
<1>3. Fresh(r.job) \in JobStates(r.job, clock)
  BY <1>2, FreshType
<1>4. regs' + Cardinality(Registering)' <= RegBound /\ regs' \in 0..RegBound
  <2>1. PICK s \in {"idle", "enqueue"} : pc' = [pc EXCEPT ![t] = s]
    BY <1>1 DEF Dispatch
  <2>2. Cardinality(Registering) \in Nat /\ Cardinality(Registering)' \in Nat
        /\ Cardinality(Registering)' = Cardinality(Registering) - 1
    BY <1>1, <2>1, RegisteringMove
  <2> QED
    <3>1. regs + Cardinality(Registering) <= RegBound /\ RegBound \in Nat
      BY BoardAssumption DEF Typed, Shaped
    <3> QED
      BY <1>1, <1>2, <2>2, <3>1
<1> QED
  BY <1>1, <1>2, <1>3, <1>4, DispatchTyped

\* A report is on a job that is registered if it has the step.
LEMMA UpdateTyped ==
  ASSUME Typed, NEW t \in Threads, StatusUpdate(t)
  PROVE  Typed'
<1> DEFINE r == request[t]
           e == entry[r.id]
<1>1. pc[t] = "update" /\ r.id \in JobIds /\ regs' = regs /\ clock \in Nat /\ regs \in Nat
      /\ r.status \in Statuses
  <2>1. pc[t] = "update" /\ regs' = regs
    BY DEF StatusUpdate
  <2>2. clock \in Nat /\ regs \in Nat
    BY BoardAssumption DEF Typed, TypeOK
  <2>3. r.id \in JobIds
    BY <2>1 DEF Typed, Shaped
  <2>4. r.status \in Statuses
    BY DEF Typed, TypeOK
  <2> QED
    BY <2>1, <2>2, <2>3, <2>4
<1>2. PICK s \in {"idle", "enqueue"} : pc' = [pc EXCEPT ![t] = s]
  BY DEF StatusUpdate, Dispatch
<1>3. regs' + Cardinality(Registering)' <= RegBound /\ regs' \in 0..RegBound
  <2>1. Cardinality(Registering) \in Nat /\ Cardinality(Registering)' \in Nat
        /\ Cardinality(Registering)' <= Cardinality(Registering)
    BY <1>2, RegisteringMove
  <2> QED
    BY <1>1, <2>1, BoardAssumption DEF Typed, TypeOK, Shaped
<1>4. CASE /\ r.step \in Steps(e.job)
           /\ Dispatch(t, r.id, e.job, Mark(e.st, r.step, r.status, clock),
                       e.dispatched, e.reg)
  <2>1. /\ e.job \in Jobs /\ e.st \in JobStates(e.job, clock)
        /\ e.dispatched \in SUBSET Steps(e.job) /\ e.reg \in 1..regs'
    BY <1>1, <1>4, EntryFacts
  <2>2. Mark(e.st, r.step, r.status, clock) \in JobStates(e.job, clock)
    BY <1>1, <1>4, <2>1, MarkType
  <2> QED
    BY <1>1, <1>3, <1>4, <2>1, <2>2, DispatchTyped
<1>5. CASE /\ pc' = [pc EXCEPT ![t] = "idle"]
           /\ request' = [request EXCEPT ![t] = NoRequest]
           /\ UNCHANGED <<clock, entry, todo, history>>
  <2>1. request' \in [Threads -> [id : JobIds \cup {NoId}, job : Jobs \cup {NoJob},
                                  step : StepIds \cup {NoStep}, status : Statuses]]
    BY <1>5 DEF Typed, TypeOK, NoRequest, Statuses
  <2>2. TypeOK'
    BY <1>1, <1>5, <2>1 DEF Typed, TypeOK, history
  <2>3. Shaped'
    BY <1>1, <1>3, <1>5 DEF Typed, TypeOK, Shaped
  <2> QED
    BY <2>2, <2>3 DEF Typed
<1> QED
  BY <1>4, <1>5 DEF StatusUpdate

\* A request is taken with what its handler needs.
LEMMA ReceiveTyped ==
  ASSUME Typed, NEW t \in Threads, NEW s \in {"register", "update"},
         NEW r \in [id : JobIds, job : Jobs \cup {NoJob},
                    step : StepIds \cup {NoStep}, status : Statuses],
         s = "register" => r.job \in Jobs /\ regs + Cardinality(Registering) < RegBound,
         Receive(t, s, r)
  PROVE  Typed'
<1>1. /\ pc[t] = "idle" /\ pc' = [pc EXCEPT ![t] = s]
      /\ request' = [request EXCEPT ![t] = r]
      /\ UNCHANGED <<clock, entry, regs, todo, queued, achieved>>
  BY DEF Receive, board, history
<1>2. TypeOK'
  <2>1. request' \in [Threads -> [id : JobIds \cup {NoId}, job : Jobs \cup {NoJob},
                                  step : StepIds \cup {NoStep}, status : Statuses]]
    BY <1>1 DEF Typed, TypeOK
  <2> QED
    BY <1>1, <2>1 DEF Typed, TypeOK
<1>3. regs' + Cardinality(Registering)' <= RegBound
  <2>1. /\ Cardinality(Registering) \in Nat /\ Cardinality(Registering)' \in Nat
        /\ s = "register" => Cardinality(Registering)' <= Cardinality(Registering) + 1
        /\ s # "register" => Cardinality(Registering)' <= Cardinality(Registering)
    BY <1>1, RegisteringMove
  <2> QED
    BY <1>1, <2>1, BoardAssumption DEF Typed, TypeOK, Shaped
<1>4. Shaped'
  BY <1>1, <1>3 DEF Typed, TypeOK, Shaped
<1> QED
  BY <1>2, <1>4 DEF Typed

\* Putting assignments on the queue.
LEMMA EnqueueTyped ==
  ASSUME Typed, NEW t \in Threads, Enqueue(t)
  PROVE  Typed'
<1>1. PICK next \in todo[t] :
        /\ queued' = queued \cup {next}
        /\ todo' = [todo EXCEPT ![t] = @ \ {next}]
        /\ \/ /\ todo[t] = {next}
              /\ pc' = [pc EXCEPT ![t] = "idle"]
              /\ request' = [request EXCEPT ![t] = NoRequest]
           \/ UNCHANGED <<pc, request>>
  BY DEF Enqueue
<1>2. pc[t] = "enqueue" /\ UNCHANGED <<clock, entry, regs, achieved>>
  BY DEF Enqueue, board
<1>3. TypeOK'
  <2>1. request' \in [Threads -> [id : JobIds \cup {NoId}, job : Jobs \cup {NoJob},
                                  step : StepIds \cup {NoStep}, status : Statuses]]
    BY <1>1 DEF Typed, TypeOK, NoRequest, Statuses
  <2>2. todo' \in [Threads -> SUBSET Assignment] /\ queued' \subseteq Assignment
    BY <1>1 DEF Typed, TypeOK
  <2>3. pc' \in [Threads -> {"idle", "register", "update", "enqueue"}]
    BY <1>1 DEF Typed, TypeOK
  <2> QED
    BY <1>2, <2>1, <2>2, <2>3 DEF Typed, TypeOK
<1>4. regs' + Cardinality(Registering)' <= RegBound
  <2>1. Registering' = Registering
    BY <1>1, <1>2 DEF Registering, Typed, TypeOK
  <2> QED
    BY <1>2, <2>1 DEF Typed, Shaped
<1>5. Shaped'
  BY <1>1, <1>2, <1>4 DEF Typed, TypeOK, Shaped
<1> QED
  BY <1>3, <1>5 DEF Typed

\* Listing the ready steps times steps out.
LEMMA QueryTyped ==
  ASSUME Typed, NEW j \in JobIds, QueryReady(j)
  PROVE  Typed'
<1> DEFINE e == entry[j]
           up == UpdateTimeouts(e.job, e.st, clock)
<1>1. /\ Registered(j) /\ entry' = [entry EXCEPT ![j].st = up]
      /\ achieved' = achieved \cup Achieved(e.reg, up)
      /\ UNCHANGED <<clock, pc, request, todo, regs, queued>>
  BY DEF QueryReady
<1>2. /\ e.job \in Jobs /\ e.st \in JobStates(e.job, clock)
      /\ e.dispatched \subseteq Steps(e.job) /\ e.reg \in 1..regs
      /\ clock \in Nat /\ regs \in 0..RegBound /\ RegBound \in Nat
  BY <1>1, EntryFacts, BoardAssumption DEF Typed, TypeOK
<1>3. up \in JobStates(e.job, clock)
  BY <1>2, UpdateType
<1>4. Achieved(e.reg, up)
        \subseteq [reg : Regs, step : StepIds, status : Terminal, at : 0..clock]
  BY <1>2, <1>3 DEF Achieved, JobStates, Regs, StepIds
<1> HIDE DEF up
<1>5. /\ entry'[j].job = e.job /\ entry'[j].st = up
      /\ entry'[j].dispatched = e.dispatched /\ entry'[j].reg = e.reg
      /\ \A i \in JobIds : i # j => entry'[i] = entry[i]
      /\ entry' = [i \in JobIds |-> [job |-> entry'[i].job, st |-> entry'[i].st,
                                     dispatched |-> entry'[i].dispatched, reg |-> entry'[i].reg]]
  <2>1. [e EXCEPT !.st = up] =
          [job |-> e.job, st |-> up, dispatched |-> e.dispatched, reg |-> e.reg]
    BY DEF Typed, Shaped
  <2>2. entry' = [entry EXCEPT ![j] = [job |-> e.job, st |-> up, dispatched |-> e.dispatched,
                                       reg |-> e.reg]]
    BY <1>1, <2>1
  <2> QED
    BY <2>2, EntryKept
<1>6. TypeOK'
  <2>1. ASSUME NEW i \in JobIds
        PROVE  LET f == entry'[i]
               IN  \/ f = NoEntry
                   \/ /\ f.job \in Jobs
                      /\ f.st \in [status : [Steps(f.job) -> Statuses],
                                   completedAt : [Steps(f.job) -> 0..clock]]
                      /\ f.dispatched \subseteq Steps(f.job)
                      /\ f.reg \in 1..regs
    <3>1. CASE i = j
      BY <1>2, <1>3, <1>5, <3>1 DEF JobStates
    <3>2. CASE i # j
      BY <1>5, <3>2 DEF Typed, TypeOK
    <3> QED
      BY <3>1, <3>2
  <2> QED
    BY <1>1, <1>4, <2>1 DEF Typed, TypeOK
<1>7. Shaped'
  BY <1>1, <1>5 DEF Typed, Shaped, Registering
<1> QED
  BY <1>6, <1>7 DEF Typed

\* Every step keeps the types.
LEMMA NextTyped == Typed /\ [Next]_vars => Typed'
<1> SUFFICES ASSUME Typed, [Next]_vars PROVE Typed'
  OBVIOUS
<1>1. ASSUME NEW t \in Threads, NEW j \in JobIds, NEW job \in Jobs, JobStart(t, j, job)
      PROVE  Typed'
  <2>1. [NoRequest EXCEPT !.id = j, !.job = job]
          \in [id : JobIds, job : Jobs \cup {NoJob}, step : StepIds \cup {NoStep},
               status : Statuses]
    BY DEF NoRequest, Statuses
  <2>2. [NoRequest EXCEPT !.id = j, !.job = job].job = job
    BY DEF NoRequest
  <2> QED
    BY <1>1, <2>1, <2>2, ReceiveTyped DEF JobStart
<1>2. ASSUME NEW t \in Threads, NEW j \in JobIds, NEW s \in StepIds, NEW status \in Reports,
             StatusStart(t, j, s, status)
      PROVE  Typed'
  <2>1. [NoRequest EXCEPT !.id = j, !.step = s, !.status = status]
          \in [id : JobIds, job : Jobs \cup {NoJob}, step : StepIds \cup {NoStep},
               status : Statuses]
    BY BoardAssumption DEF NoRequest
  <2> QED
    BY <1>2, <2>1, ReceiveTyped DEF StatusStart
<1>3. CASE Tick
  <2>1. clock' = clock + 1 /\ clock \in Nat /\ clock' \in 0..ClockBound
        /\ UNCHANGED <<entry, regs, pc, request, todo, queued, achieved>>
    BY <1>3, BoardAssumption DEF Tick, board, history, Typed, TypeOK
  <2>2. \A j \in JobIds : entry[j] = NoEntry
          \/ entry[j].st \in JobStates(entry[j].job, clock')
    BY <2>1, LaterStates DEF Typed, TypeOK, JobStates
  <2>3. 0..clock \subseteq 0..clock'
    BY <2>1
  <2>4. achieved' \subseteq [reg : Regs, step : StepIds, status : Terminal, at : 0..clock']
    BY <2>1, <2>3 DEF Typed, TypeOK
  <2>5. TypeOK'
    BY <2>1, <2>2, <2>4 DEF Typed, TypeOK, JobStates
  <2> QED
    BY <2>1, <2>5 DEF Typed, Shaped, Registering
<1>4. CASE Restart
  <2>1. /\ entry' = [j \in JobIds |-> NoEntry]
        /\ pc' = [t \in Threads |-> "idle"]
        /\ request' = [t \in Threads |-> NoRequest]
        /\ todo' = [t \in Threads |-> {}] /\ achieved' = {}
        /\ UNCHANGED <<clock, regs, queued>>
    BY <1>4 DEF Restart
  <2>2. request' \in [Threads -> [id : JobIds \cup {NoId}, job : Jobs \cup {NoJob},
                                  step : StepIds \cup {NoStep}, status : Statuses]]
    BY <2>1 DEF NoRequest, Statuses
  <2>3. TypeOK'
    BY <2>1, <2>2 DEF Typed, TypeOK
  <2>4. Registering' = {}
    BY <2>1 DEF Registering
  <2>5. Shaped'
    BY <2>1, <2>4, FS_EmptySet, BoardAssumption DEF Typed, TypeOK, Shaped, NoEntry
  <2> QED
    BY <2>3, <2>5 DEF Typed
<1>5. CASE UNCHANGED vars
  BY <1>5 DEF vars, Typed, TypeOK, Shaped, Registering
<1> QED
  BY <1>1, <1>2, <1>3, <1>4, <1>5, RegisterTyped, UpdateTyped, EnqueueTyped, QueryTyped
  DEF Next

\* Every state of the registry is well typed, and each handler has the request
\* its section works on.
THEOREM BoardTypes == Spec => [](TypeOK /\ Shaped)
<1>1. Typed /\ [Next]_vars => Typed'
  BY NextTyped
<1> QED
  BY <1>1, InitTyped, PTL DEF Spec, Typed

-----------------------------------------------------------------------------
(* The assignments.                                                        *)

AInv == Typed /\ AssignedOnce /\ DispatchedIsAssigned /\ RegsKnown

\* What is assigned, queued or not.
Assigned == queued \cup AllTodo

\* A dispatch adds to what is assigned the steps that were not, of its
\* registration: a new one, or that of the job it is for.
LEMMA DispatchAssigns ==
  ASSUME AInv, Typed', NEW t \in Threads, todo[t] = {},
         NEW j \in JobIds, NEW job, NEW st, NEW D, NEW reg,
         Dispatch(t, j, job, st, D, reg),
         \/ /\ Registered(j) /\ reg = entry[j].reg /\ D = entry[j].dispatched
            /\ regs' = regs
         \/ reg = regs' /\ regs' = regs + 1 /\ D = {}
  PROVE  AInv'
<1> DEFINE up == UpdateTimeouts(job, st, clock)
           new == Ready(job, up, clock) \ D
           N == {[reg |-> reg, step |-> s] : s \in new}
<1>1. /\ entry' = [entry EXCEPT ![j] = [job |-> job, st |-> up,
                                        dispatched |-> D \cup new, reg |-> reg]]
      /\ todo' = [todo EXCEPT ![t] = N]
      /\ UNCHANGED queued
  BY DEF Dispatch
<1> HIDE DEF up
<1>2. /\ entry'[j].dispatched = D \cup new /\ entry'[j].reg = reg
      /\ \A i \in JobIds : i # j => entry'[i] = entry[i]
  BY <1>1, EntryKept DEF AInv
<1>3. /\ todo \in [Threads -> SUBSET Assignment]
      /\ \A u \in Threads : todo'[u] = IF u = t THEN N ELSE todo[u]
      /\ regs \in Nat /\ regs' \in Nat /\ regs <= regs'
  BY <1>1, BoardAssumption DEF AInv, Typed, TypeOK
<1>4. Assigned \cap N = {}
  <2> SUFFICES ASSUME NEW a \in N, a \in Assigned PROVE FALSE
    OBVIOUS
  <2>1. a.reg = reg /\ a.step \in new /\ a = [reg |-> reg, step |-> a.step]
    OBVIOUS
  <2>2. CASE Registered(j) /\ reg = entry[j].reg /\ D = entry[j].dispatched
    <3>1. a \in {[reg |-> entry[j].reg, step |-> s] : s \in entry[j].dispatched}
      BY <2>1, <2>2 DEF AInv, DispatchedIsAssigned, Assigned
    <3>2. a.step \in D
      BY <3>1, <2>2
    <3> QED
      BY <2>1, <3>2
  <2>3. CASE reg = regs + 1
    BY <1>3, <2>1, <2>3 DEF AInv, RegsKnown, Assigned
  <2> QED
    BY <2>2, <2>3
<1> HIDE DEF N
<1>5. AllTodo' = AllTodo \cup N
  BY <1>3 DEF AllTodo
<1>6. Assigned' = Assigned \cup N
  BY <1>1, <1>5 DEF Assigned
<1>7. AssignedOnce'
  <2>1. AllTodo' \cap queued' = {}
    BY <1>1, <1>4, <1>5 DEF AInv, AssignedOnce, Assigned
  <2>2. ASSUME NEW u \in Threads, u # t PROVE todo[u] \cap N = {}
    BY <1>4, <2>2 DEF Assigned, AllTodo
  <2>3. \A u, v \in Threads : u # v => todo'[u] \cap todo'[v] = {}
    BY <1>3, <2>2 DEF AInv, AssignedOnce
  <2> QED
    BY <2>1, <2>3 DEF AssignedOnce
<1>8. \A i \in JobIds : Registered(i) => entry[i].reg \in 1..regs
  BY EntryFacts DEF AInv
<1>9. \A i \in JobIds : i # j /\ Registered(i) => entry[i].reg # reg
  BY <1>3, <1>8 DEF AInv, RegsKnown
<1>10. RegsKnown'
  <2>1. \A a \in N : a.reg = reg
    BY DEF N
  <2>2. reg <= regs'
    BY <1>3, <1>8
  <2>3. \A a \in Assigned' : a.reg <= regs'
    <3> SUFFICES ASSUME NEW a \in Assigned' PROVE a.reg <= regs'
      OBVIOUS
    <3>1. CASE a \in N
      BY <2>1, <2>2, <3>1
    <3>2. CASE a \in Assigned
      <4>1. a \in Assignment
        BY <1>3, <3>2 DEF AInv, Typed, TypeOK, Assigned, AllTodo
      <4>2. a.reg \in Nat
        BY <4>1, BoardAssumption DEF Assignment, Regs
      <4> QED
        BY <1>3, <3>2, <4>2 DEF AInv, RegsKnown, Assigned
    <3> QED
      BY <1>6, <3>1, <3>2
  <2>4. \A i, k \in JobIds : Registered(i)' /\ entry'[i].reg = entry'[k].reg => i = k
    <3> SUFFICES ASSUME NEW i \in JobIds, NEW k \in JobIds, entry'[i].reg # 0,
                        entry'[i].reg = entry'[k].reg
                 PROVE  i = k
      BY DEF Registered
    <3>1. CASE i = j
      BY <1>2, <1>9, <3>1 DEF Registered
    <3>2. CASE i # j
      BY <1>2, <1>9, <3>2 DEF Registered, AInv, RegsKnown
    <3> QED
      BY <3>1, <3>2
  <2> QED
    BY <2>3, <2>4 DEF RegsKnown, Assigned
<1>11. DispatchedIsAssigned'
  <2> SUFFICES ASSUME NEW i \in JobIds, entry'[i].reg # 0
               PROVE  {a \in Assigned' : a.reg = entry'[i].reg} =
                        {[reg |-> entry'[i].reg, step |-> s] : s \in entry'[i].dispatched}
    BY DEF DispatchedIsAssigned, Registered, Assigned
  <2>1. \A a \in N : a.reg = reg
    BY DEF N
  <2>2. CASE i # j
    <3>1. entry'[i] = entry[i] /\ Registered(i) /\ entry[i].reg # reg
      BY <1>2, <1>9, <2>2 DEF Registered
    <3>2. {a \in Assigned' : a.reg = entry[i].reg} = {a \in Assigned : a.reg = entry[i].reg}
      BY <1>6, <2>1, <3>1
    <3> QED
      BY <3>1, <3>2 DEF AInv, DispatchedIsAssigned, Assigned
  <2>3. CASE i = j
    <3>1. {a \in Assigned : a.reg = reg} = {[reg |-> reg, step |-> s] : s \in D}
      <4>1. CASE Registered(j) /\ reg = entry[j].reg /\ D = entry[j].dispatched
        BY <4>1 DEF AInv, DispatchedIsAssigned, Assigned
      <4>2. CASE reg = regs + 1 /\ D = {}
        BY <1>3, <4>2 DEF AInv, RegsKnown, Assigned
      <4> QED
        BY <4>1, <4>2
    <3>2. {a \in Assigned' : a.reg = reg} = {a \in Assigned : a.reg = reg} \cup N
      BY <1>6, <2>1
    <3>3. {[reg |-> reg, step |-> s] : s \in D \cup new} =
            {[reg |-> reg, step |-> s] : s \in D} \cup N
      BY DEF N
    <3> QED
      BY <1>2, <2>3, <3>1, <3>2, <3>3
  <2> QED
    BY <2>2, <2>3
<1> QED
  BY <1>7, <1>10, <1>11 DEF AInv

\* An assignment that is put on the queue was a thread's until then.
LEMMA EnqueueAssigns ==
  ASSUME AInv, Typed', NEW t \in Threads, Enqueue(t)
  PROVE  AInv'
<1>1. PICK next \in todo[t] : /\ queued' = queued \cup {next}
                              /\ todo' = [todo EXCEPT ![t] = @ \ {next}]
  BY DEF Enqueue
<1>2. UNCHANGED <<entry, regs>> /\ todo \in [Threads -> SUBSET Assignment]
  BY DEF Enqueue, board, AInv, Typed, TypeOK
<1>3. \A u \in Threads : todo'[u] = IF u = t THEN todo[t] \ {next} ELSE todo[u]
  BY <1>1, <1>2
<1>4. next \in AllTodo /\ next \notin queued
  BY <1>1 DEF AllTodo, AInv, AssignedOnce
<1>5. AllTodo' = AllTodo \ {next}
  BY <1>1, <1>3 DEF AllTodo, AInv, AssignedOnce
<1>6. queued' \cup AllTodo' = queued \cup AllTodo
  BY <1>1, <1>4, <1>5
<1>7. AssignedOnce'
  BY <1>1, <1>3, <1>5 DEF AInv, AssignedOnce
<1>8. DispatchedIsAssigned' /\ RegsKnown'
  BY <1>2, <1>6 DEF AInv, DispatchedIsAssigned, RegsKnown, Registered
<1> QED
  BY <1>7, <1>8 DEF AInv

\* The other steps assign nothing, and change no job's registration.
LEMMA QuietAssigns ==
  ASSUME AInv, Typed', UNCHANGED <<regs, todo, queued>>,
         \A j \in JobIds : entry'[j].dispatched = entry[j].dispatched
                           /\ entry'[j].reg = entry[j].reg
  PROVE  AInv'
<1>1. AllTodo' = AllTodo
  BY DEF AllTodo
<1> QED
  BY <1>1 DEF AInv, AssignedOnce, DispatchedIsAssigned, RegsKnown, Registered

\* Every step keeps the invariant of the assignments.
LEMMA NextAssigns == AInv /\ Typed' /\ [Next]_vars => AInv'
<1> SUFFICES ASSUME AInv, Typed', [Next]_vars PROVE AInv'
  OBVIOUS
<1>1. ASSUME NEW t \in Threads, NEW s, NEW r, Receive(t, s, r) PROVE AInv'
  BY <1>1, QuietAssigns DEF Receive, board, history
<1>2. ASSUME NEW t \in Threads, JobRegister(t) PROVE AInv'
  <2>1. todo[t] = {} /\ request[t].id \in JobIds
    BY <1>2 DEF JobRegister, AInv, Typed, Shaped
  <2> QED
    BY <1>2, <2>1, DispatchAssigns DEF JobRegister
<1>3. ASSUME NEW t \in Threads, StatusUpdate(t) PROVE AInv'
  <2> DEFINE r == request[t]
             e == entry[r.id]
  <2>1. todo[t] = {} /\ r.id \in JobIds /\ regs' = regs
    BY <1>3 DEF StatusUpdate, AInv, Typed, Shaped
  <2>2. CASE /\ r.step \in Steps(e.job)
             /\ Dispatch(t, r.id, e.job, Mark(e.st, r.step, r.status, clock),
                         e.dispatched, e.reg)
    <3>1. Registered(r.id)
      BY <2>1, <2>2, EntryFacts DEF AInv
    <3> QED
      BY <2>1, <2>2, <3>1, DispatchAssigns
  <2>3. CASE UNCHANGED <<entry, todo, history>>
    BY <2>1, <2>3, QuietAssigns DEF history
  <2> QED
    BY <1>3, <2>2, <2>3 DEF StatusUpdate
<1>4. ASSUME NEW j \in JobIds, QueryReady(j) PROVE AInv'
  <2> DEFINE e == entry[j]
  <2>1. PICK up : entry' = [entry EXCEPT ![j].st = up]
    BY <1>4 DEF QueryReady
  <2>2. [e EXCEPT !.st = up] =
          [job |-> e.job, st |-> up, dispatched |-> e.dispatched, reg |-> e.reg]
    BY DEF AInv, Typed, Shaped
  <2>3. entry' = [entry EXCEPT ![j] = [job |-> e.job, st |-> up, dispatched |-> e.dispatched,
                                       reg |-> e.reg]]
    BY <2>1, <2>2
  <2>4. \A i \in JobIds : entry'[i].dispatched = entry[i].dispatched
                          /\ entry'[i].reg = entry[i].reg
    BY <2>3, EntryKept DEF AInv
  <2> QED
    BY <1>4, <2>4, QuietAssigns DEF QueryReady
<1>5. CASE Tick \/ UNCHANGED vars
  BY <1>5, QuietAssigns DEF Tick, vars, board, history
<1>6. CASE Restart
  <2>1. /\ \A j \in JobIds : entry'[j].reg = 0
        /\ \A t \in Threads : todo'[t] = {}
        /\ UNCHANGED <<regs, queued>>
    BY <1>6 DEF Restart, history, NoEntry
  <2>2. AllTodo' = {}
    BY <2>1 DEF AllTodo
  <2> QED
    BY <2>1, <2>2 DEF AInv, AssignedOnce, DispatchedIsAssigned, RegsKnown, Registered
<1> QED
  BY <1>1, <1>2, <1>3, <1>4, <1>5, <1>6, EnqueueAssigns DEF Next, JobStart, StatusStart

\* Initially nothing is assigned.
LEMMA InitAssigns == Init => AInv
<1> SUFFICES ASSUME Init PROVE AInv
  OBVIOUS
<1>1. AllTodo = {} /\ queued = {} /\ \A t \in Threads : todo[t] = {}
  BY DEF Init, AllTodo
<1>2. \A j \in JobIds : entry[j].reg = 0
  BY DEF Init, NoEntry
<1> QED
  BY <1>1, <1>2, InitTyped
  DEF AInv, AssignedOnce, DispatchedIsAssigned, RegsKnown, Registered

\* The invariant of the assignments holds in every state.
THEOREM AssignmentsInvariant == Spec => []AInv
<1>1. AInv /\ [Next]_vars => AInv'
  BY NextTyped, NextAssigns DEF AInv
<1> QED
  BY <1>1, InitAssigns, PTL DEF Spec

\* However many reports find a step ready, and whatever is registered anew in
\* between, its assignment is put on the queue at most once.
THEOREM StepsAssignedOnce == Spec => []AssignedOnce
<1>1. AInv => AssignedOnce
  BY DEF AInv
<1> QED
  BY <1>1, AssignmentsInvariant, PTL

\* What a job believes to be dispatched was put on the queue, or some thread
\* is about to: nothing is lost between the lock and the queue.
THEOREM DispatchedStepsAssigned == Spec => []DispatchedIsAssigned
<1>1. AInv => DispatchedIsAssigned
  BY DEF AInv
<1> QED
  BY <1>1, AssignmentsInvariant, PTL

-----------------------------------------------------------------------------
(* What an assigned step waited for.                                       *)

WInv == AInv /\ EndsAchieved /\ EndsKnown

\* The ends that a state of a job records are among those of its registration,
\* and none of these is later.
Recorded(ends, job, reg, st) ==
  /\ Achieved(reg, st) \subseteq ends
  /\ \A e \in ends : e.reg = reg => e.step \in Steps(job) /\ e.at <= st.completedAt[e.step]

\* The ends that a state records are of the registration they are recorded for.
LEMMA AchievedFacts ==
  ASSUME NEW reg, NEW st, NEW e \in Achieved(reg, st)
  PROVE  /\ e.reg = reg /\ e.step \in DOMAIN st.status /\ e.status = st.status[e.step]
         /\ e.at = st.completedAt[e.step]
BY DEF Achieved

\* A step is ready when what it waits for is recorded in the job's state.
LEMMA ReadyWaited ==
  ASSUME NEW job \in Jobs, NEW now \in Nat, NEW st \in JobStates(job, now), NEW reg,
         NEW ends, \A e \in ends : e.at \in Nat, Recorded(ends, job, reg, st),
         NEW s \in Ready(job, st, now)
  PROVE  WaitOver(now, ends, job, reg, s)
<1>1. /\ s \in Steps(job) /\ now >= job.step[s].notBefore /\ ~Overrun(job, s, now)
      /\ DependenciesSatisfied(job.step[s], st, now)
      /\ BarriersPassed(job, job.step[s], st)
  BY DEF Ready
<1>2. ValidJob(job)
  BY BoardAssumption
<1>3. ASSUME NEW r \in Steps(job), st.status[r] \in Terminal
      PROVE  Was(ends, reg, r, st.status[r])
  <2> DEFINE e == [reg |-> reg, step |-> r, status |-> st.status[r],
                   at |-> st.completedAt[r]]
  <2>1. r \in DOMAIN st.status
    BY <1>3 DEF JobStates
  <2>2. e \in Achieved(reg, st)
    BY <1>3, <2>1 DEF Achieved
  <2>3. e \in ends
    BY <2>2 DEF Recorded
  <2> QED
    BY <2>3 DEF Was
<1>4. ASSUME NEW d \in job.step[s].deps
      PROVE  /\ Was(ends, reg, d.step, "completed")
             /\ \A e \in ends : e.reg = reg /\ e.step = d.step => now >= e.at + d.delay
  <2>1. /\ d.step \in Steps(job) /\ st.status[d.step] = "completed"
        /\ now >= st.completedAt[d.step] + d.delay
    BY <1>1, <1>2 DEF ValidJob, DependenciesSatisfied
  <2>2. d.delay \in Nat /\ st.completedAt[d.step] \in Nat
    BY <1>1, <1>2, <2>1 DEF ValidJob, StepSpec, JobStates
  <2>3. Was(ends, reg, d.step, "completed")
    BY <1>3, <2>1 DEF Terminal
  <2>4. ASSUME NEW e \in ends, e.reg = reg, e.step = d.step PROVE now >= e.at + d.delay
    <3>1. e.at <= st.completedAt[d.step] /\ e.at \in Nat
      BY <2>4 DEF Recorded
    <3> QED
      BY <2>1, <2>2, <3>1
  <2> QED
    BY <2>3, <2>4
<1>5. \A b \in job.step[s].wait \cap DOMAIN job.barrier :
        \A r \in job.barrier[b].requires :
          IF job.barrier[b].mode = "all_completed"
          THEN Was(ends, reg, r, "completed")
          ELSE \E x \in Terminal : Was(ends, reg, r, x)
  <2> TAKE b \in job.step[s].wait \cap DOMAIN job.barrier
  <2> TAKE r \in job.barrier[b].requires
  <2>1. r \in Steps(job) /\ job.barrier[b].mode \in Modes
    BY <1>2 DEF ValidJob
  <2>2. BarrierOpen(job.barrier[b], st)
    BY <1>1 DEF BarriersPassed
  <2>3. CASE job.barrier[b].mode = "all_completed"
    <3>1. st.status[r] = "completed"
      BY <2>2, <2>3 DEF BarrierOpen
    <3> QED
      BY <1>3, <2>1, <2>3, <3>1 DEF Terminal
  <2>4. CASE job.barrier[b].mode = "all_terminal"
    <3>1. st.status[r] \in Terminal
      BY <2>2, <2>4 DEF BarrierOpen
    <3> QED
      BY <1>3, <2>1, <2>4, <3>1
  <2> QED
    BY <2>1, <2>3, <2>4 DEF Modes
<1> QED
  BY <1>1, <1>4, <1>5 DEF WaitOver

\* A status that is reported, or a timeout, does not set back when a step ended.
LEMMA MarkLater ==
  ASSUME NEW job, NEW n \in Nat, NEW st \in JobStates(job, n), NEW s, NEW status,
         NEW r \in Steps(job)
  PROVE  Mark(st, s, status, n).completedAt[r] >= st.completedAt[r]
<1>1. st.completedAt[r] \in Nat /\ n >= st.completedAt[r]
      /\ st.completedAt \in [Steps(job) -> 0..n]
  BY DEF JobStates
<1> QED
  BY <1>1 DEF Mark

LEMMA UpdateLater ==
  ASSUME NEW job, NEW n \in Nat, NEW st \in JobStates(job, n), NEW r \in Steps(job)
  PROVE  UpdateTimeouts(job, st, n).completedAt[r] >= st.completedAt[r]
<1>1. st.completedAt[r] \in Nat /\ n >= st.completedAt[r]
  BY DEF JobStates
<1> QED
  BY <1>1 DEF UpdateTimeouts

\* A step that replaces the entry of one job, by a later one of the registration
\* it has or by the first one of a new registration, and records its ends.
LEMMA EntryRecorded ==
  ASSUME WInv, NEW j \in JobIds, NEW job, NEW st \in JobStates(job, clock), NEW reg,
         NEW kept \in SUBSET achieved, achieved' = kept \cup Achieved(reg, st),
         \A e \in achieved : e.reg # entry[j].reg => e \in kept,
         \A i \in JobIds : i # j => entry'[i] = entry[i],
         entry'[j].job = job, entry'[j].st = st, entry'[j].reg = reg,
         \/ regs' = regs + 1 /\ reg = regs'
         \/ /\ Registered(j) /\ reg = entry[j].reg /\ job = entry[j].job /\ regs' = regs
            /\ \A r \in Steps(job) : st.completedAt[r] >= entry[j].st.completedAt[r]
            /\ achieved \subseteq kept
  PROVE  Recorded(achieved', job, reg, st) /\ EndsAchieved' /\ EndsKnown'
<1>1. clock \in Nat /\ regs \in Nat /\ achieved \subseteq [reg : Regs, step : StepIds,
                                                         status : Terminal, at : 0..clock]
      /\ Regs \subseteq Nat
  BY BoardAssumption DEF WInv, AInv, Typed, TypeOK, Regs
<1>2. \A i \in JobIds : Registered(i) => /\ Recorded(achieved, entry[i].job, entry[i].reg,
                                                       entry[i].st)
                                         /\ entry[i].reg \in 1..regs
                                         /\ entry[i].st \in JobStates(entry[i].job, clock)
  BY EntryFacts DEF WInv, AInv, EndsAchieved, Recorded
<1>3. ASSUME NEW e \in achieved PROVE e.reg <= regs /\ e.reg \in Nat /\ e.at \in Nat
  <2>1. e \in [reg : Regs, step : StepIds, status : Terminal, at : 0..clock]
    BY <1>1
  <2>2. e.reg \in Regs /\ e.at \in 0..clock
    BY <2>1
  <2>3. e.reg <= regs
    BY DEF WInv, EndsKnown
  <2>4. e.reg \in Nat
    BY <2>2 DEF Regs
  <2>5. e.at \in Nat
    BY <2>2
  <2> QED
    BY <2>3, <2>4, <2>5
<1>4. \A r \in Steps(job) : st.completedAt[r] \in Nat
  BY <1>1 DEF JobStates
<1>5. ASSUME NEW e \in achieved', e.reg = reg
      PROVE  e.step \in Steps(job) /\ e.at <= st.completedAt[e.step]
  <2>1. CASE e \in Achieved(reg, st)
    <3>1. e.step \in DOMAIN st.status /\ e.at = st.completedAt[e.step]
      BY <2>1, AchievedFacts
    <3>2. e.step \in Steps(job)
      BY <3>1 DEF JobStates
    <3> QED
      BY <1>4, <3>1, <3>2
  <2>2. CASE e \in achieved
    <3>1. e.reg <= regs /\ e.reg \in Nat /\ e.at \in Nat
      BY <1>3, <2>2
    <3>2. CASE regs' = regs + 1 /\ reg = regs'
      BY <1>1, <1>5, <3>1, <3>2
    <3>3. CASE /\ Registered(j) /\ reg = entry[j].reg /\ job = entry[j].job
               /\ \A r \in Steps(job) : st.completedAt[r] >= entry[j].st.completedAt[r]
      <4>1. e.step \in Steps(job) /\ e.at <= entry[j].st.completedAt[e.step]
            /\ entry[j].st \in JobStates(job, clock)
        BY <1>2, <1>5, <2>2, <3>3 DEF Recorded
      <4>2. entry[j].st.completedAt[e.step] \in Nat /\ st.completedAt[e.step] \in Nat
            /\ st.completedAt[e.step] >= entry[j].st.completedAt[e.step]
        BY <1>1, <1>4, <3>3, <4>1 DEF JobStates
      <4> QED
        BY <3>1, <4>1, <4>2
    <3> QED
      BY <3>2, <3>3
  <2> QED
    BY <2>1, <2>2
<1>6. Recorded(achieved', job, reg, st)
  BY <1>5 DEF Recorded
<1>7. ASSUME NEW i \in JobIds, i # j, Registered(i)
      PROVE  Recorded(achieved', entry[i].job, entry[i].reg, entry[i].st)
  <2>1. entry[i].reg # entry[j].reg /\ entry[i].reg # reg
    <3>1. entry[i].reg # entry[j].reg
      BY <1>7 DEF WInv, AInv, RegsKnown
    <3> QED
      BY <1>1, <1>2, <1>7, <3>1
  <2>2. Achieved(entry[i].reg, entry[i].st) \subseteq achieved'
    <3> SUFFICES ASSUME NEW e \in Achieved(entry[i].reg, entry[i].st) PROVE e \in achieved'
      OBVIOUS
    <3>1. e.reg = entry[i].reg /\ e \in achieved
      BY <1>2, <1>7, AchievedFacts DEF Recorded
    <3> QED
      BY <2>1, <3>1
  <2>3. \A e \in achieved' : e.reg = entry[i].reg => e \in achieved
    BY <2>1, AchievedFacts
  <2> QED
    BY <1>2, <1>7, <2>2, <2>3 DEF Recorded
<1>8. EndsAchieved'
  <2> SUFFICES ASSUME NEW i \in JobIds, Registered(i)'
               PROVE  Recorded(achieved', entry'[i].job, entry'[i].reg, entry'[i].st)
    BY DEF EndsAchieved, Recorded
  <2>1. CASE i = j
    BY <1>6, <2>1
  <2>2. CASE i # j
    <3>1. Registered(i) /\ entry'[i] = entry[i]
      BY <2>2 DEF Registered
    <3> QED
      BY <1>7, <2>2, <3>1
  <2> QED
    BY <2>1, <2>2
<1>9. EndsKnown'
  <2> SUFFICES ASSUME NEW e \in achieved' PROVE e.reg <= regs'
    BY DEF EndsKnown
  <2>1. regs' \in Nat /\ regs <= regs' /\ reg <= regs'
    BY <1>1, <1>2
  <2>2. CASE e \in achieved
    BY <1>1, <1>3, <2>1, <2>2
  <2>3. CASE e \in Achieved(reg, st)
    BY <2>1, <2>3, AchievedFacts
  <2> QED
    BY <2>2, <2>3
<1> QED
  BY <1>6, <1>8, <1>9

\* What this step assigns has waited.
NewWaited == \A i \in JobIds : \A s \in NewlyDispatched(i) :
               WaitOver(clock, achieved', entry'[i].job, entry'[i].reg, s)

\* Nothing is assigned by a step that leaves the dispatched steps as they are.
LEMMA NothingNew ==
  ASSUME \A i \in JobIds : \/ entry'[i].dispatched = {}
                           \/ /\ entry'[i].dispatched = entry[i].dispatched
                              /\ entry'[i].reg = entry[i].reg
  PROVE  NewWaited
BY DEF NewWaited, NewlyDispatched

\* A dispatch assigns what is ready.
LEMMA DispatchWaits ==
  ASSUME WInv, Typed', NEW t \in Threads, NEW j \in JobIds, NEW job \in Jobs,
         NEW st \in JobStates(job, clock), NEW D, NEW reg,
         Dispatch(t, j, job, st, D, reg),
         \/ D = {} /\ regs' = regs + 1 /\ reg = regs'
         \/ /\ Registered(j) /\ job = entry[j].job /\ reg = entry[j].reg
            /\ D = entry[j].dispatched /\ regs' = regs
            /\ \A r \in Steps(job) : st.completedAt[r] >= entry[j].st.completedAt[r]
  PROVE  EndsAchieved' /\ EndsKnown' /\ NewWaited
<1> DEFINE up == UpdateTimeouts(job, st, clock)
           new == Ready(job, up, clock) \ D
           kept == EndsOf(j, reg)
<1>1. /\ entry' = [entry EXCEPT ![j] = [job |-> job, st |-> up,
                                        dispatched |-> D \cup new, reg |-> reg]]
      /\ achieved' = kept \cup Achieved(reg, up)
      /\ clock' = clock
  BY DEF Dispatch
<1>2. clock \in Nat
  BY BoardAssumption DEF WInv, AInv, Typed, TypeOK
<1>3. up \in JobStates(job, clock)
  BY <1>2, UpdateType
<1>4. ASSUME NEW r \in Steps(job)
      PROVE  /\ up.completedAt[r] >= st.completedAt[r]
             /\ up.completedAt[r] \in Nat /\ st.completedAt[r] \in Nat
  <2>1. up.completedAt[r] >= st.completedAt[r]
    BY <1>2, UpdateLater
  <2> HIDE DEF up
  <2>2. up.completedAt[r] \in Nat
    BY <1>3 DEF JobStates
  <2>3. st.completedAt[r] \in Nat
    BY DEF JobStates
  <2> QED
    BY <2>1, <2>2, <2>3
<1>5. /\ kept \in SUBSET achieved
      /\ \A e \in achieved : e.reg # entry[j].reg => e \in kept
      /\ reg = entry[j].reg => achieved \subseteq kept
  BY DEF EndsOf
<1> HIDE DEF up, kept
<1>6. /\ entry'[j] = [job |-> job, st |-> up, dispatched |-> D \cup new, reg |-> reg]
      /\ \A i \in JobIds : i # j => entry'[i] = entry[i]
  BY <1>1, EntryKept DEF WInv, AInv
<1>7. entry'[j].job = job /\ entry'[j].reg = reg /\ entry'[j].st = up
      /\ entry'[j].dispatched = D \cup new
  BY <1>6
<1>8. Registered(j) /\ job = entry[j].job /\ reg = entry[j].reg
        /\ (\A r \in Steps(job) : st.completedAt[r] >= entry[j].st.completedAt[r]) =>
          \A r \in Steps(job) : up.completedAt[r] >= entry[j].st.completedAt[r]
  <2> SUFFICES ASSUME Registered(j), job = entry[j].job, NEW r \in Steps(job),
                      st.completedAt[r] >= entry[j].st.completedAt[r]
               PROVE  up.completedAt[r] >= entry[j].st.completedAt[r]
    OBVIOUS
  <2>1. entry[j].st.completedAt[r] \in Nat
    BY <1>2, EntryFacts DEF WInv, AInv, JobStates
  <2> QED
    BY <1>4, <2>1
<1>9. Recorded(achieved', job, reg, up) /\ EndsAchieved' /\ EndsKnown'
  <2>1. CASE D = {} /\ regs' = regs + 1 /\ reg = regs'
    BY <1>1, <1>3, <1>5, <1>6, <1>7, <2>1, EntryRecorded
  <2>2. CASE /\ Registered(j) /\ job = entry[j].job /\ reg = entry[j].reg /\ regs' = regs
             /\ \A r \in Steps(job) : st.completedAt[r] >= entry[j].st.completedAt[r]
    <3>1. \A r \in Steps(job) : up.completedAt[r] >= entry[j].st.completedAt[r]
      BY <1>8, <2>2
    <3> QED
      BY <1>1, <1>3, <1>5, <1>6, <1>7, <2>2, <3>1, EntryRecorded
  <2> QED
    BY <2>1, <2>2
<1>10. \A s \in new : WaitOver(clock, achieved', job, reg, s)
  <2>1. \A e \in achieved' : e.at \in Nat
    BY <1>1, <1>2 DEF Typed, TypeOK
  <2>2. PICK ends : ends = achieved'
    OBVIOUS
  <2> SUFFICES ASSUME NEW s \in new PROVE WaitOver(clock, ends, job, reg, s)
    BY <2>2
  <2>3. s \in Ready(job, up, clock)
    OBVIOUS
  <2> HIDE DEF new
  <2> QED
    BY <1>2, <1>3, <1>9, <2>1, <2>2, <2>3, ReadyWaited
<1> HIDE DEF new
<1>11. NewlyDispatched(j) \subseteq new
  <2>1. CASE D = {}
    BY <1>7, <2>1 DEF NewlyDispatched
  <2>2. CASE reg = entry[j].reg /\ D = entry[j].dispatched
    BY <1>7, <2>2 DEF NewlyDispatched
  <2> QED
    BY <2>1, <2>2
<1>12. NewWaited
  <2> SUFFICES ASSUME NEW i \in JobIds, NEW s \in NewlyDispatched(i)
               PROVE  WaitOver(clock, achieved', entry'[i].job, entry'[i].reg, s)
    BY DEF NewWaited
  <2>1. CASE i = j
    BY <1>7, <1>10, <1>11, <2>1
  <2>2. CASE i # j
    BY <1>6, <2>2 DEF NewlyDispatched
  <2> QED
    BY <2>1, <2>2
<1> QED
  BY <1>9, <1>12

\* A step that changes no entry.
LEMMA QuietWaits ==
  ASSUME WInv, UNCHANGED <<entry, achieved, regs>>
  PROVE  EndsAchieved' /\ EndsKnown' /\ NewWaited
BY NothingNew DEF WInv, EndsAchieved, EndsKnown, Registered

\* Every step keeps the ends, and assigns only what has waited.
LEMMA NextWaits == WInv /\ Typed' /\ [Next]_vars => EndsAchieved' /\ EndsKnown' /\ NewWaited
<1> DEFINE Goal == EndsAchieved' /\ EndsKnown' /\ NewWaited
<1> SUFFICES ASSUME WInv, Typed', [Next]_vars PROVE Goal
  OBVIOUS
<1>t. Typed /\ clock \in Nat
  BY BoardAssumption DEF WInv, AInv, Typed, TypeOK
<1>1. ASSUME NEW t \in Threads, NEW s, NEW r, Receive(t, s, r) PROVE Goal
  BY <1>1, QuietWaits DEF Receive, board, history
<1>2. ASSUME NEW t \in Threads, JobRegister(t) PROVE Goal
  <2>1. pc[t] = "register"
    BY <1>2 DEF JobRegister
  <2>2. request[t].id \in JobIds /\ request[t].job \in Jobs
    BY <1>t, <2>1 DEF Typed, Shaped
  <2>3. Fresh(request[t].job) \in JobStates(request[t].job, clock)
    BY <1>t, FreshType
  <2> QED
    BY <1>2, <2>2, <2>3, DispatchWaits DEF JobRegister
<1>3. ASSUME NEW t \in Threads, StatusUpdate(t) PROVE Goal
  <2> DEFINE r == request[t]
             e == entry[r.id]
             st == Mark(e.st, r.step, r.status, clock)
  <2>1. pc[t] = "update" /\ regs' = regs
    BY <1>3 DEF StatusUpdate
  <2>2. r.id \in JobIds
    BY <1>t, <2>1 DEF Typed, Shaped
  <2>3. r.status \in Statuses
    BY <1>t DEF Typed, TypeOK
  <2>4. CASE /\ r.step \in Steps(e.job)
             /\ Dispatch(t, r.id, e.job, st, e.dispatched, e.reg)
    <3>1. Registered(r.id) /\ e.job \in Jobs /\ e.st \in JobStates(e.job, clock)
      BY <1>t, <2>2, <2>4, EntryFacts
    <3>2. st \in JobStates(e.job, clock)
      BY <1>t, <2>3, <2>4, <3>1, MarkType
    <3>3. \A x \in Steps(e.job) : st.completedAt[x] >= e.st.completedAt[x]
      BY <1>t, <3>1, MarkLater
    <3> HIDE DEF st
    <3> QED
      BY <2>1, <2>2, <2>4, <3>1, <3>2, <3>3, DispatchWaits
  <2>5. CASE UNCHANGED <<clock, entry, todo, history>>
    BY <2>1, <2>5, QuietWaits DEF history
  <2> QED
    BY <1>3, <2>4, <2>5 DEF StatusUpdate
<1>4. ASSUME NEW j \in JobIds, QueryReady(j) PROVE Goal
  <2> DEFINE e == entry[j]
             up == UpdateTimeouts(e.job, e.st, clock)
  <2>1. /\ Registered(j) /\ entry' = [entry EXCEPT ![j].st = up] /\ regs' = regs
        /\ achieved' = achieved \cup Achieved(e.reg, up) /\ clock' = clock
    BY <1>4 DEF QueryReady
  <2>2. e.st \in JobStates(e.job, clock)
    BY <1>t, <2>1, EntryFacts
  <2>3. up \in JobStates(e.job, clock)
    BY <1>t, <2>2, UpdateType
  <2>4. \A x \in Steps(e.job) : up.completedAt[x] >= e.st.completedAt[x]
    BY <1>t, <2>2, UpdateLater
  <2> HIDE DEF up
  <2>5. [e EXCEPT !.st = up] =
          [job |-> e.job, st |-> up, dispatched |-> e.dispatched, reg |-> e.reg]
    BY <1>t DEF Typed, Shaped
  <2>6. entry' = [entry EXCEPT ![j] = [job |-> e.job, st |-> up, dispatched |-> e.dispatched,
                                       reg |-> e.reg]]
    BY <2>1, <2>5
  <2>7. /\ entry'[j].job = e.job /\ entry'[j].st = up
        /\ entry'[j].dispatched = e.dispatched /\ entry'[j].reg = e.reg
        /\ \A i \in JobIds : i # j => entry'[i] = entry[i]
    BY <1>t, <2>6, EntryKept
  <2>8. EndsAchieved' /\ EndsKnown'
    BY <2>1, <2>3, <2>4, <2>7, EntryRecorded
  <2>9. NewWaited
    BY <2>7, NothingNew
  <2> QED
    BY <2>8, <2>9
<1>5. CASE Tick \/ UNCHANGED vars
  BY <1>5, QuietWaits DEF Tick, vars, board, history
<1>6. CASE Restart
  <2>1. achieved' = {} /\ \A j \in JobIds : entry'[j].reg = 0 /\ entry'[j].dispatched = {}
    BY <1>6 DEF Restart, NoEntry
  <2>2. NewWaited
    BY <2>1, NothingNew
  <2> QED
    BY <2>1, <2>2 DEF EndsAchieved, EndsKnown, Registered
<1>7. ASSUME NEW t \in Threads, Enqueue(t) PROVE Goal
  BY <1>7, QuietWaits DEF Enqueue, board
<1> QED
  BY <1>1, <1>2, <1>3, <1>4, <1>5, <1>6, <1>7 DEF Next, JobStart, StatusStart

\* Initially no step has ended.
LEMMA InitWaits == Init => WInv
BY InitAssigns DEF Init, NoEntry, WInv, EndsAchieved, EndsKnown, Registered

\* Every step keeps the ends of the jobs' steps, and what is assigned.
LEMMA WInvKept == WInv /\ [Next]_vars => WInv' /\ NewWaited
BY NextTyped, NextAssigns, NextWaits DEF WInv, AInv

\* No step is assigned before everything it waits for is over, in its own
\* registration, for any job with any gates, delays, deadlines, dependencies and
\* barriers: what its state records is the last end of each dependency.
THEOREM AssignedStepsWaited == Spec => WaitsWereOver
<1>1. WInv /\ [Next]_vars =>
        \A j \in JobIds : \A s \in NewlyDispatched(j) :
          WaitOver(clock, achieved', entry'[j].job, entry'[j].reg, s)
  BY WInvKept DEF NewWaited
<1> QED
  BY <1>1, InitWaits, WInvKept, PTL DEF Spec, WaitsWereOver

-----------------------------------------------------------------------------
(* What is ready is dispatched.                                            *)

RInv == Typed /\ ReadyIsDispatched

\* No step of a job without deadlines times out.
LEMMA TimelessKept ==
  ASSUME NEW job, NEW n \in Nat, NEW st \in JobStates(job, n), Timeless(job)
  PROVE  UpdateTimeouts(job, st, n) = st
<1>1. \A s \in Steps(job) : ~Overrun(job, s, n)
  BY DEF Timeless, Overrun
<1>2. UpdateTimeouts(job, st, n) =
        [status |-> [s \in Steps(job) |-> st.status[s]],
         completedAt |-> [s \in Steps(job) |-> st.completedAt[s]]]
  BY <1>1 DEF UpdateTimeouts
<1>3. /\ st = [status |-> st.status, completedAt |-> st.completedAt]
      /\ st.status = [s \in Steps(job) |-> st.status[s]]
      /\ st.completedAt = [s \in Steps(job) |-> st.completedAt[s]]
  BY DEF JobStates
<1> QED
  BY <1>2, <1>3

\* Time makes no step of such a job ready.
LEMMA TimelessReady ==
  ASSUME NEW job \in Jobs, NEW n \in Nat, NEW k \in Nat, n <= k,
         NEW st \in JobStates(job, n), Timeless(job)
  PROVE  Ready(job, st, k) = Ready(job, st, n)
<1>1. \A s \in Steps(job) : /\ ~Overrun(job, s, n) /\ ~Overrun(job, s, k)
                            /\ n >= job.step[s].notBefore /\ k >= job.step[s].notBefore
  BY DEF Timeless, Overrun
<1>2. ASSUME NEW s \in Steps(job)
      PROVE  DependenciesSatisfied(job.step[s], st, k)
               <=> DependenciesSatisfied(job.step[s], st, n)
  <2>1. ASSUME NEW d \in job.step[s].deps
        PROVE  /\ n >= st.completedAt[d.step] + d.delay
               /\ k >= st.completedAt[d.step] + d.delay
    <3>1. d.delay = 0 /\ d.step \in Steps(job)
      BY <1>2, <2>1, BoardAssumption DEF Timeless, ValidJob
    <3>2. st.completedAt[d.step] \in 0..n
      BY <3>1 DEF JobStates
    <3> QED
      BY <3>1, <3>2
  <2> QED
    BY <2>1 DEF DependenciesSatisfied
<1> QED
  BY <1>1, <1>2 DEF Ready

\* A step that replaces one entry, by one of which all that is ready is
\* dispatched, at the same time.
LEMMA EntryReady ==
  ASSUME RInv, Typed', clock' = clock, NEW j \in JobIds,
         \A i \in JobIds : i # j => entry'[i] = entry[i],
         Registered(j)' /\ Timeless(entry'[j].job) =>
           Ready(entry'[j].job, entry'[j].st, clock) \subseteq entry'[j].dispatched
  PROVE  RInv'
<1> SUFFICES ASSUME NEW i \in JobIds, Registered(i)', Timeless(entry'[i].job)
             PROVE  Ready(entry'[i].job, entry'[i].st, clock') \subseteq entry'[i].dispatched
  BY DEF RInv, ReadyIsDispatched
<1>1. CASE i = j
  BY <1>1
<1>2. CASE i # j
  <2>1. entry'[i] = entry[i] /\ Registered(i)
    BY <1>2 DEF Registered
  <2> QED
    BY <2>1 DEF RInv, ReadyIsDispatched
<1> QED
  BY <1>1, <1>2

\* Every dispatch takes all that is ready.
LEMMA DispatchReady ==
  ASSUME RInv, Typed', NEW t, NEW j \in JobIds, NEW job, NEW st, NEW D, NEW reg,
         Dispatch(t, j, job, st, D, reg)
  PROVE  RInv'
<1> DEFINE up == UpdateTimeouts(job, st, clock)
           new == Ready(job, up, clock) \ D
<1>1. /\ entry' = [entry EXCEPT ![j] = [job |-> job, st |-> up,
                                        dispatched |-> D \cup new, reg |-> reg]]
      /\ clock' = clock
  BY DEF Dispatch
<1>2. Ready(job, up, clock) \subseteq D \cup new
  OBVIOUS
<1> HIDE DEF up, new
<1>3. /\ entry'[j] = [job |-> job, st |-> up, dispatched |-> D \cup new, reg |-> reg]
      /\ \A i \in JobIds : i # j => entry'[i] = entry[i]
  BY <1>1, EntryKept DEF RInv
<1>4. /\ entry'[j].job = job /\ entry'[j].st = up /\ entry'[j].dispatched = D \cup new
  BY <1>3
<1> QED
  BY <1>1, <1>2, <1>3, <1>4, EntryReady

\* Neither does time make a step ready that is not dispatched.
LEMMA QuietReady ==
  ASSUME RInv, Typed', UNCHANGED entry, clock' = clock \/ clock' = clock + 1
  PROVE  RInv'
<1>1. clock \in Nat /\ clock' \in Nat /\ clock <= clock'
  BY BoardAssumption DEF RInv, Typed, TypeOK
<1> SUFFICES ASSUME NEW j \in JobIds, Registered(j), Timeless(entry[j].job)
             PROVE  Ready(entry[j].job, entry[j].st, clock') \subseteq entry[j].dispatched
  BY DEF RInv, ReadyIsDispatched, Registered
<1>2. entry[j].job \in Jobs /\ entry[j].st \in JobStates(entry[j].job, clock)
  BY EntryFacts DEF RInv
<1>3. Ready(entry[j].job, entry[j].st, clock') = Ready(entry[j].job, entry[j].st, clock)
  BY <1>1, <1>2, TimelessReady
<1> QED
  BY <1>3 DEF RInv, ReadyIsDispatched

\* Every step keeps the invariant.
LEMMA NextReady == RInv /\ Typed' /\ [Next]_vars => RInv'
<1> SUFFICES ASSUME RInv, Typed', [Next]_vars PROVE RInv'
  OBVIOUS
<1>1. ASSUME NEW t \in Threads, NEW s, NEW r, Receive(t, s, r) PROVE RInv'
  BY <1>1, QuietReady DEF Receive, board
<1>2. ASSUME NEW t \in Threads, JobRegister(t) PROVE RInv'
  <2>1. request[t].id \in JobIds
    BY <1>2 DEF JobRegister, RInv, Typed, Shaped
  <2> QED
    BY <1>2, <2>1, DispatchReady DEF JobRegister
<1>3. ASSUME NEW t \in Threads, StatusUpdate(t) PROVE RInv'
  <2>1. request[t].id \in JobIds
    BY <1>3 DEF StatusUpdate, RInv, Typed, Shaped
  <2>2. CASE UNCHANGED <<clock, entry, todo, history>>
    BY <2>2, QuietReady
  <2> QED
    BY <1>3, <2>1, <2>2, DispatchReady DEF StatusUpdate
<1>4. ASSUME NEW j \in JobIds, QueryReady(j) PROVE RInv'
  <2> DEFINE e == entry[j]
             up == UpdateTimeouts(e.job, e.st, clock)
  <2>1. Registered(j) /\ entry' = [entry EXCEPT ![j].st = up] /\ clock' = clock
    BY <1>4 DEF QueryReady
  <2>2. e.job \in Jobs /\ e.st \in JobStates(e.job, clock) /\ clock \in Nat
    BY <2>1, EntryFacts, BoardAssumption DEF RInv, Typed, TypeOK
  <2>3. Timeless(e.job) => Ready(e.job, up, clock) \subseteq e.dispatched
    BY <2>1, <2>2, TimelessKept DEF RInv, ReadyIsDispatched
  <2> HIDE DEF up
  <2>4. [e EXCEPT !.st = up] =
          [job |-> e.job, st |-> up, dispatched |-> e.dispatched, reg |-> e.reg]
    BY DEF RInv, Typed, Shaped
  <2>5. entry' = [entry EXCEPT ![j] = [job |-> e.job, st |-> up,
                                       dispatched |-> e.dispatched, reg |-> e.reg]]
    BY <2>1, <2>4
  <2>6. /\ entry'[j].job = e.job /\ entry'[j].st = up
        /\ entry'[j].dispatched = e.dispatched
        /\ \A i \in JobIds : i # j => entry'[i] = entry[i]
    BY <2>5, EntryKept DEF RInv
  <2> QED
    BY <2>1, <2>3, <2>6, EntryReady
<1>5. CASE Tick \/ UNCHANGED vars
  BY <1>5, QuietReady DEF Tick, vars, board
<1>6. CASE Restart
  <2>1. \A j \in JobIds : entry'[j].reg = 0
    BY <1>6 DEF Restart, NoEntry
  <2> QED
    BY <2>1 DEF RInv, ReadyIsDispatched, Registered
<1>7. ASSUME NEW t \in Threads, Enqueue(t) PROVE RInv'
  BY <1>7, QuietReady DEF Enqueue, board
<1> QED
  BY <1>1, <1>2, <1>3, <1>4, <1>5, <1>6, <1>7 DEF Next, JobStart, StatusStart

\* Of a job without time gates no ready step is left that nobody dispatched,
\* for any number of such jobs and of threads that report at once.
THEOREM ReadyStepsDispatched == Spec => []ReadyIsDispatched
<1>1. Init => RInv
  BY InitTyped DEF Init, NoEntry, RInv, ReadyIsDispatched, Registered
<1>2. RInv /\ [Next]_vars => RInv'
  BY NextTyped, NextReady DEF RInv
<1>3. RInv => ReadyIsDispatched
  BY DEF RInv
<1> QED
  BY <1>1, <1>2, <1>3, PTL DEF Spec

-----------------------------------------------------------------------------
(* The job run by workers that die.                                        *)

\* The queue, with what a lease and the item it was granted on say of each other.
Leased ==
  /\ Queue!TypeOK
  /\ Queue!RunningIsRecorded
  /\ returned \subseteq Queue!Granted
  /\ \A l \in Queue!Granted : stage[owner[l].item] # "absent"
  /\ \A i \in ItemIds :
       stage[i] = "leased" => lease[i] \in Queue!Granted /\ owner[lease[i]].item = i

\* A lease that has not lapsed is the last that was granted on its item.
UnlapsedIsLast ==
  \A l \in Queue!Granted \ lapsed :
    lease[owner[l].item] = l /\ stage[owner[l].item] \in {"leased", "gone"}

\* The items carry what was queued, each assignment once.
Carried ==
  /\ what \in Seq([job : JobIds, reg : Regs, step : StepIds])
  /\ Len(what) = Cardinality(queued)
  /\ queued = {[reg |-> what[i].reg, step |-> what[i].step] : i \in 1..Len(what)}
  /\ \A i, k \in 1..Len(what) :
       what[i].reg = what[k].reg /\ what[i].step = what[k].step => i = k
  /\ \A i \in ItemIds : stage[i] # "absent" <=> i <= Len(what)

\* If the job is registered the registration was one of it, up to the present.
RegOf(jobs, j, reg) ==
  /\ jobs[j].reg # 0 => reg <= jobs[j].reg
  /\ \A k \in JobIds : jobs[k].reg # 0 /\ jobs[k].reg = reg => k = j

\* An assignment names the job whose registration it is of.
JobsNamed ==
  /\ \A t \in Threads : pc[t] = "enqueue" => request[t].id \in JobIds
  /\ \A t \in Threads : \A a \in todo[t] : RegOf(entry, request[t].id, a.reg)
  /\ \A i \in 1..Len(what) : RegOf(entry, what[i].job, what[i].reg)

\* A worker is idle, or has a lease of its own that it has not returned.
Holder(w) ==
  /\ worker[w].at = "idle" => worker[w] = Idle
  /\ worker[w].at # "idle" => /\ worker[w].lease \in Queue!Granted \ returned
                              /\ owner[worker[w].lease].worker = w
  /\ worker[w].thread # NoThread => pc[worker[w].thread] \in {"update", "enqueue"}

Leaseholders == worker \in [Workers -> WorkerState] /\ \A w \in Workers : Holder(w)

\* If the job has the registration still, the step has ended.
HasEnded(jobs, ends, a) ==
  jobs[a.job].reg # 0 /\ jobs[a.job].reg = a.reg =>
    \E x \in Terminal : Was(ends, a.reg, a.step, x)

\* Whether the thread has yet to record the report of step s of job j.
Pending(t, j, s) == pc[t] = "update" /\ request[t].id = j /\ request[t].step = s

\* A worker waits for its own report, and once the end of its step was
\* recorded the step has ended.
Reporter(w) ==
  worker[w].at # "idle" =>
    /\ worker[w].thread # NoThread /\ pc[worker[w].thread] = "update" =>
         /\ Pending(worker[w].thread, Work(w).job, Work(w).step)
         /\ request[worker[w].thread].status \in Terminal <=> worker[w].at = "reported"
    /\ worker[w].at = "reported" /\ (worker[w].thread = NoThread \/ pc[worker[w].thread] # "update")
         => HasEnded(entry, achieved, Work(w))

\* What was acked has ended.
Reporting ==
  /\ \A w \in Workers : Reporter(w)
  /\ \A l \in returned : HasEnded(entry, achieved, what[owner[l].item])

\* The report that thread t is to record is of the step its lease was granted
\* on, and the worker that has the lease, if one has, waits for the thread.
Recording(t) ==
  pc[t] = "update" =>
    /\ via[t] \in Queue!Granted
    /\ what[owner[via[t]].item].job = request[t].id
    /\ what[owner[via[t]].item].step = request[t].step
    /\ \A w \in Workers :
         worker[w].at # "idle" /\ worker[w].lease = via[t] => worker[w].thread = t

\* No two reports under one lease are under way.
ReportsHeld ==
  /\ via \in [Threads -> LeaseIds \cup {Queue!NoLease}]
  /\ \A t \in Threads : Recording(t)
  /\ \A t, u \in Threads :
       pc[t] = "update" /\ pc[u] = "update" /\ via[t] = via[u] => t = u

\* Lease l was granted on step s of job j, and all there is to report under it
\* is an end.
EndedBy(j, s, l) ==
  /\ l \in Queue!Granted
  /\ what[owner[l].item].job = j /\ what[owner[l].item].step = s
  /\ \A w \in Workers :
       worker[w].at # "idle" /\ worker[w].lease = l => worker[w].at = "reported"
  /\ \A t \in Threads : pc[t] = "update" /\ via[t] = l => request[t].status \in Terminal

\* A step that has ended was ended by the last report under a lease on it.
EndsHeld ==
  /\ ender \in [JobIds -> [StepIds -> LeaseIds \cup {Queue!NoLease}]]
  /\ \A j \in JobIds :
       Registered(j) =>
         \A s \in Steps(entry[j].job) :
           entry[j].st.status[s] \in Terminal => EndedBy(j, s, ender[j][s])

RunInv ==
  /\ AInv
  /\ Leased /\ UnlapsedIsLast
  /\ Carried /\ JobsNamed
  /\ Leaseholders /\ Reporting
  /\ ReportsHeld /\ EndsHeld
  /\ faults \in 0..FaultBound

-----------------------------------------------------------------------------
(* The steps of the composition are steps of the registry and of the queue. *)

QueueProofs == INSTANCE WorkLeaseProofs WITH Items <- ItemIds, Leases <- LeaseIds

\* Every step of the queue keeps its invariant (NextLease of WorkLeaseProofs).
LEMMA QueueStep ==
  Queue!TypeOK /\ Queue!RunningIsRecorded /\ [Queue!Next]_queue
    => (Queue!TypeOK /\ Queue!RunningIsRecorded)'
BY QueueProofs!NextLease
DEF QueueProofs!LeaseInvariant, QueueProofs!TypeOK, QueueProofs!RunningIsRecorded,
    QueueProofs!Running, QueueProofs!Granted, QueueProofs!NotGranted, QueueProofs!NoItem,
    QueueProofs!NoLease, QueueProofs!Lapsed, QueueProofs!Holds, QueueProofs!Present,
    QueueProofs!Submit, QueueProofs!Grant, QueueProofs!Lapse, QueueProofs!Sweep,
    QueueProofs!Requeue, QueueProofs!Remove, QueueProofs!Next, QueueProofs!vars,
    Queue!TypeOK, Queue!RunningIsRecorded, Queue!Running, Queue!Granted, Queue!NotGranted,
    Queue!NoItem, Queue!NoLease, Queue!Lapsed, Queue!Holds, Queue!Present, Queue!Submit,
    Queue!Grant, Queue!Lapse, Queue!Sweep, Queue!Requeue, Queue!Remove, Queue!Next, queue

\* There is an item for every assignment.
LEMMA AssignmentsBounded ==
  IsFiniteSet(Assignment) /\ Cardinality(Assignment) <= RegBound * Cardinality(StepIds)
<1> DEFINE S == Regs \X StepIds
           f == [p \in S |-> [reg |-> p[1], step |-> p[2]]]
<1>1. IsFiniteSet(Regs) /\ Cardinality(Regs) = RegBound
  BY FS_Interval, BoardAssumption DEF Regs
<1>2. IsFiniteSet(S) /\ Cardinality(S) = RegBound * Cardinality(StepIds)
  BY <1>1, FS_Product, RunAssumption
<1>3. ASSUME NEW a \in Assignment PROVE \E p \in S : f[p] = a
  <2>1. <<a.reg, a.step>> \in S /\ a = [reg |-> a.reg, step |-> a.step]
    BY <1>3 DEF Assignment
  <2>2. f[<<a.reg, a.step>>] = a
    BY <2>1
  <2> QED
    BY <2>1, <2>2
<1>4. f \in [S -> Assignment]
  BY DEF Assignment
<1>5. f \in Surjection(S, Assignment)
  BY <1>3, <1>4 DEF Surjection
<1> QED
  BY <1>2, <1>5, FS_Surjection

Item == [job : JobIds, reg : Regs, step : StepIds]

\* What was granted is an item that carries an assignment.
LEMMA ItemFacts ==
  ASSUME Leased, Carried
  PROVE  /\ Len(what) \in Nat
         /\ \A i \in 1..Len(what) : what[i] \in Item
         /\ \A l \in Queue!Granted :
              /\ l \in LeaseIds /\ owner[l].worker \in Workers
              /\ owner[l].item \in ItemIds /\ owner[l].item \in 1..Len(what)
              /\ what[owner[l].item] \in Item
<1>1. Len(what) \in Nat /\ \A i \in 1..Len(what) : what[i] \in Item
  BY LenProperties, ElementOfSeq DEF Carried, Item
<1>2. ASSUME NEW l \in Queue!Granted
      PROVE  /\ l \in LeaseIds /\ owner[l].worker \in Workers
             /\ owner[l].item \in ItemIds /\ owner[l].item \in 1..Len(what)
  <2>1. l \in LeaseIds /\ owner[l] \in [item : ItemIds, worker : Workers]
    BY DEF Leased, Queue!TypeOK, Queue!Granted
  <2>2. owner[l].item <= Len(what)
    BY <2>1 DEF Leased, Carried
  <2>3. owner[l].item \in Nat \ {0}
    BY <2>1 DEF ItemIds
  <2> QED
    BY <1>1, <2>1, <2>2, <2>3
<1> QED
  BY <1>1, <1>2

\* The work of a worker is what the item of its lease carries.
LEMMA WorkFacts ==
  ASSUME Leased, Carried, Leaseholders, NEW w \in Workers, worker[w].at # "idle"
  PROVE  /\ worker[w].lease \in Queue!Granted \ returned
         /\ worker[w].lease \in LeaseIds
         /\ owner[worker[w].lease].worker = w
         /\ owner[worker[w].lease].item \in ItemIds
         /\ owner[worker[w].lease].item \in 1..Len(what)
         /\ Work(w) = what[owner[worker[w].lease].item]
         /\ Work(w).job \in JobIds /\ Work(w).step \in StepIds /\ Work(w).reg \in Regs
BY ItemFacts DEF Leaseholders, Holder, Work, Item

\* The next item carries an assignment that was not queued before.
LEMMA PutFacts ==
  ASSUME AInv, Leased, Carried, JobsNamed, NEW t \in Threads, Put(t)
  PROVE  \E a \in todo[t] :
           /\ a \in Assignment /\ a \notin queued
           /\ queued' = queued \cup {a} /\ todo' = [todo EXCEPT ![t] = @ \ {a}]
           /\ what' = Append(what, [job |-> request[t].id, reg |-> a.reg, step |-> a.step])
           /\ what' \in Seq(Item) /\ Len(what) \in Nat /\ Len(what') = Len(what) + 1
           /\ \A i \in 1..Len(what) : what'[i] = what[i]
           /\ what'[Len(what')] = [job |-> request[t].id, reg |-> a.reg, step |-> a.step]
           /\ Len(what') = Cardinality(queued')
           /\ Len(what') \in ItemIds /\ Queue!Submit(Len(what'))
<1>1. PICK a \in todo[t] : /\ queued' = queued \cup {a}
                            /\ todo' = [todo EXCEPT ![t] = @ \ {a}]
  BY DEF Put, Enqueue
<1>2. a \in Assignment /\ todo[t] \ todo'[t] = {a} /\ pc[t] = "enqueue"
      /\ todo[t] \subseteq Assignment /\ queued \subseteq Assignment
  BY <1>1 DEF AInv, Typed, TypeOK, Put, Enqueue
<1>3. a \notin queued
  BY <1>1 DEF AInv, AssignedOnce, AllTodo
<1>4. what' = Append(what, [job |-> request[t].id, reg |-> a.reg, step |-> a.step])
  BY <1>2 DEF Put
<1>5. [job |-> request[t].id, reg |-> a.reg, step |-> a.step] \in Item
  BY <1>2 DEF JobsNamed, Item, Assignment
<1>6. what \in Seq(Item)
  BY DEF Carried, Item
<1>7. /\ what' \in Seq(Item) /\ Len(what) \in Nat /\ Len(what') = Len(what) + 1
      /\ \A i \in 1..Len(what) : what'[i] = what[i]
      /\ what'[Len(what')] = [job |-> request[t].id, reg |-> a.reg, step |-> a.step]
  BY <1>4, <1>5, <1>6, AppendProperties, LenProperties
<1>8. IsFiniteSet(queued) /\ queued' \subseteq Assignment
  BY <1>1, <1>2, AssignmentsBounded, FS_Subset
<1>9. Cardinality(queued') = Cardinality(queued) + 1
  BY <1>1, <1>3, <1>8, FS_AddElement
<1>10. Cardinality(queued') <= Cardinality(Assignment)
  BY <1>8, AssignmentsBounded, FS_Subset
<1>11. /\ Cardinality(queued') \in Nat /\ Cardinality(Assignment) \in Nat
       /\ RegBound * Cardinality(StepIds) \in Nat
  <2>1. IsFiniteSet(queued') /\ IsFiniteSet(Assignment) /\ IsFiniteSet(StepIds)
    BY <1>8, AssignmentsBounded, FS_Subset, RunAssumption
  <2>2. Cardinality(queued') \in Nat /\ Cardinality(Assignment) \in Nat
        /\ Cardinality(StepIds) \in Nat
    BY <2>1, FS_CardinalityType
  <2> QED
    BY <2>2, BoardAssumption
<1>12. Len(what') = Cardinality(queued')
  BY <1>7, <1>9 DEF Carried
<1>13. Len(what') \in ItemIds
  BY <1>7, <1>10, <1>11, <1>12, AssignmentsBounded DEF ItemIds
<1> QED
  BY <1>1, <1>2, <1>3, <1>4, <1>7, <1>12, <1>13 DEF Put

\* Every step of the composition is one of the registry, or leaves it alone.
LEMMA BoardSteps == RunInv /\ [RunNext]_runVars => [Next]_vars
<1> SUFFICES ASSUME RunInv, [RunNext]_runVars PROVE [Next]_vars
  OBVIOUS
<1>1. ASSUME NEW t \in Threads, NEW j \in JobIds, NEW job \in Jobs, Post(t, j, job)
      PROVE  Next
  BY <1>1 DEF Post, Next
<1>2. ASSUME NEW t \in Threads, Register(t) \/ Update(t) \/ Put(t) PROVE Next
  BY <1>2 DEF Register, Update, Put, Next
<1>3. ASSUME NEW w \in Workers, NEW t \in Threads, NEW status \in Reports,
             Report(w, t, status)
      PROVE  [Next]_vars
  <2>1. Work(w).job \in JobIds /\ Work(w).step \in StepIds
    BY <1>3, WorkFacts DEF Report, RunInv
  <2>2. StatusStart(t, Work(w).job, Work(w).step, status) \/ UNCHANGED vars
    BY <1>3 DEF Report
  <2> QED
    BY <2>1, <2>2 DEF Next
<1>4. ASSUME NEW w \in Workers, Claim(w) \/ Ack(w) \/ Crash(w) \/ LapseHeld(w)
      PROVE  UNCHANGED vars
  BY <1>4 DEF Claim, Ack, Crash, LapseHeld
<1>5. ASSUME NEW l \in LeaseIds, LapseAbandoned(l) PROVE UNCHANGED vars
  BY <1>5 DEF LapseAbandoned
<1>6. ASSUME NEW i \in ItemIds, Drop(i) PROVE UNCHANGED vars
  BY <1>6 DEF Drop
<1>7. CASE ServerRestart
  BY <1>7 DEF ServerRestart, Next
<1>8. CASE UNCHANGED runVars
  BY <1>8 DEF runVars
<1> QED
  BY <1>1, <1>2, <1>3, <1>4, <1>5, <1>6, <1>7, <1>8 DEF RunNext

\* So every step keeps the invariant of the registry.
LEMMA BoardKept == RunInv /\ [RunNext]_runVars => AInv'
<1> SUFFICES ASSUME RunInv, [RunNext]_runVars PROVE AInv'
  OBVIOUS
<1>1. AInv /\ Typed /\ [Next]_vars
  BY BoardSteps DEF RunInv, AInv
<1>2. Typed'
  BY <1>1, NextTyped
<1> QED
  BY <1>1, <1>2, NextAssigns

\* What happens to the queue when nothing is put on it: of what WorkLease
\* lets happen, work is not requeued.
QueueMove ==
  \/ \E i \in ItemIds, l \in LeaseIds, w \in Workers : Queue!Grant(i, l, w)
  \/ \E L \in SUBSET Queue!Granted : Queue!Lapse(L)
  \/ \E R, D \in SUBSET Queue!Present : Queue!Sweep(R, D)
  \/ \E l \in Queue!Granted, w \in Workers : Queue!Remove(l, w)
  \/ UNCHANGED queue

\* Every step puts an assignment on the queue or moves what is there.
LEMMA QueueMoves ==
  RunInv /\ [RunNext]_runVars =>
    \/ \E t \in Threads : Put(t)
    \/ QueueMove /\ UNCHANGED <<what, queued>>
<1> SUFFICES ASSUME RunInv, [RunNext]_runVars, ~\E t \in Threads : Put(t)
             PROVE  QueueMove /\ UNCHANGED <<what, queued>>
  OBVIOUS
<1> DEFINE Kept == UNCHANGED <<what, queued>>
<1>1. ASSUME NEW t \in Threads, NEW j \in JobIds, NEW job \in Jobs, Post(t, j, job)
      PROVE  UNCHANGED queue /\ Kept
  BY <1>1 DEF Post, JobStart, Receive, history
<1>2. ASSUME NEW t \in Threads, Register(t) \/ Update(t) PROVE UNCHANGED queue /\ Kept
  BY <1>2 DEF Register, Update, JobRegister, StatusUpdate, Dispatch, history
<1>3. ASSUME NEW w \in Workers, Claim(w) PROVE QueueMove /\ Kept
  BY <1>3 DEF Claim, QueueMove, Claimable, vars
<1>4. ASSUME NEW w \in Workers, NEW t, NEW status, Report(w, t, status)
      PROVE  UNCHANGED queue /\ Kept
  BY <1>4 DEF Report, StatusStart, Receive, history, vars
<1>5. ASSUME NEW w \in Workers, Ack(w) PROVE QueueMove /\ Kept
  <2> DEFINE i == owner[worker[w].lease].item
  <2>1. worker[w].lease \in Queue!Granted /\ i \in ItemIds
    BY <1>5, WorkFacts DEF Ack, RunInv, IsDone
  <2>2. ASSUME Queue!Remove(worker[w].lease, w) PROVE QueueMove
    BY <2>1, <2>2 DEF QueueMove
  <2>3. ASSUME Queue!Lapsed(i), Queue!Sweep({i}, {}) PROVE QueueMove
    <3>1. {i} \in SUBSET Queue!Present /\ {} \in SUBSET Queue!Present
      BY <2>1, <2>3 DEF Queue!Present, Queue!Lapsed
    <3> QED
      BY <2>3, <3>1 DEF QueueMove
  <2>4. UNCHANGED queue => QueueMove
    BY DEF QueueMove
  <2>5. Kept
    BY <1>5 DEF Ack, vars
  <2> QED
    BY <1>5, <2>2, <2>3, <2>4, <2>5 DEF Ack
<1>6. ASSUME NEW w \in Workers, LapseHeld(w) PROVE QueueMove /\ Kept
  <2>1. worker[w].lease \in Queue!Granted
    BY <1>6, WorkFacts DEF LapseHeld, RunInv, Leaseholders, Holder
  <2> QED
    BY <1>6, <2>1 DEF LapseHeld, QueueMove, vars
<1>7. ASSUME NEW l \in LeaseIds, LapseAbandoned(l) PROVE QueueMove /\ Kept
  BY <1>7 DEF LapseAbandoned, Abandoned, QueueMove, vars
<1>8. ASSUME NEW i \in ItemIds, Drop(i) PROVE QueueMove /\ Kept
  BY <1>8 DEF Drop, QueueMove, vars
<1>9. CASE ServerRestart
  BY <1>9 DEF ServerRestart, QueueMove, Restart, history
<1>10. UNCHANGED runVars => UNCHANGED queue /\ Kept
  BY DEF runVars, vars
<1>11. ASSUME NEW w \in Workers, Crash(w) PROVE UNCHANGED queue /\ Kept
  BY <1>11 DEF Crash, vars
<1>12. UNCHANGED queue => QueueMove
  BY DEF QueueMove
<1> QED
  BY <1>1, <1>2, <1>3, <1>4, <1>5, <1>6, <1>7, <1>8, <1>9, <1>10, <1>11, <1>12
  DEF RunNext

\* So every step is one of the queue, or leaves that alone.
LEMMA QueueSteps == RunInv /\ [RunNext]_runVars => [Queue!Next]_queue
<1> SUFFICES ASSUME RunInv, [RunNext]_runVars PROVE [Queue!Next]_queue
  OBVIOUS
<1>1. ASSUME NEW t \in Threads, Put(t) PROVE Queue!Next
  <2>1. Len(what') \in ItemIds /\ Queue!Submit(Len(what'))
    BY <1>1, PutFacts DEF RunInv
  <2> QED
    BY <2>1 DEF Queue!Next
<1>2. CASE QueueMove
  BY <1>2 DEF QueueMove, Queue!Next
<1> QED
  BY <1>1, <1>2, QueueMoves

-----------------------------------------------------------------------------
(* The queue and what its items carry.                                     *)

\* Leases stay granted as they were, and what lapsed or was returned stays so.
LEMMA LeasesStay ==
  ASSUME Leased, QueueMove \/ \E i : Queue!Submit(i)
  PROVE  /\ \A l \in Queue!Granted : l \in Queue!Granted' /\ owner'[l] = owner[l]
         /\ lapsed \subseteq lapsed' /\ returned \subseteq returned'
BY DEF Leased, QueueMove, Queue!TypeOK, Queue!Granted, Queue!Submit, Queue!Grant, Queue!Lapse,
       Queue!Sweep, Queue!Remove, queue

\* A lease is granted on an item that had none, or that has one that lapsed.
LEMMA GrantKeeps ==
  ASSUME Leased, UnlapsedIsLast, NEW i \in ItemIds, NEW l \in LeaseIds, NEW w \in Workers,
         Queue!Grant(i, l, w), Queue!TypeOK', Queue!RunningIsRecorded'
  PROVE  Leased' /\ UnlapsedIsLast'
<1>1. /\ owner[l] = Queue!NotGranted /\ l \notin Queue!Granted
      /\ owner' = [owner EXCEPT ![l] = [item |-> i, worker |-> w]]
      /\ stage' = [stage EXCEPT ![i] = "leased"] /\ lease' = [lease EXCEPT ![i] = l]
      /\ returned' = returned /\ lapsed \subseteq lapsed'
      /\ stage[i] = "available" \/ Queue!Lapsed(i)
  BY DEF Queue!Grant, Queue!Granted
<1>2. owner'[l] = [item |-> i, worker |-> w] /\ \A k \in LeaseIds : k # l => owner'[k] = owner[k]
  BY <1>1 DEF Leased, Queue!TypeOK
<1>3. Queue!Granted' = Queue!Granted \cup {l}
  BY <1>1, <1>2 DEF Queue!Granted, Queue!NotGranted, Queue!NoItem, ItemIds
<1>4. /\ stage'[i] = "leased" /\ lease'[i] = l
      /\ \A k \in ItemIds : k # i => stage'[k] = stage[k] /\ lease'[k] = lease[k]
  BY <1>1 DEF Leased, Queue!TypeOK
<1>5. \A k \in Queue!Granted : k \in LeaseIds /\ k # l /\ owner[k].item \in ItemIds
  BY <1>1 DEF Leased, Queue!TypeOK, Queue!Granted
<1>6. Leased'
  <2>1. \A k \in Queue!Granted' : stage'[owner'[k].item] # "absent"
    BY <1>2, <1>3, <1>4, <1>5 DEF Leased
  <2>2. \A k \in ItemIds : stage'[k] = "leased" =>
          lease'[k] \in Queue!Granted' /\ owner'[lease'[k]].item = k
    BY <1>2, <1>3, <1>4, <1>5 DEF Leased
  <2> QED
    BY <1>1, <1>3, <2>1, <2>2 DEF Leased
<1>7. ASSUME NEW k \in Queue!Granted, k \notin lapsed' PROVE owner[k].item # i
  <2>1. lease[owner[k].item] = k /\ stage[owner[k].item] \in {"leased", "gone"}
    BY <1>1, <1>7 DEF UnlapsedIsLast
  <2> QED
    BY <1>1, <1>7, <2>1 DEF Queue!Lapsed
<1>8. UnlapsedIsLast'
  <2> SUFFICES ASSUME NEW k \in Queue!Granted', k \notin lapsed'
               PROVE  /\ lease'[owner'[k].item] = k
                      /\ stage'[owner'[k].item] \in {"leased", "gone"}
    BY DEF UnlapsedIsLast
  <2>1. CASE k = l
    BY <1>2, <1>4, <2>1
  <2>2. CASE k # l
    <3>1. k \in Queue!Granted /\ k \notin lapsed
      BY <1>1, <1>3, <2>2
    <3>2. owner'[k] = owner[k] /\ owner[k].item # i /\ owner[k].item \in ItemIds
      BY <1>2, <1>5, <1>7, <2>2, <3>1
    <3> QED
      BY <1>4, <3>1, <3>2 DEF UnlapsedIsLast
  <2> QED
    BY <2>1, <2>2
<1> QED
  BY <1>6, <1>8

\* What else happens to the queue grants nothing, and takes back only work whose
\* lease has lapsed.
LEMMA OtherMovesKeep ==
  ASSUME Leased, UnlapsedIsLast, Queue!TypeOK', Queue!RunningIsRecorded',
         UNCHANGED owner, lapsed \subseteq lapsed', returned' \subseteq Queue!Granted,
         \A i \in ItemIds :
           /\ stage[i] # "absent" => stage'[i] # "absent"
           /\ stage'[i] = "leased" => stage[i] = "leased" /\ lease'[i] = lease[i]
           /\ stage[i] \in {"leased", "gone"} /\ ~Queue!Lapsed(i) =>
                stage'[i] \in {"leased", "gone"} /\ lease'[i] = lease[i]
  PROVE  Leased' /\ UnlapsedIsLast'
<1>1. Queue!Granted' = Queue!Granted
  BY DEF Queue!Granted
<1>2. \A l \in Queue!Granted : owner[l].item \in ItemIds
  BY DEF Leased, Queue!TypeOK, Queue!Granted
<1>3. Leased'
  BY <1>1, <1>2 DEF Leased
<1>4. ASSUME NEW l \in Queue!Granted, l \notin lapsed'
      PROVE  lease'[owner[l].item] = l /\ stage'[owner[l].item] \in {"leased", "gone"}
  <2>1. lease[owner[l].item] = l /\ stage[owner[l].item] \in {"leased", "gone"}
    BY <1>4 DEF UnlapsedIsLast
  <2>2. ~Queue!Lapsed(owner[l].item)
    BY <1>4, <2>1 DEF Queue!Lapsed
  <2> QED
    BY <1>2, <2>1, <2>2
<1> QED
  BY <1>1, <1>3, <1>4 DEF UnlapsedIsLast

\* Every step keeps what leases and items say of each other.
LEMMA QueueKept == RunInv /\ [RunNext]_runVars => Leased' /\ UnlapsedIsLast'
<1> SUFFICES ASSUME RunInv, [RunNext]_runVars PROVE Leased' /\ UnlapsedIsLast'
  OBVIOUS
<1>1. Queue!TypeOK' /\ Queue!RunningIsRecorded' /\ Leased /\ UnlapsedIsLast
  BY QueueSteps, QueueStep DEF RunInv, Leased
<1>2. ASSUME NEW i \in ItemIds, Queue!Submit(i) PROVE Leased' /\ UnlapsedIsLast'
  <2>1. /\ UNCHANGED <<lease, owner, returned, lapsed>> /\ stage[i] = "absent"
        /\ stage'[i] = "available" /\ \A k \in ItemIds : k # i => stage'[k] = stage[k]
    BY <1>1, <1>2 DEF Queue!Submit, Leased, Queue!TypeOK
  <2> QED
    BY <1>1, <2>1, OtherMovesKeep DEF Leased
<1>3. ASSUME NEW t \in Threads, Put(t) PROVE Leased' /\ UnlapsedIsLast'
  BY <1>2, <1>3, PutFacts DEF RunInv
<1>4. ASSUME NEW L \in SUBSET Queue!Granted, Queue!Lapse(L) PROVE Leased' /\ UnlapsedIsLast'
  BY <1>1, <1>4, OtherMovesKeep DEF Queue!Lapse, Leased
<1>5. ASSUME NEW R, NEW D, Queue!Sweep(R, D) PROVE Leased' /\ UnlapsedIsLast'
  <2>1. /\ UNCHANGED <<owner, returned, lapsed>>
        /\ \A i \in ItemIds :
             /\ stage'[i] = IF i \in D THEN "gone" ELSE IF i \in R THEN "available" ELSE stage[i]
             /\ lease'[i] = IF i \in R THEN Queue!NoLease ELSE lease[i]
             /\ i \in R => Queue!Lapsed(i)
    BY <1>5 DEF Queue!Sweep
  <2> QED
    BY <1>1, <2>1, OtherMovesKeep DEF Leased
<1>6. ASSUME NEW l \in Queue!Granted, NEW w \in Workers, Queue!Remove(l, w)
      PROVE  Leased' /\ UnlapsedIsLast'
  <2>1. /\ UNCHANGED <<lease, owner, lapsed>> /\ returned' = returned \cup {l}
        /\ \A i \in ItemIds : stage'[i] = stage[i] \/ stage'[i] = "gone"
    BY <1>1, <1>6 DEF Queue!Remove, Leased, Queue!TypeOK
  <2> QED
    BY <1>1, <2>1, OtherMovesKeep DEF Leased
<1>7. UNCHANGED queue => Leased' /\ UnlapsedIsLast'
  BY <1>1, OtherMovesKeep DEF queue, Leased
<1> QED
  BY <1>1, <1>3, <1>4, <1>5, <1>6, <1>7, GrantKeeps, QueueMoves DEF QueueMove

\* What was granted and what items carry stays, and what lapsed or was
\* returned stays so.
Grows ==
  /\ \A l \in Queue!Granted : l \in Queue!Granted' /\ owner'[l] = owner[l]
  /\ lapsed \subseteq lapsed' /\ returned \subseteq returned'
  /\ Len(what) \in Nat /\ Len(what') \in Nat /\ Len(what) <= Len(what')
  /\ \A i \in 1..Len(what) : what'[i] = what[i]

\* So it is with every step.
LEMMA StepsGrow == RunInv /\ [RunNext]_runVars => Grows
<1> SUFFICES ASSUME RunInv, [RunNext]_runVars PROVE Grows
  OBVIOUS
<1>1. Leased /\ Len(what) \in Nat
  BY ItemFacts DEF RunInv
<1>2. ASSUME NEW t \in Threads, Put(t) PROVE Grows
  <2>1. /\ Len(what) \in Nat /\ Len(what') = Len(what) + 1
        /\ \A i \in 1..Len(what) : what'[i] = what[i]
        /\ \E i : Queue!Submit(i)
    BY <1>2, PutFacts DEF RunInv
  <2> QED
    BY <1>1, <2>1, LeasesStay DEF Grows
<1>3. CASE QueueMove /\ UNCHANGED <<what, queued>>
  BY <1>1, <1>3, LeasesStay DEF Grows
<1> QED
  BY <1>2, <1>3, QueueMoves

\* Every item goes on to carry its own assignment.
LEMMA CarriedKept == RunInv /\ [RunNext]_runVars => Carried'
<1> SUFFICES ASSUME RunInv, [RunNext]_runVars PROVE Carried'
  OBVIOUS
<1>1. Leased /\ Carried /\ Len(what) \in Nat
  BY ItemFacts DEF RunInv
<1>2. ASSUME NEW t \in Threads, Put(t) PROVE Carried'
  <2>1. PICK a \in todo[t] :
          /\ a \in Assignment /\ a \notin queued
          /\ queued' = queued \cup {a}
          /\ what' \in Seq(Item) /\ Len(what') = Len(what) + 1
          /\ \A i \in 1..Len(what) : what'[i] = what[i]
          /\ what'[Len(what')] = [job |-> request[t].id, reg |-> a.reg, step |-> a.step]
          /\ Len(what') = Cardinality(queued')
          /\ Len(what') \in ItemIds /\ Queue!Submit(Len(what'))
    BY <1>2, PutFacts DEF RunInv
  <2> DEFINE n == Len(what)
  <2>2. /\ Len(what') = n + 1 /\ 1..Len(what') = 1..n \cup {n + 1}
        /\ what'[n + 1].reg = a.reg /\ what'[n + 1].step = a.step
        /\ a = [reg |-> a.reg, step |-> a.step]
    BY <1>1, <2>1 DEF Assignment
  <2>3. queued' = {[reg |-> what'[i].reg, step |-> what'[i].step] : i \in 1..Len(what')}
    <3> DEFINE F(i) == [reg |-> what'[i].reg, step |-> what'[i].step]
    <3>1. {F(i) : i \in 1..n \cup {n + 1}} = {F(i) : i \in 1..n} \cup {a}
      <4>1. F(n + 1) = a
        BY <2>2
      <4>2. ASSUME NEW x
            PROVE  (\E i \in 1..n \cup {n + 1} : x = F(i)) <=> (\E i \in 1..n : x = F(i)) \/ x = a
        BY <4>1
      <4> HIDE DEF F
      <4> QED
        BY <4>2
    <3>2. {F(i) : i \in 1..n} = queued
      <4>1. queued = {[reg |-> what[i].reg, step |-> what[i].step] : i \in 1..n}
        BY <1>1 DEF Carried
      <4>2. ASSUME NEW x
            PROVE  (\E i \in 1..n : x = F(i))
                     <=> (\E i \in 1..n : x = [reg |-> what[i].reg, step |-> what[i].step])
        BY <2>1
      <4> HIDE DEF F
      <4> QED
        BY <4>1, <4>2
    <3> QED
      BY <2>1, <2>2, <3>1, <3>2
  <2>4. \A i \in 1..n : [reg |-> what[i].reg, step |-> what[i].step] # a
    BY <1>1, <2>1 DEF Carried
  <2>5. ASSUME NEW i \in 1..Len(what'), NEW k \in 1..Len(what'),
               what'[i].reg = what'[k].reg, what'[i].step = what'[k].step
        PROVE  i = k
    BY <1>1, <2>1, <2>2, <2>4, <2>5 DEF Carried
  <2>6. \A i \in ItemIds : stage'[i] # "absent" <=> i <= Len(what')
    <3>1. stage' = [stage EXCEPT ![n + 1] = "available"] /\ n + 1 \in ItemIds
      BY <2>1, <2>2 DEF Queue!Submit
    <3>2. \A i \in ItemIds : stage'[i] = IF i = n + 1 THEN "available" ELSE stage[i]
      BY <1>1, <3>1 DEF Leased, Queue!TypeOK
    <3>3. \A i \in ItemIds : i \in Nat
      BY DEF ItemIds
    <3>4. \A i \in ItemIds : stage[i] # "absent" <=> i <= n
      BY <1>1 DEF Carried
    <3> QED
      BY <1>1, <2>2, <3>2, <3>3, <3>4
  <2> QED
    BY <2>1, <2>3, <2>5, <2>6 DEF Carried, Item
<1>3. CASE QueueMove /\ UNCHANGED <<what, queued>>
  <2>1. \A i \in ItemIds : stage[i] = "absent" <=> stage'[i] = "absent"
    <3>1. ASSUME NEW i \in ItemIds, NEW l \in LeaseIds, NEW w \in Workers, Queue!Grant(i, l, w)
          PROVE  \A k \in ItemIds : stage[k] = "absent" <=> stage'[k] = "absent"
      <4>1. stage[i] \in {"available", "leased"} /\ stage' = [stage EXCEPT ![i] = "leased"]
        BY <3>1 DEF Queue!Grant, Queue!Lapsed
      <4> QED
        BY <1>1, <4>1 DEF Leased, Queue!TypeOK
    <3>2. ASSUME NEW R \in SUBSET Queue!Present, NEW D \in SUBSET Queue!Present, Queue!Sweep(R, D)
          PROVE  \A k \in ItemIds : stage[k] = "absent" <=> stage'[k] = "absent"
      BY <3>2 DEF Queue!Sweep, Queue!Present
    <3>3. ASSUME NEW l \in Queue!Granted, NEW w \in Workers, Queue!Remove(l, w)
          PROVE  \A k \in ItemIds : stage[k] = "absent" <=> stage'[k] = "absent"
      <4>1. stage[owner[l].item] = "leased" /\ stage' = [stage EXCEPT ![owner[l].item] = "gone"]
        BY <3>3 DEF Queue!Remove, Queue!Holds
      <4> QED
        BY <1>1, <4>1 DEF Leased, Queue!TypeOK
    <3> QED
      BY <1>3, <3>1, <3>2, <3>3 DEF QueueMove, queue, Queue!Lapse
  <2> QED
    BY <1>1, <1>3, <2>1 DEF Carried
<1> QED
  BY <1>2, <1>3, QueueMoves

-----------------------------------------------------------------------------
(* What the server's steps change, in the terms of these proofs.           *)

\* What a thread that dispatches does, of a job that no step times out of.
LEMMA DispatchFacts ==
  ASSUME Typed, NEW t \in Threads, NEW j \in JobIds, NEW job \in Jobs,
         NEW st \in JobStates(job, clock), NEW D, NEW reg,
         Dispatch(t, j, job, st, D, reg)
  PROVE  /\ entry'[j].job = job /\ entry'[j].st = st /\ entry'[j].reg = reg
         /\ \A i \in JobIds : i # j => entry'[i] = entry[i]
         /\ pc'[t] \in {"idle", "enqueue"} /\ (pc'[t] = "enqueue" => request'[t].id = j)
         /\ \A a \in todo'[t] : a.reg = reg
         /\ \A u \in Threads : u # t =>
              pc'[u] = pc[u] /\ request'[u] = request[u] /\ todo'[u] = todo[u]
         /\ achieved' = EndsOf(j, reg) \cup Achieved(reg, st)
<1> DEFINE up == UpdateTimeouts(job, st, clock)
           new == Ready(job, up, clock) \ D
<1>1. /\ entry' = [entry EXCEPT ![j] = [job |-> job, st |-> up,
                                        dispatched |-> D \cup new, reg |-> reg]]
      /\ todo' = [todo EXCEPT ![t] = {[reg |-> reg, step |-> s] : s \in new}]
      /\ pc' = [pc EXCEPT ![t] = IF new = {} THEN "idle" ELSE "enqueue"]
      /\ request' = [request EXCEPT ![t] = IF new = {} THEN NoRequest
                                           ELSE [NoRequest EXCEPT !.id = j, !.job = job]]
      /\ achieved' = EndsOf(j, reg) \cup Achieved(reg, up)
  BY DEF Dispatch
<1>2. clock \in Nat
  BY BoardAssumption DEF Typed, TypeOK
<1>3. up = st
  BY <1>2, TimelessKept, RunAssumption
<1> HIDE DEF up, new
<1>4. /\ entry'[j] = [job |-> job, st |-> up, dispatched |-> D \cup new, reg |-> reg]
      /\ \A i \in JobIds : i # j => entry'[i] = entry[i]
  BY <1>1, EntryKept
<1>5. /\ pc'[t] = (IF new = {} THEN "idle" ELSE "enqueue")
      /\ request'[t] = (IF new = {} THEN NoRequest
                        ELSE [NoRequest EXCEPT !.id = j, !.job = job])
      /\ todo'[t] = {[reg |-> reg, step |-> s] : s \in new}
      /\ \A u \in Threads : u # t =>
              pc'[u] = pc[u] /\ request'[u] = request[u] /\ todo'[u] = todo[u]
  BY <1>1 DEF Typed, TypeOK
<1>6. pc'[t] = "enqueue" => request'[t].id = j
  BY <1>5 DEF NoRequest
<1> QED
  BY <1>1, <1>3, <1>4, <1>5, <1>6

\* A registration replaces one entry, by one of which no step has ended, and
\* that has the next number.
LEMMA RegisterFacts ==
  ASSUME Typed, NEW t \in Threads, Register(t)
  PROVE  LET j == request[t].id
         IN  /\ j \in JobIds /\ pc[t] = "register" /\ regs' = regs + 1
             /\ entry'[j].reg = regs + 1
             /\ \A s \in Steps(entry'[j].job) : entry'[j].st.status[s] \notin Terminal
             /\ \A i \in JobIds : i # j => entry'[i] = entry[i]
             /\ pc'[t] \in {"idle", "enqueue"} /\ (pc'[t] = "enqueue" => request'[t].id = j)
             /\ \A a \in todo'[t] : a.reg = regs + 1
             /\ \A u \in Threads : u # t =>
                  pc'[u] = pc[u] /\ request'[u] = request[u] /\ todo'[u] = todo[u]
             /\ \A e \in achieved : e.reg # entry[j].reg => e \in achieved'
             /\ UNCHANGED <<queue, what, worker, faults, via>>
<1> DEFINE r == request[t]
<1>1. /\ pc[t] = "register" /\ regs' = regs + 1
      /\ Dispatch(t, r.id, r.job, Fresh(r.job), {}, regs')
      /\ UNCHANGED <<queue, what, worker, faults, via>>
  BY DEF Register, JobRegister
<1>2. r.id \in JobIds /\ r.job \in Jobs /\ clock \in Nat
  BY <1>1, BoardAssumption DEF Typed, TypeOK, Shaped
<1>3. Fresh(r.job) \in JobStates(r.job, clock)
  BY <1>2, FreshType
<1>4. \A s \in Steps(r.job) : Fresh(r.job).status[s] \notin Terminal
  BY DEF Fresh, Terminal
<1>5. achieved' = EndsOf(r.id, regs') \cup Achieved(regs', Fresh(r.job))
  BY <1>1, <1>2, <1>3, DispatchFacts
<1>6. \A e \in achieved : e.reg # entry[r.id].reg => e \in achieved'
  BY <1>5 DEF EndsOf
<1> QED
  BY <1>1, <1>2, <1>3, <1>4, <1>6, DispatchFacts

\* A report marks its step, if the job has it, and changes nothing else of
\* any job.
LEMMA UpdateFacts ==
  ASSUME Typed, NEW t \in Threads, Update(t)
  PROVE  LET j == request[t].id
             s == request[t].step
             x == request[t].status
         IN  /\ j \in JobIds /\ pc[t] = "update"
             /\ \A i \in JobIds : /\ entry'[i].reg = entry[i].reg
                                  /\ entry'[i].job = entry[i].job
             /\ \A i \in JobIds : i # j => entry'[i] = entry[i]
             /\ \A r \in Steps(entry[j].job) : r # s =>
                  entry'[j].st.status[r] = entry[j].st.status[r]
             /\ s \in Steps(entry[j].job) =>
                  /\ Registered(j) /\ entry'[j].st.status[s] = x
                  /\ x \in Terminal => Was(achieved', entry[j].reg, s, x)
             /\ pc'[t] \in {"idle", "enqueue"}
             /\ pc'[t] = "enqueue" => request'[t].id = j /\ s \in Steps(entry[j].job)
             /\ \A a \in todo'[t] : Registered(j) /\ a.reg = entry[j].reg
             /\ \A u \in Threads : u # t =>
                  pc'[u] = pc[u] /\ request'[u] = request[u] /\ todo'[u] = todo[u]
             /\ achieved \subseteq achieved' /\ regs' = regs
             /\ UNCHANGED <<queue, what, faults>>
<1> DEFINE j == request[t].id
           s == request[t].step
           x == request[t].status
           e == entry[j]
<1>1. /\ j \in JobIds /\ pc[t] = "update" /\ x \in Statuses /\ clock \in Nat
      /\ UNCHANGED <<queue, what, faults, regs>> /\ todo[t] = {}
  <2>1. pc[t] = "update" /\ UNCHANGED <<queue, what, faults, regs>>
    BY DEF Update, StatusUpdate
  <2>2. j \in JobIds /\ todo[t] = {}
    BY <2>1 DEF Typed, Shaped
  <2>3. x \in Statuses /\ clock \in Nat
    BY BoardAssumption DEF Typed, TypeOK
  <2> QED
    BY <2>1, <2>2, <2>3
<1>2. CASE s \in Steps(e.job) /\ Dispatch(t, j, e.job, Mark(e.st, s, x, clock),
                                         e.dispatched, e.reg)
  <2> DEFINE st == Mark(e.st, s, x, clock)
  <2>1. Registered(j) /\ e.job \in Jobs /\ e.st \in JobStates(e.job, clock)
    BY <1>1, <1>2, EntryFacts
  <2>2. st \in JobStates(e.job, clock)
    BY <1>1, <1>2, <2>1, MarkType
  <2>3. st.status[s] = x /\ \A r \in Steps(e.job) : r # s => st.status[r] = e.st.status[r]
    BY <1>2, <2>1 DEF Mark, JobStates
  <2>4. s \in DOMAIN st.status
    BY <1>2, <2>2 DEF JobStates
  <2>5. Dispatch(t, j, e.job, st, e.dispatched, e.reg)
    BY <1>2
  <2> HIDE DEF st
  <2>6. x \in Terminal => \E a \in Achieved(e.reg, st) :
                            a.reg = e.reg /\ a.step = s /\ a.status = x
    <3> DEFINE a == [reg |-> e.reg, step |-> s, status |-> st.status[s],
                     at |-> st.completedAt[s]]
    <3>1. st.status[s] \in Terminal => a \in Achieved(e.reg, st)
      BY <2>4 DEF Achieved
    <3> QED
      BY <2>3, <3>1
  <2>7. /\ entry'[j].job = e.job /\ entry'[j].st = st /\ entry'[j].reg = e.reg
        /\ \A i \in JobIds : i # j => entry'[i] = entry[i]
        /\ pc'[t] \in {"idle", "enqueue"} /\ (pc'[t] = "enqueue" => request'[t].id = j)
        /\ \A a \in todo'[t] : a.reg = e.reg
        /\ \A u \in Threads : u # t =>
             pc'[u] = pc[u] /\ request'[u] = request[u] /\ todo'[u] = todo[u]
        /\ achieved' = EndsOf(j, e.reg) \cup Achieved(e.reg, st)
    BY <1>1, <2>1, <2>2, <2>5, DispatchFacts
  <2>8. x \in Terminal => Was(achieved', e.reg, s, x)
    BY <2>6, <2>7 DEF Was
  <2>9. achieved \subseteq achieved'
    BY <2>7 DEF EndsOf
  <2> QED
    BY <1>1, <1>2, <2>1, <2>3, <2>7, <2>8, <2>9
<1>3. CASE /\ s \notin Steps(e.job)
           /\ pc' = [pc EXCEPT ![t] = "idle"]
           /\ request' = [request EXCEPT ![t] = NoRequest]
           /\ UNCHANGED <<clock, entry, todo, history>>
  <2>1. /\ pc'[t] = "idle"
        /\ \A u \in Threads : u # t => pc'[u] = pc[u] /\ request'[u] = request[u]
    BY <1>3 DEF Typed, TypeOK
  <2>2. entry' = entry /\ todo' = todo /\ achieved' = achieved
    BY <1>3 DEF history
  <2> QED
    BY <1>1, <1>3, <2>1, <2>2
<1> QED
  BY <1>2, <1>3 DEF Update, StatusUpdate

\* The server takes a request, of a job to register or a report.
LEMMA ReceiveFacts ==
  ASSUME Typed, NEW t \in Threads, NEW s, NEW r, Receive(t, s, r)
  PROVE  /\ pc[t] = "idle" /\ todo[t] = {} /\ pc'[t] = s /\ request'[t] = r
         /\ \A u \in Threads : u # t => pc'[u] = pc[u] /\ request'[u] = request[u]
         /\ entry' = entry /\ todo' = todo /\ achieved' = achieved
BY DEF Receive, board, history, Typed, TypeOK, Shaped

\* All regs are known, those of assignments and those of jobs.
LEMMA RegFacts ==
  ASSUME AInv, Leased, Carried
  PROVE  /\ regs \in Nat /\ \A j \in JobIds : entry[j].reg \in 0..regs
         /\ \A i \in 1..Len(what) : what[i].reg \in Nat /\ what[i].reg <= regs
         /\ \A t \in Threads : \A a \in todo[t] : a.reg \in Nat /\ a.reg <= regs
<1>1. regs \in Nat
  BY DEF AInv, Typed, TypeOK
<1>2. \A j \in JobIds : entry[j].reg \in 0..regs
  BY <1>1, EntryFacts DEF AInv, Registered
<1>3. ASSUME NEW i \in 1..Len(what) PROVE what[i].reg \in Nat /\ what[i].reg <= regs
  <2>1. [reg |-> what[i].reg, step |-> what[i].step] \in queued
    BY DEF Carried
  <2>2. \A a \in queued : a.reg \in Nat /\ a.reg <= regs
    BY BoardAssumption DEF AInv, RegsKnown, Typed, TypeOK, Assignment, Regs
  <2> QED
    BY <2>1, <2>2
<1>4. ASSUME NEW t \in Threads, NEW a \in todo[t] PROVE a.reg \in Nat /\ a.reg <= regs
  <2>1. a \in AllTodo /\ a \in Assignment
    BY DEF AllTodo, AInv, Typed, TypeOK
  <2> QED
    BY <2>1, BoardAssumption DEF AInv, RegsKnown, Assignment, Regs
<1> QED
  BY <1>1, <1>2, <1>3, <1>4

\* The ends of the registrations that stay, stay.
EndsStayHere ==
  \A i \in JobIds : Registered(i) /\ entry'[i].reg = entry[i].reg =>
    \A e \in achieved : e.reg = entry[i].reg => e \in achieved'

\* A step leaves the registration of a job, forgets it or makes the next one,
\* and what has ended in it stays so.
LEMMA RegSteps ==
  RunInv /\ [RunNext]_runVars =>
    EndsStayHere /\ \A j \in JobIds : entry'[j].reg \in {entry[j].reg, 0, regs + 1}
<1> DEFINE Goal == /\ EndsStayHere
                   /\ \A j \in JobIds : entry'[j].reg \in {entry[j].reg, 0, regs + 1}
<1> SUFFICES ASSUME RunInv, [RunNext]_runVars PROVE Goal
  OBVIOUS
<1>1. Typed
  BY DEF RunInv, AInv
<1>2. ASSUME NEW t \in Threads, Register(t) PROVE Goal
  <2> DEFINE j == request[t].id
  <2>1. /\ j \in JobIds /\ entry'[j].reg = regs + 1
        /\ \A i \in JobIds : i # j => entry'[i] = entry[i]
        /\ \A e \in achieved : e.reg # entry[j].reg => e \in achieved'
    BY <1>1, <1>2, RegisterFacts
  <2>2. \A i \in JobIds : Registered(i) /\ i # j => entry[i].reg # entry[j].reg
    BY <2>1 DEF RunInv, AInv, RegsKnown
  <2>3. entry[j].reg # regs + 1
    BY <2>1, RegFacts DEF RunInv
  <2>4. EndsStayHere
    BY <2>1, <2>2, <2>3 DEF EndsStayHere
  <2> QED
    BY <2>1, <2>4
<1>3. ASSUME NEW t \in Threads, Update(t) PROVE Goal
  <2>1. achieved \subseteq achieved' /\ \A i \in JobIds : entry'[i].reg = entry[i].reg
    BY <1>1, <1>3, UpdateFacts
  <2> QED
    BY <2>1 DEF EndsStayHere
<1>4. UNCHANGED <<entry, achieved>> => Goal
  BY DEF EndsStayHere
<1>5. ASSUME NEW t, NEW s, NEW r, Receive(t, s, r) PROVE UNCHANGED <<entry, achieved>>
  BY <1>5 DEF Receive, board, history
<1>6. ASSUME NEW t, Put(t) PROVE UNCHANGED <<entry, achieved>>
  BY <1>6 DEF Put, Enqueue, board
<1>7. ASSUME ServerRestart PROVE Goal
  <2>1. \A j \in JobIds : entry'[j].reg = 0
    BY <1>7 DEF ServerRestart, Restart, NoEntry
  <2> QED
    BY <2>1 DEF EndsStayHere, Registered
<1>8. UNCHANGED vars => UNCHANGED <<entry, achieved>>
  BY DEF vars
<1> HIDE DEF Goal
<1>9. ASSUME NEW t, NEW j, NEW job, Post(t, j, job) PROVE Goal
  BY <1>4, <1>5, <1>9 DEF Post, JobStart
<1>10. ASSUME NEW w, NEW t, NEW status, Report(w, t, status) PROVE Goal
  BY <1>4, <1>5, <1>8, <1>10 DEF Report, StatusStart
<1>11. ASSUME NEW w, Claim(w) \/ Ack(w) \/ Crash(w) \/ LapseHeld(w) PROVE Goal
  BY <1>4, <1>8, <1>11 DEF Claim, Ack, Crash, LapseHeld
<1>12. ASSUME NEW x, LapseAbandoned(x) \/ Drop(x) PROVE Goal
  BY <1>4, <1>8, <1>12 DEF LapseAbandoned, Drop
<1>13. Goal
  BY <1>2, <1>3, <1>4, <1>6, <1>7, <1>8, <1>9, <1>10, <1>11, <1>12 DEF RunNext, runVars
<1> QED
  BY <1>13 DEF Goal

\* Every step keeps the jobs of the assignments.
LEMMA JobsNamedKept == RunInv /\ [RunNext]_runVars => JobsNamed'
<1> SUFFICES ASSUME RunInv, [RunNext]_runVars PROVE JobsNamed'
  OBVIOUS
<1>1. /\ AInv /\ Typed /\ Leased /\ Carried /\ JobsNamed
      /\ regs \in Nat /\ \A j \in JobIds : entry[j].reg \in 0..regs
      /\ \A i \in 1..Len(what) : what[i].reg \in Nat /\ what[i].reg <= regs
      /\ \A t \in Threads : \A a \in todo[t] : a.reg \in Nat /\ a.reg <= regs
      /\ \A i \in 1..Len(what) : what[i].job \in JobIds
      /\ \A t \in Threads : todo[t] # {} => pc[t] = "enqueue"
  BY RegFacts, ItemFacts DEF RunInv, AInv, Item, Typed, Shaped
<1>2. \A t \in Threads : todo'[t] # {} => pc'[t] = "enqueue"
  BY BoardKept DEF AInv, Typed, Shaped
<1>3. ASSUME \A j \in JobIds : entry'[j].reg = entry[j].reg,
             NEW j \in JobIds, NEW reg, RegOf(entry, j, reg)
      PROVE  RegOf(entry', j, reg)
  BY <1>3 DEF RegOf
<1>4. ASSUME UNCHANGED what, \A j \in JobIds : entry'[j].reg = entry[j].reg,
             \A u \in Threads : /\ todo'[u] = todo[u]
                                /\ pc[u] = "enqueue" => request'[u].id = request[u].id
                                /\ pc'[u] = "enqueue" => pc[u] = "enqueue"
      PROVE  JobsNamed'
  BY <1>1, <1>3, <1>4 DEF JobsNamed
<1>5. ASSUME NEW t \in Threads, NEW s \in {"register", "update"}, NEW r,
             Receive(t, s, r), UNCHANGED what
      PROVE  JobsNamed'
  BY <1>1, <1>4, <1>5, ReceiveFacts
<1>6. ASSUME NEW t \in Threads, Register(t) PROVE JobsNamed'
  <2> DEFINE j == request[t].id
  <2>1. /\ j \in JobIds /\ entry'[j].reg = regs + 1
        /\ \A i \in JobIds : i # j => entry'[i] = entry[i]
        /\ pc'[t] \in {"idle", "enqueue"} /\ (pc'[t] = "enqueue" => request'[t].id = j)
        /\ \A a \in todo'[t] : a.reg = regs + 1
        /\ \A u \in Threads : u # t =>
             pc'[u] = pc[u] /\ request'[u] = request[u] /\ todo'[u] = todo[u]
        /\ what' = what
    BY <1>1, <1>6, RegisterFacts
  <2>2. ASSUME NEW i \in JobIds, NEW reg \in Nat, reg <= regs, RegOf(entry, i, reg)
        PROVE  RegOf(entry', i, reg)
    BY <1>1, <2>1, <2>2 DEF RegOf
  <2>3. RegOf(entry', j, regs + 1)
    BY <1>1, <2>1 DEF RegOf
  <2>4. \A a \in todo'[t] : RegOf(entry', request'[t].id, a.reg)
    BY <1>2, <2>1, <2>3
  <2>5. \A u \in Threads : u # t => \A a \in todo'[u] : RegOf(entry', request'[u].id, a.reg)
    BY <1>1, <2>1, <2>2 DEF JobsNamed
  <2> QED
    BY <1>1, <2>1, <2>2, <2>4, <2>5 DEF JobsNamed
<1>7. ASSUME NEW t \in Threads, Update(t) PROVE JobsNamed'
  <2> DEFINE j == request[t].id
  <2>1. /\ j \in JobIds /\ \A i \in JobIds : entry'[i].reg = entry[i].reg
        /\ pc'[t] \in {"idle", "enqueue"} /\ (pc'[t] = "enqueue" => request'[t].id = j)
        /\ \A a \in todo'[t] : Registered(j) /\ a.reg = entry[j].reg
        /\ \A u \in Threads : u # t =>
             pc'[u] = pc[u] /\ request'[u] = request[u] /\ todo'[u] = todo[u]
        /\ what' = what
    BY <1>1, <1>7, UpdateFacts
  <2>2. Registered(j) => RegOf(entry', j, entry[j].reg)
    BY <1>1, <2>1 DEF RegOf, Registered, AInv, RegsKnown
  <2>3. \A a \in todo'[t] : RegOf(entry', request'[t].id, a.reg)
    BY <1>2, <2>1, <2>2
  <2>4. \A u \in Threads : u # t => \A a \in todo'[u] : RegOf(entry', request'[u].id, a.reg)
    BY <1>1, <1>3, <2>1 DEF JobsNamed
  <2> QED
    BY <1>1, <1>3, <2>1, <2>3, <2>4 DEF JobsNamed
<1>8. ASSUME NEW t \in Threads, Put(t) PROVE JobsNamed'
  <2>1. /\ entry' = entry /\ pc[t] = "enqueue"
        /\ \/ pc' = [pc EXCEPT ![t] = "idle"] /\ request' = [request EXCEPT ![t] = NoRequest]
           \/ UNCHANGED <<pc, request>>
    BY <1>8 DEF Put, Enqueue, board
  <2>2. PICK a \in todo[t] :
          /\ todo' = [todo EXCEPT ![t] = @ \ {a}]
          /\ Len(what) \in Nat /\ Len(what') = Len(what) + 1
          /\ \A i \in 1..Len(what) : what'[i] = what[i]
          /\ what'[Len(what')] = [job |-> request[t].id, reg |-> a.reg, step |-> a.step]
    BY <1>1, <1>8, PutFacts DEF RunInv
  <2>3. /\ todo'[t] \subseteq todo[t]
        /\ pc'[t] = "enqueue" => request'[t] = request[t]
        /\ \A u \in Threads : u # t =>
             pc'[u] = pc[u] /\ request'[u] = request[u] /\ todo'[u] = todo[u]
    BY <1>1, <2>1, <2>2 DEF Typed, TypeOK
  <2>4. \A u \in Threads : \A b \in todo'[u] : RegOf(entry', request'[u].id, b.reg)
    BY <1>1, <1>2, <2>1, <2>3 DEF JobsNamed
  <2>5. \A i \in 1..Len(what) : RegOf(entry', what'[i].job, what'[i].reg)
    BY <1>1, <2>1, <2>2 DEF JobsNamed
  <2>6. RegOf(entry', what'[Len(what')].job, what'[Len(what')].reg)
    BY <1>1, <2>1, <2>2 DEF JobsNamed
  <2>7. \A u \in Threads : pc'[u] = "enqueue" => request'[u].id \in JobIds
    BY <1>1, <2>1, <2>3 DEF JobsNamed
  <2>8. \A i \in 1..Len(what') : i \in 1..Len(what) \/ i = Len(what')
    BY <2>2
  <2> QED
    BY <2>4, <2>5, <2>6, <2>7, <2>8 DEF JobsNamed
<1>9. CASE ServerRestart
  <2>1. /\ \A j \in JobIds : entry'[j].reg = 0
        /\ \A t \in Threads : pc'[t] = "idle" /\ todo'[t] = {}
        /\ what' = what
    BY <1>9 DEF ServerRestart, Restart, NoEntry
  <2> QED
    BY <1>1, <2>1 DEF JobsNamed, RegOf
<1>10. UNCHANGED <<vars, what>> => JobsNamed'
  BY <1>4 DEF vars
<1>11. ASSUME NEW t \in Threads, NEW j, NEW job, Post(t, j, job) PROVE JobsNamed'
  BY <1>5, <1>11 DEF Post, JobStart
<1>12. ASSUME NEW w, NEW t \in Threads, NEW status, Report(w, t, status) PROVE JobsNamed'
  BY <1>5, <1>10, <1>12 DEF Report, StatusStart
<1>13. ASSUME NEW w, Claim(w) \/ Ack(w) \/ Crash(w) \/ LapseHeld(w) PROVE JobsNamed'
  BY <1>10, <1>13 DEF Claim, Ack, Crash, LapseHeld
<1>14. ASSUME NEW x, LapseAbandoned(x) \/ Drop(x) PROVE JobsNamed'
  BY <1>10, <1>14 DEF LapseAbandoned, Drop
<1> QED
  BY <1>6, <1>7, <1>8, <1>9, <1>10, <1>11, <1>12, <1>13, <1>14 DEF RunNext, runVars

-----------------------------------------------------------------------------
(* The workers.                                                            *)

\* The idle worker is one of the states of a worker.
LEMMA IdleType == Idle \in WorkerState /\ Idle.at = "idle" /\ Idle.thread = NoThread
BY DEF Idle, WorkerState

\* An answer reaches those who wait for it.
LEMMA AnswerFacts ==
  ASSUME Leaseholders, NEW t \in Threads, NEW ok \in BOOLEAN, Answer(t, ok)
  PROVE  /\ worker' \in [Workers -> WorkerState]
         /\ \A w \in Workers :
              /\ worker[w].thread # t => worker'[w] = worker[w]
              /\ worker[w].thread = t /\ ok =>
                   /\ worker'[w].at = worker[w].at /\ worker'[w].lease = worker[w].lease
                   /\ worker'[w].thread = NoThread
              /\ worker[w].thread = t /\ ~ok => worker'[w] = Idle
<1>1. \A w \in Workers : [worker[w] EXCEPT !.thread = NoThread] \in WorkerState
  BY DEF Leaseholders, WorkerState
<1>2. \A w \in Workers :
        /\ [worker[w] EXCEPT !.thread = NoThread].at = worker[w].at
        /\ [worker[w] EXCEPT !.thread = NoThread].lease = worker[w].lease
        /\ [worker[w] EXCEPT !.thread = NoThread].thread = NoThread
  BY DEF Leaseholders, WorkerState
<1>3. \A w \in Workers :
        worker'[w] = IF worker[w].thread # t THEN worker[w]
                     ELSE IF ok THEN [worker[w] EXCEPT !.thread = NoThread] ELSE Idle
  BY DEF Answer
<1>4. worker' \in [Workers -> WorkerState]
  BY <1>1, IdleType DEF Answer, Leaseholders
<1> QED
  BY <1>2, <1>3, <1>4

\* A report is let in and its worker waits, or it is rejected and the worker ends.
LEMMA ReportFacts ==
  ASSUME Typed, Leaseholders, NEW w \in Workers, NEW t \in Threads, NEW status \in Reports,
         Report(w, t, status)
  PROVE  /\ worker[w].at \in {"claimed", "working"} /\ worker[w].thread = NoThread
         /\ UNCHANGED <<queue, what, faults, ender>>
         /\ \/ worker' = [worker EXCEPT ![w] = Idle] /\ UNCHANGED <<vars, via>>
            \/ /\ pc[t] = "idle" /\ pc'[t] = "update" /\ Registered(Work(w).job)
               /\ via' = [via EXCEPT ![t] = worker[w].lease]
               /\ request'[t].id = Work(w).job /\ request'[t].step = Work(w).step
               /\ request'[t].status = status
               /\ \A u \in Threads : u # t => pc'[u] = pc[u] /\ request'[u] = request[u]
               /\ entry' = entry /\ achieved' = achieved
               /\ worker' \in [Workers -> WorkerState]
               /\ worker'[w].at \in {"working", "reported"}
               /\ worker'[w].at = "reported" <=> status \in Terminal
               /\ worker'[w].lease = worker[w].lease /\ worker'[w].thread = t
               /\ \A v \in Workers : v # w => worker'[v] = worker[v]
<1>1. /\ worker[w].at \in {"claimed", "working"} /\ worker[w].thread = NoThread
      /\ UNCHANGED <<queue, what, faults, ender>>
  BY DEF Report
<1>2. CASE worker' = [worker EXCEPT ![w] = Idle] /\ UNCHANGED <<vars, via>>
  BY <1>1, <1>2
<1>3. CASE /\ StatusStart(t, Work(w).job, Work(w).step, status)
           /\ worker' = [worker EXCEPT
                 ![w].at = IF status = "running" THEN "working" ELSE "reported",
                 ![w].thread = Waits(t)]
           /\ via' = [via EXCEPT ![t] = worker[w].lease]
  <2>1. /\ pc[t] = "idle" /\ pc'[t] = "update" /\ Registered(Work(w).job)
        /\ request'[t] = [NoRequest EXCEPT !.id = Work(w).job, !.step = Work(w).step,
                                           !.status = status]
        /\ \A u \in Threads : u # t => pc'[u] = pc[u] /\ request'[u] = request[u]
        /\ entry' = entry /\ achieved' = achieved
    BY <1>3, ReceiveFacts DEF StatusStart
  <2>2. /\ request'[t].id = Work(w).job /\ request'[t].step = Work(w).step
        /\ request'[t].status = status
    BY <2>1 DEF NoRequest
  <2>3. PICK at \in {"working", "reported"} :
          at = IF status = "running" THEN "working" ELSE "reported"
    OBVIOUS
  <2>4. at = "reported" <=> status \in Terminal
    BY <2>3, RunAssumption DEF Terminal
  <2> DEFINE one == [worker EXCEPT ![w].at = at]
  <2>5. /\ one \in [Workers -> WorkerState]
        /\ one[w].at = at /\ one[w].lease = worker[w].lease
        /\ \A v \in Workers : v # w => one[v] = worker[v]
    BY DEF Leaseholders, WorkerState
  <2>6. worker' = [one EXCEPT ![w].thread = t]
    BY <1>3, <2>3 DEF Waits
  <2> HIDE DEF one
  <2>7. /\ worker' \in [Workers -> WorkerState]
        /\ worker'[w].at = one[w].at /\ worker'[w].lease = one[w].lease
        /\ worker'[w].thread = t
        /\ \A v \in Workers : v # w => worker'[v] = one[v]
    BY <2>5, <2>6 DEF WorkerState
  <2> QED
    BY <1>1, <1>3, <2>1, <2>2, <2>4, <2>5, <2>7
<1> QED
  BY <1>2, <1>3 DEF Report

\* A step after which each worker is where it was, was answered, or is idle.
LEMMA HoldersStay ==
  ASSUME Leaseholders, Grows, worker' \in [Workers -> WorkerState],
         \A w \in Workers :
           \/ worker'[w] = Idle
           \/ /\ worker'[w].at = worker[w].at /\ worker'[w].lease = worker[w].lease
              /\ worker[w].at # "idle" => worker[w].lease \notin returned'
              /\ worker[w] = Idle => worker'[w] = Idle
              /\ worker'[w].thread # NoThread => pc'[worker'[w].thread] \in {"update", "enqueue"}
  PROVE  Leaseholders'
<1> SUFFICES ASSUME NEW w \in Workers PROVE Holder(w)'
  BY DEF Leaseholders
<1>1. CASE worker'[w] = Idle
  BY <1>1, IdleType DEF Holder
<1>2. CASE /\ worker'[w].at = worker[w].at /\ worker'[w].lease = worker[w].lease
           /\ worker[w].at # "idle" => worker[w].lease \notin returned'
           /\ worker[w] = Idle => worker'[w] = Idle
           /\ worker'[w].thread # NoThread => pc'[worker'[w].thread] \in {"update", "enqueue"}
  BY <1>2 DEF Leaseholders, Holder, Grows
<1> QED
  BY <1>1, <1>2

\* Every step keeps the workers and their leases.
LEMMA LeaseholdersKept == RunInv /\ [RunNext]_runVars => Leaseholders'
<1> SUFFICES ASSUME RunInv, [RunNext]_runVars PROVE Leaseholders'
  OBVIOUS
<1>1. /\ Typed /\ Leased /\ Carried /\ Leaseholders /\ Grows
      /\ \A w \in Workers :
           /\ worker[w] \in WorkerState
           /\ worker[w].at # "idle" =>
                worker[w].lease \in Queue!Granted \ returned /\ owner[worker[w].lease].worker = w
           /\ worker[w].thread # NoThread => /\ worker[w].thread \in Threads
                                             /\ pc[worker[w].thread] \in {"update", "enqueue"}
  BY StepsGrow DEF RunInv, AInv, Leaseholders, Holder, WorkerState
<1>2. ASSUME UNCHANGED <<worker, returned>>,
             \A t \in Threads : pc[t] \in {"update", "enqueue"} => pc'[t] \in {"update", "enqueue"}
      PROVE  Leaseholders'
  BY <1>1, <1>2, HoldersStay DEF Leaseholders
<1>3. ASSUME NEW t \in Threads, NEW j \in JobIds, NEW job \in Jobs, Post(t, j, job)
      PROVE  Leaseholders'
  <2>1. Receive(t, "register", [NoRequest EXCEPT !.id = j, !.job = job])
        /\ UNCHANGED <<worker, returned>>
    BY <1>3 DEF Post, JobStart, queue
  <2>2. pc[t] = "idle" /\ \A u \in Threads : u # t => pc'[u] = pc[u]
    BY <1>1, <2>1, ReceiveFacts
  <2> QED
    BY <1>2, <2>1, <2>2
<1>4. ASSUME NEW t \in Threads, Register(t) PROVE Leaseholders'
  <2>1. pc[t] = "register" /\ \A u \in Threads : u # t => pc'[u] = pc[u]
    BY <1>1, <1>4, RegisterFacts
  <2>2. UNCHANGED <<worker, returned>>
    BY <1>4 DEF Register, queue
  <2> QED
    BY <1>2, <2>1, <2>2
<1>5. ASSUME NEW t \in Threads, pc'[t] \in {"idle", "enqueue"}, UNCHANGED returned,
             \A u \in Threads : u # t => pc'[u] = pc[u],
             \/ pc'[t] = "idle" /\ \E ok \in BOOLEAN : Answer(t, ok)
             \/ pc'[t] = "enqueue" /\ UNCHANGED worker
      PROVE  Leaseholders'
  <2>1. CASE UNCHANGED worker /\ pc'[t] = "enqueue"
    BY <1>2, <1>5, <2>1
  <2>2. ASSUME NEW ok \in BOOLEAN, Answer(t, ok) PROVE Leaseholders'
    <3>1. /\ worker' \in [Workers -> WorkerState]
          /\ \A w \in Workers :
               /\ worker[w].thread # t => worker'[w] = worker[w]
               /\ worker[w].thread = t /\ ok =>
                    /\ worker'[w].at = worker[w].at /\ worker'[w].lease = worker[w].lease
                    /\ worker'[w].thread = NoThread
               /\ worker[w].thread = t /\ ~ok => worker'[w] = Idle
      BY <1>1, <2>2, AnswerFacts
    <3>2. \A w \in Workers : worker[w] = Idle => worker[w].thread # t
      BY IdleType, RunAssumption
    <3>3. \A w \in Workers :
           \/ worker'[w] = Idle
           \/ /\ worker'[w].at = worker[w].at /\ worker'[w].lease = worker[w].lease
              /\ worker[w].at # "idle" => worker[w].lease \notin returned'
              /\ worker[w] = Idle => worker'[w] = Idle
              /\ worker'[w].thread # NoThread => pc'[worker'[w].thread] \in {"update", "enqueue"}
      BY <1>1, <1>5, <3>1, <3>2
    <3> QED
      BY <1>1, <3>1, <3>3, HoldersStay
  <2> QED
    BY <1>5, <2>1, <2>2
<1>6. ASSUME NEW t \in Threads, Update(t) PROVE Leaseholders'
  <2>1. pc'[t] \in {"idle", "enqueue"} /\ \A u \in Threads : u # t => pc'[u] = pc[u]
    BY <1>1, <1>6, UpdateFacts
  <2>2. UNCHANGED returned
    BY <1>6 DEF Update, queue
  <2>3. (request[t].step \in Steps(entry[request[t].id].job)) \in BOOLEAN
    OBVIOUS
  <2>4. \/ pc'[t] = "idle" /\ \E ok \in BOOLEAN : Answer(t, ok)
        \/ pc'[t] = "enqueue" /\ UNCHANGED worker
    BY <1>6, <2>3 DEF Update
  <2> QED
    BY <1>5, <2>1, <2>2, <2>4
<1>7. ASSUME NEW t \in Threads, Put(t) PROVE Leaseholders'
  <2>1. \A u \in Threads : u # t => pc'[u] = pc[u]
    BY <1>1, <1>7 DEF Put, Enqueue, Typed, TypeOK
  <2>2. UNCHANGED returned
    BY <1>1, <1>7, PutFacts DEF RunInv, Queue!Submit
  <2>3. \/ pc'[t] = "idle" /\ \E ok \in BOOLEAN : Answer(t, ok)
        \/ pc'[t] = "enqueue" /\ UNCHANGED worker
    BY <1>7 DEF Put
  <2> QED
    BY <1>5, <2>1, <2>2, <2>3
<1>8. ASSUME NEW w \in Workers, worker' = [worker EXCEPT ![w] = Idle], UNCHANGED pc,
             \A v \in Workers : v # w /\ worker[v].at # "idle" => worker[v].lease \notin returned'
      PROVE  Leaseholders'
  <2>1. /\ worker'[w] = Idle /\ \A v \in Workers : v # w => worker'[v] = worker[v]
        /\ worker' \in [Workers -> WorkerState]
    BY <1>1, <1>8, IdleType DEF Leaseholders
  <2> QED
    BY <1>1, <1>8, <2>1, HoldersStay
<1>9. ASSUME NEW w \in Workers, Crash(w) PROVE Leaseholders'
  BY <1>1, <1>8, <1>9 DEF Crash, queue, vars
<1>10. ASSUME NEW w \in Workers, Ack(w) PROVE Leaseholders'
  <2>1. worker[w].at # "idle" /\ worker' = [worker EXCEPT ![w] = Idle] /\ UNCHANGED pc
    BY <1>10 DEF Ack, IsDone, vars
  <2>2. returned' \subseteq returned \cup {worker[w].lease}
    BY <1>10 DEF Ack, Queue!Remove, Queue!Sweep, queue
  <2>3. \A v \in Workers : v # w /\ worker[v].at # "idle" => worker[v].lease # worker[w].lease
    BY <1>1, <2>1
  <2>4. \A v \in Workers : v # w /\ worker[v].at # "idle" => worker[v].lease \notin returned'
    BY <1>1, <2>2, <2>3
  <2> QED
    BY <1>8, <2>1, <2>4
<1>11. ASSUME NEW w \in Workers, Claim(w) PROVE Leaseholders'
  <2>1. PICK i \in ItemIds, l \in LeaseIds :
          /\ Queue!Grant(i, l, w)
          /\ worker' = [worker EXCEPT ![w] = [Idle EXCEPT !.at = "claimed", !.lease = l]]
    BY <1>11 DEF Claim, Claimable
  <2> DEFINE new == [Idle EXCEPT !.at = "claimed", !.lease = l]
  <2>2. new \in WorkerState /\ new.at = "claimed" /\ new.lease = l /\ new.thread = NoThread
    BY DEF Idle, WorkerState
  <2> HIDE DEF new
  <2>3. /\ l \notin Queue!Granted /\ returned' = returned
        /\ owner'[l] = [item |-> i, worker |-> w]
    BY <1>1, <2>1 DEF Queue!Grant, Queue!Granted, Leased, Queue!TypeOK
  <2>4. l \in Queue!Granted' \ returned' /\ owner'[l].worker = w
    BY <1>1, <2>3 DEF Queue!Granted, Queue!NotGranted, Queue!NoItem, Leased, ItemIds
  <2>5. /\ worker'[w] = new /\ \A v \in Workers : v # w => worker'[v] = worker[v]
        /\ worker' \in [Workers -> WorkerState] /\ pc' = pc
    BY <1>1, <1>11, <2>1, <2>2 DEF Leaseholders, Claim, vars, new
  <2>6. Holder(w)'
    BY <2>2, <2>4, <2>5 DEF Holder
  <2>7. ASSUME NEW v \in Workers, v # w PROVE Holder(v)'
    BY <1>1, <2>3, <2>5, <2>7 DEF Leaseholders, Holder, Grows
  <2> QED
    BY <2>5, <2>6, <2>7 DEF Leaseholders
<1>12. ASSUME NEW w \in Workers, NEW t \in Threads, NEW status \in Reports,
              Report(w, t, status)
       PROVE  Leaseholders'
  <2>1. /\ worker[w].at \in {"claimed", "working"} /\ worker[w].thread = NoThread
        /\ returned' = returned
    BY <1>1, <1>12, ReportFacts DEF queue
  <2>2. CASE worker' = [worker EXCEPT ![w] = Idle] /\ UNCHANGED vars
    BY <1>1, <1>8, <2>1, <2>2 DEF vars
  <2>3. CASE /\ pc[t] = "idle" /\ pc'[t] = "update" /\ \A u \in Threads : u # t => pc'[u] = pc[u]
             /\ worker' \in [Workers -> WorkerState]
             /\ worker'[w].at \in {"working", "reported"}
             /\ worker'[w].lease = worker[w].lease /\ worker'[w].thread = t
             /\ \A v \in Workers : v # w => worker'[v] = worker[v]
    <3>1. Holder(w)'
      BY <1>1, <2>1, <2>3 DEF Holder, Grows
    <3>2. ASSUME NEW v \in Workers, v # w PROVE Holder(v)'
      BY <1>1, <2>1, <2>3, <3>2 DEF Leaseholders, Holder, Grows
    <3> QED
      BY <2>3, <3>1, <3>2 DEF Leaseholders
  <2> QED
    BY <1>1, <1>12, <2>2, <2>3, ReportFacts
<1>13. CASE ServerRestart
  <2>1. /\ worker' = [w \in Workers |-> IF w \in CutOff THEN Idle ELSE worker[w]]
        /\ UNCHANGED returned
    BY <1>13 DEF ServerRestart, Queue!Sweep
  <2>2. \A w \in Workers : worker'[w] = IF worker[w].thread # NoThread THEN Idle ELSE worker[w]
    BY <2>1 DEF CutOff
  <2>3. worker' \in [Workers -> WorkerState]
    BY <1>1, <2>1, IdleType
  <2> QED
    BY <1>1, <2>1, <2>2, <2>3, HoldersStay, IdleType
<1>14. ASSUME NEW w \in Workers, LapseHeld(w) PROVE Leaseholders'
  BY <1>2, <1>14 DEF LapseHeld, Queue!Lapse, vars
<1>15. ASSUME NEW l \in LeaseIds, LapseAbandoned(l) PROVE Leaseholders'
  BY <1>2, <1>15 DEF LapseAbandoned, Queue!Lapse, vars
<1>16. ASSUME NEW i \in ItemIds, Drop(i) PROVE Leaseholders'
  BY <1>2, <1>16 DEF Drop, Queue!Sweep, vars
<1>17. UNCHANGED runVars => Leaseholders'
  BY <1>2 DEF runVars, vars, queue
<1> QED
  BY <1>3, <1>4, <1>6, <1>7, <1>9, <1>10, <1>11, <1>12, <1>13, <1>14, <1>15, <1>16, <1>17
  DEF RunNext

-----------------------------------------------------------------------------
(* What the workers report.                                                *)

\* What has ended in its registration stays so.
LEMMA EndsStay ==
  ASSUME RunInv, [RunNext]_runVars, NEW i \in 1..Len(what),
         HasEnded(entry, achieved, what[i])
  PROVE  HasEnded(entry', achieved', what[i])
<1>1. /\ regs \in Nat /\ what[i].reg \in Nat /\ what[i].reg <= regs /\ what[i].job \in JobIds
      /\ \A j \in JobIds : entry'[j].reg \in {entry[j].reg, 0, regs + 1}
      /\ EndsStayHere
  BY RegFacts, RegSteps, ItemFacts DEF RunInv, Item
<1> DEFINE j == what[i].job
<1> SUFFICES ASSUME entry'[j].reg # 0, entry'[j].reg = what[i].reg
             PROVE  \E x \in Terminal : Was(achieved', what[i].reg, what[i].step, x)
  BY DEF HasEnded
<1>2. entry[j].reg = what[i].reg /\ entry'[j].reg = entry[j].reg /\ Registered(j)
  BY <1>1 DEF Registered
<1>3. PICK x \in Terminal : Was(achieved, what[i].reg, what[i].step, x)
  BY <1>2 DEF HasEnded, Registered
<1>4. \A e \in achieved : e.reg = what[i].reg => e \in achieved'
  BY <1>1, <1>2 DEF EndsStayHere
<1> QED
  BY <1>3, <1>4 DEF Was

\* What a worker has to do does not change under it.
LEMMA WorkStays ==
  ASSUME RunInv, [RunNext]_runVars, NEW w \in Workers, worker[w].at # "idle",
         worker'[w].lease = worker[w].lease
  PROVE  Work(w)' = Work(w)
BY StepsGrow, WorkFacts DEF RunInv, Grows, Work

\* Of a worker that is where it was, whose thread is where it was.
LEMMA ReporterStays ==
  ASSUME RunInv, [RunNext]_runVars, NEW w \in Workers, worker'[w] = worker[w],
         worker[w].thread # NoThread =>
           /\ pc'[worker[w].thread] = pc[worker[w].thread]
           /\ request'[worker[w].thread] = request[worker[w].thread]
  PROVE  Reporter(w)'
<1> SUFFICES ASSUME worker[w].at # "idle" PROVE Reporter(w)'
  BY DEF Reporter
<1>1. Reporter(w) /\ Work(w)' = Work(w)
  BY WorkStays DEF RunInv, Reporting
<1>2. HasEnded(entry, achieved, Work(w)) => HasEnded(entry', achieved', Work(w))
  BY EndsStay, WorkFacts DEF RunInv
<1> QED
  BY <1>1, <1>2 DEF Reporter, Pending

\* Of a worker whose step has ended, or that has not reported its end.
LEMMA ReporterRecorded ==
  ASSUME NEW w \in Workers, worker'[w].at # "idle" =>
           /\ worker'[w].thread # NoThread => pc'[worker'[w].thread] # "update"
           /\ worker'[w].at = "reported" => HasEnded(entry, achieved, Work(w))'
  PROVE  Reporter(w)'
BY DEF Reporter

\* What was acked has ended, and stays so.
LEMMA ReturnedStay ==
  ASSUME RunInv, [RunNext]_runVars, NEW l \in returned
  PROVE  HasEnded(entry', achieved', what'[owner'[l].item])
<1>1. l \in Queue!Granted /\ owner[l].item \in 1..Len(what)
  BY ItemFacts DEF RunInv, Leased
<1>2. what'[owner'[l].item] = what[owner[l].item]
  BY <1>1, StepsGrow DEF Grows
<1>3. HasEnded(entry, achieved, what[owner[l].item])
  BY DEF RunInv, Reporting
<1> QED
  BY <1>1, <1>2, <1>3, EndsStay

\* Only an ack returns a lease.
LEMMA AckReturns ==
  RunInv /\ [RunNext]_runVars =>
    \/ returned' = returned
    \/ \E w \in Workers : /\ worker[w].at = "reported" /\ worker[w].thread = NoThread
                          /\ returned' = returned \cup {worker[w].lease}
<1> SUFFICES ASSUME RunInv, [RunNext]_runVars, returned' # returned
             PROVE  \E w \in Workers :
                      /\ worker[w].at = "reported" /\ worker[w].thread = NoThread
                      /\ returned' = returned \cup {worker[w].lease}
  OBVIOUS
<1>1. ASSUME NEW t \in Threads PROVE ~Put(t)
  BY <1>1, PutFacts DEF RunInv, Queue!Submit
<1>2. ASSUME NEW w \in Workers PROVE ~Claim(w)
  BY <1>2 DEF Claim, Queue!Grant
<1>3. PICK w \in Workers : Ack(w)
  BY <1>1, <1>2 DEF RunNext, Post, Register, Update, Report, Crash, LapseHeld, LapseAbandoned,
     Drop, ServerRestart, Queue!Lapse, Queue!Sweep, queue, runVars
<1> QED
  BY <1>3 DEF Ack, IsDone, Queue!Remove, Queue!Sweep, queue

\* Every step keeps what was reported, and what was acked.
LEMMA ReportingKept == RunInv /\ [RunNext]_runVars => Reporting'
<1> SUFFICES ASSUME RunInv, [RunNext]_runVars PROVE Reporting'
  OBVIOUS
<1>1. /\ Typed /\ Leased /\ Carried /\ Leaseholders /\ Reporting /\ Grows
      /\ \A w \in Workers :
           worker[w].thread # NoThread => /\ worker[w].thread \in Threads
                                          /\ pc[worker[w].thread] \in {"update", "enqueue"}
  BY StepsGrow DEF RunInv, AInv, Leaseholders, Holder, WorkerState
<1>2. \A l \in returned' : HasEnded(entry', achieved', what'[owner'[l].item])
  <2>1. CASE returned' = returned
    BY <2>1, ReturnedStay
  <2>2. ASSUME NEW w \in Workers, worker[w].at = "reported", worker[w].thread = NoThread
        PROVE  HasEnded(entry', achieved', what'[owner'[worker[w].lease].item])
    <3>1. /\ worker[w].lease \in Queue!Granted
          /\ owner[worker[w].lease].item \in 1..Len(what)
          /\ Work(w) = what[owner[worker[w].lease].item]
      BY <1>1, <2>2, WorkFacts
    <3>2. HasEnded(entry, achieved, Work(w))
      BY <1>1, <2>2 DEF Reporting, Reporter
    <3>3. what'[owner'[worker[w].lease].item] = what[owner[worker[w].lease].item]
      BY <1>1, <3>1 DEF Grows
    <3> QED
      BY <3>1, <3>2, <3>3, EndsStay
  <2> QED
    BY <2>1, <2>2, AckReturns, ReturnedStay
<1> SUFFICES ASSUME NEW w \in Workers PROVE Reporter(w)'
  BY <1>2 DEF Reporting
<1>3. worker'[w] = Idle => Reporter(w)'
  BY IdleType, ReporterRecorded
<1>4. ASSUME worker'[w] = worker[w],
             \A t \in Threads : pc[t] \in {"update", "enqueue"} =>
               pc'[t] = pc[t] /\ request'[t] = request[t]
      PROVE  Reporter(w)'
  BY <1>1, <1>4, ReporterStays
<1>5. ASSUME NEW t \in Threads, NEW j \in JobIds, NEW job \in Jobs, Post(t, j, job)
      PROVE  Reporter(w)'
  <2>1. Receive(t, "register", [NoRequest EXCEPT !.id = j, !.job = job]) /\ worker' = worker
    BY <1>5 DEF Post, JobStart
  <2> QED
    BY <1>1, <1>4, <2>1, ReceiveFacts
<1>6. ASSUME NEW t \in Threads, Register(t) PROVE Reporter(w)'
  BY <1>1, <1>4, <1>6, RegisterFacts
<1>7. ASSUME NEW t \in Threads, Update(t) PROVE Reporter(w)'
  <2> DEFINE j == request[t].id
             s == request[t].step
             x == request[t].status
  <2>1. /\ j \in JobIds /\ pc[t] = "update"
        /\ \A i \in JobIds : entry'[i].reg = entry[i].reg
        /\ s \in Steps(entry[j].job) /\ x \in Terminal => Was(achieved', entry[j].reg, s, x)
        /\ pc'[t] \in {"idle", "enqueue"}
        /\ pc'[t] = "enqueue" => s \in Steps(entry[j].job)
        /\ \A u \in Threads : u # t => pc'[u] = pc[u] /\ request'[u] = request[u]
    BY <1>1, <1>7, UpdateFacts
  <2>2. \/ /\ pc'[t] = "idle"
           /\ \E ok \in BOOLEAN : Answer(t, ok) /\ (ok => s \in Steps(entry[j].job))
        \/ pc'[t] = "enqueue" /\ worker' = worker
    <3>1. (s \in Steps(entry[j].job)) \in BOOLEAN
      OBVIOUS
    <3> QED
      BY <1>7, <3>1 DEF Update
  <2>3. CASE worker[w].thread # t
    <3>1. worker'[w] = worker[w]
      BY <1>1, <2>2, <2>3, AnswerFacts
    <3> QED
      BY <1>1, <2>1, <2>3, <3>1, ReporterStays
  <2>4. CASE worker[w].thread = t /\ worker'[w] # Idle
    <3>1. /\ worker'[w].at = worker[w].at /\ worker'[w].lease = worker[w].lease
          /\ worker'[w].thread \in {NoThread, t} /\ s \in Steps(entry[j].job)
      BY <1>1, <2>1, <2>2, <2>4, AnswerFacts
    <3>2. ASSUME worker'[w].at = "reported" PROVE HasEnded(entry, achieved, Work(w))'
      <4>1. worker[w].at = "reported" /\ x \in Terminal
            /\ j = Work(w).job /\ s = Work(w).step
        BY <1>1, <2>1, <2>4, <3>1, <3>2, RunAssumption DEF Reporting, Reporter, Pending
      <4>2. Work(w)' = Work(w)
        BY <3>1, <4>1, WorkStays
      <4>3. HasEnded(entry', achieved', Work(w))
        BY <2>1, <3>1, <4>1 DEF HasEnded
      <4> QED
        BY <4>2, <4>3
    <3> QED
      BY <2>1, <3>1, <3>2, ReporterRecorded
  <2> QED
    BY <1>3, <2>3, <2>4
<1>8. ASSUME NEW t \in Threads, Put(t) PROVE Reporter(w)'
  <2>1. /\ pc[t] = "enqueue" /\ pc'[t] \in {"idle", "enqueue"}
        /\ \A u \in Threads : u # t => pc'[u] = pc[u] /\ request'[u] = request[u]
        /\ Answer(t, TRUE) \/ worker' = worker
    BY <1>1, <1>8 DEF Put, Enqueue, Typed, TypeOK
  <2>2. CASE worker[w].thread # t
    <3>1. worker'[w] = worker[w]
      BY <1>1, <2>1, <2>2, AnswerFacts
    <3> QED
      BY <1>1, <2>1, <2>2, <3>1, ReporterStays
  <2>3. CASE worker[w].thread = t
    <3>1. /\ worker'[w].at = worker[w].at /\ worker'[w].lease = worker[w].lease
          /\ worker'[w].thread \in {NoThread, t}
      BY <1>1, <2>1, <2>3, AnswerFacts
    <3>2. ASSUME worker'[w].at = "reported" PROVE HasEnded(entry, achieved, Work(w))'
      <4>1. worker[w].at = "reported" /\ HasEnded(entry, achieved, Work(w))
        BY <1>1, <2>1, <2>3, <3>1, <3>2 DEF Reporting, Reporter
      <4>2. Work(w)' = Work(w)
        BY <3>1, <4>1, WorkStays
      <4>3. HasEnded(entry', achieved', Work(w))
        BY <1>1, <4>1, WorkFacts, EndsStay
      <4> QED
        BY <4>2, <4>3
    <3> QED
      BY <2>1, <3>1, <3>2, ReporterRecorded
  <2> QED
    BY <2>2, <2>3
<1>9. ASSUME NEW v \in Workers, Claim(v) PROVE Reporter(w)'
  <2>1. PICK l \in LeaseIds :
          worker' = [worker EXCEPT ![v] = [Idle EXCEPT !.at = "claimed", !.lease = l]]
    BY <1>9 DEF Claim
  <2>2. pc' = pc /\ request' = request
    BY <1>9 DEF Claim, vars
  <2>3. CASE w = v
    <3>1. worker'[w].at = "claimed" /\ worker'[w].thread = NoThread
      BY <1>1, <2>1, <2>3 DEF Leaseholders, Idle
    <3> QED
      BY <3>1, ReporterRecorded
  <2>4. CASE w # v
    BY <1>1, <1>4, <2>1, <2>2, <2>4 DEF Leaseholders
  <2> QED
    BY <2>3, <2>4
<1>10. ASSUME NEW v \in Workers, UNCHANGED vars, worker' = [worker EXCEPT ![v] = Idle]
       PROVE  Reporter(w)'
  <2>1. worker'[w] = Idle \/ worker'[w] = worker[w]
    BY <1>1, <1>10 DEF Leaseholders
  <2> QED
    BY <1>3, <1>4, <1>10, <2>1 DEF vars
<1>11. ASSUME NEW v \in Workers, NEW t \in Threads, NEW status \in Reports,
              Report(v, t, status)
       PROVE  Reporter(w)'
  <2>1. CASE worker' = [worker EXCEPT ![v] = Idle] /\ UNCHANGED vars
    BY <1>10, <2>1
  <2>2. CASE /\ pc[t] = "idle" /\ pc'[t] = "update"
             /\ request'[t].id = Work(v).job /\ request'[t].step = Work(v).step
             /\ request'[t].status = status
             /\ \A u \in Threads : u # t => pc'[u] = pc[u] /\ request'[u] = request[u]
             /\ worker'[v].at = "reported" <=> status \in Terminal
             /\ worker'[v].lease = worker[v].lease /\ worker'[v].thread = t
             /\ worker[v].at # "idle"
             /\ \A u \in Workers : u # v => worker'[u] = worker[u]
    <3>1. CASE w = v
      <4>1. Work(w)' = Work(w)
        BY <2>2, <3>1, WorkStays
      <4> QED
        BY <2>2, <3>1, <4>1, RunAssumption DEF Reporter, Pending
    <3>2. CASE w # v
      BY <1>1, <1>4, <2>2, <3>2
    <3> QED
      BY <3>1, <3>2
  <2> QED
    BY <1>1, <1>11, <2>1, <2>2, ReportFacts
<1>12. CASE ServerRestart
  <2>1. worker' = [v \in Workers |-> IF v \in CutOff THEN Idle ELSE worker[v]]
    BY <1>12 DEF ServerRestart
  <2>2. worker'[w] = Idle \/ (worker'[w] = worker[w] /\ worker[w].thread = NoThread)
    <3>1. worker'[w] = IF worker[w].thread # NoThread THEN Idle ELSE worker[w]
      BY <2>1 DEF CutOff
    <3> QED
      BY <3>1
  <2> QED
    BY <1>3, <2>2, ReporterStays
<1>13. UNCHANGED <<vars, worker>> => Reporter(w)'
  BY <1>4 DEF vars
<1> QED
  BY <1>5, <1>6, <1>7, <1>8, <1>9, <1>10, <1>11, <1>12, <1>13
  DEF RunNext, Ack, Crash, LapseHeld, LapseAbandoned, Drop, runVars

-----------------------------------------------------------------------------
(* Under which lease each report was made.                                 *)

\* A step that takes no report, claims nothing and leaves the jobs alone.
Quiet ==
  /\ entry' = entry /\ UNCHANGED reports
  /\ \A t \in Threads : pc'[t] = "update" => pc[t] = "update" /\ request'[t] = request[t]
  /\ \A w \in Workers : worker'[w] = Idle \/ worker'[w] = worker[w]

\* A report that was let in.
Accepted(w, t, status) ==
  /\ pc[t] = "idle" /\ pc'[t] = "update"
  /\ request'[t].id = Work(w).job /\ request'[t].step = Work(w).step
  /\ \A u \in Threads : u # t => pc'[u] = pc[u] /\ request'[u] = request[u]
  /\ entry' = entry /\ ender' = ender
  /\ via' = [via EXCEPT ![t] = worker[w].lease]
  /\ worker[w].at \in {"claimed", "working"} /\ worker[w].thread = NoThread
  /\ worker'[w].lease = worker[w].lease /\ worker'[w].thread = t
  /\ \A v \in Workers : v # w => worker'[v] = worker[v]

\* The steps that are not quiet.
LEMMA StepKinds ==
  RunInv /\ [RunNext]_runVars =>
    \/ Quiet \/ ServerRestart
    \/ \E t \in Threads : Register(t) \/ Update(t) \/ Put(t)
    \/ \E w \in Workers : Claim(w)
    \/ \E w \in Workers, t \in Threads, status \in Reports : Accepted(w, t, status)
<1> SUFFICES ASSUME RunInv, [RunNext]_runVars,
                    ~(\E t \in Threads : Register(t) \/ Update(t) \/ Put(t)),
                    ~(\E w \in Workers : Claim(w)), ~ServerRestart
             PROVE  \/ Quiet
                    \/ \E w \in Workers, t \in Threads, status \in Reports : Accepted(w, t, status)
  OBVIOUS
<1>1. Typed /\ Leaseholders
  BY DEF RunInv, AInv
<1>2. ASSUME NEW t \in Threads, NEW j \in JobIds, NEW job \in Jobs, Post(t, j, job)
      PROVE  Quiet
  <2>1. Receive(t, "register", [NoRequest EXCEPT !.id = j, !.job = job]) /\ worker' = worker
        /\ UNCHANGED reports
    BY <1>2 DEF Post, JobStart
  <2> QED
    BY <1>1, <2>1, ReceiveFacts DEF Quiet
<1>3. ASSUME NEW w \in Workers, UNCHANGED <<vars, reports>>, worker' = [worker EXCEPT ![w] = Idle]
      PROVE  Quiet
  BY <1>1, <1>3 DEF Quiet, vars, Leaseholders
<1>4. UNCHANGED <<vars, worker, reports>> => Quiet
  BY DEF Quiet, vars
<1>5. ASSUME NEW w \in Workers, NEW t \in Threads, NEW status \in Reports,
             Report(w, t, status)
      PROVE  Quiet \/ Accepted(w, t, status)
  <2>1. CASE worker' = [worker EXCEPT ![w] = Idle] /\ UNCHANGED <<vars, via, ender>>
    BY <1>3, <2>1 DEF reports
  <2>2. CASE ~(worker' = [worker EXCEPT ![w] = Idle] /\ UNCHANGED <<vars, via, ender>>)
    BY <1>1, <1>5, <2>2, ReportFacts DEF Accepted
  <2> QED
    BY <2>1, <2>2
<1> QED
  BY <1>2, <1>3, <1>4, <1>5
  DEF RunNext, Ack, Crash, LapseHeld, LapseAbandoned, Drop, runVars

\* A thread that answers has no report left, and only its worker hears of it.
LEMMA AnsweredFacts ==
  ASSUME Typed, Leaseholders, NEW t \in Threads, Update(t) \/ Put(t)
  PROVE  /\ pc'[t] # "update"
         /\ \A u \in Threads : u # t => pc'[u] = pc[u] /\ request'[u] = request[u]
         /\ \A w \in Workers :
              /\ worker[w].thread # t => worker'[w] = worker[w]
              /\ \/ worker'[w] = Idle
                 \/ worker'[w].at = worker[w].at /\ worker'[w].lease = worker[w].lease
<1>1. (request[t].step \in Steps(entry[request[t].id].job)) \in BOOLEAN
  OBVIOUS
<1>2. worker' = worker \/ \E ok \in BOOLEAN : Answer(t, ok)
  BY <1>1 DEF Update, Put
<1>3. /\ pc'[t] # "update"
      /\ \A u \in Threads : u # t => pc'[u] = pc[u] /\ request'[u] = request[u]
  <2>1. CASE Update(t)
    BY <2>1, UpdateFacts
  <2>2. CASE Put(t)
    BY <2>2 DEF Put, Enqueue, board, Typed, TypeOK
  <2> QED
    BY <2>1, <2>2
<1> QED
  BY <1>2, <1>3, AnswerFacts

\* A claim gives the one who claims a lease that was not granted, and changes
\* nothing else here.
LEMMA ClaimFacts ==
  ASSUME Leased, Leaseholders, NEW v \in Workers, Claim(v)
  PROVE  /\ entry' = entry /\ pc' = pc /\ request' = request /\ via' = via /\ ender' = ender
         /\ worker'[v].lease \notin Queue!Granted
         /\ \A w \in Workers : w # v => worker'[w] = worker[w]
<1>1. PICK l \in LeaseIds :
        /\ owner[l] = Queue!NotGranted
        /\ worker' = [worker EXCEPT ![v] = [Idle EXCEPT !.at = "claimed", !.lease = l]]
  BY DEF Claim, Queue!Grant
<1>2. worker'[v].lease = l /\ \A w \in Workers : w # v => worker'[w] = worker[w]
  BY <1>1 DEF Leaseholders, Idle
<1> QED
  BY <1>1, <1>2 DEF Claim, vars, reports, Queue!Granted

\* What a lease was granted on stays what it is.
LEMMA GrantStays ==
  ASSUME RunInv, [RunNext]_runVars, NEW l \in Queue!Granted
  PROVE  l \in Queue!Granted' /\ what'[owner'[l].item] = what[owner[l].item]
BY StepsGrow, ItemFacts DEF RunInv, Grows

\* Reports that are under way stay as they are, unless a worker gets their lease.
LEMMA RecordingStays ==
  ASSUME RunInv, [RunNext]_runVars, NEW t \in Threads, pc[t] = "update",
         request'[t] = request[t], via'[t] = via[t],
         \A w \in Workers : worker'[w].at # "idle" /\ worker'[w].lease = via[t] =>
           /\ worker[w].at # "idle" /\ worker[w].lease = via[t]
           /\ worker[w].thread = t => worker'[w].thread = t
  PROVE  Recording(t)'
<1>1. Recording(t) /\ via[t] \in Queue!Granted
  BY DEF RunInv, ReportsHeld, Recording
<1>2. PICK l : l = via[t]
  OBVIOUS
<1>3. l \in Queue!Granted' /\ what'[owner'[l].item] = what[owner[l].item]
  BY <1>1, <1>2, GrantStays
<1> QED
  BY <1>1, <1>2, <1>3 DEF Recording

\* Every step keeps the leases of the reports that are under way.
LEMMA ReportsHeldKept == RunInv /\ [RunNext]_runVars => ReportsHeld'
<1> SUFFICES ASSUME RunInv, [RunNext]_runVars PROVE ReportsHeld'
  OBVIOUS
<1>1. /\ Typed /\ Leased /\ Carried /\ Leaseholders /\ ReportsHeld
      /\ \A w \in Workers : worker[w].thread # NoThread => worker[w].thread \in Threads
      /\ \A t \in Threads : t # NoThread
  BY RunAssumption DEF RunInv, AInv, Leaseholders, WorkerState
<1>2. /\ via \in [Threads -> LeaseIds \cup {Queue!NoLease}]
      /\ \A t \in Threads : pc[t] = "update" =>
           /\ via[t] \in Queue!Granted
           /\ \A w \in Workers : worker[w].at # "idle" /\ worker[w].lease = via[t]
                => worker[w].thread = t
  BY <1>1 DEF ReportsHeld, Recording
<1>3. ASSUME via' \in [Threads -> LeaseIds \cup {Queue!NoLease}],
             \A t \in Threads : pc'[t] = "update" =>
               /\ pc[t] = "update" /\ request'[t] = request[t] /\ via'[t] = via[t]
               /\ \A w \in Workers : worker'[w].at # "idle" /\ worker'[w].lease = via[t] =>
                    /\ worker[w].at # "idle" /\ worker[w].lease = via[t]
                    /\ worker[w].thread = t => worker'[w].thread = t
      PROVE  ReportsHeld'
  <2>1. ASSUME NEW t \in Threads PROVE Recording(t)'
    <3>1. CASE pc'[t] = "update"
      BY <1>3, <3>1, RecordingStays
    <3>2. CASE pc'[t] # "update"
      BY <3>2 DEF Recording
    <3> QED
      BY <3>1, <3>2
  <2>2. \A t, u \in Threads :
          pc'[t] = "update" /\ pc'[u] = "update" /\ via'[t] = via'[u] => t = u
    BY <1>1, <1>3 DEF ReportsHeld
  <2> QED
    BY <1>3, <2>1, <2>2 DEF ReportsHeld
<1>4. CASE Quiet
  <2>1. via' = via /\ \A t \in Threads : pc'[t] = "update" =>
                        pc[t] = "update" /\ request'[t] = request[t]
    BY <1>4 DEF Quiet, reports
  <2>2. \A w \in Workers : worker'[w].at # "idle" => worker'[w] = worker[w]
    BY <1>4, IdleType DEF Quiet
  <2> QED
    BY <1>2, <1>3, <2>1, <2>2
<1>5. CASE ServerRestart
  <2>1. /\ \A t \in Threads : pc'[t] = "idle"
        /\ via' = [t \in Threads |-> Queue!NoLease]
    BY <1>5 DEF ServerRestart, Restart
  <2>2. via' \in [Threads -> LeaseIds \cup {Queue!NoLease}]
    BY <2>1
  <2> QED
    BY <1>3, <2>1, <2>2
<1>6. ASSUME NEW t \in Threads, Register(t) PROVE ReportsHeld'
  <2>1. /\ pc'[t] # "update" /\ worker' = worker /\ via' = via
        /\ \A u \in Threads : u # t => pc'[u] = pc[u] /\ request'[u] = request[u]
    BY <1>1, <1>6, RegisterFacts
  <2> QED
    BY <1>2, <1>3, <2>1
<1>7. ASSUME NEW t \in Threads, Update(t) \/ Put(t) PROVE ReportsHeld'
  <2>1. /\ pc'[t] # "update"
        /\ \A u \in Threads : u # t => pc'[u] = pc[u] /\ request'[u] = request[u]
        /\ \A w \in Workers :
             /\ worker[w].thread # t => worker'[w] = worker[w]
             /\ worker'[w].at # "idle" =>
                  worker'[w].at = worker[w].at /\ worker'[w].lease = worker[w].lease
    BY <1>1, <1>7, AnsweredFacts, IdleType
  <2>2. /\ via' \in [Threads -> LeaseIds \cup {Queue!NoLease}]
        /\ \A u \in Threads : u # t => via'[u] = via[u]
    <3>1. via' = via \/ via' = [via EXCEPT ![t] = Queue!NoLease]
      BY <1>7 DEF Update, Put, reports
    <3> QED
      BY <1>2, <3>1
  <2> QED
    BY <1>2, <1>3, <2>1, <2>2
<1>8. ASSUME NEW v \in Workers, Claim(v) PROVE ReportsHeld'
  <2>1. /\ pc' = pc /\ request' = request /\ via' = via
        /\ worker'[v].lease \notin Queue!Granted
        /\ \A w \in Workers : w # v => worker'[w] = worker[w]
    BY <1>1, <1>8, ClaimFacts
  <2> QED
    BY <1>2, <1>3, <2>1
<1>9. ASSUME NEW v \in Workers, NEW t \in Threads, NEW status \in Reports,
             Accepted(v, t, status)
      PROVE  ReportsHeld'
  <2>1. /\ pc[t] = "idle" /\ pc'[t] = "update"
        /\ request'[t].id = Work(v).job /\ request'[t].step = Work(v).step
        /\ \A u \in Threads : u # t => pc'[u] = pc[u] /\ request'[u] = request[u]
        /\ via' = [via EXCEPT ![t] = worker[v].lease]
        /\ worker[v].at # "idle" /\ worker[v].thread = NoThread
        /\ worker'[v].lease = worker[v].lease /\ worker'[v].thread = t
        /\ \A w \in Workers : w # v => worker'[w] = worker[w]
    BY <1>9 DEF Accepted
  <2>2. /\ worker[v].lease \in Queue!Granted /\ worker[v].lease \in LeaseIds
        /\ owner[worker[v].lease].worker = v
        /\ Work(v) = what[owner[worker[v].lease].item]
    BY <1>1, <2>1, WorkFacts
  <2>3. /\ via' \in [Threads -> LeaseIds \cup {Queue!NoLease}]
        /\ via'[t] = worker[v].lease /\ \A u \in Threads : u # t => via'[u] = via[u]
    BY <1>2, <2>1, <2>2
  <2>4. \A u \in Threads : pc[u] = "update" => via[u] # worker[v].lease
    BY <1>1, <1>2, <2>1
  <2>5. Recording(t)'
    <3>1. PICK l : l = worker[v].lease
      OBVIOUS
    <3>2. l \in Queue!Granted' /\ what'[owner'[l].item] = Work(v)
      BY <2>2, <3>1, GrantStays
    <3>3. ASSUME NEW w \in Workers, worker'[w].at # "idle", worker'[w].lease = l
          PROVE  worker'[w].thread = t
      <4>1. w # v => worker[w].at # "idle" /\ worker[w].lease = l
        BY <2>1, <3>3
      <4>2. w = v
        BY <1>1, <2>2, <3>1, <4>1, WorkFacts
      <4> QED
        BY <2>1, <4>2
    <3> QED
      BY <2>1, <2>3, <3>1, <3>2, <3>3 DEF Recording
  <2>6. ASSUME NEW u \in Threads, u # t PROVE Recording(u)'
    <3>1. CASE pc[u] = "update"
      <4>1. \A w \in Workers : worker'[w].at # "idle" /\ worker'[w].lease = via[u] =>
              w # v /\ worker'[w] = worker[w]
        BY <2>1, <2>4, <3>1
      <4> QED
        BY <2>1, <2>3, <2>6, <3>1, <4>1, RecordingStays
    <3>2. CASE pc[u] # "update"
      BY <2>1, <2>6, <3>2 DEF Recording
    <3> QED
      BY <3>1, <3>2
  <2>7. \A u, x \in Threads :
          pc'[u] = "update" /\ pc'[x] = "update" /\ via'[u] = via'[x] => u = x
    BY <1>1, <2>1, <2>3, <2>4 DEF ReportsHeld
  <2> QED
    BY <2>3, <2>5, <2>6, <2>7 DEF ReportsHeld
<1> QED
  BY <1>4, <1>5, <1>6, <1>7, <1>8, <1>9, StepKinds

\* Whose report ended a step stays so, unless a worker gets its lease, reports
\* anew, or a thread takes another report under it.
LEMMA EndedByStays ==
  ASSUME RunInv, [RunNext]_runVars, NEW j \in JobIds, NEW s, NEW l, EndedBy(j, s, l),
         \A w \in Workers : worker'[w].at # "idle" /\ worker'[w].lease = l =>
           worker[w].at # "idle" /\ worker[w].lease = l /\ worker'[w].at = worker[w].at,
         \A t \in Threads : pc'[t] = "update" /\ via'[t] = l =>
           pc[t] = "update" /\ via[t] = l /\ request'[t] = request[t]
  PROVE  EndedBy(j, s, l)'
<1>1. l \in Queue!Granted' /\ what'[owner'[l].item] = what[owner[l].item]
  BY GrantStays DEF EndedBy
<1> QED
  BY <1>1 DEF EndedBy

\* Every step keeps what is known of the reports that ended the steps.
LEMMA EndsHeldKept == RunInv /\ [RunNext]_runVars => EndsHeld'
<1> SUFFICES ASSUME RunInv, [RunNext]_runVars PROVE EndsHeld'
  OBVIOUS
<1>1. /\ Typed /\ Leased /\ Carried /\ Leaseholders /\ Reporting /\ ReportsHeld /\ EndsHeld
      /\ \A t \in Threads : t # NoThread
  BY RunAssumption DEF RunInv, AInv
<1>2. /\ ender \in [JobIds -> [StepIds -> LeaseIds \cup {Queue!NoLease}]]
      /\ \A j \in JobIds : Registered(j) => \A s \in Steps(entry[j].job) :
           entry[j].st.status[s] \in Terminal =>
             EndedBy(j, s, ender[j][s]) /\ ender[j][s] \in Queue!Granted
  BY <1>1 DEF EndsHeld, EndedBy
<1> DEFINE Holds(l) ==
      /\ \A w \in Workers : worker'[w].at # "idle" /\ worker'[w].lease = l =>
           worker[w].at # "idle" /\ worker[w].lease = l /\ worker'[w].at = worker[w].at
      /\ \A t \in Threads : pc'[t] = "update" /\ via'[t] = l =>
           pc[t] = "update" /\ via[t] = l /\ request'[t] = request[t]
<1>3. ASSUME entry' = entry, ender' = ender,
             \A j \in JobIds : Registered(j) => \A s \in Steps(entry[j].job) :
               entry[j].st.status[s] \in Terminal => Holds(ender[j][s])
      PROVE  EndsHeld'
  <2>1. ASSUME NEW j \in JobIds, Registered(j), NEW s \in Steps(entry[j].job),
               entry[j].st.status[s] \in Terminal
        PROVE  EndedBy(j, s, ender[j][s])'
    <3>1. PICK l : l = ender[j][s]
      OBVIOUS
    <3>2. EndedBy(j, s, l) /\ Holds(l)
      BY <1>2, <1>3, <2>1, <3>1
    <3>3. EndedBy(j, s, l)'
      BY <3>2, EndedByStays
    <3> QED
      BY <1>3, <3>1, <3>3
  <2> QED
    BY <1>2, <1>3, <2>1 DEF EndsHeld, Registered
<1>4. CASE Quiet
  <2>1. /\ entry' = entry /\ via' = via /\ ender' = ender
        /\ \A t \in Threads : pc'[t] = "update" => pc[t] = "update" /\ request'[t] = request[t]
    BY <1>4 DEF Quiet, reports
  <2>2. \A w \in Workers : worker'[w].at # "idle" => worker'[w] = worker[w]
    BY <1>4, IdleType DEF Quiet
  <2>3. \A l : Holds(l)
    BY <2>1, <2>2
  <2> QED
    BY <1>3, <2>1, <2>3
<1>5. CASE ServerRestart
  <2>1. /\ \A j \in JobIds : entry'[j].reg = 0
        /\ ender' = [j \in JobIds |-> NoEnds]
    BY <1>5 DEF ServerRestart, Restart, NoEntry
  <2>2. ender' \in [JobIds -> [StepIds -> LeaseIds \cup {Queue!NoLease}]]
    BY <2>1 DEF NoEnds
  <2> QED
    BY <2>1, <2>2 DEF EndsHeld, Registered
<1>6. ASSUME NEW t \in Threads, Register(t) PROVE EndsHeld'
  <2> DEFINE i == request[t].id
  <2>1. /\ i \in JobIds /\ pc'[t] # "update" /\ worker' = worker /\ via' = via
        /\ \A s \in Steps(entry'[i].job) : entry'[i].st.status[s] \notin Terminal
        /\ \A j \in JobIds : j # i => entry'[j] = entry[j]
        /\ \A u \in Threads : u # t => pc'[u] = pc[u] /\ request'[u] = request[u]
    BY <1>1, <1>6, RegisterFacts
  <2>2. /\ ender' \in [JobIds -> [StepIds -> LeaseIds \cup {Queue!NoLease}]]
        /\ \A j \in JobIds : j # i => ender'[j] = ender[j]
    <3>1. ender' = [ender EXCEPT ![i] = NoEnds]
      BY <1>6 DEF Register
    <3> QED
      BY <1>2, <2>1, <3>1 DEF NoEnds
  <2>3. \A l : Holds(l)
    BY <2>1
  <2>4. ASSUME NEW j \in JobIds, j # i, Registered(j), NEW s \in Steps(entry[j].job),
               entry[j].st.status[s] \in Terminal
        PROVE  EndedBy(j, s, ender[j][s])'
    <3>1. PICK l : l = ender[j][s]
      OBVIOUS
    <3>2. EndedBy(j, s, l)'
      BY <1>2, <2>3, <2>4, <3>1, EndedByStays
    <3> QED
      BY <2>2, <2>4, <3>1, <3>2
  <2> SUFFICES ASSUME NEW j \in JobIds, entry'[j].reg # 0, NEW s \in Steps(entry'[j].job),
                      entry'[j].st.status[s] \in Terminal
               PROVE  EndedBy(j, s, ender[j][s])'
    BY <2>2 DEF EndsHeld, Registered
  <2>5. j # i /\ entry'[j] = entry[j]
    BY <2>1
  <2> QED
    BY <2>4, <2>5 DEF Registered
<1>7. ASSUME NEW t \in Threads, Update(t) PROVE EndsHeld'
  <2>0. PICK i, r, x : i = request[t].id /\ r = request[t].step /\ x = request[t].status
    OBVIOUS
  <2>1. /\ i \in JobIds /\ pc[t] = "update"
        /\ \A j \in JobIds : entry'[j].reg = entry[j].reg /\ entry'[j].job = entry[j].job
        /\ \A j \in JobIds : j # i => entry'[j] = entry[j]
        /\ \A s \in Steps(entry[i].job) : s # r => entry'[i].st.status[s] = entry[i].st.status[s]
        /\ r \in Steps(entry[i].job) => Registered(i) /\ entry'[i].st.status[r] = x
    BY <1>1, <1>7, <2>0, UpdateFacts
  <2>2. /\ pc'[t] # "update"
        /\ \A u \in Threads : u # t => pc'[u] = pc[u] /\ request'[u] = request[u]
        /\ \A w \in Workers : worker'[w].at # "idle" =>
             worker'[w].at = worker[w].at /\ worker'[w].lease = worker[w].lease
    BY <1>1, <1>7, AnsweredFacts, IdleType
  <2>3. \A u \in Threads : u # t => via'[u] = via[u]
    <3>1. via' = [via EXCEPT ![t] = Queue!NoLease]
      BY <1>7 DEF Update
    <3> QED
      BY <1>1, <3>1 DEF ReportsHeld
  <2>4. \A l : Holds(l)
    BY <2>2, <2>3
  <2>5. via[t] \in LeaseIds \cup {Queue!NoLease}
    BY <1>1 DEF ReportsHeld
  <2>6. /\ ender' \in [JobIds -> [StepIds -> LeaseIds \cup {Queue!NoLease}]]
        /\ \A j \in JobIds, s \in StepIds : j # i \/ s # r => ender'[j][s] = ender[j][s]
        /\ r \in Steps(entry[i].job) /\ x \in Terminal => ender'[i][r] = via[t]
    <3>1. CASE r \notin Steps(entry[i].job)
      <4>1. ender' = ender
        BY <1>7, <2>0, <3>1 DEF Update
      <4> QED
        BY <1>2, <3>1, <4>1
    <3>2. CASE r \in Steps(entry[i].job)
      <4>1. PICK v \in LeaseIds \cup {Queue!NoLease} :
              v = IF x \in Terminal THEN via[t] ELSE Queue!NoLease
        BY <2>5
      <4>2. ender' = [ender EXCEPT ![i][r] = v]
        BY <1>7, <2>0, <3>2, <4>1 DEF Update
      <4>3. r \in StepIds
        BY <1>1, <2>1, <3>2, EntryFacts DEF StepIds
      <4> QED
        BY <1>2, <2>1, <4>1, <4>2, <4>3
    <3> QED
      BY <3>1, <3>2
  <2>7. ASSUME NEW j \in JobIds, Registered(j), NEW s \in Steps(entry[j].job),
               entry[j].st.status[s] \in Terminal, j # i \/ s # r
        PROVE  EndedBy(j, s, ender[j][s])'
    <3>1. PICK l : l = ender[j][s]
      OBVIOUS
    <3>2. EndedBy(j, s, l)'
      BY <1>2, <2>4, <2>7, <3>1, EndedByStays
    <3>3. s \in StepIds
      BY <1>1, <2>7, EntryFacts DEF StepIds
    <3> QED
      BY <2>6, <2>7, <3>1, <3>2, <3>3
  <2>8. ASSUME r \in Steps(entry[i].job), x \in Terminal PROVE EndedBy(i, r, ender[i][r])'
    <3>1. PICK l : l = via[t]
      OBVIOUS
    <3>2. EndedBy(i, r, l)
      <4>1. /\ l \in Queue!Granted
            /\ what[owner[l].item].job = i /\ what[owner[l].item].step = r
            /\ \A w \in Workers :
                 worker[w].at # "idle" /\ worker[w].lease = l => worker[w].thread = t
        BY <1>1, <2>0, <2>1, <3>1 DEF ReportsHeld, Recording
      <4>2. ASSUME NEW w \in Workers, worker[w].at # "idle", worker[w].lease = l
            PROVE  worker[w].at = "reported"
        <5>1. worker[w].thread = t
          BY <4>1, <4>2
        <5>2. x \in Terminal <=> worker[w].at = "reported"
          BY <1>1, <2>0, <2>1, <4>2, <5>1 DEF Reporting, Reporter
        <5> QED
          BY <2>8, <5>2
      <4>3. \A u \in Threads : pc[u] = "update" /\ via[u] = l => u = t
        BY <1>1, <2>1, <3>1 DEF ReportsHeld
      <4> QED
        BY <2>0, <2>8, <4>1, <4>2, <4>3 DEF EndedBy
    <3>3. EndedBy(i, r, l)'
      BY <2>1, <2>4, <3>2, EndedByStays
    <3> QED
      BY <2>6, <2>8, <3>1, <3>3
  <2> SUFFICES ASSUME NEW j \in JobIds, entry'[j].reg # 0, NEW s \in Steps(entry'[j].job),
                      entry'[j].st.status[s] \in Terminal
               PROVE  EndedBy(j, s, ender[j][s])'
    BY <2>6 DEF EndsHeld, Registered
  <2>9. Registered(j) /\ s \in Steps(entry[j].job)
    BY <2>1 DEF Registered
  <2>10. CASE j = i /\ s = r
    BY <2>1, <2>8, <2>9, <2>10
  <2>11. CASE j # i \/ s # r
    <3>1. entry[j].st.status[s] \in Terminal
      BY <2>1, <2>9, <2>11
    <3> QED
      BY <2>7, <2>9, <2>11, <3>1
  <2> QED
    BY <2>10, <2>11
<1>8. ASSUME NEW t \in Threads, Put(t) PROVE EndsHeld'
  <2>1. /\ pc'[t] # "update"
        /\ \A u \in Threads : u # t => pc'[u] = pc[u] /\ request'[u] = request[u]
        /\ \A w \in Workers : worker'[w].at # "idle" =>
             worker'[w].at = worker[w].at /\ worker'[w].lease = worker[w].lease
    BY <1>1, <1>8, AnsweredFacts, IdleType
  <2>2. entry' = entry /\ via' = via /\ ender' = ender
    BY <1>8 DEF Put, Enqueue, board, reports
  <2>3. \A l : Holds(l)
    BY <2>1, <2>2
  <2> QED
    BY <1>3, <2>2, <2>3
<1>9. ASSUME NEW v \in Workers, Claim(v) PROVE EndsHeld'
  <2>1. /\ entry' = entry /\ pc' = pc /\ request' = request /\ via' = via /\ ender' = ender
        /\ worker'[v].lease \notin Queue!Granted
        /\ \A w \in Workers : w # v => worker'[w] = worker[w]
    BY <1>1, <1>9, ClaimFacts
  <2>2. \A l \in Queue!Granted : Holds(l)
    BY <2>1
  <2> QED
    BY <1>2, <1>3, <2>1, <2>2
<1>10. ASSUME NEW v \in Workers, NEW t \in Threads, NEW status \in Reports,
              Accepted(v, t, status)
       PROVE  EndsHeld'
  <2>1. /\ entry' = entry /\ ender' = ender
        /\ \A u \in Threads : u # t => pc'[u] = pc[u] /\ request'[u] = request[u]
        /\ via' = [via EXCEPT ![t] = worker[v].lease]
        /\ worker[v].at # "idle" /\ worker[v].at # "reported"
        /\ worker'[v].lease = worker[v].lease
        /\ \A w \in Workers : w # v => worker'[w] = worker[w]
    BY <1>10 DEF Accepted
  <2>2. via'[t] = worker[v].lease /\ \A u \in Threads : u # t => via'[u] = via[u]
    BY <1>1, <2>1 DEF ReportsHeld
  <2>3. ASSUME NEW j \in JobIds, NEW s, NEW l, EndedBy(j, s, l) PROVE Holds(l)
    <3>1. worker[v].lease # l
      BY <2>1, <2>3 DEF EndedBy
    <3> QED
      BY <2>1, <2>2, <3>1
  <2> QED
    BY <1>2, <1>3, <2>1, <2>3
<1> QED
  BY <1>4, <1>5, <1>6, <1>7, <1>8, <1>9, <1>10, StepKinds

-----------------------------------------------------------------------------
(* The invariant, and what follows from it.                                *)

\* At the start nothing is registered, queued or leased.
LEMMA InitRun == RunInit => RunInv
<1> SUFFICES ASSUME RunInit PROVE RunInv
  OBVIOUS
<1>1. AInv
  BY InitAssigns DEF RunInit
<1>2. Leased /\ Queue!Granted = {} /\ returned = {}
  <2>1. /\ stage = [i \in ItemIds |-> "absent"] /\ lease = [i \in ItemIds |-> Queue!NoLease]
        /\ owner = [l \in LeaseIds |-> Queue!NotGranted] /\ returned = {} /\ lapsed = {}
    BY DEF RunInit, Queue!Init
  <2>2. Queue!Granted = {}
    BY <2>1 DEF Queue!Granted
  <2> QED
    BY <2>1, <2>2 DEF Leased, Queue!TypeOK, Queue!RunningIsRecorded, Queue!Running
<1>3. UnlapsedIsLast
  BY <1>2 DEF UnlapsedIsLast
<1>4. what = << >> /\ Len(what) = 0 /\ 1..Len(what) = {}
  BY DEF RunInit
<1>5. Carried
  <2>1. Len(what) = Cardinality(queued) /\ queued = {}
    BY <1>4, FS_EmptySet DEF RunInit, Init
  <2>2. what \in Seq([job : JobIds, reg : Regs, step : StepIds])
    BY <1>4
  <2>3. \A i \in ItemIds : stage[i] # "absent" <=> i <= Len(what)
    BY <1>4 DEF RunInit, Queue!Init, ItemIds
  <2> QED
    BY <1>4, <2>1, <2>2, <2>3 DEF Carried
<1>6. /\ \A t \in Threads : pc[t] = "idle" /\ todo[t] = {}
      /\ \A j \in JobIds : entry[j].reg = 0
  BY DEF RunInit, Init, NoEntry
<1>7. JobsNamed
  BY <1>4, <1>6 DEF JobsNamed
<1>8. Leaseholders /\ Reporting
  BY <1>2, IdleType DEF RunInit, Leaseholders, Holder, Reporting, Reporter
<1>9. ReportsHeld /\ EndsHeld
  <2>1. /\ via = [t \in Threads |-> Queue!NoLease]
        /\ ender = [j \in JobIds |-> [s \in StepIds |-> Queue!NoLease]]
    BY DEF RunInit, NoEnds
  <2> QED
    BY <1>6, <2>1 DEF ReportsHeld, Recording, EndsHeld, Registered
<1>10. faults \in 0..FaultBound
  BY RunAssumption DEF RunInit
<1> QED
  BY <1>1, <1>2, <1>3, <1>5, <1>7, <1>8, <1>9, <1>10 DEF RunInv

\* Faults are counted to their bound.
LEMMA FaultsKept == RunInv /\ [RunNext]_runVars => faults' \in 0..FaultBound
<1> SUFFICES ASSUME RunInv, [RunNext]_runVars PROVE faults' \in 0..FaultBound
  OBVIOUS
<1>1. faults' = faults \/ Fault
  BY DEF RunNext, Post, Register, Update, Put, Claim, Report, Ack, Crash, LapseHeld,
     LapseAbandoned, Drop, ServerRestart, runVars
<1> QED
  BY <1>1, RunAssumption DEF RunInv, Fault

\* Every step keeps the invariant.
LEMMA NextRun == RunInv /\ [RunNext]_runVars => RunInv'
BY BoardKept, QueueKept, CarriedKept, JobsNamedKept, LeaseholdersKept, ReportingKept,
   ReportsHeldKept, EndsHeldKept, FaultsKept
DEF RunInv

\* The invariant of the composition.
THEOREM RunInvariant == RunSpec => []RunInv
BY InitRun, NextRun, PTL DEF RunSpec

\* Every state of the composition is well typed.
THEOREM RunTypes == RunSpec => []RunTypeOK
<1>1. ASSUME RunInv PROVE RunTypeOK
  <2>1. TypeOK /\ Queue!TypeOK
    BY <1>1 DEF RunInv, AInv, Typed, Leased
  <2>2. \A w \in Workers :
          /\ worker[w].at # "idle" => owner[worker[w].lease].worker = w
          /\ worker[w].thread # NoThread => pc[worker[w].thread] \in {"update", "enqueue"}
    BY <1>1 DEF RunInv, Leaseholders, Holder
  <2> QED
    BY <1>1, <2>1, <2>2 DEF RunInv, RunTypeOK, Carried, Leaseholders, ReportsHeld, EndsHeld
<1> QED
  BY <1>1, RunInvariant, PTL

\* Two workers have one step of one registration only if one of their leases
\* has lapsed: the items carry each assignment once, the lease that an item
\* records is the one that runs, and it has one owner.
THEOREM StepsAreExclusive == RunSpec => []StepsExclusive
<1>1. ASSUME RunInv PROVE StepsExclusive
  <2> SUFFICES ASSUME NEW v \in Workers, NEW w \in Workers, v # w,
                      worker[v] # Idle, worker[w] # Idle, Work(v) = Work(w),
                      worker[v].lease \notin lapsed, worker[w].lease \notin lapsed
               PROVE  FALSE
    BY DEF StepsExclusive
  <2> DEFINE i == owner[worker[v].lease].item
             k == owner[worker[w].lease].item
  <2>1. worker[v].at # "idle" /\ worker[w].at # "idle"
    BY <1>1 DEF RunInv, Leaseholders, Holder
  <2>2. /\ worker[v].lease \in Queue!Granted \ returned /\ worker[v].lease \in LeaseIds
        /\ owner[worker[v].lease].worker = v /\ i \in 1..Len(what) /\ Work(v) = what[i]
    BY <1>1, <2>1, WorkFacts DEF RunInv
  <2>3. /\ worker[w].lease \in Queue!Granted \ returned /\ worker[w].lease \in LeaseIds
        /\ owner[worker[w].lease].worker = w /\ k \in 1..Len(what) /\ Work(w) = what[k]
    BY <1>1, <2>1, WorkFacts DEF RunInv
  <2>4. i = k
    BY <1>1, <2>2, <2>3 DEF RunInv, Carried
  <2>5. lease[i] = worker[v].lease /\ lease[k] = worker[w].lease
    BY <1>1, <2>2, <2>3 DEF RunInv, Leased, Queue!RunningIsRecorded, Queue!Running
  <2> QED
    BY <2>2, <2>3, <2>4, <2>5
<1> QED
  BY <1>1, RunInvariant, PTL

\* The number of an item that carries an assignment is one of the items.
LEMMA CarriersAreItems == RunInv => 1..Len(what) \subseteq ItemIds
<1> SUFFICES ASSUME RunInv PROVE 1..Len(what) \subseteq ItemIds
  OBVIOUS
<1>1. queued \subseteq Assignment /\ Len(what) = Cardinality(queued) /\ Len(what) \in Nat
  BY ItemFacts DEF RunInv, AInv, Typed, TypeOK, Carried
<1>2. /\ IsFiniteSet(Assignment) /\ Cardinality(Assignment) <= RegBound * Cardinality(StepIds)
      /\ Cardinality(queued) <= Cardinality(Assignment)
  BY <1>1, AssignmentsBounded, FS_Subset
<1>3. Cardinality(Assignment) \in Nat /\ Cardinality(StepIds) \in Nat
  BY <1>2, FS_CardinalityType, RunAssumption
<1>4. RegBound * Cardinality(StepIds) \in Nat
  BY <1>3, BoardAssumption
<1> QED
  BY <1>1, <1>2, <1>3, <1>4 DEF ItemIds

\* A step that was assigned has ended, or a thread is about to put it on the
\* queue, or an item carries it that is there still or that the store dropped:
\* an ack comes only after the report of the end was recorded.
THEOREM WorkIsNotLost == RunSpec => []WorkNotLost
<1>1. ASSUME RunInv PROVE WorkNotLost
  <2> SUFFICES ASSUME NEW j \in JobIds, Registered(j), NEW s \in entry[j].dispatched,
                      [reg |-> entry[j].reg, step |-> s] \notin AllTodo, ~Ended(j, s)
               PROVE  \E i \in ItemIds : /\ Carries(i, j, entry[j].reg, s)
                                         /\ i \in Queue!Present \/ Dropped(i)
    BY DEF WorkNotLost
  <2>1. [reg |-> entry[j].reg, step |-> s] \in queued
    BY <1>1 DEF RunInv, AInv, DispatchedIsAssigned
  <2>2. PICK i \in 1..Len(what) : what[i].reg = entry[j].reg /\ what[i].step = s
    BY <1>1, <2>1 DEF RunInv, Carried
  <2>3. what[i] \in Item /\ what[i].job = j
    BY <1>1, <2>2, ItemFacts DEF RunInv, JobsNamed, RegOf, Registered
  <2>4. i \in ItemIds /\ Carries(i, j, entry[j].reg, s)
    BY <1>1, <2>2, <2>3, CarriersAreItems, ItemFacts DEF RunInv, Carries, Item
  <2>5. stage[i] \in {"available", "leased", "gone"}
    <3>1. stage[i] # "absent"
      BY <1>1, <2>4 DEF RunInv, Carried, Carries
    <3>2. stage[i] \in {"absent", "available", "leased", "gone"}
      BY <1>1, <2>4 DEF RunInv, Leased, Queue!TypeOK
    <3> QED
      BY <3>1, <3>2
  <2>6. ASSUME NEW l \in returned PROVE owner[l].item # i
    <3>1. HasEnded(entry, achieved, what[owner[l].item])
      BY <1>1, <2>6 DEF RunInv, Reporting
    <3> QED
      BY <2>2, <2>3, <3>1 DEF HasEnded, Ended, Registered
  <2> QED
    BY <2>4, <2>5, <2>6 DEF Queue!Present, Dropped
<1> QED
  BY <1>1, RunInvariant, PTL

\* A step that has ended is reopened only if the report that reopens it or the one
\* that ended it was late: two leases on the step, of its present registration,
\* that have not lapsed are one, and all there is to report under the lease of
\* the report that ended the step is an end.
THEOREM ReopenedByLateReports == RunSpec => ReopenedOnlyLate
<1> DEFINE OnlyLate ==
      \A j \in JobIds :
        Registered(j) /\ entry'[j].reg = entry[j].reg =>
          \A s \in Steps(entry[j].job) :
            entry[j].st.status[s] \in Terminal /\ entry'[j].st.status[s] \notin Terminal
              => \E t \in Threads : /\ Reopens(t, j, s)
                                    /\ Late(j, via[t]) \/ Late(j, ender[j][s])
<1>1. ASSUME RunInv, [RunNext]_runVars PROVE OnlyLate
  <2> SUFFICES ASSUME NEW j \in JobIds, Registered(j), entry'[j].reg = entry[j].reg,
                      NEW s \in Steps(entry[j].job), entry[j].st.status[s] \in Terminal,
                      entry'[j].st.status[s] \notin Terminal
               PROVE  \E t \in Threads : /\ Reopens(t, j, s)
                                         /\ Late(j, via[t]) \/ Late(j, ender[j][s])
    OBVIOUS
  <2>1. /\ Typed /\ regs \in Nat /\ entry[j].reg \in 0..regs
        /\ EndedBy(j, s, ender[j][s])
    BY <1>1, RegFacts DEF RunInv, AInv, EndsHeld
  <2>2. entry'[j] # entry[j]
    OBVIOUS
  <2>3. PICK t \in Threads : Update(t)
    <3>1. ~Quiet /\ ~ServerRestart
      BY <2>2 DEF Quiet, ServerRestart, Restart, NoEntry, Registered
    <3>2. ASSUME NEW t \in Threads PROVE ~Put(t)
      BY <2>2 DEF Put, Enqueue, board
    <3>3. ASSUME NEW w \in Workers PROVE ~Claim(w)
      BY <2>2 DEF Claim, vars
    <3>4. ASSUME NEW t \in Threads, Register(t) PROVE FALSE
      <4>1. j # request[t].id => entry'[j] = entry[j]
        BY <2>1, <3>4, RegisterFacts
      <4>2. j = request[t].id => entry'[j].reg = regs + 1
        BY <2>1, <3>4, RegisterFacts
      <4> QED
        BY <2>1, <2>2, <4>1, <4>2
    <3>5. ASSUME NEW w \in Workers, NEW t \in Threads, NEW status \in Reports
          PROVE  ~Accepted(w, t, status)
      BY <2>2 DEF Accepted
    <3> QED
      BY <1>1, <3>1, <3>2, <3>3, <3>4, <3>5, StepKinds
  <2>4. /\ j = request[t].id /\ s = request[t].step /\ pc[t] = "update" /\ pc'[t] # "update"
        /\ request[t].status \notin Terminal
    <3>1. j = request[t].id /\ pc[t] = "update" /\ pc'[t] # "update"
          /\ entry'[j].job = entry[j].job
      BY <2>1, <2>2, <2>3, UpdateFacts
    <3>2. s = request[t].step
      <4>1. s # request[t].step => entry'[j].st.status[s] = entry[j].st.status[s]
        BY <2>1, <2>3, <3>1, UpdateFacts
      <4> QED
        BY <4>1
    <3>3. entry'[j].st.status[s] = request[t].status
      BY <2>1, <2>3, <3>1, <3>2, UpdateFacts
    <3> QED
      BY <3>1, <3>2, <3>3
  <2>5. Reopens(t, j, s)
    BY <2>4 DEF Reopens
  <2>6. ASSUME ~Late(j, via[t]), ~Late(j, ender[j][s]) PROVE FALSE
    <3> DEFINE l == via[t]
               k == ender[j][s]
    <3>1. /\ l \in Queue!Granted \ lapsed
          /\ what[owner[l].item].job = j /\ what[owner[l].item].step = s
          /\ ~(what[owner[l].item].reg < entry[j].reg)
      BY <1>1, <2>4, <2>6 DEF RunInv, ReportsHeld, Recording, Late
    <3>2. /\ k \in Queue!Granted \ lapsed
          /\ what[owner[k].item].job = j /\ what[owner[k].item].step = s
          /\ ~(what[owner[k].item].reg < entry[j].reg)
          /\ \A u \in Threads : pc[u] = "update" /\ via[u] = k => request[u].status \in Terminal
      BY <2>1, <2>6 DEF EndedBy, Late
    <3> HIDE DEF l, k
    <3>3. ASSUME NEW m \in {l, k}
          PROVE  /\ owner[m].item \in 1..Len(what)
                 /\ what[owner[m].item].reg = entry[j].reg
      <4>1. owner[m].item \in 1..Len(what)
        BY <1>1, <3>1, <3>2, ItemFacts DEF RunInv
      <4>2. what[owner[m].item].reg <= entry[j].reg /\ what[owner[m].item].reg \in Nat
        BY <1>1, <3>1, <3>2, <4>1, RegFacts DEF RunInv, JobsNamed, RegOf, Registered
      <4> QED
        BY <2>1, <3>1, <3>2, <4>1, <4>2
    <3>4. owner[l].item = owner[k].item
      BY <1>1, <3>1, <3>2, <3>3 DEF RunInv, Carried
    <3>5. l = k
      BY <1>1, <3>1, <3>2, <3>4 DEF RunInv, UnlapsedIsLast
    <3> QED
      BY <2>4, <3>2, <3>5 DEF l
  <2> QED
    BY <2>5, <2>6
<1>2. ASSUME RunInv, [RunNext]_runVars PROVE [OnlyLate]_runVars
  BY <1>1, <1>2
<1> QED
  BY <1>2, RunInvariant, PTL DEF RunSpec, ReopenedOnlyLate

\* The registry runs as JobBoard says, whatever the workers do; so all that is
\* proved of it holds of the composition.
THEOREM RunsOfBoard == RunSpec => Spec
<1>1. RunInit => Init
  BY DEF RunInit
<1>2. RunInv /\ [RunNext]_runVars => [Next]_vars
  BY BoardSteps
<1> QED
  BY <1>1, <1>2, RunInvariant, PTL DEF RunSpec, Spec

\* The queue runs as WorkLease says, so the leases exclude each other.
THEOREM RunsOfQueue == RunSpec => Queue!Spec
<1>1. RunInit => Queue!Init
  BY DEF RunInit
<1>2. RunInv /\ [RunNext]_runVars => [Queue!Next]_queue
  BY QueueSteps
<1> QED
  BY <1>1, <1>2, RunInvariant, PTL DEF RunSpec, Queue!Spec, Queue!vars, queue

=============================================================================
