---------------------------- MODULE ResponseRace ----------------------------
(***************************************************************************)
(* The replies of the handlers of server.py, at the grain of single        *)
(* assignments.  A handler changes the fields of a message one by one      *)
(* under _bus_lock, gives the lock back, and then lets jsonify read the    *)
(* same dictionary: the reply may show it while another thread is halfway  *)
(* through a claim or a release.  (MessageBus has each lock section as one *)
(* step, so it never shows a message that is half written.)                *)
(*                                                                         *)
(* One message of one queue, from its post until its last reply.  The      *)
(* fields are read in one step: the encoder takes the items of a           *)
(* dictionary at once.  A lease id is named by its position in the order   *)
(* of the claims.                                                          *)
(***************************************************************************)
EXTENDS Integers, Sequences

CONSTANTS
  Threads,    \* request threads of the server
  Workers,    \* worker names that claims carry
  Span,       \* lease_seconds of the claims
  ClaimBound, \* bound of the model: leases ever granted
  ClockBound  \* bound of the model: last second of the clock

NoLease == 0
Nobody == "nobody"
NoThread == "no thread"

ASSUME RaceAssumption ==
  /\ Nobody \notin Workers
  /\ NoThread \notin Threads
  /\ Span \in Nat \ {0}
  /\ ClaimBound \in Nat
  /\ ClockBound \in Nat

LeaseIds == 1..ClaimBound
Times == 0..(ClockBound + Span)

\* The fields that the lease code assigns, in the order of the assignments.
Message == [status : {"pending", "leased"}, leased_by : Workers \cup {Nobody},
            lease_until : Times, lease_id : LeaseIds \cup {NoLease}]

Kinds == {"post", "poll", "claim", "ack", "nack"}
Request == [kind : Kinds, worker : Workers \cup {Nobody}, lease : LeaseIds \cup {NoLease}]

VARIABLES
  clock,     \* time.time(), in seconds
  place,     \* of the message: "new", in the "list", or "gone" from it
  message,   \* the dictionary
  lock,      \* the thread that holds _bus_lock, or NoThread
  pc,        \* where each thread is in its handler
  request,   \* the request it handles; of a claim, the lease it was granted
  now,       \* its reading of the clock
  todo,      \* the assignments it has still to make in its lock section
  granted,   \* what each lease wrote to the message when it was granted
  returned,  \* history: the leases that were acked or nacked
  known,     \* the leases whose ids some reply has shown
  reply      \* the last reply of each thread, a message or NoReply

leases == <<granted, returned, known>>
vars == <<clock, place, message, lock, pc, request, now, todo, leases, reply>>

Blank == [status |-> "pending", leased_by |-> Nobody,
          lease_until |-> 0, lease_id |-> NoLease]

NoReply == [Blank EXCEPT !.status = "none"]
NoRequest == [kind |-> "poll", worker |-> Nobody, lease |-> NoLease]

TypeOK ==
  /\ clock \in 0..ClockBound
  /\ place \in {"new", "list", "gone"}
  /\ message \in Message
  /\ lock \in Threads \cup {NoThread}
  /\ pc \in [Threads -> {"idle", "append", "prune", "pruning", "section", "writing", "reply"}]
  /\ request \in [Threads -> Request]
  /\ now \in [Threads -> 0..clock]
  /\ \A t \in Threads :
       /\ pc[t] \in {"pruning", "writing"} <=> lock = t
       /\ lock # t => todo[t] = << >>
  /\ granted \in Seq(Message) /\ Len(granted) <= ClaimBound
  /\ returned \cup known \subseteq 1..Len(granted)
  /\ \A t \in Threads : reply[t] \in Message \cup {NoReply}

Init ==
  /\ clock = 0
  /\ place = "new"
  /\ message = Blank
  /\ lock = NoThread
  /\ pc = [t \in Threads |-> "idle"]
  /\ request = [t \in Threads |-> NoRequest]
  /\ now = [t \in Threads |-> 0]
  /\ todo = [t \in Threads |-> << >>]
  /\ granted = << >>
  /\ returned = {}
  /\ known = {}
  /\ reply = [t \in Threads |-> NoReply]

-----------------------------------------------------------------------------
(* The assignments.                                                        *)

Assign(field, value) == [field |-> field, value |-> value]

\* Mutant: a release that forgets the lease id.
ReleaseKeepsId ==
  << Assign("status", "pending"), Assign("leased_by", Nobody), Assign("lease_until", 0) >>

\* Mutant: a release that misspells the status.
ReleaseMisspelt ==
  << Assign("status", "available"), Assign("leased_by", Nobody),
     Assign("lease_until", 0), Assign("lease_id", NoLease) >>

Release ==
  << Assign("status", "pending"), Assign("leased_by", Nobody),
     Assign("lease_until", 0), Assign("lease_id", NoLease) >>

Leased(w, until, l) ==
  [status |-> "leased", leased_by |-> w, lease_until |-> until, lease_id |-> l]

Grant(r) ==
  << Assign("status", r.status), Assign("leased_by", r.leased_by),
     Assign("lease_until", r.lease_until), Assign("lease_id", r.lease_id) >>

Overdue(t) == message.status = "leased" /\ message.lease_until <= now[t]

Go(t, stage) == pc' = [pc EXCEPT ![t] = stage]

\* Thread t takes the lock to make the assignments of S.
Enter(t, stage, S) ==
  /\ lock' = t
  /\ todo' = [todo EXCEPT ![t] = S]
  /\ Go(t, stage)

Write(t) ==
  /\ todo[t] # << >>
  /\ message' = [message EXCEPT ![Head(todo[t]).field] = Head(todo[t]).value]
  /\ todo' = [todo EXCEPT ![t] = Tail(todo[t])]
  /\ UNCHANGED <<clock, place, lock, pc, request, now, leases, reply>>

-----------------------------------------------------------------------------
(* The handlers.                                                           *)

\* An ack or nack carries a lease that some reply has shown, with its worker:
\* others are refused and change nothing.
Requests ==
  {r \in Request :
     \/ r.kind = "post" /\ place = "new" /\ r.worker = Nobody /\ r.lease = NoLease
     \/ r.kind = "poll" /\ r.worker = Nobody /\ r.lease = NoLease
     \/ r.kind = "claim" /\ r.worker # Nobody /\ r.lease = NoLease
     \/ /\ r.kind \in {"ack", "nack"}
        /\ r.lease \in known /\ r.worker = granted[r.lease].leased_by}

\* The handler reads the clock, a claim when it starts and the others when
\* they come to their prune.  The post appends its message before.
Receive(t, r) ==
  /\ pc[t] = "idle"
  /\ r \in Requests
  /\ request' = [request EXCEPT ![t] = r]
  /\ now' = [now EXCEPT ![t] = clock]
  /\ reply' = [reply EXCEPT ![t] = NoReply]
  /\ Go(t, IF r.kind = "post" THEN "append" ELSE "prune")
  /\ UNCHANGED <<clock, place, message, lock, todo, leases>>

PostAppend(t) ==
  /\ pc[t] = "append" /\ lock = NoThread /\ place = "new"
  /\ place' = "list"
  /\ now' = [now EXCEPT ![t] = clock]
  /\ Go(t, "prune")
  /\ UNCHANGED <<clock, message, lock, request, todo, leases, reply>>

\* _bus_prune releases the lease that is over...
PruneStart(t) ==
  /\ pc[t] = "prune" /\ lock = NoThread
  /\ Enter(t, "pruning", IF place = "list" /\ Overdue(t) THEN Release ELSE << >>)
  /\ UNCHANGED <<clock, place, message, request, now, leases, reply>>

\* ... and drops the message if it has expired.
PruneEnd(t) ==
  /\ pc[t] = "pruning" /\ todo[t] = << >>
  /\ place' \in {place} \cup (IF place = "list" THEN {"gone"} ELSE {})
  /\ lock' = NoThread
  /\ Go(t, IF request[t].kind = "post" THEN "reply" ELSE "section")
  /\ UNCHANGED <<clock, message, request, now, todo, leases, reply>>

\* The reply says that there is no such message, or that the lease is not it.
Refuse(t) ==
  /\ Go(t, "idle")
  /\ UNCHANGED <<clock, place, message, lock, request, now, todo, leases, reply>>

PollRead(t) ==
  /\ pc[t] = "section" /\ request[t].kind = "poll" /\ lock = NoThread
  /\ \/ place # "list" /\ Refuse(t)
     \/ /\ place = "list"
        /\ Go(t, "reply")
        /\ UNCHANGED <<clock, place, message, lock, request, now, todo, leases, reply>>

\* Mutant: a claim writes its lease over the one that is over.
ClaimWritesOver(t, r) == Grant(r)

\* A claim releases the lease that is over before it writes its own.
ClaimWrites(t, r) == (IF Overdue(t) THEN Release ELSE << >>) \o Grant(r)

Claimable(t) == place = "list" /\ (message.status = "pending" \/ Overdue(t))

ClaimSection(t) ==
  LET l == Len(granted) + 1
      r == Leased(request[t].worker, now[t] + Span, l)
  IN
  /\ pc[t] = "section" /\ request[t].kind = "claim" /\ lock = NoThread
  /\ \/ ~Claimable(t) /\ Refuse(t)
     \/ /\ Claimable(t) /\ l \in LeaseIds
        /\ Enter(t, "writing", ClaimWrites(t, r))
        /\ granted' = Append(granted, r)
        /\ request' = [request EXCEPT ![t].lease = l]
        /\ UNCHANGED <<clock, place, message, now, returned, known, reply>>

\* Mutant: the lease_id is not looked at.
HoldsAny(t) ==
  place = "list" /\ message.status = "leased" /\ message.leased_by = request[t].worker

Holds(t) ==
  /\ place = "list" /\ message.status = "leased"
  /\ message.leased_by = request[t].worker /\ message.lease_id = request[t].lease

\* An ack takes the message out of the list, a nack releases it.
AckSection(t) ==
  /\ pc[t] = "section" /\ request[t].kind \in {"ack", "nack"} /\ lock = NoThread
  /\ \/ ~Holds(t) /\ Refuse(t)
     \/ /\ Holds(t)
        /\ returned' = returned \cup {request[t].lease}
        /\ \/ request[t].kind = "ack" /\ place' = "gone" /\ Enter(t, "writing", << >>)
           \/ request[t].kind = "nack" /\ UNCHANGED place /\ Enter(t, "writing", Release)
        /\ UNCHANGED <<clock, message, request, now, granted, known, reply>>

SectionEnd(t) ==
  /\ pc[t] = "writing" /\ todo[t] = << >>
  /\ lock' = NoThread
  /\ Go(t, "reply")
  /\ UNCHANGED <<clock, place, message, request, now, todo, leases, reply>>

\* jsonify reads the dictionary, whoever holds the lock.
Reply(t) ==
  /\ pc[t] = "reply"
  /\ reply' = [reply EXCEPT ![t] = message]
  /\ known' = known \cup ({message.lease_id} \ {NoLease})
  /\ Go(t, "idle")
  /\ UNCHANGED <<clock, place, message, lock, request, now, todo, granted, returned>>

Tick ==
  /\ clock < ClockBound
  /\ clock' = clock + 1
  /\ UNCHANGED <<place, message, lock, pc, request, now, todo, leases, reply>>

Next ==
  \/ \E t \in Threads :
       \/ \E r \in Request : Receive(t, r)
       \/ PostAppend(t) \/ PruneStart(t) \/ PruneEnd(t)
       \/ PollRead(t) \/ ClaimSection(t) \/ AckSection(t)
       \/ Write(t) \/ SectionEnd(t) \/ Reply(t)
  \/ Tick

Spec == Init /\ [][Next]_vars

-----------------------------------------------------------------------------
(* Properties.                                                             *)

\* Whatever a reply shows of a lease is of one lease: the worker, the time and
\* the id that it shows were granted together.  Fields may be missing.
NoMixedReply ==
  \A t \in Threads :
    LET r == reply[t]
        none == r.leased_by = Nobody /\ r.lease_until = 0 /\ r.lease_id = NoLease
    IN  none \/ \E l \in 1..Len(granted) :
                  /\ r.leased_by \in {Nobody, granted[l].leased_by}
                  /\ r.lease_until \in {0, granted[l].lease_until}
                  /\ r.lease_id \in {NoLease, l}

\* What a reply says of the lease it is about: an ack shows it, for nobody
\* changes a removed message; a nack does not show its id; a claim shows it
\* unless it has been given up or is over since.
RepliesTellOutcome ==
  \A t \in Threads :
    reply[t] # NoReply =>
      LET r == reply[t]
          q == request[t]
      IN  /\ q.kind = "ack" => r = granted[q.lease]
          /\ q.kind = "nack" => r.lease_id # q.lease
          /\ q.kind = "claim" => \/ r = granted[q.lease]
                                 \/ q.lease \in returned
                                 \/ granted[q.lease].lease_until <= clock

-----------------------------------------------------------------------------
(* The assignments of a lock section amount to one step: the message       *)
(* implements the leases of WorkLease, as those of MessageBus do, whose    *)
(* lock sections are single steps.                                         *)

\* What the message is once the section under way has made its assignments, the
\* last of which is to the lease id.
Target ==
  IF lock = NoThread \/ todo[lock] = << >> THEN message
  ELSE LET l == todo[lock][Len(todo[lock])].value
       IN  IF l = NoLease THEN Blank ELSE granted[l]

Stage ==
  CASE place = "new" -> "absent"
    [] place = "gone" -> "gone"
    [] place = "list" -> IF Target.status = "leased" THEN "leased" ELSE "available"

OwnerOf(l) == IF l \in 1..Len(granted) THEN [item |-> 1, worker |-> granted[l].leased_by]
              ELSE [item |-> 0, worker |-> Nobody]

Lease == INSTANCE WorkLease WITH
  Items <- {1}, Leases <- LeaseIds, Workers <- Workers,
  stage <- [i \in {1} |-> Stage],
  lease <- [i \in {1} |-> Target.lease_id],
  owner <- [l \in LeaseIds |-> OwnerOf(l)],
  returned <- returned,
  lapsed <- {l \in 1..Len(granted) : granted[l].lease_until <= clock}

\* Whoever takes the lock finds the message as if each section before had made
\* all its assignments at once: every behaviour, assignment by assignment, is
\* one of the abstract leases.
ImplementsWorkLease == Lease!Spec

=============================================================================
