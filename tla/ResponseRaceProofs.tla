-------------------------- MODULE ResponseRaceProofs --------------------------
(***************************************************************************)
(* Proofs about ResponseRace, for any number of threads, workers and       *)
(* leases: whatever a reply reads while others write, it is of one lease.  *)
(***************************************************************************)
EXTENDS ResponseRace, SequenceTheorems, TLAPS

USE RaceAssumption

-----------------------------------------------------------------------------
(* The inductive invariant.                                                *)

Granted == 1..Len(granted)

\* What the latest lease writes to the message.
Newest == granted[Len(granted)]

\* Each lease writes its own id.
LeasesTyped ==
  \A l \in Granted : granted[l].status = "leased" /\ granted[l].lease_id = l

\* The message with all but the first k - 1 fields of the next one written.
Midway(k, old, next) ==
  [status |-> IF k > 1 THEN next.status ELSE old.status,
   leased_by |-> IF k > 2 THEN next.leased_by ELSE old.leased_by,
   lease_until |-> IF k > 3 THEN next.lease_until ELSE old.lease_until,
   lease_id |-> IF k > 4 THEN next.lease_id ELSE old.lease_id]

\* The assignments that are left when k - 1 of the next message are made.
Left(k, next) ==
  CASE k = 1 -> << Assign("status", next.status), Assign("leased_by", next.leased_by),
                   Assign("lease_until", next.lease_until), Assign("lease_id", next.lease_id) >>
    [] k = 2 -> << Assign("leased_by", next.leased_by),
                   Assign("lease_until", next.lease_until), Assign("lease_id", next.lease_id) >>
    [] k = 3 -> << Assign("lease_until", next.lease_until), Assign("lease_id", next.lease_id) >>
    [] k = 4 -> << Assign("lease_id", next.lease_id) >>

\* The same, if another message is to be written after that.
LeftOfBoth(k, next) ==
  CASE k = 1 -> << Assign("status", "pending"), Assign("leased_by", Nobody),
                   Assign("lease_until", 0), Assign("lease_id", NoLease),
                   Assign("status", next.status), Assign("leased_by", next.leased_by),
                   Assign("lease_until", next.lease_until), Assign("lease_id", next.lease_id) >>
    [] k = 2 -> << Assign("leased_by", Nobody),
                   Assign("lease_until", 0), Assign("lease_id", NoLease),
                   Assign("status", next.status), Assign("leased_by", next.leased_by),
                   Assign("lease_until", next.lease_until), Assign("lease_id", next.lease_id) >>
    [] k = 3 -> << Assign("lease_until", 0), Assign("lease_id", NoLease),
                   Assign("status", next.status), Assign("leased_by", next.leased_by),
                   Assign("lease_until", next.lease_until), Assign("lease_id", next.lease_id) >>
    [] k = 4 -> << Assign("lease_id", NoLease),
                   Assign("status", next.status), Assign("leased_by", next.leased_by),
                   Assign("lease_until", next.lease_until), Assign("lease_id", next.lease_id) >>

\* The lease was given back, or its time is over.
GivenUp(l) == l \in returned \/ granted[l].lease_until <= clock

\* No assignment is under way: the message is not leased, or shows one lease.
Settled == message = Blank \/ \E l \in Granted : message = granted[l]

\* The thread's section is that of a request of this kind.
Serves(t, kind) == pc[t] = "writing" /\ request[t].kind = kind

\* The claim that granted the latest lease, which no reply has shown.
Claims(t) ==
  /\ Serves(t, "claim") /\ request[t].lease = Len(granted)
  /\ Len(granted) \in LeaseIds /\ Len(granted) \notin known

\* Thread t has made k - 1 assignments of a release, and grants nothing after.
Releases(t, k) ==
  /\ ~Serves(t, "claim") /\ ~Serves(t, "ack")
  /\ \E l \in Granted : GivenUp(l) /\ message = Midway(k, granted[l], Blank)
  /\ todo[t] = Left(k, Blank)

\* The same, before it writes the latest lease.
ReleasesToGrant(t, k) ==
  /\ Claims(t)
  /\ \E l \in Granted : /\ l # Len(granted) /\ GivenUp(l)
                        /\ message = Midway(k, granted[l], Blank)
  /\ todo[t] = LeftOfBoth(k, Newest)

\* Thread t has made k - 1 assignments of the latest lease.
Grants(t, k) ==
  /\ Claims(t)
  /\ message = Midway(k, Blank, Newest)
  /\ todo[t] = Left(k, Newest)

\* Thread t has written all, or had nothing to write.
Wrote(t) ==
  /\ todo[t] = << >>
  /\ Settled
  /\ Serves(t, "claim") => request[t].lease \in Granted /\ message = granted[request[t].lease]
  /\ Serves(t, "nack") => message = Blank
  /\ Serves(t, "ack") => place = "gone" /\ message = granted[request[t].lease]

Writing(t) ==
  \/ Wrote(t)
  \/ /\ place = "list"
     /\ \E k \in 1..4 : Releases(t, k) \/ ReleasesToGrant(t, k) \/ Grants(t, k)

\* The message is written by the thread that holds the lock, and by it only.
OneWriter ==
  /\ lock = NoThread => Settled
  /\ \A t \in Threads : lock = t => Writing(t)

\* What the request of thread t is about.
RequestTyped(t) ==
  /\ pc[t] # "idle" => reply[t] = NoReply
  /\ pc[t] = "append" => request[t].kind = "post"
  /\ pc[t] = "writing" => request[t].kind \in {"claim", "ack", "nack"}
  /\ request[t].kind \in {"ack", "nack"} => request[t].lease \in known
  /\ (pc[t] = "reply" \/ reply[t] # NoReply) /\ request[t].kind = "claim" =>
       request[t].lease \in Granted

\* What the reply of thread t will show, whoever writes before it is read.
Outcome(t) ==
  pc[t] = "reply" =>
    /\ request[t].kind = "ack" => place = "gone" /\ message = granted[request[t].lease]
    /\ request[t].kind = "nack" => message.lease_id # request[t].lease
    /\ request[t].kind = "claim" => \/ message = granted[request[t].lease]
                                    \/ GivenUp(request[t].lease)

\* What the two properties say of the last reply of thread t.
OneLease(t) ==
  \/ /\ reply[t].leased_by = Nobody /\ reply[t].lease_until = 0
     /\ reply[t].lease_id = NoLease
  \/ \E l \in Granted : /\ reply[t].leased_by \in {Nobody, granted[l].leased_by}
                        /\ reply[t].lease_until \in {0, granted[l].lease_until}
                        /\ reply[t].lease_id \in {NoLease, l}

Tells(t) ==
  reply[t] # NoReply =>
    /\ request[t].kind = "ack" => reply[t] = granted[request[t].lease]
    /\ request[t].kind = "nack" => reply[t].lease_id # request[t].lease
    /\ request[t].kind = "claim" => \/ reply[t] = granted[request[t].lease]
                                    \/ GivenUp(request[t].lease)

Right(t) == RequestTyped(t) /\ Outcome(t) /\ OneLease(t) /\ Tells(t)

\* What TypeOK leaves open.
Shaped ==
  /\ todo = [t \in Threads |-> todo[t]]
  /\ reply = [t \in Threads |-> reply[t]]

RaceInv ==
  /\ TypeOK /\ Shaped /\ LeasesTyped /\ OneWriter
  /\ \A t \in Threads : Right(t)

-----------------------------------------------------------------------------
(* The message and the assignments to it.                                  *)

\* The concatenation of two short sequences.
LEMMA ConcatFour ==
  ASSUME NEW a, NEW b, NEW c, NEW d, NEW e, NEW f, NEW g, NEW h
  PROVE  <<a, b, c, d>> \o <<e, f, g, h>> = <<a, b, c, d, e, f, g, h>>
<1> DEFINE S == {a, b, c, d, e, f, g, h}
           s == <<a, b, c, d>>
           t == <<e, f, g, h>>
           u == <<a, b, c, d, e, f, g, h>>
<1>1. /\ s \in Seq(S) /\ t \in Seq(S) /\ u \in Seq(S)
      /\ Len(s) = 4 /\ Len(t) = 4 /\ Len(u) = 8
  OBVIOUS
<1>2. /\ Len(s \o t) = 8 /\ s \o t \in Seq(S)
      /\ \A i \in 1..8 : (s \o t)[i] = IF i <= 4 THEN s[i] ELSE t[i - 4]
  BY <1>1, ConcatProperties
<1>3. \A i \in 1..8 : (s \o t)[i] = u[i]
  BY <1>2
<1>4. ASSUME NEW v, v \in Seq(S), Len(v) = 8, \A i \in 1..8 : v[i] = u[i]
      PROVE  v = u
  BY <1>1, <1>4, SeqEqual
<1> QED
  BY <1>2, <1>3, <1>4

\* A release and a grant assign all fields of a message.
LEMMA AllLeft ==
  /\ Release = Left(1, Blank)
  /\ \A r : Grant(r) = Left(1, r)
  /\ \A r : Release \o Grant(r) = LeftOfBoth(1, r)
BY ConcatFour DEF Release, Grant, Left, LeftOfBoth, Blank

\* A grant with nothing before it.
LEMMA NothingThenGrant == ASSUME NEW r PROVE << >> \o Grant(r) = Grant(r)
<1> DEFINE S == {Assign("status", r.status), Assign("leased_by", r.leased_by),
                 Assign("lease_until", r.lease_until), Assign("lease_id", r.lease_id)}
<1>1. Grant(r) \in Seq(S)
  BY DEF Grant
<1> QED
  BY <1>1, ConcatEmptySeq

\* A message before its first and after its last assignment.
LEMMA Ends ==
  ASSUME NEW old \in Message, NEW next \in Message
  PROVE  Midway(1, old, next) = old /\ Midway(5, old, next) = next
BY DEF Midway, Message

\* The message that is not leased is a message.
LEMMA BlankType == Blank \in Message
BY DEF Blank, Message, Times

\* What one assignment does.
LEMMA Assigned ==
  ASSUME NEW t, Write(t), NEW old \in Message, NEW next \in Message,
         NEW k \in 1..4, message = Midway(k, old, next),
         \/ k = 1 /\ Head(todo[t]) = Assign("status", next.status)
         \/ k = 2 /\ Head(todo[t]) = Assign("leased_by", next.leased_by)
         \/ k = 3 /\ Head(todo[t]) = Assign("lease_until", next.lease_until)
         \/ k = 4 /\ Head(todo[t]) = Assign("lease_id", next.lease_id)
  PROVE  message' = Midway(k + 1, old, next) /\ message' \in Message
<1>1. CASE k = 1 /\ Head(todo[t]) = Assign("status", next.status)
  <2>1. message' = [message EXCEPT !.status = next.status]
    BY <1>1 DEF Write, Assign
  <2> QED
    BY <1>1, <2>1 DEF Midway, Message
<1>2. CASE k = 2 /\ Head(todo[t]) = Assign("leased_by", next.leased_by)
  <2>1. message' = [message EXCEPT !.leased_by = next.leased_by]
    BY <1>2 DEF Write, Assign
  <2> QED
    BY <1>2, <2>1 DEF Midway, Message
<1>3. CASE k = 3 /\ Head(todo[t]) = Assign("lease_until", next.lease_until)
  <2>1. message' = [message EXCEPT !.lease_until = next.lease_until]
    BY <1>3 DEF Write, Assign
  <2> QED
    BY <1>3, <2>1 DEF Midway, Message
<1>4. CASE k = 4 /\ Head(todo[t]) = Assign("lease_id", next.lease_id)
  <2>1. message' = [message EXCEPT !.lease_id = next.lease_id]
    BY <1>4 DEF Write, Assign
  <2> QED
    BY <1>4, <2>1 DEF Midway, Message
<1> QED
  BY <1>1, <1>2, <1>3, <1>4

\* The first of the assignments that are left, and the others.
LEMMA HeadAndTail ==
  ASSUME NEW r
  PROVE  /\ Head(Left(1, r)) = Assign("status", r.status) /\ Tail(Left(1, r)) = Left(2, r)
         /\ Head(Left(2, r)) = Assign("leased_by", r.leased_by) /\ Tail(Left(2, r)) = Left(3, r)
         /\ Head(Left(3, r)) = Assign("lease_until", r.lease_until)
         /\ Tail(Left(3, r)) = Left(4, r)
         /\ Head(Left(4, r)) = Assign("lease_id", r.lease_id) /\ Tail(Left(4, r)) = << >>
         /\ \A k \in 1..4 : Left(k, r) # << >>
BY DEF Left

\* The same of the assignments of thread t.
LEMMA Todo ==
  ASSUME NEW t, NEW k \in 1..4, NEW r, todo[t] = Left(k, r)
  PROVE  /\ \/ k = 1 /\ Head(todo[t]) = Assign("status", r.status)
            \/ k = 2 /\ Head(todo[t]) = Assign("leased_by", r.leased_by)
            \/ k = 3 /\ Head(todo[t]) = Assign("lease_until", r.lease_until)
            \/ k = 4 /\ Head(todo[t]) = Assign("lease_id", r.lease_id)
         /\ Tail(todo[t]) = (IF k = 4 THEN << >> ELSE Left(k + 1, r))
         /\ k # 4 => k + 1 \in 1..4
<1>1. CASE k = 1
  BY <1>1, HeadAndTail
<1>2. CASE k = 2
  BY <1>2, HeadAndTail
<1>3. CASE k = 3
  BY <1>3, HeadAndTail
<1>4. CASE k = 4
  BY <1>4, HeadAndTail
<1> QED
  BY <1>1, <1>2, <1>3, <1>4

\* The same if another message is to be written after that.
LEMMA HeadAndTailOfBoth ==
  ASSUME NEW r
  PROVE  /\ Head(LeftOfBoth(1, r)) = Assign("status", Blank.status)
         /\ Tail(LeftOfBoth(1, r)) = LeftOfBoth(2, r)
         /\ Head(LeftOfBoth(2, r)) = Assign("leased_by", Blank.leased_by)
         /\ Tail(LeftOfBoth(2, r)) = LeftOfBoth(3, r)
         /\ Head(LeftOfBoth(3, r)) = Assign("lease_until", Blank.lease_until)
         /\ Tail(LeftOfBoth(3, r)) = LeftOfBoth(4, r)
         /\ Head(LeftOfBoth(4, r)) = Assign("lease_id", Blank.lease_id)
         /\ Tail(LeftOfBoth(4, r)) = Left(1, r)
         /\ \A k \in 1..4 : LeftOfBoth(k, r) # << >>
BY DEF LeftOfBoth, Left, Blank

-----------------------------------------------------------------------------
(* What steps leave alone.                                                 *)

\* Time passes and leases are granted and given up, for good.
Grows ==
  /\ clock' \in Nat /\ clock <= clock'
  /\ returned \subseteq returned'
  /\ Len(granted') \in Nat /\ Len(granted) <= Len(granted')
  /\ \A l \in Granted : granted'[l] = granted[l]

\* Only thread t does something.
Moves(t) ==
  \A u \in Threads \ {t} : /\ pc'[u] = pc[u] /\ request'[u] = request[u]
                           /\ reply'[u] = reply[u] /\ todo'[u] = todo[u]

\* The state in terms that the provers like.
LEMMA Types ==
  ASSUME TypeOK
  PROVE  /\ clock \in Nat /\ clock <= ClockBound
         /\ Len(granted) \in Nat /\ Len(granted) <= ClaimBound
         /\ \A l \in Granted : granted[l] \in Message
         /\ \A t \in Threads : now[t] \in Nat /\ now[t] <= clock
         /\ known \subseteq Granted /\ returned \subseteq Granted
<1>1. granted \in Seq(Message)
  BY DEF TypeOK
<1>2. Len(granted) \in Nat /\ \A l \in 1..Len(granted) : granted[l] \in Message
  BY <1>1, ElementOfSeq, LenProperties
<1> QED
  BY <1>2 DEF TypeOK, Granted

\* Leases stay given up.
LEMMA StayGivenUp ==
  ASSUME TypeOK, Grows, NEW l \in Granted
  PROVE  l \in Granted' /\ (GivenUp(l) => GivenUp(l)')
<1>1. granted[l].lease_until \in Int
  BY Types DEF Message, Times
<1> QED
  BY <1>1, Types DEF Grows, GivenUp, Granted

\* What holds of a thread that does nothing still holds.
LEMMA OthersKept ==
  ASSUME RaceInv, Grows, known \subseteq known', NEW t \in Threads,
         pc'[t] = pc[t], request'[t] = request[t], reply'[t] = reply[t],
         Outcome(t)' \/ (message' = message /\ (place = "gone" => place' = "gone"))
  PROVE  Right(t)'
<1> USE DEF RaceInv, Right
<1>1. \A l \in Granted : /\ l \in Granted' /\ granted'[l] = granted[l]
                         /\ (GivenUp(l) => GivenUp(l)')
  BY StayGivenUp DEF Grows
<1>2. reply[t] # NoReply \/ pc[t] = "reply" =>
        (request[t].kind \in {"ack", "claim"} => request[t].lease \in Granted)
  BY Types DEF RequestTyped
<1>3. OneLease(t)'
  BY <1>1 DEF OneLease
<1>4. RequestTyped(t)'
  BY <1>1 DEF RequestTyped, NoReply, Blank
<1>5. Tells(t)'
  <2>1. CASE reply[t] # NoReply
    <3>1. request[t].kind = "claim" => \/ reply[t] = granted'[request[t].lease]
                                       \/ GivenUp(request[t].lease)'
      BY <1>1, <1>2, <2>1 DEF Tells
    <3>2. request[t].kind = "ack" => reply[t] = granted'[request[t].lease]
      BY <1>1, <1>2, <2>1 DEF Tells
    <3> QED
      BY <2>1, <3>1, <3>2 DEF Tells, GivenUp
  <2>2. CASE reply[t] = NoReply
    BY <2>2 DEF Tells, NoReply, Blank
  <2> QED
    BY <2>1, <2>2
<1>6. Outcome(t)'
  <2>1. CASE pc[t] = "reply" /\ ~Outcome(t)'
    <3>1. request[t].kind = "claim" => \/ message = granted'[request[t].lease]
                                       \/ GivenUp(request[t].lease)'
      BY <1>1, <1>2, <2>1 DEF Outcome
    <3>2. request[t].kind = "ack" => place = "gone" /\ message = granted'[request[t].lease]
      BY <1>1, <1>2, <2>1 DEF Outcome
    <3> QED
      BY <2>1, <3>1, <3>2 DEF Outcome, GivenUp
  <2>2. CASE pc[t] # "reply"
    BY <2>2 DEF Outcome
  <2> QED
    BY <2>1, <2>2
<1> QED
  BY <1>3, <1>4, <1>5, <1>6

\* The thread that holds the lock, if it does nothing, goes on with its section.
LEMMA WriterKept ==
  ASSUME RaceInv, Grows, UNCHANGED <<place, message, lock, granted>>,
         known' \subseteq known \cup {message.lease_id},
         lock \in Threads => /\ pc'[lock] = pc[lock] /\ request'[lock] = request[lock]
                             /\ todo'[lock] = todo[lock]
  PROVE  OneWriter'
<1> USE DEF RaceInv
<1>1. Settled => Settled'
  BY DEF Settled, Granted
<1>2. ASSUME NEW t \in Threads, lock = t  PROVE Writing(t)'
  <2>1. Writing(t)
    BY <1>2 DEF OneWriter
  <2>2. pc'[t] = pc[t] /\ request'[t] = request[t] /\ todo'[t] = todo[t]
    BY <1>2
  <2>3. ASSUME NEW kind PROVE Serves(t, kind)' <=> Serves(t, kind)
    BY <2>2 DEF Serves
  <2>4. CASE Wrote(t)
    BY <1>1, <2>2, <2>4 DEF Writing, Wrote, Granted, Serves
  <2>5. ASSUME NEW k \in 1..4, place = "list", Releases(t, k)  PROVE Writing(t)'
    <3>1. PICK l \in Granted : GivenUp(l) /\ message = Midway(k, granted[l], Blank)
      BY <2>5 DEF Releases
    <3>2. l \in Granted' /\ GivenUp(l)'
      BY <3>1, StayGivenUp
    <3>3. Releases(t, k)'
      BY <2>2, <2>5, <3>1, <3>2 DEF Releases, Serves, Midway, Left
    <3> QED
      BY <2>5, <3>3 DEF Writing
  <2>6. ASSUME message.lease_id # Len(granted), Claims(t)
        PROVE  Claims(t)'
    BY <2>2, <2>6 DEF Claims, Serves
  <2>7. ASSUME NEW k \in 1..4, place = "list", ReleasesToGrant(t, k)  PROVE Writing(t)'
    <3>1. PICK l \in Granted : /\ l # Len(granted) /\ GivenUp(l)
                               /\ message = Midway(k, granted[l], Blank)
      BY <2>7 DEF ReleasesToGrant
    <3>2. l \in Granted' /\ GivenUp(l)'
      BY <3>1, StayGivenUp
    <3>3. message.lease_id = l
      BY <3>1 DEF Midway, LeasesTyped
    <3>4. ReleasesToGrant(t, k)'
      BY <2>2, <2>6, <2>7, <3>1, <3>2, <3>3 DEF ReleasesToGrant, Midway, LeftOfBoth, Newest
    <3> QED
      BY <2>7, <3>4 DEF Writing
  <2>8. ASSUME NEW k \in 1..4, place = "list", Grants(t, k)  PROVE Writing(t)'
    <3>1. message.lease_id = NoLease /\ Len(granted) \in LeaseIds
      BY <2>8 DEF Grants, Midway, Blank, Claims
    <3>2. message.lease_id # Len(granted)
      BY <3>1 DEF LeaseIds, NoLease
    <3>3. Grants(t, k)'
      BY <2>2, <2>6, <2>8, <3>2 DEF Grants, Midway, Left, Newest
    <3> QED
      BY <2>8, <3>3 DEF Writing
  <2> QED
    BY <2>1, <2>4, <2>5, <2>7, <2>8 DEF Writing
<1> QED
  BY <1>1, <1>2 DEF OneWriter

-----------------------------------------------------------------------------
(* The steps.                                                              *)

\* If all threads but t and the message are left alone, t is what counts.
LEMMA OneThread ==
  ASSUME RaceInv, Grows, known \subseteq known', NEW t \in Threads, Moves(t),
         message' = message, place = "gone" => place' = "gone",
         TypeOK', Shaped', LeasesTyped', OneWriter', Right(t)'
  PROVE  RaceInv'
<1>1. ASSUME NEW u \in Threads PROVE Right(u)'
  <2>1. CASE u = t
    BY <2>1
  <2>2. CASE u # t
    BY <2>2, OthersKept DEF Moves
  <2> QED
    BY <2>1, <2>2
<1> QED
  BY <1>1 DEF RaceInv

\* Nothing is granted.
LEMMA NothingGranted ==
  ASSUME RaceInv, clock' = clock \/ (clock' = clock + 1 /\ clock < ClockBound),
         granted' = granted, returned \subseteq returned'
  PROVE  Grows /\ LeasesTyped'
BY Types DEF RaceInv, Grows, LeasesTyped, Granted

\* A request comes in.
LEMMA ReceiveRace ==
  ASSUME RaceInv, NEW t \in Threads, NEW r \in Request, Receive(t, r)
  PROVE  RaceInv'
<1> USE DEF Receive, leases
<1>1. Grows /\ LeasesTyped' /\ Moves(t)
  BY NothingGranted DEF Moves, RaceInv, TypeOK, Go
<1>2. lock # t /\ todo[t] = << >>
  BY DEF RaceInv, TypeOK
<1>3. TypeOK' /\ Shaped'
  <2>1. PICK stage \in {"append", "prune"} : pc' = [pc EXCEPT ![t] = stage]
    BY DEF Go
  <2>2. Shaped' /\ \A u \in Threads : reply'[u] \in Message \cup {NoReply}
    BY DEF RaceInv, TypeOK, Shaped
  <2> QED
    BY <1>2, <2>1, <2>2 DEF RaceInv, TypeOK
<1>4. OneWriter'
  BY <1>1, <1>2, WriterKept DEF Moves
<1>5. /\ pc'[t] = (IF r.kind = "post" THEN "append" ELSE "prune") /\ request'[t] = r
      /\ reply'[t] = NoReply
  BY DEF RaceInv, TypeOK, Shaped, Go
<1>6. RequestTyped(t)'
  BY <1>5 DEF RequestTyped, Requests
<1>7. Outcome(t)' /\ OneLease(t)' /\ Tells(t)'
  BY <1>5 DEF Outcome, OneLease, Tells, NoReply, Blank
<1> QED
  BY <1>1, <1>3, <1>4, <1>6, <1>7, OneThread DEF Right

\* A post appends the message.
LEMMA PostAppendRace ==
  ASSUME RaceInv, NEW t \in Threads, PostAppend(t)
  PROVE  RaceInv'
<1> USE DEF PostAppend, leases
<1>1. Grows /\ LeasesTyped' /\ Moves(t)
  BY NothingGranted DEF Moves, RaceInv, TypeOK, Go
<1>2. lock # t /\ todo[t] = << >> /\ NoThread \notin Threads
  BY DEF RaceInv, TypeOK
<1>3. TypeOK' /\ Shaped'
  BY <1>2 DEF RaceInv, TypeOK, Shaped, Go
<1>4. OneWriter'
  BY <1>2 DEF RaceInv, OneWriter, Settled, Granted
<1>5. pc'[t] = "prune" /\ request'[t] = request[t] /\ reply'[t] = reply[t]
  BY DEF RaceInv, TypeOK, Go
<1>6. reply[t] = NoReply /\ RequestTyped(t)'
  BY <1>5 DEF RaceInv, Right, RequestTyped
<1>7. Outcome(t)' /\ OneLease(t)' /\ Tells(t)'
  BY <1>5, <1>6 DEF Outcome, OneLease, Tells, NoReply, Blank
<1> QED
  BY <1>1, <1>3, <1>4, <1>6, <1>7, OneThread DEF Right

\* A message that is leased shows its lease.
LEMMA LeasedIsOne ==
  ASSUME RaceInv, lock = NoThread, message.status = "leased"
  PROVE  message.lease_id \in Granted /\ message = granted[message.lease_id]
<1>1. message # Blank
  BY DEF Blank
<1>2. PICK l \in Granted : message = granted[l]
  BY <1>1 DEF RaceInv, OneWriter, Settled
<1> QED
  BY <1>2 DEF RaceInv, LeasesTyped

\* A lease that a thread finds over is over.
LEMMA OverdueIsGivenUp ==
  ASSUME RaceInv, NEW t \in Threads, lock = NoThread, Overdue(t)
  PROVE  /\ message.lease_id \in Granted /\ message = granted[message.lease_id]
         /\ GivenUp(message.lease_id)
<1>1. message.lease_id \in Granted /\ message = granted[message.lease_id]
  BY LeasedIsOne DEF Overdue
<1>2. now[t] \in Nat /\ now[t] <= clock /\ clock \in Nat /\ message.lease_until \in Int
  BY Types DEF RaceInv, TypeOK, Message, Times
<1> QED
  BY <1>1, <1>2 DEF Overdue, GivenUp

\* A release that starts.
LEMMA ReleaseStarts ==
  ASSUME RaceInv, NEW t \in Threads, NEW l \in Granted, message = granted[l]
  PROVE  message = Midway(1, granted[l], Blank)
BY Types, Ends, BlankType DEF RaceInv

\* A thread with no assignment left has written all.
LEMMA WrittenOut ==
  ASSUME RaceInv, NEW t \in Threads, lock = t, todo[t] = << >>
  PROVE  Wrote(t)
<1>1. Writing(t)
  BY DEF RaceInv, OneWriter
<1>2. ASSUME NEW k \in 1..4 PROVE ~Releases(t, k)
  BY HeadAndTail DEF Releases
<1>3. ASSUME NEW k \in 1..4 PROVE ~ReleasesToGrant(t, k)
  BY HeadAndTailOfBoth DEF ReleasesToGrant
<1>4. ASSUME NEW k \in 1..4 PROVE ~Grants(t, k)
  BY HeadAndTail DEF Grants
<1> QED
  BY <1>1, <1>2, <1>3, <1>4 DEF Writing

\* A prune starts.
LEMMA PruneStartRace ==
  ASSUME RaceInv, NEW t \in Threads, PruneStart(t)
  PROVE  RaceInv'
<1> USE DEF PruneStart, Enter, leases
<1> DEFINE S == IF place = "list" /\ Overdue(t) THEN Release ELSE << >>
<1>1. Grows /\ LeasesTyped' /\ Moves(t)
  BY NothingGranted DEF Moves, RaceInv, TypeOK, Shaped, Go
<1>2. \A u \in Threads : lock # u /\ todo[u] = << >> /\ pc[u] \notin {"pruning", "writing"}
  BY DEF RaceInv, TypeOK
<1>3. lock' = t /\ todo' = [todo EXCEPT ![t] = S] /\ pc' = [pc EXCEPT ![t] = "pruning"]
  BY DEF Go
<1>4. TypeOK' /\ Shaped'
  <2>1. Shaped'
    BY <1>3 DEF RaceInv, Shaped
  <2>2. \A u \in Threads : /\ pc'[u] \in {"pruning", "writing"} <=> lock' = u
                           /\ lock' # u => todo'[u] = << >>
    BY <1>2, <1>3 DEF RaceInv, TypeOK, Shaped
  <2> QED
    BY <1>3, <2>1, <2>2 DEF RaceInv, TypeOK
<1>5. /\ pc'[t] = "pruning" /\ request'[t] = request[t] /\ reply'[t] = reply[t]
      /\ todo'[t] = S
  BY <1>3 DEF RaceInv, TypeOK, Shaped
<1>6. reply[t] = NoReply /\ RequestTyped(t)'
  BY <1>5 DEF RaceInv, Right, RequestTyped
<1>7. Outcome(t)' /\ OneLease(t)' /\ Tells(t)'
  BY <1>5, <1>6 DEF Outcome, OneLease, Tells, NoReply, Blank
<1>8. \A kind : ~Serves(t, kind)'
  BY <1>5 DEF Serves
<1>9. Writing(t)'
  <2>1. CASE place = "list" /\ Overdue(t)
    <3>1. PICK l \in Granted : GivenUp(l) /\ message = granted[l]
      BY <2>1, OverdueIsGivenUp
    <3>2. message = Midway(1, granted[l], Blank)
      BY <3>1, ReleaseStarts
    <3>3. l \in Granted' /\ GivenUp(l)'
      BY <1>1, <3>1, StayGivenUp DEF RaceInv
    <3>4. todo'[t] = Left(1, Blank)
      BY <1>5, <2>1, AllLeft
    <3>5. Releases(t, 1)'
      BY <1>1, <1>8, <3>2, <3>3, <3>4 DEF Releases, Midway, Left, Grows
    <3> QED
      BY <2>1, <3>5 DEF Writing
  <2>2. CASE ~(place = "list" /\ Overdue(t))
    <3>1. todo'[t] = << >>
      BY <1>5, <2>2
    <3>2. Settled'
      BY DEF RaceInv, OneWriter, Settled, Granted
    <3> QED
      BY <1>8, <3>1, <3>2 DEF Writing, Wrote
  <2> QED
    BY <2>1, <2>2
<1>10. OneWriter'
  BY <1>3, <1>9 DEF OneWriter
<1> QED
  BY <1>1, <1>4, <1>6, <1>7, <1>10, OneThread DEF Right

\* A prune ends.
LEMMA PruneEndRace ==
  ASSUME RaceInv, NEW t \in Threads, PruneEnd(t)
  PROVE  RaceInv'
<1> USE DEF PruneEnd, leases
<1>1. Grows /\ LeasesTyped' /\ Moves(t)
  BY NothingGranted DEF Moves, RaceInv, TypeOK, Go
<1>2. lock = t /\ todo[t] = << >> /\ place' \in {"new", "list", "gone"}
  BY DEF RaceInv, TypeOK
<1>3. PICK stage \in {"reply", "section"} :
        pc' = [pc EXCEPT ![t] = stage] /\ (stage = "reply" => request[t].kind = "post")
  BY DEF Go
<1>4. TypeOK' /\ Shaped'
  BY <1>2, <1>3 DEF RaceInv, TypeOK, Shaped
<1>5. pc'[t] = stage /\ request'[t] = request[t] /\ reply'[t] = reply[t]
  BY <1>3 DEF RaceInv, TypeOK
<1>6. reply[t] = NoReply /\ RequestTyped(t)'
  BY <1>3, <1>5 DEF RaceInv, Right, RequestTyped
<1>7. Outcome(t)' /\ OneLease(t)' /\ Tells(t)'
  BY <1>3, <1>5, <1>6 DEF Outcome, OneLease, Tells, NoReply, Blank
<1>8. Settled
  BY <1>2, WrittenOut DEF Wrote
<1>9. OneWriter'
  BY <1>8 DEF OneWriter, Settled, Granted
<1> QED
  BY <1>1, <1>2, <1>4, <1>6, <1>7, <1>9, OneThread DEF Right

\* A reply that refuses the request.
LEMMA RefuseRace ==
  ASSUME RaceInv, NEW t \in Threads, pc[t] = "section", Refuse(t)
  PROVE  RaceInv'
<1> USE DEF Refuse, leases
<1>1. Grows /\ LeasesTyped' /\ Moves(t)
  BY NothingGranted DEF Moves, RaceInv, TypeOK, Go
<1>2. lock # t /\ todo[t] = << >>
  BY DEF RaceInv, TypeOK
<1>3. TypeOK' /\ Shaped'
  BY <1>2 DEF RaceInv, TypeOK, Shaped, Go
<1>4. OneWriter'
  BY <1>1, <1>2, WriterKept DEF Moves
<1>5. pc'[t] = "idle" /\ request'[t] = request[t] /\ reply'[t] = reply[t]
  BY DEF RaceInv, TypeOK, Go
<1>6. reply[t] = NoReply /\ RequestTyped(t)'
  BY <1>5 DEF RaceInv, Right, RequestTyped
<1>7. Outcome(t)' /\ OneLease(t)' /\ Tells(t)'
  BY <1>5, <1>6 DEF Outcome, OneLease, Tells, NoReply, Blank
<1> QED
  BY <1>1, <1>3, <1>4, <1>6, <1>7, OneThread DEF Right

\* A poll finds the message.
LEMMA PollReadRace ==
  ASSUME RaceInv, NEW t \in Threads, PollRead(t)
  PROVE  RaceInv'
<1> USE DEF PollRead, leases
<1>a. CASE Refuse(t)
  BY <1>a, RefuseRace
<1>b. CASE place = "list" /\ ~Refuse(t)
  <2>1. Grows /\ LeasesTyped' /\ Moves(t)
    BY <1>b, NothingGranted DEF Moves, RaceInv, TypeOK, Go
  <2>2. lock # t /\ todo[t] = << >>
    BY DEF RaceInv, TypeOK
  <2>3. TypeOK' /\ Shaped'
    <3>1. pc' = [pc EXCEPT ![t] = "reply"] /\ lock' = lock /\ todo' = todo
      BY <1>b DEF Go
    <3>2. \A u \in Threads : /\ pc'[u] \in {"pruning", "writing"} <=> lock' = u
                             /\ lock' # u => todo'[u] = << >>
      BY <2>2, <3>1 DEF RaceInv, TypeOK
    <3>3. Shaped'
      BY <1>b DEF RaceInv, Shaped
    <3> QED
      BY <1>b, <3>1, <3>2, <3>3 DEF RaceInv, TypeOK
  <2>4. OneWriter'
    BY <1>b, <2>1, <2>2, WriterKept DEF Moves
  <2>5. pc'[t] = "reply" /\ request'[t] = request[t] /\ reply'[t] = reply[t]
    BY <1>b DEF RaceInv, TypeOK, Go
  <2>6. reply[t] = NoReply /\ RequestTyped(t)'
    BY <1>b, <2>5 DEF RaceInv, Right, RequestTyped
  <2>7. Outcome(t)' /\ OneLease(t)' /\ Tells(t)'
    BY <2>5, <2>6 DEF Outcome, OneLease, Tells, NoReply, Blank
  <2> QED
    BY <1>b, <2>1, <2>3, <2>4, <2>6, <2>7, OneThread DEF Right
<1> QED
  BY <1>a, <1>b

\* A claim that finds nothing is refused; else it is granted the next lease.
LEMMA ClaimSectionRace ==
  ASSUME RaceInv, NEW t \in Threads, ClaimSection(t)
  PROVE  RaceInv'
<1> DEFINE n == Len(granted) + 1
           r == Leased(request[t].worker, now[t] + Span, n)
<1>a. CASE Refuse(t)
  BY <1>a, RefuseRace DEF ClaimSection
<1>b. CASE ~Refuse(t)
  <2>1. /\ pc[t] = "section" /\ request[t].kind = "claim" /\ lock = NoThread
        /\ Claimable(t) /\ n \in LeaseIds
        /\ lock' = t /\ todo' = [todo EXCEPT ![t] = ClaimWrites(t, r)]
        /\ pc' = [pc EXCEPT ![t] = "writing"]
        /\ granted' = Append(granted, r)
        /\ request' = [request EXCEPT ![t].lease = n]
        /\ UNCHANGED <<clock, place, message, now, returned, known, reply>>
    BY <1>b DEF ClaimSection, Enter, Go
  <2>2. /\ Len(granted) \in Nat /\ n <= ClaimBound /\ n \notin Granted
        /\ granted \in Seq(Message) /\ clock \in Nat
    BY <2>1, Types DEF LeaseIds, RaceInv, TypeOK, Granted
  <2>3. r \in Message /\ r.status = "leased" /\ r.lease_id = n
    <3>1. request[t].worker \in Workers \cup {Nobody} /\ now[t] + Span \in Times
      BY Types DEF RaceInv, TypeOK, Request, Times
    <3> QED
      BY <2>1, <3>1 DEF Leased, Message
  <2> HIDE DEF r
  <2>4. /\ granted' \in Seq(Message) /\ Len(granted') = n /\ granted'[n] = r
        /\ \A l \in Granted : granted'[l] = granted[l]
    BY <2>1, <2>2, <2>3, AppendProperties DEF Granted
  <2> HIDE DEF n
  <2>5. Granted' = Granted \cup {n} /\ n \in Nat
    BY <2>2, <2>4 DEF Granted, n
  <2>6. Grows /\ LeasesTyped'
    <3>1. Grows
      <4>1. Len(granted) <= Len(granted') /\ Len(granted') \in Nat
        BY <2>2, <2>4 DEF n
      <4>2. clock' = clock /\ returned' = returned
        BY <2>1
      <4> QED
        BY <2>2, <2>4, <4>1, <4>2 DEF Grows
    <3>2. LeasesTyped'
      BY <2>3, <2>4, <2>5 DEF LeasesTyped, RaceInv
    <3> QED
      BY <3>1, <3>2
  <2>7. Moves(t)
    BY <2>1 DEF Moves, RaceInv, TypeOK, Shaped
  <2>8. \A u \in Threads : lock # u /\ todo[u] = << >> /\ pc[u] \notin {"pruning", "writing"}
    BY <2>1 DEF RaceInv, TypeOK
  <2>9. /\ pc'[t] = "writing" /\ request'[t].kind = "claim" /\ request'[t].lease = n
        /\ reply'[t] = reply[t] /\ todo'[t] = ClaimWrites(t, r)
    BY <2>1 DEF RaceInv, TypeOK, Shaped, Request
  <2>10. TypeOK' /\ Shaped'
    <3>1. Shaped'
      BY <2>1 DEF RaceInv, Shaped
    <3>2. \A u \in Threads : /\ pc'[u] \in {"pruning", "writing"} <=> lock' = u
                             /\ lock' # u => todo'[u] = << >>
      BY <2>1, <2>8 DEF RaceInv, TypeOK, Shaped
    <3>3. request' \in [Threads -> Request]
      <4>1. request \in [Threads -> Request] /\ request' = [request EXCEPT ![t].lease = n]
        BY <2>1 DEF RaceInv, TypeOK
      <4>2. [request[t] EXCEPT !.lease = n] \in Request
        BY <2>1, <4>1 DEF Request
      <4> QED
        BY <4>1, <4>2
    <3>4. returned' \cup known' \subseteq 1..Len(granted')
      BY <2>1, <2>5 DEF RaceInv, TypeOK, Granted
    <3> QED
      BY <2>1, <2>2, <2>4, <3>1, <3>2, <3>3, <3>4 DEF RaceInv, TypeOK
  <2>11. reply[t] = NoReply /\ RequestTyped(t)'
    BY <2>1, <2>9 DEF RaceInv, Right, RequestTyped
  <2>12. Outcome(t)' /\ OneLease(t)' /\ Tells(t)'
    BY <2>9, <2>11 DEF Outcome, OneLease, Tells, NoReply, Blank
  <2>13. Claims(t)' /\ Newest' = r
    <3>1. n \notin known
      BY <2>2, Types DEF RaceInv
    <3> QED
      BY <2>1, <2>4, <2>9, <3>1 DEF Claims, Serves, Newest
  <2>14. place' = "list"
    BY <2>1 DEF Claimable
  <2>15. ASSUME Overdue(t) PROVE Writing(t)'
    <3>1. PICK l \in Granted : GivenUp(l) /\ message = granted[l]
      BY <2>1, <2>15, OverdueIsGivenUp
    <3>2. message = Midway(1, granted[l], Blank)
      BY <3>1, ReleaseStarts
    <3>3. l \in Granted' /\ GivenUp(l)' /\ l # Len(granted')
      BY <2>2, <2>4, <2>6, <3>1, StayGivenUp DEF RaceInv
    <3>4. message' = Midway(1, granted'[l], Blank)
      BY <2>1, <2>6, <3>2 DEF Grows
    <3>5. todo'[t] = LeftOfBoth(1, r)
      BY <2>9, <2>15, AllLeft DEF ClaimWrites
    <3>6. ReleasesToGrant(t, 1)'
      BY <2>13, <3>3, <3>4, <3>5 DEF ReleasesToGrant, Midway, LeftOfBoth
    <3> QED
      BY <2>14, <3>6 DEF Writing
  <2>16. ASSUME ~Overdue(t) PROVE Writing(t)'
    <3>1. message = Blank
      BY <2>1, <2>16 DEF Claimable, RaceInv, OneWriter, Settled, LeasesTyped
    <3>2. message' = Midway(1, Blank, r)
      BY <2>1, <2>3, <3>1, Ends, BlankType
    <3>3. todo'[t] = Left(1, r)
      <4>1. todo'[t] = << >> \o Grant(r)
        BY <2>9, <2>16 DEF ClaimWrites
      <4> QED
        BY <4>1, AllLeft, NothingThenGrant
    <3>4. Grants(t, 1)'
      BY <2>13, <3>2, <3>3 DEF Grants, Midway, Left
    <3> QED
      BY <2>14, <3>4 DEF Writing
  <2>17. OneWriter'
    BY <2>1, <2>15, <2>16 DEF OneWriter
  <2>18. message' = message /\ known \subseteq known' /\ place' = place
    BY <2>1
  <2> QED
    BY <2>6, <2>7, <2>10, <2>11, <2>12, <2>17, <2>18, OneThread DEF Right
<1> QED
  BY <1>a, <1>b

\* An ack or a nack of the lease that the message shows gives it up.
LEMMA AckSectionRace ==
  ASSUME RaceInv, NEW t \in Threads, AckSection(t)
  PROVE  RaceInv'
<1>a. CASE Refuse(t)
  BY <1>a, RefuseRace DEF AckSection
<1>b. CASE ~Refuse(t)
  <2> DEFINE S == IF request[t].kind = "ack" THEN << >> ELSE Release
             l == request[t].lease
  <2>1. /\ pc[t] = "section" /\ request[t].kind \in {"ack", "nack"} /\ lock = NoThread
        /\ Holds(t) /\ returned' = returned \cup {l}
        /\ place' = (IF request[t].kind = "ack" THEN "gone" ELSE "list")
        /\ lock' = t /\ todo' = [todo EXCEPT ![t] = S]
        /\ pc' = [pc EXCEPT ![t] = "writing"]
        /\ UNCHANGED <<clock, message, request, now, granted, known, reply>>
    BY <1>b DEF AckSection, Enter, Go, Holds
  <2> HIDE DEF S
  <2>2. l \in Granted /\ message = granted[l]
    BY <2>1, LeasedIsOne DEF Holds
  <2>3. Grows /\ LeasesTyped'
    BY <2>1, NothingGranted
  <2>4. Moves(t)
    BY <2>1 DEF Moves, RaceInv, TypeOK, Shaped
  <2>5. \A u \in Threads : lock # u /\ todo[u] = << >> /\ pc[u] \notin {"pruning", "writing"}
    BY <2>1 DEF RaceInv, TypeOK
  <2>6. /\ pc'[t] = "writing" /\ request'[t] = request[t] /\ reply'[t] = reply[t]
        /\ todo'[t] = S
    BY <2>1 DEF RaceInv, TypeOK, Shaped
  <2>7. TypeOK' /\ Shaped'
    <3>1. Shaped'
      BY <2>1 DEF RaceInv, Shaped
    <3>2. \A u \in Threads : /\ pc'[u] \in {"pruning", "writing"} <=> lock' = u
                             /\ lock' # u => todo'[u] = << >>
      BY <2>1, <2>5 DEF RaceInv, TypeOK, Shaped
    <3>3. returned' \cup known' \subseteq 1..Len(granted')
      BY <2>1, <2>2 DEF RaceInv, TypeOK, Granted
    <3> QED
      BY <2>1, <3>1, <3>2, <3>3 DEF RaceInv, TypeOK
  <2>8. reply[t] = NoReply /\ RequestTyped(t)'
    BY <2>1, <2>6 DEF RaceInv, Right, RequestTyped
  <2>9. Outcome(t)' /\ OneLease(t)' /\ Tells(t)'
    BY <2>6, <2>8 DEF Outcome, OneLease, Tells, NoReply, Blank
  <2>10. ASSUME request[t].kind = "ack" PROVE Writing(t)'
    <3>1. ~Serves(t, "claim")' /\ ~Serves(t, "nack")'
      BY <2>6, <2>10 DEF Serves
    <3>2. Settled'
      BY <2>1, <2>2 DEF Settled, Granted
    <3>3. todo'[t] = << >> /\ place' = "gone"
      BY <2>1, <2>6, <2>10 DEF S
    <3> QED
      BY <2>1, <2>2, <2>6, <3>1, <3>2, <3>3 DEF Writing, Wrote
  <2>11. ASSUME request[t].kind = "nack" PROVE Writing(t)'
    <3>1. ~Serves(t, "claim")' /\ ~Serves(t, "ack")'
      BY <2>6, <2>11 DEF Serves
    <3>2. l \in Granted' /\ l \in returned' /\ request'[t].lease = l
      BY <2>1, <2>2, <2>6 DEF Granted
    <3>3. message' = Midway(1, granted'[l], Blank)
      BY <2>1, <2>2, ReleaseStarts
    <3>4. todo'[t] = Left(1, Blank) /\ place' = "list"
      BY <2>1, <2>6, <2>11, AllLeft DEF S
    <3>5. \E k \in Granted' : GivenUp(k)' /\ message' = Midway(1, granted'[k], Blank)
      BY <3>2, <3>3 DEF GivenUp
    <3>6. Releases(t, 1)'
      BY <3>1, <3>4, <3>5 DEF Releases, Midway, Left
    <3> QED
      BY <3>4, <3>6 DEF Writing
  <2>12. OneWriter'
    BY <2>1, <2>10, <2>11 DEF OneWriter
  <2>13. message' = message /\ known \subseteq known' /\ (place = "gone" => place' = "gone")
    BY <2>1 DEF Holds
  <2> QED
    BY <2>3, <2>4, <2>7, <2>8, <2>9, <2>12, <2>13, OneThread DEF Right
<1> QED
  BY <1>a, <1>b

\* A section that has written all gives the lock back.
LEMMA SectionEndRace ==
  ASSUME RaceInv, NEW t \in Threads, SectionEnd(t)
  PROVE  RaceInv'
<1> USE DEF SectionEnd, leases
<1>1. Grows /\ LeasesTyped' /\ Moves(t)
  BY NothingGranted DEF Moves, RaceInv, TypeOK, Go
<1>2. lock = t /\ todo[t] = << >>
  BY DEF RaceInv, TypeOK
<1>3. Wrote(t)
  BY <1>2, WrittenOut
<1>4. TypeOK' /\ Shaped'
  BY <1>2 DEF RaceInv, TypeOK, Shaped, Go
<1>5. OneWriter'
  BY <1>3 DEF OneWriter, Wrote, Settled, Granted, RaceInv
<1>6. pc'[t] = "reply" /\ request'[t] = request[t] /\ reply'[t] = reply[t]
  BY DEF RaceInv, TypeOK, Go
<1>7. reply[t] = NoReply /\ (request[t].kind \in {"ack", "nack"} => request[t].lease \in known)
  BY DEF RaceInv, Right, RequestTyped
<1>8. /\ request[t].kind = "claim" => /\ request[t].lease \in Granted
                                      /\ message = granted[request[t].lease]
      /\ request[t].kind = "nack" => message = Blank
      /\ request[t].kind = "ack" => place = "gone" /\ message = granted[request[t].lease]
  BY <1>3 DEF Wrote, Serves
<1>9. RequestTyped(t)'
  BY <1>6, <1>7, <1>8 DEF RequestTyped, Granted
<1>10. Outcome(t)'
  <2>1. request[t].kind = "nack" => message.lease_id # request[t].lease
    BY <1>7, <1>8, Types DEF Blank, Granted, NoLease, RaceInv
  <2> QED
    BY <1>6, <1>8, <2>1 DEF Outcome
<1>11. OneLease(t)' /\ Tells(t)'
  BY <1>6, <1>7 DEF OneLease, Tells, NoReply, Blank
<1> QED
  BY <1>1, <1>4, <1>5, <1>9, <1>10, <1>11, OneThread DEF Right

\* The message is always of one lease, if of any.
LEMMA MessageIsOne ==
  ASSUME RaceInv
  PROVE  \/ message.leased_by = Nobody /\ message.lease_until = 0 /\ message.lease_id = NoLease
         \/ \E l \in Granted : /\ message.leased_by \in {Nobody, granted[l].leased_by}
                               /\ message.lease_until \in {0, granted[l].lease_until}
                               /\ message.lease_id \in {NoLease, l}
<1> USE DEF RaceInv
<1> DEFINE One == \E l \in Granted : /\ message.leased_by \in {Nobody, granted[l].leased_by}
                                     /\ message.lease_until \in {0, granted[l].lease_until}
                                     /\ message.lease_id \in {NoLease, l}
<1>1. ASSUME Settled, message # Blank PROVE One
  BY <1>1 DEF Settled, LeasesTyped
<1>2. ASSUME NEW l \in Granted, NEW k \in 1..4, message = Midway(k, granted[l], Blank)
      PROVE  One
  BY <1>2 DEF Midway, Blank, LeasesTyped
<1>3. ASSUME NEW k \in 1..4, message = Midway(k, Blank, Newest), Len(granted) \in LeaseIds
      PROVE  One
  <2>1. Len(granted) \in Granted
    BY <1>3 DEF LeaseIds, Granted
  <2> QED
    BY <1>3, <2>1 DEF Midway, Blank, Newest
<1>4. CASE Settled
  BY <1>1, <1>4 DEF Blank
<1>5. CASE ~Settled
  <2>1. PICK t \in Threads : Writing(t)
    BY <1>5 DEF OneWriter, TypeOK
  <2>2. PICK k \in 1..4 : Releases(t, k) \/ ReleasesToGrant(t, k) \/ Grants(t, k)
    BY <1>5, <2>1 DEF Writing, Wrote
  <2> QED
    BY <1>2, <1>3, <2>2 DEF Releases, ReleasesToGrant, Grants, Claims
<1> QED
  BY <1>4, <1>5

\* A reply reads the message, whatever is being written to it.
LEMMA ReplyRace ==
  ASSUME RaceInv, NEW t \in Threads, Reply(t)
  PROVE  RaceInv'
<1> USE DEF Reply
<1>1. Grows /\ LeasesTyped' /\ Moves(t)
  BY NothingGranted DEF Moves, RaceInv, TypeOK, Shaped, Go
<1>2. lock # t /\ todo[t] = << >>
  BY DEF RaceInv, TypeOK
<1>3. message.lease_id \in Granted \cup {NoLease}
  BY MessageIsOne
<1>4. TypeOK' /\ Shaped'
  <2>1. known' \cup returned' \subseteq 1..Len(granted')
    BY <1>3 DEF RaceInv, TypeOK, Granted
  <2>2. Shaped' /\ \A u \in Threads : reply'[u] \in Message \cup {NoReply}
    BY DEF RaceInv, TypeOK, Shaped
  <2> QED
    BY <1>2, <2>1, <2>2 DEF RaceInv, TypeOK, Go
<1>5. OneWriter'
  BY <1>1, <1>2, WriterKept DEF Moves
<1>6. pc[t] = "reply" /\ pc'[t] = "idle" /\ request'[t] = request[t] /\ reply'[t] = message
  BY DEF RaceInv, TypeOK, Shaped, Go
<1>7. RequestTyped(t)'
  BY <1>6 DEF RaceInv, Right, RequestTyped, Granted
<1>8. Outcome(t)' /\ OneLease(t)'
  BY <1>6, MessageIsOne DEF Outcome, OneLease, Granted
<1>9. Tells(t)'
  BY <1>6 DEF RaceInv, Right, Outcome, Tells, GivenUp
<1> QED
  BY <1>1, <1>4, <1>5, <1>7, <1>8, <1>9, OneThread DEF Right

\* Time passes.
LEMMA TickRace ==
  ASSUME RaceInv, Tick
  PROVE  RaceInv'
<1> USE DEF Tick, leases
<1>1. Grows /\ LeasesTyped'
  BY NothingGranted DEF RaceInv
<1>2. TypeOK' /\ Shaped'
  BY Types DEF RaceInv, TypeOK, Shaped
<1>3. OneWriter'
  BY <1>1, WriterKept
<1>4. ASSUME NEW t \in Threads PROVE Right(t)'
  BY <1>1, OthersKept
<1> QED
  BY <1>1, <1>2, <1>3, <1>4 DEF RaceInv

\* Nothing happens.
LEMMA StutterRace ==
  ASSUME RaceInv, UNCHANGED vars
  PROVE  RaceInv'
<1> USE DEF vars, leases
<1>1. Grows /\ LeasesTyped'
  BY NothingGranted
<1>2. TypeOK' /\ Shaped'
  BY DEF RaceInv, TypeOK, Shaped
<1>3. OneWriter'
  BY <1>1, WriterKept
<1>4. ASSUME NEW t \in Threads PROVE Right(t)'
  BY <1>1, OthersKept
<1> QED
  BY <1>1, <1>2, <1>3, <1>4 DEF RaceInv

\* One assignment: the thread goes on, and what the message showed is given up.
LEMMA WriteGoesOn ==
  ASSUME RaceInv, NEW t \in Threads, Write(t)
  PROVE  /\ Writing(t)' /\ lock = t /\ place = "list" /\ message' \in Message
         /\ \A q \in Granted : message = granted[q] => GivenUp(q)
         /\ \/ message'.lease_id \in {NoLease, message.lease_id}
            \/ message'.lease_id \in LeaseIds /\ message'.lease_id \notin known
<1> USE DEF RaceInv
<1> DEFINE Goal == /\ Writing(t)' /\ message' \in Message
                   /\ \A q \in Granted : message = granted[q] => GivenUp(q)
                   /\ \/ message'.lease_id \in {NoLease, message.lease_id}
                      \/ message'.lease_id \in LeaseIds /\ message'.lease_id \notin known
<1>1. /\ lock = t /\ todo[t] # << >> /\ todo'[t] = Tail(todo[t])
      /\ UNCHANGED <<clock, place, lock, pc, request, now, granted, returned, known, reply>>
  BY DEF Write, leases, TypeOK, Shaped
<1>2. /\ place = "list" /\ place' = "list"
      /\ \E k \in 1..4 : Releases(t, k) \/ ReleasesToGrant(t, k) \/ Grants(t, k)
  BY <1>1 DEF OneWriter, Writing, Wrote
<1>3. /\ \A kind : Serves(t, kind)' <=> Serves(t, kind)
      /\ \A l : GivenUp(l)' <=> GivenUp(l)
      /\ Granted' = Granted /\ granted' = granted /\ Newest' = Newest
      /\ Claims(t)' <=> Claims(t)
  BY <1>1 DEF Serves, GivenUp, Granted, Claims, Newest
<1>4. Blank \in Message /\ \A l \in Granted : granted[l] \in Message /\ granted[l].lease_id = l
  BY Types, BlankType DEF LeasesTyped
<1>5. ASSUME NEW k \in 1..4, Releases(t, k)  PROVE Goal
  <2>1. PICK l \in Granted : GivenUp(l) /\ message = Midway(k, granted[l], Blank)
    BY <1>5 DEF Releases
  <2>2. message' = Midway(k + 1, granted[l], Blank) /\ message' \in Message
    BY <1>4, <1>5, <2>1, Todo, Assigned DEF Releases
  <2>3. message.lease_id = l /\ message'.lease_id \in {NoLease, l}
    BY <1>4, <2>1, <2>2 DEF Midway, Blank
  <2>4. CASE k = 4
    <3>1. message' = Blank /\ todo'[t] = << >>
      BY <1>1, <1>4, <1>5, <2>2, <2>4, Ends, Todo DEF Releases
    <3>2. Wrote(t)'
      BY <1>3, <1>5, <3>1 DEF Wrote, Settled, Releases, Blank
    <3> QED
      BY <1>4, <2>1, <2>2, <2>3, <3>2 DEF Writing
  <2>5. CASE k # 4
    <3>1. todo'[t] = Left(k + 1, Blank) /\ k + 1 \in 1..4
      BY <1>1, <1>5, <2>5, Todo DEF Releases
    <3>2. Releases(t, k + 1)'
      BY <1>3, <1>5, <2>1, <2>2, <3>1 DEF Releases, Midway, Left
    <3> QED
      BY <1>2, <1>4, <2>1, <2>2, <2>3, <3>1, <3>2 DEF Writing
  <2> QED
    BY <2>4, <2>5
<1>6. ASSUME NEW k \in 1..4, ReleasesToGrant(t, k)  PROVE Goal
  <2>1. PICK l \in Granted : /\ l # Len(granted) /\ GivenUp(l)
                             /\ message = Midway(k, granted[l], Blank)
    BY <1>6 DEF ReleasesToGrant
  <2>2. message' = Midway(k + 1, granted[l], Blank) /\ message' \in Message
    BY <1>4, <1>6, <2>1, HeadAndTailOfBoth, Assigned DEF ReleasesToGrant
  <2>3. message.lease_id = l /\ message'.lease_id \in {NoLease, l}
    BY <1>4, <2>1, <2>2 DEF Midway, Blank
  <2>4. CASE k = 4
    <3>1. message' = Blank /\ todo'[t] = Left(1, Newest)
      BY <1>1, <1>4, <1>6, <2>2, <2>4, Ends, HeadAndTailOfBoth DEF ReleasesToGrant
    <3>2. message' = Midway(1, Blank, Newest)
      BY <3>1 DEF Midway, Blank
    <3>3. Grants(t, 1)'
      BY <1>3, <1>6, <3>1, <3>2 DEF Grants, ReleasesToGrant, Midway, Left
    <3> QED
      BY <1>2, <1>4, <2>1, <2>2, <2>3, <3>3 DEF Writing
  <2>5. CASE k # 4
    <3>1. todo'[t] = LeftOfBoth(k + 1, Newest) /\ k + 1 \in 1..4
      BY <1>1, <1>6, <2>5, HeadAndTailOfBoth DEF ReleasesToGrant
    <3>2. ReleasesToGrant(t, k + 1)'
      BY <1>3, <1>6, <2>1, <2>2, <3>1 DEF ReleasesToGrant, Midway, LeftOfBoth
    <3> QED
      BY <1>2, <1>4, <2>1, <2>2, <2>3, <3>1, <3>2 DEF Writing
  <2> QED
    BY <2>4, <2>5
<1>7. ASSUME NEW k \in 1..4, Grants(t, k)  PROVE Goal
  <2>1. /\ Len(granted) \in Granted /\ Len(granted) \in LeaseIds /\ Len(granted) \notin known
        /\ Newest \in Message /\ Newest.lease_id = Len(granted)
    BY <1>4, <1>7 DEF Grants, Claims, LeaseIds, Granted, Newest
  <2>2. message' = Midway(k + 1, Blank, Newest) /\ message' \in Message
    BY <1>4, <1>7, <2>1, Todo, Assigned DEF Grants
  <2>3. message.lease_id = NoLease /\ message'.lease_id \in {NoLease, Len(granted)}
    BY <1>7, <2>1, <2>2 DEF Grants, Midway, Blank
  <2>4. \A q \in Granted : message # granted[q]
    BY <1>4, <2>3 DEF Granted, NoLease
  <2>5. CASE k = 4
    <3>1. message' = Newest /\ todo'[t] = << >>
      BY <1>1, <1>4, <1>7, <2>1, <2>2, <2>5, Ends, Todo DEF Grants
    <3>2. Wrote(t)'
      BY <1>1, <1>3, <1>7, <2>1, <3>1 DEF Wrote, Settled, Grants, Claims, Newest, Serves
    <3> QED
      BY <2>1, <2>2, <2>3, <2>4, <3>2 DEF Writing
  <2>6. CASE k # 4
    <3>1. todo'[t] = Left(k + 1, Newest) /\ k + 1 \in 1..4
      BY <1>1, <1>7, <2>6, Todo DEF Grants
    <3>2. Grants(t, k + 1)'
      BY <1>3, <1>7, <2>2, <3>1 DEF Grants, Midway, Left
    <3> QED
      BY <1>2, <2>1, <2>2, <2>3, <2>4, <3>1, <3>2 DEF Writing
  <2> QED
    BY <2>5, <2>6
<1> QED
  BY <1>1, <1>2, <1>5, <1>6, <1>7

\* One assignment.
LEMMA WriteRace ==
  ASSUME RaceInv, NEW t \in Threads, Write(t)
  PROVE  RaceInv'
<1>1. /\ todo' = [todo EXCEPT ![t] = Tail(todo[t])]
      /\ UNCHANGED <<clock, place, lock, pc, request, now, granted, returned, known, reply>>
  BY DEF Write, leases
<1>2. Grows /\ LeasesTyped'
  BY <1>1, NothingGranted
<1>3. TypeOK' /\ Shaped'
  <2>1. lock = t /\ message' \in Message
    BY WriteGoesOn
  <2> QED
    BY <1>1, <2>1 DEF RaceInv, TypeOK, Shaped
<1>4. OneWriter'
  BY <1>1, WriteGoesOn DEF OneWriter, RaceInv
<1>5. ASSUME NEW u \in Threads PROVE Right(u)'
  <2>1. ASSUME pc[u] = "reply", request[u].kind = "nack"
        PROVE  message'.lease_id # request[u].lease
    <3>1. /\ message.lease_id # request[u].lease /\ request[u].lease \in known
          /\ request[u].lease # NoLease
      BY <2>1, Types DEF RaceInv, Right, Outcome, RequestTyped, Granted, NoLease
    <3> QED
      BY <3>1, WriteGoesOn
  <2>2. ASSUME pc[u] = "reply", request[u].kind = "claim"
        PROVE  GivenUp(request[u].lease)
    <3>1. request[u].lease \in Granted
      BY <2>2 DEF RaceInv, Right, RequestTyped
    <3> QED
      BY <2>2, <3>1, WriteGoesOn DEF RaceInv, Right, Outcome
  <2>3. ASSUME pc[u] = "reply" PROVE request[u].kind # "ack"
    BY <2>3, WriteGoesOn DEF RaceInv, Right, Outcome
  <2>4. Outcome(u)'
    BY <1>1, <2>1, <2>2, <2>3 DEF Outcome, GivenUp
  <2> QED
    BY <1>1, <1>2, <2>4, OthersKept
<1> QED
  BY <1>2, <1>3, <1>4, <1>5 DEF RaceInv

\* The invariant holds from the start...
LEMMA InitRace == Init => RaceInv
<1> SUFFICES ASSUME Init PROVE RaceInv
  OBVIOUS
<1> USE DEF Init
<1>1. TypeOK
  <2>1. \A t \in Threads : request[t] \in Request
    BY DEF NoRequest, Request, Kinds
  <2> QED
    BY <2>1, BlankType DEF TypeOK
<1>2. Shaped /\ LeasesTyped /\ OneWriter
  BY DEF Shaped, LeasesTyped, Granted, OneWriter, Settled
<1>3. ASSUME NEW t \in Threads PROVE Right(t)
  BY DEF Right, RequestTyped, Outcome, OneLease, Tells, NoRequest, NoReply, Blank
<1> QED
  BY <1>1, <1>2, <1>3 DEF RaceInv

\* ... and each step keeps it.
LEMMA NextRace == RaceInv /\ [Next]_vars => RaceInv'
<1> SUFFICES ASSUME RaceInv, [Next]_vars PROVE RaceInv'
  OBVIOUS
<1>1. CASE UNCHANGED vars
  BY <1>1, StutterRace
<1>2. CASE Tick
  BY <1>2, TickRace
<1>3. ASSUME NEW t \in Threads,
             \/ \E r \in Request : Receive(t, r)
             \/ PostAppend(t) \/ PruneStart(t) \/ PruneEnd(t)
             \/ PollRead(t) \/ ClaimSection(t) \/ AckSection(t)
             \/ Write(t) \/ SectionEnd(t) \/ Reply(t)
      PROVE  RaceInv'
  BY <1>3, ReceiveRace, PostAppendRace, PruneStartRace, PruneEndRace, PollReadRace,
     ClaimSectionRace, AckSectionRace, WriteRace, SectionEndRace, ReplyRace
<1> QED
  BY <1>1, <1>2, <1>3 DEF Next

\* What the invariant says of the replies.
LEMMA RaceInvGives == RaceInv => NoMixedReply /\ RepliesTellOutcome
BY DEF RaceInv, Right, OneLease, Tells, GivenUp, Granted, NoMixedReply, RepliesTellOutcome

-----------------------------------------------------------------------------
(* The assignments of a section amount to one step.                        *)

\* The last assignment is to the lease id of the message that is written.
LEMMA LastAssignment ==
  ASSUME NEW k \in 1..4, NEW r
  PROVE  /\ Left(k, r)[Len(Left(k, r))].value = r.lease_id /\ Left(k, r) # << >>
         /\ LeftOfBoth(k, r)[Len(LeftOfBoth(k, r))].value = r.lease_id
         /\ LeftOfBoth(k, r) # << >>
<1>1. CASE k = 1
  BY <1>1 DEF Left, LeftOfBoth, Assign
<1>2. CASE k = 2
  BY <1>2 DEF Left, LeftOfBoth, Assign
<1>3. CASE k = 3
  BY <1>3 DEF Left, LeftOfBoth, Assign
<1>4. CASE k = 4
  BY <1>4 DEF Left, LeftOfBoth, Assign
<1>5. QED
  BY <1>1, <1>2, <1>3, <1>4

\* An assignment brings the message nearer to its target and leaves that alone.
LEMMA TargetKept ==
  ASSUME RaceInv, NEW t \in Threads, Write(t)
  PROVE  Target' = Target
<1> USE DEF RaceInv
<1>1. /\ lock = t /\ lock' = t /\ t # NoThread
      /\ todo[t] # << >> /\ todo'[t] = Tail(todo[t]) /\ granted' = granted
  BY DEF Write, leases, TypeOK, Shaped
<1>2. \E k \in 1..4 : Releases(t, k) \/ ReleasesToGrant(t, k) \/ Grants(t, k)
  BY <1>1 DEF OneWriter, Writing, Wrote
<1>3. Blank \in Message /\ \A l \in Granted : granted[l] \in Message /\ granted[l].lease_id = l
  BY Types, BlankType DEF LeasesTyped
<1>4. Target = LET l == todo[t][Len(todo[t])].value
               IN  IF l = NoLease THEN Blank ELSE granted[l]
  BY <1>1 DEF Target
<1>5. /\ todo'[t] = << >> => Target' = message'
      /\ todo'[t] # << >> =>
           Target' = LET l == todo'[t][Len(todo'[t])].value
                     IN  IF l = NoLease THEN Blank ELSE granted[l]
  BY <1>1 DEF Target
<1>6. Claims(t) => /\ Len(granted) \in Granted /\ Newest \in Message
                   /\ Newest.lease_id = Len(granted) /\ Len(granted) # NoLease
  BY <1>3 DEF Claims, LeaseIds, Granted, Newest, NoLease
<1>7. Blank.lease_id = NoLease
  BY DEF Blank
<1>8. ASSUME NEW k \in 1..4, Releases(t, k)  PROVE Target' = Target
  <2>1. todo[t] = Left(k, Blank)
    BY <1>8 DEF Releases
  <2>2. Target = Blank
    BY <1>4, <1>7, <2>1, LastAssignment
  <2>3. CASE k = 4
    <3>1. PICK l \in Granted : message = Midway(k, granted[l], Blank)
      BY <1>8 DEF Releases
    <3>2. message' = Midway(5, granted[l], Blank)
      BY <1>3, <2>1, <2>3, <3>1, Todo, Assigned
    <3>3. message' = Blank /\ todo'[t] = << >>
      BY <1>1, <1>3, <2>1, <2>3, <3>2, Ends, Todo
    <3>4. QED
      BY <1>5, <2>2, <3>3
  <2>4. CASE k # 4
    <3>1. todo'[t] = Left(k + 1, Blank) /\ k + 1 \in 1..4
      BY <1>1, <2>1, <2>4, Todo
    <3>2. QED
      BY <1>5, <1>7, <2>2, <3>1, LastAssignment
  <2>5. QED
    BY <2>3, <2>4
<1>9. ASSUME NEW k \in 1..4, ReleasesToGrant(t, k)  PROVE Target' = Target
  <2>1. todo[t] = LeftOfBoth(k, Newest) /\ Claims(t)
    BY <1>9 DEF ReleasesToGrant
  <2>2. Target = granted[Len(granted)]
    BY <1>4, <1>6, <2>1, LastAssignment
  <2>3. \/ todo'[t] = Left(1, Newest)
        \/ k + 1 \in 1..4 /\ todo'[t] = LeftOfBoth(k + 1, Newest)
    BY <1>1, <2>1, HeadAndTailOfBoth
  <2>4. todo'[t] # << >> /\ todo'[t][Len(todo'[t])].value = Newest.lease_id
    <3>1. CASE todo'[t] = Left(1, Newest)
      <4>1. Left(1, Newest)[Len(Left(1, Newest))].value = Newest.lease_id /\ Left(1, Newest) # << >>
        BY LastAssignment
      <4>2. QED
        BY <3>1, <4>1
    <3>2. CASE k + 1 \in 1..4 /\ todo'[t] = LeftOfBoth(k + 1, Newest)
      BY <3>2, LastAssignment
    <3>3. QED
      BY <2>3, <3>1, <3>2
  <2>5. QED
    BY <1>5, <1>6, <2>1, <2>2, <2>4
<1>10. ASSUME NEW k \in 1..4, Grants(t, k)  PROVE Target' = Target
  <2>1. todo[t] = Left(k, Newest) /\ Claims(t) /\ message = Midway(k, Blank, Newest)
    BY <1>10 DEF Grants
  <2>2. Target = Newest
    BY <1>4, <1>6, <2>1, LastAssignment DEF Newest
  <2>3. CASE k = 4
    <3>1. message' = Midway(5, Blank, Newest)
      BY <1>3, <1>6, <2>1, <2>3, Todo, Assigned
    <3>2. message' = Newest /\ todo'[t] = << >>
      BY <1>1, <1>3, <1>6, <2>1, <2>3, <3>1, Ends, Todo
    <3>3. QED
      BY <1>5, <2>2, <3>2
  <2>4. CASE k # 4
    <3>1. todo'[t] = Left(k + 1, Newest) /\ k + 1 \in 1..4
      BY <1>1, <2>1, <2>4, Todo
    <3>2. todo'[t] # << >> /\ todo'[t][Len(todo'[t])].value = Newest.lease_id
      BY <3>1, LastAssignment
    <3>3. QED
      BY <1>5, <1>6, <2>1, <2>2, <3>2 DEF Newest
  <2>5. QED
    BY <2>3, <2>4
<1>11. QED
  BY <1>2, <1>8, <1>9, <1>10

\* A step that leaves these alone leaves the abstract leases alone.
LEMMA SameLeases ==
  ASSUME Target' = Target, UNCHANGED <<place, granted, returned, clock>>
  PROVE  UNCHANGED Lease!vars
<1>1. Stage' = Stage /\ \A l : OwnerOf(l)' = OwnerOf(l)
  BY DEF Stage, OwnerOf
<1>2. QED
  BY <1>1 DEF Lease!vars

\* Claims and leases name their workers, and a message that is still to be
\* posted has no lease.
WorkersNamed ==
  /\ \A t \in Threads : request[t].kind = "claim" => request[t].worker \in Workers
  /\ \A l \in Granted : granted[l].leased_by \in Workers

LeaseInv == RaceInv /\ WorkersNamed /\ (place = "new" => message = Blank)

\* Most steps grant nothing, write nothing and take no request.
LEMMA NamesKept ==
  ASSUME LeaseInv, UNCHANGED <<granted, request>>, UNCHANGED message \/ place' # "new",
         place' = "new" => place = "new"
  PROVE  WorkersNamed' /\ (place' = "new" => message' = Blank)
BY DEF LeaseInv, WorkersNamed, Granted

\* They hold from the start and are kept.
LEMMA LeaseInvNext == LeaseInv /\ [Next]_vars => LeaseInv'
<1> SUFFICES ASSUME LeaseInv, [Next]_vars PROVE LeaseInv'
  OBVIOUS
<1> DEFINE Goal == WorkersNamed' /\ (place' = "new" => message' = Blank)
<1>1. RaceInv'
  BY NextRace DEF LeaseInv
<1>2. CASE UNCHANGED vars
  BY <1>1, <1>2, NamesKept DEF vars, leases, LeaseInv
<1>3. CASE Tick
  BY <1>1, <1>3, NamesKept DEF Tick, leases, LeaseInv
<1>4. ASSUME NEW t \in Threads, NEW r \in Request, Receive(t, r)  PROVE Goal
  <2>1. /\ request' = [request EXCEPT ![t] = r] /\ UNCHANGED <<granted, place, message>>
        /\ r.kind = "claim" => r.worker \in Workers
    BY <1>4 DEF Receive, Requests, Request, leases
  <2>2. request \in [Threads -> Request]
    BY DEF LeaseInv, RaceInv, TypeOK
  <2>3. QED
    BY <2>1, <2>2 DEF LeaseInv, WorkersNamed, Granted
<1>5. ASSUME NEW t \in Threads, ClaimSection(t)  PROVE Goal
  <2>1. CASE Refuse(t)
    BY <2>1, NamesKept DEF Refuse, leases
  <2>2. CASE ~Refuse(t)
    <3> DEFINE n == Len(granted) + 1
               r == Leased(request[t].worker, now[t] + Span, n)
    <3>1. /\ granted' = Append(granted, r) /\ request' = [request EXCEPT ![t].lease = n]
          /\ request[t].kind = "claim" /\ UNCHANGED <<place, message>>
      BY <1>5, <2>2 DEF ClaimSection
    <3>2. r.leased_by \in Workers
      BY <3>1 DEF LeaseInv, WorkersNamed, Leased
    <3>3. \A l \in 1..Len(granted') : granted'[l] = r \/ (l \in Granted /\ granted'[l] = granted[l])
      BY <3>1, AppendProperties DEF LeaseInv, RaceInv, TypeOK, Granted
    <3>4. \A u \in Threads : /\ request'[u].kind = request[u].kind
                             /\ request'[u].worker = request[u].worker
      BY <3>1 DEF LeaseInv, RaceInv, TypeOK, Request
    <3> HIDE DEF r
    <3>5. QED
      BY <3>1, <3>2, <3>3, <3>4 DEF LeaseInv, WorkersNamed, Granted
  <2>3. QED
    BY <2>1, <2>2
<1>6. ASSUME NEW t \in Threads, Write(t)  PROVE Goal
  <2>1. place = "list"
    BY <1>6, WriteGoesOn DEF LeaseInv
  <2>2. QED
    BY <1>6, <2>1, NamesKept DEF Write, leases
<1>7. ASSUME NEW t \in Threads,
             PostAppend(t) \/ PruneStart(t) \/ PruneEnd(t) \/ SectionEnd(t) \/ Reply(t)
      PROVE  Goal
  <2>1. /\ UNCHANGED <<granted, request, message>>
        /\ place' = "new" => place = "new"
    BY <1>7 DEF PostAppend, PruneStart, PruneEnd, SectionEnd, Reply, leases
  <2>2. QED
    BY <2>1, NamesKept
<1>8. ASSUME NEW t \in Threads, PollRead(t) \/ AckSection(t)  PROVE Goal
  <2>1. /\ UNCHANGED <<granted, request, message>>
        /\ place' = "new" => place = "new"
    BY <1>8 DEF PollRead, AckSection, Refuse, leases
  <2>2. QED
    BY <2>1, NamesKept
<1>9. QED
  BY <1>1, <1>2, <1>3, <1>4, <1>5, <1>6, <1>7, <1>8 DEF Next, LeaseInv

\* A message that is free is its own target; its lease is over if it is overdue.
LEMMA FreeTarget ==
  ASSUME LeaseInv, lock = NoThread
  PROVE  /\ Target = message
         /\ message.status = "leased" =>
              message.lease_id \in Granted /\ message = granted[message.lease_id]
         /\ \A t \in Threads :
              place = "list" /\ Overdue(t) => Lease!Lapsed(1) /\ 1 \in Lease!Present
<1>1. Target = message
  BY DEF Target
<1>2. message.status = "leased" =>
        message.lease_id \in Granted /\ message = granted[message.lease_id]
  BY LeasedIsOne DEF LeaseInv
<1>3. ASSUME NEW t \in Threads, place = "list", Overdue(t)
      PROVE  Lease!Lapsed(1) /\ 1 \in Lease!Present
  <2>1. now[t] \in Nat /\ now[t] <= clock /\ clock \in Nat /\ message.lease_until \in Int
    BY Types DEF LeaseInv, RaceInv, TypeOK, Message, Times
  <2>2. message.status = "leased" /\ message.lease_until <= clock
    BY <1>3, <2>1 DEF Overdue
  <2>3. /\ message.lease_id \in 1..Len(granted)
        /\ granted[message.lease_id].lease_until <= clock
    BY <1>2, <2>2 DEF Granted
  <2>4. Stage = "leased"
    BY <1>1, <1>3, <2>2 DEF Stage
  <2>5. QED
    BY <1>1, <2>3, <2>4 DEF Lease!Lapsed, Lease!Present
<1>4. QED
  BY <1>1, <1>2, <1>3

\* What a section starts to write is its target.
LEMMA SectionTarget ==
  ASSUME NEW t \in Threads, lock' = t
  PROVE  /\ todo'[t] = << >> => Target' = message'
         /\ todo'[t] = Left(1, Blank) => Target' = Blank
         /\ \A r : /\ todo'[t] \in {Left(1, r), LeftOfBoth(1, r)}
                   /\ r.lease_id # NoLease /\ granted'[r.lease_id] = r
                   => Target' = r
<1>1. t # NoThread
  OBVIOUS
<1>2. todo'[t] = << >> => Target' = message'
  BY <1>1 DEF Target
<1>3. todo'[t] # << >> =>
        Target' = LET l == todo'[t][Len(todo'[t])].value
                  IN  IF l = NoLease THEN Blank ELSE granted'[l]
  BY <1>1 DEF Target
<1>4. ASSUME todo'[t] = Left(1, Blank)  PROVE Target' = Blank
  <2> DEFINE s == Left(1, Blank)
  <2>1. s[Len(s)].value = Blank.lease_id /\ s # << >>
    BY LastAssignment
  <2>a. Blank.lease_id = NoLease
    BY DEF Blank
  <2> HIDE DEF s
  <2>2. QED
    BY <1>3, <1>4, <2>1, <2>a DEF s
<1>5. ASSUME NEW r, todo'[t] = Left(1, r) \/ todo'[t] = LeftOfBoth(1, r),
             r.lease_id # NoLease, granted'[r.lease_id] = r
      PROVE  Target' = r
  <2>1. /\ Left(1, r)[Len(Left(1, r))].value = r.lease_id /\ Left(1, r) # << >>
        /\ LeftOfBoth(1, r)[Len(LeftOfBoth(1, r))].value = r.lease_id
        /\ LeftOfBoth(1, r) # << >>
    BY LastAssignment
  <2>2. todo'[t] # << >> /\ todo'[t][Len(todo'[t])].value = r.lease_id
    BY <1>5, <2>1
  <2>3. QED
    BY <1>3, <1>5, <2>2
<1>6. QED
  BY <1>2, <1>4, <1>5

\* A post submits the item.
LEMMA PostRefined ==
  ASSUME LeaseInv, NEW t \in Threads, PostAppend(t)
  PROVE  Lease!Next
<1>1. /\ lock = NoThread /\ lock' = NoThread /\ place = "new" /\ place' = "list"
      /\ UNCHANGED <<message, granted, returned, clock>>
  BY DEF PostAppend, leases
<1>2. message = Blank /\ Target = Blank /\ Target' = Blank
  BY <1>1 DEF LeaseInv, Target
<1>3. Stage = "absent" /\ Stage' = "available"
  BY <1>1, <1>2 DEF Stage, Blank
<1>4. \A l : OwnerOf(l)' = OwnerOf(l)
  BY <1>1 DEF OwnerOf
<1>5. Lease!Submit(1)
  BY <1>1, <1>2, <1>3, <1>4 DEF Lease!Submit
<1>6. QED
  BY <1>5 DEF Lease!Next

\* A prune releases the item if its lease is over.
LEMMA PruneStartRefined ==
  ASSUME LeaseInv, NEW t \in Threads, PruneStart(t)
  PROVE  Lease!Next \/ UNCHANGED Lease!vars
<1> DEFINE S == IF place = "list" /\ Overdue(t) THEN Release ELSE << >>
<1>1. /\ lock = NoThread /\ lock' = t /\ todo'[t] = S
      /\ UNCHANGED <<place, message, granted, returned, clock>>
  BY DEF PruneStart, Enter, leases, LeaseInv, RaceInv, Shaped
<1>2. CASE ~(place = "list" /\ Overdue(t))
  <2>1. Target' = Target
    BY <1>1, <1>2, FreeTarget, SectionTarget
  <2>2. QED
    BY <1>1, <2>1, SameLeases
<1>3. CASE place = "list" /\ Overdue(t)
  <2>1. Target' = Blank
    BY <1>1, <1>3, AllLeft, SectionTarget
  <2>2. Stage' = "available" /\ Target'.lease_id = NoLease
    BY <1>1, <1>3, <2>1 DEF Stage, Blank
  <2>3. Lease!Lapsed(1) /\ 1 \in Lease!Present
    BY <1>1, <1>3, FreeTarget
  <2>4. \A l : OwnerOf(l)' = OwnerOf(l)
    BY <1>1 DEF OwnerOf
  <2>5. Lease!Sweep({1}, {})
    BY <1>1, <2>2, <2>3, <2>4 DEF Lease!Sweep, Lease!NoLease, NoLease
  <2>6. {1} \in SUBSET Lease!Present /\ {} \in SUBSET Lease!Present
    BY <2>3
  <2>7. QED
    BY <2>5, <2>6 DEF Lease!Next
<1>4. QED
  BY <1>2, <1>3

\* A prune that ends leaves the item as it is, or drops it.
LEMMA PruneEndRefined ==
  ASSUME LeaseInv, NEW t \in Threads, PruneEnd(t)
  PROVE  Lease!Next \/ UNCHANGED Lease!vars
<1>1. /\ lock = t /\ lock' = NoThread /\ todo[t] = << >>
      /\ UNCHANGED <<message, granted, returned, clock>>
      /\ place' = place \/ (place = "list" /\ place' = "gone")
  BY DEF PruneEnd, leases, LeaseInv, RaceInv, TypeOK
<1>2. Target = message /\ Target' = message
  BY <1>1 DEF Target
<1>3. CASE place' = place
  BY <1>1, <1>2, <1>3, SameLeases
<1>4. CASE place = "list" /\ place' = "gone"
  <2>1. Stage \in {"available", "leased"} /\ Stage' = "gone"
    BY <1>4 DEF Stage
  <2>2. 1 \in Lease!Present
    BY <2>1 DEF Lease!Present
  <2>3. \A l : OwnerOf(l)' = OwnerOf(l)
    BY <1>1 DEF OwnerOf
  <2>4. Lease!Sweep({}, {1})
    BY <1>1, <1>2, <2>1, <2>3 DEF Lease!Sweep
  <2>5. {1} \in SUBSET Lease!Present /\ {} \in SUBSET Lease!Present
    BY <2>2
  <2>6. QED
    BY <2>4, <2>5 DEF Lease!Next
<1>5. QED
  BY <1>1, <1>3, <1>4

\* A claim that writes grants the item.
LEMMA ClaimSectionRefined ==
  ASSUME LeaseInv, NEW t \in Threads, ClaimSection(t)
  PROVE  Lease!Next \/ UNCHANGED Lease!vars
<1> DEFINE n == Len(granted) + 1
           w == request[t].worker
           r == Leased(w, now[t] + Span, n)
<1>1. CASE Refuse(t)
  <2>1. Target' = Target
    BY <1>1 DEF Refuse, Target, leases
  <2>2. QED
    BY <1>1, <2>1, SameLeases DEF Refuse, leases
<1>2. CASE ~Refuse(t)
  <2>1. /\ lock = NoThread /\ lock' = t /\ Claimable(t) /\ n \in LeaseIds
        /\ request[t].kind = "claim"
        /\ todo' = [todo EXCEPT ![t] = ClaimWrites(t, r)]
        /\ granted' = Append(granted, r)
        /\ UNCHANGED <<clock, place, message, returned>>
    BY <1>2 DEF ClaimSection, Enter
  <2>2. /\ Len(granted) \in Nat /\ n \in Nat /\ n # NoLease /\ n \notin Granted
        /\ granted \in Seq(Message)
    BY <2>1, Types DEF LeaseIds, LeaseInv, RaceInv, TypeOK, Granted, NoLease
  <2>3. /\ r \in Message /\ r.status = "leased" /\ r.lease_id = n /\ r.leased_by = w
        /\ w \in Workers
    <3>1. w \in Workers /\ now[t] + Span \in Times
      BY <2>1, Types DEF LeaseInv, RaceInv, TypeOK, WorkersNamed, Times
    <3> QED
      BY <2>1, <3>1 DEF Leased, Message
  <2> HIDE DEF r
  <2>4. /\ Len(granted') = n /\ granted'[n] = r
        /\ \A l \in Granted : granted'[l] = granted[l]
    BY <2>1, <2>2, <2>3, AppendProperties DEF Granted
  <2>5. 1..Len(granted') = Granted \cup {n}
    BY <2>2, <2>4 DEF Granted
  <2> HIDE DEF n, w
  <2>6. todo'[t] \in {Left(1, r), LeftOfBoth(1, r)}
    <3>1. todo'[t] = ClaimWrites(t, r)
      BY <2>1 DEF LeaseInv, RaceInv, Shaped
    <3>2. QED
      BY <3>1, AllLeft, NothingThenGrant DEF ClaimWrites
  <2>7. Target' = r
    BY <2>1, <2>2, <2>3, <2>4, <2>6, SectionTarget
  <2>8. Stage' = "leased"
    BY <2>1, <2>3, <2>7 DEF Stage, Claimable
  <2>9. Stage = "available" \/ Lease!Lapsed(1)
    <3>1. CASE Overdue(t)
      BY <2>1, <3>1, FreeTarget DEF Claimable
    <3>2. CASE ~Overdue(t)
      BY <2>1, <3>2, FreeTarget DEF Claimable, Stage
    <3>3. QED
      BY <3>1, <3>2
  <2>10. OwnerOf(n) = Lease!NotGranted
    BY <2>2 DEF OwnerOf, Granted, Lease!NotGranted, Lease!NoItem, Nobody
  <2>11. \A l \in LeaseIds :
           OwnerOf(l)' = IF l = n THEN [item |-> 1, worker |-> w] ELSE OwnerOf(l)
    BY <2>2, <2>3, <2>4, <2>5 DEF OwnerOf, Granted
  <2> DEFINE Lapsed == {l \in 1..Len(granted) : granted[l].lease_until <= clock}
  <2>12. Lapsed' \in {Lapsed, Lapsed \cup {n}}
    <3>1. \A l \in Granted : l \in Lapsed' <=> l \in Lapsed
      BY <2>1, <2>4, <2>5 DEF Granted
    <3>2. Lapsed \subseteq Granted /\ Lapsed' \subseteq Granted \cup {n}
      BY <2>5 DEF Granted
    <3>3. CASE n \in Lapsed'
      BY <3>1, <3>2, <3>3
    <3>4. CASE n \notin Lapsed'
      BY <3>1, <3>2, <3>4
    <3>5. QED
      BY <3>3, <3>4
  \* A step of the abstract leases is of values, not of expressions of the state.
  <2>13. PICK m, v : m = n /\ v = w
    OBVIOUS
  <2>14. Lease!Grant(1, m, v)
    BY <2>1, <2>3, <2>7, <2>8, <2>9, <2>10, <2>11, <2>12, <2>13 DEF Lease!Grant
  <2>15. m \in LeaseIds /\ v \in Workers
    BY <2>1, <2>3, <2>13
  <2>16. QED
    BY <2>14, <2>15 DEF Lease!Next
<1>3. QED
  BY <1>1, <1>2

\* An ack removes the item and a nack requeues it, if their worker holds it.
LEMMA AckSectionRefined ==
  ASSUME LeaseInv, NEW t \in Threads, AckSection(t)
  PROVE  Lease!Next \/ UNCHANGED Lease!vars
<1>1. CASE Refuse(t)
  <2>1. Target' = Target
    BY <1>1 DEF Refuse, Target, leases
  <2>2. QED
    BY <1>1, <2>1, SameLeases DEF Refuse, leases
<1>2. CASE ~Refuse(t)
  <2> DEFINE l == request[t].lease
             w == request[t].worker
             S == IF request[t].kind = "ack" THEN << >> ELSE Release
  <2>1. /\ lock = NoThread /\ lock' = t /\ Holds(t) /\ returned' = returned \cup {l}
        /\ place' = (IF request[t].kind = "ack" THEN "gone" ELSE "list")
        /\ todo' = [todo EXCEPT ![t] = S]
        /\ UNCHANGED <<clock, message, granted>>
    BY <1>2 DEF AckSection, Enter, Holds
  <2>2. todo'[t] = S
    BY <2>1 DEF LeaseInv, RaceInv, Shaped
  <2> HIDE DEF S
  <2>3. l \in Granted /\ message = granted[l] /\ Target = message /\ message.lease_id = l
    BY <2>1, FreeTarget DEF Holds
  <2>4. w \in Workers /\ granted[l].leased_by = w /\ Stage = "leased" /\ l \in LeaseIds
    <3>1. Len(granted) \in Nat /\ Len(granted) <= ClaimBound
      BY Types DEF LeaseInv, RaceInv, TypeOK
    <3>2. w = message.leased_by /\ place = "list" /\ message.status = "leased"
      BY <2>1 DEF Holds
    <3>3. QED
      BY <2>3, <3>1, <3>2 DEF LeaseInv, WorkersNamed, Granted, LeaseIds, Stage
  <2> HIDE DEF l, w
  <2>5. OwnerOf(l) = [item |-> 1, worker |-> w]
    BY <2>3, <2>4 DEF OwnerOf, Granted
  <2>6. Lease!Holds(l, w) /\ l \in Lease!Granted
    <3>1. OwnerOf(l) # Lease!NotGranted
      BY <2>5 DEF Lease!NotGranted, Lease!NoItem
    <3>2. QED
      BY <2>3, <2>4, <2>5, <3>1 DEF Lease!Holds, Lease!Granted
  <2>7. \A k : OwnerOf(k)' = OwnerOf(k)
    BY <2>1 DEF OwnerOf
  <2> DEFINE owners == [k \in LeaseIds |-> OwnerOf(k)]
  <2>a. owners[l].item = 1 /\ owners' = owners
    BY <2>4, <2>5, <2>7
  <2>b. {k \in 1..Len(granted) : granted[k].lease_until <= clock}'
        = {k \in 1..Len(granted) : granted[k].lease_until <= clock}
    BY <2>1
  <2>8. CASE request[t].kind = "ack"
    <3>1. Target' = message'
      BY <2>1, <2>2, <2>8, SectionTarget DEF S
    <3>2. Stage' = "gone"
      BY <2>1, <2>8 DEF Stage
    <3>3. Lease!Remove(l, w)
      BY <2>1, <2>3, <2>6, <2>a, <2>b, <3>1, <3>2 DEF Lease!Remove
    <3>4. QED
      BY <2>4, <2>6, <3>3 DEF Lease!Next
  <2>9. CASE request[t].kind # "ack"
    <3>1. Target' = Blank
      BY <2>1, <2>2, <2>9, AllLeft, SectionTarget DEF S
    <3>2. Stage' = "available" /\ Target'.lease_id = Lease!NoLease
      BY <2>1, <2>9, <3>1 DEF Stage, Blank, Lease!NoLease, NoLease
    <3>3. Lease!Requeue(l, w)
      BY <2>1, <2>6, <2>a, <2>b, <3>2 DEF Lease!Requeue
    <3>4. QED
      BY <2>4, <2>6, <3>3 DEF Lease!Next
  <2>10. QED
    BY <2>8, <2>9
<1>3. QED
  BY <1>1, <1>2

\* The other steps of a thread leave the item alone.
LEMMA OtherStepsRefined ==
  ASSUME LeaseInv, NEW t \in Threads,
         \/ \E r \in Request : Receive(t, r)
         \/ PollRead(t) \/ Write(t) \/ SectionEnd(t) \/ Reply(t)
  PROVE  UNCHANGED Lease!vars
<1>1. CASE Write(t)
  BY <1>1, TargetKept, SameLeases DEF Write, leases, LeaseInv
<1>2. CASE SectionEnd(t)
  <2>1. /\ lock = t /\ lock' = NoThread /\ todo[t] = << >>
        /\ UNCHANGED <<place, message, granted, returned, clock>>
    BY <1>2 DEF SectionEnd, leases, LeaseInv, RaceInv, TypeOK
  <2>2. Target' = Target
    BY <2>1 DEF Target
  <2>3. QED
    BY <2>1, <2>2, SameLeases
<1>3. CASE (\E r \in Request : Receive(t, r)) \/ PollRead(t) \/ Reply(t)
  <2>1. UNCHANGED <<lock, todo, place, message, granted, returned, clock>>
    BY <1>3 DEF Receive, PollRead, Refuse, Reply, leases
  <2>2. Target' = Target
    BY <2>1 DEF Target
  <2>3. QED
    BY <2>1, <2>2, SameLeases
<1>4. QED
  BY <1>1, <1>2, <1>3

\* When time passes, leases lapse.
LEMMA TickRefined ==
  ASSUME LeaseInv, Tick
  PROVE  Lease!Next
<1> DEFINE Lapsed == {l \in 1..Len(granted) : granted[l].lease_until <= clock}
<1>1. /\ UNCHANGED <<lock, todo, place, message, granted, returned>>
      /\ clock \in Int /\ clock' = clock + 1
  BY Types DEF Tick, leases, LeaseInv, RaceInv, TypeOK
<1>2. Target' = Target /\ Stage' = Stage /\ \A l : OwnerOf(l)' = OwnerOf(l)
  BY <1>1 DEF Target, Stage, OwnerOf
<1>3. /\ Len(granted) \in Nat /\ Len(granted) <= ClaimBound
      /\ \A l \in 1..Len(granted) : granted[l] \in Message
  BY Types DEF LeaseInv, RaceInv, TypeOK, Granted
<1>4. Lapsed' = Lapsed \cup Lapsed'
  BY <1>1, <1>3 DEF Message, Times
<1>5. Lapsed' \subseteq Lease!Granted
  <2>1. ASSUME NEW l \in 1..Len(granted)  PROVE l \in Lease!Granted
    <3>1. l \in LeaseIds /\ OwnerOf(l).item = 1
      BY <1>3, <2>1 DEF LeaseIds, OwnerOf
    <3>2. Lease!NotGranted.item = 0
      BY DEF Lease!NotGranted, Lease!NoItem
    <3>3. QED
      BY <3>1, <3>2 DEF Lease!Granted
  <2>2. QED
    BY <1>1, <2>1
<1>6. PICK L : L = Lapsed'
  OBVIOUS
<1>7. Lease!Lapse(L)
  BY <1>1, <1>2, <1>4, <1>6 DEF Lease!Lapse
<1>8. L \in SUBSET Lease!Granted
  BY <1>5, <1>6
<1>9. QED
  BY <1>7, <1>8 DEF Lease!Next

\* The start, which is also that of the abstract leases.
LEMMA LeaseInit == Init => LeaseInv /\ Lease!Init
<1> SUFFICES ASSUME Init PROVE LeaseInv /\ Lease!Init
  OBVIOUS
<1>1. Len(granted) = 0 /\ Granted = {}
  BY DEF Init, Granted
<1>2. WorkersNamed /\ message = Blank
  BY <1>1 DEF Init, WorkersNamed, NoRequest
<1>3. Target = Blank /\ Stage = "absent"
  BY DEF Init, Target, Stage
<1>4. \A l : OwnerOf(l) = Lease!NotGranted
  BY <1>1 DEF OwnerOf, Granted, Lease!NotGranted, Lease!NoItem, Nobody
<1>5. {l \in 1..Len(granted) : granted[l].lease_until <= clock} = {} /\ returned = {}
  BY <1>1 DEF Init, Granted
<1>6. Lease!Init
  BY <1>3, <1>4, <1>5 DEF Lease!Init, Lease!NoLease, Blank, NoLease
<1>7. QED
  BY <1>2, <1>6, InitRace DEF LeaseInv

\* Each step is one of the abstract leases, or none.
LEMMA StepRefined == LeaseInv /\ [Next]_vars => [Lease!Next]_(Lease!vars)
<1> SUFFICES ASSUME LeaseInv, [Next]_vars PROVE Lease!Next \/ UNCHANGED Lease!vars
  OBVIOUS
<1>1. CASE UNCHANGED vars
  <2>1. UNCHANGED <<lock, todo, place, message, granted, returned, clock>>
    BY <1>1 DEF vars, leases
  <2>2. Target' = Target
    BY <2>1 DEF Target
  <2>3. QED
    BY <2>1, <2>2, SameLeases
<1>2. CASE Next
  BY <1>2, PostRefined, PruneStartRefined, PruneEndRefined, ClaimSectionRefined,
     AckSectionRefined, OtherStepsRefined, TickRefined DEF Next
<1>3. QED
  BY <1>1, <1>2

-----------------------------------------------------------------------------
(* The theorems.                                                           *)

\* The variables of the handlers have the types that the model gives them: the
\* lock is held by the thread that writes, and by no other.
THEOREM RaceTypes == Spec => []TypeOK
<1>1. RaceInv => TypeOK
  BY DEF RaceInv
<1> QED
  BY InitRace, NextRace, <1>1, PTL DEF Spec

\* No reply mixes two leases, however the reading of the message by jsonify
\* falls between the assignments of other requests.
THEOREM NoRepliesMixed == Spec => []NoMixedReply
<1>1. RaceInv => NoMixedReply
  BY RaceInvGives
<1> QED
  BY InitRace, NextRace, <1>1, PTL DEF Spec

\* A reply that is read after the lock was given back tells what the request
\* did: an ack shows the lease it ended, a nack not, and a claim shows its
\* lease unless that was given up in the meantime.
THEOREM RepliesAreTrue == Spec => []RepliesTellOutcome
<1>1. RaceInv => RepliesTellOutcome
  BY RaceInvGives
<1> QED
  BY InitRace, NextRace, <1>1, PTL DEF Spec

\* The assignments of a section amount to one step: whatever interleaving of
\* assignments and replies, the message goes through grants, returns, lapses and
\* sweeps of leases, as in WorkLease and in MessageBus.
THEOREM AssignmentsImplementLeases == Spec => ImplementsWorkLease
<1> QED
  BY LeaseInit, LeaseInvNext, StepRefined, PTL DEF Spec, ImplementsWorkLease, Lease!Spec

=============================================================================
