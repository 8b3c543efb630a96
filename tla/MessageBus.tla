----------------------------- MODULE MessageBus -----------------------------
(***************************************************************************)
(* The message store of server.py with its queue leasing: POST and GET     *)
(* /bus/messages, POST /bus/queues/claim, /ack and /nack.                  *)
(*                                                                         *)
(* app.run(threaded=True) serves every request in a thread of its own, and *)
(* a handler takes _bus_lock several times: one action per stretch of code *)
(* that runs under the lock, one for what the handler does before the      *)
(* first, and one for a reply that is read after the last.  What happens   *)
(* between two actions of a thread, other threads and the clock decide.    *)
(*                                                                         *)
(* A message is named by its position in the order of the appends, so the  *)
(* list _bus_messages is the set of names in it, read in increasing order. *)
(* A lease id (a uuid4) is named by its position in the order of claims.   *)
(***************************************************************************)
EXTENDS Integers, FiniteSets

CONSTANTS
  Threads,      \* request threads of the server
  Workers,      \* worker names that claims carry
  Queues,       \* queue names; a message without one is only published
  Ttls,         \* ttl_seconds of the posts, NoTtl for None
  Spans,        \* lease_seconds of the claims, the default among them
  MaxMessages,  \* BUS_MAX_MESSAGES
  Retention,    \* BUS_RETENTION_SECONDS
  MsgBound,     \* bound of the model: messages ever appended
  ClaimBound,   \* bound of the model: leases ever granted
  ClockBound    \* bound of the model: last second of the clock

NoQueue == "no queue"
NoTtl == 0
NoLease == 0
NoMsg == 0
Nobody == "nobody"

ASSUME BusAssumption ==
  /\ IsFiniteSet(Threads)
  /\ NoQueue \notin Queues
  /\ Nobody \notin Workers
  /\ Ttls \subseteq Nat
  /\ Spans \subseteq Nat \ {0}
  /\ MaxMessages \in Nat \ {0}
  /\ Retention \in Nat
  /\ MsgBound \in Nat
  /\ ClaimBound \in Nat
  /\ ClockBound \in Nat

MsgIds == 1..MsgBound
LeaseIds == 1..ClaimBound

Message == [queue : Queues \cup {NoQueue}, ts : Nat, ttl : Ttls \cup {NoTtl},
            status : {"published", "pending", "leased"},
            leased_by : Workers \cup {Nobody}, lease_until : Nat,
            lease_id : LeaseIds \cup {NoLease}]

\* The arguments of a request, a field the request does not carry left blank.
Args == [queue : Queues \cup {NoQueue}, ttl : Ttls \cup {NoTtl},
         worker : Workers \cup {Nobody}, span : Spans \cup {0},
         msg : MsgIds \cup {NoMsg}, lease : LeaseIds \cup {NoLease},
         requeue : BOOLEAN]

NoArgs == [queue |-> NoQueue, ttl |-> NoTtl, worker |-> Nobody, span |-> 0,
           msg |-> NoMsg, lease |-> NoLease, requeue |-> FALSE]

\* A lease as it was granted, and how its holder gave it up, if it did.
Grant == [msg : MsgIds \cup {NoMsg}, worker : Workers \cup {Nobody},
          until : Nat, end : {"open", "requeued", "removed"}]

Stages == {"idle", "append", "postPrune", "pollPrune", "pollRead",
           "claimPrune", "claimScan", "claimReply", "ackPrune", "ackApply"}

VARIABLES
  clock,     \* time.time(), in seconds
  live,      \* the names in _bus_messages
  appended,  \* number of messages appended so far
  msg,       \* the message dictionaries
  pc,        \* where each thread is in its handler
  now,       \* the thread's last reading of the clock, or the start of the
             \* stretch in which it makes its next one; 0 when it has no use for it
  arg,       \* the request each thread handles
  issued,    \* number of leases granted so far
  grants     \* history: the leases granted, for the properties only

store == <<live, appended, msg>>
history == <<issued, grants>>
vars == <<clock, live, appended, msg, pc, now, arg, issued, grants>>

TypeOK ==
  /\ clock \in 0..ClockBound
  /\ appended \in 0..MsgBound
  /\ live \subseteq 1..appended
  /\ msg \in [MsgIds -> Message]
  /\ pc \in [Threads -> Stages]
  /\ now \in [Threads -> 0..clock]
  /\ arg \in [Threads -> Args]
  /\ issued \in 0..ClaimBound
  /\ grants \in [LeaseIds -> Grant]

NewMessage(q, ts, ttl) ==
  [queue |-> q, ts |-> ts, ttl |-> ttl,
   status |-> IF q = NoQueue THEN "published" ELSE "pending",
   leased_by |-> Nobody, lease_until |-> 0, lease_id |-> NoLease]

Init ==
  /\ clock = 0
  /\ live = {}
  /\ appended = 0
  /\ msg = [m \in MsgIds |-> NewMessage(NoQueue, 0, NoTtl)]
  /\ pc = [t \in Threads |-> "idle"]
  /\ now = [t \in Threads |-> 0]
  /\ arg = [t \in Threads |-> NoArgs]
  /\ issued = 0
  /\ grants = [l \in LeaseIds |->
                 [msg |-> NoMsg, worker |-> Nobody, until |-> 0, end |-> "open"]]

-----------------------------------------------------------------------------
(* The helpers of the store.                                               *)

Expired(m, n) ==
  \/ msg[m].ttl # NoTtl /\ n - msg[m].ts > msg[m].ttl
  \/ n - msg[m].ts > Retention

\* Mutant: a release that misspells the status.
ReleasedMisspelt(r) ==
  [r EXCEPT !.status = "available", !.leased_by = Nobody,
            !.lease_until = 0, !.lease_id = NoLease]

Released(r) ==
  [r EXCEPT !.status = "pending", !.leased_by = Nobody,
            !.lease_until = 0, !.lease_id = NoLease]

\* Mutant: a lease is over one second early.
OverdueEarly(r, n) == r.status = "leased" /\ r.lease_until <= n + 1

Leased(r, w, until, l) ==
  [r EXCEPT !.status = "leased", !.leased_by = w,
            !.lease_until = until, !.lease_id = l]

Overdue(r, n) == r.status = "leased" /\ r.lease_until <= n

\* Mutant: off by one.
NewestPlusOne(S) == {m \in S : Cardinality({j \in S : j > m}) <= MaxMessages}

\* The slice [-MaxMessages:] of a list.
Newest(S) == {m \in S : Cardinality({j \in S : j >= m}) <= MaxMessages}

\* Mutant: the size is cut first, so that messages which are about to expire
\* push out others which are not.
PruneSizeFirst(n) ==
  /\ msg' = [m \in MsgIds |-> IF m \in live /\ Overdue(msg[m], n)
                              THEN Released(msg[m]) ELSE msg[m]]
  /\ live' = {m \in Newest(live) : ~Expired(m, n)}
  /\ UNCHANGED appended

\* _bus_prune: overdue leases are released first, then the expired messages
\* go, then the oldest of those that are left if there are too many.
Prune(n) ==
  /\ msg' = [m \in MsgIds |-> IF m \in live /\ Overdue(msg[m], n)
                              THEN Released(msg[m]) ELSE msg[m]]
  /\ live' = Newest({m \in live : ~Expired(m, n)})
  /\ UNCHANGED appended

\* A request is taken by an idle thread, which reads the clock or is about to.
Receive(t, stage, request) ==
  /\ pc[t] = "idle"
  /\ pc' = [pc EXCEPT ![t] = stage]
  /\ arg' = [arg EXCEPT ![t] = request]
  /\ now' = [now EXCEPT ![t] = clock]
  /\ UNCHANGED <<clock, store, history>>

Goto(t, from, to) ==
  /\ pc[t] = from
  /\ pc' = [pc EXCEPT ![t] = to]

\* The handler returns: the thread forgets its request.
Finish(t, from) ==
  /\ Goto(t, from, "idle")
  /\ arg' = [arg EXCEPT ![t] = NoArgs]
  /\ now' = [now EXCEPT ![t] = 0]

\* Threads whose request may still append a message, or be granted a lease.
At(S) == {t \in Threads : pc[t] \in S}
Appending == At({"append"})
Claiming == At({"claimPrune", "claimScan"})

-----------------------------------------------------------------------------
(* POST /bus/messages.                                                     *)

\* The message, its ts among its fields, is built before the lock is taken.
PostStart(t, q, ttl) ==
  /\ appended + Cardinality(Appending) < MsgBound
  /\ Receive(t, "append", [NoArgs EXCEPT !.queue = q, !.ttl = ttl])

PostAppend(t) ==
  /\ Goto(t, "append", "postPrune")
  /\ appended' = appended + 1
  /\ live' = live \cup {appended'}
  /\ msg' = [msg EXCEPT ![appended'] = NewMessage(arg[t].queue, now[t], arg[t].ttl)]
  /\ now' = [now EXCEPT ![t] = clock]
  /\ UNCHANGED <<clock, arg, history>>

\* The clock is read before the lock is taken: n may be stale by then.
PostPrune(t) ==
  /\ Finish(t, "postPrune")
  /\ \E n \in now[t]..clock : Prune(n)
  /\ UNCHANGED <<clock, history>>

-----------------------------------------------------------------------------
(* GET /bus/messages.                                                      *)

PollStart(t) == Receive(t, "pollPrune", NoArgs)

PollPrune(t) ==
  /\ Goto(t, "pollPrune", "pollRead")
  /\ \E n \in now[t]..clock : Prune(n)
  /\ now' = [now EXCEPT ![t] = 0]
  /\ UNCHANGED <<clock, arg, history>>

\* The copy of the list is taken here; what is cut from it for the reply is
\* module PollView.
PollRead(t) ==
  /\ Finish(t, "pollRead")
  /\ UNCHANGED <<clock, store, history>>

-----------------------------------------------------------------------------
(* POST /bus/queues/claim.                                                 *)

ClaimStart(t, q, w, span) ==
  /\ issued + Cardinality(Claiming) < ClaimBound
  /\ Receive(t, "claimPrune",
             [NoArgs EXCEPT !.queue = q, !.worker = w, !.span = span])

\* One reading of the clock serves the prune and the scan.
ClaimPrune(t) ==
  /\ Goto(t, "claimPrune", "claimScan")
  /\ Prune(now[t])
  /\ UNCHANGED <<clock, now, arg, history>>

\* What the scan may lease: a lease that has run out since the prune is
\* released on the way.
Claimable(q, n) ==
  {m \in live : msg[m].queue = q /\ (msg[m].status = "pending" \/ Overdue(msg[m], n))}

\* Mutant: the scan starts at the newest message.
FirstNewest(S) == CHOOSE m \in S : \A j \in S : m >= j

First(S) == CHOOSE m \in S : \A j \in S : m <= j

ClaimScan(t) ==
  LET S == Claimable(arg[t].queue, now[t])
      m == First(S)
      until == now[t] + arg[t].span
  IN  \/ /\ S = {}
         /\ Finish(t, "claimScan")
         /\ UNCHANGED <<clock, store, history>>
      \/ /\ S # {}
         /\ Goto(t, "claimScan", "claimReply")
         /\ issued' = issued + 1
         /\ msg' = [msg EXCEPT ![m] = Leased(@, arg[t].worker, until, issued')]
         /\ grants' = [grants EXCEPT ![issued'] =
                         [msg |-> m, worker |-> arg[t].worker,
                          until |-> until, end |-> "open"]]
         /\ arg' = [arg EXCEPT ![t] = [NoArgs EXCEPT !.msg = m, !.lease = issued']]
         /\ now' = [now EXCEPT ![t] = 0]
         /\ UNCHANGED <<clock, live, appended>>

\* jsonify reads the shared dictionary after the lock was given back: the
\* reply shows msg[arg[t].msg] as it is now.
ClaimReply(t) ==
  /\ Finish(t, "claimReply")
  /\ UNCHANGED <<clock, store, history>>

-----------------------------------------------------------------------------
(* POST /bus/queues/ack, and /nack, which may requeue.  The client sends   *)
(* any message and lease id it may have seen, late and repeated ones too.  *)

AckStart(t, q, w, m, l, requeue) ==
  Receive(t, "ackPrune", [NoArgs EXCEPT !.queue = q, !.worker = w, !.msg = m,
                                        !.lease = l, !.requeue = requeue])

AckPrune(t) ==
  /\ Goto(t, "ackPrune", "ackApply")
  /\ \E n \in now[t]..clock : Prune(n)
  /\ now' = [now EXCEPT ![t] = 0]
  /\ UNCHANGED <<clock, arg, history>>

\* Mutant: the worker is checked, the lease is not.
HoldsAnyLease(a) ==
  /\ a.msg \in live
  /\ msg[a.msg].queue = a.queue
  /\ msg[a.msg].status = "leased"
  /\ msg[a.msg].leased_by = a.worker

HoldsLease(a) ==
  /\ a.msg \in live
  /\ msg[a.msg].queue = a.queue
  /\ msg[a.msg].status = "leased"
  /\ msg[a.msg].leased_by = a.worker
  /\ msg[a.msg].lease_id = a.lease

AckApply(t) ==
  LET a == arg[t]
  IN  /\ Finish(t, "ackApply")
      /\ \/ /\ ~HoldsLease(a)          \* 404 or 409
            /\ UNCHANGED <<store, history>>
         \/ /\ HoldsLease(a) /\ a.requeue
            /\ msg' = [msg EXCEPT ![a.msg] = Released(@)]
            /\ grants' = [grants EXCEPT ![a.lease].end = "requeued"]
            /\ UNCHANGED <<live, appended, issued>>
         \/ /\ HoldsLease(a) /\ ~a.requeue
            /\ live' = live \ {a.msg}
            /\ grants' = [grants EXCEPT ![a.lease].end = "removed"]
            /\ UNCHANGED <<msg, appended, issued>>
      /\ UNCHANGED clock

-----------------------------------------------------------------------------

Tick ==
  /\ clock < ClockBound
  /\ clock' = clock + 1
  /\ UNCHANGED <<store, pc, now, arg, history>>

\* The process dies and systemd starts it again: nothing is persisted, and
\* the workers keep the leases they were told of.
Restart ==
  /\ live' = {}
  /\ pc' = [t \in Threads |-> "idle"]
  /\ now' = [t \in Threads |-> 0]
  /\ arg' = [t \in Threads |-> NoArgs]
  /\ UNCHANGED <<clock, appended, msg, history>>

Next ==
  \/ \E t \in Threads :
       \/ \E q \in Queues \cup {NoQueue}, ttl \in Ttls : PostStart(t, q, ttl)
       \/ PostAppend(t) \/ PostPrune(t)
       \/ PollStart(t) \/ PollPrune(t) \/ PollRead(t)
       \/ \E q \in Queues, w \in Workers, span \in Spans : ClaimStart(t, q, w, span)
       \/ ClaimPrune(t) \/ ClaimScan(t) \/ ClaimReply(t)
       \/ \E q \in Queues, w \in Workers, m \in 1..appended, l \in 1..issued,
             requeue \in BOOLEAN : AckStart(t, q, w, m, l, requeue)
       \/ AckPrune(t) \/ AckApply(t)
  \/ Tick
  \/ Restart

Spec == Init /\ [][Next]_vars

-----------------------------------------------------------------------------
(* Properties.                                                             *)

\* The client was told it had this lease until grants[l].until, and has not
\* given it back: from its side the work is its own.
Owns(l) == grants[l].end = "open" /\ grants[l].until > clock

\* A message is never owned by two claims, whatever the interleaving of the
\* handlers and however stale the clock reading a handler works with
\* (_bus_prune and _claim_queue_message compare leases with a reading taken
\* before the lock).
LeaseExclusion ==
  \A l1, l2 \in 1..issued :
    Owns(l1) /\ Owns(l2) /\ grants[l1].msg = grants[l2].msg => l1 = l2

\* While a claim owns its message and the store still has it, the message
\* carries that very lease: nobody else's prune, claim, late ack or repeated
\* nack takes it away, so the owner's ack will be accepted.
GrantStaysValid ==
  \A l \in 1..issued :
    LET r == msg[grants[l].msg]
    IN  Owns(l) /\ grants[l].msg \in live =>
          r.status = "leased" /\ r.lease_id = l /\ r.leased_by = grants[l].worker

\* An accepted ack is final: the message is gone for good and no claim is
\* granted it, or accepted as removing it, afterwards (the pop of
\* _ack_queue_message).
RemovalIsFinal ==
  \A l \in 1..issued :
    grants[l].end = "removed" =>
      /\ grants[l].msg \notin live
      /\ \A k \in 1..issued :
           grants[k].msg = grants[l].msg /\ (k > l \/ grants[k].end = "removed") => k = l

\* Messages of a queue are delivered for the first time in the order they
\* were appended, though their leases may lapse and be retried in between
\* (the scan of _claim_queue_message).
FirstDeliveriesInOrder ==
  \A k, l \in 1..issued :
    k < l /\ grants[l].msg < grants[k].msg
      /\ msg[grants[l].msg].queue = msg[grants[k].msg].queue
    => \E j \in 1..k : grants[j].msg = grants[l].msg

\* The store exceeds BUS_MAX_MESSAGES by at most the appends whose prune has
\* yet to run (_bus_add_message takes the lock once for each).
SizeBound ==
  Cardinality(live) <= MaxMessages + Cardinality(At({"postPrune"}))

\* A message leaves the store only by the ack of the claim that holds it, by
\* being expired, by making room for MaxMessages newer ones that stay, or
\* with the process.
JustifiedRemoval(m) ==
  \/ Restart
  \/ Expired(m, clock)
  \/ Cardinality({j \in live' : j > m}) >= MaxMessages
  \/ \E l \in 1..issued :
       /\ grants[l].msg = m
       /\ msg[m].lease_id = l
       /\ grants[l].end = "open"
       /\ grants'[l].end = "removed"

\* No step loses a message without such a reason: not _bus_prune with a stale
\* reading of the clock, not a late or repeated ack.
RemovalsJustified == [][\A m \in live \ live' : JustifiedRemoval(m)]_vars

\* The reply to a claim shows the lease that was granted by it.  (It need not:
\* _claim_queue_message returns the dictionary that stays in the store, and
\* jsonify reads it after the lock was given back.)
ClaimReplyShowsOwnLease ==
  [][\A t \in Threads :
       ClaimReply(t) => msg[arg[t].msg].lease_id = arg[t].lease]_vars

-----------------------------------------------------------------------------
(* The inductive invariant behind the lease properties (MessageBusProofs).  *)

\* The bounds of the model hold because the requests under way are counted.
WithinBounds ==
  /\ appended + Cardinality(Appending) <= MsgBound
  /\ issued + Cardinality(Claiming) <= ClaimBound

\* What a leased message carries is a lease that was granted on it, and a
\* message that is not leased carries none.
LeaseRecorded ==
  \A m \in MsgIds :
    LET r == msg[m]
    IN  IF r.status = "leased"
        THEN /\ r.lease_id \in 1..issued
             /\ grants[r.lease_id] = [msg |-> m, worker |-> r.leased_by,
                                      until |-> r.lease_until,
                                      end |-> grants[r.lease_id].end]
        ELSE r.lease_id = NoLease

\* A lease is granted on a message that was appended.
GrantedOnAppended == \A l \in 1..issued : grants[l].msg \in 1..appended

\* The message of a running lease carries it: the release, claim, requeue of
\* any other lease needs that one to be over (_bus_prune, _release_message).
OwnedIsCurrent == \A l \in 1..issued : Owns(l) => msg[grants[l].msg].lease_id = l

LeaseInv == LeaseRecorded /\ GrantedOnAppended /\ OwnedIsCurrent

\* The lease a message carries is the last that was granted on it.
CarriedIsLatest ==
  \A m \in MsgIds :
    msg[m].status = "leased" =>
      \A k \in 1..issued : grants[k].msg = m => k <= msg[m].lease_id

\* Nor was it given back, as long as the store has the message.
CarriedIsOpen ==
  \A m \in live : msg[m].status = "leased" => grants[msg[m].lease_id].end = "open"

\* A lease that was not granted yet is blank.
UngrantedBlank ==
  \A l \in LeaseIds :
    l > issued => grants[l] = [msg |-> NoMsg, worker |-> Nobody, until |-> 0, end |-> "open"]

\* From its claim to its ack, a request names its worker.
WorkersNamed ==
  \A t \in Threads :
    pc[t] \in {"claimPrune", "claimScan", "ackPrune", "ackApply"} => arg[t].worker \in Workers

-----------------------------------------------------------------------------
(* The store implements the leases of WorkLease: an item is a message, the *)
(* passing of the deadline of a lease is its lapse.                        *)

StageOf(m) ==
  IF m > appended THEN "absent"
  ELSE IF m \notin live THEN "gone"
  ELSE IF msg[m].status = "leased" THEN "leased" ELSE "available"

Lease == INSTANCE WorkLease WITH
  Items <- MsgIds, Leases <- LeaseIds, Workers <- Workers,
  stage <- [m \in MsgIds |-> StageOf(m)],
  lease <- [m \in MsgIds |-> msg[m].lease_id],
  owner <- [l \in LeaseIds |-> [item |-> grants[l].msg, worker |-> grants[l].worker]],
  returned <- {l \in LeaseIds : grants[l].end # "open"},
  lapsed <- {l \in 1..issued : grants[l].until <= clock}

\* Every behaviour of the store is one of WorkLease.
ImplementsWorkLease == Lease!Spec

=============================================================================
