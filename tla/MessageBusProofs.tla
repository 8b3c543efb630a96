-------------------------- MODULE MessageBusProofs --------------------------
(***************************************************************************)
(* Proofs about MessageBus, for any number of threads, workers, messages   *)
(* and leases, in this order: its types and bounds; the leases; that the   *)
(* store implements WorkLease; that an accepted ack is final; by how much  *)
(* the store can be overfilled and why a message leaves it; and the order  *)
(* of first deliveries.                                                    *)
(***************************************************************************)
EXTENDS MessageBus, FiniteSetTheorems, WellFoundedInduction, TLAPS

USE BusAssumption

-----------------------------------------------------------------------------
(* Counting the threads that are at some stages.                           *)

\* One thread moves.
Moved(t) == pc \in [Threads -> Stages] /\ pc' = [pc EXCEPT ![t] = pc'[t]]

\* When one thread moves, the number of threads at the stages S changes by at
\* most one, and how is known from where it was and where it goes.
LEMMA AtMove ==
  ASSUME NEW t \in Threads, Moved(t), NEW S
  PROVE  /\ Cardinality(At(S)) \in Nat
         /\ Cardinality(At(S))' \in Nat
         /\ pc'[t] \in S => Cardinality(At(S))' <= Cardinality(At(S)) + 1
         /\ pc'[t] \in S /\ pc[t] \notin S =>
              Cardinality(At(S))' = Cardinality(At(S)) + 1
         /\ pc'[t] \in S /\ pc[t] \in S =>
              Cardinality(At(S))' = Cardinality(At(S))
         /\ pc'[t] \notin S => Cardinality(At(S))' <= Cardinality(At(S))
         /\ pc'[t] \notin S /\ pc[t] \in S =>
              Cardinality(At(S))' = Cardinality(At(S)) - 1
<1>1. IsFiniteSet(At(S)) /\ IsFiniteSet(At(S))'
  <2>1. At(S) \subseteq Threads /\ At(S)' \subseteq Threads
    BY DEF At
  <2> QED
    BY <2>1, FS_Subset DEF BusAssumption
<1>2. At(S)' = IF pc'[t] \in S THEN At(S) \cup {t} ELSE At(S) \ {t}
  BY DEF At, Moved
<1>3. t \in At(S) <=> pc[t] \in S
  BY DEF At
<1>4. Cardinality(At(S)) \in Nat /\ Cardinality(At(S))' \in Nat
  BY <1>1, FS_CardinalityType
<1>5. /\ Cardinality(At(S) \cup {t}) =
           IF t \in At(S) THEN Cardinality(At(S)) ELSE Cardinality(At(S)) + 1
      /\ Cardinality(At(S) \ {t}) =
           IF t \in At(S) THEN Cardinality(At(S)) - 1 ELSE Cardinality(At(S))
  BY <1>1, FS_AddElement, FS_RemoveElement
<1> QED
  BY <1>2, <1>3, <1>4, <1>5

-----------------------------------------------------------------------------
(* Types.                                                                  *)

Typed == TypeOK /\ WithinBounds

\* What the helpers make of a message is a message.
LEMMA MessageType ==
  /\ \A q \in Queues \cup {NoQueue}, ts \in Nat, ttl \in Ttls \cup {NoTtl} :
       NewMessage(q, ts, ttl) \in Message
  /\ \A r \in Message : Released(r) \in Message
  /\ \A r \in Message, w \in Workers \cup {Nobody}, until \in Nat, l \in LeaseIds :
       Leased(r, w, until, l) \in Message
BY DEF NewMessage, Message, Released, Leased, NoTtl, NoQueue, NoLease, Nobody

\* Pruning adds nothing to the store.
LEMMA PruneType ==
  ASSUME TypeOK, NEW n, Prune(n)
  PROVE  /\ live' \subseteq live
         /\ msg' \in [MsgIds -> Message]
         /\ appended' = appended
BY MessageType DEF TypeOK, Prune, Newest

\* The fields of a request are typed, however it is filled in.
LEMMA ArgsType ==
  /\ NoArgs \in Args
  /\ \A q \in Queues \cup {NoQueue}, ttl \in Ttls :
       [NoArgs EXCEPT !.queue = q, !.ttl = ttl] \in Args
  /\ \A q \in Queues, w \in Workers, span \in Spans :
       [NoArgs EXCEPT !.queue = q, !.worker = w, !.span = span] \in Args
  /\ \A q \in Queues, w \in Workers, m \in MsgIds, l \in LeaseIds, b \in BOOLEAN :
       [NoArgs EXCEPT !.queue = q, !.worker = w, !.msg = m, !.lease = l,
                      !.requeue = b] \in Args
  /\ \A m \in MsgIds, l \in LeaseIds : [NoArgs EXCEPT !.msg = m, !.lease = l] \in Args
BY DEF NoArgs, Args, NoTtl, NoQueue, NoLease, NoMsg, Nobody

\* The initial state is typed and within the bounds.
LEMMA InitTyped == Init => Typed
<1> SUFFICES ASSUME Init PROVE Typed
  OBVIOUS
<1>1. TypeOK
  <2>1. grants \in [LeaseIds -> Grant]
    BY DEF Init, Grant, NoMsg, Nobody
  <2>2. msg \in [MsgIds -> Message] /\ arg \in [Threads -> Args]
    BY MessageType, ArgsType DEF Init
  <2>3. pc \in [Threads -> Stages] /\ now \in [Threads -> 0..clock]
    BY DEF Init, Stages
  <2> QED
    BY <2>1, <2>2, <2>3 DEF Init, TypeOK, BusAssumption
<1>2. Appending = {} /\ Claiming = {}
  BY DEF Init, Appending, Claiming, At
<1>3. WithinBounds
  BY <1>2, FS_EmptySet DEF Init, WithinBounds
<1> QED
  BY <1>1, <1>3 DEF Typed

\* How the counts of the bounds change when one thread moves.
LEMMA Counts ==
  ASSUME NEW t \in Threads, Moved(t)
  PROVE  /\ Cardinality(Appending) \in Nat /\ Cardinality(Appending)' \in Nat
         /\ Cardinality(Claiming) \in Nat /\ Cardinality(Claiming)' \in Nat
         /\ pc'[t] = "append" => Cardinality(Appending)' <= Cardinality(Appending) + 1
         /\ pc'[t] = "claimPrune" => Cardinality(Claiming)' <= Cardinality(Claiming) + 1
         /\ pc'[t] # "append" => Cardinality(Appending)' <= Cardinality(Appending)
         /\ pc'[t] \notin {"claimPrune", "claimScan"} =>
              Cardinality(Claiming)' <= Cardinality(Claiming)
         /\ pc'[t] # "append" /\ pc[t] = "append" =>
              Cardinality(Appending)' = Cardinality(Appending) - 1
         /\ pc[t] = "claimPrune" /\ pc'[t] = "claimScan" =>
              Cardinality(Claiming)' = Cardinality(Claiming)
         /\ pc[t] = "claimScan" /\ pc'[t] \notin {"claimPrune", "claimScan"} =>
              Cardinality(Claiming)' = Cardinality(Claiming) - 1
<1> DEFINE A == {"append"}
           C == {"claimPrune", "claimScan"}
<1>1. /\ Cardinality(At(A)) \in Nat /\ Cardinality(At(A))' \in Nat
      /\ pc'[t] \in A => Cardinality(At(A))' <= Cardinality(At(A)) + 1
      /\ pc'[t] \notin A => Cardinality(At(A))' <= Cardinality(At(A))
      /\ pc'[t] \notin A /\ pc[t] \in A =>
           Cardinality(At(A))' = Cardinality(At(A)) - 1
  BY AtMove
<1>2. /\ Cardinality(At(C)) \in Nat /\ Cardinality(At(C))' \in Nat
      /\ pc'[t] \in C => Cardinality(At(C))' <= Cardinality(At(C)) + 1
      /\ pc'[t] \in C /\ pc[t] \in C => Cardinality(At(C))' = Cardinality(At(C))
      /\ pc'[t] \notin C => Cardinality(At(C))' <= Cardinality(At(C))
      /\ pc'[t] \notin C /\ pc[t] \in C =>
           Cardinality(At(C))' = Cardinality(At(C)) - 1
  BY AtMove
<1>3. /\ Appending = At(A) /\ Appending' = At(A)'
      /\ Claiming = At(C) /\ Claiming' = At(C)'
  BY DEF Appending, Claiming
<1> QED
  BY <1>1, <1>2, <1>3

\* A thread that moves neither to append nor to claim keeps the bounds when
\* nothing is appended or granted.
LEMMA BoundsKept ==
  ASSUME Typed, NEW t \in Threads, Moved(t),
         pc'[t] \notin {"append", "claimPrune"},
         pc'[t] = "claimScan" => pc[t] = "claimPrune",
         appended' = appended, issued' = issued
  PROVE  WithinBounds'
<1>1. /\ Cardinality(Appending) \in Nat /\ Cardinality(Appending)' \in Nat
      /\ Cardinality(Appending)' <= Cardinality(Appending)
      /\ Cardinality(Claiming) \in Nat /\ Cardinality(Claiming)' \in Nat
      /\ Cardinality(Claiming)' <= Cardinality(Claiming)
  BY Counts
<1> QED
  BY <1>1 DEF Typed, TypeOK, WithinBounds, BusAssumption

\* A set of names that is not empty has a first one.
LEMMA FirstProperty ==
  ASSUME NEW S \in SUBSET Nat, S # {}
  PROVE  First(S) \in S /\ \A j \in S : First(S) <= j
<1> DEFINE Less == {p \in Nat \X Nat : p[1] < p[2]}
<1>1. IsWellFoundedOn(Less, Nat)
  BY NatLessThanWellFounded, Zenon DEF OpToRel
<1>a. \A x, y \in Nat : x < y => <<x, y>> \in Less
  <2> SUFFICES ASSUME NEW x \in Nat, NEW y \in Nat, x < y
               PROVE  <<x, y>> \in Nat \X Nat /\ <<x, y>>[1] < <<x, y>>[2]
    OBVIOUS
  <2> QED
    OBVIOUS
<1> HIDE DEF Less
<1>2. PICK m \in S : \A j \in S : <<j, m>> \notin Less
  BY <1>1, WFMin
<1>3. \A j \in S : m <= j
  <2> TAKE j \in S
  <2>1. j \in Nat /\ m \in Nat
    OBVIOUS
  <2>2. ~(j < m)
    BY <1>2, <1>a, <2>1, Zenon
  <2> QED
    BY <2>1, <2>2
<1> QED
  BY <1>3 DEF First

\* A thread that gets a request goes to its first stage.
LEMMA ReceiveType ==
  ASSUME TypeOK, NEW t \in Threads, NEW s \in Stages, NEW a \in Args, Receive(t, s, a)
  PROVE  TypeOK' /\ Moved(t) /\ pc'[t] = s /\ UNCHANGED <<appended, issued>>
<1>1. pc' \in [Threads -> Stages] /\ arg' \in [Threads -> Args]
  BY DEF Receive, TypeOK
<1>2. now' \in [Threads -> 0..clock']
  BY DEF Receive, TypeOK, BusAssumption
<1>3. UNCHANGED <<clock, live, appended, msg, issued, grants>>
  BY DEF Receive, store, history
<1>4. Moved(t) /\ pc'[t] = s
  BY DEF Receive, TypeOK, Moved
<1> QED
  BY <1>1, <1>2, <1>3, <1>4 DEF TypeOK

\* A thread that moves on, with its request or without it.
LEMMA MoveType ==
  ASSUME TypeOK, NEW t \in Threads, NEW s \in Stages, pc' = [pc EXCEPT ![t] = s],
         now' = [now EXCEPT ![t] = 0] \/ now' = now,
         arg' = [arg EXCEPT ![t] = NoArgs] \/ arg' = arg,
         clock' = clock
  PROVE  /\ pc' \in [Threads -> Stages]
         /\ now' \in [Threads -> 0..clock']
         /\ arg' \in [Threads -> Args]
         /\ Moved(t) /\ pc'[t] = s
<1>1. pc' \in [Threads -> Stages] /\ arg' \in [Threads -> Args]
  BY ArgsType DEF TypeOK
<1>2. now' \in [Threads -> 0..clock']
  BY DEF TypeOK, BusAssumption
<1>3. Moved(t) /\ pc'[t] = s
  BY DEF TypeOK, Moved
<1> QED
  BY <1>1, <1>2, <1>3

\* A post is taken only if there is room for its message in the bound.
LEMMA PostStartTyped ==
  ASSUME Typed, NEW t \in Threads, NEW q \in Queues \cup {NoQueue}, NEW ttl \in Ttls,
         PostStart(t, q, ttl)
  PROVE  Typed'
<1>1. Receive(t, "append", [NoArgs EXCEPT !.queue = q, !.ttl = ttl])
  BY DEF PostStart
<1>2. TypeOK' /\ Moved(t) /\ pc'[t] = "append" /\ UNCHANGED <<appended, issued>>
  BY <1>1, ArgsType, ReceiveType DEF Typed, Stages
<1>3. /\ Cardinality(Appending) \in Nat /\ Cardinality(Appending)' \in Nat
      /\ Cardinality(Appending)' <= Cardinality(Appending) + 1
      /\ Cardinality(Claiming) \in Nat /\ Cardinality(Claiming)' \in Nat
      /\ Cardinality(Claiming)' <= Cardinality(Claiming)
  BY <1>2, Counts
<1>4. WithinBounds'
  BY <1>2, <1>3 DEF PostStart, Typed, TypeOK, WithinBounds, BusAssumption
<1> QED
  BY <1>2, <1>4 DEF Typed

\* The append uses the room its post counted.
LEMMA PostAppendTyped ==
  ASSUME Typed, NEW t \in Threads, PostAppend(t)
  PROVE  Typed'
<1>1. pc[t] = "append" /\ pc' = [pc EXCEPT ![t] = "postPrune"]
      /\ appended' = appended + 1 /\ issued' = issued
  BY DEF PostAppend, Goto, history
<1>2. Moved(t) /\ pc'[t] = "postPrune" /\ pc' \in [Threads -> Stages]
  BY <1>1 DEF Typed, TypeOK, Moved, Stages
<1>3. /\ Cardinality(Appending) \in Nat /\ Cardinality(Appending)' \in Nat
      /\ Cardinality(Appending)' = Cardinality(Appending) - 1
      /\ Cardinality(Claiming) \in Nat /\ Cardinality(Claiming)' \in Nat
      /\ Cardinality(Claiming)' <= Cardinality(Claiming)
  BY <1>1, <1>2, Counts
<1>4. WithinBounds' /\ appended' \in 0..MsgBound
  BY <1>1, <1>3 DEF Typed, TypeOK, WithinBounds, BusAssumption
<1>5. /\ arg[t].queue \in Queues \cup {NoQueue} /\ arg[t].ttl \in Ttls \cup {NoTtl}
      /\ now[t] \in 0..clock /\ now[t] \in Nat
  BY DEF Typed, TypeOK, Args, BusAssumption
<1>6. msg' \in [MsgIds -> Message]
  <2>1. NewMessage(arg[t].queue, now[t], arg[t].ttl) \in Message
    BY <1>5, MessageType
  <2> QED
    BY <2>1 DEF PostAppend, Typed, TypeOK
<1>7. live' \subseteq 1..appended'
  BY <1>1 DEF PostAppend, Typed, TypeOK
<1>8. now' \in [Threads -> 0..clock'] /\ arg' \in [Threads -> Args]
  BY <1>5 DEF PostAppend, Typed, TypeOK
<1> QED
  BY <1>1, <1>2, <1>4, <1>6, <1>7, <1>8 DEF PostAppend, Typed, TypeOK, history

\* The actions that only prune, and move on.
LEMMA PruneTyped ==
  ASSUME Typed, NEW t \in Threads, NEW n, Prune(n),
         NEW s \in Stages \ {"append", "claimPrune"}, s = "claimScan" => pc[t] = "claimPrune",
         pc' = [pc EXCEPT ![t] = s],
         now' = [now EXCEPT ![t] = 0] \/ now' = now,
         arg' = [arg EXCEPT ![t] = NoArgs] \/ arg' = arg,
         UNCHANGED <<clock, history>>
  PROVE  Typed'
<1>1. /\ live' \subseteq live /\ msg' \in [MsgIds -> Message] /\ appended' = appended
  BY PruneType DEF Typed
<1>2. UNCHANGED <<issued, grants>>
  BY DEF history
<1>3. /\ pc' \in [Threads -> Stages] /\ now' \in [Threads -> 0..clock']
      /\ arg' \in [Threads -> Args] /\ Moved(t) /\ pc'[t] = s
  BY MoveType DEF Typed
<1>4. WithinBounds'
  BY <1>1, <1>2, <1>3, BoundsKept
<1> QED
  BY <1>1, <1>2, <1>3, <1>4 DEF Typed, TypeOK

\* A claim is taken only if there is room for its lease in the bound.
LEMMA ClaimStartTyped ==
  ASSUME Typed, NEW t \in Threads, NEW q \in Queues, NEW w \in Workers, NEW span \in Spans,
         ClaimStart(t, q, w, span)
  PROVE  Typed'
<1>1. Receive(t, "claimPrune", [NoArgs EXCEPT !.queue = q, !.worker = w, !.span = span])
  BY DEF ClaimStart
<1>2. TypeOK' /\ Moved(t) /\ pc'[t] = "claimPrune" /\ UNCHANGED <<appended, issued>>
  BY <1>1, ArgsType, ReceiveType DEF Typed, Stages
<1>3. /\ Cardinality(Appending) \in Nat /\ Cardinality(Appending)' \in Nat
      /\ Cardinality(Appending)' <= Cardinality(Appending)
      /\ Cardinality(Claiming) \in Nat /\ Cardinality(Claiming)' \in Nat
      /\ Cardinality(Claiming)' <= Cardinality(Claiming) + 1
  BY <1>2, Counts
<1>4. WithinBounds'
  BY <1>2, <1>3 DEF ClaimStart, Typed, TypeOK, WithinBounds, BusAssumption
<1> QED
  BY <1>2, <1>4 DEF Typed

\* What a scan that finds a message does, in the terms the proofs use.
LEMMA ClaimScanFacts ==
  ASSUME Typed, NEW t \in Threads, ClaimScan(t),
         NEW S, S = Claimable(arg[t].queue, now[t]), S # {}
  PROVE  LET m == First(S)
         IN  /\ m \in S /\ \A j \in S : m <= j
             /\ m \in live /\ m \in MsgIds
             /\ issued' = issued + 1 /\ issued' \in LeaseIds
             /\ arg[t].worker \in Workers \cup {Nobody}
             /\ now[t] + arg[t].span \in Nat
             /\ WithinBounds'
<1> DEFINE m == First(S)
<1>1. S \subseteq live /\ live \subseteq MsgIds /\ live \subseteq Nat
  BY DEF Claimable, Typed, TypeOK, MsgIds, BusAssumption
<1>2. m \in S /\ \A j \in S : m <= j
  BY <1>1, FirstProperty
<1>3. /\ pc[t] = "claimScan" /\ pc' = [pc EXCEPT ![t] = "claimReply"]
      /\ issued' = issued + 1 /\ appended' = appended
  BY DEF ClaimScan, Goto
<1>4. Moved(t) /\ pc'[t] = "claimReply"
  BY <1>3 DEF Typed, TypeOK, Moved
<1>5. /\ Cardinality(Appending) \in Nat /\ Cardinality(Appending)' \in Nat
      /\ Cardinality(Appending)' <= Cardinality(Appending)
      /\ Cardinality(Claiming) \in Nat /\ Cardinality(Claiming)' \in Nat
      /\ Cardinality(Claiming)' = Cardinality(Claiming) - 1
  BY <1>3, <1>4, Counts
<1>6. WithinBounds' /\ issued' \in LeaseIds
  <2>1. /\ appended + Cardinality(Appending) <= MsgBound /\ appended \in Nat
        /\ issued + Cardinality(Claiming) <= ClaimBound /\ issued \in Nat
        /\ MsgBound \in Nat /\ ClaimBound \in Nat
    BY DEF Typed, TypeOK, WithinBounds, BusAssumption
  <2>2. /\ appended' + Cardinality(Appending)' <= MsgBound
        /\ issued' + Cardinality(Claiming)' <= ClaimBound /\ issued' \in 1..ClaimBound
    BY <1>3, <1>5, <2>1
  <2> QED
    BY <2>2 DEF WithinBounds, LeaseIds
<1>7. arg[t].worker \in Workers \cup {Nobody} /\ now[t] + arg[t].span \in Nat
  <2>1. arg[t] \in Args /\ now[t] \in 0..clock /\ clock \in Nat
    BY DEF Typed, TypeOK, BusAssumption
  <2>2. arg[t].worker \in Workers \cup {Nobody}
    BY <2>1 DEF Args
  <2>3. arg[t].span \in Spans \cup {0}
    BY <2>1 DEF Args
  <2>4. \A x \in Spans \cup {0} : x \in Nat
    BY DEF BusAssumption
  <2>5. arg[t].span \in Nat
    BY <2>3, <2>4, Zenon
  <2> QED
    BY <2>1, <2>2, <2>5
<1> QED
  BY <1>1, <1>2, <1>3, <1>6, <1>7

\* The scan grants at most the lease its claim counted.
LEMMA ClaimScanTyped ==
  ASSUME Typed, NEW t \in Threads, ClaimScan(t)
  PROVE  Typed'
<1> DEFINE S == Claimable(arg[t].queue, now[t])
           m == First(S)
           until == now[t] + arg[t].span
<1>1. CASE S = {}
  <2>1. /\ pc' = [pc EXCEPT ![t] = "idle"] /\ arg' = [arg EXCEPT ![t] = NoArgs]
        /\ now' = [now EXCEPT ![t] = 0]
        /\ UNCHANGED <<clock, live, appended, msg, issued, grants>>
    BY <1>1 DEF ClaimScan, Finish, Goto, store, history
  <2>2. /\ pc' \in [Threads -> Stages] /\ now' \in [Threads -> 0..clock']
        /\ arg' \in [Threads -> Args] /\ Moved(t) /\ pc'[t] = "idle"
    BY <2>1, MoveType DEF Typed, Stages
  <2>3. WithinBounds'
    BY <2>1, <2>2, BoundsKept
  <2> QED
    BY <2>1, <2>2, <2>3 DEF Typed, TypeOK
<1>2. CASE S # {}
  <2>1. /\ m \in MsgIds /\ issued' = issued + 1 /\ issued' \in LeaseIds
        /\ arg[t].worker \in Workers \cup {Nobody} /\ until \in Nat /\ WithinBounds'
    BY <1>2, ClaimScanFacts
  <2>2. /\ pc' = [pc EXCEPT ![t] = "claimReply"]
        /\ msg' = [msg EXCEPT ![m] = Leased(@, arg[t].worker, until, issued')]
        /\ grants' = [grants EXCEPT ![issued'] =
                        [msg |-> m, worker |-> arg[t].worker,
                         until |-> until, end |-> "open"]]
        /\ arg' = [arg EXCEPT ![t] = [NoArgs EXCEPT !.msg = m, !.lease = issued']]
        /\ now' = [now EXCEPT ![t] = 0]
        /\ UNCHANGED <<clock, live, appended>>
    BY <1>2 DEF ClaimScan, Goto
  <2> HIDE DEF S, m, until
  <2>3. msg' \in [MsgIds -> Message]
    <3>1. Leased(msg[m], arg[t].worker, until, issued') \in Message
      BY <2>1, MessageType DEF Typed, TypeOK
    <3> QED
      BY <2>1, <2>2, <3>1 DEF Typed, TypeOK
  <2>4. grants' \in [LeaseIds -> Grant]
    BY <2>1, <2>2 DEF Grant, Typed, TypeOK
  <2>5. arg' \in [Threads -> Args]
    BY <2>1, <2>2, ArgsType DEF Typed, TypeOK
  <2>6. pc' \in [Threads -> Stages] /\ now' \in [Threads -> 0..clock']
    BY <2>2 DEF Typed, TypeOK, Stages, BusAssumption
  <2>7. issued' \in 0..ClaimBound
    BY <2>1 DEF LeaseIds, BusAssumption
  <2> QED
    BY <2>1, <2>2, <2>3, <2>4, <2>5, <2>6, <2>7 DEF Typed, TypeOK
<1> QED
  BY <1>1, <1>2

\* Giving a lease back keeps messages and leases typed.
LEMMA AckApplyTyped ==
  ASSUME Typed, NEW t \in Threads, AckApply(t)
  PROVE  Typed'
<1> DEFINE a == arg[t]
<1>1. /\ pc' = [pc EXCEPT ![t] = "idle"] /\ arg' = [arg EXCEPT ![t] = NoArgs]
      /\ now' = [now EXCEPT ![t] = 0]
      /\ UNCHANGED <<clock, appended, issued>>
  BY DEF AckApply, Finish, Goto, store, history
<1>2. /\ pc' \in [Threads -> Stages] /\ now' \in [Threads -> 0..clock']
      /\ arg' \in [Threads -> Args] /\ Moved(t) /\ pc'[t] = "idle"
  BY <1>1, MoveType DEF Typed, Stages
<1>3. WithinBounds'
  BY <1>1, <1>2, BoundsKept
<1>4. live' \subseteq live
  BY DEF AckApply, store
<1>5. msg' \in [MsgIds -> Message]
  <2>1. live \subseteq MsgIds
    BY DEF Typed, TypeOK, MsgIds, BusAssumption
  <2>2. msg' = msg \/ (a.msg \in MsgIds /\ msg' = [msg EXCEPT ![a.msg] = Released(@)])
    BY <2>1 DEF AckApply, HoldsLease, store
  <2> QED
    BY <2>2, MessageType DEF Typed, TypeOK
<1>6. grants' \in [LeaseIds -> Grant]
  <2>1. \/ grants' = grants
        \/ grants' = [grants EXCEPT ![a.lease].end = "requeued"]
        \/ grants' = [grants EXCEPT ![a.lease].end = "removed"]
    BY DEF AckApply, history
  <2> QED
    BY <2>1 DEF Typed, TypeOK, Grant
<1> QED
  BY <1>1, <1>2, <1>3, <1>4, <1>5, <1>6 DEF Typed, TypeOK

\* The actions, as the proofs of invariants split them.
LEMMA NextTyped == Typed /\ [Next]_vars => Typed'
<1> SUFFICES ASSUME Typed, [Next]_vars PROVE Typed'
  OBVIOUS
<1>1. ASSUME NEW t \in Threads, NEW q \in Queues \cup {NoQueue}, NEW ttl \in Ttls,
             PostStart(t, q, ttl)
      PROVE  Typed'
  BY <1>1, PostStartTyped
<1>2. ASSUME NEW t \in Threads, PostAppend(t) PROVE Typed'
  BY <1>2, PostAppendTyped
<1>3. ASSUME NEW t \in Threads, PostPrune(t) PROVE Typed'
  <2>1. PICK n : Prune(n)
    BY <1>3 DEF PostPrune
  <2>2. /\ pc' = [pc EXCEPT ![t] = "idle"] /\ arg' = [arg EXCEPT ![t] = NoArgs]
        /\ now' = [now EXCEPT ![t] = 0] /\ UNCHANGED <<clock, history>>
    BY <1>3 DEF PostPrune, Finish, Goto
  <2> QED
    BY <2>1, <2>2, PruneTyped DEF Stages
<1>4. ASSUME NEW t \in Threads, PollStart(t) PROVE Typed'
  <2>1. TypeOK' /\ Moved(t) /\ pc'[t] = "pollPrune" /\ UNCHANGED <<appended, issued>>
    BY <1>4, ArgsType, ReceiveType DEF PollStart, Typed, Stages
  <2> QED
    BY <2>1, BoundsKept DEF Typed
<1>5. ASSUME NEW t \in Threads, PollPrune(t) PROVE Typed'
  <2>1. PICK n : Prune(n)
    BY <1>5 DEF PollPrune
  <2>2. /\ pc' = [pc EXCEPT ![t] = "pollRead"] /\ arg' = arg
        /\ now' = [now EXCEPT ![t] = 0] /\ UNCHANGED <<clock, history>>
    BY <1>5 DEF PollPrune, Goto
  <2> QED
    BY <2>1, <2>2, PruneTyped DEF Stages
<1>6. ASSUME NEW t \in Threads, PollRead(t) \/ ClaimReply(t) PROVE Typed'
  <2>1. /\ pc' = [pc EXCEPT ![t] = "idle"] /\ arg' = [arg EXCEPT ![t] = NoArgs]
        /\ now' = [now EXCEPT ![t] = 0]
        /\ UNCHANGED <<clock, live, appended, msg, issued, grants>>
    BY <1>6 DEF PollRead, ClaimReply, Finish, Goto, store, history
  <2>2. /\ pc' \in [Threads -> Stages] /\ now' \in [Threads -> 0..clock']
        /\ arg' \in [Threads -> Args] /\ Moved(t) /\ pc'[t] = "idle"
    BY <2>1, MoveType DEF Typed, Stages
  <2>3. WithinBounds'
    BY <2>1, <2>2, BoundsKept
  <2> QED
    BY <2>1, <2>2, <2>3 DEF Typed, TypeOK
<1>7. ASSUME NEW t \in Threads, NEW q \in Queues, NEW w \in Workers, NEW span \in Spans,
             ClaimStart(t, q, w, span)
      PROVE  Typed'
  BY <1>7, ClaimStartTyped
<1>8. ASSUME NEW t \in Threads, ClaimPrune(t) PROVE Typed'
  <2>1. /\ pc[t] = "claimPrune" /\ pc' = [pc EXCEPT ![t] = "claimScan"]
        /\ arg' = arg /\ now' = now /\ UNCHANGED <<clock, history>> /\ Prune(now[t])
    BY <1>8 DEF ClaimPrune, Goto
  <2> QED
    BY <2>1, PruneTyped DEF Stages
<1>9. ASSUME NEW t \in Threads, ClaimScan(t) PROVE Typed'
  BY <1>9, ClaimScanTyped
<1>10. ASSUME NEW t \in Threads, NEW q \in Queues, NEW w \in Workers,
              NEW m \in 1..appended, NEW l \in 1..issued, NEW requeue \in BOOLEAN,
              AckStart(t, q, w, m, l, requeue)
       PROVE  Typed'
  <2>1. m \in MsgIds /\ l \in LeaseIds
    BY DEF Typed, TypeOK, MsgIds, LeaseIds, BusAssumption
  <2>2. TypeOK' /\ Moved(t) /\ pc'[t] = "ackPrune" /\ UNCHANGED <<appended, issued>>
    BY <1>10, <2>1, ArgsType, ReceiveType DEF AckStart, Typed, Stages
  <2> QED
    BY <2>2, BoundsKept DEF Typed
<1>11. ASSUME NEW t \in Threads, AckPrune(t) PROVE Typed'
  <2>1. PICK n : Prune(n)
    BY <1>11 DEF AckPrune
  <2>2. /\ pc' = [pc EXCEPT ![t] = "ackApply"] /\ arg' = arg
        /\ now' = [now EXCEPT ![t] = 0] /\ UNCHANGED <<clock, history>>
    BY <1>11 DEF AckPrune, Goto
  <2> QED
    BY <2>1, <2>2, PruneTyped DEF Stages
<1>12. ASSUME NEW t \in Threads, AckApply(t) PROVE Typed'
  BY <1>12, AckApplyTyped
<1>13. CASE Tick
  <2>1. /\ clock' = clock + 1 /\ clock < ClockBound
        /\ UNCHANGED <<live, appended, msg, pc, now, arg, issued, grants>>
    BY <1>13 DEF Tick, store, history
  <2>2. clock' \in 0..ClockBound /\ now' \in [Threads -> 0..clock']
    BY <2>1 DEF Typed, TypeOK, BusAssumption
  <2>3. WithinBounds'
    BY <2>1 DEF Typed, WithinBounds, Appending, Claiming, At
  <2> QED
    BY <2>1, <2>2, <2>3 DEF Typed, TypeOK
<1>14. CASE Restart
  <2>1. /\ live' = {} /\ pc' = [t \in Threads |-> "idle"]
        /\ now' = [t \in Threads |-> 0] /\ arg' = [t \in Threads |-> NoArgs]
        /\ UNCHANGED <<clock, appended, msg, issued, grants>>
    BY <1>14 DEF Restart, history
  <2>2. Appending' = {} /\ Claiming' = {}
    BY <2>1 DEF Appending, Claiming, At
  <2>3. WithinBounds'
    <3>1. Cardinality(Appending)' = 0 /\ Cardinality(Claiming)' = 0
      BY <2>2, FS_EmptySet
    <3>2. /\ appended \in 0..MsgBound /\ issued \in 0..ClaimBound
          /\ MsgBound \in Nat /\ ClaimBound \in Nat
      BY DEF Typed, TypeOK, BusAssumption
    <3>3. appended' = appended /\ issued' = issued
      BY <2>1
    <3> QED
      BY <3>1, <3>2, <3>3 DEF WithinBounds
  <2>4. /\ pc' \in [Threads -> Stages] /\ now' \in [Threads -> 0..clock']
        /\ arg' \in [Threads -> Args]
    <3>1. 0 \in 0..clock
      BY DEF Typed, TypeOK, BusAssumption
    <3> QED
      BY <2>1, <3>1, ArgsType DEF Stages
  <2> QED
    BY <2>1, <2>3, <2>4 DEF Typed, TypeOK
<1>15. CASE UNCHANGED vars
  BY <1>15 DEF Typed, TypeOK, WithinBounds, Appending, Claiming, At, vars
<1> QED
  BY <1>1, <1>2, <1>3, <1>4, <1>5, <1>6, <1>7, <1>8, <1>9, <1>10, <1>11, <1>12,
     <1>13, <1>14, <1>15 DEF Next

\* Every state the store reaches is typed, and no request that was let in is
\* refused its message name or lease name for lack of one.
THEOREM TypeCorrect == Spec => [](TypeOK /\ WithinBounds)
<1>1. Init => Typed
  BY InitTyped
<1>2. Typed /\ [Next]_vars => Typed'
  BY NextTyped
<1> QED
  BY <1>1, <1>2, PTL DEF Spec, Typed

-----------------------------------------------------------------------------
(* The leases.                                                             *)

LInv == Typed /\ LeaseInv

\* Initially no message carries a lease.
LEMMA InitLeaseInv == Init => LeaseInv
BY DEF Init, LeaseInv, LeaseRecorded, GrantedOnAppended, OwnedIsCurrent, NewMessage

\* What was appended has a name within the bound.
LEMMA AppendedAreNames == Typed => 1..appended \subseteq MsgIds
BY DEF Typed, TypeOK, MsgIds, BusAssumption

\* The lease a message carries has the deadline the message carries.
LEMMA CarriedLease ==
  ASSUME LInv, NEW m \in MsgIds, msg[m].lease_id # NoLease
  PROVE  msg[m].status = "leased" /\ msg[m].lease_until = grants[msg[m].lease_id].until
<1>1. msg[m].status = "leased"
  BY DEF LInv, LeaseInv, LeaseRecorded
<1>2. grants[msg[m].lease_id] =
        [msg |-> m, worker |-> msg[m].leased_by, until |-> msg[m].lease_until,
         end |-> grants[msg[m].lease_id].end]
  BY <1>1 DEF LInv, LeaseInv, LeaseRecorded
<1>3. grants[msg[m].lease_id].until = msg[m].lease_until
  BY <1>2
<1> QED
  BY <1>1, <1>3

\* Pruning releases only leases that are over by the clock, since the reading
\* it works with is not later than the clock.
LEMMA PruneKeepsLeases ==
  ASSUME LInv, NEW n \in 0..clock, Prune(n), UNCHANGED <<clock, issued, grants>>
  PROVE  LeaseInv'
<1>1. /\ msg \in [MsgIds -> Message] /\ grants \in [LeaseIds -> Grant]
      /\ \A l \in 1..issued : l \in LeaseIds
      /\ clock \in Nat /\ n \in Nat /\ n <= clock
  BY DEF LInv, Typed, TypeOK, LeaseIds, BusAssumption
<1>2. \A m \in MsgIds : msg'[m] = msg[m] \/ (Overdue(msg[m], n) /\ msg'[m] = Released(msg[m]))
  BY DEF Prune
<1>3. \A m \in MsgIds : Released(msg[m]).status = "pending" /\ Released(msg[m]).lease_id = NoLease
  BY <1>1 DEF Released, Message
<1>4. LeaseRecorded'
  <2> SUFFICES ASSUME NEW m \in MsgIds
               PROVE  IF msg'[m].status = "leased"
                      THEN /\ msg'[m].lease_id \in 1..issued
                           /\ grants[msg'[m].lease_id] =
                                [msg |-> m, worker |-> msg'[m].leased_by,
                                 until |-> msg'[m].lease_until,
                                 end |-> grants[msg'[m].lease_id].end]
                      ELSE msg'[m].lease_id = NoLease
    BY DEF LeaseRecorded
  <2>1. CASE msg'[m] = msg[m]
    BY <2>1 DEF LInv, LeaseInv, LeaseRecorded
  <2>2. CASE msg'[m] = Released(msg[m])
    BY <2>2, <1>3
  <2> QED
    BY <1>2, <2>1, <2>2
<1>5. GrantedOnAppended'
  BY DEF LInv, LeaseInv, GrantedOnAppended, Prune
<1>6. OwnedIsCurrent'
  <2> SUFFICES ASSUME NEW l \in 1..issued, grants[l].end = "open", grants[l].until > clock
               PROVE  msg'[grants[l].msg].lease_id = l
    BY DEF OwnedIsCurrent, Owns
  <2> DEFINE m == grants[l].msg
  <2>1. msg[m].lease_id = l /\ m \in MsgIds /\ l # NoLease
    <3>1. msg[m].lease_id = l
      BY DEF LInv, LeaseInv, OwnedIsCurrent, Owns
    <3>2. m \in 1..appended
      BY DEF LInv, LeaseInv, GrantedOnAppended
    <3> QED
      BY <3>1, <3>2, AppendedAreNames DEF LInv, NoLease
  <2>2. msg[m].status = "leased" /\ msg[m].lease_until = grants[l].until
    BY <2>1, CarriedLease
  <2>3. ~Overdue(msg[m], n)
    BY <1>1, <2>2 DEF Overdue, Grant
  <2> QED
    BY <1>2, <2>1, <2>3
<1> QED
  BY <1>4, <1>5, <1>6 DEF LeaseInv

\* A new message carries no lease, and no lease is on it.
LEMMA AppendKeepsLeases ==
  ASSUME LInv, NEW t \in Threads, PostAppend(t)
  PROVE  LeaseInv'
<1>1. /\ appended \in Nat /\ appended' = appended + 1
      /\ UNCHANGED <<clock, issued, grants>>
      /\ msg' = [msg EXCEPT ![appended'] = NewMessage(arg[t].queue, now[t], arg[t].ttl)]
      /\ msg \in [MsgIds -> Message]
  BY DEF PostAppend, history, LInv, Typed, TypeOK, BusAssumption
<1>2. /\ NewMessage(arg[t].queue, now[t], arg[t].ttl).status # "leased"
      /\ NewMessage(arg[t].queue, now[t], arg[t].ttl).lease_id = NoLease
  BY DEF NewMessage
<1>3. \A m \in MsgIds : m # appended' => msg'[m] = msg[m]
  BY <1>1
<1>4. \A l \in 1..issued : grants[l].msg \in 1..appended
  BY DEF LInv, LeaseInv, GrantedOnAppended
<1>5. LeaseRecorded'
  BY <1>1, <1>2, <1>3 DEF LInv, LeaseInv, LeaseRecorded
<1>6. GrantedOnAppended'
  BY <1>1, <1>4 DEF GrantedOnAppended
<1>7. OwnedIsCurrent'
  <2>1. \A l \in 1..issued : msg'[grants[l].msg] = msg[grants[l].msg]
    BY <1>1, <1>4
  <2> QED
    BY <1>1, <2>1 DEF OwnedIsCurrent, Owns, LInv, LeaseInv
<1> QED
  BY <1>5, <1>6, <1>7 DEF LeaseInv

\* A claim takes a message that carries no lease, or one that is over.
LEMMA ScanKeepsLeases ==
  ASSUME LInv, NEW t \in Threads, ClaimScan(t)
  PROVE  LeaseInv'
<1> DEFINE S == Claimable(arg[t].queue, now[t])
           m == First(S)
           until == now[t] + arg[t].span
<1>1. CASE S = {}
  <2>1. UNCHANGED <<clock, appended, msg, issued, grants>>
    BY <1>1 DEF ClaimScan, store, history
  <2> QED
    BY <2>1 DEF LInv, LeaseInv, LeaseRecorded, GrantedOnAppended, OwnedIsCurrent, Owns
<1>2. CASE S # {}
  <2>1. /\ m \in S /\ m \in live /\ m \in MsgIds
        /\ issued' = issued + 1 /\ issued' \in LeaseIds
    BY <1>2, ClaimScanFacts DEF LInv
  <2>2. /\ msg' = [msg EXCEPT ![m] = Leased(@, arg[t].worker, until, issued')]
        /\ grants' = [grants EXCEPT ![issued'] =
                        [msg |-> m, worker |-> arg[t].worker,
                         until |-> until, end |-> "open"]]
        /\ UNCHANGED <<clock, live, appended>>
    BY <1>2 DEF ClaimScan
  <2>3. msg[m].status = "pending" \/ Overdue(msg[m], now[t])
    BY <2>1 DEF Claimable
  <2> HIDE DEF S, m, until
  <2>4. /\ msg \in [MsgIds -> Message] /\ grants \in [LeaseIds -> Grant]
        /\ issued \in Nat /\ appended \in Nat /\ live \subseteq 1..appended
        /\ clock \in Nat /\ now[t] \in Nat /\ now[t] <= clock
        /\ \A l \in 1..issued : l \in LeaseIds /\ l # issued'
    BY <2>1 DEF LInv, Typed, TypeOK, LeaseIds, BusAssumption
  <2>5. /\ msg'[m] = Leased(msg[m], arg[t].worker, until, issued')
        /\ \A i \in MsgIds : i # m => msg'[i] = msg[i]
        /\ grants'[issued'] = [msg |-> m, worker |-> arg[t].worker,
                               until |-> until, end |-> "open"]
        /\ \A l \in 1..issued : grants'[l] = grants[l]
    BY <2>1, <2>2, <2>4
  <2>6. /\ msg'[m].status = "leased" /\ msg'[m].lease_id = issued'
        /\ msg'[m].leased_by = arg[t].worker /\ msg'[m].lease_until = until
    BY <2>1, <2>4, <2>5 DEF Leased, Message
  <2>7. LeaseRecorded'
    <3> SUFFICES ASSUME NEW i \in MsgIds
                 PROVE  IF msg'[i].status = "leased"
                        THEN /\ msg'[i].lease_id \in 1..issued'
                             /\ grants'[msg'[i].lease_id] =
                                  [msg |-> i, worker |-> msg'[i].leased_by,
                                   until |-> msg'[i].lease_until,
                                   end |-> grants'[msg'[i].lease_id].end]
                        ELSE msg'[i].lease_id = NoLease
      BY DEF LeaseRecorded
    <3>1. CASE i = m
      BY <3>1, <2>1, <2>4, <2>5, <2>6
    <3>2. CASE i # m
      <4>1. msg'[i] = msg[i]
        BY <3>2, <2>5
      <4>2. CASE msg[i].status = "leased"
        <5>1. /\ msg[i].lease_id \in 1..issued
              /\ grants[msg[i].lease_id] =
                   [msg |-> i, worker |-> msg[i].leased_by, until |-> msg[i].lease_until,
                    end |-> grants[msg[i].lease_id].end]
          BY <4>2 DEF LInv, LeaseInv, LeaseRecorded
        <5>2. msg[i].lease_id \in 1..issued'
          BY <5>1, <2>1, <2>4
        <5> QED
          BY <4>1, <4>2, <5>1, <5>2, <2>5
      <4>3. CASE msg[i].status # "leased"
        BY <4>1, <4>3 DEF LInv, LeaseInv, LeaseRecorded
      <4> QED
        BY <4>2, <4>3
    <3> QED
      BY <3>1, <3>2
  <2>8. GrantedOnAppended'
    <3> SUFFICES ASSUME NEW l \in 1..issued' PROVE grants'[l].msg \in 1..appended
      BY <2>2 DEF GrantedOnAppended
    <3>1. CASE l = issued'
      BY <3>1, <2>1, <2>4, <2>5
    <3>2. CASE l \in 1..issued
      BY <3>2, <2>5 DEF LInv, LeaseInv, GrantedOnAppended
    <3> QED
      BY <3>1, <3>2, <2>1, <2>4
  <2>9. OwnedIsCurrent'
    <3> SUFFICES ASSUME NEW l \in 1..issued', grants'[l].end = "open", grants'[l].until > clock
                 PROVE  msg'[grants'[l].msg].lease_id = l
      BY <2>2 DEF OwnedIsCurrent, Owns
    <3>1. CASE l = issued'
      BY <3>1, <2>5, <2>6
    <3>2. CASE l \in 1..issued
      <4> DEFINE i == grants[l].msg
      <4>1. grants'[l] = grants[l]
        BY <3>2, <2>5
      <4>2. msg[i].lease_id = l /\ i \in MsgIds
        <5>1. Owns(l)
          BY <4>1 DEF Owns
        <5>2. msg[i].lease_id = l
          BY <3>2, <5>1 DEF LInv, LeaseInv, OwnedIsCurrent
        <5>3. i \in 1..appended
          BY <3>2 DEF LInv, LeaseInv, GrantedOnAppended
        <5> QED
          BY <5>2, <5>3, AppendedAreNames DEF LInv
      <4>3. msg[i].status = "leased" /\ msg[i].lease_until = grants[l].until
        BY <4>2, <3>2, CarriedLease DEF NoLease
      <4>4. grants[l].until \in Nat
        BY <3>2, <2>4 DEF Grant
      <4>5. i # m
        BY <4>1, <4>3, <4>4, <2>3, <2>4 DEF Overdue
      <4> QED
        BY <4>1, <4>2, <4>5, <2>5
    <3> QED
      BY <3>1, <3>2, <2>1, <2>4
  <2> QED
    BY <2>7, <2>8, <2>9 DEF LeaseInv
<1> QED
  BY <1>1, <1>2

\* A requeue gives back the lease the message carries, and no other.
LEMMA AckKeepsLeases ==
  ASSUME LInv, NEW t \in Threads, AckApply(t)
  PROVE  LeaseInv'
<1> DEFINE a == arg[t]
<1>1. UNCHANGED <<clock, appended, issued>>
  BY DEF AckApply, store, history
<1>2. /\ msg \in [MsgIds -> Message] /\ grants \in [LeaseIds -> Grant]
      /\ \A l \in 1..issued : l \in LeaseIds
      /\ live \subseteq MsgIds
  BY DEF LInv, Typed, TypeOK, LeaseIds, MsgIds, BusAssumption
<1>3. CASE UNCHANGED <<msg, grants>>
  BY <1>1, <1>3 DEF LInv, LeaseInv, LeaseRecorded, GrantedOnAppended, OwnedIsCurrent, Owns
<1>4. CASE /\ HoldsLease(a)
           /\ \E e \in {"requeued", "removed"} : grants' = [grants EXCEPT ![a.lease].end = e]
           /\ msg' = msg \/ msg' = [msg EXCEPT ![a.msg] = Released(@)]
  <2>1. /\ a.msg \in MsgIds /\ msg[a.msg].status = "leased" /\ msg[a.msg].lease_id = a.lease
    BY <1>2, <1>4 DEF HoldsLease
  <2>2. PICK e \in {"requeued", "removed"} : grants' = [grants EXCEPT ![a.lease].end = e]
    BY <1>4
  <2>3. a.lease \in 1..issued
    BY <2>1 DEF LInv, LeaseInv, LeaseRecorded
  <2>4. \A l \in 1..issued :
          /\ grants'[l] = [msg |-> grants[l].msg, worker |-> grants[l].worker,
                           until |-> grants[l].until, end |-> grants'[l].end]
          /\ grants'[l].msg = grants[l].msg
          /\ grants'[l].until = grants[l].until
          /\ grants'[l].end = "open" => l # a.lease /\ grants[l].end = "open"
    BY <1>2, <2>2 DEF Grant
  <2>5. \A m \in MsgIds : \/ msg'[m] = msg[m]
                          \/ m = a.msg /\ msg'[m] = Released(msg[m])
    BY <1>2, <1>4
  <2>6. Released(msg[a.msg]).status = "pending" /\ Released(msg[a.msg]).lease_id = NoLease
    BY <1>2, <2>1 DEF Released, Message
  <2> HIDE DEF a
  <2>7. LeaseRecorded'
    <3> SUFFICES ASSUME NEW m \in MsgIds
                 PROVE  IF msg'[m].status = "leased"
                        THEN /\ msg'[m].lease_id \in 1..issued
                             /\ grants'[msg'[m].lease_id] =
                                  [msg |-> m, worker |-> msg'[m].leased_by,
                                   until |-> msg'[m].lease_until,
                                   end |-> grants'[msg'[m].lease_id].end]
                        ELSE msg'[m].lease_id = NoLease
      BY <1>1 DEF LeaseRecorded
    <3>1. CASE msg'[m] = msg[m] /\ msg[m].status = "leased"
      <4> DEFINE l == msg[m].lease_id
      <4>1. /\ l \in 1..issued
            /\ grants[l] = [msg |-> m, worker |-> msg[m].leased_by,
                            until |-> msg[m].lease_until, end |-> grants[l].end]
        BY <3>1 DEF LInv, LeaseInv, LeaseRecorded
      <4>2. /\ grants[l].msg = m /\ grants[l].worker = msg[m].leased_by
            /\ grants[l].until = msg[m].lease_until
        BY <4>1
      <4> QED
        BY <3>1, <4>1, <4>2, <2>4
    <3>2. CASE msg'[m] = msg[m] /\ msg[m].status # "leased"
      BY <3>2 DEF LInv, LeaseInv, LeaseRecorded
    <3>3. CASE m = a.msg /\ msg'[m] = Released(msg[m])
      BY <3>3, <2>6
    <3> QED
      BY <2>5, <3>1, <3>2, <3>3
  <2>8. GrantedOnAppended'
    BY <1>1, <2>4 DEF LInv, LeaseInv, GrantedOnAppended
  <2>9. OwnedIsCurrent'
    <3> SUFFICES ASSUME NEW l \in 1..issued, grants'[l].end = "open", grants'[l].until > clock
                 PROVE  msg'[grants'[l].msg].lease_id = l
      BY <1>1 DEF OwnedIsCurrent, Owns
    <3> DEFINE m == grants[l].msg
    <3>1. Owns(l) /\ l # a.lease
      BY <2>4 DEF Owns
    <3>2. msg[m].lease_id = l
      BY <3>1 DEF LInv, LeaseInv, OwnedIsCurrent
    <3>3. m \in MsgIds
      BY AppendedAreNames DEF LInv, LeaseInv, GrantedOnAppended
    <3>4. m # a.msg
      BY <2>1, <3>1, <3>2
    <3>5. grants'[l].msg = m
      BY <2>4
    <3>6. msg'[m] = msg[m]
      BY <2>5, <3>3, <3>4
    <3> QED
      BY <3>2, <3>5, <3>6
  <2> QED
    BY <2>7, <2>8, <2>9 DEF LeaseInv
<1> QED
  BY <1>3, <1>4 DEF AckApply, store, history

\* Every other step leaves messages and leases alone, or lets time pass.
LEMMA QuietKeepsLeases ==
  ASSUME LInv, UNCHANGED <<appended, msg, issued, grants>>, clock' = clock \/ clock' = clock + 1
  PROVE  LeaseInv'
<1>1. \A l \in 1..issued : Owns(l)' => Owns(l)
  <2>1. clock \in Nat /\ clock' \in Nat /\ clock' >= clock
    BY DEF LInv, Typed, TypeOK, BusAssumption
  <2>2. \A l \in 1..issued : grants[l].until \in Nat
    BY DEF LInv, Typed, TypeOK, Grant, LeaseIds, BusAssumption
  <2> QED
    BY <2>1, <2>2 DEF Owns
<1> QED
  BY <1>1 DEF LInv, LeaseInv, LeaseRecorded, GrantedOnAppended, OwnedIsCurrent

\* Every step keeps the invariant of the leases.
LEMMA NextLeaseInv == LInv /\ [Next]_vars => LeaseInv'
<1> SUFFICES ASSUME LInv, [Next]_vars PROVE LeaseInv'
  OBVIOUS
<1>1. ASSUME NEW t \in Threads, NEW stage, NEW request, Receive(t, stage, request)
      PROVE  LeaseInv'
  BY <1>1, QuietKeepsLeases DEF Receive, store, history
<1>2. ASSUME NEW t \in Threads, PostPrune(t) \/ PollPrune(t) \/ AckPrune(t)
      PROVE  LeaseInv'
  <2>1. PICK n \in now[t]..clock : Prune(n)
    BY <1>2 DEF PostPrune, PollPrune, AckPrune
  <2>2. n \in 0..clock
    BY DEF LInv, Typed, TypeOK, BusAssumption
  <2> QED
    BY <1>2, <2>1, <2>2, PruneKeepsLeases DEF PostPrune, PollPrune, AckPrune, history
<1>3. ASSUME NEW t \in Threads, ClaimPrune(t)
      PROVE  LeaseInv'
  <2>1. now[t] \in 0..clock
    BY DEF LInv, Typed, TypeOK
  <2> QED
    BY <1>3, <2>1, PruneKeepsLeases DEF ClaimPrune, history
<1>4. ASSUME NEW t \in Threads, PollRead(t) \/ ClaimReply(t)
      PROVE  LeaseInv'
  BY <1>4, QuietKeepsLeases DEF PollRead, ClaimReply, store, history
<1>5. CASE Tick \/ Restart \/ UNCHANGED vars
  BY <1>5, QuietKeepsLeases DEF Tick, Restart, store, history, vars
<1> QED
  BY <1>1, <1>2, <1>3, <1>4, <1>5, AppendKeepsLeases, ScanKeepsLeases, AckKeepsLeases
  DEF Next, PostStart, PollStart, ClaimStart, AckStart

\* The inductive invariant of the leases holds in every state.
THEOREM LeasesInvariant == Spec => [](TypeOK /\ WithinBounds /\ LeaseInv)
<1>1. Init => LInv
  BY InitTyped, InitLeaseInv DEF LInv
<1>2. LInv /\ [Next]_vars => LInv'
  BY NextTyped, NextLeaseInv DEF LInv
<1> QED
  BY <1>1, <1>2, PTL DEF Spec, LInv, Typed

\* Whatever the number of threads, workers, messages and claims, two claims
\* never own the same message.
THEOREM LeasesExclude == Spec => []LeaseExclusion
<1>1. LeaseInv => LeaseExclusion
  BY DEF LeaseInv, OwnedIsCurrent, LeaseExclusion
<1> QED
  BY <1>1, LeasesInvariant, PTL

\* The message of a claim that owns it carries the lease of that claim, so
\* that the ack of its worker is accepted.
THEOREM LeasesStayValid == Spec => []GrantStaysValid
<1>1. TypeOK /\ WithinBounds /\ LeaseInv => GrantStaysValid
  <2> SUFFICES ASSUME LInv, NEW l \in 1..issued, Owns(l)
               PROVE  LET r == msg[grants[l].msg]
                      IN  r.status = "leased" /\ r.lease_id = l
                          /\ r.leased_by = grants[l].worker
    BY DEF GrantStaysValid, LInv, Typed
  <2> DEFINE m == grants[l].msg
  <2>1. msg[m].lease_id = l /\ l # NoLease
    BY DEF LInv, LeaseInv, OwnedIsCurrent, NoLease
  <2>2. m \in MsgIds
    BY AppendedAreNames DEF LInv, LeaseInv, GrantedOnAppended
  <2>3. msg[m].status = "leased"
    BY <2>1, <2>2, CarriedLease
  <2>4. grants[l] = [msg |-> m, worker |-> msg[m].leased_by, until |-> msg[m].lease_until,
                     end |-> grants[l].end]
    BY <2>1, <2>2, <2>3 DEF LInv, LeaseInv, LeaseRecorded
  <2> QED
    BY <2>1, <2>3, <2>4
<1> QED
  BY <1>1, LeasesInvariant, PTL

-----------------------------------------------------------------------------
(* The store implements WorkLease: every step of the store is a step of    *)
(* the abstract leases, or leaves them alone. First the invariants that    *)
(* the mapping needs beyond those of the leases.                           *)

RInv == LInv /\ UngrantedBlank /\ WorkersNamed

\* What an ack that is accepted names is a lease that was granted, on that
\* message and to that worker.
LEMMA HeldFacts ==
  ASSUME LInv, NEW a, HoldsLease(a)
  PROVE  /\ a.msg \in MsgIds /\ a.msg \in live
         /\ msg[a.msg].status = "leased" /\ msg[a.msg].lease_id = a.lease
         /\ a.lease \in 1..issued /\ a.lease \in LeaseIds
         /\ grants[a.lease].msg = a.msg /\ grants[a.lease].worker = a.worker
<1>1. a.msg \in live /\ msg[a.msg].status = "leased" /\ msg[a.msg].lease_id = a.lease
  BY DEF HoldsLease
<1>2. a.msg \in MsgIds
  BY <1>1, AppendedAreNames DEF LInv, Typed, TypeOK
<1>3. /\ a.lease \in 1..issued
      /\ grants[a.lease] = [msg |-> a.msg, worker |-> msg[a.msg].leased_by,
                            until |-> msg[a.msg].lease_until, end |-> grants[a.lease].end]
  BY <1>1, <1>2 DEF LInv, LeaseInv, LeaseRecorded
<1>4. a.lease \in LeaseIds
  BY <1>3, BusAssumption DEF LInv, Typed, TypeOK, LeaseIds
<1> QED
  BY <1>1, <1>2, <1>3, <1>4 DEF HoldsLease

\* Leases are granted in their order.
LEMMA BlankKept == RInv /\ [Next]_vars => UngrantedBlank'
<1> SUFFICES ASSUME RInv, [Next]_vars PROVE UngrantedBlank'
  OBVIOUS
<1>1. CASE UNCHANGED <<issued, grants>>
  BY <1>1 DEF RInv, UngrantedBlank
<1>2. ASSUME NEW t \in Threads, ClaimScan(t) PROVE UngrantedBlank'
  <2>1. CASE UNCHANGED <<issued, grants>>
    BY <2>1, <1>1
  <2>2. CASE /\ issued' = issued + 1
             /\ \E g : grants' = [grants EXCEPT ![issued'] = g]
    <3>1. issued \in Nat /\ grants \in [LeaseIds -> Grant]
      BY DEF RInv, LInv, Typed, TypeOK
    <3>2. \A l \in LeaseIds : l > issued' => l > issued /\ grants'[l] = grants[l]
      BY <2>2, <3>1 DEF LeaseIds
    <3> QED
      BY <3>2 DEF RInv, UngrantedBlank
  <2> QED
    BY <1>2, <2>1, <2>2 DEF ClaimScan, history
<1>3. ASSUME NEW t \in Threads, AckApply(t) PROVE UngrantedBlank'
  <2> DEFINE a == arg[t]
  <2>1. CASE UNCHANGED <<issued, grants>>
    BY <2>1, <1>1
  <2>2. CASE /\ HoldsLease(a) /\ issued' = issued
             /\ \E e : grants' = [grants EXCEPT ![a.lease].end = e]
    <3>1. a.lease \in 1..issued
      BY <2>2, HeldFacts DEF RInv
    <3>2. issued \in Nat /\ grants \in [LeaseIds -> Grant]
      BY DEF RInv, LInv, Typed, TypeOK
    <3>3. \A l \in LeaseIds : l > issued => grants'[l] = grants[l]
      BY <2>2, <3>1, <3>2 DEF LeaseIds
    <3> QED
      BY <2>2, <3>3 DEF RInv, UngrantedBlank
  <2> QED
    BY <1>3, <2>1, <2>2 DEF AckApply, store, history
<1> QED
  BY <1>1, <1>2, <1>3
  DEF Next, vars, history, PostStart, PollStart, ClaimStart, AckStart, Receive,
      PostAppend, PostPrune, PollPrune, PollRead, ClaimPrune, ClaimReply, AckPrune,
      Tick, Restart, store

\* A thread's request, with its worker, stays as it came until it is handled.
LEMMA WorkersKept == RInv /\ [Next]_vars => WorkersNamed'
<1> DEFINE Named(s) == s \in {"claimPrune", "claimScan", "ackPrune", "ackApply"}
<1> SUFFICES ASSUME RInv, [Next]_vars PROVE WorkersNamed'
  OBVIOUS
<1>1. pc \in [Threads -> Stages] /\ arg \in [Threads -> Args]
  BY DEF RInv, LInv, Typed, TypeOK
<1>2. \A t \in Threads : Named(pc[t]) => arg[t].worker \in Workers
  BY DEF RInv, WorkersNamed
<1>3. ASSUME NEW t \in Threads, NEW s,
             pc' = [pc EXCEPT ![t] = s], ~Named(s) \/ (arg' = arg /\ Named(pc[t])),
             \A u \in Threads \ {t} : arg'[u] = arg[u]
      PROVE  WorkersNamed'
  BY <1>1, <1>2, <1>3 DEF WorkersNamed
<1>4. ASSUME NEW t \in Threads, NEW s, NEW r, Receive(t, s, r), ~Named(s) \/ r.worker \in Workers
      PROVE  WorkersNamed'
  BY <1>1, <1>2, <1>4 DEF WorkersNamed, Receive
<1>5. ASSUME NEW t \in Threads, NEW q, NEW w \in Workers, NEW span, ClaimStart(t, q, w, span)
      PROVE  WorkersNamed'
  BY <1>4, <1>5 DEF ClaimStart, NoArgs
<1>6. ASSUME NEW t \in Threads, NEW q, NEW w \in Workers, NEW m, NEW l, NEW b,
             AckStart(t, q, w, m, l, b)
      PROVE  WorkersNamed'
  BY <1>4, <1>6 DEF AckStart, NoArgs
<1>7. ASSUME NEW t \in Threads, NEW q, NEW ttl, PostStart(t, q, ttl) \/ PollStart(t)
      PROVE  WorkersNamed'
  BY <1>4, <1>7 DEF PostStart, PollStart
<1>8. ASSUME NEW t \in Threads, NEW from, Finish(t, from)
      PROVE  WorkersNamed'
  BY <1>1, <1>3, <1>8 DEF Finish, Goto
<1>9. ASSUME NEW t \in Threads, PostAppend(t) \/ PollPrune(t) \/ ClaimPrune(t) \/ AckPrune(t)
      PROVE  WorkersNamed'
  BY <1>3, <1>9 DEF PostAppend, PollPrune, ClaimPrune, AckPrune, Goto
<1>10. ASSUME NEW t \in Threads, ClaimScan(t)
       PROVE  WorkersNamed'
  <2>1. CASE Finish(t, "claimScan")
    BY <2>1, <1>8
  <2>2. CASE Goto(t, "claimScan", "claimReply") /\ \E a : arg' = [arg EXCEPT ![t] = a]
    BY <2>2, <1>1, <1>3 DEF Goto
  <2> QED
    BY <1>10, <2>1, <2>2 DEF ClaimScan
<1>11. CASE Tick \/ Restart \/ UNCHANGED vars
  BY <1>11 DEF Tick, Restart, vars, RInv, WorkersNamed
<1>12. ASSUME NEW t \in Threads,
              PostPrune(t) \/ PollRead(t) \/ ClaimReply(t) \/ AckApply(t)
       PROVE  WorkersNamed'
  BY <1>8, <1>12 DEF PostPrune, PollRead, ClaimReply, AckApply
<1> QED
  BY <1>5, <1>6, <1>7, <1>9, <1>10, <1>11, <1>12 DEF Next

-----------------------------------------------------------------------------
(* The steps of the mapping.                                               *)

\* The stage of a message from the store's variables.
LEMMA StageFacts ==
  ASSUME LInv, NEW m \in MsgIds
  PROVE  /\ m \in live <=> StageOf(m) \in {"available", "leased"}
         /\ StageOf(m) = "leased" <=> m \in live /\ msg[m].status = "leased"
         /\ StageOf(m) = "absent" <=> m > appended
         /\ StageOf(m) \in {"absent", "gone", "available", "leased"}
<1>1. live \subseteq 1..appended /\ m \in Nat /\ appended \in Nat
  BY BusAssumption DEF LInv, Typed, TypeOK, MsgIds
<1> QED
  BY <1>1 DEF StageOf

\* _bus_prune: the overdue leases have lapsed, and what goes was there.
LEMMA PruneRefined ==
  ASSUME RInv, NEW n \in 0..clock, Prune(n), UNCHANGED <<clock, issued, grants>>
  PROVE  Lease!Next
<1>0. PICK R, D : R = {m \in live : Overdue(msg[m], n)} /\ D = live \ live'
  OBVIOUS
<1>1. /\ live \subseteq MsgIds /\ live' \subseteq live
      /\ msg \in [MsgIds -> Message] /\ msg' \in [MsgIds -> Message]
      /\ appended' = appended /\ appended \in Nat
  BY PruneType, AppendedAreNames, BusAssumption DEF RInv, LInv, Typed, TypeOK
<1>2. R \in SUBSET Lease!Present /\ D \in SUBSET Lease!Present
  BY <1>0, <1>1, StageFacts DEF Lease!Present, RInv
<1>3. ASSUME NEW m \in R PROVE Lease!Lapsed(m)
  <2>1. m \in MsgIds /\ m \in live /\ msg[m].status = "leased" /\ msg[m].lease_until <= n
    BY <1>0, <1>1 DEF Overdue
  <2>2. /\ msg[m].lease_id \in 1..issued
        /\ grants[msg[m].lease_id].until = msg[m].lease_until
    <3>1. msg[m].lease_id \in 1..issued
      BY <2>1 DEF RInv, LInv, LeaseInv, LeaseRecorded
    <3>2. msg[m].lease_id # NoLease
      BY <3>1 DEF NoLease
    <3> QED
      BY <2>1, <3>1, <3>2, CarriedLease DEF RInv
  <2>3. msg[m].lease_until \in Nat /\ clock \in Nat /\ n \in Nat /\ n <= clock
    BY <1>1, <2>1, BusAssumption DEF Message, RInv, LInv, Typed, TypeOK
  <2>4. grants[msg[m].lease_id].until <= clock
    BY <2>1, <2>2, <2>3
  <2>5. StageOf(m) = "leased"
    BY <2>1, StageFacts DEF RInv
  <2> QED
    BY <2>1, <2>2, <2>4, <2>5 DEF Lease!Lapsed
<1>4. ASSUME NEW m \in MsgIds
      PROVE  /\ StageOf(m)' = IF m \in D THEN "gone"
                              ELSE IF m \in R THEN "available" ELSE StageOf(m)
             /\ msg'[m].lease_id = IF m \in R THEN NoLease ELSE msg[m].lease_id
  <2>1. msg'[m] = IF m \in R THEN Released(msg[m]) ELSE msg[m]
    BY <1>0 DEF Prune
  <2>2. Released(msg[m]).status = "pending" /\ Released(msg[m]).lease_id = NoLease
    BY <1>1 DEF Released, Message
  <2>3. m \in live => ~(m > appended)
    BY <1>1 DEF RInv, LInv, Typed, TypeOK
  <2> QED
    BY <1>0, <1>1, <2>1, <2>2, <2>3 DEF StageOf
<1>5. Lease!Sweep(R, D)
  BY <1>3, <1>4 DEF Lease!Sweep, Lease!NoLease, NoLease
<1> QED
  BY <1>2, <1>5 DEF Lease!Next

\* The handler of a post has appended its message: an item is submitted.
LEMMA AppendRefined ==
  ASSUME RInv, RInv', NEW t \in Threads, PostAppend(t)
  PROVE  Lease!Next
<1> DEFINE m == appended'
<1>1. /\ appended' = appended + 1 /\ live' = live \cup {m}
      /\ msg' = [msg EXCEPT ![m] = NewMessage(arg[t].queue, now[t], arg[t].ttl)]
      /\ UNCHANGED <<clock, issued, grants>>
  BY DEF PostAppend, history
<1>2. /\ m \in MsgIds /\ appended \in Nat /\ live \subseteq 1..appended
      /\ msg \in [MsgIds -> Message]
  BY <1>1, BusAssumption DEF RInv, LInv, Typed, TypeOK, MsgIds
<1>3. /\ NewMessage(arg[t].queue, now[t], arg[t].ttl).status # "leased"
      /\ NewMessage(arg[t].queue, now[t], arg[t].ttl).lease_id = NoLease
  BY DEF NewMessage
<1>4. msg[m].lease_id = NoLease
  <2>1. SUFFICES ASSUME msg[m].status = "leased" PROVE FALSE
    BY <1>2 DEF RInv, LInv, LeaseInv, LeaseRecorded
  <2>2. /\ msg[m].lease_id \in 1..issued
        /\ grants[msg[m].lease_id] = [msg |-> m, worker |-> msg[m].leased_by,
             until |-> msg[m].lease_until, end |-> grants[msg[m].lease_id].end]
    BY <2>1, <1>2 DEF RInv, LInv, LeaseInv, LeaseRecorded
  <2>3. grants[msg[m].lease_id].msg = m
    BY <2>2
  <2>4. grants[msg[m].lease_id].msg \in 1..appended
    BY <2>2 DEF RInv, LInv, LeaseInv, GrantedOnAppended
  <2> QED
    BY <2>3, <2>4, <1>1, <1>2
<1>5. ASSUME NEW i \in MsgIds
      PROVE  /\ StageOf(i)' = IF i = m THEN "available" ELSE StageOf(i)
             /\ msg'[i].lease_id = msg[i].lease_id
  BY <1>1, <1>2, <1>3, <1>4 DEF StageOf, MsgIds
<1>6. StageOf(m) = "absent"
  BY <1>1, <1>2 DEF StageOf
<1> HIDE DEF m
<1>7. Lease!Submit(m)
  BY <1>1, <1>2, <1>5, <1>6 DEF Lease!Submit
<1> QED
  BY <1>2, <1>7 DEF Lease!Next

\* A claim was granted its lease.
LEMMA ScanRefined ==
  ASSUME RInv, RInv', NEW t \in Threads, ClaimScan(t)
  PROVE  Lease!Next \/ UNCHANGED Lease!vars
<1> DEFINE S == Claimable(arg[t].queue, now[t])
           m == First(S)
           until == now[t] + arg[t].span
           w == arg[t].worker
           k == issued'
<1>1. CASE S = {}
  <2>1. UNCHANGED <<clock, live, appended, msg, issued, grants>>
    BY <1>1 DEF ClaimScan, store, history
  <2> QED
    BY <2>1 DEF Lease!vars, StageOf
<1>2. CASE S # {}
  <2>1. /\ m \in S /\ m \in live /\ m \in MsgIds
        /\ k = issued + 1 /\ k \in LeaseIds
        /\ until \in Nat
    BY <1>2, ClaimScanFacts DEF RInv, LInv
  <2>2. /\ msg' = [msg EXCEPT ![m] = Leased(@, w, until, k)]
        /\ grants' = [grants EXCEPT ![k] = [msg |-> m, worker |-> w,
                                            until |-> until, end |-> "open"]]
        /\ UNCHANGED <<clock, live, appended>>
        /\ pc[t] = "claimScan"
    BY <1>2 DEF ClaimScan, Goto
  <2>3. w \in Workers
    BY <2>2 DEF RInv, WorkersNamed
  <2>4. msg[m].status = "pending" \/ Overdue(msg[m], now[t])
    BY <2>1 DEF Claimable
  <2> HIDE DEF S, m, until, w, k
  \* A step of the abstract leases is of values, not of expressions of the state.
  <2>0. PICK i0, l0, w0 : i0 = m /\ l0 = k /\ w0 = w
    OBVIOUS
  <2>5. /\ msg \in [MsgIds -> Message] /\ grants \in [LeaseIds -> Grant]
        /\ issued \in Nat /\ clock \in Nat /\ now[t] \in Nat /\ now[t] <= clock
        /\ live \subseteq 1..appended /\ appended \in Nat /\ k > issued
    BY <2>1, BusAssumption DEF RInv, LInv, Typed, TypeOK
  <2>6. StageOf(m) = "available" \/ Lease!Lapsed(m)
    <3>1. CASE msg[m].status # "leased"
      BY <3>1, <2>1, <2>5 DEF StageOf
    <3>2. CASE msg[m].status = "leased"
      <4>1. StageOf(m) = "leased"
        BY <3>2, <2>1, <2>5 DEF StageOf
      <4>2. msg[m].lease_id \in 1..issued
        BY <2>1, <3>2 DEF RInv, LInv, LeaseInv, LeaseRecorded
      <4>3. msg[m].lease_id # NoLease
        BY <4>2 DEF NoLease
      <4>4. grants[msg[m].lease_id].until = msg[m].lease_until
        BY <2>1, <4>3, CarriedLease DEF RInv
      <4>5. msg[m].lease_until \in Nat /\ msg[m].lease_until <= now[t]
        BY <2>1, <2>4, <2>5, <3>2 DEF Overdue, Message
      <4>6. grants[msg[m].lease_id].until <= clock
        BY <4>4, <4>5, <2>5
      <4> QED
        BY <2>1, <4>1, <4>2, <4>6 DEF Lease!Lapsed
    <3> QED
      BY <3>1, <3>2
  <2>7. grants[k] = [msg |-> NoMsg, worker |-> Nobody, until |-> 0, end |-> "open"]
    BY <2>1, <2>5 DEF RInv, UngrantedBlank
  <2>8. /\ \A i \in MsgIds : msg'[i] = IF i = m THEN Leased(msg[m], w, until, k) ELSE msg[i]
        /\ \A l \in LeaseIds : grants'[l] = IF l = k THEN [msg |-> m, worker |-> w,
                                            until |-> until, end |-> "open"] ELSE grants[l]
    BY <2>1, <2>2, <2>5
  <2>9. /\ Leased(msg[m], w, until, k).status = "leased"
        /\ Leased(msg[m], w, until, k).lease_id = k
    BY <2>1, <2>5 DEF Leased, Message
  <2>10. ASSUME NEW i \in MsgIds
         PROVE  /\ StageOf(i)' = IF i = m THEN "leased" ELSE StageOf(i)
                /\ msg'[i].lease_id = IF i = m THEN k ELSE msg[i].lease_id
    BY <2>1, <2>2, <2>5, <2>8, <2>9 DEF StageOf
  <2>11. ASSUME NEW l \in LeaseIds
         PROVE  /\ [item |-> grants'[l].msg, worker |-> grants'[l].worker] =
                      IF l = k THEN [item |-> m, worker |-> w]
                      ELSE [item |-> grants[l].msg, worker |-> grants[l].worker]
                /\ grants'[l].end # "open" <=> grants[l].end # "open"
    BY <2>7, <2>8
  <2>12. LET lapsed == {l \in 1..issued : grants[l].until <= clock}
         IN  {l \in 1..issued' : grants'[l].until <= clock'} \in {lapsed, lapsed \cup {k}}
    <3>1. \A l \in 1..issued' : l = k \/ (l \in 1..issued /\ grants'[l] = grants[l])
      BY <2>1, <2>5, <2>8, BusAssumption DEF LeaseIds, k
    <3>2. \A l \in 1..issued : l \in 1..issued' /\ l # k /\ grants'[l] = grants[l]
      BY <2>1, <2>5, <2>8, BusAssumption DEF LeaseIds, k
    <3>3. k \in 1..issued'
      BY <2>1, <2>5 DEF k
    <3> QED
      BY <2>2, <3>1, <3>2, <3>3
  <2>13. Lease!Grant(i0, l0, w0)
    <3>1. [item |-> grants[k].msg, worker |-> grants[k].worker] = Lease!NotGranted
      BY <2>7 DEF Lease!NotGranted, Lease!NoItem, NoMsg, Nobody
    <3> QED
      BY <2>0, <2>1, <2>3, <2>6, <2>10, <2>11, <2>12, <3>1 DEF Lease!Grant
  <2> QED
    BY <2>0, <2>1, <2>3, <2>13 DEF Lease!Next
<1> QED
  BY <1>1, <1>2

\* An ack or a nack returns the lease that the message carries, or nothing.
LEMMA AckRefined ==
  ASSUME RInv, NEW t \in Threads, AckApply(t)
  PROVE  Lease!Next \/ UNCHANGED Lease!vars
<1>0. PICK a : a = arg[t]
  OBVIOUS
<1>1. UNCHANGED <<clock, appended, issued>> /\ pc[t] = "ackApply"
  BY DEF AckApply, Finish, Goto, store, history
<1>2. /\ msg \in [MsgIds -> Message] /\ grants \in [LeaseIds -> Grant]
      /\ live \subseteq 1..appended /\ appended \in Nat
      /\ \A l \in 1..issued : l \in LeaseIds
  BY BusAssumption DEF RInv, LInv, Typed, TypeOK, LeaseIds
<1>3. CASE UNCHANGED <<live, msg, grants>>
  BY <1>1, <1>3 DEF Lease!vars, StageOf
<1>4. CASE /\ HoldsLease(a)
           /\ \/ /\ msg' = [msg EXCEPT ![a.msg] = Released(@)]
                 /\ grants' = [grants EXCEPT ![a.lease].end = "requeued"]
                 /\ live' = live
              \/ /\ msg' = msg
                 /\ grants' = [grants EXCEPT ![a.lease].end = "removed"]
                 /\ live' = live \ {a.msg}
  <2>0. PICK m, l, w : m = a.msg /\ l = a.lease /\ w = a.worker
    OBVIOUS
  <2>1. /\ m \in MsgIds /\ m \in live /\ msg[m].status = "leased" /\ msg[m].lease_id = l
        /\ l \in 1..issued /\ l \in LeaseIds
        /\ grants[l].msg = m /\ grants[l].worker = w
    BY <1>4, <2>0, HeldFacts DEF RInv
  <2>2. w \in Workers
    BY <1>0, <1>1, <2>0 DEF RInv, WorkersNamed
  <2>3. StageOf(m) = "leased" /\ m # NoMsg
    BY <2>1, StageFacts DEF RInv, NoMsg, MsgIds
  <2>4. l \in Lease!Granted
    BY <2>1, <2>3 DEF Lease!Granted, Lease!NotGranted, Lease!NoItem, NoMsg
  <2>5. Lease!Holds(l, w)
    BY <2>1, <2>3 DEF Lease!Holds
  <2>6. \A k \in LeaseIds : /\ grants'[k].msg = grants[k].msg
                            /\ grants'[k].worker = grants[k].worker
                            /\ grants'[k].until = grants[k].until
                            /\ k # l => grants'[k].end = grants[k].end
    BY <1>2, <1>4, <2>0, <2>1 DEF Grant
  <2>7. grants'[l].end # "open"
    BY <1>2, <1>4, <2>0, <2>1 DEF Grant
  <2>8. {k \in 1..issued' : grants'[k].until <= clock'} =
          {k \in 1..issued : grants[k].until <= clock}
    BY <1>1, <1>2, <2>6
  <2>9. {k \in LeaseIds : grants'[k].end # "open"} =
          {k \in LeaseIds : grants[k].end # "open"} \cup {l}
    BY <2>1, <2>6, <2>7
  \* The owner of every lease stays as it was.
  <2> DEFINE own == [k \in LeaseIds |-> [item |-> grants[k].msg, worker |-> grants[k].worker]]
  <2>10. own' = own /\ own[l].item = m /\ own[l].worker = w
    BY <2>1, <2>6
  <2>11. CASE /\ msg' = [msg EXCEPT ![m] = Released(@)]
              /\ live' = live
    <3>1. Released(msg[m]).status = "pending" /\ Released(msg[m]).lease_id = NoLease
      BY <1>2, <2>1 DEF Released, Message
    <3>2. ASSUME NEW i \in MsgIds
          PROVE  /\ StageOf(i)' = IF i = m THEN "available" ELSE StageOf(i)
                 /\ msg'[i].lease_id = IF i = m THEN NoLease ELSE msg[i].lease_id
      BY <1>1, <1>2, <2>1, <2>11, <3>1 DEF StageOf
    <3>3. Lease!Requeue(l, w)
      <4> HIDE DEF own
      <4>1. [i \in MsgIds |-> StageOf(i)]' =
              [[i \in MsgIds |-> StageOf(i)] EXCEPT ![own[l].item] = "available"]
        BY <2>10, <3>2
      <4>2. [i \in MsgIds |-> msg[i].lease_id]' =
              [[i \in MsgIds |-> msg[i].lease_id] EXCEPT ![own[l].item] = NoLease]
        BY <2>10, <3>2
      <4> USE DEF own
      <4> QED
        BY <2>5, <2>8, <2>9, <2>10, <4>1, <4>2 DEF Lease!Requeue, Lease!NoLease, NoLease
    <3> QED
      BY <2>2, <2>4, <3>3 DEF Lease!Next
  <2>12. CASE /\ msg' = msg
              /\ live' = live \ {m}
    <3>1. ASSUME NEW i \in MsgIds
          PROVE  StageOf(i)' = IF i = m THEN "gone" ELSE StageOf(i)
      BY <1>1, <1>2, <2>1, <2>12 DEF StageOf
    <3>2. Lease!Remove(l, w)
      <4>1. [i \in MsgIds |-> StageOf(i)]' =
              [[i \in MsgIds |-> StageOf(i)] EXCEPT ![own[l].item] = "gone"]
        BY <2>1, <2>10, <3>1
      <4>2. [i \in MsgIds |-> msg[i].lease_id]' = [i \in MsgIds |-> msg[i].lease_id]
        BY <2>12
      <4> QED
        BY <2>5, <2>8, <2>9, <2>10, <4>1, <4>2 DEF Lease!Remove
    <3> QED
      BY <2>2, <2>4, <3>2 DEF Lease!Next
  <2> QED
    BY <1>4, <2>0, <2>11, <2>12
<1> QED
  BY <1>0, <1>3, <1>4 DEF AckApply, store, history

\* A second passes: some leases lapse.
LEMMA TickRefined ==
  ASSUME RInv, Tick
  PROVE  Lease!Next
<1>1. clock' = clock + 1 /\ UNCHANGED <<live, appended, msg, issued, grants>>
  BY DEF Tick, store, history
<1>2. PICK L : L = {l \in 1..issued : grants[l].until = clock'}
  OBVIOUS
<1>3. \A l \in 1..issued : /\ l \in LeaseIds /\ grants[l].until \in Nat /\ clock \in Nat
                           /\ grants[l].msg \in 1..appended
  BY BusAssumption DEF RInv, LInv, Typed, TypeOK, LeaseInv, GrantedOnAppended, LeaseIds, Grant
<1>4. L \in SUBSET Lease!Granted
  <2>1. \A l \in L : grants[l].msg # NoMsg
    BY <1>2, <1>3 DEF NoMsg
  <2> QED
    BY <1>2, <1>3, <2>1 DEF Lease!Granted, Lease!NotGranted, Lease!NoItem, NoMsg
<1>5. {l \in 1..issued' : grants'[l].until <= clock'} =
        {l \in 1..issued : grants[l].until <= clock} \cup L
  BY <1>1, <1>2, <1>3
<1>6. Lease!Lapse(L)
  BY <1>1, <1>5 DEF Lease!Lapse, StageOf
<1> QED
  BY <1>4, <1>6 DEF Lease!Next

\* After a restart everything is gone.
LEMMA RestartRefined ==
  ASSUME RInv, Restart
  PROVE  Lease!Next
<1>1. live' = {} /\ UNCHANGED <<clock, appended, msg, issued, grants>>
  BY DEF Restart, history
<1>2. PICK R, D : R = {} /\ D = live
  OBVIOUS
<1>3. R \in SUBSET Lease!Present /\ D \in SUBSET Lease!Present
  BY <1>2, StageFacts, AppendedAreNames DEF Lease!Present, RInv, LInv, Typed, TypeOK
<1>4. live \subseteq 1..appended /\ appended \in Nat
  BY DEF RInv, LInv, Typed, TypeOK
<1>5. ASSUME NEW m \in MsgIds
      PROVE  StageOf(m)' = IF m \in D THEN "gone" ELSE StageOf(m)
  BY <1>1, <1>2, <1>4, BusAssumption DEF StageOf, MsgIds
<1>6. Lease!Sweep(R, D)
  BY <1>1, <1>2, <1>5 DEF Lease!Sweep
<1> QED
  BY <1>3, <1>6 DEF Lease!Next

\* Every step of the store is one of the abstract leases, or none.
LEMMA NextRefined == RInv /\ RInv' /\ [Next]_vars => [Lease!Next]_(Lease!vars)
<1> SUFFICES ASSUME RInv, RInv', [Next]_vars PROVE Lease!Next \/ UNCHANGED Lease!vars
  OBVIOUS
<1>1. CASE UNCHANGED <<clock, live, appended, msg, issued, grants>>
  BY <1>1 DEF Lease!vars, StageOf
<1>2. ASSUME NEW t \in Threads, PostPrune(t) \/ PollPrune(t) \/ AckPrune(t)
      PROVE  Lease!Next
  <2>1. PICK n \in now[t]..clock : Prune(n)
    BY <1>2 DEF PostPrune, PollPrune, AckPrune
  <2>2. n \in 0..clock
    BY BusAssumption DEF RInv, LInv, Typed, TypeOK
  <2> QED
    BY <1>2, <2>1, <2>2, PruneRefined DEF PostPrune, PollPrune, AckPrune, history
<1>3. ASSUME NEW t \in Threads, ClaimPrune(t)
      PROVE  Lease!Next
  <2>1. PICK n : n = now[t]
    OBVIOUS
  <2>2. n \in 0..clock /\ Prune(n)
    BY <1>3, <2>1 DEF ClaimPrune, RInv, LInv, Typed, TypeOK
  <2> QED
    BY <1>3, <2>2, PruneRefined DEF ClaimPrune, history
<1>4. ASSUME NEW t \in Threads, NEW stage, NEW request, Receive(t, stage, request)
      PROVE  UNCHANGED <<clock, live, appended, msg, issued, grants>>
  BY <1>4 DEF Receive, store, history
<1>5. ASSUME NEW t \in Threads, PollRead(t) \/ ClaimReply(t)
      PROVE  UNCHANGED <<clock, live, appended, msg, issued, grants>>
  BY <1>5 DEF PollRead, ClaimReply, store, history
<1>6. UNCHANGED vars => UNCHANGED <<clock, live, appended, msg, issued, grants>>
  BY DEF vars
<1> QED
  BY <1>1, <1>2, <1>3, <1>4, <1>5, <1>6,
     AppendRefined, ScanRefined, AckRefined, TickRefined, RestartRefined
  DEF Next, PostStart, PollStart, ClaimStart, AckStart

\* Initially nothing is submitted or granted.
LEMMA InitRefined == Init => Lease!Init
<1> SUFFICES ASSUME Init PROVE Lease!Init
  OBVIOUS
<1>1. \A m \in MsgIds : StageOf(m) = "absent" /\ msg[m].lease_id = NoLease
  BY BusAssumption DEF Init, StageOf, MsgIds, NewMessage
<1>2. \A l \in LeaseIds : /\ grants[l].msg = NoMsg /\ grants[l].worker = Nobody
                          /\ grants[l].end = "open"
  BY DEF Init
<1>3. {l \in 1..issued : grants[l].until <= clock} = {}
  BY DEF Init
<1> QED
  BY <1>1, <1>2, <1>3 DEF Lease!Init, Lease!NoLease, Lease!NotGranted, Lease!NoItem,
                          NoLease, NoMsg, Nobody

\* The store of server.py, whatever the number of threads, workers, messages
\* and claims, keeps the promises of the abstract leases: work is granted only
\* when it is free or its lease is over, and given back only by its holder.
THEOREM StoreImplementsWorkLease == Spec => ImplementsWorkLease
<1>1. Init => RInv
  BY InitTyped, InitLeaseInv DEF RInv, LInv, UngrantedBlank, WorkersNamed, Init
<1>2. RInv /\ [Next]_vars => RInv'
  BY NextTyped, NextLeaseInv, BlankKept, WorkersKept DEF RInv, LInv
<1> QED
  BY <1>1, <1>2, InitRefined, NextRefined, PTL DEF Spec, ImplementsWorkLease, Lease!Spec

-----------------------------------------------------------------------------
(* An accepted ack is final.                                               *)

RemovalInv == CarriedIsLatest /\ CarriedIsOpen /\ RemovalIsFinal

FInv == LInv /\ RemovalInv

\* What the proofs below use of the invariant of the leases.
LEMMA LeaseFacts ==
  ASSUME LInv
  PROVE  /\ msg \in [MsgIds -> Message] /\ grants \in [LeaseIds -> Grant]
         /\ live \subseteq 1..appended /\ live \subseteq MsgIds
         /\ appended \in Nat /\ issued \in Nat /\ clock \in Nat
         /\ \A l \in 1..issued : l \in LeaseIds /\ grants[l].msg \in 1..appended
         /\ \A m \in MsgIds : msg[m].status = "leased" =>
              /\ msg[m].lease_id \in 1..issued
              /\ grants[msg[m].lease_id].msg = m
<1>1. /\ msg \in [MsgIds -> Message] /\ grants \in [LeaseIds -> Grant]
      /\ live \subseteq 1..appended /\ live \subseteq MsgIds
      /\ appended \in Nat /\ issued \in Nat /\ clock \in Nat
  BY AppendedAreNames, BusAssumption DEF LInv, Typed, TypeOK
<1>2. \A l \in 1..issued : l \in LeaseIds /\ grants[l].msg \in 1..appended
  BY BusAssumption DEF LInv, Typed, TypeOK, LeaseIds, LeaseInv, GrantedOnAppended
<1>3. ASSUME NEW m \in MsgIds, msg[m].status = "leased"
      PROVE  msg[m].lease_id \in 1..issued /\ grants[msg[m].lease_id].msg = m
  <2>1. /\ msg[m].lease_id \in 1..issued
        /\ grants[msg[m].lease_id] =
             [msg |-> m, worker |-> msg[m].leased_by, until |-> msg[m].lease_until,
              end |-> grants[msg[m].lease_id].end]
    BY <1>3 DEF LInv, LeaseInv, LeaseRecorded
  <2>2. grants[msg[m].lease_id].msg = m
    BY <2>1
  <2> QED
    BY <2>1, <2>2
<1> QED
  BY <1>1, <1>2, <1>3

\* A step that appends and leases nothing only lets messages and leases go.
LEMMA ReleaseKeepsRemovals ==
  ASSUME FInv, live' \subseteq live, UNCHANGED <<issued, grants>>,
         \A m \in MsgIds : msg'[m] = msg[m] \/ msg'[m].status = "pending"
  PROVE  RemovalInv'
<1>1. live \subseteq MsgIds
  BY LeaseFacts DEF FInv
<1>2. CarriedIsLatest'
  BY DEF FInv, RemovalInv, CarriedIsLatest
<1>3. CarriedIsOpen'
  BY <1>1 DEF FInv, RemovalInv, CarriedIsOpen
<1>4. RemovalIsFinal'
  BY DEF FInv, RemovalInv, RemovalIsFinal
<1> QED
  BY <1>2, <1>3, <1>4 DEF RemovalInv

\* The new message is none that was ever leased.
LEMMA AppendKeepsRemovals ==
  ASSUME FInv, NEW t \in Threads, PostAppend(t)
  PROVE  RemovalInv'
<1>1. /\ appended' = appended + 1 /\ live' = live \cup {appended'}
      /\ UNCHANGED <<issued, grants>>
      /\ msg' = [msg EXCEPT ![appended'] = NewMessage(arg[t].queue, now[t], arg[t].ttl)]
  BY DEF PostAppend, history
<1>2. NewMessage(arg[t].queue, now[t], arg[t].ttl).status # "leased"
  BY DEF NewMessage
<1>3. /\ msg \in [MsgIds -> Message] /\ appended \in Nat
      /\ live \subseteq MsgIds
      /\ \A l \in 1..issued : grants[l].msg \in 1..appended
  BY LeaseFacts DEF FInv
<1>4. \A m \in MsgIds : IF m = appended' THEN msg'[m].status # "leased" ELSE msg'[m] = msg[m]
  BY <1>1, <1>2, <1>3
<1>5. appended' \in MsgIds \/ \A m \in MsgIds : msg'[m] = msg[m]
  BY <1>1, <1>3
<1>6. CarriedIsLatest'
  BY <1>1, <1>4 DEF FInv, RemovalInv, CarriedIsLatest
<1>7. CarriedIsOpen'
  <2>1. appended' \in MsgIds
    BY <1>1, BusAssumption, PostAppendTyped, AppendedAreNames DEF FInv, LInv, Typed, TypeOK, MsgIds
  <2> QED
    BY <1>1, <1>3, <1>4, <2>1 DEF FInv, RemovalInv, CarriedIsOpen
<1>8. RemovalIsFinal'
  <2>1. \A l \in 1..issued : grants[l].msg # appended'
    BY <1>1, <1>3
  <2> QED
    BY <1>1, <2>1 DEF FInv, RemovalInv, RemovalIsFinal
<1> QED
  BY <1>6, <1>7, <1>8 DEF RemovalInv

\* A lease is granted on a message of the store, and becomes its latest.
LEMMA ScanKeepsRemovals ==
  ASSUME FInv, NEW t \in Threads, ClaimScan(t)
  PROVE  RemovalInv'
<1> DEFINE S == Claimable(arg[t].queue, now[t])
           m == First(S)
           until == now[t] + arg[t].span
           w == arg[t].worker
           k == issued'
<1>1. CASE S = {}
  <2>1. UNCHANGED <<live, msg, issued, grants>>
    BY <1>1 DEF ClaimScan, store, history
  <2> QED
    BY <2>1, ReleaseKeepsRemovals
<1>2. CASE S # {}
  <2>1. m \in live /\ k = issued + 1 /\ k \in LeaseIds
    BY <1>2, ClaimScanFacts DEF FInv, LInv
  <2>2. /\ msg' = [msg EXCEPT ![m] = Leased(@, w, until, k)]
        /\ grants' = [grants EXCEPT ![k] = [msg |-> m, worker |-> w,
                                            until |-> until, end |-> "open"]]
        /\ UNCHANGED live
    BY <1>2 DEF ClaimScan
  <2> HIDE DEF S, m, until, w, k
  <2>3. /\ msg \in [MsgIds -> Message] /\ grants \in [LeaseIds -> Grant]
        /\ live \subseteq MsgIds /\ issued \in Nat
        /\ \A l \in 1..issued : l \in LeaseIds
        /\ \A i \in MsgIds : msg[i].status = "leased" =>
             msg[i].lease_id \in 1..issued /\ grants[msg[i].lease_id].msg = i
    BY LeaseFacts DEF FInv
  <2>4. Leased(msg[m], w, until, k).lease_id = k
    BY <2>1, <2>3 DEF Leased, Message
  <2>5. \A i \in MsgIds : IF i = m THEN msg'[i].lease_id = k ELSE msg'[i] = msg[i]
    BY <2>2, <2>3, <2>4
  <2>6. /\ \A l \in 1..issued : l # k /\ grants'[l] = grants[l]
        /\ grants'[k].msg = m /\ grants'[k].end = "open"
        /\ \A l \in 1..issued' : l = k \/ l \in 1..issued
        /\ issued' = k /\ k \in Nat
    BY <2>1, <2>2, <2>3 DEF k
  <2>7. CarriedIsLatest'
    <3> SUFFICES ASSUME NEW i \in MsgIds, msg'[i].status = "leased",
                        NEW l \in 1..issued', grants'[l].msg = i
                 PROVE  l <= msg'[i].lease_id
      BY DEF CarriedIsLatest
    <3>1. CASE i = m
      BY <3>1, <2>5, <2>6
    <3>2. CASE i # m
      BY <3>2, <2>5, <2>6 DEF FInv, RemovalInv, CarriedIsLatest
    <3> QED
      BY <3>1, <3>2
  <2>8. CarriedIsOpen'
    <3> SUFFICES ASSUME NEW i \in live, msg'[i].status = "leased"
                 PROVE  grants'[msg'[i].lease_id].end = "open"
      BY <2>2 DEF CarriedIsOpen
    <3>1. CASE i = m
      BY <3>1, <2>3, <2>5, <2>6
    <3>2. CASE i # m
      <4>1. msg'[i] = msg[i]
        BY <3>2, <2>3, <2>5
      <4>2. grants'[msg[i].lease_id] = grants[msg[i].lease_id]
        BY <4>1, <2>3, <2>6
      <4> QED
        BY <4>1, <4>2 DEF FInv, RemovalInv, CarriedIsOpen
    <3> QED
      BY <3>1, <3>2
  <2>9. RemovalIsFinal'
    <3> SUFFICES ASSUME NEW l \in 1..issued', grants'[l].end = "removed"
                 PROVE  /\ grants'[l].msg \notin live
                        /\ \A j \in 1..issued' :
                             grants'[j].msg = grants'[l].msg
                               /\ (j > l \/ grants'[j].end = "removed") => j = l
      BY <2>2 DEF RemovalIsFinal
    <3>1. l \in 1..issued /\ grants'[l] = grants[l]
      BY <2>6
    <3>2. grants[l].msg \notin live
      BY <3>1 DEF FInv, RemovalInv, RemovalIsFinal
    <3>3. grants'[k].msg # grants[l].msg
      BY <2>1, <2>6, <3>2
    <3> QED
      BY <2>6, <3>1, <3>2, <3>3 DEF FInv, RemovalInv, RemovalIsFinal
  <2> QED
    BY <2>7, <2>8, <2>9 DEF RemovalInv
<1> QED
  BY <1>1, <1>2

\* What an accepted ack gives back is the latest lease of a message of the
\* store, so none came after it and none removed the message before.
LEMMA AckKeepsRemovals ==
  ASSUME FInv, NEW t \in Threads, AckApply(t)
  PROVE  RemovalInv'
<1> DEFINE a == arg[t]
           m == a.msg
           h == a.lease
<1>1. /\ msg \in [MsgIds -> Message] /\ grants \in [LeaseIds -> Grant]
      /\ live \subseteq MsgIds /\ issued \in Nat
      /\ \A l \in 1..issued : l \in LeaseIds
      /\ \A i \in MsgIds : msg[i].status = "leased" =>
           msg[i].lease_id \in 1..issued /\ grants[msg[i].lease_id].msg = i
  BY LeaseFacts DEF FInv
<1>2. CASE UNCHANGED <<live, msg, issued, grants>>
  BY <1>2, ReleaseKeepsRemovals
<1>3. CASE HoldsLease(a) /\ issued' = issued
           /\ \/ /\ msg' = [msg EXCEPT ![m] = Released(@)] /\ live' = live
                 /\ grants' = [grants EXCEPT ![h].end = "requeued"]
              \/ /\ live' = live \ {m} /\ msg' = msg
                 /\ grants' = [grants EXCEPT ![h].end = "removed"]
  <2>1. /\ m \in live /\ m \in MsgIds /\ msg[m].status = "leased" /\ msg[m].lease_id = h
        /\ h \in 1..issued /\ h \in LeaseIds /\ grants[h].msg = m
    BY <1>1, <1>3 DEF HoldsLease
  <2>2. /\ Released(msg[m]).status = "pending"
        /\ \A i \in MsgIds : msg'[i] = msg[i] \/ (i = m /\ msg'[i].status = "pending")
        /\ m \in live' => msg'[m].status = "pending"
    <3>1. Released(msg[m]).status = "pending"
      BY <1>1, <2>1 DEF Released, Message
    <3>2. CASE msg' = [msg EXCEPT ![m] = Released(@)]
      <4>1. msg'[m] = Released(msg[m]) /\ \A i \in MsgIds : i # m => msg'[i] = msg[i]
        BY <1>1, <2>1, <3>2
      <4> QED
        BY <3>1, <4>1
    <3>3. CASE msg' = msg /\ live' = live \ {m}
      BY <3>1, <3>3
    <3> QED
      BY <1>3, <3>2, <3>3
  <2>3. /\ \A l \in LeaseIds : grants'[l].msg = grants[l].msg
        /\ \A l \in LeaseIds : l # h => grants'[l] = grants[l]
        /\ grants'[h].end = "removed" => m \notin live'
        /\ live' \subseteq live
    BY <1>1, <1>3, <2>1 DEF Grant
  <2> HIDE DEF a, m, h
  <2>4. CarriedIsLatest'
    BY <1>1, <1>3, <2>2, <2>3 DEF FInv, RemovalInv, CarriedIsLatest
  <2>5. CarriedIsOpen'
    <3> SUFFICES ASSUME NEW i \in live', msg'[i].status = "leased"
                 PROVE  grants'[msg'[i].lease_id].end = "open"
      BY DEF CarriedIsOpen
    <3>1. i \in live /\ i \in MsgIds /\ i # m /\ msg'[i] = msg[i]
      BY <1>1, <2>2, <2>3
    <3>2. msg[i].lease_id \in LeaseIds /\ msg[i].lease_id # h
      BY <1>1, <2>1, <3>1
    <3> QED
      BY <2>3, <3>1, <3>2 DEF FInv, RemovalInv, CarriedIsOpen
  <2>6. \A j \in 1..issued : grants[j].msg = m => j <= h /\ grants[j].end # "removed"
    <3>1. \A j \in 1..issued : grants[j].msg = m => j <= h
      BY <2>1 DEF FInv, RemovalInv, CarriedIsLatest
    <3>2. \A j \in 1..issued : grants[j].msg = m => grants[j].end # "removed"
      BY <2>1 DEF FInv, RemovalInv, RemovalIsFinal
    <3> QED
      BY <3>1, <3>2
  <2>7. RemovalIsFinal'
    <3> SUFFICES ASSUME NEW l \in 1..issued, grants'[l].end = "removed"
                 PROVE  /\ grants'[l].msg \notin live'
                        /\ \A j \in 1..issued :
                             grants'[j].msg = grants'[l].msg
                               /\ (j > l \/ grants'[j].end = "removed") => j = l
      BY <1>3 DEF RemovalIsFinal
    <3>1. CASE l = h
      <4>1. grants'[l].msg = m /\ m \notin live'
        BY <1>1, <2>1, <2>3, <3>1
      <4>2. ASSUME NEW j \in 1..issued, grants'[j].msg = m, j > l \/ grants'[j].end = "removed"
            PROVE  j = l
        <5>1. j \in LeaseIds /\ grants[j].msg = m
          BY <1>1, <2>3, <4>2
        <5>2. j <= h /\ grants[j].end # "removed"
          BY <2>6, <5>1
        <5>3. j # h => grants'[j].end # "removed"
          BY <2>3, <5>1, <5>2
        <5> QED
          BY <2>1, <3>1, <4>2, <5>2, <5>3
      <4> QED
        BY <4>1, <4>2
    <3>2. CASE l # h
      <4>1. l \in LeaseIds /\ grants'[l] = grants[l] /\ grants[l].end = "removed"
        BY <1>1, <2>3, <3>2
      <4>2. grants[l].msg \notin live /\ grants[l].msg # m
        BY <2>1, <4>1 DEF FInv, RemovalInv, RemovalIsFinal
      <4>3. ASSUME NEW j \in 1..issued, grants'[j].msg = grants[l].msg,
                   j > l \/ grants'[j].end = "removed"
            PROVE  j = l
        <5>1. j \in LeaseIds /\ grants[j].msg = grants[l].msg /\ j # h
          BY <1>1, <2>1, <2>3, <4>2, <4>3
        <5>2. grants'[j] = grants[j]
          BY <2>3, <5>1
        <5> QED
          BY <4>1, <4>3, <5>1, <5>2 DEF FInv, RemovalInv, RemovalIsFinal
      <4> QED
        BY <2>3, <4>1, <4>2, <4>3
    <3> QED
      BY <3>1, <3>2
  <2> QED
    BY <2>4, <2>5, <2>7 DEF RemovalInv
<1> QED
  BY <1>2, <1>3 DEF AckApply, store, history

\* Every step keeps the invariant.
LEMMA NextRemovalInv == FInv /\ [Next]_vars => RemovalInv'
<1> SUFFICES ASSUME FInv, [Next]_vars PROVE RemovalInv'
  OBVIOUS
<1>1. ASSUME NEW n, Prune(n), UNCHANGED history PROVE RemovalInv'
  <2>1. live' \subseteq live /\ UNCHANGED <<issued, grants>>
    BY <1>1 DEF Prune, Newest, history
  <2>2. \A m \in MsgIds : msg'[m] = msg[m] \/ msg'[m].status = "pending"
    <3>1. \A m \in MsgIds : Released(msg[m]).status = "pending"
      BY LeaseFacts DEF FInv, Released, Message
    <3> QED
      BY <1>1, <3>1 DEF Prune
  <2> QED
    BY <2>1, <2>2, ReleaseKeepsRemovals
<1>2. ASSUME NEW t \in Threads, PostPrune(t) \/ PollPrune(t) \/ ClaimPrune(t) \/ AckPrune(t)
      PROVE  RemovalInv'
  BY <1>1, <1>2 DEF PostPrune, PollPrune, ClaimPrune, AckPrune
<1>3. ASSUME NEW t \in Threads, NEW stage, NEW request, Receive(t, stage, request)
      PROVE  RemovalInv'
  BY <1>3, ReleaseKeepsRemovals DEF Receive, store, history
<1>4. ASSUME NEW t \in Threads, PollRead(t) \/ ClaimReply(t)
      PROVE  RemovalInv'
  BY <1>4, ReleaseKeepsRemovals DEF PollRead, ClaimReply, store, history
<1>5. CASE Tick \/ Restart \/ UNCHANGED vars
  BY <1>5, ReleaseKeepsRemovals DEF Tick, Restart, store, history, vars
<1> QED
  BY <1>2, <1>3, <1>4, <1>5, AppendKeepsRemovals, ScanKeepsRemovals, AckKeepsRemovals
  DEF Next, PostStart, PollStart, ClaimStart, AckStart

\* Both invariants together are inductive.
THEOREM RemovalInvariant == Spec => []FInv
<1>1. Init => FInv
  BY InitTyped, InitLeaseInv
  DEF FInv, LInv, RemovalInv, CarriedIsLatest, CarriedIsOpen, RemovalIsFinal, Init, NewMessage
<1>2. FInv /\ [Next]_vars => FInv'
  BY NextTyped, NextLeaseInv, NextRemovalInv DEF FInv, LInv
<1> QED
  BY <1>1, <1>2, PTL DEF Spec

\* Once an ack was accepted the message never comes back, no later claim is
\* granted it and no other ack of it is accepted, whatever the interleaving.
THEOREM RemovalsAreFinal == Spec => []RemovalIsFinal
<1>1. FInv => RemovalIsFinal
  BY DEF FInv, RemovalInv
<1> QED
  BY <1>1, RemovalInvariant, PTL

-----------------------------------------------------------------------------
(* The slice [-MaxMessages:].                                              *)

\* A set of names is finite.
LEMMA NamesFinite ==
  ASSUME NEW S \in SUBSET MsgIds
  PROVE  IsFiniteSet(S) /\ Cardinality(S) \in Nat /\ S \subseteq Nat
<1>1. IsFiniteSet(MsgIds)
  BY FS_Interval, BusAssumption DEF MsgIds
<1>2. IsFiniteSet(S)
  BY <1>1, FS_Subset
<1>3. Cardinality(S) \in Nat
  BY <1>2, FS_CardinalityType
<1>4. S \subseteq Nat
  BY BusAssumption DEF MsgIds
<1> QED
  BY <1>2, <1>3, <1>4

\* The slice is not longer than MaxMessages.
LEMMA NewestIsBounded ==
  ASSUME NEW S \in SUBSET MsgIds
  PROVE  Newest(S) \subseteq S /\ Cardinality(Newest(S)) <= MaxMessages
<1> DEFINE N == Newest(S)
<1>1. N \in SUBSET MsgIds /\ N \subseteq S
  BY DEF Newest
<1>2. CASE N = {}
  BY <1>2, <1>1, FS_EmptySet, BusAssumption
<1>3. CASE N # {}
  <2> DEFINE m == First(N)
             U == {j \in S : j >= m}
  <2>1. m \in N /\ \A j \in N : m <= j
    BY <1>1, <1>3, NamesFinite, FirstProperty
  <2>2. N \subseteq U /\ U \in SUBSET MsgIds
    BY <1>1, <2>1, NamesFinite
  <2>3. Cardinality(U) <= MaxMessages
    BY <2>1 DEF Newest
  <2>4. IsFiniteSet(U) /\ Cardinality(U) \in Nat /\ Cardinality(N) \in Nat
    BY <1>1, <2>2, NamesFinite
  <2>5. Cardinality(N) <= Cardinality(U)
    BY <2>2, <2>4, FS_Subset
  <2> QED
    BY <1>1, <2>3, <2>4, <2>5, BusAssumption
<1> QED
  BY <1>2, <1>3

\* A set of names that is not empty has a last one.
LEMMA LastName ==
  ASSUME NEW S \in SUBSET MsgIds, S # {}
  PROVE  \E m \in S : \A j \in S : j <= m
<1> DEFINE R == {MsgBound - j : j \in S}
<1>1. R \in SUBSET Nat /\ R # {} /\ \A j \in S : j \in Nat /\ j <= MsgBound
  <2>1. \A j \in S : j \in Nat /\ j <= MsgBound /\ MsgBound - j \in Nat
    BY BusAssumption DEF MsgIds
  <2>2. R \subseteq Nat
    BY <2>1
  <2> QED
    BY <2>1, <2>2
<1>2. First(R) \in R /\ \A r \in R : First(R) <= r
  BY <1>1, FirstProperty
<1>3. PICK m \in S : First(R) = MsgBound - m
  BY <1>2
<1>4. \A j \in S : MsgBound - m <= MsgBound - j
  BY <1>2, <1>3
<1> QED
  BY <1>1, <1>4, BusAssumption

\* What the slice cuts made room for MaxMessages newer messages.
LEMMA CutMadeRoom ==
  ASSUME NEW S \in SUBSET MsgIds, NEW m \in S \ Newest(S)
  PROVE  Cardinality({j \in Newest(S) : j > m}) >= MaxMessages
<1> DEFINE W == {j \in Newest(S) : j > m}
           T == {j \in S \ Newest(S) : j >= m}
<1>1. \A j \in S : j \in Nat
  BY NamesFinite
<1>2. PICK x \in T : \A j \in T : j <= x
  <2>1. T \in SUBSET MsgIds /\ m \in T
    BY <1>1
  <2> QED
    BY <2>1, LastName
<1> DEFINE U == {j \in S : j >= x}
<1>3. ~(Cardinality(U) <= MaxMessages)
  BY <1>2 DEF Newest
<1>4. /\ x \in U /\ U \in SUBSET MsgIds /\ IsFiniteSet(U) /\ Cardinality(U) \in Nat
      /\ W \in SUBSET MsgIds /\ IsFiniteSet(W) /\ Cardinality(W) \in Nat
  <2>1. x \in U /\ U \in SUBSET MsgIds
    BY <1>1, <1>2
  <2>2. W \in SUBSET MsgIds
    BY DEF Newest
  <2> QED
    BY <2>1, <2>2, NamesFinite
<1>5. IsFiniteSet(U \ {x}) /\ Cardinality(U \ {x}) = Cardinality(U) - 1
  BY <1>4, FS_RemoveElement
<1>6. U \ {x} \subseteq W
  <2> SUFFICES ASSUME NEW j \in U, j # x PROVE j \in W
    OBVIOUS
  <2>1. j > x /\ x >= m /\ j > m
    BY <1>1, <1>2
  <2>2. j \in Newest(S)
    BY <1>1, <1>2, <2>1
  <2> QED
    BY <2>1, <2>2
<1>7. Cardinality(U \ {x}) <= Cardinality(W)
  BY <1>4, <1>5, <1>6, FS_Subset
<1> QED
  BY <1>3, <1>4, <1>5, <1>7, BusAssumption

-----------------------------------------------------------------------------
(* How far the store is overfilled.                                        *)

Unpruned == At({"postPrune"})

\* A thread that neither comes from an append nor goes to its prune does not
\* change what is unpruned.
LEMMA UnprunedKept ==
  ASSUME NEW t \in Threads, Moved(t), pc[t] # "postPrune", pc'[t] # "postPrune"
  PROVE  Unpruned' = Unpruned
BY DEF Unpruned, At, Moved

\* The number of unpruned appends is a number.
LEMMA UnprunedType == Cardinality(Unpruned) \in Nat /\ Cardinality(Unpruned)' \in Nat
<1>1. Unpruned \in SUBSET Threads /\ Unpruned' \in SUBSET Threads
  BY DEF Unpruned, At
<1>2. IsFiniteSet(Unpruned) /\ IsFiniteSet(Unpruned')
  BY <1>1, FS_Subset, BusAssumption
<1> QED
  BY <1>2, FS_CardinalityType

\* Every step keeps the bound on the store.
LEMMA NextSize == Typed /\ Typed' /\ SizeBound /\ [Next]_vars => SizeBound'
<1> SUFFICES ASSUME Typed, Typed', SizeBound, [Next]_vars PROVE SizeBound'
  OBVIOUS
<1>1. /\ live \in SUBSET MsgIds /\ live' \in SUBSET MsgIds
      /\ Cardinality(Unpruned) \in Nat /\ Cardinality(Unpruned)' \in Nat
      /\ Cardinality(live) <= MaxMessages + Cardinality(Unpruned)
      /\ pc \in [Threads -> Stages] /\ pc' \in [Threads -> Stages]
      /\ IsFiniteSet(live) /\ Cardinality(live) \in Nat /\ Cardinality(live') \in Nat
  <2>1. live \in SUBSET MsgIds /\ live' \in SUBSET MsgIds
    BY AppendedAreNames, BusAssumption DEF Typed, TypeOK, MsgIds
  <2>2. Cardinality(Unpruned) \in Nat /\ Cardinality(Unpruned)' \in Nat
    BY UnprunedType
  <2>3. /\ Cardinality(live) <= MaxMessages + Cardinality(Unpruned)
        /\ pc \in [Threads -> Stages] /\ pc' \in [Threads -> Stages]
    BY DEF SizeBound, Unpruned, Typed, TypeOK
  <2> QED
    BY <2>1, <2>2, <2>3, NamesFinite
<1>2. ASSUME NEW n, Prune(n) PROVE SizeBound'
  <2>1. {m \in live : ~Expired(m, n)} \in SUBSET MsgIds
    BY <1>1
  <2>2. Cardinality(live') <= MaxMessages
    BY <1>2, <2>1, NewestIsBounded DEF Prune
  <2> QED
    BY <1>1, <2>2, BusAssumption DEF SizeBound, Unpruned
<1>3. ASSUME NEW t \in Threads, Moved(t), pc[t] # "postPrune", pc'[t] # "postPrune",
             live' \subseteq live
      PROVE  SizeBound'
  <2>1. Cardinality(live') <= Cardinality(live)
    BY <1>1, <1>3, FS_Subset
  <2> QED
    BY <1>1, <1>3, <2>1, UnprunedKept, BusAssumption DEF SizeBound, Unpruned
<1>4. ASSUME NEW t \in Threads, PostPrune(t) \/ PollPrune(t) \/ ClaimPrune(t) \/ AckPrune(t)
      PROVE  SizeBound'
  BY <1>2, <1>4 DEF PostPrune, PollPrune, ClaimPrune, AckPrune
<1>5. ASSUME NEW t \in Threads, PostAppend(t)
      PROVE  SizeBound'
  <2>1. /\ live' = live \cup {appended'}
        /\ Moved(t) /\ pc[t] = "append" /\ pc'[t] = "postPrune"
    BY <1>1, <1>5 DEF PostAppend, Goto, Moved
  <2>2. Cardinality(live') <= Cardinality(live) + 1
    <3>1. PICK m : m = appended'
      OBVIOUS
    <3>2. Cardinality(live \cup {m}) =
            IF m \in live THEN Cardinality(live) ELSE Cardinality(live) + 1
      BY <1>1, FS_AddElement
    <3> QED
      BY <1>1, <2>1, <3>1, <3>2
  <2>3. Cardinality(Unpruned)' = Cardinality(Unpruned) + 1
    BY <2>1, AtMove DEF Unpruned
  <2> QED
    BY <1>1, <2>2, <2>3, BusAssumption DEF SizeBound, Unpruned
<1>6. ASSUME NEW t \in Threads, NEW s, NEW r, Receive(t, s, r), s # "postPrune"
      PROVE  SizeBound'
  <2>1. Moved(t) /\ pc[t] = "idle" /\ pc'[t] = s /\ live' = live
    BY <1>1, <1>6 DEF Receive, Moved, store
  <2> QED
    BY <1>3, <1>6, <2>1
<1>7. ASSUME NEW t \in Threads, ClaimScan(t) \/ PollRead(t) \/ ClaimReply(t) \/ AckApply(t)
      PROVE  SizeBound'
  <2>1. live' \subseteq live
    BY <1>7 DEF ClaimScan, PollRead, ClaimReply, AckApply, store
  <2>2. Moved(t) /\ pc[t] # "postPrune" /\ pc'[t] # "postPrune"
    BY <1>1, <1>7 DEF ClaimScan, PollRead, ClaimReply, AckApply, Finish, Goto, Moved
  <2> QED
    BY <1>3, <2>1, <2>2
<1>8. CASE Tick \/ UNCHANGED vars
  BY <1>8 DEF Tick, vars, store, SizeBound, At
<1>9. CASE Restart
  BY <1>1, <1>9, FS_EmptySet, BusAssumption DEF Restart, SizeBound, Unpruned
<1> QED
  BY <1>4, <1>5, <1>6, <1>7, <1>8, <1>9
  DEF Next, PostStart, PollStart, ClaimStart, AckStart

\* However many posts are under way, the store exceeds BUS_MAX_MESSAGES by no
\* more than those that have appended and not pruned yet.
THEOREM StoreSizeBounded == Spec => []SizeBound
<1>1. Init => Typed /\ SizeBound
  BY InitTyped, FS_EmptySet, UnprunedType, BusAssumption DEF Init, SizeBound, Unpruned
<1>2. Typed /\ SizeBound /\ [Next]_vars => (Typed /\ SizeBound)'
  BY NextTyped, NextSize
<1> QED
  BY <1>1, <1>2, PTL DEF Spec

-----------------------------------------------------------------------------
(* Why a message leaves the store.                                         *)

\* A prune removes what is expired, by the clock too though its reading may
\* be older, and what had to make room.
LEMMA PruneJustified ==
  ASSUME FInv, NEW n \in 0..clock, Prune(n), NEW m \in live \ live'
  PROVE  JustifiedRemoval(m)
<1> DEFINE S == {i \in live : ~Expired(i, n)}
<1>1. S \in SUBSET MsgIds /\ live' = Newest(S) /\ m \in MsgIds
  BY LeaseFacts DEF FInv, Prune
<1>2. CASE m \in S
  BY <1>1, <1>2, CutMadeRoom DEF JustifiedRemoval
<1>3. CASE m \notin S
  <2>1. msg[m].ts \in Nat /\ msg[m].ttl \in Nat /\ clock \in Nat /\ n \in Nat /\ n <= clock
    <3>1. msg[m] \in Message /\ clock \in Nat
      BY <1>1, LeaseFacts DEF FInv
    <3>2. \A x \in Ttls \cup {NoTtl} : x \in Nat
      BY BusAssumption DEF NoTtl
    <3>3. msg[m].ts \in Nat /\ msg[m].ttl \in Ttls \cup {NoTtl}
      BY <3>1 DEF Message
    <3>4. n \in Nat /\ n <= clock
      BY <3>1
    <3> QED
      BY <3>1, <3>2, <3>3, <3>4
  <2>2. Expired(m, clock)
    BY <1>3, <2>1, BusAssumption DEF Expired
  <2> QED
    BY <2>2 DEF JustifiedRemoval
<1> QED
  BY <1>2, <1>3

\* An ack removes the message of its lease, which was open until then.
LEMMA AckJustified ==
  ASSUME FInv, NEW t \in Threads, AckApply(t), NEW m \in live \ live'
  PROVE  JustifiedRemoval(m)
<1> DEFINE a == arg[t]
<1>1. HoldsLease(a) /\ m = a.msg /\ grants' = [grants EXCEPT ![a.lease].end = "removed"]
  BY DEF AckApply, store
<1>2. /\ m \in MsgIds /\ msg[m].status = "leased" /\ msg[m].lease_id = a.lease
      /\ a.lease \in 1..issued /\ a.lease \in LeaseIds /\ grants[a.lease].msg = m
      /\ grants \in [LeaseIds -> Grant]
  BY <1>1, LeaseFacts DEF FInv, HoldsLease
<1>3. grants[a.lease].end = "open"
  BY <1>2 DEF FInv, RemovalInv, CarriedIsOpen
<1>4. grants'[a.lease].end = "removed"
  BY <1>1, <1>2 DEF Grant
<1> QED
  BY <1>2, <1>3, <1>4 DEF JustifiedRemoval

\* The other steps remove nothing, but for a restart.
LEMMA NextJustified ==
  FInv /\ [Next]_vars => \A m \in live \ live' : JustifiedRemoval(m)
<1> SUFFICES ASSUME FInv, [Next]_vars, NEW m \in live \ live' PROVE JustifiedRemoval(m)
  OBVIOUS
<1>1. \A t \in Threads : now[t] \in 0..clock /\ now[t]..clock \subseteq 0..clock
  BY LeaseFacts DEF FInv, LInv, Typed, TypeOK
<1>2. ASSUME NEW t \in Threads, PostPrune(t) \/ PollPrune(t) \/ ClaimPrune(t) \/ AckPrune(t)
      PROVE  JustifiedRemoval(m)
  BY <1>1, <1>2, PruneJustified DEF PostPrune, PollPrune, ClaimPrune, AckPrune
<1>3. ASSUME NEW t \in Threads, NEW s, NEW r, Receive(t, s, r) PROVE FALSE
  BY <1>3 DEF Receive, store
<1>4. ASSUME NEW t \in Threads, PostAppend(t) \/ PollRead(t) \/ ClaimScan(t) \/ ClaimReply(t)
      PROVE  FALSE
  BY <1>4 DEF PostAppend, PollRead, ClaimScan, ClaimReply, store
<1>5. ~Tick /\ ~UNCHANGED vars
  BY DEF Tick, vars, store
<1>6. CASE Restart
  BY <1>6 DEF JustifiedRemoval
<1> QED
  BY <1>2, <1>3, <1>4, <1>5, <1>6, AckJustified
  DEF Next, PostStart, PollStart, ClaimStart, AckStart

\* No interleaving, stale clock reading or repeated request makes the store
\* lose a message without one of the reasons.
THEOREM RemovalsAreJustified == Spec => RemovalsJustified
<1>1. FInv /\ [Next]_vars => [\A m \in live \ live' : JustifiedRemoval(m)]_vars
  BY NextJustified
<1> QED
  BY <1>1, RemovalInvariant, PTL DEF Spec, RemovalsJustified

-----------------------------------------------------------------------------
(* First deliveries.                                                       *)

\* What is put on a queue may be leased.
QueuedLeasable == \A m \in MsgIds : msg[m].queue # NoQueue => msg[m].status # "published"

\* A claim is for a queue.
ClaimsQueue ==
  \A t \in Threads : pc[t] \in {"claimPrune", "claimScan"} => arg[t].queue \in Queues

\* When a message was leased, all that its queue had before it had been.
NoneSkipped ==
  \A k \in 1..issued, m \in live :
    m < grants[k].msg /\ msg[m].queue = msg[grants[k].msg].queue
      => \E j \in 1..k : grants[j].msg = m

DInv == LInv /\ QueuedLeasable /\ ClaimsQueue /\ NoneSkipped /\ FirstDeliveriesInOrder

\* A step that grants and appends nothing.
LEMMA QuietKeepsOrder ==
  ASSUME DInv, live' \subseteq live, issued' = issued,
         \A l \in LeaseIds : grants'[l].msg = grants[l].msg,
         \A m \in MsgIds : msg'[m].queue = msg[m].queue
                           /\ (msg'[m].status = "published" => msg[m].status = "published")
  PROVE  QueuedLeasable' /\ NoneSkipped' /\ FirstDeliveriesInOrder'
<1>1. /\ \A l \in 1..issued : l \in LeaseIds /\ grants[l].msg \in MsgIds
      /\ live \subseteq MsgIds /\ issued \in Nat
      /\ \A k \in 1..issued : \A j \in 1..k : j \in 1..issued
  <2>1. issued \in Nat
    BY LeaseFacts DEF DInv
  <2>2. \A l \in 1..issued : l \in LeaseIds /\ grants[l].msg \in MsgIds
    BY LeaseFacts, AppendedAreNames DEF DInv, LInv
  <2> QED
    BY <2>1, <2>2, LeaseFacts DEF DInv
<1>2. QueuedLeasable'
  BY DEF DInv, QueuedLeasable
<1>3. NoneSkipped'
  <2> SUFFICES ASSUME NEW k \in 1..issued, NEW m \in live,
                      m < grants[k].msg, msg[m].queue = msg[grants[k].msg].queue
               PROVE  \E j \in 1..k : grants'[j].msg = m
    BY <1>1 DEF NoneSkipped
  <2>1. PICK j \in 1..k : grants[j].msg = m
    BY DEF DInv, NoneSkipped
  <2> QED
    BY <1>1, <2>1
<1>4. FirstDeliveriesInOrder'
  <2> SUFFICES ASSUME NEW k \in 1..issued, NEW l \in 1..issued,
                      k < l, grants[l].msg < grants[k].msg,
                      msg[grants[l].msg].queue = msg[grants[k].msg].queue
               PROVE  \E j \in 1..k : grants'[j].msg = grants'[l].msg
    BY <1>1 DEF FirstDeliveriesInOrder
  <2>1. PICK j \in 1..k : grants[j].msg = grants[l].msg
    BY DEF DInv, FirstDeliveriesInOrder
  <2> QED
    BY <1>1, <2>1
<1> QED
  BY <1>2, <1>3, <1>4

\* The new message comes after all that were leased.
LEMMA AppendKeepsOrder ==
  ASSUME DInv, NEW t \in Threads, PostAppend(t)
  PROVE  QueuedLeasable' /\ NoneSkipped' /\ FirstDeliveriesInOrder'
<1>1. /\ appended' = appended + 1 /\ live' = live \cup {appended'}
      /\ UNCHANGED <<issued, grants>>
      /\ msg' = [msg EXCEPT ![appended'] = NewMessage(arg[t].queue, now[t], arg[t].ttl)]
  BY DEF PostAppend, history
<1>2. /\ msg \in [MsgIds -> Message] /\ appended \in Nat
      /\ live \subseteq 1..appended /\ live \subseteq MsgIds /\ issued \in Nat
      /\ \A l \in 1..issued : grants[l].msg \in 1..appended
      /\ 1..appended \subseteq MsgIds
  BY LeaseFacts, AppendedAreNames DEF DInv, LInv
<1>3. /\ \A m \in MsgIds : m # appended' => msg'[m] = msg[m]
      /\ appended' \in MsgIds =>
           msg'[appended'] = NewMessage(arg[t].queue, now[t], arg[t].ttl)
  BY <1>1, <1>2
<1>4. \A m \in 1..appended : m # appended' /\ m \in MsgIds /\ msg'[m] = msg[m]
  BY <1>1, <1>2, <1>3
<1>5. QueuedLeasable'
  <2>1. NewMessage(arg[t].queue, now[t], arg[t].ttl).queue # NoQueue =>
          NewMessage(arg[t].queue, now[t], arg[t].ttl).status # "published"
    BY DEF NewMessage
  <2> QED
    BY <1>3, <2>1 DEF DInv, QueuedLeasable
<1>6. NoneSkipped'
  <2> SUFFICES ASSUME NEW k \in 1..issued, NEW m \in live',
                      m < grants[k].msg, msg'[m].queue = msg'[grants[k].msg].queue
               PROVE  \E j \in 1..k : grants[j].msg = m
    BY <1>1 DEF NoneSkipped
  <2>1. grants[k].msg \in 1..appended /\ m \in live
    BY <1>1, <1>2
  <2>2. msg[m].queue = msg[grants[k].msg].queue
    BY <1>2, <1>4, <2>1
  <2> QED
    BY <2>1, <2>2 DEF DInv, NoneSkipped
<1>7. FirstDeliveriesInOrder'
  <2> SUFFICES ASSUME NEW k \in 1..issued, NEW l \in 1..issued,
                      k < l, grants[l].msg < grants[k].msg,
                      msg'[grants[l].msg].queue = msg'[grants[k].msg].queue
               PROVE  \E j \in 1..k : grants[j].msg = grants[l].msg
    BY <1>1 DEF FirstDeliveriesInOrder
  <2>1. msg[grants[l].msg].queue = msg[grants[k].msg].queue
    BY <1>2, <1>4
  <2> QED
    BY <2>1 DEF DInv, FirstDeliveriesInOrder
<1> QED
  BY <1>5, <1>6, <1>7

\* The scan takes the first message: those before it were leased when a later
\* one was, and those it passes over are leased now.
LEMMA ScanKeepsOrder ==
  ASSUME DInv, NEW t \in Threads, ClaimScan(t)
  PROVE  QueuedLeasable' /\ NoneSkipped' /\ FirstDeliveriesInOrder'
<1> DEFINE S == Claimable(arg[t].queue, now[t])
           m == First(S)
           until == now[t] + arg[t].span
           w == arg[t].worker
           n == issued'
<1>1. CASE S = {}
  <2>1. UNCHANGED <<live, msg, issued, grants>>
    BY <1>1 DEF ClaimScan, store, history
  <2> QED
    BY <2>1, QuietKeepsOrder
<1>2. CASE S # {}
  <2>1. m \in S /\ m \in live /\ n = issued + 1 /\ n \in LeaseIds /\ \A i \in S : m <= i
    BY <1>2, ClaimScanFacts DEF DInv, LInv
  <2>2. /\ live' = live
        /\ msg' = [msg EXCEPT ![m] = Leased(@, w, until, n)]
        /\ grants' = [grants EXCEPT ![n] =
                        [msg |-> m, worker |-> w, until |-> until, end |-> "open"]]
    BY <1>2 DEF ClaimScan
  <2>3. /\ msg \in [MsgIds -> Message] /\ grants \in [LeaseIds -> Grant]
        /\ live \subseteq 1..appended /\ live \subseteq MsgIds
        /\ appended \in Nat /\ issued \in Nat
        /\ \A l \in 1..issued : l \in LeaseIds /\ grants[l].msg \in 1..appended
        /\ \A i \in MsgIds : msg[i].status = "leased" =>
             /\ msg[i].lease_id \in 1..issued
             /\ grants[msg[i].lease_id].msg = i
        /\ 1..appended \subseteq MsgIds
    BY LeaseFacts, AppendedAreNames DEF DInv, LInv
  <2>4. msg[m].queue = arg[t].queue /\ arg[t].queue # NoQueue
    <3>1. pc[t] = "claimScan"
      BY <1>2 DEF ClaimScan, Goto
    <3>2. arg[t].queue \in Queues
      BY <3>1 DEF DInv, ClaimsQueue
    <3> QED
      BY <2>1, <3>2, BusAssumption DEF Claimable
  <2>5. /\ Leased(msg[m], w, until, n).queue = msg[m].queue
        /\ Leased(msg[m], w, until, n).status = "leased"
    BY <2>1, <2>3 DEF Leased, Message
  <2> HIDE DEF S, m, until, w, n
  <2>6. /\ \A i \in MsgIds : msg'[i].queue = msg[i].queue
        /\ \A i \in MsgIds : msg'[i].status = "published" => msg[i].status = "published"
    BY <2>1, <2>2, <2>3, <2>5
  <2>7. /\ \A l \in 1..issued : grants'[l] = grants[l]
        /\ grants'[n].msg = m
    BY <2>1, <2>2, <2>3
  <2>8. QueuedLeasable'
    BY <2>6 DEF DInv, QueuedLeasable
  <2>9. ASSUME NEW i \in live, i < m, msg[i].queue = msg[m].queue
        PROVE  \E j \in 1..issued : grants[j].msg = i
    <3>1. i \notin S /\ i \in MsgIds
      BY <2>1, <2>3, <2>9
    <3>2. msg[i].status # "pending"
      BY <2>4, <2>9, <3>1 DEF S, Claimable
    <3>3. msg[i].status # "published"
      BY <2>4, <2>9, <3>1 DEF DInv, QueuedLeasable
    <3>4. msg[i].status = "leased"
      BY <2>3, <3>1, <3>2, <3>3 DEF Message
    <3> QED
      BY <2>3, <3>1, <3>4
  <2>10. NoneSkipped'
    <3> SUFFICES ASSUME NEW k \in 1..n, NEW i \in live,
                        i < grants'[k].msg, msg'[i].queue = msg'[grants'[k].msg].queue
                 PROVE  \E j \in 1..k : grants'[j].msg = i
      BY <2>2 DEF NoneSkipped, n
    <3>1. CASE k = n
      <4>1. msg[i].queue = msg[m].queue /\ i < m
        BY <2>1, <2>3, <2>6, <2>7, <3>1
      <4>2. PICK j \in 1..issued : grants[j].msg = i
        BY <2>9, <4>1
      <4> QED
        BY <2>1, <2>3, <2>7, <3>1, <4>2
    <3>2. CASE k # n
      <4>1. k \in 1..issued
        BY <2>1, <2>3, <3>2
      <4>2. i < grants[k].msg /\ msg[i].queue = msg[grants[k].msg].queue
        BY <2>3, <2>6, <2>7, <4>1
      <4>3. PICK j \in 1..k : grants[j].msg = i
        BY <4>1, <4>2 DEF DInv, NoneSkipped
      <4> QED
        BY <2>3, <2>7, <4>1, <4>3
    <3> QED
      BY <3>1, <3>2
  <2>11. FirstDeliveriesInOrder'
    <3> SUFFICES ASSUME NEW k \in 1..n, NEW l \in 1..n,
                        k < l, grants'[l].msg < grants'[k].msg,
                        msg'[grants'[l].msg].queue = msg'[grants'[k].msg].queue
                 PROVE  \E j \in 1..k : grants'[j].msg = grants'[l].msg
      BY DEF FirstDeliveriesInOrder, n
    <3>1. k \in 1..issued /\ grants'[k] = grants[k] /\ grants[k].msg \in MsgIds
      BY <2>1, <2>3, <2>7
    <3>2. CASE l = n
      <4>1. m < grants[k].msg /\ msg[m].queue = msg[grants[k].msg].queue
        BY <2>1, <2>3, <2>6, <2>7, <3>1, <3>2
      <4>2. PICK j \in 1..k : grants[j].msg = m
        BY <2>1, <3>1, <4>1 DEF DInv, NoneSkipped
      <4> QED
        BY <2>3, <2>7, <3>1, <3>2, <4>2
    <3>3. CASE l # n
      <4>1. l \in 1..issued /\ grants'[l] = grants[l] /\ grants[l].msg \in MsgIds
        BY <2>1, <2>3, <2>7, <3>3
      <4>2. PICK j \in 1..k : grants[j].msg = grants[l].msg
        BY <2>6, <3>1, <4>1 DEF DInv, FirstDeliveriesInOrder
      <4> QED
        BY <2>3, <2>7, <3>1, <4>1, <4>2
    <3> QED
      BY <3>2, <3>3
  <2> QED
    BY <2>8, <2>10, <2>11
<1> QED
  BY <1>1, <1>2

\* Every step keeps the order of the deliveries.
LEMMA NextOrder ==
  DInv /\ [Next]_vars => QueuedLeasable' /\ NoneSkipped' /\ FirstDeliveriesInOrder'
<1> SUFFICES ASSUME DInv, [Next]_vars
             PROVE  QueuedLeasable' /\ NoneSkipped' /\ FirstDeliveriesInOrder'
  OBVIOUS
<1> DEFINE Goal == QueuedLeasable' /\ NoneSkipped' /\ FirstDeliveriesInOrder'
<1>1. msg \in [MsgIds -> Message] /\ grants \in [LeaseIds -> Grant] /\ live \subseteq MsgIds
  BY LeaseFacts DEF DInv
<1>2. \A m \in MsgIds : /\ Released(msg[m]).queue = msg[m].queue
                        /\ Released(msg[m]).status = "pending"
  BY <1>1 DEF Released, Message
<1>3. ASSUME NEW n, Prune(n), UNCHANGED history PROVE Goal
  <2>1. live' \subseteq live /\ UNCHANGED <<issued, grants>>
    BY <1>3 DEF Prune, Newest, history
  <2>2. \A m \in MsgIds : msg'[m] = msg[m] \/ msg'[m] = Released(msg[m])
    BY <1>3 DEF Prune
  <2> QED
    BY <1>2, <2>1, <2>2, QuietKeepsOrder
<1>4. ASSUME NEW t \in Threads, PostPrune(t) \/ PollPrune(t) \/ ClaimPrune(t) \/ AckPrune(t)
      PROVE  Goal
  BY <1>3, <1>4 DEF PostPrune, PollPrune, ClaimPrune, AckPrune
<1>5. UNCHANGED <<msg, issued, grants>> /\ live' \subseteq live => Goal
  BY QuietKeepsOrder
<1>6. ASSUME NEW t \in Threads, NEW stage, NEW request, Receive(t, stage, request)
      PROVE  Goal
  BY <1>5, <1>6 DEF Receive, store, history
<1>7. ASSUME NEW t \in Threads, PollRead(t) \/ ClaimReply(t) PROVE Goal
  BY <1>5, <1>7 DEF PollRead, ClaimReply, store, history
<1>8. CASE Tick \/ Restart \/ UNCHANGED vars
  BY <1>5, <1>8 DEF Tick, Restart, store, history, vars
<1>9. ASSUME NEW t \in Threads, AckApply(t) PROVE Goal
  <2> DEFINE a == arg[t]
  <2>1. \/ UNCHANGED <<live, msg, issued, grants>>
        \/ /\ HoldsLease(a) /\ msg' = [msg EXCEPT ![a.msg] = Released(@)]
           /\ grants' = [grants EXCEPT ![a.lease].end = "requeued"]
           /\ UNCHANGED <<live, issued>>
        \/ /\ HoldsLease(a) /\ live' = live \ {a.msg}
           /\ grants' = [grants EXCEPT ![a.lease].end = "removed"]
           /\ UNCHANGED <<msg, issued>>
    BY <1>9 DEF AckApply, store, history
  <2>2. ASSUME NEW x, NEW y, grants' = [grants EXCEPT ![x].end = y]
        PROVE  \A l \in LeaseIds : grants'[l].msg = grants[l].msg
    BY <1>1, <2>2 DEF Grant
  <2>3. HoldsLease(a) => a.msg \in MsgIds
    BY <1>1 DEF HoldsLease
  <2>4. issued' = issued /\ live' \subseteq live
    BY <2>1
  <2>5. \A l \in LeaseIds : grants'[l].msg = grants[l].msg
    <3>1. CASE grants' = grants
      BY <3>1
    <3>2. CASE grants' = [grants EXCEPT ![a.lease].end = "requeued"]
      BY <2>2, <3>2
    <3>3. CASE grants' = [grants EXCEPT ![a.lease].end = "removed"]
      BY <2>2, <3>3
    <3> QED
      BY <2>1, <3>1, <3>2, <3>3
  <2>6. \A m \in MsgIds : msg'[m] = msg[m] \/ msg'[m] = Released(msg[m])
    BY <1>1, <2>1, <2>3
  <2> QED
    BY <1>2, <2>4, <2>5, <2>6, QuietKeepsOrder
<1> QED
  BY <1>4, <1>6, <1>7, <1>8, <1>9, AppendKeepsOrder, ScanKeepsOrder
  DEF Next, PostStart, PollStart, ClaimStart, AckStart

\* Every step keeps the queues of the claims.
LEMMA NextClaims == DInv /\ [Next]_vars => ClaimsQueue'
<1> SUFFICES ASSUME DInv, [Next]_vars PROVE ClaimsQueue'
  OBVIOUS
<1>1. pc \in [Threads -> Stages] /\ arg \in [Threads -> Args]
      /\ \A u \in Threads : pc[u] \in {"claimPrune", "claimScan"} => arg[u].queue \in Queues
  BY DEF DInv, LInv, Typed, TypeOK, ClaimsQueue
<1>2. ASSUME NEW t \in Threads, NEW s, NEW a, Receive(t, s, a),
             s = "claimPrune" => a.queue \in Queues, s # "claimScan"
      PROVE  ClaimsQueue'
  BY <1>1, <1>2 DEF Receive, ClaimsQueue
<1>3. ASSUME NEW t \in Threads, NEW q \in Queues, NEW w \in Workers, NEW span \in Spans,
             ClaimStart(t, q, w, span)
      PROVE  ClaimsQueue'
  <2>1. [NoArgs EXCEPT !.queue = q, !.worker = w, !.span = span].queue = q
    BY DEF NoArgs
  <2> QED
    BY <1>2, <1>3, <2>1 DEF ClaimStart
<1>4. ASSUME NEW t \in Threads, NEW s, pc' = [pc EXCEPT ![t] = s],
             s = "claimScan" => pc[t] = "claimPrune" /\ arg' = arg, s # "claimPrune",
             \A u \in Threads : u # t => arg'[u] = arg[u]
      PROVE  ClaimsQueue'
  BY <1>1, <1>4 DEF ClaimsQueue
<1>5. ASSUME NEW t \in Threads, NEW from, Finish(t, from) PROVE ClaimsQueue'
  BY <1>1, <1>4, <1>5 DEF Finish, Goto
<1>6. ASSUME NEW t \in Threads, PostAppend(t) \/ PollPrune(t) \/ ClaimPrune(t) \/ AckPrune(t)
      PROVE  ClaimsQueue'
  BY <1>4, <1>6 DEF PostAppend, PollPrune, ClaimPrune, AckPrune, Goto
<1>7. ASSUME NEW t \in Threads, ClaimScan(t) PROVE ClaimsQueue'
  <2>1. CASE Finish(t, "claimScan")
    BY <1>5, <2>1
  <2>2. CASE ~Finish(t, "claimScan")
    <3>1. pc' = [pc EXCEPT ![t] = "claimReply"] /\ \A u \in Threads : u # t => arg'[u] = arg[u]
      BY <1>1, <1>7, <2>2 DEF ClaimScan, Goto
    <3> QED
      BY <1>4, <3>1
  <2> QED
    BY <2>1, <2>2
<1>8. UNCHANGED <<pc, arg>> => ClaimsQueue'
  BY <1>1 DEF ClaimsQueue
<1>9. CASE Restart
  BY <1>9 DEF Restart, ClaimsQueue
<1> QED
  BY <1>2, <1>3, <1>5, <1>6, <1>7, <1>8, <1>9
  DEF Next, PostStart, PollStart, AckStart, PostPrune, PollRead, ClaimReply, AckApply,
      Tick, vars

\* Messages of a queue are leased for the first time in the order of their
\* appends, though leases lapse and are requeued meanwhile.
THEOREM DeliveriesAreInOrder == Spec => []FirstDeliveriesInOrder
<1>1. Init => DInv
  <2> SUFFICES ASSUME Init PROVE DInv
    OBVIOUS
  <2>1. LInv /\ issued = 0 /\ \A t \in Threads : pc[t] = "idle"
    BY InitTyped, InitLeaseInv DEF LInv, Init
  <2>2. NewMessage(NoQueue, 0, NoTtl).queue = NoQueue
    BY DEF NewMessage
  <2>3. QueuedLeasable
    BY <2>2 DEF Init, QueuedLeasable
  <2> QED
    BY <2>1, <2>3 DEF DInv, ClaimsQueue, NoneSkipped, FirstDeliveriesInOrder
<1>2. DInv /\ [Next]_vars => DInv'
  BY NextTyped, NextLeaseInv, NextOrder, NextClaims DEF DInv, LInv
<1>3. DInv => FirstDeliveriesInOrder
  BY DEF DInv
<1> QED
  BY <1>1, <1>2, <1>3, PTL DEF Spec

=============================================================================
