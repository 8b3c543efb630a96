------------------------------ MODULE WorkLease ------------------------------
(***************************************************************************)
(* What the leased queues of server.py promise, without clock, threads or  *)
(* locks: work is submitted, granted to one worker under a lease, and      *)
(* comes back when the lease lapses or is returned; it may be dropped at   *)
(* any time (retention, a restart), and no lease outlives its work.        *)
(* MessageBus implements this module, and so does ResponseRace.            *)
(***************************************************************************)
EXTENDS Naturals

CONSTANTS Items, Leases, Workers

NoItem == 0
NoLease == 0
NotGranted == [item |-> NoItem, worker |-> "nobody"]

VARIABLES
  stage,     \* where each item is in its life
  lease,     \* the lease recorded at each item
  owner,     \* what each lease was granted on, and to whom
  returned,  \* the leases given back by their workers
  lapsed     \* the leases whose time is over

vars == <<stage, lease, owner, returned, lapsed>>

Granted == {l \in Leases : owner[l] # NotGranted}

TypeOK ==
  /\ stage \in [Items -> {"absent", "available", "leased", "gone"}]
  /\ lease \in [Items -> Leases \cup {NoLease}]
  /\ owner \in [Leases -> [item : Items, worker : Workers] \cup {NotGranted}]
  /\ returned \subseteq Leases
  /\ lapsed \subseteq Leases

Init ==
  /\ stage = [i \in Items |-> "absent"]
  /\ lease = [i \in Items |-> NoLease]
  /\ owner = [l \in Leases |-> NotGranted]
  /\ returned = {}
  /\ lapsed = {}

Lapsed(i) == stage[i] = "leased" /\ lease[i] \in lapsed

Submit(i) ==
  /\ stage[i] = "absent"
  /\ stage' = [stage EXCEPT ![i] = "available"]
  /\ UNCHANGED <<lease, owner, returned, lapsed>>

\* A lease may be over when it is granted: its time runs from the arrival of
\* the claim, not from the grant.
Grant(i, l, w) ==
  /\ stage[i] = "available" \/ Lapsed(i)
  /\ owner[l] = NotGranted
  /\ stage' = [stage EXCEPT ![i] = "leased"]
  /\ lease' = [lease EXCEPT ![i] = l]
  /\ owner' = [owner EXCEPT ![l] = [item |-> i, worker |-> w]]
  /\ lapsed' \in {lapsed, lapsed \cup {l}}
  /\ UNCHANGED returned

\* Time passes.
Lapse(L) ==
  /\ lapsed' = lapsed \cup L
  /\ UNCHANGED <<stage, lease, owner, returned>>

\* Work whose lease has lapsed is released, and any work may be dropped.
Sweep(R, D) ==
  /\ \A i \in R : Lapsed(i)
  /\ stage' = [i \in Items |-> IF i \in D THEN "gone"
                               ELSE IF i \in R THEN "available" ELSE stage[i]]
  /\ lease' = [i \in Items |-> IF i \in R THEN NoLease ELSE lease[i]]
  /\ UNCHANGED <<owner, returned, lapsed>>

Holds(l, w) ==
  /\ owner[l].worker = w
  /\ stage[owner[l].item] = "leased"
  /\ lease[owner[l].item] = l

Requeue(l, w) ==
  /\ Holds(l, w)
  /\ stage' = [stage EXCEPT ![owner[l].item] = "available"]
  /\ lease' = [lease EXCEPT ![owner[l].item] = NoLease]
  /\ returned' = returned \cup {l}
  /\ UNCHANGED <<owner, lapsed>>

Remove(l, w) ==
  /\ Holds(l, w)
  /\ stage' = [stage EXCEPT ![owner[l].item] = "gone"]
  /\ returned' = returned \cup {l}
  /\ UNCHANGED <<lease, owner, lapsed>>

Present == {i \in Items : stage[i] \in {"available", "leased"}}

Next ==
  \/ \E i \in Items : Submit(i)
  \/ \E i \in Items, l \in Leases, w \in Workers : Grant(i, l, w)
  \/ \E L \in SUBSET Granted : Lapse(L)
  \/ \E R, D \in SUBSET Present : Sweep(R, D)
  \/ \E l \in Granted, w \in Workers : Requeue(l, w) \/ Remove(l, w)

Spec == Init /\ [][Next]_vars

-----------------------------------------------------------------------------

\* Of two leases granted on the same item, one is over: two workers never
\* both own a piece of work.
Running(l) == l \in Granted \ (returned \cup lapsed)

Exclusion ==
  \A l1, l2 \in Leases :
    Running(l1) /\ Running(l2) /\ owner[l1].item = owner[l2].item => l1 = l2

\* A lease that still runs is the one its item carries, and unless the item was
\* dropped its worker may return it: no other worker's lapsed, late or repeated
\* return interferes.
RunningIsRecorded ==
  \A l \in Leases :
    Running(l) =>
      /\ lease[owner[l].item] = l
      /\ stage[owner[l].item] \in {"leased", "gone"}

=============================================================================
