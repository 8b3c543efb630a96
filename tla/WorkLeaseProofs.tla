--------------------------- MODULE WorkLeaseProofs ---------------------------
(* The abstract leases exclude each other, for any items, leases and workers. *)
EXTENDS WorkLease, TLAPS

\* The inductive invariant: no conjunct of it is inductive without the other.
LeaseInvariant == TypeOK /\ RunningIsRecorded

-----------------------------------------------------------------------------

\* A granted lease has an item and a worker.
LEMMA GrantedHasItem ==
  ASSUME TypeOK, NEW l \in Granted
  PROVE  owner[l] \in [item : Items, worker : Workers]
BY DEF TypeOK, Granted

\* Submitting work touches no lease: the item had none that runs.
LEMMA SubmitStep ==
  ASSUME LeaseInvariant, NEW i \in Items, Submit(i)
  PROVE  LeaseInvariant'
<1>1. TypeOK'
  BY DEF LeaseInvariant, TypeOK, Submit
<1>2. RunningIsRecorded'
  <2> SUFFICES ASSUME NEW l \in Leases, Running(l)'
               PROVE  /\ lease'[owner'[l].item] = l
                      /\ stage'[owner'[l].item] \in {"leased", "gone"}
    BY DEF RunningIsRecorded
  <2>1. Running(l) /\ owner'[l] = owner[l]
    BY DEF Submit, Running, Granted
  <2>2. lease[owner[l].item] = l /\ stage[owner[l].item] \in {"leased", "gone"}
    BY <2>1 DEF LeaseInvariant, RunningIsRecorded
  <2>3. owner[l].item # i
    BY <2>2 DEF Submit
  <2> QED
    BY <2>1, <2>2, <2>3 DEF Submit, LeaseInvariant, TypeOK
<1> QED
  BY <1>1, <1>2 DEF LeaseInvariant

\* A grant takes only work whose lease, if it has one, has lapsed.
LEMMA GrantStep ==
  ASSUME LeaseInvariant, NEW i \in Items, NEW k \in Leases, NEW w \in Workers,
         Grant(i, k, w)
  PROVE  LeaseInvariant'
<1>1. TypeOK'
  BY DEF LeaseInvariant, TypeOK, Grant
<1>2. RunningIsRecorded'
  <2> SUFFICES ASSUME NEW l \in Leases, Running(l)'
               PROVE  /\ lease'[owner'[l].item] = l
                      /\ stage'[owner'[l].item] \in {"leased", "gone"}
    BY DEF RunningIsRecorded
  <2>1. CASE l = k
    BY <2>1 DEF Grant, LeaseInvariant, TypeOK
  <2>2. CASE l # k
    <3>1. Running(l) /\ owner'[l] = owner[l]
      BY <2>2 DEF Grant, Running, Granted, LeaseInvariant, TypeOK
    <3>2. lease[owner[l].item] = l /\ stage[owner[l].item] \in {"leased", "gone"}
      BY <3>1 DEF LeaseInvariant, RunningIsRecorded
    <3>3. owner[l].item # i
      BY <3>1, <3>2 DEF Grant, Lapsed, Running
    <3> QED
      BY <3>1, <3>2, <3>3 DEF Grant, LeaseInvariant, TypeOK
  <2> QED
    BY <2>1, <2>2
<1> QED
  BY <1>1, <1>2 DEF LeaseInvariant

\* Time and sweeps only end leases.
LEMMA LapseStep ==
  ASSUME LeaseInvariant, NEW L \in SUBSET Granted, Lapse(L)
  PROVE  LeaseInvariant'
<1>1. TypeOK'
  BY DEF LeaseInvariant, TypeOK, Lapse, Granted
<1>2. RunningIsRecorded'
  BY DEF LeaseInvariant, RunningIsRecorded, Running, Granted, Lapse
<1> QED
  BY <1>1, <1>2 DEF LeaseInvariant

\* A sweep releases what has lapsed, and drops what it likes.
LEMMA SweepStep ==
  ASSUME LeaseInvariant, NEW R \in SUBSET Present, NEW D \in SUBSET Present, Sweep(R, D)
  PROVE  LeaseInvariant'
<1>1. TypeOK'
  BY DEF LeaseInvariant, TypeOK, Sweep
<1>2. RunningIsRecorded'
  <2> SUFFICES ASSUME NEW l \in Leases, Running(l)'
               PROVE  /\ lease'[owner'[l].item] = l
                      /\ stage'[owner'[l].item] \in {"leased", "gone"}
    BY DEF RunningIsRecorded
  <2>1. Running(l) /\ owner'[l] = owner[l]
    BY DEF Sweep, Running, Granted
  <2>2. lease[owner[l].item] = l /\ stage[owner[l].item] \in {"leased", "gone"}
    BY <2>1 DEF LeaseInvariant, RunningIsRecorded
  <2>3. owner[l].item \in Items /\ owner[l].item \notin R
    BY <2>1, <2>2, GrantedHasItem DEF LeaseInvariant, Running, Sweep, Lapsed
  <2> QED
    BY <2>1, <2>2, <2>3 DEF Sweep
<1> QED
  BY <1>1, <1>2 DEF LeaseInvariant

\* What a return changes is the item of the lease that is returned, and no
\* other lease runs on it.
LEMMA ReturnStep ==
  ASSUME LeaseInvariant, NEW k \in Granted, NEW w \in Workers,
         Requeue(k, w) \/ Remove(k, w)
  PROVE  LeaseInvariant'
<1>1. owner[k].item \in Items /\ k \in Leases
  BY GrantedHasItem DEF LeaseInvariant, Granted
<1>2. TypeOK'
  BY <1>1 DEF LeaseInvariant, TypeOK, Requeue, Remove
<1>3. RunningIsRecorded'
  <2> SUFFICES ASSUME NEW l \in Leases, Running(l)'
               PROVE  /\ lease'[owner'[l].item] = l
                      /\ stage'[owner'[l].item] \in {"leased", "gone"}
    BY DEF RunningIsRecorded
  <2>1. Running(l) /\ owner'[l] = owner[l] /\ l # k
    BY DEF Requeue, Remove, Running, Granted
  <2>2. lease[owner[l].item] = l /\ stage[owner[l].item] \in {"leased", "gone"}
    BY <2>1 DEF LeaseInvariant, RunningIsRecorded
  <2>3. owner[l].item # owner[k].item
    BY <2>1, <2>2 DEF Requeue, Remove, Holds
  <2>4. owner[l].item \in Items
    BY <2>1, GrantedHasItem DEF LeaseInvariant, Running
  <2>5. lease'[owner[l].item] = lease[owner[l].item]
        /\ stage'[owner[l].item] = stage[owner[l].item]
    BY <2>3, <2>4, <1>1 DEF Requeue, Remove, LeaseInvariant, TypeOK
  <2> QED
    BY <2>1, <2>2, <2>5
<1> QED
  BY <1>2, <1>3 DEF LeaseInvariant

\* Every step keeps the invariant.
LEMMA NextLease == LeaseInvariant /\ [Next]_vars => LeaseInvariant'
<1> SUFFICES ASSUME LeaseInvariant, [Next]_vars PROVE LeaseInvariant'
  OBVIOUS
<1>1. CASE Next
  BY <1>1, SubmitStep, GrantStep, LapseStep, SweepStep, ReturnStep DEF Next
<1>2. CASE UNCHANGED vars
  BY <1>2 DEF vars, LeaseInvariant, TypeOK, RunningIsRecorded, Running, Granted
<1> QED
  BY <1>1, <1>2

\* The invariant holds in every behaviour.
THEOREM LeaseInvariantHolds == Spec => []LeaseInvariant
<1>1. Init => LeaseInvariant
  BY DEF Init, LeaseInvariant, TypeOK, RunningIsRecorded, Running, Granted
<1> QED
  BY <1>1, NextLease, PTL DEF Spec

\* Every abstract state is well typed.
THEOREM LeaseTypes == Spec => []TypeOK
<1>1. LeaseInvariant => TypeOK
  BY DEF LeaseInvariant
<1> QED
  BY <1>1, LeaseInvariantHolds, PTL

\* A lease that runs is the one its item carries, so its worker may return it
\* (the checks of _ack_queue_message).
THEOREM RunningLeaseRecorded == Spec => []RunningIsRecorded
<1>1. LeaseInvariant => RunningIsRecorded
  BY DEF LeaseInvariant
<1> QED
  BY <1>1, LeaseInvariantHolds, PTL

\* Two leases never run on the same piece of work.
THEOREM LeasesAreExclusive == Spec => []Exclusion
<1>1. LeaseInvariant => Exclusion
  BY DEF LeaseInvariant, RunningIsRecorded, Exclusion
<1> QED
  BY <1>1, LeaseInvariantHolds, PTL

=============================================================================
