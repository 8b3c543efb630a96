---------------------------- MODULE PollViewProofs ----------------------------
(***************************************************************************)
(* Proofs about PollView, for any channels, limits and numbers of messages:*)
(* only the limit hides messages from a client that polls with since_id.   *)
(***************************************************************************)
EXTENDS PollView, FiniteSetTheorems, WellFoundedInduction, TLAPS

USE PollAssumption

-----------------------------------------------------------------------------
(* The inductive invariant.                                                *)

\* Of what the client has received, what is still there is visible to it, and
\* its cursor has passed it: whatever the limit, a reply ends with the last of
\* the messages that the client may see.
CursorIsLast ==
  \A m \in seen \cap live : m \in Visible(live) /\ m <= cursor

PollInv == TypeOK /\ CursorIsLast /\ MissedOnlyWhenFull

-----------------------------------------------------------------------------
(* The slices.                                                             *)

\* A set of numbers that is not empty, and has no number above n, has a last one.
LEMMA LastOne ==
  ASSUME NEW n \in Nat, NEW S \in SUBSET (1..n), S # {}
  PROVE  \E m \in S : \A j \in S : j <= m
<1> DEFINE Less == {p \in Nat \X Nat : p[1] < p[2]}
           R == {n - j : j \in S}
<1>1. IsWellFoundedOn(Less, Nat)
  BY NatLessThanWellFounded, Zenon DEF OpToRel
<1>2. \A x, y \in Nat : x < y => <<x, y>> \in Less
  <2> SUFFICES ASSUME NEW x \in Nat, NEW y \in Nat, x < y
               PROVE  <<x, y>> \in Nat \X Nat /\ <<x, y>>[1] < <<x, y>>[2]
    OBVIOUS
  <2> QED
    OBVIOUS
<1> HIDE DEF Less
<1>3. R \in SUBSET Nat /\ R # {} /\ \A j \in S : j \in Nat /\ j <= n
  <2>1. \A j \in S : j \in Nat /\ j <= n /\ n - j \in Nat
    OBVIOUS
  <2> QED
    BY <2>1
<1>4. PICK r \in R : \A x \in R : <<x, r>> \notin Less
  BY <1>1, <1>3, WFMin
<1>5. \A x \in R : r <= x
  <2> TAKE x \in R
  <2>1. x \in Nat /\ r \in Nat
    BY <1>3
  <2>2. ~(x < r)
    BY <1>2, <1>4, <2>1, Zenon
  <2> QED
    BY <2>1, <2>2
<1>6. PICK m \in S : r = n - m
  OBVIOUS
<1>7. \A j \in S : n - m <= n - j
  BY <1>5, <1>6
<1> QED
  BY <1>3, <1>7

\* A set of such numbers is finite.
LEMMA Finite ==
  ASSUME NEW n \in Nat, NEW S \in SUBSET (1..n)
  PROVE  IsFiniteSet(S) /\ Cardinality(S) \in Nat
<1>1. IsFiniteSet(1..n)
  BY FS_Interval
<1> QED
  BY <1>1, FS_Subset, FS_CardinalityType

\* A slice keeps the messages at the end of the list.
LEMMA SliceIsEnd ==
  ASSUME NEW n \in Nat, NEW S \in SUBSET (1..n), NEW k \in Int,
         NEW m \in Slice(S, k), NEW j \in S, m <= j
  PROVE  j \in Slice(S, k)
<1> DEFINE Up(x) == {i \in S : i >= x}
           Down(x) == {i \in S : i <= x}
<1>1. m \in S /\ \A i \in S : i \in Int
  BY DEF Slice
<1>a. \A i \in S : (i >= j => i >= m) /\ (i <= m => i <= j)
  BY <1>1
<1>2. /\ Up(j) \subseteq Up(m) /\ Down(m) \subseteq Down(j)
      /\ Up(m) \in SUBSET (1..n) /\ Up(j) \in SUBSET (1..n)
      /\ Down(m) \in SUBSET (1..n) /\ Down(j) \in SUBSET (1..n)
  BY <1>a
<1>3. /\ IsFiniteSet(Up(m)) /\ Cardinality(Up(m)) \in Nat /\ Cardinality(Up(j)) \in Nat
      /\ IsFiniteSet(Down(j)) /\ Cardinality(Down(m)) \in Nat /\ Cardinality(Down(j)) \in Nat
  BY <1>2, Finite
<1>4. Cardinality(Up(j)) <= Cardinality(Up(m)) /\ Cardinality(Down(m)) <= Cardinality(Down(j))
  BY <1>2, <1>3, FS_Subset
<1>5. CASE k > 0
  BY <1>3, <1>4, <1>5 DEF Slice
<1>6. CASE ~(k > 0)
  BY <1>3, <1>4, <1>6 DEF Slice
<1> QED
  BY <1>5, <1>6

\* A slice that is shorter than its length is all of the list.
LEMMA ShortIsAll ==
  ASSUME NEW n \in Nat, NEW S \in SUBSET (1..n), NEW k \in Nat \ {0},
         Cardinality(Slice(S, k)) < k
  PROVE  Slice(S, k) = S
<1> DEFINE N == Slice(S, k)
           T == S \ N
<1>1. N = {m \in S : Cardinality({j \in S : j >= m}) <= k}
  BY DEF Slice
<1>2. SUFFICES ASSUME T # {} PROVE FALSE
  BY <1>1
<1>3. PICK x \in T : \A j \in T : j <= x
  <2>1. T \in SUBSET (1..n)
    OBVIOUS
  <2> QED
    BY <1>2, <2>1, LastOne
<1> DEFINE U == {j \in S : j >= x}
<1>4. /\ x \in U /\ U \in SUBSET (1..n) /\ IsFiniteSet(U) /\ Cardinality(U) \in Nat
      /\ N \in SUBSET (1..n) /\ IsFiniteSet(N) /\ Cardinality(N) \in Nat
  <2>1. x \in U /\ U \in SUBSET (1..n) /\ N \in SUBSET (1..n)
    BY <1>1, <1>3
  <2> QED
    BY <2>1, Finite
<1>5. ~(Cardinality(U) <= k)
  BY <1>1, <1>3
<1>6. IsFiniteSet(U \ {x}) /\ Cardinality(U \ {x}) = Cardinality(U) - 1
  BY <1>4, FS_RemoveElement
<1>7. U \ {x} \subseteq N
  <2> SUFFICES ASSUME NEW j \in U, j # x PROVE j \in N
    OBVIOUS
  <2>1. j \in S /\ j \in Int /\ x \in Int /\ j > x
    BY <1>3
  <2> QED
    BY <1>3, <2>1
<1>8. Cardinality(U \ {x}) <= Cardinality(N)
  BY <1>4, <1>6, <1>7, FS_Subset
<1> QED
  BY <1>4, <1>5, <1>6, <1>8

\* The slice [-0:] is all of the list.
LEMMA ZeroIsAll ==
  ASSUME NEW n \in Nat, NEW S \in SUBSET (1..n), NEW k \in Int, k = 0
  PROVE  Slice(S, k) = S
<1>1. ASSUME NEW m \in S PROVE Cardinality({j \in S : j <= m}) > 0
  <2> DEFINE D == {j \in S : j <= m}
  <2>1. D \in SUBSET (1..n) /\ m \in Int /\ m \in D
    <3>1. m \in Int
      OBVIOUS
    <3>2. m <= m
      BY <3>1
    <3> QED
      BY <3>1, <3>2
  <2>2. IsFiniteSet(D) /\ Cardinality(D) \in Nat
    BY <2>1, Finite
  <2>3. Cardinality(D) # 0
    BY <2>1, <2>2, FS_EmptySet
  <2> QED
    BY <2>2, <2>3
<1>2. Slice(S, k) = {m \in S : Cardinality({j \in S : j <= m}) > -k}
  BY DEF Slice
<1>3. ASSUME NEW c \in Nat, c > 0 PROVE c > -k
  <2>1. k <= 0
    OBVIOUS
  <2> QED
    BY <1>3, <2>1
<1>4. ASSUME NEW m \in S PROVE Cardinality({j \in S : j <= m}) > -k
  <2> DEFINE D == {j \in S : j <= m}
  <2>1. D \in SUBSET (1..n)
    OBVIOUS
  <2>2. Cardinality(D) \in Nat
    BY <2>1, Finite
  <2> QED
    BY <1>1, <1>3, <2>2
<1> QED
  BY <1>2, <1>4

-----------------------------------------------------------------------------
(* The replies.                                                            *)

\* What a reply to the client holds: messages it may see, and of those that
\* come after since_id the last ones; all of them, if the reply is not full.
LEMMA ReplyFacts ==
  ASSUME TypeOK, NEW limit \in Int
  PROVE  LET S == After(Visible(live), cursor)
             r == Reply(cursor, limit)
             isFull == limit # 0 /\ Cardinality(r) >= Capped(limit)
         IN  /\ r \subseteq S /\ S \subseteq Visible(live) /\ Visible(live) \subseteq live
             /\ S \in SUBSET (1..appended) /\ r \in SUBSET (1..appended)
             /\ \A m \in r, j \in S : m <= j => j \in r
             /\ isFull \/ r = S
<1> DEFINE S == After(Visible(live), cursor)
           r == Reply(cursor, limit)
<1>1. /\ S \subseteq Visible(live) /\ Visible(live) \subseteq live /\ live \in SUBSET (1..appended)
      /\ appended \in Nat /\ Capped(limit) \in Int
  BY DEF TypeOK, After, Visible, Capped
<1>2. S \in SUBSET (1..appended)
  BY <1>1
<1>3. r = Slice(S, Capped(limit)) /\ r \subseteq S
  BY DEF Reply, Slice
<1> HIDE DEF S, r
<1>4. \A m \in r, j \in S : m <= j => j \in r
  BY <1>1, <1>2, <1>3, SliceIsEnd
<1>5. ASSUME ~(limit # 0 /\ Cardinality(r) >= Capped(limit)) PROVE r = S
  <2>1. CASE limit = 0
    <3>1. Capped(limit) = 0
      BY <2>1 DEF Capped
    <3> QED
      BY <1>1, <1>2, <1>3, <3>1, ZeroIsAll
  <2>2. CASE limit # 0
    <3>1. Cardinality(r) \in Nat
      BY <1>1, <1>2, <1>3, Finite
    <3>2. Cardinality(r) < Capped(limit) /\ Capped(limit) \in Nat \ {0}
      BY <1>1, <1>5, <2>2, <3>1
    <3> QED
      BY <1>1, <1>2, <1>3, <3>2, ShortIsAll
  <2> QED
    BY <2>1, <2>2
<1> QED
  BY <1>1, <1>2, <1>3, <1>4, <1>5 DEF S, r

-----------------------------------------------------------------------------
(* The steps.                                                              *)

\* A new message comes after the cursor.
LEMMA AppendView ==
  ASSUME PollInv, NEW k \in Kinds, Append(k)
  PROVE  PollInv'
<1> USE DEF PollInv, Append
<1>1. /\ appended \in Nat /\ appended' \in 0..MsgBound /\ appended' = appended + 1
      /\ 1..appended' = (1..appended) \cup {appended'} /\ appended' \notin 1..appended
  BY DEF TypeOK
<1>2. \A m \in 1..appended : kind'[m] = kind[m]
  BY <1>1
<1>3. TypeOK'
  <2>1. kind' \in [1..appended' -> Kinds]
    BY <1>1 DEF TypeOK
  <2> QED
    BY <1>1, <2>1 DEF TypeOK
<1>4. appended' \notin seen /\ ~(appended' <= cursor) /\ cursor \in Int
  BY <1>1 DEF TypeOK, NoMsg
<1>5. \A m \in live : m \in Visible(live)' <=> m \in Visible(live)
  BY <1>2 DEF Visible, TypeOK
<1>6. CursorIsLast'
  BY <1>4, <1>5 DEF CursorIsLast
<1>7. MissedOnlyWhenFull'
  BY <1>4, <1>5 DEF MissedOnlyWhenFull, Passed, Visible
<1> QED
  BY <1>3, <1>6, <1>7

\* A message that leaves the store takes nothing else with it.
LEMMA DropView ==
  ASSUME PollInv, NEW m \in live, Drop(m)
  PROVE  PollInv'
<1> USE DEF PollInv, Drop
<1>1. TypeOK'
  BY DEF TypeOK
<1>2. \A j \in live' : j \in live /\ (j \in Visible(live)' <=> j \in Visible(live))
  BY DEF Visible
<1>3. CursorIsLast'
  BY <1>2 DEF CursorIsLast
<1>4. MissedOnlyWhenFull'
  BY <1>2 DEF MissedOnlyWhenFull, Passed, Visible
<1> QED
  BY <1>1, <1>3, <1>4

\* A poll.
LEMMA PollReply ==
  ASSUME PollInv, NEW limit \in Limits, Poll(limit)
  PROVE  PollInv'
<1> DEFINE S == After(Visible(live), cursor)
           r == Reply(cursor, limit)
           isFull == limit # 0 /\ Cardinality(r) >= Capped(limit)
<1>1. /\ r \subseteq S /\ S \subseteq Visible(live) /\ Visible(live) \subseteq live
      /\ S \in SUBSET (1..appended) /\ r \in SUBSET (1..appended)
      /\ \A m \in r, j \in S : m <= j => j \in r
      /\ isFull \/ r = S
  BY ReplyFacts DEF PollInv
<1>2. /\ seen' = seen \cup r /\ (full' <=> full \/ isFull)
      /\ cursor' = IF r = {} THEN cursor ELSE CHOOSE m \in r : \A j \in r : j <= m
      /\ UNCHANGED <<kind, appended, live, filter>>
  BY DEF Poll, PollInv, TypeOK
<1> HIDE DEF r, isFull
<1>3. appended \in Nat /\ live \in SUBSET (1..appended) /\ cursor \in Int
  BY DEF PollInv, TypeOK, NoMsg
<1>4. r # {} => cursor' \in r /\ \A j \in r : j <= cursor'
  <2>1. r # {} => \E m \in r : \A j \in r : j <= m
    BY <1>1, <1>3, LastOne
  <2> QED
    BY <1>2, <2>1
<1>5. TypeOK'
  <2>1. cursor' \in {NoMsg} \cup seen'
    BY <1>2, <1>4 DEF PollInv, TypeOK
  <2>2. full' \in BOOLEAN
    BY DEF Poll, PollInv, TypeOK
  <2> QED
    BY <1>1, <1>2, <2>1, <2>2 DEF PollInv, TypeOK
<1>6. Visible(live)' = Visible(live)
  BY <1>2 DEF Visible
<1>7. \A m \in Visible(live) : m \in Int /\ (m \in S <=> (cursor \in Visible(live) => m > cursor))
  BY <1>1, <1>3 DEF After
<1> HIDE DEF S
\* The reply ends with the last visible message.
<1>8. ASSUME r # {} PROVE cursor' \in Int /\ \A m \in Visible(live) : m <= cursor'
  <2>1. cursor' \in r /\ cursor' \in Int /\ cursor' \in S /\ cursor' \in Visible(live)
    BY <1>1, <1>4, <1>7, <1>8
  <2> SUFFICES ASSUME NEW m \in Visible(live), m > cursor' PROVE FALSE
    BY <1>7, <2>1
  <2>2. m \in S
    BY <1>3, <1>7, <2>1
  <2>3. m \in r
    BY <1>1, <1>7, <2>1, <2>2
  <2> QED
    BY <1>4, <1>7, <2>1, <2>3
<1>9. CursorIsLast'
  <2> SUFFICES ASSUME NEW m \in seen' \cap live'
               PROVE  m \in Visible(live) /\ m <= cursor'
    BY <1>6 DEF CursorIsLast
  <2>1. m \in Visible(live)
    BY <1>1, <1>2 DEF PollInv, CursorIsLast
  <2>2. CASE r = {}
    BY <1>2, <2>1, <2>2 DEF PollInv, CursorIsLast
  <2>3. CASE r # {}
    BY <1>8, <2>1, <2>3
  <2> QED
    BY <2>1, <2>2, <2>3
<1>10. MissedOnlyWhenFull'
  <2> SUFFICES ASSUME ~full', NEW m \in Visible(live), m <= cursor'
               PROVE  m \in seen \cup r
    BY <1>2, <1>6 DEF MissedOnlyWhenFull, Passed
  <2>1. ~full /\ r = S
    BY <1>1, <1>2
  <2>2. CASE m \in S
    BY <2>1, <2>2
  <2>3. CASE m \notin S
    <3>1. m <= cursor
      BY <1>3, <1>7, <2>3
    <3> QED
      BY <2>1, <3>1 DEF PollInv, MissedOnlyWhenFull, Passed
  <2> QED
    BY <2>2, <2>3
<1> QED
  BY <1>5, <1>9, <1>10 DEF PollInv

\* The invariant holds from the start...
LEMMA InitView == Init => PollInv
<1> SUFFICES ASSUME Init PROVE PollInv
  OBVIOUS
<1>1. kind \in [1..appended -> Kinds]
  BY DEF Init
<1>a. appended \in 0..MsgBound
  BY DEF Init
<1>2. /\ live \subseteq 1..appended /\ seen \subseteq 1..appended
      /\ filter \in [channel : Channels \cup {AnyChannel}, queued : BOOLEAN]
      /\ cursor \in {NoMsg} \cup seen /\ full \in BOOLEAN
  BY DEF Init
<1>3. TypeOK
  BY <1>1, <1>a, <1>2 DEF TypeOK
<1> QED
  BY <1>3 DEF Init, PollInv, CursorIsLast, MissedOnlyWhenFull, Passed, Visible

\* ... and each step keeps it.
LEMMA NextView == PollInv /\ [Next]_vars => PollInv'
<1> SUFFICES ASSUME PollInv, [Next]_vars PROVE PollInv'
  OBVIOUS
<1>1. CASE UNCHANGED vars
  BY <1>1 DEF vars, PollInv, TypeOK, CursorIsLast, MissedOnlyWhenFull, Passed, Visible
<1>2. CASE Next
  BY <1>2, AppendView, DropView, PollReply DEF Next
<1> QED
  BY <1>1, <1>2

-----------------------------------------------------------------------------
(* The theorems.                                                           *)

\* The invariant of the view holds in every behaviour.
THEOREM ViewInvariant == Spec => []PollInv
BY InitView, NextView, PTL DEF Spec

\* The cursor is one of the messages received, and those are ones that were
\* appended.
THEOREM ViewTypes == Spec => []TypeOK
<1>1. PollInv => TypeOK
  BY DEF PollInv
<1> QED
  BY ViewInvariant, <1>1, PTL

\* A client that never got a full reply has all that its cursor has passed and
\* the store still has, whatever was dropped between its polls (_bus_list).
THEOREM OnlyTheLimitHides == Spec => []MissedOnlyWhenFull
<1>1. PollInv => MissedOnlyWhenFull
  BY DEF PollInv
<1> QED
  BY ViewInvariant, <1>1, PTL

\* As long as the store has the message of the cursor, a client gets nothing
\* again (the scan for since_id in _bus_list).
THEOREM NothingIsReread == Spec => RereadsOnlyWithoutCursor
<1>1. ASSUME PollInv
      PROVE  [\A limit \in Limits :
                Poll(limit) /\ cursor \in live =>
                  \A m \in Reply(cursor, limit) : m > cursor /\ m \notin seen]_vars
  <2> SUFFICES ASSUME NEW limit \in Limits, cursor \in live,
                      NEW m \in Reply(cursor, limit)
               PROVE  m > cursor /\ m \notin seen
    OBVIOUS
  <2>1. m \in After(Visible(live), cursor) /\ m \in live
    BY <1>1, ReplyFacts DEF PollInv
  <2>2. cursor \in Visible(live)
    BY <1>1 DEF PollInv, TypeOK, CursorIsLast, NoMsg
  <2>3. m > cursor
    BY <2>1, <2>2 DEF After
  <2>4. m \in Int /\ cursor \in Int
    BY <1>1, <2>1 DEF PollInv, TypeOK, NoMsg
  <2> QED
    BY <1>1, <2>1, <2>3, <2>4 DEF PollInv, CursorIsLast
<1> QED
  BY ViewInvariant, <1>1, PTL DEF RereadsOnlyWithoutCursor

=============================================================================
