-------------------------- MODULE AgentFleetProofs --------------------------
(***************************************************************************)
(* Proofs about AgentFleet, for any number of agents and any lengths of    *)
(* the channel and of its page: a handoff that ends with 0 has terminated  *)
(* what it should have found.                                              *)
(***************************************************************************)
EXTENDS AgentFleet, SequenceTheorems, FiniteSetTheorems, TLAPS

USE FleetAssumption

-----------------------------------------------------------------------------
(* The inductive invariant.                                                *)

\* The agents of this spawn script that were announced.
AnnouncedNow == {batch[i] : i \in 1..announced}

\* Every announcement was on the page, and is there or has left it.
AnnouncementsKnown == printed \cup AnnouncedNow \subseteq ToSet(Page(channel)) \cup unseen

\* What the handoff should find it has found, and does not lose.
NothingForgotten ==
  /\ handoff = "on" => expected \subseteq terminated \cup ids \cup failures
  /\ handoff = "exit 0" => expected \subseteq terminated

FleetInv == TypeOK /\ AnnouncementsKnown /\ NothingForgotten

-----------------------------------------------------------------------------
(* The channel and its page.                                               *)

\* The members of a sequence.
LEMMA Members ==
  ASSUME NEW S, NEW s \in Seq(S)
  PROVE  /\ Len(s) \in Nat /\ ToSet(s) = {s[i] : i \in 1..Len(s)} /\ ToSet(s) \subseteq S
BY ElementOfSeq, LenProperties DEF ToSet

\* A page shows a part of the channel, and the last message always.
LEMMA PageFacts ==
  ASSUME NEW S, NEW c \in Seq(S)
  PROVE  /\ Page(c) \in Seq(S) /\ ToSet(Page(c)) \subseteq ToSet(c)
         /\ c # << >> => c[Len(c)] \in ToSet(Page(c))
<1> DEFINE first == IF Len(c) > PageLimit THEN Len(c) - PageLimit + 1 ELSE 1
<1>1. /\ Len(c) \in Nat /\ first \in Int /\ 1 <= first /\ \A i \in first..Len(c) : c[i] \in S
      /\ (Len(c) > 0 => first <= Len(c))
  BY Members, ElementOfSeq
<1> HIDE DEF first
<1>2. /\ SubSeq(c, first, Len(c)) \in Seq(S)
      /\ Len(SubSeq(c, first, Len(c))) = IF first <= Len(c) THEN Len(c) - first + 1 ELSE 0
      /\ \A i \in 1..Len(c) - first + 1 : SubSeq(c, first, Len(c))[i] = c[first + i - 1]
  BY <1>1, SubSeqProperties
<1>3. Page(c) = SubSeq(c, first, Len(c))
  BY DEF Page, first
<1> DEFINE p == Page(c)
<1>4. /\ p \in Seq(S) /\ Len(p) = (IF first <= Len(c) THEN Len(c) - first + 1 ELSE 0)
      /\ \A i \in 1..Len(c) - first + 1 : p[i] = c[first + i - 1]
  BY <1>2, <1>3
<1> HIDE DEF p
<1>5. ToSet(p) = {p[i] : i \in 1..Len(p)} /\ ToSet(c) = {c[i] : i \in 1..Len(c)}
  BY <1>4, Members
<1>6. ASSUME NEW i \in 1..Len(p) PROVE p[i] \in ToSet(c)
  <2>1. first + i - 1 \in 1..Len(c) /\ p[i] = c[first + i - 1]
    BY <1>1, <1>4
  <2> QED
    BY <1>5, <2>1
<1>7. ASSUME c # << >> PROVE c[Len(c)] \in ToSet(p)
  <2>1. Len(c) > 0
    BY <1>1, <1>7, EmptySeq
  <2>2. Len(p) \in 1..Len(p) /\ p[Len(p)] = c[Len(c)]
    BY <1>1, <1>4, <2>1
  <2> QED
    BY <1>5, <2>2
<1> QED
  BY <1>4, <1>5, <1>6, <1>7 DEF p

\* No agent is called as the messages of others are.
LEMMA ChatterIsNoAgent == Chatter \notin Agents
<1>1. Chatter \notin Nat
  BY DEF Chatter
<1> QED
  BY <1>1

\* The agents that are announced were created.
LEMMA AnnouncedAreCreated ==
  ASSUME TypeOK
  PROVE  AnnouncedNow \cup printed \subseteq created /\ Chatter \notin created
<1>1. Chatter \notin created
  BY ChatterIsNoAgent DEF TypeOK
<1>2. AnnouncedNow \subseteq created
  <2>1. batch \in Seq(created) /\ announced \in 0..Len(batch) /\ Len(batch) \in Nat
    BY Members DEF TypeOK
  <2>2. \A i \in 1..announced : i \in 1..Len(batch)
    BY <2>1
  <2> QED
    BY <2>1, <2>2, ElementOfSeq DEF AnnouncedNow
<1> QED
  BY <1>1, <1>2 DEF TypeOK

\* Whatever the change of the channel, what was announced is on its page or has
\* left it.
LEMMA ChannelKeeps ==
  ASSUME FleetInv, NEW c, Channel(c)
  PROVE  /\ AnnouncedNow \cup printed \subseteq ToSet(Page(channel)') \cup unseen'
         /\ unseen' \subseteq created
<1>1. /\ channel \in Seq(created \cup {Chatter}) /\ unseen \subseteq created
      /\ AnnouncedNow \cup printed \subseteq ToSet(Page(channel)) \cup unseen
  BY DEF FleetInv, TypeOK, AnnouncementsKnown
<1>2. /\ ToSet(Page(channel)) \subseteq ToSet(channel)
      /\ ToSet(channel) \subseteq created \cup {Chatter}
  BY <1>1, PageFacts, Members
<1>3. /\ Page(channel)' = Page(c)
      /\ unseen' = unseen \cup (ToSet(channel) \ (ToSet(Page(c)) \cup {Chatter}))
  BY DEF Channel, Page
<1>4. AnnouncedNow \cup printed \subseteq created /\ Chatter \notin created
  BY AnnouncedAreCreated DEF FleetInv
<1> QED
  BY <1>1, <1>2, <1>3, <1>4

\* A message that is put comes last, and the page shows it.
LEMMA PutFacts ==
  ASSUME FleetInv, NEW m \in created \cup {Chatter}, Put(m)
  PROVE  /\ \E c : Channel(c)
         /\ channel' \in Seq(created \cup {Chatter}) /\ Len(channel') <= MaxLength
         /\ m \in ToSet(Page(channel)')
<1> DEFINE S == created \cup {Chatter}
           rest == IF Len(channel) < MaxLength THEN channel ELSE Tail(channel)
<1>1. channel \in Seq(S) /\ Len(channel) \in Nat /\ Len(channel) <= MaxLength
  BY Members DEF FleetInv, TypeOK
<1>2. rest \in Seq(S) /\ Len(rest) \in Nat /\ Len(rest) < MaxLength
  <2>1. CASE Len(channel) < MaxLength
    BY <1>1, <2>1
  <2>2. CASE ~(Len(channel) < MaxLength)
    <3>1. channel # << >>
      BY <1>1, <2>2
    <3>2. Tail(channel) \in Seq(S) /\ Len(Tail(channel)) = Len(channel) - 1
      BY <1>1, <3>1, HeadTailProperties
    <3> QED
      BY <1>1, <2>2, <3>1, <3>2
  <2> QED
    BY <2>1, <2>2
<1>3. Channel(Append(rest, m)) /\ channel' = Append(rest, m)
  BY DEF Put, Channel
<1> HIDE DEF rest
<1>4. /\ channel' \in Seq(S) /\ channel' # << >> /\ Len(channel') = Len(rest) + 1
      /\ channel'[Len(channel')] = m
  BY <1>2, <1>3, AppendProperties
<1>5. m \in ToSet(Page(channel'))
  BY <1>4, PageFacts
<1> QED
  BY <1>2, <1>3, <1>4, <1>5 DEF Page

-----------------------------------------------------------------------------
(* The steps.                                                              *)

\* A change of the channel alone.
LEMMA BusStep ==
  ASSUME FleetInv, OtherMessage \/ Expire \/ BusRestart
  PROVE  FleetInv'
<1> USE DEF OtherMessage, Expire, BusRestart, fleet, spawn, hand
<1>1. /\ \E c : Channel(c)
      /\ channel' \in Seq(created \cup {Chatter}) /\ Len(channel') <= MaxLength
  <2>1. CASE OtherMessage
    BY <2>1, PutFacts
  <2>2. CASE Expire
    <3>0. channel \in Seq(created \cup {Chatter})
      BY DEF FleetInv, TypeOK
    <3>1. channel \in Seq(created \cup {Chatter}) /\ Len(channel) \in Nat
      BY <3>0, LenProperties
    <3>2. /\ Tail(channel) \in Seq(created \cup {Chatter})
          /\ Len(Tail(channel)) = Len(channel) - 1
      BY <2>2, <3>1, HeadTailProperties
    <3>3. channel' = Tail(channel) /\ Channel(Tail(channel)) /\ Len(channel) <= MaxLength
      BY <2>2 DEF Channel, FleetInv, TypeOK
    <3> QED
      BY <3>1, <3>2, <3>3
  <2>3. CASE BusRestart
    BY <2>3, EmptySeq DEF Channel
  <2> QED
    BY <2>1, <2>2, <2>3
<1>2. UNCHANGED <<created, terminated, spawn, hand>>
  OBVIOUS
<1>3. AnnouncedNow' = AnnouncedNow
  BY <1>2 DEF AnnouncedNow
<1>4. AnnouncementsKnown' /\ unseen' \subseteq created
  BY <1>1, <1>2, <1>3, ChannelKeeps DEF AnnouncementsKnown
<1>5. TypeOK'
  BY <1>1, <1>2, <1>4 DEF FleetInv, TypeOK
<1> QED
  BY <1>2, <1>4, <1>5 DEF FleetInv, NothingForgotten

\* The spawn script starts, creates an agent, or has created them all.
LEMMA CreateStep ==
  ASSUME FleetInv,
         \/ \E n \in 1..Cardinality(Agents) : SpawnStart(n)
         \/ \E a \in Agents : Create(a)
         \/ Created
  PROVE  FleetInv'
<1> USE DEF fleet, hand
<1>1. /\ Cardinality(Agents) \in Nat /\ created \subseteq Agents
      /\ left \in 0..Cardinality(Agents)
  BY FS_CardinalityType DEF FleetInv, TypeOK
<1>2. /\ created \subseteq created' /\ created' \subseteq Agents
      /\ UNCHANGED <<terminated, channel, unseen, hand, announced, printed, orphans>>
      /\ spawner' \in {"create", "announce"} /\ left' \in 0..Cardinality(Agents)
  <2>1. ASSUME NEW n \in 1..Cardinality(Agents), SpawnStart(n)
        PROVE  UNCHANGED created /\ left' \in 0..Cardinality(Agents) /\ spawner' = "create"
    BY <1>1, <2>1 DEF SpawnStart
  <2>2. ASSUME NEW a \in Agents, Create(a)
        PROVE  created' = created \cup {a} /\ left' \in 0..Cardinality(Agents)
               /\ UNCHANGED spawner /\ spawner = "create"
    BY <1>1, <2>2 DEF Create
  <2>3. ASSUME Created
        PROVE  UNCHANGED <<created, left>> /\ spawner' = "announce"
    BY <2>3 DEF Created
  <2>4. UNCHANGED <<terminated, channel, unseen, hand, announced, printed, orphans>>
    BY DEF SpawnStart, Create, Created
  <2> QED
    BY <1>1, <2>1, <2>2, <2>3, <2>4
<1>3. /\ batch \in Seq(created) /\ batch \in Seq(created') /\ Len(batch) \in Nat
      /\ channel \in Seq(created' \cup {Chatter})
  <2>1. batch \in Seq(created) /\ channel \in Seq(created \cup {Chatter})
    BY DEF FleetInv, TypeOK
  <2> QED
    BY <1>2, <2>1, SeqMonotonic, Members
<1>4. /\ batch' \in Seq(created') /\ Len(batch') \in Nat /\ Len(batch) <= Len(batch')
      /\ \A i \in 1..Len(batch) : batch'[i] = batch[i]
  <2>1. CASE UNCHANGED batch
    BY <1>3, <2>1
  <2>2. ASSUME NEW a \in Agents, Create(a) PROVE batch' = Append(batch, a) /\ a \in created'
    BY <2>2 DEF Create
  <2>3. CASE \E a \in Agents : Create(a)
    <3>1. PICK a : a \in created' /\ batch' = Append(batch, a)
      BY <2>2, <2>3
    <3> QED
      BY <1>3, <3>1, AppendProperties
  <2> QED
    BY <2>1, <2>3 DEF SpawnStart, Created
<1>5. AnnouncedNow' = AnnouncedNow
  <2>1. announced \in 0..Len(batch) /\ announced' = announced
    BY <1>2 DEF FleetInv, TypeOK
  <2>2. \A i \in 1..announced : batch'[i] = batch[i]
    BY <1>3, <1>4, <2>1
  <2> QED
    BY <2>1, <2>2 DEF AnnouncedNow
<1>6. AnnouncementsKnown'
  <2>1. Page(channel)' = Page(channel) /\ printed' = printed /\ unseen' = unseen
    BY <1>2 DEF Page
  <2> QED
    BY <1>5, <2>1 DEF FleetInv, AnnouncementsKnown
<1>7. TypeOK'
  <2>1. /\ created' \subseteq Agents /\ terminated' \subseteq created'
        /\ channel' \in Seq(created' \cup {Chatter}) /\ Len(channel') <= MaxLength
    BY <1>2, <1>3 DEF FleetInv, TypeOK
  <2>2. batch' \in Seq(created') /\ announced' \in 0..Len(batch')
    <3>1. announced' = announced /\ announced \in 0..Len(batch)
      BY <1>2 DEF FleetInv, TypeOK
    <3> QED
      BY <1>3, <1>4, <3>1
  <2>3. /\ ids' \cup failures' \subseteq created' \cup {NoAgent} /\ ids' \cap failures' = {}
        /\ handoff' \in {"on", "exit 0", "exit 1", "exit 2", "died"}
        /\ printed' \cup orphans' \cup unseen' \cup expected' \subseteq created'
    BY <1>2 DEF FleetInv, TypeOK
  <2> QED
    BY <1>2, <2>1, <2>2, <2>3 DEF TypeOK
<1> QED
  BY <1>2, <1>6, <1>7 DEF FleetInv, NothingForgotten

\* An agent is announced.
LEMMA AnnounceStep ==
  ASSUME FleetInv, Announce
  PROVE  FleetInv'
<1> DEFINE m == batch[announced + 1]
<1>1. /\ announced < Len(batch) /\ Put(m) /\ announced' = announced + 1
      /\ UNCHANGED <<created, terminated, hand, spawner, left, batch, printed, orphans>>
  BY DEF Announce, Posted, fleet
<1>2. /\ batch \in Seq(created) /\ announced \in Nat /\ Len(batch) \in Nat
      /\ announced + 1 \in 1..Len(batch) /\ announced' \in 0..Len(batch)
  <2>1. batch \in Seq(created) /\ announced \in 0..Len(batch)
    BY DEF FleetInv, TypeOK
  <2>2. Len(batch) \in Nat
    BY <2>1, Members
  <2> QED
    BY <1>1, <2>1, <2>2
<1>3. m \in created
  BY <1>2, ElementOfSeq
<1>4. /\ \E c : Channel(c)
      /\ channel' \in Seq(created \cup {Chatter}) /\ Len(channel') <= MaxLength
      /\ m \in ToSet(Page(channel)')
  BY <1>1, <1>3, PutFacts
<1>5. AnnouncedNow' = AnnouncedNow \cup {m}
  BY <1>1, <1>2 DEF AnnouncedNow
<1> HIDE DEF m
<1>6. /\ AnnouncedNow \cup printed \subseteq ToSet(Page(channel)') \cup unseen'
      /\ unseen' \subseteq created
  BY <1>4, ChannelKeeps
<1>7. AnnouncementsKnown'
  BY <1>1, <1>4, <1>5, <1>6 DEF AnnouncementsKnown
<1>8. TypeOK'
  BY <1>1, <1>2, <1>4, <1>6 DEF FleetInv, TypeOK, hand
<1> QED
  BY <1>1, <1>7, <1>8 DEF FleetInv, NothingForgotten, hand

\* The spawn script has announced all it created, and ends.
LEMMA SpawnEndStep ==
  ASSUME FleetInv, SpawnEnd
  PROVE  FleetInv'
<1>1. /\ announced = Len(batch) /\ announced' = 0 /\ batch' = << >>
      /\ spawner' = "off" /\ left' = 0 /\ printed' = printed \cup ToSet(batch)
      /\ UNCHANGED <<created, terminated, channel, unseen, orphans>> /\ UNCHANGED hand
  BY DEF SpawnEnd, SpawnOff, fleet
<1>2. batch \in Seq(created) /\ ToSet(batch) = AnnouncedNow /\ ToSet(batch) \subseteq created
  <2>1. batch \in Seq(created)
    BY DEF FleetInv, TypeOK
  <2> QED
    BY <1>1, <2>1, Members DEF AnnouncedNow
<1>3. AnnouncedNow' = {}
  BY <1>1 DEF AnnouncedNow
<1>4. AnnouncementsKnown'
  <2>1. Page(channel)' = Page(channel)
    BY <1>1 DEF Page
  <2> QED
    BY <1>1, <1>2, <1>3, <2>1 DEF FleetInv, AnnouncementsKnown
<1>5. TypeOK'
  <2>1. /\ batch' \in Seq(created') /\ announced' \in 0..Len(batch')
        /\ left' \in 0..Cardinality(Agents)
    BY <1>1, EmptySeq, FS_CardinalityType
  <2> QED
    BY <1>1, <1>2, <2>1 DEF FleetInv, TypeOK, hand
<1> QED
  BY <1>1, <1>4, <1>5 DEF FleetInv, NothingForgotten, hand

\* The spawn script dies.
LEMMA SpawnDiesStep ==
  ASSUME FleetInv, SpawnDies
  PROVE  FleetInv'
<1>1. /\ announced' = 0 /\ batch' = << >> /\ spawner' = "off" /\ left' = 0
      /\ UNCHANGED <<terminated, printed>> /\ UNCHANGED hand
  BY DEF SpawnDies, SpawnOff
<1>2. /\ batch \in Seq(created) /\ Len(batch) \in Nat /\ announced \in 0..Len(batch)
      /\ ToSet(batch) \subseteq created /\ \A i \in 1..Len(batch) : batch[i] \in created
  BY Members, ElementOfSeq DEF FleetInv, TypeOK
<1>3. AnnouncedNow' = {}
  BY <1>1 DEF AnnouncedNow
<1>4. /\ created \subseteq created' /\ created' \subseteq Agents
      /\ channel' \in Seq(created' \cup {Chatter}) /\ Len(channel') <= MaxLength
      /\ orphans' \cup unseen' \subseteq created'
      /\ printed \subseteq ToSet(Page(channel)') \cup unseen'
  <2>1. /\ created \subseteq Agents /\ orphans \cup unseen \subseteq created
        /\ channel \in Seq(created \cup {Chatter}) /\ Len(channel) <= MaxLength
        /\ printed \subseteq ToSet(Page(channel)) \cup unseen
    BY DEF FleetInv, TypeOK, AnnouncementsKnown
  <2>2. CASE /\ UNCHANGED <<created, channel, unseen>>
             /\ orphans' = orphans \cup {batch[i] : i \in announced + 1..Len(batch)}
    <3>1. {batch[i] : i \in announced + 1..Len(batch)} \subseteq created
      BY <1>2
    <3>2. Page(channel)' = Page(channel)
      BY <2>2 DEF Page
    <3> QED
      BY <2>1, <2>2, <3>1, <3>2
  <2>3. ASSUME NEW a \in Agents, UNCHANGED <<channel, unseen>>, created' = created \cup {a},
               orphans' = orphans \cup ToSet(batch) \cup {a}
        PROVE  /\ channel' \in Seq(created' \cup {Chatter})
               /\ orphans' \cup unseen' \subseteq created' /\ Page(channel)' = Page(channel)
    BY <1>2, <2>1, <2>3, SeqMonotonic DEF Page
  <2>4. CASE \E a \in Agents : /\ UNCHANGED <<channel, unseen>> /\ created' = created \cup {a}
                               /\ orphans' = orphans \cup ToSet(batch) \cup {a}
    BY <2>1, <2>3, <2>4
  <2>5. CASE /\ announced < Len(batch) /\ Put(batch[announced + 1]) /\ UNCHANGED created
             /\ orphans' = orphans \cup {batch[i] : i \in announced + 2..Len(batch)}
    <3>1. /\ {batch[i] : i \in announced + 2..Len(batch)} \subseteq created
          /\ batch[announced + 1] \in created
      BY <1>2, <2>5
    <3>2. /\ \E c : Channel(c)
          /\ channel' \in Seq(created \cup {Chatter}) /\ Len(channel') <= MaxLength
      BY <2>5, <3>1, PutFacts
    <3>3. printed \subseteq ToSet(Page(channel)') \cup unseen' /\ unseen' \subseteq created
      BY <3>2, ChannelKeeps
    <3> QED
      BY <2>1, <2>5, <3>1, <3>2, <3>3
  <2> QED
    BY <2>2, <2>4, <2>5 DEF SpawnDies
<1>5. AnnouncementsKnown'
  BY <1>1, <1>3, <1>4 DEF AnnouncementsKnown
<1>6. TypeOK'
  <2>1. /\ batch' \in Seq(created') /\ announced' \in 0..Len(batch')
        /\ left' \in 0..Cardinality(Agents)
    BY <1>1, EmptySeq, FS_CardinalityType
  <2> QED
    BY <1>1, <1>4, <2>1 DEF FleetInv, TypeOK, hand
<1> QED
  BY <1>1, <1>5, <1>6 DEF FleetInv, NothingForgotten, hand

\* What the handoff does leaves the channel and the spawn script alone.
LEMMA HandoffKeeps ==
  ASSUME FleetInv, UNCHANGED <<created, channel, unseen, spawn>>,
         terminated' \subseteq created, ids' \cup failures' \subseteq created \cup {NoAgent},
         ids' \cap failures' = {}, expected' \subseteq created,
         handoff' \in {"on", "exit 0", "exit 1", "exit 2", "died"}, NothingForgotten'
  PROVE  FleetInv'
<1>1. AnnouncementsKnown'
  BY DEF FleetInv, AnnouncementsKnown, AnnouncedNow, Page, spawn
<1>2. TypeOK'
  BY DEF FleetInv, TypeOK, spawn
<1> QED
  BY <1>1, <1>2 DEF FleetInv

\* The handoff collects ids.
LEMMA HandoffStartStep ==
  ASSUME FleetInv, NEW args \in SUBSET created, NEW file \in SUBSET created,
         NEW bus \in BOOLEAN, HandoffStart(args, file, bus)
  PROVE  FleetInv'
<1> DEFINE listed == IF bus THEN ToSet(Page(channel)) ELSE {}
           found == args \cup Parsed(file \cup listed)
<1>1. /\ ids' = found /\ failures' = {} /\ handoff' = (IF found = {} THEN "exit 2" ELSE "on")
      /\ expected' = args \cup (Readable \cap (file \cup IF bus THEN printed \ unseen ELSE {}))
      /\ UNCHANGED <<created, terminated, channel, unseen, spawn>>
  BY DEF HandoffStart, fleet
<1>2. /\ printed \subseteq created /\ terminated \subseteq created
      /\ printed \subseteq ToSet(Page(channel)) \cup unseen
  BY DEF FleetInv, TypeOK, AnnouncementsKnown
<1>3. \A a \in Parsed(file \cup listed) : a \in created \cup {NoAgent}
  <2>1. Readable \cap listed \subseteq created
    <3>1. channel \in Seq(created \cup {Chatter})
      BY DEF FleetInv, TypeOK
    <3>2. ToSet(Page(channel)) \subseteq created \cup {Chatter}
      BY <3>1, PageFacts, Members
    <3>3. Chatter \notin Readable
      BY ChatterIsNoAgent
    <3> QED
      BY <3>2, <3>3
  <2> QED
    BY <2>1 DEF Parsed
<1>4. expected' \subseteq found
  BY <1>1, <1>2 DEF Parsed
<1>5. NothingForgotten'
  BY <1>1, <1>4 DEF NothingForgotten
<1>6. expected' \subseteq created
  BY <1>1, <1>2
<1> QED
  BY <1>1, <1>2, <1>3, <1>5, <1>6, HandoffKeeps

\* The handoff deletes an agent, or tries to.
LEMMA DeleteStep ==
  ASSUME FleetInv, NEW i, Delete(i)
  PROVE  FleetInv'
<1>1. /\ handoff = "on" /\ handoff' = "on" /\ i \in ids /\ ids' = ids \ {i} /\ expected' = expected
      /\ UNCHANGED <<created, channel, unseen, spawn>>
      /\ \/ i \in created /\ terminated' = terminated \cup {i} /\ failures' = failures
         \/ /\ terminated' \in {terminated, terminated \cup ({i} \cap created)}
            /\ failures' = failures \cup {i}
  BY DEF Delete, Rest, Deleted, Failed
<1>2. /\ terminated \subseteq created /\ ids \cup failures \subseteq created \cup {NoAgent}
      /\ ids \cap failures = {} /\ expected \subseteq created
  BY DEF FleetInv, TypeOK
<1>3. NothingForgotten'
  BY <1>1 DEF FleetInv, NothingForgotten
<1> QED
  BY <1>1, <1>2, <1>3, HandoffKeeps

\* The handoff ends, or dies.
LEMMA HandoffEndStep ==
  ASSUME FleetInv, HandoffEnd \/ HandoffDies
  PROVE  FleetInv'
<1>1. CASE HandoffEnd
  BY <1>1, HandoffKeeps DEF HandoffEnd, fleet, FleetInv, TypeOK, NothingForgotten
<1>2. CASE HandoffDies
  BY <1>2, HandoffKeeps DEF HandoffDies, fleet, FleetInv, TypeOK, NothingForgotten
<1> QED
  BY <1>1, <1>2

\* The invariant holds from the start...
LEMMA InitFleet == Init => FleetInv
<1> SUFFICES ASSUME Init PROVE FleetInv
  OBVIOUS
<1>1. channel \in Seq(created \cup {Chatter}) /\ batch \in Seq(created)
  BY EmptySeq DEF Init
<1>2. Len(channel) = 0 /\ Len(batch) = 0
  BY EmptySeq DEF Init
<1>3. Len(channel) <= MaxLength /\ announced \in 0..Len(batch) /\ left \in 0..Cardinality(Agents)
  <2>1. Cardinality(Agents) \in Nat /\ announced = 0 /\ left = 0
    BY FS_CardinalityType DEF Init
  <2> QED
    BY <1>2, <2>1
<1>4. TypeOK
  BY <1>1, <1>3 DEF Init, TypeOK
<1>5. AnnouncedNow = {}
  <2>1. announced = 0
    BY DEF Init
  <2> QED
    BY <2>1 DEF AnnouncedNow
<1> QED
  BY <1>4, <1>5 DEF Init, FleetInv, AnnouncementsKnown, NothingForgotten

\* ... and each step keeps it.
LEMMA NextFleet == FleetInv /\ [Next]_vars => FleetInv'
<1> SUFFICES ASSUME FleetInv, [Next]_vars PROVE FleetInv'
  OBVIOUS
<1>1. CASE UNCHANGED vars
  BY <1>1, HandoffKeeps DEF vars, fleet, spawn, hand, FleetInv, TypeOK, NothingForgotten
<1>2. CASE Next
  BY <1>2, BusStep, CreateStep, AnnounceStep, SpawnEndStep, SpawnDiesStep,
     HandoffStartStep, DeleteStep, HandoffEndStep DEF Next, SpawnNext, HandoffNext
<1> QED
  BY <1>1, <1>2

-----------------------------------------------------------------------------
(* The theorems.                                                           *)

\* The invariant of the scripts holds in every behaviour.
THEOREM FleetInvariant == Spec => []FleetInv
BY InitFleet, NextFleet, PTL DEF Spec

\* The scripts know only agents that were created, and what is no agent's id.
THEOREM FleetTypes == Spec => []TypeOK
<1>1. FleetInv => TypeOK
  BY DEF FleetInv
<1> QED
  BY FleetInvariant, <1>1, PTL

\* When handoff-terminate-agents.py ends with 0, it has terminated all it was
\* told, and all that spawn scripts printed before and the page still showed.
THEOREM HandoffsAreComplete == Spec => []HandoffIsComplete
<1>1. FleetInv => HandoffIsComplete
  BY DEF FleetInv, NothingForgotten, HandoffIsComplete
<1> QED
  BY FleetInvariant, <1>1, PTL

=============================================================================
