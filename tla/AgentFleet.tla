----------------------------- MODULE AgentFleet -----------------------------
(***************************************************************************)
(* The agent fleet scripts and the channel of the bus between them:        *)
(* spawn-cursor-agents.py creates agents at the Cursor service and then    *)
(* announces them, handoff-terminate-agents.py collects ids and deletes    *)
(* the agents.  The two may run at the same time, and again and again.     *)
(* Every call to the service or the bus may fail before or after it had    *)
(* its effect, and a script may be stopped anywhere.                       *)
(*                                                                         *)
(* The channel is what a poll may show: others write to it too, old        *)
(* messages are dropped, and a restart of the bus drops all.               *)
(***************************************************************************)
EXTENDS Integers, FiniteSets, SequencesExt

CONSTANTS
  Agents,     \* what the service may create, each named by the place of its id
              \* in the order of the ids
  Readable,   \* those whose id is as ID_RE wants it
  Cut,        \* those whose id is longer, so that ID_RE finds a part of it
  PageLimit,  \* limit=200 of the poll
  MaxLength   \* BUS_MAX_MESSAGES

\* What ID_RE finds in a longer id, where no agent is (that it comes first in
\* the order of the ids is the worst case); and a message of another sender.
NoAgent == 0
Chatter == -1

ASSUME FleetAssumption ==
  /\ Agents \subseteq Nat \ {0}
  /\ IsFiniteSet(Agents)
  /\ Readable \subseteq Agents
  /\ Cut \subseteq Agents \ Readable
  /\ PageLimit \in Nat \ {0}
  /\ MaxLength \in Nat \ {0}

VARIABLES
  created,     \* the agents that the service created
  terminated,  \* those of them that it deleted
  channel,     \* the messages of the channel, announcements and others
  spawner,     \* what the spawn script does: "create", "announce", or it is "off"
  left,        \* how many agents it has still to create
  batch,       \* those it has created
  announced,   \* how many of them it has announced
  ids,         \* the ids that the handoff script has still to delete
  failures,    \* those whose deletion failed
  handoff,     \* "on", or how the handoff script ended: an exit code, or it "died"
  printed,     \* history: the agents of spawn scripts that ended well
  orphans,     \* history: those of scripts that died before they announced them
  unseen,      \* history: those whose announcement a poll no longer shows
  expected     \* history: those that this handoff should have found

fleet == <<created, terminated>>
spawn == <<spawner, left, batch, announced, printed, orphans>>
hand == <<ids, failures, handoff, expected>>
vars == <<fleet, channel, unseen, spawn, hand>>

Page(c) == SubSeq(c, IF Len(c) > PageLimit THEN Len(c) - PageLimit + 1 ELSE 1, Len(c))

TypeOK ==
  /\ created \subseteq Agents
  /\ terminated \subseteq created
  /\ channel \in Seq(created \cup {Chatter}) /\ Len(channel) <= MaxLength
  /\ spawner \in {"create", "announce", "off"} /\ left \in 0..Cardinality(Agents)
  /\ batch \in Seq(created) /\ announced \in 0..Len(batch)
  /\ ids \cup failures \subseteq created \cup {NoAgent} /\ ids \cap failures = {}
  /\ handoff \in {"on", "exit 0", "exit 1", "exit 2", "died"}
  /\ printed \cup orphans \cup unseen \cup expected \subseteq created

Init ==
  /\ created = {} /\ terminated = {}
  /\ channel = << >> /\ unseen = {}
  /\ spawner = "off" /\ left = 0 /\ batch = << >> /\ announced = 0
  /\ printed = {} /\ orphans = {}
  /\ ids = {} /\ failures = {} /\ handoff = "exit 0" /\ expected = {}

-----------------------------------------------------------------------------
(* The bus.                                                                *)

\* The channel becomes c.
Channel(c) ==
  /\ channel' = c
  /\ unseen' = unseen \cup (ToSet(channel) \ (ToSet(Page(c)) \cup {Chatter}))

\* The oldest message makes room.
Put(m) ==
  Channel(IF Len(channel) < MaxLength THEN Append(channel, m)
          ELSE Append(Tail(channel), m))

OtherMessage ==
  /\ Put(Chatter)
  /\ UNCHANGED <<fleet, spawn, hand>>

Expire ==
  /\ channel # << >>
  /\ Channel(Tail(channel))
  /\ UNCHANGED <<fleet, spawn, hand>>

BusRestart ==
  /\ Channel(<< >>)
  /\ UNCHANGED <<fleet, spawn, hand>>

-----------------------------------------------------------------------------
(* spawn-cursor-agents.py                                                  *)

SpawnStart(n) ==
  /\ spawner = "off"
  /\ spawner' = "create" /\ left' = n
  /\ UNCHANGED <<fleet, channel, unseen, hand, batch, announced, printed, orphans>>

\* One agent more.
Create(a) ==
  /\ spawner = "create" /\ left > 0
  /\ a \in Agents \ created
  /\ created' = created \cup {a}
  /\ batch' = Append(batch, a)
  /\ left' = left - 1
  /\ UNCHANGED <<terminated, channel, unseen, hand, spawner, announced, printed, orphans>>

Created ==
  /\ spawner = "create" /\ left = 0
  /\ spawner' = "announce"
  /\ UNCHANGED <<fleet, channel, unseen, hand, left, batch, announced, printed, orphans>>

\* Mutant: a post that fails does not end the script.
PostedOrNot(m) == Put(m) \/ UNCHANGED <<channel, unseen>>

Posted(m) == Put(m)

Announce ==
  /\ spawner = "announce" /\ announced < Len(batch)
  /\ Posted(batch[announced + 1])
  /\ announced' = announced + 1
  /\ UNCHANGED <<fleet, hand, spawner, left, batch, printed, orphans>>

SpawnOff == spawner' = "off" /\ left' = 0 /\ batch' = << >> /\ announced' = 0

SpawnEnd ==
  /\ spawner = "announce" /\ announced = Len(batch)
  /\ SpawnOff
  /\ printed' = printed \cup ToSet(batch)
  /\ UNCHANGED <<fleet, channel, unseen, hand, orphans>>

\* The script dies before a call had its effect, or of a call that had it.
SpawnDies ==
  /\ spawner # "off"
  /\ SpawnOff
  /\ \/ /\ UNCHANGED <<created, channel, unseen>>
        /\ orphans' = orphans \cup {batch[i] : i \in announced + 1..Len(batch)}
     \/ /\ spawner = "create" /\ left > 0
        /\ \E a \in Agents \ created :
             /\ created' = created \cup {a}
             /\ orphans' = orphans \cup ToSet(batch) \cup {a}
        /\ UNCHANGED <<channel, unseen>>
     \/ /\ spawner = "announce" /\ announced < Len(batch)
        /\ Put(batch[announced + 1])
        /\ orphans' = orphans \cup {batch[i] : i \in announced + 2..Len(batch)}
        /\ UNCHANGED created
  /\ UNCHANGED <<terminated, hand, printed>>

-----------------------------------------------------------------------------
(* handoff-terminate-agents.py                                             *)

\* _parse_ids on the text of the ids of S.
Parsed(S) == (S \cap Readable) \cup {NoAgent : a \in S \cap Cut}

\* The ids of --agent-ids are taken as they are, those of a file and of the
\* channel are parsed.
HandoffStart(args, file, bus) ==
  LET found == args \cup Parsed(file \cup IF bus THEN ToSet(Page(channel)) ELSE {})
  IN  /\ handoff # "on"
      /\ ids' = found
      /\ failures' = {}
      /\ handoff' = IF found = {} THEN "exit 2" ELSE "on"
      /\ expected' = args \cup (Readable \cap (file \cup IF bus THEN printed \ unseen ELSE {}))
      /\ UNCHANGED <<fleet, channel, unseen, spawn>>

\* The service deletes the agent if there is one; the call may fail all the
\* same, and may succeed if the agent was deleted before.
Deleted(i) ==
  /\ terminated' = terminated \cup {i}
  /\ UNCHANGED failures

Failed(i) ==
  /\ terminated' \in {terminated, terminated \cup ({i} \cap created)}
  /\ failures' = failures \cup {i}

\* Mutant: the first failure ends the loop.
RestIfWell(i) == ids' = IF failures' = failures THEN ids \ {i} ELSE {}

\* Mutant: what failed is tried again.
RestAndFailed(i) == ids' = IF failures' = failures THEN ids \ {i} ELSE ids

\* The loop goes on.
Rest(i) == ids' = ids \ {i}

\* The next id in order.
Delete(i) ==
  /\ handoff = "on"
  /\ i \in ids /\ \A k \in ids : i <= k
  /\ \/ i \in created /\ Deleted(i)
     \/ Failed(i)
  /\ Rest(i)
  /\ UNCHANGED <<created, channel, unseen, spawn, handoff, expected>>

HandoffEnd ==
  /\ handoff = "on" /\ ids = {}
  /\ handoff' = IF failures = {} THEN "exit 0" ELSE "exit 1"
  /\ failures' = {}
  /\ UNCHANGED <<fleet, channel, unseen, spawn, ids, expected>>

\* (A poll that fails ends the script before it has done anything.)
HandoffDies ==
  /\ handoff = "on"
  /\ handoff' = "died"
  /\ ids' = {} /\ failures' = {} /\ expected' = {}
  /\ UNCHANGED <<fleet, channel, unseen, spawn>>

SpawnNext ==
  \/ \E n \in 1..Cardinality(Agents) : SpawnStart(n)
  \/ \E a \in Agents : Create(a)
  \/ Created \/ Announce \/ SpawnEnd \/ SpawnDies

HandoffNext ==
  \/ \E args, file \in SUBSET created, bus \in BOOLEAN : HandoffStart(args, file, bus)
  \/ \E i \in Agents \cup {NoAgent} : Delete(i)
  \/ HandoffEnd \/ HandoffDies

Next == OtherMessage \/ Expire \/ BusRestart \/ SpawnNext \/ HandoffNext

Spec == Init /\ [][Next]_vars

\* The spawn script goes on or dies.  The handoff is started with the bus again
\* and again, and goes on: it is not stopped for ever.  Whether the service
\* deletes anything depends on the agent, but not for ever if it runs.
FairSpec ==
  /\ Spec
  /\ WF_vars((\E a \in Agents : Create(a)) \/ Created \/ Announce \/ SpawnEnd \/ SpawnDies)
  /\ WF_vars((\E i \in Agents \cup {NoAgent} : Delete(i)) \/ HandoffEnd)
  /\ SF_vars(HandoffStart({}, {}, TRUE))
  /\ \A a \in Agents : SF_vars(Delete(a) /\ a \in terminated')
  /\ <>[][~HandoffDies]_vars

-----------------------------------------------------------------------------
(* Properties.                                                             *)

\* When the handoff script ends with 0, no agent runs that it should have found:
\* one named to it, or printed by a spawn script before and announced on the
\* page since.
HandoffIsComplete == handoff = "exit 0" => expected \subseteq terminated

\* Repeated handoffs end every agent with a proper id, whatever else is on the
\* channel and however deletions of others fail, unless the spawn script died
\* before it announced the agent, or the announcement left the page.
AgentsEnd ==
  \A a \in Readable :
    a \in created ~> a \in terminated \cup orphans \cup unseen

=============================================================================
