------------------------------ MODULE PollView ------------------------------
(***************************************************************************)
(* What a client that polls GET /bus/messages gets to see of the store: it *)
(* asks for a channel, and passes the last message it received as since_id.*)
(*                                                                         *)
(* A poll copies the list under the lock (PollRead of MessageBus) and      *)
(* filters the copy, so it is one step.  Between two polls messages are    *)
(* appended and leave the store, by retention, acks or a restart.          *)
(***************************************************************************)
EXTENDS Integers, FiniteSets

CONSTANTS
  Channels,   \* channel names
  Limits,     \* values of limit that clients pass, the default among them
  MaxLimit,   \* the cap of limit, 200
  MsgBound    \* bound of the model: messages ever appended

AnyChannel == "any"
NoMsg == 0

ASSUME PollAssumption ==
  /\ AnyChannel \notin Channels
  /\ Limits \subseteq Int
  /\ MaxLimit \in Nat \ {0}
  /\ MsgBound \in Nat

MsgIds == 1..MsgBound
Kinds == [channel : Channels, queued : BOOLEAN]

VARIABLES
  kind,      \* the channel of each message, and if it is on a queue
  appended,  \* number of messages appended so far
  live,      \* the messages in _bus_messages; their names grow along the list
  filter,    \* the client's channel and include_queue; it keeps to them
  cursor,    \* the client's since_id
  seen,      \* the messages the client received
  full       \* history: some reply was as long as its limit, or the limit negative

vars == <<kind, appended, live, filter, cursor, seen, full>>

TypeOK ==
  /\ appended \in 0..MsgBound
  /\ kind \in [1..appended -> Kinds]
  /\ live \subseteq 1..appended
  /\ filter \in [channel : Channels \cup {AnyChannel}, queued : BOOLEAN]
  /\ cursor \in {NoMsg} \cup seen
  /\ seen \subseteq 1..appended
  /\ full \in BOOLEAN

Init ==
  /\ kind = << >>
  /\ appended = 0
  /\ live = {}
  /\ filter \in [channel : Channels \cup {AnyChannel}, queued : BOOLEAN]
  /\ cursor = NoMsg
  /\ seen = {}
  /\ full = FALSE

-----------------------------------------------------------------------------

Visible(S) ==
  {m \in S : /\ filter.channel \in {AnyChannel, kind[m].channel}
             /\ kind[m].queued => filter.queued}

\* Mutant: the message the client has is among those it gets.
AfterFrom(S, since) == IF since \in S THEN {m \in S : m >= since} ELSE S

\* What comes after since_id; everything, if it is not there.
After(S, since) == IF since \in S THEN {m \in S : m > since} ELSE S

\* The slice [-n:] of a list: its last n for a positive n, all of it for 0, all
\* but the first -n for a negative n.
Slice(S, n) ==
  IF n > 0 THEN {m \in S : Cardinality({j \in S : j >= m}) <= n}
           ELSE {m \in S : Cardinality({j \in S : j <= m}) > -n}

Capped(limit) == IF limit > MaxLimit THEN MaxLimit ELSE limit

\* Mutant: the limit is applied to the list before the filters are.
ReplySliced(since, limit) == After(Visible(Slice(live, Capped(limit))), since)

Reply(since, limit) == Slice(After(Visible(live), since), Capped(limit))

\* POST /bus/messages, and the assignments the server appends itself.
Append(k) ==
  /\ appended < MsgBound
  /\ appended' = appended + 1
  /\ kind' = [m \in 1..appended' |-> IF m = appended' THEN k ELSE kind[m]]
  /\ live' = live \cup {appended'}
  /\ UNCHANGED <<filter, cursor, seen, full>>

\* A message leaves the store: pruned, acked, or lost with the process.
Drop(m) ==
  /\ live' = live \ {m}
  /\ UNCHANGED <<kind, appended, filter, cursor, seen, full>>

\* Mutant: the client moves its cursor to the end of the list.
PollToEnd(limit) ==
  LET reply == Reply(cursor, limit)
  IN  /\ seen' = seen \cup reply
      /\ cursor' = IF reply = {} THEN cursor
                   ELSE CHOOSE m \in live : \A j \in live : j <= m
      /\ full' = (full \/ (limit # 0 /\ Cardinality(reply) >= Capped(limit)))
      /\ UNCHANGED <<kind, appended, live, filter>>

\* GET /bus/messages; the client moves its cursor to the end of the reply.
Poll(limit) ==
  LET reply == Reply(cursor, limit)
  IN  /\ seen' = seen \cup reply
      /\ cursor' = IF reply = {} THEN cursor
                   ELSE CHOOSE m \in reply : \A j \in reply : j <= m
      /\ full' = (full \/ (limit # 0 /\ Cardinality(reply) >= Capped(limit)))
      /\ UNCHANGED <<kind, appended, live, filter>>

Next ==
  \/ \E k \in Kinds : Append(k)
  \/ \E m \in live : Drop(m)
  \/ \E limit \in Limits : Poll(limit)

Spec == Init /\ [][Next]_vars

-----------------------------------------------------------------------------
(* Properties.                                                             *)

\* What the client's cursor has passed and the store still has.
Passed == {m \in Visible(live) : m <= cursor}

\* A client that never got a full reply has received everything its cursor has
\* passed, though the message of the cursor may have left the store, and the
\* client start again, any number of times: only the limit hides messages.
MissedOnlyWhenFull == full \/ Passed \subseteq seen

\* The client receives a message again only if the message of its cursor is no
\* longer there; as long as it is, all it gets is new, in the order of the list.
RereadsOnlyWithoutCursor ==
  [][\A limit \in Limits :
       Poll(limit) /\ cursor \in live =>
         \A m \in Reply(cursor, limit) : m > cursor /\ m \notin seen]_vars

\* A client that passes since_id gets all that came after that message.  (It
\* does not if more came than it asks for: the slice keeps the last ones, and
\* the cursor passes the others.)
NothingMissed ==
  [][\A limit \in Limits :
       Poll(limit) /\ cursor \in live => {m \in Visible(live) : m > cursor} \subseteq seen']_vars

=============================================================================
