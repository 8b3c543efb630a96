---------------------------- MODULE AgentContract ----------------------------
(***************************************************************************)
(* agent_contract.py: a message is written as a dictionary, read back by   *)
(* the next agent, its payload parsed there or not, and passed on.         *)
(*                                                                         *)
(* A value carries its class, so that values of different classes differ.  *)
(* An object is its class and its fields; a dictionary is an object of the *)
(* class "dict", with the fields that were written.  What is in a field    *)
(* matters only where the code looks at it.                                *)
(***************************************************************************)
EXTENDS Naturals, Sequences

CONSTANTS
  Own,       \* the uuid, or the time, of a message that is built
  Fresh,     \* another one
  Messages   \* the messages that agents send

None == [class |-> "NoneType"]
Bool(b) == [class |-> "bool", is |-> b]
Str(name) == [class |-> "str", name |-> name]
List(items) == [class |-> "list", items |-> items]
Dictionary(fields) == [class |-> "dict", fields |-> fields]

\* A member of the Enum that belongs to the field it is in.
Member(name) == [class |-> "Enum", name |-> name]

\* The values of AgentKind, AgentAction and AgentState, by those fields.
EnumOf(f) ==
  CASE f = "kind" ->
         {"command", "event", "status", "response", "control", "heartbeat", "registration"}
    [] f = "action" ->
         {"register", "heartbeat", "start_task", "pause_task", "resume_task", "cancel_task",
          "request_input", "provide_input", "request_decision", "provide_decision",
          "claim_work", "ack_work", "nack_work", "report_status", "report_result",
          "update_policy"}
    [] f = "state" ->
         {"idle", "running", "waiting_input", "paused", "completed", "failed", "cancelled",
          "timed_out"}

\* The classes of the objects that a message has in its fields.
Payloads == {"InputRequest", "InputResponse", "DecisionRequest", "DecisionResponse",
             "ProgressUpdate"}
Classes == Payloads \cup {"AgentPolicy", "AgentLease"}

\* The fields of a class, and among them those from_dict insists on.
Fields(class) ==
  CASE class = "AgentMessage" ->
         {"id", "ts", "protocol", "kind", "action", "from", "to", "conversation_id",
          "trace_id", "reply_to", "state", "payload", "policy", "lease", "metadata"}
    [] class = "AgentPolicy" ->
         {"allowlist", "denylist", "max_runtime_seconds", "max_cost", "max_tokens",
          "tools", "workspace", "env", "secrets_ref"}
    [] class = "AgentLease" -> {"queue", "message_id", "lease_id", "lease_until"}
    [] class = "ChoiceOption" -> {"id", "label", "description", "value"}
    [] class = "InputRequest" ->
         {"prompt", "choices", "allow_freeform", "min_choices", "max_choices",
          "timeout_seconds", "requires_approval", "escalation_chain", "context", "metadata"}
    [] class = "InputResponse" ->
         {"response_text", "choice_ids", "approved", "notes", "metadata"}
    [] class = "DecisionRequest" ->
         {"prompt", "choices", "default_choice", "timeout_seconds", "requires_approval",
          "escalation_chain", "context", "metadata"}
    [] class = "DecisionResponse" ->
         {"choice_id", "decision", "approved", "notes", "rationale", "metadata"}
    [] class = "ProgressUpdate" ->
         {"summary", "progress_pct", "state", "details", "metadata"}

Required(class) ==
  CASE class = "AgentMessage" -> {"kind", "action", "from"}
    [] class = "ChoiceOption" -> {"id", "label"}
    [] class \in {"InputRequest", "DecisionRequest"} -> {"prompt"}
    [] OTHER -> {}

\* What from_dict gives a field that is absent.
Default(class, f) ==
  CASE f = "protocol" -> Str("iac-agent/1.0")
    [] f \in {"id", "ts"} -> Fresh
    [] f = "allow_freeform" -> Bool(TRUE)
    [] f = "requires_approval" -> Bool(class = "DecisionRequest")
    [] f = "choices" -> List(<< >>)
    [] OTHER -> None

-----------------------------------------------------------------------------
(* Writing.                                                                *)

\* Mutant: what is false is left out as well.
DictTruthy(fields) ==
  Dictionary([f \in {g \in DOMAIN fields :
                       /\ fields[g] # None
                       /\ g \in {"approved", "allow_freeform", "requires_approval"} =>
                            fields[g].is}
                |-> fields[f]])

\* The end of every to_dict.
Dict(fields) == Dictionary([f \in {g \in DOMAIN fields : fields[g] # None} |-> fields[f]])

\* AgentMessage._enum_value: a member of an Enum becomes a plain string.
Plain(v) == IF v.class = "Enum" THEN Str(v.name) ELSE v

\* The options are written one by one; an InputRequest without any has None.
OptionsDict(class, v) ==
  IF v = None \/ (class = "InputRequest" /\ DOMAIN v.items = {}) THEN None
  ELSE List([i \in DOMAIN v.items |-> Dict(v.items[i].fields)])

\* The to_dict of an object, none of whose fields but these hold others.
ObjectDict(o) ==
  Dict([f \in Fields(o.class) |->
          CASE f = "state" -> Plain(o.fields[f])
            [] f = "choices" -> OptionsDict(o.class, o.fields[f])
            [] OTHER -> o.fields[f]])

\* _payload_to_dict, and the same for policy and lease.
Written(v) == IF v.class \in Classes THEN ObjectDict(v) ELSE v

\* Mutant: the keys are those of the object, not those of the dictionary.
MessageDictSource(m) ==
  Dict([f \in (Fields("AgentMessage") \ {"from"}) \cup {"source"} |->
          CASE f \in {"kind", "action", "state"} -> Plain(m[f])
            [] f \in {"payload", "policy", "lease"} -> Written(m[f])
            [] f = "source" -> m["from"]
            [] OTHER -> m[f]])

\* AgentMessage.to_dict.
MessageDict(m) ==
  Dict([f \in Fields("AgentMessage") |->
          CASE f \in {"kind", "action", "state"} -> Plain(m[f])
            [] f \in {"payload", "policy", "lease"} -> Written(m[f])
            [] OTHER -> m[f]])

-----------------------------------------------------------------------------
(* Reading.                                                                *)

\* _coerce_enum: a string that no member has stays a string.
Coerced(f, v) == IF v.class = "str" /\ v.name \in EnumOf(f) THEN Member(v.name) ELSE v

\* Whether from_dict finds what it insists on, in the options too.
Readable(class, d) ==
  /\ Required(class) \subseteq DOMAIN d.fields
  /\ class \in {"InputRequest", "DecisionRequest"} /\ "choices" \in DOMAIN d.fields =>
       \A i \in DOMAIN d.fields["choices"].items :
         Required("ChoiceOption") \subseteq DOMAIN d.fields["choices"].items[i].fields

\* data.get(f, the default).
Get(class, d, f) == IF f \in DOMAIN d.fields THEN d.fields[f] ELSE Default(class, f)

\* The from_dict of what holds no other objects.
Read(class, d) == [class |-> class, fields |-> [f \in Fields(class) |-> Get(class, d, f)]]

ReadOptions(class, v) ==
  IF class = "InputRequest" /\ DOMAIN v.items = {} THEN None
  ELSE List([i \in DOMAIN v.items |-> Read("ChoiceOption", v.items[i])])

\* The from_dict of a payload.
ReadPayload(class, d) ==
  [class |-> class,
   fields |-> [f \in Fields(class) |->
                 CASE f = "state" -> Coerced(f, Get(class, d, f))
                   [] f = "choices" -> ReadOptions(class, Get(class, d, f))
                   [] OTHER -> Get(class, d, f)]]

\* The empty dictionary is false: it is not read as a policy, or a lease.
ReadUnlessEmpty(class, v) == IF v = None \/ DOMAIN v.fields = {} THEN None ELSE Read(class, v)

\* Mutant: a lease is read as a policy.
ReadMessageLease(d) ==
  [f \in Fields("AgentMessage") |->
     CASE f \in {"kind", "action", "state"} -> Coerced(f, Get("AgentMessage", d, f))
       [] f \in {"policy", "lease"} ->
            ReadUnlessEmpty("AgentPolicy", Get("AgentMessage", d, f))
       [] OTHER -> Get("AgentMessage", d, f)]

\* AgentMessage.from_dict.
ReadMessage(d) ==
  [f \in Fields("AgentMessage") |->
     CASE f \in {"kind", "action", "state"} -> Coerced(f, Get("AgentMessage", d, f))
       [] f = "policy" -> ReadUnlessEmpty("AgentPolicy", Get("AgentMessage", d, f))
       [] f = "lease" -> ReadUnlessEmpty("AgentLease", Get("AgentMessage", d, f))
       [] OTHER -> Get("AgentMessage", d, f)]

\* The class that parse_payload reads a mapping as, for these actions.
PayloadClass(action) ==
  CASE action = "request_input" -> "InputRequest"
    [] action = "provide_input" -> "InputResponse"
    [] action = "request_decision" -> "DecisionRequest"
    [] action = "provide_decision" -> "DecisionResponse"
    [] action = "report_status" -> "ProgressUpdate"
    [] OTHER -> "dict"

Parses(action, p) == p.class = "dict" /\ PayloadClass(action.name) # "dict"

ParsePayload(action, p) ==
  IF Parses(action, p) THEN ReadPayload(PayloadClass(action.name), p) ELSE p

-----------------------------------------------------------------------------
(* Building.                                                               *)

\* The kind (unless it is given) and the action of the message that is built
\* for a payload: there is one function for each class of payloads.
Built(class) ==
  CASE class = "InputRequest" -> [kind |-> "control", action |-> "request_input"]
    [] class = "DecisionRequest" -> [kind |-> "control", action |-> "request_decision"]
    [] class = "InputResponse" -> [kind |-> "response", action |-> "provide_input"]
    [] class = "DecisionResponse" -> [kind |-> "response", action |-> "provide_decision"]
    [] class = "ProgressUpdate" -> [kind |-> "status", action |-> "report_status"]

\* new_message: the fields that are not given have the defaults of the class,
\* the id and the time are this message's own.
NewMessage(given) ==
  [f \in Fields("AgentMessage") |->
     IF f \in {"id", "ts"} THEN Own
     ELSE IF f \in DOMAIN given THEN given[f] ELSE Default("AgentMessage", f)]

BuiltMessage(payload, given) ==
  NewMessage([f \in DOMAIN given \cup {"kind", "action", "payload"} |->
                CASE f = "action" -> Member(Built(payload.class).action)
                  [] f = "payload" -> payload
                  [] f \in DOMAIN given -> given[f]
                  [] OTHER -> Member(Built(payload.class).kind)])

-----------------------------------------------------------------------------

-----------------------------------------------------------------------------
(* The messages that agents send: what the annotations of the dataclasses  *)
(* and of the functions above allow.                                       *)

\* The fields that are not annotated as Optional.
NotOptional ==
  {"id", "ts", "protocol", "kind", "action", "from", "label", "prompt", "allow_freeform",
   "requires_approval"}

\* KindType, ActionType and StateType: a string, or a member of the Enum.
IsName(f, v) ==
  \/ v = Str(v.name)
  \/ v = Member(v.name) /\ v.name \in EnumOf(f)

IsObject(class, o) ==
  /\ o.class = class
  /\ o = [class |-> class, fields |-> [f \in Fields(class) |-> o.fields[f]]]
  /\ \A f \in Fields(class) \cap NotOptional : o.fields[f] # None

IsOptions(v) ==
  /\ v = List([i \in DOMAIN v.items |-> v.items[i]])
  /\ \A i \in DOMAIN v.items : IsObject("ChoiceOption", v.items[i])

IsPayload(class, p) ==
  /\ class \in Payloads
  /\ IsObject(class, p)
  /\ "state" \in Fields(class) => p.fields["state"] = None \/ IsName("state", p.fields["state"])
  /\ "choices" \in Fields(class) =>
       \/ class = "InputRequest" /\ p.fields["choices"] = None
       \/ IsOptions(p.fields["choices"])

\* The object that belongs to the action, or a dictionary that reads as one; a
\* dictionary for another action, a string, or nothing.
IsPayloadOf(action, p) ==
  \/ p.class \in {"NoneType", "str"}
  \/ IsPayload(PayloadClass(action), p)
  \/ /\ p.class = "dict"
     /\ PayloadClass(action) # "dict" =>
          /\ Readable(PayloadClass(action), p)
          /\ IsPayload(PayloadClass(action), ReadPayload(PayloadClass(action), p))

IsMessage(m) ==
  /\ m = [f \in Fields("AgentMessage") |-> m[f]]
  /\ \A f \in Fields("AgentMessage") \cap NotOptional : m[f] # None
  /\ IsName("kind", m["kind"])
  /\ IsName("action", m["action"])
  /\ m["state"] = None \/ IsName("state", m["state"])
  /\ m["policy"] = None \/ IsObject("AgentPolicy", m["policy"])
  /\ m["lease"] = None \/ IsObject("AgentLease", m["lease"])
  /\ IsPayloadOf(m["action"].name, m["payload"])

\* The keywords of the functions that build a message, but for its payload.
IsGiven(given) ==
  /\ DOMAIN given \subseteq Fields("AgentMessage") \ {"id", "ts", "action", "payload"}
  /\ "from" \in DOMAIN given
  /\ \A f \in DOMAIN given :
       /\ f \in NotOptional => given[f] # None
       /\ f = "kind" => IsName(f, given[f])
       /\ f = "state" => given[f] = None \/ IsName(f, given[f])
       /\ f = "policy" => given[f] = None \/ IsObject("AgentPolicy", given[f])
       /\ f = "lease" => given[f] = None \/ IsObject("AgentLease", given[f])

\* Nothing enforces the annotations: they are what agents are told to send.
ASSUME MessagesAssumption == \A m \in Messages : IsMessage(m)

ASSUME OwnAssumption == Own # None

-----------------------------------------------------------------------------

VARIABLES
  sent,  \* the message that its first agent built
  held,  \* the message an agent received and has at hand, if one has
  wire   \* the dictionary on its way to the next agent, if it is

vars == <<sent, held, wire>>

Init == sent \in Messages /\ held = None /\ wire = MessageDict(sent)

Marshal ==
  /\ held # None
  /\ wire' = MessageDict(held)
  /\ held' = None
  /\ UNCHANGED sent

Unmarshal ==
  /\ wire # None
  /\ Readable("AgentMessage", wire)
  /\ held' = ReadMessage(wire)
  /\ wire' = None
  /\ UNCHANGED sent

\* An agent may parse the payload of a message before it passes it on.
Parse ==
  /\ held # None
  /\ Parses(held["action"], held["payload"]) =>
       Readable(PayloadClass(held["action"].name), held["payload"])
  /\ held' = [held EXCEPT !["payload"] = ParsePayload(held["action"], @)]
  /\ UNCHANGED <<sent, wire>>

Next == Marshal \/ Unmarshal \/ Parse

Spec == Init /\ [][Next]_vars

-----------------------------------------------------------------------------
(* Properties.                                                             *)

Parsed(m) == [m EXCEPT !["payload"] = ParsePayload(m["action"], @)]

Empty(o) == \A f \in DOMAIN o.fields : o.fields[f] = None

\* A payload as its readers are to understand it: no choices in an InputRequest
\* are none, and a state that is known is the member of that name.
MeantPayload(p) ==
  IF p.class \notin Payloads THEN p
  ELSE [class |-> p.class,
        fields |-> [f \in Fields(p.class) |->
                      CASE f = "state" -> Coerced(f, p.fields[f])
                        [] /\ f = "choices" /\ p.class = "InputRequest"
                           /\ p.fields[f] # None /\ DOMAIN p.fields[f].items = {} -> None
                        [] OTHER -> p.fields[f]]]

\* A message as its readers are to understand it: an empty policy or lease is
\* none, a name that is known is the member of that name.
Meaning(m) ==
  [f \in Fields("AgentMessage") |->
     CASE f \in {"kind", "action", "state"} -> Coerced(f, m[f])
       [] f \in {"policy", "lease"} -> IF m[f] # None /\ Empty(m[f]) THEN None ELSE m[f]
       [] f = "payload" -> MeantPayload(m[f])
       [] OTHER -> m[f]]

\* However many agents pass a message on, and whichever of them parse its
\* payload, it means what it meant to the first: nothing that was said is lost
\* in a default, no default is said that was not meant.
RelayPreserves == held # None => Parsed(held) = Meaning(Parsed(sent))

\* What an agent writes the next can read: from_dict and parse_payload find all
\* they insist on.
NeverRefused ==
  /\ wire # None => Readable("AgentMessage", wire)
  /\ held # None /\ Parses(held["action"], held["payload"]) =>
       Readable(PayloadClass(held["action"].name), held["payload"])

\* The inductive invariant behind them (AgentContractProofs): whether a message
\* is at hand or on its way, read anew it is one that an agent may send, with
\* the meaning of the first.
RelayInv ==
  LET Faithful(m) == IsMessage(m) /\ Parsed(m) = Meaning(Parsed(sent))
  IN  /\ IsMessage(sent)
      /\ held # None => Faithful(held)
      /\ wire # None => Readable("AgentMessage", wire) /\ Faithful(ReadMessage(wire))

=============================================================================
