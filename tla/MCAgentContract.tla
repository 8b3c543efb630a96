--------------------------- MODULE MCAgentContract ---------------------------
(* AgentContract with messages that have every kind of field present, absent *)
(* and empty.                                                                 *)
EXTENDS AgentContract

CONSTANT Some  \* a value that the code does not look at

Actions == {"request_input", "provide_input", "request_decision", "provide_decision",
            "report_status", "claim_work", "custom"}

\* A name as a string, and as a member if there is one.
Named(f, name) == {Str(name)} \cup (IF name \in EnumOf(f) THEN {Member(name)} ELSE {})

\* An object with the default in every field that is not named.
Object(class, given, v) ==
  [class |-> class,
   fields |-> [f \in Fields(class) |->
                 IF f \in given \cup Required(class) THEN v ELSE Default(class, f)]]

Option == Object("ChoiceOption", {"value"}, Some)

Choices ==
  {List(<< >>), List(<< Option >>), List(<< Object("ChoiceOption", {}, Some), Option >>)}

Requests(class, choices) ==
  {[Object(class, {"context"}, Some) EXCEPT
      !.fields = [f \in DOMAIN @ |-> CASE f = "choices" -> c
                                      [] f = "requires_approval" -> Bool(approval)
                                      [] f = "allow_freeform" -> Bool(freeform)
                                      [] OTHER -> @[f]]] :
     c \in choices, approval \in BOOLEAN, freeform \in BOOLEAN}

Responses(class) ==
  {[Object(class, {"notes"}, Some) EXCEPT !.fields.approved = a] :
     a \in {None, Bool(TRUE), Bool(FALSE)}}

Updates ==
  {[Object("ProgressUpdate", {"progress_pct"}, Some) EXCEPT !.fields.state = s] :
     s \in {None} \cup Named("state", "running") \cup Named("state", "stalled")}

\* Dictionaries: what is insisted on, with options or without, and any other.
Prompt == Dictionary([f \in {"prompt"} |-> Some])
Prompts ==
  {Prompt} \cup {Dictionary([f \in {"prompt", "choices"} |->
                             IF f = "prompt" THEN Some ELSE c]) :
                 c \in {List(<< >>), List(<< Dict(Option.fields) >>)}}
Data == Dictionary([f \in {"task"} |-> Some])

\* The payloads of each class.
Objects ==
  Requests("InputRequest", Choices \cup {None}) \cup Requests("DecisionRequest", Choices)
  \cup Responses("InputResponse") \cup Responses("DecisionResponse") \cup Updates

\* What agents send without an object: dictionaries, a text, nothing.
PlainPayloads(action) ==
  {None, Str("a text")} \cup
  CASE action \in {"request_input", "request_decision"} -> Prompts
    [] action = "report_status" -> {Data, Dictionary([f \in {"state"} |-> Str("running")])}
    [] OTHER -> {Data}

Policies == {None, Object("AgentPolicy", {}, Some), Object("AgentPolicy", {"tools"}, Some)}
Leases == {None, Object("AgentLease", {}, Some), Object("AgentLease", {"queue", "lease_id"}, Some)}

\* The fields that may be given to each function.
Given ==
  {[f \in {"from", "to", "state", "policy", "lease", "conversation_id"} |->
      CASE f = "state" -> state [] f = "policy" -> policy [] f = "lease" -> lease
        [] OTHER -> Some] :
     state \in {None} \cup Named("state", "running"), policy \in Policies, lease \in Leases}

\* They are of the annotated types, as BuiltIsMessage asks.
ASSUME GivenAssumption == \A g \in Given : IsGiven(g)

PlainMessages ==
  {NewMessage([f \in DOMAIN g \cup {"kind", "action", "payload"} |->
                 CASE f = "kind" -> k [] f = "action" -> a.action [] f = "payload" -> a.payload
                   [] OTHER -> g[f]]) :
     g \in Given, k \in Named("kind", "command"),
     a \in UNION {[action : Named("action", name), payload : PlainPayloads(name)] : name \in Actions}}

SomeMessages == PlainMessages \cup {BuiltMessage(o, g) : o \in Objects, g \in Given}
=============================================================================
