------------------------- MODULE AgentContractProofs -------------------------
(***************************************************************************)
(* Proofs about AgentContract, for any messages of the annotated types and *)
(* any number of agents that pass them on: what an agent writes the next   *)
(* can read, and a message keeps its meaning.                              *)
(***************************************************************************)
EXTENDS AgentContract, TLAPS

-----------------------------------------------------------------------------
(* Values.                                                                 *)

\* None is neither a string nor a member, a list, a dictionary or an object.
LEMMA NoneDiffers ==
  /\ None.class = "NoneType"
  /\ \A name : Str(name) # None /\ Member(name) # None
  /\ \A items : List(items) # None
  /\ \A fields : Dictionary(fields) # None
BY DEF None, Str, Member, List, Dictionary

\* What is no name is not coerced, and None is not.
LEMMA CoercedNone ==
  ASSUME NEW f
  PROVE  Coerced(f, None) = None /\ Plain(None) = None
BY DEF Coerced, Plain, None

\* A name that was coerced is not coerced into anything else.
LEMMA CoercedTwice ==
  ASSUME NEW f, NEW v
  PROVE  Coerced(f, Coerced(f, v)) = Coerced(f, v)
BY DEF Coerced, Member

\* A name is still the same name after it was written or read.
LEMMA NameKept ==
  ASSUME NEW f, NEW v, IsName(f, v)
  PROVE  /\ v # None
         /\ Plain(v) # None
         /\ Coerced(f, Plain(v)) = Coerced(f, v)
         /\ IsName(f, Coerced(f, v))
         /\ Coerced(f, v) # None
         /\ Coerced(f, v).name = v.name
<1>1. CASE v = Str(v.name)
  BY <1>1 DEF IsName, Str, Member, Plain, Coerced, None
<1>2. CASE v = Member(v.name) /\ v.name \in EnumOf(f)
  BY <1>2 DEF IsName, Str, Member, Plain, Coerced, None
<1>3. QED
  BY <1>1, <1>2 DEF IsName

-----------------------------------------------------------------------------
(* Dictionaries.                                                           *)

\* What a dictionary was written from is read from it, or else the default.
LEMMA GetDict ==
  ASSUME NEW class, NEW fields, NEW f \in DOMAIN fields
  PROVE  Get(class, Dict(fields), f) =
           IF fields[f] # None THEN fields[f] ELSE Default(class, f)
BY DEF Get, Dict, Dictionary

\* The keys are the fields that are something.
LEMMA KeysOfDict ==
  ASSUME NEW fields
  PROVE  /\ Dict(fields).class = "dict"
         /\ DOMAIN Dict(fields).fields = {f \in DOMAIN fields : fields[f] # None}
         /\ \A f \in DOMAIN Dict(fields).fields : Dict(fields).fields[f] = fields[f]
BY DEF Dict, Dictionary

\* Options, policies and leases have no defaults but None.
LEMMA SimpleDefaults ==
  ASSUME NEW class \in {"ChoiceOption", "AgentPolicy", "AgentLease"},
         NEW f \in Fields(class), f # "id"
  PROVE  Default(class, f) = None
BY DEF Default, Fields

\* They are read as they were written.
LEMMA SimpleObjects ==
  ASSUME NEW class \in {"ChoiceOption", "AgentPolicy", "AgentLease"}, NEW o,
         IsObject(class, o)
  PROVE  /\ Read(class, Dict(o.fields)) = o
         /\ Required(class) \subseteq DOMAIN Dict(o.fields).fields
<1>1. DOMAIN o.fields = Fields(class)
  BY DEF IsObject
<1>2. ASSUME NEW f \in Fields(class)
      PROVE  Get(class, Dict(o.fields), f) = o.fields[f]
  <2>1. CASE f = "id"
    <3>1. o.fields[f] # None
      BY <1>2, <2>1 DEF IsObject, NotOptional
    <3>2. QED
      BY <1>1, <1>2, <3>1, GetDict
  <2>2. CASE f # "id"
    BY <1>1, <1>2, <2>2, GetDict, SimpleDefaults
  <2>3. QED
    BY <2>1, <2>2
<1>3. Read(class, Dict(o.fields)) = o
  BY <1>2 DEF Read, IsObject
<1>4. Required(class) \subseteq Fields(class) \cap NotOptional
  BY DEF Required, Fields, NotOptional
<1>5. \A f \in Required(class) : o.fields[f] # None
  BY <1>4 DEF IsObject
<1>6. QED
  BY <1>1, <1>3, <1>4, <1>5, KeysOfDict

-----------------------------------------------------------------------------
(* Options.                                                                *)

\* The keys are those of from_dict, and options are read as they were written,
\* but for the empty list of an InputRequest, which is not written.
LEMMA OptionsKept ==
  ASSUME NEW class, NEW v, IsOptions(v), ~(class = "InputRequest" /\ DOMAIN v.items = {})
  PROVE  /\ OptionsDict(class, v) # None
         /\ ReadOptions(class, OptionsDict(class, v)) = v
         /\ \A i \in DOMAIN OptionsDict(class, v).items :
              Required("ChoiceOption") \subseteq DOMAIN OptionsDict(class, v).items[i].fields
<1> DEFINE w == [i \in DOMAIN v.items |-> Dict(v.items[i].fields)]
<1>1. v = List([i \in DOMAIN v.items |-> v.items[i]])
  BY DEF IsOptions
<1>2. v # None
  BY <1>1, NoneDiffers
<1>3. OptionsDict(class, v) = List(w)
  BY <1>2 DEF OptionsDict
<1>4. List(w).items = w /\ DOMAIN w = DOMAIN v.items
  BY DEF List
<1>5. ASSUME NEW i \in DOMAIN v.items
      PROVE  /\ Read("ChoiceOption", w[i]) = v.items[i]
             /\ Required("ChoiceOption") \subseteq DOMAIN w[i].fields
  BY <1>5, SimpleObjects DEF IsOptions
<1> HIDE DEF w
<1>6. ReadOptions(class, List(w)) = List([i \in DOMAIN w |-> Read("ChoiceOption", w[i])])
  BY <1>4 DEF ReadOptions
<1>7. [i \in DOMAIN w |-> Read("ChoiceOption", w[i])] = [i \in DOMAIN v.items |-> v.items[i]]
  BY <1>4, <1>5
<1>8. QED
  BY <1>1, <1>3, <1>4, <1>5, <1>6, <1>7, NoneDiffers

\* No options are none in an InputRequest, and none of it are read as none.
LEMMA NoOptions ==
  ASSUME NEW v, IsOptions(v), DOMAIN v.items = {}
  PROVE  OptionsDict("InputRequest", v) = None
BY DEF OptionsDict

LEMMA NoneRead ==
  ReadOptions("InputRequest", List(<< >>)) = None
BY DEF ReadOptions, List

-----------------------------------------------------------------------------
(* Payloads.                                                               *)

\* The fields of a payload that are not annotated as Optional apart, the defaults
\* but for the choices are None.
LEMMA PayloadDefaults ==
  ASSUME NEW class \in Payloads, NEW f \in Fields(class), f \notin NotOptional, f # "choices"
  PROVE  Default(class, f) = None
BY DEF Payloads, Fields, NotOptional, Default

\* What each field of a payload is written as.
PayloadEntries(p) ==
  [f \in Fields(p.class) |->
     CASE f = "state" -> Plain(p.fields[f])
       [] f = "choices" -> OptionsDict(p.class, p.fields[f])
       [] OTHER -> p.fields[f]]

\* A payload is written by the to_dict of its class.
LEMMA WrittenPayload ==
  ASSUME NEW class, NEW p, IsPayload(class, p)
  PROVE  Written(p) = Dict(PayloadEntries(p)) /\ p.class = class
BY DEF IsPayload, IsObject, Written, ObjectDict, PayloadEntries, Classes

\* Of each field, what it means is read from what was written.
LEMMA FieldKept ==
  ASSUME NEW class, NEW p, IsPayload(class, p), NEW f \in Fields(class)
  PROVE  ReadPayload(class, Written(p)).fields[f] = MeantPayload(p).fields[f]
<1> DEFINE e == PayloadEntries(p)
           v == p.fields[f]
           g == Get(class, Dict(e), f)
<1>1. Written(p) = Dict(e) /\ p.class = class /\ class \in Payloads
  BY WrittenPayload DEF IsPayload
<1>2. DOMAIN e = Fields(class)
  BY <1>1 DEF PayloadEntries
<1>3. g = IF e[f] # None THEN e[f] ELSE Default(class, f)
  BY <1>2, GetDict
<1>4. ReadPayload(class, Dict(e)).fields[f] =
        CASE f = "state" -> Coerced(f, g)
          [] f = "choices" -> ReadOptions(class, g)
          [] OTHER -> g
  BY DEF ReadPayload
<1>5. MeantPayload(p).fields[f] =
        CASE f = "state" -> Coerced(f, v)
          [] /\ f = "choices" /\ class = "InputRequest" /\ v # None /\ DOMAIN v.items = {} -> None
          [] OTHER -> v
  BY <1>1 DEF MeantPayload
<1>6. CASE f = "state"
  <2>1. e[f] = Plain(v)
    BY <1>1, <1>6 DEF PayloadEntries
  <2>2. v = None \/ IsName("state", v)
    BY <1>6 DEF IsPayload
  <2>3. Default(class, f) = None
    BY <1>1, <1>6, PayloadDefaults DEF NotOptional
  <2>4. Coerced(f, g) = Coerced(f, v)
    BY <1>3, <1>6, <2>1, <2>2, <2>3, NameKept, CoercedNone
  <2>5. QED
    BY <1>1, <1>4, <1>5, <1>6, <2>4
<1>7. CASE f = "choices"
  <2>1. e[f] = OptionsDict(class, v)
    BY <1>1, <1>7 DEF PayloadEntries
  <2>2. \/ class = "InputRequest" /\ v = None
        \/ IsOptions(v)
    BY <1>7 DEF IsPayload
  <2>3. Default(class, f) = List(<< >>)
    BY <1>7 DEF Default
  <2>4. CASE IsOptions(v) /\ ~(class = "InputRequest" /\ DOMAIN v.items = {})
    <3>1. ReadOptions(class, g) = v
      BY <1>3, <2>1, <2>4, OptionsKept
    <3>2. QED
      BY <1>1, <1>4, <1>5, <1>7, <2>4, <3>1
  <2>5. CASE class = "InputRequest" /\ (v = None \/ (IsOptions(v) /\ DOMAIN v.items = {}))
    <3>1. e[f] = None
      BY <2>1, <2>5, NoOptions DEF OptionsDict
    <3>2. ReadOptions(class, g) = None
      BY <1>3, <2>3, <2>5, <3>1, NoneRead
    <3>3. QED
      BY <1>1, <1>4, <1>5, <1>7, <2>5, <3>2
  <2>6. QED
    BY <2>2, <2>4, <2>5
<1>8. CASE f \notin {"state", "choices"}
  <2>1. e[f] = v
    BY <1>1, <1>8 DEF PayloadEntries
  <2>2. v = None => f \notin NotOptional
    BY DEF IsPayload, IsObject
  <2>3. g = v
    BY <1>1, <1>3, <1>8, <2>1, <2>2, PayloadDefaults
  <2>4. QED
    BY <1>1, <1>4, <1>5, <1>8, <2>3
<1>9. QED
  BY <1>6, <1>7, <1>8

\* The payload that is read from what was written has the meaning of the first.
LEMMA PayloadKept ==
  ASSUME NEW class, NEW p, IsPayload(class, p)
  PROVE  ReadPayload(class, Written(p)) = MeantPayload(p)
<1>1. p.class = class /\ class \in Payloads
  BY DEF IsPayload, IsObject
<1>2. /\ ReadPayload(class, Written(p)).class = class
      /\ MeantPayload(p).class = class
      /\ DOMAIN ReadPayload(class, Written(p)).fields = Fields(class)
      /\ DOMAIN MeantPayload(p).fields = Fields(class)
  BY <1>1 DEF ReadPayload, MeantPayload
<1> DEFINE r == ReadPayload(class, Written(p)).fields
           q == MeantPayload(p).fields
<1>3. ReadPayload(class, Written(p)) = [class |-> class, fields |-> r]
  BY DEF ReadPayload
<1>4. MeantPayload(p) = [class |-> class, fields |-> q]
  BY <1>1 DEF MeantPayload
<1>5. r = [f \in Fields(class) |-> r[f]]
  BY DEF ReadPayload
<1>6. q = [f \in Fields(class) |-> q[f]]
  BY <1>1 DEF MeantPayload
<1>7. \A f \in Fields(class) : r[f] = q[f]
  BY FieldKept
<1> HIDE DEF r, q
<1>8. r = q
  BY <1>5, <1>6, <1>7
<1>9. QED
  BY <1>3, <1>4, <1>8

\* What was written is a dictionary in which all that is insisted on is found.
LEMMA PayloadReadable ==
  ASSUME NEW class, NEW p, IsPayload(class, p)
  PROVE  Written(p).class = "dict" /\ Readable(class, Written(p))
<1> DEFINE e == PayloadEntries(p)
           v == p.fields["choices"]
<1>1. Written(p) = Dict(e) /\ p.class = class /\ class \in Payloads
  BY WrittenPayload DEF IsPayload
<1>2. DOMAIN e = Fields(class)
  BY <1>1 DEF PayloadEntries
<1>3. Required(class) \subseteq Fields(class) \cap NotOptional
  BY <1>1 DEF Payloads, Required, Fields, NotOptional
<1>4. \A f \in Required(class) : f \notin {"state", "choices"}
  BY <1>3 DEF NotOptional
<1>5. \A f \in Required(class) : e[f] = p.fields[f] /\ p.fields[f] # None
  BY <1>1, <1>3, <1>4 DEF PayloadEntries, IsPayload, IsObject
<1>6. Required(class) \subseteq DOMAIN Dict(e).fields
  BY <1>2, <1>3, <1>5, KeysOfDict
<1>7. ASSUME class \in {"InputRequest", "DecisionRequest"}, "choices" \in DOMAIN Dict(e).fields,
             NEW i \in DOMAIN Dict(e).fields["choices"].items
      PROVE  Required("ChoiceOption") \subseteq DOMAIN Dict(e).fields["choices"].items[i].fields
  <2>1. "choices" \in Fields(class) /\ e["choices"] # None
    BY <1>2, <1>7, KeysOfDict
  <2>2. Dict(e).fields["choices"] = OptionsDict(class, v)
    BY <1>1, <1>7, <2>1, KeysOfDict DEF PayloadEntries
  <2>3. OptionsDict(class, v) # None
    BY <1>1, <2>1 DEF PayloadEntries
  <2>4. IsOptions(v) /\ ~(class = "InputRequest" /\ DOMAIN v.items = {})
    BY <2>1, <2>3 DEF IsPayload, OptionsDict
  <2>5. QED
    BY <1>7, <2>2, <2>4, OptionsKept
<1>8. QED
  BY <1>1, <1>6, <1>7, KeysOfDict DEF Readable

\* The meaning of a payload is a payload of the same class, and of that meaning.
LEMMA MeantIsPayload ==
  ASSUME NEW class, NEW p, IsPayload(class, p)
  PROVE  IsPayload(class, MeantPayload(p)) /\ MeantPayload(MeantPayload(p)) = MeantPayload(p)
<1> DEFINE q == MeantPayload(p)
<1>1. p.class = class /\ class \in Payloads
  BY DEF IsPayload, IsObject
<1>2. /\ q.class = class
      /\ DOMAIN q.fields = Fields(class)
      /\ q = [class |-> class, fields |-> [f \in Fields(class) |-> q.fields[f]]]
  BY <1>1 DEF MeantPayload
<1>3. \A f \in Fields(class) :
        q.fields[f] =
          CASE f = "state" -> Coerced(f, p.fields[f])
            [] /\ f = "choices" /\ class = "InputRequest"
               /\ p.fields[f] # None /\ DOMAIN p.fields[f].items = {} -> None
            [] OTHER -> p.fields[f]
  BY <1>1 DEF MeantPayload
<1>4. \A f \in Fields(class) \ {"state", "choices"} : q.fields[f] = p.fields[f]
  BY <1>3
<1>5. ASSUME "state" \in Fields(class)
      PROVE  /\ q.fields["state"] = Coerced("state", p.fields["state"])
             /\ q.fields["state"] = None \/ IsName("state", q.fields["state"])
  <2>1. q.fields["state"] = Coerced("state", p.fields["state"])
    BY <1>3, <1>5
  <2>2. QED
    BY <1>5, <2>1, NameKept, CoercedNone DEF IsPayload
<1>6. ASSUME "choices" \in Fields(class)
      PROVE  \/ class = "InputRequest" /\ q.fields["choices"] = None
             \/ /\ IsOptions(q.fields["choices"])
                /\ ~(class = "InputRequest" /\ DOMAIN q.fields["choices"].items = {})
  <2>1. q.fields["choices"] =
          IF /\ class = "InputRequest"
             /\ p.fields["choices"] # None /\ DOMAIN p.fields["choices"].items = {} THEN None
          ELSE p.fields["choices"]
    BY <1>3, <1>6
  <2>2. QED
    BY <1>6, <2>1 DEF IsPayload
<1> HIDE DEF q
<1>7. IsPayload(class, q)
  <2>1. \A f \in Fields(class) \cap NotOptional : q.fields[f] # None
    BY <1>4 DEF NotOptional, IsPayload, IsObject
  <2>2. IsObject(class, q)
    BY <1>2, <2>1 DEF IsObject
  <2>3. QED
    BY <1>1, <1>5, <1>6, <2>2 DEF IsPayload
<1>8. MeantPayload(q) = q
  <2> DEFINE r == MeantPayload(q)
  <2>1. r = [class |-> class, fields |-> [f \in Fields(class) |-> r.fields[f]]]
    BY <1>1, <1>2 DEF MeantPayload
  <2>2. ASSUME NEW f \in Fields(class)
        PROVE  r.fields[f] = q.fields[f]
    <3>1. r.fields[f] =
            CASE f = "state" -> Coerced(f, q.fields[f])
              [] /\ f = "choices" /\ class = "InputRequest"
                 /\ q.fields[f] # None /\ DOMAIN q.fields[f].items = {} -> None
              [] OTHER -> q.fields[f]
      BY <1>1, <1>2 DEF MeantPayload
    <3>2. CASE f = "state"
      BY <1>5, <2>2, <3>1, <3>2, CoercedTwice
    <3>3. CASE f = "choices"
      BY <1>6, <2>2, <3>1, <3>3
    <3>4. QED
      BY <3>1, <3>2, <3>3
  <2> HIDE DEF r
  <2>3. [f \in Fields(class) |-> r.fields[f]] = [f \in Fields(class) |-> q.fields[f]]
    BY <2>2
  <2>4. r = q
    BY <1>2, <2>1, <2>3
  <2>5. QED
    BY <2>4 DEF r
<1>9. QED
  BY <1>7, <1>8 DEF q

\* What is read as a payload has no other meaning than itself.
LEMMA ReadIsMeant ==
  ASSUME NEW class \in Payloads, NEW d
  PROVE  MeantPayload(ReadPayload(class, d)) = ReadPayload(class, d)
<1> DEFINE q == ReadPayload(class, d)
           r == MeantPayload(q)
<1>1. /\ q.class = class
      /\ q = [class |-> class, fields |-> [f \in Fields(class) |-> q.fields[f]]]
  BY DEF ReadPayload
<1>2. r = [class |-> class, fields |-> [f \in Fields(class) |-> r.fields[f]]]
  BY <1>1 DEF MeantPayload
<1>3. ASSUME NEW f \in Fields(class)
      PROVE  r.fields[f] = q.fields[f]
  <2>1. r.fields[f] =
          CASE f = "state" -> Coerced(f, q.fields[f])
            [] /\ f = "choices" /\ class = "InputRequest"
               /\ q.fields[f] # None /\ DOMAIN q.fields[f].items = {} -> None
            [] OTHER -> q.fields[f]
    BY <1>1 DEF MeantPayload
  <2>2. q.fields[f] =
          CASE f = "state" -> Coerced(f, Get(class, d, f))
            [] f = "choices" -> ReadOptions(class, Get(class, d, f))
            [] OTHER -> Get(class, d, f)
    BY DEF ReadPayload
  <2>3. CASE f = "state"
    BY <2>1, <2>2, <2>3, CoercedTwice
  <2>4. CASE f = "choices" /\ class = "InputRequest"
    <3> DEFINE v == Get(class, d, f)
    <3>1. q.fields[f] = ReadOptions(class, v)
      BY <2>2, <2>4
    <3>2. q.fields[f] = None \/ DOMAIN q.fields[f].items # {}
      BY <2>4, <3>1 DEF ReadOptions, List
    <3>3. QED
      BY <2>1, <2>4, <3>2
  <2>5. QED
    BY <2>1, <2>3, <2>4
<1> HIDE DEF q, r
<1>4. [f \in Fields(class) |-> r.fields[f]] = [f \in Fields(class) |-> q.fields[f]]
  BY <1>3
<1>5. r = q
  BY <1>1, <1>2, <1>4
<1>6. QED
  BY <1>5 DEF q, r

-----------------------------------------------------------------------------
(* Payloads with their actions.                                            *)

\* The class is one of those with objects, or there is none.
LEMMA PayloadClasses ==
  ASSUME NEW action
  PROVE  PayloadClass(action) # "dict" => PayloadClass(action) \in Payloads
BY DEF PayloadClass, Payloads

\* A payload is of an object, a dictionary, a string, or none.
LEMMA KindsOfPayload ==
  ASSUME NEW action, NEW p, IsPayloadOf(action.name, p)
  PROVE  \/ /\ p.class \in {"NoneType", "str"}
            /\ ParsePayload(action, p) = p /\ Written(p) = p /\ MeantPayload(p) = p
         \/ /\ p.class = PayloadClass(action.name) /\ PayloadClass(action.name) \in Payloads
            /\ IsPayload(PayloadClass(action.name), p)
            /\ ParsePayload(action, p) = p
         \/ /\ p.class = "dict" /\ PayloadClass(action.name) = "dict"
            /\ ParsePayload(action, p) = p /\ Written(p) = p /\ MeantPayload(p) = p
         \/ /\ p.class = "dict" /\ PayloadClass(action.name) \in Payloads
            /\ Readable(PayloadClass(action.name), p)
            /\ IsPayload(PayloadClass(action.name), ReadPayload(PayloadClass(action.name), p))
            /\ ParsePayload(action, p) = ReadPayload(PayloadClass(action.name), p)
            /\ Written(p) = p
<1> DEFINE class == PayloadClass(action.name)
<1>1. class # "dict" => class \in Payloads
  BY PayloadClasses
<1>2. "dict" \notin Classes /\ "NoneType" \notin Classes /\ "str" \notin Classes
  BY DEF Classes, Payloads
<1>3. Payloads \subseteq Classes
  BY DEF Classes
<1> HIDE DEF class
<1>4. CASE p.class \in {"NoneType", "str"}
  BY <1>2, <1>3, <1>4 DEF ParsePayload, Parses, Written, MeantPayload
<1>5. CASE IsPayload(class, p)
  <2>1. p.class = class /\ class \in Payloads
    BY <1>5 DEF IsPayload, IsObject
  <2>2. ParsePayload(action, p) = p
    BY <1>2, <1>3, <2>1 DEF ParsePayload, Parses
  <2>3. QED
    BY <1>5, <2>1, <2>2 DEF class
<1>6. CASE p.class = "dict" /\ class = "dict"
  BY <1>2, <1>3, <1>6 DEF ParsePayload, Parses, Written, MeantPayload, class
<1>7. CASE /\ p.class = "dict" /\ class # "dict"
           /\ Readable(class, p) /\ IsPayload(class, ReadPayload(class, p))
  BY <1>1, <1>2, <1>7 DEF ParsePayload, Parses, Written, class
<1>8. QED
  BY <1>4, <1>5, <1>6, <1>7 DEF IsPayloadOf, class

\* Parsing keeps a payload of its action, and parses all there is to parse.
LEMMA ParsedPayload ==
  ASSUME NEW action, NEW p, IsPayloadOf(action.name, p)
  PROVE  /\ IsPayloadOf(action.name, ParsePayload(action, p))
         /\ ParsePayload(action, ParsePayload(action, p)) = ParsePayload(action, p)
<1> DEFINE class == PayloadClass(action.name)
<1>1. CASE ParsePayload(action, p) = p
  BY <1>1
<1>2. CASE IsPayload(class, ReadPayload(class, p)) /\ ParsePayload(action, p) = ReadPayload(class, p)
  <2>1. IsPayloadOf(action.name, ReadPayload(class, p))
    BY <1>2 DEF IsPayloadOf
  <2>2. ReadPayload(class, p).class = class /\ class # "dict"
    BY <1>2 DEF IsPayload, IsObject, Payloads
  <2>3. ParsePayload(action, ReadPayload(class, p)) = ReadPayload(class, p)
    BY <2>2 DEF ParsePayload, Parses
  <2>4. QED
    BY <1>2, <2>1, <2>3
<1>3. QED
  BY <1>1, <1>2, KindsOfPayload

\* Its meaning is its own meaning.
LEMMA MeantPayloadTwice ==
  ASSUME NEW action, NEW p, IsPayloadOf(action.name, p)
  PROVE  MeantPayload(MeantPayload(p)) = MeantPayload(p)
<1>1. CASE IsPayload(PayloadClass(action.name), p)
  BY <1>1, MeantIsPayload
<1>2. CASE p.class \notin Payloads
  BY <1>2 DEF MeantPayload
<1>3. p.class = "dict" \/ p.class \in {"NoneType", "str"} => p.class \notin Payloads
  BY DEF Payloads
<1>4. QED
  BY <1>1, <1>2, <1>3 DEF IsPayloadOf

\* Written and read, a payload is one of its action, and parsed it is what the
\* first meant.
LEMMA PayloadRelayed ==
  ASSUME NEW action, NEW p, IsPayloadOf(action.name, p)
  PROVE  /\ IsPayloadOf(action.name, Written(p))
         /\ ParsePayload(action, Written(p)) = MeantPayload(ParsePayload(action, p))
<1> DEFINE class == PayloadClass(action.name)
<1>1. CASE ParsePayload(action, p) = p /\ Written(p) = p /\ MeantPayload(p) = p
  BY <1>1
<1>2. CASE class \in Payloads /\ IsPayload(class, p) /\ ParsePayload(action, p) = p
  <2>1. Written(p).class = "dict" /\ Readable(class, Written(p))
    BY <1>2, PayloadReadable
  <2>2. ReadPayload(class, Written(p)) = MeantPayload(p) /\ IsPayload(class, MeantPayload(p))
    BY <1>2, PayloadKept, MeantIsPayload
  <2>3. class # "dict"
    BY <1>2 DEF Payloads
  <2>4. ParsePayload(action, Written(p)) = ReadPayload(class, Written(p))
    BY <2>1, <2>3 DEF ParsePayload, Parses
  <2>5. IsPayloadOf(action.name, Written(p))
    BY <2>1, <2>2 DEF IsPayloadOf
  <2>6. QED
    BY <1>2, <2>2, <2>4, <2>5
<1>3. CASE /\ class \in Payloads /\ Written(p) = p
           /\ ParsePayload(action, p) = ReadPayload(class, p)
  BY <1>3, ReadIsMeant
<1>4. QED
  BY <1>1, <1>2, <1>3, KindsOfPayload

-----------------------------------------------------------------------------
(* Messages.                                                               *)

\* A policy or a lease is read as it was written, unless it is empty.
LEMMA PolicyKept ==
  ASSUME NEW class \in {"AgentPolicy", "AgentLease"}, NEW v,
         v = None \/ IsObject(class, v)
  PROVE  LET meant == IF v # None /\ Empty(v) THEN None ELSE v
         IN  /\ ReadUnlessEmpty(class, Written(v)) = meant
             /\ meant = None \/ IsObject(class, meant)
<1>1. CASE v = None
  <2>1. Written(v) = None
    BY <1>1, NoneDiffers DEF Written, Classes, Payloads
  <2>2. QED
    BY <1>1, <2>1 DEF ReadUnlessEmpty
<1>2. CASE v # None /\ IsObject(class, v)
  <2>1. v.class = class /\ v.fields = [f \in Fields(class) |-> v.fields[f]]
    BY <1>2 DEF IsObject
  <2>2. "state" \notin Fields(class) /\ "choices" \notin Fields(class)
    BY DEF Fields
  <2>3. [f \in Fields(class) |->
           CASE f = "state" -> Plain(v.fields[f])
             [] f = "choices" -> OptionsDict(class, v.fields[f])
             [] OTHER -> v.fields[f]] = v.fields
    BY <2>1, <2>2
  <2>4. Written(v) = Dict(v.fields)
    BY <2>1, <2>3 DEF Written, ObjectDict, Classes
  <2>5. Dict(v.fields) # None
    BY NoneDiffers DEF Dict
  <2>6. DOMAIN Dict(v.fields).fields = {} <=> Empty(v)
    BY KeysOfDict DEF Empty
  <2>7. Read(class, Dict(v.fields)) = v
    BY <1>2, SimpleObjects
  <2>8. QED
    BY <1>2, <2>4, <2>5, <2>6, <2>7 DEF ReadUnlessEmpty
<1>3. QED
  BY <1>1, <1>2

\* What each field of a message is written as.
MessageEntries(m) ==
  [f \in Fields("AgentMessage") |->
     CASE f \in {"kind", "action", "state"} -> Plain(m[f])
       [] f \in {"payload", "policy", "lease"} -> Written(m[f])
       [] OTHER -> m[f]]

\* What is read of each field is what was written, None included.
LEMMA MessageGet ==
  ASSUME NEW m, IsMessage(m), NEW f \in Fields("AgentMessage")
  PROVE  Get("AgentMessage", MessageDict(m), f) = MessageEntries(m)[f]
<1> DEFINE e == MessageEntries(m)
<1>1. MessageDict(m) = Dict(e) /\ DOMAIN e = Fields("AgentMessage")
  BY DEF MessageDict, MessageEntries
<1>2. Get("AgentMessage", Dict(e), f) =
        IF e[f] # None THEN e[f] ELSE Default("AgentMessage", f)
  BY <1>1, GetDict
<1>3. CASE f \in {"id", "ts", "protocol"}
  <2>1. e[f] = m[f]
    BY <1>3 DEF MessageEntries
  <2>2. m[f] # None
    BY <1>3 DEF IsMessage, NotOptional
  <2>3. QED
    BY <1>1, <1>2, <2>1, <2>2
<1>4. CASE f \notin {"id", "ts", "protocol"}
  <2>1. Default("AgentMessage", f) = None
    BY <1>4 DEF Default, Fields
  <2>2. QED
    BY <1>1, <1>2, <2>1
<1>5. QED
  BY <1>3, <1>4

\* A message that was written can be read.
LEMMA MessageReadable ==
  ASSUME NEW m, IsMessage(m)
  PROVE  Readable("AgentMessage", MessageDict(m))
<1> DEFINE e == MessageEntries(m)
<1>1. MessageDict(m) = Dict(e) /\ DOMAIN e = Fields("AgentMessage")
  BY DEF MessageDict, MessageEntries
<1>2. Required("AgentMessage") = {"kind", "action", "from"}
  BY DEF Required
<1>3. {"kind", "action", "from"} \subseteq Fields("AgentMessage")
  BY DEF Fields
<1>4. e["kind"] = Plain(m["kind"]) /\ e["action"] = Plain(m["action"]) /\ e["from"] = m["from"]
  BY <1>3 DEF MessageEntries
<1>5. m["from"] # None
  BY <1>3 DEF IsMessage, NotOptional
<1>6. Plain(m["kind"]) # None /\ Plain(m["action"]) # None
  BY NameKept DEF IsMessage
<1>7. Required("AgentMessage") \subseteq DOMAIN Dict(e).fields
  BY <1>1, <1>2, <1>3, <1>4, <1>5, <1>6, KeysOfDict
<1>8. QED
  BY <1>1, <1>7 DEF Readable

\* The fields of a message that was written and read.
LEMMA ReadFields ==
  ASSUME NEW m, IsMessage(m), NEW f \in Fields("AgentMessage")
  PROVE  ReadMessage(MessageDict(m))[f] =
           IF f = "payload" THEN Written(m[f]) ELSE Meaning(m)[f]
<1> DEFINE g == Get("AgentMessage", MessageDict(m), f)
<1>1. ReadMessage(MessageDict(m))[f] =
        CASE f \in {"kind", "action", "state"} -> Coerced(f, g)
          [] f = "policy" -> ReadUnlessEmpty("AgentPolicy", g)
          [] f = "lease" -> ReadUnlessEmpty("AgentLease", g)
          [] OTHER -> g
  BY DEF ReadMessage
<1>2. g = CASE f \in {"kind", "action", "state"} -> Plain(m[f])
            [] f \in {"payload", "policy", "lease"} -> Written(m[f])
            [] OTHER -> m[f]
  BY MessageGet DEF MessageEntries
<1>3. Meaning(m)[f] =
        CASE f \in {"kind", "action", "state"} -> Coerced(f, m[f])
          [] f \in {"policy", "lease"} -> IF m[f] # None /\ Empty(m[f]) THEN None ELSE m[f]
          [] f = "payload" -> MeantPayload(m[f])
          [] OTHER -> m[f]
  BY DEF Meaning
<1> HIDE DEF g
<1>4. CASE f \in {"kind", "action", "state"}
  <2>1. m[f] = None \/ IsName(f, m[f])
    BY <1>4 DEF IsMessage
  <2>2. Coerced(f, Plain(m[f])) = Coerced(f, m[f])
    BY <2>1, NameKept, CoercedNone
  <2>3. QED
    BY <1>1, <1>2, <1>3, <1>4, <2>2
<1>5. CASE f = "policy"
  <2>1. m[f] = None \/ IsObject("AgentPolicy", m[f])
    BY <1>5 DEF IsMessage
  <2>2. ReadUnlessEmpty("AgentPolicy", Written(m[f])) =
          IF m[f] # None /\ Empty(m[f]) THEN None ELSE m[f]
    BY <2>1, PolicyKept
  <2>3. QED
    BY <1>1, <1>2, <1>3, <1>5, <2>2
<1>6. CASE f = "lease"
  <2>1. m[f] = None \/ IsObject("AgentLease", m[f])
    BY <1>6 DEF IsMessage
  <2>2. ReadUnlessEmpty("AgentLease", Written(m[f])) =
          IF m[f] # None /\ Empty(m[f]) THEN None ELSE m[f]
    BY <2>1, PolicyKept
  <2>3. QED
    BY <1>1, <1>2, <1>3, <1>6, <2>2
<1>7. CASE f = "payload"
  BY <1>1, <1>2, <1>7
<1>8. CASE f \notin {"kind", "action", "state", "policy", "lease", "payload"}
  BY <1>1, <1>2, <1>3, <1>8
<1>9. QED
  BY <1>4, <1>5, <1>6, <1>7, <1>8

\* A message's meaning but for its payload is of the annotated types: with any
\* payload of the action it is a message.
LEMMA MeaningIsMessage ==
  ASSUME NEW m, IsMessage(m), NEW r,
         r = [f \in Fields("AgentMessage") |-> r[f]],
         \A f \in Fields("AgentMessage") \ {"payload"} : r[f] = Meaning(m)[f],
         IsPayloadOf(m["action"].name, r["payload"])
  PROVE  IsMessage(r) /\ r["action"].name = m["action"].name
<1>1. \A f \in Fields("AgentMessage") \ {"payload"} :
        r[f] = CASE f \in {"kind", "action", "state"} -> Coerced(f, m[f])
                 [] f \in {"policy", "lease"} -> IF m[f] # None /\ Empty(m[f]) THEN None ELSE m[f]
                 [] OTHER -> m[f]
  BY DEF Meaning
<1>2. {"kind", "action", "state", "policy", "lease"} \subseteq Fields("AgentMessage")
  BY DEF Fields
<1>3. /\ r["kind"] = Coerced("kind", m["kind"])
      /\ r["action"] = Coerced("action", m["action"])
      /\ r["state"] = Coerced("state", m["state"])
  BY <1>1, <1>2
<1>4. /\ IsName("kind", r["kind"]) /\ r["kind"] # None
      /\ IsName("action", r["action"]) /\ r["action"] # None
      /\ r["action"].name = m["action"].name
  BY <1>3, NameKept DEF IsMessage
<1>5. r["state"] = None \/ IsName("state", r["state"])
  BY <1>3, NameKept, CoercedNone DEF IsMessage
<1>6. r["policy"] = None \/ IsObject("AgentPolicy", r["policy"])
  BY <1>1, <1>2 DEF IsMessage
<1>7. r["lease"] = None \/ IsObject("AgentLease", r["lease"])
  BY <1>1, <1>2 DEF IsMessage
<1>8. ASSUME NEW f \in Fields("AgentMessage") \cap NotOptional
      PROVE  r[f] # None
  <2>1. CASE f \in {"kind", "action"}
    BY <1>4, <2>1
  <2>2. CASE f \notin {"kind", "action"}
    <3>1. f \notin {"state", "policy", "lease", "payload"}
      BY <1>8 DEF NotOptional
    <3>2. r[f] = m[f]
      BY <1>1, <1>8, <2>2, <3>1
    <3>3. QED
      BY <1>8, <3>2 DEF IsMessage
  <2>3. QED
    BY <2>1, <2>2
<1>9. QED
  BY <1>4, <1>5, <1>6, <1>7, <1>8 DEF IsMessage

\* A message is still one after its payload is parsed, and all is parsed then.
LEMMA ParsedMessage ==
  ASSUME NEW m, IsMessage(m)
  PROVE  IsMessage(Parsed(m)) /\ Parsed(Parsed(m)) = Parsed(m)
<1> DEFINE q == Parsed(m)
<1>1. m = [f \in Fields("AgentMessage") |-> m[f]] /\ "payload" \in Fields("AgentMessage")
  BY DEF IsMessage, Fields
<1>2. /\ q = [f \in Fields("AgentMessage") |-> q[f]]
      /\ q["payload"] = ParsePayload(m["action"], m["payload"])
      /\ \A f \in Fields("AgentMessage") \ {"payload"} : q[f] = m[f]
  BY <1>1 DEF Parsed
<1>3. {"kind", "action", "state", "policy", "lease"} \subseteq Fields("AgentMessage") \ {"payload"}
  BY DEF Fields
<1>4. "payload" \notin NotOptional
  BY DEF NotOptional
<1>5. /\ IsPayloadOf(m["action"].name, ParsePayload(m["action"], m["payload"]))
      /\ ParsePayload(m["action"], q["payload"]) = q["payload"]
  BY <1>2, ParsedPayload DEF IsMessage
<1>6. q["action"] = m["action"]
  BY <1>2, <1>3
<1> HIDE DEF q
<1>7. IsMessage(q)
  BY <1>2, <1>3, <1>4, <1>5, <1>6 DEF IsMessage
<1>8. Parsed(q) = [q EXCEPT !["payload"] = q["payload"]]
  BY <1>5, <1>6 DEF Parsed
<1>9. Parsed(q) = q
  BY <1>1, <1>2, <1>8
<1>10. QED
  BY <1>7, <1>9 DEF q

\* The meaning of a message has no other meaning.
LEMMA MeaningTwice ==
  ASSUME NEW m, IsMessage(m)
  PROVE  Meaning(Meaning(m)) = Meaning(m)
<1> DEFINE q == Meaning(m)
<1>1. ASSUME NEW f \in Fields("AgentMessage")
      PROVE  Meaning(q)[f] = q[f]
  <2>1. q[f] =
          CASE f \in {"kind", "action", "state"} -> Coerced(f, m[f])
            [] f \in {"policy", "lease"} -> IF m[f] # None /\ Empty(m[f]) THEN None ELSE m[f]
            [] f = "payload" -> MeantPayload(m[f])
            [] OTHER -> m[f]
    BY DEF Meaning
  <2>2. Meaning(q)[f] =
          CASE f \in {"kind", "action", "state"} -> Coerced(f, q[f])
            [] f \in {"policy", "lease"} -> IF q[f] # None /\ Empty(q[f]) THEN None ELSE q[f]
            [] f = "payload" -> MeantPayload(q[f])
            [] OTHER -> q[f]
    BY DEF Meaning
  <2> HIDE DEF q
  <2>3. CASE f \in {"kind", "action", "state"}
    BY <2>1, <2>2, <2>3, CoercedTwice
  <2>4. CASE f \in {"policy", "lease"}
    BY <2>1, <2>2, <2>4
  <2>5. CASE f = "payload"
    <3>1. MeantPayload(MeantPayload(m[f])) = MeantPayload(m[f])
      BY <2>5, MeantPayloadTwice DEF IsMessage
    <3>2. QED
      BY <2>1, <2>2, <2>5, <3>1
  <2>6. CASE f \notin {"kind", "action", "state", "policy", "lease", "payload"}
    BY <2>1, <2>2, <2>6
  <2>7. QED
    BY <2>3, <2>4, <2>5, <2>6
<1>2. /\ Meaning(q) = [f \in Fields("AgentMessage") |-> Meaning(q)[f]]
      /\ q = [f \in Fields("AgentMessage") |-> q[f]]
  BY DEF Meaning
<1> HIDE DEF q
<1>3. QED
  BY <1>1, <1>2 DEF q

\* Written and read, a message is one again, and parsed it is what the first
\* meant.
THEOREM RoundTrip ==
  ASSUME NEW m, IsMessage(m)
  PROVE  /\ IsMessage(ReadMessage(MessageDict(m)))
         /\ Parsed(ReadMessage(MessageDict(m))) = Meaning(Parsed(m))
<1> DEFINE r == ReadMessage(MessageDict(m))
           q == Parsed(m)
<1>1. "payload" \in Fields("AgentMessage") /\ "action" \in Fields("AgentMessage") \ {"payload"}
  BY DEF Fields
<1>2. r = [f \in Fields("AgentMessage") |-> r[f]]
  BY DEF ReadMessage
<1>3. \A f \in Fields("AgentMessage") \ {"payload"} : r[f] = Meaning(m)[f]
  BY ReadFields
<1>4. r["payload"] = Written(m["payload"])
  BY <1>1, ReadFields
<1>5. /\ q["payload"] = ParsePayload(m["action"], m["payload"])
      /\ \A f \in Fields("AgentMessage") \ {"payload"} : q[f] = m[f]
  BY <1>1 DEF Parsed, IsMessage
<1> HIDE DEF r, q
<1>6. /\ IsPayloadOf(m["action"].name, r["payload"])
      /\ ParsePayload(m["action"], r["payload"]) = MeantPayload(q["payload"])
  BY <1>4, <1>5, PayloadRelayed DEF IsMessage
<1>7. IsMessage(r) /\ r["action"].name = m["action"].name
  BY <1>2, <1>3, <1>6, MeaningIsMessage
<1>8. ParsePayload(r["action"], r["payload"]) = ParsePayload(m["action"], r["payload"])
  BY <1>7 DEF ParsePayload, Parses
<1>9. Parsed(r) = [f \in Fields("AgentMessage") |->
                     IF f = "payload" THEN MeantPayload(q["payload"]) ELSE r[f]]
  BY <1>1, <1>2, <1>6, <1>8 DEF Parsed
<1>10. ASSUME NEW f \in Fields("AgentMessage")
       PROVE  Meaning(q)[f] = IF f = "payload" THEN MeantPayload(q["payload"]) ELSE r[f]
  <2>1. Meaning(q)[f] =
          CASE f \in {"kind", "action", "state"} -> Coerced(f, q[f])
            [] f \in {"policy", "lease"} -> IF q[f] # None /\ Empty(q[f]) THEN None ELSE q[f]
            [] f = "payload" -> MeantPayload(q[f])
            [] OTHER -> q[f]
    BY DEF Meaning
  <2>2. Meaning(m)[f] =
          CASE f \in {"kind", "action", "state"} -> Coerced(f, m[f])
            [] f \in {"policy", "lease"} -> IF m[f] # None /\ Empty(m[f]) THEN None ELSE m[f]
            [] f = "payload" -> MeantPayload(m[f])
            [] OTHER -> m[f]
    BY DEF Meaning
  <2>3. CASE f = "payload"
    BY <2>1, <2>3
  <2>4. CASE f # "payload"
    <3>1. q[f] = m[f] /\ r[f] = Meaning(m)[f]
      BY <1>3, <1>5, <1>10, <2>4
    <3>2. Meaning(q)[f] = Meaning(m)[f]
      BY <2>1, <2>2, <2>4, <3>1
    <3>3. QED
      BY <2>4, <3>1, <3>2
  <2>5. QED
    BY <2>3, <2>4
<1>11. Meaning(q) = [f \in Fields("AgentMessage") |-> Meaning(q)[f]]
  BY DEF Meaning
<1>12. Parsed(r) = Meaning(q)
  BY <1>9, <1>10, <1>11
<1>13. QED
  BY <1>7, <1>12 DEF r, q

-----------------------------------------------------------------------------
(* Building.                                                               *)

\* Each function gives a message the action that its payload belongs to, and a
\* kind and an action that there are.
LEMMA BuiltNames ==
  ASSUME NEW class \in Payloads
  PROVE  /\ PayloadClass(Built(class).action) = class
         /\ Built(class).action \in EnumOf("action")
         /\ Built(class).kind \in EnumOf("kind")
BY DEF Payloads, Built, PayloadClass, EnumOf

\* What the functions build from an object and keywords of the annotated types
\* is a message that MessagesAssumption speaks of: a payload is never sent under
\* an action that its readers would parse as another class
\* (agent_contract.py:436-556).
THEOREM BuiltIsMessage ==
  ASSUME NEW class, NEW p, IsPayload(class, p), NEW given, IsGiven(given)
  PROVE  IsMessage(BuiltMessage(p, given))
<1> DEFINE m == BuiltMessage(p, given)
           keys == DOMAIN given \cup {"kind", "action", "payload"}
           all == [f \in keys |->
                     CASE f = "action" -> Member(Built(p.class).action)
                       [] f = "payload" -> p
                       [] f \in DOMAIN given -> given[f]
                       [] OTHER -> Member(Built(p.class).kind)]
<1>1. p.class = class /\ class \in Payloads
  BY DEF IsPayload, IsObject
<1>2. {"kind", "action", "state", "policy", "lease", "payload", "from"} \subseteq
        Fields("AgentMessage")
  BY DEF Fields
<1>3. m = [f \in Fields("AgentMessage") |->
             IF f \in {"id", "ts"} THEN Own
             ELSE IF f \in keys THEN all[f] ELSE Default("AgentMessage", f)]
  BY DEF BuiltMessage, NewMessage
<1>4. DOMAIN given \subseteq Fields("AgentMessage") \ {"id", "ts", "action", "payload"}
      /\ "from" \in DOMAIN given
  BY DEF IsGiven
<1>5. /\ all["action"] = Member(Built(class).action)
      /\ all["payload"] = p
      /\ \A f \in DOMAIN given : all[f] = given[f]
      /\ "kind" \notin DOMAIN given => all["kind"] = Member(Built(class).kind)
  BY <1>1, <1>4
<1> HIDE DEF m, all
<1>6. m["action"] = Member(Built(class).action) /\ m["payload"] = p
  BY <1>2, <1>3, <1>5
<1>7. \A f \in DOMAIN given : m[f] = given[f]
  BY <1>3, <1>4, <1>5
<1>8. /\ "kind" \notin DOMAIN given => m["kind"] = Member(Built(class).kind)
      /\ \A f \in {"state", "policy", "lease"} :
           f \notin DOMAIN given => m[f] = Default("AgentMessage", f)
  BY <1>2, <1>3, <1>5
<1>9. \A f \in {"state", "policy", "lease"} : Default("AgentMessage", f) = None
  BY DEF Default
<1>10. IsName("kind", m["kind"])
  <2>1. CASE "kind" \in DOMAIN given
    BY <1>7, <2>1 DEF IsGiven
  <2>2. CASE "kind" \notin DOMAIN given
    BY <1>1, <1>8, <2>2, BuiltNames DEF IsName, Member
  <2>3. QED
    BY <2>1, <2>2
<1>11. IsName("action", m["action"]) /\ m["action"].name = Built(class).action
  BY <1>1, <1>6, BuiltNames DEF IsName, Member
<1>12. m["state"] = None \/ IsName("state", m["state"])
  BY <1>7, <1>8, <1>9 DEF IsGiven
<1>13. m["policy"] = None \/ IsObject("AgentPolicy", m["policy"])
  BY <1>7, <1>8, <1>9 DEF IsGiven
<1>14. m["lease"] = None \/ IsObject("AgentLease", m["lease"])
  BY <1>7, <1>8, <1>9 DEF IsGiven
<1>15. IsPayloadOf(m["action"].name, m["payload"])
  BY <1>1, <1>6, <1>11, BuiltNames DEF IsPayloadOf
<1>16. ASSUME NEW f \in Fields("AgentMessage") \cap NotOptional
       PROVE  m[f] # None
  <2>1. CASE f \in DOMAIN given
    BY <1>7, <2>1 DEF IsGiven
  <2>2. CASE f \in {"kind", "action"}
    BY <1>10, <1>11, <2>2, NameKept
  <2>3. CASE f \in {"id", "ts"}
    BY <1>3, <1>16, <2>3, OwnAssumption
  <2>4. CASE f = "protocol" /\ f \notin DOMAIN given
    <3>1. m[f] = Default("AgentMessage", f)
      BY <1>3, <1>16, <2>4
    <3>2. QED
      BY <2>4, <3>1, NoneDiffers DEF Default
  <2>5. f \in {"id", "ts", "protocol", "kind", "action", "from"}
    BY <1>16 DEF Fields, NotOptional
  <2>6. QED
    BY <1>4, <2>1, <2>2, <2>3, <2>4, <2>5
<1>17. m = [f \in Fields("AgentMessage") |-> m[f]]
  BY <1>3
<1>18. QED
  BY <1>10, <1>12, <1>11, <1>13, <1>14, <1>15, <1>16, <1>17 DEF IsMessage, m

-----------------------------------------------------------------------------
(* The relay.                                                              *)

\* The messages that agents send are of the annotated types; the first is
\* written so that whoever reads it understands it.
LEMMA RelayInit == Init => RelayInv
<1> SUFFICES ASSUME Init PROVE RelayInv
  OBVIOUS
<1>1. IsMessage(sent)
  BY MessagesAssumption DEF Init
<1>2. /\ Readable("AgentMessage", wire)
      /\ IsMessage(ReadMessage(wire))
      /\ Parsed(ReadMessage(wire)) = Meaning(Parsed(sent))
  BY <1>1, MessageReadable, RoundTrip DEF Init
<1>3. QED
  BY <1>1, <1>2 DEF Init, RelayInv

\* Every step keeps the meaning.
LEMMA RelayNext == RelayInv /\ [Next]_vars => RelayInv'
<1> SUFFICES ASSUME RelayInv, [Next]_vars PROVE RelayInv'
  OBVIOUS
<1> DEFINE meaning == Meaning(Parsed(sent))
<1>1. /\ IsMessage(sent)
      /\ held # None => IsMessage(held) /\ Parsed(held) = meaning
      /\ wire # None =>
           /\ Readable("AgentMessage", wire)
           /\ IsMessage(ReadMessage(wire)) /\ Parsed(ReadMessage(wire)) = meaning
  BY DEF RelayInv
<1>2. Meaning(meaning) = meaning
  BY <1>1, ParsedMessage, MeaningTwice
<1>3. CASE Marshal
  <2>1. IsMessage(held) /\ Parsed(held) = meaning
    BY <1>1, <1>3 DEF Marshal
  <2>2. /\ Readable("AgentMessage", MessageDict(held))
        /\ IsMessage(ReadMessage(MessageDict(held)))
        /\ Parsed(ReadMessage(MessageDict(held))) = meaning
    BY <1>2, <2>1, MessageReadable, RoundTrip
  <2>3. QED
    BY <1>1, <1>3, <2>2 DEF Marshal, RelayInv
<1>4. CASE Unmarshal
  BY <1>1, <1>4 DEF Unmarshal, RelayInv
<1>5. CASE Parse
  <2>1. IsMessage(held) /\ Parsed(held) = meaning /\ held' = Parsed(held)
    BY <1>1, <1>5 DEF Parse, Parsed
  <2>2. IsMessage(Parsed(held)) /\ Parsed(Parsed(held)) = meaning
    BY <2>1, ParsedMessage
  <2>3. QED
    BY <1>1, <1>5, <2>1, <2>2 DEF Parse, RelayInv
<1>6. CASE UNCHANGED vars
  BY <1>1, <1>6 DEF vars, RelayInv
<1>7. QED
  BY <1>3, <1>4, <1>5, <1>6 DEF Next

\* A message at hand or on its way is one that an agent may send, and read anew
\* it has the meaning of the first.
THEOREM RelaysAreFaithful == Spec => []RelayInv
<1>1. QED
  BY RelayInit, RelayNext, PTL DEF Spec

\* However many agents pass a message on, and whichever of them parse its
\* payload, it means what it meant to the first (agent_contract.py:344-433).
THEOREM MeaningSurvivesRelays == Spec => []RelayPreserves
<1>1. RelayInv => RelayPreserves
  BY DEF RelayInv, RelayPreserves
<1>2. QED
  BY <1>1, RelaysAreFaithful, PTL

\* What an agent writes the next can read: from_dict and parse_payload find all
\* they insist on.
THEOREM WrittenIsReadable == Spec => []NeverRefused
<1>1. RelayInv => NeverRefused
  <2> SUFFICES ASSUME RelayInv PROVE NeverRefused
    OBVIOUS
  <2>1. wire # None => Readable("AgentMessage", wire)
    BY DEF RelayInv
  <2>2. ASSUME held # None, Parses(held["action"], held["payload"])
        PROVE  Readable(PayloadClass(held["action"].name), held["payload"])
    <3>1. IsPayloadOf(held["action"].name, held["payload"])
      BY <2>2 DEF RelayInv, IsMessage
    <3>2. held["payload"].class = "dict" /\ PayloadClass(held["action"].name) # "dict"
      BY <2>2 DEF Parses
    <3>3. ~IsPayload(PayloadClass(held["action"].name), held["payload"])
      BY <3>2 DEF IsPayload, IsObject
    <3>4. QED
      BY <3>1, <3>2, <3>3 DEF IsPayloadOf
  <2>3. QED
    BY <2>1, <2>2 DEF NeverRefused
<1>2. QED
  BY <1>1, RelaysAreFaithful, PTL

=============================================================================
