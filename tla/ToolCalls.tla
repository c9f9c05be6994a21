----------------------------- MODULE ToolCalls -----------------------------
(***************************************************************************)
(* Tool calls between the client and the model: parse_xml_function,        *)
(* schema_types and coerce_to_schema read a call the model has written,    *)
(* render_tool_call and write_tojson show it to the model in the next      *)
(* request (crates/qwc-engine/src/bin/serve.rs).                           *)
(*                                                                         *)
(* A call is a sequence of symbols: [tag |-> "function" or "parameter",    *)
(* name] for an opening tag with its name, CloseFn and CloseParam for the  *)
(* closing ones, Space, and texts.  A text is a record that says what it   *)
(* parses to: as i64, as f64, as a boolean word and as JSON.               *)
(***************************************************************************)
EXTENDS Naturals, Sequences, SequencesExt

CONSTANTS
  Texts,      \* [text, int, float, bool, json]: Fails where it does not parse
  Schemas,    \* [type, enum, choices]: the schema of a parameter
  Functions,  \* the names a call may have; "" is one
  KnownTool,  \* the tool of the request
  Pieces,     \* what the model writes, a piece at a time
  MaxPieces   \* bound: pieces of a call

VARIABLES
  properties,  \* the parameters of the tool with their schemas
  call,        \* the text between <tool_call> and </tool_call>
  pieces,      \* how many pieces it has
  parsed,      \* what the client got; NoCall: not read as a call
  again        \* what it gets when the model repeats the call it is shown

callsVars == <<properties, call, pieces, parsed, again>>

Fails == [kind |-> "fails", of |-> ""]
NoCall == [name |-> "", arguments |-> <<>>]
CloseFn == [tag |-> "/function", name |-> ""]
CloseParam == [tag |-> "/parameter", name |-> ""]
Space == [tag |-> "space", name |-> ""]
Text(t) == [tag |-> "text", name |-> t]
String(s) == [kind |-> "string", of |-> s]

-----------------------------------------------------------------------------
(* Schemas.                                                                *)

\* The names a leaf declares: `type`, and the kinds of its `enum`; none is a string.
Declared(types) == IF types = {} THEN {"string"} ELSE types

\* schema_types, with choices one level deep; one that declares nothing counts as a string.
SchemaTypes(s) == Declared(s.type \cup s.enum \cup UNION {Declared(c) : c \in s.choices})

Alias(name) ==
  CASE name = "int" -> "integer" [] name = "float" -> "number" [] name = "bool" -> "boolean"
    [] name = "str" -> "string" [] name = "dict" -> "object" [] name = "list" -> "array"
    [] OTHER -> name

-----------------------------------------------------------------------------
(* Values.                                                                 *)

\* What a text of one symbol parses to; longer texts have a tag in them and parse to nothing.
As(raw, field) ==
  IF Len(raw) = 1 /\ raw[1].tag = "text"
  THEN (CHOOSE t \in Texts : t.text = raw[1].name)[field]
  ELSE Fails

\* from_str(raw), or the raw text.
JsonOrText(raw) == IF As(raw, "json") # Fails THEN As(raw, "json") ELSE String(raw)

\* Mutant of Coerce: JSON is tried first, whatever the schema says.
CoerceJsonFirst(raw, types) == JsonOrText(raw)

\* The attempts, in this order, and the types that ask for them.
Attempts ==
  <<[types |-> {"null"}, field |-> "null"], [types |-> {"integer"}, field |-> "int"],
    [types |-> {"number"}, field |-> "float"], [types |-> {"boolean"}, field |-> "bool"],
    [types |-> {"object", "array"}, field |-> "json"]>>

\* coerce_to_schema: the first attempt that is asked for and succeeds.
Coerce(raw, types) ==
  LET names == {Alias(t) : t \in types}
      read == SelectSeq(Attempts, LAMBDA a : a.types \cap names # {} /\ As(raw, a.field) # Fails)
  IN  IF read # <<>> THEN As(raw, read[1].field)
      ELSE IF "string" \in names THEN String(raw) ELSE JsonOrText(raw)

\* str::trim.
Trim(s) ==
  LET solid == {i \in DOMAIN s : s[i] # Space}
      first == CHOOSE i \in solid : \A j \in solid : i <= j
      final == CHOOSE i \in solid : \A j \in solid : i >= j
  IN  IF solid = {} THEN <<>> ELSE SubSeq(s, first, final)

IsParam(x) == x.tag = "parameter"
IsEnd(x) == x = CloseParam

\* Mutant of Insert: a key that comes twice is kept twice.
InsertTwice(arguments, key, value) == Append(arguments, [key |-> key, value |-> value])

\* Mutant of Insert: a map that does not keep its order.
InsertFirst(arguments, key, value) ==
  <<[key |-> key, value |-> value]>> \o SelectSeq(arguments, LAMBDA a : a.key # key)

\* Insertion into a map that keeps its order: an old key keeps its place.
Insert(arguments, key, value) ==
  IF \E i \in DOMAIN arguments : arguments[i].key = key
  THEN [i \in DOMAIN arguments |->
          IF arguments[i].key = key THEN [key |-> key, value |-> value] ELSE arguments[i]]
  ELSE Append(arguments, [key |-> key, value |-> value])

\* The value of a parameter of the tool `name`.
Value(name, key, raw) ==
  IF name = KnownTool /\ key \in DOMAIN properties
  THEN Coerce(raw, SchemaTypes(properties[key]))
  ELSE JsonOrText(raw)

\* The loop over the body: every parameter that opens must be closed, or there is no call.
RECURSIVE Arguments(_, _, _)
Arguments(name, body, arguments) ==
  IF SelectInSeq(body, IsParam) = 0 THEN [name |-> name, arguments |-> arguments]
  ELSE LET begin == SelectInSeq(body, IsParam)
           rest == SubSeq(body, begin + 1, Len(body))
           end == SelectInSeq(rest, IsEnd)
           raw == Trim(SubSeq(rest, 1, end - 1))
           key == body[begin].name
       IN  IF end = 0 THEN NoCall
           ELSE Arguments(name, SubSeq(rest, end + 1, Len(rest)),
                          Insert(arguments, key, Value(name, key, raw)))

\* parse_xml_function: a name, and a body up to the first closing tag of the function.
ParseXmlFunction(c) ==
  LET isFunction(x) == x.tag = "function"
      isClose(x) == x = CloseFn
      begin == SelectInSeq(c, isFunction)
      rest == SubSeq(c, begin + 1, Len(c))
      close == SelectInSeq(rest, isClose)
  IN  IF begin = 0 \/ c[begin].name = "" \/ close = 0 THEN NoCall
      ELSE Arguments(c[begin].name, SubSeq(rest, 1, close - 1), <<>>)

-----------------------------------------------------------------------------
(* What the model is shown.                                                *)

\* write_tojson: the text of a value that is not a string.
ToJson(value) ==
  <<Text((CHOOSE t \in Texts : t.json = value /\ t.canonical).text)>>

\* Mutant of Shown: strings are shown as JSON, too.
ShownAsJson(value) ==
  IF value.kind # "string" THEN ToJson(value)
  ELSE IF \E t \in Texts : t.json = value THEN ToJson(value) ELSE value.of

Shown(value) == IF value.kind = "string" THEN value.of ELSE ToJson(value)

\* render_tool_call: a parameter after the other.
RenderToolCall(c) ==
  LET param(a) == <<[tag |-> "parameter", name |-> a.key], Space>> \o Shown(a.value)
                    \o <<Space, CloseParam>>
  IN  <<[tag |-> "function", name |-> c.name], Space>>
        \o FoldLeft(LAMBDA text, a : text \o param(a), <<>>, c.arguments) \o <<CloseFn>>

-----------------------------------------------------------------------------
Unread == [name |-> "?", arguments |-> <<>>]

CallsInit ==
  /\ properties \in {[k \in {"a"} |-> s] : s \in Schemas} \cup {<<>>}
  /\ call \in {<<[tag |-> "function", name |-> f]>> : f \in Functions} \cup {<<>>}
  /\ pieces = 0 /\ parsed = Unread /\ again = Unread

\* The model writes on.
Write(piece) ==
  /\ pieces < MaxPieces /\ parsed = Unread
  /\ call' = call \o piece
  /\ pieces' = pieces + 1
  /\ UNCHANGED <<properties, parsed, again>>

\* The call ends: parse_assistant hands it over.
Parse ==
  /\ parsed = Unread
  /\ parsed' = ParseXmlFunction(call)
  /\ UNCHANGED <<properties, call, pieces, again>>

\* The next request shows the call to the model, which writes it once more.
Repeat ==
  /\ parsed \notin {Unread, NoCall} /\ again = Unread
  /\ again' = ParseXmlFunction(RenderToolCall(parsed))
  /\ UNCHANGED <<properties, call, pieces, parsed>>

CallsNext == Parse \/ Repeat \/ \E piece \in Pieces : Write(piece)

CallsSpec == CallsInit /\ [][CallsNext]_callsVars

-----------------------------------------------------------------------------
(* Properties.                                                             *)

Kinds == {"null", "integer", "number", "boolean", "object", "array", "string"}

CallsTypeOK ==
  /\ pieces \in 0..MaxPieces
  /\ \A c \in {parsed, again} : \A i \in DOMAIN c.arguments :
       /\ c.arguments[i].value.kind \in Kinds
       /\ \A j \in DOMAIN c.arguments : c.arguments[j].key = c.arguments[i].key => i = j

\* The types declared for the parameter a, without their aliases.
TypesOfA == {Alias(t) : t \in SchemaTypes(properties["a"])}

\* Value v is of one of the types; a whole number is a number.
OfType(v, types) == v.kind \in types \/ (v.kind = "integer" /\ "number" \in types)

\* The arguments a of a call are of the types.
Typed(c, types) ==
  \A i \in DOMAIN c.arguments :
    c.arguments[i].key = "a" => OfType(c.arguments[i].value, types)

\* The test tool_arguments_follow_schema_types: a parameter that may be a string, so that every
\* text stands for a value of its schema, has a value of its schema.  Objects and arrays are
\* set apart: a text may be JSON for another type.
ScalarsTyped ==
  properties # <<>> /\ parsed.name = KnownTool =>
    ("string" \in TypesOfA /\ TypesOfA \cap {"object", "array"} = {} => Typed(parsed, TypesOfA))

\* A string that is JSON for something else without its quotes: the template loses them.
LosesQuotes(v) == v.kind = "string" /\ As(v.of, "json") # Fails

\* A call that the model is shown in its history and repeats is read as the same call: what
\* the client's tools got does not drift from turn to turn, but for strings whose quotes the
\* template drops.
RepeatsAlike ==
  again # Unread =>
    \/ again = parsed
    \/ \E i \in DOMAIN parsed.arguments : LosesQuotes(parsed.arguments[i].value)

\* A call is repeated as a call, with the same parameters, whatever its values are.
RepeatsWhole ==
  again # Unread =>
    /\ again.name = parsed.name
    /\ [i \in DOMAIN again.arguments |-> again.arguments[i].key]
         = [i \in DOMAIN parsed.arguments |-> parsed.arguments[i].key]

\* Calls have values of their schemas and survive being shown and repeated.
CallsFaithful == CallsTypeOK /\ ScalarsTyped /\ RepeatsAlike /\ RepeatsWhole

=============================================================================
