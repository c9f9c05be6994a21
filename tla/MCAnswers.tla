------------------------------ MODULE MCAnswers ------------------------------
(* The making of an answer, for TLC: how its tokens are drafted and verified *)
(* (Drafting), how the messages before it become a prompt (ChatTemplate),    *)
(* how its tokens become deltas (TextStream) and how the calls in it become  *)
(* values and text again (ToolCalls).  A behaviour is of one of the four;    *)
(* the others rest.                                                          *)
EXTENDS Drafting, ToolCalls, TLC

-----------------------------------------------------------------------------
(* Drafting: two turns of a dialog and another dialog with the same system   *)
(* prompt.                                                                   *)

CONSTANTS turn1, turn2, other

MCIds == {turn1, turn2, other}

MCPrompt == turn1 :> <<1, 2, 0>> @@ turn2 :> <<1, 2, 0, 1>> @@ other :> <<1, 0>>

MCFrequent == <<0>>

\* Every history picks a token of its own kind.
MCModel(h) == (Last(h) + Len(h)) % 4

-----------------------------------------------------------------------------
(* ToolCalls: texts that parse as several things, written whole, broken and  *)
(* nested.                                                                   *)

Val(k, o) == [kind |-> k, of |-> o]

\* A row: the text, and what it is as null, i64, f64, boolean word and JSON; canonical: it is
\* how write_tojson shows its JSON value.
Row(text, null, int, float, bool, json, canonical) ==
  [text |-> text, null |-> null, int |-> int, float |-> float, bool |-> bool, json |-> json,
   canonical |-> canonical]

No == Fails
Whole(n) == Val("integer", n)

MCTexts ==
  { Row("word", No, No, No, No, No, FALSE),
    Row("null", Val("null", ""), No, No, No, Val("null", ""), TRUE),
    Row("NULL", Val("null", ""), No, No, No, No, FALSE),
    Row("True", No, No, No, Val("boolean", "true"), No, FALSE),
    Row("true", No, No, No, Val("boolean", "true"), Val("boolean", "true"), TRUE),
    Row("1", No, Whole("1"), Whole("1"), Val("boolean", "true"), Whole("1"), TRUE),
    Row("7", No, Whole("7"), Whole("7"), No, Whole("7"), TRUE),
    Row("7.0", No, No, Whole("7"), No, Val("number", "7.0"), TRUE),
    Row("7.5", No, No, Val("number", "7.5"), No, Val("number", "7.5"), TRUE),
    Row("[]", No, No, No, No, Val("array", ""), TRUE),
    Row("'word'", No, No, No, No, String(<<Text("word")>>), TRUE),
    Row("'7'", No, No, No, No, String(<<Text("7")>>), TRUE) }

Leaf(types) == [type |-> types, enum |-> {}, choices |-> {}]

MCSchemas ==
  {Leaf(t) : t \in {{}, {"str"}, {"integer"}, {"number", "null"}, {"bool"}, {"array"},
                    {"int", "string"}, {"null", "string"}, {"list", "string"}}}
    \cup {[type |-> {}, enum |-> {"string", "integer"}, choices |-> {}],
          [type |-> {"null"}, enum |-> {}, choices |-> {{"integer"}, {}}]}

Param(k) == [tag |-> "parameter", name |-> k]

MCPieces ==
  {<<Param("a"), Space, Text(t.text), CloseParam>> : t \in MCTexts}
    \cup {<<Param("b"), Text("'7'"), CloseParam>>, <<Param("b")>>, <<CloseParam>>, <<CloseFn>>,
          <<Space, Text("word")>>}


-----------------------------------------------------------------------------
(* ChatTemplate.                                                             *)
CONSTANTS Blank, Picture, MaxTurns

Hello == {"hello"}

ASSUME ChatAssumption == MaxTurns \in Nat /\ Blank \notin Hello /\ Picture \notin Hello

VARIABLES settings, messages, previous, answered

templateVars == <<settings, messages, previous, answered>>

Template == INSTANCE ChatTemplate WITH Texts <- Hello

-----------------------------------------------------------------------------
(* TextStream: tokens that split characters, tags and stop strings.          *)
CONSTANT MaxTokens

Tokens ==
  {<<"a">>, <<" ">>, <<"<">>, <<"a", "<">>, <<"t", ">">>, <<"f", "/">>, <<"/">>, <<"hi">>, <<"lo">>}

Stops == {{}, {<<"a", " ", "a">>, <<"E">>}}

VARIABLES buffered, stop, bytes, count, rendered, streamed, sent, stage

streamVars == <<buffered, stop, bytes, count, rendered, streamed, sent, stage>>

Stream == INSTANCE TextStream WITH Pieces <- Tokens, StopSets <- Stops

-----------------------------------------------------------------------------
VARIABLE part

NoTemplate == settings = <<>> /\ messages = <<>> /\ previous = <<>> /\ answered = FALSE

NoStream ==
  /\ buffered = FALSE /\ stop = {} /\ bytes = <<>> /\ count = 0
  /\ rendered = <<>> /\ streamed = 0 /\ sent = <<>> /\ stage = "run"

NoCalls == properties = <<>> /\ call = <<>> /\ CallsInit

AnswersInit ==
  \/ part = "drafting" /\ Init /\ NoCalls /\ NoTemplate /\ NoStream
  \/ part = "calls" /\ CallsInit /\ Init /\ NoTemplate /\ NoStream
  \/ part = "template" /\ Template!Init /\ Init /\ NoCalls /\ NoStream
  \/ part = "stream" /\ Stream!Init /\ Init /\ NoCalls /\ NoTemplate

AnswersNext ==
  /\ UNCHANGED part
  /\ \/ part = "drafting" /\ Next /\ UNCHANGED <<callsVars, templateVars, streamVars>>
     \/ part = "calls" /\ CallsNext /\ UNCHANGED <<vars, templateVars, streamVars>>
     \/ part = "template" /\ Template!Next /\ UNCHANGED <<vars, callsVars, streamVars>>
     \/ part = "stream" /\ Stream!Next /\ UNCHANGED <<vars, callsVars, templateVars>>

AnswersSpec ==
  AnswersInit /\ [][AnswersNext]_<<vars, callsVars, templateVars, streamVars, part>>

-----------------------------------------------------------------------------

\* The prompts of a dialog are well formed and each begins as the last did.
PromptsContinue == part = "template" => Template!PromptsContinue

\* The deltas of a stream are stable, add up and have no markup of a call.
StreamFaithful == part = "stream" => Stream!StreamFaithful

=============================================================================
