----------------------------- MODULE TextStream -----------------------------
(***************************************************************************)
(* The text of an answer on its way to the client: emit_token,             *)
(* before_tool_call and finish_text of the worker, parse_assistant and     *)
(* stream_events of the HTTP side (crates/qwc-engine/src/bin/serve.rs).    *)
(*                                                                         *)
(* A text is a sequence of symbols.  "hi" and "lo" are the bytes of the    *)
(* character "E", "R" the replacement marker; Tag is `<tool_call>` taken   *)
(* apart, "/" is `</tool_call>`, and a body with an "f" in it is one that  *)
(* parse_xml_function can read.  " " is white space.                       *)
(***************************************************************************)
EXTENDS Integers, Sequences, SequencesExt, FiniteSets

CONSTANTS
  Pieces,     \* what the tokens decode to, as sequences of bytes
  MaxTokens,  \* max_new_tokens
  StopSets    \* the stop strings a request may come with

VARIABLES
  buffered,  \* ActiveJob::buffer_output: the request has tools
  stop,      \* ActiveJob::stop
  bytes,     \* the bytes of ActiveJob::output
  count,     \* the length of ActiveJob::output
  rendered,  \* ActiveJob::rendered
  streamed,  \* ActiveJob::streamed
  sent,      \* the deltas the client has got
  stage      \* "run", "stopped" by a stop string, "done"

vars == <<buffered, stop, bytes, count, rendered, streamed, sent, stage>>

Tag == <<"<", "t", ">">>

-----------------------------------------------------------------------------
(* Texts.                                                                  *)

\* Places where t begins in s, from 1.
Occurrences(s, t) ==
  {i \in 1..(Len(s) - Len(t) + 1) : SubSeq(s, i, i + Len(t) - 1) = t}

Least(S) == CHOOSE i \in S : \A j \in S : i <= j

After(s, n) == SubSeq(s, n + 1, Len(s))

\* Tokenizer::decode of all output: a byte that is half a character becomes the
\* replacement marker.
Decoded(b) ==
  LET step(d, x) ==
        LET out == IF d.half /\ x # "lo" THEN Append(d.out, "R") ELSE d.out
        IN  IF x = "hi" THEN [out |-> out, half |-> TRUE]
            ELSE [out |-> Append(out, IF x # "lo" THEN x ELSE IF d.half THEN "E" ELSE "R"),
                  half |-> FALSE]
      all == FoldLeft(step, [out |-> <<>>, half |-> FALSE], b)
  IN  IF all.half THEN Append(all.out, "R") ELSE all.out

StopsAt(text) == UNION {Occurrences(text, s) : s \in stop}

\* The text up to the first stop string.
Visible(text) == IF StopsAt(text) = {} THEN text ELSE SubSeq(text, 1, Least(StopsAt(text)) - 1)

\* Mutant of Stable: replacement markers at the end are streamed.
StableAll(text) == text

\* trim_end_matches: a later token may complete the character.
Stable(text) ==
  SubSeq(text, 1, Len(text) - Least({n \in 0..Len(text) : n = Len(text) \/ text[Len(text) - n] # "R"}))

\* Mutant of BeforeToolCall: only a tag that is complete is held back.
BeforeWholeTag(text) ==
  IF Occurrences(text, Tag) # {} THEN Least(Occurrences(text, Tag)) - 1 ELSE Len(text)

\* before_tool_call: up to the first tag, or to a tail that may become one.
BeforeToolCall(text) ==
  IF Occurrences(text, Tag) # {} THEN Least(Occurrences(text, Tag)) - 1
  ELSE Len(text) - Least({n \in 0..Len(text) : \A m \in (n + 1)..(Len(Tag) - 1) :
                            ~IsSuffix(SubSeq(Tag, 1, m), text)})

-----------------------------------------------------------------------------
(* parse_assistant.                                                        *)

Trim(s) ==
  LET solid == {i \in DOMAIN s : s[i] # " "}
  IN  IF solid = {} THEN <<>>
      ELSE SubSeq(s, Least(solid), CHOOSE i \in solid : \A j \in solid : i >= j)

\* The calls of a text, and what is left as content: a body that cannot be read
\* and a call that does not end stay where they are.
RECURSIVE Parts(_)
Parts(s) ==
  LET tags == Occurrences(s, Tag)
      begin == Least(tags) - 1
      body == After(s, begin + Len(Tag))
      ends == Occurrences(body, <<"/">>)
      call == SubSeq(body, 1, Least(ends) - 1)
      rest == Parts(After(body, Least(ends)))
  IN  IF tags = {} \/ ends = {} THEN [content |-> s, calls |-> <<>>]
      ELSE IF Contains(call, "f")
      THEN [content |-> SubSeq(s, 1, begin) \o rest.content, calls |-> <<call>> \o rest.calls]
      ELSE [content |-> SubSeq(s, 1, begin + Len(Tag) + Least(ends)) \o rest.content,
            calls |-> rest.calls]

ParseAssistant(s) == [content |-> Trim(Parts(s).content), calls |-> Parts(s).calls]

-----------------------------------------------------------------------------
(* The worker.                                                             *)

Init ==
  /\ buffered \in BOOLEAN /\ stop \in StopSets
  /\ bytes = <<>> /\ count = 0
  /\ rendered = <<>> /\ streamed = 0 /\ sent = <<>>
  /\ stage = "run"

\* Mutant of Running: a token more than the request allows.
RunningOneMore == stage = "run" /\ count <= MaxTokens

Running == stage = "run" /\ count < MaxTokens

\* emit_token.
Emit(piece) ==
  LET text == Decoded(bytes \o piece)
      stable == Stable(Visible(text))
      shown == IF IsPrefix(rendered, stable) THEN stable ELSE rendered
      safe == BeforeToolCall(shown)
  IN  /\ Running
      /\ bytes' = bytes \o piece
      /\ count' = count + 1
      /\ rendered' = shown
      /\ IF buffered
         THEN IF safe > streamed
              THEN streamed' = safe /\ sent' = sent \o SubSeq(shown, streamed + 1, safe)
              ELSE UNCHANGED <<streamed, sent>>
         ELSE sent' = sent \o After(shown, Len(rendered)) /\ UNCHANGED streamed
      /\ stage' = IF StopsAt(text) # {} THEN "stopped" ELSE stage
      /\ UNCHANGED <<buffered, stop>>

\* Mutant of Finish: what was held back is not sent.
FinishSilently ==
  /\ stage # "done"
  /\ rendered' = Visible(Decoded(bytes))
  /\ stage' = "done"
  /\ UNCHANGED <<buffered, stop, bytes, count, streamed, sent>>

\* finish_text, after a stop string, the last token or one that ends the text.
Finish ==
  LET visible == Visible(Decoded(bytes))
  IN  /\ stage # "done"
      /\ sent' = IF ~buffered /\ IsPrefix(rendered, visible)
                 THEN sent \o After(visible, Len(rendered)) ELSE sent
      /\ rendered' = visible
      /\ stage' = "done"
      /\ UNCHANGED <<buffered, stop, bytes, count, streamed>>

Next == Finish \/ \E piece \in Pieces : Emit(piece)

Spec == Init /\ [][Next]_vars

-----------------------------------------------------------------------------
(* What the client makes of it.                                            *)

\* stream_events of Done: the last delta of a request with tools.
LastDelta ==
  ParseAssistant(After(rendered, IF streamed < Len(rendered) THEN streamed ELSE Len(rendered)))

\* The answer of a request that does not stream.
Whole == ParseAssistant(rendered)

Squeezed(s) == SelectSeq(s, LAMBDA x : x # " ")

\* The beginning of a stop string was streamed before the rest of it came.
SplitStop ==
  /\ IsPrefix(rendered, sent)
  /\ \E s \in stop : \E n \in 1..(Len(s) - 1) : After(sent, Len(rendered)) = SubSeq(s, 1, n)

-----------------------------------------------------------------------------
(* Properties.                                                             *)

TypeOK ==
  /\ buffered \in BOOLEAN /\ stop \in StopSets
  /\ count \in 0..MaxTokens
  /\ streamed \in 0..Len(sent)
  /\ stage \in {"run", "stopped", "done"}

\* serve.rs, emit_token: "With tools the text before the call is still streamed
\* ... only the call's XML is buffered".  Nothing of a call is streamed, however
\* the tag is spread over tokens.
NoCallStreamed ==
  buffered =>
    /\ Occurrences(sent, Tag) = {}
    /\ \A i \in Occurrences(Decoded(bytes), Tag) : Len(sent) < i

\* A client that streams gets what one that does not stream gets, white space
\* around calls apart: nothing is lost or sent twice when characters, tags and
\* stop strings are spread over tokens, but for the beginning of a stop string
\* that was sent before it was known to be one.
StreamedAsWhole ==
  stage = "done" =>
    \/ SplitStop
    \/ /\ buffered
       /\ Squeezed(sent \o LastDelta.content) = Squeezed(Whole.content)
       /\ LastDelta.calls = Whole.calls
    \/ ~buffered /\ sent = rendered

\* While tokens come, nothing is streamed that a later token may change: the
\* client has a prefix of the text, without the marker of half a character.
StreamedIsStable ==
  stage = "run" => IsPrefix(sent, Stable(Decoded(bytes)))

\* The deltas of a stream are stable, add up to the answer and have no markup
\* of a call in them (emit_token, finish_text, stream_events).
StreamFaithful == TypeOK /\ NoCallStreamed /\ StreamedAsWhole /\ StreamedIsStable

=============================================================================
