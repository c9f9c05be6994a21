---------------------------- MODULE ChatTemplate ----------------------------
(***************************************************************************)
(* The prompt of a chat request: chat_completions, render_chat,            *)
(* message_text, render_tool_call and history_boundary of                  *)
(* crates/qwc-engine/src/bin/serve.rs, over the turns of a dialog.         *)
(*                                                                         *)
(* A prompt is a sequence of symbols: markers, role names and pieces of    *)
(* text.  Line ends are left out.                                          *)
(***************************************************************************)
EXTENDS Naturals, Sequences, SequencesExt, FiniteSets

CONSTANTS
  Texts,     \* what messages say
  Blank,     \* a text of white space only, which trim empties
  Picture,   \* content that is not text
  MaxTurns   \* bound: messages of a dialog

VARIABLES
  settings,  \* [tools, effort, own, kwargs, server]: what does not change in a dialog
  messages,  \* the messages of the next request
  previous,  \* those of the last request that was accepted; <<>> before
  answered   \* whether that request got its answer

vars == <<settings, messages, previous, answered>>

Message(role, content, calls) == [role |-> role, content |-> content, calls |-> calls]

\* A request that says so in neither place has no own choice.
Says == {"none", "on", "off"}

-----------------------------------------------------------------------------
(* render_chat.                                                            *)

\* chat_completions fills in the server's mode when neither field has a say,
\* and render_chat asks the fields in turn.
Thinking ==
  LET own == IF settings.own = "none" /\ settings.kwargs = "none" THEN settings.server ELSE settings.own
  IN  IF own # "none" THEN own = "on" ELSE settings.kwargs = "on"

Effort == IF ~Thinking \/ settings.effort = "medium" THEN <<>> ELSE <<settings.effort>>

\* message_text, trimmed.
Text(content) == IF content = Blank THEN <<>> ELSE <<content>>

Block(role, body) == <<"start", role>> \o body \o <<"end">>

HasSystem(m) == m # <<>> /\ m[1].role = "system"

\* The first block: tools, system message and reasoning effort share it, and
\* with none of them there is no such block.
Prelude(m) ==
  LET system == IF HasSystem(m) THEN Text(m[1].content) ELSE <<>>
  IN  IF settings.tools THEN Block("system", Effort \o <<"tools">> \o system)
      ELSE IF system # <<>> THEN Block("system", Effort \o system)
      ELSE IF Effort # <<>> THEN Block("system", Effort)
      ELSE <<>>

\* render_tool_call.
Call(name) == <<"call", name, "/call">>

\* The block that collects tool responses is closed before anything else.
Closed(r) == IF r.inTool THEN Append(r.out, "end") ELSE r.out

\* Mutant of Rendered: an answer goes into the block of the responses.
RenderedOpen(r, message) ==
  CASE message.role = "user" ->
         [out |-> Closed(r) \o Block("user", Text(message.content)), inTool |-> FALSE]
    [] message.role = "assistant" ->
         [out |-> r.out \o Block("assistant", <<"think", "/think">> \o Text(message.content)
                                  \o FlattenSeq([i \in DOMAIN message.calls |-> Call(message.calls[i])])),
          inTool |-> FALSE]
    [] message.role = "tool" ->
         [out |-> (IF r.inTool THEN r.out ELSE r.out \o <<"start", "user">>)
                    \o <<"response">> \o Text(message.content) \o <<"/response">>,
          inTool |-> TRUE]

\* One message more.
Rendered(r, message) ==
  CASE message.role = "user" ->
         [out |-> Closed(r) \o Block("user", Text(message.content)), inTool |-> FALSE]
    [] message.role = "assistant" ->
         [out |-> Closed(r) \o Block("assistant", <<"think", "/think">> \o Text(message.content)
                                      \o FlattenSeq([i \in DOMAIN message.calls |-> Call(message.calls[i])])),
          inTool |-> FALSE]
    [] message.role = "tool" ->
         [out |-> (IF r.inTool THEN r.out ELSE r.out \o <<"start", "user">>)
                    \o <<"response">> \o Text(message.content) \o <<"/response">>,
          inTool |-> TRUE]

\* The generation prompt.
Opening == <<"start", "assistant", "think">> \o (IF Thinking THEN <<>> ELSE <<"/think">>)

RenderChat(m) ==
  LET rest == IF HasSystem(m) THEN Tail(m) ELSE m
  IN  Closed(FoldLeft(Rendered, [out |-> Prelude(m), inTool |-> FALSE], rest)) \o Opening

\* Mutant of Acceptable: content that is not text is let through.
AcceptableAnything(m) ==
  m # <<>> /\ \A i \in DOMAIN m : i = 1 \/ m[i].role # "system"

\* What render_chat refuses: content that is not text, a system message that is
\* not the first, a role it does not know.
Acceptable(m) ==
  /\ m # <<>>
  /\ \A i \in DOMAIN m :
       /\ m[i].content # Picture
       /\ m[i].role \in {"user", "assistant", "tool"} \cup (IF i = 1 THEN {"system"} ELSE {})

\* Mutant of HistoryBoundary: the whole prompt counts as history.
WholePrompt(prompt) == Len(prompt)

\* history_boundary: what is before the last start marker.
HistoryBoundary(prompt) ==
  (CHOOSE i \in DOMAIN prompt :
     prompt[i] = "start" /\ \A j \in (i + 1)..Len(prompt) : prompt[j] # "start") - 1

-----------------------------------------------------------------------------
(* A dialog.  The client keeps the messages, adds what it was answered and  *)
(* asks again.  Of the efforts that are shown, "low" stands for "xhigh" too, *)
(* and the server's mode varies where no field has a say.                   *)

Init ==
  /\ settings \in [tools : BOOLEAN, effort : {"medium", "low"},
                   own : Says, kwargs : Says, server : {"on", "off"}]
  /\ settings.own # "none" \/ settings.kwargs # "none" => settings.server = "off"
  /\ messages = <<>> /\ previous = <<>> /\ answered = TRUE

\* The client says something, or has the result of a call.
Say(role, content) ==
  /\ answered /\ Len(messages) < MaxTurns
  /\ role = "tool" => messages # <<>> /\ Last(messages).role \in {"assistant", "tool"}
  /\ messages' = Append(messages, Message(role, content, <<>>))
  /\ UNCHANGED <<settings, previous, answered>>

\* A request that is accepted.
Ask ==
  /\ answered /\ messages # previous /\ Acceptable(messages)
  /\ Len(messages) <= MaxTurns
  /\ previous' = messages
  /\ answered' = FALSE
  /\ UNCHANGED <<settings, messages>>

\* A request that is not: the client takes its last message back.
Refused ==
  /\ answered /\ messages # <<>> /\ ~Acceptable(messages)
  /\ messages' = Front(messages)
  /\ UNCHANGED <<settings, previous, answered>>

\* The answer comes, with content or calls or both.
Answer(content, calls) ==
  /\ ~answered
  /\ messages' = Append(messages, Message("assistant", content, calls))
  /\ answered' = TRUE
  /\ UNCHANGED <<settings, previous>>

\* There is none: the request failed, or the client left.
NoAnswer ==
  /\ ~answered
  /\ answered' = TRUE
  /\ UNCHANGED <<settings, messages, previous>>

Next ==
  \/ Ask \/ Refused \/ NoAnswer
  \/ \E role \in {"system", "user", "tool"}, content \in Texts \cup {Blank, Picture} : Say(role, content)
  \/ \E content \in Texts \cup {Blank}, calls \in {<<>>, <<"f", "g">>} : Answer(content, calls)

Spec == Init /\ [][Next]_vars

-----------------------------------------------------------------------------
(* Properties.                                                             *)

TypeOK ==
  /\ settings.tools \in BOOLEAN
  /\ \A i \in DOMAIN messages : messages[i].content \in Texts \cup {Blank, Picture}
  /\ Len(messages) <= MaxTurns + 1
  /\ \A i \in DOMAIN previous :
       previous[i].content # Picture /\ (previous[i].role = "system" => i = 1)

ToolsAdded ==
  /\ Len(messages) > Len(previous) /\ Last(previous).role = "tool"
  /\ messages[Len(previous) + 1].role = "tool"

\* serve.rs, GenerateJob: "the next turn will repeat the history verbatim".  The
\* prompt of a request begins with all of the prompt of the one before it but
\* its opening, whatever answer and tool responses have come in between, so the
\* prefix cache can continue from there; unless a tool response is added to
\* others that were asked about and not answered.
HistoryRepeated ==
  previous # <<>> /\ Acceptable(messages) /\ ~ToolsAdded =>
    LET before == RenderChat(previous)
    IN  IsPrefix(SubSeq(before, 1, HistoryBoundary(before)), RenderChat(messages))

\* Every block is closed before the next one starts, and only the model's own
\* turn is left open at the end; there is one system block at most, in front.
WellFormed ==
  Acceptable(messages) =>
    LET prompt == RenderChat(messages)
        marks == SelectSeq(prompt, LAMBDA x : x \in {"start", "end"})
    IN  /\ \A i \in DOMAIN marks : marks[i] = (IF i % 2 = 1 THEN "start" ELSE "end")
        /\ Len(marks) % 2 = 1
        /\ \A i \in DOMAIN prompt : prompt[i] = "system" => i = 2

\* The prompts of a dialog are well formed and each begins as the last did.
PromptsContinue == TypeOK /\ WellFormed /\ HistoryRepeated

=============================================================================
