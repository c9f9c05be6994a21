------------------------------ MODULE Drafting ------------------------------
(***************************************************************************)
(* Speculative decoding with the draft head: crates/qwc-engine/src/mtp.rs  *)
(* and the parts of run_worker that drive it.  Each action is an iteration *)
(* of the worker's loop.  What the main model's own caches hold is the     *)
(* subject of Engine; here its hidden state after a token is the history   *)
(* up to that token.                                                       *)
(***************************************************************************)
EXTENDS Integers, Sequences, SequencesExt, FiniteSets

CONSTANTS
  Ids,         \* the requests
  Prompt,      \* [Ids -> Seq(Vocab)]
  MaxNew,      \* max_new_tokens, of each request
  Eos,         \* eos_ids
  Model(_),    \* the main model's argmax after a history
  Vocab,       \* rows of the vocabulary
  Frequent,    \* <<first rows>>: those the shortlist always has
  MaxContext,  \* max_context, which is also the shortlist's context_capacity
  PageSize,    \* PAGE_SIZE
  Depth,       \* speculation.depth
  Window,      \* speculation.prime_window
  Guess        \* marks what the head wrote from its own output

ASSUME DraftingAssumption ==
  /\ IsFiniteSet(Ids) /\ Frequent \in Seq(Vocab)
  /\ Prompt \in [Ids -> Seq(Vocab)]
  /\ MaxNew \in Nat \ {0} /\ PageSize \in Nat \ {0} /\ MaxContext \in Nat
  /\ Depth \in Nat /\ Window \in Nat
  /\ \A id \in Ids : Len(Prompt[id]) > 0 /\ Len(Prompt[id]) + MaxNew <= MaxContext

VARIABLES
  phase,       \* [Ids -> waiting, prefill, decode or over]
  done,        \* [Ids -> Nat]: how much of the prompt is computed
  out,         \* ActiveJob::output
  pending,     \* `pending` of run_worker; <<>> or <<token>>
  hiddenFor,   \* hidden_for: {} or {id}
  headTokens,  \* head_tokens
  head         \* [owner, prompt, kv, hidden, list, device, dirty]: the Speculator

vars == <<phase, done, out, pending, hiddenFor, headTokens, head>>

\* What the model has read of a request, and what it reads next.
History(id) == Prompt[id] \o out[id]
Known(id) == History(id) \o pending[id]

Positions == 0..(MaxContext - 1)

\* Memory that is zeroed.
Zero == <<>>

-----------------------------------------------------------------------------
(* The shortlist.  `list` is Shortlist.host, `device` is Shortlist.ids.    *)

Capacity == Len(Frequent) + MaxContext

\* Mutant of Push: the list on the device does not count as outdated.
PushClean(h, token) ==
  IF Len(h.list) < Capacity /\ ~Contains(h.list, token)
  THEN [h EXCEPT !.list = Append(@, token)]
  ELSE h

\* Shortlist::push.
Push(h, token) ==
  IF Len(h.list) < Capacity /\ ~Contains(h.list, token)
  THEN [h EXCEPT !.list = Append(@, token), !.dirty = TRUE]
  ELSE h

\* Mutant of SetContext: the list is emptied, the set of its tokens is not.
SetContextStale(h, context) ==
  LET new == SelectSeq(context \o Frequent, LAMBDA token : ~Contains(h.list, token))
  IN  [FoldLeft(Push, [h EXCEPT !.list = <<>>], new) EXCEPT !.dirty = TRUE]

\* Speculator::set_context and Shortlist::reset.
SetContext(h, context) ==
  [FoldLeft(Push, [h EXCEPT !.list = <<>>], context \o Frequent) EXCEPT !.dirty = TRUE]

\* Shortlist::upload.
Upload(h) == IF h.dirty THEN [h EXCEPT !.device = h.list, !.dirty = FALSE] ELSE h

-----------------------------------------------------------------------------
(* The head's KV.                                                          *)

\* Mutant of Truncated: the page that holds `keep` stays.
TruncatedLater(kv, keep) ==
  [p \in Positions |-> IF p < (keep \div PageSize + 1) * PageSize THEN kv[p] ELSE Zero]

\* MtpScratch::truncate_cache: everything from the page that holds `keep`.
Truncated(kv, keep) ==
  [p \in Positions |-> IF p < (keep \div PageSize) * PageSize THEN kv[p] ELSE Zero]

\* The length of the longest common prefix.
CommonPrefix(s, t) ==
  CHOOSE n \in 0..Len(s) :
    /\ n <= Len(t) /\ SubSeq(s, 1, n) = SubSeq(t, 1, n)
    /\ n < Len(s) /\ n < Len(t) => s[n + 1] # t[n + 1]

\* Speculator::bind_prompt.
Bind(h, id) ==
  IF h.owner = {id} THEN h
  ELSE LET common == CommonPrefix(h.prompt, Prompt[id])
           keep == IF common = 0 THEN 0 ELSE common - 1
       IN  SetContext([h EXCEPT !.kv = Truncated(@, keep),
                                !.owner = {id},
                                !.prompt = Prompt[id]],
                      Prompt[id])

\* A pass of the head over rows: the KV at a row's position comes from its
\* hidden state and its token alone, as there is one layer.
Pass(kv, hidden, tokens, position) ==
  [p \in Positions |->
     IF p \in position..(position + Len(tokens) - 1)
     THEN Append(hidden[p - position + 1], tokens[p - position + 1])
     ELSE kv[p]]

\* Hidden states of the main model after places first..last of a text.
HiddenRows(text, first, last) == [i \in 1..(last - first + 1) |-> SubSeq(text, 1, first + i - 1)]

\* Speculator::prime over the rows prime_head picks of a chunk: those in the
\* window, each with the token after it, the last of the prompt with the token
\* that was sampled.
Prime(h, id, offset, tokens, sampled) ==
  LET text == Prompt[id] \o sampled
      least == Len(Prompt[id]) - Window
      begin == IF offset < least THEN least ELSE offset
      rows == HiddenRows(text, begin + 1, offset + tokens)
  IN  IF begin >= offset + tokens \/ Window = 0 THEN h
      ELSE [h EXCEPT !.kv = Pass(@, rows, SubSeq(text, begin + 2, offset + tokens + 1), begin + 1),
                     !.hidden = rows]

\* draft_chain: the tokens whose hidden states are there go first, in one pass,
\* and then each draft but the last with the head's own output.
DraftChain(h, id, drafts) ==
  LET first == Len(History(id)) + 1 - Len(headTokens)
      seen == Pass(h.kv, h.hidden, headTokens, first)
      own == [i \in 1..(Len(drafts) - 1) |-> <<Guess, id>>]
  IN  [Upload(h) EXCEPT !.kv = Pass(seen, own, Front(drafts), Len(History(id)) + 1)]

-----------------------------------------------------------------------------
(* The worker's loop.                                                      *)

Init ==
  /\ phase = [id \in Ids |-> "waiting"]
  /\ done = [id \in Ids |-> 0]
  /\ out = [id \in Ids |-> <<>>]
  /\ pending = [id \in Ids |-> <<>>]
  /\ hiddenFor = {} /\ headTokens = <<>>
  /\ head = [owner |-> {}, prompt |-> <<>>, kv |-> [p \in Positions |-> Zero],
             hidden |-> <<>>, list |-> <<>>, device |-> <<>>, dirty |-> TRUE]

Decoding == {id \in Ids : phase[id] = "decode"}
Active == {id \in Ids : phase[id] \in {"prefill", "decode"}}

\* The tokens of t up to the first that ends the text.
UpToStop(t) ==
  LET stops == {i \in DOMAIN t : t[i] \in Eos}
  IN  IF stops = {} THEN t ELSE SubSeq(t, 1, CHOOSE i \in stops : \A j \in stops : i <= j)

\* A request is over after an end of text or its last token; a stop string or
\* a client that left ends it as well, which is up to `more`.
Ends(id, t, more) == id \in more \/ Last(t) \in Eos \/ Len(out[id]) + Len(t) = MaxNew

\* Mutant of DraftDepth: as deep as it is configured.
DraftDepthFull(id) == IF hiddenFor = {id} /\ Decoding = {id} THEN Depth ELSE 0

\* How deep to draft for the one sequence the head has hidden states of.
DraftDepth(id) ==
  IF hiddenFor = {id} /\ Decoding = {id}
  THEN LET remaining == MaxNew - Len(out[id])
       IN  IF remaining - 1 < Depth THEN remaining - 1 ELSE Depth
  ELSE 0

\* The chunks a batch may run: the next part of a prompt that was begun, or
\* the first of one, after as much of it as the prefix cache has.
Chunks ==
  {c \in [id : Ids, offset : 0..MaxContext, tokens : 1..MaxContext] :
     /\ c.offset + c.tokens <= Len(Prompt[c.id])
     /\ \/ phase[c.id] = "waiting"
        \/ phase[c.id] = "prefill" /\ c.offset = done[c.id]}

\* A batch runs at most two chunks here, of different requests.
Batches == {P \in {{}} \cup {{c, d} : c, d \in Chunks} : \A c, d \in P : c.id = d.id => c = d}

Completes(c) == c.offset + c.tokens = Len(Prompt[c.id])

\* What a step samples: a token for each sequence it decodes, and one for each
\* prompt it completes.
Sampled(P, id) ==
  IF id \in Decoding THEN <<Model(Known(id))>>
  ELSE IF \E c \in P : c.id = id /\ Completes(c) THEN <<Model(Prompt[id])>>
  ELSE <<>>

\* prime_head: a chunk that runs alone, of the only active sequence.
PrimeHead(P) ==
  IF Cardinality(P) = 1 /\ Cardinality(Active \cup {c.id : c \in P}) = 1 /\ Window > 0
  THEN \E c \in P : head' = Prime(Bind(head, c.id), c.id, c.offset, c.tokens, Sampled(P, c.id))
  ELSE head' = head

\* A batch that is not speculative: some chunks, and a token for every sequence
\* that decodes.  copy_decode_hidden_row comes after one that decoded one
\* sequence and nothing else.
Regular ==
  /\ \E P \in Batches, gone \in SUBSET Decoding :
       LET chunk == [id \in {c.id : c \in P} |-> CHOOSE c \in P : c.id = id]
           over == {id \in Decoding : Ends(id, pending[id], gone)}
       IN  /\ P = {} => Decoding # {} /\ \A id \in Decoding : DraftDepth(id) = 0
           /\ phase' = [id \in Ids |->
                IF id \in over THEN "over"
                ELSE IF id \in DOMAIN chunk
                THEN IF Completes(chunk[id]) THEN "decode" ELSE "prefill"
                ELSE phase[id]]
           /\ done' = [id \in Ids |->
                IF id \in DOMAIN chunk THEN chunk[id].offset + chunk[id].tokens ELSE done[id]]
           /\ out' = [id \in Ids |-> IF id \in Decoding THEN out[id] \o pending[id] ELSE out[id]]
           /\ pending' = [id \in Ids |->
                IF id \in over THEN <<>>
                ELSE IF Sampled(P, id) # <<>> THEN Sampled(P, id) ELSE pending[id]]
           /\ IF P = {} /\ Cardinality(Decoding) = 1
              THEN LET id == CHOOSE id \in Decoding : TRUE
                   IN  /\ head' = [head EXCEPT !.hidden = <<Known(id)>>]
                       /\ headTokens' = Sampled(P, id)
                       /\ hiddenFor' = Decoding \ over
              ELSE /\ PrimeHead(P)
                   /\ hiddenFor' = {}
                   /\ UNCHANGED headTokens

\* The rows verify_speculation runs, and what the main model says after each.
Truth(id, drafts) ==
  [i \in 1..(Len(drafts) + 1) |-> Model(Known(id) \o SubSeq(drafts, 1, i - 1))]

\* Mutant of Accepted: one draft too many.
AcceptedOneMore(drafts, truth) ==
  CHOOSE n \in 0..Len(drafts) :
    /\ \A i \in 1..(n - 1) : drafts[i] = truth[i]
    /\ n < Len(drafts) => n > 0 /\ drafts[n] # truth[n]

\* The drafts the model agrees with, up to the first it does not.
Accepted(drafts, truth) ==
  CHOOSE n \in 0..Len(drafts) :
    /\ \A i \in 1..n : drafts[i] = truth[i]
    /\ n < Len(drafts) => drafts[n + 1] # truth[n + 1]

\* speculative_step and what run_worker does with its result.  The drafts are
\* whatever the head makes of it; the cache may not have pages for all of them;
\* a stop string, or a client that left, may cut what is emitted.
Speculate(id) ==
  /\ DraftDepth(id) > 0
  /\ \E drafts \in [1..DraftDepth(id) -> Vocab], reserved \in 0..DraftDepth(id), cut \in 1..(Depth + 2) :
       LET bound == Bind(head, id)
           tried == SubSeq(drafts, 1, reserved)
           truth == Truth(id, tried)
           kept == Accepted(tried, truth)
           text == Known(id) \o SubSeq(truth, 1, kept)
           emitted == UpToStop(pending[id] \o SubSeq(truth, 1, kept))
           produced == IF cut > Len(emitted) THEN emitted ELSE SubSeq(emitted, 1, cut)
           over == Ends(id, produced, IF cut > Len(emitted) THEN {} ELSE {id})
           chain == DraftChain(bound, id, drafts)
       IN  /\ out' = [out EXCEPT ![id] = @ \o produced]
           /\ pending' = [pending EXCEPT ![id] = IF over THEN <<>> ELSE <<truth[kept + 1]>>]
           /\ phase' = [phase EXCEPT ![id] = IF over THEN "over" ELSE @]
           /\ headTokens' = SubSeq(truth, 1, kept + 1)
           /\ head' = FoldLeft(Push, [chain EXCEPT !.hidden =
                                 HiddenRows(text, Len(Known(id)), Len(text))],
                               SubSeq(truth, 1, kept + 1))
           /\ hiddenFor' = IF over THEN {} ELSE {id}
           /\ UNCHANGED done

Next == Regular \/ \E id \in Ids : Speculate(id)

Spec == Init /\ [][Next]_vars

-----------------------------------------------------------------------------
(* Properties.                                                             *)

\* What the head wrote for id from its own output.
IsGuess(v, id) == v # Zero /\ v[1] = Guess /\ v[2] = id

TypeOK ==
  /\ phase \in [Ids -> {"waiting", "prefill", "decode", "over"}]
  /\ \A id \in Ids : done[id] \in 0..Len(Prompt[id]) /\ Len(out[id]) <= MaxNew
  /\ \A id \in Ids : phase[id] = "decode" <=> Len(pending[id]) = 1
  /\ hiddenFor \subseteq Decoding /\ Cardinality(hiddenFor) <= 1
  /\ DOMAIN head.kv = Positions
  /\ Cardinality(head.owner) <= 1

\* mtp.rs, bind_prompt: "Everything beyond the common part is zeroed.  Otherwise
\* two dialogs with the same system prompt would see each other's KV".  What the
\* head's KV holds belongs to its owner: the hidden state of its own text at
\* that very position with the token that came next, or a draft made for it.
\* Chunks in and out of the window, turns that inherit, rejected drafts and
\* other sequences that decode meanwhile do not change that.
NoForeignKv ==
  \A p \in Positions :
    \/ head.kv[p] = Zero
    \/ \E id \in head.owner :
         \/ IsGuess(head.kv[p], id)
         \/ head.kv[p] = SubSeq(Known(id), 1, p + 1)

\* The head's KV has one owner at most, whose text it is.
HeadIntact == TypeOK /\ NoForeignKv

\* The list the head samples from on the device is the one the host looks the
\* index up in, however it has changed since it was last sent.
DeviceListFresh == ~head.dirty => head.device = head.list

\* mtp.rs, Shortlist.frequent: "How many first vocab rows are always in the
\* list."  They come after the context and still fit, as do the owner's prompt
\* and nothing twice.
ListComplete ==
  head.owner # {} =>
    /\ IsInjective(head.list)
    /\ ToSet(Frequent) \subseteq ToSet(head.list)
    /\ ToSet(head.prompt) \subseteq ToSet(head.list)

\* The shortlist is the one it should be, on the host and on the device.
ListRight == DeviceListFresh /\ ListComplete

\* Speculation is exact: whatever the head drafts, however many pages its drafts
\* get, requests receive the tokens the main model would have picked alone.
Greedy == INSTANCE GreedyDecoding WITH over <- {id \in Ids : phase[id] = "over"}

ImplementsGreedy == Greedy!Spec

=============================================================================
