------------------------------- MODULE Steps -------------------------------
(***************************************************************************)
(* One step from a batch to sampled tokens, row by row: BatchLayout         *)
(* (crates/qwc-runtime/src/layout.rs) and the part of Executor that uploads *)
(* it into arrays that live as long as the executor, runs it as a captured  *)
(* CUDA graph or as one pass over segments, and reads the result back       *)
(* (crates/qwc-engine/src/executor.rs, crates/qwc-cuda/src/graph.rs).       *)
(*                                                                         *)
(* A token is <<sequence, position>>; a page holds what was written, a slot *)
(* the tokens its recurrent state has seen.  Arithmetic, layers, rotary     *)
(* tables (the position itself here) and the prefix cache (module Engine)   *)
(* are left out.  Sequences are admitted and released by the cache manager, *)
(* which is modelled here only as handing out free slots and pages.         *)
(***************************************************************************)
EXTENDS Integers, Sequences, FiniteSets, SequencesExt

CONSTANTS
  Ids,          \* sequences, each admitted once
  MaxBatch,     \* ExecutorConfig.max_batch
  MaxContext,   \* ExecutorConfig.max_context
  PageSize,
  Pages,        \* the KV pool, page zero included: tables are padded with it
  ArenaRows,    \* rows of the prefill arena
  None

ASSUME StepsAssumption ==
  /\ MaxBatch \in Nat \ {0} /\ MaxContext \in Nat \ {0} /\ PageSize \in Nat \ {0}
  /\ ArenaRows >= MaxBatch /\ 0 \in Pages /\ Pages \subseteq Nat /\ Ids \subseteq Nat /\ None \notin Ids

Slots == 0..(MaxBatch - 1)
MaxBlocks == (MaxContext + PageSize - 1) \div PageSize
BlocksFor(tokens) == (tokens + PageSize - 1) \div PageSize
Padding == <<None, 0>>
NoSequence == [slot |-> None, blocks |-> <<>>, tokens |-> 0, done |-> 0, prompt |-> 0]

VARIABLES
  seqs,     \* sequence -> its slot, pages, tokens, and how many were computed
  kv,       \* page -> offset -> token whose keys were written there last
  states,   \* slot -> tokens in its recurrent state
  decode,   \* rows of the arena a captured graph reads
  prefill,  \* rows of the arena of all other steps
  graphs,   \* rows -> what the captured graph of that many rows computes
  result    \* what the last step sampled and what its rows have read

vars == <<seqs, kv, states, decode, prefill, graphs, result>>

EmptyRow == [token |-> Padding, position |-> 0, slot |-> 0, page |-> 0, offset |-> 0,
             length |-> 0, table |-> [b \in 0..(MaxBlocks - 1) |-> 0]]
NoResult == [pairs |-> <<>>, rows |-> <<>>]

Init ==
  /\ seqs = [id \in Ids |-> NoSequence]
  /\ kv = [p \in Pages |-> [o \in 0..(PageSize - 1) |-> Padding]]
  /\ states = [s \in Slots |-> <<>>]
  /\ decode = [r \in 0..(MaxBatch - 1) |-> EmptyRow]
  /\ prefill = [r \in 0..(ArenaRows - 1) |-> EmptyRow]
  /\ graphs = [n \in 1..MaxBatch |-> "none"]
  /\ result = NoResult

Live == {id \in Ids : seqs[id].slot # None}
FreeSlots == Slots \ {seqs[id].slot : id \in Live}
FreePages == Pages \ UNION {Range(seqs[id].blocks) : id \in Live}

-----------------------------------------------------------------------------
(* Sequences.                                                              *)

\* CacheManager::admit: a sequence is admitted when it was never before.
Admit(id, prompt) ==
  /\ seqs[id].prompt = 0 /\ prompt \in 1..MaxContext
  /\ \E slot \in FreeSlots, blocks \in [1..BlocksFor(prompt) -> FreePages] :
       /\ IsInjective(blocks)
       /\ seqs' = [seqs EXCEPT ![id] = [slot |-> slot, blocks |-> blocks, tokens |-> prompt,
                                        done |-> 0, prompt |-> prompt]]
  /\ result' = NoResult
  /\ UNCHANGED <<kv, states, decode, prefill, graphs>>

\* CacheManager::release.
Release(id) ==
  /\ id \in Live
  /\ seqs' = [seqs EXCEPT ![id].slot = None, ![id].blocks = <<>>]
  /\ result' = NoResult
  /\ UNCHANGED <<kv, states, decode, prefill, graphs>>

\* CacheManager::append_token: the sampled token of a sequence whose prompt is
\* done takes its place, and a page when it starts one.
Extend(id) ==
  /\ id \in Live /\ seqs[id].done = seqs[id].tokens /\ seqs[id].tokens < MaxContext
  /\ \/ /\ seqs[id].tokens % PageSize # 0
        /\ seqs' = [seqs EXCEPT ![id].tokens = @ + 1]
     \/ /\ seqs[id].tokens % PageSize = 0
        /\ \E p \in FreePages : seqs' = [seqs EXCEPT ![id].tokens = @ + 1, ![id].blocks = Append(@, p)]
  /\ result' = NoResult
  /\ UNCHANGED <<kv, states, decode, prefill, graphs>>

-----------------------------------------------------------------------------
(* BatchLayout: `item` is a sequence with where its input starts and ends.  *)

Item(id, from, to) == [id |-> id, from |-> from, to |-> to]

\* BatchLayout::build: a decode sequence is its last token.
DecodeItem(id) == Item(id, seqs[id].tokens - 1, seqs[id].tokens)

\* push_prefill.
ChunkItem(id, tokens) == Item(id, seqs[id].done, seqs[id].done + tokens)

\* Mutant of ItemAccepted: a chunk may pass the end of its prompt.
ItemAcceptedPastEnd(item) ==
  item.id \in Live /\ item.from < item.to /\ BlocksFor(item.to) <= Len(seqs[item.id].blocks)

\* The refusals of push_prefill and push_sequence.
ItemAccepted(item) ==
  /\ item.id \in Live /\ item.from < item.to /\ item.to <= seqs[item.id].tokens
  /\ BlocksFor(item.to) <= Len(seqs[item.id].blocks)

\* push_sequence, as one record for each sequence; `begin` are the offsets of
\* the compressed rows.
Layout(items) ==
  [items |-> items,
   slots |-> [i \in DOMAIN items |-> seqs[items[i].id].slot],
   begin |-> [i \in 1..(Len(items) + 1) |->
                FoldLeft(LAMBDA sum, item : sum + item.to - item.from, 0, SubSeq(items, 1, i - 1))],
   blocks |-> [i \in DOMAIN items |-> SubSeq(seqs[items[i].id].blocks, 1, BlocksFor(items[i].to))]]

Rows(layout) == layout.begin[Len(layout.items) + 1]
ItemOf(layout, row) == Max({i \in DOMAIN layout.items : layout.begin[i] <= row})

\* Mutant of RowOf: a row is written to the last page of its table.
RowOfLastPage(layout, row) ==
  LET i == ItemOf(layout, row)
      position == layout.items[i].from + row - layout.begin[i]
      blocks == layout.blocks[i]
  IN  [token |-> <<layout.items[i].id, position>>, position |-> position, slot |-> layout.slots[i],
       page |-> blocks[Len(blocks)], offset |-> position % PageSize, length |-> position + 1,
       table |-> [b \in 0..(MaxBlocks - 1) |-> IF b < Len(blocks) THEN blocks[b + 1] ELSE 0]]

\* What the host arrays hold for a row: the page and the table are those of its
\* sequence, and the table is padded with page zero.
RowOf(layout, row) ==
  LET i == ItemOf(layout, row)
      position == layout.items[i].from + row - layout.begin[i]
      blocks == layout.blocks[i]
  IN  [token |-> <<layout.items[i].id, position>>,
       position |-> position,
       slot |-> layout.slots[i],
       page |-> blocks[position \div PageSize + 1],
       offset |-> position % PageSize,
       length |-> position + 1,
       table |-> [b \in 0..(MaxBlocks - 1) |-> IF b < Len(blocks) THEN blocks[b + 1] ELSE 0]]

-----------------------------------------------------------------------------
(* Uploads.  What a step does not upload keeps what an earlier one left.   *)

\* Mutant of UploadDecode: a table keeps its first entry of the last step.
UploadDecodeKeepsTable(layout) ==
  [r \in DOMAIN decode |->
     IF r < Rows(layout) THEN [RowOf(layout, r) EXCEPT !.table[0] = decode[r].table[0]] ELSE decode[r]]

\* Mutant of UploadDecode: the slots stay those of the last step.
UploadDecodeKeepsSlots(layout) ==
  [r \in DOMAIN decode |-> IF r < Rows(layout) THEN [RowOf(layout, r) EXCEPT !.slot = decode[r].slot]
                                               ELSE decode[r]]

\* upload_layout_decode: only as many rows as are decoded.
UploadDecode(layout) ==
  [r \in DOMAIN decode |-> IF r < Rows(layout) THEN RowOf(layout, r) ELSE decode[r]]

\* upload_segments: tokens and tables of the whole arena, the rest of the rows
\* that live; decode_slots of the rows that decode.
UploadSegments(layout) ==
  [r \in DOMAIN prefill |->
     IF r < Rows(layout) THEN RowOf(layout, r)
     ELSE [prefill[r] EXCEPT !.token = Padding, !.table = EmptyRow.table]]

-----------------------------------------------------------------------------
(* A pass over the first `rows` rows of an arena.                          *)

\* Every row writes its keys before any row reads.
Written(arena, rows) ==
  [p \in Pages |-> [o \in 0..(PageSize - 1) |->
     LET here == {r \in 0..(rows - 1) : arena[r].page = p /\ arena[r].offset = o}
     IN  IF here = {} THEN kv[p][o] ELSE LET r == Max(here) IN <<arena[r].token[1], arena[r].position>>]]

\* What attention of a row reads: as many keys as its context is long, through
\* its page table.
Keys(arena, row, cache) ==
  [i \in 1..arena[row].length |->
     cache[arena[row].table[(i - 1) \div PageSize]][(i - 1) % PageSize]]

\* The recurrent state a row leaves, starting from `start`: rows of the same
\* slot are run in order.
StateAfter(arena, row, start) ==
  LET before == SelectSeq([r \in 1..(row + 1) |-> r - 1], LAMBDA r : arena[r].slot = arena[row].slot)
  IN  start[arena[row].slot] \o [i \in DOMAIN before |-> arena[before[i]].token]

Hidden(arena, row, cache, start) ==
  [token |-> arena[row].token, keys |-> Keys(arena, row, cache), state |-> StateAfter(arena, row, start)]

StatesAfter(arena, rows, start) ==
  [s \in Slots |->
     LET mine == {r \in 0..(rows - 1) : arena[r].slot = s}
     IN  IF mine = {} THEN start[s] ELSE StateAfter(arena, Max(mine), start)]

-----------------------------------------------------------------------------
(* A step.                                                                 *)

\* Mutant of LastRow: the first row of the chunk.
LastRowFirst(layout, i) == layout.begin[i]

\* The row whose logits become the token of sequence i.
LastRow(layout, i) == layout.begin[i + 1] - 1

Sampled(layout, arena, cache, start) ==
  [i \in DOMAIN layout.items |->
     <<layout.items[i].id, Hidden(arena, LastRow(layout, i), cache, start)>>]

\* `ran`: whether the kernels of every row were launched.
Finish(layout, arena, start, ran) ==
  LET rows == IF ran THEN Rows(layout) ELSE 0
      cache == Written(arena, rows)
  IN  /\ kv' = cache
      /\ states' = StatesAfter(arena, rows, start)
      /\ result' = [pairs |-> IF ran THEN Sampled(layout, arena, cache, start) ELSE <<<<None, Padding>>>>,
                    rows |-> [r \in 1..rows |-> Hidden(arena, r - 1, cache, start)]]
      /\ seqs' = [id \in Ids |->
                    LET mine == SelectSeq(layout.items, LAMBDA i : i.id = id)
                    IN  IF mine = <<>> THEN seqs[id] ELSE [seqs[id] EXCEPT !.done = mine[1].to]]

\* launch_decode: the graph of this many rows is captured the first time, then
\* launched.  It reads the arena as it is now.  (A step that is profiled
\* launches the same kernels without a graph.)
DecodeStep(items) ==
  LET layout == Layout(items)
      arena == UploadDecode(layout)
      graph == graphs[Len(items)]
  IN  /\ decode' = arena
      /\ graphs' = [graphs EXCEPT ![Len(items)] = IF graph = "none" THEN "whole" ELSE graph]
      /\ Finish(layout, arena, states, graph # "part")
      /\ UNCHANGED prefill

\* launch_decode when decode_forward fails: capture is ended, nothing is kept.
AfterFailedCapture(n) == graphs

\* The step after an upload and a capture that failed: no kernel ran.
CaptureFails(items) ==
  /\ graphs[Len(items)] = "none"
  /\ decode' = UploadDecode(Layout(items))
  /\ graphs' = AfterFailedCapture(Len(items))
  /\ result' = NoResult
  /\ UNCHANGED <<seqs, kv, states, prefill>>

\* execute_layout: a sequence that starts gets an empty state.
ResetStates(layout) ==
  [s \in Slots |->
     IF \E i \in DOMAIN layout.items : layout.slots[i] = s /\ layout.items[i].from = 0 THEN <<>> ELSE states[s]]

\* forward_segments.
MixedStep(items) ==
  LET layout == Layout(items)
      arena == UploadSegments(layout)
  IN  /\ Rows(layout) <= ArenaRows
      /\ prefill' = arena
      /\ Finish(layout, arena, ResetStates(layout), TRUE)
      /\ UNCHANGED <<decode, graphs>>

\* A batch of the scheduler: sequences that decode, in any order, then chunks.
Decodable == {id \in Live : seqs[id].done >= seqs[id].prompt /\ seqs[id].done = seqs[id].tokens - 1}
Waiting == {id \in Live : seqs[id].done < seqs[id].prompt}

Orders(S) == {s \in [1..Cardinality(S) -> S] : IsInjective(s)}
DecodeItems(D) == {[i \in DOMAIN s |-> DecodeItem(s[i])] : s \in Orders(D)}
ChunkItems(C) ==
  {[i \in DOMAIN s |-> ChunkItem(s[i], n[s[i]])] : s \in Orders(C), n \in [C -> 1..MaxContext]}

Steps ==
  \/ \E D \in SUBSET Decodable \ {{}} : \E items \in DecodeItems(D) :
       /\ \A i \in DOMAIN items : ItemAccepted(items[i])
       /\ (DecodeStep(items) \/ CaptureFails(items))
  \/ \E D \in SUBSET Decodable, C \in SUBSET Waiting \ {{}} :
       \E first \in DecodeItems(D), then \in ChunkItems(C) :
         /\ \A i \in DOMAIN (first \o then) : ItemAccepted((first \o then)[i])
         /\ MixedStep(first \o then)

Next ==
  \/ \E id \in Ids, n \in 1..MaxContext : Admit(id, n)
  \/ \E id \in Ids : Release(id) \/ Extend(id)
  \/ Steps

Spec == Init /\ [][Next]_vars

-----------------------------------------------------------------------------
(* Properties.                                                             *)

\* Everything stays within the pool, the slots and the arenas.
TypeOK ==
  /\ \A id \in Ids : seqs[id].done <= seqs[id].tokens /\ seqs[id].tokens <= MaxContext
  /\ \A id \in Live : Range(seqs[id].blocks) \subseteq Pages /\ seqs[id].slot \in Slots
  /\ DOMAIN decode = 0..(MaxBatch - 1) /\ DOMAIN prefill = 0..(ArenaRows - 1)
  /\ \A n \in 1..MaxBatch : graphs[n] \in {"none", "part", "whole"}

History(id, n) == [i \in 1..n |-> <<id, i - 1>>]

\* Every row attends to exactly the tokens of its own sequence up to itself, in
\* order, whatever a step before has left in the tables, lengths and pages
\* (upload_layout_decode, upload_segments).
RowsReadOwn ==
  \A r \in DOMAIN result.rows :
    LET row == result.rows[r] IN row.keys = History(row.token[1], row.token[2] + 1)

\* Every row continues the recurrent state of its own sequence: of a slot that
\* belonged to another before, and in a step that mixes both kinds of rows
\* (execute_layout, reset_slot).
RowsContinueOwn ==
  \A r \in DOMAIN result.rows :
    LET row == result.rows[r] IN row.state = History(row.token[1], row.token[2] + 1)

\* The token handed to a sequence was sampled from its own last row, by kernels
\* that ran in this step (forward_segments, launch_decode, execute_layout).
SampledFromLast ==
  \A i \in DOMAIN result.pairs :
    LET id == result.pairs[i][1]
    IN  id \in Ids /\ result.pairs[i][2].token = <<id, seqs[id].done - 1>>

\* Between steps the pages and the slot of a sequence hold all it computed: no
\* row of another sequence, dead row or padded table has written over it.
ContextKept ==
  \A id \in Live :
    /\ \A p \in 0..(seqs[id].done - 1) : kv[seqs[id].blocks[p \div PageSize + 1]][p % PageSize] = <<id, p>>
    /\ seqs[id].done > 0 => states[seqs[id].slot] = History(id, seqs[id].done)

\* Whatever earlier steps left in the arenas and whatever graph is replayed,
\* each row of a step reads the pages, continues the state and yields the
\* token of its own sequence (BatchLayout::build, execute_layout).
RowsOwn == TypeOK /\ RowsReadOwn /\ RowsContinueOwn /\ SampledFromLast /\ ContextKept

=============================================================================
