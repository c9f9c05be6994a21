# qwencore in TLA+

qwencore serves one hybrid language model (recurrent delta-net layers and full
attention layers) on one GPU. A sequence therefore owns two kinds of device
memory: one fixed-size *recurrent state slot*, and a table of *KV pages* that
grows with its context. Three CPU-side parts decide who owns what and when:
the cache manager, the scheduler, and the server's worker loop. This directory
specifies them together with what the executor does to the device's memory, the
draft head, the server's threads and channels, the text of a chat on its way in
and out, the loading of the weights and the start of the process, checks them
with TLC and proves with TLAPS the invariants of the cache manager, the scheduler,
the server's worker loop, the draft head, the device memory's account and the split
of the card, that the scheduler implements the cache manager's protocol, and that
speculative decoding implements greedy decoding.

## 1. Inventory

Paths are relative to the repository, `rt` = `crates/qwc-runtime/src`,
`eng` = `crates/qwc-engine/src`.

| Component | State | Operations | What makes it correct |
|---|---|---|---|
| Cache manager, `rt/cache.rs` | free lists of slots and pages, reference count of every page, page table of every sequence, prefix entries (tokens, pages, pins, last use), free snapshot slots | `admit`, `admit_prompt`, `finish_restore`, `append_token`, `rollback_token`, `reserve_snapshot`, `cancel_snapshot`, `commit_snapshot`, `release`, eviction inside all that take pages | every page and slot is owned by exactly those that use it; sharing never exposes another history; what only the cache holds can be had back |
| Scheduler, `rt/scheduler.rs` | waiting, prefill-ready and decode-ready queues, active requests with phase and progress, committed pages, the batch in flight | `submit`, `next_batch`, `complete_batch_multi`, `reserve_extra`, `release_extra`, `abort_batch`, `cancel` | no request is lost, done twice or starved; no page is refused during decode; aborts undo exactly what was planned |
| Batch layout, `rt/layout.rs` | none | `BatchLayout::build` | CSR arrays that agree with the page tables |
| Executor, `eng/executor.rs` | KV pool, state slots, one working copy of the state and its owner, snapshots, arenas, CUDA graphs | `execute_layout`, `verify_speculation`, `commit_speculation`, `copy_kv_block`, `plan_prefix`, `reset_slot` | what a sequence reads is its own history; every launch fits the buffers allocated once |
| Draft head, `eng/mtp.rs` | its KV and its owner, hidden rows, the tokens it has seen, the shortlist on host and device | `prime`, `bind`, `bind_prompt`, `set_context`, `draft_chain` | drafts may be wrong, the output may not |
| Server, `eng/bin/serve.rs` | command channel, jobs, event streams, pending tokens | HTTP handlers, `run_worker`, `accept_command`, `speculative_step`, `emit_token`, `finish_job`, `fail_all` | every request gets one terminal event; disconnects free resources |
| Text, `eng/bin/serve.rs` | a job's output, what was rendered and streamed | `render_chat`, `history_boundary`, `emit_token`, `finish_text`, `parse_assistant`, `coerce_to_schema` | a stream adds up to the answer; the next turn begins like this one ended |
| Startup, `eng/bin/serve.rs` | the two threads, the ready channel, what is allocated | `parse_args`, `main`, `initialize_worker` | it listens when it can serve, or it exits |
| Weights, `eng/weights.rs`, `qwc-model` | what is loaded of layers, tables and head | `Checkpoint::open`, `validate`, `ModelWeights::load`, `MtpHead::load` | a checkpoint is refused over what its checks compare, and only over what is read; host memory stays small |
| VRAM split, `qwc-core/src/memory.rs`, `from_budget` | sizes of the two pools | `Budget`, `CacheConfig`, `from_budget` | slots and blocks fit the card and each other |
| Device memory, `qwc-cuda/src/memory.rs` | bytes used, limit | `reserve`, `release`, buffer construction and drop | used never passes the limit and returns to zero |
| Wrappers of kernels, `qwc-cuda/src` | workspaces | launches with their checks | no launch is refused for its shape |
| Everything else | | kernels, drivers, benchmarks, scripts | numerical, sequential or I/O |

How they interact. The worker thread owns the scheduler, which owns the cache
manager; all calls are synchronous calls of one thread. HTTP handlers talk to
the worker over a channel and get events back over a channel per request. The
worker plans a batch (`next_batch`), lets the executor run it, and completes or
aborts it. Between planning and completion the batch is *in flight*: page
tables already have the planned token, snapshots are reserved, prefix entries
are pinned. A speculative step grows and shrinks the table of a sequence while
its batch is in flight.

What is hard here: ownership of shared pages across many orders of calls, undo
of half-done batches, eviction that runs inside other operations, a promise
made at admission (`prompt + max_tokens` fits) that many later steps must keep,
fairness between prompts and decodes, buffers that outlive the sequence they
were filled for, clients that leave while their commands are in a channel, and
texts cut at any byte. `PROJECT.json` lists the hazards at
their lines, with the properties that cover each.

## 2. Modules

| Module | Models | Extends |
|---|---|---|
| `KvCache` | state and operations of `cache.rs`, one action each, no `Next` | |
| `CacheManager` | `KvCache` closed with the protocol of its callers: the abstract client | `KvCache` |
| `EvictionLoop` | the eviction loop iteration by iteration, as reference for `PageVictims` | `CacheManager` |
| `Scheduler` | `scheduler.rs`, one action per loop iteration; refines `CacheManager` | `KvCache` |
| `Engine` | `run_worker` over scheduler and executor, with the contents of the device's buffers | `Scheduler` |
| `GreedyDecoding` | what decoding promises: the abstract specification of `Drafting` | |
| `Drafting` | `mtp.rs` and the worker's use of it; refines `GreedyDecoding` | |
| `Server` | handlers, channels and the worker's loop of `serve.rs`, over an abstract scheduler | |
| `TextStream` | `emit_token`, `finish_text`, `parse_assistant`: an answer on its way to the client | |
| `ChatTemplate` | `render_chat` over the turns of a dialog | |
| `ToolCalls` | `parse_xml_function`, `coerce_to_schema`, `render_tool_call`: values and text of a call | |
| `Steps` | `layout.rs` and the executor's upload, captured graphs and segments, row by row | |
| `Launches` | shapes of a pass against the checks of the wrappers in `qwc-cuda` | |
| `Loading` | `names.rs`, `safetensors.rs`, `checkpoint.rs`, `weights.rs` and the head's loader | |
| `VramPlan` | `memory.rs` of `qwc-core`, `from_budget` and the pools after it | |
| `DeviceMemory` | the account of `qwc-cuda/src/memory.rs` under concurrent allocation | |
| `Startup` | `parse_args`, `main`, `initialize_worker` and the demands of the constructors | |
| `DataLemmas` | lemmas about sequences, functions, finite sets and sums | |
| `CacheManagerProofs` | proofs | `CacheManager` |
| `SchedulerProofs`, `ReservationProofs` | proofs | `Scheduler` |
| `ExecutionProofs`, `EngineProofs` | proofs | `Engine` |
| `ServerProofs` | proofs | `Server`, `VramPlan`, `DeviceMemory` |
| `DraftingProofs` | proofs | `Drafting` |
| `MC...`, `MCTables` | constants for TLC, and the sums described in section 3 | |

### Cache manager

`seqs`, `entries`, `refs` and the free sets are the fields of `CacheManager`,
`PrefixCache`, `KvPool` and `StatePool`. An entry is keyed by its snapshot, as
every lookup of the code is. Three abstractions:

* Free lists are sets. The code pops a stack; no operation looks at a number,
  so the slot or snapshot taken is any free one. `Tables(n, S)` is the set of
  page tables that may be taken from the free pages `S`. The proofs use any
  `Tables` that satisfies `TablesAssumption`, the runs take the lowest pages,
  which stand for every choice because pages are interchangeable.
* `last_used` comes from a clock that only orders the entries, so the relation
  `older` is the state.
* The eviction loop of `acquire_blocks` is one step: it takes the victims
  `PageVictims` describes. `EvictionLoop` checks that description against the
  loop run iteration by iteration.

A refused operation still evicts (`AcquireRefused`), as the code does.

`CacheManager` adds what callers owe: a restore due is finished once, a reserved
snapshot is committed or cancelled once, only appended tokens are rolled back.
The calls come in any order, which is more than the scheduler ever does.

### Scheduler

`next_batch`, `complete_batch_multi` and `abort_batch` are loops over cache calls.
`step` says in which loop the scheduler is and each iteration is an action, so
the refinement to `CacheManager` is one call per step. No other operation can be
called between two iterations, since the worker is one thread; the guards
`step = "idle"` and `step = "flight"` say so.
`batch` is the local variable while it is planned, `in_flight` while it is in
flight, and the part not yet dealt with while it is completed or aborted.

`ReserveExtra` and `ReleaseExtra` are the speculative path: positions for drafts,
bounded by `Depth` and by what the request may still generate, given back when
rejected. `CompleteDecode` may end any request (a stop token) and must end one
that has generated `max_new_tokens`. `MayAbort` lets the executor fail before a
batch runs.

Left out: a plain `submit` without tokens (the behaviour with `Snapshots = {}`),
`abort_batch` with drafts reserved (the worker exits after it), the refused
branch of `reserve_extra` (`DecodeNeverRefused` says it is not reached), and the
error returns for misuse of the interface, which change nothing.

### Engine

The device computes; TLC cannot. What can go wrong in `executor.rs` is not the
arithmetic but *which* buffer is read, so the content of a KV cell, of a recurrent
state and of a convolution history is modelled by the history of tokens it was
computed from: `dev.kv`, `dev.slots`, `dev.snaps` and `dev.copy`, the one working copy of
the state with its owner (`state_work`, `work_owner`). A scan appends its tokens to
the history of the state it starts from, whichever that is, and writes that history
to the cells of its page table; if the state was stale, the cells show it. All
layers go through the same copies in the same order, so one layer stands for all.
What a free page, slot or snapshot still contains counts as unknown.

`Execute` is `apply_prefix_ops` and `execute_layout`: page copies, resets of slots
that start at offset 0, the decode rows, then the chunks in order, each with its
restore, its scan, its packing into the slot and its capture.
`Prepare`, `Verify` and `GiveBack` are `speculative_step`: `reserve_extra`,
verification on a copy of the state in the draft slot with a nondeterministic
number of accepted drafts, the commit (take the draft's state over, or replay the
accepted rows), `release_extra`. `DraftDepth` is the worker's choice between the
two: only the sequence whose hidden state the head has is drafted for.
`rough` is a mark on a state: some chunk of its prompt started from the 8 bits of a
resting slot instead of the unquantized copy.

An error of the device makes the worker abort the batch, fail all jobs and exit, so
a batch here runs whole. The draft head's own KV is left to `Drafting`: it
decides which drafts are made, and `Verify` allows any.

### Drafting

Each action is an iteration of the worker's loop: a chunk that primes the head, a
regular step, a speculative one, the end of a request. The main model is any
function `Model` of the history, its hidden state after a token *is* the history up
to that token, and a cell of the head's KV is the history and the token it was
computed from, or a guess when it came from the head's own output. So a cell that
belongs to another dialog, to another position or to a rejected draft shows.
`bind_prompt` (what a new owner inherits), `set_context`, the shortlist with its copy on
the device and the `dirty` flag are state. How many drafts are accepted follows from
`Model`; which drafts the head makes is any choice. `GreedyDecoding` promises tokens
the main model would have picked one by one, and `ImplementsGreedy` is the refinement.

### Server

`handler`, `commands` and `log`/`read` are the HTTP side and the two channels, `sched` an
abstract scheduler (who waits, how many chunks are left, how much was generated),
`jobs`, `pending`, `head` the worker's variables, `pc` and `local` its place in the loop.
The worker's loop is cut where another thread can be noticed: every command it
takes, every job it emits for, every job it sweeps. Clients disconnect at any time.
`Fail` is an error of the engine at any place where the code calls it; `Stop` is
`fail_all` and `return`, which drops the channel with what is in it. A token is its
position in the output, so a token emitted twice, skipped or scored with another's
log-probability shows. Every row of a batch samples one (`Sampled`), also a chunk that is not
its prompt's last: that one is a `Stray`, which waits in `pending`, with its scores in `next`, until
the next chunk's overwrites it, and is never sent. `DraftDepth`, `EmitBurst` and `CompleteBurst` are
`speculative_step`. The scheduler's details are left to `Engine`, which has the
same loop over `Scheduler`.

### TextStream, ChatTemplate, ToolCalls

The three handle text as short sequences of symbols, at the grain where text can be
cut: two bytes of one character, the three pieces of a tag, a stop string of
three tokens, a parameter. `TextStream` has the worker's side (`emit_token` with the
replacement marker held back, `before_tool_call`, `finish_text`) and what the client
makes of the deltas. `ChatTemplate` has the messages of a dialog over several
requests, refused ones included, and `history_boundary`, the point at which the
worker asks for a snapshot. `ToolCalls` has a call from the model's text to JSON
values under a schema and back to text in the next prompt; what a text parses to
(null, integer, float, boolean word, JSON) is a table given by the instance. Choices of a schema are one
level deep.

### Steps and Launches

`Engine` asks which history a step reads; `Steps` asks whether the *rows* of a step are
wired to the right sequences. A token is `<<sequence, position>>`, and a row has its
token, position, slot, page and offset, table and row range, in arrays that live as
long as the executor: `decode` for the arena that captured graphs read, `prefill` for
the other. A graph is captured at the first step of each number of rows and replayed
after that; what the arrays hold beyond the rows of a step is what earlier steps
left. `Launches` has the sizes of the real model as numbers: the arenas
`new_with_pool_options` allocates, and for each pass (decode, mixed, verification,
replay, head) the calls it makes with the checks of `qwc-cuda` as predicates.

### Loading, VramPlan, DeviceMemory, Startup

`Loading` walks the tensors in the order of the loader, for a checkpoint in which any one tensor
may be missing, of another type, another shape or another scale; the data of a tensor is its
name, so a fused matrix is the sequence of names in it. What each reader compares is what the code
does: type and number of elements of a plain tensor, type and size of the parts of a projection,
the shape only in `validate` (finding 3). `VramPlan` has the
arithmetic of the split and sequences that then use the pools. `DeviceMemory` has one
action per atomic operation or driver call of a thread. `Startup` has the two
threads and the ready channel, memory in small units, the assertions of every
constructor and of the steps of one request as guards whose failure is the
state "panicked".


## 3. Runs

| Run | Question | Bounds |
|---|---|---|
| `cache_manager` | is ownership exact under every order of calls, and does the eviction loop evict what `PageVictims` says? | 4 pages of 2 tokens, 2 slots, 3 snapshots, 2 identifiers that are reused, prompts that extend each other across and inside a page, and one unrelated |
| `scheduler` | batches, aborts, cancellations, speculation; refinement | 3 requests (two turns of one chat, one stranger), 5 pages, 2 slots, 2 snapshots, budget of 3 tokens per batch: no two requests fit with all their lifetime beside a third, prompts need several chunks, hits end inside a page |
| `scheduler_live` | does everyone get in and out? | the same three without snapshots and a budget of 2, or two turns of the chat with a snapshot; no aborts; fairness |
| `engine` | is what a sequence reads its own history? | 2 turns of one chat, 8 pages, 2 slots, 2 snapshots, a draft of 1 token and up to 6 decoded, so that two speculative steps follow each other and a regular one; or two strangers without snapshots |
| `server` | is everyone told once, and in the end? | 2 clients, one of which streams and wants scores; 3 tokens and 1 token, prompts of up to 2 chunks, drafts of 2: a burst of two tokens and one after it; failure anywhere; fairness |
| `answers` | is the output the model's, does the head draft for its own text, do the pieces add up to the text, and turns to the dialog? | drafting: 2 turns and another dialog that shares their first token, 4 tokens of vocabulary, answers of up to 4, 2 drafts, a window of 4; text: 4 tokens of 9 kinds; 4 messages; calls of 3 pieces over 12 texts and 11 schemas |
| `executor` | are rows wired to their sequences, and are shapes accepted? | tokens: 2 sequences of up to 3 tokens, 3 pages of 2, so pages and slots are taken over; shapes: batches of 1, 2 and 96, contexts up to 32768, chunks up to 2047 rows |
| `startup` | is the card split well, is a wrong checkpoint refused, does the server come up, and whole? | split: cards with room for nothing, for some and for several sequences, blocks of 1 to 3 tokens, 3 types of state; weights: 2 layers, one of each kind, 5 configurations, every single deviation; account: 3 threads, sizes 1, 2 and 5 in words up to 6; process: values below, at and above each limit of 8 arguments, the depth whose successor wraps and a pool with as many blocks as there are ids included |
| `self_blocking_hit` | finding | 1 request that fills a pool of 3 pages |
| `quantized_prefill` | finding | 2 requests, 1 snapshot, budget of 4 |
| `unchecked_shapes` | finding | those of `startup` |
| `wrapped_depth` | finding | those of `startup` |

Sums. A run may hold components that do not interact, or one component with and
without the prefix cache: a behaviour is of one of them (`part` or `cached` says which), the other rests in
an initial state. Nothing passes between them; it only saves runs. Properties of a component reached
through `INSTANCE` are stated again in the `MC` module, guarded by `part`.

Properties that answer one question are checked as one, a conjunction of named parts. A module's
type invariant is a part of the first of them:

| Checked | Parts |
|---|---|
| `OwnershipExact` | `TypeOK`, `RefsExact`, `SlotsExact`, `SnapshotsExact`, `PinsExact` |
| `AccountsExact` | `TypeOK`, `CommittedExact`, `TokensExact` of the scheduler |
| `ReservationKept` | `LifetimeKept`, `DecodeNeverRefused` |
| `ContextIntact` | `EngineTypeOK`, `HistoryRead` |
| `RequestsKnown` | `TypeOK`, `JobsKnown` of the server |
| `AccountsInStep` | `PendingInStep`, `ScoresAligned`, `HeadInStep`, `OutputBounded` |
| `HeadIntact`, `ListRight` | `TypeOK`, `NoForeignKv`; `DeviceListFresh`, `ListComplete` |
| `RowsOwn` | `TypeOK`, `RowsReadOwn`, `RowsContinueOwn`, `SampledFromLast`, `ContextKept` |
| `LaunchesAccepted` | `TypeOK`, `ProjectionsAccepted`, `AttentionAccepted`, `RecurrenceAccepted`, `LogitsAccepted` |
| `OddRefused` | `MismatchRefused`, `RefusedForReason` |
| `LoadedWhole` | `LoadingTypeOK`, `FusedRows`, `LayerWhole`, `TablesWhole`, `HostAtOneLayer`, `StatsAgree` |
| `SplitRight` | `TypeOK`, `PoolsFit`, `SlotsBacked`, `NothingWasted`, `EstimateAgrees` |
| `AccountExact` | `TypeOK`, `UsedExact`, `DriverCovered` |
| `ServedAsLetIn` | `TypeOK`, `NoAssertionFails`, `HandlersKnowThePool`, `BuiltAlike` |
| `StreamFaithful` | `TypeOK`, `NoCallStreamed`, `StreamedAsWhole`, `StreamedIsStable` |
| `PromptsContinue` | `TypeOK`, `WellFormed`, `HistoryRepeated` |
| `CallsFaithful` | `TypeOK`, `ScalarsTyped`, `RepeatsAlike`, `RepeatsWhole` |

The bounds are small because every mechanism is local: sharing takes two owners
of a page, a refusal one page too few, eviction two entries to compare,
supersession an entry and its extension, rollback one page boundary, rotation one
request that does not fit ahead of one that does, a stale row one earlier step with more rows, a
split tag three tokens. Each of these happens in the
runs, and for each property a mutant of the code (the definitions
commented as mutants in the modules) breaks it under the same bounds. The
invariants of the cache manager, the scheduler, the server's worker, the draft head, the account and
the split do not rest on the bounds at all: they are proved.

What they say, beyond types:

* `RefsExact`, `SlotsExact`, `SnapshotsExact`, `PinsExact`: nothing leaks and nothing
  has two owners that do not know of each other.
* `SharedPagesAgree`: two owners of a page have it at the same place and agree
  on every token in it. This is what makes reuse of KV sound.
* `Reclaimable`: what neither a sequence nor a pinned entry holds can be had.
  The filter "an entry whose pages are all live frees nothing" costs nothing.
* `LifetimeKept` and `DecodeNeverRefused`: the reservation at admission is enough.
  While a restore is due some pages may be pinned, and it takes
  `DecodeNeverRefused` to see that this never meets a decode that needs one.
* `InOnePlace`, `TokensExact`, `CommittedExact`, `ProgressKept`: aborts and
  cancellations undo exactly what was planned.
* `NoneMeansNoneActive` and, without a cache, `WaitingEndsUncached`: an empty batch never
  strands a request.
* `HistoryRead`: after every chunk, decode, copy, restore, draft and
  eviction, the state, the convolution and each KV cell a sequence attends to were computed from
  exactly its own tokens. A mutant shows that this rests on the worker's policy too: the
  working copy still names the draft slot after a fully accepted draft, which is right
  only because no regular step of that sequence comes before the next draft.
* `EntriesIntact`: the same for cached prefixes, while their sequences go on.
* `ImplementsCacheManager`: the scheduler keeps the protocol, so the proved
  invariants are the scheduler's too.
* `ToldOnce`, `Answered`: a client gets one terminal event, and gets it although the
  worker may die with its command still queued. `Released`: what a client that is gone
  had is given up. `WorkerEnds`: the worker notices that nobody can send any more. This is what the
  branch for a closed channel is for; `axum::serve` is run without a graceful shutdown and
  the server's state holds a sender, so today the process is killed before it gets there (`Shut`).
* `PendingInStep`, `ScoresAligned`, `HeadInStep`: the worker's three parallel accounts (pending
  tokens, scores, tokens for the head) keep step with the scheduler's through bursts, and what the chunks
  of an unfinished prompt sample is never taken for output.
* `NoForeignKv`: no dialog sees another's KV in the head. `DeviceListFresh`: a draft's index
  is looked up in the list it was made with.
* `RowsReadOwn`, `RowsContinueOwn`, `SampledFromLast`, `ContextKept`: whatever a captured
  graph finds in its arrays, each row reads the keys, continues the state and yields the token of its sequence.
* `AttentionAccepted`: the number of partitions of an attention call is monotonic neither
  in rows nor in context, yet the workspace allocated for the largest of each is enough.
  `KeysCovered`: a call planned for a longer context still reads every key once.
* `MismatchRefused` and `RefusedForReason`: what was loaded is the architecture's but for what the checks leave open
  (`MayDiffer`: a scalar's four bytes; a plain tensor's shape when its elements are as many, unless `validate` was
  called), and no checkpoint is refused over a tensor the loader does not read.
  `HostAtOneLayer`: the mapped pages never exceed a layer.
* `SlotsBacked`, `TargetHeld`, `NothingWasted`: the split is tight from both sides.
* `HistoryRepeated`: the point at which history is cached is a prefix of the next prompt,
  whatever was answered. `StreamedAsWhole`: deltas add up. `RepeatsAlike`: a call read, shown and
  repeated is the same call.

Fairness. `FairSpec` of `Scheduler` is weak fairness of `Advance`, the disjunction of what the
worker does of its own accord: `run_worker` loops over `next_batch`, and the
executor returns. Clients owe nothing; speculation is optional.
`WaitingEndsUncached` assumes that clients stop submitting at some time: under an
endless stream of small requests a large one may wait forever, as the rotation
in `admit_one` allows, and the property says nothing of that. `scheduler_live` leaves aborts out, because the
worker exits after one. `Server`'s `FairSpec` is weak fairness of the worker's steps, one thread in
a loop, and of each handler, a task that the runtime polls when its channel has something; that clients
send, stay or leave is not assumed. In `startup` the main thread and the worker's initialisation are weakly
fair: both are straight-line code.

Findings, each shown by a run that expects a violation:

1. `self_blocking_hit`. A prompt that continues a cached prefix pins that entry
   and then asks for pages. If the pool has room for the request only when the
   entry goes, the request is refused at every attempt, in an idle pool,
   although `submit` accepted it. `WaitingEndsUncached` shows that without the
   prefix cache everyone gets a turn.
2. `quantized_prefill`. The executor's comment says one sequence at most is
   partially prefilled, because a chunk is partial only when the budget is
   exhausted. `next_batch` also cuts chunks at the snapshot; a second sequence then takes the working
   copy over and the rest of the first prompt starts from the 8-bit slot, which the
   executor's comment says spoils it. `ContextIntact` shows that the history is
   still right: it is precision that is lost. `UncachedUnquantized` shows that
   without snapshots it never happens.
3. `unchecked_shapes`. `weights.rs` says that shapes come from the architecture and that a mismatch is a load
   error, and `mtp.rs` says the same of the head. `bf16_tensor` compares the number of elements: a plain tensor
   with its dimensions reversed is loaded and read in the wrong layout. `validate` compares shapes, but only the
   drivers `load` and `inspect` call it.
4. `wrapped_depth`. `parse_args` compares the depth of speculation plus one. In a release build the successor
   of the largest `usize` is 0, so this depth, which the message beside it excludes, is let through;
   the executor's assertion about the rows of a verification then aborts the process. `ServedAsLetIn` shows that
   for all other arguments no assertion fails, a pool of 2^32 blocks or more apart.

Observations made while translating, for a reader of the code; no run is about them:

* `scheduler.rs`: rotation lets requests of the same size overtake one that did not fit, where the
  document promises that only smaller ones do.
* `serve.rs`: `emit_token` says it returns true when the client disconnected; it does only when it had
  something to send. A request that waits in an idle pool (finding 1) is not swept when its client leaves,
  since the sweep comes after a batch; the path of a speculative step skips it too, but ends with the request.
  When a token cannot be decoded the client gets an error and then the end of the stream. The beginning of a stop string that
  is split over tokens is streamed before the rest is known. A request without tools whose model
  writes a call gets "tool_calls" as the reason in a stream that has the raw text. A value of
  `enable_thinking` that is no boolean counts as on.
* `serve.rs`, arguments of calls: a parameter whose schema allows objects or arrays takes any JSON. The template drops the quotes of strings,
  so the string `'7'` comes back as a number (the exception in `RepeatsAlike`).
* `serve.rs`, sizes: a KV pool of 2^32 blocks or more is let through and refused by an assertion of the executor's constructor
  (`BlockIdsFit`), not by a message. Products of sizes that pass the word (an absurd `--prefix-cache`, say) are not modelled.
* `serve.rs`, start: the worker loads the tokenizer once more after it has reported itself ready. If that fails the process goes on
  listening and answers every request with an error; `ComesUp` allows it.
* `mtp.rs`: comments say that drafts from the head's own output are rewritten with real states, that the list has everything
  emitted, and that position t carries the pair (h_t, token t+1). The first fails for positions before the tokens a step
  brings, the second when another sequence decoded in between, the third is one position off. Drafts
  suffer, output does not (`ImplementsGreedy`).
* `executor.rs`: the mixer rows of speculation are allocated in the first speculative step, not up front.
* `weights.rs` and `checkpoint.rs`: `validate` passes checkpoints the loader refuses. The unit is the tensor: those
  before a bad one are already on the card. Projections that no field takes are not noticed, plain tensors are.
* `memory.rs`: `max_context` ignores that the last block of a sequence is not full; nothing calls it.


## 4. Proofs

`CacheManagerProofs` proves, for all pools, page sizes, prompts, identifiers and
all choices of pages, that the cache manager keeps its type, covers its tokens,
counts references, owns slots and snapshots, counts pins, ranks its entries,
and can reclaim what only the cache holds (`TypeCorrect`, `PageTables`,
`ReferenceCounting`, `SlotOwnership`, `SnapshotOwnership`, `PinCounting`, `Ranking`,
`EvictionReclaims`); `Ownership` sums five of them up as the property the run checks.

Assumptions: those of the modules (`CacheAssumption`, `TablesAssumption`,
`PromptsAssumption`). The pools are finite, a page holds at least one token,
`Tables` gives tables of distinct free pages whenever there are enough.

The argument. No invariant but the free sets' is inductive alone. `IInv` is the
conjunction of `SeqPart`, `EntryPart`, `PagePart`, `SavingPart`, `OlderPart`,
`SlotsExact`, `SnapshotsExact` and `PinsExact`: types, page tables, exact counts and
the finiteness of `DOMAIN seqs` that counting needs. It is needed as a whole:
releasing a page is only safe when the count is exact; the count of a growing
table is exact only when fresh pages were free, hence in no table; the pages of
a hit survive the eviction inside the same operation because its entry is
pinned or held; and `FinishRestore` may decrement because `PinsExact` says whose
pin it is. TLC checks the parts of `IInv` as `OwnershipExact`, `TablesCover` and
`EntriesRanked` of `cache_manager`.

`DataLemmas` has facts about sequences without repetition (queues: their tail, an
append, a rotation, an element filtered out), functions with a point added or removed,
cardinalities, and sums over finite functions (a point added, removed or changed, a
sum compared term by term). `CacheManagerProofs` begins with what `AcquireBlocks`,
`AcquireRefused` and `ReleasePages` do to an exact count. It has
one lemma per action and part of `IInv`, and `Reclaimable` follows from `IInv` in
every single state: a page that no sequence and no pinned entry holds is free or held
by unpinned entries alone, all of which are candidates.

`PageSharing` proves `SharedPagesAgree`: a page two sequences share lies at the same place of both
tables and within what their prompts fill with the same tokens; a page an entry shares with a
sequence holds the entry's tokens. It is not inductive: an admission shares the pages of one entry,
which other entries may hold too, so what any two entries agree on has to be known as well. `Sharing` says
it of all three kinds of pair, token by token, so that a prefix of a prefix needs no argument of its own.

`SchedulerProofs` proves of the scheduler, for any requests, pool, batch
limits and draft depth:

* `ImplementsCache`: it implements `CacheManager`. Every step is one call the cache manager allows its
  callers, or leaves the cache alone. What `CacheManagerProofs` proves of the cache thereby holds of the
  scheduler's cache, and the proof needs it to: the two are one induction, `SchedulerInvariance`.
* `Accounts`: `AccountsExact`. `committed` is what the active requests reserve and at most the
  capacity; the lengths in the cache are what was prefilled, generated and reserved for drafts.
* `OnePlace`: `InOnePlace`. A request is in one queue, once, or in the batch, and `active` says where.
* `NothingUndone`: the action property `ProgressKept`.

Assumptions: `SchedulerAssumption` (finitely many requests, none with an empty prompt, which
`submit` refuses; limits of at least one) and those of the cache.

The argument. `SInv` has one part per structure. `QueuePart`: the ready queues have no duplicates and
hold exactly the requests in their phase. `BatchPart`: so do the decodes and the chunks of the batch,
and a chunk starts where its prompt is prefilled to. `RestorePart`: the batch
restores exactly what its chunks' requests are due. `SavePart`: the snapshots the batch saves are distinct, each
of a chunk that reaches a page's end. `ActivePart`: what a request has done, its phase and the length of its sequence
determine one another. `ExtraPart`: positions for drafts exist for a single decode in flight only.
`CommittedPart`: the sum. `StepPart`: what the loops count on. None stands alone: that
`complete_batch_multi` may release a request needs it to be in no queue, which needs the queues to
be injective, which needs `active` to tell in which queue a request is. The cache's
`PinsExact` and `SnapshotsExact` speak of what callers owe, which is the batch's
restores and saves: `client` and `saving` of the refinement are defined from them, and
`SavePart` and `RestorePart` are what makes `finish_restore` and
`commit_snapshot` calls the cache allows, after an abort as well.
One call of the scheduler's cache is an operator of `KvCache`, and the instances of
`CacheManager` and of its proofs have copies of it: the lemmas `Same...` say that they are equal.

`ReservationProofs` adds what admission promises, again for any requests, pool and limits:

* `Reservation`: `ReservationKept`. While no restore is due, the pages that can be had cover the whole
  remaining life of every active request; and no page that the decode loop of `next_batch` or the
  executor's speculation asks for is ever refused.
* `NoneStuck`: `NoneMeansNoneActive`. `next_batch` returns `None` only when no request is active.

The first half follows from `SInv` and the cache: pages that are shared are counted once per holder in
`committed` and once in the pool, so `committed <= Capacity` is enough, and all that is not held can be evicted
(`EvictionReclaims`). While a restore is due it does not follow: its entry is pinned, and the pages of a
pinned entry that nobody else holds are in nobody's reservation. It needs the order in which
`next_batch` works, and `RInv` says it. `LoopPart`: decodes are planned before chunks, chunks before
admissions, and each loop ends for want of room or of requests. `NextPart`: while a restore is due the next pages of the
decodes that are ready are spare. `DuePart`: a request that waits for its restore is either in flight or sure of
a place in the next batch, behind all that is planned before it; so restores are carried out
by the batch after the admission, and no decode of a later batch meets the pin. `LimitPart`: only the last chunk of
a batch was cut to fit, which is why an abort that puts the chunks and decodes back
leaves them their places. `MapPart` is a matter of types. A rollback is the hard
step of `NextPart`: an aborted decode needs its page again, and it is spare again because
the page a sequence grew by is in no entry and no other table, which `Sharing` and the exact counts say.

`ExecutionProofs` and `EngineProofs` prove of the scheduler, the executor and the worker together, for any
requests, prompts, pools, page size, chunk and batch limits, draft depth and snapshots:

* `ContextAlwaysIntact`: `ContextIntact`. Every request reads the states and the KV of its own tokens.
* `EntriesAlwaysIntact`: `EntriesIntact`. Every cached prefix is what it says.

Assumptions: `EngineAssumption` (the symbols for a sampled, a rejected and an unknown token differ from one
another and from what prompts are made of; the slot drafts run on is none of the scheduler's), those of the
scheduler and those of the cache.

The argument. What a request reads is said by what is on the device *and* by what the scheduler believes is
there, so `EInv` (`EngineInvariant`) speaks of both. `Reached` is how many tokens of a request are in the
caches: what the scheduler has counted and, once the batch in flight has run, what it added, which the
scheduler counts on completion only. `Right` says that a request's pages, its slot and, if it is the owner's,
the working copy hold the beginning of its text of that length. A request that waits for its restore has
nothing of its own: `RestoresRight` says that the entry is a prefix of its prompt, and that the page it will
be copied into is in no other table and in no entry. `RunPart` says where the batch is between planning,
execution and completion. `DraftPart` and `HiddenPart` are why a speculative step may go on from a working
copy that a batch before it left: the copy is the state of the one request that is decoded, or that request
has had its last token.

The hard steps are two. A batch runs for many requests, and each writes pages: in `ExecutionProofs`, `Partial`
follows it request by request, and `WroteOther` and `WroteEntry` say that a page which others share receives
exactly what it has, because `Sharing`, proved of the cache, says that they share it for equal tokens at equal
places. And the scheduler moves pages and slots between requests while their contents stay, which is what
`EngineProofs` is about: `Carried` (nothing of a request changed) and `Starts` (it has a restore due, or
nothing yet) divide what a step may do to it, and the proofs of admission, eviction, release and abort show
which it is. An eviction may take the entry a restore was to come from only if it is not pinned, so
`PinsExact` is needed again.

`ServerProofs` proves of the server, for any number of clients, any lengths of prompts and answers and any
draft depth, the three safety invariants the run `server` checks (`RequestsAlwaysKnown`, `AlwaysToldOnce`,
`AccountsAlwaysInStep`), from `ServerAssumption` (those that stream or ask for scores are clients; a
request may generate at least one token, a prompt has at least one chunk and a batch at least one place).

The argument. What the run checks speaks of the worker between two batches; the loop is cut in the middle of
one, wherever another thread can act, and `WInv` (`WorkerInvariant`) says what holds there. `Left` are those the scheduler
has completed and the worker has not told yet: they keep their jobs. `StoppedNow` are those a stop token, a
stop string or a disconnect has ended: they keep their place in the batch until it is completed. `Made` is what the
step in flight has emitted of a request before the scheduler counts it. With these, `JobPart` says that jobs and pending
tokens are exactly those of the scheduler's requests and of `Left`, where a prompt
between its first and its last chunk (`MidPrompt`) has a stray token (`StrayPart`) and nothing out; `OutPart` that an output is what the scheduler
counts and what the step has made; `LocalPart` that a burst stops where its accepted drafts end or its request does;
`HeadPart` that the tokens for the head end in the pending one. `CommandPart` is the channel: a command is sent once, and is in the
channel or a job, never both. `LogPart` is why a client is told once: a terminal event is sent for one who has a job
and takes the job away, and a client that has no job yet has been told nothing.

The second half of `ServerProofs` is about the memory the server serves from. It proves `SplitRight` for every
card, model, cache format and target length, from `SizesAssumption` (sizes are natural numbers; a token, a
state and a block are not empty) (`SplitAlwaysRight` and the theorems of its parts). `PoolsSet` is the
invariant: the capacities are zero while planning and what `from_budget` computes after it. Everything else is
arithmetic: `Quotient` and `Split` say of two nested floor divisions what is left over. It matters that both
divisions round down and that the blocks get what the slots leave: the share of blocks of each slot is then
still there. `TargetAlwaysHeld` adds the sequences: there are never more of them than slots (`SlotsHeld`), so
while each is within the target length the sum of their blocks is at most the slots in use times the blocks of
the target (`SumBound`), and what is left is enough for the others.

Of the account it proves `MemoryWithinLimit`: however many threads allocate and release, and
however their compare-and-exchange loops interleave, the counter never passes the limit, from
`MemoryAssumption` (finitely many threads; the limit fits the counter's word). The invariant adds the values the threads
have read: an exchange that succeeds proves that what was read still holds. `MemoryAccounted` proves
`AccountExact`: an exchange adds to the sum over the threads that hold a reservation exactly the bytes
it adds to the counter and a release takes the same bytes out, so no failure keeps bytes and no buffer
gives them back twice.

`DraftingProofs` proves of speculative decoding, for any model, prompts, stop tokens, page size, draft
depth, shortlist and window, and whatever drafts the head makes:

* `SpeculationExact`: `ImplementsGreedy`. What goes out is what greedy decoding would have sent, and ends where it would have ended.
* `HeadAlwaysIntact`: `HeadIntact`. No dialog sees another's KV in the head.
* `ListAlwaysRight`: `ListRight`. The list a draft is looked up in is the one on the device, and
  it has what it promises.

Assumptions: `DraftingAssumption` (finitely many requests, each with a prompt and room for its answer in the
context; a page holds a token; a request may generate one).

The argument for the refinement is `GInv` (`PendingIsGreedy`): what has gone out is the model's, one token after
another, nothing ends it but its last token, and the pending token is the model's next. A speculative step verifies
`full`, the pending token and the drafts that agree with the model, so each of its tokens is the model's choice after those
before it (`Verified`); what is sent is the beginning of `full` up to the first token that ends the request
(`UpToStopFacts`, `CutFacts`), hence an emission of `GreedyDecoding`; and what becomes pending is the model's choice after all of `full`.
`GainsEmit` puts the requests of a batch together into one abstract step.

The argument for the head is `HInv` (`HeadInvariant`), which adds `Kept`: the head is nobody's and empty, or it is owned by one request, and
each of its cells is empty, a guess of the head for a position after the prompt, or the beginning of *that*
request's text that ends at the cell's position (`Cell`). Texts only grow, so what was a beginning stays one, and only the cells a
step writes need an argument. Those are computed from the hidden rows, so `HiddenOf` says whose rows they are:
where `hidden_for` names a request, the rows and `head_tokens` are the last tokens of its text. The hard step is a new owner.
`bind_prompt` keeps the cells of whole pages strictly within the beginning that both prompts have in common, and there
the two texts are the same. The shortlist is filled by a fold; it is replaced by a function on sets of indexes that satisfies the
same recursion (`Pushing`, `PushingExists`), about which induction over finite sets can be done.

Only model-checked, and why:

* `UncachedUnquantized` of the engine: it is about where the working copy's roundings come from, which `EInv`
  does not say.
* `LoopEvictsVictims`: its reference is recursive.
* `RowsOwn`, `LaunchesAccepted`, `KeysCovered`, `LoadedWhole`, `OddRefused`, `ServedAsLetIn`: shapes of batches, tensors and
  command lines, which the runs enumerate.
* `CallsFaithful`, `PromptsContinue`, `StreamFaithful`: text that is cut, parsed and printed piece by piece, partly by recursive operators.
* All liveness. Liveness under fairness and `ENABLED` are out of the prover's reach, and so is what a recursive operator computes.
  Sums over finite functions and the fold of the shortlist are not: induction over finite sets in the form of a
  theorem about sets of sets is enough for them.

## 5. Not modelled, and what is left

* Arithmetic inside kernels, and the bindings to them: floating point. `Launches` has their shapes, `Steps` and
  `Engine` what they read and write.
* Batch drivers (`load`, `generate`, `eval`, `speculate` and the like): single-threaded loops that make a
  subset of the worker's calls and print.
* Benchmarks, scripts, the roofline of `qwc-core`: figures, no state of the system.
* Counters of statistics, logging, metrics and the model list of the server; wording of errors.
* The text of the template and of JSON, beyond the places where it can be cut; images and other media, which
  the server refuses.
* Integer overflow where a refusal comes long before it (offsets of a layout, 2^32 pages).

What is left:

1. Proofs of the engine's `UncachedUnquantized` and of the loader's `LoadedWhole`.
2. `Server` over the detailed `Scheduler`: today the server's scheduler is an abstraction that the
   loop of `Engine` refines only by inspection.
3. Larger instances of `engine`: three sequences that speculate in turn.
