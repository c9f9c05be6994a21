------------------------------ MODULE Launches ------------------------------
(***************************************************************************)
(* Every launch of a step must be accepted: the buffers the executor and    *)
(* the draft head allocate once (crates/qwc-engine/src/executor.rs, mtp.rs) *)
(* against the checks of crates/qwc-cuda on every call.  A check that fails *)
(* is a panic of the worker, or cudaErrorInvalidValue.                      *)
(*                                                                         *)
(* The state is the configuration, what was allocated for it and the shape  *)
(* of the last pass.  Buffers are counted in rows; what is in them, and the *)
(* checks of null pointers and of lengths that do not depend on rows, are   *)
(* left out.  The numbers are those of the model and of the card.           *)
(***************************************************************************)
EXTENDS Integers, Sequences, FiniteSetsExt, SequencesExt

CONSTANTS
  BatchSizes,    \* ExecutorConfig.max_batch, the values tried
  ContextSizes,  \* ExecutorConfig.max_context
  RowCounts,     \* the sizes of a prompt's chunk
  Contexts       \* where a chunk or a decode row may end

CeilDiv(a, b) == (a + b - 1) \div b
AtMost(a, b) == IF a < b THEN a ELSE b
AtLeast(a, b) == IF a < b THEN b ELSE a

BatchLimit == 96
MaxSpeculationRows == 8
HeadRows == 8          \* qwc_cuda::mtp::MAX_ROWS
MaxStepRows == 2048    \* MAX_STEP_ROWS, PREFILL_CHUNK_SIZE, kMaxStepRows
KernelDecodeRows == 128
PageTokens == 64
Heads == 24
KvHeads == 4
Group == Heads \div KvHeads

-----------------------------------------------------------------------------
(* Attention over packed rows: how many parts a context is split into.     *)

\* Mutant of TileSize: a tile of decode rows takes in the neighbours.
TileSizeShared(shape, rows) == AtMost(rows * Group, 64)

\* packed_tile_size: a tile is cut regardless of where a query row ends.
TileSize(shape, rows) == IF shape = "Rows" THEN Group ELSE AtMost(rows * Group, 64)

\* packed_m_tiles.
MTiles(size) == IF size <= 16 THEN 1 ELSE IF size <= 32 THEN 2 ELSE 4

\* packed_split.
Span(context, parts) == CeilDiv(context, parts * PageTokens) * PageTokens

\* packed_most_partitions.
MostPartitions(rows, context) ==
  AtLeast(1, AtMost(CeilDiv(context, 4 * PageTokens), 4096 \div rows))

\* packed_partition_count: enough CTAs for a tile bound by bandwidth; for one
\* bound by the tensor cores the first of the cheapest splits, by waves.
PartitionCount(shape, rows, context) ==
  LET size == TileSize(shape, rows)
      ctas == KvHeads * CeilDiv(rows * Group, size)
      most == MostPartitions(rows, context)
      cost == [p \in 1..most |->
                 LET span == Span(context, p)
                 IN  CeilDiv(ctas * CeilDiv(context, span), 170) * (span + 64)]
  IN  IF MTiles(size) < 4
      THEN AtMost(CeilDiv(64 * MTiles(size), ctas), most)
      ELSE LET cheapest == Min({cost[p] : p \in 1..most})
           IN  Min({p \in 1..most : cost[p] = cheapest})

\* Mutant of PartitionBound: as many as at the largest context.
PartitionBoundAtCeiling(shape, rows, context) == PartitionCount(shape, rows, context)

\* packed_partition_bound: not as many as at the largest context, since the
\* count does not grow with the context.
PartitionBound(shape, rows, context) ==
  IF MTiles(TileSize(shape, rows)) < 4
  THEN PartitionCount(shape, rows, context)
  ELSE MostPartitions(rows, context)

\* packed_workspace_bytes, in pairs of a row and a partition.
PackedPairs(rows, parts) == IF parts = 1 THEN 0 ELSE rows * parts

\* packed_workspace_capacity.
PackedCapacity(shapes, maxRows, maxContext) ==
  Max({PackedPairs(rows, PartitionBound(shape, rows, maxContext)) :
         <<rows, shape>> \in (1..maxRows) \X shapes})

-----------------------------------------------------------------------------
(* Attention row by row, for a cache in bf16.                              *)

\* select_decode_kernel: whether the heads of a group share what they read.
SharesKv(rows, context) ==
  (rows = 1 /\ context >= 16384) \/ (rows \in 8..16 /\ context >= 4096)

\* partition_count.
RowPartitions(rows, context) ==
  LET needed == IF SharesKv(rows, context) THEN CeilDiv(170, rows * KvHeads)
                                           ELSE CeilDiv(340, rows * Heads)
  IN  AtLeast(1, AtMost(needed, CeilDiv(context, 32)))

\* PagedAttentionWorkspace::new: fewer rows are split into more partitions.
RowCapacity(maxRows, maxContext) ==
  Max({PackedPairs(rows, RowPartitions(rows, maxContext)) : rows \in 1..maxRows})

-----------------------------------------------------------------------------
(* What is allocated.                                                      *)

Configs ==
  [batch : BatchSizes, context : ContextSizes, linear : {"Auto", "W4A4"},
   cache : {"Fp8", "Bf16"}, delta : {"Bf16", "Fp32", "Wy"}]

\* Executor::new_with_pool_options: the arena of pure decode steps.
DecodeArena(c) ==
  [rows |-> IF c.linear = "W4A4" THEN AtLeast(c.batch, 3) ELSE c.batch,
   sequences |-> c.batch,
   slots |-> c.batch,
   packed |-> PackedCapacity({"Rows"}, c.batch, c.context),
   split |-> RowCapacity(c.batch, c.context),
   splitRows |-> c.batch]

\* Mutant of PrefillArena: sized for the rows of decode kernels.
PrefillArenaOfDecode(c) ==
  [rows |-> KernelDecodeRows, sequences |-> KernelDecodeRows, slots |-> BatchLimit,
   packed |-> PackedCapacity({"Rows", "Segment"}, KernelDecodeRows, c.context),
   split |-> RowCapacity(KernelDecodeRows, c.context), splitRows |-> KernelDecodeRows]

\* PrefillBuffers::new: the arena of all other steps.
PrefillArena(c) ==
  [rows |-> MaxStepRows,
   sequences |-> MaxStepRows,
   slots |-> BatchLimit,
   packed |-> PackedCapacity({"Rows", "Segment"}, MaxStepRows, c.context),
   split |-> RowCapacity(AtMost(MaxStepRows, 1024), c.context),
   splitRows |-> AtMost(MaxStepRows, 1024)]

\* MtpScratch::new.
HeadArena(c) ==
  [rows |-> HeadRows,
   packed |-> PackedCapacity({"Segment"}, HeadRows, c.context),
   split |-> RowCapacity(HeadRows, c.context),
   splitRows |-> HeadRows]

\* The rows of logits, and of the sampler.
\* Mutant of LogitsRows: a row for each sequence.
LogitsRowsPerSequence(c) == c.batch

LogitsRows(c) == AtLeast(c.batch, MaxSpeculationRows)

\* Slots of recurrent state: one more than sequences, for the drafts.
StateCapacity(c) == c.batch + 1

-----------------------------------------------------------------------------
(* Projections: which kernel runs and over how many rows.                  *)

\* Outputs and inputs of the projections of a layer, gate and up apart.
Shapes == {<<16480, 5120>>, <<5120, 6144>>, <<12288, 5120>>, <<1024, 5120>>, <<5120, 17408>>}
GateUp == <<17408, 5120>>

\* nvfp4::select_decode_kernel.
DecodeKernel(rows, shape) ==
  LET limit == CASE shape[1] <= 2048 -> 8
                 [] shape[1] > 2048 /\ shape[2] >= 3 * shape[1] -> 4
                 [] OTHER -> 6
  IN  IF rows <= limit THEN "W4A16" ELSE "W4A4"

Gemm(kernel, rows, selected) == [kernel |-> kernel, rows |-> rows, selected |-> selected]

\* Mutant of ProjectDecode: the padding of the tensor cores left out.
ProjectDecodeUnpadded(linear, rows, shape) ==
  Gemm(IF linear = "W4A4" THEN "W4A4" ELSE DecodeKernel(rows, shape), rows, linear = "Auto")

\* project_decode: `selected` when select_decode_kernel is asked.
ProjectDecode(linear, rows, shape) ==
  IF linear = "W4A4" THEN Gemm("W4A4", AtLeast(rows, 3), FALSE)
                     ELSE Gemm(DecodeKernel(rows, shape), rows, TRUE)

\* project_w4a4.
Project(linear, rows, shape) ==
  IF rows <= KernelDecodeRows THEN ProjectDecode(linear, rows, shape)
                              ELSE Gemm("W4A4", AtLeast(rows, 3), FALSE)

\* decode_forward: gate and up are fused for a few rows.
DecodeGateUp(linear, rows) ==
  IF linear = "Auto" /\ rows <= 6 THEN Gemm("SwiGlu", rows, FALSE) ELSE ProjectDecode(linear, rows, GateUp)

\* The checks of each call, for buffers of `capacity` rows.
SelectionAccepted(gemm) == gemm.selected => gemm.rows \in 1..KernelDecodeRows
NarrowAccepted(gemm, capacity) == gemm.rows \in 1..8 /\ gemm.rows <= capacity
FusedAccepted(gemm, capacity) == gemm.rows \in 1..6 /\ gemm.rows <= capacity
QuantizeAccepted(gemm, capacity) == gemm.rows \in 1..capacity
TensorAccepted(gemm, capacity) == gemm.rows \in 3..MaxStepRows /\ gemm.rows <= capacity

GemmAccepted(gemm, capacity) ==
  /\ SelectionAccepted(gemm)
  /\ CASE gemm.kernel = "W4A16" -> NarrowAccepted(gemm, capacity)
       [] gemm.kernel = "SwiGlu" -> FusedAccepted(gemm, capacity)
       [] gemm.kernel = "W4A4" -> QuantizeAccepted(gemm, capacity) /\ TensorAccepted(gemm, capacity)

-----------------------------------------------------------------------------
VARIABLES
  config,   \* what the executor was built with
  arenas,   \* what it allocated then
  pass      \* the shape of the last pass; kind "none" at first

vars == <<config, arenas, pass>>

NoPass == [kind |-> "none", decode |-> 0, ends |-> {}, segments |-> <<>>]

Init ==
  /\ config \in Configs
  /\ arenas = [decode |-> DecodeArena(config), prefill |-> PrefillArena(config),
               head |-> HeadArena(config)]
  /\ pass = NoPass

\* `ends` holds the contexts of the decode rows, one for each row or fewer.
\* A pass ends with a synchronisation before the next.
Pass(kind, decode, ends, segments) ==
  /\ pass.kind = IF kind = "replay" THEN "verify" ELSE "none"
  /\ pass' = [kind |-> kind, decode |-> decode, ends |-> ends, segments |-> segments]
  /\ UNCHANGED <<config, arenas>>

Reachable == {c \in Contexts : c <= config.context}

\* Rows base .. base + rows - 1 of the arena, up to `end` tokens of context.
Segment(base, rows, end) == [base |-> base, rows |-> rows, end |-> end]

\* execute_layout of a batch that only decodes: launch_decode.
DecodeStep ==
  \E n \in 1..config.batch, end \in Reachable : Pass("decode", n, {end}, <<>>)

\* execute_layout of any other batch: forward_segments on chunks of one or two
\* prompts, after the rows that decode.  The budget is the size of the arena.
MixedStep ==
  \E n \in {0, 1, 8, config.batch - 1}, r1, r2 \in RowCounts \cup {0} :
  \E e1, e2 \in Reachable, end \in {Min(Reachable), Max(Reachable)} :
    /\ r1 > 0 /\ r1 <= e1 /\ (r2 = 0 => e2 = e1) /\ r2 <= e2
    /\ n >= 0 /\ n + r1 + r2 <= MaxStepRows
    /\ n + (IF r2 = 0 THEN 1 ELSE 2) <= config.batch
    /\ Pass("mixed", n, {end},
            <<Segment(n, r1, e1)>> \o (IF r2 = 0 THEN <<>> ELSE <<Segment(n + r1, r2, e2)>>))

\* verify_speculation.
Verification ==
  \E rows \in 1..MaxSpeculationRows, end \in Reachable :
    rows <= end /\ Pass("verify", 0, {}, <<Segment(0, rows, end)>>)

\* commit_speculation of fewer rows than were verified.
Replay ==
  /\ pass.kind = "verify"
  /\ \E kept \in 1..(pass.segments[1].rows - 1) :
       Pass("replay", 0, {}, <<Segment(0, kept, pass.segments[1].end)>>)

\* draft, called by prime and draft_chain: some rows of the head.
HeadPass ==
  \E rows \in 1..HeadRows, end \in Reachable :
    rows <= end /\ Pass("head", 0, {}, <<Segment(0, rows, end)>>)

Synchronize == pass.kind # "none" /\ pass' = NoPass /\ UNCHANGED <<config, arenas>>

Next == DecodeStep \/ MixedStep \/ Verification \/ Replay \/ HeadPass \/ Synchronize

Spec == Init /\ [][Next]_vars

-----------------------------------------------------------------------------
(* The launches of a pass.                                                 *)

Rows(p) == p.decode + FoldSeq(LAMBDA s, sum : s.rows + sum, 0, p.segments)
Sequences(p) == p.decode + Len(p.segments)
SegmentsOf(p) == {p.segments[i] : i \in DOMAIN p.segments}
LongestContext(p) == Max(p.ends \cup {s.end : s \in SegmentsOf(p)})
Running(p) == p.kind \in {"decode", "mixed", "verify"}

\* linear_attention, full_attention and the MLP of decode_forward; those of
\* forward_segments.
Gemms(p) ==
  CASE p.kind = "decode" -> {ProjectDecode(config.linear, p.decode, shape) : shape \in Shapes}
                              \cup {DecodeGateUp(config.linear, p.decode)}
    [] p.kind \in {"mixed", "verify"} -> {Project(config.linear, Rows(p), shape) : shape \in Shapes \cup {GateUp}}
    [] OTHER -> {}

ArenaOf(p) == IF p.kind = "decode" THEN arenas.decode ELSE arenas.prefill

\* A call of gated_packed or decode_gated: its rows, the context it is planned
\* for and the contexts its rows have.
Call(shape, base, rows, context, ends) ==
  [shape |-> shape, base |-> base, rows |-> rows, context |-> context, ends |-> ends]

\* A captured step is planned for the largest context there can be.
DecodeCalls(p) ==
  IF p.kind = "decode" /\ config.cache = "Fp8"
  THEN {Call("Rows", 0, p.decode, config.context, p.ends)}
  ELSE IF p.decode > 0 THEN {Call("Rows", 0, p.decode, LongestContext(p), p.ends)} ELSE {}

\* The query rows of a tile, counted from the first row of the call.
FirstRow(tile, size) == (tile * size) \div Group
LastRow(tile, size, rows) == (AtMost((tile + 1) * size, rows * Group) - 1) \div Group
Tiles(size, rows) == 0..(CeilDiv(rows * Group, size) - 1)

\* The rows of a segment end one token after another; the kernel takes the
\* longest row of a tile.  A cache in bf16 takes
\* the flash kernel, which needs no workspace; the head does not.
SegmentCalls(p) ==
  IF p.kind \notin {"mixed", "verify", "head"} \/ (config.cache = "Bf16" /\ p.kind # "head") THEN {}
  ELSE {LET size == TileSize("Segment", s.rows)
        IN  Call("Segment", s.base, s.rows, s.end,
                 {s.end - s.rows + 1 + LastRow(tile, size, s.rows) : tile \in Tiles(size, s.rows)})
          : s \in SegmentsOf(p)}

\* plan_for, gated_packed and qwc_paged_attention_packed_fp8.
PackedAccepted(call, arena) ==
  LET parts == PartitionCount(call.shape, call.rows, call.context)
  IN  /\ call.rows \in 1..arena.rows /\ call.context \in 1..config.context
      /\ call.base + call.rows <= arena.rows
      /\ PackedPairs(call.rows, parts) <= arena.packed
      /\ parts \in 1..65535 /\ TileSize(call.shape, call.rows) \in 1..64

\* decode_impl and qwc_paged_attention_bf16: rows from zero, and a plan for
\* the largest context of the workspace.
RowsAccepted(call, arena) ==
  /\ call.base = 0 /\ call.rows \in 1..arena.splitRows /\ call.rows <= 1024
  /\ call.context \in 1..config.context
  /\ PackedPairs(call.rows, RowPartitions(call.rows, config.context)) <= arena.split

\* Mutant of RecurrentMode: the mode as it is.
RecurrentModeKept(delta) == delta

\* recurrent_mode and delta_state_mode_for_replay.
RecurrentMode(delta) == IF delta = "Wy" THEN "Bf16" ELSE delta

\* The scan of a segment: by chunks from MIN_WY_TOKENS on, else row by row.
Scan(p, s) ==
  IF p.kind # "replay" /\ config.delta = "Wy" /\ s.rows >= 192 THEN "chunks" ELSE RecurrentMode(config.delta)

\* prepare_prefill: a replay reads the rows saved by the verification.
PrepareAccepted(p, s) ==
  /\ s.rows \in 1..MaxStepRows /\ s.base + s.rows <= arenas.prefill.rows
  /\ p.kind = "replay" => s.base + s.rows <= MaxSpeculationRows

\* round_per_token has no value for Wy.
RowScanAccepted(mode) == mode \in {"Bf16", "Fp32"}

\* prefill_slot_wy: a workspace of WY_MAX_CHUNKS chunks.
ChunkScanAccepted(s) == CeilDiv(s.rows, 64) <= MaxStepRows \div 64

ScanAccepted(p, s) ==
  PrepareAccepted(p, s) /\ (IF Scan(p, s) = "chunks" THEN ChunkScanAccepted(s) ELSE RowScanAccepted(Scan(p, s)))

\* prepare_decode, and the slots of a mixed step.
DecodePrepareAccepted(rows, arena) == rows <= arena.sequences /\ rows <= arena.slots

\* decode_slots_packed and its kernel.
StepAccepted(rows, arena) ==
  DecodePrepareAccepted(rows, arena) /\ rows <= StateCapacity(config) /\ rows <= KernelDecodeRows

\* How many rows are gathered and their logits written: one for each sequence,
\* or for each row that is verified.
LogitsWritten(p) == IF p.kind = "verify" THEN Rows(p) ELSE Sequences(p)

\* gather_rows_bf16 into last_hidden; a decode step and a single sequence read
\* the hidden rows in place.
Gathers(p) == p.kind = "verify" \/ (p.kind = "mixed" /\ Sequences(p) > 1)
GatherAccepted(p) == Gathers(p) => LogitsWritten(p) \in 1..BatchLimit

\* Fp8Vocab::logits_batched: groups of at most 96 rows, each one launch.
Groups(rows, most) == {AtMost(most, rows - i * most) : i \in 0..(CeilDiv(rows, most) - 1)}

\* Fp8Vocab::logits: groups of eight, or the batched kernel beyond that.
LogitGroups(rows) == IF rows > 8 THEN Groups(rows, 96) ELSE Groups(rows, 8)

\* Argmax::new and Argmax::sample.
SamplerAccepted(rows) == LogitsRows(config) \in 1..KernelDecodeRows /\ rows \in 1..LogitsRows(config)

-----------------------------------------------------------------------------
(* Properties.                                                             *)

\* The shape of a pass stays within the arena it runs in (execute_layout,
\* BatchLayout::build and verify_speculation check it before).
TypeOK ==
  /\ config \in Configs
  /\ pass.kind \in {"none", "decode", "mixed", "verify", "replay", "head"}
  /\ pass.decode \in 0..config.batch /\ pass.ends \subseteq 1..config.context
  /\ Rows(pass) <= (IF pass.kind = "head" THEN HeadRows ELSE ArenaOf(pass).rows)
  /\ Sequences(pass) <= config.batch

\* Every projection of a pass runs a kernel that takes its number of rows, in
\* buffers that hold them: never tensor cores with less than three rows, never
\* more rows than the narrow kernel is compiled for (nvfp4.rs, project_decode).
ProjectionsAccepted == \A gemm \in Gemms(pass) : GemmAccepted(gemm, ArenaOf(pass).rows)

\* The partial sums of every attention call fit the workspace allocated once
\* for all of them, though the number of partitions is not monotonic in rows
\* or context (gated_packed, decode_impl).
AttentionAccepted ==
  LET arena == IF pass.kind = "head" THEN arenas.head ELSE ArenaOf(pass)
  IN  \A call \in DecodeCalls(pass) \cup SegmentCalls(pass) :
        IF config.cache = "Fp8" THEN PackedAccepted(call, arena) ELSE RowsAccepted(call, arena)

\* A packed call reads every key of every row exactly once, and with the page
\* table of that row's sequence: a tile never spans two decode rows, and the
\* spans of the partitions meet and reach the end of the longest row of the
\* tile, also when the call was planned for a longer context
\* (paged_attention_packed_kernel).
KeysCovered ==
  config.cache = "Fp8" =>
    \A call \in DecodeCalls(pass) \cup SegmentCalls(pass) :
      LET size == TileSize(call.shape, call.rows)
          parts == PartitionCount(call.shape, call.rows, call.context)
      IN  /\ call.shape = "Rows" =>
               \A tile \in Tiles(size, call.rows) : FirstRow(tile, size) = LastRow(tile, size, call.rows)
          /\ \A end \in call.ends : parts * Span(end, parts) >= end /\ Span(end, parts) % PageTokens = 0

\* Every scan has a form that exists and fits its buffers; a replay of fewer
\* rows never asks for the chunked one (commit_speculation, prefill_slot).
RecurrenceAccepted ==
  /\ pass.kind \in {"mixed", "verify", "replay"} => \A s \in SegmentsOf(pass) : ScanAccepted(pass, s)
  /\ pass.decode > 0 => StepAccepted(pass.decode, ArenaOf(pass))

\* The logits and the sampler have a row for every sequence of a step and for
\* every draft of a verification, also with a single sequence
\* (Executor::new_with_pool_options, forward_segments, Argmax::sample).
LogitsAccepted ==
  Running(pass) =>
    /\ GatherAccepted(pass) /\ SamplerAccepted(LogitsWritten(pass))
    /\ \A rows \in LogitGroups(LogitsWritten(pass)) : rows \in 1..96

\* No launch of any pass is refused for its shape, with what was allocated once
\* when the executor was built (new_with_pool_options, the asserts of qwc-cuda).
LaunchesAccepted ==
  TypeOK /\ ProjectionsAccepted /\ AttentionAccepted /\ RecurrenceAccepted /\ LogitsAccepted

=============================================================================
