------------------------------ MODULE VramPlan ------------------------------
(***************************************************************************)
(* The split of the card's memory between state slots and KV blocks:       *)
(* Dtype::bytes (crates/qwc-core/src/dtype.rs), WeightPlan, CacheConfig    *)
(* and Budget (crates/qwc-core/src/memory.rs), CacheManager::from_budget   *)
(* (crates/qwc-runtime/src/cache.rs), and the sequences that then live in  *)
(* the two pools.  Sizes are in bytes of a model scaled down.              *)
(***************************************************************************)
EXTENDS Integers, FiniteSets, Functions

CONSTANTS
  Ids,          \* sequences
  MaxTokens,    \* bound on the length of a sequence
  Budgets,      \* records [total_vram, reserved, plan, workspace], plan a WeightPlan
  CacheConfigs, \* records [kv_dtype, state_dtype, block_size]
  Targets,      \* target contexts, tokens
  KvElemsPerToken, StateElemsPerSeq, ConvElemsPerSeq, \* arch.rs
  QuantizedParams, VocabParams, MtpParams, VisionParams, \* arch.rs
  Nvfp4Block, RowElems                \* elements that share a scale: NVFP4_BLOCK and 128

Dtypes == {"Fp32", "Bf16", "Fp8E4m3", "Nvfp4", "Int8Row128"}

\* WeightPlan: mtp is "none" when the draft head is not loaded.
WeightPlans ==
  [body : Dtypes, lm_head : Dtypes, embed : Dtypes, mtp : Dtypes \cup {"none"}, vision : BOOLEAN]

\* WeightPlan::default, and what is on disk: WeightPlan::as_shipped
DefaultPlan ==
  [body |-> "Nvfp4", lm_head |-> "Fp8E4m3", embed |-> "Fp8E4m3", mtp |-> "Bf16", vision |-> FALSE]
AsShipped ==
  [body |-> "Nvfp4", lm_head |-> "Bf16", embed |-> "Bf16", mtp |-> "Bf16", vision |-> TRUE]

ASSUME SizesAssumption ==
  /\ IsFiniteSet(Ids)
  /\ KvElemsPerToken \in Nat \ {0} /\ StateElemsPerSeq \in Nat \ {0}
  /\ ConvElemsPerSeq \in Nat
  /\ QuantizedParams \in Nat /\ VocabParams \in Nat /\ MtpParams \in Nat /\ VisionParams \in Nat
  /\ Nvfp4Block \in Nat \ {0} /\ RowElems \in Nat \ {0}
  /\ MaxTokens \in Nat
  /\ Targets \subseteq Nat
  /\ Budgets \subseteq [total_vram : Nat, reserved : Nat, plan : WeightPlans, workspace : Nat]
  /\ CacheConfigs \subseteq [kv_dtype : Dtypes, state_dtype : Dtypes, block_size : Nat \ {0}]

VARIABLES
  budget, cfg,
  target,   \* target_context
  slots,    \* capacity of the pool of states
  blocks,   \* capacity of the pool of KV blocks
  running,  \* the sequences that hold a slot
  length,   \* tokens of a running sequence
  stage     \* "plan", "serve"

planVars == <<budget, cfg, target, slots, blocks, running, length, stage>>

-----------------------------------------------------------------------------
(* Sizes.                                                                  *)

DivCeil(n, d) == (n + d - 1) \div d

\* Dtype::bytes
DtypeBytes(dtype, n) ==
  CASE dtype = "Fp32" -> 4 * n
    [] dtype = "Bf16" -> 2 * n
    [] dtype = "Fp8E4m3" -> n
    [] dtype = "Nvfp4" -> (n \div 2) + DivCeil(n, Nvfp4Block)
    [] dtype = "Int8Row128" -> n + 4 * DivCeil(n, RowElems)

\* WeightPlan::bytes
WeightBytes(p) ==
  DtypeBytes(p.body, QuantizedParams) + DtypeBytes(p.lm_head, VocabParams)
  + DtypeBytes(p.embed, VocabParams)
  + (IF p.mtp = "none" THEN 0 ELSE DtypeBytes(p.mtp, MtpParams))
  + (IF p.vision THEN DtypeBytes("Bf16", VisionParams) ELSE 0)

KvBytesPerToken(c) == DtypeBytes(c.kv_dtype, KvElemsPerToken)
KvBytesPerBlock(c) == KvBytesPerToken(c) * c.block_size

\* The state and the convolution window, which is always fp32.
StateBytesPerSlot(c) ==
  DtypeBytes(c.state_dtype, StateElemsPerSeq) + DtypeBytes("Fp32", ConvElemsPerSeq)

\* CacheConfig::bytes_per_seq and the pool's own blocks_for round a sequence up to whole blocks.
BlocksFor(c, tokens) == DivCeil(tokens, c.block_size)
BytesPerSeq(c, context) == StateBytesPerSlot(c) + BlocksFor(c, context) * KvBytesPerBlock(c)

\* Mutant of AtLeast: a subtraction that goes below zero.
AtLeastAnything(low, x) == x

AtLeast(low, x) == IF x < low THEN low ELSE x

\* Budget::cache_available, saturating.
CacheAvailable(b) ==
  AtLeast(0, AtLeast(0, AtLeast(0, b.total_vram - b.reserved) - WeightBytes(b.plan)) - b.workspace)

MaxConcurrency(b, c, context) ==
  IF BytesPerSeq(c, context) = 0 THEN 0 ELSE CacheAvailable(b) \div BytesPerSeq(c, context)

FitsIn(b, c, concurrency, context) ==
  BytesPerSeq(c, context) * concurrency <= CacheAvailable(b)

-----------------------------------------------------------------------------
(* The pools.                                                              *)

\* Mutant of SlotsFor: slots for sequences of whole tokens, not of whole blocks.
SlotsForTokens(b, c, context) ==
  CacheAvailable(b) \div AtLeast(1, StateBytesPerSlot(c) + context * KvBytesPerToken(c))

\* Mutant of SlotsFor: one slot is kept in reserve.
SlotsForLess(b, c, context) ==
  AtLeast(0, (CacheAvailable(b) \div AtLeast(1, BytesPerSeq(c, context))) - 1)

SlotsFor(b, c, context) == CacheAvailable(b) \div AtLeast(1, BytesPerSeq(c, context))

\* Mutant of BlocksLeft: the states are forgotten.
BlocksLeftAll(b, c, n) == CacheAvailable(b) \div AtLeast(1, KvBytesPerBlock(c))

\* Mutant of BlocksLeft: only the blocks the slots are for.
BlocksLeftHalf(b, c, n) ==
  (AtLeast(0, CacheAvailable(b) - n * StateBytesPerSlot(c))
     \div AtLeast(1, KvBytesPerBlock(c))) \div 2

BlocksLeft(b, c, n) ==
  AtLeast(0, CacheAvailable(b) - n * StateBytesPerSlot(c)) \div AtLeast(1, KvBytesPerBlock(c))

PlanInit ==
  /\ budget \in Budgets /\ cfg \in CacheConfigs /\ target \in Targets
  /\ slots = 0 /\ blocks = 0
  /\ running = {} /\ length = [i \in Ids |-> 0]
  /\ stage = "plan"

\* CacheManager::from_budget
FromBudget ==
  /\ stage = "plan"
  /\ slots' = SlotsFor(budget, cfg, target)
  /\ blocks' = BlocksLeft(budget, cfg, slots')
  /\ stage' = "serve"
  /\ UNCHANGED <<budget, cfg, target, running, length>>

Held == SumFunctionOnSet([i \in Ids |-> BlocksFor(cfg, length[i])], running)
FreeBlocks == blocks - Held

\* Room for one more sequence of so many tokens: a slot first, then blocks.
CanAdmit(tokens) ==
  Cardinality(running) < slots /\ BlocksFor(cfg, tokens) <= FreeBlocks

CanAppend(i) ==
  BlocksFor(cfg, length[i] + 1) - BlocksFor(cfg, length[i]) <= FreeBlocks

Admit(i, tokens) ==
  /\ stage = "serve" /\ i \notin running
  /\ CanAdmit(tokens)
  /\ running' = running \cup {i}
  /\ length' = [length EXCEPT ![i] = tokens]
  /\ UNCHANGED <<budget, cfg, target, slots, blocks, stage>>

\* append_token
AppendToken(i) ==
  /\ i \in running /\ length[i] < MaxTokens
  /\ CanAppend(i)
  /\ length' = [length EXCEPT ![i] = @ + 1]
  /\ UNCHANGED <<budget, cfg, target, slots, blocks, running, stage>>

Release(i) ==
  /\ i \in running
  /\ running' = running \ {i}
  /\ length' = [length EXCEPT ![i] = 0]
  /\ UNCHANGED <<budget, cfg, target, slots, blocks, stage>>

PlanNext ==
  \/ FromBudget
  \/ \E i \in Ids : AppendToken(i) \/ Release(i) \/ \E n \in 1..MaxTokens : Admit(i, n)

PlanSpec == PlanInit /\ [][PlanNext]_planVars

-----------------------------------------------------------------------------
(* Properties.                                                             *)

PlanTypeOK ==
  /\ budget \in Budgets /\ cfg \in CacheConfigs /\ target \in Targets
  /\ slots \in Nat /\ blocks \in Nat
  /\ running \subseteq Ids
  /\ length \in [Ids -> 0..MaxTokens]
  /\ stage \in {"plan", "serve"}

\* The two pools together fit in what is left of the card.
PoolsFit ==
  slots * StateBytesPerSlot(cfg) + blocks * KvBytesPerBlock(cfg) <= CacheAvailable(budget)

\* "an extra state slot is useless if there are no KV blocks for it": the slots may all hold a
\* sequence of the target length at once.
SlotsBacked ==
  stage = "serve" => slots * BlocksFor(cfg, target) <= blocks

\* While no running sequence is longer than the target, neither a new one nor one more token
\* of an old one is refused for want of blocks.
TargetHeld ==
  stage = "serve" /\ (\A i \in running : length[i] <= target) =>
    /\ \A n \in 1..MaxTokens : n <= target /\ Cardinality(running) < slots => CanAdmit(n)
    /\ \A i \in running : length[i] < target => CanAppend(i)

\* Nothing is left over: neither one more sequence of the target length nor one more block.
NothingWasted ==
  stage = "serve" =>
    /\ ~FitsIn(budget, cfg, slots + 1, target)
    /\ slots * StateBytesPerSlot(cfg) + (blocks + 1) * KvBytesPerBlock(cfg)
         > CacheAvailable(budget)

\* cache.rs:681 says the number of slots must match the independent estimate of qwc-core, and
\* the estimate is one that fits.
EstimateAgrees ==
  stage = "serve" =>
    /\ slots = MaxConcurrency(budget, cfg, target)
    /\ FitsIn(budget, cfg, slots, target)

\* from_budget splits the card tightly: both pools fit, no slot lacks blocks for
\* the target length, nothing is left over, and qwc-core's estimate agrees.
SplitRight == PlanTypeOK /\ PoolsFit /\ SlotsBacked /\ NothingWasted /\ EstimateAgrees

=============================================================================
