------------------------------ MODULE MCStartup ------------------------------
(* What comes before the first request, for TLC: the split of the card       *)
(* between states and pages (VramPlan), the weights (Loading), the threads   *)
(* that allocate on the card (DeviceMemory) and the server process until it  *)
(* serves (Startup).  A behaviour is of one of the four; the others rest.    *)
EXTENDS VramPlan, Loading, DeviceMemory

-----------------------------------------------------------------------------
(* VramPlan and Loading.                                                     *)

\* A card of a few hundred bytes, with and without room, and blocks of one and
\* of several tokens.
MCBudgets ==
  {[total_vram |-> t, reserved |-> 20, plan |-> p, workspace |-> 10] :
     t \in {60, 200, 241}, p \in {DefaultPlan, AsShipped}}

MCCacheConfigs ==
  {[kv_dtype |-> k, state_dtype |-> s, block_size |-> b] :
     k \in {"Fp8E4m3", "Nvfp4"}, s \in {"Int8Row128", "Bf16", "Fp32"}, b \in {1, 2, 3}}

\* Two layers, one of each kind, with the proportions of the real model: the
\* server (with and without the draft head), the driver `load`, the BF16 path
\* of `eval`.
MCConfigs ==
  {[embedding |-> "Fp8", lm_head |-> "Fp8", head |-> h, validates |-> v] :
     h \in BOOLEAN, v \in BOOLEAN}
  \cup {[embedding |-> "Bf16", lm_head |-> "Bf16", head |-> FALSE, validates |-> FALSE]}

MCScaleTile == <<16, 4>>

-----------------------------------------------------------------------------
(* Startup: command lines around every limit: none, one, the most, one more  *)
(* than the most; a pool with as many blocks as there are ids, and a depth   *)
(* whose successor wraps.                                                    *)
CONSTANTS
  AddressSpace, PageSize, MaxBatch, PrefillRows, SpecRows, HeadRows, VocabRows, BlockIds, Free,
  LoadBytes, StateBytes, BlockBytes, ArenaBytes, HeadBytes, MixerBytes

ArgSets ==
  [context : {0, 3, 6}, seqs : {0, 2, 3}, chunk : {0, 1, 3, 4}, memory : {0, 27, 60},
   kv : {0, 2, 6, 8}, snapshots : {0, 1}, depth : {0, 2, 3, AddressSpace - 1},
   shortlist : {0, 2, 5}]

VARIABLES part, args, faulty, main, worker, ready, ceiling, allocated, built, mixer, request

startupVars == <<args, faulty, main, worker, ready, ceiling, allocated, built, mixer, request>>

Process ==
  INSTANCE Startup WITH
    Word <- AddressSpace, limit <- ceiling, used <- allocated,
    ChunkRows <- PrefillRows, Vocab <- VocabRows

ASSUME StartupAssumption ==
  /\ {AddressSpace, PageSize, MaxBatch, PrefillRows, SpecRows, HeadRows, VocabRows, BlockIds}
       \subseteq Nat \ {0}
  /\ {Free, LoadBytes, StateBytes, ArenaBytes, HeadBytes, MixerBytes} \subseteq Nat
  /\ BlockBytes \in Nat \ {0}
  /\ SpecRows < AddressSpace

-----------------------------------------------------------------------------
NotPlanned ==
  /\ budget = (CHOOSE b \in Budgets : TRUE) /\ cfg = (CHOOSE c \in CacheConfigs : TRUE)
  /\ target = (CHOOSE t \in Targets : TRUE) /\ PlanInit

NotLoaded == config = (CHOOSE c \in Configs : TRUE) /\ odd = <<>> /\ LoadingInit

NotStarted ==
  /\ args = <<>> /\ faulty = FALSE /\ main = "exited" /\ worker = "unborn" /\ ready = "empty"
  /\ ceiling = 0 /\ allocated = 0 /\ mixer = FALSE /\ built = <<>> /\ request = <<>>

StartInit ==
  \/ part = "plan" /\ NotLoaded /\ MemoryInit /\ NotStarted /\ PlanInit
  \/ part = "load" /\ NotPlanned /\ MemoryInit /\ NotStarted /\ LoadingInit
  \/ part = "memory" /\ NotPlanned /\ NotLoaded /\ NotStarted /\ MemoryInit
  \/ part = "process" /\ NotPlanned /\ NotLoaded /\ MemoryInit /\ Process!Init

OfProcess(A) == part = "process" /\ A /\ UNCHANGED <<planVars, loadingVars, memoryVars, part>>

MainStep == OfProcess(Process!MainStep)
WorkerInit == OfProcess(Process!WorkerInit)

StartNext ==
  \/ part = "plan" /\ PlanNext /\ UNCHANGED <<loadingVars, memoryVars, startupVars, part>>
  \/ part = "load" /\ LoadingNext /\ UNCHANGED <<planVars, memoryVars, startupVars, part>>
  \/ part = "memory" /\ MemoryNext /\ UNCHANGED <<planVars, loadingVars, startupVars, part>>
  \/ OfProcess(Process!Next)

startVars == <<planVars, loadingVars, memoryVars, startupVars, part>>

StartSpec ==
  /\ StartInit /\ [][StartNext]_startVars
  /\ WF_startVars(MainStep) /\ WF_startVars(WorkerInit)

-----------------------------------------------------------------------------

\* What parse_args and the pool check let through, and mean to, is served.
ServedAsLetIn == part = "process" => Process!ServedAsLetIn

\* The process never hangs half started, and it starts when nothing stands against it.
ComesUp == part = "process" => Process!ComesUp

\* "--speculative must be 0..=" one less than MAX_SPECULATION_ROWS (serve.rs:1986), so that
\* assert!((1..=MAX_SPECULATION_ROWS).contains(&rows)) holds (executor.rs:632): no assertion
\* fails while a request is served.
StepsAccepted == part = "process" => Process!StepsAccepted

=============================================================================
