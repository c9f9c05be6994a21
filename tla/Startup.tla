------------------------------ MODULE Startup ------------------------------
(***************************************************************************)
(* The life of the server process from its arguments to its first          *)
(* requests: parse_args, main, initialize_worker and run_worker of         *)
(* crates/qwc-engine/src/bin/serve.rs, with what the constructors of       *)
(* Executor, Scheduler and Speculator demand and allocate, and what the    *)
(* steps of one request demand of what was built.                          *)
(*                                                                         *)
(* main and the worker are two threads with one channel between them.  A   *)
(* failed assertion aborts the process.  Memory is counted in small units. *)
(***************************************************************************)
EXTENDS Naturals

CONSTANTS
  ArgSets,    \* the command lines: records of what parse_args sets
  Word,       \* 2^w for the machine's usize
  PageSize,   \* PAGE_SIZE
  MaxBatch,   \* MAX_BATCH
  ChunkRows,  \* PREFILL_CHUNK_SIZE
  SpecRows,   \* MAX_SPECULATION_ROWS
  HeadRows,   \* kernels::MAX_ROWS of the head
  Vocab,      \* VOCAB_SIZE
  BlockIds,   \* 2^32, scaled
  Free,       \* what device_free_bytes reports, less the margin
  LoadBytes, StateBytes, BlockBytes, ArenaBytes, HeadBytes, MixerBytes

VARIABLES
  args,     \* Args
  faulty,   \* whether files, the device and the port may fail
  main,     \* where main is
  worker,   \* where the worker thread is
  ready,    \* the ready channel
  limit,    \* the memory limit; 0 before it is set
  used,     \* the memory in use
  built,    \* [executor, scheduler, head]: what was built with which sizes
  mixer,    \* whether Executor::speculation_mixer is allocated
  request   \* the request being served

vars == <<args, faulty, main, worker, ready, limit, used, built, mixer, request>>

Smaller(m, n) == IF m < n THEN m ELSE n
DivCeil(n, d) == (n + d - 1) \div d

-----------------------------------------------------------------------------
(* main.                                                                   *)

\* Mutant of Valid: the chunk is not bounded by the arena.
ValidAnyChunk(a) ==
  /\ a.context > 0 /\ a.seqs \in 1..MaxBatch /\ a.chunk > 0
  /\ (a.depth + 1) % Word <= SpecRows /\ a.shortlist <= Vocab
  /\ a.memory > 0 /\ a.kv > 0

\* parse_args: the checks on the values; in a release build depth + 1 wraps.
Valid(a) ==
  /\ a.context > 0 /\ a.seqs \in 1..MaxBatch /\ a.chunk \in 1..ChunkRows
  /\ (a.depth + 1) % Word <= SpecRows /\ a.shortlist <= Vocab
  /\ a.memory > 0 /\ a.kv > 0

PoolBlocks == args.kv \div BlockBytes
MaxBlocks == DivCeil(args.context, PageSize)

\* Mutant of PoolFits: the whole blocks of the context only.
PoolFitsRoughly == PoolBlocks >= args.context \div PageSize

PoolFits == PoolBlocks >= MaxBlocks

\* Block ids are u32.
BlockIdsFit == PoolBlocks < BlockIds

NoRequest == [prompt |-> 0, new |-> 0, done |-> 0, generated |-> 0, refused |-> FALSE]

Nothing == [slots |-> 0, blocks |-> 0, snapshots |-> 0, budget |-> 0]

Init ==
  /\ args \in ArgSets /\ faulty \in BOOLEAN
  /\ main = "parse" /\ worker = "unborn" /\ ready = "empty"
  /\ limit = 0 /\ used = 0 /\ mixer = FALSE
  /\ built = [executor |-> Nothing, scheduler |-> Nothing, head |-> FALSE]
  /\ request = NoRequest

MainGoes(to) ==
  /\ main' = to
  /\ UNCHANGED <<args, faulty, ready, limit, used, built, mixer, request>>

ParseArgs ==
  /\ main = "parse"
  /\ MainGoes(IF Valid(args) THEN "files" ELSE "exited") /\ UNCHANGED worker

\* tokenizer.json and generation_config.json.
LoadFiles ==
  /\ main = "files" /\ UNCHANGED worker
  /\ MainGoes("pool") \/ (faulty /\ MainGoes("exited"))

\* The pool must hold one sequence of the whole context; then the worker is spawned.
SpawnWorker ==
  /\ main = "pool"
  /\ IF PoolFits THEN MainGoes("wait") /\ worker' = "device"
     ELSE MainGoes("exited") /\ UNCHANGED worker

\* ready_rx.recv: the outcome (a worker goes without one only by a panic).
ReceiveReady ==
  /\ main = "wait" /\ UNCHANGED worker
  /\ \/ ready = "ok" /\ MainGoes("bind")
     \/ ready = "error" /\ MainGoes("exited")

Bind ==
  /\ main = "bind" /\ UNCHANGED worker
  /\ MainGoes("listen") \/ (faulty /\ MainGoes("exited"))

-----------------------------------------------------------------------------
(* initialize_worker, one step after the other.                            *)

WorkerGoes(to) == worker' = to /\ UNCHANGED <<args, faulty, main, mixer, request>>

\* An error is sent to main; what was allocated is dropped.
Refuse ==
  /\ ready' = "error" /\ used' = 0 /\ WorkerGoes("gone")
  /\ UNCHANGED <<limit, built>>

\* A failed assertion: the process aborts.
Panic ==
  /\ main' = "exited" /\ worker' = "panicked"
  /\ UNCHANGED <<args, faulty, ready, limit, used, built, mixer, request>>

Allocate(n, to) ==
  IF used + n <= limit
  THEN /\ used' = used + n /\ WorkerGoes(to) /\ UNCHANGED <<ready, limit, built>>
  ELSE Refuse

MayRefuse == faulty /\ Refuse

\* Mutant of InitDevice: something is allocated before the limit is set.
InitDeviceAllocates ==
  /\ worker = "device" /\ main = "wait"
  /\ used' = 1 /\ WorkerGoes("limit") /\ UNCHANGED <<ready, limit, built>>

\* Device::init.
InitDevice ==
  /\ worker = "device" /\ main = "wait"
  /\ \/ WorkerGoes("limit") /\ UNCHANGED <<ready, limit, used, built>>
     \/ MayRefuse

\* Mutant of SetLimit: the free memory of the card is not asked for.
SetLimitAsGiven ==
  /\ worker = "limit"
  /\ limit' = args.memory /\ WorkerGoes("weights") /\ UNCHANGED <<ready, used, built>>

\* set_memory_limit: only before the first allocation, and never more than is free.
SetLimit ==
  /\ worker = "limit"
  /\ IF used = 0 /\ Smaller(args.memory, Free) > 0
     THEN /\ limit' = Smaller(args.memory, Free)
          /\ WorkerGoes("weights") /\ UNCHANGED <<ready, used, built>>
     ELSE Refuse

\* Checkpoint::open and ModelWeights::load.
LoadWeights ==
  /\ worker = "weights"
  /\ Allocate(LoadBytes, "executor") \/ MayRefuse

ExecutorBytes == (args.seqs + 1) * StateBytes + PoolBlocks * BlockBytes + ArenaBytes

\* Executor::new_with_pool_options: assertions first, then the pools, with one slot more than
\* sequences, and the arenas.
NewExecutor ==
  /\ worker = "executor"
  /\ IF ~(args.seqs \in 1..MaxBatch /\ args.context > 0 /\ PoolFits /\ BlockIdsFit)
     THEN Panic
     ELSE IF used + ExecutorBytes <= limit
     THEN /\ used' = used + ExecutorBytes
          /\ built' = [built EXCEPT !.executor =
                         [slots |-> args.seqs, blocks |-> PoolBlocks, snapshots |-> 0,
                          budget |-> ChunkRows]]
          /\ WorkerGoes("snapshots") /\ UNCHANGED <<ready, limit>>
     ELSE Refuse

\* Executor::enable_prefix_snapshots.
EnableSnapshots ==
  /\ worker = "snapshots"
  /\ IF used + args.snapshots * StateBytes <= limit
     THEN /\ used' = used + args.snapshots * StateBytes
          /\ built' = [built EXCEPT !.executor.snapshots = args.snapshots]
          /\ WorkerGoes("scheduler") /\ UNCHANGED <<ready, limit>>
     ELSE Refuse

\* Mutant of NewScheduler: the draft slot is handed out as well.
NewSchedulerOneMore ==
  /\ worker = "scheduler"
  /\ built' = [built EXCEPT !.scheduler =
                 [slots |-> args.seqs + 1, blocks |-> PoolBlocks, snapshots |-> args.snapshots,
                  budget |-> args.chunk]]
  /\ WorkerGoes(IF args.depth = 0 THEN "report" ELSE "head")
  /\ UNCHANGED <<ready, limit, used>>

\* CacheManager::new, Scheduler::new, enable_prefix_cache.
NewScheduler ==
  /\ worker = "scheduler"
  /\ IF args.seqs = 0 \/ args.chunk = 0 THEN Panic
     ELSE /\ built' = [built EXCEPT !.scheduler =
                         [slots |-> args.seqs, blocks |-> PoolBlocks,
                          snapshots |-> args.snapshots, budget |-> args.chunk]]
          /\ WorkerGoes(IF args.depth = 0 THEN "report" ELSE "head")
          /\ UNCHANGED <<ready, limit, used>>

\* Speculator::new: the head has pages of its own for one sequence.
NewSpeculator ==
  LET need == HeadBytes + MaxBlocks * BlockBytes
  IN  /\ worker = "head"
      /\ \/ IF used + need <= limit
            THEN /\ used' = used + need
                 /\ built' = [built EXCEPT !.head = TRUE]
                 /\ WorkerGoes(IF args.shortlist = 0 THEN "report" ELSE "shortlist")
                 /\ UNCHANGED <<ready, limit>>
            ELSE Refuse
         \/ MayRefuse

\* enable_shortlist: the frequent rows and as many tokens as the context has.
EnableShortlist ==
  /\ worker = "shortlist"
  /\ IF args.shortlist \notin 1..Vocab THEN Panic
     ELSE Allocate(args.shortlist + args.context, "report")

\* run_worker: main is told, and the tokenizer is loaded once more.
Report ==
  /\ worker = "report"
  /\ ready' = "ok"
  /\ WorkerGoes("serve") \/ (faulty /\ WorkerGoes("gone"))
  /\ UNCHANGED <<limit, used, built>>

-----------------------------------------------------------------------------
(* One request.                                                            *)

Serves(r) ==
  /\ request' = r
  /\ UNCHANGED <<args, faulty, main, worker, ready, limit, used, built, mixer>>

Idle == main = "listen" /\ worker = "serve" /\ request = NoRequest

\* The handler lets through what fits in the context; submit asks the pool.
Accept(p, n) ==
  /\ Idle /\ p >= 1 /\ n >= 1 /\ p <= args.context /\ n <= args.context - p
  /\ Serves([prompt |-> p, new |-> n, done |-> 0, generated |-> 0,
             refused |-> DivCeil(p + n, PageSize) > built.scheduler.blocks])

Active == worker = "serve" /\ request # NoRequest /\ ~request.refused

\* Requires of the executor what its assertions do: `rows` from position `from`.
Launchable(rows, from, most) ==
  /\ rows \in 1..most
  /\ from + rows <= args.context
  /\ DivCeil(from + rows, PageSize) <= MaxBlocks

\* A chunk of the prompt within the token budget; the last one samples a token.
Prefill ==
  LET rows == Smaller(built.scheduler.budget, request.prompt - request.done)
  IN  /\ Active /\ request.done < request.prompt
      /\ IF ~Launchable(rows, request.done, built.executor.budget) THEN Panic
         ELSE Serves([request EXCEPT !.done = @ + rows,
                        !.generated = IF request.done + rows = request.prompt THEN 1 ELSE 0])

Decoding == Active /\ request.done = request.prompt /\ request.generated < request.new

Position == request.prompt + request.generated - 1

Depth == IF built.head THEN Smaller(args.depth, request.new - request.generated - 1) ELSE 0

\* An ordinary step, also when the hidden rows are not those of the request.
Decode ==
  /\ Decoding
  /\ IF ~Launchable(1, Position, MaxBatch) THEN Panic
     ELSE Serves([request EXCEPT !.generated = @ + 1])

\* speculative_step with as many drafts as the pool gives; the mixer rows of all layers are
\* allocated by the first one, and an error ends the worker.
Speculate ==
  /\ Decoding /\ Depth > 0
  /\ IF ~mixer /\ used + MixerBytes > limit
     THEN /\ worker' = "gone" /\ used' = 0 /\ request' = NoRequest
          /\ UNCHANGED <<args, faulty, main, ready, limit, built, mixer>>
     ELSE \E drafts \in 0..Depth, accepted \in 0..Depth :
            /\ accepted <= drafts
            /\ IF ~Launchable(drafts + 1, Position, SpecRows) \/ accepted + 1 > HeadRows THEN Panic
               ELSE /\ mixer' = TRUE
                    /\ used' = IF mixer THEN used ELSE used + MixerBytes
                    /\ request' = [request EXCEPT !.generated = @ + accepted + 1]
                    /\ UNCHANGED <<args, faulty, main, worker, ready, limit, built>>

\* The last token, or one that ends the answer; a refused request is answered at once.
EndRequest ==
  /\ worker = "serve" /\ request # NoRequest
  /\ request.refused \/ request.generated > 0
  /\ Serves(NoRequest)

MainStep == ParseArgs \/ LoadFiles \/ SpawnWorker \/ ReceiveReady \/ Bind

\* The worker lives as long as the process.
WorkerInit ==
  /\ main # "exited"
  /\ \/ InitDevice \/ SetLimit \/ LoadWeights \/ NewExecutor \/ EnableSnapshots
     \/ NewScheduler \/ NewSpeculator \/ EnableShortlist \/ Report

Next ==
  \/ MainStep
  \/ WorkerInit
  \/ \E p, n \in 0..args.context : Accept(p, n)
  \/ Prefill \/ Decode \/ Speculate \/ EndRequest

Spec == Init /\ [][Next]_vars /\ WF_vars(MainStep) /\ WF_vars(WorkerInit)

-----------------------------------------------------------------------------
(* Properties.                                                             *)

TypeOK ==
  /\ args \in ArgSets /\ faulty \in BOOLEAN /\ mixer \in BOOLEAN
  /\ main \in {"parse", "files", "pool", "wait", "bind", "listen", "exited"}
  /\ worker \in {"unborn", "device", "limit", "weights", "executor", "snapshots", "scheduler",
                 "head", "shortlist", "report", "serve", "gone", "panicked"}
  /\ ready \in {"empty", "ok", "error"}
  /\ used \in 0..limit /\ limit \in 0..Free
  /\ request.generated \in 0..request.new /\ request.done \in 0..request.prompt

\* Two arguments are let through that are not meant to be: a depth whose successor wraps to 0,
\* which is not "0..=MAX_SPECULATION_ROWS - 1" as the message of parse_args has it, and a pool
\* whose number of blocks is no u32, which only the executor's own assertion refuses.
AsMeant == args.depth + 1 <= SpecRows /\ BlockIdsFit

\* With all other arguments that parse_args lets through, no assertion of a constructor, of the
\* executor or of the head fails later, neither while the engine is built nor in a step of a
\* request.
NoAssertionFails == AsMeant => worker # "panicked"

\* "--speculative must be 0..=" one less than MAX_SPECULATION_ROWS (serve.rs:1986), so that
\* assert!((1..=MAX_SPECULATION_ROWS).contains(&rows)) holds (executor.rs:632): no assertion
\* fails while a request is served.
StepsAccepted == worker = "panicked" => request = NoRequest

\* A request that a handler lets through is not refused by the scheduler for its length.
HandlersKnowThePool == ~request.refused

\* The server listens only once everything is there, and then the pools of the scheduler and
\* those of the executor are the same: the draft slot is not one of the scheduler's.
BuiltAlike ==
  main \in {"bind", "listen"} =>
    /\ built.scheduler.slots = built.executor.slots
    /\ built.scheduler.blocks = built.executor.blocks
    /\ built.scheduler.snapshots = built.executor.snapshots
    /\ built.scheduler.budget <= built.executor.budget
    /\ built.head <=> args.depth > 0

\* What parse_args and the pool check let through is served: no assertion fails but
\* over the two arguments of AsMeant, no length is refused, and the parts were built
\* with one another's sizes.
ServedAsLetIn == TypeOK /\ NoAssertionFails /\ HandlersKnowThePool /\ BuiltAlike

Need ==
  LoadBytes + ExecutorBytes + args.snapshots * StateBytes
    + (IF args.depth = 0 THEN 0
       ELSE HeadBytes + MaxBlocks * BlockBytes
              + (IF args.shortlist = 0 THEN 0 ELSE args.shortlist + args.context))

\* The process never hangs half started, and it does start when the arguments are good, the
\* files and the device are, and the memory is enough for what is asked for.
ComesUp ==
  /\ <>(main \in {"listen", "exited"})
  /\ ~faulty /\ Valid(args) /\ PoolFits /\ BlockIdsFit /\ Need <= Smaller(args.memory, Free)
       => <>(main = "listen")

=============================================================================
