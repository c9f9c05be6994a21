----------------------------- MODULE Scheduler -----------------------------
(***************************************************************************)
(* Continuous batching over the two cache pools:                           *)
(* crates/qwc-runtime/src/scheduler.rs.                                    *)
(*                                                                         *)
(* next_batch, complete_batch_multi and abort_batch are loops over cache   *)
(* operations.  `step` says where such a call is; each iteration is one    *)
(* action and makes one call of KvCache.  Between two iterations nothing   *)
(* else runs: every other operation waits for step to be "idle" (no batch) *)
(* or "flight" (in_flight is Some).  The batch is the local variable of    *)
(* next_batch while it is planned, in_flight while it is in flight, and    *)
(* what is left of it while it is completed or aborted.                    *)
(***************************************************************************)
EXTENDS KvCache

CONSTANTS
  Request(_),  \* id |-> [prompt, maxNew, snapshotAt], Request and PromptTokens
  MaxSeqs,     \* SchedulerConfig::max_num_seqs
  MaxTokens,   \* SchedulerConfig::max_num_batched_tokens
  Depth,       \* how deep speculation drafts, 0 without it
  MayAbort     \* whether the executor may fail before it runs a batch

ASSUME SchedulerAssumption ==
  /\ IsFiniteSet(Ids)
  /\ \A id \in Ids : /\ Request(id).prompt \in Seq(Range(Request(id).prompt))
                     /\ Len(Request(id).prompt) > 0
                     /\ Request(id).maxNew \in Nat \ {0}
                     /\ Request(id).snapshotAt \in 0..Len(Request(id).prompt)
  /\ MaxSeqs \in Nat \ {0}
  /\ MaxTokens \in Nat \ {0}
  /\ Depth \in Nat
  /\ MayAbort \in BOOLEAN

VARIABLES
  waiting,       \* ids queued by submit
  prefillReady,  \* ids whose next chunk can be planned
  decodeReady,   \* ids whose next token can be planned
  active,        \* id |-> [prefilled, generated, phase, restore]
  committed,     \* committed_kv_blocks
  batch,         \* [decode, prefill, restores, saves]
  step,          \* where the scheduler is
  left,          \* iterations left of the loop it is in
  extra          \* positions reserve_extra holds for the batch in flight

queueVars == <<waiting, prefillReady, decodeReady>>
vars == <<cacheVars, queueVars, active, committed, batch, step, left, extra>>

EmptyBatch == [decode |-> <<>>, prefill |-> <<>>, restores |-> <<>>, saves |-> <<>>]

Init ==
  /\ CacheInit
  /\ waiting = <<>>
  /\ prefillReady = <<>>
  /\ decodeReady = <<>>
  /\ active = <<>>
  /\ committed = 0
  /\ batch = EmptyBatch
  /\ step = "idle"
  /\ left = 0
  /\ extra = 0

Capacity == Cardinality(Pages)

PromptLen(id) == Len(Request(id).prompt)

\* Mutant of Reserved: only the prompt is reserved for.
ReservedForPrompt(id) == BlocksFor(PromptLen(id))

\* Pages for the whole life of a request.
Reserved(id) == BlocksFor(PromptLen(id) + Request(id).maxNew)

\* Mutant of NumTokens: chunks do not count against the budget.
NumDecodeTokens == Len(batch.decode)

NumTokens ==
  Len(batch.decode)
  + SumFunction([i \in DOMAIN batch.prefill |-> batch.prefill[i].tokens])

NoBatch == batch.decode = <<>> /\ batch.prefill = <<>>

\* The limits of SchedulerConfig leave room for one more sequence.
Room == Len(batch.decode) + Len(batch.prefill) < MaxSeqs /\ NumTokens < MaxTokens

ChunkIds == [i \in DOMAIN batch.prefill |-> batch.prefill[i].id]

InBatch(id) == id \in Range(batch.decode) \cup Range(ChunkIds)

-----------------------------------------------------------------------------
(* submit, submit_prompt.                                                  *)

Submit(id) ==
  /\ step \in {"idle", "flight"}
  /\ id \notin DOMAIN active \cup Range(waiting)
  /\ Slots # {}
  /\ Reserved(id) <= Capacity
  /\ waiting' = Append(waiting, id)
  /\ UNCHANGED <<cacheVars, prefillReady, decodeReady, active, committed, batch,
                 step, left, extra>>

-----------------------------------------------------------------------------
(* next_batch: decode first.                                               *)

BeginBatch ==
  /\ step = "idle"
  /\ step' = "decode"
  /\ left' = Len(decodeReady)
  /\ UNCHANGED <<cacheVars, queueVars, active, committed, batch, extra>>

PlanDecode ==
  /\ step = "decode" /\ left > 0 /\ Room
  /\ left' = left - 1
  /\ LET id == Head(decodeReady)
     IN  \/ /\ AppendToken(id)
            /\ decodeReady' = Tail(decodeReady)
            /\ batch' = [batch EXCEPT !.decode = Append(@, id)]
            /\ active' = [active EXCEPT ![id].phase = "DecodeInFlight"]
         \/ /\ AppendRefused(id)
            /\ decodeReady' = Append(Tail(decodeReady), id)
            /\ UNCHANGED <<batch, active>>
  /\ UNCHANGED <<waiting, prefillReady, committed, step, extra>>

DecodePlanned ==
  /\ step = "decode"
  /\ left = 0 \/ ~Room
  /\ step' = "prefill"
  /\ left' = 0
  /\ UNCHANGED <<cacheVars, queueVars, active, committed, batch, extra>>

-----------------------------------------------------------------------------
(* next_batch: chunks of prompts with what is left of the limits.          *)

PlanChunk ==
  /\ step = "prefill" /\ Room /\ prefillReady # <<>>
  /\ LET id == Head(prefillReady)
         offset == active[id].prefilled
         fits == Min({PromptLen(id) - offset, MaxTokens - NumTokens})
         at == Request(id).snapshotAt
         cut == Snapshots # {} /\ at > offset /\ at <= offset + fits
         tokens == IF cut THEN at - offset ELSE fits
         planned(saves) ==
           [batch EXCEPT
              !.prefill = Append(@, [id |-> id, offset |-> offset, tokens |-> tokens]),
              !.restores = @ \o SetToSeq({[id |-> id, op |-> r] : r \in active[id].restore}),
              !.saves = @ \o saves]
     IN  /\ prefillReady' = Tail(prefillReady)
         /\ active' = [active EXCEPT ![id].phase = "PrefillInFlight"]
         /\ \/ /\ cut /\ at >= BlockSize
               /\ \E s \in Snapshots :
                    /\ ReserveSnapshot(s)
                    /\ batch' = planned(<<[id |-> id, snapshot |-> s]>>)
            \/ /\ cut /\ at >= BlockSize => NoSnapshot
               /\ batch' = planned(<<>>)
               /\ UNCHANGED cacheVars
  /\ UNCHANGED <<waiting, decodeReady, committed, step, left, extra>>

BeginAdmission ==
  /\ step = "prefill" /\ Room /\ prefillReady = <<>>
  /\ step' = "admit"
  /\ left' = Len(waiting)
  /\ UNCHANGED <<cacheVars, queueVars, active, committed, batch, extra>>

\* The head of the queue becomes active.  next_batch plans its first chunk at
\* once; queueing it as the only ready prefill comes to the same.
Activate(id, reused, restore) ==
  /\ waiting' = Tail(waiting)
  /\ prefillReady' = <<id>>
  /\ active' = With(active, id, [prefilled |-> reused, generated |-> 0,
                                 phase |-> "PrefillReady", restore |-> restore])
  /\ committed' = committed + Reserved(id)
  /\ step' = "prefill"
  /\ left' = 0
  /\ UNCHANGED <<decodeReady, batch, extra>>

\* Mutants of Fits: every request is weighed alone, or against the pages that
\* are free now.
FitsAlone(id) == Reserved(id) <= Capacity

FitsNow(id) == Reserved(id) <= Cardinality(freePages)

Fits(id) == Reserved(id) <= Capacity - committed

AdmitMiss ==
  /\ step = "admit" /\ left > 0
  /\ LET id == Head(waiting)
     IN  /\ Fits(id)
         /\ Matches(Request(id).prompt) = {}
         /\ Admit(id, PromptLen(id))
         /\ Activate(id, 0, {})

AdmitMatch ==
  /\ step = "admit" /\ left > 0
  /\ LET id == Head(waiting)
     IN  /\ Fits(id)
         /\ \E s \in DOMAIN entries :
              LET full == FullPages(s)
                  copy == IF EndsInsidePage(s)
                          THEN {<<entries[s].blocks[full + 1], seqs'[id].blocks[full + 1]>>}
                          ELSE {}
              IN  /\ AdmitHit(id, Request(id).prompt, s)
                  /\ Activate(id, Len(entries[s].tokens),
                              {[snapshot |-> s, copy |-> copy]})

\* Mutant of Rotate: the request is pushed back without being popped.
RotateCopies ==
  /\ waiting' = Append(waiting, Head(waiting))
  /\ left' = left - 1
  /\ UNCHANGED <<prefillReady, decodeReady, active, committed, batch, step, extra>>

\* A request that does not fit goes behind the rest of the queue.
Rotate ==
  /\ waiting' = Append(Tail(waiting), Head(waiting))
  /\ left' = left - 1
  /\ UNCHANGED <<prefillReady, decodeReady, active, committed, batch, step, extra>>

PassOver ==
  /\ step = "admit" /\ left > 0
  /\ LET id == Head(waiting)
         prompt == Request(id).prompt
     IN  \/ ~Fits(id) /\ UNCHANGED cacheVars
         \/ Fits(id) /\ Matches(prompt) = {} /\ AdmitRefused(id, Len(prompt))
         \/ Fits(id) /\ \E s \in DOMAIN entries : AdmitHitRefused(id, prompt, s)
  /\ Rotate

\* The queue has been tried, or no state slot is free and nobody could enter.
EndAdmission ==
  /\ step = "admit"
  /\ left = 0 \/ (left > 0 /\ freeSlots = {} /\ Fits(Head(waiting)))
  /\ step' = "close"
  /\ left' = 0
  /\ UNCHANGED <<cacheVars, queueVars, active, committed, batch, extra>>

\* next_batch returns: None for an empty batch.
EndBatch ==
  /\ step = "close" \/ (step = "prefill" /\ ~Room)
  /\ step' = IF NoBatch THEN "idle" ELSE "flight"
  /\ UNCHANGED <<cacheVars, queueVars, active, committed, batch, left, extra>>

-----------------------------------------------------------------------------
(* The batch is in flight.  Speculation runs on a batch of one decode: it  *)
(* reserves a position per draft and gives back the rejected ones.         *)

Speculative(id) == batch.decode = <<id>> /\ batch.prefill = <<>>

ReserveExtra ==
  /\ step = "flight"
  /\ \E id \in Ids :
       /\ Speculative(id)
       /\ extra < Min({Depth, Request(id).maxNew - active[id].generated - 1})
       /\ AppendToken(id)
  /\ extra' = extra + 1
  /\ UNCHANGED <<queueVars, active, committed, batch, step, left>>

ReleaseExtra ==
  /\ step = "flight" /\ extra > 0
  /\ \E id \in Ids : Speculative(id) /\ RollbackToken(id)
  /\ extra' = extra - 1
  /\ UNCHANGED <<queueVars, active, committed, batch, step, left>>

-----------------------------------------------------------------------------
(* complete_batch_multi: restores, saves, chunks, decoded tokens.          *)

\* in_flight is None once everything in it is dealt with.
Rest(b) == IF b.decode = <<>> /\ b.prefill = <<>> THEN "idle" ELSE step

BeginComplete ==
  /\ step = "flight"
  /\ step' = "complete"
  /\ UNCHANGED <<cacheVars, queueVars, active, committed, batch, left, extra>>

CompleteRestore ==
  /\ step = "complete" /\ batch.restores # <<>>
  /\ LET r == Head(batch.restores)
     IN  /\ FinishRestore(r.op.snapshot)
         /\ active' = [active EXCEPT ![r.id].restore = {}]
  /\ batch' = [batch EXCEPT !.restores = Tail(@)]
  /\ UNCHANGED <<queueVars, committed, step, left, extra>>

CompleteSave ==
  /\ step = "complete" /\ batch.restores = <<>> /\ batch.saves # <<>>
  /\ LET save == Head(batch.saves)
         request == Request(save.id)
     IN  CommitSnapshot(save.snapshot, save.id,
                        SubSeq(request.prompt, 1, request.snapshotAt))
  /\ batch' = [batch EXCEPT !.saves = Tail(@)]
  /\ UNCHANGED <<queueVars, active, committed, step, left, extra>>

CompleteChunk ==
  /\ step = "complete" /\ batch.restores = <<>> /\ batch.saves = <<>>
  /\ batch.prefill # <<>>
  /\ LET chunk == Head(batch.prefill)
         id == chunk.id
         prefilled == active[id].prefilled + chunk.tokens
     IN  IF prefilled = PromptLen(id)
         THEN /\ decodeReady' = Append(decodeReady, id)
              /\ active' = [active EXCEPT ![id].prefilled = prefilled,
                                          ![id].phase = "DecodeReady"]
              /\ UNCHANGED prefillReady
         ELSE /\ prefillReady' = Append(prefillReady, id)
              /\ active' = [active EXCEPT ![id].prefilled = prefilled,
                                          ![id].phase = "PrefillReady"]
              /\ UNCHANGED decodeReady
  /\ batch' = [batch EXCEPT !.prefill = Tail(@)]
  /\ step' = Rest(batch')
  /\ UNCHANGED <<cacheVars, waiting, committed, left, extra>>

\* Mutant of Deactivate: what was reserved stays committed.
DeactivateKeepsCommitted(id) ==
  /\ active' = Without(active, {id})
  /\ UNCHANGED committed

\* An active request ends: what it had reserved is given back.
Deactivate(id) ==
  /\ active' = Without(active, {id})
  /\ committed' = committed - Reserved(id)

\* Mutant of Generated: accepted drafts are counted, the token itself is not.
GeneratedDrafts(id) == Min({active[id].generated + extra, Request(id).maxNew})

\* One token per batch, or 1 + extra of them when speculation ran.
Generated(id) == Min({active[id].generated + 1 + extra, Request(id).maxNew})

\* The model may have stopped with any token.
CompleteDecode ==
  /\ step = "complete" /\ batch.restores = <<>> /\ batch.saves = <<>>
  /\ batch.prefill = <<>> /\ batch.decode # <<>>
  /\ LET id == Head(batch.decode)
     IN  \/ /\ Release(id, {})
            /\ Deactivate(id)
            /\ UNCHANGED decodeReady
         \/ /\ Generated(id) < Request(id).maxNew
            /\ active' = [active EXCEPT ![id].generated = Generated(id),
                                        ![id].phase = "DecodeReady"]
            /\ decodeReady' = Append(decodeReady, id)
            /\ UNCHANGED <<cacheVars, committed>>
  /\ batch' = [batch EXCEPT !.decode = Tail(@)]
  /\ step' = Rest(batch')
  /\ extra' = 0
  /\ UNCHANGED <<waiting, prefillReady, left>>

-----------------------------------------------------------------------------
(* abort_batch: everything goes back to the front of its queue.            *)

BeginAbort ==
  /\ MayAbort
  /\ step = "flight" /\ extra = 0
  /\ step' = "abort"
  /\ UNCHANGED <<cacheVars, queueVars, active, committed, batch, left, extra>>

\* Mutant of AbortSave: the reserved snapshot is forgotten.
AbortSaveLeaks ==
  /\ step = "abort" /\ batch.saves # <<>>
  /\ batch' = [batch EXCEPT !.saves = Tail(@)]
  /\ UNCHANGED <<cacheVars, queueVars, active, committed, step, left, extra>>

AbortSave ==
  /\ step = "abort" /\ batch.saves # <<>>
  /\ CancelSnapshot(Head(batch.saves).snapshot)
  /\ batch' = [batch EXCEPT !.saves = Tail(@)]
  /\ UNCHANGED <<queueVars, active, committed, step, left, extra>>

\* Mutants of AbortChunks: the prompt starts over, or is queued nowhere.
AbortStartsOver ==
  /\ step = "abort" /\ batch.saves = <<>> /\ batch.prefill # <<>>
  /\ prefillReady' = ChunkIds \o prefillReady
  /\ active' = [id \in DOMAIN active |->
                  IF id \in Range(ChunkIds)
                  THEN [active[id] EXCEPT !.phase = "PrefillReady", !.prefilled = 0]
                  ELSE active[id]]
  /\ batch' = [batch EXCEPT !.prefill = <<>>, !.restores = <<>>]
  /\ step' = Rest(batch')
  /\ UNCHANGED <<cacheVars, waiting, decodeReady, committed, left, extra>>

AbortForgets ==
  /\ step = "abort" /\ batch.saves = <<>> /\ batch.prefill # <<>>
  /\ batch' = [batch EXCEPT !.prefill = <<>>, !.restores = <<>>]
  /\ step' = Rest(batch')
  /\ UNCHANGED <<cacheVars, queueVars, active, committed, left, extra>>

\* The restores stay with their sequences.
AbortChunks ==
  /\ step = "abort" /\ batch.saves = <<>> /\ batch.prefill # <<>>
  /\ prefillReady' = ChunkIds \o prefillReady
  /\ active' = [id \in DOMAIN active |->
                  IF id \in Range(ChunkIds)
                  THEN [active[id] EXCEPT !.phase = "PrefillReady"]
                  ELSE active[id]]
  /\ batch' = [batch EXCEPT !.prefill = <<>>, !.restores = <<>>]
  /\ step' = Rest(batch')
  /\ UNCHANGED <<cacheVars, waiting, decodeReady, committed, left, extra>>

\* Mutant of AbortDecode: the appended token is not rolled back.
AbortKeepsToken ==
  /\ step = "abort" /\ batch.saves = <<>> /\ batch.prefill = <<>>
  /\ batch.decode # <<>>
  /\ LET id == Last(batch.decode)
     IN  /\ active' = [active EXCEPT ![id].phase = "DecodeReady"]
         /\ decodeReady' = <<id>> \o decodeReady
  /\ batch' = [batch EXCEPT !.decode = Front(@)]
  /\ step' = Rest(batch')
  /\ UNCHANGED <<cacheVars, waiting, prefillReady, committed, left, extra>>

AbortDecode ==
  /\ step = "abort" /\ batch.saves = <<>> /\ batch.prefill = <<>>
  /\ batch.decode # <<>>
  /\ LET id == Last(batch.decode)
     IN  /\ RollbackToken(id)
         /\ active' = [active EXCEPT ![id].phase = "DecodeReady"]
         /\ decodeReady' = <<id>> \o decodeReady
  /\ batch' = [batch EXCEPT !.decode = Front(@)]
  /\ step' = Rest(batch')
  /\ UNCHANGED <<waiting, prefillReady, committed, left, extra>>

-----------------------------------------------------------------------------
(* cancel.                                                                 *)

CancelWaiting(id) ==
  /\ step \in {"idle", "flight"}
  /\ id \in Range(waiting)
  /\ waiting' = RemoveFirst(waiting, id)
  /\ UNCHANGED <<cacheVars, prefillReady, decodeReady, active, committed, batch,
                 step, left, extra>>

\* The ids of a ready queue other than id, in their order: VecDeque::retain.
Retained(queue, id) ==
  LET kept[n \in 0..Len(queue)] ==
        IF n = 0 THEN <<>>
        ELSE IF queue[n] = id THEN kept[n - 1] ELSE Append(kept[n - 1], queue[n])
  IN  kept[Len(queue)]

CancelActive(id) ==
  /\ step \in {"idle", "flight"}
  /\ id \in DOMAIN active
  /\ ~InBatch(id)
  /\ Release(id, {r.snapshot : r \in active[id].restore})
  /\ Deactivate(id)
  /\ prefillReady' = Retained(prefillReady, id)
  /\ decodeReady' = Retained(decodeReady, id)
  /\ UNCHANGED <<waiting, batch, step, left, extra>>

-----------------------------------------------------------------------------

\* What the worker does of its own accord: it plans, runs and completes.
Advance ==
  \/ BeginBatch \/ PlanDecode \/ DecodePlanned
  \/ PlanChunk \/ BeginAdmission \/ AdmitMiss \/ AdmitMatch \/ PassOver
  \/ EndAdmission \/ EndBatch
  \/ BeginComplete \/ CompleteRestore \/ CompleteSave \/ CompleteChunk
  \/ CompleteDecode
  \/ AbortSave \/ AbortChunks \/ AbortDecode

Next ==
  \/ Advance
  \/ ReserveExtra \/ ReleaseExtra \/ BeginAbort
  \/ \E id \in Ids : Submit(id) \/ CancelWaiting(id) \/ CancelActive(id)

Spec == Init /\ [][Next]_vars

\* The worker thread never stops by itself: run_worker calls next_batch in a
\* loop and the executor returns from every batch.  Clients owe nothing.
FairSpec == Spec /\ WF_vars(Advance)

-----------------------------------------------------------------------------
(* Refinement: the scheduler keeps the protocol of the cache manager.      *)

Prompts == {Request(id).prompt : id \in Ids}

MaxNew == Max({Request(id).maxNew : id \in Ids} \cup {0})

\* What the scheduler owes the cache for its sequences, and for the snapshots
\* its batch has reserved.
client ==
  [id \in DOMAIN active |-> [prompt |-> Request(id).prompt,
                             restore |-> {r.snapshot : r \in active[id].restore}]]

saving ==
  [s \in {save.snapshot : save \in Range(batch.saves)} |->
     (CHOOSE save \in Range(batch.saves) : save.snapshot = s).id]

Cache == INSTANCE CacheManager

\* Every call the scheduler makes is one the cache manager allows for: pins,
\* reservations and rollbacks are paired in every order of batches, aborts
\* and cancellations.  All that holds of CacheManager holds of the scheduler.
ImplementsCacheManager == Cache!Spec

-----------------------------------------------------------------------------
(* Properties.                                                             *)

Phases == {"PrefillReady", "PrefillInFlight", "DecodeReady", "DecodeInFlight"}

Steps == {"idle", "decode", "prefill", "admit", "close", "flight", "complete", "abort"}

TypeOK ==
  /\ waiting \in Seq(Ids) /\ prefillReady \in Seq(Ids) /\ decodeReady \in Seq(Ids)
  /\ DOMAIN active \subseteq Ids
  /\ \A id \in DOMAIN active :
       /\ active[id].prefilled \in 0..PromptLen(id)
       /\ active[id].generated \in 0..Request(id).maxNew
       /\ active[id].phase \in Phases
       /\ \A r \in active[id].restore :
            r.snapshot \in Snapshots /\ r.copy \subseteq Pages \X Pages
  /\ committed \in 0..Capacity
  /\ batch.decode \in Seq(Ids) /\ ChunkIds \in Seq(Ids)
  /\ step \in Steps
  /\ left \in Nat /\ extra \in 0..Depth

\* How often id stands in the sequence s.
Times(id, s) == Cardinality({i \in DOMAIN s : s[i] = id})

\* A request is in one place at a time: it waits once, or its phase names the
\* one queue or the one part of the batch it is in.  Nothing is lost or
\* planned twice by aborts, cancellations and rotations.
InOnePlace ==
  \A id \in Ids :
    LET at(phase) == IF id \in DOMAIN active /\ active[id].phase = phase THEN 1 ELSE 0
    IN  /\ Times(id, waiting) <= IF id \in DOMAIN active THEN 0 ELSE 1
        /\ Times(id, prefillReady) = at("PrefillReady")
        /\ Times(id, decodeReady) = at("DecodeReady")
        /\ Times(id, ChunkIds) = at("PrefillInFlight")
        /\ Times(id, batch.decode) = at("DecodeInFlight")

\* The promise made at admission is kept to the page: committed is the sum
\* over the active requests and never more than the pool.
CommittedExact ==
  /\ DOMAIN active = DOMAIN seqs
  /\ committed = SumFunction([id \in DOMAIN active |-> Reserved(id)])
  /\ committed <= Capacity

\* The cache has exactly the tokens the request has: its prompt, what it
\* generated, and one more per position the batch in flight holds.
TokensExact ==
  \A id \in DOMAIN active :
    /\ active[id].phase \in {"DecodeReady", "DecodeInFlight"}
         <=> active[id].prefilled = PromptLen(id)
    /\ seqs[id].tokens =
         PromptLen(id) + active[id].generated
         + (IF active[id].phase = "DecodeInFlight" THEN 1 + extra ELSE 0)
    /\ seqs[id].tokens <= PromptLen(id) + Request(id).maxNew

\* The scheduler's accounts of tokens and pages agree with the cache, whatever
\* was planned, cancelled or aborted (commit_active, complete_batch_multi,
\* abort_batch, cancel).
AccountsExact == TypeOK /\ CommittedExact /\ TokensExact

\* The pages one more token of id needs can be had.
CanGrow(id) ==
  ExtraNeed(id) <= Cardinality(freePages \cup Freed(PageCandidates({})))

\* No out-of-memory during decode (README.md, "Admission control reserves the
\* request's lifetime"): the NoKvBlocks branch of next_batch is never taken,
\* not even while an aborted batch has left prefix entries pinned, and every
\* draft gets its position.
DecodeNeverRefused ==
  /\ step = "decode" /\ left > 0 /\ Room => CanGrow(Head(decodeReady))
  /\ \A id \in DOMAIN active :
       step = "flight" /\ Speculative(id)
         /\ active[id].generated + 1 + extra < Request(id).maxNew => CanGrow(id)

RestoreDue == \E id \in DOMAIN active : active[id].restore # {}

\* Why decode is never refused: while no restore is due, every page the active
\* requests may still ask for is free or can be had by evicting.
LifetimeKept ==
  ~RestoreDue =>
    SumFunction([id \in DOMAIN active |-> Reserved(id) - Len(seqs[id].blocks)])
      <= Cardinality(freePages \cup Freed(PageCandidates({})))

\* The reservation made at admission is enough for the lifetime of a request.
ReservationKept == LifetimeKept /\ DecodeNeverRefused

\* next_batch returns None only when no request is active: no active request
\* can be stuck for want of pages, however restores and aborts fall.
NoneMeansNoneActive == step = "close" /\ NoBatch => active = <<>>

\* What a request has done is never undone: chunks are planned from where the
\* last one ended, and generated only grows.
ProgressKept ==
  [][\A id \in DOMAIN active \cap DOMAIN active' :
       /\ active[id].prefilled <= active'[id].prefilled
       /\ active[id].generated <= active'[id].generated]_vars

-----------------------------------------------------------------------------
(* Liveness, under FairSpec.                                               *)

\* Whatever is admitted ends: decode priority, chunking and round robin starve
\* no active request, whoever else comes and goes.
ActiveEnds == \A id \in Ids : id \in DOMAIN active ~> id \notin DOMAIN active

\* A request that waits gets its turn once clients stop sending new ones.
WaitingEnds ==
  (<>[][\A id \in Ids : ~Submit(id)]_vars) =>
    \A id \in Ids : id \in Range(waiting) ~> id \notin Range(waiting)

=============================================================================
