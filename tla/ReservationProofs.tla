-------------------------- MODULE ReservationProofs --------------------------
(***************************************************************************)
(* What the scheduler has reserved for a request is there when it is       *)
(* needed, and nobody is stuck.                                            *)
(*                                                                         *)
(* RInv is inductive beside SInv and the invariants of the cache.  Pages   *)
(* an entry pins for a restore that is due cannot be evicted, so while one *)
(* is due the capacity alone promises nothing.  RInv tells why it does not *)
(* matter: next_batch plans the decodes that are ready before anything     *)
(* else, their next pages are spare while a restore is due (NextPart), and *)
(* whoever waits for a restore is sure of a place in the next batch        *)
(* (DuePart), however its chunks and those of an aborted batch are cut     *)
(* (LimitPart).                                                            *)
(***************************************************************************)
EXTENDS SchedulerProofs

-----------------------------------------------------------------------------
(* The invariant.                                                          *)

\* The requests that still wait for the state they continue from.
Due == {id \in DOMAIN active : active[id].restore # {}}

\* The tokens of the next chunk of id, were there no limit but its snapshot.
Whole(id) ==
  LET o == active[id].prefilled
      at == Request(id).snapshotAt
  IN  IF Snapshots # {} /\ at > o THEN at - o ELSE PromptLen(id) - o

WholeOf(S) == SumFunctionOnSet([id \in DOMAIN active |-> Whole(id)], S)

\* The pages one more token of each id in S needs.
NeedOf(S) == SumFunctionOnSet([id \in DOMAIN active |-> ExtraNeed(id)], S)

\* The pages no sequence and no pinned entry holds.
HeldPages == UNION {SeqPages(id) : id \in DOMAIN seqs}

PinnedPages == UNION {EntryPages(s) : s \in {t \in DOMAIN entries : entries[t].pins > 0}}

SparePages == Pages \ (HeldPages \cup PinnedPages)

\* next_batch plans every decode, then chunks, then admits.
LoopPart ==
  /\ step = "decode" => left = Len(decodeReady)
  /\ step = "prefill" /\ Room => decodeReady = <<>>
  /\ step \in {"admit", "close"} => decodeReady = <<>> /\ prefillReady = <<>>
  /\ step = "admit" => Room
  /\ batch.prefill # <<>> /\ step # "complete" => decodeReady = <<>>

\* Only the last chunk of a batch may have been cut to fit.
LimitPart ==
  step # "complete" =>
    /\ Len(batch.decode) + Len(batch.prefill) <= MaxSeqs
    /\ \A id \in Range(ChunkIds) : Len(batch.decode) + WholeOf(Before(ChunkIds, id)) < MaxTokens
    /\ NumTokens < MaxTokens => Len(batch.decode) + WholeOf(Range(ChunkIds)) <= NumTokens

\* Where the batch is not planned any more, nobody ready waits for a restore.
Launched == step \in {"flight", "complete"} \/ (step = "abort" /\ batch.prefill # <<>>)

\* The next batch has a place for whoever waits for a restore.
PlaceLeft(id) ==
  /\ Len(decodeReady) + Len(batch.decode) + Len(batch.prefill)
       + Cardinality(Before(prefillReady, id)) < MaxSeqs
  /\ Len(decodeReady) + NumTokens + WholeOf(Before(prefillReady, id)) < MaxTokens

DuePart ==
  /\ Launched => Range(prefillReady) \cap Due = {}
  /\ \A id \in Range(prefillReady) \cap Due : PlaceLeft(id)

\* While a restore pins pages, there are enough for the decodes that come first.
NextPart == Due # {} => NeedOf(Range(decodeReady)) <= Cardinality(SparePages)

\* The active requests are a map.
MapPart == active = [id \in DOMAIN active |-> active[id]]

RInv == MapPart /\ LoopPart /\ LimitPart /\ DuePart /\ NextPart

-----------------------------------------------------------------------------

\* Whatever is spare can be had.
LEMMA SpareReclaimed ==
  ASSUME Proved!IInv
  PROVE  freePages \cup Freed(PageCandidates({})) = SparePages
<1>1. Proved!Reclaimable
  BY Proved!EvictionIsEnough, CopiesAssumed
<1>2. Proved!Freed(Proved!PageCandidates({})) = Freed(PageCandidates({}))
  BY SameEviction
<1>3. Proved!SequencePages = HeldPages /\ Proved!PinnedPages = PinnedPages
  BY SameTables DEF Proved!SequencePages, HeldPages, Proved!PinnedPages, PinnedPages
<1> QED BY <1>1, <1>2, <1>3 DEF Proved!Reclaimable, SparePages

\* The spare pages are finitely many.
LEMMA SpareFinite ==
  /\ IsFiniteSet(SparePages) /\ SparePages \subseteq Pages /\ Cardinality(SparePages) \in Nat
BY CacheAssumption, FS_Subset, FS_CardinalityType DEF CacheAssumption, SparePages

\* A sequence has no more elements than places.
LEMMA RangeCount ==
  ASSUME NEW S, NEW s \in Seq(S)
  PROVE  IsFiniteSet(Range(s)) /\ Cardinality(Range(s)) <= Len(s)
<1> DEFINE n == Len(s)
           T == {s[i] : i \in 1..n}
           f == [i \in 1..n |-> s[i]]
<1>1. n \in Nat /\ DOMAIN s = 1..n
  BY LenProperties
<1>2. Range(s) = T
  BY <1>1 DEF Range
<1>3. IsFiniteSet(1..n) /\ Cardinality(1..n) = n
  BY <1>1, FS_Interval
<1> HIDE DEF n
<1>4. f \in Surjection(1..n, T)
  BY DEF Surjection
<1>5. IsFiniteSet(T) /\ Cardinality(T) <= Cardinality(1..n)
  BY <1>3, <1>4, FS_Surjection
<1> QED BY <1>2, <1>3, <1>5 DEF n

\* What a request may still ask for covers its next token.
LEMMA NeedReserved ==
  ASSUME SInv, Proved!IInv, NEW id \in DOMAIN active
  PROVE  /\ Len(seqs[id].blocks) \in Nat /\ Reserved(id) \in Nat /\ ExtraNeed(id) \in Nat
         /\ Len(seqs[id].blocks) <= Reserved(id)
         /\ seqs[id].tokens < PromptLen(id) + Request(id).maxNew =>
              ExtraNeed(id) <= Reserved(id) - Len(seqs[id].blocks)
         /\ IsFiniteSet(SeqPages(id)) /\ Cardinality(SeqPages(id)) <= Len(seqs[id].blocks)
<1> DEFINE t == seqs[id].tokens
           m == PromptLen(id) + Request(id).maxNew
           have == Len(seqs[id].blocks)
<1>1. /\ seqs[id] \in [slot : Slots, blocks : Seq(Pages), tokens : Nat]
      /\ have = BlocksFor(t) /\ DOMAIN seqs = DOMAIN active
  BY CacheFacts
<1>2. t \in Nat /\ m \in Nat /\ t <= m
  BY <1>1, RequestFacts DEF SInv, Counted
<1>3. BlocksFor(t) \in Nat /\ BlocksFor(m) \in Nat /\ BlocksFor(t) <= BlocksFor(m)
  BY <1>2, BlocksForMonotonic
<1>4. t + 1 \in Nat /\ BlocksFor(t + 1) \in Nat
  BY <1>2, BlocksForMonotonic
<1>5. t < m => BlocksFor(t + 1) <= BlocksFor(m)
  BY <1>2, <1>4, BlocksForMonotonic
<1>6. ExtraNeed(id) = IF BlocksFor(t + 1) > have THEN BlocksFor(t + 1) - have ELSE 0
  BY DEF ExtraNeed
<1>7. Reserved(id) = BlocksFor(m)
  BY DEF Reserved
<1>8. IsFiniteSet(SeqPages(id)) /\ Cardinality(SeqPages(id)) <= have
  BY <1>1, RangeCount DEF SeqPages
<1> HIDE DEF t, m, have
<1>9. have <= Reserved(id) /\ (t < m => ExtraNeed(id) <= Reserved(id) - have)
  BY <1>1, <1>3, <1>4, <1>5, <1>6, <1>7
<1>10. ExtraNeed(id) \in Nat /\ have \in Nat /\ Reserved(id) \in Nat
  BY <1>1, <1>3, <1>4, <1>6, <1>7
<1> QED BY <1>8, <1>9, <1>10 DEF t, m, have

-----------------------------------------------------------------------------
(* The pages of a lifetime.                                                *)

\* Without a restore due no entry is pinned.
LEMMA NothingPinned ==
  ASSUME Proved!IInv, ~RestoreDue
  PROVE  PinnedPages = {}
<1>1. Proved!PinsExact
  BY DEF Proved!IInv
<1>2. \A id \in DOMAIN client : client[id].restore = {}
  BY DEF RestoreDue, client
<1>3. ASSUME NEW s \in DOMAIN entries PROVE entries[s].pins = 0
  <2>1. entries[s].pins = Proved!Cardinality({id \in DOMAIN client : s \in client[id].restore})
    BY <1>1 DEF Proved!PinsExact
  <2>2. {id \in DOMAIN client : s \in client[id].restore} = {}
    BY <1>2
  <2> QED BY <2>1, <2>2, SameSets, FS_EmptySet
<1>4. {t \in DOMAIN entries : entries[t].pins > 0} = {}
  BY <1>3
<1> QED BY <1>4 DEF PinnedPages

\* The sequences hold no more pages than their tables have places.
LEMMA HeldCount ==
  ASSUME SInv, Proved!IInv
  PROVE  LET d == [id \in DOMAIN active |-> Reserved(id) - Len(seqs[id].blocks)]
         IN  /\ Cardinality(HeldPages) + SumFunctionOnSet(d, DOMAIN active) <= Capacity
             /\ IsFiniteSet(HeldPages) /\ HeldPages \subseteq Pages
             /\ \A id \in DOMAIN active : d[id] \in Nat
             /\ SumFunctionOnSet(d, DOMAIN active) \in Nat /\ Capacity \in Nat
<1> DEFINE S == DOMAIN active
           f == [id \in S |-> Reserved(id)]
           h == [id \in S |-> Len(seqs[id].blocks)]
           d == [id \in S |-> Reserved(id) - Len(seqs[id].blocks)]
           P == [id \in S |-> SeqPages(id)]
<1>1. IsFiniteSet(S) /\ DOMAIN seqs = S
  BY CacheFacts
<1>2. \A id \in S : /\ f[id] \in Nat /\ h[id] \in Nat /\ h[id] <= f[id] /\ d[id] = f[id] - h[id]
                    /\ IsFiniteSet(P[id]) /\ Cardinality(P[id]) <= h[id]
  BY NeedReserved
<1>3. HeldPages = UNION {P[id] : id \in S}
  BY <1>1 DEF HeldPages
<1>4. SumFunctionOnSet(f, S) <= Capacity
  <2>1. committed = ReservedAll(active) /\ committed <= Capacity
    BY DEF SInv, CommittedPart
  <2>2. ReservedAll(active) = SumFunctionOnSet(f, S)
    BY DEF ReservedAll, SumFunction, SumFunctionOnSet, FoldFunction
  <2> QED BY <2>1, <2>2
<1>5. HeldPages \subseteq Pages
  <2>1. ASSUME NEW id \in S PROVE SeqPages(id) \subseteq Pages
    <3>1. seqs[id].blocks \in Seq(Pages)
      BY <1>1, CacheFacts
    <3> QED BY <3>1 DEF SeqPages, Range
  <2> QED BY <1>1, <2>1 DEF HeldPages
<1>6. Capacity \in Nat /\ IsFiniteSet(HeldPages) /\ Cardinality(HeldPages) \in Nat
  BY <1>5, CacheAssumption, FS_Subset, FS_CardinalityType DEF CacheAssumption, Capacity
<1> HIDE DEF f, h, d, P
<1>7. Cardinality(HeldPages) <= SumFunctionOnSet(h, S)
  BY <1>1, <1>2, <1>3, UnionCount
<1>8. SumFunctionOnSet(d, S) = SumFunctionOnSet(f, S) - SumFunctionOnSet(h, S)
  <2>1. \A id \in S : f[id] \in Int /\ h[id] \in Int /\ d[id] = f[id] - h[id]
    BY <1>2
  <2> QED BY <1>1, <2>1, SumDifference
<1>9. \A id \in S : d[id] \in Nat
  BY <1>2
<1>10. /\ SumFunctionOnSet(f, S) \in Nat /\ SumFunctionOnSet(h, S) \in Nat
       /\ SumFunctionOnSet(d, S) \in Nat
  <2>1. (\A id \in S : f[id] \in Nat) /\ \A id \in S : h[id] \in Nat
    BY <1>2
  <2> QED BY <1>1, <1>9, <2>1, SumNat
<1>11. Cardinality(HeldPages) + SumFunctionOnSet(d, S) <= Capacity
  BY <1>4, <1>6, <1>7, <1>8, <1>10
<1> QED BY <1>5, <1>6, <1>9, <1>10, <1>11 DEF d

\* While no restore is due, what the active requests may still ask for is spare.
LEMMA LifetimeRight ==
  ASSUME SInv, Proved!IInv
  PROVE  LifetimeKept
<1> DEFINE d == [id \in DOMAIN active |-> Reserved(id) - Len(seqs[id].blocks)]
           k == SumFunctionOnSet(d, DOMAIN active)
<1> SUFFICES ASSUME ~RestoreDue
             PROVE  k <= Cardinality(SparePages)
  BY SpareReclaimed DEF LifetimeKept, SumFunction, SumFunctionOnSet, FoldFunction
<1>1. /\ Cardinality(HeldPages) + k <= Capacity
      /\ IsFiniteSet(HeldPages) /\ HeldPages \subseteq Pages /\ k \in Nat
  BY HeldCount
<1>2. SparePages = Pages \ HeldPages
  BY NothingPinned DEF SparePages
<1> HIDE DEF k
<1>3. /\ Cardinality(Pages) = Cardinality(Pages \ HeldPages) + Cardinality(HeldPages)
      /\ Cardinality(HeldPages) \in Nat /\ Cardinality(Pages \ HeldPages) \in Nat
  BY <1>1, CacheAssumption, SplitCount DEF CacheAssumption
<1> QED BY <1>1, <1>2, <1>3 DEF Capacity

\* So every active request that may have one more token gets it.
LEMMA GrowsInLifetime ==
  ASSUME SInv, Proved!IInv, ~RestoreDue, NEW id \in DOMAIN active,
         seqs[id].tokens < PromptLen(id) + Request(id).maxNew
  PROVE  CanGrow(id)
<1> DEFINE S == DOMAIN active
           d == [i \in S |-> Reserved(i) - Len(seqs[i].blocks)]
           spare == Cardinality(freePages \cup Freed(PageCandidates({})))
<1>1. SumFunctionOnSet(d, S) <= spare
  BY LifetimeRight DEF LifetimeKept, SumFunction, SumFunctionOnSet, FoldFunction
<1>2. spare \in Nat
  BY SpareReclaimed, SpareFinite
<1>3. ExtraNeed(id) <= d[id] /\ ExtraNeed(id) \in Nat
  BY NeedReserved
<1>4. IsFiniteSet(S) /\ (\A i \in S : d[i] \in Nat)
  BY HeldCount, CacheFacts
<1> HIDE DEF d, spare
<1>5. SumFunctionOnSet(d, S) = d[id] + SumFunctionOnSet(d, S \ {id})
  BY <1>4, SumRemove
<1>6. SumFunctionOnSet(d, S \ {id}) \in Nat
  <2>1. IsFiniteSet(S \ {id}) /\ \A i \in S \ {id} : d[i] \in Nat
    BY <1>4, FS_Subset
  <2> QED BY <2>1, SumNat
<1>7. d[id] \in Nat
  BY <1>4
<1>8. ExtraNeed(id) <= spare
  BY <1>1, <1>2, <1>3, <1>5, <1>6, <1>7
<1> QED BY <1>8 DEF CanGrow, spare

-----------------------------------------------------------------------------
(* Decodes are not refused, and nobody is stuck.                           *)

\* What the decodes that are ready need covers each of them.
LEMMA NeedOfOne ==
  ASSUME SInv, Proved!IInv, NEW S \in SUBSET DOMAIN active, NEW id \in S
  PROVE  /\ ExtraNeed(id) \in Nat /\ ExtraNeed(id) <= NeedOf(S) /\ NeedOf(S) \in Nat
         /\ NeedOf(S) = ExtraNeed(id) + NeedOf(S \ {id}) /\ NeedOf(S \ {id}) \in Nat
<1> DEFINE f == [i \in DOMAIN active |-> ExtraNeed(i)]
<1>1. IsFiniteSet(S) /\ IsFiniteSet(S \ {id})
  BY CacheFacts, FS_Subset
<1>2. \A i \in S : f[i] = ExtraNeed(i) /\ f[i] \in Nat
  BY NeedReserved
<1>3. NeedOf(S) = SumFunctionOnSet(f, S) /\ NeedOf(S \ {id}) = SumFunctionOnSet(f, S \ {id})
  BY DEF NeedOf
<1> HIDE DEF f
<1>4. SumFunctionOnSet(f, S) = f[id] + SumFunctionOnSet(f, S \ {id})
  BY <1>1, <1>2, SumRemove
<1>5. SumFunctionOnSet(f, S \ {id}) \in Nat
  BY <1>1, <1>2, SumNat
<1>6. f[id] = ExtraNeed(id) /\ f[id] \in Nat
  BY <1>2
<1> QED BY <1>3, <1>4, <1>5, <1>6

\* A request that has finished its prompt and not its tokens may grow while no restore is due.
LEMMA ReadyGrows ==
  ASSUME SInv, Proved!IInv, ~RestoreDue, NEW id \in DOMAIN active, active[id].phase = "DecodeReady"
  PROVE  CanGrow(id)
<1>1. Known(id) /\ Counted(id) /\ active[id].generated \in Nat /\ PromptLen(id) \in Nat
      /\ Request(id).maxNew \in Nat
  BY RequestFacts DEF SInv
<1>2. (active[id].phase = "DecodeInFlight") = FALSE
  OBVIOUS
<1>3. seqs[id].tokens = PromptLen(id) + active[id].generated
  BY <1>1, <1>2 DEF Counted
<1>4. active[id].generated < Request(id).maxNew
  BY <1>1 DEF Known
<1>5. seqs[id].tokens < PromptLen(id) + Request(id).maxNew
  BY <1>1, <1>3, <1>4
<1> QED BY <1>5, GrowsInLifetime

\* Neither the next decode nor a draft is refused.
LEMMA RefusalRight ==
  ASSUME SInv, Proved!IInv, RInv
  PROVE  DecodeNeverRefused
<1>1. ASSUME step = "decode", left > 0, Room PROVE CanGrow(Head(decodeReady))
  <2>0. PICK id : id = Head(decodeReady)
    OBVIOUS
  <2>1. /\ decodeReady \in Seq(Ids) /\ Range(decodeReady) = WithPhase("DecodeReady")
        /\ left \in Nat /\ left <= Len(decodeReady)
    BY <1>1 DEF SInv, QueuePart, StepPart
  <2>2. id \in Range(decodeReady)
    <3>1. Len(decodeReady) \in Nat /\ Len(decodeReady) > 0
               /\ DOMAIN decodeReady = 1..Len(decodeReady)
      BY <1>1, <2>1, LenProperties
    <3>2. Head(decodeReady) = decodeReady[1]
      BY <2>1, <3>1
    <3> QED BY <2>0, <3>1, <3>2 DEF Range
  <2>3. id \in DOMAIN active /\ active[id].phase = "DecodeReady"
    BY <2>1, <2>2 DEF WithPhase
  <2>4. CASE ~RestoreDue
    BY <2>0, <2>3, <2>4, ReadyGrows
  <2>5. CASE RestoreDue
    <3>1. Due # {}
      BY <2>5 DEF RestoreDue, Due
    <3>2. NeedOf(Range(decodeReady)) <= Cardinality(SparePages)
      BY <3>1 DEF RInv, NextPart
    <3>3. Range(decodeReady) \subseteq DOMAIN active
      BY <2>1 DEF WithPhase
    <3>4. ExtraNeed(id) \in Nat /\ ExtraNeed(id) <= NeedOf(Range(decodeReady))
          /\ NeedOf(Range(decodeReady)) \in Nat
      BY <2>2, <3>3, NeedOfOne
    <3>5. ExtraNeed(id) <= Cardinality(SparePages)
      BY <3>2, <3>4, SpareFinite
    <3> QED BY <2>0, <3>5, SpareReclaimed DEF CanGrow
  <2> QED BY <2>4, <2>5
<1>2. ASSUME NEW id \in DOMAIN active, step = "flight", Speculative(id),
             active[id].generated + 1 + extra < Request(id).maxNew
      PROVE  CanGrow(id)
  <2>1. /\ id \in Ids /\ batch.prefill = <<>> /\ extra \in Nat
        /\ seqs[id].tokens = PromptLen(id) + active[id].generated + 1 + extra
    <3>1. id \in Ids
      BY RequestFacts DEF SInv
    <3> QED BY <1>2, <3>1, SpeculativeFacts
  <2>2. /\ active[id].generated \in Nat /\ PromptLen(id) \in Nat /\ Request(id).maxNew \in Nat
    BY RequestFacts DEF SInv
  <2>3. seqs[id].tokens < PromptLen(id) + Request(id).maxNew
    BY <1>2, <2>1, <2>2
  <2>4. ASSUME NEW j \in DOMAIN active, active[j].restore # {} PROVE FALSE
    <3>1. j \in Due
      BY <2>4 DEF Due
    <3>2. Known(j)
      BY RequestFacts DEF SInv
    <3>3. CASE active[j].phase = "PrefillReady"
      <4>1. j \in Range(prefillReady)
        BY <3>3 DEF SInv, QueuePart, WithPhase
      <4>2. Launched
        BY <1>2 DEF Launched
      <4> QED BY <3>1, <4>1, <4>2 DEF RInv, DuePart
    <3>4. CASE active[j].phase = "PrefillInFlight"
      <4>1. j \in Range(ChunkIds)
        BY <3>4 DEF SInv, BatchPart, WithPhase
      <4> QED BY <2>1, <4>1 DEF ChunkIds, Range
    <3> QED BY <2>4, <3>2, <3>3, <3>4 DEF Known
  <2>5. ~RestoreDue
    BY <2>4 DEF RestoreDue
  <2> QED BY <2>3, <2>5, GrowsInLifetime
<1> QED BY <1>1, <1>2 DEF DecodeNeverRefused

\* An empty batch is one nobody is left for.
LEMMA NoneRight ==
  ASSUME SInv, RInv
  PROVE  NoneMeansNoneActive
<1> SUFFICES ASSUME step = "close", NoBatch PROVE active = <<>>
  BY DEF NoneMeansNoneActive
<1>1. decodeReady = <<>> /\ prefillReady = <<>> /\ batch.decode = <<>> /\ batch.prefill = <<>>
  BY DEF RInv, LoopPart, NoBatch
<1>2. ChunkIds = <<>>
  BY <1>1 DEF ChunkIds
<1>3. Range(<<>>) = {}
  BY DEF Range
<1>4. \A p \in Phases : WithPhase(p) = {}
  BY <1>1, <1>2, <1>3 DEF Phases, SInv, QueuePart, BatchPart
<1>5. \A id \in DOMAIN active : active[id].phase \in Phases
  BY RequestFacts DEF SInv, Record
<1>6. DOMAIN active = {}
  BY <1>4, <1>5 DEF WithPhase
<1>7. active = [id \in DOMAIN active |-> active[id]]
  BY DEF RInv, MapPart
<1> QED BY <1>6, <1>7

-----------------------------------------------------------------------------
(* Counts and sums.                                                        *)

\* Each operation leaves the active requests a map.
LEMMA MapKept == ASSUME MapPart, [Next]_vars PROVE MapPart'
<1>1. ASSUME NEW id, NEW r, active' = With(active, id, r) PROVE MapPart'
  BY <1>1 DEF With, MapPart
<1>2. ASSUME NEW id, active' = Without(active, {id}) PROVE MapPart'
  BY <1>2 DEF Without, MapPart
<1>3. ASSUME NEW id, NEW r, active' = [active EXCEPT ![id] = r] PROVE MapPart'
  BY <1>3 DEF MapPart
<1>4. ASSUME UNCHANGED active PROVE MapPart'
  BY <1>4 DEF MapPart
<1>5. CASE UNCHANGED vars
  BY <1>4, <1>5 DEF vars
<1>6. ASSUME NEW id \in Ids, Submit(id) \/ CancelWaiting(id) \/ CancelActive(id) PROVE MapPart'
  BY <1>2, <1>4, <1>6 DEF Submit, CancelWaiting, CancelActive, Deactivate
<1>7. CASE ReserveExtra \/ ReleaseExtra \/ BeginAbort
  BY <1>4, <1>7 DEF ReserveExtra, ReleaseExtra, BeginAbort
<1>8. CASE \/ BeginBatch \/ DecodePlanned \/ BeginAdmission \/ EndAdmission \/ EndBatch
           \/ BeginComplete \/ CompleteSave \/ AbortSave \/ PassOver
  BY <1>4, <1>8 DEF BeginBatch, DecodePlanned, BeginAdmission, EndAdmission, EndBatch,
       BeginComplete, CompleteSave, AbortSave, PassOver, Rotate
<1>9. CASE PlanDecode
  BY Zenon, <1>3, <1>4, <1>9 DEF PlanDecode
<1>10. CASE PlanChunk
  BY Zenon, <1>3, <1>10 DEF PlanChunk
<1>11. CASE AdmitMiss \/ AdmitMatch
  <2>1. ASSUME NEW id, NEW reused, NEW restore, Activate(id, reused, restore) PROVE MapPart'
    BY <1>1, <2>1 DEF Activate
  <2> QED BY <1>11, <2>1 DEF AdmitMiss, AdmitMatch
<1>12. CASE CompleteRestore
  BY <1>3, <1>12 DEF CompleteRestore
<1>13. CASE CompleteChunk
  BY <1>13 DEF CompleteChunk, MapPart
<1>14. CASE CompleteDecode
  BY <1>2, <1>14 DEF CompleteDecode, Deactivate, MapPart
<1>15. CASE AbortChunks
  BY <1>15 DEF AbortChunks, MapPart
<1>16. CASE AbortDecode
  BY <1>3, <1>16 DEF AbortDecode
<1> QED BY <1>5, <1>6, <1>7, <1>8, <1>9, <1>10, <1>11, <1>12, <1>13, <1>14, <1>15, <1>16
     DEF Next, Advance

\* The sizes of the batch are numbers.
LEMMA BatchCounts ==
  ASSUME SInv
  PROVE  /\ NumTokens \in Nat /\ Len(batch.decode) \in Nat /\ Len(batch.prefill) \in Nat
         /\ Len(batch.decode) <= NumTokens
         /\ batch.decode \in Seq(Ids) /\ batch.prefill \in Seq(Chunk) /\ BatchType
         /\ decodeReady \in Seq(Ids) /\ prefillReady \in Seq(Ids)
         /\ IsInjective(decodeReady) /\ IsInjective(prefillReady)
         /\ Len(decodeReady) \in Nat /\ Len(prefillReady) \in Nat
         /\ Range(prefillReady) \subseteq DOMAIN active
              /\ Range(decodeReady) \subseteq DOMAIN active
         /\ ChunkIds \in Seq(Ids) /\ IsInjective(ChunkIds) /\ Len(ChunkIds) = Len(batch.prefill)
         /\ Range(ChunkIds) \subseteq DOMAIN active
<1>1. BatchType /\ IsInjective(ChunkIds) /\ Range(ChunkIds) \subseteq DOMAIN active
  BY DEF SInv, BatchPart, WithPhase
<1>2. batch.prefill \in Seq(Chunk) /\ batch.decode \in Seq(Ids)
  BY <1>1 DEF BatchType
<1>3. ChunkIds \in Seq(Ids) /\ Len(ChunkIds) = Len(batch.prefill)
  BY <1>2, IdsOfChunks, ChunkIdsAre
<1>4. /\ decodeReady \in Seq(Ids) /\ prefillReady \in Seq(Ids)
      /\ IsInjective(decodeReady) /\ IsInjective(prefillReady)
      /\ Range(prefillReady) \subseteq DOMAIN active /\ Range(decodeReady) \subseteq DOMAIN active
  BY DEF SInv, QueuePart, WithPhase
<1>5. Len(decodeReady) \in Nat /\ Len(prefillReady) \in Nat
  BY <1>4, LenProperties
<1> QED BY <1>1, <1>2, <1>3, <1>4, <1>5, TokensOfBatch

\* A chunk of a request is of at least one token, while its prompt is not done.
LEMMA WholeNat ==
  ASSUME SInv, NEW id \in DOMAIN active
  PROVE  Whole(id) \in Nat
<1> DEFINE o == active[id].prefilled
           at == Request(id).snapshotAt
<1>1. o \in Nat /\ PromptLen(id) \in Nat /\ id \in Ids
  BY RequestFacts DEF SInv
<1>2. o <= PromptLen(id)
  BY RequestFacts DEF SInv, Known
<1>3. at \in Nat
  BY <1>1, SchedulerAssumption DEF PromptLen
<1>4. Whole(id) = IF Snapshots # {} /\ at > o THEN at - o ELSE PromptLen(id) - o
  BY DEF Whole
<1> HIDE DEF o, at
<1> QED BY <1>1, <1>2, <1>3, <1>4

\* Sums of whole chunks.
LEMMA WholeSums ==
  ASSUME SInv, Proved!IInv, NEW S \in SUBSET DOMAIN active
  PROVE  /\ WholeOf(S) \in Nat
         /\ \A T \in SUBSET S : WholeOf(T) <= WholeOf(S)
         /\ \A id \in S : WholeOf(S) = Whole(id) + WholeOf(S \ {id})
         /\ IsFiniteSet(S) /\ Cardinality(S) \in Nat
<1> DEFINE f == [i \in DOMAIN active |-> Whole(i)]
<1>1. IsFiniteSet(S) /\ Cardinality(S) \in Nat
  BY CacheFacts, FS_Subset, FS_CardinalityType
<1>2. \A i \in S : f[i] = Whole(i) /\ f[i] \in Nat
  BY WholeNat
<1>3. \A T \in SUBSET S : WholeOf(T) = SumFunctionOnSet(f, T)
  BY DEF WholeOf
<1> HIDE DEF f
<1>4. SumFunctionOnSet(f, S) \in Nat
  BY <1>1, <1>2, SumNat
<1>5. ASSUME NEW T \in SUBSET S PROVE SumFunctionOnSet(f, T) <= SumFunctionOnSet(f, S)
  <2>1. (\A i \in T : f[i] \in Int /\ f[i] <= f[i]) /\ \A i \in S : f[i] \in Nat
    BY <1>2
  <2> QED BY <1>1, <2>1, SumLeq
<1>6. ASSUME NEW id \in S
      PROVE  SumFunctionOnSet(f, S) = f[id] + SumFunctionOnSet(f, S \ {id})
  <2>1. \A i \in S : f[i] \in Int
    BY <1>2
  <2> QED BY <1>1, <2>1, SumRemove
<1> QED BY <1>1, <1>2, <1>3, <1>4, <1>5, <1>6

\* Nothing needs nothing.
LEMMA EmptySums == WholeOf({}) = 0 /\ NeedOf({}) = 0
BY SumEmpty DEF WholeOf, NeedOf

\* Where a prompt is prefilled to decides its next chunk.
LEMMA WholeSame ==
  ASSUME SInv, Proved!IInv, NEW S \in SUBSET DOMAIN active,
         \A id \in S : id \in DOMAIN active' /\ active'[id].prefilled = active[id].prefilled
  PROVE  WholeOf(S)' = WholeOf(S)
<1> DEFINE f == [i \in DOMAIN active |-> Whole(i)]
           h == [i \in DOMAIN active' |-> Whole(i)']
<1>1. IsFiniteSet(S)
  BY CacheFacts, FS_Subset
<1>2. \A i \in S : Whole(i)' = Whole(i)
  BY DEF Whole, PromptLen
<1>3. \A i \in S : h[i] = f[i]
  BY <1>2
<1>4. WholeOf(S) = SumFunctionOnSet(f, S) /\ WholeOf(S)' = SumFunctionOnSet(h, S)
  BY DEF WholeOf
<1> HIDE DEF f, h
<1>5. SumFunctionOnSet(h, S) = SumFunctionOnSet(f, S)
  BY <1>1, <1>3, SumAgree
<1> QED BY <1>4, <1>5

\* The batch and what its chunks leave of their prompts decide whether it is within the limits.
LEMMA LimitSame ==
  ASSUME SInv, Proved!IInv, LimitPart, step # "complete",
         batch'.decode = batch.decode, batch'.prefill = batch.prefill,
         \A id \in Range(ChunkIds) :
           id \in DOMAIN active' /\ active'[id].prefilled = active[id].prefilled
  PROVE  LimitPart'
<1>1. ChunkIds' = ChunkIds /\ NumTokens' = NumTokens
  BY DEF ChunkIds, NumTokens
<1>2. Range(ChunkIds) \subseteq DOMAIN active
  BY BatchCounts
<1>3. ASSUME NEW S \in SUBSET Range(ChunkIds) PROVE WholeOf(S)' = WholeOf(S)
  BY <1>2, WholeSame
<1> DEFINE R == Range(ChunkIds)
           B(id) == Before(ChunkIds, id)
<1>4. \A id : B(id) \in SUBSET R
  BY DEF Before, Range
<1>5. Range(ChunkIds)' = R /\ \A id : Before(ChunkIds, id)' = B(id)
  BY <1>1
<1>6. WholeOf(Range(ChunkIds))' = WholeOf(R)
  <2>0. PICK S : S = R
    OBVIOUS
  <2>1. WholeOf(S)' = WholeOf(S)
    BY <1>3, <2>0
  <2> QED BY <1>5, <2>0, <2>1 DEF WholeOf
<1>7. ASSUME NEW id PROVE WholeOf(Before(ChunkIds, id))' = WholeOf(B(id))
  <2>0. PICK S : S = B(id)
    OBVIOUS
  <2>1. WholeOf(S)' = WholeOf(S)
    BY <1>3, <1>4, <2>0
  <2> QED BY <1>5, <2>0, <2>1 DEF WholeOf
<1> HIDE DEF R, B
<1>8. /\ Len(batch.decode) + Len(batch.prefill) <= MaxSeqs
      /\ \A id \in R : Len(batch.decode) + WholeOf(B(id)) < MaxTokens
      /\ NumTokens < MaxTokens => Len(batch.decode) + WholeOf(R) <= NumTokens
  BY DEF LimitPart, R, B
<1>9. /\ Len(batch'.decode) + Len(batch'.prefill) <= MaxSeqs
      /\ \A id \in Range(ChunkIds)' :
           Len(batch'.decode) + WholeOf(Before(ChunkIds, id))' < MaxTokens
      /\ NumTokens' < MaxTokens => Len(batch'.decode) + WholeOf(Range(ChunkIds))' <= NumTokens'
  BY <1>1, <1>5, <1>6, <1>7, <1>8
<1> QED BY <1>9 DEF LimitPart

\* A batch without chunks is within the limit of tokens.
LEMMA LimitDecodes ==
  ASSUME batch'.prefill = <<>>, Len(batch'.decode) \in Nat, Len(batch'.decode) <= MaxSeqs
  PROVE  LimitPart' /\ NumTokens' = Len(batch'.decode)
<1>1. ChunkIds' = <<>>
  BY DEF ChunkIds
<1>2. NumTokens' = Len(batch'.decode)
  <2> DEFINE f == [i \in DOMAIN batch'.prefill |-> batch'.prefill[i].tokens]
  <2>1. DOMAIN f = {}
    OBVIOUS
  <2>2. SumFunction(f) = SumFunctionOnSet(f, DOMAIN f)
    BY DEF SumFunction, SumFunctionOnSet, FoldFunction
  <2>3. SumFunction(f) = 0
    BY <2>1, <2>2, SumEmpty
  <2>4. NumTokens' = Len(batch'.decode) + SumFunction(f)
    BY DEF NumTokens
  <2> HIDE DEF f
  <2> QED BY <2>3, <2>4
<1>3. Range(ChunkIds)' = {}
  BY <1>1 DEF Range
<1>4. WholeOf(Range(ChunkIds))' = 0
  <2>1. WholeOf({})' = 0
    BY SumEmpty DEF WholeOf
  <2> QED BY <1>3, <2>1 DEF WholeOf
<1>5. Len(batch'.prefill) = 0
  OBVIOUS
<1>6. Len(batch'.decode) + Len(batch'.prefill) <= MaxSeqs
  BY <1>5
<1> QED BY <1>2, <1>3, <1>4, <1>6 DEF LimitPart

\* Nobody ready is due.
LEMMA DueNone ==
  ASSUME Range(prefillReady') \cap Due' = {} PROVE DuePart'
BY DEF DuePart

\* Nobody is due, or no decode is ready.
LEMMA NextNone ==
  ASSUME Due' = {} \/ decodeReady' = <<>> PROVE NextPart'
<1>1. CASE Due' = {}
  BY <1>1 DEF NextPart
<1>2. CASE decodeReady' = <<>>
  <2>1. Range(decodeReady)' = {}
    BY <1>2 DEF Range
  <2>2. NeedOf({})' = 0
    BY SumEmpty DEF NeedOf
  <2>3. NeedOf(Range(decodeReady))' = 0
    BY <2>1, <2>2 DEF NeedOf
  <2>4. Cardinality(SparePages)' \in Nat
    <3>1. SparePages' \subseteq Pages
      BY DEF SparePages
    <3> QED BY <3>1, CacheAssumption, FS_Subset, FS_CardinalityType DEF CacheAssumption
  <2> QED BY <2>3, <2>4 DEF NextPart
<1> QED BY <1>1, <1>2

\* Less held and less pinned is more to spare.
LEMMA SpareMore ==
  ASSUME HeldPages' \subseteq HeldPages, PinnedPages' \subseteq PinnedPages
  PROVE  SparePages \subseteq SparePages'
BY DEF SparePages

\* The decodes that are ready need what they needed, and as much is spare.
LEMMA NextSame ==
  ASSUME SInv, Proved!IInv, NextPart, Due' # {} => Due # {},
         Range(decodeReady') \subseteq Range(decodeReady),
              Range(decodeReady') \subseteq DOMAIN active',
         \A id \in Range(decodeReady') : seqs'[id] = seqs[id],
         SparePages \subseteq SparePages'
  PROVE  NextPart'
<1>0. PICK R, Q : R = Range(decodeReady) /\ Q = Range(decodeReady')
  OBVIOUS
<1> DEFINE f == [i \in DOMAIN active |-> ExtraNeed(i)]
           h == [i \in DOMAIN active' |-> ExtraNeed(i)']
<1>1. R \subseteq DOMAIN active /\ IsFiniteSet(R) /\ Q \in SUBSET R
  <2>1. R \subseteq DOMAIN active
    BY <1>0, BatchCounts
  <2> QED BY <1>0, <2>1, CacheFacts, FS_Subset
<1>2. \A id \in Q : ExtraNeed(id)' = ExtraNeed(id)
  BY <1>0 DEF ExtraNeed, BlocksFor
<1>3. (\A id \in Q : h[id] = f[id]) /\ \A id \in R : f[id] \in Nat
  BY <1>0, <1>1, <1>2, NeedReserved
<1>4. NeedOf(R) = SumFunctionOnSet(f, R) /\ NeedOf(Q)' = SumFunctionOnSet(h, Q)
  BY DEF NeedOf
<1> HIDE DEF f, h
<1>5. SumFunctionOnSet(h, Q) <= SumFunctionOnSet(f, R)
  <2>1. \A id \in Q : h[id] \in Int /\ h[id] <= f[id]
    BY <1>1, <1>3
  <2> QED BY <1>1, <1>3, <2>1, SumLeq
<1>6. SumFunctionOnSet(h, Q) \in Nat /\ SumFunctionOnSet(f, R) \in Nat
  <2>1. IsFiniteSet(Q) /\ \A id \in Q : h[id] \in Nat
    BY <1>1, <1>3, FS_Subset
  <2> QED BY <1>1, <1>3, <2>1, SumNat
<1>7. /\ Cardinality(SparePages) <= Cardinality(SparePages')
      /\ Cardinality(SparePages) \in Nat /\ Cardinality(SparePages') \in Nat
  <2>1. SparePages' \subseteq Pages
    BY DEF SparePages
  <2> QED BY <2>1, SpareFinite, CacheAssumption, FS_Subset, FS_CardinalityType DEF CacheAssumption
<1>8. ASSUME Due' # {} PROVE NeedOf(Q)' <= Cardinality(SparePages')
  <2>1. NeedOf(R) <= Cardinality(SparePages)
    BY <1>0, <1>8 DEF NextPart
  <2> QED BY <1>4, <1>5, <1>6, <1>7, <2>1
<1>9. NeedOf(Range(decodeReady))' = NeedOf(Q)'
  BY <1>0 DEF NeedOf
<1> QED BY <1>8, <1>9 DEF NextPart

\* The sizes after a step, too.
LEMMA BatchCountsNext ==
  SInv' => (/\ NumTokens \in Nat /\ Len(batch.decode) \in Nat /\ Len(batch.prefill) \in Nat
            /\ Len(decodeReady) \in Nat)'
<1>1. SInv => /\ NumTokens \in Nat /\ Len(batch.decode) \in Nat /\ Len(batch.prefill) \in Nat
              /\ Len(decodeReady) \in Nat
  BY BatchCounts
<1> QED BY <1>1, PTL

\* The next batch keeps a place for those that wait for a restore, when no more goes before them.
LEMMA DueSame ==
  ASSUME SInv, Proved!IInv, SInv', Proved!IInv', DuePart, ~Launched',
         Range(prefillReady') \cap Due' \subseteq Range(prefillReady) \cap Due,
         \A id \in Range(prefillReady') :
           Before(prefillReady', id) \subseteq Before(prefillReady, id)
           /\ active'[id].prefilled = active[id].prefilled,
         Len(decodeReady') + Len(batch'.decode) + Len(batch'.prefill)
           <= Len(decodeReady) + Len(batch.decode) + Len(batch.prefill),
         Len(decodeReady') + NumTokens' <= Len(decodeReady) + NumTokens
  PROVE  DuePart'
<1>1. ASSUME NEW id \in Range(prefillReady') \cap Due' PROVE PlaceLeft(id)'
  <2>0. PICK A, B : A = Before(prefillReady, id) /\ B = Before(prefillReady', id)
    OBVIOUS
  <2>1. PlaceLeft(id)
    BY <1>1 DEF DuePart
  <2>2. /\ Len(decodeReady) + Len(batch.decode) + Len(batch.prefill) + Cardinality(A) < MaxSeqs
        /\ Len(decodeReady) + NumTokens + WholeOf(A) < MaxTokens
    BY <2>0, <2>1 DEF PlaceLeft
  <2>3. A \subseteq Range(prefillReady) /\ B \subseteq Range(prefillReady')
    BY <2>0 DEF Before, Range
  <2>4. Range(prefillReady) \subseteq DOMAIN active /\ Range(prefillReady') \subseteq DOMAIN active'
    BY BatchCounts DEF SInv, QueuePart, WithPhase
  <2>5. B \in SUBSET A /\ A \in SUBSET DOMAIN active /\ B \in SUBSET DOMAIN active
    BY <1>1, <2>0, <2>3, <2>4
  <2>6. WholeOf(B)' = WholeOf(B)
    <3>1. \A i \in B : i \in DOMAIN active' /\ active'[i].prefilled = active[i].prefilled
      BY <2>3, <2>4
    <3> QED BY <2>5, <3>1, WholeSame
  <2>7. /\ WholeOf(B) <= WholeOf(A) /\ WholeOf(B) \in Nat /\ WholeOf(A) \in Nat
        /\ Cardinality(B) <= Cardinality(A) /\ Cardinality(B) \in Nat /\ Cardinality(A) \in Nat
    BY <2>5, WholeSums, FS_Subset
  <2>8. WholeOf(Before(prefillReady, id))' = WholeOf(B)
    BY <2>0, <2>6 DEF WholeOf
  <2>9. /\ NumTokens \in Nat /\ Len(batch.decode) \in Nat /\ Len(batch.prefill) \in Nat
        /\ Len(decodeReady) \in Nat /\ MaxSeqs \in Nat /\ MaxTokens \in Nat
    BY BatchCounts, SchedulerAssumption
  <2>10. /\ NumTokens' \in Nat /\ Len(batch'.decode) \in Nat /\ Len(batch'.prefill) \in Nat
         /\ Len(decodeReady') \in Nat
    BY BatchCountsNext
  <2>11. /\ Len(decodeReady') + Len(batch'.decode) + Len(batch'.prefill) + Cardinality(B) < MaxSeqs
         /\ Len(decodeReady') + NumTokens' + WholeOf(B) < MaxTokens
    <3>1. \A a, a1, b, b1, m \in Nat : a1 <= a /\ b1 <= b /\ a + b < m => a1 + b1 < m
      OBVIOUS
    <3> DEFINE n == Len(decodeReady) + Len(batch.decode) + Len(batch.prefill)
               n1 == Len(decodeReady') + Len(batch'.decode) + Len(batch'.prefill)
               t == Len(decodeReady) + NumTokens
               t1 == Len(decodeReady') + NumTokens'
    <3>2. n \in Nat /\ n1 \in Nat /\ t \in Nat /\ t1 \in Nat
      <4>1. \A x, y, z \in Nat : x + y \in Nat /\ x + y + z \in Nat
        OBVIOUS
      <4> QED BY <2>9, <2>10, <4>1, Zenon
    <3>3. n1 <= n /\ t1 <= t
      OBVIOUS
    <3>4. n + Cardinality(A) < MaxSeqs /\ t + WholeOf(A) < MaxTokens
      BY <2>2
    <3> HIDE DEF n, n1, t, t1
    <3>5. n1 + Cardinality(B) < MaxSeqs /\ t1 + WholeOf(B) < MaxTokens
      BY <2>7, <2>9, <3>1, <3>2, <3>3, <3>4
    <3> QED BY <3>5 DEF n1, t1
  <2> QED BY <2>0, <2>8, <2>11 DEF PlaceLeft
<1> QED BY <1>1 DEF DuePart

-----------------------------------------------------------------------------
(* The steps of the loops, of the queues and of the executor.              *)

\* A step that leaves the requests, the ready queues, and the decodes and chunks of the batch.
LEMMA QuietBatch ==
  ASSUME SInv, Proved!IInv, RInv, SInv', Proved!IInv', step # "complete",
         UNCHANGED <<active, prefillReady, decodeReady>>, LoopPart',
         batch'.decode = batch.decode, batch'.prefill = batch.prefill,
         Launched' => Range(prefillReady) \cap Due = {},
         UNCHANGED <<seqs, entries>> \/ Due = {} \/ decodeReady = <<>>
  PROVE  RInv'
<1>1. MapPart'
  BY DEF RInv, MapPart
<1>2. LimitPart'
  <2>1. \A id \in Range(ChunkIds) : id \in DOMAIN active
    BY BatchCounts
  <2> QED BY <2>1, LimitSame DEF RInv
<1>3. Due' = Due
  BY DEF Due
<1>4. DuePart'
  <2>1. CASE Launched'
    BY <1>3, <2>1, DueNone
  <2>2. CASE ~Launched'
    <3>1. NumTokens' = NumTokens
      BY DEF NumTokens
    <3>2. Len(decodeReady) \in Nat /\ NumTokens \in Nat /\ Len(batch.decode) \in Nat
          /\ Len(batch.prefill) \in Nat
      BY BatchCounts
    <3>3. /\ Len(decodeReady') + Len(batch'.decode) + Len(batch'.prefill)
               <= Len(decodeReady) + Len(batch.decode) + Len(batch.prefill)
          /\ Len(decodeReady') + NumTokens' <= Len(decodeReady) + NumTokens
      BY <3>1, <3>2
    <3>4. \A id \in Range(prefillReady') :
            /\ Before(prefillReady', id) \subseteq Before(prefillReady, id)
            /\ active'[id].prefilled = active[id].prefilled
      OBVIOUS
    <3>5. Range(prefillReady') \cap Due' \subseteq Range(prefillReady) \cap Due
      BY <1>3
    <3> QED BY <2>2, <3>3, <3>4, <3>5, DueSame DEF RInv
  <2> QED BY <2>1, <2>2
<1>5. NextPart'
  <2>1. CASE Due = {} \/ decodeReady = <<>>
    BY <1>3, <2>1, NextNone
  <2>2. CASE UNCHANGED <<seqs, entries>>
    <3>1. seqs' = seqs /\ entries' = entries
      BY <2>2
    <3>2. HeldPages' \subseteq HeldPages /\ PinnedPages' \subseteq PinnedPages
      BY <3>1 DEF HeldPages, PinnedPages, SeqPages, EntryPages
    <3>3. Range(decodeReady') \subseteq DOMAIN active'
      BY BatchCounts
    <3> QED BY <1>3, <3>1, <3>2, <3>3, SpareMore, NextSame DEF RInv
  <2> QED BY <2>1, <2>2
<1> QED BY <1>1, <1>2, <1>4, <1>5 DEF RInv

\* A step that leaves the requests, the ready queues and the batch alone.
LEMMA QuietStep ==
  ASSUME SInv, Proved!IInv, RInv, SInv', Proved!IInv', step # "complete",
         UNCHANGED <<active, batch, prefillReady, decodeReady>>, LoopPart',
         Launched' => Range(prefillReady) \cap Due = {},
         UNCHANGED cacheVars \/ Due = {} \/ decodeReady = <<>>
  PROVE  RInv'
<1>1. batch'.decode = batch.decode /\ batch'.prefill = batch.prefill
  OBVIOUS
<1>2. UNCHANGED <<seqs, entries>> \/ Due = {} \/ decodeReady = <<>>
  BY DEF cacheVars
<1> QED BY <1>1, <1>2, QuietBatch

\* The steps of the loops themselves.
LEMMA LoopReserve ==
  ASSUME SInv, Proved!IInv, RInv, SInv', Proved!IInv',
         \/ BeginBatch \/ DecodePlanned \/ BeginAdmission \/ EndAdmission \/ EndBatch
         \/ BeginAbort
  PROVE  RInv'
<1>1. UNCHANGED <<active, batch, prefillReady, decodeReady, cacheVars>>
  BY DEF BeginBatch, DecodePlanned, BeginAdmission, EndAdmission, EndBatch, BeginAbort, queueVars
<1>2. step # "complete"
  BY DEF BeginBatch, DecodePlanned, BeginAdmission, EndAdmission, EndBatch, BeginAbort
<1>3. (Room' <=> Room)
  BY <1>1 DEF Room, NumTokens
<1>4. LoopPart
  BY DEF RInv
<1>5. decodeReady \in Seq(Ids) /\ Len(decodeReady) \in Nat /\ left \in Nat
  BY BatchCounts DEF SInv, StepPart
<1>6. CASE BeginBatch
  <2>1. batch.prefill = <<>> /\ step' = "decode" /\ left' = Len(decodeReady)
    BY <1>6 DEF BeginBatch, SInv, StepPart, NoBatch
  <2>2. LoopPart'
    BY <1>1, <2>1 DEF LoopPart
  <2>3. ~Launched'
    BY <2>1 DEF Launched
  <2> QED BY <1>1, <1>2, <2>2, <2>3, QuietStep
<1>7. CASE DecodePlanned
  <2>1. batch.prefill = <<>> /\ step' = "prefill" /\ left = Len(decodeReady) /\ (left = 0 \/ ~Room)
    BY <1>4, <1>7 DEF DecodePlanned, SInv, StepPart, LoopPart
  <2>2. Room => decodeReady = <<>>
    BY <1>5, <2>1, EmptySeq
  <2>3. LoopPart'
    BY <1>1, <1>3, <2>1, <2>2 DEF LoopPart
  <2>4. ~Launched'
    BY <2>1 DEF Launched
  <2> QED BY <1>1, <1>2, <2>3, <2>4, QuietStep
<1>8. CASE BeginAdmission
  <2>1. step' = "admit" /\ prefillReady = <<>> /\ decodeReady = <<>> /\ Room
    BY <1>4, <1>8 DEF BeginAdmission, LoopPart
  <2>2. LoopPart'
    BY <1>1, <1>3, <2>1 DEF LoopPart
  <2>3. ~Launched'
    BY <2>1 DEF Launched
  <2> QED BY <1>1, <1>2, <2>2, <2>3, QuietStep
<1>9. CASE EndAdmission
  <2>1. step' = "close" /\ prefillReady = <<>> /\ decodeReady = <<>>
    BY <1>4, <1>9 DEF EndAdmission, LoopPart
  <2>2. LoopPart'
    BY <1>1, <2>1 DEF LoopPart
  <2>3. ~Launched'
    BY <2>1 DEF Launched
  <2> QED BY <1>1, <1>2, <2>2, <2>3, QuietStep
<1>10. CASE EndBatch
  <2>1. step' \in {"idle", "flight"} /\ (step = "close" \/ (step = "prefill" /\ ~Room))
    BY <1>10 DEF EndBatch
  <2>2. LoopPart'
    BY <1>1, <1>2, <1>4, <2>1 DEF LoopPart
  <2>3. Range(prefillReady) \cap Due = {}
    <3>1. CASE step = "close"
      <4>1. prefillReady = <<>>
        BY <1>4, <3>1 DEF LoopPart
      <4> QED BY <4>1 DEF Range
    <3>2. CASE step = "prefill" /\ ~Room
      <4> SUFFICES ASSUME NEW id \in Range(prefillReady) \cap Due PROVE Room
        BY <3>2
      <4>1. PlaceLeft(id)
        BY DEF RInv, DuePart
      <4>0. PICK A : A = Before(prefillReady, id)
        OBVIOUS
      <4>2. /\ Len(decodeReady) + Len(batch.decode) + Len(batch.prefill) + Cardinality(A) < MaxSeqs
            /\ Len(decodeReady) + NumTokens + WholeOf(A) < MaxTokens
        BY <4>0, <4>1 DEF PlaceLeft
      <4>3. A \in SUBSET DOMAIN active
        BY <4>0, BatchCounts DEF Before, Range
      <4>4. WholeOf(A) \in Nat /\ Cardinality(A) \in Nat
        BY <4>3, WholeSums
      <4>5. /\ NumTokens \in Nat /\ Len(batch.decode) \in Nat /\ Len(batch.prefill) \in Nat
            /\ MaxSeqs \in Nat /\ MaxTokens \in Nat
        BY BatchCounts, SchedulerAssumption
      <4>6. \A a, b, c, d, m \in Nat : (a + b + c + d < m => b + c < m) /\ (a + b + d < m => b < m)
        OBVIOUS
      <4>7. Len(batch.decode) + Len(batch.prefill) < MaxSeqs /\ NumTokens < MaxTokens
        BY <1>5, <4>2, <4>4, <4>5, <4>6, Zenon
      <4> QED BY <4>7 DEF Room
    <3> QED BY <2>1, <3>1, <3>2
  <2> QED BY <1>1, <1>2, <2>2, <2>3, QuietStep
<1>11. CASE BeginAbort
  <2>1. step = "flight" /\ step' = "abort"
    BY <1>11 DEF BeginAbort
  <2>2. LoopPart'
    BY <1>1, <1>4, <2>1 DEF LoopPart
  <2>3. Range(prefillReady) \cap Due = {}
    BY <2>1 DEF RInv, DuePart, Launched
  <2> QED BY <1>1, <1>2, <2>2, <2>3, QuietStep
<1> QED BY <1>6, <1>7, <1>8, <1>9, <1>10, <1>11

\* Completion begins with what was in flight.
LEMMA CompleteReserve ==
  ASSUME SInv, Proved!IInv, RInv, SInv', Proved!IInv', BeginComplete
  PROVE  RInv'
<1>1. UNCHANGED <<active, batch, prefillReady, decodeReady, cacheVars>>
  BY DEF BeginComplete, queueVars
<1>2. step = "flight" /\ step' = "complete"
  BY DEF BeginComplete
<1>3. LoopPart'
  BY <1>1, <1>2 DEF RInv, LoopPart
<1>4. Range(prefillReady) \cap Due = {}
  BY <1>2 DEF RInv, DuePart, Launched
<1> QED BY <1>1, <1>2, <1>3, <1>4, QuietStep

\* The queue of those that wait is nobody else's concern.
LEMMA WaitingReserve ==
  ASSUME SInv, Proved!IInv, RInv, SInv', Proved!IInv', NEW id \in Ids,
         Submit(id) \/ CancelWaiting(id)
  PROVE  RInv'
<1>1. UNCHANGED <<active, batch, prefillReady, decodeReady, cacheVars, step, left>>
  BY DEF Submit, CancelWaiting
<1>2. step # "complete"
  BY DEF Submit, CancelWaiting
<1>3. LoopPart'
  BY <1>1 DEF RInv, LoopPart, Room, NumTokens
<1>4. Launched' => Range(prefillReady) \cap Due = {}
  BY <1>1 DEF RInv, DuePart, Launched
<1> QED BY <1>1, <1>2, <1>3, <1>4, QuietStep

\* A request that is passed over evicts nothing that anybody needs: no decode waits for it.
LEMMA PassOverReserve ==
  ASSUME SInv, Proved!IInv, RInv, SInv', Proved!IInv', PassOver
  PROVE  RInv'
<1>1. UNCHANGED <<active, batch, prefillReady, decodeReady, step>> /\ step = "admit"
  BY DEF PassOver, Rotate
<1>2. decodeReady = <<>> /\ prefillReady = <<>> /\ Room
  BY <1>1 DEF RInv, LoopPart
<1>3. LoopPart'
  BY <1>1, <1>2 DEF LoopPart, Room, NumTokens
<1>4. ~Launched'
  BY <1>1 DEF Launched
<1> QED BY <1>1, <1>2, <1>3, <1>4, QuietStep

\* While a batch without chunks is in flight no restore is due.
LEMMA NoneDue ==
  ASSUME SInv, RInv, step \in {"flight", "complete"}, ChunkIds = <<>> \/ batch.restores = <<>>
  PROVE  Due = {}
<1> SUFFICES ASSUME NEW id \in DOMAIN active, active[id].restore # {} PROVE FALSE
  BY DEF Due
<1>1. Known(id)
  BY RequestFacts DEF SInv
<1>2. CASE active[id].phase = "PrefillReady"
  <2>1. id \in Range(prefillReady) /\ id \in Due
    BY <1>2 DEF SInv, QueuePart, WithPhase, Due
  <2>2. Launched
    BY DEF Launched
  <2> QED BY <2>1, <2>2 DEF RInv, DuePart
<1>3. CASE active[id].phase = "PrefillInFlight"
  <2>1. id \in Range(ChunkIds)
    BY <1>3 DEF SInv, BatchPart, WithPhase
  <2>2. CASE ChunkIds = <<>>
    BY <2>1, <2>2 DEF Range
  <2>3. CASE batch.restores = <<>>
    <3>1. PICK op \in active[id].restore : TRUE
      OBVIOUS
    <3>2. [id |-> id, op |-> op] \in Range(batch.restores)
      BY <2>1 DEF SInv, RestorePart
    <3> QED BY <2>3, <3>2 DEF Range
  <2> QED BY <2>2, <2>3
<1> QED BY <1>1, <1>2, <1>3 DEF Known

\* Drafts are for a single decode: nobody is due meanwhile.
LEMMA ExtraReserve ==
  ASSUME SInv, Proved!IInv, RInv, SInv', Proved!IInv', ReserveExtra \/ ReleaseExtra
  PROVE  RInv'
<1>1. UNCHANGED <<active, batch, prefillReady, decodeReady, step, left>> /\ step = "flight"
  BY DEF ReserveExtra, ReleaseExtra, queueVars
<1>2. ChunkIds = <<>>
  <2>1. PICK id \in Ids : Speculative(id)
    BY DEF ReserveExtra, ReleaseExtra
  <2>2. batch.prefill = <<>>
    BY <2>1 DEF Speculative
  <2> QED BY <2>2 DEF ChunkIds
<1>3. Due = {}
  BY <1>1, <1>2, NoneDue
<1>4. LoopPart'
  BY <1>1 DEF RInv, LoopPart, Room, NumTokens
<1> QED BY <1>1, <1>3, <1>4, QuietStep

\* Pins that are given back pin no page more.
LEMMA PinsFall ==
  ASSUME Proved!IInv, NEW S, entries' = Unpin(S)
  PROVE  PinnedPages' \subseteq PinnedPages
<1>1. \A t \in DOMAIN entries :
        entries[t] \in [tokens : Seq(Proved!Tokens), blocks : Seq(Pages), pins : Nat]
  BY DEF Proved!IInv, Proved!EntryPart
<1>2. DOMAIN entries' = DOMAIN entries
  BY DEF Unpin
<1>3. ASSUME NEW t \in DOMAIN entries
      PROVE  /\ entries'[t].blocks = entries[t].blocks
             /\ entries'[t].pins > 0 => entries[t].pins > 0
  <2>1. entries'[t] = entries[t] \/ (entries[t].pins > 0
             /\ entries'[t] = [entries[t] EXCEPT !.pins = @ - 1])
    BY DEF Unpin
  <2> QED BY <1>1, <2>1
<1> QED BY <1>2, <1>3 DEF PinnedPages, EntryPages

\* A restore that finishes is due no more, and unpins its entry.
LEMMA RestoreReserve ==
  ASSUME SInv, Proved!IInv, RInv, SInv', Proved!IInv', MapPart', CompleteRestore
  PROVE  RInv'
<1>0. PICK id, s : id = Head(batch.restores).id /\ s = Head(batch.restores).op.snapshot
  OBVIOUS
<1>1. /\ step = "complete" /\ FinishRestore(s) /\ active' = [active EXCEPT ![id].restore = {}]
      /\ UNCHANGED <<prefillReady, decodeReady, step>>
  BY <1>0 DEF CompleteRestore, queueVars
<1>2. LoopPart' /\ LimitPart'
  BY <1>1 DEF LoopPart, LimitPart
<1>3. Due' \subseteq Due /\ DOMAIN active' = DOMAIN active
  <2>1. DOMAIN active' = DOMAIN active
    BY <1>1
  <2>2. \A j \in DOMAIN active : active'[j].restore # {} => active[j].restore # {}
    <3> SUFFICES ASSUME NEW j \in DOMAIN active, active'[j].restore # {}
             PROVE active[j].restore # {}
      OBVIOUS
    <3>1. active[j] \in Record
      BY RequestFacts DEF SInv
    <3>2. CASE j = id
      BY <1>1, <3>1, <3>2 DEF Record
    <3>3. CASE j # id
      BY <1>1, <3>3
    <3> QED BY <3>2, <3>3
  <2> QED BY <2>1, <2>2 DEF Due
<1>4. DuePart'
  <2>1. Range(prefillReady) \cap Due = {}
    BY <1>1 DEF RInv, DuePart, Launched
  <2> QED BY <1>1, <1>3, <2>1, DueNone
<1>5. NextPart'
  <2>1. UNCHANGED seqs
    BY <1>1 DEF FinishRestore
  <2>2. PinnedPages' \subseteq PinnedPages
    <3>1. entries' = Unpin({s})
      BY <1>1 DEF FinishRestore
    <3> QED BY <3>1, PinsFall
  <2>3. HeldPages' \subseteq HeldPages
    BY <2>1 DEF HeldPages, SeqPages
  <2>4. Range(decodeReady') \subseteq DOMAIN active'
    BY <1>1, <1>3, BatchCounts
  <2> QED BY <1>1, <1>3, <2>1, <2>2, <2>3, <2>4, SpareMore, NextSame DEF RInv
<1> QED BY <1>2, <1>4, <1>5 DEF RInv

-----------------------------------------------------------------------------
(* Completion.                                                             *)

\* While a batch is completed and after it, without a restore due.
LEMMA CompletedStep ==
  ASSUME SInv, RInv, MapPart', Due' = {}, step' = "complete" \/ (step' = "idle" /\ NoBatch')
  PROVE  RInv'
<1>1. CASE step' = "complete"
  BY <1>1, DueNone, NextNone DEF RInv, LoopPart, LimitPart
<1>2. CASE step' = "idle" /\ NoBatch'
  <2>1. batch'.prefill = <<>> /\ batch'.decode = <<>>
    BY <1>2 DEF NoBatch
  <2>2. LoopPart'
    BY <1>2, <2>1 DEF LoopPart
  <2>3. Len(batch'.decode) \in Nat /\ Len(batch'.decode) <= MaxSeqs
    BY <2>1, SchedulerAssumption
  <2>4. LimitPart'
    BY <2>1, <2>3, LimitDecodes
  <2> QED BY <2>2, <2>4, DueNone, NextNone DEF RInv
<1> QED BY <1>1, <1>2

\* A batch ends when nothing is left of it.
LEMMA RestStep ==
  ASSUME step' = Rest(batch') PROVE step' = step \/ (step' = "idle" /\ NoBatch')
BY DEF Rest, NoBatch

\* Saves, chunks and decodes are completed after the restores: nobody is due any more.
LEMMA FinishReserve ==
  ASSUME SInv, Proved!IInv, RInv, MapPart', CompleteSave \/ CompleteChunk \/ CompleteDecode
  PROVE  RInv'
<1>1. step = "complete" /\ batch.restores = <<>>
  BY Zenon DEF CompleteSave, CompleteChunk, CompleteDecode
<1>2. Due = {}
  BY <1>1, NoneDue
<1>3. \A id \in DOMAIN active : active[id] \in Record /\ active[id].restore = {}
  BY <1>2, RequestFacts DEF SInv, Due
<1>4. CASE CompleteSave
  <2>1. active' = active /\ step' = "complete"
    BY <1>1, <1>4 DEF CompleteSave
  <2>2. Due' = {}
    BY <1>2, <2>1 DEF Due
  <2> QED BY <2>1, <2>2, CompletedStep
<1>5. CASE CompleteChunk
  <2>0. PICK id, n : id = Head(batch.prefill).id
             /\ n = active[id].prefilled + Head(batch.prefill).tokens
    OBVIOUS
  <2>1. PICK p \in {"DecodeReady", "PrefillReady"} :
          active' = [active EXCEPT ![id].prefilled = n, ![id].phase = p]
    BY Zenon, <1>5, <2>0 DEF CompleteChunk
  <2>2. DOMAIN active' = DOMAIN active
             /\ \A j \in DOMAIN active : active'[j].restore = active[j].restore
    <3>1. DOMAIN active' = DOMAIN active
      BY <2>1
    <3>2. ASSUME NEW j \in DOMAIN active PROVE active'[j].restore = active[j].restore
      <4>1. CASE j = id
        BY <1>3, <2>1, <4>1 DEF Record
      <4>2. CASE j # id
        BY <2>1, <4>2
      <4> QED BY <4>1, <4>2
    <3> QED BY <3>1, <3>2
  <2>3. Due' = {}
    BY <1>3, <2>2 DEF Due
  <2>4. step' = Rest(batch')
    BY Zenon, <1>5 DEF CompleteChunk
  <2>5. step' = "complete" \/ (step' = "idle" /\ NoBatch')
    BY <1>1, <2>4, RestStep
  <2> QED BY <2>3, <2>5, CompletedStep
<1>6. CASE CompleteDecode
  <2>0. PICK id, n : id = Head(batch.decode) /\ n = Generated(id)
    OBVIOUS
  <2>1. \/ active' = Without(active, {id})
        \/ active' = [active EXCEPT ![id].generated = n, ![id].phase = "DecodeReady"]
    BY <1>6, <2>0 DEF CompleteDecode, Deactivate
  <2>2. DOMAIN active' \subseteq DOMAIN active
             /\ \A j \in DOMAIN active' : active'[j].restore = active[j].restore
    <3>1. CASE active' = Without(active, {id})
      BY <3>1 DEF Without
    <3>2. CASE active' = [active EXCEPT ![id].generated = n, ![id].phase = "DecodeReady"]
      <4>1. DOMAIN active' = DOMAIN active
        BY <3>2
      <4>2. ASSUME NEW j \in DOMAIN active PROVE active'[j].restore = active[j].restore
        <5>1. CASE j = id
          BY <1>3, <3>2, <5>1 DEF Record
        <5>2. CASE j # id
          BY <3>2, <5>2
        <5> QED BY <5>1, <5>2
      <4> QED BY <4>1, <4>2
    <3> QED BY <2>1, <3>1, <3>2
  <2>3. Due' = {}
    BY <1>3, <2>2 DEF Due
  <2>4. step' = Rest(batch')
    BY <1>6 DEF CompleteDecode
  <2>5. step' = "complete" \/ (step' = "idle" /\ NoBatch')
    BY <1>1, <2>4, RestStep
  <2> QED BY <2>3, <2>5, CompletedStep
<1> QED BY <1>4, <1>5, <1>6

\* A save that is given up.
LEMMA AbortSaveReserve ==
  ASSUME SInv, Proved!IInv, RInv, SInv', Proved!IInv', AbortSave
  PROVE  RInv'
<1>1. /\ step = "abort" /\ batch.saves # <<>>
      /\ UNCHANGED <<active, prefillReady, decodeReady, step, left, seqs, entries>>
  BY DEF AbortSave, CancelSnapshot, queueVars
<1>2. batch'.decode = batch.decode /\ batch'.prefill = batch.prefill
  BY BatchCounts DEF AbortSave, BatchType
<1>3. batch.prefill # <<>>
  <2>1. PICK save \in Range(batch.saves) : TRUE
    <3>1. batch.saves \in Seq(SaveCall)
      BY BatchCounts DEF BatchType
    <3>2. Head(batch.saves) \in Range(batch.saves)
      BY <1>1, <3>1, QueueTail DEF SInv, SavePart
    <3> QED BY <3>2
  <2>2. save.id \in Range(ChunkIds)
    BY <2>1 DEF SInv, SavePart
  <2>3. batch.prefill = <<>> => ChunkIds = <<>>
    BY DEF ChunkIds
  <2>4. ChunkIds = <<>> => Range(ChunkIds) = {}
    BY DEF Range
  <2> QED BY <2>2, <2>3, <2>4
<1>4. Range(prefillReady) \cap Due = {}
  BY <1>1, <1>3 DEF RInv, DuePart, Launched
<1>5. LoopPart'
  BY <1>1, <1>2 DEF RInv, LoopPart
<1> QED BY <1>1, <1>2, <1>4, <1>5, QuietBatch

\* A request that is cancelled leaves its pages and its pins to the others.
LEMMA CancelReserve ==
  ASSUME SInv, Proved!IInv, RInv, SInv', Proved!IInv', MapPart', NEW id \in Ids, CancelActive(id)
  PROVE  RInv'
<1>0. PICK due : due = {r.snapshot : r \in active[id].restore}
  OBVIOUS
<1>1. /\ step \in {"idle", "flight"} /\ id \in DOMAIN active /\ ~InBatch(id)
      /\ Release(id, due) /\ active' = Without(active, {id})
      /\ prefillReady' = Retained(prefillReady, id) /\ decodeReady' = Retained(decodeReady, id)
      /\ UNCHANGED <<batch, step, left>>
  BY <1>0 DEF CancelActive, Deactivate
<1>2. /\ DOMAIN active' = DOMAIN active \ {id}
      /\ \A j \in DOMAIN active' : active'[j] = active[j]
  BY <1>1 DEF Without
<1>3. /\ Len(decodeReady') <= Len(decodeReady) /\ Len(decodeReady') \in Nat
      /\ Range(decodeReady') = Range(decodeReady) \ {id}
      /\ Range(prefillReady') = Range(prefillReady) \ {id}
      /\ \A y : Before(prefillReady', y) \subseteq Before(prefillReady, y)
  <2>1. decodeReady \in Seq(Ids) /\ IsInjective(decodeReady)
        /\ prefillReady \in Seq(Ids) /\ IsInjective(prefillReady)
    BY BatchCounts
  <2>2. Retained(decodeReady, id) \in Seq(Ids)
        /\ Len(Retained(decodeReady, id)) <= Len(decodeReady)
        /\ Range(Retained(decodeReady, id)) = Range(decodeReady) \ {id}
    BY <2>1, RetainedQueue
  <2>3. Range(Retained(prefillReady, id)) = Range(prefillReady) \ {id}
        /\ \A y : Before(Retained(prefillReady, id), y) \subseteq Before(prefillReady, y)
    BY <2>1, RetainedQueue
  <2>4. Len(Retained(decodeReady, id)) \in Nat
    BY <2>2, LenProperties
  <2> QED BY <1>1, <2>2, <2>3, <2>4
<1>4. LoopPart'
  <2>1. decodeReady = <<>> => decodeReady' = <<>>
    <3>1. ASSUME decodeReady = <<>> PROVE decodeReady' = <<>>
      <4>1. Len(decodeReady) = 0
        BY <3>1
      <4>2. Len(decodeReady') = 0
        BY <1>3, <4>1
      <4>3. decodeReady' \in Seq(Ids)
        BY DEF SInv, QueuePart
      <4> QED BY <4>2, <4>3, EmptySeq
    <3> QED BY <3>1
  <2> QED BY <1>1, <2>1 DEF RInv, LoopPart
<1>5. LimitPart'
  <2>1. \A j \in Range(ChunkIds) : j \in DOMAIN active'
             /\ active'[j].prefilled = active[j].prefilled
    <3>1. Range(ChunkIds) \subseteq DOMAIN active /\ id \notin Range(ChunkIds)
      BY <1>1, BatchCounts DEF InBatch
    <3> QED BY <1>2, <3>1
  <2> QED BY <1>1, <2>1, LimitSame DEF RInv
<1>6. Due' = Due \ {id}
  BY <1>2 DEF Due
<1>7. DuePart'
  <2>1. CASE Launched'
    <3>1. Launched
      BY <1>1, <2>1 DEF Launched
    <3> QED BY <1>3, <1>6, <3>1, DueNone DEF RInv, DuePart
  <2>2. CASE ~Launched'
    <3>1. NumTokens' = NumTokens
      BY <1>1 DEF NumTokens
    <3>2. /\ Len(decodeReady') + Len(batch'.decode) + Len(batch'.prefill)
               <= Len(decodeReady) + Len(batch.decode) + Len(batch.prefill)
          /\ Len(decodeReady') + NumTokens' <= Len(decodeReady) + NumTokens
      <4>1. Len(decodeReady) \in Nat /\ NumTokens \in Nat /\ Len(batch.decode) \in Nat
            /\ Len(batch.prefill) \in Nat
        BY BatchCounts
      <4>2. \A a, b, c, d \in Nat : a <= b => a + c + d <= b + c + d /\ a + c <= b + c
        OBVIOUS
      <4> QED BY <1>1, <1>3, <3>1, <4>1, <4>2, Zenon
    <3>3. \A j \in Range(prefillReady') :
            /\ Before(prefillReady', j) \subseteq Before(prefillReady, j)
            /\ active'[j].prefilled = active[j].prefilled
      <4>1. Range(prefillReady') \subseteq DOMAIN active'
        BY <1>2, <1>3, BatchCounts
      <4> QED BY <1>2, <1>3, <4>1
    <3>4. Range(prefillReady') \cap Due' \subseteq Range(prefillReady) \cap Due
      BY <1>3, <1>6
    <3> QED BY <2>2, <3>2, <3>3, <3>4, DueSame DEF RInv
  <2> QED BY <2>1, <2>2
<1>8. NextPart'
  <2>1. seqs' = Without(seqs, {id}) /\ entries' = Unpin(due)
    BY <1>1 DEF Release
  <2>2. DOMAIN seqs' = DOMAIN seqs \ {id} /\ \A j \in DOMAIN seqs' : seqs'[j] = seqs[j]
    BY <2>1 DEF Without
  <2>3. HeldPages' \subseteq HeldPages
    BY <2>2 DEF HeldPages, SeqPages
  <2>4. PinnedPages' \subseteq PinnedPages
    BY <2>1, PinsFall
  <2>5. Range(decodeReady') \subseteq DOMAIN active'
             /\ Range(decodeReady') \subseteq Range(decodeReady)
    BY <1>2, <1>3, BatchCounts
  <2>6. \A j \in Range(decodeReady') : seqs'[j] = seqs[j]
    BY <1>2, <2>2, <2>5, CacheFacts
  <2>7. Due' # {} => Due # {}
    BY <1>6
  <2> QED BY <2>3, <2>4, <2>5, <2>6, <2>7, SpareMore, NextSame DEF RInv
<1> QED BY <1>4, <1>5, <1>7, <1>8 DEF RInv

-----------------------------------------------------------------------------
(* Decodes.                                                                *)

\* A growing sequence takes at most the pages it needs out of what is spare, and unpins nothing.
LEMMA GrowthTakes ==
  ASSUME SInv, Proved!IInv, NEW id \in DOMAIN active, AppendToken(id)
  PROVE  Cardinality(SparePages) - ExtraNeed(id) <= Cardinality(SparePages')
<1> DEFINE n == ExtraNeed(id)
<1>1. n \in Nat
  BY NeedReserved
<1>2. id \in DOMAIN seqs /\ seqs[id] \in [slot : Slots, blocks : Seq(Pages), tokens : Nat]
  BY CacheFacts
<1>3. PICK V, fresh :
        /\ V \in SUBSET PageCandidates({}) /\ fresh \in Tables(n, freePages \cup Freed(V))
        /\ n <= Cardinality(freePages \cup Freed(V))
        /\ seqs' = [seqs EXCEPT ![id].tokens = @ + 1, ![id].blocks = @ \o fresh]
        /\ entries' = Without(entries, V)
  BY DEF AppendToken, AcquireBlocks
<1> HIDE DEF n
<1>4. freePages \cup Freed(V) \subseteq Pages
  <2>1. freePages \subseteq Pages
    BY DEF Proved!IInv, Proved!PagePart
  <2> QED BY <2>1 DEF Freed
<1>5. /\ fresh \in Seq(Pages) /\ IsFiniteSet(Range(fresh))
      /\ Cardinality(Range(fresh)) \in Nat /\ Cardinality(Range(fresh)) <= n
  <2> DEFINE S == freePages \cup Freed(V)
  <2>1. S \in SUBSET Pages /\ fresh \in Tables(n, S) /\ n <= Cardinality(S)
    BY <1>3, <1>4
  <2> HIDE DEF S
  <2>2. Cardinality(S) <= Cardinality(Pages) /\ Cardinality(S) \in Nat /\ Cardinality(Pages) \in Nat
    BY <2>1, CacheAssumption, FS_Subset, FS_CardinalityType DEF CacheAssumption
  <2>3. n \in 0..Cardinality(Pages)
    BY <1>1, <2>1, <2>2
  <2>4. fresh \in Injection(1..n, S)
    BY <2>1, <2>3, TablesAssumption DEF TablesAssumption
  <2>5. fresh \in Seq(S) /\ Len(fresh) = n
    BY <1>1, <2>4, TableIsSeq
  <2>6. fresh \in Seq(Pages)
    BY <2>1, <2>5, SeqMonotonic
  <2> QED BY <2>5, <2>6, RangeCount, FS_CardinalityType
<1>6. HeldPages' \subseteq HeldPages \cup Range(fresh)
  <2>1. DOMAIN seqs' = DOMAIN seqs
    BY <1>3
  <2>2. ASSUME NEW j \in DOMAIN seqs PROVE SeqPages(j)' \subseteq HeldPages \cup Range(fresh)
    <3>1. SeqPages(j) \subseteq HeldPages
      BY <2>2 DEF HeldPages
    <3>2. CASE j = id
      <4>1. seqs'[id].blocks = seqs[id].blocks \o fresh
        BY <1>2, <1>3
      <4>2. seqs[id].blocks \in Seq(Pages)
        BY <1>2
      <4>3. Range(seqs[id].blocks \o fresh) = Range(seqs[id].blocks) \cup Range(fresh)
        BY <1>5, <4>2, JoinRange
      <4> QED BY <3>1, <3>2, <4>1, <4>3 DEF SeqPages
    <3>3. CASE j # id
      <4>1. seqs'[j] = seqs[j]
        BY <1>3, <3>3
      <4> QED BY <3>1, <4>1 DEF SeqPages
    <3> QED BY <3>2, <3>3
  <2> QED BY <2>1, <2>2 DEF HeldPages
<1>7. PinnedPages' \subseteq PinnedPages
  <2>1. DOMAIN entries' \subseteq DOMAIN entries
             /\ \A s \in DOMAIN entries' : entries'[s] = entries[s]
    BY <1>3 DEF Without
  <2> QED BY <2>1 DEF PinnedPages, EntryPages
<1>8. SparePages \ Range(fresh) \subseteq SparePages'
  BY <1>6, <1>7 DEF SparePages
<1>9. Cardinality(SparePages) <= Cardinality(SparePages') + n
  <2> DEFINE A == SparePages
             B == SparePages'
             F == Range(fresh)
  <2>1. IsFiniteSet(A) /\ IsFiniteSet(B) /\ IsFiniteSet(F) /\ A \ F \subseteq B
    <3>1. IsFiniteSet(SparePages')
      <4>1. SparePages' \subseteq Pages
        BY DEF SparePages
      <4> QED BY <4>1, CacheAssumption, FS_Subset DEF CacheAssumption
    <3> QED BY <1>5, <1>8, <3>1, SpareFinite
  <2>2. Cardinality(F) <= n /\ Cardinality(F) \in Nat
    BY <1>5
  <2> HIDE DEF A, B, F
  <2>3. A \subseteq B \cup F
    BY <2>1
  <2>4. /\ IsFiniteSet(B \cup F) /\ Cardinality(A) <= Cardinality(B \cup F)
        /\ Cardinality(B \cup F) = Cardinality(B) + Cardinality(F) - Cardinality(B \cap F)
    <3>1. IsFiniteSet(B \cup F)
               /\ Cardinality(B \cup F) = Cardinality(B) + Cardinality(F) - Cardinality(B \cap F)
      BY <2>1, FS_Union
    <3> QED BY <2>3, <3>1, FS_Subset
  <2>5. /\ Cardinality(A) \in Nat /\ Cardinality(B) \in Nat /\ Cardinality(B \cap F) \in Nat
        /\ Cardinality(B \cup F) \in Nat
    <3>1. IsFiniteSet(B \cap F)
      BY <2>1, FS_Subset
    <3> QED BY <2>1, <2>4, <3>1, FS_CardinalityType
  <2>6. Cardinality(A) <= Cardinality(B) + n
    BY <1>1, <2>2, <2>4, <2>5
  <2> QED BY <2>6 DEF A, B
<1>10. Cardinality(SparePages') \in Nat /\ Cardinality(SparePages) \in Nat
  <2>1. SparePages' \subseteq Pages
    BY DEF SparePages
  <2> QED BY <2>1, SpareFinite, CacheAssumption, FS_Subset, FS_CardinalityType DEF CacheAssumption
<1> QED BY <1>1, <1>9, <1>10 DEF n

\* The refusal of next_batch does not happen.
LEMMA NotRefused ==
  ASSUME SInv, Proved!IInv, RInv, PlanDecode
  PROVE  ~AppendRefused(Head(decodeReady))
<1> SUFFICES ASSUME AppendRefused(Head(decodeReady)) PROVE FALSE
  OBVIOUS
<1>1. CanGrow(Head(decodeReady))
  <2>1. step = "decode" /\ left > 0 /\ Room
    BY DEF PlanDecode
  <2> QED BY <2>1, RefusalRight DEF DecodeNeverRefused
<1>2. PICK k, n : /\ k = ExtraNeed(Head(decodeReady))
                  /\ n = Cardinality(freePages \cup Freed(PageCandidates({})))
  OBVIOUS
<1>3. k <= n
  BY <1>1, <1>2 DEF CanGrow
<1>4. n < k
  BY <1>2 DEF AppendRefused, AcquireRefused
<1>5. n \in Nat /\ k \in Nat
  <2>1. n \in Nat
    BY <1>2, SpareReclaimed, SpareFinite
  <2>2. decodeReady \in Seq(Ids) /\ IsInjective(decodeReady) /\ decodeReady # <<>>
    <3>1. left > 0 /\ left \in Nat /\ left = Len(decodeReady)
      BY DEF PlanDecode, SInv, StepPart, RInv, LoopPart
    <3> QED BY <3>1, BatchCounts
  <2>3. Head(decodeReady) \in DOMAIN active
    BY <2>2, QueueTail, BatchCounts
  <2> QED BY <1>2, <2>1, <2>3, NeedReserved
<1> QED BY <1>3, <1>4, <1>5

\* What the decodes of a set need, when each of them has what it had.
LEMMA NeedSame ==
  ASSUME SInv, Proved!IInv, NEW S \in SUBSET DOMAIN active, S \subseteq DOMAIN active',
         \A j \in S : seqs'[j] = seqs[j]
  PROVE  NeedOf(S)' = NeedOf(S)
<1> DEFINE f == [i \in DOMAIN active |-> ExtraNeed(i)]
           h == [i \in DOMAIN active' |-> ExtraNeed(i)']
<1>1. \A j \in S : ExtraNeed(j)' = ExtraNeed(j)
  BY DEF ExtraNeed, BlocksFor
<1>2. (\A j \in S : h[j] = f[j]) /\ IsFiniteSet(S)
  BY <1>1, CacheFacts, FS_Subset
<1>3. NeedOf(S) = SumFunctionOnSet(f, S) /\ NeedOf(S)' = SumFunctionOnSet(h, S)
  BY DEF NeedOf
<1> HIDE DEF f, h
<1> QED BY <1>2, <1>3, SumAgree

\* A batch without chunks has as many tokens as decodes.
LEMMA NoChunks ==
  ASSUME SInv, batch.prefill = <<>>
  PROVE  NumTokens = Len(batch.decode)
<1> DEFINE f == [i \in DOMAIN batch.prefill |-> batch.prefill[i].tokens]
<1>1. DOMAIN f = {}
  OBVIOUS
<1>2. SumFunction(f) = SumFunctionOnSet(f, DOMAIN f)
  BY DEF SumFunction, SumFunctionOnSet, FoldFunction
<1>3. SumFunction(f) = 0
  BY <1>1, <1>2, SumEmpty
<1>4. NumTokens = Len(batch.decode) + SumFunction(f) /\ Len(batch.decode) \in Nat
  BY BatchCounts DEF NumTokens
<1> HIDE DEF f
<1> QED BY <1>3, <1>4

\* A decode that is planned leaves a place for those that wait for a restore,
\* and the pages the other decodes need.
LEMMA DecodeReserve ==
  ASSUME SInv, Proved!IInv, RInv, SInv', Proved!IInv', MapPart', PlanDecode
  PROVE  RInv'
<1>0. PICK id : id = Head(decodeReady)
  OBVIOUS
<1>1. /\ step = "decode" /\ step' = "decode" /\ left > 0 /\ Room /\ left' = left - 1
      /\ UNCHANGED prefillReady
      /\ AppendToken(id) /\ decodeReady' = Tail(decodeReady)
      /\ batch' = [batch EXCEPT !.decode = Append(@, id)]
      /\ active' = [active EXCEPT ![id].phase = "DecodeInFlight"]
  BY <1>0, NotRefused DEF PlanDecode
<1>2. left = Len(decodeReady) /\ batch.prefill = <<>> /\ left \in Nat
  BY <1>1 DEF RInv, LoopPart, SInv, StepPart
<1>3. decodeReady \in Seq(Ids) /\ IsInjective(decodeReady) /\ decodeReady # <<>>
  BY <1>1, <1>2, BatchCounts
<1>4. /\ id \in DOMAIN active /\ id \in Range(decodeReady)
      /\ Range(decodeReady') = Range(decodeReady) \ {id}
      /\ Len(decodeReady') = Len(decodeReady) - 1
  BY <1>0, <1>1, <1>3, QueueTail, BatchCounts
<1>5. batch'.prefill = <<>> /\ batch'.decode = Append(batch.decode, id)
  BY <1>1, <1>2, BatchCounts DEF BatchType
<1>6. /\ Len(batch'.decode) = Len(batch.decode) + 1 /\ Len(batch.decode) \in Nat
      /\ Len(batch.prefill) = 0 /\ Len(batch'.prefill) = 0
  <2>1. id \in Ids
    BY <1>4, RequestFacts DEF SInv
  <2> QED BY <1>2, <1>5, <2>1, BatchCounts, AppendProperties
<1>7. LoopPart'
  BY <1>1, <1>2, <1>4, <1>5 DEF LoopPart
<1>8. LimitPart' /\ NumTokens' = Len(batch.decode) + 1
  <2>1. Len(batch'.decode) <= MaxSeqs /\ Len(batch'.decode) \in Nat
    BY <1>1, <1>6, SchedulerAssumption DEF Room
  <2> QED BY <1>5, <1>6, <2>1, LimitDecodes
<1>9. NumTokens = Len(batch.decode)
  BY <1>2, NoChunks
<1>10. Due' = Due /\ DOMAIN active' = DOMAIN active
       /\ \A j \in DOMAIN active : active'[j].prefilled = active[j].prefilled
  <2>1. DOMAIN active' = DOMAIN active
    BY <1>1
  <2>2. ASSUME NEW j \in DOMAIN active
        PROVE  active'[j].restore = active[j].restore /\ active'[j].prefilled = active[j].prefilled
    <3>1. active[j] \in Record
      BY RequestFacts DEF SInv
    <3>2. CASE j = id
      BY <1>1, <3>1, <3>2 DEF Record
    <3>3. CASE j # id
      BY <1>1, <3>3
    <3> QED BY <3>2, <3>3
  <2> QED BY <2>1, <2>2 DEF Due
<1>11. DuePart'
  <2>1. ~Launched'
    BY <1>1 DEF Launched
  <2>2. \A j \in Range(prefillReady') :
          /\ Before(prefillReady', j) \subseteq Before(prefillReady, j)
          /\ active'[j].prefilled = active[j].prefilled
    BY <1>1, <1>10, BatchCounts
  <2>3. /\ Len(decodeReady') + Len(batch'.decode) + Len(batch'.prefill)
             <= Len(decodeReady) + Len(batch.decode) + Len(batch.prefill)
        /\ Len(decodeReady') + NumTokens' <= Len(decodeReady) + NumTokens
    <3>1. Len(decodeReady) \in Nat
      BY BatchCounts
    <3>2. \A a, b \in Nat : (a - 1) + (b + 1) + 0 <= a + b + 0 /\ (a - 1) + (b + 1) <= a + b
      OBVIOUS
    <3> QED BY <1>4, <1>6, <1>8, <1>9, <3>1, <3>2, Zenon
  <2>4. Range(prefillReady') \cap Due' \subseteq Range(prefillReady) \cap Due
    BY <1>1, <1>10
  <2> QED BY <2>1, <2>2, <2>3, <2>4, DueSame DEF RInv
<1>12. NextPart'
  <2> SUFFICES ASSUME Due' # {}
               PROVE  NeedOf(Range(decodeReady))' <= Cardinality(SparePages')
    BY DEF NextPart
  <2>0. PICK R, Q : R = Range(decodeReady) /\ Q = Range(decodeReady')
    OBVIOUS
  <2>1. NeedOf(R) <= Cardinality(SparePages)
    BY <1>10, <2>0 DEF RInv, NextPart
  <2>2. R \in SUBSET DOMAIN active /\ Q = R \ {id} /\ id \in R
    BY <1>4, <2>0, BatchCounts
  <2>3. NeedOf(R) = ExtraNeed(id) + NeedOf(Q) /\ NeedOf(Q) \in Nat /\ ExtraNeed(id) \in Nat
    BY <2>2, NeedOfOne
  <2>4. NeedOf(Q)' = NeedOf(Q)
    <3>1. \A j \in DOMAIN seqs : j # id => seqs'[j] = seqs[j]
      BY <1>1, <1>4, CacheFacts, AppendTokens DEF TokensBy
    <3>2. \A j \in Q : seqs'[j] = seqs[j]
      BY <2>2, <3>1, CacheFacts
    <3>3. Q \in SUBSET DOMAIN active /\ Q \subseteq DOMAIN active'
      BY <1>10, <2>2
    <3> QED BY <3>2, <3>3, NeedSame
  <2>5. Cardinality(SparePages) - ExtraNeed(id) <= Cardinality(SparePages')
    BY <1>1, <1>4, GrowthTakes
  <2>6. Cardinality(SparePages) \in Nat /\ Cardinality(SparePages') \in Nat
    <3>1. SparePages' \subseteq Pages
      BY DEF SparePages
    <3> QED BY <3>1, SpareFinite, CacheAssumption, FS_Subset, FS_CardinalityType DEF CacheAssumption
  <2>7. NeedOf(Q) <= Cardinality(SparePages')
    BY <2>1, <2>3, <2>5, <2>6
  <2>8. NeedOf(Range(decodeReady))' = NeedOf(Q)'
    BY <2>0 DEF NeedOf
  <2> QED BY <2>4, <2>7, <2>8
<1> QED BY <1>7, <1>8, <1>11, <1>12 DEF RInv

-----------------------------------------------------------------------------
(* Admission.                                                              *)

\* Whoever is admitted is the only one ready, and the batch has a place for it.
LEMMA ActivateReserve ==
  ASSUME SInv, Proved!IInv, RInv, MapPart', step = "admit", NEW id, id \notin DOMAIN active,
         NEW reused, NEW restore, Activate(id, reused, restore)
  PROVE  RInv'
<1>1. /\ step' = "prefill" /\ prefillReady' = <<id>> /\ decodeReady' = decodeReady /\ batch' = batch
      /\ DOMAIN active \subseteq DOMAIN active'
      /\ \A j \in DOMAIN active : active'[j] = active[j]
  BY DEF Activate, With
<1>2. decodeReady = <<>> /\ Room
  BY DEF RInv, LoopPart
<1>3. LoopPart'
  BY <1>1, <1>2 DEF LoopPart
<1>4. LimitPart'
  <2>1. \A j \in Range(ChunkIds) : j \in DOMAIN active
    BY BatchCounts
  <2> QED BY <1>1, <2>1, LimitSame DEF RInv
<1>5. DuePart'
  <2>1. ~Launched'
    BY <1>1 DEF Launched
  <2>2. ASSUME NEW y \in Range(prefillReady') PROVE PlaceLeft(y)'
    <3>1. Before(prefillReady', y) = {}
      <4>1. DOMAIN prefillReady' = 1..1
        BY <1>1
      <4> QED BY <4>1 DEF Before
    <3>2. WholeOf({})' = 0
      BY SumEmpty DEF WholeOf
    <3>3. WholeOf(Before(prefillReady, y))' = 0
      BY <3>1, <3>2 DEF WholeOf
    <3>4. Cardinality(Before(prefillReady', y)) = 0
      BY <3>1, FS_EmptySet
    <3>5. Len(decodeReady') = 0 /\ NumTokens' = NumTokens
      BY <1>1, <1>2 DEF NumTokens
    <3>6. NumTokens \in Nat /\ Len(batch.decode) \in Nat /\ Len(batch.prefill) \in Nat
      BY BatchCounts
    <3>7. Len(batch.decode) + Len(batch.prefill) < MaxSeqs /\ NumTokens < MaxTokens
      BY <1>2 DEF Room
    <3>0. PICK w, c, d, m, n, k :
            /\ w = WholeOf(Before(prefillReady, y))' /\ c = Cardinality(Before(prefillReady', y))
            /\ d = Len(decodeReady') /\ m = Len(batch'.decode) /\ n = Len(batch'.prefill)
            /\ k = NumTokens'
      OBVIOUS
    <3>8. w = 0 /\ c = 0 /\ d = 0 /\ m \in Nat /\ n \in Nat /\ k \in Nat /\ m + n < MaxSeqs
               /\ k < MaxTokens
      BY <1>1, <3>0, <3>3, <3>4, <3>5, <3>6, <3>7
    <3>9. d + m + n + c < MaxSeqs /\ d + k + w < MaxTokens
      BY <3>8
    <3> QED BY <3>0, <3>9 DEF PlaceLeft
  <2> QED BY <2>1, <2>2 DEF DuePart
<1>6. NextPart'
  BY <1>1, <1>2, NextNone
<1> QED BY <1>3, <1>4, <1>5, <1>6 DEF RInv

\* Both kinds of admission.
LEMMA AdmitReserve ==
  ASSUME SInv, Proved!IInv, RInv, MapPart', AdmitMiss \/ AdmitMatch
  PROVE  RInv'
<1>1. step = "admit"
  BY DEF AdmitMiss, AdmitMatch
<1>2. PICK id : id = Head(waiting)
  OBVIOUS
<1>3. id \notin DOMAIN seqs
  BY <1>2 DEF AdmitMiss, AdmitMatch, Admit, AdmitHit
<1>4. id \notin DOMAIN active
  BY <1>3, CacheFacts
<1>5. \E reused, restore : Activate(id, reused, restore)
  <2>1. CASE AdmitMiss
    BY <1>2, <2>1 DEF AdmitMiss
  <2>2. CASE AdmitMatch
    <3>1. PICK s, restore : s \in DOMAIN entries /\ Activate(id, Len(entries[s].tokens), restore)
      BY <1>2, <2>2 DEF AdmitMatch
    <3> QED BY <3>1
  <2> QED BY <2>1, <2>2
<1> QED BY <1>1, <1>4, <1>5, ActivateReserve

-----------------------------------------------------------------------------
(* Chunks.                                                                 *)

\* The tokens of chunks.
TokensOf(chunks) == SumFunction([i \in DOMAIN chunks |-> chunks[i].tokens])

\* One more chunk adds its tokens.
LEMMA TokensAppended ==
  ASSUME NEW chunks \in Seq(Chunk), NEW c \in Chunk
  PROVE  /\ TokensOf(Append(chunks, c)) = TokensOf(chunks) + c.tokens
         /\ TokensOf(chunks) \in Nat
<1> DEFINE n == Len(chunks)
           r == Append(chunks, c)
           f == [i \in DOMAIN chunks |-> chunks[i].tokens]
           h == [i \in DOMAIN r |-> r[i].tokens]
<1>1. n \in Nat /\ DOMAIN chunks = 1..n /\ \A i \in 1..n : chunks[i] \in Chunk
  BY LenProperties, ElementOfSeq
<1>2. DOMAIN r = 1..(n + 1) /\ r[n + 1] = c /\ \A i \in 1..n : r[i] = chunks[i]
  BY <1>1, AppendProperties
<1>3. TokensOf(chunks) = SumFunctionOnSet(f, 1..n)
  BY <1>1 DEF TokensOf, SumFunction, SumFunctionOnSet, FoldFunction
<1>4. TokensOf(r) = SumFunctionOnSet(h, 1..(n + 1))
  BY <1>2 DEF TokensOf, SumFunction, SumFunctionOnSet, FoldFunction
<1>5. n + 1 \notin 1..n /\ 1..(n + 1) = (1..n) \cup {n + 1}
  BY <1>1
<1>6. IsFiniteSet(1..n)
  BY <1>1, FS_Interval
<1>7. (\A i \in 1..n : f[i] \in Nat /\ h[i] = f[i]) /\ h[n + 1] = c.tokens /\ c.tokens \in Nat
  <2>1. \A i \in 1..n : f[i] \in Nat /\ h[i] = f[i]
    BY <1>1, <1>2, <1>5 DEF Chunk
  <2>2. n + 1 \in DOMAIN r
    BY <1>1, <1>2
  <2>3. h[n + 1] = c.tokens /\ c.tokens \in Nat
    BY <1>2, <2>2 DEF Chunk
  <2> QED BY <2>1, <2>3
<1> HIDE DEF f, h, n, r
<1>0. PICK D, e : D = 1..n /\ e = n + 1
  OBVIOUS
<1>8. (\A i \in D : f[i] \in Nat) /\ (\A i \in D : h[i] = f[i]) /\ (\A i \in D : h[i] \in Int)
      /\ IsFiniteSet(D) /\ e \notin D /\ h[e] \in Int
  BY <1>0, <1>5, <1>6, <1>7
<1>9. SumFunctionOnSet(f, D) \in Nat
  BY <1>8, SumNat
<1>10. SumFunctionOnSet(h, D) = SumFunctionOnSet(f, D)
  BY <1>8, SumAgree
<1>11. SumFunctionOnSet(h, D \cup {e}) = h[e] + SumFunctionOnSet(h, D)
  BY <1>8, SumAdd
<1>12. TokensOf(r) = SumFunctionOnSet(h, D \cup {e}) /\ TokensOf(chunks) = SumFunctionOnSet(f, D)
  BY <1>0, <1>3, <1>4, <1>5
<1>13. h[e] = c.tokens /\ c.tokens \in Nat
  BY <1>0, <1>7
<1>14. TokensOf(r) = TokensOf(chunks) + c.tokens
  BY <1>9, <1>10, <1>11, <1>12, <1>13
<1> QED BY <1>9, <1>12, <1>14 DEF r

\* What next_batch plans of a prompt.
LEMMA ChunkAdded ==
  ASSUME SInv, Proved!IInv, PlanChunk, NEW id, id = Head(prefillReady)
  PROVE  /\ id \in DOMAIN active /\ id \in Ids /\ active[id] \in Record
         /\ batch'.decode = batch.decode
         /\ \E c \in Chunk : /\ batch'.prefill = Append(batch.prefill, c) /\ c.id = id
                             /\ c.tokens <= Whole(id) /\ Whole(id) \in Nat
                             /\ c.tokens = Whole(id) \/ NumTokens + c.tokens = MaxTokens
<1>1. step = "prefill" /\ Room /\ prefillReady # <<>>
  BY Zenon DEF PlanChunk
<1>2. prefillReady \in Seq(Ids) /\ IsInjective(prefillReady)
      /\ Range(prefillReady) = WithPhase("PrefillReady")
  BY DEF SInv, QueuePart
<1>3. id \in Ids /\ id \in DOMAIN active /\ active[id].phase = "PrefillReady"
  BY <1>1, <1>2, QueueTail DEF WithPhase
<1>4. /\ active[id] \in Record /\ active[id].prefilled \in Nat
      /\ active[id].prefilled < PromptLen(id) /\ PromptLen(id) \in Nat
  <2>1. /\ Known(id) /\ active[id] \in Record
        /\ active[id].prefilled \in Nat /\ PromptLen(id) \in Nat
    BY <1>3, RequestFacts DEF SInv
  <2>2. active[id].prefilled < PromptLen(id)
    BY <1>3, <2>1 DEF Known
  <2> QED BY <2>1, <2>2
<1> DEFINE
      cutOf(x) == LET o == active[x].prefilled
                      f == Min({PromptLen(x) - o, MaxTokens - NumTokens})
                      a == Request(x).snapshotAt
                  IN  Snapshots # {} /\ a > o /\ a <= o + f
      tokensOf(x) == IF cutOf(x) THEN Request(x).snapshotAt - active[x].prefilled
                     ELSE Min({PromptLen(x) - active[x].prefilled, MaxTokens - NumTokens})
      chunkOf(x) == [id |-> x, offset |-> active[x].prefilled, tokens |-> tokensOf(x)]
      plan(x, saves) ==
        [batch EXCEPT
          !.prefill = Append(@, chunkOf(x)),
          !.restores = @ \o SetToSeq({[id |-> x, op |-> r] : r \in active[x].restore}),
          !.saves = @ \o saves]
      Q(x) == \E saves : batch' = plan(x, saves)
<1>5. Q(Head(prefillReady))
  BY Zenon DEF PlanChunk
<1>6. Q(id)
  <2> HIDE DEF Q
  <2> QED BY <1>5
<1>7. batch'.decode = batch.decode /\ batch'.prefill = Append(batch.prefill, chunkOf(id))
  <2>1. BatchType
    BY DEF SInv, BatchPart
  <2> DEFINE c == chunkOf(id)
             m == SetToSeq({[id |-> id, op |-> r] : r \in active[id].restore})
  <2>2. PICK saves : batch' = [batch EXCEPT !.prefill = Append(@, c), !.restores = @ \o m,
                                            !.saves = @ \o saves]
    BY Zenon, <1>6
  <2> HIDE DEF c, m
  <2>3. batch'.decode = batch.decode /\ batch'.prefill = Append(batch.prefill, c)
    BY <2>1, <2>2 DEF BatchType
  <2> QED BY <2>3 DEF c
<1> DEFINE t == tokensOf(id)
           rest == MaxTokens - NumTokens
<1>8. /\ t \in Nat \ {0} /\ Whole(id) \in Nat /\ t <= Whole(id) /\ (t = Whole(id) \/ t = rest)
      /\ NumTokens \in Nat /\ MaxTokens \in Nat
  <2> DEFINE offset == active[id].prefilled
             at == Request(id).snapshotAt
             len == PromptLen(id)
             fits == Min({len - offset, rest})
             on == Snapshots # {}
             cut == on /\ at > offset /\ at <= offset + fits
             w == Whole(id)
  <2>1. NumTokens \in Nat /\ MaxTokens \in Nat /\ rest \in Nat \ {0}
    BY <1>1, BatchCounts, SchedulerAssumption DEF Room
  <2>2. at \in 0..len
    BY <1>3, SchedulerAssumption DEF PromptLen
  <2>3. \/ t = at - offset /\ w = at - offset /\ at > offset
        \/ t = fits /\ w = len - offset
        \/ t = fits /\ w = at - offset /\ at > offset + fits
    <3>1. CASE cut
      BY <3>1 DEF Whole
    <3>2. CASE ~cut
      <4>1. t = fits
        BY <3>2
      <4>2. CASE on /\ at > offset
        <5>1. w = at - offset
          BY <4>2 DEF Whole
        <5>2. fits \in Int /\ offset \in Int /\ at \in Int
          <6>1. len - offset \in Int /\ rest \in Int /\ offset \in Int /\ at \in Int
            BY <1>4, <2>1, <2>2
          <6>2. fits \in {len - offset, rest}
            <7> HIDE DEF offset, at, len, rest
            <7> QED BY <6>1, MinOfTwo
          <6> QED BY <6>1, <6>2
        <5>3. ~(at <= offset + fits)
          BY <3>2, <4>2
        <5> HIDE DEF fits, offset, at, t, w
        <5> QED BY <4>1, <5>1, <5>2, <5>3
      <4>3. CASE ~(on /\ at > offset)
        <5>1. w = len - offset
          BY <4>3 DEF Whole
        <5> QED BY <4>1, <5>1
      <4> QED BY <4>2, <4>3
    <3> QED BY <3>1, <3>2
  <2>5. offset \in Nat /\ len \in Nat /\ offset < len
    BY <1>4
  <2>7. fits = Min({len - offset, rest})
    OBVIOUS
  <2> HIDE DEF t, rest, offset, at, len, fits, on, cut, w
  <2>8. len - offset \in Nat \ {0} /\ rest \in Int /\ at \in Nat /\ at <= len
    BY <2>1, <2>2, <2>5
  <2>9. fits \in {len - offset, rest} /\ fits <= len - offset /\ fits <= rest
    <3>1. PICK d, r : d = len - offset /\ r = rest
      OBVIOUS
    <3>2. d \in Int /\ r \in Int /\ fits = Min({d, r})
      BY <2>7, <2>8, <3>1
    <3>3. Min({d, r}) \in {d, r} /\ Min({d, r}) <= d /\ Min({d, r}) <= r
      BY <3>2, MinOfTwo
    <3> QED BY <3>1, <3>2, <3>3
  <2>10. t \in Nat \ {0} /\ w \in Nat /\ t <= w /\ (t = w \/ t = rest)
    <3>0. PICK a, l, o, r, f, x, y : /\ a = at /\ l = len /\ o = offset /\ r = rest /\ f = fits
                                     /\ x = t /\ y = w
      OBVIOUS
    <3>1. /\ a \in Nat /\ l \in Nat /\ o \in Nat /\ r \in Nat \ {0} /\ a <= l /\ l - o \in Nat \ {0}
          /\ f <= l - o /\ f <= r /\ (f = l - o \/ f = r)
      BY <2>1, <2>5, <2>8, <2>9, <3>0
    <3>2. \/ x = a - o /\ y = a - o /\ a > o
          \/ x = f /\ y = l - o
          \/ x = f /\ y = a - o /\ a > o + f
      BY <2>3, <3>0
    <3>3. CASE f = r
      BY <3>1, <3>2, <3>0, <3>3
    <3>4. CASE f = l - o
      BY <3>1, <3>2, <3>0, <3>4
    <3> QED BY <3>1, <3>3, <3>4
  <2> QED BY <2>1, <2>10 DEF w
<1>9. chunkOf(id) \in Chunk /\ chunkOf(id).id = id /\ chunkOf(id).tokens = t
  <2>1. t \in Nat
    BY <1>8
  <2> HIDE DEF t
  <2>2. chunkOf(id) = [id |-> id, offset |-> active[id].prefilled, tokens |-> t]
    BY DEF t
  <2> HIDE DEF chunkOf
  <2> QED BY <1>3, <1>4, <2>1, <2>2 DEF Chunk
<1>10. t = rest => NumTokens + t = MaxTokens
  BY <1>8
<1> HIDE DEF t, chunkOf, rest
<1> QED BY Zenon, <1>3, <1>4, <1>7, <1>8, <1>9, <1>10

\* A chunk that is planned leaves those behind it in the queue their place.
LEMMA ChunkReserve ==
  ASSUME SInv, Proved!IInv, RInv, MapPart', PlanChunk
  PROVE  RInv'
<1>0. PICK id : id = Head(prefillReady)
  OBVIOUS
<1>1. PICK c \in Chunk : /\ batch'.prefill = Append(batch.prefill, c) /\ c.id = id
                         /\ c.tokens <= Whole(id) /\ Whole(id) \in Nat
                         /\ c.tokens = Whole(id) \/ NumTokens + c.tokens = MaxTokens
  BY <1>0, ChunkAdded
<1>2. /\ id \in DOMAIN active /\ id \in Ids /\ active[id] \in Record /\ batch'.decode = batch.decode
      /\ c.tokens \in Nat
  BY <1>0, <1>1, ChunkAdded DEF Chunk
<1>3. /\ step = "prefill" /\ step' = "prefill" /\ Room /\ prefillReady # <<>>
      /\ prefillReady' = Tail(prefillReady) /\ decodeReady' = decodeReady
      /\ active' = [active EXCEPT ![id].phase = "PrefillInFlight"]
  BY <1>0, Zenon DEF PlanChunk
<1>4. decodeReady = <<>>
  BY <1>3 DEF RInv, LoopPart
<1>5. /\ NumTokens \in Nat /\ Len(batch.decode) \in Nat /\ Len(batch.prefill) \in Nat
      /\ MaxTokens \in Nat /\ MaxSeqs \in Nat
  BY BatchCounts, SchedulerAssumption
<1>6. NumTokens' = NumTokens + c.tokens /\ Len(batch'.prefill) = Len(batch.prefill) + 1
  <2>1. batch.prefill \in Seq(Chunk)
    BY BatchCounts
  <2>2. NumTokens = Len(batch.decode) + TokensOf(batch.prefill)
    BY DEF NumTokens, TokensOf
  <2>3. NumTokens' = Len(batch'.decode) + TokensOf(batch'.prefill)
    BY DEF NumTokens, TokensOf
  <2>4. TokensOf(batch'.prefill) = TokensOf(batch.prefill) + c.tokens
             /\ TokensOf(batch.prefill) \in Nat
    BY <1>1, <2>1, TokensAppended
  <2>5. NumTokens' = NumTokens + c.tokens
    BY <1>2, <1>5, <2>2, <2>3, <2>4
  <2> QED BY <1>1, <2>1, <2>5, AppendProperties
<1>7. /\ DOMAIN active' = DOMAIN active
      /\ \A j \in DOMAIN active : active'[j].prefilled = active[j].prefilled
                                  /\ active'[j].restore = active[j].restore
  <2>1. DOMAIN active' = DOMAIN active
    BY <1>3
  <2>2. ASSUME NEW j \in DOMAIN active
        PROVE  active'[j].restore = active[j].restore /\ active'[j].prefilled = active[j].prefilled
    <3>1. CASE j = id
      BY <1>2, <1>3, <3>1 DEF Record
    <3>2. CASE j # id
      BY <1>3, <3>2
    <3> QED BY <3>1, <3>2
  <2> QED BY <2>1, <2>2
<1>8. ASSUME NEW S \in SUBSET DOMAIN active PROVE WholeOf(S)' = WholeOf(S)
  BY <1>7, <1>8, WholeSame
<1>9. LoopPart'
  BY <1>3, <1>4 DEF LoopPart
<1>10. /\ prefillReady \in Seq(Ids) /\ IsInjective(prefillReady) /\ id \in Range(prefillReady)
       /\ Range(prefillReady') = Range(prefillReady) \ {id}
       /\ \A y \in Range(prefillReady') :
            /\ Before(prefillReady', y) = Before(prefillReady, y) \ {id}
                                          /\ id \in Before(prefillReady, y)
  <2>1. prefillReady \in Seq(Ids) /\ IsInjective(prefillReady)
    BY BatchCounts
  <2> QED BY <1>0, <1>3, <2>1, QueueTail
<1>11. /\ ChunkIds' = Append(ChunkIds, id) /\ id \notin Range(ChunkIds)
       /\ ChunkIds \in Seq(Ids) /\ IsInjective(ChunkIds) /\ Range(ChunkIds) \subseteq DOMAIN active
  <2>1. ChunkIds = IdsOf(batch.prefill) /\ ChunkIds' = IdsOf(batch'.prefill)
    BY DEF ChunkIds, IdsOf
  <2>2. batch.prefill \in Seq(Chunk)
    BY BatchCounts
  <2>3. IdsOf(Append(batch.prefill, c)) = Append(IdsOf(batch.prefill), id)
    BY <1>1, <2>2, IdsOfChunks
  <2>4. id \notin Range(ChunkIds)
    <3>1. id \in WithPhase("PrefillReady") /\ Range(ChunkIds) = WithPhase("PrefillInFlight")
      BY <1>10 DEF SInv, BatchPart, QueuePart
    <3> QED BY <3>1 DEF WithPhase
  <2> QED BY <1>1, <2>1, <2>3, <2>4, BatchCounts
<1>12. /\ Range(ChunkIds') = Range(ChunkIds) \cup {id}
       /\ \A y \in Range(ChunkIds) : Before(ChunkIds', y) = Before(ChunkIds, y)
       /\ Before(ChunkIds', id) = Range(ChunkIds)
  BY <1>2, <1>11, QueueAppend
<1>13. LimitPart'
  <2>0. PICK R : R = Range(ChunkIds)
    OBVIOUS
  <2>1. R \in SUBSET DOMAIN active /\ WholeOf(R) \in Nat
    BY <1>11, <2>0, WholeSums
  <2>2. Len(batch.decode) + WholeOf(R) <= NumTokens /\ NumTokens < MaxTokens
        /\ Len(batch.decode) + Len(batch.prefill) < MaxSeqs
        /\ \A y \in R : Len(batch.decode) + WholeOf(Before(ChunkIds, y)) < MaxTokens
    <3>1. NumTokens < MaxTokens /\ Len(batch.decode) + Len(batch.prefill) < MaxSeqs
      BY <1>3 DEF Room
    <3>2. /\ NumTokens < MaxTokens => Len(batch.decode) + WholeOf(Range(ChunkIds)) <= NumTokens
          /\ \A y \in Range(ChunkIds) :
               Len(batch.decode) + WholeOf(Before(ChunkIds, y)) < MaxTokens
      BY <1>3 DEF RInv, LimitPart
    <3> QED BY <2>0, <3>1, <3>2
  <2>3. Len(batch'.decode) + Len(batch'.prefill) <= MaxSeqs
    <3>1. \A n, m, k \in Nat : n + m < k => n + (m + 1) <= k
      OBVIOUS
    <3>2. Len(batch.decode) + Len(batch.prefill) < MaxSeqs
      BY <2>2
    <3> QED BY <1>2, <1>5, <1>6, <3>1, <3>2, Zenon
  <2>4. ASSUME NEW y \in Range(ChunkIds')
        PROVE  Len(batch'.decode) + WholeOf(Before(ChunkIds, y))' < MaxTokens
    <3>0. PICK B : B = Before(ChunkIds', y)
      OBVIOUS
    <3>1. B \in SUBSET DOMAIN active /\ Len(batch.decode) + WholeOf(B) < MaxTokens
      <4>1. CASE y = id
        <5>1. B = R
          BY <1>12, <2>0, <3>0, <4>1
        <5>2. Len(batch.decode) + WholeOf(R) < MaxTokens
          BY <1>5, <2>1, <2>2
        <5> QED BY <2>1, <5>1, <5>2
      <4>2. CASE y \in R
        <5>1. B = Before(ChunkIds, y)
          BY <1>12, <2>0, <3>0, <4>2
        <5>2. B \subseteq R
          BY <2>0, <5>1 DEF Before, Range
        <5> QED BY <2>1, <2>2, <4>2, <5>1, <5>2
      <4> QED BY <1>12, <2>0, <2>4, <4>1, <4>2
    <3>2. WholeOf(B)' = WholeOf(B)
      BY <1>8, <3>1
    <3>3. WholeOf(Before(ChunkIds, y))' = WholeOf(B)'
      BY <3>0 DEF WholeOf
    <3> QED BY <1>2, <3>1, <3>2, <3>3
  <2>5. ASSUME NumTokens' < MaxTokens
        PROVE  Len(batch'.decode) + WholeOf(Range(ChunkIds))' <= NumTokens'
    <3>0. PICK Q : Q = R \cup {id}
      OBVIOUS
    <3>1. Q \in SUBSET DOMAIN active /\ id \in Q /\ Q \ {id} = R
      BY <1>2, <1>11, <2>0, <2>1, <3>0
    <3>2. WholeOf(Q) = Whole(id) + WholeOf(R)
      BY <3>1, WholeSums
    <3>3. WholeOf(Q)' = WholeOf(Q)
      BY <1>8, <3>1
    <3>4. WholeOf(Range(ChunkIds))' = WholeOf(Q)'
      BY <1>12, <2>0, <3>0 DEF WholeOf
    <3>5. c.tokens = Whole(id)
      BY <1>1, <1>2, <1>5, <1>6, <2>5
    <3>6. Len(batch.decode) + (Whole(id) + WholeOf(R)) <= NumTokens + Whole(id)
      BY <1>1, <1>5, <2>1, <2>2
    <3> QED BY <1>2, <1>6, <3>2, <3>3, <3>4, <3>5, <3>6
  <2> QED BY <2>3, <2>4, <2>5 DEF LimitPart
<1>14. Due' = Due
  BY <1>7 DEF Due
<1>15. DuePart'
  <2>1. ~Launched'
    BY <1>3 DEF Launched
  <2>2. ASSUME NEW y \in Range(prefillReady') \cap Due' PROVE PlaceLeft(y)'
    <3>0. PICK A, B : A = Before(prefillReady, y) /\ B = Before(prefillReady', y)
      OBVIOUS
    <3>1. PlaceLeft(y)
      BY <1>10, <1>14, <2>2 DEF RInv, DuePart
    <3>2. A \in SUBSET DOMAIN active /\ id \in A /\ B = A \ {id}
      <4>1. A \subseteq Range(prefillReady)
        BY <3>0 DEF Before, Range
      <4> QED BY <1>10, <2>2, <3>0, <4>1, BatchCounts
    <3>3. /\ Len(batch.decode) + Len(batch.prefill) + Cardinality(A) < MaxSeqs
          /\ NumTokens + WholeOf(A) < MaxTokens
      <4>1. /\ Len(decodeReady) + Len(batch.decode) + Len(batch.prefill) + Cardinality(A) < MaxSeqs
            /\ Len(decodeReady) + NumTokens + WholeOf(A) < MaxTokens
        BY <3>0, <3>1 DEF PlaceLeft
      <4>2. Len(decodeReady) = 0
        BY <1>4
      <4>3. Cardinality(A) \in Nat /\ WholeOf(A) \in Nat
        BY <3>2, WholeSums
      <4>4. \A n, m, k, l, j \in Nat : /\ 0 + n + m + k < j => n + m + k < j
                                       /\ 0 + n + l < j => n + l < j
        OBVIOUS
      <4> QED BY <1>5, <4>1, <4>2, <4>3, <4>4, Zenon
    <3>4. /\ WholeOf(A) = Whole(id) + WholeOf(B) /\ WholeOf(B) \in Nat
          /\ Cardinality(A) = Cardinality(B) + 1 /\ Cardinality(B) \in Nat
      <4>1. WholeOf(A) = Whole(id) + WholeOf(A \ {id}) /\ IsFiniteSet(A)
        BY <3>2, WholeSums
      <4>2. B \in SUBSET DOMAIN active
        BY <3>2
      <4>3. WholeOf(B) \in Nat
        BY <4>2, WholeSums
      <4> QED BY <3>2, <4>1, <4>3, OneLess
    <3>5. WholeOf(Before(prefillReady, y))' = WholeOf(B)
      <4>1. WholeOf(B)' = WholeOf(B)
        BY <1>8, <3>2
      <4> QED BY <3>0, <4>1 DEF WholeOf
    <3>6. PICK n, m, k, w, t, a :
            /\ n = Len(batch.decode) /\ m = Len(batch.prefill) /\ k = Cardinality(B)
            /\ w = WholeOf(B) /\ t = NumTokens /\ a = c.tokens
      OBVIOUS
    <3>7. /\ n \in Nat /\ m \in Nat /\ k \in Nat /\ w \in Nat /\ t \in Nat /\ a \in Nat
          /\ a <= Whole(id) /\ Whole(id) \in Nat
          /\ n + m + (k + 1) < MaxSeqs /\ t + (Whole(id) + w) < MaxTokens
      BY <1>1, <1>2, <1>5, <3>3, <3>4, <3>6
    <3>8. 0 + n + (m + 1) + k < MaxSeqs /\ 0 + (t + a) + w < MaxTokens
      BY <1>5, <3>7
    <3>9. /\ Len(decodeReady') = 0 /\ Len(batch'.decode) = n /\ Len(batch'.prefill) = m + 1
          /\ Cardinality(Before(prefillReady', y)) = k /\ NumTokens' = t + a
          /\ WholeOf(Before(prefillReady, y))' = w
      BY <1>2, <1>3, <1>4, <1>6, <3>0, <3>5, <3>6
    <3> QED BY <3>8, <3>9 DEF PlaceLeft
  <2> QED BY <2>1, <2>2 DEF DuePart
<1>16. NextPart'
  BY <1>3, <1>4, NextNone
<1> QED BY <1>9, <1>13, <1>15, <1>16 DEF RInv

-----------------------------------------------------------------------------
(* Abort.                                                                  *)

\* Fewer stand before an element of a queue than are in it.
LEMMA BeforeCount ==
  ASSUME NEW S, NEW q \in Seq(S), IsInjective(q), NEW y \in Range(q)
  PROVE  /\ Before(q, y) \subseteq Range(q)
         /\ Cardinality(Before(q, y)) \in Nat /\ Cardinality(Before(q, y)) < Len(q)
<1> DEFINE R == Range(q)
           B == Before(q, y)
<1>1. B \subseteq R \ {y}
  BY DEF Before, Range, IsInjective
<1>2. IsFiniteSet(R) /\ Cardinality(R) <= Len(q) /\ Len(q) \in Nat
  BY RangeCount, LenProperties
<1> HIDE DEF R, B
<1>3. Cardinality(R \ {y}) \in Nat /\ Cardinality(R) = Cardinality(R \ {y}) + 1
  <2>1. y \in R
    BY DEF R
  <2> QED BY <1>2, <2>1, OneLess
<1>4. IsFiniteSet(R \ {y})
  BY <1>2, FS_Subset
<1>5. IsFiniteSet(B) /\ Cardinality(B) <= Cardinality(R \ {y}) /\ Cardinality(B) \in Nat
  BY <1>1, <1>4, FS_Subset, FS_CardinalityType
<1>6. B \subseteq R
  BY <1>1
<1> QED BY <1>2, <1>3, <1>5, <1>6 DEF R, B

\* The chunks of a batch that is aborted fit in the next one, those with a restore due in front.
LEMMA AbortChunksReserve ==
  ASSUME SInv, Proved!IInv, RInv, MapPart', AbortChunks
  PROVE  RInv'
<1>1. /\ step = "abort" /\ batch.prefill # <<>>
      /\ prefillReady' = ChunkIds \o prefillReady /\ decodeReady' = decodeReady
      /\ active' = [id \in DOMAIN active |->
                      IF id \in Range(ChunkIds)
                      THEN [active[id] EXCEPT !.phase = "PrefillReady"]
                      ELSE active[id]]
      /\ batch' = [batch EXCEPT !.prefill = <<>>, !.restores = <<>>]
      /\ step' = Rest(batch')
  BY DEF AbortChunks
<1>2. decodeReady = <<>> /\ Launched
  BY <1>1 DEF RInv, LoopPart, Launched
<1>3. batch'.decode = batch.decode /\ batch'.prefill = <<>> /\ step' \in {"idle", "abort"}
  BY <1>1, BatchCounts DEF BatchType, Rest
<1>4. LoopPart'
  BY <1>3 DEF LoopPart
<1>5. /\ NumTokens \in Nat /\ Len(batch.decode) \in Nat /\ Len(batch.prefill) \in Nat
      /\ MaxTokens \in Nat /\ MaxSeqs \in Nat
  BY BatchCounts, SchedulerAssumption
<1>6. /\ Len(batch.decode) + Len(batch.prefill) <= MaxSeqs
      /\ \A y \in Range(ChunkIds) : Len(batch.decode) + WholeOf(Before(ChunkIds, y)) < MaxTokens
  BY <1>1 DEF RInv, LimitPart
<1>7. LimitPart' /\ NumTokens' = Len(batch.decode)
  <2>1. Len(batch.decode) <= MaxSeqs
    <3>1. \A n, m, k \in Nat : n + m <= k => n <= k
      OBVIOUS
    <3> QED BY <1>5, <1>6, <3>1, Zenon
  <2> QED BY <1>3, <1>5, <2>1, LimitDecodes
<1>8. /\ DOMAIN active' = DOMAIN active
      /\ \A j \in DOMAIN active : active'[j].prefilled = active[j].prefilled
                                  /\ active'[j].restore = active[j].restore
  <2>1. DOMAIN active' = DOMAIN active
    BY <1>1
  <2>2. ASSUME NEW j \in DOMAIN active
        PROVE  active'[j].restore = active[j].restore /\ active'[j].prefilled = active[j].prefilled
    <3>1. active[j] \in Record
      BY RequestFacts DEF SInv
    <3>2. CASE j \in Range(ChunkIds)
      <4>1. active'[j] = [active[j] EXCEPT !.phase = "PrefillReady"]
        BY <1>1, <3>2
      <4> QED BY <3>1, <4>1 DEF Record
    <3>3. CASE j \notin Range(ChunkIds)
      <4>1. active'[j] = active[j]
        BY <1>1, <3>3
      <4> QED BY <4>1
    <3> QED BY <3>2, <3>3
  <2> QED BY <2>1, <2>2
<1>9. Due' = Due
  BY <1>8 DEF Due
<1>10. /\ ChunkIds \in Seq(Ids) /\ IsInjective(ChunkIds) /\ Range(ChunkIds) \subseteq DOMAIN active
       /\ Len(ChunkIds) = Len(batch.prefill)
       /\ Range(prefillReady') = Range(ChunkIds) \cup Range(prefillReady)
       /\ \A y \in Range(ChunkIds) : Before(prefillReady', y) = Before(ChunkIds, y)
  <2>1. /\ prefillReady \in Seq(Ids) /\ IsInjective(prefillReady)
        /\ ChunkIds \in Seq(Ids) /\ IsInjective(ChunkIds)
    BY BatchCounts
  <2>2. Range(ChunkIds) \cap Range(prefillReady) = {}
    <3>1. /\ Range(ChunkIds) = WithPhase("PrefillInFlight")
          /\ Range(prefillReady) = WithPhase("PrefillReady")
      BY DEF SInv, BatchPart, QueuePart
    <3> QED BY <3>1 DEF WithPhase
  <2>3. PICK q, r : q = ChunkIds /\ r = prefillReady
    OBVIOUS
  <2>4. Range(q \o r) = Range(q) \cup Range(r)
             /\ \A y \in Range(q) : Before(q \o r, y) = Before(q, y)
    BY <2>1, <2>2, <2>3, QueueJoin
  <2>5. Range(ChunkIds) \subseteq DOMAIN active /\ Len(ChunkIds) = Len(batch.prefill)
    BY BatchCounts
  <2>6. prefillReady' = q \o r
    BY <1>1, <2>3
  <2> QED BY <2>1, <2>3, <2>4, <2>5, <2>6
<1>11. DuePart'
  <2>1. ~Launched'
    BY <1>3 DEF Launched
  <2>2. ASSUME NEW y \in Range(prefillReady') \cap Due' PROVE PlaceLeft(y)'
    <3>0. PICK B : B = Before(ChunkIds, y)
      OBVIOUS
    <3>1. y \in Range(ChunkIds)
      BY <1>2, <1>9, <1>10, <2>2 DEF RInv, DuePart
    <3>2. /\ B \subseteq Range(ChunkIds) /\ Cardinality(B) \in Nat
          /\ Cardinality(B) < Len(batch.prefill)
      BY <1>10, <3>0, <3>1, BeforeCount
    <3>3. B \in SUBSET DOMAIN active
      BY <1>10, <3>2
    <3>4. WholeOf(B)' = WholeOf(B) /\ WholeOf(B) \in Nat
      BY <1>8, <3>3, WholeSame, WholeSums
    <3>5. WholeOf(Before(prefillReady, y))' = WholeOf(B)
      <4>1. Before(prefillReady', y) = B
        BY <1>10, <3>0, <3>1
      <4> QED BY <3>4, <4>1 DEF WholeOf
    <3>6. Len(batch.decode) + WholeOf(B) < MaxTokens
      BY <1>6, <3>0, <3>1
    <3>7. PICK n, m, k, w :
            /\ n = Len(batch.decode) /\ m = Len(batch.prefill) /\ k = Cardinality(B)
                 /\ w = WholeOf(B)
      OBVIOUS
    <3>8. /\ n \in Nat /\ m \in Nat /\ k \in Nat /\ w \in Nat
          /\ k < m /\ n + m <= MaxSeqs /\ n + w < MaxTokens
      BY <1>5, <1>6, <3>2, <3>4, <3>6, <3>7
    <3>9. 0 + n + 0 + k < MaxSeqs /\ 0 + n + w < MaxTokens
      BY <1>5, <3>8
    <3>10. /\ Len(decodeReady') = 0 /\ Len(batch'.decode) = n /\ Len(batch'.prefill) = 0
           /\ Cardinality(Before(prefillReady', y)) = k /\ NumTokens' = n
           /\ WholeOf(Before(prefillReady, y))' = w
      BY <1>1, <1>2, <1>3, <1>7, <1>10, <3>0, <3>1, <3>5, <3>7
    <3> QED BY <3>9, <3>10 DEF PlaceLeft
  <2> QED BY <2>1, <2>2 DEF DuePart
<1>12. NextPart'
  BY <1>1, <1>2, NextNone
<1> QED BY <1>4, <1>7, <1>11, <1>12 DEF RInv

\* A page past those n tokens need ends past them.
LEMMA PageAfter ==
  ASSUME NEW n \in Nat, NEW m \in Nat, m > BlocksFor(n)
  PROVE  m * BlockSize > n
<1>1. BlockSize \in Nat \ {0}
  BY CacheAssumption DEF CacheAssumption
<1>2. PICK k, d : k = BlocksFor(n) /\ d = BlockSize
  OBVIOUS
<1>3. d \in Nat \ {0} /\ k = (n + d - 1) \div d
  BY <1>1, <1>2 DEF BlocksFor
<1>4. k \in Nat /\ n + d - 1 < (k + 1) * d
  BY <1>3
<1>5. (k + 1) * d <= m * d
  <2>1. k + 1 <= m
    BY <1>2, <1>4
  <2> QED BY <1>3, <1>4, <2>1
<1>6. m * d \in Nat /\ (k + 1) * d \in Nat
  BY <1>3, <1>4
<1>7. n < m * d
  <2>1. PICK x, y : x = m * d /\ y = (k + 1) * d
    OBVIOUS
  <2>2. x \in Nat /\ y \in Nat /\ n + d - 1 < y /\ y <= x
    BY <1>4, <1>5, <1>6, <2>1
  <2>3. n < x
    BY <1>3, <2>2
  <2> QED BY <2>1, <2>3
<1> QED BY <1>2, <1>7

\* A page of a sequence past its prompt is its own.
LEMMA GrownPagesOwn ==
  ASSUME SInv, Proved!IInv, Proved!Sharing, NEW id \in DOMAIN active,
         NEW m \in DOMAIN seqs[id].blocks, m > BlocksFor(PromptLen(id))
  PROVE  /\ \A j \in DOMAIN seqs : j # id => seqs[id].blocks[m] \notin SeqPages(j)
         /\ \A s \in DOMAIN entries : seqs[id].blocks[m] \notin EntryPages(s)
<1>1. id \in DOMAIN seqs /\ Len(client[id].prompt) = PromptLen(id) /\ PromptLen(id) \in Nat
  BY CacheFacts, RequestFacts DEF SInv, client, PromptLen
<1>2. m \in Nat
  <2>1. seqs[id].blocks \in Seq(Pages)
    BY <1>1, CacheFacts
  <2> QED BY <2>1, LenProperties
<1>3. ~(Proved!PageEnd(m) <= Len(client[id].prompt))
  <2>1. m * BlockSize > PromptLen(id)
    BY <1>1, <1>2, PageAfter
  <2>2. m * BlockSize \in Nat
    BY <1>2, CacheAssumption DEF CacheAssumption
  <2>3. Proved!PageEnd(m) = m * BlockSize
    BY DEF Proved!PageEnd
  <2> QED BY <1>1, <2>1, <2>2, <2>3
<1>4. ASSUME NEW j \in DOMAIN seqs, j # id, seqs[id].blocks[m] \in SeqPages(j) PROVE FALSE
  <2>1. PICK n \in DOMAIN seqs[j].blocks : seqs[j].blocks[n] = seqs[id].blocks[m]
    BY <1>4 DEF SeqPages, Range
  <2>2. /\ Proved!SamePlace(seqs[id].blocks, seqs[j].blocks)
        /\ \A k \in DOMAIN seqs[id].blocks \cap DOMAIN seqs[j].blocks :
             seqs[id].blocks[k] = seqs[j].blocks[k] =>
               Proved!PageEnd(k) <= Len(client[id].prompt)
    BY <1>1, <1>4 DEF Proved!Sharing, Proved!SeqsShare
  <2>3. m = n
    BY <2>1, <2>2 DEF Proved!SamePlace
  <2> QED BY <1>3, <2>1, <2>2, <2>3
<1>5. ASSUME NEW s \in DOMAIN entries, seqs[id].blocks[m] \in EntryPages(s) PROVE FALSE
  <2>1. PICK n \in DOMAIN entries[s].blocks : entries[s].blocks[n] = seqs[id].blocks[m]
    BY <1>5 DEF EntryPages, Range
  <2>2. /\ Proved!SamePlace(seqs[id].blocks, entries[s].blocks)
        /\ \A k \in DOMAIN seqs[id].blocks \cap DOMAIN entries[s].blocks :
             seqs[id].blocks[k] = entries[s].blocks[k] =>
               Proved!PageEnd(k) <= Len(client[id].prompt)
                 \/ Len(entries[s].tokens) <= Len(client[id].prompt)
    BY <1>1 DEF Proved!Sharing, Proved!SeqEntryShare
  <2>3. m = n
    BY <2>1, <2>2 DEF Proved!SamePlace
  <2>4. Len(entries[s].tokens) <= PromptLen(id)
    BY <1>1, <1>3, <2>1, <2>2, <2>3
  <2>5. /\ entries[s].blocks \in Seq(Pages) /\ Len(entries[s].tokens) \in Nat
        /\ Len(entries[s].blocks) = BlocksFor(Len(entries[s].tokens))
    BY CacheFacts
  <2>6. /\ BlocksFor(Len(entries[s].tokens)) <= BlocksFor(PromptLen(id))
        /\ BlocksFor(Len(entries[s].tokens)) \in Nat /\ BlocksFor(PromptLen(id)) \in Nat
    BY <1>1, <2>4, <2>5, BlocksForMonotonic
  <2>7. n \in 1..Len(entries[s].blocks)
    BY <2>1, <2>5, LenProperties
  <2> QED BY <1>2, <2>3, <2>5, <2>6, <2>7
<1> QED BY <1>4, <1>5

\* A token that is rolled back leaves as many pages spare as it needs to come again.
LEMMA RollbackGives ==
  ASSUME SInv, Proved!IInv, Proved!Sharing, NEW id \in DOMAIN active, RollbackToken(id),
         seqs[id].tokens > PromptLen(id)
  PROVE  /\ ExtraNeed(id)' \in Nat
         /\ Cardinality(SparePages) + ExtraNeed(id)' <= Cardinality(SparePages')
<1>0. PICK t, keep, blocks :
        /\ t = seqs[id].tokens /\ keep = BlocksFor(seqs[id].tokens - 1) /\ blocks = seqs[id].blocks
  OBVIOUS
<1>1. /\ seqs[id] \in [slot : Slots, blocks : Seq(Pages), tokens : Nat] /\ id \in DOMAIN seqs
      /\ Len(blocks) = BlocksFor(t) /\ IsInjective(blocks) /\ blocks \in Seq(Pages) /\ t \in Nat
  BY <1>0, CacheFacts
<1>2. PromptLen(id) \in Nat /\ t - 1 \in Nat /\ PromptLen(id) <= t - 1 /\ t - 1 <= t
  <2>1. PromptLen(id) \in Nat
    BY RequestFacts DEF SInv
  <2> QED BY <1>0, <1>1, <2>1
<1>3. /\ keep \in Nat /\ Len(blocks) \in Nat /\ keep <= Len(blocks)
      /\ BlocksFor(PromptLen(id)) <= keep /\ BlocksFor(PromptLen(id)) \in Nat
  BY <1>0, <1>1, <1>2, BlocksForMonotonic
<1>4. /\ entries' = entries /\ DOMAIN seqs' = DOMAIN seqs
      /\ \A j \in DOMAIN seqs : j # id => seqs'[j] = seqs[j]
      /\ seqs'[id].tokens = t - 1 /\ seqs'[id].blocks = SubSeq(blocks, 1, keep)
  <2>1. /\ entries' = entries
        /\ seqs' = [seqs EXCEPT ![id].tokens = @ - 1, ![id].blocks = SubSeq(blocks, 1, keep)]
    BY <1>0 DEF RollbackToken
  <2>2. seqs'[id] = [seqs[id] EXCEPT !.tokens = @ - 1, !.blocks = SubSeq(blocks, 1, keep)]
    BY <1>1, <2>1
  <2> QED BY <1>0, <1>1, <2>1, <2>2
<1> DEFINE P == {blocks[i] : i \in (keep + 1)..Len(blocks)}
<1>5. /\ DOMAIN blocks = 1..Len(blocks) /\ SubSeq(blocks, 1, keep) \in Seq(Pages)
      /\ Len(SubSeq(blocks, 1, keep)) = keep
      /\ \A i \in 1..keep : SubSeq(blocks, 1, keep)[i] = blocks[i]
  <2>1. keep \in 0..Len(blocks)
    BY <1>3
  <2> QED BY <1>1, <2>1, PrefixOfSeq, LenProperties
<1>6. P \subseteq HeldPages
  <2>1. P \subseteq SeqPages(id)
    <3>1. (keep + 1)..Len(blocks) \subseteq 1..Len(blocks)
      BY <1>3
    <3> QED BY <1>0, <1>5, <3>1 DEF SeqPages, Range
  <2> QED BY <1>1, <2>1 DEF HeldPages
<1>7. SeqPages(id)' \subseteq SeqPages(id) /\ SeqPages(id)' \cap P = {}
  <2>1. SeqPages(id)' = {blocks[i] : i \in 1..keep}
    <3>1. DOMAIN SubSeq(blocks, 1, keep) = 1..keep
      BY <1>3, <1>5, LenProperties
    <3> QED BY <1>4, <1>5, <3>1 DEF SeqPages, Range
  <2>2. SeqPages(id) = {blocks[i] : i \in 1..Len(blocks)}
    BY <1>0, <1>5 DEF SeqPages, Range
  <2>3. 1..keep \subseteq 1..Len(blocks)
    BY <1>3
  <2>4. \A i \in 1..keep, k \in (keep + 1)..Len(blocks) : blocks[i] # blocks[k]
    <3> SUFFICES ASSUME NEW i \in 1..keep, NEW k \in (keep + 1)..Len(blocks), blocks[i] = blocks[k]
                 PROVE  FALSE
      OBVIOUS
    <3>1. i \in 1..Len(blocks) /\ k \in 1..Len(blocks) /\ i # k
      BY <1>3
    <3> QED BY <1>1, <1>5, <3>1 DEF IsInjective
  <2> QED BY <2>1, <2>2, <2>3, <2>4
<1>8. \A b \in P : /\ \A j \in DOMAIN seqs : j # id => b \notin SeqPages(j)
                   /\ \A s \in DOMAIN entries : b \notin EntryPages(s)
  <2> SUFFICES ASSUME NEW i \in (keep + 1)..Len(blocks)
               PROVE  /\ \A j \in DOMAIN seqs : j # id => blocks[i] \notin SeqPages(j)
                      /\ \A s \in DOMAIN entries : blocks[i] \notin EntryPages(s)
    OBVIOUS
  <2>1. i \in DOMAIN seqs[id].blocks /\ i > BlocksFor(PromptLen(id))
    BY <1>0, <1>3, <1>5
  <2> QED BY <1>0, <2>1, GrownPagesOwn
<1>9. PinnedPages' = PinnedPages
  BY <1>4 DEF PinnedPages, EntryPages
<1>10. HeldPages' \subseteq HeldPages /\ HeldPages' \cap P = {}
  <2>1. ASSUME NEW j \in DOMAIN seqs PROVE SeqPages(j)' \subseteq HeldPages
             /\ SeqPages(j)' \cap P = {}
    <3>1. SeqPages(j) \subseteq HeldPages
      BY <2>1 DEF HeldPages
    <3>2. CASE j = id
      BY <1>7, <3>1, <3>2
    <3>3. CASE j # id
      <4>1. SeqPages(j)' = SeqPages(j)
        BY <1>4, <3>3 DEF SeqPages
      <4>2. SeqPages(j) \cap P = {}
        BY <1>8, <3>3
      <4> QED BY <3>1, <4>1, <4>2
    <3> QED BY <3>2, <3>3
  <2> HIDE DEF P
  <2> QED BY <1>4, <2>1 DEF HeldPages
<1>11. PinnedPages \cap P = {}
  <2>1. PinnedPages \subseteq UNION {EntryPages(s) : s \in DOMAIN entries}
    BY DEF PinnedPages
  <2> HIDE DEF P
  <2> QED BY <1>8, <2>1
<1>12. SparePages \cup P \subseteq SparePages' /\ SparePages \cap P = {} /\ P \subseteq Pages
  <2>1. P \subseteq Pages
    BY <1>6, HeldCount
  <2> HIDE DEF P
  <2> QED BY <1>6, <1>9, <1>10, <1>11, <2>1 DEF SparePages
<1>13. IsFiniteSet(P) /\ Cardinality(P) = Len(blocks) - keep
  <2> DEFINE I == (keep + 1)..Len(blocks)
             f == [i \in I |-> blocks[i]]
  <2>1. IsFiniteSet(I) /\ Cardinality(I) = Len(blocks) - keep
    <3>1. keep + 1 \in Int /\ Len(blocks) \in Int
      BY <1>3
    <3>2. IsFiniteSet(I)
          /\ Cardinality(I) = IF keep + 1 > Len(blocks) THEN 0 ELSE Len(blocks) - (keep + 1) + 1
      BY <3>1, FS_Interval
    <3> QED BY <1>3, <3>2
  <2>2. I \subseteq DOMAIN blocks
    BY <1>3, <1>5
  <2> HIDE DEF I
  <2>3. f \in Bijection(I, P)
    <3>1. \A i, k \in I : blocks[i] = blocks[k] => i = k
      BY <1>1, <2>2 DEF IsInjective
    <3>2. P = {blocks[i] : i \in I}
      BY DEF I
    <3> HIDE DEF P
    <3>3. f \in [I -> P] /\ DOMAIN f = I /\ \A i \in I : f[i] = blocks[i]
      BY <3>2
    <3>4. \A y \in P : \E i \in I : f[i] = y
      BY <3>2
    <3> HIDE DEF f
    <3>5. IsInjective(f)
      BY <3>1, <3>3 DEF IsInjective
    <3> QED BY <3>3, <3>4, <3>5 DEF Bijection, Injection, Surjection
  <2> HIDE DEF P
  <2>4. ExistsBijection(I, P)
    BY <2>3 DEF ExistsBijection
  <2>5. IsFiniteSet(P) /\ Cardinality(P) = Cardinality(I)
    BY <2>1, <2>4, FS_Bijection
  <2> QED BY <2>1, <2>5
<1>14. ExtraNeed(id)' = Len(blocks) - keep
  <2>1. ExtraNeed(id)' = IF BlocksFor(seqs'[id].tokens + 1) > Len(seqs'[id].blocks)
                         THEN BlocksFor(seqs'[id].tokens + 1) - Len(seqs'[id].blocks) ELSE 0
    BY DEF ExtraNeed, BlocksFor
  <2>2. seqs'[id].tokens + 1 = t /\ Len(seqs'[id].blocks) = keep
    BY <1>1, <1>4, <1>5
  <2>3. ExtraNeed(id)' = IF Len(blocks) > keep THEN Len(blocks) - keep ELSE 0
    BY <1>1, <2>1, <2>2
  <2> QED BY <1>3, <2>3
<1> HIDE DEF P
<1>15. /\ Cardinality(SparePages \cup P) = Cardinality(SparePages) + Cardinality(P)
       /\ Cardinality(SparePages \cup P) <= Cardinality(SparePages')
       /\ Cardinality(SparePages) \in Nat /\ Cardinality(P) \in Nat
            /\ Cardinality(SparePages') \in Nat
  <2> DEFINE A == SparePages
             B == SparePages'
  <2>1. IsFiniteSet(A) /\ IsFiniteSet(B) /\ A \cup P \subseteq B /\ A \cap P = {}
    <3>1. SparePages' \subseteq Pages
      BY DEF SparePages
    <3> QED BY <1>12, <3>1, SpareFinite, CacheAssumption, FS_Subset DEF CacheAssumption
  <2> HIDE DEF A, B
  <2>2. /\ IsFiniteSet(A \cup P)
        /\ Cardinality(A \cup P) = Cardinality(A) + Cardinality(P) - Cardinality(A \cap P)
    BY <1>13, <2>1, FS_Union
  <2>3. Cardinality(A \cap P) = 0
    BY <2>1, FS_EmptySet
  <2>4. Cardinality(A) \in Nat /\ Cardinality(P) \in Nat /\ Cardinality(B) \in Nat
    BY <1>13, <2>1, FS_CardinalityType
  <2>5. Cardinality(A \cup P) <= Cardinality(B)
    BY <2>1, FS_Subset
  <2>6. Cardinality(A \cup P) = Cardinality(A) + Cardinality(P)
    BY <2>2, <2>3, <2>4
  <2> QED BY <2>4, <2>5, <2>6 DEF A, B
<1> QED BY <1>3, <1>13, <1>14, <1>15

\* The facts about a sum of needs, after a step.
LEMMA NeedOfOneNext ==
  ASSUME NEW S, NEW id
  PROVE  (SInv /\ Proved!IInv /\ S \subseteq DOMAIN active /\ id \in S =>
            /\ ExtraNeed(id) \in Nat /\ NeedOf(S \ {id}) \in Nat
            /\ NeedOf(S) = ExtraNeed(id) + NeedOf(S \ {id}))'
<1>1. SInv /\ Proved!IInv /\ S \subseteq DOMAIN active /\ id \in S =>
            /\ ExtraNeed(id) \in Nat /\ NeedOf(S \ {id}) \in Nat
            /\ NeedOf(S) = ExtraNeed(id) + NeedOf(S \ {id})
  BY NeedOfOne
<1> QED BY <1>1, PTL

\* A decode that is taken back gives up the pages it needs again, and its place.
LEMMA AbortDecodeReserve ==
  ASSUME SInv, Proved!IInv, Proved!Sharing, RInv, SInv', Proved!IInv', MapPart', AbortDecode
  PROVE  RInv'
<1>0. PICK id : id = Last(batch.decode)
  OBVIOUS
<1>1. /\ step = "abort" /\ batch.prefill = <<>> /\ batch.decode # <<>>
      /\ RollbackToken(id) /\ decodeReady' = <<id>> \o decodeReady /\ prefillReady' = prefillReady
      /\ active' = [active EXCEPT ![id].phase = "DecodeReady"]
      /\ batch' = [batch EXCEPT !.decode = Front(@)]
      /\ step' = Rest(batch')
  BY <1>0 DEF AbortDecode
<1>2. /\ batch.decode \in Seq(Ids) /\ IsInjective(batch.decode)
      /\ Range(batch.decode) = WithPhase("DecodeInFlight")
  BY BatchCounts DEF SInv, BatchPart
<1>3. /\ id \in Range(batch.decode) /\ Len(Front(batch.decode)) = Len(batch.decode) - 1
      /\ Len(batch.decode) \in Nat \ {0} /\ id \in Ids
  BY <1>0, <1>1, <1>2, QueueFront
<1>4. id \in DOMAIN active /\ active[id].phase = "DecodeInFlight"
  BY <1>2, <1>3 DEF WithPhase
<1>5. /\ batch'.decode = Front(batch.decode) /\ batch'.prefill = <<>> /\ step' \in {"idle", "abort"}
  BY <1>1, BatchCounts DEF BatchType, Rest
<1>6. LoopPart'
  BY <1>5 DEF LoopPart
<1>7. Len(batch.prefill) = 0 /\ Len(batch'.prefill) = 0
  BY <1>1, <1>5
<1>8. LimitPart' /\ NumTokens' = Len(batch.decode) - 1
  <2>1. Len(batch.decode) + Len(batch.prefill) <= MaxSeqs
    BY <1>1 DEF RInv, LimitPart
  <2>2. Len(batch'.decode) \in Nat /\ Len(batch'.decode) <= MaxSeqs
    BY <1>3, <1>5, <1>7, <2>1, SchedulerAssumption
  <2> QED BY <1>3, <1>5, <2>2, LimitDecodes
<1>9. NumTokens = Len(batch.decode)
  BY <1>1, NoChunks
<1>10. Due' = Due /\ DOMAIN active' = DOMAIN active
       /\ \A j \in DOMAIN active : active'[j].prefilled = active[j].prefilled
  <2>1. DOMAIN active' = DOMAIN active
    BY <1>1
  <2>2. ASSUME NEW j \in DOMAIN active
        PROVE  active'[j].restore = active[j].restore /\ active'[j].prefilled = active[j].prefilled
    <3>1. active[j] \in Record
      BY RequestFacts DEF SInv
    <3>2. CASE j = id
      BY <1>1, <3>1, <3>2 DEF Record
    <3>3. CASE j # id
      BY <1>1, <3>3
    <3> QED BY <3>2, <3>3
  <2> QED BY <2>1, <2>2 DEF Due
<1>11. /\ decodeReady \in Seq(Ids) /\ Len(decodeReady) \in Nat
       /\ Len(decodeReady') = Len(decodeReady) + 1
       /\ Range(decodeReady') = Range(decodeReady) \cup {id} /\ id \notin Range(decodeReady)
  <2>1. decodeReady \in Seq(Ids) /\ Len(decodeReady) \in Nat
    BY BatchCounts
  <2>2. <<id>> \in Seq(Ids) /\ Len(<<id>>) = 1 /\ Range(<<id>>) = {id}
    BY <1>3 DEF Range
  <2>3. PICK q, r : q = <<id>> /\ r = decodeReady
    OBVIOUS
  <2>4. Len(q \o r) = Len(q) + Len(r) /\ Range(q \o r) = Range(q) \cup Range(r)
    BY <2>1, <2>2, <2>3, JoinRange
  <2>5. id \notin Range(decodeReady)
    <3>1. Range(decodeReady) = WithPhase("DecodeReady")
      BY DEF SInv, QueuePart
    <3> QED BY <1>4, <3>1 DEF WithPhase
  <2>6. decodeReady' = q \o r
    BY <1>1, <2>3
  <2>7. Len(decodeReady') = 1 + Len(decodeReady)
             /\ Range(decodeReady') = {id} \cup Range(decodeReady)
    BY <2>2, <2>3, <2>4, <2>6
  <2> QED BY <2>1, <2>5, <2>7
<1>12. DuePart'
  <2>1. ~Launched'
    BY <1>5 DEF Launched
  <2>2. \A j \in Range(prefillReady') :
          /\ Before(prefillReady', j) \subseteq Before(prefillReady, j)
          /\ active'[j].prefilled = active[j].prefilled
    BY <1>1, <1>10, BatchCounts
  <2>3. /\ Len(decodeReady') + Len(batch'.decode) + Len(batch'.prefill)
             <= Len(decodeReady) + Len(batch.decode) + Len(batch.prefill)
        /\ Len(decodeReady') + NumTokens' <= Len(decodeReady) + NumTokens
    <3>1. \A a, b \in Nat : (a + 1) + (b - 1) + 0 <= a + b + 0 /\ (a + 1) + (b - 1) <= a + b
      OBVIOUS
    <3>2. Len(batch.decode) \in Nat
      BY <1>3
    <3> QED BY <1>3, <1>5, <1>7, <1>8, <1>9, <1>11, <3>1, <3>2, Zenon
  <2>4. Range(prefillReady') \cap Due' \subseteq Range(prefillReady) \cap Due
    BY <1>1, <1>10
  <2> QED BY <2>1, <2>2, <2>3, <2>4, DueSame DEF RInv
<1>13. NextPart'
  <2> SUFFICES ASSUME Due' # {}
               PROVE  NeedOf(Range(decodeReady))' <= Cardinality(SparePages')
    BY DEF NextPart
  <2>0. PICK R, Q : R = Range(decodeReady) /\ Q = Range(decodeReady')
    OBVIOUS
  <2>1. NeedOf(R) <= Cardinality(SparePages)
    BY <1>10, <2>0 DEF RInv, NextPart
  <2>2. R \in SUBSET DOMAIN active /\ Q \in SUBSET DOMAIN active' /\ R = Q \ {id} /\ id \in Q
    BY <1>4, <1>10, <1>11, <2>0, BatchCounts
  <2>3. NeedOf(Q)' = ExtraNeed(id)' + NeedOf(R)' /\ NeedOf(R)' \in Nat
    <3>1. NeedOf(Q)' = ExtraNeed(id)' + NeedOf(Q \ {id})' /\ NeedOf(Q \ {id})' \in Nat
      BY <2>2, NeedOfOneNext
    <3>2. NeedOf(Q \ {id})' = NeedOf(R)'
      BY <2>2
    <3> QED BY <3>1, <3>2
  <2>4. NeedOf(R)' = NeedOf(R)
    <3>1. \A j \in DOMAIN seqs : j # id => seqs'[j] = seqs[j]
      BY <1>1 DEF RollbackToken
    <3>2. \A j \in R : seqs'[j] = seqs[j]
      BY <2>2, <3>1, CacheFacts
    <3>3. R \subseteq DOMAIN active'
      BY <1>10, <2>2
    <3> QED BY <2>2, <3>2, <3>3, NeedSame
  <2>5. ExtraNeed(id)' \in Nat
             /\ Cardinality(SparePages) + ExtraNeed(id)' <= Cardinality(SparePages')
    <3>1. seqs[id].tokens > PromptLen(id)
      <4>1. /\ Counted(id) /\ extra \in Nat /\ active[id].generated \in Nat /\ PromptLen(id) \in Nat
        BY <1>4, RequestFacts, SchedulerAssumption DEF SInv, ExtraPart
      <4>2. seqs[id].tokens = PromptLen(id) + active[id].generated + (1 + extra)
        BY <1>4, <4>1 DEF Counted
      <4> QED BY <4>1, <4>2
    <3> QED BY <1>1, <1>4, <3>1, RollbackGives
  <2>6. Cardinality(SparePages) \in Nat /\ Cardinality(SparePages') \in Nat
    <3>1. SparePages' \subseteq Pages
      BY DEF SparePages
    <3> QED BY <3>1, SpareFinite, CacheAssumption, FS_Subset, FS_CardinalityType DEF CacheAssumption
  <2>7. NeedOf(Q)' <= Cardinality(SparePages')
    BY <2>1, <2>3, <2>4, <2>5, <2>6
  <2>8. NeedOf(Range(decodeReady))' = NeedOf(Q)'
    BY <2>0 DEF NeedOf
  <2> QED BY <2>7, <2>8
<1> QED BY <1>6, <1>8, <1>12, <1>13 DEF RInv

-----------------------------------------------------------------------------
(* Every step.                                                             *)

\* Nothing is promised by the idle scheduler.
LEMMA ReservationStarts == Init => RInv
<1> SUFFICES ASSUME Init PROVE RInv
  OBVIOUS
<1>1. /\ prefillReady = <<>> /\ decodeReady = <<>> /\ active = <<>> /\ step = "idle"
      /\ batch.decode = <<>> /\ batch.prefill = <<>>
  BY DEF Init, EmptyBatch
<1>2. DOMAIN active = {} /\ Due = {}
  BY <1>1 DEF Due
<1>3. MapPart
  BY <1>1, <1>2 DEF MapPart
<1>4. LoopPart
  BY <1>1 DEF LoopPart
<1>5. ChunkIds = <<>> /\ Range(ChunkIds) = {}
  BY <1>1 DEF ChunkIds, Range
<1>6. WholeOf(Range(ChunkIds)) = 0
  BY <1>5, EmptySums
<1>7. NumTokens \in Nat /\ MaxSeqs \in Nat \ {0}
  BY SchedulerStarts, BatchCounts, SchedulerAssumption DEF SchedulerAssumption
<1>8. LimitPart
  BY <1>1, <1>5, <1>6, <1>7 DEF LimitPart
<1>9. DuePart /\ NextPart
  BY <1>2 DEF DuePart, NextPart
<1> QED BY <1>3, <1>4, <1>8, <1>9 DEF RInv

\* A step of nobody changes nothing.
LEMMA StutterReserve ==
  ASSUME SInv, Proved!IInv, RInv, SInv', Proved!IInv', UNCHANGED vars
  PROVE  RInv'
<1>1. UNCHANGED <<active, batch, prefillReady, decodeReady, cacheVars, step, left>>
  BY DEF vars, queueVars
<1>2. LoopPart'
  BY <1>1 DEF RInv, LoopPart, Room, NumTokens
<1>3. Launched' => Range(prefillReady) \cap Due = {}
  BY <1>1 DEF RInv, DuePart, Launched
<1>4. CASE step # "complete"
  BY <1>1, <1>2, <1>3, <1>4, QuietStep
<1>5. CASE step = "complete"
  <2>1. MapPart' /\ LimitPart'
    BY <1>1, <1>5 DEF RInv, MapPart, LimitPart
  <2>2. Due' = Due
    BY <1>1 DEF Due
  <2>3. DuePart'
    BY <1>1, <1>3, <1>5, <2>2, DueNone DEF Launched
  <2>4. SparePages \subseteq SparePages'
    <3>1. HeldPages' \subseteq HeldPages /\ PinnedPages' \subseteq PinnedPages
      BY <1>1 DEF cacheVars, HeldPages, PinnedPages, SeqPages, EntryPages
    <3> QED BY <3>1, SpareMore
  <2>5. Range(decodeReady') \subseteq DOMAIN active' /\ seqs' = seqs
    BY <1>1, BatchCounts DEF cacheVars
  <2>6. NextPart'
    BY <1>1, <2>2, <2>4, <2>5, NextSame DEF RInv
  <2> QED BY <1>2, <2>1, <2>3, <2>6 DEF RInv
<1> QED BY <1>4, <1>5

\* Every step keeps what is promised.
LEMMA ReserveStep ==
  ASSUME SInv, Proved!IInv, Proved!Sharing, RInv, [Next]_vars
  PROVE  RInv'
<1>1. SInv' /\ Proved!IInv'
  BY NextStep, CacheKept
<1>2. MapPart'
  BY MapKept DEF RInv
<1>3. CASE Advance
  <2>1. CASE BeginBatch \/ DecodePlanned \/ BeginAdmission \/ EndAdmission \/ EndBatch
    BY <1>1, <2>1, LoopReserve
  <2>2. CASE BeginComplete
    BY <1>1, <2>2, CompleteReserve
  <2>3. CASE PlanDecode
    BY <1>1, <1>2, <2>3, DecodeReserve
  <2>4. CASE PlanChunk
    BY <1>2, <2>4, ChunkReserve
  <2>5. CASE AdmitMiss \/ AdmitMatch
    BY <1>2, <2>5, AdmitReserve
  <2>6. CASE PassOver
    BY <1>1, <2>6, PassOverReserve
  <2>7. CASE CompleteRestore
    BY <1>1, <1>2, <2>7, RestoreReserve
  <2>8. CASE CompleteSave \/ CompleteChunk \/ CompleteDecode
    BY <1>2, <2>8, FinishReserve
  <2>9. CASE AbortSave
    BY <1>1, <2>9, AbortSaveReserve
  <2>10. CASE AbortChunks
    BY <1>2, <2>10, AbortChunksReserve
  <2>11. CASE AbortDecode
    BY <1>1, <1>2, <2>11, AbortDecodeReserve
  <2> QED BY <1>3, <2>1, <2>2, <2>3, <2>4, <2>5, <2>6, <2>7, <2>8, <2>9, <2>10, <2>11 DEF Advance
<1>4. CASE ReserveExtra \/ ReleaseExtra
  BY <1>1, <1>4, ExtraReserve
<1>5. CASE BeginAbort
  BY <1>1, <1>5, LoopReserve
<1>6. ASSUME NEW id \in Ids, Submit(id) \/ CancelWaiting(id) PROVE RInv'
  BY <1>1, <1>6, WaitingReserve
<1>7. ASSUME NEW id \in Ids, CancelActive(id) PROVE RInv'
  BY <1>1, <1>2, <1>7, CancelReserve
<1>8. CASE UNCHANGED vars
  BY <1>1, <1>8, StutterReserve
<1> QED BY <1>3, <1>4, <1>5, <1>6, <1>7, <1>8 DEF Next

\* What is promised holds in every state.
LEMMA ReservationInvariance == Spec => [](SInv /\ Proved!IInv /\ RInv)
<1> DEFINE Inv == SInv /\ Proved!IInv /\ Proved!Sharing /\ RInv
<1>1. Init => Inv
  BY SchedulerStarts, CacheStartsRight, ReservationStarts
<1>2. Inv /\ [Next]_vars => Inv'
  BY NextStep, CacheKept, SharingKept, ReserveStep
<1> QED BY <1>1, <1>2, PTL DEF Spec

-----------------------------------------------------------------------------
(* The properties.                                                         *)

\* What an active request has reserved is there when it needs it: the pages of
\* its whole life can be had while no restore pins any, and no decode the loop
\* of next_batch or the executor's speculation asks for is ever refused.
THEOREM Reservation == Spec => []ReservationKept
<1>1. SInv /\ Proved!IInv /\ RInv => ReservationKept
  BY LifetimeRight, RefusalRight DEF ReservationKept
<1> QED BY <1>1, ReservationInvariance, PTL

\* next_batch returns None only when nobody is active: no request is stuck
\* behind a restore that no batch carries out.
THEOREM NoneStuck == Spec => []NoneMeansNoneActive
<1>1. SInv /\ Proved!IInv /\ RInv => NoneMeansNoneActive
  BY NoneRight
<1> QED BY <1>1, ReservationInvariance, PTL

=============================================================================
