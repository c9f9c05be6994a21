------------------------------ MODULE KvCache ------------------------------
(***************************************************************************)
(* The cache manager of the hybrid model: crates/qwc-runtime/src/cache.rs. *)
(*                                                                         *)
(* A sequence occupies one recurrent state slot and a table of KV pages.   *)
(* Pages are shared by reference counting between sequences and the        *)
(* entries of the prefix cache; an entry is a snapshot of the recurrent    *)
(* state plus the pages that cover its tokens.                             *)
(*                                                                         *)
(* This module has the state and one action per operation of CacheManager. *)
(* It has no Next: CacheManager.tla closes it with the protocol its        *)
(* callers follow, Scheduler.tla with the calls scheduler.rs makes.        *)
(*                                                                         *)
(* Abstractions.  Free lists are sets, where the code pops a stack: the    *)
(* slot or snapshot taken is any free one, and Tables gives the pages that *)
(* may be taken.  The u64 clock behind last_used only orders the entries,  *)
(* so that order is the state.  Entries are keyed by their     *)
(* snapshot, as every lookup of the code is.  Counters are left out.       *)
(***************************************************************************)
EXTENDS Integers, FiniteSets, SequencesExt, Functions

CONSTANTS
  Pages,      \* the KV pages of the pool
  Slots,      \* the recurrent state slots
  Snapshots,  \* the snapshot slots of the prefix cache, {} when it is off
  BlockSize,  \* tokens in a page
  Ids,        \* the sequence numbers in use
  Tables(_, _) \* Tables(n, S): the tables of n pages that can be taken from S

ASSUME CacheAssumption ==
  /\ IsFiniteSet(Pages)
  /\ IsFiniteSet(Slots)
  /\ IsFiniteSet(Snapshots)
  /\ BlockSize \in Nat \ {0}

\* KvPool::acquire pops free pages; which ones they are is left open.
ASSUME TablesAssumption ==
  \A n \in 0..Cardinality(Pages), S \in SUBSET Pages :
    /\ Tables(n, S) \subseteq Injection(1..n, S)
    /\ Tables(n, S) # {} <=> n <= Cardinality(S)

VARIABLES
  refs,           \* KvPool::refs, owners of every page
  freePages,      \* KvPool::free
  freeSlots,      \* StatePool::free
  freeSnapshots,  \* PrefixCache::free_snapshots
  seqs,           \* CacheManager::seqs: id |-> [slot, blocks, tokens]
  entries,        \* PrefixCache::entries: snapshot |-> [tokens, blocks, pins]
  older           \* PrefixEntry::last_used: <<s, t>> when s was used before t

cacheVars == <<refs, freePages, freeSlots, freeSnapshots, seqs, entries, older>>

CacheInit ==
  /\ refs = [b \in Pages |-> 0]
  /\ freePages = Pages
  /\ freeSlots = Slots
  /\ freeSnapshots = Snapshots
  /\ seqs = <<>>
  /\ entries = <<>>
  /\ older = {}

-----------------------------------------------------------------------------
(* Pages and page tables.                                                  *)

BlocksFor(n) == (n + BlockSize - 1) \div BlockSize

SeqPages(id) == Range(seqs[id].blocks)

EntryPages(s) == Range(entries[s].blocks)

\* The entries of S that hold page b.
EntryHolders(S, b) == {s \in S : b \in EntryPages(s)}

\* A page someone other than the entries holds: a live sequence.
Live(b) == refs[b] > Cardinality(EntryHolders(DOMAIN entries, b))

Without(f, S) == [x \in DOMAIN f \ S |-> f[x]]

With(f, x, v) == [y \in DOMAIN f \cup {x} |-> IF y = x THEN v ELSE f[y]]

-----------------------------------------------------------------------------
(* Eviction.                                                               *)

\* The order of use once the entries of S are gone.
OlderWithout(S) == {p \in older : p[1] \notin S /\ p[2] \notin S}

\* Mutant of OlderUsing: the clock does not tick, so s ranks with nobody.
UsedWithoutTick(s, V) == OlderWithout(V \cup {s})

\* The order of use once the entries of V are gone and s is used.
OlderUsing(s, V) ==
  OlderWithout(V \cup {s}) \cup ((DOMAIN entries \ (V \cup {s})) \X {s})

Superseded(s) ==
  \E o \in DOMAIN entries : IsStrictPrefix(entries[s].tokens, entries[o].tokens)

InUse(s) == \E b \in EntryPages(s) : Live(b)

\* Mutant of EvictedBefore: superseded histories are not looked at first.
EvictedByUse(s, t) ==
  \/ ~InUse(s) /\ InUse(t)
  \/ InUse(s) = InUse(t) /\ <<s, t>> \in older

\* The key of min_by_key in evict_one, (!superseded, in_use, last_used).
EvictedBefore(s, t) ==
  \/ Superseded(s) /\ ~Superseded(t)
  \/ /\ Superseded(s) = Superseded(t)
     /\ \/ ~InUse(s) /\ InUse(t)
        \/ InUse(s) = InUse(t) /\ <<s, t>> \in older

\* Mutant of Unpinned: only the pin of the operation under way is respected.
UnpinnedButHeld(held) == DOMAIN entries \ held

\* Unpinned entries; `held` is pinned by the operation under way.
Unpinned(held) == {s \in DOMAIN entries : entries[s].pins = 0} \ held

\* Mutant of PageCandidates: an entry with one live page is passed over.
AllDeadCandidates(held) == {s \in Unpinned(held) : \A b \in EntryPages(s) : ~Live(b)}

\* for_pages: an entry whose pages are all live would free nothing.
PageCandidates(held) == {s \in Unpinned(held) : \E b \in EntryPages(s) : ~Live(b)}

\* Mutant of Freed: an evicted entry frees its pages whoever else holds them.
FreedAtOnce(V) == {b \in Pages : EntryHolders(V, b) # {}}

\* The pages whose last owners are the entries of V.
Freed(V) ==
  {b \in Pages : refs[b] > 0 /\ refs[b] = Cardinality(EntryHolders(V, b))}

\* V is an initial segment of C in the order of eviction.
InitialSegment(V, C) ==
  V \subseteq C /\ \A s \in V, t \in C \ V : EvictedBefore(s, t)

(* The loop of acquire_blocks evicts the first candidate until n pages are *)
(* free or no candidate is left.  Evicting one candidate never changes the *)
(* place of another, so the loop takes the shortest initial segment that   *)
(* is enough, or every candidate.                                          *)
PageVictims(V, n, held) ==
  LET Enough(W) == Cardinality(freePages \cup Freed(W)) >= n
      C == PageCandidates(held)
  IN  /\ InitialSegment(V, C)
      /\ Enough(V) \/ V = C
      /\ \A W \in SUBSET V : W # V /\ InitialSegment(W, C) => ~Enough(W)

\* Mutant of RefsAfter: the shared pages are not retained.
RefsNotRetained(V, fresh, shared) ==
  [b \in Pages |-> IF b \in fresh THEN 1 ELSE refs[b] - Cardinality(EntryHolders(V, b))]

\* The reference counts once V is evicted, `fresh` acquired, `shared` retained.
RefsAfter(V, fresh, shared) ==
  [b \in Pages |->
     IF b \in fresh THEN 1
     ELSE refs[b] - Cardinality(EntryHolders(V, b)) + (IF b \in shared THEN 1 ELSE 0)]

\* acquire_blocks succeeds with the n pages of `fresh`, evicting V; `shared`
\* is what the caller retains next.
AcquireBlocks(n, held, V, fresh, shared) ==
  /\ PageVictims(V, n, held)
  /\ n <= Cardinality(freePages \cup Freed(V))
  /\ fresh \in Tables(n, freePages \cup Freed(V))
  /\ refs' = RefsAfter(V, Range(fresh), shared)
  /\ freePages' = (freePages \cup Freed(V)) \ Range(fresh)
  /\ freeSnapshots' = freeSnapshots \cup V

\* acquire_blocks evicts every candidate and still comes short.
AcquireRefused(n, held) ==
  LET V == PageCandidates(held)
  IN  /\ Cardinality(freePages \cup Freed(V)) < n
      /\ refs' = RefsAfter(V, {}, {})
      /\ freePages' = freePages \cup Freed(V)
      /\ freeSnapshots' = freeSnapshots \cup V
      /\ entries' = Without(entries, V)
      /\ older' = OlderWithout(V)
      /\ UNCHANGED <<freeSlots, seqs>>

\* KvPool::release: one owner of each page of P leaves.
ReleasePages(P) ==
  /\ refs' = [b \in Pages |-> IF b \in P THEN refs[b] - 1 ELSE refs[b]]
  /\ freePages' = freePages \cup {b \in P : refs[b] = 1}

-----------------------------------------------------------------------------
(* Admission without a prefix.                                             *)

Admit(id, n) ==
  /\ id \notin DOMAIN seqs
  /\ \E slot \in freeSlots, V \in SUBSET PageCandidates({}) :
       \E fresh \in Tables(BlocksFor(n), freePages \cup Freed(V)) :
         /\ AcquireBlocks(BlocksFor(n), {}, V, fresh, {})
         /\ freeSlots' = freeSlots \ {slot}
         /\ seqs' = With(seqs, id, [slot |-> slot, blocks |-> fresh, tokens |-> n])
         /\ entries' = Without(entries, V)
         /\ older' = OlderWithout(V)

\* NoKvBlocks.  The slot is looked at first, so nothing but entries is lost.
AdmitRefused(id, n) ==
  /\ id \notin DOMAIN seqs
  /\ freeSlots # {}
  /\ AcquireRefused(BlocksFor(n), {})

-----------------------------------------------------------------------------
(* Admission that continues a cached prefix.                               *)

Matches(prompt) ==
  {s \in DOMAIN entries : /\ Len(entries[s].tokens) >= BlockSize
                          /\ IsStrictPrefix(entries[s].tokens, prompt)}

BestMatch(s, prompt) ==
  /\ s \in Matches(prompt)
  /\ \A t \in Matches(prompt) : Len(entries[t].tokens) <= Len(entries[s].tokens)

\* Mutant of FullPages: the page the entry ends inside is shared too.
TouchedPages(s) == BlocksFor(Len(entries[s].tokens))

\* Whole pages of the entry; the page it ends inside is copied, not shared.
FullPages(s) == Len(entries[s].tokens) \div BlockSize

EndsInsidePage(s) == Len(entries[s].tokens) % BlockSize # 0

FreshNeed(s, prompt) == BlocksFor(Len(prompt)) - FullPages(s)

AdmitHit(id, prompt, s) ==
  /\ id \notin DOMAIN seqs
  /\ BestMatch(s, prompt)
  /\ LET need == FreshNeed(s, prompt)
         shared == SubSeq(entries[s].blocks, 1, FullPages(s))
     IN  \E slot \in freeSlots, V \in SUBSET PageCandidates({s}) :
           \E fresh \in Tables(need, freePages \cup Freed(V)) :
             /\ AcquireBlocks(need, {s}, V, fresh, Range(shared))
             /\ freeSlots' = freeSlots \ {slot}
             /\ seqs' = With(seqs, id, [slot |-> slot, blocks |-> shared \o fresh,
                                        tokens |-> Len(prompt)])
             /\ entries' = [Without(entries, V) EXCEPT ![s].pins = @ + 1]
             /\ older' = OlderUsing(s, V)

\* The pin is taken back: the entry is as evictable as before.
AdmitHitRefused(id, prompt, s) ==
  /\ id \notin DOMAIN seqs
  /\ freeSlots # {}
  /\ BestMatch(s, prompt)
  /\ AcquireRefused(FreshNeed(s, prompt), {s})

\* The entries with one pin taken from each snapshot of S that is still cached.
Unpin(S) ==
  [s \in DOMAIN entries |->
     IF s \in S /\ entries[s].pins > 0
     THEN [entries[s] EXCEPT !.pins = @ - 1]
     ELSE entries[s]]

FinishRestore(s) ==
  /\ entries' = Unpin({s})
  /\ UNCHANGED <<refs, freePages, freeSlots, freeSnapshots, seqs, older>>

-----------------------------------------------------------------------------
(* Decode growth.                                                          *)

\* Mutant of ExtraNeed: the page is only added after it is needed.
ExtraNeedLate(id) ==
  LET need == BlocksFor(seqs[id].tokens)
      have == Len(seqs[id].blocks)
  IN  IF need > have THEN need - have ELSE 0

\* Pages append_token has to add to a sequence's table for one more token.
ExtraNeed(id) ==
  LET need == BlocksFor(seqs[id].tokens + 1)
      have == Len(seqs[id].blocks)
  IN  IF need > have THEN need - have ELSE 0

AppendToken(id) ==
  /\ id \in DOMAIN seqs
  /\ \E V \in SUBSET PageCandidates({}) :
       \E fresh \in Tables(ExtraNeed(id), freePages \cup Freed(V)) :
         /\ AcquireBlocks(ExtraNeed(id), {}, V, fresh, {})
         /\ seqs' = [seqs EXCEPT ![id].tokens = @ + 1, ![id].blocks = @ \o fresh]
         /\ entries' = Without(entries, V)
         /\ older' = OlderWithout(V)
  /\ UNCHANGED freeSlots

AppendRefused(id) ==
  /\ id \in DOMAIN seqs
  /\ AcquireRefused(ExtraNeed(id), {})

RollbackToken(id) ==
  /\ id \in DOMAIN seqs
  /\ seqs[id].tokens > 0
  /\ LET keep == BlocksFor(seqs[id].tokens - 1)
         blocks == seqs[id].blocks
     IN  /\ ReleasePages(Range(SubSeq(blocks, keep + 1, Len(blocks))))
         /\ seqs' = [seqs EXCEPT ![id].tokens = @ - 1,
                                 ![id].blocks = SubSeq(blocks, 1, keep)]
  /\ UNCHANGED <<freeSlots, freeSnapshots, entries, older>>

-----------------------------------------------------------------------------
(* Snapshots.                                                              *)

ReserveSnapshot(s) ==
  /\ \/ /\ s \in freeSnapshots
        /\ freeSnapshots' = freeSnapshots \ {s}
        /\ UNCHANGED <<refs, freePages, entries, older>>
     \/ /\ freeSnapshots = {}
        /\ s \in Unpinned({})
        /\ \A t \in Unpinned({}) \ {s} : EvictedBefore(s, t)
        /\ ReleasePages(EntryPages(s))
        /\ entries' = Without(entries, {s})
        /\ older' = OlderWithout({s})
        /\ UNCHANGED freeSnapshots
  /\ UNCHANGED <<freeSlots, seqs>>

\* None: the cache is off, or every entry is pinned.
NoSnapshot == freeSnapshots = {} /\ Unpinned({}) = {}

CancelSnapshot(s) ==
  /\ freeSnapshots' = freeSnapshots \cup {s}
  /\ UNCHANGED <<refs, freePages, freeSlots, seqs, entries, older>>

\* The entry of the same tokens, if there is one, is only touched.
TouchSnapshot(s, tokens) ==
  \E t \in DOMAIN entries :
    /\ entries[t].tokens = tokens
    /\ freeSnapshots' = freeSnapshots \cup {s}
    /\ older' = OlderUsing(t, {})
    /\ UNCHANGED <<refs, freePages, freeSlots, seqs, entries>>

StoreSnapshot(s, id, tokens) ==
  LET blocks == SubSeq(seqs[id].blocks, 1, BlocksFor(Len(tokens)))
  IN  /\ \A t \in DOMAIN entries : entries[t].tokens # tokens
      /\ refs' = [b \in Pages |-> IF b \in Range(blocks) THEN refs[b] + 1 ELSE refs[b]]
      /\ entries' = With(entries, s, [tokens |-> tokens, blocks |-> blocks, pins |-> 0])
      /\ older' = OlderUsing(s, {})
      /\ UNCHANGED <<freePages, freeSlots, freeSnapshots, seqs>>

\* Mutant of CommitSnapshot: the snapshot of a sequence that is gone is lost.
CommitLosesSnapshot(s, id, tokens) ==
  \/ id \notin DOMAIN seqs /\ UNCHANGED cacheVars
  \/ id \in DOMAIN seqs /\ TouchSnapshot(s, tokens)
  \/ id \in DOMAIN seqs /\ StoreSnapshot(s, id, tokens)

CommitSnapshot(s, id, tokens) ==
  \/ id \notin DOMAIN seqs /\ CancelSnapshot(s)
  \/ id \in DOMAIN seqs /\ TouchSnapshot(s, tokens)
  \/ id \in DOMAIN seqs /\ StoreSnapshot(s, id, tokens)

-----------------------------------------------------------------------------
(* The end of a sequence.                                                  *)

\* Mutant of Release: the state slot is not given back.
ReleaseKeepsSlot(id, due) ==
  /\ id \in DOMAIN seqs
  /\ ReleasePages(SeqPages(id))
  /\ seqs' = Without(seqs, {id})
  /\ entries' = Unpin(due)
  /\ UNCHANGED <<freeSlots, freeSnapshots, older>>

\* A cancelled sequence also gives up the pin of a restore that was still due.
Release(id, due) ==
  /\ id \in DOMAIN seqs
  /\ freeSlots' = freeSlots \cup {seqs[id].slot}
  /\ ReleasePages(SeqPages(id))
  /\ seqs' = Without(seqs, {id})
  /\ entries' = Unpin(due)
  /\ UNCHANGED <<freeSnapshots, older>>

=============================================================================
