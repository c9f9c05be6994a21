-------------------------- MODULE SchedulerProofs ---------------------------
(***************************************************************************)
(* The scheduler keeps its accounts and its queues, undoes nothing, and    *)
(* implements the cache manager.                                           *)
(*                                                                         *)
(* SInv is inductive beside what CacheManagerProofs knows of the cache:    *)
(* the queues and the batch hold every active request once, in the phase   *)
(* active records; each request's progress is the length of its sequence;  *)
(* the restores and saves of a batch are the pins and the slots the cache  *)
(* keeps for them; committed is the sum of what the active requests may    *)
(* still need, within the capacity.  First come the steps of submit,       *)
(* next_batch and the draft positions, then those that complete, abort and *)
(* cancel: each keeps SInv and is an action of the cache manager or no     *)
(* step of it.                                                             *)
(***************************************************************************)
EXTENDS Scheduler, DataLemmas

\* What is proved of the cache manager, for the cache of the scheduler.
Proved == INSTANCE CacheManagerProofs

-----------------------------------------------------------------------------
(* Copies.  An instance has an operator of its own for every definition;   *)
(* these are the same.                                                     *)

\* Sets, functions and prefixes.
LEMMA SameSets ==
  /\ \A S : Cardinality(S) = Cache!Cardinality(S) /\ Cardinality(S) = Proved!Cardinality(S)
  /\ \A S : (IsFiniteSet(S) <=> Cache!IsFiniteSet(S)) /\ (IsFiniteSet(S) <=> Proved!IsFiniteSet(S))
  /\ \A f : Range(f) = Cache!Range(f) /\ Range(f) = Proved!Range(f)
  /\ \A f : (IsInjective(f) <=> Cache!IsInjective(f)) /\ (IsInjective(f) <=> Proved!IsInjective(f))
  /\ \A S, T : Injection(S, T) = Cache!Injection(S, T) /\ Injection(S, T) = Proved!Injection(S, T)
  /\ \A S : Min(S) = Cache!Min(S) /\ Min(S) = Proved!Min(S)
  /\ \A s, t : IsPrefix(s, t) = Cache!IsPrefix(s, t) /\ IsPrefix(s, t) = Proved!IsPrefix(s, t)
  /\ \A s, t : IsStrictPrefix(s, t) = Cache!IsStrictPrefix(s, t)
       /\ IsStrictPrefix(s, t) = Proved!IsStrictPrefix(s, t)
<1>1. \A S : Cardinality(S) = Cache!Cardinality(S) /\ Cardinality(S) = Proved!Cardinality(S)
  BY DEF Cardinality, Cache!Cardinality, Proved!Cardinality
<1>2. \A S : (IsFiniteSet(S) <=> Cache!IsFiniteSet(S)) /\ (IsFiniteSet(S) <=> Proved!IsFiniteSet(S))
  BY DEF IsFiniteSet, Cache!IsFiniteSet, Proved!IsFiniteSet
<1>3. \A f : Range(f) = Cache!Range(f) /\ Range(f) = Proved!Range(f)
  BY DEF Range, Cache!Range, Proved!Range
<1>4. \A f : (IsInjective(f) <=> Cache!IsInjective(f)) /\ (IsInjective(f) <=> Proved!IsInjective(f))
  BY DEF IsInjective, Cache!IsInjective, Proved!IsInjective
<1>5. \A S, T : Injection(S, T) = Cache!Injection(S, T) /\ Injection(S, T) = Proved!Injection(S, T)
  BY <1>4 DEF Injection, Cache!Injection, Proved!Injection
<1>6. \A S : Min(S) = Cache!Min(S) /\ Min(S) = Proved!Min(S)
  BY DEF Min, Cache!Min, Proved!Min
<1>7. \A s, t : IsPrefix(s, t) = Cache!IsPrefix(s, t) /\ IsPrefix(s, t) = Proved!IsPrefix(s, t)
  BY DEF IsPrefix, Cache!IsPrefix, Proved!IsPrefix
<1>8. \A s, t : IsStrictPrefix(s, t) = Cache!IsStrictPrefix(s, t)
           /\ IsStrictPrefix(s, t) = Proved!IsStrictPrefix(s, t)
  BY <1>7 DEF IsStrictPrefix, Cache!IsStrictPrefix, Proved!IsStrictPrefix
<1> QED BY <1>1, <1>2, <1>3, <1>4, <1>5, <1>6, <1>7, <1>8

\* Page tables and their owners.
LEMMA SameTables ==
  /\ \A n : BlocksFor(n) = Cache!BlocksFor(n) /\ BlocksFor(n) = Proved!BlocksFor(n)
  /\ \A id : SeqPages(id) = Cache!SeqPages(id) /\ SeqPages(id) = Proved!SeqPages(id)
  /\ \A s : EntryPages(s) = Cache!EntryPages(s) /\ EntryPages(s) = Proved!EntryPages(s)
  /\ \A S, b : EntryHolders(S, b) = Cache!EntryHolders(S, b)
       /\ EntryHolders(S, b) = Proved!EntryHolders(S, b)
  /\ \A b : Live(b) = Cache!Live(b) /\ Live(b) = Proved!Live(b)
  /\ \A f, S : Without(f, S) = Cache!Without(f, S) /\ Without(f, S) = Proved!Without(f, S)
  /\ \A f, x, v : With(f, x, v) = Cache!With(f, x, v) /\ With(f, x, v) = Proved!With(f, x, v)
<1>1. \A n : BlocksFor(n) = Cache!BlocksFor(n) /\ BlocksFor(n) = Proved!BlocksFor(n)
  BY SameSets DEF BlocksFor, Cache!BlocksFor, Proved!BlocksFor
<1>2. \A id : SeqPages(id) = Cache!SeqPages(id) /\ SeqPages(id) = Proved!SeqPages(id)
  BY SameSets DEF SeqPages, Cache!SeqPages, Proved!SeqPages
<1>3. \A s : EntryPages(s) = Cache!EntryPages(s) /\ EntryPages(s) = Proved!EntryPages(s)
  BY SameSets DEF EntryPages, Cache!EntryPages, Proved!EntryPages
<1>4. \A S, b : EntryHolders(S, b) = Cache!EntryHolders(S, b)
           /\ EntryHolders(S, b) = Proved!EntryHolders(S, b)
  BY <1>3, SameSets DEF EntryHolders, Cache!EntryHolders, Proved!EntryHolders
<1>5. \A b : Live(b) = Cache!Live(b) /\ Live(b) = Proved!Live(b)
  BY <1>4, SameSets DEF Live, Cache!Live, Proved!Live
<1>6. \A f, S : Without(f, S) = Cache!Without(f, S) /\ Without(f, S) = Proved!Without(f, S)
  BY SameSets DEF Without, Cache!Without, Proved!Without
<1>7. \A f, x, v : With(f, x, v) = Cache!With(f, x, v) /\ With(f, x, v) = Proved!With(f, x, v)
  BY SameSets DEF With, Cache!With, Proved!With
<1> QED BY <1>1, <1>2, <1>3, <1>4, <1>5, <1>6, <1>7

\* The order of eviction and what it frees.
LEMMA SameEviction ==
  /\ \A S : OlderWithout(S) = Cache!OlderWithout(S) /\ OlderWithout(S) = Proved!OlderWithout(S)
  /\ \A s, V : OlderUsing(s, V) = Cache!OlderUsing(s, V)
       /\ OlderUsing(s, V) = Proved!OlderUsing(s, V)
  /\ \A s : Superseded(s) = Cache!Superseded(s) /\ Superseded(s) = Proved!Superseded(s)
  /\ \A s : InUse(s) = Cache!InUse(s) /\ InUse(s) = Proved!InUse(s)
  /\ \A s, t : (EvictedBefore(s, t) <=> Cache!EvictedBefore(s, t))
       /\ (EvictedBefore(s, t) <=> Proved!EvictedBefore(s, t))
  /\ \A held : Unpinned(held) = Cache!Unpinned(held) /\ Unpinned(held) = Proved!Unpinned(held)
  /\ \A held : PageCandidates(held) = Cache!PageCandidates(held)
       /\ PageCandidates(held) = Proved!PageCandidates(held)
  /\ \A V : Freed(V) = Cache!Freed(V) /\ Freed(V) = Proved!Freed(V)
  /\ \A V, C : (InitialSegment(V, C) <=> Cache!InitialSegment(V, C))
       /\ (InitialSegment(V, C) <=> Proved!InitialSegment(V, C))
  /\ \A V, n, held : PageVictims(V, n, held) => Cache!PageVictims(V, n, held)
       /\ Proved!PageVictims(V, n, held)
  /\ \A V, fresh, shared : RefsAfter(V, fresh, shared) = Cache!RefsAfter(V, fresh, shared)
       /\ RefsAfter(V, fresh, shared) = Proved!RefsAfter(V, fresh, shared)
<1>1. \A S : OlderWithout(S) = Cache!OlderWithout(S) /\ OlderWithout(S) = Proved!OlderWithout(S)
  BY SameSets, SameTables DEF OlderWithout, Cache!OlderWithout, Proved!OlderWithout
<1>2. \A s, V : OlderUsing(s, V) = Cache!OlderUsing(s, V)
           /\ OlderUsing(s, V) = Proved!OlderUsing(s, V)
  BY <1>1, SameSets, SameTables DEF OlderUsing, Cache!OlderUsing, Proved!OlderUsing
<1>3. \A s : Superseded(s) = Cache!Superseded(s) /\ Superseded(s) = Proved!Superseded(s)
  BY SameSets, SameTables DEF Superseded, Cache!Superseded, Proved!Superseded
<1>4. \A s : InUse(s) = Cache!InUse(s) /\ InUse(s) = Proved!InUse(s)
  BY SameSets, SameTables DEF InUse, Cache!InUse, Proved!InUse
<1>5. \A s, t : (EvictedBefore(s, t) <=> Cache!EvictedBefore(s, t))
           /\ (EvictedBefore(s, t) <=> Proved!EvictedBefore(s, t))
  BY <1>3, <1>4, SameSets, SameTables DEF EvictedBefore, Cache!EvictedBefore, Proved!EvictedBefore
<1>6. \A held : Unpinned(held) = Cache!Unpinned(held) /\ Unpinned(held) = Proved!Unpinned(held)
  BY SameSets, SameTables DEF Unpinned, Cache!Unpinned, Proved!Unpinned
<1>7. \A held : PageCandidates(held) = Cache!PageCandidates(held)
           /\ PageCandidates(held) = Proved!PageCandidates(held)
  BY <1>6, SameSets, SameTables DEF PageCandidates, Cache!PageCandidates, Proved!PageCandidates
<1>8. \A V : Freed(V) = Cache!Freed(V) /\ Freed(V) = Proved!Freed(V)
  BY SameSets, SameTables DEF Freed, Cache!Freed, Proved!Freed
<1>9. \A V, C : (InitialSegment(V, C) <=> Cache!InitialSegment(V, C))
           /\ (InitialSegment(V, C) <=> Proved!InitialSegment(V, C))
  BY <1>5, SameSets, SameTables DEF InitialSegment, Cache!InitialSegment, Proved!InitialSegment
<1>10. \A V, n, held : PageVictims(V, n, held) => Cache!PageVictims(V, n, held)
            /\ Proved!PageVictims(V, n, held)
  <2>1. \A S : Cardinality(S) = Cache!Cardinality(S) /\ Cardinality(S) = Proved!Cardinality(S)
    BY SameSets
  <2>2. ASSUME NEW V, NEW n, NEW held, PageVictims(V, n, held)
        PROVE  Cache!PageVictims(V, n, held)
    <3>1. PageCandidates(held) = Cache!PageCandidates(held)
      BY <1>7
    <3>2. \A W : Freed(W) = Cache!Freed(W) /\ Cardinality(W) = Cache!Cardinality(W)
      BY <1>8, <2>1
    <3>3. \A W, C : InitialSegment(W, C) <=> Cache!InitialSegment(W, C)
      BY <1>9
    <3> QED BY <2>2, <3>1, <3>2, <3>3 DEF PageVictims, Cache!PageVictims
  <2>3. ASSUME NEW V, NEW n, NEW held, PageVictims(V, n, held)
        PROVE  Proved!PageVictims(V, n, held)
    <3>1. PageCandidates(held) = Proved!PageCandidates(held)
      BY <1>7
    <3>2. \A W : Freed(W) = Proved!Freed(W) /\ Cardinality(W) = Proved!Cardinality(W)
      BY <1>8, <2>1
    <3>3. \A W, C : InitialSegment(W, C) <=> Proved!InitialSegment(W, C)
      BY <1>9
    <3> QED BY <2>3, <3>1, <3>2, <3>3 DEF PageVictims, Proved!PageVictims
  <2> QED BY <2>2, <2>3
<1>11. \A V, fresh, shared : RefsAfter(V, fresh, shared) = Cache!RefsAfter(V, fresh, shared)
            /\ RefsAfter(V, fresh, shared) = Proved!RefsAfter(V, fresh, shared)
  BY SameSets, SameTables DEF RefsAfter, Cache!RefsAfter, Proved!RefsAfter
<1> QED BY <1>1, <1>2, <1>3, <1>4, <1>5, <1>6, <1>7, <1>8, <1>9, <1>10, <1>11

\* acquire_blocks and release.
LEMMA SamePool ==
  /\ \A n, held, V, fresh, shared : AcquireBlocks(n, held, V, fresh, shared) =>
       Cache!AcquireBlocks(n, held, V, fresh, shared) /\ Proved!AcquireBlocks(n, held, V, fresh, shared)
  /\ \A n, held : AcquireRefused(n, held) => Cache!AcquireRefused(n, held)
       /\ Proved!AcquireRefused(n, held)
  /\ \A P : ReleasePages(P) => Cache!ReleasePages(P) /\ Proved!ReleasePages(P)
<1>1. \A n, held, V, fresh, shared : AcquireBlocks(n, held, V, fresh, shared) =>
           Cache!AcquireBlocks(n, held, V, fresh, shared) /\ Proved!AcquireBlocks(n, held, V, fresh, shared)
  BY SameSets, SameTables, SameEviction DEF AcquireBlocks, Cache!AcquireBlocks, Proved!AcquireBlocks
<1>2. \A n, held : AcquireRefused(n, held) => Cache!AcquireRefused(n, held)
           /\ Proved!AcquireRefused(n, held)
  <2> SUFFICES ASSUME NEW n, NEW held, AcquireRefused(n, held)
               PROVE  Cache!AcquireRefused(n, held) /\ Proved!AcquireRefused(n, held)
    OBVIOUS
  <2> DEFINE V == PageCandidates(held)
             F == freePages \cup Freed(V)
  <2>1. /\ Cardinality(F) < n
        /\ refs' = RefsAfter(V, {}, {})
        /\ freePages' = F
        /\ freeSnapshots' = freeSnapshots \cup V
        /\ entries' = Without(entries, V)
        /\ older' = OlderWithout(V)
        /\ UNCHANGED <<freeSlots, seqs>>
    BY DEF AcquireRefused
  <2>2. /\ V = Cache!PageCandidates(held) /\ V = Proved!PageCandidates(held)
        /\ F = freePages \cup Cache!Freed(V) /\ F = freePages \cup Proved!Freed(V)
        /\ Cardinality(F) = Cache!Cardinality(F) /\ Cardinality(F) = Proved!Cardinality(F)
    BY SameSets, SameEviction
  <2>3. /\ refs' = Cache!RefsAfter(V, {}, {}) /\ refs' = Proved!RefsAfter(V, {}, {})
        /\ entries' = Cache!Without(entries, V) /\ entries' = Proved!Without(entries, V)
        /\ older' = Cache!OlderWithout(V) /\ older' = Proved!OlderWithout(V)
    BY <2>1, SameTables, SameEviction
  <2> HIDE DEF V, F
  <2> QED BY <2>1, <2>2, <2>3 DEF Cache!AcquireRefused, Proved!AcquireRefused
<1>3. \A P : ReleasePages(P) => Cache!ReleasePages(P) /\ Proved!ReleasePages(P)
  BY SameSets, SameTables, SameEviction DEF ReleasePages, Cache!ReleasePages, Proved!ReleasePages
<1> QED BY <1>1, <1>2, <1>3

\* Admission without a prefix.
LEMMA SameAdmission ==
  /\ \A id, n : Admit(id, n) => Cache!Admit(id, n) /\ Proved!Admit(id, n)
  /\ \A id, n : AdmitRefused(id, n) => Cache!AdmitRefused(id, n) /\ Proved!AdmitRefused(id, n)
<1>1. \A id, n : Admit(id, n) => Cache!Admit(id, n) /\ Proved!Admit(id, n)
  <2> SUFFICES ASSUME NEW id, NEW n, Admit(id, n) PROVE Cache!Admit(id, n) /\ Proved!Admit(id, n)
    OBVIOUS
  <2> DEFINE m == BlocksFor(n)
             C == PageCandidates({})
  <2>1. PICK slot \in freeSlots, V \in SUBSET C :
          \E fresh \in Tables(m, freePages \cup Freed(V)) :
            /\ AcquireBlocks(m, {}, V, fresh, {})
            /\ freeSlots' = freeSlots \ {slot}
            /\ seqs' = With(seqs, id, [slot |-> slot, blocks |-> fresh, tokens |-> n])
            /\ entries' = Without(entries, V)
            /\ older' = OlderWithout(V)
    BY DEF Admit
  <2> DEFINE F == freePages \cup Freed(V)
  <2>2. PICK fresh \in Tables(m, F) :
          /\ AcquireBlocks(m, {}, V, fresh, {})
          /\ seqs' = With(seqs, id, [slot |-> slot, blocks |-> fresh, tokens |-> n])
    BY <2>1
  <2>3. /\ m = Cache!BlocksFor(n) /\ m = Proved!BlocksFor(n)
        /\ C = Cache!PageCandidates({}) /\ C = Proved!PageCandidates({})
        /\ F = freePages \cup Cache!Freed(V) /\ F = freePages \cup Proved!Freed(V)
    BY SameTables, SameEviction
  <2>4. Cache!AcquireBlocks(m, {}, V, fresh, {}) /\ Proved!AcquireBlocks(m, {}, V, fresh, {})
    BY <2>2, SamePool
  <2>5. /\ seqs' = Cache!With(seqs, id, [slot |-> slot, blocks |-> fresh, tokens |-> n])
        /\ seqs' = Proved!With(seqs, id, [slot |-> slot, blocks |-> fresh, tokens |-> n])
        /\ entries' = Cache!Without(entries, V) /\ entries' = Proved!Without(entries, V)
        /\ older' = Cache!OlderWithout(V) /\ older' = Proved!OlderWithout(V)
    BY <2>1, <2>2, SameTables, SameEviction
  <2>6. id \notin DOMAIN seqs /\ freeSlots' = freeSlots \ {slot}
    BY <2>1 DEF Admit
  <2> HIDE DEF m, C, F
  <2>7. Cache!Admit(id, n)
    BY <2>2, <2>3, <2>4, <2>5, <2>6 DEF Cache!Admit
  <2>8. Proved!Admit(id, n)
    BY <2>2, <2>3, <2>4, <2>5, <2>6 DEF Proved!Admit
  <2> QED BY <2>7, <2>8
<1>2. \A id, n : AdmitRefused(id, n) => Cache!AdmitRefused(id, n) /\ Proved!AdmitRefused(id, n)
  BY SameTables, SameEviction, SamePool DEF AdmitRefused, Cache!AdmitRefused, Proved!AdmitRefused
<1> QED BY <1>1, <1>2

\* The entry that admission continues.
LEMMA SameMatch ==
  /\ \A prompt : Matches(prompt) = Cache!Matches(prompt) /\ Matches(prompt) = Proved!Matches(prompt)
  /\ \A s, prompt : (BestMatch(s, prompt) <=> Cache!BestMatch(s, prompt))
       /\ (BestMatch(s, prompt) <=> Proved!BestMatch(s, prompt))
  /\ \A s : FullPages(s) = Cache!FullPages(s) /\ FullPages(s) = Proved!FullPages(s)
  /\ \A s, prompt : FreshNeed(s, prompt) = Cache!FreshNeed(s, prompt)
       /\ FreshNeed(s, prompt) = Proved!FreshNeed(s, prompt)
<1>1. \A prompt : Matches(prompt) = Cache!Matches(prompt)
           /\ Matches(prompt) = Proved!Matches(prompt)
  BY SameSets, SameTables DEF Matches, Cache!Matches, Proved!Matches
<1>2. \A s, prompt : (BestMatch(s, prompt) <=> Cache!BestMatch(s, prompt))
           /\ (BestMatch(s, prompt) <=> Proved!BestMatch(s, prompt))
  BY <1>1, SameSets, SameTables DEF BestMatch, Cache!BestMatch, Proved!BestMatch
<1>3. \A s : FullPages(s) = Cache!FullPages(s) /\ FullPages(s) = Proved!FullPages(s)
  BY SameSets, SameTables DEF FullPages, Cache!FullPages, Proved!FullPages
<1>4. \A s, prompt : FreshNeed(s, prompt) = Cache!FreshNeed(s, prompt)
           /\ FreshNeed(s, prompt) = Proved!FreshNeed(s, prompt)
  BY <1>3, SameSets, SameTables DEF FreshNeed, Cache!FreshNeed, Proved!FreshNeed
<1> QED BY <1>1, <1>2, <1>3, <1>4

\* Admission that continues an entry.
LEMMA SameHit ==
  \A id, prompt, s : AdmitHit(id, prompt, s) => Cache!AdmitHit(id, prompt, s)
       /\ Proved!AdmitHit(id, prompt, s)
<1> SUFFICES ASSUME NEW id, NEW prompt, NEW s, AdmitHit(id, prompt, s)
             PROVE  Cache!AdmitHit(id, prompt, s) /\ Proved!AdmitHit(id, prompt, s)
  OBVIOUS
<1> DEFINE m == FreshNeed(s, prompt)
           f == FullPages(s)
           B == SubSeq(entries[s].blocks, 1, f)
           R == Range(B)
           C == PageCandidates({s})
<1>1. PICK slot \in freeSlots, V \in SUBSET C :
        \E fresh \in Tables(m, freePages \cup Freed(V)) :
          /\ AcquireBlocks(m, {s}, V, fresh, R)
          /\ freeSlots' = freeSlots \ {slot}
          /\ seqs' = With(seqs, id, [slot |-> slot, blocks |-> B \o fresh,
                                     tokens |-> Len(prompt)])
          /\ entries' = [Without(entries, V) EXCEPT ![s].pins = @ + 1]
          /\ older' = OlderUsing(s, V)
  BY DEF AdmitHit
<1> DEFINE F == freePages \cup Freed(V)
           E == Without(entries, V)
<1>2. PICK fresh \in Tables(m, F) :
        /\ AcquireBlocks(m, {s}, V, fresh, R)
        /\ seqs' = With(seqs, id, [slot |-> slot, blocks |-> B \o fresh,
                                   tokens |-> Len(prompt)])
  BY <1>1
<1>3. /\ m = Cache!FreshNeed(s, prompt) /\ m = Proved!FreshNeed(s, prompt)
      /\ f = Cache!FullPages(s) /\ f = Proved!FullPages(s)
      /\ R = Cache!Range(B) /\ R = Proved!Range(B)
      /\ C = Cache!PageCandidates({s}) /\ C = Proved!PageCandidates({s})
      /\ F = freePages \cup Cache!Freed(V) /\ F = freePages \cup Proved!Freed(V)
      /\ E = Cache!Without(entries, V) /\ E = Proved!Without(entries, V)
  BY SameSets, SameTables, SameEviction, SameMatch
<1>4. Cache!AcquireBlocks(m, {s}, V, fresh, R) /\ Proved!AcquireBlocks(m, {s}, V, fresh, R)
  BY <1>2, SamePool
<1>5. /\ seqs' = Cache!With(seqs, id,
           [slot |-> slot, blocks |-> B \o fresh, tokens |-> Len(prompt)])
      /\ seqs' = Proved!With(seqs, id,
           [slot |-> slot, blocks |-> B \o fresh, tokens |-> Len(prompt)])
      /\ older' = Cache!OlderUsing(s, V) /\ older' = Proved!OlderUsing(s, V)
  BY <1>1, <1>2, SameTables, SameEviction
<1>6. /\ id \notin DOMAIN seqs /\ freeSlots' = freeSlots \ {slot}
      /\ Cache!BestMatch(s, prompt) /\ Proved!BestMatch(s, prompt)
      /\ entries' = [E EXCEPT ![s].pins = @ + 1]
  BY <1>1, SameMatch DEF AdmitHit
<1> HIDE DEF m, f, R, C, F, E
<1>7. Cache!AdmitHit(id, prompt, s)
  BY <1>2, <1>3, <1>4, <1>5, <1>6 DEF Cache!AdmitHit
<1>8. Proved!AdmitHit(id, prompt, s)
  BY <1>2, <1>3, <1>4, <1>5, <1>6 DEF Proved!AdmitHit
<1> QED BY <1>7, <1>8

\* Admission that continues an entry, refused.
LEMMA SameHitRefused ==
  \A id, prompt, s : AdmitHitRefused(id, prompt, s) => Cache!AdmitHitRefused(id, prompt, s)
       /\ Proved!AdmitHitRefused(id, prompt, s)
BY SamePool, SameMatch DEF AdmitHitRefused, Cache!AdmitHitRefused, Proved!AdmitHitRefused

\* Pins, growth and roll back.
LEMMA SameGrowth ==
  /\ \A S : Unpin(S) = Cache!Unpin(S) /\ Unpin(S) = Proved!Unpin(S)
  /\ \A s : FinishRestore(s) => Cache!FinishRestore(s) /\ Proved!FinishRestore(s)
  /\ \A id : ExtraNeed(id) = Cache!ExtraNeed(id) /\ ExtraNeed(id) = Proved!ExtraNeed(id)
  /\ \A id : AppendToken(id) => Cache!AppendToken(id) /\ Proved!AppendToken(id)
  /\ \A id : AppendRefused(id) => Cache!AppendRefused(id) /\ Proved!AppendRefused(id)
  /\ \A id : RollbackToken(id) => Cache!RollbackToken(id) /\ Proved!RollbackToken(id)
<1>1. \A S : Unpin(S) = Cache!Unpin(S) /\ Unpin(S) = Proved!Unpin(S)
  BY SameSets, SameTables, SameEviction, SamePool DEF Unpin, Cache!Unpin, Proved!Unpin
<1>2. \A s : FinishRestore(s) => Cache!FinishRestore(s) /\ Proved!FinishRestore(s)
  BY <1>1, SameSets, SameTables, SameEviction, SamePool
       DEF FinishRestore, Cache!FinishRestore, Proved!FinishRestore
<1>3. \A id : ExtraNeed(id) = Cache!ExtraNeed(id) /\ ExtraNeed(id) = Proved!ExtraNeed(id)
  BY SameSets, SameTables, SameEviction, SamePool DEF ExtraNeed, Cache!ExtraNeed, Proved!ExtraNeed
<1>4. \A id : AppendToken(id) => Cache!AppendToken(id) /\ Proved!AppendToken(id)
  BY <1>3, SameSets, SameTables, SameEviction, SamePool, Zenon
       DEF AppendToken, Cache!AppendToken, Proved!AppendToken
<1>5. \A id : AppendRefused(id) => Cache!AppendRefused(id) /\ Proved!AppendRefused(id)
  BY <1>3, SameSets, SameTables, SameEviction, SamePool
       DEF AppendRefused, Cache!AppendRefused, Proved!AppendRefused
<1>6. \A id : RollbackToken(id) => Cache!RollbackToken(id) /\ Proved!RollbackToken(id)
  BY SameSets, SameTables, SameEviction, SamePool
       DEF RollbackToken, Cache!RollbackToken, Proved!RollbackToken
<1> QED BY <1>1, <1>2, <1>3, <1>4, <1>5, <1>6

\* Snapshots.
LEMMA SameSnapshots ==
  /\ \A s : ReserveSnapshot(s) => Cache!ReserveSnapshot(s) /\ Proved!ReserveSnapshot(s)
  /\ \A s : CancelSnapshot(s) => Cache!CancelSnapshot(s) /\ Proved!CancelSnapshot(s)
  /\ \A s, tokens : TouchSnapshot(s, tokens) => Cache!TouchSnapshot(s, tokens)
       /\ Proved!TouchSnapshot(s, tokens)
<1>1. \A s : ReserveSnapshot(s) => Cache!ReserveSnapshot(s) /\ Proved!ReserveSnapshot(s)
  BY SameTables, SameEviction, SamePool
       DEF ReserveSnapshot, Cache!ReserveSnapshot, Proved!ReserveSnapshot
<1>2. \A s : CancelSnapshot(s) => Cache!CancelSnapshot(s) /\ Proved!CancelSnapshot(s)
  BY SameTables, SameEviction, SamePool
       DEF CancelSnapshot, Cache!CancelSnapshot, Proved!CancelSnapshot
<1>3. \A s, tokens : TouchSnapshot(s, tokens) => Cache!TouchSnapshot(s, tokens)
           /\ Proved!TouchSnapshot(s, tokens)
  BY SameTables, SameEviction, SamePool DEF TouchSnapshot, Cache!TouchSnapshot, Proved!TouchSnapshot
<1> QED BY <1>1, <1>2, <1>3

\* A committed snapshot that becomes an entry.
LEMMA SameStore ==
  \A s, id, tokens : StoreSnapshot(s, id, tokens) =>
    Cache!StoreSnapshot(s, id, tokens) /\ Proved!StoreSnapshot(s, id, tokens)
<1> SUFFICES ASSUME NEW s, NEW id, NEW tokens, StoreSnapshot(s, id, tokens)
             PROVE  Cache!StoreSnapshot(s, id, tokens) /\ Proved!StoreSnapshot(s, id, tokens)
  OBVIOUS
<1> DEFINE k == BlocksFor(Len(tokens))
           B == SubSeq(seqs[id].blocks, 1, k)
           R == Range(B)
           e == [tokens |-> tokens, blocks |-> B, pins |-> 0]
<1>1. /\ \A t \in DOMAIN entries : entries[t].tokens # tokens
      /\ refs' = [b \in Pages |-> IF b \in R THEN refs[b] + 1 ELSE refs[b]]
      /\ entries' = With(entries, s, e)
      /\ older' = OlderUsing(s, {})
      /\ UNCHANGED <<freePages, freeSlots, freeSnapshots, seqs>>
  BY DEF StoreSnapshot
<1>2. /\ k = Cache!BlocksFor(Len(tokens)) /\ k = Proved!BlocksFor(Len(tokens))
      /\ R = Cache!Range(B) /\ R = Proved!Range(B)
  BY SameSets, SameTables
<1>3. /\ entries' = Cache!With(entries, s, e) /\ entries' = Proved!With(entries, s, e)
      /\ older' = Cache!OlderUsing(s, {}) /\ older' = Proved!OlderUsing(s, {})
  BY <1>1, SameTables, SameEviction
<1> HIDE DEF k, R
<1>4. Cache!StoreSnapshot(s, id, tokens)
  BY <1>1, <1>2, <1>3 DEF Cache!StoreSnapshot
<1>5. Proved!StoreSnapshot(s, id, tokens)
  BY <1>1, <1>2, <1>3 DEF Proved!StoreSnapshot
<1> QED BY <1>4, <1>5

\* A committed snapshot.
LEMMA SameCommit ==
  \A s, id, tokens : CommitSnapshot(s, id, tokens) =>
    Cache!CommitSnapshot(s, id, tokens) /\ Proved!CommitSnapshot(s, id, tokens)
BY SameSnapshots, SameStore DEF CommitSnapshot, Cache!CommitSnapshot, Proved!CommitSnapshot

\* The end of a sequence.
LEMMA SameRelease ==
  \A id, due : Release(id, due) => Cache!Release(id, due) /\ Proved!Release(id, due)
BY SameTables, SamePool, SameGrowth DEF Release, Cache!Release, Proved!Release

\* The empty cache.
LEMMA SameStart == CacheInit => Cache!CacheInit /\ Proved!CacheInit
BY DEF CacheInit, Cache!CacheInit, Proved!CacheInit

\* The bound the cache manager is given for the growth of a sequence.
LEMMA MaxNewBounds == MaxNew \in Nat /\ \A id \in Ids : Request(id).maxNew <= MaxNew
<1> DEFINE Some(U) == {Request(id).maxNew : id \in U}
           S == Some(Ids) \cup {0}
           T == {U \in SUBSET Ids : IsFiniteSet(Some(U))}
<1>1. {} \in T
  <2>1. Some({}) = {}
    OBVIOUS
  <2> QED BY <2>1, FS_EmptySet
<1>2. ASSUME NEW U \in SUBSET Ids, NEW x \in Ids, U \in T, x \notin U PROVE U \cup {x} \in T
  <2>1. Some(U \cup {x}) = Some(U) \cup {Request(x).maxNew}
    OBVIOUS
  <2>2. IsFiniteSet(Some(U) \cup {Request(x).maxNew})
    <3> HIDE DEF Some
    <3> QED BY <1>2, FS_AddElement
  <2> QED BY <2>1, <2>2
<1>3. IsFiniteSet(S) /\ S \in SUBSET Nat /\ S # {}
  <2>1. Ids \in T
    <3> HIDE DEF T
    <3> QED BY <1>1, <1>2, SchedulerAssumption, SetInduction DEF SchedulerAssumption
  <2>2. S \in SUBSET Nat /\ S # {}
    BY SchedulerAssumption DEF SchedulerAssumption
  <2>3. IsFiniteSet(S)
    <3> HIDE DEF Some
    <3> QED BY <2>1, FS_AddElement
  <2> QED BY <2>2, <2>3
<1>4. Max(S) \in S /\ \A n \in S : n <= Max(S)
  <2> HIDE DEF S
  <2> QED BY <1>3, MaxOfNats
<1> QED BY <1>3, <1>4 DEF MaxNew

\* What the cache manager assumes of its constants holds.
LEMMA CopiesAssumed == Proved!CacheAssumption /\ Proved!TablesAssumption /\ Proved!PromptsAssumption
<1>1. Proved!CacheAssumption
  BY CacheAssumption, SameSets DEF CacheAssumption, Proved!CacheAssumption
<1>2. Proved!TablesAssumption
  BY TablesAssumption, SameSets DEF TablesAssumption, Proved!TablesAssumption
<1>3. Proved!PromptsAssumption
  <2> DEFINE P == {Request(id).prompt : id \in Ids}
  <2>1. \A p \in P : p \in Seq(Range(p)) /\ p # <<>>
    BY SchedulerAssumption DEF SchedulerAssumption
  <2>2. ASSUME NEW p \in P PROVE p \in Seq(UNION {Range(q) : q \in P})
    BY <2>1, SeqMonotonic
  <2>3. \A p \in P : p \in Seq(UNION {Proved!Range(q) : q \in P})
    BY <2>2, SameSets
  <2> QED BY <2>1, <2>3, MaxNewBounds DEF Proved!PromptsAssumption, Prompts
<1> QED BY <1>1, <1>2, <1>3

-----------------------------------------------------------------------------
(* Calls of the cache manager.                                             *)

\* append_token, for a request that is still entitled to a token.
LEMMA GrowCall ==
  ASSUME NEW id \in Ids, id \in DOMAIN active, seqs[id].tokens < PromptLen(id) + MaxNew,
         AppendToken(id) \/ AppendRefused(id), UNCHANGED <<client, saving>>
  PROVE  Cache!Next /\ Proved!Next
<1>1. id \in DOMAIN client /\ client[id].prompt = Request(id).prompt
  BY DEF client
<1>2. Cache!Grow(id)
  BY <1>1, SameGrowth DEF Cache!Grow, PromptLen
<1>3. Proved!Grow(id)
  BY <1>1, SameGrowth DEF Proved!Grow, PromptLen
<1> QED BY <1>2, <1>3 DEF Cache!Next, Proved!Next

\* rollback_token, of a token that was appended.
LEMMA ShrinkCall ==
  ASSUME NEW id \in Ids, id \in DOMAIN active, seqs[id].tokens > PromptLen(id),
         RollbackToken(id), UNCHANGED <<client, saving>>
  PROVE  Cache!Next /\ Proved!Next
<1>1. id \in DOMAIN client /\ client[id].prompt = Request(id).prompt
  BY DEF client
<1>2. Cache!Shrink(id)
  BY <1>1, SameGrowth DEF Cache!Shrink, PromptLen
<1>3. Proved!Shrink(id)
  BY <1>1, SameGrowth DEF Proved!Shrink, PromptLen
<1> QED BY <1>2, <1>3 DEF Cache!Next, Proved!Next

\* admit_prompt that finds no prefix.
LEMMA FreshCall ==
  ASSUME NEW id \in Ids, Admit(id, PromptLen(id)),
         client' = With(client, id, [prompt |-> Request(id).prompt, restore |-> {}]),
         UNCHANGED saving
  PROVE  Cache!Next /\ Proved!Next
<1> DEFINE p == Request(id).prompt
<1>1. p \in Prompts
  BY DEF Prompts
<1>2. Cache!AdmitFresh(id, p)
  BY SameAdmission, SameTables DEF Cache!AdmitFresh, PromptLen
<1>3. Proved!AdmitFresh(id, p)
  BY SameAdmission, SameTables DEF Proved!AdmitFresh, PromptLen
<1> QED BY <1>1, <1>2, <1>3 DEF Cache!Next, Proved!Next

\* admit_prompt that continues a prefix.
LEMMA CachedCall ==
  ASSUME NEW id \in Ids, NEW s \in DOMAIN entries, AdmitHit(id, Request(id).prompt, s),
         client' = With(client, id, [prompt |-> Request(id).prompt, restore |-> {s}]),
         UNCHANGED saving
  PROVE  Cache!Next /\ Proved!Next
<1> DEFINE p == Request(id).prompt
<1>1. p \in Prompts
  BY DEF Prompts
<1>2. Cache!AdmitCached(id, p)
  BY SameHit, SameTables DEF Cache!AdmitCached
<1>3. Proved!AdmitCached(id, p)
  BY SameHit, SameTables DEF Proved!AdmitCached
<1> QED BY <1>1, <1>2, <1>3 DEF Cache!Next, Proved!Next

\* admit_prompt that is refused.
LEMMA RefuseCall ==
  ASSUME NEW id \in Ids,
         \/ AdmitRefused(id, Len(Request(id).prompt))
         \/ \E s \in DOMAIN entries : AdmitHitRefused(id, Request(id).prompt, s),
         UNCHANGED <<client, saving>>
  PROVE  Cache!Next /\ Proved!Next
<1> DEFINE p == Request(id).prompt
<1>1. p \in Prompts
  BY DEF Prompts
<1>2. Cache!RefuseAdmission(id, p)
  BY SameAdmission, SameHitRefused DEF Cache!RefuseAdmission
<1>3. Proved!RefuseAdmission(id, p)
  BY SameAdmission, SameHitRefused DEF Proved!RefuseAdmission
<1> QED BY <1>1, <1>2, <1>3 DEF Cache!Next, Proved!Next

\* finish_restore, of a restore that is due.
LEMMA RestoredCall ==
  ASSUME NEW id \in Ids, id \in DOMAIN active, NEW s \in client[id].restore, FinishRestore(s),
         client' = [client EXCEPT ![id].restore = {}], UNCHANGED saving
  PROVE  Cache!Next /\ Proved!Next
<1>1. id \in DOMAIN client
  BY DEF client
<1>2. Cache!Restored(id)
  BY <1>1, SameGrowth DEF Cache!Restored
<1>3. Proved!Restored(id)
  BY <1>1, SameGrowth DEF Proved!Restored
<1> QED BY <1>2, <1>3 DEF Cache!Next, Proved!Next

\* reserve_snapshot.
LEMMA ReserveCall ==
  ASSUME NEW id \in Ids, id \in DOMAIN active, NEW s \in Snapshots, ReserveSnapshot(s),
         saving' = With(saving, s, id), UNCHANGED client
  PROVE  Cache!Next /\ Proved!Next
<1>1. id \in DOMAIN client
  BY DEF client
<1>2. Cache!Reserve(id, s)
  BY <1>1, SameSnapshots, SameTables DEF Cache!Reserve
<1>3. Proved!Reserve(id, s)
  BY <1>1, SameSnapshots, SameTables DEF Proved!Reserve
<1> QED BY <1>2, <1>3 DEF Cache!Next, Proved!Next

\* cancel_snapshot, of a snapshot that is reserved.
LEMMA CancelCall ==
  ASSUME NEW s \in Snapshots, s \in DOMAIN saving, CancelSnapshot(s),
         saving' = Without(saving, {s}), UNCHANGED client
  PROVE  Cache!Next /\ Proved!Next
<1>2. Cache!Cancel(s)
  BY SameSnapshots, SameTables DEF Cache!Cancel
<1>3. Proved!Cancel(s)
  BY SameSnapshots, SameTables DEF Proved!Cancel
<1> QED BY <1>2, <1>3 DEF Cache!Next, Proved!Next

\* commit_snapshot, of a reserved snapshot and at least a page of tokens.
LEMMA CommitCall ==
  ASSUME NEW s \in Snapshots, s \in DOMAIN saving, saving[s] \in DOMAIN active,
         NEW k \in BlockSize..PromptLen(saving[s]),
         CommitSnapshot(s, saving[s], SubSeq(Request(saving[s]).prompt, 1, k)),
         saving' = Without(saving, {s}), UNCHANGED client
  PROVE  Cache!Next /\ Proved!Next
<1> DEFINE id == saving[s]
<1>1. id \in DOMAIN client /\ client[id].prompt = Request(id).prompt
  BY DEF client
<1> HIDE DEF id
<1>2. Cache!Commit(s)
  BY <1>1, SameCommit, SameTables DEF Cache!Commit, PromptLen, id
<1>3. Proved!Commit(s)
  BY <1>1, SameCommit, SameTables DEF Proved!Commit, PromptLen, id
<1> QED BY <1>2, <1>3 DEF Cache!Next, Proved!Next

\* release, with the restores that are still due.
LEMMA LeaveCall ==
  ASSUME NEW id \in Ids, id \in DOMAIN active, Release(id, client[id].restore),
         client' = Without(client, {id}), UNCHANGED saving
  PROVE  Cache!Next /\ Proved!Next
<1>1. id \in DOMAIN client
  BY DEF client
<1>2. Cache!Leave(id)
  BY <1>1, SameRelease, SameTables DEF Cache!Leave
<1>3. Proved!Leave(id)
  BY <1>1, SameRelease, SameTables DEF Proved!Leave
<1> QED BY <1>2, <1>3 DEF Cache!Next, Proved!Next

-----------------------------------------------------------------------------
(* VecDeque::retain.                                                       *)

\* What Retained builds from the first n places of a queue.
Keeps(kept, D, q, id) ==
  kept = [n \in D |-> IF n = 0 THEN <<>>
                      ELSE IF q[n] = id THEN kept[n - 1] ELSE Append(kept[n - 1], q[n])]

\* The recursion of Retained has a solution.
LEMMA KeepsExists == ASSUME NEW q, NEW id, NEW m \in Nat PROVE \E kept : Keeps(kept, 0..m, q, id)
<1> DEFINE T == {n \in Nat : \E kept : Keeps(kept, 0..n, q, id)}
<1>1. 0 \in T
  <2>1. Keeps([n \in 0..0 |-> <<>>], 0..0, q, id)
    BY DEF Keeps
  <2> QED BY <2>1
<1>2. ASSUME NEW n \in Nat, n \in T PROVE n + 1 \in T
  <2>1. PICK kept : Keeps(kept, 0..n, q, id)
    BY <1>2
  <2> DEFINE next == [i \in 0..(n + 1) |->
                        IF i = 0 THEN <<>>
                        ELSE IF q[i] = id THEN kept[i - 1] ELSE Append(kept[i - 1], q[i])]
  <2>2. ASSUME NEW i \in 0..n PROVE next[i] = kept[i]
    <3>1. i \in 0..(n + 1)
      OBVIOUS
    <3>2. kept[i] = IF i = 0 THEN <<>>
                    ELSE IF q[i] = id THEN kept[i - 1] ELSE Append(kept[i - 1], q[i])
      BY <2>1 DEF Keeps
    <3> QED BY <3>1, <3>2, Zenon
  <2>3. \A i \in 0..(n + 1) : i # 0 => i - 1 \in 0..n
    OBVIOUS
  <2>4. \A i \in 0..(n + 1) :
          next[i] = IF i = 0 THEN <<>>
                    ELSE IF q[i] = id THEN next[i - 1] ELSE Append(next[i - 1], q[i])
    <3>1. ASSUME NEW i \in 0..(n + 1), i # 0 PROVE next[i - 1] = kept[i - 1]
      <4> HIDE DEF next
      <4> QED BY <2>2, <2>3, <3>1
    <3> QED BY <3>1
  <2>5. next = [i \in 0..(n + 1) |-> next[i]]
    OBVIOUS
  <2>6. Keeps(next, 0..(n + 1), q, id)
    <3> HIDE DEF next
    <3> QED BY <2>4, <2>5 DEF Keeps
  <2> QED BY <2>6
<1> QED
  <2> HIDE DEF T
  <2>1. m \in T
    BY <1>1, <1>2, SetOfNaturals
  <2> QED BY <2>1 DEF T

\* What VecDeque::retain leaves of a queue: the others, in their order.
LEMMA RetainedQueue ==
  ASSUME NEW S, NEW q \in Seq(S), IsInjective(q), NEW id
  PROVE  /\ Retained(q, id) \in Seq(S) /\ IsInjective(Retained(q, id))
         /\ Len(Retained(q, id)) <= Len(q)
         /\ Range(Retained(q, id)) = Range(q) \ {id}
         /\ \A y : Before(Retained(q, id), y) \subseteq Before(q, y)
<1> DEFINE m == Len(q)
           kept == CHOOSE k : Keeps(k, 0..m, q, id)
<1>0. m \in Nat /\ DOMAIN q = 1..m /\ \A i \in 1..m : q[i] \in S
  BY LenProperties, ElementOfSeq
<1>1. Keeps(kept, 0..m, q, id)
  BY <1>0, KeepsExists
<1>2. Retained(q, id) = kept[m]
  BY DEF Retained, Keeps
<1> DEFINE Good(s, n) ==
      /\ s \in Seq(S) /\ IsInjective(s) /\ Len(s) <= n
      /\ Range(s) = {q[i] : i \in 1..n} \ {id}
      /\ \A y : Before(s, y) \subseteq Before(q, y)
    T == {n \in Nat : n <= m => Good(kept[n], n)}
<1> HIDE DEF m, kept
<1>3. 0 \in T
  <2>1. kept[0] = <<>>
    BY <1>0, <1>1 DEF Keeps
  <2>2. Range(<<>>) = {} /\ {q[i] : i \in 1..0} = {} /\ IsInjective(<<>>)
             /\ \A y : Before(<<>>, y) = {}
    BY DEF Range, IsInjective, Before
  <2>3. Good(<<>>, 0)
    BY <2>2, EmptySeq
  <2> QED BY <2>1, <2>3
<1>4. ASSUME NEW n \in Nat, n \in T PROVE n + 1 \in T
  <2> SUFFICES ASSUME n + 1 <= m PROVE Good(kept[n + 1], n + 1)
    OBVIOUS
  <2>0. n + 1 \in 1..m /\ n <= m /\ (n + 1) - 1 = n /\ n + 1 \in 0..m /\ n + 1 # 0
    BY <1>0
  <2>1. Good(kept[n], n)
    BY <1>4, <2>0
  <2>2. kept[n + 1] = IF q[n + 1] = id THEN kept[n] ELSE Append(kept[n], q[n + 1])
    BY <1>1, <2>0 DEF Keeps
  <2>3. {q[i] : i \in 1..(n + 1)} = {q[i] : i \in 1..n} \cup {q[n + 1]}
    <3>1. \A i \in 1..(n + 1) : i \in 1..n \/ i = n + 1
      OBVIOUS
    <3>2. \A i \in 1..n : i \in 1..(n + 1)
      OBVIOUS
    <3>3. n + 1 \in 1..(n + 1)
      OBVIOUS
    <3> QED BY <3>1, <3>2, <3>3
  <2>4. CASE q[n + 1] = id
    <3>1. {q[i] : i \in 1..(n + 1)} \ {id} = {q[i] : i \in 1..n} \ {id}
      BY <2>3, <2>4
    <3>2. Len(kept[n]) <= n + 1
      BY <2>1, LenProperties
    <3> QED BY <2>1, <2>2, <2>4, <3>1, <3>2
  <2>5. CASE q[n + 1] # id
    <3> DEFINE s == kept[n]
               x == q[n + 1]
    <3>1. s \in Seq(S) /\ IsInjective(s) /\ x \in S /\ Len(s) <= n /\ Len(s) \in Nat
      BY <1>0, <2>0, <2>1, LenProperties
    <3>2. Range(s) = {q[i] : i \in 1..n} \ {id}
      BY <2>1
    <3>3. x \notin {q[i] : i \in 1..n}
      <4>1. \A i \in 1..n : i \in 1..m /\ i # n + 1
        BY <1>0, <2>0
      <4> QED BY <1>0, <2>0, <4>1 DEF IsInjective
    <3>4. x \notin Range(s)
      BY <3>2, <3>3
    <3>5. {q[i] : i \in 1..(n + 1)} \ {id} = Range(s) \cup {x}
      BY <2>3, <2>5, <3>2
    <3>6. /\ Append(s, x) \in Seq(S) /\ IsInjective(Append(s, x))
          /\ Len(Append(s, x)) = Len(s) + 1
          /\ Range(Append(s, x)) = Range(s) \cup {x}
          /\ \A y \in Range(s) : Before(Append(s, x), y) = Before(s, y)
          /\ Before(Append(s, x), x) = Range(s)
      <4> HIDE DEF s, x
      <4> QED BY <3>1, <3>4, QueueAppend
    <3>7. \A y : Before(Append(s, x), y) \subseteq Before(q, y)
      <4> SUFFICES ASSUME NEW y PROVE Before(Append(s, x), y) \subseteq Before(q, y)
        OBVIOUS
      <4>1. CASE y \in Range(s)
        BY <2>1, <3>6, <4>1
      <4>2. CASE y = x
        <5>1. Before(q, x) = {q[i] : i \in 1..n}
          BY <2>0, BeforePlace DEF m
        <5> QED BY <3>2, <3>6, <4>2, <5>1
      <4>3. CASE y \notin Range(Append(s, x))
        BY <4>3 DEF Before, Range
      <4> QED BY <3>6, <4>1, <4>2, <4>3
    <3>8. Len(Append(s, x)) <= n + 1
      BY <3>1, <3>6
    <3>9. kept[n + 1] = Append(s, x)
      BY <2>2, <2>5
    <3> HIDE DEF s, x
    <3> QED BY <3>5, <3>6, <3>7, <3>8, <3>9
  <2> QED BY <2>4, <2>5
<1>5. Good(kept[m], m)
  <2>1. m \in T
    <3> HIDE DEF T
    <3> QED BY <1>0, <1>3, <1>4, SetOfNaturals
  <2> QED BY <1>0, <2>1
<1>6. {q[i] : i \in 1..m} = Range(q)
  BY <1>0 DEF Range
<1> QED BY <1>2, <1>5, <1>6 DEF m

-----------------------------------------------------------------------------
(* The inductive invariant.                                                *)

RestoreOp == [snapshot : Snapshots, copy : SUBSET (Pages \X Pages)]

Chunk == [id : Ids, offset : Nat, tokens : Nat]

RestoreCall == [id : Ids, op : RestoreOp]

SaveCall == [id : Ids, snapshot : Snapshots]

WithPhase(phase) == {id \in DOMAIN active : active[id].phase = phase}

\* Everybody waits once, and the ready queues are those whose phase says so.
QueuePart ==
  /\ waiting \in Seq(Ids) /\ IsInjective(waiting)
  /\ Range(waiting) \cap DOMAIN active = {}
  /\ prefillReady \in Seq(Ids) /\ IsInjective(prefillReady)
  /\ Range(prefillReady) = WithPhase("PrefillReady")
  /\ decodeReady \in Seq(Ids) /\ IsInjective(decodeReady)
  /\ Range(decodeReady) = WithPhase("DecodeReady")

BatchType ==
  batch \in [decode : Seq(Ids), prefill : Seq(Chunk),
             restores : Seq(RestoreCall), saves : Seq(SaveCall)]

\* A chunk starts where its prompt is prefilled to.
ChunkRight(c) ==
  c.offset = active[c.id].prefilled /\ c.offset + c.tokens <= PromptLen(c.id)

\* So is the batch, and its chunks are the next of their prompts.
BatchPart ==
  /\ BatchType
  /\ IsInjective(batch.decode) /\ Range(batch.decode) = WithPhase("DecodeInFlight")
  /\ IsInjective(ChunkIds) /\ Range(ChunkIds) = WithPhase("PrefillInFlight")
  /\ \A c \in Range(batch.prefill) : ChunkRight(c)

\* The restores of the batch are those its chunks are due.
RestorePart ==
  /\ IsInjective(batch.restores)
  /\ \A r \in Range(batch.restores) : r.id \in Range(ChunkIds) /\ r.op \in active[r.id].restore
  /\ \A id \in Range(ChunkIds) : \A op \in active[id].restore :
       [id |-> id, op |-> op] \in Range(batch.restores)

\* A snapshot is reserved for one chunk of the batch, and for a whole page.
SavePart ==
  /\ IsInjective(batch.saves)
  /\ \A u, v \in Range(batch.saves) : u.snapshot = v.snapshot => u = v
  /\ \A save \in Range(batch.saves) : /\ save.id \in Range(ChunkIds)
                                       /\ BlockSize <= Request(save.id).snapshotAt

Record == [prefilled : Nat, generated : Nat, phase : Phases,
           restore : {{}} \cup {{r} : r \in RestoreOp}]

\* What is known of a request.
Known(id) ==
  /\ active[id] \in Record
  /\ active[id].prefilled <= PromptLen(id)
  /\ active[id].generated < Request(id).maxNew
  /\ active[id].phase \in {"DecodeReady", "DecodeInFlight"}
       <=> active[id].prefilled = PromptLen(id)
  /\ active[id].restore # {} => active[id].phase \in {"PrefillReady", "PrefillInFlight"}

\* Its tokens in the cache.
Counted(id) ==
  /\ seqs[id].tokens =
       PromptLen(id) + active[id].generated
       + (IF active[id].phase = "DecodeInFlight" THEN 1 + extra ELSE 0)
  /\ seqs[id].tokens <= PromptLen(id) + Request(id).maxNew

ActivePart ==
  /\ DOMAIN active \subseteq Ids
  /\ \A id \in DOMAIN active : Known(id) /\ Counted(id)

\* Positions are reserved ahead for a batch of one decode in flight only.
ExtraPart ==
  /\ extra \in 0..Depth
  /\ extra > 0 => /\ step \in {"flight", "complete"}
                  /\ Len(batch.decode) = 1 /\ batch.prefill = <<>>

\* What the loops of next_batch count on.
StepPart ==
  /\ step \in Steps /\ left \in Nat
  /\ step = "idle" => NoBatch
  /\ step = "decode" => batch.prefill = <<>> /\ left <= Len(decodeReady)
  /\ step = "admit" => prefillReady = <<>> /\ left <= Len(waiting)

ReservedAll(f) == SumFunction([id \in DOMAIN f |-> Reserved(id)])

CommittedPart ==
  /\ committed = ReservedAll(active)
  /\ committed <= Capacity

SInv ==
  /\ QueuePart
  /\ BatchPart
  /\ RestorePart
  /\ SavePart
  /\ ActivePart
  /\ ExtraPart
  /\ StepPart
  /\ CommittedPart

-----------------------------------------------------------------------------
(* Facts about the state. *)

\* What the theorems about the cache manager say of its tables.
LEMMA CacheFacts ==
  ASSUME Proved!IInv
  PROVE  /\ DOMAIN seqs = DOMAIN active
         /\ IsFiniteSet(DOMAIN active)
         /\ \A id \in DOMAIN seqs :
              /\ seqs[id] \in [slot : Slots, blocks : Seq(Pages), tokens : Nat]
              /\ Len(seqs[id].blocks) = BlocksFor(seqs[id].tokens)
              /\ IsInjective(seqs[id].blocks)
         /\ DOMAIN entries \subseteq Snapshots
         /\ \A s \in DOMAIN entries :
              /\ entries[s].blocks \in Seq(Pages) /\ entries[s].tokens \in Seq(Proved!Tokens)
              /\ Len(entries[s].tokens) \in Nat
              /\ Len(entries[s].blocks) = BlocksFor(Len(entries[s].tokens))
         /\ freeSnapshots \subseteq Snapshots
         /\ (freeSnapshots \cup DOMAIN entries) \cap DOMAIN saving = {}
<1>1. DOMAIN client = DOMAIN active
  BY DEF client
<1>2. /\ Proved!IsFiniteSet(DOMAIN seqs) /\ DOMAIN client = DOMAIN seqs
      /\ \A id \in DOMAIN seqs :
           /\ seqs[id] \in [slot : Slots, blocks : Seq(Pages), tokens : Nat]
           /\ Len(seqs[id].blocks) = Proved!BlocksFor(seqs[id].tokens)
           /\ Proved!IsInjective(seqs[id].blocks)
  BY DEF Proved!IInv, Proved!SeqPart
<1>3. /\ DOMAIN entries \subseteq Snapshots
      /\ \A s \in DOMAIN entries :
           /\ entries[s] \in [tokens : Seq(Proved!Tokens), blocks : Seq(Pages), pins : Nat]
           /\ Len(entries[s].blocks) = Proved!BlocksFor(Len(entries[s].tokens))
  BY DEF Proved!IInv, Proved!EntryPart
<1>4. /\ freeSnapshots = Snapshots \ (DOMAIN entries \cup DOMAIN saving)
      /\ DOMAIN entries \cap DOMAIN saving = {}
  BY DEF Proved!IInv, Proved!SnapshotsExact
<1>5. \A s \in DOMAIN entries : /\ entries[s].blocks \in Seq(Pages)
                                /\ entries[s].tokens \in Seq(Proved!Tokens)
                                /\ Len(entries[s].tokens) \in Nat
  BY <1>3, LenProperties
<1> QED BY <1>1, <1>2, <1>3, <1>4, <1>5, SameSets, SameTables

\* The ids of chunks.
IdsOf(chunks) == [i \in DOMAIN chunks |-> chunks[i].id]

\* The ids follow the chunks.
LEMMA IdsOfChunks ==
  ASSUME NEW chunks \in Seq(Chunk)
  PROVE  /\ IdsOf(chunks) \in Seq(Ids) /\ Len(IdsOf(chunks)) = Len(chunks)
         /\ \A c \in Chunk : IdsOf(Append(chunks, c)) = Append(IdsOf(chunks), c.id)
         /\ chunks # <<>> => /\ IdsOf(chunks) # <<>>
                             /\ Head(IdsOf(chunks)) = Head(chunks).id
                             /\ IdsOf(Tail(chunks)) = Tail(IdsOf(chunks))
         /\ IdsOf(<<>>) = <<>>
<1> DEFINE n == Len(chunks)
           ids == IdsOf(chunks)
<1>1. n \in Nat /\ DOMAIN chunks = 1..n /\ \A i \in 1..n : chunks[i] \in Chunk
  BY LenProperties, ElementOfSeq
<1>2. ids \in [1..n -> Ids]
  <2>1. \A i \in 1..n : chunks[i].id \in Ids
    BY <1>1 DEF Chunk
  <2>2. ids = [i \in 1..n |-> chunks[i].id]
    BY <1>1 DEF IdsOf
  <2> HIDE DEF ids, n
  <2> QED BY <2>1, <2>2
<1>3. ids \in Seq(Ids) /\ Len(ids) = n
  <2>1. ids \in Seq(Ids)
    BY <1>1, <1>2, SeqDef
  <2>2. Len(ids) \in Nat /\ DOMAIN ids = 1..Len(ids) /\ DOMAIN ids = 1..n
    BY <1>2, <2>1, LenProperties
  <2> QED BY <1>1, <2>1, <2>2, IntervalLength, Zenon
<1>4. ASSUME NEW c \in Chunk PROVE IdsOf(Append(chunks, c)) = Append(ids, c.id)
  <2> DEFINE a == Append(chunks, c)
             b == Append(ids, c.id)
  <2>1. /\ a \in Seq(Chunk) /\ Len(a) = n + 1 
        /\ \A i \in 1..n : a[i] = chunks[i]
        /\ a[n + 1] = c
    BY AppendProperties
  <2>2. /\ b \in Seq(Ids) /\ Len(b) = n + 1 
        /\ \A i \in 1..n : b[i] = ids[i]
        /\ b[n + 1] = c.id
    BY <1>3, AppendProperties DEF Chunk
  <2>3. DOMAIN a = 1..(n + 1) /\ DOMAIN b = 1..(n + 1)
    BY <1>1, <2>1, <2>2, LenProperties
  <2>4. \A i \in 1..(n + 1) : i \in 1..n \/ i = n + 1
    BY <1>1
  <2>5. \A i \in 1..n : ids[i] = chunks[i].id
    BY <1>1 DEF IdsOf
  <2>7. \A i \in 1..(n + 1) : b[i] = a[i].id
    <3> HIDE DEF a, b, n, ids
    <3> QED BY <2>1, <2>2, <2>4, <2>5
  <2>8. b = [i \in 1..(n + 1) |-> b[i]]
    <3>1. b \in [1..(n + 1) -> Ids]
      BY <1>1, <2>2, <2>3, LenProperties
    <3> QED BY <3>1
  <2> HIDE DEF a, b, n, ids
  <2>9. b = IdsOf(a)
    BY <2>3, <2>7, <2>8 DEF IdsOf
  <2> QED BY <2>9 DEF a, b, ids
<1>5. ASSUME chunks # <<>>
      PROVE  /\ ids # <<>> /\ Head(ids) = Head(chunks).id
             /\ IdsOf(Tail(chunks)) = Tail(ids)
  <2>1. n \in Nat \ {0}
    BY <1>5, EmptySeq
  <2>2. ids # <<>>
    BY <1>3, <2>1, EmptySeq
  <2>3. Head(ids) = Head(chunks).id
    <3>1. 1 \in 1..n /\ Head(ids) = ids[1] /\ Head(chunks) = chunks[1]
      BY <1>3, <1>5, <2>1, <2>2
    <3> QED BY <1>1, <3>1 DEF IdsOf
  <2> DEFINE a == Tail(chunks)
             b == Tail(ids)
  <2>4. /\ a \in Seq(Chunk) /\ Len(a) = n - 1 
        /\ \A i \in 1..(n - 1) : a[i] = chunks[i + 1]
    BY <1>5, HeadTailProperties
  <2>5. /\ b \in Seq(Ids) /\ Len(b) = n - 1 
        /\ \A i \in 1..(n - 1) : b[i] = ids[i + 1]
    BY <1>3, <2>2, HeadTailProperties
  <2>6. DOMAIN a = 1..(n - 1) /\ b \in [1..(n - 1) -> Ids]
    BY <2>4, <2>5, LenProperties
  <2>7. \A i \in 1..(n - 1) : b[i] = a[i].id
    <3>1. \A i \in 1..(n - 1) : i + 1 \in 1..n
      BY <2>1
    <3>2. \A i \in 1..n : ids[i] = chunks[i].id
      BY <1>1 DEF IdsOf
    <3> HIDE DEF a, b, n, ids
    <3> QED BY <2>4, <2>5, <3>1, <3>2
  <2> HIDE DEF a, b, n, ids
  <2>8. b = IdsOf(a)
    BY <2>6, <2>7 DEF IdsOf
  <2> QED BY <2>2, <2>3, <2>8 DEF a, b
<1>6. IdsOf(<<>>) = <<>>
  BY DEF IdsOf
<1> QED BY <1>3, <1>4, <1>5, <1>6

\* The chunks of a batch by their ids.
LEMMA ChunkIdsAre == ChunkIds = IdsOf(batch.prefill)
BY DEF ChunkIds, IdsOf

\* The ids of a set of chunks.
LEMMA RangeOfIds ==
  ASSUME NEW chunks PROVE Range(IdsOf(chunks)) = {c.id : c \in Range(chunks)}
BY DEF Range, IdsOf

\* The request id changes, the others do not.
OthersStay(id) ==
  DOMAIN active' = DOMAIN active /\ \A j \in DOMAIN active : j # id => active'[j] = active[j]

\* A request that changes its phase leaves one place for another.
LEMMA PhaseChanged ==
  ASSUME NEW id \in DOMAIN active, OthersStay(id)
  PROVE  \A p : WithPhase(p)' = IF active'[id].phase = p THEN WithPhase(p) \cup {id}
                                ELSE WithPhase(p) \ {id}
BY DEF OthersStay, WithPhase

\* A request that enters is in one place.
LEMMA PhaseAdded ==
  ASSUME NEW id, id \notin DOMAIN active, NEW r, active' = With(active, id, r)
  PROVE  \A p : WithPhase(p)' = IF r.phase = p THEN WithPhase(p) \cup {id} ELSE WithPhase(p)
BY DEF With, WithPhase

\* A request that leaves is in none.
LEMMA PhaseGone ==
  ASSUME NEW id, active' = Without(active, {id})
  PROVE  \A p : WithPhase(p)' = WithPhase(p) \ {id}
BY DEF Without, WithPhase

\* Snapshots that are reserved, committed and cancelled.
LEMMA SavingFacts ==
  ASSUME SavePart
  PROVE  /\ DOMAIN saving = {u.snapshot : u \in Range(batch.saves)}
         /\ \A u \in Range(batch.saves) : saving[u.snapshot] = u.id
         /\ saving = [s \in DOMAIN saving |-> saving[s]]
BY DEF SavePart, saving

\* One more snapshot is reserved.
LEMMA SavingMore ==
  ASSUME SavePart, SavePart', NEW save, save.snapshot \notin DOMAIN saving,
         Range(batch'.saves) = Range(batch.saves) \cup {save}
  PROVE  saving' = With(saving, save.snapshot, save.id)
<1> DEFINE old == Range(batch.saves)
           new == Range(batch'.saves)
           f == saving
           g == saving'
<1>1. /\ DOMAIN f = {u.snapshot : u \in old} /\ \A u \in old : f[u.snapshot] = u.id
  BY SavingFacts
<1>2. /\ DOMAIN g = {u.snapshot : u \in new} /\ \A u \in new : g[u.snapshot] = u.id
      /\ g = [s \in DOMAIN g |-> g[s]]
  BY DEF SavePart, saving
<1>3. new = old \cup {save} /\ save.snapshot \notin DOMAIN f
  OBVIOUS
<1> HIDE DEF old, new, f, g
<1>4. DOMAIN g = DOMAIN f \cup {save.snapshot}
  BY <1>1, <1>2, <1>3
<1>5. \A s \in DOMAIN g : g[s] = IF s = save.snapshot THEN save.id ELSE f[s]
  BY <1>1, <1>2, <1>3
<1>6. g = With(f, save.snapshot, save.id)
  BY <1>2, <1>4, <1>5 DEF With
<1> QED BY <1>6 DEF f, g

\* A reserved snapshot is dealt with.
LEMMA SavingLess ==
  ASSUME SavePart, SavePart', NEW save \in Range(batch.saves),
         Range(batch'.saves) = Range(batch.saves) \ {save}
  PROVE  saving' = Without(saving, {save.snapshot})
<1> DEFINE old == Range(batch.saves)
           new == Range(batch'.saves)
           f == saving
           g == saving'
<1>1. /\ DOMAIN f = {u.snapshot : u \in old} /\ \A u \in old : f[u.snapshot] = u.id
  BY SavingFacts
<1>2. /\ DOMAIN g = {u.snapshot : u \in new} /\ \A u \in new : g[u.snapshot] = u.id
      /\ g = [s \in DOMAIN g |-> g[s]]
  BY DEF SavePart, saving
<1>3. new = old \ {save} /\ save \in old /\ \A u, v \in old : u.snapshot = v.snapshot => u = v
  BY DEF SavePart
<1> HIDE DEF old, new, f, g
<1>4. DOMAIN g = DOMAIN f \ {save.snapshot}
  BY <1>1, <1>2, <1>3
<1>5. \A s \in DOMAIN g : g[s] = f[s]
  BY <1>1, <1>2, <1>3
<1>6. g = Without(f, {save.snapshot})
  BY <1>2, <1>4, <1>5 DEF Without
<1> QED BY <1>6 DEF f, g

\* Nothing happens to the reserved snapshots.
LEMMA SavingSame == ASSUME batch'.saves = batch.saves PROVE UNCHANGED saving
BY DEF saving

\* What the scheduler owes its sequences.
Owed(id, restore) ==
  [prompt |-> Request(id).prompt, restore |-> {r.snapshot : r \in restore}]

\* The restores that are due stay.
LEMMA ClientSame ==
  ASSUME DOMAIN active' = DOMAIN active,
         \A id \in DOMAIN active : active'[id].restore = active[id].restore
  PROVE  UNCHANGED client
BY DEF client

\* A restore is done.
LEMMA ClientRestored ==
  ASSUME NEW id \in DOMAIN active, OthersStay(id), active'[id].restore = {}
  PROVE  client' = [client EXCEPT ![id].restore = {}]
BY DEF client, OthersStay

\* A request enters, with the restore it is due.
LEMMA ClientMore ==
  ASSUME NEW id, NEW r, active' = With(active, id, r)
  PROVE  client' = With(client, id, Owed(id, r.restore))
BY DEF client, With, Owed

\* A request leaves.
LEMMA ClientLess ==
  ASSUME NEW id, active' = Without(active, {id})
  PROVE  client' = Without(client, {id})
BY DEF client, Without

\* Nothing happens to the cache.
LEMMA CacheStays ==
  ASSUME UNCHANGED <<cacheVars, client, saving>>
  PROVE  UNCHANGED Cache!vars /\ UNCHANGED Proved!vars
BY DEF cacheVars, Cache!vars, Proved!vars, Cache!cacheVars, Proved!cacheVars

\* What is reserved at admission.
LEMMA ReservedNat == \A id \in Ids : Reserved(id) \in Nat
<1>1. \A n \in Nat : BlocksFor(n) \in Nat
  BY CacheAssumption DEF CacheAssumption, BlocksFor
<1>2. \A id \in Ids : PromptLen(id) + Request(id).maxNew \in Nat
  BY SchedulerAssumption, LenProperties DEF SchedulerAssumption, PromptLen
<1> QED BY <1>1, <1>2 DEF Reserved

\* A request that enters adds its reservation.
LEMMA ReservedMore ==
  ASSUME IsFiniteSet(DOMAIN active), DOMAIN active \subseteq Ids, NEW id \in Ids,
       id \notin DOMAIN active
  PROVE  \A r : ReservedAll(With(active, id, r)) = ReservedAll(active) + Reserved(id)
<1> SUFFICES ASSUME NEW r
             PROVE ReservedAll(With(active, id, r)) = ReservedAll(active) + Reserved(id)
  OBVIOUS
<1> DEFINE D == DOMAIN active
           E == D \cup {id}
           f == [x \in D |-> Reserved(x)]
           g == [x \in E |-> Reserved(x)]
<1>1. DOMAIN With(active, id, r) = E
  BY DEF With
<1>2. ReservedAll(With(active, id, r)) = SumFunctionOnSet(g, E)
           /\ ReservedAll(active) = SumFunctionOnSet(f, D)
  BY <1>1 DEF ReservedAll, SumFunction, SumFunctionOnSet, FoldFunction
<1>3. \A x \in D : g[x] = f[x] /\ f[x] \in Int
  BY ReservedNat
<1>4. g[id] = Reserved(id) /\ Reserved(id) \in Int
  BY ReservedNat
<1> HIDE DEF f, g
<1>5. SumFunctionOnSet(g, D) = SumFunctionOnSet(f, D)
  BY <1>3, SumAgree
<1>6. SumFunctionOnSet(g, E) = g[id] + SumFunctionOnSet(g, D)
  BY <1>3, <1>4, SumAdd
<1>7. SumFunctionOnSet(f, D) \in Int
  BY <1>3, SumInt
<1> QED BY <1>2, <1>4, <1>5, <1>6, <1>7

\* A request that leaves takes its reservation with it.
LEMMA ReservedLess ==
  ASSUME IsFiniteSet(DOMAIN active), DOMAIN active \subseteq Ids, NEW id \in DOMAIN active
  PROVE  /\ ReservedAll(Without(active, {id})) = ReservedAll(active) - Reserved(id)
         /\ ReservedAll(active) \in Nat
<1> DEFINE D == DOMAIN active
           E == D \ {id}
           f == [x \in D |-> Reserved(x)]
           g == [x \in E |-> Reserved(x)]
<1>1. DOMAIN Without(active, {id}) = E
  BY DEF Without
<1>2. ReservedAll(Without(active, {id})) = SumFunctionOnSet(g, E)
           /\ ReservedAll(active) = SumFunctionOnSet(f, D)
  BY <1>1 DEF ReservedAll, SumFunction, SumFunctionOnSet, FoldFunction
<1>3. /\ \A x \in D : f[x] \in Nat /\ f[x] \in Int
      /\ \A x \in E : g[x] = f[x] 
  BY ReservedNat
<1>4. f[id] = Reserved(id) /\ Reserved(id) \in Int /\ IsFiniteSet(E)
  BY ReservedNat, FS_Subset
<1> HIDE DEF f, g
<1>5. SumFunctionOnSet(g, E) = SumFunctionOnSet(f, E)
  BY <1>3, <1>4, SumAgree
<1>6. SumFunctionOnSet(f, D) = f[id] + SumFunctionOnSet(f, E) /\ SumFunctionOnSet(f, E) \in Int
  BY <1>3, SumRemove
<1>7. SumFunctionOnSet(f, D) \in Nat
  BY <1>3, SumNat
<1> QED BY <1>2, <1>4, <1>5, <1>6, <1>7

\* The cache has the sequences of the active requests after a step as well.
LEMMA CacheFactsNext == Proved!IInv' => (DOMAIN seqs = DOMAIN active)'
<1>1. Proved!IInv => DOMAIN seqs = DOMAIN active
  BY CacheFacts
<1> QED BY <1>1, PTL

-----------------------------------------------------------------------------
(* The loops of next_batch, complete_batch_multi and abort_batch; queueing. *)

\* A step of the scheduler is one of the cache manager, in both instances.
Maps == /\ [Cache!Next]_(Cache!vars)
        /\ [Proved!Next]_(Proved!vars)

\* What a step that leaves the requests and the batch alone keeps.
LEMMA RequestsSame ==
  ASSUME SInv, UNCHANGED <<seqs, active, committed, batch, extra>>
  PROVE  /\ BatchPart' /\ RestorePart' /\ SavePart' /\ ActivePart' /\ CommittedPart'
         /\ UNCHANGED <<client, saving>>
         /\ DOMAIN active' = DOMAIN active /\ \A p : WithPhase(p)' = WithPhase(p)
<1>1. \A p : WithPhase(p)' = WithPhase(p)
  BY DEF WithPhase
<1>2. ChunkIds' = ChunkIds
  BY DEF ChunkIds
<1>3. BatchPart'
  BY <1>1, <1>2 DEF SInv, BatchPart, BatchType, ChunkRight
<1>4. RestorePart' /\ SavePart'
  BY <1>2 DEF SInv, RestorePart, SavePart
<1>5. ActivePart'
  BY DEF SInv, ActivePart, Known, Counted
<1>6. CommittedPart'
  BY DEF SInv, CommittedPart, ReservedAll
<1>7. UNCHANGED <<client, saving>>
  BY DEF client, saving
<1> QED BY <1>1, <1>3, <1>4, <1>5, <1>6, <1>7

\* The steps from one loop of next_batch to the next, and into the batch's
\* completion or its abort.
LEMMA LoopStep ==
  ASSUME SInv,
         \/ BeginBatch \/ DecodePlanned \/ BeginAdmission \/ EndAdmission \/ EndBatch
         \/ BeginComplete \/ BeginAbort
  PROVE  Maps /\ SInv'
<1>1. UNCHANGED <<cacheVars, queueVars, active, committed, batch, extra>>
  BY DEF BeginBatch, DecodePlanned, BeginAdmission, EndAdmission, EndBatch, BeginComplete,
         BeginAbort
<1>2. UNCHANGED <<seqs, waiting, prefillReady, decodeReady>>
  BY <1>1 DEF cacheVars, queueVars
<1>3. /\ BatchPart' /\ RestorePart' /\ SavePart' /\ ActivePart' /\ CommittedPart'
      /\ UNCHANGED <<client, saving>>
      /\ DOMAIN active' = DOMAIN active /\ \A p : WithPhase(p)' = WithPhase(p)
  BY <1>1, <1>2, RequestsSame
<1>4. QueuePart'
  BY <1>2, <1>3 DEF SInv, QueuePart
<1>5. Maps
  BY <1>1, <1>3, CacheStays DEF Maps
<1>6. /\ StepPart /\ ExtraPart /\ BatchType
      /\ Len(waiting) \in Nat /\ Len(decodeReady) \in Nat
  BY LenProperties DEF SInv, BatchPart, QueuePart
<1>7. StepPart' /\ ExtraPart'
  <2>1. CASE BeginBatch
    BY <1>1, <1>2, <1>6, <2>1 DEF BeginBatch, StepPart, ExtraPart, NoBatch, Steps
  <2>2. CASE DecodePlanned
    BY <1>1, <1>2, <1>6, <2>2 DEF DecodePlanned, StepPart, ExtraPart, NoBatch, Steps
  <2>3. CASE BeginAdmission
    BY <1>1, <1>2, <1>6, <2>3 DEF BeginAdmission, StepPart, ExtraPart, NoBatch, Steps
  <2>4. CASE EndAdmission
    BY <1>1, <1>2, <1>6, <2>4 DEF EndAdmission, StepPart, ExtraPart, NoBatch, Steps
  <2>5. CASE EndBatch
    BY <1>1, <1>2, <1>6, <2>5 DEF EndBatch, StepPart, ExtraPart, NoBatch, Steps
  <2>6. CASE BeginComplete
    BY <1>1, <1>2, <1>6, <2>6 DEF BeginComplete, StepPart, ExtraPart, NoBatch, Steps
  <2>7. CASE BeginAbort
    BY <1>1, <1>2, <1>6, <2>7 DEF BeginAbort, StepPart, ExtraPart, NoBatch, Steps
  <2> QED BY <2>1, <2>2, <2>3, <2>4, <2>5, <2>6, <2>7
<1> QED BY <1>3, <1>4, <1>5, <1>7 DEF SInv

\* What a step that only queues or unqueues waiting requests keeps.
LEMMA WaitingSame ==
  ASSUME SInv, UNCHANGED <<cacheVars, active, committed, batch, extra, prefillReady, decodeReady>>,
         waiting' \in Seq(Ids), IsInjective(waiting'), Range(waiting') \cap DOMAIN active = {}
  PROVE  /\ Maps /\ QueuePart' /\ BatchPart' /\ RestorePart' /\ SavePart' /\ ActivePart'
         /\ CommittedPart'
<1>1. UNCHANGED seqs
  BY DEF cacheVars
<1>2. /\ BatchPart' /\ RestorePart' /\ SavePart' /\ ActivePart' /\ CommittedPart'
      /\ UNCHANGED <<client, saving>>
      /\ DOMAIN active' = DOMAIN active /\ \A p : WithPhase(p)' = WithPhase(p)
  BY <1>1, RequestsSame
<1>3. QueuePart'
  BY <1>2 DEF SInv, QueuePart
<1>4. Maps
  BY <1>2, CacheStays DEF Maps
<1> QED BY <1>2, <1>3, <1>4

\* submit: one more request waits.
LEMMA SubmitStep == ASSUME SInv, NEW id \in Ids, Submit(id) PROVE Maps /\ SInv'
<1>1. /\ waiting \in Seq(Ids) /\ IsInjective(waiting) /\ Range(waiting) \cap DOMAIN active = {}
  BY DEF SInv, QueuePart
<1>2. /\ step \in {"idle", "flight"} /\ id \notin DOMAIN active /\ id \notin Range(waiting)
      /\ waiting' = Append(waiting, id)
      /\ UNCHANGED <<cacheVars, prefillReady, decodeReady, active, committed, batch,
                      step, left, extra>>
  BY DEF Submit
<1>3. /\ Append(waiting, id) \in Seq(Ids) /\ IsInjective(Append(waiting, id))
      /\ Range(Append(waiting, id)) = Range(waiting) \cup {id}
  BY <1>1, <1>2, QueueAppend
<1>4. /\ Maps /\ QueuePart' /\ BatchPart' /\ RestorePart' /\ SavePart' /\ ActivePart'
      /\ CommittedPart'
  BY <1>1, <1>2, <1>3, WaitingSame
<1>5. ExtraPart' /\ StepPart'
  BY <1>2 DEF SInv, ExtraPart, StepPart, NoBatch
<1> QED BY <1>4, <1>5 DEF SInv

\* cancel: one request less waits.
LEMMA CancelWaitingStep == ASSUME SInv, NEW id \in Ids, CancelWaiting(id) PROVE Maps /\ SInv'
<1>1. /\ waiting \in Seq(Ids) /\ IsInjective(waiting) /\ Range(waiting) \cap DOMAIN active = {}
  BY DEF SInv, QueuePart
<1>2. /\ step \in {"idle", "flight"} /\ id \in Range(waiting)
      /\ waiting' = RemoveFirst(waiting, id)
      /\ UNCHANGED <<cacheVars, prefillReady, decodeReady, active, committed, batch,
                      step, left, extra>>
  BY DEF CancelWaiting
<1>3. /\ RemoveFirst(waiting, id) \in Seq(Ids) /\ IsInjective(RemoveFirst(waiting, id))
      /\ Range(RemoveFirst(waiting, id)) = Range(waiting) \ {id}
  BY <1>1, <1>2, QueueRemove
<1>4. /\ Maps /\ QueuePart' /\ BatchPart' /\ RestorePart' /\ SavePart' /\ ActivePart'
      /\ CommittedPart'
  BY <1>1, <1>2, <1>3, WaitingSame
<1>5. ExtraPart' /\ StepPart'
  BY <1>2 DEF SInv, ExtraPart, StepPart, NoBatch
<1> QED BY <1>4, <1>5 DEF SInv

-----------------------------------------------------------------------------
(* Passing over.                                                           *)

\* The tokens of the sequence id in the cache change by n, the others' do not.
TokensBy(id, n) ==
  /\ DOMAIN seqs' = DOMAIN seqs /\ seqs'[id].tokens = seqs[id].tokens + n
  /\ \A j \in DOMAIN seqs : j # id => seqs'[j] = seqs[j]

\* append_token: one token more.
LEMMA AppendTokens ==
  ASSUME NEW id, AppendToken(id), seqs[id] \in [slot : Slots, blocks : Seq(Pages), tokens : Nat]
  PROVE  TokensBy(id, 1)
<1>1. id \in DOMAIN seqs /\ \E B : seqs' = [seqs EXCEPT ![id].tokens = @ + 1, ![id].blocks = B]
  BY DEF AppendToken
<1>2. PICK B : seqs' = [seqs EXCEPT ![id].tokens = @ + 1, ![id].blocks = B]
  BY <1>1
<1> QED BY <1>1, <1>2 DEF TokensBy

\* append_token that is refused changes no sequence.
LEMMA RefusedTokens == ASSUME NEW id, AppendRefused(id) PROVE UNCHANGED seqs
BY DEF AppendRefused, AcquireRefused

\* rollback_token: one token less.
LEMMA RollbackTokens ==
  ASSUME NEW id, RollbackToken(id), seqs[id] \in [slot : Slots, blocks : Seq(Pages), tokens : Nat]
  PROVE  TokensBy(id, 0 - 1)
<1>1. id \in DOMAIN seqs /\ \E B : seqs' = [seqs EXCEPT ![id].tokens = @ - 1, ![id].blocks = B]
  BY DEF RollbackToken
<1>2. PICK B : seqs' = [seqs EXCEPT ![id].tokens = @ - 1, ![id].blocks = B]
  BY <1>1
<1>3. seqs[id].tokens - 1 = seqs[id].tokens + (0 - 1)
  OBVIOUS
<1> QED BY <1>1, <1>2, <1>3 DEF TokensBy

\* The tokens of a new sequence.
LEMMA AdmitTokens ==
  ASSUME NEW id, NEW n, Admit(id, n)
  PROVE  /\ id \notin DOMAIN seqs /\ DOMAIN seqs' = DOMAIN seqs \cup {id}
         /\ seqs'[id].tokens = n /\ \A j \in DOMAIN seqs : seqs'[j] = seqs[j]
<1>1. id \notin DOMAIN seqs
           /\ \E s, B : seqs' = With(seqs, id, [slot |-> s, blocks |-> B, tokens |-> n])
  BY DEF Admit
<1> QED BY <1>1 DEF With

\* A sequence that continues an entry has all of its prompt.
LEMMA AdmitHitTokens ==
  ASSUME NEW id, NEW p, NEW s, AdmitHit(id, p, s)
  PROVE  /\ id \notin DOMAIN seqs /\ DOMAIN seqs' = DOMAIN seqs \cup {id}
         /\ seqs'[id].tokens = Len(p) /\ \A j \in DOMAIN seqs : seqs'[j] = seqs[j]
<1>1. id \notin DOMAIN seqs
           /\ \E t, B : seqs' = With(seqs, id, [slot |-> t, blocks |-> B, tokens |-> Len(p)])
  BY DEF AdmitHit
<1> QED BY <1>1 DEF With

\* A released sequence is gone, and no other is touched.
LEMMA ReleaseTokens ==
  ASSUME NEW id, NEW due, Release(id, due)
  PROVE  DOMAIN seqs' = DOMAIN seqs \ {id} /\ \A j \in DOMAIN seqs' : seqs'[j] = seqs[j]
BY DEF Release, Without

\* next_batch puts a request it cannot admit behind the others.
LEMMA PassOverStep == ASSUME SInv, Proved!IInv, PassOver PROVE Maps /\ SInv'
<1> DEFINE id == Head(waiting)
<1>1. /\ waiting \in Seq(Ids) /\ IsInjective(waiting) /\ Range(waiting) \cap DOMAIN active = {}
      /\ step = "admit" /\ left > 0 /\ left \in Nat /\ prefillReady = <<>> /\ left <= Len(waiting)
  BY DEF SInv, QueuePart, StepPart, PassOver
<1>2. waiting # <<>> /\ Len(waiting) \in Nat /\ id \in Ids
  BY <1>1, LenProperties
<1> HIDE DEF id
<1>3. /\ \/ UNCHANGED cacheVars
         \/ AdmitRefused(id, Len(Request(id).prompt))
         \/ \E s \in DOMAIN entries : AdmitHitRefused(id, Request(id).prompt, s)
      /\ waiting' = Append(Tail(waiting), Head(waiting)) /\ left' = left - 1
      /\ UNCHANGED <<prefillReady, decodeReady, active, committed, batch, step, extra>>
  BY DEF PassOver, Rotate, id
<1>4. UNCHANGED seqs
  BY <1>3 DEF cacheVars, AdmitRefused, AdmitHitRefused, AcquireRefused
<1>5. /\ BatchPart' /\ RestorePart' /\ SavePart' /\ ActivePart' /\ CommittedPart'
      /\ UNCHANGED <<client, saving>>
      /\ DOMAIN active' = DOMAIN active /\ \A p : WithPhase(p)' = WithPhase(p)
  BY <1>3, <1>4, RequestsSame
<1>6. Maps
  <2>1. CASE UNCHANGED cacheVars
    BY <1>5, <2>1, CacheStays DEF Maps
  <2>2. CASE ~UNCHANGED cacheVars
    BY <1>2, <1>3, <1>5, <2>2, RefuseCall DEF Maps
  <2> QED BY <2>1, <2>2
<1>7. /\ waiting' \in Seq(Ids) /\ IsInjective(waiting') /\ Len(waiting') = Len(waiting)
      /\ Range(waiting') = Range(waiting)
  BY <1>1, <1>2, <1>3, RotateQueue
<1>8. QueuePart'
  BY <1>1, <1>3, <1>5, <1>7 DEF SInv, QueuePart
<1>9. ExtraPart' /\ StepPart'
  <2>1. left - 1 \in Nat /\ left - 1 <= Len(waiting)
    BY <1>1, <1>2
  <2> QED BY <1>1, <1>3, <1>7, <2>1 DEF SInv, ExtraPart, StepPart, Steps
<1> QED BY <1>5, <1>6, <1>8, <1>9 DEF SInv

-----------------------------------------------------------------------------
(* Planning a token.                                                       *)

\* Restores stay right while batch, chunks and what is due stay.
LEMMA RestoreSame ==
  ASSUME RestorePart, ChunkIds' = ChunkIds, batch'.restores = batch.restores,
         \A j \in Range(ChunkIds) : active'[j].restore = active[j].restore
  PROVE  RestorePart'
BY DEF RestorePart

\* Reserved snapshots stay right while batch and chunks stay.
LEMMA SaveSame ==
  ASSUME SavePart, ChunkIds' = ChunkIds, batch'.saves = batch.saves
  PROVE  SavePart'
BY DEF SavePart

\* committed stays right while the active requests stay.
LEMMA CommittedSame ==
  ASSUME CommittedPart, UNCHANGED committed, DOMAIN active' = DOMAIN active
  PROVE  CommittedPart'
BY DEF CommittedPart, ReservedAll

\* One request changes, and its sequence with it.
LEMMA ActiveChanged ==
  ASSUME ActivePart, NEW id \in DOMAIN active, OthersStay(id), Known(id)', Counted(id)',
         \A j \in DOMAIN active : j # id =>
           /\ seqs'[j].tokens = seqs[j].tokens
           /\ active[j].phase = "DecodeInFlight" => extra' = extra
  PROVE  ActivePart'
<1>1. ASSUME NEW j \in DOMAIN active, j # id PROVE Known(j)' /\ Counted(j)'
  <2>1. /\ active'[j] = active[j] /\ seqs'[j].tokens = seqs[j].tokens
        /\ active[j].phase = "DecodeInFlight" => extra' = extra
    BY <1>1 DEF OthersStay
  <2>2. Known(j) /\ Counted(j)
    BY DEF ActivePart
  <2>3. Known(j)'
    BY <2>1, <2>2 DEF Known
  <2>4. Counted(j)'
    BY <2>1, <2>2 DEF Counted
  <2> QED BY <2>3, <2>4
<1> QED BY <1>1 DEF ActivePart, OthersStay

\* The facts about an active request that the steps need.
LEMMA RequestFacts ==
  ASSUME ActivePart, NEW id \in DOMAIN active
  PROVE  /\ id \in Ids /\ Known(id) /\ Counted(id)
         /\ active[id] \in Record /\ active[id].prefilled \in Nat /\ active[id].generated \in Nat
         /\ PromptLen(id) \in Nat \ {0} /\ Request(id).maxNew \in Nat \ {0}
<1>1. id \in Ids /\ Known(id) /\ Counted(id)
  BY DEF ActivePart
<1>2. PromptLen(id) \in Nat \ {0} /\ Request(id).maxNew \in Nat \ {0}
  BY <1>1, SchedulerAssumption, LenProperties DEF SchedulerAssumption, PromptLen
<1> QED BY <1>1, <1>2 DEF Known, Record

\* A request may have as many tokens as it may generate.
LEMMA GrowAllowed ==
  ASSUME NEW id \in Ids, NEW n \in Nat, n < PromptLen(id) + Request(id).maxNew
  PROVE  n < PromptLen(id) + MaxNew
<1>1. PromptLen(id) \in Nat \ {0} /\ Request(id).maxNew \in Nat \ {0}
  BY SchedulerAssumption, LenProperties DEF SchedulerAssumption, PromptLen
<1> QED BY <1>1, MaxNewBounds

\* next_batch plans the next token of a request.
LEMMA PlanDecodeStep == ASSUME SInv, Proved!IInv, PlanDecode PROVE Maps /\ SInv'
<1>0. PICK id : id = Head(decodeReady)
  OBVIOUS
<1>1. /\ step = "decode" /\ left > 0 /\ left \in Nat /\ left <= Len(decodeReady)
      /\ batch.prefill = <<>> /\ extra = 0 
      /\ decodeReady \in Seq(Ids) /\ IsInjective(decodeReady)
      /\ Range(decodeReady) = WithPhase("DecodeReady")
  <2>1. extra \in Nat
    BY SchedulerAssumption DEF SInv, ExtraPart, SchedulerAssumption
  <2> QED BY <2>1 DEF SInv, StepPart, ExtraPart, QueuePart, PlanDecode
<1>2. decodeReady # <<>> /\ Len(decodeReady) \in Nat
  BY <1>1, LenProperties
<1>3. /\ id \in Ids /\ id \in Range(decodeReady)
      /\ Tail(decodeReady) \in Seq(Ids) /\ IsInjective(Tail(decodeReady))
      /\ Len(Tail(decodeReady)) = Len(decodeReady) - 1
      /\ Range(Tail(decodeReady)) = Range(decodeReady) \ {id}
  BY <1>0, <1>1, <1>2, QueueTail
<1>4. id \in DOMAIN active /\ active[id].phase = "DecodeReady"
  BY <1>1, <1>3 DEF WithPhase
<1>5. /\ Known(id) /\ Counted(id) /\ active[id] \in Record
      /\ active[id].prefilled \in Nat /\ active[id].generated \in Nat
      /\ PromptLen(id) \in Nat \ {0} /\ Request(id).maxNew \in Nat \ {0}
  BY <1>4, RequestFacts DEF SInv
<1>6. /\ seqs[id].tokens = PromptLen(id) + active[id].generated
      /\ active[id].generated < Request(id).maxNew
      /\ seqs[id].tokens < PromptLen(id) + MaxNew
  <2>1. seqs[id].tokens = PromptLen(id) + active[id].generated
    BY <1>4, <1>5 DEF Counted
  <2>2. active[id].generated < Request(id).maxNew
    BY <1>5 DEF Known
  <2> QED BY <1>3, <1>5, <2>1, <2>2, GrowAllowed
<1>7. DOMAIN seqs = DOMAIN active /\ seqs[id] \in [slot : Slots, blocks : Seq(Pages), tokens : Nat]
  BY <1>4, CacheFacts
<1>8. CASE /\ AppendToken(id)
           /\ decodeReady' = Tail(decodeReady)
           /\ batch' = [batch EXCEPT !.decode = Append(@, id)]
           /\ active' = [active EXCEPT ![id].phase = "DecodeInFlight"]
  <2>1. /\ left' = left - 1
        /\ UNCHANGED <<waiting, prefillReady, committed, step, extra>>
    BY DEF PlanDecode
  <2>2. TokensBy(id, 1)
    BY <1>7, <1>8, AppendTokens
  <2>3. OthersStay(id) /\ active'[id] = [active[id] EXCEPT !.phase = "DecodeInFlight"]
    BY <1>4, <1>8 DEF OthersStay
  <2>4. /\ active'[id].phase = "DecodeInFlight" /\ active'[id] \in Record
        /\ active'[id].prefilled = active[id].prefilled
        /\ active'[id].generated = active[id].generated
        /\ active'[id].restore = active[id].restore
    BY <1>5, <2>3 DEF Record, Phases
  <2>5. \A p : WithPhase(p)' = IF p = "DecodeInFlight" THEN WithPhase(p) \cup {id}
                               ELSE WithPhase(p) \ {id}
    BY <1>4, <2>3, <2>4, PhaseChanged, Zenon
  <2>6. DOMAIN active' = DOMAIN active
    BY <2>3 DEF OthersStay
  <2>7. QueuePart'
    <3>1. id \notin WithPhase("PrefillReady")
      BY <1>4 DEF WithPhase
    <3> QED BY <1>1, <1>3, <1>8, <2>1, <2>5, <2>6, <3>1 DEF SInv, QueuePart
  <2>8. /\ BatchType /\ batch'.decode = Append(batch.decode, id)
        /\ batch'.prefill = batch.prefill /\ batch'.restores = batch.restores
        /\ batch'.saves = batch.saves /\ BatchType'
    <3>1. BatchType
      BY DEF SInv, BatchPart
    <3>2. Append(batch.decode, id) \in Seq(Ids)
      BY <1>3, <3>1, AppendProperties DEF BatchType
    <3> QED BY <1>8, <3>1, <3>2 DEF BatchType
  <2>9. ChunkIds' = ChunkIds /\ Range(batch.prefill) = {}
    BY <1>1, <2>8 DEF ChunkIds, Range
  <2>10. BatchPart'
    <3>1. /\ batch.decode \in Seq(Ids) /\ IsInjective(batch.decode)
          /\ Range(batch.decode) = WithPhase("DecodeInFlight") /\ id \notin Range(batch.decode)
          /\ IsInjective(ChunkIds) /\ Range(ChunkIds) = WithPhase("PrefillInFlight")
          /\ id \notin WithPhase("PrefillInFlight")
      BY <1>4, <2>8 DEF SInv, BatchPart, BatchType, WithPhase
    <3>2. /\ IsInjective(Append(batch.decode, id))
          /\ Range(Append(batch.decode, id)) = Range(batch.decode) \cup {id}
      BY <1>3, <3>1, QueueAppend
    <3> QED BY <2>5, <2>8, <2>9, <3>1, <3>2 DEF BatchPart
  <2>11. RestorePart'
    <3>1. \A j \in DOMAIN active : active'[j].restore = active[j].restore
      BY <2>3, <2>4 DEF OthersStay
    <3>2. Range(ChunkIds) \subseteq DOMAIN active
      BY DEF SInv, BatchPart, WithPhase
    <3> QED BY <2>8, <2>9, <3>1, <3>2, RestoreSame DEF SInv
  <2>12. SavePart' /\ CommittedPart'
    BY <2>1, <2>6, <2>8, <2>9, SaveSame, CommittedSame DEF SInv
  <2>13. ActivePart'
    <3>1. active[id].prefilled = PromptLen(id) /\ active[id].restore = {}
          /\ active[id].prefilled <= PromptLen(id)
      BY <1>4, <1>5 DEF Known
    <3>2. Known(id)'
      BY <1>6, <2>4, <3>1 DEF Known
    <3>3. Counted(id)'
      <4>1. seqs'[id].tokens = PromptLen(id) + active[id].generated + (1 + extra)
        BY <1>1, <1>5, <1>6, <2>2 DEF TokensBy
      <4>2. seqs'[id].tokens <= PromptLen(id) + Request(id).maxNew
        BY <1>1, <1>5, <1>6, <4>1
      <4> QED BY <2>1, <2>4, <4>1, <4>2 DEF Counted
    <3>4. \A j \in DOMAIN active : j # id => seqs'[j].tokens = seqs[j].tokens
      BY <1>7, <2>2 DEF TokensBy
    <3> QED BY <1>4, <2>1, <2>3, <3>2, <3>3, <3>4, ActiveChanged DEF SInv
  <2>14. ExtraPart' /\ StepPart'
    <3>1. left - 1 \in Nat /\ left - 1 <= Len(decodeReady) - 1
      BY <1>1, <1>2
    <3> QED BY <1>1, <1>3, <1>8, <2>1, <2>8, <3>1 DEF SInv, ExtraPart, StepPart, Steps
  <2>15. Maps
    <3>1. UNCHANGED client
      <4>1. \A j \in DOMAIN active : active'[j].restore = active[j].restore
        BY <2>3, <2>4 DEF OthersStay
      <4> QED BY <2>6, <4>1, ClientSame
    <3>2. UNCHANGED saving
      BY <2>8, SavingSame
    <3> QED BY <1>3, <1>4, <1>6, <1>8, <3>1, <3>2, GrowCall DEF Maps
  <2> QED BY <2>7, <2>10, <2>11, <2>12, <2>13, <2>14, <2>15 DEF SInv
<1>9. CASE /\ AppendRefused(id)
           /\ decodeReady' = Append(Tail(decodeReady), id)
           /\ UNCHANGED <<batch, active>>
  <2>1. /\ left' = left - 1
        /\ UNCHANGED <<waiting, prefillReady, committed, step, extra, seqs>>
    BY <1>9, RefusedTokens DEF PlanDecode
  <2>2. /\ BatchPart' /\ RestorePart' /\ SavePart' /\ ActivePart' /\ CommittedPart'
        /\ UNCHANGED <<client, saving>>
        /\ DOMAIN active' = DOMAIN active /\ \A p : WithPhase(p)' = WithPhase(p)
    BY <1>9, <2>1, RequestsSame
  <2>3. /\ decodeReady' \in Seq(Ids) /\ IsInjective(decodeReady')
        /\ Len(decodeReady') = Len(decodeReady) /\ Range(decodeReady') = Range(decodeReady)
    BY <1>0, <1>1, <1>2, <1>9, RotateQueue
  <2>4. QueuePart'
    BY <1>1, <2>1, <2>2, <2>3 DEF SInv, QueuePart
  <2>5. ExtraPart' /\ StepPart'
    <3>1. left - 1 \in Nat /\ left - 1 <= Len(decodeReady)
      BY <1>1, <1>2
    <3> QED BY <1>1, <1>9, <2>1, <2>3, <3>1 DEF SInv, ExtraPart, StepPart, Steps
  <2>6. Maps
    BY <1>3, <1>4, <1>6, <1>9, <2>2, GrowCall DEF Maps
  <2> QED BY <2>2, <2>4, <2>5, <2>6 DEF SInv
<1> QED BY <1>0, <1>8, <1>9 DEF PlanDecode

-----------------------------------------------------------------------------
(* Positions for drafts.                                                   *)

\* The sequence that is drafted for.
LEMMA SpeculativeFacts ==
  ASSUME SInv, Proved!IInv, NEW id \in Ids, Speculative(id)
  PROVE  /\ id \in DOMAIN active /\ active[id].phase = "DecodeInFlight"
         /\ \A j \in DOMAIN active : active[j].phase = "DecodeInFlight" => j = id
         /\ Len(batch.decode) = 1 /\ batch.prefill = <<>>
         /\ DOMAIN seqs = DOMAIN active
         /\ seqs[id] \in [slot : Slots, blocks : Seq(Pages), tokens : Nat]
         /\ extra \in Nat /\ Depth \in Nat
         /\ seqs[id].tokens = PromptLen(id) + active[id].generated + 1 + extra
<1>1. batch.decode = <<id>> /\ batch.prefill = <<>>
  BY DEF Speculative
<1>2. Range(batch.decode) = {id}
  BY <1>1 DEF Range
<1>3. WithPhase("DecodeInFlight") = {id}
  BY <1>2 DEF SInv, BatchPart
<1>4. id \in DOMAIN active /\ active[id].phase = "DecodeInFlight"
  BY <1>3 DEF WithPhase
<1>5. extra \in Nat /\ Depth \in Nat
  BY SchedulerAssumption DEF SInv, ExtraPart, SchedulerAssumption
<1>6. /\ Counted(id) /\ active[id].generated \in Nat /\ PromptLen(id) \in Nat
  BY <1>4, RequestFacts DEF SInv
<1>7. seqs[id].tokens = PromptLen(id) + active[id].generated + 1 + extra
  BY <1>4, <1>5, <1>6 DEF Counted
<1> QED BY <1>1, <1>3, <1>4, <1>5, <1>7, CacheFacts DEF WithPhase

\* A position is reserved ahead or given back.
LEMMA ExtraChanged ==
  ASSUME SInv, Proved!IInv, NEW id \in Ids, Speculative(id), step = "flight",
         NEW n \in Int, TokensBy(id, n), extra' = extra + n, extra' \in 0..Depth,
         active[id].generated + 1 + extra' <= Request(id).maxNew,
         UNCHANGED <<queueVars, active, committed, batch, step, left>>
  PROVE  SInv' /\ UNCHANGED <<client, saving>>
<1>1. /\ id \in DOMAIN active /\ active[id].phase = "DecodeInFlight"
      /\ \A j \in DOMAIN active : active[j].phase = "DecodeInFlight" => j = id
      /\ Len(batch.decode) = 1 /\ batch.prefill = <<>>
      /\ DOMAIN seqs = DOMAIN active
      /\ extra \in Nat
      /\ seqs[id].tokens = PromptLen(id) + active[id].generated + 1 + extra
  BY SpeculativeFacts
<1>2. UNCHANGED <<waiting, prefillReady, decodeReady>> /\ ChunkIds' = ChunkIds
      /\ \A p : WithPhase(p)' = WithPhase(p)
  BY DEF queueVars, ChunkIds, WithPhase
<1>3. QueuePart'
  BY <1>2 DEF SInv, QueuePart
<1>4. BatchPart'
  BY <1>2 DEF SInv, BatchPart, BatchType, ChunkRight
<1>5. RestorePart' /\ SavePart' /\ CommittedPart'
  BY <1>2 DEF SInv, RestorePart, SavePart, CommittedPart, ReservedAll
<1>6. ActivePart'
  <2>1. /\ Known(id) /\ active[id].generated \in Nat /\ PromptLen(id) \in Nat
        /\ Request(id).maxNew \in Nat
    BY <1>1, RequestFacts DEF SInv
  <2>2. Known(id)'
    BY <2>1 DEF Known
  <2>3. Counted(id)'
    <3>1. seqs'[id].tokens = PromptLen(id) + active[id].generated + (1 + extra')
      <4> DEFINE m == PromptLen(id) + active[id].generated
                 s == seqs[id].tokens
                 t == seqs'[id].tokens
      <4>1. m \in Nat /\ extra \in Nat /\ s = m + 1 + extra
        BY <1>1, <2>1
      <4>2. t = s + n /\ extra' = extra + n
        BY DEF TokensBy
      <4> HIDE DEF m, s, t
      <4>3. t = m + (1 + extra')
        BY <4>1, <4>2
      <4> QED BY <4>3 DEF m, t
    <3>2. seqs'[id].tokens <= PromptLen(id) + Request(id).maxNew
      <4> DEFINE g == active[id].generated
                 m == PromptLen(id)
                 mx == Request(id).maxNew
                 t == seqs'[id].tokens
      <4>1. g \in Nat /\ m \in Nat /\ mx \in Nat /\ extra \in Nat /\ extra' \in Int
                 /\ g + 1 + extra' <= mx
        BY <1>1, <2>1
      <4>2. t = m + g + (1 + extra')
        BY <3>1
      <4> HIDE DEF g, m, mx, t
      <4>3. t <= m + mx
        BY <4>1, <4>2
      <4> QED BY <4>3 DEF m, mx, t
    <3> QED BY <1>1, <3>1, <3>2 DEF Counted
  <2>4. \A j \in DOMAIN active : j # id => seqs'[j].tokens = seqs[j].tokens
    BY <1>1 DEF TokensBy
  <2>5. OthersStay(id)
    BY DEF OthersStay
  <2> QED BY <1>1, <2>2, <2>3, <2>4, <2>5, ActiveChanged DEF SInv
<1>7. ExtraPart' /\ StepPart'
  BY <1>1, <1>2 DEF SInv, ExtraPart, StepPart
<1>8. UNCHANGED <<client, saving>>
  BY DEF client, saving
<1> QED BY <1>3, <1>4, <1>5, <1>6, <1>7, <1>8 DEF SInv

\* reserve_extra: a position for a draft.
LEMMA ReserveExtraStep == ASSUME SInv, Proved!IInv, ReserveExtra PROVE Maps /\ SInv'
<1>1. PICK id \in Ids :
        /\ Speculative(id)
        /\ extra < Min({Depth, Request(id).maxNew - active[id].generated - 1})
        /\ AppendToken(id)
  BY DEF ReserveExtra
<1>2. /\ step = "flight" /\ extra' = extra + 1
      /\ UNCHANGED <<queueVars, active, committed, batch, step, left>>
  BY DEF ReserveExtra
<1>3. /\ id \in DOMAIN active
      /\ seqs[id] \in [slot : Slots, blocks : Seq(Pages), tokens : Nat]
      /\ extra \in Nat /\ Depth \in Nat
      /\ seqs[id].tokens = PromptLen(id) + active[id].generated + 1 + extra
  BY <1>1, SpeculativeFacts
<1>4. active[id].generated \in Nat /\ Request(id).maxNew \in Nat /\ PromptLen(id) \in Nat
  BY <1>3, RequestFacts DEF SInv
<1>5. extra < Depth /\ extra < Request(id).maxNew - active[id].generated - 1
  <2> DEFINE b == Request(id).maxNew - active[id].generated - 1
  <2>1. b \in Int
    BY <1>4
  <2>2. Min({Depth, b}) \in {Depth, b} /\ Min({Depth, b}) <= Depth /\ Min({Depth, b}) <= b
    <3> HIDE DEF b
    <3>1. Depth \in Int
      BY <1>3
    <3> QED BY <2>1, <3>1, MinOfTwo, Zenon
  <2>3. extra < Min({Depth, b})
    BY <1>1
  <2> HIDE DEF b
  <2>4. PICK m \in Int : m = Min({Depth, b})
    BY <1>3, <2>1, <2>2
  <2>5. extra < Depth /\ extra < b
    BY <1>3, <2>1, <2>2, <2>3, <2>4
  <2> QED BY <2>5 DEF b
<1>6. TokensBy(id, 1)
  BY <1>1, <1>3, AppendTokens
<1>7. extra' \in 0..Depth /\ active[id].generated + 1 + extra' <= Request(id).maxNew
  <2> DEFINE g == active[id].generated
             m == Request(id).maxNew
  <2>1. g \in Nat /\ m \in Nat /\ extra \in Nat /\ Depth \in Nat /\ extra' = extra + 1
    BY <1>2, <1>3, <1>4
  <2>2. extra < Depth /\ extra < m - g - 1
    BY <1>5
  <2> HIDE DEF g, m
  <2>3. extra' \in 0..Depth /\ g + 1 + extra' <= m
    BY <2>1, <2>2
  <2> QED BY <2>3 DEF g, m
<1>8. SInv' /\ UNCHANGED <<client, saving>>
  BY <1>1, <1>2, <1>6, <1>7, ExtraChanged
<1>9. seqs[id].tokens < PromptLen(id) + MaxNew
  <2>1. seqs[id].tokens \in Nat /\ seqs[id].tokens < PromptLen(id) + Request(id).maxNew
    BY <1>3, <1>4, <1>5
  <2> QED BY <2>1, GrowAllowed
<1> QED BY <1>1, <1>3, <1>8, <1>9, GrowCall DEF Maps

\* release_extra: a rejected draft's position.
LEMMA ReleaseExtraStep == ASSUME SInv, Proved!IInv, ReleaseExtra PROVE Maps /\ SInv'
<1>1. PICK id \in Ids : Speculative(id) /\ RollbackToken(id)
  BY DEF ReleaseExtra
<1>2. /\ step = "flight" /\ extra > 0 /\ extra' = extra - 1
      /\ UNCHANGED <<queueVars, active, committed, batch, step, left>>
  BY DEF ReleaseExtra
<1>3. /\ id \in DOMAIN active /\ active[id].phase = "DecodeInFlight"
      /\ seqs[id] \in [slot : Slots, blocks : Seq(Pages), tokens : Nat]
      /\ extra \in 0..Depth /\ extra \in Nat /\ Depth \in Nat
      /\ seqs[id].tokens = PromptLen(id) + active[id].generated + 1 + extra
  BY <1>1, SpeculativeFacts DEF SInv, ExtraPart
<1>4. /\ active[id].generated \in Nat /\ Request(id).maxNew \in Nat /\ PromptLen(id) \in Nat
      /\ active[id].generated < Request(id).maxNew
      /\ seqs[id].tokens <= PromptLen(id) + Request(id).maxNew
  BY <1>3, RequestFacts DEF SInv, Known, Counted
<1>5. TokensBy(id, 0 - 1)
  BY <1>1, <1>3, RollbackTokens
<1>6. /\ extra' \in 0..Depth /\ active[id].generated + 1 + extra' <= Request(id).maxNew
      /\ extra' = extra + (0 - 1)
  BY <1>2, <1>3, <1>4
<1>7. SInv' /\ UNCHANGED <<client, saving>>
  <2>1. 0 - 1 \in Int
    OBVIOUS
  <2> QED BY <1>1, <1>2, <1>5, <1>6, <2>1, ExtraChanged
<1>8. seqs[id].tokens > PromptLen(id)
  BY <1>2, <1>3, <1>4
<1> QED BY <1>1, <1>3, <1>7, <1>8, ShrinkCall DEF Maps

-----------------------------------------------------------------------------
(* Admission.                                                              *)

\* The page a history ends inside is the last of its pages.
LEMMA PageEndedInside ==
  ASSUME NEW n \in Nat, n % BlockSize # 0
  PROVE  n \div BlockSize + 1 \in 1..BlocksFor(n) /\ BlocksFor(n) \in Nat
<1> DEFINE d == BlockSize
<1>1. d \in Nat \ {0}
  BY CacheAssumption DEF CacheAssumption
<1> HIDE DEF d
<1>2. n % d # 0
  BY DEF d
<1>3. (n + d - 1) \div d >= n \div d + 1 /\ n \div d \in Nat /\ (n + d - 1) \div d \in Nat
  BY <1>1, <1>2
<1>4. BlocksFor(n) = (n + d - 1) \div d
  BY DEF BlocksFor, d
<1> QED BY <1>3, <1>4 DEF d

\* More tokens never need fewer pages.
LEMMA BlocksForMonotonic ==
  ASSUME NEW m \in Nat, NEW n \in Nat, m <= n
  PROVE  BlocksFor(m) \in Nat /\ BlocksFor(n) \in Nat /\ BlocksFor(m) <= BlocksFor(n)
<1>1. BlockSize \in Nat \ {0}
  BY CacheAssumption DEF CacheAssumption
<1>2. m + BlockSize - 1 \in Nat /\ n + BlockSize - 1 \in Nat
           /\ m + BlockSize - 1 <= n + BlockSize - 1
  BY <1>1
<1> QED BY <1>1, <1>2, QuotientType, QuotientMonotonic DEF BlocksFor

\* What the page tables of the next state are made of.
TablesRight ==
  \A id \in DOMAIN seqs : /\ seqs[id].blocks \in Seq(Pages)
                          /\ Len(seqs[id].blocks) = BlocksFor(seqs[id].tokens)

\* The tables are right after a step as well.
LEMMA TablesRightNext == Proved!IInv' => TablesRight'
<1>1. Proved!IInv => TablesRight
  BY CacheFacts DEF TablesRight
<1> QED BY <1>1, PTL

\* A request becomes active.
LEMMA Activated ==
  ASSUME SInv, Proved!IInv, step = "admit", left > 0, NEW id, id = Head(waiting), Fits(id),
         NEW reused \in Nat, NEW restore, Activate(id, reused, restore),
         reused < PromptLen(id), restore \in {{}} \cup {{r} : r \in RestoreOp},
         DOMAIN seqs' = DOMAIN seqs \cup {id}, seqs'[id].tokens = PromptLen(id),
         \A j \in DOMAIN seqs : seqs'[j] = seqs[j]
  PROVE  SInv' /\ client' = With(client, id, Owed(id, restore)) /\ UNCHANGED saving
<1> DEFINE r == [prefilled |-> reused, generated |-> 0, phase |-> "PrefillReady",
         restore |-> restore]
<1>1. /\ waiting \in Seq(Ids) /\ IsInjective(waiting) /\ Range(waiting) \cap DOMAIN active = {}
      /\ left \in Nat /\ prefillReady = <<>> /\ left <= Len(waiting)
  BY DEF SInv, QueuePart, StepPart
<1>2. waiting # <<>> /\ Len(waiting) \in Nat
  BY <1>1, LenProperties
<1>3. /\ id \in Ids /\ id \in Range(waiting) /\ Tail(waiting) \in Seq(Ids)
           /\ IsInjective(Tail(waiting))
      /\ Range(Tail(waiting)) = Range(waiting) \ {id}
  BY <1>1, <1>2, QueueTail
<1>4. id \notin DOMAIN active
  BY <1>1, <1>3
<1>5. /\ waiting' = Tail(waiting) /\ prefillReady' = <<id>>
      /\ active' = With(active, id, r) /\ committed' = committed + Reserved(id)
      /\ step' = "prefill" /\ left' = 0
      /\ UNCHANGED <<decodeReady, batch, extra>>
  BY DEF Activate
<1>6. r \in Record /\ r.phase = "PrefillReady" /\ r.restore = restore /\ r.prefilled = reused
           /\ r.generated = 0
  BY DEF Record, Phases
<1> HIDE DEF r
<1>7. /\ DOMAIN active' = DOMAIN active \cup {id} /\ active'[id] = r
      /\ \A j \in DOMAIN active : active'[j] = active[j]
  BY <1>4, <1>5 DEF With
<1>8. \A p : WithPhase(p)' = IF p = "PrefillReady" THEN WithPhase(p) \cup {id} ELSE WithPhase(p)
  BY <1>4, <1>5, <1>6, PhaseAdded
<1>9. DOMAIN seqs = DOMAIN active /\ IsFiniteSet(DOMAIN active) /\ DOMAIN active \subseteq Ids
  BY CacheFacts DEF SInv, ActivePart
<1>10. ChunkIds' = ChunkIds /\ Range(ChunkIds) \subseteq DOMAIN active
  BY <1>5 DEF ChunkIds, SInv, BatchPart, WithPhase
<1>11. QueuePart'
  <2>1. <<id>> \in Seq(Ids) /\ IsInjective(<<id>>) /\ Range(<<id>>) = {id}
    BY <1>3 DEF IsInjective, Range
  <2>2. Range(prefillReady) = {} 
    BY <1>1 DEF Range
  <2>3. WithPhase("PrefillReady")' = {id}
    BY <1>8, <2>2 DEF SInv, QueuePart
  <2>4. Range(waiting') \cap DOMAIN active' = {}
    BY <1>1, <1>3, <1>5, <1>7
  <2> QED BY <1>3, <1>5, <1>8, <2>1, <2>3, <2>4 DEF SInv, QueuePart
<1>12. BatchPart'
  <2>1. \A c \in Range(batch.prefill) : c.id \in DOMAIN active
    BY <1>10, ChunkIdsAre, RangeOfIds
  <2>2. \A c \in Range(batch.prefill) : ChunkRight(c)'
    BY <1>7, <2>1 DEF SInv, BatchPart, ChunkRight
  <2> QED BY <1>5, <1>8, <1>10, <2>2 DEF SInv, BatchPart, BatchType
<1>13. RestorePart'
  <2>1. \A j \in Range(ChunkIds) : active'[j].restore = active[j].restore
    BY <1>7, <1>10
  <2> QED BY <1>5, <1>10, <2>1, RestoreSame DEF SInv
<1>14. SavePart'
  BY <1>5, <1>10, SaveSame DEF SInv
<1>15. ActivePart'
  <2>1. PromptLen(id) \in Nat \ {0} /\ Request(id).maxNew \in Nat \ {0}
    BY <1>3, SchedulerAssumption, LenProperties DEF SchedulerAssumption, PromptLen
  <2>2. Known(id)'
    BY <1>6, <1>7, <2>1 DEF Known
  <2>3. Counted(id)'
    <3>1. PromptLen(id) = PromptLen(id) + 0 /\ PromptLen(id) <= PromptLen(id) + Request(id).maxNew
      BY <2>1
    <3> QED BY <1>6, <1>7, <3>1 DEF Counted
  <2>4. ASSUME NEW j \in DOMAIN active PROVE Known(j)' /\ Counted(j)'
    <3>1. /\ active'[j] = active[j] /\ seqs'[j] = seqs[j] /\ UNCHANGED extra
          /\ Known(j) /\ Counted(j)
      BY <1>5, <1>7, <1>9 DEF SInv, ActivePart
    <3> QED BY <3>1 DEF Known, Counted
  <2> QED BY <1>3, <1>7, <1>9, <2>2, <2>3, <2>4 DEF ActivePart
<1>16. ExtraPart' /\ StepPart'
  <2>1. extra \in Nat /\ Depth \in Nat
    BY SchedulerAssumption DEF SInv, ExtraPart, SchedulerAssumption
  <2> QED BY <1>5, <2>1 DEF SInv, ExtraPart, StepPart, Steps
<1>17. CommittedPart'
  <2>1. ReservedAll(active') = ReservedAll(active) + Reserved(id)
    BY <1>3, <1>4, <1>5, <1>9, ReservedMore
  <2>2. Reserved(id) <= Capacity - committed
    BY DEF Fits
  <2>3. committed = ReservedAll(active) /\ committed' = ReservedAll(active')
    BY <1>5, <2>1 DEF SInv, CommittedPart
  <2>4. committed \in Int /\ Reserved(id) \in Int /\ Capacity \in Int
    <3>1. ReservedAll(active) \in Int
      <4> DEFINE f == [x \in DOMAIN active |-> Reserved(x)]
      <4>1. \A x \in DOMAIN active : f[x] \in Int
        BY <1>9, ReservedNat
      <4>2. ReservedAll(active) = SumFunctionOnSet(f, DOMAIN active)
        BY DEF ReservedAll, SumFunction, SumFunctionOnSet, FoldFunction
      <4> HIDE DEF f
      <4> QED BY <1>9, <4>1, <4>2, SumInt
    <3>2. Capacity \in Int
      BY CacheAssumption, FS_CardinalityType DEF CacheAssumption, Capacity
    <3> QED BY <1>3, <2>3, <3>1, <3>2, ReservedNat
  <2>5. committed' <= Capacity
    BY <1>5, <2>2, <2>4
  <2> QED BY <2>3, <2>5 DEF CommittedPart, ReservedAll, Capacity
<1>18. client' = With(client, id, Owed(id, restore))
  BY <1>5, <1>6, ClientMore
<1>19. UNCHANGED saving
  BY <1>5, SavingSame
<1> QED BY <1>11, <1>12, <1>13, <1>14, <1>15, <1>16, <1>17, <1>18, <1>19 DEF SInv

\* next_batch admits the head of the queue, with nothing to continue.
LEMMA AdmitMissStep == ASSUME SInv, Proved!IInv, AdmitMiss PROVE Maps /\ SInv'
<1>0. PICK id : id = Head(waiting)
  OBVIOUS
<1>1. /\ step = "admit" /\ left > 0 /\ Fits(id) /\ Admit(id, PromptLen(id)) /\ Activate(id, 0, {})
  BY <1>0 DEF AdmitMiss
<1>2. id \in Ids
  <2>1. /\ waiting \in Seq(Ids) /\ left \in Nat /\ left <= Len(waiting)
    BY <1>1 DEF SInv, QueuePart, StepPart
  <2>2. waiting # <<>>
    BY <1>1, <2>1
  <2> QED BY <1>0, <2>1, <2>2
<1>3. PromptLen(id) \in Nat \ {0}
  BY <1>2, SchedulerAssumption, LenProperties DEF SchedulerAssumption, PromptLen
<1>4. SInv' /\ client' = With(client, id, Owed(id, {})) /\ UNCHANGED saving
  <2> DEFINE due == {}
  <2>1. due \in {{}} \cup {{r} : r \in RestoreOp} /\ Activate(id, 0, due) /\ 0 < PromptLen(id)
    BY <1>1, <1>3
  <2>2. /\ DOMAIN seqs' = DOMAIN seqs \cup {id} /\ seqs'[id].tokens = PromptLen(id)
        /\ \A j \in DOMAIN seqs : seqs'[j] = seqs[j]
    BY <1>1, AdmitTokens
  <2> HIDE DEF due
  <2>3. SInv' /\ client' = With(client, id, Owed(id, due)) /\ UNCHANGED saving
    BY <1>0, <1>1, <2>1, <2>2, Activated
  <2> QED BY <2>3 DEF due
<1>5. Owed(id, {}) = [prompt |-> Request(id).prompt, restore |-> {}]
  BY DEF Owed
<1> QED BY <1>1, <1>2, <1>4, <1>5, FreshCall DEF Maps

\* next_batch admits the head of the queue, continuing a cached prefix.
LEMMA AdmitMatchStep == ASSUME SInv, Proved!IInv, Proved!IInv', AdmitMatch PROVE Maps /\ SInv'
<1>0. PICK id : id = Head(waiting)
  OBVIOUS
<1>1. /\ step = "admit" /\ left > 0 /\ Fits(id)
  BY <1>0 DEF AdmitMatch
<1>2. id \in Ids
  <2>1. /\ waiting \in Seq(Ids) /\ left \in Nat /\ left <= Len(waiting)
    BY <1>1 DEF SInv, QueuePart, StepPart
  <2>2. waiting # <<>>
    BY <1>1, <2>1
  <2> QED BY <1>0, <2>1, <2>2
<1>3. PICK s \in DOMAIN entries :
        \E copy : /\ AdmitHit(id, Request(id).prompt, s)
                  /\ Activate(id, Len(entries[s].tokens), {[snapshot |-> s, copy |-> copy]})
                  /\ copy = IF EndsInsidePage(s)
                            THEN {<<entries[s].blocks[FullPages(s) + 1],
                                 seqs'[id].blocks[FullPages(s) + 1]>>}
                            ELSE {}
  BY <1>0 DEF AdmitMatch
<1>4. PICK copy : /\ AdmitHit(id, Request(id).prompt, s)
                  /\ Activate(id, Len(entries[s].tokens), {[snapshot |-> s, copy |-> copy]})
                  /\ copy = IF EndsInsidePage(s)
                            THEN {<<entries[s].blocks[FullPages(s) + 1],
                                 seqs'[id].blocks[FullPages(s) + 1]>>}
                            ELSE {}
  BY <1>3
<1>5. /\ DOMAIN seqs' = DOMAIN seqs \cup {id} /\ seqs'[id].tokens = PromptLen(id)
      /\ \A j \in DOMAIN seqs : seqs'[j] = seqs[j]
  BY <1>4, AdmitHitTokens DEF PromptLen
<1> DEFINE n == Len(entries[s].tokens)
<1>6. n \in Nat /\ n < PromptLen(id) /\ PromptLen(id) \in Nat
  <2>1. Request(id).prompt \in Seq(Range(Request(id).prompt))
    BY <1>2, SchedulerAssumption DEF SchedulerAssumption
  <2>2. entries[s].tokens \in Seq(Proved!Tokens)
    BY CacheFacts
  <2>3. IsStrictPrefix(entries[s].tokens, Request(id).prompt)
    BY <1>4 DEF AdmitHit, BestMatch, Matches
  <2> QED BY <2>1, <2>2, <2>3, StrictlyShorter DEF PromptLen
<1>7. copy \in SUBSET (Pages \X Pages)
  <2> SUFFICES ASSUME EndsInsidePage(s)
               PROVE  /\ entries[s].blocks[FullPages(s) + 1] \in Pages
                      /\ seqs'[id].blocks[FullPages(s) + 1] \in Pages
    BY <1>4
  <2> DEFINE k == FullPages(s) + 1
  <2>1. k \in 1..BlocksFor(n) /\ BlocksFor(n) \in Nat
    BY <1>6, PageEndedInside DEF EndsInsidePage, FullPages
  <2>2. entries[s].blocks \in Seq(Pages) /\ Len(entries[s].blocks) = BlocksFor(n)
    BY CacheFacts
  <2>3. seqs'[id].blocks \in Seq(Pages) /\ Len(seqs'[id].blocks) = BlocksFor(PromptLen(id))
    BY <1>5, TablesRightNext DEF TablesRight
  <2>4. BlocksFor(n) <= BlocksFor(PromptLen(id)) /\ BlocksFor(PromptLen(id)) \in Nat
    BY <1>6, BlocksForMonotonic
  <2> HIDE DEF k, n
  <2>5. k \in 1..BlocksFor(PromptLen(id))
    BY <2>1, <2>4
  <2>6. entries[s].blocks[k] \in Pages /\ seqs'[id].blocks[k] \in Pages
    BY <2>1, <2>2, <2>3, <2>5, ElementOfSeq
  <2> QED BY <2>6 DEF k
<1> DEFINE op == [snapshot |-> s, copy |-> copy]
<1>8. op \in RestoreOp
  <2>1. s \in Snapshots
    BY CacheFacts
  <2> QED BY <1>7, <2>1 DEF RestoreOp
<1>9. SInv' /\ client' = With(client, id, Owed(id, {op})) /\ UNCHANGED saving
  <2> HIDE DEF n
  <2>1. {op} \in {{}} \cup {{r} : r \in RestoreOp} /\ Activate(id, n, {op})
    BY <1>4, <1>8 DEF n
  <2> HIDE DEF op
  <2> QED BY <1>0, <1>1, <1>5, <1>6, <2>1, Activated
<1>10. Owed(id, {op}) = [prompt |-> Request(id).prompt, restore |-> {s}]
  BY DEF Owed
<1>11. Maps
  BY <1>2, <1>4, <1>9, <1>10, CachedCall DEF Maps
<1> QED BY <1>9, <1>11

-----------------------------------------------------------------------------
(* Planning a chunk.                                                       *)

\* The tokens of a batch.
LEMMA TokensOfBatch ==
  ASSUME BatchType
  PROVE  /\ NumTokens \in Nat /\ Len(batch.decode) \in Nat /\ Len(batch.prefill) \in Nat
         /\ Len(batch.decode) <= NumTokens
<1> DEFINE f == [i \in DOMAIN batch.prefill |-> batch.prefill[i].tokens]
           D == DOMAIN batch.prefill
<1>1. Len(batch.decode) \in Nat /\ Len(batch.prefill) \in Nat /\ D = 1..Len(batch.prefill)
  BY LenProperties DEF BatchType
<1>2. IsFiniteSet(D)
  BY <1>1, FS_Interval
<1>3. \A i \in D : f[i] \in Nat
  <2>1. \A i \in D : batch.prefill[i] \in Chunk
    BY <1>1, ElementOfSeq DEF BatchType
  <2> QED BY <2>1 DEF Chunk
<1>4. NumTokens = Len(batch.decode) + SumFunctionOnSet(f, D)
  BY DEF NumTokens, SumFunction, SumFunctionOnSet, FoldFunction
<1> HIDE DEF f, D
<1>5. SumFunctionOnSet(f, D) \in Nat
  BY <1>2, <1>3, SumNat
<1> QED BY <1>1, <1>4, <1>5

\* What next_batch plans of a prompt.
LEMMA ChunkPlanned ==
  ASSUME NEW len \in Nat, NEW offset \in Nat, offset < len, NEW rest \in Nat \ {0},
         NEW at \in Nat, NEW fits, fits = Min({len - offset, rest}),
         NEW cut \in BOOLEAN, cut => at > offset /\ at <= offset + fits,
         NEW tokens, tokens = IF cut THEN at - offset ELSE fits
  PROVE  /\ tokens \in Nat \ {0} /\ offset + tokens <= len
         /\ fits \in Nat \ {0} /\ fits <= len - offset /\ fits <= rest /\ tokens <= fits
<1> DEFINE m == len - offset
<1>1. m \in Nat \ {0} /\ m \in Int /\ rest \in Int
  OBVIOUS
<1>2. fits = Min({m, rest})
  OBVIOUS
<1> HIDE DEF m
<1>3. fits \in {m, rest} /\ fits <= m /\ fits <= rest
  <2>1. Min({m, rest}) \in {m, rest} /\ Min({m, rest}) <= m /\ Min({m, rest}) <= rest
    BY <1>1, MinOfTwo, Zenon
  <2> QED BY <1>2, <2>1
<1>4. fits \in Nat \ {0}
  BY <1>1, <1>3
<1> USE DEF m
<1>5. CASE cut
  BY <1>3, <1>4, <1>5
<1>6. CASE ~cut
  BY <1>3, <1>4, <1>6
<1> QED BY <1>5, <1>6

\* next_batch plans a chunk of a prompt, with its restore and its snapshot.
LEMMA PlanChunkStep == ASSUME SInv, Proved!IInv, PlanChunk PROVE Maps /\ SInv'
<1>0. PICK id : id = Head(prefillReady)
  OBVIOUS
<1>1. /\ step = "prefill" /\ Room /\ prefillReady # <<>>
      /\ prefillReady \in Seq(Ids) /\ IsInjective(prefillReady)
      /\ Range(prefillReady) = WithPhase("PrefillReady")
      /\ BatchType /\ extra \in Nat /\ Depth \in Nat
  <2>1. step = "prefill" /\ Room /\ prefillReady # <<>>
    BY Zenon DEF PlanChunk
  <2>2. extra \in Nat /\ Depth \in Nat
    BY SchedulerAssumption DEF SInv, ExtraPart, SchedulerAssumption
  <2>3. QueuePart /\ BatchType
    BY Zenon DEF SInv, BatchPart
  <2> QED BY <2>1, <2>2, <2>3, Zenon DEF QueuePart
<1>2. /\ id \in Ids /\ id \in Range(prefillReady)
      /\ Tail(prefillReady) \in Seq(Ids) /\ IsInjective(Tail(prefillReady))
      /\ Range(Tail(prefillReady)) = Range(prefillReady) \ {id}
  BY <1>0, <1>1, QueueTail
<1>3. id \in DOMAIN active /\ active[id].phase = "PrefillReady"
  BY <1>1, <1>2 DEF WithPhase
<1>4. /\ Known(id) /\ Counted(id) /\ active[id] \in Record
      /\ active[id].prefilled \in Nat /\ active[id].prefilled < PromptLen(id)
      /\ PromptLen(id) \in Nat \ {0}
  <2>1. /\ Known(id) /\ Counted(id) /\ active[id] \in Record
        /\ active[id].prefilled \in Nat /\ PromptLen(id) \in Nat \ {0}
    BY <1>3, RequestFacts DEF SInv
  <2>2. active[id].prefilled < PromptLen(id)
    BY <1>3, <2>1 DEF Known
  <2> QED BY <2>1, <2>2
<1>5. /\ UNCHANGED <<waiting, decodeReady, committed, step, left, extra>>
      /\ prefillReady' = Tail(prefillReady)
      /\ active' = [active EXCEPT ![id].phase = "PrefillInFlight"]
  BY <1>0, Zenon DEF PlanChunk
<1> DEFINE offset == active[id].prefilled
           fits == Min({PromptLen(id) - offset, MaxTokens - NumTokens})
           at == Request(id).snapshotAt
           cut == Snapshots # {} /\ at > offset /\ at <= offset + fits
           tokens == IF cut THEN at - offset ELSE fits
           chunk == [id |-> id, offset |-> offset, tokens |-> tokens]
           due == {[id |-> id, op |-> r] : r \in active[id].restore}
           more == SetToSeq(due)
<1>6. PICK saves : /\ batch' = [batch EXCEPT !.prefill = Append(@, chunk),
                                            !.restores = @ \o more,
                                            !.saves = @ \o saves]
                   /\ \/ saves = <<>> /\ UNCHANGED cacheVars
                      \/ \E s \in Snapshots : /\ saves = <<[id |-> id, snapshot |-> s]>>
                                              /\ ReserveSnapshot(s) /\ at >= BlockSize
  <2> DEFINE planned(saves) == [batch EXCEPT !.prefill = Append(@, chunk),
                                            !.restores = @ \o more,
                                            !.saves = @ \o saves]
  <2>1. \/ \E s \in Snapshots : /\ ReserveSnapshot(s) /\ at >= BlockSize
                                /\ batch' = planned(<<[id |-> id, snapshot |-> s]>>)
        \/ batch' = planned(<<>>) /\ UNCHANGED cacheVars
    <3> DEFINE
          cutOf(x) == LET o == active[x].prefilled
                          f == Min({PromptLen(x) - o, MaxTokens - NumTokens})
                          a == Request(x).snapshotAt
                      IN  Snapshots # {} /\ a > o /\ a <= o + f
          tokensOf(x) == IF cutOf(x) THEN Request(x).snapshotAt - active[x].prefilled
                         ELSE Min({PromptLen(x) - active[x].prefilled, MaxTokens - NumTokens})
          plan(x, saves) ==
            [batch EXCEPT
              !.prefill = Append(@, [id |-> x, offset |-> active[x].prefilled,
                   tokens |-> tokensOf(x)]),
              !.restores = @ \o SetToSeq({[id |-> x, op |-> r] : r \in active[x].restore}),
              !.saves = @ \o saves]
          Q(x) == \/ \E s \in Snapshots : /\ ReserveSnapshot(s)
                                          /\ Request(x).snapshotAt >= BlockSize
                                          /\ batch' = plan(x, <<[id |-> x, snapshot |-> s]>>)
                  \/ batch' = plan(x, <<>>) /\ UNCHANGED cacheVars
    <3>1. Q(Head(prefillReady))
      BY Zenon DEF PlanChunk
    <3> HIDE DEF Q
    <3>2. Q(id)
      BY <1>0, <3>1
    <3> QED BY <3>2, Zenon DEF Q
  <2> HIDE DEF planned, at
  <2>2. PICK saves : /\ batch' = planned(saves)
                     /\ \/ saves = <<>> /\ UNCHANGED cacheVars
                        \/ \E s \in Snapshots : /\ saves = <<[id |-> id, snapshot |-> s]>>
                                                /\ ReserveSnapshot(s) /\ at >= BlockSize
    BY <2>1
  <2> QED BY <2>2, Zenon DEF planned
<1>7. chunk \in Chunk /\ chunk.id = id /\ chunk.offset = offset
           /\ offset + chunk.tokens <= PromptLen(id)
  <2>1. MaxTokens - NumTokens \in Nat \ {0}
    BY <1>1, TokensOfBatch, SchedulerAssumption DEF Room, SchedulerAssumption
  <2>2. at \in Nat
    BY <1>2, <1>4, SchedulerAssumption DEF SchedulerAssumption, PromptLen
  <2>3. tokens \in Nat \ {0} /\ offset + tokens <= PromptLen(id)
    <3> DEFINE rest == MaxTokens - NumTokens
    <3>1. rest \in Nat \ {0} /\ fits = Min({PromptLen(id) - offset, rest})
      BY <2>1
    <3>2. offset \in Nat /\ offset < PromptLen(id) /\ PromptLen(id) \in Nat
      BY <1>4
    <3>3. cut \in BOOLEAN /\ (cut => at > offset /\ at <= offset + fits)
      OBVIOUS
    <3>4. tokens = IF cut THEN at - offset ELSE fits
      OBVIOUS
    <3> HIDE DEF rest, fits, offset, at, cut, tokens
    <3> QED BY <2>2, <3>1, <3>2, <3>3, <3>4, ChunkPlanned
  <2> QED BY <1>2, <1>4, <2>3 DEF Chunk
<1>8. due \in SUBSET RestoreCall /\ \A x, y \in due : x = y
  BY <1>2, <1>4 DEF Record, RestoreCall
<1> HIDE DEF chunk, due
<1>9. more \in Seq(RestoreCall) /\ IsInjective(more) /\ Range(more) = due
  BY <1>8, OneOrNone
<1>10. /\ saves \in Seq(SaveCall) /\ IsInjective(saves)
       /\ \A u \in Range(saves) : /\ u.id = id /\ at >= BlockSize
                                  /\ u.snapshot \notin DOMAIN saving
       /\ \A u, v \in Range(saves) : u = v
  <2>1. CASE saves = <<>>
    BY <2>1 DEF IsInjective, Range
  <2>2. CASE saves # <<>>
    <3>1. PICK s \in Snapshots : /\ saves = <<[id |-> id, snapshot |-> s]>>
                                 /\ ReserveSnapshot(s) /\ at >= BlockSize
      BY <1>6, <2>2
    <3>2. s \in freeSnapshots \cup DOMAIN entries
      BY <3>1 DEF ReserveSnapshot, Unpinned
    <3>3. s \notin DOMAIN saving
      BY <3>2, CacheFacts
    <3>4. [id |-> id, snapshot |-> s] \in SaveCall
      BY <1>2 DEF SaveCall
    <3>5. Range(saves) = {[id |-> id, snapshot |-> s]} /\ IsInjective(saves)
               /\ saves \in Seq(SaveCall)
      BY <3>1, <3>4 DEF Range, IsInjective
    <3> QED BY <3>1, <3>3, <3>5
  <2> QED BY <2>1, <2>2
<1> HIDE DEF more, at
<1>11. /\ batch'.decode = batch.decode /\ batch'.prefill = Append(batch.prefill, chunk)
       /\ batch'.restores = batch.restores \o more /\ batch'.saves = batch.saves \o saves
       /\ BatchType'
  <2>1. Append(batch.prefill, chunk) \in Seq(Chunk)
    BY <1>1, <1>7, AppendProperties DEF BatchType
  <2>2. batch.restores \o more \in Seq(RestoreCall) /\ batch.saves \o saves \in Seq(SaveCall)
    BY <1>1, <1>9, <1>10, ConcatProperties DEF BatchType
  <2> QED BY <1>1, <1>6, <2>1, <2>2 DEF BatchType
<1>12. OthersStay(id) /\ active'[id] = [active[id] EXCEPT !.phase = "PrefillInFlight"]
  BY <1>3, <1>5 DEF OthersStay
<1>13. /\ active'[id].phase = "PrefillInFlight" /\ active'[id] \in Record
       /\ active'[id].prefilled = active[id].prefilled
       /\ active'[id].generated = active[id].generated
       /\ active'[id].restore = active[id].restore
  BY <1>4, <1>12 DEF Record, Phases
<1>14. \A p : WithPhase(p)' = IF p = "PrefillInFlight" THEN WithPhase(p) \cup {id}
                              ELSE WithPhase(p) \ {id}
  BY <1>3, <1>12, <1>13, PhaseChanged, Zenon
<1>15. DOMAIN active' = DOMAIN active
            /\ \A j \in DOMAIN active : active'[j].restore = active[j].restore
  BY <1>12, <1>13 DEF OthersStay
<1>16. QueuePart'
  <2>1. id \notin WithPhase("DecodeReady")
    BY <1>3 DEF WithPhase
  <2> QED BY <1>1, <1>2, <1>5, <1>14, <1>15, <2>1, Zenon DEF SInv, QueuePart
<1>17. /\ ChunkIds \in Seq(Ids) /\ IsInjective(ChunkIds) /\ id \notin Range(ChunkIds)
       /\ ChunkIds' = Append(ChunkIds, id)
       /\ Range(ChunkIds) = WithPhase("PrefillInFlight")
       /\ \A c \in Range(batch.prefill) : c.id \in Range(ChunkIds)
  <2>1. ChunkIds = IdsOf(batch.prefill) /\ ChunkIds' = IdsOf(batch'.prefill)
    BY DEF ChunkIds, IdsOf
  <2>2. batch.prefill \in Seq(Chunk)
    BY <1>1 DEF BatchType
  <2>3. IdsOf(Append(batch.prefill, chunk)) = Append(IdsOf(batch.prefill), id)
             /\ IdsOf(batch.prefill) \in Seq(Ids)
    BY <1>7, <2>2, IdsOfChunks
  <2>4. IsInjective(ChunkIds) /\ Range(ChunkIds) = WithPhase("PrefillInFlight")
    BY DEF SInv, BatchPart
  <2> QED BY <1>3, <1>11, <2>1, <2>3, <2>4, RangeOfIds DEF WithPhase
<1>18. /\ IsInjective(ChunkIds') /\ Range(ChunkIds') = Range(ChunkIds) \cup {id}
  BY <1>2, <1>17, QueueAppend
<1>19. BatchPart'
  <2>1. id \notin WithPhase("DecodeInFlight")
    BY <1>3 DEF WithPhase
  <2>2. Range(batch'.prefill) = Range(batch.prefill) \cup {chunk}
    <3>1. batch.prefill \in Seq(Chunk)
      BY <1>1 DEF BatchType
    <3> QED BY <1>7, <1>11, <3>1, AppendRange
  <2>3. ASSUME NEW c \in Range(batch'.prefill) PROVE ChunkRight(c)'
    <3>1. CASE c = chunk
      BY <1>7, <1>13, <3>1 DEF ChunkRight
    <3>2. CASE c \in Range(batch.prefill)
      <4>1. c.id \in DOMAIN active /\ c.id # id
        BY <1>3, <1>17, <3>2 DEF WithPhase
      <4>2. ChunkRight(c)
        BY <3>2 DEF SInv, BatchPart
      <4> QED BY <1>12, <4>1, <4>2 DEF ChunkRight, OthersStay
    <3> QED BY <2>2, <3>1, <3>2
  <2> QED BY <1>11, <1>14, <1>17, <1>18, <2>1, <2>3 DEF SInv, BatchPart
<1>20. RestorePart'
  <2>1. /\ batch.restores \in Seq(RestoreCall) /\ IsInjective(batch.restores)
        /\ \A r \in Range(batch.restores) : r.id \in Range(ChunkIds)
             /\ r.op \in active[r.id].restore
        /\ \A j \in Range(ChunkIds) : \A op \in active[j].restore :
             [id |-> j, op |-> op] \in Range(batch.restores)
    BY <1>1 DEF SInv, RestorePart, BatchType
  <2>2. \A r \in due : r.id = id /\ r.op \in active[id].restore
    BY DEF due
  <2>3. Range(batch.restores) \cap Range(more) = {}
    BY <1>9, <1>17, <2>1, <2>2
  <2>4. IsInjective(batch'.restores) /\ Range(batch'.restores) = Range(batch.restores) \cup due
    <3>1. /\ IsInjective(batch.restores \o more)
          /\ Range(batch.restores \o more) = Range(batch.restores) \cup Range(more)
      BY <1>9, <2>1, <2>3, QueueJoin
    <3> QED BY <1>9, <1>11, <3>1
  <2>5. \A r \in Range(batch'.restores) : r.id \in Range(ChunkIds')
             /\ r.op \in active'[r.id].restore
    <3>1. Range(ChunkIds) \subseteq DOMAIN active
      BY <1>17 DEF WithPhase
    <3> QED BY <1>3, <1>15, <1>18, <2>1, <2>2, <2>4, <3>1
  <2>6. ASSUME NEW j \in Range(ChunkIds'), NEW op \in active'[j].restore
        PROVE  [id |-> j, op |-> op] \in Range(batch'.restores)
    <3>1. CASE j = id
      BY <1>13, <2>4, <3>1 DEF due
    <3>2. CASE j # id
      <4>1. j \in Range(ChunkIds) /\ j \in DOMAIN active
        BY <1>17, <1>18, <3>2 DEF WithPhase
      <4> QED BY <1>15, <2>1, <2>4, <4>1
    <3> QED BY <3>1, <3>2
  <2> QED BY <2>4, <2>5, <2>6 DEF RestorePart
<1>21. /\ SavePart' /\ Range(batch'.saves) = Range(batch.saves) \cup Range(saves)
  <2>1. /\ batch.saves \in Seq(SaveCall) /\ IsInjective(batch.saves)
        /\ \A u, v \in Range(batch.saves) : u.snapshot = v.snapshot => u = v
        /\ \A save \in Range(batch.saves) : /\ save.id \in Range(ChunkIds)
                                            /\ BlockSize <= Request(save.id).snapshotAt
    BY <1>1 DEF SInv, SavePart, BatchType
  <2>2. \A u \in Range(batch.saves) : u.snapshot \in DOMAIN saving
    BY SavingFacts DEF SInv
  <2>3. Range(batch.saves) \cap Range(saves) = {}
    BY <1>10, <2>2
  <2>4. IsInjective(batch'.saves) /\ Range(batch'.saves) = Range(batch.saves) \cup Range(saves)
    BY <1>10, <1>11, <2>1, <2>3, QueueJoin
  <2>5. \A u, v \in Range(batch'.saves) : u.snapshot = v.snapshot => u = v
    BY <1>10, <2>1, <2>2, <2>4
  <2>6. \A save \in Range(batch'.saves) : /\ save.id \in Range(ChunkIds')
                                          /\ BlockSize <= Request(save.id).snapshotAt
    <3>1. BlockSize \in Nat /\ at \in Nat
      BY <1>2, <1>4, CacheAssumption, SchedulerAssumption
           DEF CacheAssumption, SchedulerAssumption, PromptLen, at
    <3>2. \A u \in Range(saves) : u.id = id /\ BlockSize <= Request(id).snapshotAt
      BY <1>10, <3>1 DEF at
    <3> QED BY <1>18, <2>1, <2>4, <3>2
  <2> QED BY <2>4, <2>5, <2>6 DEF SavePart
<1>22. CommittedPart'
  BY <1>5, <1>15, CommittedSame DEF SInv
<1>23. UNCHANGED seqs
  BY <1>6 DEF cacheVars, ReserveSnapshot
<1>24. ActivePart'
  <2>1. Known(id)'
    BY <1>3, <1>4, <1>13 DEF Known
  <2>2. Counted(id)'
    BY <1>3, <1>4, <1>13, <1>23 DEF Counted
  <2> QED BY <1>3, <1>5, <1>12, <1>23, <2>1, <2>2, ActiveChanged DEF SInv
<1>25. ExtraPart' /\ StepPart'
  BY <1>1, <1>5, <1>11 DEF SInv, ExtraPart, StepPart, Steps
<1>26. UNCHANGED client
  BY <1>15, ClientSame
<1>27. Maps
  <2>1. CASE saves = <<>>
    <3>1. UNCHANGED cacheVars
      BY <1>6, <2>1
    <3>2. batch'.saves = batch.saves
      BY <1>1, <1>11, <2>1, ConcatEmptySeq DEF BatchType
    <3>3. UNCHANGED saving
      BY <3>2, SavingSame
    <3> QED BY <1>26, <3>1, <3>3, CacheStays DEF Maps
  <2>2. CASE saves # <<>>
    <3>1. PICK s \in Snapshots : saves = <<[id |-> id, snapshot |-> s]>> /\ ReserveSnapshot(s)
      BY <1>6, <2>2
    <3>2. Range(batch'.saves) = Range(batch.saves) \cup {[id |-> id, snapshot |-> s]}
      BY <1>21, <3>1 DEF Range
    <3>3. s \notin DOMAIN saving
      BY <1>10, <3>1 DEF Range
    <3> DEFINE save == [id |-> id, snapshot |-> s]
    <3>4. save.snapshot = s /\ save.id = id
      OBVIOUS
    <3> HIDE DEF save
    <3>5. saving' = With(saving, save.snapshot, save.id)
      BY <1>21, <3>2, <3>3, <3>4, SavingMore DEF SInv, save
    <3> QED BY <1>2, <1>3, <1>26, <3>1, <3>4, <3>5, ReserveCall DEF Maps
  <2> QED BY <2>1, <2>2
<1> QED BY <1>16, <1>19, <1>20, <1>21, <1>22, <1>24, <1>25, <1>27 DEF SInv

-----------------------------------------------------------------------------
(* Restores and snapshots.                                                 *)

\* The cache has loaded the state a request continues from.
LEMMA CompleteRestoreStep == ASSUME SInv, Proved!IInv, CompleteRestore PROVE Maps /\ SInv'
<1>0. PICK r : r = Head(batch.restores)
  OBVIOUS
<1>1. /\ BatchType /\ batch.restores \in Seq(RestoreCall) /\ batch.restores # <<>>
      /\ IsInjective(batch.restores) /\ step = "complete"
  BY DEF SInv, BatchPart, BatchType, RestorePart, CompleteRestore
<1>2. /\ r \in RestoreCall /\ r \in Range(batch.restores)
      /\ Tail(batch.restores) \in Seq(RestoreCall) /\ IsInjective(Tail(batch.restores))
      /\ Range(Tail(batch.restores)) = Range(batch.restores) \ {r}
  BY <1>0, <1>1, QueueTail
<1>3. /\ FinishRestore(r.op.snapshot)
      /\ active' = [active EXCEPT ![r.id].restore = {}]
      /\ batch' = [batch EXCEPT !.restores = Tail(@)]
      /\ UNCHANGED <<waiting, prefillReady, decodeReady, committed, step, left, extra>>
  BY <1>0 DEF CompleteRestore, queueVars
<1>4. PICK id : id = r.id
  OBVIOUS
<1>5. /\ id \in Range(ChunkIds) /\ r.op \in active[id].restore
      /\ Range(ChunkIds) = WithPhase("PrefillInFlight")
  BY <1>2, <1>4 DEF SInv, RestorePart, BatchPart
<1>6. id \in DOMAIN active /\ active[id].phase = "PrefillInFlight"
  BY <1>5 DEF WithPhase
<1>7. id \in Ids /\ Known(id) /\ Counted(id) /\ active[id] \in Record
  BY <1>6, RequestFacts DEF SInv
<1>8. OthersStay(id) /\ active'[id] = [active[id] EXCEPT !.restore = {}]
  BY <1>3, <1>4, <1>6 DEF OthersStay
<1>9. /\ active'[id].phase = "PrefillInFlight" /\ active'[id] \in Record
      /\ active'[id].prefilled = active[id].prefilled
      /\ active'[id].generated = active[id].generated
      /\ active'[id].restore = {}
  BY <1>6, <1>7, <1>8 DEF Record
<1>10. /\ batch'.decode = batch.decode /\ batch'.prefill = batch.prefill
       /\ batch'.restores = Tail(batch.restores) /\ batch'.saves = batch.saves
       /\ BatchType'
  BY <1>1, <1>2, <1>3 DEF BatchType
<1>11. ChunkIds' = ChunkIds /\ \A p : WithPhase(p)' = WithPhase(p)
  <2>1. \A p : WithPhase(p)' = IF p = "PrefillInFlight" THEN WithPhase(p) \cup {id}
                               ELSE WithPhase(p) \ {id}
    BY <1>6, <1>8, <1>9, PhaseChanged
  <2>2. \A p : p # "PrefillInFlight" => id \notin WithPhase(p)
    BY <1>6 DEF WithPhase
  <2>3. id \in WithPhase("PrefillInFlight")
    BY <1>5
  <2> QED BY <1>10, <2>1, <2>2, <2>3 DEF ChunkIds
<1>12. QueuePart'
  BY <1>3, <1>8, <1>11 DEF SInv, QueuePart, OthersStay
<1>13. BatchPart'
  <2>1. \A c \in Range(batch.prefill) : c.id \in DOMAIN active
    <3>1. \A c \in Range(batch.prefill) : c.id \in Range(ChunkIds)
      BY ChunkIdsAre, RangeOfIds
    <3> QED BY <1>5, <3>1 DEF WithPhase
  <2>2. ASSUME NEW c \in Range(batch.prefill) PROVE ChunkRight(c)'
    <3>1. ChunkRight(c)
      BY DEF SInv, BatchPart
    <3>2. active'[c.id].prefilled = active[c.id].prefilled
      BY <1>8, <1>9, <2>1 DEF OthersStay
    <3> QED BY <3>1, <3>2 DEF ChunkRight
  <2> QED BY <1>10, <1>11, <2>2 DEF SInv, BatchPart
<1>14. RestorePart'
  <2>1. /\ \A q \in Range(batch.restores) : q.id \in Range(ChunkIds)
             /\ q.op \in active[q.id].restore
        /\ \A j \in Range(ChunkIds) : \A op \in active[j].restore :
             [id |-> j, op |-> op] \in Range(batch.restores)
    BY DEF SInv, RestorePart
  <2>2. \A x, y \in active[id].restore : x = y
    BY <1>7 DEF Record
  <2>3. \A q \in Range(batch.restores) : q.id = id => q = r
    <3>1. \A q \in Range(batch.restores) : q \in RestoreCall
      BY <1>1, SeqDef DEF Range
    <3>2. ASSUME NEW q \in RestoreCall, q.id = r.id, q.op = r.op PROVE q = r
      BY <1>2, <3>2 DEF RestoreCall
    <3>3. \A q \in Range(batch.restores) : q.id = id => q.op = r.op
      BY <1>5, <2>1, <2>2
    <3> QED BY <1>4, <3>1, <3>2, <3>3
  <2>4. ASSUME NEW q \in Range(batch'.restores)
        PROVE  q.id \in Range(ChunkIds) /\ q.op \in active'[q.id].restore
    <3>1. q \in Range(batch.restores) /\ q # r
      BY <1>2, <1>10
    <3>2. q.id \in Range(ChunkIds) /\ q.op \in active[q.id].restore /\ q.id # id
      BY <2>1, <2>3, <3>1
    <3>3. q.id \in DOMAIN active
      BY <1>5, <3>2 DEF WithPhase
    <3> QED BY <1>8, <3>2, <3>3 DEF OthersStay
  <2>5. ASSUME NEW j \in Range(ChunkIds), NEW op \in active'[j].restore
        PROVE  [id |-> j, op |-> op] \in Range(batch'.restores)
    <3>1. j # id /\ j \in DOMAIN active
      BY <1>5, <1>9, <2>5 DEF WithPhase
    <3>2. [id |-> j, op |-> op] \in Range(batch.restores)
      BY <1>8, <2>1, <2>5, <3>1 DEF OthersStay
    <3>3. [id |-> j, op |-> op] # r
      BY <1>4, <3>1
    <3> QED BY <1>2, <1>10, <3>2, <3>3
  <2> QED BY <1>2, <1>10, <1>11, <2>4, <2>5 DEF RestorePart
<1>15. SavePart' /\ CommittedPart'
  BY <1>3, <1>8, <1>10, <1>11, SaveSame, CommittedSame DEF SInv, OthersStay
<1>16. UNCHANGED seqs
  BY <1>3 DEF FinishRestore
<1>17. ActivePart'
  <2>1. Known(id)'
    BY <1>6, <1>7, <1>9 DEF Known
  <2>2. Counted(id)'
    BY <1>6, <1>7, <1>9, <1>16 DEF Counted
  <2> QED BY <1>3, <1>6, <1>8, <1>16, <2>1, <2>2, ActiveChanged DEF SInv
<1>18. ExtraPart' /\ StepPart'
  BY <1>1, <1>3, <1>10 DEF SInv, ExtraPart, StepPart
<1>19. Maps
  <2>1. client' = [client EXCEPT ![id].restore = {}]
    BY <1>6, <1>8, <1>9, ClientRestored
  <2>2. r.op.snapshot \in client[id].restore
    BY <1>5, <1>6 DEF client
  <2>3. UNCHANGED saving
    BY <1>10, SavingSame
  <2> QED BY <1>3, <1>6, <1>7, <2>1, <2>2, <2>3, RestoredCall DEF Maps
<1> QED BY <1>12, <1>13, <1>14, <1>15, <1>17, <1>18, <1>19 DEF SInv

\* A reserved snapshot is dealt with, committed or cancelled.
LEMMA SaveGone ==
  ASSUME SInv, batch.saves # <<>>, step \notin {"idle", "decode", "admit"},
       extra = 0 \/ step = "complete",
         batch' = [batch EXCEPT !.saves = Tail(@)],
         UNCHANGED <<queueVars, active, committed, step, left, extra, seqs>>
  PROVE  /\ SInv' /\ UNCHANGED client
         /\ Head(batch.saves).snapshot \in Snapshots \cap DOMAIN saving
         /\ saving[Head(batch.saves).snapshot] = Head(batch.saves).id
         /\ saving' = Without(saving, {Head(batch.saves).snapshot})
         /\ Head(batch.saves).id \in DOMAIN active
         /\ Request(Head(batch.saves).id).snapshotAt \in BlockSize..PromptLen(Head(batch.saves).id)
<1>0. PICK save : save = Head(batch.saves)
  OBVIOUS
<1>1. /\ BatchType /\ batch.saves \in Seq(SaveCall) /\ IsInjective(batch.saves)
      /\ \A u, v \in Range(batch.saves) : u.snapshot = v.snapshot => u = v
      /\ \A u \in Range(batch.saves) : u.id \in Range(ChunkIds)
           /\ BlockSize <= Request(u.id).snapshotAt
  BY DEF SInv, BatchPart, BatchType, SavePart
<1>2. /\ save \in SaveCall /\ save \in Range(batch.saves)
      /\ Tail(batch.saves) \in Seq(SaveCall) /\ IsInjective(Tail(batch.saves))
      /\ Range(Tail(batch.saves)) = Range(batch.saves) \ {save}
  BY <1>0, <1>1, QueueTail
<1>3. /\ batch'.decode = batch.decode /\ batch'.prefill = batch.prefill
      /\ batch'.restores = batch.restores /\ batch'.saves = Tail(batch.saves)
      /\ BatchType'
  BY <1>1, <1>2 DEF BatchType
<1>4. /\ ChunkIds' = ChunkIds /\ \A p : WithPhase(p)' = WithPhase(p)
      /\ UNCHANGED <<waiting, prefillReady, decodeReady>>
  BY <1>3 DEF ChunkIds, WithPhase, queueVars
<1>5. QueuePart' /\ CommittedPart'
  BY <1>4 DEF SInv, QueuePart, CommittedPart, ReservedAll
<1>6. BatchPart' /\ RestorePart'
  BY <1>3, <1>4 DEF SInv, BatchPart, ChunkRight, RestorePart
<1>7. SavePart'
  BY <1>1, <1>2, <1>3, <1>4 DEF SavePart
<1>8. ActivePart'
  BY DEF SInv, ActivePart, Known, Counted
<1>9. ExtraPart' /\ StepPart'
  BY <1>3, <1>4 DEF SInv, ExtraPart, StepPart
<1>10. UNCHANGED client
  BY DEF client
<1>11. saving' = Without(saving, {save.snapshot})
  BY <1>2, <1>3, <1>7, SavingLess DEF SInv
<1>12. save.snapshot \in Snapshots /\ save.snapshot \in DOMAIN saving
            /\ saving[save.snapshot] = save.id
  BY <1>2, SavingFacts DEF SInv, SaveCall
<1>13. save.id \in DOMAIN active
  BY <1>1, <1>2 DEF SInv, BatchPart, WithPhase
<1>14. Request(save.id).snapshotAt \in BlockSize..PromptLen(save.id)
  <2>1. save.id \in Ids
    BY <1>2 DEF SaveCall
  <2>2. /\ Request(save.id).snapshotAt \in 0..PromptLen(save.id) /\ BlockSize \in Nat
        /\ PromptLen(save.id) \in Nat /\ BlockSize <= Request(save.id).snapshotAt
    BY <1>1, <1>2, <2>1, SchedulerAssumption, CacheAssumption, LenProperties
       DEF SchedulerAssumption, CacheAssumption, PromptLen
  <2> QED BY <2>2
<1>15. SInv'
  BY <1>5, <1>6, <1>7, <1>8, <1>9 DEF SInv
<1> QED BY <1>0, <1>10, <1>11, <1>12, <1>13, <1>14, <1>15

\* complete_batch_multi commits a snapshot.
LEMMA CompleteSaveStep == ASSUME SInv, Proved!IInv, CompleteSave PROVE Maps /\ SInv'
<1>0. PICK save : save = Head(batch.saves)
  OBVIOUS
<1>1. /\ step = "complete" /\ batch.saves # <<>>
      /\ batch' = [batch EXCEPT !.saves = Tail(@)]
      /\ UNCHANGED <<queueVars, active, committed, step, left, extra>>
      /\ CommitSnapshot(save.snapshot, save.id, SubSeq(Request(save.id).prompt, 1,
           Request(save.id).snapshotAt))
  BY <1>0 DEF CompleteSave
<1>2. UNCHANGED seqs
  BY <1>1 DEF CommitSnapshot, CancelSnapshot, TouchSnapshot, StoreSnapshot
<1>3. /\ SInv' /\ UNCHANGED client
      /\ save.snapshot \in Snapshots /\ save.snapshot \in DOMAIN saving
      /\ saving[save.snapshot] = save.id
      /\ saving' = Without(saving, {save.snapshot})
      /\ save.id \in DOMAIN active
      /\ Request(save.id).snapshotAt \in BlockSize..PromptLen(save.id)
  BY <1>0, <1>1, <1>2, SaveGone
<1>4. Maps
  BY <1>1, <1>3, CommitCall DEF Maps
<1> QED BY <1>3, <1>4

\* abort_batch cancels a snapshot.
LEMMA AbortSaveStep == ASSUME SInv, Proved!IInv, AbortSave PROVE Maps /\ SInv'
<1>0. PICK save : save = Head(batch.saves)
  OBVIOUS
<1>1. /\ step = "abort" /\ batch.saves # <<>>
      /\ batch' = [batch EXCEPT !.saves = Tail(@)]
      /\ UNCHANGED <<queueVars, active, committed, step, left, extra>>
      /\ CancelSnapshot(save.snapshot)
  BY <1>0 DEF AbortSave
<1>2. UNCHANGED seqs /\ extra = 0
  <2>1. extra \in Nat
    BY SchedulerAssumption DEF SInv, ExtraPart, SchedulerAssumption
  <2> QED BY <1>1, <2>1 DEF CancelSnapshot, SInv, ExtraPart
<1>3. /\ SInv' /\ UNCHANGED client
      /\ save.snapshot \in Snapshots /\ save.snapshot \in DOMAIN saving
      /\ saving' = Without(saving, {save.snapshot})
  BY <1>0, <1>1, <1>2, SaveGone
<1>4. Maps
  BY <1>1, <1>3, CancelCall DEF Maps
<1> QED BY <1>3, <1>4

-----------------------------------------------------------------------------
(* Completion.                                                             *)

\* A batch that is dealt with, in part or whole.
LEMMA RestRight ==
  ASSUME StepPart, step \in {"complete", "abort"}, left' = left, step' = Rest(batch')
  PROVE  StepPart' /\ step' \in {"idle", step}
BY DEF StepPart, Rest, NoBatch, Steps

\* complete_batch_multi counts a chunk.
LEMMA CompleteChunkStep == ASSUME SInv, Proved!IInv, CompleteChunk PROVE Maps /\ SInv'
<1>0. PICK chunk : chunk = Head(batch.prefill)
  OBVIOUS
<1>1. PICK id : id = chunk.id
  OBVIOUS
<1>2. /\ BatchType /\ batch.prefill \in Seq(Chunk) /\ batch.prefill # <<>>
      /\ batch.restores = <<>> /\ batch.saves = <<>> /\ step = "complete"
      /\ prefillReady \in Seq(Ids) /\ IsInjective(prefillReady)
      /\ Range(prefillReady) = WithPhase("PrefillReady")
      /\ decodeReady \in Seq(Ids) /\ IsInjective(decodeReady)
      /\ Range(decodeReady) = WithPhase("DecodeReady")
  BY DEF SInv, BatchPart, BatchType, QueuePart, CompleteChunk
<1>3. /\ chunk \in Chunk /\ chunk \in Range(batch.prefill) /\ Tail(batch.prefill) \in Seq(Chunk)
      /\ Range(Tail(batch.prefill)) \subseteq Range(batch.prefill)
  <2> DEFINE q == batch.prefill
             n == Len(q)
  <2>1. n \in Nat \ {0} /\ DOMAIN q = 1..n
    BY <1>2, LenProperties, EmptySeq
  <2>2. chunk = q[1] /\ 1 \in 1..n
    BY <1>0, <1>2, <2>1
  <2>3. Tail(q) \in Seq(Chunk) /\ Len(Tail(q)) = n - 1
             /\ \A i \in 1..(n - 1) : Tail(q)[i] = q[i + 1]
    BY <1>2, HeadTailProperties
  <2>4. DOMAIN Tail(q) = 1..(n - 1)
    BY <2>3, LenProperties
  <2>5. q[1] \in Chunk
    BY <1>2, <2>1, <2>2, ElementOfSeq
  <2> HIDE DEF q, n
  <2>6. chunk \in Range(q)
    BY <2>1, <2>2 DEF Range
  <2>7. \A i \in 1..(n - 1) : i + 1 \in 1..n
    BY <2>1
  <2>8. Range(Tail(q)) \subseteq Range(q)
    BY <2>1, <2>3, <2>4, <2>7 DEF Range
  <2> QED BY <2>2, <2>3, <2>5, <2>6, <2>8 DEF q
<1>4. /\ ChunkIds \in Seq(Ids) /\ ChunkIds # <<>> /\ Head(ChunkIds) = id /\ IsInjective(ChunkIds)
      /\ Range(ChunkIds) = WithPhase("PrefillInFlight")
  BY <1>0, <1>1, <1>2, ChunkIdsAre, IdsOfChunks DEF SInv, BatchPart
<1>5. /\ id \in Ids /\ id \in Range(ChunkIds) /\ IsInjective(Tail(ChunkIds))
      /\ Range(Tail(ChunkIds)) = Range(ChunkIds) \ {id}
  BY <1>4, QueueTail
<1>6. id \in DOMAIN active /\ active[id].phase = "PrefillInFlight"
  BY <1>4, <1>5 DEF WithPhase
<1>7. /\ Known(id) /\ Counted(id) /\ active[id] \in Record /\ active[id].prefilled \in Nat
      /\ PromptLen(id) \in Nat
  BY <1>6, RequestFacts DEF SInv
<1>8. active[id].restore = {}
  <2>1. \A op \in active[id].restore : [id |-> id, op |-> op] \in Range(batch.restores)
    BY <1>5 DEF SInv, RestorePart
  <2>2. Range(batch.restores) = {}
    BY <1>2 DEF Range
  <2> QED BY <2>1, <2>2
<1> DEFINE k == active[id].prefilled + chunk.tokens
           p == IF k = PromptLen(id) THEN "DecodeReady" ELSE "PrefillReady"
<1>9. k \in Nat /\ k <= PromptLen(id)
  <2>1. chunk.offset = active[id].prefilled /\ chunk.offset + chunk.tokens <= PromptLen(id)
    BY <1>1, <1>3 DEF SInv, BatchPart, ChunkRight
  <2>2. chunk.tokens \in Nat
    <3>1. chunk \in Chunk
      BY <1>3
    <3> QED BY <3>1 DEF Chunk
  <2> QED BY <1>7, <2>1, <2>2
<1>10. /\ active' = [active EXCEPT ![id].prefilled = k, ![id].phase = p]
       /\ decodeReady' = IF k = PromptLen(id) THEN Append(decodeReady, id) ELSE decodeReady
       /\ prefillReady' = IF k = PromptLen(id) THEN prefillReady ELSE Append(prefillReady, id)
       /\ batch' = [batch EXCEPT !.prefill = Tail(@)] /\ step' = Rest(batch')
       /\ UNCHANGED <<cacheVars, waiting, committed, left, extra>>
  BY <1>0, <1>1 DEF CompleteChunk
<1>11. OthersStay(id) /\ active'[id] = [active[id] EXCEPT !.prefilled = k, !.phase = p]
  BY <1>6, <1>10 DEF OthersStay
<1>12. /\ active'[id].phase = p /\ active'[id] \in Record /\ active'[id].prefilled = k
       /\ active'[id].generated = active[id].generated
       /\ active'[id].restore = {} /\ p \in {"DecodeReady", "PrefillReady"}
       /\ p = "DecodeReady" <=> k = PromptLen(id)
  <2>1. p \in Phases
    BY DEF Phases
  <2> HIDE DEF k, p
  <2>2. /\ active'[id].phase = p /\ active'[id] \in Record /\ active'[id].prefilled = k
        /\ active'[id].generated = active[id].generated
        /\ active'[id].restore = {}
    BY <1>7, <1>8, <1>9, <1>11, <2>1 DEF Record
  <2> QED BY <2>2 DEF p
<1> HIDE DEF k, p
<1>13. \A x : WithPhase(x)' = IF x = p THEN WithPhase(x) \cup {id} ELSE WithPhase(x) \ {id}
  BY <1>6, <1>11, <1>12, PhaseChanged
<1>14. /\ batch'.decode = batch.decode /\ batch'.prefill = Tail(batch.prefill)
       /\ batch'.restores = <<>> /\ batch'.saves = <<>> /\ BatchType'
  BY <1>2, <1>3, <1>10 DEF BatchType
<1>15. ChunkIds' = Tail(ChunkIds)
  BY <1>2, <1>14, IdsOfChunks DEF ChunkIds, IdsOf
<1>16. DOMAIN active' = DOMAIN active
            /\ \A j \in DOMAIN active : active'[j].restore = active[j].restore
  BY <1>8, <1>11, <1>12 DEF OthersStay
<1>17. QueuePart'
  <2>1. id \notin WithPhase("PrefillReady") /\ id \notin WithPhase("DecodeReady")
    BY <1>6 DEF WithPhase
  <2>2. CASE k = PromptLen(id)
    <3>1. p = "DecodeReady" /\ decodeReady' = Append(decodeReady, id)
               /\ prefillReady' = prefillReady
      BY <1>10, <1>12, <2>2
    <3>2. /\ decodeReady' \in Seq(Ids) /\ IsInjective(decodeReady')
          /\ Range(decodeReady') = Range(decodeReady) \cup {id}
      BY <1>2, <1>5, <2>1, <3>1, QueueAppend
    <3>3. /\ waiting' \in Seq(Ids) /\ IsInjective(waiting')
          /\ Range(waiting') \cap DOMAIN active' = {}
      BY <1>10, <1>16 DEF SInv, QueuePart
    <3>4. /\ WithPhase("PrefillReady")' = WithPhase("PrefillReady")
          /\ WithPhase("DecodeReady")' = WithPhase("DecodeReady") \cup {id}
      BY <1>13, <2>1, <3>1
    <3>5. /\ Range(prefillReady') = WithPhase("PrefillReady")'
          /\ Range(decodeReady') = WithPhase("DecodeReady")'
      BY <1>2, <3>1, <3>2, <3>4
    <3> QED BY <1>2, <3>1, <3>2, <3>3, <3>5 DEF QueuePart
  <2>3. CASE k # PromptLen(id)
    <3>1. p = "PrefillReady" /\ decodeReady' = decodeReady
               /\ prefillReady' = Append(prefillReady, id)
      BY <1>10, <1>12, <2>3
    <3>2. /\ prefillReady' \in Seq(Ids) /\ IsInjective(prefillReady')
          /\ Range(prefillReady') = Range(prefillReady) \cup {id}
      BY <1>2, <1>5, <2>1, <3>1, QueueAppend
    <3>3. /\ waiting' \in Seq(Ids) /\ IsInjective(waiting')
          /\ Range(waiting') \cap DOMAIN active' = {}
      BY <1>10, <1>16 DEF SInv, QueuePart
    <3>4. /\ WithPhase("PrefillReady")' = WithPhase("PrefillReady") \cup {id}
          /\ WithPhase("DecodeReady")' = WithPhase("DecodeReady")
      BY <1>13, <2>1, <3>1
    <3>5. /\ Range(prefillReady') = WithPhase("PrefillReady")'
          /\ Range(decodeReady') = WithPhase("DecodeReady")'
      BY <1>2, <3>1, <3>2, <3>4
    <3> QED BY <1>2, <3>1, <3>2, <3>3, <3>5 DEF QueuePart
  <2> QED BY <2>2, <2>3
<1>18. BatchPart'
  <2>1. id \notin WithPhase("DecodeInFlight")
    BY <1>6 DEF WithPhase
  <2>2. ASSUME NEW c \in Range(batch'.prefill) PROVE ChunkRight(c)'
    <3>1. c \in Range(batch.prefill)
      BY <1>3, <1>14
    <3>2. ChunkRight(c)
      BY <3>1 DEF SInv, BatchPart
    <3>3. c.id \in Range(ChunkIds) \ {id}
      <4>1. c.id \in Range(IdsOf(batch'.prefill))
        BY RangeOfIds
      <4>2. IdsOf(batch'.prefill) = Tail(ChunkIds)
        BY <1>15 DEF ChunkIds, IdsOf
      <4> QED BY <1>5, <4>1, <4>2
    <3>4. active'[c.id] = active[c.id]
      BY <1>4, <1>11, <3>3 DEF OthersStay, WithPhase
    <3> QED BY <3>2, <3>4 DEF ChunkRight
  <2> QED BY <1>4, <1>5, <1>12, <1>13, <1>14, <1>15, <2>1, <2>2 DEF SInv, BatchPart
<1>19. RestorePart'
  <2>1. Range(batch'.restores) = {} /\ IsInjective(batch'.restores)
    BY <1>14 DEF Range, IsInjective
  <2>2. \A j \in Range(ChunkIds') : active'[j].restore = {}
    <3>1. \A j \in Range(ChunkIds) : \A op \in active[j].restore :
               [id |-> j, op |-> op] \in Range(batch.restores)
      BY DEF SInv, RestorePart
    <3>2. Range(batch.restores) = {}
      BY <1>2 DEF Range
    <3>3. Range(ChunkIds) \subseteq DOMAIN active
      BY <1>4 DEF WithPhase
    <3> QED BY <1>5, <1>15, <1>16, <3>1, <3>2, <3>3
  <2> QED BY <2>1, <2>2 DEF RestorePart
<1>20. SavePart'
  BY <1>14 DEF SavePart, Range, IsInjective
<1>21. CommittedPart'
  BY <1>10, <1>16, CommittedSame DEF SInv
<1>22. UNCHANGED seqs
  BY <1>10 DEF cacheVars
<1>23. ActivePart'
  <2>1. Known(id)'
    BY <1>7, <1>9, <1>12 DEF Known
  <2>2. Counted(id)'
    BY <1>6, <1>7, <1>12, <1>22 DEF Counted
  <2> QED BY <1>6, <1>10, <1>11, <1>22, <2>1, <2>2, ActiveChanged DEF SInv
<1>24. ExtraPart'
  <2>1. extra = 0 /\ Depth \in Nat
    <3>1. extra \in Nat /\ Depth \in Nat
      BY SchedulerAssumption DEF SInv, ExtraPart, SchedulerAssumption
    <3> QED BY <1>2, <3>1 DEF SInv, ExtraPart
  <2> QED BY <1>10, <2>1 DEF ExtraPart
<1>25. StepPart'
  BY <1>2, <1>10, RestRight DEF SInv
<1>26. Maps
  <2>1. UNCHANGED client
    BY <1>16, ClientSame
  <2>2. UNCHANGED saving
    BY <1>2, <1>14, SavingSame
  <2> QED BY <1>10, <2>1, <2>2, CacheStays DEF Maps
<1> QED BY <1>17, <1>18, <1>19, <1>20, <1>21, <1>23, <1>24, <1>25, <1>26 DEF SInv

\* A request ends, or is cancelled.
LEMMA Gone ==
  ASSUME SInv, Proved!IInv, NEW id \in DOMAIN active, Deactivate(id),
         DOMAIN seqs' = DOMAIN seqs \ {id}, \A j \in DOMAIN seqs' : seqs'[j] = seqs[j],
         \A j \in DOMAIN active : j # id /\ active[j].phase = "DecodeInFlight" => extra' = extra
  PROVE  /\ ActivePart' /\ CommittedPart'
         /\ client' = Without(client, {id})
         /\ \A p : WithPhase(p)' = WithPhase(p) \ {id}
         /\ DOMAIN active' = DOMAIN active \ {id}
         /\ \A j \in DOMAIN active' : active'[j] = active[j]
<1>1. /\ active' = Without(active, {id}) /\ committed' = committed - Reserved(id)
      /\ DOMAIN seqs = DOMAIN active /\ IsFiniteSet(DOMAIN active) /\ DOMAIN active \subseteq Ids
  BY CacheFacts DEF Deactivate, SInv, ActivePart
<1>2. DOMAIN active' = DOMAIN active \ {id} /\ \A j \in DOMAIN active' : active'[j] = active[j]
  BY <1>1 DEF Without
<1>3. ActivePart'
  <2>1. ASSUME NEW j \in DOMAIN active' PROVE Known(j)' /\ Counted(j)'
    <3>1. /\ active'[j] = active[j] /\ seqs'[j] = seqs[j] /\ Known(j) /\ Counted(j)
          /\ active[j].phase = "DecodeInFlight" => extra' = extra
      BY <1>1, <1>2 DEF SInv, ActivePart
    <3>2. Known(j)'
      BY <3>1 DEF Known
    <3>3. Counted(j)'
      BY <3>1 DEF Counted
    <3> QED BY <3>2, <3>3
  <2> QED BY <1>1, <1>2, <2>1 DEF ActivePart
<1>4. CommittedPart'
  <2>1. /\ ReservedAll(active') = ReservedAll(active) - Reserved(id)
        /\ ReservedAll(active) \in Nat
    BY <1>1, ReservedLess
  <2>2. committed = ReservedAll(active) /\ committed <= Capacity
    BY DEF SInv, CommittedPart
  <2>3. Capacity \in Int /\ Reserved(id) \in Nat
    BY <1>1, ReservedNat, CacheAssumption, FS_CardinalityType DEF CacheAssumption, Capacity
  <2>4. committed' = ReservedAll(active') /\ committed' <= Capacity
    BY <1>1, <2>1, <2>2, <2>3
  <2> QED BY <2>4 DEF CommittedPart, ReservedAll, Capacity
<1> QED BY <1>1, <1>2, <1>3, <1>4, PhaseGone, ClientLess

\* complete_batch_multi counts a request's tokens, or ends it.
LEMMA CompleteDecodeStep == ASSUME SInv, Proved!IInv, CompleteDecode PROVE Maps /\ SInv'
<1>0. PICK id : id = Head(batch.decode)
  OBVIOUS
<1>1. /\ BatchType /\ batch.decode \in Seq(Ids) /\ batch.decode # <<>> /\ IsInjective(batch.decode)
      /\ batch.prefill = <<>> /\ batch.restores = <<>> /\ batch.saves = <<>> /\ step = "complete"
      /\ Range(batch.decode) = WithPhase("DecodeInFlight")
      /\ decodeReady \in Seq(Ids) /\ IsInjective(decodeReady)
      /\ Range(decodeReady) = WithPhase("DecodeReady")
  BY DEF SInv, BatchPart, BatchType, QueuePart, CompleteDecode
<1>2. /\ id \in Ids /\ id \in Range(batch.decode) /\ Tail(batch.decode) \in Seq(Ids)
      /\ IsInjective(Tail(batch.decode)) /\ Range(Tail(batch.decode)) = Range(batch.decode) \ {id}
  BY <1>0, <1>1, QueueTail
<1>3. id \in DOMAIN active /\ active[id].phase = "DecodeInFlight"
  BY <1>1, <1>2 DEF WithPhase
<1>4. /\ Known(id) /\ Counted(id) /\ active[id] \in Record /\ active[id].generated \in Nat
      /\ PromptLen(id) \in Nat /\ Request(id).maxNew \in Nat
      /\ active[id].restore = {} /\ active[id].prefilled = PromptLen(id)
  <2>1. /\ Known(id) /\ Counted(id) /\ active[id] \in Record /\ active[id].generated \in Nat
        /\ PromptLen(id) \in Nat /\ Request(id).maxNew \in Nat
    BY <1>3, RequestFacts DEF SInv
  <2>2. active[id].restore = {} /\ active[id].prefilled = PromptLen(id)
    BY <1>3, <2>1 DEF Known
  <2> QED BY <2>1, <2>2
<1>5. /\ batch' = [batch EXCEPT !.decode = Tail(@)] /\ step' = Rest(batch') /\ extra' = 0
      /\ UNCHANGED <<waiting, prefillReady, left>>
  BY DEF CompleteDecode
<1>6. /\ batch'.decode = Tail(batch.decode) /\ batch'.prefill = <<>>
      /\ batch'.restores = <<>> /\ batch'.saves = <<>> /\ BatchType'
  BY <1>1, <1>2, <1>5 DEF BatchType
<1>7. ChunkIds = <<>> /\ ChunkIds' = <<>>
  BY <1>1, <1>6 DEF ChunkIds
<1>8. \A j \in DOMAIN active : j # id /\ active[j].phase = "DecodeInFlight" => extra' = extra
  <2>1. CASE extra = 0
    BY <1>5, <2>1
  <2>2. CASE extra # 0
    <3>1. extra \in Nat
      BY SchedulerAssumption DEF SInv, ExtraPart, SchedulerAssumption
    <3>2. Len(batch.decode) = 1
      BY <2>2, <3>1 DEF SInv, ExtraPart
    <3>3. \A j \in Range(batch.decode) : j = id
      BY <1>0, <1>1, <3>2 DEF Range
    <3> QED BY <1>1, <3>3 DEF WithPhase
  <2> QED BY <2>1, <2>2
<1>9. ExtraPart' /\ StepPart'
  <2>1. Depth \in Nat
    BY SchedulerAssumption DEF SchedulerAssumption
  <2> QED BY <1>1, <1>5, <2>1, RestRight DEF SInv, ExtraPart
<1>10. RestorePart' /\ SavePart'
  BY <1>6, <1>7 DEF RestorePart, SavePart, Range, IsInjective
<1>11. UNCHANGED saving
  BY <1>1, <1>6, SavingSame
<1>12. CASE Release(id, {}) /\ Deactivate(id) /\ UNCHANGED decodeReady
  <2>1. DOMAIN seqs' = DOMAIN seqs \ {id} /\ \A j \in DOMAIN seqs' : seqs'[j] = seqs[j]
    BY <1>12, ReleaseTokens
  <2>2. /\ ActivePart' /\ CommittedPart'
        /\ client' = Without(client, {id})
        /\ \A p : WithPhase(p)' = WithPhase(p) \ {id}
        /\ DOMAIN active' = DOMAIN active \ {id}
    BY <1>3, <1>8, <1>12, <2>1, Gone
  <2>3. QueuePart'
    <3>1. id \notin WithPhase("PrefillReady") /\ id \notin WithPhase("DecodeReady")
      BY <1>3 DEF WithPhase
    <3> QED BY <1>5, <1>12, <2>2, <3>1 DEF SInv, QueuePart
  <2>4. BatchPart'
    <3>1. IsInjective(ChunkIds') /\ Range(ChunkIds') = {} /\ Range(ChunkIds) = {}
          /\ Range(batch'.prefill) = {}
      BY <1>6, <1>7 DEF Range, IsInjective
    <3> QED BY <1>1, <1>2, <1>6, <2>2, <3>1 DEF SInv, BatchPart
  <2>5. Maps
    <3>1. client[id].restore = {}
      BY <1>3, <1>4 DEF client
    <3> QED BY <1>2, <1>3, <1>11, <1>12, <2>2, <3>1, LeaveCall DEF Maps
  <2> QED BY <1>9, <1>10, <2>2, <2>3, <2>4, <2>5 DEF SInv
<1>13. CASE /\ Generated(id) < Request(id).maxNew
            /\ active' = [active EXCEPT ![id].generated = Generated(id),
                                        ![id].phase = "DecodeReady"]
            /\ decodeReady' = Append(decodeReady, id)
            /\ UNCHANGED <<cacheVars, committed>>
  <2> DEFINE g == active[id].generated + 1 + extra
  <2>1. extra \in Nat /\ g \in Nat
    <3>1. extra \in Nat
      BY SchedulerAssumption DEF SInv, ExtraPart, SchedulerAssumption
    <3> QED BY <1>4, <3>1
  <2>2. Generated(id) = g /\ g < Request(id).maxNew
    <3> HIDE DEF g
    <3>1. Generated(id) = Min({g, Request(id).maxNew})
      BY DEF Generated, g
    <3>2. g \in Int /\ Request(id).maxNew \in Int
      BY <1>4, <2>1
    <3>3. Min({g, Request(id).maxNew}) \in {g, Request(id).maxNew}
      BY <3>2, MinOfTwo, Zenon
    <3>4. CASE Generated(id) = g
      BY <1>13, <3>4
    <3>5. CASE Generated(id) = Request(id).maxNew
      BY <1>13, <3>2, <3>5
    <3> QED BY <3>1, <3>3, <3>4, <3>5
  <2> HIDE DEF g
  <2>3. OthersStay(id) /\ active'[id] = [active[id] EXCEPT !.generated = g, !.phase = "DecodeReady"]
    BY <1>3, <1>13, <2>2 DEF OthersStay
  <2>4. /\ active'[id].phase = "DecodeReady" /\ active'[id] \in Record
        /\ active'[id].prefilled = active[id].prefilled
        /\ active'[id].generated = g
        /\ active'[id].restore = active[id].restore
    BY <1>4, <2>1, <2>3 DEF Record, Phases
  <2>5. \A p : WithPhase(p)' = IF p = "DecodeReady" THEN WithPhase(p) \cup {id}
                               ELSE WithPhase(p) \ {id}
    <3>1. \A p : WithPhase(p)' = IF active'[id].phase = p THEN WithPhase(p) \cup {id}
                                  ELSE WithPhase(p) \ {id}
      BY <1>3, <2>3, PhaseChanged
    <3>2. active'[id].phase = "DecodeReady"
      BY <2>4
    <3> QED BY <3>1, <3>2
  <2>6. DOMAIN active' = DOMAIN active
             /\ \A j \in DOMAIN active : active'[j].restore = active[j].restore
    <3>1. DOMAIN active' = DOMAIN active
               /\ \A j \in DOMAIN active : j # id => active'[j] = active[j]
      BY <2>3 DEF OthersStay
    <3>2. active'[id].restore = active[id].restore
      BY <2>4
    <3> QED BY <3>1, <3>2, Zenon
  <2>7. QueuePart'
    <3>1. id \notin WithPhase("PrefillReady") /\ id \notin WithPhase("DecodeReady")
      BY <1>3 DEF WithPhase
    <3>2. /\ decodeReady' \in Seq(Ids) /\ IsInjective(decodeReady')
          /\ Range(decodeReady') = Range(decodeReady) \cup {id}
      BY <1>1, <1>2, <1>13, <3>1, QueueAppend
    <3> QED BY <1>1, <1>5, <2>5, <2>6, <3>1, <3>2 DEF SInv, QueuePart
  <2>8. BatchPart'
    <3>1. IsInjective(ChunkIds') /\ Range(ChunkIds') = {} /\ Range(ChunkIds) = {}
          /\ Range(batch'.prefill) = {}
      BY <1>6, <1>7 DEF Range, IsInjective
    <3> QED BY <1>1, <1>2, <1>6, <2>5, <3>1 DEF SInv, BatchPart
  <2>9. CommittedPart'
    BY <1>13, <2>6, CommittedSame DEF SInv
  <2>10. UNCHANGED seqs
    BY <1>13 DEF cacheVars
  <2>11. ActivePart'
    <3>1. Known(id)'
      BY <1>4, <2>2, <2>4 DEF Known
    <3>2. Counted(id)'
      <4>0. (active'[id].phase = "DecodeInFlight") = FALSE
        BY <2>4
      <4>1. seqs[id].tokens = PromptLen(id) + active[id].generated + (1 + extra)
            /\ seqs[id].tokens <= PromptLen(id) + Request(id).maxNew
        BY <1>3, <1>4 DEF Counted
      <4>2. seqs[id].tokens = PromptLen(id) + g + 0
        BY <1>4, <2>1, <4>1 DEF g
      <4>3. seqs'[id].tokens = PromptLen(id) + active'[id].generated + 0
        BY <2>4, <2>10, <4>2
      <4>4. seqs'[id].tokens <= PromptLen(id) + Request(id).maxNew
        BY <2>10, <4>1
      <4> QED BY <4>0, <4>3, <4>4 DEF Counted
    <3> QED BY <1>3, <1>8, <2>3, <2>10, <3>1, <3>2, ActiveChanged DEF SInv
  <2>12. Maps
    <3>1. UNCHANGED client
      BY <2>6, ClientSame
    <3> QED BY <1>11, <1>13, <3>1, CacheStays DEF Maps
  <2> QED BY <1>9, <1>10, <2>7, <2>8, <2>9, <2>11, <2>12 DEF SInv
<1> QED BY <1>0, <1>12, <1>13 DEF CompleteDecode

-----------------------------------------------------------------------------
(* Abort and cancellation.                                                 *)

\* The chunks of a batch are back in front of the ready prefills.
LEMMA AbortChunksStep == ASSUME SInv, Proved!IInv, AbortChunks PROVE Maps /\ SInv'
<1>1. /\ BatchType /\ batch.prefill \in Seq(Chunk) /\ batch.saves = <<>> /\ step = "abort"
      /\ prefillReady \in Seq(Ids) /\ IsInjective(prefillReady)
      /\ Range(prefillReady) = WithPhase("PrefillReady")
      /\ IsInjective(ChunkIds) /\ Range(ChunkIds) = WithPhase("PrefillInFlight")
      /\ extra = 0 /\ Depth \in Nat
  <2>1. extra \in Nat /\ Depth \in Nat
    BY SchedulerAssumption DEF SInv, ExtraPart, SchedulerAssumption
  <2> QED BY <2>1 DEF SInv, BatchPart, BatchType, QueuePart, ExtraPart, AbortChunks
<1>2. /\ prefillReady' = ChunkIds \o prefillReady
      /\ active' = [id \in DOMAIN active |->
                      IF id \in Range(ChunkIds)
                      THEN [active[id] EXCEPT !.phase = "PrefillReady"]
                      ELSE active[id]]
      /\ batch' = [batch EXCEPT !.prefill = <<>>, !.restores = <<>>]
      /\ step' = Rest(batch')
      /\ UNCHANGED <<cacheVars, waiting, decodeReady, committed, left, extra>>
  BY DEF AbortChunks
<1>3. ChunkIds \in Seq(Ids)
  BY <1>1, ChunkIdsAre, IdsOfChunks
<1>4. /\ prefillReady' \in Seq(Ids) /\ IsInjective(prefillReady')
      /\ Range(prefillReady') = Range(ChunkIds) \cup Range(prefillReady)
  <2>1. Range(ChunkIds) \cap Range(prefillReady) = {}
    BY <1>1 DEF WithPhase
  <2> QED BY <1>1, <1>2, <1>3, <2>1, QueueJoin
<1>5. /\ batch'.decode = batch.decode /\ batch'.prefill = <<>>
      /\ batch'.restores = <<>> /\ batch'.saves = <<>> /\ BatchType'
  <2>1. batch' = [batch EXCEPT !.prefill = <<>>, !.restores = <<>>]
    BY <1>2
  <2>2. batch \in [decode : Seq(Ids), prefill : Seq(Chunk),
                   restores : Seq(RestoreCall), saves : Seq(SaveCall)] /\ batch.saves = <<>>
    BY <1>1 DEF BatchType
  <2>3. <<>> \in Seq(Chunk) /\ <<>> \in Seq(RestoreCall)
    BY EmptySeq
  <2>4. /\ batch'.decode = batch.decode /\ batch'.prefill = <<>>
        /\ batch'.restores = <<>> /\ batch'.saves = <<>>
    BY <2>1, <2>2
  <2>5. batch' \in [decode : Seq(Ids), prefill : Seq(Chunk),
                    restores : Seq(RestoreCall), saves : Seq(SaveCall)]
    BY <2>1, <2>2, <2>3
  <2> QED BY <2>4, <2>5 DEF BatchType
<1>6. ChunkIds' = <<>> /\ Range(ChunkIds') = {} /\ IsInjective(ChunkIds')
      /\ Range(batch'.prefill) = {} /\ Range(batch'.restores) = {} /\ Range(batch'.saves) = {}
      /\ IsInjective(batch'.restores) /\ IsInjective(batch'.saves)
  BY <1>5 DEF ChunkIds, Range, IsInjective
<1>7. /\ DOMAIN active' = DOMAIN active
      /\ \A j \in DOMAIN active : j \notin Range(ChunkIds) => active'[j] = active[j]
      /\ \A j \in Range(ChunkIds) :
           /\ active'[j] = [active[j] EXCEPT !.phase = "PrefillReady"]
           /\ j \in DOMAIN active /\ active[j].phase = "PrefillInFlight"
  <2> DEFINE S == Range(ChunkIds)
  <2>1. \A j \in S : j \in DOMAIN active /\ active[j].phase = "PrefillInFlight"
    BY <1>1 DEF WithPhase
  <2>2. active' = [j \in DOMAIN active |-> IF j \in S THEN [active[j] EXCEPT !.phase = "PrefillReady"]
                                          ELSE active[j]]
    BY <1>2
  <2> HIDE DEF S
  <2>3. /\ DOMAIN active' = DOMAIN active
        /\ \A j \in DOMAIN active : j \notin S => active'[j] = active[j]
        /\ \A j \in S : active'[j] = [active[j] EXCEPT !.phase = "PrefillReady"]
    BY <2>1, <2>2
  <2> QED BY <2>1, <2>3 DEF S
<1>8. \A j \in Range(ChunkIds) :
        /\ active[j] \in Record /\ active'[j] \in Record
        /\ active'[j].phase = "PrefillReady" /\ active'[j].prefilled = active[j].prefilled
        /\ active'[j].generated = active[j].generated /\ active'[j].restore = active[j].restore
  <2> SUFFICES ASSUME NEW j \in Range(ChunkIds)
               PROVE  /\ active[j] \in Record /\ active'[j] \in Record
                      /\ active'[j].phase = "PrefillReady"
                           /\ active'[j].prefilled = active[j].prefilled
                      /\ active'[j].generated = active[j].generated
                      /\ active'[j].restore = active[j].restore
    OBVIOUS
  <2>1. active[j] \in Record /\ active'[j] = [active[j] EXCEPT !.phase = "PrefillReady"]
    BY <1>7, RequestFacts DEF SInv
  <2> QED BY <2>1 DEF Record, Phases
<1>9. /\ WithPhase("PrefillReady")' = Range(ChunkIds) \cup WithPhase("PrefillReady")
      /\ WithPhase("PrefillInFlight")' = {}
      /\ WithPhase("DecodeReady")' = WithPhase("DecodeReady")
      /\ WithPhase("DecodeInFlight")' = WithPhase("DecodeInFlight")
  <2>1. \A p : WithPhase(p)' = {j \in DOMAIN active : active'[j].phase = p}
    BY <1>7 DEF WithPhase
  <2>2. \A j \in DOMAIN active : active'[j].phase =
          IF j \in Range(ChunkIds) THEN "PrefillReady" ELSE active[j].phase
    BY <1>7, <1>8
  <2> QED BY <1>1, <1>7, <2>1, <2>2 DEF WithPhase
<1>10. QueuePart'
  BY <1>1, <1>2, <1>4, <1>7, <1>9 DEF SInv, QueuePart
<1>11. BatchPart'
  BY <1>5, <1>6, <1>9 DEF SInv, BatchPart
<1>12. RestorePart' /\ SavePart'
  BY <1>6 DEF RestorePart, SavePart
<1>13. CommittedPart'
  BY <1>2, <1>7, CommittedSame DEF SInv
<1>14. UNCHANGED seqs
  BY <1>2 DEF cacheVars
<1>15. ActivePart'
  <2>1. ASSUME NEW j \in DOMAIN active PROVE Known(j)' /\ Counted(j)'
    <3>1. Known(j) /\ Counted(j)
      BY DEF SInv, ActivePart
    <3>2. CASE j \notin Range(ChunkIds)
      <4>1. active'[j] = active[j]
        BY <1>7, <3>2
      <4> QED BY <1>2, <1>14, <3>1, <4>1 DEF Known, Counted
    <3>3. CASE j \in Range(ChunkIds)
      <4>1. /\ active[j].phase = "PrefillInFlight" /\ active'[j] \in Record
            /\ active'[j].phase = "PrefillReady" /\ active'[j].prefilled = active[j].prefilled
            /\ active'[j].generated = active[j].generated /\ active'[j].restore = active[j].restore
        BY <1>7, <1>8, <3>3
      <4>2. Known(j)'
        BY <3>1, <4>1 DEF Known
      <4>3. Counted(j)'
        BY <1>14, <3>1, <4>1 DEF Counted
      <4> QED BY <4>2, <4>3
    <3> QED BY <3>2, <3>3
  <2> QED BY <1>7, <2>1 DEF SInv, ActivePart
<1>16. ExtraPart' /\ StepPart'
  BY <1>1, <1>2, RestRight DEF SInv, ExtraPart
<1>17. Maps
  <2>1. UNCHANGED client
    BY <1>7, <1>8, ClientSame
  <2>2. UNCHANGED saving
    BY <1>1, <1>5, SavingSame
  <2> QED BY <1>2, <2>1, <2>2, CacheStays DEF Maps
<1> QED BY <1>10, <1>11, <1>12, <1>13, <1>15, <1>16, <1>17 DEF SInv

\* A planned token is taken back, and its request is again the next to decode.
LEMMA AbortDecodeStep == ASSUME SInv, Proved!IInv, AbortDecode PROVE Maps /\ SInv'
<1>0. PICK id : id = Last(batch.decode)
  OBVIOUS
<1>1. /\ BatchType /\ batch.decode \in Seq(Ids) /\ batch.decode # <<>> /\ IsInjective(batch.decode)
      /\ batch.prefill = <<>> /\ batch.saves = <<>> /\ step = "abort"
      /\ Range(batch.decode) = WithPhase("DecodeInFlight")
      /\ decodeReady \in Seq(Ids) /\ IsInjective(decodeReady)
      /\ Range(decodeReady) = WithPhase("DecodeReady")
      /\ extra = 0 /\ Depth \in Nat
  <2>1. extra \in Nat /\ Depth \in Nat
    BY SchedulerAssumption DEF SInv, ExtraPart, SchedulerAssumption
  <2> QED BY <2>1 DEF SInv, BatchPart, BatchType, QueuePart, ExtraPart, AbortDecode
<1>2. /\ id \in Ids /\ id \in Range(batch.decode) /\ Front(batch.decode) \in Seq(Ids)
      /\ IsInjective(Front(batch.decode)) /\ Range(Front(batch.decode)) = Range(batch.decode) \ {id}
  BY <1>0, <1>1, QueueFront
<1>3. id \in DOMAIN active /\ active[id].phase = "DecodeInFlight"
  BY <1>1, <1>2 DEF WithPhase
<1>4. /\ Known(id) /\ Counted(id) /\ active[id] \in Record /\ active[id].generated \in Nat
      /\ PromptLen(id) \in Nat /\ Request(id).maxNew \in Nat
  BY <1>3, RequestFacts DEF SInv
<1>5. /\ RollbackToken(id)
      /\ active' = [active EXCEPT ![id].phase = "DecodeReady"]
      /\ decodeReady' = <<id>> \o decodeReady
      /\ batch' = [batch EXCEPT !.decode = Front(@)] /\ step' = Rest(batch')
      /\ UNCHANGED <<waiting, prefillReady, committed, left, extra>>
  BY <1>0 DEF AbortDecode
<1>6. /\ batch'.decode = Front(batch.decode) /\ batch'.prefill = batch.prefill
      /\ batch'.restores = batch.restores /\ batch'.saves = batch.saves /\ BatchType'
  BY <1>1, <1>2, <1>5 DEF BatchType
<1>7. ChunkIds' = ChunkIds /\ Range(ChunkIds) = {}
  BY <1>1, <1>6 DEF ChunkIds, Range
<1>8. OthersStay(id) /\ active'[id] = [active[id] EXCEPT !.phase = "DecodeReady"]
  BY <1>3, <1>5 DEF OthersStay
<1>9. /\ active'[id].phase = "DecodeReady" /\ active'[id] \in Record
      /\ active'[id].prefilled = active[id].prefilled
      /\ active'[id].generated = active[id].generated
      /\ active'[id].restore = active[id].restore
  BY <1>4, <1>8 DEF Record, Phases
<1>10. \A p : WithPhase(p)' = IF p = "DecodeReady" THEN WithPhase(p) \cup {id}
                              ELSE WithPhase(p) \ {id}
  <2>1. \A p : WithPhase(p)' = IF active'[id].phase = p THEN WithPhase(p) \cup {id}
                                ELSE WithPhase(p) \ {id}
    BY <1>3, <1>8, PhaseChanged
  <2>2. active'[id].phase = "DecodeReady"
    BY <1>9
  <2> QED BY <2>1, <2>2
<1>11. DOMAIN active' = DOMAIN active
            /\ \A j \in DOMAIN active : active'[j].restore = active[j].restore
  <2>1. DOMAIN active' = DOMAIN active /\ \A j \in DOMAIN active : j # id => active'[j] = active[j]
    BY <1>8 DEF OthersStay
  <2>2. active'[id].restore = active[id].restore
    BY <1>9
  <2> QED BY <2>1, <2>2, Zenon
<1>12. QueuePart'
  <2>1. id \notin WithPhase("PrefillReady") /\ id \notin WithPhase("DecodeReady")
    BY <1>3 DEF WithPhase
  <2>2. <<id>> \in Seq(Ids) /\ IsInjective(<<id>>) /\ Range(<<id>>) = {id}
    BY <1>2 DEF IsInjective, Range
  <2>3. /\ decodeReady' \in Seq(Ids) /\ IsInjective(decodeReady')
        /\ Range(decodeReady') = Range(decodeReady) \cup {id}
    <3> DEFINE q == <<id>>
    <3>1. q \in Seq(Ids) /\ IsInjective(q) /\ Range(q) = {id} /\ decodeReady' = q \o decodeReady
      BY <1>5, <2>2
    <3> HIDE DEF q
    <3>2. Range(q) \cap Range(decodeReady) = {}
      BY <1>1, <2>1, <3>1
    <3> QED BY <1>1, <3>1, <3>2, QueueJoin
  <2> QED BY <1>1, <1>5, <1>10, <1>11, <2>1, <2>3, Zenon DEF SInv, QueuePart
<1>13. BatchPart'
  <2>1. id \notin WithPhase("PrefillInFlight") /\ Range(batch.prefill) = {}
    BY <1>1, <1>3 DEF WithPhase, Range
  <2> QED BY <1>1, <1>2, <1>6, <1>7, <1>10, <2>1 DEF SInv, BatchPart
<1>14. RestorePart' /\ SavePart' /\ CommittedPart'
  BY <1>5, <1>6, <1>7, <1>11, RestoreSame, SaveSame, CommittedSame DEF SInv
<1>15. seqs[id].tokens = PromptLen(id) + active[id].generated + 1
       /\ seqs[id].tokens <= PromptLen(id) + Request(id).maxNew
  <2>1. (active[id].phase = "DecodeInFlight") = TRUE
    BY <1>3
  <2> QED BY <1>1, <1>4, <2>1 DEF Counted
<1>16. /\ DOMAIN seqs = DOMAIN active
       /\ seqs[id] \in [slot : Slots, blocks : Seq(Pages), tokens : Nat]
  BY <1>3, CacheFacts
<1>17. TokensBy(id, 0 - 1)
  BY <1>5, <1>16, RollbackTokens
<1>18. ActivePart'
  <2>1. Known(id)'
    BY <1>3, <1>4, <1>9 DEF Known
  <2>2. Counted(id)'
    <3>1. (active'[id].phase = "DecodeInFlight") = FALSE
      BY <1>9
    <3>2. seqs'[id].tokens = PromptLen(id) + active'[id].generated + 0
          /\ seqs'[id].tokens <= PromptLen(id) + Request(id).maxNew
      BY <1>4, <1>9, <1>15, <1>17 DEF TokensBy
    <3> QED BY <3>1, <3>2 DEF Counted
  <2>3. \A j \in DOMAIN active : j # id => seqs'[j].tokens = seqs[j].tokens
    BY <1>16, <1>17 DEF TokensBy
  <2> QED BY <1>3, <1>5, <1>8, <2>1, <2>2, <2>3, ActiveChanged DEF SInv
<1>19. ExtraPart' /\ StepPart'
  BY <1>1, <1>5, RestRight DEF SInv, ExtraPart
<1>20. Maps
  <2>1. UNCHANGED client
    BY <1>11, ClientSame
  <2>2. UNCHANGED saving
    BY <1>6, SavingSame
  <2>3. seqs[id].tokens > PromptLen(id)
    BY <1>4, <1>15
  <2> QED BY <1>2, <1>3, <1>5, <2>1, <2>2, <2>3, ShrinkCall DEF Maps
<1> QED BY <1>12, <1>13, <1>14, <1>18, <1>19, <1>20 DEF SInv

\* A request that is not in the batch is cancelled.
LEMMA CancelActiveStep == ASSUME SInv, Proved!IInv, NEW id \in Ids, CancelActive(id)
     PROVE Maps /\ SInv'
<1>1. /\ step \in {"idle", "flight"} /\ id \in DOMAIN active /\ ~InBatch(id)
      /\ Release(id, {r.snapshot : r \in active[id].restore}) /\ Deactivate(id)
      /\ prefillReady' = Retained(prefillReady, id) /\ decodeReady' = Retained(decodeReady, id)
      /\ UNCHANGED <<waiting, batch, step, left, extra>>
  BY DEF CancelActive
<1>2. DOMAIN seqs' = DOMAIN seqs \ {id} /\ \A j \in DOMAIN seqs' : seqs'[j] = seqs[j]
  <2> DEFINE due == {r.snapshot : r \in active[id].restore}
  <2>1. Release(id, due)
    BY <1>1
  <2> HIDE DEF due
  <2> QED BY <2>1, ReleaseTokens
<1>3. /\ ActivePart' /\ CommittedPart'
      /\ client' = Without(client, {id})
      /\ \A p : WithPhase(p)' = WithPhase(p) \ {id}
      /\ DOMAIN active' = DOMAIN active \ {id}
      /\ \A j \in DOMAIN active' : active'[j] = active[j]
  BY <1>1, <1>2, Gone
<1>4. /\ id \notin Range(batch.decode) /\ id \notin Range(ChunkIds) /\ ChunkIds' = ChunkIds
      /\ Range(batch.decode) = WithPhase("DecodeInFlight")
      /\ Range(ChunkIds) = WithPhase("PrefillInFlight")
  BY <1>1 DEF InBatch, ChunkIds, SInv, BatchPart
<1>5. QueuePart'
  <2>1. /\ prefillReady \in Seq(Ids) /\ IsInjective(prefillReady)
        /\ decodeReady \in Seq(Ids) /\ IsInjective(decodeReady)
    BY DEF SInv, QueuePart
  <2>2. /\ prefillReady' \in Seq(Ids) /\ IsInjective(prefillReady')
        /\ Range(prefillReady') = Range(prefillReady) \ {id}
    BY <1>1, <2>1, RetainedQueue
  <2>3. /\ decodeReady' \in Seq(Ids) /\ IsInjective(decodeReady')
        /\ Range(decodeReady') = Range(decodeReady) \ {id}
    BY <1>1, <2>1, RetainedQueue
  <2> QED BY <1>1, <1>3, <2>2, <2>3 DEF SInv, QueuePart
<1>6. BatchPart'
  <2>1. ASSUME NEW c \in Range(batch.prefill) PROVE ChunkRight(c)'
    <3>1. c.id \in Range(ChunkIds)
      BY ChunkIdsAre, RangeOfIds
    <3>2. c.id \in DOMAIN active'
      BY <1>3, <1>4, <3>1 DEF WithPhase
    <3>3. ChunkRight(c) /\ active'[c.id] = active[c.id]
      BY <1>3, <3>2 DEF SInv, BatchPart
    <3> QED BY <3>3 DEF ChunkRight
  <2> QED BY <1>1, <1>3, <1>4, <2>1 DEF SInv, BatchPart, BatchType
<1>7. RestorePart'
  <2>1. \A j \in Range(ChunkIds) : active'[j].restore = active[j].restore
    BY <1>3, <1>4 DEF WithPhase
  <2> QED BY <1>1, <1>4, <2>1, RestoreSame DEF SInv
<1>8. SavePart'
  BY <1>1, <1>4, SaveSame DEF SInv
<1>9. ExtraPart' /\ StepPart'
  BY <1>1 DEF SInv, ExtraPart, StepPart, NoBatch
<1>10. Maps
  <2>1. client[id].restore = {r.snapshot : r \in active[id].restore}
    BY <1>1 DEF client
  <2>2. Release(id, client[id].restore)
    BY <1>1, <2>1
  <2>3. UNCHANGED saving
    BY <1>1 DEF saving
  <2> QED BY <1>1, <1>3, <2>2, <2>3, LeaveCall DEF Maps
<1> QED BY <1>3, <1>5, <1>6, <1>7, <1>8, <1>9, <1>10 DEF SInv

-----------------------------------------------------------------------------
(* Every step.                                                             *)

\* Continuing a cached prefix is a call of the cache manager.
LEMMA AdmitMatchMaps == ASSUME SInv, Proved!IInv, AdmitMatch PROVE Maps
<1>0. PICK id : id = Head(waiting)
  OBVIOUS
<1>1. id \in Ids
  <2>1. /\ waiting \in Seq(Ids) /\ left \in Nat /\ left <= Len(waiting) /\ left > 0
    BY DEF SInv, QueuePart, StepPart, AdmitMatch
  <2>2. waiting # <<>>
    BY <2>1
  <2> QED BY <1>0, <2>1, <2>2
<1>2. PICK s \in DOMAIN entries :
        \E copy : /\ AdmitHit(id, Request(id).prompt, s)
                  /\ Activate(id, Len(entries[s].tokens), {[snapshot |-> s, copy |-> copy]})
  BY <1>0 DEF AdmitMatch
<1>3. PICK op : /\ AdmitHit(id, Request(id).prompt, s)
                /\ Activate(id, Len(entries[s].tokens), {op}) /\ op.snapshot = s
  <2>1. PICK copy : /\ AdmitHit(id, Request(id).prompt, s)
                    /\ Activate(id, Len(entries[s].tokens), {[snapshot |-> s, copy |-> copy]})
    BY <1>2
  <2> DEFINE o == [snapshot |-> s, copy |-> copy]
  <2>2. o.snapshot = s /\ AdmitHit(id, Request(id).prompt, s)
             /\ Activate(id, Len(entries[s].tokens), {o})
    BY <2>1
  <2> HIDE DEF o
  <2> QED BY <2>2
<1>4. PICK r : active' = With(active, id, r) /\ r.restore = {op} /\ UNCHANGED batch
  <2> DEFINE r == [prefilled |-> Len(entries[s].tokens), generated |-> 0,
                   phase |-> "PrefillReady", restore |-> {op}]
  <2>1. active' = With(active, id, r) /\ UNCHANGED batch
    BY <1>3 DEF Activate
  <2>2. r.restore = {op}
    OBVIOUS
  <2> HIDE DEF r
  <2> QED BY <2>1, <2>2
<1>5. client' = With(client, id, Owed(id, {op})) /\ UNCHANGED saving
  BY <1>4, ClientMore, SavingSame
<1>6. Owed(id, {op}) = [prompt |-> Request(id).prompt, restore |-> {s}]
  BY <1>3 DEF Owed
<1> QED BY <1>1, <1>3, <1>5, <1>6, CachedCall DEF Maps

\* The invariant of the cache manager is kept by every step of the scheduler.
LEMMA CacheKept == ASSUME Proved!IInv, Maps PROVE Proved!IInv'
BY Proved!Inductive, CopiesAssumed DEF Maps

\* So is what is shared.
LEMMA SharingKept == ASSUME Proved!IInv, Proved!Sharing, Maps PROVE Proved!Sharing'
BY Proved!SharingInductive, CopiesAssumed DEF Maps

\* Every step of the worker maps to a call of the cache manager or to none, and
\* keeps the invariant.
LEMMA AdvanceStep == ASSUME SInv, Proved!IInv, Advance PROVE Maps /\ SInv'
<1>1. CASE BeginBatch \/ DecodePlanned \/ BeginAdmission \/ EndAdmission \/ EndBatch \/ BeginComplete
  BY <1>1, LoopStep
<1>2. CASE PlanDecode
  BY <1>2, PlanDecodeStep
<1>3. CASE PlanChunk
  BY <1>3, PlanChunkStep
<1>4. CASE AdmitMiss
  BY <1>4, AdmitMissStep
<1>5. CASE AdmitMatch
  <2>1. Maps
    BY <1>5, AdmitMatchMaps
  <2> QED BY <1>5, <2>1, CacheKept, AdmitMatchStep
<1>6. CASE PassOver
  BY <1>6, PassOverStep
<1>7. CASE CompleteRestore
  BY <1>7, CompleteRestoreStep
<1>8. CASE CompleteSave
  BY <1>8, CompleteSaveStep
<1>9. CASE CompleteChunk
  BY <1>9, CompleteChunkStep
<1>10. CASE CompleteDecode
  BY <1>10, CompleteDecodeStep
<1>11. CASE AbortSave
  BY <1>11, AbortSaveStep
<1>12. CASE AbortChunks
  BY <1>12, AbortChunksStep
<1>13. CASE AbortDecode
  BY <1>13, AbortDecodeStep
<1> QED BY <1>1, <1>2, <1>3, <1>4, <1>5, <1>6, <1>7, <1>8, <1>9, <1>10, <1>11, <1>12, <1>13
        DEF Advance

\* So does every step.
LEMMA NextStep == ASSUME SInv, Proved!IInv, [Next]_vars PROVE Maps /\ SInv'
<1>1. CASE Advance
  BY <1>1, AdvanceStep
<1>2. CASE ReserveExtra
  BY <1>2, ReserveExtraStep
<1>3. CASE ReleaseExtra
  BY <1>3, ReleaseExtraStep
<1>4. CASE BeginAbort
  BY <1>4, LoopStep
<1>5. ASSUME NEW id \in Ids, Submit(id) PROVE Maps /\ SInv'
  BY <1>5, SubmitStep
<1>6. ASSUME NEW id \in Ids, CancelWaiting(id) PROVE Maps /\ SInv'
  BY <1>6, CancelWaitingStep
<1>7. ASSUME NEW id \in Ids, CancelActive(id) PROVE Maps /\ SInv'
  BY <1>7, CancelActiveStep
<1>8. CASE UNCHANGED vars
  <2>1. UNCHANGED <<cacheVars, seqs, queueVars, waiting, prefillReady, decodeReady,
                    active, committed, batch, step, left, extra>>
    BY <1>8 DEF vars, queueVars, cacheVars
  <2>2. /\ BatchPart' /\ RestorePart' /\ SavePart' /\ ActivePart' /\ CommittedPart'
        /\ UNCHANGED <<client, saving>>
        /\ DOMAIN active' = DOMAIN active /\ \A p : WithPhase(p)' = WithPhase(p)
    BY <2>1, RequestsSame
  <2>3. QueuePart' /\ ExtraPart' /\ StepPart'
    BY <2>1, <2>2 DEF SInv, QueuePart, ExtraPart, StepPart, NoBatch
  <2>4. Maps
    BY <2>1, <2>2, CacheStays DEF Maps
  <2> QED BY <2>2, <2>3, <2>4 DEF SInv
<1> QED BY <1>1, <1>2, <1>3, <1>4, <1>5, <1>6, <1>7, <1>8 DEF Next

\* The invariant holds of the idle scheduler.
LEMMA SchedulerStarts == Init => SInv
<1> SUFFICES ASSUME Init PROVE SInv
  OBVIOUS
<1>1. /\ waiting = <<>> /\ prefillReady = <<>> /\ decodeReady = <<>> /\ active = <<>>
      /\ committed = 0 /\ batch = EmptyBatch /\ step = "idle" /\ left = 0 /\ extra = 0
  BY DEF Init
<1>2. DOMAIN active = {} /\ \A p : WithPhase(p) = {}
  BY <1>1 DEF WithPhase
<1>3. Range(<<>>) = {} /\ IsInjective(<<>>)
  BY DEF Range, IsInjective
<1>4. QueuePart
  BY <1>1, <1>2, <1>3, EmptySeq DEF QueuePart
<1>5. /\ batch.decode = <<>> /\ batch.prefill = <<>> /\ batch.restores = <<>> /\ batch.saves = <<>>
      /\ BatchType
  BY <1>1, EmptySeq DEF EmptyBatch, BatchType
<1>6. ChunkIds = <<>>
  BY <1>5 DEF ChunkIds
<1>7. BatchPart /\ RestorePart /\ SavePart
  BY <1>2, <1>3, <1>5, <1>6 DEF BatchPart, RestorePart, SavePart
<1>8. ActivePart
  BY <1>2 DEF ActivePart
<1>9. ExtraPart /\ StepPart
  <2>1. Depth \in Nat
    BY SchedulerAssumption DEF SchedulerAssumption
  <2> QED BY <1>1, <1>5, <2>1 DEF ExtraPart, StepPart, Steps, NoBatch
<1>10. CommittedPart
  <2>1. ReservedAll(active) = 0
    <3> DEFINE f == [id \in {} |-> Reserved(id)]
    <3>1. ReservedAll(active) = SumFunctionOnSet(f, {})
      BY <1>2 DEF ReservedAll, SumFunction, SumFunctionOnSet, FoldFunction
    <3> HIDE DEF f
    <3> QED BY <3>1, SumEmpty
  <2>2. Capacity \in Nat
    BY CacheAssumption, FS_CardinalityType DEF CacheAssumption, Capacity
  <2> QED BY <1>1, <2>1, <2>2 DEF CommittedPart
<1> QED BY <1>4, <1>7, <1>8, <1>9, <1>10 DEF SInv

\* The scheduler starts with the empty cache.
LEMMA CacheStarts == Init => Cache!Init /\ Proved!Init
<1> SUFFICES ASSUME Init PROVE Cache!Init /\ Proved!Init
  OBVIOUS
<1>1. client = <<>>
  BY DEF Init, client
<1>2. Range(batch.saves) = {}
  BY DEF Init, EmptyBatch, Range
<1>3. saving = <<>>
  BY <1>2 DEF saving
<1>4. Cache!CacheInit /\ Proved!CacheInit
  BY DEF Init, CacheInit, Cache!CacheInit, Proved!CacheInit
<1> QED BY <1>1, <1>3, <1>4 DEF Cache!Init, Proved!Init

\* The invariants of the cache manager hold of it.
LEMMA CacheStartsRight == Init => Proved!IInv /\ Proved!Sharing
BY CacheStarts, Proved!Initial, Proved!SharingInitial, CopiesAssumed

\* The invariants of the scheduler and of the cache hold in every state.
LEMMA SchedulerInvariance == Spec => [](SInv /\ Proved!IInv /\ Proved!Sharing)
<1> DEFINE Inv == SInv /\ Proved!IInv /\ Proved!Sharing
<1>1. Init => Inv
  BY SchedulerStarts, CacheStartsRight
<1>2. Inv /\ [Next]_vars => Inv'
  BY NextStep, CacheKept, SharingKept
<1> QED BY <1>1, <1>2, PTL DEF Spec

\* Whatever the scheduler plans, completes, aborts and cancels, and in whatever
\* order, it keeps the protocol of the cache manager: all that is proved of
\* CacheManager holds of the cache the scheduler uses.
THEOREM ImplementsCache == Spec => ImplementsCacheManager
<1>1. Init => Cache!Init
  BY CacheStarts
<1>2. SInv /\ Proved!IInv /\ Proved!Sharing /\ [Next]_vars => [Cache!Next]_(Cache!vars)
  BY NextStep DEF Maps
<1>3. Spec => Cache!Spec
  BY <1>1, <1>2, SchedulerInvariance, PTL DEF Spec, Cache!Spec
<1> QED BY <1>3 DEF ImplementsCacheManager

-----------------------------------------------------------------------------
(* The properties.                                                         *)

\* A queue without repetitions has each of its members once.
LEMMA InjectiveTimes ==
  ASSUME NEW q, IsInjective(q), NEW id
  PROVE  Times(id, q) = IF id \in Range(q) THEN 1 ELSE 0
<1> DEFINE P == {i \in DOMAIN q : q[i] = id}
<1>1. CASE id \in Range(q)
  <2>1. PICK k \in DOMAIN q : q[k] = id
    BY <1>1 DEF Range
  <2>2. P = {k}
    BY <2>1 DEF IsInjective
  <2>3. Cardinality({k}) = 1
    BY FS_Singleton
  <2> QED BY <1>1, <2>2, <2>3 DEF Times
<1>2. CASE id \notin Range(q)
  <2>1. P = {}
    BY <1>2 DEF Range
  <2>2. Cardinality({}) = 0
    BY FS_EmptySet
  <2> QED BY <1>2, <2>1, <2>2 DEF Times
<1> QED BY <1>1, <1>2

\* The queues and the batch partition the requests by their phases.
LEMMA PlacesRight == SInv => InOnePlace
<1> SUFFICES ASSUME SInv, NEW id \in Ids
             PROVE  LET at(phase) ==
                          IF id \in DOMAIN active /\ active[id].phase = phase THEN 1 ELSE 0
                    IN  /\ Times(id, waiting) <= IF id \in DOMAIN active THEN 0 ELSE 1
                        /\ Times(id, prefillReady) = at("PrefillReady")
                        /\ Times(id, decodeReady) = at("DecodeReady")
                        /\ Times(id, ChunkIds) = at("PrefillInFlight")
                        /\ Times(id, batch.decode) = at("DecodeInFlight")
  BY DEF InOnePlace
<1>1. /\ IsInjective(waiting) /\ Range(waiting) \cap DOMAIN active = {}
      /\ IsInjective(prefillReady) /\ Range(prefillReady) = WithPhase("PrefillReady")
      /\ IsInjective(decodeReady) /\ Range(decodeReady) = WithPhase("DecodeReady")
      /\ IsInjective(batch.decode) /\ Range(batch.decode) = WithPhase("DecodeInFlight")
      /\ IsInjective(ChunkIds) /\ Range(ChunkIds) = WithPhase("PrefillInFlight")
  BY DEF SInv, QueuePart, BatchPart
<1>2. Times(id, waiting) <= IF id \in DOMAIN active THEN 0 ELSE 1
  <2>1. Times(id, waiting) = IF id \in Range(waiting) THEN 1 ELSE 0
    BY <1>1, InjectiveTimes
  <2> QED BY <1>1, <2>1
<1>3. ASSUME NEW q, IsInjective(q), NEW phase, Range(q) = WithPhase(phase)
      PROVE  Times(id, q) = IF id \in DOMAIN active /\ active[id].phase = phase THEN 1 ELSE 0
  <2>1. Times(id, q) = IF id \in Range(q) THEN 1 ELSE 0
    BY <1>3, InjectiveTimes
  <2> QED BY <1>3, <2>1 DEF WithPhase
<1>4. Times(id, prefillReady) = IF id \in DOMAIN active
           /\ active[id].phase = "PrefillReady" THEN 1 ELSE 0
  BY <1>1, <1>3
<1>5. Times(id, decodeReady) = IF id \in DOMAIN active
           /\ active[id].phase = "DecodeReady" THEN 1 ELSE 0
  BY <1>1, <1>3
<1>6. Times(id, ChunkIds) = IF id \in DOMAIN active
           /\ active[id].phase = "PrefillInFlight" THEN 1 ELSE 0
  BY <1>1, <1>3
<1>7. Times(id, batch.decode) = IF id \in DOMAIN active
           /\ active[id].phase = "DecodeInFlight" THEN 1 ELSE 0
  BY <1>1, <1>3
<1> QED BY <1>2, <1>4, <1>5, <1>6, <1>7

\* The accounts agree with the cache in every state of the invariant.
LEMMA AccountsRight == SInv /\ Proved!IInv => AccountsExact
<1> SUFFICES ASSUME SInv, Proved!IInv PROVE AccountsExact
  OBVIOUS
<1>1. /\ DOMAIN seqs = DOMAIN active /\ IsFiniteSet(DOMAIN active) /\ DOMAIN active \subseteq Ids
      /\ Depth \in Nat /\ extra \in 0..Depth /\ extra \in Nat
  BY CacheFacts, SchedulerAssumption DEF SInv, ActivePart, ExtraPart, SchedulerAssumption
<1>2. committed = ReservedAll(active) /\ committed <= Capacity /\ committed \in 0..Capacity
  <2>1. ReservedAll(active) \in Nat
    <3> DEFINE f == [x \in DOMAIN active |-> Reserved(x)]
    <3>1. \A x \in DOMAIN active : f[x] \in Nat
      BY <1>1, ReservedNat
    <3>2. ReservedAll(active) = SumFunctionOnSet(f, DOMAIN active)
      BY DEF ReservedAll, SumFunction, SumFunctionOnSet, FoldFunction
    <3> HIDE DEF f
    <3> QED BY <1>1, <3>1, <3>2, SumNat
  <2>2. Capacity \in Nat
    BY CacheAssumption, FS_CardinalityType DEF CacheAssumption, Capacity
  <2>3. committed = ReservedAll(active) /\ committed <= Capacity
    BY DEF SInv, CommittedPart
  <2> QED BY <2>1, <2>2, <2>3
<1>3. CommittedExact
  BY <1>1, <1>2 DEF CommittedExact, ReservedAll
<1>4. ASSUME NEW id \in DOMAIN active
      PROVE  /\ active[id].prefilled \in 0..PromptLen(id)
             /\ active[id].generated \in 0..Request(id).maxNew
             /\ active[id].phase \in Phases
             /\ \A r \in active[id].restore :
                  r.snapshot \in Snapshots /\ r.copy \subseteq Pages \X Pages
  <2>1. /\ Known(id) /\ active[id] \in Record /\ active[id].prefilled \in Nat
        /\ active[id].generated \in Nat /\ PromptLen(id) \in Nat /\ Request(id).maxNew \in Nat
    BY RequestFacts DEF SInv
  <2>2. active[id].prefilled <= PromptLen(id) /\ active[id].generated < Request(id).maxNew
    BY <2>1 DEF Known
  <2>3. active[id].phase \in Phases /\ \A r \in active[id].restore : r \in RestoreOp
    BY <2>1 DEF Record
  <2>4. \A r \in RestoreOp : r.snapshot \in Snapshots /\ r.copy \subseteq Pages \X Pages
    BY DEF RestoreOp
  <2> QED BY <2>1, <2>2, <2>3, <2>4
<1>5. TypeOK
  <2>1. waiting \in Seq(Ids) /\ prefillReady \in Seq(Ids) /\ decodeReady \in Seq(Ids)
    BY DEF SInv, QueuePart
  <2>2. BatchType
    BY DEF SInv, BatchPart
  <2>3. batch.decode \in Seq(Ids) /\ ChunkIds \in Seq(Ids)
    BY <2>2, ChunkIdsAre, IdsOfChunks DEF BatchType
  <2>4. step \in Steps /\ left \in Nat
    BY DEF SInv, StepPart
  <2> QED BY <1>1, <1>2, <1>4, <2>1, <2>3, <2>4 DEF TypeOK
<1>6. TokensExact
  BY DEF SInv, ActivePart, Known, Counted, TokensExact
<1> QED BY <1>3, <1>5, <1>6 DEF AccountsExact

Progress ==
  \A id \in DOMAIN active \cap DOMAIN active' :
    /\ active[id].prefilled <= active'[id].prefilled
    /\ active[id].generated <= active'[id].generated

\* A step that changes one request undoes nothing if it does not undo that one's
\* work.
LEMMA ProgressOf ==
  ASSUME SInv, NEW id,
         \A j \in DOMAIN active \cap DOMAIN active' : j # id => active'[j] = active[j],
         id \in DOMAIN active \cap DOMAIN active' =>
           /\ active[id].prefilled <= active'[id].prefilled
           /\ active[id].generated <= active'[id].generated
  PROVE  Progress
<1>1. \A j \in DOMAIN active : active[j].prefilled \in Nat /\ active[j].generated \in Nat
  BY RequestFacts DEF SInv
<1> SUFFICES ASSUME NEW j \in DOMAIN active, j \in DOMAIN active'
             PROVE  /\ active[j].prefilled <= active'[j].prefilled
                    /\ active[j].generated <= active'[j].generated
  BY DEF Progress
<1>2. CASE j = id
  BY <1>2
<1>3. CASE j # id
  <2>1. active'[j] = active[j]
    BY <1>3
  <2> QED BY <1>1, <2>1
<1> QED BY <1>2, <1>3

\* No active request changes, or one that enters, leaves or changes its phase.
LEMMA ProgressSame ==
  ASSUME SInv, NEW id,
         \/ UNCHANGED active
         \/ active' = Without(active, {id})
         \/ id \notin DOMAIN active /\ \E r : active' = With(active, id, r)
         \/ \E phase : active' = [active EXCEPT ![id].phase = phase]
         \/ \E restore : active' = [active EXCEPT ![id].restore = restore]
  PROVE  Progress
<1>0. ASSUME NEW j \in DOMAIN active
      PROVE  /\ active[j] \in Record
             /\ active[j].prefilled \in Nat /\ active[j].generated \in Nat
             /\ active[j].prefilled <= active[j].prefilled
             /\ active[j].generated <= active[j].generated
  <2>1. active[j] \in Record /\ active[j].prefilled \in Nat /\ active[j].generated \in Nat
    BY RequestFacts DEF SInv
  <2> QED BY <2>1
<1>1. CASE UNCHANGED active
  BY <1>0, <1>1 DEF Progress
<1>2. CASE active' = Without(active, {id})
  BY <1>0, <1>2 DEF Progress, Without
<1>3. CASE id \notin DOMAIN active /\ \E r : active' = With(active, id, r)
  BY <1>0, <1>3 DEF Progress, With
<1>4. ASSUME NEW phase, active' = [active EXCEPT ![id].phase = phase] PROVE Progress
  <2>1. /\ DOMAIN active' = DOMAIN active
        /\ \A j \in DOMAIN active : j # id => active'[j] = active[j]
        /\ id \in DOMAIN active => active'[id] = [active[id] EXCEPT !.phase = phase]
    BY <1>4
  <2>2. id \in DOMAIN active => /\ active'[id].prefilled = active[id].prefilled
                                /\ active'[id].generated = active[id].generated
    BY <1>0, <2>1 DEF Record
  <2>3. id \in DOMAIN active \cap DOMAIN active' =>
          /\ active[id].prefilled <= active'[id].prefilled
          /\ active[id].generated <= active'[id].generated
    BY <1>0, <2>2
  <2> QED BY <2>1, <2>3, ProgressOf
<1>5. ASSUME NEW restore, active' = [active EXCEPT ![id].restore = restore] PROVE Progress
  <2>1. /\ DOMAIN active' = DOMAIN active
        /\ \A j \in DOMAIN active : j # id => active'[j] = active[j]
        /\ id \in DOMAIN active => active'[id] = [active[id] EXCEPT !.restore = restore]
    BY <1>5
  <2>2. id \in DOMAIN active => /\ active'[id].prefilled = active[id].prefilled
                                /\ active'[id].generated = active[id].generated
    BY <1>0, <2>1 DEF Record
  <2>3. id \in DOMAIN active \cap DOMAIN active' =>
          /\ active[id].prefilled <= active'[id].prefilled
          /\ active[id].generated <= active'[id].generated
    BY <1>0, <2>2
  <2> QED BY <2>1, <2>3, ProgressOf
<1> QED BY <1>1, <1>2, <1>3, <1>4, <1>5

\* complete_batch_multi only adds to what is prefilled.
LEMMA ChunkProgress == ASSUME SInv, CompleteChunk PROVE Progress
<1>0. PICK chunk : chunk = Head(batch.prefill)
  OBVIOUS
<1>1. PICK id : id = chunk.id
  OBVIOUS
<1>2. chunk.tokens \in Nat
  <2>1. batch.prefill \in Seq(Chunk) /\ batch.prefill # <<>>
    BY DEF SInv, BatchPart, BatchType, CompleteChunk
  <2>2. chunk \in Chunk
    BY <1>0, <2>1, HeadTailProperties
  <2> QED BY <2>2 DEF Chunk
<1>3. PICK p : active' = [active EXCEPT ![id].prefilled = active[id].prefilled + chunk.tokens,
                                       ![id].phase = p]
  BY <1>0, <1>1 DEF CompleteChunk
<1> DEFINE k == active[id].prefilled + chunk.tokens
<1>4. /\ DOMAIN active' = DOMAIN active
      /\ \A j \in DOMAIN active : j # id => active'[j] = active[j]
      /\ id \in DOMAIN active => active'[id] = [active[id] EXCEPT !.prefilled = k, !.phase = p]
  BY <1>3
<1>5. ASSUME id \in DOMAIN active
      PROVE  /\ active[id].prefilled <= active'[id].prefilled
             /\ active[id].generated <= active'[id].generated
  <2>1. active[id] \in Record /\ active[id].prefilled \in Nat /\ active[id].generated \in Nat
    BY <1>5, RequestFacts DEF SInv
  <2>2. active[id].prefilled <= k /\ active[id].generated <= active[id].generated
    BY <1>2, <2>1
  <2> HIDE DEF k
  <2>3. active'[id].prefilled = k /\ active'[id].generated = active[id].generated
    BY <1>4, <1>5, <2>1 DEF Record
  <2> QED BY <2>2, <2>3
<1> QED BY <1>4, <1>5, ProgressOf

\* complete_batch_multi only adds to what is generated.
LEMMA DecodeProgress == ASSUME SInv, CompleteDecode PROVE Progress
<1>0. PICK id : id = Head(batch.decode)
  OBVIOUS
<1>1. CASE active' = Without(active, {id})
  BY <1>1, ProgressSame
<1>2. CASE active' = [active EXCEPT ![id].generated = Generated(id), ![id].phase = "DecodeReady"]
  <2> DEFINE g == Generated(id)
  <2>1. /\ DOMAIN active' = DOMAIN active
        /\ \A j \in DOMAIN active : j # id => active'[j] = active[j]
        /\ id \in DOMAIN active =>
             active'[id] = [active[id] EXCEPT !.generated = g, !.phase = "DecodeReady"]
    BY <1>2
  <2>2. ASSUME id \in DOMAIN active
        PROVE  /\ active[id].prefilled <= active'[id].prefilled
               /\ active[id].generated <= active'[id].generated
    <3>1. /\ active[id] \in Record /\ active[id].prefilled \in Nat /\ active[id].generated \in Nat
          /\ Request(id).maxNew \in Nat /\ active[id].generated < Request(id).maxNew
      BY <2>2, RequestFacts DEF SInv, Known
    <3>2. extra \in Nat
      BY SchedulerAssumption DEF SInv, ExtraPart, SchedulerAssumption
    <3> DEFINE a == active[id].generated + 1 + extra
               b == Request(id).maxNew
    <3>3. a \in Int /\ b \in Int /\ active[id].generated <= a /\ active[id].generated <= b
      BY <3>1, <3>2
    <3>4. active[id].generated <= g
      <4>1. g = Min({a, b})
        BY DEF Generated
      <4> HIDE DEF a, b, g
      <4>2. Min({a, b}) \in {a, b}
        BY <3>3, MinOfTwo, Zenon
      <4> QED BY <3>3, <4>1, <4>2
    <3> HIDE DEF g
    <3>5. active'[id].prefilled = active[id].prefilled /\ active'[id].generated = g
      BY <2>1, <2>2, <3>1 DEF Record
    <3> QED BY <3>1, <3>4, <3>5
  <2> HIDE DEF g
  <2> QED BY <2>1, <2>2, ProgressOf
<1> QED BY <1>0, <1>1, <1>2 DEF CompleteDecode, Deactivate

\* abort_batch takes no work back.
LEMMA AbortProgress == ASSUME SInv, AbortChunks PROVE Progress
<1> DEFINE S == Range(ChunkIds)
<1>1. active' = [j \in DOMAIN active |->
                   IF j \in S THEN [active[j] EXCEPT !.phase = "PrefillReady"] ELSE active[j]]
  BY DEF AbortChunks
<1> HIDE DEF S
<1>2. ASSUME NEW j \in DOMAIN active, j \in DOMAIN active'
      PROVE  /\ active[j].prefilled <= active'[j].prefilled
             /\ active[j].generated <= active'[j].generated
  <2>1. active[j] \in Record /\ active[j].prefilled \in Nat /\ active[j].generated \in Nat
    BY RequestFacts DEF SInv
  <2>2. active'[j] = active[j] \/ active'[j] = [active[j] EXCEPT !.phase = "PrefillReady"]
    BY <1>1
  <2>3. active'[j].prefilled = active[j].prefilled /\ active'[j].generated = active[j].generated
    BY <2>1, <2>2 DEF Record
  <2> QED BY <2>1, <2>3
<1> QED BY <1>2 DEF Progress

\* No step does.
LEMMA ProgressStep == ASSUME SInv, [Next]_vars PROVE Progress
<1>1. CASE \/ BeginBatch \/ DecodePlanned \/ BeginAdmission \/ EndAdmission \/ EndBatch
           \/ BeginComplete \/ BeginAbort \/ PassOver \/ ReserveExtra \/ ReleaseExtra
           \/ CompleteSave \/ AbortSave \/ UNCHANGED vars
  <2>1. UNCHANGED active
    BY <1>1 DEF BeginBatch, DecodePlanned, BeginAdmission, EndAdmission, EndBatch, BeginComplete,
                BeginAbort, PassOver, Rotate, ReserveExtra, ReleaseExtra, CompleteSave,
                     AbortSave, vars
  <2> QED BY <2>1, ProgressSame
<1>2. CASE PlanDecode
  <2>1. UNCHANGED active \/ active' = [active EXCEPT ![Head(decodeReady)].phase = "DecodeInFlight"]
    BY <1>2 DEF PlanDecode
  <2> QED BY <2>1, ProgressSame
<1>3. CASE PlanChunk
  <2>1. active' = [active EXCEPT ![Head(prefillReady)].phase = "PrefillInFlight"]
    BY <1>3, Zenon DEF PlanChunk
  <2> QED BY <2>1, ProgressSame, Zenon
<1>4. CASE AdmitMiss \/ AdmitMatch
  <2>1. PICK id : id = Head(waiting)
    OBVIOUS
  <2>2. \E r : active' = With(active, id, r)
    BY <1>4, <2>1 DEF AdmitMiss, AdmitMatch, Activate
  <2>3. id \notin DOMAIN active
    <3>1. /\ waiting \in Seq(Ids) /\ left \in Nat /\ left <= Len(waiting) /\ left > 0
          /\ IsInjective(waiting) /\ Range(waiting) \cap DOMAIN active = {}
      BY <1>4 DEF SInv, QueuePart, StepPart, AdmitMiss, AdmitMatch
    <3>2. waiting # <<>>
      BY <3>1
    <3>3. id \in Range(waiting)
      BY <2>1, <3>1, <3>2, QueueTail
    <3> QED BY <3>1, <3>3
  <2> QED BY <2>2, <2>3, ProgressSame
<1>5. CASE CompleteRestore
  <2>1. active' = [active EXCEPT ![Head(batch.restores).id].restore = {}]
    BY <1>5 DEF CompleteRestore
  <2> QED BY <2>1, ProgressSame
<1>6. CASE AbortDecode
  <2>1. active' = [active EXCEPT ![Last(batch.decode)].phase = "DecodeReady"]
    BY <1>6 DEF AbortDecode
  <2> QED BY <2>1, ProgressSame
<1>7. ASSUME NEW id \in Ids, Submit(id) \/ CancelWaiting(id) \/ CancelActive(id) PROVE Progress
  <2>1. UNCHANGED active \/ active' = Without(active, {id})
    BY <1>7 DEF Submit, CancelWaiting, CancelActive, Deactivate
  <2> QED BY <2>1, ProgressSame
<1> QED BY <1>1, <1>2, <1>3, <1>4, <1>5, <1>6, <1>7, ChunkProgress, DecodeProgress, AbortProgress
        DEF Next, Advance

\* committed_kv_blocks is the sum of the reservations of the active requests,
\* never more than the pool, and the cache has exactly the tokens of every
\* request, for all prompts, limits, pools and orders of batches, aborts and
\* cancellations.
THEOREM Accounts == Spec => []AccountsExact
<1>1. SInv /\ Proved!IInv /\ Proved!Sharing => AccountsExact
  BY AccountsRight
<1> QED BY <1>1, SchedulerInvariance, PTL

\* A request waits once, or is in the one queue or the one part of the batch its
\* phase names: no order of aborts, cancellations and rotations loses one or
\* plans it twice.
THEOREM OnePlace == Spec => []InOnePlace
<1>1. SInv /\ Proved!IInv /\ Proved!Sharing => InOnePlace
  BY PlacesRight
<1> QED BY <1>1, SchedulerInvariance, PTL

\* No step takes back what a request has prefilled or generated.
THEOREM NothingUndone == Spec => ProgressKept
<1>1. SInv /\ Proved!IInv /\ Proved!Sharing /\ [Next]_vars => [Progress]_vars
  BY ProgressStep
<1>2. Spec => [][Progress]_vars
  BY <1>1, SchedulerInvariance, PTL DEF Spec
<1> QED BY <1>2 DEF ProgressKept, Progress

=============================================================================
