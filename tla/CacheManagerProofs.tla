------------------------- MODULE CacheManagerProofs -------------------------
(***************************************************************************)
(* Theorems about CacheManager for any pool, page size, prompts and        *)
(* callers.  A page is owned by the sequences and the entries whose tables *)
(* hold it; the first lemmas follow the reference counts through eviction, *)
(* acquisition, sharing and release.                                       *)
(*                                                                         *)
(* The inductive invariant IInv is the conjunction of the checked          *)
(* invariants TypeOK, TablesCover, RefsExact, SlotsExact, SnapshotsExact   *)
(* and PinsExact, arranged by the state they constrain, and of the         *)
(* finiteness of the set of sequences, without which their number would    *)
(* mean nothing.  None of them is inductive alone: the counts need the     *)
(* tables to be free of repetitions, the pins keep eviction away from an   *)
(* entry that is still to be restored, and the snapshot slots must be told *)
(* apart for a commit to add a new entry.                                  *)
(***************************************************************************)
EXTENDS CacheManager, DataLemmas

-----------------------------------------------------------------------------
(* What the steps of the cache manager do to the reference counts.         *)

\* KvPool::blocks_for: more tokens never need fewer pages, and the pages they
\* fill (the ones admit_prompt shares) are among the pages they need.
LEMMA BlocksForFacts ==
  /\ \A n \in Nat : BlocksFor(n) \in Nat
  /\ \A m, n \in Nat : m <= n => BlocksFor(m) <= BlocksFor(n)
  /\ \A n \in Nat : n \div BlockSize \in Nat /\ n \div BlockSize <= BlocksFor(n)
<1>1. BlockSize \in Nat \ {0}
  BY CacheAssumption
<1>2. \A n \in Nat : n + BlockSize - 1 \in Nat /\ n <= n + BlockSize - 1
  BY <1>1
<1>3. \A m, n \in Nat : m <= n => m + BlockSize - 1 <= n + BlockSize - 1
  BY <1>1
<1> QED BY <1>1, <1>2, <1>3, QuotientType, QuotientMonotonic DEF BlocksFor

\* KvPool::acquire(n), with at least n pages free, returns n different free pages.
LEMMA TableTaken ==
  ASSUME NEW n \in Nat, NEW S \in SUBSET Pages, n <= Cardinality(S),
         NEW fresh \in Tables(n, S)
  PROVE  /\ fresh \in Seq(Pages) /\ Len(fresh) = n
         /\ IsInjective(fresh) /\ Range(fresh) \subseteq S
<1>1. IsFiniteSet(Pages)
  BY CacheAssumption
<1>2. Cardinality(S) <= Cardinality(Pages) /\ Cardinality(S) \in Nat /\ Cardinality(Pages) \in Nat
  BY <1>1, FS_Subset, FS_CardinalityType
<1>3. n \in 0..Cardinality(Pages)
  BY <1>2
<1>4. fresh \in Injection(1..n, S)
  BY <1>3, TablesAssumption
<1>5. fresh \in Seq(S) /\ Len(fresh) = n /\ IsInjective(fresh) /\ Range(fresh) \subseteq S
  BY <1>4, TableIsSeq
<1> QED BY <1>5, SeqMonotonic

\* The count of a page is the number of sequences, of entries that stay and of
\* entries that are evicted that hold it; all three are finite.
LEMMA HolderCounts ==
  ASSUME TypeOK, IsFiniteSet(DOMAIN seqs), RefsExact,
         NEW V \in SUBSET DOMAIN entries, NEW b \in Pages
  PROVE  /\ IsFiniteSet(SeqHolders(b)) /\ Cardinality(SeqHolders(b)) \in Nat
         /\ IsFiniteSet(EntryHolders(V, b)) /\ Cardinality(EntryHolders(V, b)) \in Nat
         /\ IsFiniteSet(EntryHolders(DOMAIN entries \ V, b))
         /\ Cardinality(EntryHolders(DOMAIN entries \ V, b)) \in Nat
         /\ refs[b] \in Nat
         /\ refs[b] = Cardinality(SeqHolders(b))
                      + Cardinality(EntryHolders(DOMAIN entries \ V, b))
                      + Cardinality(EntryHolders(V, b))
<1> DEFINE D == EntryHolders(DOMAIN entries, b)
           T == EntryHolders(V, b)
<1>1. IsFiniteSet(DOMAIN entries)
  BY CacheAssumption, FS_Subset DEF TypeOK
<1>2. /\ D \subseteq DOMAIN entries /\ T \subseteq D
      /\ D \ T = EntryHolders(DOMAIN entries \ V, b)
  BY DEF EntryHolders
<1>3. IsFiniteSet(D)
  BY <1>1, <1>2, FS_Subset
<1>4. /\ IsFiniteSet(T) /\ IsFiniteSet(D \ T)
      /\ Cardinality(T) \in Nat /\ Cardinality(D \ T) \in Nat
      /\ Cardinality(D) = Cardinality(D \ T) + Cardinality(T)
  BY <1>2, <1>3, SplitCount
<1>5. SeqHolders(b) \subseteq DOMAIN seqs
  BY DEF SeqHolders
<1>6. IsFiniteSet(SeqHolders(b)) /\ Cardinality(SeqHolders(b)) \in Nat
  BY <1>5, FS_Subset, FS_CardinalityType
<1>7. refs[b] = Cardinality(SeqHolders(b)) + Cardinality(D) /\ refs[b] \in Nat
  BY DEF RefsExact, TypeOK
<1>8. refs[b] = Cardinality(SeqHolders(b)) + Cardinality(D \ T) + Cardinality(T)
  BY <1>4, <1>6, <1>7
<1> QED BY <1>2, <1>4, <1>6, <1>7, <1>8

\* A page is free, or becomes free by the eviction of V, exactly when no
\* sequence and no other entry holds it: evict_one frees nothing still in use.
LEMMA FreeOrFreed ==
  ASSUME TypeOK, IsFiniteSet(DOMAIN seqs), RefsExact,
         NEW V \in SUBSET DOMAIN entries, NEW b \in Pages
  PROVE  b \in freePages \cup Freed(V)
           <=> SeqHolders(b) = {} /\ EntryHolders(DOMAIN entries \ V, b) = {}
<1> DEFINE s == Cardinality(SeqHolders(b))
           k == Cardinality(EntryHolders(DOMAIN entries \ V, b))
           g == Cardinality(EntryHolders(V, b))
<1>1. s \in Nat /\ k \in Nat /\ g \in Nat /\ refs[b] \in Nat /\ refs[b] = s + k + g
  BY HolderCounts
<1>2. /\ s = 0 <=> SeqHolders(b) = {}
      /\ k = 0 <=> EntryHolders(DOMAIN entries \ V, b) = {}
  BY HolderCounts, FS_EmptySet
<1>3. b \in freePages <=> refs[b] = 0
  BY DEF RefsExact
<1>4. b \in Freed(V) <=> refs[b] > 0 /\ refs[b] = g
  BY DEF Freed
<1>5. (refs[b] = 0 \/ (refs[b] > 0 /\ refs[b] = g)) <=> s = 0 /\ k = 0
  BY <1>1
<1> QED BY <1>2, <1>3, <1>4, <1>5

\* Eviction frees pages of the pool.
LEMMA FreedPages == ASSUME NEW V PROVE Freed(V) \subseteq Pages
BY DEF Freed

\* evict_one takes unpinned entries only, and never the one the admission holds.
LEMMA Candidates ==
  ASSUME NEW held, NEW V \in SUBSET PageCandidates(held)
  PROVE  /\ V \subseteq DOMAIN entries
         /\ \A s \in V : entries[s].pins = 0 /\ s \notin held
BY DEF PageCandidates, Unpinned

\* acquire_blocks that succeeds: the fresh pages were held by nobody who stays,
\* every page is counted for its remaining owners, the caller's share included.
LEMMA AcquiredPages ==
  ASSUME TypeOK, IsFiniteSet(DOMAIN seqs), RefsExact, NEW n \in Nat, NEW held,
         NEW V \in SUBSET DOMAIN entries, NEW fresh, NEW shared,
         AcquireBlocks(n, held, V, fresh, shared)
  PROVE  /\ fresh \in Seq(Pages) /\ Len(fresh) = n /\ IsInjective(fresh)
         /\ \A b \in Range(fresh) :
              /\ b \in Pages
              /\ SeqHolders(b) = {} /\ EntryHolders(DOMAIN entries \ V, b) = {}
         /\ refs' \in [Pages -> Nat]
         /\ freePages' \subseteq Pages
         /\ \A b \in Range(fresh) : refs'[b] = 1 /\ b \notin freePages'
         /\ \A b \in Pages \ Range(fresh) :
              /\ b \in shared =>
                   refs'[b] = Cardinality(SeqHolders(b))
                              + Cardinality(EntryHolders(DOMAIN entries \ V, b)) + 1
              /\ b \notin shared =>
                   refs'[b] = Cardinality(SeqHolders(b))
                              + Cardinality(EntryHolders(DOMAIN entries \ V, b))
              /\ b \in freePages' <=>
                   SeqHolders(b) = {} /\ EntryHolders(DOMAIN entries \ V, b) = {}
<1> DEFINE F == freePages \cup Freed(V)
<1>1. /\ n <= Cardinality(F) /\ fresh \in Tables(n, F)
      /\ refs' = RefsAfter(V, Range(fresh), shared)
      /\ freePages' = F \ Range(fresh)
  BY DEF AcquireBlocks
<1>2. F \subseteq Pages
  BY FreedPages DEF TypeOK
<1>3. /\ fresh \in Seq(Pages) /\ Len(fresh) = n
      /\ IsInjective(fresh) /\ Range(fresh) \subseteq F
  BY <1>1, <1>2, TableTaken
<1>4. \A b \in Pages : b \in F <=>
        SeqHolders(b) = {} /\ EntryHolders(DOMAIN entries \ V, b) = {}
  BY FreeOrFreed
<1>5. \A b \in Range(fresh) : refs'[b] = 1 /\ b \notin freePages' /\ b \in Pages
  BY <1>1, <1>2, <1>3 DEF RefsAfter
<1>6. ASSUME NEW b \in Pages \ Range(fresh)
      PROVE  /\ refs'[b] \in Nat
             /\ b \in shared =>
                  refs'[b] = Cardinality(SeqHolders(b))
                             + Cardinality(EntryHolders(DOMAIN entries \ V, b)) + 1
             /\ b \notin shared =>
                  refs'[b] = Cardinality(SeqHolders(b))
                             + Cardinality(EntryHolders(DOMAIN entries \ V, b))
  <2> DEFINE s == Cardinality(SeqHolders(b))
             k == Cardinality(EntryHolders(DOMAIN entries \ V, b))
             g == Cardinality(EntryHolders(V, b))
             one == IF b \in shared THEN 1 ELSE 0
  <2>1. s \in Nat /\ k \in Nat /\ g \in Nat /\ refs[b] \in Nat /\ refs[b] = s + k + g
    BY HolderCounts
  <2>2. refs'[b] = refs[b] - g + one
    BY <1>1 DEF RefsAfter
  <2>3. one \in Nat /\ (b \in shared => one = 1) /\ (b \notin shared => one = 0)
    OBVIOUS
  <2> HIDE DEF one, s, k, g
  <2>4. refs'[b] = s + k + one /\ refs'[b] \in Nat
    BY <2>1, <2>2, <2>3
  <2>5. /\ b \in shared => refs'[b] = s + k + 1
        /\ b \notin shared => refs'[b] = s + k
    BY <2>1, <2>3, <2>4
  <2> QED BY <2>4, <2>5 DEF s, k
<1>7. refs' \in [Pages -> Nat]
  <2>1. DOMAIN refs' = Pages /\ refs' = [b \in Pages |-> refs'[b]]
    BY <1>1 DEF RefsAfter
  <2>2. \A b \in Pages : refs'[b] \in Nat
    BY <1>5, <1>6
  <2> QED BY <2>1, <2>2
<1>8. \A b \in Pages \ Range(fresh) : b \in freePages' <=> b \in F
  BY <1>1
<1>9. freePages' \subseteq Pages
  BY <1>1, <1>2
<1> HIDE DEF F
<1> QED BY <1>3, <1>4, <1>5, <1>6, <1>7, <1>8, <1>9

\* refs and freePages after acquire_blocks came short.
LEMMA EvictedPages ==
  ASSUME TypeOK, IsFiniteSet(DOMAIN seqs), RefsExact, NEW n, NEW held,
         AcquireRefused(n, held)
  PROVE  LET V == PageCandidates(held)
         IN  /\ refs' \in [Pages -> Nat]
             /\ freePages' \subseteq Pages
             /\ \A b \in Pages :
                  /\ refs'[b] = Cardinality(SeqHolders(b))
                                + Cardinality(EntryHolders(DOMAIN entries \ V, b))
                  /\ b \in freePages' <=>
                       SeqHolders(b) = {} /\ EntryHolders(DOMAIN entries \ V, b) = {}
<1> DEFINE V == PageCandidates(held)
<1>1. /\ refs' = RefsAfter(V, {}, {})
      /\ freePages' = freePages \cup Freed(V)
  BY DEF AcquireRefused
<1>2. V \in SUBSET DOMAIN entries
  BY Candidates
<1>3. freePages' \subseteq Pages
  BY <1>1, FreedPages DEF TypeOK
<1>4. \A b \in Pages : b \in freePages' <=>
        SeqHolders(b) = {} /\ EntryHolders(DOMAIN entries \ V, b) = {}
  BY <1>1, <1>2, FreeOrFreed
<1>5. ASSUME NEW b \in Pages
      PROVE  /\ refs'[b] \in Nat
             /\ refs'[b] = Cardinality(SeqHolders(b))
                           + Cardinality(EntryHolders(DOMAIN entries \ V, b))
  <2> DEFINE s == Cardinality(SeqHolders(b))
             k == Cardinality(EntryHolders(DOMAIN entries \ V, b))
             g == Cardinality(EntryHolders(V, b))
  <2>1. s \in Nat /\ k \in Nat /\ g \in Nat /\ refs[b] \in Nat /\ refs[b] = s + k + g
    BY <1>2, HolderCounts
  <2>2. refs'[b] = refs[b] - g + 0
    BY <1>1 DEF RefsAfter
  <2> HIDE DEF s, k, g
  <2>3. refs'[b] = s + k /\ refs'[b] \in Nat
    BY <2>1, <2>2
  <2> QED BY <2>3 DEF s, k
<1>6. refs' \in [Pages -> Nat]
  <2>1. DOMAIN refs' = Pages /\ refs' = [b \in Pages |-> refs'[b]]
    BY <1>1 DEF RefsAfter
  <2> QED BY <2>1, <1>5
<1> QED BY <1>3, <1>4, <1>5, <1>6

-----------------------------------------------------------------------------

\* Pages that stay with an entry outside V, and that id does not hold.
Sharable(shared, V, id) ==
  \A b \in shared : EntryHolders(DOMAIN entries \ V, b) # {} /\ id \notin SeqHolders(b)

\* id comes to hold the pages of P, the entries of V are gone.
Joined(P, V, id) ==
  \A b \in Pages :
    /\ EntryHolders(DOMAIN entries, b)' = EntryHolders(DOMAIN entries \ V, b)
    /\ b \in P => SeqHolders(b)' = SeqHolders(b) \cup {id}
    /\ b \notin P => SeqHolders(b)' = SeqHolders(b)

\* A sequence gets the fresh pages and a share of other pages.
LEMMA TableAdded ==
  ASSUME TypeOK, IsFiniteSet(DOMAIN seqs), RefsExact, NEW n \in Nat, NEW held,
         NEW V \in SUBSET DOMAIN entries, NEW fresh, NEW shared \in SUBSET Pages,
         AcquireBlocks(n, held, V, fresh, shared), NEW id,
         Sharable(shared, V, id), Joined(Range(fresh) \cup shared, V, id)
  PROVE  RefsExact'
<1> SUFFICES ASSUME NEW b \in Pages
             PROVE  /\ refs'[b] = Cardinality(SeqHolders(b)')
                                  + Cardinality(EntryHolders(DOMAIN entries, b)')
                    /\ b \in freePages' <=> refs'[b] = 0
  BY DEF RefsExact
<1> DEFINE S == SeqHolders(b)
           K == EntryHolders(DOMAIN entries \ V, b)
<1>1. /\ IsFiniteSet(S) /\ Cardinality(S) \in Nat
      /\ IsFiniteSet(K) /\ Cardinality(K) \in Nat
  BY HolderCounts
<1>2. Cardinality(S) = 0 <=> S = {}
  BY <1>1, FS_EmptySet
<1>3. Cardinality(K) = 0 <=> K = {}
  BY <1>1, FS_EmptySet
<1>4. id \notin S => Cardinality(S \cup {id}) = Cardinality(S) + 1
  BY <1>1, FS_AddElement
<1>5. /\ b \in Range(fresh) => S = {} /\ K = {} /\ refs'[b] = 1 /\ b \notin freePages'
      /\ b \notin Range(fresh) =>
           /\ b \in shared => refs'[b] = Cardinality(S) + Cardinality(K) + 1
           /\ b \notin shared => refs'[b] = Cardinality(S) + Cardinality(K)
           /\ b \in freePages' <=> S = {} /\ K = {}
  <2>1. /\ \A c \in Range(fresh) :
             /\ SeqHolders(c) = {} /\ EntryHolders(DOMAIN entries \ V, c) = {}
        /\ \A c \in Range(fresh) : refs'[c] = 1 /\ c \notin freePages'
        /\ \A c \in Pages \ Range(fresh) :
             /\ c \in shared =>
                  refs'[c] = Cardinality(SeqHolders(c))
                             + Cardinality(EntryHolders(DOMAIN entries \ V, c)) + 1
             /\ c \notin shared =>
                  refs'[c] = Cardinality(SeqHolders(c))
                             + Cardinality(EntryHolders(DOMAIN entries \ V, c))
             /\ c \in freePages' <=>
                  SeqHolders(c) = {} /\ EntryHolders(DOMAIN entries \ V, c) = {}
    BY AcquiredPages, Zenon
  <2> QED BY <2>1, Zenon
<1>6. /\ b \in shared => K # {} /\ id \notin S
      /\ EntryHolders(DOMAIN entries, b)' = K
      /\ (b \in Range(fresh) \/ b \in shared) => SeqHolders(b)' = S \cup {id}
      /\ (b \notin Range(fresh) /\ b \notin shared) => SeqHolders(b)' = S
  <2>1. b \in shared => K # {} /\ id \notin S
    BY DEF Sharable
  <2>2. EntryHolders(DOMAIN entries, b)' = K
    BY DEF Joined
  <2>3. (b \in Range(fresh) \/ b \in shared) => SeqHolders(b)' = S \cup {id}
    BY DEF Joined
  <2>4. (b \notin Range(fresh) /\ b \notin shared) => SeqHolders(b)' = S
    BY DEF Joined
  <2> QED BY <2>1, <2>2, <2>3, <2>4
<1> HIDE DEF S, K
<1>7. CASE b \in Range(fresh)
  <2>1. Cardinality(S \cup {id}) = 1 /\ Cardinality(K) = 0
    BY <1>2, <1>3, <1>4, <1>5, <1>7
  <2>2. SeqHolders(b)' = S \cup {id} /\ EntryHolders(DOMAIN entries, b)' = K
    BY <1>6, <1>7
  <2>3. refs'[b] = 1 /\ b \notin freePages'
    BY <1>5, <1>7
  <2> QED BY <2>1, <2>2, <2>3
<1>8. CASE b \in shared /\ b \notin Range(fresh)
  <2>1. refs'[b] = Cardinality(S) + 1 + Cardinality(K) /\ b \notin freePages'
    BY <1>1, <1>5, <1>6, <1>8
  <2>2. refs'[b] = Cardinality(S \cup {id}) + Cardinality(K)
    BY <2>1, <1>4, <1>6, <1>8
  <2>3. refs'[b] # 0
    BY <2>1, <1>1
  <2> QED BY <2>1, <2>2, <2>3, <1>6, <1>8
<1>9. CASE b \notin Range(fresh) /\ b \notin shared
  BY <1>1, <1>2, <1>3, <1>5, <1>6, <1>9
<1> QED BY <1>7, <1>8, <1>9

\* One owner of each page of P leaves.
LEMMA PagesReleased ==
  ASSUME TypeOK, IsFiniteSet(DOMAIN seqs), RefsExact, NEW P \in SUBSET Pages,
         ReleasePages(P),
         \A b \in Pages \ P : /\ SeqHolders(b)' = SeqHolders(b)
                              /\ EntryHolders(DOMAIN entries, b)' = EntryHolders(DOMAIN entries, b),
         \A b \in P :
           \/ /\ EntryHolders(DOMAIN entries, b)' = EntryHolders(DOMAIN entries, b)
              /\ \E x \in SeqHolders(b) : SeqHolders(b)' = SeqHolders(b) \ {x}
           \/ /\ SeqHolders(b)' = SeqHolders(b)
              /\ \E x \in EntryHolders(DOMAIN entries, b) :
                   EntryHolders(DOMAIN entries, b)' = EntryHolders(DOMAIN entries, b) \ {x}
  PROVE  /\ RefsExact'
         /\ refs' \in [Pages -> Nat]
         /\ freePages' \subseteq Pages
<1>1. /\ refs' = [b \in Pages |-> IF b \in P THEN refs[b] - 1 ELSE refs[b]]
      /\ freePages' = freePages \cup {b \in P : refs[b] = 1}
  BY DEF ReleasePages
<1>2. ASSUME NEW b \in Pages
      PROVE  /\ refs'[b] \in Nat
             /\ refs'[b] = Cardinality(SeqHolders(b)')
                           + Cardinality(EntryHolders(DOMAIN entries, b)')
             /\ b \in freePages' <=> refs'[b] = 0
  <2> DEFINE s == Cardinality(SeqHolders(b))
             k == Cardinality(EntryHolders(DOMAIN entries, b))
             s2 == Cardinality(SeqHolders(b)')
             k2 == Cardinality(EntryHolders(DOMAIN entries, b)')
  <2>1. /\ IsFiniteSet(SeqHolders(b)) /\ s \in Nat
        /\ IsFiniteSet(EntryHolders(DOMAIN entries, b)) /\ k \in Nat
    <3>1. DOMAIN entries \ {} = DOMAIN entries /\ {} \in SUBSET DOMAIN entries
      OBVIOUS
    <3> QED BY <3>1, HolderCounts
  <2>2. refs[b] = s + k /\ (b \in freePages <=> refs[b] = 0)
    BY DEF RefsExact
  <2>3. b \notin P => s2 = s /\ k2 = k
    OBVIOUS
  <2>4. b \in P => s2 \in Nat /\ k2 \in Nat /\ ((s = s2 + 1 /\ k = k2) \/ (s = s2 /\ k = k2 + 1))
    <3>1. CASE b \in P /\ s2 = s /\ \E x \in EntryHolders(DOMAIN entries, b) :
                 EntryHolders(DOMAIN entries, b)' = EntryHolders(DOMAIN entries, b) \ {x}
      BY <2>1, <3>1, OneLess
    <3>2. CASE b \in P /\ k2 = k /\ \E x \in SeqHolders(b) :
                 SeqHolders(b)' = SeqHolders(b) \ {x}
      BY <2>1, <3>2, OneLess
    <3> QED BY <3>1, <3>2
  <2>5. b \notin P => refs'[b] = refs[b] /\ (b \in freePages' <=> b \in freePages)
    BY <1>1
  <2>6. b \in P => refs'[b] = refs[b] - 1 /\ (b \in freePages' <=> b \in freePages \/ refs[b] = 1)
    BY <1>1
  <2> HIDE DEF s, k, s2, k2
  <2>7. CASE b \notin P
    BY <2>1, <2>2, <2>3, <2>5, <2>7 DEF s2, k2
  <2>8. CASE b \in P
    <3>1. refs[b] = s2 + k2 + 1
      BY <2>1, <2>2, <2>4, <2>8
    <3>2. refs'[b] = s2 + k2 /\ refs'[b] \in Nat
      BY <2>4, <2>6, <2>8, <3>1
    <3>3. b \in freePages' <=> refs'[b] = 0
      BY <2>2, <2>4, <2>6, <2>8, <3>1, <3>2
    <3> QED BY <3>2, <3>3 DEF s2, k2
  <2> QED BY <2>7, <2>8
<1>3. refs' \in [Pages -> Nat]
  BY <1>1, <1>2
<1>4. freePages' \subseteq Pages
  BY <1>1 DEF TypeOK
<1> QED BY <1>2, <1>3, <1>4 DEF RefsExact

-----------------------------------------------------------------------------
(* The invariant.                                                          *)

\* The live sequences and what their callers know of them.
SeqPart ==
  /\ IsFiniteSet(DOMAIN seqs)
  /\ DOMAIN seqs \subseteq Ids
  /\ DOMAIN client = DOMAIN seqs
  /\ \A id \in DOMAIN seqs :
       /\ seqs[id] \in [slot : Slots, blocks : Seq(Pages), tokens : Nat]
       /\ client[id] \in [prompt : Prompts, restore : {{}} \cup {{s} : s \in Snapshots}]
       /\ seqs[id].tokens - Len(client[id].prompt) \in 0..MaxNew
       /\ Len(seqs[id].blocks) = BlocksFor(seqs[id].tokens)
       /\ IsInjective(seqs[id].blocks)

\* The entries of the prefix cache.
EntryPart ==
  /\ DOMAIN entries \subseteq Snapshots
  /\ \A s \in DOMAIN entries :
       /\ entries[s] \in [tokens : Seq(Tokens), blocks : Seq(Pages), pins : Nat]
       /\ Len(entries[s].blocks) = BlocksFor(Len(entries[s].tokens))
       /\ IsInjective(entries[s].blocks)

\* The pool.
PagePart ==
  /\ refs \in [Pages -> Nat]
  /\ freePages \subseteq Pages
  /\ RefsExact

\* The reservations of the callers.
SavingPart ==
  /\ DOMAIN saving \subseteq Snapshots
  /\ \A s \in DOMAIN saving : saving[s] \in Ids

\* The order of use.
OlderPart == older \subseteq Snapshots \X Snapshots

\* The inductive invariant.
IInv ==
  /\ SeqPart
  /\ EntryPart
  /\ PagePart
  /\ SavingPart
  /\ OlderPart
  /\ SlotsExact
  /\ SnapshotsExact
  /\ PinsExact

-----------------------------------------------------------------------------

\* The inductive invariant gives the type invariant and the page tables.
LEMMA IInvImplies ==
  ASSUME IInv
  PROVE  TypeOK /\ TablesCover /\ IsFiniteSet(DOMAIN seqs)
<1>1. freeSlots \subseteq Slots /\ freeSnapshots \subseteq Snapshots
  BY DEF IInv, SlotsExact, SnapshotsExact
<1>2. TypeOK
  BY <1>1 DEF IInv, TypeOK, SeqPart, EntryPart, PagePart, SavingPart, OlderPart
<1>3. TablesCover
  BY DEF IInv, TablesCover, SeqPart, EntryPart
<1> QED BY <1>2, <1>3 DEF IInv, SeqPart

\* A new CacheManager satisfies the inductive invariant.
LEMMA Initial == Init => IInv
<1> SUFFICES ASSUME Init PROVE IInv
  OBVIOUS
<1>1. /\ refs = [b \in Pages |-> 0] /\ freePages = Pages /\ freeSlots = Slots
      /\ freeSnapshots = Snapshots /\ older = {}
      /\ DOMAIN seqs = {} /\ DOMAIN entries = {} /\ DOMAIN client = {} /\ DOMAIN saving = {}
  BY DEF Init, CacheInit
<1>2. SeqPart /\ EntryPart /\ SavingPart /\ OlderPart
  BY <1>1, FS_EmptySet DEF SeqPart, EntryPart, SavingPart, OlderPart
<1>3. PagePart
  <2>1. ASSUME NEW b \in Pages
        PROVE  /\ refs[b] = Cardinality(SeqHolders(b)) + Cardinality(EntryHolders(DOMAIN entries, b))
               /\ b \in freePages <=> refs[b] = 0
    <3>1. SeqHolders(b) = {} /\ EntryHolders(DOMAIN entries, b) = {}
      BY <1>1 DEF SeqHolders, EntryHolders
    <3>2. Cardinality({}) = 0
      BY FS_EmptySet
    <3>3. refs[b] = 0 /\ b \in freePages
      BY <1>1
    <3> QED BY <3>1, <3>2, <3>3
  <2> QED BY <2>1, <1>1 DEF PagePart, RefsExact
<1>4. SlotsExact /\ SnapshotsExact /\ PinsExact
  BY <1>1 DEF SlotsExact, SnapshotsExact, PinsExact
<1> QED BY <1>2, <1>3, <1>4 DEF IInv

\* The invariant only depends on the variables of the specification.
LEMMA Stuttering == IInv /\ UNCHANGED vars => IInv'
<1> SUFFICES ASSUME IInv, UNCHANGED vars PROVE IInv'
  OBVIOUS
<1> USE DEF vars, cacheVars
<1>1. SeqPart' /\ EntryPart' /\ SavingPart' /\ OlderPart'
  BY DEF IInv, SeqPart, EntryPart, SavingPart, OlderPart
<1>2. PagePart'
  BY DEF IInv, PagePart, RefsExact, SeqHolders, EntryHolders, SeqPages, EntryPages
<1>3. SlotsExact' /\ SnapshotsExact' /\ PinsExact'
  BY DEF IInv, SlotsExact, SnapshotsExact, PinsExact
<1> QED BY <1>1, <1>2, <1>3 DEF IInv

-----------------------------------------------------------------------------

\* Eviction of V keeps the remaining entries well formed and returns the
\* snapshot slots of V, as evict_one does.
LEMMA EntriesEvicted ==
  ASSUME EntryPart, SnapshotsExact, NEW V \in SUBSET DOMAIN entries,
         DOMAIN entries' = DOMAIN entries \ V,
         \A s \in DOMAIN entries \ V :
           /\ entries'[s].tokens = entries[s].tokens
           /\ entries'[s].blocks = entries[s].blocks
           /\ entries'[s] \in [tokens : Seq(Tokens), blocks : Seq(Pages), pins : Nat],
         freeSnapshots' = freeSnapshots \cup V,
         saving' = saving
  PROVE  /\ EntryPart'
         /\ SnapshotsExact'
         /\ \A b : EntryHolders(DOMAIN entries, b)' = EntryHolders(DOMAIN entries \ V, b)
<1>1. EntryPart'
  BY DEF EntryPart
<1>2. SnapshotsExact'
  BY DEF SnapshotsExact, EntryPart
<1>3. \A b : EntryHolders(DOMAIN entries, b)' = EntryHolders(DOMAIN entries \ V, b)
  BY DEF EntryHolders, EntryPages
<1> QED BY <1>1, <1>2, <1>3

\* The entries that evict_one leaves in the map are unchanged.
LEMMA WithoutEntries ==
  ASSUME EntryPart, NEW V \in SUBSET DOMAIN entries, entries' = Without(entries, V)
  PROVE  /\ DOMAIN entries' = DOMAIN entries \ V
         /\ \A s \in DOMAIN entries \ V : entries'[s] = entries[s]
         /\ \A s \in DOMAIN entries \ V :
              /\ entries'[s].tokens = entries[s].tokens
              /\ entries'[s].blocks = entries[s].blocks
              /\ entries'[s] \in [tokens : Seq(Tokens), blocks : Seq(Pages), pins : Nat]
<1>1. DOMAIN entries' = DOMAIN entries \ V /\ \A s \in DOMAIN entries \ V : entries'[s] = entries[s]
  BY DEF Without
<1> QED BY <1>1 DEF EntryPart

\* The callers' restores are as before, and only unpinned entries are gone.
LEMMA PinsKept ==
  ASSUME PinsExact, NEW V \in SUBSET DOMAIN entries,
         \A s \in V : entries[s].pins = 0,
         \A s \in V : \A id \in DOMAIN client : s \notin client[id].restore,
         DOMAIN entries' = DOMAIN entries \ V,
         \A s \in DOMAIN entries \ V : entries'[s].pins = entries[s].pins,
         client' = client
  PROVE  PinsExact'
BY DEF PinsExact

\* An entry without pins is due to be restored by no sequence.
LEMMA UnpinnedNotDue ==
  ASSUME PinsExact, SeqPart, NEW s \in DOMAIN entries, entries[s].pins = 0
  PROVE  \A id \in DOMAIN client : s \notin client[id].restore
<1> DEFINE R == {id \in DOMAIN client : s \in client[id].restore}
<1>1. Cardinality(R) = 0
  BY DEF PinsExact
<1>2. IsFiniteSet(R)
  BY FS_Subset DEF SeqPart
<1>3. R = {}
  BY <1>1, <1>2, FS_EmptySet
<1> QED BY <1>3

\* acquire_blocks that comes short evicts every candidate and changes nothing
\* else: the invariant survives a refused admission and a refused append.
LEMMA RefusedStep ==
  ASSUME IInv, NEW n \in Nat, NEW held, AcquireRefused(n, held),
         UNCHANGED <<client, saving>>
  PROVE  IInv'
<1> DEFINE V == PageCandidates(held)
<1>1. /\ freeSnapshots' = freeSnapshots \cup V
      /\ entries' = Without(entries, V)
      /\ older' = OlderWithout(V)
      /\ UNCHANGED <<freeSlots, seqs>>
  BY DEF AcquireRefused
<1>2. V \in SUBSET DOMAIN entries /\ \A s \in V : entries[s].pins = 0
  <2>1. V \in SUBSET PageCandidates(held)
    OBVIOUS
  <2> HIDE DEF V
  <2> QED BY <2>1, Candidates
<1>3. /\ DOMAIN entries' = DOMAIN entries \ V
      /\ \A s \in DOMAIN entries \ V : entries'[s] = entries[s]
      /\ \A s \in DOMAIN entries \ V :
           /\ entries'[s].tokens = entries[s].tokens
           /\ entries'[s].blocks = entries[s].blocks
           /\ entries'[s] \in [tokens : Seq(Tokens), blocks : Seq(Pages), pins : Nat]
  BY <1>1, <1>2, WithoutEntries DEF IInv
<1>4. /\ EntryPart' /\ SnapshotsExact'
      /\ \A b : EntryHolders(DOMAIN entries, b)' = EntryHolders(DOMAIN entries \ V, b)
  BY <1>1, <1>2, <1>3, EntriesEvicted DEF IInv
<1>5. \A b : SeqHolders(b)' = SeqHolders(b)
  BY <1>1 DEF SeqHolders, SeqPages
<1>6. PagePart'
  <2>1. /\ refs' \in [Pages -> Nat] /\ freePages' \subseteq Pages
        /\ \A b \in Pages :
             /\ refs'[b] = Cardinality(SeqHolders(b))
                           + Cardinality(EntryHolders(DOMAIN entries \ V, b))
             /\ b \in freePages' <=>
                  SeqHolders(b) = {} /\ EntryHolders(DOMAIN entries \ V, b) = {}
    BY IInvImplies, EvictedPages DEF IInv, PagePart
  <2>2. ASSUME NEW b \in Pages
        PROVE  b \in freePages' <=> refs'[b] = 0
    <3> DEFINE S == SeqHolders(b)
               K == EntryHolders(DOMAIN entries \ V, b)
    <3>1. /\ IsFiniteSet(S) /\ Cardinality(S) \in Nat
          /\ IsFiniteSet(K) /\ Cardinality(K) \in Nat
      BY <1>2, IInvImplies, HolderCounts DEF IInv, PagePart
    <3>2. (Cardinality(S) = 0 <=> S = {}) /\ (Cardinality(K) = 0 <=> K = {})
      BY <3>1, FS_EmptySet
    <3> HIDE DEF S, K, V
    <3>3. refs'[b] = Cardinality(S) + Cardinality(K) /\ (b \in freePages' <=> S = {} /\ K = {})
      BY <2>1 DEF S, K
    <3> QED BY <3>1, <3>2, <3>3
  <2> QED BY <1>4, <1>5, <2>1, <2>2 DEF PagePart, RefsExact
<1>7. SeqPart' /\ SlotsExact' /\ SavingPart'
  BY <1>1 DEF IInv, SeqPart, SlotsExact, SavingPart
<1>8. OlderPart'
  BY <1>1 DEF IInv, OlderPart, OlderWithout
<1>9. PinsExact'
  <2>1. \A s \in V : \A id \in DOMAIN client : s \notin client[id].restore
    BY <1>2, UnpinnedNotDue DEF IInv
  <2> QED BY <1>2, <1>3, <2>1, PinsKept DEF IInv
<1> QED BY <1>4, <1>6, <1>7, <1>8, <1>9 DEF IInv

\* cancel_snapshot, and commit_snapshot of a sequence that is gone.
LEMMA CancelStep ==
  ASSUME IInv, NEW s \in DOMAIN saving, CancelSnapshot(s),
         saving' = Without(saving, {s}), UNCHANGED client
  PROVE  IInv'
<1>1. /\ freeSnapshots' = freeSnapshots \cup {s}
      /\ DOMAIN saving' = DOMAIN saving \ {s}
      /\ \A t \in DOMAIN saving' : saving'[t] = saving[t]
      /\ UNCHANGED <<refs, freePages, freeSlots, seqs, entries, older, client>>
  BY DEF CancelSnapshot, Without
<1>2. SeqPart' /\ EntryPart' /\ SavingPart' /\ OlderPart'
  BY <1>1 DEF IInv, SeqPart, EntryPart, SavingPart, OlderPart
<1>3. PagePart'
  BY <1>1 DEF IInv, PagePart, RefsExact, SeqHolders, EntryHolders, SeqPages, EntryPages
<1>4. SlotsExact' /\ PinsExact'
  BY <1>1 DEF IInv, SlotsExact, PinsExact
<1>5. SnapshotsExact'
  BY <1>1 DEF IInv, SnapshotsExact, SavingPart
<1> QED BY <1>2, <1>3, <1>4, <1>5 DEF IInv

\* reserve_snapshot, from the free slots or by evicting an entry.
LEMMA ReserveStep ==
  ASSUME IInv, NEW id \in Ids, NEW s \in Snapshots, Reserve(id, s)
  PROVE  IInv'
<1>1. /\ DOMAIN saving' = DOMAIN saving \cup {s}
      /\ \A t \in DOMAIN saving : t # s => saving'[t] = saving[t]
      /\ saving'[s] = id
      /\ UNCHANGED <<freeSlots, seqs, client>>
      /\ id \in DOMAIN client
  BY DEF Reserve, ReserveSnapshot, With
<1>2. SeqPart' /\ SavingPart' /\ SlotsExact'
  <2>1. SeqPart' /\ SlotsExact'
    <3>1. UNCHANGED <<freeSlots, seqs, client>>
      BY <1>1
    <3>2. SeqPart'
      BY <3>1 DEF IInv, SeqPart
    <3> QED BY <3>1, <3>2 DEF IInv, SlotsExact
  <2>2. \A t \in DOMAIN saving' : saving'[t] \in Ids
    BY <1>1 DEF IInv, SavingPart
  <2> QED BY <1>1, <2>1, <2>2 DEF IInv, SavingPart
<1>3. CASE /\ s \in freeSnapshots
           /\ freeSnapshots' = freeSnapshots \ {s}
           /\ UNCHANGED <<refs, freePages, entries, older>>
  <2>1. EntryPart' /\ OlderPart' /\ PinsExact'
    BY <1>1, <1>3 DEF IInv, EntryPart, OlderPart, PinsExact
  <2>2. PagePart'
    BY <1>1, <1>3 DEF IInv, PagePart, RefsExact, SeqHolders, EntryHolders, SeqPages, EntryPages
  <2>3. SnapshotsExact'
    BY <1>1, <1>3 DEF IInv, SnapshotsExact
  <2> QED BY <1>2, <2>1, <2>2, <2>3 DEF IInv
<1>4. CASE /\ freeSnapshots = {}
           /\ s \in Unpinned({})
           /\ ReleasePages(EntryPages(s))
           /\ entries' = Without(entries, {s})
           /\ older' = OlderWithout({s})
           /\ UNCHANGED freeSnapshots
  <2>1. s \in DOMAIN entries /\ entries[s].pins = 0
    BY <1>4 DEF Unpinned
  <2>2. /\ DOMAIN entries' = DOMAIN entries \ {s}
        /\ \A t \in DOMAIN entries \ {s} : entries'[t] = entries[t]
    BY <1>4 DEF Without
  <2>3. EntryPart' /\ OlderPart'
    BY <1>4, <2>2 DEF IInv, EntryPart, OlderPart, OlderWithout
  <2>4. SnapshotsExact'
    BY <1>1, <1>4, <2>1, <2>2 DEF IInv, SnapshotsExact, EntryPart
  <2>5. PinsExact'
    <3>1. \A t \in {s} : \A i \in DOMAIN client : t \notin client[i].restore
      BY <2>1, UnpinnedNotDue DEF IInv
    <3> QED BY <1>1, <2>1, <2>2, <3>1, PinsKept DEF IInv
  <2>6. PagePart'
    <3>1. \A b \in Pages : SeqHolders(b)' = SeqHolders(b)
      BY <1>1 DEF SeqHolders, SeqPages
    <3>2. EntryPages(s) \in SUBSET Pages
      <4>1. entries[s].blocks \in Seq(Pages)
        BY <2>1 DEF IInv, EntryPart
      <4> QED BY <4>1, LenProperties, ElementOfSeq DEF EntryPages, Range
    <3>3. \A b \in Pages \ EntryPages(s) :
            EntryHolders(DOMAIN entries, b)' = EntryHolders(DOMAIN entries, b)
      BY <2>2 DEF EntryHolders, EntryPages
    <3>4. \A b \in EntryPages(s) :
            /\ s \in EntryHolders(DOMAIN entries, b)
            /\ EntryHolders(DOMAIN entries, b)' = EntryHolders(DOMAIN entries, b) \ {s}
      BY <2>1, <2>2 DEF EntryHolders, EntryPages
    <3> QED BY <1>4, <3>1, <3>2, <3>3, <3>4, IInvImplies, PagesReleased DEF IInv, PagePart
  <2> QED BY <1>2, <2>3, <2>4, <2>5, <2>6 DEF IInv
<1> QED BY <1>3, <1>4 DEF Reserve, ReserveSnapshot

\* A sequence restores the entry it was admitted with, or ends before it does.
LEMMA PinReturned ==
  ASSUME IInv, NEW id \in DOMAIN client, entries' = Unpin(client[id].restore),
         UNCHANGED <<freeSnapshots, saving>>,
         DOMAIN client' \subseteq DOMAIN client,
         \A i \in DOMAIN client' : i # id => client'[i] = client[i],
         \A i \in DOMAIN client : i # id => i \in DOMAIN client',
         id \in DOMAIN client' => client'[id].restore = {}
  PROVE  /\ EntryPart' /\ SnapshotsExact' /\ PinsExact'
         /\ \A b : EntryHolders(DOMAIN entries, b)' = EntryHolders(DOMAIN entries, b)
<1> DEFINE due == client[id].restore
           R(s) == {i \in DOMAIN client : s \in client[i].restore}
           R2(s) == {i \in DOMAIN client' : s \in client'[i].restore}
<1>1. DOMAIN entries' = DOMAIN entries
  BY DEF Unpin
<1>2. ASSUME NEW s \in DOMAIN entries
      PROVE  /\ s \in due /\ entries[s].pins > 0 =>
                  /\ entries'[s] \in [tokens : Seq(Tokens), blocks : Seq(Pages), pins : Nat]
                  /\ entries'[s].tokens = entries[s].tokens
                  /\ entries'[s].blocks = entries[s].blocks
                  /\ entries'[s].pins = entries[s].pins - 1
             /\ ~(s \in due /\ entries[s].pins > 0) => entries'[s] = entries[s]
             /\ entries[s] \in [tokens : Seq(Tokens), blocks : Seq(Pages), pins : Nat]
  <2>1. entries[s] \in [tokens : Seq(Tokens), blocks : Seq(Pages), pins : Nat]
    BY DEF IInv, EntryPart
  <2>2. s \in due /\ entries[s].pins > 0 => entries'[s] = [entries[s] EXCEPT !.pins = @ - 1]
    BY DEF Unpin
  <2>3. ~(s \in due /\ entries[s].pins > 0) => entries'[s] = entries[s]
    BY DEF Unpin
  <2>4. entries[s].pins > 0 => entries[s].pins - 1 \in Nat
    BY <2>1
  <2> HIDE DEF due
  <2>5. ASSUME s \in due, entries[s].pins > 0
        PROVE  /\ entries'[s] \in [tokens : Seq(Tokens), blocks : Seq(Pages), pins : Nat]
               /\ entries'[s].tokens = entries[s].tokens
               /\ entries'[s].blocks = entries[s].blocks
               /\ entries'[s].pins = entries[s].pins - 1
    BY <2>1, <2>2, <2>4, <2>5
  <2> QED BY <2>1, <2>3, <2>5
<1>3. \A s \in DOMAIN entries \ {} :
        /\ entries'[s].tokens = entries[s].tokens
        /\ entries'[s].blocks = entries[s].blocks
        /\ entries'[s] \in [tokens : Seq(Tokens), blocks : Seq(Pages), pins : Nat]
  BY <1>1, <1>2
<1>4. /\ EntryPart' /\ SnapshotsExact'
      /\ \A b : EntryHolders(DOMAIN entries, b)' = EntryHolders(DOMAIN entries \ {}, b)
  <2>1. {} \in SUBSET DOMAIN entries /\ DOMAIN entries' = DOMAIN entries \ {}
        /\ freeSnapshots' = freeSnapshots \cup {}
    BY <1>1
  <2> QED BY <1>3, <2>1, EntriesEvicted DEF IInv
<1>5. DOMAIN entries \ {} = DOMAIN entries
  OBVIOUS
<1>6. ASSUME NEW i \in DOMAIN client' PROVE client'[i].restore \subseteq DOMAIN entries'
  BY <1>1 DEF IInv, PinsExact
<1>7. ASSUME NEW s \in DOMAIN entries PROVE entries'[s].pins = Cardinality(R2(s))
  <2>1. R2(s) = R(s) \ {id}
    OBVIOUS
  <2>2. IsFiniteSet(R(s)) /\ entries[s].pins = Cardinality(R(s)) /\ entries[s].pins \in Nat
    BY FS_Subset DEF IInv, SeqPart, PinsExact, EntryPart
  <2>3. id \in R(s) <=> s \in due
    OBVIOUS
  <2> HIDE DEF R, R2, due
  <2>4. CASE s \in due
    <3>1. Cardinality(R2(s)) \in Nat /\ Cardinality(R(s)) = Cardinality(R2(s)) + 1
      BY <2>1, <2>2, <2>3, <2>4, OneLess
    <3>2. entries[s].pins > 0 /\ entries'[s].pins = entries[s].pins - 1
      BY <1>2, <2>2, <2>4, <3>1
    <3> QED BY <2>2, <3>1, <3>2
  <2>5. CASE s \notin due
    <3>1. R2(s) = R(s)
      BY <2>1, <2>3, <2>5
    <3>2. entries'[s].pins = entries[s].pins
      BY <1>2, <2>5
    <3> QED BY <2>2, <3>1, <3>2
  <2> QED BY <2>4, <2>5
<1>8. PinsExact'
  BY <1>1, <1>6, <1>7 DEF PinsExact
<1> QED BY <1>4, <1>5, <1>8

\* finish_restore takes back the pin of the sequence that was restored.
LEMMA RestoredStep == ASSUME IInv, NEW id \in Ids, Restored(id) PROVE IInv'
<1>1. PICK s \in client[id].restore : id \in DOMAIN client /\ FinishRestore(s)
  BY DEF Restored
<1>2. client[id].restore = {s}
  BY <1>1 DEF IInv, SeqPart
<1>3. /\ UNCHANGED <<refs, freePages, freeSlots, freeSnapshots, seqs, older, saving>>
      /\ entries' = Unpin(client[id].restore)
  BY <1>1, <1>2 DEF FinishRestore, Restored
<1>4. /\ DOMAIN client' = DOMAIN client
      /\ client'[id] = [client[id] EXCEPT !.restore = {}]
      /\ \A i \in DOMAIN client : i # id => client'[i] = client[i]
  BY <1>1 DEF Restored
<1>5. client[id] \in [prompt : Prompts, restore : {{}} \cup {{t} : t \in Snapshots}]
  BY <1>1 DEF IInv, SeqPart
<1>6. /\ client'[id] \in [prompt : Prompts, restore : {{}} \cup {{t} : t \in Snapshots}]
      /\ client'[id].restore = {} /\ client'[id].prompt = client[id].prompt
  BY <1>4, <1>5
<1>7. /\ EntryPart' /\ SnapshotsExact' /\ PinsExact'
      /\ \A b : EntryHolders(DOMAIN entries, b)' = EntryHolders(DOMAIN entries, b)
  BY <1>1, <1>3, <1>4, <1>6, PinReturned
<1>8. SeqPart'
  BY <1>3, <1>4, <1>6 DEF IInv, SeqPart
<1>9. PagePart'
  BY <1>3, <1>7 DEF IInv, PagePart, RefsExact, SeqHolders, SeqPages
<1>10. SavingPart' /\ OlderPart' /\ SlotsExact'
  BY <1>3 DEF IInv, SavingPart, OlderPart, SlotsExact
<1> QED BY <1>7, <1>8, <1>9, <1>10 DEF IInv

\* release: the slot and the pages of the sequence come back, and the pin of a
\* restore that was still due.
LEMMA LeaveStep == ASSUME IInv, NEW id \in Ids, Leave(id) PROVE IInv'
<1> DEFINE due == client[id].restore
<1>1. /\ id \in DOMAIN client /\ id \in DOMAIN seqs
      /\ freeSlots' = freeSlots \cup {seqs[id].slot}
      /\ ReleasePages(SeqPages(id))
      /\ entries' = Unpin(client[id].restore)
      /\ UNCHANGED <<freeSnapshots, older, saving>>
  BY DEF Leave, Release
<1>2. /\ DOMAIN seqs' = DOMAIN seqs \ {id} /\ DOMAIN client' = DOMAIN client \ {id}
      /\ \A i \in DOMAIN seqs \ {id} : seqs'[i] = seqs[i]
      /\ \A i \in DOMAIN client \ {id} : client'[i] = client[i]
  BY DEF Leave, Release, Without
<1>3. /\ EntryPart' /\ SnapshotsExact' /\ PinsExact'
      /\ \A b : EntryHolders(DOMAIN entries, b)' = EntryHolders(DOMAIN entries, b)
  BY <1>1, <1>2, PinReturned
<1>4. SeqPart'
  BY <1>2, FS_Subset DEF IInv, SeqPart
<1>5. SlotsExact'
  BY <1>1, <1>2 DEF IInv, SlotsExact, SeqPart
<1>6. SavingPart' /\ OlderPart'
  BY <1>1 DEF IInv, SavingPart, OlderPart
<1>7. PagePart'
  <2>1. SeqPages(id) \in SUBSET Pages
    <3>1. seqs[id].blocks \in Seq(Pages)
      BY <1>1 DEF IInv, SeqPart
    <3> QED BY <3>1, LenProperties, ElementOfSeq DEF SeqPages, Range
  <2>2. \A b \in Pages \ SeqPages(id) : SeqHolders(b)' = SeqHolders(b)
    BY <1>2 DEF SeqHolders, SeqPages
  <2>3. \A b \in SeqPages(id) :
          id \in SeqHolders(b) /\ SeqHolders(b)' = SeqHolders(b) \ {id}
    BY <1>1, <1>2 DEF SeqHolders, SeqPages
  <2> QED BY <1>1, <1>3, <2>1, <2>2, <2>3, IInvImplies, PagesReleased DEF IInv, PagePart
<1> QED BY <1>3, <1>4, <1>5, <1>6, <1>7 DEF IInv

-----------------------------------------------------------------------------

\* What an admission adds: a sequence with a slot nobody has and a table of
\* exactly the pages its prompt needs.
LEMMA Admitted ==
  ASSUME IInv, NEW id \in Ids, id \notin DOMAIN seqs, NEW p \in Prompts,
         NEW slot \in freeSlots, NEW table \in Seq(Pages),
         Len(table) = BlocksFor(Len(p)), IsInjective(table),
         NEW due \in {{}} \cup {{s} : s \in Snapshots},
         seqs' = With(seqs, id, [slot |-> slot, blocks |-> table, tokens |-> Len(p)]),
         client' = With(client, id, [prompt |-> p, restore |-> due]),
         freeSlots' = freeSlots \ {slot}
  PROVE  /\ SeqPart' /\ SlotsExact'
         /\ \A b : SeqHolders(b)' = IF b \in Range(table)
                                    THEN SeqHolders(b) \cup {id} ELSE SeqHolders(b)
<1>1. /\ DOMAIN seqs' = DOMAIN seqs \cup {id} /\ DOMAIN client' = DOMAIN client \cup {id}
      /\ seqs'[id] = [slot |-> slot, blocks |-> table, tokens |-> Len(p)]
      /\ client'[id] = [prompt |-> p, restore |-> due]
      /\ \A i \in DOMAIN seqs : seqs'[i] = seqs[i]
      /\ \A i \in DOMAIN client : client'[i] = client[i]
  BY DEF With, IInv, SeqPart
<1>2. Len(p) \in Nat /\ slot \in Slots /\ MaxNew \in Nat
  <2>1. p \in Seq(UNION {Range(q) : q \in Prompts})
    BY PromptsAssumption
  <2> QED BY <2>1, LenProperties, PromptsAssumption DEF IInv, SlotsExact
<1>3. SeqPart'
  <2>1. /\ seqs'[id] \in [slot : Slots, blocks : Seq(Pages), tokens : Nat]
        /\ client'[id] \in [prompt : Prompts, restore : {{}} \cup {{s} : s \in Snapshots}]
    BY <1>1, <1>2
  <2>2. /\ Len(p) - Len(p) \in 0..MaxNew
        /\ client'[id].prompt = p /\ seqs'[id].tokens = Len(p) /\ seqs'[id].blocks = table
    BY <1>1, <1>2
  <2>3. IsFiniteSet(DOMAIN seqs')
    BY <1>1, FS_AddElement DEF IInv, SeqPart
  <2> QED BY <1>1, <2>1, <2>2, <2>3 DEF IInv, SeqPart
<1>4. SlotsExact'
  <2>1. \A i \in DOMAIN seqs : seqs[i].slot # slot
    BY DEF IInv, SlotsExact
  <2>2. seqs'[id].slot = slot
    BY <1>1
  <2> QED BY <1>1, <2>1, <2>2 DEF IInv, SlotsExact
<1>5. \A b : SeqHolders(b)' = IF b \in Range(table)
                              THEN SeqHolders(b) \cup {id} ELSE SeqHolders(b)
  <2>1. seqs'[id].blocks = table
    BY <1>1
  <2> QED BY <1>1, <2>1 DEF SeqHolders, SeqPages
<1> QED BY <1>3, <1>4, <1>5

\* admit, and admit_prompt without a match.
LEMMA AdmitFreshStep ==
  ASSUME IInv, NEW id \in Ids, NEW p \in Prompts, AdmitFresh(id, p)
  PROVE  IInv'
<1>1. PICK slot \in freeSlots, V \in SUBSET PageCandidates({}) :
        \E fresh \in Tables(BlocksFor(Len(p)), freePages \cup Freed(V)) :
          /\ AcquireBlocks(BlocksFor(Len(p)), {}, V, fresh, {})
          /\ freeSlots' = freeSlots \ {slot}
          /\ seqs' = With(seqs, id, [slot |-> slot, blocks |-> fresh, tokens |-> Len(p)])
          /\ entries' = Without(entries, V)
          /\ older' = OlderWithout(V)
  BY DEF AdmitFresh, Admit
<1>2. PICK fresh :
          /\ AcquireBlocks(BlocksFor(Len(p)), {}, V, fresh, {})
          /\ freeSlots' = freeSlots \ {slot}
          /\ seqs' = With(seqs, id, [slot |-> slot, blocks |-> fresh, tokens |-> Len(p)])
          /\ entries' = Without(entries, V)
          /\ older' = OlderWithout(V)
  BY <1>1
<1>3. /\ id \notin DOMAIN seqs /\ UNCHANGED saving
      /\ client' = With(client, id, [prompt |-> p, restore |-> {}])
      /\ freeSnapshots' = freeSnapshots \cup V
  BY <1>2 DEF AdmitFresh, Admit, AcquireBlocks
<1>4. V \in SUBSET DOMAIN entries /\ \A s \in V : entries[s].pins = 0
  BY Candidates
<1>5. BlocksFor(Len(p)) \in Nat
  <2>1. p \in Seq(UNION {Range(q) : q \in Prompts})
    BY PromptsAssumption
  <2> QED BY <2>1, LenProperties, BlocksForFacts
<1>6. /\ fresh \in Seq(Pages) /\ Len(fresh) = BlocksFor(Len(p)) /\ IsInjective(fresh)
      /\ refs' \in [Pages -> Nat] /\ freePages' \subseteq Pages
  BY <1>2, <1>4, <1>5, IInvImplies, AcquiredPages DEF IInv, PagePart
<1>7. /\ SeqPart' /\ SlotsExact'
      /\ \A b : SeqHolders(b)' = IF b \in Range(fresh)
                                 THEN SeqHolders(b) \cup {id} ELSE SeqHolders(b)
  BY <1>2, <1>3, <1>6, Admitted
<1>8. /\ DOMAIN entries' = DOMAIN entries \ V
      /\ \A s \in DOMAIN entries \ V : entries'[s] = entries[s]
      /\ \A s \in DOMAIN entries \ V :
           /\ entries'[s].tokens = entries[s].tokens
           /\ entries'[s].blocks = entries[s].blocks
           /\ entries'[s] \in [tokens : Seq(Tokens), blocks : Seq(Pages), pins : Nat]
  BY <1>2, <1>4, WithoutEntries DEF IInv
<1>9. /\ EntryPart' /\ SnapshotsExact'
      /\ \A b : EntryHolders(DOMAIN entries, b)' = EntryHolders(DOMAIN entries \ V, b)
  BY <1>3, <1>4, <1>8, EntriesEvicted DEF IInv
<1>10. RefsExact'
  <2>1. TypeOK /\ IsFiniteSet(DOMAIN seqs) /\ RefsExact
    BY IInvImplies DEF IInv, PagePart
  <2>2. Sharable({}, V, id) /\ {} \in SUBSET Pages
    BY DEF Sharable
  <2>3. Joined(Range(fresh) \cup {}, V, id)
    BY <1>7, <1>9 DEF Joined
  <2>4. AcquireBlocks(BlocksFor(Len(p)), {}, V, fresh, {})
    BY <1>2
  <2> QED BY <1>4, <1>5, <2>1, <2>2, <2>3, <2>4, TableAdded
<1>11. PinsExact'
  <2>1. /\ DOMAIN client' = DOMAIN client \cup {id} /\ id \notin DOMAIN client
        /\ client'[id].restore = {}
        /\ \A i \in DOMAIN client : client'[i] = client[i]
    BY <1>3 DEF With, IInv, SeqPart
  <2>2. \A s \in V : \A i \in DOMAIN client : s \notin client[i].restore
    BY <1>4, UnpinnedNotDue DEF IInv
  <2>3. \A i \in DOMAIN client' : client'[i].restore \subseteq DOMAIN entries'
    BY <1>8, <2>1, <2>2 DEF IInv, PinsExact
  <2>4. \A s : {i \in DOMAIN client' : s \in client'[i].restore}
                 = {i \in DOMAIN client : s \in client[i].restore}
    BY <2>1
  <2> QED BY <1>8, <2>3, <2>4 DEF IInv, PinsExact
<1>12. SavingPart' /\ OlderPart'
  BY <1>2, <1>3 DEF IInv, SavingPart, OlderPart, OlderWithout
<1> QED BY <1>6, <1>7, <1>9, <1>10, <1>11, <1>12 DEF IInv, PagePart

\* What admit_prompt shares with the entry it continues.
LEMMA SharedPrefix ==
  ASSUME IInv, NEW p \in Prompts, NEW s \in DOMAIN entries, BestMatch(s, p),
         NEW shared, shared = SubSeq(entries[s].blocks, 1, FullPages(s))
  PROVE  /\ FreshNeed(s, p) \in Nat
         /\ shared \in Seq(Pages) /\ IsInjective(shared)
         /\ Len(shared) + FreshNeed(s, p) = BlocksFor(Len(p))
         /\ Range(shared) \subseteq EntryPages(s)
<1> DEFINE m == Len(entries[s].tokens)
           k == FullPages(s)
<1>1. /\ entries[s].tokens \in Seq(Tokens) /\ entries[s].blocks \in Seq(Pages)
      /\ Len(entries[s].blocks) = BlocksFor(m) /\ IsInjective(entries[s].blocks)
  BY DEF IInv, EntryPart
<1>2. m \in Nat /\ Len(p) \in Nat
  <2>1. p \in Seq(UNION {Range(q) : q \in Prompts})
    BY PromptsAssumption
  <2> QED BY <1>1, <2>1, LenProperties
<1>3. m <= Len(p)
  <2>1. IsStrictPrefix(entries[s].tokens, p)
    BY DEF BestMatch, Matches
  <2> QED BY <2>1 DEF IsStrictPrefix, IsPrefix
<1>4. k \in Nat /\ k <= BlocksFor(m)
  BY <1>2, BlocksForFacts DEF FullPages
<1>5. BlocksFor(m) \in Nat /\ BlocksFor(Len(p)) \in Nat /\ BlocksFor(m) <= BlocksFor(Len(p))
  BY <1>2, <1>3, BlocksForFacts
<1> HIDE DEF m, k
<1>6. /\ k \in 0..Len(entries[s].blocks)
      /\ BlocksFor(Len(p)) - k \in Nat
      /\ k + (BlocksFor(Len(p)) - k) = BlocksFor(Len(p))
  <2>1. \A a, c, d \in Nat : a <= c /\ c <= d => d - a \in Nat /\ a + (d - a) = d
    OBVIOUS
  <2>2. k \in 0..Len(entries[s].blocks)
    BY <1>1, <1>4, <1>5
  <2> QED BY <1>4, <1>5, <2>1, <2>2
<1>7. shared = SubSeq(entries[s].blocks, 1, k) /\ FreshNeed(s, p) = BlocksFor(Len(p)) - k
  BY DEF k, FreshNeed
<1>8. /\ shared \in Seq(Pages) /\ Len(shared) = k /\ IsInjective(shared)
      /\ Range(shared) \subseteq Range(entries[s].blocks)
  <2>1. k \in 0..Len(entries[s].blocks) /\ entries[s].blocks \in Seq(Pages)
        /\ IsInjective(entries[s].blocks)
    BY <1>1, <1>6
  <2>2. /\ SubSeq(entries[s].blocks, 1, k) \in Seq(Pages)
        /\ Len(SubSeq(entries[s].blocks, 1, k)) = k
        /\ Range(SubSeq(entries[s].blocks, 1, k)) \subseteq Range(entries[s].blocks)
        /\ IsInjective(SubSeq(entries[s].blocks, 1, k))
    BY <2>1, PrefixOfSeq, Zenon
  <2> QED BY <1>7, <2>2
<1>9. FreshNeed(s, p) \in Nat /\ Len(shared) + FreshNeed(s, p) = BlocksFor(Len(p))
  BY <1>6, <1>7, <1>8
<1> QED BY <1>8, <1>9 DEF EntryPages

\* admit_prompt with a match: the full pages of the entry are shared, the rest
\* is fresh, and the entry is pinned until the state is restored.
LEMMA AdmitCachedStep ==
  ASSUME IInv, NEW id \in Ids, NEW p \in Prompts, AdmitCached(id, p)
  PROVE  IInv'
<1>1. PICK s \in DOMAIN entries :
        AdmitHit(id, p, s) /\ client' = With(client, id, [prompt |-> p, restore |-> {s}])
  BY DEF AdmitCached
<1> DEFINE need == FreshNeed(s, p)
           shared == SubSeq(entries[s].blocks, 1, FullPages(s))
<1>2. PICK slot \in freeSlots, V \in SUBSET PageCandidates({s}) :
        \E fresh \in Tables(need, freePages \cup Freed(V)) :
          /\ AcquireBlocks(need, {s}, V, fresh, Range(shared))
          /\ freeSlots' = freeSlots \ {slot}
          /\ seqs' = With(seqs, id, [slot |-> slot, blocks |-> shared \o fresh,
                                     tokens |-> Len(p)])
          /\ entries' = [Without(entries, V) EXCEPT ![s].pins = @ + 1]
          /\ older' = OlderUsing(s, V)
  BY <1>1 DEF AdmitHit
<1>3. PICK fresh :
          /\ AcquireBlocks(need, {s}, V, fresh, Range(shared))
          /\ freeSlots' = freeSlots \ {slot}
          /\ seqs' = With(seqs, id, [slot |-> slot, blocks |-> shared \o fresh,
                                     tokens |-> Len(p)])
          /\ entries' = [Without(entries, V) EXCEPT ![s].pins = @ + 1]
          /\ older' = OlderUsing(s, V)
  BY <1>2
<1>4. /\ id \notin DOMAIN seqs /\ UNCHANGED saving /\ BestMatch(s, p)
      /\ freeSnapshots' = freeSnapshots \cup V
  BY <1>1, <1>3 DEF AdmitCached, AdmitHit, AcquireBlocks
<1>5. V \in SUBSET DOMAIN entries /\ s \notin V /\ \A t \in V : entries[t].pins = 0
  BY Candidates
<1>6. /\ need \in Nat /\ shared \in Seq(Pages) /\ IsInjective(shared)
      /\ Len(shared) + need = BlocksFor(Len(p))
      /\ Range(shared) \subseteq EntryPages(s)
  BY <1>4, SharedPrefix
<1> HIDE DEF need, shared
<1>7. /\ fresh \in Seq(Pages) /\ Len(fresh) = need /\ IsInjective(fresh)
      /\ \A b \in Range(fresh) : EntryHolders(DOMAIN entries \ V, b) = {}
      /\ refs' \in [Pages -> Nat] /\ freePages' \subseteq Pages
  BY <1>3, <1>5, <1>6, IInvImplies, AcquiredPages DEF IInv, PagePart
<1>8. \A b \in Range(shared) : s \in EntryHolders(DOMAIN entries \ V, b)
  BY <1>5, <1>6 DEF EntryHolders
<1>9. Range(shared) \cap Range(fresh) = {}
  BY <1>7, <1>8
<1>10. /\ shared \o fresh \in Seq(Pages) /\ Len(shared \o fresh) = BlocksFor(Len(p))
       /\ IsInjective(shared \o fresh)
       /\ Range(shared \o fresh) = Range(shared) \cup Range(fresh)
  BY <1>6, <1>7, <1>9, JoinSeq, JoinRange
<1>11. /\ SeqPart' /\ SlotsExact'
       /\ \A b : SeqHolders(b)' = IF b \in Range(shared \o fresh)
                                  THEN SeqHolders(b) \cup {id} ELSE SeqHolders(b)
  <2>1. {s} \in {{}} \cup {{t} : t \in Snapshots}
    BY DEF IInv, EntryPart
  <2> QED BY <1>1, <1>3, <1>4, <1>10, <2>1, Admitted
<1>12. /\ DOMAIN entries' = DOMAIN entries \ V
       /\ entries'[s] = [entries[s] EXCEPT !.pins = @ + 1]
       /\ \A t \in DOMAIN entries \ V : t # s => entries'[t] = entries[t]
  BY <1>3, <1>5 DEF Without
<1>13. \A t \in DOMAIN entries : entries[t] \in [tokens : Seq(Tokens), blocks : Seq(Pages), pins : Nat]
  BY DEF IInv, EntryPart
<1>14. /\ entries'[s] \in [tokens : Seq(Tokens), blocks : Seq(Pages), pins : Nat]
       /\ entries'[s].tokens = entries[s].tokens
       /\ entries'[s].blocks = entries[s].blocks
       /\ entries'[s].pins = entries[s].pins + 1
  <2>1. entries[s] \in [tokens : Seq(Tokens), blocks : Seq(Pages), pins : Nat]
    BY <1>13
  <2> QED BY <1>12, <2>1
<1>15. /\ EntryPart' /\ SnapshotsExact'
       /\ \A b : EntryHolders(DOMAIN entries, b)' = EntryHolders(DOMAIN entries \ V, b)
  <2>1. \A t \in DOMAIN entries \ V :
          /\ entries'[t].tokens = entries[t].tokens
          /\ entries'[t].blocks = entries[t].blocks
          /\ entries'[t] \in [tokens : Seq(Tokens), blocks : Seq(Pages), pins : Nat]
    BY <1>12, <1>13, <1>14
  <2> QED BY <1>4, <1>5, <1>12, <2>1, EntriesEvicted DEF IInv
<1>16. RefsExact'
  <2>1. TypeOK /\ IsFiniteSet(DOMAIN seqs) /\ RefsExact
    BY IInvImplies DEF IInv, PagePart
  <2>2. Sharable(Range(shared), V, id)
    BY <1>4, <1>8 DEF Sharable, SeqHolders
  <2>3. Range(shared) \in SUBSET Pages
    BY <1>6, LenProperties, ElementOfSeq DEF Range
  <2>4. Joined(Range(fresh) \cup Range(shared), V, id)
    <3>1. \A b : b \in Range(shared \o fresh) <=> b \in Range(fresh) \cup Range(shared)
      BY <1>10
    <3> QED BY <1>11, <1>15, <3>1 DEF Joined
  <2> QED BY <1>3, <1>5, <1>6, <2>1, <2>2, <2>3, <2>4, TableAdded
<1>17. PinsExact'
  <2>1. /\ DOMAIN client' = DOMAIN client \cup {id} /\ id \notin DOMAIN client
        /\ client'[id].restore = {s}
        /\ \A i \in DOMAIN client : client'[i] = client[i]
    BY <1>1, <1>4 DEF With, IInv, SeqPart
  <2>2. \A t \in V : \A i \in DOMAIN client : t \notin client[i].restore
    BY <1>5, UnpinnedNotDue DEF IInv
  <2>3. \A i \in DOMAIN client' : client'[i].restore \subseteq DOMAIN entries'
    BY <1>5, <1>12, <2>1, <2>2 DEF IInv, PinsExact
  <2>4. ASSUME NEW t \in DOMAIN entries \ V, t # s
        PROVE  entries'[t].pins = Cardinality({i \in DOMAIN client' : t \in client'[i].restore})
    <3>1. {i \in DOMAIN client' : t \in client'[i].restore}
             = {i \in DOMAIN client : t \in client[i].restore}
      BY <2>1, <2>4
    <3> QED BY <1>12, <2>4, <3>1 DEF IInv, PinsExact
  <2>5. entries'[s].pins = Cardinality({i \in DOMAIN client' : s \in client'[i].restore})
    <3> DEFINE R == {i \in DOMAIN client : s \in client[i].restore}
    <3>1. {i \in DOMAIN client' : s \in client'[i].restore} = R \cup {id} /\ id \notin R
      BY <2>1
    <3>2. IsFiniteSet(R) /\ entries[s].pins = Cardinality(R)
      BY FS_Subset DEF IInv, SeqPart, PinsExact
    <3> HIDE DEF R
    <3>3. Cardinality(R \cup {id}) = Cardinality(R) + 1
      BY <3>1, <3>2, FS_AddElement
    <3> QED BY <1>14, <3>1, <3>2, <3>3
  <2> QED BY <1>12, <2>3, <2>4, <2>5 DEF PinsExact
<1>18. SavingPart' /\ OlderPart'
  <2>1. SavingPart'
    BY <1>4 DEF IInv, SavingPart
  <2>2. OlderPart'
    BY <1>3 DEF IInv, OlderPart, OlderUsing, OlderWithout, EntryPart
  <2> QED BY <2>1, <2>2
<1> QED BY <1>7, <1>11, <1>15, <1>16, <1>17, <1>18 DEF IInv, PagePart

-----------------------------------------------------------------------------

\* A sequence keeps its slot and its prompt, and changes its table.
LEMMA TableChanged ==
  ASSUME IInv, NEW id \in DOMAIN seqs, NEW table \in Seq(Pages), NEW n \in Nat,
         n - Len(client[id].prompt) \in 0..MaxNew,
         Len(table) = BlocksFor(n), IsInjective(table),
         seqs' = [seqs EXCEPT ![id].tokens = n, ![id].blocks = table],
         UNCHANGED <<client, freeSlots>>
  PROVE  /\ SeqPart' /\ SlotsExact'
         /\ DOMAIN seqs' = DOMAIN seqs /\ seqs'[id].blocks = table
         /\ \A i \in DOMAIN seqs : i # id => seqs'[i] = seqs[i]
<1>1. /\ DOMAIN seqs' = DOMAIN seqs
      /\ \A i \in DOMAIN seqs : i # id => seqs'[i] = seqs[i]
      /\ seqs'[id] = [seqs[id] EXCEPT !.tokens = n, !.blocks = table]
  OBVIOUS
<1>2. seqs[id] \in [slot : Slots, blocks : Seq(Pages), tokens : Nat]
  BY DEF IInv, SeqPart
<1>3. /\ seqs'[id] \in [slot : Slots, blocks : Seq(Pages), tokens : Nat]
      /\ seqs'[id].tokens = n /\ seqs'[id].blocks = table /\ seqs'[id].slot = seqs[id].slot
  BY <1>1, <1>2
<1>4. SeqPart'
  BY <1>1, <1>3 DEF IInv, SeqPart
<1>5. \A i \in DOMAIN seqs : seqs'[i].slot = seqs[i].slot
  BY <1>1, <1>3
<1>6. SlotsExact'
  BY <1>1, <1>5 DEF IInv, SlotsExact
<1> QED BY <1>1, <1>3, <1>4, <1>6

\* append_token that finds its pages.
LEMMA AppendStep ==
  ASSUME IInv, NEW id \in Ids, id \in DOMAIN client,
         seqs[id].tokens < Len(client[id].prompt) + MaxNew,
         AppendToken(id), UNCHANGED <<client, saving>>
  PROVE  IInv'
<1> DEFINE n == seqs[id].tokens
           old == seqs[id].blocks
           need == ExtraNeed(id)
<1>1. PICK V \in SUBSET PageCandidates({}) :
        \E fresh \in Tables(need, freePages \cup Freed(V)) :
          /\ AcquireBlocks(need, {}, V, fresh, {})
          /\ seqs' = [seqs EXCEPT ![id].tokens = @ + 1, ![id].blocks = @ \o fresh]
          /\ entries' = Without(entries, V)
          /\ older' = OlderWithout(V)
  BY DEF AppendToken
<1>2. PICK fresh :
          /\ AcquireBlocks(need, {}, V, fresh, {})
          /\ seqs' = [seqs EXCEPT ![id].tokens = @ + 1, ![id].blocks = @ \o fresh]
          /\ entries' = Without(entries, V)
          /\ older' = OlderWithout(V)
  BY <1>1
<1>3. /\ id \in DOMAIN seqs /\ UNCHANGED freeSlots
      /\ freeSnapshots' = freeSnapshots \cup V
  BY <1>2 DEF AppendToken, AcquireBlocks
<1>4. V \in SUBSET DOMAIN entries /\ \A s \in V : entries[s].pins = 0
  BY Candidates
<1>5. /\ n \in Nat /\ old \in Seq(Pages) /\ IsInjective(old) /\ Len(old) = BlocksFor(n)
      /\ client[id].prompt \in Prompts /\ n - Len(client[id].prompt) \in 0..MaxNew
  BY <1>3 DEF IInv, SeqPart
<1>6. need \in Nat /\ Len(old) + need = BlocksFor(n + 1)
  <2>1. /\ n + 1 \in Nat /\ n <= n + 1
    BY <1>5
  <2>2. /\ BlocksFor(n) \in Nat /\ BlocksFor(n + 1) \in Nat
        /\ BlocksFor(n) <= BlocksFor(n + 1)
    BY <1>5, <2>1, BlocksForFacts
  <2>3. /\ BlocksFor(n + 1) > Len(old) => need = BlocksFor(n + 1) - Len(old)
        /\ ~(BlocksFor(n + 1) > Len(old)) => need = 0
    BY DEF ExtraNeed
  <2>4. \A a, c \in Nat : /\ a <= c /\ c > a => c - a \in Nat /\ a + (c - a) = c
                          /\ a <= c /\ ~(c > a) => a + 0 = c
    OBVIOUS
  <2> HIDE DEF need, n, old
  <2>5. Len(old) = BlocksFor(n)
    BY <1>5
  <2>6. CASE BlocksFor(n + 1) > Len(old)
    BY <2>2, <2>3, <2>4, <2>5, <2>6
  <2>7. CASE ~(BlocksFor(n + 1) > Len(old))
    BY <2>2, <2>3, <2>4, <2>5, <2>7
  <2> QED BY <2>6, <2>7
<1> HIDE DEF need
<1>7. /\ fresh \in Seq(Pages) /\ Len(fresh) = need /\ IsInjective(fresh)
      /\ \A b \in Range(fresh) : SeqHolders(b) = {}
      /\ refs' \in [Pages -> Nat] /\ freePages' \subseteq Pages
  BY <1>2, <1>4, <1>6, IInvImplies, AcquiredPages DEF IInv, PagePart
<1>8. \A b \in Range(old) : id \in SeqHolders(b)
  BY <1>3 DEF SeqHolders, SeqPages
<1>9. Range(old) \cap Range(fresh) = {}
  BY <1>7, <1>8
<1>10. /\ old \o fresh \in Seq(Pages) /\ Len(old \o fresh) = BlocksFor(n + 1)
       /\ IsInjective(old \o fresh)
       /\ Range(old \o fresh) = Range(old) \cup Range(fresh)
  <2> HIDE DEF n, old
  <2>1. /\ old \in Seq(Pages) /\ IsInjective(old)
        /\ fresh \in Seq(Pages) /\ IsInjective(fresh)
        /\ Len(old) + Len(fresh) = BlocksFor(n + 1)
    BY <1>5, <1>6, <1>7
  <2>2. /\ old \o fresh \in Seq(Pages)
        /\ Len(old \o fresh) = Len(old) + Len(fresh)
        /\ Range(old \o fresh) = Range(old) \cup Range(fresh)
    BY <2>1, JoinRange
  <2>3. IsInjective(old \o fresh)
    BY <1>9, <2>1, JoinSeq
  <2> QED BY <2>1, <2>2, <2>3
<1>11. /\ n + 1 \in Nat /\ (n + 1) - Len(client[id].prompt) \in 0..MaxNew
  <2>1. client[id].prompt \in Seq(UNION {Range(q) : q \in Prompts}) /\ MaxNew \in Nat
    BY <1>5, PromptsAssumption
  <2>2. Len(client[id].prompt) \in Nat
    BY <2>1, LenProperties
  <2>3. \A a, l, m \in Nat : a - l \in 0..m /\ a < l + m => (a + 1) - l \in 0..m
    OBVIOUS
  <2>4. n < Len(client[id].prompt) + MaxNew
    OBVIOUS
  <2> HIDE DEF n
  <2>5. n + 1 \in Nat
    BY <1>5
  <2> QED BY <1>5, <2>1, <2>2, <2>3, <2>4, <2>5
<1>12. seqs' = [seqs EXCEPT ![id].tokens = n + 1, ![id].blocks = old \o fresh]
  <2>1. seqs[id] \in [slot : Slots, blocks : Seq(Pages), tokens : Nat]
    BY <1>3 DEF IInv, SeqPart
  <2> QED BY <1>2, <1>3, <2>1
<1> HIDE DEF n, old
<1>13. /\ SeqPart' /\ SlotsExact'
       /\ DOMAIN seqs' = DOMAIN seqs /\ seqs'[id].blocks = old \o fresh
       /\ \A i \in DOMAIN seqs : i # id => seqs'[i] = seqs[i]
  <2>1. /\ old \o fresh \in Seq(Pages) /\ Len(old \o fresh) = BlocksFor(n + 1)
        /\ IsInjective(old \o fresh)
    BY <1>10
  <2>2. UNCHANGED <<client, freeSlots>> /\ id \in DOMAIN seqs
    BY <1>3
  <2> DEFINE m == n + 1
             table == old \o fresh
  <2>3. table \in Seq(Pages) /\ Len(table) = BlocksFor(m) /\ IsInjective(table)
    BY <2>1
  <2>4. m \in Nat /\ m - Len(client[id].prompt) \in 0..MaxNew
    BY <1>11
  <2>5. seqs' = [seqs EXCEPT ![id].tokens = m, ![id].blocks = table]
    BY <1>12
  <2> HIDE DEF m, table
  <2>6. /\ SeqPart' /\ SlotsExact'
        /\ DOMAIN seqs' = DOMAIN seqs /\ seqs'[id].blocks = table
        /\ \A i \in DOMAIN seqs : i # id => seqs'[i] = seqs[i]
    BY <2>2, <2>3, <2>4, <2>5, TableChanged
  <2> QED BY <2>6 DEF table
<1>14. /\ DOMAIN entries' = DOMAIN entries \ V
       /\ \A s \in DOMAIN entries \ V : entries'[s] = entries[s]
       /\ \A s \in DOMAIN entries \ V :
            /\ entries'[s].tokens = entries[s].tokens
            /\ entries'[s].blocks = entries[s].blocks
            /\ entries'[s] \in [tokens : Seq(Tokens), blocks : Seq(Pages), pins : Nat]
  BY <1>2, <1>4, WithoutEntries DEF IInv
<1>15. /\ EntryPart' /\ SnapshotsExact'
       /\ \A b : EntryHolders(DOMAIN entries, b)' = EntryHolders(DOMAIN entries \ V, b)
  BY <1>3, <1>4, <1>14, EntriesEvicted DEF IInv
<1>16. RefsExact'
  <2>1. TypeOK /\ IsFiniteSet(DOMAIN seqs) /\ RefsExact
    BY IInvImplies DEF IInv, PagePart
  <2>2. Sharable({}, V, id) /\ {} \in SUBSET Pages
    BY DEF Sharable
  <2>3. Joined(Range(fresh) \cup {}, V, id)
    <3>1. \A b, i : i # id => (i \in SeqHolders(b)' <=> i \in SeqHolders(b))
      BY <1>13 DEF SeqHolders, SeqPages
    <3>2. \A b : id \in SeqHolders(b)' <=> b \in Range(old \o fresh)
      BY <1>3, <1>13 DEF SeqHolders, SeqPages
    <3>3. \A b : id \in SeqHolders(b) <=> b \in Range(old)
      BY <1>3 DEF SeqHolders, SeqPages, old
    <3>4. \A b : id \in SeqHolders(b)' <=> id \in SeqHolders(b) \/ b \in Range(fresh)
      BY <1>10, <3>2, <3>3
    <3>5. \A b : /\ SeqHolders(b)' = {i \in DOMAIN seqs : i \in SeqHolders(b)'}
                 /\ SeqHolders(b) = {i \in DOMAIN seqs : i \in SeqHolders(b)}
      BY <1>13 DEF SeqHolders
    <3>6. \A b : b \in Range(fresh) =>
            {i \in DOMAIN seqs : i \in SeqHolders(b)'}
              = {i \in DOMAIN seqs : i \in SeqHolders(b)} \cup {id}
      BY <1>3, <3>1, <3>4
    <3>7. \A b : b \notin Range(fresh) =>
            {i \in DOMAIN seqs : i \in SeqHolders(b)'}
              = {i \in DOMAIN seqs : i \in SeqHolders(b)}
      BY <3>1, <3>4
    <3>8. \A b : /\ b \in Range(fresh) => SeqHolders(b)' = SeqHolders(b) \cup {id}
                 /\ b \notin Range(fresh) => SeqHolders(b)' = SeqHolders(b)
      BY <3>5, <3>6, <3>7
    <3> QED BY <1>15, <3>8 DEF Joined
  <2>4. AcquireBlocks(need, {}, V, fresh, {})
    BY <1>2
  <2> QED BY <1>4, <1>6, <2>1, <2>2, <2>3, <2>4, TableAdded
<1>17. PinsExact'
  <2>1. \A s \in V : \A i \in DOMAIN client : s \notin client[i].restore
    BY <1>4, UnpinnedNotDue DEF IInv
  <2> QED BY <1>4, <1>14, <2>1, PinsKept DEF IInv
<1>18. SavingPart' /\ OlderPart'
  BY <1>2 DEF IInv, SavingPart, OlderPart, OlderWithout
<1> QED BY <1>7, <1>13, <1>15, <1>16, <1>17, <1>18 DEF IInv, PagePart

\* rollback_token returns the pages the shorter table does not need.
LEMMA ShrinkStep ==
  ASSUME IInv, NEW id \in Ids, Shrink(id)
  PROVE  IInv'
<1> DEFINE n == seqs[id].tokens
           old == seqs[id].blocks
           len == Len(old)
           keep == BlocksFor(n - 1)
           table == SubSeq(old, 1, keep)
           gone == Range(SubSeq(old, keep + 1, len))
<1>1. /\ id \in DOMAIN seqs
      /\ ReleasePages(gone)
      /\ seqs' = [seqs EXCEPT ![id].tokens = @ - 1, ![id].blocks = table]
      /\ UNCHANGED <<freeSlots, freeSnapshots, entries, older, client, saving>>
      /\ n > Len(client[id].prompt)
  BY DEF Shrink, RollbackToken
<1>2. /\ n \in Nat /\ old \in Seq(Pages) /\ IsInjective(old) /\ len = BlocksFor(n)
      /\ client[id].prompt \in Prompts /\ n - Len(client[id].prompt) \in 0..MaxNew
      /\ seqs[id] \in [slot : Slots, blocks : Seq(Pages), tokens : Nat]
  BY <1>1 DEF IInv, SeqPart
<1>3. n - 1 \in Nat /\ (n - 1) - Len(client[id].prompt) \in 0..MaxNew
  <2>1. client[id].prompt \in Seq(UNION {Range(q) : q \in Prompts}) /\ MaxNew \in Nat
    BY <1>2, PromptsAssumption
  <2>2. Len(client[id].prompt) \in Nat
    BY <2>1, LenProperties
  <2>3. \A a, l, m \in Nat : a - l \in 0..m /\ a > l => a - 1 \in Nat /\ (a - 1) - l \in 0..m
    OBVIOUS
  <2> HIDE DEF n
  <2> QED BY <1>1, <1>2, <2>1, <2>2, <2>3
<1>4. keep \in 0..len /\ len \in Nat
  <2>1. \A a \in Nat : a - 1 \in Nat => a - 1 <= a
    OBVIOUS
  <2>2. BlocksFor(n - 1) \in Nat /\ BlocksFor(n) \in Nat /\ BlocksFor(n - 1) <= BlocksFor(n)
    BY <1>2, <1>3, <2>1, BlocksForFacts
  <2> HIDE DEF n
  <2> QED BY <1>2, <2>2
<1>5. /\ table \in Seq(Pages) /\ Len(table) = keep /\ IsInjective(table)
      /\ Range(table) = Range(old) \ gone
  <2> HIDE DEF keep, old
  <2>1. table \in Seq(Pages) /\ Len(table) = keep /\ IsInjective(table)
    BY <1>2, <1>4, PrefixOfSeq
  <2>2. Range(table) = Range(old) \ gone
    BY <1>2, <1>4, SplitSeq
  <2> QED BY <2>1, <2>2
<1>6. gone \subseteq Range(old) /\ Range(old) \subseteq Pages
  <2> HIDE DEF keep, old
  <2>1. Range(old) \subseteq Pages
    BY <1>2, LenProperties, ElementOfSeq DEF Range
  <2>2. ASSUME NEW x \in gone PROVE x \in Range(old)
    <3>1. PICK i \in DOMAIN SubSeq(old, keep + 1, len) : x = SubSeq(old, keep + 1, len)[i]
      BY DEF Range
    <3>2. /\ DOMAIN SubSeq(old, keep + 1, len) = 1..(len - keep)
          /\ \A j \in 1..(len - keep) : SubSeq(old, keep + 1, len)[j] = old[keep + j]
      BY <1>2, <1>4, RestOfSeq
    <3>5. i \in 1..(len - keep) /\ x = old[keep + i]
      BY <3>1, <3>2
    <3>3. keep + i \in 1..len
      BY <1>4, <3>5
    <3>4. keep + i \in DOMAIN old
      BY <1>2, <3>3, LenProperties
    <3> QED BY <3>4, <3>5 DEF Range
  <2> QED BY <2>1, <2>2
<1>7. seqs' = [seqs EXCEPT ![id].tokens = n - 1, ![id].blocks = table]
  BY <1>1, <1>2
<1> HIDE DEF n, keep, len, table, gone
<1>8. /\ SeqPart' /\ SlotsExact'
      /\ DOMAIN seqs' = DOMAIN seqs /\ seqs'[id].blocks = table
      /\ \A i \in DOMAIN seqs : i # id => seqs'[i] = seqs[i]
  <2>1. UNCHANGED <<client, freeSlots>> /\ Len(table) = BlocksFor(n - 1)
    BY <1>1, <1>5 DEF keep
  <2> QED BY <1>1, <1>3, <1>5, <1>7, <2>1, TableChanged
<1>9. PagePart'
  <2>1. \A b \in Pages : EntryHolders(DOMAIN entries, b)' = EntryHolders(DOMAIN entries, b)
    BY <1>1 DEF EntryHolders, EntryPages
  <2>2. \A b : b \notin gone => SeqHolders(b)' = SeqHolders(b)
    BY <1>1, <1>5, <1>8 DEF SeqHolders, SeqPages
  <2>3. \A b \in gone : id \in SeqHolders(b) /\ SeqHolders(b)' = SeqHolders(b) \ {id}
    BY <1>1, <1>5, <1>6, <1>8 DEF SeqHolders, SeqPages
  <2>4. gone \in SUBSET Pages /\ ReleasePages(gone)
    BY <1>1, <1>6
  <2>5. TypeOK /\ IsFiniteSet(DOMAIN seqs) /\ RefsExact
    BY IInvImplies DEF IInv, PagePart
  <2> QED BY <2>1, <2>2, <2>3, <2>4, <2>5, PagesReleased DEF PagePart
<1>10. EntryPart' /\ SnapshotsExact' /\ PinsExact'
  BY <1>1 DEF IInv, EntryPart, SnapshotsExact, PinsExact
<1>11. SavingPart' /\ OlderPart'
  BY <1>1 DEF IInv, SavingPart, OlderPart
<1> QED BY <1>8, <1>9, <1>10, <1>11 DEF IInv

\* commit_snapshot stores the state of a live sequence as a new entry.
LEMMA StoreStep ==
  ASSUME IInv, NEW s \in DOMAIN saving, NEW id \in DOMAIN client,
         NEW k \in BlockSize..Len(client[id].prompt),
         StoreSnapshot(s, id, SubSeq(client[id].prompt, 1, k)),
         saving' = Without(saving, {s}), UNCHANGED client
  PROVE  IInv'
<1> DEFINE prompt == client[id].prompt
           tokens == SubSeq(prompt, 1, k)
           old == seqs[id].blocks
           blocks == SubSeq(old, 1, BlocksFor(Len(tokens)))
<1>1. /\ refs' = [b \in Pages |-> IF b \in Range(blocks) THEN refs[b] + 1 ELSE refs[b]]
      /\ entries' = With(entries, s, [tokens |-> tokens, blocks |-> blocks, pins |-> 0])
      /\ older' = OlderUsing(s, {})
      /\ UNCHANGED <<freePages, freeSlots, freeSnapshots, seqs>>
  BY DEF StoreSnapshot
<1>2. /\ DOMAIN saving' = DOMAIN saving \ {s}
      /\ \A t \in DOMAIN saving' : saving'[t] = saving[t]
      /\ s \in Snapshots /\ s \notin DOMAIN entries
  BY DEF Without, IInv, SavingPart, SnapshotsExact
<1>3. /\ id \in DOMAIN seqs /\ prompt \in Prompts
      /\ seqs[id].tokens \in Nat /\ old \in Seq(Pages) /\ IsInjective(old)
      /\ Len(old) = BlocksFor(seqs[id].tokens)
      /\ seqs[id].tokens - Len(prompt) \in 0..MaxNew
  BY DEF IInv, SeqPart
<1>4. /\ prompt \in Seq(Tokens) /\ Len(prompt) \in Nat /\ MaxNew \in Nat
      /\ k \in 0..Len(prompt)
  <2>1. prompt \in Seq(Tokens) /\ MaxNew \in Nat
    BY <1>3, PromptsAssumption DEF Tokens
  <2>2. Len(prompt) \in Nat
    BY <2>1, LenProperties
  <2>3. BlockSize \in Nat
    BY CacheAssumption
  <2> QED BY <2>1, <2>2, <2>3
<1>5. tokens \in Seq(Tokens) /\ Len(tokens) = k
  BY <1>4, PrefixOfSeq
<1>6. BlocksFor(k) \in 0..Len(old)
  <2>1. k \in Nat /\ k <= seqs[id].tokens
    <3>1. \A a, l, m, c \in Nat : a - l \in 0..m /\ c <= l => c <= a
      OBVIOUS
    <3> HIDE DEF prompt
    <3> QED BY <1>3, <1>4, <3>1
  <2>2. /\ BlocksFor(k) \in Nat /\ BlocksFor(seqs[id].tokens) \in Nat
        /\ BlocksFor(k) <= BlocksFor(seqs[id].tokens)
    BY <1>3, <2>1, BlocksForFacts
  <2> QED BY <1>3, <2>2
<1>7. blocks = SubSeq(old, 1, BlocksFor(k))
  BY <1>5
<1> HIDE DEF prompt, tokens, old, blocks
<1>8. /\ blocks \in Seq(Pages) /\ Len(blocks) = BlocksFor(k) /\ IsInjective(blocks)
      /\ Range(blocks) \subseteq Range(old)
  BY <1>3, <1>6, <1>7, PrefixOfSeq
<1>9. /\ DOMAIN entries' = DOMAIN entries \cup {s}
      /\ entries'[s] = [tokens |-> tokens, blocks |-> blocks, pins |-> 0]
      /\ \A t \in DOMAIN entries : entries'[t] = entries[t]
  BY <1>1, <1>2 DEF With
<1>10. EntryPart'
  <2>1. entries'[s] \in [tokens : Seq(Tokens), blocks : Seq(Pages), pins : Nat]
    BY <1>5, <1>8, <1>9
  <2>2. /\ Len(entries'[s].blocks) = BlocksFor(Len(entries'[s].tokens))
        /\ IsInjective(entries'[s].blocks)
    BY <1>5, <1>8, <1>9
  <2> QED BY <1>2, <1>9, <2>1, <2>2 DEF IInv, EntryPart
<1>11. SnapshotsExact'
  BY <1>1, <1>2, <1>9 DEF IInv, SnapshotsExact
<1>12. PinsExact'
  <2>1. \A i \in DOMAIN client : s \notin client[i].restore
    BY <1>2 DEF IInv, PinsExact
  <2>2. {i \in DOMAIN client : s \in client[i].restore} = {}
    BY <2>1
  <2>3. entries'[s].pins = 0 /\ Cardinality({}) = 0
    BY <1>9, FS_EmptySet
  <2> QED BY <1>9, <2>2, <2>3 DEF IInv, PinsExact
<1>13. PagePart'
  <2>1. ASSUME NEW b \in Pages
        PROVE  /\ refs'[b] \in Nat
               /\ refs'[b] = Cardinality(SeqHolders(b)')
                             + Cardinality(EntryHolders(DOMAIN entries, b)')
               /\ b \in freePages' <=> refs'[b] = 0
    <3> DEFINE S == SeqHolders(b)
               K == EntryHolders(DOMAIN entries, b)
    <3>1. /\ IsFiniteSet(S) /\ Cardinality(S) \in Nat
          /\ IsFiniteSet(K) /\ Cardinality(K) \in Nat
      <4>1. TypeOK /\ IsFiniteSet(DOMAIN seqs) /\ RefsExact
        BY IInvImplies DEF IInv, PagePart
      <4>2. DOMAIN entries \ {} = DOMAIN entries /\ {} \in SUBSET DOMAIN entries
        OBVIOUS
      <4> QED BY <4>1, <4>2, HolderCounts
    <3>2. refs[b] = Cardinality(S) + Cardinality(K) /\ (b \in freePages <=> refs[b] = 0)
      BY DEF IInv, PagePart, RefsExact
    <3>3. SeqHolders(b)' = S
      BY <1>1 DEF SeqHolders, SeqPages
    <3>4. /\ b \in Range(blocks) => EntryHolders(DOMAIN entries, b)' = K \cup {s} /\ s \notin K
          /\ b \notin Range(blocks) => EntryHolders(DOMAIN entries, b)' = K
      <4>1. entries'[s].blocks = blocks
        BY <1>9
      <4> QED BY <1>2, <1>9, <4>1 DEF EntryHolders, EntryPages
    <3>5. b \in Range(blocks) => id \in S
      BY <1>3, <1>8 DEF SeqHolders, SeqPages, old
    <3>6. /\ b \in Range(blocks) => refs'[b] = refs[b] + 1
          /\ b \notin Range(blocks) => refs'[b] = refs[b]
          /\ freePages' = freePages
      BY <1>1
    <3> HIDE DEF S, K
    <3>7. CASE b \in Range(blocks)
      <4>1. Cardinality(K \cup {s}) = Cardinality(K) + 1
        BY <3>1, <3>4, <3>7, FS_AddElement
      <4>2. Cardinality(S) # 0
        BY <3>1, <3>5, <3>7, FS_EmptySet
      <4>3. refs[b] \in Nat /\ refs[b] # 0
        BY <3>1, <3>2, <4>2
      <4>4. refs'[b] = Cardinality(S) + (Cardinality(K) + 1)
        BY <3>1, <3>2, <3>6, <3>7
      <4>5. refs'[b] \in Nat /\ refs'[b] # 0 /\ b \notin freePages'
        BY <3>2, <3>6, <3>7, <4>3
      <4>6. SeqHolders(b)' = S /\ EntryHolders(DOMAIN entries, b)' = K \cup {s}
        BY <3>3, <3>4, <3>7
      <4> QED BY <4>1, <4>4, <4>5, <4>6
    <3>8. CASE b \notin Range(blocks)
      <4>1. SeqHolders(b)' = S /\ EntryHolders(DOMAIN entries, b)' = K
        BY <3>3, <3>4, <3>8
      <4> QED BY <3>1, <3>2, <3>6, <3>8, <4>1
    <3> QED BY <3>7, <3>8
  <2>2. refs' \in [Pages -> Nat] /\ freePages' \subseteq Pages
    <3>1. refs' = [b \in Pages |-> refs'[b]]
      BY <1>1
    <3> QED BY <1>1, <2>1, <3>1 DEF IInv, PagePart
  <2> QED BY <2>1, <2>2 DEF PagePart, RefsExact
<1>14. SeqPart' /\ SlotsExact'
  <2>1. UNCHANGED <<seqs, freeSlots, client>>
    BY <1>1
  <2>2. SeqPart'
    BY <2>1 DEF IInv, SeqPart
  <2> QED BY <2>1, <2>2 DEF IInv, SlotsExact
<1>15. SavingPart' /\ OlderPart'
  <2>1. SavingPart'
    BY <1>2 DEF IInv, SavingPart
  <2>2. OlderPart'
    BY <1>1, <1>2 DEF IInv, OlderPart, OlderUsing, OlderWithout, EntryPart
  <2> QED BY <2>1, <2>2
<1> QED BY <1>10, <1>11, <1>12, <1>13, <1>14, <1>15 DEF IInv

\* commit_snapshot finds the tokens cached already: the entry is only touched.
LEMMA TouchStep ==
  ASSUME IInv, NEW s \in DOMAIN saving, NEW tokens, TouchSnapshot(s, tokens),
         saving' = Without(saving, {s}), UNCHANGED client
  PROVE  IInv'
<1>1. PICK t \in DOMAIN entries : older' = OlderUsing(t, {})
  BY DEF TouchSnapshot
<1>2. /\ freeSnapshots' = freeSnapshots \cup {s}
      /\ UNCHANGED <<refs, freePages, freeSlots, seqs, entries, client>>
      /\ DOMAIN saving' = DOMAIN saving \ {s}
      /\ \A u \in DOMAIN saving' : saving'[u] = saving[u]
  BY DEF TouchSnapshot, Without
<1>3. SeqPart' /\ EntryPart' /\ SavingPart'
  BY <1>2 DEF IInv, SeqPart, EntryPart, SavingPart
<1>4. PagePart'
  BY <1>2 DEF IInv, PagePart, RefsExact, SeqHolders, EntryHolders, SeqPages, EntryPages
<1>5. SlotsExact' /\ PinsExact'
  BY <1>2 DEF IInv, SlotsExact, PinsExact
<1>6. SnapshotsExact'
  BY <1>2 DEF IInv, SnapshotsExact, SavingPart
<1>7. OlderPart'
  BY <1>1 DEF IInv, OlderPart, OlderUsing, OlderWithout, EntryPart
<1> QED BY <1>3, <1>4, <1>5, <1>6, <1>7 DEF IInv

\* commit_snapshot in its three outcomes.
LEMMA CommitStep == ASSUME IInv, NEW s \in Snapshots, Commit(s) PROVE IInv'
<1>1. s \in DOMAIN saving /\ saving' = Without(saving, {s}) /\ UNCHANGED client
  BY DEF Commit
<1>2. CASE saving[s] \notin DOMAIN client
  <2>1. saving[s] \notin DOMAIN seqs
    BY <1>2 DEF IInv, SeqPart
  <2>2. CommitSnapshot(s, saving[s], <<>>)
    BY <1>2 DEF Commit
  <2>3. CancelSnapshot(s)
    BY <2>1, <2>2 DEF CommitSnapshot
  <2> QED BY <1>1, <2>3, CancelStep
<1>3. CASE saving[s] \in DOMAIN client
  <2> DEFINE id == saving[s]
  <2>1. PICK k \in BlockSize..Len(client[id].prompt) :
          CommitSnapshot(s, id, SubSeq(client[id].prompt, 1, k))
    BY <1>3 DEF Commit
  <2>2. CASE CancelSnapshot(s)
    BY <1>1, <2>2, CancelStep
  <2>3. CASE TouchSnapshot(s, SubSeq(client[id].prompt, 1, k))
    BY <1>1, <2>3, TouchStep
  <2>4. CASE StoreSnapshot(s, id, SubSeq(client[id].prompt, 1, k))
    BY <1>1, <1>3, <2>4, StoreStep
  <2> QED BY <2>1, <2>2, <2>3, <2>4 DEF CommitSnapshot
<1> QED BY <1>2, <1>3

-----------------------------------------------------------------------------

\* append_token, granted or refused.
LEMMA GrowStep == ASSUME IInv, NEW id \in Ids, Grow(id) PROVE IInv'
<1>1. /\ id \in DOMAIN client /\ seqs[id].tokens < Len(client[id].prompt) + MaxNew
      /\ AppendToken(id) \/ AppendRefused(id)
      /\ UNCHANGED <<client, saving>>
  BY DEF Grow
<1>2. CASE AppendToken(id)
  BY <1>1, <1>2, AppendStep
<1>3. CASE AppendRefused(id)
  <2>1. AcquireRefused(ExtraNeed(id), {})
    BY <1>3 DEF AppendRefused
  <2>2. ExtraNeed(id) \in Nat
    <3>1. seqs[id].blocks \in Seq(Pages) /\ seqs[id].tokens \in Nat
      BY <1>1 DEF IInv, SeqPart
    <3>2. Len(seqs[id].blocks) \in Nat /\ seqs[id].tokens + 1 \in Nat
      BY <3>1, LenProperties
    <3>3. BlocksFor(seqs[id].tokens + 1) \in Nat
      BY <3>2, BlocksForFacts
    <3>4. \A a, c \in Nat : (IF a > c THEN a - c ELSE 0) \in Nat
      OBVIOUS
    <3> QED BY <3>2, <3>3, <3>4 DEF ExtraNeed
  <2> QED BY <1>1, <2>1, <2>2, RefusedStep
<1> QED BY <1>1, <1>2, <1>3

\* An admission that is refused, with a match or without.
LEMMA RefuseStep ==
  ASSUME IInv, NEW id \in Ids, NEW p \in Prompts, RefuseAdmission(id, p)
  PROVE  IInv'
<1>1. UNCHANGED <<client, saving>>
  BY DEF RefuseAdmission
<1>2. CASE AdmitRefused(id, Len(p))
  <2>1. AcquireRefused(BlocksFor(Len(p)), {})
    BY <1>2 DEF AdmitRefused
  <2>2. BlocksFor(Len(p)) \in Nat
    <3>1. p \in Seq(UNION {Range(q) : q \in Prompts})
      BY PromptsAssumption
    <3> QED BY <3>1, LenProperties, BlocksForFacts
  <2> QED BY <1>1, <2>1, <2>2, RefusedStep
<1>3. CASE \E s \in DOMAIN entries : AdmitHitRefused(id, p, s)
  <2>1. PICK s \in DOMAIN entries : BestMatch(s, p) /\ AcquireRefused(FreshNeed(s, p), {s})
    BY <1>3 DEF AdmitHitRefused
  <2>2. FreshNeed(s, p) \in Nat
    BY <2>1, SharedPrefix
  <2> QED BY <1>1, <2>1, <2>2, RefusedStep
<1> QED BY <1>2, <1>3 DEF RefuseAdmission

\* Every call of the protocol keeps the inductive invariant.
LEMMA Inductive == IInv /\ [Next]_vars => IInv'
<1> SUFFICES ASSUME IInv, [Next]_vars PROVE IInv'
  OBVIOUS
<1>1. ASSUME NEW id \in Ids, NEW p \in Prompts, AdmitFresh(id, p) PROVE IInv'
  BY <1>1, AdmitFreshStep
<1>2. ASSUME NEW id \in Ids, NEW p \in Prompts, AdmitCached(id, p) PROVE IInv'
  BY <1>2, AdmitCachedStep
<1>3. ASSUME NEW id \in Ids, NEW p \in Prompts, RefuseAdmission(id, p) PROVE IInv'
  BY <1>3, RefuseStep
<1>4. ASSUME NEW id \in Ids, Restored(id) PROVE IInv'
  BY <1>4, RestoredStep
<1>5. ASSUME NEW id \in Ids, Grow(id) PROVE IInv'
  BY <1>5, GrowStep
<1>6. ASSUME NEW id \in Ids, Shrink(id) PROVE IInv'
  BY <1>6, ShrinkStep
<1>7. ASSUME NEW id \in Ids, Leave(id) PROVE IInv'
  BY <1>7, LeaveStep
<1>8. ASSUME NEW id \in Ids, NEW s \in Snapshots, Reserve(id, s) PROVE IInv'
  BY <1>8, ReserveStep
<1>9. ASSUME NEW s \in Snapshots, Cancel(s) PROVE IInv'
  BY <1>9, CancelStep DEF Cancel
<1>10. ASSUME NEW s \in Snapshots, Commit(s) PROVE IInv'
  BY <1>10, CommitStep
<1>11. CASE UNCHANGED vars
  BY <1>11, Stuttering
<1> QED
  BY <1>1, <1>2, <1>3, <1>4, <1>5, <1>6, <1>7, <1>8, <1>9, <1>10, <1>11 DEF Next

\* The inductive invariant holds in every reachable state.
LEMMA Invariance == Spec => []IInv
BY Initial, Inductive, PTL DEF Spec

\* The cache manager and its callers keep their types: in particular every
\* page count is a natural number, so KvPool::release never underflows and
\* retain never touches a page outside the pool.
THEOREM TypeCorrect == Spec => []TypeOK
<1>1. IInv => TypeOK
  BY IInvImplies
<1> QED BY <1>1, Invariance, PTL

\* Every page table covers exactly its tokens, without a repeated page,
\* whatever was admitted, shared, appended, rolled back or evicted before.
THEOREM PageTables == Spec => []TablesCover
<1>1. IInv => TablesCover
  BY IInvImplies
<1> QED BY <1>1, Invariance, PTL

\* KvPool::refs counts every owner once: no page is free while a sequence or
\* an entry holds it (no write to foreign KV), and none is lost when nobody does.
THEOREM ReferenceCounting == Spec => []RefsExact
<1>1. IInv => RefsExact
  BY DEF IInv, PagePart
<1> QED BY <1>1, Invariance, PTL

\* StatePool hands every recurrent state slot to at most one sequence, and
\* gets it back.
THEOREM SlotOwnership == Spec => []SlotsExact
<1>1. IInv => SlotsExact
  BY DEF IInv
<1> QED BY <1>1, Invariance, PTL

\* A snapshot slot is free, reserved or cached, never two of these: a batch in
\* flight cannot overwrite a cached recurrent state.
THEOREM SnapshotOwnership == Spec => []SnapshotsExact
<1>1. IInv => SnapshotsExact
  BY DEF IInv
<1> QED BY <1>1, Invariance, PTL

\* PrefixEntry::pins counts the sequences that have yet to restore the entry,
\* and such an entry is still in the cache: a restore never reads an evicted
\* snapshot.
THEOREM PinCounting == Spec => []PinsExact
<1>1. IInv => PinsExact
  BY DEF IInv
<1> QED BY <1>1, Invariance, PTL

-----------------------------------------------------------------------------
(* What eviction can reach.                                                *)

\* The test of evict_one, more owners than there are entries with the page,
\* finds exactly the pages of live sequences.
LEMMA LiveMeansHeld ==
  ASSUME IInv, NEW b \in Pages
  PROVE  Live(b) <=> SeqHolders(b) # {}
<1> DEFINE s == Cardinality(SeqHolders(b))
           k == Cardinality(EntryHolders(DOMAIN entries, b))
<1>1. TypeOK /\ IsFiniteSet(DOMAIN seqs) /\ RefsExact
  BY IInvImplies DEF IInv, PagePart
<1>2. IsFiniteSet(SeqHolders(b)) /\ s \in Nat /\ k \in Nat
  <2>1. DOMAIN entries \ {} = DOMAIN entries /\ {} \in SUBSET DOMAIN entries
    OBVIOUS
  <2> QED BY <1>1, <2>1, HolderCounts
<1>3. s = 0 <=> SeqHolders(b) = {}
  BY <1>2, FS_EmptySet
<1>4. refs[b] = s + k
  BY <1>1 DEF RefsExact
<1>5. Live(b) <=> refs[b] > k
  BY DEF Live
<1> HIDE DEF s, k
<1> QED BY <1>2, <1>3, <1>4, <1>5

\* From the counts alone: what the candidates of evict_one would free, with the
\* free pages, is every page that no sequence and no pinned entry holds.
LEMMA EvictionIsEnough == IInv => Reclaimable
<1> SUFFICES ASSUME IInv PROVE Reclaimable
  OBVIOUS
<1> DEFINE V == PageCandidates({})
<1>1. TypeOK /\ IsFiniteSet(DOMAIN seqs) /\ RefsExact
  BY IInvImplies DEF IInv, PagePart
<1>2. V \in SUBSET DOMAIN entries
  BY DEF PageCandidates, Unpinned
<1>3. ASSUME NEW b \in Pages
      PROVE  b \in freePages \cup Freed(V) <=> b \notin SequencePages \cup PinnedPages
  <2>1. b \in freePages \cup Freed(V)
          <=> SeqHolders(b) = {} /\ EntryHolders(DOMAIN entries \ V, b) = {}
    BY <1>1, <1>2, FreeOrFreed
  <2>2. SeqHolders(b) = {} <=> b \notin SequencePages
    BY DEF SeqHolders, SequencePages
  <2>3. ASSUME SeqHolders(b) = {}
        PROVE  EntryHolders(DOMAIN entries \ V, b) = {} <=> b \notin PinnedPages
    <3>1. ~Live(b)
      BY <2>3, LiveMeansHeld
    <3>2. ASSUME NEW s \in DOMAIN entries, b \in EntryPages(s)
          PROVE  s \in V <=> ~(entries[s].pins > 0)
      <4>1. entries[s].pins \in Nat
        BY DEF IInv, EntryPart
      <4>2. entries[s].pins = 0 <=> ~(entries[s].pins > 0)
        BY <4>1
      <4> QED BY <3>1, <3>2, <4>2 DEF PageCandidates, Unpinned
    <3> QED BY <3>2 DEF EntryHolders, PinnedPages
  <2> QED BY <2>1, <2>2, <2>3
<1>4. freePages \cup Freed(V) \subseteq Pages
  BY <1>1, FreedPages DEF TypeOK
<1>5. freePages \cup Freed(V) = Pages \ (SequencePages \cup PinnedPages)
  <2> HIDE DEF V
  <2> QED BY <1>3, <1>4
<1> QED BY <1>5 DEF Reclaimable

\* acquire_blocks fails only for want of pages that are really in use: the
\* filter of evict_one never passes over an entry whose eviction would help.
THEOREM EvictionReclaims == Spec => []Reclaimable
BY EvictionIsEnough, Invariance, PTL

-----------------------------------------------------------------------------
(* The ranking of the entries.                                              *)

\* Evicted entries leave the ranking by last use; it stays a strict order.
LEMMA RankWithout ==
  ASSUME EntriesRanked, NEW V,
         DOMAIN entries' = DOMAIN entries \ V,
         \A t \in DOMAIN entries \ V : entries'[t].tokens = entries[t].tokens,
         older' = OlderWithout(V)
  PROVE  EntriesRanked'
<1>1. \A s, t : s \notin V /\ t \notin V => (<<s, t>> \in older' <=> <<s, t>> \in older)
  BY DEF OlderWithout
<1>2. \A p \in older' : p[1] \notin V /\ p[2] \notin V /\ p \in older
  BY DEF OlderWithout
<1>3. \A s, t \in DOMAIN entries' :
        s # t => /\ entries'[s].tokens # entries'[t].tokens
                 /\ <<s, t>> \in older' <=> <<t, s>> \notin older'
  BY <1>1 DEF EntriesRanked
<1>4. \A s, t, u \in DOMAIN entries' :
        <<s, t>> \in older' /\ <<t, u>> \in older' => <<s, u>> \in older'
  BY <1>1 DEF EntriesRanked
<1>5. \A p \in older' : p[1] # p[2] /\ {p[1], p[2]} \subseteq DOMAIN entries'
  BY <1>2 DEF EntriesRanked
<1> QED BY <1>3, <1>4, <1>5 DEF EntriesRanked

\* An entry that is used, or stored, becomes the most recent one.
LEMMA RankUsing ==
  ASSUME EntriesRanked, NEW V, NEW s, s \notin V,
         DOMAIN entries' = (DOMAIN entries \ V) \cup {s},
         \A t \in DOMAIN entries \ V : t # s => entries'[t].tokens = entries[t].tokens,
         \A t \in DOMAIN entries \ V : t # s => entries'[s].tokens # entries[t].tokens,
         older' = OlderUsing(s, V)
  PROVE  EntriesRanked'
<1> DEFINE rest == DOMAIN entries \ (V \cup {s})
<1>1. \A t, u \in rest : <<t, u>> \in older' <=> <<t, u>> \in older
  BY DEF OlderUsing, OlderWithout
<1>2. \A t \in rest : <<t, s>> \in older' /\ <<s, t>> \notin older'
  BY DEF OlderUsing, OlderWithout
<1>3. <<s, s>> \notin older'
  BY DEF OlderUsing, OlderWithout
<1>4. DOMAIN entries' = rest \cup {s} /\ s \notin rest
  OBVIOUS
<1>5. /\ \A t, u \in rest : t # u => /\ entries'[t].tokens # entries'[u].tokens
                                     /\ <<t, u>> \in older <=> <<u, t>> \notin older
      /\ \A t \in rest : entries'[s].tokens # entries'[t].tokens
      /\ \A t, u, v \in rest : <<t, u>> \in older /\ <<u, v>> \in older => <<t, v>> \in older
  BY DEF EntriesRanked
<1>6. \A p \in older' : p[1] # p[2] /\ {p[1], p[2]} \subseteq rest \cup {s}
  <2>1. ASSUME NEW p \in OlderWithout(V \cup {s})
        PROVE  p[1] # p[2] /\ {p[1], p[2]} \subseteq rest
    <3>1. p \in older /\ p[1] \notin V \cup {s} /\ p[2] \notin V \cup {s}
      BY DEF OlderWithout
    <3> QED BY <3>1 DEF EntriesRanked
  <2>2. ASSUME NEW p \in rest \X {s}
        PROVE  p[1] # p[2] /\ {p[1], p[2]} \subseteq rest \cup {s}
    BY <1>4
  <2> QED BY <2>1, <2>2 DEF OlderUsing
<1> HIDE DEF rest
<1>7. \A t, u \in DOMAIN entries' :
        t # u => /\ entries'[t].tokens # entries'[u].tokens
                 /\ <<t, u>> \in older' <=> <<u, t>> \notin older'
  BY <1>1, <1>2, <1>4, <1>5
<1>8. \A t, u, v \in DOMAIN entries' :
        <<t, u>> \in older' /\ <<u, v>> \in older' => <<t, v>> \in older'
  BY <1>1, <1>2, <1>3, <1>4, <1>5
<1> QED BY <1>4, <1>6, <1>7, <1>8 DEF EntriesRanked

\* The ranking depends on the tokens of the entries and their order of use.
LEMMA RankSame ==
  ASSUME EntriesRanked, DOMAIN entries' = DOMAIN entries,
         \A t \in DOMAIN entries : entries'[t].tokens = entries[t].tokens,
         UNCHANGED older
  PROVE  EntriesRanked'
<1>1. /\ \A s, t \in DOMAIN entries' :
           s # t => /\ entries'[s].tokens # entries'[t].tokens
                    /\ <<s, t>> \in older' <=> <<t, s>> \notin older'
  BY DEF EntriesRanked
<1>2. \A s, t, u \in DOMAIN entries' :
        <<s, t>> \in older' /\ <<t, u>> \in older' => <<s, u>> \in older'
  BY DEF EntriesRanked
<1>3. \A p \in older' : p[1] # p[2] /\ {p[1], p[2]} \subseteq DOMAIN entries'
  BY DEF EntriesRanked
<1> QED BY <1>1, <1>2, <1>3 DEF EntriesRanked

\* Eviction only drops entries from the ranking.
LEMMA RankEvicted ==
  ASSUME EntriesRanked, NEW V, entries' = Without(entries, V), older' = OlderWithout(V)
  PROVE  EntriesRanked'
<1>1. /\ DOMAIN entries' = DOMAIN entries \ V
      /\ \A t \in DOMAIN entries \ V : entries'[t].tokens = entries[t].tokens
  BY DEF Without
<1> QED BY <1>1, RankWithout

\* A pin taken back leaves the ranking alone.
LEMMA RankUnpinned ==
  ASSUME EntriesRanked, IInv, NEW due, entries' = Unpin(due), UNCHANGED older
  PROVE  EntriesRanked'
<1>1. DOMAIN entries' = DOMAIN entries
  BY DEF Unpin
<1>2. ASSUME NEW t \in DOMAIN entries PROVE entries'[t].tokens = entries[t].tokens
  <2>1. entries[t] \in [tokens : Seq(Tokens), blocks : Seq(Pages), pins : Nat]
    BY DEF IInv, EntryPart
  <2>2. entries'[t] = [entries[t] EXCEPT !.pins = @ - 1] \/ entries'[t] = entries[t]
    BY DEF Unpin
  <2> QED BY <2>1, <2>2
<1> QED BY <1>1, <1>2, RankSame

\* A hit evicts other entries and makes the matched one the most recent.
LEMMA RankHit ==
  ASSUME EntriesRanked, IInv, NEW id, NEW p, NEW s \in DOMAIN entries, AdmitHit(id, p, s)
  PROVE  EntriesRanked'
<1>1. PICK V \in SUBSET PageCandidates({s}) :
        /\ entries' = [Without(entries, V) EXCEPT ![s].pins = @ + 1]
        /\ older' = OlderUsing(s, V)
  BY DEF AdmitHit
<1>2. s \notin V
  BY DEF PageCandidates, Unpinned
<1>3. /\ DOMAIN entries' = DOMAIN entries \ V
      /\ entries'[s] = [entries[s] EXCEPT !.pins = @ + 1]
      /\ \A t \in DOMAIN entries \ V : t # s => entries'[t] = entries[t]
  BY <1>1, <1>2 DEF Without
<1>4. entries'[s].tokens = entries[s].tokens
  <2>1. entries[s] \in [tokens : Seq(Tokens), blocks : Seq(Pages), pins : Nat]
    BY DEF IInv, EntryPart
  <2> QED BY <1>3, <2>1
<1>5. DOMAIN entries' = (DOMAIN entries \ V) \cup {s}
  BY <1>2, <1>3
<1>6. \A t \in DOMAIN entries \ V : t # s => /\ entries'[t].tokens = entries[t].tokens
                                            /\ entries'[s].tokens # entries[t].tokens
  BY <1>3, <1>4 DEF EntriesRanked
<1> QED BY <1>1, <1>2, <1>5, <1>6, RankUsing

\* commit_snapshot stores tokens that no entry has, or touches the one that has.
LEMMA RankCommitted ==
  ASSUME EntriesRanked, IInv, NEW s \in DOMAIN saving, NEW id, NEW tokens,
         CommitSnapshot(s, id, tokens)
  PROVE  EntriesRanked'
<1>1. CASE CancelSnapshot(s)
  BY <1>1, RankSame DEF CancelSnapshot
<1>2. CASE TouchSnapshot(s, tokens)
  <2>1. PICK t \in DOMAIN entries : older' = OlderUsing(t, {}) /\ entries' = entries
    BY <1>2 DEF TouchSnapshot
  <2>2. t \notin {} /\ DOMAIN entries' = (DOMAIN entries \ {}) \cup {t}
    BY <2>1
  <2>3. \A u \in DOMAIN entries \ {} : u # t => /\ entries'[u].tokens = entries[u].tokens
                                               /\ entries'[t].tokens # entries[u].tokens
    BY <2>1 DEF EntriesRanked
  <2> QED BY <2>1, <2>2, <2>3, RankUsing
<1>3. CASE StoreSnapshot(s, id, tokens)
  <2> DEFINE blocks == SubSeq(seqs[id].blocks, 1, BlocksFor(Len(tokens)))
  <2>1. /\ older' = OlderUsing(s, {})
        /\ entries' = With(entries, s, [tokens |-> tokens, blocks |-> blocks, pins |-> 0])
        /\ \A t \in DOMAIN entries : entries[t].tokens # tokens
    BY <1>3 DEF StoreSnapshot
  <2> HIDE DEF blocks
  <2>2. /\ DOMAIN entries' = DOMAIN entries \cup {s}
        /\ entries'[s].tokens = tokens
        /\ \A t \in DOMAIN entries : t # s => entries'[t] = entries[t]
    BY <2>1 DEF With
  <2>3. s \notin {} /\ DOMAIN entries' = (DOMAIN entries \ {}) \cup {s}
    BY <2>2
  <2>4. \A u \in DOMAIN entries \ {} : u # s => /\ entries'[u].tokens = entries[u].tokens
                                               /\ entries'[s].tokens # entries[u].tokens
    BY <2>1, <2>2
  <2> QED BY <2>1, <2>3, <2>4, RankUsing
<1> QED BY <1>1, <1>2, <1>3 DEF CommitSnapshot

\* Every call of the protocol keeps the ranking.
LEMMA RankInductive == IInv /\ EntriesRanked /\ [Next]_vars => EntriesRanked'
<1> SUFFICES ASSUME IInv, EntriesRanked, [Next]_vars PROVE EntriesRanked'
  OBVIOUS
<1>1. ASSUME NEW id \in Ids, NEW p \in Prompts, AdmitFresh(id, p) PROVE EntriesRanked'
  BY <1>1, RankEvicted DEF AdmitFresh, Admit
<1>2. ASSUME NEW id \in Ids, NEW p \in Prompts, AdmitCached(id, p) PROVE EntriesRanked'
  BY <1>2, RankHit DEF AdmitCached
<1>3. ASSUME NEW id \in Ids, NEW p \in Prompts, RefuseAdmission(id, p) PROVE EntriesRanked'
  BY <1>3, RankEvicted DEF RefuseAdmission, AdmitRefused, AdmitHitRefused, AcquireRefused
<1>4. ASSUME NEW id \in Ids, Restored(id) PROVE EntriesRanked'
  BY <1>4, RankUnpinned DEF Restored, FinishRestore
<1>5. ASSUME NEW id \in Ids, Grow(id) PROVE EntriesRanked'
  BY <1>5, RankEvicted DEF Grow, AppendToken, AppendRefused, AcquireRefused
<1>6. ASSUME NEW id \in Ids, Shrink(id) PROVE EntriesRanked'
  <2>1. UNCHANGED <<entries, older>>
    BY <1>6 DEF Shrink, RollbackToken
  <2> QED BY <2>1, RankSame
<1>7. ASSUME NEW id \in Ids, Leave(id) PROVE EntriesRanked'
  BY <1>7, RankUnpinned DEF Leave, Release
<1>8. ASSUME NEW id \in Ids, NEW s \in Snapshots, Reserve(id, s) PROVE EntriesRanked'
  <2>1. \/ UNCHANGED <<entries, older>>
        \/ entries' = Without(entries, {s}) /\ older' = OlderWithout({s})
    BY <1>8 DEF Reserve, ReserveSnapshot
  <2> QED BY <2>1, RankSame, RankEvicted
<1>9. ASSUME NEW s \in Snapshots, Cancel(s) PROVE EntriesRanked'
  <2>1. UNCHANGED <<entries, older>>
    BY <1>9 DEF Cancel, CancelSnapshot
  <2> QED BY <2>1, RankSame
<1>10. ASSUME NEW s \in Snapshots, Commit(s) PROVE EntriesRanked'
  <2>1. s \in DOMAIN saving /\ \E id, tokens : CommitSnapshot(s, id, tokens)
    BY <1>10 DEF Commit
  <2> QED BY <2>1, RankCommitted
<1>11. CASE UNCHANGED vars
  <2>1. UNCHANGED <<entries, older>>
    BY <1>11 DEF vars, cacheVars
  <2> QED BY <2>1, RankSame
<1> QED
  BY <1>1, <1>2, <1>3, <1>4, <1>5, <1>6, <1>7, <1>8, <1>9, <1>10, <1>11 DEF Next

\* The prefix cache is a set of distinct histories, strictly ordered by last
\* use: min_by_key in evict_one and the lookup of equal tokens in
\* commit_snapshot are unambiguous.
THEOREM Ranking == Spec => []EntriesRanked
<1>1. Init => EntriesRanked
  BY DEF Init, CacheInit, EntriesRanked
<1> QED BY <1>1, RankInductive, Invariance, PTL DEF Spec

-----------------------------------------------------------------------------
\* Pages, state slots, snapshot slots and pins are owned by exactly those that
\* use them, whatever is admitted, grown, rolled back, shared, evicted, captured
\* and released.
THEOREM Ownership == Spec => []OwnershipExact
BY TypeCorrect, ReferenceCounting, SlotOwnership, SnapshotOwnership, PinCounting, PTL
   DEF OwnershipExact


-----------------------------------------------------------------------------
(* Sharing of pages.  SharedPagesAgree is not inductive: an admission       *)
(* shares the pages of an entry, which other entries may hold too, so it    *)
(* has to be known what two entries with a common page agree on.  Sharing   *)
(* adds that, and says token by token what SharedPagesAgree says of         *)
(* prefixes.                                                                *)

\* p and q have the same tokens in the first n places, as far as both go.
SameTokens(p, q, n) == \A k \in DOMAIN p \cap DOMAIN q : k <= n => p[k] = q[k]

\* The place after the last token of the m-th page of a table.
PageEnd(m) == m * BlockSize

\* Two tables hold a page at the same place only.
SamePlace(t, u) == \A m \in DOMAIN t, n \in DOMAIN u : t[m] = u[n] => m = n

\* What is common to two sequences.
SeqsShare ==
  \A i, j \in DOMAIN seqs :
    i # j =>
      /\ SamePlace(seqs[i].blocks, seqs[j].blocks)
      /\ \A m \in DOMAIN seqs[i].blocks \cap DOMAIN seqs[j].blocks :
           seqs[i].blocks[m] = seqs[j].blocks[m] =>
             /\ PageEnd(m) <= Len(client[i].prompt)
             /\ SameTokens(client[i].prompt, client[j].prompt, PageEnd(m))

\* What is common to a sequence and an entry.
SeqEntryShare ==
  \A i \in DOMAIN seqs, s \in DOMAIN entries :
    /\ SamePlace(seqs[i].blocks, entries[s].blocks)
    /\ \A m \in DOMAIN seqs[i].blocks \cap DOMAIN entries[s].blocks :
         seqs[i].blocks[m] = entries[s].blocks[m] =>
           /\ PageEnd(m) <= Len(client[i].prompt)
                \/ Len(entries[s].tokens) <= Len(client[i].prompt)
           /\ SameTokens(client[i].prompt, entries[s].tokens, PageEnd(m))

\* What is common to two entries.
EntriesShare ==
  \A s, t \in DOMAIN entries :
    /\ SamePlace(entries[s].blocks, entries[t].blocks)
    /\ \A m \in DOMAIN entries[s].blocks \cap DOMAIN entries[t].blocks :
         entries[s].blocks[m] = entries[t].blocks[m] =>
           SameTokens(entries[s].tokens, entries[t].tokens, PageEnd(m))

\* The inductive invariant, beside IInv.
Sharing == SeqsShare /\ SeqEntryShare /\ EntriesShare

-----------------------------------------------------------------------------

\* The entries that are left are as they were, whatever happened to their pins.
EntriesLeft ==
  /\ DOMAIN entries' \subseteq DOMAIN entries
  /\ \A s \in DOMAIN entries' : /\ entries'[s].tokens = entries[s].tokens
                                /\ entries'[s].blocks = entries[s].blocks

\* No sequence but i, and no entry, will hold page b.
NotShared(i, b) ==
  /\ \A j \in DOMAIN seqs' : j # i => b \notin Range(seqs'[j].blocks)
  /\ \A s \in DOMAIN entries' : b \notin Range(entries'[s].blocks)

\* The table of the sequence i gets no page that anybody else holds.
TableLeft(i) ==
  /\ client'[i].prompt = client[i].prompt
  /\ \A m \in DOMAIN seqs'[i].blocks :
       \/ m \in DOMAIN seqs[i].blocks /\ seqs'[i].blocks[m] = seqs[i].blocks[m]
       \/ NotShared(i, seqs'[i].blocks[m])

\* Entries share what they shared before.
LEMMA EntriesLeftShare ==
  ASSUME EntriesShare, EntriesLeft
  PROVE  EntriesShare'
BY DEF EntriesShare, EntriesLeft, SamePlace, PageEnd, SameTokens

\* Sequences that end, are rolled back or grow by fresh pages, and entries that
\* are evicted, share nothing new.
LEMMA NothingNewShared ==
  ASSUME Sharing, EntriesLeft, DOMAIN seqs' \subseteq DOMAIN seqs,
         \A i \in DOMAIN seqs' : TableLeft(i)
  PROVE  Sharing'
<1>1. ASSUME NEW i \in DOMAIN seqs', NEW j \in DOMAIN seqs', i # j,
             NEW m \in DOMAIN seqs'[i].blocks, NEW n \in DOMAIN seqs'[j].blocks,
             seqs'[i].blocks[m] = seqs'[j].blocks[n]
      PROVE  /\ m = n
             /\ PageEnd(m) <= Len(client'[i].prompt)
             /\ SameTokens(client'[i].prompt, client'[j].prompt, PageEnd(m))
  <2>1. /\ seqs'[i].blocks[m] \in Range(seqs'[j].blocks)
        /\ seqs'[j].blocks[n] \in Range(seqs'[i].blocks)
    BY <1>1 DEF Range
  <2>2. /\ m \in DOMAIN seqs[i].blocks /\ seqs'[i].blocks[m] = seqs[i].blocks[m]
        /\ n \in DOMAIN seqs[j].blocks /\ seqs'[j].blocks[n] = seqs[j].blocks[n]
    BY <1>1, <2>1 DEF TableLeft, NotShared
  <2>3. m = n
    BY <1>1, <2>2 DEF Sharing, SeqsShare, SamePlace
  <2>4. /\ PageEnd(m) <= Len(client[i].prompt)
        /\ SameTokens(client[i].prompt, client[j].prompt, PageEnd(m))
    BY <1>1, <2>2, <2>3 DEF Sharing, SeqsShare
  <2> QED BY <2>3, <2>4 DEF TableLeft
<1>2. ASSUME NEW i \in DOMAIN seqs', NEW s \in DOMAIN entries',
             NEW m \in DOMAIN seqs'[i].blocks, NEW n \in DOMAIN entries'[s].blocks,
             seqs'[i].blocks[m] = entries'[s].blocks[n]
      PROVE  /\ m = n
             /\ PageEnd(m) <= Len(client'[i].prompt)
                  \/ Len(entries'[s].tokens) <= Len(client'[i].prompt)
             /\ SameTokens(client'[i].prompt, entries'[s].tokens, PageEnd(m))
  <2>1. seqs'[i].blocks[m] \in Range(entries'[s].blocks)
    BY <1>2 DEF Range
  <2>2. /\ m \in DOMAIN seqs[i].blocks /\ seqs'[i].blocks[m] = seqs[i].blocks[m]
        /\ n \in DOMAIN entries[s].blocks /\ entries'[s].blocks[n] = entries[s].blocks[n]
        /\ s \in DOMAIN entries
    BY <1>2, <2>1 DEF TableLeft, NotShared, EntriesLeft
  <2>3. m = n
    BY <1>2, <2>2 DEF Sharing, SeqEntryShare, SamePlace
  <2>4. /\ PageEnd(m) <= Len(client[i].prompt) \/ Len(entries[s].tokens) <= Len(client[i].prompt)
        /\ SameTokens(client[i].prompt, entries[s].tokens, PageEnd(m))
    BY <1>2, <2>2, <2>3 DEF Sharing, SeqEntryShare
  <2> QED BY <2>3, <2>4 DEF TableLeft, EntriesLeft
<1>3. EntriesShare'
  BY EntriesLeftShare DEF Sharing
<1>4. SeqsShare'
  BY <1>1 DEF SeqsShare, SamePlace, PageEnd, SameTokens
<1>5. SeqEntryShare'
  BY <1>2 DEF SeqEntryShare, SamePlace, PageEnd, SameTokens
<1> QED BY <1>3, <1>4, <1>5 DEF Sharing

\* A place of the table of a new sequence for p: its page is shared with nobody,
\* or is the full page the entry s has there, and p continues s.
NewPlace(p, table, m) ==
  \/ /\ \A j \in DOMAIN seqs : table[m] \notin Range(seqs[j].blocks)
     /\ \A t \in DOMAIN entries' : table[m] \notin Range(entries'[t].blocks)
  \/ \E s \in DOMAIN entries :
       /\ m \in DOMAIN entries[s].blocks /\ entries[s].blocks[m] = table[m]
       /\ PageEnd(m) <= Len(entries[s].tokens)
       /\ IsPrefix(entries[s].tokens, p)

\* An admission shares only full pages of the prefix it continues.
LEMMA AdmissionShares ==
  ASSUME IInv, Sharing, EntriesLeft, NEW id, id \notin DOMAIN seqs,
         NEW p \in Prompts, NEW table \in Seq(Pages),
         DOMAIN seqs' = DOMAIN seqs \cup {id},
         \A j \in DOMAIN seqs : seqs'[j] = seqs[j] /\ client'[j] = client[j],
         seqs'[id].blocks = table, client'[id].prompt = p,
         \A m \in DOMAIN table : NewPlace(p, table, m)
  PROVE  Sharing'
<1>1. p \in Seq(Tokens) /\ Len(p) \in Nat /\ DOMAIN p = 1..Len(p)
  BY PromptsAssumption, LenProperties DEF Tokens
<1>2. ASSUME NEW s \in DOMAIN entries
      PROVE  /\ Len(entries[s].tokens) \in Nat
             /\ DOMAIN entries[s].tokens = 1..Len(entries[s].tokens)
             /\ IsPrefix(entries[s].tokens, p) =>
                  /\ Len(entries[s].tokens) <= Len(p)
                  /\ \A k \in DOMAIN entries[s].tokens : entries[s].tokens[k] = p[k]
  <2>1. entries[s].tokens \in Seq(Tokens)
    BY DEF IInv, EntryPart
  <2>2. Len(entries[s].tokens) \in Nat /\ DOMAIN entries[s].tokens = 1..Len(entries[s].tokens)
    BY <2>1, LenProperties
  <2>3. IsPrefix(entries[s].tokens, p) =>
          /\ Len(entries[s].tokens) <= Len(p)
          /\ \A k \in DOMAIN entries[s].tokens : entries[s].tokens[k] = p[k]
    BY <2>1, <2>2, <1>1 DEF IsPrefix
  <2> QED BY <2>2, <2>3
<1>3. ASSUME NEW j \in DOMAIN seqs
      PROVE  Len(client[j].prompt) \in Nat /\ DOMAIN client[j].prompt = 1..Len(client[j].prompt)
  BY PromptsAssumption, LenProperties DEF IInv, SeqPart
<1>4. ASSUME NEW j \in DOMAIN seqs, NEW m \in DOMAIN table, NEW n \in DOMAIN seqs[j].blocks,
             table[m] = seqs[j].blocks[n]
      PROVE  /\ m = n
             /\ PageEnd(m) <= Len(p) /\ PageEnd(m) <= Len(client[j].prompt)
             /\ SameTokens(p, client[j].prompt, PageEnd(m))
  <2>1. PICK s \in DOMAIN entries :
          /\ m \in DOMAIN entries[s].blocks /\ entries[s].blocks[m] = table[m]
          /\ PageEnd(m) <= Len(entries[s].tokens)
          /\ IsPrefix(entries[s].tokens, p)
    BY <1>4 DEF NewPlace, Range
  <2>2. /\ m = n
        /\ PageEnd(m) <= Len(client[j].prompt) \/ Len(entries[s].tokens) <= Len(client[j].prompt)
        /\ SameTokens(client[j].prompt, entries[s].tokens, PageEnd(m))
    BY <1>4, <2>1 DEF Sharing, SeqEntryShare, SamePlace
  <2>3. PageEnd(m) \in Nat
    <3>1. m \in Nat
      BY LenProperties
    <3> QED BY <3>1, CacheAssumption DEF PageEnd
  <2>4. PageEnd(m) <= Len(p) /\ PageEnd(m) <= Len(client[j].prompt)
    <3> HIDE DEF PageEnd
    <3> QED BY <1>1, <1>2, <1>3, <2>1, <2>2, <2>3
  <2>5. ASSUME NEW k \in DOMAIN p \cap DOMAIN client[j].prompt, k <= PageEnd(m)
        PROVE  p[k] = client[j].prompt[k]
    <3>1. k \in DOMAIN entries[s].tokens
      BY <1>1, <1>2, <2>1, <2>3, <2>5
    <3> QED BY <1>2, <2>1, <2>2, <2>5, <3>1 DEF SameTokens
  <2> QED BY <2>2, <2>4, <2>5 DEF SameTokens
<1>5. ASSUME NEW t \in DOMAIN entries', NEW m \in DOMAIN table,
             NEW n \in DOMAIN entries[t].blocks, table[m] = entries[t].blocks[n]
      PROVE  /\ m = n
             /\ PageEnd(m) <= Len(p)
             /\ SameTokens(p, entries[t].tokens, PageEnd(m))
  <2>0. t \in DOMAIN entries /\ entries'[t].blocks = entries[t].blocks
    BY DEF EntriesLeft
  <2>1. PICK s \in DOMAIN entries :
          /\ m \in DOMAIN entries[s].blocks /\ entries[s].blocks[m] = table[m]
          /\ PageEnd(m) <= Len(entries[s].tokens)
          /\ IsPrefix(entries[s].tokens, p)
    BY <1>5, <2>0 DEF NewPlace, Range
  <2>2. m = n /\ SameTokens(entries[s].tokens, entries[t].tokens, PageEnd(m))
    BY <1>5, <2>0, <2>1 DEF Sharing, EntriesShare, SamePlace
  <2>3. PageEnd(m) \in Nat
    <3>1. m \in Nat
      BY LenProperties
    <3> QED BY <3>1, CacheAssumption DEF PageEnd
  <2>4. PageEnd(m) <= Len(p)
    <3> HIDE DEF PageEnd
    <3> QED BY <1>1, <1>2, <2>1, <2>3
  <2>5. ASSUME NEW k \in DOMAIN p \cap DOMAIN entries[t].tokens, k <= PageEnd(m)
        PROVE  p[k] = entries[t].tokens[k]
    <3>1. k \in DOMAIN entries[s].tokens
      BY <1>1, <1>2, <2>1, <2>3, <2>5
    <3> QED BY <1>2, <2>1, <2>2, <2>5, <3>1 DEF SameTokens
  <2> QED BY <2>2, <2>4, <2>5 DEF SameTokens
<1>6. SeqsShare'
  <2>1. ASSUME NEW i \in DOMAIN seqs', NEW j \in DOMAIN seqs', i # j,
               NEW m \in DOMAIN seqs'[i].blocks, NEW n \in DOMAIN seqs'[j].blocks,
               seqs'[i].blocks[m] = seqs'[j].blocks[n]
        PROVE  /\ m = n
               /\ PageEnd(m) <= Len(client'[i].prompt)
               /\ SameTokens(client'[i].prompt, client'[j].prompt, PageEnd(m))
    <3>1. CASE i \in DOMAIN seqs /\ j \in DOMAIN seqs
      BY <2>1, <3>1 DEF Sharing, SeqsShare, SamePlace
    <3>2. CASE i = id /\ j \in DOMAIN seqs
      BY <2>1, <3>2, <1>4
    <3>3. CASE i \in DOMAIN seqs /\ j = id
      <4>1. /\ n = m /\ PageEnd(n) <= Len(client[i].prompt)
            /\ SameTokens(p, client[i].prompt, PageEnd(n))
        BY <2>1, <3>3, <1>4
      <4> QED BY <4>1, <3>3 DEF SameTokens
    <3> QED BY <2>1, <3>1, <3>2, <3>3
  <2> QED BY <2>1 DEF SeqsShare, SamePlace, PageEnd, SameTokens
<1>7. SeqEntryShare'
  <2>1. ASSUME NEW i \in DOMAIN seqs', NEW s \in DOMAIN entries',
               NEW m \in DOMAIN seqs'[i].blocks, NEW n \in DOMAIN entries'[s].blocks,
               seqs'[i].blocks[m] = entries'[s].blocks[n]
        PROVE  /\ m = n
               /\ PageEnd(m) <= Len(client'[i].prompt)
                    \/ Len(entries'[s].tokens) <= Len(client'[i].prompt)
               /\ SameTokens(client'[i].prompt, entries'[s].tokens, PageEnd(m))
    <3>0. /\ s \in DOMAIN entries
          /\ entries'[s].tokens = entries[s].tokens /\ entries'[s].blocks = entries[s].blocks
      BY DEF EntriesLeft
    <3>1. CASE i \in DOMAIN seqs
      BY <2>1, <3>0, <3>1 DEF Sharing, SeqEntryShare, SamePlace
    <3>2. CASE i = id
      BY <2>1, <3>0, <3>2, <1>5
    <3> QED BY <2>1, <3>1, <3>2
  <2> QED BY <2>1 DEF SeqEntryShare, SamePlace, PageEnd, SameTokens
<1>8. EntriesShare'
  BY EntriesLeftShare DEF Sharing
<1> QED BY <1>6, <1>7, <1>8 DEF Sharing

-----------------------------------------------------------------------------

\* append_token and rollback_token: the pages of a table that are not the
\* sequence's own from before are fresh.
LEMMA SharingTable ==
  ASSUME Sharing, EntriesLeft, NEW id \in DOMAIN seqs, DOMAIN seqs' = DOMAIN seqs,
         \A i \in DOMAIN seqs : client'[i].prompt = client[i].prompt,
         \A i \in DOMAIN seqs : i # id => seqs'[i] = seqs[i],
         \A m \in DOMAIN seqs'[id].blocks :
           \/ m \in DOMAIN seqs[id].blocks /\ seqs'[id].blocks[m] = seqs[id].blocks[m]
           \/ NotShared(id, seqs'[id].blocks[m])
  PROVE  Sharing'
BY NothingNewShared DEF TableLeft

\* The calls that leave the tables of the sequences alone.
LEMMA SharingSeqsLeft ==
  ASSUME Sharing, EntriesLeft, DOMAIN seqs' \subseteq DOMAIN seqs,
         \A i \in DOMAIN seqs' : /\ seqs'[i] = seqs[i]
                                 /\ client'[i].prompt = client[i].prompt
  PROVE  Sharing'
BY NothingNewShared DEF TableLeft

\* evict_one and finish_restore change no tokens and no table.
LEMMA EvictionLeaves ==
  ASSUME NEW V, entries' = Without(entries, V)
  PROVE  EntriesLeft
BY DEF EntriesLeft, Without

\* finish_restore changes the pins of an entry only.
LEMMA UnpinLeaves ==
  ASSUME IInv, NEW S, entries' = Unpin(S)
  PROVE  EntriesLeft
<1>1. DOMAIN entries' = DOMAIN entries
  BY DEF Unpin
<1>2. ASSUME NEW s \in DOMAIN entries
      PROVE  entries'[s].tokens = entries[s].tokens /\ entries'[s].blocks = entries[s].blocks
  <2>1. entries[s] \in [tokens : Seq(Tokens), blocks : Seq(Pages), pins : Nat]
    BY DEF IInv, EntryPart
  <2>2. entries'[s] = entries[s] \/ entries'[s] = [entries[s] EXCEPT !.pins = @ - 1]
    BY DEF Unpin
  <2> QED BY <2>1, <2>2
<1> QED BY <1>1, <1>2 DEF EntriesLeft

\* A refused allocation evicts, and what is left is shared as before.
LEMMA RefusalShares ==
  ASSUME Sharing, NEW n, NEW held, AcquireRefused(n, held), UNCHANGED client
  PROVE  Sharing'
<1>1. entries' = Without(entries, PageCandidates(held)) /\ UNCHANGED seqs
  BY DEF AcquireRefused
<1>2. EntriesLeft
  BY <1>1, EvictionLeaves
<1> QED BY <1>1, <1>2, SharingSeqsLeft

\* admit: every page of the new table is fresh.
LEMMA AdmitFreshShares ==
  ASSUME IInv, Sharing, NEW id \in Ids, NEW p \in Prompts, AdmitFresh(id, p)
  PROVE  Sharing'
<1>1. PICK slot \in freeSlots, V \in SUBSET PageCandidates({}) :
        \E fresh \in Tables(BlocksFor(Len(p)), freePages \cup Freed(V)) :
          /\ AcquireBlocks(BlocksFor(Len(p)), {}, V, fresh, {})
          /\ freeSlots' = freeSlots \ {slot}
          /\ seqs' = With(seqs, id, [slot |-> slot, blocks |-> fresh, tokens |-> Len(p)])
          /\ entries' = Without(entries, V)
          /\ older' = OlderWithout(V)
  BY DEF AdmitFresh, Admit
<1>2. PICK fresh :
          /\ AcquireBlocks(BlocksFor(Len(p)), {}, V, fresh, {})
          /\ seqs' = With(seqs, id, [slot |-> slot, blocks |-> fresh, tokens |-> Len(p)])
          /\ entries' = Without(entries, V)
  BY <1>1
<1>3. /\ id \notin DOMAIN seqs /\ id \notin DOMAIN client
      /\ client' = With(client, id, [prompt |-> p, restore |-> {}])
  BY DEF AdmitFresh, Admit, IInv, SeqPart
<1>4. V \in SUBSET DOMAIN entries
  BY Candidates
<1>5. BlocksFor(Len(p)) \in Nat
  <2>1. p \in Seq(UNION {Range(q) : q \in Prompts})
    BY PromptsAssumption
  <2> QED BY <2>1, LenProperties, BlocksForFacts
<1>6. /\ fresh \in Seq(Pages)
      /\ \A b \in Range(fresh) :
           SeqHolders(b) = {} /\ EntryHolders(DOMAIN entries \ V, b) = {}
  BY <1>2, <1>4, <1>5, IInvImplies, AcquiredPages DEF IInv, PagePart
<1>7. EntriesLeft /\ DOMAIN entries' = DOMAIN entries \ V
  BY <1>2, EvictionLeaves DEF Without
<1>8. /\ DOMAIN seqs' = DOMAIN seqs \cup {id}
      /\ \A j \in DOMAIN seqs : seqs'[j] = seqs[j] /\ client'[j] = client[j]
      /\ seqs'[id].blocks = fresh /\ client'[id].prompt = p
  BY <1>2, <1>3 DEF With, IInv, SeqPart
<1>9. ASSUME NEW m \in DOMAIN fresh PROVE NewPlace(p, fresh, m)
  <2>1. fresh[m] \in Range(fresh)
    BY DEF Range
  <2>2. \A j \in DOMAIN seqs : fresh[m] \notin Range(seqs[j].blocks)
    BY <1>6, <2>1 DEF SeqHolders, SeqPages
  <2>3. \A t \in DOMAIN entries' : fresh[m] \notin Range(entries'[t].blocks)
    BY <1>6, <1>7, <2>1 DEF EntryHolders, EntryPages, EntriesLeft
  <2> QED BY <2>2, <2>3 DEF NewPlace
<1> QED BY <1>3, <1>6, <1>7, <1>8, <1>9, AdmissionShares

\* The pages of whole tokens an entry of n tokens has.
LEMMA FullPagesEnd ==
  ASSUME NEW n \in Nat, NEW m \in 1..(n \div BlockSize)
  PROVE  PageEnd(m) <= n
<1>1. BlockSize \in Nat \ {0}
  BY CacheAssumption
<1>2. \A d \in Nat \ {0} : \A k \in 1..(n \div d) : k * d <= n
  OBVIOUS
<1> QED BY <1>1, <1>2 DEF PageEnd

\* admit_prompt with a match: the full pages of the entry, then fresh ones.
LEMMA AdmitCachedShares ==
  ASSUME IInv, Sharing, NEW id \in Ids, NEW p \in Prompts, AdmitCached(id, p)
  PROVE  Sharing'
<1>1. PICK s \in DOMAIN entries :
        AdmitHit(id, p, s) /\ client' = With(client, id, [prompt |-> p, restore |-> {s}])
  BY DEF AdmitCached
<1> DEFINE need == FreshNeed(s, p)
           shared == SubSeq(entries[s].blocks, 1, FullPages(s))
<1>2. PICK slot \in freeSlots, V \in SUBSET PageCandidates({s}) :
        \E fresh \in Tables(need, freePages \cup Freed(V)) :
          /\ AcquireBlocks(need, {s}, V, fresh, Range(shared))
          /\ freeSlots' = freeSlots \ {slot}
          /\ seqs' = With(seqs, id, [slot |-> slot, blocks |-> shared \o fresh,
                                     tokens |-> Len(p)])
          /\ entries' = [Without(entries, V) EXCEPT ![s].pins = @ + 1]
          /\ older' = OlderUsing(s, V)
  BY <1>1 DEF AdmitHit
<1>3. PICK fresh :
          /\ AcquireBlocks(need, {s}, V, fresh, Range(shared))
          /\ seqs' = With(seqs, id, [slot |-> slot, blocks |-> shared \o fresh,
                                     tokens |-> Len(p)])
          /\ entries' = [Without(entries, V) EXCEPT ![s].pins = @ + 1]
  BY <1>2
<1>4. id \notin DOMAIN seqs /\ id \notin DOMAIN client /\ BestMatch(s, p)
  BY <1>1 DEF AdmitHit, IInv, SeqPart
<1>5. V \in SUBSET DOMAIN entries /\ s \notin V
  BY Candidates
<1>6. /\ need \in Nat /\ shared \in Seq(Pages)
      /\ Range(shared) \subseteq EntryPages(s)
  BY <1>4, SharedPrefix
<1>7. /\ entries[s].tokens \in Seq(Tokens) /\ entries[s].blocks \in Seq(Pages)
      /\ Len(entries[s].tokens) \in Nat
      /\ Len(entries[s].blocks) = BlocksFor(Len(entries[s].tokens))
  BY LenProperties DEF IInv, EntryPart
<1>8. /\ Len(shared) = FullPages(s)
      /\ \A m \in 1..Len(shared) : /\ m \in DOMAIN entries[s].blocks
                                   /\ shared[m] = entries[s].blocks[m]
  <2>1. FullPages(s) \in 0..Len(entries[s].blocks)
    BY <1>7, BlocksForFacts DEF FullPages
  <2>2. /\ Len(shared) = FullPages(s)
        /\ \A m \in 1..FullPages(s) : shared[m] = entries[s].blocks[m]
    BY <1>7, <2>1, PrefixOfSeq
  <2>3. DOMAIN entries[s].blocks = 1..Len(entries[s].blocks) /\ Len(entries[s].blocks) \in Nat
    BY <1>7, LenProperties
  <2> HIDE DEF shared
  <2> QED BY <2>1, <2>2, <2>3
<1> HIDE DEF need, shared
<1>9. /\ fresh \in Seq(Pages)
      /\ \A b \in Range(fresh) :
           SeqHolders(b) = {} /\ EntryHolders(DOMAIN entries \ V, b) = {}
  BY <1>3, <1>5, <1>6, IInvImplies, AcquiredPages DEF IInv, PagePart
<1>10. EntriesLeft /\ DOMAIN entries' = DOMAIN entries \ V
  <2>1. /\ DOMAIN entries' = DOMAIN entries \ V
        /\ entries'[s] = [entries[s] EXCEPT !.pins = @ + 1]
        /\ \A t \in DOMAIN entries \ V : t # s => entries'[t] = entries[t]
    BY <1>3, <1>5 DEF Without
  <2>2. entries[s] \in [tokens : Seq(Tokens), blocks : Seq(Pages), pins : Nat]
    BY DEF IInv, EntryPart
  <2>3. entries'[s].tokens = entries[s].tokens /\ entries'[s].blocks = entries[s].blocks
    BY <2>1, <2>2
  <2> QED BY <2>1, <2>3 DEF EntriesLeft
<1>11. /\ DOMAIN seqs' = DOMAIN seqs \cup {id}
       /\ \A j \in DOMAIN seqs : seqs'[j] = seqs[j] /\ client'[j] = client[j]
       /\ seqs'[id].blocks = shared \o fresh /\ client'[id].prompt = p
  BY <1>1, <1>3, <1>4 DEF With, IInv, SeqPart
<1>12. /\ shared \o fresh \in Seq(Pages)
       /\ DOMAIN (shared \o fresh) = 1..(Len(shared) + Len(fresh))
       /\ Len(shared) \in Nat /\ Len(fresh) \in Nat
       /\ \A m \in 1..(Len(shared) + Len(fresh)) :
            (shared \o fresh)[m] = IF m <= Len(shared) THEN shared[m] ELSE fresh[m - Len(shared)]
  BY <1>6, <1>9, ConcatProperties, LenProperties
<1>13. ASSUME NEW m \in DOMAIN (shared \o fresh)
       PROVE  NewPlace(p, shared \o fresh, m)
  <2>1. CASE m <= Len(shared)
    <3>1. m \in 1..Len(shared) /\ (shared \o fresh)[m] = shared[m]
      BY <1>12, <2>1
    <3>2. PageEnd(m) <= Len(entries[s].tokens)
      BY <1>7, <1>8, <3>1, FullPagesEnd DEF FullPages
    <3>3. IsPrefix(entries[s].tokens, p)
      BY <1>4 DEF BestMatch, Matches, IsStrictPrefix
    <3> QED BY <1>8, <3>1, <3>2, <3>3 DEF NewPlace
  <2>2. CASE ~(m <= Len(shared))
    <3>1. m - Len(shared) \in DOMAIN fresh /\ (shared \o fresh)[m] = fresh[m - Len(shared)]
      BY <1>9, <1>12, <2>2, LenProperties
    <3>2. (shared \o fresh)[m] \in Range(fresh)
      BY <3>1 DEF Range
    <3>3. \A j \in DOMAIN seqs : (shared \o fresh)[m] \notin Range(seqs[j].blocks)
      BY <1>9, <3>2 DEF SeqHolders, SeqPages
    <3>4. \A t \in DOMAIN entries' : (shared \o fresh)[m] \notin Range(entries'[t].blocks)
      BY <1>9, <1>10, <3>2 DEF EntryHolders, EntryPages, EntriesLeft
    <3> QED BY <3>3, <3>4 DEF NewPlace
  <2> QED BY <2>1, <2>2
<1> QED BY <1>4, <1>10, <1>11, <1>12, <1>13, AdmissionShares

\* append_token that finds its pages: what it adds to the table is fresh.
LEMMA AppendShares ==
  ASSUME IInv, Sharing, NEW id \in Ids, AppendToken(id), UNCHANGED client
  PROVE  Sharing'
<1> DEFINE old == seqs[id].blocks
           need == ExtraNeed(id)
<1>1. PICK V \in SUBSET PageCandidates({}) :
        \E fresh \in Tables(need, freePages \cup Freed(V)) :
          /\ AcquireBlocks(need, {}, V, fresh, {})
          /\ seqs' = [seqs EXCEPT ![id].tokens = @ + 1, ![id].blocks = @ \o fresh]
          /\ entries' = Without(entries, V)
          /\ older' = OlderWithout(V)
  BY DEF AppendToken
<1>2. PICK fresh :
          /\ AcquireBlocks(need, {}, V, fresh, {})
          /\ seqs' = [seqs EXCEPT ![id].tokens = @ + 1, ![id].blocks = @ \o fresh]
          /\ entries' = Without(entries, V)
  BY <1>1
<1>3. id \in DOMAIN seqs /\ V \in SUBSET DOMAIN entries
  BY Candidates DEF AppendToken
<1>4. /\ old \in Seq(Pages) /\ seqs[id].tokens \in Nat
      /\ seqs[id] \in [slot : Slots, blocks : Seq(Pages), tokens : Nat]
  BY <1>3 DEF IInv, SeqPart
<1>5. need \in Nat
  <2>1. Len(seqs[id].blocks) \in Nat /\ seqs[id].tokens + 1 \in Nat
    BY <1>4, LenProperties
  <2>2. BlocksFor(seqs[id].tokens + 1) \in Nat
    BY <2>1, BlocksForFacts
  <2>3. \A a, c \in Nat : (IF a > c THEN a - c ELSE 0) \in Nat
    OBVIOUS
  <2> QED BY <2>1, <2>2, <2>3 DEF ExtraNeed
<1> HIDE DEF need
<1>6. /\ fresh \in Seq(Pages)
      /\ \A b \in Range(fresh) :
           SeqHolders(b) = {} /\ EntryHolders(DOMAIN entries \ V, b) = {}
  BY <1>2, <1>3, <1>5, IInvImplies, AcquiredPages DEF IInv, PagePart
<1>7. EntriesLeft /\ DOMAIN entries' = DOMAIN entries \ V
  BY <1>2, EvictionLeaves DEF Without
<1>8. /\ DOMAIN seqs' = DOMAIN seqs
      /\ \A i \in DOMAIN seqs : i # id => seqs'[i] = seqs[i]
      /\ seqs'[id].blocks = old \o fresh
  BY <1>2, <1>3, <1>4
<1> HIDE DEF old
<1>9. /\ DOMAIN (old \o fresh) = 1..(Len(old) + Len(fresh))
      /\ Len(old) \in Nat /\ Len(fresh) \in Nat
      /\ DOMAIN old = 1..Len(old) /\ DOMAIN fresh = 1..Len(fresh)
      /\ \A m \in 1..(Len(old) + Len(fresh)) :
           (old \o fresh)[m] = IF m <= Len(old) THEN old[m] ELSE fresh[m - Len(old)]
  BY <1>4, <1>6, ConcatProperties, LenProperties
<1>10. ASSUME NEW m \in DOMAIN (old \o fresh)
       PROVE  \/ m \in DOMAIN old /\ (old \o fresh)[m] = old[m]
              \/ NotShared(id, (old \o fresh)[m])
  <2>1. CASE m <= Len(old)
    BY <1>9, <2>1
  <2>2. CASE ~(m <= Len(old))
    <3>1. m - Len(old) \in DOMAIN fresh /\ (old \o fresh)[m] = fresh[m - Len(old)]
      BY <1>9, <2>2
    <3>2. (old \o fresh)[m] \in Range(fresh)
      BY <3>1 DEF Range
    <3>3. \A j \in DOMAIN seqs' : j # id => (old \o fresh)[m] \notin Range(seqs'[j].blocks)
      BY <1>6, <1>8, <3>2 DEF SeqHolders, SeqPages
    <3>4. \A t \in DOMAIN entries' : (old \o fresh)[m] \notin Range(entries'[t].blocks)
      BY <1>6, <1>7, <3>2 DEF EntryHolders, EntryPages, EntriesLeft
    <3> QED BY <3>3, <3>4 DEF NotShared
  <2> QED BY <2>1, <2>2
<1> QED BY <1>3, <1>7, <1>8, <1>10, SharingTable DEF old

\* rollback_token keeps a prefix of the table.
LEMMA ShrinkShares ==
  ASSUME IInv, Sharing, NEW id \in Ids, Shrink(id)
  PROVE  Sharing'
<1> DEFINE n == seqs[id].tokens
           old == seqs[id].blocks
           keep == BlocksFor(n - 1)
<1>1. /\ id \in DOMAIN seqs /\ n > 0
      /\ seqs' = [seqs EXCEPT ![id].tokens = @ - 1, ![id].blocks = SubSeq(old, 1, keep)]
      /\ UNCHANGED <<entries, client>>
  BY DEF Shrink, RollbackToken
<1>2. /\ n \in Nat /\ old \in Seq(Pages) /\ Len(old) = BlocksFor(n)
      /\ seqs[id] \in [slot : Slots, blocks : Seq(Pages), tokens : Nat]
  BY <1>1 DEF IInv, SeqPart
<1>3. keep \in 0..Len(old)
  <2>1. n - 1 \in Nat /\ n - 1 <= n
    BY <1>1, <1>2
  <2>2. /\ BlocksFor(n - 1) \in Nat /\ BlocksFor(n) \in Nat
        /\ BlocksFor(n - 1) <= BlocksFor(n)
    BY <1>2, <2>1, BlocksForFacts
  <2> HIDE DEF n
  <2> QED BY <1>2, <2>2
<1>4. /\ DOMAIN seqs' = DOMAIN seqs
      /\ \A i \in DOMAIN seqs : i # id => seqs'[i] = seqs[i]
      /\ seqs'[id].blocks = SubSeq(old, 1, keep)
  BY <1>1, <1>2
<1> HIDE DEF old, keep
<1>5. /\ SubSeq(old, 1, keep) \in Seq(Pages) /\ Len(SubSeq(old, 1, keep)) = keep
      /\ \A m \in 1..keep : SubSeq(old, 1, keep)[m] = old[m]
  BY <1>2, <1>3, PrefixOfSeq
<1>6. \A m \in DOMAIN SubSeq(old, 1, keep) : m \in DOMAIN old /\ SubSeq(old, 1, keep)[m] = old[m]
  BY <1>2, <1>3, <1>5, LenProperties
<1>7. EntriesLeft
  BY <1>1 DEF EntriesLeft
<1> QED BY <1>1, <1>4, <1>6, <1>7, SharingTable DEF old

\* commit_snapshot: the new entry has the pages and the tokens of its sequence.
LEMMA StoreShares ==
  ASSUME IInv, Sharing, NEW s, s \notin DOMAIN entries, NEW id \in DOMAIN client,
         NEW k \in BlockSize..Len(client[id].prompt),
         StoreSnapshot(s, id, SubSeq(client[id].prompt, 1, k)), UNCHANGED client
  PROVE  Sharing'
<1> DEFINE prompt == client[id].prompt
           tokens == SubSeq(prompt, 1, k)
           old == seqs[id].blocks
           blocks == SubSeq(old, 1, BlocksFor(Len(tokens)))
<1>1. /\ entries' = With(entries, s, [tokens |-> tokens, blocks |-> blocks, pins |-> 0])
      /\ UNCHANGED seqs
  BY DEF StoreSnapshot
<1>2. /\ DOMAIN entries' = DOMAIN entries \cup {s}
      /\ entries'[s] = [tokens |-> tokens, blocks |-> blocks, pins |-> 0]
      /\ \A t \in DOMAIN entries : entries'[t] = entries[t]
  BY <1>1 DEF With
<1>3. /\ id \in DOMAIN seqs /\ prompt \in Prompts
      /\ seqs[id].tokens \in Nat /\ old \in Seq(Pages) /\ IsInjective(old)
      /\ Len(old) = BlocksFor(seqs[id].tokens)
      /\ seqs[id].tokens - Len(prompt) \in 0..MaxNew
  BY DEF IInv, SeqPart
<1>4. /\ prompt \in Seq(Tokens) /\ Len(prompt) \in Nat /\ MaxNew \in Nat
      /\ DOMAIN prompt = 1..Len(prompt)
      /\ k \in 0..Len(prompt)
  <2>1. prompt \in Seq(Tokens) /\ MaxNew \in Nat
    BY <1>3, PromptsAssumption DEF Tokens
  <2>2. Len(prompt) \in Nat /\ DOMAIN prompt = 1..Len(prompt)
    BY <2>1, LenProperties
  <2>3. BlockSize \in Nat
    BY CacheAssumption
  <2> QED BY <2>1, <2>2, <2>3
<1>5. /\ tokens \in Seq(Tokens) /\ Len(tokens) = k
      /\ \A i \in 1..k : tokens[i] = prompt[i]
  BY <1>4, PrefixOfSeq
<1>6. BlocksFor(k) \in 0..Len(old)
  <2>1. k \in Nat /\ k <= seqs[id].tokens
    <3>1. \A a, l, m, c \in Nat : a - l \in 0..m /\ c <= l => c <= a
      OBVIOUS
    <3> HIDE DEF prompt
    <3> QED BY <1>3, <1>4, <3>1
  <2>2. /\ BlocksFor(k) \in Nat /\ BlocksFor(seqs[id].tokens) \in Nat
        /\ BlocksFor(k) <= BlocksFor(seqs[id].tokens)
    BY <1>3, <2>1, BlocksForFacts
  <2> QED BY <1>3, <2>2
<1>7. blocks = SubSeq(old, 1, BlocksFor(k))
  BY <1>5
<1> HIDE DEF prompt, tokens, old, blocks
<1>8. /\ blocks \in Seq(Pages) /\ Len(blocks) = BlocksFor(k)
      /\ \A m \in 1..BlocksFor(k) : blocks[m] = old[m]
  BY <1>3, <1>6, <1>7, PrefixOfSeq
<1>9. /\ \A m \in DOMAIN blocks : m \in DOMAIN old /\ blocks[m] = old[m]
      /\ \A i \in DOMAIN tokens : i \in DOMAIN prompt /\ tokens[i] = prompt[i]
  <2>1. DOMAIN blocks = 1..BlocksFor(k) /\ DOMAIN old = 1..Len(old) /\ Len(old) \in Nat
    BY <1>3, <1>8, LenProperties
  <2>2. DOMAIN tokens = 1..k
    BY <1>5, LenProperties
  <2>3. \A m \in DOMAIN blocks : m \in DOMAIN old /\ blocks[m] = old[m]
    BY <1>6, <1>8, <2>1
  <2>4. \A i \in DOMAIN tokens : i \in DOMAIN prompt /\ tokens[i] = prompt[i]
    BY <1>4, <1>5, <2>2
  <2> QED BY <2>3, <2>4
<1>10. /\ entries'[s].tokens = tokens /\ entries'[s].blocks = blocks
       /\ seqs[id].blocks = old /\ client[id].prompt = prompt
  BY <1>2 DEF old, prompt
<1>11. SeqsShare'
  BY <1>1 DEF Sharing, SeqsShare, SamePlace, PageEnd, SameTokens
<1>12. ASSUME NEW i \in DOMAIN seqs, NEW m \in DOMAIN seqs[i].blocks, NEW n \in DOMAIN blocks,
              seqs[i].blocks[m] = blocks[n]
       PROVE  /\ m = n
              /\ PageEnd(m) <= Len(client[i].prompt) \/ Len(tokens) <= Len(client[i].prompt)
              /\ SameTokens(client[i].prompt, tokens, PageEnd(m))
  <2>1. CASE i = id
    <3>1. m = n
      BY <1>3, <1>9, <1>10, <1>12, <2>1 DEF IsInjective
    <3>2. Len(tokens) <= Len(client[i].prompt)
      BY <1>4, <1>5, <1>10, <2>1
    <3>3. SameTokens(client[i].prompt, tokens, PageEnd(m))
      BY <1>9, <1>10, <2>1 DEF SameTokens
    <3> QED BY <3>1, <3>2, <3>3
  <2>2. CASE i # id
    <3>1. n \in DOMAIN seqs[id].blocks /\ seqs[i].blocks[m] = seqs[id].blocks[n]
      BY <1>9, <1>10, <1>12
    <3>2. /\ m = n /\ PageEnd(m) <= Len(client[i].prompt)
          /\ SameTokens(client[i].prompt, prompt, PageEnd(m))
      BY <1>3, <1>10, <2>2, <3>1 DEF Sharing, SeqsShare, SamePlace
    <3> QED BY <1>9, <3>2 DEF SameTokens
  <2> QED BY <2>1, <2>2
<1>13. ASSUME NEW t \in DOMAIN entries, NEW m \in DOMAIN entries[t].blocks, NEW n \in DOMAIN blocks,
              entries[t].blocks[m] = blocks[n]
       PROVE  /\ m = n
              /\ SameTokens(entries[t].tokens, tokens, PageEnd(m))
              /\ SameTokens(tokens, entries[t].tokens, PageEnd(m))
  <2>1. n \in DOMAIN seqs[id].blocks /\ entries[t].blocks[m] = seqs[id].blocks[n]
    BY <1>9, <1>10, <1>13
  <2>2. m = n /\ SameTokens(prompt, entries[t].tokens, PageEnd(m))
    BY <1>3, <1>10, <2>1 DEF Sharing, SeqEntryShare, SamePlace
  <2> QED BY <1>9, <2>2 DEF SameTokens
<1>14. SeqEntryShare'
  <2>1. ASSUME NEW i \in DOMAIN seqs, NEW t \in DOMAIN entries',
               NEW m \in DOMAIN seqs[i].blocks, NEW n \in DOMAIN entries'[t].blocks,
               seqs[i].blocks[m] = entries'[t].blocks[n]
        PROVE  /\ m = n
               /\ PageEnd(m) <= Len(client[i].prompt)
                    \/ Len(entries'[t].tokens) <= Len(client[i].prompt)
               /\ SameTokens(client[i].prompt, entries'[t].tokens, PageEnd(m))
    <3>1. CASE t = s
      BY <1>10, <1>12, <2>1, <3>1
    <3>2. CASE t # s
      BY <1>2, <2>1, <3>2 DEF Sharing, SeqEntryShare, SamePlace
    <3> QED BY <3>1, <3>2
  <2> QED BY <1>1, <2>1 DEF SeqEntryShare, SamePlace, PageEnd, SameTokens
<1>15. EntriesShare'
  <2>1. ASSUME NEW t \in DOMAIN entries', NEW u \in DOMAIN entries',
               NEW m \in DOMAIN entries'[t].blocks, NEW n \in DOMAIN entries'[u].blocks,
               entries'[t].blocks[m] = entries'[u].blocks[n]
        PROVE  m = n /\ SameTokens(entries'[t].tokens, entries'[u].tokens, PageEnd(m))
    <3>1. CASE t # s /\ u # s
      BY <1>2, <2>1, <3>1 DEF Sharing, EntriesShare, SamePlace
    <3>2. CASE t = s /\ u # s
      BY <1>2, <1>10, <1>13, <2>1, <3>2
    <3>3. CASE t # s /\ u = s
      BY <1>2, <1>10, <1>13, <2>1, <3>3
    <3>4. CASE t = s /\ u = s
      <4>1. m = n
        BY <1>3, <1>9, <1>10, <2>1, <3>4 DEF IsInjective
      <4> QED BY <3>4, <4>1 DEF SameTokens
    <3> QED BY <3>1, <3>2, <3>3, <3>4
  <2> QED BY <2>1 DEF EntriesShare, SamePlace, PageEnd, SameTokens
<1> QED BY <1>11, <1>14, <1>15 DEF Sharing

\* Every call of the protocol keeps sharing sound.
LEMMA SharingInductive == IInv /\ Sharing /\ [Next]_vars => Sharing'
<1> SUFFICES ASSUME IInv, Sharing, [Next]_vars PROVE Sharing'
  OBVIOUS
<1>1. ASSUME NEW id \in Ids, NEW p \in Prompts, AdmitFresh(id, p) PROVE Sharing'
  BY <1>1, AdmitFreshShares
<1>2. ASSUME NEW id \in Ids, NEW p \in Prompts, AdmitCached(id, p) PROVE Sharing'
  BY <1>2, AdmitCachedShares
<1>3. ASSUME NEW id \in Ids, NEW p \in Prompts, RefuseAdmission(id, p) PROVE Sharing'
  <2>1. UNCHANGED client
    BY <1>3 DEF RefuseAdmission
  <2>2. \E n, held : AcquireRefused(n, held)
    BY <1>3 DEF RefuseAdmission, AdmitRefused, AdmitHitRefused
  <2> QED BY <2>1, <2>2, RefusalShares
<1>4. ASSUME NEW id \in Ids, Restored(id) PROVE Sharing'
  <2>1. PICK s \in client[id].restore : id \in DOMAIN client /\ FinishRestore(s)
    BY <1>4 DEF Restored
  <2>2. /\ entries' = Unpin({s}) /\ UNCHANGED seqs
        /\ DOMAIN client' = DOMAIN client
        /\ \A i \in DOMAIN client : i # id => client'[i] = client[i]
        /\ client'[id] = [client[id] EXCEPT !.restore = {}]
    BY <1>4, <2>1 DEF Restored, FinishRestore
  <2>3. client[id] \in [prompt : Prompts, restore : {{}} \cup {{t} : t \in Snapshots}]
    BY <2>1 DEF IInv, SeqPart
  <2>4. client'[id].prompt = client[id].prompt
    BY <2>2, <2>3
  <2>5. EntriesLeft
    BY <2>2, UnpinLeaves
  <2>6. \A i \in DOMAIN seqs' : seqs'[i] = seqs[i] /\ client'[i].prompt = client[i].prompt
    BY <2>2, <2>4 DEF IInv, SeqPart
  <2> QED BY <2>2, <2>5, <2>6, SharingSeqsLeft
<1>5. ASSUME NEW id \in Ids, Grow(id) PROVE Sharing'
  <2>1. UNCHANGED client /\ (AppendToken(id) \/ AppendRefused(id))
    BY <1>5 DEF Grow
  <2>2. AppendRefused(id) => AcquireRefused(ExtraNeed(id), {})
    BY DEF AppendRefused
  <2> QED BY <2>1, <2>2, AppendShares, RefusalShares
<1>6. ASSUME NEW id \in Ids, Shrink(id) PROVE Sharing'
  BY <1>6, ShrinkShares
<1>7. ASSUME NEW id \in Ids, Leave(id) PROVE Sharing'
  <2>1. /\ seqs' = Without(seqs, {id}) /\ client' = Without(client, {id})
        /\ entries' = Unpin(client[id].restore)
    BY <1>7 DEF Leave, Release
  <2>2. /\ DOMAIN seqs' \subseteq DOMAIN seqs
        /\ \A i \in DOMAIN seqs' : seqs'[i] = seqs[i] /\ client'[i].prompt = client[i].prompt
    BY <2>1 DEF Without, IInv, SeqPart
  <2>3. EntriesLeft
    BY <2>1, UnpinLeaves
  <2> QED BY <2>2, <2>3, SharingSeqsLeft
<1>8. ASSUME NEW id \in Ids, NEW s \in Snapshots, Reserve(id, s) PROVE Sharing'
  <2>1. UNCHANGED <<seqs, client>> /\ (entries' = entries \/ entries' = Without(entries, {s}))
    BY <1>8 DEF Reserve, ReserveSnapshot
  <2>2. EntriesLeft
    BY <2>1, EvictionLeaves DEF EntriesLeft
  <2> QED BY <2>1, <2>2, SharingSeqsLeft
<1>9. ASSUME UNCHANGED <<seqs, client, entries>> PROVE Sharing'
  <2>1. EntriesLeft
    BY <1>9 DEF EntriesLeft
  <2> QED BY <1>9, <2>1, SharingSeqsLeft
<1>10. ASSUME NEW s \in Snapshots, Cancel(s) PROVE Sharing'
  BY <1>9, <1>10 DEF Cancel, CancelSnapshot
<1>11. ASSUME NEW s \in Snapshots, Commit(s) PROVE Sharing'
  <2>1. s \in DOMAIN saving /\ s \notin DOMAIN entries /\ UNCHANGED client
    BY <1>11 DEF Commit, IInv, SnapshotsExact
  <2>2. CASE UNCHANGED <<seqs, client, entries>>
    BY <1>9, <2>2
  <2>3. CASE saving[s] \notin DOMAIN client
    <3>1. saving[s] \notin DOMAIN seqs
      BY <2>3 DEF IInv, SeqPart
    <3>2. CommitSnapshot(s, saving[s], <<>>)
      BY <1>11, <2>3 DEF Commit
    <3> QED BY <2>1, <2>2, <3>1, <3>2 DEF CommitSnapshot, CancelSnapshot
  <2>4. CASE saving[s] \in DOMAIN client
    <3>1. PICK k \in BlockSize..Len(client[saving[s]].prompt) :
            CommitSnapshot(s, saving[s], SubSeq(client[saving[s]].prompt, 1, k))
      BY <1>11, <2>4 DEF Commit
    <3>2. CASE StoreSnapshot(s, saving[s], SubSeq(client[saving[s]].prompt, 1, k))
      BY <2>1, <2>4, <3>2, StoreShares
    <3>3. CASE ~StoreSnapshot(s, saving[s], SubSeq(client[saving[s]].prompt, 1, k))
      <4>1. UNCHANGED <<seqs, entries>>
        BY <3>1, <3>3 DEF CommitSnapshot, TouchSnapshot, CancelSnapshot
      <4> QED BY <2>1, <2>2, <4>1
    <3> QED BY <3>2, <3>3
  <2> QED BY <2>3, <2>4
<1>12. CASE UNCHANGED vars
  BY <1>9, <1>12 DEF vars, cacheVars
<1> QED
  BY <1>1, <1>2, <1>3, <1>4, <1>5, <1>6, <1>7, <1>8, <1>10, <1>11, <1>12 DEF Next

\* Token by token is prefix by prefix.
LEMMA SamePrefix ==
  ASSUME NEW S, NEW p \in Seq(S), NEW q \in Seq(S), NEW n \in Nat, NEW e \in Nat,
         n <= Len(p), n <= Len(q), n <= e, SameTokens(p, q, e)
  PROVE  AgreeUpTo(p, q, n)
<1>1. /\ Len(p) \in Nat /\ Len(q) \in Nat
      /\ DOMAIN p = 1..Len(p) /\ DOMAIN q = 1..Len(q)
  BY LenProperties
<1>2. /\ SubSeq(p, 1, n) \in Seq(S) /\ Len(SubSeq(p, 1, n)) = n
      /\ \A i \in 1..n : SubSeq(p, 1, n)[i] = p[i]
      /\ SubSeq(q, 1, n) \in Seq(S) /\ Len(SubSeq(q, 1, n)) = n
      /\ \A i \in 1..n : SubSeq(q, 1, n)[i] = q[i]
  <2>1. n \in 0..Len(p) /\ n \in 0..Len(q)
    BY <1>1
  <2> QED BY <2>1, PrefixOfSeq
<1>3. \A i \in 1..n : p[i] = q[i]
  BY <1>1 DEF SameTokens
<1>4. SubSeq(p, 1, n) = SubSeq(q, 1, n)
  BY <1>2, <1>3, SeqEqual
<1> QED BY <1>4 DEF AgreeUpTo

\* The invariant says more than the checked property.
LEMMA SharingIsEnough == IInv /\ Sharing => SharedPagesAgree
<1> SUFFICES ASSUME IInv, Sharing PROVE SharedPagesAgree
  OBVIOUS
<1>1. ASSUME NEW i \in DOMAIN seqs
      PROVE  client[i].prompt \in Seq(Tokens) /\ Len(client[i].prompt) \in Nat
  BY PromptsAssumption, LenProperties DEF IInv, SeqPart, Tokens
<1>2. ASSUME NEW i \in DOMAIN seqs, NEW m \in DOMAIN seqs[i].blocks
      PROVE  PageEnd(m) \in Nat
  <2>1. seqs[i].blocks \in Seq(Pages)
    BY DEF IInv, SeqPart
  <2>2. m \in Nat
    BY <2>1, LenProperties
  <2> QED BY <2>2, CacheAssumption DEF PageEnd
<1>3. ASSUME NEW i \in DOMAIN seqs, NEW j \in DOMAIN seqs, i # j,
             NEW m \in DOMAIN seqs[i].blocks, NEW n \in DOMAIN seqs[j].blocks,
             seqs[i].blocks[m] = seqs[j].blocks[n]
      PROVE  m = n /\ AgreeUpTo(client[i].prompt, client[j].prompt, PageEnd(m))
  <2>1. m = n /\ seqs[j].blocks[m] = seqs[i].blocks[m]
    BY <1>3 DEF Sharing, SeqsShare, SamePlace
  <2>2. /\ PageEnd(m) <= Len(client[i].prompt)
        /\ SameTokens(client[i].prompt, client[j].prompt, PageEnd(m))
        /\ PageEnd(m) <= Len(client[j].prompt)
    BY <1>3, <2>1 DEF Sharing, SeqsShare
  <2>3. PageEnd(m) \in Nat /\ PageEnd(m) <= PageEnd(m)
    BY <1>2
  <2> HIDE DEF PageEnd
  <2> QED BY <1>1, <2>1, <2>2, <2>3, SamePrefix
<1>4. ASSUME NEW i \in DOMAIN seqs, NEW s \in DOMAIN entries,
             NEW m \in DOMAIN seqs[i].blocks, NEW n \in DOMAIN entries[s].blocks,
             seqs[i].blocks[m] = entries[s].blocks[n]
      PROVE  m = n /\ AgreeUpTo(client[i].prompt, entries[s].tokens,
                                Min({PageEnd(m), Len(entries[s].tokens)}))
  <2> DEFINE e == PageEnd(m)
             l == Len(entries[s].tokens)
             w == Min({e, l})
  <2>1. m = n
    BY <1>4 DEF Sharing, SeqEntryShare, SamePlace
  <2>2. /\ e <= Len(client[i].prompt) \/ l <= Len(client[i].prompt)
        /\ SameTokens(client[i].prompt, entries[s].tokens, e)
    BY <1>4, <2>1 DEF Sharing, SeqEntryShare
  <2>3. entries[s].tokens \in Seq(Tokens) /\ l \in Nat /\ e \in Nat
    BY <1>2, LenProperties DEF IInv, EntryPart
  <2> HIDE DEF e, l
  <2>4. w \in Nat /\ w <= e /\ w <= l /\ (w = e \/ w = l)
    <3>1. \E x \in {e, l} : \A y \in {e, l} : x <= y
      BY <2>3
    <3>2. w \in {e, l} /\ \A y \in {e, l} : w <= y
      BY <3>1 DEF Min
    <3> QED BY <2>3, <3>2
  <2>5. w <= Len(client[i].prompt)
    BY <1>1, <2>2, <2>3, <2>4
  <2> HIDE DEF w
  <2>6. AgreeUpTo(client[i].prompt, entries[s].tokens, w)
    BY <1>1, <2>2, <2>3, <2>4, <2>5, SamePrefix DEF l
  <2> QED BY <2>1, <2>6 DEF w, e, l
<1> QED BY <1>3, <1>4 DEF SharedPagesAgree, PageEnd

\* A new cache shares nothing.
LEMMA SharingInitial == Init => Sharing
<1>1. Init => DOMAIN seqs = {} /\ DOMAIN entries = {}
  BY DEF Init, CacheInit
<1> QED BY <1>1 DEF Sharing, SeqsShare, SeqEntryShare, EntriesShare

\* Sharing is sound whatever is cached and in whatever order sequences come,
\* grow and go: admit_prompt retains only whole pages of the very tokens the
\* new prompt begins with, and only at their place in its table, so that a page
\* read through two tables has the same contents for both.
THEOREM PageSharing == Spec => []SharedPagesAgree
<1>1. Init => IInv /\ Sharing
  BY Initial, SharingInitial
<1>2. IInv /\ Sharing /\ [Next]_vars => (IInv /\ Sharing)'
  BY Inductive, SharingInductive
<1>3. IInv /\ Sharing => SharedPagesAgree
  BY SharingIsEnough
<1> QED BY <1>1, <1>2, <1>3, PTL DEF Spec

=============================================================================
