---------------------------- MODULE CacheManager ----------------------------
(***************************************************************************)
(* The cache manager closed with the protocol its callers follow.          *)
(*                                                                         *)
(* What a caller owes the cache is state of the caller: the restore a      *)
(* sequence was admitted with (ActiveRequest::restore in scheduler.rs) and *)
(* the snapshot slots a batch has reserved (Batch::saves).  A restore is   *)
(* finished once, a reservation is committed or cancelled once, and only   *)
(* tokens that append_token added are rolled back.  Nothing else is asked  *)
(* of the callers: the order of the calls is arbitrary.                    *)
(***************************************************************************)
EXTENDS KvCache

CONSTANTS
  Prompts,  \* the prompts a request may carry, sequences of tokens
  MaxNew    \* tokens a sequence may grow by (max_new_tokens)

ASSUME PromptsAssumption ==
  /\ \A p \in Prompts : p \in Seq(UNION {Range(q) : q \in Prompts}) /\ p # <<>>
  /\ MaxNew \in Nat

Tokens == UNION {Range(p) : p \in Prompts}

VARIABLES
  client,  \* id |-> [prompt, restore]: what the caller knows of a sequence
  saving   \* reserved snapshot |-> the sequence it will capture

vars == <<cacheVars, client, saving>>

Init ==
  /\ CacheInit
  /\ client = <<>>
  /\ saving = <<>>

-----------------------------------------------------------------------------
(* The calls.                                                              *)

\* admit, or admit_prompt that finds no entry to continue.
AdmitFresh(id, p) ==
  /\ Admit(id, Len(p))
  /\ client' = With(client, id, [prompt |-> p, restore |-> {}])
  /\ UNCHANGED saving

AdmitCached(id, p) ==
  /\ \E s \in DOMAIN entries :
       /\ AdmitHit(id, p, s)
       /\ client' = With(client, id, [prompt |-> p, restore |-> {s}])
  /\ UNCHANGED saving

RefuseAdmission(id, p) ==
  /\ \/ AdmitRefused(id, Len(p))
     \/ \E s \in DOMAIN entries : AdmitHitRefused(id, p, s)
  /\ UNCHANGED <<client, saving>>

Restored(id) ==
  /\ id \in DOMAIN client
  /\ \E s \in client[id].restore : FinishRestore(s)
  /\ client' = [client EXCEPT ![id].restore = {}]
  /\ UNCHANGED saving

Grow(id) ==
  /\ id \in DOMAIN client
  /\ seqs[id].tokens < Len(client[id].prompt) + MaxNew
  /\ AppendToken(id) \/ AppendRefused(id)
  /\ UNCHANGED <<client, saving>>

Shrink(id) ==
  /\ id \in DOMAIN client
  /\ seqs[id].tokens > Len(client[id].prompt)
  /\ RollbackToken(id)
  /\ UNCHANGED <<client, saving>>

Reserve(id, s) ==
  /\ id \in DOMAIN client
  /\ ReserveSnapshot(s)
  /\ saving' = With(saving, s, id)
  /\ UNCHANGED client

Cancel(s) ==
  /\ s \in DOMAIN saving
  /\ CancelSnapshot(s)
  /\ saving' = Without(saving, {s})
  /\ UNCHANGED client

\* The snapshot of a prefix of the prompt; a sequence that is gone has none.
Commit(s) ==
  /\ s \in DOMAIN saving
  /\ LET id == saving[s]
     IN  IF id \in DOMAIN client
         THEN \E k \in BlockSize..Len(client[id].prompt) :
                CommitSnapshot(s, id, SubSeq(client[id].prompt, 1, k))
         ELSE CommitSnapshot(s, id, <<>>)
  /\ saving' = Without(saving, {s})
  /\ UNCHANGED client

\* The sequence ends, or is cancelled with its restore still due.
Leave(id) ==
  /\ id \in DOMAIN client
  /\ Release(id, client[id].restore)
  /\ client' = Without(client, {id})
  /\ UNCHANGED saving

Next ==
  \/ \E id \in Ids, p \in Prompts :
       AdmitFresh(id, p) \/ AdmitCached(id, p) \/ RefuseAdmission(id, p)
  \/ \E id \in Ids : Restored(id) \/ Grow(id) \/ Shrink(id) \/ Leave(id)
  \/ \E id \in Ids, s \in Snapshots : Reserve(id, s)
  \/ \E s \in Snapshots : Cancel(s) \/ Commit(s)

Spec == Init /\ [][Next]_vars

-----------------------------------------------------------------------------
(* Properties.                                                             *)

TypeOK ==
  /\ refs \in [Pages -> Nat]
  /\ freePages \subseteq Pages
  /\ freeSlots \subseteq Slots
  /\ freeSnapshots \subseteq Snapshots
  /\ DOMAIN seqs \subseteq Ids
  /\ \A id \in DOMAIN seqs :
       seqs[id] \in [slot : Slots, blocks : Seq(Pages), tokens : Nat]
  /\ DOMAIN entries \subseteq Snapshots
  /\ \A s \in DOMAIN entries :
       entries[s] \in [tokens : Seq(Tokens), blocks : Seq(Pages), pins : Nat]
  /\ older \subseteq Snapshots \X Snapshots
  /\ DOMAIN client = DOMAIN seqs
  /\ \A id \in DOMAIN client :
       client[id] \in [prompt : Prompts, restore : {{}} \cup {{s} : s \in Snapshots}]
  /\ DOMAIN saving \subseteq Snapshots
  /\ \A s \in DOMAIN saving : saving[s] \in Ids

\* A page table covers exactly the tokens it is for, and has no page twice.
\* The tokens of a sequence are its prompt and what it grew by.
TablesCover ==
  /\ \A id \in DOMAIN seqs :
       /\ seqs[id].tokens - Len(client[id].prompt) \in 0..MaxNew
       /\ Len(seqs[id].blocks) = BlocksFor(seqs[id].tokens)
       /\ IsInjective(seqs[id].blocks)
  /\ \A s \in DOMAIN entries :
       /\ Len(entries[s].blocks) = BlocksFor(Len(entries[s].tokens))
       /\ IsInjective(entries[s].blocks)

\* The sequences that hold page b.
SeqHolders(b) == {id \in DOMAIN seqs : b \in SeqPages(id)}

\* Reference counting: a page is counted once for every sequence and every
\* entry that holds it, and is free exactly when nobody does.
RefsExact ==
  \A b \in Pages :
    /\ refs[b] = Cardinality(SeqHolders(b)) + Cardinality(EntryHolders(DOMAIN entries, b))
    /\ b \in freePages <=> refs[b] = 0

\* A state slot is free or belongs to exactly one sequence.
SlotsExact ==
  /\ freeSlots = Slots \ {seqs[id].slot : id \in DOMAIN seqs}
  /\ \A i, j \in DOMAIN seqs : seqs[i].slot = seqs[j].slot => i = j

\* A snapshot slot is free, reserved by a batch, or the state of one entry,
\* and never two of these: a batch in flight cannot overwrite a cached state.
SnapshotsExact ==
  /\ freeSnapshots = Snapshots \ (DOMAIN entries \cup DOMAIN saving)
  /\ DOMAIN entries \cap DOMAIN saving = {}

\* An entry has one pin for every sequence that has yet to restore it; the
\* entry such a sequence was admitted with is still there.
PinsExact ==
  /\ \A id \in DOMAIN client : client[id].restore \subseteq DOMAIN entries
  /\ \A s \in DOMAIN entries :
       entries[s].pins = Cardinality({id \in DOMAIN client : s \in client[id].restore})

\* The cache is a set of histories, ranked by use: no two entries have the
\* same tokens, and of two entries one was used before the other.
EntriesRanked ==
  /\ \A s, t \in DOMAIN entries :
       s # t => /\ entries[s].tokens # entries[t].tokens
                /\ <<s, t>> \in older <=> <<t, s>> \notin older
  /\ \A s, t, u \in DOMAIN entries :
       <<s, t>> \in older /\ <<t, u>> \in older => <<s, u>> \in older
  /\ \A p \in older : p[1] # p[2] /\ {p[1], p[2]} \subseteq DOMAIN entries

\* The tokens two owners of one page agree on.
AgreeUpTo(p, q, n) == n <= Len(p) /\ n <= Len(q) /\ SubSeq(p, 1, n) = SubSeq(q, 1, n)

\* Sharing is sound.  Two sequences share a page only at the same place of
\* their tables, and only a page their prompts fill with the same tokens;
\* a page an entry shares with a sequence holds the entry's tokens.
SharedPagesAgree ==
  /\ \A i, j \in DOMAIN seqs :
       \A m \in DOMAIN seqs[i].blocks, n \in DOMAIN seqs[j].blocks :
         i # j /\ seqs[i].blocks[m] = seqs[j].blocks[n] =>
           m = n /\ AgreeUpTo(client[i].prompt, client[j].prompt, m * BlockSize)
  /\ \A i \in DOMAIN seqs, s \in DOMAIN entries :
       \A m \in DOMAIN seqs[i].blocks, n \in DOMAIN entries[s].blocks :
         seqs[i].blocks[m] = entries[s].blocks[n] =>
           m = n /\ AgreeUpTo(client[i].prompt, entries[s].tokens,
                              Min({m * BlockSize, Len(entries[s].tokens)}))

SequencePages == UNION {SeqPages(id) : id \in DOMAIN seqs}

PinnedPages == UNION {EntryPages(s) : s \in {t \in DOMAIN entries : entries[t].pins > 0}}

\* Live sequences come before the cache: whatever is held neither by a
\* sequence nor by a pinned entry can be had by evicting.  In particular the
\* entries that eviction for pages passes over would free nothing.
Reclaimable ==
  freePages \cup Freed(PageCandidates({})) = Pages \ (SequencePages \cup PinnedPages)

\* Everything the cache manager hands out is owned by exactly those that use
\* it, under every order of calls (admit, grow, roll back, share, evict,
\* capture, release in cache.rs): pages, slots, snapshots and pins.
OwnershipExact == TypeOK /\ RefsExact /\ SlotsExact /\ SnapshotsExact /\ PinsExact

=============================================================================
