---------------------------- MODULE EngineProofs ----------------------------
(***************************************************************************)
(* What the executor leaves on the device is what the scheduler counts on: *)
(* for any prompts, pages, chunk sizes, snapshots and drafts, every        *)
(* request reads the states and KV cells of its own history                *)
(* (ContextIntact), and every cached prefix is what it says                *)
(* (EntriesIntact).                                                        *)
(*                                                                         *)
(* ExecutionProofs has the inductive invariant EInv and the steps that run *)
(* a batch.  Here are the steps of the scheduler and the worker, which     *)
(* leave the device alone but move pages and slots between requests.  A    *)
(* step leaves a request what it had (Carried), or the request has nothing *)
(* of its own yet (Starts): a request whose restore is due has the         *)
(* snapshot and the pages it will be given (RestoresRight), and the page   *)
(* they will be copied into is its alone.  DraftPart is what makes the     *)
(* working copy of the draft slot safe to go on from: it is the state of   *)
(* the one request that is decoded, or that request ends with the batch.   *)
(***************************************************************************)
EXTENDS ExecutionProofs, ReservationProofs

-----------------------------------------------------------------------------
(* What the device keeps when the host gives memory up.                    *)

\* The device still has whatever is not free.
Remembers ==
  /\ DevShape(dev)' /\ dev'.copy = dev.copy
  /\ \A b \in Pages \ freePages' : dev'.kv[b] = dev.kv[b]
  /\ \A x \in Slots \ freeSlots' : dev'.slots[x] = dev.slots[x]
  /\ \A s \in Snapshots \ freeSnapshots' : dev'.snaps[s] = dev.snaps[s]

\* Forget leaves what is held.
LEMMA ForgetRemembers == ASSUME DevShape(dev), Forget PROVE Remembers
<1> DEFINE kv == [b \in Pages |->
                    IF b \in freePages' THEN [i \in 1..BlockSize |-> BlankCell] ELSE dev.kv[b]]
           slots == [x \in DOMAIN dev.slots |-> IF x \in freeSlots' THEN BlankState
                                                ELSE dev.slots[x]]
           snaps == [s \in Snapshots |-> IF s \in freeSnapshots' THEN BlankState ELSE dev.snaps[s]]
<1>1. dev = [kv |-> dev.kv, slots |-> dev.slots, snaps |-> dev.snaps, copy |-> dev.copy]
  BY DEF DevShape
<1>2. dev' = [dev EXCEPT !.kv = kv, !.slots = slots, !.snaps = snaps]
  BY DEF Forget
<1> HIDE DEF kv, slots, snaps
<1>3. dev' = [kv |-> kv, slots |-> slots, snaps |-> snaps, copy |-> dev.copy]
  BY <1>1, <1>2
<1>4. dev'.kv = kv /\ dev'.slots = slots /\ dev'.snaps = snaps /\ dev'.copy = dev.copy
  BY <1>3
<1>5. DOMAIN kv = Pages /\ DOMAIN slots = Slots \cup {Draft} /\ DOMAIN snaps = Snapshots
  BY DEF kv, slots, snaps, DevShape
<1>6. \A x \in Slots \cup {Draft} : StateShape(slots[x])
  BY DEF slots, DevShape, StateShape, BlankState
<1>7. DevShape(dev')
  BY <1>3, <1>4, <1>5, <1>6 DEF DevShape
<1>8. DevShape(dev)'
  BY <1>7 DEF DevShape, StateShape
<1>9. /\ \A b \in Pages \ freePages' : dev'.kv[b] = dev.kv[b]
      /\ \A x \in Slots \ freeSlots' : dev'.slots[x] = dev.slots[x]
      /\ \A s \in Snapshots \ freeSnapshots' : dev'.snaps[s] = dev.snaps[s]
  BY <1>4, <1>5 DEF kv, slots, snaps
<1> QED BY <1>4, <1>8, <1>9 DEF Remembers

\* So does a step that leaves the device alone.
LEMMA StayRemembers == ASSUME DevShape(dev), dev' = dev PROVE Remembers
BY DEF Remembers, DevShape, StateShape

\* What is held is not free.
HeldFacts ==
  /\ \A id \in DOMAIN active : /\ id \in Ids /\ seqs[id].slot \in Slots \ freeSlots
                               /\ seqs[id].blocks \in Seq(Pages)
                               /\ Range(seqs[id].blocks) \cap freePages = {}
  /\ \A s \in DOMAIN entries : /\ s \in Snapshots \ freeSnapshots
                               /\ entries[s].blocks \in Seq(Pages) /\ AnySeq(entries[s].tokens)
                               /\ Len(entries[s].blocks) = BlocksFor(Len(entries[s].tokens))
                               /\ Range(entries[s].blocks) \cap freePages = {}
  /\ \A save \in Range(batch.saves) : save.snapshot \in Snapshots \ freeSnapshots
  /\ \A id \in DOMAIN active : \A r \in active[id].restore : r.snapshot \in DOMAIN entries

\* It is so whenever the cache is right.
LEMMA NotFree == ASSUME SInv, Proved!IInv PROVE HeldFacts
<1>1. /\ DOMAIN seqs = DOMAIN active
      /\ \A id \in DOMAIN seqs : seqs[id] \in [slot : Slots, blocks : Seq(Pages), tokens : Nat]
      /\ DOMAIN entries \subseteq Snapshots
      /\ \A s \in DOMAIN entries :
           /\ entries[s].blocks \in Seq(Pages) /\ entries[s].tokens \in Seq(Proved!Tokens)
           /\ Len(entries[s].blocks) = BlocksFor(Len(entries[s].tokens))
      /\ (freeSnapshots \cup DOMAIN entries) \cap DOMAIN saving = {}
  BY CacheFacts
<1>2. Proved!TypeOK /\ IsFiniteSet(DOMAIN seqs) /\ Proved!IsFiniteSet(DOMAIN seqs)
      /\ Proved!RefsExact /\ Proved!SlotsExact /\ Proved!SnapshotsExact /\ Proved!PinsExact
      /\ DOMAIN client = DOMAIN seqs
  BY Proved!IInvImplies, CopiesAssumed, SameSets DEF Proved!IInv, Proved!PagePart, Proved!SeqPart
<1>3. \A b \in freePages :
        (\A id \in DOMAIN seqs : b \notin Range(seqs[id].blocks))
        /\ \A s \in DOMAIN entries : b \notin Range(entries[s].blocks)
  <2> SUFFICES ASSUME NEW b \in freePages
               PROVE  (\A id \in DOMAIN seqs : b \notin Range(seqs[id].blocks))
                      /\ \A s \in DOMAIN entries : b \notin Range(entries[s].blocks)
    OBVIOUS
  <2>1. b \in Pages
    BY <1>2 DEF Proved!TypeOK
  <2>2. Proved!SeqHolders(b) = {} /\ Proved!EntryHolders(DOMAIN entries \ {}, b) = {}
    BY <1>2, <2>1, Proved!FreeOrFreed, CopiesAssumed
  <2>3. DOMAIN entries \ {} = DOMAIN entries
    OBVIOUS
  <2> QED BY <2>2, <2>3, SameSets DEF Proved!SeqHolders, Proved!EntryHolders, Proved!SeqPages,
                                      Proved!EntryPages
<1>4. \A id \in DOMAIN seqs : seqs[id].slot \notin freeSlots
  BY <1>2 DEF Proved!SlotsExact
<1>5. \A s \in DOMAIN entries : s \notin freeSnapshots
  BY <1>2 DEF Proved!SnapshotsExact
<1>6. \A save \in Range(batch.saves) : save.snapshot \in Snapshots \ freeSnapshots
  <2>1. \A save \in Range(batch.saves) : save.snapshot \in DOMAIN saving
    BY SavingFacts DEF SInv
  <2>2. DOMAIN saving \subseteq Snapshots
    BY <1>2 DEF Proved!TypeOK
  <2> QED BY <1>1, <2>1, <2>2
<1>7. \A id \in DOMAIN active : \A r \in active[id].restore : r.snapshot \in DOMAIN entries
  BY <1>1, <1>2 DEF Proved!PinsExact, client
<1>8. DOMAIN active \subseteq Ids
  BY DEF SInv, ActivePart
<1>9. \A s \in DOMAIN entries : AnySeq(entries[s].tokens)
  BY <1>1, LenProperties DEF AnySeq
<1> QED BY <1>1, <1>3, <1>4, <1>5, <1>6, <1>7, <1>8, <1>9 DEF HeldFacts

\* What requests have reached.
ReachedRight(id) ==
  /\ id \in Ids /\ Reached(id) \in Nat /\ Reached(id) <= Total(id)
  /\ BlocksFor(Reached(id)) <= Len(seqs[id].blocks)

\* It fits their tables.
LEMMA ReachedFacts ==
  ASSUME Known1, RunPart, GenPart
  PROVE  \A id \in DOMAIN active : ReachedRight(id)
<1> SUFFICES ASSUME NEW id \in DOMAIN active PROVE ReachedRight(id)
  OBVIOUS
<1>1. Known0
  BY DEF Known0, Known1
<1>2. accepted \in 0..extra
  <2>1. extra \in Nat
    BY <1>1, BaseFacts
  <2> QED BY <2>1 DEF RunPart
<1>3. RunIds \in SUBSET BatchIds
  BY DEF RunIds
<1>4. PICK n, X, k : n = Reached(id) /\ X = RunIds /\ k = accepted
  OBVIOUS
<1>5. n = Count(id, X, k) /\ X \in SUBSET BatchIds /\ k \in 0..extra
  BY <1>2, <1>3, <1>4 DEF Reached
<1>6. n \in Nat /\ n <= Total(id) /\ BlocksFor(n) <= Len(seqs[id].blocks)
  BY <1>1, <1>5, CountFacts
<1> QED BY <1>1, <1>4, <1>6, BaseFacts DEF ReachedRight

\* The same after a step.
LEMMA NextFacts ==
  /\ SInv' /\ Proved!IInv' => HeldFacts'
  /\ Known1' /\ RunPart' /\ GenPart' => \A id \in DOMAIN active' : ReachedRight(id)'
<1>1. SInv /\ Proved!IInv => HeldFacts
  BY NotFree
<1>2. Known1 /\ RunPart /\ GenPart => \A id \in DOMAIN active : ReachedRight(id)
  BY ReachedFacts
<1>3. SInv' /\ Proved!IInv' => HeldFacts'
  BY <1>1, PTL
<1>4. Known1' /\ RunPart' /\ GenPart' => (\A id \in DOMAIN active : ReachedRight(id))'
  BY <1>2, PTL
<1> QED BY <1>3, <1>4

\* The device keeps the pages of a table.
LEMMA CarryHolds ==
  ASSUME Remembers, NEW t \in Seq(Pages), Range(t) \cap freePages' = {}, NEW u, NEW h, AnySeq(h),
         BlocksFor(Len(h)) <= Len(t), \A m \in 1..BlocksFor(Len(h)) : t[m] = u[m],
         HoldsIn(dev.kv, u, h)
  PROVE  HoldsIn(dev'.kv, t, h)
<1>1. Len(h) \in Nat /\ Len(t) \in Nat /\ DOMAIN t = 1..Len(t)
  BY LenProperties DEF AnySeq
<1> SUFFICES ASSUME NEW p \in 1..Len(h)
             PROVE  dev'.kv[t[PageOf(p)]][CellOf(p)] = SubSeq(h, 1, p)
  BY DEF HoldsIn
<1>2. PageOf(p) \in 1..BlocksFor(Len(h)) /\ BlocksFor(Len(h)) \in Nat
  BY <1>1, PlaceInTable
<1>3. t[PageOf(p)] = u[PageOf(p)]
  BY <1>2
<1>4. PageOf(p) \in DOMAIN t
  BY <1>1, <1>2
<1>5. t[PageOf(p)] \in Pages /\ t[PageOf(p)] \in Range(t)
  BY <1>4, ElementOfSeq, <1>1 DEF Range
<1>6. dev'.kv[t[PageOf(p)]] = dev.kv[t[PageOf(p)]]
  BY <1>5 DEF Remembers
<1>7. dev.kv[u[PageOf(p)]][CellOf(p)] = SubSeq(h, 1, p)
  BY DEF HoldsIn
<1> QED BY <1>3, <1>6, <1>7

\* A request goes on from where it was, or starts.
Carried(id) ==
  /\ id \in DOMAIN active /\ Reached(id)' = Reached(id)
  /\ seqs'[id].slot = seqs[id].slot
  /\ \A m \in 1..BlocksFor(Reached(id)) : seqs'[id].blocks[m] = seqs[id].blocks[m]
  /\ id \in RunIds' => id \in RunIds
  /\ active'[id].restore = {} => active[id].restore = {} \/ id \in RunIds
  /\ Decoding(id) => Decoding(id)'

\* id has nothing in the caches, or is still to be restored.
Starts(id) == id \notin RunIds' /\ (active'[id].restore # {} \/ Reached(id)' = 0)

\* What it has is what it had.
LEMMA OneCarried ==
  ASSUME HeldFacts', Remembers, NEW id \in DOMAIN active', ReachedRight(id)', Carried(id),
         RightOf(dev, id, Reached(id), RunIds, RunIds),
         NEW d, d = dev', NEW n, n = Reached(id)', NEW X, X = RunIds'
  PROVE  RightOf(d, id, n, X, X)'
<1>1. PICK h : n = Reached(id) /\ h = History(id, n)
  BY DEF Carried
<1>2. /\ id \in Ids /\ n \in 0..Total(id)
      /\ BlocksFor(n) <= Len(seqs'[id].blocks)
  <2>1. Reached(id)' = n
    BY <1>1 DEF Carried
  <2>2. n \in Nat /\ n <= Total(id) /\ id \in Ids /\ BlocksFor(n) <= Len(seqs'[id].blocks)
    BY <2>1 DEF ReachedRight, Total, PromptLen, BlocksFor
  <2>3. Total(id) \in Nat
    BY <2>2, WholeFacts
  <2> QED BY <2>1, <2>2, <2>3
<1>3. AnySeq(h) /\ Len(h) = n
  BY <1>1, <1>2, HistoryFacts
<1>4. /\ seqs'[id].slot \in Slots \ freeSlots' /\ seqs'[id].blocks \in Seq(Pages)
      /\ Range(seqs'[id].blocks) \cap freePages' = {}
  BY SMTT(30) DEF HeldFacts
<1>5. ASSUME Held(dev, id, n) PROVE Held(d, id, n)'
  <2>1. HoldsIn(dev.kv, seqs[id].blocks, h)
    BY <1>1, <1>5 DEF Held
  <2>2. \A m \in 1..BlocksFor(Len(h)) : seqs'[id].blocks[m] = seqs[id].blocks[m]
    BY <1>1, <1>3 DEF Carried
  <2>3. HoldsIn(dev'.kv, seqs'[id].blocks, h)
    BY <1>2, <1>3, <1>4, <2>1, <2>2, CarryHolds
  <2>4. History(id, n)' = h
    BY <1>1 DEF History
  <2> QED BY <2>3, <2>4, Zenon DEF Held, HoldsIn, PageOf, CellOf, BlocksFor
<1>6. ASSUME StateRight(dev, id, n) PROVE StateRight(d, id, n)'
  <2>1. dev'.slots[seqs'[id].slot] = dev.slots[seqs[id].slot] /\ dev'.copy = dev.copy
        /\ seqs'[id].slot = seqs[id].slot
    BY <1>4 DEF Remembers, Carried
  <2>2. History(id, n)' = History(id, n)
    BY DEF History
  <2>3. Decoding(id) => Decoding(id)'
    BY DEF Carried
  <2> QED BY <1>6, <2>1, <2>2, <2>3 DEF StateRight, IsState
<1>7. /\ active'[id].restore = {} \/ id \in RunIds' => active[id].restore = {} \/ id \in RunIds
      /\ id \in RunIds' => id \in RunIds
  BY DEF Carried
<1>8. /\ active[id].restore = {} \/ id \in RunIds => Held(dev, id, n)
      /\ (active[id].restore = {} \/ id \in RunIds) /\ (n > 0 \/ id \in RunIds) =>
           StateRight(dev, id, n)
  BY <1>1 DEF RightOf
<1>9. /\ active'[id].restore = {} \/ id \in RunIds' => Held(d, id, n)'
      /\ (active'[id].restore = {} \/ id \in RunIds') /\ (n > 0 \/ id \in RunIds') =>
           StateRight(d, id, n)'
  BY <1>5, <1>6, <1>7, <1>8
<1> QED BY <1>2, <1>9 DEF RightOf

\* What starts has nothing yet that could be wrong.
LEMMA OneStarts ==
  ASSUME NEW id \in DOMAIN active', ReachedRight(id)', Starts(id),
         NEW d, d = dev', NEW n, n = Reached(id)', NEW X, X = RunIds'
  PROVE  RightOf(d, id, n, X, X)'
<1>1. id \notin X /\ (active'[id].restore # {} \/ n = 0)
  BY DEF Starts
<1>2. CASE active'[id].restore # {}
  BY <1>1, <1>2 DEF RightOf
<1>3. CASE n = 0
  <2>1. id \in Ids
    BY DEF ReachedRight
  <2>2. Len(History(id, 0)) = 0
    <3>1. 0 \in 0..Total(id)
      BY <2>1, WholeFacts
    <3> QED BY <2>1, <3>1, HistoryFacts
  <2>3. Held(d, id, 0)'
    <3>1. HoldsIn(d.kv, seqs[id].blocks, History(id, 0))'
      BY <2>2 DEF HoldsIn, History
    <3> QED BY <3>1 DEF Held
  <2> QED BY <1>1, <1>3, <2>3 DEF RightOf
<1> QED BY <1>1, <1>2, <1>3

\* Every request is held after the step.
LEMMA RightCarried ==
  ASSUME HeldFacts', Remembers, Right(dev, RunIds, accepted, RunIds),
         \A id \in DOMAIN active' : ReachedRight(id)' /\ (Carried(id) \/ Starts(id))
  PROVE  Right(dev, RunIds, accepted, RunIds)'
<1>1. PICK d, X : d = dev' /\ X = RunIds'
  OBVIOUS
<1>2. \A id \in DOMAIN active' : \A n : n = Reached(id)' => RightOf(d, id, n, X, X)'
  <2> SUFFICES ASSUME NEW id \in DOMAIN active', NEW n, n = Reached(id)'
               PROVE  RightOf(d, id, n, X, X)'
    OBVIOUS
  <2>1. CASE Carried(id)
    <3>1. RightOf(dev, id, Reached(id), RunIds, RunIds)
      BY <2>1 DEF Carried, Right, Reached
    <3> QED BY <1>1, <2>1, <3>1, OneCarried
  <2>2. CASE Starts(id)
    BY <1>1, <2>2, OneStarts
  <2> QED BY <2>1, <2>2
<1> QED BY <1>1, <1>2 DEF Right, Reached

\* Where the entries come from.
EntriesFrom ==
  \A s \in DOMAIN entries' :
    \/ /\ s \in DOMAIN entries
       /\ entries'[s].tokens = entries[s].tokens /\ entries'[s].blocks = entries[s].blocks
    \/ /\ s \notin DOMAIN entries
       /\ IsState(dev.snaps[s], entries'[s].tokens)
       /\ HoldsIn(dev.kv, entries'[s].blocks, entries'[s].tokens)
       /\ \E j \in DOMAIN active : /\ active[j].restore = {}
                                   /\ Range(entries'[s].blocks) \subseteq Range(seqs[j].blocks)

\* Every entry is held after the step.
LEMMA EntriesCarried ==
  ASSUME HeldFacts', Remembers, EntriesIn(dev), EntriesFrom
  PROVE  EntriesIn(dev)'
<1> SUFFICES ASSUME NEW s \in DOMAIN entries' PROVE EntryIn(dev, s)'
  BY DEF EntriesIn
<1>1. PICK t, h : t = entries'[s].blocks /\ h = entries'[s].tokens
  OBVIOUS
<1>2. IsState(dev.snaps[s], h) /\ HoldsIn(dev.kv, t, h)
  <2>1. CASE s \in DOMAIN entries /\ h = entries[s].tokens /\ t = entries[s].blocks
    BY <2>1 DEF EntriesIn, EntryIn
  <2>2. CASE s \notin DOMAIN entries \/ h # entries[s].tokens \/ t # entries[s].blocks
    BY <1>1, <2>2 DEF EntriesFrom
  <2> QED BY <2>1, <2>2
<1>3. /\ s \in Snapshots \ freeSnapshots' /\ t \in Seq(Pages) /\ AnySeq(h)
      /\ Len(t) = BlocksFor(Len(h)) /\ Range(t) \cap freePages' = {}
  <2>1. /\ s \in Snapshots \ freeSnapshots'
        /\ entries'[s].blocks \in Seq(Pages) /\ AnySeq(entries'[s].tokens)
        /\ Len(entries'[s].blocks) = BlocksFor(Len(entries'[s].tokens))
        /\ Range(entries'[s].blocks) \cap freePages' = {}
    BY DEF HeldFacts, AnySeq, BlocksFor
  <2> QED BY <1>1, <2>1
<1>4. BlocksFor(Len(h)) <= Len(t)
  <2>1. Len(t) \in Nat
    BY <1>3, LenProperties
  <2> QED BY <1>3, <2>1
<1>5. HoldsIn(dev'.kv, t, h)
  <2>1. \A m \in 1..BlocksFor(Len(h)) : t[m] = t[m]
    OBVIOUS
  <2> QED BY <1>2, <1>3, <1>4, <2>1, CarryHolds
<1>6. dev'.snaps[s] = dev.snaps[s]
  BY <1>3 DEF Remembers
<1> QED BY <1>1, <1>2, <1>5, <1>6, Zenon DEF EntryIn, IsState, HoldsIn, PageOf, CellOf, BlocksFor

\* Where the saves come from.
SavesFrom ==
  \A save \in Range(batch'.saves) :
    save.id \in RunIds' => save \in Range(batch.saves) /\ save.id \in RunIds

\* The snapshots are held after the step.
LEMMA SavesCarried ==
  ASSUME HeldFacts', Remembers, SavedIn(dev, RunIds), SavesFrom
  PROVE  SavedIn(dev, RunIds)'
<1> SUFFICES ASSUME NEW save \in Range(batch'.saves), save.id \in RunIds'
             PROVE  IsState(dev'.snaps[save.snapshot], SaveTokens(save.id))
  BY DEF SavedIn, IsState, SaveTokens
<1>1. save \in Range(batch.saves) /\ save.id \in RunIds
  BY DEF SavesFrom
<1>2. save.snapshot \in Snapshots \ freeSnapshots'
  BY DEF HeldFacts
<1>3. dev'.snaps[save.snapshot] = dev.snaps[save.snapshot]
  BY <1>2 DEF Remembers
<1> QED BY <1>1, <1>3 DEF SavedIn

\* Where the pages come from: from the same table, from an entry, or from no table.
TablesFrom ==
  \A j \in DOMAIN active' : \A b \in Range(seqs'[j].blocks) :
    \/ j \in DOMAIN active /\ b \in Range(seqs[j].blocks)
    \/ \E s \in DOMAIN entries : b \in Range(entries[s].blocks)
    \/ \A i \in DOMAIN active : b \notin Range(seqs[i].blocks)

\* A restore is as due as before.
Waits(id) ==
  /\ id \in DOMAIN active /\ active'[id].restore = active[id].restore
  /\ active'[id].prefilled = active[id].prefilled /\ seqs'[id].blocks = seqs[id].blocks

\* A page nobody else had is still its request's own.
LEMMA OwnKept ==
  ASSUME TablesFrom, EntriesFrom, NEW id \in DOMAIN active, Waits(id), active[id].restore # {},
         NEW b, OwnPage(id, b)
  PROVE  OwnPage(id, b)'
<1>1. /\ b \in Range(seqs[id].blocks)
      /\ \A j \in DOMAIN active : j # id => b \notin Range(seqs[j].blocks)
      /\ \A s \in DOMAIN entries : b \notin Range(entries[s].blocks)
  BY DEF OwnPage
<1>2. b \in Range(seqs'[id].blocks)
  BY <1>1 DEF Waits
<1>3. \A j \in DOMAIN active' : j # id => b \notin Range(seqs'[j].blocks)
  BY <1>1 DEF TablesFrom
<1>4. \A s \in DOMAIN entries' : b \notin Range(entries'[s].blocks)
  <2> SUFFICES ASSUME NEW s \in DOMAIN entries', b \in Range(entries'[s].blocks) PROVE FALSE
    OBVIOUS
  <2>1. CASE s \in DOMAIN entries /\ entries'[s].blocks = entries[s].blocks
    BY <1>1, <2>1
  <2>2. CASE \E j \in DOMAIN active : /\ active[j].restore = {}
                                      /\ Range(entries'[s].blocks) \subseteq Range(seqs[j].blocks)
    BY <1>1, <2>2
  <2> QED BY <2>1, <2>2 DEF EntriesFrom
<1> QED BY <1>2, <1>3, <1>4 DEF OwnPage

\* The restores are right after the step.
LEMMA RestoresCarried ==
  ASSUME HeldFacts', TablesFrom, EntriesFrom, RestoresRight,
         \A id \in DOMAIN active' : \/ active'[id].restore = {}
                                    \/ Waits(id)
                                    \/ \A r \in active'[id].restore : RestoreRight(id, r)'
  PROVE  RestoresRight'
<1> SUFFICES ASSUME NEW id \in DOMAIN active', NEW r \in active'[id].restore
             PROVE  RestoreRight(id, r)'
  BY DEF RestoresRight
<1> SUFFICES ASSUME Waits(id) PROVE RestoreRight(id, r)'
  OBVIOUS
<1>1. id \in DOMAIN active /\ r \in active[id].restore /\ active[id].restore # {}
  BY DEF Waits
<1>2. RestoreRight(id, r)
  BY <1>1 DEF RestoresRight
<1>3. r.snapshot \in DOMAIN entries'
  BY DEF HeldFacts
<1>4. /\ entries'[r.snapshot].tokens = entries[r.snapshot].tokens
      /\ entries'[r.snapshot].blocks = entries[r.snapshot].blocks
  BY <1>2, <1>3 DEF EntriesFrom, RestoreRight
<1>5. \A c \in r.copy : r.copy = {c} /\ OwnPage(id, c[2])'
  <2> SUFFICES ASSUME NEW c \in r.copy PROVE r.copy = {c} /\ OwnPage(id, c[2])'
    OBVIOUS
  <2>1. r.copy = {c} /\ OwnPage(id, c[2])
    BY <1>2 DEF RestoreRight
  <2>2. PICK b : b = c[2]
    OBVIOUS
  <2>3. OwnPage(id, b)'
    BY <1>1, <2>1, <2>2, OwnKept
  <2> QED BY <2>1, <2>2, <2>3
<1>6. /\ seqs'[id].blocks = seqs[id].blocks /\ active'[id].prefilled = active[id].prefilled
  BY DEF Waits
<1> QED BY <1>2, <1>3, <1>4, <1>5, <1>6 DEF RestoreRight, BlocksFor

\* What a step has to keep besides.
Fits0 ==
  /\ RunPart' /\ HiddenPart' /\ DraftPart' /\ GenPart' /\ SaveChunks'
  /\ Remembers /\ EntriesFrom /\ TablesFrom /\ SavesFrom
  /\ \A id \in DOMAIN active' : Carried(id) \/ Starts(id)
  /\ \A id \in DOMAIN active' : \/ active'[id].restore = {}
                                \/ Waits(id)
                                \/ \A r \in active'[id].restore : RestoreRight(id, r)'

\* A step that keeps it keeps the invariant.
LEMMA StepKeeps == ASSUME Known1', EInv, Fits0 PROVE EInv'
<1>1. RunPart' /\ HiddenPart' /\ DraftPart' /\ GenPart' /\ SaveChunks' /\ Remembers
  BY DEF Fits0
<1>2. HeldFacts' /\ \A id \in DOMAIN active' : ReachedRight(id)'
  BY <1>1, NextFacts DEF Known1
<1>3. DevShape(dev)'
  BY <1>1 DEF Remembers
<1>4. Right(dev, RunIds, accepted, RunIds)'
  <2>1. \A id \in DOMAIN active' : ReachedRight(id)' /\ (Carried(id) \/ Starts(id))
    BY <1>2 DEF Fits0
  <2> QED BY <1>1, <1>2, <2>1, RightCarried DEF EInv
<1>5. EntriesIn(dev)'
  BY <1>1, <1>2, EntriesCarried DEF EInv, Fits0
<1>6. SavedIn(dev, RunIds)'
  BY <1>1, <1>2, SavesCarried DEF EInv, Fits0
<1>7. RestoresRight'
  BY <1>1, <1>2, RestoresCarried DEF EInv, Fits0
<1> QED BY <1>1, <1>3, <1>4, <1>5, <1>6, <1>7 DEF EInv

-----------------------------------------------------------------------------
(* Steps between two batches.                                              *)

\* A request is as it was, but for its phase and the end of its table.
Planned(id) ==
  /\ id \in DOMAIN active
  /\ active'[id].prefilled = active[id].prefilled /\ active'[id].generated = active[id].generated
  /\ active'[id].restore = active[id].restore /\ (Decoding(id)' <=> Decoding(id))
  /\ seqs'[id].slot = seqs[id].slot
  /\ \A m \in 1..BlocksFor(Base(id)) : seqs'[id].blocks[m] = seqs[id].blocks[m]
  /\ active[id].restore = {} \/ seqs'[id].blocks = seqs[id].blocks

\* A request has just been admitted.
Enters(id) ==
  /\ active'[id].phase = "PrefillReady" /\ active'[id].generated = 0
  /\ \/ active'[id].restore = {} /\ active'[id].prefilled = 0
     \/ active'[id].restore # {} /\ \A r \in active'[id].restore : RestoreRight(id, r)'

\* No batch has run, before and after.
Idle0 ==
  /\ ~ran /\ ran' = FALSE /\ accepted' = 0
  /\ extra' \in Nat /\ (extra' > 0 => DraftDepth' > 0)
  /\ step' \notin {"abort", "complete"} /\ (step' = "flight" => ~NoBatch')
  /\ hiddenFor' = hiddenFor \cap DOMAIN active' /\ Remembers

\* Such a step keeps the invariant.
LEMMA PlanKeeps ==
  ASSUME Known1, Known1', EInv, Idle0, HiddenPart', SaveChunks', EntriesFrom, TablesFrom,
         \A id \in DOMAIN active' : Planned(id) \/ Enters(id)
  PROVE  EInv'
<1>1. /\ RunPart /\ DraftPart /\ GenPart /\ RunIds = {} /\ RunIds' = {} /\ Known0
      /\ Remembers
  BY DEF EInv, Idle0, RunIds, Known0, Known1
<1>2. RunPart'
  <2>1. ran' = FALSE /\ accepted' = 0 /\ extra' \in Nat /\ (extra' > 0 => DraftDepth' > 0)
    BY DEF Idle0
  <2>2. accepted' \in Nat /\ accepted' <= extra'
    BY <2>1
  <2>3. step' \notin {"abort", "complete"} /\ (step' = "flight" => ~NoBatch')
    BY DEF Idle0
  <2>4. step' # "abort" /\ step' # "complete"
    BY <2>3
  <2> QED BY <2>1, <2>2, <2>3, <2>4 DEF RunPart
<1>3. \A id \in DOMAIN active : Reached(id) = Base(id) /\ Base(id) \in Nat
  <2> SUFFICES ASSUME NEW id \in DOMAIN active PROVE Reached(id) = Base(id) /\ Base(id) \in Nat
    OBVIOUS
  <2>1. Base(id) \in Nat
    BY <1>1, BaseFacts
  <2> QED BY <1>1, <2>1 DEF Reached, Count
<1>4. \A id : Reached(id)' = Base(id)' + 0
  BY <1>1 DEF Reached, Count
<1>5. \A id \in DOMAIN active' : Planned(id) =>
        id \in DOMAIN active /\ Reached(id)' = Reached(id)
  <2> SUFFICES ASSUME NEW id \in DOMAIN active', Planned(id)
               PROVE  id \in DOMAIN active /\ Reached(id)' = Reached(id)
    OBVIOUS
  <2>1. id \in DOMAIN active /\ Base(id)' = Base(id)
    BY DEF Planned, Base
  <2> QED BY <1>3, <1>4, <2>1
<1>6. \A id \in DOMAIN active' : Carried(id) \/ Starts(id)
  <2> SUFFICES ASSUME NEW id \in DOMAIN active' PROVE Carried(id) \/ Starts(id)
    OBVIOUS
  <2>1. CASE Planned(id)
    <3>1. id \in DOMAIN active /\ Reached(id)' = Reached(id) /\ Reached(id) = Base(id)
      BY <1>3, <1>5, <2>1
    <3>2. \A m \in 1..BlocksFor(Reached(id)) : seqs'[id].blocks[m] = seqs[id].blocks[m]
      BY <2>1, <3>1 DEF Planned
    <3> QED BY <1>1, <2>1, <3>1, <3>2 DEF Carried, Planned
  <2>2. CASE Enters(id)
    <3>1. active'[id].restore = {} => Reached(id)' = 0
      BY <1>4, <2>2 DEF Enters, Base
    <3> QED BY <1>1, <3>1 DEF Starts
  <2> QED BY <2>1, <2>2
<1>7. \A id \in DOMAIN active' : \/ active'[id].restore = {}
                                 \/ Waits(id)
                                 \/ \A r \in active'[id].restore : RestoreRight(id, r)'
  BY DEF Planned, Enters, Waits
<1>8. \A id \in DOMAIN active' : Decoding(id)' => Planned(id) /\ Decoding(id)
  BY DEF Planned, Enters, Decoding
<1>9. GenPart'
  BY <1>1 DEF GenPart, Planned, Enters
<1>10. DraftPart'
  <2> SUFFICES ASSUME dev'.copy.owner = Draft PROVE DraftPart'
    BY DEF DraftPart
  <2>1. /\ dev'.copy = dev.copy /\ ~ran /\ ran' = FALSE
    BY <1>1 DEF Remembers, Idle0
  <2>2. /\ Depth > 0
        /\ \A id \in DOMAIN active : Decoding(id) =>
             id \in hiddenFor /\ dev.copy.state = History(id, Reached(id))
    BY <1>1, <2>1 DEF DraftPart
  <2>3. \A id \in DOMAIN active' : Decoding(id)' =>
          id \in hiddenFor' /\ dev'.copy.state = History(id, Reached(id))'
    <3> SUFFICES ASSUME NEW id \in DOMAIN active', Decoding(id)'
                 PROVE  id \in hiddenFor' /\ dev'.copy.state = History(id, Reached(id))'
      OBVIOUS
    <3>1. id \in DOMAIN active /\ Decoding(id) /\ Reached(id)' = Reached(id)
      BY <1>5, <1>8
    <3>2. History(id, Reached(id))' = History(id, Reached(id))
      BY <3>1 DEF History
    <3> QED BY <2>1, <2>2, <3>1, <3>2 DEF Idle0
  <2> QED BY <2>1, <2>2, <2>3 DEF DraftPart
<1>11. SavesFrom
  BY <1>1 DEF SavesFrom
<1>12. Fits0
  BY <1>1, <1>2, <1>6, <1>7, <1>9, <1>10, <1>11 DEF Fits0
<1> QED BY <1>12, StepKeeps

\* The order of decoding does not change.
LEMMA HiddenStays ==
  ASSUME HiddenPart, ~ran, ran' = FALSE, hiddenFor' = hiddenFor \cap DOMAIN active',
         decodeReady' = decodeReady, batch'.decode = batch.decode
  PROVE  HiddenPart'
BY DEF HiddenPart

\* Nothing of the requests changes, though entries may be evicted.
LEMMA QuietKeeps ==
  ASSUME Known1, Known1', EInv, Idle0, decodeReady' = decodeReady, batch' = batch,
         UNCHANGED <<active, seqs>>,
         \A s \in DOMAIN entries' :
           s \in DOMAIN entries /\ entries'[s].tokens = entries[s].tokens
             /\ entries'[s].blocks = entries[s].blocks
  PROVE  EInv'
<1>1. HiddenPart'
  BY HiddenStays DEF EInv, Idle0
<1>2. SaveChunks'
  BY DEF EInv, SaveChunks
<1>3. EntriesFrom
  BY DEF EntriesFrom
<1>4. TablesFrom
  BY DEF TablesFrom
<1>5. \A id \in DOMAIN active' : Planned(id)
  BY DEF Planned, Decoding
<1> QED BY <1>1, <1>2, <1>3, <1>4, <1>5, PlanKeeps

-----------------------------------------------------------------------------
(* Steps of the host.                                                      *)

\* What the scheduler keeps is kept.
LEMMA KnownNext ==
  ASSUME Known1, [Next]_vars
  PROVE  Known1'
<1>1. Maps /\ SInv'
  BY NextStep DEF Known1
<1> QED BY <1>1, CacheKept, SharingKept DEF Known1

\* A step of the host before a batch runs: what it does to the worker's own
\* variables.
PlanFrame ==
  /\ ~ran /\ extra = 0 /\ accepted = 0 /\ ran' = FALSE /\ accepted' = 0
  /\ hiddenFor' = hiddenFor \cap DOMAIN active' /\ Remembers

\* Planning, submitting and cancelling are such steps.
LEMMA PlanFrameIs ==
  ASSUME Known1, EInv, step \notin {"flight", "complete"}, Host \/ Clients
  PROVE  PlanFrame
<1>1. RunPart /\ DevShape(dev) /\ ExtraPart
  BY DEF EInv, Known1, SInv
<1>2. ~ran /\ accepted = 0
  BY <1>1 DEF RunPart
<1>3. extra = 0
  BY <1>1 DEF ExtraPart
<1>4. Forget
  BY DEF Host, Clients
<1>5. ran' = FALSE /\ accepted' = 0
  <2>1. ran = FALSE
    BY <1>1, <1>2 DEF RunPart
  <2>2. CASE Host
    <3>1. /\ ran' = (ran /\ step' # "idle")
          /\ accepted' = IF step' = "idle" THEN 0 ELSE accepted
      BY <2>2, Zenon DEF Host
    <3>2. ran' = FALSE
      BY <2>1, <3>1
    <3> QED BY <1>2, <3>1, <3>2
  <2>3. CASE Clients
    BY <1>2, <2>1, <2>3 DEF Clients
  <2> QED BY <2>2, <2>3
<1>6. Remembers /\ hiddenFor' = hiddenFor \cap DOMAIN active'
  BY <1>1, <1>4, ForgetRemembers DEF Forget
<1> QED BY <1>2, <1>3, <1>5, <1>6 DEF PlanFrame

\* So no batch runs.
LEMMA FrameIdle ==
  ASSUME PlanFrame, extra' = extra, step' \notin {"abort", "complete"},
         step' = "flight" => ~NoBatch'
  PROVE  Idle0
BY DEF PlanFrame, Idle0

\* Entries are lost, and none is new or different.
EntriesLost ==
  \A s \in DOMAIN entries' :
    s \in DOMAIN entries /\ entries'[s].tokens = entries[s].tokens
      /\ entries'[s].blocks = entries[s].blocks

\* Eviction only loses entries.
LEMMA EvictionLoses == ASSUME NEW V, entries' = Without(entries, V) PROVE EntriesLost
BY DEF EntriesLost, Without

\* So does giving back a pin.
LEMMA UnpinLoses ==
  ASSUME Proved!IInv, NEW S, entries' = Unpin(S)
  PROVE  EntriesLost /\ DOMAIN entries' = DOMAIN entries
<1>1. \A s \in DOMAIN entries :
        entries[s] \in [tokens : Seq(Proved!Tokens), blocks : Seq(Pages), pins : Nat]
  BY DEF Proved!IInv, Proved!EntryPart
<1> QED BY <1>1 DEF EntriesLost, Unpin

\* A refused call leaves the sequences alone.
LEMMA RefusalLoses ==
  ASSUME NEW n, NEW held, AcquireRefused(n, held)
  PROVE  EntriesLost /\ seqs' = seqs
<1>1. \E V : entries' = Without(entries, V)
  BY DEF AcquireRefused
<1> QED BY <1>1, EvictionLoses DEF AcquireRefused

\* The host's steps that change neither requests nor sequences.
QuietAct ==
  \/ BeginBatch \/ DecodePlanned \/ BeginAdmission \/ EndAdmission \/ EndBatch \/ PassOver
  \/ step = "idle" /\ \E id \in Ids : Submit(id) \/ CancelWaiting(id)

\* They keep the invariant.
LEMMA QuietActKeeps ==
  ASSUME Known1, Known1', EInv, PlanFrame, QuietAct
  PROVE  EInv'
<1>1. /\ UNCHANGED <<active, batch, decodeReady, extra>>
      /\ seqs' = seqs /\ EntriesLost
      /\ step' \in {"idle", "decode", "prefill", "admit", "close", "flight"}
      /\ step' = "flight" => ~NoBatch
  <2>1. CASE BeginBatch \/ DecodePlanned \/ BeginAdmission \/ EndAdmission
    BY <2>1 DEF BeginBatch, DecodePlanned, BeginAdmission, EndAdmission, cacheVars, queueVars,
                EntriesLost
  <2>2. CASE EndBatch
    BY <2>2 DEF EndBatch, cacheVars, queueVars, EntriesLost
  <2>3. CASE PassOver
    <3>1. /\ step = "admit" /\ UNCHANGED <<active, batch, decodeReady, extra, step>>
      BY <2>3 DEF PassOver, Rotate
    <3>2. \/ UNCHANGED cacheVars
          \/ \E n, held : AcquireRefused(n, held)
      BY <2>3 DEF PassOver, AdmitRefused, AdmitHitRefused
    <3>3. EntriesLost /\ seqs' = seqs
      BY <3>2, RefusalLoses DEF cacheVars, EntriesLost
    <3> QED BY <3>1, <3>3
  <2>4. CASE step = "idle" /\ \E id \in Ids : Submit(id) \/ CancelWaiting(id)
    BY <2>4 DEF Submit, CancelWaiting, cacheVars, EntriesLost
  <2> QED BY <2>1, <2>2, <2>3, <2>4 DEF QuietAct
<1>2. NoBatch' <=> NoBatch
  BY <1>1 DEF NoBatch
<1>3. Idle0
  BY <1>1, <1>2, FrameIdle
<1>4. decodeReady' = decodeReady /\ batch' = batch /\ UNCHANGED <<active, seqs>>
  BY <1>1
<1>5. \A s \in DOMAIN entries' :
        s \in DOMAIN entries /\ entries'[s].tokens = entries[s].tokens
          /\ entries'[s].blocks = entries[s].blocks
  BY <1>1 DEF EntriesLost
<1> QED BY <1>3, <1>4, <1>5, QuietKeeps

-----------------------------------------------------------------------------
(* A chunk is planned.                                                     *)

\* A snapshot is reserved by taking a free one or by losing an entry.
LEMMA ReserveLoses ==
  ASSUME NEW s, ReserveSnapshot(s)
  PROVE  EntriesLost /\ seqs' = seqs
<1>1. CASE s \in freeSnapshots /\ UNCHANGED entries
  BY <1>1 DEF EntriesLost, ReserveSnapshot
<1>2. CASE entries' = Without(entries, {s})
  BY <1>2, EvictionLoses DEF ReserveSnapshot
<1> QED BY <1>1, <1>2 DEF ReserveSnapshot

\* The chunk c of id, and the snapshot that is to be taken where it ends.
ChunkWith(id, c, saves) ==
  /\ batch'.decode = batch.decode /\ batch'.prefill = Append(batch.prefill, c)
  /\ batch'.saves = batch.saves \o saves
  /\ c.id = id
  /\ \/ saves = <<>> /\ EntriesLost /\ seqs' = seqs
     \/ /\ \E s \in Snapshots : saves = <<[id |-> id, snapshot |-> s]>>
        /\ EntriesLost /\ seqs' = seqs
        /\ c.offset + c.tokens = Request(id).snapshotAt

\* What PlanChunk adds to the batch.
LEMMA ChunkTaken ==
  ASSUME SInv, Proved!IInv, PlanChunk, NEW id, id = Head(prefillReady)
  PROVE  /\ id \in DOMAIN active /\ id \in Ids /\ active[id].phase = "PrefillReady"
         /\ active[id] \in Record
         /\ \E c \in Chunk : \E saves : ChunkWith(id, c, saves)
<1>1. /\ id \in DOMAIN active /\ id \in Ids /\ active[id] \in Record
      /\ \E c \in Chunk : batch'.prefill = Append(batch.prefill, c)
  BY ChunkAdded
<1>2. prefillReady # <<>> /\ prefillReady \in Seq(Ids) /\ IsInjective(prefillReady)
      /\ Range(prefillReady) = WithPhase("PrefillReady")
  <2>1. prefillReady # <<>>
    BY Zenon DEF PlanChunk
  <2> QED BY <2>1 DEF SInv, QueuePart
<1>3. active[id].phase = "PrefillReady"
  BY <1>2, QueueTail DEF WithPhase
<1> DEFINE
      cutOf(x) == LET o == active[x].prefilled
                      f == Min({PromptLen(x) - o, MaxTokens - NumTokens})
                      a == Request(x).snapshotAt
                  IN  Snapshots # {} /\ a > o /\ a <= o + f
      tokensOf(x) == IF cutOf(x) THEN Request(x).snapshotAt - active[x].prefilled
                     ELSE Min({PromptLen(x) - active[x].prefilled, MaxTokens - NumTokens})
      chunkOf(x) == [id |-> x, offset |-> active[x].prefilled, tokens |-> tokensOf(x)]
      plan(x, saves) ==
        [batch EXCEPT
          !.prefill = Append(@, chunkOf(x)),
          !.restores = @ \o SetToSeq({[id |-> x, op |-> r] : r \in active[x].restore}),
          !.saves = @ \o saves]
      Q(x) == \/ \E s \in Snapshots : /\ cutOf(x) /\ ReserveSnapshot(s)
                                      /\ batch' = plan(x, <<[id |-> x, snapshot |-> s]>>)
              \/ batch' = plan(x, <<>>) /\ UNCHANGED cacheVars
<1>4. Q(Head(prefillReady))
  BY Zenon DEF PlanChunk
<1>5. Q(id)
  <2> HIDE DEF Q
  <2> QED BY <1>4
<1> DEFINE of(saves) ==
      \/ saves = <<>> /\ UNCHANGED cacheVars
      \/ cutOf(id) /\ \E s \in Snapshots : /\ saves = <<[id |-> id, snapshot |-> s]>>
                                           /\ ReserveSnapshot(s)
<1>6. PICK saves : batch' = plan(id, saves) /\ of(saves)
  <2> HIDE DEF cutOf, plan
  <2> QED BY <1>5
<1> DEFINE c == chunkOf(id)
           m == SetToSeq({[id |-> id, op |-> r] : r \in active[id].restore})
<1>7. /\ batch'.decode = batch.decode /\ batch'.prefill = Append(batch.prefill, c)
      /\ batch'.saves = batch.saves \o saves
  <2>1. BatchType
    BY DEF SInv, BatchPart
  <2>2. batch' = [batch EXCEPT !.prefill = Append(@, c), !.restores = @ \o m,
                               !.saves = @ \o saves]
    BY Zenon, <1>6
  <2> HIDE DEF c, m
  <2> QED BY <2>1, <2>2 DEF BatchType
<1>8. c.id = id /\ c.offset = active[id].prefilled /\ c.tokens = tokensOf(id)
  OBVIOUS
<1>9. cutOf(id) => c.offset + c.tokens = Request(id).snapshotAt
  <2>1. /\ active[id].prefilled \in Nat /\ Request(id).snapshotAt \in Nat
    BY <1>1, SchedulerAssumption DEF Record
  <2>2. cutOf(id) => c.tokens = Request(id).snapshotAt - active[id].prefilled
    BY <1>8
  <2> HIDE DEF cutOf, c
  <2> QED BY <1>8, <2>1, <2>2
<1>10. c \in Chunk
  <2>1. PICK e \in Chunk : batch'.prefill = Append(batch.prefill, e)
    BY <1>1
  <2>2. batch.prefill \in Seq(Chunk) /\ batch'.prefill = Append(batch.prefill, c)
    BY <1>7 DEF SInv, BatchPart, BatchType
  <2>3. Last(batch'.prefill) = e /\ Last(batch'.prefill) = c
    <3> HIDE DEF c
    <3>1. Append(batch.prefill, e)[Len(batch.prefill) + 1] = e
      BY <2>2
    <3>2. Append(batch.prefill, c)[Len(batch.prefill) + 1] = c
      BY <2>2
    <3>3. e = c
      BY <2>1, <2>2, <3>1, <3>2
    <3>4. Len(Append(batch.prefill, e)) = Len(batch.prefill) + 1
      BY <2>2
    <3> QED BY <2>1, <2>2, <3>1, <3>3, <3>4 DEF Last
  <2> QED BY <2>1, <2>3
<1> HIDE DEF c
<1>11. ChunkWith(id, c, saves)
  <2>1. CASE saves = <<>> /\ UNCHANGED cacheVars
    BY <1>7, <1>8, <2>1 DEF ChunkWith, cacheVars, EntriesLost
  <2>2. CASE cutOf(id) /\ \E s \in Snapshots : /\ saves = <<[id |-> id, snapshot |-> s]>>
                                               /\ ReserveSnapshot(s)
    <3>1. EntriesLost /\ seqs' = seqs
      BY <2>2, ReserveLoses
    <3>2. \E s \in Snapshots : saves = <<[id |-> id, snapshot |-> s]>>
      BY <2>2
    <3>3. c.offset + c.tokens = Request(id).snapshotAt
      BY <1>9, <2>2
    <3> QED BY <1>7, <1>8, <3>1, <3>2, <3>3 DEF ChunkWith
  <2> QED BY <1>6, <2>1, <2>2
<1> QED BY <1>1, <1>3, <1>10, <1>11

\* The step keeps the invariant.
LEMMA PlanChunkKeeps ==
  ASSUME Known1, Known1', EInv, PlanFrame, PlanChunk
  PROVE  EInv'
<1>1. PICK id : id = Head(prefillReady)
  OBVIOUS
<1>2. /\ id \in DOMAIN active /\ id \in Ids /\ active[id].phase = "PrefillReady"
      /\ active[id] \in Record
      /\ \E c \in Chunk : \E saves : ChunkWith(id, c, saves)
  BY <1>1, ChunkTaken, Zenon DEF Known1
<1>0. PICK c \in Chunk : \E saves : ChunkWith(id, c, saves)
  BY <1>2
<1>3. PICK saves : ChunkWith(id, c, saves)
  BY <1>0
<1>4. /\ UNCHANGED <<decodeReady, step, extra>> /\ step = "prefill"
      /\ active' = [active EXCEPT ![id].phase = "PrefillInFlight"]
  BY <1>1, Zenon DEF PlanChunk
<1>5. /\ EntriesLost /\ seqs' = seqs /\ batch'.decode = batch.decode /\ c.id = id
      /\ batch'.prefill = Append(batch.prefill, c) /\ batch'.saves = batch.saves \o saves
  BY <1>3 DEF ChunkWith
<1>6. /\ batch.prefill \in Seq(Chunk) /\ batch.saves \in Seq(SaveCall)
      /\ Range(ChunkIds) = WithPhase("PrefillInFlight")
      /\ \A save \in Range(batch.saves) : save.id \in Range(ChunkIds)
  BY DEF Known1, SInv, BatchPart, BatchType, SavePart
<1>7. id \notin Range(ChunkIds)
  BY <1>2, <1>6 DEF WithPhase
<1>8. \A d \in Range(batch.prefill) : d.id \in Range(ChunkIds)
  BY ChunkFacts DEF Known1
<1>9. Range(batch'.prefill) = Range(batch.prefill) \cup {c}
  BY <1>5, <1>6, AppendRange
<1>10. /\ \A save \in Range(saves) : /\ save.id = id
                                     /\ c.offset + c.tokens = Request(id).snapshotAt
       /\ saves \in Seq(SaveCall)
  <2>1. CASE saves = <<>>
    BY <2>1 DEF Range
  <2>2. CASE saves # <<>>
    <3>1. PICK s \in Snapshots : saves = <<[id |-> id, snapshot |-> s]>>
      BY <1>3, <2>2 DEF ChunkWith
    <3>2. Range(saves) = {[id |-> id, snapshot |-> s]}
      BY <3>1 DEF Range
    <3>3. [id |-> id, snapshot |-> s] \in SaveCall
      BY <1>2 DEF SaveCall
    <3>4. c.offset + c.tokens = Request(id).snapshotAt
      BY <1>3, <2>2 DEF ChunkWith
    <3> QED BY <3>1, <3>2, <3>3, <3>4
  <2> QED BY <2>1, <2>2
<1>11. Range(batch'.saves) = Range(batch.saves) \cup Range(saves)
  BY <1>5, <1>6, <1>10, JoinRange
<1>12. SaveChunks'
  <2>1. SaveChunks
    BY DEF EInv
  <2> SUFFICES ASSUME NEW save \in Range(batch'.saves), NEW d \in Range(batch'.prefill),
                      d.id = save.id
               PROVE  d.offset + d.tokens = Request(save.id).snapshotAt
    BY DEF SaveChunks
  <2>2. CASE d = c
    BY <1>5, <1>6, <1>7, <1>10, <1>11, <2>2
  <2>3. CASE d \in Range(batch.prefill)
    <3>1. save \in Range(batch.saves)
      BY <1>7, <1>8, <1>10, <1>11, <2>3
    <3> QED BY <2>1, <2>3, <3>1 DEF SaveChunks
  <2> QED BY <1>9, <2>2, <2>3
<1>13. Idle0
  BY <1>4, FrameIdle
<1>14. HiddenPart'
  BY <1>4, <1>5, <1>13, HiddenStays DEF EInv, Idle0
<1>15. EntriesFrom
  BY <1>5 DEF EntriesLost, EntriesFrom
<1>16. /\ DOMAIN active' = DOMAIN active
       /\ active'[id] = [active[id] EXCEPT !.phase = "PrefillInFlight"]
       /\ \A j \in DOMAIN active : j # id => active'[j] = active[j]
  BY <1>2, <1>4
<1>17. TablesFrom
  BY <1>5, <1>16 DEF TablesFrom
<1>18. \A j \in DOMAIN active' : Planned(j)
  <2> SUFFICES ASSUME NEW j \in DOMAIN active' PROVE Planned(j)
    OBVIOUS
  <2>1. CASE j # id
    BY <1>5, <1>16, <2>1 DEF Planned, Decoding
  <2>2. CASE j = id
    <3>1. /\ active'[id].prefilled = active[id].prefilled
          /\ active'[id].generated = active[id].generated
          /\ active'[id].restore = active[id].restore
          /\ active'[id].phase = "PrefillInFlight"
      BY <1>2, <1>16 DEF Record
    <3>2. Decoding(id)' <=> Decoding(id)
      BY <1>2, <3>1 DEF Decoding
    <3> QED BY <1>2, <1>5, <2>2, <3>1, <3>2 DEF Planned
  <2> QED BY <2>1, <2>2
<1> QED BY <1>12, <1>13, <1>14, <1>15, <1>17, <1>18, PlanKeeps

-----------------------------------------------------------------------------
(* A sequence grows by a token.                                            *)

\* Pages that are taken were held by nobody, or by an entry that is evicted.
LEMMA FreshPages ==
  ASSUME Proved!IInv, NEW n \in Nat, NEW held, NEW V \in SUBSET PageCandidates(held),
         NEW fresh, NEW shared, AcquireBlocks(n, held, V, fresh, shared)
  PROVE  /\ fresh \in Seq(Pages) /\ Len(fresh) = n /\ IsInjective(fresh)
         /\ \A b \in Range(fresh) :
              /\ \A j \in DOMAIN seqs : b \notin Range(seqs[j].blocks)
              /\ \A s \in DOMAIN entries \ V : b \notin Range(entries[s].blocks)
<1>1. V \in SUBSET DOMAIN entries
  BY DEF PageCandidates, Unpinned
<1>2. Proved!AcquireBlocks(n, held, V, fresh, shared)
  BY SamePool
<1>3. Proved!TypeOK /\ Proved!IsFiniteSet(DOMAIN seqs) /\ Proved!RefsExact
  BY Proved!IInvImplies, CopiesAssumed, SameSets DEF Proved!IInv, Proved!PagePart, Proved!SeqPart
<1>4. /\ fresh \in Seq(Pages) /\ Len(fresh) = n /\ Proved!IsInjective(fresh)
      /\ \A b \in Proved!Range(fresh) :
           Proved!SeqHolders(b) = {} /\ Proved!EntryHolders(DOMAIN entries \ V, b) = {}
  BY <1>1, <1>2, <1>3, Proved!AcquiredPages, CopiesAssumed
<1>5. IsInjective(fresh) /\ Range(fresh) = Proved!Range(fresh)
  BY <1>4, SameSets
<1>6. ASSUME NEW b \in Range(fresh)
      PROVE  /\ \A j \in DOMAIN seqs : b \notin Range(seqs[j].blocks)
             /\ \A s \in DOMAIN entries \ V : b \notin Range(entries[s].blocks)
  <2>1. Proved!SeqHolders(b) = {} /\ Proved!EntryHolders(DOMAIN entries \ V, b) = {}
    BY <1>4, <1>5
  <2> QED BY <2>1, SameSets DEF Proved!SeqHolders, Proved!EntryHolders, Proved!SeqPages,
                              Proved!EntryPages
<1> QED BY <1>4, <1>5, <1>6

\* The table of id is longer, by pages nobody had.
Grown(id) ==
  /\ EntriesLost /\ DOMAIN seqs' = DOMAIN seqs
  /\ \A j \in DOMAIN seqs : j # id => seqs'[j] = seqs[j]
  /\ seqs'[id].slot = seqs[id].slot
  /\ \A m \in 1..Len(seqs[id].blocks) : seqs'[id].blocks[m] = seqs[id].blocks[m]
  /\ \A b \in Range(seqs'[id].blocks) :
       b \in Range(seqs[id].blocks) \/ \A i \in DOMAIN seqs : b \notin Range(seqs[i].blocks)

\* append_token makes it so.
LEMMA AppendGrows ==
  ASSUME SInv, Proved!IInv, NEW id \in DOMAIN active, AppendToken(id)
  PROVE  Grown(id)
<1> DEFINE n == ExtraNeed(id)
<1>1. n \in Nat
  BY NeedReserved
<1>2. id \in DOMAIN seqs /\ seqs[id] \in [slot : Slots, blocks : Seq(Pages), tokens : Nat]
  BY CacheFacts
<1>3. PICK V, fresh :
        /\ V \in SUBSET PageCandidates({}) /\ AcquireBlocks(n, {}, V, fresh, {})
        /\ seqs' = [seqs EXCEPT ![id].tokens = @ + 1, ![id].blocks = @ \o fresh]
        /\ entries' = Without(entries, V)
  BY Zenon DEF AppendToken
<1> HIDE DEF n
<1>4. /\ fresh \in Seq(Pages)
      /\ \A b \in Range(fresh) : \A j \in DOMAIN seqs : b \notin Range(seqs[j].blocks)
  BY <1>1, <1>3, FreshPages
<1>5. EntriesLost
  BY <1>3, EvictionLoses
<1> DEFINE old == seqs[id].blocks
           new == old \o fresh
<1>6. /\ DOMAIN seqs' = DOMAIN seqs /\ \A j \in DOMAIN seqs : j # id => seqs'[j] = seqs[j]
      /\ seqs'[id].slot = seqs[id].slot /\ seqs'[id].blocks = new
  BY <1>2, <1>3
<1>7. old \in Seq(Pages)
  BY <1>2
<1> HIDE DEF old
<1>8. Range(new) = Range(old) \cup Range(fresh)
  BY <1>4, <1>7, JoinRange
<1>9. \A m \in 1..Len(old) : new[m] = old[m]
  <2>1. AnySeq(old) /\ AnySeq(fresh)
    BY <1>4, <1>7 DEF AnySeq
  <2> QED BY <2>1, JoinedSeqs
<1> HIDE DEF new
<1>10. \A b \in Range(seqs'[id].blocks) :
         b \in Range(seqs[id].blocks) \/ \A i \in DOMAIN seqs : b \notin Range(seqs[i].blocks)
  BY <1>4, <1>6, <1>8 DEF old
<1>11. \A m \in 1..Len(seqs[id].blocks) : seqs'[id].blocks[m] = seqs[id].blocks[m]
  BY <1>6, <1>9 DEF old
<1> QED BY <1>5, <1>6, <1>10, <1>11 DEF Grown

\* Nothing else of the requests has changed but the phase of id.
GrownAlone(id) ==
  /\ Grown(id) /\ DOMAIN active' = DOMAIN active
  /\ \A j \in DOMAIN active :
       /\ j # id => active'[j] = active[j]
       /\ active'[j].prefilled = active[j].prefilled
       /\ active'[j].generated = active[j].generated
       /\ active'[j].restore = active[j].restore
       /\ Decoding(j)' <=> Decoding(j)

\* The invariant is kept when a decoded sequence grows.
LEMMA GrowthKeeps ==
  ASSUME Known1, Known1', EInv, Idle0, HiddenPart', NEW id \in DOMAIN active,
         active[id].restore = {}, GrownAlone(id),
         batch'.prefill = batch.prefill, batch'.saves = batch.saves
  PROVE  EInv'
<1>1. Grown(id) /\ DOMAIN active' = DOMAIN active /\ DOMAIN seqs = DOMAIN active
  BY CacheFacts DEF GrownAlone, Known1
<1>2. SaveChunks'
  BY DEF EInv, SaveChunks
<1>3. EntriesFrom
  BY <1>1 DEF Grown, EntriesLost, EntriesFrom
<1>4. TablesFrom
  <2> SUFFICES ASSUME NEW j \in DOMAIN active', NEW b \in Range(seqs'[j].blocks)
               PROVE  \/ j \in DOMAIN active /\ b \in Range(seqs[j].blocks)
                      \/ \A i \in DOMAIN active : b \notin Range(seqs[i].blocks)
    BY DEF TablesFrom
  <2>1. CASE j = id
    BY <1>1, <2>1 DEF Grown
  <2>2. CASE j # id
    BY <1>1, <2>2 DEF Grown
  <2> QED BY <2>1, <2>2
<1>5. \A j \in DOMAIN active' : Planned(j)
  <2> SUFFICES ASSUME NEW j \in DOMAIN active PROVE Planned(j)
    BY <1>1
  <2>1. CASE j # id
    BY <1>1, <2>1 DEF Grown, GrownAlone, Planned
  <2>2. CASE j = id
    <3>1. BlocksFor(Base(id)) \in Nat /\ BlocksFor(Base(id)) <= Len(seqs[id].blocks)
      <4>1. Known0
        BY DEF Known0, Known1, EInv
      <4>2. /\ Base(id) \in Nat /\ Base(id) <= seqs[id].tokens /\ seqs[id].tokens \in Nat
            /\ Len(seqs[id].blocks) = BlocksFor(seqs[id].tokens)
        BY <4>1, BaseFacts
      <4> QED BY <4>2, BlocksForMonotonic
    <3>2. Len(seqs[id].blocks) \in Nat
      BY CacheFacts, <1>1 DEF Known1
    <3>3. \A m \in 1..BlocksFor(Base(id)) : seqs'[id].blocks[m] = seqs[id].blocks[m]
      BY <1>1, <3>1, <3>2 DEF Grown
    <3> QED BY <1>1, <2>2, <3>3 DEF GrownAlone, Planned, Grown
  <2> QED BY <2>1, <2>2
<1> QED BY <1>2, <1>3, <1>4, <1>5, PlanKeeps

-----------------------------------------------------------------------------
(* Decoding is planned, drafts are given room, a request is cancelled.     *)

\* What is left of a queue ends as before, unless its end was dropped.
LEMMA RetainedLast ==
  ASSUME NEW S, NEW q \in Seq(S), IsInjective(q), q # <<>>, NEW id, Last(q) # id
  PROVE  Retained(q, id) # <<>> /\ Last(Retained(q, id)) = Last(q)
<1> DEFINE n == Len(q)
           z == q[n]
<1>1. n \in Nat \ {0} /\ z = Last(q) /\ z \in Range(q) /\ DOMAIN q = 1..n
  BY EmptySeq, LenProperties DEF Last, Range
<1>2. PICK r : r = Retained(q, id)
  OBVIOUS
<1>3. r \in Seq(S) /\ IsInjective(r) /\ Range(r) = Range(q) \ {id}
      /\ \A y : Before(r, y) \subseteq Before(q, y)
  BY <1>2, RetainedQueue
<1> HIDE DEF n, z
<1>4. z \in Range(r)
  BY <1>1, <1>3
<1>5. PICK m \in Nat : m = Len(r) /\ DOMAIN r = 1..m
  BY <1>3, LenProperties
<1>6. PICK k \in 1..m : r[k] = z
  BY <1>4, <1>5 DEF Range
<1>7. r # <<>>
  BY <1>3, <1>5, <1>6, EmptySeq
<1>8. k = m
  <2> SUFFICES ASSUME k < m PROVE FALSE
    BY <1>6
  <2>1. m \in 1..m /\ k \in DOMAIN r /\ m \in DOMAIN r
    BY <1>5, <1>6
  <2>2. z \in Before(r, r[m])
    BY <1>6, <2>1 DEF Before
  <2>3. z \in Before(q, r[m])
    BY <1>3, <2>2
  <2>4. PICK i \in DOMAIN q : q[i] = z /\ \E j \in DOMAIN q : i < j /\ q[j] = r[m]
    BY <2>3 DEF Before
  <2>5. i = n
    <3>1. n \in DOMAIN q /\ q[n] = z
      BY <1>1 DEF z
    <3> QED BY <2>4, <3>1 DEF IsInjective
  <2> QED BY <1>1, <2>4, <2>5
<1> QED BY <1>1, <1>2, <1>5, <1>6, <1>7, <1>8 DEF Last

\* A queue ends where what follows its head ends.
LEMMA TailLast ==
  ASSUME NEW S, NEW q \in Seq(S), q # <<>>, Tail(q) # <<>>
  PROVE  Last(Tail(q)) = Last(q)
<1>1. PICK t : t = Tail(q)
  OBVIOUS
<1>2. t \in Seq(S) /\ Len(t) = Len(q) - 1 /\ \A i \in 1..Len(t) : t[i] = q[i + 1]
  BY <1>1, HeadTailProperties
<1>3. Len(t) \in Nat \ {0} /\ Len(q) \in Nat
  BY <1>1, <1>2, EmptySeq, LenProperties
<1>4. Len(t) \in 1..Len(t) /\ Len(t) + 1 = Len(q)
  BY <1>2, <1>3
<1>5. t[Len(t)] = q[Len(q)]
  BY <1>2, <1>4
<1> QED BY <1>1, <1>5 DEF Last

\* A decode is planned.
LEMMA PlanDecodeKeeps ==
  ASSUME Known1, Known1', RInv, EInv, PlanFrame, PlanDecode
  PROVE  EInv'
<1>0. PICK id : id = Head(decodeReady)
  OBVIOUS
<1>1. /\ step = "decode" /\ left > 0 /\ left \in Nat /\ left <= Len(decodeReady)
      /\ decodeReady \in Seq(Ids) /\ IsInjective(decodeReady)
      /\ Range(decodeReady) = WithPhase("DecodeReady")
      /\ batch.decode \in Seq(Ids)
  BY DEF Known1, SInv, StepPart, QueuePart, PlanDecode, BatchPart, BatchType
<1>2. decodeReady # <<>> /\ Len(decodeReady) \in Nat
  BY <1>1, LenProperties
<1>3. /\ id \in Ids /\ id \in Range(decodeReady)
      /\ Tail(decodeReady) \in Seq(Ids)
      /\ Len(Tail(decodeReady)) = Len(decodeReady) - 1
  BY <1>0, <1>1, <1>2, QueueTail
<1>4. id \in DOMAIN active /\ active[id].phase = "DecodeReady"
  BY <1>1, <1>3 DEF WithPhase
<1>5. Known(id) /\ active[id] \in Record /\ active[id].restore = {}
  <2>1. Known(id) /\ active[id] \in Record
    BY <1>4, RequestFacts DEF Known1, SInv
  <2> QED BY <1>4, <2>1 DEF Known
<1>6. ~AppendRefused(id)
  BY <1>0, NotRefused DEF Known1
<1>7. /\ AppendToken(id)
      /\ decodeReady' = Tail(decodeReady)
      /\ batch' = [batch EXCEPT !.decode = Append(@, id)]
      /\ active' = [active EXCEPT ![id].phase = "DecodeInFlight"]
      /\ UNCHANGED <<step, extra>>
  BY <1>0, <1>6 DEF PlanDecode
<1>8. Grown(id)
  BY <1>4, <1>7, AppendGrows DEF Known1
<1>9. /\ batch'.decode = Append(batch.decode, id)
      /\ batch'.prefill = batch.prefill /\ batch'.saves = batch.saves
  BY <1>7 DEF Known1, SInv, BatchPart, BatchType
<1>10. GrownAlone(id)
  <2>1. /\ DOMAIN active' = DOMAIN active
        /\ \A j \in DOMAIN active : j # id => active'[j] = active[j]
        /\ active'[id] = [active[id] EXCEPT !.phase = "DecodeInFlight"]
    BY <1>4, <1>7
  <2>2. /\ active'[id].prefilled = active[id].prefilled
        /\ active'[id].generated = active[id].generated
        /\ active'[id].restore = active[id].restore
        /\ active'[id].phase = "DecodeInFlight"
    BY <1>5, <2>1 DEF Record
  <2>3. \A j \in DOMAIN active : Decoding(j)' <=> Decoding(j)
    BY <1>4, <2>1, <2>2 DEF Decoding
  <2> QED BY <1>8, <2>1, <2>2, <2>3 DEF GrownAlone
<1>11. Idle0
  BY <1>1, <1>7, FrameIdle
<1>12. HiddenPart'
  <2>1. HiddenPart /\ ~ran /\ ran' = FALSE /\ hiddenFor' = hiddenFor
    BY <1>10 DEF PlanFrame, EInv, HiddenPart, GrownAlone
  <2>2. ASSUME NEW h \in hiddenFor
        PROVE  \/ decodeReady' # <<>> /\ Last(decodeReady') = h
               \/ decodeReady' = <<>> /\ batch'.decode # <<>> /\ Last(batch'.decode) = h
    <3>1. Last(decodeReady) = h
      BY <1>2, <2>1, <2>2 DEF HiddenPart
    <3>2. CASE Tail(decodeReady) # <<>>
      <4>1. Last(Tail(decodeReady)) = Last(decodeReady)
        BY <1>1, <1>2, <3>2, TailLast
      <4> QED BY <1>7, <3>1, <3>2, <4>1
    <3>3. CASE Tail(decodeReady) = <<>>
      <4>1. Len(decodeReady) = 1
        BY <1>2, <1>3, <3>3, EmptySeq
      <4>2. h = id
        BY <1>0, <1>1, <3>1, <4>1, HeadTailProperties DEF Last
      <4>3. Append(batch.decode, id) # <<>> /\ Last(Append(batch.decode, id)) = id
        <5>1. /\ Append(batch.decode, id) \in Seq(Ids)
              /\ Len(Append(batch.decode, id)) = Len(batch.decode) + 1
              /\ Append(batch.decode, id)[Len(batch.decode) + 1] = id
          BY <1>1, <1>3, AppendProperties
        <5>2. Len(batch.decode) \in Nat
          BY <1>1, LenProperties
        <5> QED BY <5>1, <5>2, EmptySeq DEF Last
      <4> QED BY <1>7, <1>9, <3>3, <4>2, <4>3
    <3> QED BY <3>2, <3>3
  <2>3. DOMAIN active' = DOMAIN active
    BY <1>10 DEF GrownAlone
  <2> QED BY <2>1, <2>2, <2>3 DEF HiddenPart
<1> QED BY <1>4, <1>5, <1>9, <1>10, <1>11, <1>12, GrowthKeeps

\* How many tokens are drafted is a number.
LEMMA DepthIsInt == ASSUME Known1, HiddenPart PROVE DraftDepth \in Int
<1>1. CASE ~\E id \in hiddenFor : Speculative(id)
  BY <1>1 DEF DraftDepth
<1>2. CASE \E id \in hiddenFor : Speculative(id)
  <2>1. PICK h \in hiddenFor : Speculative(h)
    BY <1>2
  <2>2. h \in DOMAIN active /\ hiddenFor = {h}
    BY <2>1 DEF HiddenPart
  <2>3. active[h].generated \in Nat /\ Request(h).maxNew \in Nat
    BY <2>2, RequestFacts DEF Known1, SInv
  <2> DEFINE b == Request(h).maxNew - active[h].generated - 1
  <2>4. b \in Int /\ Depth \in Int
    BY <2>3, SchedulerAssumption DEF SchedulerAssumption
  <2>5. {Depth} \cup {Request(id).maxNew - active[id].generated - 1 : id \in hiddenFor}
          = {Depth, b}
    BY <2>2
  <2> HIDE DEF b
  <2>6. Min({Depth, b}) \in Int
    BY <2>4, MinOfTwo
  <2> QED BY <1>2, <2>5, <2>6 DEF DraftDepth
<1> QED BY <1>1, <1>2

\* A draft is given a position.
LEMMA PrepareKeeps ==
  ASSUME Known1, Known1', EInv, Prepare
  PROVE  EInv'
<1>1. PICK id \in Ids : Speculative(id) /\ AppendToken(id)
  BY DEF Prepare, ReserveExtra
<1>2. /\ step = "flight" /\ extra' = extra + 1 /\ ~ran /\ extra < DraftDepth
      /\ UNCHANGED <<queueVars, active, committed, batch, step, left>>
      /\ UNCHANGED <<dev, ran, accepted, hiddenFor>>
  BY DEF Prepare, ReserveExtra
<1>3. /\ RunPart /\ HiddenPart /\ DevShape(dev)
  BY DEF EInv
<1>4. id \in DOMAIN active /\ active[id].phase = "DecodeInFlight" /\ extra \in Nat
  BY <1>1, SpeculativeFacts DEF Known1
<1>5. active[id].restore = {}
  <2>1. Known(id)
    BY <1>4, RequestFacts DEF Known1, SInv
  <2> QED BY <1>4, <2>1 DEF Known
<1>6. Grown(id)
  BY <1>1, <1>4, AppendGrows DEF Known1
<1>7. GrownAlone(id)
  BY <1>2, <1>6 DEF GrownAlone, Decoding
<1>8. DraftDepth' = DraftDepth
  BY <1>2 DEF DraftDepth, Speculative
<1>9. extra' \in Nat /\ DraftDepth' > 0
  BY <1>2, <1>3, <1>4, <1>8, DepthIsInt
<1>10. ran' = FALSE /\ accepted' = 0
  BY <1>2, <1>3 DEF RunPart
<1>11. Remembers
  BY <1>2, <1>3, StayRemembers
<1>12. hiddenFor' = hiddenFor \cap DOMAIN active'
  BY <1>2, <1>3 DEF HiddenPart
<1>13. ~NoBatch'
  BY <1>2, <1>3 DEF RunPart, NoBatch
<1>14. Idle0
  <2>1. step' = "flight"
    BY <1>2
  <2> QED BY <1>2, <1>9, <1>10, <1>11, <1>12, <1>13, <2>1 DEF Idle0
<1>15. HiddenPart'
  BY <1>2, <1>3, <1>10, <1>12, HiddenStays DEF queueVars
<1> QED BY <1>2, <1>4, <1>5, <1>7, <1>14, <1>15, GrowthKeeps

\* A request is cancelled.
LEMMA CancelActiveKeeps ==
  ASSUME Known1, Known1', EInv, PlanFrame, NEW id \in Ids, step = "idle", CancelActive(id)
  PROVE  EInv'
<1>1. /\ id \in DOMAIN active
      /\ Release(id, {r.snapshot : r \in active[id].restore}) /\ Deactivate(id)
      /\ decodeReady' = Retained(decodeReady, id)
      /\ UNCHANGED <<waiting, batch, step, left, extra>>
  BY DEF CancelActive
<1>2. /\ DOMAIN seqs' = DOMAIN seqs \ {id} /\ \A j \in DOMAIN seqs' : seqs'[j] = seqs[j]
      /\ EntriesLost /\ DOMAIN seqs = DOMAIN active
  <2> DEFINE due == {r.snapshot : r \in active[id].restore}
  <2>1. Release(id, due)
    BY <1>1
  <2> HIDE DEF due
  <2>2. entries' = Unpin(due)
    BY <2>1 DEF Release
  <2> QED BY <2>1, <2>2, ReleaseTokens, UnpinLoses, CacheFacts DEF Known1
<1>3. DOMAIN active' = DOMAIN active \ {id} /\ \A j \in DOMAIN active' : active'[j] = active[j]
  BY <1>1 DEF Deactivate, Without
<1>4. Idle0
  BY <1>1, FrameIdle
<1>5. SaveChunks'
  BY <1>1 DEF EInv, SaveChunks
<1>6. EntriesFrom
  BY <1>2 DEF EntriesLost, EntriesFrom
<1>7. TablesFrom
  BY <1>2, <1>3 DEF TablesFrom
<1>8. \A j \in DOMAIN active' : Planned(j)
  BY <1>2, <1>3 DEF Planned, Decoding
<1>9. HiddenPart'
  <2>1. HiddenPart /\ ~ran /\ ran' = FALSE /\ hiddenFor' = hiddenFor \cap DOMAIN active'
        /\ hiddenFor' \subseteq hiddenFor \ {id}
    BY <1>3 DEF PlanFrame, EInv, HiddenPart
  <2>2. batch.decode = <<>>
    BY DEF Known1, SInv, StepPart, NoBatch
  <2>3. decodeReady \in Seq(Ids) /\ IsInjective(decodeReady)
    BY DEF Known1, SInv, QueuePart
  <2>4. ASSUME NEW h \in hiddenFor'
        PROVE  decodeReady' # <<>> /\ Last(decodeReady') = h
    <3>1. decodeReady # <<>> /\ Last(decodeReady) = h /\ h # id
      BY <2>1, <2>2, <2>4 DEF HiddenPart
    <3> QED BY <1>1, <2>3, <3>1, RetainedLast
  <2> QED BY <2>1, <2>4 DEF HiddenPart
<1> QED BY <1>4, <1>5, <1>6, <1>7, <1>8, <1>9, PlanKeeps

-----------------------------------------------------------------------------
(* A request is admitted.                                                  *)

\* Its sequence has pages of entries and pages nobody had.
Admits(id) ==
  /\ DOMAIN seqs' = DOMAIN seqs \cup {id} /\ \A j \in DOMAIN seqs : seqs'[j] = seqs[j]
  /\ \A b \in Range(seqs'[id].blocks) :
       \/ \E s \in DOMAIN entries : b \in Range(entries[s].blocks)
       \/ \A i \in DOMAIN seqs : b \notin Range(seqs[i].blocks)

\* An admission keeps the invariant.
LEMMA AdmissionKeeps ==
  ASSUME Known1, Known1', EInv, PlanFrame, NEW id \in Ids, id \notin DOMAIN active,
         NEW reused, NEW restore, Activate(id, reused, restore), EntriesLost, Admits(id),
         \/ restore = {} /\ reused = 0
         \/ restore # {} /\ \A r \in restore : RestoreRight(id, r)'
  PROVE  EInv'
<1>1. /\ active' = With(active, id, [prefilled |-> reused, generated |-> 0,
                                     phase |-> "PrefillReady", restore |-> restore])
      /\ step' = "prefill" /\ UNCHANGED <<decodeReady, batch, extra>>
  BY DEF Activate
<1>2. /\ DOMAIN active' = DOMAIN active \cup {id}
      /\ active'[id] = [prefilled |-> reused, generated |-> 0,
                        phase |-> "PrefillReady", restore |-> restore]
      /\ \A j \in DOMAIN active : active'[j] = active[j]
  BY <1>1 DEF With
<1>3. DOMAIN seqs = DOMAIN active
  BY CacheFacts DEF Known1
<1>4. Idle0
  BY <1>1, FrameIdle
<1>5. HiddenPart'
  BY <1>1, HiddenStays DEF EInv, PlanFrame
<1>6. SaveChunks'
  BY <1>1 DEF EInv, SaveChunks
<1>7. EntriesFrom
  BY DEF EntriesLost, EntriesFrom
<1>8. TablesFrom
  <2> SUFFICES ASSUME NEW j \in DOMAIN active', NEW b \in Range(seqs'[j].blocks)
               PROVE  \/ j \in DOMAIN active /\ b \in Range(seqs[j].blocks)
                      \/ \E s \in DOMAIN entries : b \in Range(entries[s].blocks)
                      \/ \A i \in DOMAIN active : b \notin Range(seqs[i].blocks)
    BY DEF TablesFrom
  <2>1. CASE j = id
    BY <1>3, <2>1 DEF Admits
  <2>2. CASE j # id
    BY <1>2, <1>3, <2>2 DEF Admits
  <2> QED BY <2>1, <2>2
<1>9. \A j \in DOMAIN active' : Planned(j) \/ Enters(j)
  <2> SUFFICES ASSUME NEW j \in DOMAIN active' PROVE Planned(j) \/ Enters(j)
    OBVIOUS
  <2>1. CASE j = id
    BY <1>2, <2>1 DEF Enters
  <2>2. CASE j # id
    <3>1. j \in DOMAIN active /\ active'[j] = active[j] /\ seqs'[j] = seqs[j]
      BY <1>2, <1>3, <2>2 DEF Admits
    <3> QED BY <3>1 DEF Planned, Decoding
  <2> QED BY <2>1, <2>2
<1> QED BY <1>4, <1>5, <1>6, <1>7, <1>8, <1>9, PlanKeeps

\* Whoever heads the queue waits.
LEMMA WaitingHead ==
  ASSUME SInv, step = "admit", left > 0, NEW id, id = Head(waiting)
  PROVE  id \in Ids /\ id \notin DOMAIN active
<1>1. /\ waiting \in Seq(Ids) /\ IsInjective(waiting) /\ Range(waiting) \cap DOMAIN active = {}
      /\ left \in Nat /\ left <= Len(waiting)
  BY DEF SInv, QueuePart, StepPart
<1>2. waiting # <<>>
  BY <1>1, EmptySeq
<1> QED BY <1>1, <1>2, QueueTail

\* Without a cached prefix.
LEMMA AdmitMissKeeps ==
  ASSUME Known1, Known1', EInv, PlanFrame, AdmitMiss
  PROVE  EInv'
<1>1. PICK id : id = Head(waiting)
  OBVIOUS
<1>2. step = "admit" /\ left > 0 /\ Admit(id, PromptLen(id)) /\ Activate(id, 0, {})
  BY <1>1 DEF AdmitMiss
<1>3. id \in Ids /\ id \notin DOMAIN active
  BY <1>1, <1>2, WaitingHead DEF Known1
<1> DEFINE n == BlocksFor(PromptLen(id))
<1>4. n \in Nat
  BY <1>3, SchedulerAssumption, BlocksForMonotonic, WholeFacts, SMTT(30) DEF PromptLen
<1>5. PICK slot, V, fresh :
        /\ V \in SUBSET PageCandidates({}) /\ AcquireBlocks(n, {}, V, fresh, {})
        /\ seqs' = With(seqs, id, [slot |-> slot, blocks |-> fresh, tokens |-> PromptLen(id)])
        /\ entries' = Without(entries, V)
  BY <1>2 DEF Admit
<1> HIDE DEF n
<1>6. \A b \in Range(fresh) : \A j \in DOMAIN seqs : b \notin Range(seqs[j].blocks)
  BY <1>4, <1>5, FreshPages DEF Known1
<1>7. EntriesLost
  BY <1>5, EvictionLoses
<1>8. Admits(id)
  <2>1. DOMAIN seqs = DOMAIN active
    BY CacheFacts DEF Known1
  <2>2. /\ DOMAIN seqs' = DOMAIN seqs \cup {id} /\ \A j \in DOMAIN seqs : seqs'[j] = seqs[j]
        /\ seqs'[id].blocks = fresh
    BY <1>3, <1>5, <2>1 DEF With
  <2> QED BY <1>6, <2>2 DEF Admits
<1> QED BY <1>2, <1>3, <1>7, <1>8, AdmissionKeeps

\* How the pages of a cached prefix and the pages of a longer prompt compare.
LEMMA PrefixPages ==
  ASSUME NEW n \in Nat, NEW p \in Nat, n < p, NEW full, full = n \div BlockSize
  PROVE  /\ full \in Nat /\ full < BlocksFor(p)
         /\ \A m \in 1..BlocksFor(n) : m <= full \/ (m = full + 1 /\ n % BlockSize # 0)
<1> DEFINE d == BlockSize
           r == n % d
           up == (n + d - 1) \div d
           u == (n + d - 1) % d
           top == (p + d - 1) \div d
           t == (p + d - 1) % d
<1>1. d \in Nat \ {0}
  BY CacheAssumption
<1>2. full \in Nat /\ r \in 0..(d - 1) /\ n = d * full + r
  BY <1>1, DivMod
<1>3. n + d - 1 \in Nat /\ p + d - 1 \in Nat
  BY <1>1
<1>4. up \in Nat /\ u \in 0..(d - 1) /\ n + d - 1 = d * up + u
  BY <1>1, <1>3, DivMod
<1>5. top \in Nat /\ t \in 0..(d - 1) /\ p + d - 1 = d * top + t
  BY <1>1, <1>3, DivMod
<1>6. BlocksFor(n) = up /\ BlocksFor(p) = top
  BY DEF BlocksFor
<1> HIDE DEF d, r, up, u, top, t
<1>7. full < top
  <2> SUFFICES ASSUME top <= full PROVE FALSE
    BY <1>2, <1>5
  <2>1. d * top <= d * full
    BY <1>1, <1>2, <1>5
  <2> QED BY <1>1, <1>2, <1>5, <2>1
<1>8. up <= full + 1
  <2> SUFFICES ASSUME full + 2 <= up PROVE FALSE
    BY <1>2, <1>4
  <2>1. d * (full + 2) <= d * up
    BY <1>1, <1>2, <1>4
  <2>2. d * (full + 2) = d * full + d + d
    BY <1>1, <1>2
  <2> QED BY <1>1, <1>2, <1>4, <2>1, <2>2
<1>9. r = 0 => up <= full
  <2> SUFFICES ASSUME r = 0, full + 1 <= up PROVE FALSE
    BY <1>2, <1>4
  <2>1. d * (full + 1) <= d * up
    BY <1>1, <1>2, <1>4
  <2>2. d * (full + 1) = d * full + d
    BY <1>1, <1>2
  <2> QED BY <1>1, <1>2, <1>4, <2>1, <2>2
<1>10. \A m \in 1..up : m <= full \/ (m = full + 1 /\ r # 0)
  BY <1>2, <1>4, <1>8, <1>9
<1> QED BY <1>2, <1>6, <1>7, <1>10 DEF r, d

-----------------------------------------------------------------------------
(* A request continues a cached prefix.                                    *)

\* The new table: the full pages of the entry, and pages nobody has.
Continued(id, s, fresh) ==
  LET full == FullPages(s)
      table == seqs'[id].blocks
  IN  /\ full \in Nat
      /\ \A m \in 1..full : table[m] = entries[s].blocks[m]
      /\ EndsInsidePage(s) => table[full + 1] \in Range(fresh)
      /\ \A b \in Range(table) : b \in Range(entries[s].blocks) \/ b \in Range(fresh)
      /\ \A b \in Range(fresh) :
           /\ \A j \in DOMAIN seqs : b \notin Range(seqs[j].blocks)
           /\ \A t \in DOMAIN entries' : b \notin Range(entries'[t].blocks)
      /\ \A b \in Range(fresh) : b \in Range(table)

\* The cached prefix itself.
PrefixOf(id, s) ==
  LET n == Len(entries[s].tokens)
  IN  /\ n \in Nat /\ n < PromptLen(id) /\ PromptLen(id) \in Nat
      /\ entries[s].tokens = SubSeq(Request(id).prompt, 1, n)
      /\ \A m \in 1..BlocksFor(n) : m <= FullPages(s) \/ (m = FullPages(s) + 1 /\ EndsInsidePage(s))
      /\ FullPages(s) \in Nat /\ FullPages(s) < BlocksFor(PromptLen(id))

\* It is what prefix lookup looks for.
LEMMA MatchedPrefix ==
  ASSUME Known1, NEW id \in Ids, NEW s \in DOMAIN entries, BestMatch(s, Request(id).prompt)
  PROVE  PrefixOf(id, s)
<1> DEFINE e == entries[s].tokens
           n == Len(e)
           p == Request(id).prompt
<1>1. e \in Seq(Proved!Tokens) /\ n \in Nat
  BY CacheFacts DEF Known1
<1>2. p \in Seq(Range(p)) /\ PromptLen(id) = Len(p)
  BY SchedulerAssumption DEF SchedulerAssumption, PromptLen
<1>3. IsStrictPrefix(e, p)
  BY DEF BestMatch, Matches
<1>4. n < Len(p) /\ Len(p) \in Nat
  BY <1>1, <1>2, <1>3, StrictlyShorter
<1>5. SubSeq(e, 1, n) = SubSeq(p, 1, n)
  BY <1>3 DEF IsStrictPrefix, IsPrefix
<1>6. SubSeq(e, 1, n) = e
  <2>1. AnySeq(e)
    BY <1>1 DEF AnySeq
  <2> HIDE DEF e
  <2>2. n \in 0..Len(e)
    BY <1>1
  <2> QED BY <2>1, <2>2, Begun
<1>7. /\ FullPages(s) \in Nat /\ FullPages(s) < BlocksFor(Len(p))
      /\ \A m \in 1..BlocksFor(n) : m <= FullPages(s) \/ (m = FullPages(s) + 1 /\ n % BlockSize # 0)
  <2>1. FullPages(s) = n \div BlockSize
    BY DEF FullPages
  <2> HIDE DEF n, p
  <2> QED BY <1>1, <1>4, <2>1, PrefixPages
<1> QED BY <1>1, <1>2, <1>4, <1>5, <1>6, <1>7 DEF PrefixOf, EndsInsidePage

\* What admit_prompt leaves.
LEMMA HitContinues ==
  ASSUME Known1, NEW id \in Ids, id \notin DOMAIN active, NEW s \in DOMAIN entries,
         AdmitHit(id, Request(id).prompt, s)
  PROVE  /\ EntriesLost /\ s \in DOMAIN entries'
         /\ DOMAIN seqs' = DOMAIN seqs \cup {id} /\ \A j \in DOMAIN seqs : seqs'[j] = seqs[j]
         /\ \E fresh : Continued(id, s, fresh)
<1> DEFINE p == Request(id).prompt
           need == FreshNeed(s, p)
           shared == SubSeq(entries[s].blocks, 1, FullPages(s))
<1>1. PICK slot, V, fresh :
        /\ V \in SUBSET PageCandidates({s})
        /\ AcquireBlocks(need, {s}, V, fresh, Range(shared))
        /\ seqs' = With(seqs, id, [slot |-> slot, blocks |-> shared \o fresh,
                                   tokens |-> Len(p)])
        /\ entries' = [Without(entries, V) EXCEPT ![s].pins = @ + 1]
  BY DEF AdmitHit
<1>2. BestMatch(s, p) /\ PrefixOf(id, s)
  BY MatchedPrefix DEF AdmitHit
<1>3. s \notin V
  BY <1>1 DEF PageCandidates, Unpinned
<1>4. /\ need \in Nat /\ shared \in Seq(Pages)
      /\ Len(shared) + need = BlocksFor(Len(p))
      /\ Range(shared) \subseteq Range(entries[s].blocks)
  <2>1. p \in Prompts
    BY DEF Prompts
  <2>2. Proved!BestMatch(s, p) /\ Proved!FullPages(s) = FullPages(s)
        /\ Proved!FreshNeed(s, p) = need /\ Proved!BlocksFor(Len(p)) = BlocksFor(Len(p))
        /\ Proved!Range(shared) = Range(shared) /\ Proved!EntryPages(s) = EntryPages(s)
    BY <1>2, SameMatch, SameTables, SameSets
  <2> HIDE DEF p, need
  <2>3. shared = SubSeq(entries[s].blocks, 1, Proved!FullPages(s))
    BY <2>2
  <2> HIDE DEF shared
  <2>4. Proved!IInv
    BY DEF Known1
  <2>5. /\ Proved!FreshNeed(s, p) \in Nat /\ shared \in Seq(Pages)
        /\ Len(shared) + Proved!FreshNeed(s, p) = Proved!BlocksFor(Len(p))
        /\ Proved!Range(shared) \subseteq Proved!EntryPages(s)
    BY <2>1, <2>2, <2>3, <2>4, Proved!SharedPrefix, CopiesAssumed
  <2> QED BY <2>2, <2>5 DEF EntryPages
<1>5. /\ Len(shared) = FullPages(s) /\ FullPages(s) \in Nat
      /\ \A m \in 1..FullPages(s) : shared[m] = entries[s].blocks[m]
  <2>1. /\ entries[s].blocks \in Seq(Pages) /\ Len(entries[s].tokens) \in Nat
        /\ Len(entries[s].blocks) = BlocksFor(Len(entries[s].tokens))
    BY CacheFacts DEF Known1
  <2>2. FullPages(s) \in 0..Len(entries[s].blocks)
    <3>1. FullPages(s) = Proved!FullPages(s)
          /\ BlocksFor(Len(entries[s].tokens)) = Proved!BlocksFor(Len(entries[s].tokens))
      BY SameMatch, SameTables
    <3>2. /\ Proved!BlocksFor(Len(entries[s].tokens)) \in Nat
          /\ Len(entries[s].tokens) \div BlockSize \in Nat
          /\ Len(entries[s].tokens) \div BlockSize <= Proved!BlocksFor(Len(entries[s].tokens))
      BY <2>1, Proved!BlocksForFacts, CopiesAssumed
    <3> QED BY <2>1, <3>1, <3>2 DEF FullPages
  <2> QED BY <2>1, <2>2, PrefixOfSeq
<1>6. need > 0
  <2>1. FullPages(s) < BlocksFor(Len(p)) /\ FullPages(s) \in Nat
    BY <1>2 DEF PrefixOf, PromptLen
  <2> HIDE DEF need, shared, p
  <2>2. \E k : k = BlocksFor(Len(p))
    OBVIOUS
  <2>3. Len(shared) + need > FullPages(s)
    BY <1>4, <2>1
  <2> QED BY <1>4, <1>5, <2>1, <2>3
<1> HIDE DEF need, shared, p
<1>7. /\ fresh \in Seq(Pages) /\ Len(fresh) = need
      /\ \A b \in Range(fresh) :
           /\ \A j \in DOMAIN seqs : b \notin Range(seqs[j].blocks)
           /\ \A t \in DOMAIN entries \ V : b \notin Range(entries[t].blocks)
  BY <1>1, <1>4, FreshPages DEF Known1
<1>8. /\ EntriesLost /\ DOMAIN entries' = DOMAIN entries \ V
  <2>1. /\ DOMAIN entries' = DOMAIN entries \ V
        /\ entries'[s] = [entries[s] EXCEPT !.pins = @ + 1]
        /\ \A t \in DOMAIN entries \ V : t # s => entries'[t] = entries[t]
    BY <1>1, <1>3 DEF Without
  <2>2. entries[s] \in [tokens : Seq(Proved!Tokens), blocks : Seq(Pages), pins : Nat]
    BY DEF Known1, Proved!IInv, Proved!EntryPart
  <2>3. entries'[s].tokens = entries[s].tokens /\ entries'[s].blocks = entries[s].blocks
    BY <2>1, <2>2
  <2> QED BY <2>1, <2>3 DEF EntriesLost
<1>9. /\ DOMAIN seqs' = DOMAIN seqs \cup {id} /\ \A j \in DOMAIN seqs : seqs'[j] = seqs[j]
      /\ seqs'[id].blocks = shared \o fresh
  <2>1. DOMAIN seqs = DOMAIN active
    BY CacheFacts DEF Known1
  <2> QED BY <1>1, <2>1 DEF With
<1>10. Range(shared \o fresh) = Range(shared) \cup Range(fresh)
  BY <1>4, <1>7, JoinRange
<1> DEFINE table == shared \o fresh
<1>11. /\ \A m \in 1..Len(shared) : table[m] = shared[m]
       /\ \A m \in 1..Len(fresh) : table[Len(shared) + m] = fresh[m]
  <2>1. AnySeq(shared) /\ AnySeq(fresh)
    BY <1>4, <1>7 DEF AnySeq
  <2> QED BY <2>1, JoinedSeqs
<1>12. fresh[1] \in Range(fresh)
  <2>1. 1 \in DOMAIN fresh
    BY <1>4, <1>6, <1>7, LenProperties
  <2> QED BY <2>1 DEF Range
<1>13. table[FullPages(s) + 1] = fresh[1]
  <2>1. 1 \in 1..Len(fresh)
    BY <1>4, <1>6, <1>7
  <2>2. table[Len(shared) + 1] = fresh[1]
    BY <1>11, <2>1
  <2> QED BY <1>5, <2>2
<1>14. \A m \in 1..FullPages(s) : table[m] = entries[s].blocks[m]
  BY <1>5, <1>11
<1>15. \A b \in Range(table) : b \in Range(entries[s].blocks) \/ b \in Range(fresh)
  BY <1>4, <1>10
<1>16. \A t \in DOMAIN entries' : t \in DOMAIN entries \ V /\ entries'[t].blocks = entries[t].blocks
  BY <1>8 DEF EntriesLost
<1>17. seqs'[id].blocks = table
  BY <1>9
<1>18. \A b \in Range(fresh) : b \in Range(table)
  BY <1>10
<1> HIDE DEF table
<1>19. Continued(id, s, fresh)
  BY <1>5, <1>7, <1>12, <1>13, <1>14, <1>15, <1>16, <1>17, <1>18 DEF Continued
<1>20. s \in DOMAIN entries'
  BY <1>3, <1>8
<1> QED BY <1>8, <1>9, <1>19, <1>20

\* With a cached prefix.
LEMMA AdmitMatchKeeps ==
  ASSUME Known1, Known1', EInv, PlanFrame, AdmitMatch
  PROVE  EInv'
<1>1. PICK id : id = Head(waiting)
  OBVIOUS
<1> DEFINE Copy(s) == IF EndsInsidePage(s)
                      THEN {<<entries[s].blocks[FullPages(s) + 1],
                              seqs'[id].blocks[FullPages(s) + 1]>>}
                      ELSE {}
           Op(s) == [snapshot |-> s, copy |-> Copy(s)]
<1>2. step = "admit" /\ left > 0
  BY DEF AdmitMatch
<1>3. PICK s \in DOMAIN entries :
        /\ AdmitHit(id, Request(id).prompt, s)
        /\ Activate(id, Len(entries[s].tokens), {Op(s)})
  BY <1>1 DEF AdmitMatch
<1>4. id \in Ids /\ id \notin DOMAIN active
  BY <1>1, <1>2, WaitingHead DEF Known1
<1>5. /\ EntriesLost /\ s \in DOMAIN entries'
      /\ DOMAIN seqs' = DOMAIN seqs \cup {id} /\ \A j \in DOMAIN seqs : seqs'[j] = seqs[j]
      /\ \E fresh : Continued(id, s, fresh)
  BY <1>3, <1>4, HitContinues
<1>6. PICK fresh : Continued(id, s, fresh)
  BY <1>5
<1>7. PrefixOf(id, s)
  BY <1>3, <1>4, MatchedPrefix DEF AdmitHit
<1> DEFINE n == Len(entries[s].tokens)
<1>8. /\ active'[id].prefilled = n /\ DOMAIN active' = DOMAIN active \cup {id}
  BY <1>3 DEF Activate, With
<1>9. Admits(id)
  BY <1>5, <1>6 DEF Admits, Continued
<1>10. /\ entries'[s].tokens = entries[s].tokens /\ entries'[s].blocks = entries[s].blocks
  BY <1>5 DEF EntriesLost
<1>11. DOMAIN seqs = DOMAIN active
  BY CacheFacts DEF Known1
<1>12. Op(s).snapshot = s /\ Op(s).copy = Copy(s)
  OBVIOUS
<1>13. PICK r : r = Op(s)
  OBVIOUS
<1>14. \A m \in 1..BlocksFor(n) :
         \/ seqs'[id].blocks[m] = entries'[s].blocks[m]
         \/ r.copy = {<<entries'[s].blocks[m], seqs'[id].blocks[m]>>}
  <2> SUFFICES ASSUME NEW m \in 1..BlocksFor(n),
                      seqs'[id].blocks[m] # entries'[s].blocks[m]
               PROVE  r.copy = {<<entries'[s].blocks[m], seqs'[id].blocks[m]>>}
    OBVIOUS
  <2>1. m <= FullPages(s) \/ (m = FullPages(s) + 1 /\ EndsInsidePage(s))
    BY <1>7 DEF PrefixOf
  <2>2. BlocksFor(n) \in Nat
    <3>1. n \in Nat /\ n <= n
      BY <1>7 DEF PrefixOf
    <3> HIDE DEF n
    <3> QED BY <3>1, BlocksForMonotonic
  <2>3. m \in Nat \ {0} /\ FullPages(s) \in Nat
    BY <1>7, <2>2 DEF PrefixOf
  <2>4. ~(m <= FullPages(s))
    <3> SUFFICES ASSUME m <= FullPages(s) PROVE FALSE
      OBVIOUS
    <3>1. m \in 1..FullPages(s)
      BY <2>3
    <3> QED BY <1>6, <1>10, <3>1 DEF Continued
  <2> QED BY <1>10, <1>12, <1>13, <2>1, <2>4
<1>15. \A c \in r.copy : r.copy = {c} /\ OwnPage(id, c[2])'
  <2> SUFFICES ASSUME NEW c \in r.copy PROVE r.copy = {c} /\ OwnPage(id, c[2])'
    OBVIOUS
  <2>1. /\ EndsInsidePage(s) /\ r.copy = {c} /\ c[2] = seqs'[id].blocks[FullPages(s) + 1]
    BY <1>12, <1>13
  <2>2. c[2] \in Range(fresh)
    BY <1>6, <2>1 DEF Continued
  <2>3. c[2] \in Range(seqs'[id].blocks)
    BY <1>6, <2>2 DEF Continued
  <2>4. \A j \in DOMAIN active' : j # id => c[2] \notin Range(seqs'[j].blocks)
    BY <1>5, <1>6, <1>8, <1>11, <2>2 DEF Continued
  <2>5. \A t \in DOMAIN entries' : c[2] \notin Range(entries'[t].blocks)
    BY <1>6, <2>2 DEF Continued
  <2>6. PICK b : b = c[2]
    OBVIOUS
  <2>7. OwnPage(id, b)'
    BY <2>3, <2>4, <2>5, <2>6 DEF OwnPage
  <2> QED BY <2>1, <2>6, <2>7
<1>16. RestoreRight(id, r)'
  <2>1. r.snapshot = s
    BY <1>12, <1>13
  <2>2. entries'[s].tokens = SubSeq(Request(id).prompt, 1, active'[id].prefilled)
    BY <1>7, <1>8, <1>10 DEF PrefixOf
  <2> QED BY <1>5, <1>8, <1>14, <1>15, <2>1, <2>2 DEF RestoreRight
<1>17. PICK restore : restore = {Op(s)}
  OBVIOUS
<1>18. restore # {} /\ \A q \in restore : q = r
  BY <1>13, <1>17
<1>19. Activate(id, n, restore)
  BY <1>3, <1>17
<1> HIDE DEF n, Op
<1>20. \A q \in restore : RestoreRight(id, q)'
  BY <1>16, <1>18
<1> QED BY <1>4, <1>5, <1>9, <1>18, <1>19, <1>20, AdmissionKeeps

-----------------------------------------------------------------------------
(* A batch that has run is completed.                                      *)

\* What the host's step does to the worker's own variables.
RunFrame ==
  /\ ran /\ ran = TRUE /\ extra = accepted /\ accepted \in Nat /\ step # "idle" /\ Remembers
  /\ hiddenFor' = hiddenFor \cap DOMAIN active'
  /\ step' # "idle" => ran' = TRUE /\ accepted' = accepted
  /\ step' = "idle" => ran' = FALSE /\ accepted' = 0

\* A completion is such a step.
LEMMA RunFrameIs ==
  ASSUME EInv, step \in {"flight", "complete"}, Host
  PROVE  RunFrame
<1>1. RunPart /\ DevShape(dev)
  BY DEF EInv
<1>2. ran /\ ran = TRUE /\ extra = accepted /\ accepted \in Nat
  <2>1. ran /\ extra = accepted
    BY <1>1, Zenon DEF Host, RunPart
  <2>2. ran \in BOOLEAN /\ accepted \in Nat
    BY <1>1 DEF RunPart
  <2> QED BY <2>1, <2>2
<1>3. Forget /\ ran' = (ran /\ step' # "idle") /\ accepted' = IF step' = "idle" THEN 0 ELSE accepted
  BY Zenon DEF Host
<1>4. Remembers /\ hiddenFor' = hiddenFor \cap DOMAIN active'
  BY <1>1, <1>3, ForgetRemembers DEF Forget
<1>5. step' # "idle" => ran' = TRUE /\ accepted' = accepted
  BY <1>2, <1>3
<1>6. step' = "idle" => ran' = FALSE /\ accepted' = 0
  BY <1>2, <1>3
<1> QED BY <1>2, <1>4, <1>5, <1>6 DEF RunFrame

\* The requests of a batch, by their phase.
LEMMA BatchPhases ==
  ASSUME SInv
  PROVE  /\ BatchIds = WithPhase("DecodeInFlight") \cup WithPhase("PrefillInFlight")
         /\ step = "idle" => BatchIds = {}
<1>1. /\ Range(batch.decode) = WithPhase("DecodeInFlight")
      /\ Range(ChunkIds) = WithPhase("PrefillInFlight")
  BY DEF SInv, BatchPart
<1>2. BatchIds = WithPhase("DecodeInFlight") \cup WithPhase("PrefillInFlight")
  BY <1>1 DEF BatchIds, InBatch, WithPhase
<1>3. step = "idle" => BatchIds = {}
  <2>1. step = "idle" => batch.decode = <<>> /\ batch.prefill = <<>>
    BY DEF SInv, StepPart, NoBatch
  <2>2. batch.decode = <<>> => Range(batch.decode) = {}
    BY DEF Range
  <2>3. batch.prefill = <<>> => Range(ChunkIds) = {}
    BY DEF ChunkIds, Range
  <2> QED BY <1>1, <1>2, <2>1, <2>2, <2>3
<1> QED BY <1>2, <1>3

\* The same of the state after the step.
LEMMA BatchPhasesNext ==
  /\ SInv' => BatchIds' = WithPhase("DecodeInFlight")' \cup WithPhase("PrefillInFlight")'
  /\ SInv' => (step' = "idle" => BatchIds' = {})
<1>1. SInv => BatchIds = WithPhase("DecodeInFlight") \cup WithPhase("PrefillInFlight")
  BY BatchPhases
<1>2. SInv => (step = "idle" => BatchIds = {})
  BY BatchPhases
<1>3. SInv' => (BatchIds = WithPhase("DecodeInFlight") \cup WithPhase("PrefillInFlight"))'
  BY <1>1, PTL
<1>4. SInv' => (step = "idle" => BatchIds = {})'
  BY <1>2, PTL
<1> QED BY <1>3, <1>4

\* As long as the batch is not done with, its requests count as run.
LEMMA RunIdsNext ==
  ASSUME SInv', RunFrame
  PROVE  RunIds = BatchIds /\ RunIds' = BatchIds'
<1>1. step' = "idle" => BatchIds' = {}
  BY BatchPhasesNext
<1>2. ran' = TRUE \/ BatchIds' = {}
  BY <1>1 DEF RunFrame
<1> QED BY <1>2 DEF RunIds, RunFrame

\* The chunks of a batch, after the step.
LEMMA ChunksNext ==
  /\ SInv' => \A i \in BatchIds' : Decoding(i)' \/ \E c \in Range(batch'.prefill) : c.id = i
  /\ SInv' => \A c \in Range(batch'.prefill) : ChunkTokens(c.id)' = c.tokens
<1>1. SInv => \A i \in BatchIds : Decoding(i) \/ \E c \in Range(batch.prefill) : c.id = i
  BY BatchOfTwo
<1>2. SInv => \A c \in Range(batch.prefill) : ChunkTokens(c.id) = c.tokens
  BY ChunkFacts
<1>3. SInv' => (\A i \in BatchIds : Decoding(i) \/ \E c \in Range(batch.prefill) : c.id = i)'
  BY <1>1, PTL
<1>4. SInv' => (\A c \in Range(batch.prefill) : ChunkTokens(c.id) = c.tokens)'
  BY <1>2, PTL
<1> QED BY <1>3, <1>4

\* The chunk of a request stays what it is until it is completed.
LEMMA ChunkTokensKept ==
  ASSUME SInv, SInv', Range(batch'.prefill) \subseteq Range(batch.prefill),
         NEW j \in BatchIds', ~Decoding(j)'
  PROVE  ChunkTokens(j)' = ChunkTokens(j)
<1>5. PICK c \in Range(batch'.prefill) : c.id = j
  BY ChunksNext
<1>6. ChunkTokens(c.id)' = c.tokens
  BY ChunksNext
<1>7. ChunkTokens(c.id) = c.tokens
  BY ChunkFacts
<1>8. ChunkTokens(j)' = ChunkTokens(c.id)'
  BY <1>5 DEF ChunkTokens
<1> QED BY <1>5, <1>6, <1>7, <1>8

\* A request the step leaves alone has reached what it had reached.
Untouched(j) ==
  /\ j \in DOMAIN active /\ active'[j].prefilled = active[j].prefilled
  /\ active'[j].generated = active[j].generated /\ active'[j].phase = active[j].phase
  /\ j \in RunIds' => accepted' = accepted

\* So it has.
LEMMA ReachedSame ==
  ASSUME Known1, Known1', RunFrame, Range(batch'.prefill) \subseteq Range(batch.prefill),
         NEW j \in DOMAIN active', Untouched(j)
  PROVE  /\ Reached(j)' = Reached(j)
         /\ (j \in RunIds' <=> j \in RunIds) /\ (Decoding(j)' <=> Decoding(j))
<1>1. RunIds = BatchIds /\ RunIds' = BatchIds'
  BY RunIdsNext DEF Known1
<1>2. j \in RunIds' <=> j \in RunIds
  BY <1>1, BatchPhases, BatchPhasesNext DEF Untouched, WithPhase, Known1
<1>3. (Decoding(j)' <=> Decoding(j)) /\ Base(j)' = Base(j)
  BY DEF Untouched, Decoding, Base
<1>4. j \in RunIds' => Added(j, accepted)' = Added(j, accepted)
  <2> SUFFICES ASSUME j \in RunIds' PROVE Added(j, accepted)' = Added(j, accepted)
    OBVIOUS
  <2>1. accepted' = accepted
    BY DEF Untouched
  <2>2. ~Decoding(j)' => ChunkTokens(j)' = ChunkTokens(j)
    BY <1>1, ChunkTokensKept DEF Known1
  <2> QED BY <1>3, <2>1, <2>2 DEF Added
<1>5. Reached(j)' = Base(j)' + (IF j \in RunIds' THEN Added(j, accepted)' ELSE 0)
  BY DEF Reached, Count
<1>6. Reached(j)' = Reached(j)
  BY <1>2, <1>3, <1>4, <1>5 DEF Reached, Count
<1> QED BY <1>2, <1>3, <1>6

\* complete_batch_multi begins.
LEMMA BeginCompleteKeeps ==
  ASSUME Known1, Known1', EInv, RunFrame, BeginComplete
  PROVE  EInv'
<1>1. /\ step = "flight" /\ step' = "complete"
      /\ UNCHANGED <<refs, freePages, freeSlots, freeSnapshots, seqs, entries, older>>
      /\ UNCHANGED <<queueVars, active, batch, extra>>
  BY DEF BeginComplete, cacheVars
<1>2. /\ RunPart /\ HiddenPart /\ DraftPart /\ GenPart /\ SaveChunks
  BY DEF EInv
<1>3. ran' = TRUE /\ accepted' = accepted /\ hiddenFor' = hiddenFor
  BY <1>1, <1>2 DEF RunFrame, HiddenPart
<1>4. \A j \in DOMAIN active' : /\ Reached(j)' = Reached(j) /\ (j \in RunIds' <=> j \in RunIds)
                                /\ (Decoding(j)' <=> Decoding(j))
  <2> SUFFICES ASSUME NEW j \in DOMAIN active' PROVE
        /\ Reached(j)' = Reached(j)
        /\ (j \in RunIds' <=> j \in RunIds) /\ (Decoding(j)' <=> Decoding(j))
    OBVIOUS
  <2>1. Untouched(j)
    BY <1>1, <1>3 DEF Untouched
  <2>2. Range(batch'.prefill) \subseteq Range(batch.prefill)
    BY <1>1
  <2> QED BY <2>1, <2>2, ReachedSame
<1>5. \A j \in DOMAIN active' : Carried(j) /\ Waits(j)
  BY <1>1, <1>4 DEF Carried, Waits
<1>6. RunPart'
  BY <1>1, <1>2, <1>3 DEF RunPart, RunFrame
<1>7. HiddenPart'
  BY <1>1, <1>2, <1>3 DEF HiddenPart, RunFrame, Speculative
<1>8. GenPart' /\ SaveChunks'
  BY <1>1, <1>2, <1>4 DEF GenPart, SaveChunks
<1>9. DraftPart'
  <2>1. \A j \in DOMAIN active' : History(j, Reached(j))' = History(j, Reached(j))
    BY <1>4 DEF History
  <2> QED BY <1>1, <1>2, <1>3, <1>4, <2>1 DEF DraftPart, RunFrame, Remembers
<1>10. EntriesFrom /\ TablesFrom
  BY <1>1 DEF EntriesFrom, TablesFrom
<1>11. SavesFrom
  <2>1. RunIds' = RunIds
    <3>1. RunIds = BatchIds /\ RunIds' = BatchIds'
      BY RunIdsNext DEF Known1
    <3> QED BY <1>1, <3>1 DEF BatchIds, InBatch, ChunkIds
  <2> QED BY <1>1, <2>1 DEF SavesFrom
<1>12. Fits0
  BY <1>5, <1>6, <1>7, <1>8, <1>9, <1>10, <1>11 DEF Fits0, RunFrame
<1> QED BY <1>12, StepKeeps

-----------------------------------------------------------------------------
(* Restores and saves are completed.                                       *)

\* The requests go on, and the chunks of the batch are the same.
Unmoved ==
  /\ DOMAIN active' = DOMAIN active /\ seqs' = seqs /\ extra' = extra /\ step' = step
  /\ step = "complete" /\ batch'.prefill = batch.prefill /\ batch'.decode = batch.decode
  /\ \A j \in DOMAIN active :
       /\ active'[j].prefilled = active[j].prefilled
       /\ active'[j].generated = active[j].generated /\ active'[j].phase = active[j].phase
       /\ \/ active'[j].restore = active[j].restore
          \/ active'[j].restore = {} /\ j \in RunIds
  /\ Range(batch'.saves) \subseteq Range(batch.saves)

\* Such a step keeps the invariant.
LEMMA UnmovedKeeps ==
  ASSUME Known1, Known1', EInv, RunFrame, Unmoved, EntriesFrom
  PROVE  EInv'
<1>1. RunPart /\ HiddenPart /\ DraftPart /\ GenPart /\ SaveChunks
  BY DEF EInv
<1>2. ran' = TRUE /\ accepted' = accepted /\ hiddenFor' = hiddenFor /\ step' = "complete"
  BY <1>1 DEF RunFrame, HiddenPart, Unmoved
<1>3. \A j \in DOMAIN active' : /\ Reached(j)' = Reached(j) /\ (j \in RunIds' <=> j \in RunIds)
                                /\ (Decoding(j)' <=> Decoding(j))
  <2> SUFFICES ASSUME NEW j \in DOMAIN active' PROVE
        /\ Reached(j)' = Reached(j)
        /\ (j \in RunIds' <=> j \in RunIds) /\ (Decoding(j)' <=> Decoding(j))
    OBVIOUS
  <2>1. Untouched(j)
    BY <1>2 DEF Untouched, Unmoved
  <2>2. Range(batch'.prefill) \subseteq Range(batch.prefill)
    BY DEF Unmoved
  <2> QED BY <2>1, <2>2, ReachedSame
<1>4. \A j \in DOMAIN active' : Carried(j)
  <2> SUFFICES ASSUME NEW j \in DOMAIN active' PROVE Carried(j)
    OBVIOUS
  <2>1. j \in DOMAIN active /\ seqs' = seqs
    BY DEF Unmoved
  <2>2. active'[j].restore = {} => active[j].restore = {} \/ j \in RunIds
    BY <2>1 DEF Unmoved
  <2> QED BY <1>3, <2>1, <2>2 DEF Carried
<1>5. \A j \in DOMAIN active' : active'[j].restore = {} \/ Waits(j)
  BY DEF Unmoved, Waits
<1>6. RunPart'
  <2>1. extra' = extra /\ accepted' \in Nat /\ accepted' <= extra' /\ extra' = accepted'
    BY <1>1, <1>2 DEF RunFrame, RunPart, Unmoved
  <2> QED BY <1>2, <2>1 DEF RunPart
<1>7. HiddenPart'
  BY <1>1, <1>2 DEF HiddenPart, RunFrame, Speculative, Unmoved
<1>8. GenPart'
  BY <1>1, <1>3 DEF GenPart, Unmoved
<1>9. SaveChunks'
  BY <1>1 DEF SaveChunks, Unmoved
<1>10. DraftPart'
  <2> SUFFICES ASSUME dev'.copy.owner = Draft PROVE DraftPart'
    BY DEF DraftPart
  <2>1. dev'.copy = dev.copy /\ ran
    BY DEF RunFrame, Remembers
  <2>2. /\ Depth > 0 /\ batch'.prefill = <<>>
    BY <1>1, <2>1 DEF DraftPart, Unmoved
  <2>3. ASSUME NEW j \in DOMAIN active', Decoding(j)'
        PROVE  /\ j \in hiddenFor'
               /\ \/ dev'.copy.state = History(j, Reached(j))'
                  \/ ran' /\ accepted' = 0 /\ active'[j].generated + 1 = Request(j).maxNew
    <3>1. j \in DOMAIN active /\ Decoding(j) /\ active'[j].generated = active[j].generated
      BY <1>3, <2>3 DEF Unmoved
    <3>2. History(j, Reached(j))' = History(j, Reached(j))
      BY <1>3 DEF History
    <3>3. /\ j \in hiddenFor
          /\ \/ dev.copy.state = History(j, Reached(j))
             \/ ran /\ accepted = 0 /\ active[j].generated + 1 = Request(j).maxNew
      BY <1>1, <2>1, <3>1 DEF DraftPart
    <3> QED BY <1>2, <2>1, <3>1, <3>2, <3>3
  <2> QED BY <2>2, <2>3 DEF DraftPart
<1>11. TablesFrom
  BY DEF TablesFrom, Unmoved
<1>12. SavesFrom
  <2>1. RunIds' \subseteq RunIds
    <3>1. RunIds' = BatchIds'
      BY RunIdsNext DEF Known1
    <3>2. BatchIds' \subseteq DOMAIN active'
      BY DEF BatchIds
    <3> QED BY <1>3, <3>1, <3>2
  <2> QED BY <2>1 DEF SavesFrom, Unmoved
<1>13. Fits0
  BY <1>4, <1>5, <1>6, <1>7, <1>8, <1>9, <1>10, <1>11, <1>12 DEF Fits0, RunFrame
<1> QED BY <1>13, StepKeeps

\* The head of a sequence is in it, and so is what is left.
LEMMA HeadInRange ==
  ASSUME NEW S, NEW q \in Seq(S), q # <<>>
  PROVE  /\ Head(q) \in Range(q) /\ Head(q) \in S
         /\ Tail(q) \in Seq(S) /\ Range(Tail(q)) \subseteq Range(q)
<1>1. PICK n \in Nat : n = Len(q) /\ DOMAIN q = 1..n /\ n > 0
  BY LenProperties, EmptySeq
<1>2. 1 \in DOMAIN q /\ Head(q) = q[1]
  BY <1>1
<1>3. PICK t : t = Tail(q)
  OBVIOUS
<1>4. t \in Seq(S) /\ Len(t) = n - 1 /\ \A i \in 1..Len(t) : t[i] = q[i + 1]
  BY <1>1, <1>3, HeadTailProperties
<1>5. DOMAIN t = 1..(n - 1)
  BY <1>4, LenProperties
<1>6. ASSUME NEW i \in DOMAIN t PROVE t[i] \in Range(q)
  <2>1. i + 1 \in DOMAIN q /\ t[i] = q[i + 1]
    BY <1>1, <1>4, <1>5
  <2> QED BY <2>1 DEF Range
<1>7. Range(t) \subseteq Range(q)
  BY <1>6 DEF Range
<1>8. Head(q) \in S
  BY HeadTailProperties
<1> QED BY <1>2, <1>3, <1>4, <1>7, <1>8 DEF Range

\* A restore is completed.
LEMMA CompleteRestoreKeeps ==
  ASSUME Known1, Known1', EInv, RunFrame, CompleteRestore
  PROVE  EInv'
<1>1. PICK r : r = Head(batch.restores)
  OBVIOUS
<1>2. /\ step = "complete" /\ batch.restores # <<>> /\ FinishRestore(r.op.snapshot)
      /\ active' = [active EXCEPT ![r.id].restore = {}]
      /\ batch' = [batch EXCEPT !.restores = Tail(@)]
      /\ UNCHANGED <<queueVars, committed, step, left, extra>>
  BY <1>1 DEF CompleteRestore
<1>3. /\ batch.restores \in Seq(RestoreCall) /\ BatchType
      /\ \A q \in Range(batch.restores) : q.id \in Range(ChunkIds)
      /\ Range(ChunkIds) \subseteq BatchIds
  <2>1. /\ batch.restores \in Seq(RestoreCall) /\ BatchType
        /\ \A q \in Range(batch.restores) : q.id \in Range(ChunkIds)
        /\ Range(ChunkIds) = WithPhase("PrefillInFlight")
    BY DEF Known1, SInv, BatchPart, BatchType, RestorePart
  <2> QED BY <2>1, BatchPhases DEF Known1
<1>4. r.id \in RunIds /\ r.id \in DOMAIN active
  <2>1. r \in Range(batch.restores)
    BY <1>1, <1>2, <1>3, HeadInRange
  <2>2. RunIds = BatchIds /\ BatchIds \subseteq DOMAIN active
    BY RunIdsNext DEF Known1, BatchIds
  <2> QED BY <1>3, <2>1, <2>2
<1>5. EntriesFrom /\ seqs' = seqs
  <2>1. EntriesLost
    BY <1>2, UnpinLoses DEF FinishRestore, Known1
  <2> QED BY <1>2, <2>1 DEF EntriesLost, EntriesFrom, FinishRestore
<1>6. \A j \in DOMAIN active : active[j] \in Record
  BY RequestFacts DEF Known1, SInv
<1>7. Unmoved
  <2>1. /\ batch'.prefill = batch.prefill /\ batch'.decode = batch.decode
        /\ batch'.saves = batch.saves
    BY <1>2, <1>3 DEF BatchType
  <2>2. /\ DOMAIN active' = DOMAIN active
        /\ \A j \in DOMAIN active : j # r.id => active'[j] = active[j]
        /\ active'[r.id] = [active[r.id] EXCEPT !.restore = {}]
    BY <1>2, <1>4
  <2>3. /\ active'[r.id].prefilled = active[r.id].prefilled
        /\ active'[r.id].generated = active[r.id].generated
        /\ active'[r.id].phase = active[r.id].phase /\ active'[r.id].restore = {}
    BY <1>4, <1>6, <2>2 DEF Record
  <2> QED BY <1>2, <1>4, <1>5, <2>1, <2>2, <2>3 DEF Unmoved
<1> QED BY <1>5, <1>7, UnmovedKeeps

\* The entry a snapshot becomes is what was computed.
LEMMA SavedEntry ==
  ASSUME Known1, EInv, RunFrame, NEW save \in Range(batch.saves), batch.restores = <<>>,
         NEW id, id = save.id, NEW tokens, tokens = SaveTokens(id),
         NEW blocks, blocks = SubSeq(seqs[id].blocks, 1, BlocksFor(Len(tokens)))
  PROVE  /\ save.snapshot \notin DOMAIN entries
         /\ IsState(dev.snaps[save.snapshot], tokens) /\ HoldsIn(dev.kv, blocks, tokens)
         /\ id \in DOMAIN active /\ active[id].restore = {}
         /\ Range(blocks) \subseteq Range(seqs[id].blocks)
<1>1. Known0 /\ RunPart /\ SaveChunks /\ Right(dev, RunIds, accepted, RunIds)
      /\ SavedIn(dev, RunIds)
  BY DEF EInv, Known0, Known1
<1>2. RunIds = BatchIds
  BY DEF RunIds, RunFrame
<1>3. id \in BatchIds /\ id \in DOMAIN active /\ id \in Range(ChunkIds)
  <2>1. id \in Range(ChunkIds)
    BY DEF Known1, SInv, SavePart
  <2>2. Range(ChunkIds) = WithPhase("PrefillInFlight")
    BY DEF Known1, SInv, BatchPart
  <2> QED BY <2>1, <2>2, BatchPhases DEF Known1, BatchIds
<1>4. accepted \in 0..extra
  BY <1>1 DEF RunFrame
<1>5. /\ Count(id, RunIds, accepted) = Request(id).snapshotAt
      /\ History(id, Count(id, RunIds, accepted)) = tokens
  BY <1>1, <1>2, <1>3, <1>4, SaveEnds
<1> DEFINE n == Request(id).snapshotAt
<1>6. /\ n \in Nat /\ n <= Total(id) /\ BlocksFor(n) <= Len(seqs[id].blocks)
  BY <1>1, <1>2, <1>3, <1>4, <1>5, CountFacts
<1>7. id \in Ids
  BY <1>1, <1>3, BaseFacts
<1>8. Len(tokens) = n /\ tokens = History(id, n)
  <2>1. n \in 0..Total(id)
    BY <1>6, <1>7, WholeFacts
  <2> HIDE DEF n
  <2>2. Len(History(id, n)) = n
    BY <1>7, <2>1, HistoryFacts
  <2> QED BY <1>5, <2>2 DEF n
<1>9. HoldsIn(dev.kv, seqs[id].blocks, tokens)
  <2>1. RightOf(dev, id, Count(id, RunIds, accepted), RunIds, RunIds)
    BY <1>1, <1>3 DEF Right
  <2> QED BY <1>2, <1>3, <1>5, <2>1 DEF RightOf, Held
<1>10. seqs[id].blocks \in Seq(Pages)
  BY <1>1, <1>3, BaseFacts
<1>11. BlocksFor(n) \in Nat
  BY <1>6, BlocksForMonotonic
<1> HIDE DEF n
<1>12. /\ \A m \in 1..BlocksFor(n) : blocks[m] = seqs[id].blocks[m]
       /\ Range(blocks) \subseteq Range(seqs[id].blocks)
  <2>1. BlocksFor(n) \in 0..Len(seqs[id].blocks)
    BY <1>6, <1>10, <1>11, LenProperties
  <2>2. blocks = SubSeq(seqs[id].blocks, 1, BlocksFor(n))
    BY <1>8, SMTT(30)
  <2> QED BY <1>10, <2>1, <2>2, PrefixOfSeq, ZenonT(40)
<1>13. HoldsIn(dev.kv, blocks, tokens)
  <2> SUFFICES ASSUME NEW p \in 1..Len(tokens)
               PROVE  dev.kv[blocks[PageOf(p)]][CellOf(p)] = SubSeq(tokens, 1, p)
    BY DEF HoldsIn
  <2>1. p \in 1..n /\ n \in Nat
    BY <1>6, <1>8 DEF n
  <2>2. PageOf(p) \in 1..BlocksFor(n)
    BY <2>1, PlaceInTable
  <2> QED BY <1>9, <1>12, <2>2 DEF HoldsIn
<1>14. IsState(dev.snaps[save.snapshot], tokens)
  BY <1>1, <1>2, <1>3 DEF SavedIn
<1>15. save.snapshot \notin DOMAIN entries
  BY <1>1, SnapshotsApart
<1>16. active[id].restore = {}
  <2>1. Range(batch.restores) = {}
    BY DEF Range
  <2>2. \A op \in active[id].restore : [id |-> id, op |-> op] \in Range(batch.restores)
    BY <1>3 DEF Known1, SInv, RestorePart
  <2> QED BY <2>1, <2>2
<1> QED BY <1>3, <1>12, <1>13, <1>14, <1>15, <1>16

\* A save is completed.
LEMMA CompleteSaveKeeps ==
  ASSUME Known1, Known1', EInv, RunFrame, CompleteSave
  PROVE  EInv'
<1>1. PICK save : save = Head(batch.saves)
  OBVIOUS
<1>2. PICK tokens : tokens = SaveTokens(save.id)
  OBVIOUS
<1>3. /\ step = "complete" /\ batch.restores = <<>> /\ batch.saves # <<>>
      /\ CommitSnapshot(save.snapshot, save.id, tokens)
      /\ batch' = [batch EXCEPT !.saves = Tail(@)]
      /\ UNCHANGED <<queueVars, active, committed, step, left, extra>>
  BY <1>1, <1>2 DEF CompleteSave, SaveTokens
<1>4. batch.saves \in Seq(SaveCall) /\ BatchType
  BY DEF Known1, SInv, BatchPart, BatchType
<1>5. save \in Range(batch.saves) /\ Range(Tail(batch.saves)) \subseteq Range(batch.saves)
  BY <1>1, <1>3, <1>4, HeadInRange
<1>6. EntriesFrom /\ seqs' = seqs
  <2>1. CASE entries' = entries /\ seqs' = seqs
    BY <2>1 DEF EntriesFrom
  <2>2. CASE StoreSnapshot(save.snapshot, save.id, tokens)
    <3>0. PICK id, s : id = save.id /\ s = save.snapshot
      OBVIOUS
    <3>1. PICK blocks : blocks = SubSeq(seqs[id].blocks, 1, BlocksFor(Len(tokens)))
      OBVIOUS
    <3>2. /\ entries' = With(entries, s, [tokens |-> tokens, blocks |-> blocks, pins |-> 0])
          /\ seqs' = seqs
      BY <2>2, <3>0, <3>1 DEF StoreSnapshot
    <3>3. /\ s \notin DOMAIN entries
          /\ IsState(dev.snaps[s], tokens) /\ HoldsIn(dev.kv, blocks, tokens)
          /\ id \in DOMAIN active /\ active[id].restore = {}
          /\ Range(blocks) \subseteq Range(seqs[id].blocks)
      <4>1. tokens = SaveTokens(id)
        BY <1>2, <3>0
      <4> QED BY <1>3, <1>5, <3>0, <3>1, <4>1, SavedEntry
    <3>4. /\ DOMAIN entries' = DOMAIN entries \cup {s}
          /\ \A t \in DOMAIN entries : entries'[t] = entries[t]
          /\ entries'[s].tokens = tokens /\ entries'[s].blocks = blocks
      BY <3>2, <3>3 DEF With
    <3>5. EntriesFrom
      <4> SUFFICES ASSUME NEW t \in DOMAIN entries'
                   PROVE  \/ /\ t \in DOMAIN entries
                             /\ entries'[t].tokens = entries[t].tokens
                             /\ entries'[t].blocks = entries[t].blocks
                          \/ /\ t \notin DOMAIN entries
                             /\ IsState(dev.snaps[t], entries'[t].tokens)
                             /\ HoldsIn(dev.kv, entries'[t].blocks, entries'[t].tokens)
                             /\ \E j \in DOMAIN active :
                                  /\ active[j].restore = {}
                                  /\ Range(entries'[t].blocks) \subseteq Range(seqs[j].blocks)
        BY DEF EntriesFrom
      <4>1. CASE t \in DOMAIN entries
        BY <3>4, <4>1
      <4>2. CASE t \notin DOMAIN entries
        <5>1. t = s
          BY <3>4, <4>2
        <5> QED BY <3>3, <3>4, <4>2, <5>1
      <4> QED BY <4>1, <4>2
    <3> QED BY <3>2, <3>5
  <2>3. CommitSnapshot(save.snapshot, save.id, tokens) =>
          \/ entries' = entries /\ seqs' = seqs
          \/ StoreSnapshot(save.snapshot, save.id, tokens)
    BY DEF CommitSnapshot, CancelSnapshot, TouchSnapshot
  <2> QED BY <1>3, <2>1, <2>2, <2>3
<1>7. Unmoved
  <2>1. /\ batch'.prefill = batch.prefill /\ batch'.decode = batch.decode
        /\ batch'.saves = Tail(batch.saves)
    BY <1>3, <1>4 DEF BatchType
  <2> QED BY <1>3, <1>5, <1>6, <2>1 DEF Unmoved
<1> QED BY <1>6, <1>7, UnmovedKeeps

-----------------------------------------------------------------------------
(* Chunks and decoded tokens are completed.                                *)

\* The part of one request in the batch is over: it has what was computed, or
\* it has ended.
Finishes(id) ==
  /\ step = "complete" /\ step' \in {"idle", "complete"} /\ id \in BatchIds
  /\ batch'.saves = <<>> /\ Range(batch'.prefill) \subseteq Range(batch.prefill)
  /\ \A j \in DOMAIN active' :
       j # id => j \in DOMAIN active /\ active'[j] = active[j] /\ seqs'[j] = seqs[j]
  /\ \A j \in DOMAIN active' : j # id /\ j \in BatchIds' => accepted' = accepted
  /\ (id \in DOMAIN active' =>
        /\ seqs'[id] = seqs[id] /\ active'[id].phase \in {"DecodeReady", "PrefillReady"}
        /\ active'[id].restore = {}
        /\ Base(id)' = Base(id) + Added(id, accepted)
        /\ Base(id)' \in Nat
        /\ (Decoding(id) => Decoding(id)'))
  /\ extra' = 0 /\ accepted' = 0 /\ EntriesLost

\* What the requests have reached is the same before and after.
LEMMA FinishReached ==
  ASSUME Known1, Known1', RunFrame, NEW id, Finishes(id), NEW j \in DOMAIN active'
  PROVE  Reached(j)' = Reached(j) /\ (j \in RunIds' => j \in RunIds) /\ j \in DOMAIN active
         /\ (j # id => (Decoding(j)' <=> Decoding(j)))
<1>1. RunIds = BatchIds /\ RunIds' = BatchIds'
  BY RunIdsNext DEF Known1
<1>2. CASE j # id
  <2>1. Untouched(j)
    BY <1>1, <1>2 DEF Finishes, Untouched
  <2>2. Range(batch'.prefill) \subseteq Range(batch.prefill)
    BY DEF Finishes
  <2> QED BY <1>2, <2>1, <2>2, ReachedSame DEF Finishes
<1>3. CASE j = id
  <2>1. /\ active'[id].phase \in {"DecodeReady", "PrefillReady"}
        /\ Base(id)' = Base(id) + Added(id, accepted) /\ Base(id)' \in Nat /\ id \in BatchIds
    BY <1>3 DEF Finishes
  <2>2. id \notin BatchIds'
    BY <2>1, BatchPhasesNext DEF WithPhase, Known1
  <2>3. Reached(id)' = Base(id)'
    BY <1>1, <2>1, <2>2 DEF Reached, Count
  <2>4. Reached(id) = Base(id) + Added(id, accepted)
    BY <1>1, <2>1 DEF Reached, Count
  <2>5. id \in DOMAIN active
    BY <2>1 DEF BatchIds
  <2> QED BY <1>1, <1>3, <2>1, <2>2, <2>3, <2>4, <2>5
<1> QED BY <1>2, <1>3

\* Such a step keeps the invariant.
LEMMA FinishKeeps ==
  ASSUME Known1, Known1', EInv, RunFrame, NEW id, Finishes(id), HiddenPart', GenPart', DraftPart'
  PROVE  EInv'
<1>1. RunPart /\ DOMAIN seqs = DOMAIN active /\ DOMAIN seqs' = DOMAIN active'
  <2>1. DOMAIN seqs' = DOMAIN active'
    BY CacheFactsNext DEF Known1
  <2> QED BY <2>1, CacheFacts DEF EInv, Known1
<1>2. RunPart'
  <2>1. accepted' \in Nat /\ accepted' <= extra' /\ extra' = accepted' /\ accepted' = 0
    BY DEF Finishes
  <2>2. step' \in {"idle", "complete"}
    BY DEF Finishes
  <2>3. CASE step' = "idle"
    <3>1. ran' = FALSE /\ ~(extra' > 0)
      BY <2>1, <2>3 DEF RunFrame
    <3>2. ran' \in BOOLEAN /\ step' # "abort" /\ step' # "flight" /\ step' # "complete"
      BY <2>3, <3>1
    <3> QED BY <2>1, <3>1, <3>2 DEF RunPart
  <2>4. CASE step' = "complete"
    BY <2>1, <2>4 DEF RunPart, RunFrame
  <2> QED BY <2>2, <2>3, <2>4
<1>3. RunIds = BatchIds /\ RunIds' = BatchIds'
  BY RunIdsNext DEF Known1
<1>4. \A j \in DOMAIN active' : Carried(j)
  <2> SUFFICES ASSUME NEW j \in DOMAIN active' PROVE Carried(j)
    OBVIOUS
  <2>1. /\ Reached(j)' = Reached(j) /\ (j \in RunIds' => j \in RunIds) /\ j \in DOMAIN active
        /\ (j # id => (Decoding(j)' <=> Decoding(j)))
    BY FinishReached
  <2>2. seqs'[j] = seqs[j] /\ (Decoding(j) => Decoding(j)')
        /\ (active'[j].restore = {} => active[j].restore = {} \/ j \in RunIds)
    BY <1>3, <2>1 DEF Finishes
  <2> QED BY <2>1, <2>2 DEF Carried
<1>5. \A j \in DOMAIN active' : active'[j].restore = {} \/ Waits(j)
  BY DEF Finishes, Waits
<1>6. SaveChunks' /\ SavesFrom
  <2>1. Range(batch'.saves) = {}
    BY DEF Finishes, Range
  <2> QED BY <2>1 DEF SaveChunks, SavesFrom
<1>7. EntriesFrom
  BY DEF Finishes, EntriesLost, EntriesFrom
<1>8. TablesFrom
  <2> SUFFICES ASSUME NEW j \in DOMAIN active' PROVE j \in DOMAIN active /\ seqs'[j] = seqs[j]
    BY DEF TablesFrom
  <2> QED BY FinishReached DEF Finishes
<1>9. Fits0
  BY <1>2, <1>4, <1>5, <1>6, <1>7, <1>8 DEF Fits0, RunFrame
<1> QED BY <1>9, StepKeeps

\* No restore is due to a chunk once all of them are completed.
LEMMA NoRestore ==
  ASSUME SInv, batch.restores = <<>>, NEW id \in Range(ChunkIds)
  PROVE  active[id].restore = {}
<1>1. Range(batch.restores) = {}
  BY DEF Range
<1>2. \A op \in active[id].restore : [id |-> id, op |-> op] \in Range(batch.restores)
  BY DEF SInv, RestorePart
<1> QED BY <1>1, <1>2

\* Nobody's hidden state is kept after a batch with chunks.
LEMMA ChunksHideNobody ==
  ASSUME EInv, ran, batch.prefill # <<>>
  PROVE  hiddenFor = {} /\ dev.copy.owner # Draft
BY DEF EInv, HiddenPart, DraftPart, Speculative

\* A chunk is completed.
LEMMA CompleteChunkKeeps ==
  ASSUME Known1, Known1', EInv, RunFrame, CompleteChunk
  PROVE  EInv'
<1>1. PICK c : c = Head(batch.prefill)
  OBVIOUS
<1>2. PICK id : id = c.id
  BY SMTT(30)
<1>3. /\ step = "complete" /\ batch.restores = <<>> /\ batch.saves = <<>>
      /\ batch.prefill # <<>> /\ batch' = [batch EXCEPT !.prefill = Tail(@)]
      /\ step' = Rest(batch') /\ extra' = extra
      /\ UNCHANGED <<refs, freePages, freeSlots, freeSnapshots, seqs, entries, older>>
  BY DEF CompleteChunk, cacheVars
<1>4. batch.prefill \in Seq(Chunk) /\ BatchType
  BY DEF Known1, SInv, BatchPart, BatchType
<1>5. c \in Range(batch.prefill) /\ Range(Tail(batch.prefill)) \subseteq Range(batch.prefill)
  BY <1>1, <1>3, <1>4, HeadInRange
<1>6. /\ id \in DOMAIN active /\ ~Decoding(id) /\ id \in BatchIds /\ ChunkTokens(id) = c.tokens
      /\ c.tokens \in Nat /\ id \in Range(ChunkIds)
  BY <1>2, <1>5, ChunkFacts DEF Known1
<1>7. active[id] \in Record
  BY <1>6, RequestFacts, SMTT(30) DEF Known1, SInv
<1> DEFINE prefilled == active[id].prefilled + c.tokens
<1>8. PICK phase \in {"DecodeReady", "PrefillReady"} :
        active' = [active EXCEPT ![id].prefilled = prefilled, ![id].phase = phase]
  BY <1>1, <1>2 DEF CompleteChunk
<1>9. /\ DOMAIN active' = DOMAIN active /\ \A j \in DOMAIN active : j # id => active'[j] = active[j]
      /\ active'[id] = [active[id] EXCEPT !.prefilled = prefilled, !.phase = phase]
  BY <1>6, <1>8
<1>10. /\ active'[id].prefilled = prefilled /\ active'[id].generated = active[id].generated
       /\ active'[id].phase = phase /\ active'[id].restore = active[id].restore
       /\ active[id].prefilled \in Nat /\ active[id].generated \in Nat
  BY <1>7, <1>9 DEF Record
<1>11. extra = 0 /\ accepted = 0 /\ accepted' = 0
  <2>1. ExtraPart /\ extra \in Nat
    BY DEF Known1, SInv, ExtraPart
  <2>2. extra = 0
    BY <1>3, <2>1 DEF ExtraPart
  <2> QED BY <2>2 DEF RunFrame
<1>12. hiddenFor' = {} /\ dev'.copy.owner # Draft
  BY <1>3, ChunksHideNobody DEF RunFrame, Remembers
<1>13. active'[id].generated = 0
  BY <1>6, <1>10 DEF EInv, GenPart
<1>14. Finishes(id)
  <2>1. step' \in {"idle", "complete"}
    BY <1>3 DEF Rest
  <2>2. Base(id)' = Base(id) + Added(id, accepted) /\ Base(id)' \in Nat
    BY <1>6, <1>10 DEF Base, Added
  <2>3. batch'.saves = <<>> /\ Range(batch'.prefill) \subseteq Range(batch.prefill)
    BY <1>3, <1>4, <1>5 DEF BatchType
  <2>4. active'[id].restore = {}
    BY <1>3, <1>6, <1>10, NoRestore DEF Known1
  <2>5. EntriesLost
    BY <1>3 DEF EntriesLost
  <2> QED BY <1>3, <1>6, <1>9, <1>10, <1>11, <2>1, <2>2, <2>3, <2>4, <2>5 DEF Finishes
<1>15. HiddenPart' /\ DraftPart'
  BY <1>12 DEF HiddenPart, DraftPart
<1>16. GenPart'
  <2> SUFFICES ASSUME NEW j \in DOMAIN active', ~Decoding(j)' PROVE active'[j].generated = 0
    BY DEF GenPart
  <2>1. CASE j = id
    BY <1>13, <2>1
  <2>2. CASE j # id
    BY <1>9, <2>2 DEF EInv, GenPart, Decoding
  <2> QED BY <2>1, <2>2
<1> QED BY <1>14, <1>15, <1>16, FinishKeeps

\* A decoded token is completed: what does not depend on whether the request
\* goes on.
DecodeDone(id) ==
  /\ step = "complete" /\ batch.restores = <<>> /\ batch.saves = <<>> /\ batch.prefill = <<>>
  /\ batch.decode # <<>> /\ batch.decode \in Seq(Ids) /\ id = Head(batch.decode)
  /\ batch' = [batch EXCEPT !.decode = Tail(@)] /\ BatchType
  /\ batch'.decode = Tail(batch.decode) /\ batch'.prefill = <<>> /\ batch'.saves = <<>>
  /\ step' = Rest(batch') /\ step' \in {"idle", "complete"}
  /\ extra' = 0 /\ accepted' = 0 /\ extra \in Nat
  /\ (step' = "complete" => accepted = 0)
  /\ (Speculative(id) => step' = "idle")
  /\ (\A h : Speculative(h) => h = id)
  /\ id \in DOMAIN active /\ id \in Ids /\ id \in BatchIds /\ Decoding(id)
  /\ active[id] \in Record /\ active[id].restore = {}

\* It is such a step.
LEMMA DecodeDoneIs ==
  ASSUME Known1, RunFrame, CompleteDecode, NEW id, id = Head(batch.decode)
  PROVE  DecodeDone(id)
<1>1. /\ step = "complete" /\ batch.restores = <<>> /\ batch.saves = <<>> /\ batch.prefill = <<>>
      /\ batch.decode # <<>> /\ batch' = [batch EXCEPT !.decode = Tail(@)]
      /\ step' = Rest(batch') /\ extra' = 0
  BY DEF CompleteDecode
<1>2. BatchType /\ batch.decode \in Seq(Ids)
  BY DEF Known1, SInv, BatchPart, BatchType
<1>3. /\ batch'.decode = Tail(batch.decode) /\ batch'.prefill = <<>> /\ batch'.saves = <<>>
  BY <1>1, <1>2 DEF BatchType
<1>4. id \in Range(batch.decode)
  BY <1>1, <1>2, HeadInRange
<1>5. /\ id \in DOMAIN active /\ id \in Ids /\ Decoding(id) /\ id \in BatchIds
      /\ active[id].phase = "DecodeInFlight"
  BY <1>4, DecodedFacts DEF Known1
<1>6. active[id] \in Record /\ active[id].restore = {}
  <2>1. Known(id)
    BY <1>5, RequestFacts DEF Known1, SInv
  <2> QED BY <1>5, <2>1 DEF Known
<1>7. step' \in {"idle", "complete"}
  BY <1>1 DEF Rest
<1>8. extra \in Nat /\ ExtraPart
  BY SchedulerAssumption DEF Known1, SInv, ExtraPart, SchedulerAssumption
<1>9. ASSUME NEW h, Speculative(h) PROVE h = id /\ step' = "idle"
  <2>1. batch.decode = <<h>>
    BY <1>9 DEF Speculative
  <2>2. Head(batch.decode) = h /\ Tail(batch.decode) = <<>>
    BY <2>1
  <2> QED BY <1>1, <1>3, <2>2 DEF Rest
<1>10. ASSUME step' = "complete" PROVE accepted = 0
  <2>1. batch'.decode # <<>>
    BY <1>1, <1>3, <1>10 DEF Rest
  <2>2. Len(batch.decode) # 1
    <3> SUFFICES ASSUME Len(batch.decode) = 1 PROVE FALSE
      OBVIOUS
    <3>1. Len(Tail(batch.decode)) = 0
      BY <1>1, <1>2, HeadTailProperties
    <3>2. Tail(batch.decode) \in Seq(Ids)
      BY <1>1, <1>2, HeadTailProperties
    <3> QED BY <1>3, <2>1, <3>1, <3>2, EmptySeq
  <2>3. ~(extra > 0)
    BY <1>8, <2>2 DEF ExtraPart
  <2>4. extra = 0
    BY <1>8, <2>3
  <2> QED BY <2>4 DEF RunFrame
<1>11. accepted' = 0
  <2>1. CASE step' = "idle"
    BY <2>1 DEF RunFrame
  <2>2. CASE step' = "complete"
    BY <1>10, <2>2 DEF RunFrame
  <2> QED BY <1>7, <2>1, <2>2
<1> QED BY <1>1, <1>2, <1>3, <1>5, <1>6, <1>7, <1>8, <1>9, <1>10, <1>11 DEF DecodeDone

\* The request ends.
DecodeEnds(id) == Release(id, {}) /\ Deactivate(id) /\ UNCHANGED decodeReady

\* The request goes on.
DecodeGoesOn(id) ==
  /\ Generated(id) < Request(id).maxNew
  /\ active' = [active EXCEPT ![id].generated = Generated(id), ![id].phase = "DecodeReady"]
  /\ decodeReady' = Append(decodeReady, id)
  /\ UNCHANGED <<cacheVars, committed>>

\* The rest of the batch is as it was.
LEMMA DecodeEndFinishes ==
  ASSUME Known1, Known1', RunFrame, NEW id, DecodeDone(id), DecodeEnds(id)
  PROVE  Finishes(id) /\ DOMAIN active' = DOMAIN active \ {id}
         /\ \A j \in DOMAIN active' : active'[j] = active[j]
<1>1. DOMAIN active' = DOMAIN active \ {id} /\ \A j \in DOMAIN active' : active'[j] = active[j]
  BY DEF DecodeEnds, Deactivate, Without
<1>2. DOMAIN seqs' = DOMAIN seqs \ {id} /\ \A j \in DOMAIN seqs' : seqs'[j] = seqs[j]
  BY ReleaseTokens DEF DecodeEnds
<1>3. DOMAIN seqs' = DOMAIN active'
  BY CacheFactsNext DEF Known1
<1>4. EntriesLost
  <2>1. entries' = Unpin({})
    BY DEF DecodeEnds, Release
  <2> QED BY <2>1, UnpinLoses DEF Known1
<1>5. \A j \in BatchIds' : accepted' = accepted
  <2> SUFFICES ASSUME NEW j \in BatchIds' PROVE accepted' = accepted
    OBVIOUS
  <2>1. step' # "idle"
    BY BatchPhasesNext DEF Known1
  <2> QED BY <2>1 DEF DecodeDone
<1>6. Range(batch'.prefill) \subseteq Range(batch.prefill)
  BY DEF DecodeDone, Range
<1> QED BY <1>1, <1>2, <1>3, <1>4, <1>5, <1>6 DEF Finishes, DecodeDone

\* Here too.
LEMMA DecodeOnFinishes ==
  ASSUME Known1, Known1', RunFrame, NEW id, DecodeDone(id), DecodeGoesOn(id)
  PROVE  Finishes(id) /\ DOMAIN active' = DOMAIN active
         /\ (\A j \in DOMAIN active : j # id => active'[j] = active[j])
         /\ active'[id].phase = "DecodeReady"
         /\ active[id].generated + 1 + accepted < Request(id).maxNew
<1>1. /\ id \in DOMAIN active /\ id \in Ids /\ active[id] \in Record /\ Decoding(id)
      /\ active[id].restore = {} /\ extra \in Nat /\ extra = accepted
  BY DEF DecodeDone, RunFrame
<1>2. PICK g : g = active[id].generated + 1 + extra
  OBVIOUS
<1>3. g \in Nat /\ active[id].generated \in Nat /\ active[id].prefilled \in Nat
  BY <1>1, <1>2 DEF Record
<1>4. Request(id).maxNew \in Nat
  BY <1>1, RequestFacts DEF Known1, SInv
<1>5. Generated(id) = g /\ g < Request(id).maxNew
  <2>1. Generated(id) = Min({g, Request(id).maxNew})
    BY <1>2 DEF Generated
  <2>2. g \in Int /\ Request(id).maxNew \in Int
    BY <1>3, <1>4
  <2>3. Min({g, Request(id).maxNew}) \in {g, Request(id).maxNew}
    BY <2>2, MinOfTwo, Zenon
  <2>4. Generated(id) < Request(id).maxNew
    BY DEF DecodeGoesOn
  <2>5. Generated(id) # Request(id).maxNew
    BY <2>2, <2>4
  <2> QED BY <2>1, <2>3, <2>4, <2>5
<1>6. active' = [active EXCEPT ![id].generated = g, ![id].phase = "DecodeReady"]
  BY <1>5 DEF DecodeGoesOn
<1>7. /\ DOMAIN active' = DOMAIN active /\ \A j \in DOMAIN active : j # id => active'[j] = active[j]
      /\ active'[id] = [active[id] EXCEPT !.generated = g, !.phase = "DecodeReady"]
  BY <1>1, <1>6
<1>8. /\ active'[id].generated = g /\ active'[id].phase = "DecodeReady"
      /\ active'[id].prefilled = active[id].prefilled /\ active'[id].restore = active[id].restore
  BY <1>1, <1>7 DEF Record
<1>9. Base(id)' = Base(id) + Added(id, accepted) /\ Base(id)' \in Nat
  <2>1. Base(id)' = active[id].prefilled + g
    BY <1>8 DEF Base
  <2>2. Base(id) + Added(id, accepted)
          = active[id].prefilled + active[id].generated + (1 + accepted)
    BY <1>1 DEF Base, Added
  <2> QED BY <1>1, <1>2, <1>3, <2>1, <2>2
<1>10. UNCHANGED <<seqs, entries>>
  BY DEF DecodeGoesOn, cacheVars
<1>11. \A j \in BatchIds' : accepted' = accepted
  <2> SUFFICES ASSUME NEW j \in BatchIds' PROVE accepted' = accepted
    OBVIOUS
  <2>1. step' # "idle"
    BY BatchPhasesNext DEF Known1
  <2> QED BY <2>1 DEF DecodeDone
<1>12. Range(batch'.prefill) \subseteq Range(batch.prefill)
  BY DEF DecodeDone, Range
<1>13. EntriesLost
  BY <1>10 DEF EntriesLost
<1>14. Decoding(id)'
  BY <1>8 DEF Decoding
<1>15. Finishes(id)
  BY <1>1, <1>7, <1>8, <1>9, <1>10, <1>11, <1>12, <1>13, <1>14 DEF Finishes, DecodeDone
<1> QED BY <1>1, <1>2, <1>5, <1>7, <1>8, <1>15

\* A decoded token is completed.
LEMMA CompleteDecodeKeeps ==
  ASSUME Known1, Known1', EInv, RunFrame, CompleteDecode
  PROVE  EInv'
<1>1. PICK id : id = Head(batch.decode)
  OBVIOUS
<1>2. DecodeDone(id)
  BY <1>1, DecodeDoneIs
<1>3. DecodeEnds(id) \/ DecodeGoesOn(id)
  BY <1>1 DEF CompleteDecode, DecodeEnds, DecodeGoesOn
<1>4. Finishes(id) /\ DOMAIN active' \subseteq DOMAIN active
      /\ \A j \in DOMAIN active' : j # id => active'[j] = active[j]
  BY <1>2, <1>3, DecodeEndFinishes, DecodeOnFinishes, Zenon
<1>5. id \in DOMAIN active' =>
        /\ active'[id].phase = "DecodeReady" /\ decodeReady' = Append(decodeReady, id)
        /\ active[id].generated + 1 + accepted < Request(id).maxNew
  <2>1. CASE DecodeEnds(id)
    BY <1>2, <2>1, DecodeEndFinishes
  <2>2. CASE DecodeGoesOn(id)
    BY <1>2, <2>2, DecodeOnFinishes DEF DecodeGoesOn
  <2> QED BY <1>3, <2>1, <2>2
<1>6. HiddenPart /\ DraftPart /\ GenPart
  BY DEF EInv
<1>7. ran /\ hiddenFor' = hiddenFor \cap DOMAIN active' /\ dev'.copy = dev.copy
  BY DEF RunFrame, Remembers
<1>8. \A h \in hiddenFor : h = id /\ step' = "idle" /\ ran' = FALSE
  <2> SUFFICES ASSUME NEW h \in hiddenFor PROVE h = id /\ step' = "idle" /\ ran' = FALSE
    OBVIOUS
  <2>1. Speculative(h)
    BY <1>6, <1>7 DEF HiddenPart
  <2> QED BY <1>2, <2>1 DEF DecodeDone, RunFrame
<1>9. HiddenPart'
  <2>1. ASSUME NEW h \in hiddenFor'
        PROVE  ran' = FALSE /\ decodeReady' # <<>> /\ Last(decodeReady') = h
    <3>1. h = id /\ id \in DOMAIN active' /\ ran' = FALSE
      BY <1>7, <1>8, <2>1
    <3>2. decodeReady' = Append(decodeReady, id)
      BY <1>5, <3>1
    <3>3. decodeReady \in Seq(Ids) /\ id \in Ids
      BY <1>2 DEF DecodeDone, Known1, SInv, QueuePart
    <3>4. /\ decodeReady' # <<>> /\ Len(decodeReady') = Len(decodeReady) + 1
          /\ decodeReady'[Len(decodeReady) + 1] = id
      BY <3>2, <3>3, AppendProperties
    <3> QED BY <3>1, <3>4 DEF Last
  <2>2. hiddenFor' \subseteq DOMAIN active' /\ \A i, j \in hiddenFor' : i = j
    BY <1>7, <1>8
  <2> QED BY <2>1, <2>2 DEF HiddenPart
<1>10. DraftPart'
  <2> SUFFICES ASSUME dev'.copy.owner = Draft PROVE DraftPart'
    BY DEF DraftPart
  <2>1. dev.copy.owner = Draft
    BY <1>7
  <2>2. Depth > 0
    BY <1>6, <2>1 DEF DraftPart
  <2>3. batch'.prefill = <<>>
    BY <1>2 DEF DecodeDone
  <2>4. ASSUME NEW j \in DOMAIN active', Decoding(j)'
        PROVE j \in hiddenFor' /\ dev'.copy.state = History(j, Reached(j))'
    <3>1. /\ Reached(j)' = Reached(j) /\ j \in DOMAIN active
          /\ (j # id => (Decoding(j)' <=> Decoding(j)))
      BY <1>4, <2>4, FinishReached
    <3>2. Decoding(id)
      BY <1>2 DEF DecodeDone
    <3>3. Decoding(j)
      BY <2>4, <3>1, <3>2
    <3>4. /\ j \in hiddenFor
          /\ \/ dev.copy.state = History(j, Reached(j))
             \/ accepted = 0 /\ active[j].generated + 1 = Request(j).maxNew
      <4>1. \A i \in DOMAIN active : Decoding(i) =>
              /\ i \in hiddenFor
              /\ \/ dev.copy.state = History(i, Reached(i))
                 \/ ran /\ accepted = 0 /\ active[i].generated + 1 = Request(i).maxNew
        BY <1>6, <2>1, Zenon DEF DraftPart
      <4> QED BY <3>1, <3>3, <4>1, Zenon
    <3>5. j = id
      BY <1>8, <3>4
    <3>6. ~(accepted = 0 /\ active[j].generated + 1 = Request(j).maxNew)
      <4>1. active[id].generated + 1 + accepted < Request(id).maxNew
        BY <1>5, <2>4, <3>5
      <4>2. active[id].generated \in Nat
        BY <1>2 DEF DecodeDone, Record
      <4>3. Request(id).maxNew \in Nat
        BY <3>1, <3>5, RequestFacts DEF Known1, SInv
      <4> QED BY <3>5, <4>1, <4>2, <4>3
    <3>7. dev.copy.state = History(j, Reached(j))
      BY <3>4, <3>6
    <3>8. dev'.copy.state = History(j, Reached(j))'
      BY <1>7, <3>1, <3>7 DEF History
    <3> QED BY <1>7, <2>4, <3>4, <3>8
  <2> QED BY <2>2, <2>3, <2>4 DEF DraftPart
<1>11. GenPart'
  <2> SUFFICES ASSUME NEW j \in DOMAIN active', ~Decoding(j)' PROVE active'[j].generated = 0
    BY DEF GenPart
  <2>1. j # id
    BY <1>5 DEF Decoding
  <2>2. j \in DOMAIN active /\ active'[j] = active[j]
    BY <1>4, <2>1
  <2> QED BY <1>6, <2>2 DEF GenPart, Decoding
<1> QED BY <1>4, <1>9, <1>10, <1>11, FinishKeeps

-----------------------------------------------------------------------------
(* A position that was reserved for a draft is given back.                 *)

\* What is left of the table of id after a rollback.
RolledBack(id) ==
  /\ DOMAIN seqs' = DOMAIN seqs /\ \A j \in DOMAIN seqs : j # id => seqs'[j] = seqs[j]
  /\ seqs'[id].slot = seqs[id].slot /\ entries' = entries
  /\ Range(seqs'[id].blocks) \subseteq Range(seqs[id].blocks)
  /\ \A n \in Nat : n <= seqs[id].tokens - 1 =>
       \A m \in 1..BlocksFor(n) : seqs'[id].blocks[m] = seqs[id].blocks[m]

\* Every page of what is left stays.
LEMMA RollbackLeaves ==
  ASSUME Known0, NEW id \in DOMAIN active, RollbackToken(id)
  PROVE  RolledBack(id)
<1>1. PICK blocks : blocks = seqs[id].blocks
  OBVIOUS
<1>2. PICK k : k = BlocksFor(seqs[id].tokens - 1)
  OBVIOUS
<1>3. /\ seqs[id].tokens \in Nat /\ blocks \in Seq(Pages) /\ id \in DOMAIN seqs
      /\ Len(blocks) = BlocksFor(seqs[id].tokens)
  BY <1>1, BaseFacts
<1>4. seqs[id].tokens - 1 \in Nat
  BY <1>3 DEF RollbackToken
<1>5. k \in Nat /\ k <= Len(blocks)
  <2>1. seqs[id].tokens - 1 <= seqs[id].tokens
    BY <1>3
  <2> QED BY <1>2, <1>3, <1>4, <2>1, BlocksForMonotonic
<1>6. PICK p : p = SubSeq(blocks, 1, k)
  OBVIOUS
<1>7. (\A m \in 1..k : p[m] = blocks[m]) /\ Range(p) \subseteq Range(blocks)
  BY <1>3, <1>5, <1>6, PrefixOfSeq
<1>8. seqs' = [seqs EXCEPT ![id].tokens = @ - 1, ![id].blocks = p] /\ entries' = entries
  BY <1>1, <1>2, <1>6 DEF RollbackToken
<1>9. seqs[id] \in [slot : Slots, blocks : Seq(Pages), tokens : Nat]
  BY <1>3, CacheFacts DEF Known0
<1>10. /\ DOMAIN seqs' = DOMAIN seqs /\ \A j \in DOMAIN seqs : j # id => seqs'[j] = seqs[j]
       /\ seqs'[id].slot = seqs[id].slot /\ seqs'[id].blocks = p
  BY <1>3, <1>8, <1>9, Zenon
<1>11. ASSUME NEW n \in Nat, n <= seqs[id].tokens - 1, NEW m \in 1..BlocksFor(n)
       PROVE seqs'[id].blocks[m] = seqs[id].blocks[m]
  <2>1. BlocksFor(n) \in Nat /\ BlocksFor(n) <= k
    BY <1>2, <1>4, <1>11, BlocksForMonotonic
  <2>2. m \in 1..k
    BY <1>5, <1>11, <2>1
  <2> QED BY <1>1, <1>7, <1>10, <2>2
<1> QED BY <1>1, <1>7, <1>8, <1>10, <1>11, Zenon DEF RolledBack

\* A draft that was rejected gives its position back.
LEMMA GiveBackKeeps ==
  ASSUME Known1, Known1', EInv, GiveBack
  PROVE  EInv'
<1>1. PICK id \in Ids : Speculative(id) /\ RollbackToken(id)
  BY DEF GiveBack, ReleaseExtra
<1>2. /\ step = "flight" /\ extra' = extra - 1 /\ ran /\ extra > accepted
      /\ active' = active /\ batch' = batch /\ step' = step /\ decodeReady' = decodeReady
      /\ dev' = dev /\ ran' = ran /\ accepted' = accepted /\ hiddenFor' = hiddenFor
  BY DEF GiveBack, ReleaseExtra, queueVars
<1>3. RunPart /\ HiddenPart /\ DraftPart /\ GenPart /\ SaveChunks /\ DevShape(dev)
  BY DEF EInv
<1>4. id \in DOMAIN active /\ active[id].phase = "DecodeInFlight" /\ extra \in Nat
  BY <1>1, SpeculativeFacts DEF Known1
<1>5. active[id].restore = {}
  <2>1. Known(id)
    BY <1>4, RequestFacts DEF Known1, SInv
  <2> QED BY <1>4, <2>1 DEF Known
<1>6. Known0
  BY <1>3 DEF Known0, Known1
<1>7. RolledBack(id)
  BY <1>1, <1>4, <1>6, RollbackLeaves
<1>8. /\ BatchIds' = BatchIds /\ \A j : Decoding(j)' <=> Decoding(j)
      /\ \A j, X, k : Count(j, X, k)' = Count(j, X, k)
  BY <1>2, BatchSame
<1>9. RunIds' = RunIds
  BY <1>2, <1>8 DEF RunIds
<1>10. \A j : Reached(j)' = Reached(j)
  BY <1>2, <1>8, <1>9 DEF Reached
<1>11. accepted \in Nat
  BY <1>3 DEF RunPart
<1>12. Reached(id) \in Nat /\ Reached(id) <= seqs[id].tokens - 1
  <2>1. /\ Base(id) + 1 + extra = seqs[id].tokens /\ Base(id) \in Nat /\ Decoding(id)
    BY <1>4, <1>6, BaseFacts DEF Decoding
  <2>2. Reached(id) = Base(id) \/ Reached(id) = Base(id) + (1 + accepted)
    BY <2>1 DEF Reached, Count, Added
  <2> QED BY <1>2, <1>4, <1>11, <2>1, <2>2
<1>13. RunPart'
  <2>1. extra' \in Nat /\ accepted' <= extra'
    BY <1>2, <1>4, <1>11
  <2>2. NoBatch' <=> NoBatch
    BY <1>2 DEF NoBatch
  <2> QED BY <1>2, <1>3, <1>11, <2>1, <2>2 DEF RunPart
<1>14. HiddenPart'
  BY <1>2, <1>3 DEF HiddenPart, Speculative
<1>15. DraftPart'
  <2> SUFFICES ASSUME dev'.copy.owner = Draft PROVE DraftPart'
    BY DEF DraftPart
  <2>1. /\ Depth > 0 /\ (ran => batch.prefill = <<>>)
        /\ \A i \in DOMAIN active : Decoding(i) =>
             /\ i \in hiddenFor
             /\ \/ dev.copy.state = History(i, Reached(i))
                \/ ran /\ accepted = 0 /\ active[i].generated + 1 = Request(i).maxNew
    BY <1>2, <1>3, Zenon DEF DraftPart
  <2>2. \A i \in DOMAIN active' : Decoding(i)' =>
          /\ i \in hiddenFor'
          /\ \/ dev'.copy.state = History(i, Reached(i)')
             \/ ran' /\ accepted' = 0 /\ active'[i].generated + 1 = Request(i).maxNew
    BY <1>2, <1>8, <1>10, <2>1, Zenon
  <2>3. ran' => batch'.prefill = <<>>
    BY <1>2, <2>1
  <2> QED BY <2>1, <2>2, <2>3 DEF DraftPart, History
<1>16. GenPart' /\ SaveChunks'
  BY <1>2, <1>3, <1>8 DEF GenPart, SaveChunks
<1>17. Remembers
  BY <1>2, <1>3, StayRemembers
<1>18. EntriesFrom /\ SavesFrom
  BY <1>2, <1>7, <1>9 DEF EntriesFrom, SavesFrom, RolledBack
<1>19. DOMAIN seqs = DOMAIN active
  BY CacheFacts DEF Known1
<1>20. TablesFrom
  <2> SUFFICES ASSUME NEW j \in DOMAIN active', NEW b \in Range(seqs'[j].blocks)
               PROVE  j \in DOMAIN active /\ b \in Range(seqs[j].blocks)
    BY DEF TablesFrom
  <2>1. CASE j = id
    BY <1>4, <1>7, <2>1 DEF RolledBack
  <2>2. CASE j # id
    BY <1>2, <1>7, <1>19, <2>2 DEF RolledBack
  <2> QED BY <2>1, <2>2
<1>21. \A j \in DOMAIN active' : Carried(j)
  <2> SUFFICES ASSUME NEW j \in DOMAIN active' PROVE Carried(j)
    OBVIOUS
  <2>1. j \in DOMAIN active /\ active'[j].restore = active[j].restore
    BY <1>2
  <2>2. /\ seqs'[j].slot = seqs[j].slot
        /\ \A m \in 1..BlocksFor(Reached(j)) : seqs'[j].blocks[m] = seqs[j].blocks[m]
    <3>1. CASE j = id
      BY <1>7, <1>12, <3>1 DEF RolledBack
    <3>2. CASE j # id
      BY <1>7, <1>19, <2>1, <3>2 DEF RolledBack
    <3> QED BY <3>1, <3>2
  <2> QED BY <1>8, <1>9, <1>10, <2>1, <2>2 DEF Carried
<1>22. \A j \in DOMAIN active' : active'[j].restore = {} \/ Waits(j)
  <2> SUFFICES ASSUME NEW j \in DOMAIN active' PROVE active'[j].restore = {} \/ Waits(j)
    OBVIOUS
  <2>1. CASE j = id
    BY <1>2, <1>5, <2>1
  <2>2. CASE j # id
    BY <1>2, <1>7, <1>19, <2>2 DEF RolledBack, Waits
  <2> QED BY <2>1, <2>2
<1>23. Fits0
  BY <1>13, <1>14, <1>15, <1>16, <1>17, <1>18, <1>20, <1>21, <1>22 DEF Fits0
<1> QED BY <1>23, StepKeeps

-----------------------------------------------------------------------------
(* The invariant holds in every state.                                     *)

\* Nothing is held at first.
LEMMA EngineStarts == EngineInit => EInv
<1> SUFFICES ASSUME EngineInit PROVE EInv
  OBVIOUS
<1>1. /\ decodeReady = <<>> /\ DOMAIN active = {} /\ batch = EmptyBatch /\ step = "idle"
      /\ extra = 0 /\ DOMAIN entries = {} /\ ran = FALSE /\ accepted = 0 /\ hiddenFor = {}
  BY DEF EngineInit, Init, CacheInit
<1>2. dev = [kv |-> [b \in Pages |-> [i \in 1..BlockSize |-> BlankCell]],
             slots |-> [x \in Slots \cup {Draft} |-> BlankState],
             snaps |-> [s \in Snapshots |-> BlankState],
             copy |-> [owner |-> Nobody, state |-> <<Unknown>>, rough |-> FALSE]]
  BY DEF EngineInit
<1>3. batch.saves = <<>> /\ Range(batch.saves) = {}
  BY <1>1 DEF EmptyBatch, Range
<1>4. RunPart
  <2>1. accepted \in Nat /\ accepted <= extra /\ extra = accepted /\ ~(extra > 0)
    <3>1. extra = 0 /\ accepted = 0
      BY <1>1
    <3> QED BY <3>1
  <2>3. ran \in BOOLEAN /\ ~ran
    <3>1. ran = FALSE
      BY <1>1
    <3> QED BY <3>1
  <2>2. step # "abort" /\ step # "flight" /\ step # "complete"
    BY <1>1
  <2> QED BY <1>1, <2>1, <2>2, <2>3, Zenon DEF RunPart
<1>5. /\ HiddenPart /\ GenPart /\ RestoresRight
      /\ EntriesIn(dev) /\ Right(dev, RunIds, accepted, RunIds)
  BY <1>1 DEF HiddenPart, GenPart, RestoresRight, EntriesIn, Right
<1>6. DraftPart
  BY <1>2, EngineAssumption DEF DraftPart, EngineAssumption
<1>7. SaveChunks /\ SavedIn(dev, RunIds)
  BY <1>3 DEF SaveChunks, SavedIn
<1>8. DevShape(dev)
  BY <1>2 DEF DevShape, StateShape, BlankState
<1> QED BY <1>4, <1>5, <1>6, <1>7, <1>8 DEF EInv

\* A step of the engine is one of the scheduler, or leaves it alone.
LEMMA EngineSchedules == [EngineNext]_engineVars => [Next]_vars
<1>1. Host => Next
  BY DEF Host, Next
<1>2. Clients => Next
  BY DEF Clients, Next
<1>3. Execute \/ Verify => UNCHANGED vars
  BY DEF Execute, Verify
<1>4. Prepare \/ GiveBack => Next
  BY DEF Prepare, GiveBack, Next
<1>5. UNCHANGED engineVars => UNCHANGED vars
  BY DEF engineVars
<1> QED BY <1>1, <1>2, <1>3, <1>4, <1>5 DEF EngineNext

\* Completing a batch keeps the invariant.
LEMMA CompletionKeeps ==
  ASSUME Known1, Known1', EInv, step \in {"flight", "complete"}, Host
  PROVE  EInv'
<1>1. RunFrame
  BY RunFrameIs
<1>2. Advance
  BY Zenon DEF Host
<1>3. BeginComplete \/ CompleteRestore \/ CompleteSave \/ CompleteChunk \/ CompleteDecode
  BY <1>2, Zenon
     DEF Advance, BeginBatch, PlanDecode, DecodePlanned, PlanChunk, BeginAdmission, AdmitMiss,
         AdmitMatch, PassOver, EndAdmission, EndBatch, AbortSave, AbortChunks, AbortDecode
<1> QED BY <1>1, <1>3, BeginCompleteKeeps, CompleteRestoreKeeps, CompleteSaveKeeps,
           CompleteChunkKeeps, CompleteDecodeKeeps

\* So does planning one.
LEMMA PlanningKeeps ==
  ASSUME Known1, Known1', RInv, EInv, step \notin {"flight", "complete"}, Host
  PROVE  EInv'
<1>1. PlanFrame
  BY PlanFrameIs
<1>2. step # "abort"
  BY DEF EInv, RunPart
<1>3. Advance
  BY Zenon DEF Host
<1>4. QuietAct \/ PlanDecode \/ PlanChunk \/ AdmitMiss \/ AdmitMatch
  BY <1>2, <1>3, Zenon
     DEF Advance, QuietAct, BeginComplete, CompleteRestore, CompleteSave, CompleteChunk,
         CompleteDecode, AbortSave, AbortChunks, AbortDecode
<1> QED BY <1>1, <1>4, QuietActKeeps, PlanDecodeKeeps, PlanChunkKeeps, AdmitMissKeeps,
           AdmitMatchKeeps

\* And what clients do between batches.
LEMMA ClientsKeep ==
  ASSUME Known1, Known1', EInv, Clients
  PROVE  EInv'
<1>1. step = "idle"
  BY DEF Clients
<1>2. PlanFrame
  BY <1>1, PlanFrameIs
<1>3. PICK id \in Ids : Submit(id) \/ CancelWaiting(id) \/ CancelActive(id)
  BY DEF Clients
<1>4. CASE Submit(id) \/ CancelWaiting(id)
  BY <1>1, <1>2, <1>4, QuietActKeeps DEF QuietAct
<1>5. CASE CancelActive(id)
  BY <1>1, <1>2, <1>5, CancelActiveKeeps
<1> QED BY <1>3, <1>4, <1>5

\* A step that changes nothing keeps it too.
LEMMA StayKeeps == ASSUME EInv, UNCHANGED engineVars PROVE EInv'
<1>1. /\ UNCHANGED <<vars, dev, ran, accepted, hiddenFor>>
      /\ UNCHANGED <<active, batch, step, extra, decodeReady, seqs, entries>>
  BY DEF engineVars, vars, queueVars, cacheVars
<1>2. /\ BatchIds' = BatchIds /\ \A j : Decoding(j)' <=> Decoding(j)
      /\ \A j, X, k : Count(j, X, k)' = Count(j, X, k)
  BY <1>1, BatchSame
<1>3. RunIds' = RunIds
  BY <1>1, <1>2 DEF RunIds
<1>4. \A j : Reached(j)' = Reached(j)
  BY <1>1, <1>2, <1>3 DEF Reached
<1>5. PICK X, k : X = RunIds /\ k = accepted
  OBVIOUS
<1>6. /\ Right(dev', X, k, X) => Right(dev, X, k, X)'
      /\ SavedIn(dev', X) => SavedIn(dev, X)'
      /\ EntriesIn(dev') => EntriesIn(dev)'
      /\ DevShape(dev') => DevShape(dev)'
      /\ GenPart => GenPart'
      /\ SaveChunks => SaveChunks'
      /\ RestoresRight => RestoresRight'
  BY <1>1, DeviceSame
<1>7. Right(dev, X, k, X)' /\ SavedIn(dev, X)' /\ EntriesIn(dev)' /\ DevShape(dev)'
      /\ GenPart' /\ SaveChunks' /\ RestoresRight'
  BY <1>1, <1>5, <1>6 DEF EInv
<1>8. Right(dev, RunIds, accepted, RunIds)' /\ SavedIn(dev, RunIds)'
  <2>1. X = RunIds' /\ k = accepted'
    BY <1>1, <1>3, <1>5
  <2> QED BY <1>7, <2>1 DEF Right, SavedIn
<1>9. /\ DraftDepth' = DraftDepth /\ (NoBatch' <=> NoBatch)
      /\ \A j : Speculative(j)' <=> Speculative(j)
  BY <1>1 DEF DraftDepth, NoBatch, Speculative
<1>10. RunPart'
  BY <1>1, <1>9 DEF EInv, RunPart
<1>11. HiddenPart'
  BY <1>1, <1>9 DEF EInv, HiddenPart
<1>12. DraftPart'
  BY <1>1, <1>2, <1>4, Zenon DEF EInv, DraftPart, History
<1> QED BY <1>7, <1>8, <1>10, <1>11, <1>12 DEF EInv

\* Every step keeps all that is known.
LEMMA EngineKeeps ==
  ASSUME Known1, RInv, EInv, [EngineNext]_engineVars
  PROVE  Known1' /\ RInv' /\ EInv'
<1>1. [Next]_vars
  BY EngineSchedules
<1>2. Known1'
  BY <1>1, KnownNext
<1>3. RInv'
  BY <1>1, ReserveStep DEF Known1
<1>4. Host => EInv'
  BY <1>2, CompletionKeeps, PlanningKeeps
<1>5. Clients => EInv'
  BY <1>2, ClientsKeep
<1>6. Execute \/ Verify => EInv'
  BY ExecuteKeeps, VerifyKeeps
<1>7. Prepare \/ GiveBack => EInv'
  BY <1>2, PrepareKeeps, GiveBackKeeps
<1>8. UNCHANGED engineVars => EInv'
  BY StayKeeps
<1>9. EInv'
  BY <1>4, <1>5, <1>6, <1>7, <1>8 DEF EngineNext
<1> QED BY <1>2, <1>3, <1>9

\* The device, the batch and the requests agree in every state, whatever is
\* admitted, planned, drafted, completed and cancelled.
THEOREM EngineInvariant == EngineSpec => [](Known1 /\ RInv /\ EInv)
<1>1. EngineInit => Known1 /\ RInv /\ EInv
  <2>1. EngineInit => Init
    BY DEF EngineInit
  <2> QED BY <2>1, EngineStarts, SchedulerStarts, CacheStartsRight, ReservationStarts DEF Known1
<1>2. Known1 /\ RInv /\ EInv /\ [EngineNext]_engineVars => (Known1 /\ RInv /\ EInv)'
  BY EngineKeeps
<1> QED BY <1>1, <1>2, PTL DEF EngineSpec

-----------------------------------------------------------------------------
(* The properties.                                                         *)

\* The tokens of a request in the caches are those the property counts.
LEMMA ComputedReached ==
  ASSUME Known1, GenPart, NEW id \in DOMAIN active
  PROVE  Computed(id) = Reached(id) /\ (InRun(id) <=> id \in RunIds)
<1>1. InRun(id) <=> id \in RunIds
  BY DEF InRun, RunIds, BatchIds
<1>2. Known0
  BY DEF Known0, Known1
<1>3. CASE Decoding(id)
  <2>1. Base(id) = PromptLen(id) + active[id].generated /\ Base(id) \in Nat
    BY <1>2, <1>3, BaseFacts
  <2> QED BY <1>1, <1>3, <2>1 DEF Computed, Reached, Count, Added, Decoding
<1>4. CASE ~Decoding(id)
  <2>1. Base(id) = active[id].prefilled
    BY <1>2, <1>4, BaseFacts
  <2> QED BY <1>1, <1>4, <2>1 DEF Computed, Reached, Count, Added, Decoding, ChunkTokens
<1> QED BY <1>1, <1>3, <1>4

\* The table a restore leads to is that of its snapshot, as far as the prefix goes.
LEMMA RestoredTable ==
  ASSUME Known1, EInv, NEW id \in DOMAIN active, NEW r \in active[id].restore,
         NEW s, s = r.snapshot, NEW n, n = active[id].prefilled
  PROVE  /\ s \in DOMAIN entries /\ entries[s].tokens = SubSeq(Request(id).prompt, 1, n)
         /\ \A m \in 1..BlocksFor(n) : m \in DOMAIN seqs[id].blocks =>
              TableAfter(id, r)[m] = entries[s].blocks[m]
<1>1. RestoreRight(id, r) /\ HeldFacts
  BY NotFree DEF EInv, RestoresRight, Known1
<1>2. s \in DOMAIN entries /\ entries[s].tokens = SubSeq(Request(id).prompt, 1, n)
  BY <1>1 DEF RestoreRight
<1>3. ASSUME NEW m \in 1..BlocksFor(n), m \in DOMAIN seqs[id].blocks
      PROVE TableAfter(id, r)[m] = entries[s].blocks[m]
  <2>1. PICK a, b : a = seqs[id].blocks[m] /\ b = entries[s].blocks[m]
    OBVIOUS
  <2>0. PICK x : x = CHOOSE c \in r.copy : TRUE
    OBVIOUS
  <2>2. TableAfter(id, r)[m] = IF \E c \in r.copy : c[2] = a THEN x[1] ELSE a
    BY <1>3, <2>0, <2>1 DEF TableAfter
  <2>3. a = b \/ r.copy = {<<b, a>>}
    BY <1>1, <2>1 DEF RestoreRight
  <2>4. CASE r.copy = {<<b, a>>}
    <3>1. x = <<b, a>> /\ \E c \in r.copy : c[2] = a
      BY <2>0, <2>4
    <3>2. x[1] = b
      BY <3>1
    <3> QED BY <2>1, <2>2, <3>1, <3>2, Zenon
  <2>5. CASE a = b
    <3>1. ~\E c \in r.copy : c[2] = a
      <4> SUFFICES ASSUME NEW c \in r.copy, c[2] = a PROVE FALSE
        OBVIOUS
      <4>1. OwnPage(id, a)
        BY <1>1 DEF RestoreRight
      <4>2. b \notin Range(entries[s].blocks)
        BY <1>2, <2>5, <4>1 DEF OwnPage
      <4>3. m \in DOMAIN entries[s].blocks
        <5>1. /\ entries[s].blocks \in Seq(Pages)
              /\ Len(entries[s].blocks) = BlocksFor(Len(entries[s].tokens))
          BY <1>1, <1>2 DEF HeldFacts
        <5>2. Len(entries[s].tokens) = n
          <6>1. id \in Ids /\ n \in Nat /\ n <= PromptLen(id)
            BY RequestFacts DEF Known1, SInv, Known
          <6>2. AnySeq(Request(id).prompt)
            BY <6>1, WholeFacts
          <6>3. PromptLen(id) \in Nat
            BY <6>1, WholeFacts
          <6> QED BY <1>2, <6>1, <6>3 DEF PromptLen
        <5>3. DOMAIN entries[s].blocks = 1..Len(entries[s].blocks)
          BY <5>1, LenProperties
        <5> QED BY <1>3, <5>1, <5>2, <5>3
      <4> QED BY <2>1, <4>2, <4>3 DEF Range
    <3> QED BY <2>2, <2>1, <2>5, <3>1
  <2> QED BY <2>3, <2>4, <2>5
<1> QED BY <1>2, <1>3

\* What the invariant says is what the property asks for.
LEMMA OneIsRead ==
  ASSUME Known1, EInv, NEW id \in DOMAIN active, NEW h, h = History(id, Computed(id)), h # <<>>,
         NEW due, due = IF InRun(id) THEN {} ELSE active[id].restore
  PROVE  /\ due = {} => IsState(dev.slots[seqs[id].slot], h) /\ HoldsIn(dev.kv, seqs[id].blocks, h)
         /\ \A r \in due :
              IsState(dev.snaps[r.snapshot], h) /\ HoldsIn(dev.kv, TableAfter(id, r), h)
<1>1. /\ RunPart /\ GenPart /\ RestoresRight
      /\ Right(dev, RunIds, accepted, RunIds) /\ EntriesIn(dev)
  BY DEF EInv
<1>2. PICK n : n = Reached(id)
  OBVIOUS
<1>0. h = History(id, n)
  BY <1>1, <1>2, ComputedReached
<1>3. InRun(id) <=> id \in RunIds
  BY <1>1, ComputedReached
<1>4. /\ id \in Ids /\ n \in Nat /\ n <= Total(id) /\ BlocksFor(n) <= Len(seqs[id].blocks)
  BY <1>1, <1>2, ReachedFacts DEF ReachedRight
<1>5. Total(id) \in Nat /\ PromptLen(id) \in Nat
  BY <1>4, WholeFacts
<1>6. /\ AnySeq(h) /\ Len(h) = n /\ n > 0
      /\ n <= PromptLen(id) => h = SubSeq(Request(id).prompt, 1, n)
  <2>1. n \in 0..Total(id)
    BY <1>4, <1>5
  <2>2. /\ AnySeq(History(id, n)) /\ Len(History(id, n)) = n
        /\ n = 0 => History(id, n) = <<>>
        /\ n <= PromptLen(id) => History(id, n) = SubSeq(Request(id).prompt, 1, n)
    BY <1>4, <2>1, HistoryFacts
  <2>3. n # 0
    BY <1>0, <2>2
  <2>4. n > 0
    BY <1>4, <2>3
  <2> QED BY <1>0, <2>2, <2>4
<1>7. RightOf(dev, id, n, RunIds, RunIds)
  BY <1>1, <1>2 DEF Right, Reached
<1>8. ASSUME due = {}
      PROVE  IsState(dev.slots[seqs[id].slot], h) /\ HoldsIn(dev.kv, seqs[id].blocks, h)
  <2>1. active[id].restore = {} \/ id \in RunIds
    BY <1>3, <1>8
  <2>2. Held(dev, id, n) /\ StateRight(dev, id, n)
    BY <1>6, <1>7, <2>1 DEF RightOf
  <2> QED BY <1>0, <2>2 DEF Held, StateRight
<1>9. ASSUME NEW r \in due
      PROVE  IsState(dev.snaps[r.snapshot], h) /\ HoldsIn(dev.kv, TableAfter(id, r), h)
  <2>1. id \notin RunIds /\ r \in active[id].restore
    BY <1>3, <1>9
  <2>2. PICK s : s = r.snapshot
    OBVIOUS
  <2>3. n = active[id].prefilled /\ n <= PromptLen(id)
    <3>1. Known(id) /\ active[id].prefilled \in Nat
      BY RequestFacts DEF Known1, SInv
    <3>2. ~Decoding(id) /\ active[id].prefilled <= PromptLen(id)
      BY <2>1, <3>1 DEF Known, Decoding
    <3>3. Known0
      BY <1>1 DEF Known0, Known1
    <3>4. Base(id) = active[id].prefilled
      BY <3>2, <3>3, BaseFacts
    <3> QED BY <1>2, <2>1, <3>1, <3>2, <3>4 DEF Reached, Count
  <2>4. /\ s \in DOMAIN entries /\ entries[s].tokens = h
        /\ \A m \in 1..BlocksFor(n) : m \in DOMAIN seqs[id].blocks =>
             TableAfter(id, r)[m] = entries[s].blocks[m]
    <3>1. r \in active[id].restore /\ n = active[id].prefilled
      BY <2>1, <2>3
    <3>2. /\ s \in DOMAIN entries /\ entries[s].tokens = SubSeq(Request(id).prompt, 1, n)
          /\ \A m \in 1..BlocksFor(n) : m \in DOMAIN seqs[id].blocks =>
               TableAfter(id, r)[m] = entries[s].blocks[m]
      BY <2>2, <3>1, RestoredTable
    <3> QED BY <1>6, <2>3, <3>2
  <2>5. IsState(dev.snaps[s], h) /\ HoldsIn(dev.kv, entries[s].blocks, h)
    BY <1>1, <2>4, SMTT(30) DEF EntriesIn, EntryIn
  <2>6. HoldsIn(dev.kv, TableAfter(id, r), h)
    <3> SUFFICES ASSUME NEW p \in 1..n
                 PROVE  dev.kv[TableAfter(id, r)[PageOf(p)]][CellOf(p)] = SubSeq(h, 1, p)
      BY <1>6 DEF HoldsIn
    <3>1. PICK m : m = PageOf(p)
      OBVIOUS
    <3>2. m \in 1..BlocksFor(n) /\ BlocksFor(n) \in Nat
      BY <1>4, <3>1, PlaceInTable
    <3>3. m \in DOMAIN seqs[id].blocks
      <4>1. seqs[id].blocks \in Seq(Pages)
        BY NotFree DEF Known1, HeldFacts
      <4>2. DOMAIN seqs[id].blocks = 1..Len(seqs[id].blocks) /\ Len(seqs[id].blocks) \in Nat
        BY <4>1, LenProperties
      <4> QED BY <1>4, <3>2, <4>2
    <3>4. TableAfter(id, r)[m] = entries[s].blocks[m]
      BY <2>4, <3>2, <3>3
    <3>5. dev.kv[entries[s].blocks[m]][CellOf(p)] = SubSeq(h, 1, p)
      BY <1>6, <2>5, <3>1 DEF HoldsIn
    <3> QED BY <3>1, <3>4, <3>5
  <2> QED BY <2>2, <2>5, <2>6
<1> QED BY <1>8, <1>9

\* So it holds.
LEMMA HistoryIsRead == ASSUME Known1, EInv PROVE HistoryRead
<1> SUFFICES ASSUME NEW id \in DOMAIN active, NEW h, h = History(id, Computed(id)), h # <<>>,
                    NEW due, due = IF InRun(id) THEN {} ELSE active[id].restore
             PROVE  IF due = {}
                    THEN /\ dev.slots[seqs[id].slot].state = h /\ dev.slots[seqs[id].slot].conv = h
                         /\ Holds(seqs[id].blocks, h)
                    ELSE \A r \in due : /\ dev.snaps[r.snapshot].state = h
                                        /\ dev.snaps[r.snapshot].conv = h
                                        /\ Holds(TableAfter(id, r), h)
  BY Zenon DEF HistoryRead
<1>1. /\ due = {} => IsState(dev.slots[seqs[id].slot], h) /\ HoldsIn(dev.kv, seqs[id].blocks, h)
      /\ \A r \in due : IsState(dev.snaps[r.snapshot], h) /\ HoldsIn(dev.kv, TableAfter(id, r), h)
  BY OneIsRead
<1> QED BY <1>1, Zenon DEF IsState, HoldsIn, Holds

\* The buffers have their shape.
LEMMA EngineTypeRight == ASSUME Known1, EInv PROVE EngineTypeOK
<1>1. RunPart /\ HiddenPart /\ DevShape(dev) /\ extra \in 0..Depth /\ Depth \in Nat
  BY SchedulerAssumption DEF EInv, Known1, SInv, ExtraPart, SchedulerAssumption
<1>2. accepted \in 0..Depth /\ ran \in BOOLEAN
  BY <1>1 DEF RunPart
<1>3. hiddenFor \subseteq DOMAIN active /\ Cardinality(hiddenFor) <= 1
  <2>1. hiddenFor \subseteq DOMAIN active /\ \A i, j \in hiddenFor : i = j
    BY <1>1 DEF HiddenPart
  <2>2. hiddenFor = {} \/ \E i \in hiddenFor : hiddenFor = {i}
    BY <2>1
  <2>3. CASE hiddenFor = {}
    BY <2>1, <2>3, FS_EmptySet
  <2>4. CASE \E i \in hiddenFor : hiddenFor = {i}
    BY <2>1, <2>4, FS_Singleton
  <2> QED BY <2>2, <2>3, <2>4
<1>4. /\ DOMAIN dev.kv = Pages /\ DOMAIN dev.slots = Slots \cup {Draft}
      /\ DOMAIN dev.snaps \subseteq Snapshots /\ dev.copy.owner \in Slots \cup {Draft, Nobody}
  BY <1>1 DEF DevShape
<1> QED BY <1>2, <1>3, <1>4 DEF EngineTypeOK

\* However prompts are cut into chunks, pages shared, copied, evicted and
\* passed on, snapshots saved and restored, the working copy kept for a slot,
\* and drafts accepted and rejected: every request reads the states and the KV
\* cells that were computed from its own tokens, in every state.
THEOREM ContextAlwaysIntact == EngineSpec => []ContextIntact
<1>1. Known1 /\ RInv /\ EInv => ContextIntact
  BY HistoryIsRead, EngineTypeRight DEF ContextIntact
<1> QED BY <1>1, EngineInvariant, PTL

\* And a cached prefix stays the one it is filed under, whatever the request it
\* was taken of and those that share its pages go on to write.
THEOREM EntriesAlwaysIntact == EngineSpec => []EntriesIntact
<1>1. Known1 /\ RInv /\ EInv => EntriesIntact
  BY DEF EInv, EntriesIn, EntryIn, IsState, HoldsIn, EntriesIntact, Holds
<1> QED BY <1>1, EngineInvariant, PTL

=============================================================================
