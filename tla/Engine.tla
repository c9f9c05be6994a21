------------------------------- MODULE Engine -------------------------------
(***************************************************************************)
(* The worker's loop over the scheduler and the executor:                  *)
(* run_worker in crates/qwc-engine/src/bin/serve.rs and what               *)
(* crates/qwc-engine/src/executor.rs does to the device's memory.          *)
(*                                                                         *)
(* A KV cell, a recurrent state and a convolution history are each modelled *)
(* by the history of tokens they were computed from.  What a free page,    *)
(* slot or snapshot still contains counts as unknown.  All layers go       *)
(* through the same copies, so one layer stands for all of them.           *)
(***************************************************************************)
EXTENDS Scheduler

CONSTANTS
  Sampled,   \* the token the main model samples, whichever it is
  Rejected,  \* a draft the main model does not agree with
  Unknown,   \* what is found in memory nobody has written
  Draft,     \* Executor::speculation_slot, the state slot drafts run on
  Nobody     \* work_owner is None

ASSUME EngineAssumption ==
  /\ Sampled # Rejected
  /\ Unknown \notin UNION {Range(Request(id).prompt) : id \in Ids} \cup {Sampled, Rejected}
  /\ Draft \notin Slots /\ Nobody \notin Slots \cup {Draft}

VARIABLES
  dev,        \* [kv, slots, snaps, copy]: the executor's buffers
  ran,        \* whether the batch in flight has been executed
  accepted,   \* drafts the verification accepted
  hiddenFor   \* hidden_for of run_worker: {id}, or {} for None

engineVars == <<vars, dev, ran, accepted, hiddenFor>>

\* A cell nobody has written, and a state nobody has.
BlankCell == <<Unknown>>
BlankState == [state |-> <<Unknown>>, conv |-> <<Unknown>>, rough |-> FALSE]

\* `rough`: a chunk of the prompt started from the 8 bits of a resting slot.
EngineInit ==
  /\ Init
  /\ dev = [kv |-> [b \in Pages |-> [i \in 1..BlockSize |-> BlankCell]],
            slots |-> [x \in Slots \cup {Draft} |-> BlankState],
            snaps |-> [s \in Snapshots |-> BlankState],
            copy |-> [owner |-> Nobody, state |-> <<Unknown>>, rough |-> FALSE]]
  /\ ran = FALSE
  /\ accepted = 0
  /\ hiddenFor = {}

\* Place p of a sequence, counted from 1, is cell CellOf(p) of page PageOf(p).
PageOf(p) == BlocksFor(p)
CellOf(p) == ((p - 1) % BlockSize) + 1

\* The cells of a table after `offset` are filled with what rows holds.
Written(kv, table, offset, rows) ==
  [b \in Pages |-> [i \in 1..BlockSize |->
     LET here == {r \in DOMAIN rows : table[PageOf(offset + r)] = b /\ CellOf(offset + r) = i}
     IN  IF here = {} THEN kv[b][i] ELSE rows[Max(here)]]]

-----------------------------------------------------------------------------
(* A scan: some tokens of one sequence go through the model.               *)

\* The state a scan starts from: a snapshot that is restored, the working copy
\* if it holds this slot, or else the slot itself, unpacked from its 8 bits.
ScanStart(d, slot, offset, restored) ==
  IF restored # {}
  THEN LET s == CHOOSE s \in restored : TRUE
       IN  [state |-> d.snaps[s].state, rough |-> d.snaps[s].rough]
  ELSE IF d.copy.owner = slot
  THEN [state |-> d.copy.state, rough |-> d.copy.rough]
  ELSE [state |-> d.slots[slot].state, rough |-> d.slots[slot].rough \/ offset > 0]

\* The convolution has its history in the slot, or in the snapshot.
ConvStart(d, slot, restored) ==
  IF restored # {} THEN d.snaps[CHOOSE s \in restored : TRUE].conv ELSE d.slots[slot].conv

\* Mutant of Captured: the snapshot is taken of the slot before the scan.
CapturedBefore(d, slot, after, saved) ==
  [s \in Snapshots |-> IF s \in saved THEN d.slots[slot] ELSE d.snaps[s]]

\* The snapshots after a scan that ended in the state `after`.
Captured(d, slot, after, saved) ==
  [s \in Snapshots |-> IF s \in saved THEN after ELSE d.snaps[s]]

Scan(d, slot, table, offset, tokens, restored, saved) ==
  LET start == ScanStart(d, slot, offset, restored)
      after == [state |-> start.state \o tokens,
                conv |-> ConvStart(d, slot, restored) \o tokens,
                rough |-> start.rough]
  IN  [kv |-> Written(d.kv, table, offset,
                      [r \in DOMAIN tokens |-> start.state \o SubSeq(tokens, 1, r)]),
       slots |-> [d.slots EXCEPT ![slot] = after],
       snaps |-> Captured(d, slot, after, saved),
       copy |-> [owner |-> slot, state |-> after.state, rough |-> after.rough]]

ScanChunk(d, chunk) ==
  LET id == chunk.id
      of(ops) == {op \in Range(ops) : op.id = id}
  IN  Scan(d, seqs[id].slot, seqs[id].blocks, chunk.offset,
           SubSeq(Request(id).prompt, chunk.offset + 1, chunk.offset + chunk.tokens),
           {r.op.snapshot : r \in of(batch.restores)},
           {s.snapshot : s \in of(batch.saves)})

\* Decode runs on the slots themselves, and leaves the working copy alone.
DecodeRow(d, id) ==
  LET slot == seqs[id].slot
      after == [d.slots[slot] EXCEPT !.state = Append(@, Sampled),
                                     !.conv = Append(@, Sampled)]
  IN  [d EXCEPT !.kv = Written(@, seqs[id].blocks, seqs[id].tokens - 1, <<after.state>>),
                !.slots[slot] = after]

-----------------------------------------------------------------------------
(* execute_layout, after apply_prefix_ops.                                 *)

\* copy_kv_block for every restore that ends inside a page.
CopyBlocks(d) ==
  LET copies == UNION {r.op.copy : r \in Range(batch.restores)}
  IN  [d EXCEPT !.kv = [b \in Pages |->
         IF \E c \in copies : c[2] = b
         THEN d.kv[(CHOOSE c \in copies : c[2] = b)[1]]
         ELSE d.kv[b]]]

\* The slots whose sequences start from nothing in this batch.
FreshSlots ==
  {seqs[c.id].slot : c \in {c \in Range(batch.prefill) : c.offset = 0}}

ZeroState == [state |-> <<>>, conv |-> <<>>, rough |-> FALSE]

\* Mutant of ResetSlots: the working copy still passes for the slot's state.
ResetKeepsOwner(d) ==
  [d EXCEPT !.slots = [x \in DOMAIN d.slots |->
                         IF x \in FreshSlots THEN ZeroState ELSE d.slots[x]]]

\* reset_slot for each of them.
ResetSlots(d) ==
  [d EXCEPT !.slots = [x \in DOMAIN d.slots |->
                         IF x \in FreshSlots THEN ZeroState ELSE d.slots[x]],
            !.copy.owner = IF @ \in FreshSlots THEN Nobody ELSE @]

\* How many tokens to draft: none but for the sequence whose hidden state the
\* head has, and never past the end of the request.
DraftDepth ==
  IF \E id \in hiddenFor : Speculative(id)
  THEN Min({Depth} \cup {Request(id).maxNew - active[id].generated - 1 : id \in hiddenFor})
  ELSE 0

\* Mutant of HiddenAfter: whoever was decoded first keeps the hidden state.
HiddenOfAll == Range(batch.decode)

\* The sequence whose hidden state is copied to the head after a batch.
HiddenAfter == {id \in Range(batch.decode) : Speculative(id)}

Execute ==
  /\ step = "flight" /\ ~ran /\ DraftDepth = 0
  /\ dev' = FoldLeft(ScanChunk,
                     FoldLeft(DecodeRow, ResetSlots(CopyBlocks(dev)), batch.decode),
                     batch.prefill)
  /\ ran' = TRUE
  /\ hiddenFor' = HiddenAfter
  /\ UNCHANGED <<vars, accepted>>

-----------------------------------------------------------------------------
(* speculative_step: reserve, verify, commit, give back.                   *)

Prepare ==
  /\ ~ran /\ extra < DraftDepth
  /\ ReserveExtra
  /\ UNCHANGED <<dev, ran, accepted, hiddenFor>>

\* verify_speculation: the rows run on a copy of the state in the draft slot.
Verified(id, rows) ==
  LET slot == seqs[id].slot
  IN  Scan([dev EXCEPT !.slots[Draft] = dev.slots[slot]], Draft, seqs[id].blocks,
           PromptLen(id) + active[id].generated, rows, {}, {})

\* commit_speculation: the draft's state if all its rows were accepted, or
\* else the accepted rows again, on the sequence's own state.
Committed(d, slot, rows, kept) ==
  LET after == [d.slots[slot] EXCEPT !.state = @ \o SubSeq(rows, 1, kept),
                                     !.conv = @ \o SubSeq(rows, 1, kept)]
  IN  IF kept = Len(rows)
      THEN [d EXCEPT !.slots[slot] = d.slots[Draft]]
      ELSE [d EXCEPT !.slots[slot] = after,
                     !.copy = [owner |-> slot, state |-> after.state, rough |-> after.rough]]

\* Mutant of Verify: the hidden state counts as used up, so that a regular step
\* comes between two speculative ones.  The working copy, which still passes
\* for the draft slot's state, is then one token behind.
VerifyUsesHidden ==
  /\ step = "flight" /\ ~ran /\ extra > 0 /\ extra = DraftDepth
  /\ \E id \in hiddenFor, n \in 0..extra :
       LET rows == [i \in 1..(1 + extra) |-> IF i <= 1 + n THEN Sampled ELSE Rejected]
       IN  /\ dev' = Committed(Verified(id, rows), seqs[id].slot, rows, 1 + n)
           /\ accepted' = n
  /\ ran' = TRUE
  /\ hiddenFor' = {}
  /\ UNCHANGED vars

Verify ==
  /\ step = "flight" /\ ~ran /\ extra > 0 /\ extra = DraftDepth
  /\ \E id \in hiddenFor, n \in 0..extra :
       LET rows == [i \in 1..(1 + extra) |-> IF i <= 1 + n THEN Sampled ELSE Rejected]
       IN  /\ dev' = Committed(Verified(id, rows), seqs[id].slot, rows, 1 + n)
           /\ accepted' = n
  /\ ran' = TRUE
  /\ UNCHANGED <<vars, hiddenFor>>

GiveBack ==
  /\ ran /\ extra > accepted
  /\ ReleaseExtra
  /\ UNCHANGED <<dev, ran, accepted, hiddenFor>>

-----------------------------------------------------------------------------
(* The worker's loop.                                                      *)

\* What the host gives up is unknown from then on.  A number that has left is
\* not given out again: nobody matches a hidden_for that still names it.
Forget ==
  /\ dev' = [dev EXCEPT
       !.kv = [b \in Pages |->
                 IF b \in freePages' THEN [i \in 1..BlockSize |-> BlankCell] ELSE @[b]],
       !.slots = [x \in DOMAIN dev.slots |-> IF x \in freeSlots' THEN BlankState ELSE @[x]],
       !.snaps = [s \in Snapshots |-> IF s \in freeSnapshots' THEN BlankState ELSE @[s]]]
  /\ hiddenFor' = hiddenFor \cap DOMAIN active'

\* Planning, and completion of a batch that has run.
Host ==
  /\ step = "flight" => ran /\ extra = accepted
  /\ Advance
  /\ Forget
  /\ ran' = (ran /\ step' # "idle")
  /\ accepted' = IF step' = "idle" THEN 0 ELSE accepted

\* Commands and disconnects are looked at between batches.
Clients ==
  /\ step = "idle"
  /\ \E id \in Ids : Submit(id) \/ CancelWaiting(id) \/ CancelActive(id)
  /\ Forget
  /\ UNCHANGED <<ran, accepted>>

EngineNext == Host \/ Clients \/ Execute \/ Prepare \/ Verify \/ GiveBack

EngineSpec == EngineInit /\ [][EngineNext]_engineVars

-----------------------------------------------------------------------------
(* Properties.                                                             *)

EngineTypeOK ==
  /\ DOMAIN dev.kv = Pages /\ DOMAIN dev.slots = Slots \cup {Draft}
  /\ DOMAIN dev.snaps \subseteq Snapshots
  /\ dev.copy.owner \in Slots \cup {Draft, Nobody}
  /\ ran \in BOOLEAN
  /\ accepted \in 0..Depth
  /\ hiddenFor \subseteq DOMAIN active /\ Cardinality(hiddenFor) <= 1

\* The history of a request once n tokens of it are in the caches.
History(id, n) ==
  SubSeq(Request(id).prompt \o [i \in 1..Request(id).maxNew |-> Sampled], 1, n)

InRun(id) == ran /\ InBatch(id)

\* How many tokens that is.
Computed(id) ==
  IF active[id].phase \in {"DecodeReady", "DecodeInFlight"}
  THEN PromptLen(id) + active[id].generated + (IF InRun(id) THEN 1 + accepted ELSE 0)
  ELSE active[id].prefilled
       + (IF InRun(id) THEN LET i == CHOOSE i \in DOMAIN batch.prefill : batch.prefill[i].id = id
                            IN  batch.prefill[i].tokens
                       ELSE 0)

\* The cells of a table hold the history h.
Holds(table, h) ==
  \A p \in 1..Len(h) : dev.kv[table[PageOf(p)]][CellOf(p)] = SubSeq(h, 1, p)

\* The table of id as it will be once a due restore has copied its page.
TableAfter(id, r) ==
  [m \in DOMAIN seqs[id].blocks |->
     IF \E c \in r.copy : c[2] = seqs[id].blocks[m]
     THEN (CHOOSE c \in r.copy : TRUE)[1]
     ELSE seqs[id].blocks[m]]

\* What a sequence reads is its own history: its recurrent state, its
\* convolution and every KV cell it attends to were computed from the very
\* tokens it consists of; or, while a restore is due, the snapshot and the
\* pages it will be restored from were.  Chunks, shared and copied pages, slots
\* passed on, the working copy and its owner, and accepted and rejected drafts
\* all have to agree for that.
HistoryRead ==
  \A id \in DOMAIN active :
    LET h == History(id, Computed(id))
        due == IF InRun(id) THEN {} ELSE active[id].restore
        slot == dev.slots[seqs[id].slot]
    IN  h # <<>> =>
          IF due = {}
          THEN slot.state = h /\ slot.conv = h /\ Holds(seqs[id].blocks, h)
          ELSE \A r \in due : /\ dev.snaps[r.snapshot].state = h
                              /\ dev.snaps[r.snapshot].conv = h
                              /\ Holds(TableAfter(id, r), h)

\* The executor's buffers have their shape and hold every sequence's own history.
ContextIntact == EngineTypeOK /\ HistoryRead

\* A cached prefix is what it says: its snapshot and its pages were computed
\* from its tokens, though the sequence it was taken of went on writing.
EntriesIntact ==
  \A s \in DOMAIN entries :
    /\ dev.snaps[s].state = entries[s].tokens
    /\ dev.snaps[s].conv = entries[s].tokens
    /\ Holds(entries[s].blocks, entries[s].tokens)

\* executor.rs of the working copy: "Prefill runs on it, not on the 8-bit slot:
\* a segment starting from a quantized state spoils the whole rest of the
\* prompt".
PromptsUnquantized ==
  \A id \in DOMAIN active :
    active[id].prefilled < PromptLen(id) /\ (InRun(id) \/ active[id].prefilled > 0)
      /\ (InRun(id) \/ active[id].restore = {})
      => ~dev.slots[seqs[id].slot].rough

=============================================================================
