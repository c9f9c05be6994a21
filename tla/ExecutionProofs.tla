-------------------------- MODULE ExecutionProofs ---------------------------
(***************************************************************************)
(* What a batch leaves on the device.  For each request, Reached says how  *)
(* many of its tokens are in the caches, and Right what its pages, its     *)
(* slot and the working copy hold of them.                                 *)
(*                                                                         *)
(* A batch is followed request by request (Partial): what one request      *)
(* writes it writes into its own pages, or into a page others share        *)
(* exactly what they have there (WroteOther, WroteEntry), by the sharing   *)
(* proved of CacheManager.  The module ends with the two actions that      *)
(* run a batch, Execute and Verify, and the inductive invariant EInv that  *)
(* they keep.                                                              *)
(***************************************************************************)
EXTENDS Engine, SchedulerProofs

-----------------------------------------------------------------------------
(* What is on the device.                                                  *)

\* The prompt of id is in the caches; its tokens are decoded one by one.
Decoding(id) == active[id].phase \in {"DecodeReady", "DecodeInFlight"}

\* The tokens of id that were in the caches before this batch.
Base(id) == active[id].prefilled + active[id].generated

\* The cells of a table in kv hold the history h.
HoldsIn(kv, table, h) ==
  \A p \in 1..Len(h) : kv[table[PageOf(p)]][CellOf(p)] = SubSeq(h, 1, p)

\* A state computed from the history h.
IsState(x, h) == x.state = h /\ x.conv = h

\* Nothing is generated before the prompt is done.
GenPart == \A id \in DOMAIN active : ~Decoding(id) => active[id].generated = 0

\* A snapshot is taken after the chunk that ends where it is due.
SaveChunks ==
  \A save \in Range(batch.saves), c \in Range(batch.prefill) :
    c.id = save.id => c.offset + c.tokens = Request(save.id).snapshotAt

\* Only id has the page b.
OwnPage(id, b) ==
  /\ b \in Range(seqs[id].blocks)
  /\ \A j \in DOMAIN active : j # id => b \notin Range(seqs[j].blocks)
  /\ \A s \in DOMAIN entries : b \notin Range(entries[s].blocks)

\* What id is to be restored from is its own prompt, and it is copied into a
\* page of its own.
RestoreRight(id, r) ==
  /\ r.snapshot \in DOMAIN entries
  /\ entries[r.snapshot].tokens = SubSeq(Request(id).prompt, 1, active[id].prefilled)
  /\ \A m \in 1..BlocksFor(active[id].prefilled) :
       \/ seqs[id].blocks[m] = entries[r.snapshot].blocks[m]
       \/ r.copy = {<<entries[r.snapshot].blocks[m], seqs[id].blocks[m]>>}
  /\ \A c \in r.copy : r.copy = {c} /\ OwnPage(id, c[2])

\* So it is for all that are due.
RestoresRight == \A id \in DOMAIN active : \A r \in active[id].restore : RestoreRight(id, r)

\* A state has its three parts.
StateShape(x) == x = [state |-> x.state, conv |-> x.conv, rough |-> x.rough]

\* The buffers of the device.
DevShape(d) ==
  /\ d = [kv |-> d.kv, slots |-> d.slots, snaps |-> d.snaps, copy |-> d.copy]
  /\ d.copy = [owner |-> d.copy.owner, state |-> d.copy.state, rough |-> d.copy.rough]
  /\ DOMAIN d.kv = Pages /\ DOMAIN d.slots = Slots \cup {Draft} /\ DOMAIN d.snaps = Snapshots
  /\ \A x \in Slots \cup {Draft} : StateShape(d.slots[x])
  /\ d.copy.owner \in Slots \cup {Draft, Nobody}

-----------------------------------------------------------------------------
(* The cells of a page table.                                              *)

\* Division with a remainder.
LEMMA DivMod ==
  ASSUME NEW a \in Nat, NEW d \in Nat \ {0}
  PROVE  a \div d \in Nat /\ a % d \in 0..(d - 1) /\ a = d * (a \div d) + (a % d)
<1>1. a = d * (a \div d) + (a % d) /\ a % d \in 0..(d - 1) /\ a \div d \in Int
  OBVIOUS
<1>2. a \div d \in Nat
  BY QuotientType
<1> QED BY <1>1, <1>2

\* A place in a sequence has a page and a cell.
LEMMA PlaceFacts ==
  ASSUME NEW p \in Nat \ {0}
  PROVE  /\ CellOf(p) \in 1..BlockSize /\ PageOf(p) \in Nat \ {0}
         /\ p = BlockSize * (PageOf(p) - 1) + CellOf(p)
         /\ p <= PageOf(p) * BlockSize
<1>1. PICK a, d : a = p - 1 /\ d = BlockSize
  OBVIOUS
<1>2. a \in Nat /\ d \in Nat \ {0} /\ p = a + 1
  BY <1>1, CacheAssumption DEF CacheAssumption
<1>3. a \div d \in Nat /\ a % d \in 0..(d - 1) /\ a = d * (a \div d) + (a % d)
  BY <1>2, DivMod
<1>4. (p + d - 1) \div d = (a \div d) + 1
  <2>1. PICK q, r, b : q = a \div d /\ r = a % d /\ b = p + d - 1
    OBVIOUS
  <2>2. q \in Nat /\ r \in Nat /\ r < d /\ b \in Nat /\ b = d * q + r + d
    BY <1>2, <1>3, <2>1
  <2>3. PICK x, y : x = b \div d /\ y = b % d
    OBVIOUS
  <2>4. x \in Nat /\ y \in Nat /\ y < d /\ b = d * x + y
    BY <1>2, <2>2, <2>3, DivMod
  <2>5. d * x + y = d * (q + 1) + r
    BY <1>2, <2>2, <2>4
  <2>6. x = q + 1
    <3>1. x <= q + 1
      <4>1. SUFFICES ASSUME x >= q + 2 PROVE FALSE
        BY <2>2, <2>4
      <4>2. d * x >= d * (q + 2)
        BY <1>2, <2>2, <2>4, <4>1
      <4>3. d * (q + 2) = d * (q + 1) + d
        BY <1>2, <2>2
      <4> QED BY <1>2, <2>2, <2>4, <2>5, <4>2, <4>3
    <3>2. x >= q + 1
      <4>1. SUFFICES ASSUME x <= q PROVE FALSE
        BY <2>2, <2>4
      <4>2. d * x <= d * q
        BY <1>2, <2>2, <2>4, <4>1
      <4>3. d * (q + 1) = d * q + d
        BY <1>2, <2>2
      <4> QED BY <1>2, <2>2, <2>4, <2>5, <4>2, <4>3
    <3> QED BY <2>2, <2>4, <3>1, <3>2
  <2> QED BY <2>1, <2>3, <2>6
<1>5. PageOf(p) = (a \div d) + 1 /\ CellOf(p) = (a % d) + 1
  BY <1>1, <1>4 DEF PageOf, CellOf, BlocksFor
<1>6. PICK q, r : q = a \div d /\ r = a % d
  OBVIOUS
<1>7. q \in Nat /\ r \in 0..(d - 1) /\ a = d * q + r
  BY <1>3, <1>6
<1>8. PageOf(p) = q + 1 /\ CellOf(p) = r + 1
  BY <1>5, <1>6
<1>9. CellOf(p) \in 1..BlockSize /\ PageOf(p) \in Nat \ {0}
  BY <1>1, <1>2, <1>7, <1>8
<1>10. p = d * (PageOf(p) - 1) + CellOf(p)
  BY <1>2, <1>7, <1>8
<1>11. p <= PageOf(p) * d
  <2>1. (q + 1) * d = d * q + d
    BY <1>2, <1>7
  <2> QED BY <1>2, <1>7, <1>8, <2>1
<1> QED BY <1>1, <1>9, <1>10, <1>11

\* The page and the cell tell the place.
LEMMA PlaceUnique ==
  ASSUME NEW p \in Nat \ {0}, NEW q \in Nat \ {0}, PageOf(p) = PageOf(q), CellOf(p) = CellOf(q)
  PROVE  p = q
BY PlaceFacts

\* A table that is long enough for n tokens has the pages of their places.
LEMMA PlaceInTable ==
  ASSUME NEW n \in Nat, NEW p \in 1..n PROVE PageOf(p) \in 1..BlocksFor(n) /\ BlocksFor(n) \in Nat
<1>1. PageOf(p) <= BlocksFor(n) /\ BlocksFor(n) \in Nat
  <2>1. PICK d : d = BlockSize
    OBVIOUS
  <2>2. d \in Nat \ {0} /\ p + d - 1 \in Nat /\ n + d - 1 \in Nat /\ p + d - 1 <= n + d - 1
    BY <2>1, CacheAssumption DEF CacheAssumption
  <2>3. (p + d - 1) \div d <= (n + d - 1) \div d /\ (n + d - 1) \div d \in Nat
    BY <2>2, QuotientMonotonic, QuotientType
  <2> QED BY <2>1, <2>3 DEF PageOf, BlocksFor
<1> QED BY <1>1, PlaceFacts

-----------------------------------------------------------------------------
(* What a write leaves in the KV.                                          *)

\* The place p of the table u is the place q of the table t.
SameCell(t, q, u, p) == t[PageOf(q)] = u[PageOf(p)] /\ CellOf(q) = CellOf(p)

\* A table holds what was written, where something was, and else what it held.
LEMMA WrittenHolds ==
  ASSUME NEW kv, NEW t, NEW off \in Nat, NEW rows, NEW n \in Nat, DOMAIN rows = 1..n,
         NEW u, NEW h, AnySeq(h), \A p \in 1..Len(h) : u[PageOf(p)] \in Pages,
         \A p \in 1..Len(h) : \A r \in 1..n :
           SameCell(t, off + r, u, p) => rows[r] = SubSeq(h, 1, p),
         \A p \in 1..Len(h) : \/ kv[u[PageOf(p)]][CellOf(p)] = SubSeq(h, 1, p)
                              \/ \E r \in 1..n : SameCell(t, off + r, u, p)
  PROVE  HoldsIn(Written(kv, t, off, rows), u, h)
<1>0. Len(h) \in Nat
  BY LenProperties DEF AnySeq
<1> SUFFICES ASSUME NEW p \in 1..Len(h)
             PROVE  Written(kv, t, off, rows)[u[PageOf(p)]][CellOf(p)] = SubSeq(h, 1, p)
  BY DEF HoldsIn
<1>1. PICK b, i : b = u[PageOf(p)] /\ i = CellOf(p)
  OBVIOUS
<1>2. b \in Pages /\ i \in 1..BlockSize
  BY <1>0, <1>1, PlaceFacts
<1> DEFINE here == {r \in DOMAIN rows : t[PageOf(off + r)] = b /\ CellOf(off + r) = i}
<1>3. Written(kv, t, off, rows)[b][i] = IF here = {} THEN kv[b][i] ELSE rows[Max(here)]
  BY <1>2 DEF Written
<1>4. \A r \in here : r \in 1..n /\ SameCell(t, off + r, u, p)
  BY <1>1 DEF SameCell
<1>5. CASE here = {}
  <2>1. \A r \in 1..n : ~SameCell(t, off + r, u, p)
    BY <1>1, <1>5 DEF SameCell
  <2> QED BY <1>1, <1>3, <1>5, <2>1
<1>6. CASE here # {}
  <2>1. here \subseteq 1..n
    OBVIOUS
  <2>2. IsFiniteSet(here) /\ here \in SUBSET Nat
    <3>1. IsFiniteSet(1..n)
      BY FS_Interval
    <3> QED BY <2>1, <3>1, FS_Subset
  <2> HIDE DEF here
  <2>3. Max(here) \in here
    BY <1>6, <2>2, MaxOfNats
  <2>4. rows[Max(here)] = SubSeq(h, 1, p)
    BY <1>4, <2>3
  <2> QED BY <1>1, <1>3, <1>6, <2>4
<1> QED BY <1>5, <1>6

\* What is written of a history after its first tokens is held with them.
LEMMA WriteOwn ==
  ASSUME NEW kv, NEW t \in Seq(Pages), IsInjective(t), NEW off \in Nat,
         NEW rows, NEW n \in Nat, DOMAIN rows = 1..n, BlocksFor(off + n) <= Len(t),
         NEW h, AnySeq(h), off <= Len(h), Len(h) <= off + n,
         \A r \in 1..n : off + r <= Len(h) => rows[r] = SubSeq(h, 1, off + r),
         HoldsIn(kv, t, SubSeq(h, 1, off))
  PROVE  HoldsIn(Written(kv, t, off, rows), t, h)
<1>0. Len(h) \in Nat /\ Len(t) \in Nat /\ DOMAIN t = 1..Len(t)
  BY LenProperties DEF AnySeq
<1>1. \A p \in 1..(off + n) : PageOf(p) \in 1..Len(t)
  <2> SUFFICES ASSUME NEW p \in 1..(off + n) PROVE PageOf(p) \in 1..Len(t)
    OBVIOUS
  <2>1. off + n \in Nat
    OBVIOUS
  <2>2. PageOf(p) \in 1..BlocksFor(off + n) /\ BlocksFor(off + n) \in Nat
    BY <2>1, PlaceInTable
  <2> QED BY <1>0, <2>2
<1>2. \A p \in 1..Len(h) : p \in 1..(off + n) /\ t[PageOf(p)] \in Pages
  BY <1>0, <1>1
<1>3. ASSUME NEW p \in 1..Len(h), NEW r \in 1..n, SameCell(t, off + r, t, p)
      PROVE  rows[r] = SubSeq(h, 1, p)
  <2>1. off + r \in 1..(off + n) /\ p \in 1..(off + n)
    BY <1>2
  <2>2. PageOf(off + r) = PageOf(p)
    BY <1>0, <1>1, <1>3, <2>1 DEF SameCell, IsInjective
  <2>3. off + r = p
    BY <1>3, <2>1, <2>2, PlaceUnique DEF SameCell
  <2> QED BY <2>3
<1>4. ASSUME NEW p \in 1..Len(h)
      PROVE  \/ kv[t[PageOf(p)]][CellOf(p)] = SubSeq(h, 1, p)
             \/ \E r \in 1..n : SameCell(t, off + r, t, p)
  <2>1. CASE p <= off
    <3>1. p \in 1..Len(SubSeq(h, 1, off)) /\ off \in 0..Len(h)
      BY <1>0, <2>1, Begun
    <3>2. SubSeq(SubSeq(h, 1, off), 1, p) = SubSeq(h, 1, p)
      BY <2>1, <3>1, BegunTwice
    <3>3. kv[t[PageOf(p)]][CellOf(p)] = SubSeq(SubSeq(h, 1, off), 1, p)
      BY <3>1 DEF HoldsIn
    <3> QED BY <3>2, <3>3
  <2>2. CASE p > off
    <3>1. p - off \in 1..n /\ off + (p - off) = p
      BY <1>0, <2>2
    <3>2. SameCell(t, off + (p - off), t, p)
      BY <3>1 DEF SameCell
    <3> QED BY <3>1, <3>2
  <2> QED BY <2>1, <2>2
<1> QED BY <1>2, <1>3, <1>4, WrittenHolds

\* A write to one table does not disturb another that shares pages with it, if
\* it writes what they hold there.
LEMMA WriteOther ==
  ASSUME NEW kv, NEW t \in Seq(Pages), NEW off \in Nat,
         NEW rows, NEW n \in Nat, DOMAIN rows = 1..n, BlocksFor(off + n) <= Len(t),
         NEW u \in Seq(Pages), NEW h, AnySeq(h), BlocksFor(Len(h)) <= Len(u),
         \A m \in 1..Len(t), k \in 1..Len(u) : t[m] = u[k] => m = k,
         \A r \in 1..n :
           off + r <= Len(h) /\ t[PageOf(off + r)] = u[PageOf(off + r)] =>
             rows[r] = SubSeq(h, 1, off + r),
         HoldsIn(kv, u, h)
  PROVE  HoldsIn(Written(kv, t, off, rows), u, h)
<1>0. Len(h) \in Nat /\ Len(t) \in Nat /\ Len(u) \in Nat
  BY LenProperties DEF AnySeq
<1>1. ASSUME NEW r \in 1..n PROVE off + r \in Nat \ {0} /\ PageOf(off + r) \in 1..Len(t)
  <2>1. off + r \in 1..(off + n) /\ off + n \in Nat
    OBVIOUS
  <2>2. PageOf(off + r) \in 1..BlocksFor(off + n) /\ BlocksFor(off + n) \in Nat
    BY <2>1, PlaceInTable
  <2> QED BY <1>0, <2>1, <2>2
<1>2. ASSUME NEW p \in 1..Len(h) PROVE PageOf(p) \in 1..Len(u) /\ u[PageOf(p)] \in Pages
  <2>1. PageOf(p) \in 1..BlocksFor(Len(h)) /\ BlocksFor(Len(h)) \in Nat
    BY <1>0, PlaceInTable
  <2>2. PageOf(p) \in 1..Len(u)
    BY <1>0, <2>1
  <2> QED BY <2>2
<1>3. ASSUME NEW p \in 1..Len(h), NEW r \in 1..n, SameCell(t, off + r, u, p)
      PROVE  rows[r] = SubSeq(h, 1, p)
  <2>1. PageOf(off + r) = PageOf(p)
    BY <1>1, <1>2, <1>3 DEF SameCell
  <2>2. off + r = p
    BY <1>0, <1>1, <1>3, <2>1, PlaceUnique DEF SameCell
  <2>3. t[PageOf(off + r)] = u[PageOf(off + r)] /\ off + r <= Len(h)
    BY <1>0, <1>3, <2>1, <2>2 DEF SameCell
  <2> QED BY <2>2, <2>3
<1>4. \A p \in 1..Len(h) : kv[u[PageOf(p)]][CellOf(p)] = SubSeq(h, 1, p)
  BY DEF HoldsIn
<1> QED BY <1>2, <1>3, <1>4, WrittenHolds

-----------------------------------------------------------------------------
(* Histories.                                                              *)

\* One sequence after another, their lengths and the result named.
LEMMA JoinedAs ==
  ASSUME NEW s, AnySeq(s), NEW t, AnySeq(t), NEW w, w = s \o t, NEW m, m = Len(s),
         NEW n, n = Len(t)
  PROVE  /\ AnySeq(w) /\ m \in Nat /\ n \in Nat /\ Len(w) = m + n
         /\ \A i \in 1..m : w[i] = s[i]
         /\ \A i \in 1..n : w[m + i] = t[i]
<1>1. /\ AnySeq(s \o t) /\ Len(s) \in Nat /\ Len(t) \in Nat
      /\ Len(s \o t) = Len(s) + Len(t)
      /\ \A i \in 1..Len(s) : (s \o t)[i] = s[i]
      /\ \A i \in 1..Len(t) : (s \o t)[Len(s) + i] = t[i]
  BY ONLY JoinedSeqs, AnySeq(s), AnySeq(t)
<1> QED BY ONLY <1>1, w = s \o t, m = Len(s), n = Len(t)

\* The elements of t are those of s after its first n.
Continues(t, s, n) == \A i \in 1..Len(t) : t[i] = s[n + i]

\* The beginning of a sequence and the elements that follow it are a longer beginning.
LEMMA BegunLonger ==
  ASSUME NEW s, AnySeq(s), NEW t, AnySeq(t), NEW n \in Nat, n + Len(t) <= Len(s),
         Continues(t, s, n)
  PROVE  SubSeq(s, 1, n) \o t = SubSeq(s, 1, n + Len(t))
<1>1. Len(s) \in Nat /\ Len(t) \in Nat
  BY JoinedSeqs
<1>2. PICK m : m = Len(t)
  OBVIOUS
<1>3. n \in 0..Len(s) /\ n + m \in 0..Len(s) /\ m \in Nat
  BY <1>1, <1>2
<1>4. PICK u, v : u = SubSeq(s, 1, n) /\ v = SubSeq(s, 1, n + m)
  OBVIOUS
<1>5. AnySeq(u) /\ Len(u) = n /\ \A i \in 1..n : u[i] = s[i]
  BY <1>3, <1>4, Begun
<1>6. AnySeq(v) /\ Len(v) = n + m /\ \A i \in 1..(n + m) : v[i] = s[i]
  BY <1>3, <1>4, Begun
<1>7. PICK w : w = u \o t
  OBVIOUS
<1>8. /\ AnySeq(w) /\ Len(w) = n + m
      /\ \A i \in 1..n : w[i] = u[i]
      /\ \A i \in 1..m : w[n + i] = t[i]
  <2>1. AnySeq(u) /\ n = Len(u)
    BY <1>5
  <2> HIDE <1>5
  <2>2. AnySeq(w)
    BY <1>2, <1>7, <2>1, JoinedAs
  <2>5. Len(w) = n + m
    BY <1>2, <1>7, <2>1, JoinedAs
  <2>3. \A i \in 1..n : w[i] = u[i]
    BY <1>2, <1>7, <2>1, JoinedAs
  <2>4. \A i \in 1..m : w[n + i] = t[i]
    BY <1>2, <1>7, <2>1, JoinedAs
  <2> QED BY <2>2, <2>3, <2>4, <2>5
<1>9. ASSUME NEW i \in 1..(n + m) PROVE w[i] = v[i]
  <2>1. CASE i <= n
    <3>1. i \in 1..n
      BY <1>3, <2>1
    <3> QED BY <1>5, <1>6, <1>8, <3>1
  <2>2. CASE i > n
    <3>1. i - n \in 1..m /\ n + (i - n) = i
      BY <1>3, <2>2
    <3>2. w[i] = t[i - n] /\ t[i - n] = s[i]
      BY <1>2, <1>8, <3>1 DEF Continues
    <3> QED BY <1>6, <3>2
  <2> QED BY <1>3, <2>1, <2>2
<1>10. w = v
  BY <1>6, <1>8, <1>9, SameSeq
<1> QED BY <1>2, <1>4, <1>7, <1>10

\* A request's tokens if it generates all it may.
Text(id) == Request(id).prompt \o [i \in 1..Request(id).maxNew |-> Sampled]

\* How many they are.
Total(id) == PromptLen(id) + Request(id).maxNew

\* They are its prompt, and what the model samples.
LEMMA WholeFacts ==
  ASSUME NEW id \in Ids
  PROVE  /\ AnySeq(Request(id).prompt) /\ PromptLen(id) \in Nat \ {0}
         /\ Request(id).maxNew \in Nat \ {0} /\ Total(id) \in Nat
         /\ AnySeq(Text(id)) /\ Len(Text(id)) = Total(id)
         /\ \A i \in 1..PromptLen(id) : Text(id)[i] = Request(id).prompt[i]
         /\ \A i \in (PromptLen(id) + 1)..Total(id) : Text(id)[i] = Sampled
<1>1. PICK p, m : p = Request(id).prompt /\ m = Request(id).maxNew
  OBVIOUS
<1>2. p \in Seq(Range(p)) /\ Len(p) > 0 /\ m \in Nat \ {0}
  BY <1>1, SchedulerAssumption DEF SchedulerAssumption
<1>3. AnySeq(p) /\ Len(p) \in Nat \ {0}
  BY <1>2, LenProperties DEF AnySeq
<1>4. PICK t : t = [i \in 1..m |-> Sampled]
  OBVIOUS
<1>5. t \in Seq({Sampled}) /\ Len(t) = m /\ \A i \in 1..m : t[i] = Sampled
  BY <1>2, <1>4
<1>6. AnySeq(t)
  BY <1>5 DEF AnySeq
<1>7. PICK w : w = p \o t
  OBVIOUS
<1>8. /\ AnySeq(w) /\ Len(w) = Len(p) + m
      /\ \A i \in 1..Len(p) : w[i] = p[i]
      /\ \A i \in 1..m : w[Len(p) + i] = t[i]
  <2>1. /\ AnySeq(p \o t) /\ Len(p \o t) = Len(p) + Len(t)
        /\ \A i \in 1..Len(p) : (p \o t)[i] = p[i]
        /\ \A i \in 1..Len(t) : (p \o t)[Len(p) + i] = t[i]
    BY <1>3, <1>6, JoinedSeqs
  <2> QED BY <1>5, <1>7, <2>1
<1>9. ASSUME NEW i \in (Len(p) + 1)..(Len(p) + m) PROVE w[i] = Sampled
  <2>1. i - Len(p) \in 1..m /\ Len(p) + (i - Len(p)) = i
    BY <1>2, <1>3
  <2> QED BY <1>5, <1>8, <2>1
<1>10. PromptLen(id) = Len(p) /\ Total(id) = Len(p) + m /\ Text(id) = w
  BY <1>1, <1>4, <1>7 DEF PromptLen, Total, Text
<1>11. Len(p) + m \in Nat
  BY <1>2, <1>3
<1> QED BY <1>1, <1>2, <1>3, <1>8, <1>9, <1>10, <1>11

\* A history has as many tokens as it says, and begins with every shorter one.
LEMMA HistoryFacts ==
  ASSUME NEW id \in Ids, NEW n \in 0..Total(id)
  PROVE  /\ AnySeq(History(id, n)) /\ Len(History(id, n)) = n /\ n \in Nat
         /\ \A m \in 0..n : SubSeq(History(id, n), 1, m) = History(id, m)
         /\ n = 0 => History(id, n) = <<>>
         /\ n <= PromptLen(id) => History(id, n) = SubSeq(Request(id).prompt, 1, n)
<1>1. /\ AnySeq(Request(id).prompt) /\ PromptLen(id) \in Nat \ {0} /\ Total(id) \in Nat
      /\ AnySeq(Text(id)) /\ Len(Text(id)) = Total(id)
      /\ \A i \in 1..PromptLen(id) : Text(id)[i] = Request(id).prompt[i]
  BY WholeFacts
<1>2. \A m : History(id, m) = SubSeq(Text(id), 1, m)
  BY DEF History, Text
<1>3. n \in 0..Len(Text(id)) /\ n \in Nat
  BY <1>1
<1>4. AnySeq(SubSeq(Text(id), 1, n)) /\ Len(SubSeq(Text(id), 1, n)) = n
      /\ SubSeq(Text(id), 1, 0) = <<>>
      /\ \A i \in 1..n : SubSeq(Text(id), 1, n)[i] = Text(id)[i]
  BY <1>1, <1>3, Begun
<1>5. \A m \in 0..n : SubSeq(SubSeq(Text(id), 1, n), 1, m) = SubSeq(Text(id), 1, m)
  BY <1>1, <1>3, BegunTwice
<1>6. ASSUME n <= PromptLen(id) PROVE SubSeq(Text(id), 1, n) = SubSeq(Request(id).prompt, 1, n)
  <2>1. PICK p : p = Request(id).prompt
    OBVIOUS
  <2>2. AnySeq(p) /\ n \in 0..Len(p)
    BY <1>1, <1>3, <1>6, <2>1 DEF PromptLen
  <2>3. /\ AnySeq(SubSeq(p, 1, n)) /\ Len(SubSeq(p, 1, n)) = n
        /\ \A i \in 1..n : SubSeq(p, 1, n)[i] = p[i]
    BY <2>2, Begun
  <2>4. \A i \in 1..n : Text(id)[i] = p[i]
    BY <1>1, <1>3, <1>6, <2>1
  <2>5. SubSeq(Text(id), 1, n) = SubSeq(p, 1, n)
    BY <1>4, <2>3, <2>4, SameSeq
  <2> QED BY <2>1, <2>5
<1>7. n = 0 => SubSeq(Text(id), 1, n) = <<>>
  BY <1>4
<1> QED BY <1>2, <1>3, <1>4, <1>5, <1>6, <1>7

\* What a request goes on with makes its history longer.
LEMMA HistoryGrows ==
  ASSUME NEW id \in Ids, NEW n \in Nat, NEW t, AnySeq(t), n + Len(t) <= Total(id),
         Continues(t, Text(id), n)
  PROVE  History(id, n) \o t = History(id, n + Len(t))
<1>1. AnySeq(Text(id)) /\ Len(Text(id)) = Total(id)
  BY WholeFacts
<1>2. SubSeq(Text(id), 1, n) \o t = SubSeq(Text(id), 1, n + Len(t))
  BY <1>1, BegunLonger
<1> QED BY <1>2 DEF History, Text

\* One token more.
LEMMA HistoryOneMore ==
  ASSUME NEW id \in Ids, NEW n \in Nat, PromptLen(id) <= n, n < Total(id)
  PROVE  Append(History(id, n), Sampled) = History(id, n + 1)
<1>1. /\ AnySeq(Text(id)) /\ Len(Text(id)) = Total(id) /\ Total(id) \in Nat
      /\ PromptLen(id) \in Nat
      /\ \A i \in (PromptLen(id) + 1)..Total(id) : Text(id)[i] = Sampled
  BY WholeFacts
<1>2. SubSeq(Text(id), 1, n + 1) = Append(SubSeq(Text(id), 1, n), Text(id)[n + 1])
  BY <1>1, BegunOneMore
<1>3. n + 1 \in (PromptLen(id) + 1)..Total(id)
  BY <1>1
<1> QED BY <1>1, <1>2, <1>3 DEF History, Text

-----------------------------------------------------------------------------
(* What the device holds of every request.                                 *)

\* The tokens of the chunk of id in the batch.
ChunkTokens(id) ==
  LET i == CHOOSE i \in DOMAIN batch.prefill : batch.prefill[i].id = id
  IN  batch.prefill[i].tokens

\* How many tokens the batch adds to id if k drafts are accepted.
Added(id, k) == IF Decoding(id) THEN 1 + k ELSE ChunkTokens(id)

\* The tokens of id in the caches once the batch has run for the requests of X.
Count(id, X, k) == Base(id) + (IF id \in X THEN Added(id, k) ELSE 0)

\* The requests of the batch, and those it has run for.
BatchIds == {id \in DOMAIN active : InBatch(id)}

\* Those it has run for.
RunIds == IF ran THEN BatchIds ELSE {}

\* The KV pages of id hold its first n tokens.
Held(d, id, n) == HoldsIn(d.kv, seqs[id].blocks, History(id, n))

\* So does its slot, and the working copy if it is of that slot.
StateRight(d, id, n) ==
  /\ IsState(d.slots[seqs[id].slot], History(id, n))
  /\ ~Decoding(id) /\ d.copy.owner = seqs[id].slot => d.copy.state = History(id, n)

\* Every request is held but those a restore is due; the requests of B are
\* ready to run and those of X have run.
RightOf(d, id, n, X, B) ==
  /\ active[id].restore = {} \/ id \in B => Held(d, id, n)
  /\ (active[id].restore = {} \/ id \in X) /\ (n > 0 \/ id \in B) => StateRight(d, id, n)

\* So it is for all requests.
Right(d, X, k, B) == \A id \in DOMAIN active : RightOf(d, id, Count(id, X, k), X, B)

\* Every entry is held.
EntryIn(d, s) ==
  IsState(d.snaps[s], entries[s].tokens) /\ HoldsIn(d.kv, entries[s].blocks, entries[s].tokens)

\* All of them are.
EntriesIn(d) == \A s \in DOMAIN entries : EntryIn(d, s)

\* The tokens a snapshot is taken after.
SaveTokens(id) == SubSeq(Request(id).prompt, 1, Request(id).snapshotAt)

\* The requests of X have left the snapshots they are to leave.
SavedIn(d, X) ==
  \A save \in Range(batch.saves) :
    save.id \in X => IsState(d.snaps[save.snapshot], SaveTokens(save.id))

\* The batch has run for the requests of X.
Partial(d, X, k) == DevShape(d) /\ Right(d, X, k, BatchIds) /\ EntriesIn(d) /\ SavedIn(d, X)

\* What is known of the scheduler and its cache.
Known0 == SInv /\ Proved!IInv /\ Proved!Sharing /\ GenPart

-----------------------------------------------------------------------------
(* Facts about the requests of a batch.                                    *)

\* A chunk of the batch is its request's next.
LEMMA ChunkFacts ==
  ASSUME SInv, NEW c \in Range(batch.prefill)
  PROVE  /\ c.id \in DOMAIN active /\ c.id \in Ids /\ ~Decoding(c.id) /\ c.id \in BatchIds
         /\ c.offset = active[c.id].prefilled /\ ChunkTokens(c.id) = c.tokens
         /\ c.offset \in Nat /\ c.tokens \in Nat /\ c.offset + c.tokens <= PromptLen(c.id)
         /\ c.id \in Range(ChunkIds)
<1>1. /\ batch.prefill \in Seq(Chunk) /\ IsInjective(ChunkIds)
      /\ Range(ChunkIds) = WithPhase("PrefillInFlight") /\ ChunkRight(c)
  BY DEF SInv, BatchPart, BatchType
<1>2. PICK i \in DOMAIN batch.prefill : batch.prefill[i] = c
  BY DEF Range
<1>3. c \in Chunk
  <2>1. DOMAIN batch.prefill = 1..Len(batch.prefill)
    BY <1>1, LenProperties
  <2> QED BY <1>1, <1>2, <2>1
<1>4. c.id \in Ids /\ c.offset \in Nat /\ c.tokens \in Nat
  BY <1>3 DEF Chunk
<1>5. DOMAIN ChunkIds = DOMAIN batch.prefill /\ ChunkIds[i] = c.id
  BY <1>2 DEF ChunkIds
<1>6. c.id \in Range(ChunkIds)
  BY <1>5 DEF Range
<1>7. c.id \in DOMAIN active /\ active[c.id].phase = "PrefillInFlight"
  BY <1>1, <1>6 DEF WithPhase
<1>8. ~Decoding(c.id) /\ c.id \in BatchIds
  BY <1>6, <1>7 DEF Decoding, BatchIds, InBatch
<1>9. ChunkTokens(c.id) = c.tokens
  <2> DEFINE j == CHOOSE j \in DOMAIN batch.prefill : batch.prefill[j].id = c.id
  <2>1. j \in DOMAIN batch.prefill /\ batch.prefill[j].id = c.id
    BY <1>2
  <2> HIDE DEF j
  <2>2. ChunkIds[j] = ChunkIds[i]
    BY <1>5, <2>1 DEF ChunkIds
  <2>3. j = i
    BY <1>1, <1>5, <2>1, <2>2 DEF IsInjective
  <2> QED BY <1>2, <2>3 DEF ChunkTokens, j
<1> QED BY <1>1, <1>4, <1>6, <1>7, <1>8, <1>9 DEF ChunkRight

\* A request of the batch has a chunk in it or is decoded.
LEMMA BatchOfTwo ==
  ASSUME SInv, NEW id \in BatchIds
  PROVE  \/ Decoding(id) /\ id \in Range(batch.decode)
              /\ active[id].phase = "DecodeInFlight"
         \/ ~Decoding(id) /\ \E c \in Range(batch.prefill) : c.id = id
<1>1. id \in DOMAIN active /\ id \in Range(batch.decode) \cup Range(ChunkIds)
  BY DEF BatchIds, InBatch
<1>2. /\ Range(batch.decode) = WithPhase("DecodeInFlight")
      /\ Range(ChunkIds) = WithPhase("PrefillInFlight")
  BY DEF SInv, BatchPart
<1>3. CASE id \in Range(batch.decode)
  BY <1>2, <1>3 DEF WithPhase, Decoding
<1>4. CASE id \in Range(ChunkIds)
  <2>1. ~Decoding(id)
    BY <1>2, <1>4 DEF WithPhase, Decoding
  <2>2. PICK i \in DOMAIN ChunkIds : ChunkIds[i] = id
    BY <1>4 DEF Range
  <2>3. batch.prefill[i].id = id /\ batch.prefill[i] \in Range(batch.prefill)
    BY <2>2 DEF ChunkIds, Range
  <2> QED BY <2>1, <2>3
<1> QED BY <1>1, <1>3, <1>4

\* A request that is decoded is in the batch.
LEMMA DecodedFacts ==
  ASSUME SInv, NEW id \in Range(batch.decode)
  PROVE  id \in DOMAIN active /\ id \in Ids /\ Decoding(id) /\ id \in BatchIds
         /\ active[id].phase = "DecodeInFlight"
<1>1. Range(batch.decode) = WithPhase("DecodeInFlight")
  BY DEF SInv, BatchPart
<1>2. id \in DOMAIN active /\ active[id].phase = "DecodeInFlight"
  BY <1>1 DEF WithPhase
<1> QED BY <1>2, RequestFacts DEF SInv, Decoding, BatchIds, InBatch

\* How many tokens a request has: none more than its table is for.
LEMMA BaseFacts ==
  ASSUME Known0, NEW id \in DOMAIN active
  PROVE  /\ id \in Ids /\ Base(id) \in Nat /\ PromptLen(id) \in Nat \ {0} /\ Total(id) \in Nat
         /\ Decoding(id) => Base(id) = PromptLen(id) + active[id].generated /\ Base(id) > 0
         /\ ~Decoding(id) => Base(id) = active[id].prefilled /\ active[id].generated = 0
         /\ Base(id) <= seqs[id].tokens /\ seqs[id].tokens <= Total(id) /\ seqs[id].tokens \in Nat
         /\ seqs[id].blocks \in Seq(Pages) /\ IsInjective(seqs[id].blocks)
         /\ Len(seqs[id].blocks) = BlocksFor(seqs[id].tokens)
         /\ seqs[id].slot \in Slots /\ id \in DOMAIN seqs
         /\ active[id].phase = "DecodeInFlight" => Base(id) + 1 + extra = seqs[id].tokens
         /\ extra \in Nat /\ active[id].generated \in Nat
<1>1. /\ id \in Ids /\ Known(id) /\ Counted(id)
      /\ active[id] \in Record /\ active[id].prefilled \in Nat /\ active[id].generated \in Nat
      /\ PromptLen(id) \in Nat \ {0} /\ Request(id).maxNew \in Nat \ {0}
  BY RequestFacts DEF Known0, SInv
<1>2. /\ DOMAIN seqs = DOMAIN active
      /\ \A j \in DOMAIN seqs :
              /\ seqs[j] \in [slot : Slots, blocks : Seq(Pages), tokens : Nat]
              /\ Len(seqs[j].blocks) = BlocksFor(seqs[j].tokens)
              /\ IsInjective(seqs[j].blocks)
  BY CacheFacts DEF Known0
<1>3. /\ seqs[id].tokens \in Nat /\ seqs[id].blocks \in Seq(Pages) /\ seqs[id].slot \in Slots
      /\ IsInjective(seqs[id].blocks) /\ Len(seqs[id].blocks) = BlocksFor(seqs[id].tokens)
  BY <1>2
<1>4. extra \in Nat
  BY SchedulerAssumption DEF Known0, SInv, ExtraPart, SchedulerAssumption
<1>5. Decoding(id) <=> active[id].prefilled = PromptLen(id)
  BY <1>1 DEF Known, Decoding
<1>6. ~Decoding(id) => active[id].generated = 0
  BY DEF Known0, GenPart
<1>7. active[id].prefilled <= PromptLen(id)
  BY <1>1 DEF Known
<1>8. /\ seqs[id].tokens = PromptLen(id) + active[id].generated
                             + (IF active[id].phase = "DecodeInFlight" THEN 1 + extra ELSE 0)
      /\ seqs[id].tokens <= Total(id)
  BY <1>1 DEF Counted, Total
<1>9. Base(id) = active[id].prefilled + active[id].generated
  BY DEF Base
<1>10. Total(id) \in Nat
  BY <1>1 DEF Total
<1>11. /\ Base(id) \in Nat
       /\ Decoding(id) => Base(id) = PromptLen(id) + active[id].generated /\ Base(id) > 0
       /\ ~Decoding(id) => Base(id) = active[id].prefilled /\ active[id].generated = 0
       /\ Base(id) <= seqs[id].tokens
       /\ active[id].phase = "DecodeInFlight" => Base(id) + 1 + extra = seqs[id].tokens
  <2>1. PICK a, g, l, b : /\ a = active[id].prefilled /\ g = active[id].generated
                          /\ l = PromptLen(id) /\ b = Base(id)
    OBVIOUS
  <2>2. a \in Nat /\ g \in Nat /\ l \in Nat \ {0} /\ a <= l /\ b = a + g
    BY <1>1, <1>7, <1>9, <2>1
  <2>3. active[id].phase = "DecodeInFlight" => Decoding(id)
    BY DEF Decoding
  <2>4. Decoding(id) => a = l
    BY <1>5, <2>1
  <2>5. ~Decoding(id) => g = 0
    BY <1>6, <2>1
  <2>6. seqs[id].tokens = l + g + (IF active[id].phase = "DecodeInFlight" THEN 1 + extra ELSE 0)
    BY <1>8, <2>1
  <2>7. b <= seqs[id].tokens
    BY <1>4, <2>2, <2>6
  <2> QED BY <1>4, <2>1, <2>2, <2>3, <2>4, <2>5, <2>6, <2>7
<1> QED BY <1>1, <1>2, <1>3, <1>4, <1>8, <1>10, <1>11

\* So it is with those the batch adds.
LEMMA CountFacts ==
  ASSUME Known0, NEW id \in DOMAIN active, NEW X \in SUBSET BatchIds, NEW k \in 0..extra,
         NEW n, n = Count(id, X, k)
  PROVE  /\ n \in Nat /\ n <= seqs[id].tokens /\ n <= Total(id) /\ Base(id) <= n
         /\ BlocksFor(n) <= Len(seqs[id].blocks)
         /\ id \in X => Added(id, k) \in Nat /\ n = Base(id) + Added(id, k)
         /\ id \notin X => n = Base(id)
<1>1. /\ id \in Ids /\ Base(id) \in Nat /\ PromptLen(id) \in Nat \ {0} /\ Total(id) \in Nat
      /\ ~Decoding(id) => Base(id) = active[id].prefilled /\ active[id].generated = 0
      /\ Base(id) <= seqs[id].tokens /\ seqs[id].tokens <= Total(id) /\ seqs[id].tokens \in Nat
      /\ Len(seqs[id].blocks) = BlocksFor(seqs[id].tokens)
      /\ active[id].phase = "DecodeInFlight" => Base(id) + 1 + extra = seqs[id].tokens
      /\ extra \in Nat /\ active[id].generated \in Nat
  BY BaseFacts
<1>2. k \in Nat /\ k <= extra
  BY <1>1
<1>3. CASE id \notin X
  <2>1. n = Base(id)
    BY <1>1, <1>3 DEF Count
  <2>2. BlocksFor(n) <= Len(seqs[id].blocks)
    BY <1>1, <2>1, BlocksForMonotonic
  <2> QED BY <1>1, <1>3, <2>1, <2>2
<1>4. CASE id \in X
  <2>1. id \in BatchIds /\ n = Base(id) + Added(id, k)
    BY <1>4 DEF Count
  <2>2. Added(id, k) \in Nat /\ n <= seqs[id].tokens
    <3>1. CASE Decoding(id) /\ id \in Range(batch.decode) /\ active[id].phase = "DecodeInFlight"
      <4>1. Added(id, k) = 1 + k
        BY <3>1 DEF Added
      <4> QED BY <1>1, <1>2, <2>1, <3>1, <4>1
    <3>2. CASE ~Decoding(id) /\ \E c \in Range(batch.prefill) : c.id = id
      <4>1. PICK c \in Range(batch.prefill) : c.id = id
        BY <3>2
      <4>2. /\ c.offset = active[id].prefilled /\ ChunkTokens(id) = c.tokens
            /\ c.offset \in Nat /\ c.tokens \in Nat /\ c.offset + c.tokens <= PromptLen(id)
        BY <4>1, ChunkFacts DEF Known0
      <4>3. Added(id, k) = c.tokens
        BY <3>2, <4>2 DEF Added
      <4>4. PromptLen(id) <= seqs[id].tokens
        <5>1. Counted(id)
          BY RequestFacts DEF Known0, SInv
        <5> QED BY <1>1, <5>1 DEF Counted
      <4> QED BY <1>1, <2>1, <3>2, <4>2, <4>3, <4>4
    <3> QED BY <2>1, <3>1, <3>2, BatchOfTwo DEF Known0
  <2>3. n \in Nat /\ Base(id) <= n
    BY <1>1, <2>1, <2>2
  <2>4. BlocksFor(n) <= Len(seqs[id].blocks)
    BY <1>1, <2>2, <2>3, BlocksForMonotonic
  <2> QED BY <1>1, <1>4, <2>1, <2>2, <2>3, <2>4
<1> QED BY <1>3, <1>4

-----------------------------------------------------------------------------
(* A batch runs for one request.                                           *)

\* Two prompts with the same tokens are the same histories.
LEMMA SameBeginnings ==
  ASSUME NEW p, AnySeq(p), NEW q, AnySeq(q), NEW n \in Nat, n <= Len(p), n <= Len(q),
         \A i \in 1..n : p[i] = q[i]
  PROVE  SubSeq(p, 1, n) = SubSeq(q, 1, n)
<1>1. n \in 0..Len(p) /\ n \in 0..Len(q)
  BY JoinedSeqs
<1>2. PICK u, v : u = SubSeq(p, 1, n) /\ v = SubSeq(q, 1, n)
  OBVIOUS
<1>3. AnySeq(u) /\ Len(u) = n /\ \A i \in 1..n : u[i] = p[i]
  BY <1>1, <1>2, Begun
<1>4. AnySeq(v) /\ Len(v) = n /\ \A i \in 1..n : v[i] = q[i]
  BY <1>1, <1>2, Begun
<1>5. u = v
  BY <1>3, <1>4, SameSeq
<1> QED BY <1>2, <1>5

\* Two requests share a page at one place of their tables, where both have the
\* same tokens of their prompts.
LEMMA SharedSeqs ==
  ASSUME Known0, NEW i \in DOMAIN active, NEW j \in DOMAIN active, i # j,
         NEW m \in 1..Len(seqs[i].blocks), NEW n \in 1..Len(seqs[j].blocks),
         seqs[i].blocks[m] = seqs[j].blocks[n]
  PROVE  /\ m = n
         /\ \A p \in Nat : p <= m * BlockSize =>
              p <= PromptLen(i) /\ p <= PromptLen(j) /\ History(i, p) = History(j, p)
<1>1. /\ i \in Ids /\ j \in Ids /\ i \in DOMAIN seqs /\ j \in DOMAIN seqs
      /\ seqs[i].blocks \in Seq(Pages) /\ seqs[j].blocks \in Seq(Pages)
  BY BaseFacts
<1>2. m \in DOMAIN seqs[i].blocks /\ n \in DOMAIN seqs[j].blocks
  BY <1>1, LenProperties
<1>3. Proved!SeqsShare
  BY DEF Known0, Proved!Sharing
<1>4. client[i].prompt = Request(i).prompt /\ client[j].prompt = Request(j).prompt
  BY DEF client
<1>5. m = n
  BY <1>1, <1>2, <1>3 DEF Proved!SeqsShare, Proved!SamePlace
<1>6. /\ Proved!PageEnd(m) <= Len(client[i].prompt)
      /\ Proved!SameTokens(client[i].prompt, client[j].prompt, Proved!PageEnd(m))
      /\ Proved!PageEnd(m) <= Len(client[j].prompt)
  BY <1>1, <1>2, <1>3, <1>5 DEF Proved!SeqsShare
<1>7. PICK a, b, e : a = Request(i).prompt /\ b = Request(j).prompt /\ e = m * BlockSize
  OBVIOUS
<1>8. AnySeq(a) /\ AnySeq(b) /\ Len(a) \in Nat /\ Len(b) \in Nat
      /\ PromptLen(i) = Len(a) /\ PromptLen(j) = Len(b)
  BY <1>1, <1>7, WholeFacts DEF PromptLen
<1>9. e <= Len(a) /\ e <= Len(b) /\ Proved!SameTokens(a, b, e) /\ e \in Nat
  <2>1. e \in Nat
    BY <1>7, CacheAssumption DEF CacheAssumption
  <2> QED BY <1>4, <1>6, <1>7, <2>1 DEF Proved!PageEnd
<1>10. ASSUME NEW p \in Nat, p <= e
       PROVE  p <= PromptLen(i) /\ p <= PromptLen(j) /\ History(i, p) = History(j, p)
  <2>1. p <= Len(a) /\ p <= Len(b)
    BY <1>8, <1>9, <1>10
  <2>2. DOMAIN a = 1..Len(a) /\ DOMAIN b = 1..Len(b)
    BY <1>8, LenProperties DEF AnySeq
  <2>3. \A k \in 1..p : a[k] = b[k]
    BY <1>8, <1>9, <1>10, <2>1, <2>2 DEF Proved!SameTokens
  <2>4. SubSeq(a, 1, p) = SubSeq(b, 1, p)
    BY <1>8, <2>1, <2>3, SameBeginnings
  <2>5. p \in 0..Total(i) /\ p \in 0..Total(j)
    BY <1>1, <1>8, <2>1, WholeFacts, SMTT(30) DEF Total
  <2>6. History(i, p) = SubSeq(a, 1, p)
    <3>1. History(i, p) = SubSeq(Request(i).prompt, 1, p)
      BY <1>1, <1>8, <2>1, <2>5, HistoryFacts
    <3> QED BY <1>7, <3>1
  <2>7. History(j, p) = SubSeq(b, 1, p)
    <3>1. History(j, p) = SubSeq(Request(j).prompt, 1, p)
      BY <1>1, <1>8, <2>1, <2>5, HistoryFacts
    <3> QED BY <1>7, <3>1
  <2> QED BY <1>8, <2>1, <2>4, <2>6, <2>7
<1> QED BY <1>5, <1>7, <1>10

\* A page shared with an entry is at the same place of both tables, where the
\* request has the entry's tokens.
LEMMA SharedEntry ==
  ASSUME Known0, NEW i \in DOMAIN active, NEW s \in DOMAIN entries,
         NEW m \in 1..Len(seqs[i].blocks), NEW n \in 1..Len(entries[s].blocks),
         seqs[i].blocks[m] = entries[s].blocks[n]
  PROVE  /\ m = n
         /\ \A p \in Nat : p <= m * BlockSize /\ p <= Len(entries[s].tokens) =>
              p <= PromptLen(i) /\ History(i, p) = SubSeq(entries[s].tokens, 1, p)
<1>1. /\ i \in Ids /\ i \in DOMAIN seqs /\ seqs[i].blocks \in Seq(Pages)
  BY BaseFacts
<1>0. entries[s].blocks \in Seq(Pages) /\ AnySeq(entries[s].tokens)
  BY CacheFacts DEF Known0, AnySeq
<1>2. m \in DOMAIN seqs[i].blocks /\ n \in DOMAIN entries[s].blocks
  BY <1>0, <1>1, LenProperties
<1>3. Proved!SeqEntryShare
  BY DEF Known0, Proved!Sharing
<1>4. client[i].prompt = Request(i).prompt
  BY DEF client
<1>5. m = n
  BY <1>1, <1>2, <1>3 DEF Proved!SeqEntryShare, Proved!SamePlace
<1>6. /\ Proved!PageEnd(m) <= Len(client[i].prompt)
           \/ Len(entries[s].tokens) <= Len(client[i].prompt)
      /\ Proved!SameTokens(client[i].prompt, entries[s].tokens, Proved!PageEnd(m))
  BY <1>1, <1>2, <1>3, <1>5 DEF Proved!SeqEntryShare
<1>7. PICK a, b, e : a = Request(i).prompt /\ b = entries[s].tokens /\ e = m * BlockSize
  OBVIOUS
<1>8. AnySeq(a) /\ AnySeq(b) /\ Len(a) \in Nat /\ Len(b) \in Nat /\ PromptLen(i) = Len(a)
  BY <1>0, <1>1, <1>7, WholeFacts, JoinedSeqs DEF PromptLen
<1>9. (e <= Len(a) \/ Len(b) <= Len(a)) /\ Proved!SameTokens(a, b, e) /\ e \in Nat
  <2>1. e \in Nat
    BY <1>7, CacheAssumption DEF CacheAssumption
  <2> QED BY <1>4, <1>6, <1>7, <2>1 DEF Proved!PageEnd
<1>10. ASSUME NEW p \in Nat, p <= e, p <= Len(b)
       PROVE  p <= PromptLen(i) /\ History(i, p) = SubSeq(b, 1, p)
  <2>1. p <= Len(a)
    BY <1>8, <1>9, <1>10
  <2>2. DOMAIN a = 1..Len(a) /\ DOMAIN b = 1..Len(b)
    BY <1>8, LenProperties DEF AnySeq
  <2>3. \A k \in 1..p : a[k] = b[k]
    BY <1>8, <1>9, <1>10, <2>1, <2>2, SMTT(30) DEF Proved!SameTokens
  <2>4. SubSeq(a, 1, p) = SubSeq(b, 1, p)
    BY <1>8, <1>10, <2>1, <2>3, SameBeginnings
  <2>5. p <= Total(i) /\ Total(i) \in Nat
    BY <1>1, <1>8, <2>1, WholeFacts DEF Total
  <2>6. History(i, p) = SubSeq(a, 1, p)
    BY <1>1, <1>7, <1>8, <2>1, <2>5, HistoryFacts, SMTT(30)
  <2> QED BY <1>8, <2>1, <2>4, <2>6
<1> QED BY <1>5, <1>7, <1>10

\* The KV after a batch has run for id, which had the tokens Base(id): the cells
\* of its prompt hold its prompt, and the first n are of its own history.
Wrote(kv, id, n, v) ==
  \E m \in Nat : \E rows :
    /\ n <= m /\ DOMAIN rows = 1..m /\ BlocksFor(Base(id) + m) <= Len(seqs[id].blocks)
    /\ v = Written(kv, seqs[id].blocks, Base(id), rows)
    /\ \A r \in 1..n : rows[r] = History(id, Base(id) + r)
    /\ \A r \in 1..m : Base(id) + r <= PromptLen(id) => r <= n

\* Its own pages hold its longer history.
LEMMA WroteOwn ==
  ASSUME Known0, NEW id \in DOMAIN active, NEW kv, NEW n \in Nat, NEW v, Wrote(kv, id, n, v),
         HoldsIn(kv, seqs[id].blocks, History(id, Base(id))), Base(id) + n <= Total(id)
  PROVE  HoldsIn(v, seqs[id].blocks, History(id, Base(id) + n))
<1>0. PICK m \in Nat : \E rows :
        /\ n <= m /\ DOMAIN rows = 1..m /\ BlocksFor(Base(id) + m) <= Len(seqs[id].blocks)
        /\ v = Written(kv, seqs[id].blocks, Base(id), rows)
        /\ \A r \in 1..n : rows[r] = History(id, Base(id) + r)
  BY DEF Wrote
<1>1. PICK rows :
        /\ n <= m /\ DOMAIN rows = 1..m /\ BlocksFor(Base(id) + m) <= Len(seqs[id].blocks)
        /\ v = Written(kv, seqs[id].blocks, Base(id), rows)
        /\ \A r \in 1..n : rows[r] = History(id, Base(id) + r)
  BY <1>0
<1>2. /\ id \in Ids /\ Base(id) \in Nat /\ Total(id) \in Nat
      /\ seqs[id].blocks \in Seq(Pages) /\ IsInjective(seqs[id].blocks)
  BY BaseFacts
<1>3. PICK h, t, off : h = History(id, Base(id) + n) /\ t = seqs[id].blocks /\ off = Base(id)
  OBVIOUS
<1>4. off \in Nat /\ off + n \in 0..Total(id)
  BY <1>2, <1>3
<1>5. AnySeq(h) /\ Len(h) = off + n /\ \A k \in 0..(off + n) : SubSeq(h, 1, k) = History(id, k)
  BY <1>2, <1>3, <1>4, HistoryFacts
<1>6. \A r \in 1..m : off + r <= Len(h) => rows[r] = SubSeq(h, 1, off + r)
  <2> SUFFICES ASSUME NEW r \in 1..m, off + r <= Len(h) PROVE rows[r] = SubSeq(h, 1, off + r)
    OBVIOUS
  <2>1. r \in 1..n /\ off + r \in 0..(off + n)
    BY <1>4, <1>5
  <2> QED BY <1>1, <1>3, <1>5, <2>1
<1>7. SubSeq(h, 1, off) = History(id, Base(id))
  BY <1>3, <1>4, <1>5
<1>8. t \in Seq(Pages) /\ IsInjective(t) /\ BlocksFor(off + m) <= Len(t)
      /\ HoldsIn(kv, t, SubSeq(h, 1, off))
  BY <1>1, <1>2, <1>3, <1>7
<1>9. off <= Len(h) /\ Len(h) <= off + m
  BY <1>1, <1>4, <1>5
<1>10. HoldsIn(Written(kv, t, off, rows), t, h)
  BY <1>1, <1>4, <1>5, <1>6, <1>8, <1>9, WriteOwn
<1> QED BY <1>1, <1>3, <1>10

\* What is written at a place of the prompt is the prompt to there.
LEMMA WroteAgrees ==
  ASSUME Known0, NEW id \in DOMAIN active, NEW kv, NEW n \in Nat, NEW v, Wrote(kv, id, n, v),
         NEW u \in Seq(Pages), NEW h, AnySeq(h), BlocksFor(Len(h)) <= Len(u),
         \A m \in 1..Len(seqs[id].blocks), k \in 1..Len(u) :
           seqs[id].blocks[m] = u[k] =>
             /\ m = k
             /\ \A p \in Nat : p <= m * BlockSize /\ p <= Len(h) =>
                  p <= PromptLen(id) /\ History(id, p) = SubSeq(h, 1, p),
         HoldsIn(kv, u, h)
  PROVE  HoldsIn(v, u, h)
<1>0. PICK m \in Nat : \E rows :
        /\ n <= m /\ DOMAIN rows = 1..m /\ BlocksFor(Base(id) + m) <= Len(seqs[id].blocks)
        /\ v = Written(kv, seqs[id].blocks, Base(id), rows)
        /\ \A r \in 1..n : rows[r] = History(id, Base(id) + r)
        /\ \A r \in 1..m : Base(id) + r <= PromptLen(id) => r <= n
  BY DEF Wrote
<1>1. PICK rows :
        /\ n <= m /\ DOMAIN rows = 1..m /\ BlocksFor(Base(id) + m) <= Len(seqs[id].blocks)
        /\ v = Written(kv, seqs[id].blocks, Base(id), rows)
        /\ \A r \in 1..n : rows[r] = History(id, Base(id) + r)
        /\ \A r \in 1..m : Base(id) + r <= PromptLen(id) => r <= n
  BY <1>0
<1>2. Base(id) \in Nat /\ seqs[id].blocks \in Seq(Pages)
  BY BaseFacts
<1>3. PICK t, off : t = seqs[id].blocks /\ off = Base(id)
  OBVIOUS
<1>4. off \in Nat /\ t \in Seq(Pages) /\ BlocksFor(off + m) <= Len(t)
      /\ Len(t) \in Nat /\ Len(u) \in Nat /\ Len(h) \in Nat
  BY <1>1, <1>2, <1>3, LenProperties, JoinedSeqs
<1>5. ASSUME NEW r \in 1..m, off + r <= Len(h), t[PageOf(off + r)] = u[PageOf(off + r)]
      PROVE  rows[r] = SubSeq(h, 1, off + r)
  <2>1. off + r \in Nat \ {0} /\ off + r \in 1..(off + m) /\ off + m \in Nat
        /\ off + r \in 1..Len(h)
    BY <1>4, <1>5
  <2>2. PICK p, g : p = off + r /\ g = PageOf(off + r)
    OBVIOUS
  <2>3. g \in 1..BlocksFor(off + m) /\ BlocksFor(off + m) \in Nat
    BY <2>1, <2>2, PlaceInTable
  <2>4. g \in 1..BlocksFor(Len(h)) /\ BlocksFor(Len(h)) \in Nat
    BY <1>4, <2>1, <2>2, PlaceInTable
  <2>5. g \in 1..Len(t) /\ g \in 1..Len(u) /\ t[g] = u[g]
    BY <1>4, <1>5, <2>2, <2>3, <2>4
  <2>6. p <= g * BlockSize
    BY <2>1, <2>2, PlaceFacts
  <2>7. p <= PromptLen(id) /\ History(id, p) = SubSeq(h, 1, p)
    BY <1>3, <1>5, <2>1, <2>2, <2>5, <2>6
  <2>8. r <= n
    BY <1>1, <1>3, <2>2, <2>7
  <2>9. rows[r] = History(id, p)
    BY <1>1, <1>3, <2>2, <2>8
  <2> QED BY <2>2, <2>7, <2>9
<1>6. \A a \in 1..Len(t), k \in 1..Len(u) : t[a] = u[k] => a = k
  BY <1>3
<1>7. HoldsIn(Written(kv, t, off, rows), u, h)
  BY <1>1, <1>4, <1>5, <1>6, WriteOther
<1> QED BY <1>1, <1>3, <1>7

\* So another request's pages keep holding its history.
LEMMA WroteOther ==
  ASSUME Known0, NEW id \in DOMAIN active, NEW kv, NEW n \in Nat, NEW v, Wrote(kv, id, n, v),
         NEW j \in DOMAIN active, j # id, NEW c \in Nat, c <= Total(j),
         BlocksFor(c) <= Len(seqs[j].blocks),
         HoldsIn(kv, seqs[j].blocks, History(j, c))
  PROVE  HoldsIn(v, seqs[j].blocks, History(j, c))
<1>1. j \in Ids /\ seqs[j].blocks \in Seq(Pages) /\ Total(j) \in Nat
  BY BaseFacts
<1>2. PICK u, h : u = seqs[j].blocks /\ h = History(j, c)
  OBVIOUS
<1>3. AnySeq(h) /\ Len(h) = c /\ \A k \in 0..c : SubSeq(h, 1, k) = History(j, k)
  BY <1>1, <1>2, HistoryFacts, SMTT(30)
<1>4. ASSUME NEW m \in 1..Len(seqs[id].blocks), NEW k \in 1..Len(u), seqs[id].blocks[m] = u[k]
      PROVE  /\ m = k
             /\ \A p \in Nat : p <= m * BlockSize /\ p <= Len(h) =>
                  p <= PromptLen(id) /\ History(id, p) = SubSeq(h, 1, p)
  <2>1. /\ m = k
        /\ \A p \in Nat : p <= m * BlockSize =>
              p <= PromptLen(id) /\ History(id, p) = History(j, p)
    BY <1>2, <1>4, SharedSeqs
  <2>2. \A p \in Nat : p <= Len(h) => p \in 0..c
    BY <1>3
  <2> QED BY <1>3, <2>1, <2>2
<1>5. HoldsIn(v, u, h)
  BY <1>1, <1>2, <1>3, <1>4, WroteAgrees, SMTT(30)
<1> QED BY <1>2, <1>5

\* So do the pages of an entry.
LEMMA WroteEntry ==
  ASSUME Known0, NEW id \in DOMAIN active, NEW kv, NEW n \in Nat, NEW v, Wrote(kv, id, n, v),
         NEW s \in DOMAIN entries,
         HoldsIn(kv, entries[s].blocks, entries[s].tokens)
  PROVE  HoldsIn(v, entries[s].blocks, entries[s].tokens)
<1>1. /\ entries[s].blocks \in Seq(Pages) /\ AnySeq(entries[s].tokens)
      /\ Len(entries[s].blocks) = BlocksFor(Len(entries[s].tokens))
      /\ Len(entries[s].tokens) \in Nat
  BY CacheFacts DEF Known0, AnySeq
<1>2. BlocksFor(Len(entries[s].tokens)) <= Len(entries[s].blocks)
  BY <1>1, BlocksForMonotonic
<1>3. PICK u, h : u = entries[s].blocks /\ h = entries[s].tokens
  OBVIOUS
<1>4. ASSUME NEW m \in 1..Len(seqs[id].blocks), NEW k \in 1..Len(u), seqs[id].blocks[m] = u[k]
      PROVE  /\ m = k
             /\ \A p \in Nat : p <= m * BlockSize /\ p <= Len(h) =>
                  p <= PromptLen(id) /\ History(id, p) = SubSeq(h, 1, p)
  BY <1>3, <1>4, SharedEntry
<1>5. HoldsIn(v, u, h)
  BY <1>1, <1>2, <1>3, <1>4, WroteAgrees
<1> QED BY <1>3, <1>5

\* The snapshots that are to be taken of id.
SavedOf(id) == {save.snapshot : save \in {save \in Range(batch.saves) : save.id = id}}

\* From d to e the batch has run for id, with n more tokens of its history.
Ran(d, e, id, n) ==
  LET slot == seqs[id].slot
      h == History(id, Base(id) + n)
  IN  /\ DevShape(e)
      /\ Wrote(d.kv, id, n, e.kv)
      /\ IsState(e.slots[slot], h)
      /\ \A x \in Slots \ {slot} : e.slots[x] = d.slots[x]
      /\ \A s \in Snapshots : IF s \in SavedOf(id) THEN IsState(e.snaps[s], h)
                              ELSE e.snaps[s] = d.snaps[s]
      /\ \/ Decoding(id) /\ (e.copy = d.copy \/ e.copy.owner = Draft)
         \/ e.copy.owner = slot /\ e.copy.state = h

\* A chunk that is saved ends where its snapshot is to be taken.
LEMMA SaveEnds ==
  ASSUME Known0, SaveChunks, NEW save \in Range(batch.saves), NEW X \in SUBSET BatchIds,
         save.id \in X, NEW k \in 0..extra
  PROVE  /\ save.id \in DOMAIN active /\ Count(save.id, X, k) = Request(save.id).snapshotAt
         /\ History(save.id, Count(save.id, X, k)) = SaveTokens(save.id)
<1>1. save.id \in Range(ChunkIds)
  BY DEF Known0, SInv, SavePart
<1>2. PICK i \in DOMAIN batch.prefill : batch.prefill[i].id = save.id
  BY <1>1 DEF Range, ChunkIds
<1>3. PICK c \in Range(batch.prefill) : c.id = save.id
  BY <1>2 DEF Range
<1>4. /\ save.id \in DOMAIN active /\ save.id \in Ids /\ ~Decoding(save.id)
      /\ c.offset = active[save.id].prefilled /\ ChunkTokens(save.id) = c.tokens
      /\ c.offset \in Nat /\ c.tokens \in Nat /\ c.offset + c.tokens <= PromptLen(save.id)
  BY <1>3, ChunkFacts DEF Known0
<1>5. c.offset + c.tokens = Request(save.id).snapshotAt
  BY <1>3 DEF SaveChunks
<1>6. Base(save.id) = active[save.id].prefilled
  BY <1>4, BaseFacts
<1>7. Count(save.id, X, k) = c.offset + c.tokens
  BY <1>4, <1>6 DEF Count, Added
<1>8. c.offset + c.tokens \in 0..Total(save.id)
  BY <1>4, WholeFacts DEF Total
<1>9. History(save.id, c.offset + c.tokens)
        = SubSeq(Request(save.id).prompt, 1, c.offset + c.tokens)
  BY <1>4, <1>8, HistoryFacts
<1> QED BY <1>4, <1>5, <1>7, <1>9 DEF SaveTokens

\* Slots belong to one request each.
LEMMA SlotsApart ==
  ASSUME Known0, NEW i \in DOMAIN active, NEW j \in DOMAIN active, seqs[i].slot = seqs[j].slot
  PROVE  i = j
<1>1. Proved!SlotsExact /\ DOMAIN seqs = DOMAIN active
  BY CacheFacts DEF Known0, Proved!IInv
<1> QED BY <1>1 DEF Proved!SlotsExact

\* No entry's snapshot is reserved for a batch, which has one for a request.
LEMMA SnapshotsApart ==
  ASSUME Known0, NEW save \in Range(batch.saves)
  PROVE  /\ save.snapshot \in Snapshots /\ save.snapshot \notin DOMAIN entries
         /\ \A id : save.snapshot \in SavedOf(id) <=> save.id = id
<1>1. /\ \A u, v \in Range(batch.saves) : u.snapshot = v.snapshot => u = v
      /\ DOMAIN saving = {u.snapshot : u \in Range(batch.saves)}
  BY SavingFacts DEF Known0, SInv, SavePart
<1>2. DOMAIN entries \cap DOMAIN saving = {} /\ DOMAIN saving \subseteq Snapshots
  BY DEF Known0, Proved!IInv, Proved!SnapshotsExact, Proved!SavingPart
<1> QED BY <1>1, <1>2 DEF SavedOf

\* What the batch has run for before, and all else, is as right as it was.
LEMMA RanKeeps ==
  ASSUME Known0, SaveChunks, NEW k \in 0..extra, NEW X \in SUBSET BatchIds, NEW id \in BatchIds,
         id \notin X, NEW d, Partial(d, X, k), NEW e, Ran(d, e, id, Added(id, k))
  PROVE  Partial(e, X \cup {id}, k)
<1>0. PICK Y : Y = X \cup {id}
  OBVIOUS
<1>1. id \in DOMAIN active /\ Y \in SUBSET BatchIds /\ id \in Y
  BY <1>0 DEF BatchIds
<1>2. PICK n : n = Added(id, k)
  OBVIOUS
<1>3. /\ Base(id) \in Nat /\ n \in Nat /\ Base(id) + n <= Total(id)
      /\ Count(id, X, k) = Base(id) /\ Count(id, Y, k) = Base(id) + n
  <2>1. Count(id, X, k) = Base(id) /\ Base(id) \in Nat
    BY <1>1, CountFacts, BaseFacts
  <2>2. /\ Count(id, Y, k) <= Total(id) /\ n \in Nat /\ Count(id, Y, k) = Base(id) + n
    BY <1>1, <1>2, CountFacts
  <2> QED BY <2>1, <2>2
<1>4. ASSUME NEW j \in DOMAIN active, j # id PROVE Count(j, Y, k) = Count(j, X, k)
  BY <1>0, <1>4 DEF Count
<1>5. /\ DevShape(e) /\ Wrote(d.kv, id, n, e.kv)
      /\ IsState(e.slots[seqs[id].slot], History(id, Base(id) + n))
      /\ \A x \in Slots \ {seqs[id].slot} : e.slots[x] = d.slots[x]
      /\ \A s \in Snapshots : IF s \in SavedOf(id)
                              THEN IsState(e.snaps[s], History(id, Base(id) + n))
                              ELSE e.snaps[s] = d.snaps[s]
      /\ \/ Decoding(id) /\ (e.copy = d.copy \/ e.copy.owner = Draft)
         \/ e.copy.owner = seqs[id].slot /\ e.copy.state = History(id, Base(id) + n)
  BY <1>2 DEF Ran
<1>6. DevShape(d) /\ Right(d, X, k, BatchIds) /\ EntriesIn(d) /\ SavedIn(d, X)
  BY DEF Partial
<1>7. RightOf(e, id, Base(id) + n, Y, BatchIds)
  <2>1. Held(d, id, Base(id))
    BY <1>1, <1>3, <1>6 DEF Right, RightOf
  <2>2. Held(e, id, Base(id) + n)
    BY <1>1, <1>3, <1>5, <2>1, WroteOwn DEF Held
  <2>3. StateRight(e, id, Base(id) + n)
    BY <1>5 DEF StateRight
  <2> QED BY <2>2, <2>3 DEF RightOf
<1>8. ASSUME NEW j \in DOMAIN active, j # id PROVE RightOf(e, j, Count(j, X, k), Y, BatchIds)
  <2>1. PICK c : c = Count(j, X, k)
    OBVIOUS
  <2>2. c \in Nat /\ c <= Total(j) /\ BlocksFor(c) <= Len(seqs[j].blocks)
    BY <2>1, CountFacts
  <2>3. RightOf(d, j, c, X, BatchIds)
    BY <1>6, <2>1 DEF Right
  <2>4. Held(d, j, c) => Held(e, j, c)
    BY <1>1, <1>3, <1>5, <1>8, <2>2, WroteOther DEF Held
  <2>5. j \in Y <=> j \in X
    BY <1>0, <1>8
  <2>6. StateRight(d, j, c) => StateRight(e, j, c)
    <3>1. seqs[j].slot \in Slots /\ seqs[j].slot # seqs[id].slot
      BY <1>1, <1>8, SlotsApart, BaseFacts
    <3>2. e.slots[seqs[j].slot] = d.slots[seqs[j].slot]
      BY <1>5, <3>1
    <3>3. e.copy = d.copy \/ e.copy.owner # seqs[j].slot
      BY <1>5, <3>1, EngineAssumption DEF EngineAssumption
    <3> QED BY <3>2, <3>3 DEF StateRight
  <2> QED BY <2>1, <2>3, <2>4, <2>5, <2>6 DEF RightOf
<1>9. Right(e, Y, k, BatchIds)
  BY <1>3, <1>4, <1>7, <1>8 DEF Right
<1>10. EntriesIn(e)
  <2> SUFFICES ASSUME NEW s \in DOMAIN entries PROVE EntryIn(e, s)
    BY DEF EntriesIn
  <2>1. EntryIn(d, s)
    BY <1>6 DEF EntriesIn
  <2>2. HoldsIn(e.kv, entries[s].blocks, entries[s].tokens)
    BY <1>1, <1>3, <1>5, <2>1, WroteEntry DEF EntryIn
  <2>3. s \in Snapshots
    BY CacheFacts DEF Known0
  <2>4. s \notin SavedOf(id)
    BY SnapshotsApart DEF SavedOf
  <2>5. e.snaps[s] = d.snaps[s]
    BY <1>5, <2>3, <2>4
  <2> QED BY <2>1, <2>2, <2>5 DEF EntryIn
<1>11. SavedIn(e, Y)
  <2> SUFFICES ASSUME NEW save \in Range(batch.saves), save.id \in Y
               PROVE  IsState(e.snaps[save.snapshot], SaveTokens(save.id))
    BY DEF SavedIn
  <2>1. /\ save.snapshot \in Snapshots
        /\ save.snapshot \in SavedOf(id) <=> save.id = id
    BY SnapshotsApart
  <2>2. CASE save.id = id
    <3>1. History(id, Count(id, Y, k)) = SaveTokens(id)
      BY <1>1, <2>2, SaveEnds
    <3> QED BY <1>3, <1>5, <2>1, <2>2, <3>1
  <2>3. CASE save.id # id
    <3>1. save.id \in X
      BY <1>0, <2>3
    <3>2. e.snaps[save.snapshot] = d.snaps[save.snapshot]
      BY <1>5, <2>1, <2>3
    <3> QED BY <1>6, <3>1, <3>2 DEF SavedIn
  <2> QED BY <2>2, <2>3
<1> QED BY <1>0, <1>5, <1>9, <1>10, <1>11 DEF Partial

\* From d to e some tokens have run on a state computed from h.
Scanned(d, e, slot, table, off, tokens, saved, h) ==
  /\ DevShape(e)
  /\ e.kv = Written(d.kv, table, off, [r \in DOMAIN tokens |-> h \o SubSeq(tokens, 1, r)])
  /\ IsState(e.slots[slot], h \o tokens)
  /\ \A x \in Slots \cup {Draft} : x # slot => e.slots[x] = d.slots[x]
  /\ \A s \in Snapshots : IF s \in saved THEN IsState(e.snaps[s], h \o tokens)
                          ELSE e.snaps[s] = d.snaps[s]
  /\ e.copy.owner = slot /\ e.copy.state = h \o tokens

\* What a scan leaves of the device that starts from a state computed from h.
LEMMA ScanFacts ==
  ASSUME NEW d, DevShape(d), NEW slot \in Slots \cup {Draft}, NEW table, NEW off, NEW tokens,
         NEW restored, NEW saved, NEW h, ScanStart(d, slot, off, restored).state = h,
         ConvStart(d, slot, restored) = h,
         NEW e, e = Scan(d, slot, table, off, tokens, restored, saved)
  PROVE  Scanned(d, e, slot, table, off, tokens, saved, h)
<1>1. PICK start, conv : /\ start = ScanStart(d, slot, off, restored)
                         /\ conv = ConvStart(d, slot, restored)
  OBVIOUS
<1>2. start.state = h /\ conv = h
  BY <1>1
<1>3. PICK after : after = [state |-> h \o tokens, conv |-> h \o tokens, rough |-> start.rough]
  OBVIOUS
<1>4. PICK v : v = Written(d.kv, table, off, [r \in DOMAIN tokens |-> h \o SubSeq(tokens, 1, r)])
  OBVIOUS
<1>5. e = [kv |-> v, slots |-> [d.slots EXCEPT ![slot] = after],
           snaps |-> Captured(d, slot, after, saved),
           copy |-> [owner |-> slot, state |-> after.state, rough |-> after.rough]]
  BY <1>1, <1>2, <1>3, <1>4 DEF Scan
<1>6. /\ e.kv = v /\ e.slots = [d.slots EXCEPT ![slot] = after]
      /\ e.snaps = Captured(d, slot, after, saved)
      /\ e.copy = [owner |-> slot, state |-> after.state, rough |-> after.rough]
  BY <1>5
<1>7. DOMAIN d.slots = Slots \cup {Draft} /\ \A x \in Slots \cup {Draft} : StateShape(d.slots[x])
  BY DEF DevShape
<1>8. /\ e.slots[slot] = after /\ DOMAIN e.slots = Slots \cup {Draft}
      /\ \A x \in Slots \cup {Draft} : x # slot => e.slots[x] = d.slots[x]
  BY <1>6, <1>7
<1>9. StateShape(after) /\ IsState(after, h \o tokens)
  BY <1>3 DEF StateShape, IsState
<1>10. DOMAIN v = Pages
  BY <1>4 DEF Written
<1>11. /\ DOMAIN e.snaps = Snapshots
       /\ \A s \in Snapshots : e.snaps[s] = IF s \in saved THEN after ELSE d.snaps[s]
  BY <1>6 DEF Captured
<1>12. DevShape(e)
  <2>1. e = [kv |-> e.kv, slots |-> e.slots, snaps |-> e.snaps, copy |-> e.copy]
    BY <1>5, <1>6
  <2>2. e.copy = [owner |-> e.copy.owner, state |-> e.copy.state, rough |-> e.copy.rough]
        /\ e.copy.owner = slot
    BY <1>6
  <2>3. \A x \in Slots \cup {Draft} : StateShape(e.slots[x])
    BY <1>7, <1>8, <1>9
  <2> QED BY <1>6, <1>8, <1>10, <1>11, <2>1, <2>2, <2>3 DEF DevShape
<1>13. e.copy.owner = slot /\ e.copy.state = h \o tokens
  BY <1>3, <1>6
<1>14. \A s \in Snapshots : IF s \in saved THEN IsState(e.snaps[s], h \o tokens)
                            ELSE e.snaps[s] = d.snaps[s]
  BY <1>9, <1>11
<1>15. /\ e.kv = Written(d.kv, table, off, [r \in DOMAIN tokens |-> h \o SubSeq(tokens, 1, r)])
       /\ IsState(e.slots[slot], h \o tokens)
  BY <1>4, <1>6, <1>8, <1>9
<1> QED BY <1>8, <1>12, <1>13, <1>14, <1>15 DEF Scanned

\* The n tokens of a request's prompt from one place on.
CutOf(id, off, n) == SubSeq(Request(id).prompt, off + 1, off + n)

\* The snapshots the batch restores for id.
RestoredOf(id) == {r.op.snapshot : r \in {op \in Range(batch.restores) : op.id = id}}

\* The first n of some tokens are those id goes on with.
Follows(t, n, id, off) == \A i \in 1..n : t[i] = Text(id)[off + i]

\* The tokens of a request from one place on.
LEMMA TokensCut ==
  ASSUME NEW id \in Ids, NEW off \in Nat, NEW n \in Nat, off + n <= PromptLen(id),
         NEW t, t = CutOf(id, off, n)
  PROVE  AnySeq(t) /\ Len(t) = n /\ DOMAIN t = 1..n /\ Continues(t, Text(id), off)
<1>1. PICK p : p = Request(id).prompt
  OBVIOUS
<1>2. /\ AnySeq(p) /\ Len(p) \in Nat /\ off + n <= Len(p)
      /\ \A i \in 1..Len(p) : Text(id)[i] = p[i]
  BY <1>1, WholeFacts DEF PromptLen
<1>3. PICK A : p \in Seq(A)
  BY <1>2 DEF AnySeq
<1>4. t \in Seq(A) /\ Len(t) = n /\ \A i \in 1..n : t[i] = p[off + i]
  BY <1>1, <1>2, <1>3 DEF CutOf
<1>5. DOMAIN t = 1..n
  BY <1>4, LenProperties
<1>6. \A i \in 1..n : off + i \in 1..Len(p)
  BY <1>2
<1> QED BY <1>2, <1>4, <1>5, <1>6 DEF AnySeq, Continues

\* The rows a scan writes are the longer and longer histories.
LEMMA RowsRight ==
  ASSUME NEW id \in Ids, NEW off \in Nat, NEW t, AnySeq(t), NEW n \in Nat, n <= Len(t),
         off + n <= Total(id), Follows(t, n, id, off), NEW r \in 0..n
  PROVE  History(id, off) \o SubSeq(t, 1, r) = History(id, off + r)
<1>1. r \in 0..Len(t) /\ Len(t) \in Nat /\ r \in Nat
  BY JoinedSeqs
<1>2. PICK u : u = SubSeq(t, 1, r)
  OBVIOUS
<1>3. AnySeq(u) /\ Len(u) = r /\ \A i \in 1..r : u[i] = t[i]
  BY <1>1, <1>2, Begun
<1>4. Continues(u, Text(id), off)
  BY <1>1, <1>3 DEF Continues, Follows
<1>5. off + Len(u) <= Total(id)
  BY <1>1, <1>3, WholeFacts
<1>6. History(id, off) \o u = History(id, off + Len(u))
  BY <1>3, <1>4, <1>5, HistoryGrows
<1> QED BY <1>2, <1>3, <1>6

\* What a chunk starts from: the state of its slot or of the snapshot it restores.
LEMMA ChunkStarts ==
  ASSUME Known0, RestoresRight, NEW X \in SUBSET BatchIds, NEW c \in Range(batch.prefill),
         c.id \notin X, NEW d, Partial(d, X, 0), NEW id, id = c.id,
         NEW restored, restored = RestoredOf(id)
  PROVE  /\ ScanStart(d, seqs[id].slot, c.offset, restored).state = History(id, c.offset)
         /\ ConvStart(d, seqs[id].slot, restored) = History(id, c.offset)
<1>1. /\ id \in DOMAIN active /\ id \in Ids /\ ~Decoding(id) /\ id \in BatchIds
      /\ c.offset = active[id].prefilled /\ c.offset \in Nat /\ c.tokens \in Nat
      /\ c.offset + c.tokens <= PromptLen(id) /\ id \in Range(ChunkIds)
  BY ChunkFacts DEF Known0
<1>2. Base(id) = c.offset /\ id \notin X
  BY <1>1, BaseFacts
<1>3. restored = {r.snapshot : r \in active[id].restore}
  <2>1. \A r \in Range(batch.restores) : r.op \in active[r.id].restore
    BY DEF Known0, SInv, RestorePart
  <2>2. \A op \in active[id].restore : [id |-> id, op |-> op] \in Range(batch.restores)
    BY <1>1 DEF Known0, SInv, RestorePart
  <2>3. \A op \in active[id].restore : \E r \in Range(batch.restores) : r.id = id /\ r.op = op
    <3> SUFFICES ASSUME NEW op \in active[id].restore
                 PROVE  \E r \in Range(batch.restores) : r.id = id /\ r.op = op
      OBVIOUS
    <3>1. [id |-> id, op |-> op] \in Range(batch.restores)
      BY <2>2
    <3>2. [id |-> id, op |-> op].id = id /\ [id |-> id, op |-> op].op = op
      OBVIOUS
    <3> QED BY <3>1, <3>2
  <2> QED BY <2>1, <2>3 DEF RestoredOf
<1>4. CASE active[id].restore = {}
  <2>1. restored = {}
    BY <1>3, <1>4
  <2>2. Count(id, X, 0) = c.offset
    BY <1>1, <1>2 DEF Count
  <2>3. StateRight(d, id, c.offset)
    BY <1>1, <1>4, <2>2 DEF Partial, Right, RightOf
  <2> QED BY <1>1, <2>1, <2>3 DEF StateRight, IsState, ScanStart, ConvStart
<1>5. CASE active[id].restore # {}
  <2>1. PICK r : active[id].restore = {r}
    <3>1. active[id].restore \in {{}} \cup {{r} : r \in RestoreOp}
      BY <1>1, RequestFacts DEF Known0, SInv, Record
    <3> QED BY <1>5, <3>1
  <2>2. restored = {r.snapshot}
    BY <1>3, <2>1
  <2>3. r.snapshot \in DOMAIN entries
        /\ entries[r.snapshot].tokens = SubSeq(Request(id).prompt, 1, c.offset)
    BY <1>1, <2>1 DEF RestoresRight, RestoreRight
  <2>4. IsState(d.snaps[r.snapshot], entries[r.snapshot].tokens)
    BY <2>3 DEF Partial, EntriesIn, EntryIn
  <2>5. SubSeq(Request(id).prompt, 1, c.offset) = History(id, c.offset)
    <3>1. c.offset \in 0..Total(id) /\ c.offset <= PromptLen(id)
      BY <1>1, WholeFacts DEF Total
    <3> QED BY <1>1, <3>1, HistoryFacts
  <2>6. (CHOOSE s \in restored : TRUE) = r.snapshot /\ restored # {}
    BY <2>2
  <2> QED BY <2>3, <2>4, <2>5, <2>6 DEF IsState, ScanStart, ConvStart
<1> QED BY <1>4, <1>5

\* A chunk runs for its request.
LEMMA ChunkRan ==
  ASSUME Known0, RestoresRight, NEW X \in SUBSET BatchIds, NEW c \in Range(batch.prefill),
         c.id \notin X, NEW d, Partial(d, X, 0)
  PROVE  Ran(d, ScanChunk(d, c), c.id, Added(c.id, 0))
<1>1. PICK id, off, n : id = c.id /\ off = c.offset /\ n = c.tokens
  OBVIOUS
<1>2. /\ id \in DOMAIN active /\ id \in Ids /\ ~Decoding(id) /\ id \in BatchIds
      /\ off = active[id].prefilled /\ ChunkTokens(id) = n
      /\ off \in Nat /\ n \in Nat /\ off + n <= PromptLen(id)
  BY <1>1, ChunkFacts DEF Known0
<1>3. Base(id) = off /\ Added(id, 0) = n /\ seqs[id].slot \in Slots
      /\ seqs[id].tokens \in Nat /\ Len(seqs[id].blocks) = BlocksFor(seqs[id].tokens)
  BY <1>2, BaseFacts DEF Added
<1>4. PICK t : t = CutOf(id, off, n)
  OBVIOUS
<1>5. AnySeq(t) /\ Len(t) = n /\ DOMAIN t = 1..n /\ Continues(t, Text(id), off)
  BY <1>2, <1>4, TokensCut
<1>6. PICK restored : restored = RestoredOf(id)
  OBVIOUS
<1>7. PICK e : e = ScanChunk(d, c)
  OBVIOUS
<1>8. e = Scan(d, seqs[id].slot, seqs[id].blocks, off, t, restored, SavedOf(id))
  BY <1>1, <1>4, <1>6, <1>7 DEF ScanChunk, SavedOf, CutOf, RestoredOf
<1>9. /\ ScanStart(d, seqs[id].slot, off, restored).state = History(id, off)
      /\ ConvStart(d, seqs[id].slot, restored) = History(id, off)
  BY <1>1, <1>6, ChunkStarts
<1>10. PICK h, rows : /\ h = History(id, off)
                      /\ rows = [r \in DOMAIN t |-> h \o SubSeq(t, 1, r)]
  OBVIOUS
<1>11. DevShape(d)
  BY DEF Partial
<1>12. /\ DevShape(e) /\ e.kv = Written(d.kv, seqs[id].blocks, off, rows)
       /\ IsState(e.slots[seqs[id].slot], h \o t)
       /\ \A x \in Slots \cup {Draft} : x # seqs[id].slot => e.slots[x] = d.slots[x]
       /\ \A s \in Snapshots : IF s \in SavedOf(id) THEN IsState(e.snaps[s], h \o t)
                               ELSE e.snaps[s] = d.snaps[s]
       /\ e.copy.owner = seqs[id].slot /\ e.copy.state = h \o t
  <2>1. Scanned(d, e, seqs[id].slot, seqs[id].blocks, off, t, SavedOf(id), h)
    <3>1. seqs[id].slot \in Slots \cup {Draft}
      BY <1>3
    <3>2. /\ ScanStart(d, seqs[id].slot, off, restored).state = h
          /\ ConvStart(d, seqs[id].slot, restored) = h
      BY <1>9, <1>10
    <3> QED BY <1>8, <1>11, <3>1, <3>2, ScanFacts
  <2> QED BY <1>10, <2>1 DEF Scanned
<1>13. off + n <= Total(id) /\ Total(id) \in Nat /\ PromptLen(id) <= seqs[id].tokens
  <2>1. Counted(id) /\ active[id].generated \in Nat
    BY <1>2, RequestFacts DEF Known0, SInv
  <2>2. PromptLen(id) \in Nat /\ Request(id).maxNew \in Nat /\ extra \in Nat
    BY <1>2, WholeFacts, BaseFacts
  <2> QED BY <1>2, <2>1, <2>2 DEF Total, Counted
<1>14. \A r \in 0..n : h \o SubSeq(t, 1, r) = History(id, off + r)
  <2>1. Follows(t, n, id, off)
    BY <1>5 DEF Continues, Follows
  <2>2. n <= Len(t)
    BY <1>2, <1>5
  <2>3. ASSUME NEW r \in 0..n PROVE History(id, off) \o SubSeq(t, 1, r) = History(id, off + r)
    <3>1. AnySeq(t)
      BY <1>5
    <3>2. id \in Ids /\ off \in Nat /\ n \in Nat /\ off + n <= Total(id)
      BY <1>2, <1>13
    <3> QED BY <2>1, <2>2, <3>1, <3>2, RowsRight
  <2> QED BY <1>10, <2>3
<1>15. h \o t = History(id, off + n)
  <2>1. SubSeq(t, 1, n) = t
    BY <1>5, Begun, <1>2
  <2>2. n \in 0..n
    BY <1>2
  <2> QED BY <1>14, <2>1, <2>2
<1>16. Wrote(d.kv, id, n, e.kv)
  <2>1. DOMAIN rows = 1..n /\ \A r \in 1..n : rows[r] = History(id, off + r)
    BY <1>5, <1>10, <1>14
  <2>2. BlocksFor(off + n) <= Len(seqs[id].blocks)
    <3>1. off + n \in Nat /\ off + n <= seqs[id].tokens
      BY <1>2, <1>3, <1>13, WholeFacts
    <3> QED BY <1>3, <3>1, BlocksForMonotonic
  <2> QED BY <1>2, <1>3, <1>12, <2>1, <2>2 DEF Wrote
<1> QED BY <1>1, <1>2, <1>3, <1>7, <1>12, <1>15, <1>16 DEF Ran

\* A verified row counts from the tokens in the caches.
RowCase(prompt, gen, total, x, off, tok, n) ==
  /\ prompt \in Nat \ {0} /\ gen \in Nat /\ total \in Nat /\ x \in Nat /\ off \in Nat
  /\ tok \in Nat /\ off = prompt + gen /\ off + 1 + x = tok /\ tok <= total /\ n \in 0..x

\* So the rows end within the request.
RowFit(prompt, total, x, off, tok, n) ==
  /\ n \in Nat /\ n <= x /\ 1 + n \in Nat /\ 1 + n \in 1..(1 + x) /\ 1 + n <= 1 + x
  /\ off + (1 + n) <= total /\ off + (1 + x) = tok /\ 1 + x \in Nat
  /\ off + 1 + n = off + (1 + n)
  /\ \A i \in 1..(1 + n) : off + i \in (prompt + 1)..total /\ i \in 1..(1 + x)
  /\ \A r \in 1..(1 + x) : off + r <= prompt => r <= 1 + n

\* The arithmetic of that.
LEMMA RowsFit ==
  ASSUME NEW prompt, NEW gen, NEW total, NEW x, NEW off, NEW tok, NEW n,
         RowCase(prompt, gen, total, x, off, tok, n)
  PROVE  RowFit(prompt, total, x, off, tok, n)
BY DEF RowCase, RowFit

\* A state of which one knows what it was computed from.
LEMMA StateMade ==
  ASSUME NEW y, NEW g, NEW r, y = [state |-> g, conv |-> g, rough |-> r]
  PROVE  StateShape(y) /\ IsState(y, g)
<1>1. y.state = g /\ y.conv = g /\ y = [state |-> y.state, conv |-> y.conv, rough |-> y.rough]
  OBVIOUS
<1> QED BY <1>1 DEF StateShape, IsState

\* A state with other contents.
LEMMA StateChanged ==
  ASSUME NEW x, StateShape(x), NEW g,
         NEW y, y = [x EXCEPT !.state = g, !.conv = g]
  PROVE  StateShape(y) /\ IsState(y, g)
<1>2. PICK s, c, r : s = x.state /\ c = x.conv /\ r = x.rough
  OBVIOUS
<1>3. x = [state |-> s, conv |-> c, rough |-> r]
  BY <1>2 DEF StateShape
<1>4. y = [state |-> g, conv |-> g, rough |-> r]
  BY <1>3
<1> QED BY <1>4, StateMade

\* A decoded row runs for its request.
LEMMA DecodeRan ==
  ASSUME Known0, extra = 0, NEW X \in SUBSET BatchIds, NEW id \in Range(batch.decode),
         id \notin X, NEW d, Partial(d, X, 0)
  PROVE  Ran(d, DecodeRow(d, id), id, Added(id, 0))
<1>1. /\ id \in DOMAIN active /\ id \in Ids /\ Decoding(id) /\ id \in BatchIds
      /\ active[id].phase = "DecodeInFlight"
  BY DecodedFacts DEF Known0
<1>2. PICK off, slot, t, h : /\ off = Base(id) /\ slot = seqs[id].slot /\ t = seqs[id].blocks
                             /\ h = History(id, off)
  OBVIOUS
<1>3. /\ off \in Nat /\ PromptLen(id) \in Nat /\ Total(id) \in Nat
      /\ off = PromptLen(id) + active[id].generated /\ active[id].generated \in Nat
      /\ off + 1 = seqs[id].tokens /\ seqs[id].tokens <= Total(id)
      /\ Len(t) = BlocksFor(seqs[id].tokens) /\ slot \in Slots /\ Added(id, 0) = 1
  BY <1>1, <1>2, BaseFacts DEF Added
<1>4. active[id].restore = {}
  <2>1. Known(id)
    BY <1>1, RequestFacts DEF Known0, SInv
  <2> QED BY <1>1, <2>1 DEF Known
<1>5. DevShape(d) /\ IsState(d.slots[slot], h)
  <2>1. Count(id, X, 0) = off
    BY <1>2, <1>3 DEF Count
  <2>2. StateRight(d, id, off)
    BY <1>1, <1>4, <2>1 DEF Partial, Right, RightOf
  <2> QED BY <1>2, <2>2 DEF StateRight, Partial
<1>6. PICK g : g = Append(h, Sampled)
  OBVIOUS
<1>7. g = History(id, off + 1)
  <2>1. PromptLen(id) <= off /\ off < Total(id)
    BY <1>3, SMTT(30)
  <2>2. Append(History(id, off), Sampled) = History(id, off + 1)
    BY <1>1, <1>3, <2>1, HistoryOneMore
  <2> QED BY <1>2, <1>6, <2>2
<1>8. PICK after : after = [d.slots[slot] EXCEPT !.state = Append(@, Sampled),
                                                  !.conv = Append(@, Sampled)]
  OBVIOUS
<1>9. StateShape(d.slots[slot])
  BY <1>3, <1>5 DEF DevShape
<1>11. IsState(after, g) /\ StateShape(after)
  <2>1. d.slots[slot].state = h /\ d.slots[slot].conv = h
    BY <1>5 DEF IsState
  <2>2. after = [d.slots[slot] EXCEPT !.state = g, !.conv = g]
    BY <1>6, <1>8, <2>1
  <2> QED BY <1>9, <2>2, StateChanged, Zenon
<1>10. after.state = g
  BY <1>11 DEF IsState
<1>12. PICK e, v : e = DecodeRow(d, id) /\ v = Written(d.kv, t, off, <<g>>)
  OBVIOUS
<1>13. e = [d EXCEPT !.kv = v, !.slots[slot] = after]
  <2>1. e = [d EXCEPT !.kv = Written(@, t, seqs[id].tokens - 1, <<after.state>>),
                      !.slots[slot] = after]
    BY <1>2, <1>8, <1>12 DEF DecodeRow
  <2>2. after.state = g /\ seqs[id].tokens - 1 = off
    BY <1>3, <1>10
  <2>3. d = [kv |-> d.kv, slots |-> d.slots, snaps |-> d.snaps, copy |-> d.copy]
    BY <1>5 DEF DevShape
  <2> QED BY <1>12, <2>1, <2>2, <2>3
<1>14. /\ e.kv = v /\ e.slots = [d.slots EXCEPT ![slot] = after]
       /\ e.snaps = d.snaps /\ e.copy = d.copy
       /\ e = [kv |-> e.kv, slots |-> e.slots, snaps |-> e.snaps, copy |-> e.copy]
  <2>1. d = [kv |-> d.kv, slots |-> d.slots, snaps |-> d.snaps, copy |-> d.copy]
    BY <1>5 DEF DevShape
  <2> QED BY <1>13, <2>1
<1>15. DOMAIN d.slots = Slots \cup {Draft} /\ \A x \in Slots \cup {Draft} : StateShape(d.slots[x])
  BY <1>5 DEF DevShape
<1>16. /\ e.slots[slot] = after /\ DOMAIN e.slots = Slots \cup {Draft}
       /\ \A x \in Slots \cup {Draft} : x # slot => e.slots[x] = d.slots[x]
  BY <1>3, <1>14, <1>15
<1>17. DevShape(e)
  <2>1. \A x \in Slots \cup {Draft} : StateShape(e.slots[x])
    BY <1>11, <1>15, <1>16
  <2>2. DOMAIN v = Pages
    BY <1>12 DEF Written
  <2> QED BY <1>5, <1>14, <1>16, <2>1, <2>2 DEF DevShape
<1>18. Wrote(d.kv, id, 1, e.kv)
  <2>1. DOMAIN <<g>> = 1..1 /\ \A r \in 1..1 : <<g>>[r] = History(id, off + r)
    BY <1>7
  <2>2. BlocksFor(off + 1) <= Len(t)
    <3>1. off + 1 \in Nat
      BY <1>3
    <3> QED BY <1>3, <3>1, BlocksForMonotonic
  <2>3. \A r \in 1..1 : off + r <= PromptLen(id) => r <= 1
    OBVIOUS
  <2>4. PICK rows : rows = <<g>>
    OBVIOUS
  <2>5. /\ DOMAIN rows = 1..1 /\ BlocksFor(Base(id) + 1) <= Len(seqs[id].blocks)
        /\ e.kv = Written(d.kv, seqs[id].blocks, Base(id), rows)
        /\ \A r \in 1..1 : rows[r] = History(id, Base(id) + r)
        /\ \A r \in 1..1 : Base(id) + r <= PromptLen(id) => r <= 1
        /\ 1 \in Nat /\ 1 <= 1
    BY <1>2, <1>12, <1>14, <2>1, <2>2, <2>3, <2>4
  <2> QED BY <2>5 DEF Wrote
<1>19. SavedOf(id) = {}
  <2>1. \A save \in Range(batch.saves) : save.id \in Range(ChunkIds)
    BY DEF Known0, SInv, SavePart
  <2>2. id \notin Range(ChunkIds)
    BY <1>1 DEF Known0, SInv, BatchPart, WithPhase
  <2> QED BY <2>1, <2>2 DEF SavedOf
<1> QED BY <1>1, <1>2, <1>3, <1>7, <1>11, <1>12, <1>14, <1>16, <1>17, <1>18, <1>19 DEF Ran

\* The rows of a verification: the tokens the model samples, then rejected ones.
RowsOf(n) == [i \in 1..(1 + extra) |-> IF i <= 1 + n THEN Sampled ELSE Rejected]

\* So do the rows of a verification.
LEMMA VerifyRan ==
  ASSUME Known0, DevShape(dev), NEW id \in Ids, Speculative(id), NEW n \in 0..extra,
         StateRight(dev, id, Base(id)),
         dev.copy.owner = Draft => dev.copy.state = History(id, Base(id)),
         NEW e, e = Committed(Verified(id, RowsOf(n)), seqs[id].slot, RowsOf(n), 1 + n)
  PROVE  /\ Ran(dev, e, id, 1 + n)
         /\ e.copy.owner = Draft => e.copy.state = History(id, Base(id) + 1 + n)
<1>1. /\ id \in DOMAIN active /\ active[id].phase = "DecodeInFlight" /\ batch.prefill = <<>>
  BY SpeculativeFacts DEF Known0
<1>2. Decoding(id)
  BY <1>1 DEF Decoding
<1>3. PICK off, slot, t, h, rows :
        /\ off = Base(id) /\ slot = seqs[id].slot /\ t = seqs[id].blocks
        /\ h = History(id, off) /\ rows = RowsOf(n)
  OBVIOUS
<1>4. /\ off \in Nat /\ PromptLen(id) \in Nat /\ Total(id) \in Nat /\ extra \in Nat
      /\ off = PromptLen(id) + active[id].generated /\ active[id].generated \in Nat
      /\ off + 1 + extra = seqs[id].tokens /\ seqs[id].tokens <= Total(id)
      /\ Len(t) = BlocksFor(seqs[id].tokens) /\ slot \in Slots
  BY <1>1, <1>2, <1>3, BaseFacts
<1>5. /\ n \in Nat /\ n <= extra /\ 1 + n \in Nat /\ 1 + n \in 1..(1 + extra)
      /\ 1 + n <= 1 + extra /\ off + (1 + n) <= Total(id)
      /\ off + (1 + extra) = seqs[id].tokens /\ 1 + extra \in Nat
      /\ off + 1 + n = off + (1 + n)
      /\ \A i \in 1..(1 + n) : off + i \in (PromptLen(id) + 1)..Total(id)
                                  /\ i \in 1..(1 + extra)
      /\ \A r \in 1..(1 + extra) : off + r <= PromptLen(id) => r <= 1 + n
  <2>1. seqs[id].tokens \in Nat /\ PromptLen(id) \in Nat \ {0}
    BY <1>1, BaseFacts
  <2>2. RowCase(PromptLen(id), active[id].generated, Total(id), extra, off, seqs[id].tokens, n)
    BY <1>4, <2>1 DEF RowCase
  <2>3. RowFit(PromptLen(id), Total(id), extra, off, seqs[id].tokens, n)
    BY <2>2, RowsFit
  <2> QED BY <2>3 DEF RowFit
<1>6. /\ AnySeq(rows) /\ Len(rows) = 1 + extra /\ DOMAIN rows = 1..(1 + extra)
      /\ \A i \in 1..(1 + extra) : rows[i] = IF i <= 1 + n THEN Sampled ELSE Rejected
  <2>1. rows \in Seq({Sampled, Rejected}) /\ Len(rows) = 1 + extra
    BY <1>3, <1>4 DEF RowsOf
  <2> QED BY <1>3, <2>1 DEF RowsOf, AnySeq
<1>7. Follows(rows, 1 + n, id, off)
  <2> SUFFICES ASSUME NEW i \in 1..(1 + n) PROVE rows[i] = Text(id)[off + i]
    BY DEF Follows
  <2>1. i \in 1..(1 + extra) /\ i <= 1 + n
    BY <1>5
  <2>3. rows[i] = Sampled
    BY <1>6, <2>1
  <2>2. off + i \in (PromptLen(id) + 1)..Total(id)
    BY <1>5
  <2>4. Text(id)[off + i] = Sampled
    BY <2>2, WholeFacts
  <2> QED BY <2>3, <2>4
<1>8. ASSUME NEW r \in 0..(1 + n) PROVE h \o SubSeq(rows, 1, r) = History(id, off + r)
  <2>1. PICK z : z = 1 + n
    OBVIOUS
  <2>4. z \in Nat /\ z <= Len(rows) /\ off + z <= Total(id) /\ r \in 0..z
        /\ Follows(rows, z, id, off)
    BY <1>5, <1>6, <1>7, <2>1
  <2>2. AnySeq(rows)
    BY <1>6
  <2>5. off \in Nat
    BY <1>4
  <2>3. History(id, off) \o SubSeq(rows, 1, r) = History(id, off + r)
    BY <2>2, <2>4, <2>5, RowsRight
  <2> QED BY <1>3, <2>3
<1>9. PICK g : g = History(id, off + (1 + n))
  OBVIOUS
<1>10. h \o SubSeq(rows, 1, 1 + n) = g
  BY <1>5, <1>8, <1>9, SMTT(30)
<1>11. PICK d : d = [dev EXCEPT !.slots[Draft] = dev.slots[slot]]
  OBVIOUS
<1>12. dev = [kv |-> dev.kv, slots |-> dev.slots, snaps |-> dev.snaps, copy |-> dev.copy]
  BY DEF DevShape
<1>13. /\ DOMAIN dev.slots = Slots \cup {Draft}
       /\ \A x \in Slots \cup {Draft} : StateShape(dev.slots[x])
  BY DEF DevShape
<1>14. /\ d.kv = dev.kv /\ d.slots = [dev.slots EXCEPT ![Draft] = dev.slots[slot]]
       /\ d.snaps = dev.snaps /\ d.copy = dev.copy
       /\ d = [kv |-> d.kv, slots |-> d.slots, snaps |-> d.snaps, copy |-> d.copy]
  BY <1>11, <1>12
<1>15. /\ d.slots[Draft] = dev.slots[slot] /\ DOMAIN d.slots = Slots \cup {Draft}
       /\ \A x \in Slots : d.slots[x] = dev.slots[x]
  BY <1>13, <1>14, EngineAssumption DEF EngineAssumption
<1>16. DevShape(d)
  <2>1. \A x \in Slots \cup {Draft} : StateShape(d.slots[x])
    BY <1>4, <1>13, <1>15
  <2> QED BY <1>14, <1>15, <2>1 DEF DevShape
<1>17. IsState(dev.slots[slot], h)
  BY <1>3 DEF StateRight
<1>18. ScanStart(d, Draft, off, {}).state = h /\ ConvStart(d, Draft, {}) = h
  BY <1>3, <1>14, <1>15, <1>17 DEF ScanStart, ConvStart, IsState
<1>19. PICK f : f = Verified(id, rows)
  OBVIOUS
<1>20. f = Scan(d, Draft, t, off, rows, {}, {})
  BY <1>3, <1>4, <1>11, <1>19 DEF Verified
<1>21. Scanned(d, f, Draft, t, off, rows, {}, h)
  <2>1. Draft \in Slots \cup {Draft}
    OBVIOUS
  <2> QED BY <1>16, <1>18, <1>20, <2>1, ScanFacts
<1>22. /\ DevShape(f)
       /\ f.kv = Written(dev.kv, t, off, [r \in DOMAIN rows |-> h \o SubSeq(rows, 1, r)])
       /\ IsState(f.slots[Draft], h \o rows)
       /\ \A x \in Slots : f.slots[x] = dev.slots[x]
       /\ \A s \in Snapshots : f.snaps[s] = dev.snaps[s]
       /\ f.copy.owner = Draft /\ f.copy.state = h \o rows
  BY <1>14, <1>15, <1>21, EngineAssumption DEF Scanned, EngineAssumption
<1>23. Wrote(dev.kv, id, 1 + n, f.kv)
  <2>1. PICK w : w = [r \in DOMAIN rows |-> h \o SubSeq(rows, 1, r)]
    OBVIOUS
  <2>2. DOMAIN w = 1..(1 + extra)
    BY <1>6, <2>1
  <2>5. ASSUME NEW r \in 1..(1 + n) PROVE w[r] = History(id, off + r)
    <3>1. r \in 1..(1 + extra) /\ r \in 0..(1 + n)
      BY <1>5
    <3>2. w[r] = h \o SubSeq(rows, 1, r)
      BY <1>6, <2>1, <3>1
    <3> QED BY <1>8, <3>1, <3>2
  <2>3. BlocksFor(off + (1 + extra)) <= Len(t) /\ 1 + extra \in Nat /\ 1 + n <= 1 + extra
    <3>1. seqs[id].tokens \in Nat
      BY <1>1, BaseFacts
    <3>2. BlocksFor(seqs[id].tokens) \in Nat
      BY <3>1, BlocksForMonotonic
    <3> QED BY <1>4, <1>5, <3>2
  <2>6. PICK m : m = 1 + extra
    OBVIOUS
  <2>7. /\ m \in Nat /\ 1 + n <= m /\ DOMAIN w = 1..m
        /\ BlocksFor(Base(id) + m) <= Len(seqs[id].blocks)
        /\ f.kv = Written(dev.kv, seqs[id].blocks, Base(id), w)
        /\ \A r \in 1..m : Base(id) + r <= PromptLen(id) => r <= 1 + n
    BY <1>3, <1>5, <1>22, <2>1, <2>2, <2>3, <2>6
  <2>8. \A r \in 1..(1 + n) : w[r] = History(id, Base(id) + r)
    BY <1>3, <2>5
  <2> QED BY <2>7, <2>8 DEF Wrote
<1>24. f = [kv |-> f.kv, slots |-> f.slots, snaps |-> f.snaps, copy |-> f.copy]
       /\ DOMAIN f.slots = Slots \cup {Draft}
       /\ \A x \in Slots \cup {Draft} : StateShape(f.slots[x])
  BY <1>22 DEF DevShape
<1>25. e = Committed(f, slot, rows, 1 + n)
  BY <1>3, <1>19, SMTT(30)
<1>26. ASSUME NEW after, StateShape(after), IsState(after, g), NEW copy,
              copy = [owner |-> copy.owner, state |-> copy.state, rough |-> copy.rough],
              copy.owner \in Slots \cup {Draft, Nobody},
              e = [f EXCEPT !.slots[slot] = after, !.copy = copy],
              copy.owner = Draft \/ (copy.owner = slot /\ copy.state = g),
              copy.owner = Draft => copy.state = g
       PROVE  Ran(dev, e, id, 1 + n) /\ (e.copy.owner = Draft => e.copy.state = g)
  <2>1. /\ e.kv = f.kv /\ e.slots = [f.slots EXCEPT ![slot] = after]
        /\ e.snaps = f.snaps /\ e.copy = copy
        /\ e = [kv |-> e.kv, slots |-> e.slots, snaps |-> e.snaps, copy |-> e.copy]
    BY <1>24, <1>26
  <2>2. /\ e.slots[slot] = after /\ DOMAIN e.slots = Slots \cup {Draft}
        /\ \A x \in Slots \cup {Draft} : x # slot => e.slots[x] = f.slots[x]
    BY <1>4, <1>24, <2>1
  <2>3. \A x \in Slots \cup {Draft} : StateShape(e.slots[x])
    BY <1>24, <1>26, <2>2
  <2>4. DOMAIN f.kv = Pages /\ DOMAIN f.snaps = Snapshots
    BY <1>22 DEF DevShape
  <2>5. DevShape(e)
    BY <1>26, <2>1, <2>2, <2>3, <2>4 DEF DevShape
  <2>6. \A s \in Snapshots : s \notin SavedOf(id)
    <3>1. \A save \in Range(batch.saves) : save.id \in Range(ChunkIds)
      BY DEF Known0, SInv, SavePart
    <3>2. id \notin Range(ChunkIds)
      BY <1>1 DEF Known0, SInv, BatchPart, WithPhase
    <3> QED BY <3>1, <3>2 DEF SavedOf
  <2>7. \A x \in Slots \ {slot} : e.slots[x] = dev.slots[x]
    BY <1>22, <2>2
  <2> QED BY <1>2, <1>3, <1>9, <1>22, <1>23, <1>26, <2>1, <2>2, <2>5, <2>6, <2>7 DEF Ran
<1>29. g = History(id, Base(id) + 1 + n)
  BY <1>3, <1>5, <1>9
<1>27. CASE 1 + n = Len(rows)
  <2>1. h \o rows = g
    <3>1. SubSeq(rows, 1, 1 + n) = rows
      BY <1>6, <1>27, Begun, <1>5
    <3> QED BY <1>10, <3>1
  <2>2. e = [f EXCEPT !.slots[slot] = f.slots[Draft]]
    BY <1>25, <1>27 DEF Committed
  <2>3. e = [f EXCEPT !.slots[slot] = f.slots[Draft], !.copy = f.copy]
    BY <1>24, <2>2
  <2>4. StateShape(f.slots[Draft]) /\ IsState(f.slots[Draft], g)
    BY <1>22, <1>24, <2>1
  <2>5. /\ f.copy = [owner |-> f.copy.owner, state |-> f.copy.state, rough |-> f.copy.rough]
        /\ f.copy.owner = Draft /\ f.copy.state = g
    BY <1>22, <2>1, SMTT(30) DEF DevShape
  <2>6. Ran(dev, e, id, 1 + n) /\ (e.copy.owner = Draft => e.copy.state = g)
    BY <1>26, <2>3, <2>4, <2>5, Zenon
  <2> QED BY <1>29, <2>6
<1>28. CASE 1 + n # Len(rows)
  <2>1. PICK after : after = [f.slots[slot] EXCEPT !.state = @ \o SubSeq(rows, 1, 1 + n),
                                                    !.conv = @ \o SubSeq(rows, 1, 1 + n)]
    OBVIOUS
  <2>2. StateShape(f.slots[slot]) /\ IsState(f.slots[slot], h)
    BY <1>4, <1>17, <1>22, <1>24
  <2>4. StateShape(after) /\ IsState(after, g)
    <3>1. PICK u : u = SubSeq(rows, 1, 1 + n)
      OBVIOUS
    <3>2. g = h \o u /\ after = [f.slots[slot] EXCEPT !.state = @ \o u, !.conv = @ \o u]
      BY <1>10, <2>1, <3>1
    <3>3. f.slots[slot].state = h /\ f.slots[slot].conv = h
      BY <2>2 DEF IsState
    <3>4. after = [f.slots[slot] EXCEPT !.state = g, !.conv = g]
      BY <3>2, <3>3
    <3> QED BY <2>2, <3>4, StateChanged, Zenon
  <2>3. after.state = g
    BY <2>4 DEF IsState
  <2>5. PICK copy : copy = [owner |-> slot, state |-> after.state, rough |-> after.rough]
    OBVIOUS
  <2>6. e = [f EXCEPT !.slots[slot] = after, !.copy = copy]
    BY <1>25, <1>28, <2>1, <2>5 DEF Committed
  <2>7. /\ copy = [owner |-> copy.owner, state |-> copy.state, rough |-> copy.rough]
        /\ copy.owner = slot /\ copy.state = g /\ copy.owner \in Slots \cup {Draft, Nobody}
    BY <1>4, <2>3, <2>5, SMTT(30)
  <2>8. Ran(dev, e, id, 1 + n) /\ (e.copy.owner = Draft => e.copy.state = g)
    BY <1>26, <2>4, <2>6, <2>7, Zenon
  <2> QED BY <1>29, <2>8
<1> QED BY <1>27, <1>28

-----------------------------------------------------------------------------
(* What execute_layout does before any row runs.                           *)

\* The pages the restores of the batch copy.
Copies == UNION {r.op.copy : r \in Range(batch.restores)}

\* The page pair c is copied for the restore r of id.
CopyBy(id, r, c) ==
  /\ id \in DOMAIN active /\ r \in active[id].restore /\ id \in BatchIds
  /\ r.copy = {c} /\ OwnPage(id, c[2])

\* A page is copied for a restore, into a page only its request has.
LEMMA CopyOwner ==
  ASSUME Known0, RestoresRight, NEW c \in Copies
  PROVE  \E id, r : CopyBy(id, r, c)
<1>1. PICK r \in Range(batch.restores) : c \in r.op.copy
  BY DEF Copies
<1>2. r.id \in Range(ChunkIds) /\ r.op \in active[r.id].restore
  BY DEF Known0, SInv, RestorePart
<1>3. r.id \in DOMAIN active
  BY <1>2 DEF Known0, SInv, BatchPart, WithPhase
<1>4. r.id \in BatchIds
  BY <1>2, <1>3 DEF BatchIds, InBatch
<1>5. r.op.copy = {c} /\ OwnPage(r.id, c[2])
  BY <1>1, <1>2, <1>3 DEF RestoresRight, RestoreRight
<1>6. CopyBy(r.id, r.op, c)
  BY <1>2, <1>3, <1>4, <1>5 DEF CopyBy
<1> QED BY <1>6

\* The pages copied to are different ones.
LEMMA CopiesApart ==
  ASSUME Known0, RestoresRight, NEW c \in Copies, NEW e \in Copies, c[2] = e[2]
  PROVE  c = e
<1>1. PICK i, r : CopyBy(i, r, c)
  BY CopyOwner
<1>2. PICK j, q : CopyBy(j, q, e)
  BY CopyOwner
<1>3. i = j
  BY <1>1, <1>2 DEF CopyBy, OwnPage
<1>4. active[i].restore \in {{}} \cup {{x} : x \in RestoreOp}
  BY <1>1, RequestFacts DEF CopyBy, Known0, SInv, Record
<1>5. r = q
  BY <1>1, <1>2, <1>3, <1>4 DEF CopyBy
<1> QED BY <1>1, <1>2, <1>5 DEF CopyBy

\* From kv to v the pages of the batch's restores have been copied.
CopiedTo(kv, v) ==
  /\ DOMAIN v = Pages
  /\ \A b \in Pages : (\A c \in Copies : c[2] # b) => v[b] = kv[b]
  /\ \A c \in Copies : v[c[2]] = kv[c[1]]

\* What CopyBlocks does.
LEMMA CopyFacts ==
  ASSUME Known0, RestoresRight, DevShape(dev), NEW d, d = CopyBlocks(dev)
  PROVE  /\ CopiedTo(dev.kv, d.kv) /\ d.slots = dev.slots /\ d.snaps = dev.snaps
         /\ d.copy = dev.copy
         /\ d = [kv |-> d.kv, slots |-> d.slots, snaps |-> d.snaps, copy |-> d.copy]
<1>1. PICK v : v = [b \in Pages |-> IF \E c \in Copies : c[2] = b
                                    THEN dev.kv[(CHOOSE c \in Copies : c[2] = b)[1]]
                                    ELSE dev.kv[b]]
  OBVIOUS
<1>2. d = [dev EXCEPT !.kv = v]
  BY <1>1 DEF CopyBlocks, Copies
<1>3. dev = [kv |-> dev.kv, slots |-> dev.slots, snaps |-> dev.snaps, copy |-> dev.copy]
  BY DEF DevShape
<1>4. /\ d.kv = v /\ d.slots = dev.slots /\ d.snaps = dev.snaps /\ d.copy = dev.copy
      /\ d = [kv |-> d.kv, slots |-> d.slots, snaps |-> d.snaps, copy |-> d.copy]
  BY <1>2, <1>3
<1>5. \A b \in Pages : (\A c \in Copies : c[2] # b) => v[b] = dev.kv[b]
  BY <1>1
<1>6. ASSUME NEW c \in Copies PROVE v[c[2]] = dev.kv[c[1]]
  <2>1. c[2] \in Pages
    <3>1. PICK id \in DOMAIN active : OwnPage(id, c[2])
      BY CopyOwner DEF CopyBy
    <3>2. seqs[id].blocks \in Seq(Pages)
      BY BaseFacts
    <3> QED BY <3>1, <3>2 DEF OwnPage, Range
  <2>2. (CHOOSE e \in Copies : e[2] = c[2]) = c
    <3>1. PICK e : e = (CHOOSE x \in Copies : x[2] = c[2])
      OBVIOUS
    <3>2. e \in Copies /\ e[2] = c[2]
      BY <3>1
    <3> QED BY <3>1, <3>2, CopiesApart
  <2> QED BY <1>1, <2>1, <2>2
<1>7. DOMAIN v = Pages
  BY <1>1
<1>8. CopiedTo(dev.kv, v)
  BY <1>5, <1>6, <1>7 DEF CopiedTo
<1> QED BY <1>4, <1>8

\* A table without the pages copied to holds what it held.
LEMMA NotCopied ==
  ASSUME NEW kv, NEW v, CopiedTo(kv, v), NEW t \in Seq(Pages), NEW h, AnySeq(h),
         BlocksFor(Len(h)) <= Len(t), \A c \in Copies : c[2] \notin Range(t),
         HoldsIn(kv, t, h)
  PROVE  HoldsIn(v, t, h)
<1> SUFFICES ASSUME NEW p \in 1..Len(h)
             PROVE  v[t[PageOf(p)]][CellOf(p)] = SubSeq(h, 1, p)
  BY DEF HoldsIn
<1>1. Len(h) \in Nat
  BY JoinedSeqs
<1>2. PageOf(p) \in 1..Len(t)
  <2>1. PageOf(p) \in 1..BlocksFor(Len(h)) /\ BlocksFor(Len(h)) \in Nat
    BY <1>1, PlaceInTable
  <2> QED BY <2>1
<1>3. PICK b : b = t[PageOf(p)]
  OBVIOUS
<1>4. b \in Pages /\ b \in Range(t)
  BY <1>2, <1>3 DEF Range
<1>5. v[b] = kv[b]
  BY <1>4 DEF CopiedTo
<1> QED BY <1>3, <1>5 DEF HoldsIn

\* So do a request that is due no restore, and an entry.
LEMMA CopyLeaves ==
  ASSUME Known0, RestoresRight
  PROVE  /\ \A id \in DOMAIN active : active[id].restore = {} =>
              \A c \in Copies : c[2] \notin Range(seqs[id].blocks)
         /\ \A s \in DOMAIN entries : \A c \in Copies : c[2] \notin Range(entries[s].blocks)
<1> SUFFICES ASSUME NEW c \in Copies
             PROVE  /\ \A id \in DOMAIN active :
                         active[id].restore = {} => c[2] \notin Range(seqs[id].blocks)
                    /\ \A s \in DOMAIN entries : c[2] \notin Range(entries[s].blocks)
  OBVIOUS
<1>1. PICK id, r : CopyBy(id, r, c)
  BY CopyOwner
<1> QED BY <1>1 DEF CopyBy, OwnPage

\* A request of the batch that is due a restore holds its entry's tokens then.
LEMMA CopyRestores ==
  ASSUME Known0, RestoresRight, NEW kv, NEW v, CopiedTo(kv, v),
         \A s \in DOMAIN entries : HoldsIn(kv, entries[s].blocks, entries[s].tokens),
         NEW id \in BatchIds, NEW r \in active[id].restore
  PROVE  HoldsIn(v, seqs[id].blocks, History(id, Base(id)))
<1>1. id \in DOMAIN active /\ InBatch(id)
  BY DEF BatchIds
<1>2. /\ Known(id) /\ ~Decoding(id)
  <2>1. Known(id)
    BY <1>1, RequestFacts DEF Known0, SInv
  <2> QED BY <2>1 DEF Known, Decoding
<1>3. /\ id \in Ids /\ Base(id) \in Nat /\ Base(id) = active[id].prefilled
      /\ Base(id) <= PromptLen(id) /\ Base(id) <= Total(id) /\ Base(id) <= seqs[id].tokens
      /\ seqs[id].blocks \in Seq(Pages) /\ seqs[id].tokens \in Nat
      /\ Len(seqs[id].blocks) = BlocksFor(seqs[id].tokens)
  BY <1>1, <1>2, BaseFacts DEF Known
<1>4. PICK n, t, u, h : /\ n = Base(id) /\ t = seqs[id].blocks
                        /\ u = entries[r.snapshot].blocks /\ h = History(id, n)
  OBVIOUS
<1>5. AnySeq(h) /\ Len(h) = n /\ n \in Nat
      /\ h = SubSeq(Request(id).prompt, 1, n)
  <2>1. n \in 0..Total(id)
    BY <1>3, <1>4, WholeFacts
  <2> QED BY <1>3, <1>4, <2>1, HistoryFacts, SMTT(30)
<1>6. /\ r.snapshot \in DOMAIN entries /\ entries[r.snapshot].tokens = h
      /\ \A m \in 1..BlocksFor(n) : t[m] = u[m] \/ r.copy = {<<u[m], t[m]>>}
  BY <1>1, <1>3, <1>4, <1>5 DEF RestoresRight, RestoreRight
<1>7. HoldsIn(kv, u, h)
  BY <1>4, <1>6
<1>8. u \in Seq(Pages) /\ Len(u) = BlocksFor(n)
  BY <1>4, <1>5, <1>6, CacheFacts DEF Known0
<1>9. \A c \in r.copy : c \in Copies
  <2>1. id \in Range(ChunkIds)
    BY <1>1, <1>2 DEF InBatch, Known0, SInv, BatchPart, WithPhase, Decoding
  <2>2. [id |-> id, op |-> r] \in Range(batch.restores)
    BY <2>1 DEF Known0, SInv, RestorePart
  <2>3. [id |-> id, op |-> r].op = r
    OBVIOUS
  <2> QED BY <2>2, <2>3 DEF Copies
<1>10. ASSUME NEW p \in 1..n PROVE v[t[PageOf(p)]][CellOf(p)] = SubSeq(h, 1, p)
  <2>1. PICK m : m = PageOf(p)
    OBVIOUS
  <2>2. m \in 1..BlocksFor(n) /\ BlocksFor(n) \in Nat
    BY <1>5, <2>1, PlaceInTable
  <2>3. kv[u[m]][CellOf(p)] = SubSeq(h, 1, p)
    BY <1>5, <1>7, <2>1 DEF HoldsIn
  <2>4. CASE r.copy = {<<u[m], t[m]>>}
    <3>1. PICK c : c = <<u[m], t[m]>>
      OBVIOUS
    <3>2. c \in Copies /\ c[1] = u[m] /\ c[2] = t[m]
      BY <1>9, <2>4, <3>1
    <3>3. v[t[m]] = kv[u[m]]
      BY <3>2 DEF CopiedTo
    <3> QED BY <2>1, <2>3, <3>3
  <2>5. CASE t[m] = u[m]
    <3>1. u[m] \in Pages /\ u[m] \in Range(u)
      BY <1>8, <2>2 DEF Range
    <3>2. \A c \in Copies : c[2] # u[m]
      BY <1>4, <1>6, <3>1, CopyLeaves
    <3>3. v[u[m]] = kv[u[m]]
      BY <3>1, <3>2 DEF CopiedTo
    <3> QED BY <2>1, <2>3, <2>5, <3>3
  <2> QED BY <1>6, <2>2, <2>4, <2>5
<1> QED BY <1>4, <1>5, <1>10 DEF HoldsIn

\* reset_slot leaves a state that nothing was computed from, and the working
\* copy is of no slot that was reset.
ResetTo(d, e) ==
  /\ e = [kv |-> e.kv, slots |-> e.slots, snaps |-> e.snaps, copy |-> e.copy]
  /\ e.kv = d.kv /\ e.snaps = d.snaps /\ e.copy.state = d.copy.state
  /\ e.copy = [owner |-> e.copy.owner, state |-> e.copy.state, rough |-> e.copy.rough]
  /\ e.copy.owner = IF d.copy.owner \in FreshSlots THEN Nobody ELSE d.copy.owner
  /\ DOMAIN e.slots = Slots \cup {Draft}
  /\ \A x \in Slots \cup {Draft} :
       e.slots[x] = IF x \in FreshSlots THEN ZeroState ELSE d.slots[x]

\* What ResetSlots does.
LEMMA ResetFacts ==
  ASSUME NEW d, d = [kv |-> d.kv, slots |-> d.slots, snaps |-> d.snaps, copy |-> d.copy],
         d.copy = [owner |-> d.copy.owner, state |-> d.copy.state, rough |-> d.copy.rough],
         DOMAIN d.slots = Slots \cup {Draft}, NEW e, e = ResetSlots(d)
  PROVE  ResetTo(d, e)
<1>1. PICK w, o : /\ w = [x \in DOMAIN d.slots |->
                            IF x \in FreshSlots THEN ZeroState ELSE d.slots[x]]
                  /\ o = IF d.copy.owner \in FreshSlots THEN Nobody ELSE d.copy.owner
  OBVIOUS
<1>2. e = [d EXCEPT !.slots = w, !.copy.owner = o]
  BY <1>1 DEF ResetSlots
<1>3. PICK kv, slots, snaps, copy : /\ kv = d.kv /\ slots = d.slots /\ snaps = d.snaps
                                    /\ copy = d.copy
  OBVIOUS
<1>4. d = [kv |-> kv, slots |-> slots, snaps |-> snaps, copy |-> copy]
  BY <1>3
<1>5. e = [kv |-> kv, slots |-> w, snaps |-> snaps, copy |-> [copy EXCEPT !.owner = o]]
  BY <1>2, <1>4, Zenon
<1>6. [copy EXCEPT !.owner = o] = [owner |-> o, state |-> copy.state, rough |-> copy.rough]
  BY <1>3
<1>7. /\ e.kv = kv /\ e.snaps = snaps /\ e.slots = w
      /\ e.copy = [owner |-> o, state |-> copy.state, rough |-> copy.rough]
      /\ e = [kv |-> e.kv, slots |-> e.slots, snaps |-> e.snaps, copy |-> e.copy]
  BY <1>5, <1>6
<1>8. /\ e.copy.owner = o /\ e.copy.state = copy.state
      /\ e.copy = [owner |-> e.copy.owner, state |-> e.copy.state, rough |-> e.copy.rough]
  BY <1>7
<1>9. /\ DOMAIN w = Slots \cup {Draft}
      /\ \A x \in Slots \cup {Draft} : w[x] = IF x \in FreshSlots THEN ZeroState ELSE d.slots[x]
  BY <1>1
<1> QED BY <1>1, <1>3, <1>7, <1>8, <1>9 DEF ResetTo

\* The slots that are reset are those of requests that start from nothing.
LEMMA FreshFacts ==
  ASSUME Known0
  PROVE  /\ FreshSlots \subseteq Slots
         /\ \A id \in DOMAIN active : seqs[id].slot \in FreshSlots => Base(id) = 0
         /\ \A id \in BatchIds : Base(id) = 0 => seqs[id].slot \in FreshSlots
<1>1. ASSUME NEW c \in Range(batch.prefill)
      PROVE  /\ c.id \in DOMAIN active /\ ~Decoding(c.id) /\ Base(c.id) = c.offset
             /\ seqs[c.id].slot \in Slots
  BY ChunkFacts, BaseFacts DEF Known0
<1>2. FreshSlots \subseteq Slots
  BY <1>1 DEF FreshSlots
<1>3. ASSUME NEW id \in DOMAIN active, seqs[id].slot \in FreshSlots PROVE Base(id) = 0
  <2>1. PICK c \in Range(batch.prefill) : c.offset = 0 /\ seqs[c.id].slot = seqs[id].slot
    BY <1>3 DEF FreshSlots
  <2>2. c.id = id
    BY <1>1, <2>1, SlotsApart
  <2> QED BY <1>1, <2>1, <2>2
<1>4. ASSUME NEW id \in BatchIds, Base(id) = 0 PROVE seqs[id].slot \in FreshSlots
  <2>1. id \in DOMAIN active
    BY DEF BatchIds
  <2>2. ~Decoding(id)
    BY <1>4, <2>1, BaseFacts
  <2>3. PICK c \in Range(batch.prefill) : c.id = id
    BY <2>2, BatchOfTwo DEF Known0
  <2>4. c.offset = 0
    BY <1>1, <1>4, <2>3
  <2> QED BY <2>3, <2>4 DEF FreshSlots
<1> QED BY <1>2, <1>3, <1>4

\* After apply_prefix_ops and the resets every request of the batch can run.
LEMMA Prepared ==
  ASSUME Known0, RestoresRight, DevShape(dev), Right(dev, {}, 0, {}), EntriesIn(dev),
         NEW e, e = ResetSlots(CopyBlocks(dev))
  PROVE  Partial(e, {}, 0) /\ (e.copy.owner = Draft <=> dev.copy.owner = Draft)
         /\ e.copy.state = dev.copy.state
<1>1. PICK d : d = CopyBlocks(dev)
  OBVIOUS
<1>2. /\ CopiedTo(dev.kv, d.kv) /\ d.slots = dev.slots /\ d.snaps = dev.snaps
      /\ d.copy = dev.copy
      /\ d = [kv |-> d.kv, slots |-> d.slots, snaps |-> d.snaps, copy |-> d.copy]
  BY <1>1, CopyFacts
<1>3. /\ dev.copy = [owner |-> dev.copy.owner, state |-> dev.copy.state,
                     rough |-> dev.copy.rough]
      /\ DOMAIN dev.slots = Slots \cup {Draft} /\ DOMAIN dev.snaps = Snapshots
      /\ \A x \in Slots \cup {Draft} : StateShape(dev.slots[x])
      /\ dev.copy.owner \in Slots \cup {Draft, Nobody}
  BY DEF DevShape
<1>4. ResetTo(d, e)
  <2>1. d.copy = [owner |-> d.copy.owner, state |-> d.copy.state, rough |-> d.copy.rough]
    BY <1>2, <1>3
  <2>2. DOMAIN d.slots = Slots \cup {Draft}
    BY <1>2, <1>3
  <2>3. e = ResetSlots(d)
    BY <1>1
  <2> QED BY <1>2, <2>1, <2>2, <2>3, ResetFacts
<1>5. FreshSlots \subseteq Slots /\ Draft \notin FreshSlots /\ Nobody \notin FreshSlots
  BY FreshFacts, EngineAssumption DEF EngineAssumption
<1>6. /\ e.kv = d.kv /\ e.snaps = dev.snaps /\ e.copy.state = dev.copy.state
      /\ e.copy.owner = IF dev.copy.owner \in FreshSlots THEN Nobody ELSE dev.copy.owner
      /\ \A x \in Slots \cup {Draft} :
           e.slots[x] = IF x \in FreshSlots THEN ZeroState ELSE dev.slots[x]
  BY <1>2, <1>4 DEF ResetTo
<1>7. e.copy.owner = Draft <=> dev.copy.owner = Draft
  BY <1>5, <1>6, EngineAssumption DEF EngineAssumption
<1>8. DevShape(e)
  <2>1. StateShape(ZeroState)
    <3>1. /\ ZeroState.state = <<>> /\ ZeroState.conv = <<>> /\ ZeroState.rough = FALSE
      BY DEF ZeroState
    <3> QED BY <3>1 DEF StateShape, ZeroState
  <2>2. \A x \in Slots \cup {Draft} : StateShape(e.slots[x])
    BY <1>3, <1>6, <2>1
  <2>3. e.copy.owner \in Slots \cup {Draft, Nobody}
    BY <1>3, <1>6
  <2>4. DOMAIN e.kv = Pages /\ DOMAIN e.snaps = Snapshots
    BY <1>2, <1>3, <1>6 DEF CopiedTo
  <2> QED BY <1>4, <2>2, <2>3, <2>4 DEF DevShape, ResetTo
<1>9. EntriesIn(e)
  <2> SUFFICES ASSUME NEW s \in DOMAIN entries PROVE EntryIn(e, s)
    BY DEF EntriesIn
  <2>1. EntryIn(dev, s)
    BY DEF EntriesIn
  <2>2. /\ entries[s].blocks \in Seq(Pages) /\ AnySeq(entries[s].tokens)
        /\ Len(entries[s].blocks) = BlocksFor(Len(entries[s].tokens))
        /\ Len(entries[s].tokens) \in Nat
    BY CacheFacts DEF Known0, AnySeq
  <2>3. BlocksFor(Len(entries[s].tokens)) <= Len(entries[s].blocks)
    BY <2>2, BlocksForMonotonic
  <2>4. \A c \in Copies : c[2] \notin Range(entries[s].blocks)
    BY CopyLeaves
  <2>5. HoldsIn(d.kv, entries[s].blocks, entries[s].tokens)
    BY <1>2, <2>1, <2>2, <2>3, <2>4, NotCopied DEF EntryIn
  <2> QED BY <1>6, <2>1, <2>5 DEF EntryIn
<1>10. ASSUME NEW id \in DOMAIN active PROVE RightOf(e, id, Count(id, {}, 0), {}, BatchIds)
  <2>1. PICK n : n = Base(id)
    OBVIOUS
  <2>2. /\ Count(id, {}, 0) = n /\ n \in Nat /\ id \in Ids /\ n <= Total(id)
        /\ BlocksFor(n) <= Len(seqs[id].blocks) /\ seqs[id].blocks \in Seq(Pages)
        /\ seqs[id].slot \in Slots
    <3>1. {} \in SUBSET BatchIds /\ 0 \in 0..extra
      BY BaseFacts
    <3>2. Count(id, {}, 0) = n
      BY <2>1, <3>1, CountFacts
    <3>3. n \in Nat /\ n <= Total(id) /\ BlocksFor(n) <= Len(seqs[id].blocks)
      BY <3>1, <3>2, CountFacts
    <3> QED BY <2>1, <3>2, <3>3, BaseFacts
  <2>3. RightOf(dev, id, n, {}, {})
    BY <2>2 DEF Right
  <2>4. active[id].restore = {} => Held(e, id, n)
    <3> HAVE active[id].restore = {}
    <3>1. HoldsIn(dev.kv, seqs[id].blocks, History(id, n))
      BY <2>3 DEF RightOf, Held
    <3>2. AnySeq(History(id, n)) /\ Len(History(id, n)) = n
      <4>1. n \in 0..Total(id)
        BY <2>2, WholeFacts
      <4> QED BY <2>2, <4>1, HistoryFacts
    <3>3. \A c \in Copies : c[2] \notin Range(seqs[id].blocks)
      BY CopyLeaves
    <3>4. HoldsIn(d.kv, seqs[id].blocks, History(id, n))
      BY <1>2, <2>2, <3>1, <3>2, <3>3, NotCopied
    <3> QED BY <1>6, <3>4 DEF Held
  <2>5. active[id].restore # {} /\ id \in BatchIds => Held(e, id, n)
    <3> SUFFICES ASSUME active[id].restore # {}, id \in BatchIds PROVE Held(e, id, n)
      OBVIOUS
    <3>1. PICK r \in active[id].restore : TRUE
      OBVIOUS
    <3>2. \A s \in DOMAIN entries : HoldsIn(dev.kv, entries[s].blocks, entries[s].tokens)
      BY DEF EntriesIn, EntryIn
    <3>3. HoldsIn(d.kv, seqs[id].blocks, History(id, Base(id)))
      BY <1>2, <3>1, <3>2, CopyRestores
    <3> QED BY <1>6, <2>1, <3>3 DEF Held
  <2>6. ASSUME active[id].restore = {}, n > 0 \/ id \in BatchIds PROVE StateRight(e, id, n)
    <3>1. CASE seqs[id].slot \in FreshSlots
      <4>1. n = 0
        BY <2>1, <3>1, FreshFacts
      <4>2. History(id, n) = <<>>
        <5>1. n \in 0..Total(id) /\ n = 0
          BY <2>2, <4>1, WholeFacts
        <5> QED BY <2>2, <5>1, HistoryFacts
      <4>3. e.slots[seqs[id].slot] = ZeroState
        BY <1>6, <2>2, <3>1
      <4>4. e.copy.owner # seqs[id].slot
        BY <1>5, <1>6, <3>1
      <4> QED BY <4>2, <4>3, <4>4 DEF StateRight, IsState, ZeroState
    <3>2. CASE seqs[id].slot \notin FreshSlots
      <4>1. n > 0
        <5>1. n = 0 => id \notin BatchIds
          BY <2>1, <3>2, FreshFacts
        <5> QED BY <2>2, <2>6, <5>1
      <4>2. StateRight(dev, id, n)
        BY <2>3, <2>6, <4>1 DEF RightOf
      <4>3. e.slots[seqs[id].slot] = dev.slots[seqs[id].slot]
        BY <1>6, <2>2, <3>2
      <4>4. e.copy.owner = seqs[id].slot => dev.copy.owner = seqs[id].slot
        BY <1>6, <2>2, EngineAssumption DEF EngineAssumption
      <4> QED BY <1>6, <4>2, <4>3, <4>4 DEF StateRight
    <3> QED BY <3>1, <3>2
  <2> QED BY <2>2, <2>4, <2>5, <2>6 DEF RightOf
<1>11. Right(e, {}, 0, BatchIds)
  BY <1>10 DEF Right
<1>12. SavedIn(e, {})
  BY DEF SavedIn
<1> QED BY <1>6, <1>7, <1>8, <1>9, <1>11, <1>12 DEF Partial

-----------------------------------------------------------------------------
(* The batch runs for one request after the other.                         *)

\* One element of a batch runs: a decoded row or a chunk.
RunOne(kind, d, x) == IF kind = "decode" THEN DecodeRow(d, x) ELSE ScanChunk(d, x)

\* g[U] is what is left of b once the elements of s at the places of U have run.
Running(kind, b, s, D, g) ==
  g = [U \in D |-> IF U = {} THEN b ELSE RunOne(kind, g[U \ {Max(U)}], s[Max(U)])]

\* Running is defined: some function satisfies its recursion on the subsets of S.
LEMMA RunningExists ==
  ASSUME NEW kind, NEW b, NEW s, NEW S \in SUBSET Nat, IsFiniteSet(S)
  PROVE  \E g : Running(kind, b, s, SUBSET S, g)
<1> DEFINE T == {n \in Nat : \E g : Running(kind, b, s, Smaller(S, n), g)}
<1>0. \A U \in SUBSET S : IsFiniteSet(U) /\ Cardinality(U) \in Nat
           /\ Cardinality(U) <= Cardinality(S)
  BY FS_Subset, FS_CardinalityType
<1>a. \A U \in SUBSET S : U # {} =>
        /\ Max(U) \in U /\ U \ {Max(U)} \in SUBSET S
        /\ Cardinality(U \ {Max(U)}) = Cardinality(U) - 1
  <2> SUFFICES ASSUME NEW U \in SUBSET S, U # {}
               PROVE  /\ Max(U) \in U /\ U \ {Max(U)} \in SUBSET S
                      /\ Cardinality(U \ {Max(U)}) = Cardinality(U) - 1
    OBVIOUS
  <2>1. IsFiniteSet(U) /\ U \in SUBSET Nat
    BY <1>0
  <2>2. Max(U) \in U
    BY <2>1, MaxOfNats
  <2>3. Cardinality(U \ {Max(U)}) = Cardinality(U) - 1
    BY <2>1, <2>2, FS_RemoveElement
  <2> QED BY <2>2, <2>3
<1>1. 0 \in T
  <2> DEFINE g == [U \in Smaller(S, 0) |-> b]
  <2>1. \A U \in Smaller(S, 0) : U = {}
    BY <1>0, FS_EmptySet DEF Smaller
  <2>2. Running(kind, b, s, Smaller(S, 0), g)
    BY <2>1 DEF Running
  <2> QED BY <2>2
<1>2. ASSUME NEW n \in Nat, n \in T PROVE n + 1 \in T
  <2>1. PICK g : Running(kind, b, s, Smaller(S, n), g)
    BY <1>2
  <2> DEFINE h == [U \in Smaller(S, n + 1) |->
                     IF U = {} THEN b ELSE RunOne(kind, g[U \ {Max(U)}], s[Max(U)])]
  <2>2. ASSUME NEW U \in Smaller(S, n) PROVE h[U] = g[U]
    <3>1. U \in Smaller(S, n + 1)
      BY <1>0 DEF Smaller
    <3> QED BY <2>1, <3>1 DEF Running
  <2>3. ASSUME NEW U \in Smaller(S, n + 1), U # {} PROVE U \ {Max(U)} \in Smaller(S, n)
    BY <1>0, <1>a, <2>3 DEF Smaller
  <2>4. Running(kind, b, s, Smaller(S, n + 1), h)
    BY <2>2, <2>3 DEF Running
  <2> QED BY <2>4
<1>3. Cardinality(S) \in T
  <2> HIDE DEF T
  <2> QED BY <1>0, <1>1, <1>2, SetOfNaturals
<1>4. Smaller(S, Cardinality(S)) = SUBSET S
  BY <1>0 DEF Smaller
<1> QED BY <1>3, <1>4

\* The function Running defines, for all elements of s.
RunAll(kind, b, s) ==
  LET n == Len(s) IN (CHOOSE g : Running(kind, b, s, SUBSET (1..n), g))[1..n]

\* e is what is left of b once the elements of s have run one after the other.
InOrder(kind, b, s, e) ==
  \E h : /\ h[0] = b /\ e = h[Len(s)]
         /\ \A k \in 1..Len(s) : h[k] = RunOne(kind, h[k - 1], s[k])

\* They do.
LEMMA RanInOrder ==
  ASSUME NEW kind, NEW b, NEW s, AnySeq(s)
  PROVE  InOrder(kind, b, s, RunAll(kind, b, s))
<1>1. PICK n : n = Len(s)
  OBVIOUS
<1>2. n \in Nat
  BY <1>1, JoinedSeqs
<1>3. IsFiniteSet(1..n) /\ 1..n \in SUBSET Nat
  BY <1>2, FS_Interval
<1>4. PICK G : G = CHOOSE g : Running(kind, b, s, SUBSET (1..n), g)
  OBVIOUS
<1>5. Running(kind, b, s, SUBSET (1..n), G)
  BY <1>3, <1>4, RunningExists
<1>6. RunAll(kind, b, s) = G[1..n]
  BY <1>1, <1>4 DEF RunAll
<1> DEFINE h == [k \in 0..n |-> G[1..k]]
<1>7. h[0] = b
  <2>1. {} \in SUBSET (1..n) /\ 1..0 = {} /\ 0 \in 0..n
    BY <1>2
  <2>2. G[{}] = b
    BY <1>5, <2>1 DEF Running
  <2> QED BY <2>1, <2>2
<1>8. h[n] = G[1..n]
  BY <1>2
<1>9. ASSUME NEW k \in 1..n PROVE h[k] = RunOne(kind, h[k - 1], s[k])
  <2>1. k \in Nat /\ k - 1 \in 0..n /\ k \in 0..n
    BY <1>2
  <2>2. 1..k \in SUBSET (1..n) /\ 1..k # {}
    BY <1>2, <2>1
  <2>3. Max(1..k) = k
    <3>1. k \in 1..k /\ \A i \in 1..k : i <= k
      BY <2>1
    <3>2. IsFiniteSet(1..k) /\ 1..k \in SUBSET Nat
      BY <2>1, FS_Interval
    <3>3. Max(1..k) \in 1..k /\ \A i \in 1..k : i <= Max(1..k)
      BY <2>2, <3>2, MaxOfNats
    <3> QED BY <2>1, <3>1, <3>3
  <2>4. (1..k) \ {k} = 1..(k - 1)
    BY <2>1
  <2>5. G[1..k] = RunOne(kind, G[(1..k) \ {Max(1..k)}], s[Max(1..k)])
    BY <1>5, <2>2 DEF Running
  <2>6. h[k] = G[1..k] /\ h[k - 1] = G[1..(k - 1)]
    BY <2>1
  <2> QED BY <2>3, <2>4, <2>5, <2>6
<1>10. /\ h[0] = b /\ RunAll(kind, b, s) = h[Len(s)]
       /\ \A k \in 1..Len(s) : h[k] = RunOne(kind, h[k - 1], s[k])
  BY <1>1, <1>6, <1>7, <1>8, <1>9
<1> HIDE DEF h
<1> QED BY <1>10 DEF InOrder

\* The two loops of execute_layout are that.
LEMMA LoopsRun ==
  ASSUME NEW b, NEW s, AnySeq(s)
  PROVE  /\ FoldLeft(DecodeRow, b, s) = RunAll("decode", b, s)
         /\ FoldLeft(ScanChunk, b, s) = RunAll("prefill", b, s)
<1>1. PICK n : n = Len(s)
  OBVIOUS
<1>2. DOMAIN s = 1..n
  <2>1. PICK A : s \in Seq(A)
    BY DEF AnySeq
  <2> QED BY <1>1, <2>1, LenProperties
<1> DEFINE P(g) == g = [U \in SUBSET (1..n) |->
                          IF U = {} THEN b ELSE DecodeRow(g[U \ {Max(U)}], s[Max(U)])]
           Q(g) == g = [U \in SUBSET (1..n) |->
                          IF U = {} THEN b ELSE ScanChunk(g[U \ {Max(U)}], s[Max(U)])]
<1>3. FoldLeft(DecodeRow, b, s) = (CHOOSE g : P(g))[1..n]
  BY <1>2 DEF FoldLeft, MapThenFoldSet
<1>4. FoldLeft(ScanChunk, b, s) = (CHOOSE g : Q(g))[1..n]
  BY <1>2 DEF FoldLeft, MapThenFoldSet
<1>5. \A d, x : /\ RunOne("decode", d, x) = DecodeRow(d, x)
                /\ RunOne("prefill", d, x) = ScanChunk(d, x)
  BY DEF RunOne
<1>6. \A g : P(g) <=> Running("decode", b, s, SUBSET (1..n), g)
  BY <1>5 DEF Running
<1>7. \A g : Q(g) <=> Running("prefill", b, s, SUBSET (1..n), g)
  BY <1>5 DEF Running
<1> HIDE DEF P, Q
<1>8. (CHOOSE g : P(g)) = (CHOOSE g : Running("decode", b, s, SUBSET (1..n), g))
  BY <1>6
<1>9. (CHOOSE g : Q(g)) = (CHOOSE g : Running("prefill", b, s, SUBSET (1..n), g))
  BY <1>7
<1>10. FoldLeft(DecodeRow, b, s) = RunAll("decode", b, s)
  BY <1>1, <1>3, <1>8 DEF RunAll
<1>11. FoldLeft(ScanChunk, b, s) = RunAll("prefill", b, s)
  BY <1>1, <1>4, <1>9 DEF RunAll
<1> QED BY <1>10, <1>11

\* The elements of s at its first k places.
FirstOf(s, k) == {s[i] : i \in 1..k}

\* They grow by one element.
LEMMA FirstGrows ==
  ASSUME NEW s, AnySeq(s), IsInjective(s), NEW k \in 1..Len(s)
  PROVE  /\ FirstOf(s, k) = FirstOf(s, k - 1) \cup {s[k]} /\ s[k] \notin FirstOf(s, k - 1)
         /\ s[k] \in Range(s) /\ FirstOf(s, k - 1) \subseteq Range(s)
<1>1. PICK A : s \in Seq(A)
  BY DEF AnySeq
<1>2. DOMAIN s = 1..Len(s) /\ Len(s) \in Nat /\ k \in Nat /\ k \in 1..k
  BY <1>1, LenProperties
<1>3. 1..k = 1..(k - 1) \cup {k} /\ 1..(k - 1) \subseteq 1..Len(s) /\ k \notin 1..(k - 1)
  BY <1>2
<1>4. FirstOf(s, k) = FirstOf(s, k - 1) \cup {s[k]}
  BY <1>3 DEF FirstOf
<1>5. s[k] \notin FirstOf(s, k - 1)
  <2> SUFFICES ASSUME NEW i \in 1..(k - 1), s[i] = s[k] PROVE FALSE
    BY DEF FirstOf
  <2>1. i \in DOMAIN s /\ k \in DOMAIN s
    BY <1>2, <1>3
  <2>2. i = k
    BY <2>1 DEF IsInjective
  <2> QED BY <1>3, <2>2
<1>6. s[k] \in Range(s) /\ FirstOf(s, k - 1) \subseteq Range(s)
  BY <1>2, <1>3 DEF Range, FirstOf
<1> QED BY <1>4, <1>5, <1>6

\* All of them are the elements of s.
LEMMA FirstAll ==
  ASSUME NEW s, AnySeq(s) PROVE FirstOf(s, Len(s)) = Range(s) /\ FirstOf(s, 0) = {}
<1>1. PICK A : s \in Seq(A)
  BY DEF AnySeq
<1>2. DOMAIN s = 1..Len(s)
  BY <1>1, LenProperties
<1>3. 1..0 = {}
  OBVIOUS
<1> QED BY <1>2, <1>3 DEF FirstOf, Range

\* The decoded rows of the batch run.
LEMMA AllDecoded ==
  ASSUME Known0, SaveChunks, extra = 0, NEW d, Partial(d, {}, 0),
         NEW e, e = FoldLeft(DecodeRow, d, batch.decode)
  PROVE  Partial(e, Range(batch.decode), 0) /\ e.copy = d.copy
<1>1. PICK s, n : s = batch.decode /\ n = Len(s)
  OBVIOUS
<1>2. AnySeq(s) /\ IsInjective(s)
  BY <1>1 DEF Known0, SInv, BatchPart, BatchType, AnySeq
<1>3. n \in Nat /\ 0 \in 0..extra
  BY <1>1, <1>2, JoinedSeqs
<1>4. PICK h : /\ h[0] = d /\ e = h[n]
               /\ \A k \in 1..n : h[k] = RunOne("decode", h[k - 1], s[k])
  <2>1. e = RunAll("decode", d, s)
    BY <1>1, <1>2, LoopsRun
  <2>2. InOrder("decode", d, s, e)
    BY <1>2, <2>1, RanInOrder
  <2> QED BY <1>1, <2>2 DEF InOrder
<1> DEFINE T == {k \in Nat : k <= n => Partial(h[k], FirstOf(s, k), 0) /\ h[k].copy = d.copy}
<1>5. 0 \in T
  BY <1>2, <1>4, FirstAll
<1>6. ASSUME NEW k \in Nat, k \in T PROVE k + 1 \in T
  <2> SUFFICES ASSUME k + 1 <= n
               PROVE  Partial(h[k + 1], FirstOf(s, k + 1), 0) /\ h[k + 1].copy = d.copy
    OBVIOUS
  <2>1. Partial(h[k], FirstOf(s, k), 0) /\ h[k].copy = d.copy
    BY <1>3, <1>6
  <2>2. PICK j : j = k + 1
    OBVIOUS
  <2>3. j \in 1..n /\ j - 1 = k
    BY <1>3, <2>2
  <2>4. PICK id, f, g, X : /\ id = s[j] /\ f = h[k] /\ g = h[j] /\ X = FirstOf(s, k)
    OBVIOUS
  <2>5. /\ FirstOf(s, j) = X \cup {id} /\ id \notin X /\ id \in Range(s) /\ X \subseteq Range(s)
    BY <1>1, <1>2, <2>3, <2>4, FirstGrows
  <2>6. \A i \in Range(s) : i \in BatchIds
    BY <1>1, DecodedFacts DEF Known0
  <2>7. g = DecodeRow(f, id)
    BY <1>4, <2>3, <2>4 DEF RunOne
  <2>8. Partial(f, X, 0)
    BY <2>1, <2>4
  <2>9. X \in SUBSET BatchIds /\ id \in BatchIds
    BY <2>5, <2>6
  <2>10. Ran(f, g, id, Added(id, 0))
    BY <1>1, <2>5, <2>7, <2>8, <2>9, DecodeRan
  <2>11. Partial(g, X \cup {id}, 0)
    BY <1>3, <2>5, <2>8, <2>9, <2>10, RanKeeps
  <2>12. g.copy = f.copy
    <3>1. f = [kv |-> f.kv, slots |-> f.slots, snaps |-> f.snaps, copy |-> f.copy]
      BY <2>8 DEF Partial, DevShape
    <3> QED BY <2>7, <3>1, Zenon DEF DecodeRow
  <2> QED BY <2>1, <2>2, <2>4, <2>5, <2>11, <2>12
<1>7. n \in T
  <2> HIDE DEF T
  <2> QED BY <1>3, <1>5, <1>6, SetOfNaturals
<1>8. Partial(h[n], FirstOf(s, n), 0) /\ h[n].copy = d.copy
  BY <1>3, <1>7
<1> QED BY <1>1, <1>2, <1>4, <1>8, FirstAll

\* So do its chunks.
LEMMA AllScanned ==
  ASSUME Known0, SaveChunks, RestoresRight, NEW d, NEW Y \in SUBSET BatchIds, Partial(d, Y, 0),
         Y \cap Range(ChunkIds) = {}, NEW e, e = FoldLeft(ScanChunk, d, batch.prefill)
  PROVE  /\ Partial(e, Y \cup Range(ChunkIds), 0)
         /\ e.copy.owner = Draft => batch.prefill = <<>> /\ e.copy = d.copy
<1>1. PICK s, n, c : s = batch.prefill /\ n = Len(s) /\ c = ChunkIds
  OBVIOUS
<1>2. AnySeq(s) /\ DOMAIN s = 1..n
  <2>1. s \in Seq(Chunk)
    BY <1>1 DEF Known0, SInv, BatchPart, BatchType
  <2> QED BY <1>1, <2>1, LenProperties DEF AnySeq
<1>3. n \in Nat /\ 0 \in 0..extra
  <2>1. extra \in Nat
    BY DEF Known0, SInv, ExtraPart
  <2> QED BY <1>1, <1>2, <2>1, JoinedSeqs
<1>4. /\ AnySeq(c) /\ IsInjective(c) /\ Len(c) = n /\ \A k \in 1..n : c[k] = s[k].id
  <2>1. c = [k \in 1..n |-> s[k].id]
    BY <1>1, <1>2 DEF ChunkIds
  <2>2. IsInjective(c)
    BY <1>1 DEF Known0, SInv, BatchPart
  <2>3. c \in Seq({s[k].id : k \in 1..n}) /\ Len(c) = n
    BY <1>3, <2>1
  <2> QED BY <2>1, <2>2, <2>3 DEF AnySeq
<1>5. PICK h : /\ h[0] = d /\ e = h[n]
               /\ \A k \in 1..n : h[k] = RunOne("prefill", h[k - 1], s[k])
  <2>1. e = RunAll("prefill", d, s)
    BY <1>1, <1>2, LoopsRun
  <2>2. InOrder("prefill", d, s, e)
    BY <1>2, <2>1, RanInOrder
  <2> QED BY <1>1, <2>2 DEF InOrder
<1> DEFINE T == {k \in Nat : k <= n => /\ Partial(h[k], Y \cup FirstOf(c, k), 0)
                                       /\ h[k].copy.owner = Draft => k = 0}
<1>6. 0 \in T
  <2>1. Y \cup FirstOf(c, 0) = Y
    BY <1>4, FirstAll
  <2> QED BY <1>5, <2>1
<1>7. ASSUME NEW k \in Nat, k \in T PROVE k + 1 \in T
  <2> SUFFICES ASSUME k + 1 <= n
               PROVE  /\ Partial(h[k + 1], Y \cup FirstOf(c, k + 1), 0)
                      /\ h[k + 1].copy.owner = Draft => k + 1 = 0
    OBVIOUS
  <2>1. Partial(h[k], Y \cup FirstOf(c, k), 0)
    BY <1>3, <1>7
  <2>2. PICK j : j = k + 1
    OBVIOUS
  <2>3. j \in 1..n /\ j - 1 = k
    BY <1>3, <2>2
  <2>4. PICK q, id, f, g, X : /\ q = s[j] /\ id = q.id /\ f = h[k] /\ g = h[j]
                             /\ X = Y \cup FirstOf(c, k)
    OBVIOUS
  <2>5. /\ c[j] = id /\ q \in Range(batch.prefill)
    BY <1>1, <1>2, <1>4, <2>3, <2>4 DEF Range
  <2>6. /\ FirstOf(c, j) = FirstOf(c, k) \cup {id} /\ id \notin FirstOf(c, k)
        /\ id \in Range(c) /\ FirstOf(c, k) \subseteq Range(c)
    BY <1>4, <2>3, <2>5, FirstGrows
  <2>7. id \notin X
    BY <1>1, <2>4, <2>6
  <2>8. \A i \in Range(c) : i \in BatchIds
    <3>1. Range(c) = WithPhase("PrefillInFlight")
      BY <1>1 DEF Known0, SInv, BatchPart
    <3> QED BY <1>1, <3>1 DEF WithPhase, BatchIds, InBatch
  <2>9. X \in SUBSET BatchIds /\ id \in BatchIds
    BY <2>4, <2>6, <2>8
  <2>10. g = ScanChunk(f, q)
    BY <1>5, <2>3, <2>4 DEF RunOne
  <2>11. Partial(f, X, 0)
    BY <2>1, <2>4
  <2>12. Ran(f, g, id, Added(id, 0))
    BY <2>4, <2>5, <2>7, <2>9, <2>10, <2>11, ChunkRan
  <2>13. Partial(g, X \cup {id}, 0)
    BY <1>3, <2>7, <2>9, <2>11, <2>12, RanKeeps
  <2>14. g.copy.owner # Draft
    <3>1. ~Decoding(id) /\ id \in DOMAIN active
      BY <2>4, <2>5, ChunkFacts DEF Known0
    <3>2. seqs[id].slot \in Slots
      BY <3>1, BaseFacts
    <3>3. g.copy.owner = seqs[id].slot
      BY <2>12, <3>1 DEF Ran
    <3> QED BY <3>2, <3>3, EngineAssumption DEF EngineAssumption
  <2>15. X \cup {id} = Y \cup FirstOf(c, j)
    BY <2>4, <2>6
  <2> QED BY <2>2, <2>4, <2>13, <2>14, <2>15
<1>8. n \in T
  <2> HIDE DEF T
  <2> QED BY <1>3, <1>6, <1>7, SetOfNaturals
<1>9. Partial(h[n], Y \cup FirstOf(c, n), 0) /\ (h[n].copy.owner = Draft => n = 0)
  BY <1>3, <1>8
<1>10. FirstOf(c, n) = Range(ChunkIds)
  BY <1>1, <1>4, FirstAll
<1>11. n = 0 => batch.prefill = <<>> /\ e = d
  <2> HIDE DEF T
  <2>1. PICK S : s \in Seq(S)
    BY <1>2 DEF AnySeq
  <2>2. n = 0 => s = <<>>
    BY <1>1, <2>1, EmptySeq
  <2> QED BY <1>1, <1>5, <2>2
<1> QED BY <1>5, <1>9, <1>10, <1>11

\* execute_layout runs the batch for all its requests.
LEMMA Executed ==
  ASSUME Known0, RestoresRight, SaveChunks, extra = 0, DevShape(dev), Right(dev, {}, 0, {}),
         EntriesIn(dev),
         NEW e, e = FoldLeft(ScanChunk, FoldLeft(DecodeRow, ResetSlots(CopyBlocks(dev)),
                                                 batch.decode), batch.prefill)
  PROVE  /\ Partial(e, BatchIds, 0)
         /\ e.copy.owner = Draft => /\ dev.copy.owner = Draft /\ batch.prefill = <<>>
                                    /\ e.copy.state = dev.copy.state
<1>1. PICK d : d = ResetSlots(CopyBlocks(dev))
  OBVIOUS
<1>2. /\ Partial(d, {}, 0) /\ d.copy.state = dev.copy.state
      /\ d.copy.owner = Draft <=> dev.copy.owner = Draft
  BY <1>1, Prepared
<1>3. PICK f : f = FoldLeft(DecodeRow, d, batch.decode)
  OBVIOUS
<1>4. Partial(f, Range(batch.decode), 0) /\ f.copy = d.copy
  BY <1>2, <1>3, AllDecoded
<1>5. e = FoldLeft(ScanChunk, f, batch.prefill)
  BY <1>1, <1>3
<1>6. /\ Range(batch.decode) = WithPhase("DecodeInFlight")
      /\ Range(ChunkIds) = WithPhase("PrefillInFlight")
  BY DEF Known0, SInv, BatchPart
<1>7. /\ Range(batch.decode) \cap Range(ChunkIds) = {}
      /\ Range(batch.decode) \in SUBSET BatchIds
      /\ Range(batch.decode) \cup Range(ChunkIds) = BatchIds
  BY <1>6 DEF WithPhase, BatchIds, InBatch
<1>8. /\ Partial(e, Range(batch.decode) \cup Range(ChunkIds), 0)
      /\ e.copy.owner = Draft => batch.prefill = <<>> /\ e.copy = f.copy
  BY <1>4, <1>5, <1>7, AllScanned
<1> QED BY <1>2, <1>4, <1>7, <1>8

-----------------------------------------------------------------------------
(* The invariant of the engine.                                            *)

\* The tokens of id in the caches now.
Reached(id) == Count(id, RunIds, accepted)

\* Where the batch is: executed before it is completed, with nothing reserved
\* then but for the drafts that were accepted.
RunPart ==
  /\ ran \in BOOLEAN /\ accepted \in Nat /\ accepted <= extra
  /\ step # "abort" /\ (step = "flight" => ~NoBatch)
  /\ ran => step \in {"flight", "complete"}
  /\ step = "complete" => ran /\ extra = accepted
  /\ ~ran => accepted = 0 /\ (extra > 0 => DraftDepth > 0)

\* The hidden state is of the request that is decoded last, and after a batch
\* that decodes nothing else.
HiddenPart ==
  /\ hiddenFor \subseteq DOMAIN active
  /\ \A i, j \in hiddenFor : i = j
  /\ \A id \in hiddenFor :
       /\ ran => Speculative(id)
       /\ ~ran => \/ decodeReady # <<>> /\ Last(decodeReady) = id
                  \/ decodeReady = <<>> /\ batch.decode # <<>> /\ Last(batch.decode) = id

\* A working copy that passes for the draft slot's state is the state of the
\* one request that is decoded, or else that request has just got its last token.
DraftPart ==
  dev.copy.owner = Draft =>
    /\ Depth > 0
    /\ ran => batch.prefill = <<>>
    /\ \A id \in DOMAIN active : Decoding(id) =>
         /\ id \in hiddenFor
         /\ \/ dev.copy.state = History(id, Reached(id))
            \/ ran /\ accepted = 0 /\ active[id].generated + 1 = Request(id).maxNew

\* The invariant.
EInv ==
  /\ RunPart /\ HiddenPart /\ DraftPart
  /\ GenPart /\ SaveChunks /\ RestoresRight
  /\ DevShape(dev) /\ Right(dev, RunIds, accepted, RunIds)
  /\ SavedIn(dev, RunIds) /\ EntriesIn(dev)

\* What is known of the scheduler and its cache at any time.
Known1 == SInv /\ Proved!IInv /\ Proved!Sharing

-----------------------------------------------------------------------------
(* A batch is executed.                                                    *)

\* What requests have does not depend on the device.
LEMMA BatchSame ==
  ASSUME batch'.prefill = batch.prefill, batch'.decode = batch.decode, active' = active
  PROVE  /\ BatchIds' = BatchIds /\ \A id : ChunkTokens(id)' = ChunkTokens(id)
         /\ \A id : Decoding(id)' <=> Decoding(id)
         /\ \A id, X, k : Count(id, X, k)' = Count(id, X, k)
<1>1. \A id : ChunkTokens(id)' = ChunkTokens(id)
  BY DEF ChunkTokens
<1>2. \A id : Decoding(id)' <=> Decoding(id)
  BY DEF Decoding
<1>3. \A id, k : Added(id, k)' = Added(id, k)
  BY <1>1, <1>2 DEF Added
<1>4. \A id, X, k : Count(id, X, k)' = Count(id, X, k)
  BY <1>3 DEF Count, Base
<1>5. ChunkIds' = ChunkIds
  BY DEF ChunkIds
<1>6. BatchIds' = BatchIds
  BY <1>5 DEF BatchIds, InBatch
<1> QED BY <1>1, <1>2, <1>4, <1>6

\* Neither does what the scheduler knows.
LEMMA DeviceSame ==
  ASSUME UNCHANGED vars, NEW X, NEW k, NEW B
  PROVE  /\ Right(dev', X, k, B) => Right(dev, X, k, B)'
         /\ SavedIn(dev', X) => SavedIn(dev, X)'
         /\ EntriesIn(dev') => EntriesIn(dev)'
         /\ DevShape(dev') => DevShape(dev)'
         /\ GenPart => GenPart'
         /\ SaveChunks => SaveChunks'
         /\ RestoresRight => RestoresRight'
<1>1. /\ UNCHANGED <<waiting, prefillReady, decodeReady, active, committed, batch, step, left>>
      /\ UNCHANGED <<extra, seqs, entries>>
  BY DEF vars, queueVars, cacheVars
<1>2. /\ \A id : Decoding(id)' <=> Decoding(id)
      /\ \A id : Count(id, X, k)' = Count(id, X, k)
  BY <1>1, BatchSame, SMTT(30)
<1>3. \A id, n : /\ Held(dev', id, n) => Held(dev, id, n)'
                 /\ StateRight(dev', id, n) => StateRight(dev, id, n)'
  BY <1>1, <1>2, ZenonT(40)
     DEF Held, StateRight, HoldsIn, IsState, History, PageOf, CellOf, BlocksFor
<1>4. Right(dev', X, k, B) => Right(dev, X, k, B)'
  BY <1>1, <1>2, <1>3 DEF Right, RightOf
<1>5. /\ SavedIn(dev', X) => SavedIn(dev, X)'
      /\ EntriesIn(dev') => EntriesIn(dev)'
  BY <1>1, Zenon DEF SavedIn, EntriesIn, EntryIn, IsState, HoldsIn, SaveTokens, PageOf, CellOf,
              BlocksFor
<1>6. DevShape(dev') => DevShape(dev)'
  BY DEF DevShape, StateShape
<1>7. /\ GenPart => GenPart'
      /\ SaveChunks => SaveChunks'
  BY <1>1, <1>2 DEF GenPart, SaveChunks
<1>8. RestoresRight => RestoresRight'
  BY <1>1 DEF RestoresRight, RestoreRight, OwnPage, BlocksFor
<1> QED BY <1>4, <1>5, <1>6, <1>7, <1>8

\* A batch without chunks that decodes for the head decodes for one request.
LEMMA DecodedAlone ==
  ASSUME SInv, HiddenPart, ~NoBatch, batch.prefill = <<>>,
         \A id \in DOMAIN active : Decoding(id) => id \in hiddenFor
  PROVE  \E id \in hiddenFor : Speculative(id) /\ \A j \in DOMAIN active : Decoding(j) => j = id
<1>1. batch.decode \in Seq(Ids) /\ IsInjective(batch.decode) /\ batch.decode # <<>>
  BY DEF SInv, BatchPart, BatchType, NoBatch
<1>2. /\ \A i \in 1..Len(batch.decode) : batch.decode[i] \in hiddenFor
      /\ DOMAIN batch.decode = 1..Len(batch.decode) /\ Len(batch.decode) \in Nat \ {0}
  <2>1. DOMAIN batch.decode = 1..Len(batch.decode) /\ Len(batch.decode) \in Nat
    BY <1>1, LenProperties
  <2>2. Len(batch.decode) # 0
    BY <1>1, EmptySeq
  <2>3. \A i \in 1..Len(batch.decode) : batch.decode[i] \in hiddenFor
    BY <2>1, DecodedFacts DEF Range
  <2> QED BY <2>1, <2>2, <2>3
<1>3. \A i, j \in hiddenFor : i = j
  BY DEF HiddenPart
<1>4. PICK id : id = batch.decode[1]
  OBVIOUS
<1>5. id \in hiddenFor
  BY <1>2, <1>4
<1>6. Len(batch.decode) = 1
  <2>1. \A i \in 1..Len(batch.decode) : i = 1
    BY <1>1, <1>2, <1>3 DEF IsInjective
  <2>2. Len(batch.decode) \in 1..Len(batch.decode)
    BY <1>2
  <2> QED BY <2>1, <2>2
<1>7. batch.decode = <<id>>
  BY <1>1, <1>4, <1>6
<1> QED BY <1>3, <1>5, <1>7 DEF Speculative

\* The batch has run for all its requests with `accepted` drafts.
LEMMA RanForAll ==
  ASSUME UNCHANGED vars, ran' = TRUE, NEW k, accepted' = k, GenPart, SaveChunks, RestoresRight,
         Partial(dev', BatchIds, k)
  PROVE  /\ RunIds' = BatchIds /\ GenPart' /\ SaveChunks' /\ RestoresRight'
         /\ DevShape(dev)' /\ Right(dev, RunIds, accepted, RunIds)'
         /\ SavedIn(dev, RunIds)' /\ EntriesIn(dev)'
         /\ \A id : Reached(id)' = Count(id, BatchIds, k) /\ (Decoding(id)' <=> Decoding(id))
<1>1. UNCHANGED <<active, batch>>
  BY DEF vars
<1>2. BatchIds' = BatchIds /\ (\A id, X, j : Count(id, X, j)' = Count(id, X, j))
      /\ \A id : Decoding(id)' <=> Decoding(id)
  BY <1>1, BatchSame
<1>3. RunIds' = BatchIds
  BY <1>2 DEF RunIds
<1>4. \A id : Reached(id)' = Count(id, BatchIds, k)
  BY <1>2, <1>3 DEF Reached
<1>5. PICK X : X = BatchIds
  OBVIOUS
<1>6. /\ Right(dev', X, k, X) /\ SavedIn(dev', X) /\ EntriesIn(dev') /\ DevShape(dev')
  BY <1>5 DEF Partial
<1>7. /\ Right(dev, X, k, X)' /\ SavedIn(dev, X)' /\ EntriesIn(dev)' /\ DevShape(dev)'
      /\ GenPart' /\ SaveChunks' /\ RestoresRight'
  <2>1. /\ Right(dev', X, k, X) => Right(dev, X, k, X)'
        /\ SavedIn(dev', X) => SavedIn(dev, X)'
        /\ EntriesIn(dev') => EntriesIn(dev)'
        /\ DevShape(dev') => DevShape(dev)'
        /\ GenPart => GenPart'
        /\ SaveChunks => SaveChunks'
        /\ RestoresRight => RestoresRight'
    BY DeviceSame
  <2> QED BY <1>6, <2>1
<1>8. Right(dev, RunIds, accepted, RunIds)' /\ SavedIn(dev, RunIds)'
  <2>1. X = RunIds' /\ k = accepted'
    BY <1>3, <1>5
  <2> QED BY <1>7, <2>1 DEF Right, SavedIn
<1> QED BY <1>2, <1>3, <1>4, <1>7, <1>8

\* Execute keeps the invariant.
LEMMA ExecuteKeeps == ASSUME Known1, EInv, Execute PROVE EInv'
<1>1. /\ step = "flight" /\ ~ran /\ DraftDepth = 0 /\ ran' = TRUE /\ hiddenFor' = HiddenAfter
      /\ UNCHANGED vars /\ accepted' = accepted
      /\ dev' = FoldLeft(ScanChunk, FoldLeft(DecodeRow, ResetSlots(CopyBlocks(dev)), batch.decode),
                         batch.prefill)
  BY DEF Execute
<1>2. /\ RunPart /\ HiddenPart /\ DraftPart /\ GenPart /\ SaveChunks /\ RestoresRight
      /\ DevShape(dev) /\ Right(dev, RunIds, accepted, RunIds) /\ EntriesIn(dev)
  BY DEF EInv
<1>3. Known0 /\ SInv
  BY <1>2 DEF Known0, Known1
<1>4. accepted = 0 /\ extra \in Nat /\ extra = 0 /\ ~NoBatch
  <2>1. extra \in Nat
    BY <1>3, SchedulerAssumption DEF SInv, ExtraPart, SchedulerAssumption
  <2> QED BY <1>1, <1>2, <2>1 DEF RunPart
<1>5. RunIds = {}
  BY <1>1 DEF RunIds
<1>6. /\ Partial(dev', BatchIds, 0)
      /\ dev'.copy.owner = Draft =>
           dev.copy.owner = Draft /\ batch.prefill = <<>> /\ dev'.copy.state = dev.copy.state
  BY <1>1, <1>2, <1>3, <1>4, <1>5, Executed
<1>7. accepted' = 0
  BY <1>1, <1>4
<1>8. /\ RunIds' = BatchIds /\ GenPart' /\ SaveChunks' /\ RestoresRight'
      /\ DevShape(dev)' /\ Right(dev, RunIds, accepted, RunIds)'
      /\ SavedIn(dev, RunIds)' /\ EntriesIn(dev)'
      /\ \A id : Reached(id)' = Count(id, BatchIds, 0) /\ (Decoding(id)' <=> Decoding(id))
  BY <1>1, <1>2, <1>6, <1>7, RanForAll
<1>9. UNCHANGED <<step, extra, batch, active, decodeReady>>
  BY <1>1 DEF vars, queueVars
<1>10. RunPart'
  BY <1>1, <1>4, <1>7, <1>9 DEF RunPart, NoBatch
<1>11. HiddenPart'
  <2>1. \A id \in hiddenFor' : id \in DOMAIN active /\ batch.decode = <<id>> /\ Speculative(id)
    BY <1>1, <1>3, DecodedFacts DEF HiddenAfter, Speculative
  <2>2. \A i, j \in hiddenFor' : i = j
    BY <2>1
  <2>3. \A id \in hiddenFor' : Speculative(id)'
    BY <1>9, <2>1 DEF Speculative
  <2> QED BY <1>1, <1>9, <2>1, <2>2, <2>3 DEF HiddenPart
<1>12. DraftPart'
  <2> SUFFICES ASSUME dev'.copy.owner = Draft PROVE DraftPart'
    BY DEF DraftPart
  <2>1. /\ dev.copy.owner = Draft /\ batch.prefill = <<>> /\ Depth > 0
        /\ \A id \in DOMAIN active : Decoding(id) => id \in hiddenFor
    BY <1>2, <1>6 DEF DraftPart
  <2>2. PICK a \in hiddenFor : Speculative(a) /\ \A j \in DOMAIN active : Decoding(j) => j = a
    BY <1>2, <1>3, <1>4, <2>1, DecodedAlone
  <2>3. a \in hiddenFor'
    <3>1. a \in Range(batch.decode)
      BY <2>2 DEF Speculative, Range
    <3> QED BY <1>1, <2>2, <3>1 DEF HiddenAfter
  <2>4. active[a].generated + 1 = Request(a).maxNew
    <3>1. hiddenFor = {a}
      BY <1>2, <2>2 DEF HiddenPart
    <3>2. PICK m : m = Request(a).maxNew - active[a].generated - 1
      OBVIOUS
    <3>3. /\ a \in DOMAIN active /\ active[a].generated \in Nat /\ Request(a).maxNew \in Nat
          /\ active[a].generated < Request(a).maxNew
      <4>1. a \in DOMAIN active
        BY <1>2, <3>1 DEF HiddenPart
      <4> QED BY <1>3, <4>1, RequestFacts DEF SInv, Known
    <3>4. {Depth} \cup {Request(id).maxNew - active[id].generated - 1 : id \in hiddenFor}
            = {Depth, m}
      BY <3>1, <3>2
    <3>5. Min({Depth, m}) = 0
      BY <1>1, <2>2, <3>4 DEF DraftDepth
    <3>6. Depth \in Int /\ m \in Int
      BY <3>2, <3>3, SchedulerAssumption DEF SchedulerAssumption
    <3>7. 0 \in {Depth, m}
      BY <3>5, <3>6, MinOfTwo
    <3> QED BY <2>1, <3>2, <3>3, <3>7
  <2> QED BY <1>1, <1>7, <1>8, <1>9, <2>1, <2>2, <2>3, <2>4 DEF DraftPart
<1> QED BY <1>8, <1>10, <1>11, <1>12 DEF EInv

\* Only the request of a speculative batch is decoded.
LEMMA AloneDecoded ==
  ASSUME SInv, Proved!IInv, HiddenPart, ~ran, NEW id \in hiddenFor, Speculative(id)
  PROVE  /\ id \in DOMAIN active /\ id \in Ids /\ Decoding(id)
         /\ active[id].phase = "DecodeInFlight"
         /\ BatchIds = {id} /\ batch.prefill = <<>> /\ active[id].restore = {}
         /\ \A j \in DOMAIN active : Decoding(j) => j = id
         /\ \A j \in hiddenFor : j = id
<1>1. id \in DOMAIN active /\ \A j \in hiddenFor : j = id
  BY DEF HiddenPart
<1>2. id \in Ids /\ Known(id)
  BY <1>1, RequestFacts DEF SInv
<1>3. /\ active[id].phase = "DecodeInFlight" /\ batch.prefill = <<>>
      /\ \A j \in DOMAIN active : active[j].phase = "DecodeInFlight" => j = id
  BY <1>2, SpeculativeFacts
<1>4. active[id].restore = {} /\ Decoding(id)
  BY <1>2, <1>3 DEF Known, Decoding
<1>5. decodeReady = <<>>
  <2> SUFFICES ASSUME decodeReady # <<>> PROVE FALSE
    OBVIOUS
  <2>1. Last(decodeReady) = id
    BY DEF HiddenPart
  <2>2. decodeReady \in Seq(Ids) /\ Range(decodeReady) = WithPhase("DecodeReady")
    BY DEF SInv, QueuePart
  <2>3. Last(decodeReady) \in Range(decodeReady)
    <3>1. Len(decodeReady) \in Nat /\ DOMAIN decodeReady = 1..Len(decodeReady)
          /\ Len(decodeReady) # 0
      BY <2>2, LenProperties, EmptySeq
    <3> QED BY <3>1 DEF Range, Last
  <2> QED BY <1>3, <2>1, <2>2, <2>3 DEF WithPhase
<1>6. \A j \in DOMAIN active : active[j].phase # "DecodeReady"
  <2>1. Range(decodeReady) = {}
    BY <1>5 DEF Range
  <2> QED BY <2>1 DEF SInv, QueuePart, WithPhase
<1>7. \A j \in DOMAIN active : Decoding(j) => j = id
  BY <1>3, <1>6 DEF Decoding
<1>8. BatchIds = {id}
  <2>1. Range(batch.decode) = {id} /\ Range(ChunkIds) = {}
    BY <1>3 DEF Speculative, Range, ChunkIds
  <2> QED BY <1>1, <2>1 DEF BatchIds, InBatch
<1> QED BY <1>1, <1>2, <1>3, <1>4, <1>7, <1>8

\* Verify keeps the invariant.
LEMMA VerifyKeeps == ASSUME Known1, EInv, Verify PROVE EInv'
<1>1. /\ step = "flight" /\ ~ran /\ extra > 0 /\ extra = DraftDepth /\ ran' = TRUE
      /\ UNCHANGED vars /\ hiddenFor' = hiddenFor
  BY DEF Verify
<1>2. PICK id \in hiddenFor, n \in 0..extra :
        /\ dev' = Committed(Verified(id, RowsOf(n)), seqs[id].slot, RowsOf(n), 1 + n)
        /\ accepted' = n
  BY DEF Verify, RowsOf
<1>3. /\ RunPart /\ HiddenPart /\ DraftPart /\ GenPart /\ SaveChunks /\ RestoresRight
      /\ DevShape(dev) /\ Right(dev, RunIds, accepted, RunIds) /\ EntriesIn(dev)
  BY DEF EInv
<1>4. Known0 /\ SInv /\ Proved!IInv
  BY <1>3 DEF Known0, Known1
<1>5. accepted = 0 /\ RunIds = {} /\ extra \in Nat /\ n \in Nat /\ n <= extra
  <2>1. extra \in Nat
    BY <1>4, SchedulerAssumption DEF SInv, ExtraPart, SchedulerAssumption
  <2> QED BY <1>1, <1>3, <2>1 DEF RunPart, RunIds
<1>6. Speculative(id)
  <2>1. \E j \in hiddenFor : Speculative(j)
    BY <1>1 DEF DraftDepth
  <2> QED BY <1>3, <2>1 DEF HiddenPart
<1>7. /\ id \in DOMAIN active /\ id \in Ids /\ Decoding(id) /\ active[id].phase = "DecodeInFlight"
      /\ BatchIds = {id} /\ batch.prefill = <<>> /\ active[id].restore = {}
      /\ \A j \in DOMAIN active : Decoding(j) => j = id
      /\ \A j \in hiddenFor : j = id
  BY <1>1, <1>3, <1>4, <1>6, AloneDecoded
<1>8. Base(id) \in Nat /\ Base(id) > 0 /\ \A j \in DOMAIN active : \A k : Count(j, {}, k) = Base(j)
  <2>1. Base(id) \in Nat /\ Base(id) > 0
    BY <1>4, <1>7, BaseFacts
  <2>2. \A j \in DOMAIN active : \A k : Count(j, {}, k) = Base(j)
    <3> SUFFICES ASSUME NEW j \in DOMAIN active, NEW k
                 PROVE  Count(j, {}, k) = Base(j)
      OBVIOUS
    <3>1. j \notin {}
      OBVIOUS
    <3>2. Base(j) + 0 = Base(j)
      BY <1>4, BaseFacts
    <3> QED BY <3>1, <3>2 DEF Count
  <2> QED BY <2>1, <2>2
<1>9. /\ StateRight(dev, id, Base(id))
      /\ dev.copy.owner = Draft => dev.copy.state = History(id, Base(id))
  <2>1. RightOf(dev, id, Base(id), {}, {})
    BY <1>3, <1>5, <1>7, <1>8 DEF Right
  <2>2. Reached(id) = Base(id)
    BY <1>5, <1>7, <1>8 DEF Reached
  <2> QED BY <1>1, <1>3, <1>7, <1>8, <2>1, <2>2 DEF RightOf, DraftPart
<1>10. /\ Ran(dev, dev', id, 1 + n)
       /\ dev'.copy.owner = Draft => dev'.copy.state = History(id, Base(id) + 1 + n)
  <2>1. PICK e : e = dev'
    OBVIOUS
  <2>2. e = Committed(Verified(id, RowsOf(n)), seqs[id].slot, RowsOf(n), 1 + n)
    BY <1>2, <2>1
  <2>3. /\ Ran(dev, e, id, 1 + n)
        /\ e.copy.owner = Draft => e.copy.state = History(id, Base(id) + 1 + n)
    BY <1>3, <1>4, <1>6, <1>7, <1>9, <2>2, VerifyRan
  <2> QED BY <2>1, <2>3
<1>11. Added(id, n) = 1 + n
  BY <1>7 DEF Added
<1>12. Partial(dev, {}, n)
  <2>1. \A j \in DOMAIN active : RightOf(dev, j, Base(j), {}, {})
    BY <1>3, <1>5, <1>8 DEF Right
  <2>2. \A j \in DOMAIN active : RightOf(dev, j, Base(j), {}, BatchIds)
    BY <1>7, <1>8, <2>1 DEF RightOf
  <2>3. Right(dev, {}, n, BatchIds)
    BY <1>8, <2>2 DEF Right
  <2>4. SavedIn(dev, {})
    BY DEF SavedIn
  <2> QED BY <1>3, <2>3, <2>4 DEF Partial
<1>13. Partial(dev', BatchIds, n)
  <2>1. PICK X : X = {}
    OBVIOUS
  <2>2. X \in SUBSET BatchIds /\ id \in BatchIds /\ id \notin X /\ Partial(dev, X, n)
    BY <1>7, <1>12, <2>1
  <2>3. PICK e : e = dev'
    OBVIOUS
  <2>4. Ran(dev, e, id, Added(id, n))
    BY <1>10, <1>11, <2>3
  <2>5. Partial(e, X \cup {id}, n)
    BY <1>2, <1>3, <1>4, <2>2, <2>4, RanKeeps
  <2>6. X \cup {id} = BatchIds
    BY <1>7, <2>1
  <2> QED BY <2>3, <2>5, <2>6
<1>14. /\ RunIds' = BatchIds /\ GenPart' /\ SaveChunks' /\ RestoresRight'
       /\ DevShape(dev)' /\ Right(dev, RunIds, accepted, RunIds)'
       /\ SavedIn(dev, RunIds)' /\ EntriesIn(dev)'
       /\ \A j : Reached(j)' = Count(j, BatchIds, n) /\ (Decoding(j)' <=> Decoding(j))
  BY <1>1, <1>2, <1>3, <1>13, RanForAll
<1>15. UNCHANGED <<step, extra, batch, active, decodeReady>>
  BY <1>1 DEF vars, queueVars
<1>16. RunPart'
  BY <1>1, <1>2, <1>3, <1>5, <1>15 DEF RunPart, NoBatch
<1>17. HiddenPart'
  BY <1>1, <1>3, <1>6, <1>7, <1>15 DEF HiddenPart, Speculative
<1>18. DraftPart'
  <2> SUFFICES ASSUME dev'.copy.owner = Draft PROVE DraftPart'
    BY DEF DraftPart
  <2>1. Depth > 0
    BY <1>1, <1>4, <1>5, SchedulerAssumption DEF SInv, ExtraPart, SchedulerAssumption
  <2>2. Reached(id)' = Base(id) + 1 + n
    <3>1. Count(id, BatchIds, n) = Base(id) + (1 + n)
      BY <1>7, <1>11 DEF Count
    <3> QED BY <1>5, <1>8, <1>14, <3>1
  <2>3. dev'.copy.state = History(id, Reached(id))'
    BY <1>10, <2>2 DEF History
  <2> QED BY <1>1, <1>7, <1>14, <1>15, <2>1, <2>3 DEF DraftPart
<1> QED BY <1>14, <1>16, <1>17, <1>18 DEF EInv

=============================================================================
