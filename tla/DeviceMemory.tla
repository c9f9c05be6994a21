---------------------------- MODULE DeviceMemory ----------------------------
(***************************************************************************)
(* Device memory under a ceiling: crates/qwc-cuda/src/memory.rs.           *)
(*                                                                         *)
(* MEMORY_USED and MEMORY_LIMIT are two atomics of the process.  A buffer  *)
(* first reserves its bytes with a compare-and-exchange loop, then asks    *)
(* the driver for memory and fills it; each can fail, and the bytes go     *)
(* back.  Each thread has one buffer at a time here; what a buffer         *)
(* contains is left out.                                                   *)
(***************************************************************************)
EXTENDS Integers, FiniteSets, Functions

CONSTANTS
  Threads,  \* those that allocate
  Sizes,    \* allocation_bytes of the buffers they ask for
  Word      \* usize::MAX

ASSUME MemoryAssumption ==
  /\ IsFiniteSet(Threads)
  /\ Word \in Nat \ {0}
  /\ Sizes \subseteq 1..Word

VARIABLES
  used,    \* MEMORY_USED
  limit,   \* MEMORY_LIMIT
  at,      \* where each thread is in the life of its buffer
  bytes,   \* allocation_bytes of that buffer
  seen,    \* the value of MEMORY_USED its compare-and-exchange expects
  room     \* whether that value left room under the limit when it was read

memoryVars == <<used, limit, at, bytes, seen, room>>

MemoryInit ==
  /\ used = 0 /\ limit = Word
  /\ at = [t \in Threads |-> "idle"]
  /\ bytes = [t \in Threads |-> 0]
  /\ seen = [t \in Threads |-> 0]
  /\ room = [t \in Threads |-> FALSE]

Goto(t, label) == at' = [at EXCEPT ![t] = label]

\* set_memory_limit.  It is called before the threads that allocate are
\* started, as initialize_worker does; the ceiling asked for is clipped to what
\* is free on the card, whatever that is.
SetLimit ==
  /\ \A t \in Threads : at[t] = "idle"
  /\ used = 0
  /\ \E effective \in 1..Word : limit' = effective
  /\ UNCHANGED <<used, at, bytes, seen, room>>

-----------------------------------------------------------------------------
(* reserve: fetch_update with checked_add.                                 *)

\* Mutant of Fits: the sum wraps around.
FitsWrapped(n) == (used + n) % (Word + 1) <= limit

\* used.checked_add(n) exists and is not above the limit.
Fits(n) == used + n <= Word /\ used + n <= limit

\* The first load, or the one after a failed exchange.
Load(t, n) ==
  /\ seen' = [seen EXCEPT ![t] = used]
  /\ room' = [room EXCEPT ![t] = Fits(n)]
  /\ Goto(t, "exchange")

\* DeviceBuffer::zeroed or from_slice begins.
Begin(t) ==
  /\ at[t] = "idle"
  /\ \E n \in Sizes : bytes' = [bytes EXCEPT ![t] = n] /\ Load(t, n)
  /\ UNCHANGED <<used, limit>>

\* There was no room: CUDA_ERROR_MEMORY_ALLOCATION, and nothing has changed.
Refuse(t) ==
  /\ at[t] = "exchange" /\ ~room[t]
  /\ Goto(t, "idle")
  /\ UNCHANGED <<used, limit, bytes, seen, room>>

\* Mutant of Exchange: the bytes are added without looking whether another
\* thread came first.
ExchangeUnchecked(t) ==
  /\ at[t] = "exchange" /\ room[t]
  /\ used' = used + bytes[t]
  /\ Goto(t, "malloc")
  /\ UNCHANGED <<limit, bytes, seen, room>>

\* The exchange succeeds if no other thread came first.
Exchange(t) ==
  /\ at[t] = "exchange" /\ room[t] /\ used = seen[t]
  /\ used' = seen[t] + bytes[t]
  /\ Goto(t, "malloc")
  /\ UNCHANGED <<limit, bytes, seen, room>>

\* Or it fails, also spuriously (compare_exchange_weak), and is tried again.
Retry(t) ==
  /\ at[t] = "exchange" /\ room[t]
  /\ Load(t, bytes[t])
  /\ UNCHANGED <<used, limit, bytes>>

-----------------------------------------------------------------------------
(* The driver.                                                             *)

\* cudaMalloc.
Malloc(t) ==
  /\ at[t] = "malloc"
  /\ Goto(t, "fill") \/ Goto(t, "release")
  /\ UNCHANGED <<used, limit, bytes, seen, room>>

\* Mutant of Fill: a failed fill frees the memory and forgets the reservation.
FillForgets(t) ==
  /\ at[t] = "fill"
  /\ Goto(t, "held") \/ Goto(t, "idle")
  /\ UNCHANGED <<used, limit, bytes, seen, room>>

\* cudaMemset or cudaMemcpy; when it fails cudaFree comes first.
Fill(t) ==
  /\ at[t] = "fill"
  /\ Goto(t, "held") \/ Goto(t, "release")
  /\ UNCHANGED <<used, limit, bytes, seen, room>>

\* Mutant of Drop: the bytes are given back before the memory is.
DropReleasesFirst(t) ==
  /\ at[t] \in {"held", "drop"}
  /\ \/ at[t] = "held" /\ used' = used - bytes[t] /\ Goto(t, "drop")
     \/ at[t] = "drop" /\ used' = used /\ Goto(t, "idle")
  /\ UNCHANGED <<limit, bytes, seen, room>>

\* Drop: cudaFree, then the reservation goes.
Drop(t) ==
  /\ at[t] = "held"
  /\ Goto(t, "release")
  /\ UNCHANGED <<used, limit, bytes, seen, room>>

ReleaseBytes(t) ==
  /\ at[t] = "release"
  /\ used' = used - bytes[t]
  /\ Goto(t, "idle")
  /\ UNCHANGED <<limit, bytes, seen, room>>

Step(t) ==
  \/ Begin(t) \/ Refuse(t) \/ Exchange(t) \/ Retry(t)
  \/ Malloc(t) \/ Fill(t) \/ Drop(t) \/ ReleaseBytes(t)

MemoryNext == SetLimit \/ \E t \in Threads : Step(t)

MemorySpec == MemoryInit /\ [][MemoryNext]_memoryVars

-----------------------------------------------------------------------------
(* Properties.                                                             *)

Labels == {"idle", "exchange", "malloc", "fill", "held", "release"}

Reserved == {t \in Threads : at[t] \in {"malloc", "fill", "held", "release"}}

MemoryTypeOK ==
  /\ used \in 0..Word /\ limit \in 1..Word
  /\ at \in [Threads -> Labels]
  /\ bytes \in [Threads -> Sizes \cup {0}]
  /\ seen \in [Threads -> 0..Word]
  /\ room \in [Threads -> BOOLEAN]

\* The ceiling is hard: no interleaving of reservations passes it, retries,
\* failures and the end of the word included.
WithinLimit == used <= limit

\* The account is exact: it is the sum of what live and half-made buffers
\* reserved.  No failure keeps bytes, and no buffer gives them back twice.
UsedExact == used = SumFunctionOnSet(bytes, Reserved)

\* What the driver has handed out is covered by the account at every moment,
\* so the limit bounds the memory of the card and not only the account.
DriverCovered ==
  SumFunctionOnSet(bytes, {t \in Threads : at[t] \in {"fill", "held", "drop"}}) <= used

\* The account is the sum of the reservations and covers the driver's memory.
AccountExact == MemoryTypeOK /\ UsedExact /\ DriverCovered

=============================================================================
