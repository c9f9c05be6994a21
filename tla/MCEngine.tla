------------------------------ MODULE MCEngine ------------------------------
(* Engines on a small pool, for TLC, one of which a behaviour is of: two    *)
(* turns of a chat with a prefix cache, or two strangers without one.       *)
EXTENDS Engine, MCTables

\* 1: decodes long enough to speculate twice.  2: continues the history of 1,
\* inside a page.  3: shares nothing, and its prompt takes several chunks.
Requests ==
  << [prompt |-> <<"a", "a", "a", "b">>, maxNew |-> 6, snapshotAt |-> 3],
     [prompt |-> <<"a", "a", "a", "a", "b">>, maxNew |-> 1, snapshotAt |-> 4],
     [prompt |-> <<"b", "b", "b", "b", "b">>, maxNew |-> 1, snapshotAt |-> 4] >>

RequestOf(id) == Requests[id]

Symmetry == Permutations(Slots) \cup Permutations(Snapshots)

VARIABLE cached  \* whether the scheduler has a prefix cache

Uncached == INSTANCE Engine WITH Snapshots <- {}, Ids <- {1, 3}

BothInit ==
  \/ cached = TRUE /\ EngineInit
  \/ cached = FALSE /\ Uncached!EngineInit

BothNext ==
  /\ UNCHANGED cached
  /\ \/ cached /\ EngineNext
     \/ ~cached /\ Uncached!EngineNext

BothSpec == BothInit /\ [][BothNext]_<<engineVars, cached>>

\* Without a prefix cache no chunk of a prompt starts from the 8 bits of a
\* resting slot, whatever else decodes and speculates beside it.
UncachedUnquantized == cached \/ PromptsUnquantized

=============================================================================
