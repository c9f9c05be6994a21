--------------------------- MODULE MCCacheManager ---------------------------
(* The cache manager on a small pool, for TLC: as many entries as there     *)
(* are snapshots, three, so that eviction has an order to find.             *)
EXTENDS EvictionLoop, MCTables

CONSTANTS a, b

\* A history, one of its continuations, and a prompt that shares nothing.
ChatPrompts == {<<a, a, a>>, <<a, a, a, b, a>>, <<b, b>>}

Symmetry == Permutations(Slots) \cup Permutations(Snapshots) \cup Permutations(Ids)

=============================================================================
