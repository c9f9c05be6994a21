---------------------------- MODULE MCScheduler ----------------------------
(* The scheduler on a small pool, for TLC.                                 *)
EXTENDS Scheduler, MCTables

\* 1: a history of three tokens and its generation prompt, five in all.
\* 2: a prompt that shares nothing.  3: the next turn of 1.  4: a copy of 2.
Requests ==
  << [prompt |-> <<"a", "a", "a", "b", "b">>, maxNew |-> 1, snapshotAt |-> 3],
     [prompt |-> <<"b", "b", "b">>, maxNew |-> 1, snapshotAt |-> 1],
     [prompt |-> <<"a", "a", "a", "a">>, maxNew |-> 2, snapshotAt |-> 4],
     [prompt |-> <<"b", "b", "b">>, maxNew |-> 1, snapshotAt |-> 2] >>

RequestOf(id) == Requests[id]

Symmetry == Permutations(Slots) \cup Permutations(Snapshots)

=============================================================================
