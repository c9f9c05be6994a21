----------------------------- MODULE MCExecutor -----------------------------
(* The executor, for TLC: the tokens its rows carry (Steps) or the shapes   *)
(* it launches (Launches, with the sizes of the real executor).  A behaviour *)
(* is of one of the two; the other rests.                                   *)
EXTENDS Steps, TLC

MCIds == {1, 2}
MCPages == 0..2

\* Sizes on both sides of every bound of the kernels.
BatchSizes == {1, 2, 96}
ContextSizes == {1000, 32768}
RowCounts == {1, 192, 2047}
Contexts == {1, 2048, 32256, 32768}

VARIABLES part, config, arenas, pass

Launched == INSTANCE Launches

ASSUME LaunchAssumption ==
  /\ BatchSizes \subseteq 1..Launched!BatchLimit
  /\ ContextSizes \subseteq Nat \ {0} /\ Contexts \subseteq Nat \ {0}
  /\ RowCounts \subseteq 1..Launched!MaxStepRows

ExecutorInit ==
  /\ Init
  /\ \/ part = "tokens" /\ config = <<>> /\ arenas = <<>> /\ pass = <<>>
     \/ part = "shapes" /\ Launched!Init

ExecutorNext ==
  /\ UNCHANGED part
  /\ \/ part = "tokens" /\ Next /\ UNCHANGED <<config, arenas, pass>>
     \/ part = "shapes" /\ Launched!Next /\ UNCHANGED vars

ExecutorSpec == ExecutorInit /\ [][ExecutorNext]_<<vars, part, config, arenas, pass>>

-----------------------------------------------------------------------------

\* No launch of any pass is refused for its shape.
LaunchesAccepted == part = "shapes" => Launched!LaunchesAccepted

\* Every query row meets each of its keys in exactly one partition.
KeysCovered == part = "shapes" => Launched!KeysCovered

=============================================================================
