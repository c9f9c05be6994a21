-------------------------- MODULE MCSchedulerLive --------------------------
(* Two schedulers for TLC, one of which a behaviour is of: three requests   *)
(* without a prefix cache, or two turns of one chat with it.                *)
EXTENDS MCScheduler

VARIABLE cached  \* whether the scheduler has a prefix cache

Cached == INSTANCE Scheduler WITH Snapshots <- {"n1"}, Ids <- {1, 3}, MaxTokens <- 3

LiveInit ==
  \/ cached = FALSE /\ Init
  \/ cached = TRUE /\ Cached!Init

LiveNext ==
  /\ UNCHANGED cached
  /\ \/ ~cached /\ Next
     \/ cached /\ Cached!Next

LiveAdvance ==
  /\ UNCHANGED cached
  /\ \/ ~cached /\ Advance
     \/ cached /\ Cached!Advance

LiveSpec == LiveInit /\ [][LiveNext]_<<vars, cached>> /\ WF_<<vars, cached>>(LiveAdvance)

\* Without a prefix cache whoever waits gets a turn, once clients stop sending.
WaitingEndsUncached == (<>[][\A id \in Ids : ~Submit(id)]_vars) =>
  \A id \in Ids : ~cached /\ id \in Range(waiting) ~> id \notin Range(waiting)

=============================================================================
