------------------------------ MODULE MCServer ------------------------------
(* An instance of Server for TLC.                                           *)
EXTENDS Server

CONSTANTS a, b

\* For a, enough for a burst of two tokens and a token after it.
OneLong == [c \in Clients |-> IF c = a THEN 3 ELSE 1]

=============================================================================
