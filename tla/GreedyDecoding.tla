--------------------------- MODULE GreedyDecoding ---------------------------
(***************************************************************************)
(* What decoding promises: the tokens a request gets are those the main    *)
(* model picks one after another, up to the first that ends the text or to *)
(* as many as the request allows.  How many come in one step is left open. *)
(***************************************************************************)
EXTENDS Naturals, Sequences

CONSTANTS
  Ids,       \* the requests
  Prompt,    \* [Ids -> Seq(tokens)]
  MaxNew,    \* max_new_tokens, of each request
  Eos,       \* the tokens that end a text
  Model(_)   \* the token the main model picks after a sequence of tokens

VARIABLES
  out,       \* [Ids -> Seq(tokens)]: what each request has got
  over       \* the requests that will get no more

vars == <<out, over>>

\* t follows h as the model goes on by itself.
Continues(h, t) == \A i \in DOMAIN t : t[i] = Model(h \o SubSeq(t, 1, i - 1))

\* No token comes after one that ends the text.
EndsOnce(t) == \A i \in DOMAIN t : t[i] \in Eos => i = Len(t)

Init == out = [id \in Ids |-> <<>>] /\ over = {}

\* Requests get some tokens each, and some of them end: one that has all its
\* tokens must, one that has fewer may, as a client can leave.
Emit ==
  /\ \A id \in Ids :
       \E n \in 0..(MaxNew - Len(out[id])) :
         LET t == SubSeq(out'[id], Len(out[id]) + 1, Len(out[id]) + n)
         IN  /\ out'[id] = out[id] \o t
             /\ Continues(Prompt[id] \o out[id], t)
             /\ EndsOnce(t)
             /\ n > 0 => id \notin over
             /\ (Len(out'[id]) = MaxNew \/ \E i \in 1..n : t[i] \in Eos) => id \in over'
  /\ DOMAIN out' = Ids
  /\ over \subseteq over' /\ over' \subseteq Ids

Spec == Init /\ [][Emit]_vars

=============================================================================
