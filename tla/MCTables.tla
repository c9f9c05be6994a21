------------------------------ MODULE MCTables ------------------------------
(* The page tables TLC enumerates.                                         *)
EXTENDS Integers, FiniteSets

\* The member of S that n of its members are below.
Nth(n, S) == CHOOSE p \in S : Cardinality({q \in S : q < p}) = n

\* Free pages are interchangeable, and no operation looks at a page's number:
\* the n lowest pages of S, in order, stand for every table taken from S.
LowestPages(n, S) ==
  IF n > Cardinality(S) THEN {} ELSE {[i \in 1..n |-> Nth(i - 1, S)]}

=============================================================================
