---------------------------- MODULE EvictionLoop ----------------------------
(***************************************************************************)
(* The eviction loop of cache.rs, iteration by iteration, as a reference   *)
(* for PageVictims, which says in one formula what the loop does.          *)
(***************************************************************************)
EXTENDS CacheManager

Holders(e, b) == Cardinality({s \in DOMAIN e : b \in Range(e[s].blocks)})

\* evict_one picks from what is left of the counts r and the entries e.
Choice(r, e, held) ==
  LET live(b) == r[b] > Holders(e, b)
      filtered == {s \in DOMAIN e : /\ e[s].pins = 0
                                    /\ s \notin held
                                    /\ ~\A b \in Range(e[s].blocks) : live(b)}
      superseded(s) == \E o \in DOMAIN e : IsStrictPrefix(e[s].tokens, e[o].tokens)
      in_use(s) == \E b \in Range(e[s].blocks) : live(b)
      less(p, q) == ~p /\ q
      before(s, t) ==
        \/ less(~superseded(s), ~superseded(t))
        \/ superseded(s) = superseded(t) /\ less(in_use(s), in_use(t))
        \/ /\ superseded(s) = superseded(t) /\ in_use(s) = in_use(t)
           /\ <<s, t>> \in older
  IN  {s \in filtered : \A t \in filtered \ {s} : before(s, t)}

\* acquire_blocks: the entries that remain when n pages are free, or none can go.
RECURSIVE Remaining(_, _, _, _)
Remaining(r, e, n, held) ==
  LET free == {b \in Pages : r[b] = 0}
      choice == Choice(r, e, held)
  IN  IF Cardinality(free) >= n \/ choice = {}
      THEN DOMAIN e
      ELSE LET s == CHOOSE s \in choice : TRUE
           IN  Remaining([b \in Pages |-> IF b \in Range(e[s].blocks) THEN r[b] - 1 ELSE r[b]],
                         [t \in DOMAIN e \ {s} |-> e[t]], n, held)

\* Whatever the state of the cache, the loop of acquire_blocks and PageVictims
\* evict the same entries.  The order of eviction is that of the state the
\* loop started in: evicting one entry never makes another superseded or not,
\* or in use or not, while it still matters.
LoopEvictsVictims ==
  \A n \in 1..Cardinality(Pages), held \in {{}} \cup {{s} : s \in DOMAIN entries} :
    {V \in SUBSET PageCandidates(held) : PageVictims(V, n, held)}
      = {DOMAIN entries \ Remaining(refs, entries, n, held)}

=============================================================================
