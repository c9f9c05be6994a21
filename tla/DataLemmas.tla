---------------------------- MODULE DataLemmas ----------------------------
(***************************************************************************)
(* Facts about data that have nothing to do with the state: prefixes and   *)
(* concatenations of page tables, the rounding of KvPool::blocks_for, the  *)
(* counting of owners, sums over finite sets, queues.  The folds of the    *)
(* library are recursive; induction over the subsets of a finite set, from *)
(* the well-foundedness of their order, is what sums are proved by.        *)
(***************************************************************************)
EXTENDS Integers, SequencesExt, FiniteSetTheorems, SequenceTheorems,
        WellFoundedInduction, TLAPS

\* The first k pages of a table: what admit_prompt shares with an entry,
\* what rollback_token keeps and what commit_snapshot captures.
LEMMA PrefixOfSeq ==
  ASSUME NEW S, NEW s \in Seq(S), NEW k \in 0..Len(s)
  PROVE  /\ SubSeq(s, 1, k) \in Seq(S)
         /\ Len(SubSeq(s, 1, k)) = k
         /\ \A i \in 1..k : SubSeq(s, 1, k)[i] = s[i]
         /\ Range(SubSeq(s, 1, k)) \subseteq Range(s)
         /\ IsInjective(s) => IsInjective(SubSeq(s, 1, k))
<1>1. /\ SubSeq(s, 1, k) \in Seq(S)
      /\ Len(SubSeq(s, 1, k)) = k
      /\ \A i \in 1..k : SubSeq(s, 1, k)[i] = s[i]
  BY SubSeqProperties, LenProperties, ElementOfSeq
<1>2. DOMAIN SubSeq(s, 1, k) = 1..k /\ DOMAIN s = 1..Len(s) /\ 1..k \subseteq 1..Len(s)
  BY <1>1, LenProperties
<1> QED BY <1>1, <1>2 DEF Range, IsInjective

\* A table from page k + 1 on: the pages that rollback_token splits off.
LEMMA RestOfSeq ==
  ASSUME NEW S, NEW s \in Seq(S), NEW n \in Nat, n = Len(s), NEW k \in 0..n
  PROVE  /\ DOMAIN SubSeq(s, k + 1, n) = 1..(n - k)
         /\ \A i \in 1..(n - k) : SubSeq(s, k + 1, n)[i] = s[k + i]
<1>2. DOMAIN s = 1..n /\ \A i \in 1..n : s[i] \in S
  BY LenProperties, ElementOfSeq
<1>3. /\ SubSeq(s, k + 1, n) \in Seq(S)
      /\ Len(SubSeq(s, k + 1, n)) = IF k + 1 <= n THEN n - (k + 1) + 1 ELSE 0
      /\ \A i \in 1..n - (k + 1) + 1 : SubSeq(s, k + 1, n)[i] = s[(k + 1) + i - 1]
  <2>1. \A i \in k + 1..n : s[i] \in S
    BY <1>2
  <2> QED BY <2>1, SubSeqProperties
<1>4. DOMAIN SubSeq(s, k + 1, n) = 1..n - k
  <2>1. DOMAIN SubSeq(s, k + 1, n) = 1..Len(SubSeq(s, k + 1, n))
    BY <1>3, LenProperties
  <2>2. CASE k + 1 <= n
    <3>1. n - (k + 1) + 1 = n - k
      OBVIOUS
    <3> QED BY <1>3, <2>1, <2>2, <3>1
  <2>3. CASE ~(k + 1 <= n)
    <3>1. n - k = 0
      BY <2>3
    <3> QED BY <1>3, <2>1, <2>3, <3>1
  <2> QED BY <2>2, <2>3
<1>5. ASSUME NEW i \in 1..n - k PROVE SubSeq(s, k + 1, n)[i] = s[k + i]
  <2>1. i \in 1..n - (k + 1) + 1 /\ (k + 1) + i - 1 = k + i
    OBVIOUS
  <2> QED BY <1>3, <2>1
<1> QED BY <1>4, <1>5

\* rollback_token splits a table without repeated pages into the pages it
\* keeps and the pages it gives back: a page is never in both.
LEMMA SplitSeq ==
  ASSUME NEW S, NEW s \in Seq(S), NEW n \in Nat, n = Len(s),
         NEW k \in 0..n, IsInjective(s)
  PROVE  Range(SubSeq(s, 1, k)) = Range(s) \ Range(SubSeq(s, k + 1, n))
<1>1. /\ DOMAIN SubSeq(s, 1, k) = 1..k
      /\ \A i \in 1..k : SubSeq(s, 1, k)[i] = s[i]
  BY PrefixOfSeq, LenProperties
<1>2. DOMAIN s = 1..n /\ \A i \in 1..n : s[i] \in S
  BY LenProperties, ElementOfSeq
<1>4. DOMAIN SubSeq(s, k + 1, n) = 1..n - k
  BY RestOfSeq
<1>5. ASSUME NEW i \in 1..n - k PROVE SubSeq(s, k + 1, n)[i] = s[k + i]
  BY RestOfSeq
<1>6. ASSUME NEW x \in Range(SubSeq(s, 1, k))
      PROVE  x \in Range(s) \ Range(SubSeq(s, k + 1, n))
  <2>1. PICK i \in 1..k : x = s[i]
    BY <1>1 DEF Range
  <2>2. ASSUME NEW j \in 1..n - k PROVE x # s[k + j]
    BY <2>1, <1>2 DEF IsInjective
  <2>3. x \notin Range(SubSeq(s, k + 1, n))
    BY <2>2, <1>5, <1>4 DEF Range
  <2>4. i \in DOMAIN s
    BY <1>2
  <2> QED BY <2>1, <2>3, <2>4 DEF Range
<1>7. ASSUME NEW x \in Range(s), x \notin Range(SubSeq(s, k + 1, n))
      PROVE  x \in Range(SubSeq(s, 1, k))
  <2>1. PICK i \in 1..n : x = s[i]
    BY <1>2 DEF Range
  <2>2. CASE i \in 1..k
    BY <2>1, <2>2, <1>1 DEF Range
  <2>3. CASE i \notin 1..k
    <3>1. i - k \in 1..n - k /\ k + (i - k) = i
      BY <2>3
    <3>2. SubSeq(s, k + 1, n)[i - k] = x
      BY <3>1, <2>1, <1>5
    <3> QED BY <3>1, <3>2, <1>4, <1>7 DEF Range
  <2> QED BY <2>2, <2>3
<1> QED BY <1>6, <1>7

\* A table extended by pages it does not hold has no page twice: append_token
\* and admit_prompt extend tables with fresh pages.
LEMMA JoinSeq ==
  ASSUME NEW S, NEW s \in Seq(S), NEW t \in Seq(S),
         IsInjective(s), IsInjective(t), Range(s) \cap Range(t) = {}
  PROVE  IsInjective(s \o t)
<1>1. /\ Len(s) \in Nat /\ Len(t) \in Nat
      /\ DOMAIN s = 1..Len(s) /\ DOMAIN t = 1..Len(t)
      /\ DOMAIN (s \o t) = 1..Len(s) + Len(t)
      /\ \A i \in 1..Len(s) + Len(t) :
           (s \o t)[i] = IF i <= Len(s) THEN s[i] ELSE t[i - Len(s)]
  BY LenProperties, ConcatProperties
<1>2. ASSUME NEW i \in 1..Len(s) + Len(t), NEW j \in 1..Len(s) + Len(t),
             (s \o t)[i] = (s \o t)[j], i <= Len(s)
      PROVE  i = j
  <2>1. i \in 1..Len(s) /\ (s \o t)[i] = s[i] /\ s[i] \in Range(s)
    BY <1>1, <1>2 DEF Range
  <2>2. j <= Len(s)
    <3>1. SUFFICES ASSUME ~(j <= Len(s)) PROVE FALSE
      OBVIOUS
    <3>2. j - Len(s) \in 1..Len(t) /\ (s \o t)[j] = t[j - Len(s)]
      BY <1>1, <3>1
    <3>3. t[j - Len(s)] \in Range(t)
      BY <1>1, <3>2 DEF Range
    <3> QED BY <1>2, <2>1, <3>2, <3>3
  <2>3. j \in 1..Len(s) /\ (s \o t)[j] = s[j]
    BY <1>1, <2>2
  <2> QED BY <1>1, <1>2, <2>1, <2>3 DEF IsInjective
<1>3. ASSUME NEW i \in 1..Len(s) + Len(t), NEW j \in 1..Len(s) + Len(t),
             (s \o t)[i] = (s \o t)[j], ~(i <= Len(s)), ~(j <= Len(s))
      PROVE  i = j
  <2>1. /\ i - Len(s) \in 1..Len(t) /\ (s \o t)[i] = t[i - Len(s)]
        /\ j - Len(s) \in 1..Len(t) /\ (s \o t)[j] = t[j - Len(s)]
    BY <1>1, <1>3
  <2>2. i - Len(s) = j - Len(s)
    BY <1>1, <1>3, <2>1 DEF IsInjective
  <2> QED BY <1>1, <2>2
<1>4. ASSUME NEW i \in 1..Len(s) + Len(t), NEW j \in 1..Len(s) + Len(t),
             (s \o t)[i] = (s \o t)[j]
      PROVE  i = j
  <2>1. CASE i <= Len(s)
    BY <1>2, <1>4, <2>1
  <2>2. CASE j <= Len(s)
    BY <1>2, <1>4, <2>2
  <2> QED BY <1>3, <1>4, <2>1, <2>2
<1> QED BY <1>1, <1>4 DEF IsInjective

\* The length of a table is determined by its domain.
LEMMA IntervalLength ==
  ASSUME NEW m \in Nat, NEW n \in Nat, 1..m = 1..n
  PROVE  m = n
<1>1. CASE m < n
  <2>1. n \in 1..n /\ n \notin 1..m
    BY <1>1
  <2> QED BY <2>1
<1>2. CASE n < m
  <2>1. m \in 1..m /\ m \notin 1..n
    BY <1>2
  <2> QED BY <2>1
<1> QED BY <1>1, <1>2

\* A table that acquire returns, an injection of 1..n into the free pages, is
\* a sequence of n different free pages.
LEMMA TableIsSeq ==
  ASSUME NEW S, NEW n \in Nat, NEW f \in Injection(1..n, S)
  PROVE  f \in Seq(S) /\ Len(f) = n /\ IsInjective(f) /\ Range(f) \subseteq S
<1>1. f \in [1..n -> S] /\ IsInjective(f)
  BY DEF Injection
<1>2. f \in Seq(S)
  BY <1>1, SeqDef
<1>3. Len(f) = n
  <2>1. DOMAIN f = 1..n
    BY <1>1
  <2>2. DOMAIN f = 1..Len(f) /\ Len(f) \in Nat
    BY <1>2, LenProperties
  <2>3. Len(f) \in Nat /\ 1..Len(f) = 1..n
    BY <2>1, <2>2
  <2> QED BY <2>3, IntervalLength
<1> QED BY <1>1, <1>2, <1>3 DEF Range

\* div_ceil and the division into full pages yield natural numbers.
LEMMA QuotientType ==
  ASSUME NEW a \in Nat, NEW d \in Nat \ {0}
  PROVE  a \div d \in Nat
OBVIOUS

\* Division by the page size is monotonic: more tokens never need fewer pages.
LEMMA QuotientMonotonic ==
  ASSUME NEW a \in Nat, NEW c \in Nat, a <= c, NEW d \in Nat \ {0}
  PROVE  a \div d <= c \div d
OBVIOUS

\* The owners of a page counted in two parts.
LEMMA SplitCount ==
  ASSUME NEW S, IsFiniteSet(S), NEW T \in SUBSET S
  PROVE  /\ IsFiniteSet(T) /\ IsFiniteSet(S \ T)
         /\ Cardinality(T) \in Nat /\ Cardinality(S \ T) \in Nat
         /\ Cardinality(S) = Cardinality(S \ T) + Cardinality(T)
<1>1. IsFiniteSet(T) /\ IsFiniteSet(S \ T)
  BY FS_Subset
<1>2. Cardinality(T) \in Nat /\ Cardinality(S \ T) \in Nat /\ Cardinality({}) = 0
  BY <1>1, FS_CardinalityType, FS_EmptySet
<1>3. Cardinality((S \ T) \cup T) =
        Cardinality(S \ T) + Cardinality(T) - Cardinality((S \ T) \cap T)
  BY <1>1, FS_Union
<1>4. (S \ T) \cup T = S /\ (S \ T) \cap T = {}
  OBVIOUS
<1>5. Cardinality(S) = Cardinality(S \ T) + Cardinality(T) - Cardinality({})
  BY <1>3, <1>4, Zenon
<1>6. Cardinality(S) = Cardinality(S \ T) + Cardinality(T)
  BY <1>2, <1>5
<1> QED BY <1>1, <1>2, <1>6

\* One element fewer: the count of owners when one of them leaves.
LEMMA OneLess ==
  ASSUME NEW S, IsFiniteSet(S), NEW x \in S, NEW R, R = S \ {x}
  PROVE  Cardinality(R) \in Nat /\ Cardinality(S) = Cardinality(R) + 1
<1>1. IsFiniteSet(R) /\ Cardinality(R) \in Nat /\ Cardinality(S) \in Nat
  BY FS_Subset, FS_CardinalityType
<1>2. Cardinality(S \ {x}) = Cardinality(S) - 1
  BY FS_RemoveElement
<1>3. \A m, n \in Nat : m = n - 1 => n = m + 1
  OBVIOUS
<1> QED BY <1>1, <1>2, <1>3

\* The pages of a table that got more pages at its end.
LEMMA JoinRange ==
  ASSUME NEW S, NEW s \in Seq(S), NEW t \in Seq(S)
  PROVE  /\ s \o t \in Seq(S)
         /\ Len(s \o t) = Len(s) + Len(t)
         /\ Range(s \o t) = Range(s) \cup Range(t)
<1>1. /\ Len(s) \in Nat /\ Len(t) \in Nat
      /\ DOMAIN s = 1..Len(s) /\ DOMAIN t = 1..Len(t)
      /\ DOMAIN (s \o t) = 1..Len(s) + Len(t)
      /\ \A i \in 1..Len(s) + Len(t) :
           (s \o t)[i] = IF i <= Len(s) THEN s[i] ELSE t[i - Len(s)]
  BY LenProperties, ConcatProperties
<1>2. s \o t \in Seq(S) /\ Len(s \o t) = Len(s) + Len(t)
  BY ConcatProperties
<1>3. ASSUME NEW i \in DOMAIN (s \o t)
      PROVE  (s \o t)[i] \in Range(s) \cup Range(t)
  <2>1. CASE i <= Len(s)
    BY <1>1, <2>1 DEF Range
  <2>2. CASE ~(i <= Len(s))
    <3>1. i - Len(s) \in 1..Len(t) /\ (s \o t)[i] = t[i - Len(s)]
      BY <1>1, <2>2
    <3> QED BY <1>1, <3>1 DEF Range
  <2> QED BY <2>1, <2>2
<1>4. ASSUME NEW i \in DOMAIN s
      PROVE  s[i] \in Range(s \o t)
  <2>1. i \in 1..Len(s) + Len(t) /\ (s \o t)[i] = s[i]
    BY <1>1
  <2> QED BY <1>1, <2>1 DEF Range
<1>5. ASSUME NEW i \in DOMAIN t
      PROVE  t[i] \in Range(s \o t)
  <2>1. /\ Len(s) + i \in 1..Len(s) + Len(t)
        /\ ~(Len(s) + i <= Len(s)) /\ Len(s) + i - Len(s) = i
    BY <1>1
  <2>2. (s \o t)[Len(s) + i] = t[i]
    BY <1>1, <2>1
  <2> QED BY <1>1, <2>1, <2>2 DEF Range
<1> QED BY <1>2, <1>3, <1>4, <1>5 DEF Range

-----------------------------------------------------------------------------
(* Induction.                                                              *)

\* Induction over the subsets of a finite set: what holds of a subset as soon
\* as it holds of its proper subsets holds of all of them.
LEMMA StrongSetInduction ==
  ASSUME NEW S, IsFiniteSet(S), NEW T,
         \A U \in SUBSET S : (\A W \in SUBSET U : W # U => W \in T) => U \in T
  PROVE  S \in T
<1> SUFFICES ASSUME S \notin T PROVE FALSE
  OBVIOUS
<1> DEFINE F == {U \in FiniteSubsetsOf(S) : U \notin T}
<1>1. S \in F /\ F \subseteq FiniteSubsetsOf(S)
  BY DEF FiniteSubsetsOf
<1>2. PICK U \in F : \A W \in F : ~(<<W, U>> \in StrictSubsetOrdering(S))
  <2>1. IsWellFoundedOn(StrictSubsetOrdering(S), FiniteSubsetsOf(S))
    BY FS_StrictSubsetOrderingWellFounded
  <2> HIDE DEF F
  <2>2. F # {}
    BY <1>1
  <2> QED BY <1>1, <2>1, <2>2, WFMin
<1>3. U \in SUBSET S /\ U \notin T
  BY DEF FiniteSubsetsOf
<1>4. PICK W \in SUBSET U : W # U /\ W \notin T
  BY <1>3
<1>5. W \in F
  BY <1>3, <1>4, FS_Subset DEF FiniteSubsetsOf
<1>6. <<W, U>> \in StrictSubsetOrdering(S)
  BY <1>3, <1>4 DEF StrictSubsetOrdering
<1> QED BY <1>2, <1>5, <1>6

\* The same, one element at a time.
LEMMA SetInduction ==
  ASSUME NEW S, IsFiniteSet(S), NEW T, {} \in T,
         \A U \in SUBSET S, x \in S : U \in T /\ x \notin U => U \cup {x} \in T
  PROVE  S \in T
<1>1. ASSUME NEW U \in SUBSET S, \A W \in SUBSET U : W # U => W \in T
      PROVE  U \in T
  <2>1. CASE U = {}
    BY <2>1
  <2>2. CASE U # {}
    <3>1. PICK x \in U : TRUE
      BY <2>2
    <3>2. U \ {x} \in T
      BY <1>1, <3>1
    <3>3. (U \ {x}) \cup {x} = U /\ U \ {x} \in SUBSET S /\ x \in S
      BY <3>1
    <3> QED BY <3>2, <3>3
  <2> QED BY <2>1, <2>2
<1> QED BY <1>1, StrongSetInduction

\* Induction over the natural numbers.
LEMMA SetOfNaturals ==
  ASSUME NEW T, 0 \in T, \A n \in Nat : n \in T => n + 1 \in T
  PROVE  Nat \subseteq T
<1> SUFFICES ASSUME NEW n \in Nat PROVE n \in T
  OBVIOUS
<1>0. IsFiniteSet(1..n) /\ Cardinality(1..n) = n
  BY FS_Interval
<1> DEFINE F == {U \in SUBSET (1..n) : Cardinality(U) \in T}
<1>1. {} \in F
  BY FS_EmptySet
<1>2. ASSUME NEW U \in SUBSET (1..n), NEW x \in 1..n, U \in F, x \notin U
      PROVE  U \cup {x} \in F
  <2>1. IsFiniteSet(U)
    BY <1>0, FS_Subset
  <2>2. Cardinality(U \cup {x}) = Cardinality(U) + 1 /\ Cardinality(U) \in Nat
    BY <1>2, <2>1, FS_AddElement, FS_CardinalityType
  <2> QED BY <1>2, <2>2
<1>3. 1..n \in F
  <2> HIDE DEF F
  <2> QED BY <1>0, <1>1, <1>2, SetInduction
<1> QED BY <1>0, <1>3

-----------------------------------------------------------------------------
(* Sums over finite sets.                                                  *)

\* The element a fold takes from s next.
Pick(s) == CHOOSE x \in s : TRUE

\* g[s] is the sum of f over s, for the sets s of D.
Sums(f, D, g) ==
  g = [s \in D |-> IF s = {} THEN 0 ELSE f[Pick(s)] + g[s \ {Pick(s)}]]

Smaller(S, n) == {s \in SUBSET S : Cardinality(s) <= n}

\* A sum is defined: some function satisfies its recursion on the subsets of S.
LEMMA SumsExist ==
  ASSUME NEW f, NEW S, IsFiniteSet(S)
  PROVE  \E g : Sums(f, SUBSET S, g)
<1> DEFINE T == {n \in Nat : \E g : Sums(f, Smaller(S, n), g)}
<1>0. \A s \in SUBSET S : IsFiniteSet(s) /\ Cardinality(s) \in Nat
           /\ Cardinality(s) <= Cardinality(S)
  BY FS_Subset, FS_CardinalityType
<1>a. \A s \in SUBSET S : s # {} =>
        /\ Pick(s) \in s /\ s \ {Pick(s)} \in SUBSET S
        /\ Cardinality(s \ {Pick(s)}) = Cardinality(s) - 1
  BY <1>0, FS_RemoveElement DEF Pick
<1>1. 0 \in T
  <2> DEFINE g == [s \in Smaller(S, 0) |-> 0]
  <2>1. \A s \in Smaller(S, 0) : s = {}
    BY <1>0, FS_EmptySet DEF Smaller
  <2>2. Sums(f, Smaller(S, 0), g)
    BY <2>1 DEF Sums
  <2> QED BY <2>2
<1>2. ASSUME NEW n \in Nat, n \in T PROVE n + 1 \in T
  <2>1. PICK g : Sums(f, Smaller(S, n), g)
    BY <1>2
  <2> DEFINE h == [s \in Smaller(S, n + 1) |->
                     IF s = {} THEN 0 ELSE f[Pick(s)] + g[s \ {Pick(s)}]]
  <2>2. ASSUME NEW s \in Smaller(S, n) PROVE h[s] = g[s]
    <3>1. s \in Smaller(S, n + 1)
      BY <1>0 DEF Smaller
    <3> QED BY <2>1, <3>1 DEF Sums
  <2>3. ASSUME NEW s \in Smaller(S, n + 1), s # {} PROVE s \ {Pick(s)} \in Smaller(S, n)
    BY <1>0, <1>a, <2>3 DEF Smaller
  <2>4. Sums(f, Smaller(S, n + 1), h)
    BY <2>2, <2>3 DEF Sums
  <2> QED BY <2>4
<1>3. Cardinality(S) \in T
  <2> HIDE DEF T
  <2> QED BY <1>0, <1>1, <1>2, SetOfNaturals
<1>4. Smaller(S, Cardinality(S)) = SUBSET S
  BY <1>0 DEF Smaller
<1> QED BY <1>3, <1>4

\* The fold of the library is such a sum.
LEMMA SumIsSums ==
  ASSUME NEW f, NEW S, IsFiniteSet(S)
  PROVE  \E g : Sums(f, SUBSET S, g) /\ SumFunctionOnSet(f, S) = g[S]
<1> DEFINE G == CHOOSE g : Sums(f, SUBSET S, g)
<1>1. Sums(f, SUBSET S, G)
  BY SumsExist
<1>2. SumFunctionOnSet(f, S) = G[S]
  BY DEF SumFunctionOnSet, FoldFunctionOnSet, MapThenFoldSet, Sums, Pick
<1> QED BY <1>1, <1>2

\* A sum depends on the summands only, not on the set it is a part of.
LEMMA SumsAgree ==
  ASSUME NEW U, IsFiniteSet(U), NEW f, NEW h, \A x \in U : f[x] = h[x],
         NEW D, SUBSET U \subseteq D, NEW g, Sums(f, D, g),
         NEW E, SUBSET U \subseteq E, NEW k, Sums(h, E, k)
  PROVE  g[U] = k[U]
<1> DEFINE T == {W \in SUBSET U : g[W] = k[W]}
<1>1. ASSUME NEW W \in SUBSET U, \A V \in SUBSET W : V # W => V \in T
      PROVE  W \in T
  <2>1. CASE W = {}
    BY <2>1 DEF Sums
  <2>2. CASE W # {}
    <3>1. Pick(W) \in W
      BY <2>2 DEF Pick
    <3>2. W \ {Pick(W)} \in T
      BY <1>1, <3>1
    <3>3. f[Pick(W)] = h[Pick(W)]
      BY <3>1
    <3>4. g[W] = f[Pick(W)] + g[W \ {Pick(W)}] /\ k[W] = h[Pick(W)] + k[W \ {Pick(W)}]
      BY <2>2 DEF Sums
    <3> QED BY <3>2, <3>3, <3>4
  <2> QED BY <2>1, <2>2
<1>2. U \in T
  <2> HIDE DEF T
  <2> QED BY <1>1, StrongSetInduction
<1> QED BY <1>2

\* A sum depends on the values over its set only.
LEMMA SumAgree ==
  ASSUME NEW f, NEW h, NEW S, IsFiniteSet(S), \A x \in S : f[x] = h[x]
  PROVE  SumFunctionOnSet(f, S) = SumFunctionOnSet(h, S)
<1>1. PICK g : Sums(f, SUBSET S, g) /\ SumFunctionOnSet(f, S) = g[S]
  BY SumIsSums
<1>2. PICK k : Sums(h, SUBSET S, k) /\ SumFunctionOnSet(h, S) = k[S]
  BY SumIsSums
<1> DEFINE D == SUBSET S
<1>3. Sums(f, D, g) /\ Sums(h, D, k) /\ SUBSET S \subseteq D
  BY <1>1, <1>2
<1>4. g[S] = k[S]
  <2> HIDE DEF D
  <2> QED BY <1>3, SumsAgree
<1> QED BY <1>1, <1>2, <1>4

\* The sum over no elements.
LEMMA SumEmpty == ASSUME NEW f PROVE SumFunctionOnSet(f, {}) = 0
<1>1. PICK g : Sums(f, SUBSET {}, g) /\ SumFunctionOnSet(f, {}) = g[{}]
  BY SumIsSums, FS_EmptySet
<1> QED BY <1>1 DEF Sums

\* The fold takes one element after the other.
LEMMA SumPick ==
  ASSUME NEW f, NEW S, IsFiniteSet(S), S # {}
  PROVE  /\ Pick(S) \in S
         /\ SumFunctionOnSet(f, S) = f[Pick(S)] + SumFunctionOnSet(f, S \ {Pick(S)})
<1>1. PICK g : Sums(f, SUBSET S, g) /\ SumFunctionOnSet(f, S) = g[S]
  BY SumIsSums
<1>2. IsFiniteSet(S \ {Pick(S)})
  BY FS_Subset
<1>3. PICK k : /\ Sums(f, SUBSET (S \ {Pick(S)}), k)
               /\ SumFunctionOnSet(f, S \ {Pick(S)}) = k[S \ {Pick(S)}]
  BY <1>2, SumIsSums
<1>4. g[S \ {Pick(S)}] = k[S \ {Pick(S)}]
  <2> DEFINE R == S \ {Pick(S)}
  <2> DEFINE D == SUBSET S
             E == SUBSET R
  <2>1. SUBSET R \subseteq D /\ SUBSET R \subseteq E /\ IsFiniteSet(R)
    BY <1>2
  <2>2. Sums(f, D, g) /\ Sums(f, E, k)
    BY <1>1, <1>3
  <2> HIDE DEF R, D, E
  <2>3. g[R] = k[R]
    BY <2>1, <2>2, SumsAgree
  <2> QED BY <2>3 DEF R
<1>5. g[S] = f[Pick(S)] + g[S \ {Pick(S)}]
  BY <1>1 DEF Sums
<1> QED BY <1>1, <1>3, <1>4, <1>5 DEF Pick

\* A sum of integers is an integer.
LEMMA SumInt ==
  ASSUME NEW f, NEW S, IsFiniteSet(S), \A x \in S : f[x] \in Int
  PROVE  SumFunctionOnSet(f, S) \in Int
<1> DEFINE T == {U \in SUBSET S : SumFunctionOnSet(f, U) \in Int}
<1>1. ASSUME NEW U \in SUBSET S, \A W \in SUBSET U : W # U => W \in T
      PROVE  U \in T
  <2>1. CASE U = {}
    BY <2>1, SumEmpty
  <2>2. CASE U # {}
    <3>1. /\ Pick(U) \in U
          /\ SumFunctionOnSet(f, U) = f[Pick(U)] + SumFunctionOnSet(f, U \ {Pick(U)})
      BY <2>2, FS_Subset, SumPick
    <3>2. U \ {Pick(U)} \in T
      BY <1>1, <3>1
    <3>3. SumFunctionOnSet(f, U \ {Pick(U)}) \in Int /\ f[Pick(U)] \in Int
      BY <3>1, <3>2
    <3> QED BY <3>1, <3>3
  <2> QED BY <2>1, <2>2
<1>2. S \in T
  <2> HIDE DEF T
  <2> QED BY <1>1, StrongSetInduction
<1> QED BY <1>2

\* Any element may be taken first.
LEMMA SumRemove ==
  ASSUME NEW f, NEW S, IsFiniteSet(S), \A x \in S : f[x] \in Int, NEW e \in S
  PROVE  /\ SumFunctionOnSet(f, S) = f[e] + SumFunctionOnSet(f, S \ {e})
         /\ SumFunctionOnSet(f, S \ {e}) \in Int
<1> DEFINE Sum(U) == SumFunctionOnSet(f, U)
           T == {U \in SUBSET S : \A x \in U : Sum(U) = f[x] + Sum(U \ {x})}
<1>0. \A U \in SUBSET S : IsFiniteSet(U) /\ Sum(U) \in Int
  BY FS_Subset, SumInt
<1>1. ASSUME NEW U \in SUBSET S, \A W \in SUBSET U : W # U => W \in T
      PROVE  U \in T
  <2> SUFFICES ASSUME NEW x \in U PROVE Sum(U) = f[x] + Sum(U \ {x})
    OBVIOUS
  <2> DEFINE p == Pick(U)
  <2>1. p \in U /\ Sum(U) = f[p] + Sum(U \ {p})
    BY <1>0, SumPick
  <2>2. CASE p = x
    BY <2>1, <2>2
  <2>3. CASE p # x
    <3> HIDE DEF p
    <3>1. U \ {p} \in T /\ x \in U \ {p} /\ U \ {x} \in T /\ p \in U \ {x}
      <4> HIDE DEF T
      <4>1. U \ {p} \in SUBSET U /\ U \ {p} # U /\ U \ {x} \in SUBSET U /\ U \ {x} # U
        BY <2>1
      <4> QED BY <1>1, <2>1, <2>3, <4>1
    <3>2. Sum(U \ {p}) = f[x] + Sum((U \ {p}) \ {x})
      BY <3>1
    <3>4. (U \ {x}) \ {p} = (U \ {p}) \ {x}
      OBVIOUS
    <3>3. Sum(U \ {x}) = f[p] + Sum((U \ {p}) \ {x})
      BY <3>1, <3>4
    <3>5. f[x] \in Int /\ f[p] \in Int /\ Sum((U \ {p}) \ {x}) \in Int
      BY <1>0, <2>1
    <3>6. \A a, b, c \in Int : a + (b + c) = b + (a + c)
      OBVIOUS
    <3> HIDE DEF Sum
    <3>7. Sum(U) = f[p] + (f[x] + Sum((U \ {p}) \ {x}))
      BY <2>1, <3>2
    <3> QED BY <3>3, <3>5, <3>6, <3>7
  <2> QED BY <2>2, <2>3
<1>2. S \in T
  <2> HIDE DEF T
  <2> QED BY <1>1, StrongSetInduction
<1>3. S \ {e} \in SUBSET S
  OBVIOUS
<1> QED BY <1>0, <1>2, <1>3

\* One more element adds its value.
LEMMA SumAdd ==
  ASSUME NEW f, NEW S, IsFiniteSet(S), \A x \in S : f[x] \in Int,
         NEW e, e \notin S, f[e] \in Int
  PROVE  SumFunctionOnSet(f, S \cup {e}) = f[e] + SumFunctionOnSet(f, S)
<1> DEFINE R == S \cup {e}
<1>1. IsFiniteSet(R) /\ R \ {e} = S /\ e \in R
  BY FS_AddElement
<1>2. \A x \in R : f[x] \in Int
  OBVIOUS
<1> HIDE DEF R
<1>3. SumFunctionOnSet(f, R) = f[e] + SumFunctionOnSet(f, R \ {e})
  BY <1>1, <1>2, SumRemove
<1> QED BY <1>1, <1>3 DEF R

\* Sums of larger summands over larger sets are larger.
LEMMA SumLeq ==
  ASSUME NEW f, NEW h, NEW S, IsFiniteSet(S), NEW R \in SUBSET S,
         \A x \in R : f[x] \in Int /\ f[x] <= h[x], \A x \in S : h[x] \in Nat
  PROVE  SumFunctionOnSet(f, R) <= SumFunctionOnSet(h, S)
<1> DEFINE T == {U \in SUBSET S : SumFunctionOnSet(f, R \cap U) <= SumFunctionOnSet(h, U)}
<1>1. {} \in T
  BY SumEmpty
<1>2. ASSUME NEW U \in SUBSET S, NEW x \in S, U \in T, x \notin U
      PROVE  U \cup {x} \in T
  <2>1. IsFiniteSet(U) /\ IsFiniteSet(R \cap U)
    BY FS_Subset
  <2>2. /\ SumFunctionOnSet(h, U) \in Int /\ SumFunctionOnSet(f, R \cap U) \in Int
        /\ h[x] \in Nat
    BY <2>1, SumInt
  <2>3. SumFunctionOnSet(h, U \cup {x}) = h[x] + SumFunctionOnSet(h, U)
    BY <1>2, <2>1, SumAdd
  <2>4. CASE x \in R
    <3>1. R \cap (U \cup {x}) = (R \cap U) \cup {x} /\ x \notin R \cap U
      BY <1>2, <2>4
    <3>2. SumFunctionOnSet(f, (R \cap U) \cup {x}) = f[x] + SumFunctionOnSet(f, R \cap U)
      BY <2>1, <2>4, <3>1, SumAdd
    <3>3. f[x] \in Int /\ f[x] <= h[x]
      BY <2>4
    <3>4. SumFunctionOnSet(f, R \cap U) <= SumFunctionOnSet(h, U)
      BY <1>2
    <3>5. SumFunctionOnSet(f, R \cap (U \cup {x})) <= SumFunctionOnSet(h, U \cup {x})
      <4>1. \A a, b, c, d \in Int : a <= b /\ c <= d => a + c <= b + d
        OBVIOUS
      <4> HIDE DEF T
      <4>2. f[x] + SumFunctionOnSet(f, R \cap U) <= h[x] + SumFunctionOnSet(h, U)
        BY <2>2, <3>3, <3>4, <4>1
      <4> QED BY <2>3, <3>1, <3>2, <4>2
    <3> QED BY <3>5
  <2>5. CASE x \notin R
    <3>1. R \cap (U \cup {x}) = R \cap U
      BY <2>5
    <3>2. SumFunctionOnSet(f, R \cap U) <= SumFunctionOnSet(h, U)
      BY <1>2
    <3>3. SumFunctionOnSet(f, R \cap (U \cup {x})) <= SumFunctionOnSet(h, U \cup {x})
      <4> HIDE DEF T
      <4> QED BY <2>2, <2>3, <3>1, <3>2
    <3> QED BY <3>3
  <2> QED BY <2>4, <2>5
<1>3. S \in T
  <2> HIDE DEF T
  <2> QED BY <1>1, <1>2, SetInduction
<1>4. R \cap S = R
  OBVIOUS
<1> QED BY <1>3, <1>4

\* A sum of natural numbers is a natural number.
LEMMA SumNat ==
  ASSUME NEW f, NEW S, IsFiniteSet(S), \A x \in S : f[x] \in Nat
  PROVE  SumFunctionOnSet(f, S) \in Nat
<1>1. SumFunctionOnSet(f, {}) <= SumFunctionOnSet(f, S)
  BY SumLeq
<1>2. SumFunctionOnSet(f, S) \in Int
  BY SumInt
<1> QED BY <1>1, <1>2, SumEmpty

\* A sum is at most the number of its summands times the largest of them.
LEMMA SumBound ==
  ASSUME NEW f, NEW S, IsFiniteSet(S), NEW b \in Nat,
         \A x \in S : f[x] \in Nat /\ f[x] <= b
  PROVE  SumFunctionOnSet(f, S) <= Cardinality(S) * b
<1> DEFINE T == {U \in SUBSET S : SumFunctionOnSet(f, U) <= Cardinality(U) * b}
<1>1. {} \in T
  BY SumEmpty, FS_EmptySet
<1>2. ASSUME NEW U \in SUBSET S, NEW x \in S, U \in T, x \notin U
      PROVE  U \cup {x} \in T
  <2>1. IsFiniteSet(U) /\ Cardinality(U) \in Nat
    BY FS_Subset, FS_CardinalityType
  <2>2. SumFunctionOnSet(f, U) \in Nat /\ f[x] \in Nat /\ f[x] <= b
    BY <2>1, SumNat
  <2>3. SumFunctionOnSet(f, U \cup {x}) = f[x] + SumFunctionOnSet(f, U)
    BY <1>2, <2>1, <2>2, SumAdd
  <2>4. Cardinality(U \cup {x}) = Cardinality(U) + 1
    BY <1>2, <2>1, FS_AddElement
  <2>5. SumFunctionOnSet(f, U) <= Cardinality(U) * b
    BY <1>2
  <2> DEFINE n == Cardinality(U)
             m == SumFunctionOnSet(f, U)
             y == f[x]
  <2>6. y + m <= (n + 1) * b
    <3>1. n \in Nat /\ m \in Nat /\ y \in Nat /\ y <= b /\ m <= n * b
      BY <2>1, <2>2, <2>5
    <3> HIDE DEF n, m, y
    <3>2. n * b \in Nat /\ (n + 1) * b = n * b + b
      BY <3>1
    <3> QED BY <3>1, <3>2
  <2> QED BY <2>3, <2>4, <2>6
<1> HIDE DEF T
<1>3. S \in T
  BY <1>1, <1>2, SetInduction
<1> QED BY <1>3 DEF T

\* The difference of two sums is the sum of the differences.
LEMMA SumDifference ==
  ASSUME NEW f, NEW h, NEW d, NEW S, IsFiniteSet(S),
         \A x \in S : f[x] \in Int /\ h[x] \in Int /\ d[x] = f[x] - h[x]
  PROVE  SumFunctionOnSet(d, S) = SumFunctionOnSet(f, S) - SumFunctionOnSet(h, S)
<1> DEFINE T == {U \in SUBSET S : SumFunctionOnSet(d, U) = SumFunctionOnSet(f,
         U) - SumFunctionOnSet(h, U)}
<1>1. {} \in T
  BY SumEmpty
<1>2. ASSUME NEW U \in SUBSET S, NEW x \in S, U \in T, x \notin U
      PROVE  U \cup {x} \in T
  <2>1. IsFiniteSet(U) /\ \A y \in U : d[y] \in Int
    BY FS_Subset
  <2>2. /\ SumFunctionOnSet(h, U) \in Int /\ SumFunctionOnSet(f, U) \in Int
        /\ SumFunctionOnSet(d, U) \in Int /\ d[x] \in Int
    BY <2>1, SumInt
  <2>3. /\ SumFunctionOnSet(h, U \cup {x}) = h[x] + SumFunctionOnSet(h, U)
        /\ SumFunctionOnSet(f, U \cup {x}) = f[x] + SumFunctionOnSet(f, U)
        /\ SumFunctionOnSet(d, U \cup {x}) = d[x] + SumFunctionOnSet(d, U)
    <3>1. /\ \A y \in U : h[y] \in Int /\ f[y] \in Int
          /\ h[x] \in Int /\ f[x] \in Int
      OBVIOUS
    <3> QED BY <1>2, <2>1, <2>2, <3>1, SumAdd
  <2>4. SumFunctionOnSet(d, U) = SumFunctionOnSet(f, U) - SumFunctionOnSet(h, U)
    BY <1>2
  <2> QED BY <2>2, <2>3, <2>4
<1>3. S \in T
  <2> HIDE DEF T
  <2> QED BY <1>1, <1>2, SetInduction
<1> QED BY <1>3

\* A union has at most as many elements as its parts together.
LEMMA UnionCount ==
  ASSUME NEW P, NEW c, NEW S, IsFiniteSet(S),
         \A x \in S : IsFiniteSet(P[x]) /\ Cardinality(P[x]) <= c[x] /\ c[x] \in Nat
  PROVE  /\ IsFiniteSet(UNION {P[x] : x \in S})
         /\ Cardinality(UNION {P[x] : x \in S}) <= SumFunctionOnSet(c, S)
<1> DEFINE All(U) == UNION {P[x] : x \in U}
           T == {U \in SUBSET S : IsFiniteSet(All(U))
                /\ Cardinality(All(U)) <= SumFunctionOnSet(c, U)}
<1>1. {} \in T
  <2>1. All({}) = {}
    OBVIOUS
  <2> QED BY <2>1, SumEmpty, FS_EmptySet
<1>2. ASSUME NEW U \in SUBSET S, NEW x \in S, U \in T, x \notin U
      PROVE  U \cup {x} \in T
  <2>1. All(U \cup {x}) = All(U) \cup P[x]
    OBVIOUS
  <2>2. IsFiniteSet(U) /\ IsFiniteSet(All(U)) /\ IsFiniteSet(P[x])
    BY <1>2, FS_Subset
  <2> HIDE DEF All
  <2>3. /\ IsFiniteSet(All(U) \cup P[x])
        /\ Cardinality(All(U) \cup P[x]) =
             Cardinality(All(U)) + Cardinality(P[x]) - Cardinality(All(U) \cap P[x])
    BY <2>2, FS_Union
  <2>4. IsFiniteSet(All(U) \cap P[x])
    BY <2>2, FS_Subset
  <2>5. /\ Cardinality(All(U)) \in Nat /\ Cardinality(P[x]) \in Nat
        /\ Cardinality(All(U) \cap P[x]) \in Nat
        /\ Cardinality(All(U) \cup P[x]) \in Nat
    BY <2>2, <2>3, <2>4, FS_CardinalityType
  <2>6. SumFunctionOnSet(c, U \cup {x}) = c[x] + SumFunctionOnSet(c, U)
             /\ SumFunctionOnSet(c, U) \in Int
    <3>1. c[x] \in Int /\ \A y \in U : c[y] \in Int
      OBVIOUS
    <3> QED BY <1>2, <2>2, <3>1, SumAdd, SumInt
  <2>7. Cardinality(All(U)) <= SumFunctionOnSet(c, U) /\ Cardinality(P[x]) <= c[x] /\ c[x] \in Nat
    BY <1>2
  <2>8. Cardinality(All(U) \cup P[x]) <= SumFunctionOnSet(c, U \cup {x})
    BY <2>3, <2>5, <2>6, <2>7
  <2> QED BY <2>1, <2>3, <2>8
<1>3. S \in T
  <2> HIDE DEF T
  <2> QED BY <1>1, <1>2, SetInduction
<1> QED BY <1>3

-----------------------------------------------------------------------------
(* Queues: sequences without repetitions.                                  *)

\* The elements of a queue in front of x.
Before(q, x) == {q[i] : i \in {j \in DOMAIN q : \E k \in DOMAIN q : j < k /\ q[k] = x}}

\* They are the elements at the places in front of its own.
LEMMA BeforePlace ==
  ASSUME NEW S, NEW q \in Seq(S), IsInjective(q), NEW k \in 1..Len(q)
  PROVE  Before(q, q[k]) = {q[i] : i \in 1..(k - 1)}
<1> DEFINE n == Len(q)
<1>1. n \in Nat /\ DOMAIN q = 1..n
  BY LenProperties
<1> HIDE DEF n
<1>2. k \in 1..n
  BY DEF n
<1>3. \A m \in 1..n : q[m] = q[k] => m = k
  BY <1>1, <1>2 DEF IsInjective
<1>4. ASSUME NEW j \in 1..n, NEW m \in 1..n, j < m, q[m] = q[k] PROVE j \in 1..(k - 1)
  BY <1>1, <1>2, <1>3, <1>4
<1>5. ASSUME NEW j \in 1..(k - 1) PROVE j \in 1..n /\ j < k
  BY <1>1, <1>2
<1>6. {j \in 1..n : \E m \in 1..n : j < m /\ q[m] = q[k]} = 1..(k - 1)
  BY <1>2, <1>4, <1>5
<1> QED BY <1>1, <1>6 DEF Before

\* push_back of an element that is not queued.
LEMMA QueueAppend ==
  ASSUME NEW S, NEW q \in Seq(S), IsInjective(q), NEW x \in S, x \notin Range(q)
  PROVE  /\ Append(q, x) \in Seq(S) /\ IsInjective(Append(q, x))
         /\ Len(Append(q, x)) = Len(q) + 1 /\ Append(q, x) # <<>>
         /\ Range(Append(q, x)) = Range(q) \cup {x}
         /\ \A y \in Range(q) : Before(Append(q, x), y) = Before(q, y)
         /\ Before(Append(q, x), x) = Range(q)
<1> DEFINE r == Append(q, x)
           n == Len(q)
<1>1. /\ r \in Seq(S) /\ Len(r) = n + 1 /\ n \in Nat /\ r # <<>>
      /\ \A i \in 1..n : r[i] = q[i] 
      /\ r[n + 1] = x
  BY AppendProperties, LenProperties
<1>2. DOMAIN r = 1..(n + 1) /\ DOMAIN q = 1..n
  BY <1>1, LenProperties
<1> HIDE DEF r, n
<1>3. \A i \in 1..n : r[i] # x /\ r[i] \in Range(q)
  BY <1>1, <1>2 DEF Range
<1>4. \A i \in 1..(n + 1) : i \in 1..n \/ i = n + 1
  BY <1>1
<1>5. IsInjective(r)
  <2>1. \A i, j \in 1..n : r[i] = r[j] => i = j
    BY <1>1, <1>2 DEF IsInjective
  <2> QED BY <1>1, <1>2, <1>3, <1>4, <2>1 DEF IsInjective
<1>6. Range(r) = Range(q) \cup {x}
  <2>1. Range(q) \subseteq Range(r)
    BY <1>1, <1>2 DEF Range
  <2>2. x \in Range(r)
    BY <1>1, <1>2 DEF Range
  <2>3. \A i \in 1..(n + 1) : r[i] \in Range(q) \cup {x}
    BY <1>1, <1>3, <1>4
  <2> QED BY <1>2, <2>1, <2>2, <2>3 DEF Range
<1>7. ASSUME NEW y \in Range(q) PROVE Before(r, y) = Before(q, y)
  <2>1. {j \in DOMAIN r : \E k \in DOMAIN r : j < k /\ r[k] = y}
          = {j \in DOMAIN q : \E k \in DOMAIN q : j < k /\ q[k] = y}
    <3>1. \A k \in 1..(n + 1) : r[k] = y => k \in 1..n
      BY <1>1, <1>4
    <3>2. \A j \in 1..(n + 1), k \in 1..n : j < k => j \in 1..n
      BY <1>1
    <3> QED BY <1>1, <1>2, <3>1, <3>2
  <2>2. {j \in DOMAIN q : \E k \in DOMAIN q : j < k /\ q[k] = y} \subseteq 1..n
    BY <1>2
  <2> QED BY <1>1, <2>1, <2>2 DEF Before
<1>8. Before(r, x) = Range(q)
  <2>1. \A k \in 1..(n + 1) : r[k] = x <=> k = n + 1
    BY <1>1, <1>3, <1>4
  <2>2. {j \in DOMAIN r : \E k \in DOMAIN r : j < k /\ r[k] = x} = 1..n
    BY <1>1, <1>2, <2>1
  <2> QED BY <1>1, <1>2, <2>2 DEF Before, Range
<1> QED BY <1>1, <1>5, <1>6, <1>7, <1>8 DEF r, n

\* pop_front.
LEMMA QueueTail ==
  ASSUME NEW S, NEW q \in Seq(S), IsInjective(q), q # <<>>
  PROVE  /\ Head(q) \in S /\ Head(q) \in Range(q)
         /\ Tail(q) \in Seq(S) /\ IsInjective(Tail(q))
         /\ Len(Tail(q)) = Len(q) - 1 /\ Len(q) \in Nat \ {0}
         /\ Range(Tail(q)) = Range(q) \ {Head(q)}
         /\ \A y \in Range(Tail(q)) : /\ Before(Tail(q), y) = Before(q, y) \ {Head(q)}
                                      /\ Head(q) \in Before(q, y)
         /\ Before(q, Head(q)) = {}
<1> DEFINE r == Tail(q)
           n == Len(q)
<1>1. /\ r \in Seq(S) /\ Len(r) = n - 1 /\ n \in Nat \ {0}
      /\ \A i \in 1..(n - 1) : r[i] = q[i + 1]
      /\ Head(q) = q[1] /\ q[1] \in S
  BY HeadTailProperties, EmptySeq, ElementOfSeq
<1>2. DOMAIN r = 1..(n - 1) /\ DOMAIN q = 1..n
  BY <1>1, LenProperties
<1> HIDE DEF r, n
<1>3. \A i, j \in 1..n : q[i] = q[j] => i = j
  BY <1>2 DEF IsInjective
<1>4. \A i \in 1..(n - 1) : i + 1 \in 1..n /\ i + 1 # 1
  BY <1>1
<1>5. \A i \in 1..n : i # 1 => i - 1 \in 1..(n - 1) /\ (i - 1) + 1 = i
  BY <1>1
<1>a. 1 \in 1..n
  BY <1>1
<1>6. IsInjective(r)
  <2>1. ASSUME NEW i \in 1..(n - 1), NEW j \in 1..(n - 1), r[i] = r[j] PROVE i = j
    <3>1. i + 1 = j + 1
      BY <1>1, <1>3, <1>4, <2>1
    <3> QED BY <3>1
  <2> QED BY <1>2, <2>1 DEF IsInjective
<1>7. Range(r) = Range(q) \ {Head(q)}
  <2>1. ASSUME NEW i \in 1..(n - 1) PROVE r[i] \in Range(q) \ {Head(q)}
    BY <1>1, <1>2, <1>3, <1>4, <1>a DEF Range
  <2>2. ASSUME NEW i \in 1..n, q[i] # Head(q) PROVE q[i] \in Range(r)
    <3>1. i - 1 \in 1..(n - 1) /\ r[i - 1] = q[i]
      BY <1>1, <1>5, <2>2
    <3> QED BY <1>2, <3>1 DEF Range
  <2> QED BY <1>2, <2>1, <2>2 DEF Range
<1>8. ASSUME NEW y \in Range(r)
      PROVE  Before(r, y) = Before(q, y) \ {Head(q)} /\ Head(q) \in Before(q, y)
  <2>1. PICK k \in 1..(n - 1) : r[k] = y
    BY <1>2 DEF Range
  <2>2. k + 1 \in 1..n /\ q[k + 1] = y
    BY <1>1, <1>4, <2>1
  <2>5. Before(r, y) = {r[i] : i \in 1..(k - 1)}
    <3>1. k \in 1..Len(r)
      BY <1>1
    <3> QED BY <1>1, <1>6, <2>1, <3>1, BeforePlace
  <2>6. Before(q, y) = {q[i] : i \in 1..k}
    <3>1. k + 1 \in 1..Len(q) /\ (k + 1) - 1 = k
      BY <1>1, <2>2 DEF n
    <3> QED BY <2>2, <3>1, BeforePlace
  <2>7. ASSUME NEW i \in 1..(k - 1) PROVE r[i] = q[i + 1] /\ i + 1 \in 1..k /\ r[i] # q[1]
    <3>1. i \in 1..(n - 1) /\ i + 1 \in 1..k /\ i + 1 \in 1..n
      BY <1>1, <2>1
    <3> QED BY <1>1, <1>3, <1>4, <1>a, <3>1
  <2>8. ASSUME NEW i \in 1..k, q[i] # q[1] PROVE i - 1 \in 1..(k - 1) /\ q[i] = r[i - 1]
    <3>1. i # 1 /\ i - 1 \in 1..(k - 1) /\ i - 1 \in 1..(n - 1) /\ (i - 1) + 1 = i
      BY <1>1, <2>1, <2>8
    <3> QED BY <1>1, <3>1
  <2>9. 1 \in 1..k
    BY <1>1, <2>1
  <2>a. {r[i] : i \in 1..(k - 1)} \subseteq {q[i] : i \in 1..k} \ {q[1]}
    BY <2>7
  <2>b. {q[i] : i \in 1..k} \ {q[1]} \subseteq {r[i] : i \in 1..(k - 1)}
    BY <2>8
  <2>c. q[1] \in {q[i] : i \in 1..k}
    BY <2>9
  <2> QED BY <1>1, <2>5, <2>6, <2>a, <2>b, <2>c
<1>9. Before(q, Head(q)) = {}
  <2>1. \A k \in 1..n : q[k] = q[1] => k = 1
    BY <1>3, <1>a
  <2>2. \A j \in 1..n : ~(j < 1)
    BY <1>1
  <2> QED BY <1>1, <1>2, <2>1, <2>2 DEF Before
<1>b. Head(q) \in Range(q)
  BY <1>1, <1>2, <1>a DEF Range
<1> QED BY <1>1, <1>6, <1>7, <1>8, <1>9, <1>b DEF r, n

\* pop_back.
LEMMA QueueFront ==
  ASSUME NEW S, NEW q \in Seq(S), IsInjective(q), q # <<>>
  PROVE  /\ Last(q) \in S /\ Last(q) \in Range(q)
         /\ Front(q) \in Seq(S) /\ IsInjective(Front(q))
         /\ Len(Front(q)) = Len(q) - 1 /\ Len(q) \in Nat \ {0}
         /\ Range(Front(q)) = Range(q) \ {Last(q)}
<1> DEFINE r == Front(q)
           n == Len(q)
<1>0. n \in Nat \ {0} /\ DOMAIN q = 1..n /\ n - 1 \in 0..n
  BY EmptySeq, LenProperties
<1>1. /\ r \in Seq(S) /\ Len(r) = n - 1 /\ \A i \in 1..(n - 1) : r[i] = q[i] 
      /\ IsInjective(r)
  BY <1>0, PrefixOfSeq DEF Front
<1>2. DOMAIN r = 1..(n - 1) /\ n \in 1..n /\ q[n] \in S /\ Last(q) = q[n]
  BY <1>0, <1>1, LenProperties, ElementOfSeq DEF Last
<1> HIDE DEF r, n
<1>3. \A i \in 1..n : i = n \/ i \in 1..(n - 1)
  BY <1>0
<1>4. \A i \in 1..(n - 1) : i \in 1..n /\ i # n
  BY <1>0
<1>5. Range(r) = Range(q) \ {q[n]}
  <2>1. ASSUME NEW i \in 1..(n - 1) PROVE r[i] \in Range(q) \ {q[n]}
    BY <1>0, <1>1, <1>2, <1>4 DEF Range, IsInjective
  <2>2. ASSUME NEW i \in 1..n, q[i] # q[n] PROVE q[i] \in Range(r)
    <3>1. i \in 1..(n - 1) /\ r[i] = q[i]
      BY <1>1, <1>3, <2>2
    <3> QED BY <1>2, <3>1 DEF Range
  <2> QED BY <1>0, <1>2, <2>1, <2>2 DEF Range
<1>6. q[n] \in Range(q)
  BY <1>0, <1>2 DEF Range
<1> QED BY <1>0, <1>1, <1>2, <1>5, <1>6 DEF r, n

\* A queue put in front of another.
LEMMA QueueJoin ==
  ASSUME NEW S, NEW q \in Seq(S), NEW r \in Seq(S), IsInjective(q), IsInjective(r),
         Range(q) \cap Range(r) = {}
  PROVE  /\ q \o r \in Seq(S) /\ IsInjective(q \o r)
         /\ Len(q \o r) = Len(q) + Len(r)
         /\ Range(q \o r) = Range(q) \cup Range(r)
         /\ \A y \in Range(q) : Before(q \o r, y) = Before(q, y)
<1>1. /\ Len(q) \in Nat /\ Len(r) \in Nat
      /\ DOMAIN q = 1..Len(q) /\ DOMAIN r = 1..Len(r)
      /\ DOMAIN (q \o r) = 1..Len(q) + Len(r)
      /\ \A i \in 1..Len(q) + Len(r) :
           (q \o r)[i] = IF i <= Len(q) THEN q[i] ELSE r[i - Len(q)]
  BY LenProperties, ConcatProperties
<1>2. ASSUME NEW y \in Range(q) PROVE Before(q \o r, y) = Before(q, y)
  <2> DEFINE j == q \o r
             m == Len(q)
             n == Len(r)
  <2>1. \A i \in 1..m : i \in 1..(m + n) /\ j[i] = q[i]
    BY <1>1
  <2>2. ASSUME NEW i \in 1..(m + n), j[i] = y PROVE i \in 1..m
    <3>1. CASE i <= m
      BY <1>1, <3>1
    <3>2. CASE ~(i <= m)
      <4>1. i - m \in 1..n /\ j[i] = r[i - m]
        BY <1>1, <3>2
      <4>2. y \in Range(r)
        BY <1>1, <2>2, <4>1 DEF Range
      <4> QED BY <4>2
    <3> QED BY <3>1, <3>2
  <2>3. \A i \in 1..(m + n), k \in 1..m : i < k => i \in 1..m
    BY <1>1
  <2> HIDE DEF j, m, n
  <2>4. {i \in 1..(m + n) : \E k \in 1..(m + n) : i < k /\ j[k] = y}
          = {i \in 1..m : \E k \in 1..m : i < k /\ q[k] = y}
    BY <2>1, <2>2, <2>3
  <2>5. {i \in DOMAIN j : \E k \in DOMAIN j : i < k /\ j[k] = y}
          = {i \in DOMAIN q : \E k \in DOMAIN q : i < k /\ q[k] = y}
    BY <1>1, <2>4 DEF j, m, n
  <2>6. {i \in DOMAIN q : \E k \in DOMAIN q : i < k /\ q[k] = y} \subseteq 1..m
    BY <1>1 DEF m
  <2> QED BY <2>1, <2>5, <2>6 DEF Before, j
<1> QED BY <1>2, JoinSeq, JoinRange

\* An element taken out of a queue.
LEMMA QueueRemove ==
  ASSUME NEW S, NEW q \in Seq(S), IsInjective(q), NEW x \in Range(q)
  PROVE  /\ RemoveFirst(q, x) \in Seq(S) /\ IsInjective(RemoveFirst(q, x))
         /\ Range(RemoveFirst(q, x)) = Range(q) \ {x}
<1> DEFINE n == Len(q)
<1>1. n \in Nat /\ DOMAIN q = 1..n
  BY LenProperties
<1>2. PICK k \in 1..n : q[k] = x
  BY <1>1 DEF Range
<1>3. {i \in 1..n : q[i] = x} = {k}
  BY <1>1, <1>2 DEF IsInjective
<1>4. SelectInSeq(q, LAMBDA v : v = x) = k
  <2>1. SelectInSeq(q, LAMBDA v : v = x) = Min({k})
    BY <1>3 DEF SelectInSeq
  <2> QED BY <1>2, <2>1 DEF Min
<1> DEFINE a == SubSeq(q, 1, k - 1)
           b == SubSeq(q, k + 1, n)
<1>5. RemoveFirst(q, x) = a \o b
  BY <1>2, <1>4 DEF RemoveFirst, RemoveAt
<1>6. k - 1 \in 0..n /\ k \in 0..n /\ (k + 1) + 0 = k + 1
  BY <1>1, <1>2
<1>7. /\ a \in Seq(S) /\ Len(a) = k - 1 /\ IsInjective(a)
      /\ \A i \in 1..(k - 1) : a[i] = q[i]
  BY <1>6, PrefixOfSeq
<1>8. DOMAIN b = 1..(n - k) /\ \A i \in 1..(n - k) : b[i] = q[k + i]
  BY <1>1, <1>6, RestOfSeq
<1>9. b \in Seq(S)
  <2>1. \A i \in (k + 1)..n : q[i] \in S
    BY <1>1, <1>6, ElementOfSeq
  <2> QED BY <1>1, <1>6, <2>1, SubSeqProperties
<1> HIDE DEF a, b, n
<1>10. DOMAIN a = 1..(k - 1)
  BY <1>7, LenProperties
<1>11. \A i \in 1..(k - 1) : i \in 1..n /\ i # k
  BY <1>1, <1>2
<1>12. \A i \in 1..(n - k) : k + i \in 1..n /\ k + i # k
  BY <1>1, <1>2
<1>13. IsInjective(b)
  <2>1. ASSUME NEW i \in 1..(n - k), NEW j \in 1..(n - k), b[i] = b[j] PROVE i = j
    <3>1. k + i = k + j
      BY <1>1, <1>8, <1>12, <2>1 DEF IsInjective
    <3> QED BY <1>1, <1>2, <3>1
  <2> QED BY <1>8, <2>1 DEF IsInjective
<1>14. Range(a) \cap Range(b) = {}
  <2> SUFFICES ASSUME NEW i \in 1..(k - 1), NEW j \in 1..(n - k), a[i] = b[j] PROVE FALSE
    BY <1>8, <1>10 DEF Range
  <2>1. i = k + j
    BY <1>1, <1>7, <1>8, <1>11, <1>12 DEF IsInjective
  <2> QED BY <1>1, <1>2, <2>1
<1>15. Range(a) \cup Range(b) = Range(q) \ {x}
  <2>1. ASSUME NEW y \in Range(a) \cup Range(b) PROVE y \in Range(q) \ {x}
    <3>0. \A j \in 1..n : j # k => q[j] \in Range(q) /\ q[j] # x
      BY <1>1, <1>2 DEF Range, IsInjective
    <3>1. CASE y \in Range(a)
      <4>1. PICK j \in 1..(k - 1) : y = a[j]
        BY <1>10, <3>1 DEF Range
      <4> QED BY <1>7, <1>11, <3>0, <4>1
    <3>2. CASE y \in Range(b)
      <4>1. PICK j \in 1..(n - k) : y = b[j]
        BY <1>8, <3>2 DEF Range
      <4>2. y = q[k + j] /\ k + j \in 1..n /\ k + j # k
        BY <1>8, <1>12, <4>1
      <4> QED BY <3>0, <4>2
    <3> QED BY <2>1, <3>1, <3>2
  <2>2. ASSUME NEW i \in 1..n, q[i] # x PROVE q[i] \in Range(a) \cup Range(b)
    <3>1. CASE i < k
      <4>1. i \in 1..(k - 1)
        BY <1>1, <1>2, <3>1
      <4> QED BY <1>7, <1>10, <4>1 DEF Range
    <3>2. CASE ~(i < k)
      <4>1. i - k \in 1..(n - k) /\ k + (i - k) = i
        BY <1>1, <1>2, <2>2, <3>2
      <4>2. b[i - k] = q[i]
        BY <1>8, <4>1
      <4> QED BY <1>8, <4>1, <4>2 DEF Range
    <3> QED BY <3>1, <3>2
  <2> QED BY <1>1, <2>1, <2>2 DEF Range
<1> QED BY <1>5, <1>7, <1>9, <1>13, <1>14, <1>15, QueueJoin

-----------------------------------------------------------------------------
(* Small sets and sequences.                                               *)

\* The smaller of two integers.
LEMMA MinOfTwo ==
  ASSUME NEW a \in Int, NEW b \in Int
  PROVE  Min({a, b}) \in {a, b} /\ Min({a, b}) <= a /\ Min({a, b}) <= b
<1>1. \E m \in {a, b} : \A y \in {a, b} : m <= y
  OBVIOUS
<1> DEFINE S == {a, b}
<1>2. \E m \in S : \A y \in S : m <= y
  BY <1>1
<1> HIDE DEF S
<1>3. Min(S) \in S /\ \A y \in S : Min(S) <= y
  BY <1>2, Zenon DEF Min
<1> QED BY <1>3 DEF S

\* The largest of finitely many numbers.
LEMMA MaxOfNats ==
  ASSUME NEW S \in SUBSET Nat, IsFiniteSet(S), S # {}
  PROVE  Max(S) \in S /\ \A n \in S : n <= Max(S)
<1> DEFINE T == {U \in SUBSET S : U # {} => \E m \in U : \A n \in U : m >= n}
<1>1. {} \in T
  OBVIOUS
<1>2. ASSUME NEW U \in SUBSET S, NEW x \in S, U \in T, x \notin U PROVE U \cup {x} \in T
  <2>1. CASE U = {}
    <3>1. x >= x
      OBVIOUS
    <3> QED BY <2>1, <3>1
  <2>2. CASE U # {}
    <3>1. PICK m \in U : \A n \in U : m >= n
      BY <1>2, <2>2
    <3>2. CASE m >= x
      BY <3>1, <3>2
    <3>3. CASE ~(m >= x)
      <4>1. \A n \in U \cup {x} : x >= n
        BY <3>1, <3>3
      <4> QED BY <4>1
    <3> QED BY <3>2, <3>3
  <2> QED BY <2>1, <2>2
<1>3. S \in T
  <2> HIDE DEF T
  <2> QED BY <1>1, <1>2, SetInduction
<1>4. \E m \in S : \A n \in S : m >= n
  BY <1>3
<1>5. Max(S) \in S /\ \A n \in S : Max(S) >= n
  BY <1>4, Zenon DEF Max
<1> QED BY <1>5

\* A strict prefix is shorter.
LEMMA StrictlyShorter ==
  ASSUME NEW S, NEW T, NEW s \in Seq(S), NEW t \in Seq(T), IsStrictPrefix(s, t)
  PROVE  Len(s) \in Nat /\ Len(t) \in Nat /\ Len(s) < Len(t)
<1>1. Len(s) \in Nat /\ Len(t) \in Nat /\ Len(s) <= Len(t) /\ s # t
      /\ SubSeq(s, 1, Len(s)) = SubSeq(t, 1, Len(s))
  BY LenProperties DEF IsStrictPrefix, IsPrefix
<1>2. SubSeq(s, 1, Len(s)) = s /\ SubSeq(t, 1, Len(t)) = t
  BY SubSeqFull
<1>3. Len(s) # Len(t)
  BY <1>1, <1>2
<1> QED BY <1>1, <1>3

\* One more element of a sequence.
LEMMA AppendRange ==
  ASSUME NEW S, NEW s \in Seq(S), NEW x \in S
  PROVE  Range(Append(s, x)) = Range(s) \cup {x}
<1> DEFINE r == Append(s, x)
           n == Len(s)
<1>1. n \in Nat /\ DOMAIN s = 1..n /\ DOMAIN r = 1..(n + 1)
  BY LenProperties, AppendProperties
<1>2. r[n + 1] = x /\ \A i \in 1..n : r[i] = s[i]
  BY AppendProperties
<1> HIDE DEF r, n
<1>3. \A i \in 1..(n + 1) : i \in 1..n \/ i = n + 1
  BY <1>1
<1>4. n + 1 \in 1..(n + 1) /\ \A i \in 1..n : i \in 1..(n + 1)
  BY <1>1
<1>5. Range(r) = Range(s) \cup {x}
  BY <1>1, <1>2, <1>3, <1>4 DEF Range
<1> QED BY <1>5 DEF r

\* The restores of a request, none or one, as a sequence.
LEMMA OneOrNone ==
  ASSUME NEW S, NEW D \in SUBSET S, \A x, y \in D : x = y
  PROVE  SetToSeq(D) \in Seq(S) /\ IsInjective(SetToSeq(D)) /\ Range(SetToSeq(D)) = D
<1>1. CASE D = {}
  <2>1. Cardinality(D) = 0
    BY <1>1, FS_EmptySet
  <2>2. SetToSeq(D) = CHOOSE f \in [{} -> {}] : IsInjective(f)
    BY <1>1, <2>1 DEF SetToSeq
  <2>3. <<>> \in [{} -> {}] /\ IsInjective(<<>>)
    BY DEF IsInjective
  <2>4. SetToSeq(D) \in [{} -> {}]
    BY <2>2, <2>3
  <2>5. SetToSeq(D) = <<>>
    BY <2>4
  <2>6. <<>> \in Seq(S) /\ IsInjective(<<>>) /\ Range(<<>>) = {}
    BY EmptySeq DEF IsInjective, Range
  <2> QED BY <1>1, <2>5, <2>6
<1>2. CASE D # {}
  <2>1. PICK x \in S : D = {x}
    BY <1>2
  <2>2. Cardinality(D) = 1
    BY <2>1, FS_Singleton
  <2>3. [i \in 1..1 |-> x] \in [1..Cardinality(D) -> D] /\ IsInjective([i \in 1..1 |-> x])
    BY <2>1, <2>2 DEF IsInjective
  <2>4. SetToSeq(D) \in [1..1 -> D]
    <3>1. SetToSeq(D) \in [1..Cardinality(D) -> D]
      BY <2>3, Zenon DEF SetToSeq
    <3> QED BY <2>2, <3>1
  <2>5. SetToSeq(D) \in Seq(S)
    <3>1. SetToSeq(D) \in [1..1 -> S]
      BY <2>1, <2>4
    <3>2. 1 \in Nat
      OBVIOUS
    <3> QED BY <3>1, <3>2, SeqDef
  <2>6. DOMAIN SetToSeq(D) = 1..1 /\ \A i \in 1..1 : SetToSeq(D)[i] = x
    BY <2>1, <2>4
  <2>7. IsInjective(SetToSeq(D)) /\ Range(SetToSeq(D)) = D
    BY <2>1, <2>6 DEF IsInjective, Range
  <2> QED BY <2>5, <2>7
<1> QED BY <1>1, <1>2

\* The head of a queue goes to its end.
LEMMA RotateQueue ==
  ASSUME NEW S, NEW q \in Seq(S), IsInjective(q), q # <<>>
  PROVE  /\ Append(Tail(q), Head(q)) \in Seq(S) /\ IsInjective(Append(Tail(q), Head(q)))
         /\ Len(Append(Tail(q), Head(q))) = Len(q)
         /\ Range(Append(Tail(q), Head(q))) = Range(q)
<1>1. /\ Head(q) \in S /\ Head(q) \in Range(q) /\ Tail(q) \in Seq(S) /\ IsInjective(Tail(q))
      /\ Len(Tail(q)) = Len(q) - 1 /\ Len(q) \in Nat \ {0}
      /\ Range(Tail(q)) = Range(q) \ {Head(q)}
  BY QueueTail
<1> DEFINE r == Tail(q)
           x == Head(q)
<1>2. /\ r \in Seq(S) /\ IsInjective(r) /\ x \in S /\ x \notin Range(r)
      /\ Len(r) = Len(q) - 1 /\ Len(q) \in Nat \ {0}
      /\ Range(q) = Range(r) \cup {x}
  BY <1>1
<1> HIDE DEF r, x
<1>3. /\ Append(r, x) \in Seq(S) /\ IsInjective(Append(r, x))
      /\ Len(Append(r, x)) = Len(r) + 1
      /\ Range(Append(r, x)) = Range(r) \cup {x}
  BY <1>2, QueueAppend
<1>4. Len(Append(r, x)) = Len(q)
  BY <1>2, <1>3
<1> QED BY <1>2, <1>3, <1>4 DEF r, x

-----------------------------------------------------------------------------
(* Sequences of anything: where theorems do not say what tokens are.       *)

\* A sequence of anything.
AnySeq(s) == \E S : s \in Seq(S)

\* One sequence after another.
LEMMA JoinedSeqs ==
  ASSUME NEW s, AnySeq(s), NEW t, AnySeq(t)
  PROVE  /\ AnySeq(s \o t) /\ Len(s) \in Nat /\ Len(t) \in Nat /\ Len(s \o t) = Len(s) + Len(t)
         /\ \A i \in 1..Len(s) : (s \o t)[i] = s[i]
         /\ \A i \in 1..Len(t) : (s \o t)[Len(s) + i] = t[i]
<1>1. PICK A : s \in Seq(A)
  BY DEF AnySeq
<1>2. PICK B : t \in Seq(B)
  BY DEF AnySeq
<1>3. PICK C : C = A \cup B
  OBVIOUS
<1>4. s \in Seq(C) /\ t \in Seq(C)
  <2>1. A \subseteq C /\ B \subseteq C
    BY <1>3
  <2> QED BY <1>1, <1>2, <2>1, SeqDef
<1>5. s \o t \in Seq(C) /\ Len(s) \in Nat /\ Len(t) \in Nat
  BY <1>4
<1>6. Len(s \o t) = Len(s) + Len(t)
  BY <1>4
<1>7. \A i \in 1..Len(s) : (s \o t)[i] = s[i]
  BY <1>4
<1>8. \A i \in 1..Len(t) : (s \o t)[Len(s) + i] = t[i]
  BY <1>4
<1> QED BY <1>5, <1>6, <1>7, <1>8 DEF AnySeq

\* The beginning of a sequence.
LEMMA Begun ==
  ASSUME NEW s, AnySeq(s), NEW n \in 0..Len(s)
  PROVE  /\ AnySeq(SubSeq(s, 1, n)) /\ Len(SubSeq(s, 1, n)) = n
         /\ \A i \in 1..n : SubSeq(s, 1, n)[i] = s[i]
         /\ SubSeq(s, 1, 0) = <<>> /\ SubSeq(s, 1, Len(s)) = s
<1>1. PICK A : s \in Seq(A)
  BY DEF AnySeq
<1>2. Len(s) \in Nat /\ n \in Nat /\ n <= Len(s)
  BY <1>1
<1>3. SubSeq(s, 1, n) \in Seq(A)
  BY <1>1, <1>2
<1>4. Len(SubSeq(s, 1, n)) = n
  BY <1>1, <1>2
<1>5. \A i \in 1..n : SubSeq(s, 1, n)[i] = s[i]
  BY <1>1, <1>2
<1>6. SubSeq(s, 1, 0) = <<>> /\ SubSeq(s, 1, Len(s)) = s
  BY <1>1, <1>2
<1> QED BY <1>3, <1>4, <1>5, <1>6 DEF AnySeq

\* Sequences are the same when their elements are.
LEMMA SameSeq ==
  ASSUME NEW s, AnySeq(s), NEW t, AnySeq(t), Len(s) = Len(t), \A i \in 1..Len(s) : s[i] = t[i]
  PROVE  s = t
<1>1. PICK A : s \in Seq(A)
  BY DEF AnySeq
<1>2. PICK B : t \in Seq(B)
  BY DEF AnySeq
<1> QED BY <1>1, <1>2

\* Joining is associative, and nothing added is nothing changed.
LEMMA JoinedThrice ==
  ASSUME NEW s, AnySeq(s), NEW t, AnySeq(t), NEW u, AnySeq(u)
  PROVE  (s \o t) \o u = s \o (t \o u) /\ s \o <<>> = s
<1>1. PICK A : s \in Seq(A)
  BY DEF AnySeq
<1>2. PICK B : t \in Seq(B)
  BY DEF AnySeq
<1>3. PICK D : u \in Seq(D)
  BY DEF AnySeq
<1>4. PICK C : C = A \cup B \cup D
  OBVIOUS
<1>5. s \in Seq(C) /\ t \in Seq(C) /\ u \in Seq(C)
  <2>1. A \subseteq C /\ B \subseteq C /\ D \subseteq C
    BY <1>4
  <2> QED BY <1>1, <1>2, <1>3, <2>1, SeqDef
<1> QED BY <1>5, ConcatAssociative, ConcatEmptySeq

\* A sequence of no element, and of one.
LEMMA ShortSeqs ==
  /\ AnySeq(<<>>) /\ Len(<<>>) = 0
  /\ \A x : AnySeq(<<x>>) /\ Len(<<x>>) = 1 /\ <<x>>[1] = x /\ Last(<<x>>) = x
<1>1. <<>> \in Seq({})
  OBVIOUS
<1>2. \A x : <<x>> \in Seq({x})
  OBVIOUS
<1> QED BY <1>1, <1>2 DEF AnySeq, Last

\* What was added to a sequence can be cut out of it again.
LEMMA AddedIsCut ==
  ASSUME NEW s, AnySeq(s), NEW t, AnySeq(t)
  PROVE  SubSeq(s \o t, Len(s) + 1, Len(s) + Len(t)) = t
<1>1. PICK r, m, n : r = s \o t /\ m = Len(s) /\ n = Len(t)
  OBVIOUS
<1>2. AnySeq(r) /\ m \in Nat /\ n \in Nat /\ Len(r) = m + n /\ \A i \in 1..n : r[m + i] = t[i]
  BY <1>1, JoinedSeqs
<1>3. PICK A : r \in Seq(A)
  BY <1>2 DEF AnySeq
<1>4. PICK u : u = SubSeq(r, m + 1, m + n)
  OBVIOUS
<1>5. u \in Seq(A) /\ Len(u) = n /\ \A i \in 1..n : u[i] = r[m + i]
  <2>1. CASE n = 0
    <3>1. u = <<>>
      BY <1>2, <1>3, <1>4, <2>1
    <3> QED BY <2>1, <3>1
  <2>2. CASE n > 0
    BY <1>2, <1>3, <1>4, <2>2
  <2> QED BY <1>2, <2>1, <2>2
<1>6. AnySeq(u)
  BY <1>5 DEF AnySeq
<1>7. u = t
  BY <1>1, <1>2, <1>5, <1>6, SameSeq
<1> QED BY <1>1, <1>4, <1>7

\* The beginning of a beginning.
LEMMA BegunTwice ==
  ASSUME NEW s, AnySeq(s), NEW n \in 0..Len(s), NEW m \in 0..n
  PROVE  SubSeq(SubSeq(s, 1, n), 1, m) = SubSeq(s, 1, m)
<1>1. Len(s) \in Nat
  BY JoinedSeqs
<1>2. n \in Nat /\ m \in 0..Len(s)
  BY <1>1
<1>3. PICK u : u = SubSeq(s, 1, n)
  OBVIOUS
<1>4. AnySeq(u) /\ Len(u) = n /\ \A i \in 1..n : u[i] = s[i]
  BY <1>3, Begun
<1>5. PICK v, w : v = SubSeq(u, 1, m) /\ w = SubSeq(s, 1, m)
  OBVIOUS
<1>6. AnySeq(v) /\ Len(v) = m /\ \A i \in 1..m : v[i] = u[i]
  <2>1. m \in 0..Len(u)
    BY <1>4
  <2> QED BY <1>4, <1>5, <2>1, Begun
<1>7. AnySeq(w) /\ Len(w) = m /\ \A i \in 1..m : w[i] = s[i]
  BY <1>2, <1>5, Begun
<1>8. \A i \in 1..m : v[i] = w[i]
  BY <1>2, <1>4, <1>6, <1>7
<1>9. v = w
  BY <1>6, <1>7, <1>8, SameSeq
<1> QED BY <1>3, <1>5, <1>9

\* The beginning of a sequence that was joined, at or after the joint.
LEMMA BegunJoined ==
  ASSUME NEW s, AnySeq(s), NEW t, AnySeq(t), NEW n \in 0..Len(t)
  PROVE  SubSeq(s \o t, 1, Len(s) + n) = s \o SubSeq(t, 1, n)
<1>1. PICK A : s \in Seq(A)
  BY DEF AnySeq
<1>2. PICK B : t \in Seq(B)
  BY DEF AnySeq
<1>3. PICK C : C = A \cup B
  OBVIOUS
<1>4. s \in Seq(C) /\ t \in Seq(C)
  <2>1. A \subseteq C /\ B \subseteq C
    BY <1>3
  <2> QED BY <1>1, <1>2, <2>1, SeqDef
<1>5. Len(s) \in Nat /\ Len(t) \in Nat /\ n \in Nat /\ n <= Len(t)
  BY <1>4
<1>6. PICK u : u = SubSeq(t, 1, n)
  OBVIOUS
<1>7. u \in Seq(C) /\ Len(u) = n /\ \A i \in 1..n : u[i] = t[i]
  BY <1>4, <1>5, <1>6
<1>8. PICK r : r = s \o t
  OBVIOUS
<1>9. r \in Seq(C) /\ Len(r) = Len(s) + Len(t)
  BY <1>4, <1>8
<1>10. PICK a : a = SubSeq(r, 1, Len(s) + n)
  OBVIOUS
<1>11. a \in Seq(C) /\ Len(a) = Len(s) + n /\ \A i \in 1..(Len(s) + n) : a[i] = r[i]
  <2>1. PICK m : m = Len(s) + n
    OBVIOUS
  <2>2. m \in Nat /\ m <= Len(r)
    BY <1>5, <1>9, <2>1
  <2>3. a = SubSeq(r, 1, m)
    BY <1>10, <2>1
  <2>4. a \in Seq(C)
    BY <1>9, <2>2, <2>3
  <2>5. Len(a) = m
    BY <1>9, <2>2, <2>3
  <2>6. \A i \in 1..m : a[i] = r[i]
    BY <1>9, <2>2, <2>3
  <2> QED BY <2>1, <2>4, <2>5, <2>6
<1>12. PICK b : b = s \o u
  OBVIOUS
<1>13. b \in Seq(C) /\ Len(b) = Len(s) + n
  <2>1. u \in Seq(C)
    BY <1>7
  <2>2. b \in Seq(C)
    BY <1>4, <1>12, <2>1
  <2>3. Len(b) = Len(s) + Len(u)
    BY <1>4, <1>12, <2>1
  <2> QED BY <1>7, <2>2, <2>3
<1>14. ASSUME NEW i \in 1..(Len(s) + n) PROVE r[i] = b[i]
  <2>1. CASE i <= Len(s)
    <3>1. i \in 1..Len(s)
      BY <1>5, <2>1
    <3>2. r[i] = s[i]
      BY <1>4, <1>8, <3>1
    <3>3. b[i] = s[i]
      BY <1>4, <1>7, <1>12, <3>1
    <3> QED BY <3>2, <3>3
  <2>2. CASE i > Len(s)
    <3>1. i - Len(s) \in 1..n /\ i - Len(s) \in 1..Len(t)
      BY <1>5, <2>2
    <3>2. r[i] = t[i - Len(s)]
      BY <1>4, <1>5, <1>8, <2>2, <3>1
    <3>3. b[i] = u[i - Len(s)]
      BY <1>4, <1>5, <1>7, <1>12, <2>2, <3>1
    <3>4. u[i - Len(s)] = t[i - Len(s)]
      BY <1>7, <3>1
    <3> QED BY <3>2, <3>3, <3>4
  <2> QED BY <1>5, <2>1, <2>2
<1>15. a = b
  BY <1>11, <1>13, <1>14, <1>5
<1> QED BY <1>6, <1>8, <1>10, <1>12, <1>15

\* A sequence after one element.
LEMMA JoinedOne ==
  ASSUME NEW w, NEW x, w = <<x>>, NEW u, AnySeq(u)
  PROVE  /\ AnySeq(w \o u) /\ Len(w \o u) = Len(u) + 1 /\ (w \o u)[1] = x
         /\ \A i \in 1..Len(u) : (w \o u)[i + 1] = u[i]
<1>1. PICK A : u \in Seq(A)
  BY DEF AnySeq
<1>2. PICK C : C = A \cup {x}
  OBVIOUS
<1>3. A \subseteq C /\ x \in C
  BY <1>2
<1>4. u \in Seq(C)
  BY <1>1, <1>3, SeqDef
<1>5. w \in Seq(C) /\ Len(w) = 1 /\ w[1] = x
  BY <1>3
<1>6. Len(u) \in Nat
  BY <1>4
<1>7. PICK f : f = w \o u
  OBVIOUS
<1>8. f \in Seq(C)
  BY <1>4, <1>5, <1>7
<1>9. Len(f) = Len(u) + 1
  <2>1. Len(f) = Len(w) + Len(u)
    BY <1>4, <1>5, <1>7
  <2> QED BY <1>5, <1>6, <2>1
<1>10. f[1] = x
  <2>1. 1 \in 1..Len(w)
    BY <1>5
  <2>2. f[1] = w[1]
    BY <1>4, <1>5, <1>7, <2>1
  <2> QED BY <1>5, <2>2
<1>11. ASSUME NEW i \in 1..Len(u) PROVE f[i + 1] = u[i]
  <2>1. PICK j : j = i + 1
    OBVIOUS
  <2>2. j \in 1..(Len(w) + Len(u)) /\ j > Len(w) /\ j - Len(w) = i
    BY <1>5, <1>6, <2>1
  <2>3. f[j] = u[j - Len(w)]
    BY <1>4, <1>5, <1>7, <2>2
  <2> QED BY <2>1, <2>2, <2>3
<1>12. AnySeq(f)
  BY <1>8 DEF AnySeq
<1> QED BY <1>7, <1>9, <1>10, <1>11, <1>12

\* The beginning of a sequence that was joined, before the joint.
LEMMA BegunBefore ==
  ASSUME NEW s, AnySeq(s), NEW t, AnySeq(t), NEW n \in 0..Len(s)
  PROVE  SubSeq(s \o t, 1, n) = SubSeq(s, 1, n)
<1>1. PICK r, m, k : r = s \o t /\ m = Len(s) /\ k = Len(t)
  OBVIOUS
<1>2. AnySeq(r) /\ m \in Nat /\ k \in Nat /\ Len(r) = m + k /\ \A i \in 1..m : r[i] = s[i]
  BY <1>1, JoinedSeqs
<1>3. n \in Nat /\ n <= m /\ n \in 0..Len(r) /\ n \in 0..Len(s)
  BY <1>1, <1>2
<1>4. PICK a, b : a = SubSeq(r, 1, n) /\ b = SubSeq(s, 1, n)
  OBVIOUS
<1>5. AnySeq(a) /\ Len(a) = n /\ \A i \in 1..n : a[i] = r[i]
  BY <1>2, <1>3, <1>4, Begun
<1>6. AnySeq(b) /\ Len(b) = n /\ \A i \in 1..n : b[i] = s[i]
  BY <1>3, <1>4, Begun
<1>7. \A i \in 1..n : a[i] = b[i]
  BY <1>2, <1>3, <1>5, <1>6
<1>8. a = b
  BY <1>5, <1>6, <1>7, SameSeq
<1> QED BY <1>1, <1>4, <1>8

\* A beginning that is one element longer.
LEMMA BegunOneMore ==
  ASSUME NEW s, AnySeq(s), NEW n \in Nat, n < Len(s)
  PROVE  SubSeq(s, 1, n + 1) = Append(SubSeq(s, 1, n), s[n + 1])
<1>1. PICK A : s \in Seq(A)
  BY DEF AnySeq
<1>2. Len(s) \in Nat
  BY <1>1
<1>3. PICK a, b : a = SubSeq(s, 1, n + 1) /\ b = SubSeq(s, 1, n)
  OBVIOUS
<1>4. s[n + 1] \in A
  BY <1>1, <1>2
<1>5. a \in Seq(A) /\ Len(a) = n + 1 /\ \A i \in 1..(n + 1) : a[i] = s[i]
  <2>1. n + 1 \in 0..Len(s) /\ n + 1 \in Nat
    BY <1>2
  <2> QED BY <1>1, <1>3, <2>1
<1>6. b \in Seq(A) /\ Len(b) = n /\ \A i \in 1..n : b[i] = s[i]
  <2>1. n \in 0..Len(s)
    BY <1>2
  <2> QED BY <1>1, <1>3, <2>1
<1>7. PICK c : c = Append(b, s[n + 1])
  OBVIOUS
<1>8. c \in Seq(A) /\ Len(c) = n + 1 /\ c[n + 1] = s[n + 1] /\ \A i \in 1..n : c[i] = b[i]
  BY <1>4, <1>6, <1>7
<1>9. \A i \in 1..(n + 1) : a[i] = c[i]
  <2> SUFFICES ASSUME NEW i \in 1..(n + 1) PROVE a[i] = c[i]
    OBVIOUS
  <2>1. i \in 1..n \/ i = n + 1
    OBVIOUS
  <2> QED BY <1>5, <1>6, <1>8, <2>1
<1>10. a = c
  BY <1>5, <1>8, <1>9
<1> QED BY <1>3, <1>7, <1>10

=============================================================================
