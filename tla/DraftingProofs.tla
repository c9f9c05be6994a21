--------------------------- MODULE DraftingProofs ---------------------------
(***************************************************************************)
(* Proofs about Drafting: speculative decoding implements greedy decoding, *)
(* so that no draft can change what a request receives; the head's KV is   *)
(* always of its owner's own text; and the shortlist on the device is the  *)
(* one the host looks the index up in, or on its way there.                *)
(***************************************************************************)
EXTENDS Drafting, DataLemmas

-----------------------------------------------------------------------------
(* What goes out to a request.                                             *)

\* What a request may be doing.
Phases == {"waiting", "prefill", "decode", "over"}

\* What has gone out to a request, and what waits: the model's next token, as long as it decodes.
RequestPart(id) ==
  /\ AnySeq(out[id]) /\ Len(out[id]) <= MaxNew
  /\ phase[id] = "decode" => pending[id] = <<Model(History(id))>> /\ Len(out[id]) < MaxNew
  /\ phase[id] # "decode" => pending[id] = <<>>
  /\ phase[id] \in {"waiting", "prefill"} => out[id] = <<>>

\* The inductive invariant.
GInv ==
  /\ phase \in [Ids -> Phases] /\ DOMAIN out = Ids /\ DOMAIN pending = Ids
  /\ \A id \in Ids : RequestPart(id)

\* The tokens t, which the model picks one after another, go out to a request.
Gains(id, t) ==
  /\ AnySeq(t) /\ out'[id] = out[id] \o t /\ Len(out[id]) + Len(t) <= MaxNew
  /\ \A i \in 1..Len(t) : /\ t[i] = Model((Prompt[id] \o out[id]) \o SubSeq(t, 1, i - 1))
                          /\ t[i] \in Eos => i = Len(t)
  /\ Len(t) > 0 => phase[id] # "over"
  /\ Len(out[id]) + Len(t) = MaxNew => phase'[id] = "over"
  /\ (\E i \in 1..Len(t) : t[i] \in Eos) => phase'[id] = "over"
  /\ phase[id] = "over" => phase'[id] = "over"

\* A step in which every request gains something, or nothing, is one of greedy decoding.
LEMMA GainsEmit ==
  ASSUME GInv, DOMAIN out' = Ids, \A id \in Ids : \E t : Gains(id, t)
  PROVE  Greedy!Emit
<1>1. PICK over : over = {id \in Ids : phase[id] = "over"}
  OBVIOUS
<1>2. PICK later : later = {id \in Ids : phase'[id] = "over"}
  OBVIOUS
<1>3. over \subseteq later /\ later \subseteq Ids
  BY <1>1, <1>2 DEF Gains
<1>4. ASSUME NEW id \in Ids
      PROVE  \E n \in 0..(MaxNew - Len(out[id])) :
               LET t == SubSeq(out'[id], Len(out[id]) + 1, Len(out[id]) + n)
               IN  /\ out'[id] = out[id] \o t
                   /\ Greedy!Continues(Prompt[id] \o out[id], t)
                   /\ Greedy!EndsOnce(t)
                   /\ n > 0 => id \notin over
                   /\ (Len(out'[id]) = MaxNew \/ \E i \in 1..n : t[i] \in Eos) => id \in later
  <2>1. PICK t : Gains(id, t)
    OBVIOUS
  <2>2. AnySeq(out[id]) /\ AnySeq(t)
    BY <2>1 DEF GInv, RequestPart, Gains
  <2>3. PICK m, n : m = Len(out[id]) /\ n = Len(t)
    OBVIOUS
  <2>4. /\ m \in Nat /\ n \in Nat /\ Len(out'[id]) = m + n
        /\ SubSeq(out'[id], Len(out[id]) + 1, Len(out[id]) + n) = t
        /\ out'[id] = out[id] \o t
    <3>1. out'[id] = out[id] \o t
      BY <2>1 DEF Gains
    <3>2. /\ Len(out[id]) \in Nat /\ Len(t) \in Nat
          /\ Len(out[id] \o t) = Len(out[id]) + Len(t)
      BY <2>2, JoinedSeqs
    <3>3. SubSeq(out[id] \o t, Len(out[id]) + 1, Len(out[id]) + Len(t)) = t
      BY <2>2, AddedIsCut
    <3> QED BY <2>3, <3>1, <3>2, <3>3
  <2>5. DOMAIN t = 1..n
    <3>1. PICK A : t \in Seq(A)
      BY <2>2 DEF AnySeq
    <3> QED BY <2>3, <3>1, LenProperties
  <2>6. n \in 0..(MaxNew - m)
    <3>1. m + n <= MaxNew /\ MaxNew \in Nat
      BY <2>1, <2>3, DraftingAssumption DEF Gains
    <3> QED BY <2>4, <3>1
  <2>7. Greedy!Continues(Prompt[id] \o out[id], t) /\ Greedy!EndsOnce(t)
    BY <2>1, <2>3, <2>5 DEF Greedy!Continues, Greedy!EndsOnce, Gains
  <2>8. /\ n > 0 => id \notin over
        /\ (Len(out'[id]) = MaxNew \/ \E i \in 1..n : t[i] \in Eos) => id \in later
    BY <1>1, <1>2, <2>1, <2>3, <2>4 DEF Gains
  <2> QED BY <2>3, <2>4, <2>6, <2>7, <2>8
<1> QED BY <1>1, <1>2, <1>3, <1>4 DEF Greedy!Emit

\* A request that takes no part in a step.
LEMMA GainsNothing ==
  ASSUME GInv, NEW id \in Ids, out'[id] = out[id], phase[id] # "decode",
         phase[id] = "over" => phase'[id] = "over"
  PROVE  Gains(id, <<>>)
<1>1. PICK o : o = out[id]
  OBVIOUS
<1>2. AnySeq(o) /\ Len(o) <= MaxNew /\ Len(o) \in Nat
  BY <1>1, JoinedSeqs DEF GInv, RequestPart
<1>3. o \o <<>> = o
  BY <1>2, JoinedThrice
<1>4. Len(o) = MaxNew => phase[id] = "over"
  <2>1. CASE phase[id] \in {"waiting", "prefill"}
    <3>1. Len(o) = 0 /\ MaxNew # 0
      BY <1>1, <2>1, ShortSeqs, DraftingAssumption DEF GInv, RequestPart
    <3> QED BY <3>1
  <2> QED BY <2>1 DEF GInv, Phases
<1> QED BY <1>1, <1>2, <1>3, <1>4, ShortSeqs DEF Gains

-----------------------------------------------------------------------------
(* Steps that are not speculative.                                         *)

\* Nothing has gone out at first.
LEMMA GreedyStarts == Init => GInv /\ Greedy!Init
<1> SUFFICES ASSUME Init PROVE GInv /\ Greedy!Init
  OBVIOUS
<1>1. GInv
  BY ShortSeqs, DraftingAssumption DEF Init, GInv, RequestPart, Phases
<1>2. {id \in Ids : phase[id] = "over"} = {} /\ out = [id \in Ids |-> <<>>]
  BY DEF Init
<1> QED BY <1>1, <1>2 DEF Greedy!Init

\* The pending token goes out, and the one the model picks next waits instead.
LEMMA OneMore ==
  ASSUME GInv, NEW id \in Ids, phase[id] = "decode", out'[id] = out[id] \o pending[id],
         phase'[id] \in {"decode", "over"}, phase'[id] = "over" => pending'[id] = <<>>,
         phase'[id] = "decode" => pending'[id] = <<Model(Known(id))>>,
         Last(pending[id]) \in Eos \/ Len(out[id]) + Len(pending[id]) = MaxNew =>
              phase'[id] = "over"
  PROVE  Gains(id, pending[id]) /\ RequestPart(id)'
<1>1. PICK t, o, x : t = pending[id] /\ o = out[id] /\ x = Model(History(id))
  OBVIOUS
<1>2. /\ AnySeq(o) /\ t = <<x>> /\ Len(o) < MaxNew /\ Len(o) \in Nat /\ MaxNew \in Nat
      /\ AnySeq(t) /\ Len(t) = 1 /\ t[1] = x /\ Last(t) = x
      /\ AnySeq(o \o t) /\ Len(o \o t) = Len(o) + 1
  <2>1. AnySeq(o) /\ t = <<x>> /\ Len(o) < MaxNew
    BY <1>1 DEF GInv, RequestPart
  <2>2. AnySeq(t) /\ Len(t) = 1 /\ t[1] = x /\ Last(t) = x
    BY <2>1, ShortSeqs
  <2>3. AnySeq(o \o t) /\ Len(o \o t) = Len(o) + 1 /\ Len(o) \in Nat
    BY <2>1, <2>2, JoinedSeqs
  <2> QED BY <2>1, <2>2, <2>3, DraftingAssumption
<1>3. AnySeq(Prompt[id]) /\ AnySeq(Prompt[id] \o o)
  <2>1. AnySeq(Prompt[id])
    BY DraftingAssumption DEF AnySeq
  <2> QED BY <1>2, <2>1, JoinedSeqs
<1>4. x = Model((Prompt[id] \o o) \o SubSeq(t, 1, 0))
  <2>1. SubSeq(t, 1, 0) = <<>>
    BY <1>2, Begun
  <2>2. (Prompt[id] \o o) \o <<>> = Prompt[id] \o o
    BY <1>2, <1>3, JoinedThrice
  <2> QED BY <1>1, <2>1, <2>2 DEF History
<1>5. Gains(id, t)
  <2>1. \A i \in 1..Len(t) : i = 1 /\ i - 1 = 0
    BY <1>2
  <2>2. \A i \in 1..Len(t) : /\ t[i] = Model((Prompt[id] \o o) \o SubSeq(t, 1, i - 1))
                             /\ t[i] \in Eos => i = Len(t)
    BY <1>2, <1>4, <2>1
  <2>3. (\E i \in 1..Len(t) : t[i] \in Eos) => phase'[id] = "over"
    BY <1>1, <1>2, <2>1
  <2>4. Len(o) + Len(t) <= MaxNew
    BY <1>2
  <2> QED BY <1>1, <1>2, <2>2, <2>3, <2>4 DEF Gains
<1>6. RequestPart(id)'
  <2>1. AnySeq(out'[id]) /\ Len(out'[id]) = Len(o) + 1 /\ Len(out'[id]) <= MaxNew
    BY <1>1, <1>2
  <2>2. phase'[id] = "decode" => pending'[id] = <<Model(History(id)')>> /\ Len(out'[id]) < MaxNew
    <3> SUFFICES ASSUME phase'[id] = "decode"
                 PROVE  pending'[id] = <<Model(History(id)')>> /\ Len(out'[id]) < MaxNew
      OBVIOUS
    <3>1. Len(o) + 1 # MaxNew
      BY <1>1, <1>2
    <3>2. History(id)' = Known(id)
      <4>1. (Prompt[id] \o o) \o t = Prompt[id] \o (o \o t)
        <5>1. PICK p : p = Prompt[id]
          OBVIOUS
        <5>2. AnySeq(p) /\ AnySeq(o) /\ AnySeq(t)
          BY <1>2, <1>3, <5>1
        <5>3. (p \o o) \o t = p \o (o \o t)
          BY <5>2, JoinedThrice
        <5> QED BY <5>1, <5>3
      <4> QED BY <1>1, <4>1 DEF History, Known
    <3> QED BY <1>2, <2>1, <3>1, <3>2
  <2> QED BY <2>1, <2>2 DEF RequestPart
<1> QED BY <1>1, <1>5, <1>6

\* A step that is not speculative brings every request that decodes its next token.
LEMMA RegularGreedy == ASSUME GInv, Regular PROVE GInv' /\ Greedy!Emit
<1>1. PICK P \in Batches, gone \in SUBSET Decoding :
       LET chunk == [id \in {c.id : c \in P} |-> CHOOSE c \in P : c.id = id]
           over == {id \in Decoding : Ends(id, pending[id], gone)}
       IN  /\ phase' = [id \in Ids |->
                IF id \in over THEN "over"
                ELSE IF id \in DOMAIN chunk
                THEN IF Completes(chunk[id]) THEN "decode" ELSE "prefill"
                ELSE phase[id]]
           /\ out' = [id \in Ids |-> IF id \in Decoding THEN out[id] \o pending[id] ELSE out[id]]
           /\ pending' = [id \in Ids |->
                IF id \in over THEN <<>>
                ELSE IF Sampled(P, id) # <<>> THEN Sampled(P, id) ELSE pending[id]]
  BY DEF Regular
<1>2. PICK chunk, over : /\ chunk = [id \in {c.id : c \in P} |-> CHOOSE c \in P : c.id = id]
                         /\ over = {id \in Decoding : Ends(id, pending[id], gone)}
  OBVIOUS
<1>3. /\ phase' = [id \in Ids |->
                IF id \in over THEN "over"
                ELSE IF id \in DOMAIN chunk
                THEN IF Completes(chunk[id]) THEN "decode" ELSE "prefill"
                ELSE phase[id]]
      /\ out' = [id \in Ids |-> IF id \in Decoding THEN out[id] \o pending[id] ELSE out[id]]
      /\ pending' = [id \in Ids |->
                IF id \in over THEN <<>>
                ELSE IF Sampled(P, id) # <<>> THEN Sampled(P, id) ELSE pending[id]]
  BY <1>1, <1>2
<1>4. /\ \A c \in P : c.id \in Ids /\ phase[c.id] \in {"waiting", "prefill"}
      /\ \A c, d \in P : c.id = d.id => c = d
  <2>1. P \subseteq Chunks /\ \A c, d \in P : c.id = d.id => c = d
    BY DEF Batches
  <2>2. \A c \in Chunks : c.id \in Ids /\ phase[c.id] \in {"waiting", "prefill"}
    BY DEF Chunks
  <2> QED BY <2>1, <2>2
<1>5. /\ DOMAIN chunk = {c.id : c \in P}
      /\ \A c \in P : chunk[c.id] = c
  <2>1. ASSUME NEW c \in P PROVE (CHOOSE d \in P : d.id = c.id) = c
    BY <1>4
  <2> QED BY <1>2, <2>1
<1>6. \A id \in Ids : id \in Decoding <=> phase[id] = "decode"
  BY DEF Decoding
<1>7. ASSUME NEW id \in Ids
      PROVE  (\E t : Gains(id, t)) /\ RequestPart(id)' /\ phase'[id] \in Phases
  <2>1. CASE id \in Decoding
    <3>1. id \notin DOMAIN chunk /\ phase[id] = "decode"
      BY <1>4, <1>5, <1>6, <2>1
    <3>2. /\ phase'[id] = (IF id \in over THEN "over" ELSE "decode")
          /\ out'[id] = out[id] \o pending[id]
          /\ id \in over => pending'[id] = <<>>
      BY <1>3, <2>1, <3>1
    <3>3. id \notin over => pending'[id] = <<Model(Known(id))>>
      <4>1. Sampled(P, id) = <<Model(Known(id))>>
        BY <2>1 DEF Sampled
      <4>2. Sampled(P, id) # <<>>
        BY <4>1
      <4> QED BY <1>3, <4>1, <4>2
    <3>4. Last(pending[id]) \in Eos \/ Len(out[id]) + Len(pending[id]) = MaxNew => id \in over
      BY <1>2, <2>1 DEF Ends
    <3>5. Gains(id, pending[id]) /\ RequestPart(id)'
      BY <3>1, <3>2, <3>3, <3>4, OneMore
    <3> QED BY <3>2, <3>5 DEF Phases
  <2>2. CASE id \notin Decoding
    <3>1. id \notin over /\ out'[id] = out[id] /\ phase[id] # "decode" /\ pending[id] = <<>>
          /\ phase[id] \in Phases /\ AnySeq(out[id]) /\ Len(out[id]) <= MaxNew
      BY <1>2, <1>3, <1>6, <2>2 DEF GInv, RequestPart
    <3>2. CASE id \in DOMAIN chunk
      <4>1. PICK c \in P : c.id = id /\ chunk[id] = c
        BY <1>5, <3>2
      <4>2. phase[id] \in {"waiting", "prefill"} /\ out[id] = <<>>
        BY <1>4, <4>1 DEF GInv, RequestPart
      <4>3. phase'[id] = IF Completes(c) THEN "decode" ELSE "prefill"
        BY <1>3, <3>1, <3>2, <4>1
      <4>4. Sampled(P, id) = IF Completes(c) THEN <<Model(Prompt[id])>> ELSE <<>>
        BY <1>4, <2>2, <4>1 DEF Sampled
      <4>5. pending'[id] = IF Completes(c) THEN <<Model(Prompt[id])>> ELSE <<>>
        <5>1. <<Model(Prompt[id])>> # <<>>
          OBVIOUS
        <5> QED BY <1>3, <3>1, <4>4, <5>1
      <4>6. Prompt[id] \o <<>> = Prompt[id] /\ Len(<<>>) = 0 /\ 0 < MaxNew
        <5>1. AnySeq(Prompt[id])
          BY DraftingAssumption DEF AnySeq
        <5> QED BY <5>1, JoinedThrice, ShortSeqs, DraftingAssumption
      <4>7. RequestPart(id)'
        BY <3>1, <4>2, <4>3, <4>5, <4>6 DEF RequestPart, History
      <4>8. Gains(id, <<>>)
        BY <3>1, <4>2, GainsNothing
      <4> QED BY <4>3, <4>7, <4>8 DEF Phases
    <3>3. CASE id \notin DOMAIN chunk
      <4>1. phase'[id] = phase[id]
        BY <1>3, <3>1, <3>3
      <4>2. Sampled(P, id) = <<>>
        BY <1>5, <2>2, <3>3 DEF Sampled
      <4>3. pending'[id] = pending[id]
        BY <1>3, <3>1, <4>2
      <4>4. RequestPart(id)'
        BY <3>1, <4>1, <4>3 DEF RequestPart, GInv
      <4>5. Gains(id, <<>>)
        BY <3>1, <4>1, GainsNothing
      <4> QED BY <3>1, <4>1, <4>4, <4>5
    <3> QED BY <3>2, <3>3
  <2> QED BY <2>1, <2>2
<1>8. DOMAIN out' = Ids /\ DOMAIN pending' = Ids /\ phase' \in [Ids -> Phases]
  BY <1>3, <1>7
<1> QED BY <1>7, <1>8, GainsEmit DEF GInv

-----------------------------------------------------------------------------
(* Beginnings, and what a step verifies.                                   *)

\* Verification keeps the drafts up to the first that is not the model's own choice.
LEMMA AcceptedFacts ==
  ASSUME NEW m \in Nat, NEW drafts, Len(drafts) = m, NEW truth
  PROVE  /\ Accepted(drafts, truth) \in 0..m
         /\ \A i \in 1..Accepted(drafts, truth) : drafts[i] = truth[i]
<1>1. \E n \in 0..m : /\ \A i \in 1..n : drafts[i] = truth[i]
                      /\ n < m => drafts[n + 1] # truth[n + 1]
  <2> SUFFICES ASSUME \A n \in 0..m : (\A i \in 1..n : drafts[i] = truth[i]) =>
                        n < m /\ drafts[n + 1] = truth[n + 1]
               PROVE  FALSE
    OBVIOUS
  <2> DEFINE T == {n \in Nat : n <= m => \A i \in 1..n : drafts[i] = truth[i]}
  <2>1. 0 \in T
    OBVIOUS
  <2>2. ASSUME NEW n \in Nat, n \in T PROVE n + 1 \in T
    <3> SUFFICES ASSUME n + 1 <= m, NEW i \in 1..(n + 1) PROVE drafts[i] = truth[i]
      OBVIOUS
    <3>1. n \in 0..m /\ \A j \in 1..n : drafts[j] = truth[j]
      BY <2>2
    <3>2. drafts[n + 1] = truth[n + 1]
      BY <3>1
    <3>3. i \in 1..n \/ i = n + 1
      OBVIOUS
    <3> QED BY <3>1, <3>2, <3>3
  <2>3. Nat \subseteq T
    <3> HIDE DEF T
    <3> QED BY <2>1, <2>2, SetOfNaturals
  <2>4. m \in T
    BY <2>3
  <2>5. \A i \in 1..m : drafts[i] = truth[i]
    BY <2>4
  <2> QED BY <2>5
<1>2. Accepted(drafts, truth) =
        CHOOSE n \in 0..m : /\ \A i \in 1..n : drafts[i] = truth[i]
                            /\ n < m => drafts[n + 1] # truth[n + 1]
  BY DEF Accepted
<1> QED BY <1>1, <1>2

\* What goes out ends with the first token that ends the text, and has no other.
LEMMA UpToStopFacts ==
  ASSUME NEW s, AnySeq(s), Len(s) > 0
  PROVE  \E e \in 1..Len(s) : /\ UpToStop(s) = SubSeq(s, 1, e)
                              /\ \A i \in 1..(e - 1) : s[i] \notin Eos
                              /\ e = Len(s) \/ s[e] \in Eos
<1>0. PICK k : k = Len(s)
  OBVIOUS
<1>1. k \in Nat /\ k > 0 /\ SubSeq(s, 1, k) = s /\ DOMAIN s = 1..k
  <2>1. PICK A : s \in Seq(A)
    BY DEF AnySeq
  <2>2. k \in Nat /\ DOMAIN s = 1..k
    BY <1>0, <2>1, LenProperties
  <2>3. k \in 0..Len(s)
    BY <1>0, <2>2
  <2> QED BY <1>0, <2>2, <2>3, Begun
<1>2. PICK stops : stops = {i \in DOMAIN s : s[i] \in Eos}
  OBVIOUS
<1>3. CASE stops = {}
  <2>1. UpToStop(s) = s
    BY <1>2, <1>3 DEF UpToStop
  <2>2. \A i \in 1..(k - 1) : s[i] \notin Eos
    BY <1>1, <1>2, <1>3
  <2> QED BY <1>0, <1>1, <2>1, <2>2
<1>4. CASE stops # {}
  <2>1. \E i \in stops : \A j \in stops : i <= j
    <3> SUFFICES ASSUME \A i \in stops : \E j \in stops : j < i PROVE FALSE
      <4>1. stops \subseteq Nat
        BY <1>1, <1>2
      <4> QED BY <4>1
    <3> DEFINE T == {n \in Nat : \A i \in stops : n < i}
    <3>1. 0 \in T
      BY <1>1, <1>2
    <3>2. ASSUME NEW n \in Nat, n \in T PROVE n + 1 \in T
      <4> SUFFICES ASSUME NEW i \in stops PROVE n + 1 < i
        OBVIOUS
      <4>1. PICK j \in stops : j < i
        OBVIOUS
      <4>2. n < j /\ i \in Nat /\ j \in Nat
        BY <1>1, <1>2, <3>2
      <4> QED BY <4>1, <4>2
    <3>3. Nat \subseteq T
      <4> HIDE DEF T
      <4> QED BY <3>1, <3>2, SetOfNaturals
    <3>4. PICK i \in stops : TRUE
      BY <1>4
    <3>5. i \in Nat
      BY <1>1, <1>2
    <3>6. i \in T
      BY <3>3, <3>5
    <3> QED BY <3>5, <3>6
  <2>2. PICK e : e = CHOOSE i \in stops : \A j \in stops : i <= j
    OBVIOUS
  <2>3. e \in stops /\ \A j \in stops : e <= j
    BY <2>1, <2>2
  <2>4. UpToStop(s) = SubSeq(s, 1, e)
    BY <1>2, <1>4, <2>2 DEF UpToStop
  <2>5. e \in 1..k /\ s[e] \in Eos
    BY <1>1, <1>2, <2>3
  <2>6. \A i \in 1..(e - 1) : s[i] \notin Eos
    <3> SUFFICES ASSUME NEW i \in 1..(e - 1), s[i] \in Eos PROVE FALSE
      OBVIOUS
    <3>1. i \in 1..k /\ i < e
      BY <1>1, <2>5
    <3>2. i \in stops
      BY <1>1, <1>2, <3>1
    <3> QED BY <1>1, <2>3, <2>5, <3>1, <3>2
  <2> QED BY <1>0, <2>4, <2>5, <2>6
<1> QED BY <1>3, <1>4

\* What the model says after the token that waits and after each draft.
Answers(h, x, tried) ==
  [i \in 1..(Len(tried) + 1) |-> Model((h \o <<x>>) \o SubSeq(tried, 1, i - 1))]

\* The tokens of full follow h as the model goes on, and truth has what it says after them.
Verifies(h, m, truth, k, full) ==
  /\ k \in 0..m /\ AnySeq(full) /\ Len(full) = k + 1
  /\ \A i \in 1..(k + 1) : full[i] = Model(h \o SubSeq(full, 1, i - 1))
  /\ AnySeq(truth) /\ Len(truth) = m + 1 /\ truth[k + 1] = Model(h \o full)

\* The drafts that are kept, after the token that waits, are what the model says by itself, and
\* its answer after the last of them is what it says after all of them.
LEMMA Verified ==
  ASSUME NEW h, AnySeq(h), NEW x, x = Model(h), NEW tried, AnySeq(tried),
         NEW truth, truth = Answers(h, x, tried), NEW k, k = Accepted(tried, truth),
         NEW full, full = <<x>> \o SubSeq(truth, 1, k)
  PROVE  Verifies(h, Len(tried), truth, k, full)
<1>1. PICK m : m = Len(tried)
  OBVIOUS
<1>2. m \in Nat
  BY <1>1, JoinedSeqs
<1>3. k \in 0..m /\ \A i \in 1..k : tried[i] = truth[i]
  BY <1>1, <1>2, AcceptedFacts
<1>4. AnySeq(truth) /\ Len(truth) = m + 1
  <2>1. PICK B : B = {truth[i] : i \in 1..(m + 1)}
    OBVIOUS
  <2>2. DOMAIN truth = 1..(m + 1) /\ truth = [i \in 1..(m + 1) |-> truth[i]]
    BY <1>1 DEF Answers
  <2>3. truth \in [1..(m + 1) -> B]
    BY <2>1, <2>2
  <2>4. m + 1 \in Nat
    BY <1>2
  <2>5. truth \in Seq(B)
    BY <2>3, <2>4, SeqDef
  <2>6. Len(truth) = m + 1
    BY <2>2, <2>4, <2>5, LenProperties
  <2> QED BY <2>5, <2>6 DEF AnySeq
<1>5. PICK w : w = <<x>>
  OBVIOUS
<1>6. AnySeq(w) /\ Len(w) = 1 /\ w[1] = x
  BY <1>5, ShortSeqs
<1>7. \A i \in 1..(m + 1) : truth[i] = Model((h \o w) \o SubSeq(tried, 1, i - 1))
  BY <1>1, <1>5 DEF Answers
<1>8. PICK u : u = SubSeq(truth, 1, k)
  OBVIOUS
<1>9. k \in 0..(m + 1) /\ k \in Nat /\ k <= m
  BY <1>2, <1>3
<1>10. AnySeq(u) /\ Len(u) = k /\ \A i \in 1..k : u[i] = truth[i]
  <2>1. k \in 0..Len(truth)
    BY <1>4, <1>9
  <2> QED BY <1>4, <1>8, <2>1, Begun
<1>11. full = w \o u
  BY <1>5, <1>8
<1>12. AnySeq(full) /\ Len(full) = k + 1
  BY <1>5, <1>10, <1>11, JoinedOne
<1>13. full[1] = x
  BY <1>5, <1>10, <1>11, JoinedOne
<1>14. \A i \in 1..k : full[i + 1] = truth[i]
  <2>1. \A i \in 1..Len(u) : full[i + 1] = u[i]
    BY <1>5, <1>10, <1>11, JoinedOne
  <2> QED BY <1>10, <2>1
<1>15. ASSUME NEW j \in 0..k PROVE truth[j + 1] = Model(h \o SubSeq(full, 1, j + 1))
  <2>1. PICK v : v = SubSeq(tried, 1, j)
    OBVIOUS
  <2>2. j \in 0..Len(tried) /\ j \in 0..Len(u) /\ j \in Nat /\ j \in 0..k /\ j + 1 - 1 = j
        /\ j + 1 \in 1..(m + 1) /\ j <= k
    BY <1>1, <1>2, <1>9, <1>10
  <2>3. AnySeq(v) /\ Len(v) = j /\ \A i \in 1..j : v[i] = tried[i]
    BY <2>1, <2>2, Begun
  <2>4. SubSeq(u, 1, j) = v
    <3>1. PICK z : z = SubSeq(u, 1, j)
      OBVIOUS
    <3>2. AnySeq(z) /\ Len(z) = j /\ \A i \in 1..j : z[i] = u[i]
      BY <1>10, <2>2, <3>1, Begun
    <3>3. \A i \in 1..j : i \in 1..k
      BY <1>9, <2>2
    <3>4. \A i \in 1..j : z[i] = v[i]
      BY <1>3, <1>10, <2>3, <3>2, <3>3
    <3>5. z = v
      BY <2>3, <3>2, <3>4, SameSeq
    <3> QED BY <3>1, <3>5
  <2>5. SubSeq(full, 1, j + 1) = w \o v
    <3>1. SubSeq(w \o u, 1, Len(w) + j) = w \o SubSeq(u, 1, j)
      BY <1>6, <1>10, <2>2, BegunJoined
    <3>2. Len(w) + j = j + 1
      BY <1>6, <2>2
    <3> QED BY <1>11, <2>4, <3>1, <3>2
  <2>6. (h \o w) \o v = h \o (w \o v)
    BY <1>6, <2>3, JoinedThrice
  <2>7. truth[j + 1] = Model((h \o w) \o v)
    BY <1>7, <2>1, <2>2
  <2> QED BY <2>5, <2>6, <2>7
<1>16. ASSUME NEW i \in 1..(k + 1) PROVE full[i] = Model(h \o SubSeq(full, 1, i - 1))
  <2>1. CASE i = 1
    <3>1. SubSeq(full, 1, 0) = <<>>
      BY <1>9, <1>12, Begun
    <3>2. h \o <<>> = h
      BY <1>6, JoinedThrice
    <3>3. i - 1 = 0
      BY <2>1
    <3>4. SubSeq(full, 1, i - 1) = <<>>
      BY <3>1, <3>3
    <3> QED BY <1>13, <2>1, <3>2, <3>4
  <2>2. CASE i # 1
    <3>1. PICK j : j = i - 2
      OBVIOUS
    <3>2. j \in 0..k /\ j + 1 = i - 1 /\ i - 1 \in 1..k /\ i - 1 + 1 = i
      BY <1>9, <2>2, <3>1
    <3>3. full[i] = truth[j + 1]
      BY <1>14, <3>2
    <3>4. truth[j + 1] = Model(h \o SubSeq(full, 1, j + 1))
      BY <1>15, <3>2
    <3> QED BY <3>2, <3>3, <3>4
  <2> QED BY <2>1, <2>2
<1>17. truth[k + 1] = Model(h \o full)
  <2>1. k \in 0..k
    BY <1>9
  <2>2. truth[k + 1] = Model(h \o SubSeq(full, 1, k + 1))
    BY <1>15, <2>1
  <2>3. SubSeq(full, 1, Len(full)) = full
    <3>1. Len(full) \in 0..Len(full)
      BY <1>9, <1>12
    <3> QED BY <1>12, <3>1, Begun
  <2> QED BY <1>12, <2>2, <2>3
<1> QED BY <1>1, <1>3, <1>4, <1>12, <1>16, <1>17 DEF Verifies

\* The first r of full are produced: up to an end of the text, or where they are cut.
CutAt(full, cut, emitted, produced, r) ==
  /\ produced = SubSeq(full, 1, r)
  /\ \A i \in 1..(r - 1) : full[i] \notin Eos
  /\ r = Len(full) \/ full[r] \in Eos \/ cut <= Len(emitted)

\* What goes out is a beginning of what was verified, with no end of a text inside.
LEMMA CutFacts ==
  ASSUME NEW full, AnySeq(full), Len(full) > 0, NEW cut \in Nat \ {0},
         NEW emitted, emitted = UpToStop(full),
         NEW produced, produced = IF cut > Len(emitted) THEN emitted ELSE SubSeq(emitted, 1, cut)
  PROVE  \E r \in 1..Len(full) : CutAt(full, cut, emitted, produced, r)
<1>1. PICK e \in 1..Len(full) : /\ emitted = SubSeq(full, 1, e)
                                /\ \A i \in 1..(e - 1) : full[i] \notin Eos
                                /\ e = Len(full) \/ full[e] \in Eos
  BY UpToStopFacts
<1>2. Len(full) \in Nat
  BY JoinedSeqs
<1>3. e \in Nat /\ e > 0 /\ e <= Len(full) /\ e \in 0..Len(full)
  BY <1>2
<1>4. Len(emitted) = e
  BY <1>1, <1>3, Begun
<1>5. CASE cut > e
  <2>1. produced = SubSeq(full, 1, e)
    BY <1>1, <1>4, <1>5
  <2> QED BY <1>1, <2>1 DEF CutAt
<1>6. CASE cut <= e
  <2>1. cut \in 0..e /\ cut \in 1..Len(full) /\ ~(cut > e)
    BY <1>3, <1>6
  <2>2. SubSeq(SubSeq(full, 1, e), 1, cut) = SubSeq(full, 1, cut)
    BY <1>3, <2>1, BegunTwice
  <2>3. produced = SubSeq(full, 1, cut)
    BY <1>1, <1>4, <2>1, <2>2
  <2>4. \A i \in 1..(cut - 1) : i \in 1..(e - 1)
    BY <1>3, <2>1
  <2> QED BY <1>1, <1>4, <1>6, <2>1, <2>3, <2>4 DEF CutAt
<1> QED BY <1>3, <1>5, <1>6

-----------------------------------------------------------------------------
(* Speculative steps.                                                      *)

\* What a request has read grows with what goes out.
LEMMA HistoryGrows ==
  ASSUME GInv, NEW id \in Ids, NEW t, AnySeq(t)
  PROVE  Prompt[id] \o (out[id] \o t) = History(id) \o t
<1>1. PICK o, p : o = out[id] /\ p = Prompt[id]
  OBVIOUS
<1>2. AnySeq(o) /\ AnySeq(p) /\ AnySeq(t)
  <2>1. AnySeq(o)
    BY <1>1 DEF GInv, RequestPart
  <2>2. AnySeq(p)
    BY <1>1, DraftingAssumption DEF AnySeq
  <2> QED BY <2>1, <2>2
<1>3. (p \o o) \o t = p \o (o \o t)
  BY <1>2, JoinedThrice
<1> QED BY <1>1, <1>3 DEF History

\* Verified tokens go out, and the model's next token waits, unless the request is over.
LEMMA SpeculatedPart ==
  ASSUME GInv, NEW id \in Ids, phase[id] = "decode",
         NEW k, NEW full, AnySeq(full), k \in Nat, Len(full) = k + 1,
         Len(out[id]) + k + 1 <= MaxNew,
         \A i \in 1..(k + 1) : full[i] = Model(History(id) \o SubSeq(full, 1, i - 1)),
         NEW next, next = Model(History(id) \o full),
         NEW r \in 1..Len(full), NEW over, over \in BOOLEAN,
         NEW produced, produced = SubSeq(full, 1, r),
         \A i \in 1..(r - 1) : full[i] \notin Eos,
         Last(produced) \in Eos => over, Len(out[id]) + Len(produced) = MaxNew => over,
         over \/ r = Len(full),
         out'[id] = out[id] \o produced,
         pending'[id] = IF over THEN <<>> ELSE <<next>>,
         phase'[id] = IF over THEN "over" ELSE "decode"
  PROVE  Gains(id, produced) /\ RequestPart(id)'
<1>1. PICK o, p, n : o = out[id] /\ p = Prompt[id] /\ n = Len(o)
  OBVIOUS
<1>2. AnySeq(o) /\ AnySeq(p) /\ n \in Nat /\ MaxNew \in Nat
  <2>1. AnySeq(o)
    BY <1>1 DEF GInv, RequestPart
  <2>2. AnySeq(p)
    BY <1>1, DraftingAssumption DEF AnySeq
  <2> QED BY <1>1, <2>1, <2>2, JoinedSeqs, DraftingAssumption
<1>3. r \in Nat /\ r > 0 /\ r <= k + 1 /\ r \in 0..Len(full) /\ n + r <= MaxNew
  BY <1>1, <1>2
<1>4. AnySeq(produced) /\ Len(produced) = r /\ \A i \in 1..r : produced[i] = full[i]
  BY <1>3, Begun
<1>5. AnySeq(o \o produced) /\ Len(o \o produced) = n + r
  BY <1>1, <1>2, <1>4, JoinedSeqs
<1>6. History(id) = p \o o
  BY <1>1 DEF History
<1>7. ASSUME NEW i \in 1..r
      PROVE  /\ produced[i] = Model((p \o o) \o SubSeq(produced, 1, i - 1))
             /\ produced[i] \in Eos => i = r
  <2>1. i - 1 \in 0..r /\ i \in 1..(k + 1) /\ i \in 1..r
    BY <1>3
  <2>2. SubSeq(produced, 1, i - 1) = SubSeq(full, 1, i - 1)
    BY <1>3, <2>1, BegunTwice
  <2>3. full[i] = Model((p \o o) \o SubSeq(full, 1, i - 1))
    BY <1>6, <2>1
  <2>4. i \in 1..(r - 1) \/ i = r
    BY <1>3
  <2> QED BY <1>4, <2>2, <2>3, <2>4
<1>8. Last(produced) = produced[r]
  BY <1>4 DEF Last
<1>9. Gains(id, produced)
  <2>1. \A i \in 1..Len(produced) :
          /\ produced[i] = Model((Prompt[id] \o out[id]) \o SubSeq(produced, 1, i - 1))
          /\ produced[i] \in Eos => i = Len(produced)
    BY <1>1, <1>4, <1>7
  <2>2. (\E i \in 1..Len(produced) : produced[i] \in Eos) => phase'[id] = "over"
    BY <1>4, <1>7, <1>8
  <2>3. Len(out[id]) + Len(produced) <= MaxNew
    BY <1>1, <1>3, <1>4
  <2>4. Len(out[id]) + Len(produced) = MaxNew => phase'[id] = "over"
    OBVIOUS
  <2> QED BY <1>4, <2>1, <2>2, <2>3, <2>4 DEF Gains
<1>10. RequestPart(id)'
  <2>1. AnySeq(out'[id]) /\ Len(out'[id]) = n + r /\ Len(out'[id]) <= MaxNew
    BY <1>1, <1>3, <1>5
  <2>2. CASE over
    BY <2>1, <2>2 DEF RequestPart
  <2>3. CASE ~over
    <3>1. n + r # MaxNew
      BY <1>1, <1>4, <2>3
    <3>2. Len(out'[id]) < MaxNew
      BY <1>2, <1>3, <2>1, <3>1
    <3>3. produced = full
      <4>1. SubSeq(full, 1, Len(full)) = full
        BY <1>3, Begun
      <4> QED BY <2>3, <4>1
    <3>4. History(id)' = History(id) \o full
      <4>1. Prompt[id] \o (out[id] \o full) = History(id) \o full
        BY HistoryGrows
      <4> QED BY <3>3, <4>1 DEF History
    <3>5. pending'[id] = <<Model(History(id)')>> /\ phase'[id] = "decode"
      BY <2>3, <3>4
    <3> QED BY <2>1, <3>2, <3>5 DEF RequestPart
  <2> QED BY <2>2, <2>3
<1> QED BY <1>9, <1>10

\* What a speculative step does: full is what is verified, of which produced goes out.
Speculates(id, drafts, truth, kept, full, produced, r, over) ==
  /\ Decoding = {id} /\ phase[id] = "decode" /\ DraftDepth(id) \in Nat /\ DraftDepth(id) > 0
  /\ drafts \in [1..DraftDepth(id) -> Vocab]
  /\ kept \in Nat /\ Len(out[id]) + kept + 1 <= MaxNew
  /\ AnySeq(truth) /\ kept < Len(truth) /\ Len(truth) \in Nat
  /\ full = pending[id] \o SubSeq(truth, 1, kept)
  /\ AnySeq(full) /\ Len(full) = kept + 1
  /\ \A i \in 1..(kept + 1) : full[i] = Model(History(id) \o SubSeq(full, 1, i - 1))
  /\ truth[kept + 1] = Model(History(id) \o full)
  /\ r \in 1..Len(full) /\ produced = SubSeq(full, 1, r)
  /\ \A i \in 1..(r - 1) : full[i] \notin Eos
  /\ over \in BOOLEAN /\ (over \/ r = Len(full))
  /\ Last(produced) \in Eos => over
  /\ Len(out[id]) + Len(produced) = MaxNew => over
  /\ out' = [out EXCEPT ![id] = @ \o produced]
  /\ pending' = [pending EXCEPT ![id] = IF over THEN <<>> ELSE <<truth[kept + 1]>>]
  /\ phase' = [phase EXCEPT ![id] = IF over THEN "over" ELSE @]
  /\ headTokens' = SubSeq(truth, 1, kept + 1)
  /\ head' = FoldLeft(Push,
                [DraftChain(Bind(head, id), id, drafts) EXCEPT !.hidden =
                   HiddenRows(Known(id) \o SubSeq(truth, 1, kept), Len(Known(id)),
                              Len(Known(id) \o SubSeq(truth, 1, kept)))],
                SubSeq(truth, 1, kept + 1))
  /\ hiddenFor' = IF over THEN {} ELSE {id}
  /\ done' = done

\* A speculative step verifies the drafts, and a beginning of what it verified goes out.
LEMMA SpeculateFacts ==
  ASSUME GInv, NEW id \in Ids, Speculate(id)
  PROVE  \E drafts, truth, kept, full, produced, r, over :
           Speculates(id, drafts, truth, kept, full, produced, r, over)
<1>1. PICK d : d = DraftDepth(id)
  OBVIOUS
<1>2. /\ Decoding = {id} /\ phase[id] = "decode" /\ Len(out[id]) \in Nat /\ MaxNew \in Nat
      /\ d \in Nat /\ d <= MaxNew - Len(out[id]) - 1
  <2>1. d > 0
    BY <1>1 DEF Speculate
  <2>2. Decoding = {id} /\ d = IF MaxNew - Len(out[id]) - 1 < Depth
                               THEN MaxNew - Len(out[id]) - 1 ELSE Depth
    BY <1>1, <2>1 DEF DraftDepth
  <2>3. phase[id] = "decode"
    BY <2>2 DEF Decoding
  <2>4. Len(out[id]) \in Nat /\ MaxNew \in Nat /\ Depth \in Nat
    <3>1. PICK o : o = out[id]
      OBVIOUS
    <3>2. AnySeq(o)
      BY <3>1 DEF GInv, RequestPart
    <3>3. Len(o) \in Nat
      BY <3>2, JoinedSeqs
    <3> QED BY <3>1, <3>3, DraftingAssumption
  <2>5. d \in Nat /\ d <= MaxNew - Len(out[id]) - 1
    <3>1. PICK n : n = Len(out[id])
      OBVIOUS
    <3>2. n \in Nat /\ d = IF MaxNew - n - 1 < Depth THEN MaxNew - n - 1 ELSE Depth
      BY <2>2, <2>4, <3>1
    <3>3. d \in Nat /\ d <= MaxNew - n - 1
      BY <2>1, <2>4, <3>2
    <3> QED BY <3>1, <3>3
  <2> QED BY <2>2, <2>3, <2>4, <2>5
<1>3. PICK drafts \in [1..DraftDepth(id) -> Vocab], reserved \in 0..DraftDepth(id),
           cut \in 1..(Depth + 2) :
       LET bound == Bind(head, id)
           tried == SubSeq(drafts, 1, reserved)
           truth == Truth(id, tried)
           kept == Accepted(tried, truth)
           text == Known(id) \o SubSeq(truth, 1, kept)
           emitted == UpToStop(pending[id] \o SubSeq(truth, 1, kept))
           produced == IF cut > Len(emitted) THEN emitted ELSE SubSeq(emitted, 1, cut)
           over == Ends(id, produced, IF cut > Len(emitted) THEN {} ELSE {id})
           chain == DraftChain(bound, id, drafts)
       IN  /\ out' = [out EXCEPT ![id] = @ \o produced]
           /\ pending' = [pending EXCEPT ![id] = IF over THEN <<>> ELSE <<truth[kept + 1]>>]
           /\ phase' = [phase EXCEPT ![id] = IF over THEN "over" ELSE @]
           /\ headTokens' = SubSeq(truth, 1, kept + 1)
           /\ head' = FoldLeft(Push, [chain EXCEPT !.hidden =
                                 HiddenRows(text, Len(Known(id)), Len(text))],
                               SubSeq(truth, 1, kept + 1))
           /\ hiddenFor' = IF over THEN {} ELSE {id}
           /\ UNCHANGED done
  BY Zenon DEF Speculate
<1>4. PICK tried : tried = SubSeq(drafts, 1, reserved)
  OBVIOUS
<1>5. PICK truth : truth = Truth(id, tried)
  OBVIOUS
<1>6. PICK kept : kept = Accepted(tried, truth)
  OBVIOUS
<1>7. PICK full : full = pending[id] \o SubSeq(truth, 1, kept)
  OBVIOUS
<1>8. PICK emitted : emitted = UpToStop(full)
  OBVIOUS
<1>9. PICK produced : produced = IF cut > Len(emitted) THEN emitted ELSE SubSeq(emitted, 1, cut)
  OBVIOUS
<1>10. PICK over \in BOOLEAN :
         over = Ends(id, produced, IF cut > Len(emitted) THEN {} ELSE {id})
  BY DEF Ends
<1>11. PICK next : next = truth[kept + 1]
  OBVIOUS
<1>12. /\ out' = [out EXCEPT ![id] = @ \o produced]
       /\ pending' = [pending EXCEPT ![id] = IF over THEN <<>> ELSE <<next>>]
       /\ phase' = [phase EXCEPT ![id] = IF over THEN "over" ELSE @]
       /\ headTokens' = SubSeq(truth, 1, kept + 1)
       /\ head' = FoldLeft(Push,
                    [DraftChain(Bind(head, id), id, drafts) EXCEPT !.hidden =
                       HiddenRows(Known(id) \o SubSeq(truth, 1, kept), Len(Known(id)),
                                  Len(Known(id) \o SubSeq(truth, 1, kept)))],
                    SubSeq(truth, 1, kept + 1))
       /\ hiddenFor' = (IF over THEN {} ELSE {id})
       /\ done' = done
  BY <1>3, <1>4, <1>5, <1>6, <1>7, <1>8, <1>9, <1>10, <1>11
<1>13. PICK h, x : h = History(id) /\ x = Model(h)
  OBVIOUS
<1>14. AnySeq(h) /\ pending[id] = <<x>>
  <2>1. pending[id] = <<x>>
    BY <1>2, <1>13 DEF GInv, RequestPart
  <2>2. AnySeq(out[id]) /\ AnySeq(Prompt[id])
    BY DraftingAssumption DEF GInv, RequestPart, AnySeq
  <2>3. AnySeq(Prompt[id] \o out[id])
    <3>1. PICK o, p : o = out[id] /\ p = Prompt[id]
      OBVIOUS
    <3>2. AnySeq(p \o o)
      BY <2>2, <3>1, JoinedSeqs
    <3> QED BY <3>1, <3>2
  <2> QED BY <1>13, <2>1, <2>3 DEF History
<1>15. AnySeq(tried) /\ Len(tried) = reserved
  <2>0. drafts \in [1..d -> Vocab] /\ reserved \in 0..d
    BY <1>1
  <2>1. drafts \in Seq(Vocab)
    BY <1>2, <2>0, SeqDef
  <2>2. Len(drafts) = d
    BY <1>2, <2>0, <2>1, LenProperties
  <2>3. AnySeq(drafts) /\ reserved \in 0..Len(drafts)
    BY <2>0, <2>1, <2>2 DEF AnySeq
  <2> QED BY <1>4, <2>3, Begun
<1>16. truth = Answers(h, x, tried)
  BY <1>5, <1>13, <1>14 DEF Truth, Answers, Known
<1>17. full = <<x>> \o SubSeq(truth, 1, kept)
  BY <1>7, <1>14
<1>18. /\ kept \in 0..Len(tried) /\ AnySeq(full) /\ Len(full) = kept + 1
       /\ \A i \in 1..(kept + 1) : full[i] = Model(h \o SubSeq(full, 1, i - 1))
       /\ AnySeq(truth) /\ Len(truth) = Len(tried) + 1 /\ truth[kept + 1] = Model(h \o full)
  <2>1. AnySeq(h) /\ x = Model(h) /\ AnySeq(tried)
    BY <1>13, <1>14, <1>15
  <2>2. Verifies(h, Len(tried), truth, kept, full)
    BY <1>6, <1>16, <1>17, <2>1, Verified
  <2> QED BY <2>2 DEF Verifies
<1>19. /\ kept \in Nat /\ Len(out[id]) + kept + 1 <= MaxNew
       /\ kept < Len(truth) /\ Len(truth) \in Nat
       /\ next = Model(History(id) \o full)
       /\ \A i \in 1..(kept + 1) : full[i] = Model(History(id) \o SubSeq(full, 1, i - 1))
  <2>1. kept \in 0..reserved /\ reserved \in 0..d
    BY <1>1, <1>15, <1>18
  <2>2. kept \in Nat /\ Len(out[id]) + kept + 1 <= MaxNew
    <3>1. PICK n : n = Len(out[id])
      OBVIOUS
    <3>2. n \in Nat /\ d <= MaxNew - n - 1
      BY <1>2, <3>1
    <3>3. kept \in Nat /\ n + kept + 1 <= MaxNew
      BY <1>2, <2>1, <3>2
    <3> QED BY <3>1, <3>3
  <2>3. kept < Len(truth) /\ Len(truth) \in Nat
    BY <1>15, <1>18, <2>1
  <2> QED BY <1>11, <1>13, <1>18, <2>2, <2>3
<1>20. PICK r \in 1..Len(full) : /\ produced = SubSeq(full, 1, r)
                                 /\ \A i \in 1..(r - 1) : full[i] \notin Eos
                                 /\ r = Len(full) \/ full[r] \in Eos \/ cut <= Len(emitted)
  <2>1. Len(full) > 0
    BY <1>18, <1>19
  <2>2. cut \in Nat \ {0}
    BY DraftingAssumption
  <2>3. AnySeq(full)
    BY <1>18
  <2>4. \E r \in 1..Len(full) : CutAt(full, cut, emitted, produced, r)
    BY <1>8, <1>9, <2>1, <2>2, <2>3, CutFacts
  <2> QED BY <2>4 DEF CutAt
<1>21. /\ Last(produced) \in Eos => over
       /\ Len(out[id]) + Len(produced) = MaxNew => over
       /\ cut <= Len(emitted) => over
  <2>1. Last(produced) \in Eos => over
    BY <1>10 DEF Ends
  <2>2. Len(out[id]) + Len(produced) = MaxNew => over
    BY <1>10 DEF Ends
  <2>3. cut <= Len(emitted) => over
    <3>1. Len(emitted) \in Nat
      <4>1. PICK e \in 1..Len(full) : emitted = SubSeq(full, 1, e)
        <5>1. Len(full) > 0
          BY <1>18, <1>19
        <5> QED BY <1>8, <1>18, <5>1, UpToStopFacts
      <4>2. e \in 0..Len(full)
        BY <1>18, <1>19
      <4>3. Len(emitted) = e
        BY <1>18, <4>1, <4>2, Begun
      <4> QED BY <1>18, <1>19, <4>3
    <3>2. cut \in Nat
      BY DraftingAssumption
    <3>3. cut <= Len(emitted) => ~(cut > Len(emitted))
      BY <3>1, <3>2
    <3> QED BY <1>10, <3>3 DEF Ends
  <2> QED BY <2>1, <2>2, <2>3
<1>22. over \/ r = Len(full)
  <2>1. CASE full[r] \in Eos
    <3>1. Len(produced) = r /\ produced[r] = full[r]
      <4>1. r \in 0..Len(full) /\ r \in 1..r
        BY <1>18, <1>19
      <4> QED BY <1>18, <1>20, <4>1, Begun
    <3>2. Last(produced) \in Eos
      BY <2>1, <3>1 DEF Last
    <3> QED BY <1>21, <3>2
  <2> QED BY <1>20, <1>21, <2>1
<1>23. /\ DraftDepth(id) \in Nat /\ DraftDepth(id) > 0
       /\ drafts \in [1..DraftDepth(id) -> Vocab]
  BY <1>1, <1>2 DEF Speculate
<1>24. truth[kept + 1] = Model(History(id) \o full)
  BY <1>11, <1>19
<1>25. Speculates(id, drafts, truth, kept, full, produced, r, over)
  BY <1>2, <1>7, <1>11, <1>12, <1>18, <1>19, <1>20, <1>21, <1>22, <1>23, <1>24 DEF Speculates
<1> QED BY <1>25

\* A speculative step brings its request tokens the model would have picked by itself.
LEMMA SpeculateGreedy ==
  ASSUME GInv, NEW id \in Ids, Speculate(id) PROVE GInv' /\ Greedy!Emit
<1>1. PICK drafts, truth, kept, full, produced, r, over :
        Speculates(id, drafts, truth, kept, full, produced, r, over)
  BY SpeculateFacts
<1>2. /\ Decoding = {id} /\ phase[id] = "decode"
      /\ kept \in Nat /\ Len(out[id]) + kept + 1 <= MaxNew
      /\ AnySeq(full) /\ Len(full) = kept + 1
      /\ \A i \in 1..(kept + 1) : full[i] = Model(History(id) \o SubSeq(full, 1, i - 1))
      /\ r \in 1..Len(full) /\ produced = SubSeq(full, 1, r)
      /\ \A i \in 1..(r - 1) : full[i] \notin Eos
      /\ over \in BOOLEAN /\ (over \/ r = Len(full))
      /\ Last(produced) \in Eos => over
  BY <1>1 DEF Speculates
<1>3. /\ Len(out[id]) + Len(produced) = MaxNew => over
      /\ out' = [out EXCEPT ![id] = @ \o produced]
      /\ pending' = [pending EXCEPT ![id] = IF over THEN <<>> ELSE <<truth[kept + 1]>>]
      /\ phase' = [phase EXCEPT ![id] = IF over THEN "over" ELSE @]
  BY <1>1 DEF Speculates
<1>4. PICK next : next = truth[kept + 1]
  OBVIOUS
<1>5. next = Model(History(id) \o full)
  BY <1>1, <1>4 DEF Speculates
<1>6. /\ out'[id] = out[id] \o produced
      /\ pending'[id] = IF over THEN <<>> ELSE <<next>>
      /\ phase'[id] = IF over THEN "over" ELSE "decode"
  BY <1>2, <1>3, <1>4 DEF GInv
<1>7. Gains(id, produced) /\ RequestPart(id)'
  BY <1>2, <1>3, <1>5, <1>6, SpeculatedPart
<1>8. ASSUME NEW c \in Ids, c # id PROVE Gains(c, <<>>) /\ RequestPart(c)'
  <2>1. out'[c] = out[c] /\ pending'[c] = pending[c] /\ phase'[c] = phase[c]
    BY <1>3, <1>8 DEF GInv
  <2>2. phase[c] # "decode"
    BY <1>2, <1>8 DEF Decoding
  <2>3. Gains(c, <<>>)
    BY <2>1, <2>2, GainsNothing
  <2>4. RequestPart(c)'
    BY <2>1, <2>2 DEF GInv, RequestPart
  <2> QED BY <2>3, <2>4
<1>9. DOMAIN out' = Ids /\ DOMAIN pending' = Ids /\ phase' \in [Ids -> Phases]
  <2>1. DOMAIN out' = Ids /\ DOMAIN pending' = Ids
    BY <1>3 DEF GInv
  <2>2. phase' \in [Ids -> Phases]
    BY <1>3 DEF GInv, Phases
  <2> QED BY <2>1, <2>2
<1>10. GInv'
  BY <1>7, <1>8, <1>9 DEF GInv
<1>11. Greedy!Emit
  BY <1>7, <1>8, <1>9, GainsEmit
<1> QED BY <1>10, <1>11

\* The invariant is inductive, and every step is one of greedy decoding, or none.
LEMMA GreedyStep == GInv /\ [Next]_vars => GInv' /\ [Greedy!Emit]_(Greedy!vars)
<1> SUFFICES ASSUME GInv, [Next]_vars PROVE GInv' /\ [Greedy!Emit]_(Greedy!vars)
  OBVIOUS
<1>1. CASE Regular
  BY <1>1, RegularGreedy
<1>2. CASE \E id \in Ids : Speculate(id)
  BY <1>2, SpeculateGreedy
<1>3. CASE UNCHANGED vars
  <2>1. phase' = phase /\ out' = out /\ pending' = pending
    BY <1>3 DEF vars
  <2>2. GInv'
    BY <2>1 DEF GInv, RequestPart, History
  <2>3. UNCHANGED Greedy!vars
    BY <2>1 DEF Greedy!vars
  <2> QED BY <2>2, <2>3
<1> QED BY <1>1, <1>2, <1>3 DEF Next

\* What waits to go out is always the token the model picks next.
THEOREM PendingIsGreedy == Spec => []GInv
<1>1. Init => GInv
  BY GreedyStarts
<1>2. GInv /\ [Next]_vars => GInv'
  BY GreedyStep
<1> QED BY <1>1, <1>2, PTL DEF Spec

\* Speculation is exact.
THEOREM SpeculationExact == Spec => ImplementsGreedy
<1>1. Init => Greedy!Init
  BY GreedyStarts
<1>2. GInv /\ [Next]_vars => [Greedy!Emit]_(Greedy!vars)
  BY GreedyStep
<1> QED BY <1>1, <1>2, PendingIsGreedy, PTL DEF Spec, ImplementsGreedy, Greedy!Spec

-----------------------------------------------------------------------------
(* Texts only grow.                                                        *)

\* What a request has read and reads next only ever grows.
Grows(id) == \E t : AnySeq(t) /\ Known(id)' = Known(id) \o t

\* The texts of a request are sequences.
LEMMA KnownSeq ==
  ASSUME GInv, NEW id \in Ids
  PROVE  /\ AnySeq(Prompt[id]) /\ AnySeq(out[id]) /\ AnySeq(pending[id])
         /\ AnySeq(History(id)) /\ AnySeq(Known(id))
         /\ Len(Prompt[id]) \in Nat /\ Len(Prompt[id]) > 0
         /\ Len(History(id)) \in Nat /\ Len(Prompt[id]) <= Len(History(id))
         /\ Len(Known(id)) = Len(History(id)) + Len(pending[id])
         /\ Len(pending[id]) = IF phase[id] = "decode" THEN 1 ELSE 0
<1>1. PICK p, o, q : p = Prompt[id] /\ o = out[id] /\ q = pending[id]
  OBVIOUS
<1>2. AnySeq(p) /\ AnySeq(o)
  BY <1>1, DraftingAssumption DEF GInv, RequestPart, AnySeq
<1>3. AnySeq(q) /\ Len(q) = IF phase[id] = "decode" THEN 1 ELSE 0
  BY <1>1, ShortSeqs DEF GInv, RequestPart
<1>4. PICK h : h = p \o o
  OBVIOUS
<1>5. AnySeq(h) /\ Len(p) \in Nat /\ Len(o) \in Nat /\ Len(h) = Len(p) + Len(o)
  BY <1>2, <1>4, JoinedSeqs
<1>6. AnySeq(h \o q) /\ Len(h \o q) = Len(h) + Len(q)
  BY <1>3, <1>5, JoinedSeqs
<1>7. Len(p) > 0
  BY <1>1, DraftingAssumption
<1>8. Len(h) \in Nat /\ Len(p) <= Len(h)
  BY <1>5
<1>9. History(id) = h /\ Known(id) = h \o q
  BY <1>1, <1>4 DEF History, Known
<1> QED BY <1>1, <1>2, <1>3, <1>5, <1>6, <1>7, <1>8, <1>9

\* One text after another.
Join(s, t) == s \o t

\* Joining is associative.
LEMMA Regrouped ==
  /\ \A s, t : AnySeq(s) /\ AnySeq(t) => AnySeq(Join(s, t))
  /\ \A s, t, u : AnySeq(s) /\ AnySeq(t) /\ AnySeq(u) =>
                   Join(Join(s, t), u) = Join(s, Join(t, u))
<1>1. \A s, t : AnySeq(s) /\ AnySeq(t) => AnySeq(Join(s, t))
  BY JoinedSeqs DEF Join
<1>2. \A s, t, u : AnySeq(s) /\ AnySeq(t) /\ AnySeq(u) => (s \o t) \o u = s \o (t \o u)
  BY JoinedThrice
<1> QED BY <1>1, <1>2 DEF Join

\* Texts joined in whatever order.
LEMMA GrownBy ==
  ASSUME NEW p, NEW o, NEW q, NEW v, NEW w,
         AnySeq(p) /\ AnySeq(o) /\ AnySeq(q) /\ AnySeq(v) /\ AnySeq(w)
  PROVE  /\ AnySeq(v \o w)
         /\ (p \o (o \o (q \o v))) \o w = ((p \o o) \o q) \o (v \o w)
<1>1. AnySeq(Join(p, o)) /\ AnySeq(Join(q, v)) /\ AnySeq(Join(v, w))
  BY Regrouped
<1>2. AnySeq(Join(Join(p, o), q))
  BY <1>1, Regrouped
<1>3. Join(p, Join(o, Join(q, v))) = Join(Join(p, o), Join(q, v))
  BY <1>1, Regrouped
<1>4. Join(Join(p, o), Join(q, v)) = Join(Join(Join(p, o), q), v)
  BY <1>1, Regrouped
<1>5. Join(Join(Join(Join(p, o), q), v), w) = Join(Join(Join(p, o), q), Join(v, w))
  BY <1>2, Regrouped
<1>6. /\ AnySeq(Join(v, w))
      /\ Join(Join(p, Join(o, Join(q, v))), w) = Join(Join(Join(p, o), q), Join(v, w))
  BY <1>1, <1>3, <1>4, <1>5
<1> QED BY <1>6 DEF Join

\* What a step that is not speculative does: P is its chunks, over the requests that end.
Runs(P, over) ==
  /\ P \in Batches /\ over \subseteq Decoding
  /\ phase' = [id \in Ids |->
       IF id \in over THEN "over"
       ELSE IF \E c \in P : c.id = id
       THEN IF \E c \in P : c.id = id /\ Completes(c) THEN "decode" ELSE "prefill"
       ELSE phase[id]]
  /\ \A id \in Ids : done'[id] = done[id] \/ \E c \in P : c.id = id
       /\ done'[id] = c.offset + c.tokens
  /\ out' = [id \in Ids |-> IF id \in Decoding THEN out[id] \o pending[id] ELSE out[id]]
  /\ pending' = [id \in Ids |->
       IF id \in over THEN <<>>
       ELSE IF Sampled(P, id) # <<>> THEN Sampled(P, id) ELSE pending[id]]
  /\ \/ /\ P = {} /\ Cardinality(Decoding) = 1
        /\ \E id \in Decoding : /\ head' = [head EXCEPT !.hidden = <<Known(id)>>]
                                /\ headTokens' = Sampled(P, id)
        /\ hiddenFor' = Decoding \ over
     \/ /\ head' = head \/ \E c \in P :
             head' = Prime(Bind(head, c.id), c.id, c.offset, c.tokens, Sampled(P, c.id))
        /\ hiddenFor' = {}

\* A step that is not speculative runs the chunks of a batch, of requests that do not decode.
LEMMA RegularFacts ==
  ASSUME GInv, Regular
  PROVE  \E P, over : Runs(P, over)
<1>1. PICK P \in Batches, gone \in SUBSET Decoding :
       LET chunk == [id \in {c.id : c \in P} |-> CHOOSE c \in P : c.id = id]
           over == {id \in Decoding : Ends(id, pending[id], gone)}
       IN  /\ P = {} => Decoding # {} /\ \A id \in Decoding : DraftDepth(id) = 0
           /\ phase' = [id \in Ids |->
                IF id \in over THEN "over"
                ELSE IF id \in DOMAIN chunk
                THEN IF Completes(chunk[id]) THEN "decode" ELSE "prefill"
                ELSE phase[id]]
           /\ done' = [id \in Ids |->
                IF id \in DOMAIN chunk THEN chunk[id].offset + chunk[id].tokens ELSE done[id]]
           /\ out' = [id \in Ids |-> IF id \in Decoding THEN out[id] \o pending[id] ELSE out[id]]
           /\ pending' = [id \in Ids |->
                IF id \in over THEN <<>>
                ELSE IF Sampled(P, id) # <<>> THEN Sampled(P, id) ELSE pending[id]]
           /\ IF P = {} /\ Cardinality(Decoding) = 1
              THEN LET id == CHOOSE id \in Decoding : TRUE
                   IN  /\ head' = [head EXCEPT !.hidden = <<Known(id)>>]
                       /\ headTokens' = Sampled(P, id)
                       /\ hiddenFor' = Decoding \ over
              ELSE /\ PrimeHead(P)
                   /\ hiddenFor' = {}
                   /\ UNCHANGED headTokens
  BY Zenon DEF Regular
<1>2. PICK chunk : chunk = [id \in {c.id : c \in P} |-> CHOOSE c \in P : c.id = id]
  OBVIOUS
<1>3. PICK over : over = {id \in Decoding : Ends(id, pending[id], gone)}
  OBVIOUS
<1>4. /\ phase' = [id \in Ids |->
           IF id \in over THEN "over"
           ELSE IF id \in DOMAIN chunk
           THEN IF Completes(chunk[id]) THEN "decode" ELSE "prefill"
           ELSE phase[id]]
      /\ done' = [id \in Ids |->
           IF id \in DOMAIN chunk THEN chunk[id].offset + chunk[id].tokens ELSE done[id]]
      /\ out' = [id \in Ids |-> IF id \in Decoding THEN out[id] \o pending[id] ELSE out[id]]
      /\ pending' = [id \in Ids |->
           IF id \in over THEN <<>>
           ELSE IF Sampled(P, id) # <<>> THEN Sampled(P, id) ELSE pending[id]]
  BY <1>1, <1>2, <1>3
<1>5. IF P = {} /\ Cardinality(Decoding) = 1
      THEN LET id == CHOOSE id \in Decoding : TRUE
           IN  /\ head' = [head EXCEPT !.hidden = <<Known(id)>>]
               /\ headTokens' = Sampled(P, id)
               /\ hiddenFor' = Decoding \ over
      ELSE PrimeHead(P) /\ hiddenFor' = {}
  BY <1>1, <1>3
<1>6. \A c, d \in P : c.id = d.id => c = d
  BY DEF Batches
<1>7. /\ DOMAIN chunk = {c.id : c \in P}
      /\ \A c \in P : chunk[c.id] = c
  <2>1. ASSUME NEW c \in P PROVE (CHOOSE d \in P : d.id = c.id) = c
    BY <1>6
  <2> QED BY <1>2, <2>1
<1>8. phase' = [id \in Ids |->
        IF id \in over THEN "over"
        ELSE IF \E c \in P : c.id = id
        THEN IF \E c \in P : c.id = id /\ Completes(c) THEN "decode" ELSE "prefill"
        ELSE phase[id]]
  <2>1. ASSUME NEW id \in Ids
        PROVE  /\ id \in DOMAIN chunk <=> \E c \in P : c.id = id
               /\ id \in DOMAIN chunk =>
                    (Completes(chunk[id]) <=> \E c \in P : c.id = id /\ Completes(c))
    BY <1>6, <1>7
  <2>2. ASSUME NEW id \in Ids
        PROVE  phase'[id] = IF id \in over THEN "over"
                            ELSE IF \E c \in P : c.id = id
                            THEN IF \E c \in P : c.id = id /\ Completes(c) THEN "decode"
                                 ELSE "prefill"
                            ELSE phase[id]
    BY <1>4, <2>1
  <2> QED BY <1>4, <2>2
<1>9. ASSUME NEW id \in Ids
      PROVE  done'[id] = done[id] \/ \E c \in P : c.id = id /\ done'[id] = c.offset + c.tokens
  <2>1. CASE id \in DOMAIN chunk
    <3>1. PICK c \in P : c.id = id
      BY <1>7, <2>1
    <3> QED BY <1>4, <1>7, <2>1, <3>1
  <2>2. CASE id \notin DOMAIN chunk
    BY <1>4, <2>2
  <2> QED BY <2>1, <2>2
<1>10. CASE P = {} /\ Cardinality(Decoding) = 1
  <2>1. PICK i : i = CHOOSE id \in Decoding : TRUE
    OBVIOUS
  <2>2. i \in Decoding
    <3>1. IsFiniteSet(Decoding)
      <4>1. IsFiniteSet(Ids) /\ Decoding \subseteq Ids
        BY DraftingAssumption DEF Decoding
      <4> QED BY <4>1, FS_Subset
    <3>2. PICK x : Decoding = {x}
      BY <1>10, <3>1, FS_Singleton
    <3> QED BY <2>1, <3>2
  <2>3. /\ head' = [head EXCEPT !.hidden = <<Known(i)>>]
        /\ headTokens' = Sampled(P, i)
        /\ hiddenFor' = Decoding \ over
    BY <1>5, <1>10, <2>1
  <2>4. Runs(P, over)
    BY <1>3, <1>4, <1>8, <1>9, <1>10, <2>2, <2>3 DEF Runs
  <2> QED BY <2>4
<1>11. CASE ~(P = {} /\ Cardinality(Decoding) = 1)
  <2>1. PrimeHead(P) /\ hiddenFor' = {}
    BY <1>5, <1>11
  <2>2. head' = head \/ \E c \in P :
             head' = Prime(Bind(head, c.id), c.id, c.offset, c.tokens, Sampled(P, c.id))
    BY <2>1 DEF PrimeHead
  <2>3. Runs(P, over)
    BY <1>3, <1>4, <1>8, <1>9, <2>1, <2>2 DEF Runs
  <2> QED BY <2>3
<1> QED BY <1>10, <1>11

\* The chunks of a batch are parts of prompts that do not decode.
LEMMA ChunkFacts ==
  ASSUME NEW P \in Batches, NEW c \in P
  PROVE  /\ c.id \in Ids /\ c.offset \in Nat /\ c.tokens \in Nat /\ c.tokens > 0
         /\ c.offset + c.tokens <= Len(Prompt[c.id])
         /\ phase[c.id] \in {"waiting", "prefill"} /\ c.id \notin Decoding
         /\ \A d \in P : d.id = c.id => d = c
<1>1. c \in Chunks /\ \A d \in P : d.id = c.id => d = c
  BY DEF Batches
<1>2. /\ c.id \in Ids /\ c.offset \in 0..MaxContext /\ c.tokens \in 1..MaxContext
      /\ c.offset + c.tokens <= Len(Prompt[c.id])
      /\ phase[c.id] \in {"waiting", "prefill"}
  BY <1>1 DEF Chunks
<1>3. c.id \notin Decoding
  BY <1>2 DEF Decoding
<1>4. c.offset \in Nat /\ c.tokens \in Nat /\ c.tokens > 0
  BY <1>2, DraftingAssumption
<1> QED BY <1>1, <1>2, <1>3, <1>4

\* A text grows by what is sampled for it, or stays as it is where the request ends.
LEMMA RunsGrow ==
  ASSUME GInv, NEW P, NEW over, Runs(P, over), NEW id \in Ids
  PROVE  /\ AnySeq(Sampled(P, id))
         /\ Known(id)' = IF id \in over THEN Known(id) ELSE Known(id) \o Sampled(P, id)
<1>1. AnySeq(Sampled(P, id))
  BY ShortSeqs DEF Sampled
<1>2. /\ out'[id] = IF id \in Decoding THEN out[id] \o pending[id] ELSE out[id]
      /\ pending'[id] = IF id \in over THEN <<>>
                        ELSE IF Sampled(P, id) # <<>> THEN Sampled(P, id) ELSE pending[id]
      /\ over \subseteq Decoding
  BY DEF Runs
<1>3. Known(id)' = (Prompt[id] \o out'[id]) \o pending'[id]
  BY DEF Known, History
<1>4. AnySeq(Known(id)) /\ AnySeq(pending[id]) /\ AnySeq(History(id))
  BY KnownSeq
<1>5. CASE id \in Decoding
  <2>1. Prompt[id] \o out'[id] = Known(id)
    <3>1. Prompt[id] \o (out[id] \o pending[id]) = History(id) \o pending[id]
      BY <1>4, HistoryGrows
    <3> QED BY <1>2, <1>5, <3>1 DEF Known
  <2>2. Sampled(P, id) # <<>>
    BY <1>5 DEF Sampled
  <2>3. Known(id) \o <<>> = Known(id)
    BY <1>4, JoinedThrice
  <2> QED BY <1>1, <1>2, <1>3, <2>1, <2>2, <2>3
<1>6. CASE id \notin Decoding
  <2>1. pending[id] = <<>> /\ id \notin over /\ out'[id] = out[id]
    BY <1>2, <1>6 DEF GInv, RequestPart, Decoding
  <2>2. pending'[id] = Sampled(P, id)
    BY <1>2, <2>1
  <2>3. History(id) \o <<>> = History(id)
    BY <1>4, JoinedThrice
  <2>4. Known(id) = History(id)
    BY <2>1, <2>3 DEF Known
  <2> QED BY <1>1, <1>3, <2>1, <2>2, <2>4 DEF History
<1> QED BY <1>5, <1>6

\* A request's text grows: by u and then x, unless the request is over.
GrowsBy(id, u, x, over) ==
  /\ AnySeq(Known(id)) /\ AnySeq(u) /\ Grows(id)
  /\ ~over => Known(id)' = Known(id) \o (u \o <<x>>)

\* u is what is kept of truth, and x is what comes after it.
KeptOf(truth, kept, u, x) == u = SubSeq(truth, 1, kept) /\ x = truth[kept + 1]

\* So does a text in a speculative step: by the drafts that are kept and what goes after them.
LEMMA SpeculatesGrow ==
  ASSUME GInv, NEW id \in Ids, NEW drafts, NEW truth, NEW kept, NEW full, NEW produced, NEW r,
       NEW over,
         Speculates(id, drafts, truth, kept, full, produced, r, over),
         NEW u, NEW x, KeptOf(truth, kept, u, x)
  PROVE  GrowsBy(id, u, x, over)
<1>2. AnySeq(u) /\ Len(u) = kept /\ kept \in Nat
  <2>1. AnySeq(truth) /\ kept < Len(truth) /\ Len(truth) \in Nat /\ kept \in Nat
    BY DEF Speculates
  <2>2. kept \in 0..Len(truth)
    BY <2>1
  <2> QED BY <2>1, <2>2, Begun DEF KeptOf
<1>3. PICK q : q = pending[id]
  OBVIOUS
<1>4. /\ full = q \o u /\ AnySeq(full) /\ Len(full) = kept + 1
      /\ r \in 1..Len(full) /\ produced = SubSeq(full, 1, r)
      /\ over \in BOOLEAN /\ (over \/ r = Len(full)) /\ phase[id] = "decode"
      /\ out' = [out EXCEPT ![id] = @ \o produced]
      /\ pending' = [pending EXCEPT ![id] = IF over THEN <<>> ELSE <<truth[kept + 1]>>]
  BY <1>3 DEF Speculates, KeptOf
<1>5. AnySeq(q) /\ Len(q) = 1 /\ AnySeq(Known(id))
  BY <1>3, <1>4, KnownSeq
<1>6. PICK v : v = SubSeq(u, 1, r - 1)
  OBVIOUS
<1>7. r - 1 \in 0..kept /\ r - 1 \in 0..Len(u) /\ Len(q) + (r - 1) = r /\ r - 1 \in Nat
  BY <1>2, <1>4, <1>5
<1>8. AnySeq(v) /\ (r = Len(full) => v = u)
  <2>1. AnySeq(v)
    BY <1>2, <1>6, <1>7, Begun
  <2>2. SubSeq(u, 1, Len(u)) = u
    BY <1>2, <1>7, Begun
  <2>3. r = Len(full) => r - 1 = Len(u)
    BY <1>2, <1>4
  <2> QED BY <1>6, <2>1, <2>2, <2>3
<1>9. produced = q \o v
  <2>1. SubSeq(q \o u, 1, Len(q) + (r - 1)) = q \o SubSeq(u, 1, r - 1)
    BY <1>2, <1>5, <1>7, BegunJoined
  <2> QED BY <1>4, <1>6, <1>7, <2>1
<1>10. PICK w : w = IF over THEN <<>> ELSE <<truth[kept + 1]>>
  OBVIOUS
<1>11. AnySeq(w)
  BY <1>10, ShortSeqs
<1>12. PICK p, o : p = Prompt[id] /\ o = out[id]
  OBVIOUS
<1>13. AnySeq(p) /\ AnySeq(o)
  BY <1>12, KnownSeq
<1>14. /\ AnySeq(v \o w)
       /\ (p \o (o \o (q \o v))) \o w = ((p \o o) \o q) \o (v \o w)
  BY <1>5, <1>8, <1>11, <1>13, GrownBy
<1>15. Known(id)' = (p \o (o \o (q \o v))) \o w
  <2>1. out'[id] = o \o (q \o v) /\ pending'[id] = w
    BY <1>4, <1>9, <1>10, <1>12 DEF GInv
  <2> QED BY <1>12, <2>1 DEF Known, History
<1>16. Known(id) = (p \o o) \o q
  BY <1>3, <1>12 DEF Known, History
<1>17. Known(id)' = Known(id) \o (v \o w)
  BY <1>14, <1>15, <1>16
<1>18. Grows(id)
  BY <1>14, <1>17 DEF Grows
<1>19. ~over => v = u /\ w = <<x>>
  BY <1>4, <1>8, <1>10 DEF KeptOf
<1>20. ~over => Known(id)' = Known(id) \o (u \o <<x>>)
  BY Zenon, <1>17, <1>19
<1> QED BY <1>2, <1>5, <1>18, <1>20 DEF GrowsBy

-----------------------------------------------------------------------------
(* The shortlist.                                                          *)

\* g[U] is what is left of b once the elements of s at the places of U are pushed in their order.
Pushing(b, s, D, g) ==
  g = [U \in D |-> IF U = {} THEN b ELSE Push(g[U \ {Max(U)}], s[Max(U)])]

\* Pushing is defined: some function satisfies its recursion on the subsets of S.
LEMMA PushingExists ==
  ASSUME NEW b, NEW s, NEW S \in SUBSET Nat, IsFiniteSet(S)
  PROVE  \E g : Pushing(b, s, SUBSET S, g)
<1> DEFINE T == {n \in Nat : \E g : Pushing(b, s, Smaller(S, n), g)}
<1>0. \A U \in SUBSET S : IsFiniteSet(U) /\ Cardinality(U) \in Nat
           /\ Cardinality(U) <= Cardinality(S)
  BY FS_Subset, FS_CardinalityType
<1>a. \A U \in SUBSET S : U # {} =>
        /\ Max(U) \in U /\ U \ {Max(U)} \in SUBSET S
        /\ Cardinality(U \ {Max(U)}) = Cardinality(U) - 1
  <2> SUFFICES ASSUME NEW U \in SUBSET S, U # {}
               PROVE  /\ Max(U) \in U /\ U \ {Max(U)} \in SUBSET S
                      /\ Cardinality(U \ {Max(U)}) = Cardinality(U) - 1
    OBVIOUS
  <2>1. IsFiniteSet(U) /\ U \in SUBSET Nat
    BY <1>0
  <2>2. Max(U) \in U
    BY <2>1, MaxOfNats
  <2>3. Cardinality(U \ {Max(U)}) = Cardinality(U) - 1
    BY <2>1, <2>2, FS_RemoveElement
  <2> QED BY <2>2, <2>3
<1>1. 0 \in T
  <2> DEFINE g == [U \in Smaller(S, 0) |-> b]
  <2>1. \A U \in Smaller(S, 0) : U = {}
    BY <1>0, FS_EmptySet DEF Smaller
  <2>2. Pushing(b, s, Smaller(S, 0), g)
    BY <2>1 DEF Pushing
  <2> QED BY <2>2
<1>2. ASSUME NEW n \in Nat, n \in T PROVE n + 1 \in T
  <2>1. PICK g : Pushing(b, s, Smaller(S, n), g)
    BY <1>2
  <2> DEFINE h == [U \in Smaller(S, n + 1) |->
                     IF U = {} THEN b ELSE Push(g[U \ {Max(U)}], s[Max(U)])]
  <2>2. ASSUME NEW U \in Smaller(S, n) PROVE h[U] = g[U]
    <3>1. U \in Smaller(S, n + 1)
      BY <1>0 DEF Smaller
    <3> QED BY <2>1, <3>1 DEF Pushing
  <2>3. ASSUME NEW U \in Smaller(S, n + 1), U # {} PROVE U \ {Max(U)} \in Smaller(S, n)
    BY <1>0, <1>a, <2>3 DEF Smaller
  <2>4. Pushing(b, s, Smaller(S, n + 1), h)
    BY <2>2, <2>3 DEF Pushing
  <2> QED BY <2>4
<1>3. Cardinality(S) \in T
  <2> HIDE DEF T
  <2> QED BY <1>0, <1>1, <1>2, SetOfNaturals
<1>4. Smaller(S, Cardinality(S)) = SUBSET S
  BY <1>0 DEF Smaller
<1> QED BY <1>3, <1>4

\* What is left of b after a sequence is pushed.
PushAll(b, s) == FoldLeft(Push, b, s)

\* Pushing a whole sequence is pushing its elements one after the other.
LEMMA PushedAll ==
  ASSUME NEW b, NEW s, AnySeq(s)
  PROVE  \E h : /\ h[0] = b /\ PushAll(b, s) = h[Len(s)]
                /\ \A k \in 1..Len(s) : h[k] = Push(h[k - 1], s[k])
<1>1. PICK n : n = Len(s)
  OBVIOUS
<1>2. n \in Nat /\ DOMAIN s = 1..n
  <2>1. PICK A : s \in Seq(A)
    BY DEF AnySeq
  <2> QED BY <1>1, <2>1, LenProperties
<1>3. IsFiniteSet(1..n) /\ 1..n \in SUBSET Nat
  BY <1>2, FS_Interval
<1> DEFINE G == CHOOSE g : Pushing(b, s, SUBSET (1..n), g)
<1>4. Pushing(b, s, SUBSET (1..n), G)
  BY <1>3, PushingExists
<1>5. PushAll(b, s) = G[1..n]
  BY <1>2 DEF PushAll, FoldLeft, MapThenFoldSet, Pushing
<1> HIDE DEF G
<1> DEFINE h == [k \in 0..n |-> G[1..k]]
<1>6. h[0] = b
  <2>1. {} \in SUBSET (1..n) /\ 1..0 = {} /\ 0 \in 0..n
    BY <1>2
  <2>2. G[{}] = b
    BY <1>4, <2>1 DEF Pushing
  <2> QED BY <2>1, <2>2
<1>7. h[n] = G[1..n]
  BY <1>2
<1>8. ASSUME NEW k \in 1..n PROVE h[k] = Push(h[k - 1], s[k])
  <2>1. 1..k \in SUBSET (1..n) /\ k \in 1..k /\ k \in 0..n /\ k - 1 \in 0..n
        /\ (1..k) \ {k} = 1..(k - 1)
    BY <1>2
  <2>2. Max(1..k) = k
    <3>1. 1..k \in SUBSET Nat /\ IsFiniteSet(1..k) /\ 1..k # {}
      <4>1. 1..k \in SUBSET Nat /\ 1..k # {}
        BY <1>2, <2>1
      <4>2. IsFiniteSet(1..k)
        BY <1>3, <2>1, FS_Subset
      <4> QED BY <4>1, <4>2
    <3>2. Max(1..k) \in 1..k /\ \A i \in 1..k : i <= Max(1..k)
      BY <3>1, MaxOfNats
    <3> QED BY <2>1, <3>2
  <2>3. G[1..k] = Push(G[(1..k) \ {Max(1..k)}], s[Max(1..k)])
    BY <1>4, <2>1 DEF Pushing
  <2> QED BY <2>1, <2>2, <2>3
<1> HIDE DEF h
<1> QED BY <1>1, <1>5, <1>6, <1>7, <1>8

\* The head is a record with the fields of the Speculator.
HeadShape(h) ==
  h = [owner |-> h.owner, prompt |-> h.prompt, kv |-> h.kv, hidden |-> h.hidden,
       list |-> h.list, device |-> h.device, dirty |-> h.dirty]

\* The lists of g have all of h's and the rest of the head is the same.
Pushed(h, g) ==
  /\ HeadShape(g) /\ AnySeq(g.list) /\ IsInjective(g.list)
  /\ g.owner = h.owner /\ g.prompt = h.prompt /\ g.kv = h.kv /\ g.hidden = h.hidden
  /\ g.device = h.device /\ ToSet(h.list) \subseteq ToSet(g.list)
  /\ ~g.dirty => ~h.dirty /\ g.list = h.list

\* Shortlist::push adds a token that is not there yet and fits.
LEMMA PushFacts ==
  ASSUME NEW h, HeadShape(h), AnySeq(h.list), IsInjective(h.list), NEW t, NEW g, g = Push(h, t)
  PROVE  /\ Pushed(h, g) /\ Len(g.list) \in Nat /\ Len(g.list) <= Len(h.list) + 1
         /\ Len(h.list) < Capacity => t \in ToSet(g.list)
<1>1. PICK l : l = h.list
  OBVIOUS
<1>2. PICK A : l \in Seq(A)
  BY <1>1 DEF AnySeq
<1>3. PICK B : B = A \cup {t}
  OBVIOUS
<1>4. l \in Seq(B) /\ t \in B /\ Len(l) \in Nat /\ DOMAIN l = 1..Len(l)
  <2>1. A \subseteq B /\ t \in B
    BY <1>3
  <2>2. l \in Seq(B)
    BY <1>2, <2>1, SeqDef
  <2> QED BY <2>1, <2>2, LenProperties
<1>5. ToSet(l) = Range(l) /\ (Contains(l, t) <=> t \in Range(l))
  BY <1>4 DEF ToSet, Range, Contains
<1>6. CASE Len(h.list) < Capacity /\ ~Contains(h.list, t)
  <2>1. g = [h EXCEPT !.list = Append(@, t), !.dirty = TRUE]
    BY <1>6 DEF Push
  <2>2. g = [owner |-> h.owner, prompt |-> h.prompt, kv |-> h.kv, hidden |-> h.hidden,
             list |-> Append(l, t), device |-> h.device, dirty |-> TRUE]
    BY <1>1, <2>1 DEF HeadShape
  <2>3. /\ Append(l, t) \in Seq(B) /\ IsInjective(Append(l, t)) /\ Len(Append(l, t)) = Len(l) + 1
        /\ Range(Append(l, t)) = Range(l) \cup {t}
    BY <1>1, <1>4, <1>5, <1>6, QueueAppend
  <2>4. ToSet(Append(l, t)) = Range(Append(l, t))
    BY DEF ToSet, Range
  <2>5. HeadShape(g)
    BY <2>2 DEF HeadShape
  <2>6. Pushed(h, g)
    BY <1>1, <1>5, <2>2, <2>3, <2>4, <2>5 DEF Pushed, AnySeq
  <2> QED BY <1>1, <1>4, <2>2, <2>3, <2>4, <2>6
<1>7. CASE ~(Len(h.list) < Capacity /\ ~Contains(h.list, t))
  <2>1. g = h
    BY <1>7 DEF Push
  <2>2. Pushed(h, g)
    BY <2>1 DEF Pushed
  <2> QED BY <1>1, <1>4, <1>5, <1>7, <2>1, <2>2
<1> QED BY <1>6, <1>7

\* So do as many pushes as there are tokens: all that fit are in the list.
LEMMA PushedFacts ==
  ASSUME NEW b, HeadShape(b), AnySeq(b.list), IsInjective(b.list), NEW s, AnySeq(s),
         NEW g, g = PushAll(b, s)
  PROVE  /\ Pushed(b, g)
         /\ Len(b.list) + Len(s) <= Capacity => \A i \in 1..Len(s) : s[i] \in ToSet(g.list)
<1>1. PICK n, m : n = Len(s) /\ m = Len(b.list)
  OBVIOUS
<1>2. n \in Nat /\ m \in Nat
  BY <1>1, JoinedSeqs
<1>3. PICK h : /\ h[0] = b /\ g = h[n]
               /\ \A k \in 1..n : h[k] = Push(h[k - 1], s[k])
  BY <1>1, PushedAll
<1> DEFINE Good(k) == /\ Pushed(b, h[k]) /\ Len(h[k].list) \in Nat /\ Len(h[k].list) <= m + k
                      /\ m + n <= Capacity => \A i \in 1..k : s[i] \in ToSet(h[k].list)
           T == {k \in Nat : k <= n => Good(k)}
<1>4. 0 \in T
  <2>1. Pushed(b, b)
    BY DEF Pushed
  <2>2. h[0] = b /\ Len(b.list) <= m + 0 /\ Len(b.list) \in Nat
    BY <1>1, <1>2, <1>3
  <2>3. Pushed(b, h[0]) /\ Len(h[0].list) \in Nat /\ Len(h[0].list) <= m + 0
    BY <2>1, <2>2
  <2>4. \A i \in 1..0 : s[i] \in ToSet(h[0].list)
    OBVIOUS
  <2>5. Good(0)
    BY <2>3, <2>4
  <2> HIDE DEF Good
  <2> QED BY <2>5
<1>5. ASSUME NEW k \in Nat, k \in T PROVE k + 1 \in T
  <2> SUFFICES ASSUME k + 1 <= n PROVE Good(k + 1)
    OBVIOUS
  <2>1. k + 1 \in 1..n /\ k + 1 - 1 = k /\ k <= n
    BY <1>2
  <2>2. PICK x, y : x = h[k] /\ y = h[k + 1]
    OBVIOUS
  <2>3. Pushed(b, x) /\ Len(x.list) \in Nat /\ Len(x.list) <= m + k
        /\ (m + n <= Capacity => \A i \in 1..k : s[i] \in ToSet(x.list))
    BY <1>5, <2>1, <2>2
  <2>4. y = Push(x, s[k + 1])
    BY <1>3, <2>1, <2>2
  <2>5. /\ Pushed(x, y) /\ Len(y.list) \in Nat /\ Len(y.list) <= Len(x.list) + 1
        /\ Len(x.list) < Capacity => s[k + 1] \in ToSet(y.list)
    <3>1. HeadShape(x) /\ AnySeq(x.list) /\ IsInjective(x.list)
      BY <2>3 DEF Pushed
    <3> QED BY <2>4, <3>1, PushFacts
  <2>6. Pushed(b, y)
    BY <2>3, <2>5 DEF Pushed
  <2>7. Len(y.list) <= m + (k + 1)
    BY <1>2, <2>3, <2>5
  <2>8. ASSUME m + n <= Capacity, NEW i \in 1..(k + 1) PROVE s[i] \in ToSet(y.list)
    <3>1. CASE i \in 1..k
      BY <2>3, <2>5, <2>8, <3>1 DEF Pushed
    <3>2. CASE i = k + 1
      <4>1. Len(x.list) < m + n
        BY <1>2, <2>1, <2>3
      <4>2. Capacity \in Int
        <5>1. Len(Frequent) \in Nat
          BY DraftingAssumption
        <5> QED BY <5>1, DraftingAssumption DEF Capacity
      <4>3. Len(x.list) < Capacity
        BY <1>2, <2>3, <2>8, <4>1, <4>2
      <4> QED BY <2>5, <3>2, <4>3
    <3> QED BY <3>1, <3>2
  <2> QED BY <2>2, <2>5, <2>6, <2>7, <2>8
<1>6. n \in T
  <2> HIDE DEF T
  <2>1. Nat \subseteq T
    BY <1>4, <1>5, SetOfNaturals
  <2> QED BY <1>2, <2>1
<1> QED BY <1>1, <1>2, <1>3, <1>6

\* The shortlist of h is complete, and the device has it unless h is dirty.
ListOk(h) ==
  /\ HeadShape(h) /\ AnySeq(h.list) /\ IsInjective(h.list)
  /\ ~h.dirty => h.device = h.list
  /\ h.owner # {} => ToSet(Frequent) \subseteq ToSet(h.list)
       /\ ToSet(h.prompt) \subseteq ToSet(h.list)

\* Pushing keeps it so.
LEMMA PushedOk ==
  ASSUME NEW h, NEW g, ListOk(h), Pushed(h, g)
  PROVE  ListOk(g)
BY DEF ListOk, Pushed

\* r is t after s.
JoinedParts(r, s, t) ==
  /\ AnySeq(r) /\ Len(s) \in Nat /\ Len(t) \in Nat /\ Len(r) = Len(s) + Len(t)
  /\ \A i \in 1..Len(s) : r[i] = s[i]
  /\ \A i \in 1..Len(t) : r[Len(s) + i] = t[i]

\* One sequence after another, by its parts.
LEMMA JoinedTo ==
  ASSUME NEW s, AnySeq(s), NEW t, AnySeq(t), NEW r, r = s \o t
  PROVE  JoinedParts(r, s, t)
<1>1. AnySeq(s \o t) /\ Len(s) \in Nat /\ Len(t) \in Nat /\ Len(s \o t) = Len(s) + Len(t)
  BY JoinedSeqs
<1>2. \A i \in 1..Len(s) : (s \o t)[i] = s[i]
  BY JoinedSeqs
<1>3. \A i \in 1..Len(t) : (s \o t)[Len(s) + i] = t[i]
  BY JoinedSeqs
<1> QED BY <1>1, <1>2, <1>3 DEF JoinedParts

\* g is h with a list that is right.
Relisted(g, h) ==
  /\ ListOk(g) /\ g.owner = h.owner /\ g.prompt = h.prompt /\ g.kv = h.kv
  /\ g.hidden = h.hidden

\* Shortlist::reset: the list has the context and the frequent tokens.
LEMMA SetContextFacts ==
  ASSUME NEW h, HeadShape(h), NEW id \in Ids, h.prompt = Prompt[id],
         NEW g, g = SetContext(h, Prompt[id])
  PROVE  Relisted(g, h)
<1>0. PICK p, f : p = Prompt[id] /\ f = Frequent
  OBVIOUS
<1>1. PICK s : s = p \o f
  OBVIOUS
<1>2. AnySeq(p) /\ AnySeq(f) /\ Len(p) + MaxNew <= MaxContext
  BY <1>0, DraftingAssumption DEF AnySeq
<1>3. /\ AnySeq(s) /\ Len(p) \in Nat /\ Len(f) \in Nat /\ Len(s) = Len(p) + Len(f)
      /\ \A i \in 1..Len(p) : s[i] = p[i]
      /\ \A i \in 1..Len(f) : s[Len(p) + i] = f[i]
  <2>1. JoinedParts(s, p, f)
    BY <1>1, <1>2, JoinedTo
  <2> QED BY <2>1 DEF JoinedParts
<1>4. PICK b : b = [h EXCEPT !.list = <<>>]
  OBVIOUS
<1>5. b = [owner |-> h.owner, prompt |-> h.prompt, kv |-> h.kv, hidden |-> h.hidden,
           list |-> <<>>, device |-> h.device, dirty |-> h.dirty]
  BY <1>4 DEF HeadShape
<1>6. HeadShape(b) /\ AnySeq(b.list) /\ IsInjective(b.list) /\ Len(b.list) = 0
  <2>1. HeadShape(b) /\ b.list = <<>>
    BY <1>5 DEF HeadShape
  <2>2. IsInjective(<<>>)
    BY DEF IsInjective
  <2> QED BY <2>1, <2>2, ShortSeqs
<1>7. PICK x : x = PushAll(b, s)
  OBVIOUS
<1>8. g = [x EXCEPT !.dirty = TRUE]
  BY <1>0, <1>1, <1>4, <1>7 DEF SetContext, PushAll
<1>9. /\ Pushed(b, x)
      /\ Len(b.list) + Len(s) <= Capacity => \A i \in 1..Len(s) : s[i] \in ToSet(x.list)
  BY <1>3, <1>6, <1>7, PushedFacts
<1>10. Len(b.list) + Len(s) <= Capacity
  <2>1. Len(p) <= MaxContext /\ MaxContext \in Nat
    BY <1>2, <1>3, DraftingAssumption
  <2> QED BY <1>0, <1>3, <1>6, <2>1 DEF Capacity
<1>11. \A i \in 1..Len(p) : p[i] \in ToSet(x.list)
  <2> SUFFICES ASSUME NEW i \in 1..Len(p) PROVE p[i] \in ToSet(x.list)
    OBVIOUS
  <2>1. i \in 1..Len(s) /\ s[i] = p[i]
    BY <1>3
  <2> QED BY <1>9, <1>10, <2>1
<1>12. \A i \in 1..Len(f) : f[i] \in ToSet(x.list)
  <2> SUFFICES ASSUME NEW i \in 1..Len(f) PROVE f[i] \in ToSet(x.list)
    OBVIOUS
  <2>1. PICK j : j = Len(p) + i
    OBVIOUS
  <2>2. j \in 1..Len(s) /\ s[j] = f[i]
    BY <1>3, <2>1
  <2>3. s[j] \in ToSet(x.list)
    BY <1>9, <1>10, <2>2
  <2> QED BY <2>2, <2>3
<1>13. DOMAIN p = 1..Len(p) /\ DOMAIN f = 1..Len(f)
  <2>1. PICK A : p \in Seq(A)
    BY <1>2 DEF AnySeq
  <2>2. PICK B : f \in Seq(B)
    BY <1>2 DEF AnySeq
  <2> QED BY <2>1, <2>2, LenProperties
<1>14. ToSet(p) \subseteq ToSet(x.list)
  <2>1. \A y \in ToSet(p) : \E i \in 1..Len(p) : y = p[i]
    BY <1>13 DEF ToSet
  <2> QED BY <1>11, <2>1
<1>15. ToSet(f) \subseteq ToSet(x.list)
  <2>1. \A y \in ToSet(f) : \E i \in 1..Len(f) : y = f[i]
    BY <1>13 DEF ToSet
  <2> QED BY <1>12, <2>1
<1>16. /\ HeadShape(x) /\ AnySeq(x.list) /\ IsInjective(x.list)
       /\ x.owner = h.owner /\ x.prompt = h.prompt /\ x.kv = h.kv /\ x.hidden = h.hidden
  BY <1>5, <1>9 DEF Pushed
<1>17. g = [owner |-> x.owner, prompt |-> x.prompt, kv |-> x.kv, hidden |-> x.hidden,
            list |-> x.list, device |-> x.device, dirty |-> TRUE]
  BY <1>8, <1>16 DEF HeadShape
<1>18. HeadShape(g)
  BY <1>17 DEF HeadShape
<1> QED BY <1>0, <1>14, <1>15, <1>16, <1>17, <1>18 DEF ListOk, Relisted

\* The longest common prefix is one.
LEMMA CommonPrefixFacts ==
  ASSUME NEW s, AnySeq(s), NEW t, AnySeq(t), NEW n, n = CommonPrefix(s, t)
  PROVE  n \in Nat /\ n <= Len(s) /\ n <= Len(t) /\ SubSeq(s, 1, n) = SubSeq(t, 1, n)
<1>1. PICK m, k : m = Len(s) /\ k = Len(t)
  OBVIOUS
<1>2. m \in Nat /\ k \in Nat
  BY <1>1, JoinedSeqs
<1>3. \E i \in 0..m : /\ i <= k /\ SubSeq(s, 1, i) = SubSeq(t, 1, i)
                      /\ i < m /\ i < k => s[i + 1] # t[i + 1]
  <2> SUFFICES ASSUME \A i \in 0..m : i <= k /\ SubSeq(s, 1, i) = SubSeq(t, 1, i) =>
                                        i < m /\ i < k /\ s[i + 1] = t[i + 1]
               PROVE  FALSE
    OBVIOUS
  <2> DEFINE T == {i \in Nat : i <= m => i <= k /\ SubSeq(s, 1, i) = SubSeq(t, 1, i)}
  <2>1. 0 \in T
    <3>1. SubSeq(s, 1, 0) = <<>> /\ SubSeq(t, 1, 0) = <<>>
      <4>1. 0 \in 0..Len(s) /\ 0 \in 0..Len(t)
        BY <1>1, <1>2
      <4> QED BY <4>1, Begun
    <3> QED BY <1>2, <3>1
  <2>2. ASSUME NEW i \in Nat, i \in T PROVE i + 1 \in T
    <3> SUFFICES ASSUME i + 1 <= m
                 PROVE  i + 1 <= k /\ SubSeq(s, 1, i + 1) = SubSeq(t, 1, i + 1)
      OBVIOUS
    <3>1. i \in 0..m /\ i <= k /\ SubSeq(s, 1, i) = SubSeq(t, 1, i)
      BY <1>2, <2>2
    <3>2. i < m /\ i < k /\ s[i + 1] = t[i + 1]
      BY <3>1
    <3>3. SubSeq(s, 1, i + 1) = Append(SubSeq(s, 1, i), s[i + 1])
      BY <1>1, <3>2, BegunOneMore
    <3>4. SubSeq(t, 1, i + 1) = Append(SubSeq(t, 1, i), t[i + 1])
      BY <1>1, <3>2, BegunOneMore
    <3> QED BY <1>2, <3>1, <3>2, <3>3, <3>4
  <2>3. Nat \subseteq T
    <3> HIDE DEF T
    <3> QED BY <2>1, <2>2, SetOfNaturals
  <2>4. m \in T
    BY <1>2, <2>3
  <2>5. m <= k /\ SubSeq(s, 1, m) = SubSeq(t, 1, m)
    BY <1>2, <2>4
  <2>6. m \in 0..m
    BY <1>2
  <2>7. m < m
    BY <2>5, <2>6
  <2> QED BY <1>2, <2>7
<1>4. n = CHOOSE i \in 0..m : /\ i <= k /\ SubSeq(s, 1, i) = SubSeq(t, 1, i)
                              /\ i < m /\ i < k => s[i + 1] # t[i + 1]
  BY <1>1 DEF CommonPrefix
<1>5. n \in 0..m /\ n <= k /\ SubSeq(s, 1, n) = SubSeq(t, 1, n)
  BY <1>3, <1>4
<1> QED BY <1>1, <1>2, <1>5

\* A division rounds down.
LEMMA RoundedDown ==
  ASSUME NEW a \in Nat, NEW d \in Nat \ {0}
  PROVE  (a \div d) * d \in Nat /\ (a \div d) * d <= a
<1>1. PICK q : q = a \div d
  OBVIOUS
<1>2. q \in Nat /\ a = d * q + (a % d) /\ a % d \in Nat
  BY <1>1
<1> QED BY <1>1, <1>2

-----------------------------------------------------------------------------
(* The KV of the head.                                                     *)

\* What may be at position p of id's KV, whose text is k.
Cell(v, p, id, k) ==
  \/ v = Zero
  \/ p >= Len(Prompt[id]) /\ IsGuess(v, id)
  \/ p < Len(k) /\ v = SubSeq(k, 1, p + 1)

\* The head is id's, whose text is k.
Owned(h, id, k) ==
  /\ h.owner = {id} /\ h.prompt = Prompt[id] /\ DOMAIN h.kv = Positions
  /\ \A p \in Positions : Cell(h.kv[p], p, id, k)

\* The KV is that of a head that is id's.
KvOf(kv, id, k) == DOMAIN kv = Positions /\ \A p \in Positions : Cell(kv[p], p, id, k)

\* The tokens of k from pos on, each with the hidden state before it.
RowsOf(hid, toks, k, pos) ==
  \A i \in 1..Len(toks) : hid[i] = SubSeq(k, 1, pos + i - 1) /\ toks[i] = k[pos + i]

\* The head has not been used.
Unowned(h) ==
  /\ h.owner = {} /\ h.prompt = <<>> /\ DOMAIN h.kv = Positions
  /\ \A p \in Positions : h.kv[p] = Zero

\* What was right of a text is right of a longer one.
LEMMA CellGrows ==
  ASSUME NEW v, NEW p \in Positions, NEW id, NEW k, AnySeq(k), NEW t, AnySeq(t), NEW g, g = k \o t,
         Cell(v, p, id, k)
  PROVE  Cell(v, p, id, g)
<1>1. p \in Nat
  BY DraftingAssumption DEF Positions
<1>2. CASE p < Len(k) /\ v = SubSeq(k, 1, p + 1)
  <2>1. Len(k) \in Nat /\ Len(t) \in Nat /\ Len(g) = Len(k) + Len(t)
    <3>1. JoinedParts(g, k, t)
      BY JoinedTo
    <3> QED BY <3>1 DEF JoinedParts
  <2>2. p + 1 \in 0..Len(k)
    BY <1>1, <1>2, <2>1
  <2>3. SubSeq(k \o t, 1, p + 1) = SubSeq(k, 1, p + 1)
    BY <2>2, BegunBefore
  <2>4. p < Len(g)
    BY <1>1, <1>2, <2>1
  <2> QED BY <1>2, <2>3, <2>4 DEF Cell
<1> QED BY <1>2 DEF Cell

\* A pass over rows with the model's own hidden states writes what belongs there.
LEMMA PassReal ==
  ASSUME NEW k, AnySeq(k), NEW id, NEW kv, KvOf(kv, id, k), NEW hid, NEW toks,
         NEW n \in Nat, Len(toks) = n, NEW pos \in Nat, pos + n <= Len(k),
         RowsOf(hid, toks, k, pos), NEW g, g = Pass(kv, hid, toks, pos)
  PROVE  KvOf(g, id, k)
<1>1. g = [p \in Positions |->
             IF p \in pos..(pos + n - 1)
             THEN Append(hid[p - pos + 1], toks[p - pos + 1])
             ELSE kv[p]]
  BY DEF Pass
<1>2. ASSUME NEW p \in Positions PROVE Cell(g[p], p, id, k)
  <2>1. CASE p \in pos..(pos + n - 1)
    <3>1. p \in Nat /\ Len(k) \in Nat
      BY <2>1, JoinedSeqs
    <3>2. PICK i : i = p - pos + 1
      OBVIOUS
    <3>3. i \in 1..n /\ pos + i - 1 = p /\ pos + i = p + 1 /\ p < Len(k)
      BY <2>1, <3>1, <3>2
    <3>4. g[p] = Append(hid[i], toks[i])
      BY <1>1, <2>1, <3>2
    <3>5. hid[i] = SubSeq(k, 1, p) /\ toks[i] = k[p + 1]
      BY <3>3 DEF RowsOf
    <3>6. SubSeq(k, 1, p + 1) = Append(SubSeq(k, 1, p), k[p + 1])
      BY <3>1, <3>3, BegunOneMore
    <3>7. g[p] = SubSeq(k, 1, p + 1)
      BY <3>4, <3>5, <3>6
    <3> QED BY <3>3, <3>7 DEF Cell
  <2>2. CASE p \notin pos..(pos + n - 1)
    <3>1. g[p] = kv[p]
      BY <1>1, <2>2
    <3> QED BY <3>1 DEF KvOf
  <2> QED BY <2>1, <2>2
<1> QED BY <1>1, <1>2 DEF KvOf

\* One added to two.
LEMMA TwoAndOne ==
  ASSUME NEW A, NEW s \in Seq(A), Len(s) = 2, NEW x \in A, NEW r, r = Append(s, x)
  PROVE  r # <<>> /\ r[1] = s[1] /\ r[2] = s[2]
<1>1. r # <<>>
  BY AppendProperties
<1>2. \A i \in 1..Len(s) : r[i] = s[i]
  BY AppendProperties
<1> QED BY <1>1, <1>2

\* A pass over rows with the head's own output writes guesses.
LEMMA PassGuess ==
  ASSUME NEW k, NEW id \in Ids, NEW kv, KvOf(kv, id, k), NEW hid, NEW toks,
         NEW n \in Nat, Len(toks) = n, NEW pos \in Nat, Len(Prompt[id]) <= pos,
         \A i \in 1..n : hid[i] = <<Guess, id>>,
         NEW g, g = Pass(kv, hid, toks, pos)
  PROVE  KvOf(g, id, k)
<1>1. g = [p \in Positions |->
             IF p \in pos..(pos + n - 1)
             THEN Append(hid[p - pos + 1], toks[p - pos + 1])
             ELSE kv[p]]
  BY DEF Pass
<1>2. ASSUME NEW p \in Positions PROVE Cell(g[p], p, id, k)
  <2>1. CASE p \in pos..(pos + n - 1)
    <3>1. p \in Nat /\ p >= pos
      BY <2>1
    <3>2. PICK i : i = p - pos + 1
      OBVIOUS
    <3>3. i \in 1..n
      BY <2>1, <3>1, <3>2
    <3>4. PICK x : x = toks[i]
      OBVIOUS
    <3>5. g[p] = Append(<<Guess, id>>, x)
      BY <1>1, <2>1, <3>2, <3>3, <3>4
    <3>6. IsGuess(g[p], id)
      <4>1. PICK s : s = <<Guess, id>>
        OBVIOUS
      <4>2. PICK A : Guess \in A /\ id \in A /\ x \in A
        <5>1. Guess \in {Guess, id, x} /\ id \in {Guess, id, x} /\ x \in {Guess, id, x}
          OBVIOUS
        <5> QED BY <5>1
      <4>3. s \in Seq(A)
        BY <4>1, <4>2
      <4>3a. Len(s) = 2 /\ s[1] = Guess /\ s[2] = id
        BY <4>1
      <4>4. PICK r : r = Append(s, x)
        OBVIOUS
      <4>4a. r # <<>> /\ r[1] = Guess /\ r[2] = id
        BY <4>2, <4>3, <4>3a, <4>4, TwoAndOne
      <4>7. g[p] = r
        BY <3>5, <4>1, <4>4
      <4> QED BY <4>4a, <4>7 DEF IsGuess, Zero
    <3>7. p >= Len(Prompt[id])
      <4>1. Len(Prompt[id]) \in Nat
        BY DraftingAssumption
      <4> QED BY <3>1, <4>1
    <3> QED BY <3>6, <3>7 DEF Cell
  <2>2. CASE p \notin pos..(pos + n - 1)
    <3>1. g[p] = kv[p]
      BY <1>1, <2>2
    <3> QED BY <3>1 DEF KvOf
  <2> QED BY <2>1, <2>2
<1> QED BY <1>1, <1>2 DEF KvOf

\* Two texts that begin alike have the same beginnings.
LEMMA SameBeginnings ==
  ASSUME NEW s, AnySeq(s), NEW t, AnySeq(t), NEW n \in Nat, n <= Len(s), n <= Len(t),
         SubSeq(s, 1, n) = SubSeq(t, 1, n), NEW m \in 0..n
  PROVE  SubSeq(s, 1, m) = SubSeq(t, 1, m)
<1>1. Len(s) \in Nat /\ Len(t) \in Nat
  BY JoinedSeqs
<1>2. n \in 0..Len(s) /\ n \in 0..Len(t)
  BY <1>1
<1>3. SubSeq(SubSeq(s, 1, n), 1, m) = SubSeq(s, 1, m)
  BY <1>2, BegunTwice
<1>4. SubSeq(SubSeq(t, 1, n), 1, m) = SubSeq(t, 1, m)
  BY <1>2, BegunTwice
<1> QED BY <1>3, <1>4

\* A request's text begins with its prompt.
LEMMA KnownBegins ==
  ASSUME GInv, NEW id \in Ids, NEW n \in 0..Len(Prompt[id])
  PROVE  SubSeq(Known(id), 1, n) = SubSeq(Prompt[id], 1, n) /\ n <= Len(Known(id))
<1>1. PICK p, o, q, h, k : /\ p = Prompt[id] /\ o = out[id] /\ q = pending[id]
                           /\ h = History(id) /\ k = Known(id)
  OBVIOUS
<1>2. AnySeq(p) /\ AnySeq(o) /\ AnySeq(q) /\ AnySeq(h)
  BY <1>1, KnownSeq
<1>3. h = p \o o /\ k = h \o q
  BY <1>1 DEF History, Known
<1>4. Len(p) \in Nat /\ Len(h) \in Nat /\ Len(p) <= Len(h) /\ Len(k) \in Nat /\ Len(h) <= Len(k)
  BY <1>1, KnownSeq
<1>5. n \in 0..Len(p) /\ n \in 0..Len(h) /\ n <= Len(k)
  BY <1>1, <1>4
<1>6. SubSeq(p \o o, 1, n) = SubSeq(p, 1, n)
  BY <1>2, <1>5, BegunBefore
<1>7. SubSeq(h \o q, 1, n) = SubSeq(h, 1, n)
  BY <1>2, <1>5, BegunBefore
<1> QED BY <1>1, <1>3, <1>5, <1>6, <1>7

\* Speculator::bind_prompt: what a new owner inherits is its own.
LEMMA BindOwned ==
  ASSUME GInv, NEW h, ListOk(h), NEW id \in Ids,
         Unowned(h) \/ \E c \in Ids : Owned(h, c, Known(c)),
         NEW g, g = Bind(h, id)
  PROVE  ListOk(g) /\ Owned(g, id, Known(id)) /\ g.hidden = h.hidden
<1>1. CASE h.owner = {id}
  <2>1. g = h
    BY <1>1 DEF Bind
  <2>2. PICK c \in Ids : Owned(h, c, Known(c))
    BY <1>1 DEF Unowned
  <2>3. c = id
    BY <1>1, <2>2 DEF Owned
  <2> QED BY <2>1, <2>2, <2>3
<1>2. CASE h.owner # {id}
  <2>1. PICK common : common = CommonPrefix(h.prompt, Prompt[id])
    OBVIOUS
  <2>2. PICK keep : keep = IF common = 0 THEN 0 ELSE common - 1
    OBVIOUS
  <2>3. PICK b : b = [h EXCEPT !.kv = Truncated(@, keep), !.owner = {id}, !.prompt = Prompt[id]]
    OBVIOUS
  <2>4. g = SetContext(b, Prompt[id])
    BY <1>2, <2>1, <2>2, <2>3 DEF Bind
  <2>5. b = [owner |-> {id}, prompt |-> Prompt[id], kv |-> Truncated(h.kv, keep),
             hidden |-> h.hidden, list |-> h.list, device |-> h.device, dirty |-> h.dirty]
    BY <2>3 DEF ListOk, HeadShape
  <2>6. HeadShape(b) /\ b.prompt = Prompt[id]
    BY <2>5 DEF HeadShape
  <2>7. /\ ListOk(g) /\ g.owner = {id} /\ g.prompt = Prompt[id]
        /\ g.kv = Truncated(h.kv, keep) /\ g.hidden = h.hidden
    <3>1. Relisted(g, b)
      BY <2>4, <2>6, SetContextFacts
    <3> QED BY <2>5, <3>1 DEF Relisted
  <2>8. AnySeq(h.prompt) /\ AnySeq(Prompt[id])
    <3>1. CASE Unowned(h)
      BY <3>1, ShortSeqs, KnownSeq DEF Unowned
    <3>2. CASE \E c \in Ids : Owned(h, c, Known(c))
      BY <3>2, KnownSeq DEF Owned
    <3> QED BY <3>1, <3>2
  <2>9. /\ common \in Nat /\ common <= Len(h.prompt) /\ common <= Len(Prompt[id])
        /\ SubSeq(h.prompt, 1, common) = SubSeq(Prompt[id], 1, common)
    BY <2>1, <2>8, CommonPrefixFacts
  <2>10. keep \in Nat /\ (keep > 0 => keep < common)
    BY <2>2, <2>9
  <2>11. PICK edge : edge = (keep \div PageSize) * PageSize
    OBVIOUS
  <2>12. edge \in Nat /\ edge <= keep
    BY <2>10, <2>11, RoundedDown, DraftingAssumption
  <2>13. g.kv = [p \in Positions |-> IF p < edge THEN h.kv[p] ELSE Zero]
    BY <2>7, <2>11 DEF Truncated
  <2>14. ASSUME NEW p \in Positions PROVE Cell(g.kv[p], p, id, Known(id))
    <3>1. CASE p < edge
      <4>1. p \in Nat /\ p + 1 < common /\ g.kv[p] = h.kv[p]
        <5>1. p \in Nat
          BY DraftingAssumption DEF Positions
        <5>2. p < keep /\ keep > 0 /\ keep < common
          BY <2>10, <2>12, <3>1, <5>1
        <5> QED BY <2>9, <2>10, <2>13, <3>1, <5>1, <5>2
      <4>2. CASE Unowned(h)
        BY <4>1, <4>2 DEF Unowned, Cell
      <4>3. CASE \E c \in Ids : Owned(h, c, Known(c))
        <5>1. PICK c \in Ids : Owned(h, c, Known(c))
          BY <4>3
        <5>2. h.prompt = Prompt[c] /\ Cell(h.kv[p], p, c, Known(c))
          BY <5>1 DEF Owned
        <5>3. /\ Len(Prompt[c]) \in Nat /\ Len(Prompt[id]) \in Nat
              /\ AnySeq(Prompt[c]) /\ AnySeq(Prompt[id])
          BY KnownSeq
        <5>4. ~(p >= Len(Prompt[c]))
          BY <2>9, <4>1, <5>2, <5>3
        <5>5. CASE h.kv[p] = Zero
          BY <4>1, <5>5 DEF Cell
        <5>6. CASE h.kv[p] = SubSeq(Known(c), 1, p + 1)
          <6>1. /\ p + 1 \in 0..Len(Prompt[c]) /\ p + 1 \in 0..Len(Prompt[id])
                /\ p + 1 \in 0..common
            BY <2>9, <4>1, <5>2, <5>3
          <6>2. SubSeq(Known(c), 1, p + 1) = SubSeq(Prompt[c], 1, p + 1)
            BY <6>1, KnownBegins
          <6>3. SubSeq(Prompt[c], 1, p + 1) = SubSeq(Prompt[id], 1, p + 1)
            <7>1. PICK s, t : s = Prompt[c] /\ t = Prompt[id]
              OBVIOUS
            <7>2. /\ AnySeq(s) /\ AnySeq(t) /\ common \in Nat /\ common <= Len(s)
                  /\ common <= Len(t) /\ SubSeq(s, 1, common) = SubSeq(t, 1, common)
              BY <2>9, <5>2, <5>3, <7>1
            <7>3. SubSeq(s, 1, p + 1) = SubSeq(t, 1, p + 1)
              BY <6>1, <7>2, SameBeginnings
            <7> QED BY <7>1, <7>3
          <6>4. /\ SubSeq(Known(id), 1, p + 1) = SubSeq(Prompt[id], 1, p + 1)
                /\ p + 1 <= Len(Known(id))
            BY <6>1, KnownBegins
          <6>5. Len(Known(id)) \in Nat
            <7>1. AnySeq(Known(id))
              BY KnownSeq
            <7> QED BY <7>1, JoinedSeqs
          <6>6. p < Len(Known(id))
            BY <4>1, <6>4, <6>5
          <6> QED BY <4>1, <5>6, <6>2, <6>3, <6>4, <6>6 DEF Cell
        <5> QED BY <5>2, <5>4, <5>5, <5>6 DEF Cell
      <4> QED BY <4>2, <4>3
    <3>2. CASE ~(p < edge)
      <4>1. g.kv[p] = Zero
        BY <2>13, <3>2
      <4> QED BY <4>1 DEF Cell
    <3> QED BY <3>1, <3>2
  <2>15. DOMAIN g.kv = Positions
    BY <2>13
  <2> QED BY <2>7, <2>14, <2>15 DEF Owned
<1> QED BY <1>1, <1>2

-----------------------------------------------------------------------------
(* What primes and drafts write.                                           *)

\* t is what s has after its first a elements.
PartOf(t, s, a, n) == Len(t) = n /\ \A i \in 1..n : t[i] = s[a + i]

\* A part of a sequence.
LEMMA Middle ==
  ASSUME NEW s, AnySeq(s), NEW a \in Nat, NEW n \in Nat, a + n <= Len(s),
         NEW t, t = SubSeq(s, a + 1, a + n)
  PROVE  PartOf(t, s, a, n)
<1>1. PICK A : s \in Seq(A)
  BY DEF AnySeq
<1>2. PICK m : m = Len(s)
  OBVIOUS
<1>3. m \in Nat
  BY <1>1, <1>2
<1>4. CASE n = 0
  <2>1. t = <<>>
    BY <1>1, <1>4
  <2> QED BY <1>4, <2>1 DEF PartOf
<1>5. CASE n > 0
  <2>1. a + 1 \in 1..m /\ a + n \in 1..m /\ (a + n) - (a + 1) + 1 = n
    BY <1>2, <1>3, <1>5
  <2>2. Len(t) = n
    BY <1>1, <1>2, <1>3, <1>5, <2>1
  <2>3. ASSUME NEW i \in 1..n PROVE t[i] = s[a + i]
    BY <1>1, <1>2, <1>3, <1>5, <2>1, <2>3
  <2> QED BY <2>2, <2>3 DEF PartOf
<1> QED BY <1>4, <1>5

\* A chunk's rows and the tokens after them are parts of the text the step leaves.
LEMMA PrimeOwned ==
  ASSUME GInv, NEW P, NEW over, Runs(P, over), NEW c \in P, NEW id, c.id = id,
         NEW h, ListOk(h), Owned(h, id, Known(id)), NEW k, k = Known(id)',
         NEW g, g = Prime(h, id, c.offset, c.tokens, Sampled(P, id))
  PROVE  ListOk(g) /\ Owned(g, id, k)
<1>1. PICK p, s, o, m : p = Prompt[id] /\ s = Sampled(P, id) /\ o = c.offset /\ m = c.tokens
  OBVIOUS
<1>2. /\ id \in Ids /\ o \in Nat /\ m \in Nat /\ m > 0 /\ o + m <= Len(p)
      /\ phase[id] \in {"waiting", "prefill"} /\ id \notin Decoding /\ id \notin over
      /\ \A d \in P : d.id = id => d = c
  <2>1. P \in Batches /\ over \subseteq Decoding
    BY DEF Runs
  <2> QED BY <1>1, <2>1, ChunkFacts
<1>3. AnySeq(p) /\ AnySeq(s) /\ Len(p) \in Nat
  BY <1>1, <1>2, KnownSeq, RunsGrow
<1>4. Known(id) = p
  <2>1. out[id] = <<>> /\ pending[id] = <<>>
    BY <1>2 DEF GInv, RequestPart
  <2>2. p \o <<>> = p
    BY <1>3, JoinedThrice
  <2> QED BY <1>1, <2>1, <2>2 DEF Known, History
<1>5. k = p \o s
  <2>1. Known(id)' = IF id \in over THEN Known(id) ELSE Known(id) \o Sampled(P, id)
    BY <1>2, RunsGrow
  <2> QED BY <1>1, <1>2, <1>4, <2>1
<1>6. AnySeq(k) /\ Len(k) \in Nat /\ o + m + 1 <= Len(k)
  <2>1. JoinedParts(k, p, s)
    BY <1>3, <1>5, JoinedTo
  <2>2. AnySeq(k) /\ Len(k) = Len(p) + Len(s) /\ Len(s) \in Nat
    BY <2>1 DEF JoinedParts
  <2>3. CASE o + m = Len(p)
    <3>1. Completes(c)
      BY <1>1, <2>3 DEF Completes
    <3>2. s = <<Model(Prompt[id])>>
      BY <1>1, <1>2, <3>1 DEF Sampled
    <3>3. Len(s) = 1
      BY <3>2, ShortSeqs
    <3> QED BY <1>2, <1>3, <2>2, <2>3, <3>3
  <2>4. CASE o + m # Len(p)
    BY <1>2, <1>3, <2>2, <2>4
  <2> QED BY <2>3, <2>4
<1>7. \A x \in Positions : Cell(h.kv[x], x, id, k)
  BY <1>3, <1>4, <1>5, CellGrows DEF Owned
<1>8. /\ HeadShape(h) /\ h.owner = {id} /\ h.prompt = Prompt[id] /\ DOMAIN h.kv = Positions
  BY DEF Owned, ListOk
<1>9. PICK least : least = Len(p) - Window
  OBVIOUS
<1>10. PICK begin : begin = IF o < least THEN least ELSE o
  OBVIOUS
<1>11. PICK rows : rows = HiddenRows(k, begin + 1, o + m)
  OBVIOUS
<1>12. g = IF begin >= o + m \/ Window = 0 THEN h
           ELSE [h EXCEPT !.kv = Pass(@, rows, SubSeq(k, begin + 2, o + m + 1), begin + 1),
                          !.hidden = rows]
  BY <1>1, <1>5, <1>9, <1>10, <1>11 DEF Prime
<1>13. CASE begin >= o + m \/ Window = 0
  BY <1>7, <1>8, <1>12, <1>13 DEF Owned
<1>14. CASE ~(begin >= o + m \/ Window = 0)
  <2>1. begin \in Nat /\ begin < o + m
    <3>1. Window \in Nat
      BY DraftingAssumption
    <3> QED BY <1>2, <1>3, <1>9, <1>10, <1>14, <3>1
  <2>2. PICK n, pos : n = o + m - begin /\ pos = begin + 1
    OBVIOUS
  <2>3. /\ n \in Nat /\ pos \in Nat /\ pos + n <= Len(k) /\ pos + 1 = begin + 2
        /\ pos + n = o + m + 1
    BY <1>2, <1>6, <2>1, <2>2
  <2>4. PICK toks : toks = SubSeq(k, begin + 2, o + m + 1)
    OBVIOUS
  <2>5. Len(toks) = n /\ \A i \in 1..n : toks[i] = k[pos + i]
    <3>1. toks = SubSeq(k, pos + 1, pos + n)
      BY <2>3, <2>4
    <3>2. PartOf(toks, k, pos, n)
      BY <1>6, <2>3, <3>1, Middle
    <3> QED BY <3>2 DEF PartOf
  <2>6. \A i \in 1..n : rows[i] = SubSeq(k, 1, pos + i - 1)
    <3> SUFFICES ASSUME NEW i \in 1..n PROVE rows[i] = SubSeq(k, 1, pos + i - 1)
      OBVIOUS
    <3>1. i \in 1..((o + m) - (begin + 1) + 1) /\ (begin + 1) + i - 1 = pos + i - 1
      BY <1>2, <2>1, <2>2
    <3> QED BY <1>11, <3>1 DEF HiddenRows
  <2>7. PICK kv : kv = Pass(h.kv, rows, toks, pos)
    OBVIOUS
  <2>8. DOMAIN kv = Positions /\ \A x \in Positions : Cell(kv[x], x, id, k)
    <3>1. PICK old : old = h.kv
      OBVIOUS
    <3>2. KvOf(old, id, k)
      BY <1>7, <1>8, <3>1 DEF KvOf
    <3>3. kv = Pass(old, rows, toks, pos)
      BY <2>7, <3>1
    <3>4. RowsOf(rows, toks, k, pos)
      BY <2>5, <2>6 DEF RowsOf
    <3>5. AnySeq(k) /\ n \in Nat /\ Len(toks) = n /\ pos \in Nat /\ pos + n <= Len(k)
      BY <1>6, <2>3, <2>5
    <3>6. KvOf(kv, id, k)
      BY <3>2, <3>3, <3>4, <3>5, PassReal
    <3> QED BY <3>6 DEF KvOf
  <2>9. g = [owner |-> h.owner, prompt |-> h.prompt, kv |-> kv, hidden |-> rows,
             list |-> h.list, device |-> h.device, dirty |-> h.dirty]
    <3>1. g = [h EXCEPT !.kv = Pass(@, rows, toks, pos), !.hidden = rows]
      BY <1>12, <1>14, <2>2, <2>4
    <3> QED BY <1>8, <2>7, <3>1 DEF HeadShape
  <2>10. HeadShape(g)
    BY <2>9 DEF HeadShape
  <2>11. ListOk(g)
    BY <2>9, <2>10 DEF ListOk
  <2>12. Owned(g, id, k)
    BY <1>8, <2>8, <2>9 DEF Owned
  <2> QED BY <2>11, <2>12
<1> QED BY <1>13, <1>14

\* The last tokens of k, each with the hidden state before it.
HiddenOf(hid, toks, k) ==
  /\ AnySeq(toks) /\ Len(toks) \in Nat /\ Len(toks) <= Len(k)
  /\ \A i \in 1..Len(toks) : /\ hid[i] = SubSeq(k, 1, Len(k) - Len(toks) + i - 1)
                             /\ toks[i] = k[Len(k) - Len(toks) + i]

\* draft_chain writes what the main model has computed, and guesses after it.
LEMMA DraftChainOwned ==
  ASSUME GInv, NEW id \in Ids, phase[id] = "decode", NEW h, ListOk(h), Owned(h, id, Known(id)),
         HiddenOf(h.hidden, headTokens, Known(id)),
         NEW d \in Nat, d > 0, NEW drafts \in [1..d -> Vocab], NEW g, g = DraftChain(h, id, drafts)
  PROVE  ListOk(g) /\ Owned(g, id, Known(id))
<1>1. PICK k, toks, n, m : k = Known(id) /\ toks = headTokens /\ n = Len(toks)
           /\ m = Len(History(id))
  OBVIOUS
<1>2. AnySeq(k) /\ Len(k) = m + 1 /\ m \in Nat /\ Len(Prompt[id]) \in Nat /\ Len(Prompt[id]) <= m
  BY <1>1, KnownSeq
<1>3. /\ HeadShape(h) /\ h.owner = {id} /\ h.prompt = Prompt[id] /\ DOMAIN h.kv = Positions
      /\ \A x \in Positions : Cell(h.kv[x], x, id, k)
  BY <1>1 DEF Owned, ListOk
<1>4. PICK hid, old : hid = h.hidden /\ old = h.kv
  OBVIOUS
<1>5. /\ n \in Nat /\ n <= Len(k)
      /\ \A i \in 1..n : hid[i] = SubSeq(k, 1, Len(k) - n + i - 1) /\ toks[i] = k[Len(k) - n + i]
  BY <1>1, <1>4 DEF HiddenOf
<1>6. PICK pos : pos = m + 1 - n
  OBVIOUS
<1>7. pos \in Nat /\ pos + n <= Len(k) /\ Len(k) - n = pos
  BY <1>2, <1>5, <1>6
<1>8. PICK seen : seen = Pass(old, hid, toks, pos)
  OBVIOUS
<1>9. KvOf(seen, id, k)
  <2>1. RowsOf(hid, toks, k, pos)
    BY <1>1, <1>5, <1>7 DEF RowsOf
  <2>2. KvOf(old, id, k)
    BY <1>3, <1>4 DEF KvOf
  <2>3. AnySeq(k) /\ n \in Nat /\ Len(toks) = n /\ pos \in Nat /\ pos + n <= Len(k)
    BY <1>1, <1>2, <1>5, <1>7
  <2> QED BY <1>8, <2>1, <2>2, <2>3, PassReal
<1>10. drafts \in Seq(Vocab) /\ Len(drafts) = d
  <2>1. drafts \in Seq(Vocab)
    BY SeqDef
  <2> QED BY <2>1, LenProperties
<1>11. PICK own, tail, later : /\ own = [i \in 1..(d - 1) |-> <<Guess, id>>]
                               /\ tail = Front(drafts) /\ later = m + 1
  OBVIOUS
<1>12. Len(tail) = d - 1 /\ d - 1 \in Nat
  BY <1>10, <1>11 DEF Front
<1>13. PICK kv : kv = Pass(seen, own, tail, later)
  OBVIOUS
<1>14. KvOf(kv, id, k)
  <2>1. \A i \in 1..(d - 1) : own[i] = <<Guess, id>>
    BY <1>11
  <2>2. later \in Nat /\ Len(Prompt[id]) <= later
    BY <1>2, <1>11
  <2>3. d - 1 \in Nat /\ Len(tail) = d - 1
    BY <1>12
  <2> QED BY <1>9, <1>13, <2>1, <2>2, <2>3, PassGuess
<1>15. g = [Upload(h) EXCEPT !.kv = kv]
  BY <1>1, <1>4, <1>6, <1>8, <1>10, <1>11, <1>13 DEF DraftChain
<1>16. PICK u : u = Upload(h)
  OBVIOUS
<1>17. /\ ListOk(u) /\ u.owner = h.owner /\ u.prompt = h.prompt
  <2>1. CASE h.dirty
    <3>1. u = [h EXCEPT !.device = h.list, !.dirty = FALSE]
      BY <1>16, <2>1 DEF Upload
    <3>2. u = [owner |-> h.owner, prompt |-> h.prompt, kv |-> h.kv, hidden |-> h.hidden,
               list |-> h.list, device |-> h.list, dirty |-> FALSE]
      BY <1>3, <3>1 DEF HeadShape
    <3>3. HeadShape(u)
      BY <3>2 DEF HeadShape
    <3> QED BY <3>2, <3>3 DEF ListOk
  <2>2. CASE ~h.dirty
    BY <1>16, <2>2 DEF Upload
  <2> QED BY <2>1, <2>2
<1>18. g = [owner |-> u.owner, prompt |-> u.prompt, kv |-> kv, hidden |-> u.hidden,
            list |-> u.list, device |-> u.device, dirty |-> u.dirty]
  <2>1. HeadShape(u) /\ g = [u EXCEPT !.kv = kv]
    BY <1>15, <1>16, <1>17 DEF ListOk
  <2> QED BY <2>1 DEF HeadShape
<1>19. HeadShape(g)
  BY <1>18 DEF HeadShape
<1>20. ListOk(g)
  BY <1>17, <1>18, <1>19 DEF ListOk
<1> QED BY <1>1, <1>3, <1>14, <1>17, <1>18, <1>20 DEF Owned, KvOf

\* The rows a speculative step leaves are of the tokens it leaves: those it verified.
LEMMA SpeculatedHidden ==
  ASSUME NEW k, AnySeq(k), NEW truth, AnySeq(truth), NEW kept \in Nat, kept < Len(truth),
         NEW u, u = SubSeq(truth, 1, kept), NEW x, x = truth[kept + 1],
         NEW text, text = k \o u, NEW next, next = k \o (u \o <<x>>),
         NEW rows, rows = HiddenRows(text, Len(k), Len(text)),
         NEW toks, toks = SubSeq(truth, 1, kept + 1)
  PROVE  HiddenOf(rows, toks, next)
<1>1. PICK l : l = Len(k)
  OBVIOUS
<1>2. l \in Nat /\ Len(truth) \in Nat
  BY <1>1, JoinedSeqs
<1>3. AnySeq(u) /\ Len(u) = kept /\ \A i \in 1..kept : u[i] = truth[i]
  <2>1. kept \in 0..Len(truth)
    BY <1>2
  <2> QED BY <2>1, Begun
<1>4. AnySeq(toks) /\ Len(toks) = kept + 1 /\ \A i \in 1..(kept + 1) : toks[i] = truth[i]
  <2>1. kept + 1 \in 0..Len(truth)
    BY <1>2
  <2> QED BY <2>1, Begun
<1>5. AnySeq(text) /\ Len(text) = l + kept
  <2>1. JoinedParts(text, k, u)
    BY <1>3, JoinedTo
  <2> QED BY <1>1, <1>3, <2>1 DEF JoinedParts
<1>6. PICK one : one = <<x>>
  OBVIOUS
<1>7. AnySeq(one) /\ Len(one) = 1 /\ one[1] = x
  BY <1>6, ShortSeqs
<1>8. PICK w : w = u \o one
  OBVIOUS
<1>9. AnySeq(w) /\ Len(w) = kept + 1 /\ \A i \in 1..(kept + 1) : w[i] = truth[i]
  <2>1. JoinedParts(w, u, one)
    BY <1>3, <1>7, <1>8, JoinedTo
  <2>2. /\ AnySeq(w) /\ Len(w) = kept + 1 /\ \A i \in 1..kept : w[i] = u[i]
        /\ \A i \in 1..1 : w[kept + i] = one[i]
    BY <1>3, <1>7, <2>1 DEF JoinedParts
  <2>3. w[kept + 1] = one[1]
    BY <2>2
  <2>4. ASSUME NEW i \in 1..(kept + 1) PROVE w[i] = truth[i]
    <3>1. i \in 1..kept \/ i = kept + 1
      OBVIOUS
    <3> QED BY <1>3, <1>7, <2>2, <2>3, <3>1
  <2> QED BY <2>2, <2>4
<1>10. /\ AnySeq(next) /\ Len(next) = l + kept + 1
       /\ \A i \in 1..(kept + 1) : next[l + i] = truth[i]
  <2>1. next = k \o w
    BY <1>6, <1>8
  <2>2. JoinedParts(next, k, w)
    BY <1>9, <2>1, JoinedTo
  <2>3. /\ AnySeq(next) /\ Len(next) = l + (kept + 1)
        /\ \A i \in 1..(kept + 1) : next[l + i] = w[i]
    BY <1>1, <1>9, <2>2 DEF JoinedParts
  <2> QED BY <1>2, <1>9, <2>3
<1>11. next = text \o one
  <2>1. AnySeq(k) /\ AnySeq(u) /\ AnySeq(one)
    BY <1>3, <1>7
  <2>2. (k \o u) \o one = k \o (u \o one)
    <3>1. Join(Join(k, u), one) = Join(k, Join(u, one))
      BY <2>1, Regrouped
    <3> QED BY <3>1 DEF Join
  <2>3. next = k \o w
    BY <1>6, <1>8
  <2>4. (k \o u) \o one = k \o w
    BY <1>8, <2>2
  <2>5. text \o one = k \o w
    BY <2>4
  <2> QED BY <2>3, <2>5
<1>12. ASSUME NEW i \in 1..(kept + 1)
       PROVE  rows[i] = SubSeq(next, 1, l + i - 1) /\ toks[i] = next[l + i]
  <2>1. l + i - 1 \in 0..Len(text) /\ i \in 1..(Len(text) - l + 1)
    BY <1>2, <1>5
  <2>2. rows[i] = SubSeq(text, 1, l + i - 1)
    BY <1>1, <2>1 DEF HiddenRows
  <2>3. SubSeq(text \o one, 1, l + i - 1) = SubSeq(text, 1, l + i - 1)
    BY <1>5, <1>7, <2>1, BegunBefore
  <2> QED BY <1>4, <1>10, <1>11, <2>2, <2>3
<1>13. Len(next) - Len(toks) = l /\ Len(toks) \in Nat /\ Len(toks) <= Len(next)
  BY <1>2, <1>4, <1>10
<1> QED BY <1>4, <1>12, <1>13 DEF HiddenOf

\* The head of a request whose text grows stays its own.
LEMMA OwnedGrows ==
  ASSUME GInv, NEW id \in Ids, Grows(id), NEW h, Owned(h, id, Known(id)), NEW k, k = Known(id)'
  PROVE  Owned(h, id, k)
<1>1. PICK t : AnySeq(t) /\ k = Known(id) \o t
  BY DEF Grows
<1>2. AnySeq(Known(id))
  BY KnownSeq
<1>3. ASSUME NEW p \in Positions PROVE Cell(h.kv[p], p, id, k)
  <2>1. Cell(h.kv[p], p, id, Known(id))
    BY DEF Owned
  <2> QED BY <1>1, <1>2, <2>1, CellGrows
<1> QED BY <1>3 DEF Owned

\* The head is the one of a request, or of none yet, and its list is right.
Kept(h) == ListOk(h) /\ (Unowned(h) \/ \E c \in Ids : Owned(h, c, Known(c)))

\* A head that does not change stays one of a request whose text grows.
LEMMA KeptGrows ==
  ASSUME GInv, NEW h, Kept(h), \A id \in Ids : Grows(id)
  PROVE  ListOk(h) /\ (Unowned(h) \/ \E c \in Ids : \E k : k = Known(c)' /\ Owned(h, c, k))
<1>1. CASE Unowned(h)
  BY <1>1 DEF Kept
<1>2. CASE \E c \in Ids : Owned(h, c, Known(c))
  <2>1. PICK c \in Ids : Owned(h, c, Known(c))
    BY <1>2
  <2>2. PICK k : k = Known(c)'
    OBVIOUS
  <2>3. Owned(h, c, k)
    BY <2>1, <2>2, OwnedGrows
  <2> QED BY <2>2, <2>3 DEF Kept
<1> QED BY <1>1, <1>2 DEF Kept

\* The inductive invariant.
HInv ==
  /\ GInv
  /\ \A id \in Ids : done[id] \in 0..Len(Prompt[id])
  /\ hiddenFor \subseteq Decoding /\ Cardinality(hiddenFor) <= 1
  /\ Kept(head)
  /\ \A id \in hiddenFor : HiddenOf(head.hidden, headTokens, Known(id))

\* A step that is not speculative makes every text grow.
LEMMA AllGrow ==
  ASSUME GInv, NEW P, NEW over, Runs(P, over)
  PROVE  \A id \in Ids : Grows(id)
<1> SUFFICES ASSUME NEW id \in Ids PROVE Grows(id)
  OBVIOUS
<1>1. /\ AnySeq(Sampled(P, id))
      /\ Known(id)' = IF id \in over THEN Known(id) ELSE Known(id) \o Sampled(P, id)
  BY RunsGrow
<1>2. AnySeq(Known(id))
  BY KnownSeq
<1>3. AnySeq(<<>>) /\ Known(id) \o <<>> = Known(id)
  BY <1>2, ShortSeqs, JoinedThrice
<1> QED BY <1>1, <1>3 DEF Grows

-----------------------------------------------------------------------------
(* Every step keeps the head.                                              *)

\* A chunk's end is in its prompt.
LEMMA DoneStays ==
  ASSUME HInv, NEW P, NEW over, Runs(P, over), NEW id \in Ids
  PROVE  done'[id] \in 0..Len(Prompt[id])
<1>1. CASE done'[id] = done[id]
  BY <1>1 DEF HInv
<1>2. CASE \E c \in P : c.id = id /\ done'[id] = c.offset + c.tokens
  <2>1. PICK c \in P : c.id = id /\ done'[id] = c.offset + c.tokens
    BY <1>2
  <2>2. /\ c.offset \in Nat /\ c.tokens \in Nat /\ c.offset + c.tokens <= Len(Prompt[id])
    <3>1. P \in Batches
      BY DEF Runs
    <3> QED BY <2>1, <3>1, ChunkFacts
  <2>3. Len(Prompt[id]) \in Nat
    BY KnownSeq DEF HInv
  <2> QED BY <2>1, <2>2, <2>3
<1> QED BY <1>1, <1>2 DEF Runs

\* copy_decode_hidden_row leaves the hidden state before the token that was sampled.
LEMMA RowCopied ==
  ASSUME HInv, NEW P, NEW over, Runs(P, over), P = {}, Cardinality(Decoding) = 1,
         NEW i \in Decoding, head' = [head EXCEPT !.hidden = <<Known(i)>>],
         headTokens' = Sampled(P, i), hiddenFor' = Decoding \ over, GInv'
  PROVE  HInv'
<1>1. GInv /\ \A id \in Ids : Grows(id)
  BY AllGrow DEF HInv
<1>2. Decoding = {i} /\ i \in Ids /\ over \subseteq Decoding
  <2>1. IsFiniteSet(Decoding)
    <3>1. IsFiniteSet(Ids) /\ Decoding \subseteq Ids
      BY DraftingAssumption DEF Decoding
    <3> QED BY <3>1, FS_Subset
  <2>2. PICK x : Decoding = {x}
    BY <2>1, FS_Singleton
  <2> QED BY <2>2 DEF Runs, Decoding
<1>3. hiddenFor' \subseteq Decoding'
  <2>1. \A id \in Decoding \ over : phase'[id] = "decode" /\ id \in Ids
    <3> SUFFICES ASSUME NEW id \in Decoding \ over PROVE phase'[id] = "decode" /\ id \in Ids
      OBVIOUS
    <3>1. id \in Ids /\ phase[id] = "decode" /\ id \notin over /\ ~\E c \in P : c.id = id
      BY DEF Decoding
    <3> QED BY <3>1 DEF Runs
  <2> QED BY <2>1 DEF Decoding
<1>4. Cardinality(hiddenFor') <= 1
  <2>1. hiddenFor' = {} \/ hiddenFor' = {i}
    BY <1>2
  <2> QED BY <2>1, FS_EmptySet, FS_Singleton
<1>5. head' = [owner |-> head.owner, prompt |-> head.prompt, kv |-> head.kv,
               hidden |-> <<Known(i)>>, list |-> head.list, device |-> head.device,
               dirty |-> head.dirty]
  BY DEF HInv, Kept, ListOk, HeadShape
<1>6. PICK h : h = head'
  OBVIOUS
<1>7. /\ HeadShape(h) /\ ListOk(h)
      /\ h.owner = head.owner /\ h.prompt = head.prompt /\ h.kv = head.kv
  <2>1. HeadShape(h)
    BY <1>5, <1>6 DEF HeadShape
  <2>2. ListOk(head)
    BY DEF HInv, Kept
  <2> QED BY <1>5, <1>6, <2>1, <2>2 DEF ListOk
<1>8. Kept(h)
  <2>1. Kept(head)
    BY DEF HInv
  <2> QED BY <1>7, <2>1 DEF Kept, Unowned, Owned
<1>9. Kept(head)'
  <2>1. ListOk(h) /\ (Unowned(h) \/ \E c \in Ids : \E k : k = Known(c)' /\ Owned(h, c, k))
    BY <1>1, <1>8, KeptGrows
  <2> QED BY <1>6, <2>1 DEF Kept
<1>10. ASSUME NEW id \in hiddenFor' PROVE HiddenOf(head.hidden, headTokens, Known(id))'
  <2>1. id = i /\ id \notin over
    BY <1>2, <1>10
  <2>2. PICK k, t : k = Known(i) /\ t = Model(k)
    OBVIOUS
  <2>3. PICK toks : toks = <<t>>
    OBVIOUS
  <2>4. headTokens' = toks
    BY <1>2, <2>2, <2>3 DEF Sampled
  <2>5. Known(i)' = k \o toks
    <3>1. Known(i)' = IF i \in over THEN Known(i) ELSE Known(i) \o Sampled(P, i)
      BY <1>1, <1>2, RunsGrow
    <3> QED BY <2>1, <2>2, <2>4, <3>1
  <2>6. AnySeq(k) /\ AnySeq(toks) /\ Len(toks) = 1 /\ toks[1] = t
    BY <1>1, <1>2, <2>2, <2>3, KnownSeq, ShortSeqs
  <2>7. PICK next : next = k \o toks
    OBVIOUS
  <2>8. PICK l : l = Len(k)
    OBVIOUS
  <2>9. l \in Nat /\ Len(next) = l + 1 /\ next[l + 1] = t
    <3>1. JoinedParts(next, k, toks)
      BY <2>6, <2>7, JoinedTo
    <3>2. l \in Nat /\ Len(next) = l + 1 /\ \A x \in 1..1 : next[l + x] = toks[x]
      BY <2>6, <2>8, <3>1 DEF JoinedParts
    <3> QED BY <2>6, <3>2
  <2>10. SubSeq(next, 1, l) = k
    <3>1. l \in 0..Len(k)
      BY <2>8, <2>9
    <3>2. SubSeq(k \o toks, 1, l) = SubSeq(k, 1, l)
      BY <2>6, <3>1, BegunBefore
    <3>3. SubSeq(k, 1, Len(k)) = k
      BY <2>6, <3>1, Begun
    <3> QED BY <2>7, <2>8, <3>2, <3>3
  <2>11. PICK hid : hid = <<k>>
    OBVIOUS
  <2>12. hid[1] = k
    BY <2>11
  <2>13. HiddenOf(hid, toks, next)
    <3>1. ASSUME NEW x \in 1..Len(toks)
          PROVE  /\ hid[x] = SubSeq(next, 1, Len(next) - Len(toks) + x - 1)
                 /\ toks[x] = next[Len(next) - Len(toks) + x]
      <4>1. x = 1
        BY <2>6
      <4>2. Len(next) - Len(toks) + x - 1 = l /\ Len(next) - Len(toks) + x = l + 1
        BY <2>6, <2>9, <4>1
      <4> QED BY <2>6, <2>9, <2>10, <2>12, <4>1, <4>2
    <3>2. Len(toks) \in Nat /\ Len(toks) <= Len(next)
      BY <2>6, <2>9
    <3> QED BY <2>6, <3>1, <3>2 DEF HiddenOf
  <2>14. head'.hidden = hid
    BY <1>5, <2>2, <2>11
  <2> QED BY <2>1, <2>4, <2>5, <2>7, <2>13, <2>14
<1>11. GInv' /\ \A id \in Ids : done'[id] \in 0..Len(Prompt[id])
  BY DoneStays
<1> QED BY <1>3, <1>4, <1>9, <1>10, <1>11 DEF HInv

\* Another head, kept through a step in which every text grows.
KeptLater(h) ==
  ListOk(h) /\ (Unowned(h) \/ \E c \in Ids : \E k : k = Known(c)' /\ Owned(h, c, k))

\* A step that is not speculative keeps the head.
LEMMA RegularHead == ASSUME HInv, Regular PROVE HInv'
<1>1. PICK P, over : Runs(P, over)
  BY RegularFacts DEF HInv
<1>2. GInv' /\ GInv
  BY RegularGreedy DEF HInv
<1>3. CASE /\ P = {} /\ Cardinality(Decoding) = 1
           /\ \E id \in Decoding : /\ head' = [head EXCEPT !.hidden = <<Known(id)>>]
                                   /\ headTokens' = Sampled(P, id)
           /\ hiddenFor' = Decoding \ over
  BY <1>1, <1>2, <1>3, RowCopied
<1>4. CASE /\ head' = head \/ \E c \in P :
                head' = Prime(Bind(head, c.id), c.id, c.offset, c.tokens, Sampled(P, c.id))
           /\ hiddenFor' = {}
  <2>1. PICK h : h = head'
    OBVIOUS
  <2>2. KeptLater(h)
    <3>1. CASE head' = head
      <4>1. Kept(h) /\ \A id \in Ids : Grows(id)
        BY <1>1, <1>2, <2>1, <3>1, AllGrow DEF HInv
      <4> QED BY <1>2, <4>1, KeptGrows DEF KeptLater
    <3>2. CASE \E c \in P :
                head' = Prime(Bind(head, c.id), c.id, c.offset, c.tokens, Sampled(P, c.id))
      <4>1. PICK c \in P :
                head' = Prime(Bind(head, c.id), c.id, c.offset, c.tokens, Sampled(P, c.id))
        BY <3>2
      <4>2. PICK id : id = c.id
        OBVIOUS
      <4>3. id \in Ids
        <5>1. P \in Batches
          BY <1>1 DEF Runs
        <5> QED BY <4>2, <5>1, ChunkFacts
      <4>4. PICK g : g = Bind(head, id)
        OBVIOUS
      <4>5. ListOk(head) /\ (Unowned(head) \/ \E d \in Ids : Owned(head, d, Known(d)))
        BY DEF HInv, Kept
      <4>6. ListOk(g) /\ Owned(g, id, Known(id)) /\ g.hidden = head.hidden
        BY <1>2, <4>3, <4>4, <4>5, BindOwned
      <4>7. PICK k : k = Known(id)'
        OBVIOUS
      <4>8. h = Prime(g, id, c.offset, c.tokens, Sampled(P, id))
        BY <2>1, <4>1, <4>2, <4>4
      <4>9. ListOk(h) /\ Owned(h, id, k)
        BY <1>1, <1>2, <4>2, <4>6, <4>7, <4>8, PrimeOwned
      <4> QED BY <4>3, <4>7, <4>9 DEF KeptLater
    <3> QED BY <1>4, <3>1, <3>2
  <2>3. Kept(head)'
    BY <2>1, <2>2 DEF Kept, KeptLater
  <2>4. \A id \in Ids : done'[id] \in 0..Len(Prompt[id])
    BY <1>1, DoneStays
  <2>5. hiddenFor' \subseteq Decoding' /\ Cardinality(hiddenFor') <= 1
    BY <1>4, FS_EmptySet
  <2> QED BY <1>2, <1>4, <2>3, <2>4, <2>5 DEF HInv
<1> QED BY <1>1, <1>3, <1>4 DEF Runs

\* So does a speculative one.
LEMMA SpeculateHead == ASSUME HInv, NEW id \in Ids, Speculate(id) PROVE HInv'
<1>1. GInv /\ GInv'
  BY SpeculateGreedy DEF HInv
<1>2. PICK drafts, truth, kept, full, produced, r, over :
        Speculates(id, drafts, truth, kept, full, produced, r, over)
  BY <1>1, SpeculateFacts
<1>3. /\ Decoding = {id} /\ phase[id] = "decode" /\ DraftDepth(id) \in Nat /\ DraftDepth(id) > 0
      /\ drafts \in [1..DraftDepth(id) -> Vocab]
      /\ kept \in Nat /\ AnySeq(truth) /\ kept < Len(truth) /\ Len(truth) \in Nat
      /\ over \in BOOLEAN /\ out' = [out EXCEPT ![id] = @ \o produced]
      /\ pending' = [pending EXCEPT ![id] = IF over THEN <<>> ELSE <<truth[kept + 1]>>]
      /\ phase' = [phase EXCEPT ![id] = IF over THEN "over" ELSE @]
      /\ headTokens' = SubSeq(truth, 1, kept + 1)
      /\ hiddenFor' = (IF over THEN {} ELSE {id}) /\ done' = done
  BY <1>2 DEF Speculates
<1>4. PICK k, u, x : k = Known(id) /\ u = SubSeq(truth, 1, kept) /\ x = truth[kept + 1]
  OBVIOUS
<1>5. /\ AnySeq(k) /\ AnySeq(u) /\ Grows(id)
      /\ ~over => Known(id)' = k \o (u \o <<x>>)
  <2>1. GrowsBy(id, u, x, over)
    <3>1. KeptOf(truth, kept, u, x)
      BY <1>4 DEF KeptOf
    <3> QED BY <1>1, <1>2, <3>1, SpeculatesGrow
  <2>2. AnySeq(Known(id)) /\ AnySeq(u) /\ Grows(id)
    BY <2>1 DEF GrowsBy
  <2>3. ~over => Known(id)' = Known(id) \o (u \o <<x>>)
    BY Zenon, <2>1 DEF GrowsBy
  <2> QED BY Zenon, <1>4, <2>2, <2>3
<1>6. PICK g, h : g = Bind(head, id) /\ h = DraftChain(g, id, drafts)
  OBVIOUS
<1>7. ListOk(head) /\ (Unowned(head) \/ \E c \in Ids : Owned(head, c, Known(c)))
  BY DEF HInv, Kept
<1>8. ListOk(g) /\ Owned(g, id, Known(id)) /\ g.hidden = head.hidden
  BY <1>1, <1>6, <1>7, BindOwned
<1>9. HiddenOf(g.hidden, headTokens, Known(id))
  <2>1. hiddenFor = {id}
    BY <1>3 DEF DraftDepth
  <2> QED BY <1>8, <2>1 DEF HInv
<1>10. ListOk(h) /\ Owned(h, id, Known(id))
  <2>1. PICK d : d = DraftDepth(id)
    OBVIOUS
  <2>2. d \in Nat /\ d > 0 /\ drafts \in [1..d -> Vocab] /\ phase[id] = "decode"
    BY <1>3, <2>1
  <2> QED BY <1>1, <1>6, <1>8, <1>9, <2>2, DraftChainOwned
<1>11. PICK text, rows, toks : /\ text = k \o u /\ rows = HiddenRows(text, Len(k), Len(text))
                               /\ toks = SubSeq(truth, 1, kept + 1)
  OBVIOUS
<1>12. PICK b : b = [h EXCEPT !.hidden = rows]
  OBVIOUS
<1>13. b = [owner |-> h.owner, prompt |-> h.prompt, kv |-> h.kv, hidden |-> rows,
            list |-> h.list, device |-> h.device, dirty |-> h.dirty]
  BY <1>10, <1>12 DEF ListOk, HeadShape
<1>14. HeadShape(b) /\ ListOk(b)
  <2>1. HeadShape(b)
    BY <1>13 DEF HeadShape
  <2> QED BY <1>10, <1>13, <2>1 DEF ListOk
<1>15. PICK z : z = head'
  OBVIOUS
<1>16. z = PushAll(b, toks)
  <2>1. head' = FoldLeft(Push,
                [DraftChain(Bind(head, id), id, drafts) EXCEPT !.hidden =
                   HiddenRows(Known(id) \o SubSeq(truth, 1, kept), Len(Known(id)),
                              Len(Known(id) \o SubSeq(truth, 1, kept)))],
                SubSeq(truth, 1, kept + 1))
    BY Zenon, <1>2 DEF Speculates
  <2>2. b = [DraftChain(Bind(head, id), id, drafts) EXCEPT !.hidden =
                   HiddenRows(Known(id) \o SubSeq(truth, 1, kept), Len(Known(id)),
                              Len(Known(id) \o SubSeq(truth, 1, kept)))]
    BY <1>4, <1>6, <1>11, <1>12
  <2>3. head' = FoldLeft(Push, b, toks)
    BY Zenon, <1>11, <2>1, <2>2
  <2> QED BY Zenon, <1>15, <2>3 DEF PushAll
<1>17. AnySeq(toks)
  <2>1. kept + 1 \in 0..Len(truth)
    BY <1>3
  <2> QED BY <1>3, <1>11, <2>1, Begun
<1>18. Pushed(b, z)
  <2>1. HeadShape(b) /\ AnySeq(b.list) /\ IsInjective(b.list)
    BY <1>14 DEF ListOk
  <2> QED BY <1>16, <1>17, <2>1, PushedFacts
<1>19. ListOk(z)
  BY <1>14, <1>18, PushedOk
<1>20. z.owner = h.owner /\ z.prompt = h.prompt /\ z.kv = h.kv /\ z.hidden = rows
  BY <1>13, <1>18 DEF Pushed
<1>21. Owned(z, id, Known(id))
  BY <1>10, <1>20 DEF Owned
<1>22. PICK next : next = Known(id)'
  OBVIOUS
<1>23. Owned(z, id, next)
  BY <1>1, <1>5, <1>21, <1>22, OwnedGrows
<1>24. Kept(head)'
  BY <1>15, <1>19, <1>22, <1>23 DEF Kept
<1>25. ASSUME NEW c \in hiddenFor' PROVE HiddenOf(head.hidden, headTokens, Known(c))'
  <2>1. c = id /\ ~over
    BY <1>3, <1>25
  <2>2. next = k \o (u \o <<x>>)
    BY <1>5, <1>22, <2>1
  <2>3. HiddenOf(rows, toks, next)
    BY <1>3, <1>4, <1>5, <1>11, <2>2, SpeculatedHidden
  <2> QED BY <1>3, <1>11, <1>15, <1>20, <1>22, <2>1, <2>3
<1>26. hiddenFor' \subseteq Decoding' /\ Cardinality(hiddenFor') <= 1
  <2>1. ~over => phase'[id] = "decode"
    BY <1>1, <1>3 DEF GInv
  <2>2. hiddenFor' \subseteq Decoding'
    BY <1>3, <2>1 DEF Decoding
  <2>3. hiddenFor' = {} \/ hiddenFor' = {id}
    BY <1>3
  <2> QED BY <2>2, <2>3, FS_EmptySet, FS_Singleton
<1>27. \A c \in Ids : done'[c] \in 0..Len(Prompt[c])
  BY <1>3 DEF HInv
<1> QED BY <1>1, <1>24, <1>25, <1>26, <1>27 DEF HInv

-----------------------------------------------------------------------------
(* The head is always right.                                               *)

\* The head is nobody's at first.
LEMMA HeadStarts == Init => HInv
<1> SUFFICES ASSUME Init PROVE HInv
  OBVIOUS
<1>1. GInv
  BY GreedyStarts
<1>2. /\ hiddenFor = {} /\ \A id \in Ids : done[id] = 0
      /\ head = [owner |-> {}, prompt |-> <<>>, kv |-> [p \in Positions |-> Zero],
                 hidden |-> <<>>, list |-> <<>>, device |-> <<>>, dirty |-> TRUE]
  BY DEF Init
<1>3. HeadShape(head) /\ Unowned(head)
  BY <1>2 DEF HeadShape, Unowned
<1>4. AnySeq(head.list) /\ IsInjective(head.list)
  <2>1. head.list = <<>>
    BY <1>2
  <2>2. IsInjective(<<>>)
    BY DEF IsInjective
  <2> QED BY <2>1, <2>2, ShortSeqs
<1>5. Kept(head)
  BY <1>2, <1>3, <1>4 DEF Kept, ListOk
<1>6. \A id \in Ids : done[id] \in 0..Len(Prompt[id])
  <2>1. \A id \in Ids : Len(Prompt[id]) \in Nat
    BY <1>1, KnownSeq
  <2> QED BY <1>2, <2>1
<1> QED BY <1>1, <1>2, <1>5, <1>6, FS_EmptySet DEF HInv

\* The invariant is inductive.
LEMMA HeadStep == HInv /\ [Next]_vars => HInv'
<1> SUFFICES ASSUME HInv, [Next]_vars PROVE HInv'
  OBVIOUS
<1>1. CASE Regular
  BY <1>1, RegularHead
<1>2. CASE \E id \in Ids : Speculate(id)
  BY <1>2, SpeculateHead
<1>3. CASE UNCHANGED vars
  <2>1. /\ phase' = phase /\ done' = done /\ out' = out /\ pending' = pending
        /\ hiddenFor' = hiddenFor /\ headTokens' = headTokens /\ head' = head
    BY <1>3 DEF vars
  <2>2. GInv'
    BY <2>1 DEF HInv, GInv, RequestPart, History
  <2>3. \A id : Known(id)' = Known(id)
    BY <2>1 DEF Known, History
  <2>4. Decoding' = Decoding
    BY <2>1 DEF Decoding
  <2>5. Kept(head)'
    BY <2>1, <2>3 DEF HInv, Kept
  <2> QED BY <2>1, <2>2, <2>3, <2>4, <2>5 DEF HInv
<1> QED BY <1>1, <1>2, <1>3 DEF Next

\* The head and what the worker knows of it agree.
THEOREM HeadInvariant == Spec => []HInv
BY HeadStarts, HeadStep, PTL DEF Spec

\* What the head's KV holds is of its owner's own text.
LEMMA HeadIsOwned == HInv => HeadIntact
<1> SUFFICES ASSUME HInv PROVE HeadIntact
  OBVIOUS
<1>1. GInv /\ Kept(head)
  BY DEF HInv
<1>2. TypeOK
  <2>1. phase \in [Ids -> {"waiting", "prefill", "decode", "over"}]
    BY <1>1 DEF GInv, Phases
  <2>2. \A id \in Ids : done[id] \in 0..Len(Prompt[id]) /\ Len(out[id]) <= MaxNew
    BY <1>1 DEF HInv, GInv, RequestPart
  <2>3. \A id \in Ids : phase[id] = "decode" <=> Len(pending[id]) = 1
    <3> SUFFICES ASSUME NEW id \in Ids PROVE phase[id] = "decode" <=> Len(pending[id]) = 1
      OBVIOUS
    <3>1. Len(pending[id]) = IF phase[id] = "decode" THEN 1 ELSE 0
      <4>1. pending[id] = <<>> \/ phase[id] = "decode"
        BY <1>1 DEF GInv, RequestPart
      <4>2. phase[id] = "decode" => \E x : pending[id] = <<x>>
        BY <1>1 DEF GInv, RequestPart
      <4>3. phase[id] # "decode" => pending[id] = <<>>
        BY <4>1
      <4> QED BY <4>2, <4>3, ShortSeqs
    <3> QED BY <3>1
  <2>4. DOMAIN head.kv = Positions /\ Cardinality(head.owner) <= 1
    <3>1. head.owner = {} \/ \E c \in Ids : head.owner = {c}
      BY <1>1 DEF Kept, Owned, Unowned
    <3>2. DOMAIN head.kv = Positions
      BY <1>1 DEF Kept, Owned, Unowned
    <3>3. Cardinality({}) = 0
      BY FS_EmptySet
    <3>4. \A c \in Ids : Cardinality({c}) = 1
      BY FS_Singleton
    <3>5. CASE head.owner = {}
      BY <3>2, <3>3, <3>5
    <3>6. CASE \E c \in Ids : head.owner = {c}
      BY <3>2, <3>4, <3>6
    <3> QED BY <3>1, <3>5, <3>6
  <2> QED BY <2>1, <2>2, <2>3, <2>4 DEF HInv, TypeOK
<1>3. NoForeignKv
  <2>1. CASE Unowned(head)
    BY <2>1 DEF Unowned, NoForeignKv
  <2>2. CASE \E c \in Ids : Owned(head, c, Known(c))
    <3>1. PICK c \in Ids : Owned(head, c, Known(c))
      BY <2>2
    <3>2. head.owner = {c} /\ \A p \in Positions : Cell(head.kv[p], p, c, Known(c))
      BY <3>1 DEF Owned
    <3>3. ASSUME NEW p \in Positions
          PROVE  \/ head.kv[p] = Zero
                 \/ IsGuess(head.kv[p], c)
                 \/ head.kv[p] = SubSeq(Known(c), 1, p + 1)
      BY <3>2 DEF Cell
    <3> QED BY <3>2, <3>3 DEF NoForeignKv
  <2> QED BY <1>1, <2>1, <2>2 DEF Kept
<1> QED BY <1>2, <1>3 DEF HeadIntact

\* No request ever finds another's text in the head's KV.
THEOREM HeadAlwaysIntact == Spec => []HeadIntact
BY HeadInvariant, HeadIsOwned, PTL

\* The shortlist is always complete, and the device's is the host's or on its way.
THEOREM ListAlwaysRight == Spec => []ListRight
<1>1. HInv => ListRight
  BY DEF HInv, Kept, ListOk, ListRight, DeviceListFresh, ListComplete
<1> QED BY <1>1, HeadInvariant, PTL

=============================================================================
