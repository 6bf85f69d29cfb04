--------------------------- MODULE Lexical_proofs ---------------------------
(***************************************************************************)
(* Theorems about Lexical for any alphabet, home and working directory and *)
(* for paths of any length.  The functions on paths are recursive, so that *)
(* everything rests on induction over texts: each function is shown to     *)
(* satisfy its defining equation first, then what it does to texts that    *)
(* are put together of others.                                             *)
(***************************************************************************)
EXTENDS Lexical, SequenceTheorems, FiniteSetTheorems, WellFoundedInduction, TLAPS

(***************************************************************************)
(* Induction and recursion over sequences, the last element at a time.     *)
(***************************************************************************)
Less == {pair \in Nat \X Nat : pair[1] < pair[2]}

(* A set of natural numbers with an element has a least one.               *)
LEMMA Least ==
  ASSUME NEW S \in SUBSET Nat, S # {}
  PROVE  \E m \in S : \A k \in S : m <= k
<1>1. IsWellFoundedOn(Less, Nat)
  <2>1. OpToRel(<, Nat) = Less
    BY Zenon DEF OpToRel, Less
  <2> QED BY <2>1, NatLessThanWellFounded
<1>2. PICK m \in S : \A k \in S : <<k, m>> \notin Less
  BY <1>1, WFMin
<1>3. ASSUME NEW k \in S PROVE m <= k
  <2>1. <<k, m>> \notin Less  BY <1>2
  <2>2. <<k, m>> \in Nat \X Nat /\ <<k, m>>[1] = k /\ <<k, m>>[2] = m  OBVIOUS
  <2>3. ~ (k < m)  BY <2>1, <2>2 DEF Less
  <2> QED BY <2>3
<1> QED BY <1>3

(* A set that has the empty sequence, and with a sequence every one that   *)
(* is longer by one element, has all sequences.                            *)
LEMMA SeqInduction ==
  ASSUME NEW A, NEW S, <<>> \in S,
         \A s \in Seq(A), a \in A : s \in S => Append(s, a) \in S
  PROVE  \A s \in Seq(A) : s \in S
<1> DEFINE K == {Len(s) : s \in Seq(A) \ S}
<1> SUFFICES ASSUME NEW x \in Seq(A), x \notin S PROVE FALSE
  OBVIOUS
<1>1. K \in SUBSET Nat /\ K # {}
  BY LenProperties
<1>2. PICK m \in K : \A k \in K : m <= k
  <2> HIDE DEF K
  <2> QED BY <1>1, Least
<1>3. PICK s \in Seq(A) \ S : Len(s) = m
  OBVIOUS
<1>4. PICK t \in Seq(A), a \in A : s = Append(t, a)
  BY <1>3, SequenceEmptyOrAppend
<1>5. t \notin S /\ Len(t) \in Nat /\ Len(s) = Len(t) + 1
  BY <1>3, <1>4, AppendProperties, LenProperties
<1>6. Len(t) \in K
  BY <1>5
<1> QED BY <1>2, <1>3, <1>5, <1>6

(* Front and Last undo Append.                                             *)
LEMMA FrontLast ==
  ASSUME NEW A, NEW s \in Seq(A), NEW a \in A
  PROVE  Front(Append(s, a)) = s /\ Last(Append(s, a)) = a
<1>1. /\ Append(s, a) \in Seq(A) /\ Len(Append(s, a)) = Len(s) + 1 /\ Len(s) \in Nat
      /\ Append(s, a)[Len(s) + 1] = a
      /\ \A i \in 1..Len(s) : Append(s, a)[i] = s[i]
  BY AppendProperties, LenProperties
<1>2. \A i \in 1..Len(s) : Append(s, a)[i] \in A
  BY <1>1, ElementOfSeq
<1>3. /\ SubSeq(Append(s, a), 1, Len(s)) \in Seq(A)
      /\ Len(SubSeq(Append(s, a), 1, Len(s))) = Len(s)
      /\ \A i \in 1..Len(s) : SubSeq(Append(s, a), 1, Len(s))[i] = Append(s, a)[i]
  BY <1>1, <1>2, SubSeqProperties
<1>4. SubSeq(Append(s, a), 1, Len(s)) = s
  BY <1>1, <1>3, SeqEqual
<1> QED BY <1>1, <1>4 DEF Front, Last

(* A nonempty sequence is its front and its last element.                  *)
LEMMA FrontLastAppend ==
  ASSUME NEW A, NEW s \in Seq(A), s # <<>>
  PROVE  Front(s) \in Seq(A) /\ Last(s) \in A /\ s = Append(Front(s), Last(s))
         /\ Len(Front(s)) = Len(s) - 1
<1>1. PICK t \in Seq(A), a \in A : s = Append(t, a)
  BY SequenceEmptyOrAppend
<1>2. Len(s) = Len(t) + 1 /\ Len(t) \in Nat
  BY <1>1, AppendProperties, LenProperties
<1> QED BY <1>1, <1>2, FrontLast

(* A step that makes a value of T of the value for a sequence, of the      *)
(* sequence and of one more element defines a function on all sequences.   *)
Closed(R, A, base, step) ==
  /\ << <<>>, base >> \in R
  /\ \A x \in R, a \in A : << Append(x[1], a), step[<<x[2], x[1], a>>] >> \in R

Steps(A, T) == [T \X Seq(A) \X A -> T]

(* A function on sequences may be defined by what it returns for all but   *)
(* the last element.                                                       *)
LEMMA Recursion ==
  ASSUME NEW A, NEW T, NEW base \in T, NEW step \in Steps(A, T)
  PROVE  \E g \in [Seq(A) -> T] :
           /\ g[<<>>] = base
           /\ \A s \in Seq(A), a \in A : g[Append(s, a)] = step[<<g[s], s, a>>]
<1> DEFINE U == Seq(A) \X T
           G == {x \in U : \A R \in SUBSET U : Closed(R, A, base, step) => x \in R}
           Only(s, t) == \A u \in T : <<s, u>> \in G <=> u = t
           S == {s \in Seq(A) : \E t \in T : Only(s, t)}
<1>0. \A s \in Seq(A) : \A a \in A : \A t \in T :
        /\ Append(s, a) \in Seq(A) /\ Append(s, a) # <<>>
        /\ step[<<t, s, a>>] \in T
  BY AppendProperties DEF Steps
<1>1. Closed(G, A, base, step)
  <2>1. << <<>>, base >> \in G
    BY EmptySeq DEF Closed
  <2>2. ASSUME NEW x \in G, NEW a \in A PROVE << Append(x[1], a), step[<<x[2], x[1], a>>] >> \in G
    <3>1. x[1] \in Seq(A) /\ x[2] \in T
      OBVIOUS
    <3>2. << Append(x[1], a), step[<<x[2], x[1], a>>] >> \in U
      BY <1>0, <3>1
    <3>3. ASSUME NEW R \in SUBSET U, Closed(R, A, base, step)
          PROVE  << Append(x[1], a), step[<<x[2], x[1], a>>] >> \in R
      BY <3>3 DEF Closed
    <3> QED BY <3>2, <3>3
  <2> HIDE DEF G
  <2> QED BY <2>1, <2>2 DEF Closed
<1>2. ASSUME NEW x \in U, x \in G, Closed(G \ {x}, A, base, step) PROVE FALSE
  <2>1. G \ {x} \in SUBSET U
    OBVIOUS
  <2>2. x \in G \ {x}
    BY <1>2, <2>1
  <2> QED BY <2>2
<1>G1. G \in SUBSET U
  OBVIOUS
<1> HIDE DEF G
<1>3. <<>> \in S
  <2>1. << <<>>, base >> \in G
    BY <1>1 DEF Closed
  <2>2. ASSUME NEW u \in T, << <<>>, u >> \in G, u # base PROVE FALSE
    <3>1. << <<>>, u >> \in U
      BY EmptySeq
    <3>2. ASSUME NEW x \in G, NEW a \in A
          PROVE  << Append(x[1], a), step[<<x[2], x[1], a>>] >> # << <<>>, u >>
      BY <1>0, <1>G1
    <3>3. Closed(G \ {<< <<>>, u >>}, A, base, step)
      BY <1>1, <2>2, <3>2 DEF Closed
    <3> QED BY <1>2, <2>2, <3>1, <3>3
  <2> QED BY <2>1, <2>2, EmptySeq
<1>4. ASSUME NEW s \in Seq(A), NEW a \in A, NEW t \in T, Only(s, t)
      PROVE  Only(Append(s, a), step[<<t, s, a>>])
  <2> DEFINE v == step[<<t, s, a>>]
  <2>1. <<s, t>> \in G
    BY <1>4
  <2>2. <<Append(s, a), v>> \in G
    <3>1. << Append(<<s, t>>[1], a), step[<< <<s, t>>[2], <<s, t>>[1], a>>] >> \in G
      BY <1>1, <2>1 DEF Closed
    <3> QED BY <3>1
  <2>3. ASSUME NEW u \in T, <<Append(s, a), u>> \in G, u # v PROVE FALSE
    <3>1. <<Append(s, a), u>> \in U
      BY <1>0
    <3>2. ASSUME NEW x \in G, NEW b \in A
          PROVE  << Append(x[1], b), step[<<x[2], x[1], b>>] >> # <<Append(s, a), u>>
      <4> SUFFICES ASSUME Append(x[1], b) = Append(s, a), step[<<x[2], x[1], b>>] = u PROVE FALSE
        OBVIOUS
      <4>1. x[1] \in Seq(A) /\ x[2] \in T /\ x = <<x[1], x[2]>>
        BY <1>G1
      <4>2. x[1] = s /\ b = a
        <5>1. \A r \in Seq(A) : Append(r, b) = Append(s, a) => r = s /\ b = a
          BY AppendInjective
        <5> QED BY <4>1, <5>1
      <4>3. x[2] = t
        BY <1>4, <4>1, <4>2
      <4> QED BY <2>3, <4>2, <4>3
    <3>3. << <<>>, base >> # <<Append(s, a), u>>
      BY <1>0
    <3>4. Closed(G \ {<<Append(s, a), u>>}, A, base, step)
      BY <1>1, <3>2, <3>3 DEF Closed
    <3> QED BY <1>2, <2>3, <3>1, <3>4
  <2> QED BY <2>2, <2>3, <1>0
<1>5. \A s \in Seq(A), a \in A : s \in S => Append(s, a) \in S
  <2> SUFFICES ASSUME NEW s \in Seq(A), NEW a \in A, s \in S PROVE Append(s, a) \in S
    OBVIOUS
  <2>1. PICK t \in T : Only(s, t)
    OBVIOUS
  <2>2. Only(Append(s, a), step[<<t, s, a>>])
    BY <1>4, <2>1
  <2>3. Append(s, a) \in Seq(A) /\ step[<<t, s, a>>] \in T
    BY <1>0
  <2> HIDE DEF Only
  <2> QED BY <2>2, <2>3
<1>6. \A s \in Seq(A) : s \in S
  <2> HIDE DEF S
  <2> QED BY <1>3, <1>5, SeqInduction
<1> DEFINE g == [s \in Seq(A) |-> CHOOSE t \in T : Only(s, t)]
<1>7. ASSUME NEW s \in Seq(A) PROVE g[s] \in T /\ Only(s, g[s])
  BY <1>6
<1>8. g \in [Seq(A) -> T]
  BY <1>7
<1>9. g[<<>>] = base
  <2>1. << <<>>, base >> \in G
    BY <1>1 DEF Closed
  <2> QED BY <1>7, <2>1, EmptySeq
<1>10. ASSUME NEW s \in Seq(A), NEW a \in A PROVE g[Append(s, a)] = step[<<g[s], s, a>>]
  <2>1. g[s] \in T /\ Only(s, g[s]) /\ g[Append(s, a)] \in T /\ Only(Append(s, a), g[Append(s, a)])
    BY <1>0, <1>7
  <2>2. Only(Append(s, a), step[<<g[s], s, a>>])
    BY <1>4, <2>1
  <2> QED BY <2>1, <2>2
<1> HIDE DEF g
<1> QED BY <1>8, <1>9, <1>10

(* The same, as an equation: what a recursive definition needs to have a   *)
(* solution.                                                               *)
LEMMA Solution ==
  ASSUME NEW A, NEW T, NEW base \in T, NEW step \in Steps(A, T)
  PROVE  \E g \in [Seq(A) -> T] :
           g = [s \in Seq(A) |->
                  IF s = <<>> THEN base ELSE step[<<g[Front(s)], Front(s), Last(s)>>]]
<1>1. PICK g \in [Seq(A) -> T] :
        /\ g[<<>>] = base
        /\ \A s \in Seq(A), a \in A : g[Append(s, a)] = step[<<g[s], s, a>>]
  BY Recursion
<1>2. ASSUME NEW s \in Seq(A)
      PROVE  g[s] = IF s = <<>> THEN base ELSE step[<<g[Front(s)], Front(s), Last(s)>>]
  BY <1>1, FrontLastAppend
<1> QED BY <1>2
-----------------------------------------------------------------------------
(***************************************************************************)
(* The functions of the model satisfy their equations.                     *)
(***************************************************************************)
Specials == {"/", ".", "~", "#"}

(* The texts the code compares with are texts.                             *)
LEMMA Constants ==
  /\ Specials \subseteq Sign /\ Char \subseteq Sign /\ "#" \notin Char
  /\ Slash \in Text /\ DotPath \in Text /\ DotDot \in Text /\ <<>> \in Text
  /\ Len(Slash) = 1 /\ Slash[1] = "/" /\ Len(DotPath) = 1 /\ DotPath[1] = "."
  /\ Len(DotDot) = 2 /\ DotDot[1] = "." /\ DotDot[2] = "."
<1>1. "/" \in Sign /\ "." \in Sign /\ Specials \subseteq Sign
  BY DEF Sign, Specials
<1>2. Char \subseteq Sign /\ "#" \notin Char
  BY LetterAssumption DEF Char, Sign
<1>3. \A a \in Sign, b \in Sign : <<a>> \in Seq(Sign) /\ <<a, b>> \in Seq(Sign)
  OBVIOUS
<1> QED BY <1>1, <1>2, <1>3, EmptySeq DEF Slash, DotPath, DotDot, Text

(* Induction and recursion for texts, and what Append does to them.        *)
LEMMA TextInduction ==
  ASSUME NEW S, <<>> \in S, \A p \in Text, c \in Sign : p \in S => Append(p, c) \in S
  PROVE  \A p \in Text : p \in S
BY SeqInduction DEF Text

(* The same for texts, in the form in which Lexical defines its functions. *)
LEMMA TextRecursion ==
  ASSUME NEW T, NEW base \in T, NEW step \in Steps(Sign, T)
  PROVE  \E g \in [Text -> T] :
           g = [p \in Text |->
                  IF p = <<>> THEN base ELSE step[<<g[Front(p)], Front(p), Last(p)>>]]
BY Solution DEF Text

(* A text with one character more: what is in it, and what all but the     *)
(* last of it is.                                                          *)
LEMMA TextAppend ==
  ASSUME NEW p \in Text, NEW c \in Sign
  PROVE  /\ Append(p, c) \in Text /\ Append(p, c) # <<>>
         /\ Front(Append(p, c)) = p /\ Last(Append(p, c)) = c
         /\ Len(p) \in Nat /\ Len(Append(p, c)) = Len(p) + 1
         /\ \A i \in 1..Len(p) : Append(p, c)[i] = p[i]
         /\ Append(p, c)[Len(p) + 1] = c
BY AppendProperties, FrontLast, LenProperties DEF Text

(* Texts that are the same with one character more are the same.           *)
LEMMA TextInjective ==
  ASSUME NEW s \in Text, NEW t \in Text, NEW c \in Sign, Append(s, c) = Append(t, c)
  PROVE  s = t
<1>1. Front(Append(s, c)) = s /\ Front(Append(t, c)) = t
  BY TextAppend
<1> QED BY <1>1

(* A text that is not empty is all but its last character and that one.    *)
LEMMA TextFront ==
  ASSUME NEW p \in Text, p # <<>>
  PROVE  /\ Front(p) \in Text /\ Last(p) \in Sign /\ p = Append(Front(p), Last(p))
         /\ Len(Front(p)) = Len(p) - 1
BY FrontLastAppend DEF Text

(* What Split adds to the runs it has is a character or a run.             *)
LEMMA IntoRunType ==
  ASSUME NEW runs \in Seq(Text), NEW q \in Text, NEW c \in Sign
  PROVE  IntoRun(runs, q, c) \in Seq(Text)
<1>1. <<c>> \in Text
  BY DEF Text
<1>2. Append(runs, <<c>>) \in Seq(Text)
  BY <1>1, AppendProperties
<1>3. CASE runs = <<>>
  <2>1. [runs EXCEPT ![Len(runs)] = Append(@, c)] = <<>>
    BY <1>3
  <2> QED BY <1>2, <2>1, EmptySeq DEF IntoRun
<1>4. CASE runs # <<>>
  <2>1. Len(runs) \in 1..Len(runs)
    BY <1>4, EmptySeq
  <2>2. Append(runs[Len(runs)], c) \in Text
    BY <2>1, ElementOfSeq, AppendProperties DEF Text
  <2>3. [runs EXCEPT ![Len(runs)] = Append(@, c)] \in Seq(Text)
    BY <2>1, <2>2, ExceptSeq
  <2> QED BY <1>2, <2>3 DEF IntoRun
<1> QED BY <1>3, <1>4

(* fs_split, a character at a time.                                        *)
LEMMA SplitDef ==
  /\ Split \in [Text -> Seq(Text)] /\ Split[<<>>] = <<>>
  /\ \A p \in Text, c \in Sign : Split[Append(p, c)] = IntoRun(Split[p], p, c)
<1> DEFINE T == Seq(Text)
           step == [x \in T \X Text \X Sign |-> IntoRun(x[1], x[2], x[3])]
           F(g) == [p \in Text |->
                      IF p = <<>> THEN <<>> ELSE IntoRun(g[Front(p)], Front(p), Last(p))]
<1>1. step \in Steps(Sign, T) /\ <<>> \in T
  BY IntoRunType, EmptySeq DEF Steps, Text
<1>2. PICK g \in [Text -> T] :
        g = [p \in Text |-> IF p = <<>> THEN <<>> ELSE step[<<g[Front(p)], Front(p), Last(p)>>]]
  <2> HIDE DEF step, T
  <2> QED BY <1>1, TextRecursion
<1>3. g = F(g)
  <2>1. ASSUME NEW p \in Text, p # <<>>
        PROVE  step[<<g[Front(p)], Front(p), Last(p)>>] = IntoRun(g[Front(p)], Front(p), Last(p))
    <3>1. Front(p) \in Text /\ Last(p) \in Sign
      BY <2>1, TextFront
    <3>2. g[Front(p)] \in T
      BY <3>1
    <3> HIDE DEF T
    <3> QED BY <3>1, <3>2
  <2> QED BY <1>2, <2>1, Zenon
<1>4. Split = F(Split)
  BY <1>3, Zenon DEF Split
<1>5. Split[<<>>] = <<>> /\ DOMAIN Split = Text
  BY <1>4, Constants
<1>6. ASSUME NEW p \in Text, NEW c \in Sign PROVE Split[Append(p, c)] = IntoRun(Split[p], p, c)
  <2>1. Append(p, c) \in Text /\ Append(p, c) # <<>> /\ Front(Append(p, c)) = p /\ Last(Append(p, c)) = c
    BY TextAppend
  <2> QED BY <1>4, <2>1
<1> DEFINE S == {p \in Text : Split[p] \in T}
<1>7. ASSUME NEW p \in Text, NEW c \in Sign, p \in S PROVE Append(p, c) \in S
  <2>1. Append(p, c) \in Text
    BY TextAppend
  <2>2. Split[Append(p, c)] \in T
    BY <1>6, <1>7, IntoRunType
  <2> QED BY <2>1, <2>2
<1>8. \A p \in Text : p \in S
  <2>1. <<>> \in S
    BY <1>1, <1>5, Constants
  <2> HIDE DEF S
  <2> QED BY <1>7, <2>1, TextInduction
<1> QED BY <1>4, <1>5, <1>6, <1>8

(* The loop of fs_drop_slash over the slashes at the end.                  *)
LEMMA WithoutTrailingDef ==
  /\ WithoutTrailing \in [Text -> Text] /\ WithoutTrailing[<<>>] = <<>>
  /\ \A p \in Text, c \in Sign : WithoutTrailing[Append(p, c)] = Shorten(WithoutTrailing[p], p, c)
<1> DEFINE T == Text
           step == [x \in T \X Text \X Sign |-> Shorten(x[1], x[2], x[3])]
           F(g) == [p \in Text |->
                      IF p = <<>> THEN <<>> ELSE Shorten(g[Front(p)], Front(p), Last(p))]
<1>0. \A v \in T, p \in Text, c \in Sign : Shorten(v, p, c) \in T
  BY TextAppend DEF Shorten
<1>1. step \in Steps(Sign, T) /\ <<>> \in T
  BY <1>0, Constants, EmptySeq DEF Steps, Text
<1>2. PICK g \in [Text -> T] :
        g = [p \in Text |-> IF p = <<>> THEN <<>> ELSE step[<<g[Front(p)], Front(p), Last(p)>>]]
  <2> HIDE DEF step, T
  <2> QED BY <1>1, TextRecursion
<1>3. g = F(g)
  <2>1. ASSUME NEW p \in Text, p # <<>>
        PROVE  step[<<g[Front(p)], Front(p), Last(p)>>] = Shorten(g[Front(p)], Front(p), Last(p))
    <3>1. Front(p) \in Text /\ Last(p) \in Sign
      BY <2>1, TextFront
    <3>2. g[Front(p)] \in T
      BY <3>1
    <3> QED BY <3>1, <3>2
  <2> QED BY <1>2, <2>1, Zenon
<1>4. WithoutTrailing = F(WithoutTrailing)
  BY <1>3, Zenon DEF WithoutTrailing
<1>5. WithoutTrailing[<<>>] = <<>> /\ DOMAIN WithoutTrailing = Text
  BY <1>4, Constants
<1>6. ASSUME NEW p \in Text, NEW c \in Sign PROVE WithoutTrailing[Append(p, c)] = Shorten(WithoutTrailing[p], p, c)
  <2>1. Append(p, c) \in Text /\ Append(p, c) # <<>> /\ Front(Append(p, c)) = p /\ Last(Append(p, c)) = c
    BY TextAppend
  <2> QED BY <1>4, <2>1
<1> DEFINE S == {p \in Text : WithoutTrailing[p] \in T}
<1>7. ASSUME NEW p \in Text, NEW c \in Sign, p \in S PROVE Append(p, c) \in S
  <2>1. Append(p, c) \in Text
    BY TextAppend
  <2>2. WithoutTrailing[Append(p, c)] \in T
    BY <1>6, <1>7, <1>0
  <2> QED BY <2>1, <2>2
<1>8. \A p \in Text : p \in S
  <2>1. <<>> \in S
    BY <1>1, <1>5, Constants
  <2> HIDE DEF S
  <2> QED BY <1>7, <2>1, TextInduction
<1> QED BY <1>4, <1>5, <1>6, <1>8

(* std::unique in fs_drop_slash.                                           *)
LEMMA UniqueDef ==
  /\ Unique \in [Text -> Text] /\ Unique[<<>>] = <<>>
  /\ \A p \in Text, c \in Sign : Unique[Append(p, c)] = Keep(Unique[p], c)
<1> DEFINE T == Text
           step == [x \in T \X Text \X Sign |-> Keep(x[1], x[3])]
           F(g) == [p \in Text |->
                      IF p = <<>> THEN <<>> ELSE Keep(g[Front(p)], Last(p))]
<1>0. \A v \in T, p \in Text, c \in Sign : Keep(v, c) \in T
  BY TextAppend DEF Keep
<1>1. step \in Steps(Sign, T) /\ <<>> \in T
  BY <1>0, Constants, EmptySeq DEF Steps, Text
<1>2. PICK g \in [Text -> T] :
        g = [p \in Text |-> IF p = <<>> THEN <<>> ELSE step[<<g[Front(p)], Front(p), Last(p)>>]]
  <2> HIDE DEF step, T
  <2> QED BY <1>1, TextRecursion
<1>3. g = F(g)
  <2>1. ASSUME NEW p \in Text, p # <<>>
        PROVE  step[<<g[Front(p)], Front(p), Last(p)>>] = Keep(g[Front(p)], Last(p))
    <3>1. Front(p) \in Text /\ Last(p) \in Sign
      BY <2>1, TextFront
    <3>2. g[Front(p)] \in T
      BY <3>1
    <3> QED BY <3>1, <3>2
  <2> QED BY <1>2, <2>1, Zenon
<1>4. Unique = F(Unique)
  BY <1>3, Zenon DEF Unique
<1>5. Unique[<<>>] = <<>> /\ DOMAIN Unique = Text
  BY <1>4, Constants
<1>6. ASSUME NEW p \in Text, NEW c \in Sign PROVE Unique[Append(p, c)] = Keep(Unique[p], c)
  <2>1. Append(p, c) \in Text /\ Append(p, c) # <<>> /\ Front(Append(p, c)) = p /\ Last(Append(p, c)) = c
    BY TextAppend
  <2> QED BY <1>4, <2>1
<1> DEFINE S == {p \in Text : Unique[p] \in T}
<1>7. ASSUME NEW p \in Text, NEW c \in Sign, p \in S PROVE Append(p, c) \in S
  <2>1. Append(p, c) \in Text
    BY TextAppend
  <2>2. Unique[Append(p, c)] \in T
    BY <1>6, <1>7, <1>0
  <2> QED BY <2>1, <2>2
<1>8. \A p \in Text : p \in S
  <2>1. <<>> \in S
    BY <1>1, <1>5, Constants
  <2> HIDE DEF S
  <2> QED BY <1>7, <2>1, TextInduction
<1> QED BY <1>4, <1>5, <1>6, <1>8

(* The loop that puts names together again.                                *)
LEMMA JoinedDef ==
  /\ Joined \in [Seq(Text) -> Text] /\ Joined[<<>>] = <<>>
  /\ \A p \in Seq(Text), c \in Text : Joined[Append(p, c)] = (Joined[p] \o c \o Slash)
<1> DEFINE step == [x \in Text \X Seq(Text) \X Text |-> (x[1] \o x[3] \o Slash)]
           F(g) == [p \in Seq(Text) |->
                      IF p = <<>> THEN <<>> ELSE (g[Front(p)] \o Last(p) \o Slash)]
<1>0. \A v \in Text, p \in Seq(Text), c \in Text : (v \o c \o Slash) \in Text
  BY Constants, ConcatProperties DEF Text
<1>1. step \in Steps(Text, Text) /\ <<>> \in Text
  BY <1>0, Constants, EmptySeq DEF Steps
<1>2. PICK g \in [Seq(Text) -> Text] :
        g = [p \in Seq(Text) |-> IF p = <<>> THEN <<>> ELSE step[<<g[Front(p)], Front(p), Last(p)>>]]
  <2> HIDE DEF step
  <2> QED BY <1>1, Solution
<1>3. g = F(g)
  <2>1. ASSUME NEW p \in Seq(Text), p # <<>>
        PROVE  step[<<g[Front(p)], Front(p), Last(p)>>] = (g[Front(p)] \o Last(p) \o Slash)
    <3>1. Front(p) \in Seq(Text) /\ Last(p) \in Text
      BY <2>1, FrontLastAppend
    <3>2. g[Front(p)] \in Text
      BY <3>1
    <3> QED BY <3>1, <3>2
  <2> QED BY <1>2, <2>1, Zenon
<1>4. Joined = F(Joined)
  BY <1>3, Zenon DEF Joined
<1>5. Joined[<<>>] = <<>> /\ DOMAIN Joined = Seq(Text)
  BY <1>4, EmptySeq
<1>6. ASSUME NEW p \in Seq(Text), NEW c \in Text PROVE Joined[Append(p, c)] = (Joined[p] \o c \o Slash)
  <2>1. Append(p, c) \in Seq(Text) /\ Append(p, c) # <<>> /\ Front(Append(p, c)) = p /\ Last(Append(p, c)) = c
    BY AppendProperties, FrontLast
  <2> QED BY <1>4, <2>1
<1> DEFINE S == {p \in Seq(Text) : Joined[p] \in Text}
<1>7. \A p \in Seq(Text), c \in Text : p \in S => Append(p, c) \in S
  BY <1>0, <1>6, AppendProperties
<1>8. \A p \in Seq(Text) : p \in S
  <2>1. <<>> \in S
    BY <1>1, <1>5, EmptySeq
  <2> HIDE DEF S
  <2> QED BY <1>7, <2>1, SeqInduction
<1> QED BY <1>4, <1>5, <1>6, <1>8

(* The loop of fs_normal_vector.                                           *)
LEMMA NormalizedDef ==
  ASSUME NEW p
  PROVE  /\ Normalized(p, <<>>) = <<>>
         /\ \A ns \in Seq(Text) : Normalized(p, ns) \in Seq(Text)
         /\ \A ns \in Seq(Text), s \in Text : Normalized(p, Append(ns, s)) = NextNormal(p, Normalized(p, ns), s)
<1> DEFINE T == Seq(Text)
           step == [x \in T \X Seq(Text) \X Text |-> NextNormal(p, x[1], x[3])]
           F(g) == [ns \in Seq(Text) |-> IF ns = <<>> THEN <<>> ELSE NextNormal(p, g[Front(ns)], Last(ns))]
           f == CHOOSE g : g = F(g)
<1>0. \A v \in T, s \in Text : NextNormal(p, v, s) \in T
  <2> SUFFICES ASSUME NEW v \in T, NEW s \in Text PROVE NextNormal(p, v, s) \in T
    OBVIOUS
  <2>1. Append(v, s) \in T /\ Append(v, DotDot) \in T
    BY Constants, AppendProperties
  <2>2. v # <<>> => Front(v) \in T
    BY FrontLastAppend
  <2> QED BY <2>1, <2>2 DEF NextNormal, Back
<1>1. step \in Steps(Text, T) /\ <<>> \in T
  BY <1>0, EmptySeq DEF Steps
<1>2. PICK g \in [Seq(Text) -> T] :
        g = [s \in Seq(Text) |-> IF s = <<>> THEN <<>> ELSE step[<<g[Front(s)], Front(s), Last(s)>>]]
  <2> HIDE DEF step, T
  <2> QED BY <1>1, Solution
<1>3. g = F(g)
  <2>1. ASSUME NEW s \in Seq(Text), s # <<>>
        PROVE  step[<<g[Front(s)], Front(s), Last(s)>>] = NextNormal(p, g[Front(s)], Last(s))
    <3>1. Front(s) \in Seq(Text) /\ Last(s) \in Text
      BY <2>1, FrontLastAppend
    <3>2. g[Front(s)] \in T
      BY <3>1
    <3> QED BY <3>1, <3>2
  <2> QED BY <1>2, <2>1, Zenon
<1>4. f = F(f)
  <2> HIDE DEF F
  <2> QED BY <1>3, Zenon
<1>5. \A ns : Normalized(p, ns) = f[ns]
  BY Zenon DEF Normalized
<1> HIDE DEF f
<1>6. f[<<>>] = <<>> /\ DOMAIN f = Seq(Text)
  BY <1>4, EmptySeq
<1>7. ASSUME NEW ns \in Seq(Text), NEW s \in Text PROVE f[Append(ns, s)] = NextNormal(p, f[ns], s)
  <2>1. /\ Append(ns, s) \in Seq(Text) /\ Append(ns, s) # <<>>
        /\ Front(Append(ns, s)) = ns /\ Last(Append(ns, s)) = s
    BY AppendProperties, FrontLast
  <2> QED BY <1>4, <2>1
<1> DEFINE S == {ns \in Seq(Text) : f[ns] \in T}
<1>8. ASSUME NEW ns \in Seq(Text), NEW s \in Text, ns \in S PROVE Append(ns, s) \in S
  <2>1. Append(ns, s) \in Seq(Text)
    BY AppendProperties
  <2>2. f[Append(ns, s)] \in T
    BY <1>0, <1>7, <1>8
  <2> QED BY <2>1, <2>2
<1>9. \A ns \in Seq(Text) : ns \in S
  <2>1. <<>> \in S
    BY <1>1, <1>6, EmptySeq
  <2> HIDE DEF S
  <2> QED BY <1>8, <2>1, SeqInduction
<1>10. \A ns \in Seq(Text) : f[ns] \in Seq(Text)
  BY <1>9
<1> HIDE DEF F, step, S
<1> QED BY <1>5, <1>6, <1>7, <1>10

(* The reference: one name after the other.                                *)
LEMMA FollowDef ==
  ASSUME NEW dir \in Seq(Text)
  PROVE  /\ Follow(dir, <<>>) = dir
         /\ \A ns \in Seq(Text) : Follow(dir, ns) \in Seq(Text)
         /\ \A ns \in Seq(Text), s \in Text : Follow(dir, Append(ns, s)) = Enter(Follow(dir, ns), s)
<1> DEFINE T == Seq(Text)
           step == [x \in T \X Seq(Text) \X Text |-> Enter(x[1], x[3])]
           F(g) == [ns \in Seq(Text) |-> IF ns = <<>> THEN dir ELSE Enter(g[Front(ns)], Last(ns))]
           f == CHOOSE g : g = F(g)
<1>0. \A v \in T, s \in Text : Enter(v, s) \in T
  <2> SUFFICES ASSUME NEW v \in T, NEW s \in Text PROVE Enter(v, s) \in T
    OBVIOUS
  <2>1. Append(v, s) \in T
    BY AppendProperties
  <2>2. v # <<>> => Front(v) \in T
    BY FrontLastAppend
  <2> QED BY <2>1, <2>2 DEF Enter
<1>1. step \in Steps(Text, T) /\ dir \in T
  BY <1>0, EmptySeq DEF Steps
<1>2. PICK g \in [Seq(Text) -> T] :
        g = [s \in Seq(Text) |-> IF s = <<>> THEN dir ELSE step[<<g[Front(s)], Front(s), Last(s)>>]]
  <2> HIDE DEF step, T
  <2> QED BY <1>1, Solution
<1>3. g = F(g)
  <2>1. ASSUME NEW s \in Seq(Text), s # <<>>
        PROVE  step[<<g[Front(s)], Front(s), Last(s)>>] = Enter(g[Front(s)], Last(s))
    <3>1. Front(s) \in Seq(Text) /\ Last(s) \in Text
      BY <2>1, FrontLastAppend
    <3>2. g[Front(s)] \in T
      BY <3>1
    <3> QED BY <3>1, <3>2
  <2> QED BY <1>2, <2>1, Zenon
<1>4. f = F(f)
  <2> HIDE DEF F
  <2> QED BY <1>3, Zenon
<1>5. \A ns : Follow(dir, ns) = f[ns]
  BY Zenon DEF Follow
<1> HIDE DEF f
<1>6. f[<<>>] = dir /\ DOMAIN f = Seq(Text)
  BY <1>4, EmptySeq
<1>7. ASSUME NEW ns \in Seq(Text), NEW s \in Text PROVE f[Append(ns, s)] = Enter(f[ns], s)
  <2>1. /\ Append(ns, s) \in Seq(Text) /\ Append(ns, s) # <<>>
        /\ Front(Append(ns, s)) = ns /\ Last(Append(ns, s)) = s
    BY AppendProperties, FrontLast
  <2> QED BY <1>4, <2>1
<1> DEFINE S == {ns \in Seq(Text) : f[ns] \in T}
<1>8. ASSUME NEW ns \in Seq(Text), NEW s \in Text, ns \in S PROVE Append(ns, s) \in S
  <2>1. Append(ns, s) \in Seq(Text)
    BY AppendProperties
  <2>2. f[Append(ns, s)] \in T
    BY <1>0, <1>7, <1>8
  <2> QED BY <2>1, <2>2
<1>9. \A ns \in Seq(Text) : ns \in S
  <2>1. <<>> \in S
    BY <1>1, <1>6, EmptySeq
  <2> HIDE DEF S
  <2> QED BY <1>8, <2>1, SeqInduction
<1>10. \A ns \in Seq(Text) : f[ns] \in Seq(Text)
  BY <1>9
<1> HIDE DEF F, step, S
<1>11. Follow(dir, <<>>) = dir
  BY <1>5, <1>6
<1>12. ASSUME NEW ns \in Seq(Text) PROVE Follow(dir, ns) \in Seq(Text)
  BY <1>5, <1>10
<1>13. ASSUME NEW ns \in Seq(Text), NEW s \in Text
       PROVE  Follow(dir, Append(ns, s)) = Enter(Follow(dir, ns), s)
  BY <1>5, <1>7
<1> QED BY <1>11, <1>12, <1>13

-----------------------------------------------------------------------------
(***************************************************************************)
(* What Split does to texts that are put together.                         *)
(***************************************************************************)
(* The next character begins a new name.                                   *)
EndsOpen(p) == p = <<>> \/ Last(p) = "/"

NoSlash(p) == \A i \in DOMAIN p : p[i] # "/"

(* The names of files: no empty ones, and no slash in them.                *)
Word == {s \in Text : s # <<>> /\ NoSlash(s)}

(* Concatenation, one element at a time.                                   *)
LEMMA ConcatAppend ==
  ASSUME NEW A, NEW s \in Seq(A), NEW t \in Seq(A), NEW a \in A
  PROVE  s \o Append(t, a) = Append(s \o t, a)
<1>1. Append(t, a) = t \o <<a>> /\ s \o t \in Seq(A) /\ <<a>> \in Seq(A)
  BY AppendIsConcat, ConcatProperties
<1>2. Append(s \o t, a) = (s \o t) \o <<a>>
  BY <1>1, AppendIsConcat
<1> QED BY <1>1, <1>2, ConcatAssociative

(* The last element of a concatenation.                                    *)
LEMMA ConcatLast ==
  ASSUME NEW A, NEW s \in Seq(A), NEW t \in Seq(A), t # <<>>
  PROVE  s \o t # <<>> /\ Last(s \o t) = Last(t)
<1>1. Len(s) \in Nat /\ Len(t) \in Nat \ {0}
  BY EmptySeq, LenProperties
<1>2. /\ s \o t \in Seq(A) /\ Len(s \o t) = Len(s) + Len(t)
      /\ \A i \in 1 .. Len(s) + Len(t) : (s \o t)[i] = IF i <= Len(s) THEN s[i] ELSE t[i - Len(s)]
  BY ConcatProperties
<1>3. (s \o t)[Len(s) + Len(t)] = t[Len(t)]
  <2>1. Len(s) + Len(t) \in 1 .. Len(s) + Len(t) /\ ~ (Len(s) + Len(t) <= Len(s))
        /\ Len(s) + Len(t) - Len(s) = Len(t)
    BY <1>1
  <2> QED BY <1>2, <2>1
<1>4. s \o t # <<>>
  BY <1>1, <1>2, EmptySeq
<1> QED BY <1>2, <1>3, <1>4 DEF Last

(* To change the last element is to append another one to the front.       *)
WithLast(u, b) == [u EXCEPT ![Len(u)] = b]

(* Changing the last element of a sequence.                                *)
LEMMA ChangeLast ==
  ASSUME NEW A, NEW s \in Seq(A), NEW a \in A, NEW b \in A
  PROVE  WithLast(Append(s, a), b) = Append(s, b)
<1> DEFINE u == Append(s, a)
           v == [u EXCEPT ![Len(u)] = b]
<1>1. u \in Seq(A) /\ Len(u) = Len(s) + 1 /\ Len(s) \in Nat /\ \A i \in 1..Len(s) : u[i] = s[i]
  BY AppendProperties, LenProperties
<1>2. /\ Append(s, b) \in Seq(A) /\ Len(Append(s, b)) = Len(s) + 1
      /\ \A i \in 1..Len(s) : Append(s, b)[i] = s[i]
      /\ Append(s, b)[Len(s) + 1] = b
  BY AppendProperties
<1>3. Len(u) \in 1..Len(u)
  BY <1>1
<1>4. v \in Seq(A) /\ Len(v) = Len(u) /\ \A j \in 1..Len(u) : v[j] = IF j = Len(u) THEN b ELSE u[j]
  <2> HIDE DEF u
  <2> QED BY <1>1, <1>3, ExceptSeq
<1>5. \A i \in 1..Len(v) : v[i] = Append(s, b)[i]
  <2> HIDE DEF u, v
  <2> QED BY <1>1, <1>2, <1>4
<1>6. v = Append(s, b)
  <2> HIDE DEF u, v
  <2> QED BY <1>1, <1>2, <1>4, <1>5, SeqEqual
<1> QED BY <1>6 DEF WithLast

(* The texts of one character and the texts without slashes.               *)
LEMMA WordAppend ==
  ASSUME NEW s \in Text, NEW c \in Sign
  PROVE  /\ NoSlash(Append(s, c)) <=> NoSlash(s) /\ c # "/"
         /\ c # "/" => <<c>> \in Word /\ <<c>> = Append(<<>>, c)
         /\ c # "/" /\ s \in Word => Append(s, c) \in Word
<1>1. /\ Append(s, c) \in Text /\ DOMAIN Append(s, c) = 1..(Len(s) + 1) /\ Len(s) \in Nat
      /\ DOMAIN s = 1..Len(s)
      /\ \A i \in 1..Len(s) : Append(s, c)[i] = s[i]
      /\ Append(s, c)[Len(s) + 1] = c
  BY TextAppend, LenProperties DEF Text
<1>2. NoSlash(Append(s, c)) <=> NoSlash(s) /\ c # "/"
  <2>1. 1..(Len(s) + 1) = (1..Len(s)) \cup {Len(s) + 1}
    BY <1>1
  <2> QED BY <1>1, <2>1 DEF NoSlash
<1>3. c # "/" => <<c>> \in Word
  BY DEF Word, NoSlash, Text
<1>4. <<c>> = Append(<<>>, c)
  OBVIOUS
<1> QED BY <1>1, <1>2, <1>3, <1>4, TextAppend DEF Word

(* A character that is part of the last run makes it longer.               *)
LEMMA RunExtends ==
  ASSUME NEW ws \in Seq(Word), NEW w \in Word, NEW q, NEW c \in Sign, c # "/", ~ EndsOpen(q)
  PROVE  Append(w, c) \in Word /\ IntoRun(Append(ws, w), q, c) = Append(ws, Append(w, c))
<1> DEFINE u == Append(ws, w)
           b == Append(w, c)
<1>1. w \in Text /\ b \in Word
  BY WordAppend DEF Word
<1>2. u[Len(u)] = w
  BY AppendProperties
<1>3. IntoRun(u, q, c) = WithLast(u, b)
  <2>1. IntoRun(u, q, c) = [u EXCEPT ![Len(u)] = Append(@, c)]
    BY DEF IntoRun, EndsOpen
  <2> HIDE DEF u
  <2> QED BY <1>2, <2>1 DEF WithLast
<1>4. WithLast(u, b) = Append(ws, b)
  <2> HIDE DEF b
  <2> QED BY <1>1, ChangeLast
<1> QED BY <1>1, <1>3, <1>4

(* The words of a text, and that there is one if the text ends in it.      *)
LEMMA SplitWords ==
  ASSUME NEW p \in Text
  PROVE  Split[p] \in Seq(Word) /\ (~ EndsOpen(p) => Split[p] # <<>>)
<1> DEFINE Good(x) == Split[x] \in Seq(Word) /\ (~ EndsOpen(x) => Split[x] # <<>>)
           S == {x \in Text : Good(x)}
<1>1. <<>> \in S
  BY SplitDef, Constants, EmptySeq DEF EndsOpen
<1>2. ASSUME NEW x \in Text, NEW c \in Sign, x \in S PROVE Append(x, c) \in S
  <2>0. Split[x] \in Seq(Word) /\ (~ EndsOpen(x) => Split[x] # <<>>)
    BY <1>2
  <2>1. Split[Append(x, c)] = IntoRun(Split[x], x, c)
    BY SplitDef
  <2>2. Append(x, c) \in Text /\ Append(x, c) # <<>> /\ Last(Append(x, c)) = c
    BY TextAppend
  <2>3. CASE c = "/"
    BY <1>2, <2>1, <2>2, <2>3 DEF IntoRun, EndsOpen
  <2>4. CASE c # "/" /\ EndsOpen(x)
    <3>1. Split[Append(x, c)] = Append(Split[x], <<c>>)
      BY <2>1, <2>4 DEF IntoRun, EndsOpen
    <3>2. <<c>> \in Word
      BY <2>4, WordAppend
    <3>3. Split[Append(x, c)] \in Seq(Word) /\ Split[Append(x, c)] # <<>>
      BY <2>0, <3>1, <3>2, AppendProperties
    <3> QED BY <2>2, <3>3
  <2>5. CASE c # "/" /\ ~ EndsOpen(x)
    <3>1. PICK ws \in Seq(Word), w \in Word : Split[x] = Append(ws, w)
      BY <2>0, <2>5, SequenceEmptyOrAppend
    <3>2. Append(w, c) \in Word /\ Split[Append(x, c)] = Append(ws, Append(w, c))
      BY <2>1, <2>5, <3>1, RunExtends
    <3>3. Split[Append(x, c)] \in Seq(Word) /\ Split[Append(x, c)] # <<>>
      BY <3>2, AppendProperties
    <3> QED BY <2>2, <3>3
  <2> QED BY <2>3, <2>4, <2>5
<1>3. p \in S
  <2> HIDE DEF S
  <2> QED BY <1>1, <1>2, TextInduction
<1> QED BY <1>3

(* fs_split, case by case.                                                 *)
LEMMA SplitSlash ==
  ASSUME NEW p \in Text PROVE Split[Append(p, "/")] = Split[p]
BY SplitDef, Constants DEF IntoRun, Specials

(* After a slash, or at the front, a character begins a name (fs_split).   *)
LEMMA SplitBegins ==
  ASSUME NEW p \in Text, NEW c \in Sign, c # "/", EndsOpen(p)
  PROVE  Split[Append(p, c)] = Append(Split[p], <<c>>)
BY SplitDef DEF IntoRun, EndsOpen

(* After a character of a name, another one makes the name longer          *)
(* (fs_split).                                                             *)
LEMMA SplitExtends ==
  ASSUME NEW p \in Text, NEW c \in Sign, c # "/", ~ EndsOpen(p)
  PROVE  \E ws \in Seq(Word), w \in Word :
           /\ Split[p] = Append(ws, w)
           /\ Split[Append(p, c)] = Append(ws, Append(w, c)) /\ Append(w, c) \in Word
<1>1. Split[p] \in Seq(Word) /\ Split[p] # <<>>
  BY SplitWords
<1>2. PICK ws \in Seq(Word), w \in Word : Split[p] = Append(ws, w)
  BY <1>1, SequenceEmptyOrAppend
<1>3. Append(w, c) \in Word /\ IntoRun(Append(ws, w), p, c) = Append(ws, Append(w, c))
  BY RunExtends
<1> QED BY <1>2, <1>3, SplitDef

(* Texts in terms of the sequences they are.                               *)
LEMMA TextConcat ==
  ASSUME NEW x \in Text, NEW y \in Text
  PROVE  x \o y \in Text /\ Len(x \o y) = Len(x) + Len(y)
BY ConcatProperties DEF Text

(* The empty text changes no text it is put before or after.               *)
LEMMA TextEmpty ==
  ASSUME NEW x \in Text PROVE x \o <<>> = x /\ <<>> \o x = x
BY ConcatEmptySeq DEF Text

(* Two texts in a row end as the second one does.                          *)
LEMMA TextLast ==
  ASSUME NEW x \in Text, NEW y \in Text, y # <<>>
  PROVE  x \o y # <<>> /\ Last(x \o y) = Last(y)
BY ConcatLast DEF Text

(* A character after two texts in a row is a character after the second    *)
(* one.                                                                    *)
LEMMA TextConcatAppend ==
  ASSUME NEW x \in Text, NEW y \in Text, NEW c \in Sign
  PROVE  x \o Append(y, c) = Append(x \o y, c) /\ Append(y, c) \in Text /\ x \o y \in Text
BY ConcatProperties, AppendProperties, ConcatAppend DEF Text

(* Three texts in a row, whichever two are put together first.             *)
LEMMA TextThree ==
  ASSUME NEW x \in Text, NEW y \in Text, NEW z \in Text
  PROVE  x \o y \o z = x \o (y \o z) /\ x \o y \o z \in Text /\ y \o z \in Text
BY ConcatProperties, ConcatAssociative DEF Text

(* ... and lists of words.                                                 *)
LEMMA WordsConcatAppend ==
  ASSUME NEW x \in Seq(Word), NEW y \in Seq(Word), NEW w \in Word
  PROVE  x \o Append(y, w) = Append(x \o y, w) /\ x \o y \in Seq(Word) /\ Append(y, w) \in Seq(Word)
BY ConcatProperties, AppendProperties, ConcatAppend

(* Where a name begins, the words of the two parts are the words of all.   *)
LEMMA SplitConcat ==
  ASSUME NEW x \in Text, NEW y \in Text, EndsOpen(x)
  PROVE  Split[x \o y] = Split[x] \o Split[y]
<1> DEFINE S == {z \in Text : Split[x \o z] = Split[x] \o Split[z]}
<1>0. Split[x] \in Seq(Word)
  BY SplitWords
<1>1. <<>> \in S
  <2>1. Split[x] \o Split[<<>>] = Split[x]
    BY <1>0, SplitDef, ConcatEmptySeq
  <2> QED BY <2>1, TextEmpty, Constants
<1>2. ASSUME NEW z \in Text, NEW c \in Sign, z \in S PROVE Append(z, c) \in S
  <2>1. Append(z, c) \in Text /\ x \o z \in Text /\ x \o Append(z, c) = Append(x \o z, c)
    BY TextConcatAppend
  <2>2. Split[z] \in Seq(Word) /\ Split[x \o z] = Split[x] \o Split[z]
    BY <1>2, SplitWords
  <2>3. EndsOpen(z) <=> EndsOpen(x \o z)
    BY TextLast, TextEmpty DEF EndsOpen
  <2>4. CASE c = "/"
    BY <2>1, <2>2, <2>4, SplitSlash
  <2>5. CASE c # "/" /\ EndsOpen(z)
    <3>1. Split[Append(z, c)] = Append(Split[z], <<c>>)
      BY <2>5, SplitBegins
    <3>2. Split[Append(x \o z, c)] = Append(Split[x \o z], <<c>>)
      BY <2>1, <2>3, <2>5, SplitBegins
    <3>3. <<c>> \in Word
      BY <2>5, WordAppend
    <3>4. Append(Split[x] \o Split[z], <<c>>) = Split[x] \o Append(Split[z], <<c>>)
      BY <1>0, <2>2, <3>3, WordsConcatAppend
    <3> QED BY <2>1, <2>2, <3>1, <3>2, <3>4
  <2>6. CASE c # "/" /\ ~ EndsOpen(z)
    <3>1. PICK ws \in Seq(Word), w \in Word :
            /\ Split[z] = Append(ws, w)
            /\ Split[Append(z, c)] = Append(ws, Append(w, c)) /\ Append(w, c) \in Word
      BY <2>6, SplitExtends
    <3>2. Split[x] \o ws \in Seq(Word) /\ Split[x \o z] = Append(Split[x] \o ws, w)
      <4>1. /\ Split[x] \o Append(ws, w) = Append(Split[x] \o ws, w)
            /\ Split[x] \o ws \in Seq(Word)
        BY <1>0, WordsConcatAppend
      <4> QED BY <2>2, <3>1, <4>1
    <3>3. IntoRun(Append(Split[x] \o ws, w), x \o z, c) = Append(Split[x] \o ws, Append(w, c))
      BY <2>3, <2>6, <3>2, RunExtends
    <3>4. Split[Append(x \o z, c)] = Append(Split[x] \o ws, Append(w, c))
      BY <2>1, <3>2, <3>3, SplitDef
    <3>5. Append(Split[x] \o ws, Append(w, c)) = Split[x] \o Append(ws, Append(w, c))
      BY <1>0, <3>1, WordsConcatAppend
    <3> QED BY <2>1, <3>1, <3>4, <3>5
  <2> QED BY <2>4, <2>5, <2>6
<1>3. y \in S
  <2> HIDE DEF S
  <2> QED BY <1>1, <1>2, TextInduction
<1> QED BY <1>3

(* A word is the only word of itself.                                      *)
LEMMA SplitWord ==
  ASSUME NEW s \in Word
  PROVE  Split[s] = <<s>> /\ s \in Text /\ s # <<>> /\ ~ EndsOpen(s) /\ ~ SlashFirst(s)
<1> DEFINE S == {z \in Text : z \in Word => Split[z] = <<z>> /\ ~ EndsOpen(z) /\ ~ SlashFirst(z)}
<1>1. <<>> \in S
  BY Constants DEF Word
<1>2. ASSUME NEW z \in Text, NEW c \in Sign, z \in S PROVE Append(z, c) \in S
  <2> SUFFICES ASSUME Append(z, c) \in Word
               PROVE  /\ Split[Append(z, c)] = <<Append(z, c)>>
                      /\ ~ EndsOpen(Append(z, c)) /\ ~ SlashFirst(Append(z, c))
    BY TextAppend
  <2>1. c # "/" /\ (z = <<>> \/ z \in Word)
    BY WordAppend DEF Word
  <2>2. ~ EndsOpen(Append(z, c))
    BY <2>1, TextAppend DEF EndsOpen
  <2>3. ~ SlashFirst(Append(z, c))
    <3>1. DOMAIN Append(z, c) = 1..(Len(z) + 1) /\ Len(z) \in Nat
      BY TextAppend, LenProperties DEF Text
    <3>2. 1 \in DOMAIN Append(z, c)
      BY <3>1
    <3> QED BY <3>2 DEF Word, NoSlash, SlashFirst
  <2>4. CASE z = <<>>
    <3>1. Append(z, c) = <<c>>
      BY <2>4
    <3>2. Split[Append(z, c)] = Append(<<>>, <<c>>)
      BY <2>1, <2>4, SplitDef DEF IntoRun
    <3> QED BY <2>2, <2>3, <3>1, <3>2
  <2>5. CASE z \in Word
    <3>1. Split[z] = <<z>> /\ ~ EndsOpen(z)
      BY <1>2, <2>5
    <3>2. <<z>> = Append(<<>>, z) /\ <<>> \in Seq(Word) /\ <<Append(z, c)>> = Append(<<>>, Append(z, c))
      BY EmptySeq
    <3>3. IntoRun(Append(<<>>, z), z, c) = Append(<<>>, Append(z, c))
      BY <2>1, <2>5, <3>1, <3>2, RunExtends
    <3>4. Split[Append(z, c)] = <<Append(z, c)>>
      BY <3>1, <3>2, <3>3, SplitDef
    <3> QED BY <2>2, <2>3, <3>4
  <2> QED BY <2>1, <2>2, <2>3, <2>4, <2>5
<1>3. \A z \in Text : z \in S
  <2> HIDE DEF S
  <2> QED BY <1>1, <1>2, TextInduction
<1> QED BY <1>3 DEF Word

(* A slash at the end or between two texts.                                *)
LEMMA AppendSlash ==
  ASSUME NEW p \in Text
  PROVE  p \o Slash = Append(p, "/") /\ p \o Slash \in Text /\ EndsOpen(p \o Slash)
         /\ Split[p \o Slash] = Split[p]
<1>1. "/" \in Sign /\ Slash = <<"/">>
  BY Constants DEF Specials, Slash
<1>2. p \o Slash = Append(p, "/")
  BY <1>1, AppendIsConcat DEF Text
<1>3. Append(p, "/") \in Text /\ Last(Append(p, "/")) = "/" /\ Split[Append(p, "/")] = Split[p]
  BY <1>1, TextAppend, SplitSlash
<1> QED BY <1>2, <1>3 DEF EndsOpen

(* A slash between two paths keeps their names apart (fs_split).           *)
LEMMA SplitBetween ==
  ASSUME NEW x \in Text, NEW y \in Text
  PROVE  Split[x \o Slash \o y] = Split[x] \o Split[y] /\ x \o Slash \o y \in Text
<1>1. x \o Slash \in Text /\ EndsOpen(x \o Slash) /\ Split[x \o Slash] = Split[x]
  BY AppendSlash
<1> QED BY <1>1, SplitConcat, TextConcat

(* The first character of a concatenation.                                 *)
LEMMA FirstOfConcat ==
  ASSUME NEW x \in Text, NEW y \in Text, x # <<>>
  PROVE  x \o y # <<>> /\ (x \o y)[1] = x[1] /\ (SlashFirst(x \o y) <=> SlashFirst(x))
<1>1. Len(x) \in Nat \ {0} /\ Len(y) \in Nat
  BY EmptySeq, LenProperties DEF Text
<1>2. /\ x \o y \in Text /\ Len(x \o y) = Len(x) + Len(y)
      /\ \A i \in 1 .. Len(x) + Len(y) : (x \o y)[i] = IF i <= Len(x) THEN x[i] ELSE y[i - Len(x)]
  BY ConcatProperties DEF Text
<1>3. (x \o y)[1] = x[1]
  <2>1. 1 \in 1 .. Len(x) + Len(y) /\ 1 <= Len(x)
    BY <1>1
  <2> QED BY <1>2, <2>1
<1>4. x \o y # <<>>
  BY <1>1, <1>2, EmptySeq
<1> QED BY <1>3, <1>4 DEF SlashFirst

-----------------------------------------------------------------------------
(***************************************************************************)
(* What fs_drop_slash keeps, and names put together again.                 *)
(***************************************************************************)
(* One more character changes the first one only of the empty text.        *)
LEMMA SlashFirstAppend ==
  ASSUME NEW p \in Text, NEW c \in Sign
  PROVE  SlashFirst(Append(p, c)) <=> IF p = <<>> THEN c = "/" ELSE SlashFirst(p)
<1>1. p # <<>> => 1 \in 1..Len(p)
  BY EmptySeq, LenProperties DEF Text
<1>2. p # <<>> => Append(p, c)[1] = p[1]
  BY <1>1, TextAppend
<1>3. p = <<>> => Append(p, c)[1] = c
  OBVIOUS
<1> QED BY <1>2, <1>3, TextAppend DEF SlashFirst

(* The slashes at the end name nothing.                                    *)
Trimmed(t, p) ==
  /\ t \in Text /\ Split[t] = Split[p] /\ (t = <<>> <=> p = <<>>)
  /\ SlashFirst(t) <=> SlashFirst(p)
  /\ Len(t) <= Len(p)

(* What is left without the slashes at the end has the same names and the  *)
(* same first character, and no slash at its end unless it is all there is *)
(* (fs_drop_slash).                                                        *)
LEMMA WithoutTrailingHolds ==
  ASSUME NEW p \in Text
  PROVE  /\ Trimmed(WithoutTrailing[p], p)
         /\ Len(WithoutTrailing[p]) > 1 => Last(WithoutTrailing[p]) # "/"
         /\ ~ EndsOpen(p) => WithoutTrailing[p] = p
         /\ p \in Seq(Char) => WithoutTrailing[p] \in Seq(Char)
<1> DEFINE Good(x) == /\ Trimmed(WithoutTrailing[x], x)
                      /\ Len(WithoutTrailing[x]) > 1 => Last(WithoutTrailing[x]) # "/"
                      /\ ~ EndsOpen(x) => WithoutTrailing[x] = x
                      /\ x \in Seq(Char) => WithoutTrailing[x] \in Seq(Char)
           S == {x \in Text : Good(x)}
<1>1. <<>> \in S
  <2>1. WithoutTrailing[<<>>] = <<>> /\ <<>> \in Text /\ <<>> \in Seq(Char)
    BY WithoutTrailingDef, Constants, EmptySeq
  <2>2. Len(<<>>) = 0 /\ EndsOpen(<<>>)
    BY EmptySeq DEF EndsOpen
  <2>3. Good(<<>>)
    BY <2>1, <2>2 DEF Trimmed
  <2> QED BY <2>1, <2>3
<1>2. ASSUME NEW x \in Text, NEW c \in Sign, x \in S PROVE Append(x, c) \in S
  <2>0. Good(x)
    BY <1>2
  <2> HIDE DEF Good
  <2>1. WithoutTrailing[Append(x, c)] = Shorten(WithoutTrailing[x], x, c)
    BY WithoutTrailingDef
  <2>2. /\ Append(x, c) \in Text /\ Append(x, c) # <<>> /\ Last(Append(x, c)) = c
        /\ Len(Append(x, c)) = Len(x) + 1 /\ Len(x) \in Nat
    BY TextAppend
  <2>3. CASE x # <<>> /\ c = "/"
    <3>1. WithoutTrailing[Append(x, c)] = WithoutTrailing[x]
      BY <2>1, <2>3 DEF Shorten
    <3>2. Split[Append(x, c)] = Split[x] /\ (SlashFirst(Append(x, c)) <=> SlashFirst(x))
      BY <2>3, SplitSlash, SlashFirstAppend
    <3>3. Append(x, c) \in Seq(Char) => x \in Seq(Char)
      <4>1. Append(x, c) \in Seq(Char) => Front(Append(x, c)) \in Seq(Char)
        BY <2>2, FrontLastAppend
      <4> QED BY <4>1, TextAppend
    <3>4. EndsOpen(Append(x, c))
      BY <2>2, <2>3 DEF EndsOpen
    <3>5. Len(WithoutTrailing[x]) <= Len(x) /\ Len(WithoutTrailing[x]) \in Nat
      BY <2>0, LenProperties DEF Good, Trimmed, Text
    <3>6. Trimmed(WithoutTrailing[x], Append(x, c))
      BY <2>0, <2>2, <2>3, <3>2, <3>5 DEF Good, Trimmed
    <3>7. Good(Append(x, c))
      BY <2>0, <3>1, <3>3, <3>4, <3>6 DEF Good
    <3> QED BY <2>2, <3>7
  <2>4. CASE x = <<>> \/ c # "/"
    <3>1. WithoutTrailing[Append(x, c)] = Append(x, c)
      BY <2>1, <2>4 DEF Shorten
    <3>2. Len(Append(x, c)) > 1 => c # "/"
      BY <2>2, <2>4, EmptySeq
    <3>3. Good(Append(x, c))
      BY <2>2, <3>1, <3>2 DEF Good, Trimmed
    <3> QED BY <2>2, <3>3
  <2> QED BY <2>3, <2>4
<1>3. p \in S
  <2> HIDE DEF S
  <2> QED BY <1>1, <1>2, TextInduction
<1> QED BY <1>3

(* Names put together: the equation, and where the text they make ends.    *)
LEMMA JoinedAppend ==
  ASSUME NEW ns \in Seq(Text), NEW w \in Text
  PROVE  Joined[Append(ns, w)] = Append(Joined[ns] \o w, "/") /\ Joined[ns] \in Text
<1>1. Joined[ns] \in Text /\ Joined[ns] \o w \in Text
  BY JoinedDef, TextConcat
<1>2. Joined[Append(ns, w)] = Joined[ns] \o w \o Slash
  BY JoinedDef
<1> QED BY <1>1, <1>2, AppendSlash

(* One name more makes a path longer by that name and a slash (fs_normal). *)
LEMMA RebuiltAppend ==
  ASSUME NEW p, NEW ns \in Seq(Text), NEW w \in Text
  PROVE  /\ Rebuilt(p, ns) \in Text
         /\ Rebuilt(p, Append(ns, w)) = Append(Rebuilt(p, ns) \o w, "/")
<1> DEFINE pre == IF SlashFirst(p) THEN Slash ELSE <<>>
<1>1. pre \in Text /\ Joined[ns] \in Text /\ Joined[ns] \o w \in Text /\ "/" \in Sign
  BY Constants, JoinedDef, TextConcat DEF Specials
<1>2. Rebuilt(p, ns) = pre \o Joined[ns] /\ Rebuilt(p, Append(ns, w)) = pre \o Joined[Append(ns, w)]
  BY DEF Rebuilt
<1> HIDE DEF pre
<1>3. Joined[Append(ns, w)] = Append(Joined[ns] \o w, "/")
  BY JoinedAppend
<1>4. pre \o Append(Joined[ns] \o w, "/") = Append(pre \o (Joined[ns] \o w), "/")
  BY <1>1, TextConcatAppend
<1>5. pre \o Joined[ns] \o w = pre \o (Joined[ns] \o w)
  BY <1>1, TextThree
<1>6. pre \o Joined[ns] \in Text
  BY <1>1, TextConcat
<1> QED BY <1>2, <1>3, <1>4, <1>5, <1>6

(* Without names a path is "/" or nothing (fs_normal).                     *)
LEMMA RebuiltEmpty ==
  ASSUME NEW p PROVE Rebuilt(p, <<>>) = IF SlashFirst(p) THEN Slash ELSE <<>>
<1>1. Joined[<<>>] = <<>>
  BY JoinedDef
<1> QED BY <1>1, TextEmpty, Constants DEF Rebuilt

(* std::unique keeps names, the first and the last character, and what it  *)
(* leaves is what the names give when they are put together.               *)
LEMMA KeepCases ==
  ASSUME NEW p \in Text, NEW c \in Sign, Last(Unique[p]) = Last(p), Unique[p] = <<>> <=> p = <<>>
  PROVE  Unique[Append(p, c)] = IF c = "/" /\ p # <<>> /\ Last(p) = "/" THEN Unique[p] ELSE Append(Unique[p], c)
BY UniqueDef DEF Keep

(* Without slashes in a row a path has the same names, and it is the names *)
(* with one slash after each, but for the last one (std::unique).          *)
LEMMA UniqueHolds ==
  ASSUME NEW p \in Text
  PROVE  /\ Trimmed(Unique[p], p) /\ Last(Unique[p]) = Last(p)
         /\ p \in Seq(Char) => Unique[p] \in Seq(Char)
         /\ Rebuilt(p, Split[p]) = IF EndsOpen(p) THEN Unique[p] ELSE Append(Unique[p], "/")
<1> DEFINE Kept(x) == Trimmed(Unique[x], x) /\ Last(Unique[x]) = Last(x)
           Char2(x) == x \in Seq(Char) => Unique[x] \in Seq(Char)
           Names2(x) == Rebuilt(x, Split[x]) = IF EndsOpen(x) THEN Unique[x] ELSE Append(Unique[x], "/")
           Good(x) == Kept(x) /\ Char2(x) /\ Names2(x)
           S == {x \in Text : Good(x)}
<1>1. <<>> \in S
  <2>1. /\ Unique[<<>>] = <<>> /\ Split[<<>>] = <<>> /\ <<>> \in Text /\ <<>> \in Seq(Char)
        /\ Len(<<>>) = 0 /\ EndsOpen(<<>>) /\ ~ SlashFirst(<<>>)
    BY UniqueDef, SplitDef, Constants, EmptySeq DEF EndsOpen, SlashFirst
  <2>2. Rebuilt(<<>>, <<>>) = <<>>
    BY <2>1, RebuiltEmpty
  <2>3. Good(<<>>)
    BY <2>1, <2>2 DEF Trimmed
  <2> QED BY <2>1, <2>3
<1>2. ASSUME NEW x \in Text, NEW c \in Sign, x \in S PROVE Append(x, c) \in S
  <2> DEFINE y == Append(x, c)
             u == Unique[x]
             v == Unique[y]
  <2>0. Good(x)
    BY <1>2
  <2>1. u \in Text /\ Split[u] = Split[x] /\ (u = <<>> <=> x = <<>>) /\ (SlashFirst(u) <=> SlashFirst(x))
        /\ Len(u) <= Len(x) /\ Last(u) = Last(x) /\ Len(u) \in Nat /\ Len(x) \in Nat
    BY <2>0, LenProperties DEF Trimmed, Text
  <2>2. y \in Text /\ y # <<>> /\ Last(y) = c /\ Len(y) = Len(x) + 1
    BY TextAppend
  <2>3. v = IF c = "/" /\ x # <<>> /\ Last(x) = "/" THEN u ELSE Append(u, c)
    BY <2>1, KeepCases
  <2>4. Append(u, c) \in Text /\ Append(u, c) # <<>> /\ Last(Append(u, c)) = c /\ Len(Append(u, c)) = Len(u) + 1
    BY <2>1, TextAppend
  <2>5. /\ SlashFirst(y) <=> IF x = <<>> THEN c = "/" ELSE SlashFirst(x)
        /\ SlashFirst(Append(u, c)) <=> IF u = <<>> THEN c = "/" ELSE SlashFirst(u)
    BY <2>1, SlashFirstAppend
  <2>6. EndsOpen(x) <=> EndsOpen(u)
    BY <2>1 DEF EndsOpen
  <2>7. y \in Seq(Char) => x \in Seq(Char) /\ c \in Char
    <3>1. y \in Seq(Char) => Front(y) \in Seq(Char) /\ Last(y) \in Char
      BY <2>2, FrontLastAppend
    <3> QED BY <3>1, TextAppend
  <2>8. Char2(y)
    <3>1. y \in Seq(Char) => u \in Seq(Char) /\ c \in Char
      BY <2>0, <2>7
    <3>2. y \in Seq(Char) => Append(u, c) \in Seq(Char)
      BY <3>1, AppendProperties
    <3> HIDE DEF u, v, y
    <3> QED BY <2>3, <3>1, <3>2 DEF v
  <2>9. EndsOpen(y) <=> c = "/"
    BY <2>2 DEF EndsOpen
  <2>10. \A ns : (SlashFirst(y) <=> SlashFirst(x)) => Rebuilt(y, ns) = Rebuilt(x, ns)
    BY DEF Rebuilt
  <2>11. Split[x] \in Seq(Word) /\ Seq(Word) \subseteq Seq(Text)
    BY SplitWords DEF Word
  <2> HIDE DEF u, v, y
  <2>12. CASE c = "/" /\ x # <<>> /\ Last(x) = "/"
    <3>1. v = u /\ EndsOpen(x)
      BY <2>3, <2>12 DEF EndsOpen
    <3>2. Split[y] = Split[x]
      BY <2>12, SplitSlash DEF y
    <3>3. SlashFirst(y) <=> SlashFirst(x)
      BY <2>5, <2>12
    <3>4. Names2(y)
      <4>1. Rebuilt(y, Split[y]) = u
        BY <2>0, <2>10, <3>1, <3>2, <3>3 DEF u
      <4> QED BY <2>9, <2>12, <3>1, <4>1 DEF v
    <3>5. Kept(y)
      BY <2>1, <2>2, <2>12, <3>1, <3>2, <3>3 DEF Trimmed, v
    <3>6. Good(y)
      BY <2>8, <3>4, <3>5
    <3> QED BY <2>2, <3>6 DEF y
  <2>13. CASE c = "/" /\ ~ (x # <<>> /\ Last(x) = "/")
    <3>1. v = Append(u, "/")
      BY <2>3, <2>13
    <3>2. Split[y] = Split[x] /\ Split[v] = Split[u]
      BY <2>1, <2>13, <3>1, SplitSlash DEF y
    <3>3. SlashFirst(v) <=> SlashFirst(y)
      BY <2>1, <2>5, <2>13, <3>1
    <3>4. Names2(y)
      <4>1. CASE x = <<>>
        <5>1. Split[y] = <<>> /\ SlashFirst(y)
          BY <2>5, <2>13, <3>2, <4>1, SplitDef
        <5>2. Rebuilt(y, Split[y]) = Slash /\ v = Slash
          BY <2>1, <3>1, <4>1, <5>1, RebuiltEmpty DEF Slash
        <5> QED BY <2>9, <2>13, <5>2 DEF v
      <4>2. CASE x # <<>>
        <5>1. ~ EndsOpen(x) /\ (SlashFirst(y) <=> SlashFirst(x))
          BY <2>5, <2>13, <4>2 DEF EndsOpen
        <5>2. Rebuilt(y, Split[y]) = Append(u, "/")
          BY <2>0, <2>10, <3>2, <5>1 DEF u
        <5> QED BY <2>9, <2>13, <3>1, <5>2 DEF v
      <4> QED BY <4>1, <4>2
    <3>5. Kept(y)
      BY <2>1, <2>2, <2>4, <2>13, <3>1, <3>2, <3>3 DEF Trimmed, v
    <3>6. Good(y)
      BY <2>8, <3>4, <3>5
    <3> QED BY <2>2, <3>6 DEF y
  <2>14. CASE c # "/"
    <3>1. v = Append(u, c)
      BY <2>3, <2>14
    <3>2. SlashFirst(v) <=> SlashFirst(y)
      BY <2>1, <2>5, <3>1
    <3>3. Split[v] = Split[y] /\ Rebuilt(y, Split[y]) = Append(v, "/")
      <4>1. CASE EndsOpen(x)
        <5>1. <<c>> \in Text /\ <<c>> \in Word
          BY <2>14, WordAppend DEF Word
        <5>2. Split[y] = Append(Split[x], <<c>>) /\ Split[v] = Append(Split[u], <<c>>)
          BY <2>1, <2>6, <2>14, <3>1, <4>1, SplitBegins DEF y
        <5>3. Rebuilt(y, Append(Split[x], <<c>>)) = Append(Rebuilt(y, Split[x]) \o <<c>>, "/")
          BY <2>11, <5>1, RebuiltAppend
        <5>4. Rebuilt(y, Split[x]) = u
          <6>1. CASE x = <<>>
            BY <2>1, <2>5, <2>14, <6>1, SplitDef, RebuiltEmpty
          <6>2. CASE x # <<>>
            BY <2>0, <2>5, <2>10, <4>1, <6>2 DEF u
          <6> QED BY <6>1, <6>2
        <5>5. u \o <<c>> = Append(u, c)
          BY <2>1, AppendIsConcat DEF Text
        <5> QED BY <2>1, <3>1, <5>2, <5>3, <5>4, <5>5
      <4>2. CASE ~ EndsOpen(x)
        <5>1. PICK ws \in Seq(Word), w \in Word :
                /\ Split[x] = Append(ws, w)
                /\ Split[Append(x, c)] = Append(ws, Append(w, c)) /\ Append(w, c) \in Word
          BY <2>14, <4>2, SplitExtends
        <5>2. IntoRun(Append(ws, w), u, c) = Append(ws, Append(w, c))
          BY <2>6, <2>14, <4>2, RunExtends
        <5>3. Split[v] = Append(ws, Append(w, c)) /\ Split[y] = Append(ws, Append(w, c))
          BY <2>1, <3>1, <5>1, <5>2, SplitDef DEF y
        <5>4. ws \in Seq(Text) /\ w \in Text /\ Append(w, c) \in Text
          BY <2>11, <5>1 DEF Word
        <5>5. SlashFirst(y) <=> SlashFirst(x)
          BY <2>5, <4>2 DEF EndsOpen
        <5>6. Rebuilt(x, ws) \in Text /\ Rebuilt(x, Append(ws, w)) = Append(Rebuilt(x, ws) \o w, "/")
          BY <5>4, RebuiltAppend
        <5>7. Rebuilt(x, Append(ws, w)) = Append(u, "/")
          BY <2>0, <4>2, <5>1 DEF u
        <5>8. Rebuilt(x, ws) \o w = u
          <6>1. Rebuilt(x, ws) \o w \in Text /\ "/" \in Sign
            BY <5>4, <5>6, TextConcat, Constants DEF Specials
          <6> QED BY <2>1, <5>6, <5>7, <6>1, TextInjective
        <5>9. Rebuilt(y, Append(ws, Append(w, c))) = Append(Rebuilt(x, ws) \o Append(w, c), "/")
          BY <2>10, <5>4, <5>5, RebuiltAppend
        <5>10. Rebuilt(x, ws) \o Append(w, c) = Append(Rebuilt(x, ws) \o w, c)
          BY <5>4, <5>6, TextConcatAppend
        <5> QED BY <3>1, <5>3, <5>8, <5>9, <5>10
      <4> QED BY <4>1, <4>2
    <3>4. Names2(y)
      BY <2>9, <2>14, <3>3 DEF v
    <3>5. Kept(y)
      BY <2>1, <2>2, <2>4, <3>1, <3>2, <3>3 DEF Trimmed, v
    <3>6. Good(y)
      BY <2>8, <3>4, <3>5
    <3> QED BY <2>2, <3>6 DEF y
  <2> QED BY <2>12, <2>13, <2>14
<1>3. p \in S
  <2> HIDE DEF S
  <2> QED BY <1>1, <1>2, TextInduction
<1> QED BY <1>3

(* fs_drop_slash returns the names put together again, without the slash   *)
(* behind the last one.                                                    *)
LEMMA DropSlashHolds ==
  ASSUME NEW p \in Text
  PROVE  /\ Trimmed(DropSlash(p), p)
         /\ p \in Seq(Char) => DropSlash(p) \in Seq(Char)
         /\ Rebuilt(p, Split[p]) = IF Len(Rebuilt(p, Split[p])) > 1 THEN Append(DropSlash(p), "/")
                                   ELSE DropSlash(p)
         /\ Len(Rebuilt(p, Split[p])) > 1 <=> DropSlash(p) # <<>> /\ DropSlash(p) # Slash
<1> DEFINE t == WithoutTrailing[p]
           d == DropSlash(p)
           R == Rebuilt(p, Split[p])
<1>1. Trimmed(t, p) /\ (Len(t) > 1 => Last(t) # "/") /\ (p \in Seq(Char) => t \in Seq(Char))
  BY WithoutTrailingHolds
<1>2. t \in Text /\ d = Unique[t]
  BY <1>1 DEF Trimmed, DropSlash
<1>3. /\ Trimmed(d, t) /\ Last(d) = Last(t) /\ (t \in Seq(Char) => d \in Seq(Char))
      /\ Rebuilt(t, Split[t]) = IF EndsOpen(t) THEN d ELSE Append(d, "/")
  BY <1>2, UniqueHolds
<1>4. Rebuilt(t, Split[t]) = R
  BY <1>1 DEF Trimmed, Rebuilt
<1>5. Len(d) \in Nat /\ Len(t) \in Nat /\ Len(p) \in Nat /\ d \in Text
  BY <1>1, <1>3, LenProperties DEF Trimmed, Text
<1>6. Trimmed(d, p)
  BY <1>1, <1>3, <1>5 DEF Trimmed
<1>7. CASE EndsOpen(t)
  <2>1. Len(t) <= 1
    BY <1>1, <1>5, <1>7, EmptySeq DEF EndsOpen
  <2>2. Len(d) <= 1 /\ R = d
    BY <1>3, <1>4, <1>5, <1>7, <2>1 DEF Trimmed
  <2>3. d # <<>> => d = Slash
    <3>1. d # <<>> => Len(d) = 1 /\ d[1] = "/"
      <4> SUFFICES ASSUME d # <<>> PROVE Len(d) = 1 /\ d[1] = "/"
        OBVIOUS
      <4>1. Len(d) # 0
        BY <1>5, EmptySeq DEF Text
      <4>2. t # <<>>
        BY <1>3 DEF Trimmed
      <4>3. Last(d) = "/"
        BY <1>3, <1>7, <4>2 DEF EndsOpen
      <4>4. Len(d) \in Nat /\ Len(d) <= 1
        BY <1>5, <2>2
      <4>5. \A n \in Nat : n <= 1 /\ n # 0 => n = 1
        OBVIOUS
      <4>6. Len(d) = 1
        BY <4>1, <4>4, <4>5
      <4> HIDE DEF d
      <4> QED BY <4>3, <4>6 DEF Last
    <3>2. d # <<>> => d = <<"/">>
      BY <3>1, <1>5, SeqEqual, Constants DEF Slash, Text
    <3> QED BY <3>2 DEF Slash
  <2> QED BY <1>1, <1>3, <1>5, <1>6, <2>2, <2>3
<1>8. CASE ~ EndsOpen(t)
  <2>1. R = Append(d, "/") /\ d # <<>> /\ d # Slash
    <3>1. t # <<>> /\ Last(t) # "/"
      BY <1>8 DEF EndsOpen
    <3>2. Last(Slash) = "/"
      BY Constants DEF Last
    <3>3. d # <<>> /\ Last(d) # "/"
      BY <1>3, <3>1 DEF Trimmed
    <3> QED BY <1>3, <1>4, <1>8, <3>2, <3>3
  <2>2. Len(R) = Len(d) + 1 /\ Len(d) # 0
    BY <1>5, <2>1, TextAppend, Constants, EmptySeq DEF Specials, Text
  <2>3. Len(R) > 1
    BY <1>5, <2>2
  <2> QED BY <1>1, <1>3, <1>6, <2>1, <2>3
<1> QED BY <1>7, <1>8
-----------------------------------------------------------------------------
(***************************************************************************)
(* Normal forms.                                                           *)
(***************************************************************************)
(* The words that arguments are built of.                                  *)
ArgWord == Word \cap Seq(Char)

(* "." and ".." are names, and they are not the same.                      *)
LEMMA DotWords ==
  /\ DotPath \in ArgWord /\ DotDot \in ArgWord /\ ArgWord \subseteq Word /\ Word \subseteq Text
  /\ DotPath # DotDot
<1>1. DotPath \in Seq(Char) /\ DotDot \in Seq(Char)
  BY DEF DotPath, DotDot, Char
<1>2. DotPath \in Word /\ DotDot \in Word
  BY Constants DEF Word, NoSlash, DotPath, DotDot
<1> QED BY <1>1, <1>2, Constants DEF ArgWord, Word

(* The words of an argument.                                               *)
LEMMA SplitArgWords ==
  ASSUME NEW p \in Seq(Char)
  PROVE  Split[p] \in Seq(ArgWord)
<1> DEFINE S == {x \in Seq(Char) : Split[x] \in Seq(ArgWord)}
<1>1. <<>> \in S
  BY SplitDef, EmptySeq
<1>2. ASSUME NEW x \in Seq(Char), NEW c \in Char, x \in S PROVE Append(x, c) \in S
  <2>1. x \in Text /\ c \in Sign /\ Append(x, c) \in Seq(Char)
    BY Constants, SeqMonotonic, AppendProperties DEF Text
  <2>2. CASE c = "/"
    BY <1>2, <2>1, <2>2, SplitSlash
  <2>3. CASE c # "/" /\ EndsOpen(x)
    <3>1. Split[Append(x, c)] = Append(Split[x], <<c>>)
      BY <2>1, <2>3, SplitBegins
    <3>2. <<c>> \in ArgWord
      BY <2>1, <2>3, WordAppend DEF ArgWord
    <3>3. Split[Append(x, c)] \in Seq(ArgWord)
      BY <1>2, <3>1, <3>2, AppendProperties
    <3> QED BY <2>1, <3>3
  <2>4. CASE c # "/" /\ ~ EndsOpen(x)
    <3>1. PICK ws \in Seq(Word), w \in Word :
            /\ Split[x] = Append(ws, w)
            /\ Split[Append(x, c)] = Append(ws, Append(w, c)) /\ Append(w, c) \in Word
      BY <2>1, <2>4, SplitExtends
    <3>2. ws \in Seq(ArgWord) /\ w \in ArgWord
      <4>0. Append(ws, w) # <<>>
        BY AppendProperties
      <4>1. Split[x] \in Seq(ArgWord) /\ Split[x] # <<>>
        BY <1>2, <3>1, <4>0
      <4>2. Front(Split[x]) \in Seq(ArgWord) /\ Last(Split[x]) \in ArgWord
        BY <4>1, FrontLastAppend
      <4>3. Front(Split[x]) = ws /\ Last(Split[x]) = w
        BY <3>1, FrontLast
      <4> QED BY <4>2, <4>3
    <3>3. Append(w, c) \in ArgWord
      BY <3>1, <3>2, AppendProperties DEF ArgWord
    <3>4. Split[Append(x, c)] \in Seq(ArgWord)
      BY <3>1, <3>2, <3>3, AppendProperties
    <3> QED BY <2>1, <3>4
  <2> QED BY <2>2, <2>3, <2>4
<1>3. p \in S
  <2> HIDE DEF S
  <2> QED BY <1>1, <1>2, SeqInduction
<1> QED BY <1>3

(* What a normal form is made of: ".." k times, then names that are        *)
(* neither "." nor "..".                                                   *)
Ups(ns, k) ==
  /\ k \in 0..Len(ns)
  /\ \A i \in 1..k : ns[i] = DotDot
  /\ \A i \in (k + 1)..Len(ns) : ns[i] # DotDot /\ ns[i] # DotPath

NormalForm(p, ns) == \E k \in Nat : Ups(ns, k) /\ (SlashFirst(p) => k = 0)

(* Taking a name away, or adding one, leaves a normal form.                *)
LEMMA UpsFront ==
  ASSUME NEW ns \in Seq(Word), NEW w \in Word, w # DotDot, NEW k, Ups(Append(ns, w), k)
  PROVE  Ups(ns, k)
<1>1. /\ Len(Append(ns, w)) = Len(ns) + 1 /\ Len(ns) \in Nat
      /\ \A i \in 1..Len(ns) : Append(ns, w)[i] = ns[i]
      /\ Append(ns, w)[Len(ns) + 1] = w
  BY AppendProperties, LenProperties
<1>2. k \in 0..(Len(ns) + 1) /\ k # Len(ns) + 1
  BY <1>1 DEF Ups
<1>3. k \in 0..Len(ns)
  BY <1>1, <1>2
<1>4. \A i \in 1..k : i \in 1..Len(ns) /\ ns[i] = DotDot
  BY <1>1, <1>3 DEF Ups
<1>5. \A i \in (k + 1)..Len(ns) : i \in 1..Len(ns) /\ i \in (k + 1)..(Len(ns) + 1)
  BY <1>1, <1>3
<1>6. \A i \in (k + 1)..Len(ns) : ns[i] # DotDot /\ ns[i] # DotPath
  BY <1>1, <1>5 DEF Ups
<1> QED BY <1>3, <1>4, <1>6 DEF Ups

(* A name behind ".."s in front leaves them where they are.                *)
LEMMA UpsName ==
  ASSUME NEW ns \in Seq(Word), NEW w \in Word, w # DotDot, w # DotPath, NEW k, Ups(ns, k)
  PROVE  Ups(Append(ns, w), k)
<1>1. /\ Len(Append(ns, w)) = Len(ns) + 1 /\ Len(ns) \in Nat
      /\ \A i \in 1..Len(ns) : Append(ns, w)[i] = ns[i]
      /\ Append(ns, w)[Len(ns) + 1] = w
  BY AppendProperties, LenProperties
<1>2. k \in 0..Len(ns) /\ k \in 0..(Len(ns) + 1)
  BY <1>1 DEF Ups
<1>3. \A i \in 1..k : i \in 1..Len(ns)
  BY <1>1, <1>2
<1>4. \A i \in (k + 1)..(Len(ns) + 1) : i = Len(ns) + 1 \/ (i \in 1..Len(ns) /\ i \in (k + 1)..Len(ns))
  BY <1>1, <1>2
<1>5. \A i \in 1..k : Append(ns, w)[i] = DotDot
  BY <1>1, <1>3 DEF Ups
<1>6. \A i \in (k + 1)..(Len(ns) + 1) : Append(ns, w)[i] # DotDot /\ Append(ns, w)[i] # DotPath
  BY <1>1, <1>4 DEF Ups
<1> QED BY <1>1, <1>2, <1>5, <1>6 DEF Ups

(* A ".." behind nothing but ".."s makes one more of them.                 *)
LEMMA UpsDotDot ==
  ASSUME NEW ns \in Seq(Word), ns = <<>> \/ Last(ns) = DotDot, NEW k, Ups(ns, k)
  PROVE  k = Len(ns) /\ Ups(Append(ns, DotDot), k + 1)
<1>1. /\ Len(Append(ns, DotDot)) = Len(ns) + 1 /\ Len(ns) \in Nat
      /\ \A i \in 1..Len(ns) : Append(ns, DotDot)[i] = ns[i]
      /\ Append(ns, DotDot)[Len(ns) + 1] = DotDot
  BY AppendProperties, LenProperties, DotWords
<1>2. k \in 0..Len(ns)
  BY DEF Ups
<1>3. k = Len(ns)
  <2> SUFFICES ASSUME k < Len(ns) PROVE FALSE
    BY <1>1, <1>2
  <2>1. ns # <<>> /\ Len(ns) \in (k + 1)..Len(ns)
    BY <1>1, <1>2, EmptySeq
  <2>2. ns[Len(ns)] = DotDot
    BY <2>1 DEF Last
  <2> QED BY <2>1, <2>2 DEF Ups
<1>4. \A i \in 1..(k + 1) : i = Len(ns) + 1 \/ i \in 1..Len(ns)
  BY <1>1, <1>3
<1>5. \A i \in 1..(k + 1) : Append(ns, DotDot)[i] = DotDot
  BY <1>1, <1>3, <1>4 DEF Ups
<1>6. ((k + 1) + 1)..Len(Append(ns, DotDot)) = {} /\ k + 1 \in 0..Len(Append(ns, DotDot))
  BY <1>1, <1>3
<1> QED BY <1>3, <1>5, <1>6 DEF Ups

(* fs_normal_vector makes a normal form, of the words it is given and not  *)
(* longer than them, and it leads from a directory to where they lead.     *)
Start(p, dir) == IF SlashFirst(p) THEN <<>> ELSE dir

(* Following one name more enters it from where the others lead.           *)
LEMMA FollowAppend ==
  ASSUME NEW dir \in Seq(Text), NEW ns \in Seq(Text), NEW s \in Text
  PROVE  Follow(dir, Append(ns, s)) = Enter(Follow(dir, ns), s) /\ Follow(dir, ns) \in Seq(Text)
         /\ Follow(dir, <<>>) = dir
BY FollowDef

(* Where a name leads from a directory, case by case.                      *)
LEMMA EnterCases ==
  ASSUME NEW d \in Seq(Text), NEW s \in Text
  PROVE  /\ s = DotPath => Enter(d, s) = d
         /\ s # DotPath /\ s # DotDot => Enter(d, s) = Append(d, s)
         /\ s = DotDot /\ d = <<>> => Enter(d, s) = <<>>
         /\ s = DotDot /\ d # <<>> => Enter(d, s) = Front(d)
BY DotWords DEF Enter

(* What fs_normal_vector does with a name, case by case.                   *)
LEMMA NextNormalCases ==
  ASSUME NEW p, NEW ns \in Seq(Word), NEW s \in Word
  PROVE  /\ s = DotPath => NextNormal(p, ns, s) = ns
         /\ s # DotPath /\ s # DotDot => NextNormal(p, ns, s) = Append(ns, s)
         /\ s = DotDot /\ ns # <<>> /\ Last(ns) # DotDot => NextNormal(p, ns, s) = Front(ns)
         /\ s = DotDot /\ (ns = <<>> \/ Last(ns) = DotDot) =>
              NextNormal(p, ns, s) = IF SlashFirst(p) THEN ns ELSE Append(ns, s)
BY DotWords DEF NextNormal, Back

(* What the loop of fs_normal_vector has made of the names ns so far.      *)
Normalizes(p, W, ns, N) ==
  /\ N \in Seq(W) /\ NormalForm(p, N)
  /\ Len(N) <= Len(ns) /\ Len(Rebuilt(p, N)) <= Len(Rebuilt(p, ns))
  /\ \A dir \in Seq(Text) : Follow(Start(p, dir), N) = Follow(Start(p, dir), ns)

(* With one name more the normal form still leads where the names do       *)
(* (fs_normal_vector).                                                     *)
LEMMA NormalStep ==
  ASSUME NEW p, NEW W, W \subseteq Word, DotDot \in W,
         NEW ns \in Seq(W), NEW N, Normalizes(p, W, ns, N), NEW s \in W
  PROVE  Normalizes(p, W, Append(ns, s), NextNormal(p, N, s))
<1> DEFINE M == NextNormal(p, N, s)
           R(x) == Rebuilt(p, x)
<1>1. /\ W \subseteq Text /\ DotDot \in Text /\ s \in Text /\ s \in Word
      /\ N \in Seq(W) /\ N \in Seq(Word) /\ N \in Seq(Text)
      /\ ns \in Seq(Word) /\ ns \in Seq(Text)
  BY DotWords, SeqMonotonic DEF Normalizes
<1>2. PICK k \in Nat : Ups(N, k) /\ (SlashFirst(p) => k = 0)
  BY DEF Normalizes, NormalForm
<1>3. /\ Len(N) \in Nat /\ Len(ns) \in Nat /\ Len(N) <= Len(ns)
      /\ Len(Append(ns, s)) = Len(ns) + 1 /\ Append(ns, s) \in Seq(Text)
  BY <1>1, LenProperties, AppendProperties DEF Normalizes
<1>4. ASSUME NEW x \in Seq(Text), NEW w \in Text
      PROVE  R(x) \in Text /\ Len(R(x)) \in Nat /\ Len(w) \in Nat
             /\ Len(R(Append(x, w))) = Len(R(x)) + Len(w) + 1
  <2>1. R(x) \in Text /\ R(Append(x, w)) = Append(R(x) \o w, "/") /\ "/" \in Sign
    BY <1>4, RebuiltAppend, Constants DEF Specials
  <2>2. R(x) \o w \in Text /\ Len(R(x) \o w) = Len(R(x)) + Len(w)
    BY <1>4, <2>1, TextConcat
  <2>3. Len(Append(R(x) \o w, "/")) = Len(R(x) \o w) + 1
    BY <2>1, <2>2, TextAppend
  <2>4. Len(R(x)) \in Nat /\ Len(w) \in Nat
    BY <1>4, <2>1, LenProperties DEF Text
  <2> QED BY <2>1, <2>2, <2>3, <2>4
<1>5. Len(R(N)) <= Len(R(ns))
  BY DEF Normalizes
<1>6. ASSUME NEW dir \in Seq(Text)
      PROVE  /\ Start(p, dir) \in Seq(Text)
             /\ Follow(Start(p, dir), N) \in Seq(Text)
             /\ Follow(Start(p, dir), Append(ns, s)) = Enter(Follow(Start(p, dir), N), s)
  <2>1. Start(p, dir) \in Seq(Text)
    BY EmptySeq DEF Start
  <2>2. Follow(Start(p, dir), Append(ns, s)) = Enter(Follow(Start(p, dir), ns), s)
    BY <1>1, <2>1, FollowAppend
  <2>3. Follow(Start(p, dir), N) = Follow(Start(p, dir), ns)
    BY <1>6 DEF Normalizes
  <2> QED BY <1>1, <2>1, <2>2, <2>3, FollowAppend
<1> HIDE DEF R, M
<1>7. CASE s = DotPath
  <2>1. M = N
    BY <1>1, <1>7, NextNormalCases DEF M
  <2>2. Len(R(M)) <= Len(R(Append(ns, s)))
    BY <1>1, <1>4, <1>5, <2>1
  <2>3. \A dir \in Seq(Text) : Follow(Start(p, dir), M) = Follow(Start(p, dir), Append(ns, s))
    BY <1>1, <1>6, <1>7, <2>1, EnterCases
  <2> QED BY <1>1, <1>2, <1>3, <2>1, <2>2, <2>3 DEF Normalizes, NormalForm, M, R
<1>8. CASE s # DotPath /\ s # DotDot
  <2>1. M = Append(N, s)
    BY <1>1, <1>8, NextNormalCases DEF M
  <2>2. M \in Seq(W) /\ Len(M) = Len(N) + 1 /\ Ups(M, k)
    BY <1>1, <1>2, <1>8, <2>1, AppendProperties, UpsName
  <2>3. Len(R(M)) <= Len(R(Append(ns, s)))
    BY <1>1, <1>4, <1>5, <2>1
  <2>4. ASSUME NEW dir \in Seq(Text)
        PROVE  Follow(Start(p, dir), M) = Follow(Start(p, dir), Append(ns, s))
    BY <1>1, <1>6, <2>1, FollowAppend
  <2> QED BY <1>2, <1>3, <2>2, <2>3, <2>4 DEF Normalizes, NormalForm, M, R
<1>9. CASE s = DotDot /\ N # <<>> /\ Last(N) # DotDot
  <2>1. M = Front(N)
    BY <1>1, <1>9, NextNormalCases DEF M
  <2>2. /\ Front(N) \in Seq(W) /\ Last(N) \in W /\ N = Append(Front(N), Last(N))
        /\ Len(Front(N)) = Len(N) - 1
    BY <1>1, <1>9, FrontLastAppend
  <2>3. M \in Seq(W) /\ M \in Seq(Word) /\ M \in Seq(Text) /\ Last(N) \in Text /\ Last(N) \in Word
    BY <1>1, <2>1, <2>2, SeqMonotonic
  <2>4. Ups(M, k)
    <3>1. Ups(Append(M, Last(N)), k)
      BY <1>2, <2>1, <2>2
    <3> QED BY <1>9, <2>3, <3>1, UpsFront
  <2>5. Len(R(M)) <= Len(R(Append(ns, s)))
    <3>1. Len(R(N)) = Len(R(M)) + Len(Last(N)) + 1 /\ Len(R(M)) \in Nat /\ Len(Last(N)) \in Nat
      BY <1>4, <2>1, <2>2, <2>3
    <3>2. Len(R(Append(ns, s))) = Len(R(ns)) + Len(s) + 1 /\ Len(R(ns)) \in Nat /\ Len(s) \in Nat
      BY <1>1, <1>4
    <3> QED BY <1>5, <3>1, <3>2
  <2>6. ASSUME NEW dir \in Seq(Text)
        PROVE  Follow(Start(p, dir), M) = Follow(Start(p, dir), Append(ns, s))
    <3> DEFINE d == Follow(Start(p, dir), M)
    <3>1. d \in Seq(Text) /\ Follow(Start(p, dir), N) = Enter(d, Last(N))
      <4>1. d \in Seq(Text) /\ Follow(Start(p, dir), Append(M, Last(N))) = Enter(d, Last(N))
        BY <1>6, <2>3, FollowAppend
      <4>2. Append(M, Last(N)) = N
        BY <2>1, <2>2
      <4> QED BY <4>1, <4>2
    <3>2. Last(N) # DotPath
      <4>1. k \in 0..Len(N) /\ Len(N) # 0
        BY <1>1, <1>2, <1>3, <1>9, EmptySeq DEF Ups
      <4>2. k = Len(N) => N[Len(N)] = DotDot
        BY <1>2, <1>3, <4>1 DEF Ups
      <4>3. k # Len(N)
        BY <1>9, <4>2 DEF Last
      <4>4. Len(N) \in (k + 1)..Len(N)
        BY <1>3, <4>1, <4>3
      <4> QED BY <1>2, <4>4 DEF Ups, Last
    <3> HIDE DEF d
    <3>3. Enter(d, Last(N)) = Append(d, Last(N))
      BY <1>9, <2>3, <3>1, <3>2, EnterCases
    <3>4. Append(d, Last(N)) \in Seq(Text) /\ Append(d, Last(N)) # <<>> /\ Front(Append(d, Last(N))) = d
      BY <2>3, <3>1, AppendProperties, FrontLast
    <3>5. Enter(Append(d, Last(N)), s) = d
      BY <1>1, <1>9, <3>4, EnterCases
    <3> QED BY <1>6, <3>1, <3>3, <3>5 DEF d
  <2> QED BY <1>2, <1>3, <2>1, <2>2, <2>3, <2>4, <2>5, <2>6 DEF Normalizes, NormalForm, M, R
<1>10. CASE s = DotDot /\ (N = <<>> \/ Last(N) = DotDot) /\ ~ SlashFirst(p)
  <2>1. M = Append(N, DotDot)
    BY <1>1, <1>10, NextNormalCases DEF M
  <2>2. M \in Seq(W) /\ Len(M) = Len(N) + 1 /\ Ups(M, k + 1)
    BY <1>1, <1>2, <1>10, <2>1, AppendProperties, UpsDotDot
  <2>3. Len(R(M)) <= Len(R(Append(ns, s)))
    BY <1>1, <1>4, <1>5, <1>10, <2>1
  <2>4. ASSUME NEW dir \in Seq(Text)
        PROVE  Follow(Start(p, dir), M) = Follow(Start(p, dir), Append(ns, s))
    BY <1>1, <1>6, <1>10, <2>1, FollowAppend
  <2>5. NormalForm(p, M)
    BY <1>10, <2>2 DEF NormalForm
  <2> QED BY <1>3, <2>2, <2>3, <2>4, <2>5 DEF Normalizes, M, R
<1>11. CASE s = DotDot /\ (N = <<>> \/ Last(N) = DotDot) /\ SlashFirst(p)
  <2>1. M = N
    BY <1>1, <1>11, NextNormalCases DEF M
  <2>2. N = <<>>
    <3>1. Len(N) = 0
      BY <1>1, <1>2, <1>11, UpsDotDot
    <3> QED BY <1>1, <3>1, EmptySeq
  <2>3. Len(R(M)) <= Len(R(Append(ns, s)))
    BY <1>1, <1>4, <1>5, <2>1
  <2>4. ASSUME NEW dir \in Seq(Text)
        PROVE  Follow(Start(p, dir), M) = Follow(Start(p, dir), Append(ns, s))
    <3>1. Start(p, dir) = <<>>
      BY <1>11 DEF Start
    <3>2. Follow(Start(p, dir), N) = <<>>
      BY <2>2, <3>1, FollowAppend, EmptySeq, Constants
    <3>3. Enter(<<>>, s) = <<>>
      BY <1>1, <1>11, EnterCases, EmptySeq
    <3> QED BY <1>6, <2>1, <3>2, <3>3
  <2> QED BY <1>1, <1>2, <1>3, <2>1, <2>3, <2>4 DEF Normalizes, NormalForm, M, R
<1> QED BY <1>7, <1>8, <1>9, <1>10, <1>11 DEF M

(* The normal form of any names leads where they do and has ".." in front  *)
(* only (fs_normal_vector).                                                *)
LEMMA NormalizedHolds ==
  ASSUME NEW p, NEW W, W \subseteq Word, DotDot \in W, NEW ns \in Seq(W)
  PROVE  Normalizes(p, W, ns, Normalized(p, ns))
<1> DEFINE S == {x \in Seq(W) : Normalizes(p, W, x, Normalized(p, x))}
<1>1. Seq(W) \subseteq Seq(Text) /\ W \subseteq Text
  BY DotWords
<1>2. <<>> \in S
  <2>1. Normalized(p, <<>>) = <<>> /\ <<>> \in Seq(W) /\ Len(<<>>) = 0
    BY NormalizedDef, EmptySeq
  <2>2. Ups(<<>>, 0)
    BY <2>1 DEF Ups
  <2>3. Rebuilt(p, <<>>) \in Text
    BY RebuiltEmpty, Constants
  <2>4. Len(Rebuilt(p, <<>>)) \in Nat
    BY <2>3, LenProperties DEF Text
  <2>5. NormalForm(p, <<>>)
    BY <2>2 DEF NormalForm
  <2>6. Normalizes(p, W, <<>>, <<>>)
    BY <2>1, <2>4, <2>5 DEF Normalizes
  <2> QED BY <2>1, <2>6
<1>3. ASSUME NEW x \in Seq(W), NEW s \in W, x \in S PROVE Append(x, s) \in S
  <2>1. Append(x, s) \in Seq(W)
    BY AppendProperties
  <2>2. Normalized(p, Append(x, s)) = NextNormal(p, Normalized(p, x), s)
    BY <1>1, NormalizedDef
  <2>3. Normalizes(p, W, Append(x, s), NextNormal(p, Normalized(p, x), s))
    BY <1>3, NormalStep
  <2> QED BY <2>1, <2>2, <2>3
<1>4. ns \in S
  <2> HIDE DEF S
  <2> QED BY <1>2, <1>3, SeqInduction
<1> QED BY <1>4

-----------------------------------------------------------------------------
(***************************************************************************)
(* Split finds the names that the reference finds: the k-th run of         *)
(* characters reaches from from[k] to to[k].                               *)
(***************************************************************************)
Run(p, i, j) ==
  /\ i \in 1..Len(p) /\ j \in i..Len(p)
  /\ \A l \in i..j : p[l] # "/"
  /\ i = 1 \/ p[i - 1] = "/"
  /\ j = Len(p) \/ p[j + 1] = "/"

Enumerates(p, ns, from, to) ==
  /\ \A k \in 1..Len(ns) : Run(p, from[k], to[k]) /\ ns[k] = SubSeq(p, from[k], to[k])
  /\ \A k, m \in 1..Len(ns) : k < m => to[k] < from[m]
  /\ \A l \in 1..Len(p) : p[l] # "/" => \E k \in 1..Len(ns) : l \in from[k]..to[k]

(* A part of a text does not change when a character is added.             *)
LEMMA PartOfAppend ==
  ASSUME NEW p \in Text, NEW c \in Sign, NEW i \in 1..Len(p), NEW j \in i..Len(p)
  PROVE  SubSeq(Append(p, c), i, j) = SubSeq(p, i, j)
<1>1. /\ Len(p) \in Nat /\ \A l \in 1..Len(p) : p[l] \in Sign
      /\ \A l \in 1..Len(p) : Append(p, c)[l] = p[l]
  BY TextAppend, ElementOfSeq DEF Text
<1>2. \A l \in i..j : l \in 1..Len(p)
  BY <1>1
<1>3. \A l \in i..j : p[l] \in Sign /\ Append(p, c)[l] \in Sign
  BY <1>1, <1>2
<1>4. /\ SubSeq(p, i, j) \in Seq(Sign) /\ Len(SubSeq(p, i, j)) = j - i + 1
      /\ \A l \in 1..(j - i + 1) : SubSeq(p, i, j)[l] = p[i + l - 1]
  BY <1>1, <1>3, SubSeqProperties
<1>5. /\ SubSeq(Append(p, c), i, j) \in Seq(Sign) /\ Len(SubSeq(Append(p, c), i, j)) = j - i + 1
      /\ \A l \in 1..(j - i + 1) : SubSeq(Append(p, c), i, j)[l] = Append(p, c)[i + l - 1]
  BY <1>1, <1>3, SubSeqProperties
<1>6. \A l \in 1..(j - i + 1) : i + l - 1 \in 1..Len(p)
  BY <1>1
<1>7. \A l \in 1..(j - i + 1) : SubSeq(p, i, j)[l] = SubSeq(Append(p, c), i, j)[l]
  BY <1>1, <1>4, <1>5, <1>6
<1> QED BY <1>4, <1>5, <1>7, SeqEqual

(* A part that ends a sequence grows with it.                              *)
LEMMA PartExtends ==
  ASSUME NEW A, NEW p \in Seq(A), NEW c \in A, NEW i \in 1..(Len(p) + 1)
  PROVE  SubSeq(Append(p, c), i, Len(p) + 1) = Append(SubSeq(p, i, Len(p)), c)
<1>1. /\ Len(p) \in Nat /\ \A l \in 1..Len(p) : p[l] \in A
      /\ \A l \in 1..Len(p) : Append(p, c)[l] = p[l]
      /\ Append(p, c)[Len(p) + 1] = c
  BY AppendProperties, LenProperties, ElementOfSeq
<1>2. \A l \in i..Len(p) : p[l] \in A
  BY <1>1
<1>3. \A l \in i..(Len(p) + 1) : Append(p, c)[l] \in A
  <2>1. \A l \in i..(Len(p) + 1) : l = Len(p) + 1 \/ l \in 1..Len(p)
    BY <1>1
  <2> QED BY <1>1, <2>1
<1>4. /\ SubSeq(p, i, Len(p)) \in Seq(A) /\ Len(SubSeq(p, i, Len(p))) = Len(p) - i + 1
      /\ \A l \in 1..(Len(p) - i + 1) : SubSeq(p, i, Len(p))[l] = p[i + l - 1]
  BY <1>1, <1>2, SubSeqProperties
<1>5. /\ SubSeq(Append(p, c), i, Len(p) + 1) \in Seq(A)
      /\ Len(SubSeq(Append(p, c), i, Len(p) + 1)) = Len(p) - i + 2
      /\ \A l \in 1..(Len(p) - i + 2) : SubSeq(Append(p, c), i, Len(p) + 1)[l] = Append(p, c)[i + l - 1]
  BY <1>1, <1>3, SubSeqProperties
<1> DEFINE s == SubSeq(p, i, Len(p))
           t == SubSeq(Append(p, c), i, Len(p) + 1)
<1>6. /\ Append(s, c) \in Seq(A) /\ Len(Append(s, c)) = Len(p) - i + 2
      /\ \A l \in 1..(Len(p) - i + 1) : Append(s, c)[l] = p[i + l - 1]
      /\ Append(s, c)[Len(p) - i + 2] = c
  <2> HIDE DEF s
  <2>1. /\ Append(s, c) \in Seq(A) /\ Len(Append(s, c)) = Len(s) + 1
        /\ \A l \in 1..Len(s) : Append(s, c)[l] = s[l]
        /\ Append(s, c)[Len(s) + 1] = c
    BY <1>4, AppendProperties DEF s
  <2> QED BY <1>1, <1>4, <2>1 DEF s
<1>7. \A l \in 1..(Len(p) - i + 2) : Append(s, c)[l] = t[l]
  <2> SUFFICES ASSUME NEW l \in 1..(Len(p) - i + 2) PROVE Append(s, c)[l] = t[l]
    OBVIOUS
  <2>1. t[l] = Append(p, c)[i + l - 1]
    BY <1>5
  <2> HIDE DEF s, t
  <2>2. CASE l = Len(p) - i + 2
    <3>1. i + l - 1 = Len(p) + 1
      BY <1>1, <2>2
    <3> QED BY <1>1, <1>6, <2>1, <2>2, <3>1
  <2>3. CASE l # Len(p) - i + 2
    <3>1. l \in 1..(Len(p) - i + 1) /\ i + l - 1 \in 1..Len(p)
      BY <1>1, <2>3
    <3> QED BY <1>1, <1>6, <2>1, <3>1
  <2> QED BY <2>2, <2>3
<1> HIDE DEF s, t
<1>8. Append(s, c) = t
  BY <1>5, <1>6, <1>7, SeqEqual DEF t
<1> QED BY <1>8 DEF s, t

(* A run is still one after another character, unless it grows.            *)
LEMMA RunStays ==
  ASSUME NEW p \in Text, NEW c \in Sign, NEW i, NEW j, Run(p, i, j), j # Len(p) \/ c = "/"
  PROVE  Run(Append(p, c), i, j) /\ SubSeq(Append(p, c), i, j) = SubSeq(p, i, j)
<1>1. /\ Len(p) \in Nat /\ Len(Append(p, c)) = Len(p) + 1
      /\ \A l \in 1..Len(p) : Append(p, c)[l] = p[l]
      /\ Append(p, c)[Len(p) + 1] = c
  BY TextAppend
<1>2. i \in 1..Len(p) /\ j \in i..Len(p)
  BY DEF Run
<1>3. i \in 1..(Len(p) + 1) /\ j \in i..(Len(p) + 1) /\ \A l \in i..j : l \in 1..Len(p)
  BY <1>1, <1>2
<1>4. \A l \in i..j : Append(p, c)[l] # "/"
  BY <1>1, <1>3 DEF Run
<1>5. i = 1 \/ Append(p, c)[i - 1] = "/"
  <2>1. i = 1 \/ i - 1 \in 1..Len(p)
    BY <1>1, <1>2
  <2> QED BY <1>1, <2>1 DEF Run
<1>6. Append(p, c)[j + 1] = "/"
  <2>1. j = Len(p) \/ j + 1 \in 1..Len(p)
    BY <1>1, <1>2
  <2> QED BY <1>1, <2>1 DEF Run
<1>7. SubSeq(Append(p, c), i, j) = SubSeq(p, i, j)
  BY <1>2, PartOfAppend
<1> QED BY <1>1, <1>3, <1>4, <1>5, <1>6, <1>7 DEF Run

(* There is an enumeration of the runs of any text.                        *)
LEMMA Enumeration ==
  ASSUME NEW p \in Text
  PROVE  \E from, to \in [1..Len(Split[p]) -> 1..Len(p)] : Enumerates(p, Split[p], from, to)
<1> DEFINE Good(x) == \E from, to \in [1..Len(Split[x]) -> 1..Len(x)] : Enumerates(x, Split[x], from, to)
           S == {x \in Text : Good(x)}
<1>1. <<>> \in S
  <2>1. Split[<<>>] = <<>> /\ Len(<<>>) = 0 /\ <<>> \in Text
    BY SplitDef, Constants, EmptySeq
  <2> DEFINE none == [k \in 1..0 |-> 1]
  <2>2. Enumerates(<<>>, <<>>, none, none) /\ none \in [1..0 -> 1..0]
    BY <2>1 DEF Enumerates
  <2> HIDE DEF none
  <2>3. \E from, to \in [1..0 -> 1..0] : Enumerates(<<>>, <<>>, from, to)
    BY <2>2
  <2>4. Good(<<>>)
    BY <2>1, <2>3
  <2> HIDE DEF Good
  <2> QED BY <2>1, <2>4
<1>2. ASSUME NEW x \in Text, NEW c \in Sign, x \in S PROVE Append(x, c) \in S
  <2> DEFINE y == Append(x, c)
             n == Len(Split[x])
  <2>1. PICK from, to \in [1..n -> 1..Len(x)] : Enumerates(x, Split[x], from, to)
    BY <1>2
  <2>2. /\ Len(x) \in Nat /\ Len(y) = Len(x) + 1 /\ y \in Text
        /\ \A l \in 1..Len(x) : y[l] = x[l]
        /\ y[Len(x) + 1] = c
    BY TextAppend
  <2>3. Split[x] \in Seq(Word) /\ Split[x] \in Seq(Text) /\ n \in Nat
    <3>1. Split[x] \in Seq(Word)
      BY SplitWords
    <3>2. Len(Split[x]) \in Nat
      BY <3>1, LenProperties
    <3> QED BY <3>1, <3>2, SeqMonotonic, DotWords
  <2>4. /\ \A k \in 1..n : Run(x, from[k], to[k]) /\ Split[x][k] = SubSeq(x, from[k], to[k])
        /\ \A k, m \in 1..n : k < m => to[k] < from[m]
        /\ \A l \in 1..Len(x) : x[l] # "/" => \E k \in 1..n : l \in from[k]..to[k]
    BY <2>1 DEF Enumerates
  <2>5. \A k \in 1..n : from[k] \in 1..Len(x) /\ to[k] \in 1..Len(x) /\ from[k] <= to[k] /\ x[to[k]] # "/"
    <3> SUFFICES ASSUME NEW k \in 1..n
                 PROVE  from[k] \in 1..Len(x) /\ to[k] \in 1..Len(x) /\ from[k] <= to[k] /\ x[to[k]] # "/"
      OBVIOUS
    <3>1. from[k] \in 1..Len(x) /\ to[k] \in from[k]..Len(x) /\ \A l \in from[k]..to[k] : x[l] # "/"
      BY <2>4 DEF Run
    <3>2. to[k] \in from[k]..to[k] /\ to[k] \in 1..Len(x)
      BY <2>2, <3>1
    <3> QED BY <2>2, <3>1, <3>2
  <2> HIDE DEF n, y
  <2>6. CASE c = "/"
    <3>1. Split[y] = Split[x]
      BY <2>6, SplitSlash DEF y
    <3>2. ASSUME NEW k \in 1..n PROVE Run(y, from[k], to[k]) /\ Split[x][k] = SubSeq(y, from[k], to[k])
      BY <2>4, <2>6, RunStays DEF y
    <3>3. ASSUME NEW l \in 1..Len(y), y[l] # "/" PROVE \E k \in 1..n : l \in from[k]..to[k]
      <4>1. l # Len(x) + 1
        BY <2>2, <2>6, <3>3
      <4>2. l \in 1..Len(x)
        BY <2>2, <4>1
      <4> QED BY <2>2, <2>4, <3>3, <4>2
    <3>4. Enumerates(y, Split[y], from, to)
      BY <2>4, <3>1, <3>2, <3>3 DEF Enumerates, n
    <3>5. from \in [1..Len(Split[y]) -> 1..Len(y)] /\ to \in [1..Len(Split[y]) -> 1..Len(y)]
      BY <2>1, <2>2, <3>1 DEF n
    <3> QED BY <2>2, <3>4, <3>5 DEF y
  <2>7. CASE c # "/" /\ EndsOpen(x)
    <3> DEFINE f == [k \in 1..(n + 1) |-> IF k = n + 1 THEN Len(x) + 1 ELSE from[k]]
               t == [k \in 1..(n + 1) |-> IF k = n + 1 THEN Len(x) + 1 ELSE to[k]]
    <3>1. Split[y] = Append(Split[x], <<c>>) /\ <<c>> \in Word
      BY <2>7, SplitBegins, WordAppend DEF y
    <3>2. /\ Len(Split[y]) = n + 1 /\ Split[y][n + 1] = <<c>>
          /\ \A k \in 1..n : Split[y][k] = Split[x][k]
      BY <2>3, <3>1, AppendProperties DEF n
    <3>3. x # <<>> => x[Len(x)] = "/"
      BY <2>7 DEF EndsOpen, Last
    <3>4. \A k \in 1..n : to[k] # Len(x)
      <4> SUFFICES ASSUME NEW k \in 1..n, to[k] = Len(x) PROVE FALSE
        OBVIOUS
      <4>1. x[Len(x)] # "/" /\ Len(x) # 0
        BY <2>2, <2>5
      <4>2. x # <<>>
        BY <4>1, EmptySeq
      <4> QED BY <3>3, <4>1, <4>2
    <3>5. \A k \in 1..n : f[k] = from[k] /\ t[k] = to[k] /\ k \in 1..(n + 1)
      BY <2>3
    <3>6. f[n + 1] = Len(x) + 1 /\ t[n + 1] = Len(x) + 1 /\ n + 1 \in 1..(n + 1)
      BY <2>3
    <3>7. f \in [1..(n + 1) -> 1..Len(y)] /\ t \in [1..(n + 1) -> 1..Len(y)]
      BY <2>1, <2>2, <2>3
    <3> HIDE DEF f, t
    <3>8. ASSUME NEW k \in 1..(n + 1) PROVE Run(y, f[k], t[k]) /\ Split[y][k] = SubSeq(y, f[k], t[k])
      <4>1. CASE k \in 1..n
        <5>1. Run(y, from[k], to[k]) /\ SubSeq(y, from[k], to[k]) = SubSeq(x, from[k], to[k])
          BY <2>4, <3>4, <4>1, RunStays DEF y
        <5> QED BY <2>4, <3>2, <3>5, <4>1, <5>1
      <4>2. CASE k = n + 1
        <5>1. Len(x) + 1 \in 1..Len(y) /\ Len(x) + 1 \in (Len(x) + 1)..Len(y) /\ Len(x) + 1 = Len(y)
          BY <2>2
        <5>2. \A l \in (Len(x) + 1)..(Len(x) + 1) : y[l] # "/"
          BY <2>2, <2>7
        <5>3. Len(x) + 1 = 1 \/ y[Len(x) + 1 - 1] = "/"
          <6>1. x = <<>> => Len(x) = 0
            BY EmptySeq
          <6>2. x # <<>> => Len(x) \in 1..Len(x) /\ Len(x) + 1 - 1 = Len(x)
            BY <2>2, EmptySeq DEF Text
          <6> QED BY <2>2, <3>3, <6>1, <6>2
        <5>4. Run(y, Len(x) + 1, Len(x) + 1)
          BY <5>1, <5>2, <5>3 DEF Run
        <5>5. SubSeq(y, Len(x) + 1, Len(x) + 1) = <<c>>
          <6>1. SubSeq(y, Len(x) + 1, Len(x) + 1) = Append(SubSeq(x, Len(x) + 1, Len(x)), c)
            BY <2>2, PartExtends DEF y, Text
          <6>2. SubSeq(x, Len(x) + 1, Len(x)) = <<>>
            BY <2>2, SubSeqEmpty
          <6>3. Append(<<>>, c) = <<c>>
            OBVIOUS
          <6> QED BY <6>1, <6>2, <6>3
        <5> QED BY <3>2, <3>6, <4>2, <5>4, <5>5
      <4> QED BY <2>3, <4>1, <4>2
    <3>9. ASSUME NEW k \in 1..(n + 1), NEW m \in 1..(n + 1), k < m PROVE t[k] < f[m]
      <4>1. k \in 1..n /\ (m = n + 1 \/ m \in 1..n)
        BY <2>3, <3>9
      <4> QED BY <2>2, <2>4, <2>5, <3>5, <3>6, <3>9, <4>1
    <3>10. ASSUME NEW l \in 1..Len(y), y[l] # "/" PROVE \E k \in 1..(n + 1) : l \in f[k]..t[k]
      <4>1. CASE l = Len(x) + 1
        <5>1. l \in f[n + 1]..t[n + 1]
          BY <2>2, <3>6, <4>1
        <5> QED BY <3>6, <5>1
      <4>2. CASE l # Len(x) + 1
        <5>1. l \in 1..Len(x)
          BY <2>2, <4>2
        <5>2. PICK k \in 1..n : l \in from[k]..to[k]
          BY <2>2, <2>4, <3>10, <5>1
        <5> QED BY <3>5, <5>2
      <4> QED BY <4>1, <4>2
    <3>11. Enumerates(y, Split[y], f, t)
      BY <3>2, <3>8, <3>9, <3>10 DEF Enumerates
    <3> QED BY <2>2, <3>2, <3>7, <3>11 DEF y
  <2>8. CASE c # "/" /\ ~ EndsOpen(x)
    <3>1. PICK ws \in Seq(Word), w \in Word :
            /\ Split[x] = Append(ws, w)
            /\ Split[y] = Append(ws, Append(w, c)) /\ Append(w, c) \in Word
      BY <2>8, SplitExtends DEF y
    <3>2. /\ n = Len(ws) + 1 /\ Len(ws) \in Nat /\ Split[x][n] = w
          /\ \A k \in 1..(n - 1) : Split[x][k] = ws[k]
      BY <3>1, AppendProperties, LenProperties DEF n
    <3>3. /\ Len(Split[y]) = n /\ Split[y][n] = Append(w, c)
          /\ \A k \in 1..(n - 1) : Split[y][k] = ws[k]
      BY <3>1, <3>2, AppendProperties
    <3>4. x # <<>> /\ x[Len(x)] # "/" /\ Len(x) \in 1..Len(x)
      BY <2>2, <2>8, EmptySeq DEF EndsOpen, Last, Text
    <3>5. PICK last \in 1..n : Len(x) \in from[last]..to[last]
      BY <2>4, <3>4
    <3>6. to[last] = Len(x)
      BY <2>2, <2>5, <3>5
    <3>7. last = n
      <4> SUFFICES ASSUME last < n PROVE FALSE
        BY <2>3, <3>5
      <4>1. n \in 1..n
        BY <3>2
      <4>2. to[last] < from[n] /\ from[n] \in 1..Len(x)
        BY <2>4, <2>5, <4>1
      <4> QED BY <2>2, <3>6, <4>2
    <3>8. \A k \in 1..(n - 1) : k \in 1..n /\ to[k] # Len(x)
      <4> SUFFICES ASSUME NEW k \in 1..(n - 1) PROVE k \in 1..n /\ to[k] # Len(x)
        OBVIOUS
      <4>1. k \in 1..n /\ n \in 1..n /\ k < n
        BY <3>2
      <4>2. to[k] < from[n] /\ from[n] \in 1..Len(x) /\ to[k] \in 1..Len(x)
        BY <2>4, <2>5, <4>1
      <4> QED BY <2>2, <4>1, <4>2
    <3> DEFINE t == [to EXCEPT ![n] = Len(x) + 1]
    <3>9. /\ \A k \in 1..(n - 1) : t[k] = to[k]
          /\ t[n] = Len(x) + 1 /\ n \in 1..n
          /\ t \in [1..n -> 1..Len(y)] /\ from \in [1..n -> 1..Len(y)]
      BY <2>1, <2>2, <3>2, <3>8
    <3> HIDE DEF t
    <3>10. ASSUME NEW k \in 1..n PROVE Run(y, from[k], t[k]) /\ Split[y][k] = SubSeq(y, from[k], t[k])
      <4>1. CASE k \in 1..(n - 1)
        <5>1. Run(y, from[k], to[k]) /\ SubSeq(y, from[k], to[k]) = SubSeq(x, from[k], to[k])
          BY <2>4, <3>8, <4>1, RunStays DEF y
        <5>2. Split[y][k] = Split[x][k]
          BY <3>2, <3>3, <4>1
        <5> QED BY <2>4, <3>8, <3>9, <4>1, <5>1, <5>2
      <4>2. CASE k = n
        <5> DEFINE i == from[n]
        <5>1. Run(x, i, Len(x)) /\ w = SubSeq(x, i, Len(x))
          BY <2>4, <3>2, <3>6, <3>7, <3>9
        <5>2. i \in 1..Len(x) /\ i \in 1..(Len(x) + 1) /\ i \in 1..Len(y) /\ Len(x) + 1 \in i..Len(y)
          BY <2>2, <2>5, <3>9
        <5> HIDE DEF i
        <5>3. \A l \in i..(Len(x) + 1) : y[l] # "/"
          <6>1. \A l \in i..(Len(x) + 1) : l = Len(x) + 1 \/ (l \in 1..Len(x) /\ l \in i..Len(x))
            BY <2>2, <5>2
          <6> QED BY <2>2, <2>8, <5>1, <6>1 DEF Run
        <5>4. i = 1 \/ y[i - 1] = "/"
          <6>1. i = 1 \/ i - 1 \in 1..Len(x)
            BY <2>2, <5>2
          <6> QED BY <2>2, <5>1, <6>1 DEF Run
        <5>5. Run(y, i, Len(x) + 1)
          BY <2>2, <5>2, <5>3, <5>4 DEF Run
        <5>6. SubSeq(y, i, Len(x) + 1) = Append(w, c)
          BY <5>1, <5>2, PartExtends DEF y, Text
        <5> QED BY <3>3, <3>9, <4>2, <5>5, <5>6 DEF i
      <4> QED BY <3>2, <4>1, <4>2
    <3>11. ASSUME NEW k \in 1..n, NEW m \in 1..n, k < m PROVE t[k] < from[m]
      <4>1. k \in 1..(n - 1)
        BY <3>2, <3>11
      <4> QED BY <2>4, <3>9, <3>11, <4>1
    <3>12. ASSUME NEW l \in 1..Len(y), y[l] # "/" PROVE \E k \in 1..n : l \in from[k]..t[k]
      <4>1. CASE l = Len(x) + 1
        <5>1. from[n] \in 1..Len(x)
          BY <2>5, <3>9
        <5>2. l \in from[n]..t[n]
          BY <2>2, <3>9, <4>1, <5>1
        <5> QED BY <3>9, <5>2
      <4>2. CASE l # Len(x) + 1
        <5>1. l \in 1..Len(x)
          BY <2>2, <4>2
        <5>2. PICK k \in 1..n : l \in from[k]..to[k]
          BY <2>2, <2>4, <3>12, <5>1
        <5>3. k \in 1..(n - 1) \/ k = n
          BY <3>2
        <5>4. l \in from[k]..t[k]
          <6>1. CASE k = n
            <7>1. from[n] \in 1..Len(x) /\ l \in from[n]..Len(x)
              BY <2>5, <3>6, <3>7, <3>9, <5>2, <6>1
            <7> QED BY <2>2, <3>9, <6>1, <7>1
          <6>2. CASE k \in 1..(n - 1)
            BY <3>9, <5>2, <6>2
          <6> QED BY <5>3, <6>1, <6>2
        <5> QED BY <5>2, <5>4
      <4> QED BY <4>1, <4>2
    <3>13. Enumerates(y, Split[y], from, t)
      BY <3>3, <3>10, <3>11, <3>12 DEF Enumerates
    <3> QED BY <2>2, <3>3, <3>9, <3>13 DEF y
  <2> QED BY <2>6, <2>7, <2>8
<1>3. p \in S
  <2> HIDE DEF S
  <2> QED BY <1>1, <1>2, TextInduction
<1> QED BY <1>3

(* The least and the greatest element of a set of numbers.                 *)
LEMMA MinIs ==
  ASSUME NEW S \in SUBSET Nat, NEW m \in S, \A k \in S : m <= k
  PROVE  Min(S) = m
<1>1. \A k \in S : (\A j \in S : k <= j) => k = m
  BY Z3
<1> QED BY <1>1, Zenon DEF Min

(* The greatest number of a set is what Max says.                          *)
LEMMA MaxIs ==
  ASSUME NEW S \in SUBSET Nat, NEW m \in S, \A k \in S : k <= m
  PROVE  Max(S) = m
<1>1. \A k \in S : (\A j \in S : k >= j) => k = m
  BY Z3
<1>2. \A j \in S : m >= j
  BY Z3
<1> QED BY <1>1, <1>2, Zenon DEF Max

(* An increasing sequence of k numbers has k elements.                     *)
LEMMA Counting ==
  ASSUME NEW n \in Nat, NEW f \in [1..n -> Nat], \A k, m \in 1..n : k < m => f[k] < f[m],
         NEW k \in 1..n
  PROVE  Cardinality({j \in {f[m] : m \in 1..n} : j <= f[k]}) = k
<1> DEFINE S == {j \in {f[m] : m \in 1..n} : j <= f[k]}
           g == [m \in 1..k |-> f[m]]
<1>1. \A m \in 1..k : m \in 1..n /\ g[m] = f[m] /\ f[m] <= f[k] /\ f[m] \in Nat
  OBVIOUS
<1>2. g \in [1..k -> S] /\ DOMAIN g = 1..k
  BY <1>1
<1>3. \A a, b \in 1..k : g[a] = g[b] => a = b
  <2> SUFFICES ASSUME NEW a \in 1..k, NEW b \in 1..k, g[a] = g[b], a # b PROVE FALSE
    OBVIOUS
  <2>1. a < b \/ b < a
    OBVIOUS
  <2>2. f[a] < f[b] \/ f[b] < f[a]
    BY <1>1, <2>1
  <2> QED BY <1>1, <2>2
<1>4. \A j \in S : \E m \in 1..k : g[m] = j
  <2> SUFFICES ASSUME NEW m \in 1..n, f[m] <= f[k] PROVE m \in 1..k
    BY <1>1
  <2> SUFFICES ASSUME k < m PROVE FALSE
    OBVIOUS
  <2> QED BY <1>1
<1> HIDE DEF S, g
<1>5. g \in Bijection(1..k, S)
  BY <1>2, <1>3, <1>4 DEF Bijection, Injection, Surjection, IsInjective
<1>6. ExistsBijection(1..k, S) /\ k \in Nat
  BY <1>5 DEF ExistsBijection
<1> QED BY <1>6, FS_CountingElements DEF S

(* An increasing function has as many values as arguments.                 *)
LEMMA CountingAll ==
  ASSUME NEW n \in Nat, NEW f \in [1..n -> Nat], \A k, m \in 1..n : k < m => f[k] < f[m]
  PROVE  Cardinality({f[m] : m \in 1..n}) = n
<1> DEFINE S == {f[m] : m \in 1..n}
<1>1. CASE n = 0
  <2>1. S = {}
    BY <1>1
  <2> QED BY <1>1, <2>1, FS_EmptySet
<1>2. CASE n # 0
  <2>1. n \in 1..n
    BY <1>2
  <2>2. \A m \in 1..n : f[m] <= f[n]
    BY <2>1
  <2>3. {j \in S : j <= f[n]} = S
    BY <2>2
  <2> QED BY <2>1, <2>3, Counting
<1> QED BY <1>1, <1>2

(* A run that begins at i reaches to the next slash or to the end.         *)
LEMMA RunFromIs ==
  ASSUME NEW p \in Text, NEW i \in Nat, NEW j \in Nat, Run(p, i, j)
  PROVE  RunFrom(p, i) = SubSeq(p, i, j)
<1> DEFINE S == {l \in DOMAIN p : l > i /\ p[l] = "/"} \cup {Len(p) + 1}
<1>1. Len(p) \in Nat /\ DOMAIN p = 1..Len(p)
  BY LenProperties DEF Text
<1>2. i \in 1..Len(p) /\ j \in i..Len(p) /\ \A l \in i..j : p[l] # "/"
  BY DEF Run
<1>3. j + 1 \in S
  <2>1. CASE j = Len(p)
    BY <2>1
  <2>2. CASE j # Len(p)
    <3>1. p[j + 1] = "/"
      BY <2>2 DEF Run
    <3>2. j + 1 \in 1..Len(p) /\ j + 1 > i
      <4> HIDE DEF S
      <4>1. i \in 1..Len(p) /\ j \in i..Len(p)
        BY <1>2
      <4>2. j + 1 > i
        BY <1>1, <4>1
      <4>3. Len(p) \in Nat /\ j <= Len(p)
        BY <1>1, <4>1
      <4>4. j < Len(p) \/ j = Len(p)
        BY <4>3
      <4>5. j < Len(p)
        BY <2>2, <4>4
      <4> QED BY <1>1, <4>1, <4>2, <4>5
    <3> QED BY <1>1, <3>1, <3>2
  <2> QED BY <2>1, <2>2
<1>4. S \in SUBSET Nat
  BY <1>1
<1>5. \A l \in S : j + 1 <= l
  <2> SUFFICES ASSUME NEW l \in S, l <= j PROVE FALSE
    BY <1>1, <1>2, <1>4
  <2>1. l # Len(p) + 1
    BY <1>1, <1>2
  <2>2. l > i /\ p[l] = "/" /\ l \in 1..Len(p)
    BY <1>1, <2>1
  <2>3. l \in i..j
    BY <1>1, <1>2, <2>2
  <2> QED BY <1>2, <2>2, <2>3
<1>6. Min(S) = j + 1
  <2> HIDE DEF S
  <2> QED BY <1>3, <1>4, <1>5, MinIs
<1>7. j + 1 - 1 = j
  BY <1>1, <1>2
<1>8. RunFrom(p, i) = SubSeq(p, i, Min(S) - 1)
  BY Zenon DEF RunFrom
<1>9. Min(S) - 1 = j
  BY <1>6, <1>7
<1> HIDE DEF S
<1> QED BY <1>8, <1>9, Zenon

(* The names of the reference are the names that fs_split finds.           *)
LEMMA NamesAreSplit ==
  ASSUME NEW p \in Text
  PROVE  Names(p) = Split[p]
<1> DEFINE n == Len(Split[p])
<1>1. PICK from, to \in [1..n -> 1..Len(p)] : Enumerates(p, Split[p], from, to)
  BY Enumeration
<1>2. Split[p] \in Seq(Word) /\ n \in Nat /\ DOMAIN Split[p] = 1..n /\ Split[p] \in [1..n -> Word]
  BY SplitWords, LenProperties
<1>3. Len(p) \in Nat /\ DOMAIN p = 1..Len(p)
  BY LenProperties DEF Text
<1>4. /\ \A k \in 1..n : Run(p, from[k], to[k]) /\ Split[p][k] = SubSeq(p, from[k], to[k])
      /\ \A k, m \in 1..n : k < m => to[k] < from[m]
      /\ \A l \in 1..Len(p) : p[l] # "/" => \E k \in 1..n : l \in from[k]..to[k]
  BY <1>1 DEF Enumerates
<1> HIDE DEF n
<1>5. \A k \in 1..n : /\ from[k] \in 1..Len(p) /\ to[k] \in from[k]..Len(p)
                      /\ \A l \in from[k]..to[k] : p[l] # "/"
                      /\ from[k] = 1 \/ p[from[k] - 1] = "/"
  BY <1>4 DEF Run
<1>6. \A k, m \in 1..n : k < m => from[k] < from[m]
  <2> SUFFICES ASSUME NEW k \in 1..n, NEW m \in 1..n, k < m PROVE from[k] < from[m]
    OBVIOUS
  <2> QED BY <1>3, <1>4, <1>5
<1>7. from \in [1..n -> Nat]
  BY <1>1, <1>3
<1>8. Starts(p) = {from[m] : m \in 1..n}
  <2>1. ASSUME NEW k \in 1..n PROVE from[k] \in Starts(p)
    <3>1. from[k] \in from[k]..to[k]
      BY <1>3, <1>5
    <3> QED BY <1>3, <1>5, <3>1 DEF Starts
  <2>2. ASSUME NEW i \in Starts(p) PROVE \E m \in 1..n : i = from[m]
    <3>1. i \in 1..Len(p) /\ p[i] # "/" /\ (i = 1 \/ p[i - 1] = "/")
      BY <1>3 DEF Starts
    <3>2. PICK m \in 1..n : i \in from[m]..to[m]
      BY <1>4, <3>1
    <3> SUFFICES ASSUME i # from[m] PROVE FALSE
      OBVIOUS
    <3>3. i # 1 /\ i - 1 \in from[m]..to[m]
      BY <1>3, <1>5, <3>1, <3>2
    <3> QED BY <1>5, <3>1, <3>3
  <2> QED BY <2>1, <2>2
<1>9. Cardinality(Starts(p)) = n
  BY <1>2, <1>6, <1>7, <1>8, CountingAll
<1>10. ASSUME NEW k \in 1..n PROVE RunFrom(p, CHOOSE i \in Ranked(p, k) : TRUE) = Split[p][k]
  <2>1. \A m \in 1..n : Cardinality({j \in Starts(p) : j <= from[m]}) = m
    BY <1>2, <1>6, <1>7, <1>8, Counting
  <2>2. \A i \in Ranked(p, k) : i = from[k]
    <3> SUFFICES ASSUME NEW m \in 1..n, from[m] \in Ranked(p, k) PROVE m = k
      BY <1>8 DEF Ranked
    <3> QED BY <2>1 DEF Ranked
  <2>3. from[k] \in Ranked(p, k)
    BY <1>8, <2>1 DEF Ranked
  <2>4. (CHOOSE i \in Ranked(p, k) : TRUE) = from[k]
    BY <2>2, <2>3
  <2>5. from[k] \in Nat /\ to[k] \in Nat
    BY <1>3, <1>5
  <2>6. RunFrom(p, from[k]) = SubSeq(p, from[k], to[k])
    BY <1>4, <2>5, RunFromIs
  <2> QED BY <1>4, <2>4, <2>6
<1>11. Names(p) = [k \in 1..n |-> RunFrom(p, CHOOSE i \in Ranked(p, k) : TRUE)]
  BY <1>9 DEF Names
<1>12. Names(p) = [k \in 1..n |-> Split[p][k]]
  BY <1>10, <1>11
<1> QED BY <1>2, <1>12

-----------------------------------------------------------------------------
(***************************************************************************)
(* Where paths lead.                                                       *)
(***************************************************************************)

(* The length and the places of a text.                                    *)
LEMMA TextIndices ==
  ASSUME NEW p \in Text
  PROVE  /\ Len(p) \in Nat /\ DOMAIN p = 1..Len(p) /\ (p = <<>> <=> Len(p) = 0)
         /\ \A i \in 1..Len(p) : p[i] \in Sign
BY EmptySeq, LenProperties, ElementOfSeq DEF Text

(* Following the names of two lists is following the one from where the    *)
(* other leads.                                                            *)
LEMMA FollowConcat ==
  ASSUME NEW dir \in Seq(Text), NEW ns \in Seq(Word), NEW ms \in Seq(Word)
  PROVE  Follow(dir, ns \o ms) = Follow(Follow(dir, ns), ms)
<1> DEFINE S == {x \in Seq(Word) : Follow(dir, ns \o x) = Follow(Follow(dir, ns), x)}
<1>0. ns \in Seq(Text) /\ Follow(dir, ns) \in Seq(Text)
  BY DotWords, FollowAppend, SeqMonotonic, FollowDef
<1>1. <<>> \in S
  BY <1>0, FollowDef, ConcatEmptySeq, EmptySeq
<1>2. ASSUME NEW x \in Seq(Word), NEW w \in Word, x \in S PROVE Append(x, w) \in S
  <2>1. ns \o Append(x, w) = Append(ns \o x, w) /\ ns \o x \in Seq(Word) /\ Append(x, w) \in Seq(Word)
    BY WordsConcatAppend
  <2>2. ns \o x \in Seq(Text) /\ x \in Seq(Text) /\ w \in Text
    BY <2>1, DotWords, SeqMonotonic
  <2>3. Follow(dir, Append(ns \o x, w)) = Enter(Follow(dir, ns \o x), w)
    BY <2>2, FollowDef
  <2>4. Follow(Follow(dir, ns), Append(x, w)) = Enter(Follow(Follow(dir, ns), x), w)
    BY <1>0, <2>2, FollowDef
  <2>5. Follow(dir, ns \o x) = Follow(Follow(dir, ns), x)
    BY <1>2
  <2> QED BY <2>1, <2>3, <2>4, <2>5
<1>3. ms \in S
  <2> HIDE DEF S
  <2> QED BY <1>1, <1>2, SeqInduction
<1> QED BY <1>3

(* A path leads where its names lead, from the root or from dir.           *)
LEMMA WalkIs ==
  ASSUME NEW dir \in Seq(Text), NEW p \in Text
  PROVE  Walk(dir, p) = Follow(Start(p, dir), Split[p]) /\ Walk(dir, p) \in Seq(Text)
<1>1. Names(p) = Split[p] /\ Split[p] \in Seq(Text)
  BY NamesAreSplit, SplitDef
<1>2. Start(p, dir) \in Seq(Text)
  BY EmptySeq DEF Start
<1>3. Walk(dir, p) = Follow(Start(p, dir), Split[p])
  BY <1>1 DEF Walk, Start
<1> QED BY <1>1, <1>2, <1>3, FollowDef

(* Only the names and the slash at the front matter.                       *)
LEMMA SameWalk ==
  ASSUME NEW p \in Text, NEW q \in Text, Split[p] = Split[q], SlashFirst(p) <=> SlashFirst(q)
  PROVE  \A dir \in Seq(Text) : Walk(dir, p) = Walk(dir, q)
BY WalkIs DEF Start

(* A path that is rebuilt of names has those names.                        *)
LEMMA SplitRebuilt ==
  ASSUME NEW p, NEW ns \in Seq(Word)
  PROVE  /\ Rebuilt(p, ns) \in Text
         /\ Split[Rebuilt(p, ns)] = ns
         /\ SlashFirst(Rebuilt(p, ns)) <=> SlashFirst(p)
         /\ Rebuilt(p, ns) = <<>> <=> ns = <<>> /\ ~ SlashFirst(p)
<1> DEFINE Good(x) == /\ Rebuilt(p, x) \in Text
                      /\ Split[Rebuilt(p, x)] = x
                      /\ SlashFirst(Rebuilt(p, x)) <=> SlashFirst(p)
                      /\ Rebuilt(p, x) = <<>> <=> x = <<>> /\ ~ SlashFirst(p)
           S == {x \in Seq(Word) : Good(x)}
<1>1. <<>> \in S
  <2>1. Split[<<>>] = <<>> /\ Split[Slash] = <<>>
    <3>1. <<>> \o Slash = Slash /\ Split[<<>> \o Slash] = Split[<<>>]
      BY Constants, TextEmpty, AppendSlash
    <3> QED BY <3>1, SplitDef
  <2>2. <<>> \in Text /\ Slash \in Text /\ SlashFirst(Slash) /\ ~ SlashFirst(<<>>) /\ Slash # <<>>
    BY Constants, TextIndices DEF SlashFirst
  <2>3. Good(<<>>)
    BY <2>1, <2>2, RebuiltEmpty
  <2> HIDE DEF Good
  <2> QED BY <2>3, EmptySeq
<1>2. ASSUME NEW x \in Seq(Word), NEW w \in Word, x \in S PROVE Append(x, w) \in S
  <2> DEFINE r == Rebuilt(p, x)
  <2>1. Append(x, w) \in Seq(Word) /\ Append(x, w) # <<>> /\ Append(x, w) = x \o <<w>>
    BY AppendProperties, AppendIsConcat
  <2>2. Rebuilt(p, Append(x, w)) = Append(r \o w, "/") /\ r \in Text /\ x \in Seq(Text) /\ w \in Text
    BY DotWords, SeqMonotonic, RebuiltAppend
  <2>3. r \o w \in Text /\ r \o w # <<>> /\ "/" \in Sign
    <3>1. w # <<>>
      BY SplitWord
    <3> QED BY <2>2, <3>1, TextConcat, TextLast, Constants DEF Specials
  <2>4. Split[Append(r \o w, "/")] = Split[r \o w]
    BY <2>3, SplitSlash
  <2>5. EndsOpen(r) /\ Split[r] = x /\ (SlashFirst(r) <=> SlashFirst(p))
        /\ (r = <<>> <=> x = <<>> /\ ~ SlashFirst(p))
    <3>1. EndsOpen(r)
      <4>1. CASE x = <<>>
        BY <4>1, RebuiltEmpty DEF EndsOpen, Slash, Last
      <4>2. CASE x # <<>>
        <5>1. Front(x) \in Seq(Word) /\ Last(x) \in Word /\ x = Append(Front(x), Last(x))
          BY <4>2, FrontLastAppend
        <5>2. Front(x) \in Seq(Text) /\ Last(x) \in Text
          BY <5>1, DotWords, SeqMonotonic
        <5>3. r = Append(Rebuilt(p, Front(x)) \o Last(x), "/") /\ Rebuilt(p, Front(x)) \o Last(x) \in Text
          BY <5>1, <5>2, RebuiltAppend, TextConcat
        <5> HIDE DEF r
        <5> QED BY <2>3, <5>3, TextAppend DEF EndsOpen
      <4> QED BY <4>1, <4>2
    <3> QED BY <1>2, <3>1
  <2> HIDE DEF r
  <2>6. Split[r \o w] = x \o <<w>>
    BY <2>2, <2>5, SplitConcat, SplitWord
  <2>7. SlashFirst(Append(r \o w, "/")) <=> SlashFirst(r \o w)
    BY <2>3, SlashFirstAppend
  <2>8. SlashFirst(r \o w) <=> SlashFirst(r)
    <3>1. CASE r = <<>>
      <4>1. r \o w = w /\ ~ SlashFirst(w) /\ ~ SlashFirst(r)
        BY <2>2, <3>1, TextEmpty, SplitWord DEF SlashFirst
      <4> QED BY <4>1
    <3>2. CASE r # <<>>
      BY <2>2, <3>2, FirstOfConcat
    <3> QED BY <3>1, <3>2
  <2>9. Append(r \o w, "/") \in Text /\ Append(r \o w, "/") # <<>>
    BY <2>3, TextAppend
  <2>10. Good(Append(x, w))
    BY <2>1, <2>2, <2>4, <2>5, <2>6, <2>7, <2>8, <2>9
  <2> HIDE DEF Good
  <2> QED BY <2>1, <2>10
<1>3. ns \in S
  <2> HIDE DEF S
  <2> QED BY <1>1, <1>2, SeqInduction
<1> QED BY <1>3

(* The slash at the end of a rebuilt path, which goes unless it is all of  *)
(* it.                                                                     *)
LEMMA WithoutLastSlashHolds ==
  ASSUME NEW r \in Text
  PROVE  /\ WithoutLastSlash(r) \in Text /\ (WithoutLastSlash(r) = <<>> <=> r = <<>>)
         /\ Split[WithoutLastSlash(r)] = Split[r]
         /\ SlashFirst(WithoutLastSlash(r)) <=> SlashFirst(r)
         /\ Len(WithoutLastSlash(r)) = IF Len(r) > 1 /\ Last(r) = "/" THEN Len(r) - 1 ELSE Len(r)
         /\ r \in Seq(Char) => WithoutLastSlash(r) \in Seq(Char)
<1>1. Len(r) \in Nat /\ (r = <<>> <=> Len(r) = 0)
  BY TextIndices
<1>2. CASE ~ (Len(r) > 1 /\ Last(r) = "/")
  BY <1>1, <1>2 DEF WithoutLastSlash
<1>3. CASE Len(r) > 1 /\ Last(r) = "/"
  <2>1. WithoutLastSlash(r) = Front(r) /\ r # <<>>
    BY <1>1, <1>3 DEF WithoutLastSlash
  <2>2. Front(r) \in Text /\ Len(Front(r)) = Len(r) - 1 /\ r = Append(Front(r), "/") /\ "/" \in Sign
    BY <1>3, <2>1, TextFront
  <2>3. Split[r] = Split[Front(r)]
    BY <2>2, SplitSlash
  <2>4. Front(r) # <<>>
    BY <1>1, <1>3, <2>2, TextIndices
  <2>5. SlashFirst(r) <=> SlashFirst(Front(r))
    BY <2>2, <2>4, SlashFirstAppend
  <2>6. r \in Seq(Char) => Front(r) \in Seq(Char)
    BY <2>1, FrontLastAppend
  <2> QED BY <1>1, <1>3, <2>1, <2>2, <2>3, <2>4, <2>5, <2>6
<1> QED BY <1>2, <1>3

(* A path rebuilt of the names of arguments is an argument.                *)
LEMMA RebuiltChars ==
  ASSUME NEW p, NEW ns \in Seq(ArgWord)
  PROVE  Rebuilt(p, ns) \in Seq(Char)
<1> DEFINE S == {x \in Seq(ArgWord) : Rebuilt(p, x) \in Seq(Char)}
<1>1. <<>> \in S
  <2>1. Slash \in Seq(Char) /\ <<>> \in Seq(Char) /\ <<>> \in Seq(ArgWord)
    BY EmptySeq DEF Slash, Char
  <2> QED BY <2>1, RebuiltEmpty
<1>2. ASSUME NEW x \in Seq(ArgWord), NEW w \in ArgWord, x \in S PROVE Append(x, w) \in S
  <2>1. Append(x, w) \in Seq(ArgWord) /\ x \in Seq(Text) /\ w \in Text /\ w \in Seq(Char) /\ "/" \in Char
    BY AppendProperties, DotWords, SeqMonotonic DEF ArgWord, Char
  <2>2. Rebuilt(p, Append(x, w)) = Append(Rebuilt(p, x) \o w, "/")
    BY <2>1, RebuiltAppend
  <2>3. Rebuilt(p, x) \o w \in Seq(Char)
    BY <1>2, <2>1, ConcatProperties
  <2>4. Append(Rebuilt(p, x) \o w, "/") \in Seq(Char)
    BY <2>1, <2>3, AppendProperties
  <2> QED BY <2>1, <2>2, <2>4
<1>3. ns \in S
  <2> HIDE DEF S
  <2> QED BY <1>1, <1>2, SeqInduction
<1> QED BY <1>3

(* A rebuilt path of names ends with a slash.                              *)
LEMMA RebuiltEnds ==
  ASSUME NEW p, NEW ns \in Seq(Word), ns # <<>>
  PROVE  Last(Rebuilt(p, ns)) = "/"
<1>1. Front(ns) \in Seq(Word) /\ Last(ns) \in Word /\ ns = Append(Front(ns), Last(ns))
  BY FrontLastAppend
<1>2. Front(ns) \in Seq(Text) /\ Last(ns) \in Text
  BY <1>1, DotWords, SeqMonotonic
<1>3. Rebuilt(p, ns) = Append(Rebuilt(p, Front(ns)) \o Last(ns), "/")
      /\ Rebuilt(p, Front(ns)) \o Last(ns) \in Text /\ "/" \in Sign
  <2>1. "/" \in Sign
    BY Constants DEF Specials
  <2>2. Rebuilt(p, Front(ns)) \in Text
        /\ Rebuilt(p, Append(Front(ns), Last(ns))) = Append(Rebuilt(p, Front(ns)) \o Last(ns), "/")
    BY <1>2, RebuiltAppend
  <2> QED BY <1>1, <1>2, <2>1, <2>2, TextConcat
<1> QED BY <1>3, TextAppend

(* What the names of fs_normal_vector are for a text and for an argument.  *)
LEMMA NormalVectorHolds ==
  ASSUME NEW p \in Text
  PROVE  /\ NormalVector(p) \in Seq(Word) /\ NormalForm(p, NormalVector(p))
         /\ Len(NormalVector(p)) <= Len(Split[p])
         /\ Len(Rebuilt(p, NormalVector(p))) <= Len(Rebuilt(p, Split[p]))
         /\ \A dir \in Seq(Text) : Follow(Start(p, dir), NormalVector(p)) = Walk(dir, p)
         /\ p \in Seq(Char) => NormalVector(p) \in Seq(ArgWord)
<1>1. Split[p] \in Seq(Word) /\ DotDot \in Word
  BY SplitWords, DotWords
<1>2. Normalizes(p, Word, Split[p], NormalVector(p))
  BY <1>1, NormalizedHolds DEF NormalVector
<1>3. p \in Seq(Char) => NormalVector(p) \in Seq(ArgWord)
  <2> SUFFICES ASSUME p \in Seq(Char) PROVE NormalVector(p) \in Seq(ArgWord)
    OBVIOUS
  <2>1. Split[p] \in Seq(ArgWord) /\ DotDot \in ArgWord /\ ArgWord \subseteq Word
    BY SplitArgWords, DotWords
  <2>2. Normalizes(p, ArgWord, Split[p], NormalVector(p))
    BY <2>1, NormalizedHolds DEF NormalVector
  <2> QED BY <2>2 DEF Normalizes
<1> QED BY <1>2, <1>3, WalkIs DEF Normalizes

(* fs_normal leads where the path leads.                                   *)
LEMMA NormalLeads ==
  ASSUME NEW p \in Text
  PROVE  /\ Normal(p) \in Text /\ Normal(p) # <<>>
         /\ SlashFirst(Normal(p)) <=> SlashFirst(p)
         /\ \A dir \in Seq(Text) : Walk(dir, Normal(p)) = Walk(dir, p)
<1> DEFINE N == NormalVector(p)
           r == Rebuilt(p, N)
           t == WithoutLastSlash(r)
<1>1. N \in Seq(Word) /\ \A dir \in Seq(Text) : Follow(Start(p, dir), N) = Walk(dir, p)
  BY NormalVectorHolds
<1> HIDE DEF N
<1>2. r \in Text /\ Split[r] = N /\ (SlashFirst(r) <=> SlashFirst(p)) /\ (r = <<>> <=> N = <<>> /\ ~ SlashFirst(p))
  BY <1>1, SplitRebuilt
<1> HIDE DEF r
<1>3. t \in Text /\ Split[t] = N /\ (SlashFirst(t) <=> SlashFirst(p)) /\ (t = <<>> <=> r = <<>>)
  BY <1>2, WithoutLastSlashHolds
<1>4. Normal(p) = IF t = <<>> THEN DotPath ELSE t
  BY DEF Normal, t, r, N
<1> HIDE DEF t
<1>5. CASE t # <<>>
  <2>1. Normal(p) = t
    BY <1>4, <1>5
  <2>2. ASSUME NEW dir \in Seq(Text) PROVE Walk(dir, t) = Walk(dir, p)
    BY <1>1, <1>3, WalkIs DEF Start
  <2> QED BY <1>3, <1>5, <2>1, <2>2
<1>6. CASE t = <<>>
  <2>1. Normal(p) = DotPath /\ N = <<>> /\ ~ SlashFirst(p)
    BY <1>2, <1>3, <1>4, <1>6
  <2>2. Split[DotPath] = <<DotPath>> /\ ~ SlashFirst(DotPath) /\ DotPath \in Text /\ DotPath # <<>>
    BY SplitWord, DotWords
  <2>3. ASSUME NEW dir \in Seq(Text) PROVE Walk(dir, DotPath) = Walk(dir, p)
    <3>1. Walk(dir, DotPath) = Follow(dir, <<DotPath>>)
      BY <2>2, WalkIs DEF Start
    <3>2. <<DotPath>> = Append(<<>>, DotPath) /\ <<>> \in Seq(Text)
      BY EmptySeq
    <3>3. Follow(dir, <<DotPath>>) = dir
      <4>1. Follow(dir, Append(<<>>, DotPath)) = Enter(Follow(dir, <<>>), DotPath) /\ Follow(dir, <<>>) = dir
        BY <2>2, <3>2, FollowAppend
      <4>2. Enter(dir, DotPath) = dir
        BY <2>2, EnterCases
      <4> QED BY <3>2, <4>1, <4>2
    <3>4. Walk(dir, p) = dir
      BY <1>1, <2>1, FollowDef DEF Start
    <3> QED BY <3>1, <3>3, <3>4
  <2> QED BY <2>1, <2>2, <2>3
<1> QED BY <1>5, <1>6

(* The normal form of an argument is an argument, and no longer than it.   *)
LEMMA NormalLength ==
  ASSUME NEW p \in Seq(Char)
  PROVE  Normal(p) \in Seq(Char) \ {<<>>} /\ Len(Normal(p)) <= Max({1, Len(p)})
<1> DEFINE N == NormalVector(p)
           r == Rebuilt(p, N)
           t == WithoutLastSlash(r)
           all == Rebuilt(p, Split[p])
<1>0. p \in Text
  BY Constants, SeqMonotonic DEF Text
<1>1. N \in Seq(ArgWord) /\ N \in Seq(Word) /\ Len(r) <= Len(all)
  BY <1>0, NormalVectorHolds
<1>2. Len(all) > 1 => all = Append(DropSlash(p), "/") /\ DropSlash(p) \in Text /\ Len(DropSlash(p)) <= Len(p)
  BY <1>0, DropSlashHolds DEF Trimmed
<1>3. Split[p] \in Seq(Word)
  BY <1>0, SplitWords
<1>4. all \in Text /\ Len(all) \in Nat /\ Len(p) \in Nat
  BY <1>0, <1>3, SplitRebuilt, TextIndices
<1>5. "/" \in Sign
  BY Constants DEF Specials
<1> HIDE DEF N, all
<1>6. Len(all) > 1 => Len(all) <= Len(p) + 1
  <2> SUFFICES ASSUME Len(all) > 1 PROVE Len(all) <= Len(p) + 1
    OBVIOUS
  <2>1. Len(Append(DropSlash(p), "/")) = Len(DropSlash(p)) + 1 /\ Len(DropSlash(p)) \in Nat
    BY <1>2, <1>5, TextAppend
  <2> QED BY <1>2, <1>4, <2>1
<1>7. r \in Text /\ r \in Seq(Char) /\ Len(r) \in Nat /\ Split[r] = N
  BY <1>1, SplitRebuilt, RebuiltChars, TextIndices
<1>8. Len(r) > 1 => Last(r) = "/"
  <2>1. CASE N = <<>>
    <3>1. r = Slash \/ r = <<>>
      BY <2>1, RebuiltEmpty
    <3>2. Len(Slash) = 1 /\ Len(<<>>) = 0
      BY Constants, TextIndices
    <3>3. Len(r) = 1 \/ Len(r) = 0
      BY <3>1, <3>2
    <3> HIDE DEF r
    <3>4. ~ (Len(r) > 1)
      <4>1. Len(r) \in Nat
        BY <1>7
      <4>2. \A n \in Nat : n = 1 \/ n = 0 => ~ (n > 1)
        OBVIOUS
      <4> QED BY <3>3, <4>1, <4>2, Zenon
    <3> QED BY <3>4
  <2>2. CASE N # <<>>
    BY <1>1, <2>2, RebuiltEnds
  <2> QED BY <2>1, <2>2
<1> HIDE DEF r
<1>9. t \in Seq(Char) /\ t \in Text /\ Len(t) \in Nat /\ (t = <<>> => Len(t) = 0)
      /\ Len(t) = IF Len(r) > 1 /\ Last(r) = "/" THEN Len(r) - 1 ELSE Len(r)
  BY <1>7, WithoutLastSlashHolds, TextIndices
<1> HIDE DEF t
<1>10. Len(t) <= 1 \/ Len(t) <= Len(p)
  BY <1>1, <1>4, <1>6, <1>7, <1>8, <1>9
<1>11. Normal(p) = IF t = <<>> THEN DotPath ELSE t
  BY DEF Normal, t, r, N
<1>12. DotPath \in Seq(Char) /\ Len(DotPath) = 1 /\ DotPath # <<>>
  BY DotWords, SplitWord, Constants DEF ArgWord
<1>13. \E m \in {1, Len(p)} : \A k \in {1, Len(p)} : k <= m
  BY <1>4
<1>14. Max({1, Len(p)}) \in Nat /\ 1 <= Max({1, Len(p)}) /\ Len(p) <= Max({1, Len(p)})
  <2>1. PICK m \in {1, Len(p)} : \A k \in {1, Len(p)} : k <= m
    BY <1>13
  <2>2. {1, Len(p)} \in SUBSET Nat
    BY <1>4
  <2>3. Max({1, Len(p)}) = m
    BY <2>1, <2>2, MaxIs
  <2> QED BY <1>4, <2>1, <2>3
<1>15. Normal(p) \in Seq(Char) \ {<<>>} /\ (Len(Normal(p)) <= 1 \/ Len(Normal(p)) <= Len(p)) /\ Len(Normal(p)) \in Nat
  <2>1. CASE t = <<>>
    <3>1. Normal(p) = DotPath
      BY <1>11, <2>1
    <3>2. Len(DotPath) <= 1 /\ Len(DotPath) \in Nat
      BY <1>12
    <3> QED BY <1>12, <3>1, <3>2
  <2>2. CASE t # <<>>
    <3>1. Normal(p) = t
      BY <1>11, <2>2
    <3> QED BY <1>9, <1>10, <2>2, <3>1
  <2> QED BY <2>1, <2>2
<1> QED BY <1>4, <1>14, <1>15

(* A text has no more names than characters.                               *)
LEMMA SplitLength ==
  ASSUME NEW p \in Text
  PROVE  Len(Split[p]) <= Len(p) /\ Len(Split[p]) \in Nat
<1> DEFINE S == {x \in Text : Len(Split[x]) <= Len(x) /\ Len(Split[x]) \in Nat}
<1>1. <<>> \in S
  BY SplitDef, Constants, TextIndices
<1>2. ASSUME NEW x \in Text, NEW c \in Sign, x \in S PROVE Append(x, c) \in S
  <2>1. Append(x, c) \in Text /\ Len(Append(x, c)) = Len(x) + 1 /\ Len(x) \in Nat
    BY TextAppend
  <2>2. Len(Split[x]) <= Len(x) /\ Len(Split[x]) \in Nat
    BY <1>2
  <2>3. CASE c = "/"
    BY <2>1, <2>2, <2>3, SplitSlash
  <2>4. CASE c # "/" /\ EndsOpen(x)
    <3>1. Split[Append(x, c)] = Append(Split[x], <<c>>)
      BY <2>4, SplitBegins
    <3>2. Split[x] \in Seq(Word) /\ <<c>> \in Word
      BY <2>4, SplitWords, WordAppend
    <3>3. Len(Append(Split[x], <<c>>)) = Len(Split[x]) + 1
      BY <3>2, AppendProperties
    <3> QED BY <2>1, <2>2, <3>1, <3>3
  <2>5. CASE c # "/" /\ ~ EndsOpen(x)
    <3>1. PICK ws \in Seq(Word), w \in Word :
            /\ Split[x] = Append(ws, w)
            /\ Split[Append(x, c)] = Append(ws, Append(w, c)) /\ Append(w, c) \in Word
      BY <2>5, SplitExtends
    <3>2. Len(Split[x]) = Len(Split[Append(x, c)])
      BY <3>1, AppendProperties
    <3> QED BY <2>1, <2>2, <3>2
  <2> QED BY <2>3, <2>4, <2>5
<1>3. p \in S
  <2> HIDE DEF S
  <2> QED BY <1>1, <1>2, TextInduction
<1> QED BY <1>3

(* What a step back at the end of a normal form says of it, and a name.    *)
LEMMA UpsLast ==
  ASSUME NEW ns \in Seq(Word), NEW w \in Word, NEW k, Ups(Append(ns, w), k)
  PROVE  \/ k \in 0..Len(ns) /\ Ups(ns, k) /\ w # DotDot /\ w # DotPath
         \/ k = Len(ns) + 1 /\ Ups(ns, Len(ns)) /\ w = DotDot
<1>1. /\ Len(Append(ns, w)) = Len(ns) + 1 /\ Len(ns) \in Nat
      /\ \A i \in 1..Len(ns) : Append(ns, w)[i] = ns[i]
      /\ Append(ns, w)[Len(ns) + 1] = w
  BY AppendProperties, LenProperties
<1>2. k \in 0..(Len(ns) + 1)
  BY <1>1 DEF Ups
<1>3. CASE k = Len(ns) + 1
  <2>1. \A i \in 1..(Len(ns) + 1) : Append(ns, w)[i] = DotDot
    BY <1>3 DEF Ups
  <2>2. w = DotDot /\ \A i \in 1..Len(ns) : ns[i] = DotDot
    BY <1>1, <2>1
  <2>3. Ups(ns, Len(ns))
    BY <1>1, <2>2 DEF Ups
  <2> QED BY <1>3, <2>2, <2>3
<1>4. CASE k # Len(ns) + 1
  <2>1. k \in 0..Len(ns)
    BY <1>1, <1>2, <1>4
  <2>2. w # DotDot /\ w # DotPath
    <3>1. Len(ns) + 1 \in (k + 1)..(Len(ns) + 1)
      BY <1>1, <2>1
    <3> QED BY <1>1, <3>1 DEF Ups
  <2> QED BY <2>1, <2>2, UpsFront
<1> QED BY <1>3, <1>4

(* The length and the elements of a part of a sequence.                    *)
LEMMA PartType ==
  ASSUME NEW A, NEW s \in Seq(A), NEW i \in Nat \ {0}, NEW j \in 0..Len(s)
  PROVE  /\ SubSeq(s, i, j) \in Seq(A)
         /\ Len(SubSeq(s, i, j)) = IF i <= j THEN j - i + 1 ELSE 0
         /\ \A l \in 1..(j - i + 1) : SubSeq(s, i, j)[l] = s[i + l - 1]
<1>1. Len(s) \in Nat /\ \A l \in 1..Len(s) : s[l] \in A
  BY LenProperties, ElementOfSeq
<1>2. \A l \in i..j : l \in 1..Len(s)
  BY <1>1
<1>3. i \in Int /\ j \in Int /\ \A l \in i..j : s[l] \in A
  BY <1>1, <1>2
<1> QED BY <1>3, SubSeqProperties

(* Leaving the last of a number of directories.                            *)
LEMMA FrontOfPart ==
  ASSUME NEW A, NEW dir \in Seq(A), NEW m \in 1..Len(dir)
  PROVE  SubSeq(dir, 1, m) # <<>> /\ Front(SubSeq(dir, 1, m)) = SubSeq(dir, 1, m - 1)
<1>1. Len(dir) \in Nat /\ \A i \in 1..Len(dir) : dir[i] \in A
  BY LenProperties, ElementOfSeq
<1>2. 1 \in 1..Len(dir) /\ m \in 1..Len(dir) /\ dir[m] \in A /\ \A i \in 1..(m - 1) : dir[i] \in A
  BY <1>1
<1>3. SubSeq(dir, 1, m) = SubSeq(dir, 1, m - 1) \o <<dir[m]>>
  BY <1>2, SubSeqRecursiveSecond
<1>4. SubSeq(dir, 1, m - 1) \in Seq(A)
  BY <1>1, <1>2, SubSeqProperties
<1>5. SubSeq(dir, 1, m) = Append(SubSeq(dir, 1, m - 1), dir[m])
  BY <1>2, <1>3, <1>4, AppendIsConcat
<1> DEFINE up == SubSeq(dir, 1, m - 1)
<1>6. Front(Append(up, dir[m])) = up /\ Append(up, dir[m]) # <<>>
  <2>1. up \in Seq(A) /\ dir[m] \in A
    BY <1>2, <1>4
  <2> HIDE DEF up
  <2> QED BY <2>1, FrontLast, AppendProperties
<1> QED BY <1>5, <1>6

(* A normal form that begins with k steps back leads k directories up and  *)
(* then down along its names.                                              *)
LEMMA FollowUps ==
  ASSUME NEW dir \in Seq(Text), NEW N \in Seq(Word), NEW k, Ups(N, k), k <= Len(dir)
  PROVE  Follow(dir, N) = SubSeq(dir, 1, Len(dir) - k) \o SubSeq(N, k + 1, Len(N))
<1> DEFINE L == Len(dir)
           Up(h) == SubSeq(dir, 1, L - h)
           Good(x) == \A h : Ups(x, h) /\ h <= L => Follow(dir, x) = Up(h) \o SubSeq(x, h + 1, Len(x))
           S == {x \in Seq(Word) : Good(x)}
<1>0. L \in Nat /\ \A i \in 1..L : dir[i] \in Text
  BY LenProperties, ElementOfSeq
<1>1. <<>> \in S
  <2>1. ASSUME NEW h, Ups(<<>>, h) PROVE h = 0
    BY <2>1, EmptySeq DEF Ups
  <2>2. Up(0) = dir /\ SubSeq(<<>>, 0 + 1, Len(<<>>)) = <<>> /\ <<>> \in Seq(Word)
    BY <1>0, EmptySeq, SubSeqFull, SubSeqEmpty
  <2>3. Up(0) \o SubSeq(<<>>, 0 + 1, Len(<<>>)) = dir
    BY <2>2, ConcatEmptySeq
  <2>4. Good(<<>>)
    BY <2>1, <2>3, FollowDef
  <2> HIDE DEF Good
  <2> QED BY <2>2, <2>4
<1>2. ASSUME NEW x \in Seq(Word), NEW w \in Word, x \in S PROVE Append(x, w) \in S
  <2>1. Append(x, w) \in Seq(Word) /\ Len(Append(x, w)) = Len(x) + 1 /\ Len(x) \in Nat
        /\ x \in Seq(Text) /\ w \in Text /\ \A i \in 1..Len(x) : x[i] \in Word
    BY AppendProperties, LenProperties, DotWords, SeqMonotonic, ElementOfSeq
  <2>2. Follow(dir, Append(x, w)) = Enter(Follow(dir, x), w) /\ Follow(dir, x) \in Seq(Text)
    BY <2>1, FollowAppend
  <2> SUFFICES ASSUME NEW h, Ups(Append(x, w), h), h <= L
               PROVE  Follow(dir, Append(x, w)) = Up(h) \o SubSeq(Append(x, w), h + 1, Len(x) + 1)
    BY <2>1
  <2>3. CASE h \in 0..Len(x) /\ Ups(x, h) /\ w # DotDot /\ w # DotPath
    <3>1. Follow(dir, x) = Up(h) \o SubSeq(x, h + 1, Len(x))
      BY <1>2, <2>3
    <3>2. SubSeq(Append(x, w), h + 1, Len(x) + 1) = Append(SubSeq(x, h + 1, Len(x)), w)
      <4>1. h + 1 \in 1..(Len(x) + 1)
        BY <2>1, <2>3
      <4> QED BY <4>1, PartExtends
    <3>3. Enter(Follow(dir, x), w) = Append(Follow(dir, x), w)
      BY <2>1, <2>2, <2>3, EnterCases
    <3>4. Up(h) \in Seq(Text) /\ SubSeq(x, h + 1, Len(x)) \in Seq(Text)
      <4>1. h + 1 \in Nat \ {0} /\ Len(x) \in 0..Len(x) /\ L - h \in 0..L
        BY <1>0, <2>1, <2>3
      <4> QED BY <2>1, <4>1, PartType
    <3> HIDE DEF Up, S, Good
    <3> DEFINE down == SubSeq(x, h + 1, Len(x))
    <3>5. Up(h) \o Append(down, w) = Append(Up(h) \o down, w)
      <4>1. down \in Seq(Text)
        BY <3>4
      <4> HIDE DEF down
      <4> QED BY <2>1, <3>4, <4>1, ConcatAppend
    <3> QED BY <2>2, <3>1, <3>2, <3>3, <3>5
  <2>4. CASE h = Len(x) + 1 /\ Ups(x, Len(x)) /\ w = DotDot
    <3> DEFINE g == Len(x)
    <3>1. g <= L /\ L - g \in 1..L /\ L - g - 1 = L - h
      BY <1>0, <2>1, <2>4
    <3>2. Follow(dir, x) = Up(g) \o SubSeq(x, g + 1, Len(x))
      BY <1>2, <2>4, <3>1
    <3>3. SubSeq(x, g + 1, Len(x)) = <<>> /\ SubSeq(Append(x, w), h + 1, Len(x) + 1) = <<>>
      BY <2>1, <2>4, SubSeqEmpty
    <3>4. Up(g) \in Seq(Text) /\ Up(h) \in Seq(Text)
      <4>1. L - g \in 0..L /\ L - h \in 0..L
        BY <1>0, <2>1, <2>4
      <4> QED BY <4>1, PartType
    <3>5. Up(g) # <<>> /\ Front(Up(g)) = Up(h)
      BY <3>1, FrontOfPart
    <3>6. Follow(dir, x) = Up(g)
      BY <3>2, <3>3, <3>4, ConcatEmptySeq
    <3>7. Enter(Up(g), w) = Up(h)
      BY <2>1, <2>4, <3>4, <3>5, EnterCases
    <3> QED BY <2>2, <3>3, <3>4, <3>6, <3>7, ConcatEmptySeq
  <2> QED BY <2>3, <2>4, UpsLast
<1>3. N \in S
  <2> HIDE DEF S
  <2> QED BY <1>1, <1>2, SeqInduction
<1> QED BY <1>3

(* The k steps back of the normal form N lead from Deep to the m-th of its *)
(* directories, which has no name of an argument; an absolute path leads   *)
(* to none of them.                                                        *)
Out == <<"#">>

Leads(M, N, k, m) ==
  /\ Len(M) = m + (Len(N) - k)
  /\ \A i \in 1..m : M[i] = Out
  /\ \A j \in 1..(Len(N) - k) : M[m + j] = N[k + j]

(* The names of the deep directory are in no argument.                     *)
LEMMA OutIsNoName ==
  Out \in Text /\ Out \notin ArgWord
<1>1. "#" \in Sign /\ "#" \notin Char
  BY Constants DEF Specials
<1>2. Out \in Text
  BY <1>1 DEF Out, Text
<1>3. Out \notin Seq(Char)
  <2> SUFFICES ASSUME Out \in Seq(Char) PROVE FALSE
    OBVIOUS
  <2>1. Len(Out) = 1 /\ Out[1] = "#"
    BY DEF Out
  <2>2. Out[1] \in Char
    BY <2>1, ElementOfSeq
  <2> QED BY <1>1, <2>1, <2>2
<1> QED BY <1>2, <1>3 DEF ArgWord

(* The deep directory has more names than an argument has characters.      *)
LEMMA DeepIs ==
  Deep \in Seq(Text) /\ Len(Deep) = MaxLen + 1 /\ \A i \in 1..(MaxLen + 1) : Deep[i] = Out
<1>1. MaxLen + 1 \in Nat
  BY BoundsAssumption
<1>2. Deep = [i \in 1..(MaxLen + 1) |-> Out] /\ Out \in Text
  BY OutIsNoName DEF Deep, Out
<1>3. Deep \in [1..(MaxLen + 1) -> Text] /\ \A i \in 1..(MaxLen + 1) : Deep[i] = Out
  BY <1>2
<1>4. Deep \in Seq(Text)
  BY <1>1, <1>3, SeqDef
<1>5. Len(Deep) \in Nat /\ DOMAIN Deep = 1..Len(Deep)
  BY <1>4, LenProperties
<1> QED BY <1>1, <1>3, <1>4, <1>5

(* Where an argument leads shows its normal form: how far up it goes, and  *)
(* the names it goes down.                                                 *)
LEMMA MeaningShape ==
  ASSUME NEW p \in Seq(Char), Len(p) <= MaxLen
  PROVE  \E k \in 0..Len(NormalVector(p)) :
           /\ Ups(NormalVector(p), k)
           /\ SlashFirst(p) => k = 0 /\ Leads(Meaning(p), NormalVector(p), 0, 0)
           /\ ~ SlashFirst(p) => k <= MaxLen /\ Leads(Meaning(p), NormalVector(p), k, MaxLen + 1 - k)
<1> DEFINE N == NormalVector(p)
<1>0. p \in Text
  BY Constants, SeqMonotonic DEF Text
<1>1. N \in Seq(Word) /\ NormalForm(p, N) /\ Len(N) <= Len(Split[p])
      /\ \A dir \in Seq(Text) : Follow(Start(p, dir), N) = Walk(dir, p)
  BY <1>0, NormalVectorHolds
<1>2. Len(N) \in Nat /\ Len(N) <= MaxLen /\ MaxLen \in Nat
  <2>1. Len(Split[p]) \in Nat /\ Len(Split[p]) <= Len(p) /\ Len(p) \in Nat /\ Len(N) \in Nat
    BY <1>0, <1>1, SplitLength, TextIndices, LenProperties
  <2> QED BY <1>1, <2>1, BoundsAssumption
<1>3. Meaning(p) = Follow(Start(p, Deep), N)
  BY <1>1, DeepIs DEF Meaning
<1> HIDE DEF N
<1>4. PICK k \in Nat : Ups(N, k) /\ (SlashFirst(p) => k = 0)
  BY <1>1 DEF NormalForm
<1>5. k \in 0..Len(N)
  BY <1>4 DEF Ups
<1>6. CASE SlashFirst(p)
  <2>1. Meaning(p) = Follow(<<>>, N) /\ Ups(N, 0)
    BY <1>3, <1>4, <1>6 DEF Start
  <2>2. <<>> \in Seq(Text) /\ Len(<<>>) = 0
    BY EmptySeq
  <2>3. Follow(<<>>, N) = SubSeq(<<>>, 1, Len(<<>>) - 0) \o SubSeq(N, 0 + 1, Len(N))
    <3>1. 0 <= Len(<<>>)
      BY <2>2
    <3> QED BY <1>1, <2>1, <2>2, <3>1, FollowUps, Zenon
  <2>4. SubSeq(<<>>, 1, Len(<<>>) - 0) = <<>> /\ SubSeq(N, 0 + 1, Len(N)) = N
    BY <1>1, <2>2, SubSeqEmpty, SubSeqFull
  <2>5. Follow(<<>>, N) = N
    BY <1>1, <2>3, <2>4, ConcatEmptySeq
  <2>6. Leads(N, N, 0, 0)
    BY <1>2 DEF Leads
  <2> QED BY <1>4, <1>5, <1>6, <2>1, <2>5, <2>6 DEF N
<1>7. CASE ~ SlashFirst(p)
  <2> DEFINE m == MaxLen + 1 - k
             up == SubSeq(Deep, 1, m)
             down == SubSeq(N, k + 1, Len(N))
  <2>1. Meaning(p) = Follow(Deep, N)
    BY <1>3, <1>7 DEF Start
  <2>2. k <= Len(Deep) /\ Len(Deep) - k = m /\ m \in 0..Len(Deep) /\ m \in Nat
        /\ \A i \in 1..m : i \in 1..(MaxLen + 1)
    BY <1>2, <1>5, DeepIs
  <2>3. Meaning(p) = up \o down
    BY <1>1, <1>4, <2>1, <2>2, DeepIs, FollowUps
  <2>4. up \in Seq(Text) /\ Len(up) = m /\ \A i \in 1..m : up[i] = Out
    <3>1. up \in Seq(Text) /\ Len(up) = (IF 1 <= m THEN m - 1 + 1 ELSE 0)
          /\ \A i \in 1..(m - 1 + 1) : up[i] = Deep[1 + i - 1]
      BY <2>2, DeepIs, PartType
    <3> QED BY <2>2, <3>1, DeepIs
  <2>5. down \in Seq(Text) /\ Len(down) = Len(N) - k /\ \A j \in 1..(Len(N) - k) : down[j] = N[k + j]
    <3>1. k + 1 \in Nat \ {0} /\ Len(N) \in 0..Len(N) /\ N \in Seq(Text)
      BY <1>1, <1>2, DotWords, SeqMonotonic
    <3>2. down \in Seq(Text) /\ Len(down) = (IF k + 1 <= Len(N) THEN Len(N) - (k + 1) + 1 ELSE 0)
          /\ \A j \in 1..(Len(N) - (k + 1) + 1) : down[j] = N[(k + 1) + j - 1]
      BY <3>1, PartType
    <3> HIDE DEF down
    <3> QED BY <1>2, <1>5, <3>2
  <2> HIDE DEF up, down
  <2>6. Len(up \o down) = m + (Len(N) - k)
        /\ \A i \in 1..(m + (Len(N) - k)) : (up \o down)[i] = IF i <= m THEN up[i] ELSE down[i - m]
    BY <2>4, <2>5, ConcatProperties
  <2>7. \A i \in 1..m : (up \o down)[i] = Out
    BY <1>2, <1>5, <2>2, <2>4, <2>6
  <2>8. \A j \in 1..(Len(N) - k) : (up \o down)[m + j] = N[k + j]
    BY <1>2, <1>5, <2>2, <2>5, <2>6
  <2>9. Leads(up \o down, N, k, m)
    BY <2>6, <2>7, <2>8 DEF Leads
  <2> QED BY <1>2, <1>4, <1>5, <1>7, <2>3, <2>9 DEF N
<1> QED BY <1>6, <1>7

(* Two normal forms that lead to the same place are the same: the          *)
(* directories of Deep that are left tell how many steps back there were.  *)
LEMMA SameShape ==
  ASSUME NEW M, NEW A \in Seq(ArgWord), NEW B \in Seq(ArgWord),
         NEW k \in 0..Len(A), NEW h \in 0..Len(B), NEW m \in Nat, NEW n \in Nat,
         Leads(M, A, k, m), Leads(M, B, h, n), m < n
  PROVE  FALSE
<1>1. Len(A) \in Nat /\ Len(B) \in Nat /\ \A i \in 1..Len(A) : A[i] \in ArgWord
  BY LenProperties, ElementOfSeq
<1>2. Len(M) = m + (Len(A) - k) /\ Len(M) = n + (Len(B) - h)
  BY DEF Leads
<1>3. m + 1 \in 1..n /\ 1 \in 1..(Len(A) - k) /\ k + 1 \in 1..Len(A)
  BY <1>1, <1>2
<1>4. M[m + 1] = Out /\ M[m + 1] = A[k + 1]
  BY <1>3 DEF Leads
<1> QED BY <1>1, <1>3, <1>4, OutIsNoName

(* Two normal forms that go equally far up and lead to one place are the   *)
(* same.                                                                   *)
LEMMA SameLeads ==
  ASSUME NEW M, NEW A \in Seq(ArgWord), NEW B \in Seq(ArgWord),
         NEW k \in 0..Len(A), NEW m \in Nat, Ups(A, k), Ups(B, k),
         Leads(M, A, k, m), Leads(M, B, k, m)
  PROVE  A = B
<1>1. Len(A) \in Nat /\ Len(B) \in Nat
  BY LenProperties
<1>2. /\ Len(M) = m + (Len(A) - k) /\ Len(M) = m + (Len(B) - k)
      /\ \A j \in 1..(Len(A) - k) : M[m + j] = A[k + j]
      /\ \A j \in 1..(Len(B) - k) : M[m + j] = B[k + j]
  BY DEF Leads
<1>3. Len(A) = Len(B)
  BY <1>1, <1>2
<1>4. ASSUME NEW i \in 1..Len(A) PROVE A[i] = B[i]
  <2>1. CASE i <= k
    <3>1. i \in 1..k
      BY <1>1, <2>1
    <3> QED BY <3>1 DEF Ups
  <2>2. CASE i > k
    <3>1. i - k \in 1..(Len(A) - k) /\ i - k \in 1..(Len(B) - k) /\ k + (i - k) = i
      BY <1>1, <1>3, <2>2
    <3> QED BY <1>2, <3>1
  <2> QED BY <1>1, <2>1, <2>2
<1> QED BY <1>3, <1>4, SeqEqual

(* Paths that lead to the same place have the same normal form.            *)
LEMMA NormalUnique ==
  ASSUME NEW p \in Seq(Char), Len(p) <= MaxLen, NEW q \in Seq(Char), Len(q) <= MaxLen,
         Meaning(p) = Meaning(q)
  PROVE  Normal(p) = Normal(q)
<1> DEFINE A == NormalVector(p)
           B == NormalVector(q)
           M == Meaning(p)
<1>1. A \in Seq(ArgWord) /\ B \in Seq(ArgWord)
  BY Constants, SeqMonotonic, NormalVectorHolds DEF Text
<1>2. PICK k \in 0..Len(A) :
        /\ Ups(A, k)
        /\ SlashFirst(p) => k = 0 /\ Leads(M, A, 0, 0)
        /\ ~ SlashFirst(p) => k <= MaxLen /\ Leads(M, A, k, MaxLen + 1 - k)
  BY MeaningShape
<1>3. PICK h \in 0..Len(B) :
        /\ Ups(B, h)
        /\ SlashFirst(q) => h = 0 /\ Leads(M, B, 0, 0)
        /\ ~ SlashFirst(q) => h <= MaxLen /\ Leads(M, B, h, MaxLen + 1 - h)
  BY MeaningShape
<1> DEFINE m == IF SlashFirst(p) THEN 0 ELSE MaxLen + 1 - k
           n == IF SlashFirst(q) THEN 0 ELSE MaxLen + 1 - h
<1>4. Len(A) \in Nat /\ Len(B) \in Nat /\ MaxLen \in Nat
  BY <1>1, LenProperties, BoundsAssumption
<1>5. m \in Nat /\ n \in Nat
  BY <1>2, <1>3, <1>4
<1>6. Leads(M, A, k, m) /\ Leads(M, B, h, n)
  BY <1>2, <1>3
<1>7. m = n
  <2> HIDE DEF m, n, A, B, M
  <2>1. ~ (m < n) /\ ~ (n < m)
    BY <1>1, <1>5, <1>6, SameShape
  <2> QED BY <1>5, <2>1
<1>8. SlashFirst(p) <=> SlashFirst(q)
  BY <1>2, <1>3, <1>4, <1>7
<1>9. k = h
  BY <1>2, <1>3, <1>4, <1>7, <1>8
<1>10. A = B
  <2> HIDE DEF m, n, A, B, M
  <2> QED BY <1>1, <1>2, <1>3, <1>5, <1>6, <1>7, <1>9, SameLeads
<1>11. Rebuilt(p, A) = Rebuilt(q, B)
  BY <1>8, <1>10 DEF Rebuilt
<1> QED BY <1>11 DEF Normal

-----------------------------------------------------------------------------
(***************************************************************************)
(* The arguments of every behaviour, and the invariants that follow.       *)
(***************************************************************************)
Arguments ==
  /\ path \in Seq(Char) /\ Len(path) + Len(other) <= MaxLen
  /\ other \in Seq(Char) /\ Len(other) <= MaxOther

(* Arguments are texts, and each is within the bound for both.             *)
LEMMA ArgumentTexts ==
  ASSUME Arguments
  PROVE  /\ path \in Text /\ other \in Text
         /\ Len(path) \in Nat /\ Len(path) <= MaxLen
         /\ Len(other) \in Nat /\ Len(other) <= MaxLen
<1>1. path \in Text /\ other \in Text
  BY Constants, SeqMonotonic DEF Arguments, Text
<1>2. Len(path) \in Nat /\ Len(other) \in Nat
  BY <1>1, TextIndices
<1> QED BY <1>1, <1>2, BoundsAssumption DEF Arguments

(* The arguments stay paths of the program within their bounds.            *)
LEMMA ArgumentsStay == Spec => []Arguments
<1>1. Init => Arguments
  BY BoundsAssumption, EmptySeq DEF Init, Arguments
<1>2. Arguments /\ [Next]_vars => Arguments'
  <2> SUFFICES ASSUME Arguments, [Next]_vars PROVE Arguments'
    OBVIOUS
  <2>0. Len(path) \in Nat /\ Len(other) \in Nat
    BY LenProperties DEF Arguments
  <2>1. CASE UNCHANGED vars
    BY <2>1 DEF Arguments, vars
  <2>2. CASE Next
    <3>1. PICK c \in Char :
            /\ Len(path) + Len(other) < MaxLen
            /\ \/ other = <<>> /\ path' = Append(path, c) /\ UNCHANGED other
               \/ Len(other) < MaxOther /\ other' = Append(other, c) /\ UNCHANGED path
      BY <2>2 DEF Next
    <3>2. /\ Append(path, c) \in Seq(Char) /\ Len(Append(path, c)) = Len(path) + 1
          /\ Append(other, c) \in Seq(Char) /\ Len(Append(other, c)) = Len(other) + 1
      BY AppendProperties DEF Arguments
    <3>3. CASE other = <<>> /\ path' = Append(path, c) /\ UNCHANGED other
      BY <2>0, <3>1, <3>2, <3>3, BoundsAssumption DEF Arguments
    <3>4. CASE Len(other) < MaxOther /\ other' = Append(other, c) /\ UNCHANGED path
      BY <2>0, <3>1, <3>2, <3>4, BoundsAssumption DEF Arguments
    <3> QED BY <3>1, <3>3, <3>4
  <2> QED BY <2>1, <2>2
<1> QED BY <1>1, <1>2, PTL DEF Spec

(* fs_drop_slash and fs_normal return paths of the program, no longer than *)
(* the argument.                                                           *)
THEOREM TypesCorrect == Spec => []TypeOK
<1>1. Arguments => TypeOK
  <2> SUFFICES ASSUME Arguments PROVE TypeOK
    OBVIOUS
  <2>1. DropSlash(path) \in Seq(Char) /\ Len(DropSlash(path)) <= Len(path)
    BY ArgumentTexts, DropSlashHolds DEF Arguments, Trimmed
  <2>2. Normal(path) \in Seq(Char) \ {<<>>} /\ Len(Normal(path)) <= Max({1, Len(path)})
    BY NormalLength DEF Arguments
  <2> QED BY <2>1, <2>2 DEF TypeOK, Arguments
<1> QED BY <1>1, ArgumentsStay, PTL

(* The normal form of a path, however it is spelled, leads where the path  *)
(* leads, and no other normal form does (fs_normal, fs_drop_slash).        *)
THEOREM NormalFormsHold == Spec => []NormalHolds
<1>1. Arguments => NormalHolds
  <2> SUFFICES ASSUME Arguments PROVE NormalHolds
    OBVIOUS
  <2>1. path \in Text /\ Deep \in Seq(Text)
    BY ArgumentTexts, DeepIs
  <2>2. Meaning(Normal(path)) = Meaning(path)
    BY <2>1, NormalLeads DEF Meaning
  <2>3. IsAbsolute(Normal(path)) = IsAbsolute(path)
    <3>1. SlashFirst(Normal(path)) <=> SlashFirst(path)
      BY <2>1, NormalLeads
    <3> QED BY <3>1 DEF IsAbsolute, SlashFirst
  <2>4. Meaning(DropSlash(path)) = Meaning(path)
    <3>1. Trimmed(DropSlash(path), path)
      BY <2>1, DropSlashHolds
    <3> QED BY <2>1, <3>1, SameWalk DEF Meaning, Trimmed
  <2>5. Meaning(path) = Meaning(other) => Normal(path) = Normal(other)
    BY ArgumentTexts, NormalUnique DEF Arguments
  <2> QED BY <2>2, <2>3, <2>4, <2>5 DEF NormalHolds
<1> QED BY <1>1, ArgumentsStay, PTL

-----------------------------------------------------------------------------
(***************************************************************************)
(* Paths that are put together: fs_join and the absolute paths.            *)
(***************************************************************************)

(* Walking along one path and then along another that is not absolute.     *)
LEMMA WalkOn ==
  ASSUME NEW x \in Text, NEW y \in Text, NEW z \in Text, ~ SlashFirst(y),
         Split[z] = Split[x] \o Split[y], SlashFirst(z) <=> SlashFirst(x)
  PROVE  \A dir \in Seq(Text) : Walk(dir, z) = Walk(Walk(dir, x), y)
<1> SUFFICES ASSUME NEW dir \in Seq(Text) PROVE Walk(dir, z) = Walk(Walk(dir, x), y)
  OBVIOUS
<1>1. Split[x] \in Seq(Word) /\ Split[y] \in Seq(Word)
  BY SplitWords
<1>2. Start(x, dir) \in Seq(Text) /\ Start(z, dir) = Start(x, dir)
  BY EmptySeq DEF Start
<1>3. Walk(dir, z) = Follow(Start(x, dir), Split[x] \o Split[y])
  BY <1>2, WalkIs
<1>4. Walk(dir, x) = Follow(Start(x, dir), Split[x]) /\ Walk(dir, x) \in Seq(Text)
  BY WalkIs
<1>5. Walk(Walk(dir, x), y) = Follow(Walk(dir, x), Split[y])
  BY <1>4, WalkIs DEF Start
<1> QED BY <1>1, <1>2, <1>3, <1>4, <1>5, FollowConcat

(* An absolute path leads to the same place from everywhere.               *)
LEMMA WalkAbsolute ==
  ASSUME NEW p \in Text, SlashFirst(p), NEW d \in Seq(Text), NEW e \in Seq(Text)
  PROVE  Walk(d, p) = Walk(e, p)
BY WalkIs DEF Start

(* The empty path leads nowhere else.                                      *)
LEMMA WalkEmpty ==
  ASSUME NEW dir \in Seq(Text) PROVE Walk(dir, <<>>) = dir
<1>1. Split[<<>>] = <<>> /\ <<>> \in Text /\ ~ SlashFirst(<<>>)
  BY SplitDef, Constants DEF SlashFirst
<1>2. Walk(dir, <<>>) = Follow(dir, <<>>)
  BY <1>1, WalkIs DEF Start
<1> QED BY <1>2, FollowDef

(* "." leads nowhere else.                                                 *)
LEMMA WalkDot ==
  ASSUME NEW dir \in Seq(Text) PROVE Walk(dir, DotPath) = dir
<1>1. Split[DotPath] = <<DotPath>> /\ ~ SlashFirst(DotPath) /\ DotPath \in Text
  BY SplitWord, DotWords
<1>2. Walk(dir, DotPath) = Follow(dir, <<DotPath>>)
  BY <1>1, WalkIs DEF Start
<1>3. <<DotPath>> = Append(<<>>, DotPath) /\ <<>> \in Seq(Text)
  BY EmptySeq
<1>4. Follow(dir, Append(<<>>, DotPath)) = Enter(Follow(dir, <<>>), DotPath) /\ Follow(dir, <<>>) = dir
  BY <1>1, <1>3, FollowAppend
<1>5. Enter(dir, DotPath) = dir
  BY <1>1, EnterCases
<1> QED BY <1>2, <1>3, <1>4, <1>5

(* Two paths with a slash between them.                                    *)
LEMMA WalkBetween ==
  ASSUME NEW x \in Text, NEW y \in Text, x # <<>>, ~ SlashFirst(y)
  PROVE  /\ x \o Slash \o y \in Text /\ x \o Slash \o y # <<>>
         /\ SlashFirst(x \o Slash \o y) <=> SlashFirst(x)
         /\ \A dir \in Seq(Text) : Walk(dir, x \o Slash \o y) = Walk(Walk(dir, x), y)
<1>1. Split[x \o Slash \o y] = Split[x] \o Split[y] /\ x \o Slash \o y \in Text
  BY SplitBetween
<1>2. Slash \in Text /\ x \o Slash \o y = x \o (Slash \o y) /\ Slash \o y \in Text
  BY Constants, TextThree
<1>3. x \o Slash \o y # <<>> /\ (SlashFirst(x \o Slash \o y) <=> SlashFirst(x))
  BY <1>2, FirstOfConcat
<1> QED BY <1>1, <1>3, WalkOn

(* fs_drop_slash changes neither the names nor where they are taken from.  *)
LEMMA DropSlashWalk ==
  ASSUME NEW p \in Text
  PROVE  /\ DropSlash(p) \in Text /\ (DropSlash(p) = <<>> <=> p = <<>>)
         /\ Split[DropSlash(p)] = Split[p] /\ (SlashFirst(DropSlash(p)) <=> SlashFirst(p))
         /\ \A dir \in Seq(Text) : Walk(dir, DropSlash(p)) = Walk(dir, p)
<1>1. Trimmed(DropSlash(p), p)
  BY DropSlashHolds
<1> QED BY <1>1, SameWalk DEF Trimmed

(* Joining is walking along the one and then along the other.              *)
LEMMA JoinWalk ==
  ASSUME NEW p \in Text, NEW o \in Text
  PROVE  /\ Join(p, o) \in Text
         /\ \A dir \in Seq(Text) : Walk(dir, Join(p, o)) = Walk(Walk(dir, p), o)
<1>1. /\ DropSlash(p) \in Text /\ (DropSlash(p) = <<>> <=> p = <<>>)
      /\ \A dir \in Seq(Text) : Walk(dir, DropSlash(p)) = Walk(dir, p)
  BY DropSlashWalk
<1>2. /\ DropSlash(o) \in Text /\ (SlashFirst(DropSlash(o)) <=> SlashFirst(o))
      /\ \A dir \in Seq(Text) : Walk(dir, DropSlash(o)) = Walk(dir, o)
  BY DropSlashWalk
<1>3. \A dir \in Seq(Text) : Walk(dir, p) \in Seq(Text)
  BY WalkIs
<1>4. CASE p = <<>>
  <2>1. Join(p, o) = DropSlash(o)
    BY <1>4 DEF Join
  <2> QED BY <1>2, <1>4, <2>1, WalkEmpty
<1>5. CASE p # <<>> /\ o = <<>>
  <2>1. Join(p, o) = DropSlash(p)
    BY <1>5 DEF Join
  <2> QED BY <1>1, <1>3, <1>5, <2>1, WalkEmpty
<1>6. CASE p # <<>> /\ o # <<>> /\ SlashFirst(o)
  <2>1. Join(p, o) = DropSlash(o)
    BY <1>6 DEF Join
  <2> QED BY <1>2, <1>3, <1>6, <2>1, WalkAbsolute
<1>7. CASE p # <<>> /\ o # <<>> /\ ~ SlashFirst(o)
  <2>1. Join(p, o) = DropSlash(p) \o Slash \o DropSlash(o)
    BY <1>7 DEF Join
  <2>2. /\ DropSlash(p) \o Slash \o DropSlash(o) \in Text
        /\ \A dir \in Seq(Text) : Walk(dir, DropSlash(p) \o Slash \o DropSlash(o))
                                    = Walk(Walk(dir, DropSlash(p)), DropSlash(o))
    BY <1>1, <1>2, <1>7, WalkBetween
  <2> QED BY <1>1, <1>2, <1>3, <2>1, <2>2
<1> QED BY <1>4, <1>5, <1>6, <1>7

(* A join leads along the first path and then along the second (fs_join).  *)
THEOREM JoinsWalk == Spec => []JoinIsWalk
<1>1. Arguments => JoinIsWalk
  BY ArgumentTexts, DeepIs, JoinWalk DEF JoinIsWalk, Meaning
<1> QED BY <1>1, ArgumentsStay, PTL

-----------------------------------------------------------------------------
(***************************************************************************)
(* File names, stems, suffixes and parents.                                *)
(***************************************************************************)

(* The last place of a character.                                          *)
LEMMA LastOfHolds ==
  ASSUME NEW p \in Text, NEW c
  PROVE  /\ LastOf(p, c) \in 0..Len(p)
         /\ LastOf(p, c) # 0 => p[LastOf(p, c)] = c
         /\ \A i \in 1..Len(p) : i > LastOf(p, c) => p[i] # c
<1> DEFINE S == {0} \cup {i \in DOMAIN p : p[i] = c}
           T == {Len(p) - i : i \in S}
<1>1. Len(p) \in Nat /\ DOMAIN p = 1..Len(p)
  BY TextIndices
<1>2. S \in SUBSET Nat /\ \A i \in S : i \in 0..Len(p)
  BY <1>1
<1>3. T \in SUBSET Nat /\ T # {}
  BY <1>1, <1>2
<1>4. PICK t \in T : \A k \in T : t <= k
  <2> HIDE DEF T
  <2> QED BY <1>3, Least
<1>5. PICK m \in S : t = Len(p) - m
  OBVIOUS
<1>6. \A k \in S : k <= m
  <2> SUFFICES ASSUME NEW k \in S PROVE k <= m
    OBVIOUS
  <2>1. Len(p) - m <= Len(p) - k
    BY <1>4, <1>5
  <2> HIDE DEF S, T
  <2> QED BY <1>1, <1>2, <2>1
<1>7. Max(S) = m
  <2> HIDE DEF S
  <2> QED BY <1>2, <1>6, MaxIs
<1>8. LastOf(p, c) = m
  BY <1>7 DEF LastOf
<1>9. m \in 0..Len(p) /\ (m # 0 => p[m] = c)
  BY <1>2
<1>10. ASSUME NEW i \in 1..Len(p), i > m PROVE p[i] # c
  <2> SUFFICES ASSUME p[i] = c PROVE FALSE
    OBVIOUS
  <2>1. i \in S
    BY <1>1
  <2>2. i <= m
    BY <1>6, <2>1
  <2> QED BY <1>2, <1>10, <2>2
<1> QED BY <1>8, <1>9, <1>10

(* A text is what is before its file name, and its file name.              *)
LEMMA FileNameParts ==
  ASSUME NEW p \in Text
  PROVE  \E q \in Text : /\ p = q \o FileName(p) /\ EndsOpen(q)
                         /\ FileName(p) \in Text /\ NoSlash(FileName(p))
<1> DEFINE l == LastOf(p, "/")
           q == SubSeq(p, 1, l)
           f == SubSeq(p, l + 1, Len(p))
<1>1. Len(p) \in Nat /\ \A i \in 1..Len(p) : p[i] \in Sign
  BY TextIndices
<1>2. l \in 0..Len(p) /\ (l # 0 => p[l] = "/") /\ \A i \in 1..Len(p) : i > l => p[i] # "/"
  BY LastOfHolds
<1> HIDE DEF l
<1>3. q \in Text /\ Len(q) = (IF 1 <= l THEN l - 1 + 1 ELSE 0) /\ \A i \in 1..(l - 1 + 1) : q[i] = p[1 + i - 1]
  BY <1>2, PartType DEF Text
<1>4. /\ f \in Text /\ Len(f) = (IF l + 1 <= Len(p) THEN Len(p) - (l + 1) + 1 ELSE 0)
      /\ \A i \in 1..(Len(p) - (l + 1) + 1) : f[i] = p[(l + 1) + i - 1]
  <2>1. l + 1 \in Nat \ {0} /\ Len(p) \in 0..Len(p) /\ p \in Seq(Sign)
    BY <1>1, <1>2 DEF Text
  <2> QED BY <2>1, PartType DEF Text
<1>5. q \o f = p
  <2>1. 1 \in 1..(Len(p) + 1) /\ l \in (1 - 1)..Len(p) /\ Len(p) \in l..Len(p) /\ p \in Seq(Sign)
    BY <1>1, <1>2 DEF Text
  <2>2. q \o f = SubSeq(p, 1, Len(p))
    BY <2>1, ConcatAdjacentSubSeq
  <2> QED BY <2>1, <2>2, SubSeqFull
<1>6. FileName(p) = f
  BY DEF FileName, f, l
<1> HIDE DEF q, f
<1>7. EndsOpen(q)
  <2>1. CASE l = 0
    <3>1. Len(q) = 0
      BY <1>3, <2>1
    <3> QED BY <1>3, <3>1, TextIndices DEF EndsOpen
  <2>2. CASE l # 0
    <3>1. Len(q) = l /\ q[l] = p[l]
      BY <1>1, <1>2, <1>3, <2>2
    <3> QED BY <1>2, <2>2, <3>1 DEF EndsOpen, Last
  <2> QED BY <2>1, <2>2
<1>8. NoSlash(f)
  <2>1. DOMAIN f = 1..Len(f)
    BY <1>4, TextIndices
  <2>2. ASSUME NEW i \in 1..Len(f) PROVE f[i] # "/"
    <3>1. i \in 1..(Len(p) - (l + 1) + 1) /\ (l + 1) + i - 1 \in 1..Len(p) /\ (l + 1) + i - 1 > l
      BY <1>1, <1>2, <1>4
    <3> QED BY <1>2, <1>4, <3>1
  <2> QED BY <2>1, <2>2 DEF NoSlash
<1> QED BY <1>3, <1>4, <1>5, <1>6, <1>7, <1>8

(* The file name of a path that does not end with a slash is the last of   *)
(* its names.                                                              *)
LEMMA FileNameLast ==
  ASSUME NEW p \in Text
  PROVE  /\ FileName(p) \in Text /\ NoSlash(FileName(p)) /\ (FileName(p) = <<>> <=> EndsOpen(p))
         /\ ~ EndsOpen(p) => /\ FileName(p) \in Word
                             /\ \E ns \in Seq(Word) : Split[p] = Append(ns, FileName(p))
<1> DEFINE f == FileName(p)
<1>1. PICK q \in Text : p = q \o f /\ EndsOpen(q) /\ f \in Text /\ NoSlash(f)
  BY FileNameParts
<1> HIDE DEF f
<1>2. CASE f = <<>>
  <2>1. p = q
    BY <1>1, <1>2, TextEmpty
  <2> QED BY <1>1, <1>2, <2>1 DEF f
<1>3. CASE f # <<>>
  <2>1. f \in Word
    BY <1>1, <1>3 DEF Word
  <2>2. Last(p) = Last(f) /\ p # <<>>
    BY <1>1, <1>3, TextLast
  <2>3. ~ EndsOpen(f)
    BY <2>1, SplitWord
  <2>4. ~ EndsOpen(p)
    BY <1>3, <2>2, <2>3 DEF EndsOpen
  <2>5. Split[p] = Split[q] \o <<f>> /\ Split[q] \in Seq(Word)
    BY <1>1, <2>1, SplitConcat, SplitWord, SplitWords
  <2>6. Split[p] = Append(Split[q], f)
    BY <2>1, <2>5, AppendIsConcat
  <2> QED BY <1>1, <1>3, <2>1, <2>4, <2>5, <2>6 DEF f
<1> QED BY <1>2, <1>3

(* A text without slashes after one that ends with a slash is the file     *)
(* name of the two.                                                        *)
LEMMA FileNameIs ==
  ASSUME NEW y \in Text, NEW z \in Text, EndsOpen(y), NoSlash(z)
  PROVE  FileName(y \o z) = z
<1> DEFINE p == y \o z
           l == LastOf(p, "/")
<1>1. /\ Len(y) \in Nat /\ Len(z) \in Nat /\ DOMAIN z = 1..Len(z)
      /\ (y = <<>> <=> Len(y) = 0) /\ (z = <<>> <=> Len(z) = 0)
  BY TextIndices
<1>2. /\ p \in Text /\ Len(p) = Len(y) + Len(z)
      /\ \A i \in 1..(Len(y) + Len(z)) : p[i] = IF i <= Len(y) THEN y[i] ELSE z[i - Len(y)]
  BY ConcatProperties DEF Text
<1>3. /\ l \in 0..Len(p) /\ (l # 0 => p[l] = "/")
      /\ \A i \in 1..Len(p) : i > l => p[i] # "/"
  BY <1>2, LastOfHolds
<1> HIDE DEF l, p
<1>4. ~ (l > Len(y))
  <2> SUFFICES ASSUME l > Len(y) PROVE FALSE
    OBVIOUS
  <2>1. l \in 1..(Len(y) + Len(z)) /\ ~ (l <= Len(y)) /\ l - Len(y) \in 1..Len(z) /\ l # 0
    BY <1>1, <1>2, <1>3
  <2>2. z[l - Len(y)] = "/"
    BY <1>2, <1>3, <2>1
  <2> QED BY <1>1, <2>1, <2>2 DEF NoSlash
<1>5. ~ (l < Len(y))
  <2> SUFFICES ASSUME l < Len(y) PROVE FALSE
    OBVIOUS
  <2>1. Len(y) \in 1..(Len(y) + Len(z)) /\ Len(y) > l /\ Len(y) # 0
    BY <1>1, <1>2, <1>3
  <2>2. y[Len(y)] = "/"
    BY <1>1, <2>1 DEF EndsOpen, Last
  <2>3. p[Len(y)] = "/"
    BY <1>1, <1>2, <2>1, <2>2
  <2> QED BY <1>2, <1>3, <2>1, <2>3
<1>6. l = Len(y)
  BY <1>1, <1>2, <1>3, <1>4, <1>5
<1>7. FileName(p) = SubSeq(p, Len(y) + 1, Len(y) + Len(z))
  BY <1>2, <1>6 DEF FileName, l
<1>8. SubSeq(y \o z, Len(y) + 1, Len(y) + Len(z)) = z
  <2>1. CASE z = <<>>
    BY <1>1, <2>1, SubSeqEmpty
  <2>2. CASE z # <<>>
    <3>1. Len(y) + 1 \in (Len(y) + 1)..(Len(y) + Len(z)) /\ Len(y) + Len(z) \in (Len(y) + 1)..(Len(y) + Len(z))
      BY <1>1, <2>2
    <3>2. SubSeq(y \o z, Len(y) + 1, Len(y) + Len(z)) = SubSeq(z, Len(y) + 1 - Len(y), Len(y) + Len(z) - Len(y))
      BY <3>1, SubSeqOfConcat2 DEF Text
    <3>3. Len(y) + 1 - Len(y) = 1 /\ Len(y) + Len(z) - Len(y) = Len(z)
      BY <1>1
    <3> QED BY <3>2, <3>3, SubSeqFull DEF Text
  <2> QED BY <2>1, <2>2
<1> QED BY <1>7, <1>8 DEF p

(* fs_parent leads along all names but the last, and is never empty.       *)
LEMMA ParentHolds ==
  ASSUME NEW p \in Text, NEW ns \in Seq(Word), NEW f \in Word, Split[p] = Append(ns, f)
  PROVE  /\ Parent(p) \in Text /\ Parent(p) # <<>>
         /\ SlashFirst(Parent(p)) <=> SlashFirst(p)
         /\ \A dir \in Seq(Text) : Walk(dir, p) = Walk(Walk(dir, Parent(p)), f)
<1> DEFINE names == Split[DropSlash(p)]
           b == Rebuilt(p, Front(names))
           r == WithoutLastSlash(b)
<1>1. names = Append(ns, f) /\ names # <<>> /\ Front(names) = ns
  <2>1. Split[DropSlash(p)] = Append(ns, f)
    BY DropSlashWalk
  <2> QED BY <2>1, AppendProperties, FrontLast
<1>2. Parent(p) = IF names # <<>> /\ r # <<>> THEN r ELSE IF SlashFirst(p) THEN Slash ELSE DotPath
  BY DEF Parent
<1> HIDE DEF names
<1>3. b \in Text /\ Split[b] = ns /\ (SlashFirst(b) <=> SlashFirst(p)) /\ (b = <<>> <=> ns = <<>> /\ ~ SlashFirst(p))
  BY <1>1, SplitRebuilt
<1> HIDE DEF b
<1>4. r \in Text /\ Split[r] = ns /\ (SlashFirst(r) <=> SlashFirst(p)) /\ (r = <<>> <=> ns = <<>> /\ ~ SlashFirst(p))
  BY <1>3, WithoutLastSlashHolds
<1> HIDE DEF r
<1>5. Split[f] = <<f>> /\ f \in Text /\ ~ SlashFirst(f) /\ Append(ns, f) = ns \o <<f>>
  BY SplitWord, AppendIsConcat
<1>6. CASE r # <<>>
  <2>1. Parent(p) = r
    BY <1>1, <1>2, <1>6
  <2>2. Split[p] = Split[r] \o Split[f] /\ (SlashFirst(p) <=> SlashFirst(r)) /\ ~ SlashFirst(f)
    BY <1>4, <1>5
  <2>3. \A dir \in Seq(Text) : Walk(dir, p) = Walk(Walk(dir, r), f)
    BY <1>4, <1>5, <2>2, WalkOn
  <2> QED BY <1>4, <1>6, <2>1, <2>3
<1>7. CASE r = <<>>
  <2>1. Parent(p) = DotPath /\ ns = <<>> /\ ~ SlashFirst(p)
    BY <1>2, <1>4, <1>7
  <2>2. DotPath \in Text /\ DotPath # <<>> /\ ~ SlashFirst(DotPath) /\ Split[DotPath] = <<DotPath>>
    BY DotWords, SplitWord
  <2>3. ASSUME NEW dir \in Seq(Text) PROVE Walk(dir, p) = Walk(Walk(dir, DotPath), f)
    <3>1. Walk(dir, DotPath) = dir
      BY WalkDot
    <3>2. Split[p] = Split[f]
      <4>1. <<>> \o <<f>> = <<f>>
        BY ConcatEmptySeq, <1>5
      <4> QED BY <1>5, <2>1, <4>1
    <3>3. Walk(dir, p) = Walk(dir, f)
      BY <1>5, <2>1, <3>2, SameWalk
    <3> QED BY <3>1, <3>3
  <2> QED BY <2>1, <2>2, <2>3
<1> QED BY <1>6, <1>7

(* The names of a join of which neither part is empty or absolute.         *)
LEMMA JoinNames ==
  ASSUME NEW p \in Text, p # <<>>, NEW f \in Word
  PROVE  Split[Join(p, f)] = Append(Split[p], f)
<1>1. f # <<>> /\ ~ SlashFirst(f) /\ f \in Text /\ Split[f] = <<f>> /\ Split[p] \in Seq(Word)
  BY SplitWord, SplitWords
<1>2. Join(p, f) = DropSlash(p) \o Slash \o DropSlash(f)
  BY <1>1 DEF Join
<1>3. /\ DropSlash(p) \in Text /\ Split[DropSlash(p)] = Split[p]
      /\ DropSlash(f) \in Text /\ Split[DropSlash(f)] = Split[f]
  BY <1>1, DropSlashWalk
<1>4. Split[DropSlash(p) \o Slash \o DropSlash(f)] = Split[p] \o <<f>>
  <2>1. Split[DropSlash(p) \o Slash \o DropSlash(f)] = Split[DropSlash(p)] \o Split[DropSlash(f)]
    BY <1>3, SplitBetween
  <2> QED BY <1>1, <1>3, <2>1
<1>5. Append(Split[p], f) = Split[p] \o <<f>>
  BY <1>1, AppendIsConcat
<1> QED BY <1>2, <1>4, <1>5

(* fs_drop_slash leaves a slash at the end only where it is all there is.  *)
LEMMA DropSlashEnds ==
  ASSUME NEW p \in Text, DropSlash(p) # <<>>, DropSlash(p) # Slash
  PROVE  ~ EndsOpen(DropSlash(p))
<1> DEFINE t == WithoutTrailing[p]
           u == Unique[t]
<1>1. t \in Text /\ (Len(t) > 1 => Last(t) # "/")
  BY WithoutTrailingHolds DEF Trimmed
<1> HIDE DEF t
<1>2. u \in Text /\ (u = <<>> <=> t = <<>>) /\ Len(u) <= Len(t) /\ Last(u) = Last(t)
  BY <1>1, UniqueHolds DEF Trimmed
<1>3. DropSlash(p) = u
  BY DEF DropSlash, u, t
<1> HIDE DEF u
<1>4. Len(u) \in Nat /\ Len(t) \in Nat /\ (u = <<>> <=> Len(u) = 0) /\ DOMAIN u = 1..Len(u)
  BY <1>1, <1>2, TextIndices
<1> SUFFICES ASSUME Last(u) = "/" PROVE FALSE
  BY <1>3 DEF EndsOpen
<1>5. Len(u) = 1 /\ u[1] = "/"
  <2>1. ~ (Len(t) > 1)
    BY <1>1, <1>2
  <2>2. Len(u) = 1
    BY <1>2, <1>3, <1>4, <2>1
  <2> QED BY <2>2 DEF Last
<1>6. u = Slash
  <2>1. Slash \in Seq(Sign) /\ Len(Slash) = 1 /\ Slash[1] = "/" /\ u \in Seq(Sign)
    BY <1>2, Constants DEF Text
  <2> QED BY <1>5, <2>1, SeqEqual
<1> QED BY <1>3, <1>6

(* A path has names exactly if fs_drop_slash leaves more than a slash.     *)
LEMMA NoNames ==
  ASSUME NEW p \in Text
  PROVE  Split[p] = <<>> <=> DropSlash(p) = <<>> \/ DropSlash(p) = Slash
<1>1. DropSlash(p) \in Text /\ Split[DropSlash(p)] = Split[p]
  BY DropSlashWalk
<1>2. ~ EndsOpen(DropSlash(p)) => Split[p] # <<>>
  BY <1>1, SplitWords
<1>3. Split[<<>>] = <<>> /\ Split[Slash] = <<>>
  <2>1. <<>> \o Slash = Slash /\ Split[<<>> \o Slash] = Split[<<>>]
    BY Constants, TextEmpty, AppendSlash
  <2> QED BY <2>1, SplitDef
<1> QED BY <1>1, <1>2, <1>3, DropSlashEnds

(* The parent of any path joined with its file name.                       *)
LEMMA ParentThenName ==
  ASSUME NEW p \in Text
  PROVE  LET back == Join(Parent(p), FileName(DropSlash(p)))
         IN  /\ Walk(Deep, back) = Walk(Deep, p)
             /\ Split[p] # <<>> => back \in Text /\ Last(Split[back]) = Last(Split[p])
<1> DEFINE d == DropSlash(p)
           f == FileName(d)
<1>1. /\ d \in Text /\ Split[d] = Split[p] /\ (SlashFirst(d) <=> SlashFirst(p)) /\ (d = <<>> <=> p = <<>>)
      /\ \A dir \in Seq(Text) : Walk(dir, d) = Walk(dir, p)
  BY DropSlashWalk
<1>2. Deep \in Seq(Text)
  BY DeepIs
<1>3. Split[p] = <<>> <=> d = <<>> \/ d = Slash
  BY NoNames
<1>4. CASE Split[p] = <<>>
  <2>1. EndsOpen(d)
    BY <1>3, <1>4 DEF EndsOpen, Slash, Last
  <2>2. f = <<>>
    BY <1>1, <2>1, FileNameLast
  <2>3. Parent(p) = IF SlashFirst(p) THEN Slash ELSE DotPath
    BY <1>1, <1>4 DEF Parent
  <2>4. Parent(p) # <<>> /\ Parent(p) \in Text
    BY <2>3, Constants, TextIndices
  <2>5. Join(Parent(p), f) = DropSlash(Parent(p))
    BY <2>2, <2>4 DEF Join
  <2>6. Walk(Deep, Join(Parent(p), f)) = Walk(Deep, Parent(p))
    BY <1>2, <2>4, <2>5, DropSlashWalk
  <2>7. Walk(Deep, Parent(p)) = Walk(Deep, p)
    <3>1. CASE SlashFirst(p)
      <4>1. d = Slash
        BY <1>1, <1>3, <1>4, <3>1, Constants DEF SlashFirst
      <4>2. Parent(p) = d
        BY <2>3, <3>1, <4>1
      <4> QED BY <1>1, <1>2, <4>2
    <3>2. CASE ~ SlashFirst(p)
      <4>1. d = <<>>
        <5>1. SlashFirst(Slash)
          BY Constants, TextIndices DEF SlashFirst
        <5> QED BY <1>1, <1>3, <1>4, <3>2, <5>1
      <4>2. Walk(Deep, p) = Deep
        BY <1>1, <1>2, <4>1, WalkEmpty
      <4>3. Walk(Deep, DotPath) = Deep
        BY <1>2, WalkDot
      <4> QED BY <2>3, <3>2, <4>2, <4>3
    <3> QED BY <3>1, <3>2
  <2> QED BY <1>4, <2>6, <2>7
<1>5. CASE Split[p] # <<>>
  <2>1. ~ EndsOpen(d)
    BY <1>3, <1>5, DropSlashEnds
  <2>2. f \in Word /\ \E ns \in Seq(Word) : Split[p] = Append(ns, f)
    BY <1>1, <2>1, FileNameLast
  <2> HIDE DEF f
  <2>3. PICK ns \in Seq(Word) : Split[p] = Append(ns, f)
    BY <2>2
  <2>4. /\ Parent(p) \in Text /\ Parent(p) # <<>>
        /\ \A dir \in Seq(Text) : Walk(dir, p) = Walk(Walk(dir, Parent(p)), f)
    BY <2>2, <2>3, ParentHolds
  <2>5. f \in Text
    BY <2>2, SplitWord
  <2>6. /\ Join(Parent(p), f) \in Text
        /\ \A dir \in Seq(Text) : Walk(dir, Join(Parent(p), f)) = Walk(Walk(dir, Parent(p)), f)
    BY <2>4, <2>5, JoinWalk
  <2>7. Split[Join(Parent(p), f)] = Append(Split[Parent(p)], f) /\ Split[Parent(p)] \in Seq(Word)
    BY <2>2, <2>4, JoinNames, SplitWords
  <2>8. Last(Split[Join(Parent(p), f)]) = f /\ Last(Split[p]) = f
    BY <2>2, <2>3, <2>7, FrontLast
  <2> QED BY <1>2, <2>4, <2>6, <2>8 DEF f
<1> QED BY <1>4, <1>5

(* Splitting off the last component of a path and joining the two again    *)
(* leads where the path leads (fs_parent, fs_file_name, fs_join).          *)
THEOREM ParentsAndNames == Spec => []ParentAndName
<1>1. Arguments => ParentAndName
  <2> SUFFICES ASSUME Arguments PROVE ParentAndName
    OBVIOUS
  <2> DEFINE back == Join(Parent(path), FileName(DropSlash(path)))
  <2>1. path \in Text /\ Names(path) = Split[path]
    BY ArgumentTexts, NamesAreSplit
  <2>2. /\ Walk(Deep, back) = Walk(Deep, path)
        /\ Split[path] # <<>> => back \in Text /\ Last(Split[back]) = Last(Split[path])
    BY <2>1, ParentThenName
  <2> HIDE DEF back
  <2>3. Meaning(back) = Meaning(path)
    BY <2>2 DEF Meaning
  <2>4. Names(path) # <<>> => Last(Names(back)) = Last(Names(path))
    BY <2>1, <2>2, NamesAreSplit
  <2> QED BY <2>3, <2>4 DEF ParentAndName, back
<1> QED BY <1>1, ArgumentsStay, PTL

(* No slash in the two parts of a text, none in all of it.                 *)
LEMMA NoSlashConcat ==
  ASSUME NEW x \in Text, NEW y \in Text, NoSlash(x), NoSlash(y)
  PROVE  NoSlash(x \o y)
<1>1. /\ Len(x) \in Nat /\ Len(y) \in Nat /\ DOMAIN x = 1..Len(x) /\ DOMAIN y = 1..Len(y)
      /\ x \o y \in Text /\ Len(x \o y) = Len(x) + Len(y)
  BY TextIndices, TextConcat
<1>2. DOMAIN (x \o y) = 1..(Len(x) + Len(y))
  BY <1>1, TextIndices
<1>3. \A i \in 1..(Len(x) + Len(y)) : (x \o y)[i] = IF i <= Len(x) THEN x[i] ELSE y[i - Len(x)]
  BY ConcatProperties DEF Text
<1>4. ASSUME NEW i \in 1..(Len(x) + Len(y)) PROVE (x \o y)[i] # "/"
  <2>1. CASE i <= Len(x)
    <3>1. i \in 1..Len(x) /\ (x \o y)[i] = x[i]
      BY <1>1, <1>3, <2>1
    <3> QED BY <1>1, <3>1 DEF NoSlash
  <2>2. CASE ~ (i <= Len(x))
    <3>1. i - Len(x) \in 1..Len(y) /\ (x \o y)[i] = y[i - Len(x)]
      BY <1>1, <1>3, <2>2
    <3> QED BY <1>1, <3>1 DEF NoSlash
  <2> QED BY <2>1, <2>2
<1> QED BY <1>2, <1>4 DEF NoSlash

(* A file name is its stem and its suffix.                                 *)
LEMMA StemAndSuffix ==
  ASSUME NEW p \in Text, FileName(p) # <<>>, FileName(p) # DotDot
  PROVE  /\ Stem(p) \in Text /\ Stem(p) # <<>> /\ NoSlash(Stem(p))
         /\ Suffix(p) \in Text /\ NoSlash(Suffix(p)) /\ Stem(p) \o Suffix(p) = FileName(p)
<1> DEFINE r == FileName(p)
           l == LastOf(r, ".")
<1>1. r \in Text /\ NoSlash(r)
  BY FileNameLast
<1>2. Len(r) \in Nat /\ DOMAIN r = 1..Len(r) /\ l \in 0..Len(r) /\ r \in Seq(Sign)
  BY <1>1, TextIndices, LastOfHolds DEF Text
<1>3. CASE l <= 1
  <2>1. Stem(p) = r /\ Suffix(p) = <<>>
    BY <1>3 DEF Stem, Suffix
  <2>2. r \o <<>> = r /\ <<>> \in Text /\ NoSlash(<<>>)
    BY <1>1, TextEmpty, Constants DEF NoSlash
  <2> QED BY <1>1, <2>1, <2>2
<1>4. CASE ~ (l <= 1)
  <2> DEFINE a == SubSeq(r, 1, l - 1)
             b == SubSeq(r, l, Len(r))
  <2>1. Stem(p) = a /\ Suffix(p) = b
    BY <1>4 DEF Stem, Suffix
  <2> HIDE DEF r, l
  <2>2. /\ 1 \in Nat \ {0} /\ l - 1 \in 0..Len(r) /\ l \in Nat \ {0} /\ Len(r) \in 0..Len(r)
        /\ 1 \in 1..(Len(r) + 1) /\ l - 1 \in (1 - 1)..Len(r) /\ Len(r) \in (l - 1)..Len(r)
        /\ l - 1 + 1 = l /\ 1 <= l - 1 /\ l - 1 - 1 + 1 = l - 1
    BY <1>2, <1>4
  <2>3. a \in Text /\ Len(a) = l - 1 /\ \A i \in 1..(l - 1) : a[i] = r[1 + i - 1]
    BY <1>2, <2>2, PartType DEF Text
  <2>4. /\ b \in Text /\ Len(b) = (IF l <= Len(r) THEN Len(r) - l + 1 ELSE 0)
        /\ \A i \in 1..(Len(r) - l + 1) : b[i] = r[l + i - 1]
    BY <1>2, <2>2, PartType DEF Text
  <2>5. a \o SubSeq(r, l - 1 + 1, Len(r)) = SubSeq(r, 1, Len(r))
    BY <1>2, <2>2, ConcatAdjacentSubSeq
  <2>6. a \o b = r
    BY <1>2, <2>2, <2>5, SubSeqFull
  <2> HIDE DEF a, b
  <2>7. DOMAIN a = 1..Len(a) /\ DOMAIN b = 1..Len(b) /\ (a = <<>> <=> Len(a) = 0)
    BY <2>3, <2>4, TextIndices
  <2>8. NoSlash(a)
    <3>1. \A i \in 1..(l - 1) : i \in 1..Len(r) /\ 1 + i - 1 = i
      BY <1>2, <2>2
    <3> QED BY <1>1, <1>2, <2>3, <2>7, <3>1 DEF NoSlash
  <2>9. NoSlash(b)
    <3>1. Len(b) = Len(r) - l + 1 /\ \A i \in 1..(Len(r) - l + 1) : l + i - 1 \in 1..Len(r)
      BY <1>2, <2>2, <2>4
    <3> QED BY <1>1, <1>2, <2>4, <2>7, <3>1 DEF NoSlash
  <2>10. a # <<>>
    BY <1>2, <2>2, <2>3, <2>7
  <2> QED BY <2>1, <2>3, <2>4, <2>6, <2>8, <2>9, <2>10 DEF r
<1> QED BY <1>3, <1>4

(* fs_with_suffix replaces the last name by the stem with what follows it. *)
LEMMA WithSuffixIs ==
  ASSUME NEW p \in Text, FileName(p) # <<>>, FileName(p) # DotDot, NEW s \in Text, NoSlash(s)
  PROVE  LET z == Stem(p) \o s
         IN  /\ z \in Word
             /\ FileName(WithSuffix(p, s)) = z
             /\ WithSuffix(p, s) = IF Parent(p) = DotPath THEN z ELSE Parent(p) \o Slash \o z
<1> DEFINE z == Stem(p) \o s
           P == Parent(p)
<1>1. Stem(p) \in Text /\ Stem(p) # <<>> /\ NoSlash(Stem(p))
  BY StemAndSuffix
<1>2. z \in Text /\ z # <<>> /\ NoSlash(z)
  BY <1>1, NoSlashConcat, TextConcat, FirstOfConcat
<1>3. z \in Word
  BY <1>2 DEF Word
<1>4. P \in Text /\ P # <<>>
  <2>1. ~ EndsOpen(p)
    BY FileNameLast
  <2>2. FileName(p) \in Word /\ \E ns \in Seq(Word) : Split[p] = Append(ns, FileName(p))
    BY <2>1, FileNameLast
  <2> QED BY <2>2, ParentHolds
<1>5. WithSuffix(p, s) = (IF P = DotPath THEN Stem(p) ELSE P \o Slash \o Stem(p)) \o s
  BY <1>1 DEF WithSuffix
<1> HIDE DEF P
<1>6. P \o Slash \in Text /\ EndsOpen(P \o Slash)
  BY <1>4, AppendSlash
<1>7. (P \o Slash \o Stem(p)) \o s = P \o Slash \o z
  <2> DEFINE x == P \o Slash
  <2>1. x \in Text
    BY <1>6
  <2> HIDE DEF x
  <2>2. x \o Stem(p) \o s = x \o (Stem(p) \o s)
    BY <1>1, <2>1, TextThree
  <2> QED BY <2>2 DEF x
<1>8. WithSuffix(p, s) = IF P = DotPath THEN z ELSE P \o Slash \o z
  BY <1>5, <1>7
<1>9. FileName(WithSuffix(p, s)) = z
  <2> HIDE DEF z
  <2>1. CASE P = DotPath
    <3>1. <<>> \o z = z /\ <<>> \in Text /\ EndsOpen(<<>>)
      BY <1>2, TextEmpty, Constants DEF EndsOpen
    <3>2. FileName(<<>> \o z) = z
      BY <1>2, <3>1, FileNameIs
    <3> QED BY <1>8, <2>1, <3>1, <3>2
  <2>2. CASE P # DotPath
    <3>1. FileName(P \o Slash \o z) = z
      BY <1>2, <1>6, FileNameIs
    <3> QED BY <1>8, <2>2, <3>1
  <2> QED BY <2>1, <2>2
<1> QED BY <1>3, <1>8, <1>9 DEF P

(* A swapped suffix belongs to the same stem in the same directory, and    *)
(* swapping it back gives the same file (fs_with_suffix, fs_stem,          *)
(* fs_suffix).                                                             *)
THEOREM SuffixesSwapBack == Spec => []SuffixSwapsBack
<1>1. Arguments => SuffixSwapsBack
  <2> SUFFICES ASSUME Arguments, FileName(path) \notin {<<>>, DotDot}, ~ ("/" \in ToSet(other))
               PROVE  /\ FileName(WithSuffix(path, other)) = Stem(path) \o other
                      /\ Meaning(WithSuffix(path, Suffix(path))) = Meaning(path)
    BY DEF SuffixSwapsBack
  <2>1. path \in Text /\ other \in Text /\ Deep \in Seq(Text) /\ FileName(path) # <<>> /\ FileName(path) # DotDot
    BY ArgumentTexts, DeepIs
  <2>2. NoSlash(other)
    BY DEF NoSlash, ToSet
  <2>3. FileName(WithSuffix(path, other)) = Stem(path) \o other
    BY <2>1, <2>2, WithSuffixIs
  <2> DEFINE f == FileName(path)
             P == Parent(path)
  <2>4. Suffix(path) \in Text /\ NoSlash(Suffix(path)) /\ Stem(path) \o Suffix(path) = f
    BY <2>1, StemAndSuffix
  <2>5. f \in Word /\ WithSuffix(path, Suffix(path)) = IF P = DotPath THEN f ELSE P \o Slash \o f
    BY <2>1, <2>4, WithSuffixIs
  <2>6. ~ EndsOpen(path)
    BY <2>1, FileNameLast
  <2>7. \E ns \in Seq(Word) : Split[path] = Append(ns, f)
    BY <2>1, <2>6, FileNameLast
  <2> HIDE DEF f
  <2>8. P \in Text /\ P # <<>> /\ \A dir \in Seq(Text) : Walk(dir, path) = Walk(Walk(dir, P), f)
    BY <2>1, <2>5, <2>7, ParentHolds
  <2> HIDE DEF P
  <2>9. f \in Text /\ ~ SlashFirst(f)
    BY <2>5, SplitWord
  <2>10. Walk(Deep, WithSuffix(path, Suffix(path))) = Walk(Deep, path)
    <3>1. CASE P = DotPath
      BY <2>1, <2>5, <2>8, <3>1, WalkDot
    <3>2. CASE P # DotPath
      <4>1. Walk(Deep, P \o Slash \o f) = Walk(Walk(Deep, P), f)
        BY <2>1, <2>8, <2>9, WalkBetween
      <4> QED BY <2>1, <2>5, <2>8, <3>2, <4>1
    <3> QED BY <3>1, <3>2
  <2> QED BY <2>3, <2>10 DEF Meaning
<1> QED BY <1>1, ArgumentsStay, PTL

-----------------------------------------------------------------------------
(***************************************************************************)
(* Prefixes of texts and of lists of names: fs_is_prefix, fs_is_subdir.    *)
(***************************************************************************)

(* A sequence is a prefix of one that is as long and has its elements.     *)
LEMMA PrefixByElements ==
  ASSUME NEW A, NEW s \in Seq(A), NEW t \in Seq(A), Len(s) <= Len(t), \A i \in 1..Len(s) : s[i] = t[i]
  PROVE  IsPrefix(s, t)
<1> DEFINE n == Len(s)
           u == SubSeq(t, 1, n)
<1>1. n \in Nat /\ Len(t) \in Nat /\ n \in 0..Len(t)
  BY LenProperties
<1>2. u \in Seq(A) /\ Len(u) = (IF 1 <= n THEN n - 1 + 1 ELSE 0) /\ \A i \in 1..(n - 1 + 1) : u[i] = t[1 + i - 1]
  BY <1>1, PartType
<1>3. SubSeq(s, 1, n) = s
  BY SubSeqFull
<1> HIDE DEF u
<1>4. Len(u) = n /\ \A i \in 1..n : u[i] = t[i]
  BY <1>1, <1>2
<1>5. s = u
  BY <1>2, <1>4, SeqEqual
<1> QED BY <1>3, <1>5 DEF IsPrefix, u

(* What a prefix leaves of a sequence.                                     *)
LEMMA PrefixRest ==
  ASSUME NEW A, NEW s \in Seq(A), NEW t \in Seq(A), IsPrefix(s, t)
  PROVE  \E u \in Seq(A) : t = s \o u
<1> DEFINE n == Len(s)
           u == SubSeq(t, n + 1, Len(t))
<1>1. n \in Nat /\ Len(t) \in Nat /\ n <= Len(t) /\ SubSeq(s, 1, n) = SubSeq(t, 1, n)
  BY LenProperties DEF IsPrefix
<1>2. SubSeq(s, 1, n) = s /\ SubSeq(t, 1, Len(t)) = t
  BY SubSeqFull
<1>3. 1 \in 1..(Len(t) + 1) /\ n \in (1 - 1)..Len(t) /\ Len(t) \in n..Len(t) /\ n + 1 \in Nat \ {0} /\ Len(t) \in 0..Len(t)
  BY <1>1
<1>4. SubSeq(t, 1, n) \o u = SubSeq(t, 1, Len(t))
  BY <1>3, ConcatAdjacentSubSeq
<1>5. u \in Seq(A)
  BY <1>3, PartType
<1>6. t = s \o u
  BY <1>1, <1>2, <1>4
<1> HIDE DEF u
<1> QED BY <1>5, <1>6

(* Two sequences that are prefixes of each other are the same.             *)
LEMMA PrefixOrder ==
  ASSUME NEW A, NEW s \in Seq(A), NEW t \in Seq(A), IsPrefix(s, t), IsPrefix(t, s)
  PROVE  s = t
<1>1. Len(s) \in Nat /\ Len(t) \in Nat /\ Len(s) <= Len(t) /\ Len(t) <= Len(s)
      /\ SubSeq(s, 1, Len(s)) = SubSeq(t, 1, Len(s))
  BY LenProperties DEF IsPrefix
<1>2. Len(s) = Len(t)
  BY <1>1
<1>3. SubSeq(s, 1, Len(s)) = s /\ SubSeq(t, 1, Len(t)) = t
  BY SubSeqFull
<1> QED BY <1>1, <1>2, <1>3

(* A longer list of names makes a longer path of the same beginning.       *)
LEMMA RebuiltConcat ==
  ASSUME NEW p, NEW ns \in Seq(Word), NEW ms \in Seq(Word)
  PROVE  /\ Rebuilt(p, ns \o ms) = Rebuilt(p, ns) \o Joined[ms] /\ Joined[ms] \in Text
         /\ ms # <<>> => Len(Joined[ms]) >= 2
<1> DEFINE R == Rebuilt(p, ns)
           Good(x) == /\ Rebuilt(p, ns \o x) = R \o Joined[x] /\ Joined[x] \in Text
                      /\ x # <<>> => Len(Joined[x]) >= 2
           S == {x \in Seq(Word) : Good(x)}
<1>0. R \in Text
  BY SplitRebuilt
<1>1. <<>> \in S
  <2>1. ns \o <<>> = ns /\ <<>> \in Seq(Word)
    BY ConcatEmptySeq, EmptySeq
  <2>2. Joined[<<>>] = <<>> /\ <<>> \in Text
    BY JoinedDef, Constants
  <2> HIDE DEF R
  <2>3. R \o <<>> = R
    BY <1>0, TextEmpty
  <2>4. Rebuilt(p, ns) = R
    BY DEF R
  <2>5. Good(<<>>)
    BY <2>1, <2>2, <2>3, <2>4
  <2> HIDE DEF Good
  <2> QED BY <2>1, <2>5
<1>2. ASSUME NEW x \in Seq(Word), NEW w \in Word, x \in S PROVE Append(x, w) \in S
  <2> DEFINE J == Joined[x]
  <2>1. ns \o Append(x, w) = Append(ns \o x, w) /\ ns \o x \in Seq(Word) /\ Append(x, w) \in Seq(Word)
    BY WordsConcatAppend
  <2>2. ns \o x \in Seq(Text) /\ x \in Seq(Text) /\ w \in Text /\ w # <<>> /\ "/" \in Sign
    BY <2>1, DotWords, SeqMonotonic, SplitWord, Constants DEF Specials
  <2>3. Rebuilt(p, ns \o x) = R \o J /\ J \in Text
    BY <1>2
  <2>4. Rebuilt(p, Append(ns \o x, w)) = Append(Rebuilt(p, ns \o x) \o w, "/")
    BY <2>2, RebuiltAppend
  <2>5. Joined[Append(x, w)] = Append(J \o w, "/")
    BY <2>2, JoinedAppend
  <2> HIDE DEF R, J
  <2>6. R \o J \o w = R \o (J \o w) /\ J \o w \in Text
    BY <1>0, <2>2, <2>3, TextThree
  <2>7. R \o Append(J \o w, "/") = Append(R \o (J \o w), "/") /\ Append(J \o w, "/") \in Text
    BY <1>0, <2>2, <2>6, TextConcatAppend
  <2>8. Len(Append(J \o w, "/")) >= 2
    <3>1. Len(J \o w) = Len(J) + Len(w) /\ Len(J) \in Nat /\ Len(w) \in Nat /\ Len(w) # 0
      BY <2>2, <2>3, TextConcat, TextIndices
    <3>2. Len(Append(J \o w, "/")) = Len(J \o w) + 1
      BY <2>2, <2>6, TextAppend
    <3> QED BY <3>1, <3>2
  <2>9. Good(Append(x, w))
    BY <2>1, <2>3, <2>4, <2>5, <2>6, <2>7, <2>8
  <2> HIDE DEF Good
  <2> QED BY <2>1, <2>9
<1>3. ms \in S
  <2> HIDE DEF S
  <2> QED BY <1>1, <1>2, SeqInduction
<1> QED BY <1>3 DEF R

(* A path with the names of another and more after them is longer, and     *)
(* begins with the same characters, once the slashes are dropped.          *)
LEMMA BelowIsLonger ==
  ASSUME NEW p \in Text, NEW q \in Text, SlashFirst(p) <=> SlashFirst(q),
         NEW ms \in Seq(Word), ms # <<>>, Split[q] = Split[p] \o ms
  PROVE  IsPrefix(DropSlash(p), DropSlash(q)) /\ DropSlash(p) # DropSlash(q)
<1> DEFINE R == Rebuilt(p, Split[p])
           J == Joined[ms]
           D == DropSlash(p)
           E == DropSlash(q)
           F == Rebuilt(q, Split[q])
<1>1. Split[p] \in Seq(Word) /\ D \in Text /\ E \in Text
  BY SplitWords, DropSlashWalk
<1>2. F = Rebuilt(p, Split[p] \o ms)
  BY DEF Rebuilt
<1>3. R \in Text /\ J \in Text /\ Len(J) >= 2 /\ F = R \o J
  BY <1>1, <1>2, RebuiltConcat, SplitRebuilt
<1>4. R = Append(D, "/") \/ R = D
  BY DropSlashHolds
<1>5. F = IF Len(F) > 1 THEN Append(E, "/") ELSE E
  BY DropSlashHolds
<1> HIDE DEF R, J, D, E, F
<1>6. Len(R) \in Nat /\ Len(J) \in Nat /\ Len(D) \in Nat /\ Len(E) \in Nat /\ "/" \in Sign
  BY <1>1, <1>3, TextIndices, Constants DEF Specials
<1>7. /\ Len(F) = Len(R) + Len(J)
      /\ \A i \in 1..(Len(R) + Len(J)) : F[i] = IF i <= Len(R) THEN R[i] ELSE J[i - Len(R)]
  BY <1>3, ConcatProperties DEF Text
<1>8. F = Append(E, "/")
  <2>1. Len(F) > 1
    BY <1>3, <1>6, <1>7
  <2> QED BY <1>5, <2>1
<1>9. Len(F) = Len(E) + 1 /\ \A i \in 1..Len(E) : F[i] = E[i]
  BY <1>1, <1>6, <1>8, TextAppend
<1>10. Len(D) <= Len(R) /\ \A i \in 1..Len(D) : R[i] = D[i]
  <2>1. CASE R = D
    BY <1>6, <2>1
  <2>2. CASE R = Append(D, "/")
    <3>1. Len(R) = Len(D) + 1 /\ \A i \in 1..Len(D) : R[i] = D[i]
      BY <1>1, <1>6, <2>2, TextAppend
    <3> QED BY <1>6, <3>1
  <2> QED BY <1>4, <2>1, <2>2
<1>11. Len(D) < Len(E)
  BY <1>3, <1>6, <1>7, <1>9, <1>10
<1>12. ASSUME NEW i \in 1..Len(D) PROVE D[i] = E[i]
  <2>1. i \in 1..Len(E) /\ i \in 1..(Len(R) + Len(J)) /\ i <= Len(R)
    BY <1>6, <1>10, <1>11
  <2> QED BY <1>7, <1>9, <1>10, <2>1
<1>13. IsPrefix(D, E)
  <2>1. D \in Seq(Sign) /\ E \in Seq(Sign) /\ Len(D) <= Len(E)
    BY <1>1, <1>6, <1>11 DEF Text
  <2> QED BY <1>12, <2>1, PrefixByElements
<1> QED BY <1>6, <1>11, <1>13 DEF D, E

(* fs_is_subdir finds all that is below a directory, component by          *)
(* component, and with fs_is_prefix it makes one strict order.             *)
THEOREM SubdirectoriesFound == Spec => []SubdirsFound
<1>1. Arguments => SubdirsFound
  <2> SUFFICES ASSUME Arguments PROVE SubdirsFound
    OBVIOUS
  <2>1. path \in Text /\ other \in Text /\ Names(path) = Split[path] /\ Names(other) = Split[other]
    BY ArgumentTexts, NamesAreSplit
  <2>2. DropSlash(path) \in Seq(Sign) /\ DropSlash(other) \in Seq(Sign)
    BY <2>1, DropSlashWalk DEF Text
  <2>3. ASSUME Below(path, other) PROVE IsSubdir(path, other)
    <3>1. /\ path # <<>> /\ other # <<>> /\ (SlashFirst(path) <=> SlashFirst(other))
          /\ IsPrefix(Split[other], Split[path]) /\ Split[other] # Split[path]
      BY <2>1, <2>3 DEF Below, IsStrictPrefix
    <3>2. Split[path] \in Seq(Word) /\ Split[other] \in Seq(Word)
      BY <2>1, SplitWords
    <3>3. PICK ms \in Seq(Word) : Split[path] = Split[other] \o ms
      BY <3>1, <3>2, PrefixRest
    <3>4. ms # <<>>
      BY <3>1, <3>2, <3>3, ConcatEmptySeq
    <3>5. IsPrefix(DropSlash(other), DropSlash(path)) /\ DropSlash(other) # DropSlash(path)
      BY <2>1, <3>1, <3>3, <3>4, BelowIsLonger
    <3> QED BY <3>1, <3>5 DEF IsSubdir, IsStrictPrefix
  <2>4. IsSubdir(path, other) <=> IsPrefixOf(other, path) /\ ~ IsPrefixOf(path, other)
    <3>1. IsPrefix(DropSlash(other), DropSlash(path)) /\ IsPrefix(DropSlash(path), DropSlash(other))
            => DropSlash(other) = DropSlash(path)
      BY <2>2, PrefixOrder
    <3>2. DropSlash(other) = DropSlash(path) => IsPrefix(DropSlash(path), DropSlash(other))
      BY <2>2, LenProperties DEF IsPrefix
    <3> QED BY <3>1, <3>2 DEF IsSubdir, IsPrefixOf, IsStrictPrefix
  <2> QED BY <2>3, <2>4 DEF SubdirsFound
<1> QED BY <1>1, ArgumentsStay, PTL

-----------------------------------------------------------------------------
(***************************************************************************)
(* Absolute paths and the home directory: fs_absolute, fs_expanduser.      *)
(***************************************************************************)

(* A path behind one that ends with a slash.                               *)
LEMMA WalkBehind ==
  ASSUME NEW x \in Text, NEW y \in Text, x # <<>>, EndsOpen(x), ~ SlashFirst(y)
  PROVE  /\ x \o y \in Text /\ (SlashFirst(x \o y) <=> SlashFirst(x))
         /\ \A dir \in Seq(Text) : Walk(dir, x \o y) = Walk(Walk(dir, x), y)
<1>1. x \o y \in Text /\ Split[x \o y] = Split[x] \o Split[y] /\ (SlashFirst(x \o y) <=> SlashFirst(x))
  BY TextConcat, SplitConcat, FirstOfConcat
<1> QED BY <1>1, WalkOn

(* fs_absolute with no base: the path from the working directory.          *)
LEMMA AbsoluteHolds ==
  ASSUME NEW p \in Text
  PROVE  /\ Absolute(p, FALSE) \in Text /\ SlashFirst(Absolute(p, FALSE))
         /\ Walk(<<>>, Absolute(p, FALSE)) = Walk(Walk(<<>>, Cwd), p)
<1> DEFINE c == DropSlash(Cwd)
           e == <<>>
<1>1. /\ c \in Text /\ c # <<>> /\ SlashFirst(c)
      /\ \A dir \in Seq(Text) : Walk(dir, c) = Walk(dir, Cwd)
  BY CwdAssumption, DropSlashWalk DEF SlashFirst
<1>2. e \in Seq(Text) /\ Walk(e, Cwd) \in Seq(Text)
  BY EmptySeq, CwdAssumption, WalkIs
<1>3. Absolute(p, FALSE) = IF p = <<>> THEN c ELSE IF SlashFirst(p) THEN p ELSE c \o Slash \o p
  BY DEF Absolute, Expanded, IsAbsolute
<1> HIDE DEF c, e
<1>4. CASE p = <<>>
  BY <1>1, <1>2, <1>3, <1>4, WalkEmpty DEF e
<1>5. CASE p # <<>> /\ SlashFirst(p)
  <2>1. Walk(e, p) = Walk(Walk(e, Cwd), p)
    BY <1>2, <1>5, WalkAbsolute
  <2> QED BY <1>3, <1>5, <2>1 DEF e
<1>6. CASE p # <<>> /\ ~ SlashFirst(p)
  <2>1. /\ c \o Slash \o p \in Text /\ SlashFirst(c \o Slash \o p)
        /\ Walk(e, c \o Slash \o p) = Walk(Walk(e, c), p)
    BY <1>1, <1>2, <1>6, WalkBetween
  <2> QED BY <1>1, <1>2, <1>3, <1>6, <2>1 DEF e
<1> QED BY <1>4, <1>5, <1>6

(* fs_absolute with a base: the path from the base.                        *)
LEMMA AbsoluteToHolds ==
  ASSUME NEW p \in Text, NEW base \in Text
  PROVE  /\ SlashFirst(AbsoluteTo(p, base, FALSE))
         /\ Walk(<<>>, AbsoluteTo(p, base, FALSE)) = Walk(Walk(Walk(<<>>, Cwd), base), p)
<1> DEFINE e == <<>>
           b == Absolute(base, FALSE)
           d == Walk(Walk(e, Cwd), base)
           x == IF Last(b) = "/" THEN b ELSE b \o Slash
<1>1. b \in Text /\ SlashFirst(b) /\ Walk(e, b) = d
  BY AbsoluteHolds
<1>2. e \in Seq(Text) /\ d \in Seq(Text)
  BY <1>1, EmptySeq, WalkIs
<1>3. AbsoluteTo(p, base, FALSE) = IF SlashFirst(p) THEN p ELSE IF p = <<>> THEN b ELSE x \o p
  BY DEF AbsoluteTo, Expanded, IsAbsolute
<1> HIDE DEF e, b, d, x
<1>4. CASE SlashFirst(p)
  <2>1. Walk(e, p) = Walk(d, p)
    BY <1>2, <1>4, WalkAbsolute
  <2> QED BY <1>3, <1>4, <2>1 DEF d, e
<1>5. CASE ~ SlashFirst(p) /\ p = <<>>
  <2>1. Walk(d, p) = d
    BY <1>2, <1>5, WalkEmpty
  <2> QED BY <1>1, <1>3, <1>5, <2>1 DEF d, e
<1>6. CASE ~ SlashFirst(p) /\ p # <<>>
  <2>1. b # <<>>
    BY <1>1 DEF SlashFirst
  <2>2. /\ x \in Text /\ x # <<>> /\ EndsOpen(x) /\ (SlashFirst(x) <=> SlashFirst(b))
        /\ Walk(e, x) = Walk(e, b)
    <3>1. CASE Last(b) = "/"
      BY <1>1, <2>1, <3>1 DEF x, EndsOpen
    <3>2. CASE Last(b) # "/"
      <4>1. x = b \o Slash
        BY <3>2 DEF x
      <4>2. b \o Slash \in Text /\ EndsOpen(b \o Slash) /\ Split[b \o Slash] = Split[b]
        BY <1>1, AppendSlash
      <4>3. b \o Slash # <<>> /\ (SlashFirst(b \o Slash) <=> SlashFirst(b))
        BY <1>1, <2>1, FirstOfConcat, Constants
      <4>4. Walk(e, b \o Slash) = Walk(e, b)
        BY <1>1, <1>2, <4>2, <4>3, SameWalk
      <4> QED BY <4>1, <4>2, <4>3, <4>4
    <3> QED BY <3>1, <3>2
  <2>3. (SlashFirst(x \o p) <=> SlashFirst(x)) /\ Walk(e, x \o p) = Walk(Walk(e, x), p)
    BY <1>2, <1>6, <2>2, WalkBehind
  <2> QED BY <1>1, <1>3, <1>6, <2>2, <2>3 DEF d, e
<1> QED BY <1>4, <1>5, <1>6

(* The first name of a relative path, and what follows it.                 *)
LEMMA FirstName ==
  ASSUME NEW p \in Text, p # <<>>, ~ SlashFirst(p)
  PROVE  \E f \in Word, y \in Text : p = f \o y /\ (y = <<>> \/ SlashFirst(y))
<1> DEFINE Good(x) == x # <<>> /\ ~ SlashFirst(x) =>
                        \E f \in Word, y \in Text : x = f \o y /\ (y = <<>> \/ SlashFirst(y))
           S == {x \in Text : Good(x)}
<1>1. <<>> \in S
  BY Constants
<1>2. ASSUME NEW x \in Text, NEW c \in Sign, x \in S PROVE Append(x, c) \in S
  <2>1. Append(x, c) \in Text
    BY TextAppend
  <2> SUFFICES ASSUME ~ SlashFirst(Append(x, c)) PROVE \E f \in Word, y \in Text : Append(x, c) = f \o y /\ (y = <<>> \/ SlashFirst(y))
    BY <2>1
  <2>2. CASE x = <<>>
    <3>1. c # "/" /\ Append(x, c) = <<c>>
      <4>1. c # "/"
        BY <2>2, SlashFirstAppend
      <4>2. Append(<<>>, c) = <<c>>
        OBVIOUS
      <4> QED BY <2>2, <4>1, <4>2
    <3>2. <<c>> \in Word /\ <<>> \in Text
      BY <3>1, WordAppend, Constants
    <3>3. <<c>> \o <<>> = <<c>>
      BY <3>2, SplitWord, TextEmpty
    <3> QED BY <3>1, <3>2, <3>3
  <2>3. CASE x # <<>>
    <3>1. ~ SlashFirst(x)
      BY <2>3, SlashFirstAppend
    <3>2. PICK f \in Word, y \in Text : x = f \o y /\ (y = <<>> \/ SlashFirst(y))
      BY <1>2, <2>3, <3>1
    <3>3. f \in Text
      BY SplitWord
    <3>4. CASE y = <<>> /\ c # "/"
      <4>1. x = f /\ Append(f, c) \in Word /\ <<>> \in Text
        BY <3>2, <3>3, <3>4, TextEmpty, WordAppend, Constants
      <4>2. Append(f, c) \o <<>> = Append(f, c)
        BY <4>1, SplitWord, TextEmpty
      <4> QED BY <4>1, <4>2
    <3>5. CASE y # <<>> \/ c = "/"
      <4>1. Append(x, c) = f \o Append(y, c) /\ Append(y, c) \in Text
        BY <3>2, <3>3, TextConcatAppend
      <4>2. SlashFirst(Append(y, c))
        BY <3>2, <3>5, SlashFirstAppend
      <4> QED BY <4>1, <4>2
    <3> QED BY <3>4, <3>5
  <2> QED BY <2>2, <2>3
<1>3. p \in S
  <2> HIDE DEF S
  <2> QED BY <1>1, <1>2, TextInduction
<1> QED BY <1>3

(* The names of such a path: the first one, and those of what follows.     *)
LEMMA FirstNameSplit ==
  ASSUME NEW f \in Word, NEW y \in Text, y = <<>> \/ SlashFirst(y)
  PROVE  Split[f \o y] = <<f>> \o Split[y]
<1>1. f \in Text /\ Split[f] = <<f>>
  BY SplitWord
<1>2. CASE y = <<>>
  <2>1. f \o y = f /\ Split[y] = <<>>
    BY <1>1, <1>2, TextEmpty, SplitDef
  <2>2. <<f>> \o <<>> = <<f>>
    BY <1>1, SplitWords, ConcatEmptySeq
  <2> QED BY <1>1, <2>1, <2>2
<1>3. CASE y # <<>> /\ SlashFirst(y)
  <2> DEFINE z == SubSeq(y, 2, Len(y))
  <2>1. Len(y) \in Nat /\ Len(y) # 0 /\ y \in Seq(Sign)
    BY <1>3, TextIndices DEF Text
  <2>2. z \in Text /\ Slash \o z = y
    <3>1. 2 \in Nat \ {0} /\ Len(y) \in 0..Len(y) /\ 1 \in 1..(Len(y) + 1) /\ 1 \in (1 - 1)..Len(y) /\ Len(y) \in 1..Len(y)
          /\ 1 \in 1..Len(y) /\ 1 \in 0..Len(y) /\ 1 \in Nat \ {0}
      BY <2>1
    <3>2. z \in Text
      BY <2>1, <3>1, PartType DEF Text
    <3>3. SubSeq(y, 1, 1) \o SubSeq(y, 1 + 1, Len(y)) = SubSeq(y, 1, Len(y))
      BY <2>1, <3>1, ConcatAdjacentSubSeq
    <3>4. SubSeq(y, 1, Len(y)) = y /\ 1 + 1 = 2
      BY <2>1, SubSeqFull
    <3>5. SubSeq(y, 1, 1) = Slash
      <4> DEFINE u == SubSeq(y, 1, 1)
      <4>1. u \in Seq(Sign) /\ Len(u) = (IF 1 <= 1 THEN 1 - 1 + 1 ELSE 0) /\ \A i \in 1..(1 - 1 + 1) : u[i] = y[1 + i - 1]
        BY <2>1, <3>1, PartType
      <4>2. y[1] = "/" /\ 1 \in 1..(1 - 1 + 1) /\ 1 + 1 - 1 = 1
        BY <1>3 DEF SlashFirst
      <4> HIDE DEF u
      <4>3. Len(u) = 1 /\ u[1] = "/"
        BY <4>1, <4>2
      <4>4. Slash \in Seq(Sign) /\ Len(Slash) = 1 /\ Slash[1] = "/"
        BY Constants DEF Text
      <4>5. u = Slash
        <5>1. \A i \in 1..Len(u) : u[i] = Slash[i]
          BY <4>3, <4>4
        <5> QED BY <4>1, <4>3, <4>4, <5>1, SeqEqual
      <4> QED BY <4>5 DEF u
    <3> QED BY <3>2, <3>3, <3>4, <3>5
  <2> HIDE DEF z
  <2>3. Split[f \o Slash \o z] = Split[f] \o Split[z]
    BY <1>1, <2>2, SplitBetween
  <2>4. f \o Slash \o z = f \o (Slash \o z)
    <3>1. Slash \in Text
      BY Constants
    <3> QED BY <1>1, <2>2, <3>1, TextThree
  <2>5. Split[y] = Split[z]
    <3>1. <<>> \in Text /\ Slash \in Text /\ Split[<<>>] = <<>> /\ <<>> \o Slash = Slash
      BY Constants, SplitDef, TextEmpty
    <3>2. Split[<<>> \o Slash \o z] = Split[<<>>] \o Split[z]
      BY <2>2, <3>1, SplitBetween
    <3>3. Split[z] \in Seq(Word)
      BY <2>2, SplitWords
    <3>4. <<>> \o Split[z] = Split[z]
      BY <3>3, ConcatEmptySeq
    <3> QED BY <2>2, <3>1, <3>2, <3>4
  <2> QED BY <1>1, <2>2, <2>3, <2>4, <2>5
<1> QED BY <1>2, <1>3

(* The first of names in a row, and the rest.                              *)
LEMMA FirstOfNames ==
  ASSUME NEW f \in Word, NEW ms \in Seq(Word)
  PROVE  (<<f>> \o ms)[1] = f /\ Tail(<<f>> \o ms) = ms
<1> DEFINE s == <<f>> \o ms
<1>1. <<f>> \in Seq(Word) /\ Len(<<f>>) = 1 /\ <<f>>[1] = f /\ Len(ms) \in Nat
  BY SplitWord, SplitWords, LenProperties
<1>2. s \in Seq(Word) /\ Len(s) = 1 + Len(ms)
      /\ \A i \in 1..(1 + Len(ms)) : s[i] = IF i <= 1 THEN <<f>>[i] ELSE ms[i - 1]
  BY <1>1, ConcatProperties
<1> HIDE DEF s
<1>3. s # <<>> /\ s[1] = f
  <2>1. 1 \in 1..(1 + Len(ms)) /\ Len(s) # 0
    BY <1>1, <1>2
  <2> QED BY <1>1, <1>2, <2>1, EmptySeq
<1>4. Tail(s) \in Seq(Word) /\ Len(Tail(s)) = Len(s) - 1 /\ \A i \in 1..Len(Tail(s)) : Tail(s)[i] = s[i + 1]
  BY <1>2, <1>3, HeadTailProperties
<1>5. Len(Tail(s)) = Len(ms)
  BY <1>1, <1>2, <1>4
<1>6. ASSUME NEW i \in 1..Len(ms) PROVE Tail(s)[i] = ms[i]
  <2>1. i + 1 \in 1..(1 + Len(ms)) /\ ~ (i + 1 <= 1) /\ i + 1 - 1 = i
    BY <1>1
  <2>2. s[i + 1] = ms[i]
    BY <1>2, <2>1
  <2> QED BY <1>4, <1>5, <2>2
<1>7. Tail(s) = ms
  BY <1>4, <1>5, <1>6, SeqEqual
<1> QED BY <1>3, <1>7 DEF s

(* Slashes alone are no names.                                             *)
LEMMA OnlySlashes ==
  ASSUME NEW y \in Text, \A i \in 1..Len(y) : y[i] = "/"
  PROVE  Split[y] = <<>> /\ EndsOpen(y)
<1> DEFINE Good(x) == (\A i \in 1..Len(x) : x[i] = "/") => Split[x] = <<>>
           S == {x \in Text : Good(x)}
<1>1. <<>> \in S
  BY SplitDef, Constants
<1>2. ASSUME NEW x \in Text, NEW c \in Sign, x \in S PROVE Append(x, c) \in S
  <2>1. /\ Append(x, c) \in Text /\ Len(Append(x, c)) = Len(x) + 1 /\ Len(x) \in Nat
        /\ \A i \in 1..Len(x) : Append(x, c)[i] = x[i]
        /\ Append(x, c)[Len(x) + 1] = c
    BY TextAppend
  <2> SUFFICES ASSUME \A i \in 1..(Len(x) + 1) : Append(x, c)[i] = "/" PROVE Split[Append(x, c)] = <<>>
    BY <2>1
  <2>2. Len(x) + 1 \in 1..(Len(x) + 1) /\ \A i \in 1..Len(x) : i \in 1..(Len(x) + 1)
    BY <2>1
  <2>3. c = "/" /\ \A i \in 1..Len(x) : x[i] = "/"
    BY <2>1, <2>2
  <2>4. Split[x] = <<>>
    BY <1>2, <2>3
  <2> QED BY <2>3, <2>4, SplitSlash
<1>3. y \in S
  <2> HIDE DEF S
  <2> QED BY <1>1, <1>2, TextInduction
<1>4. y # <<>> => Len(y) \in 1..Len(y)
  BY TextIndices
<1> QED BY <1>3, <1>4 DEF EndsOpen, Last

(* Where the names of a path are those of another and more.                *)
LEMMA WalkFurther ==
  ASSUME NEW x \in Text, NEW z \in Text, NEW ms \in Seq(Word),
         Split[z] = Split[x] \o ms, SlashFirst(z) <=> SlashFirst(x), NEW dir \in Seq(Text)
  PROVE  Walk(dir, z) = Follow(Walk(dir, x), ms)
<1>1. Split[x] \in Seq(Word)
  BY SplitWords
<1>2. Start(x, dir) \in Seq(Text) /\ Start(z, dir) = Start(x, dir)
  BY EmptySeq DEF Start
<1>3. Walk(dir, z) = Follow(Start(x, dir), Split[x] \o ms)
  BY <1>2, WalkIs
<1>4. Walk(dir, x) = Follow(Start(x, dir), Split[x])
  BY WalkIs
<1> QED BY <1>1, <1>2, <1>3, <1>4, FollowConcat

(* A path that does not begin with the name "~" is left as it is.          *)
LEMMA ExpanduserOther ==
  ASSUME NEW p \in Text, ~ (p # <<>> /\ ~ SlashFirst(p) /\ Split[p][1] = <<"~">>)
  PROVE  Expanduser(p) = p
<1>1. CASE p = <<>> \/ SlashFirst(p)
  <2>1. p = <<>> \/ p[1] # "~"
    BY <1>1 DEF SlashFirst
  <2> QED BY <2>1 DEF Expanduser
<1>2. CASE p # <<>> /\ ~ SlashFirst(p)
  <2>1. PICK f \in Word, y \in Text : p = f \o y /\ (y = <<>> \/ SlashFirst(y))
    BY <1>2, FirstName
  <2>2. Split[p][1] = f
    <3>1. Split[p] = <<f>> \o Split[y] /\ Split[y] \in Seq(Word)
      BY <2>1, FirstNameSplit, SplitWords
    <3> QED BY <3>1, FirstOfNames
  <2>3. f # <<"~">>
    BY <1>2, <2>2
  <2>4. f \in Text /\ f # <<>> /\ NoSlash(f)
    BY SplitWord DEF Word
  <2>5. /\ Len(f) \in Nat /\ Len(f) # 0 /\ DOMAIN f = 1..Len(f) /\ Len(y) \in Nat
        /\ Len(p) = Len(f) + Len(y)
    BY <2>1, <2>4, TextIndices, TextConcat
  <2>6. \A i \in 1..(Len(f) + Len(y)) : p[i] = IF i <= Len(f) THEN f[i] ELSE y[i - Len(f)]
    BY <2>1, <2>4, ConcatProperties DEF Text
  <2>7. CASE Len(f) = 1
    <3>1. f[1] # "~"
      <4> SUFFICES ASSUME f[1] = "~" PROVE FALSE
        OBVIOUS
      <4>1. <<"~">> \in Seq(Sign) /\ Len(<<"~">>) = 1 /\ <<"~">>[1] = "~" /\ f \in Seq(Sign)
        BY <2>4, Constants DEF Specials, Text
      <4>2. \A i \in 1..Len(f) : f[i] = <<"~">>[i]
        BY <2>7, <4>1
      <4>3. f = <<"~">>
        BY <2>7, <4>1, <4>2, SeqEqual
      <4> QED BY <2>3, <4>3
    <3>2. 1 \in 1..(Len(f) + Len(y)) /\ 1 <= Len(f)
      BY <2>5, <2>7
    <3>3. p[1] # "~"
      BY <2>6, <3>1, <3>2
    <3> QED BY <3>3 DEF Expanduser
  <2>8. CASE Len(f) # 1
    <3>1. 2 \in 1..(Len(f) + Len(y)) /\ 2 <= Len(f) /\ 2 \in 1..Len(f) /\ Len(p) > 1
      BY <2>5, <2>8
    <3>2. p[2] = f[2] /\ f[2] # "/"
      BY <2>4, <2>5, <2>6, <3>1 DEF NoSlash
    <3> QED BY <3>1, <3>2 DEF Expanduser
  <2> QED BY <2>7, <2>8
<1> QED BY <1>1, <1>2

(* "~" with slashes and names after it leads along the names from home.    *)
LEMMA ExpanduserHome ==
  ASSUME NEW y \in Text, y = <<>> \/ SlashFirst(y)
  PROVE  Walk(Deep, Expanduser(<<"~">> \o y)) = Follow(Walk(Deep, HomeVar), Split[y])
<1> DEFINE f == <<"~">>
           p == f \o y
           first == Min({i \in DOMAIN p : i > 2 /\ p[i] # "/"} \cup {Len(p) + 1})
           z == SubSeq(p, first, Len(p))
           e == Home \o Slash \o z
<1>1. f \in Text /\ Len(f) = 1 /\ f[1] = "~" /\ f # <<>>
  BY Constants DEF Specials, Text
<1>2. /\ Home \in Text /\ Home # <<>> /\ Split[Home] = Split[HomeVar]
      /\ SlashFirst(Home) <=> SlashFirst(HomeVar)
      /\ Walk(Deep, Home) = Walk(Deep, HomeVar) /\ Walk(Deep, HomeVar) \in Seq(Text)
  BY HomeAssumption, DropSlashWalk, DeepIs, WalkIs DEF Home
<1> HIDE DEF f
<1>3. /\ p \in Text /\ p # <<>> /\ Len(p) = 1 + Len(y) /\ Len(y) \in Nat /\ (y = <<>> <=> Len(y) = 0)
      /\ DOMAIN p = 1..Len(p)
  BY <1>1, TextConcat, TextIndices, FirstOfConcat
<1>4. \A i \in 1..(1 + Len(y)) : p[i] = IF i <= 1 THEN f[i] ELSE y[i - 1]
  <2>1. f \in Seq(Sign) /\ y \in Seq(Sign)
    BY <1>1 DEF Text
  <2>2. \A i \in 1..(Len(f) + Len(y)) : (f \o y)[i] = IF i <= Len(f) THEN f[i] ELSE y[i - Len(f)]
    BY <2>1, ConcatProperties
  <2>3. \A i \in 1..(Len(f) + Len(y)) : p[i] = IF i <= Len(f) THEN f[i] ELSE y[i - Len(f)]
    BY <2>2
  <2> HIDE DEF p
  <2> QED BY <1>1, <2>3
<1>5. p[1] = "~" /\ (Len(p) > 1 => p[2] = "/")
  <2>1. p[1] = "~"
    <3>1. 1 \in 1..(1 + Len(y)) /\ 1 <= 1
      BY <1>3
    <3> QED BY <1>1, <1>4, <3>1
  <2>2. ASSUME Len(p) > 1 PROVE p[2] = "/"
    <3>1. 2 \in 1..(1 + Len(y)) /\ ~ (2 <= 1) /\ 2 - 1 = 1 /\ y # <<>>
      BY <1>3, <2>2
    <3>2. y[1] = "/"
      BY <3>1 DEF SlashFirst
    <3> QED BY <1>4, <3>1, <3>2
  <2> QED BY <2>1, <2>2
<1>6. Expanduser(p) = IF Len(p) < 3 THEN Home ELSE IF Last(e) = "/" THEN Front(e) ELSE e
  <2> HIDE DEF p
  <2>1. ~ (p = <<>> \/ p[1] # "~" \/ (Len(p) > 1 /\ p[2] # "/"))
    BY <1>3, <1>5
  <2> QED BY <2>1, Zenon DEF Expanduser, e, z, first
<1>7. CASE Len(p) < 3
  <2>1. Split[y] = <<>>
    <3>1. \A i \in 1..Len(y) : y[i] = "/"
      <4> SUFFICES ASSUME NEW i \in 1..Len(y) PROVE y[i] = "/"
        OBVIOUS
      <4>1. i = 1 /\ y # <<>>
        BY <1>3, <1>7
      <4> QED BY <4>1 DEF SlashFirst
    <3> QED BY <3>1, OnlySlashes
  <2>2. Follow(Walk(Deep, HomeVar), <<>>) = Walk(Deep, HomeVar)
    BY <1>2, FollowDef
  <2>3. Expanduser(p) = Home
    BY <1>6, <1>7
  <2> HIDE DEF p
  <2> QED BY <1>2, <2>1, <2>2, <2>3 DEF p, f
<1>8. CASE ~ (Len(p) < 3)
  <2> DEFINE S == {i \in DOMAIN p : i > 2 /\ p[i] # "/"} \cup {Len(p) + 1}
             g == SubSeq(p, 2, first - 1)
  <2> HIDE DEF p
  <2>1. S \in SUBSET Nat /\ S # {} /\ \A i \in S : i \in 3..(Len(p) + 1)
    BY <1>3, <1>8
  <2>2. PICK m \in S : \A k \in S : m <= k
    <3> HIDE DEF S
    <3> QED BY <2>1, Least
  <2>3. first = m
    <3>1. Min(S) = m
      <4> HIDE DEF S
      <4> QED BY <2>1, <2>2, MinIs
    <3> QED BY <3>1, Zenon DEF first, S
  <2>4. m \in 3..(Len(p) + 1)
    BY <2>1, <2>2
  <2>5. ASSUME NEW i \in 2..(m - 1) PROVE p[i] = "/"
    <3>1. CASE i = 2
      BY <1>3, <1>5, <1>8, <3>1
    <3>2. CASE i # 2
      <4>1. i \in 1..Len(p) /\ i > 2 /\ ~ (m <= i)
        BY <1>3, <2>4, <3>2
      <4>2. i \notin S
        BY <2>2, <4>1
      <4> QED BY <1>3, <4>1, <4>2
    <3> QED BY <3>1, <3>2
  <2> HIDE DEF S, first
  <2>6. /\ 2 \in Nat \ {0} /\ m - 1 \in 0..Len(p) /\ m \in Nat \ {0} /\ Len(p) \in 0..Len(p)
        /\ 2 \in 1..(Len(p) + 1) /\ m - 1 \in (2 - 1)..Len(p) /\ Len(p) \in (m - 1)..Len(p)
        /\ m - 1 + 1 = m /\ p \in Seq(Sign)
    BY <1>3, <1>8, <2>4 DEF Text
  <2>7. z \in Text
    <3>1. SubSeq(p, m, Len(p)) \in Seq(Sign)
      BY <2>6, PartType
    <3> QED BY <2>3, <3>1 DEF z, Text
  <2>8. g \in Text /\ Split[g] = <<>> /\ EndsOpen(g)
    <3> DEFINE h == SubSeq(p, 2, m - 1)
    <3>1. /\ h \in Seq(Sign) /\ Len(h) = (IF 2 <= m - 1 THEN m - 1 - 2 + 1 ELSE 0)
          /\ \A i \in 1..(m - 1 - 2 + 1) : h[i] = p[2 + i - 1]
      BY <2>6, PartType
    <3> HIDE DEF h
    <3>2. \A i \in 1..Len(h) : i \in 1..(m - 1 - 2 + 1) /\ 2 + i - 1 \in 2..(m - 1)
      BY <2>4, <1>3, <3>1
    <3>3. \A i \in 1..Len(h) : h[i] = "/"
      BY <2>5, <3>1, <3>2
    <3>4. h \in Text /\ Split[h] = <<>> /\ EndsOpen(h)
      BY <3>1, <3>3, OnlySlashes DEF Text
    <3> QED BY <2>3, <3>4 DEF h
  <2>9. g \o z = SubSeq(p, 2, Len(p))
    <3>1. SubSeq(p, 2, m - 1) \o SubSeq(p, m - 1 + 1, Len(p)) = SubSeq(p, 2, Len(p))
      BY <2>6, ConcatAdjacentSubSeq
    <3> QED BY <2>3, <2>6, <3>1 DEF g, z
  <2>10. SubSeq(p, 2, Len(p)) = y
    <3>1. 2 \in (Len(f) + 1)..(Len(f) + Len(y)) /\ Len(p) \in (Len(f) + 1)..(Len(f) + Len(y))
          /\ 2 - Len(f) = 1 /\ Len(p) - Len(f) = Len(y)
      BY <1>1, <1>3, <1>8
    <3>2. SubSeq(f \o y, 2, Len(p)) = SubSeq(y, 2 - Len(f), Len(p) - Len(f))
      BY <1>1, <3>1, SubSeqOfConcat2 DEF Text
    <3>3. SubSeq(y, 1, Len(y)) = y
      BY SubSeqFull DEF Text
    <3> QED BY <3>1, <3>2, <3>3 DEF p
  <2> HIDE DEF g, z, e
  <2>11. Split[y] = Split[z] /\ Split[z] \in Seq(Word)
    <3>1. Split[g \o z] = Split[g] \o Split[z] /\ Split[z] \in Seq(Word)
      BY <2>7, <2>8, SplitConcat, SplitWords
    <3>2. <<>> \o Split[z] = Split[z]
      BY <3>1, ConcatEmptySeq
    <3> QED BY <2>8, <2>9, <2>10, <3>1, <3>2
  <2>12. e \in Text /\ Split[e] = Split[Home] \o Split[z] /\ (SlashFirst(e) <=> SlashFirst(Home)) /\ Len(e) > 1
    <3>1. e \in Text /\ Split[e] = Split[Home] \o Split[z]
      BY <1>2, <2>7, SplitBetween DEF e
    <3>2. Slash \in Text /\ Len(Slash) = 1
      BY Constants
    <3>3. e = Home \o (Slash \o z) /\ Slash \o z \in Text
      BY <1>2, <2>7, <3>2, TextThree DEF e
    <3>4. Len(e) = Len(Home) + Len(Slash \o z) /\ Len(Slash \o z) = Len(Slash) + Len(z)
      BY <1>2, <2>7, <3>2, <3>3, TextConcat
    <3>5. Len(Home) \in Nat /\ Len(Home) # 0 /\ Len(z) \in Nat
      BY <1>2, <2>7, TextIndices
    <3>6. SlashFirst(e) <=> SlashFirst(Home)
      BY <1>2, <3>3, FirstOfConcat
    <3>7. Len(e) > 1
      BY <3>2, <3>4, <3>5
    <3> QED BY <3>1, <3>6, <3>7
  <2>13. Expanduser(p) = WithoutLastSlash(e)
    BY <1>6, <1>8, <2>12 DEF WithoutLastSlash
  <2>14. /\ WithoutLastSlash(e) \in Text /\ Split[WithoutLastSlash(e)] = Split[Home] \o Split[y]
         /\ SlashFirst(WithoutLastSlash(e)) <=> SlashFirst(Home)
    BY <2>11, <2>12, WithoutLastSlashHolds
  <2>15. Walk(Deep, WithoutLastSlash(e)) = Follow(Walk(Deep, Home), Split[y])
    BY <1>2, <2>11, <2>14, DeepIs, WalkFurther
  <2> QED BY <1>2, <2>13, <2>15 DEF p, f
<1> QED BY <1>7, <1>8

(* The absolute path of a path leads where the path led (fs_absolute).     *)
LEMMA FoundFromCwd ==
  ASSUME Arguments
  PROVE  FromCwd
<1>1. path \in Text /\ other \in Text
  BY ArgumentTexts
<1>2. /\ SlashFirst(AbsoluteTo(path, other, FALSE))
      /\ Walk(<<>>, AbsoluteTo(path, other, FALSE)) = Walk(Walk(Walk(<<>>, Cwd), other), path)
  BY <1>1, AbsoluteToHolds
<1>3. Walk(<<>>, Absolute(path, FALSE)) = Walk(Walk(<<>>, Cwd), path)
  BY <1>1, AbsoluteHolds
<1> QED BY <1>2, <1>3 DEF FromCwd, IsAbsolute

(* "~" is the home directory where it is the first name, and there only    *)
(* (fs_expanduser).                                                        *)
LEMMA FoundFromHome ==
  ASSUME Arguments
  PROVE  FromHome
<1> DEFINE HomeFirst == path # <<>> /\ ~ SlashFirst(path) /\ Split[path][1] = <<"~">>
<1>1. path \in Text /\ Names(path) = Split[path]
  BY ArgumentTexts, NamesAreSplit
<1>2. CASE HomeFirst
  <2>1. PICK f \in Word, y \in Text : path = f \o y /\ (y = <<>> \/ SlashFirst(y))
    BY <1>1, <1>2, FirstName
  <2>2. Split[path] = <<f>> \o Split[y] /\ Split[y] \in Seq(Word)
    BY <2>1, FirstNameSplit, SplitWords
  <2>3. Split[path][1] = f /\ Tail(Split[path]) = Split[y]
    BY <2>2, FirstOfNames
  <2>4. path = <<"~">> \o y
    BY <1>2, <2>1, <2>3
  <2>5. Walk(Deep, Expanduser(path)) = Follow(Walk(Deep, HomeVar), Tail(Split[path]))
    BY <2>1, <2>3, <2>4, ExpanduserHome
  <2> QED BY <1>1, <1>2, <2>5 DEF FromHome, Meaning
<1>3. CASE ~ HomeFirst
  <2>1. Expanduser(path) = path
    BY <1>1, <1>3, ExpanduserOther
  <2> QED BY <1>1, <1>3, <2>1 DEF FromHome, Meaning
<1> QED BY <1>2, <1>3

(* An absolute path leads from the root to where the path led from the     *)
(* working directory or the base, and "~" leads home (fs_absolute,         *)
(* fs_expanduser).                                                         *)
THEOREM PlacesFound == Spec => []PlacesHold
<1>1. Arguments => PlacesHold
  BY FoundFromCwd, FoundFromHome DEF PlacesHold
<1> QED BY <1>1, ArgumentsStay, PTL
=============================================================================
