------------------------- MODULE Resolutions_proofs -------------------------
(***************************************************************************)
(* Theorems about Resolutions for any tree of directories, any links, any  *)
(* calls and any number of changes by others.                              *)
(***************************************************************************)
EXTENDS Resolutions, SequenceTheorems, FiniteSetTheorems, WellFoundedInduction, TLAPS

(***************************************************************************)
(* Recursion in which every element asks for the value of one other, and   *)
(* no way of asking is endless.                                            *)
(***************************************************************************)
NoEndlessWay(D, B, next) ==
  \A S \in SUBSET (D \ B) : S # {} => \E x \in S : next[x] \notin S

(* g says the right thing wherever it says anything.                       *)
Right(g, B, next, base, step) ==
  g = [x \in DOMAIN g |-> IF x \in B THEN base[x] ELSE step[<<x, g[next[x]]>>]]

Partial(g, D, B, next, base, step) ==
  /\ DOMAIN g \subseteq D
  /\ \A x \in DOMAIN g \ B : next[x] \in DOMAIN g
  /\ Right(g, B, next, base, step)

(* Two partial functions agree where both say something.                   *)
LEMMA PartialsAgree ==
  ASSUME NEW D, NEW B, NEW next, NEW base, NEW step, NoEndlessWay(D, B, next),
         NEW g, NEW h,
         Partial(g, D, B, next, base, step), Partial(h, D, B, next, base, step),
         NEW x \in DOMAIN g, x \in DOMAIN h
  PROVE  g[x] = h[x]
<1> DEFINE S == {y \in DOMAIN g : y \in DOMAIN h /\ g[y] # h[y]}
<1>1. ASSUME NEW y \in DOMAIN g PROVE g[y] = IF y \in B THEN base[y] ELSE step[<<y, g[next[y]]>>]
  BY Zenon DEF Partial, Right
<1>2. ASSUME NEW y \in DOMAIN h PROVE h[y] = IF y \in B THEN base[y] ELSE step[<<y, h[next[y]]>>]
  BY Zenon DEF Partial, Right
<1>3. S \in SUBSET (D \ B)
  BY <1>1, <1>2 DEF Partial
<1>4. ASSUME NEW y \in S PROVE next[y] \in S
  <2>1. y \in DOMAIN g /\ y \in DOMAIN h /\ y \notin B /\ g[y] # h[y]
    BY <1>3
  <2>2. next[y] \in DOMAIN g /\ next[y] \in DOMAIN h
    BY <2>1 DEF Partial
  <2>3. g[next[y]] # h[next[y]]
    BY <1>1, <1>2, <2>1
  <2> QED BY <2>2, <2>3
<1>5. S = {}
  BY <1>3, <1>4 DEF NoEndlessWay
<1> QED BY <1>5

(* Some partial function says something of any given element.              *)
LEMMA PartialsReach ==
  ASSUME NEW D, NEW B \in SUBSET D, NEW next \in [D \ B -> D], NEW base, NEW step,
         NoEndlessWay(D, B, next), NEW x \in D
  PROVE  \E g : Partial(g, D, B, next, base, step) /\ x \in DOMAIN g
<1> DEFINE P(g) == Partial(g, D, B, next, base, step)
           S == {y \in D : \A g : P(g) => y \notin DOMAIN g}
<1>1. ASSUME NEW y \in B PROVE y \notin S
  <2> DEFINE g == [z \in {y} |-> base[y]]
  <2>1. DOMAIN g = {y} /\ g[y] = base[y]
    OBVIOUS
  <2>2. g = [z \in DOMAIN g |-> IF z \in B THEN base[z] ELSE step[<<z, g[next[z]]>>]]
    OBVIOUS
  <2>3. P(g)
    BY <2>1, <2>2 DEF Partial, Right
  <2> QED BY <2>1, <2>3
<1>2. S \in SUBSET (D \ B)
  BY <1>1
<1>3. ASSUME NEW y \in S PROVE next[y] \in S
  <2>1. y \in D \ B /\ next[y] \in D
    BY <1>2
  <2>2. ASSUME NEW g, P(g), next[y] \in DOMAIN g PROVE FALSE
    <3> DEFINE E == DOMAIN g \cup {y}
               h == [z \in E |-> IF z \in B THEN base[z] ELSE step[<<z, g[next[z]]>>]]
    <3>1. DOMAIN h = E /\ y \in E
      OBVIOUS
    <3>2. \A z \in DOMAIN g : h[z] = g[z]
      BY <2>2, Zenon DEF Partial, Right
    <3>3. \A z \in E \ B : next[z] \in DOMAIN g
      BY <2>2 DEF Partial
    <3>4. \A z \in E \ B : h[next[z]] = g[next[z]]
      BY <3>2, <3>3
    <3>5. h = [z \in E |-> IF z \in B THEN base[z] ELSE step[<<z, h[next[z]]>>]]
      BY <3>4
    <3>6. P(h)
      BY <2>1, <2>2, <3>1, <3>3, <3>5 DEF Partial, Right
    <3> QED BY <3>1, <3>6
  <2> QED BY <2>1, <2>2
<1>4. S = {}
  BY <1>2, <1>3 DEF NoEndlessWay
<1> QED BY <1>4

(* g says the right thing of every element.                                *)
Solves(g, D, B, next, base, step) ==
  g = [x \in D |-> IF x \in B THEN base[x] ELSE step[<<x, g[next[x]]>>]]

(* So there is one that says something of every element.                   *)
LEMMA Recursion ==
  ASSUME NEW D, NEW B \in SUBSET D, NEW next \in [D \ B -> D], NEW base, NEW step,
         NoEndlessWay(D, B, next)
  PROVE  \E g : Solves(g, D, B, next, base, step)
<1> DEFINE P(g) == Partial(g, D, B, next, base, step)
           v(x) == CHOOSE g : P(g) /\ x \in DOMAIN g
           G == [x \in D |-> v(x)[x]]
<1>1. ASSUME NEW x \in D PROVE P(v(x)) /\ x \in DOMAIN v(x)
  BY PartialsReach, Zenon
<1>2. ASSUME NEW x \in D
      PROVE  v(x)[x] = IF x \in B THEN base[x] ELSE step[<<x, v(x)[next[x]]>>]
  BY <1>1, Zenon DEF Partial, Right
<1>3. ASSUME NEW x \in D \ B PROVE v(x)[next[x]] = v(next[x])[next[x]]
  <2>1. next[x] \in D /\ next[x] \in DOMAIN v(x)
    BY <1>1 DEF Partial
  <2> HIDE DEF v
  <2>2. P(v(x)) /\ P(v(next[x])) /\ next[x] \in DOMAIN v(next[x])
    BY <1>1, <2>1
  <2> QED BY <2>1, <2>2, PartialsAgree
<1> HIDE DEF v
<1>4. G = [x \in D |-> IF x \in B THEN base[x] ELSE step[<<x, G[next[x]]>>]]
  <2>1. ASSUME NEW x \in D PROVE G[x] = IF x \in B THEN base[x] ELSE step[<<x, G[next[x]]>>]
    BY <1>2, <1>3
  <2> QED BY <2>1
<1> QED BY <1>4 DEF Solves

(* ... and if each step makes a value of T of one, it is a function to T.  *)
LEMMA TypedRecursion ==
  ASSUME NEW D, NEW B \in SUBSET D, NEW next \in [D \ B -> D], NEW T,
         NEW base \in [B -> T], NEW step \in [(D \ B) \X T -> T], NoEndlessWay(D, B, next)
  PROVE  \E g \in [D -> T] : Solves(g, D, B, next, base, step)
<1>1. PICK g : Solves(g, D, B, next, base, step)
  BY Recursion
<1> DEFINE S == {x \in D : g[x] \notin T}
<1>2. \A x \in D : g[x] = IF x \in B THEN base[x] ELSE step[<<x, g[next[x]]>>]
  BY <1>1, Zenon DEF Solves
<1>3. S \in SUBSET (D \ B)
  BY <1>2
<1>4. ASSUME NEW x \in S PROVE next[x] \in S
  <2>1. x \in D \ B /\ next[x] \in D /\ g[x] \notin T
    BY <1>3
  <2>2. g[next[x]] \notin T
    BY <1>2, <2>1
  <2> QED BY <2>1, <2>2
<1>5. S = {}
  BY <1>3, <1>4 DEF NoEndlessWay
<1>6. g = [x \in D |-> g[x]]
  BY <1>1, <1>2 DEF Solves
<1>7. g \in [D -> T]
  BY <1>5, <1>6
<1> QED BY <1>1, <1>7
-----------------------------------------------------------------------------
(***************************************************************************)
(* The names of directories, and normal forms.                             *)
(***************************************************************************)
(* The names of a directory from the root are those of the one it is in,   *)
(* and its own.                                                            *)
LEMMA PathOfIs ==
  ASSUME NEW N, NameOf \in [Dir -> N], NEW d \in Dir
  PROVE  /\ PathOf(d) \in Seq(N)
         /\ PathOf(Root) = <<>>
         /\ d # Root => PathOf(d) = Append(PathOf(Up[d]), NameOf[d])
<1> DEFINE B == {Root}
           next == [x \in Dir \ B |-> Up[x]]
           base == [x \in B |-> <<>>]
           step == [xv \in (Dir \ B) \X Seq(N) |-> Append(xv[2], NameOf[xv[1]])]
           F(g) == [x \in Dir |-> IF x = Root THEN <<>> ELSE Append(g[Up[x]], NameOf[x])]
           names == CHOOSE g : g = F(g)
<1>1. B \in SUBSET Dir /\ next \in [Dir \ B -> Dir]
  BY KindsAssumption, DirsAssumption
<1>2. base \in [B -> Seq(N)] /\ step \in [(Dir \ B) \X Seq(N) -> Seq(N)]
  BY EmptySeq, AppendProperties
<1>3. NoEndlessWay(Dir, B, next)
  BY TreeAssumption DEF NoEndlessWay
<1>4. PICK g \in [Dir -> Seq(N)] : Solves(g, Dir, B, next, base, step)
  <2> HIDE DEF B, next, base, step
  <2> QED BY <1>1, <1>2, <1>3, TypedRecursion
<1>5. g = F(g)
  <2>1. ASSUME NEW x \in Dir \ B PROVE step[<<x, g[next[x]]>>] = Append(g[Up[x]], NameOf[x])
    <3>1. next[x] = Up[x] /\ Up[x] \in Dir
      BY DirsAssumption
    <3>2. g[Up[x]] \in Seq(N)
      BY <3>1
    <3> QED BY <3>1, <3>2
  <2> QED BY <1>4, <2>1 DEF Solves
<1>6. names = F(names)
  <2> HIDE DEF F
  <2> QED BY <1>5, Zenon
<1>7. \A x \in Dir : names[x] = IF x = Root THEN <<>> ELSE Append(names[Up[x]], NameOf[x])
  <2> HIDE DEF names
  <2> QED BY <1>6, Zenon
<1> HIDE DEF names
<1> DEFINE S == {x \in Dir : names[x] \notin Seq(N)}
<1>8. S \in SUBSET (Dir \ {Root})
  BY <1>7, EmptySeq
<1>9. ASSUME NEW x \in S PROVE Up[x] \in S
  <2>1. x \in Dir /\ x # Root /\ Up[x] \in Dir /\ NameOf[x] \in N
    BY <1>8, DirsAssumption
  <2>2. names[x] = Append(names[Up[x]], NameOf[x])
    BY <1>7, <2>1
  <2>3. names[Up[x]] \in Seq(N) => names[x] \in Seq(N)
    BY <2>1, <2>2, AppendProperties
  <2> QED BY <2>1, <2>3
<1>10. S = {}
  BY <1>8, <1>9, TreeAssumption
<1>11. \A x : PathOf(x) = names[x]
  BY DEF PathOf, names
<1>12. Root \in Dir /\ Up[d] \in Dir
  BY KindsAssumption, DirsAssumption
<1> QED BY <1>7, <1>10, <1>11, <1>12

(* The names of a directory from the root are names of directories.        *)
LEMMA PathOfType ==
  ASSUME NEW N, NameOf \in [Dir -> N], NEW d \in Dir
  PROVE  PathOf(d) \in Seq(N)
BY PathOfIs

(* A set of natural numbers with an element has a least one, in the terms  *)
(* of the library ...                                                      *)
Less == {pair \in Nat \X Nat : pair[1] < pair[2]}

(* The order of the natural numbers has no endless way down.               *)
LEMMA LessWellFounded == IsWellFoundedOn(Less, Nat)
<1>1. OpToRel(<, Nat) = Less
  BY Zenon DEF OpToRel, Less
<1> QED BY <1>1, NatLessThanWellFounded

(* ... and of the order.                                                   *)
LEMMA Least ==
  ASSUME NEW S \in SUBSET Nat, S # {}
  PROVE  \E m \in S : \A k \in S : m <= k
<1>1. PICK e : e \in S
  OBVIOUS
<1>2. PICK m \in S : \A k \in S : <<k, m>> \notin Less
  BY <1>1, LessWellFounded, WFMin
<1>3. ASSUME NEW k \in S PROVE m <= k
  <2>1. <<k, m>> \notin Less  BY <1>2
  <2>2. <<k, m>> \in Nat \X Nat /\ <<k, m>>[1] = k /\ <<k, m>>[2] = m  OBVIOUS
  <2>3. ~ (k < m)  BY <2>1, <2>2 DEF Less
  <2> QED BY <2>3
<1> QED BY <1>3

(* Counting down ends.                                                     *)
LEMMA CountingDown ==
  ASSUME NEW n \in Nat, NEW next, \A k \in 1..n : next[k] = k - 1
  PROVE  NoEndlessWay(0..n, {0}, next)
<1> SUFFICES ASSUME NEW S \in SUBSET ((0..n) \ {0}), S # {} PROVE \E x \in S : next[x] \notin S
  BY DEF NoEndlessWay
<1>1. S \in SUBSET Nat /\ \A x \in S : x \in 1..n
  OBVIOUS
<1>2. PICK m \in S : \A k \in S : m <= k
  BY <1>1, Least
<1>3. next[m] = m - 1 /\ m \in Nat
  BY <1>1, <1>2
<1>4. next[m] \notin S
  BY <1>1, <1>2, <1>3
<1> QED BY <1>4

(* What the normal form of p holds when its names are of N, or "..".       *)
Kept(p, N) == IF p.abs THEN Seq(N) ELSE Seq(N \cup {DotDot})

(* Putting one name more to it.                                            *)
Put(p, names, n) ==
  IF n # DotDot THEN Append(names, n)
  ELSE IF names # <<>> /\ Last(names) # DotDot THEN Front(names)
  ELSE IF p.abs THEN names ELSE Append(names, n)

(* The first names of a sequence are a sequence of the same names.         *)
LEMMA FrontType ==
  ASSUME NEW N, NEW s \in Seq(N), s # <<>>
  PROVE  Front(s) \in Seq(N)
<1>1. Len(s) \in Nat /\ Len(s) # 0
  BY LenProperties, EmptySeq
<1> QED BY <1>1, SubSeqProperties DEF Front

(* A name more keeps what the normal form may hold.                        *)
LEMMA PutType ==
  ASSUME NEW p, NEW N, DotDot \notin N, NEW names \in Kept(p, N), NEW n \in N \cup {DotDot}
  PROVE  Put(p, names, n) \in Kept(p, N)
<1>0. ASSUME ~ p.abs PROVE Append(names, n) \in Kept(p, N)
  <2> DEFINE M == N \cup {DotDot}
  <2>1. Kept(p, N) = Seq(M) /\ names \in Seq(M) /\ n \in M
    BY <1>0 DEF Kept
  <2> HIDE DEF M
  <2> QED BY <2>1, AppendProperties
<1>1. CASE n # DotDot
  <2>1. n \in N /\ Put(p, names, n) = Append(names, n)
    BY <1>1 DEF Put
  <2>2. p.abs => Append(names, n) \in Kept(p, N)
    BY <2>1, AppendProperties DEF Kept
  <2> QED BY <1>0, <2>1, <2>2
<1>2. CASE n = DotDot /\ names # <<>> /\ Last(names) # DotDot
  <2>1. Put(p, names, n) = Front(names)
    BY <1>2 DEF Put
  <2> QED BY <1>2, <2>1, FrontType DEF Kept
<1>3. CASE n = DotDot /\ ~ (names # <<>> /\ Last(names) # DotDot)
  <2>1. Put(p, names, n) = IF p.abs THEN names ELSE Append(names, n)
    BY <1>3 DEF Put
  <2> QED BY <1>0, <2>1
<1> QED BY <1>1, <1>2, <1>3

(* The normal form of a path is made by putting one name after the other   *)
(* to it.                                                                  *)
LEMMA NormalIs ==
  ASSUME NEW N, DotDot \notin N, NEW p \in [abs : BOOLEAN, names : Seq(N \cup {DotDot})]
  PROVE  \E kept \in [0..Len(p.names) -> Kept(p, N)] :
           /\ kept[0] = <<>>
           /\ \A k \in 1..Len(p.names) : kept[k] = Put(p, kept[k - 1], p.names[k])
           /\ Normal(p) = [p EXCEPT !.names = kept[Len(p.names)]]
<1> DEFINE n == Len(p.names)
           D == 0..n
           B == {0}
           next == [k \in D \ B |-> k - 1]
           base == [k \in B |-> <<>>]
           step == [kv \in (D \ B) \X Kept(p, N) |-> Put(p, kv[2], p.names[kv[1]])]
           F(g) == [k \in D |-> IF k = 0 THEN <<>> ELSE Put(p, g[k - 1], p.names[k])]
           kept == CHOOSE g : g = F(g)
<1>1. n \in Nat /\ p.names \in Seq(N \cup {DotDot}) /\ \A k \in 1..n : p.names[k] \in N \cup {DotDot}
  BY ElementOfSeq, LenProperties
<1> HIDE DEF n
<1>2. B \in SUBSET D /\ next \in [D \ B -> D] /\ D \ B = 1..n
  BY <1>1
<1>3. base \in [B -> Kept(p, N)]
  BY EmptySeq DEF Kept
<1>4. step \in [(D \ B) \X Kept(p, N) -> Kept(p, N)]
  BY <1>1, <1>2, PutType
<1>5. NoEndlessWay(D, B, next)
  BY <1>1, <1>2, CountingDown
<1>6. PICK g \in [D -> Kept(p, N)] : Solves(g, D, B, next, base, step)
  <2> HIDE DEF D, B, next, base, step
  <2> QED BY <1>2, <1>3, <1>4, <1>5, TypedRecursion
<1>7. g = F(g)
  <2>1. ASSUME NEW k \in D \ B PROVE step[<<k, g[next[k]]>>] = Put(p, g[k - 1], p.names[k])
    <3>1. next[k] = k - 1 /\ k - 1 \in D
      BY <1>1, <1>2
    <3>2. g[k - 1] \in Kept(p, N)
      BY <3>1
    <3> QED BY <3>1, <3>2
  <2> QED BY <1>6, <2>1 DEF Solves
<1>8. kept = F(kept)
  <2> HIDE DEF F
  <2> QED BY <1>7, Zenon
<1>9. \A k \in D : kept[k] = IF k = 0 THEN <<>> ELSE Put(p, kept[k - 1], p.names[k])
  <2> HIDE DEF kept
  <2> QED BY <1>8, Zenon
<1>10. Normal(p) = [p EXCEPT !.names = kept[n]]
  BY DEF Normal, Put, n
<1> HIDE DEF kept
<1> DEFINE S == {k \in D : kept[k] \notin Kept(p, N)}
<1>11. S \in SUBSET (D \ B)
  BY <1>3, <1>9
<1>12. ASSUME NEW k \in S PROVE next[k] \in S
  <2>1. k \in 1..n /\ next[k] = k - 1 /\ k - 1 \in D /\ p.names[k] \in N \cup {DotDot}
    BY <1>1, <1>2, <1>11
  <2>2. kept[k] = Put(p, kept[k - 1], p.names[k])
    BY <1>1, <1>9, <2>1
  <2>3. kept[k - 1] \in Kept(p, N) => kept[k] \in Kept(p, N)
    BY <2>1, <2>2, PutType
  <2> QED BY <2>1, <2>3
<1>13. S = {}
  BY <1>5, <1>11, <1>12 DEF NoEndlessWay
<1>14. kept = [k \in D |-> kept[k]]
  BY <1>8, Zenon DEF kept
<1>15. kept \in [D -> Kept(p, N)]
  BY <1>13, <1>14
<1>16. kept[0] = <<>> /\ \A k \in 1..n : kept[k] = Put(p, kept[k - 1], p.names[k])
  BY <1>1, <1>9
<1>17. \E k \in [D -> Kept(p, N)] :
         /\ k[0] = <<>> /\ \A i \in 1..n : k[i] = Put(p, k[i - 1], p.names[i])
         /\ Normal(p) = [p EXCEPT !.names = k[n]]
  BY <1>10, <1>15, <1>16
<1> QED BY <1>17 DEF n

(* The normal form of an absolute path has no ".." in it, and that of any  *)
(* path no other names than the path.                                      *)
LEMMA NormalType ==
  ASSUME NEW N, DotDot \notin N, NEW p \in [abs : BOOLEAN, names : Seq(N \cup {DotDot})]
  PROVE  /\ Normal(p) \in [abs : BOOLEAN, names : Seq(N \cup {DotDot})]
         /\ Normal(p).abs = p.abs
         /\ p.abs => Normal(p).names \in Seq(N)
<1>1. PICK kept \in [0..Len(p.names) -> Kept(p, N)] :
        Normal(p) = [p EXCEPT !.names = kept[Len(p.names)]]
  BY NormalIs
<1>2. Len(p.names) \in 0..Len(p.names)
  <2>1. p.names \in Seq(N \cup {DotDot})
    OBVIOUS
  <2>2. Len(p.names) \in Nat
    BY <2>1, LenProperties
  <2> QED BY <2>2
<1>3. kept[Len(p.names)] \in Kept(p, N)
  BY <1>2
<1>4. Seq(N) \subseteq Seq(N \cup {DotDot})
  BY SeqMonotonic
<1> QED BY <1>1, <1>3, <1>4 DEF Kept
-----------------------------------------------------------------------------
(***************************************************************************)
(* The walk along a path.                                                  *)
(***************************************************************************)
Children == [Dir -> [Name -> Node \cup {None}]]

(* What is found under a name is a node or nothing.                        *)
LEMMA EntryType ==
  ASSUME child \in Children, NEW d \in Dir, NEW n \in Name
  PROVE  Spelled(d, n) \in Name /\ Entry(d, n) \in Node \cup {None}
<1> DEFINE there == {m \in Name : child[d][m] # None /\ Alike(m, n)}
<1>1. there # {} => (CHOOSE m \in there : TRUE) \in Name
  OBVIOUS
<1>2. Spelled(d, n) \in Name
  BY <1>1, Zenon DEF Spelled
<1> QED BY <1>2 DEF Entry, Children

(* A walk that has not ended is at a directory and has a name to go; the   *)
(* name is "..", or found.                                                 *)
LEMMA WalkAt ==
  ASSUME child \in Children, NEW w \in Walk, ~ Ended(w)
  PROVE  /\ w[1] \in Dir /\ w[2] \in Seq(Name \cup {DotDot}) /\ w[2] # <<>> /\ w[3] \in Nat
         /\ Head(w[2]) \in Name \cup {DotDot} /\ Tail(w[2]) \in Seq(Name \cup {DotDot})
         /\ Len(Tail(w[2])) = Len(w[2]) - 1
         /\ Head(w[2]) # DotDot => Found(w) \in Node /\ (Found(w) \in Link => w[3] # 0)
<1>1. w[1] \in Dir /\ w[2] \in Seq(Name \cup {DotDot}) /\ w[2] # <<>> /\ w[3] \in Nat
  BY DEF Walk, Ended
<1> DEFINE M == Name \cup {DotDot}
<1>2. Head(w[2]) \in M /\ Tail(w[2]) \in Seq(M) /\ Len(Tail(w[2])) = Len(w[2]) - 1
  <2>1. w[2] \in Seq(M)
    BY <1>1
  <2> HIDE DEF M
  <2> QED BY <1>1, <2>1, HeadTailProperties
<1>3. Head(w[2]) # DotDot => Found(w) \in Node \cup {None}
  BY <1>1, <1>2, EntryType DEF Found
<1> QED BY <1>1, <1>2, <1>3 DEF Ended

(* A place on the way is a node, names and a number.                       *)
LEMMA WalkParts ==
  ASSUME NEW at \in Node, NEW names \in Seq(Name \cup {DotDot}), NEW fuel \in Nat
  PROVE  /\ <<at, names, fuel>> \in Walk
         /\ <<at, names, fuel>>[1] = at /\ <<at, names, fuel>>[2] = names
         /\ <<at, names, fuel>>[3] = fuel
BY DEF Walk

(* It goes on with one name less or, at a link, with one link less that it *)
(* may follow; and with no other names than those it had or a link has.    *)
LEMMA OnwardType ==
  ASSUME child \in Children, NEW w \in Walk, ~ Ended(w)
  PROVE  /\ Onward(w) \in Walk
         /\ \/ Onward(w)[3] < w[3]
            \/ Onward(w)[3] = w[3] /\ Len(Onward(w)[2]) < Len(w[2])
<1> DEFINE M == Name \cup {DotDot}
<1>1. /\ w[1] \in Dir /\ Tail(w[2]) \in Seq(M) /\ w[3] \in Nat
      /\ Len(w[2]) \in Nat /\ Len(Tail(w[2])) = Len(w[2]) - 1
      /\ Head(w[2]) # DotDot => Found(w) \in Node /\ (Found(w) \in Link => w[3] # 0)
  BY WalkAt, LenProperties
<1>2. CASE Head(w[2]) = DotDot
  <2>1. Onward(w) = <<Up[w[1]], Tail(w[2]), w[3]>> /\ Up[w[1]] \in Node
    BY <1>1, <1>2, DirsAssumption DEF Onward, Node
  <2>2. Onward(w) \in Walk /\ Onward(w)[2] = Tail(w[2]) /\ Onward(w)[3] = w[3]
    <3>1. Tail(w[2]) \in Seq(Name \cup {DotDot})
      BY <1>1
    <3> DEFINE at == Up[w[1]]
               to == Tail(w[2])
    <3>2. Onward(w) = <<at, to, w[3]>> /\ at \in Node /\ w[3] \in Nat
      BY <1>1, <2>1
    <3> HIDE DEF at, to
    <3>3. Onward(w) \in Walk /\ Onward(w)[2] = to /\ Onward(w)[3] = w[3]
      <4>1. to \in Seq(Name \cup {DotDot})
        BY <3>1 DEF to
      <4> QED BY <3>2, <4>1, WalkParts
    <3> QED BY <3>3 DEF to
  <2> QED BY <1>1, <2>2
<1>3. CASE Head(w[2]) # DotDot /\ Found(w) \in Link
  <2>1. Target[Found(w)].names \in Seq(M)
    BY <1>3, LinksAssumption DEF Path
  <2>2. Target[Found(w)].names \o Tail(w[2]) \in Seq(M)
    <3> HIDE DEF M
    <3> QED BY <1>1, <2>1, ConcatProperties
  <2>3. w[3] - 1 \in Nat /\ w[3] - 1 < w[3]
    BY <1>1, <1>3
  <2> DEFINE at == IF Target[Found(w)].abs THEN Root ELSE w[1]
             to == Target[Found(w)].names \o Tail(w[2])
  <2>4. Onward(w) = <<at, to, w[3] - 1>> /\ at \in Node
    BY <1>1, <1>3, KindsAssumption DEF Onward, Node
  <2>5. Onward(w) \in Walk /\ Onward(w)[3] = w[3] - 1
    <3> HIDE DEF at, to
    <3>1. to \in Seq(Name \cup {DotDot})
      BY <2>2 DEF to
    <3> QED BY <2>3, <2>4, <3>1, WalkParts
  <2> QED BY <2>3, <2>5
<1>4. CASE Head(w[2]) # DotDot /\ Found(w) \notin Link
  <2>1. Onward(w) = <<Found(w), Tail(w[2]), w[3]>>
    BY <1>4 DEF Onward
  <2>2. Onward(w) \in Walk /\ Onward(w)[2] = Tail(w[2]) /\ Onward(w)[3] = w[3]
    <3>1. Tail(w[2]) \in Seq(Name \cup {DotDot})
      BY <1>1
    <3> DEFINE at == Found(w)
               to == Tail(w[2])
    <3>2. Onward(w) = <<at, to, w[3]>> /\ at \in Node /\ w[3] \in Nat
      BY <1>1, <1>4, <2>1
    <3> HIDE DEF at, to
    <3>3. Onward(w) \in Walk /\ Onward(w)[2] = to /\ Onward(w)[3] = w[3]
      <4>1. to \in Seq(Name \cup {DotDot})
        BY <3>1 DEF to
      <4> QED BY <3>2, <4>1, WalkParts
    <3> QED BY <3>3 DEF to
  <2> QED BY <1>1, <2>2
<1> QED BY <1>2, <1>3, <1>4

(* No walk is endless: that is why a path leads somewhere or nowhere.      *)
LEMMA WalksEnd ==
  ASSUME child \in Children, NEW B, \A w \in Walk \ B : ~ Ended(w),
         NEW next, \A w \in Walk \ B : next[w] = Onward(w)
  PROVE  NoEndlessWay(Walk, B, next)
<1> SUFFICES ASSUME NEW S \in SUBSET (Walk \ B), S # {} PROVE \E w \in S : next[w] \notin S
  BY DEF NoEndlessWay
<1> DEFINE Fuel == {w[3] : w \in S}
<1>1. Fuel \in SUBSET Nat /\ Fuel # {}
  BY DEF Walk
<1>2. PICK f \in Fuel : \A k \in Fuel : f <= k
  <2> HIDE DEF Fuel
  <2> QED BY <1>1, Least
<1> DEFINE Left == {Len(w[2]) : w \in {v \in S : v[3] = f}}
<1>3. Left \in SUBSET Nat /\ Left # {}
  <2>1. \A w \in S : Len(w[2]) \in Nat
    BY LenProperties DEF Walk
  <2>2. {v \in S : v[3] = f} # {}
    BY <1>2
  <2> QED BY <2>1, <2>2
<1>4. PICK l \in Left : \A k \in Left : l <= k
  <2> HIDE DEF Left
  <2> QED BY <1>3, Least
<1>5. PICK w \in S : w[3] = f /\ Len(w[2]) = l
  OBVIOUS
<1>6. w \in Walk /\ ~ Ended(w) /\ next[w] = Onward(w)
  OBVIOUS
<1>7. CASE Onward(w) \notin S
  BY <1>6, <1>7
<1>8. CASE Onward(w) \in S
  <2>1. Onward(w)[3] \in Fuel
    BY <1>8
  <2>2. f <= Onward(w)[3] /\ f \in Nat /\ Onward(w)[3] \in Nat
    BY <1>1, <1>2, <2>1
  <2>3. Onward(w)[3] = f /\ Len(Onward(w)[2]) < l
    BY <1>5, <1>6, <2>2, OnwardType
  <2>4. Len(Onward(w)[2]) \in Left
    BY <1>8, <2>3
  <2>5. l <= Len(Onward(w)[2]) /\ l \in Nat /\ Len(Onward(w)[2]) \in Nat
    BY <1>3, <1>4, <2>4
  <2> QED BY <2>3, <2>5
<1> QED BY <1>7, <1>8

(* Where every walk ends.                                                  *)
Step1(end) == [w \in Walk |-> IF Ended(w) THEN EndOf(w) ELSE end[Onward(w)]]
Ends       == CHOOSE end : end = Step1(end)

(* A path leads to where the walk along it ends.                           *)
LEMMA WhereIsEnd ==
  ASSUME NEW from, NEW p
  PROVE  Where(from, p) = Ends[<<IF p.abs THEN Root ELSE from, p.names, MaxLinks>>]
BY DEF Where, Ends, Step1

(* The ends of the walks are what their definition says.                   *)
LEMMA EndsSolve ==
  ASSUME child \in Children
  PROVE  \A w \in Walk : Ends[w] = IF Ended(w) THEN EndOf(w) ELSE Ends[Onward(w)]
<1> DEFINE B == {w \in Walk : Ended(w)}
           T == Node \cup {None, Loop}
           next == [w \in Walk \ B |-> Onward(w)]
           base == [w \in B |-> EndOf(w)]
           step == [wv \in (Walk \ B) \X T |-> wv[2]]
<1>1. B \in SUBSET Walk /\ next \in [Walk \ B -> Walk]
  BY OnwardType
<1>2. base \in [B -> T] /\ step \in [(Walk \ B) \X T -> T]
  BY DEF EndOf, Walk
<1>3. NoEndlessWay(Walk, B, next)
  <2>1. \A w \in Walk \ B : ~ Ended(w) /\ next[w] = Onward(w)
    OBVIOUS
  <2> HIDE DEF B, next
  <2> QED BY <2>1, WalksEnd
<1>4. PICK g \in [Walk -> T] : Solves(g, Walk, B, next, base, step)
  <2> HIDE DEF B, next, base, step, T
  <2> QED BY <1>1, <1>2, <1>3, TypedRecursion
<1>5. g = Step1(g)
  <2>1. ASSUME NEW w \in Walk \ B PROVE step[<<w, g[next[w]]>>] = g[Onward(w)]
    <3>1. next[w] = Onward(w) /\ Onward(w) \in Walk
      BY <1>1
    <3>2. g[Onward(w)] \in T
      BY <3>1
    <3> QED BY <3>1, <3>2
  <2> QED BY <1>4, <2>1 DEF Solves, Step1
<1>6. Ends = Step1(Ends)
  BY <1>5, Zenon DEF Ends
<1> QED BY <1>6, Zenon DEF Step1

EndsRight == \A w \in Walk : Ends[w] = IF Ended(w) THEN EndOf(w) ELSE Ends[Onward(w)]

(* ... in every state that has the right type,                             *)
LEMMA EndsSolveHere == child \in Children => EndsRight
BY EndsSolve DEF EndsRight

(* also the one after a step.                                              *)
LEMMA EndsSolveNext == (child \in Children => EndsRight)'
BY EndsSolveHere, PTL
-----------------------------------------------------------------------------
(***************************************************************************)
(* The file with the new name is not in the way of any path.               *)
(***************************************************************************)
Fresh == Seq(Others \cup {DotDot})

(* A directory finds the names of others as before when a file with the    *)
(* new name is made or removed.                                            *)
OnlyCamel ==
  /\ disk' = disk
  /\ \A d \in Dir : \A n \in Name \ {Camel} : child'[d][n] = child[d][n]

AnyOf(S, n) == IF S = {} THEN n ELSE CHOOSE m \in S : TRUE

(* So every other name has the entry it had.                               *)
LEMMA EntryKept ==
  ASSUME child \in Children, (child \in Children)', OnlyCamel, NEW d \in Dir, NEW n \in Others
  PROVE  Entry(d, n)' = Entry(d, n)
<1> DEFINE there == {m \in Name : child[d][m] # None /\ Alike(m, n)}
<1>1. n \in Name /\ n # Camel /\ Lower[n] # Lower[Camel]
  BY DEF Others
<1>2. \A m : Alike(m, n)' <=> Alike(m, n)
  BY DEF Alike, OnlyCamel
<1>3. ~ Alike(Camel, n)
  BY <1>1 DEF Alike
<1>4. there' = there
  BY <1>2, <1>3 DEF OnlyCamel
<1>5. Spelled(d, n)' = Spelled(d, n)
  <2>1. Spelled(d, n) = AnyOf(there, n)
    BY DEF Spelled, AnyOf
  <2>2. Spelled(d, n)' = AnyOf(there', n)
    BY DEF Spelled, AnyOf
  <2> HIDE DEF there
  <2> QED BY <1>4, <2>1, <2>2
<1>6. Spelled(d, n) \in Name \ {Camel}
  <2>1. CASE there = {}
    BY <1>1, <2>1 DEF Spelled
  <2>2. CASE there # {}
    <3>1. (CHOOSE m \in there : TRUE) \in there
      BY <2>2
    <3>2. Spelled(d, n) \in there
      BY <2>2, <3>1 DEF Spelled
    <3> QED BY <1>3, <3>2
  <2> QED BY <2>1, <2>2
<1> QED BY <1>5, <1>6 DEF Entry, OnlyCamel

(* A walk along names of others stays with them.                           *)
LEMMA OnwardFresh ==
  ASSUME child \in Children, NEW w \in Walk, ~ Ended(w), w[2] \in Fresh
  PROVE  Onward(w)[2] \in Fresh
<1> DEFINE M == Others \cup {DotDot}
<1>1. w[1] \in Dir /\ w[2] # <<>> /\ (Head(w[2]) # DotDot => Found(w) \in Node)
  BY WalkAt
<1>2. Tail(w[2]) \in Seq(M)
  <2>1. w[2] \in Seq(M)
    BY DEF Fresh
  <2> HIDE DEF M
  <2> QED BY <1>1, <2>1, HeadTailProperties
<1>3. CASE Head(w[2]) # DotDot /\ Found(w) \in Link
  <2>1. Target[Found(w)].names \in Seq(M)
    BY <1>3, FreshAssumption
  <2>2. Target[Found(w)].names \o Tail(w[2]) \in Seq(M)
    <3> HIDE DEF M
    <3> QED BY <1>2, <2>1, ConcatProperties
  <2>3. Onward(w)[2] = Target[Found(w)].names \o Tail(w[2])
    BY <1>3 DEF Onward
  <2> QED BY <2>2, <2>3 DEF Fresh
<1>4. CASE ~ (Head(w[2]) # DotDot /\ Found(w) \in Link)
  <2>1. Onward(w)[2] = Tail(w[2])
    BY <1>4 DEF Onward
  <2> QED BY <1>2, <2>1 DEF Fresh
<1> QED BY <1>3, <1>4

(* It finds what it found.                                                 *)
LEMMA FoundKept ==
  ASSUME child \in Children, (child \in Children)', OnlyCamel, NEW w \in Walk, w[2] \in Fresh
  PROVE  /\ Ended(w)' <=> Ended(w)
         /\ Ended(w) => EndOf(w)' = EndOf(w)
         /\ ~ Ended(w) => Onward(w)' = Onward(w)
<1>1. ASSUME w[1] \in Dir, w[2] # <<>>, Head(w[2]) # DotDot PROVE Found(w)' = Found(w)
  <2> DEFINE M == Others \cup {DotDot}
  <2>1. Head(w[2]) \in M
    <3>1. w[2] \in Seq(M)
      BY DEF Fresh
    <3> HIDE DEF M
    <3> QED BY <1>1, <3>1, HeadTailProperties
  <2>2. Head(w[2]) \in Others
    BY <1>1, <2>1
  <2> QED BY <1>1, <2>2, EntryKept DEF Found
<1>2. Ended(w)' <=> Ended(w)
  BY <1>1 DEF Ended
<1>3. Ended(w) => EndOf(w)' = EndOf(w)
  BY <1>1 DEF Ended, EndOf
<1>4. ~ Ended(w) => Onward(w)' = Onward(w)
  BY <1>1 DEF Ended, Onward
<1> QED BY <1>2, <1>3, <1>4

(* So it ends where it ended.                                              *)
LEMMA EndKept ==
  ASSUME child \in Children, (child \in Children)', OnlyCamel, NEW w \in Walk, w[2] \in Fresh
  PROVE  Ends[w]' = Ends[w]
<1>1. EndsRight /\ EndsRight'
  BY EndsSolveHere, EndsSolveNext
<1> DEFINE B == {v \in Walk : Ended(v)}
           next == [v \in Walk \ B |-> Onward(v)]
           S == {v \in Walk : v[2] \in Fresh /\ Ends[v]' # Ends[v]}
<1>2. NoEndlessWay(Walk, B, next)
  <2>1. \A v \in Walk \ B : ~ Ended(v) /\ next[v] = Onward(v)
    OBVIOUS
  <2> HIDE DEF B, next
  <2> QED BY <2>1, WalksEnd
<1>3. S \in SUBSET (Walk \ B)
  <2> SUFFICES ASSUME NEW v \in Walk, v[2] \in Fresh, Ended(v) PROVE Ends[v]' = Ends[v]
    OBVIOUS
  <2>1. Ended(v)' /\ EndOf(v)' = EndOf(v)
    BY FoundKept
  <2> QED BY <1>1, <2>1 DEF EndsRight
<1>4. ASSUME NEW v \in S PROVE next[v] \in S
  <2>1. v \in Walk /\ v[2] \in Fresh /\ ~ Ended(v) /\ next[v] = Onward(v) /\ Ends[v]' # Ends[v]
    BY <1>3
  <2>2. Onward(v) \in Walk /\ Onward(v)[2] \in Fresh
    BY <2>1, OnwardType, OnwardFresh
  <2>3. ~ Ended(v)' /\ Onward(v)' = Onward(v)
    BY <2>1, FoundKept
  <2>4. Ends[v] = Ends[Onward(v)]
    BY <1>1, <2>1 DEF EndsRight
  <2>5. Ends[v]' = Ends'[Onward(v)]
    BY <1>1, <2>1, <2>3 DEF EndsRight
  <2> QED BY <2>1, <2>2, <2>4, <2>5
<1>5. S = {}
  BY <1>2, <1>3, <1>4 DEF NoEndlessWay
<1> QED BY <1>5

(* The absolute path of the probe's directory leads where it led, wherever *)
(* the working directory has gone.                                         *)
LEMMA WhereKept ==
  ASSUME child \in Children, (child \in Children)', OnlyCamel, call' = call, call.path \in Path,
         call.path.abs, call.path.names \in Fresh
  PROVE  Where(cwd, call.path)' = Where(cwd, call.path)
<1> DEFINE w == <<Root, call.path.names, MaxLinks>>
<1>1. /\ Root \in Node /\ call.path.names \in Seq(Name \cup {DotDot}) /\ MaxLinks \in Nat
  BY KindsAssumption, LinksAssumption DEF Path, Node
<1>2. w \in Walk /\ w[2] = call.path.names
  BY <1>1, WalkParts
<1>3. Ends[w]' = Ends[w]
  <2>1. ASSUME NEW v \in Walk, v[2] \in Fresh PROVE Ends'[v] = Ends[v]
    BY <2>1, EndKept
  <2>2. w' = w
    OBVIOUS
  <2> HIDE DEF w
  <2> QED BY <1>2, <2>1, <2>2
<1>4. Where(cwd, call.path) = Ends[w]
  BY WhereIsEnd
<1>5. Where(cwd, call.path)' = Ends[w]'
  BY DEF Where, Ends, Step1
<1> QED BY <1>3, <1>4, <1>5
-----------------------------------------------------------------------------
(***************************************************************************)
(* Paths whose names are of N, or "..".                                    *)
(***************************************************************************)
PathsIn(N) == [abs : BOOLEAN, names : Seq(N \cup {DotDot})]

(* They are paths when the names are those of directories.                 *)
LEMMA PathsInNames ==
  ASSUME NEW N \in SUBSET Name
  PROVE  PathsIn(N) \subseteq Path /\ PathsIn(Name) = Path /\ Nothing \notin PathsIn(N)
<1>1. Seq(N \cup {DotDot}) \subseteq Seq(Name \cup {DotDot})
  BY SeqMonotonic
<1> QED BY <1>1, NothingAssumption DEF PathsIn, Path

(* Names make an absolute path.                                            *)
LEMMA AbsoluteType ==
  ASSUME NEW N, NEW names \in Seq(N \cup {DotDot})
  PROVE  Absolute(names) \in PathsIn(N) /\ Absolute(names).abs /\ Absolute(names).names = names
BY DEF Absolute, PathsIn

(* A beginning of a path, and the rest after it.                           *)
LEMMA CutType ==
  ASSUME NEW N, NEW p \in PathsIn(N), NEW k \in 0..Len(p.names)
  PROVE  /\ Upto(p, k) \in PathsIn(N) /\ Upto(p, k).abs = p.abs
         /\ After(p, k) \in Seq(N \cup {DotDot})
         /\ Len(After(p, k)) = Len(p.names) - k
<1> DEFINE M == N \cup {DotDot}
<1>1. p.names \in Seq(M) /\ p.abs \in BOOLEAN
  BY DEF PathsIn
<1> HIDE DEF M
<1>2. Len(p.names) \in Nat /\ \A i \in 1..Len(p.names) : p.names[i] \in M
  BY <1>1, LenProperties, ElementOfSeq
<1>3. SubSeq(p.names, 1, k) \in Seq(M)
  BY <1>2, SubSeqProperties
<1>4. After(p, k) \in Seq(M) /\ Len(After(p, k)) = Len(p.names) - k
  <2>1. \A i \in (k + 1)..Len(p.names) : p.names[i] \in M
    BY <1>2
  <2>2. k + 1 \in Int /\ Len(p.names) \in Int /\ Len(p.names) - (k + 1) + 1 = Len(p.names) - k
        /\ (~ (k + 1 <= Len(p.names)) => Len(p.names) - k = 0)
    BY <1>2
  <2>3. SubSeq(p.names, k + 1, Len(p.names)) \in Seq(M)
    BY <2>1, <2>2, SubSeqProperties
  <2>4. Len(SubSeq(p.names, k + 1, Len(p.names)))
          = IF k + 1 <= Len(p.names) THEN Len(p.names) - (k + 1) + 1 ELSE 0
    BY <2>1, <2>2, SubSeqProperties
  <2> QED BY <2>2, <2>3, <2>4 DEF After
<1>5. Upto(p, k) = [p EXCEPT !.names = SubSeq(p.names, 1, k)]
  BY DEF Upto
<1>6. Upto(p, k) \in PathsIn(N) /\ Upto(p, k).abs = p.abs
  BY <1>3, <1>5 DEF PathsIn, M
<1> QED BY <1>4, <1>6 DEF M

(* A path joined to a sequence of names.                                   *)
LEMMA JoinType ==
  ASSUME NEW N, NEW s \in Seq(N \cup {DotDot}), NEW t \in Seq(N \cup {DotDot})
  PROVE  s \o t \in Seq(N \cup {DotDot})
BY ConcatProperties

(* The home directory has names of others only.                            *)
LEMMA ExpanduserType ==
  ASSUME NEW N \in SUBSET Name, Others \subseteq N, NEW p \in PathsIn(N) \cup {Nothing}
  PROVE  /\ Expanduser(p) \in PathsIn(N) \cup {Nothing}
         /\ p # Nothing => Expanduser(p) # Nothing
<1>1. CASE p # Nothing /\ ~ p.abs /\ p.names # <<>> /\ Head(p.names) = "~"
  <2> DEFINE M == N \cup {DotDot}
  <2>1. Tail(p.names) \in Seq(M)
    <3>1. p.names \in Seq(M)
      BY <1>1 DEF PathsIn
    <3> HIDE DEF M
    <3> QED BY <1>1, <3>1, HeadTailProperties
  <2>2. Home.names \in Seq(M)
    <3>1. Seq(Others) \subseteq Seq(M)
      BY SeqMonotonic
    <3> QED BY <3>1, FreshAssumption
  <2>3. Home.names \o Tail(p.names) \in Seq(M)
    <3> HIDE DEF M
    <3> QED BY <2>1, <2>2, ConcatProperties
  <2>4. Expanduser(p) = Absolute(Home.names \o Tail(p.names))
    BY <1>1 DEF Expanduser
  <2> QED BY <2>3, <2>4, AbsoluteType, PathsInNames
<1>2. CASE ~ (p # Nothing /\ ~ p.abs /\ p.names # <<>> /\ Head(p.names) = "~")
  BY <1>2 DEF Expanduser
<1> QED BY <1>1, <1>2

(* The path fs_absolute makes of the working directory is absolute.        *)
LEMMA RebasedType ==
  ASSUME NEW d \in Dir, call.path \in Path \cup {Nothing}
  PROVE  Rebased(d) \in Path /\ Rebased(d).abs
<1> DEFINE M == Name \cup {DotDot}
<1>1. PathOf(d) \in Seq(M)
  <2>1. NameOf \in [Dir -> M]
    BY DirsAssumption
  <2> QED BY <2>1, PathOfType
<1>2. (IF call.path = Nothing THEN <<>> ELSE call.path.names) \in Seq(M)
  BY EmptySeq DEF Path
<1>3. PathOf(d) \o (IF call.path = Nothing THEN <<>> ELSE call.path.names) \in Seq(M)
  BY <1>1, <1>2, JoinType
<1> QED BY <1>3, AbsoluteType, PathsInNames DEF Rebased

(* The path of the file the probe makes, in lower case, has its new name   *)
(* nowhere.                                                                *)
LEMMA LowerType ==
  ASSUME call.path \in Path
  PROVE  InLower(CamelCase) \in PathsIn(Name \ {Camel})
<1> DEFINE M == Name \cup {DotDot}
           L == (Name \ {Camel}) \cup {DotDot}
           s == Append(call.path.names, Camel)
           low == [i \in DOMAIN s |-> IF s[i] \in Name THEN Lower[s[i]] ELSE s[i]]
<1>1. call.path.abs \in BOOLEAN /\ s \in Seq(M)
  <2>1. call.path.names \in Seq(M) /\ Camel \in M /\ call.path.abs \in BOOLEAN
    BY ProbeAssumption DEF Path
  <2> HIDE DEF M
  <2> QED BY <2>1, AppendProperties
<1>2. CamelCase = [call.path EXCEPT !.names = s] /\ CamelCase.names = s /\ CamelCase.abs = call.path.abs
  BY DEF CamelCase, Path
<1> HIDE DEF s
<1>3. Len(s) \in Nat /\ DOMAIN s = 1..Len(s) /\ \A i \in 1..Len(s) : s[i] \in M
  <2> HIDE DEF M
  <2> QED BY <1>1, LenProperties, ElementOfSeq
<1>4. \A n \in Name : Lower[n] \in Name \ {Camel}
  BY NamesAssumption, FreshAssumption
<1>5. low \in [1..Len(s) -> L]
  BY <1>3, <1>4
<1>6. low \in Seq(L)
  <2> HIDE DEF low, L
  <2> QED BY <1>3, <1>5, SeqDef
<1>7. InLower(CamelCase) = [CamelCase EXCEPT !.names = low]
  BY <1>2 DEF InLower
<1>8. InLower(CamelCase) = [abs |-> call.path.abs, names |-> low]
  <2> HIDE DEF low
  <2>1. call.path = [abs |-> call.path.abs, names |-> call.path.names]
    BY DEF Path
  <2> QED BY <1>2, <1>7, <2>1
<1> QED BY <1>1, <1>6, <1>8 DEF PathsIn

(* Two paths have a longest common beginning.                              *)
LEMMA CommonBeginning ==
  ASSUME NEW M, NEW s \in Seq(M), NEW t \in Seq(M)
  PROVE  \E i \in 0..Len(s) :
           /\ i <= Len(t) /\ SubSeq(s, 1, i) = SubSeq(t, 1, i)
           /\ i < Len(s) /\ i < Len(t) => s[i + 1] # t[i + 1]
<1> DEFINE n == Len(s)
           m == Len(t)
           S == {i \in Nat : i = n \/ i = m \/ s[i + 1] # t[i + 1]}
<1>1. n \in Nat /\ m \in Nat /\ (\A i \in 1..n : s[i] \in M) /\ (\A i \in 1..m : t[i] \in M)
  BY LenProperties, ElementOfSeq
<1> HIDE DEF n, m
<1>2. S \in SUBSET Nat /\ n \in S /\ m \in S
  BY <1>1
<1>3. PICK c \in S : \A k \in S : c <= k
  <2> HIDE DEF S
  <2> QED BY <1>2, Least
<1>4. c \in Nat /\ c <= n /\ c <= m
  BY <1>1, <1>2, <1>3
<1>5. c < n /\ c < m => s[c + 1] # t[c + 1]
  BY <1>1, <1>3
<1>6. \A i \in 1..c : s[i] = t[i]
  <2> SUFFICES ASSUME NEW i \in 1..c PROVE s[i] = t[i]
    OBVIOUS
  <2>1. i - 1 \in Nat /\ i - 1 < c /\ (i - 1) + 1 = i
    BY <1>4
  <2>2. i - 1 \notin S
    BY <1>3, <1>4, <2>1
  <2> QED BY <2>1, <2>2
<1>7. SubSeq(s, 1, c) = SubSeq(t, 1, c)
  <2>1. (\A i \in 1..c : s[i] \in M) /\ (\A i \in 1..c : t[i] \in M) /\ 1 \in Int /\ c \in Int
    BY <1>1, <1>4
  <2>2. /\ SubSeq(s, 1, c) \in Seq(M) /\ SubSeq(t, 1, c) \in Seq(M)
        /\ Len(SubSeq(s, 1, c)) = IF 1 <= c THEN c - 1 + 1 ELSE 0
        /\ Len(SubSeq(t, 1, c)) = IF 1 <= c THEN c - 1 + 1 ELSE 0
        /\ \A i \in 1..c - 1 + 1 : SubSeq(s, 1, c)[i] = s[1 + i - 1]
        /\ \A i \in 1..c - 1 + 1 : SubSeq(t, 1, c)[i] = t[1 + i - 1]
    BY <2>1, SubSeqProperties
  <2>3. Len(SubSeq(s, 1, c)) = c /\ Len(SubSeq(t, 1, c)) = c
    BY <1>4, <2>2
  <2>4. \A i \in 1..c : SubSeq(s, 1, c)[i] = SubSeq(t, 1, c)[i]
    <3> SUFFICES ASSUME NEW i \in 1..c PROVE SubSeq(s, 1, c)[i] = SubSeq(t, 1, c)[i]
      OBVIOUS
    <3>1. i \in 1..c - 1 + 1 /\ 1 + i - 1 = i
      BY <1>4
    <3> QED BY <1>6, <2>2, <3>1
  <2> QED BY <2>2, <2>3, <2>4, SeqEqual
<1> QED BY <1>4, <1>5, <1>7 DEF n, m

(* What a path may have between two slashes.                               *)
Segments == Name \cup {DotDot}

(* How to get from one path to another begins where they part.             *)
Ups(n)     == [i \in 1..n |-> DotDot]
Backs(s)   == Cardinality({i \in DOMAIN s : s[i] = DotDot})
Part(p, b, k) ==
  /\ k \in 0..Len(p.names) /\ k \in 0..Len(b.names)
  /\ SubSeq(p.names, 1, k) = SubSeq(b.names, 1, k)
  /\ k < Len(p.names) /\ k < Len(b.names) => p.names[k + 1] # b.names[k + 1]
Apart(p, b, k) ==
  LET down == Len(After(b, k)) - Backs(After(b, k)) IN
  IF p.abs # b.abs \/ Backs(After(b, k)) > down THEN Nothing
  ELSE [abs |-> FALSE, names |-> Ups(down - Backs(After(b, k))) \o After(p, k)]

(* The ".." are as many as are asked for, or counted.                      *)
LEMMA UpsType ==
  ASSUME NEW n \in Nat
  PROVE  Ups(n) \in Seq(Segments) /\ Len(Ups(n)) = n /\ \A i \in 1..n : Ups(n)[i] = DotDot
<1>1. Ups(n) \in [1..n -> Segments]
  BY DEF Ups, Segments
<1>2. Ups(n) \in Seq(Segments)
  BY <1>1, SeqDef
<1>3. DOMAIN Ups(n) = 1..n /\ \A i \in 1..n : Ups(n)[i] = DotDot
  BY DEF Ups
<1> QED BY <1>2, <1>3, LenProperties

(* No ".." is counted where there is none.                                 *)
LEMMA BacksType ==
  ASSUME NEW M, NEW s \in Seq(M)
  PROVE  Len(s) \in Nat /\ Backs(s) \in Nat /\ ((\A i \in 1..Len(s) : s[i] # DotDot) => Backs(s) = 0)
<1> DEFINE S == {i \in DOMAIN s : s[i] = DotDot}
<1>1. Len(s) \in Nat /\ DOMAIN s = 1..Len(s)
  BY LenProperties
<1>2. IsFiniteSet(1..Len(s)) /\ S \subseteq 1..Len(s)
  BY <1>1, FS_Interval
<1>3. (\A i \in 1..Len(s) : s[i] # DotDot) => S = {}
  BY <1>1
<1>4. Backs(s) = Cardinality(S)
  BY DEF Backs
<1> HIDE DEF S
<1>5. IsFiniteSet(S)
  BY <1>2, FS_Subset
<1> QED BY <1>1, <1>3, <1>4, <1>5, FS_CardinalityType, FS_EmptySet

(* The paths have a longest common beginning, which is found.              *)
LEMMA RelativeIs ==
  ASSUME NEW p \in Path, NEW b \in Path
  PROVE  \E k \in Nat : Part(p, b, k) /\ LexicallyRelative(p, b) = Apart(p, b, k)
<1> DEFINE M == Name \cup {DotDot}
           C(i) == /\ i <= Len(b.names) /\ Upto(p, i).names = Upto(b, i).names
                   /\ i < Len(p.names) /\ i < Len(b.names) => p.names[i + 1] # b.names[i + 1]
           common == CHOOSE i \in 0..Len(p.names) : C(i)
<1>1. p.names \in Seq(M) /\ b.names \in Seq(M)
  BY DEF Path
<1>2. \A i : Upto(p, i).names = SubSeq(p.names, 1, i) /\ Upto(b, i).names = SubSeq(b.names, 1, i)
  BY DEF Upto, Path
<1>3. \E i \in 0..Len(p.names) : C(i)
  <2> DEFINE B(s, t, i) == /\ i <= Len(t) /\ SubSeq(s, 1, i) = SubSeq(t, 1, i)
                           /\ i < Len(s) /\ i < Len(t) => s[i + 1] # t[i + 1]
  <2>1. \E i \in 0..Len(p.names) : B(p.names, b.names, i)
    <3> HIDE DEF M
    <3> QED BY <1>1, CommonBeginning
  <2>2. PICK i \in 0..Len(p.names) : B(p.names, b.names, i)
    BY <2>1
  <2>3. C(i)
    <3>1. Upto(p, i).names = SubSeq(p.names, 1, i) /\ Upto(b, i).names = SubSeq(b.names, 1, i)
      BY <1>2
    <3> QED BY <2>2, <3>1
  <2> QED BY <2>3
<1>4. common \in 0..Len(p.names) /\ C(common)
  <2> HIDE DEF C
  <2> QED BY <1>3, Zenon
<1>5. LexicallyRelative(p, b) = Apart(p, b, common)
  BY Zenon DEF LexicallyRelative, Apart, Backs, Ups
<1> HIDE DEF common
<1>6. Len(p.names) \in Nat /\ Len(b.names) \in Nat
  <2> HIDE DEF M
  <2> QED BY <1>1, LenProperties
<1>7. /\ common <= Len(b.names) /\ SubSeq(p.names, 1, common) = SubSeq(b.names, 1, common)
      /\ common < Len(p.names) /\ common < Len(b.names) => p.names[common + 1] # b.names[common + 1]
  <2>1. Upto(p, common).names = SubSeq(p.names, 1, common)
        /\ Upto(b, common).names = SubSeq(b.names, 1, common)
    BY <1>2
  <2> QED BY <1>4, <2>1
<1>8. Part(p, b, common)
  BY <1>4, <1>6, <1>7 DEF Part
<1> QED BY <1>4, <1>5, <1>6, <1>8

(* It is a path, or nothing.                                               *)
LEMMA LexicallyRelativeType ==
  ASSUME NEW p \in Path, NEW b \in Path
  PROVE  LexicallyRelative(p, b) \in Path \cup {Nothing}
<1> DEFINE M == Name \cup {DotDot}
<1>1. PICK k \in Nat : Part(p, b, k) /\ LexicallyRelative(p, b) = Apart(p, b, k)
  BY RelativeIs
<1> DEFINE rest == After(b, k)
           back == Backs(rest)
           down == Len(rest) - back
<1>2. After(p, k) \in Seq(M) /\ rest \in Seq(M)
  BY <1>1, CutType, PathsInNames DEF Part
<1> HIDE DEF rest
<1>3. Len(rest) \in Nat /\ back \in Nat
  <2> HIDE DEF M
  <2> QED BY <1>2, BacksType
<1> HIDE DEF back
<1>4. ASSUME ~ (back > down) PROVE Ups(down - back) \o After(p, k) \in Seq(M)
  <2>1. down - back \in Nat
    BY <1>3, <1>4
  <2>2. Ups(down - back) \in Seq(M)
    BY <2>1, UpsType DEF Segments
  <2> HIDE DEF M
  <2> QED BY <1>2, <2>2, ConcatProperties
<1>5. LexicallyRelative(p, b) = IF p.abs # b.abs \/ back > down THEN Nothing
                               ELSE [abs |-> FALSE, names |-> Ups(down - back) \o After(p, k)]
  BY <1>1 DEF Apart, back, rest
<1> HIDE DEF down
<1> QED BY <1>4, <1>5 DEF Path

(* Nor do fs_relative_to and fs_proximate_to return anything else.         *)
LEMMA RelatedType ==
  ASSUME NEW p \in Path, NEW b \in Path
  PROVE  Related(p, b) \in Path \cup {Nothing}
BY LexicallyRelativeType DEF Related
-----------------------------------------------------------------------------
(***************************************************************************)
(* The invariant.  Beyond the types: what a call that canonicalizes has    *)
(* learnt of its path, and, for the probe, that none of its paths has the  *)
(* new name in it unless the file system tells how names are spelled.      *)
(***************************************************************************)
Probe   == call.op = "is_case_sensitive"
Letters == IF Probe /\ disk # "tells" THEN Name \ {Camel} ELSE Name

StateInv ==
  /\ child \in Children /\ disk \in {"sensitive", "folds", "tells"}
  /\ cwd \in Dir /\ cwds \subseteq Dir
  /\ call \in Calls
  /\ nEnv \in 0..MaxEnv /\ still \in BOOLEAN

WorkInv ==
  /\ arg \in PathsIn(Letters) \cup {Nothing} /\ known \in Nat
  /\ arg # Nothing => known <= Len(arg.names)
  /\ dest \in Seq(Letters) /\ todo \in Seq(Letters \cup {DotDot}) /\ links \in 0..MaxLinks
  /\ first \in PathsIn(Letters) \cup {Nothing} /\ answer \in Path \cup {Nothing}
  /\ yes \in BOOLEAN

(* What makes a call begin to canonicalize, and go on with it.             *)
Canonicalizes ==
  /\ call.op \notin {"get_cwd", "set_cwd"}
  /\ Relative => ~ InC
  /\ Probe => call.path # Nothing

StepInv ==
  /\ pc \in Steps
  /\ pc \in {"status", "scan", "realcwd", "real"} =>
       /\ arg # Nothing /\ Canonicalizes
       /\ call.op = "resolve" => arg.abs
  /\ pc \in {"status", "scan"} => ~ Strict \/ Relative
  /\ pc = "chdir" => call.op = "set_cwd"
  /\ pc = "getcwd" => call.op \in {"get_cwd", "resolve"}
  /\ pc \in {"touch", "remove"} => Probe /\ call.path # Nothing
  /\ Probe /\ yes /\ pc = "done" => disk = "tells"

(* The file is where the call has made it until the call takes it away.    *)
NoNew(dirs)   == \A d \in dirs : child[d][Camel] = None
Undisturbed   == Probe /\ still /\ (call.path # Nothing => call.path.abs)
FileMade(p)   == Where(cwd, p) \in Dir /\ NoNew(Dir \ {Where(cwd, p)})

ProbeInv ==
  Undisturbed =>
    IF pc \in {"realcwd", "real", "remove"} THEN FileMade(call.path) ELSE NoNew(Dir)

WalkInv == WorkInv /\ StepInv /\ Resolved
CallInv == StateInv /\ WalkInv /\ ProbeInv

(* Every name but the new one may be in a path.                            *)
LEMMA LettersType ==
  /\ Letters \in SUBSET Name /\ Others \subseteq Letters /\ (~ Probe => Letters = Name)
  /\ PathsIn(Letters) \subseteq Path /\ PathsIn(Name) = Path /\ Nothing \notin PathsIn(Letters)
<1>1. Letters \in SUBSET Name /\ Others \subseteq Letters /\ (~ Probe => Letters = Name)
  BY DEF Letters, Others, Probe
<1> QED BY <1>1, PathsInNames

(* The call stays what it is, and the disk.                                *)
Steady == disk' = disk /\ call' = call

(* What depends on the call and the disk only stays with them.             *)
LEMMA LettersKept ==
  ASSUME Steady
  PROVE  /\ Letters' = Letters /\ (Probe' <=> Probe) /\ (Strict' <=> Strict) /\ (InC' <=> InC)
         /\ Relative' <=> Relative
         /\ Canonicalizes' <=> Canonicalizes
BY DEF Steady, Letters, Probe, Strict, InC, Relative, Canonicalizes

(* An answer that Resolved allows.                                         *)
Settled(p) ==
  call.op \in {"realpath", "canonical", "resolve"} /\ (Strict \/ call.op = "resolve") =>
    p = Nothing \/ (p.abs /\ p.names \in Seq(Name))

(* Returning a path that Resolved allows keeps the invariant,              *)
LEMMA ReturnsKeeps ==
  ASSUME WorkInv, Steady, NEW p \in Path \cup {Nothing}, Returns(p), ~ Probe, Settled(p)
  PROVE  WalkInv'
<1>1. WorkInv'
  BY LettersKept DEF WorkInv, Returns, realVars
<1>2. pc' = "done" /\ answer' = p /\ call' = call
  BY DEF Returns, Goes, Steady
<1>3. StepInv'
  BY <1>2, LettersKept DEF StepInv, Steps
<1>4. Resolved'
  BY <1>2, LettersKept DEF Resolved, Settled, Done
<1> QED BY <1>1, <1>3, <1>4 DEF WalkInv

(* ... and so does saying yes or no.                                       *)
LEMMA SaysKeeps ==
  ASSUME WorkInv, Steady, NEW b \in BOOLEAN, Says(b), Probe /\ b => disk = "tells",
         call.op \notin {"realpath", "canonical", "resolve"}
  PROVE  WalkInv'
<1>1. WorkInv'
  BY LettersKept DEF WorkInv, Says, realVars
<1>2. pc' = "done" /\ yes' = b /\ call' = call /\ disk' = disk
  BY DEF Says, Goes, Steady
<1>3. StepInv'
  BY <1>2, LettersKept DEF StepInv, Steps
<1>4. Resolved'
  BY <1>2 DEF Resolved, Done
<1> QED BY <1>1, <1>3, <1>4 DEF WalkInv

(* Nothing changes but the next system call.                               *)
LEMMA GoesKeeps ==
  ASSUME WorkInv, Steady, UNCHANGED <<arg, known, realVars, first, answer, yes>>,
         pc' # "done", StepInv'
  PROVE  WalkInv'
<1>1. WorkInv'
  BY LettersKept DEF WorkInv, realVars
<1>2. Resolved'
  BY DEF Resolved, Done
<1> QED BY <1>1, <1>2 DEF WalkInv

(* realpath begins with the path, or with a beginning of it.               *)
LEMMA RealBeginsKeeps ==
  ASSUME WorkInv, Steady, NEW p \in PathsIn(Letters), RealBegins(p), Canonicalizes,
         arg' \in PathsIn(Letters), known' \in 0..Len(arg'.names),
         call.op = "resolve" => arg'.abs
  PROVE  WalkInv'
<1>1. known' \in Nat /\ known' <= Len(arg'.names)
  <2>1. arg'.names \in Seq(Letters \cup {DotDot})
    BY DEF PathsIn
  <2>2. Len(arg'.names) \in Nat
    BY <2>1, LenProperties
  <2> QED BY <2>2
<1>2. dest' = <<>> /\ todo' = p.names /\ links' = 0 /\ UNCHANGED <<first, answer, yes>>
  BY DEF RealBegins
<1>3. <<>> \in Seq(Letters) /\ p.names \in Seq(Letters \cup {DotDot}) /\ 0 \in 0..MaxLinks
  BY EmptySeq, LinksAssumption DEF PathsIn
<1>4. WorkInv'
  BY <1>1, <1>2, <1>3, LettersKept DEF WorkInv
<1>5. pc' \in {"real", "realcwd"} /\ call' = call
  BY DEF RealBegins, Goes, Steady
<1>6. arg' # Nothing
  BY LettersType
<1>7. StepInv'
  BY <1>5, <1>6, LettersKept DEF StepInv, Steps
<1>8. Resolved'
  BY <1>5 DEF Resolved, Done
<1> QED BY <1>4, <1>7, <1>8 DEF WalkInv

(* fs_canonical begins.                                                    *)
LEMMA CanonicalKeeps ==
  ASSUME WorkInv, Steady, NEW p \in PathsIn(Letters) \cup {Nothing}, Canonical(p),
         Canonicalizes, Probe => p # Nothing, p # Nothing /\ call.op = "resolve" => p.abs
  PROVE  WalkInv'
<1>1. CASE p = Nothing
  <2>1. Returns(Nothing) /\ ~ Probe /\ Settled(Nothing)
    BY <1>1 DEF Canonical, Settled
  <2> QED BY <2>1, ReturnsKeeps
<1>2. CASE p # Nothing /\ (InC \/ Strict)
  <2>1. p \in PathsIn(Letters) /\ arg' = p /\ RealBegins(p) /\ known' = Len(p.names)
    BY <1>2 DEF Canonical
  <2>2. Len(p.names) \in Nat
    <3>1. p.names \in Seq(Letters \cup {DotDot})
      BY <2>1 DEF PathsIn
    <3> QED BY <3>1, LenProperties
  <2>3. known' \in 0..Len(arg'.names)
    BY <2>1, <2>2
  <2> QED BY <1>2, <2>1, <2>3, RealBeginsKeeps
<1>3. CASE p # Nothing /\ ~ (InC \/ Strict)
  <2>1. /\ p \in PathsIn(Letters) /\ arg' = p /\ pc' = "status" /\ known' = 0
        /\ UNCHANGED <<dest, todo, links, first, answer, yes>>
    BY <1>3 DEF Canonical, Goes, realVars
  <2>2. 0 <= Len(p.names)
    <3>1. p.names \in Seq(Letters \cup {DotDot})
      BY <2>1 DEF PathsIn
    <3>2. Len(p.names) \in Nat
      BY <3>1, LenProperties
    <3> QED BY <3>2
  <2>3. WorkInv'
    BY <2>1, <2>2, LettersKept DEF WorkInv
  <2>4. StepInv'
    BY <1>3, <2>1, LettersKept DEF StepInv, Steps, Steady
  <2>5. Resolved'
    BY <2>1 DEF Resolved, Done
  <2> QED BY <2>3, <2>4, <2>5 DEF WalkInv
<1> QED BY <1>1, <1>2, <1>3

(* fs_canonical is done, and the functions that call it go on.             *)
LEMMA CanonicalizedKeeps ==
  ASSUME WorkInv, Steady, call \in Calls, NEW p \in PathsIn(Letters) \cup {Nothing},
         Canonicalized(p), Canonicalizes, Settled(p)
  PROVE  WalkInv'
<1>1. CASE Probe
  <2>1. /\ first' = p /\ pc' = "remove"
        /\ UNCHANGED <<arg, known, dest, todo, links, answer, yes>>
    <3>1. first' = p /\ Goes("remove") /\ UNCHANGED <<arg, known, realVars, answer, yes>>
      BY <1>1 DEF Canonicalized, Probe, Relative
    <3> QED BY <3>1 DEF Goes, realVars
  <2>2. WorkInv'
    BY <2>1, LettersKept DEF WorkInv
  <2>3. StepInv'
    BY <1>1, <2>1, LettersKept DEF StepInv, Steps, Canonicalizes, Steady
  <2>4. Resolved'
    BY <2>1 DEF Resolved, Done
  <2> QED BY <2>2, <2>3, <2>4 DEF WalkInv
<1>2. CASE ~ Probe /\ Relative /\ p # Nothing /\ first = Nothing
  <2>1. /\ first' = p /\ arg' = call.base /\ known' = 0 /\ pc' = "status"
        /\ UNCHANGED <<dest, todo, links, answer, yes>>
    BY <1>2 DEF Canonicalized, Probe, Goes, realVars
  <2>2. call.base \in PathsIn(Letters)
    BY <1>2, LettersType, CallsAssumption DEF Call
  <2>3. 0 <= Len(call.base.names)
    <3>1. call.base.names \in Seq(Letters \cup {DotDot})
      BY <2>2 DEF PathsIn
    <3>2. Len(call.base.names) \in Nat
      BY <3>1, LenProperties
    <3> QED BY <3>2
  <2>4. WorkInv'
    BY <2>1, <2>2, <2>3, LettersKept DEF WorkInv
  <2>5. arg' # Nothing /\ call.op # "resolve"
    BY <1>2, <2>1, <2>2, LettersType DEF Relative
  <2>6. StepInv'
    BY <1>2, <2>1, <2>5, LettersKept DEF StepInv, Steps, Steady
  <2>7. Resolved'
    BY <2>1 DEF Resolved, Done
  <2> QED BY <2>4, <2>6, <2>7 DEF WalkInv
<1>3. CASE ~ Probe /\ Relative /\ p # Nothing /\ first # Nothing
  <2>1. Returns(Related(first, p))
    BY <1>3 DEF Canonicalized, Probe
  <2>2. first \in Path /\ p \in Path
    BY <1>3, LettersType DEF WorkInv
  <2>3. Related(first, p) \in Path \cup {Nothing}
    BY <2>2, RelatedType
  <2>4. Settled(Related(first, p))
    BY <1>3 DEF Settled, Relative
  <2> QED BY <1>3, <2>1, <2>3, <2>4, ReturnsKeeps
<1>4. CASE ~ Probe /\ ~ (Relative /\ p # Nothing)
  <2>1. Returns(p)
    BY <1>4 DEF Canonicalized, Probe
  <2>2. p \in Path \cup {Nothing}
    BY LettersType
  <2> QED BY <1>4, <2>1, <2>2, ReturnsKeeps
<1> QED BY <1>1, <1>2, <1>3, <1>4
-----------------------------------------------------------------------------
(***************************************************************************)
(* One lemma per action: it keeps the part of the invariant that is about  *)
(* the work of the call.                                                   *)
(***************************************************************************)
(* The normal form of a path that the call may have.                       *)
LEMMA NormalHere ==
  ASSUME NEW p \in PathsIn(Letters)
  PROVE  /\ Normal(p) \in PathsIn(Letters) /\ Normal(p).abs = p.abs
         /\ p.abs => Normal(p).names \in Seq(Name)
<1>1. DotDot \notin Letters /\ p \in [abs : BOOLEAN, names : Seq(Letters \cup {DotDot})]
  BY LettersType, NamesAssumption DEF PathsIn
<1>2. Seq(Letters) \subseteq Seq(Name)
  BY LettersType, SeqMonotonic
<1> QED BY <1>1, <1>2, NormalType DEF PathsIn

(* A call begins with its own path, or asks for the working directory.     *)
LEMMA BeginKeeps ==
  ASSUME CallInv, Begin
  PROVE  WalkInv'
<1>1. WorkInv /\ call \in Calls /\ call \in Call /\ Steady /\ pc = "idle"
  BY CallsAssumption DEF CallInv, StateInv, WalkInv, Begin, Keeps, treeVars, Steady, Asks
<1>2. call.path \in Path \cup {Nothing} /\ call.op \in Ops
  BY <1>1 DEF Call
<1> DEFINE Same == UNCHANGED <<arg, known, realVars, first, answer, yes>>
<1>3. CASE call.op \in {"get_cwd", "set_cwd"} \/ (Probe /\ call.path # Nothing)
           \/ (call.op = "resolve" /\ ~ (call.path # Nothing /\ Expanduser(call.path).abs))
  <2>1. CASE call.op = "get_cwd"
    <3>1. Goes("getcwd") /\ Same
      BY <2>1 DEF Begin, Relative
    <3>2. StepInv' /\ pc' # "done"
      BY <2>1, <3>1, LettersKept, <1>1 DEF StepInv, Steps, Goes, Steady, Probe
    <3> QED BY <1>1, <3>1, <3>2, GoesKeeps
  <2>2. CASE call.op = "set_cwd"
    <3>1. Goes("chdir") /\ Same
      BY <2>2 DEF Begin, Relative
    <3>2. StepInv' /\ pc' # "done"
      BY <2>2, <3>1, LettersKept, <1>1 DEF StepInv, Steps, Goes, Steady, Probe
    <3> QED BY <1>1, <3>1, <3>2, GoesKeeps
  <2>3. CASE Probe /\ call.path # Nothing
    <3>1. Goes("touch") /\ Same
      BY <2>3 DEF Begin, Probe, Relative
    <3>2. StepInv' /\ pc' # "done"
      BY <2>3, <3>1, LettersKept, <1>1 DEF StepInv, Steps, Goes, Steady
    <3> QED BY <1>1, <3>1, <3>2, GoesKeeps
  <2>4. CASE call.op = "resolve" /\ ~ (call.path # Nothing /\ Expanduser(call.path).abs)
    <3>1. Goes("getcwd") /\ Same
      BY <2>4 DEF Begin, Relative
    <3>2. StepInv' /\ pc' # "done"
      BY <2>4, <3>1, LettersKept, <1>1 DEF StepInv, Steps, Goes, Steady, Probe
    <3> QED BY <1>1, <3>1, <3>2, GoesKeeps
  <2> QED BY <1>3, <2>1, <2>2, <2>3, <2>4
<1>4. CASE Probe /\ call.path = Nothing
  <2>1. Says(FALSE) /\ call.op = "is_case_sensitive"
    BY <1>4 DEF Begin, Probe, Relative
  <2> QED BY <1>1, <2>1, SaysKeeps
<1>5. CASE call.op \in {"realpath", "canonical"}
           \/ (call.op = "resolve" /\ call.path # Nothing /\ Expanduser(call.path).abs)
  <2>1. PICK p \in {call.path, Expanduser(call.path)} :
          Canonical(p) /\ (call.op = "resolve" => p.abs)
    BY <1>5 DEF Begin, Relative
  <2>2. ~ Probe /\ Canonicalizes
    BY <1>5 DEF Probe, Canonicalizes, Relative
  <2>3. PathsIn(Name) = Path /\ PathsIn(Letters) = Path /\ Others \subseteq Name
    BY <2>2, LettersType
  <2>4. p \in PathsIn(Letters) \cup {Nothing}
    BY <1>2, <2>1, <2>3, ExpanduserType
  <2> QED BY <1>1, <2>1, <2>2, <2>4, CanonicalKeeps
<1>6. CASE Relative /\ InC
  <2>1. Returns(Nothing) /\ ~ Probe /\ Settled(Nothing)
    BY <1>6 DEF Begin, Relative, Probe, Settled
  <2> QED BY <1>1, <2>1, ReturnsKeeps
<1>7. CASE Relative /\ ~ InC
  <2>1. Canonical(call.path) /\ ~ Probe /\ Canonicalizes /\ call.op # "resolve"
    BY <1>7 DEF Begin, Relative, Probe, Canonicalizes
  <2>2. call.path \in PathsIn(Letters) \cup {Nothing}
    BY <1>2, <2>1, LettersType
  <2> QED BY <1>1, <2>1, <2>2, CanonicalKeeps
<1>8. \/ call.op \in {"get_cwd", "set_cwd", "realpath", "canonical", "resolve"} \/ Probe \/ Relative
  BY <1>2 DEF Ops, Probe, Relative
<1> QED BY <1>3, <1>4, <1>5, <1>6, <1>7, <1>8

(* fs_get_cwd, and the absolute path that fs_resolve makes of it.          *)
LEMMA GetCwdKeeps ==
  ASSUME CallInv, GetCwd
  PROVE  WalkInv'
<1>1. /\ WorkInv /\ call \in Call /\ Steady /\ cwd \in Dir
      /\ call.op \in {"get_cwd", "resolve"}
  BY CallsAssumption DEF CallInv, StateInv, WalkInv, StepInv, GetCwd, Keeps, treeVars, Steady, Asks
<1>2. ~ Probe /\ call.path \in Path \cup {Nothing}
  BY <1>1 DEF Probe, Call
<1>3. CASE ~ Linked(cwd)
  BY <1>1, <1>2, <1>3, ReturnsKeeps DEF GetCwd, Settled
<1>4. CASE Linked(cwd) /\ call.op = "get_cwd"
  <2>1. PathOf(cwd) \in Seq(Name \cup {DotDot})
    <3>1. NameOf \in [Dir -> Name \cup {DotDot}]
      BY DirsAssumption
    <3> QED BY <1>1, <3>1, PathOfType
  <2>2. Absolute(PathOf(cwd)) \in Path
    BY <2>1, AbsoluteType, PathsInNames
  <2>3. Returns(Absolute(PathOf(cwd))) /\ Settled(Absolute(PathOf(cwd)))
    BY <1>4 DEF GetCwd, Settled
  <2> QED BY <1>1, <1>2, <2>2, <2>3, ReturnsKeeps
<1>5. CASE Linked(cwd) /\ call.op = "resolve"
  <2>1. Canonical(Rebased(cwd)) /\ Canonicalizes
    BY <1>5 DEF GetCwd, Canonicalizes, Relative, Probe
  <2>2. Rebased(cwd) \in Path /\ Rebased(cwd).abs
    BY <1>1, <1>2, RebasedType
  <2>3. Rebased(cwd) \in PathsIn(Letters) \cup {Nothing}
    BY <1>2, <2>2, LettersType
  <2> QED BY <1>1, <1>2, <2>1, <2>2, <2>3, CanonicalKeeps
<1> QED BY <1>1, <1>3, <1>4, <1>5

(* fs_set_cwd goes to a directory or stays.                                *)
LEMMA SetCwdKeeps ==
  ASSUME CallInv, SetCwd
  PROVE  WalkInv' /\ cwd' \in Dir
<1>1. WorkInv /\ Steady /\ cwd \in Dir /\ call.op = "set_cwd"
  BY DEF CallInv, StateInv, WalkInv, StepInv, SetCwd, treeVars, Steady, Asks
<1>2. PICK b \in BOOLEAN : Says(b)
  <2> DEFINE d == IF call.path = Nothing THEN None ELSE Where(cwd, call.path)
             b == d \in Dir
  <2>1. Says(b) /\ b \in BOOLEAN
    BY DEF SetCwd
  <2> HIDE DEF b
  <2> QED BY <2>1, Zenon
<1>3. WalkInv'
  BY <1>1, <1>2, SaysKeeps DEF Probe
<1>4. cwd' \in Dir
  <2> DEFINE d == IF call.path = Nothing THEN None ELSE Where(cwd, call.path)
  <2>1. cwd' = IF d \in Dir THEN d ELSE cwd
    BY DEF SetCwd
  <2> HIDE DEF d
  <2> QED BY <1>1, <2>1
<1> QED BY <1>3, <1>4

(* What is known at the steps of canonicalizing.                           *)
LEMMA Canonicalizing ==
  ASSUME CallInv, pc \in {"status", "scan", "realcwd", "real"}
  PROVE  /\ WorkInv /\ call \in Calls /\ Canonicalizes
         /\ arg \in PathsIn(Letters) /\ (call.op = "resolve" => arg.abs)
         /\ known \in 0..Len(arg.names) /\ Len(arg.names) \in Nat
         /\ Settled(Nothing) /\ Nothing \in PathsIn(Letters) \cup {Nothing}
<1>1. /\ WorkInv /\ call \in Calls /\ Canonicalizes /\ arg # Nothing
      /\ call.op = "resolve" => arg.abs
  BY DEF CallInv, StateInv, WalkInv, StepInv
<1>2. arg \in PathsIn(Letters) /\ known \in Nat /\ known <= Len(arg.names)
  BY <1>1 DEF WorkInv
<1>3. arg.names \in Seq(Letters \cup {DotDot})
  BY <1>2 DEF PathsIn
<1>4. Len(arg.names) \in Nat
  BY <1>3, LenProperties
<1> QED BY <1>1, <1>2, <1>4 DEF Settled

(* weakly_canonical asks for the whole path,                               *)
LEMMA StatusKeeps ==
  ASSUME CallInv, Status
  PROVE  WalkInv'
<1>1. pc = "status" /\ Steady /\ (~ Strict \/ Relative)
  BY DEF Status, Asks, Keeps, treeVars, Steady, CallInv, WalkInv, StepInv
<1>2. /\ WorkInv /\ call \in Calls /\ Canonicalizes
      /\ arg \in PathsIn(Letters) /\ (call.op = "resolve" => arg.abs)
      /\ known \in 0..Len(arg.names) /\ Len(arg.names) \in Nat
      /\ Settled(Nothing) /\ Nothing \in PathsIn(Letters) \cup {Nothing}
  BY <1>1, Canonicalizing
<1> DEFINE x == Where(cwd, arg)
<1>3. CASE x = Loop
  <2>1. Canonicalized(Nothing)
    BY <1>3, KindsAssumption DEF Status
  <2> QED BY <1>1, <1>2, <2>1, CanonicalizedKeeps
<1>4. CASE x \in Node
  <2>1. RealBegins(arg) /\ known' = Len(arg.names) /\ arg' = arg
    BY <1>4, KindsAssumption DEF Status
  <2>2. known' \in 0..Len(arg'.names)
    BY <1>2, <2>1
  <2> QED BY <1>1, <1>2, <2>1, <2>2, RealBeginsKeeps
<1>5. CASE x # Loop /\ x \notin Node
  <2>1. Goes("scan") /\ UNCHANGED <<arg, known, realVars, first, answer, yes>>
    BY <1>5 DEF Status
  <2>2. StepInv' /\ pc' # "done"
    BY <1>1, <1>2, <2>1, LettersKept, LettersType DEF StepInv, Steps, Goes, Steady
  <2> QED BY <1>1, <1>2, <2>1, <2>2, GoesKeeps
<1> QED BY <1>3, <1>4, <1>5

(* ... and for its beginnings.                                             *)
LEMMA ScanKeeps ==
  ASSUME CallInv, Scan
  PROVE  WalkInv'
<1>1. pc = "scan" /\ Steady /\ (~ Strict \/ Relative)
  BY DEF Scan, Asks, Keeps, treeVars, Steady, CallInv, WalkInv, StepInv
<1>2. /\ WorkInv /\ call \in Calls /\ Canonicalizes
      /\ arg \in PathsIn(Letters) /\ (call.op = "resolve" => arg.abs)
      /\ known \in 0..Len(arg.names) /\ Len(arg.names) \in Nat
      /\ Settled(Nothing) /\ Nothing \in PathsIn(Letters) \cup {Nothing}
  BY <1>1, Canonicalizing
<1> DEFINE x == Where(cwd, Upto(arg, known + 1))
<1>3. ASSUME ScanEnds PROVE WalkInv'
  <2>1. CASE known = 0 /\ ~ arg.abs
    <3>1. Canonicalized(Normal(arg))
      BY <1>3, <2>1 DEF ScanEnds
    <3>2. Normal(arg) \in PathsIn(Letters) \cup {Nothing}
      BY <1>2, NormalHere
    <3>3. Settled(Normal(arg))
      BY <1>1, <1>2, <2>1 DEF Settled, Relative
    <3> QED BY <1>1, <1>2, <3>1, <3>2, <3>3, CanonicalizedKeeps
  <2>2. CASE ~ (known = 0 /\ ~ arg.abs)
    <3>1. RealBegins(Upto(arg, known)) /\ arg' = arg /\ known' = known
      BY <1>3, <2>2 DEF ScanEnds
    <3>2. Upto(arg, known) \in PathsIn(Letters)
      BY <1>2, CutType
    <3> QED BY <1>1, <1>2, <3>1, <3>2, RealBeginsKeeps
  <2> QED BY <2>1, <2>2
<1>4. CASE known # Len(arg.names) /\ x = Loop
  <2>1. Canonicalized(Nothing)
    BY <1>4, KindsAssumption DEF Scan
  <2> QED BY <1>1, <1>2, <2>1, CanonicalizedKeeps
<1>5. CASE known # Len(arg.names) /\ x \in Node
  <2>1. /\ known' = known + 1 /\ pc' = "scan" /\ arg' = arg
        /\ UNCHANGED <<dest, todo, links, first, answer, yes>>
    BY <1>5, KindsAssumption DEF Scan, ScanGoesOn, Goes, realVars
  <2>2. known' \in Nat /\ known' <= Len(arg.names)
    BY <1>2, <1>5, <2>1
  <2>3. WorkInv'
    BY <1>1, <1>2, <2>1, <2>2, LettersKept DEF WorkInv
  <2>4. StepInv'
    BY <1>1, <1>2, <2>1, LettersKept, LettersType DEF StepInv, Steps, Steady
  <2>5. Resolved'
    BY <2>1 DEF Resolved, Done
  <2> QED BY <2>3, <2>4, <2>5 DEF WalkInv
<1>6. CASE known = Len(arg.names) \/ (x # Loop /\ x \notin Node)
  <2>1. ScanEnds
    BY <1>6 DEF Scan
  <2> QED BY <1>3, <2>1
<1> QED BY <1>4, <1>5, <1>6

(* When realpath fails, the normal form of the path or nothing.            *)
LEMMA RealFailsKeeps ==
  ASSUME CallInv, pc \in {"realcwd", "real"}, Steady, RealFails
  PROVE  WalkInv'
<1>1. /\ WorkInv /\ call \in Calls /\ Canonicalizes
      /\ arg \in PathsIn(Letters) /\ (call.op = "resolve" => arg.abs)
      /\ Settled(Nothing) /\ Nothing \in PathsIn(Letters) \cup {Nothing}
  BY Canonicalizing
<1>2. CASE InC /\ ~ Strict
  <2>1. Canonicalized(Normal(arg))
    BY <1>2 DEF RealFails
  <2>2. Normal(arg) \in PathsIn(Letters) \cup {Nothing} /\ Settled(Normal(arg))
    BY <1>1, <1>2, NormalHere DEF Settled
  <2> QED BY <1>1, <2>1, <2>2, CanonicalizedKeeps
<1>3. CASE ~ (InC /\ ~ Strict)
  <2>1. Canonicalized(Nothing)
    BY <1>3 DEF RealFails
  <2> QED BY <1>1, <2>1, CanonicalizedKeeps
<1> QED BY <1>2, <1>3

(* realpath asks for the working directory,                                *)
LEMMA RealCwdKeeps ==
  ASSUME CallInv, RealCwd
  PROVE  WalkInv'
<1>1. pc = "realcwd" /\ Steady /\ cwd \in Dir
  BY DEF RealCwd, Asks, Keeps, treeVars, Steady, CallInv, StateInv
<1>2. CASE Linked(cwd)
  <2>1. /\ dest' = PathOf(cwd) /\ pc' = "real"
        /\ UNCHANGED <<arg, known, todo, links, first, answer, yes>>
    BY <1>2 DEF RealCwd, Goes
  <2>2. PathOf(cwd) \in Seq(Letters)
    <3>1. NameOf \in [Dir -> Letters]
      BY FreshAssumption, LettersType
    <3> QED BY <1>1, <3>1, PathOfType
  <2>3. WorkInv /\ StepInv
    BY DEF CallInv, WalkInv
  <2>4. WorkInv'
    BY <1>1, <2>1, <2>2, <2>3, LettersKept DEF WorkInv
  <2>5. StepInv'
    BY <1>1, <2>1, <2>3, LettersKept DEF StepInv, Steps, Steady
  <2>6. Resolved'
    BY <2>1 DEF Resolved, Done
  <2> QED BY <2>4, <2>5, <2>6 DEF WalkInv
<1>3. CASE ~ Linked(cwd)
  <2>1. RealFails
    BY <1>3 DEF RealCwd
  <2> QED BY <1>1, <2>1, RealFailsKeeps
<1> QED BY <1>2, <1>3

(* realpath goes on: with other names resolved, and to resolve.            *)
LEMMA RealGoesKeeps ==
  ASSUME CallInv, pc = "real", Steady, pc' = "real",
         UNCHANGED <<arg, known, first, answer, yes>>,
         dest' \in Seq(Letters), todo' \in Seq(Letters \cup {DotDot}), links' \in 0..MaxLinks
  PROVE  WalkInv'
<1>1. WorkInv /\ StepInv
  BY DEF CallInv, WalkInv
<1>2. WorkInv'
  BY <1>1, LettersKept DEF WorkInv
<1>3. StepInv'
  BY <1>1, LettersKept DEF StepInv, Steps, Steady
<1>4. Resolved'
  BY DEF Resolved, Done
<1> QED BY <1>2, <1>3, <1>4 DEF WalkInv

(* ... and walks along the path.                                           *)
LEMMA RealKeeps ==
  ASSUME CallInv, Real
  PROVE  WalkInv'
<1> DEFINE M == Letters \cup {DotDot}
<1>1. pc = "real" /\ Steady /\ (RealEnds \/ RealBack \/ RealName)
  BY DEF Real, Asks, Keeps, treeVars, Steady
<1>2. /\ WorkInv /\ call \in Calls /\ Canonicalizes /\ child \in Children
      /\ arg \in PathsIn(Letters) /\ known \in 0..Len(arg.names)
  BY <1>1, Canonicalizing DEF CallInv, StateInv
<1>3. dest \in Seq(Letters) /\ todo \in Seq(M) /\ links \in 0..MaxLinks
  BY <1>2 DEF WorkInv
<1>4. todo # <<>> => Head(todo) \in M /\ Tail(todo) \in Seq(M)
  <2> HIDE DEF M
  <2> QED BY <1>3, HeadTailProperties
<1>5. CASE RealEnds
  <2> DEFINE p == Absolute(dest \o After(arg, known))
  <2>1. Canonicalized(Normal(p))
    BY <1>5 DEF RealEnds
  <2>2. dest \in Seq(M) /\ After(arg, known) \in Seq(M)
    <3>1. Seq(Letters) \subseteq Seq(M)
      BY SeqMonotonic
    <3> QED BY <1>2, <1>3, <3>1, CutType
  <2>3. p \in PathsIn(Letters) /\ p.abs
    BY <2>2, JoinType, AbsoluteType
  <2> HIDE DEF p
  <2>4. Normal(p) \in PathsIn(Letters) \cup {Nothing} /\ Settled(Normal(p))
    BY <2>3, NormalHere DEF Settled
  <2> QED BY <1>1, <1>2, <2>1, <2>4, CanonicalizedKeeps
<1>6. CASE RealBack
  <2>1. /\ dest' = IF dest = <<>> THEN <<>> ELSE Front(dest)
        /\ todo' = Tail(todo) /\ todo # <<>> /\ pc' = "real"
        /\ UNCHANGED <<arg, known, links, first, answer, yes>>
    BY <1>6 DEF RealBack, Goes
  <2>2. dest' \in Seq(Letters)
    BY <1>3, <2>1, FrontType
  <2> QED BY <1>1, <1>3, <1>4, <2>1, <2>2, RealGoesKeeps
<1>7. CASE RealName
  <2> DEFINE d == Where(Root, Absolute(dest))
             x == IF d \in Dir THEN Entry(d, Head(todo)) ELSE None
             found == IF disk = "tells" THEN Spelled(d, Head(todo)) ELSE Head(todo)
  <2>1. todo # <<>> /\ Head(todo) # DotDot
    BY <1>7 DEF RealName
  <2>2. Head(todo) \in Letters /\ Head(todo) \in Name
    BY <1>4, <2>1, LettersType
  <2>3. CASE x \in Link /\ MayFollow
    <3>1. Follows(x)
      BY <1>7, <2>3 DEF RealName
    <3> HIDE DEF x
    <3>2. Target[x].names \in Seq(M)
      <4>1. Seq(Others \cup {DotDot}) \subseteq Seq(M)
        BY LettersType, SeqMonotonic
      <4> QED BY <2>3, <4>1, FreshAssumption
    <3>3. Target[x].names \o Tail(todo) \in Seq(M)
      <4> HIDE DEF M
      <4> QED BY <1>4, <2>1, <3>2, ConcatProperties
    <3>4. dest' \in Seq(Letters)
      BY <1>3, <3>1, EmptySeq DEF Follows
    <3>5. links' \in 0..MaxLinks
      BY <1>3, <2>3, <3>1, LinksAssumption DEF Follows, MayFollow
    <3>6. /\ todo' = Target[x].names \o Tail(todo) /\ pc' = "real"
          /\ UNCHANGED <<arg, known, first, answer, yes>>
      BY <3>1 DEF Follows, Goes
    <3> QED BY <1>1, <3>3, <3>4, <3>5, <3>6, RealGoesKeeps
  <2>4. CASE ~ (x \in Link /\ MayFollow) /\ (x \in Dir \/ (x \in File /\ Tail(todo) = <<>>))
    <3>1. /\ dest' = Append(dest, found) /\ todo' = Tail(todo) /\ pc' = "real"
          /\ UNCHANGED <<arg, known, links, first, answer, yes>>
      BY <1>7, <2>4 DEF RealName, Goes
    <3>2. d \in Dir
      BY <2>4, KindsAssumption DEF Node
    <3>3. found \in Letters
      <4> HIDE DEF d
      <4>1. Spelled(d, Head(todo)) \in Name
        BY <1>2, <2>2, <3>2, EntryType
      <4> QED BY <2>2, <4>1 DEF Letters
    <3> HIDE DEF found
    <3>4. dest' \in Seq(Letters)
      BY <1>3, <3>1, <3>3, AppendProperties
    <3> QED BY <1>1, <1>3, <1>4, <2>1, <3>1, <3>4, RealGoesKeeps
  <2>5. CASE ~ (x \in Link /\ MayFollow) /\ ~ (x \in Dir \/ (x \in File /\ Tail(todo) = <<>>))
    <3>1. RealFails
      BY <1>7, <2>5 DEF RealName
    <3> QED BY <1>1, <3>1, RealFailsKeeps
  <2> QED BY <2>3, <2>4, <2>5
<1> QED BY <1>1, <1>5, <1>6, <1>7

(* The probe's path in lower case is not that of its file.                 *)
LEMMA TouchKeeps ==
  ASSUME CallInv, Touch
  PROVE  WalkInv'
<1>1. WorkInv /\ call \in Call /\ pc = "touch" /\ Probe /\ call.path \in Path
  <2>1. WorkInv /\ call \in Call /\ pc = "touch" /\ Probe /\ call.path # Nothing
    BY CallsAssumption DEF CallInv, StateInv, WalkInv, StepInv, Touch, Asks
  <2> QED BY <2>1 DEF Call
<1>2. Steady
  BY DEF Touch, Puts, treeVars, Steady
<1> DEFINE d == Where(cwd, call.path)
<1>3. CASE d \in Writable
  <2>1. Canonical(Expanduser(InLower(CamelCase)))
    BY <1>3 DEF Touch
  <2>2. InLower(CamelCase) \in PathsIn(Letters)
    <3>1. InLower(CamelCase) \in PathsIn(Name \ {Camel})
      BY <1>1, LowerType
    <3>2. Name \ {Camel} \subseteq Letters
      BY DEF Letters
    <3>3. Seq((Name \ {Camel}) \cup {DotDot}) \subseteq Seq(Letters \cup {DotDot})
      BY <3>2, SeqMonotonic
    <3> QED BY <3>1, <3>3 DEF PathsIn
  <2>3. /\ Expanduser(InLower(CamelCase)) \in PathsIn(Letters) \cup {Nothing}
        /\ Expanduser(InLower(CamelCase)) # Nothing
    BY <2>2, LettersType, ExpanduserType
  <2>4. Canonicalizes /\ call.op # "resolve"
    BY <1>1, NothingAssumption DEF Canonicalizes, Probe, Relative
  <2> QED BY <1>1, <1>2, <2>1, <2>3, <2>4, CanonicalKeeps
<1>4. CASE d \notin Writable
  <2>1. Says(FALSE)
    BY <1>4 DEF Touch
  <2> QED BY <1>1, <1>2, <2>1, SaysKeeps DEF Probe
<1> QED BY <1>3, <1>4

(* A path in which the new name is nowhere is not that of the file.        *)
LEMMA TakeAwayKeeps ==
  ASSUME CallInv, TakeAway
  PROVE  WalkInv'
<1>1. WorkInv /\ call \in Call /\ pc = "remove" /\ Probe /\ call.path \in Path
  <2>1. WorkInv /\ call \in Call /\ pc = "remove" /\ Probe /\ call.path # Nothing
    BY CallsAssumption DEF CallInv, StateInv, WalkInv, StepInv, TakeAway, Asks
  <2> QED BY <2>1 DEF Call
<1>2. Steady
  BY DEF TakeAway, Removes, Puts, treeVars, Steady
<1> DEFINE b == first = CamelCase
<1>3. b \in BOOLEAN /\ Says(b)
  BY DEF TakeAway
<1>4. ASSUME b, disk # "tells" PROVE FALSE
  <2>1. Letters = Name \ {Camel} /\ Camel # DotDot
    BY <1>1, <1>4, NamesAssumption, ProbeAssumption DEF Letters
  <2> DEFINE M == Name \cup {DotDot}
             s == call.path.names
             n == Len(s) + 1
  <2>2. s \in Seq(M) /\ Camel \in M
    BY <1>1, ProbeAssumption DEF Path
  <2>3. CamelCase.names = Append(s, Camel) /\ CamelCase \in PathsIn(Name)
    <3>1. CamelCase = [call.path EXCEPT !.names = Append(s, Camel)]
      BY DEF CamelCase
    <3>2. Append(s, Camel) \in Seq(M)
      <4> HIDE DEF M
      <4> QED BY <2>2, AppendProperties
    <3> QED BY <1>1, <3>1, <3>2 DEF Path, PathsIn
  <2> HIDE DEF s
  <2>4. /\ n \in 1..Len(Append(s, Camel)) /\ Append(s, Camel)[n] = Camel
    <3> HIDE DEF M
    <3>1. Len(s) \in Nat
      BY <2>2, LenProperties
    <3> QED BY <2>2, <3>1, AppendProperties
  <2> HIDE DEF n
  <2>5. first \in PathsIn(Letters)
    BY <1>1, <1>4, <2>3, PathsInNames DEF WorkInv
  <2>6. Append(s, Camel) \in Seq(Letters \cup {DotDot})
    BY <1>4, <2>3, <2>5 DEF PathsIn
  <2>7. Camel \in Letters \cup {DotDot}
    BY <2>4, <2>6, ElementOfSeq
  <2> QED BY <2>1, <2>7
<1>5. call.op \notin {"realpath", "canonical", "resolve"}
  BY <1>1 DEF Probe
<1> HIDE DEF b
<1> QED BY <1>1, <1>2, <1>3, <1>4, <1>5, SaysKeeps

(* Any step of the call.                                                   *)
LEMMA StepKeeps ==
  ASSUME CallInv, Step
  PROVE  WalkInv'
<1>1. \/ Begin \/ GetCwd \/ SetCwd \/ Status \/ Scan \/ RealCwd \/ Real \/ Touch \/ TakeAway
  BY DEF Step, ResolveStep, ProbeStep
<1> QED
  BY <1>1, BeginKeeps, GetCwdKeeps, SetCwdKeeps, StatusKeeps, ScanKeeps, RealCwdKeeps, RealKeeps,
     TouchKeeps, TakeAwayKeeps

(* Another name in a directory.                                            *)
LEMMA PutsType ==
  ASSUME child \in Children, NEW d \in Dir, NEW n \in Name, NEW x \in Node \cup {None},
         Puts(d, n, x)
  PROVE  /\ child' \in Children /\ disk' = disk /\ child'[d][n] = x
         /\ \A e \in Dir, m \in Name : <<e, m>> # <<d, n>> => child'[e][m] = child[e][m]
BY DEF Children, Puts

(* The part of the invariant that is about the process and the tree.       *)
LEMMA StateKept ==
  ASSUME CallInv, Next
  PROVE  StateInv'
<1>1. /\ child \in Children /\ cwd \in Dir /\ cwds \subseteq Dir /\ call \in Calls
      /\ disk \in {"sensitive", "folds", "tells"} /\ nEnv \in 0..MaxEnv /\ still \in BOOLEAN
  BY DEF CallInv, StateInv
<1>2. CASE Step
  <2>1. nEnv' = nEnv /\ still' = still /\ cwds' = cwds \cup {cwd, cwd'}
    BY <1>2 DEF Step
  <2>2. CASE SetCwd
    <3>1. cwd' \in Dir /\ child' = child /\ disk' = disk /\ call' = call
      BY <2>2, SetCwdKeeps DEF SetCwd, treeVars
    <3> QED BY <1>1, <2>1, <3>1 DEF StateInv
  <2>3. CASE Touch \/ TakeAway
    <3>1. cwd' = cwd /\ call' = call
      BY <2>3 DEF Touch, TakeAway
    <3>2. PICK d, x : /\ UNCHANGED treeVars \/ (d \in Dir /\ x \in Node \cup {None} /\ Puts(d, Camel, x))
      BY <2>3, ProbeAssumption DEF Touch, TakeAway, Removes, Node
    <3>3. child' \in Children /\ disk' = disk
      BY <1>1, <3>2, PutsType, ProbeAssumption DEF treeVars
    <3> QED BY <1>1, <2>1, <3>1, <3>3 DEF StateInv
  <2>4. CASE Begin \/ GetCwd \/ Status \/ Scan \/ RealCwd \/ Real
    <3>1. child' = child /\ disk' = disk /\ cwd' = cwd /\ call' = call
      BY <2>4 DEF Begin, GetCwd, Status, Scan, RealCwd, Real, Keeps, treeVars
    <3> QED BY <1>1, <2>1, <3>1 DEF StateInv
  <2> QED BY <1>2, <2>2, <2>3, <2>4 DEF Step, ResolveStep, ProbeStep
<1>3. CASE Env
  <2>1. call' = call /\ nEnv' \in 0..MaxEnv
    BY <1>1, <1>3, EnvAssumption DEF Env, callVars
  <2>2. CASE EnvChdir
    <3>1. child' = child /\ disk' = disk /\ still' = still
      BY <2>2 DEF EnvChdir, treeVars
    <3>2. cwd' \in Dir /\ cwds' \subseteq Dir
      BY <1>1, <2>2, EnvAssumption DEF EnvChdir
    <3> QED BY <1>1, <2>1, <3>1, <3>2 DEF StateInv
  <2>3. CASE EnvPut
    <3>1. PICK c \in Changes : Puts(c[1], c[2], c[3])
      BY <2>3 DEF EnvPut
    <3>2. c[1] \in Dir /\ c[2] \in Name /\ c[3] \in Node \cup {None}
      BY ChangesAssumption
    <3>3. child' \in Children /\ disk' = disk
      BY <1>1, <3>1, <3>2, PutsType
    <3>4. cwd' = cwd /\ cwds' = cwds /\ still' = FALSE
      BY <2>3 DEF EnvPut
    <3> QED BY <1>1, <2>1, <3>3, <3>4 DEF StateInv
  <2> QED BY <1>3, <2>2, <2>3 DEF Env
<1> QED BY <1>2, <1>3 DEF Next

(* The work of the call is not touched by others.                          *)
LEMMA SteadyKeeps ==
  ASSUME CallInv, UNCHANGED callVars, disk' = disk
  PROVE  WalkInv'
<1>1. Steady
  BY DEF Steady, callVars
<1>2. WorkInv /\ StepInv /\ Resolved
  BY DEF CallInv, WalkInv
<1>3. /\ arg' = arg /\ known' = known /\ dest' = dest /\ todo' = todo /\ links' = links
      /\ first' = first /\ answer' = answer /\ yes' = yes /\ pc' = pc /\ call' = call
  BY DEF callVars
<1>4. WorkInv'
  BY <1>1, <1>2, <1>3, LettersKept DEF WorkInv
<1>5. StepInv'
  BY <1>1, <1>2, <1>3, LettersKept DEF StepInv
<1>6. Resolved'
  BY <1>1, <1>2, <1>3, LettersKept DEF Resolved, Done
<1> QED BY <1>4, <1>5, <1>6 DEF WalkInv

(* ... nor by the steps of others.                                         *)
LEMMA EnvKeeps ==
  ASSUME CallInv, Env
  PROVE  WalkInv'
<1>1. UNCHANGED callVars /\ disk' = disk
  BY DEF Env, EnvChdir, EnvPut, Puts, treeVars
<1> QED BY <1>1, SteadyKeeps

(* The file that the probe has made stays the only one, and where it is.   *)
LEMMA ProbeKept ==
  ASSUME CallInv, StateInv', WalkInv', Next
  PROVE  ProbeInv'
<1> SUFFICES ASSUME Undisturbed'
             PROVE  (IF pc \in {"realcwd", "real", "remove"} THEN FileMade(call.path) ELSE NoNew(Dir))'
  BY DEF ProbeInv
<1>1. call' = call /\ still' = still
  <2>1. CASE Step
    BY <2>1 DEF Step, ResolveStep, ProbeStep, Begin, GetCwd, SetCwd, Status, Scan, RealCwd, Real,
                Touch, TakeAway, Keeps
  <2>2. CASE EnvChdir /\ UNCHANGED callVars
    BY <2>2 DEF EnvChdir, callVars
  <2>3. CASE EnvPut
    BY <2>3 DEF EnvPut, Undisturbed
  <2> QED BY <2>1, <2>2, <2>3 DEF Next, Env
<1>2. Probe /\ still /\ (call.path # Nothing => call.path.abs)
  BY <1>1 DEF Undisturbed, Probe
<1>3. IF pc \in {"realcwd", "real", "remove"} THEN FileMade(call.path) ELSE NoNew(Dir)
  BY <1>2 DEF CallInv, ProbeInv, Undisturbed
<1>4. /\ child \in Children /\ (child \in Children)' /\ call \in Calls /\ call \in Call
      /\ StepInv /\ StepInv'
  BY CallsAssumption DEF CallInv, StateInv, WalkInv
<1>5. call.path # Nothing => call.path \in Path /\ call.path.abs /\ call.path.names \in Fresh
  BY <1>2, <1>4, NewNameAssumption DEF Call, Fresh, Probe
<1>6. ASSUME call.path # Nothing, OnlyCamel
      PROVE  Where(cwd, call.path)' = Where(cwd, call.path)
  BY <1>1, <1>4, <1>5, <1>6, WhereKept
<1>7. CASE Begin
  <2>1. child' = child /\ pc = "idle" /\ pc' \in {"touch", "done"}
    BY <1>2, <1>7 DEF Begin, Keeps, treeVars, Asks, Probe, Says, Goes, Relative
  <2> QED BY <1>3, <2>1 DEF NoNew
<1>8. CASE GetCwd \/ SetCwd \/ Status \/ Scan
  <2>1. pc \in {"getcwd", "chdir", "status", "scan"}
    BY <1>8 DEF GetCwd, SetCwd, Status, Scan, Asks
  <2> QED BY <1>2, <1>4, <2>1 DEF StepInv, Probe, Strict, Relative
<1>9. CASE RealCwd \/ Real \/ (EnvChdir /\ UNCHANGED callVars)
  <2>1. child' = child /\ disk' = disk
    BY <1>9 DEF RealCwd, Real, Keeps, treeVars, EnvChdir
  <2>2. OnlyCamel
    BY <2>1 DEF OnlyCamel
  <2>3. ASSUME pc \notin {"realcwd", "real", "remove"} PROVE pc' = pc
    BY <1>9, <2>3 DEF RealCwd, Real, Asks, callVars
  <2>4. ASSUME pc \in {"realcwd", "real"} PROVE pc' \in {"realcwd", "real", "remove"}
    <3>1. \A p : Canonicalized(p) => pc' = "remove"
      BY <1>2 DEF Canonicalized, Probe, Relative, Goes
    <3> QED BY <1>9, <2>4, <3>1 DEF RealCwd, Real, RealEnds, RealBack, RealName, RealFails, Follows,
                                    Goes, callVars
  <2>5. pc = "remove" => pc' = "remove"
    BY <1>9 DEF RealCwd, Real, Asks, callVars
  <2>6. CASE pc \in {"realcwd", "real", "remove"}
    <3>1. call.path # Nothing
      BY <1>2, <1>4, <2>6 DEF StepInv, Canonicalizes
    <3>2. FileMade(call.path)'
      BY <1>3, <1>6, <2>1, <2>2, <2>6, <3>1 DEF FileMade, NoNew
    <3> QED BY <2>4, <2>5, <2>6, <3>2
  <2>7. CASE pc \notin {"realcwd", "real", "remove"}
    BY <1>3, <2>1, <2>3, <2>7 DEF NoNew
  <2> QED BY <2>6, <2>7
<1>10. CASE Touch
  <2> DEFINE d == Where(cwd, call.path)
  <2>1. pc = "touch" /\ call.path # Nothing /\ NoNew(Dir)
    BY <1>3, <1>4, <1>10 DEF Touch, Asks, StepInv
  <2>2. CASE d \in Writable
    <3>1. d \in Dir /\ Puts(d, Camel, Temp) /\ Canonical(Expanduser(InLower(CamelCase)))
      BY <1>10, <2>2, ProbeAssumption DEF Touch
    <3> HIDE DEF d
    <3>2. \A e \in Dir, m \in Name : <<e, m>> # <<d, Camel>> => child'[e][m] = child[e][m]
      BY <1>4, <3>1, PutsType, ProbeAssumption DEF Node
    <3>3. OnlyCamel
      BY <3>1, <3>2 DEF OnlyCamel, Puts
    <3>4. Where(cwd, call.path)' = d
      BY <1>6, <2>1, <3>3 DEF d
    <3>5. FileMade(call.path)'
      <4>1. \A e \in Dir \ {d} : child'[e][Camel] = None
        BY <2>1, <3>2, ProbeAssumption DEF NoNew
      <4> QED BY <1>1, <3>1, <3>4, <4>1 DEF FileMade, NoNew
    <3>6. pc' \in {"realcwd", "real"}
      <4>1. Expanduser(InLower(CamelCase)) # Nothing
        <5>1. InLower(CamelCase) \in PathsIn(Name)
          <6>1. InLower(CamelCase) \in PathsIn(Name \ {Camel})
            BY <1>5, <2>1, LowerType
          <6>2. Seq((Name \ {Camel}) \cup {DotDot}) \subseteq Seq(Name \cup {DotDot})
            BY SeqMonotonic
          <6> QED BY <6>1, <6>2 DEF PathsIn
        <5>2. InLower(CamelCase) # Nothing /\ Others \subseteq Name
          BY <5>1, PathsInNames DEF Others
        <5> QED BY <5>1, <5>2, ExpanduserType
      <4> QED BY <1>2, <3>1, <4>1 DEF Canonical, RealBegins, Goes, Strict, Probe
    <3> QED BY <3>5, <3>6
  <2>3. CASE d \notin Writable
    <3>1. child' = child /\ pc' = "done"
      BY <1>10, <2>3 DEF Touch, Says, Goes, treeVars
    <3> QED BY <2>1, <3>1 DEF NoNew
  <2> QED BY <2>2, <2>3
<1>11. CASE TakeAway
  <2> DEFINE d == Where(cwd, call.path)
  <2>1. pc = "remove" /\ Removes(d) /\ pc' = "done" /\ FileMade(call.path)
    BY <1>3, <1>11 DEF TakeAway, Asks, Says, Goes
  <2>2. d \in Dir /\ NoNew(Dir \ {d})
    BY <2>1 DEF FileMade
  <2> HIDE DEF d
  <2>3. CASE child[d][Camel] # None
    <3>1. Puts(d, Camel, None)
      BY <2>1, <2>2, <2>3 DEF Removes
    <3>2. /\ child'[d][Camel] = None
          /\ \A e \in Dir, m \in Name : <<e, m>> # <<d, Camel>> => child'[e][m] = child[e][m]
      BY <1>4, <2>2, <3>1, PutsType, ProbeAssumption
    <3>3. \A e \in Dir : child'[e][Camel] = None
      BY <2>2, <3>2, ProbeAssumption DEF NoNew
    <3> QED BY <2>1, <3>3 DEF NoNew
  <2>4. CASE child[d][Camel] = None
    <3>1. child' = child
      BY <2>1, <2>4 DEF Removes, treeVars
    <3> QED BY <2>1, <2>2, <2>4, <3>1 DEF NoNew
  <2> QED BY <2>3, <2>4
<1>12. ~ EnvPut
  BY <1>1, <1>2 DEF EnvPut
<1> QED BY <1>7, <1>8, <1>9, <1>10, <1>11, <1>12 DEF Next, Env, Step, ResolveStep, ProbeStep
-----------------------------------------------------------------------------
(* The invariant holds when the call begins,                               *)
LEMMA InitCallInv == Init => CallInv
<1> SUFFICES ASSUME Init PROVE CallInv
  OBVIOUS
<1>1. /\ call \in Calls /\ pc = "idle" /\ arg = Nothing /\ known = 0
      /\ dest = <<>> /\ todo = <<>> /\ links = 0 /\ first = Nothing /\ answer = Nothing
      /\ yes = FALSE /\ nEnv = 0 /\ cwds = {} /\ still = TRUE
  BY DEF Init
<1>2. PICK t \in Trees : child = t.child /\ disk = t.disk /\ cwd = t.cwd
  BY DEF Init
<1>3. child \in Children /\ disk \in {"sensitive", "folds", "tells"} /\ cwd \in Dir
  BY <1>2, TreesAssumption DEF Tree, Children
<1>4. NoNew(Dir)
  BY <1>2, NewNameAssumption DEF NoNew
<1>5. StateInv
  BY <1>1, <1>3, EnvAssumption DEF StateInv
<1>6. WorkInv
  <2>1. <<>> \in Seq(Letters) /\ <<>> \in Seq(Letters \cup {DotDot}) /\ 0 \in 0..MaxLinks
    BY EmptySeq, LinksAssumption
  <2> QED BY <1>1, <2>1 DEF WorkInv
<1>7. StepInv /\ Resolved
  BY <1>1 DEF StepInv, Resolved, Done, Steps
<1>8. ProbeInv
  BY <1>1, <1>4 DEF ProbeInv
<1> QED BY <1>5, <1>6, <1>7, <1>8 DEF CallInv, WalkInv

(* ... and every step keeps it, those of others too.                       *)
LEMMA NextCallInv == CallInv /\ [Next]_vars => CallInv'
<1>1. ASSUME CallInv, Next PROVE CallInv'
  <2>1. WalkInv' /\ StateInv'
    BY <1>1, StepKeeps, EnvKeeps, StateKept DEF Next
  <2> QED BY <1>1, <2>1, ProbeKept DEF CallInv
<1>2. ASSUME CallInv, UNCHANGED vars PROVE CallInv'
  <2>1. child' = child /\ disk' = disk /\ cwd' = cwd /\ UNCHANGED callVars /\ UNCHANGED <<nEnv, cwds, still>>
    BY <1>2 DEF vars
  <2>2. StateInv'
    BY <1>2, <2>1 DEF CallInv, StateInv, callVars
  <2>3. WalkInv'
    BY <1>2, <2>1, SteadyKeeps DEF CallInv
  <2>4. call' = call /\ pc' = pc
    BY <2>1 DEF callVars
  <2>5. Where(cwd, call.path)' = Where(cwd, call.path)
    BY <2>1, <2>4 DEF Where, Ended, EndOf, Onward, Found, Entry, Spelled, Alike
  <2>6. ProbeInv'
    BY <1>2, <2>1, <2>4, <2>5 DEF CallInv, ProbeInv, Undisturbed, Probe, FileMade, NoNew
  <2> QED BY <2>2, <2>3, <2>6 DEF CallInv
<1> QED BY <1>1, <1>2

(* The invariant holds in every behaviour: for every tree, every call and  *)
(* whatever other threads and programs do.                                 *)
THEOREM CallInvariant == Spec => []CallInv
<1>1. Init => CallInv
  BY InitCallInv
<1>2. CallInv /\ [Next]_vars => CallInv'
  BY NextCallInv
<1> QED BY <1>1, <1>2, PTL DEF Spec

(* The variables have their types: realpath(3) as the kernel walks it      *)
(* keeps neither ".." nor anything that is not a name (resolve.cpp:121).   *)
THEOREM TypesHold == Spec => []TypeOK
<1>1. CallInv => TypeOK
  <2> SUFFICES ASSUME CallInv PROVE TypeOK
    OBVIOUS
  <2>1. StateInv /\ WorkInv /\ pc \in Steps
    BY DEF CallInv, WalkInv, StepInv
  <2>2. Seq(Letters) \subseteq Seq(Name) /\ Seq(Letters \cup {DotDot}) \subseteq Seq(Name \cup {DotDot})
    BY LettersType, SeqMonotonic
  <2>3. arg \in Path \cup {Nothing} /\ first \in Path \cup {Nothing}
    BY <2>1, LettersType DEF WorkInv
  <2>4. arg \in Path => known <= Len(arg.names)
    BY <2>1, NothingAssumption DEF WorkInv
  <2> QED BY <2>1, <2>2, <2>3, <2>4 DEF StateInv, WorkInv, TypeOK, Children
<1> QED BY <1>1, CallInvariant, PTL

(* fs_realpath, fs_canonical of a path that has to exist, and fs_resolve   *)
(* return nothing or an absolute path without "..", whatever other         *)
(* programs do to the tree meanwhile.                                      *)
THEOREM AnswersAreResolved == Spec => []Resolved
<1>1. CallInv => Resolved
  BY DEF CallInv, WalkInv
<1> QED BY <1>1, CallInvariant, PTL

(* fs_is_case_sensitive leaves no file behind in a directory named by an   *)
(* absolute path, wherever other threads take the working directory, and   *)
(* it says yes only where the file system tells how names are spelled.     *)
THEOREM ProbeLeavesNothing == Spec => []ProbeHolds
<1>1. CallInv => ProbeHolds
  BY DEF CallInv, WalkInv, StepInv, ProbeInv, ProbeHolds, Undisturbed, NoNew, Probe, Done
<1> QED BY <1>1, CallInvariant, PTL

-----------------------------------------------------------------------------
(***************************************************************************)
(* Walks along two paths in a row, and the place of a directory.           *)
(***************************************************************************)
(* What is found under a name is found under every name that is alike.     *)
LEMMA FoundSpelled ==
  ASSUME child \in Children, NEW d \in Dir, NEW n \in Name, Entry(d, n) # None
  PROVE  /\ Spelled(d, n) \in Name /\ Alike(Spelled(d, n), n)
         /\ child[d][Spelled(d, n)] = Entry(d, n)
         /\ \A k \in Name : Alike(k, n) => Entry(d, k) = Entry(d, n)
         /\ \A k \in Name : Alike(k, Spelled(d, n)) => Entry(d, k) = Entry(d, n)
<1> DEFINE There(k) == {m \in Name : child[d][m] # None /\ Alike(m, k)}
<1>1. \A k : Spelled(d, k) = IF There(k) = {} THEN k ELSE CHOOSE m \in There(k) : TRUE
  BY DEF Spelled
<1>2. There(n) # {}
  <2> SUFFICES ASSUME There(n) = {} PROVE FALSE
    OBVIOUS
  <2>1. child[d][n] # None
    BY <1>1 DEF Entry
  <2> QED BY <2>1 DEF Alike
<1>3. Spelled(d, n) \in There(n)
  BY <1>1, <1>2
<1>4. ASSUME NEW k \in Name, Alike(k, n) \/ Alike(k, Spelled(d, n)) PROVE Entry(d, k) = Entry(d, n)
  <2>1. Alike(k, n) /\ \A m \in Name : Alike(m, k) <=> Alike(m, n)
    BY <1>3, <1>4 DEF Alike
  <2>2. There(k) = There(n)
    BY <2>1
  <2> HIDE DEF There
  <2>3. Spelled(d, k) = Spelled(d, n)
    BY <1>1, <1>2, <2>2
  <2> QED BY <2>3 DEF Entry
<1> QED BY <1>3, <1>4 DEF Entry

(* The first of two sequences in a row has the head.                       *)
LEMMA HeadTailOfConcat ==
  ASSUME NEW A, NEW s \in Seq(A), s # <<>>, NEW r \in Seq(A)
  PROVE  Head(s \o r) = Head(s) /\ Tail(s \o r) = Tail(s) \o r /\ s \o r # <<>>
<1>1. /\ Len(s) \in Nat /\ Len(r) \in Nat /\ Len(s) # 0
      /\ Head(s) \in A /\ Tail(s) \in Seq(A) /\ Len(Tail(s)) = Len(s) - 1 /\ Head(s) = s[1]
      /\ \A i \in 1..(Len(s) - 1) : Tail(s)[i] = s[i + 1]
  BY LenProperties, EmptySeq, HeadTailProperties
<1>2. /\ s \o r \in Seq(A) /\ Len(s \o r) = Len(s) + Len(r)
      /\ \A i \in 1..(Len(s) + Len(r)) : (s \o r)[i] = IF i <= Len(s) THEN s[i] ELSE r[i - Len(s)]
  BY ConcatProperties
<1>3. s \o r # <<>>
  BY <1>1, <1>2
<1>4. /\ Head(s \o r) = (s \o r)[1] /\ Tail(s \o r) \in Seq(A)
      /\ Len(Tail(s \o r)) = Len(s) + Len(r) - 1
      /\ \A i \in 1..(Len(s) + Len(r) - 1) : Tail(s \o r)[i] = (s \o r)[i + 1]
  <2> DEFINE u == s \o r
  <2>1. u \in Seq(A) /\ u # <<>>
    BY <1>2, <1>3
  <2> HIDE DEF u
  <2>2. Head(u) = u[1] /\ Tail(u) \in Seq(A) /\ Len(Tail(u)) = Len(u) - 1
        /\ \A i \in 1..(Len(u) - 1) : Tail(u)[i] = u[i + 1]
    BY <2>1, HeadTailProperties
  <2> QED BY <1>2, <2>2 DEF u
<1>5. /\ Tail(s) \o r \in Seq(A) /\ Len(Tail(s) \o r) = Len(s) + Len(r) - 1
      /\ \A i \in 1..(Len(s) + Len(r) - 1) :
           (Tail(s) \o r)[i] = IF i <= Len(s) - 1 THEN Tail(s)[i] ELSE r[i - (Len(s) - 1)]
  <2> DEFINE t == Tail(s)
  <2>1. t \in Seq(A) /\ Len(t) = Len(s) - 1
    BY <1>1
  <2> HIDE DEF t
  <2>2. /\ t \o r \in Seq(A) /\ Len(t \o r) = Len(t) + Len(r)
        /\ \A i \in 1..(Len(t) + Len(r)) : (t \o r)[i] = IF i <= Len(t) THEN t[i] ELSE r[i - Len(t)]
    BY <2>1, ConcatProperties
  <2>3. Len(t) + Len(r) = Len(s) + Len(r) - 1
    BY <1>1, <2>1
  <2> QED BY <2>1, <2>2, <2>3 DEF t
<1>6. ASSUME NEW i \in 1..(Len(s) + Len(r) - 1) PROVE Tail(s \o r)[i] = (Tail(s) \o r)[i]
  <2>1. i + 1 \in 1..(Len(s) + Len(r)) /\ (i + 1 <= Len(s) <=> i <= Len(s) - 1)
        /\ i + 1 - Len(s) = i - (Len(s) - 1)
    BY <1>1
  <2>2. i <= Len(s) - 1 => i \in 1..(Len(s) - 1)
    BY <1>1
  <2> QED BY <1>1, <1>2, <1>4, <1>5, <2>1, <2>2
<1>7. Tail(s \o r) = Tail(s) \o r
  BY <1>4, <1>5, <1>6, SeqEqual
<1>8. Head(s \o r) = s[1]
  BY <1>1, <1>2, <1>4
<1> QED BY <1>1, <1>3, <1>7, <1>8

(* A walk along two sequences of names goes on behind the first where it   *)
(* leads, with no more links to follow; if it leads nowhere, neither do    *)
(* both.                                                                   *)
LeadsOn(w, rest) ==
  IF Ends[w] \in Node
    THEN \E k \in Nat : k <= w[3] /\ Ends[<<w[1], w[2] \o rest, w[3]>>] = Ends[<<Ends[w], rest, k>>]
    ELSE Ends[<<w[1], w[2] \o rest, w[3]>>] = Ends[w]

(* What a place on the way has in common with one that has more to go.     *)
LEMMA LongerWalk ==
  ASSUME child \in Children, NEW w \in Walk, NEW rest \in Seq(Segments), w[2] # <<>>
  PROVE  LET v == <<w[1], w[2] \o rest, w[3]>> IN
         /\ v \in Walk
         /\ Ended(v) <=> Ended(w)
         /\ Ended(w) => EndOf(v) = EndOf(w)
         /\ ~ Ended(w) => Onward(v) = <<Onward(w)[1], Onward(w)[2] \o rest, Onward(w)[3]>>
<1> DEFINE v == <<w[1], w[2] \o rest, w[3]>>
<1>1. w[1] \in Node /\ w[2] \in Seq(Segments) /\ w[3] \in Nat
  BY DEF Walk, Segments
<1>2. /\ w[2] \o rest \in Seq(Segments) /\ w[2] \o rest # <<>>
      /\ Head(w[2] \o rest) = Head(w[2]) /\ Tail(w[2] \o rest) = Tail(w[2]) \o rest
      /\ Tail(w[2]) \in Seq(Segments)
  <2> DEFINE s == w[2]
  <2>1. s \in Seq(Segments) /\ s # <<>>
    BY <1>1
  <2> HIDE DEF s
  <2>2. s \o rest \in Seq(Segments) /\ Len(s \o rest) = Len(s) + Len(rest)
    BY <2>1, ConcatProperties
  <2>3. Len(s) \in Nat /\ Len(rest) \in Nat /\ Len(s) # 0
    BY <2>1, LenProperties, EmptySeq
  <2>4. s \o rest # <<>>
    BY <2>2, <2>3
  <2>5. Head(s \o rest) = Head(s) /\ Tail(s \o rest) = Tail(s) \o rest
    BY <2>1, HeadTailOfConcat
  <2>6. Tail(s) \in Seq(Segments)
    BY <2>1, HeadTailProperties
  <2> QED BY <2>2, <2>4, <2>5, <2>6 DEF s
<1>3. v \in Walk
  BY <1>1, <1>2, WalkParts DEF Segments
<1>4. v[1] = w[1] /\ v[2] = w[2] \o rest /\ v[3] = w[3]
  OBVIOUS
<1> HIDE DEF v
<1>5. Found(v) = Found(w)
  BY <1>2, <1>4 DEF Found
<1>6. Ended(v) <=> Ended(w)
  BY <1>2, <1>4, <1>5 DEF Ended
<1>7. EndOf(v) = EndOf(w)
  BY <1>2, <1>4, <1>5 DEF EndOf
<1>8. ASSUME ~ Ended(w) PROVE Onward(v) = <<Onward(w)[1], Onward(w)[2] \o rest, Onward(w)[3]>>
  <2>1. CASE Head(w[2]) = DotDot
    BY <1>2, <1>4, <2>1 DEF Onward
  <2>2. CASE Head(w[2]) # DotDot /\ Found(w) \notin Link
    BY <1>2, <1>4, <1>5, <2>2 DEF Onward
  <2>3. CASE Head(w[2]) # DotDot /\ Found(w) \in Link
    <3> DEFINE t == Target[Found(w)].names
               tl == Tail(w[2])
               at == IF Target[Found(w)].abs THEN Root ELSE w[1]
               less == w[3] - 1
    <3>1. t \in Seq(Segments) /\ tl \in Seq(Segments)
      BY <1>2, <2>3, LinksAssumption DEF Path, Segments
    <3>2. Onward(v) = <<at, t \o (tl \o rest), less>>
      BY <1>2, <1>4, <1>5, <2>3 DEF Onward
    <3>3. Onward(w) = <<at, t \o tl, less>>
      BY <2>3 DEF Onward
    <3> HIDE DEF t, at, tl, less
    <3>4. (t \o tl) \o rest = t \o (tl \o rest)
      BY <3>1, ConcatAssociative
    <3>5. Onward(w)[1] = at /\ Onward(w)[2] = t \o tl /\ Onward(w)[3] = less
      BY <3>3
    <3> QED BY <3>2, <3>4, <3>5
  <2> QED BY <2>1, <2>2, <2>3
<1> QED BY <1>3, <1>6, <1>7, <1>8 DEF v

(* ... so every walk leads on.                                             *)
LEMMA WalksLeadOn ==
  ASSUME child \in Children, NEW w \in Walk, NEW rest \in Seq(Segments)
  PROVE  LeadsOn(w, rest)
<1> DEFINE B == {v \in Walk : Ended(v)}
           next == [v \in Walk \ B |-> Onward(v)]
           S == {v \in Walk : ~ LeadsOn(v, rest)}
<1>1. EndsRight
  BY EndsSolveHere
<1>2. NoEndlessWay(Walk, B, next)
  <2>1. \A v \in Walk \ B : ~ Ended(v) /\ next[v] = Onward(v)
    OBVIOUS
  <2> HIDE DEF B, next
  <2> QED BY <2>1, WalksEnd
<1>3. ASSUME NEW v \in Walk, Ended(v) PROVE LeadsOn(v, rest)
  <2>1. Ends[v] = EndOf(v) /\ v[1] \in Node /\ v[3] \in Nat /\ v[3] <= v[3]
    BY <1>1, <1>3 DEF EndsRight, Walk
  <2>2. CASE v[2] = <<>>
    <3>1. Ends[v] = v[1]
      BY <2>1, <2>2 DEF EndOf
    <3>2. v[2] \o rest = rest
      BY <2>2, ConcatEmptySeq
    <3> QED BY <2>1, <3>1, <3>2 DEF LeadsOn
  <2>3. CASE v[2] # <<>>
    <3> DEFINE u == <<v[1], v[2] \o rest, v[3]>>
    <3>1. u \in Walk /\ Ended(u) /\ EndOf(u) = EndOf(v)
      BY <1>3, <2>3, LongerWalk
    <3>2. Ends[u] = Ends[v]
      BY <1>1, <2>1, <3>1 DEF EndsRight
    <3>3. Ends[v] \notin Node
      BY <2>1, <2>3, KindsAssumption DEF EndOf
    <3> QED BY <3>2, <3>3 DEF LeadsOn
  <2> QED BY <2>2, <2>3
<1>4. ASSUME NEW v \in Walk, ~ Ended(v), LeadsOn(Onward(v), rest) PROVE LeadsOn(v, rest)
  <2> DEFINE u == <<v[1], v[2] \o rest, v[3]>>
             o == Onward(v)
             ou == <<o[1], o[2] \o rest, o[3]>>
  <2>1. v[2] # <<>>
    BY <1>4 DEF Ended
  <2>2. u \in Walk /\ ~ Ended(u) /\ Onward(u) = ou
    BY <1>4, <2>1, LongerWalk
  <2>3. Ends[v] = Ends[o] /\ Ends[u] = Ends[ou]
    BY <1>1, <1>4, <2>2 DEF EndsRight
  <2>4. o[3] <= v[3] /\ o[3] \in Nat /\ v[3] \in Nat
    <3>1. o \in Walk /\ (o[3] < v[3] \/ o[3] = v[3])
      BY <1>4, OnwardType
    <3>2. o[3] \in Nat /\ v[3] \in Nat
      BY <3>1 DEF Walk
    <3> QED BY <3>1, <3>2
  <2> HIDE DEF o
  <2>5. LeadsOn(o, rest)
    BY <1>4 DEF o
  <2>6. CASE Ends[o] \in Node
    <3>1. PICK k \in Nat : k <= o[3] /\ Ends[ou] = Ends[<<Ends[o], rest, k>>]
      BY <2>5, <2>6 DEF LeadsOn
    <3>2. k <= v[3]
      BY <2>4, <3>1
    <3> QED BY <2>3, <2>6, <3>1, <3>2 DEF LeadsOn
  <2>7. CASE Ends[o] \notin Node
    BY <2>3, <2>5, <2>7 DEF LeadsOn
  <2> QED BY <2>6, <2>7
<1>5. S \in SUBSET (Walk \ B)
  BY <1>3
<1>6. ASSUME NEW v \in S PROVE next[v] \in S
  <2>1. v \in Walk /\ ~ Ended(v) /\ next[v] = Onward(v)
    BY <1>5
  <2>2. Onward(v) \in Walk
    BY <2>1, OnwardType
  <2> QED BY <1>4, <2>1, <2>2
<1>7. S = {}
  <2> HIDE DEF S, B, next
  <2> QED BY <1>2, <1>5, <1>6 DEF NoEndlessWay
<1> QED BY <1>7

(* Each directory of S, but the root, is found in one that is in S, too.   *)
Hangs(S) == \A e \in S \ {Root} : Up[e] \in S /\ Entry(Up[e], NameOf[e]) = e

(* A directory is in the tree if its way up to the root is in it.          *)
InTree(x) == \E S \in SUBSET Dir : x \in S /\ Hangs(S)

(* The root is in the tree, and what a directory of the tree is in.        *)
LEMMA UpInTree ==
  ASSUME NEW x \in Dir, InTree(x)
  PROVE  InTree(Root) /\ InTree(Up[x]) /\ Up[x] \in Dir
<1>1. Root \in {Root} /\ {Root} \in SUBSET Dir /\ Hangs({Root})
  BY KindsAssumption DEF Hangs
<1>2. PICK S \in SUBSET Dir : x \in S /\ Hangs(S)
  BY DEF InTree
<1>3. CASE x = Root
  BY <1>1, <1>3, KindsAssumption, DirsAssumption DEF InTree
<1>4. CASE x # Root
  <2>1. Up[x] \in S
    BY <1>2, <1>4 DEF Hangs
  <2> QED BY <1>1, <1>2, <2>1 DEF InTree
<1> QED BY <1>3, <1>4

(* So is a directory that is found in one of the tree: it is in its place. *)
LEMMA ChildInTree ==
  ASSUME child \in Children, InPlace(child), NEW d \in Dir, NEW n \in Name, Entry(d, n) \in Dir
  PROVE  LET x == Entry(d, n) IN
         x # Root /\ Up[x] = d /\ NameOf[x] = Spelled(d, n) /\ (InTree(d) => InTree(x))
<1> DEFINE x == Entry(d, n)
           m == Spelled(d, n)
<1>1. x # None
  BY KindsAssumption DEF Node
<1>2. m \in Name /\ child[d][m] = x /\ Alike(m, m) /\ (\A k \in Name : Alike(k, m) => Entry(d, k) = x)
  BY <1>1, FoundSpelled DEF Alike
<1> HIDE DEF x, m
<1>3. x \in Dir
  BY DEF x
<1>4. x # Root /\ Up[x] = d /\ NameOf[x] = m
  BY <1>2, <1>3 DEF InPlace
<1>5. ASSUME InTree(d) PROVE InTree(x)
  <2>1. PICK S \in SUBSET Dir : d \in S /\ Hangs(S)
    BY <1>5 DEF InTree
  <2>2. Entry(Up[x], NameOf[x]) = x
    BY <1>2, <1>4
  <2>3. Hangs(S \cup {x})
    BY <1>4, <2>1, <2>2 DEF Hangs
  <2> QED BY <1>3, <2>1, <2>3 DEF InTree
<1> QED BY <1>4, <1>5 DEF x, m

(* A walk that begins in the tree ends in it, and not at a link.           *)
LEMMA WalkInTree ==
  ASSUME child \in Children, InPlace(child), NEW w \in Walk, w[1] \in Dir => InTree(w[1]),
         w[1] \notin Link
  PROVE  Ends[w] \notin Link /\ (Ends[w] \in Dir => InTree(Ends[w]))
<1> DEFINE B == {v \in Walk : Ended(v)}
           next == [v \in Walk \ B |-> Onward(v)]
           Good(x) == x \notin Link /\ (x \in Dir => InTree(x))
           S == {v \in Walk : Good(v[1]) /\ ~ Good(Ends[v])}
<1>1. EndsRight
  BY EndsSolveHere
<1>2. NoEndlessWay(Walk, B, next)
  <2>1. \A v \in Walk \ B : ~ Ended(v) /\ next[v] = Onward(v)
    OBVIOUS
  <2> HIDE DEF B, next
  <2> QED BY <2>1, WalksEnd
<1>3. S \in SUBSET (Walk \ B)
  <2> SUFFICES ASSUME NEW v \in Walk, Ended(v), Good(v[1]) PROVE Good(Ends[v])
    OBVIOUS
  <2>1. Ends[v] = EndOf(v)
    BY <1>1 DEF EndsRight
  <2>2. Ends[v] = v[1] \/ Ends[v] \in {None, Loop}
    BY <2>1 DEF EndOf
  <2> QED BY <2>2, KindsAssumption DEF Node
<1>4. ASSUME NEW v \in S PROVE next[v] \in S
  <2>1. v \in Walk /\ ~ Ended(v) /\ next[v] = Onward(v)
    BY <1>3
  <2>2. Onward(v) \in Walk /\ Ends[v] = Ends[Onward(v)]
    BY <1>1, <2>1, OnwardType DEF EndsRight
  <2>3. v[1] \in Dir /\ InTree(v[1]) /\ Head(v[2]) \in Name \cup {DotDot}
    BY <2>1, WalkAt
  <2>4. Good(Onward(v)[1])
    <3>1. CASE Head(v[2]) = DotDot
      <4>1. Onward(v)[1] = Up[v[1]]
        BY <3>1 DEF Onward
      <4> QED BY <2>3, <4>1, UpInTree, KindsAssumption
    <3>2. CASE Head(v[2]) # DotDot /\ Found(v) \in Link
      <4>1. Onward(v)[1] = IF Target[Found(v)].abs THEN Root ELSE v[1]
        BY <3>2 DEF Onward
      <4> QED BY <2>3, <4>1, UpInTree, KindsAssumption
    <3>3. CASE Head(v[2]) # DotDot /\ Found(v) \notin Link
      <4>1. Onward(v)[1] = Entry(v[1], Head(v[2]))
        BY <3>3 DEF Onward, Found
      <4>2. Head(v[2]) \in Name
        BY <2>3, <3>3
      <4> QED BY <2>3, <3>3, <4>1, <4>2, ChildInTree DEF Found
    <3> QED BY <3>1, <3>2, <3>3
  <2> QED BY <2>1, <2>2, <2>4
<1>5. S = {}
  <2> HIDE DEF S, B, next
  <2> QED BY <1>2, <1>3, <1>4 DEF NoEndlessWay
<1> QED BY <1>5

(* A directory that is linked is in the tree.                              *)
LEMMA LinkedInTree ==
  ASSUME child \in Children, InPlace(child), NEW d \in Dir, Linked(d)
  PROVE  InTree(d)
<1> DEFINE w == <<Root, PathOf(d), MaxLinks>>
<1>1. PathOf(d) \in Seq(Name \cup {DotDot})
  <2>1. NameOf \in [Dir -> Name \cup {DotDot}]
    BY DirsAssumption
  <2> QED BY <2>1, PathOfType
<1>2. w \in Walk /\ w[1] = Root
  BY <1>1, KindsAssumption, LinksAssumption, WalkParts DEF Node
<1>3. Where(Root, Absolute(PathOf(d))) = Ends[w]
  BY WhereIsEnd DEF Absolute
<1>4. Ends[w] = d
  BY <1>3 DEF Linked
<1>5. InTree(Root)
  BY UpInTree, KindsAssumption DEF InTree, Hangs
<1> HIDE DEF w
<1> QED BY <1>2, <1>4, <1>5, WalkInTree, KindsAssumption

(* Front and Last undo Append.                                             *)
LEMMA FrontAppend ==
  ASSUME NEW A, NEW s \in Seq(A), NEW a \in A
  PROVE  Front(Append(s, a)) = s /\ Last(Append(s, a)) = a
<1>1. /\ Append(s, a) \in Seq(A) /\ Len(Append(s, a)) = Len(s) + 1 /\ Len(s) \in Nat
      /\ Append(s, a)[Len(s) + 1] = a
      /\ \A i \in 1..Len(s) : Append(s, a)[i] = s[i]
  BY AppendProperties, LenProperties
<1>2. \A i \in 1..Len(s) : Append(s, a)[i] \in A
  BY <1>1, ElementOfSeq
<1>3. /\ SubSeq(Append(s, a), 1, Len(s)) \in Seq(A)
      /\ Len(SubSeq(Append(s, a), 1, Len(s))) = Len(s)
      /\ \A i \in 1..Len(s) : SubSeq(Append(s, a), 1, Len(s))[i] = Append(s, a)[i]
  BY <1>1, <1>2, SubSeqProperties
<1>4. SubSeq(Append(s, a), 1, Len(s)) = s
  BY <1>1, <1>3, SeqEqual
<1> QED BY <1>1, <1>4 DEF Front, Last


(* How a name may be spelled in an answer.                                 *)
SpelledAs(m, n) == IF disk = "folds" THEN Alike(m, n) ELSE m = n

(* The spellings of names, and of names with one more.                     *)
LEMMA SpellingsAre ==
  ASSUME NEW ns \in Seq(Name), NEW s
  PROVE  s \in Spellings(ns) <=>
           s \in Seq(Name) /\ Len(s) = Len(ns) /\ \A i \in 1..Len(ns) : SpelledAs(s[i], ns[i])
<1>1. Len(ns) \in Nat /\ DOMAIN ns = 1..Len(ns)
  BY LenProperties
<1>2. CASE disk # "folds"
  <2>1. s \in Spellings(ns) <=> s = ns
    BY <1>2 DEF Spellings
  <2>2. ASSUME s \in Seq(Name), Len(s) = Len(ns), \A i \in 1..Len(ns) : s[i] = ns[i] PROVE s = ns
    BY <2>2, SeqEqual
  <2> QED BY <1>2, <2>1, <2>2 DEF SpelledAs
<1>3. CASE disk = "folds"
  <2>1. Spellings(ns) = {t \in [1..Len(ns) -> Name] : \A i \in 1..Len(ns) : Alike(t[i], ns[i])}
    BY <1>1, <1>3 DEF Spellings
  <2>2. s \in [1..Len(ns) -> Name] <=> s \in Seq(Name) /\ Len(s) = Len(ns)
    BY <1>1, SeqDef, LenProperties
  <2>3. \A i : SpelledAs(s[i], ns[i]) <=> Alike(s[i], ns[i])
    BY <1>3 DEF SpelledAs
  <2> QED BY <2>1, <2>2, <2>3
<1> QED BY <1>2, <1>3

(* Spelling one name more.                                                 *)
LEMMA SpellingsAppend ==
  ASSUME NEW ns \in Seq(Name), NEW n \in Name
  PROVE  /\ \A s \in Spellings(ns), m \in Name :
              SpelledAs(m, n) => Append(s, m) \in Spellings(Append(ns, n))
         /\ \A s \in Spellings(Append(ns, n)) :
              \E t \in Spellings(ns), m \in Name : s = Append(t, m) /\ SpelledAs(m, n)
<1>1. /\ Append(ns, n) \in Seq(Name) /\ Len(Append(ns, n)) = Len(ns) + 1 /\ Len(ns) \in Nat
      /\ Append(ns, n)[Len(ns) + 1] = n /\ \A i \in 1..Len(ns) : Append(ns, n)[i] = ns[i]
  BY AppendProperties, LenProperties
<1>2. \A i \in 1..(Len(ns) + 1) : i \in 1..Len(ns) \/ i = Len(ns) + 1
  BY <1>1
<1>3. ASSUME NEW s \in Spellings(ns), NEW m \in Name, SpelledAs(m, n)
      PROVE  Append(s, m) \in Spellings(Append(ns, n))
  <2>1. s \in Seq(Name) /\ Len(s) = Len(ns) /\ \A i \in 1..Len(ns) : SpelledAs(s[i], ns[i])
    BY SpellingsAre
  <2>2. /\ Append(s, m) \in Seq(Name) /\ Len(Append(s, m)) = Len(ns) + 1
        /\ Append(s, m)[Len(ns) + 1] = m /\ \A i \in 1..Len(ns) : Append(s, m)[i] = s[i]
    BY <2>1, AppendProperties
  <2>3. \A i \in 1..(Len(ns) + 1) : SpelledAs(Append(s, m)[i], Append(ns, n)[i])
    BY <1>1, <1>2, <1>3, <2>1, <2>2
  <2> QED BY <1>1, <2>2, <2>3, SpellingsAre
<1>4. ASSUME NEW s \in Spellings(Append(ns, n))
      PROVE  \E t \in Spellings(ns), m \in Name : s = Append(t, m) /\ SpelledAs(m, n)
  <2>1. /\ s \in Seq(Name) /\ Len(s) = Len(ns) + 1
        /\ \A i \in 1..(Len(ns) + 1) : SpelledAs(s[i], Append(ns, n)[i])
    BY <1>1, SpellingsAre
  <2>2. s # <<>>
    BY <1>1, <2>1
  <2>3. PICK t \in Seq(Name), m \in Name : s = Append(t, m)
    BY <2>1, <2>2, SequenceEmptyOrAppend
  <2>4. /\ Len(t) \in Nat /\ Len(s) = Len(t) + 1 /\ s[Len(t) + 1] = m
        /\ \A i \in 1..Len(t) : s[i] = t[i]
    BY <2>3, AppendProperties, LenProperties
  <2>5. Len(t) = Len(ns)
    BY <1>1, <2>1, <2>4
  <2>6. Len(ns) + 1 \in 1..(Len(ns) + 1) /\ \A i \in 1..Len(ns) : i \in 1..(Len(ns) + 1)
    BY <1>1
  <2>7. \A i \in 1..Len(ns) : SpelledAs(t[i], ns[i])
    BY <1>1, <2>1, <2>4, <2>5, <2>6
  <2>8. SpelledAs(m, n)
    BY <1>1, <2>1, <2>4, <2>5, <2>6
  <2>9. t \in Spellings(ns)
    BY <2>5, <2>7, SpellingsAre
  <2> QED BY <2>3, <2>8, <2>9
<1> QED BY <1>3, <1>4

(* The names of a directory of the tree lead to it from the root, however  *)
(* they are spelled.                                                       *)
LEMMA SpelledLeads ==
  ASSUME child \in Children, NEW x \in Dir, InTree(x), NEW s \in Spellings(PathOf(x))
  PROVE  s \in Seq(Name) /\ Where(Root, Absolute(s)) = x
<1> DEFINE W(t) == <<Root, t, MaxLinks>>
<1>1. EndsRight
  BY EndsSolveHere
<1>2. NameOf \in [Dir -> Name] /\ Root \in Dir /\ Dir \subseteq Node /\ MaxLinks \in Nat
  BY DirsAssumption, KindsAssumption, LinksAssumption DEF Node
<1>3. ASSUME NEW y \in Dir
      PROVE  PathOf(y) \in Seq(Name) /\ (\A t \in Spellings(PathOf(y)) : t \in Seq(Name) /\ t \in Seq(Segments))
  <2>1. PathOf(y) \in Seq(Name) /\ Seq(Name) \subseteq Seq(Segments)
    BY <1>2, PathOfType, SeqMonotonic DEF Segments
  <2> QED BY <2>1, SpellingsAre
<1>4. \A t \in Seq(Segments) : W(t) \in Walk /\ W(t)[1] = Root /\ W(t)[2] = t /\ W(t)[3] = MaxLinks
  BY <1>2, WalkParts DEF Segments
<1>5. \A t : Where(Root, Absolute(t)) = Ends[W(t)]
  BY WhereIsEnd DEF Absolute
<1>6. PICK S \in SUBSET Dir : x \in S /\ Hangs(S)
  BY DEF InTree
<1> DEFINE Bad == {y \in S : \E t \in Spellings(PathOf(y)) : Ends[W(t)] # y}
<1>7. Root \notin Bad
  <2> SUFFICES ASSUME NEW t \in Spellings(PathOf(Root)) PROVE Ends[W(t)] = Root
    OBVIOUS
  <2>1. PathOf(Root) = <<>>
    BY <1>2, PathOfIs
  <2>2. t \in Seq(Name) /\ Len(t) = Len(<<>>)
    BY <1>3, <2>1, SpellingsAre, EmptySeq
  <2>3. t = <<>>
    BY <2>2
  <2>4. W(t) \in Walk /\ Ended(W(t)) /\ EndOf(W(t)) = Root
    BY <1>3, <1>4, <2>3, EmptySeq DEF Ended, EndOf
  <2> HIDE DEF W
  <2> QED BY <1>1, <2>4 DEF EndsRight
<1>8. ASSUME NEW y \in S, y # Root, Up[y] \notin Bad PROVE y \notin Bad
  <2> SUFFICES ASSUME NEW t \in Spellings(PathOf(y)) PROVE Ends[W(t)] = y
    OBVIOUS
  <2>1. y \in Dir /\ Up[y] \in S /\ Up[y] \in Dir /\ Entry(Up[y], NameOf[y]) = y /\ NameOf[y] \in Name
    BY <1>2, <1>6, <1>8 DEF Hangs
  <2>2. PathOf(y) = Append(PathOf(Up[y]), NameOf[y]) /\ PathOf(Up[y]) \in Seq(Name)
    BY <1>2, <1>3, <1>8, <2>1, PathOfIs
  <2>3. PICK u \in Spellings(PathOf(Up[y])), m \in Name : t = Append(u, m) /\ SpelledAs(m, NameOf[y])
    BY <2>1, <2>2, SpellingsAppend
  <2>4. u \in Seq(Segments) /\ u \in Seq(Name) /\ <<m>> \in Seq(Segments) /\ t = u \o <<m>>
    BY <1>3, <2>1, <2>3, AppendIsConcat DEF Segments
  <2>5. Entry(Up[y], m) = y
    <3>1. Alike(m, NameOf[y]) /\ y # None
      BY <2>1, <2>3, KindsAssumption DEF SpelledAs, Alike, Node
    <3> QED BY <2>1, <3>1, FoundSpelled
  <2>6. Ends[W(u)] = Up[y]
    BY <1>8, <2>1, <2>3
  <2>7. LeadsOn(W(u), <<m>>)
    <3>1. W(u) \in Walk
      BY <1>4, <2>4
    <3> HIDE DEF W
    <3> QED BY <2>4, <3>1, WalksLeadOn
  <2>8. PICK k \in Nat : Ends[W(t)] = Ends[<<Up[y], <<m>>, k>>]
    <3>1. Up[y] \in Node
      BY <1>2, <2>1
    <3>2. W(u)[1] = Root /\ W(u)[2] = u /\ W(u)[3] = MaxLinks
      BY <1>4, <2>4
    <3>3. \E k \in Nat : Ends[<<Root, u \o <<m>>, MaxLinks>>] = Ends[<<Up[y], <<m>>, k>>]
      BY <2>6, <2>7, <3>1, <3>2 DEF LeadsOn
    <3> QED BY <2>4, <3>3
  <2> DEFINE v == <<Up[y], <<m>>, k>>
             o == <<y, <<>>, k>>
  <2>9. v \in Walk /\ v[1] = Up[y] /\ v[2] = <<m>> /\ v[3] = k /\ o \in Walk /\ Ended(o) /\ EndOf(o) = y
    BY <1>2, <2>1, <2>4, WalkParts, EmptySeq DEF Segments, Ended, EndOf
  <2>10. Head(<<m>>) = m /\ Tail(<<m>>) = <<>> /\ <<m>> # <<>> /\ m # DotDot
    BY <2>3, NamesAssumption
  <2>11. Found(v) = y
    BY <2>5, <2>9, <2>10 DEF Found
  <2>12. y # None /\ y \notin Link
    BY <2>1, KindsAssumption DEF Node
  <2>13. ~ Ended(v) /\ Onward(v) = o
    BY <2>1, <2>9, <2>10, <2>11, <2>12 DEF Ended, Onward
  <2> HIDE DEF v, o, W
  <2>14. Ends[v] = Ends[o] /\ Ends[o] = y
    BY <1>1, <2>9, <2>13 DEF EndsRight
  <2> QED BY <2>8, <2>14 DEF v
<1>9. Bad = {}
  <2>1. Bad \in SUBSET (Dir \ {Root})
    BY <1>7
  <2>2. ASSUME NEW y \in Bad PROVE Up[y] \in Bad
    BY <1>8, <2>1
  <2> HIDE DEF Bad
  <2> QED BY <2>1, <2>2, TreeAssumption
<1> QED BY <1>3, <1>5, <1>6, <1>9

-----------------------------------------------------------------------------
(***************************************************************************)
(* The answers that a call may give.                                       *)
(***************************************************************************)
(* A path without ".." is its normal form.                                 *)
LEMMA NormalOfNames ==
  ASSUME NEW s \in Seq(Name)
  PROVE  Normal(Absolute(s)) = Absolute(s)
<1> DEFINE p == Absolute(s)
           n == Len(s)
<1>1. /\ p \in [abs : BOOLEAN, names : Seq(Name \cup {DotDot})]
      /\ p.names = s /\ p.abs /\ n \in Nat /\ \A k \in 1..n : s[k] \in Name
  <2>1. s \in Seq(Name \cup {DotDot})
    BY SeqMonotonic
  <2> QED BY <2>1, LenProperties, ElementOfSeq DEF Absolute
<1>2. PICK kept \in [0..n -> Kept(p, Name)] :
        /\ kept[0] = <<>>
        /\ \A k \in 1..n : kept[k] = Put(p, kept[k - 1], p.names[k])
        /\ Normal(p) = [p EXCEPT !.names = kept[n]]
  <2> HIDE DEF p
  <2> QED BY <1>1, NamesAssumption, NormalIs
<1> DEFINE S == {k \in 0..n : kept[k] # SubSeq(s, 1, k)}
<1>3. S = {}
  <2> SUFFICES ASSUME S # {} PROVE FALSE
    OBVIOUS
  <2>1. S \in SUBSET Nat
    BY <1>1
  <2>2. PICK m \in S : \A k \in S : m <= k
    <3> HIDE DEF S
    <3> QED BY <2>1, Least
  <2>3. m # 0
    <3>1. SubSeq(s, 1, 0) = <<>>
      BY SubSeqEmpty
    <3> QED BY <1>2, <3>1
  <2>4. m \in 1..n /\ m - 1 \in 0..n /\ m - 1 \notin S /\ m \in Nat
    BY <1>1, <2>2, <2>3
  <2>5. kept[m - 1] = SubSeq(s, 1, m - 1)
    BY <2>4
  <2>6. kept[m] = Append(SubSeq(s, 1, m - 1), s[m])
    <3>1. kept[m] = Put(p, kept[m - 1], s[m]) /\ s[m] # DotDot
      BY <1>1, <1>2, <2>4, NamesAssumption
    <3> QED BY <2>5, <3>1 DEF Put
  <2>7. SubSeq(s, 1, m - 1) \in Seq(Name) /\ s[m] \in Name
    BY <1>1, <2>4, SubSeqProperties
  <2>8. Append(SubSeq(s, 1, m - 1), s[m]) = SubSeq(s, 1, m - 1) \o <<s[m]>>
    BY <2>7, AppendIsConcat
  <2>9. SubSeq(s, 1, m) = SubSeq(s, 1, m - 1) \o <<s[m]>>
    BY <1>1, <2>4, SubSeqRecursiveSecond
  <2> QED BY <2>2, <2>6, <2>8, <2>9
<1>4. kept[n] = SubSeq(s, 1, n)
  BY <1>1, <1>3
<1>5. SubSeq(s, 1, n) = s
  BY SubSeqFull
<1> QED BY <1>2, <1>4, <1>5 DEF Absolute

(* Where a path leads, by the walk along it.                               *)
LEMMA WhereOf ==
  ASSUME NEW d \in Dir, NEW p \in Path
  PROVE  LET w == <<IF p.abs THEN Root ELSE d, p.names, MaxLinks>> IN
         /\ w \in Walk /\ w[1] = (IF p.abs THEN Root ELSE d) /\ w[2] = p.names /\ w[3] = MaxLinks
         /\ Where(d, p) = Ends[w]
<1> DEFINE at == IF p.abs THEN Root ELSE d
<1>1. at \in Node /\ p.names \in Seq(Name \cup {DotDot}) /\ MaxLinks \in Nat
  BY KindsAssumption, LinksAssumption DEF Path, Node
<1>2. Where(d, p) = Ends[<<at, p.names, MaxLinks>>]
  BY WhereIsEnd
<1> HIDE DEF at
<1>3. LET w == <<at, p.names, MaxLinks>> IN
      w \in Walk /\ w[1] = at /\ w[2] = p.names /\ w[3] = MaxLinks /\ Where(d, p) = Ends[w]
  BY <1>1, <1>2, WalkParts
<1> QED BY <1>3 DEF at

(* What leads nowhere leads nowhere with more names after it.              *)
LEMMA LongerPath ==
  ASSUME child \in Children, NEW d \in Dir, NEW p \in Path,
         NEW i \in Nat, NEW j \in Nat, i <= j, j <= Len(p.names), ~ Leads(d, Upto(p, i))
  PROVE  Where(d, Upto(p, j)) = Where(d, Upto(p, i))
<1> DEFINE at == IF p.abs THEN Root ELSE d
           s == SubSeq(p.names, 1, i)
           r == SubSeq(p.names, i + 1, j)
           w == <<at, s, MaxLinks>>
<1>1. p.names \in Seq(Segments) /\ Len(p.names) \in Nat /\ \A k \in 1..Len(p.names) : p.names[k] \in Segments
  BY LenProperties, ElementOfSeq DEF Path, Segments
<1>2. s \o r = SubSeq(p.names, 1, j)
  BY <1>1, ConcatAdjacentSubSeq
<1>3. s \in Seq(Segments) /\ r \in Seq(Segments)
  <2>1. s \in Seq(Segments)
    BY <1>1, SubSeqProperties
  <2>2. r \in Seq(Segments)
    BY <1>1, SubSeqProperties
  <2> QED BY <2>1, <2>2
<1>4. /\ Upto(p, i).abs = p.abs /\ Upto(p, i).names = s
      /\ Upto(p, j).abs = p.abs /\ Upto(p, j).names = SubSeq(p.names, 1, j)
  BY DEF Upto, Path
<1>5. Where(d, Upto(p, i)) = Ends[<<at, s, MaxLinks>>]
  BY <1>4, WhereIsEnd
<1>6. Where(d, Upto(p, j)) = Ends[<<at, s \o r, MaxLinks>>]
  BY <1>2, <1>4, WhereIsEnd
<1>7. at \in Node /\ MaxLinks \in Nat
  BY KindsAssumption, LinksAssumption DEF Node
<1> HIDE DEF at, s, r
<1>8. w \in Walk /\ w[1] = at /\ w[2] = s /\ w[3] = MaxLinks
  BY <1>3, <1>7, WalkParts DEF Segments
<1> HIDE DEF w
<1>9. LeadsOn(w, r) /\ Ends[w] \notin Node
  <2>1. Ends[w] = Where(d, Upto(p, i))
    BY <1>5 DEF w
  <2> QED BY <1>3, <1>8, <2>1, WalksLeadOn DEF Leads
<1>10. Ends[<<at, s \o r, MaxLinks>>] = Ends[w]
  BY <1>8, <1>9 DEF LeadsOn
<1> QED BY <1>5, <1>6, <1>10 DEF w

-----------------------------------------------------------------------------
(***************************************************************************)
(* realpath(3) is on its way to e: the names that are resolved are those   *)
(* of a place, from which the names that are not lead to e.                *)
(***************************************************************************)
OnDir(e, s, t, l) ==
  \E x \in Dir : InTree(x) /\ s \in Spellings(PathOf(x)) /\ Ends[<<x, t, MaxLinks - l>>] = e
OnFile(e, s, t) ==
  e \in File /\ t = <<>> /\
  \E a \in Dir, n \in Name :
    InTree(a) /\ child[a][n] = e /\ Entry(a, n) = e /\ s \in Spellings(Append(PathOf(a), n))
OnWay(e, s, t, l) == OnDir(e, s, t, l) \/ OnFile(e, s, t)

(* The names of a directory, and those of a place in it.                   *)
LEMMA PlaceNames ==
  ASSUME NEW x \in Dir
  PROVE  /\ PathOf(x) \in Seq(Name) /\ PathOf(Root) = <<>>
         /\ (x # Root => PathOf(x) = Append(PathOf(Up[x]), NameOf[x]))
         /\ PathOf(x) \in Spellings(PathOf(x)) /\ <<>> \in Spellings(PathOf(Root))
<1>1. NameOf \in [Dir -> Name] /\ Root \in Dir
  BY DirsAssumption, KindsAssumption
<1>2. \A y \in Dir : PathOf(y) \in Seq(Name) /\ PathOf(Root) = <<>>
                     /\ (y # Root => PathOf(y) = Append(PathOf(Up[y]), NameOf[y]))
  BY <1>1, PathOfIs
<1>3. ASSUME NEW s \in Seq(Name) PROVE s \in Spellings(s)
  <2>1. \A i : SpelledAs(s[i], s[i])
    BY DEF SpelledAs, Alike
  <2> QED BY <2>1, SpellingsAre
<1>4. <<>> \in Seq(Name)
  BY EmptySeq
<1> QED BY <1>2, <1>3, <1>4

(* The names of a directory without the last lead to the one it is in.     *)
LEMMA UpSpelled ==
  ASSUME NEW x \in Dir, NEW s \in Spellings(PathOf(x))
  PROVE  (IF s = <<>> THEN <<>> ELSE Front(s)) \in Spellings(PathOf(Up[x]))
<1>1. Up[x] \in Dir /\ NameOf[x] \in Name
  BY DirsAssumption
<1>2. CASE x = Root
  <2>1. PathOf(Root) \in Seq(Name) /\ PathOf(Root) = <<>> /\ <<>> \in Spellings(PathOf(Root))
    BY <1>2, PlaceNames
  <2>2. s \in Seq(Name) /\ Len(s) = Len(<<>>)
    BY <1>2, <2>1, SpellingsAre
  <2>3. s = <<>>
    BY <2>2, EmptySeq
  <2> QED BY <1>2, <2>1, <2>3, DirsAssumption
<1>3. CASE x # Root
  <2>1. PathOf(Up[x]) \in Seq(Name) /\ PathOf(x) = Append(PathOf(Up[x]), NameOf[x])
    BY <1>1, <1>3, PlaceNames
  <2>2. PICK u \in Spellings(PathOf(Up[x])), m \in Name : s = Append(u, m)
    BY <1>1, <2>1, SpellingsAppend
  <2>3. u \in Seq(Name)
    BY <2>1, <2>2, SpellingsAre
  <2>4. Front(s) = u /\ s # <<>>
    BY <2>2, <2>3, FrontAppend, AppendProperties, LenProperties, EmptySeq
  <2> QED BY <2>2, <2>4
<1> QED BY <1>2, <1>3

(* So a directory of the tree is linked.                                   *)
LEMMA TreeLinked ==
  ASSUME child \in Children, NEW x \in Dir, InTree(x)
  PROVE  Linked(x)
BY PlaceNames, SpelledLeads DEF Linked

(* At the end of the way the names are those of where it leads.            *)
LEMMA WayEnds ==
  ASSUME child \in Children, NEW e, NEW s, NEW l \in 0..MaxLinks, OnWay(e, s, <<>>, l)
  PROVE  e \in Node /\ \E names \in Places(e) : s \in Spellings(names)
<1>1. CASE OnDir(e, s, <<>>, l)
  <2>1. PICK x \in Dir : s \in Spellings(PathOf(x)) /\ Ends[<<x, <<>>, MaxLinks - l>>] = e
    BY <1>1 DEF OnDir
  <2> DEFINE f == MaxLinks - l
             w == <<x, <<>>, f>>
  <2>2. x \in Node /\ f \in Nat /\ <<>> \in Seq(Name \cup {DotDot})
    BY LinksAssumption, EmptySeq DEF Node
  <2> HIDE DEF f
  <2>3. w \in Walk /\ w[1] = x /\ w[2] = <<>>
    BY <2>2, WalkParts
  <2>4. EndsRight
    BY EndsSolveHere
  <2>5. Ends[w] = e
    BY <2>1 DEF f
  <2> HIDE DEF w
  <2>6. Ended(w) /\ EndOf(w) = x
    BY <2>3 DEF Ended, EndOf
  <2>7. e = x
    BY <2>3, <2>4, <2>5, <2>6 DEF EndsRight
  <2> QED BY <2>1, <2>2, <2>7 DEF Places
<1>2. CASE OnFile(e, s, <<>>)
  <2>1. PICK a \in Dir, n \in Name :
          InTree(a) /\ child[a][n] = e /\ Entry(a, n) = e /\ s \in Spellings(Append(PathOf(a), n))
    BY <1>2 DEF OnFile
  <2>2. e \in File /\ e \notin Dir
    BY <1>2, KindsAssumption DEF OnFile
  <2>3. <<a, n>> \in {b \in Dir \X Name :
                       Linked(b[1]) /\ child[b[1]][b[2]] = e /\ Entry(b[1], b[2]) = e}
    <3>1. Linked(a)
      BY <2>1, TreeLinked
    <3> QED BY <2>1, <3>1
  <2>4. Append(PathOf(a), n) \in Places(e)
    BY <2>2, <2>3 DEF Places
  <2> QED BY <2>1, <2>2, <2>4 DEF Node
<1> QED BY <1>1, <1>2 DEF OnWay

(* The way goes on to where ".." leads.                                    *)
LEMMA WayBack ==
  ASSUME child \in Children, NEW e, NEW s, NEW t \in Seq(Segments), NEW l \in 0..MaxLinks,
         t # <<>>, Head(t) = DotDot, OnWay(e, s, t, l)
  PROVE  OnWay(e, IF s = <<>> THEN <<>> ELSE Front(s), Tail(t), l)
<1>1. PICK x \in Dir : InTree(x) /\ s \in Spellings(PathOf(x)) /\ Ends[<<x, t, MaxLinks - l>>] = e
  BY DEF OnWay, OnDir, OnFile
<1> DEFINE f == MaxLinks - l
           w == <<x, t, f>>
           o == <<Up[x], Tail(t), f>>
<1>2. f \in Nat /\ x \in Node /\ t \in Seq(Name \cup {DotDot})
  BY LinksAssumption DEF Node, Segments
<1> HIDE DEF f
<1>3. w \in Walk /\ w[1] = x /\ w[2] = t /\ w[3] = f
  BY <1>2, WalkParts
<1>4. Ends[w] = e
  BY <1>1 DEF f
<1> HIDE DEF w
<1>5. ~ Ended(w) /\ Onward(w) = o
  BY <1>3 DEF Ended, Onward
<1>6. Ends[o] = e
  BY <1>3, <1>4, <1>5, EndsSolveHere DEF EndsRight
<1>7. InTree(Up[x]) /\ Up[x] \in Dir
  BY <1>1, UpInTree
<1>8. (IF s = <<>> THEN <<>> ELSE Front(s)) \in Spellings(PathOf(Up[x]))
  BY <1>1, UpSpelled
<1> HIDE DEF o
<1>9. OnDir(e, IF s = <<>> THEN <<>> ELSE Front(s), Tail(t), l)
  BY <1>6, <1>7, <1>8 DEF OnDir, o, f
<1> QED BY <1>9 DEF OnWay

(* The name that realpath(3) takes for one that it has found is a spelling *)
(* of the name that the directory has for it.                              *)
LEMMA NameTaken ==
  ASSUME child \in Children, disk \in {"sensitive", "folds", "tells"},
         NEW x \in Dir, NEW n \in Name, Entry(x, n) # None
  PROVE  LET m == IF disk = "tells" THEN Spelled(x, n) ELSE n IN
         m \in Name /\ SpelledAs(m, Spelled(x, n))
<1>1. Spelled(x, n) \in Name /\ Alike(Spelled(x, n), n)
  BY FoundSpelled
<1>2. CASE disk = "tells"
  BY <1>1, <1>2 DEF SpelledAs
<1>3. CASE disk = "sensitive"
  BY <1>1, <1>3 DEF SpelledAs, Alike
<1>4. CASE disk = "folds"
  BY <1>1, <1>4 DEF SpelledAs, Alike
<1> QED BY <1>2, <1>3, <1>4

(* The way goes on to where a name leads, if it is one of a link that may  *)
(* be followed, of a directory, or of a file at the end; else it leads     *)
(* nowhere.                                                                *)
LEMMA WayOn ==
  ASSUME child \in Children, InPlace(child), disk \in {"sensitive", "folds", "tells"},
         NEW e, NEW s, NEW t \in Seq(Segments), NEW l \in 0..MaxLinks,
         t # <<>>, Head(t) # DotDot, OnWay(e, s, t, l)
  PROVE  \E x \in Dir :
         LET n == Head(t)
             y == Entry(x, n)
             m == IF disk = "tells" THEN Spelled(x, n) ELSE n
         IN
         /\ Where(Root, Absolute(s)) = x
         /\ y \in Link /\ l < MaxLinks =>
              OnWay(e, IF Target[y].abs THEN <<>> ELSE s, Target[y].names \o Tail(t), l + 1)
         /\ y \in Dir \/ (y \in File /\ Tail(t) = <<>>) => OnWay(e, Append(s, m), Tail(t), l)
         /\ ~ (y \in Link /\ l < MaxLinks) /\ ~ (y \in Dir \/ (y \in File /\ Tail(t) = <<>>)) =>
              e \notin Node
<1>1. PICK x \in Dir : InTree(x) /\ s \in Spellings(PathOf(x)) /\ Ends[<<x, t, MaxLinks - l>>] = e
  BY DEF OnWay, OnDir, OnFile
<1> DEFINE f == MaxLinks - l
           w == <<x, t, f>>
           n == Head(t)
           y == Entry(x, n)
           m == IF disk = "tells" THEN Spelled(x, n) ELSE n
<1>2. f \in Nat /\ x \in Node /\ t \in Seq(Name \cup {DotDot}) /\ (l < MaxLinks <=> f # 0)
      /\ MaxLinks \in Nat /\ l \in Nat
  BY LinksAssumption DEF Node, Segments
<1>3. Where(Root, Absolute(s)) = x
  BY <1>1, SpelledLeads
<1>4. n \in Name /\ Tail(t) \in Seq(Segments) /\ Tail(t) \in Seq(Name \cup {DotDot})
  <2>1. Head(t) \in Segments /\ Tail(t) \in Seq(Segments)
    BY HeadTailProperties
  <2> QED BY <2>1 DEF Segments
<1>5. y \in Node \cup {None}
  BY <1>4, EntryType
<1>6. w \in Walk /\ w[1] = x /\ w[2] = t /\ w[3] = f
  <2> HIDE DEF f
  <2> QED BY <1>2, WalkParts
<1>7. Ends[w] = e
  BY <1>1
<1>8. /\ Dir \cap File = {} /\ Dir \cap Link = {} /\ File \cap Link = {} /\ Root \in Dir
      /\ None \notin Node /\ Loop \notin Node
  BY KindsAssumption
<1> HIDE DEF w, f, y, m
<1>9. Found(w) = y
  BY <1>6 DEF Found, y
<1>10. /\ Ended(w) <=> y = None \/ (y \in Link /\ f = 0)
       /\ Ended(w) => EndOf(w) \in {None, Loop}
  BY <1>6, <1>9 DEF Ended, EndOf
<1>11. EndsRight
  BY EndsSolveHere
<1>12. ASSUME y \in Link, l < MaxLinks
       PROVE  OnWay(e, IF Target[y].abs THEN <<>> ELSE s, Target[y].names \o Tail(t), l + 1)
  <2> DEFINE z == IF Target[y].abs THEN Root ELSE x
             o == <<z, Target[y].names \o Tail(t), f - 1>>
  <2>1. ~ Ended(w)
    BY <1>2, <1>8, <1>10, <1>12 DEF Node
  <2>2. Onward(w) = o
    BY <1>6, <1>9, <1>12 DEF Onward
  <2>3. Ends[o] = e
    BY <1>6, <1>7, <1>11, <2>1, <2>2 DEF EndsRight
  <2>4. MaxLinks - (l + 1) = f - 1
    BY <1>2 DEF f
  <2>5. z \in Dir /\ InTree(z) /\ (IF Target[y].abs THEN <<>> ELSE s) \in Spellings(PathOf(z))
    BY <1>1, <1>8, UpInTree, PlaceNames
  <2> HIDE DEF z
  <2>6. OnDir(e, IF Target[y].abs THEN <<>> ELSE s, Target[y].names \o Tail(t), l + 1)
    BY <2>3, <2>4, <2>5 DEF OnDir
  <2> QED BY <2>6 DEF OnWay
<1>13. ASSUME y \in Dir \cup File
       PROVE  /\ ~ Ended(w) /\ Onward(w) = <<y, Tail(t), f>> /\ Ends[<<y, Tail(t), f>>] = e
              /\ m \in Name /\ SpelledAs(m, Spelled(x, n)) /\ Spelled(x, n) \in Name
              /\ child[x][Spelled(x, n)] = y /\ Entry(x, Spelled(x, n)) = y
  <2>1. y # None /\ y \notin Link
    BY <1>8, <1>13 DEF Node
  <2>2. ~ Ended(w)
    BY <1>10, <2>1
  <2>3. Onward(w) = <<y, Tail(t), f>>
    BY <1>6, <1>9, <2>1 DEF Onward
  <2>4. Ends[<<y, Tail(t), f>>] = e
    BY <1>6, <1>7, <1>11, <2>2, <2>3 DEF EndsRight
  <2>5. Entry(x, n) # None /\ Entry(x, n) = y
    BY <2>1 DEF y
  <2>6. m \in Name /\ SpelledAs(m, Spelled(x, n))
    BY <1>4, <2>5, NameTaken DEF m
  <2>7. Spelled(x, n) \in Name /\ child[x][Spelled(x, n)] = y /\ Entry(x, Spelled(x, n)) = y
    BY <1>4, <2>5, FoundSpelled DEF Alike
  <2> QED BY <2>2, <2>3, <2>4, <2>6, <2>7
<1>14. PathOf(x) \in Seq(Name)
  BY PlaceNames
<1>15. ASSUME y \in Dir PROVE OnWay(e, Append(s, m), Tail(t), l)
  <2>1. y # Root /\ Up[y] = x /\ NameOf[y] = Spelled(x, n) /\ InTree(y)
    BY <1>1, <1>4, <1>15, ChildInTree DEF y
  <2>2. PathOf(y) = Append(PathOf(x), Spelled(x, n))
    BY <1>15, <2>1, PlaceNames
  <2>3. Append(s, m) \in Spellings(PathOf(y))
    BY <1>1, <1>13, <1>14, <1>15, <2>2, SpellingsAppend
  <2>4. Ends[<<y, Tail(t), MaxLinks - l>>] = e
    BY <1>13, <1>15 DEF f
  <2> QED BY <1>15, <2>1, <2>3, <2>4 DEF OnWay, OnDir
<1>16. ASSUME y \in File
       PROVE  IF Tail(t) = <<>> THEN OnWay(e, Append(s, m), Tail(t), l) ELSE e \notin Node
  <2> DEFINE o == <<y, Tail(t), f>>
  <2>1. o \in Walk /\ o[1] = y /\ o[2] = Tail(t)
    BY <1>2, <1>4, <1>16, WalkParts DEF Node
  <2>2. Ends[o] = e
    BY <1>13, <1>16
  <2> HIDE DEF o
  <2>3. y \notin Dir
    BY <1>8, <1>16
  <2>4. Ended(o) /\ EndOf(o) = IF Tail(t) = <<>> THEN y ELSE None
    BY <2>1, <2>3 DEF Ended, EndOf
  <2>5. e = IF Tail(t) = <<>> THEN y ELSE None
    BY <1>11, <2>1, <2>2, <2>4 DEF EndsRight
  <2>6. Append(s, m) \in Spellings(Append(PathOf(x), Spelled(x, n)))
    BY <1>1, <1>13, <1>14, <1>16, SpellingsAppend
  <2>7. ASSUME Tail(t) = <<>> PROVE OnFile(e, Append(s, m), Tail(t))
    BY <1>1, <1>13, <1>16, <2>5, <2>6, <2>7 DEF OnFile
  <2> QED BY <1>8, <2>5, <2>7 DEF OnWay
<1>17. ASSUME y = None \/ (y \in Link /\ ~ (l < MaxLinks)) PROVE e \notin Node
  <2>1. Ended(w)
    BY <1>2, <1>10, <1>17
  <2>2. e = EndOf(w)
    BY <1>6, <1>7, <1>11, <2>1 DEF EndsRight
  <2> QED BY <1>8, <1>10, <2>1, <2>2
<1>18. /\ y \in Link /\ l < MaxLinks =>
            OnWay(e, IF Target[y].abs THEN <<>> ELSE s, Target[y].names \o Tail(t), l + 1)
       /\ y \in Dir \/ (y \in File /\ Tail(t) = <<>>) => OnWay(e, Append(s, m), Tail(t), l)
       /\ ~ (y \in Link /\ l < MaxLinks) /\ ~ (y \in Dir \/ (y \in File /\ Tail(t) = <<>>)) =>
            e \notin Node
  BY <1>5, <1>12, <1>15, <1>16, <1>17 DEF Node
<1> QED BY <1>3, <1>18 DEF y, m

-----------------------------------------------------------------------------
(***************************************************************************)
(* The path that the call canonicalizes if it reads the working directory  *)
(* when it is d, g is what it has canonicalized before, and how many names *)
(* of that path realpath(3) is asked for.                                  *)
(***************************************************************************)
Given    == IF call.op = "realpath" THEN call.path ELSE Expanduser(call.path)
Rebases  == call.op = "resolve" /\ (Given = Nothing \/ ~ Given.abs)
Canonizes == call.op \in {"realpath", "canonical", "resolve"} \/ (Relative /\ ~ InC)

IsMoment(d, g, a) ==
  /\ Canonizes /\ a # Nothing
  /\ Relative => /\ a = (IF g = Nothing THEN call.path ELSE call.base)
                 /\ g # Nothing => g \in Weakly(d, call.path)
  /\ ~ Relative => IF Rebases THEN Linked(d) /\ a = Rebased(d) ELSE a = Given

LedTo(d, a, k) == \A j \in 0..k : Leads(d, Upto(a, j))

Breaks(d, a, k) ==
  /\ k < Len(a.names) /\ ~ Leads(d, a) /\ LedTo(d, a, k)
  /\ Where(d, Upto(a, k + 1)) \notin Node \cup {Loop}

IsKnown(d, a, k) ==
  IF InC \/ Strict THEN k = Len(a.names)
  ELSE (k = Len(a.names) /\ Leads(d, a)) \/ (Breaks(d, a, k) /\ (k # 0 \/ a.abs))

(* fs_relative_to and fs_proximate_to ask for two paths that may be there. *)
LEMMA RelativeCalls ==
  ASSUME call \in Calls, Relative
  PROVE  call.path \in Path /\ call.base \in Path /\ call.base # Nothing /\ ~ Strict
BY CallsAssumption, NothingAssumption DEF Relative, Strict, Call

(* What is expected of the call is what is expected of that path,          *)
LEMMA ExpectedThen ==
  ASSUME NEW d, NEW g, NEW a, IsMoment(d, g, a), ~ Relative
  PROVE  Expected(d) = AtOnce(d, a)
<1>1. /\ call.op \in {"realpath", "canonical", "resolve"} /\ a # Nothing
      /\ Given = (IF call.op = "realpath" THEN call.path ELSE Expanduser(call.path))
  BY DEF IsMoment, Given, Canonizes
<1> DEFINE p == IF call.op = "realpath" THEN call.path ELSE Expanduser(call.path)
<1>2. CASE Rebases
  <2>1. call.op = "resolve" /\ (p = Nothing \/ ~ p.abs) /\ Linked(d) /\ a = Rebased(d)
    BY <1>2 DEF IsMoment, Rebases, Given
  <2> QED BY <2>1 DEF Expected
<1>3. CASE ~ Rebases
  <2>1. /\ a = p /\ p # Nothing /\ call.op # "get_cwd"
        /\ ~ (call.op = "resolve" /\ (p = Nothing \/ ~ p.abs))
    BY <1>1, <1>3 DEF IsMoment, Rebases, Given
  <2> QED BY <1>1, <2>1 DEF Expected
<1> QED BY <1>2, <1>3

(* or of two paths, one after the other.                                   *)
LEMMA ExpectedOfBoth ==
  ASSUME Relative, ~ InC, NEW d
  PROVE  /\ Nothing \in Weakly(d, call.path) => Nothing \in Expected(d)
         /\ \A q \in Weakly(d, call.path), c \in Weakly(d, call.base) :
              q # Nothing => (IF c = Nothing THEN Nothing ELSE Related(q, c)) \in Expected(d)
<1> DEFINE Of(q) == IF q = Nothing THEN {Nothing}
                    ELSE {IF c = Nothing THEN Nothing ELSE Related(q, c) : c \in Weakly(d, call.base)}
<1>1. Expected(d) = UNION {Of(q) : q \in Weakly(d, call.path)}
  BY DEF Expected, BothWeakly, Relative
<1>2. ASSUME NEW q \in Weakly(d, call.path), NEW r \in Of(q) PROVE r \in Expected(d)
  BY <1>1
<1>3. Nothing \in Of(Nothing)
  OBVIOUS
<1>4. ASSUME NEW q, NEW c \in Weakly(d, call.base), q # Nothing
      PROVE  (IF c = Nothing THEN Nothing ELSE Related(q, c)) \in Of(q)
  BY <1>4
<1> HIDE DEF Of
<1> QED BY <1>2, <1>3, <1>4

(* The whole of a path.                                                    *)
LEMMA WholePath ==
  ASSUME NEW a \in Path
  PROVE  Upto(a, Len(a.names)) = a /\ After(a, Len(a.names)) = <<>> /\ Len(a.names) \in Nat
<1>1. a.names \in Seq(Segments) /\ Len(a.names) \in Nat
  BY LenProperties DEF Path, Segments
<1>2. SubSeq(a.names, 1, Len(a.names)) = a.names
  BY <1>1, SubSeqFull
<1>3. SubSeq(a.names, Len(a.names) + 1, Len(a.names)) = <<>>
  BY <1>1, SubSeqEmpty
<1> QED BY <1>1, <1>2, <1>3 DEF Upto, After, Path

(* The part of a path that is there ends where the first name is missing.  *)
LEMMA WeaklyThen ==
  ASSUME child \in Children, NEW d \in Dir, NEW a \in Path, NEW k \in Nat, Breaks(d, a, k)
  PROVE  Weakly(d, a) =
           IF k = 0 /\ ~ a.abs THEN {Normal(a)}
           ELSE {IF q = Nothing THEN q ELSE Normal(Absolute(q.names \o After(a, k))) :
                   q \in Exactly(d, Upto(a, k))}
<1> DEFINE n == Len(a.names)
           Is(i) == /\ \A j \in 0..i : Leads(d, Upto(a, j))
                    /\ i < n => ~ Leads(d, Upto(a, i + 1))
           K == CHOOSE i \in 0..n : Is(i)
<1>1. n \in Nat /\ k < n /\ ~ Leads(d, a) /\ (\A j \in 0..k : Leads(d, Upto(a, j)))
      /\ Where(d, Upto(a, k + 1)) \notin Node \cup {Loop}
  BY WholePath DEF Breaks, LedTo
<1>2. ~ Leads(d, Upto(a, k + 1))
  BY <1>1 DEF Leads
<1>3. k \in 0..n /\ Is(k)
  BY <1>1, <1>2
<1>4. ASSUME NEW i \in 0..n, Is(i) PROVE i = k
  <2>1. ~ (i > k)
    <3> SUFFICES ASSUME i > k PROVE FALSE
      OBVIOUS
    <3>1. k + 1 \in 0..i
      BY <1>1
    <3> QED BY <1>2, <1>4, <3>1
  <2>2. ~ (i < k)
    <3> SUFFICES ASSUME i < k PROVE FALSE
      OBVIOUS
    <3>1. i + 1 \in 0..k /\ i < n
      BY <1>1
    <3> QED BY <1>1, <1>4, <3>1
  <2> QED BY <1>1, <2>1, <2>2
<1>5. K = k
  <2>1. K \in 0..n /\ Is(K)
    <3> HIDE DEF Is
    <3> QED BY <1>3
  <2> HIDE DEF K, Is
  <2> QED BY <1>4, <2>1
<1>6. ASSUME NEW i \in 0..n PROVE Where(d, Upto(a, i)) # Loop
  <2>1. CASE i \in 0..k
    BY <1>1, <2>1, KindsAssumption DEF Leads
  <2>2. CASE i \notin 0..k
    <3>1. k + 1 \in Nat /\ i \in Nat /\ k + 1 <= i /\ i <= n
      BY <1>1, <2>2
    <3>2. Where(d, Upto(a, i)) = Where(d, Upto(a, k + 1))
      BY <1>2, <3>1, LongerPath
    <3> QED BY <1>1, <3>2
  <2> QED BY <2>1, <2>2
<1>7. Weakly(d, a) =
        IF Leads(d, a) \/ (\E i \in 0..n : Where(d, Upto(a, i)) = Loop) THEN Exactly(d, a)
        ELSE IF K = 0 /\ ~ a.abs THEN {Normal(a)}
        ELSE {IF q = Nothing THEN q ELSE Normal(Absolute(q.names \o After(a, K))) :
                q \in Exactly(d, Upto(a, K))}
  BY Zenon DEF Weakly
<1> HIDE DEF K, Is
<1> QED BY <1>1, <1>5, <1>6, <1>7

(* What realpath(3) finds is expected.                                     *)
LEMMA FoundExpected ==
  ASSUME child \in Children, NEW d \in Dir, NEW a \in Path, NEW k \in 0..Len(a.names),
         IsKnown(d, a, k), a.abs \/ Linked(d),
         NEW s \in Seq(Name), NEW l \in 0..MaxLinks, OnWay(Where(d, Upto(a, k)), s, <<>>, l)
  PROVE  Normal(Absolute(s \o After(a, k))) \in AtOnce(d, a)
<1> DEFINE p == Upto(a, k)
           q == Absolute(s)
<1>2. p.abs = a.abs
  BY DEF Upto, Path
<1>3. Leads(d, p) /\ \E names \in Places(Where(d, p)) : s \in Spellings(names)
  BY WayEnds DEF Leads
<1>4. q \in Exactly(d, p)
  <2> HIDE DEF p, q
  <2>1. (p.abs \/ Linked(d)) /\ s \in UNION {Spellings(names) : names \in Places(Where(d, p))}
    BY <1>2, <1>3
  <2>2. Absolute(s) \in Exactly(d, p)
    BY <1>3, <2>1 DEF Exactly
  <2> QED BY <2>2 DEF q
<1>5. q # Nothing /\ q.names = s
  <2>1. s \in Seq(Name \cup {DotDot})
    BY SeqMonotonic
  <2>2. q \in PathsIn(Name) /\ q.names = s
    BY <2>1, AbsoluteType
  <2> HIDE DEF q
  <2> QED BY <2>2, PathsInNames
<1>6. CASE k = Len(a.names) /\ (InC \/ Strict \/ Leads(d, a))
  <2>1. p = a /\ s \o After(a, k) = s
    BY <1>6, WholePath, ConcatEmptySeq
  <2>2. Normal(Absolute(s \o After(a, k))) = q
    BY <2>1, NormalOfNames
  <2>3. q \in Exactly(d, a) /\ Exactly(d, a) # {Nothing}
    BY <1>4, <1>5, <2>1
  <2>4. ~ InC /\ ~ Strict => Weakly(d, a) = Exactly(d, a)
    BY <1>6 DEF Weakly
  <2> HIDE DEF p, q
  <2>5. q \in AtOnce(d, a)
    BY <2>3, <2>4 DEF AtOnce, OrNormal
  <2> QED BY <2>2, <2>5
<1>7. CASE ~ (k = Len(a.names) /\ (InC \/ Strict \/ Leads(d, a)))
  <2>1. ~ InC /\ ~ Strict /\ Breaks(d, a, k) /\ (k # 0 \/ a.abs)
    BY <1>7 DEF IsKnown
  <2>2. AtOnce(d, a) = Weakly(d, a)
    BY <2>1 DEF AtOnce
  <2>3. Weakly(d, a) = {IF r = Nothing THEN r ELSE Normal(Absolute(r.names \o After(a, k))) :
                          r \in Exactly(d, p)}
    BY <2>1, WeaklyThen
  <2> HIDE DEF p, q
  <2>4. Normal(Absolute(q.names \o After(a, k))) \in Weakly(d, a)
    BY <1>4, <1>5, <2>3
  <2> QED BY <1>5, <2>2, <2>4
<1> QED BY <1>6, <1>7

(* So is what comes of its failing.                                        *)
LEMMA FailExpected ==
  ASSUME child \in Children, NEW d \in Dir, NEW a \in Path, NEW k \in 0..Len(a.names),
         IsKnown(d, a, k),
         ~ (a.abs \/ Linked(d)) \/ ~ Leads(d, Upto(a, k))
  PROVE  (IF InC /\ ~ Strict THEN Normal(a) ELSE Nothing) \in AtOnce(d, a)
<1> DEFINE p == Upto(a, k)
<1>2. p.abs = a.abs
  BY DEF Upto, Path
<1>3. Exactly(d, p) = {Nothing}
  BY <1>2 DEF Exactly
<1>4. CASE k = Len(a.names) /\ (InC \/ Strict \/ Leads(d, a))
  <2>1. Exactly(d, a) = {Nothing}
    BY <1>3, <1>4, WholePath
  <2>2. ~ InC /\ ~ Strict => Weakly(d, a) = Exactly(d, a)
    BY <1>4 DEF Weakly
  <2> QED BY <2>1, <2>2 DEF AtOnce, OrNormal
<1>5. CASE ~ (k = Len(a.names) /\ (InC \/ Strict \/ Leads(d, a)))
  <2>1. ~ InC /\ ~ Strict /\ Breaks(d, a, k) /\ (k # 0 \/ a.abs)
    BY <1>5 DEF IsKnown
  <2>2. AtOnce(d, a) = Weakly(d, a)
    BY <2>1 DEF AtOnce
  <2>3. Weakly(d, a) = {IF r = Nothing THEN r ELSE Normal(Absolute(r.names \o After(a, k))) :
                          r \in Exactly(d, p)}
    BY <2>1, WeaklyThen
  <2>4. Nothing \in Weakly(d, a)
    BY <1>3, <2>3
  <2> QED BY <2>1, <2>2, <2>4
<1> QED BY <1>4, <1>5

(* So are the answers that weakly_canonical gives without realpath(3): the *)
(* normal form where nothing of a relative path is there,                  *)
LEMMA MissingExpected ==
  ASSUME child \in Children, NEW d \in Dir, NEW a \in Path, ~ InC, ~ Strict,
         Breaks(d, a, 0), ~ a.abs
  PROVE  Normal(a) \in AtOnce(d, a)
<1>1. AtOnce(d, a) = Weakly(d, a)
  BY DEF AtOnce
<1>2. Weakly(d, a) = {Normal(a)}
  BY WeaklyThen
<1> QED BY <1>1, <1>2

(* and nothing where there is a loop on the way.                           *)
LEMMA LoopExpected ==
  ASSUME NEW d \in Dir, NEW a \in Path, ~ InC, ~ Strict,
         ~ Leads(d, a), NEW i \in 0..Len(a.names), Where(d, Upto(a, i)) = Loop
  PROVE  Nothing \in AtOnce(d, a)
<1>1. AtOnce(d, a) = Weakly(d, a)
  BY DEF AtOnce
<1>2. Weakly(d, a) = Exactly(d, a)
  BY DEF Weakly
<1>3. Exactly(d, a) = {Nothing}
  BY DEF Exactly
<1> QED BY <1>1, <1>2, <1>3

-----------------------------------------------------------------------------
(***************************************************************************)
(* While no other program changes the tree, nothing that paths lead to     *)
(* does.                                                                   *)
(***************************************************************************)
TreeKept == child' = child /\ disk' = disk /\ call' = call

(* Paths lead where they led.                                              *)
LEMMA WhereSame ==
  ASSUME TreeKept, NEW d, NEW p
  PROVE  /\ Where(d, p)' = Where(d, p) /\ Ends' = Ends
         /\ (Leads(d, p)' <=> Leads(d, p)) /\ (Linked(d)' <=> Linked(d))
<1>1. ASSUME NEW b, NEW q PROVE Where(b, q)' = Where(b, q)
  BY DEF TreeKept, Where, Ended, EndOf, Onward, Found, Entry, Spelled, Alike
<1>2. Ends' = Ends
  BY DEF TreeKept, Ends, Step1, Ended, EndOf, Onward, Found, Entry, Spelled, Alike
<1> QED BY <1>1, <1>2 DEF Leads, Linked

(* Places and their spellings stay, and what the caller has asked for.     *)
LEMMA PlacesSame ==
  ASSUME TreeKept, NEW x
  PROVE  /\ Spellings(x)' = Spellings(x) /\ Places(x)' = Places(x) /\ Rebased(x)' = Rebased(x)
         /\ (Strict' <=> Strict) /\ (InC' <=> InC)
         /\ Given' = Given /\ (Rebases' <=> Rebases) /\ (Canonizes' <=> Canonizes)
         /\ (AsksOften' <=> AsksOften)
BY WhereSame DEF TreeKept, Spellings, Places, Entry, Spelled, Alike, Rebased, Strict, InC, Given,
                 Rebases, Canonizes, AsksOften, Relative

(* So do the answers that are expected.                                    *)
LEMMA ExpectedSame ==
  ASSUME TreeKept, NEW d
  PROVE  Expected(d)' = Expected(d) /\ (\A p : Weakly(d, p)' = Weakly(d, p))
<1>1. ASSUME NEW p PROVE Exactly(d, p)' = Exactly(d, p)
  BY WhereSame, PlacesSame DEF Exactly
<1>2. ASSUME NEW p PROVE Weakly(d, p)' = Weakly(d, p)
  BY DEF TreeKept, Weakly, Exactly, Leads, Linked, Spellings, Places, Where, Ended, EndOf, Onward,
         Found, Entry, Spelled, Alike
<1>3. ASSUME NEW p PROVE AtOnce(d, p)' = AtOnce(d, p)
  BY <1>1, <1>2, PlacesSame DEF AtOnce, OrNormal
<1>4. BothWeakly(d)' = BothWeakly(d)
  BY <1>2 DEF BothWeakly, Related, TreeKept
<1>5. Expected(d)' = Expected(d)
  BY <1>3, <1>4, WhereSame, PlacesSame DEF Expected, TreeKept, Relative
<1> QED BY <1>2, <1>5

-----------------------------------------------------------------------------
(***************************************************************************)
(* The invariant: at every step of the call there is a moment, one of the  *)
(* call so far, as of which it is doing the right thing.                   *)
(***************************************************************************)
Going == {"status", "scan", "realcwd", "real"}

(* d is the working directory of that moment, c the one of now.            *)
StageAt(d, c, step, g, a, k, s, t, l, r) ==
  /\ step \in Going => IsMoment(d, g, a)
  /\ step \in {"status", "scan"} => ~ InC /\ ~ Strict /\ (a.abs \/ d = c)
  /\ step = "status" => k = 0
  /\ step = "scan" => ~ Leads(d, a) /\ LedTo(d, a, k)
  /\ step \in {"realcwd", "real"} => IsKnown(d, a, k)
  /\ step = "realcwd" => ~ a.abs /\ d = c /\ t = Upto(a, k).names /\ l = 0
  /\ step = "real" => (a.abs \/ Linked(d)) /\ OnWay(Where(d, Upto(a, k)), s, t, l)
  /\ step = "done" => r \in Expected(d)

Stage(d)     == StageAt(d, cwd, pc, first, arg, known, dest, todo, links, answer)
NextStage(d) == StageAt(d, cwd', pc', first', arg', known', dest', todo', links', answer')

Often == AsksOften /\ \E c, d \in cwds : c # d

Followed == still /\ call.op \notin {"set_cwd", "is_case_sensitive"}

MomentInv ==
  Followed =>
    /\ InPlace(child) /\ IsFiniteSet(cwds)
    /\ pc # "idle" => cwd \in cwds
    /\ pc = "idle" => first = Nothing
    /\ pc = "getcwd" /\ call.op = "resolve" => Rebases
    /\ pc \in Going \cup {"done"} => Often \/ \E d \in cwds : Stage(d)

(* What is so of the next step as the tree is, is so as it is then.        *)
LEMMA StageSame ==
  ASSUME TreeKept, NEW d, NextStage(d)
  PROVE  Stage(d)'
<1>1. ASSUME NEW b, NEW g, NEW p PROVE (IsMoment(b, g, p)' <=> IsMoment(b, g, p))
  <2>1. \A q : Weakly(b, q)' = Weakly(b, q)
    BY ExpectedSame
  <2> QED BY <2>1, WhereSame, PlacesSame DEF IsMoment, TreeKept, Relative
<1>2. ASSUME NEW b, NEW p, NEW k PROVE (LedTo(b, p, k)' <=> LedTo(b, p, k))
  BY WhereSame DEF LedTo
<1>3. ASSUME NEW b, NEW p, NEW k PROVE (IsKnown(b, p, k)' <=> IsKnown(b, p, k))
  BY <1>2, WhereSame, PlacesSame DEF IsKnown, Breaks
<1>4. ASSUME NEW e, NEW s, NEW t, NEW l PROVE (OnWay(e, s, t, l)' <=> OnWay(e, s, t, l))
  <2>1. \A x : InTree(x)' <=> InTree(x)
    BY DEF TreeKept, InTree, Hangs, Entry, Spelled, Alike
  <2>2. OnFile(e, s, t)' <=> OnFile(e, s, t)
    BY <2>1, PlacesSame DEF OnFile, TreeKept, Entry, Spelled, Alike
  <2>3. OnDir(e, s, t, l)' <=> OnDir(e, s, t, l)
    BY <2>1, WhereSame, PlacesSame DEF OnDir
  <2> QED BY <2>2, <2>3 DEF OnWay
<1>5. ASSUME NEW b PROVE Expected(b)' = Expected(b)
  BY ExpectedSame
<1>6. ASSUME NEW c, NEW step, NEW g, NEW a, NEW k, NEW s, NEW t, NEW l, NEW r
      PROVE  StageAt(d, c, step, g, a, k, s, t, l, r)' <=> StageAt(d, c, step, g, a, k, s, t, l, r)
  BY <1>1, <1>2, <1>3, <1>4, <1>5, WhereSame, PlacesSame DEF StageAt
<1> QED BY <1>6 DEF Stage, NextStage

-----------------------------------------------------------------------------
(***************************************************************************)
(* One lemma for each way in which a step keeps the invariant.             *)
(***************************************************************************)
(* What every step of a call that is followed has in common.               *)
CallStep ==
  /\ CallInv /\ MomentInv /\ Followed /\ TreeKept
  /\ cwd' = cwd /\ cwds' = cwds \cup {cwd, cwd'}

(* It is enough that there is a moment for the next step.                  *)
LEMMA NextMoment ==
  ASSUME MomentInv, Followed, TreeKept, cwds \subseteq cwds', cwd' \in cwds', IsFiniteSet(cwds'),
         pc' # "idle", pc' = "getcwd" /\ call.op = "resolve" => Rebases,
         pc' \in Going \cup {"done"} =>
           (AsksOften /\ \E c, d \in cwds' : c # d) \/ \E d \in cwds' : NextStage(d)
  PROVE  MomentInv'
<1>1. InPlace(child) /\ InPlace(child)'
  BY DEF MomentInv, TreeKept, InPlace
<1>2. IsFiniteSet(cwds)' /\ (cwd \in cwds)' /\ (pc = "idle" => first = Nothing)'
  OBVIOUS
<1>3. (pc = "getcwd" /\ call.op = "resolve" => Rebases)'
  BY PlacesSame DEF TreeKept
<1>4. (pc \in Going \cup {"done"} => Often \/ \E d \in cwds : Stage(d))'
  <2> SUFFICES ASSUME pc' \in Going \cup {"done"} PROVE Often' \/ \E d \in cwds' : Stage(d)'
    BY DEF Going
  <2>1. ASSUME AsksOften, \E c, d \in cwds' : c # d PROVE Often'
    BY <2>1, PlacesSame DEF Often
  <2>2. \A d \in cwds' : NextStage(d) => Stage(d)'
    BY StageSame
  <2> QED BY <2>1, <2>2
<1> QED BY <1>1, <1>2, <1>3, <1>4 DEF MomentInv

(* So it is for a step of the call itself.                                 *)
LEMMA CallMoment ==
  ASSUME CallStep, pc' # "idle", pc' = "getcwd" /\ call.op = "resolve" => Rebases,
         pc' \in Going \cup {"done"} => Often \/ \E d \in cwds \cup {cwd} : NextStage(d)
  PROVE  MomentInv'
<1>1. cwds' = cwds \cup {cwd} /\ IsFiniteSet(cwds)
  BY DEF CallStep, MomentInv
<1>2. IsFiniteSet(cwds')
  BY <1>1, FS_AddElement
<1> QED BY <1>1, <1>2, NextMoment DEF CallStep, Often

(* A call that asks again and again may do so.                             *)
LEMMA OftenMoment ==
  ASSUME CallStep, Often, pc' # "idle"
  PROVE  MomentInv'
<1>1. call.op # "resolve"
  BY DEF Often, AsksOften, Relative
<1> QED BY <1>1, CallMoment

(* A call that goes on does not begin again.                               *)
LEMMA GoesOn ==
  ASSUME CallStep, Status \/ Scan \/ RealCwd \/ Real
  PROVE  pc' # "idle"
<1>1. ASSUME NEW p, Canonicalized(p) PROVE pc' # "idle"
  BY <1>1 DEF Canonicalized, Returns, Goes
<1>2. ASSUME NEW p, RealBegins(p) PROVE pc' # "idle"
  BY <1>2 DEF RealBegins, Goes
<1>3. CASE Status
  <2> DEFINE x == Where(cwd, arg)
  <2>1. Canonicalized(Nothing) \/ RealBegins(arg) \/ Goes("scan")
    <3>1. CASE x = Loop
      BY <1>3, <3>1, KindsAssumption DEF Status
    <3>2. CASE x \in Node
      BY <1>3, <3>2, KindsAssumption DEF Status
    <3>3. CASE x # Loop /\ x \notin Node
      BY <1>3, <3>3 DEF Status
    <3> QED BY <3>1, <3>2, <3>3
  <2> QED BY <1>1, <1>2, <2>1 DEF Goes
<1>4. CASE Scan
  <2> DEFINE x == Where(cwd, Upto(arg, known + 1))
  <2>1. Canonicalized(Nothing) \/ ScanEnds \/ ScanGoesOn
    <3>1. CASE known = Len(arg.names)
      BY <1>4, <3>1 DEF Scan
    <3>2. CASE known # Len(arg.names) /\ x = Loop
      BY <1>4, <3>2, KindsAssumption DEF Scan
    <3>3. CASE known # Len(arg.names) /\ x \in Node
      BY <1>4, <3>3, KindsAssumption DEF Scan
    <3>4. CASE known # Len(arg.names) /\ x # Loop /\ x \notin Node
      BY <1>4, <3>4 DEF Scan
    <3> QED BY <3>1, <3>2, <3>3, <3>4
  <2> QED BY <1>1, <1>2, <2>1 DEF Goes, ScanEnds, ScanGoesOn
<1>5. CASE RealCwd
  BY <1>1, <1>5 DEF RealCwd, RealFails, Goes
<1>6. CASE Real
  <2>1. CASE RealEnds
    BY <1>1, <2>1 DEF RealEnds
  <2>2. CASE RealBack
    BY <2>2 DEF RealBack, Goes
  <2>3. CASE RealName
    BY <1>1, <2>3 DEF RealName, RealFails, Follows, Goes
  <2> QED BY <1>6, <2>1, <2>2, <2>3 DEF Real
<1> QED BY <1>3, <1>4, <1>5, <1>6

(* An answer is expected as of some moment.                                *)
LEMMA ReturnsMoment ==
  ASSUME CallStep, NEW r, Returns(r), NEW d \in cwds \cup {cwd}, r \in Expected(d)
  PROVE  MomentInv'
<1>1. answer' = r /\ pc' = "done"
  BY DEF Returns, Goes
<1>2. NextStage(d)
  BY <1>1 DEF NextStage, StageAt, Going
<1> QED BY <1>1, <1>2, CallMoment

(* What is canonicalized is returned, or it is the first of two.           *)
LEMMA CanonicalizedMoment ==
  ASSUME CallStep, NEW p, Canonicalized(p), NEW d \in cwds, cwd \in cwds,
         IsMoment(d, first, arg), p \in AtOnce(d, arg)
  PROVE  MomentInv'
<1>1. call \in Calls /\ ~ Probe
  BY DEF CallStep, CallInv, StateInv, Followed, Probe
<1>2. CASE ~ Relative
  <2>1. Returns(p)
    BY <1>1, <1>2 DEF Canonicalized, Probe
  <2> QED BY <1>2, <2>1, ExpectedThen, ReturnsMoment
<1>3. CASE Relative
  <2>1. ~ InC /\ call.path \in Path /\ call.base \in Path /\ call.base # Nothing /\ ~ Strict
    BY <1>1, <1>3, RelativeCalls DEF IsMoment, Canonizes, Relative
  <2>2. p \in Weakly(d, arg) /\ arg = (IF first = Nothing THEN call.path ELSE call.base)
        /\ (first # Nothing => first \in Weakly(d, call.path))
    BY <1>3, <2>1 DEF AtOnce, IsMoment
  <2>3. CASE first # Nothing
    <3>1. Returns(IF p = Nothing THEN Nothing ELSE Related(first, p))
      BY <1>1, <1>3, <2>3 DEF Canonicalized, Probe
    <3>2. (IF p = Nothing THEN Nothing ELSE Related(first, p)) \in Expected(d)
      BY <1>3, <2>1, <2>2, <2>3, ExpectedOfBoth
    <3> QED BY <3>1, <3>2, ReturnsMoment
  <2>4. CASE first = Nothing /\ p = Nothing
    <3>1. Returns(Nothing)
      BY <1>1, <2>4 DEF Canonicalized, Probe
    <3>2. Nothing \in Expected(d)
      BY <1>3, <2>1, <2>2, <2>4, ExpectedOfBoth
    <3> QED BY <3>1, <3>2, ReturnsMoment
  <2>5. CASE first = Nothing /\ p # Nothing
    <3>1. first' = p /\ arg' = call.base /\ known' = 0 /\ pc' = "status"
      BY <1>1, <1>3, <2>5 DEF Canonicalized, Goes, Probe
    <3>2. IsMoment(d, p, call.base)
      BY <1>3, <2>1, <2>2, <2>5 DEF IsMoment, Canonizes
    <3>3. CASE call.base.abs \/ d = cwd
      <4>1. NextStage(d)
        BY <2>1, <3>1, <3>2, <3>3 DEF NextStage, StageAt, Going, CallStep
      <4> QED BY <3>1, <4>1, CallMoment
    <3>4. CASE ~ (call.base.abs \/ d = cwd)
      <4>1. Often
        BY <1>3, <2>1, <3>4 DEF Often, AsksOften
      <4> QED BY <3>1, <4>1, OftenMoment
    <3> QED BY <3>3, <3>4
  <2> QED BY <2>3, <2>4, <2>5
<1> QED BY <1>2, <1>3

(* A path that leads from the working directory of the moment leads from   *)
(* that of now, if it is absolute or they are the same.                    *)
LEMMA FromHere ==
  ASSUME NEW c, NEW d, NEW p, p.abs \/ d = c
  PROVE  Where(c, p) = Where(d, p)
BY WhereIsEnd

(* Nothing of a path leads to where it begins.                             *)
LEMMA NothingLeads ==
  ASSUME child \in Children, NEW d \in Dir, NEW a \in Path
  PROVE  LedTo(d, a, 0)
<1> DEFINE p == Upto(a, 0)
           w == <<IF p.abs THEN Root ELSE d, p.names, MaxLinks>>
<1>1. p.abs = a.abs /\ p.names = SubSeq(a.names, 1, 0)
  BY DEF Upto, Path
<1>2. p.names = <<>>
  <2>1. SubSeq(a.names, 1, 0) = <<>>
    BY SubSeqEmpty
  <2> HIDE DEF p
  <2> QED BY <1>1, <2>1
<1>3. p \in Path
  <2>1. a \in PathsIn(Name) /\ PathsIn(Name) = Path /\ 0 \in 0..Len(a.names)
    BY PathsInNames, WholePath
  <2> QED BY <2>1, CutType
<1> HIDE DEF p
<1>4. w \in Walk /\ w[1] \in Dir /\ w[2] = <<>> /\ Where(d, p) = Ends[w]
  BY <1>2, <1>3, WhereOf, KindsAssumption
<1> HIDE DEF w
<1>5. Ends[w] = w[1]
  BY <1>4, EndsSolveHere DEF EndsRight, Ended, EndOf
<1>6. Leads(d, p)
  BY <1>4, <1>5 DEF Leads, Node
<1>7. \A j \in 0..0 : j = 0
  OBVIOUS
<1> QED BY <1>6, <1>7 DEF LedTo, p

(* realpath(3) begins with what is known of a path.                        *)
LEMMA RealBeginsMoment ==
  ASSUME CallStep, NEW a \in Path, NEW k \in 0..Len(a.names), arg' = a, known' = k,
         RealBegins(Upto(a, k)), NEW d \in cwds \cup {cwd}, d \in Dir,
         IsMoment(d, first, a), IsKnown(d, a, k), a.abs \/ d = cwd
  PROVE  MomentInv'
<1> DEFINE p == Upto(a, k)
<1>1. p.abs = a.abs /\ a.abs \in BOOLEAN /\ p \in Path
  <2>1. a \in PathsIn(Name) /\ PathsIn(Name) = Path
    BY PathsInNames
  <2>2. Upto(a, k) \in PathsIn(Name) /\ Upto(a, k).abs = a.abs
    BY <2>1, CutType
  <2> QED BY <2>1, <2>2 DEF Path
<1>2. /\ pc' = (IF p.abs THEN "real" ELSE "realcwd")
      /\ dest' = <<>> /\ todo' = p.names /\ links' = 0 /\ first' = first
  BY DEF RealBegins, Goes
<1>3. CASE a.abs
  <2>1. Where(d, p) = Ends[<<Root, p.names, MaxLinks>>]
    <3> HIDE DEF p
    <3> QED BY <1>1, <1>3, WhereIsEnd
  <2>2. MaxLinks - 0 = MaxLinks
    BY LinksAssumption
  <2>3. Root \in Dir /\ InTree(Root) /\ <<>> \in Spellings(PathOf(Root))
    BY KindsAssumption, PlaceNames DEF InTree, Hangs
  <2>4. OnWay(Where(d, p), <<>>, p.names, 0)
    BY <2>1, <2>2, <2>3 DEF OnWay, OnDir
  <2> HIDE DEF p
  <2>5. pc' = "real" /\ NextStage(d)
    BY <1>1, <1>2, <1>3, <2>4 DEF NextStage, StageAt, Going, p
  <2> QED BY <2>5, CallMoment
<1>4. CASE ~ a.abs
  <2>1. pc' = "realcwd" /\ d = cwd
    BY <1>1, <1>2, <1>4
  <2>2. NextStage(d)
    BY <1>2, <1>4, <2>1 DEF NextStage, StageAt, Going, CallStep
  <2> QED BY <2>1, <2>2, CallMoment
<1> QED BY <1>1, <1>3, <1>4

(* A call begins to canonicalize a path.                                   *)
LEMMA CanonicalMoment ==
  ASSUME CallStep, NEW a \in Path \cup {Nothing}, Canonical(a),
         a = Nothing => Nothing \in Expected(cwd),
         a # Nothing => IsMoment(cwd, first, a)
  PROVE  MomentInv'
<1>1. cwd \in Dir /\ cwd' = cwd
  BY DEF CallStep, CallInv, StateInv
<1>2. CASE a = Nothing
  BY <1>2, ReturnsMoment DEF Canonical
<1>3. CASE a # Nothing /\ (InC \/ Strict)
  <2>1. a \in Path /\ arg' = a /\ RealBegins(a) /\ known' = Len(a.names)
    BY <1>3 DEF Canonical
  <2>2. Upto(a, Len(a.names)) = a /\ Len(a.names) \in 0..Len(a.names)
    BY <2>1, WholePath
  <2>3. IsKnown(cwd, a, Len(a.names))
    BY <1>3 DEF IsKnown
  <2>4. RealBegins(Upto(a, Len(a.names)))
    BY <2>1, <2>2
  <2> QED BY <1>1, <1>3, <2>1, <2>2, <2>3, <2>4, RealBeginsMoment
<1>4. CASE a # Nothing /\ ~ (InC \/ Strict)
  <2>1. arg' = a /\ pc' = "status" /\ known' = 0 /\ first' = first
    BY <1>4 DEF Canonical, Goes
  <2>2. NextStage(cwd)
    BY <1>1, <1>4, <2>1 DEF NextStage, StageAt, Going
  <2> QED BY <2>1, <2>2, CallMoment
<1> QED BY <1>2, <1>3, <1>4

-----------------------------------------------------------------------------
(***************************************************************************)
(* One lemma per action: it keeps the moment.                              *)
(***************************************************************************)
(* The call begins with its own path, or reads the working directory.      *)
LEMMA BeginMoment ==
  ASSUME CallStep, Begin
  PROVE  MomentInv'
<1>1. /\ call \in Calls /\ call \in Call /\ call.path \in Path \cup {Nothing} /\ first = Nothing
      /\ Relative \/ call.op \in {"get_cwd", "realpath", "canonical", "resolve"}
      /\ Relative => ~ (call.op \in {"get_cwd", "realpath", "canonical", "resolve"})
  <2>1. call \in Calls /\ call \in Call /\ MomentInv /\ Followed
    BY CallsAssumption DEF CallStep, CallInv, StateInv
  <2>2. first = Nothing
    BY <2>1 DEF Begin, Asks, MomentInv
  <2>3. call.op \in Ops /\ call.path \in Path \cup {Nothing}
    BY <2>1 DEF Call
  <2> QED BY <2>1, <2>2, <2>3 DEF Followed, Relative, Ops
<1>2. Expanduser(Nothing) = Nothing /\ Expanduser(call.path) \in Path \cup {Nothing}
      /\ (call.path # Nothing => Expanduser(call.path) # Nothing)
  <2>1. PathsIn(Name) = Path /\ Others \subseteq Name /\ Name \in SUBSET Name
    BY PathsInNames DEF Others
  <2>2. Expanduser(Nothing) = Nothing
    BY DEF Expanduser
  <2> QED BY <1>1, <2>1, <2>2, ExpanduserType
<1>3. CASE call.op = "get_cwd"
  <2>1. pc' = "getcwd"
    BY <1>3 DEF Begin, Goes, Relative
  <2> QED BY <1>3, <2>1, CallMoment DEF Going
<1>4. CASE call.op = "resolve" /\ ~ (call.path # Nothing /\ Expanduser(call.path).abs)
  <2>1. pc' = "getcwd"
    BY <1>4 DEF Begin, Goes, Relative
  <2>2. Rebases
    BY <1>2, <1>4 DEF Rebases, Given
  <2> QED BY <2>1, <2>2, CallMoment DEF Going
<1>5. CASE /\ call.op \in {"realpath", "canonical", "resolve"}
           /\ call.op = "resolve" => call.path # Nothing /\ Expanduser(call.path).abs
  <2>1. Canonical(Given)
    BY <1>1, <1>5 DEF Begin, Given
  <2>2. Given \in Path \cup {Nothing} /\ ~ Rebases /\ (call.op = "resolve" => Given # Nothing)
    BY <1>1, <1>2, <1>5 DEF Given, Rebases
  <2>3. Given = Nothing => Nothing \in Expected(cwd)
    <3> SUFFICES ASSUME Given = Nothing PROVE Nothing \in Expected(cwd)
      OBVIOUS
    <3>1. call.op \in {"realpath", "canonical"}
      BY <1>5, <2>2
    <3> QED BY <3>1 DEF Expected, Given, Relative
  <2>4. Given # Nothing => IsMoment(cwd, first, Given)
    BY <1>1, <1>5, <2>2 DEF IsMoment, Canonizes
  <2> QED BY <2>1, <2>2, <2>3, <2>4, CanonicalMoment
<1>6. CASE Relative /\ InC
  <2>1. Returns(Nothing)
    BY <1>1, <1>6 DEF Begin, Relative
  <2>2. Nothing \in Expected(cwd)
    BY <1>6 DEF Expected, Relative
  <2> QED BY <2>1, <2>2, ReturnsMoment
<1>7. CASE Relative /\ ~ InC
  <2>1. Canonical(call.path)
    BY <1>1, <1>7 DEF Begin, Relative
  <2>2. call.path \in Path /\ call.path # Nothing
    BY <1>1, <1>7, RelativeCalls, NothingAssumption
  <2>3. IsMoment(cwd, first, call.path)
    BY <1>1, <1>7, <2>2 DEF IsMoment, Canonizes
  <2> QED BY <2>1, <2>2, <2>3, CanonicalMoment
<1> QED BY <1>1, <1>3, <1>4, <1>5, <1>6, <1>7

(* fs_get_cwd, and the path that fs_resolve makes of it.                   *)
LEMMA GetCwdMoment ==
  ASSUME CallStep, GetCwd
  PROVE  MomentInv'
<1>1. /\ pc = "getcwd" /\ call.op \in {"get_cwd", "resolve"} /\ (call.op = "resolve" => Rebases)
      /\ cwd \in Dir /\ call.path \in Path \cup {Nothing}
  <2>1. pc = "getcwd" /\ StateInv /\ StepInv /\ MomentInv /\ Followed
    BY DEF CallStep, CallInv, WalkInv, GetCwd, Asks
  <2>2. call \in Call
    BY <2>1, CallsAssumption DEF StateInv
  <2> QED BY <2>1, <2>2 DEF StateInv, StepInv, MomentInv, Call
<1> DEFINE p == IF call.op = "realpath" THEN call.path ELSE Expanduser(call.path)
<1>2. call.op = "resolve" => (p = Nothing \/ ~ p.abs)
  BY <1>1 DEF Rebases, Given
<1>3. CASE ~ Linked(cwd)
  <2>1. Returns(Nothing)
    BY <1>3 DEF GetCwd
  <2>2. Nothing \in Expected(cwd)
    BY <1>1, <1>2, <1>3 DEF Expected, Relative
  <2> QED BY <2>1, <2>2, ReturnsMoment
<1>4. CASE Linked(cwd) /\ call.op = "get_cwd"
  <2>1. Returns(Absolute(PathOf(cwd)))
    BY <1>4 DEF GetCwd
  <2>2. Absolute(PathOf(cwd)) \in Expected(cwd)
    BY <1>4 DEF Expected, Relative
  <2> QED BY <2>1, <2>2, ReturnsMoment
<1>5. CASE Linked(cwd) /\ call.op = "resolve"
  <2>1. Canonical(Rebased(cwd))
    BY <1>5 DEF GetCwd
  <2>2. Rebased(cwd) \in Path
    BY <1>1, RebasedType
  <2>3. Rebased(cwd) # Nothing
    BY <2>2, NothingAssumption
  <2>4. IsMoment(cwd, first, Rebased(cwd))
    BY <1>1, <1>5, <2>3 DEF IsMoment, Canonizes, Relative
  <2> QED BY <2>1, <2>2, <2>3, <2>4, CanonicalMoment
<1> QED BY <1>1, <1>3, <1>4, <1>5

(* What is known at the steps of canonicalizing.                           *)
LEMMA GoingOn ==
  ASSUME CallInv, MomentInv, Followed, pc \in Going
  PROVE  /\ Canonizes /\ child \in Children /\ cwd \in Dir /\ cwd \in cwds /\ cwds \subseteq Dir
         /\ InPlace(child) /\ disk \in {"sensitive", "folds", "tells"}
         /\ arg \in Path /\ known \in 0..Len(arg.names) /\ Len(arg.names) \in Nat
         /\ dest \in Seq(Name) /\ todo \in Seq(Segments) /\ links \in 0..MaxLinks
         /\ Often \/ \E d \in cwds : Stage(d)
<1>1. /\ WorkInv /\ StateInv /\ arg \in PathsIn(Letters) /\ PathsIn(Letters) \subseteq Path
      /\ known \in 0..Len(arg.names) /\ Len(arg.names) \in Nat /\ Canonicalizes
  BY Canonicalizing, LettersType DEF Going, CallInv
<1>2. Seq(Letters) \subseteq Seq(Name) /\ Seq(Letters \cup {DotDot}) \subseteq Seq(Segments)
  BY LettersType, SeqMonotonic DEF Segments
<1>3. Canonizes
  <2>1. call.op \in Ops /\ (Relative => ~ InC) /\ call.op \notin {"get_cwd", "set_cwd", "is_case_sensitive"}
    BY <1>1, CallsAssumption DEF Canonicalizes, Followed, Call, StateInv
  <2> QED BY <2>1 DEF Canonizes, Ops, Relative
<1>4. /\ InPlace(child) /\ cwd \in cwds /\ (Often \/ \E d \in cwds : Stage(d))
  BY DEF MomentInv, Going
<1> QED BY <1>1, <1>2, <1>3, <1>4 DEF WorkInv, StateInv

(* weakly_canonical has asked for the whole path,                          *)
LEMMA StatusMoment ==
  ASSUME CallStep, Status
  PROVE  MomentInv'
<1>1. pc = "status" /\ pc \in Going
  BY DEF Status, Asks, Going
<1>2. CASE Often
  BY <1>2, GoesOn, OftenMoment
<1>3. CASE ~ Often
  <2>1. PICK d \in cwds : Stage(d)
    BY <1>1, <1>3, GoingOn DEF CallStep
  <2>2. /\ cwd \in cwds /\ child \in Children /\ d \in Dir /\ arg \in Path /\ Len(arg.names) \in Nat
    BY <1>1, GoingOn DEF CallStep
  <2>3. IsMoment(d, first, arg) /\ ~ InC /\ ~ Strict /\ (arg.abs \/ d = cwd) /\ known = 0
    BY <1>1, <2>1 DEF Stage, StageAt
  <2> DEFINE x == Where(cwd, arg)
  <2>4. x = Where(d, arg)
    BY <2>3, FromHere
  <2>5. Upto(arg, Len(arg.names)) = arg
    BY <2>2, WholePath
  <2> HIDE DEF x
  <2>6. CASE x = Loop
    <3>1. Canonicalized(Nothing)
      BY <2>6, KindsAssumption DEF Status, x
    <3>2. ~ Leads(d, arg)
      BY <2>4, <2>6, KindsAssumption DEF Leads
    <3>3. Nothing \in AtOnce(d, arg)
      <4>1. Len(arg.names) \in 0..Len(arg.names) /\ Where(d, Upto(arg, Len(arg.names))) = Loop
        BY <2>2, <2>4, <2>5, <2>6
      <4> QED BY <2>2, <2>3, <3>2, <4>1, LoopExpected
    <3> QED BY <2>2, <2>3, <3>1, <3>3, CanonicalizedMoment
  <2>7. CASE x \in Node
    <3>1. RealBegins(arg) /\ known' = Len(arg.names) /\ arg' = arg
      BY <2>7, KindsAssumption DEF Status, x
    <3>2. IsKnown(d, arg, Len(arg.names))
      BY <2>3, <2>4, <2>7 DEF IsKnown, Leads
    <3>3. RealBegins(Upto(arg, Len(arg.names))) /\ Len(arg.names) \in 0..Len(arg.names)
      BY <2>2, <2>5, <3>1
    <3> QED BY <2>2, <2>3, <3>1, <3>2, <3>3, RealBeginsMoment
  <2>8. CASE x \notin Node /\ x # Loop
    <3>1. pc' = "scan" /\ first' = first /\ arg' = arg /\ known' = 0
      BY <2>3, <2>8 DEF Status, Goes, x
    <3>2. ~ Leads(d, arg) /\ LedTo(d, arg, 0)
      BY <2>2, <2>4, <2>8, NothingLeads DEF Leads
    <3>3. NextStage(d)
      BY <2>3, <3>1, <3>2 DEF NextStage, StageAt, Going, CallStep
    <3> QED BY <3>1, <3>3, CallMoment
  <2> QED BY <2>6, <2>7, <2>8
<1> QED BY <1>2, <1>3

(* and asks for one beginning of it after the other.                       *)
LEMMA ScanMoment ==
  ASSUME CallStep, Scan
  PROVE  MomentInv'
<1>1. pc = "scan" /\ pc \in Going
  BY DEF Scan, Asks, Going
<1>2. CASE Often
  BY <1>2, GoesOn, OftenMoment
<1>3. CASE ~ Often
  <2>1. PICK d \in cwds : Stage(d)
    BY <1>1, <1>3, GoingOn DEF CallStep
  <2>2. /\ cwd \in cwds /\ child \in Children /\ d \in Dir /\ arg \in Path /\ Len(arg.names) \in Nat
        /\ known \in 0..Len(arg.names)
    BY <1>1, GoingOn DEF CallStep
  <2>3. /\ IsMoment(d, first, arg) /\ ~ InC /\ ~ Strict /\ (arg.abs \/ d = cwd)
        /\ ~ Leads(d, arg) /\ LedTo(d, arg, known)
    BY <1>1, <2>1 DEF Stage, StageAt
  <2> DEFINE p == Upto(arg, known + 1)
             x == Where(cwd, p)
  <2>4. known # Len(arg.names)
    <3> SUFFICES ASSUME known = Len(arg.names) PROVE FALSE
      OBVIOUS
    <3>1. known \in 0..known
      BY <2>2
    <3>2. Leads(d, Upto(arg, known))
      BY <2>3, <3>1 DEF LedTo
    <3> QED BY <2>2, <2>3, <3>2, WholePath
  <2>5. known + 1 \in 0..Len(arg.names) /\ known < Len(arg.names) /\ known \in Nat
    BY <2>2, <2>4
  <2>6. x = Where(d, p)
    <3>1. p.abs = arg.abs
      BY <2>2 DEF Upto, Path
    <3> HIDE DEF p
    <3> QED BY <2>3, <3>1, FromHere
  <2>7. /\ x = Loop => Canonicalized(Nothing)
        /\ x # Loop /\ x \in Node => ScanGoesOn
        /\ x # Loop /\ x \notin Node => ScanEnds
    BY <2>4, KindsAssumption DEF Scan
  <2> HIDE DEF x
  <2>8. CASE x = Loop
    <3>1. Nothing \in AtOnce(d, arg)
      BY <2>2, <2>3, <2>5, <2>6, <2>8, LoopExpected
    <3> QED BY <2>2, <2>3, <2>7, <2>8, <3>1, CanonicalizedMoment
  <2>9. CASE x # Loop /\ x \in Node
    <3>1. pc' = "scan" /\ first' = first /\ arg' = arg /\ known' = known + 1
      BY <2>7, <2>9 DEF ScanGoesOn, Goes
    <3>2. LedTo(d, arg, known + 1)
      <4>1. \A j \in 0..(known + 1) : j \in 0..known \/ j = known + 1
        BY <2>5
      <4> QED BY <2>3, <2>6, <2>9, <4>1 DEF LedTo, Leads
    <3>3. NextStage(d)
      BY <2>3, <3>1, <3>2 DEF NextStage, StageAt, Going, CallStep
    <3> QED BY <3>1, <3>3, CallMoment
  <2>10. CASE x # Loop /\ x \notin Node
    <3>1. ScanEnds
      BY <2>7, <2>10
    <3>2. Breaks(d, arg, known)
      BY <2>3, <2>5, <2>6, <2>10 DEF Breaks
    <3>3. CASE known = 0 /\ ~ arg.abs
      <4>1. Canonicalized(Normal(arg))
        BY <3>1, <3>3 DEF ScanEnds
      <4>2. Normal(arg) \in AtOnce(d, arg)
        BY <2>2, <2>3, <3>2, <3>3, MissingExpected
      <4> QED BY <2>2, <2>3, <4>1, <4>2, CanonicalizedMoment
    <3>4. CASE ~ (known = 0 /\ ~ arg.abs)
      <4>1. RealBegins(Upto(arg, known)) /\ arg' = arg /\ known' = known
        BY <3>1, <3>4 DEF ScanEnds
      <4>2. IsKnown(d, arg, known)
        BY <2>3, <3>2, <3>4 DEF IsKnown
      <4> QED BY <2>2, <2>3, <4>1, <4>2, RealBeginsMoment
    <3> QED BY <3>3, <3>4
  <2> QED BY <2>8, <2>9, <2>10
<1> QED BY <1>2, <1>3

(* realpath(3) fails where it has to.                                      *)
LEMMA RealFailsMoment ==
  ASSUME CallStep, pc \in Going, RealFails, NEW d \in cwds, IsMoment(d, first, arg), IsKnown(d, arg, known),
         ~ (arg.abs \/ Linked(d)) \/ ~ Leads(d, Upto(arg, known))
  PROVE  MomentInv'
<1> DEFINE r == IF InC /\ ~ Strict THEN Normal(arg) ELSE Nothing
<1>1. /\ child \in Children /\ d \in Dir /\ arg \in Path /\ known \in 0..Len(arg.names)
      /\ cwd \in cwds
  BY GoingOn DEF CallStep
<1>2. Canonicalized(r)
  BY DEF RealFails
<1>3. r \in AtOnce(d, arg)
  BY <1>1, FailExpected
<1> HIDE DEF r
<1> QED BY <1>1, <1>2, <1>3, CanonicalizedMoment

(* It has begun with the names of the working directory,                   *)
LEMMA RealCwdMoment ==
  ASSUME CallStep, RealCwd
  PROVE  MomentInv'
<1>1. pc = "realcwd" /\ pc \in Going
  BY DEF RealCwd, Asks, Going
<1>2. CASE Often
  BY <1>2, GoesOn, OftenMoment
<1>3. CASE ~ Often
  <2>1. PICK d \in cwds : Stage(d)
    BY <1>1, <1>3, GoingOn DEF CallStep
  <2>2. /\ child \in Children /\ d \in Dir /\ arg \in Path /\ known \in 0..Len(arg.names)
        /\ InPlace(child)
    BY <1>1, GoingOn DEF CallStep
  <2>3. /\ IsMoment(d, first, arg) /\ IsKnown(d, arg, known) /\ ~ arg.abs /\ d = cwd
        /\ todo = Upto(arg, known).names /\ links = 0
    BY <1>1, <2>1 DEF Stage, StageAt, Going
  <2>4. CASE Linked(cwd)
    <3>1. /\ pc' = "real" /\ dest' = PathOf(cwd) /\ first' = first /\ arg' = arg /\ known' = known
          /\ todo' = todo /\ links' = links
      BY <2>4 DEF RealCwd, Goes
    <3> DEFINE p == Upto(arg, known)
    <3>2. p.abs = arg.abs
      BY <2>2 DEF Upto, Path
    <3> HIDE DEF p
    <3>3. Where(d, p) = Ends[<<d, p.names, MaxLinks>>]
      BY <2>3, <3>2, WhereIsEnd
    <3>4. MaxLinks - 0 = MaxLinks
      BY LinksAssumption
    <3>5. InTree(d) /\ PathOf(d) \in Spellings(PathOf(d))
      BY <2>2, <2>3, <2>4, LinkedInTree, PlaceNames
    <3>6. OnWay(Where(d, p), PathOf(d), p.names, 0)
      BY <2>2, <3>3, <3>4, <3>5 DEF OnWay, OnDir
    <3>7. NextStage(d)
      BY <2>3, <2>4, <3>1, <3>6 DEF NextStage, StageAt, Going, p
    <3> QED BY <3>1, <3>7, CallMoment
  <2>5. CASE ~ Linked(cwd)
    <3>1. RealFails
      BY <2>5 DEF RealCwd
    <3> QED BY <1>1, <2>3, <2>5, <3>1, RealFailsMoment
  <2> QED BY <2>4, <2>5
<1> QED BY <1>2, <1>3

(* and goes on to where they and the path lead.                            *)
LEMMA RealMoment ==
  ASSUME CallStep, Real
  PROVE  MomentInv'
<1>1. pc = "real" /\ pc \in Going
  BY DEF Real, Asks, Going
<1>2. CASE Often
  BY <1>2, GoesOn, OftenMoment
<1>3. CASE ~ Often
  <2>1. PICK d \in cwds : Stage(d)
    BY <1>1, <1>3, GoingOn DEF CallStep
  <2>2. /\ child \in Children /\ d \in Dir /\ arg \in Path /\ known \in 0..Len(arg.names)
        /\ cwd \in cwds /\ InPlace(child) /\ disk \in {"sensitive", "folds", "tells"}
        /\ dest \in Seq(Name) /\ todo \in Seq(Segments) /\ links \in 0..MaxLinks
    BY <1>1, GoingOn DEF CallStep
  <2> DEFINE e == Where(d, Upto(arg, known))
  <2>3. /\ IsMoment(d, first, arg) /\ IsKnown(d, arg, known) /\ (arg.abs \/ Linked(d))
        /\ OnWay(e, dest, todo, links)
    BY <1>1, <2>1 DEF Stage, StageAt, Going
  <2>4. e \notin Node => ~ Leads(d, Upto(arg, known))
    BY DEF Leads
  <2> HIDE DEF e
  <2>5. ASSUME pc' = "real", first' = first, arg' = arg, known' = known, OnWay(e, dest', todo', links')
        PROVE  MomentInv'
    <3>1. NextStage(d)
      BY <2>3, <2>5 DEF NextStage, StageAt, Going, e
    <3> QED BY <2>5, <3>1, CallMoment
  <2>6. CASE RealEnds
    <3> DEFINE r == Normal(Absolute(dest \o After(arg, known)))
    <3>1. todo = <<>> /\ Canonicalized(r)
      BY <2>6 DEF RealEnds
    <3>2. OnWay(Where(d, Upto(arg, known)), dest, <<>>, links)
      BY <2>3, <3>1 DEF e
    <3>3. r \in AtOnce(d, arg)
      BY <2>2, <2>3, <3>2, FoundExpected
    <3> HIDE DEF r
    <3> QED BY <2>2, <2>3, <3>1, <3>3, CanonicalizedMoment
  <2>7. CASE RealBack
    <3>1. /\ todo # <<>> /\ Head(todo) = DotDot
          /\ dest' = (IF dest = <<>> THEN <<>> ELSE Front(dest)) /\ todo' = Tail(todo)
          /\ pc' = "real" /\ first' = first /\ arg' = arg /\ known' = known /\ links' = links
      BY <2>7 DEF RealBack, Goes
    <3>2. OnWay(e, IF dest = <<>> THEN <<>> ELSE Front(dest), Tail(todo), links)
      BY <2>2, <2>3, <3>1, WayBack
    <3> QED BY <2>5, <3>1, <3>2
  <2>8. CASE RealName
    <3>1. todo # <<>> /\ Head(todo) # DotDot
      BY <2>8 DEF RealName
    <3> DEFINE x == Where(Root, Absolute(dest))
               n == Head(todo)
               y == Entry(x, n)
               m == IF disk = "tells" THEN Spelled(x, n) ELSE n
    <3>2. /\ x \in Dir
          /\ y \in Link /\ links < MaxLinks =>
               OnWay(e, IF Target[y].abs THEN <<>> ELSE dest, Target[y].names \o Tail(todo), links + 1)
          /\ y \in Dir \/ (y \in File /\ Tail(todo) = <<>>) =>
               OnWay(e, Append(dest, m), Tail(todo), links)
          /\ ~ (y \in Link /\ links < MaxLinks) /\ ~ (y \in Dir \/ (y \in File /\ Tail(todo) = <<>>)) =>
               e \notin Node
      BY <2>2, <2>3, <3>1, WayOn
    <3>3. IF y \in Link /\ links < MaxLinks THEN Follows(y)
          ELSE IF y \in Dir \/ (y \in File /\ Tail(todo) = <<>>)
            THEN /\ dest' = Append(dest, m) /\ todo' = Tail(todo) /\ pc' = "real"
                 /\ first' = first /\ arg' = arg /\ known' = known /\ links' = links
            ELSE RealFails
      BY <2>8, <3>2 DEF RealName, MayFollow, Goes
    <3> HIDE DEF x, y, m
    <3>4. CASE y \in Link /\ links < MaxLinks
      <4>1. /\ dest' = (IF Target[y].abs THEN <<>> ELSE dest) /\ links' = links + 1
            /\ todo' = Target[y].names \o Tail(todo)
            /\ pc' = "real" /\ first' = first /\ arg' = arg /\ known' = known
        BY <3>3, <3>4 DEF Follows, Goes
      <4> QED BY <2>5, <3>2, <3>4, <4>1
    <3>5. CASE ~ (y \in Link /\ links < MaxLinks) /\ (y \in Dir \/ (y \in File /\ Tail(todo) = <<>>))
      BY <2>5, <3>2, <3>3, <3>5
    <3>6. CASE ~ (y \in Link /\ links < MaxLinks) /\ ~ (y \in Dir \/ (y \in File /\ Tail(todo) = <<>>))
      <4>1. RealFails /\ ~ Leads(d, Upto(arg, known))
        BY <2>4, <3>2, <3>3, <3>6
      <4> QED BY <1>1, <2>3, <4>1, RealFailsMoment
    <3> QED BY <3>4, <3>5, <3>6
  <2> QED BY <2>6, <2>7, <2>8 DEF Real
<1> QED BY <1>2, <1>3

(* One that asks for a relative path again and again.                      *)
LEMMA AsksAgain ==
  ASSUME NEW d, NEW g, NEW a, IsMoment(d, g, a), ~ a.abs, ~ InC, ~ Strict
  PROVE  AsksOften
<1>1. CASE Relative
  BY <1>1 DEF IsMoment, AsksOften
<1>2. CASE ~ Relative
  <2>1. call.op \in {"realpath", "canonical", "resolve"} /\ a # Nothing /\ call.op # "realpath"
    BY <1>2 DEF IsMoment, Strict, Canonizes
  <2>2. ~ Rebases
    <3> SUFFICES ASSUME Rebases PROVE FALSE
      OBVIOUS
    <3>1. a = Rebased(d)
      BY <1>2 DEF IsMoment
    <3> QED BY <3>1 DEF Rebased, Absolute
  <2>3. a = Given /\ Given = Expanduser(call.path)
    BY <1>2, <2>1, <2>2 DEF IsMoment, Given
  <2>4. call.op # "resolve"
    BY <2>1, <2>2, <2>3 DEF Rebases
  <2>5. call.path # Nothing
    BY <2>1, <2>3 DEF Expanduser
  <2> QED BY <2>1, <2>3, <2>4, <2>5 DEF AsksOften
<1> QED BY <1>1, <1>2

(* Another thread may take the working directory elsewhere.                *)
LEMMA ChdirMoment ==
  ASSUME CallInv, MomentInv, Followed, EnvChdir, Busy, UNCHANGED callVars
  PROVE  MomentInv'
<1>1. PICK b \in Stays \ {cwd} : cwd' = b /\ cwds' = cwds \cup {b}
  BY DEF EnvChdir
<1>2. TreeKept /\ still' = still
  BY DEF EnvChdir, treeVars, TreeKept, callVars
<1>3. /\ pc' = pc /\ first' = first /\ arg' = arg /\ known' = known /\ dest' = dest /\ todo' = todo /\ links' = links
      /\ answer' = answer
  BY DEF callVars
<1>4. /\ pc \notin {"idle", "done"} /\ cwd \in cwds /\ cwd # b /\ IsFiniteSet(cwds)
      /\ (pc = "getcwd" /\ call.op = "resolve" => Rebases)
  BY <1>1 DEF MomentInv, Busy
<1>5. IsFiniteSet(cwds') /\ cwd' \in cwds' /\ cwds \subseteq cwds' /\ \E c, d \in cwds' : c # d
  <2>1. IsFiniteSet(cwds \cup {b})
    BY <1>4, FS_AddElement
  <2> QED BY <1>1, <1>4, <2>1
<1>6. ASSUME pc \in Going PROVE AsksOften \/ \E d \in cwds' : NextStage(d)
  <2>1. CASE Often
    BY <2>1 DEF Often
  <2>2. CASE ~ Often
    <3>1. PICK d \in cwds : Stage(d)
      BY <1>6, <2>2, GoingOn
    <3>2. IsMoment(d, first, arg) /\ arg \in Path
      BY <1>6, <3>1, GoingOn DEF Stage, StageAt
    <3>3. CASE pc = "real"
      <4>1. NextStage(d)
        BY <1>3, <3>1, <3>3 DEF Stage, NextStage, StageAt
      <4> QED BY <1>5, <4>1
    <3>4. CASE pc \in {"status", "scan"}
      <4>1. ~ InC /\ ~ Strict
        BY <3>1, <3>4 DEF Stage, StageAt
      <4>2. CASE arg.abs
        <5>1. NextStage(d)
          BY <1>3, <3>1, <3>4, <4>2 DEF Stage, NextStage, StageAt
        <5> QED BY <1>5, <5>1
      <4> QED BY <3>2, <4>1, <4>2, AsksAgain
    <3>5. CASE pc = "realcwd"
      <4>1. ~ arg.abs /\ IsKnown(d, arg, known) /\ todo = Upto(arg, known).names /\ links = 0
        BY <3>1, <3>5 DEF Stage, StageAt
      <4>2. CASE InC \/ Strict
        <5>1. ~ Relative
          <6>1. call \in Calls
            BY DEF CallInv, StateInv
          <6> QED BY <3>2, <4>2, <6>1, RelativeCalls DEF IsMoment, Canonizes, Relative
        <5>2. ~ Rebases
          <6> SUFFICES ASSUME Rebases PROVE FALSE
            OBVIOUS
          <6>1. arg = Rebased(d)
            BY <3>2, <5>1 DEF IsMoment
          <6> QED BY <4>1, <6>1 DEF Rebased, Absolute
        <5>3. IsMoment(b, first, arg) /\ IsKnown(b, arg, known)
          BY <3>2, <4>1, <4>2, <5>1, <5>2 DEF IsMoment, IsKnown
        <5>4. NextStage(b)
          BY <1>1, <1>3, <3>5, <4>1, <5>3 DEF NextStage, StageAt, Going
        <5> QED BY <1>1, <5>4
      <4> QED BY <3>2, <4>1, <4>2, AsksAgain
    <3> QED BY <1>6, <3>3, <3>4, <3>5 DEF Going
  <2> QED BY <2>1, <2>2
<1> QED BY <1>2, <1>3, <1>4, <1>5, <1>6, NextMoment

(* No step loses the moment.                                               *)
LEMMA StepMoment ==
  ASSUME CallInv, MomentInv, [Next]_vars
  PROVE  MomentInv'
<1>1. CASE ~ Followed
  <2>1. CASE Step
    <3>1. call' = call
      BY <2>1 DEF Step, ResolveStep, ProbeStep, Begin, GetCwd, SetCwd, Status, Scan, RealCwd, Real,
             Keeps, Touch, TakeAway
    <3> QED BY <1>1, <2>1, <3>1 DEF Step, Followed, MomentInv
  <2>2. CASE Env
    <3>1. call' = call /\ (still' => still)
      BY <2>2 DEF Env, EnvChdir, EnvPut, callVars
    <3> QED BY <1>1, <3>1 DEF Followed, MomentInv
  <2>3. CASE UNCHANGED vars
    BY <1>1, <2>3 DEF vars, callVars, Followed, MomentInv
  <2> QED BY <2>1, <2>2, <2>3 DEF Next
<1>2. CASE Followed
  <2>1. CASE Step
    <3>1. ~ Probe /\ pc # "chdir" /\ StepInv
      BY <1>2 DEF Followed, Probe, CallInv, WalkInv, StepInv
    <3>2. Begin \/ GetCwd \/ Status \/ Scan \/ RealCwd \/ Real
      BY <2>1, <3>1 DEF Step, ResolveStep, ProbeStep, SetCwd, Touch, TakeAway, Asks, StepInv
    <3>3. TreeKept /\ cwd' = cwd
      BY <3>2 DEF Begin, GetCwd, Status, Scan, RealCwd, Real, Keeps, treeVars, TreeKept
    <3>4. CallStep
      BY <1>2, <2>1, <3>3 DEF CallStep, Step
    <3> QED BY <3>2, <3>4, BeginMoment, GetCwdMoment, StatusMoment, ScanMoment, RealCwdMoment, RealMoment
  <2>2. CASE Env
    <3>1. CASE EnvChdir
      BY <1>2, <2>2, <3>1, ChdirMoment DEF Env
    <3>2. CASE EnvPut
      BY <3>2 DEF EnvPut, MomentInv, Followed
    <3> QED BY <2>2, <3>1, <3>2 DEF Env
  <2>3. CASE UNCHANGED vars
    <3>1. TreeKept /\ UNCHANGED <<cwd, cwds, pc, first, arg, known, dest, todo, links, answer>>
      BY <2>3 DEF vars, callVars, TreeKept
    <3>2. /\ pc # "idle" => cwd \in cwds
          /\ pc = "idle" => first = Nothing
          /\ IsFiniteSet(cwds) /\ (pc = "getcwd" /\ call.op = "resolve" => Rebases)
          /\ pc \in Going \cup {"done"} => Often \/ \E d \in cwds : Stage(d)
      BY <1>2 DEF MomentInv
    <3>3. ASSUME NEW d, Stage(d) PROVE NextStage(d)
      BY <3>1, <3>3 DEF Stage, NextStage
    <3>4. CASE pc = "idle"
      <4>1. InPlace(child) /\ InPlace(child)'
        BY <1>2, <3>1 DEF MomentInv, TreeKept, InPlace
      <4> QED BY <3>1, <3>2, <3>4, <4>1 DEF MomentInv, Going
    <3> QED BY <1>2, <3>1, <3>2, <3>3, <3>4, NextMoment DEF Often
  <2> QED BY <2>1, <2>2, <2>3 DEF Next
<1> QED BY <1>1, <1>2

(* The moment of a call that has not begun is to come.                     *)
LEMMA InitMoment == Init => MomentInv
<1> SUFFICES ASSUME Init PROVE MomentInv
  OBVIOUS
<1>1. InPlace(child)
  BY TreesAssumption DEF Init
<1>2. pc = "idle" /\ first = Nothing /\ cwds = {} /\ IsFiniteSet({})
  BY FS_EmptySet DEF Init
<1> QED BY <1>1, <1>2 DEF MomentInv, Going

(* fs_get_cwd, fs_realpath, fs_canonical, fs_resolve, fs_relative_to and   *)
(* fs_proximate_to answer what they would at one moment of the call,       *)
(* wherever other threads take the working directory while no other        *)
(* program changes the tree.  Only the cxx fs_canonical of a relative path *)
(* that need not exist, which asks again and again (resolve.cpp:43), and   *)
(* the last two, of a relative path and a base (relative.cpp:27), may do   *)
(* otherwise once they have.                                               *)
THEOREM AnswersOfOneMoment == Spec => []OneMoment
<1>1. CallInv /\ MomentInv => OneMoment
  <2> SUFFICES ASSUME MomentInv, pc = "done", Followed
               PROVE  (AsksOften /\ Cardinality(cwds) > 1) \/ \E d \in cwds : answer \in Expected(d)
    BY DEF OneMoment, Followed
  <2>1. IsFiniteSet(cwds) /\ (Often \/ \E d \in cwds : Stage(d))
    BY DEF MomentInv
  <2>2. CASE Often
    <3>1. PICK c \in cwds, d \in cwds : AsksOften /\ c # d
      BY <2>2 DEF Often
    <3>2. IsFiniteSet(cwds \ {c}) /\ Cardinality(cwds \ {c}) = Cardinality(cwds) - 1
      BY <2>1, FS_RemoveElement
    <3>3. Cardinality(cwds \ {c}) # 0
      BY <3>1, <3>2, FS_EmptySet
    <3>4. Cardinality(cwds) \in Nat /\ Cardinality(cwds \ {c}) \in Nat
      BY <2>1, <3>2, FS_CardinalityType
    <3> QED BY <3>1, <3>2, <3>3, <3>4
  <2>3. CASE \E d \in cwds : Stage(d)
    BY <2>3 DEF Stage, StageAt
  <2> QED BY <2>1, <2>2, <2>3
<1>2. Init => MomentInv
  BY InitMoment
<1>3. CallInv /\ MomentInv /\ [Next]_vars => MomentInv'
  BY StepMoment
<1> QED BY <1>1, <1>2, <1>3, CallInvariant, PTL DEF Spec

-----------------------------------------------------------------------------
(***************************************************************************)
(* The way from one path to another: parts of sequences, normal forms, and *)
(* what lexically_relative makes of two of them.                           *)
(***************************************************************************)
(* A part of a sequence.                                                   *)
LEMMA PartOf ==
  ASSUME NEW A, NEW s \in Seq(A), NEW i \in Nat, NEW j \in Nat, i <= j, j <= Len(s)
  PROVE  /\ SubSeq(s, i + 1, j) \in Seq(A) /\ Len(SubSeq(s, i + 1, j)) = j - i
         /\ \A k \in 1..(j - i) : SubSeq(s, i + 1, j)[k] = s[i + k]
<1>1. Len(s) \in Nat /\ \A k \in 1..Len(s) : s[k] \in A
  BY LenProperties, ElementOfSeq
<1>2. \A k \in (i + 1)..j : s[k] \in A
  BY <1>1
<1>3. /\ SubSeq(s, i + 1, j) \in Seq(A)
      /\ Len(SubSeq(s, i + 1, j)) = IF i + 1 <= j THEN j - (i + 1) + 1 ELSE 0
      /\ \A k \in 1..(j - (i + 1) + 1) : SubSeq(s, i + 1, j)[k] = s[i + 1 + k - 1]
  <2> DEFINE m == i + 1
  <2>1. m \in Int /\ j \in Int /\ \A k \in m..j : s[k] \in A
    BY <1>2
  <2> HIDE DEF m
  <2>2. /\ SubSeq(s, m, j) \in Seq(A)
        /\ Len(SubSeq(s, m, j)) = IF m <= j THEN j - m + 1 ELSE 0
        /\ \A k \in 1..(j - m + 1) : SubSeq(s, m, j)[k] = s[m + k - 1]
    BY <2>1, SubSeqProperties
  <2> QED BY <2>2 DEF m
<1>4. (IF i + 1 <= j THEN j - (i + 1) + 1 ELSE 0) = j - i /\ j - (i + 1) + 1 = j - i
  BY <1>1
<1>5. \A k \in 1..(j - i) : i + 1 + k - 1 = i + k
  OBVIOUS
<1> QED BY <1>3, <1>4, <1>5

(***************************************************************************)
(* Normal forms.                                                           *)
(***************************************************************************)
(* There is ".." in them only at the beginning, and only where a path is   *)
(* relative.                                                               *)
InForm(abs, s) ==
  /\ s \in Seq(Segments)
  /\ \A i \in 1..Len(s) : s[i] = DotDot => ~ abs /\ \A j \in 1..i : s[j] = DotDot

IsNormal(p) == p \in Path /\ InForm(p.abs, p.names)

(* Putting one name more to a normal form makes another.                   *)
LEMMA PutInForm ==
  ASSUME NEW p \in Path, NEW s, InForm(p.abs, s), NEW n \in Segments
  PROVE  InForm(p.abs, Put(p, s, n))
<1>1. /\ s \in Seq(Segments) /\ Len(s) \in Nat
      /\ \A i \in 1..Len(s) : s[i] = DotDot => ~ p.abs /\ \A j \in 1..i : s[j] = DotDot
  BY LenProperties DEF InForm
<1>2. /\ Append(s, n) \in Seq(Segments) /\ Len(Append(s, n)) = Len(s) + 1
      /\ Append(s, n)[Len(s) + 1] = n /\ \A i \in 1..Len(s) : Append(s, n)[i] = s[i]
  BY <1>1, AppendProperties
<1>3. CASE n # DotDot \/ (~ p.abs /\ (s = <<>> \/ Last(s) = DotDot))
  <2>1. Put(p, s, n) = Append(s, n)
    BY <1>3 DEF Put
  <2>2. ASSUME n = DotDot PROVE ~ p.abs /\ \A j \in 1..Len(s) : s[j] = DotDot
    <3>1. CASE s = <<>>
      BY <1>3, <2>2, <3>1
    <3>2. CASE s # <<>>
      <4>1. Len(s) \in 1..Len(s) /\ s[Len(s)] = DotDot
        BY <1>1, <1>3, <2>2, <3>2, EmptySeq DEF Last
      <4> QED BY <1>1, <4>1
    <3> QED BY <3>1, <3>2
  <2> DEFINE a == Append(s, n)
  <2>3. ASSUME NEW i \in 1..Len(a), a[i] = DotDot
        PROVE  ~ p.abs /\ \A j \in 1..i : a[j] = DotDot
    <3> HIDE DEF a
    <3>1. /\ Len(a) = Len(s) + 1 /\ a[Len(s) + 1] = n /\ \A j \in 1..Len(s) : a[j] = s[j]
      BY <1>2 DEF a
    <3>2. CASE i \in 1..Len(s)
      <4>1. ~ p.abs /\ \A j \in 1..i : s[j] = DotDot
        BY <1>1, <2>3, <3>1, <3>2
      <4>2. \A j \in 1..i : j \in 1..Len(s)
        BY <1>1, <3>2
      <4> QED BY <3>1, <4>1, <4>2
    <3>3. CASE i = Len(s) + 1
      <4>1. n = DotDot
        BY <2>3, <3>1, <3>3
      <4>2. \A j \in 1..i : j \in 1..Len(s) \/ j = Len(s) + 1
        BY <1>1, <3>3
      <4> QED BY <2>2, <3>1, <4>1, <4>2
    <3> QED BY <1>1, <3>1, <3>2, <3>3
  <2> QED BY <1>2, <2>1, <2>3 DEF InForm
<1>4. CASE n = DotDot /\ s # <<>> /\ Last(s) # DotDot
  <2>1. Put(p, s, n) = Front(s)
    BY <1>4 DEF Put
  <2>2. Len(s) # 0 /\ \A i \in 1..Len(s) : s[i] \in Segments
    BY <1>1, <1>4, EmptySeq, ElementOfSeq
  <2>3. /\ Front(s) \in Seq(Segments) /\ Len(Front(s)) = Len(s) - 1
        /\ \A i \in 1..(Len(s) - 1) : Front(s)[i] = s[i]
    <3>1. Len(s) - 1 \in Nat /\ 0 \in Nat /\ 0 <= Len(s) - 1 /\ Len(s) - 1 <= Len(s)
      BY <1>1, <2>2
    <3> DEFINE m == Len(s) - 1
    <3>2. m \in Nat /\ m <= Len(s) /\ Front(s) = SubSeq(s, 0 + 1, m)
      BY <3>1 DEF Front
    <3> HIDE DEF m
    <3>3. /\ Front(s) \in Seq(Segments) /\ Len(Front(s)) = m - 0
          /\ \A k \in 1..(m - 0) : Front(s)[k] = s[0 + k]
      BY <1>1, <3>2, PartOf
    <3>4. Len(Front(s)) = m /\ \A k \in 1..m : Front(s)[k] = s[k]
      BY <3>2, <3>3
    <3> QED BY <3>3, <3>4 DEF m
  <2> DEFINE a == Front(s)
  <2>4. ASSUME NEW i \in 1..Len(a), a[i] = DotDot
        PROVE  ~ p.abs /\ \A j \in 1..i : a[j] = DotDot
    <3> HIDE DEF a
    <3>1. Len(a) = Len(s) - 1 /\ \A j \in 1..(Len(s) - 1) : a[j] = s[j]
      BY <2>3 DEF a
    <3>2. i \in 1..Len(s) /\ s[i] = DotDot /\ \A j \in 1..i : j \in 1..(Len(s) - 1)
      BY <1>1, <2>4, <3>1
    <3> QED BY <1>1, <3>1, <3>2
  <2> QED BY <2>1, <2>3, <2>4 DEF InForm
<1>5. CASE n = DotDot /\ (s = <<>> \/ Last(s) = DotDot) /\ p.abs
  <2>1. Put(p, s, n) = s
    BY <1>5 DEF Put
  <2> QED BY <2>1
<1> QED BY <1>3, <1>4, <1>5 DEF Path

(* The first names of a sequence.                                          *)
LEMMA FirstOf ==
  ASSUME NEW A, NEW s \in Seq(A), NEW j \in 0..Len(s)
  PROVE  /\ SubSeq(s, 1, j) \in Seq(A) /\ Len(SubSeq(s, 1, j)) = j
         /\ \A k \in 1..j : SubSeq(s, 1, j)[k] = s[k]
<1>1. Len(s) \in Nat /\ j \in Nat /\ j <= Len(s) /\ 0 \in Nat /\ 0 <= j
  BY LenProperties
<1>2. /\ SubSeq(s, 0 + 1, j) \in Seq(A) /\ Len(SubSeq(s, 0 + 1, j)) = j - 0
      /\ \A k \in 1..(j - 0) : SubSeq(s, 0 + 1, j)[k] = s[0 + k]
  BY <1>1, PartOf
<1>3. 0 + 1 = 1 /\ j - 0 = j /\ \A k \in 1..j : 0 + k = k
  BY <1>1
<1> QED BY <1>2, <1>3

(* Whatever is made by putting one name after the other is the normal      *)
(* form.                                                                   *)
LEMMA NormalMade ==
  ASSUME NEW p \in Path, NEW F, F[0] = <<>>,
         \A k \in 1..Len(p.names) : F[k] = Put(p, F[k - 1], p.names[k])
  PROVE  Normal(p) = [p EXCEPT !.names = F[Len(p.names)]]
<1> DEFINE n == Len(p.names)
<1>1. n \in Nat /\ p \in [abs : BOOLEAN, names : Seq(Name \cup {DotDot})]
  BY LenProperties DEF Path
<1>2. PICK kept \in [0..n -> Kept(p, Name)] :
        /\ kept[0] = <<>>
        /\ \A k \in 1..n : kept[k] = Put(p, kept[k - 1], p.names[k])
        /\ Normal(p) = [p EXCEPT !.names = kept[n]]
  BY <1>1, NamesAssumption, NormalIs
<1> HIDE DEF n
<1> DEFINE S == {k \in 0..n : kept[k] # F[k]}
<1>3. S = {}
  <2> SUFFICES ASSUME S # {} PROVE FALSE
    OBVIOUS
  <2>1. S \in SUBSET Nat
    BY <1>1
  <2>2. PICK m \in S : \A k \in S : m <= k
    <3> HIDE DEF S
    <3> QED BY <2>1, Least
  <2>3. m # 0
    BY <1>2, <2>2
  <2>4. m \in 1..n /\ m - 1 \in 0..n /\ m - 1 \notin S /\ m \in Nat
    BY <1>1, <2>2, <2>3
  <2>5. kept[m - 1] = F[m - 1]
    BY <2>4
  <2> QED BY <1>2, <2>2, <2>4, <2>5 DEF n
<1>4. kept[n] = F[n]
  BY <1>1, <1>3
<1> QED BY <1>2, <1>4 DEF n

(* The normal form is in normal form.                                      *)
LEMMA NormalInForm ==
  ASSUME NEW p \in Path
  PROVE  IsNormal(Normal(p))
<1> DEFINE n == Len(p.names)
<1>1. /\ n \in Nat /\ p \in [abs : BOOLEAN, names : Seq(Name \cup {DotDot})]
      /\ \A k \in 1..n : p.names[k] \in Segments
  BY LenProperties, ElementOfSeq DEF Path, Segments
<1>2. PICK kept \in [0..n -> Kept(p, Name)] :
        /\ kept[0] = <<>>
        /\ \A k \in 1..n : kept[k] = Put(p, kept[k - 1], p.names[k])
        /\ Normal(p) = [p EXCEPT !.names = kept[n]]
  BY <1>1, NamesAssumption, NormalIs
<1> HIDE DEF n
<1> DEFINE S == {k \in 0..n : ~ InForm(p.abs, kept[k])}
<1>3. S = {}
  <2> SUFFICES ASSUME S # {} PROVE FALSE
    OBVIOUS
  <2>1. S \in SUBSET Nat
    BY <1>1
  <2>2. PICK m \in S : \A k \in S : m <= k
    <3> HIDE DEF S
    <3> QED BY <2>1, Least
  <2>3. m # 0
    <3>1. InForm(p.abs, <<>>)
      BY EmptySeq DEF InForm
    <3> QED BY <1>2, <2>2, <3>1
  <2>4. m \in 1..n /\ m - 1 \in 0..n /\ m - 1 \notin S /\ m \in Nat
    BY <1>1, <2>2, <2>3
  <2>5. InForm(p.abs, kept[m - 1])
    BY <2>4
  <2>6. InForm(p.abs, Put(p, kept[m - 1], p.names[m]))
    BY <1>1, <2>4, <2>5, PutInForm
  <2> QED BY <1>2, <2>2, <2>4, <2>6
<1>4. InForm(p.abs, kept[n])
  BY <1>1, <1>3
<1>5. Normal(p) \in Path /\ Normal(p).abs = p.abs /\ Normal(p).names = kept[n]
  BY <1>1, <1>2, <1>4 DEF Path, InForm, Segments
<1> QED BY <1>4, <1>5 DEF IsNormal

(* So is an absolute path of names.                                        *)
LEMMA NamesInForm ==
  ASSUME NEW s \in Seq(Name)
  PROVE  IsNormal(Absolute(s)) /\ Absolute(s).abs /\ Absolute(s).names = s
<1>1. s \in Seq(Segments) /\ \A i \in 1..Len(s) : s[i] # DotDot
  <2>1. s \in Seq(Segments) /\ \A i \in 1..Len(s) : s[i] \in Name
    BY SeqMonotonic, ElementOfSeq DEF Segments
  <2> QED BY <2>1, NamesAssumption
<1> QED BY <1>1 DEF IsNormal, InForm, Absolute, Path, Segments

(***************************************************************************)
(* The paths that weakly_canonical may answer with.                        *)
(***************************************************************************)
(* A path that leads nowhere, though not in a loop, breaks at some name.   *)
LEMMA BreaksSomewhere ==
  ASSUME child \in Children, NEW d \in Dir, NEW a \in Path, ~ Leads(d, a),
         \A i \in 0..Len(a.names) : Where(d, Upto(a, i)) # Loop
  PROVE  \E k \in Nat : k <= Len(a.names) /\ Breaks(d, a, k)
<1> DEFINE n == Len(a.names)
           S == {i \in 0..n : ~ Leads(d, Upto(a, i))}
<1>1. n \in Nat /\ Upto(a, n) = a
  BY WholePath
<1>2. S \in SUBSET Nat /\ n \in S
  BY <1>1
<1>3. PICK m \in S : \A k \in S : m <= k
  <2> HIDE DEF S
  <2> QED BY <1>2, Least
<1>4. m # 0
  <2>1. Leads(d, Upto(a, 0))
    BY NothingLeads DEF LedTo
  <2> QED BY <1>3, <2>1
<1>5. m - 1 \in Nat /\ m - 1 < n /\ m - 1 <= n /\ (m - 1) + 1 = m
  BY <1>1, <1>2, <1>3, <1>4
<1>6. LedTo(d, a, m - 1)
  <2>1. ASSUME NEW j \in 0..(m - 1) PROVE Leads(d, Upto(a, j))
    <3>1. j \in 0..n /\ ~ (m <= j)
      BY <1>1, <1>5
    <3> QED BY <1>3, <3>1
  <2> QED BY <2>1 DEF LedTo
<1>7. Where(d, Upto(a, (m - 1) + 1)) \notin Node \cup {Loop}
  <2>1. m \in 0..n /\ ~ Leads(d, Upto(a, m)) /\ Where(d, Upto(a, m)) # Loop
    BY <1>3
  <2> QED BY <1>5, <2>1 DEF Leads
<1> QED BY <1>5, <1>6, <1>7 DEF Breaks

(* The names of a place, and every spelling of them, are names.            *)
LEMMA PlacesType ==
  ASSUME NEW x, NEW names \in Places(x), NEW s \in Spellings(names)
  PROVE  names \in Seq(Name) /\ s \in Seq(Name)
<1>1. names \in Seq(Name)
  <2>1. CASE x \in Dir
    BY <2>1, PlaceNames DEF Places
  <2>2. CASE x \notin Dir
    <3>1. PICK e \in Dir \X Name : names = Append(PathOf(e[1]), e[2])
      BY <2>2 DEF Places
    <3>2. PathOf(e[1]) \in Seq(Name) /\ e[2] \in Name
      BY PlaceNames
    <3> QED BY <3>1, <3>2, AppendProperties
  <2> QED BY <2>1, <2>2
<1> QED BY <1>1, SpellingsAre

(* What realpath(3) answers with, ...                                      *)
LEMMA ExactlyIs ==
  ASSUME NEW d, NEW p, NEW q \in Exactly(d, p)
  PROVE  q = Nothing \/ \E s \in Seq(Name) : q = Absolute(s)
<1>1. CASE Leads(d, p) /\ (p.abs \/ Linked(d))
  <2>1. PICK names \in Places(Where(d, p)) : \E s \in Spellings(names) : q = Absolute(s)
    BY <1>1 DEF Exactly
  <2> QED BY <2>1, PlacesType
<1>2. CASE ~ (Leads(d, p) /\ (p.abs \/ Linked(d)))
  BY <1>2 DEF Exactly
<1> QED BY <1>1, <1>2

(* ... and weakly_canonical, is in normal form.                            *)
LEMMA WeaklyNormal ==
  ASSUME child \in Children, NEW d \in Dir, NEW p \in Path, NEW q \in Weakly(d, p), q # Nothing
  PROVE  IsNormal(q)
<1>1. ASSUME NEW a, NEW r \in Exactly(d, a), r # Nothing
      PROVE  \E s \in Seq(Name) : r = Absolute(s)
  BY <1>1, ExactlyIs
<1>2. CASE Leads(d, p) \/ \E i \in 0..Len(p.names) : Where(d, Upto(p, i)) = Loop
  <2>1. Weakly(d, p) = Exactly(d, p)
    BY <1>2 DEF Weakly
  <2> QED BY <1>1, <2>1, NamesInForm
<1>3. CASE ~ (Leads(d, p) \/ \E i \in 0..Len(p.names) : Where(d, Upto(p, i)) = Loop)
  <2>1. PICK k \in Nat : k <= Len(p.names) /\ Breaks(d, p, k)
    BY <1>3, BreaksSomewhere
  <2>2. Weakly(d, p) = IF k = 0 /\ ~ p.abs THEN {Normal(p)}
                       ELSE {IF r = Nothing THEN r ELSE Normal(Absolute(r.names \o After(p, k))) :
                               r \in Exactly(d, Upto(p, k))}
    BY <2>1, WeaklyThen
  <2>3. CASE k = 0 /\ ~ p.abs
    BY <2>2, <2>3, NormalInForm
  <2>4. CASE ~ (k = 0 /\ ~ p.abs)
    <3>1. PICK r \in Exactly(d, Upto(p, k)) :
            q = IF r = Nothing THEN r ELSE Normal(Absolute(r.names \o After(p, k)))
      BY <2>2, <2>4
    <3>2. r # Nothing /\ q = Normal(Absolute(r.names \o After(p, k)))
      BY <3>1
    <3>3. PICK s \in Seq(Name) : r = Absolute(s)
      BY <1>1, <3>2
    <3>4. After(p, k) \in Seq(Segments)
      <4>1. p \in PathsIn(Name) /\ k \in 0..Len(p.names)
        BY <2>1, PathsInNames, WholePath
      <4> QED BY <4>1, CutType DEF Segments
    <3>5. r.names \in Seq(Segments)
      BY <3>3, NamesInForm DEF IsNormal, InForm
    <3>6. Absolute(r.names \o After(p, k)) \in Path
      BY <3>4, <3>5, ConcatProperties DEF Absolute, Path, Segments
    <3> QED BY <3>2, <3>6, NormalInForm
  <2> QED BY <2>3, <2>4
<1> QED BY <1>2, <1>3

(* Where an absolute path is concerned, they do not hang on the working    *)
(* directory.                                                              *)
LEMMA WeaklyAnywhere ==
  ASSUME child \in Children, NEW d \in Dir, NEW e \in Dir, NEW p \in Path, p.abs
  PROVE  Weakly(d, p) = Weakly(e, p)
<1>1. ASSUME NEW a, a.abs
      PROVE  /\ Where(d, a) = Where(e, a) /\ (Leads(d, a) <=> Leads(e, a))
             /\ Exactly(d, a) = Exactly(e, a)
  <2>1. Where(d, a) = Where(e, a)
    BY <1>1, FromHere
  <2> QED BY <1>1, <2>1 DEF Leads, Exactly
<1>2. \A i : Upto(p, i).abs
  BY DEF Upto, Path
<1>3. CASE Leads(d, p) \/ \E i \in 0..Len(p.names) : Where(d, Upto(p, i)) = Loop
  <2>1. Leads(e, p) \/ \E i \in 0..Len(p.names) : Where(e, Upto(p, i)) = Loop
    BY <1>1, <1>2, <1>3
  <2>2. Weakly(d, p) = Exactly(d, p) /\ Weakly(e, p) = Exactly(e, p)
    BY <1>3, <2>1 DEF Weakly
  <2> QED BY <1>1, <2>2
<1>4. CASE ~ (Leads(d, p) \/ \E i \in 0..Len(p.names) : Where(d, Upto(p, i)) = Loop)
  <2>1. PICK k \in Nat : k <= Len(p.names) /\ Breaks(d, p, k)
    BY <1>4, BreaksSomewhere
  <2>2. Breaks(e, p, k)
    BY <1>1, <1>2, <2>1 DEF Breaks, LedTo
  <2>3. \A b \in Dir : Breaks(b, p, k) =>
          Weakly(b, p) = IF k = 0 /\ ~ p.abs THEN {Normal(p)}
                         ELSE {IF r = Nothing THEN r ELSE Normal(Absolute(r.names \o After(p, k))) :
                                 r \in Exactly(b, Upto(p, k))}
    BY WeaklyThen
  <2>4. Exactly(d, Upto(p, k)) = Exactly(e, Upto(p, k))
    BY <1>1, <1>2
  <2> QED BY <2>1, <2>2, <2>3, <2>4
<1> QED BY <1>3, <1>4

(***************************************************************************)
(* From one path in normal form to another.                                *)
(***************************************************************************)
(* A normal form is made of its names, one after the other.                *)
LEMMA PutNext ==
  ASSUME NEW p, NEW s, InForm(p.abs, s), NEW j \in 1..Len(s)
  PROVE  Put(p, SubSeq(s, 1, j - 1), s[j]) = SubSeq(s, 1, j)
<1>1. /\ s \in Seq(Segments) /\ Len(s) \in Nat /\ (\A i \in 1..Len(s) : s[i] \in Segments)
      /\ \A i \in 1..Len(s) : s[i] = DotDot => ~ p.abs /\ \A k \in 1..i : s[k] = DotDot
  BY LenProperties, ElementOfSeq DEF InForm
<1> DEFINE f == SubSeq(s, 1, j - 1)
<1>2. j - 1 \in 0..Len(s) /\ j \in Nat
  BY <1>1
<1>3. f \in Seq(Segments) /\ Len(f) = j - 1 /\ \A k \in 1..(j - 1) : f[k] = s[k]
  <2> DEFINE i == j - 1
  <2>1. i \in 0..Len(s)
    BY <1>2
  <2> HIDE DEF i
  <2>2. SubSeq(s, 1, i) \in Seq(Segments) /\ Len(SubSeq(s, 1, i)) = i
        /\ \A k \in 1..i : SubSeq(s, 1, i)[k] = s[k]
    BY <1>1, <2>1, FirstOf
  <2> QED BY <2>2 DEF i
<1>4. Append(f, s[j]) = SubSeq(s, 1, j)
  <2>1. Append(f, s[j]) = f \o <<s[j]>>
    BY <1>1, <1>3, AppendIsConcat
  <2>2. SubSeq(s, 1, j) = SubSeq(s, 1, j - 1) \o <<s[j]>>
    BY <1>1, <1>2, SubSeqRecursiveSecond
  <2> QED BY <2>1, <2>2
<1>5. ASSUME s[j] = DotDot PROVE ~ p.abs /\ (f = <<>> \/ Last(f) = DotDot)
  <2>1. ~ p.abs /\ \A k \in 1..j : s[k] = DotDot
    BY <1>1, <1>5
  <2>2. CASE j = 1
    BY <1>3, <2>1, <2>2
  <2>3. CASE j # 1
    <3>1. Len(f) \in 1..(j - 1) /\ Len(f) \in 1..j
      BY <1>2, <1>3, <2>3
    <3> QED BY <1>3, <2>1, <3>1 DEF Last
  <2> QED BY <2>2, <2>3
<1> HIDE DEF f
<1>6. Put(p, f, s[j]) = Append(f, s[j])
  BY <1>5 DEF Put
<1> QED BY <1>4, <1>6 DEF f

(* And ".." takes its last name away.                                      *)
LEMMA PutBack ==
  ASSUME NEW p, NEW s \in Seq(Segments), NEW e \in 1..Len(s), s[e] # DotDot
  PROVE  Put(p, SubSeq(s, 1, e), DotDot) = SubSeq(s, 1, e - 1)
<1> DEFINE f == SubSeq(s, 1, e)
<1>1. Len(s) \in Nat /\ e \in 0..Len(s) /\ e - 1 \in 0..Len(s) /\ e \in Nat /\ e - 1 \in 0..e
  BY LenProperties
<1>2. f \in Seq(Segments) /\ Len(f) = e /\ \A k \in 1..e : f[k] = s[k]
  BY <1>1, FirstOf
<1>3. f # <<>> /\ Last(f) = s[e]
  <2>1. e \in 1..e
    BY <1>1
  <2> HIDE DEF f
  <2> QED BY <1>1, <1>2, <2>1, EmptySeq DEF Last
<1> HIDE DEF f
<1> DEFINE i == e - 1
<1>4. i \in 0..Len(s) /\ i \in 0..Len(f) /\ \A k \in 1..i : k \in 1..e
  BY <1>1, <1>2
<1>5. Front(f) = SubSeq(f, 1, i)
  BY <1>2 DEF Front
<1> HIDE DEF i
<1>6. SubSeq(f, 1, i) \in Seq(Segments) /\ Len(SubSeq(f, 1, i)) = i
      /\ \A k \in 1..i : SubSeq(f, 1, i)[k] = f[k]
  BY <1>2, <1>4, FirstOf
<1>7. SubSeq(s, 1, i) \in Seq(Segments) /\ Len(SubSeq(s, 1, i)) = i
      /\ \A k \in 1..i : SubSeq(s, 1, i)[k] = s[k]
  BY <1>4, FirstOf
<1>8. SubSeq(f, 1, i) = SubSeq(s, 1, i)
  BY <1>2, <1>4, <1>6, <1>7, SeqEqual
<1>9. Put(p, f, DotDot) = Front(f)
  BY <1>3 DEF Put
<1> QED BY <1>5, <1>8, <1>9 DEF f, i

(* A base that does not go further up has names to go back only.           *)
LEMMA NamesBack ==
  ASSUME NEW q, NEW c, IsNormal(q), IsNormal(c), ~ FurtherUp(c, q), NEW k \in Nat, Part(q, c, k)
  PROVE  \A i \in (k + 1)..Len(c.names) : c.names[i] # DotDot
<1> SUFFICES ASSUME NEW i \in (k + 1)..Len(c.names), c.names[i] = DotDot PROVE FALSE
  OBVIOUS
<1>1. /\ Len(c.names) \in Nat /\ Len(q.names) \in Nat
      /\ DOMAIN c.names = 1..Len(c.names) /\ DOMAIN q.names = 1..Len(q.names)
  BY LenProperties DEF IsNormal, InForm
<1>2. i \in 1..Len(c.names) /\ k + 1 \in 1..i /\ k + 1 \in DOMAIN c.names
  BY <1>1
<1>3. c.names[k + 1] = DotDot
  BY <1>2 DEF IsNormal, InForm
<1>4. k + 1 \in DOMAIN q.names /\ q.names[k + 1] = DotDot
  BY <1>2, <1>3 DEF FurtherUp
<1>5. k < Len(q.names) /\ k < Len(c.names)
  BY <1>1, <1>2, <1>4
<1> QED BY <1>3, <1>4, <1>5 DEF Part

(* So the way to a path goes back from the base as far as they have names  *)
(* in common, and from there by its names.                                 *)
LEMMA RelativeNames ==
  ASSUME NEW q, NEW c, IsNormal(q), IsNormal(c), ~ FurtherUp(c, q)
  PROVE  \E k \in Nat :
           /\ Part(q, c, k) /\ (\A i \in (k + 1)..Len(c.names) : c.names[i] # DotDot)
           /\ LexicallyRelative(q, c) =
                IF q.abs # c.abs THEN Nothing
                ELSE [abs |-> FALSE, names |-> Ups(Len(c.names) - k) \o After(q, k)]
<1>1. PICK k \in Nat : Part(q, c, k) /\ LexicallyRelative(q, c) = Apart(q, c, k)
  BY RelativeIs DEF IsNormal
<1>2. \A i \in (k + 1)..Len(c.names) : c.names[i] # DotDot
  BY <1>1, NamesBack
<1> DEFINE s == c.names
           n == Len(s)
           r == SubSeq(s, k + 1, n)
<1>3. s \in Seq(Segments) /\ n \in Nat /\ k <= n
  BY <1>1, LenProperties DEF IsNormal, InForm, Part
<1>4. r \in Seq(Segments) /\ Len(r) = n - k /\ \A i \in 1..(n - k) : r[i] = s[k + i]
  <2> HIDE DEF s
  <2>1. n <= Len(s)
    BY <1>3
  <2> HIDE DEF n
  <2> QED BY <1>3, <2>1, PartOf
<1> HIDE DEF r
<1>5. \A i \in 1..Len(r) : r[i] # DotDot
  BY <1>2, <1>3, <1>4
<1>6. Backs(r) = 0
  BY <1>4, <1>5, BacksType
<1>7. After(c, k) = r
  BY DEF After, r
<1>8. Len(r) - 0 = n - k /\ n - k - 0 = n - k /\ ~ (0 > n - k)
  BY <1>3, <1>4
<1>9. Apart(q, c, k) = IF q.abs # c.abs THEN Nothing
                       ELSE [abs |-> FALSE, names |-> Ups(n - k) \o After(q, k)]
  BY <1>6, <1>7, <1>8 DEF Apart
<1> QED BY <1>1, <1>2, <1>9

(* Three sequences in a row.                                               *)
LEMMA RowOfThree ==
  ASSUME NEW A, NEW s \in Seq(A), NEW t \in Seq(A), NEW u \in Seq(A)
  PROVE  /\ s \o (t \o u) \in Seq(A) /\ Len(s \o (t \o u)) = Len(s) + Len(t) + Len(u)
         /\ \A i \in 1..Len(s) : (s \o (t \o u))[i] = s[i]
         /\ \A i \in 1..Len(t) : (s \o (t \o u))[Len(s) + i] = t[i]
         /\ \A i \in 1..Len(u) : (s \o (t \o u))[Len(s) + Len(t) + i] = u[i]
<1>1. Len(s) \in Nat /\ Len(t) \in Nat /\ Len(u) \in Nat
  BY LenProperties
<1> DEFINE r == t \o u
           w == s \o r
<1>2. /\ r \in Seq(A) /\ Len(r) = Len(t) + Len(u)
      /\ \A i \in 1..(Len(t) + Len(u)) : r[i] = IF i <= Len(t) THEN t[i] ELSE u[i - Len(t)]
  BY ConcatProperties
<1> HIDE DEF r, w
<1>r. r \in Seq(A)
  BY <1>2
<1>3. /\ w \in Seq(A) /\ Len(w) = Len(s) + Len(r)
      /\ \A i \in 1..(Len(s) + Len(r)) : w[i] = IF i <= Len(s) THEN s[i] ELSE r[i - Len(s)]
  BY <1>r, ConcatProperties DEF w
<1>4. ASSUME NEW i \in 1..Len(s) PROVE w[i] = s[i]
  BY <1>1, <1>2, <1>3
<1>5. ASSUME NEW i \in 1..Len(t) PROVE w[Len(s) + i] = t[i]
  <2>1. Len(s) + i \in 1..(Len(s) + Len(r)) /\ ~ (Len(s) + i <= Len(s)) /\ Len(s) + i - Len(s) = i
    BY <1>1, <1>2
  <2>2. w[Len(s) + i] = r[i] /\ i \in 1..(Len(t) + Len(u)) /\ i <= Len(t)
    BY <1>1, <1>3, <2>1
  <2> QED BY <1>2, <2>2
<1>6. ASSUME NEW i \in 1..Len(u) PROVE w[Len(s) + Len(t) + i] = u[i]
  <2> DEFINE j == Len(t) + i
  <2>1. /\ Len(s) + Len(t) + i \in 1..(Len(s) + Len(r)) /\ ~ (Len(s) + Len(t) + i <= Len(s))
        /\ Len(s) + Len(t) + i - Len(s) = j /\ j \in 1..(Len(t) + Len(u)) /\ ~ (j <= Len(t))
        /\ j - Len(t) = i
    BY <1>1, <1>2
  <2> HIDE DEF j
  <2>2. w[Len(s) + Len(t) + i] = r[j]
    BY <1>3, <2>1
  <2> QED BY <1>2, <2>1, <2>2
<1>7. Len(w) = Len(s) + Len(t) + Len(u)
  BY <1>1, <1>2, <1>3
<1> QED BY <1>3, <1>4, <1>5, <1>6, <1>7 DEF w, r

(* The names of p go through N, back over its last m, and on to A.         *)
BackOn(p, N, A, k, m, h) ==
  /\ InForm(p.abs, N) /\ InForm(p.abs, A) /\ Len(N) = k + m /\ Len(A) = k + h
  /\ SubSeq(N, 1, k) = SubSeq(A, 1, k)
  /\ \A i \in (k + 1)..(k + m) : N[i] # DotDot
  /\ Len(p.names) = k + m + m + h
  /\ \A i \in 1..(k + m) : p.names[i] = N[i]
  /\ \A i \in 1..m : p.names[k + m + i] = DotDot
  /\ \A i \in 1..h : p.names[k + m + m + i] = A[k + i]

(* Going back from the names of one path to what they have in common with  *)
(* those of another, and on by these, leads there.                         *)
LEMMA BackAndOn ==
  ASSUME NEW p \in Path, NEW N, NEW A, NEW k \in Nat, NEW m \in Nat, NEW h \in Nat,
         BackOn(p, N, A, k, m, h)
  PROVE  Normal(p) = [p EXCEPT !.names = A]
<1> USE DEF BackOn
<1> DEFINE F == [j \in 0..(k + m + m + h) |->
                   IF j <= k + m THEN SubSeq(N, 1, j)
                   ELSE IF j <= k + m + m THEN SubSeq(N, 1, k + m + k + m - j)
                   ELSE SubSeq(A, 1, j - m - m)]
<1>1. /\ \A j \in 0..(k + m) : F[j] = SubSeq(N, 1, j)
      /\ \A j \in 0..m : F[k + m + j] = SubSeq(N, 1, k + m - j)
      /\ \A j \in 0..h : F[k + m + m + j] = SubSeq(A, 1, k + j)
  <2>1. ASSUME NEW j \in 0..(k + m) PROVE F[j] = SubSeq(N, 1, j)
    <3>1. j \in 0..(k + m + m + h) /\ j <= k + m
      OBVIOUS
    <3> QED BY <3>1
  <2>2. ASSUME NEW j \in 0..m PROVE F[k + m + j] = SubSeq(N, 1, k + m - j)
    <3>1. CASE j = 0
      <4>1. k + m + j = k + m /\ k + m - j = k + m /\ k + m \in 0..(k + m)
        BY <3>1
      <4> HIDE DEF F
      <4> QED BY <2>1, <4>1
    <3>2. CASE j # 0
      <4>1. /\ k + m + j \in 0..(k + m + m + h) /\ ~ (k + m + j <= k + m) /\ k + m + j <= k + m + m
            /\ k + m + k + m - (k + m + j) = k + m - j
        BY <3>2
      <4> QED BY <4>1
    <3> QED BY <3>1, <3>2
  <2>3. ASSUME NEW j \in 0..h PROVE F[k + m + m + j] = SubSeq(A, 1, k + j)
    <3>1. CASE j = 0
      <4>1. k + m + m + j = k + m + m /\ k + m - m = k /\ k + j = k /\ m \in 0..m
        BY <3>1
      <4> HIDE DEF F
      <4> QED BY <2>2, <4>1
    <3>2. CASE j # 0
      <4>1. /\ k + m + m + j \in 0..(k + m + m + h) /\ ~ (k + m + m + j <= k + m)
            /\ ~ (k + m + m + j <= k + m + m) /\ k + m + m + j - m - m = k + j
        BY <3>2
      <4> QED BY <4>1
    <3> QED BY <3>1, <3>2
  <2> QED BY <2>1, <2>2, <2>3
<1> HIDE DEF F
<1>2. F[0] = <<>>
  <2>1. SubSeq(N, 1, 0) = <<>>
    BY SubSeqEmpty
  <2> QED BY <1>1, <2>1
<1>3. ASSUME NEW j \in 1..(k + m + m + h) PROVE F[j] = Put(p, F[j - 1], p.names[j])
  <2>1. CASE j <= k + m
    <3>1. j \in 0..(k + m) /\ j - 1 \in 0..(k + m) /\ j \in 1..(k + m)
      BY <2>1
    <3>2. p.names[j] = N[j] /\ F[j] = SubSeq(N, 1, j) /\ F[j - 1] = SubSeq(N, 1, j - 1)
      BY <1>1, <3>1
    <3>3. Put(p, SubSeq(N, 1, j - 1), N[j]) = SubSeq(N, 1, j)
      BY <3>1, PutNext
    <3> QED BY <3>2, <3>3
  <2>2. CASE k + m < j /\ j <= k + m + m
    <3>1. PICK i \in 1..m : i = j - (k + m)
      BY <2>2
    <3>2. PICK e \in (k + 1)..(k + m) : e = k + m - (i - 1)
      OBVIOUS
    <3>3. /\ i \in 0..m /\ i - 1 \in 0..m /\ k + m + i = j /\ k + m + (i - 1) = j - 1
          /\ e \in 1..(k + m) /\ k + m - i = e - 1
      BY <3>1, <3>2
    <3>4. p.names[j] = DotDot /\ F[j] = SubSeq(N, 1, e - 1) /\ F[j - 1] = SubSeq(N, 1, e)
      BY <1>1, <3>2, <3>3
    <3>5. Put(p, SubSeq(N, 1, e), DotDot) = SubSeq(N, 1, e - 1)
      <4>1. N \in Seq(Segments) /\ e \in 1..Len(N) /\ N[e] # DotDot
        BY <3>3 DEF InForm
      <4> QED BY <4>1, PutBack
    <3> QED BY <3>4, <3>5
  <2>3. CASE k + m + m < j
    <3>1. PICK i \in 1..h : i = j - (k + m + m)
      BY <2>3
    <3>2. PICK e \in 1..(k + h) : e = k + i
      OBVIOUS
    <3>3. /\ i \in 0..h /\ i - 1 \in 0..h /\ k + m + m + i = j /\ k + m + m + (i - 1) = j - 1
          /\ k + (i - 1) = e - 1
      BY <3>1, <3>2
    <3>4. p.names[j] = A[e] /\ F[j] = SubSeq(A, 1, e) /\ F[j - 1] = SubSeq(A, 1, e - 1)
      BY <1>1, <3>2, <3>3
    <3>5. Put(p, SubSeq(A, 1, e - 1), A[e]) = SubSeq(A, 1, e)
      <4>1. InForm(p.abs, A) /\ e \in 1..Len(A)
        BY <3>2
      <4> HIDE DEF BackOn
      <4> QED BY <4>1, PutNext
    <3> QED BY <3>4, <3>5
  <2> QED BY <2>1, <2>2, <2>3
<1>4. Normal(p) = [p EXCEPT !.names = F[k + m + m + h]]
  BY <1>2, <1>3, NormalMade
<1>5. F[k + m + m + h] = A
  <2>1. A \in Seq(Segments) /\ h \in 0..h
    BY DEF InForm
  <2>2. F[k + m + m + h] = SubSeq(A, 1, k + h)
    BY <1>1, <2>1
  <2>3. SubSeq(A, 1, Len(A)) = A
    BY <2>1, SubSeqFull
  <2> QED BY <2>2, <2>3
<1> QED BY <1>4, <1>5

(* So the way to a path leads there by names.                              *)
LEMMA ThereByNames ==
  ASSUME NEW q, NEW c, IsNormal(q), IsNormal(c), q.abs = c.abs, NEW k \in Nat, Part(q, c, k),
         \A i \in (k + 1)..Len(c.names) : c.names[i] # DotDot
  PROVE  Normal([c EXCEPT !.names = @ \o (Ups(Len(c.names) - k) \o After(q, k))]) = q
<1>1. /\ c.names \in Seq(Segments) /\ q.names \in Seq(Segments) /\ c \in Path /\ q \in Path
      /\ Len(c.names) \in Nat /\ Len(q.names) \in Nat /\ k <= Len(c.names) /\ k <= Len(q.names)
      /\ SubSeq(c.names, 1, k) = SubSeq(q.names, 1, k)
      /\ InForm(c.abs, c.names) /\ InForm(c.abs, q.names)
  BY LenProperties DEF IsNormal, InForm, Part
<1>2. PICK m \in Nat, h \in Nat : Len(c.names) = k + m /\ Len(q.names) = k + h
  <2>1. /\ Len(c.names) - k \in Nat /\ Len(q.names) - k \in Nat
        /\ Len(c.names) = k + (Len(c.names) - k) /\ Len(q.names) = k + (Len(q.names) - k)
    BY <1>1
  <2> QED BY <2>1
<1>3. Len(c.names) - k = m
  BY <1>1, <1>2
<1> DEFINE r == After(q, k)
           U == Ups(m)
           T == c.names \o (U \o r)
           p == [c EXCEPT !.names = T]
<1>4. r \in Seq(Segments) /\ Len(r) = h /\ \A i \in 1..h : r[i] = q.names[k + i]
  <2> DEFINE A == q.names
             n == Len(A)
  <2>1. A \in Seq(Segments) /\ n \in Nat /\ k <= n /\ n <= Len(A) /\ n - k = h
    BY <1>1, <1>2
  <2>2. r = SubSeq(A, k + 1, n)
    BY DEF After
  <2> HIDE DEF n, A, r
  <2>3. /\ SubSeq(A, k + 1, n) \in Seq(Segments) /\ Len(SubSeq(A, k + 1, n)) = n - k
        /\ \A i \in 1..(n - k) : SubSeq(A, k + 1, n)[i] = A[k + i]
    BY <2>1, PartOf
  <2> QED BY <2>1, <2>2, <2>3 DEF A
<1>5. U \in Seq(Segments) /\ Len(U) = m /\ \A i \in 1..m : U[i] = DotDot
  BY UpsType
<1> HIDE DEF r, U
<1> DEFINE N == c.names
<1>6. N \in Seq(Segments) /\ Len(N) = k + m
  BY <1>1, <1>2
<1> HIDE DEF N
<1> HIDE DEF p
<1> HIDE DEF T
<1> DEFINE W == N \o (U \o r)
<1>71. /\ W \in Seq(Segments) /\ Len(W) = Len(N) + Len(U) + Len(r)
       /\ \A i \in 1..Len(N) : W[i] = N[i]
       /\ \A i \in 1..Len(U) : W[Len(N) + i] = U[i]
       /\ \A i \in 1..Len(r) : W[Len(N) + Len(U) + i] = r[i]
  <2>1. N \in Seq(Segments) /\ U \in Seq(Segments) /\ r \in Seq(Segments)
    BY <1>4, <1>5, <1>6
  <2>2. ASSUME NEW s \in Seq(Segments), NEW t \in Seq(Segments), NEW u \in Seq(Segments)
        PROVE  /\ s \o (t \o u) \in Seq(Segments)
               /\ Len(s \o (t \o u)) = Len(s) + Len(t) + Len(u)
               /\ \A i \in 1..Len(s) : (s \o (t \o u))[i] = s[i]
               /\ \A i \in 1..Len(t) : (s \o (t \o u))[Len(s) + i] = t[i]
               /\ \A i \in 1..Len(u) : (s \o (t \o u))[Len(s) + Len(t) + i] = u[i]
    BY RowOfThree
  <2> QED BY ONLY <2>1, <2>2, Zenon DEF W
<1> HIDE DEF W
<1>7. /\ W \in Seq(Segments) /\ Len(W) = k + m + m + h
      /\ \A i \in 1..(k + m) : W[i] = N[i]
      /\ \A i \in 1..m : W[k + m + i] = DotDot
      /\ \A i \in 1..h : W[k + m + m + i] = q.names[k + i]
  BY <1>4, <1>5, <1>6, <1>71
<1>8. T = W
  BY DEF N, T, W
<1>9. p \in Path /\ p.names = T /\ p.abs = c.abs
  BY <1>1, <1>7, <1>8 DEF Path, Segments, p
<1>10. p = [c EXCEPT !.names = @ \o (Ups(Len(c.names) - k) \o After(q, k))]
  BY <1>3 DEF p, T, U, r
<1>11. [p EXCEPT !.names = q.names] = q
  BY <1>1, <1>9 DEF Path, p
<1>12. \A i \in (k + 1)..(k + m) : N[i] # DotDot
  BY <1>2 DEF N
<1>13. InForm(p.abs, N) /\ SubSeq(N, 1, k) = SubSeq(q.names, 1, k)
  BY <1>1, <1>9 DEF N
<1> DEFINE A == q.names
<1>14. /\ InForm(p.abs, N) /\ InForm(p.abs, A) /\ Len(N) = k + m /\ Len(A) = k + h
       /\ SubSeq(N, 1, k) = SubSeq(A, 1, k)
  BY <1>1, <1>2, <1>6, <1>9, <1>13
<1>15. /\ Len(p.names) = k + m + m + h
       /\ \A i \in 1..(k + m) : p.names[i] = N[i]
       /\ \A i \in 1..m : p.names[k + m + i] = DotDot
       /\ \A i \in 1..h : p.names[k + m + m + i] = A[k + i]
  BY <1>7, <1>8, <1>9
<1> HIDE DEF A
<1>16. BackOn(p, N, A, k, m, h)
  BY <1>12, <1>14, <1>15 DEF BackOn
<1>17. Normal(p) = [p EXCEPT !.names = A]
  BY <1>9, <1>16, BackAndOn
<1> QED BY <1>10, <1>11, <1>17 DEF A

(***************************************************************************)
(* Where a path from one place to another leads.                           *)
(***************************************************************************)
(* A walk that leads somewhere leads there with more links to follow.      *)
LEMMA MoreLinks ==
  ASSUME child \in Children, NEW w \in Walk, Ends[w] \in Node, NEW g \in Nat, w[3] <= g
  PROVE  Ends[<<w[1], w[2], g>>] = Ends[w]
<1> DEFINE B == {v \in Walk : Ended(v)}
           next == [v \in Walk \ B |-> Onward(v)]
           S == {v \in Walk : Ends[v] \in Node /\
                   \E h \in Nat : v[3] <= h /\ Ends[<<v[1], v[2], h>>] # Ends[v]}
<1>1. EndsRight
  BY EndsSolveHere
<1>2. NoEndlessWay(Walk, B, next)
  <2>1. \A v \in Walk \ B : ~ Ended(v) /\ next[v] = Onward(v)
    OBVIOUS
  <2> HIDE DEF B, next
  <2> QED BY <2>1, WalksEnd
<1>3. ASSUME NEW v \in Walk, NEW h \in Nat, v[3] <= h
      PROVE  LET u == <<v[1], v[2], h>> IN
             u \in Walk /\ u[1] = v[1] /\ u[2] = v[2] /\ u[3] = h /\ Found(u) = Found(v)
  <2>1. v[1] \in Node /\ v[2] \in Seq(Name \cup {DotDot})
    BY DEF Walk
  <2> DEFINE u == <<v[1], v[2], h>>
  <2>2. u \in Walk /\ u[1] = v[1] /\ u[2] = v[2] /\ u[3] = h
    BY <2>1, WalkParts
  <2> HIDE DEF u
  <2>3. Found(u) = Found(v)
    BY <2>2 DEF Found
  <2> QED BY <2>2, <2>3 DEF u
<1>4. ASSUME NEW v \in Walk, Ended(v), Ends[v] \in Node, NEW h \in Nat, v[3] <= h
      PROVE  Ends[<<v[1], v[2], h>>] = Ends[v]
  <2> DEFINE u == <<v[1], v[2], h>>
  <2>1. u \in Walk /\ u[1] = v[1] /\ u[2] = v[2]
    BY <1>3, <1>4
  <2> HIDE DEF u
  <2>2. Ends[v] = EndOf(v)
    BY <1>1, <1>4 DEF EndsRight
  <2>3. v[2] = <<>> /\ Ends[v] = v[1]
    BY <1>4, <2>2, KindsAssumption DEF EndOf
  <2>4. Ended(u) /\ EndOf(u) = v[1]
    BY <2>1, <2>3 DEF Ended, EndOf
  <2>5. Ends[u] = v[1]
    BY <1>1, <2>1, <2>4 DEF EndsRight
  <2> QED BY <2>3, <2>5 DEF u
<1>5. S \in SUBSET (Walk \ B)
  BY <1>4
<1>6. ASSUME NEW v \in S PROVE next[v] \in S
  <2>1. v \in Walk /\ ~ Ended(v) /\ next[v] = Onward(v) /\ Ends[v] \in Node
    BY <1>5
  <2>2. PICK h \in Nat : v[3] <= h /\ Ends[<<v[1], v[2], h>>] # Ends[v]
    OBVIOUS
  <2> DEFINE u == <<v[1], v[2], h>>
             o == Onward(v)
  <2>3. u \in Walk /\ u[1] = v[1] /\ u[2] = v[2] /\ u[3] = h /\ Found(u) = Found(v)
    BY <1>3, <2>1, <2>2
  <2>4. Ends[u] # Ends[v]
    BY <2>2
  <2> HIDE DEF u
  <2>5. o \in Walk /\ Ends[v] = Ends[o] /\ v[3] \in Nat
    BY <1>1, <2>1, OnwardType, WalkAt DEF EndsRight
  <2>6. /\ v[1] \in Dir /\ v[2] # <<>>
        /\ Head(v[2]) # DotDot => Found(v) \in Node /\ (Found(v) \in Link => v[3] # 0)
    BY <2>1, WalkAt
  <2>7. ~ Ended(u)
    BY <2>2, <2>3, <2>5, <2>6, KindsAssumption DEF Ended
  <2>8. \E k \in Nat : o[3] <= k /\ Onward(u) = <<o[1], o[2], k>>
    <3>1. CASE Head(v[2]) # DotDot /\ Found(v) \in Link
      <4>1. h - 1 \in Nat /\ v[3] - 1 <= h - 1
        BY <2>2, <2>5, <2>6, <3>1
      <4> DEFINE to == Target[Found(v)].names \o Tail(v[2])
                 at == IF Target[Found(v)].abs THEN Root ELSE v[1]
      <4>2. o = <<at, to, v[3] - 1>>
        BY <3>1 DEF Onward
      <4>3. Onward(u) = <<at, to, h - 1>>
        BY <2>3, <3>1 DEF Onward
      <4> HIDE DEF to, at, o
      <4>4. o[1] = at /\ o[2] = to /\ o[3] = v[3] - 1
        BY <4>2
      <4> QED BY <4>1, <4>3, <4>4
    <3>2. CASE Head(v[2]) = DotDot
      <4>1. o = <<Up[v[1]], Tail(v[2]), v[3]>> /\ Onward(u) = <<Up[v[1]], Tail(v[2]), h>>
        BY <2>3, <3>2 DEF Onward
      <4> HIDE DEF o
      <4>2. o[1] = Up[v[1]] /\ o[2] = Tail(v[2]) /\ o[3] = v[3]
        BY <4>1
      <4> QED BY <2>2, <4>1, <4>2
    <3>3. CASE Head(v[2]) # DotDot /\ Found(v) \notin Link
      <4>1. o = <<Found(v), Tail(v[2]), v[3]>> /\ Onward(u) = <<Found(v), Tail(v[2]), h>>
        BY <2>3, <3>3 DEF Onward
      <4> HIDE DEF o
      <4>2. o[1] = Found(v) /\ o[2] = Tail(v[2]) /\ o[3] = v[3]
        BY <4>1
      <4> QED BY <2>2, <4>1, <4>2
    <3> QED BY <3>1, <3>2, <3>3
  <2>9. PICK k \in Nat : o[3] <= k /\ Onward(u) = <<o[1], o[2], k>>
    BY <2>8
  <2>10. Ends[u] = Ends[<<o[1], o[2], k>>]
    BY <1>1, <2>3, <2>7, <2>9 DEF EndsRight
  <2> HIDE DEF o
  <2>11. o \in S
    BY <2>1, <2>4, <2>5, <2>9, <2>10
  <2> QED BY <2>1, <2>11 DEF o
<1>7. S = {}
  <2> HIDE DEF S, B, next
  <2> QED BY <1>2, <1>5, <1>6 DEF NoEndlessWay
<1> QED BY <1>7

(* n ".." from a directory lead to the one with the last n names less.     *)
LeadUp(x, s, n) ==
  \E y \in Dir :
    /\ InTree(y) /\ SubSeq(s, 1, Len(s) - n) \in Spellings(PathOf(y))
    /\ \A r \in Seq(Segments), f \in Nat : Ends[<<x, Ups(n) \o r, f>>] = Ends[<<y, r, f>>]

(* So they do, however the names of the directory are spelled.             *)
LEMMA UpsLead ==
  ASSUME child \in Children, NEW x \in Dir, InTree(x), NEW s \in Spellings(PathOf(x)),
         NEW n \in Nat, n <= Len(s)
  PROVE  LeadUp(x, s, n)
<1> DEFINE S == {m \in Nat : \E z \in Dir : \E t \in Spellings(PathOf(z)) :
                   InTree(z) /\ m <= Len(t) /\ ~ LeadUp(z, t, m)}
<1>1. ASSUME NEW z \in Dir, NEW t \in Spellings(PathOf(z)) PROVE t \in Seq(Name) /\ Len(t) \in Nat
  BY PlaceNames, SpellingsAre, LenProperties
<1>2. ASSUME NEW z \in Dir, InTree(z), NEW t \in Spellings(PathOf(z)) PROVE LeadUp(z, t, 0)
  <2>1. SubSeq(t, 1, Len(t) - 0) = t
    <3>1. t \in Seq(Name) /\ Len(t) - 0 = Len(t)
      BY <1>1
    <3> QED BY <3>1, SubSeqFull
  <2>2. ASSUME NEW r \in Seq(Segments) PROVE Ups(0) \o r = r
    <3>1. Ups(0) \in Seq(Segments) /\ Len(Ups(0)) = 0
      BY UpsType
    <3>2. Ups(0) = <<>>
      BY <3>1, EmptySeq
    <3> QED BY <3>2, ConcatEmptySeq
  <2>3. \A r \in Seq(Segments), f \in Nat : Ends[<<z, Ups(0) \o r, f>>] = Ends[<<z, r, f>>]
    BY <2>2
  <2> QED BY <1>2, <2>1, <2>3 DEF LeadUp
<1>3. ASSUME NEW m \in Nat, m # 0, m - 1 \notin S,
             NEW z \in Dir, InTree(z), NEW t \in Spellings(PathOf(z)), m <= Len(t)
      PROVE  LeadUp(z, t, m)
  <2>1. t \in Seq(Name) /\ Len(t) \in Nat /\ t # <<>> /\ Len(t) # 0
    BY <1>1, <1>3, EmptySeq
  <2> DEFINE a == Up[z]
             u == Front(t)
             l == Len(t)
             k == m - 1
  <2>2. InTree(a) /\ a \in Dir
    BY <1>3, UpInTree
  <2>3. u \in Spellings(PathOf(a))
    BY <2>1, UpSpelled
  <2>4. /\ u \in Seq(Name) /\ Len(u) = l - 1 /\ \A i \in 1..(l - 1) : u[i] = t[i]
    <3>1. l - 1 \in 0..Len(t) /\ u = SubSeq(t, 1, l - 1)
      BY <2>1 DEF Front
    <3> DEFINE j == l - 1
    <3> HIDE DEF j, u
    <3>2. /\ SubSeq(t, 1, j) \in Seq(Name) /\ Len(SubSeq(t, 1, j)) = j
          /\ \A i \in 1..j : SubSeq(t, 1, j)[i] = t[i]
      BY <2>1, <3>1, FirstOf DEF j
    <3> QED BY <3>1, <3>2 DEF j
  <2>5. k \in Nat /\ k <= Len(u) /\ l \in Nat
    BY <1>3, <2>1, <2>4
  <2> HIDE DEF a, u, k
  <2>6. LeadUp(a, u, k)
    BY <1>3, <2>2, <2>3, <2>5 DEF k
  <2>7. PICK y \in Dir :
          /\ InTree(y) /\ SubSeq(u, 1, Len(u) - k) \in Spellings(PathOf(y))
          /\ \A r \in Seq(Segments), f \in Nat : Ends[<<a, Ups(k) \o r, f>>] = Ends[<<y, r, f>>]
    BY <2>6 DEF LeadUp
  <2>8. SubSeq(u, 1, Len(u) - k) = SubSeq(t, 1, l - m)
    <3> DEFINE j == l - m
    <3>1. j \in 0..Len(t) /\ j \in 0..Len(u) /\ Len(u) - k = j /\ \A i \in 1..j : i \in 1..(l - 1)
      BY <1>3, <2>1, <2>4 DEF k
    <3> HIDE DEF j
    <3>2. /\ SubSeq(t, 1, j) \in Seq(Name) /\ Len(SubSeq(t, 1, j)) = j
          /\ \A i \in 1..j : SubSeq(t, 1, j)[i] = t[i]
      BY <2>1, <3>1, FirstOf
    <3>3. /\ SubSeq(u, 1, j) \in Seq(Name) /\ Len(SubSeq(u, 1, j)) = j
          /\ \A i \in 1..j : SubSeq(u, 1, j)[i] = u[i]
      BY <2>4, <3>1, FirstOf
    <3>4. SubSeq(u, 1, j) = SubSeq(t, 1, j)
      BY <2>4, <3>1, <3>2, <3>3, SeqEqual
    <3> QED BY <3>1, <3>4 DEF j
  <2>9. ASSUME NEW r \in Seq(Segments), NEW f \in Nat
        PROVE  Ends[<<z, Ups(m) \o r, f>>] = Ends[<<y, r, f>>]
    <3> DEFINE U == Ups(m)
               V == Ups(k)
    <3>1. /\ U \in Seq(Segments) /\ Len(U) = m /\ \A i \in 1..m : U[i] = DotDot
          /\ V \in Seq(Segments) /\ Len(V) = k /\ \A i \in 1..k : V[i] = DotDot
      BY <2>5, UpsType
    <3> HIDE DEF U, V
    <3>2. U # <<>> /\ Head(U) = DotDot /\ Tail(U) = V
      <4>1. U # <<>>
        BY <1>3, <3>1
      <4>2. /\ Head(U) = U[1] /\ Tail(U) \in Seq(Segments) /\ Len(Tail(U)) = m - 1
            /\ \A i \in 1..(m - 1) : Tail(U)[i] = U[i + 1]
        BY <3>1, <4>1, HeadTailProperties
      <4>3. 1 \in 1..m /\ \A i \in 1..k : i \in 1..(m - 1) /\ i + 1 \in 1..m
        BY <1>3 DEF k
      <4>4. Len(Tail(U)) = Len(V) /\ \A i \in 1..Len(V) : Tail(U)[i] = V[i]
        BY <3>1, <4>2, <4>3 DEF k
      <4>5. Tail(U) = V
        BY <3>1, <4>2, <4>4, SeqEqual
      <4> QED BY <3>1, <4>1, <4>2, <4>3, <4>5
    <3>3. Head(U \o r) = DotDot /\ Tail(U \o r) = V \o r /\ U \o r # <<>> /\ U \o r \in Seq(Segments)
      BY <3>1, <3>2, HeadTailOfConcat, ConcatProperties
    <3> DEFINE names == U \o r
               w == <<z, names, f>>
    <3>4. Head(names) = DotDot /\ Tail(names) = V \o r /\ names # <<>>
          /\ names \in Seq(Name \cup {DotDot})
      BY <3>3 DEF Segments
    <3> HIDE DEF names
    <3>5. w \in Walk /\ w[1] = z /\ w[2] = names /\ w[3] = f
      BY <3>4, WalkParts DEF Node
    <3> HIDE DEF w
    <3>6. ~ Ended(w) /\ Onward(w) = <<a, V \o r, f>>
      BY <3>4, <3>5 DEF Ended, Onward, a
    <3>7. Ends[w] = Ends[<<a, V \o r, f>>]
      BY <3>5, <3>6, EndsSolveHere DEF EndsRight
    <3>8. Ends[<<a, V \o r, f>>] = Ends[<<y, r, f>>]
      BY <2>7 DEF V
    <3> QED BY <3>7, <3>8 DEF w, names, U
  <2> QED BY <2>7, <2>8, <2>9 DEF LeadUp
<1>4. S = {}
  <2> SUFFICES ASSUME S # {} PROVE FALSE
    OBVIOUS
  <2>1. S \in SUBSET Nat
    OBVIOUS
  <2>2. PICK m \in S : \A k \in S : m <= k
    <3> HIDE DEF S
    <3> QED BY <2>1, Least
  <2>z. PICK z \in Dir : \E t \in Spellings(PathOf(z)) :
                           InTree(z) /\ m <= Len(t) /\ ~ LeadUp(z, t, m)
    OBVIOUS
  <2>3. PICK t \in Spellings(PathOf(z)) : InTree(z) /\ m <= Len(t) /\ ~ LeadUp(z, t, m)
    BY <2>z
  <2>4. m \in Nat /\ m # 0
    BY <1>2, <2>3
  <2>5. m - 1 \notin S
    BY <2>2, <2>4
  <2> HIDE DEF S
  <2>6. LeadUp(z, t, m)
    BY <1>3, <2>3, <2>4, <2>5
  <2> QED BY <2>3, <2>6
<1> QED BY <1>4

(* A name leads from the directory that it is found in to what is found.   *)
LEMMA OneName ==
  ASSUME child \in Children, NEW d \in Dir, NEW m \in Name, Entry(d, m) \in Dir \cup File,
         NEW k \in Nat
  PROVE  Ends[<<d, <<m>>, k>>] = Entry(d, m)
<1> DEFINE y == Entry(d, m)
           names == <<m>>
           v == <<d, names, k>>
           o == <<y, <<>>, k>>
<1>1. y \in Node /\ y # None /\ y \notin Link /\ d \in Node
  BY KindsAssumption DEF Node
<1>2. names \in Seq(Name \cup {DotDot}) /\ <<>> \in Seq(Name \cup {DotDot})
  BY EmptySeq
<1>3. Head(names) = m /\ Tail(names) = <<>> /\ names # <<>> /\ m # DotDot
  BY NamesAssumption
<1> HIDE DEF names, y
<1>4. /\ v \in Walk /\ v[1] = d /\ v[2] = names /\ v[3] = k
      /\ o \in Walk /\ o[1] = y /\ o[2] = <<>>
  BY <1>1, <1>2, WalkParts
<1> HIDE DEF v
<1>5. Ended(o) /\ EndOf(o) = y
  BY <1>4 DEF Ended, EndOf
<1>6. Found(v) = y
  BY <1>3, <1>4 DEF Found, y
<1>7. ~ Ended(v) /\ Onward(v) = o
  BY <1>1, <1>3, <1>4, <1>6 DEF Ended, Onward
<1> HIDE DEF o
<1>8. Ends[v] = Ends[o] /\ Ends[o] = y
  BY <1>4, <1>5, <1>7, EndsSolveHere DEF EndsRight
<1> QED BY <1>8 DEF v, names, y

(* The names of a place lead to it from the root, however they are spelled.*)
LEMMA PlaceLeads ==
  ASSUME child \in Children, InPlace(child), NEW x \in Dir \cup File, x \in Dir => InTree(x),
         NEW names \in Places(x), NEW s \in Spellings(names)
  PROVE  s \in Seq(Name) /\ Where(Root, Absolute(s)) = x
<1>1. CASE x \in Dir
  BY <1>1, SpelledLeads DEF Places
<1>2. CASE x \notin Dir
  <2>1. PICK e \in Dir \X Name :
          /\ Linked(e[1]) /\ child[e[1]][e[2]] = x /\ Entry(e[1], e[2]) = x
          /\ names = Append(PathOf(e[1]), e[2])
    BY <1>2 DEF Places
  <2> DEFINE a == e[1]
             n == e[2]
  <2>2. a \in Dir /\ n \in Name /\ Linked(a) /\ Entry(a, n) = x /\ names = Append(PathOf(a), n)
    BY <2>1
  <2> HIDE DEF a, n
  <2>3. InTree(a) /\ PathOf(a) \in Seq(Name)
    BY <2>2, LinkedInTree, PlaceNames
  <2>4. PICK u \in Spellings(PathOf(a)), m \in Name : s = Append(u, m) /\ SpelledAs(m, n)
    BY <2>2, <2>3, SpellingsAppend
  <2>5. u \in Seq(Name) /\ Where(Root, Absolute(u)) = a
    BY <2>2, <2>3, SpelledLeads
  <2>6. Entry(a, m) = x
    <3>1. Alike(m, n) /\ x # None
      BY <2>4, KindsAssumption DEF SpelledAs, Alike, Node
    <3> QED BY <2>2, <3>1, FoundSpelled
  <2>7. /\ u \in Seq(Segments) /\ <<m>> \in Seq(Segments) /\ s = u \o <<m>> /\ s \in Seq(Name)
        /\ u \in Seq(Name \cup {DotDot})
    BY <2>4, <2>5, AppendIsConcat, AppendProperties, SeqMonotonic DEF Segments
  <2>8. Root \in Node /\ a \in Node /\ MaxLinks \in Nat
    BY <2>2, KindsAssumption, LinksAssumption DEF Node
  <2> DEFINE w == <<Root, u, MaxLinks>>
  <2>9. w \in Walk /\ w[1] = Root /\ w[2] = u /\ w[3] = MaxLinks
    BY <2>7, <2>8, WalkParts
  <2>10. \A t : Where(Root, Absolute(t)) = Ends[<<Root, t, MaxLinks>>]
    BY WhereIsEnd DEF Absolute
  <2>11. Ends[w] = a
    BY <2>5, <2>10
  <2> HIDE DEF w
  <2>12. LeadsOn(w, <<m>>)
    BY <2>7, <2>9, WalksLeadOn
  <2>13. PICK k \in Nat : Ends[<<Root, u \o <<m>>, MaxLinks>>] = Ends[<<a, <<m>>, k>>]
    BY <2>8, <2>9, <2>11, <2>12 DEF LeadsOn
  <2>14. Ends[<<a, <<m>>, k>>] = x
    BY <2>2, <2>6, OneName
  <2> QED BY <2>7, <2>10, <2>13, <2>14
<1> QED BY <1>1, <1>2

(* Where a path leads that leads somewhere, and how that place is called.  *)
LEMMA WeaklyLeads ==
  ASSUME child \in Children, InPlace(child), NEW d \in Dir, Linked(d), NEW p \in Path,
         Leads(d, p), NEW q \in Weakly(d, p)
  PROVE  /\ Where(d, p) \in Dir \cup File /\ (Where(d, p) \in Dir => InTree(Where(d, p)))
         /\ \E s \in Seq(Name) :
              /\ q = Absolute(s) /\ Where(Root, Absolute(s)) = Where(d, p)
              /\ Where(d, p) \in Dir => s \in Spellings(PathOf(Where(d, p)))
<1> DEFINE x == Where(d, p)
           at == IF p.abs THEN Root ELSE d
           w == <<at, p.names, MaxLinks>>
<1>1. w \in Walk /\ w[1] = at /\ x = Ends[w]
  BY WhereOf
<1>2. at \in Dir /\ InTree(at) /\ at \notin Link
  BY LinkedInTree, UpInTree, KindsAssumption
<1>3. x \in Node
  BY DEF Leads
<1> HIDE DEF w, at
<1>4. x \notin Link /\ (x \in Dir => InTree(x))
  <2>1. Ends[w] \notin Link /\ (Ends[w] \in Dir => InTree(Ends[w]))
    BY <1>1, <1>2, WalkInTree
  <2> QED BY <1>1, <2>1
<1>5. x \in Dir \cup File
  BY <1>3, <1>4 DEF Node
<1>6. PICK names \in Places(x) : \E s \in Spellings(names) : q = Absolute(s)
  <2>1. q \in Exactly(d, p)
    BY DEF Weakly
  <2> QED BY <2>1 DEF Exactly
<1>7. PICK s \in Spellings(names) : q = Absolute(s)
  BY <1>6
<1> HIDE DEF x
<1>8. s \in Seq(Name) /\ Where(Root, Absolute(s)) = x
  BY <1>4, <1>5, PlaceLeads
<1>9. x \in Dir => s \in Spellings(PathOf(x))
  BY DEF Places
<1> QED BY <1>4, <1>5, <1>7, <1>8, <1>9 DEF x

(* The way to a path in normal form is there, unless it would have to go   *)
(* through directories whose names are not known.                          *)
LEMMA WayThere ==
  ASSUME NEW q, NEW c, IsNormal(q), IsNormal(c), q.abs = c.abs, ~ FurtherUp(c, q)
  PROVE  \E k \in Nat :
           /\ Part(q, c, k) /\ \A i \in (k + 1)..Len(c.names) : c.names[i] # DotDot
           /\ LexicallyRelative(q, c) =
                [abs |-> FALSE, names |-> Ups(Len(c.names) - k) \o After(q, k)]
           /\ After(q, k) \in Seq(Segments) /\ Len(c.names) - k \in Nat
           /\ LexicallyRelative(q, c) \in Path /\ LexicallyRelative(q, c) # Nothing
<1>1. PICK k \in Nat :
        /\ Part(q, c, k) /\ \A i \in (k + 1)..Len(c.names) : c.names[i] # DotDot
        /\ LexicallyRelative(q, c) =
             IF q.abs # c.abs THEN Nothing
             ELSE [abs |-> FALSE, names |-> Ups(Len(c.names) - k) \o After(q, k)]
  BY RelativeNames
<1>2. LexicallyRelative(q, c) = [abs |-> FALSE, names |-> Ups(Len(c.names) - k) \o After(q, k)]
  BY <1>1
<1>3. /\ q.names \in Seq(Segments) /\ c.names \in Seq(Segments)
      /\ Len(c.names) \in Nat /\ Len(q.names) \in Nat /\ k <= Len(c.names) /\ k <= Len(q.names)
      /\ q \in Path
  BY <1>1, LenProperties DEF IsNormal, InForm, Part
<1>4. After(q, k) \in Seq(Segments)
  <2>1. q \in PathsIn(Name) /\ k \in 0..Len(q.names)
    BY <1>1, <1>3, PathsInNames
  <2> QED BY <2>1, CutType DEF Segments
<1>5. Len(c.names) - k \in Nat
  BY <1>3
<1> DEFINE U == Ups(Len(c.names) - k)
           A == After(q, k)
<1>6. U \in Seq(Segments)
  BY <1>5, UpsType
<1> HIDE DEF U, A
<1>7. U \o A \in Seq(Segments)
  BY <1>4, <1>6, ConcatProperties DEF A
<1>8. [abs |-> FALSE, names |-> U \o A] \in Path
  BY <1>7 DEF Path, Segments
<1>9. LexicallyRelative(q, c) \in Path /\ LexicallyRelative(q, c) # Nothing
  BY <1>2, <1>8, NothingAssumption DEF U, A
<1> QED BY <1>1, <1>2, <1>4, <1>5, <1>9

(* From a directory to a place, both found: the way leads there.           *)
LEMMA WayLeads ==
  ASSUME child \in Children, NEW x \in Dir, InTree(x), NEW s \in Spellings(PathOf(x)),
         NEW u \in Seq(Name), Where(Root, Absolute(u)) \in Node,
         NEW k \in Nat, Part(Absolute(u), Absolute(s), k)
  PROVE  Ends[<<x, Ups(Len(s) - k) \o After(Absolute(u), k), MaxLinks>>] = Where(Root, Absolute(u))
<1> DEFINE y == Where(Root, Absolute(u))
           r == After(Absolute(u), k)
           n == Len(s) - k
           h == SubSeq(u, 1, k)
<1>1. /\ s \in Seq(Name) /\ Len(s) \in Nat /\ Len(u) \in Nat /\ u \in Seq(Segments)
      /\ MaxLinks \in Nat /\ Root \in Node
  BY PlaceNames, SpellingsAre, LenProperties, SeqMonotonic, LinksAssumption, KindsAssumption
  DEF Segments, Node
<1>2. k \in 0..Len(u) /\ k \in 0..Len(s) /\ h = SubSeq(s, 1, k)
  BY DEF Part, Absolute
<1>3. n \in Nat /\ n <= Len(s) /\ Len(s) - n = k
  BY <1>1, <1>2
<1>4. r = SubSeq(u, k + 1, Len(u))
  BY DEF After, Absolute
<1>5. h \in Seq(Segments) /\ r \in Seq(Segments) /\ h \o r = u
  <2> DEFINE l == Len(u)
  <2>1. l \in Nat /\ k <= l /\ l <= Len(u) /\ r = SubSeq(u, k + 1, l)
    BY <1>1, <1>2, <1>4
  <2> HIDE DEF l, r
  <2>2. r \in Seq(Segments)
    BY <1>1, <2>1, PartOf
  <2>3. h \in Seq(Segments)
    BY <1>1, <1>2, FirstOf
  <2>4. h \o r = SubSeq(u, 1, l)
    <3> DEFINE m == 1
    <3>1. m \in 1..(Len(u) + 1) /\ k \in (m - 1)..Len(u) /\ l \in k..Len(u)
      BY <1>1, <1>2, <2>1
    <3> HIDE DEF m
    <3>2. SubSeq(u, m, k) \o SubSeq(u, k + 1, l) = SubSeq(u, m, l)
      BY <1>1, <3>1, ConcatAdjacentSubSeq
    <3> QED BY <2>1, <3>2 DEF m
  <2>5. SubSeq(u, 1, Len(u)) = u
    BY <1>1, SubSeqFull
  <2> QED BY <2>2, <2>3, <2>4, <2>5 DEF l
<1> HIDE DEF n
<1>6. PICK z \in Dir :
        /\ InTree(z) /\ SubSeq(s, 1, Len(s) - n) \in Spellings(PathOf(z))
        /\ \A t \in Seq(Segments), f \in Nat : Ends[<<x, Ups(n) \o t, f>>] = Ends[<<z, t, f>>]
  BY <1>3, UpsLead DEF LeadUp
<1> HIDE DEF r, h, y
<1>7. h \in Spellings(PathOf(z))
  BY <1>2, <1>3, <1>6
<1>8. Where(Root, Absolute(h)) = z
  BY <1>6, <1>7, SpelledLeads
<1>9. \A t : Where(Root, Absolute(t)) = Ends[<<Root, t, MaxLinks>>]
  BY WhereIsEnd DEF Absolute
<1> DEFINE w == <<Root, h, MaxLinks>>
<1>10. w \in Walk /\ w[1] = Root /\ w[2] = h /\ w[3] = MaxLinks
  BY <1>1, <1>5, WalkParts DEF Segments
<1>11. Ends[w] = z /\ z \in Node
  BY <1>8, <1>9 DEF Node
<1> HIDE DEF w
<1>12. LeadsOn(w, r)
  BY <1>5, <1>10, WalksLeadOn
<1>13. PICK f \in Nat : f <= MaxLinks /\ Ends[<<Root, h \o r, MaxLinks>>] = Ends[<<z, r, f>>]
  BY <1>10, <1>11, <1>12 DEF LeadsOn
<1>14. Ends[<<z, r, f>>] = y
  BY <1>5, <1>9, <1>13 DEF y
<1> DEFINE v == <<z, r, f>>
<1>15. v \in Walk /\ v[1] = z /\ v[2] = r /\ v[3] = f
  BY <1>5, <1>11, WalkParts DEF Segments
<1>16. Ends[v] = y /\ y \in Node
  BY <1>14 DEF y
<1> HIDE DEF v
<1>17. Ends[<<z, r, MaxLinks>>] = y
  BY <1>1, <1>13, <1>15, <1>16, MoreLinks
<1>18. Ends[<<x, Ups(n) \o r, MaxLinks>>] = y
  BY <1>1, <1>5, <1>6, <1>17
<1> QED BY <1>18 DEF n, r, y

(* The two parts of RelativeHolds, for an answer that is one of those of a *)
(* moment: where both places are found, it leads from the one to the       *)
(* other;                                                                  *)
LEMMA FoundBoth ==
  ASSUME child \in Children, InPlace(child), NEW d \in Dir, Linked(d),
         NEW to \in Path, NEW from \in Path, Leads(d, to), Leads(d, from),
         NEW q \in Weakly(d, to), NEW c \in Weakly(d, from)
  PROVE  /\ q # Nothing /\ c # Nothing
         /\ LexicallyRelative(q, c) # Nothing
         /\ Where(d, from) \in Dir => Where(Where(d, from), LexicallyRelative(q, c)) = Where(d, to)
<1>1. PICK u \in Seq(Name) : q = Absolute(u) /\ Where(Root, Absolute(u)) = Where(d, to)
  BY WeaklyLeads
<1>2. /\ Where(d, from) \in Dir => InTree(Where(d, from))
      /\ \E s \in Seq(Name) :
           c = Absolute(s) /\ (Where(d, from) \in Dir => s \in Spellings(PathOf(Where(d, from))))
  BY WeaklyLeads
<1>3. PICK s \in Seq(Name) :
        c = Absolute(s) /\ (Where(d, from) \in Dir => s \in Spellings(PathOf(Where(d, from))))
  BY <1>2
<1>4. /\ IsNormal(q) /\ q.abs /\ q.names = u
      /\ IsNormal(c) /\ c.abs /\ c.names = s
  BY <1>1, <1>3, NamesInForm
<1>5. q # Nothing /\ c # Nothing
  BY <1>4, NothingAssumption DEF IsNormal
<1>6. ~ FurtherUp(c, q)
  <2>1. \A i \in DOMAIN s : s[i] # DotDot
    <3>1. \A i \in 1..Len(s) : s[i] \in Name
      BY ElementOfSeq
    <3> QED BY <3>1, LenProperties, NamesAssumption
  <2> QED BY <1>4, <2>1 DEF FurtherUp
<1>7. q.abs = c.abs
  BY <1>1, <1>3 DEF Absolute
<1>8. PICK k \in Nat :
        /\ Part(q, c, k)
        /\ LexicallyRelative(q, c) =
             [abs |-> FALSE, names |-> Ups(Len(c.names) - k) \o After(q, k)]
        /\ LexicallyRelative(q, c) # Nothing
  BY <1>4, <1>6, <1>7, WayThere
<1>9. ASSUME Where(d, from) \in Dir
      PROVE  Where(Where(d, from), LexicallyRelative(q, c)) = Where(d, to)
  <2> DEFINE x == Where(d, from)
             r == LexicallyRelative(q, c)
             t == Ups(Len(s) - k) \o After(q, k)
  <2>1. x \in Dir /\ InTree(x) /\ s \in Spellings(PathOf(x))
    BY <1>2, <1>3, <1>9
  <2>2. Where(Root, Absolute(u)) \in Node
    BY <1>1 DEF Leads
  <2>3. Part(Absolute(u), Absolute(s), k)
    BY <1>1, <1>3, <1>8
  <2>4. r.abs = FALSE /\ r.names = t
    BY <1>4, <1>8
  <2> HIDE DEF x, r
  <2>5. Where(x, r) = Ends[<<x, t, MaxLinks>>]
    <3> HIDE DEF t
    <3> QED BY <2>4, WhereIsEnd
  <2>6. Ends[<<x, Ups(Len(s) - k) \o After(Absolute(u), k), MaxLinks>>] = Where(Root, Absolute(u))
    BY <2>1, <2>2, <2>3, WayLeads
  <2>7. Ends[<<x, t, MaxLinks>>] = Where(d, to)
    BY <1>1, <2>6
  <2> QED BY <2>5, <2>7 DEF x, r
<1> QED BY <1>5, <1>8, <1>9

(* ... or it leads there by names,                                         *)
There(q, c, r) ==
  \/ Normal([c EXCEPT !.names = @ \o r.names]) = q
  \/ FurtherUp(c, q)
  \/ call.op = "proximate_to" /\ q.abs # c.abs /\ r = q

(* as it does in any case.                                                 *)
LEMMA ByNames ==
  ASSUME child \in Children, NEW d \in Dir, NEW to \in Path, NEW from \in Path, Relative,
         NEW q \in Weakly(d, to), NEW c \in Weakly(d, from), q # Nothing, c # Nothing,
         Related(q, c) # Nothing
  PROVE  There(q, c, Related(q, c))
<1> DEFINE r == Related(q, c)
<1>1. IsNormal(q) /\ IsNormal(c)
  BY WeaklyNormal
<1>2. CASE FurtherUp(c, q)
  BY <1>2 DEF There
<1>3. CASE ~ FurtherUp(c, q) /\ q.abs # c.abs
  <2>1. LexicallyRelative(q, c) = Nothing
    BY <1>1, <1>3, RelativeNames
  <2> QED BY <1>3, <2>1 DEF Related, There
<1>4. CASE ~ FurtherUp(c, q) /\ q.abs = c.abs
  <2>1. PICK k \in Nat :
          /\ Part(q, c, k) /\ \A i \in (k + 1)..Len(c.names) : c.names[i] # DotDot
          /\ LexicallyRelative(q, c) =
               [abs |-> FALSE, names |-> Ups(Len(c.names) - k) \o After(q, k)]
          /\ LexicallyRelative(q, c) # Nothing
    BY <1>1, <1>4, WayThere
  <2>2. r.names = Ups(Len(c.names) - k) \o After(q, k)
    BY <2>1 DEF Related
  <2>3. Normal([c EXCEPT !.names = @ \o (Ups(Len(c.names) - k) \o After(q, k))]) = q
    BY <1>1, <1>4, <2>1, ThereByNames
  <2> HIDE DEF r
  <2> QED BY <2>2, <2>3 DEF There, r
<1> QED BY <1>2, <1>3, <1>4

(* The answer of fs_relative_to or fs_proximate_to leads from the one      *)
(* place to the other, as the file system goes if both are found, and by   *)
(* names if they are not, unless the base goes further up; for as long as  *)
(* no other program changes the tree and, where a path is relative, no     *)
(* other thread the working directory (relative.cpp:27).                   *)
THEOREM RelativeAnswersLead == Spec => []RelativeHolds
<1>1. CallInv /\ MomentInv => RelativeHolds
  <2> SUFFICES ASSUME CallInv, MomentInv, pc = "done", Relative, ~ InC, still,
                      cwds = {cwd} \/ (call.path.abs /\ call.base.abs)
               PROVE  LeadsThere(cwd)
    BY DEF RelativeHolds, Done, Relative
  <2> DEFINE to == call.path
             from == call.base
  <2>1. /\ child \in Children /\ cwd \in Dir /\ cwds \subseteq Dir /\ call \in Calls
    BY DEF CallInv, StateInv
  <2>2. to \in Path /\ from \in Path
    BY <2>1, RelativeCalls
  <2>3. InPlace(child) /\ (Often \/ \E d \in cwds : Stage(d))
    BY DEF MomentInv, Followed, Relative
  <2>4. ~ Often
    BY DEF Often, AsksOften, Relative
  <2>5. PICK d \in cwds : answer \in Expected(d)
    BY <2>3, <2>4 DEF Stage, StageAt
  <2>6. Weakly(d, to) = Weakly(cwd, to) /\ Weakly(d, from) = Weakly(cwd, from)
    <3>1. CASE cwds = {cwd}
      BY <3>1
    <3>2. CASE to.abs /\ from.abs
      BY <2>1, <2>2, <3>2, WeaklyAnywhere
    <3> QED BY <3>1, <3>2
  <2>7. answer \in BothWeakly(d)
    BY <2>5 DEF Expected, Relative
  <2>8. \/ answer = Nothing /\ Nothing \in Weakly(cwd, to)
        \/ \E q \in Weakly(cwd, to), c \in Weakly(cwd, from) :
             /\ q # Nothing /\ answer = IF c = Nothing THEN Nothing ELSE Related(q, c)
    BY <2>6, <2>7 DEF BothWeakly
  <2> HIDE DEF to, from
  <2>9. ASSUME Leads(cwd, to), Leads(cwd, from), Linked(cwd)
        PROVE  /\ answer # Nothing
               /\ Where(cwd, from) \in Dir => Where(Where(cwd, from), answer) = Where(cwd, to)
    <3>1. \A q \in Weakly(cwd, to), c \in Weakly(cwd, from) :
            /\ q # Nothing /\ c # Nothing /\ LexicallyRelative(q, c) # Nothing
            /\ Where(cwd, from) \in Dir =>
                 Where(Where(cwd, from), LexicallyRelative(q, c)) = Where(cwd, to)
      BY <2>1, <2>2, <2>3, <2>9, FoundBoth
    <3>2. Nothing \notin Weakly(cwd, to)
      BY <2>1, <2>2, <2>3, <2>9, WeaklyLeads, NamesInForm, NothingAssumption DEF IsNormal
    <3>3. PICK q \in Weakly(cwd, to), c \in Weakly(cwd, from) :
            answer = IF c = Nothing THEN Nothing ELSE Related(q, c)
      BY <2>8, <3>2
    <3>4. answer = LexicallyRelative(q, c)
      BY <3>1, <3>3 DEF Related
    <3> QED BY <3>1, <3>4
  <2>10. ASSUME answer # Nothing, ~ answer.abs
         PROVE  \E q \in Weakly(cwd, to), c \in Weakly(cwd, from) :
                  \/ Normal([c EXCEPT !.names = @ \o answer.names]) = q
                  \/ FurtherUp(c, q)
                  \/ call.op = "proximate_to" /\ q.abs # c.abs /\ answer = q
    <3>1. PICK q \in Weakly(cwd, to), c \in Weakly(cwd, from) :
            q # Nothing /\ c # Nothing /\ answer = Related(q, c)
      BY <2>8, <2>10
    <3>2. There(q, c, answer)
      BY <2>1, <2>2, <2>10, <3>1, ByNames
    <3> QED BY <3>2 DEF There
  <2> QED BY <2>9, <2>10 DEF LeadsThere, to, from
<1>2. Init => MomentInv
  BY InitMoment
<1>3. CallInv /\ MomentInv /\ [Next]_vars => MomentInv'
  BY StepMoment
<1> QED BY <1>1, <1>2, <1>3, CallInvariant, PTL DEF Spec
=============================================================================
