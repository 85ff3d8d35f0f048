----------------------- MODULE ParagraphStructureProofs -----------------------
(***************************************************************************)
(* What is proved of ParagraphStructure, for every template, any number of *)
(* edits and any number of commits: the shape of its files, that the draft, *)
(* typed.md and the built document say the same once committed, and that a  *)
(* commit leaves the next one nothing to do.                                *)
(***************************************************************************)
EXTENDS ParagraphStructure, FiniteSetTheorems, WellFoundedInduction, TLAPS

-----------------------------------------------------------------------------
(* Induction on the numbers, over a set of them. *)

\* A set of numbers has a least one: of the intervals 0 .. k its members k
\* span, one has no other within it.
LEMMA Least ==
  ASSUME NEW S, S \subseteq Nat, S # {}
  PROVE  \E m \in S : \A k \in S : m <= k
<1>1. PICK n \in S : TRUE OBVIOUS
<1> DEFINE D == 0 .. n
           T == {0 .. k : k \in S \intersect D}
           R == StrictSubsetOrdering(D)
           F == FiniteSubsetsOf(D)
<1>2. IsWellFoundedOn(R, F) BY FS_StrictSubsetOrderingWellFounded
<1>3. T \subseteq F
  <2>1. \A k \in S \intersect D : 0 .. k \subseteq D /\ IsFiniteSet(0 .. k) BY FS_Interval
  <2> QED BY <2>1 DEF FiniteSubsetsOf
<1>4. T # {} BY <1>1
<1>5. PICK x \in T : \A y \in T : ~(<<y, x>> \in R)
  <2> HIDE DEF T, R, F
  <2> QED BY <1>2, <1>3, <1>4, WFMin
<1>6. PICK m \in S \intersect D : x = 0 .. m OBVIOUS
<1>7. \A k \in S : m <= k
  <2> SUFFICES ASSUME NEW k \in S, k < m PROVE FALSE OBVIOUS
  <2>1. k \in D /\ 0 .. k \in T BY <1>6
  <2>2. 0 .. k \subseteq 0 .. m /\ m \in 0 .. m /\ m \notin 0 .. k OBVIOUS
  <2>3. <<0 .. k, 0 .. m>> \in R BY <2>1, <2>2, <1>6 DEF StrictSubsetOrdering
  <2> QED BY <2>1, <2>3, <1>5, <1>6
<1> QED BY <1>7

\* A set of numbers that has 0, and with every number the next, has them all.
LEMMA Induction ==
  ASSUME NEW S, 0 \in S, \A n \in Nat : n \in S => n + 1 \in S
  PROVE  Nat \subseteq S
<1> SUFFICES ASSUME Nat \ S # {} PROVE FALSE OBVIOUS
<1>1. PICK m \in Nat \ S : \A k \in Nat \ S : m <= k BY Least
<1>2. m # 0 /\ m - 1 \in Nat /\ m - 1 \notin Nat \ S BY <1>1
<1> QED BY <1>1, <1>2

-----------------------------------------------------------------------------
(* Sequences, by their positions. *)

IsSeq(d) == d \in Seq({d[i] : i \in DOMAIN d})

\* A function on an initial interval is a sequence, whatever its values are.
LEMMA SeqByPositions ==
  ASSUME NEW n \in Nat, NEW d, d = [i \in 1 .. n |-> d[i]]
  PROVE  IsSeq(d) /\ Len(d) = n
<1> DEFINE U == {d[i] : i \in DOMAIN d}
<1>1. \A i \in 1 .. n : d[i] \in U OBVIOUS
<1> HIDE DEF U
<1>2. [i \in 1 .. n |-> d[i]] \in Seq(U) BY <1>1
<1>3. Len([i \in 1 .. n |-> d[i]]) = n OBVIOUS
<1> QED BY <1>2, <1>3 DEF IsSeq, U

LEMMA SeqFacts ==
  ASSUME NEW d, IsSeq(d)
  PROVE  Len(d) \in Nat /\ DOMAIN d = 1 .. Len(d) /\ d = [i \in 1 .. Len(d) |-> d[i]]
BY DEF IsSeq

LEMMA SeqOfSome ==
  ASSUME NEW U, NEW d \in Seq(U)
  PROVE  IsSeq(d) /\ Len(d) \in Nat
<1>1. Len(d) \in Nat /\ d = [i \in 1 .. Len(d) |-> d[i]] OBVIOUS
<1> QED BY <1>1, SeqByPositions

LEMMA CatAt ==
  ASSUME NEW x, NEW y, IsSeq(x), IsSeq(y)
  PROVE  /\ IsSeq(x \o y) /\ Len(x \o y) = Len(x) + Len(y)
         /\ DOMAIN (x \o y) = 1 .. Len(x) + Len(y)
         /\ \A i \in 1 .. Len(x) : (x \o y)[i] = x[i]
         /\ \A i \in Len(x) + 1 .. Len(x) + Len(y) : (x \o y)[i] = y[i - Len(x)]
<1> DEFINE U == {x[i] : i \in DOMAIN x} \union {y[i] : i \in DOMAIN y}
<1>1. x \in Seq(U) /\ y \in Seq(U)
  <2>1. \A i \in 1 .. Len(x) : x[i] \in U BY SeqFacts
  <2>2. \A i \in 1 .. Len(y) : y[i] \in U BY SeqFacts
  <2> HIDE DEF U
  <2>3. [i \in 1 .. Len(x) |-> x[i]] \in Seq(U) BY <2>1, SeqFacts
  <2>4. [i \in 1 .. Len(y) |-> y[i]] \in Seq(U) BY <2>2, SeqFacts
  <2> QED BY <2>3, <2>4, SeqFacts
<1> HIDE DEF U
<1>2. x \o y \in Seq(U) /\ Len(x \o y) = Len(x) + Len(y) BY <1>1
<1>3. Len(x) \in Nat /\ Len(y) \in Nat BY <1>1
<1>4. IsSeq(x \o y) BY <1>2, SeqOfSome
<1> QED BY <1>1, <1>2, <1>3, <1>4

LEMMA SubAt ==
  ASSUME NEW d, IsSeq(d), NEW a \in Nat \ {0}, NEW b \in Nat, b <= Len(d), a <= b + 1
  PROVE  /\ IsSeq(SubSeq(d, a, b)) /\ Len(SubSeq(d, a, b)) = b - a + 1
         /\ \A i \in 1 .. b - a + 1 : SubSeq(d, a, b)[i] = d[i + a - 1]
<1> DEFINE U == {d[i] : i \in DOMAIN d}
           s == SubSeq(d, a, b)
<1>1. d \in Seq(U) BY DEF IsSeq
<1> HIDE DEF U
<1>2. Len(d) \in Nat BY <1>1
<1>3. \A i \in a .. b : i \in 1 .. Len(d) BY <1>2
<1>4. /\ Len(s) = b - a + 1
      /\ \A i \in 1 .. b - a + 1 : s[i] = d[i + a - 1]
      /\ s = [i \in 1 .. b - a + 1 |-> s[i]]
  BY <1>1, <1>2, <1>3
<1>5. b - a + 1 \in Nat OBVIOUS
<1> QED BY <1>4, <1>5, SeqByPositions

\* A sequence with the positions from a + 1 to b - 1 replaced by m.
Splice(d, a, m, b) == SubSeq(d, 1, a) \o m \o SubSeq(d, b, Len(d))
IsSplice(e, d, a, m, b) ==
  /\ IsSeq(e) /\ Len(e) = a + Len(m) + Len(d) - b + 1
  /\ \A i \in 1 .. a : e[i] = d[i]
  /\ \A i \in a + 1 .. a + Len(m) : e[i] = m[i - a]
  /\ \A i \in a + Len(m) + 1 .. Len(e) : e[i] = d[i - a - Len(m) + b - 1]
LEMMA SpliceAt ==
  ASSUME NEW d, IsSeq(d), NEW m, IsSeq(m), NEW a \in Nat, NEW b \in Nat, a < b, b <= Len(d) + 1
  PROVE  IsSplice(Splice(d, a, m, b), d, a, m, b)
<1> DEFINE x == SubSeq(d, 1, a)
           y == SubSeq(d, b, Len(d))
<1>1. Len(d) \in Nat /\ Len(m) \in Nat BY SeqFacts
<1>2. IsSeq(x) /\ Len(x) = a /\ \A i \in 1 .. a : x[i] = d[i]
  <2>1. a <= Len(d) /\ 1 <= a + 1 /\ a - 1 + 1 = a BY <1>1
  <2>2. /\ IsSeq(x) /\ Len(x) = a - 1 + 1
        /\ \A i \in 1 .. a - 1 + 1 : x[i] = d[i + 1 - 1]
    BY <2>1, SubAt
  <2> QED BY <2>1, <2>2
<1>3. /\ IsSeq(y) /\ Len(y) = Len(d) - b + 1
      /\ \A i \in 1 .. Len(d) - b + 1 : y[i] = d[i + b - 1]
  <2>1. b \in Nat \ {0} /\ b <= Len(d) + 1 BY <1>1
  <2> QED BY <1>1, <2>1, SubAt
<1> HIDE DEF x, y
<1> DEFINE xm == x \o m
<1>4. /\ IsSeq(xm) /\ Len(xm) = a + Len(m)
      /\ \A i \in 1 .. a : xm[i] = x[i]
      /\ \A i \in a + 1 .. a + Len(m) : xm[i] = m[i - a]
  BY <1>2, CatAt
<1> HIDE DEF xm
<1>5. /\ IsSeq(xm \o y) /\ Len(xm \o y) = a + Len(m) + (Len(d) - b + 1)
      /\ \A i \in 1 .. a + Len(m) : (xm \o y)[i] = xm[i]
      /\ \A i \in a + Len(m) + 1 .. a + Len(m) + (Len(d) - b + 1) : (xm \o y)[i] = y[i - (a + Len(m))]
  <2>1. /\ IsSeq(xm \o y) /\ Len(xm \o y) = Len(xm) + Len(y)
        /\ \A i \in 1 .. Len(xm) : (xm \o y)[i] = xm[i]
        /\ \A i \in Len(xm) + 1 .. Len(xm) + Len(y) : (xm \o y)[i] = y[i - Len(xm)]
    BY <1>3, <1>4, CatAt
  <2>2. Len(xm) = a + Len(m) /\ Len(y) = Len(d) - b + 1 BY <1>3, <1>4
  <2> QED BY <2>1, <2>2
<1>6. Splice(d, a, m, b) = xm \o y BY DEF Splice, x, y, xm
<1> DEFINE e == xm \o y
<1>7. \A i \in 1 .. a : e[i] = d[i] BY <1>1, <1>2, <1>4, <1>5
<1>8. \A i \in a + 1 .. a + Len(m) : e[i] = m[i - a] BY <1>1, <1>4, <1>5
<1>9. ASSUME NEW i \in a + Len(m) + 1 .. Len(e) PROVE e[i] = d[i - a - Len(m) + b - 1]
  <2>1. i \in a + Len(m) + 1 .. a + Len(m) + (Len(d) - b + 1) BY <1>5, <1>9
  <2>2. i - (a + Len(m)) \in 1 .. Len(d) - b + 1 BY <1>1, <2>1
  <2>3. e[i] = d[(i - (a + Len(m))) + b - 1] BY <1>3, <1>5, <2>1, <2>2
  <2>4. (i - (a + Len(m))) + b - 1 = i - a - Len(m) + b - 1 BY <1>1, <2>1
  <2> QED BY <2>3, <2>4
<1>10. Len(e) = a + Len(m) + Len(d) - b + 1 BY <1>1, <1>5
<1> HIDE DEF e
<1>11. Splice(d, a, m, b) = e BY <1>6 DEF e
<1> QED BY <1>5, <1>7, <1>8, <1>9, <1>10, <1>11 DEF e, IsSplice

-----------------------------------------------------------------------------
(* What stands at a set of positions. *)

\* The function Pick defines.
UpTo(t, d, P, n) ==
  t = [k \in 0 .. n |->
        IF k = 0 THEN <<>> ELSE IF k \in P THEN Append(t[k - 1], d[k]) ELSE t[k - 1]]

LEMMA UpToExists ==
  ASSUME NEW d, NEW P
  PROVE  \A n \in Nat : \E t : UpTo(t, d, P, n)
<1> DEFINE S == {n \in Nat : \E t : UpTo(t, d, P, n)}
<1>1. 0 \in S
  <2> DEFINE t == [k \in 0 .. 0 |-> <<>>]
  <2>1. t = [k \in 0 .. 0 |->
              IF k = 0 THEN <<>> ELSE IF k \in P THEN Append(t[k - 1], d[k]) ELSE t[k - 1]]
    OBVIOUS
  <2> HIDE DEF t
  <2>2. UpTo(t, d, P, 0) BY <2>1 DEF UpTo
  <2> QED BY <2>2
<1>2. ASSUME NEW n \in Nat, n \in S PROVE n + 1 \in S
  <2>1. PICK t : UpTo(t, d, P, n) BY <1>2
  <2> DEFINE last == IF n + 1 \in P THEN Append(t[n], d[n + 1]) ELSE t[n]
             g == [k \in 0 .. n + 1 |-> IF k = n + 1 THEN last ELSE t[k]]
  <2>2. ASSUME NEW k \in 0 .. n + 1
        PROVE  g[k] = IF k = 0 THEN <<>>
                      ELSE IF k \in P THEN Append(g[k - 1], d[k]) ELSE g[k - 1]
    <3>1. CASE k = n + 1
      <4>1. g[k] = last /\ k # 0 BY <3>1
      <4>2. g[k - 1] = t[n]
        <5>1. k - 1 = n /\ n \in 0 .. n + 1 /\ n # n + 1 BY <3>1
        <5> HIDE DEF last
        <5> QED BY <5>1
      <4> HIDE DEF g
      <4> QED BY <3>1, <4>1, <4>2
    <3>2. CASE k # n + 1
      <4>1. k \in 0 .. n BY <3>2
      <4>2. t[k] = IF k = 0 THEN <<>>
                   ELSE IF k \in P THEN Append(t[k - 1], d[k]) ELSE t[k - 1]
        BY <2>1, <4>1 DEF UpTo
      <4> HIDE DEF last
      <4>3. g[k] = t[k] BY <3>2
      <4>4. k # 0 => g[k - 1] = t[k - 1]
        <5> SUFFICES ASSUME k # 0 PROVE g[k - 1] = t[k - 1] OBVIOUS
        <5>1. k - 1 \in 0 .. n + 1 /\ k - 1 # n + 1 BY <4>1
        <5> QED BY <5>1
      <4> HIDE DEF g
      <4> QED BY <4>2, <4>3, <4>4
    <3> QED BY <3>1, <3>2
  <2>3. g = [k \in 0 .. n + 1 |-> g[k]] OBVIOUS
  <2> HIDE DEF g
  <2>4. UpTo(g, d, P, n + 1) BY <2>2, <2>3 DEF UpTo
  <2> QED BY <2>4
<1> HIDE DEF S
<1>3. Nat \subseteq S BY <1>1, <1>2, Induction
<1> QED BY <1>3 DEF S

\* u is made of the elements of d at the positions P, each once.
Selects(g, u, d, P) ==
  /\ IsSeq(u)
  /\ \A k \in DOMAIN u : g[k] \in P /\ u[k] = d[g[k]]
  /\ \A p \in P : \E k \in DOMAIN u : g[k] = p
  /\ \A k, l \in DOMAIN u : g[k] = g[l] => k = l

LEMMA SelectNone ==
  ASSUME NEW d
  PROVE  Selects(<<>>, <<>>, d, {})
<1>1. <<>> = [k \in 1 .. 0 |-> <<>>[k]] /\ DOMAIN <<>> = {} OBVIOUS
<1>2. IsSeq(<<>>) BY <1>1, SeqByPositions
<1> QED BY <1>1, <1>2 DEF Selects

LEMMA AppendAt ==
  ASSUME NEW u, IsSeq(u), NEW x
  PROVE  LET v == Append(u, x)
         IN  /\ IsSeq(v) /\ Len(v) = Len(u) + 1 /\ DOMAIN v = 1 .. Len(u) + 1
             /\ \A k \in 1 .. Len(u) : v[k] = u[k]
             /\ v[Len(u) + 1] = x
<1> DEFINE U == {u[i] : i \in DOMAIN u} \union {x}
           v == Append(u, x)
<1>1. u \in Seq(U) /\ x \in U
  <2>1. \A i \in 1 .. Len(u) : u[i] \in U BY SeqFacts
  <2>2. x \in U OBVIOUS
  <2> HIDE DEF U
  <2>3. [i \in 1 .. Len(u) |-> u[i]] \in Seq(U) BY <2>1, SeqFacts
  <2> QED BY <2>2, <2>3, SeqFacts
<1> HIDE DEF U
<1>2. Len(u) \in Nat BY <1>1
<1>3. v \in Seq(U) /\ Len(v) = Len(u) + 1 BY <1>1
<1>4. (\A k \in 1 .. Len(u) : v[k] = u[k]) /\ v[Len(u) + 1] = x BY <1>1, <1>2
<1> HIDE DEF v
<1>5. IsSeq(v) BY <1>3, SeqOfSome
<1>6. DOMAIN v = 1 .. Len(u) + 1 BY <1>3, <1>5, SeqFacts
<1> QED BY <1>3, <1>4, <1>5, <1>6 DEF v

LEMMA SelectOneMore ==
  ASSUME NEW g, NEW u, NEW d, NEW P, Selects(g, u, d, P), NEW j, j \notin P
  PROVE  \E h : Selects(h, Append(u, d[j]), d, P \union {j})
<1> DEFINE m == Len(u)
           v == Append(u, d[j])
           h == [k \in 1 .. m + 1 |-> IF k = m + 1 THEN j ELSE g[k]]
<1>1. IsSeq(u) /\ m \in Nat /\ DOMAIN u = 1 .. m BY SeqFacts DEF Selects
<1>3. /\ IsSeq(v) /\ DOMAIN v = 1 .. m + 1 /\ v[m + 1] = d[j]
      /\ \A k \in 1 .. m : v[k] = u[k]
  BY <1>1, AppendAt
<1> HIDE DEF v, m
<1>4. /\ \A k \in 1 .. m : v[k] = u[k] /\ h[k] = g[k] /\ k \in DOMAIN u /\ k \in 1 .. m + 1
      /\ v[m + 1] = d[j] /\ h[m + 1] = j /\ m + 1 \in 1 .. m + 1
      /\ \A k \in 1 .. m + 1 : k = m + 1 \/ k \in 1 .. m
  BY <1>1, <1>3
<1> HIDE DEF h
<1>5. \A k \in 1 .. m + 1 : h[k] \in P \union {j} /\ v[k] = d[h[k]] BY <1>4 DEF Selects
<1>6. \A p \in P \union {j} : \E k \in 1 .. m + 1 : h[k] = p
  <2> TAKE p \in P \union {j}
  <2>1. CASE p = j BY <1>4, <2>1
  <2>2. CASE p # j
    <3>1. PICK k \in DOMAIN u : g[k] = p BY <2>2 DEF Selects
    <3> QED BY <1>1, <1>4, <3>1
  <2> QED BY <2>1, <2>2
<1>7. \A k, l \in 1 .. m + 1 : h[k] = h[l] => k = l
  <2>1. \A k \in 1 .. m : h[k] \in P BY <1>4 DEF Selects
  <2>2. \A k, l \in 1 .. m : h[k] = h[l] => k = l BY <1>4 DEF Selects
  <2> QED BY <1>4, <2>1, <2>2
<1>8. Selects(h, v, d, P \union {j}) BY <1>3, <1>5, <1>6, <1>7 DEF Selects
<1> QED BY <1>8 DEF v

LEMMA PickSelects ==
  ASSUME NEW d, IsSeq(d), NEW P \in SUBSET DOMAIN d
  PROVE  \E g : Selects(g, Pick(d, P), d, P)
<1> DEFINE n == Len(d)
           t == CHOOSE f : UpTo(f, d, P, n)
           S == {j \in Nat : j <= n => \E g : Selects(g, t[j], d, P \intersect (1 .. j))}
<1>1. n \in Nat /\ DOMAIN d = 1 .. n BY SeqFacts
<1>2. UpTo(t, d, P, n) BY <1>1, UpToExists
<1>3. Pick(d, P) = t[n] BY DEF Pick, UpTo
<1> HIDE DEF t, n
<1>4. 0 \in S
  <2>1. t[0] = <<>> /\ P \intersect (1 .. 0) = {} BY <1>1, <1>2 DEF UpTo
  <2> QED BY <2>1, SelectNone
<1>5. ASSUME NEW j \in Nat, j \in S PROVE j + 1 \in S
  <2> SUFFICES ASSUME j + 1 <= n
               PROVE  \E g : Selects(g, t[j + 1], d, P \intersect (1 .. j + 1))
    OBVIOUS
  <2>1. PICK g : Selects(g, t[j], d, P \intersect (1 .. j)) BY <1>1, <1>5
  <2> HIDE DEF S
  <2>2. j + 1 \in 0 .. n /\ j + 1 # 0 /\ (j + 1) - 1 = j BY <1>1
  <2>3. t[j + 1] = IF j + 1 \in P THEN Append(t[j], d[j + 1]) ELSE t[j] BY <1>2, <2>2 DEF UpTo
  <2>4. CASE j + 1 \in P
    <3>1. P \intersect (1 .. j + 1) = (P \intersect (1 .. j)) \union {j + 1} BY <2>4
    <3>2. j + 1 \notin P \intersect (1 .. j) OBVIOUS
    <3>3. \E h : Selects(h, Append(t[j], d[j + 1]), d, (P \intersect (1 .. j)) \union {j + 1})
      BY <2>1, <3>2, SelectOneMore
    <3> QED BY <2>3, <2>4, <3>1, <3>3
  <2>5. CASE j + 1 \notin P
    <3>1. P \intersect (1 .. j + 1) = P \intersect (1 .. j) BY <2>5
    <3> QED BY <2>1, <2>3, <2>5, <3>1
  <2> QED BY <2>4, <2>5
<1> HIDE DEF S
<1>6. n \in S BY <1>1, <1>4, <1>5, Induction
<1>7. P \intersect (1 .. n) = P BY <1>1
<1>8. \E g : Selects(g, t[n], d, P \intersect (1 .. n))
  <2>1. n <= n BY <1>1
  <2> QED BY <1>6, <2>1, Zenon DEF S
<1> QED BY <1>3, <1>7, <1>8

\* The members of sequences put end to end are the members of each.
LEMMA CatMembers ==
  ASSUME NEW x, NEW y, IsSeq(x), IsSeq(y)
  PROVE  IsSeq(x \o y) /\ Range(x \o y) = Range(x) \union Range(y)
<1> DEFINE z == x \o y
<1>1. /\ IsSeq(z) /\ Len(z) = Len(x) + Len(y) /\ DOMAIN z = 1 .. Len(x) + Len(y)
      /\ \A i \in 1 .. Len(x) : z[i] = x[i]
      /\ \A i \in Len(x) + 1 .. Len(x) + Len(y) : z[i] = y[i - Len(x)]
  BY CatAt
<1>2. /\ Len(x) \in Nat /\ DOMAIN x = 1 .. Len(x)
      /\ Len(y) \in Nat /\ DOMAIN y = 1 .. Len(y)
  BY SeqFacts
<1> HIDE DEF z
<1>3. \A i \in DOMAIN z : z[i] \in Range(x) \union Range(y)
  <2> TAKE i \in DOMAIN z
  <2>1. CASE i <= Len(x)
    <3>1. i \in DOMAIN x /\ z[i] = x[i] BY <1>1, <1>2, <2>1
    <3> QED BY <3>1 DEF Range
  <2>2. CASE ~(i <= Len(x))
    <3>1. i - Len(x) \in DOMAIN y /\ z[i] = y[i - Len(x)] BY <1>1, <1>2, <2>2
    <3> QED BY <3>1 DEF Range
  <2> QED BY <2>1, <2>2
<1>4. \A i \in DOMAIN x : x[i] \in Range(z)
  <2> TAKE i \in DOMAIN x
  <2>1. i \in DOMAIN z /\ z[i] = x[i] BY <1>1, <1>2
  <2> QED BY <2>1 DEF Range
<1>5. \A i \in DOMAIN y : y[i] \in Range(z)
  <2> TAKE i \in DOMAIN y
  <2>1. i + Len(x) \in Len(x) + 1 .. Len(x) + Len(y) /\ (i + Len(x)) - Len(x) = i BY <1>2
  <2>2. i + Len(x) \in DOMAIN z /\ z[i + Len(x)] = y[i] BY <1>1, <1>2, <2>1
  <2> QED BY <2>2 DEF Range
<1>6. Range(z) \subseteq Range(x) \union Range(y) BY <1>3 DEF Range
<1>7. Range(x) \union Range(y) \subseteq Range(z) BY <1>4, <1>5 DEF Range
<1> QED BY <1>1, <1>6, <1>7 DEF z

\* The function that puts a sequence of sequences end to end.
Flattens(f, seqs) ==
  f = [i \in 1 .. Len(seqs) |-> IF i = 1 THEN seqs[i] ELSE f[i - 1] \o seqs[i]]
Joins(f, c, n) ==
  f = [i \in 1 .. n |-> IF i = 1 THEN c[i] ELSE f[i - 1] \o c[i]]

LEMMA JoinsExists ==
  ASSUME NEW c
  PROVE  \A n \in Nat : \E f : Joins(f, c, n)
<1> DEFINE S == {n \in Nat : \E f : Joins(f, c, n)}
<1>1. 0 \in S
  <2>1. Joins(<<>>, c, 0)
    <3>1. <<>> = [i \in 1 .. 0 |-> IF i = 1 THEN c[i] ELSE <<>>[i - 1] \o c[i]] OBVIOUS
    <3> QED BY <3>1 DEF Joins
  <2> QED BY <2>1
<1>2. ASSUME NEW n \in Nat, n \in S PROVE n + 1 \in S
  <2>1. PICK f : Joins(f, c, n) BY <1>2
  <2> DEFINE last == IF n = 0 THEN c[1] ELSE f[n] \o c[n + 1]
             g == [i \in 1 .. n + 1 |-> IF i = n + 1 THEN last ELSE f[i]]
  <2>2. ASSUME NEW i \in 1 .. n + 1
        PROVE  g[i] = IF i = 1 THEN c[i] ELSE g[i - 1] \o c[i]
    <3>1. CASE i = n + 1
      <4>1. g[i] = last BY <3>1
      <4>2. i # 1 => g[i - 1] = f[n] /\ n # 0
        <5> SUFFICES ASSUME i # 1 PROVE g[i - 1] = f[n] /\ n # 0 OBVIOUS
        <5>1. i - 1 = n /\ n \in 1 .. n + 1 /\ n # n + 1 BY <3>1
        <5> HIDE DEF last
        <5> QED BY <5>1
      <4>3. i = 1 => n = 0 BY <3>1
      <4> HIDE DEF g
      <4> QED BY <3>1, <4>1, <4>2, <4>3
    <3>2. CASE i # n + 1
      <4>1. i \in 1 .. n BY <3>2
      <4>2. f[i] = IF i = 1 THEN c[i] ELSE f[i - 1] \o c[i] BY <2>1, <4>1 DEF Joins
      <4> HIDE DEF last
      <4>3. g[i] = f[i] BY <3>2
      <4>4. i # 1 => g[i - 1] = f[i - 1]
        <5> SUFFICES ASSUME i # 1 PROVE g[i - 1] = f[i - 1] OBVIOUS
        <5>1. i - 1 \in 1 .. n + 1 /\ i - 1 # n + 1 BY <4>1
        <5> QED BY <5>1
      <4> HIDE DEF g
      <4> QED BY <4>2, <4>3, <4>4
    <3> QED BY <3>1, <3>2
  <2>3. g = [i \in 1 .. n + 1 |-> g[i]] OBVIOUS
  <2> HIDE DEF g
  <2>4. Joins(g, c, n + 1) BY <2>2, <2>3 DEF Joins
  <2> QED BY <2>4
<1> HIDE DEF S
<1>3. Nat \subseteq S BY <1>1, <1>2, Induction
<1> QED BY <1>3 DEF S


LEMMA FlattenMembers ==
  ASSUME NEW n \in Nat \ {0}, NEW c, c = [k \in 1 .. n |-> c[k]],
         \A k \in 1 .. n : IsSeq(c[k])
  PROVE  /\ IsSeq(FlattenSeq(c))
         /\ \A x : x \in Range(FlattenSeq(c)) <=> \E k \in 1 .. n : x \in Range(c[k])
<1> DEFINE F == CHOOSE f : Flattens(f, c)
           S == {k \in Nat : k + 1 <= n =>
                   /\ IsSeq(F[k + 1])
                   /\ \A x : x \in Range(F[k + 1]) <=> \E j \in 1 .. k + 1 : x \in Range(c[j])}
<1>1. Len(c) = n BY SeqByPositions
<1>2. \A f : Flattens(f, c) <=> Joins(f, c, n) BY <1>1 DEF Flattens, Joins
<1>3. Joins(F, c, n)
  <2>1. \E f : Flattens(f, c) BY <1>2, JoinsExists
  <2> QED BY <1>2, <2>1
<1>4. FlattenSeq(c) = F[n]
  <2>1. FlattenSeq(c) = IF Len(c) = 0 THEN c ELSE F[Len(c)] BY DEF FlattenSeq, Flattens
  <2> HIDE DEF F
  <2> QED BY <1>1, <2>1
<1> HIDE DEF F
<1>5. 0 \in S
  <2>1. 1 \in 1 .. n /\ F[1] = c[1] BY <1>3 DEF Joins
  <2>2. \A j \in 1 .. 0 + 1 : j = 1 OBVIOUS
  <2> QED BY <2>1, <2>2
<1>6. ASSUME NEW k \in Nat, k \in S PROVE k + 1 \in S
  <2> SUFFICES ASSUME (k + 1) + 1 <= n
               PROVE  /\ IsSeq(F[(k + 1) + 1])
                      /\ \A x : x \in Range(F[(k + 1) + 1])
                                  <=> \E j \in 1 .. (k + 1) + 1 : x \in Range(c[j])
    OBVIOUS
  <2>1. /\ IsSeq(F[k + 1])
        /\ \A x : x \in Range(F[k + 1]) <=> \E j \in 1 .. k + 1 : x \in Range(c[j])
    <3>1. k + 1 <= n OBVIOUS
    <3> QED BY <1>6, <3>1
  <2> HIDE DEF S
  <2> DEFINE m == (k + 1) + 1
  <2>2. m \in 1 .. n /\ m # 1 /\ m - 1 = k + 1 OBVIOUS
  <2>3. \A j \in 1 .. m : j = m \/ j \in 1 .. k + 1 OBVIOUS
  <2>4. \A j \in 1 .. k + 1 : j \in 1 .. m OBVIOUS
  <2>5. m \in 1 .. m OBVIOUS
  <2> HIDE DEF m
  <2>6. F[m] = F[k + 1] \o c[m] BY <1>3, <2>2 DEF Joins
  <2>7. IsSeq(c[m]) BY <2>2
  <2>8. IsSeq(F[m]) /\ Range(F[m]) = Range(F[k + 1]) \union Range(c[m])
    <3>1. \A x, y : IsSeq(x) /\ IsSeq(y)
                   => IsSeq(x \o y) /\ Range(x \o y) = Range(x) \union Range(y)
      BY CatMembers
    <3>2. IsSeq(F[k + 1]) BY <2>1
    <3> QED BY <2>6, <2>7, <3>1, <3>2
  <2>9. ASSUME NEW x
        PROVE  x \in Range(F[m]) <=> \E j \in 1 .. m : x \in Range(c[j])
    <3>1. x \in Range(F[m]) <=> x \in Range(F[k + 1]) \/ x \in Range(c[m]) BY <2>8
    <3>2. x \in Range(F[k + 1]) <=> \E j \in 1 .. k + 1 : x \in Range(c[j]) BY <2>1
    <3> QED BY <2>3, <2>4, <2>5, <3>1, <3>2
  <2> QED BY <2>8, <2>9 DEF m
<1> HIDE DEF S
<1>7. Nat \subseteq S BY <1>5, <1>6, Induction
<1>8. n - 1 \in Nat /\ (n - 1) + 1 = n /\ n <= n OBVIOUS
<1>9. /\ IsSeq(F[n])
      /\ \A x : x \in Range(F[n]) <=> \E k \in 1 .. n : x \in Range(c[k])
  BY <1>7, <1>8 DEF S
<1> QED BY <1>4, <1>9

-----------------------------------------------------------------------------
(* The least and the greatest of a set of numbers. *)

LEMMA MinIs ==
  ASSUME NEW S, S \subseteq Int, S # {}, NEW b \in Int, \A x \in S : b <= x
  PROVE  Min(S) \in S /\ \A x \in S : Min(S) <= x
<1> DEFINE T == {x - b : x \in S}
<1>1. T \subseteq Nat
  <2>1. \A x \in S : x - b \in Nat OBVIOUS
  <2> QED BY <2>1
<1>2. T # {}
  <2>1. PICK x \in S : TRUE OBVIOUS
  <2>2. x - b \in T OBVIOUS
  <2> QED BY <2>2
<1>3. PICK t \in T : \A u \in T : t <= u
  <2> HIDE DEF T
  <2> QED BY <1>1, <1>2, Least
<1>4. PICK m \in S : t = m - b OBVIOUS
<1>5. ASSUME NEW x \in S PROVE m <= x
  <2>1. m - b <= x - b BY <1>3, <1>4
  <2> QED BY <2>1
<1> QED BY <1>4, <1>5 DEF Min

LEMMA MaxIs ==
  ASSUME NEW S, S \subseteq Int, S # {}, NEW b \in Int, \A x \in S : x <= b
  PROVE  Max(S) \in S /\ \A x \in S : x <= Max(S)
<1> DEFINE T == {b - x : x \in S}
<1>1. T \subseteq Nat
  <2>1. \A x \in S : b - x \in Nat OBVIOUS
  <2> QED BY <2>1
<1>2. T # {}
  <2>1. PICK x \in S : TRUE OBVIOUS
  <2>2. b - x \in T OBVIOUS
  <2> QED BY <2>2
<1>3. PICK t \in T : \A u \in T : t <= u
  <2> HIDE DEF T
  <2> QED BY <1>1, <1>2, Least
<1>4. PICK m \in S : t = b - m OBVIOUS
<1>5. ASSUME NEW x \in S PROVE m >= x
  <2>1. b - m <= b - x BY <1>3, <1>4
  <2> QED BY <2>1
<1>6. Max(S) \in S /\ \A x \in S : Max(S) >= x BY <1>4, <1>5 DEF Max
<1>7. Max(S) \in Int BY <1>6
<1> QED BY <1>6, <1>7

\* The numbers of a sequence have a bound.
LEMMA Bounded ==
  ASSUME NEW n \in Nat, NEW f, \A i \in 1 .. n : f[i] \in Int
  PROVE  \E b \in Int : \A i \in 1 .. n : f[i] <= b
<1> DEFINE S == {k \in Nat : k <= n => \E b \in Int : \A i \in 1 .. k : f[i] <= b}
<1>1. 0 \in S
  <2>1. \A i \in 1 .. 0 : f[i] <= 0 OBVIOUS
  <2> QED BY <2>1
<1>2. ASSUME NEW k \in Nat, k \in S PROVE k + 1 \in S
  <2> SUFFICES ASSUME k + 1 <= n
               PROVE  \E b \in Int : \A i \in 1 .. k + 1 : f[i] <= b
    OBVIOUS
  <2>1. PICK b \in Int : \A i \in 1 .. k : f[i] <= b BY <1>2
  <2> HIDE DEF S
  <2>2. f[k + 1] \in Int /\ \A i \in 1 .. k + 1 : f[i] \in Int OBVIOUS
  <2> DEFINE c == IF b <= f[k + 1] THEN f[k + 1] ELSE b
  <2>3. c \in Int /\ b <= c /\ f[k + 1] <= c BY <2>2
  <2> HIDE DEF c
  <2>4. ASSUME NEW i \in 1 .. k + 1 PROVE f[i] <= c
    <3>1. CASE i = k + 1 BY <2>3, <3>1
    <3>2. CASE i # k + 1
      <4>1. i \in 1 .. k BY <3>2
      <4> QED BY <2>1, <2>2, <2>3, <4>1
    <3> QED BY <3>1, <3>2
  <2> QED BY <2>3, <2>4
<1> HIDE DEF S
<1>3. n \in S BY <1>1, <1>2, Induction
<1>4. n <= n OBVIOUS
<1> QED BY <1>3, <1>4, Zenon DEF S

-----------------------------------------------------------------------------
(* The blocks of the draft. *)

Blocks == [kind : {"p", "new", "delete"}, id : Int, body : Int, inherit : Int]
Paragraphs(blocks) == Ids(blocks, {"p"})
Temps(blocks) == Ids(blocks, {"new"})
Markers(blocks) == Ids(blocks, {"delete"})

\* Paragraphs have the ids of paragraphs, insertions temporary ones no longer
\* than the draft, no two of them the same, and what is marked deleted is not
\* there and may be deleted.
DraftOK(blocks) ==
  /\ blocks \in Seq(Blocks)
  /\ Paragraphs(blocks) \subseteq Nat
  /\ Temps(blocks) \subseteq -Len(blocks) .. -1
  /\ \A i, j \in At(blocks, Live) : blocks[i].id = blocks[j].id => i = j
  /\ Paragraphs(blocks) \intersect Markers(blocks) = {}
  /\ Markers(blocks) \intersect Protected = {}

LEMMA Kinds ==
  ASSUME NEW d
  PROVE  /\ Ids(d, Live) = Paragraphs(d) \union Temps(d)
         /\ At(d, Live) = At(d, {"p"}) \union At(d, {"new"})
         /\ At(d, {"p"}) \intersect At(d, {"new"}) = {}
         /\ \A i \in At(d, {"p"}) : i \in DOMAIN d /\ d[i].kind = "p" /\ d[i].id \in Paragraphs(d)
         /\ \A i \in At(d, {"new"}) : i \in DOMAIN d /\ d[i].kind = "new" /\ d[i].id \in Temps(d)
         /\ \A i \in At(d, Live) : i \in DOMAIN d /\ d[i].id \in Ids(d, Live)
         /\ \A id \in Paragraphs(d) : \E i \in At(d, {"p"}) : d[i].id = id
         /\ \A id \in Temps(d) : \E i \in At(d, {"new"}) : d[i].id = id
         /\ \A id \in Ids(d, Live) : \E i \in At(d, Live) : d[i].id = id
<1>1. At(d, Live) = At(d, {"p"}) \union At(d, {"new"}) BY DEF At, Live
<1>2. Ids(d, Live) = Paragraphs(d) \union Temps(d) BY <1>1 DEF Ids, Paragraphs, Temps
<1>3. At(d, {"p"}) \intersect At(d, {"new"}) = {} BY DEF At
<1>4. \A kinds : \A i \in At(d, kinds) : i \in DOMAIN d /\ d[i].kind \in kinds /\ d[i].id \in Ids(d, kinds)
  BY DEF At, Ids
<1>5. \A kinds : \A id \in Ids(d, kinds) : \E i \in At(d, kinds) : d[i].id = id BY DEF Ids
<1> QED BY <1>1, <1>2, <1>3, <1>4, <1>5 DEF Paragraphs, Temps

LEMMA BlockAt ==
  ASSUME NEW d \in Seq(Blocks)
  PROVE  /\ IsSeq(d) /\ Len(d) \in Nat /\ DOMAIN d = 1 .. Len(d)
         /\ \A i \in DOMAIN d : /\ d[i] \in Blocks /\ d[i].id \in Int /\ d[i].body \in Int
                                /\ d[i].inherit \in Int /\ d[i].kind \in {"p", "new", "delete"}
<1>1. IsSeq(d) BY SeqOfSome
<1>2. Len(d) \in Nat /\ DOMAIN d = 1 .. Len(d) BY <1>1, SeqFacts
<1>3. \A i \in DOMAIN d : d[i] \in Blocks OBVIOUS
<1>4. \A b \in Blocks : /\ b.id \in Int /\ b.body \in Int /\ b.inherit \in Int
                        /\ b.kind \in {"p", "new", "delete"}
  BY DEF Blocks
<1> QED BY <1>1, <1>2, <1>3, <1>4

LEMMA Of ==
  ASSUME NEW U, NEW d, IsSeq(d), \A i \in DOMAIN d : d[i] \in U
  PROVE  d \in Seq(U)
<1>1. Len(d) \in Nat /\ DOMAIN d = 1 .. Len(d) /\ d = [i \in 1 .. Len(d) |-> d[i]] BY SeqFacts
<1>2. [i \in 1 .. Len(d) |-> d[i]] \in Seq(U) BY <1>1
<1> QED BY <1>1, <1>2

\* Where a live block is found.
LEMMA Found ==
  ASSUME NEW d, DraftOK(d), NEW id \in Ids(d, Live)
  PROVE  /\ Find(d, id) \in At(d, Live) /\ d[Find(d, id)].id = id
         /\ \A i \in At(d, Live) : d[i].id = id => Find(d, id) = i
<1>1. \E i \in DOMAIN d : d[i].id = id /\ d[i].kind \in Live BY DEF Ids, At
<1>2. Find(d, id) \in DOMAIN d /\ d[Find(d, id)].id = id /\ d[Find(d, id)].kind \in Live
  BY <1>1 DEF Find
<1>3. Find(d, id) \in At(d, Live) BY <1>2 DEF At
<1> QED BY <1>2, <1>3 DEF DraftOK

LEMMA NextTempIs ==
  ASSUME NEW d, DraftOK(d)
  PROVE  /\ NextTemp(d) \in -(Len(d) + 1) .. -1
         /\ \A t \in Temps(d) : NextTemp(d) < t
<1> DEFINE S == Temps(d) \union {0}
<1>1. Len(d) \in Nat BY BlockAt DEF DraftOK
<1>2. S \subseteq Int /\ \A x \in S : -Len(d) <= x BY <1>1 DEF DraftOK
<1>3. Min(S) \in S /\ \A x \in S : Min(S) <= x
  <2> HIDE DEF S
  <2>1. -Len(d) \in Int BY <1>1
  <2>2. S # {} BY DEF S
  <2> QED BY <1>2, <2>1, <2>2, MinIs
<1>4. NextTemp(d) = Min(S) - 1 BY DEF NextTemp, Temps
<1>5. Min(S) \in Int /\ Min(S) <= 0 /\ -Len(d) <= Min(S) BY <1>2, <1>3
<1>6. \A t \in Temps(d) : t \in Int /\ Min(S) <= t BY <1>2, <1>3
<1> HIDE DEF S
<1> QED BY <1>1, <1>4, <1>5, <1>6

-----------------------------------------------------------------------------
(* Edits of the draft: some of its blocks and one new one. *)

EditedBy(e, d, S, b, at, h) ==
  /\ IsSeq(e) /\ at \in DOMAIN e /\ e[at] = b
  /\ \A i \in DOMAIN e \ {at} : h[i] \in S /\ e[i] = d[h[i]]
  /\ \A p \in S : \E i \in DOMAIN e \ {at} : h[i] = p
  /\ \A i, k \in DOMAIN e \ {at} : h[i] = h[k] => i = k

LEMMA InsertEdits ==
  ASSUME NEW d, IsSeq(d), NEW n \in 1 .. Len(d), NEW b
  PROVE  LET e == InsertAt(d, n + 1, b)
         IN  /\ Len(e) = Len(d) + 1
             /\ \E at, h : EditedBy(e, d, DOMAIN d, b, at, h)
<1> DEFINE e == InsertAt(d, n + 1, b)
           h == [i \in 1 .. Len(d) + 1 |-> IF i <= n THEN i ELSE i - 1]
<1>1. Len(d) \in Nat /\ DOMAIN d = 1 .. Len(d) BY SeqFacts
<1>2. IsSeq(<<b>>) /\ Len(<<b>>) = 1 /\ <<b>>[1] = b
  <2>1. <<b>> = [i \in 1 .. 1 |-> <<b>>[i]] OBVIOUS
  <2> QED BY <2>1, SeqByPositions
<1>3. e = Splice(d, n, <<b>>, n + 1)
  <2>1. (n + 1) - 1 = n OBVIOUS
  <2> QED BY <2>1 DEF InsertAt, Splice
<1>4. IsSplice(e, d, n, <<b>>, n + 1)
  <2>1. n \in Nat /\ n + 1 \in Nat /\ n < n + 1 /\ n + 1 <= Len(d) + 1 BY <1>1
  <2> QED BY <1>2, <1>3, <2>1, SpliceAt
<1> HIDE DEF e
<1>5. /\ IsSeq(e) /\ Len(e) = Len(d) + 1 /\ DOMAIN e = 1 .. Len(d) + 1
      /\ \A i \in 1 .. n : e[i] = d[i]
      /\ e[n + 1] = b
      /\ \A i \in n + 2 .. Len(d) + 1 : e[i] = d[i - 1]
  <2>1. /\ IsSeq(e) /\ Len(e) = n + 1 + Len(d) - (n + 1) + 1
        /\ \A i \in 1 .. n : e[i] = d[i]
        /\ \A i \in n + 1 .. n + 1 : e[i] = <<b>>[i - n]
        /\ \A i \in n + 1 + 1 .. Len(e) : e[i] = d[i - n - 1 + (n + 1) - 1]
    BY <1>2, <1>4 DEF IsSplice
  <2>2. n + 1 + Len(d) - (n + 1) + 1 = Len(d) + 1 /\ n + 1 + 1 = n + 2 BY <1>1
  <2>3. \A i \in n + 2 .. Len(d) + 1 : i - n - 1 + (n + 1) - 1 = i - 1 BY <1>1
  <2>4. e[n + 1] = b
    <3>1. n + 1 \in n + 1 .. n + 1 /\ (n + 1) - n = 1 OBVIOUS
    <3> QED BY <1>2, <2>1, <3>1
  <2> QED BY <2>1, <2>2, <2>3, <2>4, SeqFacts
<1>6. ASSUME NEW i \in DOMAIN e \ {n + 1} PROVE h[i] \in DOMAIN d /\ e[i] = d[h[i]]
  <2>1. CASE i <= n
    <3>1. h[i] = i /\ i \in 1 .. n BY <1>1, <1>5, <2>1
    <3> QED BY <1>1, <1>5, <3>1
  <2>2. CASE ~(i <= n)
    <3>1. h[i] = i - 1 /\ i \in n + 2 .. Len(d) + 1 BY <1>1, <1>5, <2>2
    <3>2. i - 1 \in DOMAIN d BY <1>1, <3>1
    <3> QED BY <1>5, <3>1, <3>2
  <2> QED BY <2>1, <2>2
<1>7. \A p \in DOMAIN d : \E i \in DOMAIN e \ {n + 1} : h[i] = p
  <2> TAKE p \in DOMAIN d
  <2>1. CASE p <= n
    <3>1. p \in DOMAIN e \ {n + 1} /\ h[p] = p BY <1>1, <1>5, <2>1
    <3> QED BY <3>1
  <2>2. CASE ~(p <= n)
    <3>1. p + 1 \in DOMAIN e \ {n + 1} /\ h[p + 1] = p BY <1>1, <1>5, <2>2
    <3> QED BY <3>1
  <2> QED BY <2>1, <2>2
<1>8. \A i, k \in DOMAIN e \ {n + 1} : h[i] = h[k] => i = k BY <1>1, <1>5
<1>9. n + 1 \in DOMAIN e BY <1>1, <1>5
<1> HIDE DEF h
<1>10. EditedBy(e, d, DOMAIN d, b, n + 1, h) BY <1>5, <1>6, <1>7, <1>8, <1>9 DEF EditedBy
<1>11. Len(e) = Len(d) + 1 /\ \E at, g : EditedBy(e, d, DOMAIN d, b, at, g) BY <1>5, <1>10
<1> QED BY <1>11 DEF e

LEMMA RemoveEdits ==
  ASSUME NEW d, IsSeq(d), NEW n \in 1 .. Len(d), NEW b
  PROVE  LET e == Append(RemoveAt(d, n), b)
         IN  /\ Len(e) = Len(d)
             /\ \E at, h : EditedBy(e, d, DOMAIN d \ {n}, b, at, h)
<1> DEFINE r == RemoveAt(d, n)
           e == Append(r, b)
           m == Len(d)
           h == [i \in 1 .. m |-> IF i < n THEN i ELSE i + 1]
<1>1. m \in Nat /\ DOMAIN d = 1 .. m BY SeqFacts
<1>2. /\ IsSeq(r) /\ Len(r) = m - 1
      /\ \A i \in 1 .. n - 1 : r[i] = d[i]
      /\ \A i \in n .. m - 1 : r[i] = d[i + 1]
  <2> DEFINE x == SubSeq(d, 1, n - 1)
             y == SubSeq(d, n + 1, m)
  <2>1. IsSeq(x) /\ Len(x) = n - 1 /\ \A i \in 1 .. n - 1 : x[i] = d[i]
    <3>1. n - 1 \in Nat /\ n - 1 <= Len(d) /\ 1 <= (n - 1) + 1 /\ 1 \in Nat \ {0} BY <1>1
    <3>2. /\ IsSeq(x) /\ Len(x) = (n - 1) - 1 + 1
          /\ \A i \in 1 .. (n - 1) - 1 + 1 : x[i] = d[i + 1 - 1]
      BY <3>1, SubAt
    <3> HIDE DEF x
    <3> QED BY <3>2
  <2>2. IsSeq(y) /\ Len(y) = m - n /\ \A i \in 1 .. m - n : y[i] = d[i + n]
    <3>1. n + 1 \in Nat \ {0} /\ m <= Len(d) /\ n + 1 <= m + 1 BY <1>1
    <3>2. /\ IsSeq(y) /\ Len(y) = m - (n + 1) + 1
          /\ \A i \in 1 .. m - (n + 1) + 1 : y[i] = d[i + (n + 1) - 1]
      BY <1>1, <3>1, SubAt
    <3>3. m - (n + 1) + 1 = m - n /\ \A i \in Int : i + (n + 1) - 1 = i + n BY <1>1
    <3> HIDE DEF y, m
    <3> QED BY <3>2, <3>3
  <2>3. r = x \o y BY DEF RemoveAt
  <2> HIDE DEF x, y
  <2>4. /\ IsSeq(r) /\ Len(r) = (n - 1) + (m - n)
        /\ \A i \in 1 .. n - 1 : r[i] = x[i]
        /\ \A i \in (n - 1) + 1 .. (n - 1) + (m - n) : r[i] = y[i - (n - 1)]
    <3> DEFINE z == x \o y
    <3>1. /\ IsSeq(z) /\ Len(z) = Len(x) + Len(y)
          /\ \A i \in 1 .. Len(x) : z[i] = x[i]
          /\ \A i \in Len(x) + 1 .. Len(x) + Len(y) : z[i] = y[i - Len(x)]
      BY <2>1, <2>2, CatAt
    <3> HIDE DEF r, z
    <3>2. r = z BY <2>3 DEF z
    <3>3. Len(x) = n - 1 /\ Len(y) = m - n BY <2>1, <2>2
    <3> QED BY <3>1, <3>2, <3>3
  <2> HIDE DEF r
  <2>5. (n - 1) + (m - n) = m - 1 /\ (n - 1) + 1 = n BY <1>1
  <2>6. ASSUME NEW i \in n .. m - 1 PROVE r[i] = d[i + 1]
    <3>1. i - (n - 1) \in 1 .. m - n /\ (i - (n - 1)) + n = i + 1 BY <1>1
    <3>2. r[i] = y[i - (n - 1)] BY <2>4, <2>5
    <3> QED BY <2>2, <3>1, <3>2
  <2> QED BY <2>1, <2>4, <2>5, <2>6
<1> HIDE DEF r, m
<1>3. /\ IsSeq(e) /\ Len(e) = m /\ DOMAIN e = 1 .. m
      /\ \A i \in 1 .. m - 1 : e[i] = r[i]
      /\ e[m] = b
  <2>1. m - 1 \in Nat /\ (m - 1) + 1 = m BY <1>1 DEF m
  <2>2. /\ IsSeq(e) /\ Len(e) = Len(r) + 1 /\ DOMAIN e = 1 .. Len(r) + 1
        /\ \A k \in 1 .. Len(r) : e[k] = r[k]
        /\ e[Len(r) + 1] = b
    BY <1>2, AppendAt
  <2> HIDE DEF e
  <2> QED BY <1>2, <2>1, <2>2
<1> HIDE DEF e
<1>10. n \in 1 .. m BY DEF m
<1>4. ASSUME NEW i \in DOMAIN e \ {m} PROVE h[i] \in DOMAIN d \ {n} /\ e[i] = d[h[i]]
  <2>1. CASE i < n
    <3>1. h[i] = i /\ i \in 1 .. n - 1 /\ i \in 1 .. m - 1 /\ i \in DOMAIN d \ {n}
      BY <1>1, <1>3, <1>10, <2>1
    <3> QED BY <1>2, <1>3, <3>1
  <2>2. CASE ~(i < n)
    <3>1. h[i] = i + 1 /\ i \in n .. m - 1 /\ i \in 1 .. m - 1 /\ i + 1 \in DOMAIN d \ {n}
      BY <1>1, <1>3, <1>10, <2>2
    <3> QED BY <1>2, <1>3, <3>1
  <2> QED BY <2>1, <2>2
<1>5. \A p \in DOMAIN d \ {n} : \E i \in DOMAIN e \ {m} : h[i] = p
  <2> TAKE p \in DOMAIN d \ {n}
  <2>1. CASE p < n
    <3>1. p \in DOMAIN e \ {m} /\ h[p] = p BY <1>1, <1>3, <1>10, <2>1
    <3> QED BY <3>1
  <2>2. CASE ~(p < n)
    <3>1. p - 1 \in DOMAIN e \ {m} /\ h[p - 1] = p BY <1>1, <1>3, <1>10, <2>2
    <3> QED BY <3>1
  <2> QED BY <2>1, <2>2
<1>6. \A i, k \in DOMAIN e \ {m} : h[i] = h[k] => i = k BY <1>1, <1>3, <1>10
<1>7. m \in DOMAIN e BY <1>1, <1>3, <1>10
<1> HIDE DEF h
<1>8. EditedBy(e, d, DOMAIN d \ {n}, b, m, h) BY <1>3, <1>4, <1>5, <1>6, <1>7 DEF EditedBy
<1>9. Len(e) = Len(d) /\ \E at, g : EditedBy(e, d, DOMAIN d \ {n}, b, at, g)
  BY <1>3, <1>8 DEF m
<1> QED BY <1>9 DEF e, r

\* The ids of a kind an edit leaves.
LeftIds(d, S, b, kinds) ==
  {d[i].id : i \in At(d, kinds) \intersect S} \union (IF b.kind \in kinds THEN {b.id} ELSE {})

\* Every paragraph of e is one of d.
ParagraphsOf(e, d) == \A i \in At(e, {"p"}) : \E j \in At(d, {"p"}) : e[i] = d[j]

\* What an edit leaves of the draft, kind by kind.
LEMMA EditedBlocks ==
  ASSUME NEW d \in Seq(Blocks), NEW b \in Blocks, NEW S, S \subseteq DOMAIN d,
         NEW e, NEW at, NEW h, EditedBy(e, d, S, b, at, h)
  PROVE  /\ e \in Seq(Blocks) /\ e # <<>>
         /\ \A kinds : Ids(e, kinds) = LeftIds(d, S, b, kinds)
         /\ b.kind # "p" => ParagraphsOf(e, d)
<1>1. IsSeq(e) /\ at \in DOMAIN e /\ e[at] = b BY DEF EditedBy
<1>2. \A i \in DOMAIN e \ {at} : h[i] \in S /\ e[i] = d[h[i]] BY DEF EditedBy
<1>3. e \in Seq(Blocks)
  <2>1. \A i \in DOMAIN e : e[i] \in Blocks
    <3>1. \A j \in S : d[j] \in Blocks BY BlockAt
    <3> QED BY <1>1, <1>2, <3>1
  <2> QED BY <1>1, <2>1, Of
<1>4. e # <<>> BY <1>1
<1>5. ASSUME NEW kinds
      PROVE  Ids(e, kinds) = LeftIds(d, S, b, kinds)
  <2> DEFINE X == {d[i].id : i \in At(d, kinds) \intersect S}
             Y == IF b.kind \in kinds THEN {b.id} ELSE {}
  <2>1. ASSUME NEW i \in At(e, kinds) PROVE e[i].id \in X \union Y
    <3>1. i \in DOMAIN e /\ e[i].kind \in kinds BY DEF At
    <3>2. CASE i = at BY <1>1, <3>1, <3>2
    <3>3. CASE i # at
      <4>1. h[i] \in S /\ e[i] = d[h[i]] BY <1>2, <3>1, <3>3
      <4>2. h[i] \in At(d, kinds) BY <3>1, <4>1 DEF At
      <4> QED BY <4>1, <4>2
    <3> QED BY <3>2, <3>3
  <2>2. ASSUME NEW j \in At(d, kinds) \intersect S PROVE d[j].id \in Ids(e, kinds)
    <3>1. PICK i \in DOMAIN e \ {at} : h[i] = j BY DEF EditedBy
    <3>2. e[i] = d[j] BY <1>2, <3>1
    <3>3. i \in At(e, kinds) BY <3>1, <3>2 DEF At
    <3> QED BY <3>2, <3>3 DEF Ids
  <2>3. ASSUME b.kind \in kinds PROVE b.id \in Ids(e, kinds)
    <3>1. at \in At(e, kinds) BY <1>1, <2>3 DEF At
    <3> QED BY <1>1, <3>1 DEF Ids
  <2>4. Ids(e, kinds) \subseteq X \union Y
    <3> HIDE DEF X, Y
    <3> QED BY <2>1 DEF Ids
  <2>5. X \union Y \subseteq Ids(e, kinds) BY <2>2, <2>3
  <2> QED BY <2>4, <2>5 DEF LeftIds
<1>6. ASSUME b.kind # "p", NEW i \in At(e, {"p"})
      PROVE  \E j \in At(d, {"p"}) : e[i] = d[j]
  <2>1. i \in DOMAIN e /\ e[i].kind = "p" BY DEF At
  <2>2. i # at BY <1>1, <1>6, <2>1
  <2>3. h[i] \in S /\ e[i] = d[h[i]] BY <1>2, <2>1, <2>2
  <2>4. h[i] \in At(d, {"p"}) BY <2>1, <2>3 DEF At
  <2> QED BY <2>3, <2>4
<1> QED BY <1>3, <1>4, <1>5, <1>6 DEF ParagraphsOf

LEMMA EditedDistinct ==
  ASSUME NEW d, NEW b, NEW S, S \subseteq DOMAIN d,
         NEW e, NEW at, NEW h, EditedBy(e, d, S, b, at, h),
         \A i, j \in At(d, Live) : d[i].id = d[j].id => i = j,
         b.kind \in Live => \A j \in At(d, Live) : d[j].id # b.id,
         NEW i \in At(e, Live), NEW j \in At(e, Live), e[i].id = e[j].id
  PROVE  i = j
<1>1. at \in DOMAIN e /\ e[at] = b BY DEF EditedBy
<1>2. \A k \in DOMAIN e \ {at} : h[k] \in S /\ e[k] = d[h[k]] BY DEF EditedBy
<1>3. i \in DOMAIN e /\ e[i].kind \in Live /\ j \in DOMAIN e /\ e[j].kind \in Live BY DEF At
<1>4. \A k \in {i, j} : k # at => h[k] \in At(d, Live) /\ e[k] = d[h[k]]
  BY <1>2, <1>3 DEF At
<1>5. CASE i # at /\ j # at
  <2>1. h[i] = h[j] BY <1>4, <1>5
  <2> QED BY <1>3, <1>5, <2>1 DEF EditedBy
<1>6. CASE i = at /\ j # at
  <2>1. h[j] \in At(d, Live) /\ d[h[j]].id = b.id /\ b.kind \in Live BY <1>1, <1>3, <1>4, <1>6
  <2> QED BY <2>1
<1>7. CASE i # at /\ j = at
  <2>1. h[i] \in At(d, Live) /\ d[h[i]].id = b.id /\ b.kind \in Live BY <1>1, <1>3, <1>4, <1>7
  <2> QED BY <2>1
<1> QED BY <1>5, <1>6, <1>7

LEMMA InsertedDraft ==
  ASSUME NEW d, DraftOK(d), NEW after \in Ids(d, Live), NEW body \in Int, NEW inherit \in Int
  PROVE  LET e == InsertAt(d, Find(d, after) + 1, Block("new", NextTemp(d), body, inherit))
         IN  /\ DraftOK(e) /\ e # <<>>
             /\ Paragraphs(e) = Paragraphs(d) /\ Markers(e) = Markers(d)
             /\ ParagraphsOf(e, d)
<1> DEFINE n == Find(d, after)
           b == Block("new", NextTemp(d), body, inherit)
           e == InsertAt(d, n + 1, b)
<1>1. d \in Seq(Blocks) /\ IsSeq(d) /\ Len(d) \in Nat /\ DOMAIN d = 1 .. Len(d)
  BY BlockAt DEF DraftOK
<1>2. n \in 1 .. Len(d) BY <1>1, Found, Kinds
<1>3. NextTemp(d) \in -(Len(d) + 1) .. -1 /\ \A t \in Temps(d) : NextTemp(d) < t
  BY NextTempIs
<1>4. b \in Blocks /\ b.kind = "new" /\ b.id = NextTemp(d)
  <2>1. NextTemp(d) \in Int BY <1>1, <1>3
  <2> QED BY <2>1 DEF Block, Blocks
<1> HIDE DEF n, b
<1>5. Len(e) = Len(d) + 1 /\ \E at, h : EditedBy(e, d, DOMAIN d, b, at, h)
  BY <1>1, <1>2, InsertEdits
<1> HIDE DEF e
<1>6. PICK at, h : EditedBy(e, d, DOMAIN d, b, at, h) BY <1>5
<1>7. /\ e \in Seq(Blocks) /\ e # <<>>
      /\ \A kinds : Ids(e, kinds) = LeftIds(d, DOMAIN d, b, kinds)
      /\ ParagraphsOf(e, d)
  <2>1. b.kind # "p" /\ b \in Blocks BY <1>4
  <2>2. DOMAIN d \subseteq DOMAIN d OBVIOUS
  <2>3. /\ e \in Seq(Blocks) /\ e # <<>>
        /\ \A kinds : Ids(e, kinds) = LeftIds(d, DOMAIN d, b, kinds)
        /\ b.kind # "p" => ParagraphsOf(e, d)
    BY <1>1, <1>6, <2>1, <2>2, EditedBlocks, Zenon
  <2> QED BY <2>1, <2>3, Zenon
<1>8. \A kinds : LeftIds(d, DOMAIN d, b, kinds)
                    = Ids(d, kinds) \union (IF "new" \in kinds THEN {NextTemp(d)} ELSE {})
  <2> TAKE kinds
  <2>1. At(d, kinds) \intersect DOMAIN d = At(d, kinds) BY DEF At
  <2>2. {d[i].id : i \in At(d, kinds) \intersect DOMAIN d} = Ids(d, kinds) BY <2>1 DEF Ids
  <2> QED BY <1>4, <2>2 DEF LeftIds
<1>9. Paragraphs(e) = Paragraphs(d) BY <1>4, <1>7, <1>8 DEF Paragraphs
<1>10. Markers(e) = Markers(d) BY <1>4, <1>7, <1>8 DEF Markers
<1>11. Temps(e) = Temps(d) \union {NextTemp(d)} BY <1>4, <1>7, <1>8 DEF Temps
<1>12. Temps(e) \subseteq -Len(e) .. -1
  <2>1. Temps(d) \subseteq -Len(d) .. -1 BY DEF DraftOK
  <2>2. \A t \in Temps(e) : t \in -(Len(d) + 1) .. -1 BY <1>1, <1>3, <1>11, <2>1
  <2> QED BY <1>5, <2>2
<1>13. \A i, j \in At(e, Live) : e[i].id = e[j].id => i = j
  <2>1. ASSUME NEW j \in At(d, Live) PROVE d[j].id # b.id
    <3>1. d[j].id \in Paragraphs(d) \/ d[j].id \in Temps(d) BY Kinds
    <3>2. \A x \in Paragraphs(d) : x # NextTemp(d) BY <1>1, <1>3 DEF DraftOK
    <3>3. \A t \in Temps(d) : t # NextTemp(d)
      <4>1. \A t \in Temps(d) : t \in Int BY <1>1 DEF DraftOK
      <4>2. NextTemp(d) \in Int BY <1>1, <1>3
      <4> QED BY <1>3, <4>1, <4>2
    <3> QED BY <1>4, <3>1, <3>2, <3>3
  <2>2. \A i, j \in At(d, Live) : d[i].id = d[j].id => i = j BY DEF DraftOK
  <2> QED BY <1>6, <2>1, <2>2, EditedDistinct
<1>14. DraftOK(e) BY <1>7, <1>9, <1>10, <1>12, <1>13 DEF DraftOK
<1> QED BY <1>7, <1>9, <1>10, <1>14 DEF e, n, b

LEMMA DeletedDraft ==
  ASSUME NEW d, DraftOK(d), NEW id \in Ids(d, Live), id \notin Protected
  PROVE  LET e == Append(RemoveAt(d, Find(d, id)), Block("delete", id, None, None))
         IN  /\ DraftOK(e) /\ e # <<>>
             /\ Paragraphs(e) = Paragraphs(d) \ {id} /\ Markers(e) = Markers(d) \union {id}
             /\ ParagraphsOf(e, d)
<1> DEFINE n == Find(d, id)
           b == Block("delete", id, None, None)
           e == Append(RemoveAt(d, n), b)
<1>1. d \in Seq(Blocks) /\ IsSeq(d) /\ Len(d) \in Nat /\ DOMAIN d = 1 .. Len(d)
  BY BlockAt DEF DraftOK
<1>2. n \in At(d, Live) /\ d[n].id = id BY Found
<1>3. n \in 1 .. Len(d) BY <1>1, <1>2, Kinds
<1>4. id \in Int
  <2>1. d[n].id \in Int BY <1>1, <1>3, BlockAt
  <2> QED BY <1>2, <2>1
<1>5. b \in Blocks /\ b.kind = "delete" /\ b.id = id
  <2>1. None \in Int BY CountAssumption DEF None
  <2> QED BY <1>4, <2>1 DEF Block, Blocks
<1> HIDE DEF n, b
<1>6. Len(e) = Len(d) /\ \E at, h : EditedBy(e, d, DOMAIN d \ {n}, b, at, h)
  BY <1>1, <1>3, RemoveEdits
<1> HIDE DEF e
<1>7. PICK at, h : EditedBy(e, d, DOMAIN d \ {n}, b, at, h) BY <1>6
<1>8. /\ e \in Seq(Blocks) /\ e # <<>>
      /\ \A kinds : Ids(e, kinds) = LeftIds(d, DOMAIN d \ {n}, b, kinds)
      /\ ParagraphsOf(e, d)
  <2>1. DOMAIN d \ {n} \subseteq DOMAIN d OBVIOUS
  <2>2. b.kind # "p" /\ b \in Blocks BY <1>5
  <2>3. /\ e \in Seq(Blocks) /\ e # <<>>
        /\ \A kinds : Ids(e, kinds) = LeftIds(d, DOMAIN d \ {n}, b, kinds)
        /\ b.kind # "p" => ParagraphsOf(e, d)
    BY <1>1, <1>7, <2>1, <2>2, EditedBlocks, Zenon
  <2> QED BY <2>2, <2>3, Zenon
<1>9. ASSUME NEW kinds, kinds \subseteq Live
      PROVE  LeftIds(d, DOMAIN d \ {n}, b, kinds) = Ids(d, kinds) \ {id}
  <2>1. At(d, kinds) \subseteq At(d, Live) BY <1>9 DEF At
  <2>2. \A i \in At(d, kinds) : d[i].id = id <=> i = n BY <1>2, <2>1 DEF DraftOK
  <2>3. At(d, kinds) \subseteq DOMAIN d BY DEF At
  <2>4. {d[i].id : i \in At(d, kinds) \intersect (DOMAIN d \ {n})} = Ids(d, kinds) \ {id}
    BY <2>2, <2>3 DEF Ids
  <2>5. b.kind \notin kinds BY <1>5, <1>9 DEF Live
  <2> QED BY <2>4, <2>5 DEF LeftIds
<1>10. Paragraphs(e) = Paragraphs(d) \ {id}
  <2>1. {"p"} \subseteq Live BY DEF Live
  <2> QED BY <1>5, <1>8, <1>9, <2>1 DEF Paragraphs
<1>11. Temps(e) = Temps(d) \ {id}
  <2>1. {"new"} \subseteq Live BY DEF Live
  <2> QED BY <1>5, <1>8, <1>9, <2>1 DEF Temps
<1>12. Markers(e) = Markers(d) \union {id}
  <2>1. At(d, {"delete"}) \intersect (DOMAIN d \ {n}) = At(d, {"delete"})
    <3>1. n \notin At(d, {"delete"}) BY <1>2 DEF At, Live
    <3> QED BY <3>1 DEF At
  <2>2. LeftIds(d, DOMAIN d \ {n}, b, {"delete"}) = Ids(d, {"delete"}) \union {id}
    BY <1>5, <2>1 DEF LeftIds, Ids
  <2> QED BY <1>8, <2>2 DEF Markers
<1>13. \A i, j \in At(e, Live) : e[i].id = e[j].id => i = j
  <2>1. b.kind \notin Live BY <1>5 DEF Live
  <2>2. \A i, j \in At(d, Live) : d[i].id = d[j].id => i = j BY DEF DraftOK
  <2>3. DOMAIN d \ {n} \subseteq DOMAIN d OBVIOUS
  <2> QED BY <1>7, <2>1, <2>2, <2>3, EditedDistinct
<1>14. DraftOK(e)
  <2>1. Temps(e) \subseteq -Len(e) .. -1 BY <1>6, <1>11 DEF DraftOK
  <2>2. Paragraphs(e) \subseteq Nat /\ Paragraphs(e) \intersect Markers(e) = {}
        /\ Markers(e) \intersect Protected = {}
    BY <1>10, <1>12 DEF DraftOK
  <2> QED BY <1>8, <1>13, <2>1, <2>2 DEF DraftOK
<1> QED BY <1>8, <1>10, <1>12, <1>14 DEF e, n, b

Reworded(d, id, body) == [d EXCEPT ![Find(d, id)].body = body]
LEMMA RewrittenDraft ==
  ASSUME NEW d, DraftOK(d), NEW id \in Ids(d, Live), NEW body \in Int
  PROVE  LET e == Reworded(d, id, body)
         IN  /\ DraftOK(e) /\ e # <<>>
             /\ Paragraphs(e) = Paragraphs(d) /\ Markers(e) = Markers(d)
             /\ \A i \in At(e, {"p"}) : /\ i \in At(d, {"p"}) /\ e[i].id = d[i].id
                                        /\ e[i].body = IF d[i].id = id THEN body ELSE d[i].body
<1> DEFINE n == Find(d, id)
           e == [d EXCEPT ![n].body = body]
<1>1. /\ d \in Seq(Blocks) /\ IsSeq(d) /\ Len(d) \in Nat /\ DOMAIN d = 1 .. Len(d)
      /\ \A i \in DOMAIN d : d[i] \in Blocks
  BY BlockAt DEF DraftOK
<1>2. n \in At(d, Live) /\ d[n].id = id /\ \A i \in At(d, Live) : d[i].id = id => n = i BY Found
<1>3. n \in DOMAIN d BY <1>2, Kinds
<1> HIDE DEF n
<1>4. /\ DOMAIN e = DOMAIN d
      /\ \A i \in DOMAIN d : i # n => e[i] = d[i]
      /\ e[n] = [d[n] EXCEPT !.body = body]
  BY <1>1, <1>3
<1>5. e = [i \in 1 .. Len(d) |-> e[i]] BY <1>1
<1> HIDE DEF e
<1>6. IsSeq(e) /\ Len(e) = Len(d) BY <1>1, <1>5, SeqByPositions
<1>7. /\ e[n] \in Blocks /\ e[n].kind = d[n].kind /\ e[n].id = d[n].id /\ e[n].body = body
  BY <1>1, <1>3, <1>4 DEF Blocks
<1>8. \A i \in DOMAIN e : /\ e[i] \in Blocks /\ e[i].kind = d[i].kind /\ e[i].id = d[i].id
                          /\ e[i].body = IF i = n THEN body ELSE d[i].body
  <2> TAKE i \in DOMAIN e
  <2>1. CASE i = n BY <1>7, <2>1
  <2>2. CASE i # n BY <1>1, <1>4, <2>2
  <2> QED BY <2>1, <2>2
<1>9. e \in Seq(Blocks) BY <1>6, <1>8, Of
<1>10. \A kinds : At(e, kinds) = At(d, kinds) /\ Ids(e, kinds) = Ids(d, kinds)
  <2> TAKE kinds
  <2>1. At(e, kinds) = At(d, kinds) BY <1>4, <1>8 DEF At
  <2>2. \A i \in At(e, kinds) : e[i].id = d[i].id BY <1>8 DEF At
  <2> QED BY <2>1, <2>2 DEF Ids
<1>11. e # <<>> BY <1>3, <1>4
<1>12. DraftOK(e)
  <2>1. /\ Paragraphs(e) = Paragraphs(d) /\ Temps(e) = Temps(d) /\ Markers(e) = Markers(d)
        /\ At(e, Live) = At(d, Live)
    BY <1>10 DEF Paragraphs, Temps, Markers
  <2>2. \A i \in At(e, Live) : e[i].id = d[i].id BY <1>8 DEF At
  <2> QED BY <1>6, <1>9, <2>1, <2>2 DEF DraftOK
<1>13. ASSUME NEW i \in At(e, {"p"})
       PROVE  /\ i \in At(d, {"p"}) /\ e[i].id = d[i].id
              /\ e[i].body = IF d[i].id = id THEN body ELSE d[i].body
  <2>1. i \in At(d, {"p"}) /\ i \in DOMAIN e BY <1>10 DEF At
  <2>2. i \in At(d, Live) BY <2>1, Kinds
  <2>3. d[i].id = id <=> i = n BY <1>2, <2>2
  <2> QED BY <1>8, <2>1, <2>3
<1>14. Paragraphs(e) = Paragraphs(d) /\ Markers(e) = Markers(d) BY <1>10 DEF Paragraphs, Markers
<1>15. Reworded(d, id, body) = e BY DEF Reworded, e, n
<1> QED BY <1>11, <1>12, <1>13, <1>14, <1>15

-----------------------------------------------------------------------------
(* What a commit makes of the draft. *)

Top(d) == Max(Ids(d, {"p", "delete"}) \union {-1})
Rank(d, t) == CHOOSE k \in DOMAIN News(d) : News(d)[k].id = t

LEMMA TopIs ==
  ASSUME NEW d, DraftOK(d)
  PROVE  /\ Top(d) \in Int /\ -1 <= Top(d)
         /\ \A x \in Paragraphs(d) \union Markers(d) : x \in Int /\ x <= Top(d)
<1> DEFINE S == Ids(d, {"p", "delete"}) \union {-1}
           f == [i \in DOMAIN d |-> d[i].id]
<1>1. /\ Len(d) \in Nat /\ DOMAIN d = 1 .. Len(d) /\ \A i \in DOMAIN d : d[i].id \in Int
  BY BlockAt DEF DraftOK
<1>2. PICK m \in Int : \A i \in 1 .. Len(d) : f[i] <= m
  <2>1. \A i \in 1 .. Len(d) : f[i] \in Int BY <1>1
  <2> HIDE DEF f
  <2> QED BY <1>1, <2>1, Bounded
<1>3. \A x \in Ids(d, {"p", "delete"}) : x \in Int /\ x <= m
  <2>1. ASSUME NEW i \in At(d, {"p", "delete"}) PROVE d[i].id \in Int /\ d[i].id <= m
    <3>1. i \in DOMAIN d BY DEF At
    <3>2. f[i] = d[i].id BY <3>1
    <3> QED BY <1>1, <1>2, <3>1, <3>2
  <2> QED BY <2>1 DEF Ids
<1>4. Max(S) \in S /\ \A x \in S : x <= Max(S)
  <2> DEFINE b == IF m <= -1 THEN -1 ELSE m
  <2>1. b \in Int /\ m <= b /\ -1 <= b OBVIOUS
  <2> HIDE DEF b
  <2>2. S \subseteq Int BY <1>3
  <2>3. \A x \in S : x <= b BY <1>3, <2>1
  <2>4. S # {} OBVIOUS
  <2> HIDE DEF S
  <2> QED BY <2>1, <2>2, <2>3, <2>4, MaxIs
<1>5. S \subseteq Int /\ -1 \in S BY <1>3
<1>6. Paragraphs(d) \union Markers(d) \subseteq S BY DEF Paragraphs, Markers, Ids, At
<1>7. Top(d) = Max(S) BY DEF Top
<1> HIDE DEF S
<1> QED BY <1>4, <1>5, <1>6, <1>7

LEMMA RankIs ==
  ASSUME NEW d, DraftOK(d), NEW t \in Temps(d)
  PROVE  Rank(d, t) \in Nat \ {0} /\ News(d)[Rank(d, t)].id = t
<1>1. IsSeq(d) BY BlockAt DEF DraftOK
<1>2. At(d, {"new"}) \in SUBSET DOMAIN d BY DEF At
<1>3. PICK g : Selects(g, News(d), d, At(d, {"new"})) BY <1>1, <1>2, PickSelects DEF News
<1>4. PICK i \in At(d, {"new"}) : d[i].id = t BY Kinds
<1>5. PICK k \in DOMAIN News(d) : g[k] = i BY <1>3 DEF Selects
<1>6. News(d)[k].id = t BY <1>3, <1>4, <1>5 DEF Selects
<1>7. Rank(d, t) \in DOMAIN News(d) /\ News(d)[Rank(d, t)].id = t BY <1>5, <1>6 DEF Rank
<1>8. \A j \in DOMAIN News(d) : j \in Nat \ {0} BY <1>3, SeqFacts DEF Selects
<1> QED BY <1>7, <1>8

\* The ids a commit gives: paragraphs keep theirs, an insertion gets one of its
\* own, above every id the draft carries.
LEMMA FormalFacts ==
  ASSUME NEW d, DraftOK(d)
  PROVE  /\ \A id \in Paragraphs(d) : Formal(d, id) = id
         /\ \A t \in Temps(d) : /\ Formal(d, t) \in Nat
                                /\ Formal(d, t) \notin Paragraphs(d) \union Markers(d)
         /\ \A id \in Ids(d, Live) : Formal(d, id) \in Nat
         /\ \A a, b \in Ids(d, Live) : Formal(d, a) = Formal(d, b) => a = b
<1>1. \A id \in Paragraphs(d) : id \in Nat /\ Formal(d, id) = id
  <2> TAKE id \in Paragraphs(d)
  <2>1. id \in Nat BY DEF DraftOK
  <2> QED BY <2>1 DEF Formal
<1>2. \A t \in Temps(d) : Formal(d, t) = Top(d) + Rank(d, t)
  <2> TAKE t \in Temps(d)
  <2>1. t \in -Len(d) .. -1 /\ Len(d) \in Nat BY BlockAt DEF DraftOK
  <2>2. ~(t >= 0) BY <2>1
  <2> QED BY <2>2 DEF Formal, Top, Rank
<1>3. \A t \in Temps(d) : Rank(d, t) \in Nat \ {0} /\ News(d)[Rank(d, t)].id = t BY RankIs
<1>4. /\ Top(d) \in Int /\ -1 <= Top(d)
      /\ \A x \in Paragraphs(d) \union Markers(d) : x \in Int /\ x <= Top(d)
  BY TopIs
<1>5. ASSUME NEW t \in Temps(d)
      PROVE  /\ Formal(d, t) \in Nat
             /\ Formal(d, t) \notin Paragraphs(d) \union Markers(d)
  <2>1. Top(d) < Top(d) + Rank(d, t) /\ Top(d) + Rank(d, t) \in Nat BY <1>3, <1>4
  <2>2. \A x \in Paragraphs(d) \union Markers(d) : x # Top(d) + Rank(d, t) BY <1>4, <2>1
  <2> QED BY <1>2, <2>1, <2>2
<1>6. ASSUME NEW a \in Temps(d), NEW b \in Temps(d), Formal(d, a) = Formal(d, b)
      PROVE  a = b
  <2>1. Top(d) + Rank(d, a) = Top(d) + Rank(d, b) BY <1>2, <1>6
  <2>2. Rank(d, a) = Rank(d, b)
    <3>1. Rank(d, a) \in Int /\ Rank(d, b) \in Int BY <1>3
    <3>2. \A x, y, z \in Int : x + y = x + z => y = z OBVIOUS
    <3>3. Top(d) \in Int BY <1>4
    <3> QED BY <2>1, <3>1, <3>2, <3>3, Zenon
  <2>3. News(d)[Rank(d, a)].id = a /\ News(d)[Rank(d, b)].id = b BY <1>3
  <2> QED BY <2>2, <2>3
<1>7. ASSUME NEW a \in Ids(d, Live), NEW b \in Ids(d, Live), Formal(d, a) = Formal(d, b)
      PROVE  a = b
  <2>1. (a \in Paragraphs(d) \/ a \in Temps(d)) /\ (b \in Paragraphs(d) \/ b \in Temps(d)) BY Kinds
  <2> QED BY <1>1, <1>5, <1>6, <1>7, <2>1
<1>8. \A id \in Ids(d, Live) : Formal(d, id) \in Nat BY <1>1, <1>5, Kinds
<1> QED BY <1>1, <1>5, <1>7, <1>8

\* What the draft says, block by block.
LEMMA CommittedFacts ==
  ASSUME NEW d, DraftOK(d)
  PROVE  /\ DOMAIN Committed(d) = {Formal(d, id) : id \in Ids(d, Live)}
         /\ Committed(d) = [f \in DOMAIN Committed(d) |-> Committed(d)[f]]
         /\ \A i \in At(d, Live) : /\ Formal(d, d[i].id) \in DOMAIN Committed(d)
                                   /\ Committed(d)[Formal(d, d[i].id)] = d[i].body
         /\ \A f \in DOMAIN Committed(d) : f \in Nat /\ Committed(d)[f] \in Int
         /\ \A f \in DOMAIN Committed(d) : \E i \in At(d, Live) : f = Formal(d, d[i].id)
<1> DEFINE live == Ids(d, Live)
           F == {Formal(d, id) : id \in live}
           of(f) == CHOOSE id \in live : Formal(d, id) = f
<1>1. Committed(d) = [f \in F |-> d[Find(d, of(f))].body] BY DEF Committed
<1>2. DOMAIN Committed(d) = F BY <1>1
<1>3. Committed(d) = [f \in DOMAIN Committed(d) |-> Committed(d)[f]] BY <1>1
<1>4. ASSUME NEW id \in live PROVE of(Formal(d, id)) = id
  <2>1. of(Formal(d, id)) \in live /\ Formal(d, of(Formal(d, id))) = Formal(d, id) OBVIOUS
  <2> HIDE DEF of
  <2> QED BY <2>1, FormalFacts
<1> HIDE DEF of
<1>5. ASSUME NEW i \in At(d, Live)
      PROVE  /\ Formal(d, d[i].id) \in DOMAIN Committed(d)
             /\ Committed(d)[Formal(d, d[i].id)] = d[i].body
  <2>1. d[i].id \in live BY Kinds
  <2>2. Formal(d, d[i].id) \in F BY <2>1
  <2>3. Committed(d)[Formal(d, d[i].id)] = d[Find(d, d[i].id)].body BY <1>1, <1>4, <2>1, <2>2
  <2>4. Find(d, d[i].id) = i BY <2>1, Found
  <2> QED BY <1>2, <2>2, <2>3, <2>4
<1>6. ASSUME NEW f \in F PROVE \E i \in At(d, Live) : f = Formal(d, d[i].id)
  <2>1. PICK id \in live : f = Formal(d, id) OBVIOUS
  <2>2. PICK i \in At(d, Live) : d[i].id = id BY Kinds
  <2> QED BY <2>1, <2>2
<1>7. ASSUME NEW f \in F PROVE f \in Nat /\ Committed(d)[f] \in Int
  <2>1. PICK i \in At(d, Live) : f = Formal(d, d[i].id) BY <1>6
  <2>2. i \in DOMAIN d /\ d[i].id \in live BY Kinds
  <2>3. d[i].body \in Int BY <2>2, BlockAt DEF DraftOK
  <2> QED BY <1>5, <2>1, <2>2, <2>3, FormalFacts
<1> QED BY <1>2, <1>3, <1>5, <1>6, <1>7

\* The ids of what the draft says: its paragraphs, and the insertions' new ones.
News_(d) == {Formal(d, t) : t \in Temps(d)}
LEMMA SaidIds ==
  ASSUME NEW d, DraftOK(d)
  PROVE  /\ DOMAIN Committed(d) = Paragraphs(d) \union News_(d)
         /\ News_(d) \intersect (Paragraphs(d) \union Markers(d)) = {}
         /\ News_(d) \subseteq Nat
<1>1. DOMAIN Committed(d) = {Formal(d, id) : id \in Paragraphs(d) \union Temps(d)}
  <2>1. DOMAIN Committed(d) = {Formal(d, id) : id \in Ids(d, Live)} BY CommittedFacts
  <2>2. Ids(d, Live) = Paragraphs(d) \union Temps(d) BY Kinds
  <2> QED BY <2>1, <2>2
<1>2. \A id \in Paragraphs(d) : Formal(d, id) = id BY FormalFacts
<1>3. DOMAIN Committed(d) = Paragraphs(d) \union News_(d) BY <1>1, <1>2 DEF News_
<1>4. \A t \in Temps(d) : /\ Formal(d, t) \in Nat
                          /\ Formal(d, t) \notin Paragraphs(d) \union Markers(d)
  BY FormalFacts
<1> QED BY <1>3, <1>4 DEF News_

\* The draft after the commit.
LEMMA CanonicalDraft ==
  ASSUME NEW d, DraftOK(d)
  PROVE  LET c == Canonical(d)
         IN  /\ DraftOK(c) /\ Markers(c) = {} /\ Paragraphs(c) = DOMAIN Committed(d)
             /\ \A i \in DOMAIN c : /\ c[i].kind = "p" /\ c[i].id \in DOMAIN Committed(d)
                                    /\ c[i].body = Committed(d)[c[i].id]
             /\ \A f \in DOMAIN Committed(d) : \E i \in DOMAIN c : c[i].id = f
<1> DEFINE kept == Pick(d, At(d, Live))
           c == Canonical(d)
<1>1. d \in Seq(Blocks) /\ IsSeq(d) BY BlockAt DEF DraftOK
<1>2. At(d, Live) \in SUBSET DOMAIN d BY DEF At
<1>3. PICK g : Selects(g, kept, d, At(d, Live)) BY <1>1, <1>2, PickSelects
<1>4. c = [i \in DOMAIN kept |-> [kept[i] EXCEPT !.kind = "p", !.id = Formal(d, @)]]
  BY DEF Canonical
<1> HIDE DEF kept, c
<1>5. ASSUME NEW i \in DOMAIN kept
      PROVE  /\ g[i] \in At(d, Live) /\ c[i] \in Blocks
             /\ c[i].kind = "p" /\ c[i].id = Formal(d, d[g[i]].id) /\ c[i].body = d[g[i]].body
  <2>1. g[i] \in At(d, Live) /\ kept[i] = d[g[i]] BY <1>3 DEF Selects
  <2>2. g[i] \in DOMAIN d /\ d[g[i]].id \in Ids(d, Live) BY <2>1, Kinds
  <2>3. d[g[i]] \in Blocks BY <1>1, <2>2, BlockAt
  <2>4. Formal(d, d[g[i]].id) \in Int BY <2>2, FormalFacts
  <2>5. c[i] = [d[g[i]] EXCEPT !.kind = "p", !.id = Formal(d, d[g[i]].id)] BY <1>4, <2>1
  <2> DEFINE b == d[g[i]]
             f == Formal(d, d[g[i]].id)
  <2>6. b \in Blocks /\ f \in Int /\ c[i] = [b EXCEPT !.kind = "p", !.id = f] BY <2>3, <2>4, <2>5
  <2>7. c[i] \in Blocks /\ c[i].kind = "p" /\ c[i].id = f /\ c[i].body = b.body
    <3> HIDE DEF b, f
    <3> QED BY <2>6 DEF Blocks
  <2> QED BY <2>1, <2>7
<1>6. DOMAIN c = DOMAIN kept BY <1>4
<1>7. c \in Seq(Blocks) /\ IsSeq(c)
  <2>1. IsSeq(kept) BY <1>3 DEF Selects
  <2>2. Len(kept) \in Nat /\ DOMAIN kept = 1 .. Len(kept) BY <2>1, SeqFacts
  <2>3. c = [i \in 1 .. Len(kept) |-> c[i]] BY <1>4, <2>2
  <2>4. IsSeq(c) BY <2>2, <2>3, SeqByPositions
  <2> QED BY <1>5, <1>6, <2>4, Of
<1>8. \A i \in DOMAIN c : /\ c[i].kind = "p" /\ c[i].id \in DOMAIN Committed(d)
                          /\ c[i].body = Committed(d)[c[i].id]
  <2> TAKE i \in DOMAIN c
  <2>1. /\ g[i] \in At(d, Live)
        /\ c[i].kind = "p" /\ c[i].id = Formal(d, d[g[i]].id) /\ c[i].body = d[g[i]].body
    BY <1>5, <1>6
  <2>2. /\ Formal(d, d[g[i]].id) \in DOMAIN Committed(d)
        /\ Committed(d)[Formal(d, d[g[i]].id)] = d[g[i]].body
    BY <2>1, CommittedFacts
  <2> QED BY <2>1, <2>2
<1>9. \A f \in DOMAIN Committed(d) : \E i \in DOMAIN c : c[i].id = f
  <2> TAKE f \in DOMAIN Committed(d)
  <2>1. PICK j \in At(d, Live) : f = Formal(d, d[j].id) BY CommittedFacts
  <2>2. PICK i \in DOMAIN kept : g[i] = j BY <1>3 DEF Selects
  <2> QED BY <1>5, <1>6, <2>1, <2>2
<1>10. \A i, j \in DOMAIN c : c[i].id = c[j].id => i = j
  <2> SUFFICES ASSUME NEW i \in DOMAIN c, NEW j \in DOMAIN c, c[i].id = c[j].id
               PROVE  i = j
    OBVIOUS
  <2>1. /\ g[i] \in At(d, Live) /\ g[j] \in At(d, Live)
        /\ Formal(d, d[g[i]].id) = Formal(d, d[g[j]].id)
    BY <1>5, <1>6
  <2>2. d[g[i]].id \in Ids(d, Live) /\ d[g[j]].id \in Ids(d, Live) BY <2>1, Kinds
  <2>3. d[g[i]].id = d[g[j]].id BY <2>1, <2>2, FormalFacts
  <2>4. g[i] = g[j] BY <2>1, <2>3 DEF DraftOK
  <2> QED BY <1>3, <1>6, <2>4 DEF Selects
<1>11. Markers(c) = {} /\ Temps(c) = {} BY <1>8 DEF Markers, Temps, Ids, At
<1>12. Paragraphs(c) = DOMAIN Committed(d)
  <2>1. At(c, {"p"}) = DOMAIN c BY <1>8 DEF At
  <2>2. Paragraphs(c) = {c[i].id : i \in DOMAIN c} BY <2>1 DEF Paragraphs, Ids
  <2> QED BY <1>8, <1>9, <2>2
<1>13. DraftOK(c)
  <2>1. \A i, j \in At(c, Live) : c[i].id = c[j].id => i = j BY <1>10 DEF At
  <2>2. Paragraphs(c) \subseteq Nat BY <1>12, CommittedFacts
  <2> QED BY <1>7, <1>11, <2>1, <2>2 DEF DraftOK
<1> QED BY <1>8, <1>9, <1>11, <1>12, <1>13 DEF c

-----------------------------------------------------------------------------
(* The structure a commit records. *)

Records == [id : Nat, body : Int, inherit : Int, before : Int]
StructureOK(s) ==
  /\ s \in [new : Seq(Records), deleted : SUBSET (Baseline \ Protected)]
  /\ Distinct(s.new) /\ Added(s) \intersect Baseline = {}

LEMMA StructureIs ==
  ASSUME NEW s, StructureOK(s)
  PROVE  /\ s.new \in Seq(Records) /\ IsSeq(s.new) /\ Distinct(s.new)
         /\ s.deleted \subseteq Baseline \ Protected
         /\ \A k \in DOMAIN s.new : s.new[k] \in Records /\ s.new[k].id \in Added(s)
         /\ \A id \in Added(s) : /\ Record(s, id) \in DOMAIN s.new /\ s.new[Record(s, id)].id = id
                                 /\ \A k \in DOMAIN s.new : s.new[k].id = id => k = Record(s, id)
<1>1. s.new \in Seq(Records) /\ s.deleted \subseteq Baseline \ Protected /\ Distinct(s.new)
  BY DEF StructureOK
<1>2. IsSeq(s.new) BY <1>1, SeqOfSome
<1>3. \A k \in DOMAIN s.new : s.new[k] \in Records BY <1>1
<1>4. \A k \in DOMAIN s.new : s.new[k].id \in Added(s) BY DEF Added
<1>5. ASSUME NEW id \in Added(s)
      PROVE  /\ Record(s, id) \in DOMAIN s.new /\ s.new[Record(s, id)].id = id
             /\ \A k \in DOMAIN s.new : s.new[k].id = id => k = Record(s, id)
  <2>1. Record(s, id) \in DOMAIN s.new /\ s.new[Record(s, id)].id = id BY DEF Added, Record
  <2> QED BY <1>1, <2>1 DEF Distinct
<1> QED BY <1>1, <1>2, <1>3, <1>4, <1>5

LEMMA RecordParts ==
  ASSUME NEW r \in Records
  PROVE  r.id \in Nat /\ r.body \in Int /\ r.inherit \in Int /\ r.before \in Int
BY DEF Records

\* Records end to end, when no id is in both.
LEMMA CatRecords ==
  ASSUME NEW x \in Seq(Records), NEW y \in Seq(Records), Distinct(x), Distinct(y),
         \A i \in DOMAIN x, j \in DOMAIN y : x[i].id # y[j].id
  PROVE  /\ x \o y \in Seq(Records) /\ Distinct(x \o y)
         /\ \A k \in DOMAIN (x \o y) : \/ \E i \in DOMAIN x : (x \o y)[k] = x[i]
                                       \/ \E j \in DOMAIN y : (x \o y)[k] = y[j]
         /\ \A i \in DOMAIN x : \E k \in DOMAIN (x \o y) : (x \o y)[k] = x[i]
         /\ \A j \in DOMAIN y : \E k \in DOMAIN (x \o y) : (x \o y)[k] = y[j]
<1> DEFINE z == x \o y
<1>1. IsSeq(x) /\ IsSeq(y) BY SeqOfSome
<1>2. /\ Len(x) \in Nat /\ DOMAIN x = 1 .. Len(x)
      /\ Len(y) \in Nat /\ DOMAIN y = 1 .. Len(y)
  BY <1>1, SeqFacts
<1>3. /\ DOMAIN z = 1 .. Len(x) + Len(y)
      /\ \A i \in 1 .. Len(x) : z[i] = x[i]
      /\ \A i \in Len(x) + 1 .. Len(x) + Len(y) : z[i] = y[i - Len(x)]
  BY <1>1, CatAt
<1>4. z \in Seq(Records) OBVIOUS
<1> HIDE DEF z
<1>5. ASSUME NEW k \in DOMAIN z
      PROVE  \/ k \in DOMAIN x /\ z[k] = x[k]
             \/ k - Len(x) \in DOMAIN y /\ z[k] = y[k - Len(x)]
  <2>1. CASE k <= Len(x) BY <1>2, <1>3, <2>1
  <2>2. CASE ~(k <= Len(x)) BY <1>2, <1>3, <2>2
  <2> QED BY <2>1, <2>2
<1>6. Distinct(z)
  <2> SUFFICES ASSUME NEW k \in DOMAIN z, NEW l \in DOMAIN z, z[k].id = z[l].id
               PROVE  k = l
    BY DEF Distinct
  <2>1. CASE k \in DOMAIN x /\ z[k] = x[k] /\ l \in DOMAIN x /\ z[l] = x[l]
    BY <2>1 DEF Distinct
  <2>2. CASE /\ k - Len(x) \in DOMAIN y /\ z[k] = y[k - Len(x)]
             /\ l - Len(x) \in DOMAIN y /\ z[l] = y[l - Len(x)]
    <3>1. k - Len(x) = l - Len(x) BY <2>2 DEF Distinct
    <3> QED BY <1>2, <1>3, <3>1
  <2>3. CASE k \in DOMAIN x /\ z[k] = x[k] /\ l - Len(x) \in DOMAIN y /\ z[l] = y[l - Len(x)]
    BY <2>3
  <2>4. CASE k - Len(x) \in DOMAIN y /\ z[k] = y[k - Len(x)] /\ l \in DOMAIN x /\ z[l] = x[l]
    BY <2>4
  <2> QED BY <1>5, <2>1, <2>2, <2>3, <2>4
<1>7. \A i \in DOMAIN x : \E k \in DOMAIN z : z[k] = x[i]
  <2> TAKE i \in DOMAIN x
  <2>1. i \in DOMAIN z /\ z[i] = x[i] BY <1>2, <1>3
  <2> QED BY <2>1
<1>8. \A j \in DOMAIN y : \E k \in DOMAIN z : z[k] = y[j]
  <2> TAKE j \in DOMAIN y
  <2>1. j + Len(x) \in Len(x) + 1 .. Len(x) + Len(y) /\ (j + Len(x)) - Len(x) = j BY <1>2
  <2>2. j + Len(x) \in DOMAIN z /\ z[j + Len(x)] = y[j] BY <1>2, <1>3, <2>1
  <2> QED BY <2>2
<1>9. \A k \in DOMAIN z : (\E i \in DOMAIN x : z[k] = x[i]) \/ (\E j \in DOMAIN y : z[k] = y[j])
  BY <1>5
<1> QED BY <1>4, <1>6, <1>7, <1>8, <1>9 DEF z

LEMMA NextLiveIs ==
  ASSUME NEW d, DraftOK(d), NEW id
  PROVE  NextLive(d, id) \in Int
<1> DEFINE after == {i \in DOMAIN d : i > Find(d, id) /\ d[i].kind = "p"
                                       /\ d[i].id \notin Ids(d, {"delete"})}
<1>1. DOMAIN d = 1 .. Len(d) /\ Len(d) \in Nat /\ \A i \in DOMAIN d : d[i].id \in Int
  BY BlockAt DEF DraftOK
<1>2. NextLive(d, id) = IF after = {} THEN None ELSE d[Min(after)].id BY DEF NextLive
<1>3. after \subseteq DOMAIN d OBVIOUS
<1> HIDE DEF after
<1>4. after # {} => Min(after) \in after
  <2> SUFFICES ASSUME after # {} PROVE Min(after) \in after OBVIOUS
  <2>1. after \subseteq Int /\ \A x \in after : 1 <= x BY <1>1, <1>3
  <2>2. 1 \in Int OBVIOUS
  <2> QED BY <2>1, <2>2, MinIs
<1>5. None \in Int BY CountAssumption DEF None
<1> QED BY <1>1, <1>2, <1>3, <1>4, <1>5

\* The insertions recorded.
Recorded(d, rows, s) == {t \in Temps(d) : Formal(d, t) \notin Added(s) \union Known(rows)}

LEMMA PushedFacts ==
  ASSUME NEW d, DraftOK(d), NEW rows, NEW s
  PROVE  LET p == Pushed(d, rows, s)
         IN  /\ p \in Seq(Records) /\ Distinct(p)
             /\ \A k \in DOMAIN p : \E t \in Recorded(d, rows, s) : p[k].id = Formal(d, t)
             /\ \A t \in Recorded(d, rows, s) : \E k \in DOMAIN p : p[k].id = Formal(d, t)
             /\ \A k \in DOMAIN p : p[k].body = Committed(d)[p[k].id]
<1> DEFINE R == Recorded(d, rows, s)
           n == Len(d)
           q == [k \in 1 .. n |-> -k]
           K == {k \in 1 .. n : -k \in R}
           temps == Pick(q, K)
           p == Pushed(d, rows, s)
           rec(t) == [id |-> Formal(d, t), body |-> d[Find(d, t)].body,
                      inherit |-> d[Find(d, t)].inherit, before |-> NextLive(d, t)]
<1>1. n \in Nat BY BlockAt DEF DraftOK
<1>2. p = [k \in DOMAIN temps |-> rec(temps[k])] BY DEF Pushed, Recorded, Temps
<1>3. R \subseteq Temps(d) /\ R \subseteq -n .. -1 BY DEF Recorded, DraftOK
<1>4. IsSeq(q) /\ DOMAIN q = 1 .. n
  <2>1. q = [k \in 1 .. n |-> q[k]] OBVIOUS
  <2> HIDE DEF q
  <2> QED BY <1>1, <2>1, SeqByPositions, SeqFacts
<1>5. \A k \in 1 .. n : q[k] = -k OBVIOUS
<1>6. K \in SUBSET (1 .. n) /\ \A k \in K : -k \in R OBVIOUS
<1>7. \A t \in R : -t \in K
  <2> TAKE t \in R
  <2>1. t \in -n .. -1 BY <1>3
  <2>2. -t \in 1 .. n /\ -(-t) = t BY <1>1, <2>1
  <2> QED BY <2>2
<1> HIDE DEF q, K, n
<1>8. PICK g : Selects(g, temps, q, K) BY <1>4, <1>6, PickSelects
<1>9. ASSUME NEW k \in DOMAIN temps PROVE temps[k] \in R /\ g[k] \in 1 .. n /\ temps[k] = -g[k]
  <2>1. g[k] \in K /\ temps[k] = q[g[k]] BY <1>8 DEF Selects
  <2> QED BY <1>5, <1>6, <2>1
<1>10. \A t \in R : \E k \in DOMAIN temps : temps[k] = t
  <2> TAKE t \in R
  <2>1. PICK k \in DOMAIN temps : g[k] = -t BY <1>7, <1>8 DEF Selects
  <2>2. t \in Int /\ -(-t) = t BY <1>1, <1>3
  <2> QED BY <1>9, <2>1, <2>2
<1>11. \A k, l \in DOMAIN temps : temps[k] = temps[l] => k = l
  <2> SUFFICES ASSUME NEW k \in DOMAIN temps, NEW l \in DOMAIN temps, temps[k] = temps[l]
               PROVE  k = l
    OBVIOUS
  <2>1. g[k] = g[l]
    <3>1. g[k] \in Int /\ g[l] \in Int /\ -g[k] = -g[l] BY <1>9
    <3> QED BY <3>1
  <2> QED BY <1>8, <2>1 DEF Selects
<1>12. IsSeq(temps) /\ Len(temps) \in Nat /\ DOMAIN temps = 1 .. Len(temps)
  BY <1>8, SeqFacts DEF Selects
<1> HIDE DEF temps
<1>13. ASSUME NEW t \in R
       PROVE  /\ rec(t) \in Records /\ rec(t).id = Formal(d, t)
              /\ rec(t).body = Committed(d)[Formal(d, t)]
  <2>1. t \in Ids(d, Live) BY <1>3, Kinds
  <2>2. Find(d, t) \in At(d, Live) /\ d[Find(d, t)].id = t BY <2>1, Found
  <2>3. Find(d, t) \in DOMAIN d BY <2>2, Kinds
  <2>4. d[Find(d, t)].body \in Int /\ d[Find(d, t)].inherit \in Int BY <2>3, BlockAt DEF DraftOK
  <2>5. Formal(d, t) \in Nat BY <2>1, FormalFacts
  <2>6. NextLive(d, t) \in Int BY NextLiveIs
  <2>7. Committed(d)[Formal(d, t)] = d[Find(d, t)].body BY <2>2, CommittedFacts
  <2> QED BY <2>4, <2>5, <2>6, <2>7 DEF Records
<1>14. \A k \in DOMAIN temps : p[k] = rec(temps[k]) BY <1>2
<1>15. DOMAIN p = DOMAIN temps /\ p = [k \in DOMAIN temps |-> p[k]] BY <1>2
<1> HIDE DEF p, rec, R
<1>16. \A k \in DOMAIN p : /\ temps[k] \in R /\ p[k] \in Records /\ p[k].id = Formal(d, temps[k])
                           /\ p[k].body = Committed(d)[p[k].id]
  BY <1>9, <1>13, <1>14, <1>15
<1>17. p \in Seq(Records)
  <2>1. p = [k \in 1 .. Len(temps) |-> p[k]] BY <1>12, <1>15
  <2>2. IsSeq(p) BY <1>12, <2>1, SeqByPositions
  <2> QED BY <1>16, <2>2, Of
<1>18. Distinct(p)
  <2> SUFFICES ASSUME NEW k \in DOMAIN p, NEW l \in DOMAIN p, p[k].id = p[l].id
               PROVE  k = l
    BY DEF Distinct
  <2>1. Formal(d, temps[k]) = Formal(d, temps[l]) BY <1>16
  <2>2. temps[k] \in Ids(d, Live) /\ temps[l] \in Ids(d, Live)
    <3>1. Temps(d) \subseteq Ids(d, Live) BY Kinds
    <3>2. temps[k] \in R /\ temps[l] \in R BY <1>16
    <3> QED BY <1>3, <3>1, <3>2
  <2>3. temps[k] = temps[l] BY <2>1, <2>2, FormalFacts
  <2> QED BY <1>11, <1>15, <2>3
<1>19. \A t \in R : \E k \in DOMAIN p : p[k].id = Formal(d, t) BY <1>10, <1>15, <1>16
<1>20. \A k \in DOMAIN p : \E t \in R : p[k].id = Formal(d, t) BY <1>16
<1> QED BY <1>16, <1>17, <1>18, <1>19, <1>20 DEF p, R

\* What is left of the records, as the draft has it now.
Left(d, rows, s) ==
  LET said == Committed(d)
      kept == Pick(s.new, {k \in DOMAIN s.new : s.new[k].id \notin Gone(d, rows)})
  IN  [k \in DOMAIN kept |->
        IF kept[k].id \in DOMAIN said THEN [kept[k] EXCEPT !.body = said[kept[k].id]]
        ELSE kept[k]]

\* One of them, from the one it was.
Updated(r, q, said) ==
  /\ r \in Records /\ r.id = q.id
  /\ q.id \in DOMAIN said => r.body = said[q.id]
  /\ (q.id \in DOMAIN said => q.body = said[q.id]) => r = q

LEMMA LeftFacts ==
  ASSUME NEW d, DraftOK(d), NEW rows, NEW s, StructureOK(s)
  PROVE  LET u == Left(d, rows, s)
         IN  /\ u \in Seq(Records) /\ Distinct(u)
             /\ \A k \in DOMAIN u : \E j \in DOMAIN s.new :
                  s.new[j].id \notin Gone(d, rows) /\ Updated(u[k], s.new[j], Committed(d))
             /\ \A j \in DOMAIN s.new : s.new[j].id \notin Gone(d, rows) =>
                  \E k \in DOMAIN u : Updated(u[k], s.new[j], Committed(d))
<1> DEFINE said == Committed(d)
           K == {k \in DOMAIN s.new : s.new[k].id \notin Gone(d, rows)}
           kept == Pick(s.new, K)
           u == Left(d, rows, s)
<1>1. IsSeq(s.new) /\ Distinct(s.new) /\ \A k \in DOMAIN s.new : s.new[k] \in Records
  BY StructureIs
<1>2. u = [k \in DOMAIN kept |->
            IF kept[k].id \in DOMAIN said THEN [kept[k] EXCEPT !.body = said[kept[k].id]]
            ELSE kept[k]]
  BY DEF Left
<1>3. K \in SUBSET DOMAIN s.new OBVIOUS
<1>4. PICK g : Selects(g, kept, s.new, K)
  <2> HIDE DEF K
  <2> QED BY <1>1, <1>3, PickSelects
<1>5. DOMAIN u = DOMAIN kept /\ u = [k \in DOMAIN kept |-> u[k]] BY <1>2
<1>6. \A f \in DOMAIN said : said[f] \in Int BY CommittedFacts
<1> HIDE DEF kept, said
<1>7. ASSUME NEW k \in DOMAIN kept
      PROVE  g[k] \in K /\ kept[k] = s.new[g[k]] /\ Updated(u[k], s.new[g[k]], said)
  <2>1. g[k] \in K /\ kept[k] = s.new[g[k]] BY <1>4 DEF Selects
  <2> DEFINE q == s.new[g[k]]
  <2>2. q \in Records BY <1>1, <2>1
  <2>3. u[k] = IF q.id \in DOMAIN said THEN [q EXCEPT !.body = said[q.id]] ELSE q BY <1>2, <2>1
  <2> HIDE DEF q, u
  <2>4. CASE q.id \in DOMAIN said
    <3>1. u[k] = [q EXCEPT !.body = said[q.id]] /\ said[q.id] \in Int BY <1>6, <2>3, <2>4
    <3>2. u[k] \in Records /\ u[k].id = q.id /\ u[k].body = said[q.id] BY <2>2, <3>1 DEF Records
    <3>3. q.body = said[q.id] => u[k] = q BY <2>2, <3>1 DEF Records
    <3>4. Updated(u[k], q, said) BY <2>4, <3>2, <3>3 DEF Updated
    <3> QED BY <2>1, <3>4 DEF q
  <2>5. CASE q.id \notin DOMAIN said
    <3>1. Updated(u[k], q, said) BY <2>2, <2>3, <2>5 DEF Updated
    <3> QED BY <2>1, <3>1 DEF q
  <2> QED BY <2>4, <2>5
<1>8. \A j \in K : \E k \in DOMAIN kept : g[k] = j BY <1>4 DEF Selects
<1> HIDE DEF u
<1>9. u \in Seq(Records)
  <2>1. IsSeq(kept) BY <1>4 DEF Selects
  <2>2. Len(kept) \in Nat /\ DOMAIN kept = 1 .. Len(kept) BY <2>1, SeqFacts
  <2>3. u = [k \in 1 .. Len(kept) |-> u[k]] BY <1>5, <2>2
  <2>4. IsSeq(u) BY <2>2, <2>3, SeqByPositions
  <2>5. \A k \in DOMAIN u : u[k] \in Records BY <1>5, <1>7 DEF Updated
  <2> QED BY <2>4, <2>5, Of
<1>10. Distinct(u)
  <2> SUFFICES ASSUME NEW k \in DOMAIN u, NEW l \in DOMAIN u, u[k].id = u[l].id
               PROVE  k = l
    BY DEF Distinct
  <2>1. s.new[g[k]].id = s.new[g[l]].id BY <1>5, <1>7 DEF Updated
  <2>2. g[k] \in DOMAIN s.new /\ g[l] \in DOMAIN s.new BY <1>5, <1>7
  <2>3. g[k] = g[l] BY <1>1, <2>1, <2>2 DEF Distinct
  <2> QED BY <1>4, <1>5, <2>3 DEF Selects
<1>11. \A k \in DOMAIN u : \E j \in DOMAIN s.new :
         s.new[j].id \notin Gone(d, rows) /\ Updated(u[k], s.new[j], said)
  <2> TAKE k \in DOMAIN u
  <2>1. g[k] \in K /\ Updated(u[k], s.new[g[k]], said) BY <1>5, <1>7
  <2>2. g[k] \in DOMAIN s.new /\ s.new[g[k]].id \notin Gone(d, rows) BY <2>1
  <2> HIDE DEF K
  <2> QED BY <2>1, <2>2
<1>12. \A j \in DOMAIN s.new : s.new[j].id \notin Gone(d, rows) =>
         \E k \in DOMAIN u : Updated(u[k], s.new[j], said)
  <2> TAKE j \in DOMAIN s.new
  <2> HAVE s.new[j].id \notin Gone(d, rows)
  <2>1. j \in K OBVIOUS
  <2>2. PICK k \in DOMAIN kept : g[k] = j BY <1>8, <2>1
  <2> QED BY <1>5, <1>7, <2>2
<1> QED BY <1>9, <1>10, <1>11, <1>12 DEF u, said

\* The new structure, by its ids and what its records say.
LEMMA RestructuredFacts ==
  ASSUME NEW d, DraftOK(d), NEW rows, NEW s, StructureOK(s),
         DOMAIN rows \ Baseline \subseteq Added(s)
  PROVE  LET r == Restructured(d, rows, s)
         IN  /\ StructureOK(r)
             /\ Added(r) = (Added(s) \ Gone(d, rows))
                             \union {Formal(d, t) : t \in Recorded(d, rows, s)}
             /\ r.deleted = s.deleted \union (Gone(d, rows) \ Added(s))
             /\ \A k \in DOMAIN r.new : r.new[k].id \in DOMAIN Committed(d)
                                          => r.new[k].body = Committed(d)[r.new[k].id]
<1> DEFINE r == Restructured(d, rows, s)
           u == Left(d, rows, s)
           p == Pushed(d, rows, s)
           said == Committed(d)
           gone == Gone(d, rows)
           fresh == {Formal(d, t) : t \in Recorded(d, rows, s)}
<1>1. r.new = u \o p /\ r.deleted = s.deleted \union (gone \ Added(s))
  BY DEF Restructured, Left
<1>2. r = [new |-> r.new, deleted |-> r.deleted] BY DEF Restructured
<1>3. /\ u \in Seq(Records) /\ Distinct(u)
      /\ \A k \in DOMAIN u : \E j \in DOMAIN s.new :
           s.new[j].id \notin gone /\ Updated(u[k], s.new[j], said)
      /\ \A j \in DOMAIN s.new : s.new[j].id \notin gone =>
           \E k \in DOMAIN u : Updated(u[k], s.new[j], said)
  BY LeftFacts
<1>4. /\ p \in Seq(Records) /\ Distinct(p)
      /\ \A k \in DOMAIN p : \E t \in Recorded(d, rows, s) : p[k].id = Formal(d, t)
      /\ \A t \in Recorded(d, rows, s) : \E k \in DOMAIN p : p[k].id = Formal(d, t)
      /\ \A k \in DOMAIN p : p[k].body = said[p[k].id]
  BY PushedFacts
<1> HIDE DEF r, u, p, said, gone
<1>5. \A k \in DOMAIN u : u[k].id \in Added(s) \ gone BY <1>3 DEF Updated, Added
<1>6. \A k \in DOMAIN p : p[k].id \in fresh BY <1>4
<1>7. fresh \intersect (Added(s) \union Known(rows)) = {} BY DEF Recorded
<1>8. \A id \in Added(s) \ gone : \E k \in DOMAIN u : u[k].id = id BY <1>3 DEF Updated, Added
<1>9. \A f \in fresh : \E k \in DOMAIN p : p[k].id = f BY <1>4
<1> HIDE DEF fresh
<1> DEFINE z == u \o p
<1>10. /\ z \in Seq(Records) /\ Distinct(z)
       /\ \A k \in DOMAIN z : (\E i \in DOMAIN u : z[k] = u[i]) \/ (\E j \in DOMAIN p : z[k] = p[j])
       /\ \A i \in DOMAIN u : \E k \in DOMAIN z : z[k] = u[i]
       /\ \A j \in DOMAIN p : \E k \in DOMAIN z : z[k] = p[j]
  <2>1. \A i \in DOMAIN u, j \in DOMAIN p : u[i].id # p[j].id BY <1>5, <1>6, <1>7
  <2> QED BY <1>3, <1>4, <2>1, CatRecords
<1> HIDE DEF z
<1>11. r.new = z BY <1>1 DEF z
<1>12. Added(r) = (Added(s) \ gone) \union fresh
  <2>1. \A k \in DOMAIN z : z[k].id \in (Added(s) \ gone) \union fresh BY <1>5, <1>6, <1>10
  <2>2. \A f \in (Added(s) \ gone) \union fresh : \E k \in DOMAIN z : z[k].id = f
    <3> TAKE f \in (Added(s) \ gone) \union fresh
    <3>1. CASE f \in Added(s) \ gone
      <4>1. PICK i \in DOMAIN u : u[i].id = f BY <1>8, <3>1
      <4> QED BY <1>10, <4>1
    <3>2. CASE f \in fresh
      <4>1. PICK i \in DOMAIN p : p[i].id = f BY <1>9, <3>2
      <4> QED BY <1>10, <4>1
    <3> QED BY <3>1, <3>2
  <2>3. Added(r) = {z[k].id : k \in DOMAIN z} BY <1>11 DEF Added
  <2> QED BY <2>1, <2>2, <2>3
<1>13. \A k \in DOMAIN z : z[k].id \in DOMAIN said => z[k].body = said[z[k].id]
  <2>1. \A k \in DOMAIN u : u[k].id \in DOMAIN said => u[k].body = said[u[k].id]
    BY <1>3 DEF Updated
  <2>2. \A k \in DOMAIN p : p[k].body = said[p[k].id] BY <1>4
  <2> TAKE k \in DOMAIN z
  <2> HAVE z[k].id \in DOMAIN said
  <2>3. CASE \E i \in DOMAIN u : z[k] = u[i]
    <3>1. PICK i \in DOMAIN u : z[k] = u[i] BY <2>3
    <3>2. u[i].id \in DOMAIN said BY <3>1
    <3>3. u[i].body = said[u[i].id] BY <2>1, <3>2
    <3> QED BY <3>1, <3>3
  <2>4. CASE \E j \in DOMAIN p : z[k] = p[j]
    <3>1. PICK j \in DOMAIN p : z[k] = p[j] BY <2>4
    <3>2. p[j].body = said[p[j].id] BY <2>2
    <3> QED BY <3>1, <3>2
  <2> QED BY <1>10, <2>3, <2>4
<1>14. StructureOK(r)
  <2>1. s.deleted \subseteq Baseline \ Protected BY StructureIs
  <2>2. gone \ Added(s) \subseteq Baseline \ Protected
    <3>1. gone \subseteq Markers(d) /\ gone \subseteq Known(rows) BY DEF gone, Gone, Markers
    <3>2. gone \ Added(s) \subseteq Baseline BY <3>1 DEF Known
    <3> QED BY <3>1, <3>2 DEF DraftOK
  <2>3. Added(r) \intersect Baseline = {}
    <3>1. Added(s) \intersect Baseline = {} BY DEF StructureOK
    <3>2. fresh \intersect Baseline = {} BY <1>7 DEF Known
    <3> QED BY <1>12, <3>1, <3>2
  <2>4. r.deleted \subseteq Baseline \ Protected BY <1>1, <2>1, <2>2
  <2>5. r \in [new : Seq(Records), deleted : SUBSET (Baseline \ Protected)]
    <3>1. r.new \in Seq(Records) BY <1>10, <1>11
    <3> QED BY <1>2, <2>4, <3>1
  <2>6. Distinct(r.new) BY <1>10, <1>11
  <2> QED BY <2>3, <2>5, <2>6 DEF StructureOK
<1> QED BY <1>1, <1>11, <1>12, <1>13, <1>14 DEF r, said, gone, fresh

\* A draft with nothing new and nothing gone leaves the structure as it is.
LEMMA RestructuredSame ==
  ASSUME NEW d, DraftOK(d), NEW rows, NEW s, StructureOK(s), Temps(d) = {}, Markers(d) = {},
         \A k \in DOMAIN s.new : s.new[k].id \in DOMAIN Committed(d)
                                   => s.new[k].body = Committed(d)[s.new[k].id]
  PROVE  Moved(s, Restructured(d, rows, s)) = {}
<1> DEFINE r == Restructured(d, rows, s)
           u == Left(d, rows, s)
           p == Pushed(d, rows, s)
           said == Committed(d)
<1>1. Gone(d, rows) = {} BY DEF Gone, Markers
<1>2. r.new = u \o p /\ r.deleted = s.deleted
  <2>1. r.deleted = s.deleted \union (Gone(d, rows) \ Added(s)) BY DEF Restructured
  <2> QED BY <1>1, <2>1 DEF Restructured, Left
<1>3. /\ u \in Seq(Records) /\ Distinct(u)
      /\ \A k \in DOMAIN u : \E j \in DOMAIN s.new : Updated(u[k], s.new[j], said)
      /\ \A j \in DOMAIN s.new : \E k \in DOMAIN u : Updated(u[k], s.new[j], said)
  BY <1>1, LeftFacts
<1>4. p \in Seq(Records) /\ Distinct(p) /\ DOMAIN p = {}
  <2>1. Recorded(d, rows, s) = {} BY DEF Recorded
  <2> QED BY <2>1, PushedFacts
<1>5. \A j \in DOMAIN s.new : \A v : Updated(v, s.new[j], said) => v = s.new[j]
  BY DEF Updated
<1> HIDE DEF u, p, r, said
<1> DEFINE z == u \o p
<1>6. /\ Distinct(z)
      /\ \A k \in DOMAIN z : \E i \in DOMAIN u : z[k] = u[i]
      /\ \A i \in DOMAIN u : \E k \in DOMAIN z : z[k] = u[i]
  <2>1. /\ Distinct(z)
        /\ \A k \in DOMAIN z : (\E i \in DOMAIN u : z[k] = u[i]) \/ (\E j \in DOMAIN p : z[k] = p[j])
        /\ \A i \in DOMAIN u : \E k \in DOMAIN z : z[k] = u[i]
    BY <1>3, <1>4, CatRecords
  <2> HIDE DEF z
  <2> QED BY <1>4, <2>1
<1> HIDE DEF z
<1>7. /\ \A k \in DOMAIN z : \E j \in DOMAIN s.new : z[k] = s.new[j]
      /\ \A j \in DOMAIN s.new : \E k \in DOMAIN z : z[k] = s.new[j]
  <2>1. ASSUME NEW k \in DOMAIN z PROVE \E j \in DOMAIN s.new : z[k] = s.new[j]
    <3>1. PICK i \in DOMAIN u : z[k] = u[i] BY <1>6
    <3>2. PICK j \in DOMAIN s.new : Updated(u[i], s.new[j], said) BY <1>3
    <3> QED BY <1>5, <3>1, <3>2
  <2>2. ASSUME NEW j \in DOMAIN s.new PROVE \E k \in DOMAIN z : z[k] = s.new[j]
    <3>1. PICK i \in DOMAIN u : Updated(u[i], s.new[j], said) BY <1>3
    <3>2. PICK k \in DOMAIN z : z[k] = u[i] BY <1>6
    <3> QED BY <1>5, <3>1, <3>2
  <2> QED BY <2>1, <2>2
<1>8. r.new = z BY <1>2 DEF z
<1>9. Added(r) = Added(s) BY <1>7, <1>8 DEF Added
<1>10. ASSUME NEW id \in Added(s) PROVE s.new[Record(s, id)] = r.new[Record(r, id)]
  <2>1. /\ Record(s, id) \in DOMAIN s.new /\ s.new[Record(s, id)].id = id
        /\ \A k \in DOMAIN s.new : s.new[k].id = id => k = Record(s, id)
    BY StructureIs
  <2>2. Record(r, id) \in DOMAIN z /\ z[Record(r, id)].id = id
    <3>1. \E k \in DOMAIN z : z[k].id = id BY <1>7, <2>1
    <3> QED BY <1>8, <3>1 DEF Record
  <2>3. PICK j \in DOMAIN s.new : z[Record(r, id)] = s.new[j] BY <1>7, <2>2
  <2>4. j = Record(s, id) BY <2>1, <2>2, <2>3
  <2> QED BY <1>8, <2>3, <2>4
<1>11. Moved(s, r) = {} BY <1>2, <1>9, <1>10 DEF Moved
<1> QED BY <1>11 DEF r

-----------------------------------------------------------------------------
(* The inductive invariant. *)

\* What every state has: the draft's paragraphs and typed.md's rows are
\* paragraphs of the template or recorded insertions.
Shape ==
  /\ DraftOK(draft) /\ StructureOK(structure)
  /\ DOMAIN islands \subseteq Baseline
  /\ Paragraphs(draft) \ Baseline \subseteq Added(structure)
  /\ DOMAIN typed.rows \ Baseline \subseteq Added(structure)
  /\ used \in [edits : Nat, deletes : Nat, commits : Nat, reverts : Nat]

\* What the last commit bound; the template's paragraphs before the first one.
Base == IF used.commits = 0 THEN Rendered ELSE bound

ReadsAs(blocks, rows) ==
  /\ \A i \in DOMAIN blocks : /\ blocks[i].kind = "p" /\ blocks[i].id \in DOMAIN rows
                              /\ blocks[i].body = rows[blocks[i].id]
  /\ \A f \in DOMAIN rows : \E i \in DOMAIN blocks : blocks[i].id = f
RecordsAgree(s, rows) ==
  \A k \in DOMAIN s.new : /\ s.new[k].id \in DOMAIN rows
                          /\ s.new[k].body = rows[s.new[k].id]
TextsAgree(blocks, s, edits) ==
  \A i \in At(blocks, {"p"}) : blocks[i].id \in Baseline \ s.deleted =>
    blocks[i].body = IF blocks[i].id \in DOMAIN edits THEN edits[blocks[i].id] ELSE blocks[i].id

\* How the files agree as long as nothing was reverted: typed.md reads as the
\* blocks last bound, its rows are what the draft still has or marks deleted, the
\* records have its texts, the deleted paragraphs it still has are those whose id
\* was given out, and the texts of islands.json are the draft's.
Agrees ==
  /\ clean => draft = Base
  /\ used.commits = 0 => bound = <<>>
  /\ ReadsAs(Base, typed.rows)
  /\ DOMAIN typed.rows = Paragraphs(draft) \union (Markers(draft) \intersect Nat)
  /\ RecordsAgree(structure, typed.rows)
  /\ reused \subseteq structure.deleted
  /\ Baseline \ structure.deleted \subseteq DOMAIN typed.rows
  /\ DOMAIN typed.rows \intersect structure.deleted \subseteq reused
  /\ TextsAgree(draft, structure, islands)

Inv == Shape /\ (used.reverts = 0 => Agrees)

LEMMA RenderedIs ==
  /\ DraftOK(Rendered) /\ Paragraphs(Rendered) = Baseline /\ Markers(Rendered) = {}
  /\ Rendered # <<>> /\ DOMAIN Rendered = 1 .. Count
  /\ \A i \in 1 .. Count : Rendered[i].kind = "p" /\ Rendered[i].id = i - 1 /\ Rendered[i].body = i - 1
<1>1. Count \in Nat /\ Count # 0 /\ None \in Int BY CountAssumption DEF None
<1>2. DOMAIN Rendered = 1 .. Count BY DEF Rendered
<1>3. \A i \in 1 .. Count : /\ Rendered[i] \in Blocks /\ Rendered[i].kind = "p"
                            /\ Rendered[i].id = i - 1 /\ Rendered[i].body = i - 1
  BY <1>1 DEF Rendered, Block, Blocks
<1>4. Rendered \in Seq(Blocks)
  <2>1. Rendered = [i \in 1 .. Count |-> Rendered[i]] BY DEF Rendered
  <2>2. IsSeq(Rendered) BY <1>1, <2>1, SeqByPositions
  <2> QED BY <1>2, <1>3, <2>2, Of
<1>5. At(Rendered, {"p"}) = 1 .. Count /\ At(Rendered, Live) = 1 .. Count
      /\ At(Rendered, {"new"}) = {} /\ At(Rendered, {"delete"}) = {}
  BY <1>2, <1>3 DEF At, Live
<1>6. Temps(Rendered) = {} /\ Markers(Rendered) = {} BY <1>5 DEF Temps, Markers, Ids
<1>7. Paragraphs(Rendered) = Baseline
  <2>1. \A i \in 1 .. Count : i - 1 \in Baseline BY <1>1 DEF Baseline
  <2>2. \A id \in Baseline : id + 1 \in 1 .. Count /\ (id + 1) - 1 = id BY <1>1 DEF Baseline
  <2>3. Paragraphs(Rendered) = {Rendered[i].id : i \in 1 .. Count} BY <1>5 DEF Paragraphs, Ids
  <2>4. \A i \in 1 .. Count : Rendered[i].id = i - 1 BY <1>3
  <2>5. Paragraphs(Rendered) \subseteq Baseline BY <2>1, <2>3, <2>4
  <2>6. \A id \in Baseline : id \in Paragraphs(Rendered)
    <3> TAKE id \in Baseline
    <3>1. id + 1 \in 1 .. Count /\ Rendered[id + 1].id = id BY <2>2, <2>4
    <3> QED BY <2>3, <3>1
  <2> QED BY <2>5, <2>6
<1>8. \A i, j \in 1 .. Count : Rendered[i].id = Rendered[j].id => i = j BY <1>3
<1>9. Baseline \subseteq Nat BY DEF Baseline
<1>10. Rendered # <<>> BY <1>1, <1>2
<1>11. DraftOK(Rendered) BY <1>4, <1>5, <1>6, <1>7, <1>8, <1>9 DEF DraftOK
<1> QED BY <1>2, <1>3, <1>6, <1>7, <1>10, <1>11

LEMMA InvInit == Init => Inv
<1> SUFFICES ASSUME Init PROVE Inv OBVIOUS
<1>1. structure.new = <<>> /\ structure.deleted = {} BY DEF Init
<1>2. DOMAIN <<>> = {} /\ <<>> \in Seq(Records) OBVIOUS
<1>3. Added(structure) = {} BY <1>1, <1>2 DEF Added
<1>4. StructureOK(structure)
  <2>1. Distinct(structure.new) BY <1>1, <1>2 DEF Distinct
  <2>2. structure \in [new : Seq(Records), deleted : SUBSET (Baseline \ Protected)]
    BY <1>2 DEF Init
  <2> QED BY <1>3, <2>1, <2>2 DEF StructureOK
<1>5. typed.rows = [i \in Baseline |-> i] BY DEF Init
<1>6. DOMAIN typed.rows = Baseline BY <1>5
<1>7. used \in [edits : Nat, deletes : Nat, commits : Nat, reverts : Nat] /\ used.commits = 0
  BY DEF Init
<1>8. islands = <<>> /\ draft = Rendered /\ bound = <<>> /\ reused = {} BY DEF Init
<1>9. Shape BY <1>2, <1>3, <1>4, <1>6, <1>7, <1>8, RenderedIs DEF Shape
<1>10. ReadsAs(Rendered, typed.rows)
  <2>1. \A i \in 1 .. Count : i - 1 \in Baseline BY CountAssumption DEF Baseline
  <2>2. \A i \in DOMAIN Rendered : /\ Rendered[i].kind = "p" /\ Rendered[i].id \in DOMAIN typed.rows
                                   /\ Rendered[i].body = typed.rows[Rendered[i].id]
    BY <1>5, <1>6, <2>1, RenderedIs
  <2>3. \A f \in Baseline : \E i \in DOMAIN Rendered : Rendered[i].id = f
    <3> TAKE f \in Baseline
    <3>1. f + 1 \in 1 .. Count /\ (f + 1) - 1 = f BY CountAssumption DEF Baseline
    <3> QED BY <3>1, RenderedIs
  <2> QED BY <1>6, <2>2, <2>3 DEF ReadsAs
<1>11. TextsAgree(draft, structure, islands)
  <2>1. \A i \in At(Rendered, {"p"}) : i \in 1 .. Count BY RenderedIs DEF At
  <2>2. \A i \in At(Rendered, {"p"}) : Rendered[i].body = Rendered[i].id BY <2>1, RenderedIs
  <2>3. DOMAIN islands = {} BY <1>2, <1>8
  <2> QED BY <1>8, <2>2, <2>3 DEF TextsAgree
<1>12. Agrees
  <2>1. RecordsAgree(structure, typed.rows) BY <1>1, <1>2 DEF RecordsAgree
  <2>2. Base = Rendered BY <1>7 DEF Base
  <2>3. Paragraphs(draft) = Baseline /\ Markers(draft) = {} BY <1>8, RenderedIs
  <2> QED BY <1>1, <1>6, <1>8, <1>10, <1>11, <2>1, <2>2, <2>3 DEF Agrees
<1> QED BY <1>9, <1>12 DEF Inv

\* Every edit of the draft: it leaves typed.md and the ids and texts of the
\* records, and what it takes from the draft it marks deleted.
LEMMA EditStep ==
  ASSUME Inv, DraftOK(draft'), draft' # <<>>,
         clean' = (draft' = bound), UNCHANGED <<bound, typed, reused>>,
         used' \in [edits : Nat, deletes : Nat, commits : Nat, reverts : Nat],
         used'.commits = used.commits, used'.reverts = used.reverts,
         StructureOK(structure'), structure'.deleted = structure.deleted,
         DOMAIN structure'.new = DOMAIN structure.new,
         \A k \in DOMAIN structure.new : /\ structure'.new[k].id = structure.new[k].id
                                         /\ structure'.new[k].body = structure.new[k].body,
         DOMAIN islands' \subseteq Baseline,
         Paragraphs(draft') \subseteq Paragraphs(draft),
         Paragraphs(draft') \union (Markers(draft') \intersect Nat)
           = Paragraphs(draft) \union (Markers(draft) \intersect Nat),
         TextsAgree(draft, structure, islands) => TextsAgree(draft', structure', islands')
  PROVE  Inv'
<1>1. Shape BY DEF Inv
<1>2. Added(structure') = Added(structure) BY DEF Added
<1>3. Shape'
  <2>1. typed' = typed OBVIOUS
  <2> QED BY <1>1, <1>2, <2>1 DEF Shape
<1>4. ASSUME used'.reverts = 0 PROVE Agrees'
  <2>1. Agrees BY <1>4 DEF Inv
  <2>2. typed' = typed /\ bound' = bound /\ reused' = reused OBVIOUS
  <2>3. Base' = Base BY <2>2 DEF Base, Rendered
  <2>4. clean' => draft' = Base'
    <3> SUFFICES ASSUME clean' PROVE draft' = Base' OBVIOUS
    <3>1. draft' = bound OBVIOUS
    <3>2. used.commits # 0 BY <2>1, <3>1 DEF Agrees
    <3> QED BY <2>3, <3>1, <3>2 DEF Base
  <2>5. used'.commits = 0 => bound' = <<>> BY <2>1, <2>2 DEF Agrees
  <2>6. ReadsAs(Base', typed'.rows) BY <2>1, <2>2, <2>3 DEF Agrees
  <2>7. DOMAIN typed'.rows = Paragraphs(draft') \union (Markers(draft') \intersect Nat)
    BY <2>1, <2>2 DEF Agrees
  <2>8. RecordsAgree(structure', typed'.rows) BY <2>1, <2>2 DEF Agrees, RecordsAgree
  <2>9. /\ reused' \subseteq structure'.deleted
        /\ Baseline \ structure'.deleted \subseteq DOMAIN typed'.rows
        /\ DOMAIN typed'.rows \intersect structure'.deleted \subseteq reused'
    BY <2>1, <2>2 DEF Agrees
  <2>10. TextsAgree(draft', structure', islands') BY <2>1 DEF Agrees
  <2> QED BY <2>4, <2>5, <2>6, <2>7, <2>8, <2>9, <2>10 DEF Agrees
<1> QED BY <1>3, <1>4 DEF Inv

-----------------------------------------------------------------------------
(* The edits. *)

Uses == {"edits", "deletes", "commits", "reverts"}
LEMMA Spent ==
  ASSUME Shape, NEW what \in Uses, NEW limit, Spend(what, limit)
  PROVE  /\ used' \in [edits : Nat, deletes : Nat, commits : Nat, reverts : Nat]
         /\ used'[what] = used[what] + 1
         /\ \A other \in Uses \ {what} : used'[other] = used[other]
BY DEF Shape, Spend, Uses

LEMMA TextsOfParagraphs ==
  ASSUME NEW e, NEW d, NEW s, NEW edits, ParagraphsOf(e, d), TextsAgree(d, s, edits)
  PROVE  TextsAgree(e, s, edits)
<1> SUFFICES ASSUME NEW i \in At(e, {"p"}), e[i].id \in Baseline \ s.deleted
             PROVE  e[i].body = IF e[i].id \in DOMAIN edits THEN edits[e[i].id] ELSE e[i].id
  BY DEF TextsAgree
<1>1. PICK j \in At(d, {"p"}) : e[i] = d[j] BY DEF ParagraphsOf
<1> QED BY <1>1 DEF TextsAgree

LEMMA IdsAreNumbers ==
  ASSUME NEW d, DraftOK(d), NEW id \in Ids(d, Live)
  PROVE  id \in Int
<1>1. PICK i \in At(d, Live) : d[i].id = id BY Kinds
<1>2. i \in DOMAIN d BY <1>1, Kinds
<1> QED BY <1>1, <1>2, BlockAt DEF DraftOK

LEMMA InsertStep ==
  ASSUME Inv, NEW after \in Ids(draft, Live), NEW inherit \in {after} \union Named,
         Insert(after, inherit)
  PROVE  Inv'
<1>1. Shape /\ DraftOK(draft) BY DEF Inv, Shape
<1>2. inherit \in Int
  <2>1. after \in Int BY <1>1, IdsAreNumbers
  <2>2. Named \subseteq Int BY CountAssumption
  <2> QED BY <2>1, <2>2
<1>3. Fresh \in Int BY <1>1 DEF Fresh, Shape
<1>4. draft' = InsertAt(draft, Find(draft, after) + 1, Block("new", NextTemp(draft), Fresh, inherit))
  BY DEF Insert, Write, Inserted
<1>5. /\ DraftOK(draft') /\ draft' # <<>>
      /\ Paragraphs(draft') = Paragraphs(draft) /\ Markers(draft') = Markers(draft)
      /\ ParagraphsOf(draft', draft)
  BY <1>1, <1>2, <1>3, <1>4, InsertedDraft
<1>6. /\ used' \in [edits : Nat, deletes : Nat, commits : Nat, reverts : Nat]
      /\ used'.commits = used.commits /\ used'.reverts = used.reverts
  BY <1>1, Spent DEF Insert, Uses
<1>7. /\ clean' = (draft' = bound) /\ UNCHANGED <<bound, typed, reused, islands, structure>>
  BY DEF Insert, Write
<1>8. StructureOK(structure) /\ DOMAIN islands \subseteq Baseline BY <1>1 DEF Shape
<1>9. TextsAgree(draft, structure, islands) => TextsAgree(draft', structure', islands')
  <2>1. TextsAgree(draft, structure, islands) => TextsAgree(draft', structure, islands)
    BY <1>5, TextsOfParagraphs
  <2> QED BY <1>7, <2>1
<1> QED BY <1>5, <1>6, <1>7, <1>8, <1>9, EditStep

LEMMA RewriteStep ==
  ASSUME Inv, NEW id \in Ids(draft, Live), NEW body \in {Fresh} \union ({id} \intersect Baseline),
         Rewrite(id, body)
  PROVE  Inv'
<1>1. Shape /\ DraftOK(draft) BY DEF Inv, Shape
<1>2. body \in Int
  <2>1. Fresh \in Int BY <1>1 DEF Fresh, Shape
  <2>2. Baseline \subseteq Int BY DEF Baseline
  <2> QED BY <2>1, <2>2
<1>3. draft' = [draft EXCEPT ![Find(draft, id)].body = body] BY DEF Rewrite, Write
<1>4. /\ DraftOK(draft') /\ draft' # <<>>
      /\ Paragraphs(draft') = Paragraphs(draft) /\ Markers(draft') = Markers(draft)
      /\ \A i \in At(draft', {"p"}) :
           /\ i \in At(draft, {"p"}) /\ draft'[i].id = draft[i].id
           /\ draft'[i].body = IF draft[i].id = id THEN body ELSE draft[i].body
  <2> DEFINE e == Reworded(draft, id, body)
  <2>1. /\ DraftOK(e) /\ e # <<>>
        /\ Paragraphs(e) = Paragraphs(draft) /\ Markers(e) = Markers(draft)
        /\ \A i \in At(e, {"p"}) :
             /\ i \in At(draft, {"p"}) /\ e[i].id = draft[i].id
             /\ e[i].body = IF draft[i].id = id THEN body ELSE draft[i].body
    BY <1>1, <1>2, RewrittenDraft
  <2>2. draft' = e BY <1>3 DEF Reworded
  <2> HIDE DEF e
  <2> QED BY <2>1, <2>2
<1>5. /\ used' \in [edits : Nat, deletes : Nat, commits : Nat, reverts : Nat]
      /\ used'.commits = used.commits /\ used'.reverts = used.reverts
  BY <1>1, Spent DEF Rewrite, Uses
<1>6. /\ clean' = (draft' = bound) /\ UNCHANGED <<bound, typed, reused, structure>>
  BY DEF Rewrite, Write
<1>7. islands' = IF id \notin Baseline \ Added(structure) THEN islands
                 ELSE [f \in {id} \union DOMAIN islands |-> IF f = id THEN body ELSE islands[f]]
  BY DEF Rewrite
<1>8. StructureOK(structure) /\ DOMAIN islands \subseteq Baseline BY <1>1 DEF Shape
<1>9. /\ DOMAIN islands' = IF id \in Baseline THEN DOMAIN islands \union {id} ELSE DOMAIN islands
      /\ id \in Baseline => islands'[id] = body
      /\ \A f \in DOMAIN islands : f # id => islands'[f] = islands[f]
  <2>1. Added(structure) \intersect Baseline = {} BY <1>8 DEF StructureOK
  <2>2. CASE id \in Baseline
    <3>1. islands' = [f \in {id} \union DOMAIN islands |-> IF f = id THEN body ELSE islands[f]]
      BY <1>7, <2>1, <2>2
    <3> QED BY <2>2, <3>1
  <2>3. CASE id \notin Baseline BY <1>7, <2>3
  <2> QED BY <2>2, <2>3
<1>10. TextsAgree(draft, structure, islands) => TextsAgree(draft', structure', islands')
  <2> SUFFICES ASSUME TextsAgree(draft, structure, islands),
                      NEW i \in At(draft', {"p"}), draft'[i].id \in Baseline \ structure.deleted
               PROVE  draft'[i].body = IF draft'[i].id \in DOMAIN islands' THEN islands'[draft'[i].id]
                                       ELSE draft'[i].id
    BY <1>6 DEF TextsAgree
  <2> DEFINE f == draft[i].id
  <2>1. /\ i \in At(draft, {"p"}) /\ draft'[i].id = f /\ f \in Baseline \ structure.deleted
        /\ draft'[i].body = IF f = id THEN body ELSE draft[i].body
    BY <1>4
  <2>2. draft[i].body = IF f \in DOMAIN islands THEN islands[f] ELSE f BY <2>1 DEF TextsAgree
  <2> HIDE DEF f
  <2>3. CASE f = id BY <1>9, <2>1, <2>3
  <2>4. CASE f # id BY <1>9, <2>1, <2>2, <2>4
  <2> QED BY <2>3, <2>4
<1>11. DOMAIN islands' \subseteq Baseline BY <1>8, <1>9
<1> QED BY <1>4, <1>5, <1>6, <1>8, <1>10, <1>11, EditStep

\* Repointing the anchors leaves the ids and the texts of the records.
LEMMA RepointFacts ==
  ASSUME NEW s, StructureOK(s), NEW gone
  PROVE  LET r == Repoint(s, gone)
         IN  /\ StructureOK(r) /\ r.deleted = s.deleted /\ DOMAIN r.new = DOMAIN s.new
             /\ \A k \in DOMAIN s.new : r.new[k].id = s.new[k].id /\ r.new[k].body = s.new[k].body
<1> DEFINE r == Repoint(s, gone)
           at == s.new[Record(s, gone)].before
<1>1. CASE gone \notin Added(s) BY <1>1 DEF Repoint
<1>2. CASE gone \in Added(s)
  <2>1. r = [s EXCEPT !.new = [k \in DOMAIN s.new |->
             IF s.new[k].before = gone THEN [s.new[k] EXCEPT !.before = at] ELSE s.new[k]]]
    BY <1>2 DEF Repoint
  <2>2. /\ s \in [new : Seq(Records), deleted : SUBSET (Baseline \ Protected)]
        /\ IsSeq(s.new) /\ \A k \in DOMAIN s.new : s.new[k] \in Records
    BY StructureIs DEF StructureOK
  <2>3. at \in Int BY <1>2, <2>2, StructureIs, RecordParts
  <2>4. /\ r.deleted = s.deleted
        /\ r.new = [k \in DOMAIN s.new |->
             IF s.new[k].before = gone THEN [s.new[k] EXCEPT !.before = at] ELSE s.new[k]]
        /\ r = [new |-> r.new, deleted |-> r.deleted]
    BY <2>1, <2>2
  <2> HIDE DEF r, at
  <2>5. ASSUME NEW k \in DOMAIN s.new
        PROVE  /\ r.new[k] \in Records
               /\ r.new[k].id = s.new[k].id /\ r.new[k].body = s.new[k].body
    <3> DEFINE q == s.new[k]
    <3>1. q \in Records BY <2>2
    <3>2. r.new[k] = IF q.before = gone THEN [q EXCEPT !.before = at] ELSE q BY <2>4
    <3>3. r.new[k] \in Records /\ r.new[k].id = q.id /\ r.new[k].body = q.body
      <4> HIDE DEF q
      <4> QED BY <2>3, <3>1, <3>2 DEF Records
    <3> QED BY <3>3
  <2>6. DOMAIN r.new = DOMAIN s.new /\ r.new = [k \in DOMAIN s.new |-> r.new[k]] BY <2>4
  <2>7. r.new \in Seq(Records)
    <3>1. Len(s.new) \in Nat /\ DOMAIN s.new = 1 .. Len(s.new) BY <2>2, SeqFacts
    <3>2. IsSeq(r.new) BY <2>6, <3>1, SeqByPositions
    <3> QED BY <2>5, <2>6, <3>2, Of
  <2>8. Distinct(r.new) /\ Added(r) = Added(s)
    <3>1. Distinct(s.new) BY DEF StructureOK
    <3>2. Distinct(r.new) BY <2>5, <2>6, <3>1 DEF Distinct
    <3>3. \A k \in DOMAIN s.new : r.new[k].id = s.new[k].id BY <2>5
    <3> QED BY <2>6, <3>2, <3>3 DEF Added
  <2>9. StructureOK(r)
    <3>1. r \in [new : Seq(Records), deleted : SUBSET (Baseline \ Protected)]
      BY <2>2, <2>4, <2>7
    <3> QED BY <2>8, <3>1 DEF StructureOK
  <2>10. /\ StructureOK(r) /\ r.deleted = s.deleted /\ DOMAIN r.new = DOMAIN s.new
         /\ \A k \in DOMAIN s.new : r.new[k].id = s.new[k].id /\ r.new[k].body = s.new[k].body
    BY <2>4, <2>5, <2>6, <2>9
  <2> QED BY <2>10 DEF r
<1> QED BY <1>1, <1>2

\* A deletion, with the anchors moved or not.
LEMMA DeletionStep ==
  ASSUME Inv, NEW id \in Ids(draft, Live), id \notin Protected,
         Spend("deletes", MaxDeletes),
         Write(Append(RemoveAt(draft, Find(draft, id)), Block("delete", id, None, None))),
         structure' = Repoint(structure, id) \/ structure' = structure,
         UNCHANGED islands
  PROVE  Inv'
<1>1. Shape /\ DraftOK(draft) /\ StructureOK(structure) /\ DOMAIN islands \subseteq Baseline
  BY DEF Inv, Shape
<1>2. draft' = Append(RemoveAt(draft, Find(draft, id)), Block("delete", id, None, None))
  BY DEF Write
<1>3. /\ DraftOK(draft') /\ draft' # <<>>
      /\ Paragraphs(draft') = Paragraphs(draft) \ {id}
      /\ Markers(draft') = Markers(draft) \union {id}
      /\ ParagraphsOf(draft', draft)
  BY <1>1, <1>2, DeletedDraft
<1>4. /\ used' \in [edits : Nat, deletes : Nat, commits : Nat, reverts : Nat]
      /\ used'.commits = used.commits /\ used'.reverts = used.reverts
  BY <1>1, Spent DEF Uses
<1>5. /\ clean' = (draft' = bound) /\ UNCHANGED <<bound, typed, reused, islands>>
  BY DEF Write
<1>6. /\ StructureOK(structure') /\ structure'.deleted = structure.deleted
      /\ DOMAIN structure'.new = DOMAIN structure.new
      /\ \A k \in DOMAIN structure.new : /\ structure'.new[k].id = structure.new[k].id
                                         /\ structure'.new[k].body = structure.new[k].body
  <2>1. CASE structure' = structure BY <1>1, <2>1
  <2>2. CASE structure' = Repoint(structure, id) BY <1>1, <2>2, RepointFacts
  <2> QED BY <2>1, <2>2
<1>7. Paragraphs(draft') \union (Markers(draft') \intersect Nat)
        = Paragraphs(draft) \union (Markers(draft) \intersect Nat)
  <2>1. id \in Paragraphs(draft) \/ id \in Temps(draft) BY Kinds
  <2>2. \A t \in Temps(draft) : t \notin Nat
    <3>1. Len(draft) \in Nat BY <1>1, BlockAt DEF DraftOK
    <3> QED BY <1>1, <3>1 DEF DraftOK
  <2>3. Paragraphs(draft) \subseteq Nat BY <1>1 DEF DraftOK
  <2> QED BY <1>3, <2>1, <2>2, <2>3
<1>8. TextsAgree(draft, structure, islands) => TextsAgree(draft', structure', islands')
  <2>1. TextsAgree(draft, structure, islands) => TextsAgree(draft', structure, islands)
    BY <1>3, TextsOfParagraphs
  <2> QED BY <1>5, <1>6, <2>1 DEF TextsAgree
<1>9. Paragraphs(draft') \subseteq Paragraphs(draft) BY <1>3
<1>10. DOMAIN islands' \subseteq Baseline BY <1>1, <1>5
<1> QED BY <1>3, <1>4, <1>5, <1>6, <1>7, <1>8, <1>9, <1>10, EditStep

LEMMA RevertStep == ASSUME Inv, Revert PROVE Inv'
<1>1. Shape BY DEF Inv
<1>2. /\ used' \in [edits : Nat, deletes : Nat, commits : Nat, reverts : Nat]
      /\ used'.reverts = used.reverts + 1
  BY <1>1, Spent DEF Revert, Uses
<1>3. used'.reverts # 0 BY <1>1, <1>2 DEF Shape
<1>4. draft' = Rendered /\ UNCHANGED <<typed, islands, structure>> BY DEF Revert
<1>5. DraftOK(draft') /\ Paragraphs(draft') = Baseline BY <1>4, RenderedIs
<1>6. Shape' BY <1>1, <1>2, <1>4, <1>5 DEF Shape
<1> QED BY <1>3, <1>6 DEF Inv

-----------------------------------------------------------------------------
(* The commit. *)

\* islands.json after a commit: the paragraphs of the template whose text is
\* not the template's.
Differing(said) == {f \in DOMAIN said \intersect Baseline : said[f] # f}
LEMMA DesiredIs ==
  ASSUME NEW said, NEW rows, NEW s, Added(s) \intersect Baseline = {},
         DOMAIN rows \ Baseline \subseteq Added(s)
  PROVE  /\ DOMAIN Desired(said, rows, s) = Differing(said)
         /\ \A f \in DOMAIN Desired(said, rows, s) : Desired(said, rows, s)[f] = said[f]
<1> DEFINE D == {f \in DOMAIN said \ Added(s) : f \in Known(rows) /\ said[f] # Old(rows, f)}
<1>1. Desired(said, rows, s) = [f \in D |-> said[f]] BY DEF Desired, Restrict
<1>2. D = Differing(said) BY DEF Known, Old, Differing
<1> HIDE DEF D
<1> QED BY <1>1, <1>2

LEMMA CarriedIs ==
  ASSUME NEW d, NEW rows
  PROVE  Carried(d, rows) = DOMAIN rows \ (Paragraphs(d) \union Temps(d) \union Markers(d))
<1>1. Ids(d, {"p", "new", "delete"}) = Paragraphs(d) \union Temps(d) \union Markers(d)
  <2>1. At(d, {"p", "new", "delete"}) = At(d, {"p"}) \union At(d, {"new"}) \union At(d, {"delete"})
    BY DEF At
  <2> QED BY <2>1 DEF Ids, Paragraphs, Temps, Markers
<1> QED BY <1>1 DEF Carried

LEMMA RetypeIs ==
  ASSUME NEW d, NEW rows
  PROVE  /\ DOMAIN Retype(d, rows).rows = DOMAIN Committed(d) \union Carried(d, rows)
         /\ \A f \in DOMAIN Committed(d) \ Carried(d, rows) : Retype(d, rows).rows[f] = Committed(d)[f]
<1>1. Retype(d, rows).rows = [f \in DOMAIN Committed(d) \union Carried(d, rows) |->
                                IF f \in Carried(d, rows) THEN rows[f] ELSE Committed(d)[f]]
  BY DEF Retype
<1> QED BY <1>1

\* The new structure has whatever the new typed.md has beyond the template.
LEMMA CommitRecords ==
  ASSUME NEW d, DraftOK(d), NEW rows, NEW s, StructureOK(s),
         DOMAIN rows \ Baseline \subseteq Added(s), Paragraphs(d) \ Baseline \subseteq Added(s)
  PROVE  (DOMAIN Committed(d) \union Carried(d, rows)) \ Baseline
           \subseteq Added(Restructured(d, rows, s))
<1>1. Added(Restructured(d, rows, s)) = (Added(s) \ Gone(d, rows))
                                          \union {Formal(d, t) : t \in Recorded(d, rows, s)}
  BY RestructuredFacts
<1>2. /\ DOMAIN Committed(d) = Paragraphs(d) \union News_(d)
      /\ News_(d) \intersect (Paragraphs(d) \union Markers(d)) = {}
  BY SaidIds
<1>3. Gone(d, rows) \subseteq Markers(d) BY DEF Gone, Markers
<1>4. Paragraphs(d) \intersect Markers(d) = {} BY DEF DraftOK
<1>5. ASSUME NEW t \in Temps(d), Formal(d, t) \notin Baseline, Formal(d, t) \notin Added(s)
      PROVE  t \in Recorded(d, rows, s)
  <2>1. Formal(d, t) \notin Known(rows) BY <1>5 DEF Known
  <2> QED BY <1>5, <2>1 DEF Recorded, Temps
<1>6. News_(d) \ Baseline \subseteq Added(Restructured(d, rows, s))
  <2> SUFFICES ASSUME NEW t \in Temps(d), Formal(d, t) \notin Baseline
               PROVE  Formal(d, t) \in Added(Restructured(d, rows, s))
    BY DEF News_
  <2>1. Formal(d, t) \notin Gone(d, rows) BY <1>2, <1>3 DEF News_
  <2> QED BY <1>1, <1>5, <2>1
<1>7. Carried(d, rows) = DOMAIN rows \ (Paragraphs(d) \union Temps(d) \union Markers(d))
  BY CarriedIs
<1>8. Carried(d, rows) \intersect Markers(d) = {} /\ Carried(d, rows) \subseteq DOMAIN rows BY <1>7
<1> QED BY <1>1, <1>2, <1>3, <1>4, <1>6, <1>7, <1>8

LEMMA CommitShape == ASSUME Shape, Commit PROVE Shape'
<1>1. /\ DraftOK(draft) /\ StructureOK(structure)
      /\ Paragraphs(draft) \ Baseline \subseteq Added(structure)
      /\ DOMAIN typed.rows \ Baseline \subseteq Added(structure)
      /\ Added(structure) \intersect Baseline = {}
  BY DEF Shape, StructureOK
<1>2. /\ draft' = Canonical(draft) /\ typed' = Retype(draft, typed.rows)
      /\ structure' = Restructured(draft, typed.rows, structure)
      /\ islands' = Desired(Committed(draft), typed.rows, structure)
  BY DEF Commit
<1>3. DraftOK(draft') /\ Paragraphs(draft') = DOMAIN Committed(draft)
  BY <1>1, <1>2, CanonicalDraft
<1>4. StructureOK(structure') BY <1>1, <1>2, RestructuredFacts
<1>5. DOMAIN typed'.rows = DOMAIN Committed(draft) \union Carried(draft, typed.rows)
  BY <1>2, RetypeIs
<1>6. (DOMAIN Committed(draft) \union Carried(draft, typed.rows)) \ Baseline
        \subseteq Added(structure')
  BY <1>1, <1>2, CommitRecords
<1>7. DOMAIN islands' \subseteq Baseline
  <2> DEFINE want == Desired(Committed(draft), typed.rows, structure)
  <2>1. DOMAIN want = Differing(Committed(draft))
    BY <1>1, DesiredIs
  <2> HIDE DEF want
  <2>2. DOMAIN want \subseteq Baseline BY <2>1 DEF Differing
  <2> QED BY <1>2, <2>2 DEF want
<1>8. used' \in [edits : Nat, deletes : Nat, commits : Nat, reverts : Nat]
  BY Spent DEF Commit, Uses
<1> QED BY <1>3, <1>4, <1>5, <1>6, <1>7, <1>8 DEF Shape

\* A commit writes what the draft says to typed.md, and to islands.json where the
\* template says otherwise.
LEMMA CommitSays ==
  ASSUME Shape, Agrees, Commit
  PROVE  /\ DOMAIN typed'.rows = DOMAIN Committed(draft)
         /\ \A f \in DOMAIN Committed(draft) : typed'.rows[f] = Committed(draft)[f]
         /\ DOMAIN islands' = Differing(Committed(draft))
         /\ \A f \in DOMAIN islands' : islands'[f] = Committed(draft)[f]
<1> DEFINE said == Committed(draft)
<1>1. /\ Added(structure) \intersect Baseline = {}
      /\ DOMAIN typed.rows \ Baseline \subseteq Added(structure)
  BY DEF Shape, StructureOK
<1>2. /\ typed' = Retype(draft, typed.rows)
      /\ islands' = Desired(said, typed.rows, structure)
  BY DEF Commit
<1>3. DOMAIN typed.rows = Paragraphs(draft) \union (Markers(draft) \intersect Nat) BY DEF Agrees
<1>4. /\ DOMAIN typed'.rows = DOMAIN said
      /\ \A f \in DOMAIN said : typed'.rows[f] = said[f]
  <2>1. Carried(draft, typed.rows)
          = DOMAIN typed.rows \ (Paragraphs(draft) \union Temps(draft) \union Markers(draft))
    BY CarriedIs
  <2>2. Carried(draft, typed.rows) = {} BY <1>3, <2>1
  <2>3. /\ DOMAIN typed'.rows = DOMAIN said \union Carried(draft, typed.rows)
        /\ \A f \in DOMAIN said \ Carried(draft, typed.rows) : typed'.rows[f] = said[f]
    BY <1>2, RetypeIs
  <2> HIDE DEF said
  <2> QED BY <2>2, <2>3
<1>5. /\ DOMAIN islands' = Differing(said)
      /\ \A f \in DOMAIN islands' : islands'[f] = said[f]
  <2> DEFINE want == Desired(said, typed.rows, structure)
  <2>1. /\ DOMAIN want = Differing(said)
        /\ \A f \in DOMAIN want : want[f] = said[f]
    <3> HIDE DEF said
    <3> QED BY <1>1, DesiredIs
  <2>2. islands' = want BY <1>2
  <2> HIDE DEF want, said
  <2> QED BY <2>1, <2>2
<1> QED BY <1>4, <1>5

LEMMA CommitAgrees == ASSUME Shape, Agrees, Commit PROVE Agrees'
<1> DEFINE said == Committed(draft)
           gone == Gone(draft, typed.rows)
           P == Paragraphs(draft)
           M == Markers(draft)
           N == News_(draft)
<1>1. /\ DraftOK(draft) /\ StructureOK(structure)
      /\ P \ Baseline \subseteq Added(structure)
      /\ DOMAIN typed.rows \ Baseline \subseteq Added(structure)
      /\ Added(structure) \intersect Baseline = {}
      /\ P \intersect M = {} /\ P \subseteq Nat
      /\ structure.deleted \subseteq Baseline
  BY DEF Shape, StructureOK, DraftOK
<1>2. /\ draft' = Canonical(draft) /\ bound' = draft' /\ typed' = Retype(draft, typed.rows)
      /\ structure' = Restructured(draft, typed.rows, structure)
      /\ islands' = Desired(Committed(draft), typed.rows, structure)
      /\ reused' = reused \union ({Formal(draft, t) : t \in Ids(draft, {"new"})} \intersect Baseline)
  BY DEF Commit
<1>3. reused' = reused \union (N \intersect Baseline) BY <1>2 DEF News_, Temps
<1>4. DOMAIN said = P \union N /\ N \intersect (P \union M) = {} BY <1>1, SaidIds
<1>5. /\ Markers(draft') = {} /\ Paragraphs(draft') = DOMAIN said
      /\ \A i \in DOMAIN draft' : /\ draft'[i].kind = "p" /\ draft'[i].id \in DOMAIN said
                                  /\ draft'[i].body = said[draft'[i].id]
      /\ \A f \in DOMAIN said : \E i \in DOMAIN draft' : draft'[i].id = f
  BY <1>1, <1>2, CanonicalDraft
<1>6. DOMAIN typed.rows = P \union (M \intersect Nat) BY DEF Agrees
<1>7. gone = M \intersect (Baseline \union P \union (M \intersect Nat)) BY <1>6 DEF Gone, Known, Markers
<1>8. Added(structure') = (Added(structure) \ gone)
                            \union {Formal(draft, t) : t \in Recorded(draft, typed.rows, structure)}
  BY <1>1, <1>2, RestructuredFacts
<1>9. structure'.deleted = structure.deleted \union (gone \ Added(structure))
  BY <1>1, <1>2, RestructuredFacts
<1>10. \A k \in DOMAIN structure'.new : structure'.new[k].id \in DOMAIN said
                                          => structure'.new[k].body = said[structure'.new[k].id]
  BY <1>1, <1>2, RestructuredFacts
<1>11. /\ DOMAIN typed'.rows = DOMAIN said
       /\ \A f \in DOMAIN said : typed'.rows[f] = said[f]
  BY CommitSays
<1>12. /\ DOMAIN islands' = Differing(said)
       /\ \A f \in DOMAIN islands' : islands'[f] = said[f]
  BY CommitSays
<1>13. used'.commits # 0
  <2>1. used'.commits = used.commits + 1 BY Spent DEF Commit, Uses
  <2> QED BY <2>1 DEF Shape
<1> HIDE DEF said, gone, P, M, N
<1>14. Base' = draft' BY <1>2, <1>13 DEF Base
<1>15. ReadsAs(Base', typed'.rows) BY <1>5, <1>11, <1>14 DEF ReadsAs
<1>16. RecordsAgree(structure', typed'.rows)
  <2>1. \A id \in Added(structure) : id \in P \union (M \intersect Nat)
    <3>1. RecordsAgree(structure, typed.rows) BY DEF Agrees
    <3> QED BY <1>6, <3>1 DEF RecordsAgree, Added
  <2>2. \A t \in Recorded(draft, typed.rows, structure) : Formal(draft, t) \in N
    BY DEF Recorded, N, News_, Temps
  <2>3. Added(structure') \subseteq P \union N BY <1>7, <1>8, <2>1, <2>2
  <2>4. \A k \in DOMAIN structure'.new : structure'.new[k].id \in DOMAIN said
    BY <1>4, <2>3 DEF Added
  <2> QED BY <1>10, <1>11, <2>4 DEF RecordsAgree
<1>17. reused \subseteq structure.deleted /\ Baseline \ structure.deleted \subseteq DOMAIN typed.rows
       /\ DOMAIN typed.rows \intersect structure.deleted \subseteq reused
  BY DEF Agrees
<1>18. reused' \subseteq structure'.deleted BY <1>3, <1>4, <1>6, <1>9, <1>17
<1>19. Baseline \ structure'.deleted \subseteq DOMAIN typed'.rows
  BY <1>1, <1>4, <1>6, <1>7, <1>9, <1>11, <1>17
<1>20. DOMAIN typed'.rows \intersect structure'.deleted \subseteq reused'
  BY <1>1, <1>3, <1>4, <1>6, <1>7, <1>9, <1>11, <1>17
<1>21. TextsAgree(draft', structure', islands')
  <2> SUFFICES ASSUME NEW i \in At(draft', {"p"}), draft'[i].id \in Baseline \ structure'.deleted
               PROVE  draft'[i].body = IF draft'[i].id \in DOMAIN islands' THEN islands'[draft'[i].id]
                                       ELSE draft'[i].id
    BY DEF TextsAgree
  <2>1. draft'[i].id \in DOMAIN said /\ draft'[i].body = said[draft'[i].id] BY <1>5 DEF At
  <2> QED BY <1>12, <2>1 DEF Differing
<1>22. DOMAIN typed'.rows = Paragraphs(draft') \union (Markers(draft') \intersect Nat)
  BY <1>5, <1>11
<1> QED BY <1>13, <1>14, <1>15, <1>16, <1>18, <1>19, <1>20, <1>21, <1>22 DEF Agrees

LEMMA CommitStep == ASSUME Inv, Commit PROVE Inv'
<1>1. Shape /\ Shape' BY CommitShape DEF Inv
<1>2. ASSUME used'.reverts = 0 PROVE Agrees'
  <2>1. used'.reverts = used.reverts BY <1>1, Spent DEF Commit, Uses
  <2>2. Agrees BY <1>2, <2>1 DEF Inv
  <2> QED BY <1>1, <2>2, CommitAgrees
<1> QED BY <1>1, <1>2 DEF Inv
-----------------------------------------------------------------------------
(* The invariant holds. *)

LEMMA StutterStep == ASSUME Inv, UNCHANGED vars PROVE Inv'
<1>1. UNCHANGED <<draft, bound, clean, typed, islands, structure, used, reused>> BY DEF vars
<1>2. Base' = Base BY <1>1 DEF Base
<1>3. Shape' <=> Shape BY <1>1 DEF Shape
<1>4. Agrees' <=> Agrees BY <1>1, <1>2 DEF Agrees
<1> QED BY <1>1, <1>3, <1>4 DEF Inv

LEMMA InvStep == ASSUME Inv, [Next]_vars PROVE Inv'
<1>1. ASSUME NEW after \in Ids(draft, Live), NEW inherit \in {after} \union Named,
             Insert(after, inherit) \/ PatchInsert(after, inherit)
      PROVE  Inv'
  <2>1. Insert(after, inherit) BY <1>1 DEF PatchInsert
  <2> QED BY <2>1, InsertStep
<1>2. ASSUME NEW id \in Ids(draft, Live), NEW body \in {Fresh} \union ({id} \intersect Baseline),
             Rewrite(id, body)
      PROVE  Inv'
  BY <1>2, RewriteStep
<1>3. ASSUME NEW id \in Ids(draft, Live), Delete(id) PROVE Inv'
  BY <1>3, DeletionStep DEF Delete
<1>4. ASSUME NEW id \in Ids(draft, Live), PatchDelete(id) PROVE Inv'
  <2>1. id \notin Protected BY <1>4 DEF PatchDelete
  <2>2. structure' = structure /\ UNCHANGED islands BY <1>4 DEF PatchDelete
  <2>3. Spend("deletes", MaxDeletes) BY <1>4 DEF PatchDelete
  <2>4. Write(Append(RemoveAt(draft, Find(draft, id)), Block("delete", id, None, None)))
    BY <1>4 DEF PatchDelete
  <2> QED BY <2>1, <2>2, <2>3, <2>4, DeletionStep
<1>5. ASSUME Commit PROVE Inv' BY <1>5, CommitStep
<1>6. ASSUME Revert PROVE Inv' BY <1>6, RevertStep
<1>7. ASSUME UNCHANGED vars PROVE Inv' BY <1>7, StutterStep
<1> QED BY <1>1, <1>2, <1>3, <1>4, <1>5, <1>6, <1>7 DEF Next

\* Every state of the files has that shape, and until something is reverted they
\* agree that way.
THEOREM Invariant == Spec => []Inv
<1>1. Init => Inv BY InvInit
<1>2. Inv /\ [Next]_vars => Inv' BY InvStep
<1> QED BY <1>1, <1>2, PTL DEF Spec

\* No two live blocks of the draft and no two records share an id, an inserted
\* paragraph never has the id of one of the template, and structure.json and
\* islands.json name paragraphs of the template where they must - reverts included.
THEOREM TypeCorrect == Spec => []TypeOK
<1>1. Inv => TypeOK
  <2> SUFFICES ASSUME Inv PROVE TypeOK OBVIOUS
  <2>1. DraftOK(draft) /\ StructureOK(structure) /\ DOMAIN islands \subseteq Baseline
    BY DEF Inv, Shape
  <2>2. structure.deleted \subseteq Baseline \ Protected BY <2>1, StructureIs
  <2> QED BY <2>1, <2>2 DEF TypeOK, DraftOK, StructureOK
<1> QED BY <1>1, Invariant, PTL
-----------------------------------------------------------------------------
(* What is built. *)

Entry(r) == [id |-> r.id, body |-> r.body]
Template(edits, i) == [id |-> i, body |-> IF i \in DOMAIN edits THEN edits[i] ELSE i]
KeptAt(s, edits, i) == IF i = Count \/ i \in s.deleted THEN <<>> ELSE <<Template(edits, i)>>
AddedAt(s, i) == LET new == Spliced(s, i)
                 IN  [k \in DOMAIN new |-> [id |-> new[k].id, body |-> new[k].body]]

\* An anchor that resolves has a place.
LEMMA PlaceIs ==
  ASSUME NEW s, NEW at, Chain(s, at) \in Baseline \union {None}
  PROVE  Place(s, at) \in 0 .. Count
<1>1. Count \in Nat BY CountAssumption
<1>2. CASE Chain(s, at) = None BY <1>1, <1>2 DEF Place
<1>3. CASE Chain(s, at) # None
  <2> DEFINE i == Chain(s, at)
             S == {j \in i .. Count : j = Count \/ j \notin s.deleted}
  <2>1. i \in 0 .. Count - 1 BY <1>3 DEF Baseline
  <2>2. Place(s, at) = Min(S) BY <1>3 DEF Place, Survivor
  <2> HIDE DEF i
  <2>3. S \subseteq 0 .. Count /\ Count \in S BY <1>1, <2>1
  <2> HIDE DEF S
  <2>4. S \subseteq Int /\ (\A x \in S : 0 <= x) /\ 0 \in Int BY <1>1, <2>3
  <2>5. Min(S) \in S BY <2>3, <2>4, MinIs
  <2> QED BY <2>2, <2>3, <2>5
<1> QED BY <1>2, <1>3

LEMMA ReverseMembers ==
  ASSUME NEW x, IsSeq(x)
  PROVE  /\ IsSeq(Reverse(x))
         /\ \A k \in DOMAIN Reverse(x) : \E j \in DOMAIN x : Reverse(x)[k] = x[j]
         /\ \A j \in DOMAIN x : \E k \in DOMAIN Reverse(x) : Reverse(x)[k] = x[j]
<1> DEFINE n == Len(x)
           y == [i \in 1 .. n |-> x[(n - i) + 1]]
<1>1. n \in Nat /\ DOMAIN x = 1 .. n BY SeqFacts
<1>2. Reverse(x) = y BY DEF Reverse
<1>3. \A i \in 1 .. n : (n - i) + 1 \in 1 .. n /\ (n - ((n - i) + 1)) + 1 = i BY <1>1
<1> HIDE DEF n
<1>4. \A i \in 1 .. n : y[i] = x[(n - i) + 1] OBVIOUS
<1>5. y = [i \in 1 .. n |-> y[i]] /\ DOMAIN y = 1 .. n OBVIOUS
<1> HIDE DEF y
<1>6. IsSeq(y) BY <1>1, <1>5, SeqByPositions
<1>7. \A k \in DOMAIN y : \E j \in DOMAIN x : y[k] = x[j] BY <1>1, <1>3, <1>4, <1>5
<1>8. \A j \in DOMAIN x : \E k \in DOMAIN y : y[k] = x[j]
  <2> TAKE j \in DOMAIN x
  <2>1. (n - j) + 1 \in DOMAIN y /\ (n - ((n - j) + 1)) + 1 = j BY <1>1, <1>3, <1>5
  <2>2. y[(n - j) + 1] = x[(n - ((n - j) + 1)) + 1] BY <1>4, <1>5, <2>1
  <2> QED BY <2>1, <2>2
<1> QED BY <1>2, <1>6, <1>7, <1>8

\* The insertions built at a place are the recorded ones with an anchor there.
LEMMA AddedMembers ==
  ASSUME NEW s, StructureOK(s), NEW i
  PROVE  /\ IsSeq(AddedAt(s, i))
         /\ \A x \in Range(AddedAt(s, i)) : \E j \in DOMAIN s.new : x = Entry(s.new[j])
         /\ \A j \in DOMAIN s.new : Place(s, s.new[j].before) = i
                                      => Entry(s.new[j]) \in Range(AddedAt(s, i))
<1> DEFINE later == Reverse(s.new)
           K == {k \in DOMAIN later : Place(s, later[k].before) = i}
           new == Pick(later, K)
           a == AddedAt(s, i)
<1>1. /\ IsSeq(later)
      /\ \A k \in DOMAIN later : \E j \in DOMAIN s.new : later[k] = s.new[j]
      /\ \A j \in DOMAIN s.new : \E k \in DOMAIN later : later[k] = s.new[j]
  <2>1. IsSeq(s.new) BY StructureIs
  <2> QED BY <2>1, ReverseMembers
<1>2. a = [k \in DOMAIN new |-> Entry(new[k])] BY DEF AddedAt, Spliced, Entry
<1> HIDE DEF later, a
<1>3. K \in SUBSET DOMAIN later OBVIOUS
<1>4. PICK g : Selects(g, new, later, K)
  <2> HIDE DEF K
  <2> QED BY <1>1, <1>3, PickSelects
<1>5. \A k \in DOMAIN later : k \in K <=> Place(s, later[k].before) = i OBVIOUS
<1> HIDE DEF new, K
<1>6. IsSeq(new) /\ Len(new) \in Nat /\ DOMAIN new = 1 .. Len(new)
  BY <1>4, SeqFacts DEF Selects
<1>7. DOMAIN a = DOMAIN new /\ a = [k \in 1 .. Len(new) |-> a[k]] BY <1>2, <1>6
<1>8. IsSeq(a) BY <1>6, <1>7, SeqByPositions
<1>9. \A x \in Range(a) : \E j \in DOMAIN s.new : x = Entry(s.new[j])
  <2> TAKE x \in Range(a)
  <2>1. PICK k \in DOMAIN a : x = a[k] BY DEF Range
  <2>2. x = Entry(new[k]) /\ k \in DOMAIN new BY <1>2, <1>7, <2>1
  <2>3. g[k] \in DOMAIN later /\ new[k] = later[g[k]] BY <1>3, <1>4, <2>2 DEF Selects
  <2> QED BY <1>1, <2>2, <2>3
<1>10. ASSUME NEW j \in DOMAIN s.new, Place(s, s.new[j].before) = i
       PROVE  Entry(s.new[j]) \in Range(a)
  <2>1. PICK l \in DOMAIN later : later[l] = s.new[j] BY <1>1
  <2>2. l \in K BY <1>5, <1>10, <2>1
  <2>3. PICK k \in DOMAIN new : g[k] = l BY <1>4, <2>2 DEF Selects
  <2>4. new[k] = s.new[j] BY <1>4, <2>1, <2>3 DEF Selects
  <2>5. k \in DOMAIN a /\ a[k] = Entry(s.new[j]) BY <1>2, <1>7, <2>3, <2>4
  <2> QED BY <2>5 DEF Range
<1> QED BY <1>8, <1>9, <1>10 DEF a

LEMMA KeptMembers ==
  ASSUME NEW s, NEW edits, NEW i
  PROVE  /\ IsSeq(KeptAt(s, edits, i))
         /\ Range(KeptAt(s, edits, i)) = IF i = Count \/ i \in s.deleted THEN {} ELSE {Template(edits, i)}
<1>1. IsSeq(<<>>) /\ Range(<<>>) = {}
  <2>1. <<>> = [k \in 1 .. 0 |-> <<>>[k]] /\ DOMAIN <<>> = {} OBVIOUS
  <2> QED BY <2>1, SeqByPositions DEF Range
<1>2. \A x : IsSeq(<<x>>) /\ Range(<<x>>) = {x}
  <2> TAKE x
  <2>1. <<x>> = [k \in 1 .. 1 |-> <<x>>[k]] /\ DOMAIN <<x>> = {1} /\ <<x>>[1] = x OBVIOUS
  <2> QED BY <2>1, SeqByPositions DEF Range
<1> QED BY <1>1, <1>2 DEF KeptAt

\* The built document has the recorded insertions and the template's paragraphs
\* that are not deleted, with the texts of the sidecars.
LEMMA BuiltMembers ==
  ASSUME NEW s, StructureOK(s), Buildable(s), NEW edits
  PROVE  /\ \A x \in Range(Built(s, edits)) :
              \/ \E j \in DOMAIN s.new : x = Entry(s.new[j])
              \/ \E i \in Baseline \ s.deleted : x = Template(edits, i)
         /\ \A j \in DOMAIN s.new : Entry(s.new[j]) \in Range(Built(s, edits))
         /\ \A i \in Baseline \ s.deleted : Template(edits, i) \in Range(Built(s, edits))
<1> DEFINE c == [n \in 1 .. Count + 1 |-> AddedAt(s, n - 1) \o KeptAt(s, edits, n - 1)]
<1>1. Built(s, edits) = FlattenSeq(c) BY DEF Built, AddedAt, KeptAt, Template
<1>2. Count \in Nat /\ Count + 1 \in Nat \ {0} BY CountAssumption
<1>3. \A n \in 1 .. Count + 1 :
        /\ IsSeq(c[n])
        /\ Range(c[n]) = Range(AddedAt(s, n - 1)) \union Range(KeptAt(s, edits, n - 1))
  <2> TAKE n \in 1 .. Count + 1
  <2>1. c[n] = AddedAt(s, n - 1) \o KeptAt(s, edits, n - 1) OBVIOUS
  <2>2. IsSeq(AddedAt(s, n - 1)) BY AddedMembers
  <2>3. IsSeq(KeptAt(s, edits, n - 1)) BY KeptMembers
  <2> QED BY <2>1, <2>2, <2>3, CatMembers
<1>4. c = [n \in 1 .. Count + 1 |-> c[n]] OBVIOUS
<1> HIDE DEF c
<1>5. \A x : x \in Range(FlattenSeq(c)) <=> \E n \in 1 .. Count + 1 : x \in Range(c[n])
  <2>1. \A n \in 1 .. Count + 1 : IsSeq(c[n]) BY <1>3
  <2> DEFINE m == Count + 1
  <2>2. m \in Nat \ {0} /\ c = [n \in 1 .. m |-> c[n]] BY <1>2, <1>4
  <2>3. \A n \in 1 .. m : IsSeq(c[n]) BY <2>1
  <2> HIDE DEF m
  <2>4. \A x : x \in Range(FlattenSeq(c)) <=> \E n \in 1 .. m : x \in Range(c[n])
    BY <2>2, <2>3, FlattenMembers
  <2> QED BY <2>4 DEF m
<1>6. ASSUME NEW x \in Range(FlattenSeq(c))
      PROVE  \/ \E j \in DOMAIN s.new : x = Entry(s.new[j])
             \/ \E i \in Baseline \ s.deleted : x = Template(edits, i)
  <2>1. PICK n \in 1 .. Count + 1 : x \in Range(c[n]) BY <1>5
  <2>2. CASE x \in Range(AddedAt(s, n - 1)) BY <2>2, AddedMembers
  <2>3. CASE x \in Range(KeptAt(s, edits, n - 1))
    <3>1. x = Template(edits, n - 1) /\ n - 1 # Count /\ n - 1 \notin s.deleted BY <2>3, KeptMembers
    <3>2. n - 1 \in Baseline BY <1>2, <3>1 DEF Baseline
    <3> QED BY <3>1, <3>2
  <2> QED BY <1>3, <2>1, <2>2, <2>3
<1>7. ASSUME NEW j \in DOMAIN s.new PROVE Entry(s.new[j]) \in Range(FlattenSeq(c))
  <2> DEFINE i == Place(s, s.new[j].before)
  <2>1. Chain(s, s.new[j].before) \in Baseline \union {None} BY DEF Buildable
  <2>2. i \in 0 .. Count BY <2>1, PlaceIs
  <2>3. Entry(s.new[j]) \in Range(AddedAt(s, i)) BY AddedMembers
  <2> HIDE DEF i
  <2>4. i + 1 \in 1 .. Count + 1 /\ (i + 1) - 1 = i BY <1>2, <2>2
  <2>5. Entry(s.new[j]) \in Range(c[i + 1]) BY <1>3, <2>3, <2>4
  <2> QED BY <1>5, <2>4, <2>5
<1>8. ASSUME NEW i \in Baseline \ s.deleted PROVE Template(edits, i) \in Range(FlattenSeq(c))
  <2>1. i \in 0 .. Count - 1 BY DEF Baseline
  <2>2. i # Count /\ i + 1 \in 1 .. Count + 1 /\ (i + 1) - 1 = i BY <1>2, <2>1
  <2>3. Template(edits, i) \in Range(KeptAt(s, edits, i)) BY <2>2, KeptMembers
  <2>4. Template(edits, i) \in Range(c[i + 1]) BY <1>3, <2>2, <2>3
  <2> QED BY <1>5, <2>2, <2>4
<1> QED BY <1>1, <1>6, <1>7, <1>8
-----------------------------------------------------------------------------
(* The draft, typed.md and the built document. *)

Said == {<<draft[i].id, draft[i].body>> : i \in DOMAIN draft}

LEMMA SettledFacts ==
  ASSUME Inv, clean, used.reverts = 0
  PROVE  /\ Agrees /\ ReadsAs(draft, typed.rows)
         /\ Said = {<<f, typed.rows[f]>> : f \in DOMAIN typed.rows}
         /\ At(draft, {"p"}) = DOMAIN draft /\ Temps(draft) = {} /\ Markers(draft) = {}
         /\ Paragraphs(draft) = DOMAIN typed.rows
<1>1. Agrees BY DEF Inv
<1>2. ReadsAs(draft, typed.rows) BY <1>1 DEF Agrees
<1>3. /\ \A i \in DOMAIN draft : /\ draft[i].kind = "p" /\ draft[i].id \in DOMAIN typed.rows
                                 /\ draft[i].body = typed.rows[draft[i].id]
      /\ \A f \in DOMAIN typed.rows : \E i \in DOMAIN draft : draft[i].id = f
  BY <1>2 DEF ReadsAs
<1>4. Said = {<<f, typed.rows[f]>> : f \in DOMAIN typed.rows}
  <2>1. \A i \in DOMAIN draft : <<draft[i].id, draft[i].body>> = <<draft[i].id, typed.rows[draft[i].id]>>
    BY <1>3
  <2>2. \A f \in DOMAIN typed.rows : <<f, typed.rows[f]>> \in Said
    <3> TAKE f \in DOMAIN typed.rows
    <3>1. PICK i \in DOMAIN draft : draft[i].id = f BY <1>3
    <3>2. <<f, typed.rows[f]>> = <<draft[i].id, draft[i].body>> BY <2>1, <3>1
    <3> QED BY <3>2 DEF Said
  <2>3. \A i \in DOMAIN draft : <<draft[i].id, draft[i].body>> \in {<<f, typed.rows[f]>> : f \in DOMAIN typed.rows}
    BY <1>3, <2>1
  <2> QED BY <2>2, <2>3 DEF Said
<1>5. At(draft, {"p"}) = DOMAIN draft /\ At(draft, {"new"}) = {} /\ At(draft, {"delete"}) = {}
  BY <1>3 DEF At
<1>6. Temps(draft) = {} /\ Markers(draft) = {} BY <1>5 DEF Temps, Markers, Ids
<1>7. DOMAIN typed.rows = Paragraphs(draft) \union (Markers(draft) \intersect Nat) BY <1>1 DEF Agrees
<1> QED BY <1>1, <1>2, <1>4, <1>5, <1>6, <1>7

LEMMA PairsOf ==
  ASSUME NEW b
  PROVE  /\ \A x \in Range(b) : <<x.id, x.body>> \in {<<b[i].id, b[i].body>> : i \in DOMAIN b}
         /\ \A pair \in {<<b[i].id, b[i].body>> : i \in DOMAIN b} :
              \E x \in Range(b) : pair = <<x.id, x.body>>
BY DEF Range

LEMMA ViewsAgreeHere == ASSUME Inv PROVE ViewsAgree
<1> SUFFICES ASSUME Settled
             PROVE  /\ Said = {<<f, typed.rows[f]>> : f \in DOMAIN typed.rows}
                    /\ {<<Built(structure, islands)[i].id, Built(structure, islands)[i].body>> :
                          i \in DOMAIN Built(structure, islands)}
                         = {pair \in Said : pair[1] \notin reused}
  BY DEF ViewsAgree, Said
<1> DEFINE b == Built(structure, islands)
           pairs == {<<b[i].id, b[i].body>> : i \in DOMAIN b}
<1>1. clean /\ used.reverts = 0 /\ Buildable(structure) BY DEF Settled
<1>2. Agrees /\ ReadsAs(draft, typed.rows) /\ At(draft, {"p"}) = DOMAIN draft
      /\ Said = {<<f, typed.rows[f]>> : f \in DOMAIN typed.rows}
  BY <1>1, SettledFacts
<1>3. /\ StructureOK(structure) /\ structure.deleted \subseteq Baseline
      /\ Added(structure) \intersect Baseline = {}
      /\ DOMAIN typed.rows \ Baseline \subseteq Added(structure)
  BY DEF Inv, Shape, StructureOK
<1>4. /\ \A x \in Range(b) :
           \/ \E j \in DOMAIN structure.new : x = Entry(structure.new[j])
           \/ \E i \in Baseline \ structure.deleted : x = Template(islands, i)
      /\ \A j \in DOMAIN structure.new : Entry(structure.new[j]) \in Range(b)
      /\ \A i \in Baseline \ structure.deleted : Template(islands, i) \in Range(b)
  BY <1>1, <1>3, BuiltMembers
<1>5. /\ \A x \in Range(b) : <<x.id, x.body>> \in pairs
      /\ \A pair \in pairs : \E x \in Range(b) : pair = <<x.id, x.body>>
  <2> HIDE DEF b
  <2> QED BY PairsOf
<1> HIDE DEF b, pairs
<1>6. /\ RecordsAgree(structure, typed.rows) /\ TextsAgree(draft, structure, islands)
      /\ reused \subseteq structure.deleted
      /\ Baseline \ structure.deleted \subseteq DOMAIN typed.rows
      /\ DOMAIN typed.rows \intersect structure.deleted \subseteq reused
  BY <1>2 DEF Agrees
<1>7. \A x : Entry(x).id = x.id /\ Entry(x).body = x.body BY DEF Entry
<1>8. \A k \in DOMAIN draft : draft[k].id \in Baseline \ structure.deleted =>
        /\ Template(islands, draft[k].id).id = draft[k].id
        /\ Template(islands, draft[k].id).body = draft[k].body
  BY <1>2, <1>6 DEF TextsAgree, Template
<1>9. /\ \A k \in DOMAIN draft : draft[k].id \in DOMAIN typed.rows
                                 /\ draft[k].body = typed.rows[draft[k].id]
      /\ \A f \in DOMAIN typed.rows : \E k \in DOMAIN draft : draft[k].id = f
  BY <1>2 DEF ReadsAs
<1>10. ASSUME NEW pair \in pairs PROVE pair \in Said /\ pair[1] \notin reused
  <2>1. PICK x \in Range(b) : pair = <<x.id, x.body>> BY <1>5
  <2>2. CASE \E j \in DOMAIN structure.new : x = Entry(structure.new[j])
    <3>1. PICK j \in DOMAIN structure.new : x = Entry(structure.new[j]) BY <2>2
    <3> DEFINE f == structure.new[j].id
    <3>2. f \in DOMAIN typed.rows /\ structure.new[j].body = typed.rows[f]
      BY <1>6 DEF RecordsAgree
    <3>3. pair = <<f, typed.rows[f]>> BY <1>7, <2>1, <3>1, <3>2
    <3>4. f \in Added(structure) BY DEF Added
    <3> HIDE DEF f
    <3>5. f \notin reused BY <1>3, <1>6, <3>4
    <3> QED BY <1>2, <3>2, <3>3, <3>5
  <2>3. CASE \E i \in Baseline \ structure.deleted : x = Template(islands, i)
    <3>1. PICK i \in Baseline \ structure.deleted : x = Template(islands, i) BY <2>3
    <3>2. PICK k \in DOMAIN draft : draft[k].id = i BY <1>6, <1>9
    <3>3. pair = <<draft[k].id, draft[k].body>> BY <1>8, <2>1, <3>1, <3>2
    <3>4. pair \in Said BY <3>3 DEF Said
    <3> QED BY <1>6, <3>2, <3>3, <3>4
  <2> QED BY <1>4, <2>2, <2>3
<1>11. ASSUME NEW k \in DOMAIN draft, draft[k].id \notin reused
       PROVE  <<draft[k].id, draft[k].body>> \in pairs
  <2>1. draft[k].id \in DOMAIN typed.rows /\ draft[k].body = typed.rows[draft[k].id] BY <1>9
  <2>2. CASE draft[k].id \in Baseline
    <3>1. draft[k].id \in Baseline \ structure.deleted BY <1>6, <1>11, <2>1, <2>2
    <3>2. Template(islands, draft[k].id) \in Range(b) BY <1>4, <3>1
    <3> QED BY <1>5, <1>8, <3>1, <3>2
  <2>3. CASE draft[k].id \notin Baseline
    <3>1. draft[k].id \in Added(structure) BY <1>3, <2>1, <2>3
    <3>2. PICK j \in DOMAIN structure.new : structure.new[j].id = draft[k].id BY <3>1 DEF Added
    <3>3. structure.new[j].body = draft[k].body BY <1>6, <2>1, <3>2 DEF RecordsAgree
    <3>4. Entry(structure.new[j]) \in Range(b) BY <1>4
    <3>5. <<Entry(structure.new[j]).id, Entry(structure.new[j]).body>> \in pairs BY <1>5, <3>4
    <3> QED BY <1>7, <3>2, <3>3, <3>5
  <2> QED BY <2>2, <2>3
<1>12. ASSUME NEW pair \in Said, pair[1] \notin reused PROVE pair \in pairs
  <2>1. PICK k \in DOMAIN draft : pair = <<draft[k].id, draft[k].body>> BY DEF Said
  <2>2. pair[1] = draft[k].id BY <2>1
  <2> QED BY <1>11, <1>12, <2>1, <2>2
<1>13. pairs = {pair \in Said : pair[1] \notin reused} BY <1>10, <1>12
<1> QED BY <1>2, <1>13 DEF pairs, b

\* Whatever was inserted, deleted, rewritten and committed, in any order and any
\* number: a committed draft, typed.md and the document built from the sidecars
\* hold the same paragraphs with the same text, but for those whose id was given
\* out twice - until a revert, and where the build accepts the anchors.
THEOREM ViewsAgreeHolds == Spec => []ViewsAgree
BY ViewsAgreeHere, Invariant, PTL
-----------------------------------------------------------------------------
(* A commit leaves the next one nothing. *)

\* islands.json has the texts of typed.md that are not the template's, and no
\* more: what a commit leaves there, and an edit need not.
Exact ==
  /\ DOMAIN islands = Differing(typed.rows)
  /\ \A f \in DOMAIN islands : islands[f] = typed.rows[f]

LEMMA NothingToDo == Inv /\ clean /\ used.reverts = 0 /\ Exact => Accepted = {}
<1> SUFFICES ASSUME Inv, clean, used.reverts = 0, Exact PROVE Accepted = {} OBVIOUS
<1> DEFINE said == Committed(draft)
           want == Desired(said, typed.rows, structure)
           next == Restructured(draft, typed.rows, structure)
<1>1. /\ DraftOK(draft) /\ StructureOK(structure)
      /\ Added(structure) \intersect Baseline = {}
      /\ DOMAIN typed.rows \ Baseline \subseteq Added(structure)
  BY DEF Inv, Shape, StructureOK
<1>2. /\ Agrees /\ ReadsAs(draft, typed.rows) /\ At(draft, {"p"}) = DOMAIN draft
      /\ Temps(draft) = {} /\ Markers(draft) = {} /\ Paragraphs(draft) = DOMAIN typed.rows
  BY SettledFacts
<1>3. DOMAIN said = DOMAIN typed.rows
  <2>1. DOMAIN said = Paragraphs(draft) \union News_(draft) BY <1>1, SaidIds
  <2>2. News_(draft) = {} BY <1>2 DEF News_
  <2> QED BY <1>2, <2>1, <2>2
<1>4. \A f \in DOMAIN said : said[f] = typed.rows[f]
  <2> TAKE f \in DOMAIN said
  <2>1. PICK i \in DOMAIN draft : draft[i].id = f BY <1>2, <1>3 DEF ReadsAs
  <2>2. draft[i].body = typed.rows[f] BY <1>2, <2>1 DEF ReadsAs
  <2>3. i \in At(draft, Live) BY <1>2, <2>1, Kinds
  <2>4. f \in Paragraphs(draft) BY <1>2, <1>3
  <2>5. Formal(draft, f) = f BY <1>1, <2>4, FormalFacts
  <2>6. said[Formal(draft, draft[i].id)] = draft[i].body BY <1>1, <2>3, CommittedFacts
  <2> HIDE DEF said
  <2> QED BY <2>1, <2>2, <2>5, <2>6
<1>5. /\ DOMAIN want = Differing(said) /\ \A f \in DOMAIN want : want[f] = said[f]
  <2> HIDE DEF said
  <2> QED BY <1>1, DesiredIs
<1>6. Moved(structure, next) = {}
  <2>1. \A k \in DOMAIN structure.new : structure.new[k].id \in DOMAIN said
                                   => structure.new[k].body = said[structure.new[k].id]
    <3>1. RecordsAgree(structure, typed.rows) BY <1>2 DEF Agrees
    <3> HIDE DEF said
    <3> QED BY <1>3, <1>4, <3>1 DEF RecordsAgree
  <2> QED BY <1>1, <1>2, <2>1, RestructuredSame
<1> HIDE DEF said, want, next
<1>7. Differing(said) = Differing(typed.rows) BY <1>3, <1>4 DEF Differing
<1>8. PlanChanged(want, islands) = {}
  <2>1. DOMAIN want = DOMAIN islands BY <1>5, <1>7 DEF Exact
  <2>2. DOMAIN want \subseteq DOMAIN said BY <1>5 DEF Differing
  <2>3. \A f \in DOMAIN want : want[f] = islands[f] BY <1>4, <1>5, <2>1, <2>2 DEF Exact
  <2> QED BY <2>1, <2>3 DEF PlanChanged
<1>9. Retyped(said, typed.rows) = {} BY <1>3, <1>4 DEF Retyped
<1> QED BY <1>6, <1>8, <1>9 DEF Accepted, said, want, next

LEMMA CommitIsExact == ASSUME Shape, Agrees, Commit PROVE Exact'
<1> DEFINE said == Committed(draft)
<1>1. /\ DOMAIN typed'.rows = DOMAIN said
      /\ \A f \in DOMAIN said : typed'.rows[f] = said[f]
      /\ DOMAIN islands' = Differing(said)
      /\ \A f \in DOMAIN islands' : islands'[f] = said[f]
  BY CommitSays
<1> HIDE DEF said
<1>2. Differing(typed'.rows) = Differing(said) BY <1>1 DEF Differing
<1>3. DOMAIN islands' \subseteq DOMAIN said BY <1>1 DEF Differing
<1> QED BY <1>1, <1>2, <1>3 DEF Exact

\* Only a commit is counted as one.
LEMMA OnlyCommits ==
  ASSUME Inv, [Next]_vars, used'.commits # used.commits
  PROVE  Commit
<1>1. Shape BY DEF Inv
<1>2. ASSUME NEW what \in Uses \ {"commits"}, NEW limit, Spend(what, limit) PROVE FALSE
  <2>1. what \in Uses /\ "commits" \in Uses \ {what} BY <1>2 DEF Uses
  <2>2. \A other \in Uses \ {what} : used'[other] = used[other] BY <1>1, <1>2, <2>1, Spent
  <2>3. used'["commits"] = used["commits"] BY <2>1, <2>2
  <2> QED BY <2>3
<1>3. \A what \in {"edits", "deletes", "reverts"} : what \in Uses \ {"commits"} BY DEF Uses
<1>4. ASSUME NEW after, NEW inherit, Insert(after, inherit) \/ PatchInsert(after, inherit) PROVE FALSE
  <2>1. Spend("edits", MaxEdits) BY <1>4 DEF PatchInsert, Insert
  <2> QED BY <1>2, <1>3, <2>1
<1>5. ASSUME NEW id, NEW body, Rewrite(id, body) PROVE FALSE
  <2>1. Spend("edits", MaxEdits) BY <1>5 DEF Rewrite
  <2> QED BY <1>2, <1>3, <2>1
<1>6. ASSUME NEW id, Delete(id) \/ PatchDelete(id) PROVE FALSE
  <2>1. Spend("deletes", MaxDeletes) BY <1>6 DEF Delete, PatchDelete
  <2> QED BY <1>2, <1>3, <2>1
<1>7. ASSUME Revert PROVE FALSE
  <2>1. Spend("reverts", MaxReverts) BY <1>7 DEF Revert
  <2> QED BY <1>2, <1>3, <2>1
<1>8. ~UNCHANGED vars BY DEF vars
<1> QED BY <1>4, <1>5, <1>6, <1>7, <1>8 DEF Next

\* After a commit another has nothing to accept: its plan for islands.json and
\* structure.json and its rows of typed.md are those the first one left, whatever
\* was done before it - until something is reverted.
THEOREM CommitConvergesHolds == Spec => CommitConverges
<1>1. ASSUME Inv, Inv', [Next]_vars, used'.commits # used.commits, used.reverts = 0
      PROVE  (Inv /\ clean /\ used.reverts = 0 /\ Exact)'
  <2>1. Commit BY <1>1, OnlyCommits
  <2>2. Shape /\ Agrees BY <1>1 DEF Inv
  <2>3. Exact' BY <2>1, <2>2, CommitIsExact
  <2>4. used'.reverts = used.reverts BY <2>1, <2>2, Spent DEF Commit, Uses
  <2>5. clean' BY <2>1 DEF Commit
  <2> QED BY <1>1, <2>3, <2>4, <2>5
<1>2. (Inv /\ clean /\ used.reverts = 0 /\ Exact)' => (Accepted = {})' BY NothingToDo, PTL
<1>3. Inv /\ Inv' /\ [Next]_vars
        => [used'.commits # used.commits /\ used.reverts = 0 => Accepted' = {}]_vars
  <2> SUFFICES ASSUME Inv, Inv', [Next]_vars, used'.commits # used.commits, used.reverts = 0
               PROVE  Accepted' = {}
    OBVIOUS
  <2> QED BY <1>1, <1>2
<1> QED BY <1>3, Invariant, PTL DEF Spec, CommitConverges
=============================================================================
