----------------------- MODULE RevisionDecisionProofs -----------------------
(***************************************************************************)
(* What is proved of RevisionDecision, for every package and any number of *)
(* decisions: the surgery keeps the revision elements well nested, and from *)
(* that the inventory is honest, the views are kept, the other revisions    *)
(* are kept, and ids stay unique.                                           *)
(***************************************************************************)
EXTENDS RevisionDecision, FiniteSetTheorems, WellFoundedInduction, TLAPS

-----------------------------------------------------------------------------
(* Induction on the numbers, over a set of them. *)

\* A set of numbers has a least one: of the intervals 0 .. k its members k
\* span, one has no other within it.
LEMMA Least ==
  ASSUME NEW S, S \subseteq Nat, S # {}
  PROVE  \E m \in S : \A k \in S : m <= k
<1>1. PICK n \in S : TRUE OBVIOUS
<1> DEFINE D == 0 .. n
           T == {0 .. k : k \in S \intersect D}
           R == StrictSubsetOrdering(D)
           F == FiniteSubsetsOf(D)
<1>2. IsWellFoundedOn(R, F) BY FS_StrictSubsetOrderingWellFounded
<1>3. T \subseteq F
  <2>1. \A k \in S \intersect D : 0 .. k \subseteq D /\ IsFiniteSet(0 .. k) BY FS_Interval
  <2> QED BY <2>1 DEF FiniteSubsetsOf
<1>4. T # {} BY <1>1
<1>5. PICK x \in T : \A y \in T : ~(<<y, x>> \in R)
  <2> HIDE DEF T, R, F
  <2> QED BY <1>2, <1>3, <1>4, WFMin
<1>6. PICK m \in S \intersect D : x = 0 .. m OBVIOUS
<1>7. \A k \in S : m <= k
  <2> SUFFICES ASSUME NEW k \in S, k < m PROVE FALSE OBVIOUS
  <2>1. k \in D /\ 0 .. k \in T BY <1>6
  <2>2. 0 .. k \subseteq 0 .. m /\ m \in 0 .. m /\ m \notin 0 .. k OBVIOUS
  <2>3. <<0 .. k, 0 .. m>> \in R BY <2>1, <2>2, <1>6 DEF StrictSubsetOrdering
  <2> QED BY <2>1, <2>3, <1>5, <1>6
<1> QED BY <1>7

\* A set of numbers that has 0, and with every number the next, has them all.
LEMMA Induction ==
  ASSUME NEW S, 0 \in S, \A n \in Nat : n \in S => n + 1 \in S
  PROVE  Nat \subseteq S
<1> SUFFICES ASSUME Nat \ S # {} PROVE FALSE OBVIOUS
<1>1. PICK m \in Nat \ S : \A k \in Nat \ S : m <= k BY Least
<1>2. m # 0 /\ m - 1 \in Nat /\ m - 1 \notin Nat \ S BY <1>1
<1> QED BY <1>1, <1>2

-----------------------------------------------------------------------------
(* Sequences, by their positions. *)

IsSeq(d) == d \in Seq({d[i] : i \in DOMAIN d})

\* A function on an initial interval is a sequence, whatever its values are.
LEMMA SeqByPositions ==
  ASSUME NEW n \in Nat, NEW d, d = [i \in 1 .. n |-> d[i]]
  PROVE  IsSeq(d) /\ Len(d) = n
<1> DEFINE U == {d[i] : i \in DOMAIN d}
<1>1. \A i \in 1 .. n : d[i] \in U OBVIOUS
<1> HIDE DEF U
<1>2. [i \in 1 .. n |-> d[i]] \in Seq(U) BY <1>1
<1>3. Len([i \in 1 .. n |-> d[i]]) = n OBVIOUS
<1> QED BY <1>2, <1>3 DEF IsSeq, U

LEMMA SeqFacts ==
  ASSUME NEW d, IsSeq(d)
  PROVE  Len(d) \in Nat /\ DOMAIN d = 1 .. Len(d) /\ d = [i \in 1 .. Len(d) |-> d[i]]
BY DEF IsSeq

LEMMA SeqOfSome ==
  ASSUME NEW U, NEW d \in Seq(U)
  PROVE  IsSeq(d) /\ Len(d) \in Nat
<1>1. Len(d) \in Nat /\ d = [i \in 1 .. Len(d) |-> d[i]] OBVIOUS
<1> QED BY <1>1, SeqByPositions

LEMMA CatAt ==
  ASSUME NEW x, NEW y, IsSeq(x), IsSeq(y)
  PROVE  /\ IsSeq(x \o y) /\ Len(x \o y) = Len(x) + Len(y)
         /\ DOMAIN (x \o y) = 1 .. Len(x) + Len(y)
         /\ \A i \in 1 .. Len(x) : (x \o y)[i] = x[i]
         /\ \A i \in Len(x) + 1 .. Len(x) + Len(y) : (x \o y)[i] = y[i - Len(x)]
<1> DEFINE U == {x[i] : i \in DOMAIN x} \union {y[i] : i \in DOMAIN y}
<1>1. x \in Seq(U) /\ y \in Seq(U)
  <2>1. \A i \in 1 .. Len(x) : x[i] \in U BY SeqFacts
  <2>2. \A i \in 1 .. Len(y) : y[i] \in U BY SeqFacts
  <2> HIDE DEF U
  <2>3. [i \in 1 .. Len(x) |-> x[i]] \in Seq(U) BY <2>1, SeqFacts
  <2>4. [i \in 1 .. Len(y) |-> y[i]] \in Seq(U) BY <2>2, SeqFacts
  <2> QED BY <2>3, <2>4, SeqFacts
<1> HIDE DEF U
<1>2. x \o y \in Seq(U) /\ Len(x \o y) = Len(x) + Len(y) BY <1>1
<1>3. Len(x) \in Nat /\ Len(y) \in Nat BY <1>1
<1>4. IsSeq(x \o y) BY <1>2, SeqOfSome
<1> QED BY <1>1, <1>2, <1>3, <1>4

LEMMA SubAt ==
  ASSUME NEW d, IsSeq(d), NEW a \in Nat \ {0}, NEW b \in Nat, b <= Len(d), a <= b + 1
  PROVE  /\ IsSeq(SubSeq(d, a, b)) /\ Len(SubSeq(d, a, b)) = b - a + 1
         /\ \A i \in 1 .. b - a + 1 : SubSeq(d, a, b)[i] = d[i + a - 1]
<1> DEFINE U == {d[i] : i \in DOMAIN d}
           s == SubSeq(d, a, b)
<1>1. d \in Seq(U) BY DEF IsSeq
<1> HIDE DEF U
<1>2. Len(d) \in Nat BY <1>1
<1>3. \A i \in a .. b : i \in 1 .. Len(d) BY <1>2
<1>4. /\ Len(s) = b - a + 1
      /\ \A i \in 1 .. b - a + 1 : s[i] = d[i + a - 1]
      /\ s = [i \in 1 .. b - a + 1 |-> s[i]]
  BY <1>1, <1>2, <1>3
<1>5. b - a + 1 \in Nat OBVIOUS
<1> QED BY <1>4, <1>5, SeqByPositions

\* A sequence with the positions from a + 1 to b - 1 replaced by m.
Splice(d, a, m, b) == SubSeq(d, 1, a) \o m \o SubSeq(d, b, Len(d))
IsSplice(e, d, a, m, b) ==
  /\ IsSeq(e) /\ Len(e) = a + Len(m) + Len(d) - b + 1
  /\ \A i \in 1 .. a : e[i] = d[i]
  /\ \A i \in a + 1 .. a + Len(m) : e[i] = m[i - a]
  /\ \A i \in a + Len(m) + 1 .. Len(e) : e[i] = d[i - a - Len(m) + b - 1]
LEMMA SpliceAt ==
  ASSUME NEW d, IsSeq(d), NEW m, IsSeq(m), NEW a \in Nat, NEW b \in Nat, a < b, b <= Len(d) + 1
  PROVE  IsSplice(Splice(d, a, m, b), d, a, m, b)
<1> DEFINE x == SubSeq(d, 1, a)
           y == SubSeq(d, b, Len(d))
<1>1. Len(d) \in Nat /\ Len(m) \in Nat BY SeqFacts
<1>2. IsSeq(x) /\ Len(x) = a /\ \A i \in 1 .. a : x[i] = d[i]
  <2>1. a <= Len(d) /\ 1 <= a + 1 /\ a - 1 + 1 = a BY <1>1
  <2>2. /\ IsSeq(x) /\ Len(x) = a - 1 + 1
        /\ \A i \in 1 .. a - 1 + 1 : x[i] = d[i + 1 - 1]
    BY <2>1, SubAt
  <2> QED BY <2>1, <2>2
<1>3. /\ IsSeq(y) /\ Len(y) = Len(d) - b + 1
      /\ \A i \in 1 .. Len(d) - b + 1 : y[i] = d[i + b - 1]
  <2>1. b \in Nat \ {0} /\ b <= Len(d) + 1 BY <1>1
  <2> QED BY <1>1, <2>1, SubAt
<1> HIDE DEF x, y
<1> DEFINE xm == x \o m
<1>4. /\ IsSeq(xm) /\ Len(xm) = a + Len(m)
      /\ \A i \in 1 .. a : xm[i] = x[i]
      /\ \A i \in a + 1 .. a + Len(m) : xm[i] = m[i - a]
  BY <1>2, CatAt
<1> HIDE DEF xm
<1>5. /\ IsSeq(xm \o y) /\ Len(xm \o y) = a + Len(m) + (Len(d) - b + 1)
      /\ \A i \in 1 .. a + Len(m) : (xm \o y)[i] = xm[i]
      /\ \A i \in a + Len(m) + 1 .. a + Len(m) + (Len(d) - b + 1) : (xm \o y)[i] = y[i - (a + Len(m))]
  <2>1. /\ IsSeq(xm \o y) /\ Len(xm \o y) = Len(xm) + Len(y)
        /\ \A i \in 1 .. Len(xm) : (xm \o y)[i] = xm[i]
        /\ \A i \in Len(xm) + 1 .. Len(xm) + Len(y) : (xm \o y)[i] = y[i - Len(xm)]
    BY <1>3, <1>4, CatAt
  <2>2. Len(xm) = a + Len(m) /\ Len(y) = Len(d) - b + 1 BY <1>3, <1>4
  <2> QED BY <2>1, <2>2
<1>6. Splice(d, a, m, b) = xm \o y BY DEF Splice, x, y, xm
<1> DEFINE e == xm \o y
<1>7. \A i \in 1 .. a : e[i] = d[i] BY <1>1, <1>2, <1>4, <1>5
<1>8. \A i \in a + 1 .. a + Len(m) : e[i] = m[i - a] BY <1>1, <1>4, <1>5
<1>9. ASSUME NEW i \in a + Len(m) + 1 .. Len(e) PROVE e[i] = d[i - a - Len(m) + b - 1]
  <2>1. i \in a + Len(m) + 1 .. a + Len(m) + (Len(d) - b + 1) BY <1>5, <1>9
  <2>2. i - (a + Len(m)) \in 1 .. Len(d) - b + 1 BY <1>1, <2>1
  <2>3. e[i] = d[(i - (a + Len(m))) + b - 1] BY <1>3, <1>5, <2>1, <2>2
  <2>4. (i - (a + Len(m))) + b - 1 = i - a - Len(m) + b - 1 BY <1>1, <2>1
  <2> QED BY <2>3, <2>4
<1>10. Len(e) = a + Len(m) + Len(d) - b + 1 BY <1>1, <1>5
<1> HIDE DEF e
<1>11. Splice(d, a, m, b) = e BY <1>6 DEF e
<1> QED BY <1>5, <1>7, <1>8, <1>9, <1>10, <1>11 DEF e, IsSplice

-----------------------------------------------------------------------------
(* Well-nested documents. *)

\* The tags of an element.
LEMMA Tags ==
  ASSUME NEW d, WellNested(d), NEW r \in Elements(d)
  PROVE  /\ Opening(d, r) \in At(d, {"open"}) /\ d[Opening(d, r)].rev = r
         /\ Closing(d, r) \in At(d, {"close"}) /\ d[Closing(d, r)].rev = r
         /\ Opening(d, r) < Closing(d, r)
         /\ d[Opening(d, r)].par = d[Closing(d, r)].par
<1>1. PICK i \in At(d, {"open"}) : d[i].rev = r BY DEF Elements
<1>2. PICK j \in At(d, {"close"}) : i < j /\ d[j].rev = r /\ d[j].par = d[i].par
  BY <1>1 DEF WellNested
<1>3. Opening(d, r) = i
  <2>1. \A x \in At(d, {"open"}) : d[x].rev = r => x = i BY <1>1 DEF WellNested
  <2> QED BY <1>1, <2>1 DEF Opening
<1>4. Closing(d, r) = j
  <2>1. \A x \in At(d, {"close"}) : d[x].rev = r => x = j BY <1>2 DEF WellNested
  <2> QED BY <1>2, <2>1 DEF Closing
<1> QED BY <1>1, <1>2, <1>3, <1>4

\* A tag that names an element is one of its two.
LEMMA TagIs ==
  ASSUME NEW d, WellNested(d)
  PROVE  /\ \A i \in At(d, {"open"}) : d[i].rev \in Elements(d) /\ Opening(d, d[i].rev) = i
         /\ \A i \in At(d, {"close"}) : d[i].rev \in Elements(d) /\ Closing(d, d[i].rev) = i
<1>1. ASSUME NEW i \in At(d, {"open"})
      PROVE  d[i].rev \in Elements(d) /\ Opening(d, d[i].rev) = i
  <2>1. d[i].rev \in Elements(d) BY DEF Elements
  <2>2. Opening(d, d[i].rev) \in At(d, {"open"}) /\ d[Opening(d, d[i].rev)].rev = d[i].rev
    BY <2>1, Tags
  <2> QED BY <2>1, <2>2 DEF WellNested
<1>2. ASSUME NEW i \in At(d, {"close"})
      PROVE  d[i].rev \in Elements(d) /\ Closing(d, d[i].rev) = i
  <2>1. d[i].rev \in Elements(d)
    <3>1. PICK j \in At(d, {"open"}) : d[j].rev = d[i].rev BY DEF WellNested
    <3> QED BY <3>1 DEF Elements
  <2>2. Closing(d, d[i].rev) \in At(d, {"close"}) /\ d[Closing(d, d[i].rev)].rev = d[i].rev
    BY <2>1, Tags
  <2> QED BY <2>1, <2>2 DEF WellNested
<1> QED BY <1>1, <1>2

\* Where the tags of an element are.
LEMMA TagsInOrder ==
  ASSUME NEW d, IsSeq(d), WellNested(d), NEW r \in Elements(d)
  PROVE  /\ Opening(d, r) \in 1 .. Len(d) /\ Closing(d, r) \in 1 .. Len(d)
         /\ Len(d) \in Nat /\ Opening(d, r) < Closing(d, r)
<1>1. Opening(d, r) \in DOMAIN d /\ Closing(d, r) \in DOMAIN d BY Tags DEF At
<1> QED BY <1>1, Tags, SeqFacts

\* Two elements lie one within the other, or beside each other.
LEMMA Beside ==
  ASSUME NEW d, IsSeq(d), WellNested(d), NEW r \in Elements(d), NEW s \in Elements(d), r # s
  PROVE  /\ Opening(d, s) # Opening(d, r) /\ Closing(d, s) # Closing(d, r)
         /\ Opening(d, s) # Closing(d, r) /\ Closing(d, s) # Opening(d, r)
         /\ \/ Opening(d, r) < Opening(d, s) /\ Closing(d, s) < Closing(d, r)
            \/ Opening(d, s) < Opening(d, r) /\ Closing(d, r) < Closing(d, s)
            \/ Closing(d, r) < Opening(d, s)
            \/ Closing(d, s) < Opening(d, r)
<1> DEFINE a == Opening(d, r)  b == Closing(d, r)  x == Opening(d, s)  y == Closing(d, s)
<1>1. /\ a \in At(d, {"open"}) /\ b \in At(d, {"close"}) /\ d[a].rev = r /\ d[b].rev = r
      /\ x \in At(d, {"open"}) /\ y \in At(d, {"close"}) /\ d[x].rev = s /\ d[y].rev = s
  BY Tags
<1>2. a \in Int /\ b \in Int /\ x \in Int /\ y \in Int /\ a < b /\ x < y BY TagsInOrder
<1>3. d[a].tag = "open" /\ d[b].tag = "close" /\ d[x].tag = "open" /\ d[y].tag = "close"
  BY <1>1 DEF At
<1>4. a # x /\ b # y /\ a # y /\ b # x BY <1>1, <1>3
<1>5. a < x /\ x < b => y < b BY <1>1 DEF WellNested
<1>6. x < a /\ a < y => b < y BY <1>1 DEF WellNested
<1> HIDE DEF a, b, x, y
<1>7. \/ a < x /\ y < b
      \/ x < a /\ b < y
      \/ b < x
      \/ y < a
  BY <1>2, <1>4, <1>5, <1>6
<1> QED BY <1>4, <1>7 DEF a, b, x, y

\* An element within another lies in its range.
LEMMA InsideRange ==
  ASSUME NEW d, IsSeq(d), WellNested(d), NEW r \in Elements(d), NEW s \in Elements(d),
         s = r \/ Inside(d, s, r)
  PROVE  Range_(d, s) \subseteq Range_(d, r)
<1>1. CASE s = r BY <1>1
<1>2. CASE s # r
  <2>1. /\ Opening(d, s) \in Int /\ Closing(d, s) \in Int /\ Opening(d, s) < Closing(d, s)
        /\ Opening(d, r) \in Int /\ Closing(d, r) \in Int /\ Opening(d, r) < Closing(d, r)
    BY TagsInOrder
  <2>2. Opening(d, s) \in Opening(d, r) .. Closing(d, r) BY <1>2 DEF Inside, Range_
  <2>3. Opening(d, r) < Opening(d, s) /\ Closing(d, s) < Closing(d, r) BY <1>2, <2>1, <2>2, Beside
  <2> QED BY <2>1, <2>3 DEF Range_
<1> QED BY <1>1, <1>2

\* Two elements neither of which is within the other share no position.
LEMMA Apart ==
  ASSUME NEW d, IsSeq(d), WellNested(d), NEW r \in Elements(d), NEW s \in Elements(d),
         r # s, ~Inside(d, s, r), ~Inside(d, r, s)
  PROVE  Range_(d, s) \intersect Range_(d, r) = {}
<1>1. /\ Opening(d, s) \in Int /\ Closing(d, s) \in Int /\ Opening(d, s) < Closing(d, s)
      /\ Opening(d, r) \in Int /\ Closing(d, r) \in Int /\ Opening(d, r) < Closing(d, r)
  BY TagsInOrder
<1>2. \/ Closing(d, r) < Opening(d, s)
      \/ Closing(d, s) < Opening(d, r)
  <2>1. Opening(d, s) \notin Opening(d, r) .. Closing(d, r) BY DEF Inside, Range_
  <2>2. Opening(d, r) \notin Opening(d, s) .. Closing(d, s) BY DEF Inside, Range_
  <2> QED BY <1>1, <2>1, <2>2, Beside
<1> QED BY <1>1, <1>2 DEF Range_

-----------------------------------------------------------------------------
(* A document within another: some of its tokens, in their order, with both tags *)
(* of an element or none.  f says where they are.                                *)

Embeds(f, e, d) ==
  /\ \A i \in DOMAIN e : f[i] \in DOMAIN d
  /\ \A i, j \in DOMAIN e : i < j => f[i] < f[j]
  /\ \A i \in DOMAIN e : /\ e[i].tag = d[f[i]].tag /\ e[i].par = d[f[i]].par
                         /\ e[i].tag \in {"open", "close", "mark"} => e[i].rev = d[f[i]].rev
                         /\ e[i].tag = "text" => e[i].text = d[f[i]].text
  /\ \A i \in At(e, {"open", "close"}), j \in At(d, {"open", "close"}) :
       d[j].rev = e[i].rev => \E k \in DOMAIN e : f[k] = j

\* The order of the positions, both ways.
LEMMA EmbedsOrder ==
  ASSUME NEW f, NEW e, NEW d, IsSeq(e), IsSeq(d), Embeds(f, e, d),
         NEW i \in DOMAIN e, NEW j \in DOMAIN e
  PROVE  (i < j <=> f[i] < f[j]) /\ (i <= j <=> f[i] <= f[j]) /\ (i = j <=> f[i] = f[j])
<1>1. i \in Int /\ j \in Int BY SeqFacts
<1>2. f[i] \in Int /\ f[j] \in Int BY SeqFacts DEF Embeds
<1>3. (i < j => f[i] < f[j]) /\ (j < i => f[j] < f[i]) BY DEF Embeds
<1> QED BY <1>1, <1>2, <1>3

LEMMA EmbedsTags ==
  ASSUME NEW f, NEW e, NEW d, Embeds(f, e, d), NEW i \in DOMAIN e
  PROVE  /\ i \in At(e, {"open"}) <=> f[i] \in At(d, {"open"})
         /\ i \in At(e, {"close"}) <=> f[i] \in At(d, {"close"})
         /\ i \in At(e, {"mark"}) <=> f[i] \in At(d, {"mark"})
         /\ i \in At(e, {"text"}) <=> f[i] \in At(d, {"text"})
         /\ i \in At(e, {"open", "close"}) <=> f[i] \in At(d, {"open", "close"})
BY DEF Embeds, At

\* What lies within a well-nested document this way is well nested.
LEMMA EmbedsNested ==
  ASSUME NEW f, NEW e, NEW d, IsSeq(e), IsSeq(d), WellNested(d), Embeds(f, e, d)
  PROVE  WellNested(e)
<1>1. \A i \in DOMAIN e : e[i].tag \in {"open", "close", "mark"} => e[i].rev = d[f[i]].rev
  BY DEF Embeds
<1>2. ASSUME NEW i \in At(e, {"open"}), NEW j \in At(e, {"open"}), e[i].rev = e[j].rev
      PROVE  i = j
  <2>1. i \in DOMAIN e /\ j \in DOMAIN e /\ d[f[i]].rev = d[f[j]].rev BY <1>1, <1>2 DEF At
  <2>2. f[i] \in At(d, {"open"}) /\ f[j] \in At(d, {"open"}) BY <2>1, EmbedsTags
  <2> QED BY <2>1, <2>2, EmbedsOrder DEF WellNested
<1>3. ASSUME NEW i \in At(e, {"close"}), NEW j \in At(e, {"close"}), e[i].rev = e[j].rev
      PROVE  i = j
  <2>1. i \in DOMAIN e /\ j \in DOMAIN e /\ d[f[i]].rev = d[f[j]].rev BY <1>1, <1>3 DEF At
  <2>2. f[i] \in At(d, {"close"}) /\ f[j] \in At(d, {"close"}) BY <2>1, EmbedsTags
  <2> QED BY <2>1, <2>2, EmbedsOrder DEF WellNested
<1>4. ASSUME NEW i \in At(e, {"open"})
      PROVE  \E j \in At(e, {"close"}) : i < j /\ e[j].rev = e[i].rev /\ e[j].par = e[i].par
  <2>1. i \in DOMAIN e /\ i \in At(e, {"open", "close"}) /\ e[i].rev = d[f[i]].rev BY <1>1 DEF At
  <2>2. f[i] \in At(d, {"open"}) BY <2>1, EmbedsTags
  <2>3. PICK y \in At(d, {"close"}) :
          f[i] < y /\ d[y].rev = d[f[i]].rev /\ d[y].par = d[f[i]].par
    BY <2>2 DEF WellNested
  <2>4. y \in At(d, {"open", "close"}) BY DEF At
  <2>5. PICK j \in DOMAIN e : f[j] = y BY <2>1, <2>3, <2>4 DEF Embeds
  <2>6. j \in At(e, {"close"}) BY <2>5, EmbedsTags
  <2>7. i < j BY <2>1, <2>3, <2>5, EmbedsOrder
  <2>8. e[j].rev = d[y].rev BY <1>1, <2>5, <2>6 DEF At
  <2>9. e[j].par = d[y].par /\ e[i].par = d[f[i]].par BY <2>1, <2>5 DEF Embeds
  <2> QED BY <2>1, <2>3, <2>6, <2>7, <2>8, <2>9
<1>5. ASSUME NEW j \in At(e, {"close"})
      PROVE  \E i \in At(e, {"open"}) : e[i].rev = e[j].rev
  <2>1. j \in DOMAIN e /\ j \in At(e, {"open", "close"}) /\ e[j].rev = d[f[j]].rev BY <1>1 DEF At
  <2>2. f[j] \in At(d, {"close"}) BY <2>1, EmbedsTags
  <2>3. PICK x \in At(d, {"open"}) : d[x].rev = d[f[j]].rev BY <2>2 DEF WellNested
  <2>4. x \in At(d, {"open", "close"}) BY DEF At
  <2>5. PICK i \in DOMAIN e : f[i] = x BY <2>1, <2>3, <2>4 DEF Embeds
  <2>6. i \in At(e, {"open"}) BY <2>5, EmbedsTags
  <2>7. e[i].rev = d[x].rev BY <1>1, <2>5, <2>6 DEF At
  <2> QED BY <2>1, <2>3, <2>6, <2>7
<1>6. ASSUME NEW i \in At(e, {"open"}), NEW j \in At(e, {"open"}),
             NEW x \in At(e, {"close"}), NEW y \in At(e, {"close"}),
             e[i].rev = e[x].rev, e[j].rev = e[y].rev, i < j, j < x
      PROVE  y < x
  <2>1. i \in DOMAIN e /\ j \in DOMAIN e /\ x \in DOMAIN e /\ y \in DOMAIN e BY DEF At
  <2>2. d[f[i]].rev = d[f[x]].rev /\ d[f[j]].rev = d[f[y]].rev BY <1>1, <1>6 DEF At
  <2>3. f[i] < f[j] /\ f[j] < f[x] BY <1>6, <2>1, EmbedsOrder
  <2>4. /\ f[i] \in At(d, {"open"}) /\ f[j] \in At(d, {"open"})
        /\ f[x] \in At(d, {"close"}) /\ f[y] \in At(d, {"close"})
    BY <2>1, EmbedsTags
  <2>5. f[y] < f[x] BY <2>2, <2>3, <2>4 DEF WellNested
  <2> QED BY <2>1, <2>5, EmbedsOrder
<1>7. ASSUME NEW i \in At(e, {"open"}), NEW j \in At(e, {"mark"})
      PROVE  e[i].rev # e[j].rev
  <2>1. i \in DOMAIN e /\ j \in DOMAIN e /\ e[i].rev = d[f[i]].rev /\ e[j].rev = d[f[j]].rev
    BY <1>1 DEF At
  <2>2. f[i] \in At(d, {"open"}) /\ f[j] \in At(d, {"mark"}) BY <2>1, EmbedsTags
  <2> QED BY <2>1, <2>2 DEF WellNested
<1> QED BY <1>2, <1>3, <1>4, <1>5, <1>6, <1>7 DEF WellNested

\* Its elements are elements of the other, with their tags and what is in them.
LEMMA EmbedsElement ==
  ASSUME NEW f, NEW e, NEW d, IsSeq(e), IsSeq(d), WellNested(d), Embeds(f, e, d),
         NEW r \in Elements(e)
  PROVE  /\ r \in Elements(d)
         /\ f[Opening(e, r)] = Opening(d, r) /\ f[Closing(e, r)] = Closing(d, r)
         /\ \A i \in DOMAIN e : i \in Range_(e, r) <=> f[i] \in Range_(d, r)
<1>1. WellNested(e) BY EmbedsNested
<1> DEFINE a == Opening(e, r)  b == Closing(e, r)
<1>2. a \in At(e, {"open"}) /\ e[a].rev = r /\ b \in At(e, {"close"}) /\ e[b].rev = r
  BY <1>1, Tags
<1>3. a \in DOMAIN e /\ b \in DOMAIN e BY <1>2 DEF At
<1>4. d[f[a]].rev = r /\ d[f[b]].rev = r
  <2>1. e[a].tag = "open" /\ e[b].tag = "close" BY <1>2 DEF At
  <2> QED BY <1>2, <1>3, <2>1 DEF Embeds
<1>5. f[a] \in At(d, {"open"}) /\ f[b] \in At(d, {"close"}) BY <1>2, <1>3, EmbedsTags
<1> HIDE DEF a, b
<1>6. r \in Elements(d) /\ f[a] = Opening(d, r) /\ f[b] = Closing(d, r) BY <1>4, <1>5, TagIs
<1>7. ASSUME NEW i \in DOMAIN e PROVE i \in a .. b <=> f[i] \in f[a] .. f[b]
  <2>1. (a <= i <=> f[a] <= f[i]) /\ (i <= b <=> f[i] <= f[b]) BY <1>3, EmbedsOrder
  <2>2. i \in Int /\ a \in Int /\ b \in Int BY <1>3, SeqFacts
  <2>3. f[i] \in Int /\ f[a] \in Int /\ f[b] \in Int BY <1>3, SeqFacts DEF Embeds
  <2> QED BY <2>1, <2>2, <2>3
<1> QED BY <1>6, <1>7 DEF a, b, Range_

LEMMA EmbedsInside ==
  ASSUME NEW f, NEW e, NEW d, IsSeq(e), IsSeq(d), WellNested(d), Embeds(f, e, d),
         NEW r \in Elements(e), NEW s \in Elements(e)
  PROVE  Inside(e, s, r) <=> Inside(d, s, r)
<1>1. Opening(e, s) \in DOMAIN e
  <2>1. WellNested(e) BY EmbedsNested
  <2> QED BY <2>1, Tags DEF At
<1>2. f[Opening(e, s)] = Opening(d, s) BY EmbedsElement
<1> QED BY <1>1, <1>2, EmbedsElement DEF Inside

-----------------------------------------------------------------------------
(* Settling one revision: its element goes, or only its tags. *)

Image(f, e) == {f[i] : i \in DOMAIN e}

LEMMA PlainToken ==
  ASSUME NEW t, IsToken(t)
  PROVE  /\ IsToken(Plain(t)) /\ Plain(t).tag = t.tag /\ Plain(t).par = t.par
         /\ t.tag \in {"open", "close", "mark"} => Plain(t).rev = t.rev
         /\ t.tag = "text" => Plain(t).text = t.text
<1>1. CASE t.tag = "text"
  <2> DEFINE p == [t EXCEPT !.form = "t"]
  <2>1. Plain(t) = p BY <1>1 DEF Plain
  <2>2. DOMAIN p = DOMAIN t /\ \A x \in DOMAIN t \ {"form"} : p[x] = t[x] OBVIOUS
  <2>3. "tag" \in DOMAIN t /\ "par" \in DOMAIN t /\ "text" \in DOMAIN t BY <1>1 DEF IsToken
  <2>4. p.tag = t.tag /\ p.par = t.par /\ p.text = t.text BY <2>2, <2>3
  <2>5. DOMAIN p = DOMAIN t BY <2>2
  <2> HIDE DEF p
  <2>6. IsToken(p) BY <1>1, <2>4, <2>5 DEF IsToken
  <2> QED BY <1>1, <2>1, <2>4, <2>6
<1>2. CASE t.tag # "text" BY <1>2 DEF Plain
<1> QED BY <1>1, <1>2

LEMMA RemovedEmbeds ==
  ASSUME NEW d, WellFormed(d), NEW r \in Elements(d)
  PROVE  LET e == Removed(d, r)
         IN  /\ IsSeq(e) /\ \A i \in DOMAIN e : IsToken(e[i])
             /\ \E f : Embeds(f, e, d) /\ Image(f, e) = DOMAIN d \ Range_(d, r)
<1> DEFINE a == Opening(d, r)  b == Closing(d, r)  e == Removed(d, r)
           f == [i \in DOMAIN e |-> IF i < a THEN i ELSE i + (b - a + 1)]
<1>1. IsSeq(d) /\ WellNested(d) /\ \A i \in DOMAIN d : IsToken(d[i]) BY DEF WellFormed, IsSeq
<1>2. /\ a \in 1 .. Len(d) /\ b \in 1 .. Len(d) /\ Len(d) \in Nat /\ a < b
      /\ DOMAIN d = 1 .. Len(d)
  BY <1>1, TagsInOrder, SeqFacts
<1> HIDE DEF a, b
<1>3. e = Splice(d, a - 1, <<>>, b + 1)
  <2>1. IsSeq(SubSeq(d, 1, a - 1))
    <3>1. a - 1 \in Nat /\ a - 1 <= Len(d) /\ 1 <= (a - 1) + 1 BY <1>2
    <3> QED BY <1>1, <3>1, SubAt
  <2>2. SubSeq(d, 1, a - 1) \o <<>> = SubSeq(d, 1, a - 1)
    BY <2>1 DEF IsSeq
  <2> QED BY <2>2 DEF Removed, Splice, a, b
<1> HIDE DEF e
<1>4. IsSeq(<<>>) /\ Len(<<>>) = 0 BY DEF IsSeq
<1>5. /\ IsSeq(e) /\ Len(e) = Len(d) - (b - a + 1) /\ DOMAIN e = 1 .. Len(e)
      /\ \A i \in 1 .. a - 1 : e[i] = d[i]
      /\ \A i \in a .. Len(e) : e[i] = d[i + (b - a + 1)]
  <2>1. a - 1 \in Nat /\ b + 1 \in Nat /\ a - 1 < b + 1 /\ b + 1 <= Len(d) + 1 BY <1>2
  <2>2. /\ IsSeq(e) /\ Len(e) = a - 1 + 0 + Len(d) - (b + 1) + 1
        /\ \A i \in 1 .. a - 1 : e[i] = d[i]
        /\ \A i \in a - 1 + 0 + 1 .. Len(e) : e[i] = d[i - (a - 1) - 0 + (b + 1) - 1]
    <3>1. IsSplice(e, d, a - 1, <<>>, b + 1) BY <1>1, <1>3, <1>4, <2>1, SpliceAt
    <3> QED BY <1>4, <3>1 DEF IsSplice
  <2>3. Len(e) = Len(d) - (b - a + 1) /\ a - 1 + 0 + 1 = a BY <1>2, <2>2
  <2>4. \A i \in a .. Len(e) : i - (a - 1) - 0 + (b + 1) - 1 = i + (b - a + 1) BY <1>2, <2>3
  <2> QED BY <2>2, <2>3, <2>4, SeqFacts
<1>6. \A i \in DOMAIN e : f[i] \in DOMAIN d \ (a .. b) /\ e[i] = d[f[i]]
  <2> TAKE i \in DOMAIN e
  <2>1. i \in 1 .. Len(e) /\ Len(e) \in Nat BY <1>2, <1>5
  <2>2. CASE i < a
    <3>1. f[i] = i BY <2>2
    <3>2. i \in 1 .. a - 1 BY <1>2, <2>1, <2>2
    <3>3. e[i] = d[i] BY <1>5, <3>2
    <3>4. i \in 1 .. Len(d) /\ i \notin a .. b BY <1>2, <3>2
    <3> QED BY <1>2, <3>1, <3>3, <3>4
  <2>3. CASE ~(i < a)
    <3>1. f[i] = i + (b - a + 1) BY <2>3
    <3>2. i \in a .. Len(e) BY <1>2, <2>1, <2>3
    <3>3. e[i] = d[i + (b - a + 1)] BY <1>5, <3>2
    <3>4. i + (b - a + 1) \in 1 .. Len(d) /\ i + (b - a + 1) \notin a .. b BY <1>2, <1>5, <3>2
    <3> QED BY <1>2, <3>1, <3>3, <3>4
  <2> QED BY <2>2, <2>3
<1>7. \A i, j \in DOMAIN e : i < j => f[i] < f[j]
  <2> SUFFICES ASSUME NEW i \in DOMAIN e, NEW j \in DOMAIN e, i < j  PROVE f[i] < f[j]
    OBVIOUS
  <2>1. i \in Int /\ j \in Int BY <1>2, <1>5
  <2>2. f[i] = (IF i < a THEN i ELSE i + (b - a + 1)) /\ f[j] = (IF j < a THEN j ELSE j + (b - a + 1))
    OBVIOUS
  <2> QED BY <1>2, <2>1, <2>2
<1>8. \A j \in DOMAIN d \ (a .. b) : \E i \in DOMAIN e : f[i] = j
  <2> TAKE j \in DOMAIN d \ (a .. b)
  <2>1. CASE j < a
    <3>1. j \in DOMAIN e /\ f[j] = j BY <1>2, <1>5, <2>1
    <3> QED BY <3>1
  <2>2. CASE ~(j < a)
    <3>1. j - (b - a + 1) \in DOMAIN e /\ ~(j - (b - a + 1) < a) BY <1>2, <1>5, <2>2
    <3>2. f[j - (b - a + 1)] = j BY <1>2, <3>1
    <3> QED BY <3>1, <3>2
  <2> QED BY <2>1, <2>2
<1> HIDE DEF f
<1>9. ASSUME NEW i \in At(e, {"open", "close"}), NEW j \in At(d, {"open", "close"}),
             d[j].rev = e[i].rev
      PROVE  \E k \in DOMAIN e : f[k] = j
  <2> DEFINE s == d[j].rev
  <2>1. i \in DOMAIN e /\ f[i] \in DOMAIN d \ (a .. b) /\ d[f[i]].rev = s
    BY <1>6, <1>9 DEF At
  <2>2. f[i] \in At(d, {"open", "close"}) BY <1>6, <2>1 DEF At
  <2>3. \A x \in At(d, {"open", "close"}) : x \in At(d, {"open"}) \/ x \in At(d, {"close"})
    BY DEF At
  <2>4. s \in Elements(d) /\ f[i] \in {Opening(d, s), Closing(d, s)} /\ j \in {Opening(d, s), Closing(d, s)}
    BY <1>1, <2>1, <2>2, <2>3, TagIs
  <2> HIDE DEF s
  <2>5. s # r
    <3> SUFFICES ASSUME s = r PROVE FALSE OBVIOUS
    <3>1. f[i] = a \/ f[i] = b BY <2>4 DEF a, b
    <3> QED BY <1>2, <2>1, <3>1
  <2>6. /\ Opening(d, s) \in Int /\ Closing(d, s) \in Int /\ Opening(d, s) < Closing(d, s)
        /\ \/ a < Opening(d, s) /\ Closing(d, s) < b
           \/ Opening(d, s) < a /\ b < Closing(d, s)
           \/ b < Opening(d, s)
           \/ Closing(d, s) < a
    BY <1>1, <2>4, <2>5, Beside, TagsInOrder DEF a, b
  <2>7. j \in DOMAIN d BY DEF At
  <2>8. j \notin a .. b BY <1>2, <2>1, <2>4, <2>6
  <2> QED BY <1>8, <2>7, <2>8
<1>10. Embeds(f, e, d) BY <1>6, <1>7, <1>9 DEF Embeds
<1>11. Image(f, e) = DOMAIN d \ Range_(d, r) BY <1>6, <1>8 DEF Image, Range_, a, b
<1>12. \A i \in DOMAIN e : IsToken(e[i]) BY <1>1, <1>6
<1> QED BY <1>5, <1>10, <1>11, <1>12 DEF e

LEMMA UnwrappedEmbeds ==
  ASSUME NEW d, WellFormed(d), NEW r \in Elements(d), NEW rejecting
  PROVE  LET e == Unwrapped(d, r, rejecting)
         IN  /\ IsSeq(e) /\ \A i \in DOMAIN e : IsToken(e[i])
             /\ \E f : /\ Embeds(f, e, d)
                       /\ Image(f, e) = DOMAIN d \ {Opening(d, r), Closing(d, r)}
<1> DEFINE a == Opening(d, r)  b == Closing(d, r)  e == Unwrapped(d, r, rejecting)
           body == SubSeq(d, a + 1, b - 1)
           m == IF rejecting THEN [k \in DOMAIN body |-> Plain(body[k])] ELSE body
           f == [i \in DOMAIN e |-> IF i < a THEN i ELSE IF i < b - 1 THEN i + 1 ELSE i + 2]
           Same(t, u) == /\ IsToken(t) /\ t.tag = u.tag /\ t.par = u.par
                         /\ u.tag \in {"open", "close", "mark"} => t.rev = u.rev
                         /\ u.tag = "text" => t.text = u.text
<1>1. IsSeq(d) /\ WellNested(d) /\ \A i \in DOMAIN d : IsToken(d[i]) BY DEF WellFormed, IsSeq
<1>2. /\ a \in 1 .. Len(d) /\ b \in 1 .. Len(d) /\ Len(d) \in Nat /\ a < b
      /\ DOMAIN d = 1 .. Len(d)
  BY <1>1, TagsInOrder, SeqFacts
<1>3. e = Splice(d, a - 1, m, b + 1) BY DEF Unwrapped, Splice
<1> HIDE DEF a, b, e
<1>4. /\ IsSeq(m) /\ Len(m) = b - a - 1
      /\ \A i \in 1 .. b - a - 1 : Same(m[i], d[i + a])
  <2>1. /\ IsSeq(body) /\ Len(body) = b - a - 1
        /\ \A i \in 1 .. b - a - 1 : body[i] = d[i + a]
    <3>1. a + 1 \in Nat \ {0} /\ b - 1 \in Nat /\ b - 1 <= Len(d) /\ a + 1 <= (b - 1) + 1 BY <1>2
    <3>2. /\ IsSeq(body) /\ Len(body) = (b - 1) - (a + 1) + 1
          /\ \A i \in 1 .. (b - 1) - (a + 1) + 1 : body[i] = d[i + (a + 1) - 1]
      BY <1>1, <3>1, SubAt
    <3>3. (b - 1) - (a + 1) + 1 = b - a - 1 /\ \A i \in Int : i + (a + 1) - 1 = i + a BY <1>2
    <3> HIDE DEF body
    <3> QED BY <3>2, <3>3
  <2>2. \A i \in 1 .. b - a - 1 : IsToken(body[i])
    <3>1. \A i \in 1 .. b - a - 1 : i + a \in DOMAIN d BY <1>2
    <3> QED BY <1>1, <2>1, <3>1
  <2> HIDE DEF body
  <2>3. DOMAIN body = 1 .. b - a - 1 /\ b - a - 1 \in Nat BY <1>2, <2>1, SeqFacts
  <2>4. CASE rejecting
    <3>1. m = [k \in 1 .. b - a - 1 |-> Plain(body[k])] BY <2>3, <2>4
    <3>2. m = [k \in 1 .. b - a - 1 |-> m[k]] BY <3>1
    <3>3. \A i \in 1 .. b - a - 1 : m[i] = Plain(body[i]) BY <3>1
    <3> HIDE DEF m
    <3>4. IsSeq(m) /\ Len(m) = b - a - 1 BY <2>3, <3>2, SeqByPositions
    <3>5. \A i \in 1 .. b - a - 1 : Same(m[i], body[i]) BY <2>2, <3>3, PlainToken
    <3> QED BY <2>1, <3>4, <3>5
  <2>5. CASE ~rejecting
    <3>1. m = body BY <2>5
    <3> HIDE DEF m
    <3> QED BY <2>1, <2>2, <3>1
  <2> QED BY <2>4, <2>5
<1> HIDE DEF m
<1>5. /\ IsSeq(e) /\ Len(e) = Len(d) - 2 /\ DOMAIN e = 1 .. Len(e)
      /\ \A i \in 1 .. a - 1 : e[i] = d[i]
      /\ \A i \in a .. b - 2 : e[i] = m[i - (a - 1)]
      /\ \A i \in b - 1 .. Len(e) : e[i] = d[i + 2]
  <2>1. a - 1 \in Nat /\ b + 1 \in Nat /\ a - 1 < b + 1 /\ b + 1 <= Len(d) + 1 BY <1>2
  <2>2. /\ IsSeq(e) /\ Len(e) = a - 1 + Len(m) + Len(d) - (b + 1) + 1
        /\ \A i \in 1 .. a - 1 : e[i] = d[i]
        /\ \A i \in a - 1 + 1 .. a - 1 + Len(m) : e[i] = m[i - (a - 1)]
        /\ \A i \in a - 1 + Len(m) + 1 .. Len(e) : e[i] = d[i - (a - 1) - Len(m) + (b + 1) - 1]
    <3>1. IsSplice(e, d, a - 1, m, b + 1) BY <1>1, <1>3, <1>4, <2>1, SpliceAt
    <3> QED BY <3>1 DEF IsSplice
  <2>3. Len(e) = Len(d) - 2 /\ a - 1 + 1 = a /\ a - 1 + Len(m) = b - 2 /\ a - 1 + Len(m) + 1 = b - 1
    BY <1>2, <1>4, <2>2
  <2>4. \A i \in b - 1 .. Len(e) : i - (a - 1) - Len(m) + (b + 1) - 1 = i + 2 BY <1>2, <1>4, <2>3
  <2> QED BY <2>2, <2>3, <2>4, SeqFacts
<1>6. ASSUME NEW i \in DOMAIN e
      PROVE  f[i] \in DOMAIN d \ {a, b} /\ Same(e[i], d[f[i]])
  <2>1. f[i] \in DOMAIN d \ {a, b} BY <1>2, <1>5
  <2>2. CASE i < a
    <3>1. e[i] = d[i] /\ f[i] = i BY <1>2, <1>5, <2>2
    <3> QED BY <1>1, <2>1, <3>1
  <2>3. CASE ~(i < a) /\ i < b - 1
    <3>1. i \in a .. b - 2 /\ i - (a - 1) \in 1 .. b - a - 1 /\ (i - (a - 1)) + a = i + 1
      BY <1>2, <1>5, <2>3
    <3>2. e[i] = m[i - (a - 1)] /\ f[i] = i + 1 BY <1>5, <2>3, <3>1
    <3>3. Same(m[i - (a - 1)], d[(i - (a - 1)) + a]) BY <1>4, <3>1
    <3> HIDE DEF Same
    <3> QED BY <2>1, <3>1, <3>2, <3>3
  <2>4. CASE ~(i < a) /\ ~(i < b - 1)
    <3>1. e[i] = d[i + 2] /\ f[i] = i + 2 BY <1>2, <1>5, <2>4
    <3> QED BY <1>1, <2>1, <3>1
  <2> QED BY <2>2, <2>3, <2>4
<1>7. \A i, j \in DOMAIN e : i < j => f[i] < f[j] BY <1>2, <1>5
<1>8. \A j \in DOMAIN d \ {a, b} : \E i \in DOMAIN e : f[i] = j
  <2> TAKE j \in DOMAIN d \ {a, b}
  <2>1. CASE j < a
    <3>1. j \in DOMAIN e /\ f[j] = j BY <1>2, <1>5, <2>1
    <3> QED BY <3>1
  <2>2. CASE a < j /\ j < b
    <3>1. j - 1 \in DOMAIN e /\ ~(j - 1 < a) /\ j - 1 < b - 1 BY <1>2, <1>5, <2>2
    <3>2. f[j - 1] = j BY <1>2, <3>1
    <3> QED BY <3>1, <3>2
  <2>3. CASE b < j
    <3>1. j - 2 \in DOMAIN e /\ ~(j - 2 < a) /\ ~(j - 2 < b - 1) BY <1>2, <1>5, <2>3
    <3>2. f[j - 2] = j BY <1>2, <3>1
    <3> QED BY <3>1, <3>2
  <2> QED BY <1>2, <2>1, <2>2, <2>3
<1> HIDE DEF f
<1>9. ASSUME NEW i \in At(e, {"open", "close"}), NEW j \in At(d, {"open", "close"}),
             d[j].rev = e[i].rev
      PROVE  \E k \in DOMAIN e : f[k] = j
  <2> DEFINE s == d[j].rev
  <2>1. /\ i \in DOMAIN e /\ f[i] \in DOMAIN d \ {a, b} /\ d[f[i]].rev = s
        /\ f[i] \in At(d, {"open", "close"})
    BY <1>6, <1>9 DEF At
  <2>3. \A x \in At(d, {"open", "close"}) : x \in At(d, {"open"}) \/ x \in At(d, {"close"})
    BY DEF At
  <2>4. s \in Elements(d) /\ f[i] \in {Opening(d, s), Closing(d, s)} /\ j \in {Opening(d, s), Closing(d, s)}
    BY <1>1, <2>1, <2>3, TagIs
  <2> HIDE DEF s
  <2>5. s # r BY <2>1, <2>4 DEF a, b
  <2>6. j \notin {a, b} BY <1>1, <2>4, <2>5, Beside DEF a, b
  <2>7. j \in DOMAIN d BY DEF At
  <2> QED BY <1>8, <2>6, <2>7
<1>10. Embeds(f, e, d)
  <2>1. \A i \in DOMAIN e : /\ e[i].tag = d[f[i]].tag /\ e[i].par = d[f[i]].par
                            /\ e[i].tag \in {"open", "close", "mark"} => e[i].rev = d[f[i]].rev
                            /\ e[i].tag = "text" => e[i].text = d[f[i]].text
    BY <1>6
  <2> QED BY <1>6, <1>7, <1>9, <2>1 DEF Embeds
<1>11. Image(f, e) = DOMAIN d \ {a, b} BY <1>6, <1>8 DEF Image
<1>12. \A i \in DOMAIN e : IsToken(e[i]) BY <1>6
<1> QED BY <1>5, <1>10, <1>11, <1>12 DEF a, b, e

-----------------------------------------------------------------------------
(* The tokens at a set of positions. *)

\* The last of a set of positions that reaches n.
LEMMA LastOf ==
  ASSUME NEW n \in Nat, NEW s \in SUBSET (1 .. n), n \in s
  PROVE  Max(s) = n
<1>1. \A y \in s : n >= y OBVIOUS
<1>2. \A x \in s : (\A y \in s : x >= y) => x = n OBVIOUS
<1> QED BY <1>1, <1>2 DEF Max

\* The function the fold of Pick defines.
Same(d) == [i \in DOMAIN d |-> i]
Keeps(f, d, P) ==
  f = [s \in SUBSET DOMAIN Same(d) |->
        IF s = {} THEN <<>>
        ELSE IF Same(d)[Max(s)] \in P THEN Append(f[s \ {Max(s)}], d[Same(d)[Max(s)]])
        ELSE f[s \ {Max(s)}]]
Kept(f, d, P, n) ==
  f = [s \in SUBSET (1 .. n) |->
        IF s = {} THEN <<>>
        ELSE IF Max(s) \in P THEN Append(f[s \ {Max(s)}], d[Max(s)])
        ELSE f[s \ {Max(s)}]]

LEMMA KeptExists ==
  ASSUME NEW d, NEW P
  PROVE  \A n \in Nat : \E f : Kept(f, d, P, n)
<1> DEFINE S == {n \in Nat : \E f : Kept(f, d, P, n)}
<1>1. 0 \in S
  <2>1. \A s \in SUBSET (1 .. 0) : s = {} OBVIOUS
  <2>2. Kept([s \in SUBSET (1 .. 0) |-> <<>>], d, P, 0) BY <2>1 DEF Kept
  <2> QED BY <2>2
<1>2. ASSUME NEW n \in Nat, n \in S PROVE n + 1 \in S
  <2>1. PICK f : Kept(f, d, P, n) BY <1>2
  <2> DEFINE g == [s \in SUBSET (1 .. n + 1) |->
                    IF n + 1 \in s
                    THEN IF n + 1 \in P THEN Append(f[s \ {n + 1}], d[n + 1]) ELSE f[s \ {n + 1}]
                    ELSE f[s]]
  <2>2. ASSUME NEW s \in SUBSET (1 .. n + 1)
        PROVE  g[s] = IF s = {} THEN <<>>
                      ELSE IF Max(s) \in P THEN Append(g[s \ {Max(s)}], d[Max(s)])
                      ELSE g[s \ {Max(s)}]
    <3>1. CASE n + 1 \in s
      <4>1. n + 1 \in Nat /\ Max(s) = n + 1 BY <3>1, LastOf
      <4>2. s \ {n + 1} \in SUBSET (1 .. n + 1) /\ n + 1 \notin s \ {n + 1} OBVIOUS
      <4>3. g[s \ {n + 1}] = f[s \ {n + 1}] BY <4>2
      <4>4. g[s] = IF n + 1 \in P THEN Append(f[s \ {n + 1}], d[n + 1]) ELSE f[s \ {n + 1}]
        BY <3>1
      <4> HIDE DEF g
      <4> QED BY <3>1, <4>1, <4>3, <4>4
    <3>2. CASE n + 1 \notin s
      <4>1. s \in SUBSET (1 .. n) BY <3>2
      <4>2. g[s] = f[s] BY <3>2
      <4>3. f[s] = IF s = {} THEN <<>>
                   ELSE IF Max(s) \in P THEN Append(f[s \ {Max(s)}], d[Max(s)])
                   ELSE f[s \ {Max(s)}]
        BY <2>1, <4>1 DEF Kept
      <4>4. s \ {Max(s)} \in SUBSET (1 .. n + 1) /\ n + 1 \notin s \ {Max(s)} BY <3>2
      <4>5. g[s \ {Max(s)}] = f[s \ {Max(s)}] BY <4>4
      <4> HIDE DEF g
      <4> QED BY <4>2, <4>3, <4>5
    <3> QED BY <3>1, <3>2
  <2>3. g = [s \in SUBSET (1 .. n + 1) |-> g[s]] OBVIOUS
  <2> HIDE DEF g
  <2>4. Kept(g, d, P, n + 1) BY <2>2, <2>3 DEF Kept
  <2> QED BY <2>4
<1> HIDE DEF S
<1>3. Nat \subseteq S BY <1>1, <1>2, Induction
<1> QED BY <1>3 DEF S

\* One position after the other, those of P are kept.
Takes(g, d, P) ==
  /\ g[0] = <<>>
  /\ \A k \in 1 .. Len(d) : g[k] = IF k \in P THEN Append(g[k - 1], d[k]) ELSE g[k - 1]
  /\ Pick(d, P) = g[Len(d)]
LEMMA PickTakes ==
  ASSUME NEW d, IsSeq(d), NEW P
  PROVE  \E g : Takes(g, d, P)
<1> DEFINE n == Len(d)
           F == CHOOSE f : Keeps(f, d, P)
           g == [k \in 0 .. n |-> F[1 .. k]]
<1>1. n \in Nat /\ DOMAIN d = 1 .. n BY SeqFacts
<1>2. \A f : Keeps(f, d, P) <=> Kept(f, d, P, n)
  <2> TAKE f
  <2>1. DOMAIN Same(d) = 1 .. n BY <1>1 DEF Same
  <2>2. \A s \in SUBSET (1 .. n) : s # {} => Max(s) \in 1 .. n /\ Same(d)[Max(s)] = Max(s)
    <3> SUFFICES ASSUME NEW s \in SUBSET (1 .. n), s # {}
                 PROVE  Max(s) \in s
      BY <1>1 DEF Same
    <3>1. \E m \in s : \A k \in s : m >= k
      <4> DEFINE T == {n - k : k \in s}
      <4>1. T \subseteq Nat /\ T # {}
        <5>1. \A k \in s : n - k \in Nat BY <1>1
        <5>2. PICK k \in s : TRUE OBVIOUS
        <5>3. n - k \in T OBVIOUS
        <5> QED BY <5>1, <5>3
      <4>2. PICK t \in T : \A u \in T : t <= u
        <5> HIDE DEF T
        <5> QED BY <4>1, Least
      <4>3. PICK m \in s : t = n - m OBVIOUS
      <4>4. ASSUME NEW k \in s PROVE m >= k
        <5>1. n - m <= n - k BY <4>2, <4>3
        <5> QED BY <1>1, <5>1
      <4> QED BY <4>4
    <3> QED BY <3>1 DEF Max
  <2> DEFINE body1(s) == IF s = {} THEN <<>>
                         ELSE IF Same(d)[Max(s)] \in P THEN Append(f[s \ {Max(s)}], d[Same(d)[Max(s)]])
                         ELSE f[s \ {Max(s)}]
             body2(s) == IF s = {} THEN <<>>
                         ELSE IF Max(s) \in P THEN Append(f[s \ {Max(s)}], d[Max(s)])
                         ELSE f[s \ {Max(s)}]
  <2>3. \A s \in SUBSET (1 .. n) : body1(s) = body2(s) BY <2>2
  <2>4. Keeps(f, d, P) <=> f = [s \in SUBSET (1 .. n) |-> body1(s)] BY <2>1 DEF Keeps
  <2>5. Kept(f, d, P, n) <=> f = [s \in SUBSET (1 .. n) |-> body2(s)] BY DEF Kept
  <2> HIDE DEF body1, body2
  <2> QED BY <2>3, <2>4, <2>5
<1>3. Kept(F, d, P, n)
  <2>1. \E f : Keeps(f, d, P) BY <1>1, <1>2, KeptExists
  <2> QED BY <1>2, <2>1
<1>4. Pick(d, P) = F[1 .. n]
  <2>1. Pick(d, P) = F[DOMAIN Same(d)]
    BY DEF Pick, FoldLeftDomain, FoldLeft, MapThenFoldSet, Keeps, Same
  <2> QED BY <1>1, <2>1 DEF Same
<1> HIDE DEF F, n
<1>5. g[0] = <<>>
  <2>1. 1 .. 0 = {} /\ {} \in SUBSET (1 .. n) OBVIOUS
  <2>2. F[{}] = <<>> BY <1>3, <2>1 DEF Kept
  <2> QED BY <1>1, <2>1, <2>2
<1>6. ASSUME NEW k \in 1 .. n
      PROVE  g[k] = IF k \in P THEN Append(g[k - 1], d[k]) ELSE g[k - 1]
  <2>1. 1 .. k \in SUBSET (1 .. n) /\ k \in 1 .. k /\ k \in Nat /\ k - 1 \in 0 .. n /\ k \in 0 .. n
    BY <1>1
  <2>2. Max(1 .. k) = k
    <3>1. 1 .. k \in SUBSET (1 .. k) OBVIOUS
    <3> QED BY <2>1, <3>1, LastOf
  <2>3. (1 .. k) \ {k} = 1 .. k - 1 BY <1>1
  <2>4. F[1 .. k] = IF k \in P THEN Append(F[1 .. k - 1], d[k]) ELSE F[1 .. k - 1]
    BY <1>3, <2>1, <2>2, <2>3 DEF Kept
  <2>5. g[k] = F[1 .. k] /\ g[k - 1] = F[1 .. k - 1] BY <2>1
  <2> HIDE DEF g
  <2> QED BY <2>4, <2>5
<1>7. g[n] = F[1 .. n] BY <1>1
<1> HIDE DEF g
<1>8. Takes(g, d, P) BY <1>4, <1>5, <1>6, <1>7 DEF Takes, n
<1> QED BY <1>8

\* g counts the members of P in order, m of them.
Lists(g, m, P) ==
  /\ \A k \in 1 .. m : g[k] \in P
  /\ \A p \in P : \E k \in 1 .. m : g[k] = p
  /\ \A k, l \in 1 .. m : k < l => g[k] < g[l]

LEMMA ListsUnique ==
  ASSUME NEW P, P \subseteq Int, NEW m \in Nat, NEW l \in Nat, NEW g, NEW h,
         Lists(g, m, P), Lists(h, l, P), m <= l
  PROVE  m = l /\ \A k \in 1 .. m : g[k] = h[k]
<1> DEFINE D == {k \in 1 .. m : g[k] # h[k]}
<1>1. D = {}
  <2> SUFFICES ASSUME D # {} PROVE FALSE OBVIOUS
  <2>1. PICK k \in D : \A j \in D : k <= j
    <3>1. D \subseteq Nat OBVIOUS
    <3> HIDE DEF D
    <3> QED BY <3>1, Least
  <2>2. k \in 1 .. m /\ k \in 1 .. l /\ g[k] # h[k] OBVIOUS
  <2>3. \A j \in 1 .. m : j < k => g[j] = h[j]
    <3> TAKE j \in 1 .. m
    <3> HAVE j < k
    <3>1. j \notin D BY <2>1
    <3> QED BY <3>1
  <2>4. g[k] \in P /\ h[k] \in P BY <2>2 DEF Lists
  <2>5. PICK x \in 1 .. l : h[x] = g[k] BY <2>4 DEF Lists
  <2>6. PICK y \in 1 .. m : g[y] = h[k] BY <2>4 DEF Lists
  <2>7. ~(x < k)
    <3> SUFFICES ASSUME x < k PROVE FALSE OBVIOUS
    <3>1. x \in 1 .. m /\ g[x] = h[x] BY <2>2, <2>3
    <3>2. g[x] < g[k] BY <2>2, <3>1 DEF Lists
    <3>3. g[k] \in Int BY <2>4
    <3> QED BY <2>5, <3>1, <3>2, <3>3
  <2>8. ~(y < k)
    <3> SUFFICES ASSUME y < k PROVE FALSE OBVIOUS
    <3>1. y \in 1 .. l /\ g[y] = h[y] BY <2>2, <2>3
    <3>2. h[y] < h[k] BY <2>2, <3>1 DEF Lists
    <3>3. h[k] \in Int BY <2>4
    <3> QED BY <2>6, <3>1, <3>2, <3>3
  <2>9. x # k /\ y # k BY <2>2, <2>5, <2>6
  <2>10. k < x /\ k < y BY <2>2, <2>7, <2>8, <2>9
  <2>11. h[k] < g[k] BY <2>2, <2>5, <2>10 DEF Lists
  <2>12. g[k] < h[k] BY <2>2, <2>6, <2>10 DEF Lists
  <2>13. g[k] \in Int /\ h[k] \in Int BY <2>4
  <2> QED BY <2>11, <2>12, <2>13
<1>2. \A k \in 1 .. m : g[k] = h[k] BY <1>1
<1>3. m = l
  <2> SUFFICES ASSUME m < l PROVE FALSE OBVIOUS
  <2>1. m + 1 \in 1 .. l OBVIOUS
  <2>2. h[m + 1] \in P BY <2>1 DEF Lists
  <2>3. PICK k \in 1 .. m : g[k] = h[m + 1] BY <2>2 DEF Lists
  <2>4. h[k] = h[m + 1] BY <1>2, <2>3
  <2>5. k \in 1 .. l /\ k < m + 1 OBVIOUS
  <2>6. h[k] < h[m + 1] BY <2>1, <2>5 DEF Lists
  <2>7. h[m + 1] \in Int BY <2>2
  <2> QED BY <2>4, <2>6, <2>7
<1> QED BY <1>2, <1>3

\* Pick gives the tokens at the positions, in order.
Picked(u, d, P) ==
  \E m \in Nat : \E g : Lists(g, m, P) /\ u = [k \in 1 .. m |-> d[g[k]]]
LEMMA PickLists ==
  ASSUME NEW d, IsSeq(d), NEW P \in SUBSET DOMAIN d
  PROVE  Picked(Pick(d, P), d, P)
<1>1. PICK t : Takes(t, d, P) BY PickTakes
<1>2. Len(d) \in Nat /\ DOMAIN d = 1 .. Len(d) BY SeqFacts
<1> DEFINE S == {j \in Nat : j <= Len(d) => Picked(t[j], d, P \intersect (1 .. j))}
<1>3. 0 \in S
  <2>1. P \intersect (1 .. 0) = {} OBVIOUS
  <2>2. Lists(<<>>, 0, P \intersect (1 .. 0)) BY <2>1 DEF Lists
  <2>3. t[0] = [k \in 1 .. 0 |-> d[<<>>[k]]]
    <3>1. t[0] = <<>> BY <1>1 DEF Takes
    <3>2. <<>> = [k \in 1 .. 0 |-> d[<<>>[k]]] OBVIOUS
    <3> QED BY <3>1, <3>2
  <2>4. Picked(t[0], d, P \intersect (1 .. 0)) BY <2>2, <2>3 DEF Picked
  <2> QED BY <2>4
<1>4. ASSUME NEW j \in Nat, j \in S PROVE j + 1 \in S
  <2> SUFFICES ASSUME j + 1 <= Len(d)
               PROVE  Picked(t[j + 1], d, P \intersect (1 .. j + 1))
    OBVIOUS
  <2>1. Picked(t[j], d, P \intersect (1 .. j)) BY <1>2, <1>4
  <2>9. PICK m \in Nat :
          \E g : Lists(g, m, P \intersect (1 .. j)) /\ t[j] = [k \in 1 .. m |-> d[g[k]]]
    BY <2>1 DEF Picked
  <2>2. PICK g : Lists(g, m, P \intersect (1 .. j)) /\ t[j] = [k \in 1 .. m |-> d[g[k]]]
    BY <2>9
  <2> HIDE DEF S
  <2>3. j + 1 \in 1 .. Len(d) /\ (j + 1) - 1 = j BY <1>2
  <2>4. t[j + 1] = IF j + 1 \in P THEN Append(t[j], d[j + 1]) ELSE t[j]
    BY <1>1, <2>3 DEF Takes
  <2>5. CASE j + 1 \notin P
    <3>1. P \intersect (1 .. j + 1) = P \intersect (1 .. j) BY <2>5
    <3>2. t[j + 1] = t[j] BY <2>4, <2>5
    <3> QED BY <2>1, <3>1, <3>2
  <2>6. CASE j + 1 \in P
    <3> DEFINE h == [k \in 1 .. m + 1 |-> IF k = m + 1 THEN j + 1 ELSE g[k]]
    <3>1. P \intersect (1 .. j + 1) = (P \intersect (1 .. j)) \union {j + 1} BY <2>6
    <3>2. \A k \in 1 .. m : h[k] = g[k] /\ g[k] \in P \intersect (1 .. j)
      BY <2>2 DEF Lists
    <3>3. h[m + 1] = j + 1 OBVIOUS
    <3> HIDE DEF h
    <3>4. Lists(h, m + 1, P \intersect (1 .. j + 1))
      <4>1. \A k \in 1 .. m + 1 : h[k] \in P \intersect (1 .. j + 1) BY <3>1, <3>2, <3>3
      <4>2. ASSUME NEW p \in P \intersect (1 .. j + 1)
            PROVE  \E k \in 1 .. m + 1 : h[k] = p
        <5>1. CASE p = j + 1 BY <3>3, <5>1
        <5>2. CASE p # j + 1
          <6>1. PICK k \in 1 .. m : g[k] = p BY <2>2, <3>1, <5>2 DEF Lists
          <6> QED BY <3>2, <6>1
        <5> QED BY <5>1, <5>2
      <4>3. ASSUME NEW k \in 1 .. m + 1, NEW l \in 1 .. m + 1, k < l PROVE h[k] < h[l]
        <5>1. k \in 1 .. m BY <4>3
        <5>2. CASE l = m + 1 BY <3>2, <3>3, <5>1, <5>2
        <5>3. CASE l # m + 1
          <6>1. l \in 1 .. m BY <5>3
          <6>2. g[k] < g[l] BY <2>2, <4>3, <5>1, <6>1 DEF Lists
          <6> QED BY <3>2, <5>1, <6>1, <6>2
        <5> QED BY <5>2, <5>3
      <4> QED BY <4>1, <4>2, <4>3 DEF Lists
    <3>5. t[j + 1] = [k \in 1 .. m + 1 |-> d[h[k]]]
      <4> DEFINE u == [k \in 1 .. m |-> d[g[k]]]
      <4>1. t[j + 1] = Append(u, d[j + 1]) BY <2>2, <2>4, <2>6
      <4>2. IsSeq(u) /\ Len(u) = m
        <5>1. u = [k \in 1 .. m |-> u[k]] OBVIOUS
        <5> HIDE DEF u
        <5> QED BY <5>1, SeqByPositions
      <4>3. Append(u, d[j + 1]) = [k \in 1 .. m + 1 |-> IF k = m + 1 THEN d[j + 1] ELSE u[k]]
        <5> HIDE DEF u
        <5> QED BY <4>2 DEF IsSeq
      <4>4. \A k \in 1 .. m + 1 : (IF k = m + 1 THEN d[j + 1] ELSE u[k]) = d[h[k]]
        BY <3>2, <3>3
      <4> HIDE DEF u
      <4> QED BY <4>1, <4>3, <4>4
    <3>6. m + 1 \in Nat OBVIOUS
    <3> QED BY <3>4, <3>5, <3>6 DEF Picked
  <2> QED BY <2>5, <2>6
<1> HIDE DEF S
<1>5. Len(d) \in S
  <2>1. Nat \subseteq S BY <1>3, <1>4, Induction
  <2> QED BY <1>2, <2>1
<1>6. Picked(t[Len(d)], d, P \intersect (1 .. Len(d))) BY <1>2, <1>5 DEF S
<1>7. P \intersect (1 .. Len(d)) = P BY <1>2
<1> QED BY <1>1, <1>6, <1>7 DEF Takes

\* The same texts at corresponding positions make the same words.
LEMMA WordsAlike ==
  ASSUME NEW e, NEW d, IsSeq(e), IsSeq(d), NEW P \in SUBSET DOMAIN e, NEW Q \in SUBSET DOMAIN d,
         NEW f,
         \A i \in P : f[i] \in Q /\ e[i].text = d[f[i]].text,
         \A j \in Q : \E i \in P : f[i] = j,
         \A i, j \in P : i < j => f[i] < f[j]
  PROVE  Words(Pick(e, P)) = Words(Pick(d, Q))
<1>9. PICK m \in Nat : \E g : Lists(g, m, P) /\ Pick(e, P) = [k \in 1 .. m |-> e[g[k]]]
  BY PickLists DEF Picked
<1>1. PICK g : Lists(g, m, P) /\ Pick(e, P) = [k \in 1 .. m |-> e[g[k]]]
  BY <1>9
<1>10. PICK l \in Nat : \E h : Lists(h, l, Q) /\ Pick(d, Q) = [k \in 1 .. l |-> d[h[k]]]
  BY PickLists DEF Picked
<1>2. PICK h : Lists(h, l, Q) /\ Pick(d, Q) = [k \in 1 .. l |-> d[h[k]]]
  BY <1>10
<1> DEFINE fg == [k \in 1 .. m |-> f[g[k]]]
<1>3. Lists(fg, m, Q)
  <2>1. \A k \in 1 .. m : g[k] \in P /\ fg[k] = f[g[k]] BY <1>1 DEF Lists
  <2>2. \A k \in 1 .. m : fg[k] \in Q BY <2>1
  <2>3. \A q \in Q : \E k \in 1 .. m : fg[k] = q BY <1>1, <2>1 DEF Lists
  <2>4. \A k, x \in 1 .. m : k < x => fg[k] < fg[x] BY <1>1, <2>1 DEF Lists
  <2> HIDE DEF fg
  <2> QED BY <2>2, <2>3, <2>4 DEF Lists
<1>4. Q \subseteq Int BY SeqFacts
<1>5. m = l /\ \A k \in 1 .. m : fg[k] = h[k]
  <2> HIDE DEF fg
  <2>1. CASE m <= l BY <1>2, <1>3, <1>4, <2>1, ListsUnique
  <2>2. CASE l <= m
    <3>1. l = m /\ \A k \in 1 .. l : h[k] = fg[k] BY <1>2, <1>3, <1>4, <2>2, ListsUnique
    <3> QED BY <3>1
  <2> QED BY <2>1, <2>2
<1>6. \A k \in 1 .. m : e[g[k]].text = d[h[k]].text
  <2> TAKE k \in 1 .. m
  <2>1. g[k] \in P BY <1>1 DEF Lists
  <2>2. fg[k] = f[g[k]] OBVIOUS
  <2> QED BY <1>5, <2>1, <2>2
<1>7. Words(Pick(e, P)) = [k \in 1 .. m |-> e[g[k]].text] BY <1>1 DEF Words
<1>8. Words(Pick(d, Q)) = [k \in 1 .. l |-> d[h[k]].text] BY <1>2 DEF Words
<1> QED BY <1>5, <1>6, <1>7, <1>8

-----------------------------------------------------------------------------
(* What an embedded document says: the text of its paragraphs and elements. *)

Shown(d, p, hidden) ==
  {i \in At(d, {"text"}) :
     d[i].par = p /\ ~\E s \in Elements(d) : s.kind \in hidden /\ i \in Range_(d, s)}
Owned(d, r) ==
  {i \in At(d, {"text"}) :
     i \in Range_(d, r) /\ ~\E s \in Elements(d) : Inside(d, s, r) /\ i \in Range_(d, s)}

\* The view of a paragraph is kept if no text is lost that the view shows, and
\* none is left of an element that the view hides.
LEMMA ViewAlike ==
  ASSUME NEW f, NEW e, NEW d, IsSeq(e), IsSeq(d), WellNested(d), Embeds(f, e, d),
         NEW p, NEW hidden,
         \A j \in Shown(d, p, hidden) : \E i \in DOMAIN e : f[i] = j,
         \A i \in DOMAIN e, s \in Elements(d) :
           s.kind \in hidden /\ f[i] \in Range_(d, s) => s \in Elements(e)
  PROVE  View(e, p, hidden) = View(d, p, hidden)
<1> DEFINE P == Shown(e, p, hidden)
           Q == Shown(d, p, hidden)
<1>1. P \subseteq DOMAIN e /\ Q \subseteq DOMAIN d BY DEF Shown, At
<1>2. ASSUME NEW i \in DOMAIN e PROVE i \in P <=> f[i] \in Q
  <2>1. i \in At(e, {"text"}) <=> f[i] \in At(d, {"text"}) BY EmbedsTags
  <2>2. e[i].par = d[f[i]].par BY DEF Embeds
  <2>3. (\E s \in Elements(e) : s.kind \in hidden /\ i \in Range_(e, s))
          <=> (\E s \in Elements(d) : s.kind \in hidden /\ f[i] \in Range_(d, s))
    <3>1. \A s \in Elements(e) : s \in Elements(d) /\ (i \in Range_(e, s) <=> f[i] \in Range_(d, s))
      BY EmbedsElement
    <3> QED BY <3>1
  <2> QED BY <2>1, <2>2, <2>3 DEF Shown
<1>3. \A i \in P : e[i].text = d[f[i]].text BY DEF Embeds, Shown, At
<1>4. \A i, j \in P : i < j => f[i] < f[j] BY <1>1 DEF Embeds
<1>5. \A j \in Q : \E i \in P : f[i] = j BY <1>2
<1> HIDE DEF P, Q
<1>6. \A i \in P : f[i] \in Q /\ e[i].text = d[f[i]].text BY <1>1, <1>2, <1>3
<1>7. Words(Pick(e, P)) = Words(Pick(d, Q)) BY <1>1, <1>4, <1>5, <1>6, WordsAlike
<1> QED BY <1>7 DEF View, P, Q, Shown

\* So is the own text of an element.
LEMMA OwnAlike ==
  ASSUME NEW f, NEW e, NEW d, IsSeq(e), IsSeq(d), WellNested(d), Embeds(f, e, d),
         NEW r \in Elements(e),
         \A j \in Owned(d, r) : \E i \in DOMAIN e : f[i] = j,
         \A i \in DOMAIN e, s \in Elements(d) :
           Inside(d, s, r) /\ f[i] \in Range_(d, r) /\ f[i] \in Range_(d, s) => s \in Elements(e)
  PROVE  OwnText(e, r) = OwnText(d, r)
<1> DEFINE P == Owned(e, r)
           Q == Owned(d, r)
<1>1. P \subseteq DOMAIN e /\ Q \subseteq DOMAIN d BY DEF Owned, At
<1>2. ASSUME NEW i \in DOMAIN e PROVE i \in P <=> f[i] \in Q
  <2>1. i \in At(e, {"text"}) <=> f[i] \in At(d, {"text"}) BY EmbedsTags
  <2>2. i \in Range_(e, r) <=> f[i] \in Range_(d, r) BY EmbedsElement
  <2>3. ASSUME f[i] \in Range_(d, r)
        PROVE  (\E s \in Elements(e) : Inside(e, s, r) /\ i \in Range_(e, s))
                 <=> (\E s \in Elements(d) : Inside(d, s, r) /\ f[i] \in Range_(d, s))
    <3>1. \A s \in Elements(e) : s \in Elements(d) /\ (i \in Range_(e, s) <=> f[i] \in Range_(d, s))
      BY EmbedsElement
    <3>2. \A s \in Elements(e) : Inside(e, s, r) <=> Inside(d, s, r) BY EmbedsInside
    <3> QED BY <2>3, <3>1, <3>2
  <2> QED BY <2>1, <2>2, <2>3 DEF Owned
<1>3. \A i \in P : e[i].text = d[f[i]].text BY DEF Embeds, Owned, At
<1>4. \A i, j \in P : i < j => f[i] < f[j] BY <1>1 DEF Embeds
<1>5. \A j \in Q : \E i \in P : f[i] = j BY <1>2
<1> HIDE DEF P, Q
<1>6. \A i \in P : f[i] \in Q /\ e[i].text = d[f[i]].text BY <1>1, <1>2, <1>3
<1>7. Words(Pick(e, P)) = Words(Pick(d, Q)) BY <1>1, <1>4, <1>5, <1>6, WordsAlike
<1> QED BY <1>7 DEF OwnText, P, Q, Owned

-----------------------------------------------------------------------------
(* What settling leaves. *)

\* The positions that go.
Goes(d, r, action) ==
  IF Removes(r, action) THEN Range_(d, r) ELSE {Opening(d, r), Closing(d, r)}
Settles(f, e, d, r, action) ==
  /\ IsSeq(e) /\ \A i \in DOMAIN e : IsToken(e[i])
  /\ Embeds(f, e, d) /\ Image(f, e) = DOMAIN d \ Goes(d, r, action)

LEMMA SettledEmbeds ==
  ASSUME NEW d, WellFormed(d), NEW r \in Elements(d), NEW action
  PROVE  \E f : Settles(f, Settled(d, r, action), d, r, action)
<1>1. CASE Removes(r, action)
  <2>1. Settled(d, r, action) = Removed(d, r) /\ Goes(d, r, action) = Range_(d, r)
    BY <1>1 DEF Settled, Goes
  <2> QED BY <2>1, RemovedEmbeds DEF Settles
<1>2. CASE ~Removes(r, action)
  <2>1. /\ Settled(d, r, action) = Unwrapped(d, r, action = "reject")
        /\ Goes(d, r, action) = {Opening(d, r), Closing(d, r)}
    BY <1>2 DEF Settled, Goes
  <2> QED BY <2>1, UnwrappedEmbeds DEF Settles
<1> QED BY <1>1, <1>2

\* The elements that stay are those with tags that stay.
LEMMA SettlesElements ==
  ASSUME NEW f, NEW e, NEW d, WellFormed(d), NEW r \in Elements(d), NEW action,
         Settles(f, e, d, r, action)
  PROVE  /\ IsSeq(e) /\ IsSeq(d) /\ WellNested(d) /\ WellNested(e) /\ Embeds(f, e, d)
         /\ Elements(e) = {s \in Elements(d) \ {r} : ~(Removes(r, action) /\ Inside(d, s, r))}
         /\ r \notin Revisions(e) /\ Revisions(e) \subseteq Revisions(d)
<1>1. IsSeq(d) /\ WellNested(d) BY DEF WellFormed, IsSeq
<1>2. IsSeq(e) /\ Embeds(f, e, d) /\ Image(f, e) = DOMAIN d \ Goes(d, r, action) BY DEF Settles
<1>3. WellNested(e) BY <1>1, <1>2, EmbedsNested
<1>4. ASSUME NEW s \in Elements(e)
      PROVE  s \in Elements(d) \ {r} /\ ~(Removes(r, action) /\ Inside(d, s, r))
  <2>1. s \in Elements(d) /\ f[Opening(e, s)] = Opening(d, s) BY <1>1, <1>2, EmbedsElement
  <2>2. Opening(e, s) \in DOMAIN e BY <1>3, Tags DEF At
  <2>3. Opening(d, s) \notin Goes(d, r, action) BY <1>2, <2>1, <2>2 DEF Image
  <2>4. s # r
    <3> SUFFICES ASSUME s = r PROVE FALSE OBVIOUS
    <3>1. Opening(d, r) \in Range_(d, r) BY <1>1, TagsInOrder DEF Range_
    <3> QED BY <2>3, <3>1 DEF Goes
  <2>5. ~(Removes(r, action) /\ Inside(d, s, r)) BY <2>3 DEF Goes, Inside
  <2> QED BY <2>1, <2>4, <2>5
<1>5. ASSUME NEW s \in Elements(d) \ {r}, ~(Removes(r, action) /\ Inside(d, s, r))
      PROVE  s \in Elements(e)
  <2>1. Opening(d, s) \in At(d, {"open"}) /\ d[Opening(d, s)].rev = s BY <1>1, Tags
  <2>2. Opening(d, s) \notin Goes(d, r, action)
    <3>1. Opening(d, s) # Opening(d, r) /\ Opening(d, s) # Closing(d, r) BY <1>1, Beside
    <3>2. Removes(r, action) => Opening(d, s) \notin Range_(d, r) BY <1>5 DEF Inside
    <3> QED BY <3>1, <3>2 DEF Goes
  <2>3. PICK i \in DOMAIN e : f[i] = Opening(d, s)
    <3>1. Opening(d, s) \in Image(f, e) BY <1>2, <2>1, <2>2 DEF At
    <3> QED BY <3>1 DEF Image
  <2>4. i \in At(e, {"open"}) BY <1>2, <2>1, <2>3, EmbedsTags
  <2>5. e[i].rev = s BY <1>2, <2>1, <2>3, <2>4 DEF Embeds, At
  <2> QED BY <2>4, <2>5 DEF Elements
<1>6. Elements(e) = {s \in Elements(d) \ {r} : ~(Removes(r, action) /\ Inside(d, s, r))}
  BY <1>4, <1>5
<1>7. ASSUME NEW s \in Revisions(e) PROVE s \in Revisions(d) /\ s # r
  <2>1. PICK i \in At(e, {"open", "mark"}) : e[i].rev = s BY DEF Revisions
  <2>2. i \in DOMAIN e /\ f[i] \in At(d, {"open", "mark"}) /\ d[f[i]].rev = s
    BY <1>2, <2>1 DEF Embeds, At
  <2>3. s \in Revisions(d) BY <2>2 DEF Revisions
  <2>4. CASE i \in At(e, {"open"})
    <3>1. s \in Elements(e) BY <2>1, <2>4 DEF Elements
    <3> QED BY <1>4, <2>3, <3>1
  <2>5. CASE i \notin At(e, {"open"})
    <3>1. f[i] \in At(d, {"mark"}) BY <1>2, <2>1, <2>2, <2>5, EmbedsTags DEF At
    <3>2. Opening(d, r) \in At(d, {"open"}) /\ d[Opening(d, r)].rev = r BY <1>1, Tags
    <3> QED BY <1>1, <2>2, <2>3, <3>1, <3>2 DEF WellNested
  <2> QED BY <2>4, <2>5
<1> QED BY <1>1, <1>2, <1>3, <1>6, <1>7

LEMMA SettledWellFormed ==
  ASSUME NEW d, WellFormed(d), NEW r \in Elements(d), NEW action
  PROVE  LET e == Settled(d, r, action)
         IN  WellFormed(e) /\ r \notin Revisions(e) /\ Revisions(e) \subseteq Revisions(d)
<1> DEFINE e == Settled(d, r, action)
<1>1. PICK f : Settles(f, e, d, r, action) BY SettledEmbeds
<1> HIDE DEF e
<1>2. /\ IsSeq(e) /\ WellNested(e) /\ r \notin Revisions(e) /\ Revisions(e) \subseteq Revisions(d)
  BY <1>1, SettlesElements
<1>3. WellFormed(e) BY <1>1, <1>2 DEF Settles, WellFormed, IsSeq
<1> QED BY <1>2, <1>3 DEF e

\* Settling a revision one way keeps the text a paragraph has with every
\* revision settled that way.
LEMMA SettledViews ==
  ASSUME NEW d, WellFormed(d), NEW r \in Elements(d), NEW action, NEW p, NEW hidden,
         Removes(r, action) <=> r.kind \in hidden
  PROVE  View(Settled(d, r, action), p, hidden) = View(d, p, hidden)
<1> DEFINE e == Settled(d, r, action)
<1>1. PICK f : Settles(f, e, d, r, action) BY SettledEmbeds
<1> HIDE DEF e
<1>2. /\ IsSeq(e) /\ IsSeq(d) /\ WellNested(d) /\ WellNested(e) /\ Embeds(f, e, d)
      /\ Elements(e) = {s \in Elements(d) \ {r} : ~(Removes(r, action) /\ Inside(d, s, r))}
  BY <1>1, SettlesElements
<1>3. Image(f, e) = DOMAIN d \ Goes(d, r, action) BY <1>1 DEF Settles
<1>4. ASSUME NEW j \in Shown(d, p, hidden) PROVE \E i \in DOMAIN e : f[i] = j
  <2>1. j \in DOMAIN d /\ d[j].tag = "text" BY DEF Shown, At
  <2>2. j \notin Goes(d, r, action)
    <3>1. CASE Removes(r, action)
      <4>1. j \notin Range_(d, r) BY <3>1 DEF Shown
      <4> QED BY <3>1, <4>1 DEF Goes
    <3>2. CASE ~Removes(r, action)
      <4>1. d[Opening(d, r)].tag = "open" /\ d[Closing(d, r)].tag = "close" BY <1>2, Tags DEF At
      <4> QED BY <2>1, <3>2, <4>1 DEF Goes
    <3> QED BY <3>1, <3>2
  <2> QED BY <1>3, <2>1, <2>2 DEF Image
<1>5. ASSUME NEW i \in DOMAIN e, NEW s \in Elements(d), s.kind \in hidden, f[i] \in Range_(d, s)
      PROVE  s \in Elements(e)
  <2> SUFFICES ASSUME s \notin Elements(e) PROVE FALSE OBVIOUS
  <2>1. f[i] \in DOMAIN d /\ f[i] \notin Goes(d, r, action) BY <1>3 DEF Image
  <2>2. Removes(r, action) /\ (s = r \/ Inside(d, s, r)) BY <1>2, <1>5
  <2>3. Range_(d, s) \subseteq Range_(d, r) BY <1>2, <2>2, InsideRange
  <2> QED BY <1>5, <2>1, <2>2, <2>3 DEF Goes
<1> QED BY <1>2, <1>4, <1>5, ViewAlike DEF e

\* Settling a revision leaves the others with the text they own.
LEMMA SettledOthers ==
  ASSUME NEW d, WellFormed(d), NEW r \in Elements(d), NEW action,
         NEW s \in Elements(d) \ {r}, ~(Removes(r, action) /\ Inside(d, s, r))
  PROVE  /\ s \in Elements(Settled(d, r, action))
         /\ Inside(d, r, s) \/ OwnText(Settled(d, r, action), s) = OwnText(d, s)
<1> DEFINE e == Settled(d, r, action)
<1>1. PICK f : Settles(f, e, d, r, action) BY SettledEmbeds
<1> HIDE DEF e
<1>2. /\ IsSeq(e) /\ IsSeq(d) /\ WellNested(d) /\ WellNested(e) /\ Embeds(f, e, d)
      /\ Elements(e) = {t \in Elements(d) \ {r} : ~(Removes(r, action) /\ Inside(d, t, r))}
  BY <1>1, SettlesElements
<1>3. Image(f, e) = DOMAIN d \ Goes(d, r, action) BY <1>1 DEF Settles
<1>4. s \in Elements(e) BY <1>2
<1>5. ASSUME ~Inside(d, r, s) PROVE OwnText(e, s) = OwnText(d, s)
  <2>1. Removes(r, action) => Range_(d, s) \intersect Range_(d, r) = {}
    BY <1>2, <1>5, Apart
  <2>2. ASSUME NEW j \in Owned(d, s) PROVE \E i \in DOMAIN e : f[i] = j
    <3>1. j \in DOMAIN d /\ d[j].tag = "text" /\ j \in Range_(d, s) BY DEF Owned, At
    <3>2. d[Opening(d, r)].tag = "open" /\ d[Closing(d, r)].tag = "close" BY <1>2, Tags DEF At
    <3>3. j \notin Goes(d, r, action) BY <2>1, <3>1, <3>2 DEF Goes
    <3> QED BY <1>3, <3>1, <3>3 DEF Image
  <2>3. ASSUME NEW i \in DOMAIN e, NEW t \in Elements(d),
               Inside(d, t, s), f[i] \in Range_(d, s), f[i] \in Range_(d, t)
        PROVE  t \in Elements(e)
    <3> SUFFICES ASSUME t \notin Elements(e) PROVE FALSE OBVIOUS
    <3>1. t # r BY <1>5, <2>3
    <3>2. Removes(r, action) /\ Inside(d, t, r) BY <1>2, <3>1
    <3>3. Range_(d, t) \subseteq Range_(d, r) BY <1>2, <3>2, InsideRange
    <3> QED BY <2>1, <2>3, <3>2, <3>3
  <2> QED BY <1>2, <1>4, <2>2, <2>3, OwnAlike
<1> QED BY <1>4, <1>5 DEF e

-----------------------------------------------------------------------------
(* A document put into another, after position a: g and h say where the tokens  *)
(* of the two are.                                                              *)

Joins(g, h, e, d, m) ==
  /\ \A i \in DOMAIN d : g[i] \in DOMAIN e /\ e[g[i]] = d[i]
  /\ \A i \in DOMAIN m : h[i] \in DOMAIN e /\ e[h[i]] = m[i]
  /\ \A k \in DOMAIN e : (\E i \in DOMAIN d : g[i] = k) \/ (\E i \in DOMAIN m : h[i] = k)
  /\ \A i, j \in DOMAIN d : i < j => g[i] < g[j]
  /\ \A i, j \in DOMAIN m : i < j => h[i] < h[j]
  /\ \A i \in DOMAIN d : \/ \A k \in DOMAIN m : g[i] < h[k]
                         \/ \A k \in DOMAIN m : h[k] < g[i]
Old(d, m, a) == [i \in DOMAIN d |-> IF i <= a THEN i ELSE i + Len(m)]
Added(m, a) == [i \in DOMAIN m |-> i + a]

LEMMA SpliceJoins ==
  ASSUME NEW d, IsSeq(d), NEW m, IsSeq(m), NEW a \in Nat, a <= Len(d),
         NEW e, IsSplice(e, d, a, m, a + 1)
  PROVE  IsSeq(e) /\ Joins(Old(d, m, a), Added(m, a), e, d, m)
<1> DEFINE g == Old(d, m, a)
           h == Added(m, a)
<1>1. /\ Len(d) \in Nat /\ DOMAIN d = 1 .. Len(d) /\ Len(m) \in Nat /\ DOMAIN m = 1 .. Len(m)
  BY SeqFacts
<1>2. /\ IsSeq(e) /\ Len(e) = a + Len(m) + Len(d) - (a + 1) + 1
      /\ \A i \in 1 .. a : e[i] = d[i]
      /\ \A i \in a + 1 .. a + Len(m) : e[i] = m[i - a]
      /\ \A i \in a + Len(m) + 1 .. Len(e) : e[i] = d[i - a - Len(m) + (a + 1) - 1]
  BY DEF IsSplice
<1>3. Len(e) = Len(m) + Len(d) /\ DOMAIN e = 1 .. Len(e) BY <1>1, <1>2, SeqFacts
<1>4. \A i \in DOMAIN d : g[i] = IF i <= a THEN i ELSE i + Len(m) BY DEF Old
<1>5. \A i \in DOMAIN m : h[i] = i + a BY DEF Added
<1> HIDE DEF g, h
<1>6. ASSUME NEW i \in DOMAIN d PROVE g[i] \in DOMAIN e /\ e[g[i]] = d[i]
  <2>1. CASE i <= a
    <3>1. g[i] = i /\ i \in 1 .. a BY <1>1, <1>4, <2>1
    <3> QED BY <1>1, <1>2, <1>3, <3>1
  <2>2. CASE ~(i <= a)
    <3>1. g[i] = i + Len(m) BY <1>4, <2>2
    <3>2. g[i] \in a + Len(m) + 1 .. Len(e) BY <1>1, <1>3, <2>2, <3>1
    <3>3. g[i] - a - Len(m) + (a + 1) - 1 = i BY <1>1, <3>1
    <3>4. e[g[i]] = d[i] BY <1>2, <3>2, <3>3
    <3> QED BY <1>1, <1>3, <3>2, <3>4
  <2> QED BY <2>1, <2>2
<1>7. ASSUME NEW i \in DOMAIN m PROVE h[i] \in DOMAIN e /\ e[h[i]] = m[i]
  <2>1. h[i] \in a + 1 .. a + Len(m) /\ h[i] - a = i BY <1>1, <1>5
  <2> QED BY <1>1, <1>2, <1>3, <2>1
<1>8. ASSUME NEW k \in DOMAIN e
      PROVE  (\E i \in DOMAIN d : g[i] = k) \/ (\E i \in DOMAIN m : h[i] = k)
  <2>1. CASE k <= a
    <3>1. k \in DOMAIN d /\ g[k] = k BY <1>1, <1>3, <1>4, <2>1
    <3> QED BY <3>1
  <2>2. CASE a < k /\ k <= a + Len(m)
    <3>1. k - a \in DOMAIN m /\ h[k - a] = k BY <1>1, <1>3, <1>5, <2>2
    <3> QED BY <3>1
  <2>3. CASE a + Len(m) < k
    <3>1. k - Len(m) \in DOMAIN d /\ ~(k - Len(m) <= a) BY <1>1, <1>3, <2>3
    <3>2. g[k - Len(m)] = (k - Len(m)) + Len(m) BY <1>4, <3>1
    <3>3. g[k - Len(m)] = k BY <1>1, <1>3, <3>2
    <3> QED BY <3>1, <3>3
  <2> QED BY <1>1, <1>3, <2>1, <2>2, <2>3
<1>9. \A i, j \in DOMAIN d : i < j => g[i] < g[j] BY <1>1, <1>4
<1>10. \A i, j \in DOMAIN m : i < j => h[i] < h[j] BY <1>1, <1>5
<1>11. \A i \in DOMAIN d : \/ \A k \in DOMAIN m : g[i] < h[k]
                           \/ \A k \in DOMAIN m : h[k] < g[i]
  BY <1>1, <1>4, <1>5
<1> QED BY <1>2, <1>6, <1>7, <1>8, <1>9, <1>10, <1>11 DEF Joins, g, h

LEMMA JoinsTags ==
  ASSUME NEW g, NEW h, NEW e, NEW d, NEW m, Joins(g, h, e, d, m), NEW tags, NEW k \in At(e, tags)
  PROVE  \/ \E i \in At(d, tags) : g[i] = k /\ e[k] = d[i]
         \/ \E i \in At(m, tags) : h[i] = k /\ e[k] = m[i]
<1>1. k \in DOMAIN e /\ e[k].tag \in tags BY DEF At
<1>2. ASSUME NEW i \in DOMAIN d, g[i] = k PROVE i \in At(d, tags) /\ e[k] = d[i]
  BY <1>1, <1>2 DEF Joins, At
<1>3. ASSUME NEW i \in DOMAIN m, h[i] = k PROVE i \in At(m, tags) /\ e[k] = m[i]
  BY <1>1, <1>3 DEF Joins, At
<1> QED BY <1>1, <1>2, <1>3 DEF Joins

LEMMA JoinsAt ==
  ASSUME NEW g, NEW h, NEW e, NEW d, NEW m, Joins(g, h, e, d, m), NEW tags
  PROVE  /\ \A i \in At(d, tags) : g[i] \in At(e, tags) /\ e[g[i]] = d[i]
         /\ \A i \in At(m, tags) : h[i] \in At(e, tags) /\ e[h[i]] = m[i]
BY DEF Joins, At

LEMMA JoinsRevisions ==
  ASSUME NEW g, NEW h, NEW e, NEW d, NEW m, Joins(g, h, e, d, m)
  PROVE  /\ Elements(e) = Elements(d) \union Elements(m)
         /\ Revisions(e) = Revisions(d) \union Revisions(m)
<1>1. ASSUME NEW tags
      PROVE  {e[k].rev : k \in At(e, tags)}
               = {d[k].rev : k \in At(d, tags)} \union {m[k].rev : k \in At(m, tags)}
  <2>1. ASSUME NEW k \in At(e, tags)
        PROVE  e[k].rev \in {d[x].rev : x \in At(d, tags)} \union {m[x].rev : x \in At(m, tags)}
    BY JoinsTags
  <2>2. \A k \in At(d, tags) : d[k].rev \in {e[x].rev : x \in At(e, tags)}
    <3> TAKE k \in At(d, tags)
    <3>1. g[k] \in At(e, tags) /\ e[g[k]] = d[k] BY JoinsAt
    <3> QED BY <3>1
  <2>3. \A k \in At(m, tags) : m[k].rev \in {e[x].rev : x \in At(e, tags)}
    <3> TAKE k \in At(m, tags)
    <3>1. h[k] \in At(e, tags) /\ e[h[k]] = m[k] BY JoinsAt
    <3> QED BY <3>1
  <2> QED BY <2>1, <2>2, <2>3
<1> QED BY <1>1 DEF Elements, Revisions

\* Two documents that share no element join to one well nested.
Foreign(d, m) ==
  /\ Elements(d) \intersect Elements(m) = {}
  /\ \A i \in At(d, {"mark"}) : d[i].rev \notin Elements(m)
  /\ \A i \in At(m, {"mark"}) : m[i].rev \notin Elements(d)
LEMMA JoinsNested ==
  ASSUME NEW g, NEW h, NEW e, NEW d, NEW m, Joins(g, h, e, d, m), IsSeq(d), IsSeq(m), IsSeq(e),
         WellNested(d), WellNested(m), Foreign(d, m)
  PROVE  WellNested(e)
<1>1. /\ \A i \in At(d, {"open"}) : d[i].rev \in Elements(d)
      /\ \A i \in At(d, {"close"}) : d[i].rev \in Elements(d)
      /\ \A i \in At(m, {"open"}) : m[i].rev \in Elements(m)
      /\ \A i \in At(m, {"close"}) : m[i].rev \in Elements(m)
  BY TagIs
<1>2. \A r : ~(r \in Elements(d) /\ r \in Elements(m)) BY DEF Foreign
<1>3. ASSUME NEW tag \in {"open", "close"}, NEW k \in At(e, {tag}), NEW l \in At(e, {tag}),
             e[k].rev = e[l].rev
      PROVE  k = l
  <2>1. \/ \E i \in At(d, {tag}) : g[i] = k /\ e[k] = d[i]
        \/ \E i \in At(m, {tag}) : h[i] = k /\ e[k] = m[i]
    BY JoinsTags
  <2>2. \/ \E i \in At(d, {tag}) : g[i] = l /\ e[l] = d[i]
        \/ \E i \in At(m, {tag}) : h[i] = l /\ e[l] = m[i]
    BY JoinsTags
  <2>3. \A i, j \in At(d, {tag}) : d[i].rev = d[j].rev => i = j BY DEF WellNested
  <2>4. \A i, j \in At(m, {tag}) : m[i].rev = m[j].rev => i = j BY DEF WellNested
  <2>5. \A i \in At(d, {tag}), j \in At(m, {tag}) : d[i].rev # m[j].rev BY <1>1, <1>2
  <2> QED BY <1>3, <2>1, <2>2, <2>3, <2>4, <2>5
<1>4. ASSUME NEW k \in At(e, {"open"})
      PROVE  \E l \in At(e, {"close"}) : k < l /\ e[l].rev = e[k].rev /\ e[l].par = e[k].par
  <2>1. CASE \E i \in At(d, {"open"}) : g[i] = k /\ e[k] = d[i]
    <3>1. PICK i \in At(d, {"open"}) : g[i] = k /\ e[k] = d[i] BY <2>1
    <3>2. PICK j \in At(d, {"close"}) : i < j /\ d[j].rev = d[i].rev /\ d[j].par = d[i].par
      BY DEF WellNested
    <3>3. g[j] \in At(e, {"close"}) /\ e[g[j]] = d[j] BY JoinsAt
    <3>4. g[i] < g[j] BY <3>2 DEF Joins, At
    <3> QED BY <3>1, <3>2, <3>3, <3>4
  <2>2. CASE \E i \in At(m, {"open"}) : h[i] = k /\ e[k] = m[i]
    <3>1. PICK i \in At(m, {"open"}) : h[i] = k /\ e[k] = m[i] BY <2>2
    <3>2. PICK j \in At(m, {"close"}) : i < j /\ m[j].rev = m[i].rev /\ m[j].par = m[i].par
      BY DEF WellNested
    <3>3. h[j] \in At(e, {"close"}) /\ e[h[j]] = m[j] BY JoinsAt
    <3>4. h[i] < h[j] BY <3>2 DEF Joins, At
    <3> QED BY <3>1, <3>2, <3>3, <3>4
  <2> QED BY <2>1, <2>2, JoinsTags
<1>5. ASSUME NEW k \in At(e, {"close"}) PROVE \E l \in At(e, {"open"}) : e[l].rev = e[k].rev
  <2>1. CASE \E i \in At(d, {"close"}) : g[i] = k /\ e[k] = d[i]
    <3>1. PICK i \in At(d, {"close"}) : g[i] = k /\ e[k] = d[i] BY <2>1
    <3>2. PICK j \in At(d, {"open"}) : d[j].rev = d[i].rev BY DEF WellNested
    <3>3. g[j] \in At(e, {"open"}) /\ e[g[j]] = d[j] BY JoinsAt
    <3> QED BY <3>1, <3>2, <3>3
  <2>2. CASE \E i \in At(m, {"close"}) : h[i] = k /\ e[k] = m[i]
    <3>1. PICK i \in At(m, {"close"}) : h[i] = k /\ e[k] = m[i] BY <2>2
    <3>2. PICK j \in At(m, {"open"}) : m[j].rev = m[i].rev BY DEF WellNested
    <3>3. h[j] \in At(e, {"open"}) /\ e[h[j]] = m[j] BY JoinsAt
    <3> QED BY <3>1, <3>2, <3>3
  <2> QED BY <2>1, <2>2, JoinsTags
<1>6. ASSUME NEW i \in At(e, {"open"}), NEW j \in At(e, {"open"}),
             NEW x \in At(e, {"close"}), NEW y \in At(e, {"close"}),
             e[i].rev = e[x].rev, e[j].rev = e[y].rev, i < j, j < x
      PROVE  y < x
  <2>0. i \in Int /\ j \in Int /\ x \in Int /\ y \in Int BY SeqFacts DEF At
  <2>1. CASE \E k \in At(d, {"open"}) : g[k] = i /\ e[i] = d[k]
    <3>1. PICK a \in At(d, {"open"}) : g[a] = i /\ e[i] = d[a] BY <2>1
    <3>2. PICK b \in At(d, {"close"}) : g[b] = x /\ e[x] = d[b]
      BY <1>1, <1>2, <1>6, <3>1, JoinsTags
    <3>3. CASE \E k \in At(d, {"open"}) : g[k] = j /\ e[j] = d[k]
      <4>1. PICK u \in At(d, {"open"}) : g[u] = j /\ e[j] = d[u] BY <3>3
      <4>2. PICK v \in At(d, {"close"}) : g[v] = y /\ e[y] = d[v]
        BY <1>1, <1>2, <1>6, <4>1, JoinsTags
      <4>3. a \in DOMAIN d /\ b \in DOMAIN d /\ u \in DOMAIN d /\ v \in DOMAIN d BY DEF At
      <4>4. a \in Int /\ b \in Int /\ u \in Int /\ v \in Int BY <4>3, SeqFacts
      <4>5. a < u /\ u < b
        <5>1. (u < a => g[u] < g[a]) /\ (b < u => g[b] < g[u]) BY <4>3 DEF Joins
        <5> QED BY <1>6, <2>0, <3>1, <3>2, <4>1, <4>4, <5>1
      <4>6. v < b BY <1>6, <3>1, <3>2, <4>1, <4>2, <4>5 DEF WellNested
      <4> QED BY <3>2, <4>2, <4>3, <4>6 DEF Joins
    <3>4. CASE \E k \in At(m, {"open"}) : h[k] = j /\ e[j] = m[k]
      <4>1. PICK u \in At(m, {"open"}) : h[u] = j /\ e[j] = m[u] BY <3>4
      <4>2. PICK v \in At(m, {"close"}) : h[v] = y /\ e[y] = m[v]
        BY <1>1, <1>2, <1>6, <4>1, JoinsTags
      <4>3. b \in DOMAIN d /\ u \in DOMAIN m /\ v \in DOMAIN m BY DEF At
      <4>4. (g[b] < h[u] /\ g[b] < h[v]) \/ (h[u] < g[b] /\ h[v] < g[b]) BY <4>3 DEF Joins
      <4> QED BY <1>6, <2>0, <3>2, <4>1, <4>2, <4>4
    <3> QED BY <3>3, <3>4, JoinsTags
  <2>2. CASE \E k \in At(m, {"open"}) : h[k] = i /\ e[i] = m[k]
    <3>1. PICK a \in At(m, {"open"}) : h[a] = i /\ e[i] = m[a] BY <2>2
    <3>2. PICK b \in At(m, {"close"}) : h[b] = x /\ e[x] = m[b]
      BY <1>1, <1>2, <1>6, <3>1, JoinsTags
    <3>3. CASE \E k \in At(d, {"open"}) : g[k] = j /\ e[j] = d[k]
      <4>1. PICK u \in At(d, {"open"}) : g[u] = j /\ e[j] = d[u] BY <3>3
      <4>2. u \in DOMAIN d /\ a \in DOMAIN m /\ b \in DOMAIN m BY DEF At
      <4>3. (g[u] < h[a] /\ g[u] < h[b]) \/ (h[a] < g[u] /\ h[b] < g[u]) BY <4>2 DEF Joins
      <4> QED BY <1>6, <2>0, <3>1, <3>2, <4>1, <4>3
    <3>4. CASE \E k \in At(m, {"open"}) : h[k] = j /\ e[j] = m[k]
      <4>1. PICK u \in At(m, {"open"}) : h[u] = j /\ e[j] = m[u] BY <3>4
      <4>2. PICK v \in At(m, {"close"}) : h[v] = y /\ e[y] = m[v]
        BY <1>1, <1>2, <1>6, <4>1, JoinsTags
      <4>3. a \in DOMAIN m /\ b \in DOMAIN m /\ u \in DOMAIN m /\ v \in DOMAIN m BY DEF At
      <4>4. a \in Int /\ b \in Int /\ u \in Int /\ v \in Int BY <4>3, SeqFacts
      <4>5. a < u /\ u < b
        <5>1. (u < a => h[u] < h[a]) /\ (b < u => h[b] < h[u]) BY <4>3 DEF Joins
        <5> QED BY <1>6, <2>0, <3>1, <3>2, <4>1, <4>4, <5>1
      <4>6. v < b BY <1>6, <3>1, <3>2, <4>1, <4>2, <4>5 DEF WellNested
      <4> QED BY <3>2, <4>2, <4>3, <4>6 DEF Joins
    <3> QED BY <3>3, <3>4, JoinsTags
  <2> QED BY <2>1, <2>2, JoinsTags
<1>7. ASSUME NEW k \in At(e, {"open"}), NEW l \in At(e, {"mark"})
      PROVE  e[k].rev # e[l].rev
  <2>1. \/ \E i \in At(d, {"open"}) : g[i] = k /\ e[k] = d[i]
        \/ \E i \in At(m, {"open"}) : h[i] = k /\ e[k] = m[i]
    BY JoinsTags
  <2>2. \/ \E i \in At(d, {"mark"}) : g[i] = l /\ e[l] = d[i]
        \/ \E i \in At(m, {"mark"}) : h[i] = l /\ e[l] = m[i]
    BY JoinsTags
  <2>3. \A i \in At(d, {"open"}), j \in At(d, {"mark"}) : d[i].rev # d[j].rev BY DEF WellNested
  <2>4. \A i \in At(m, {"open"}), j \in At(m, {"mark"}) : m[i].rev # m[j].rev BY DEF WellNested
  <2>5. \A i \in At(d, {"open"}), j \in At(m, {"mark"}) : d[i].rev # m[j].rev
    BY <1>1 DEF Foreign
  <2>6. \A i \in At(m, {"open"}), j \in At(d, {"mark"}) : m[i].rev # d[j].rev
    BY <1>1 DEF Foreign
  <2> QED BY <2>1, <2>2, <2>3, <2>4, <2>5, <2>6
<1>8. "open" \in {"open", "close"} /\ "close" \in {"open", "close"} OBVIOUS
<1> QED BY <1>3, <1>4, <1>5, <1>6, <1>7, <1>8 DEF WellNested

LEMMA InsertWellFormed ==
  ASSUME NEW d, NEW m, WellFormed(d), WellFormed(m), Foreign(d, m), NEW a \in Nat, a <= Len(d)
  PROVE  LET e == Splice(d, a, m, a + 1)
         IN  /\ WellFormed(e) /\ IsSeq(e) /\ Joins(Old(d, m, a), Added(m, a), e, d, m)
             /\ Elements(e) = Elements(d) \union Elements(m)
             /\ Revisions(e) = Revisions(d) \union Revisions(m)
<1> DEFINE e == Splice(d, a, m, a + 1)
<1>1. /\ IsSeq(d) /\ WellNested(d) /\ \A i \in DOMAIN d : IsToken(d[i])
      /\ IsSeq(m) /\ WellNested(m) /\ \A i \in DOMAIN m : IsToken(m[i])
  BY DEF WellFormed, IsSeq
<1>2. IsSplice(e, d, a, m, a + 1)
  <2>1. a + 1 \in Nat /\ a < a + 1 /\ a + 1 <= Len(d) + 1 BY <1>1, SeqFacts
  <2> QED BY <1>1, <2>1, SpliceAt
<1> HIDE DEF e
<1>3. IsSeq(e) /\ Joins(Old(d, m, a), Added(m, a), e, d, m) BY <1>1, <1>2, SpliceJoins
<1>4. WellNested(e) BY <1>1, <1>3, JoinsNested
<1>5. \A k \in DOMAIN e : IsToken(e[k]) BY <1>1, <1>3 DEF Joins
<1>6. WellFormed(e) BY <1>3, <1>4, <1>5 DEF WellFormed, IsSeq
<1>7. Elements(e) = Elements(d) \union Elements(m) /\ Revisions(e) = Revisions(d) \union Revisions(m)
  BY <1>3, JoinsRevisions
<1> QED BY <1>3, <1>6, <1>7 DEF e

LEMMA CatWellFormed ==
  ASSUME NEW d, NEW m, WellFormed(d), WellFormed(m), Foreign(d, m)
  PROVE  /\ WellFormed(d \o m)
         /\ Elements(d \o m) = Elements(d) \union Elements(m)
         /\ Revisions(d \o m) = Revisions(d) \union Revisions(m)
<1>1. IsSeq(d) /\ IsSeq(m) BY DEF WellFormed, IsSeq
<1>2. Len(d) \in Nat /\ DOMAIN d = 1 .. Len(d) /\ d = [i \in 1 .. Len(d) |-> d[i]] BY <1>1, SeqFacts
<1>3. SubSeq(d, 1, Len(d)) = d
  <2> DEFINE U == {d[i] : i \in DOMAIN d}
  <2>1. d \in Seq(U) BY <1>1 DEF IsSeq
  <2> HIDE DEF U
  <2> QED BY <2>1
<1>4. SubSeq(d, Len(d) + 1, Len(d)) = <<>>
  <2> DEFINE U == {d[i] : i \in DOMAIN d}
  <2>1. d \in Seq(U) BY <1>1 DEF IsSeq
  <2> HIDE DEF U
  <2> QED BY <2>1
<1>5. (d \o m) \o <<>> = d \o m
  <2> DEFINE c == d \o m
  <2>1. IsSeq(c) BY <1>1, CatAt
  <2> HIDE DEF c
  <2>2. c \o <<>> = c BY <2>1 DEF IsSeq
  <2> QED BY <2>2 DEF c
<1>6. d \o m = Splice(d, Len(d), m, Len(d) + 1) BY <1>3, <1>4, <1>5 DEF Splice
<1> QED BY <1>2, <1>6, InsertWellFormed

\* A text of its own, and nothing, are documents.
LEMMA TextsWellFormed ==
  ASSUME NEW d, IsSeq(d), \A i \in DOMAIN d : IsToken(d[i]) /\ d[i].tag = "text"
  PROVE  WellFormed(d) /\ Revisions(d) = {} /\ Elements(d) = {} /\ At(d, {"mark"}) = {}
<1>1. /\ At(d, {"open"}) = {} /\ At(d, {"close"}) = {} /\ At(d, {"mark"}) = {}
      /\ At(d, {"open", "mark"}) = {}
  BY DEF At
<1>2. WellNested(d) BY <1>1 DEF WellNested
<1> QED BY <1>1, <1>2 DEF WellFormed, IsSeq, Revisions, Elements

-----------------------------------------------------------------------------
(* What is copied of an element, and under which names. *)

\* The tokens of an element, which are a document.
Span(d, r) == SubSeq(d, Opening(d, r), Closing(d, r))

LEMMA RangeWellFormed ==
  ASSUME NEW d, WellFormed(d), NEW r \in Elements(d)
  PROVE  /\ WellFormed(Span(d, r)) /\ Elements(Span(d, r)) \subseteq Elements(d)
         /\ \A i \in At(Span(d, r), {"mark"}) :
              \E j \in At(d, {"mark"}) : Span(d, r)[i].rev = d[j].rev
<1> DEFINE a == Opening(d, r)  b == Closing(d, r)  e == SubSeq(d, a, b)
           f == [i \in DOMAIN e |-> i + a - 1]
<1>1. IsSeq(d) /\ WellNested(d) /\ \A i \in DOMAIN d : IsToken(d[i]) BY DEF WellFormed, IsSeq
<1>2. /\ a \in 1 .. Len(d) /\ b \in 1 .. Len(d) /\ Len(d) \in Nat /\ a < b
      /\ DOMAIN d = 1 .. Len(d)
  BY <1>1, TagsInOrder, SeqFacts
<1> HIDE DEF a, b
<1>3. /\ IsSeq(e) /\ Len(e) = b - a + 1 /\ DOMAIN e = 1 .. b - a + 1
      /\ \A i \in 1 .. b - a + 1 : e[i] = d[i + a - 1]
  <2>1. a \in Nat \ {0} /\ b \in Nat /\ b <= Len(d) /\ a <= b + 1 BY <1>2
  <2>2. /\ IsSeq(e) /\ Len(e) = b - a + 1
        /\ \A i \in 1 .. b - a + 1 : e[i] = d[i + a - 1]
    BY <1>1, <2>1, SubAt
  <2> HIDE DEF e
  <2> QED BY <2>2, SeqFacts
<1> HIDE DEF e
<1>4. \A i \in DOMAIN e : f[i] \in a .. b /\ f[i] \in DOMAIN d /\ e[i] = d[f[i]]
  <2> TAKE i \in DOMAIN e
  <2>1. f[i] = i + a - 1 OBVIOUS
  <2>2. f[i] \in a .. b BY <1>2, <1>3, <2>1
  <2>3. e[i] = d[i + a - 1] BY <1>3
  <2> QED BY <1>2, <2>1, <2>2, <2>3
<1>5. \A i, j \in DOMAIN e : i < j => f[i] < f[j] BY <1>2, <1>3
<1>6. \A j \in a .. b : \E i \in DOMAIN e : f[i] = j
  <2> TAKE j \in a .. b
  <2>1. j - a + 1 \in DOMAIN e BY <1>2, <1>3
  <2>2. f[j - a + 1] = (j - a + 1) + a - 1 BY <2>1
  <2> QED BY <1>2, <2>1, <2>2
<1> HIDE DEF f
<1>7. ASSUME NEW i \in At(e, {"open", "close"}), NEW j \in At(d, {"open", "close"}),
             d[j].rev = e[i].rev
      PROVE  \E k \in DOMAIN e : f[k] = j
  <2> DEFINE s == d[j].rev
  <2>1. i \in DOMAIN e /\ f[i] \in a .. b /\ d[f[i]].rev = s BY <1>4, <1>7 DEF At
  <2>2. f[i] \in At(d, {"open", "close"}) BY <1>4, <2>1 DEF At
  <2>3. \A x \in At(d, {"open", "close"}) : x \in At(d, {"open"}) \/ x \in At(d, {"close"})
    BY DEF At
  <2>4. s \in Elements(d) /\ f[i] \in {Opening(d, s), Closing(d, s)} /\ j \in {Opening(d, s), Closing(d, s)}
    BY <1>1, <2>1, <2>2, <2>3, TagIs
  <2> HIDE DEF s
  <2>5. j \in a .. b
    <3>1. CASE s = r
      <4>1. j = a \/ j = b BY <2>4, <3>1 DEF a, b
      <4> QED BY <1>2, <4>1
    <3>2. CASE s # r
      <4>1. /\ Opening(d, s) \in Int /\ Closing(d, s) \in Int /\ Opening(d, s) < Closing(d, s)
            /\ Opening(d, s) # a /\ Closing(d, s) # b /\ Opening(d, s) # b /\ Closing(d, s) # a
            /\ \/ a < Opening(d, s) /\ Closing(d, s) < b
               \/ Opening(d, s) < a /\ b < Closing(d, s)
               \/ b < Opening(d, s)
               \/ Closing(d, s) < a
        BY <1>1, <2>4, <3>2, Beside, TagsInOrder DEF a, b
      <4> QED BY <1>2, <2>1, <2>4, <4>1
    <3> QED BY <3>1, <3>2
  <2> QED BY <1>6, <2>5
<1>8. Embeds(f, e, d) BY <1>4, <1>5, <1>7 DEF Embeds
<1>9. WellNested(e) BY <1>1, <1>3, <1>8, EmbedsNested
<1>10. \A i \in DOMAIN e : IsToken(e[i]) BY <1>1, <1>4
<1>11. WellFormed(e) BY <1>3, <1>9, <1>10 DEF WellFormed, IsSeq
<1>12. Elements(e) \subseteq Elements(d) BY <1>1, <1>3, <1>8, EmbedsElement
<1>13. \A i \in At(e, {"mark"}) : \E j \in At(d, {"mark"}) : e[i].rev = d[j].rev
  <2> TAKE i \in At(e, {"mark"})
  <2>1. i \in DOMAIN e BY DEF At
  <2>2. f[i] \in At(d, {"mark"}) BY <1>8, <2>1, EmbedsTags
  <2> QED BY <1>4, <2>1, <2>2
<1>14. Span(d, r) = e BY DEF Span, e, a, b
<1> QED BY <1>11, <1>12, <1>13, <1>14

LEMMA RenamedFacts ==
  ASSUME NEW stamp \in Nat, NEW i \in Nat
  PROVE  /\ \A r \in Revision : /\ Renamed(r, stamp, i) \in Revision
                                /\ Renamed(r, stamp, i).n[1] = stamp /\ Renamed(r, stamp, i).n[2] = i
                                /\ Renamed(r, stamp, i).n # <<stamp>>
         /\ \A r, s \in Revision : Renamed(r, stamp, i) = Renamed(s, stamp, i) => r = s
<1>1. ASSUME NEW r \in Revision
      PROVE  /\ Renamed(r, stamp, i) = [kind |-> r.kind, id |-> r.id, n |-> <<stamp, i>> \o r.n]
             /\ r = [kind |-> r.kind, id |-> r.id, n |-> r.n]
             /\ r.kind \in Insertions \union Deletions /\ r.id \in Nat /\ r.n \in Seq(Nat) \ {<<>>}
  <2>1. r \in [kind : Insertions \union Deletions, id : Nat, n : Seq(Nat) \ {<<>>}] BY DEF Revision
  <2>2. r = [kind |-> r.kind, id |-> r.id, n |-> r.n] BY <2>1
  <2>3. Renamed(r, stamp, i) = [kind |-> r.kind, id |-> r.id, n |-> <<stamp, i>> \o r.n]
    <3> DEFINE y == <<stamp, i>> \o r.n
    <3> HIDE DEF y
    <3>1. [r EXCEPT !.n = y] = [kind |-> r.kind, id |-> r.id, n |-> y] BY <2>1
    <3> QED BY <3>1 DEF Renamed, y
  <2>4. r.kind \in Insertions \union Deletions /\ r.id \in Nat /\ r.n \in Seq(Nat) \ {<<>>}
    BY <2>1
  <2> QED BY <2>2, <2>3, <2>4
<1>2. ASSUME NEW x \in Seq(Nat) \ {<<>>}
      PROVE  /\ <<stamp, i>> \o x \in Seq(Nat) /\ Len(<<stamp, i>> \o x) = 2 + Len(x) /\ Len(x) > 0
             /\ (<<stamp, i>> \o x)[1] = stamp /\ (<<stamp, i>> \o x)[2] = i
  OBVIOUS
<1>3. ASSUME NEW r \in Revision
      PROVE  /\ Renamed(r, stamp, i) \in Revision
             /\ Renamed(r, stamp, i).n[1] = stamp /\ Renamed(r, stamp, i).n[2] = i
             /\ Renamed(r, stamp, i).n # <<stamp>>
  <2> DEFINE y == <<stamp, i>> \o r.n
  <2>1. y \in Seq(Nat) /\ Len(y) = 2 + Len(r.n) /\ Len(r.n) > 0 /\ y[1] = stamp /\ y[2] = i
    BY <1>1, <1>2
  <2>2. Renamed(r, stamp, i) = [kind |-> r.kind, id |-> r.id, n |-> y] BY <1>1
  <2>3. Len(r.n) \in Nat BY <1>1
  <2> HIDE DEF y
  <2>4. y # <<>> /\ y # <<stamp>>
    <3>1. Len(y) # 0 /\ Len(y) # 1 BY <2>1, <2>3
    <3>2. Len(<<>>) = 0 /\ Len(<<stamp>>) = 1 OBVIOUS
    <3> QED BY <3>1, <3>2
  <2> QED BY <1>1, <2>1, <2>2, <2>4 DEF Revision
<1>4. ASSUME NEW r \in Revision, NEW s \in Revision, Renamed(r, stamp, i) = Renamed(s, stamp, i)
      PROVE  r = s
  <2>1. r.kind = s.kind /\ r.id = s.id /\ <<stamp, i>> \o r.n = <<stamp, i>> \o s.n
    <3> DEFINE x == <<stamp, i>> \o r.n  y == <<stamp, i>> \o s.n
    <3>1. [kind |-> r.kind, id |-> r.id, n |-> x] = [kind |-> s.kind, id |-> s.id, n |-> y]
      BY <1>1, <1>4
    <3> HIDE DEF x, y
    <3>2. r.kind = s.kind /\ r.id = s.id /\ x = y BY <3>1
    <3> QED BY <3>2 DEF x, y
  <2>2. r.n = s.n
    <3>1. Len(r.n) = Len(s.n) /\ Len(r.n) \in Nat
      <4>1. Len(r.n) \in Nat /\ Len(s.n) \in Nat BY <1>1
      <4>2. Len(<<stamp, i>> \o r.n) = 2 + Len(r.n) /\ Len(<<stamp, i>> \o s.n) = 2 + Len(s.n)
        BY <1>1, <1>2
      <4> QED BY <2>1, <4>1, <4>2
    <3>2. \A k \in 1 .. Len(r.n) : r.n[k] = s.n[k]
      <4> TAKE k \in 1 .. Len(r.n)
      <4>0. ASSUME NEW x \in Seq(Nat), NEW l \in 1 .. Len(x)
            PROVE  (<<stamp, i>> \o x)[l + 2] = x[l]
        OBVIOUS
      <4>1. (<<stamp, i>> \o r.n)[k + 2] = r.n[k] BY <1>1, <4>0
      <4>2. (<<stamp, i>> \o s.n)[k + 2] = s.n[k] BY <1>1, <3>1, <4>0
      <4> QED BY <2>1, <4>1, <4>2
    <3>3. r.n \in Seq(Nat) /\ s.n \in Seq(Nat) BY <1>1
    <3>4. r.n = [k \in 1 .. Len(r.n) |-> r.n[k]] /\ s.n = [k \in 1 .. Len(s.n) |-> s.n[k]]
      BY <3>3, SeqOfSome, SeqFacts
    <3> QED BY <3>1, <3>2, <3>4
  <2> QED BY <1>1, <2>1, <2>2
<1> QED BY <1>3, <1>4

\* A document under new names.
Anew(d, stamp, i) ==
  [k \in DOMAIN d |-> IF d[k].tag \in {"open", "close"}
                      THEN [d[k] EXCEPT !.rev = Renamed(@, stamp, i)]
                      ELSE d[k]]
New(s, stamp, i) == s \in Revision /\ s.n[1] = stamp /\ s.n[2] = i /\ s.n # <<stamp>>
LEMMA AnewWellFormed ==
  ASSUME NEW d, WellFormed(d), NEW stamp \in Nat, NEW i \in Nat,
         \A k \in At(d, {"mark"}) : d[k].rev.n[1] # stamp
  PROVE  LET e == Anew(d, stamp, i)
         IN  /\ WellFormed(e) /\ \A s \in Elements(e) : New(s, stamp, i)
             /\ \A k \in At(e, {"mark"}) : k \in At(d, {"mark"}) /\ e[k].rev = d[k].rev
<1> DEFINE e == Anew(d, stamp, i)
<1>1. IsSeq(d) /\ WellNested(d) /\ \A k \in DOMAIN d : IsToken(d[k]) BY DEF WellFormed, IsSeq
<1>2. IsSeq(e) /\ DOMAIN e = DOMAIN d
  <2>1. DOMAIN e = DOMAIN d /\ e = [k \in DOMAIN d |-> e[k]] BY DEF Anew
  <2>2. Len(d) \in Nat /\ DOMAIN d = 1 .. Len(d) BY <1>1, SeqFacts
  <2> HIDE DEF e
  <2> QED BY <2>1, <2>2, SeqByPositions
<1>3. ASSUME NEW k \in DOMAIN d
      PROVE  /\ e[k] = IF d[k].tag \in {"open", "close"}
                       THEN [d[k] EXCEPT !.rev = Renamed(d[k].rev, stamp, i)]
                       ELSE d[k]
  BY DEF Anew
<1> HIDE DEF e
<1>4. ASSUME NEW k \in DOMAIN d
      PROVE  /\ IsToken(e[k]) /\ e[k].tag = d[k].tag /\ e[k].par = d[k].par
             /\ d[k].tag \in {"open", "close"} => d[k].rev \in Revision /\ e[k].rev = Renamed(d[k].rev, stamp, i)
             /\ d[k].tag \notin {"open", "close"} => e[k] = d[k]
  <2>1. CASE d[k].tag \in {"open", "close"}
    <3> DEFINE t == d[k]
               s == Renamed(t.rev, stamp, i)
    <3>1. t.rev \in Revision /\ {"tag", "par", "rev"} \subseteq DOMAIN t BY <1>1, <2>1 DEF IsToken
    <3>2. s \in Revision BY <3>1, RenamedFacts
    <3>3. e[k] = [t EXCEPT !.rev = s] BY <1>3, <2>1
    <3>4. t.tag \in {"open", "close"} BY <2>1
    <3> HIDE DEF t, s
    <3>5. /\ DOMAIN e[k] = DOMAIN t /\ e[k].tag = t.tag /\ e[k].par = t.par /\ e[k].rev = s
      BY <3>1, <3>3
    <3>6. IsToken(e[k]) BY <3>1, <3>2, <3>4, <3>5 DEF IsToken
    <3> QED BY <2>1, <3>1, <3>5, <3>6 DEF t, s
  <2>2. CASE d[k].tag \notin {"open", "close"} BY <1>1, <1>3, <2>2
  <2> QED BY <2>1, <2>2
<1>5. \A tag : At(e, {tag}) = At(d, {tag}) BY <1>2, <1>4 DEF At
<1>6. \A k \in At(d, {"open"}) : d[k].rev \in Revision /\ e[k].rev = Renamed(d[k].rev, stamp, i)
  BY <1>4 DEF At
<1>7. \A k \in At(d, {"close"}) : d[k].rev \in Revision /\ e[k].rev = Renamed(d[k].rev, stamp, i)
  BY <1>4 DEF At
<1>8. \A r, s \in Revision : Renamed(r, stamp, i) = Renamed(s, stamp, i) => r = s BY RenamedFacts
<1>9. WellNested(e)
  <2>1. \A k, l \in At(e, {"open"}) : e[k].rev = e[l].rev => k = l
    <3> SUFFICES ASSUME NEW k \in At(e, {"open"}), NEW l \in At(e, {"open"}), e[k].rev = e[l].rev
                 PROVE  k = l
      OBVIOUS
    <3>1. k \in At(d, {"open"}) /\ l \in At(d, {"open"}) BY <1>5
    <3>2. d[k].rev = d[l].rev BY <1>6, <1>8, <3>1
    <3> QED BY <1>1, <3>1, <3>2 DEF WellNested
  <2>2. \A k, l \in At(e, {"close"}) : e[k].rev = e[l].rev => k = l
    <3> SUFFICES ASSUME NEW k \in At(e, {"close"}), NEW l \in At(e, {"close"}), e[k].rev = e[l].rev
                 PROVE  k = l
      OBVIOUS
    <3>1. k \in At(d, {"close"}) /\ l \in At(d, {"close"}) BY <1>5
    <3>2. d[k].rev = d[l].rev BY <1>7, <1>8, <3>1
    <3> QED BY <1>1, <3>1, <3>2 DEF WellNested
  <2>3. ASSUME NEW k \in At(e, {"open"})
        PROVE  \E l \in At(e, {"close"}) : k < l /\ e[l].rev = e[k].rev /\ e[l].par = e[k].par
    <3>1. k \in At(d, {"open"}) BY <1>5
    <3>2. PICK l \in At(d, {"close"}) : k < l /\ d[l].rev = d[k].rev /\ d[l].par = d[k].par
      BY <1>1, <3>1 DEF WellNested
    <3>3. k \in DOMAIN d /\ l \in DOMAIN d BY <3>1 DEF At
    <3>4. e[l].par = e[k].par BY <1>4, <3>2, <3>3
    <3>5. e[l].rev = e[k].rev BY <1>6, <1>7, <3>1, <3>2
    <3>6. l \in At(e, {"close"}) BY <1>5
    <3> QED BY <3>2, <3>4, <3>5, <3>6
  <2>4. ASSUME NEW k \in At(e, {"close"}) PROVE \E l \in At(e, {"open"}) : e[l].rev = e[k].rev
    <3>1. k \in At(d, {"close"}) BY <1>5
    <3>2. PICK l \in At(d, {"open"}) : d[l].rev = d[k].rev BY <1>1, <3>1 DEF WellNested
    <3>3. e[l].rev = e[k].rev BY <1>6, <1>7, <3>1, <3>2
    <3>4. l \in At(e, {"open"}) BY <1>5
    <3> QED BY <3>3, <3>4
  <2>5. ASSUME NEW k \in At(e, {"open"}), NEW l \in At(e, {"open"}),
               NEW x \in At(e, {"close"}), NEW y \in At(e, {"close"}),
               e[k].rev = e[x].rev, e[l].rev = e[y].rev, k < l, l < x
        PROVE  y < x
    <3>1. /\ k \in At(d, {"open"}) /\ l \in At(d, {"open"})
          /\ x \in At(d, {"close"}) /\ y \in At(d, {"close"})
      BY <1>5
    <3>2. d[k].rev = d[x].rev /\ d[l].rev = d[y].rev BY <1>6, <1>7, <1>8, <2>5, <3>1
    <3> QED BY <1>1, <2>5, <3>1, <3>2 DEF WellNested
  <2>6. ASSUME NEW k \in At(e, {"open"}), NEW l \in At(e, {"mark"}) PROVE e[k].rev # e[l].rev
    <3>1. k \in At(d, {"open"}) /\ l \in At(d, {"mark"}) BY <1>5
    <3>2. e[k].rev.n[1] = stamp BY <1>6, <3>1, RenamedFacts
    <3>3. e[l] = d[l] BY <1>4, <3>1 DEF At
    <3> QED BY <3>1, <3>2, <3>3
  <2> QED BY <2>1, <2>2, <2>3, <2>4, <2>5, <2>6 DEF WellNested
<1>10. \A s \in Elements(e) : New(s, stamp, i)
  <2> SUFFICES ASSUME NEW s \in Elements(e) PROVE New(s, stamp, i) OBVIOUS
  <2>1. PICK k \in At(e, {"open"}) : e[k].rev = s BY DEF Elements
  <2>2. k \in At(d, {"open"}) BY <1>5
  <2>3. d[k].rev \in Revision /\ s = Renamed(d[k].rev, stamp, i) BY <1>6, <2>1, <2>2
  <2> QED BY <2>3, RenamedFacts DEF New
<1>11. \A k \in At(e, {"mark"}) : k \in At(d, {"mark"}) /\ e[k].rev = d[k].rev
  BY <1>4, <1>5 DEF At
<1>12. WellFormed(e) BY <1>2, <1>4, <1>9 DEF WellFormed, IsSeq
<1> QED BY <1>10, <1>11, <1>12 DEF e

\* One piece of the copy, and a run of them: what is of the elements from lo to hi.
Part(c, d, stamp, lo, hi) ==
  /\ WellFormed(c)
  /\ \A s \in Elements(c) : \E i \in lo .. hi : New(s, stamp, i)
  /\ \A k \in At(c, {"mark"}) : \E j \in At(d, {"mark"}) : c[k].rev = d[j].rev
  /\ Revisions(c) # {} => \E i \in lo .. hi : i \in At(d, {"close"})
Before(d, stamp) == \A r \in Revisions(d) : r.n[1] < stamp

LEMMA StampBefore ==
  ASSUME NEW d, WellFormed(d), NEW stamp \in Nat, Before(d, stamp), NEW r \in Revisions(d)
  PROVE  r \in Revision /\ r.n \in Seq(Nat) /\ r.n[1] \in Nat /\ r.n[1] < stamp /\ r.n[1] # stamp
<1>1. PICK i \in At(d, {"open", "mark"}) : d[i].rev = r BY DEF Revisions
<1>2. r \in Revision BY <1>1 DEF WellFormed, IsToken, At
<1>3. r.n \in Seq(Nat) \ {<<>>} BY <1>2 DEF Revision
<1>4. ASSUME NEW x \in Seq(Nat) \ {<<>>} PROVE x[1] \in Nat OBVIOUS
<1>5. r.n[1] \in Nat BY <1>3, <1>4
<1>6. r.n[1] < stamp BY DEF Before
<1> QED BY <1>2, <1>3, <1>5, <1>6

\* A document of texts is a part of any.
LEMMA TextsPart ==
  ASSUME NEW c, IsSeq(c), \A k \in DOMAIN c : IsToken(c[k]) /\ c[k].tag = "text",
         NEW d, NEW stamp, NEW lo, NEW hi
  PROVE  Part(c, d, stamp, lo, hi)
BY TextsWellFormed DEF Part

LEMMA CopiedPart ==
  ASSUME NEW d, WellFormed(d), NEW stamp \in Nat, Before(d, stamp), NEW i \in DOMAIN d
  PROVE  Part(Copied(d, i, stamp), d, stamp, i, i)
<1> DEFINE t == d[i]
           c == Copied(d, i, stamp)
<1>1. IsSeq(d) /\ WellNested(d) /\ IsToken(t) BY DEF WellFormed, IsSeq
<1>2. CASE t.tag = "text"
  <2>1. {"tag", "par", "text", "form", "run"} \subseteq DOMAIN t BY <1>1, <1>2 DEF IsToken
  <2> DEFINE u == [t EXCEPT !.run = FALSE]
             v == [t EXCEPT !.form = "t"]
  <2>2. IsToken(u) /\ u.tag = "text"
    <3>1. DOMAIN u = DOMAIN t /\ u.tag = t.tag BY <2>1
    <3> HIDE DEF u
    <3> QED BY <1>1, <1>2, <3>1 DEF IsToken
  <2>3. IsToken(v) /\ v.tag = "text"
    <3>1. DOMAIN v = DOMAIN t /\ v.tag = t.tag BY <2>1
    <3> HIDE DEF v
    <3> QED BY <1>1, <1>2, <3>1 DEF IsToken
  <2>4. c = <<u, v>> \/ c = <<t>>
    <3>1. CASE t.run BY <1>2, <3>1 DEF Copied
    <3>2. CASE ~t.run BY <1>2, <3>2 DEF Copied
    <3> QED BY <3>1, <3>2
  <2> HIDE DEF t, c, u, v
  <2>5. IsSeq(c) /\ \A k \in DOMAIN c : c[k] \in {t, u, v}
    <3>1. CASE c = <<u, v>> BY <3>1 DEF IsSeq
    <3>2. CASE c = <<t>> BY <3>2 DEF IsSeq
    <3> QED BY <2>4, <3>1, <3>2
  <2>6. \A k \in DOMAIN c : IsToken(c[k]) /\ c[k].tag = "text" BY <1>1, <1>2, <2>2, <2>3, <2>5
  <2>7. Part(c, d, stamp, i, i) BY <2>5, <2>6, TextsPart
  <2> QED BY <2>7 DEF c
<1>3. CASE t.tag = "close"
  <2> DEFINE s == t.rev
             raw == Span(d, s)
  <2>1. s \in Elements(d) /\ Closing(d, s) = i BY <1>1, <1>3, TagIs DEF At
  <2>2. c = Anew(raw, stamp, i)
    <3> DEFINE this == SubSeq(d, Opening(d, s), i)
    <3>1. c = [k \in DOMAIN this |->
                IF this[k].tag \in {"open", "close"}
                THEN [this[k] EXCEPT !.rev = Renamed(@, stamp, i)]
                ELSE this[k]]
      <4> USE <1>3
      <4> QED BY ZenonT(30) DEF Copied
    <3>2. this = raw BY <2>1 DEF Span
    <3>3. c = Anew(this, stamp, i)
      <4> HIDE DEF c, this
      <4> QED BY <3>1 DEF Anew
    <3> HIDE DEF c, this, raw
    <3> QED BY <3>2, <3>3
  <2>3. /\ WellFormed(raw)
        /\ \A k \in At(raw, {"mark"}) : \E j \in At(d, {"mark"}) : raw[k].rev = d[j].rev
    BY <2>1, RangeWellFormed
  <2> HIDE DEF raw, c
  <2>4. \A k \in At(raw, {"mark"}) : raw[k].rev.n[1] # stamp
    <3> TAKE k \in At(raw, {"mark"})
    <3>1. PICK j \in At(d, {"mark"}) : raw[k].rev = d[j].rev BY <2>3
    <3>2. j \in At(d, {"open", "mark"}) BY DEF At
    <3>3. d[j].rev \in Revisions(d) BY <3>2 DEF Revisions
    <3> QED BY <3>1, <3>3, StampBefore
  <2>5. i \in Nat BY <1>1, SeqFacts
  <2>6. /\ WellFormed(c) /\ \A x \in Elements(c) : New(x, stamp, i)
        /\ \A k \in At(c, {"mark"}) : k \in At(raw, {"mark"}) /\ c[k].rev = raw[k].rev
    BY <2>2, <2>3, <2>4, <2>5, AnewWellFormed
  <2>7. i \in i .. i /\ i \in At(d, {"close"}) BY <1>3, <2>5 DEF At
  <2>8. Part(c, d, stamp, i, i) BY <2>3, <2>6, <2>7 DEF Part
  <2> QED BY <2>8 DEF c
<1>4. CASE t.tag \notin {"text", "close"}
  <2>1. c = <<>> BY <1>4 DEF Copied
  <2>2. IsSeq(<<>>) /\ DOMAIN <<>> = {} BY DEF IsSeq
  <2>3. Part(<<>>, d, stamp, i, i) BY <2>2, TextsPart
  <2> QED BY <2>1, <2>3
<1> QED BY <1>2, <1>3, <1>4

\* A part after a part is a part.
LEMMA PartsJoin ==
  ASSUME NEW d, WellFormed(d), NEW stamp \in Nat, Before(d, stamp),
         NEW lo \in Nat, NEW j \in Nat, lo <= j + 1, NEW x, NEW y,
         Part(x, d, stamp, lo, j), Part(y, d, stamp, j + 1, j + 1)
  PROVE  Part(x \o y, d, stamp, lo, j + 1)
<1>1. WellFormed(x) /\ WellFormed(y) BY DEF Part
<1>2. ASSUME NEW z, NEW u \in Nat, NEW v \in Nat, Part(z, d, stamp, u, v), NEW s \in Elements(z)
      PROVE  s.n[1] = stamp /\ s.n[2] \in u .. v
  BY <1>2 DEF Part, New
<1>3. ASSUME NEW z, NEW u, NEW v, Part(z, d, stamp, u, v), NEW k \in At(z, {"mark"})
      PROVE  z[k].rev.n[1] # stamp
  <2>1. PICK i \in At(d, {"mark"}) : z[k].rev = d[i].rev BY <1>3 DEF Part
  <2>2. i \in At(d, {"open", "mark"}) BY DEF At
  <2>3. d[i].rev \in Revisions(d) BY <2>2 DEF Revisions
  <2> QED BY <2>1, <2>3, StampBefore
<1>4. Foreign(x, y)
  <2>1. \A s \in Elements(x) : s.n[1] = stamp /\ s.n[2] \in lo .. j BY <1>2
  <2>2. \A s \in Elements(y) : s.n[1] = stamp /\ s.n[2] \in j + 1 .. j + 1
    <3>1. j + 1 \in Nat OBVIOUS
    <3> QED BY <1>2, <3>1
  <2>3. Elements(x) \intersect Elements(y) = {}
    <3> SUFFICES ASSUME NEW s \in Elements(x), s \in Elements(y) PROVE FALSE OBVIOUS
    <3>1. s.n[2] \in lo .. j /\ s.n[2] \in j + 1 .. j + 1 BY <2>1, <2>2
    <3> QED BY <3>1
  <2>4. \A k \in At(x, {"mark"}) : x[k].rev.n[1] # stamp BY <1>3
  <2>5. \A k \in At(y, {"mark"}) : y[k].rev.n[1] # stamp BY <1>3
  <2> QED BY <2>1, <2>2, <2>3, <2>4, <2>5 DEF Foreign
<1>5. /\ WellFormed(x \o y) /\ Elements(x \o y) = Elements(x) \union Elements(y)
      /\ Revisions(x \o y) = Revisions(x) \union Revisions(y)
  BY <1>1, <1>4, CatWellFormed
<1>6. ASSUME NEW s \in Elements(x \o y) PROVE \E i \in lo .. j + 1 : New(s, stamp, i)
  <2>1. CASE s \in Elements(x)
    <3>1. PICK i \in lo .. j : New(s, stamp, i) BY <2>1 DEF Part
    <3> QED BY <3>1
  <2>2. CASE s \in Elements(y)
    <3>1. PICK i \in j + 1 .. j + 1 : New(s, stamp, i) BY <2>2 DEF Part
    <3>2. i \in lo .. j + 1 OBVIOUS
    <3> QED BY <3>1, <3>2
  <2> QED BY <1>5, <2>1, <2>2
<1>7. ASSUME NEW k \in At(x \o y, {"mark"})
      PROVE  \E i \in At(d, {"mark"}) : (x \o y)[k].rev = d[i].rev
  <2>1. IsSeq(x) /\ IsSeq(y) BY <1>1 DEF WellFormed, IsSeq
  <2>2. /\ DOMAIN (x \o y) = 1 .. Len(x) + Len(y) /\ Len(x) \in Nat /\ Len(y) \in Nat
        /\ \A i \in 1 .. Len(x) : (x \o y)[i] = x[i]
        /\ \A i \in Len(x) + 1 .. Len(x) + Len(y) : (x \o y)[i] = y[i - Len(x)]
        /\ DOMAIN x = 1 .. Len(x) /\ DOMAIN y = 1 .. Len(y)
    BY <2>1, CatAt, SeqFacts
  <2>3. k \in DOMAIN (x \o y) /\ (x \o y)[k].tag = "mark" BY DEF At
  <2>4. CASE k <= Len(x)
    <3>1. k \in 1 .. Len(x) BY <2>2, <2>3, <2>4
    <3>2. (x \o y)[k] = x[k] /\ k \in At(x, {"mark"}) BY <2>2, <2>3, <3>1 DEF At
    <3> QED BY <3>2 DEF Part
  <2>5. CASE ~(k <= Len(x))
    <3> DEFINE i == k - Len(x)
    <3>1. k \in Len(x) + 1 .. Len(x) + Len(y) /\ i \in 1 .. Len(y) BY <2>2, <2>3, <2>5
    <3>2. (x \o y)[k] = y[i] BY <2>2, <3>1
    <3>3. i \in At(y, {"mark"}) BY <2>2, <2>3, <3>1, <3>2 DEF At
    <3> QED BY <3>2, <3>3 DEF Part
  <2> QED BY <2>4, <2>5
<1>8. ASSUME Revisions(x \o y) # {} PROVE \E i \in lo .. j + 1 : i \in At(d, {"close"})
  <2>1. CASE Revisions(x) # {}
    <3>1. PICK i \in lo .. j : i \in At(d, {"close"}) BY <2>1 DEF Part
    <3> QED BY <3>1
  <2>2. CASE Revisions(y) # {}
    <3>1. PICK i \in j + 1 .. j + 1 : i \in At(d, {"close"}) BY <2>2 DEF Part
    <3>2. i \in lo .. j + 1 OBVIOUS
    <3> QED BY <3>1, <3>2
  <2> QED BY <1>5, <1>8, <2>1, <2>2
<1> QED BY <1>5, <1>6, <1>7, <1>8 DEF Part

\* The function that puts a sequence of sequences end to end.
Flattens(f, seqs) ==
  f = [i \in 1 .. Len(seqs) |-> IF i = 1 THEN seqs[i] ELSE f[i - 1] \o seqs[i]]
UpTo(f, c, n) ==
  f = [i \in 1 .. n |-> IF i = 1 THEN c[i] ELSE f[i - 1] \o c[i]]

LEMMA UpToExists ==
  ASSUME NEW c
  PROVE  \A n \in Nat : \E f : UpTo(f, c, n)
<1> DEFINE S == {n \in Nat : \E f : UpTo(f, c, n)}
<1>1. 0 \in S
  <2>1. UpTo(<<>>, c, 0)
    <3>1. <<>> = [i \in 1 .. 0 |-> IF i = 1 THEN c[i] ELSE <<>>[i - 1] \o c[i]] OBVIOUS
    <3> QED BY <3>1 DEF UpTo
  <2> QED BY <2>1
<1>2. ASSUME NEW n \in Nat, n \in S PROVE n + 1 \in S
  <2>1. PICK f : UpTo(f, c, n) BY <1>2
  <2> DEFINE last == IF n = 0 THEN c[1] ELSE f[n] \o c[n + 1]
             g == [i \in 1 .. n + 1 |-> IF i = n + 1 THEN last ELSE f[i]]
  <2>2. ASSUME NEW i \in 1 .. n + 1
        PROVE  g[i] = IF i = 1 THEN c[i] ELSE g[i - 1] \o c[i]
    <3>1. CASE i = n + 1
      <4>1. g[i] = last BY <3>1
      <4>2. i # 1 => g[i - 1] = f[n] /\ n # 0
        <5> SUFFICES ASSUME i # 1 PROVE g[i - 1] = f[n] /\ n # 0 OBVIOUS
        <5>1. i - 1 = n /\ n \in 1 .. n + 1 /\ n # n + 1 BY <3>1
        <5> HIDE DEF last
        <5> QED BY <5>1
      <4>3. i = 1 => n = 0 BY <3>1
      <4> HIDE DEF g
      <4> QED BY <3>1, <4>1, <4>2, <4>3
    <3>2. CASE i # n + 1
      <4>1. i \in 1 .. n BY <3>2
      <4>2. f[i] = IF i = 1 THEN c[i] ELSE f[i - 1] \o c[i] BY <2>1, <4>1 DEF UpTo
      <4> HIDE DEF last
      <4>3. g[i] = f[i] BY <3>2
      <4>4. i # 1 => g[i - 1] = f[i - 1]
        <5> SUFFICES ASSUME i # 1 PROVE g[i - 1] = f[i - 1] OBVIOUS
        <5>1. i - 1 \in 1 .. n + 1 /\ i - 1 # n + 1 BY <4>1
        <5> QED BY <5>1
      <4> HIDE DEF g
      <4> QED BY <4>2, <4>3, <4>4
    <3> QED BY <3>1, <3>2
  <2>3. g = [i \in 1 .. n + 1 |-> g[i]] OBVIOUS
  <2> HIDE DEF g
  <2>4. UpTo(g, c, n + 1) BY <2>2, <2>3 DEF UpTo
  <2> QED BY <2>4
<1> HIDE DEF S
<1>3. Nat \subseteq S BY <1>1, <1>2, Induction
<1> QED BY <1>3 DEF S

LEMMA NextPart ==
  ASSUME NEW a \in Nat, NEW k \in Nat
  PROVE  /\ a + ((k + 1) + 1) = (a + (k + 1)) + 1 /\ a + 1 \in Nat /\ a + (k + 1) \in Nat
         /\ a + 1 <= (a + (k + 1)) + 1
OBVIOUS

\* Parts one after the other, put end to end, are a part.
LEMMA FlattenParts ==
  ASSUME NEW d, WellFormed(d), NEW stamp \in Nat, Before(d, stamp),
         NEW a \in Nat, NEW n \in Nat, NEW c, c = [k \in 1 .. n |-> c[k]],
         \A k \in 1 .. n : Part(c[k], d, stamp, a + k, a + k)
  PROVE  Part(FlattenSeq(c), d, stamp, a + 1, a + n)
<1> DEFINE F == CHOOSE f : Flattens(f, c)
<1>1. Len(c) = n BY SeqByPositions
<1>2. \A f : Flattens(f, c) <=> UpTo(f, c, n) BY <1>1 DEF Flattens, UpTo
<1>3. UpTo(F, c, n)
  <2>1. \E f : Flattens(f, c) BY <1>2, UpToExists
  <2> QED BY <1>2, <2>1
<1>4. FlattenSeq(c) = IF Len(c) = 0 THEN c ELSE F[Len(c)] BY DEF FlattenSeq, Flattens
<1> HIDE DEF F
<1>5. CASE n = 0
  <2>1. FlattenSeq(c) = c BY <1>1, <1>4, <1>5
  <2>2. IsSeq(c) /\ DOMAIN c = {}
    <3>1. IsSeq(c) BY SeqByPositions
    <3>2. DOMAIN c = 1 .. Len(c) BY <3>1, SeqFacts
    <3> QED BY <1>1, <1>5, <3>1, <3>2
  <2>3. Part(c, d, stamp, a + 1, a + n) BY <2>2, TextsPart
  <2> QED BY <2>1, <2>3
<1>6. CASE n # 0
  <2> DEFINE S == {k \in Nat : k + 1 <= n => Part(F[k + 1], d, stamp, a + 1, a + (k + 1))}
  <2>1. 0 \in S
    <3>1. 1 \in 1 .. n BY <1>6
    <3>2. F[1] = c[1] BY <1>3, <3>1 DEF UpTo
    <3>3. Part(F[1], d, stamp, a + 1, a + 1) BY <3>1, <3>2
    <3> QED BY <3>3
  <2>2. ASSUME NEW k \in Nat, k \in S PROVE k + 1 \in S
    <3> SUFFICES ASSUME (k + 1) + 1 <= n
                 PROVE  Part(F[(k + 1) + 1], d, stamp, a + 1, a + ((k + 1) + 1))
      OBVIOUS
    <3>1. Part(F[k + 1], d, stamp, a + 1, a + (k + 1)) BY <2>2
    <3> HIDE DEF S
    <3>2. (k + 1) + 1 \in 1 .. n /\ (k + 1) + 1 # 1 /\ ((k + 1) + 1) - 1 = k + 1 OBVIOUS
    <3>3. F[(k + 1) + 1] = F[k + 1] \o c[(k + 1) + 1] BY <1>3, <3>2 DEF UpTo
    <3>4. Part(c[(k + 1) + 1], d, stamp, a + ((k + 1) + 1), a + ((k + 1) + 1)) BY <3>2
    <3>5. /\ a + ((k + 1) + 1) = (a + (k + 1)) + 1 /\ a + 1 \in Nat /\ a + (k + 1) \in Nat
          /\ a + 1 <= (a + (k + 1)) + 1
      BY NextPart
    <3>6. Part(F[k + 1] \o c[(k + 1) + 1], d, stamp, a + 1, (a + (k + 1)) + 1)
      BY <3>1, <3>4, <3>5, PartsJoin
    <3> QED BY <3>3, <3>5, <3>6
  <2> HIDE DEF S
  <2>3. Nat \subseteq S BY <2>1, <2>2, Induction
  <2>4. n - 1 \in Nat /\ (n - 1) + 1 = n BY <1>6
  <2>5. Part(F[n], d, stamp, a + 1, a + n) BY <2>3, <2>4 DEF S
  <2> QED BY <1>1, <1>4, <1>6, <2>5
<1> QED BY <1>5, <1>6

\* The copy of an element is a document of new elements.
LEMMA CopyPart ==
  ASSUME NEW d, WellFormed(d), NEW r \in Elements(d), NEW stamp \in Nat, Before(d, stamp)
  PROVE  Part(CopyOf(d, r, stamp), d, stamp, Opening(d, r) + 1, Closing(d, r) - 1)
<1> DEFINE a == Opening(d, r)
           n == Closing(d, r) - a - 1
           c == [k \in 1 .. n |-> Copied(d, a + k, stamp)]
<1>1. IsSeq(d) /\ WellNested(d) BY DEF WellFormed, IsSeq
<1>2. /\ a \in 1 .. Len(d) /\ Closing(d, r) \in 1 .. Len(d) /\ a < Closing(d, r)
      /\ Len(d) \in Nat /\ DOMAIN d = 1 .. Len(d)
  BY <1>1, TagsInOrder, SeqFacts
<1>3. a \in Nat /\ n \in Nat /\ a + n = Closing(d, r) - 1 BY <1>2
<1>4. CopyOf(d, r, stamp) = FlattenSeq(c) BY DEF CopyOf
<1>5. ASSUME NEW k \in 1 .. n PROVE Part(c[k], d, stamp, a + k, a + k)
  <2>1. a + k \in DOMAIN d BY <1>2
  <2>2. c[k] = Copied(d, a + k, stamp) OBVIOUS
  <2> HIDE DEF c, a
  <2> QED BY <2>1, <2>2, CopiedPart
<1>6. c = [k \in 1 .. n |-> c[k]] OBVIOUS
<1> HIDE DEF c, n, a
<1>7. Part(FlattenSeq(c), d, stamp, a + 1, a + n) BY <1>3, <1>5, <1>6, FlattenParts
<1> QED BY <1>3, <1>4, <1>7 DEF a

-----------------------------------------------------------------------------
(* Reinserting a deletion. *)

LEMMA ImageFinite ==
  ASSUME NEW S, IsFiniteSet(S), NEW f
  PROVE  IsFiniteSet({f[x] : x \in S})
<1> DEFINE T == {f[x] : x \in S}
           g == [x \in S |-> f[x]]
<1>1. g \in Surjection(S, T) BY DEF Surjection
<1> QED BY <1>1, FS_Surjection

\* The revisions of a document are finitely many, so an id is free.
LEMMA NextIdFree ==
  ASSUME NEW d, WellFormed(d), others \subseteq Nat, IsFiniteSet(others)
  PROVE  NextId(d) \in Nat /\ NextId(d) \notin UsedIds(d)
<1> DEFINE U == UsedIds(d)
           n == Cardinality(U)
           T == (0 .. n) \ U
<1>1. IsFiniteSet(U)
  <2>1. IsSeq(d) BY DEF WellFormed, IsSeq
  <2>2. IsFiniteSet(DOMAIN d) BY <2>1, SeqFacts, FS_Interval
  <2>3. IsFiniteSet(At(d, {"open", "mark"})) BY <2>2, FS_Subset DEF At
  <2>5. IsFiniteSet(Revisions(d))
    <3> DEFINE S == At(d, {"open", "mark"})
               f == [i \in S |-> d[i].rev]
    <3>1. Revisions(d) = {f[i] : i \in S} BY DEF Revisions
    <3> HIDE DEF f, S
    <3> QED BY <2>3, <3>1, ImageFinite DEF S
  <2>6. IsFiniteSet({r.id : r \in Revisions(d)})
    <3> DEFINE S == Revisions(d)
               f == [r \in S |-> r.id]
    <3>1. {r.id : r \in S} = {f[r] : r \in S} OBVIOUS
    <3> HIDE DEF f, S
    <3>2. IsFiniteSet({f[r] : r \in S}) BY <2>5, ImageFinite DEF S
    <3> QED BY <3>1, <3>2 DEF S
  <2> QED BY <2>6, FS_Union DEF UsedIds
<1>2. n \in Nat BY <1>1, FS_CardinalityType
<1>3. T # {}
  <2> SUFFICES ASSUME T = {} PROVE FALSE OBVIOUS
  <2>1. 0 .. n \subseteq U OBVIOUS
  <2> HIDE DEF U, n
  <2>2. Cardinality(0 .. n) <= Cardinality(U) BY <1>1, <2>1, FS_Subset
  <2>3. Cardinality(0 .. n) = n - 0 + 1 BY <1>2, FS_Interval
  <2> QED BY <1>2, <2>2, <2>3 DEF n
<1>4. T \subseteq Nat BY <1>2
<1> HIDE DEF T
<1>5. \E x \in T : \A y \in T : x <= y BY <1>3, <1>4, Least
<1>6. Min(T) \in T BY <1>5 DEF Min
<1>7. NextId(d) = Min(T) BY DEF NextId, T, n, U
<1> QED BY <1>2, <1>6, <1>7 DEF T, U

LEMMA CatAssoc ==
  ASSUME NEW x, NEW y, NEW z, IsSeq(x), IsSeq(y), IsSeq(z)
  PROVE  (x \o y) \o z = x \o (y \o z)
<1> DEFINE U == {x[i] : i \in DOMAIN x} \union {y[i] : i \in DOMAIN y} \union {z[i] : i \in DOMAIN z}
<1>1. x \in Seq(U) /\ y \in Seq(U) /\ z \in Seq(U)
  <2>1. /\ \A i \in 1 .. Len(x) : x[i] \in U
        /\ \A i \in 1 .. Len(y) : y[i] \in U
        /\ \A i \in 1 .. Len(z) : z[i] \in U
    BY SeqFacts
  <2> HIDE DEF U
  <2>2. /\ [i \in 1 .. Len(x) |-> x[i]] \in Seq(U)
        /\ [i \in 1 .. Len(y) |-> y[i]] \in Seq(U)
        /\ [i \in 1 .. Len(z) |-> z[i]] \in Seq(U)
    BY <2>1, SeqFacts
  <2> QED BY <2>2, SeqFacts
<1> HIDE DEF U
<1> QED BY <1>1

LEMMA OnePosition ==
  ASSUME NEW w, IsSeq(w), NEW i \in 1 .. Len(w)
  PROVE  SubSeq(w, i, i) = <<w[i]>>
<1> DEFINE s == SubSeq(w, i, i)
<1>1. i \in Nat \ {0} /\ i \in Nat /\ i <= Len(w) /\ i <= i + 1 /\ i - i + 1 = 1 BY SeqFacts
<1>2. /\ IsSeq(s) /\ Len(s) = i - i + 1
      /\ \A k \in 1 .. i - i + 1 : s[k] = w[k + i - 1]
  BY <1>1, SubAt
<1> HIDE DEF s
<1>3. s = [k \in 1 .. 1 |-> s[k]] BY <1>1, <1>2, SeqFacts
<1>4. s[1] = w[i]
  <2>1. 1 \in 1 .. i - i + 1 /\ 1 + i - 1 = i BY <1>1
  <2> QED BY <1>2, <2>1
<1>5. s = <<w[i]>> BY <1>3, <1>4
<1> QED BY <1>5 DEF s

\* What comes after the deletion: an insertion of its own with the copy in it.
Comes(m, d, r, stamp) ==
  /\ WellFormed(m) /\ Foreign(d, m)
  /\ \E s \in Elements(m) : s.kind = "insert" /\ s.id = NextId(d) /\ s.n = <<stamp>>
  /\ \A s \in Elements(m) : s \in Revision /\ s.n[1] = stamp
  /\ \A s \in Revisions(m) : s.n[1] = stamp \/ s \in Revisions(d)
  /\ (\A s \in Elements(d) : ~Inside(d, s, r)) =>
       Revisions(m) = {[kind |-> "insert", id |-> NextId(d), n |-> <<stamp>>]}

\* An insertion around a document.
Around(c, new, par) ==
  (<<[tag |-> "open", rev |-> new, par |-> par]>> \o c)
    \o <<[tag |-> "close", rev |-> new, par |-> par]>>
LEMMA AroundWellFormed ==
  ASSUME NEW c, WellFormed(c), NEW new \in Revision, NEW par, new \notin Elements(c),
         \A k \in At(c, {"mark"}) : c[k].rev # new
  PROVE  LET m == Around(c, new, par)
         IN  /\ WellFormed(m) /\ Elements(m) = Elements(c) \union {new}
             /\ Revisions(m) = Revisions(c) \union {new}
             /\ \A k \in At(m, {"mark"}) : \E j \in At(c, {"mark"}) : m[k].rev = c[j].rev
<1> DEFINE o == [tag |-> "open", rev |-> new, par |-> par]
           z == [tag |-> "close", rev |-> new, par |-> par]
           w == <<o, z>>
<1>1. IsSeq(w) /\ Len(w) = 2 /\ DOMAIN w = {1, 2} /\ w[1] = o /\ w[2] = z
  <2> HIDE DEF o, z
  <2> QED BY DEF IsSeq
<1>2. /\ IsToken(o) /\ IsToken(z) /\ o.tag = "open" /\ z.tag = "close" /\ o.rev = new /\ z.rev = new
      /\ o.par = z.par
  <2>1. DOMAIN o = {"tag", "rev", "par"} /\ DOMAIN z = {"tag", "rev", "par"} OBVIOUS
  <2> QED BY <2>1 DEF IsToken
<1> HIDE DEF w, o, z
<1>3. SubSeq(w, 1, 1) = <<o>> /\ SubSeq(w, 2, Len(w)) = <<z>>
  <2>1. 1 \in 1 .. Len(w) /\ 2 \in 1 .. Len(w) BY <1>1
  <2>2. SubSeq(w, 1, 1) = <<w[1]>> /\ SubSeq(w, 2, 2) = <<w[2]>> BY <1>1, <2>1, OnePosition
  <2> QED BY <1>1, <2>2
<1>4. /\ At(w, {"open"}) = {1} /\ At(w, {"close"}) = {2} /\ At(w, {"mark"}) = {}
      /\ At(w, {"open", "mark"}) = {1}
  BY <1>1, <1>2 DEF At
<1>5. WellFormed(w)
  <2>1. WellNested(w)
    <3>1. \A i, j \in At(w, {"open"}) : w[i].rev = w[j].rev => i = j BY <1>4
    <3>2. \A i, j \in At(w, {"close"}) : w[i].rev = w[j].rev => i = j BY <1>4
    <3>3. \A i \in At(w, {"open"}) : \E j \in At(w, {"close"}) :
            i < j /\ w[j].rev = w[i].rev /\ w[j].par = w[i].par
      BY <1>1, <1>2, <1>4
    <3>4. \A j \in At(w, {"close"}) : \E i \in At(w, {"open"}) : w[i].rev = w[j].rev
      BY <1>1, <1>2, <1>4
    <3>5. \A i, j \in At(w, {"open"}), x, y \in At(w, {"close"}) :
            w[i].rev = w[x].rev /\ w[j].rev = w[y].rev /\ i < j /\ j < x => y < x
      BY <1>4
    <3>6. \A i \in At(w, {"open"}), j \in At(w, {"mark"}) : w[i].rev # w[j].rev BY <1>4
    <3> QED BY <3>1, <3>2, <3>3, <3>4, <3>5, <3>6 DEF WellNested
  <2>2. \A i \in DOMAIN w : IsToken(w[i]) BY <1>1, <1>2
  <2> QED BY <1>1, <2>1, <2>2 DEF WellFormed, IsSeq
<1>6. Elements(w) = {new} /\ Revisions(w) = {new} BY <1>1, <1>2, <1>4 DEF Elements, Revisions
<1>7. Foreign(w, c) BY <1>4, <1>6 DEF Foreign
<1> DEFINE e == Splice(w, 1, c, 1 + 1)
<1>8. /\ WellFormed(e) /\ Elements(e) = Elements(w) \union Elements(c)
      /\ Revisions(e) = Revisions(w) \union Revisions(c)
      /\ Joins(Old(w, c, 1), Added(c, 1), e, w, c)
  <2>1. 1 <= Len(w) BY <1>1
  <2> QED BY <1>5, <1>7, <2>1, InsertWellFormed
<1>10. \A k \in At(e, {"mark"}) : \E j \in At(c, {"mark"}) : e[k].rev = c[j].rev
  <2> TAKE k \in At(e, {"mark"})
  <2> HIDE DEF e
  <2>1. \/ \E i \in At(w, {"mark"}) : Old(w, c, 1)[i] = k /\ e[k] = w[i]
        \/ \E i \in At(c, {"mark"}) : Added(c, 1)[i] = k /\ e[k] = c[i]
    BY <1>8, JoinsTags
  <2> QED BY <1>4, <2>1
<1>9. e = (<<o>> \o c) \o <<z>>
  <2>1. 1 + 1 = 2 OBVIOUS
  <2> QED BY <1>3, <2>1 DEF Splice
<1> HIDE DEF e
<1> QED BY <1>6, <1>8, <1>9, <1>10 DEF o, z, Around

LEMMA ReinsertedComes ==
  ASSUME NEW d, WellFormed(d), NEW r \in Elements(d), NEW stamp \in Nat, Before(d, stamp),
         others \subseteq Nat, IsFiniteSet(others), NEW said \in Sayings
  PROVE  \E m : /\ Comes(m, d, r, stamp)
                /\ Reinserted(d, r, stamp, said) = Splice(d, Closing(d, r), m, Closing(d, r) + 1)
<1> DEFINE a == Opening(d, r)
           b == Closing(d, r)
           par == d[a].par
           new == [kind |-> "insert", id |-> NextId(d), n |-> <<stamp>>]
           copy == CopyOf(d, r, stamp)
           run(text) == [tag |-> "text", text |-> text, form |-> "t", run |-> TRUE, par |-> par]
           texts == [k \in DOMAIN said |-> run(said[k])]
           c == IF copy = <<>> THEN texts ELSE copy
           o == [tag |-> "open", rev |-> new, par |-> par]
           z == [tag |-> "close", rev |-> new, par |-> par]
           m == Around(c, new, par)
<1>1. IsSeq(d) /\ WellNested(d) BY DEF WellFormed, IsSeq
<1>2. /\ a \in 1 .. Len(d) /\ b \in 1 .. Len(d) /\ a < b /\ Len(d) \in Nat
      /\ DOMAIN d = 1 .. Len(d)
  BY <1>1, TagsInOrder, SeqFacts
<1>3. new \in Revision /\ new.n = <<stamp>> /\ new.n[1] = stamp
  <2>1. NextId(d) \in Nat BY NextIdFree
  <2>2. <<stamp>> \in Seq(Nat) \ {<<>>} OBVIOUS
  <2>3. "insert" \in Insertions BY DEF Insertions
  <2> QED BY <2>1, <2>2, <2>3 DEF Revision
<1>4. Part(c, d, stamp, a + 1, b - 1)
  <2>1. IsSeq(texts) /\ \A k \in DOMAIN texts : IsToken(texts[k]) /\ texts[k].tag = "text"
    <3>1. DOMAIN said = 1 .. 0 \/ DOMAIN said = 1 .. 1 BY DEF Sayings
    <3>2. texts = [k \in DOMAIN said |-> texts[k]] OBVIOUS
    <3>3. \A k \in DOMAIN said : texts[k] = run(said[k]) OBVIOUS
    <3>4. \A x : IsToken(run(x)) /\ run(x).tag = "text"
      <4> TAKE x
      <4>1. DOMAIN run(x) = {"tag", "text", "form", "run", "par"} /\ run(x).tag = "text" OBVIOUS
      <4> HIDE DEF run
      <4> QED BY <4>1 DEF IsToken
    <3> HIDE DEF run
    <3>5. DOMAIN texts = DOMAIN said OBVIOUS
    <3> HIDE DEF texts
    <3>6. IsSeq(texts) BY <3>1, <3>2, SeqByPositions
    <3> QED BY <3>3, <3>4, <3>5, <3>6
  <2> HIDE DEF texts
  <2>2. Part(texts, d, stamp, a + 1, b - 1) BY <2>1, TextsPart
  <2>3. Part(copy, d, stamp, a + 1, b - 1) BY CopyPart
  <2> QED BY <2>2, <2>3
<1> HIDE DEF c, copy, texts, a, b
<1>5. WellFormed(c) /\ IsSeq(c) BY <1>4 DEF Part, WellFormed, IsSeq
<1>6. \A s \in Elements(c) : s \in Revision /\ s.n[1] = stamp /\ s.n # <<stamp>>
  BY <1>4 DEF Part, New
<1>7. ASSUME NEW k \in At(c, {"mark"})
      PROVE  /\ c[k].rev \in Revisions(d) /\ c[k].rev.n[1] # stamp /\ c[k].rev \notin Elements(d)
  <2>1. PICK j \in At(d, {"mark"}) : c[k].rev = d[j].rev BY <1>4 DEF Part
  <2>2. j \in At(d, {"open", "mark"}) BY DEF At
  <2>3. d[j].rev \in Revisions(d) BY <2>2 DEF Revisions
  <2>4. d[j].rev \notin Elements(d) BY <1>1 DEF WellNested, Elements
  <2> QED BY <2>1, <2>3, <2>4, StampBefore
<1> HIDE DEF new
<1>8. /\ WellFormed(m) /\ Elements(m) = Elements(c) \union {new}
      /\ Revisions(m) = Revisions(c) \union {new}
      /\ \A k \in At(m, {"mark"}) : \E j \in At(c, {"mark"}) : m[k].rev = c[j].rev
  <2>1. new \notin Elements(c) BY <1>3, <1>6
  <2>2. \A k \in At(c, {"mark"}) : c[k].rev # new BY <1>3, <1>7
  <2>3. new \in Revision BY <1>3
  <2>4. WellFormed(c) BY <1>5
  <2> HIDE DEF par
  <2> QED BY <2>1, <2>2, <2>3, <2>4, AroundWellFormed
<1>9. Reinserted(d, r, stamp, said) = Splice(d, b, m, b + 1)
  <2> DEFINE x == SubSeq(d, 1, b)
             y == SubSeq(d, b + 1, Len(d))
  <2>1. IsSeq(x)
    <3>1. 1 \in Nat \ {0} /\ b \in Nat /\ b <= Len(d) /\ 1 <= b + 1 BY <1>2
    <3> QED BY <1>1, <3>1, SubAt
  <2>0. m = (<<o>> \o c) \o <<z>> BY DEF Around
  <2>2. Reinserted(d, r, stamp, said) = (((x \o <<o>>) \o c) \o <<z>>) \o y
    BY DEF Reinserted, a, b, c, copy, texts, new
  <2> HIDE DEF x, y, o, z, m
  <2>3. IsSeq(<<o>>) /\ IsSeq(<<z>>) BY DEF IsSeq
  <2>4. (x \o <<o>>) \o c = x \o (<<o>> \o c) BY <1>5, <2>1, <2>3, CatAssoc
  <2>5. IsSeq(<<o>> \o c) BY <1>5, <2>3, CatAt
  <2>6. (x \o (<<o>> \o c)) \o <<z>> = x \o m BY <2>0, <2>1, <2>3, <2>5, CatAssoc
  <2>7. Reinserted(d, r, stamp, said) = (x \o m) \o y BY <2>2, <2>4, <2>6
  <2> QED BY <2>7 DEF Splice, x, y
<1> HIDE DEF m
<1>10. \A s \in Elements(d) : s \in Revisions(d) BY DEF Elements, Revisions, At
<1>11. \A s \in Elements(m) : s \in Revision /\ s.n[1] = stamp BY <1>3, <1>6, <1>8
<1>12. Foreign(d, m)
  <2>1. Elements(d) \intersect Elements(m) = {}
    <3> SUFFICES ASSUME NEW s \in Elements(d), s \in Elements(m) PROVE FALSE OBVIOUS
    <3>1. s.n[1] # stamp BY <1>10, StampBefore
    <3> QED BY <1>11, <3>1
  <2>2. \A i \in At(d, {"mark"}) : d[i].rev \notin Elements(m)
    <3> TAKE i \in At(d, {"mark"})
    <3>1. i \in At(d, {"open", "mark"}) BY DEF At
    <3>2. d[i].rev \in Revisions(d) BY <3>1 DEF Revisions
    <3> QED BY <1>11, <3>2, StampBefore
  <2>3. \A i \in At(m, {"mark"}) : m[i].rev \notin Elements(d) BY <1>7, <1>8
  <2> QED BY <2>1, <2>2, <2>3 DEF Foreign
<1>13. ASSUME NEW s \in Revisions(m) PROVE s.n[1] = stamp \/ s \in Revisions(d)
  <2>1. CASE s = new BY <1>3, <2>1
  <2>2. CASE s \in Revisions(c)
    <3>1. PICK k \in At(c, {"open", "mark"}) : c[k].rev = s BY <2>2 DEF Revisions
    <3>2. CASE k \in At(c, {"open"})
      <4>1. s \in Elements(c) BY <3>1, <3>2 DEF Elements
      <4> QED BY <1>6, <4>1
    <3>3. CASE k \in At(c, {"mark"}) BY <1>7, <3>1, <3>3
    <3> QED BY <3>2, <3>3 DEF At
  <2> QED BY <1>8, <2>1, <2>2
<1>14. ASSUME \A s \in Elements(d) : ~Inside(d, s, r) PROVE Revisions(m) = {new}
  <2> SUFFICES ASSUME Revisions(c) # {} PROVE FALSE BY <1>8
  <2>1. PICK i \in a + 1 .. b - 1 : i \in At(d, {"close"}) BY <1>4 DEF Part
  <2> DEFINE s == d[i].rev
  <2>2. s \in Elements(d) /\ Closing(d, s) = i BY <1>1, <2>1, TagIs
  <2>3. s # r BY <1>2, <2>2 DEF b
  <2>4. /\ Opening(d, s) \in Int /\ Opening(d, s) < i
        /\ \/ a < Opening(d, s) /\ i < b
           \/ Opening(d, s) < a /\ b < i
           \/ b < Opening(d, s)
           \/ i < a
    BY <1>1, <2>2, <2>3, Beside, TagsInOrder DEF a, b
  <2> HIDE DEF s
  <2>5. Opening(d, s) \in a .. b BY <1>2, <2>1, <2>4
  <2> QED BY <1>14, <2>2, <2>3, <2>5 DEF Inside, Range_, a, b
<1>15. \E s \in Elements(m) : s.kind = "insert" /\ s.id = NextId(d) /\ s.n = <<stamp>>
  <2>1. new \in Elements(m) BY <1>8
  <2>2. new.kind = "insert" /\ new.id = NextId(d) /\ new.n = <<stamp>> BY DEF new
  <2> QED BY <2>1, <2>2
<1>16. Comes(m, d, r, stamp) BY <1>8, <1>11, <1>12, <1>13, <1>14, <1>15 DEF Comes, new
<1> QED BY <1>9, <1>16 DEF b

LEMMA ReinsertedWellFormed ==
  ASSUME NEW d, WellFormed(d), NEW r \in Elements(d), NEW stamp \in Nat, Before(d, stamp),
         others \subseteq Nat, IsFiniteSet(others), NEW said \in Sayings
  PROVE  LET e == Reinserted(d, r, stamp, said)
         IN  WellFormed(e) /\ Before(e, stamp + 1)
<1> DEFINE e == Reinserted(d, r, stamp, said)
<1>1. PICK m : Comes(m, d, r, stamp) /\ e = Splice(d, Closing(d, r), m, Closing(d, r) + 1)
  BY ReinsertedComes
<1> HIDE DEF e
<1>2. IsSeq(d) /\ WellNested(d) BY DEF WellFormed, IsSeq
<1>3. Closing(d, r) \in Nat /\ Closing(d, r) <= Len(d) BY <1>2, TagsInOrder
<1>4. WellFormed(e) /\ Revisions(e) = Revisions(d) \union Revisions(m)
  BY <1>1, <1>3, InsertWellFormed DEF Comes
<1>5. \A s \in Revisions(e) : s.n[1] < stamp + 1
  <2> TAKE s \in Revisions(e)
  <2>1. CASE s \in Revisions(d)
    <3>1. s.n[1] \in Nat /\ s.n[1] < stamp BY <2>1, StampBefore
    <3> QED BY <3>1
  <2>2. CASE s.n[1] = stamp BY <2>2
  <2> QED BY <1>1, <1>4, <2>1, <2>2 DEF Comes
<1> QED BY <1>4, <1>5 DEF Before, e

\* A reinsertion leaves every other revision with the text it owns, but one
\* around the deletion.
LEMMA ReinsertedOthers ==
  ASSUME NEW d, WellFormed(d), NEW r \in Elements(d), NEW stamp \in Nat, Before(d, stamp),
         others \subseteq Nat, IsFiniteSet(others), NEW said \in Sayings,
         NEW s \in Elements(d) \ {r}
  PROVE  /\ s \in Elements(Reinserted(d, r, stamp, said))
         /\ Inside(d, r, s) \/ OwnText(Reinserted(d, r, stamp, said), s) = OwnText(d, s)
<1> DEFINE e == Reinserted(d, r, stamp, said)
           b == Closing(d, r)
<1>1. PICK m : Comes(m, d, r, stamp) /\ e = Splice(d, b, m, b + 1)
  BY ReinsertedComes
<1> HIDE DEF e
<1>2. IsSeq(d) /\ WellNested(d) BY DEF WellFormed, IsSeq
<1>3. b \in Nat /\ b <= Len(d) BY <1>2, TagsInOrder
<1> DEFINE f == Old(d, m, b)
           h == Added(m, b)
<1>4. /\ WellFormed(e) /\ IsSeq(e) /\ Joins(f, h, e, d, m)
      /\ Elements(e) = Elements(d) \union Elements(m)
  BY <1>1, <1>3, InsertWellFormed DEF Comes
<1>5. WellNested(e) BY <1>4 DEF WellFormed
<1>6. IsSeq(m) /\ WellNested(m) /\ Foreign(d, m) BY <1>1 DEF Comes, WellFormed, IsSeq
<1>7. /\ Len(m) \in Nat /\ DOMAIN m = 1 .. Len(m) /\ Len(d) \in Nat /\ DOMAIN d = 1 .. Len(d)
  BY <1>2, <1>6, SeqFacts
<1>8. /\ \A i \in DOMAIN d : f[i] = IF i <= b THEN i ELSE i + Len(m)
      /\ \A k \in DOMAIN m : h[k] \in b + 1 .. b + Len(m)
  BY <1>3, <1>7 DEF Old, Added
<1> HIDE DEF f, h
<1>9. Embeds(f, d, e)
  <2>1. \A i \in DOMAIN d : f[i] \in DOMAIN e /\ e[f[i]] = d[i] BY <1>4 DEF Joins
  <2>2. ASSUME NEW i \in At(d, {"open", "close"}), NEW j \in At(e, {"open", "close"}),
               e[j].rev = d[i].rev
        PROVE  \E k \in DOMAIN d : f[k] = j
    <3>1. \/ \E k \in At(d, {"open", "close"}) : f[k] = j /\ e[j] = d[k]
          \/ \E k \in At(m, {"open", "close"}) : h[k] = j /\ e[j] = m[k]
      BY <1>4, JoinsTags
    <3>2. CASE \E k \in At(d, {"open", "close"}) : f[k] = j /\ e[j] = d[k]
      BY <3>2 DEF At
    <3>3. CASE \E k \in At(m, {"open", "close"}) : h[k] = j /\ e[j] = m[k]
      <4>1. PICK k \in At(m, {"open", "close"}) : e[j] = m[k] BY <3>3
      <4>2. \A x \in At(m, {"open", "close"}) : x \in At(m, {"open"}) \/ x \in At(m, {"close"})
        BY DEF At
      <4>3. m[k].rev \in Elements(m) BY <1>6, <4>2, TagIs
      <4>4. \A x \in At(d, {"open", "close"}) : x \in At(d, {"open"}) \/ x \in At(d, {"close"})
        BY DEF At
      <4>5. d[i].rev \in Elements(d) BY <1>2, <4>4, TagIs
      <4> QED BY <1>6, <2>2, <4>1, <4>3, <4>5 DEF Foreign
    <3> QED BY <3>1, <3>2, <3>3
  <2>3. \A i, j \in DOMAIN d : i < j => f[i] < f[j] BY <1>4 DEF Joins
  <2> QED BY <2>1, <2>2, <2>3 DEF Embeds
<1>10. ASSUME ~Inside(d, r, s) PROVE OwnText(d, s) = OwnText(e, s)
  <2> DEFINE x == Opening(d, s)
             y == Closing(d, s)
  <2>1. /\ x \in DOMAIN d /\ y \in DOMAIN d /\ x < y
        /\ x \in Int /\ y \in Int /\ x # b /\ y # b
        /\ Opening(d, r) \in Int /\ Opening(d, r) < b
        /\ \/ Opening(d, r) < x /\ y < b
           \/ x < Opening(d, r) /\ b < y
           \/ b < x
           \/ y < Opening(d, r)
    BY <1>2, <1>7, Beside, TagsInOrder
  <2>2. Opening(e, s) = f[x] /\ Closing(e, s) = f[y] BY <1>2, <1>4, <1>5, <1>9, EmbedsElement
  <2>3. ~(x < Opening(d, r) /\ b < y)
    <3> SUFFICES ASSUME x < Opening(d, r), b < y PROVE FALSE OBVIOUS
    <3>1. Opening(d, r) \in x .. y
      <4> DEFINE u == Opening(d, r)
      <4>1. u \in Int /\ u < b /\ x \in Int /\ y \in Int BY <2>1
      <4> HIDE DEF u, x, y, b
      <4>2. x < u /\ b < y /\ b \in Nat BY <1>3 DEF u
      <4> QED BY <4>1, <4>2 DEF u
    <3> QED BY <1>10, <3>1 DEF Inside, Range_
  <2> HIDE DEF x, y
  <2>4. y < b \/ b < x BY <1>3, <2>1, <2>3
  <2>5. \A k \in b + 1 .. b + Len(m) : k \notin Range_(e, s)
    <3>1. CASE y < b
      <4>1. f[y] = y BY <1>3, <1>8, <2>1, <3>1
      <4> QED BY <1>3, <2>1, <2>2, <3>1, <4>1 DEF Range_
    <3>2. CASE b < x
      <4>1. f[x] = x + Len(m) BY <1>3, <1>8, <2>1, <3>2
      <4> QED BY <1>3, <1>7, <2>1, <2>2, <3>2, <4>1 DEF Range_
    <3> QED BY <2>4, <3>1, <3>2
  <2>6. \A k \in DOMAIN e : k \in Range_(e, s) => \E i \in DOMAIN d : f[i] = k
    BY <1>4, <1>8, <2>5 DEF Joins
  <2>7. \A j \in Owned(e, s) : \E i \in DOMAIN d : f[i] = j BY <2>6 DEF Owned, At
  <2>8. ASSUME NEW i \in DOMAIN d, NEW t \in Elements(e), Inside(e, t, s)
        PROVE  t \in Elements(d)
    <3>1. Opening(e, t) \in At(e, {"open"}) /\ e[Opening(e, t)].rev = t BY <1>5, Tags
    <3>2. Opening(e, t) \in Range_(e, s) /\ Opening(e, t) \in DOMAIN e BY <2>8, <3>1 DEF Inside, At
    <3>3. PICK k \in DOMAIN d : f[k] = Opening(e, t) BY <2>6, <3>2
    <3>4. e[f[k]] = d[k] BY <1>4 DEF Joins
    <3>5. d[k].rev = t /\ k \in At(d, {"open"}) BY <3>1, <3>3, <3>4 DEF At
    <3> QED BY <3>5 DEF Elements
  <2> QED BY <1>2, <1>4, <1>5, <1>9, <2>7, <2>8, OwnAlike
<1>11. s \in Elements(e) BY <1>4
<1> QED BY <1>10, <1>11 DEF e

-----------------------------------------------------------------------------
(* The element a decision takes, and what a step does to the document. *)

LEMMA TargetIs ==
  ASSUME NEW d, WellFormed(d), NEW id, Found(d, id)
  PROVE  /\ Target(d, id) \in Elements(d) /\ Target(d, id).id = id
         /\ ~Locked(d, d[Opening(d, Target(d, id))].par)
<1> DEFINE H == Hits(d, id)
           i == Min(H)
<1>1. IsSeq(d) /\ WellNested(d) BY DEF WellFormed, IsSeq
<1>2. H # {} /\ d[i].tag = "close" /\ ~Locked(d, d[i].par) BY DEF Found, First
<1>3. H \subseteq Nat BY <1>1, SeqFacts DEF Hits, At
<1>4. \E m \in H : \A k \in H : m <= k
  <2> HIDE DEF H
  <2> QED BY <1>2, <1>3, Least
<1>5. i \in H
  <2> HIDE DEF H
  <2> QED BY <1>4 DEF Min
<1>6. i \in At(d, {"close"}) /\ d[i].rev.id = id BY <1>2, <1>5 DEF Hits, At
<1>7. d[i].rev \in Elements(d) /\ Closing(d, d[i].rev) = i BY <1>1, <1>6, TagIs
<1>8. d[Opening(d, d[i].rev)].par = d[i].par BY <1>1, <1>7, Tags
<1>9. Target(d, id) = d[i].rev BY DEF Target, First
<1> HIDE DEF i
<1> QED BY <1>2, <1>6, <1>7, <1>8, <1>9

LEMMA ElementsAreRevisions ==
  ASSUME NEW d
  PROVE  Elements(d) \subseteq Revisions(d)
BY DEF Elements, Revisions, At

\* A decision settles or reinserts an element of the document.
LEMMA DecideStep ==
  ASSUME TypeOK, NEW given, NEW action, NEW said, Decide(given, action, said)
  PROVE  \E r \in Elements(doc) : /\ doc' = Outcome(doc, r, action, Stamp, said)
                                  /\ decisions' = [action |-> action, rev |-> r]
<1>1. Found(doc, given.key.id) BY DEF Decide, Carried
<1>2. Target(doc, given.key.id) \in Elements(doc) BY <1>1, TargetIs DEF TypeOK
<1> QED BY <1>2 DEF Decide

LEMMA StampIsLater ==
  ASSUME TypeOK
  PROVE  /\ WellFormed(doc) /\ Before(doc, Stamp) /\ Stamp \in Nat
         /\ others \subseteq Nat /\ IsFiniteSet(others)
BY DEF TypeOK, Before, Stamp

\* The outcome of a decision is a document again, with no revision of a later stamp.
LEMMA OutcomeWellFormed ==
  ASSUME TypeOK, NEW r \in Elements(doc), NEW action, NEW said \in Sayings
  PROVE  LET e == Outcome(doc, r, action, Stamp, said)
         IN  WellFormed(e) /\ Before(e, Stamp + 1)
<1>1. /\ WellFormed(doc) /\ Before(doc, Stamp) /\ Stamp \in Nat
      /\ others \subseteq Nat /\ IsFiniteSet(others)
  BY StampIsLater
<1>2. CASE action = "reinsert"
  <2>1. Outcome(doc, r, action, Stamp, said) = Reinserted(doc, r, Stamp, said)
    BY <1>2 DEF Outcome
  <2> QED BY <1>1, <2>1, ReinsertedWellFormed
<1>3. CASE action # "reinsert"
  <2> DEFINE e == Settled(doc, r, action)
  <2>1. Outcome(doc, r, action, Stamp, said) = e BY <1>3 DEF Outcome
  <2>2. WellFormed(e) /\ Revisions(e) \subseteq Revisions(doc) BY <1>1, SettledWellFormed
  <2> HIDE DEF e
  <2>3. Before(e, Stamp + 1)
    <3> SUFFICES ASSUME NEW s \in Revisions(e) PROVE s.n[1] < Stamp + 1 BY DEF Before
    <3>1. s.n[1] \in Nat /\ s.n[1] < Stamp BY <1>1, <2>2, StampBefore
    <3> QED BY <1>1, <3>1
  <2> QED BY <2>1, <2>2, <2>3
<1> QED BY <1>2, <1>3

-----------------------------------------------------------------------------
(* The theorems. *)

LEMMA TypeInit == Init => TypeOK
<1> SUFFICES ASSUME Init PROVE TypeOK OBVIOUS
<1>1. PICK p \in Start : doc = p.doc /\ others = p.others BY DEF Init
<1>2. made = 0 BY DEF Init
<1>3. Stamp = 100 BY <1>2 DEF Stamp
<1> QED BY <1>1, <1>2, <1>3, StartAssumption DEF TypeOK

LEMMA TypeStep == TypeOK /\ [Next]_vars => TypeOK'
<1> SUFFICES ASSUME TypeOK, [Next]_vars PROVE TypeOK' OBVIOUS
<1>1. CASE List BY <1>1 DEF List, TypeOK, Stamp
<1>2. ASSUME NEW given \in known, NEW action \in Actions, NEW said \in Sayings,
             Decide(given, action, said)
      PROVE  TypeOK'
  <2>1. PICK r \in Elements(doc) : doc' = Outcome(doc, r, action, Stamp, said)
    BY <1>2, DecideStep
  <2>2. made' = made + 1 /\ others' = others /\ made \in Nat BY <1>2 DEF Decide, TypeOK
  <2>3. Stamp' = Stamp + 1 BY <2>2 DEF Stamp
  <2> DEFINE e == Outcome(doc, r, action, Stamp, said)
  <2>4. WellFormed(e) /\ Before(e, Stamp + 1) BY OutcomeWellFormed
  <2> HIDE DEF e
  <2>5. doc' = e BY <2>1 DEF e
  <2>6. WellFormed(doc') /\ \A s \in Revisions(doc') : s.n[1] < Stamp'
    BY <2>3, <2>4, <2>5 DEF Before
  <2>7. made' \in Nat /\ others' \subseteq Nat /\ IsFiniteSet(others') BY <2>2 DEF TypeOK
  <2> QED BY <2>6, <2>7 DEF TypeOK
<1>3. CASE UNCHANGED vars BY <1>3 DEF vars, TypeOK, Stamp
<1> QED BY <1>1, <1>2, <1>3 DEF Next

\* Whatever is decided, and however often, `document.xml` stays a document of
\* well-nested revision elements (`settle_one_revision`, `reinsert_deletion`).
THEOREM TypeCorrect == Spec => []TypeOK
BY TypeInit, TypeStep, PTL DEF Spec

\* Where ids are unique the inventory calls editable what a decision carries out.
LEMMA Honest == TypeOK => InventoryHonest
<1> SUFFICES ASSUME TypeOK, Distinct(doc), NEW r \in Revisions(doc),
                    NEW action \in {"accept", "reject"}
             PROVE  Editable(doc, r) <=> Carried(doc, KeyOf(doc, r), action, Stamp, <<>>)
  BY DEF InventoryHonest
<1> DEFINE key == KeyOf(doc, r)
<1>1. WellFormed(doc) /\ IsSeq(doc) /\ WellNested(doc) BY DEF TypeOK, WellFormed, IsSeq
<1>2. key.kind = r.kind /\ key.id = r.id /\ key.text = TextOf(doc, r) BY DEF KeyOf
<1> HIDE DEF key
<1>3. Elements(doc) \subseteq Revisions(doc) BY ElementsAreRevisions
<1>4. ASSUME Editable(doc, r) PROVE Carried(doc, key, action, Stamp, <<>>)
  <2>1. r \in Elements(doc) /\ ~Locked(doc, doc[Opening(doc, r)].par) BY <1>4 DEF Editable
  <2>2. /\ Closing(doc, r) \in At(doc, {"close"}) /\ doc[Closing(doc, r)].rev = r
        /\ doc[Opening(doc, r)].par = doc[Closing(doc, r)].par
    BY <1>1, <2>1, Tags
  <2> DEFINE H == Hits(doc, key.id)
  <2>3. H = {Closing(doc, r)}
    <3>1. Closing(doc, r) \in H BY <1>2, <2>2 DEF Hits, At
    <3>2. ASSUME NEW i \in H PROVE i = Closing(doc, r)
      <4>1. i \in At(doc, {"close", "mark"}) /\ doc[i].rev.id = r.id BY <1>2 DEF Hits
      <4>2. CASE i \in At(doc, {"close"})
        <5>1. doc[i].rev \in Elements(doc) /\ Closing(doc, doc[i].rev) = i BY <1>1, <4>2, TagIs
        <5>2. doc[i].rev = r BY <1>3, <4>1, <5>1 DEF Distinct
        <5> QED BY <5>1, <5>2
      <4>3. CASE i \in At(doc, {"mark"})
        <5>1. i \in At(doc, {"open", "mark"}) BY <4>3 DEF At
        <5>2. doc[i].rev \in Revisions(doc) BY <5>1 DEF Revisions
        <5>3. doc[i].rev = r BY <4>1, <5>2 DEF Distinct
        <5> QED BY <1>1, <2>1, <4>3, <5>3 DEF WellNested, Elements
      <4> QED BY <4>1, <4>2, <4>3 DEF At
    <3> QED BY <3>1, <3>2
  <2>4. Min(H) = Closing(doc, r)
    <3>1. Closing(doc, r) \in Int BY <1>1, <2>1, TagsInOrder
    <3> HIDE DEF H
    <3> QED BY <2>3, <3>1 DEF Min
  <2>5. First(doc, key.id) = doc[Closing(doc, r)] BY <2>4 DEF First
  <2>6. Found(doc, key.id) /\ Target(doc, key.id) = r
    <3>1. doc[Closing(doc, r)].tag = "close" BY <2>2 DEF At
    <3> QED BY <2>1, <2>2, <2>3, <2>5, <3>1 DEF Found, Target
  <2>7. Matches(doc, r, key, action)
    <3>1. action # "reinsert" OBVIOUS
    <3> QED BY <1>2, <2>1, <3>1 DEF Matches, TextOf
  <2>8. Outcome(doc, r, action, Stamp, <<>>) = Settled(doc, r, action) BY DEF Outcome
  <2>9. Verified(Settled(doc, r, action), key, action)
    <3> DEFINE e == Settled(doc, r, action)
    <3>1. r \notin Revisions(e) /\ Revisions(e) \subseteq Revisions(doc)
      BY <1>1, <2>1, SettledWellFormed
    <3> HIDE DEF e
    <3>2. ~\E s \in Revisions(e) : s.id = key.id BY <1>2, <3>1 DEF Distinct
    <3>3. action # "reinsert" OBVIOUS
    <3>4. Verified(e, key, action) BY <3>2, <3>3 DEF Verified
    <3> QED BY <3>4 DEF e
  <2> QED BY <2>6, <2>7, <2>8, <2>9 DEF Carried
<1>5. ASSUME Carried(doc, key, action, Stamp, <<>>) PROVE Editable(doc, r)
  <2> DEFINE t == Target(doc, key.id)
  <2>1. Found(doc, key.id) BY <1>5 DEF Carried
  <2>2. t \in Elements(doc) /\ t.id = r.id /\ ~Locked(doc, doc[Opening(doc, t)].par)
    BY <1>1, <1>2, <2>1, TargetIs
  <2> HIDE DEF t
  <2>3. t = r BY <1>3, <2>2 DEF Distinct
  <2> QED BY <2>2, <2>3 DEF Editable
<1> QED BY <1>4, <1>5 DEF key

\* `scan_revisions_bytes` and `find_settleable_revision` agree, in every package
\* whose revisions have ids of their own.
THEOREM InventoryHonestHolds == Spec => []InventoryHonest
BY TypeInit, TypeStep, Honest, PTL DEF Spec

\* The action properties, of one step.
LEMMA DecidesOnly ==
  ASSUME [Next]_vars, made' # made, TypeOK
  PROVE  \E given \in known, action \in Actions, said \in Sayings : Decide(given, action, said)
BY DEF Next, List, vars

LEMMA ViewsStep ==
  ASSUME TypeOK, [Next]_vars, made' # made, decisions'.action \in {"accept", "reject"}
  PROVE  LET hidden == IF decisions'.action = "accept" THEN Deletions ELSE Insertions
         IN  \A p \in Paragraphs(doc) : View(doc', p, hidden) = View(doc, p, hidden)
<1>1. PICK given \in known, action \in Actions, said \in Sayings : Decide(given, action, said)
  BY DecidesOnly
<1>2. PICK r \in Elements(doc) : /\ doc' = Outcome(doc, r, action, Stamp, said)
                                 /\ decisions' = [action |-> action, rev |-> r]
  BY <1>1, DecideStep
<1>3. decisions'.action = action /\ action \in {"accept", "reject"} BY <1>2
<1>4. doc' = Settled(doc, r, action) BY <1>2, <1>3 DEF Outcome
<1> DEFINE hidden == IF action = "accept" THEN Deletions ELSE Insertions
<1>5. Removes(r, action) <=> r.kind \in hidden BY <1>3 DEF Removes
<1>6. WellFormed(doc) BY DEF TypeOK
<1> HIDE DEF hidden
<1>7. \A p \in Paragraphs(doc) : View(Settled(doc, r, action), p, hidden) = View(doc, p, hidden)
  BY <1>5, <1>6, SettledViews
<1>8. \A p \in Paragraphs(doc) : View(doc', p, hidden) = View(doc, p, hidden) BY <1>4, <1>7
<1> QED BY <1>3, <1>8 DEF hidden

\* Decisions taken one by one end where the view of the whole said
\* (`revision_views` against `settle_one_revision`).
THEOREM ViewsKeptHolds == Spec => ViewsKept
<1>1. TypeOK /\ [Next]_vars =>
        [made' # made /\ decisions'.action \in {"accept", "reject"} =>
           LET hidden == IF decisions'.action = "accept" THEN Deletions ELSE Insertions
           IN  \A p \in Paragraphs(doc) : View(doc', p, hidden) = View(doc, p, hidden)]_vars
  BY ViewsStep
<1> QED BY <1>1, TypeInit, TypeStep, PTL DEF Spec, ViewsKept

LEMMA OthersStep ==
  ASSUME TypeOK, [Next]_vars, made' # made, decisions'.action \in Actions
  PROVE  LET r == decisions'.rev
             removed == decisions'.action # "reinsert" /\ Removes(r, decisions'.action)
         IN  \A s \in Elements(doc) \ {r} :
               ~(removed /\ Inside(doc, s, r)) =>
                 /\ s \in Elements(doc')
                 /\ Inside(doc, r, s) \/ OwnText(doc', s) = OwnText(doc, s)
<1>1. PICK given \in known, action \in Actions, said \in Sayings : Decide(given, action, said)
  BY DecidesOnly
<1>2. PICK r \in Elements(doc) : /\ doc' = Outcome(doc, r, action, Stamp, said)
                                 /\ decisions' = [action |-> action, rev |-> r]
  BY <1>1, DecideStep
<1>3. decisions'.action = action /\ decisions'.rev = r BY <1>2
<1>4. /\ WellFormed(doc) /\ Before(doc, Stamp) /\ Stamp \in Nat
      /\ others \subseteq Nat /\ IsFiniteSet(others)
  BY StampIsLater
<1>5. ASSUME NEW s \in Elements(doc) \ {r},
             ~(action # "reinsert" /\ Removes(r, action) /\ Inside(doc, s, r))
      PROVE  /\ s \in Elements(doc')
             /\ Inside(doc, r, s) \/ OwnText(doc', s) = OwnText(doc, s)
  <2>1. CASE action = "reinsert"
    <3>1. doc' = Reinserted(doc, r, Stamp, said) BY <1>2, <2>1 DEF Outcome
    <3>2. /\ s \in Elements(Reinserted(doc, r, Stamp, said))
          /\ Inside(doc, r, s) \/ OwnText(Reinserted(doc, r, Stamp, said), s) = OwnText(doc, s)
      BY <1>4, ReinsertedOthers
    <3> QED BY <3>1, <3>2
  <2>2. CASE action # "reinsert"
    <3>1. doc' = Settled(doc, r, action) BY <1>2, <2>2 DEF Outcome
    <3>2. /\ s \in Elements(Settled(doc, r, action))
          /\ Inside(doc, r, s) \/ OwnText(Settled(doc, r, action), s) = OwnText(doc, s)
      BY <1>4, <1>5, <2>2, SettledOthers
    <3> QED BY <3>1, <3>2
  <2> QED BY <2>1, <2>2
<1> QED BY <1>3, <1>5

\* A decision leaves the other revisions as their keys describe them.
THEOREM OthersKeptHolds == Spec => OthersKept
<1>1. TypeOK /\ [Next]_vars =>
        [made' # made /\ decisions'.action \in Actions =>
           LET r == decisions'.rev
               removed == decisions'.action # "reinsert" /\ Removes(r, decisions'.action)
           IN  \A s \in Elements(doc) \ {r} :
                 ~(removed /\ Inside(doc, s, r)) =>
                   /\ s \in Elements(doc')
                   /\ Inside(doc, r, s) \/ OwnText(doc', s) = OwnText(doc, s)]_vars
  BY OthersStep
<1> QED BY <1>1, TypeInit, TypeStep, PTL DEF Spec, OthersKept

LEMMA IdsStep ==
  ASSUME TypeOK, [Next]_vars, Distinct(doc), ~Distinct(doc'), decisions'.action \in Actions
  PROVE  /\ decisions'.action = "reinsert"
         /\ \E s \in Elements(doc) : Inside(doc, s, decisions'.rev)
<1>1. doc' # doc OBVIOUS
<1>2. PICK given \in known, action \in Actions, said \in Sayings : Decide(given, action, said)
  BY <1>1 DEF Next, List, vars
<1>3. PICK r \in Elements(doc) : /\ doc' = Outcome(doc, r, action, Stamp, said)
                                 /\ decisions' = [action |-> action, rev |-> r]
  BY <1>2, DecideStep
<1>4. decisions'.action = action /\ decisions'.rev = r BY <1>3
<1>5. /\ WellFormed(doc) /\ Before(doc, Stamp) /\ Stamp \in Nat
      /\ others \subseteq Nat /\ IsFiniteSet(others)
  BY StampIsLater
<1>6. ASSUME action # "reinsert" PROVE FALSE
  <2>1. doc' = Settled(doc, r, action) BY <1>3, <1>6 DEF Outcome
  <2>2. Revisions(Settled(doc, r, action)) \subseteq Revisions(doc) BY <1>5, SettledWellFormed
  <2>3. Revisions(doc') \subseteq Revisions(doc) BY <2>1, <2>2
  <2> QED BY <2>3 DEF Distinct
<1>7. ASSUME action = "reinsert", \A s \in Elements(doc) : ~Inside(doc, s, r) PROVE FALSE
  <2> DEFINE e == Reinserted(doc, r, Stamp, said)
             b == Closing(doc, r)
             new == [kind |-> "insert", id |-> NextId(doc), n |-> <<Stamp>>]
  <2>1. doc' = e BY <1>3, <1>7 DEF Outcome
  <2>2. PICK m : Comes(m, doc, r, Stamp) /\ e = Splice(doc, b, m, b + 1)
    BY <1>5, ReinsertedComes
  <2> HIDE DEF e
  <2>3. b \in Nat /\ b <= Len(doc) BY <1>5, TagsInOrder DEF WellFormed, IsSeq
  <2>4. Revisions(e) = Revisions(doc) \union Revisions(m)
    BY <1>5, <2>2, <2>3, InsertWellFormed DEF Comes
  <2>5. Revisions(m) = {new} BY <1>7, <2>2 DEF Comes
  <2>6. NextId(doc) \notin UsedIds(doc) BY <1>5, NextIdFree
  <2>7. new.id = NextId(doc) OBVIOUS
  <2> HIDE DEF new
  <2>8. new.id \notin others /\ \A s \in Revisions(doc) : s.id # new.id
    BY <2>6, <2>7 DEF UsedIds
  <2>9. Revisions(doc') = Revisions(doc) \union {new} BY <2>1, <2>4, <2>5
  <2> QED BY <2>8, <2>9 DEF Distinct
<1> QED BY <1>4, <1>6, <1>7

\* No two revisions come to share an id, but by the copy of a deletion with
\* revisions in it.
THEOREM IdsStayUniqueHolds == Spec => IdsStayUnique
<1>1. TypeOK /\ [Next]_vars =>
        [Distinct(doc) /\ ~Distinct(doc') /\ decisions'.action \in Actions =>
           /\ decisions'.action = "reinsert"
           /\ \E s \in Elements(doc) : Inside(doc, s, decisions'.rev)]_vars
  BY IdsStep
<1> QED BY <1>1, TypeInit, TypeStep, PTL DEF Spec, IdsStayUnique
=============================================================================
