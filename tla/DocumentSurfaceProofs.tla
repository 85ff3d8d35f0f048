----------------------- MODULE DocumentSurfaceProofs -----------------------
(***************************************************************************)
(* The answers of DocumentSurface are true, for every document, every set  *)
(* of sessions and operations and any number of calls.                     *)
(***************************************************************************)
EXTENDS DocumentSurface, FiniteSetTheorems, WellFoundedInduction, TLAPS

-----------------------------------------------------------------------------
(* Induction on the numbers, over a set of them. *)

\* A set of numbers has a least one: of the intervals 0 .. k its members k
\* span, one has no other within it.
LEMMA Least ==
  ASSUME NEW S, S \subseteq Nat, S # {}
  PROVE  \E m \in S : \A k \in S : m <= k
<1>1. PICK n \in S : TRUE OBVIOUS
<1> DEFINE D == 0 .. n
           T == {0 .. k : k \in S \intersect D}
           R == StrictSubsetOrdering(D)
           F == FiniteSubsetsOf(D)
<1>2. IsWellFoundedOn(R, F) BY FS_StrictSubsetOrderingWellFounded
<1>3. T \subseteq F
  <2>1. \A k \in S \intersect D : 0 .. k \subseteq D /\ IsFiniteSet(0 .. k) BY FS_Interval
  <2> QED BY <2>1 DEF FiniteSubsetsOf
<1>4. T # {} BY <1>1
<1>5. PICK x \in T : \A y \in T : ~(<<y, x>> \in R)
  <2> HIDE DEF T, R, F
  <2> QED BY <1>2, <1>3, <1>4, WFMin
<1>6. PICK m \in S \intersect D : x = 0 .. m OBVIOUS
<1>7. \A k \in S : m <= k
  <2> SUFFICES ASSUME NEW k \in S, k < m PROVE FALSE OBVIOUS
  <2>1. k \in D /\ 0 .. k \in T BY <1>6
  <2>2. 0 .. k \subseteq 0 .. m /\ m \in 0 .. m /\ m \notin 0 .. k OBVIOUS
  <2>3. <<0 .. k, 0 .. m>> \in R BY <2>1, <2>2, <1>6 DEF StrictSubsetOrdering
  <2> QED BY <2>1, <2>3, <1>5, <1>6
<1> QED BY <1>7

\* A set of numbers that has 0, and with every number the next, has them all.
LEMMA Induction ==
  ASSUME NEW S, 0 \in S, \A n \in Nat : n \in S => n + 1 \in S
  PROVE  Nat \subseteq S
<1> SUFFICES ASSUME Nat \ S # {} PROVE FALSE OBVIOUS
<1>1. PICK m \in Nat \ S : \A k \in Nat \ S : m <= k BY Least
<1>2. m # 0 /\ m - 1 \in Nat /\ m - 1 \notin Nat \ S BY <1>1
<1> QED BY <1>1, <1>2

-----------------------------------------------------------------------------
(* The fold of Step over the edits of a batch takes them one by one. *)

\* The function FoldLeft defines, on the sets of the first n positions.
Iterates(f, start, edits, n) ==
  f = [s \in SUBSET (1 .. n) |->
        IF s = {} THEN start ELSE Step(f[s \ {Max(s)}], edits[Max(s)])]

\* The last of a set of positions that reaches n.
LEMMA LastOf ==
  ASSUME NEW n \in Nat, NEW s \in SUBSET (1 .. n), n \in s
  PROVE  Max(s) = n
<1>1. \A y \in s : n >= y OBVIOUS
<1>2. \A x \in s : (\A y \in s : x >= y) => x = n OBVIOUS
<1> QED BY <1>1, <1>2 DEF Max

\* Such a function exists, for every n.
LEMMA IterateExists ==
  ASSUME NEW start, NEW edits
  PROVE  \A n \in Nat : \E f : Iterates(f, start, edits, n)
<1> DEFINE S == {n \in Nat : \E f : Iterates(f, start, edits, n)}
<1>1. 0 \in S
  <2>1. Iterates([s \in SUBSET (1 .. 0) |-> start], start, edits, 0)
    <3>1. \A s \in SUBSET (1 .. 0) : s = {} OBVIOUS
    <3> QED BY <3>1 DEF Iterates
  <2> QED BY <2>1
<1>2. ASSUME NEW n \in Nat, n \in S PROVE n + 1 \in S
  <2>1. PICK f : Iterates(f, start, edits, n) BY <1>2
  <2> DEFINE g == [s \in SUBSET (1 .. n + 1) |->
                    IF n + 1 \in s THEN Step(f[s \ {n + 1}], edits[n + 1]) ELSE f[s]]
  <2>2. ASSUME NEW s \in SUBSET (1 .. n + 1)
        PROVE  g[s] = IF s = {} THEN start ELSE Step(g[s \ {Max(s)}], edits[Max(s)])
    <3>1. CASE n + 1 \in s
      <4>1. Max(s) = n + 1 BY <3>1, LastOf
      <4>2. s \ {n + 1} \in SUBSET (1 .. n) OBVIOUS
      <4>3. g[s \ {n + 1}] = f[s \ {n + 1}] BY <4>2
      <4>4. g[s] = Step(f[s \ {n + 1}], edits[n + 1]) BY <3>1
      <4> QED BY <3>1, <4>1, <4>3, <4>4
    <3>2. CASE n + 1 \notin s
      <4>1. s \in SUBSET (1 .. n) BY <3>2
      <4>2. g[s] = f[s] BY <3>2
      <4>3. f[s] = IF s = {} THEN start ELSE Step(f[s \ {Max(s)}], edits[Max(s)])
        BY <2>1, <4>1 DEF Iterates
      <4>4. s \ {Max(s)} \in SUBSET (1 .. n + 1) /\ n + 1 \notin s \ {Max(s)} BY <3>2
      <4>5. g[s \ {Max(s)}] = f[s \ {Max(s)}] BY <4>4
      <4> QED BY <4>2, <4>3, <4>5
    <3> QED BY <3>1, <3>2
  <2>3. g = [s \in SUBSET (1 .. n + 1) |->
              IF s = {} THEN start ELSE Step(g[s \ {Max(s)}], edits[Max(s)])] BY <2>2
  <2>4. Iterates(g, start, edits, n + 1) BY <2>3 DEF Iterates
  <2> QED BY <2>4
<1> HIDE DEF S
<1>3. Nat \subseteq S BY <1>1, <1>2, Induction
<1> QED BY <1>3 DEF S

\* The states the copy goes through: the one it is handed, and one for every
\* edit; the fold returns the last.
Passes(g, start, edits, n) ==
  /\ g[0] = start
  /\ \A k \in 1 .. n : g[k] = Step(g[k - 1], edits[k])
  /\ FoldLeft(Step, start, edits) = g[n]

\* The fold goes through such states.
LEMMA FoldSteps ==
  ASSUME NEW start, NEW edits, NEW n \in Nat, DOMAIN edits = 1 .. n
  PROVE  \E g : Passes(g, start, edits, n)
<1> DEFINE F == CHOOSE f : Iterates(f, start, edits, n)
           g == [k \in 0 .. n |-> F[1 .. k]]
<1>1. Iterates(F, start, edits, n) BY IterateExists
<1>2. FoldLeft(Step, start, edits) = F[1 .. n]
  BY DEF FoldLeft, MapThenFoldSet, Iterates
<1> HIDE DEF F
<1>3. g[0] = start
  <2>1. 1 .. 0 = {} OBVIOUS
  <2>2. F[{}] = start BY <1>1 DEF Iterates
  <2> QED BY <2>1, <2>2
<1>4. ASSUME NEW k \in 1 .. n PROVE g[k] = Step(g[k - 1], edits[k])
  <2>1. 1 .. k \in SUBSET (1 .. n) /\ k \in 1 .. k /\ k \in Nat /\ k - 1 \in 0 .. n OBVIOUS
  <2>2. Max(1 .. k) = k
    <3>1. 1 .. k \in SUBSET (1 .. k) OBVIOUS
    <3> QED BY <2>1, <3>1, LastOf
  <2>3. (1 .. k) \ {k} = 1 .. k - 1 OBVIOUS
  <2>4. F[1 .. k] = Step(F[1 .. k - 1], edits[k])
    BY <1>1, <2>1, <2>2, <2>3 DEF Iterates
  <2> QED BY <2>4, <2>1
<1>5. g[n] = F[1 .. n] OBVIOUS
<1> HIDE DEF g
<1>6. Passes(g, start, edits, n) BY <1>2, <1>3, <1>4, <1>5 DEF Passes
<1> QED BY <1>6

-----------------------------------------------------------------------------
(* What the mutation does with a batch of handles of one kind. *)

IsSeq(b) == \E n \in Nat : DOMAIN b = 1 .. n

\* A structural edit or a format request leaves blocked alone, and a
\* replacement the whole copy.
LEMMA StepKeeps ==
  ASSUME NEW st, NEW e, "blocked" \in DOMAIN st
  PROVE  /\ "blocked" \in DOMAIN Step(st, e) /\ Step(st, e).blocked = st.blocked
         /\ e.kind = "replace" => Step(st, e) = st
<1>1. "blocked" \in DOMAIN Restyled(st, e) /\ Restyled(st, e).blocked = st.blocked
  BY DEF Restyled
<1>2. "blocked" \in DOMAIN Inserted(st, e) /\ Inserted(st, e).blocked = st.blocked
  BY DEF Inserted
<1>3. "blocked" \in DOMAIN Deleted(st, e) /\ Deleted(st, e).blocked = st.blocked
  BY DEF Deleted
<1> QED BY <1>1, <1>2, <1>3 DEF Step

\* A batch of handles of one kind that says it is blocked has written nothing.
LEMMA PureApplied ==
  ASSUME NEW edits, IsSeq(edits), Kinds(edits) = {"replace"} \/ "replace" \notin Kinds(edits)
  PROVE  /\ Applied(edits).blocked \in BOOLEAN
         /\ Applied(edits).blocked => Applied(edits).doc = doc
<1> DEFINE start == [doc |-> doc, requests |-> requests, blocked |-> FALSE,
                     done |-> "format" \notin Kinds(edits) \/ Kinds(edits) = {"format"}]
           st == FoldLeft(Step, start, edits)
           new == SelectSeq(edits, LAMBDA e : e.kind = "replace")
<1>1. PICK n \in Nat : DOMAIN edits = 1 .. n BY DEF IsSeq
<1>2. PICK g : /\ g[0] = start
               /\ \A k \in 1 .. n : g[k] = Step(g[k - 1], edits[k])
               /\ st = g[n]
  <2> HIDE DEF start
  <2>1. \E g : Passes(g, start, edits, n) BY <1>1, FoldSteps
  <2> QED BY <2>1 DEF Passes
<1>3. Applied(edits) = IF ~st.done \/ "replace" \notin Kinds(edits) THEN st ELSE Stage(st, new)
  BY DEF Applied
<1> DEFINE Unblocked == {k \in Nat : k <= n => "blocked" \in DOMAIN g[k] /\ g[k].blocked = FALSE}
           Untouched == {k \in Nat : k <= n => g[k] = start}
<1>4. "blocked" \in DOMAIN start /\ start.blocked = FALSE /\ start.doc = doc OBVIOUS
<1> HIDE DEF start, st, new
<1>5. st.blocked = FALSE
  <2>1. 0 \in Unblocked BY <1>2, <1>4
  <2>2. ASSUME NEW k \in Nat, k \in Unblocked, k + 1 <= n
        PROVE  "blocked" \in DOMAIN g[k + 1] /\ g[k + 1].blocked = FALSE
    <3>1. k + 1 \in 1 .. n /\ (k + 1) - 1 = k /\ k <= n BY <2>2
    <3>2. g[k + 1] = Step(g[k], edits[k + 1]) BY <1>2, <3>1
    <3> QED BY <2>2, <3>1, <3>2, StepKeeps
  <2>3. \A k \in Nat : k \in Unblocked => k + 1 \in Unblocked
    <3> TAKE k \in Nat
    <3> HAVE k \in Unblocked
    <3>1. k + 1 <= n => "blocked" \in DOMAIN g[k + 1] /\ g[k + 1].blocked = FALSE BY <2>2
    <3> QED BY <3>1
  <2> HIDE DEF Unblocked
  <2>4. n \in Unblocked BY <2>1, <2>3, Induction
  <2> QED BY <2>4, <1>2 DEF Unblocked
<1>6. CASE "replace" \notin Kinds(edits) BY <1>3, <1>5, <1>6
<1>7. CASE Kinds(edits) = {"replace"}
  <2>1. 0 \in Untouched BY <1>2
  <2>2. ASSUME NEW k \in Nat, k \in Untouched, k + 1 <= n
        PROVE  g[k + 1] = start
    <3>1. k + 1 \in 1 .. n /\ (k + 1) - 1 = k /\ k <= n BY <2>2
    <3>2. g[k + 1] = Step(g[k], edits[k + 1]) BY <1>2, <3>1
    <3>3. edits[k + 1].kind = "replace" BY <1>1, <1>7, <3>1 DEF Kinds
    <3> QED BY <2>2, <3>1, <3>2, <3>3, <1>4, StepKeeps
  <2>3. \A k \in Nat : k \in Untouched => k + 1 \in Untouched BY <2>2
  <2> HIDE DEF Untouched
  <2>4. n \in Untouched BY <2>1, <2>3, Induction
  <2>5. st = start BY <2>4, <1>2 DEF Untouched
  <2>6. /\ Stage(start, new).blocked \in BOOLEAN
        /\ Stage(start, new).blocked => Stage(start, new).doc = doc
    BY DEF Stage, start
  <2> QED BY <1>3, <1>4, <1>5, <2>5, <2>6
<1> QED BY <1>6, <1>7

-----------------------------------------------------------------------------
(* What the surface makes of a batch of handles: one edit of every entry. *)

Plain(batch) == [i \in DOMAIN batch |-> Edit(batch[i], batch[i].handle)]
Flattens(f, seqs) ==
  f = [i \in 1 .. Len(seqs) |-> IF i = 1 THEN seqs[i] ELSE f[i - 1] \o seqs[i]]

\* A sequence of one-element sequences, flattened, is the sequence of those
\* elements.
LEMMA FlattenOnes ==
  ASSUME NEW n \in Nat, NEW b
  PROVE  FlattenSeq([i \in 1 .. n |-> <<b[i]>>]) = [i \in 1 .. n |-> b[i]]
<1> DEFINE seqs == [i \in 1 .. n |-> <<b[i]>>]
           upto(k) == [i \in 1 .. k |-> b[i]]
           whole == [i \in 1 .. n |-> upto(i)]
           F == CHOOSE f : Flattens(f, seqs)
<1>1. Len(seqs) = n OBVIOUS
<1>2. ASSUME NEW i \in 1 .. n PROVE upto(i) = IF i = 1 THEN seqs[i] ELSE upto(i - 1) \o seqs[i]
  <2>1. CASE i = 1 BY <2>1
  <2>2. CASE i # 1
    <3>1. upto(i - 1) \in Seq({b[j] : j \in 1 .. n}) /\ Len(upto(i - 1)) = i - 1 OBVIOUS
    <3> QED BY <2>2, <3>1
  <2> QED BY <2>1, <2>2
<1>3. Flattens(whole, seqs)
  <2>1. \A i \in 1 .. n : whole[i] = IF i = 1 THEN seqs[i] ELSE whole[i - 1] \o seqs[i]
    <3> TAKE i \in 1 .. n
    <3>1. CASE i = 1 BY <3>1, <1>2
    <3>2. CASE i # 1
      <4>1. i - 1 \in 1 .. n BY <3>2
      <4> QED BY <3>2, <4>1, <1>2
    <3> QED BY <3>1, <3>2
  <2> QED BY <2>1, <1>1 DEF Flattens
<1>4. Flattens(F, seqs) BY <1>3
<1>5. FlattenSeq(seqs) = IF seqs = <<>> THEN seqs ELSE F[Len(seqs)]
  <2>1. (Len(seqs) = 0) <=> (seqs = <<>>) BY <1>1
  <2>2. FlattenSeq(seqs) = IF Len(seqs) = 0 THEN seqs ELSE F[Len(seqs)]
    <3> HIDE DEF seqs
    <3> QED BY DEF FlattenSeq, Flattens
  <2> QED BY <2>1, <2>2
<1> DEFINE Agrees == {k \in Nat : k \in 1 .. n => F[k] = upto(k)}
<1> HIDE DEF F, seqs, upto
<1>6. 0 \in Agrees OBVIOUS
<1>7. ASSUME NEW k \in Nat, k \in Agrees, k + 1 \in 1 .. n PROVE F[k + 1] = upto(k + 1)
  <2>1. F[k + 1] = IF k + 1 = 1 THEN seqs[k + 1] ELSE F[(k + 1) - 1] \o seqs[k + 1]
    BY <1>1, <1>4, <1>7 DEF Flattens
  <2>2. (k + 1) - 1 = k OBVIOUS
  <2>3. k + 1 # 1 => k \in 1 .. n BY <1>7
  <2> QED BY <2>1, <2>2, <2>3, <1>2, <1>7
<1>8. \A k \in Nat : k \in Agrees => k + 1 \in Agrees BY <1>7
<1> HIDE DEF Agrees
<1>9. n \in Agrees BY <1>6, <1>8, Induction
<1>10. n # 0 => F[n] = upto(n) BY <1>9 DEF Agrees
<1>11. n = 0 => seqs = <<>> /\ upto(n) = <<>> BY DEF seqs, upto
<1>12. seqs = <<>> => n = 0 BY <1>1
<1> QED BY <1>1, <1>5, <1>10, <1>11, <1>12 DEF seqs, upto

\* A batch without a selector is expanded to the same edits whatever the
\* document is, and refused only for a field its kind does not use.
LEMMA PureExpanded ==
  ASSUME NEW batch, IsSeq(batch), Pure(batch)
  PROVE  /\ Expanded(doc, batch) = Plain(batch)
         /\ \A i \in DOMAIN batch : Expands(doc, batch[i]) <=> Consumed(batch[i])
         /\ IsSeq(Plain(batch)) /\ Kinds(Plain(batch)) = Kinds(batch)
<1>1. PICK n \in Nat : DOMAIN batch = 1 .. n BY DEF IsSeq
<1>2. \A i \in DOMAIN batch : ~Selects(batch[i]) BY DEF Pure
<1> DEFINE ones(b) == [i \in 1 .. n |-> <<b[i]>>]
<1>3. Expanded(doc, batch) = FlattenSeq([i \in 1 .. n |-> <<Plain(batch)[i]>>])
  <2>1. Expanded(doc, batch) = FlattenSeq([i \in 1 .. n |-> <<Edit(batch[i], batch[i].handle)>>])
    BY <1>1, <1>2 DEF Expanded
  <2>2. [i \in 1 .. n |-> <<Edit(batch[i], batch[i].handle)>>] = [i \in 1 .. n |-> <<Plain(batch)[i]>>]
    BY <1>1 DEF Plain
  <2> QED BY <2>1, <2>2
<1>4. Expanded(doc, batch) = Plain(batch)
  <2> DEFINE p == Plain(batch)
  <2>1. DOMAIN p = 1 .. n BY <1>1 DEF Plain
  <2>2. p = [i \in 1 .. n |-> p[i]] BY <1>1 DEF Plain
  <2> HIDE DEF p
  <2>3. IsSeq(p) BY <2>1, <2>2 DEF IsSeq
  <2>4. FlattenSeq([i \in 1 .. n |-> <<p[i]>>]) = p BY <2>1, <2>2, <2>3, FlattenOnes
  <2> QED BY <1>3, <2>4 DEF p
<1>5. \A i \in DOMAIN batch : Expands(doc, batch[i]) <=> Consumed(batch[i])
  BY <1>2 DEF Expands
<1>6. IsSeq(Plain(batch)) BY <1>1 DEF IsSeq, Plain
<1>7. \A i \in DOMAIN batch : Plain(batch)[i].kind = batch[i].kind BY DEF Plain, Edit
<1>8. Kinds(Plain(batch)) = Kinds(batch)
  <2>1. DOMAIN Plain(batch) = DOMAIN batch BY DEF Plain
  <2> QED BY <1>7, <2>1 DEF Kinds
<1> QED BY <1>4, <1>5, <1>6, <1>8

\* What agents send is a sequence, and never an empty one.
LEMMA BatchIsSeq ==
  ASSUME NEW batch \in Batches
  PROVE  IsSeq(batch) /\ batch # <<>>
<1>1. \A e : IsSeq(<<e>>) /\ <<e>> # <<>>
  <2> TAKE e
  <2>1. DOMAIN <<e>> = 1 .. 1 OBVIOUS
  <2> QED BY <2>1 DEF IsSeq
<1>2. \A e, f : IsSeq(<<e, f>>) /\ <<e, f>> # <<>>
  <2> TAKE e, f
  <2>1. DOMAIN <<e, f>> = 1 .. 2 OBVIOUS
  <2> QED BY <2>1 DEF IsSeq
<1>3. \A h, g : \A b \in Pairs(h, g) : IsSeq(b) /\ b # <<>> BY <1>2 DEF Pairs
<1>4. \/ \E e : batch = <<e>>
      \/ \E h, g : batch \in Pairs(h, g)
  BY DEF Batches
<1> QED BY <1>1, <1>3, <1>4

-----------------------------------------------------------------------------
(* The inductive invariant. Of a batch of handles of one kind, the ledger     *)
(* knows whether its edits are in the document; before it has a record, they  *)
(* are not.                                                                   *)

Typed ==
  /\ DOMAIN call = Sessions /\ DOMAIN ledger = Ops /\ DOMAIN asked = Ops
  /\ \A s \in Sessions : DOMAIN call[s] = DOMAIN Idle
  /\ \A op \in Ops : IsSeq(asked[op])

Knows(op) ==
  /\ asked[op] = <<>> => ledger[op] = None /\ op \notin landed
  /\ Pure(asked[op]) =>
       /\ ledger[op] = None => op \notin landed
       /\ ledger[op] # None => ledger[op] \in BOOLEAN /\ (ledger[op] <=> op \in landed)
       /\ op \in landed => \A i \in DOMAIN asked[op] : Consumed(asked[op][i])

Sound(c) ==
  /\ c.pc \in {"idle", "pin", "commit", "probe"}
  /\ c.pc # "idle" => c.op \in Ops /\ asked[c.op] # <<>>
  /\ c.pc \in {"pin", "commit"} /\ Pure(asked[c.op]) =>
       /\ c.edits = Plain(asked[c.op])
       /\ \A i \in DOMAIN asked[c.op] : Consumed(asked[c.op][i])
  /\ c.pc = "probe" /\ Pure(asked[c.op]) => c.ok \in BOOLEAN /\ c.ok = c.in

TrueAnswer(a) ==
  /\ a.op \in Ops /\ asked[a.op] # <<>>
  /\ Pure(asked[a.op]) => a.ok = a.landed

Inv ==
  /\ Typed
  /\ \A op \in Ops : Knows(op)
  /\ \A s \in Sessions : Sound(call[s])
  /\ \A a \in told : TrueAnswer(a)

\* A call begins sound: its edits are those of its entries, and when it is
\* refused for one of them, nothing of the operation is in the document.
LEMMA EnterSound ==
  ASSUME NEW s \in Sessions, NEW op \in Ops, NEW batch, Inv, Enter(s, op, batch),
         Typed', Knows(op)', asked'[op] = batch, batch # <<>>
  PROVE  Sound(call[s])'
<1>1. IsSeq(batch) BY DEF Typed
<1>2. landed' = landed BY DEF Enter
<1>3. CASE \A i \in DOMAIN batch : Expands(doc, batch[i])
  <2>1. call'[s] = [Idle EXCEPT !.pc = "pin", !.op = op, !.edits = Expanded(doc, batch), !.seen = gen]
    BY <1>3 DEF Enter, Inv, Typed
  <2>2. call'[s].pc = "pin" /\ call'[s].op = op /\ call'[s].edits = Expanded(doc, batch)
    BY <2>1 DEF Idle
  <2>3. Pure(batch) => /\ Expanded(doc, batch) = Plain(batch)
                       /\ \A i \in DOMAIN batch : Consumed(batch[i])
    BY <1>1, <1>3, PureExpanded
  <2> QED BY <2>2, <2>3 DEF Sound
<1>4. CASE ~ \A i \in DOMAIN batch : Expands(doc, batch[i])
  <2>1. call'[s] = [Idle EXCEPT !.pc = "probe", !.op = op, !.in = op \in landed]
    BY <1>4 DEF Enter, Inv, Typed
  <2>2. /\ call'[s].pc = "probe" /\ call'[s].op = op
        /\ call'[s].ok = FALSE /\ call'[s].in = (op \in landed)
    BY <2>1 DEF Idle
  <2>3. Pure(batch) => ~ \A i \in DOMAIN batch : Consumed(batch[i])
    BY <1>1, <1>4, PureExpanded
  <2>4. Pure(batch) => op \notin landed BY <1>2, <2>3 DEF Knows
  <2>5. (op \in landed) \in BOOLEAN OBVIOUS
  <2>6. Pure(batch) => call'[s].in = FALSE BY <2>2, <2>4, <2>5
  <2> QED BY <2>2, <2>6 DEF Sound
<1> QED BY <1>3, <1>4

\* A verdict that agrees with the document leaves the call sound.
LEMMA DecideSound ==
  ASSUME NEW s \in Sessions, NEW ok, Inv, call[s].pc # "idle", asked' = asked, Decide(s, ok),
         Pure(asked[call[s].op]) => ok \in BOOLEAN /\ (ok <=> call[s].op \in landed')
  PROVE  \A t \in Sessions : Sound(call[t])'
<1> DEFINE c == [Idle EXCEPT !.pc = "probe", !.op = call[s].op, !.ok = ok,
                             !.in = call[s].op \in landed']
<1>1. call' = [call EXCEPT ![s] = c] BY DEF Decide
<1>2. c.pc = "probe" /\ c.op = call[s].op /\ c.ok = ok /\ c.in = (call[s].op \in landed')
  BY DEF Idle
<1>3. Sound(call[s]) BY DEF Inv
<1> HIDE DEF c
<1>4. call'[s] = c BY <1>1 DEF Inv, Typed
<1>5. Sound(call[s])' BY <1>2, <1>3, <1>4 DEF Sound
<1>6. ASSUME NEW t \in Sessions, t # s PROVE Sound(call[t])'
  <2>1. call'[t] = call[t] BY <1>1, <1>6 DEF Inv, Typed
  <2> QED BY <2>1 DEF Inv, Sound
<1> QED BY <1>5, <1>6

\* The calls of the other sessions, when only s moves.
Alone(s) == \A t \in Sessions \ {s} : call'[t] = call[t]

\* The types, when a call is replaced by a call.
LEMMA CallTyped ==
  ASSUME NEW s \in Sessions, NEW c, Inv, DOMAIN c = DOMAIN Idle, call' = [call EXCEPT ![s] = c]
  PROVE  /\ DOMAIN call' = Sessions /\ call'[s] = c /\ Alone(s)
         /\ \A t \in Sessions : DOMAIN call'[t] = DOMAIN Idle
BY DEF Inv, Typed, Alone

LEMMA AskInv ==
  ASSUME NEW s \in Sessions, NEW op \in Ops, NEW batch \in Batches, Inv, Ask(s, op, batch)
  PROVE  Inv'
<1>1. /\ asked[op] = <<>> /\ asked' = [asked EXCEPT ![op] = batch]
      /\ Enter(s, op, batch) /\ call[s].pc = "idle"
      /\ UNCHANGED <<doc, requests, gen, ledger, landed, told>>
  BY DEF Ask, Enter
<1>2. IsSeq(batch) /\ batch # <<>> BY BatchIsSeq
<1>3. asked'[op] = batch /\ \A o \in Ops \ {op} : asked'[o] = asked[o]
  BY <1>1 DEF Inv, Typed
<1>4. \E c : DOMAIN c = DOMAIN Idle /\ call' = [call EXCEPT ![s] = c]
  BY <1>1 DEF Enter, Idle
<1>5. Typed' /\ Alone(s)
  <2>1. \A o \in Ops : IsSeq(asked'[o]) BY <1>2, <1>3 DEF Inv, Typed
  <2>2. DOMAIN asked' = Ops BY <1>1 DEF Inv, Typed
  <2> QED BY <1>1, <1>4, <2>1, <2>2, CallTyped DEF Inv, Typed, IsSeq
<1>6. \A o \in Ops : Knows(o)'
  <2>1. Knows(op)'
    <3>1. ledger[op] = None /\ op \notin landed BY <1>1 DEF Inv, Knows
    <3> QED BY <3>1, <1>1, <1>2, <1>3 DEF Knows
  <2>2. \A o \in Ops \ {op} : Knows(o)' BY <1>1, <1>3 DEF Inv, Knows
  <2> QED BY <2>1, <2>2
<1>7. \A t \in Sessions : Sound(call[t])'
  <2>1. Sound(call[s])' BY <1>1, <1>2, <1>3, <1>5, <1>6, EnterSound
  <2>2. ASSUME NEW t \in Sessions \ {s} PROVE Sound(call[t])'
    <3>1. call'[t] = call[t] BY <1>5 DEF Alone
    <3>2. Sound(call[t]) BY DEF Inv
    <3>3. call[t].pc # "idle" => asked'[call[t].op] = asked[call[t].op]
      BY <1>1, <1>3, <3>2 DEF Sound
    <3> QED BY <3>1, <3>2, <3>3 DEF Sound
  <2> QED BY <2>1, <2>2
<1>8. \A a \in told' : TrueAnswer(a)'
  <2> SUFFICES ASSUME NEW a \in told PROVE TrueAnswer(a)' BY <1>1
  <2>1. TrueAnswer(a) BY DEF Inv
  <2>2. asked'[a.op] = asked[a.op] BY <1>1, <1>3, <2>1 DEF TrueAnswer
  <2> QED BY <2>1, <2>2 DEF TrueAnswer
<1> QED BY <1>5, <1>6, <1>7, <1>8 DEF Inv

\* What does not depend on the calls, when the batches, the ledger, the document
\* and the answers stay.
LEMMA OthersInv ==
  ASSUME Inv, UNCHANGED <<asked, ledger, landed>>
  PROVE  /\ \A o \in Ops : Knows(o)'
         /\ \A a \in told : TrueAnswer(a)'
         /\ DOMAIN ledger' = Ops /\ DOMAIN asked' = Ops /\ \A o \in Ops : IsSeq(asked'[o])
         /\ \A t \in Sessions : call'[t] = call[t] => Sound(call[t])'
BY DEF Inv, Typed, Knows, TrueAnswer, Sound

LEMMA RetryInv ==
  ASSUME NEW s \in Sessions, NEW op \in Ops, Inv, Retry(s, op)
  PROVE  Inv'
<1>1. /\ asked[op] # <<>> /\ asked' = asked /\ Enter(s, op, asked[op])
      /\ UNCHANGED <<doc, requests, gen, ledger, landed, told>>
  BY DEF Retry, Enter
<1>2. \E c : DOMAIN c = DOMAIN Idle /\ call' = [call EXCEPT ![s] = c]
  BY <1>1 DEF Enter, Idle
<1>3. Typed' /\ Alone(s) BY <1>1, <1>2, CallTyped, OthersInv DEF Typed
<1>4. Sound(call[s])' BY <1>1, <1>3, EnterSound, OthersInv
<1>5. \A t \in Sessions : Sound(call[t])' BY <1>1, <1>3, <1>4, OthersInv DEF Alone
<1> QED BY <1>1, <1>3, <1>5, OthersInv DEF Inv

LEMMA PinInv ==
  ASSUME NEW s \in Sessions, Inv, Pin(s)
  PROVE  Inv'
<1>1. /\ call[s].pc = "pin"
      /\ UNCHANGED <<doc, requests, gen, ledger, asked, held, calls, landed, told>>
  BY DEF Pin
<1> DEFINE op == call[s].op
<1>2. Sound(call[s]) /\ op \in Ops BY <1>1 DEF Inv, Sound
<1>3. Knows(op) BY <1>2 DEF Inv
<1>4. CASE ledger[op] # None
  <2>1. Decide(s, ledger[op]) BY <1>4 DEF Pin
  <2>2. Pure(asked[op]) => ledger[op] \in BOOLEAN /\ (ledger[op] <=> op \in landed')
    BY <1>1, <1>3, <1>4 DEF Knows
  <2>3. \A t \in Sessions : Sound(call[t])' BY <1>1, <2>1, <2>2, DecideSound
  <2>4. \E c : DOMAIN c = DOMAIN Idle /\ call' = [call EXCEPT ![s] = c] BY <2>1 DEF Decide, Idle
  <2>5. Typed' BY <1>1, <2>4, CallTyped, OthersInv DEF Typed
  <2> QED BY <1>1, <2>3, <2>5, OthersInv DEF Inv
<1>5. CASE ledger[op] = None
  <2> DEFINE c == [call[s] EXCEPT !.pc = "commit", !.pin = gen]
  <2>1. call' = [call EXCEPT ![s] = c] BY <1>5 DEF Pin, Inv, Typed
  <2>2. DOMAIN call[s] = DOMAIN Idle BY DEF Inv, Typed
  <2>3. DOMAIN c = DOMAIN Idle BY <2>2
  <2>4. c.pc = "commit" /\ c.op = op /\ c.edits = call[s].edits BY <2>2 DEF Idle
  <2> HIDE DEF c
  <2>5. Typed' /\ call'[s] = c /\ Alone(s) BY <1>1, <2>1, <2>3, CallTyped, OthersInv DEF Typed
  <2>6. Sound(call[s])' BY <1>1, <1>2, <2>4, <2>5 DEF Sound
  <2>7. \A t \in Sessions : Sound(call[t])' BY <1>1, <2>5, <2>6, OthersInv DEF Alone
  <2> QED BY <1>1, <2>5, <2>7, OthersInv DEF Inv
<1> QED BY <1>4, <1>5

LEMMA CommitInv ==
  ASSUME NEW s \in Sessions, Inv, Commit(s)
  PROVE  Inv'
<1> DEFINE op == call[s].op
           edits == call[s].edits
           st == Applied(edits)
<1>1. /\ call[s].pc = "commit"
      /\ UNCHANGED <<asked, held, calls, told>>
  BY DEF Commit
<1>2. Sound(call[s]) /\ op \in Ops BY <1>1 DEF Inv, Sound
<1>3. Knows(op) /\ asked[op] # <<>> /\ IsSeq(asked[op]) BY <1>1, <1>2 DEF Inv, Typed, Sound
<1>4. CASE ~(ledger[op] = None /\ gen = call[s].pin /\ st.done)
  <2> DEFINE ok == ledger[op] # None /\ ledger[op]
  <2>1. UNCHANGED <<doc, requests, gen, ledger, landed>> /\ Decide(s, ok) BY <1>4 DEF Commit
  <2>2. Pure(asked[op]) => ok \in BOOLEAN /\ (ok <=> op \in landed')
    BY <1>3, <2>1 DEF Knows
  <2> HIDE DEF ok
  <2>3. \A t \in Sessions : Sound(call[t])' BY <1>1, <2>1, <2>2, DecideSound
  <2>4. \E c : DOMAIN c = DOMAIN Idle /\ call' = [call EXCEPT ![s] = c] BY <2>1 DEF Decide, Idle
  <2>5. Typed' BY <1>1, <2>1, <2>4, CallTyped, OthersInv DEF Typed
  <2> QED BY <1>1, <2>1, <2>3, <2>5, OthersInv DEF Inv
<1>5. CASE ledger[op] = None /\ gen = call[s].pin /\ st.done
  <2>1. Mutate(s, st) BY <1>5 DEF Commit
  <2>2. /\ ledger' = [ledger EXCEPT ![op] = ~st.blocked]
        /\ landed' = IF st.doc = doc /\ st.blocked THEN landed ELSE landed \union {op}
        /\ Decide(s, ~st.blocked)
    BY <2>1 DEF Mutate
  <2>3. ASSUME Pure(asked[op])
        PROVE  st.blocked \in BOOLEAN /\ (st.blocked => st.doc = doc)
    <3>1. edits = Plain(asked[op]) BY <1>1, <1>2, <2>3 DEF Sound
    <3>2. IsSeq(edits) /\ Kinds(edits) = Kinds(asked[op]) BY <1>3, <2>3, <3>1, PureExpanded
    <3> QED BY <2>3, <3>2, PureApplied DEF Pure
  <2>4. Pure(asked[op]) => \A i \in DOMAIN asked[op] : Consumed(asked[op][i])
    BY <1>1, <1>2 DEF Sound
  <2> HIDE DEF st
  <2>5. Pure(asked[op]) => op \notin landed BY <1>3, <1>5 DEF Knows
  <2>6. Pure(asked[op]) => (~st.blocked) \in BOOLEAN /\ ((~st.blocked) <=> op \in landed')
    BY <2>2, <2>3, <2>5
  <2>7. \A t \in Sessions : Sound(call[t])' BY <1>1, <2>2, <2>6, DecideSound
  <2>8. \E c : DOMAIN c = DOMAIN Idle /\ call' = [call EXCEPT ![s] = c] BY <2>2 DEF Decide, Idle
  <2>9. Typed' BY <1>1, <2>2, <2>8, CallTyped DEF Inv, Typed
  <2>10. \A o \in Ops : Knows(o)'
    <3>1. ASSUME NEW o \in Ops, o = op PROVE Knows(o)'
      <4>1. ledger'[o] = ~st.blocked BY <2>2, <3>1 DEF Inv, Typed
      <4>2. Pure(asked[o]) => ledger'[o] # None BY <2>6, <3>1, <4>1, NoneAssumption
      <4>3. asked'[o] = asked[o] BY <1>1
      <4>4. Pure(asked[o]) => ledger'[o] \in BOOLEAN /\ (ledger'[o] <=> o \in landed')
        BY <2>6, <3>1, <4>1
      <4> QED BY <1>3, <2>4, <3>1, <4>2, <4>3, <4>4 DEF Knows
    <3>2. ASSUME NEW o \in Ops \ {op} PROVE Knows(o)'
      <4>1. ledger'[o] = ledger[o] BY <2>2 DEF Inv, Typed
      <4>2. o \in landed' <=> o \in landed BY <2>2
      <4>3. Knows(o) BY DEF Inv
      <4> QED BY <1>1, <4>1, <4>2, <4>3 DEF Knows
    <3> QED BY <3>1, <3>2
  <2>11. \A a \in told' : TrueAnswer(a)' BY <1>1 DEF Inv, TrueAnswer
  <2> QED BY <2>7, <2>9, <2>10, <2>11 DEF Inv
<1> QED BY <1>4, <1>5

LEMMA AnswerInv ==
  ASSUME NEW s \in Sessions, Inv, Answer(s)
  PROVE  Inv'
<1> DEFINE op == call[s].op
           batch == asked[op]
           ok == call[s].ok /\ \A i \in DOMAIN batch : ~ProbeFails(batch[i])
           a == [op |-> op, ok |-> ok, landed |-> call[s].in]
<1>1. /\ call[s].pc = "probe" /\ told' = told \union {a} /\ call' = [call EXCEPT ![s] = Idle]
      /\ UNCHANGED <<doc, requests, gen, ledger, asked, held, calls, landed>>
  BY DEF Answer
<1>2. Typed' /\ Alone(s) /\ call'[s] = Idle BY <1>1, CallTyped, OthersInv DEF Typed
<1>3. Sound(call[s])' BY <1>2 DEF Sound, Idle
<1>4. \A t \in Sessions : Sound(call[t])' BY <1>1, <1>2, <1>3, OthersInv DEF Alone
<1>5. Sound(call[s]) BY DEF Inv
<1>6. Pure(batch) => \A i \in DOMAIN batch : ~ProbeFails(batch[i]) BY DEF Pure, ProbeFails
<1>7. a.op = op /\ a.ok = ok /\ a.landed = call[s].in OBVIOUS
<1>8. Pure(batch) => ok = call[s].in BY <1>1, <1>5, <1>6 DEF Sound
<1> HIDE DEF a, ok
<1>9. ASSUME NEW b, b = a PROVE TrueAnswer(b)'
  <2>1. asked' = asked /\ op \in Ops /\ batch # <<>> BY <1>1, <1>5 DEF Sound
  <2> QED BY <1>7, <1>8, <1>9, <2>1 DEF TrueAnswer
<1>10. \A b \in told' : TrueAnswer(b)' BY <1>1, <1>9, OthersInv
<1>11. \A o \in Ops : Knows(o)' BY <1>1, OthersInv
<1> QED BY <1>2, <1>4, <1>10, <1>11 DEF Inv

LEMMA LoseInv ==
  ASSUME NEW s \in Sessions, Inv, Lose(s)
  PROVE  Inv'
<1>1. /\ call' = [call EXCEPT ![s] = Idle]
      /\ UNCHANGED <<doc, requests, gen, ledger, asked, held, calls, landed, told>>
  BY DEF Lose
<1>2. Typed' /\ Alone(s) /\ call'[s] = Idle BY <1>1, CallTyped, OthersInv DEF Typed
<1>3. Sound(call[s])' BY <1>2 DEF Sound, Idle
<1>4. \A t \in Sessions : Sound(call[t])' BY <1>1, <1>2, <1>3, OthersInv DEF Alone
<1> QED BY <1>1, <1>2, <1>4, OthersInv DEF Inv

\* The invariant holds of every behaviour.
THEOREM SurfaceInvariant == Spec => []Inv
<1>1. Init => Inv
  <2> SUFFICES ASSUME Init PROVE Inv OBVIOUS
  <2>1. Typed
    <3>1. IsSeq(<<>>)
      <4>1. DOMAIN <<>> = 1 .. 0 OBVIOUS
      <4> QED BY <4>1 DEF IsSeq
    <3> QED BY <3>1 DEF Init, Typed
  <2>2. \A op \in Ops : Knows(op) BY DEF Init, Knows
  <2>3. \A s \in Sessions : Sound(call[s]) BY DEF Init, Sound, Idle
  <2> QED BY <2>1, <2>2, <2>3 DEF Init, Inv
<1>2. Inv /\ [Next]_vars => Inv'
  <2> SUFFICES ASSUME Inv, [Next]_vars PROVE Inv' OBVIOUS
  <2>1. ASSUME NEW s \in Sessions, NEW q \in Queries, Find(s, q) PROVE Inv'
    <3>1. UNCHANGED <<asked, ledger, landed, call, told>> BY <2>1 DEF Find
    <3> QED BY <3>1, OthersInv DEF Inv, Typed
  <2>2. ASSUME UNCHANGED vars PROVE Inv'
    <3>1. UNCHANGED <<asked, ledger, landed, call, told>> BY <2>2 DEF vars
    <3> QED BY <3>1, OthersInv DEF Inv, Typed
  <2> QED
    BY <2>1, <2>2, AskInv, RetryInv, PinInv, CommitInv, AnswerInv, LoseInv DEF Next
<1> QED BY <1>1, <1>2, PTL DEF Spec

\* The answer to a batch of handles of one kind is true, for every document and
\* any number of sessions, operations, calls and retries: a refusal means that
\* nothing of it is in the document, a success that it is.
THEOREM AnswersAreTrueHolds == Spec => []AnswersAreTrue
<1>1. Inv => AnswersAreTrue BY DEF Inv, TrueAnswer, AnswersAreTrue
<1> QED BY <1>1, SurfaceInvariant, PTL

-----------------------------------------------------------------------------
(* A repeated call. *)

\* The document and its requests change only in the step that gives an operation
\* its record, one operation at a time, and a record never changes: whatever was
\* lost and however often a call is repeated, its edits are written at most once.
\* (facade.rs: the ledger is asked again inside the lane)
WrittenOnce ==
  /\ <<doc, requests>>' # <<doc, requests>> =>
       \E op \in Ops : /\ ledger[op] = None /\ ledger'[op] # None
                      /\ \A o \in Ops \ {op} : ledger'[o] = ledger[o]
  /\ \A op \in Ops : ledger[op] # None => ledger'[op] = ledger[op]

\* No behaviour writes the edits of an operation twice.
THEOREM WrittenOnceHolds == Spec => [][WrittenOnce]_vars
<1>1. Inv /\ [Next]_vars => [WrittenOnce]_vars
  <2> SUFFICES ASSUME Inv, Next PROVE WrittenOnce BY DEF WrittenOnce, vars
  <2>1. CASE UNCHANGED <<doc, requests, ledger>> BY <2>1 DEF WrittenOnce
  <2>2. ASSUME NEW s \in Sessions, Commit(s) PROVE WrittenOnce
    <3>1. CASE UNCHANGED <<doc, requests, ledger>> BY <3>1 DEF WrittenOnce
    <3>2. CASE ~UNCHANGED <<doc, requests, ledger>>
      <4> DEFINE op == call[s].op
                 st == Applied(call[s].edits)
      <4>1. ledger[op] = None /\ Mutate(s, st) BY <2>2, <3>2 DEF Commit
      <4>2. op \in Ops BY <2>2 DEF Commit, Inv, Sound
      <4>3. ledger' = [ledger EXCEPT ![op] = ~st.blocked] BY <4>1 DEF Mutate
      <4> HIDE DEF st
      <4>4. (~st.blocked) \in BOOLEAN OBVIOUS
      <4>5. ledger'[op] # None BY <4>2, <4>3, <4>4, NoneAssumption DEF Inv, Typed
      <4> QED BY <4>1, <4>2, <4>3, <4>5 DEF WrittenOnce, Inv, Typed
    <3> QED BY <3>1, <3>2
  <2>3. ASSUME NEW s \in Sessions, NEW q \in Queries, Find(s, q)
        PROVE  UNCHANGED <<doc, requests, ledger>>
    BY <2>3 DEF Find
  <2>4. ASSUME NEW s \in Sessions, NEW op \in Ops,
               Retry(s, op) \/ \E batch \in Batches : Ask(s, op, batch)
        PROVE  UNCHANGED <<doc, requests, ledger>>
    BY <2>4 DEF Retry, Ask, Enter
  <2>5. ASSUME NEW s \in Sessions, Pin(s) \/ Answer(s) \/ Lose(s)
        PROVE  UNCHANGED <<doc, requests, ledger>>
    BY <2>5 DEF Pin, Answer, Lose
  <2> QED BY <2>1, <2>2, <2>3, <2>4, <2>5 DEF Next
<1> QED BY <1>1, SurfaceInvariant, PTL DEF Spec
=============================================================================
