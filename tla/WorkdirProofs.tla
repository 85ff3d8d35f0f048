---------------------------- MODULE WorkdirProofs ----------------------------
(***************************************************************************)
(* Proofs about module Workdir, for every set of processes and every bound: *)
(* the shape of its directories, and that some directory always holds a    *)
(* whole document, as long as no root is put under an extract that has     *)
(* found none.                                                             *)
(***************************************************************************)
EXTENDS Workdir, TLAPS

-----------------------------------------------------------------------------
(* Types, of which `m' is the number of generations named so far. *)

Generation(m) == [id : 1..m, assets : Assets]

Directory(m) ==
  [there : BOOLEAN, assets : Assets, pointer : 0..m,
   store : [there : BOOLEAN, generations : SUBSET Generation(m)]]

Sound(d, m) ==
  /\ d \in Directory(m)
  /\ \A g, h \in d.store.generations : g.id = h.id => g = h
  /\ ~d.there => d = Gone

\* What a process keeps: nothing, a generation, or what it extracts.
Waiting == [at : {"idle", "birth", "make", "pin", "snapshot"}]
Holding(m) == [at : {"pointer", "close", "pin", "mutate"}, generation : 0..m]
Extract ==
  [at : {"publish", "make-root", "in-place", "staged", "aside", "drop"},
   source : Source, discard : BOOLEAN, clear : BOOLEAN, todo : SUBSET Asset]

CallRecord(c, m) == c \in Waiting \/ c \in Holding(m) \/ c \in Extract

\* A staged copy has no store, and holds what was written to it so far. What was
\* moved aside for it is there.
CallSound(c, staging, backup) ==
  /\ c.at \in {"staged", "aside"} =>
       /\ c \in Extract
       /\ staging.there
       /\ staging.store = NoStore
       /\ \A a \in Asset \ c.todo : staging.assets[a].base = c.source
  /\ c.at = "aside" => backup.there /\ c.todo = {}
  /\ c.at = "publish" => c.todo = Asset

TypeInv ==
  /\ made \in Nat
  /\ dir = [d \in Place |-> dir[d]]
  /\ call = [p \in Process |-> call[p]]
  /\ \A d \in Place : Sound(dir[d], made)
  /\ \A p \in Process : /\ CallRecord(call[p], made)
                        /\ CallSound(call[p], dir[Staging(p)], dir[Backup(p)])

-----------------------------------------------------------------------------
(* The document. *)

\* A whole document, whose generations are whole as well.
Good(d) == Whole(d) /\ \A g \in d.store.generations : Whole(g)

NoneInPlace == \A q \in Process : ~InPlace(q)

Held == root.there /\ Good(root) /\ NoneInPlace

\* The document is aside. Somebody may be writing to the name it had.
Aside(p) ==
  /\ call[p].at = "aside"
  /\ Good(dir[Backup(p)])

Orphaned == \E d \in orphans : Whole(d)

Survives == crossed \/ Orphaned \/ Held \/ \E p \in Process : Aside(p)

-----------------------------------------------------------------------------
(* Directories. *)

\* The root and the two names of each process are different places.
LEMMA Places ==
  /\ Root \in Place
  /\ \A p \in Process : /\ Staging(p) \in Place /\ Backup(p) \in Place
                        /\ Staging(p) # Root /\ Backup(p) # Root
  /\ \A p, q \in Process : /\ Staging(p) # Backup(q)
                           /\ p # q => Staging(p) # Staging(q) /\ Backup(p) # Backup(q)
  BY DEF Root, Staging, Backup, Place

LEMMA PlaceIs ==
  ASSUME NEW d \in Place
  PROVE  d = Root \/ \E p \in Process : d = Staging(p) \/ d = Backup(p)
  BY DEF Place

\* Nothing and the copy of a workdir without its store are directories.
LEMMA FreshSound ==
  ASSUME NEW m \in Nat
  PROVE  /\ Sound(Gone, m)
         /\ \A assets \in Assets : Sound(Fresh(assets), m)
         /\ Blank \in Assets
<1>1. Blank \in Assets BY DEF Blank, Missing, Assets
<1>2. Gone \in Directory(m) BY <1>1 DEF Gone, Directory, NoStore, NoPointer
<1>3. ASSUME NEW assets \in Assets PROVE Fresh(assets) \in Directory(m)
  BY DEF Fresh, Directory, NoStore, NoPointer
<1>4. Sound(Gone, m) BY <1>2 DEF Sound, Gone, NoStore
<1>5. \A assets \in Assets : Sound(Fresh(assets), m) BY <1>3 DEF Sound, Fresh, NoStore
<1> QED BY <1>1, <1>4, <1>5

\* Naming more generations leaves every directory and every call sound.
LEMMA SoundLater ==
  ASSUME NEW m \in Nat, NEW n \in Nat, m <= n
  PROVE  /\ \A d : Sound(d, m) => Sound(d, n)
         /\ \A c : CallRecord(c, m) => CallRecord(c, n)
<1>1. 1..m \subseteq 1..n /\ 0..m \subseteq 0..n OBVIOUS
<1>2. Generation(m) \subseteq Generation(n) BY <1>1 DEF Generation
<1>3. Directory(m) \subseteq Directory(n) BY <1>1, <1>2 DEF Directory
<1>4. Holding(m) \subseteq Holding(n) BY <1>1 DEF Holding
<1> QED BY <1>3, <1>4 DEF Sound, CallRecord

\* The parts of a sound directory.
LEMMA Parts ==
  ASSUME NEW m \in Nat, NEW d, Sound(d, m)
  PROVE  /\ d.there \in BOOLEAN /\ d.assets \in Assets /\ d.pointer \in 0..m
         /\ d.store.there \in BOOLEAN /\ d.store.generations \subseteq Generation(m)
         /\ d = [there |-> d.there, assets |-> d.assets, pointer |-> d.pointer, store |-> d.store]
         /\ d.store = [there |-> d.store.there, generations |-> d.store.generations]
  BY DEF Sound, Directory

-----------------------------------------------------------------------------
(* A step of a process touches the root and its own two places and call.   *)

DirFrame(p) ==
  /\ dir' = [d \in Place |-> dir'[d]]
  /\ \A q \in Process \ {p} : /\ dir'[Staging(q)] = dir[Staging(q)]
                              /\ dir'[Backup(q)] = dir[Backup(q)]

CallFrame(p) ==
  /\ call' = [q \in Process |-> call'[q]]
  /\ \A q \in Process \ {p} : call'[q] = call[q]

Touches(p) == DirFrame(p) /\ CallFrame(p) /\ made' \in Nat /\ made <= made'

\* So the types are kept if they are kept there.
LEMMA TypeByParts ==
  ASSUME TypeInv, NEW p \in Process, Touches(p),
         Sound(dir'[Root], made'), Sound(dir'[Staging(p)], made'), Sound(dir'[Backup(p)], made'),
         CallRecord(call'[p], made'),
         CallSound(call'[p], dir'[Staging(p)], dir'[Backup(p)])
  PROVE  TypeInv'
<1>1. ASSUME NEW d \in Place PROVE Sound(dir'[d], made')
  <2>1. CASE d = Root BY <2>1
  <2>2. CASE d = Staging(p) \/ d = Backup(p) BY <2>2
  <2>3. ASSUME NEW q \in Process \ {p}, d = Staging(q) \/ d = Backup(q)
        PROVE  Sound(dir'[d], made')
    <3>1. dir'[d] = dir[d] BY <2>3 DEF Touches, DirFrame
    <3>2. Sound(dir[d], made) BY DEF TypeInv
    <3> QED BY <3>1, <3>2, SoundLater DEF Touches, TypeInv
  <2> QED BY <2>1, <2>2, <2>3, PlaceIs
<1>2. ASSUME NEW q \in Process
      PROVE  CallRecord(call'[q], made') /\ CallSound(call'[q], dir'[Staging(q)], dir'[Backup(q)])
  <2>1. CASE q = p BY <2>1
  <2>2. CASE q # p
    <3>1. /\ call'[q] = call[q] /\ dir'[Staging(q)] = dir[Staging(q)]
          /\ dir'[Backup(q)] = dir[Backup(q)]
      BY <2>2 DEF Touches, DirFrame, CallFrame
    <3>2. CallRecord(call[q], made) BY DEF TypeInv
    <3>3. CallSound(call[q], dir[Staging(q)], dir[Backup(q)]) BY DEF TypeInv
    <3>4. CallRecord(call'[q], made') BY <3>1, <3>2, SoundLater DEF Touches, TypeInv
    <3> QED BY <3>1, <3>3, <3>4
  <2> QED BY <2>1, <2>2
<1>3. Place' = Place BY DEF Place, Root, Staging, Backup
<1> QED BY <1>1, <1>2, <1>3 DEF TypeInv, Touches, DirFrame, CallFrame, Staging, Backup, Root

-----------------------------------------------------------------------------
(* Each step touches what is its own. *)

\* One place is written, and nobody else's.
LEMMA PutRoot ==
  ASSUME TypeInv, NEW p \in Process, NEW v, dir' = [dir EXCEPT ![Root] = v]
  PROVE  /\ DirFrame(p) /\ dir'[Root] = v
         /\ dir'[Staging(p)] = dir[Staging(p)] /\ dir'[Backup(p)] = dir[Backup(p)]
  BY Places DEF TypeInv, DirFrame

LEMMA PutStaging ==
  ASSUME TypeInv, NEW p \in Process, NEW v, dir' = [dir EXCEPT ![Staging(p)] = v]
  PROVE  /\ DirFrame(p) /\ dir'[Staging(p)] = v
         /\ dir'[Root] = dir[Root] /\ dir'[Backup(p)] = dir[Backup(p)]
  BY Places DEF TypeInv, DirFrame

LEMMA PutBackup ==
  ASSUME TypeInv, NEW p \in Process, NEW v, dir' = [dir EXCEPT ![Backup(p)] = v]
  PROVE  /\ DirFrame(p) /\ dir'[Backup(p)] = v
         /\ dir'[Root] = dir[Root] /\ dir'[Staging(p)] = dir[Staging(p)]
  BY Places DEF TypeInv, DirFrame

\* Two or three are: what a rename leaves, and what a process leaves behind.
LEMMA PutAside ==
  ASSUME TypeInv, NEW p \in Process, NEW v, NEW w,
         dir' = [dir EXCEPT ![Backup(p)] = v, ![Root] = w]
  PROVE  /\ DirFrame(p) /\ dir'[Backup(p)] = v /\ dir'[Root] = w
         /\ dir'[Staging(p)] = dir[Staging(p)]
  BY Places DEF TypeInv, DirFrame

LEMMA PutIn ==
  ASSUME TypeInv, NEW p \in Process, NEW v, NEW w,
         dir' = [dir EXCEPT ![Root] = v, ![Staging(p)] = w]
  PROVE  /\ DirFrame(p) /\ dir'[Root] = v /\ dir'[Staging(p)] = w
         /\ dir'[Backup(p)] = dir[Backup(p)]
  BY Places DEF TypeInv, DirFrame

LEMMA PutAway ==
  ASSUME TypeInv, NEW p \in Process, Orphan(p, dir)
  PROVE  /\ DirFrame(p) /\ dir'[Root] = dir[Root]
         /\ dir'[Staging(p)] = Gone /\ dir'[Backup(p)] = Gone
  BY Places DEF TypeInv, DirFrame, Orphan

\* One process goes on, the others stay where they are.
LEMMA Turn ==
  ASSUME TypeInv, NEW p \in Process, NEW c, call' = [call EXCEPT ![p] = c]
  PROVE  /\ CallFrame(p)
         /\ call'[p] = c
  BY DEF TypeInv, CallFrame

LEMMA Moved ==
  ASSUME TypeInv, NEW p \in Process, NEW at, call' = [call EXCEPT ![p].at = at]
  PROVE  /\ CallFrame(p)
         /\ call'[p] = [call[p] EXCEPT !.at = at]
  BY DEF TypeInv, CallFrame

\* Where a process extracts, what it keeps is an extraction.
LEMMA Extracts ==
  ASSUME NEW m \in Nat, NEW c, CallRecord(c, m),
         c.at \in {"publish", "make-root", "in-place", "staged", "aside", "drop"}
  PROVE  c \in Extract
  BY DEF CallRecord, Waiting, Holding, Extract

\* A call that neither stages nor has anything aside asks nothing of its places.
LEMMA Elsewhere ==
  ASSUME NEW c, c.at \notin {"publish", "staged", "aside"}
  PROVE  \A s, b : CallSound(c, s, b)
  BY DEF CallSound

-----------------------------------------------------------------------------
(* The types are kept: extract. *)

\* What is there before a step of one process.
LEMMA Here ==
  ASSUME TypeInv, NEW p \in Process
  PROVE  /\ made \in Nat
         /\ Sound(dir[Root], made) /\ Sound(dir[Staging(p)], made) /\ Sound(dir[Backup(p)], made)
         /\ CallRecord(call[p], made) /\ CallSound(call[p], dir[Staging(p)], dir[Backup(p)])
  BY Places DEF TypeInv

\* A process goes on with what it keeps.
LEMMA ExtractMoves ==
  ASSUME TypeInv, NEW p \in Process,
         call[p].at \in {"publish", "make-root", "in-place", "staged", "aside", "drop"},
         NEW at \in {"publish", "make-root", "in-place", "staged", "aside", "drop"},
         call' = [call EXCEPT ![p].at = at]
  PROVE  /\ CallFrame(p) /\ CallRecord(call'[p], made) /\ call'[p] \in Extract
         /\ call'[p].at = at /\ call'[p].todo = call[p].todo /\ call'[p].source = call[p].source
<1>1. CallFrame(p) /\ call'[p] = [call[p] EXCEPT !.at = at] BY Moved DEF CallFrame
<1>2. call[p] \in Extract BY Here, Extracts
<1> QED BY <1>1, <1>2 DEF CallRecord, Extract

LEMMA WaitMoves ==
  ASSUME TypeInv, NEW p \in Process, call[p].at \in {"idle", "birth", "make"},
         NEW at \in {"idle", "birth", "make", "pin", "snapshot"},
         call' = [call EXCEPT ![p].at = at]
  PROVE  CallFrame(p) /\ CallRecord(call'[p], made) /\ call'[p].at = at
<1>1. CallFrame(p) /\ call'[p] = [call[p] EXCEPT !.at = at] BY Moved DEF CallFrame
<1>2. call[p] \in Waiting BY Here DEF CallRecord, Waiting, Holding, Extract
<1> QED BY <1>1, <1>2 DEF CallRecord, Waiting

LEMMA HoldMoves ==
  ASSUME TypeInv, NEW p \in Process, call[p].at \in {"pointer", "close"},
         NEW at \in {"pointer", "close", "pin", "mutate"},
         call' = [call EXCEPT ![p].at = at]
  PROVE  CallFrame(p) /\ CallRecord(call'[p], made) /\ call'[p].at = at /\ call[p].generation \in 0..made
<1>1. CallFrame(p) /\ call'[p] = [call[p] EXCEPT !.at = at] BY Moved DEF CallFrame
<1>2. call[p] \in Holding(made) BY Here DEF CallRecord, Waiting, Holding, Extract
<1> QED BY <1>1, <1>2 DEF CallRecord, Holding

\* A call is over.
LEMMA Returns ==
  ASSUME TypeInv, NEW p \in Process, Return(p)
  PROVE  CallFrame(p) /\ CallRecord(call'[p], made) /\ call'[p].at = "idle"
  BY Turn, Here DEF Return, CallFrame, CallRecord, NoCall, Waiting

LEMMA TPlan ==
  ASSUME TypeInv, NEW p \in Process, NEW source \in Source, NEW discard \in BOOLEAN,
         Plan(p, source, discard)
  PROVE  TypeInv'
<1> DEFINE c == [at |-> "publish", source |-> source, discard |-> discard, clear |-> Stale, todo |-> Asset]
<1>1. call' = [call EXCEPT ![p] = c] /\ UNCHANGED <<dir, made>> BY DEF Plan
<1>2. CallRecord(c, made) /\ c.at = "publish" BY DEF CallRecord, Extract, Stale
<1>3. CallFrame(p) /\ call'[p] = c BY <1>1, Turn DEF CallFrame
<1>5. Touches(p) BY <1>1, <1>3, Here DEF Touches, DirFrame, TypeInv
<1>4. CallSound(c, dir[Staging(p)], dir[Backup(p)]) BY DEF CallSound
<1> QED BY <1>1, <1>2, <1>3, <1>4, <1>5, Here, TypeByParts

\* The root as a step finds it, or makes it.
LEMMA PresentSound ==
  ASSUME TypeInv
  PROVE  /\ Sound(Present, made) /\ Present.there
         /\ Present.assets \in Assets /\ Present.store.generations \subseteq Generation(made)
  BY Places, FreshSound, Parts DEF Present, There, root, TypeInv, Fresh

LEMMA TFindNone ==
  ASSUME TypeInv, NEW p \in Process, FindNone(p)
  PROVE  TypeInv'
<1>1. /\ call' = [call EXCEPT ![p].at = "make-root"] /\ call[p].at = "publish"
      /\ UNCHANGED <<dir, made>>
  BY DEF FindNone, At
<1>2. CallFrame(p) /\ CallRecord(call'[p], made) /\ call'[p].at = "make-root"
  BY <1>1, ExtractMoves DEF CallFrame
<1>3. Touches(p) BY <1>1, <1>2, Here DEF Touches, DirFrame, TypeInv
<1> QED BY <1>1, <1>2, <1>3, Here, Elsewhere, TypeByParts

LEMMA TMakeRoot ==
  ASSUME TypeInv, NEW p \in Process, MakeRoot(p)
  PROVE  TypeInv'
<1>1. /\ dir' = [dir EXCEPT ![Root] = Present]
      /\ call' = [call EXCEPT ![p].at = "in-place"]
      /\ call[p].at = "make-root" /\ UNCHANGED made
  BY DEF MakeRoot, SetDir, Set, At
<1>2. /\ DirFrame(p) /\ dir'[Root] = Present
      /\ dir'[Staging(p)] = dir[Staging(p)] /\ dir'[Backup(p)] = dir[Backup(p)]
  BY <1>1, PutRoot DEF DirFrame
<1>3. CallFrame(p) /\ CallRecord(call'[p], made) /\ call'[p].at = "in-place"
  BY <1>1, ExtractMoves DEF CallFrame
<1>5. Touches(p) BY <1>1, <1>2, <1>3, Here DEF Touches
<1>6. Sound(Present, made) BY PresentSound
<1> QED BY <1>1, <1>2, <1>3, <1>5, <1>6, Here, Elsewhere, TypeByParts

LEMMA TPublishStaged ==
  ASSUME TypeInv, NEW p \in Process, PublishStaged(p)
  PROVE  TypeInv'
<1>1. /\ dir' = [dir EXCEPT ![Staging(p)] = Fresh(root.assets)]
      /\ call' = [call EXCEPT ![p].at = "staged"]
      /\ call[p].at = "publish" /\ UNCHANGED made
  BY DEF PublishStaged, SetDir, Set, At
<1>2. /\ DirFrame(p) /\ dir'[Staging(p)] = Fresh(root.assets)
      /\ dir'[Root] = dir[Root] /\ dir'[Backup(p)] = dir[Backup(p)]
  BY <1>1, PutStaging DEF DirFrame
<1>3. CallFrame(p) BY <1>1, ExtractMoves DEF CallFrame
<1>4. /\ CallRecord(call'[p], made) /\ call'[p].at = "staged" /\ call'[p] \in Extract
      /\ call'[p].todo = call[p].todo
  BY <1>1, ExtractMoves DEF CallFrame
<1>5. Touches(p) BY <1>1, <1>2, <1>3, Here DEF Touches
<1>6. Sound(Fresh(root.assets), made) BY Here, Parts, FreshSound DEF root
<1>7. call'[p].todo = Asset BY <1>1, <1>4, Here DEF CallSound
<1>8. CallSound(call'[p], dir'[Staging(p)], dir'[Backup(p)]) BY <1>2, <1>4, <1>7 DEF CallSound, Fresh
<1> QED BY <1>1, <1>2, <1>4, <1>5, <1>6, <1>8, Here, TypeByParts

LEMMA TApply ==
  ASSUME TypeInv, NEW p \in Process, NEW asset \in Asset, Apply(p, asset)
  PROVE  TypeInv'
<1> DEFINE new(d) == Written(p, d.assets[asset])
           in(d) == [d EXCEPT !.assets = [@ EXCEPT ![asset] = new(d)]]
           c == [call[p] EXCEPT !.todo = @ \ {asset}]
<1>1. /\ call' = [call EXCEPT ![p] = c] /\ UNCHANGED made
      /\ call[p].at \in {"in-place", "staged"} /\ asset \in call[p].todo
      /\ Target(p) \in Place
      /\ dir' = [dir EXCEPT ![Target(p)] = in(There(dir[Target(p)]))]
  BY Places DEF Apply, SetDir, Set, Target, TypeInv
<1>2. CallFrame(p) /\ call'[p] = c BY <1>1, Turn DEF CallFrame
<1>3. call[p] \in Extract BY <1>1, Here, Extracts
<1>4. /\ CallRecord(c, made) /\ c \in Extract /\ c.at = call[p].at
      /\ c.todo = call[p].todo \ {asset} /\ c.source = call[p].source
  BY <1>3 DEF CallRecord, Extract
<1>5. ASSUME NEW old \in Content \cup {Missing} PROVE Written(p, old) \in Content
  BY <1>3 DEF Content, Missing, Extract, Written
<1>6. ASSUME NEW d, Sound(d, made), d.there
      PROVE  /\ Sound(in(d), made) /\ in(d).there /\ in(d).store = d.store
             /\ in(d).assets = [d.assets EXCEPT ![asset] = new(d)]
  <2>1. d.assets \in Assets /\ d \in Directory(made) BY <1>6, Here, Parts DEF Sound
  <2>2. new(d) \in Content BY <1>5, <2>1 DEF Assets
  <2> HIDE DEF new
  <2>3. [d.assets EXCEPT ![asset] = new(d)] \in Assets BY <2>1, <2>2 DEF Assets
  <2> QED BY <1>6, <2>1, <2>3 DEF Sound, Directory
<1>7. CASE call[p].at = "in-place"
  <2>1. Target(p) = Root BY <1>7 DEF Target
  <2>2. /\ DirFrame(p) /\ dir'[Root] = in(Present)
        /\ dir'[Staging(p)] = dir[Staging(p)] /\ dir'[Backup(p)] = dir[Backup(p)]
    BY <1>1, <2>1, PutRoot DEF DirFrame, Present, root
  <2>3. Touches(p) BY <1>1, <1>2, <2>2, Here DEF Touches
  <2>4. Sound(dir'[Root], made) BY <1>6, <2>2, PresentSound
  <2> QED BY <1>1, <1>2, <1>4, <1>7, <2>2, <2>3, <2>4, Here, Elsewhere, TypeByParts
<1>8. CASE call[p].at = "staged"
  <2>1. Target(p) = Staging(p) BY <1>8 DEF Target
  <2>2. /\ DirFrame(p) /\ dir'[Staging(p)] = in(dir[Staging(p)]) /\ dir[Staging(p)].there
        /\ dir'[Root] = dir[Root] /\ dir'[Backup(p)] = dir[Backup(p)]
    BY <1>1, <1>8, <2>1, PutStaging, Here DEF DirFrame, CallSound, There
  <2>3. Touches(p) BY <1>1, <1>2, <2>2, Here DEF Touches
  <2>4. /\ Sound(dir'[Staging(p)], made) /\ dir'[Staging(p)].there
        /\ dir'[Staging(p)].store = dir[Staging(p)].store
        /\ dir'[Staging(p)].assets = [dir[Staging(p)].assets EXCEPT ![asset] = new(dir[Staging(p)])]
    BY <1>1, <1>6, <2>1, <2>2, Here
  <2>5. \A a \in Asset \ c.todo : dir'[Staging(p)].assets[a].base = c.source
    <3>1. dir[Staging(p)].assets \in Assets BY Here, Parts
    <3>2. \A a \in Asset \ call[p].todo : dir[Staging(p)].assets[a].base = call[p].source
      BY <1>8, Here DEF CallSound
    <3>3. dir'[Staging(p)].assets[asset] = new(dir[Staging(p)]) BY <2>4, <3>1 DEF Assets
    <3>4. \A a \in Asset : a # asset => dir'[Staging(p)].assets[a] = dir[Staging(p)].assets[a]
      BY <2>4, <3>1 DEF Assets
    <3>5. new(dir[Staging(p)]).base = call[p].source BY DEF Written
    <3> QED BY <1>4, <3>2, <3>3, <3>4, <3>5
  <2>6. CallSound(c, dir'[Staging(p)], dir'[Backup(p)])
    <3> HIDE DEF c
    <3> QED BY <1>4, <1>8, <2>4, <2>5, Here DEF CallSound
  <2> QED BY <1>1, <1>2, <1>4, <2>2, <2>3, <2>4, <2>6, Here, TypeByParts
<1> QED BY <1>1, <1>7, <1>8

LEMMA TApplyFails ==
  ASSUME TypeInv, NEW p \in Process, ApplyFails(p)
  PROVE  TypeInv'
<1>1. /\ dir' = [dir EXCEPT ![Staging(p)] = Gone] /\ Return(p) /\ UNCHANGED made
  BY DEF ApplyFails, SetDir, Set
<1>2. /\ DirFrame(p) /\ dir'[Staging(p)] = Gone
      /\ dir'[Root] = dir[Root] /\ dir'[Backup(p)] = dir[Backup(p)]
  BY <1>1, PutStaging DEF DirFrame
<1>3. CallFrame(p) /\ CallRecord(call'[p], made) /\ call'[p].at = "idle"
  BY <1>1, Returns DEF Return, CallFrame
<1>4. Touches(p) BY <1>1, <1>2, <1>3, Here DEF Touches
<1> QED BY <1>1, <1>2, <1>3, <1>4, Here, FreshSound, Elsewhere, TypeByParts

\* A call that only returns.
LEMMA TReturns ==
  ASSUME TypeInv, NEW p \in Process, Return(p), UNCHANGED <<dir, made>>
  PROVE  TypeInv'
<1>1. CallFrame(p) /\ CallRecord(call'[p], made) /\ call'[p].at = "idle"
  BY Returns DEF Return, CallFrame
<1>2. Touches(p) BY <1>1, Here DEF Touches, DirFrame, TypeInv
<1> QED BY <1>1, <1>2, Here, Elsewhere, TypeByParts

LEMMA TMoveAside ==
  ASSUME TypeInv, NEW p \in Process, MoveAside(p)
  PROVE  TypeInv'
<1>1. call[p].at = "staged" /\ call[p].todo = {} /\ UNCHANGED made BY DEF MoveAside
<1>2. CASE root.there
  <2>1. /\ dir' = [dir EXCEPT ![Backup(p)] = dir[Root], ![Root] = Gone]
        /\ call' = [call EXCEPT ![p].at = "aside"]
    BY <1>2 DEF MoveAside, Set, At, root
  <2>2. /\ DirFrame(p) /\ dir'[Backup(p)] = dir[Root] /\ dir'[Root] = Gone
        /\ dir'[Staging(p)] = dir[Staging(p)]
    BY <2>1, PutAside DEF DirFrame
  <2>3. CallFrame(p) BY <1>1, <2>1, ExtractMoves DEF CallFrame
  <2>4. /\ CallRecord(call'[p], made) /\ call'[p].at = "aside" /\ call'[p] \in Extract
        /\ call'[p].todo = call[p].todo /\ call'[p].source = call[p].source
    BY <1>1, <2>1, ExtractMoves DEF CallFrame
  <2>5. Touches(p) BY <1>1, <2>2, <2>3, Here DEF Touches
  <2>6. CallSound(call'[p], dir'[Staging(p)], dir'[Backup(p)])
    BY <1>1, <1>2, <2>2, <2>4, Here DEF CallSound, root
  <2> QED BY <1>1, <2>2, <2>4, <2>5, <2>6, Here, FreshSound, TypeByParts
<1>3. CASE ~root.there
  <2>1. /\ dir' = [dir EXCEPT ![Staging(p)] = Gone] /\ Return(p)
    BY <1>3 DEF MoveAside, SetDir, Set
  <2>2. /\ DirFrame(p) /\ dir'[Staging(p)] = Gone
        /\ dir'[Root] = dir[Root] /\ dir'[Backup(p)] = dir[Backup(p)]
    BY <2>1, PutStaging DEF DirFrame
  <2>3. CallFrame(p) /\ CallRecord(call'[p], made) /\ call'[p].at = "idle"
    BY <2>1, Returns DEF Return, CallFrame
  <2>4. Touches(p) BY <1>1, <2>2, <2>3, Here DEF Touches
  <2> QED BY <1>1, <2>2, <2>3, <2>4, Here, FreshSound, Elsewhere, TypeByParts
<1> QED BY <1>2, <1>3

LEMMA TMoveIn ==
  ASSUME TypeInv, NEW p \in Process, MoveIn(p)
  PROVE  TypeInv'
<1>1. /\ call[p].at = "aside" /\ UNCHANGED made /\ call' = [call EXCEPT ![p].at = "drop"]
      /\ dir' = [dir EXCEPT ![Root] = dir[Staging(p)], ![Staging(p)] = Gone]
  BY DEF MoveIn, Set, At
<1>2. /\ DirFrame(p) /\ dir'[Root] = dir[Staging(p)] /\ dir'[Staging(p)] = Gone
      /\ dir'[Backup(p)] = dir[Backup(p)]
  BY <1>1, PutIn DEF DirFrame
<1>3. CallFrame(p) /\ CallRecord(call'[p], made) /\ call'[p].at = "drop"
  BY <1>1, ExtractMoves DEF CallFrame
<1>4. Touches(p) BY <1>1, <1>2, <1>3, Here DEF Touches
<1> QED BY <1>1, <1>2, <1>3, <1>4, Here, FreshSound, Elsewhere, TypeByParts

LEMMA TMoveBack ==
  ASSUME TypeInv, NEW p \in Process, MoveBack(p)
  PROVE  TypeInv'
<1>1. /\ UNCHANGED made /\ Return(p)
      /\ dir' = [dir EXCEPT ![Root] = dir[Backup(p)], ![Backup(p)] = Gone, ![Staging(p)] = Gone]
  BY DEF MoveBack, Set
<1>2. CallFrame(p) /\ CallRecord(call'[p], made) /\ call'[p].at = "idle"
  BY <1>1, Returns DEF Return, CallFrame
<1>3. /\ DirFrame(p) /\ dir'[Root] = dir[Backup(p)]
      /\ dir'[Staging(p)] = Gone /\ dir'[Backup(p)] = Gone
  BY <1>1, Places DEF DirFrame, TypeInv
<1>4. Touches(p) BY <1>1, <1>2, <1>3, Here DEF Touches
<1> QED BY <1>1, <1>2, <1>3, <1>4, Here, FreshSound, Elsewhere, TypeByParts

LEMMA TDropBackup ==
  ASSUME TypeInv, NEW p \in Process, DropBackup(p)
  PROVE  TypeInv'
<1>1. /\ dir' = [dir EXCEPT ![Backup(p)] = Gone] /\ Return(p) /\ UNCHANGED made
  BY DEF DropBackup, SetDir, Set
<1>2. /\ DirFrame(p) /\ dir'[Backup(p)] = Gone
      /\ dir'[Root] = dir[Root] /\ dir'[Staging(p)] = dir[Staging(p)]
  BY <1>1, PutBackup DEF DirFrame
<1>3. CallFrame(p) /\ CallRecord(call'[p], made) /\ call'[p].at = "idle"
  BY <1>1, Returns DEF Return, CallFrame
<1>4. Touches(p) BY <1>1, <1>2, <1>3, Here DEF Touches
<1> QED BY <1>1, <1>2, <1>3, <1>4, Here, FreshSound, Elsewhere, TypeByParts

\* A process leaves what it has staged and moved aside.
LEMMA TAway ==
  ASSUME TypeInv, NEW p \in Process, Crash(p) \/ MoveRefused(p)
  PROVE  TypeInv'
<1>1. Orphan(p, dir) /\ Return(p) /\ UNCHANGED made BY DEF Crash, MoveRefused
<1>2. /\ DirFrame(p) /\ dir'[Root] = dir[Root]
      /\ dir'[Staging(p)] = Gone /\ dir'[Backup(p)] = Gone
  BY <1>1, PutAway DEF DirFrame, Orphan
<1>3. CallFrame(p) /\ CallRecord(call'[p], made) /\ call'[p].at = "idle"
  BY <1>1, Returns DEF Return, CallFrame
<1>4. Touches(p) BY <1>1, <1>2, <1>3, Here DEF Touches
<1> QED BY <1>1, <1>2, <1>3, <1>4, Here, FreshSound, Elsewhere, TypeByParts

\* A source is extracted.
LEMMA TExtracting ==
  ASSUME TypeInv, NEW p \in Process, Extracting(p)
  PROVE  TypeInv'
  BY TPlan, TFindNone, TMakeRoot, TPublishStaged, TApply, TApplyFails, TReturns, TMoveAside,
     TMoveIn, TAway, TMoveBack, TDropBackup DEF Extracting, InPlaceDone

-----------------------------------------------------------------------------
(* The types are kept: an edit. *)

\* A step that writes under the root, and nowhere else.
LEMMA TUnderRoot ==
  ASSUME TypeInv, NEW p \in Process, NEW d, dir' = [dir EXCEPT ![Root] = d],
         made' \in Nat, made <= made', Sound(d, made'),
         CallFrame(p), CallRecord(call'[p], made'), call'[p].at \notin {"publish", "staged", "aside"}
  PROVE  TypeInv'
<1>1. /\ DirFrame(p) /\ dir'[Root] = d
      /\ dir'[Staging(p)] = dir[Staging(p)] /\ dir'[Backup(p)] = dir[Backup(p)]
  BY PutRoot DEF DirFrame
<1>2. Touches(p) BY <1>1 DEF Touches
<1>3. Sound(dir'[Staging(p)], made') /\ Sound(dir'[Backup(p)], made') BY <1>1, Here, SoundLater
<1> QED BY <1>1, <1>2, <1>3, Elsewhere, TypeByParts

\* A step that only moves the process on.
LEMMA TMoves ==
  ASSUME TypeInv, NEW p \in Process, UNCHANGED <<dir, made>>,
         CallFrame(p), CallRecord(call'[p], made), call'[p].at \notin {"publish", "staged", "aside"}
  PROVE  TypeInv'
<1>1. Touches(p) BY Here DEF Touches, DirFrame, TypeInv
<1> QED BY <1>1, Here, Elsewhere, TypeByParts

LEMMA TUpgrade ==
  ASSUME TypeInv, NEW p \in Process, Upgrade(p)
  PROVE  TypeInv'
<1>1. call[p].at = "idle" /\ call' = [call EXCEPT ![p].at = "birth"] /\ UNCHANGED <<dir, made>>
  BY DEF Upgrade, At
<1>2. CallFrame(p) /\ CallRecord(call'[p], made) /\ call'[p].at = "birth"
  BY <1>1, WaitMoves DEF CallFrame
<1> QED BY <1>1, <1>2, TMoves DEF CallFrame

LEMMA TBirthCheck ==
  ASSUME TypeInv, NEW p \in Process, BirthCheck(p)
  PROVE  TypeInv'
<1>1. call[p].at = "birth" /\ UNCHANGED <<dir, made>> BY DEF BirthCheck
<1>2. CASE Return(p) BY <1>1, <1>2, TReturns DEF Return
<1>3. CASE call' = [call EXCEPT ![p].at = "pin"]
  <2>1. CallFrame(p) /\ CallRecord(call'[p], made) /\ call'[p].at = "pin"
    BY <1>1, <1>3, WaitMoves DEF CallFrame
  <2> QED BY <1>1, <2>1, TMoves DEF CallFrame
<1>4. CASE call' = [call EXCEPT ![p].at = "make"]
  <2>1. CallFrame(p) /\ CallRecord(call'[p], made) /\ call'[p].at = "make"
    BY <1>1, <1>4, WaitMoves DEF CallFrame
  <2> QED BY <1>1, <2>1, TMoves DEF CallFrame
<1> QED BY <1>2, <1>3, <1>4 DEF BirthCheck, At

LEMMA TBirthDir ==
  ASSUME TypeInv, NEW p \in Process, BirthDir(p)
  PROVE  TypeInv'
<1> DEFINE d == [Present EXCEPT !.store.there = TRUE]
<1>1. /\ call[p].at = "make" /\ call' = [call EXCEPT ![p].at = "snapshot"]
      /\ dir' = [dir EXCEPT ![Root] = d] /\ UNCHANGED made
  BY DEF BirthDir, SetDir, Set, At
<1>2. CallFrame(p) /\ CallRecord(call'[p], made) /\ call'[p].at = "snapshot"
  BY <1>1, WaitMoves DEF CallFrame
<1>3. Sound(d, made) BY PresentSound DEF Sound, Directory
<1>4. made' \in Nat /\ made <= made' BY <1>1, Here
<1> HIDE DEF d
<1>5. Sound(d, made') /\ CallRecord(call'[p], made') BY <1>1, <1>2, <1>3
<1> QED BY <1>1, <1>2, <1>4, <1>5, TUnderRoot DEF CallFrame

LEMMA TBirthSnapshot ==
  ASSUME TypeInv, NEW p \in Process, BirthSnapshot(p)
  PROVE  TypeInv'
<1> DEFINE g == [id |-> made + 1, assets |-> Present.assets]
           d == [Present EXCEPT !.store =
                   [there |-> TRUE, generations |-> Present.store.generations \cup {g}]]
           c == [at |-> "pointer", generation |-> made + 1]
<1>1. /\ made' = made + 1 /\ dir' = [dir EXCEPT ![Root] = d] /\ call' = [call EXCEPT ![p] = c]
  BY DEF BirthSnapshot, SetDir, Set
<1>2. made \in Nat /\ made' \in Nat /\ made <= made' BY <1>1, Here
<1>3. CallRecord(c, made') BY <1>1, <1>2 DEF CallRecord, Holding
<1>4. CallFrame(p) /\ call'[p] = c BY <1>1, Turn DEF CallFrame
<1>5. Sound(d, made')
  <2>1. Sound(Present, made') /\ Present.there BY <1>2, PresentSound, SoundLater
  <2>2. g \in Generation(made') BY <1>1, <1>2, PresentSound DEF Generation
  <2>3. \A h \in Present.store.generations : h.id \in 1..made BY PresentSound DEF Generation
  <2>4. \A h \in Present.store.generations : h.id # g.id BY <1>2, <2>3
  <2>5. d \in Directory(made') BY <2>1, <2>2 DEF Sound, Directory
  <2>6. d.store.generations = Present.store.generations \cup {g} /\ d.there
    BY <2>1 DEF Sound, Directory
  <2> HIDE DEF d, g
  <2> QED BY <2>1, <2>4, <2>5, <2>6 DEF Sound
<1> QED BY <1>1, <1>2, <1>3, <1>4, <1>5, TUnderRoot DEF CallFrame

LEMMA TBirthPointer ==
  ASSUME TypeInv, NEW p \in Process, BirthPointer(p)
  PROVE  TypeInv'
<1> DEFINE d == [Present EXCEPT !.pointer = call[p].generation]
<1>1. /\ call[p].at = "pointer" /\ call' = [call EXCEPT ![p].at = "close"]
      /\ dir' = [dir EXCEPT ![Root] = d] /\ UNCHANGED made
  BY DEF BirthPointer, SetDir, Set, At
<1>2. CallFrame(p) /\ CallRecord(call'[p], made) /\ call'[p].at = "close"
      /\ call[p].generation \in 0..made
  BY <1>1, HoldMoves DEF CallFrame
<1>3. Sound(d, made) BY <1>2, PresentSound DEF Sound, Directory
<1>4. made' \in Nat /\ made <= made' BY <1>1, Here
<1> HIDE DEF d
<1>5. Sound(d, made') /\ CallRecord(call'[p], made') BY <1>1, <1>2, <1>3
<1> QED BY <1>1, <1>2, <1>4, <1>5, TUnderRoot DEF CallFrame

LEMMA TBirthClose ==
  ASSUME TypeInv, NEW p \in Process, BirthClose(p)
  PROVE  TypeInv'
<1> DEFINE d == [Present EXCEPT !.store.there = TRUE]
<1>1. /\ call[p].at = "close" /\ call' = [call EXCEPT ![p].at = "pin"]
      /\ dir' = [dir EXCEPT ![Root] = d] /\ UNCHANGED made
  BY DEF BirthClose, SetDir, Set, At
<1>2. CallFrame(p) /\ CallRecord(call'[p], made) /\ call'[p].at = "pin"
  BY <1>1, HoldMoves DEF CallFrame
<1>3. Sound(d, made) BY PresentSound DEF Sound, Directory
<1>4. made' \in Nat /\ made <= made' BY <1>1, Here
<1> HIDE DEF d
<1>5. Sound(d, made') /\ CallRecord(call'[p], made') BY <1>1, <1>2, <1>3
<1> QED BY <1>1, <1>2, <1>4, <1>5, TUnderRoot DEF CallFrame

LEMMA TBirthFails ==
  ASSUME TypeInv, NEW p \in Process, BirthFails(p)
  PROVE  TypeInv'
<1> DEFINE d == [dir[Root] EXCEPT !.store = NoStore]
<1>1. dir' = [dir EXCEPT ![Root] = d] /\ Return(p) /\ UNCHANGED made
  BY Places DEF BirthFails, Set, TypeInv
<1>2. CallFrame(p) /\ CallRecord(call'[p], made) /\ call'[p].at = "idle"
  BY <1>1, Returns DEF Return, CallFrame
<1>3. Sound(d, made)
  <2>1. d \in Directory(made) BY Here DEF Sound, Directory, NoStore
  <2>2. d.store = NoStore /\ d.there = dir[Root].there BY Here DEF Sound, Directory
  <2>3. dir[Root].store = NoStore => d = dir[Root] BY Here DEF Sound, Directory
  <2>4. Gone.store = NoStore BY DEF Gone
  <2> HIDE DEF d
  <2> QED BY <2>1, <2>2, <2>3, <2>4, Here DEF Sound, NoStore
<1>4. made' \in Nat /\ made <= made' BY <1>1, Here
<1> HIDE DEF d
<1>5. Sound(d, made') /\ CallRecord(call'[p], made') BY <1>1, <1>2, <1>3
<1> QED BY <1>1, <1>2, <1>4, <1>5, TUnderRoot DEF CallFrame

LEMMA TPin ==
  ASSUME TypeInv, NEW p \in Process, Pin(p)
  PROVE  TypeInv'
<1> DEFINE c == [at |-> "mutate", generation |-> root.pointer]
<1>1. call' = [call EXCEPT ![p] = c] /\ UNCHANGED <<dir, made>> BY DEF Pin
<1>2. CallFrame(p) /\ call'[p] = c BY <1>1, Turn DEF CallFrame
<1>3. CallRecord(c, made) BY Here, Parts DEF CallRecord, Holding, root
<1> QED BY <1>1, <1>2, <1>3, TMoves DEF CallFrame

LEMMA TMutate ==
  ASSUME TypeInv, NEW p \in Process, Mutate(p)
  PROVE  TypeInv'
<1>1. /\ made' = made + 1 /\ Return(p) /\ Mutable(p) BY DEF Mutate
<1>2. PICK parent \in Selected :
        dir' = [dir EXCEPT ![Root] =
          [there |-> TRUE, assets |-> Edited(parent.assets, made'), pointer |-> made',
           store |-> [root.store EXCEPT !.generations =
                        @ \cup {[id |-> made', assets |-> Edited(parent.assets, made')]}]]]
  BY DEF Mutate, SetDir, Set
<1> DEFINE after == Edited(parent.assets, made')
           g == [id |-> made', assets |-> after]
           store == [root.store EXCEPT !.generations = @ \cup {g}]
           d == [there |-> TRUE, assets |-> after, pointer |-> made', store |-> store]
<1>3. made \in Nat /\ made' \in Nat /\ made <= made' /\ made' \in 0..made' /\ made' \in 1..made'
  BY <1>1, Here
<1>4. CallFrame(p) /\ CallRecord(call'[p], made) /\ call'[p].at = "idle"
  BY <1>1, Returns DEF Return, CallFrame
<1>5. CallRecord(call'[p], made') BY <1>3, <1>4, SoundLater
<1>6. /\ Sound(root, made) /\ Sound(root, made')
  BY <1>3, Here, SoundLater DEF root
<1>7. parent \in Generation(made) /\ parent.assets["typed"] # Missing
  BY <1>1, <1>2, <1>3, <1>6, Parts DEF Mutable, Selected
<1>8. after \in Assets
  <2>1. parent.assets \in Assets BY <1>7 DEF Generation
  <2>2. parent.assets["typed"] \in Content BY <1>7, <2>1 DEF Assets, Asset
  <2>3. [parent.assets["typed"] EXCEPT !.edits = @ \cup {made'}] \in Content
    BY <1>3, <2>2 DEF Content
  <2> QED BY <2>1, <2>3 DEF Edited, Assets
<1>9. g \in Generation(made') BY <1>3, <1>8 DEF Generation
<1>10. /\ store \in [there : BOOLEAN, generations : SUBSET Generation(made')]
       /\ store.generations = root.store.generations \cup {g}
  <2>1. root.store \in [there : BOOLEAN, generations : SUBSET Generation(made')]
    BY <1>6 DEF Sound, Directory
  <2> HIDE DEF g
  <2> QED BY <1>9, <2>1
<1>11. d \in Directory(made') BY <1>3, <1>8, <1>10 DEF Directory
<1>12. \A h \in root.store.generations : h.id # g.id
  <2>1. root.store.generations \subseteq Generation(made) BY <1>3, <1>6, Parts
  <2>2. \A h \in root.store.generations : h.id \in 1..made BY <2>1 DEF Generation
  <2> QED BY <1>1, <1>3, <2>2
<1>13. Sound(d, made')
  <2>1. d.store.generations = root.store.generations \cup {g} /\ d.there BY <1>10
  <2> HIDE DEF d, g
  <2> QED BY <1>6, <1>11, <1>12, <2>1 DEF Sound
<1> QED BY <1>2, <1>3, <1>4, <1>5, <1>13, TUnderRoot DEF CallFrame

\* The workdir is edited.
LEMMA TEditing ==
  ASSUME TypeInv, NEW p \in Process, Editing(p)
  PROVE  TypeInv'
  BY TUpgrade, TBirthCheck, TBirthDir, TBirthSnapshot, TBirthPointer, TBirthClose, TBirthFails,
     TPin, TReturns, TMutate DEF Editing, PinRefused, MutateRefused

-----------------------------------------------------------------------------
LEMMA TInit == Init => TypeInv
<1> SUFFICES ASSUME Init PROVE TypeInv OBVIOUS
<1>1. made = 0 /\ dir = [d \in Place |-> dir[d]] /\ call = [p \in Process |-> call[p]] BY DEF Init
<1>2. From(First) \in Assets BY WorkdirAssumption DEF From, Assets, Content
<1>3. ASSUME NEW d \in Place PROVE Sound(dir[d], 0)
  BY <1>2, FreshSound DEF Init
<1>4. ASSUME NEW p \in Process
      PROVE  CallRecord(call[p], 0) /\ CallSound(call[p], dir[Staging(p)], dir[Backup(p)])
  BY DEF Init, NoCall, CallRecord, Waiting, CallSound
<1> QED BY <1>1, <1>3, <1>4 DEF TypeInv

LEMMA TNext == TypeInv /\ [Next]_vars => TypeInv'
<1> SUFFICES ASSUME TypeInv, [Next]_vars PROVE TypeInv' OBVIOUS
<1>1. ASSUME NEW p \in Process, Extracting(p) PROVE TypeInv' BY <1>1, TExtracting
<1>2. ASSUME NEW p \in Process, Editing(p) PROVE TypeInv' BY <1>2, TEditing
<1>3. ASSUME NEW p \in Process, Crash(p) PROVE TypeInv' BY <1>3, TAway
<1>4. CASE UNCHANGED vars
  BY <1>4 DEF vars, TypeInv, Place, Staging, Backup, Root
<1> QED BY <1>1, <1>2, <1>3, <1>4 DEF Next

\* Directories, generations and pointers keep their shape, no two generations of
\* a store share an id, and a publish finds what it staged and what it moved aside,
\* for every number of processes, calls, kills and failures.
THEOREM WorkdirShape == Spec => []TypeOK
<1>1. TypeInv => TypeOK
  <2> SUFFICES ASSUME TypeInv PROVE TypeOK OBVIOUS
  <2>1. ASSUME NEW d \in Place
        PROVE  /\ dir[d].assets \in Assets /\ dir[d].pointer \in 0..made
               /\ \A g, h \in dir[d].store.generations :
                    g.id \in 1..made /\ g.assets \in Assets /\ (g.id = h.id => g = h)
               /\ ~dir[d].there => dir[d] = Gone
    <3>1. Sound(dir[d], made) /\ made \in Nat BY DEF TypeInv
    <3>2. /\ dir[d].assets \in Assets /\ dir[d].pointer \in 0..made
          /\ dir[d].store.generations \subseteq Generation(made)
      BY <3>1, Parts
    <3> QED BY <3>1, <3>2 DEF Sound, Generation
  <2>2. ASSUME NEW p \in Process
        PROVE  /\ call[p].at \in {"staged", "aside"} => dir[Staging(p)].there
               /\ call[p].at = "aside" => dir[Backup(p)].there
    BY DEF TypeInv, CallSound
  <2> QED BY <2>1, <2>2 DEF TypeOK
<1> QED BY <1>1, TInit, TNext, PTL DEF Spec

-----------------------------------------------------------------------------
(* The document survives: what the steps of one process do to it. *)

\* Nobody puts a directory over a document in the root.
LEMMA NotVacant ==
  ASSUME Held
  PROVE  ~Vacant
  BY WorkdirAssumption DEF Held, Vacant, Good, Whole, Fresh, Blank, Missing, Asset

\* A document another process has aside stays there.
LEMMA OthersAside ==
  ASSUME NEW p \in Process, NEW q \in Process, p # q, Aside(q), DirFrame(p), CallFrame(p)
  PROVE  Aside(q)'
<1>1. call'[q].at = "aside" /\ dir'[Backup(q)] = dir[Backup(q)]
  BY DEF DirFrame, CallFrame, Aside
<1> QED BY <1>1 DEF Aside, Good, Whole, Backup

\* So only the document in the root and the one a process has aside itself matter.
LEMMA SurvivesBy ==
  ASSUME Survives, NEW p \in Process, DirFrame(p), CallFrame(p),
         orphans \subseteq orphans', crossed => crossed', Held \/ Aside(p) => Survives'
  PROVE  Survives'
<1>1. CASE Orphaned \/ crossed BY <1>1 DEF Survives, Orphaned
<1>2. CASE Held \/ Aside(p) BY <1>2
<1>3. ASSUME NEW q \in Process, q # p, Aside(q) PROVE Survives'
  BY <1>3, OthersAside DEF Survives
<1> QED BY <1>1, <1>2, <1>3 DEF Survives

\* A step that moves nothing aside leaves the root whole, if it was.
LEMMA SRoot ==
  ASSUME Survives, NEW p \in Process, DirFrame(p), CallFrame(p),
         orphans \subseteq orphans', crossed => crossed', call[p].at # "aside",
         Held => dir'[Root].there /\ Good(dir'[Root]) /\ call'[p].at \notin {"make-root", "in-place"}
  PROVE  Survives'
<1>1. ASSUME Held PROVE Survives'
  <2>1. \A q \in Process : ~InPlace(q)'
    BY <1>1 DEF Held, NoneInPlace, InPlace, CallFrame
  <2>2. dir'[Root].there /\ Good(dir'[Root]) BY <1>1
  <2>3. Good(dir'[Root]) => Good(root)' BY DEF Good, Whole, root, Root
  <2> QED BY <2>1, <2>2, <2>3 DEF Survives, Held, NoneInPlace, InPlace, root, Root
<1>2. ~Aside(p) BY DEF Aside
<1> QED BY <1>1, <1>2, SurvivesBy

LEMMA SKeep ==
  ASSUME Survives, NEW p \in Process, DirFrame(p), CallFrame(p),
         UNCHANGED <<orphans, crossed>>, call[p].at # "aside", dir'[Root] = dir[Root],
         call'[p].at \notin {"make-root", "in-place"}
  PROVE  Survives'
  BY SRoot DEF Held, root

-----------------------------------------------------------------------------
(* The document survives: extract. *)

\* Where the root has gone the document is elsewhere.
LEMMA SFindNone ==
  ASSUME TypeInv, Survives, NEW p \in Process, FindNone(p)
  PROVE  Survives'
<1>1. /\ UNCHANGED <<dir, orphans, crossed>> /\ call' = [call EXCEPT ![p].at = "make-root"]
      /\ call[p].at = "publish" /\ ~root.there
  BY DEF FindNone, At
<1>2. DirFrame(p) BY <1>1 DEF DirFrame, TypeInv
<1>3. CallFrame(p) BY <1>1, Moved DEF CallFrame
<1> QED BY <1>1, <1>2, <1>3, SRoot DEF Held

LEMMA SMakeRoot ==
  ASSUME TypeInv, Survives, NEW p \in Process, MakeRoot(p)
  PROVE  Survives'
<1>1. /\ dir' = [dir EXCEPT ![Root] = Present] /\ UNCHANGED <<orphans, crossed>>
      /\ call' = [call EXCEPT ![p].at = "in-place"] /\ call[p].at = "make-root"
  BY DEF MakeRoot, SetDir, Set, At
<1>2. DirFrame(p) BY <1>1, PutRoot DEF DirFrame
<1>3. CallFrame(p) BY <1>1, Moved DEF CallFrame
<1>4. ~Held BY <1>1 DEF Held, NoneInPlace, InPlace
<1> QED BY <1>1, <1>2, <1>3, <1>4, SRoot

LEMMA SPublishStaged ==
  ASSUME TypeInv, Survives, NEW p \in Process, PublishStaged(p)
  PROVE  Survives'
<1>1. /\ dir' = [dir EXCEPT ![Staging(p)] = Fresh(root.assets)] /\ UNCHANGED <<orphans, crossed>>
      /\ call' = [call EXCEPT ![p].at = "staged"] /\ call[p].at = "publish"
  BY DEF PublishStaged, SetDir, Set, At
<1>2. DirFrame(p) /\ dir'[Root] = dir[Root] BY <1>1, PutStaging DEF DirFrame
<1>3. CallFrame(p) /\ call'[p].at = "staged" BY <1>1, ExtractMoves DEF CallFrame
<1> QED BY <1>1, <1>2, <1>3, SKeep

\* The root is written only by a process that took its name while it was free.
LEMMA SApply ==
  ASSUME TypeInv, Survives, NEW p \in Process, NEW asset \in Asset, Apply(p, asset)
  PROVE  Survives'
<1> DEFINE c == [call[p] EXCEPT !.todo = @ \ {asset}]
           d == [There(dir[Target(p)]) EXCEPT !.assets[asset] = Written(p, @)]
<1>1. /\ call' = [call EXCEPT ![p] = c] /\ UNCHANGED <<orphans, crossed>>
      /\ call[p].at \in {"in-place", "staged"}
      /\ dir' = [dir EXCEPT ![Target(p)] = d]
  BY DEF Apply, SetDir, Set
<1>2. CallFrame(p) /\ call'[p] = c BY <1>1, Turn DEF CallFrame
<1>3. call[p] \in Extract BY <1>1, Here, Extracts
<1>4. c.at = call[p].at BY <1>3 DEF Extract
<1> HIDE DEF c, d
<1>5. CASE call[p].at = "in-place"
  <2>1. Target(p) = Root BY <1>5 DEF Target
  <2>2. DirFrame(p) BY <1>1, <2>1, PutRoot DEF DirFrame
  <2>3. ~Held BY <1>5 DEF Held, NoneInPlace, InPlace
  <2> QED BY <1>1, <1>2, <1>5, <2>2, <2>3, SRoot
<1>6. CASE call[p].at = "staged"
  <2>1. Target(p) = Staging(p) BY <1>6 DEF Target
  <2>2. DirFrame(p) /\ dir'[Root] = dir[Root] BY <1>1, <2>1, PutStaging DEF DirFrame
  <2>3. call'[p].at = "staged" BY <1>2, <1>4, <1>6
  <2> QED BY <1>1, <1>2, <1>6, <2>2, <2>3, SKeep
<1> QED BY <1>1, <1>5, <1>6

LEMMA SApplyFails ==
  ASSUME TypeInv, Survives, NEW p \in Process, ApplyFails(p)
  PROVE  Survives'
<1>1. /\ dir' = [dir EXCEPT ![Staging(p)] = Gone] /\ Return(p) /\ UNCHANGED <<orphans, crossed>>
      /\ call[p].at \in {"in-place", "staged"}
  BY DEF ApplyFails, SetDir, Set
<1>2. DirFrame(p) /\ dir'[Root] = dir[Root] BY <1>1, PutStaging DEF DirFrame
<1>3. CallFrame(p) /\ call'[p].at = "idle" BY <1>1, Returns DEF Return, CallFrame
<1> QED BY <1>1, <1>2, <1>3, SKeep

\* What is moved aside is the document.
LEMMA SMoveAside ==
  ASSUME TypeInv, Survives, NEW p \in Process, MoveAside(p)
  PROVE  Survives'
<1>1. call[p].at = "staged" /\ UNCHANGED <<orphans, crossed>> BY DEF MoveAside, Set, SetDir
<1>2. CASE root.there
  <2>1. /\ dir' = [dir EXCEPT ![Backup(p)] = dir[Root], ![Root] = Gone]
        /\ call' = [call EXCEPT ![p].at = "aside"]
    BY <1>2 DEF MoveAside, Set, At, root
  <2>2. DirFrame(p) /\ dir'[Backup(p)] = dir[Root] BY <2>1, PutAside DEF DirFrame
  <2>3. CallFrame(p) /\ call'[p].at = "aside" BY <1>1, <2>1, ExtractMoves DEF CallFrame
  <2>4. ASSUME Held PROVE Survives'
    <3>1. Good(dir'[Backup(p)]) BY <2>2, <2>4 DEF Held, root
    <3>2. Good(dir'[Backup(p)]) => Good(dir[Backup(p)])' BY DEF Good, Whole, Backup
    <3>3. Aside(p)' BY <2>3, <3>1, <3>2 DEF Aside
    <3> QED BY <3>3 DEF Survives
  <2>5. ~Aside(p) BY <1>1 DEF Aside
  <2> QED BY <1>1, <2>2, <2>3, <2>4, <2>5, SurvivesBy
<1>3. CASE ~root.there
  <2>1. dir' = [dir EXCEPT ![Staging(p)] = Gone] /\ Return(p)
    BY <1>3 DEF MoveAside, SetDir, Set
  <2>2. DirFrame(p) /\ dir'[Root] = dir[Root] BY <2>1, PutStaging DEF DirFrame
  <2>3. CallFrame(p) /\ call'[p].at = "idle" BY <2>1, Returns DEF Return, CallFrame
  <2> QED BY <1>1, <2>2, <2>3, SKeep
<1> QED BY <1>2, <1>3

\* A whole document takes the name, and nobody who found none is there to write on
\* it, or that is the exception.
LEMMA SPutInPlace ==
  ASSUME NEW p \in Process, CallFrame(p), call'[p].at \notin {"make-root", "in-place"},
         PutInPlace, dir'[Root].there, Good(dir'[Root])
  PROVE  Survives'
<1>1. CASE \E q \in Process : InPlace(q) BY <1>1 DEF PutInPlace, Survives
<1>2. CASE \A q \in Process : ~InPlace(q)
  <2>1. \A q \in Process : ~InPlace(q)' BY <1>2 DEF InPlace, CallFrame
  <2>2. Good(dir'[Root]) => Good(root)' BY DEF Good, Whole, root, Root
  <2> QED BY <2>1, <2>2 DEF Survives, Held, NoneInPlace, root, Root
<1> QED BY <1>1, <1>2

\* The staged copy that takes the name is a whole document.
LEMMA SMoveIn ==
  ASSUME TypeInv, Survives, NEW p \in Process, MoveIn(p)
  PROVE  Survives'
<1>1. /\ call[p].at = "aside" /\ UNCHANGED orphans /\ call' = [call EXCEPT ![p].at = "drop"]
      /\ dir' = [dir EXCEPT ![Root] = dir[Staging(p)], ![Staging(p)] = Gone]
      /\ Vacant /\ PutInPlace
  BY DEF MoveIn, Set, At
<1>2. DirFrame(p) /\ dir'[Root] = dir[Staging(p)] BY <1>1, PutIn DEF DirFrame
<1>3. CallFrame(p) /\ call'[p].at = "drop" BY <1>1, ExtractMoves DEF CallFrame
<1>4. ASSUME Aside(p) PROVE Survives'
  <2>1. /\ call[p] \in Extract /\ call[p].todo = {} /\ dir[Staging(p)].there
        /\ dir[Staging(p)].store = NoStore
        /\ \A a \in Asset : dir[Staging(p)].assets[a].base = call[p].source
    BY <1>1, Here DEF CallSound
  <2>2. call[p].source \in Source BY <2>1 DEF Extract
  <2>3. Good(dir[Staging(p)]) BY <2>1, <2>2 DEF Good, Whole, NoStore
  <2> QED BY <1>1, <1>2, <1>3, <2>1, <2>3, SPutInPlace
<1> QED BY <1>1, <1>2, <1>3, <1>4, NotVacant, SurvivesBy DEF PutInPlace

\* A document that is orphaned is never looked at again, but it is there.
LEMMA SAway ==
  ASSUME TypeInv, Survives, NEW p \in Process, Orphan(p, dir), Return(p),
         UNCHANGED crossed
  PROVE  Survives'
<1>1. DirFrame(p) /\ dir'[Root] = dir[Root] BY PutAway DEF DirFrame, Orphan
<1>2. CallFrame(p) /\ call'[p].at = "idle" BY Returns DEF Return, CallFrame
<1>3. orphans \subseteq orphans' BY DEF Orphan
<1>4. CASE call[p].at = "aside"
  <2>1. dir[Backup(p)].there BY <1>4, Here DEF CallSound
  <2>2. dir[Backup(p)] \in orphans' BY <2>1 DEF Orphan
  <2>3. ASSUME Aside(p) PROVE Survives'
    <3>1. Whole(dir[Backup(p)]) BY <2>3 DEF Aside, Good
    <3> QED BY <2>2, <3>1 DEF Survives, Orphaned, Whole
  <2>4. ASSUME Held PROVE Survives'
    <3>1. \A q \in Process : ~InPlace(q)'
      BY <1>2, <2>4 DEF Held, NoneInPlace, InPlace, CallFrame
    <3>2. dir'[Root].there /\ Good(dir'[Root]) BY <1>1, <2>4 DEF Held, root
    <3>3. Good(dir'[Root]) => Good(root)' BY DEF Good, Whole, root, Root
    <3> QED BY <3>1, <3>2, <3>3 DEF Survives, Held, NoneInPlace, InPlace, root, Root
  <2> QED BY <1>1, <1>2, <1>3, <2>3, <2>4, SurvivesBy
<1>5. CASE call[p].at # "aside"
  <2>1. Held => dir'[Root].there /\ Good(dir'[Root]) BY <1>1 DEF Held, root
  <2> QED BY <1>1, <1>2, <1>3, <1>5, <2>1, SRoot
<1> QED BY <1>4, <1>5

LEMMA SMoveBack ==
  ASSUME TypeInv, Survives, NEW p \in Process, MoveBack(p)
  PROVE  Survives'
<1>1. /\ call[p].at = "aside" /\ Return(p) /\ UNCHANGED orphans /\ Vacant /\ PutInPlace
      /\ dir' = [dir EXCEPT ![Root] = dir[Backup(p)], ![Backup(p)] = Gone, ![Staging(p)] = Gone]
  BY DEF MoveBack, Set
<1>2. DirFrame(p) /\ dir'[Root] = dir[Backup(p)] BY <1>1, Places DEF DirFrame, TypeInv
<1>3. CallFrame(p) /\ call'[p].at = "idle" BY <1>1, Returns DEF Return, CallFrame
<1>4. ASSUME Aside(p) PROVE Survives'
  <2>1. dir'[Root].there BY <1>1, <1>2, Here DEF CallSound
  <2>2. Good(dir'[Root]) BY <1>2, <1>4 DEF Aside
  <2> QED BY <1>1, <1>3, <2>1, <2>2, SPutInPlace
<1> QED BY <1>1, <1>2, <1>3, <1>4, NotVacant, SurvivesBy DEF PutInPlace

LEMMA SDropBackup ==
  ASSUME TypeInv, Survives, NEW p \in Process, DropBackup(p)
  PROVE  Survives'
<1>1. /\ dir' = [dir EXCEPT ![Backup(p)] = Gone] /\ Return(p) /\ UNCHANGED <<orphans, crossed>>
      /\ call[p].at = "drop"
  BY DEF DropBackup, SetDir, Set
<1>2. DirFrame(p) /\ dir'[Root] = dir[Root] BY <1>1, PutBackup DEF DirFrame
<1>3. CallFrame(p) /\ call'[p].at = "idle" BY <1>1, Returns DEF Return, CallFrame
<1> QED BY <1>1, <1>2, <1>3, SKeep

LEMMA SMoves ==
  ASSUME TypeInv, Survives, NEW p \in Process, UNCHANGED <<dir, orphans, crossed>>,
         CallFrame(p), call[p].at # "aside", call'[p].at \notin {"make-root", "in-place"}
  PROVE  Survives'
<1>1. DirFrame(p) BY DEF DirFrame, TypeInv
<1> QED BY <1>1, SKeep

LEMMA SReturns ==
  ASSUME TypeInv, Survives, NEW p \in Process, UNCHANGED <<dir, orphans, crossed>>, Return(p),
         call[p].at # "aside"
  PROVE  Survives'
<1>1. CallFrame(p) /\ call'[p].at = "idle" BY Returns DEF Return, CallFrame
<1> QED BY <1>1, SMoves DEF CallFrame

LEMMA SPlan ==
  ASSUME TypeInv, Survives, NEW p \in Process, NEW source \in Source,
         NEW discard \in BOOLEAN, Plan(p, source, discard)
  PROVE  Survives'
<1> DEFINE c == [at |-> "publish", source |-> source, discard |-> discard, clear |-> Stale, todo |-> Asset]
<1>1. call' = [call EXCEPT ![p] = c] /\ UNCHANGED <<dir, orphans, crossed>> /\ call[p].at = "idle" BY DEF Plan
<1>2. CallFrame(p) /\ call'[p].at = "publish" BY <1>1, Turn DEF CallFrame
<1> QED BY <1>1, <1>2, SMoves DEF CallFrame

LEMMA SExtracting ==
  ASSUME TypeInv, Survives, NEW p \in Process, Extracting(p)
  PROVE  Survives'
<1>1. InPlaceDone(p) => Survives' BY SReturns DEF InPlaceDone
<1>2. MoveRefused(p) => Survives' BY SAway DEF MoveRefused
<1> QED BY <1>1, <1>2, SPlan, SFindNone, SMakeRoot, SPublishStaged, SApply, SApplyFails, SMoveAside,
        SMoveIn, SMoveBack, SDropBackup DEF Extracting

-----------------------------------------------------------------------------
(* The document survives: an edit. *)

\* The steps of a birth write beside the document.
LEMMA SBirth ==
  ASSUME TypeInv, Survives, NEW p \in Process, NEW d,
         dir' = [dir EXCEPT ![Root] = d], UNCHANGED <<orphans, crossed>>,
         root.there => d.there /\ (Good(root) => Good(d)),
         CallFrame(p), call[p].at # "aside", call'[p].at \notin {"make-root", "in-place"}
  PROVE  Survives'
<1>1. DirFrame(p) /\ dir'[Root] = d BY PutRoot DEF DirFrame
<1> QED BY <1>1, SRoot DEF Held

LEMMA SBirthDir ==
  ASSUME TypeInv, Survives, NEW p \in Process, BirthDir(p) \/ BirthClose(p)
  PROVE  Survives'
<1> DEFINE d == [Present EXCEPT !.store.there = TRUE]
<1>1. /\ dir' = [dir EXCEPT ![Root] = d] /\ UNCHANGED <<orphans, crossed>>
      /\ call[p].at \in {"make", "close"}
  BY DEF BirthDir, BirthClose, SetDir, Set
<1>2. CallFrame(p) /\ call'[p].at \in {"snapshot", "pin"}
  BY WaitMoves, HoldMoves DEF BirthDir, BirthClose, At, CallFrame
<1>3. ASSUME root.there PROVE d.there /\ (Good(root) => Good(d))
  <2>1. Present = root BY <1>3 DEF Present, There
  <2>2. d.assets = root.assets /\ d.store.generations = root.store.generations /\ d.there = root.there
    BY <2>1, PresentSound DEF Sound, Directory
  <2> HIDE DEF d
  <2> QED BY <1>3, <2>2 DEF Good, Whole
<1> HIDE DEF d
<1> QED BY <1>1, <1>2, <1>3, SBirth DEF CallFrame

LEMMA SBirthSnapshot ==
  ASSUME TypeInv, Survives, NEW p \in Process, BirthSnapshot(p)
  PROVE  Survives'
<1> DEFINE g == [id |-> made + 1, assets |-> Present.assets]
           d == [Present EXCEPT !.store =
                   [there |-> TRUE, generations |-> Present.store.generations \cup {g}]]
           c == [at |-> "pointer", generation |-> made + 1]
<1>1. /\ dir' = [dir EXCEPT ![Root] = d] /\ call' = [call EXCEPT ![p] = c] /\ UNCHANGED <<orphans, crossed>>
      /\ call[p].at = "snapshot"
  BY DEF BirthSnapshot, SetDir, Set
<1>2. CallFrame(p) /\ call'[p].at = "pointer" BY <1>1, Turn DEF CallFrame
<1>3. ASSUME root.there PROVE d.there /\ (Good(root) => Good(d))
  <2>1. Present = root BY <1>3 DEF Present, There
  <2>2. /\ d.assets = root.assets /\ d.there = root.there
        /\ d.store.generations = root.store.generations \cup {g} /\ g.assets = root.assets
    BY <2>1, PresentSound DEF Sound, Directory
  <2> HIDE DEF d, g
  <2> QED BY <1>3, <2>2 DEF Good, Whole
<1> HIDE DEF d, c
<1> QED BY <1>1, <1>2, <1>3, SBirth DEF CallFrame

LEMMA SBirthPointer ==
  ASSUME TypeInv, Survives, NEW p \in Process, BirthPointer(p)
  PROVE  Survives'
<1> DEFINE d == [Present EXCEPT !.pointer = call[p].generation]
<1>1. /\ call[p].at = "pointer" /\ call' = [call EXCEPT ![p].at = "close"]
      /\ dir' = [dir EXCEPT ![Root] = d] /\ UNCHANGED <<orphans, crossed>>
  BY DEF BirthPointer, SetDir, Set, At
<1>2. CallFrame(p) /\ call'[p].at = "close" BY <1>1, HoldMoves DEF CallFrame
<1>3. ASSUME root.there PROVE d.there /\ (Good(root) => Good(d))
  <2>1. Present = root BY <1>3 DEF Present, There
  <2>2. d.assets = root.assets /\ d.there = root.there /\ d.store = root.store
    BY <2>1, PresentSound DEF Sound, Directory
  <2> HIDE DEF d
  <2> QED BY <1>3, <2>2 DEF Good, Whole
<1> HIDE DEF d
<1> QED BY <1>1, <1>2, <1>3, SBirth DEF CallFrame

LEMMA SBirthFails ==
  ASSUME TypeInv, Survives, NEW p \in Process, BirthFails(p)
  PROVE  Survives'
<1> DEFINE d == [dir[Root] EXCEPT !.store = NoStore]
<1>1. /\ dir' = [dir EXCEPT ![Root] = d] /\ Return(p) /\ UNCHANGED <<orphans, crossed>>
      /\ call[p].at \in {"make", "snapshot", "pointer", "close"}
  BY Places DEF BirthFails, Set, TypeInv
<1>2. CallFrame(p) /\ call'[p].at = "idle" BY <1>1, Returns DEF Return, CallFrame
<1>3. ASSUME root.there PROVE d.there /\ (Good(root) => Good(d))
  <2>1. d.assets = root.assets /\ d.there = root.there /\ d.store = NoStore
    BY Here DEF Sound, Directory, root
  <2> HIDE DEF d
  <2> QED BY <1>3, <2>1 DEF Good, Whole, NoStore
<1> HIDE DEF d
<1> QED BY <1>1, <1>2, <1>3, SBirth DEF CallFrame

\* An edit of a whole generation is a whole document.
LEMMA SMutate ==
  ASSUME TypeInv, Survives, NEW p \in Process, Mutate(p)
  PROVE  Survives'
<1>1. Return(p) /\ Mutable(p) /\ UNCHANGED <<orphans, crossed>> /\ call[p].at = "mutate"
  BY DEF Mutate, SetDir, Set
<1>2. PICK parent \in Selected :
        dir' = [dir EXCEPT ![Root] =
          [there |-> TRUE, assets |-> Edited(parent.assets, made'), pointer |-> made',
           store |-> [root.store EXCEPT !.generations =
                        @ \cup {[id |-> made', assets |-> Edited(parent.assets, made')]}]]]
  BY DEF Mutate, SetDir, Set
<1> DEFINE after == Edited(parent.assets, made')
           g == [id |-> made', assets |-> after]
           store == [root.store EXCEPT !.generations = @ \cup {g}]
           d == [there |-> TRUE, assets |-> after, pointer |-> made', store |-> store]
<1>3. CallFrame(p) /\ call'[p].at = "idle" BY <1>1, Returns DEF Return, CallFrame
<1>4. /\ parent \in root.store.generations
      /\ parent \in Generation(made) /\ parent.assets["typed"] # Missing
  BY <1>1, <1>2, Here, Parts DEF Mutable, Selected, root
<1>5. ASSUME Good(root) PROVE Good(d)
  <2>1. \A a \in Asset : after[a].base = parent.assets[a].base
    <3>1. parent.assets \in Assets BY <1>4 DEF Generation
    <3>2. parent.assets["typed"] \in Content BY <1>4, <3>1 DEF Assets, Asset
    <3> QED BY <3>1, <3>2 DEF Edited, Assets, Content, Asset
  <2>2. Whole(parent) BY <1>4, <1>5 DEF Good
  <2>3. /\ d.assets = after /\ g.assets = after
        /\ d.store.generations = root.store.generations \cup {g}
    <3>1. root.store \in [there : BOOLEAN, generations : SUBSET Generation(made)]
      BY Here DEF root, Sound, Directory
    <3> HIDE DEF g, after
    <3>2. d.store.generations = root.store.generations \cup {g} BY <3>1
    <3>3. g.assets = after BY DEF g
    <3> QED BY <3>2, <3>3
  <2> HIDE DEF d, g, after
  <2>4. Whole(d) /\ Whole(g) BY <2>1, <2>2, <2>3 DEF Whole
  <2> QED BY <1>5, <2>3, <2>4 DEF Good
<1>6. d.there OBVIOUS
<1> HIDE DEF d
<1>7. dir' = [dir EXCEPT ![Root] = d] BY <1>2 DEF d
<1> QED BY <1>1, <1>3, <1>5, <1>6, <1>7, SBirth DEF CallFrame

LEMMA SEditing ==
  ASSUME TypeInv, Survives, NEW p \in Process, Editing(p)
  PROVE  Survives'
<1>1. ASSUME Upgrade(p) PROVE Survives'
  <2>1. call[p].at = "idle" /\ call' = [call EXCEPT ![p].at = "birth"] /\ UNCHANGED <<dir, orphans, crossed>>
    BY <1>1 DEF Upgrade, At
  <2>2. CallFrame(p) /\ call'[p].at = "birth" BY <2>1, WaitMoves DEF CallFrame
  <2> QED BY <2>1, <2>2, SMoves DEF CallFrame
<1>2. ASSUME BirthCheck(p) PROVE Survives'
  <2>1. call[p].at = "birth" /\ UNCHANGED <<dir, orphans, crossed>> BY <1>2 DEF BirthCheck
  <2>2. CASE Return(p) BY <2>1, <2>2, SReturns DEF Return
  <2>3. ASSUME ~Return(p) PROVE CallFrame(p) /\ call'[p].at \in {"pin", "make"}
    BY <1>2, <2>1, <2>3, WaitMoves DEF BirthCheck, At, CallFrame, Return
  <2> QED BY <2>1, <2>2, <2>3, SMoves DEF CallFrame
<1>3. ASSUME Pin(p) PROVE Survives'
  <2> DEFINE c == [at |-> "mutate", generation |-> root.pointer]
  <2>1. call' = [call EXCEPT ![p] = c] /\ UNCHANGED <<dir, orphans, crossed>> /\ call[p].at \in {"idle", "pin"}
    BY <1>3 DEF Pin
  <2>2. CallFrame(p) /\ call'[p].at = "mutate" BY <2>1, Turn DEF CallFrame
  <2> QED BY <2>1, <2>2, SMoves DEF CallFrame
<1>4. PinRefused(p) \/ MutateRefused(p) => Survives' BY SReturns DEF PinRefused, MutateRefused
<1> QED BY <1>1, <1>2, <1>3, <1>4, SBirthDir, SBirthSnapshot, SBirthPointer, SBirthFails, SMutate
        DEF Editing

-----------------------------------------------------------------------------
LEMMA SInit == Init => Survives
<1> SUFFICES ASSUME Init PROVE Survives OBVIOUS
<1>1. root = Fresh(From(First)) BY Places DEF Init, root
<1>2. Good(root) /\ root.there
  BY <1>1, WorkdirAssumption DEF Good, Whole, Fresh, From, NoStore
<1>3. NoneInPlace BY DEF Init, NoneInPlace, InPlace, NoCall
<1> QED BY <1>2, <1>3 DEF Survives, Held

LEMMA SNext == TypeInv /\ Survives /\ [Next]_vars => Survives'
<1> SUFFICES ASSUME TypeInv, Survives, [Next]_vars PROVE Survives' OBVIOUS
<1>1. ASSUME NEW p \in Process, Extracting(p) PROVE Survives' BY <1>1, SExtracting
<1>2. ASSUME NEW p \in Process, Editing(p) PROVE Survives' BY <1>2, SEditing
<1>3. ASSUME NEW p \in Process, Crash(p) PROVE Survives' BY <1>3, SAway DEF Crash
<1>4. CASE UNCHANGED vars
  <2>1. UNCHANGED <<dir, call, orphans, crossed>> BY <1>4 DEF vars
  <2>2. Orphaned' = Orphaned BY <2>1 DEF Orphaned, Whole
  <2>3. Held' = Held BY <2>1 DEF Held, Good, Whole, root, Root, NoneInPlace, InPlace
  <2>4. ASSUME NEW p \in Process PROVE Aside(p) => Aside(p)'
    BY <2>1 DEF Aside, Good, Whole, Backup
  <2> QED BY <2>1, <2>2, <2>3, <2>4 DEF Survives
<1> QED BY <1>1, <1>2, <1>3, <1>4 DEF Next

\* Any number of processes may extract, upgrade and edit a workdir as often as they
\* like, be killed anywhere and fail at any file operation: the root, or a workdir
\* that was moved aside for it, still holds a whole document, unless a root was put
\* under an extract that had found none.
THEOREM TheDocumentIsKept == Spec => []DocumentSurvives
<1>1. Survives => DocumentSurvives
  BY Places DEF Survives, Orphaned, Held, Aside, Good, DocumentSurvives, root
<1>2. Survives /\ TypeInv /\ [Next]_vars => Survives' BY SNext
<1> QED BY <1>1, <1>2, SInit, TInit, TNext, PTL DEF Spec

=============================================================================
