------------------------ MODULE VersionHistoryProofs ------------------------
(***************************************************************************)
(* Proofs about module VersionHistory, for every set of processes, every   *)
(* paragraph and text and every bound: the types, that what retention      *)
(* keeps stays readable, that history is only ever appended to, and that   *)
(* an answered save is the newest version.                                 *)
(***************************************************************************)
EXTENDS VersionHistory, TLAPS

-----------------------------------------------------------------------------
(* The invariant. *)

Stored == UNION {Objects(doc) : doc \in Document}

\* The fields a call has at each position.
Editing    == [at : {"enter", "stage"}, kind : {"edit"}, parent : Nat,
               doc : Document, boundary : BOOLEAN]
Reverting  == [at : {"enter", "stage"}, kind : {"restore"}, parent : Nat,
               source : Document, picked : SUBSET Paragraph, boundary : {TRUE}]
Saving     == [at : {"put", "close"}, kind : {"edit", "restore"}, parent : Nat,
               doc : Document, boundary : BOOLEAN, todo : Seq(Stored)]
Reading    == [at : {"read"}, kind : {"restore"}, source : Document,
               picked : SUBSET Paragraph, todo : Seq(Stored)]
Trimming   == [at : {"trim"}, kind : {"gc"}, keep : SUBSET Document,
               release : SUBSET Version, reclaim : SUBSET Nat]
Sweeping   == [at : {"sweep"}, kind : {"gc"}, keep : SUBSET Document, reclaim : SUBSET Nat]
Checking   == [at : {"verify"}, kind : {"verify"}, damage : SUBSET Version,
               unread : SUBSET Version]
Calls      == {NoCall} \cup Editing \cup Reverting \cup Saving \cup Reading
                \cup Trimming \cup Sweeping \cup Checking

Inside == {"stage", "put", "close", "trim", "sweep"}

Types ==
  /\ pool \subseteq Stored
  /\ made \in Seq(Generation) /\ dirs \subseteq DOMAIN made
  /\ pointer \in [generation : Nat, head : Seq(Version), seq : Nat]
  /\ pointer.generation \in dirs
  /\ pointer.head # <<>> /\ pointer.seq = Len(pointer.head)
  /\ \A i \in DOMAIN pointer.head : pointer.head[i].name = i
  /\ trimmed \subseteq {v.name : v \in Range(pointer.head)}
  /\ call \in [Process -> Calls]

\* The holder of the lane is the one process that is past it.
Exclusive == \A p \in Process : lane = p <=> call[p].at \in Inside

\* What a call inside the lane relies on: nobody moves the pointer, the objects
\* it stored stay, the generation it would return to is there, and the trees a
\* collection keeps are those of the versions that are not trimmed.
Relies(c) ==
  /\ c.at \in {"stage", "put"} => c.parent = pointer.generation
  /\ c.at = "put" /\ c.boundary /\ c.doc # HeadTree
       => Objects(c.doc) \subseteq pool \cup Range(c.todo)
  /\ c.at = "close" =>
       /\ pointer.generation = Len(made)
       /\ c.parent \in dirs \ {Len(made)}
       /\ c.boundary => HeadTree = Current
  /\ c.at = "trim" =>
       /\ c.release \subseteq Range(pointer.head)
       /\ \A v \in Range(pointer.head) :
            v.name \notin trimmed /\ v \notin c.release => v.tree \in c.keep
  /\ c.at = "sweep" =>
       \A v \in Range(pointer.head) : v.name \notin trimmed => v.tree \in c.keep
  /\ c.at \in {"trim", "sweep"} => c.reclaim \subseteq dirs \ {pointer.generation}

IInv ==
  /\ Types
  /\ Exclusive
  /\ RetainedReadable
  /\ \A p \in Process : Relies(call[p])

-----------------------------------------------------------------------------
(* Sequences. *)

\* The elements of a sequence are its first and those of the rest.
LEMMA RangeOfTail ==
  ASSUME NEW S, NEW s \in Seq(S), s # <<>>
  PROVE  Range(s) \subseteq {Head(s)} \cup Range(Tail(s))
<1> SUFFICES ASSUME NEW i \in DOMAIN s, i # 1
             PROVE  s[i] \in Range(Tail(s))
  BY DEF Range
<1>1. i \in 1 .. Len(s) /\ i - 1 \in 1 .. Len(s) - 1
  OBVIOUS
<1>2. Tail(s) \in Seq(S) /\ Len(Tail(s)) = Len(s) - 1
  OBVIOUS
<1>3. i - 1 \in DOMAIN Tail(s)
  BY <1>1, <1>2
<1>4. Tail(s)[i - 1] = s[i]
  BY <1>1
<1>5. QED
  BY <1>3, <1>4 DEF Range

\* A sequence with one element more keeps those it had, in their places.
LEMMA Appended ==
  ASSUME NEW S, NEW s \in Seq(S), NEW e \in S
  PROVE  /\ Append(s, e) \in Seq(S)
         /\ Append(s, e) # <<>>
         /\ Len(Append(s, e)) = Len(s) + 1
         /\ DOMAIN Append(s, e) = 1 .. Len(s) + 1
         /\ DOMAIN s = 1 .. Len(s)
         /\ Append(s, e)[Len(s) + 1] = e
         /\ \A i \in 1 .. Len(s) : Append(s, e)[i] = s[i]
  OBVIOUS

-----------------------------------------------------------------------------
(* Objects, versions and positions. *)

\* The objects of a document are objects.
LEMMA ObjectsStored ==
  ASSUME NEW doc \in Document
  PROVE  Objects(doc) \subseteq Stored
  BY DEF Stored

\* The chain ends in a version of the chain.
LEMMA HeadIsVersion ==
  ASSUME Types
  PROVE  /\ Last(pointer.head) \in Version
         /\ Last(pointer.head) \in Range(pointer.head)
         /\ HeadTree \in Document
<1>1. pointer.head \in Seq(Version) /\ pointer.head # <<>>
  BY DEF Types
<1>2. Len(pointer.head) \in DOMAIN pointer.head
  BY <1>1
<1>3. Last(pointer.head) = pointer.head[Len(pointer.head)]
  BY DEF Last
<1>4. Last(pointer.head) \in Version
  BY <1>1, <1>2, <1>3
<1>5. Last(pointer.head) \in Range(pointer.head)
  BY <1>2, <1>3 DEF Range
<1>6. QED
  BY <1>4, <1>5 DEF HeadTree, Version

\* The versions of the chain are versions, and the selected document is one.
LEMMA ChainTypes ==
  ASSUME Types
  PROVE  /\ Range(pointer.head) \subseteq Version
         /\ Current \in Document
<1>1. Range(pointer.head) \subseteq Version
  BY DEF Types, Range
<1>2. made[pointer.generation] \in Generation
  BY DEF Types
<1>3. QED
  BY <1>1, <1>2 DEF Current, Generation

\* A call outside the lane relies on nothing.
LEMMA OutsideRelies ==
  ASSUME NEW c, c.at \notin Inside
  PROVE  Relies(c)
  BY DEF Relies, Inside

-----------------------------------------------------------------------------
(* Steps that leave the store alone. *)

Store == <<pool, made, dirs, pointer, trimmed>>

\* What the store holds is said by the store alone.
LEMMA StoreKept ==
  ASSUME IInv, UNCHANGED Store, call' \in [Process -> Calls]
  PROVE  Types' /\ RetainedReadable'
  BY DEF IInv, Types, RetainedReadable, Store

\* A step of a call that does not move the store and stays on its side of the
\* lane, or leaves the lane, keeps the invariant if what the call relies on next
\* holds.
LEMMA LocalStep ==
  ASSUME IInv, UNCHANGED Store, NEW p \in Process, NEW c \in Calls,
         call' = [call EXCEPT ![p] = c], Relies(c),
         \/ lane' = lane /\ (c.at \in Inside <=> call[p].at \in Inside)
         \/ lane = p /\ lane' = None /\ c.at \notin Inside
         \/ lane = None /\ lane' = p /\ c.at \in Inside
  PROVE  IInv'
<1>1. call' \in [Process -> Calls]
  BY DEF IInv, Types
<1>2. Types' /\ RetainedReadable'
  BY <1>1, StoreKept
<1>3. \A q \in Process : call'[q] = IF q = p THEN c ELSE call[q]
  BY DEF IInv, Types
<1>4. Exclusive'
  <2>1. None \notin Process
    BY VersionHistoryAssumption
  <2>2. QED
    BY <1>3, <2>1 DEF IInv, Exclusive
<1>5. \A q \in Process : Relies(call[q])'
  <2>1. ASSUME NEW q \in Process, q # p
        PROVE  Relies(call[q])'
    <3>1. call'[q] = call[q] /\ Relies(call[q])
      BY <1>3, <2>1 DEF IInv
    <3>2. UNCHANGED <<pool, made, dirs, pointer, trimmed>>
      BY DEF Store
    <3>3. QED
      BY <3>1, <3>2 DEF Relies, HeadTree, Current
  <2>2. Relies(call[p])'
    <3>1. call'[p] = c /\ Relies(c)
      BY <1>3
    <3>2. UNCHANGED <<pool, made, dirs, pointer, trimmed>>
      BY DEF Store
    <3>3. QED
      BY <3>1, <3>2 DEF Relies, HeadTree, Current
  <2>3. QED
    BY <2>1, <2>2
<1>6. QED
  BY <1>2, <1>4, <1>5 DEF IInv

\* What a position says of the fields of a call.
LEMMA Shape ==
  ASSUME Types, NEW p \in Process
  PROVE  /\ call[p].at = "enter" => call[p] \in Editing \cup Reverting
         /\ call[p].at = "stage" => call[p] \in Editing \cup Reverting
         /\ call[p].at \in {"put", "close"} => call[p] \in Saving
         /\ call[p].at = "read" => call[p] \in Reading
         /\ call[p].at = "trim" => call[p] \in Trimming
         /\ call[p].at = "sweep" => call[p] \in Sweeping
         /\ call[p].at = "verify" => call[p] \in Checking
         /\ call[p].at \in {"idle", "enter", "read", "verify"} \cup Inside
<1>1. call[p] \in Calls
  BY DEF Types
<1>2. /\ NoCall.at = "idle"
      /\ \A c \in Editing : c.at \in {"enter", "stage"}
      /\ \A c \in Reverting : c.at \in {"enter", "stage"}
      /\ \A c \in Saving : c.at \in {"put", "close"}
      /\ \A c \in Reading : c.at = "read"
      /\ \A c \in Trimming : c.at = "trim"
      /\ \A c \in Sweeping : c.at = "sweep"
      /\ \A c \in Checking : c.at = "verify"
  BY DEF NoCall, Editing, Reverting, Saving, Reading, Trimming, Sweeping, Checking
<1>3. QED
  BY <1>1, <1>2 DEF Calls, Inside

\* A process that returns and gives up the lane it may hold.
LEMMA ReturnStep ==
  ASSUME IInv, UNCHANGED Store, NEW p \in Process, Return(p),
         \/ lane' = lane /\ call[p].at \notin Inside
         \/ lane = p /\ lane' = None
  PROVE  IInv'
<1>1. NoCall \in Calls /\ NoCall.at \notin Inside
  BY DEF Calls, NoCall, Inside
<1>2. Relies(NoCall)
  BY <1>1, OutsideRelies
<1>3. call' = [call EXCEPT ![p] = NoCall]
  BY DEF Return
<1>4. QED
  BY <1>1, <1>2, <1>3, LocalStep

-----------------------------------------------------------------------------
(* The steps of a mutation. *)

\* An edit of a document is a document.
LEMMA EditsAreDocuments ==
  ASSUME NEW doc \in Document, NEW new \in Edits(doc)
  PROVE  new \in Document
  BY DEF Edits, Document

\* An edit pins what it read.
LEMMA EditStep ==
  ASSUME IInv, NEW p \in Process, NEW doc \in Document, NEW boundary \in BOOLEAN,
         Edit(p, doc, boundary)
  PROVE  IInv'
<1> DEFINE c == [at |-> "enter", kind |-> "edit", parent |-> pointer.generation,
                 doc |-> doc, boundary |-> boundary]
<1>1. UNCHANGED Store /\ lane' = lane /\ call' = [call EXCEPT ![p] = c]
  BY DEF Edit, Store
<1>2. c \in Calls
  BY DEF Calls, Editing, IInv, Types
<1>3. c.at \notin Inside /\ call[p].at \notin Inside
  BY DEF Inside, Edit, Start, Running
<1>4. Relies(c)
  BY <1>3, OutsideRelies
<1>5. QED
  BY <1>1, <1>2, <1>3, <1>4, LocalStep

\* The lane is taken over an unmoved pointer.
LEMMA EnterStep ==
  ASSUME IInv, NEW p \in Process, Enter(p)
  PROVE  IInv'
<1> DEFINE c == [call[p] EXCEPT !.at = "stage"]
<1>1. UNCHANGED Store /\ lane = None /\ lane' = p /\ call' = [call EXCEPT ![p] = c]
  BY DEF Enter, Store, At, IInv, Types
<1>2. call[p] \in Editing \cup Reverting
  BY Shape DEF Enter, IInv
<1>3. c \in Editing \cup Reverting /\ c.at = "stage" /\ c.parent = call[p].parent
  BY <1>2 DEF Editing, Reverting
<1>4. c \in Calls /\ c.at \in Inside
  BY <1>3 DEF Calls, Inside
<1>5. Relies(c)
  BY <1>3 DEF Relies, Enter
<1>6. QED
  BY <1>1, <1>4, <1>5, LocalStep

\* What a restore stages is a document.
LEMMA StagedIsDocument ==
  ASSUME IInv, NEW p \in Process, call[p].at = "stage"
  PROVE  Staged(call[p]) \in Document
<1>1. call[p] \in Editing \cup Reverting
  BY Shape DEF IInv
<1>2. Current \in Document
  BY ChainTypes DEF IInv
<1>3. CASE call[p] \in Editing
  BY <1>3 DEF Editing, Staged
<1>4. CASE call[p] \in Reverting
  <2>1. call[p].source \in Document /\ Staged(call[p]) = Restored(call[p])
    BY <1>4 DEF Reverting, Staged
  <2>2. Splice(call[p].source, Current, call[p].picked) \in [Paragraph -> Text]
    BY <2>1, <1>2 DEF Splice, Document
  <2>3. QED
    BY <2>1, <2>2 DEF Restored, Document
<1>5. QED
  BY <1>1, <1>3, <1>4

\* What is staged is stored before the version that names it is recorded.
LEMMA StageStep ==
  ASSUME IInv, NEW p \in Process, Stage(p)
  PROVE  IInv'
<1> DEFINE doc  == Staged(call[p])
           todo == IF call[p].boundary THEN Recording(doc) ELSE <<>>
           c    == [at |-> "put", kind |-> call[p].kind, parent |-> call[p].parent,
                    doc |-> doc, boundary |-> call[p].boundary, todo |-> todo]
<1>1. UNCHANGED Store /\ lane' = lane /\ call' = [call EXCEPT ![p] = c]
  BY DEF Stage, Store
<1>2. doc \in Document /\ call[p].at = "stage"
  BY StagedIsDocument DEF Stage
<1>3. /\ call[p] \in Editing \cup Reverting
      /\ call[p].parent = pointer.generation
  BY <1>2, Shape DEF IInv, Relies
<1>4. todo \in Seq(Stored)
  <2>1. Objects(doc) \subseteq Stored
    BY <1>2, ObjectsStored
  <2>2. {Blob("typed", doc.typed), Blob("styles", doc.styles), Tree(doc)} \subseteq Stored
    BY <2>1 DEF Objects, Blobs
  <2>3. <<Blob("typed", doc.typed), Blob("styles", doc.styles), Tree(doc)>> \in Seq(Stored)
    BY <2>2
  <2>4. QED
    BY <2>3 DEF Recording
<1>5. c \in Saving
  <2>1. /\ call[p].kind \in {"edit", "restore"} /\ call[p].parent \in Nat
        /\ call[p].boundary \in BOOLEAN
    BY <1>3 DEF Editing, Reverting
  <2>2. QED
    BY <2>1, <1>2, <1>4 DEF Saving
<1>6. c \in Calls /\ c.at \in Inside /\ call[p].at \in Inside
  BY <1>2, <1>5 DEF Calls, Inside
<1>7. doc # HeadTree => Objects(doc) \subseteq Range(Recording(doc))
  <2>1. SUFFICES ASSUME doc # HeadTree
                 PROVE  Objects(doc) \subseteq Range(Recording(doc))
    OBVIOUS
  <2>2. Recording(doc) = <<Blob("typed", doc.typed), Blob("styles", doc.styles), Tree(doc)>>
    BY <2>1 DEF Recording
  <2>3. \A n \in 1..3 : Recording(doc)[n] \in Range(Recording(doc))
    BY <2>2 DEF Range
  <2>4. QED
    BY <2>2, <2>3 DEF Objects, Blobs
<1>8. Relies(c)
  BY <1>3, <1>7 DEF Relies
<1>9. QED
  BY <1>1, <1>6, <1>8, LocalStep

\* A step of the lane holder that moves the store keeps the invariant if the
\* store keeps its shape and what the holder relies on next holds: nobody else
\* relies on anything.
LEMMA HolderStep ==
  ASSUME IInv, NEW p \in Process, call[p].at \in Inside, NEW c \in Calls,
         call' = [call EXCEPT ![p] = c],
         \/ lane' = lane /\ c.at \in Inside
         \/ lane = p /\ lane' = None /\ c.at \notin Inside,
         Types', RetainedReadable', Relies(call[p])'
  PROVE  IInv'
<1>1. \A q \in Process : call'[q] = IF q = p THEN c ELSE call[q]
  BY DEF IInv, Types
<1>2. \A q \in Process : q # p => call[q].at \notin Inside
  BY DEF IInv, Exclusive
<1>3. Exclusive'
  <2>1. None \notin Process
    BY VersionHistoryAssumption
  <2>2. QED
    BY <1>1, <2>1 DEF IInv, Exclusive
<1>4. \A q \in Process : Relies(call[q])'
  <2>1. ASSUME NEW q \in Process, q # p
        PROVE  Relies(call[q])'
    <3>1. call'[q].at \notin Inside
      BY <2>1, <1>1, <1>2
    <3>2. QED
      BY <3>1 DEF Relies, Inside
  <2>2. QED
    BY <2>1
<1>5. QED
  BY <1>3, <1>4 DEF IInv

\* An object more in the pool takes none away.
LEMMA PutStep ==
  ASSUME IInv, NEW p \in Process, Put(p)
  PROVE  IInv'
<1> DEFINE c == [call[p] EXCEPT !.todo = Tail(@)]
<1>1. /\ call[p].at = "put" /\ call[p].todo # <<>>
      /\ UNCHANGED <<made, dirs, pointer, trimmed, lane>>
      /\ pool' = pool \cup {Head(call[p].todo)}
      /\ call' = [call EXCEPT ![p] = c]
  BY DEF Put, IInv, Types
<1>2. call[p] \in Saving
  BY <1>1, Shape DEF IInv
<1>3. call[p].todo \in Seq(Stored)
  BY <1>2 DEF Saving
<1>4. Head(call[p].todo) \in Stored /\ Tail(call[p].todo) \in Seq(Stored)
  BY <1>1, <1>3
<1>5. /\ c \in Saving /\ c.at = "put" /\ c.todo = Tail(call[p].todo)
      /\ c.doc = call[p].doc /\ c.boundary = call[p].boundary /\ c.parent = call[p].parent
  BY <1>1, <1>2, <1>4 DEF Saving
<1>6. c \in Calls /\ c.at \in Inside /\ call[p].at \in Inside
  BY <1>1, <1>5 DEF Calls, Inside
<1>7. call' \in [Process -> Calls] /\ call'[p] = c
  BY <1>1, <1>6 DEF IInv, Types
<1>8. Types'
  BY <1>1, <1>4, <1>7 DEF IInv, Types
<1>9. RetainedReadable'
  BY <1>1 DEF IInv, RetainedReadable
<1>10. Range(call[p].todo) \subseteq {Head(call[p].todo)} \cup Range(Tail(call[p].todo))
  BY <1>1, <1>3, RangeOfTail
<1>11. Relies(call[p])'
  <2>1. Relies(call[p])
    BY DEF IInv
  <2>2. c.boundary /\ c.doc # HeadTree => Objects(c.doc) \subseteq pool' \cup Range(c.todo)
    BY <2>1, <1>1, <1>5, <1>10 DEF Relies
  <2>3. HeadTree' = HeadTree
    BY <1>1 DEF HeadTree
  <2>4. QED
    BY <2>1, <2>2, <2>3, <1>1, <1>5, <1>7 DEF Relies
<1>12. QED
  BY <1>1, <1>6, <1>8, <1>9, <1>11, HolderStep

\* The selected generation is the new one; a new version's objects are stored.
LEMMA SwapStep ==
  ASSUME IInv, NEW p \in Process, Swap(p)
  PROVE  IInv'
<1> DEFINE c   == [call[p] EXCEPT !.at = "close"]
           doc == call[p].doc
           new == call[p].boundary /\ doc # HeadTree
           v   == [name |-> pointer.seq + 1, tree |-> doc, pin |-> FALSE]
           g   == [doc |-> doc, version |-> Recorded(call[p])]
<1>1. /\ call[p].at = "put" /\ call[p].todo = <<>>
      /\ made' = Append(made, g) /\ dirs' = dirs \cup {Len(made) + 1}
      /\ UNCHANGED <<pool, trimmed, lane>>
      /\ call' = [call EXCEPT ![p] = c]
      /\ pointer' = Selecting(Len(made) + 1, doc, call[p].boundary)
  BY DEF Swap, At, IInv, Types
<1>2. call[p] \in Saving
  BY <1>1, Shape DEF IInv
<1>3. /\ c \in Saving /\ c.at = "close" /\ c.doc = doc /\ c.boundary = call[p].boundary
      /\ c.parent = call[p].parent /\ doc \in Document /\ c.boundary \in BOOLEAN
  BY <1>1, <1>2 DEF Saving
<1>4. c \in Calls /\ c.at \in Inside /\ call[p].at \in Inside
  BY <1>1, <1>3 DEF Calls, Inside
<1>5. call' \in [Process -> Calls] /\ call'[p] = c
  BY <1>1, <1>4 DEF IInv, Types
<1>6. Relies(call[p]) /\ call[p].parent = pointer.generation
  BY <1>1 DEF IInv, Relies
<1>7. /\ pointer.head \in Seq(Version) /\ pointer.head # <<>> /\ pointer.seq = Len(pointer.head)
      /\ \A i \in DOMAIN pointer.head : pointer.head[i].name = i
      /\ made \in Seq(Generation) /\ dirs \subseteq DOMAIN made /\ pointer.generation \in dirs
      /\ trimmed \subseteq {w.name : w \in Range(pointer.head)} /\ pool \subseteq Stored
  BY DEF IInv, Types
<1>8. g \in Generation /\ v \in Version
  BY <1>3, <1>7 DEF Generation, Version, Recorded
<1>9. /\ made' \in Seq(Generation) /\ Len(made') = Len(made) + 1 /\ made'[Len(made) + 1] = g
      /\ dirs' \subseteq DOMAIN made' /\ Len(made) + 1 \in dirs' /\ Len(made) + 1 \in Nat
      /\ Len(made) + 1 \notin dirs
  BY <1>1, <1>7, <1>8
<1>10. /\ pointer' \in [generation : Nat, head : Seq(Version), seq : Nat]
       /\ pointer'.generation = Len(made) + 1
       /\ pointer'.head = IF new THEN Append(pointer.head, v) ELSE pointer.head
       /\ pointer'.seq = IF new THEN pointer.seq + 1 ELSE pointer.seq
  <2>1. pointer \in [generation : Nat, head : Seq(Version), seq : Nat]
    BY DEF IInv, Types
  <2>2. Append(pointer.head, v) \in Seq(Version) /\ pointer.seq + 1 \in Nat
    BY <1>7, <1>8
  <2>3. CASE new
    <3>1. pointer' = [generation |-> Len(made) + 1, head |-> Append(pointer.head, v),
                      seq |-> pointer.seq + 1]
      BY <2>3, <1>1 DEF Selecting
    <3>2. QED
      BY <2>2, <2>3, <3>1, <1>9
  <2>4. CASE ~new
    <3>1. pointer' = [pointer EXCEPT !.generation = Len(made) + 1]
      BY <2>4, <1>1 DEF Selecting
    <3>2. QED
      BY <2>1, <2>4, <3>1, <1>9
  <2>5. QED
    BY <2>3, <2>4
<1>11. /\ pointer'.head # <<>> /\ pointer'.seq = Len(pointer'.head)
       /\ \A i \in DOMAIN pointer'.head : pointer'.head[i].name = i
  <2>1. CASE new
    <3>1. pointer'.head = Append(pointer.head, v) /\ pointer'.seq = Len(pointer.head) + 1
      BY <2>1, <1>7, <1>10
    <3>2. /\ Append(pointer.head, v) # <<>>
          /\ Len(Append(pointer.head, v)) = Len(pointer.head) + 1
          /\ DOMAIN Append(pointer.head, v) = 1 .. Len(pointer.head) + 1
          /\ DOMAIN pointer.head = 1 .. Len(pointer.head)
          /\ Append(pointer.head, v)[Len(pointer.head) + 1] = v
          /\ \A i \in 1 .. Len(pointer.head) : Append(pointer.head, v)[i] = pointer.head[i]
      BY <1>7, <1>8, Appended
    <3>3. v.name = Len(pointer.head) + 1 /\ Len(pointer.head) \in Nat
      BY <1>7
    <3>4. QED
      BY <3>1, <3>2, <3>3, <1>7
  <2>2. CASE ~new
    BY <2>2, <1>7, <1>10
  <2>3. QED
    BY <2>1, <2>2
<1>12. /\ Range(pointer.head) \subseteq Range(pointer'.head)
       /\ Range(pointer'.head) \subseteq Range(pointer.head) \cup {v}
       /\ ~new => Range(pointer'.head) = Range(pointer.head)
  <2>1. CASE new
    <3>1. pointer'.head = Append(pointer.head, v)
      BY <2>1, <1>10
    <3>2. /\ DOMAIN Append(pointer.head, v) = 1 .. Len(pointer.head) + 1
          /\ DOMAIN pointer.head = 1 .. Len(pointer.head)
          /\ Append(pointer.head, v)[Len(pointer.head) + 1] = v
          /\ \A i \in 1 .. Len(pointer.head) : Append(pointer.head, v)[i] = pointer.head[i]
      BY <1>7, <1>8, Appended
    <3>3. \A i \in DOMAIN pointer.head :
            i \in DOMAIN pointer'.head /\ pointer'.head[i] = pointer.head[i]
      BY <3>1, <3>2
    <3>4. \A i \in DOMAIN pointer'.head :
            \/ pointer'.head[i] = v
            \/ i \in DOMAIN pointer.head /\ pointer'.head[i] = pointer.head[i]
      BY <3>1, <3>2
    <3>5. QED
      BY <2>1, <3>3, <3>4 DEF Range
  <2>2. CASE ~new
    BY <2>2, <1>10
  <2>3. QED
    BY <2>1, <2>2
<1>13. Types'
  <2>1. trimmed' \subseteq {w.name : w \in Range(pointer'.head)}
    BY <1>1, <1>7, <1>12
  <2>2. QED
    BY <1>1, <1>5, <1>7, <1>9, <1>10, <1>11, <2>1 DEF Types
<1>14. RetainedReadable'
  <2>1. new => Objects(v.tree) \subseteq pool
    <3>1. Range(call[p].todo) = {}
      BY <1>1 DEF Range
    <3>2. QED
      BY <3>1, <1>1, <1>6 DEF Relies
  <2>2. \A w \in Range(pointer.head) : w.name \notin trimmed => Objects(w.tree) \subseteq pool
    BY DEF IInv, RetainedReadable
  <2>3. QED
    BY <1>1, <1>12, <2>1, <2>2 DEF RetainedReadable
<1>15. Relies(call[p])'
  <2>1. made'[pointer'.generation].doc = doc
    BY <1>9, <1>10
  <2>2. Current' = doc
    BY <2>1 DEF Current
  <2>3. call[p].boundary => HeadTree' = doc
    <3>1. CASE new
      <4>1. pointer'.head = Append(pointer.head, v)
        BY <3>1, <1>10
      <4>2. pointer'.head[Len(pointer'.head)] = v
        BY <4>1, <1>7, <1>8, Appended
      <4>3. QED
        BY <4>2 DEF HeadTree, Last
    <3>2. CASE ~new
      <4>1. HeadTree' = HeadTree
        BY <3>2, <1>10 DEF HeadTree
      <4>2. QED
        BY <3>2, <4>1
    <3>3. QED
      BY <3>1, <3>2
  <2>4. Len(made') = pointer'.generation
    BY <1>9, <1>10
  <2>5. call[p].parent \in dirs' \ {Len(made')}
    BY <1>1, <1>6, <1>7, <1>9
  <2>6. QED
    BY <1>3, <1>5, <2>2, <2>3, <2>4, <2>5 DEF Relies
<1>16. QED
  BY <1>1, <1>4, <1>13, <1>14, <1>15, HolderStep

\* abort() selects the parent again, which is there, and takes no version away.
LEMMA FailStep ==
  ASSUME IInv, NEW p \in Process, Fail(p)
  PROVE  IInv'
<1>1. /\ call[p].at \in {"put", "close"} /\ lane = p /\ lane' = None
      /\ pointer' = [pointer EXCEPT !.generation = call[p].parent]
      /\ dirs' = Undone(p)
      /\ call' = [call EXCEPT ![p] = NoCall]
      /\ UNCHANGED <<pool, made, trimmed>>
  BY DEF Fail, Release, Return
<1>2. call[p] \in Saving /\ call[p].parent \in Nat /\ Relies(call[p])
  BY <1>1, Shape DEF IInv, Saving
<1>3. NoCall \in Calls /\ NoCall.at \notin Inside /\ call[p].at \in Inside
  BY <1>1 DEF Calls, NoCall, Inside
<1>4. call' \in [Process -> Calls] /\ call'[p] = NoCall
  BY <1>1, <1>3 DEF IInv, Types
<1>5. pointer \in [generation : Nat, head : Seq(Version), seq : Nat]
  BY DEF IInv, Types
<1>6. /\ pointer' \in [generation : Nat, head : Seq(Version), seq : Nat]
      /\ pointer'.generation = call[p].parent
      /\ pointer'.head = pointer.head /\ pointer'.seq = pointer.seq
  BY <1>1, <1>2, <1>5
<1>7. dirs' \subseteq dirs /\ call[p].parent \in dirs'
  BY <1>1, <1>2 DEF Undone, Relies, IInv, Types
<1>8. Types'
  BY <1>1, <1>4, <1>6, <1>7 DEF IInv, Types
<1>9. RetainedReadable'
  BY <1>1, <1>6 DEF IInv, RetainedReadable
<1>10. Relies(call[p])'
  BY <1>3, <1>4 DEF Relies, Inside
<1>11. QED
  BY <1>1, <1>3, <1>8, <1>9, <1>10, HolderStep

-----------------------------------------------------------------------------
(* The steps of a restore before it mutates. *)

\* A version of the chain is about to be read.
LEMMA RestoreStep ==
  ASSUME IInv, NEW p \in Process, NEW v \in Range(pointer.head), NEW picked \in SUBSET Paragraph,
         Restore(p, v, picked)
  PROVE  IInv'
<1> DEFINE todo == <<Tree(v.tree), Blob("styles", v.tree.styles), Blob("typed", v.tree.typed)>>
           c    == [at |-> "read", kind |-> "restore", source |-> v.tree, picked |-> picked,
                    todo |-> todo]
<1>1. UNCHANGED Store /\ lane' = lane /\ call' = [call EXCEPT ![p] = c]
  BY DEF Restore, Chain, Store
<1>2. v.tree \in Document
  BY ChainTypes DEF IInv, Version
<1>3. todo \in Seq(Stored)
  <2>1. {Tree(v.tree), Blob("styles", v.tree.styles), Blob("typed", v.tree.typed)} \subseteq Stored
    BY <1>2, ObjectsStored DEF Objects, Blobs
  <2>2. QED
    BY <2>1
<1>4. c \in Reading
  BY <1>2, <1>3 DEF Reading
<1>5. c \in Calls /\ c.at \notin Inside /\ call[p].at \notin Inside
  BY <1>4 DEF Calls, Inside, Restore, Chain, Start, Running
<1>6. Relies(c)
  BY <1>5, OutsideRelies
<1>7. QED
  BY <1>1, <1>5, <1>6, LocalStep

\* One object after the other is read, without the lane.
LEMMA ReadObjectStep ==
  ASSUME IInv, NEW p \in Process, ReadObject(p)
  PROVE  IInv'
<1> DEFINE c == [call[p] EXCEPT !.todo = Tail(@)]
<1>1. UNCHANGED Store /\ lane' = lane /\ call' = [call EXCEPT ![p] = c]
  BY DEF ReadObject, Store, IInv, Types
<1>2. call[p] \in Reading /\ call[p].todo # <<>>
  BY Shape DEF ReadObject, IInv
<1>3. Tail(call[p].todo) \in Seq(Stored)
  BY <1>2 DEF Reading
<1>4. c \in Reading /\ c.at = "read" /\ call[p].at = "read"
  BY <1>2, <1>3 DEF Reading
<1>5. c \in Calls /\ c.at \notin Inside /\ call[p].at \notin Inside
  BY <1>4 DEF Calls, Inside
<1>6. Relies(c)
  BY <1>5, OutsideRelies
<1>7. QED
  BY <1>1, <1>5, <1>6, LocalStep

\* The restore pins what is selected now.
LEMMA PinRestoreStep ==
  ASSUME IInv, NEW p \in Process, PinRestore(p)
  PROVE  IInv'
<1> DEFINE c == [at |-> "enter", kind |-> "restore", parent |-> pointer.generation,
                 source |-> call[p].source, picked |-> call[p].picked, boundary |-> TRUE]
<1>1. UNCHANGED Store /\ lane' = lane /\ call' = [call EXCEPT ![p] = c] /\ call[p].at = "read"
  BY DEF PinRestore, Store, IInv, Types
<1>2. call[p] \in Reading /\ pointer.generation \in Nat
  BY <1>1, Shape DEF IInv, Types
<1>3. c \in Reverting
  BY <1>2 DEF Reading, Reverting
<1>4. c \in Calls /\ c.at \notin Inside /\ call[p].at \notin Inside
  BY <1>1, <1>3 DEF Calls, Inside
<1>5. Relies(c)
  BY <1>4, OutsideRelies
<1>6. QED
  BY <1>1, <1>4, <1>5, LocalStep

-----------------------------------------------------------------------------
(* The steps of a collection. *)

\* The plan keeps the tree of every version it does not release, and no
\* generation it reclaims is selected.
LEMMA GcStep ==
  ASSUME IInv, NEW p \in Process, NEW keepLast \in KeepLast, Gc(p, keepLast)
  PROVE  IInv'
<1> DEFINE c == [at |-> "trim", kind |-> "gc", keep |-> KeepTrees(keepLast),
                 release |-> NewlyTrimmed(keepLast), reclaim |-> Reclaimable(keepLast)]
<1>1. /\ UNCHANGED Store /\ lane = None /\ lane' = p
      /\ call' = [call EXCEPT ![p] = c]
  BY DEF Gc, Store
<1>2. Range(pointer.head) \subseteq Version
  BY ChainTypes DEF IInv
<1>3. KeepTrees(keepLast) \in SUBSET Document
  BY <1>2 DEF KeepTrees, Retained, Chain, Version
<1>4. NewlyTrimmed(keepLast) \in SUBSET Version
  BY <1>2 DEF NewlyTrimmed, Chain
<1>5. Reclaimable(keepLast) \subseteq dirs \ {pointer.generation}
  BY DEF Reclaimable
<1>6. dirs \subseteq Nat
  BY DEF IInv, Types
<1>7. c \in Trimming
  BY <1>3, <1>4, <1>5, <1>6 DEF Trimming
<1>8. c \in Calls /\ c.at \in Inside
  BY <1>7 DEF Calls, Inside
<1>9. \A v \in Range(pointer.head) :
        v.name \notin trimmed /\ v \notin NewlyTrimmed(keepLast) => v.tree \in KeepTrees(keepLast)
  BY DEF NewlyTrimmed, Chain
<1>10. NewlyTrimmed(keepLast) \subseteq Range(pointer.head)
  BY DEF NewlyTrimmed, Chain
<1>11. Relies(c)
  BY <1>5, <1>9, <1>10 DEF Relies
<1>12. QED
  BY <1>1, <1>8, <1>11, LocalStep

\* Once the log names what is released, every other version's tree is kept.
LEMMA AppendTrimLogStep ==
  ASSUME IInv, NEW p \in Process, AppendTrimLog(p)
  PROVE  IInv'
<1> DEFINE c == [at |-> "sweep", kind |-> "gc", keep |-> call[p].keep, reclaim |-> call[p].reclaim]
<1>1. /\ call[p].at = "trim" /\ UNCHANGED <<pool, made, dirs, pointer, lane>>
      /\ trimmed' = trimmed \cup {v.name : v \in call[p].release}
      /\ call' = [call EXCEPT ![p] = c]
  BY DEF AppendTrimLog, IInv, Types
<1>2. call[p] \in Trimming /\ Relies(call[p])
  BY <1>1, Shape DEF IInv
<1>3. c \in Sweeping
  BY <1>2 DEF Trimming, Sweeping
<1>4. c \in Calls /\ c.at \in Inside /\ call[p].at \in Inside
  BY <1>1, <1>3 DEF Calls, Inside
<1>5. call' \in [Process -> Calls] /\ call'[p] = c
  BY <1>1, <1>4 DEF IInv, Types
<1>6. /\ call[p].release \subseteq Range(pointer.head)
      /\ \A v \in Range(pointer.head) :
            v.name \notin trimmed /\ v \notin call[p].release => v.tree \in call[p].keep
      /\ call[p].reclaim \subseteq dirs \ {pointer.generation}
  BY <1>1, <1>2 DEF Relies
<1>7. trimmed' \subseteq {v.name : v \in Range(pointer.head)}
  BY <1>1, <1>6 DEF IInv, Types
<1>8. Types'
  BY <1>1, <1>5, <1>7 DEF IInv, Types
<1>9. RetainedReadable'
  BY <1>1 DEF IInv, RetainedReadable
<1>10. \A v \in Range(pointer.head) : v.name \notin trimmed' => v.tree \in c.keep
  BY <1>1, <1>6
<1>11. Relies(call[p])'
  BY <1>1, <1>5, <1>6, <1>10 DEF Relies
<1>12. QED
  BY <1>1, <1>4, <1>8, <1>9, <1>11, HolderStep

\* A sweep removes no object of a tree that is kept and complete.
LEMMA SweepStep ==
  ASSUME IInv, NEW p \in Process, NEW object \in pool, Sweep(p, object)
  PROVE  IInv'
<1>1. /\ call[p].at = "sweep" /\ object \in Unreachable(call[p].keep)
      /\ pool' = pool \ {object}
      /\ UNCHANGED <<made, dirs, pointer, trimmed, lane, call>>
  BY DEF Sweep
<1>2. call[p] \in Sweeping /\ Relies(call[p])
  BY <1>1, Shape DEF IInv
<1>3. call[p] \in Calls /\ call[p].at \in Inside
  BY <1>1 DEF IInv, Types, Inside
<1>4. call' = [call EXCEPT ![p] = call[p]] /\ call'[p] = call[p]
  BY <1>1 DEF IInv, Types
<1>5. Types'
  BY <1>1 DEF IInv, Types
<1>6. ASSUME NEW v \in Range(pointer.head), v.name \notin trimmed
      PROVE  object \notin Objects(v.tree)
  <2>1. v.tree \in call[p].keep /\ Objects(v.tree) \subseteq pool
    BY <1>1, <1>2, <1>6 DEF Relies, IInv, RetainedReadable
  <2>2. Tree(v.tree) \in pool
    BY <2>1 DEF Objects
  <2>3. Objects(v.tree) \subseteq Reachable(call[p].keep)
    BY <2>1, <2>2 DEF Reachable
  <2>4. QED
    BY <2>3, <1>1 DEF Unreachable
<1>7. RetainedReadable'
  BY <1>1, <1>6 DEF IInv, RetainedReadable
<1>8. Relies(call[p])'
  BY <1>1, <1>2 DEF Relies
<1>9. QED
  BY <1>1, <1>3, <1>4, <1>5, <1>7, <1>8, HolderStep

\* A reclaimed generation is not the selected one.
LEMMA ReclaimStep ==
  ASSUME IInv, NEW p \in Process, NEW g \in dirs, Reclaim(p, g)
  PROVE  IInv'
<1> DEFINE c == [call[p] EXCEPT !.reclaim = @ \ {g}]
<1>1. /\ call[p].at = "sweep" /\ g \in call[p].reclaim /\ dirs' = dirs \ {g}
      /\ UNCHANGED <<pool, made, pointer, trimmed, lane>>
      /\ call' = [call EXCEPT ![p] = c]
  BY DEF Reclaim, IInv, Types
<1>2. call[p] \in Sweeping /\ Relies(call[p])
  BY <1>1, Shape DEF IInv
<1>3. /\ c \in Sweeping /\ c.at = "sweep" /\ c.keep = call[p].keep
      /\ c.reclaim = call[p].reclaim \ {g}
  BY <1>2 DEF Sweeping
<1>4. c \in Calls /\ c.at \in Inside /\ call[p].at \in Inside
  BY <1>1, <1>3 DEF Calls, Inside
<1>5. call' \in [Process -> Calls] /\ call'[p] = c
  BY <1>1, <1>4 DEF IInv, Types
<1>6. call[p].reclaim \subseteq dirs \ {pointer.generation}
  BY <1>1, <1>2 DEF Relies
<1>7. Types'
  BY <1>1, <1>5, <1>6 DEF IInv, Types
<1>8. RetainedReadable'
  BY <1>1 DEF IInv, RetainedReadable
<1>9. Relies(call[p])'
  BY <1>1, <1>2, <1>3, <1>5, <1>6 DEF Relies
<1>10. QED
  BY <1>1, <1>4, <1>7, <1>8, <1>9, HolderStep

-----------------------------------------------------------------------------
(* The steps of a verification. *)

\* A verification notes the versions it will look at.
LEMMA VerifyStep ==
  ASSUME IInv, NEW p \in Process, Verify(p)
  PROVE  IInv'
<1> DEFINE c == [at |-> "verify", kind |-> "verify", damage |-> {},
                 unread |-> {v \in Range(pointer.head) : v.name \notin trimmed}]
<1>1. UNCHANGED Store /\ lane' = lane /\ call' = [call EXCEPT ![p] = c]
  BY DEF Verify, Chain, Store
<1>2. c \in Checking
  BY ChainTypes DEF IInv, Checking
<1>3. c \in Calls /\ c.at \notin Inside /\ call[p].at \notin Inside
  BY <1>2 DEF Calls, Inside, Verify, Chain, Start, Running
<1>4. Relies(c)
  BY <1>3, OutsideRelies
<1>5. QED
  BY <1>1, <1>3, <1>4, LocalStep

\* It looks at one of them.
LEMMA VerifyVersionStep ==
  ASSUME IInv, NEW p \in Process, NEW v \in Range(pointer.head), VerifyVersion(p, v)
  PROVE  IInv'
<1> DEFINE broken == IF Objects(v.tree) \subseteq pool THEN {} ELSE {v}
           c      == [at |-> "verify", kind |-> "verify",
                      damage |-> call[p].damage \cup broken, unread |-> call[p].unread \ {v}]
<1>1. /\ UNCHANGED Store /\ lane' = lane /\ call[p].at = "verify"
      /\ call' = [call EXCEPT ![p] = c]
  BY DEF VerifyVersion, Chain, Store, IInv, Types
<1>2. call[p] \in Checking /\ v \in Version
  BY <1>1, Shape, ChainTypes DEF IInv
<1>3. c \in Checking
  BY <1>2 DEF Checking
<1>4. c \in Calls /\ c.at \notin Inside /\ call[p].at \notin Inside
  BY <1>1, <1>3 DEF Calls, Inside
<1>5. Relies(c)
  BY <1>4, OutsideRelies
<1>6. QED
  BY <1>1, <1>4, <1>5, LocalStep

-----------------------------------------------------------------------------
(* The invariant holds. *)

\* A process that returns, from wherever.
LEMMA Returns ==
  ASSUME IInv, NEW p \in Process,
         Conflict(p) \/ Busy(p) \/ RefuseCoupled(p) \/ Acknowledge(p) \/ RefuseMissing(p)
           \/ GcDone(p) \/ VerifyDone(p) \/ Crash(p)
  PROVE  IInv'
<1>1. UNCHANGED Store /\ Return(p)
  BY DEF Store, Conflict, Busy, RefuseCoupled, Acknowledge, RefuseMissing, GcDone,
         VerifyDone, Crash
<1>2. \/ lane' = lane /\ call[p].at \notin Inside
      \/ lane = p /\ lane' = None
  BY DEF Inside, Conflict, Busy, RefuseCoupled, Acknowledge, RefuseMissing, GcDone,
         VerifyDone, Crash, Release, IInv, Exclusive
<1>3. QED
  BY <1>1, <1>2, ReturnStep

\* The workdir as the first save left it.
LEMMA InitEstablishes == Init => IInv
<1> SUFFICES ASSUME Init
             PROVE  IInv
  OBVIOUS
<1>1. PICK pin \in BOOLEAN :
        pointer = [generation |-> 1, seq |-> 1,
                   head |-> <<[name |-> 1, tree |-> First, pin |-> pin]>>]
  BY DEF Init
<1> DEFINE v == [name |-> 1, tree |-> First, pin |-> pin]
           g == [doc |-> First, version |-> 1]
<1>2. First \in Document
  BY VersionHistoryAssumption DEF First, Document
<1>3. v \in Version /\ g \in Generation
  BY <1>2 DEF Version, Generation
<1>4. /\ pointer.head = <<v>> /\ pointer.generation = 1 /\ pointer.seq = 1
      /\ pointer \in [generation : Nat, head : Seq(Version), seq : Nat]
  BY <1>1, <1>3
<1>5. pointer.head # <<>> /\ Len(pointer.head) = 1 /\ DOMAIN pointer.head = {1}
      /\ pointer.head[1] = v
  BY <1>3, <1>4
<1>6. Range(pointer.head) = {v}
  BY <1>5 DEF Range
<1>7. made \in Seq(Generation) /\ DOMAIN made = {1} /\ dirs = {1}
  BY <1>3 DEF Init
<1>8. pool = Objects(First) /\ pool \subseteq Stored /\ trimmed = {} /\ lane = None
  BY <1>2, ObjectsStored DEF Init
<1>9. call \in [Process -> Calls] /\ \A p \in Process : call[p] = NoCall
  BY DEF Init, Calls
<1>10. Types
  BY <1>4, <1>5, <1>7, <1>8, <1>9 DEF Types
<1>11. NoCall.at \notin Inside
  BY DEF NoCall, Inside
<1>12. Exclusive
  BY <1>8, <1>9, <1>11, VersionHistoryAssumption DEF Exclusive
<1>13. RetainedReadable
  BY <1>6, <1>8 DEF RetainedReadable
<1>14. \A p \in Process : Relies(call[p])
  BY <1>9, <1>11, OutsideRelies
<1>15. QED
  BY <1>10, <1>12, <1>13, <1>14 DEF IInv

\* Every step keeps it.
LEMMA NextKeeps ==
  ASSUME IInv, [Next]_vars
  PROVE  IInv'
<1>1. CASE UNCHANGED vars
  <2>1. UNCHANGED Store /\ UNCHANGED <<lane, call>>
    BY <1>1 DEF vars, Store
  <2>2. Types' /\ RetainedReadable'
    BY <2>1, StoreKept DEF IInv, Types
  <2>3. Exclusive'
    BY <2>1 DEF IInv, Exclusive
  <2>4. \A p \in Process : Relies(call[p])'
    BY <2>1 DEF IInv, Relies, HeadTree, Current, Store
  <2>5. QED
    BY <2>2, <2>3, <2>4 DEF IInv
<1>2. ASSUME NEW p \in Process, Mutating(p)
      PROVE  IInv'
  <2>1. CASE \E doc \in Document, boundary \in BOOLEAN : Edit(p, doc, boundary)
    BY <2>1, EditStep
  <2>2. CASE Conflict(p) \/ Busy(p) \/ RefuseCoupled(p) \/ Acknowledge(p)
    BY <2>2, Returns
  <2>3. QED
    BY <1>2, <2>1, <2>2, EnterStep, StageStep, PutStep, SwapStep, FailStep DEF Mutating
<1>3. ASSUME NEW p \in Process, Restoring(p)
      PROVE  IInv'
  <2>1. CASE RefuseMissing(p)
    BY <2>1, Returns
  <2>2. QED
    BY <1>3, <2>1, RestoreStep, ReadObjectStep, PinRestoreStep DEF Restoring, Chain
<1>4. ASSUME NEW p \in Process, Collecting(p)
      PROVE  IInv'
  <2>1. CASE GcDone(p)
    BY <2>1, Returns
  <2>2. QED
    BY <1>4, <2>1, GcStep, AppendTrimLogStep, SweepStep, ReclaimStep DEF Collecting
<1>5. ASSUME NEW p \in Process, Verifying(p)
      PROVE  IInv'
  <2>1. CASE VerifyDone(p)
    BY <2>1, Returns
  <2>2. QED
    BY <1>5, <2>1, VerifyStep, VerifyVersionStep DEF Verifying, Chain
<1>6. ASSUME NEW p \in Process, Crash(p)
      PROVE  IInv'
  BY <1>6, Returns
<1>7. QED
  BY <1>1, <1>2, <1>3, <1>4, <1>5, <1>6 DEF Next

\* The invariant is one of the specification.
THEOREM Invariant == Spec => []IInv
<1>1. Init => IInv
  BY InitEstablishes
<1>2. IInv /\ [Next]_vars => IInv'
  BY NextKeeps
<1>3. QED
  BY <1>1, <1>2, PTL DEF Spec

-----------------------------------------------------------------------------
(* What follows. *)

\* The selected generation is on the disk, versions are numbered as they were
\* recorded, and the lane is held by the process inside it.
THEOREM TypeCorrect == Spec => []TypeOK
<1>1. IInv => TypeOK
  <2> SUFFICES ASSUME IInv
               PROVE  TypeOK
    OBVIOUS
  <2>1. ASSUME NEW p \in Process
        PROVE  [at |-> call[p].at, kind |-> call[p].kind] \in Call
    <3>1. call[p] \in Calls
      BY DEF IInv, Types
    <3>2. /\ call[p].at \in {"idle", "enter", "stage", "put", "close", "read", "trim",
                              "sweep", "verify"}
          /\ call[p].kind \in {"none", "edit", "restore", "gc", "verify"}
      <4>1. CASE call[p] = NoCall
        BY <4>1 DEF NoCall
      <4>2. CASE call[p] \in Editing \cup Reverting \cup Saving
        BY <4>2 DEF Editing, Reverting, Saving
      <4>3. CASE call[p] \in Reading \cup Trimming
        BY <4>3 DEF Reading, Trimming
      <4>4. CASE call[p] \in Sweeping \cup Checking
        BY <4>4 DEF Sweeping, Checking
      <4>5. QED
        BY <3>1, <4>1, <4>2, <4>3, <4>4 DEF Calls
    <3>3. QED
      BY <3>2 DEF Call
  <2>2. QED
    BY <2>1 DEF TypeOK, IInv, Types, Exclusive, Inside, Stored
<1>2. QED
  BY <1>1, Invariant, PTL

\* history_restore finds every version that is not reported trimmed: whatever
\* collections, killed and repeated, removed, and whatever was stored again.
THEOREM Readable == Spec => []RetainedReadable
<1>1. IInv => RetainedReadable
  BY DEF IInv
<1>2. QED
  BY <1>1, Invariant, PTL

\* No step takes a version out of the chain.
LEMMA ChainGrows ==
  ASSUME IInv, [Next]_vars
  PROVE  IsPrefix(pointer.head, pointer.head')
<1>1. pointer.head \in Seq(Version) /\ pointer.head' \in Seq(Version)
  BY NextKeeps DEF IInv, Types
<1>2. CASE pointer'.head = pointer.head
  BY <1>1, <1>2 DEF IsPrefix
<1>3. ASSUME NEW p \in Process, Swap(p)
      PROVE  IsPrefix(pointer.head, pointer.head')
  <2>1. CASE pointer'.head = pointer.head
    BY <2>1, <1>2
  <2>2. CASE pointer'.head # pointer.head
    <3> DEFINE v == [name |-> pointer.seq + 1, tree |-> call[p].doc, pin |-> FALSE]
    <3>1. pointer'.head = Append(pointer.head, v)
      BY <1>3, <2>2 DEF Swap, Selecting, IInv, Types
    <3>2. QED
      BY <3>1, <1>1 DEF IsPrefix
  <2>3. QED
    BY <2>1, <2>2
<1>4. ASSUME NEW p \in Process, Fail(p)
      PROVE  pointer'.head = pointer.head
  BY <1>4 DEF Fail, IInv, Types
<1>5. (\A p \in Process : ~Swap(p) /\ ~Fail(p)) => UNCHANGED pointer
  BY DEF Next, vars, Mutating, Restoring, Chain, Collecting, Verifying, Edit, Enter, Conflict, Busy,
         Stage, RefuseCoupled, Put, Acknowledge, Restore, ReadObject, RefuseMissing, PinRestore,
         Gc, AppendTrimLog, Sweep, Reclaim, GcDone, Verify, VerifyVersion, VerifyDone, Crash
<1>6. QED
  BY <1>2, <1>3, <1>4, <1>5

\* History never rewinds, whatever fails or is killed.
THEOREM NeverRewinds == Spec => HistoryKept
<1>1. IInv /\ [Next]_vars => [IsPrefix(pointer.head, pointer.head')]_vars
  BY ChainGrows
<1>2. QED
  BY <1>1, Invariant, PTL DEF Spec, HistoryKept

\* The document of an answered save is the newest version.
THEOREM SavedIsNewest == Spec => SavedIsVersioned
<1> DEFINE Answered == \A p \in Process :
             call[p].at = "close" /\ call[p].boundary /\ Acknowledge(p)
               => Last(pointer.head).tree = Current
<1>1. IInv => Answered
  BY DEF IInv, Relies, HeadTree
<1>2. IInv /\ [Next]_vars => [Answered]_vars
  BY <1>1
<1>3. QED
  BY <1>2, Invariant, PTL DEF Spec, SavedIsVersioned

=============================================================================
