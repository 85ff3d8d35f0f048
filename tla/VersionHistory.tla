--------------------------- MODULE VersionHistory ---------------------------
(***************************************************************************)
(* The version pool of a workdir (crates/docx2typed-store: objects.rs,     *)
(* versions.rs and the version half of store.rs): content-addressed        *)
(* objects, the chain of versions HEAD names, retention that trims and     *)
(* sweeps, and restores that copy an old version forward.                  *)
(*                                                                         *)
(* A mutation is the generation lane of module GenerationStore seen from   *)
(* the pool: what that module shows about the swap (the pointer decides,   *)
(* the loser of a compare-and-swap is refused) is taken as one step here,  *)
(* and the object writes, reads and removals around it are steps of their  *)
(* own, in the order the code makes them.                                  *)
(***************************************************************************)
EXTENDS Integers, FiniteSets, SequencesExt

CONSTANTS
  Process,       \* the processes that open the workdir
  None,          \* no process
  Paragraph,     \* the paragraphs of typed.md
  Text,          \* what a paragraph, or the style sheet, can hold
  Blank,         \* what they hold at first
  Coupled,       \* the paragraphs a selective restore never moves
  Kinds,         \* which calls the instance makes
  KeepLast,      \* the keep_last arguments retention is called with
  MaxCalls,      \* bound on calls
  MaxGenerations,\* bound on generations
  MaxCrashes,    \* bound on kills
  MaxFaults      \* bound on failed mutations

ASSUME VersionHistoryAssumption ==
  /\ None \notin Process
  /\ Blank \in Text
  /\ Coupled \subseteq Paragraph
  /\ Kinds \subseteq {"edit", "gc", "restore", "verify"}
  /\ KeepLast \subseteq Int
  /\ {MaxCalls, MaxGenerations, MaxCrashes, MaxFaults} \subseteq Nat

VARIABLES
  pool,      \* .docx2typed-store/objects: the blobs and trees on the disk
  made,      \* every generation ever selected, in order of creation
  dirs,      \* .docx2typed-store/generations: the ones that have a directory
  pointer,   \* workdir.json: the selected generation and the version fields
  trimmed,   \* history-trim.jsonl: the names of the versions retention released
  lane,      \* who holds the writer lane
  call,      \* what each process is doing
  left       \* what the bounds still allow

vars == <<pool, made, dirs, pointer, trimmed, lane, call, left>>

-----------------------------------------------------------------------------
(* Documents, objects and versions. *)

\* The canonical assets: typed.md (with format.json, which moves with it) and
\* the style sheet with the template.
Document == [typed : [Paragraph -> Text], styles : Text]

\* An object is addressed by the digest of its kind and content, so the
\* content stands for the address.
Blob(part, content) == [kind |-> "blob", part |-> part, of |-> content]
Tree(doc)           == [kind |-> "tree", part |-> "all", of |-> doc]
Blobs(doc)          == {Blob("typed", doc.typed), Blob("styles", doc.styles)}
Objects(doc)        == Blobs(doc) \cup {Tree(doc)}

\* A commit object names its parent commit by digest, and no commit is ever
\* swept: the id of the newest determines the chain. The model holds the
\* chain, oldest first, as the value of head_commit.
Version == [name : Nat \ {0}, tree : Document, pin : BOOLEAN]

\* A generation: its canonical assets, and the version its manifest names, 0
\* for a mutation that recorded none.
Generation == [doc : Document, version : Nat]

\* version_chain: the versions from HEAD back to the first.
Chain    == Range(pointer.head)
Current  == made[pointer.generation].doc
HeadTree == Last(pointer.head).tree

NoCall == [at |-> "idle", kind |-> "none"]

\* A call that is not at the pool's business has only these two fields.
Running(p) == call[p].at # "idle"
At(p, at)  == call' = [call EXCEPT ![p].at = at]
Return(p)  == call' = [call EXCEPT ![p] = NoCall]

Release(p) == lane = p /\ lane' = None

Spend(what) == left[what] > 0 /\ left' = [left EXCEPT ![what] = @ - 1]

Start(p, kind) == kind \in Kinds /\ ~Running(p) /\ Spend("calls")

-----------------------------------------------------------------------------
(* Mutations: an edit, or the second half of a restore. *)

\* Every way an edit can change a document, the styles included (a decision
\* rewrites the template in the staged generation).
Edits(doc) ==
  {[doc EXCEPT !.typed[q] = t] : q \in Paragraph, t \in Text}
    \cup {[doc EXCEPT !.styles = t] : t \in Text}

\* A tool pins the generation it read and asks for a mutation of it. Only
\* some tools declare a save boundary; the others move the document alone.
Edit(p, doc, boundary) ==
  /\ Start(p, "edit")
  /\ doc \in Edits(Current)
  /\ call' = [call EXCEPT ![p] =
       [at |-> "enter", kind |-> "edit", parent |-> pointer.generation,
        doc |-> doc, boundary |-> boundary]]
  /\ UNCHANGED <<pool, made, dirs, pointer, trimmed, lane>>

\* The lane is taken, the pinned generation is still selected, and the callback
\* has a staged copy of it.
Enter(p) ==
  /\ call[p].at = "enter"
  /\ lane = None
  /\ call[p].parent = pointer.generation
  /\ lane' = p
  /\ At(p, "stage")
  /\ UNCHANGED <<pool, made, dirs, pointer, trimmed, left>>

\* The generation moved on: generation-conflict.
Conflict(p) ==
  /\ call[p].at = "enter"
  /\ lane = None
  /\ call[p].parent # pointer.generation
  /\ Return(p)
  /\ UNCHANGED <<pool, made, dirs, pointer, trimmed, lane, left>>

\* lock_timeout_ms is 0: a lane that is held refuses at once.
Busy(p) ==
  /\ call[p].at = "enter"
  /\ lane # None
  /\ Return(p)
  /\ UNCHANGED <<pool, made, dirs, pointer, trimmed, lane, left>>

\* cherry_pick_guard: a paragraph that sits in a table, content control or text
\* box, or whose format record references the global token table, is coupled to
\* state a splice does not move.
Pickable(picked) == picked \cap Coupled = {}

\* cherry_pick: the picked paragraphs of the version over the current ones.
Splice(source, target, picked) ==
  [q \in Paragraph |-> IF q \in picked THEN source.typed[q] ELSE target.typed[q]]

\* The callback of a restore copies every canonical asset of the version into
\* the staged generation, and a selective one then copies typed.md and
\* format.json back from the current state before it splices.
Restored(c) ==
  IF c.picked = {}
    THEN c.source
    ELSE [typed |-> Splice(c.source, Current, c.picked), styles |-> c.source.styles]

Staged(c) == IF c.kind = "restore" THEN Restored(c) ELSE c.doc

\* Mutant: a tree that is stored already is taken to be complete.
RecordingMissing(doc) ==
  IF doc = HeadTree \/ Tree(doc) \in pool THEN <<>>
    ELSE <<Blob("typed", doc.typed), Blob("styles", doc.styles), Tree(doc)>>

\* A version is recorded when the tree changed since the one HEAD names: its
\* objects, blobs before the tree.
Recording(doc) ==
  IF doc = HeadTree THEN <<>>
    ELSE <<Blob("typed", doc.typed), Blob("styles", doc.styles), Tree(doc)>>

Stage(p) ==
  /\ call[p].at = "stage"
  /\ \/ call[p].kind = "edit"
     \/ call[p].kind = "restore" /\ Pickable(call[p].picked)
  /\ LET doc == Staged(call[p]) IN
       call' = [call EXCEPT ![p] =
         [at |-> "put", kind |-> call[p].kind, parent |-> call[p].parent, doc |-> doc,
          boundary |-> call[p].boundary,
          todo |-> IF call[p].boundary THEN Recording(doc) ELSE <<>>]]
  /\ UNCHANGED <<pool, made, dirs, pointer, trimmed, lane, left>>

\* partial-restore-needs-dependent-state: nothing was changed.
RefuseCoupled(p) ==
  /\ call[p].at = "stage"
  /\ call[p].kind = "restore"
  /\ ~Pickable(call[p].picked)
  /\ Release(p)
  /\ Return(p)
  /\ UNCHANGED <<pool, made, dirs, pointer, trimmed, left>>

\* put: an object that is there already is kept.
Put(p) ==
  /\ call[p].at = "put"
  /\ call[p].todo # <<>>
  /\ pool' = pool \cup {Head(call[p].todo)}
  /\ call' = [call EXCEPT ![p].todo = Tail(@)]
  /\ UNCHANGED <<made, dirs, pointer, trimmed, lane, left>>

\* Mutant: the tree is compared with the parent generation's.
SelectingByParent(generation, doc, boundary) ==
  IF boundary /\ doc # Current
    THEN [generation |-> generation,
          head       |-> Append(pointer.head,
                           [name |-> pointer.seq + 1, tree |-> doc, pin |-> FALSE]),
          seq        |-> pointer.seq + 1]
    ELSE [pointer EXCEPT !.generation = generation]

\* pointer_payload: the version fields are carried from the pointer that is
\* there, and a new version replaces them.
Selecting(generation, doc, boundary) ==
  IF boundary /\ doc # HeadTree
    THEN [generation |-> generation,
          head       |-> Append(pointer.head,
                           [name |-> pointer.seq + 1, tree |-> doc, pin |-> FALSE]),
          seq        |-> pointer.seq + 1]
    ELSE [pointer EXCEPT !.generation = generation]

Recorded(c) == IF c.boundary /\ c.doc # HeadTree THEN pointer.seq + 1 ELSE 0

\* commit_pointer: one durable write selects the generation and the version.
Swap(p) ==
  /\ call[p].at = "put"
  /\ call[p].todo = <<>>
  /\ Len(made) < MaxGenerations
  /\ made' = Append(made, [doc |-> call[p].doc, version |-> Recorded(call[p])])
  /\ dirs' = dirs \cup {Len(made) + 1}
  /\ pointer' = Selecting(Len(made) + 1, call[p].doc, call[p].boundary)
  /\ At(p, "close")
  /\ UNCHANGED <<pool, trimmed, lane, left>>

\* The rest of the commit succeeds and the caller has its answer.
Acknowledge(p) ==
  /\ call[p].at = "close"
  /\ Release(p)
  /\ Return(p)
  /\ UNCHANGED <<pool, made, dirs, pointer, trimmed, left>>

\* What abort() removes: the generation, once there is one.
Undone(p) == IF call[p].at = "close" THEN dirs \ {Len(made)} ELSE dirs

\* A failure at any point aborts: the parent is selected again, and the pointer
\* carries the version fields it finds, the new version included.
Fail(p) ==
  /\ call[p].at \in {"put", "close"}
  /\ Spend("faults")
  /\ pointer' = [pointer EXCEPT !.generation = call[p].parent]
  /\ dirs' = Undone(p)
  /\ Release(p)
  /\ Return(p)
  /\ UNCHANGED <<pool, made, trimmed>>

-----------------------------------------------------------------------------
(* history_restore, before it mutates: no lane is held. *)

\* The version is in the chain and not trimmed; it is about to be read.
Restore(p, v, picked) ==
  /\ Start(p, "restore")
  /\ v \in Chain
  /\ v.name \notin trimmed
  /\ call' = [call EXCEPT ![p] =
       [at |-> "read", kind |-> "restore", source |-> v.tree, picked |-> picked,
        todo |-> <<Tree(v.tree), Blob("styles", v.tree.styles), Blob("typed", v.tree.typed)>>]]
  /\ UNCHANGED <<pool, made, dirs, pointer, trimmed, lane>>

\* version_state_dir: one object after the other, verified and copied out.
ReadObject(p) ==
  /\ call[p].at = "read"
  /\ call[p].todo # <<>>
  /\ Head(call[p].todo) \in pool
  /\ call' = [call EXCEPT ![p].todo = Tail(@)]
  /\ UNCHANGED <<pool, made, dirs, pointer, trimmed, lane, left>>

\* Retention swept it in the meantime: version-content-missing.
RefuseMissing(p) ==
  /\ call[p].at = "read"
  /\ call[p].todo # <<>>
  /\ Head(call[p].todo) \notin pool
  /\ Return(p)
  /\ UNCHANGED <<pool, made, dirs, pointer, trimmed, lane, left>>

\* The restore pins what is selected now and becomes a mutation of it.
PinRestore(p) ==
  /\ call[p].at = "read"
  /\ call[p].todo = <<>>
  /\ call' = [call EXCEPT ![p] =
       [at |-> "enter", kind |-> "restore", parent |-> pointer.generation,
        source |-> @.source, picked |-> @.picked, boundary |-> TRUE]]
  /\ UNCHANGED <<pool, made, dirs, pointer, trimmed, lane, left>>

-----------------------------------------------------------------------------
(* history_gc, under the writer lane. *)

\* retention_plan: the last keepLast versions and the pinned ones are retained
\* while they are not trimmed already, and so is every version that shares a
\* tree with one of them.
Recent(keepLast) ==
  {pointer.head[i] : i \in {i \in DOMAIN pointer.head : i > Len(pointer.head) - keepLast}}

Retained(keepLast) ==
  {v \in Chain :
     v.name \notin trimmed /\ (v \in Recent(keepLast) \/ v.pin)}

KeepTrees(keepLast) == {v.tree : v \in Retained(keepLast)}

NewlyTrimmed(keepLast) ==
  {v \in Chain :
     v.name \notin trimmed /\ v.tree \notin KeepTrees(keepLast)}

TrimmedNames(keepLast) == trimmed \cup {v.name : v \in NewlyTrimmed(keepLast)}

\* The generations that recorded a version whose content the pool keeps, or
\* nobody keeps. The journals of killed mutations name no other generation
\* than the selected one.
Reclaimable(keepLast) ==
  {g \in dirs \ {pointer.generation} :
     /\ made[g].version # 0
     /\ \/ made[g].version \in TrimmedNames(keepLast)
        \/ made[g].doc \in KeepTrees(keepLast)}

\* A plan with something to release. A dry run, a plan with nothing to release
\* and a lane that is held change nothing.
Gc(p, keepLast) ==
  /\ Start(p, "gc")
  /\ lane = None
  /\ NewlyTrimmed(keepLast) # {} \/ Reclaimable(keepLast) # {}
  /\ lane' = p
  /\ call' = [call EXCEPT ![p] =
       [at |-> "trim", kind |-> "gc", keep |-> KeepTrees(keepLast),
        release |-> NewlyTrimmed(keepLast), reclaim |-> Reclaimable(keepLast)]]
  /\ UNCHANGED <<pool, made, dirs, pointer, trimmed>>

\* append_trim_log: the decision is durable before anything is removed.
AppendTrimLog(p) ==
  /\ call[p].at = "trim"
  /\ trimmed' = trimmed \cup {v.name : v \in call[p].release}
  /\ call' = [call EXCEPT ![p] =
       [at |-> "sweep", kind |-> "gc", keep |-> @.keep, reclaim |-> @.reclaim]]
  /\ UNCHANGED <<pool, made, dirs, pointer, lane, left>>

\* sweep_objects: what no kept tree that can be read reaches.
Reachable(keep) ==
  UNION {Objects(doc) : doc \in {d \in keep : Tree(d) \in pool}}

Unreachable(keep) == pool \ Reachable(keep)

\* The blobs go before the trees.
Sweep(p, object) ==
  /\ call[p].at = "sweep"
  /\ object \in Unreachable(call[p].keep)
  /\ object.kind = "tree" =>
       \A other \in Unreachable(call[p].keep) : other.kind = "tree"
  /\ pool' = pool \ {object}
  /\ UNCHANGED <<made, dirs, pointer, trimmed, lane, call, left>>

\* The generations go last.
Reclaim(p, g) ==
  /\ call[p].at = "sweep"
  /\ Unreachable(call[p].keep) = {}
  /\ g \in call[p].reclaim
  /\ dirs' = dirs \ {g}
  /\ call' = [call EXCEPT ![p].reclaim = @ \ {g}]
  /\ UNCHANGED <<pool, made, pointer, trimmed, lane, left>>

GcDone(p) ==
  /\ call[p].at = "sweep"
  /\ Unreachable(call[p].keep) = {}
  /\ call[p].reclaim = {}
  /\ Release(p)
  /\ Return(p)
  /\ UNCHANGED <<pool, made, dirs, pointer, trimmed, left>>

-----------------------------------------------------------------------------
(* history_verify: a reader, without the lane. *)

\* The trim log is read before the chain; what it names is not looked at.
Verify(p) ==
  /\ Start(p, "verify")
  /\ call' = [call EXCEPT ![p] =
       [at |-> "verify", kind |-> "verify", damage |-> {},
        unread |-> {v \in Chain : v.name \notin trimmed}]]
  /\ UNCHANGED <<pool, made, dirs, pointer, trimmed, lane>>

\* verify_tree of one version.
VerifyVersion(p, v) ==
  /\ call[p].at = "verify"
  /\ v \in call[p].unread
  /\ LET broken == IF Objects(v.tree) \subseteq pool THEN {} ELSE {v} IN
       call' = [call EXCEPT ![p] =
         [at |-> "verify", kind |-> "verify",
          damage |-> @.damage \cup broken, unread |-> @.unread \ {v}]]
  /\ UNCHANGED <<pool, made, dirs, pointer, trimmed, lane, left>>

VerifyDone(p) ==
  /\ call[p].at = "verify"
  /\ call[p].unread = {}
  /\ Return(p)
  /\ UNCHANGED <<pool, made, dirs, pointer, trimmed, lane, left>>

-----------------------------------------------------------------------------
(* The environment: a process can be killed between any two steps. The       *)
(* operating system frees its lane; recovery has nothing to do in the pool.  *)

Crash(p) ==
  /\ Running(p)
  /\ Spend("crashes")
  /\ Return(p)
  /\ lane' = IF lane = p THEN None ELSE lane
  /\ UNCHANGED <<pool, made, dirs, pointer, trimmed>>

-----------------------------------------------------------------------------
\* The workdir as the first save left it: one version, pinned or not (only a
\* workdir the Python reference wrote holds a pinned one).
First == [typed |-> [q \in Paragraph |-> Blank], styles |-> Blank]

Init ==
  /\ pool = Objects(First)
  /\ made = <<[doc |-> First, version |-> 1]>>
  /\ dirs = {1}
  /\ \E pin \in BOOLEAN :
       pointer = [generation |-> 1, seq |-> 1,
                  head |-> <<[name |-> 1, tree |-> First, pin |-> pin]>>]
  /\ trimmed = {}
  /\ lane = None
  /\ call = [p \in Process |-> NoCall]
  /\ left = [calls |-> MaxCalls, crashes |-> MaxCrashes, faults |-> MaxFaults]

Mutating(p) ==
  \/ \E doc \in Document, boundary \in BOOLEAN : Edit(p, doc, boundary)
  \/ Enter(p) \/ Conflict(p) \/ Busy(p)
  \/ Stage(p) \/ RefuseCoupled(p) \/ Put(p) \/ Swap(p)
  \/ Acknowledge(p) \/ Fail(p)

Restoring(p) ==
  \/ \E v \in Chain, picked \in SUBSET Paragraph : Restore(p, v, picked)
  \/ ReadObject(p) \/ RefuseMissing(p) \/ PinRestore(p)

Collecting(p) ==
  \/ \E keepLast \in KeepLast : Gc(p, keepLast)
  \/ AppendTrimLog(p)
  \/ \E object \in pool : Sweep(p, object)
  \/ \E g \in dirs : Reclaim(p, g)
  \/ GcDone(p)

Verifying(p) ==
  \/ Verify(p)
  \/ \E v \in Chain : VerifyVersion(p, v)
  \/ VerifyDone(p)

Next == \E p \in Process :
  Mutating(p) \/ Restoring(p) \/ Collecting(p) \/ Verifying(p) \/ Crash(p)

Spec == Init /\ [][Next]_vars

-----------------------------------------------------------------------------
(* Properties. *)

Call ==
  [at : {"idle", "enter", "stage", "put", "close", "read", "trim", "sweep", "verify"},
   kind : {"none", "edit", "restore", "gc", "verify"}]

\* Every state has the shape the code's records have: the pointer selects a
\* generation that is on the disk, also where abort() returns to the parent of a
\* failed save after retention reclaimed generations (versions.rs:1236-1252;
\* abort, store.rs:3615-3648); the versions are V1..Vn, each once, and HEAD's
\* sequence is the last (record_version, store.rs:956-966); and the lane is held
\* by the one process inside a mutation or a collection (store.rs:685-735).
TypeOK ==
  /\ pool \subseteq UNION {Objects(doc) : doc \in Document}
  /\ made \in Seq(Generation) /\ dirs \subseteq DOMAIN made
  /\ pointer.generation \in dirs
  /\ pointer.head \in Seq(Version) /\ pointer.head # <<>>
  /\ \A i \in DOMAIN pointer.head : pointer.head[i].name = i
  /\ pointer.seq = Len(pointer.head)
  /\ trimmed \subseteq {v.name : v \in Range(pointer.head)}
  /\ \A p \in Process : [at |-> call[p].at, kind |-> call[p].kind] \in Call
  /\ \A p \in Process :
       lane = p <=> call[p].at \in {"stage", "put", "close", "trim", "sweep"}

\* A version of the chain that the trim log does not name can be read: its tree
\* and every blob of it are in the pool. Whatever is swept, by however many
\* collections, killed and repeated, with content shared between versions and
\* stored again after it was swept, history_restore of a version that is not
\* reported trimmed finds it (objects.rs:40-44, versions.rs:1174-1218).
RetainedReadable ==
  \A v \in Range(pointer.head) :
    v.name \notin trimmed => Objects(v.tree) \subseteq pool

\* History never rewinds (ADR 0039, versions.rs:1691): no step of a save, a
\* failed save, a restore, a collection or a kill takes a version out of the
\* chain or changes one.
HistoryKept == [][IsPrefix(pointer.head, pointer.head')]_vars

\* Once a save boundary is acknowledged the document is the content of the
\* newest version, also where mutations that record no version, failed saves or
\* another client's save came between (record_version, store.rs:951-957).
SavedIsVersioned ==
  [][\A p \in Process :
       call[p].at = "close" /\ call[p].boundary /\ Acknowledge(p)
         => Last(pointer.head).tree = Current]_vars

\* What the documentation of history_restore says of the selective form: it
\* "moves only dependency-free, zero-token paragraphs" (versions.rs:1696-1698).
MovesParagraphsOnly ==
  [][\A p \in Process :
       call[p].kind = "restore" /\ call[p].at = "stage" /\ call[p].picked # {}
         /\ call'[p].at = "put"
         => call'[p].doc.styles = Current.styles]_vars

\* What history_verify says of its report: "Content retention released is
\* content: trimmed, never counted as damage" (versions.rs:893-896).
TrimIsNoDamage ==
  \A p \in Process :
    call[p].kind = "verify" => \A v \in call[p].damage : v.name \notin trimmed

=============================================================================
