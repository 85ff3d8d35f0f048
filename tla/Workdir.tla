------------------------------ MODULE Workdir -------------------------------
(***************************************************************************)
(* The life of a workdir directory outside the writer lane: `extract'       *)
(* builds it or replaces its baseline (plan_extract_with, commit_workdir),  *)
(* and the first edit turns it into a store (Store::ensure, Store::init).   *)
(* None of the three takes a lane.  They work by path, so each step acts on *)
(* whatever directory has the name at that moment.                          *)
(*                                                                          *)
(* An edit of a store that is there already is one step here: what happens  *)
(* inside it is module GenerationStore.                                     *)
(***************************************************************************)
EXTENDS Integers, FiniteSets

CONSTANTS
  Process,     \* the processes that use the workdir
  Source,      \* the documents `extract' is called with
  First,       \* the source the workdir was made from
  MaxCalls,    \* bound on calls
  MaxCrashes,  \* bound on kills
  MaxFaults    \* bound on failed file operations

ASSUME WorkdirAssumption ==
  /\ First \in Source
  /\ "missing" \notin Source
  /\ {MaxCalls, MaxCrashes, MaxFaults} \subseteq Nat

VARIABLES
  dir,      \* the directories on the disk: the root, and each process's two
  orphans,  \* moved-aside workdirs nobody will come back for
  call,     \* what each process is doing
  made,     \* generations named so far
  acked,    \* edits a caller has been told are committed
  crossed,  \* a root was put under an extract that had found none
  left      \* what the bounds still allow

vars == <<dir, orphans, call, made, acked, crossed, left>>

-----------------------------------------------------------------------------
(* Directories. *)

\* _template.docx and typed.md, and for the latter the edits that its sidecar
\* (islands.json) holds: those may be of another source.
Asset   == {"template", "typed"}
Content == [base : Source, edits : SUBSET Nat]
Missing == [base |-> "missing", edits |-> {}]
Blank   == [a \in Asset |-> Missing]
From(source) == [a \in Asset |-> [base |-> source, edits |-> {}]]

\* A directory holds assets and, once it is a store, generations and a pointer.
NoStore   == [there |-> FALSE, generations |-> {}]
NoPointer == 0
Gone      == [there |-> FALSE, assets |-> Blank, store |-> NoStore, pointer |-> NoPointer]
Fresh(assets) ==
  [there |-> TRUE, assets |-> assets, store |-> NoStore, pointer |-> NoPointer]

\* ".docx2typed-commit-<pid>-<n>.tmp" and "-old-" beside the root.
Staging(p) == <<"staging", p>>
Backup(p)  == <<"backup", p>>
Root       == <<"root">>
Place      == {Root} \cup {Staging(p) : p \in Process} \cup {Backup(p) : p \in Process}

root == dir[Root]

Whole(d) == \E s \in Source : \A a \in Asset : d.assets[a].base = s

NoCall == [at |-> "idle"]

At(p, at) == call' = [call EXCEPT ![p].at = at]
Return(p) == call' = [call EXCEPT ![p] = NoCall]
Spend(what) == left[what] > 0 /\ left' = [left EXCEPT ![what] = @ - 1]

\* Only what a publish leaves behind becomes an orphan.
Set(changed) == dir' = changed /\ UNCHANGED orphans
SetDir(place, value) == Set([dir EXCEPT ![place] = value])

\* The names hold the process id and a counter: what a killed process or a
\* failed call leaves at them is never looked for again.
Orphan(p, changed) ==
  /\ dir' = [changed EXCEPT ![Staging(p)] = Gone, ![Backup(p)] = Gone]
  /\ orphans' = IF dir[Backup(p)].there THEN orphans \cup {dir[Backup(p)]} ELSE orphans

-----------------------------------------------------------------------------
(* extract. *)

\* plan_extract_with looks at the root: one that carries edits its source does
\* not have is refused unless the caller discards them. The sidecars the publish
\* is to remove are those beside a template now (stale_baseline_assets).
Stale == root.assets["template"] # Missing /\ root.assets["typed"].edits # {}

Plan(p, source, discard) ==
  /\ call[p].at = "idle"
  /\ Spend("calls")
  /\ root.assets["typed"].edits = {} \/ discard
  /\ call' = [call EXCEPT ![p] =
       [at |-> "publish", source |-> source, discard |-> discard, clear |-> Stale, todo |-> Asset]]
  /\ UNCHANGED <<dir, orphans, made, acked, crossed>>

\* commit_workdir over nothing: the assets are to be written where they belong,
\* in a directory made first, unless somebody has made it or moved one there.
FindNone(p) ==
  /\ call[p].at = "publish"
  /\ ~root.there
  /\ At(p, "make-root")
  /\ UNCHANGED <<dir, orphans, made, acked, crossed, left>>

There(d) == IF d.there THEN d ELSE Fresh(Blank)
Present  == There(root)

MakeRoot(p) ==
  /\ call[p].at = "make-root"
  /\ SetDir(Root, Present)
  /\ At(p, "in-place")
  /\ UNCHANGED <<made, acked, crossed, left>>

\* commit_workdir over a workdir: a copy of it, without its store, is staged.
PublishStaged(p) ==
  /\ call[p].at = "publish"
  /\ root.there
  /\ SetDir(Staging(p), Fresh(root.assets))
  /\ At(p, "staged")
  /\ UNCHANGED <<made, acked, crossed, left>>

\* apply_change_set, one asset after the other, in the directory that has the
\* name, made again where it has gone.
Target(p) == IF call[p].at = "in-place" THEN Root ELSE Staging(p)

Written(p, old) ==
  [base |-> call[p].source, edits |-> IF call[p].clear THEN {} ELSE old.edits]

Apply(p, asset) ==
  /\ call[p].at \in {"in-place", "staged"}
  /\ asset \in call[p].todo
  /\ SetDir(Target(p), [There(dir[Target(p)]) EXCEPT !.assets[asset] = Written(p, @)])
  /\ call' = [call EXCEPT ![p].todo = @ \ {asset}]
  /\ UNCHANGED <<made, acked, crossed, left>>

\* A write fails: what was staged is discarded, and what was written in place
\* stays.
ApplyFails(p) ==
  /\ call[p].at \in {"in-place", "staged"}
  /\ Spend("faults")
  /\ SetDir(Staging(p), Gone)
  /\ Return(p)
  /\ UNCHANGED <<made, acked, crossed>>

InPlaceDone(p) ==
  /\ call[p].at = "in-place"
  /\ call[p].todo = {}
  /\ Return(p)
  /\ UNCHANGED <<dir, orphans, made, acked, crossed, left>>

\* Mutant: the old workdir is removed to make room.
Overwrite(p) ==
  /\ call[p].at = "staged"
  /\ call[p].todo = {}
  /\ SetDir(Root, Gone)
  /\ At(p, "aside")
  /\ UNCHANGED <<made, acked, crossed, left>>

\* The root is moved aside. Where it has gone, the staged copy is discarded.
MoveAside(p) ==
  /\ call[p].at = "staged"
  /\ call[p].todo = {}
  /\ IF root.there
       THEN /\ Set([dir EXCEPT ![Backup(p)] = root, ![Root] = Gone])
            /\ At(p, "aside")
       ELSE /\ SetDir(Staging(p), Gone)
            /\ Return(p)
  /\ UNCHANGED <<made, acked, crossed, left>>

\* A directory is renamed to the root if nothing has the name. Where an empty
\* directory has it, POSIX lets the rename replace that, and Windows refuses.
Vacant == ~root.there \/ root = Fresh(Blank)

InPlace(p) == call[p].at \in {"make-root", "in-place"}
PutInPlace == crossed' = (crossed \/ \E q \in Process : InPlace(q))

\* The staged copy takes the name.
MoveIn(p) ==
  /\ call[p].at = "aside"
  /\ Vacant
  /\ Set([dir EXCEPT ![Root] = dir[Staging(p)], ![Staging(p)] = Gone])
  /\ At(p, "drop")
  /\ PutInPlace
  /\ UNCHANGED <<made, acked, left>>

\* It cannot, and nor can the old workdir: nobody looks for that again.
MoveRefused(p) ==
  /\ call[p].at = "aside"
  /\ \/ root.there /\ UNCHANGED left
     \/ ~root.there /\ Spend("faults")
  /\ Orphan(p, dir)
  /\ Return(p)
  /\ UNCHANGED <<made, acked, crossed>>

\* It cannot: the old workdir is moved back. The staged copy is left lying.
MoveBack(p) ==
  /\ call[p].at = "aside"
  /\ Vacant
  /\ Spend("faults")
  /\ Set([dir EXCEPT ![Root] = dir[Backup(p)], ![Backup(p)] = Gone, ![Staging(p)] = Gone])
  /\ Return(p)
  /\ PutInPlace
  /\ UNCHANGED <<made, acked>>

DropBackup(p) ==
  /\ call[p].at = "drop"
  /\ SetDir(Backup(p), Gone)
  /\ Return(p)
  /\ UNCHANGED <<made, acked, crossed, left>>

-----------------------------------------------------------------------------
(* An edit: Store::ensure, the pin, and the mutation. *)

\* Store::ensure finds no store directory.
Upgrade(p) ==
  /\ call[p].at = "idle"
  /\ Spend("calls")
  /\ root.there /\ ~root.store.there
  /\ At(p, "birth")
  /\ UNCHANGED <<dir, orphans, made, acked, crossed>>

\* Store::init looks again: a directory another process has made by now is
\* taken as it is, and a root that has gone is refused.
BirthCheck(p) ==
  /\ call[p].at = "birth"
  /\ IF root.there
       THEN At(p, IF root.store.there THEN "pin" ELSE "make")
       ELSE Return(p)
  /\ UNCHANGED <<dir, orphans, made, acked, crossed, left>>

\* From here every step creates the directories of the path it writes to.
BirthDir(p) ==
  /\ call[p].at = "make"
  /\ SetDir(Root, [Present EXCEPT !.store.there = TRUE])
  /\ At(p, "snapshot")
  /\ UNCHANGED <<made, acked, crossed, left>>

\* The root's files are copied to the first generation; the journal says so.
BirthSnapshot(p) ==
  /\ call[p].at = "snapshot"
  /\ made' = made + 1
  /\ SetDir(Root, [Present EXCEPT !.store =
       [there |-> TRUE,
        generations |-> @.generations \cup {[id |-> made', assets |-> Present.assets]}]])
  /\ call' = [call EXCEPT ![p] = [at |-> "pointer", generation |-> made']]
  /\ UNCHANGED <<acked, crossed, left>>

BirthPointer(p) ==
  /\ call[p].at = "pointer"
  /\ SetDir(Root, [Present EXCEPT !.pointer = call[p].generation])
  /\ At(p, "close")
  /\ UNCHANGED <<made, acked, crossed, left>>

\* The journal is closed, under the store directory.
BirthClose(p) ==
  /\ call[p].at = "close"
  /\ SetDir(Root, [Present EXCEPT !.store.there = TRUE])
  /\ At(p, "pin")
  /\ UNCHANGED <<made, acked, crossed, left>>

\* The store directory is removed, whoever filled it.
BirthFails(p) ==
  /\ call[p].at \in {"make", "snapshot", "pointer", "close"}
  /\ Spend("faults")
  /\ Set([dir EXCEPT ![Root].store = NoStore])
  /\ Return(p)
  /\ UNCHANGED <<made, acked, crossed>>

\* Store::open and the pin: the pointer names a generation that is there.
Selected == {g \in root.store.generations : g.id = root.pointer}
Open == root.there /\ root.store.there /\ Selected # {}

Pin(p) ==
  /\ \/ call[p].at = "idle" /\ Spend("calls")
     \/ call[p].at = "pin" /\ UNCHANGED left
  /\ Open
  /\ call' = [call EXCEPT ![p] = [at |-> "mutate", generation |-> root.pointer]]
  /\ UNCHANGED <<dir, orphans, made, acked, crossed>>

\* "store pointer is missing or corrupt", or the generation is not there.
PinRefused(p) ==
  /\ call[p].at = "pin"
  /\ ~Open
  /\ Return(p)
  /\ UNCHANGED <<dir, orphans, made, acked, crossed, left>>

\* The mutation of the pinned generation, acknowledged.
Edited(assets, edit) == [assets EXCEPT !["typed"].edits = @ \cup {edit}]

\* The callback needs typed.md in the generation it stages.
Mutable(p) ==
  /\ Open
  /\ root.pointer = call[p].generation
  /\ \A g \in Selected : g.assets["typed"] # Missing

Mutate(p) ==
  /\ call[p].at = "mutate"
  /\ Mutable(p)
  /\ made' = made + 1
  /\ \E parent \in Selected :
       LET after == Edited(parent.assets, made') IN
       SetDir(Root, [there   |-> TRUE,
                     assets  |-> after,
                     pointer |-> made',
                     store   |-> [root.store EXCEPT
                                    !.generations = @ \cup {[id |-> made', assets |-> after]}]])
  /\ acked' = acked \cup {made'}
  /\ Return(p)
  /\ UNCHANGED <<crossed, left>>

MutateRefused(p) ==
  /\ call[p].at = "mutate"
  /\ ~Mutable(p)
  /\ Return(p)
  /\ UNCHANGED <<dir, orphans, made, acked, crossed, left>>

-----------------------------------------------------------------------------
Crash(p) ==
  /\ call[p].at # "idle"
  /\ Spend("crashes")
  /\ Return(p)
  /\ Orphan(p, dir)
  /\ UNCHANGED <<made, acked, crossed>>

Init ==
  /\ orphans = {}
  /\ dir = [d \in Place |-> IF d = Root THEN Fresh(From(First)) ELSE Gone]
  /\ call = [p \in Process |-> NoCall]
  /\ made = 0
  /\ acked = {}
  /\ crossed = FALSE
  /\ left = [calls |-> MaxCalls, crashes |-> MaxCrashes, faults |-> MaxFaults]

Extracting(p) ==
  \/ \E source \in Source, discard \in BOOLEAN : Plan(p, source, discard)
  \/ FindNone(p) \/ MakeRoot(p) \/ PublishStaged(p)
  \/ \E asset \in Asset : Apply(p, asset)
  \/ ApplyFails(p) \/ InPlaceDone(p)
  \/ MoveAside(p) \/ MoveIn(p) \/ MoveRefused(p) \/ MoveBack(p) \/ DropBackup(p)

Editing(p) ==
  \/ Upgrade(p) \/ BirthCheck(p) \/ BirthDir(p) \/ BirthSnapshot(p) \/ BirthPointer(p) \/ BirthClose(p)
  \/ BirthFails(p)
  \/ Pin(p) \/ PinRefused(p) \/ Mutate(p) \/ MutateRefused(p)

Next == \E p \in Process : Extracting(p) \/ Editing(p) \/ Crash(p)

Spec == Init /\ [][Next]_vars

-----------------------------------------------------------------------------
(* Properties. *)

Assets == [Asset -> Content \cup {Missing}]

\* Directories, generations and pointers have the shape the code gives them,
\* no two generations of a store share an id, and what a publish has moved
\* aside or staged is there for as long as it needs it (commit_workdir,
\* lib.rs:225-285).
TypeOK ==
  /\ \A d \in Place :
       /\ dir[d].assets \in Assets
       /\ dir[d].pointer \in 0..made
       /\ \A g, h \in dir[d].store.generations :
            g.id \in 1..made /\ g.assets \in Assets /\ (g.id = h.id => g = h)
       /\ ~dir[d].there => dir[d] = Gone
  /\ \A p \in Process :
       /\ call[p].at \in {"staged", "aside"} => dir[Staging(p)].there
       /\ call[p].at = "aside" => dir[Backup(p)].there

\* Whatever the processes extract, upgrade and edit, wherever they are killed
\* and whichever file operation fails, some directory holds a whole document:
\* the root, or a workdir that was moved aside for it (commit_workdir's "a
\* ChangeSet that fails partway leaves the previous workdir untouched",
\* lib.rs:206-218). One thing breaks it, and is excepted: an extract finds no
\* root, because another has it aside, and the other puts one there before the
\* first, which takes no copy, has written its assets.
DocumentSurvives ==
  \/ \E d \in Place : Whole(dir[d])
  \/ \E d \in orphans : Whole(d)
  \/ crossed

\* Three statements that do not hold (README, section 12) follow.

\* The same without the exception.
AlwaysSurvives ==
  (\E d \in Place : Whole(dir[d])) \/ \E d \in orphans : Whole(d)

\* What stale_baseline_assets is for: no edit of the old document lies beside
\* the template that replaces it (core/lib.rs:513-523).
BaselineIsClear ==
  [][\A p \in Process :
       call[p].at = "aside" /\ call'[p].at = "drop" => root'.assets["typed"].edits = {}]_vars

\* What plan_extract says of itself: "a workdir that carries work the source
\* does not have is not a workdir the incoming file may silently replace"
\* (core/lib.rs:292-294).
EditsAreNotReplaced ==
  [][\A p \in Process :
       call[p].at = "aside" /\ call'[p].at = "drop" /\ ~call[p].discard
         => dir[Backup(p)].assets["typed"].edits \cap acked = {}]_vars

=============================================================================
