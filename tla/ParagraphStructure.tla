------------------------- MODULE ParagraphStructure -------------------------
(***************************************************************************)
(* Paragraphs inserted, deleted and rewritten in the draft (edit.md), the  *)
(* commit that turns the draft's markers into the sidecars structure.json  *)
(* and islands.json and renders typed.md, and the splice that builds the   *)
(* document from the template and the sidecars alone.                      *)
(*                                                                         *)
(* The paragraph P<n> is the number n and the draft's temporary N<k> is    *)
(* the number -k.  A body is a number too: paragraph n of the template     *)
(* reads n, and every new text is a number of its own.  Every paragraph    *)
(* has one run, so that any change of its text can be carried by it.       *)
(***************************************************************************)
EXTENDS Integers, Sequences, FiniteSets, SequencesExt, Functions

CONSTANTS
  Count,        \* paragraphs of the template
  Protected,    \* those whose own structure forbids a deletion
  Named,        \* the paragraphs callers name for an insertion to inherit from
  MaxEdits,     \* bound: insertions and rewrites
  MaxDeletes,   \* bound: deletions
  MaxCommits,   \* bound: commits
  MaxReverts    \* bound: reverts

Baseline == 0 .. Count - 1
None == Count + 1000

ASSUME CountAssumption ==
  /\ Count \in Nat \ {0} /\ {Protected, Named} \subseteq SUBSET (0 .. Count - 1)
  /\ {MaxEdits, MaxDeletes, MaxCommits, MaxReverts} \subseteq Nat

VARIABLES
  draft,        \* blocks of edit.md
  bound,        \* the blocks edit.state.json was last bound to by a commit
  clean,        \* whether the draft's hash is the bound one
  typed,        \* typed.md: its rows, its delete markers, rows it holds twice
  islands,      \* islands.json: paragraph -> its text
  structure,    \* structure.json: the new paragraphs and the deleted ones
  used,         \* edits, deletes, commits, reverts made
  reused        \* history: template paragraphs whose id an insertion was given

vars == <<draft, bound, clean, typed, islands, structure, used, reused>>

-----------------------------------------------------------------------------
(* Blocks. *)

Block(kind, id, body, inherit) == [kind |-> kind, id |-> id, body |-> body, inherit |-> inherit]
Live == {"p", "new"}
At(blocks, kinds) == {i \in DOMAIN blocks : blocks[i].kind \in kinds}
Ids(blocks, kinds) == {blocks[i].id : i \in At(blocks, kinds)}
\* What stands at a set of positions, in order.
Pick(seq, positions) ==
  LET upTo[n \in 0 .. Len(seq)] ==
        IF n = 0 THEN <<>>
        ELSE IF n \in positions THEN Append(upTo[n - 1], seq[n]) ELSE upTo[n - 1]
  IN  upTo[Len(seq)]
Find(blocks, id) == CHOOSE i \in DOMAIN blocks : blocks[i].id = id /\ blocks[i].kind \in Live
Rendered == [i \in 1 .. Count |-> Block("p", i - 1, i - 1, None)]

NextTemp(blocks) == Min(Ids(blocks, {"new"}) \union {0}) - 1
Added(s) == {s.new[k].id : k \in DOMAIN s.new}
Record(s, id) == CHOOSE k \in DOMAIN s.new : s.new[k].id = id

-----------------------------------------------------------------------------
(* The build. *)

\* Where an anchor resolves to: the place of a template paragraph, counted from
\* 0, or Count for the end; a deleted paragraph falls forward to the next one
\* left, an inserted one stands where its own anchor does.
SurvivorEnd(s, i) == IF i \in s.deleted THEN Count ELSE i   \* mutant: falls to the end
Survivor(s, i) == Min({j \in i .. Count : j = Count \/ j \notin s.deleted})
Hop(s, at) ==
  IF at \in Baseline \union {None} \/ at \notin Added(s) THEN at
  ELSE s.new[Record(s, at)].before
\* The chain is followed for as many hops as there are new paragraphs: what has
\* not left the chain by then goes in a circle.
Chain(s, at) == FoldLeft(LAMBDA here, k : Hop(s, here), at, [k \in 1 .. Len(s.new) |-> k])
Place(s, at) ==
  LET end == Chain(s, at)
  IN  IF end = None THEN Count ELSE Survivor(s, end)

AnchorKnown(s, at) == at = None \/ at \in Baseline \union Added(s)
Buildable(s) ==
  /\ \A k \in DOMAIN s.new :
       /\ s.new[k].inherit \in Baseline
       /\ AnchorKnown(s, s.new[k].before)
       /\ Chain(s, s.new[k].before) \in Baseline \union {None}
  /\ s.deleted \subseteq Baseline \ Protected

\* At one place the paragraphs recorded later come first.
Spliced(s, i) ==
  LET later == Reverse(s.new)
  IN  Pick(later, {k \in DOMAIN later : Place(s, later[k].before) = i})
Built(s, edits) ==
  LET kept(i) == IF i = Count \/ i \in s.deleted THEN <<>>
                 ELSE << [id |-> i, body |-> IF i \in DOMAIN edits THEN edits[i] ELSE i] >>
      added(i) == LET new == Spliced(s, i)
                  IN  [k \in DOMAIN new |-> [id |-> new[k].id, body |-> new[k].body]]
  IN  FlattenSeq([n \in 1 .. Count + 1 |-> added(n - 1) \o kept(n - 1)])

-----------------------------------------------------------------------------
(* The commit, as functions of the files it reads. *)

\* Formal ids, in draft order, above every id the draft carries - its delete
\* markers included, paragraphs deleted before the last commit not.
News(blocks) == Pick(blocks, At(blocks, {"new"}))
Formal(blocks, id) ==
  IF id >= 0 THEN id
  ELSE Max(Ids(blocks, {"p", "delete"}) \union {-1})
         + (CHOOSE k \in DOMAIN News(blocks) : News(blocks)[k].id = id)

\* What the draft says, under the ids the commit gives.
Committed(blocks) ==
  LET live == Ids(blocks, Live)
  IN  [f \in {Formal(blocks, id) : id \in live} |->
        blocks[Find(blocks, CHOOSE id \in live : Formal(blocks, id) = f)].body]
Known(rows) == Baseline \union DOMAIN rows
OldCommitted(rows, id) == IF id \in DOMAIN rows THEN rows[id] ELSE id   \* mutant
Old(rows, id) == IF id \in Baseline THEN id ELSE rows[id]

Desired(said, rows, s) ==
  Restrict(said, {f \in DOMAIN said \ Added(s) : f \in Known(rows) /\ said[f] # Old(rows, f)})
PlanChanged(desired, persisted) ==
  {f \in DOMAIN desired \union DOMAIN persisted :
     ~(f \in DOMAIN desired /\ f \in DOMAIN persisted /\ desired[f] = persisted[f])}

\* The anchor of an insertion: the next paragraph of the draft that is no
\* insertion of this commit.
NextLive(blocks, id) ==
  LET after == {i \in DOMAIN blocks : i > Find(blocks, id) /\ blocks[i].kind = "p"
                                       /\ blocks[i].id \notin Ids(blocks, {"delete"})}
  IN  IF after = {} THEN None ELSE blocks[Min(after)].id

\* The structure a commit records: what the draft dropped is withdrawn or
\* deleted, what it rewrote is rewritten, what it added is recorded in the order
\* of the temporary ids, unless the id it was given is known already.
Gone(blocks, rows) == Ids(blocks, {"delete"}) \intersect Known(rows)
Pushed(blocks, rows, s) ==
  LET recorded == {t \in Ids(blocks, {"new"}) : Formal(blocks, t) \notin Added(s) \union Known(rows)}
      temps == Pick([k \in 1 .. Len(blocks) |-> -k], {k \in 1 .. Len(blocks) : -k \in recorded})
  IN  [k \in DOMAIN temps |->
        [id |-> Formal(blocks, temps[k]), body |-> blocks[Find(blocks, temps[k])].body,
         inherit |-> blocks[Find(blocks, temps[k])].inherit,
         before |-> NextLive(blocks, temps[k])]]
Restructured(blocks, rows, s) ==
  LET said == Committed(blocks)
      gone == Gone(blocks, rows)
      kept == Pick(s.new, {k \in DOMAIN s.new : s.new[k].id \notin gone})
  IN  [new |-> [k \in DOMAIN kept |->
                 IF kept[k].id \in DOMAIN said THEN [kept[k] EXCEPT !.body = said[kept[k].id]]
                 ELSE kept[k]]
               \o Pushed(blocks, rows, s),
       deleted |-> s.deleted \union (gone \ Added(s))]
Moved(s, t) ==
  {id \in Added(s) \union Added(t) :
     ~(id \in Added(s) \intersect Added(t) /\ s.new[Record(s, id)] = t.new[Record(t, id)])}
    \union (t.deleted \ s.deleted)

Retyped(said, rows) == {f \in DOMAIN said : ~(f \in DOMAIN rows /\ rows[f] = said[f])}

\* typed.md: the blocks of the draft, then the rows of the old file no block
\* names - and an insertion is named by its temporary id.
Carried(blocks, rows) == DOMAIN rows \ Ids(blocks, {"p", "new", "delete"})
Retype(blocks, rows) ==
  LET said == Committed(blocks)
      carried == Carried(blocks, rows)
  IN  [rows |-> [f \in DOMAIN said \union carried |-> IF f \in carried THEN rows[f] ELSE said[f]],
       gone |-> Ids(blocks, {"delete"}) \intersect Baseline,
       twice |-> DOMAIN said \intersect carried]

\* The draft after the commit: insertions become paragraphs, markers go.
CanonicalKeeping(blocks) ==   \* mutant: the delete markers stay
  [i \in DOMAIN blocks |->
    IF blocks[i].kind = "new" THEN [blocks[i] EXCEPT !.kind = "p", !.id = Formal(blocks, @)]
    ELSE blocks[i]]
Canonical(blocks) ==
  LET kept == Pick(blocks, At(blocks, Live))
  IN  [i \in DOMAIN kept |-> [kept[i] EXCEPT !.kind = "p", !.id = Formal(blocks, @)]]

\* What differs from the template, or from typed.md where the template has no
\* such paragraph.
Changed(blocks, rows) ==
  Ids(blocks, {"new"}) \union Gone(blocks, rows)
    \union {f \in Ids(blocks, {"p"}) : f \notin Known(rows) \/ Committed(blocks)[f] # Old(rows, f)}

\* The ids a commit of the draft would report; none when it has nothing to do.
Accepted ==
  LET said == Committed(draft)
      plan == PlanChanged(Desired(said, typed.rows, structure), islands)
  IN  IF clean /\ plan = {} /\ Changed(draft, typed.rows) = {} THEN {}
      ELSE plan \union Retyped(said, typed.rows)
             \union Moved(structure, Restructured(draft, typed.rows, structure))

-----------------------------------------------------------------------------
(* The actions. *)

Write(blocks) ==
  /\ draft' = blocks
  /\ clean' = (blocks = bound)
  /\ UNCHANGED <<bound, typed, reused>>
Spend(what, bounded) ==
  /\ used[what] < bounded
  /\ used' = [used EXCEPT ![what] = @ + 1]
Fresh == 100 + used.edits

\* insert_paragraph.  Without a named source the new paragraph inherits from its
\* anchor.
Inserted(after, inherit) ==
  InsertAt(draft, Find(draft, after) + 1, Block("new", NextTemp(draft), Fresh, inherit))
Insert(after, inherit) ==
  /\ Spend("edits", MaxEdits)
  /\ Write(Inserted(after, inherit))
  /\ UNCHANGED <<islands, structure>>

\* The insert hunk of document_patch: behind a committed paragraph, from one that
\* is not protected.
PatchInsert(after, inherit) ==
  /\ after \in Ids(draft, {"p"}) /\ inherit \notin Protected
  /\ Insert(after, inherit)

\* A replacement: a template paragraph's new text goes to islands.json at once.
Rewrite(id, body) ==
  /\ Spend("edits", MaxEdits)
  /\ body # draft[Find(draft, id)].body
  /\ Write([draft EXCEPT ![Find(draft, id)].body = body])
  /\ islands' = IF id \notin Baseline \ Added(structure) THEN islands
                ELSE [f \in {id} \union DOMAIN islands |-> IF f = id THEN body ELSE islands[f]]
  /\ UNCHANGED structure

Repoint(s, gone) ==
  IF gone \notin Added(s) THEN s
  ELSE [s EXCEPT !.new = [k \in DOMAIN s.new |->
         IF s.new[k].before = gone THEN [s.new[k] EXCEPT !.before = s.new[Record(s, gone)].before]
         ELSE s.new[k]]]
Delete(id) ==
  /\ id \notin Protected
  /\ Spend("deletes", MaxDeletes)
  /\ structure' = Repoint(structure, id)
  /\ Write(Append(RemoveAt(draft, Find(draft, id)), Block("delete", id, None, None)))
  /\ UNCHANGED islands

\* The delete hunk of document_patch: the anchors stay as they are.
PatchDelete(id) ==
  /\ id \in Ids(draft, {"p"}) \ Protected
  /\ Spend("deletes", MaxDeletes)
  /\ Write(Append(RemoveAt(draft, Find(draft, id)), Block("delete", id, None, None)))
  /\ UNCHANGED <<islands, structure>>

\* commit_sync: what publishes nothing new is refused, and leaves no trace.
Commit ==
  /\ Accepted # {}
  /\ Retype(draft, typed.rows) # typed
  /\ Spend("commits", MaxCommits)
  /\ islands' = Desired(Committed(draft), typed.rows, structure)
  /\ structure' = Restructured(draft, typed.rows, structure)
  /\ typed' = Retype(draft, typed.rows)
  /\ draft' = Canonical(draft)
  /\ bound' = draft'
  /\ clean' = TRUE
  /\ reused' = reused \union ({Formal(draft, t) : t \in Ids(draft, {"new"})} \intersect Baseline)

\* The draft is rendered from the template; the sidecars stay.
Revert ==
  /\ Spend("reverts", MaxReverts)
  /\ draft' = Rendered
  /\ bound' = <<>>
  /\ clean' = TRUE
  /\ UNCHANGED <<typed, islands, structure, reused>>

Init ==
  /\ draft = Rendered
  /\ bound = <<>>
  /\ clean = TRUE
  /\ typed = [rows |-> [i \in Baseline |-> i], gone |-> {}, twice |-> {}]
  /\ islands = <<>>
  /\ structure = [new |-> <<>>, deleted |-> {}]
  /\ used = [edits |-> 0, deletes |-> 0, commits |-> 0, reverts |-> 0]
  /\ reused = {}

Next ==
  \/ \E after \in Ids(draft, Live) : \E inherit \in {after} \union Named :
       Insert(after, inherit) \/ PatchInsert(after, inherit)
  \/ \E id \in Ids(draft, Live) :
       \/ \E body \in {Fresh} \union ({id} \intersect Baseline) : Rewrite(id, body)
       \/ Delete(id) \/ PatchDelete(id)
  \/ Commit
  \/ Revert

Spec == Init /\ [][Next]_vars

-----------------------------------------------------------------------------
(* Properties. *)

Distinct(seq) == \A i, j \in DOMAIN seq : seq[i].id = seq[j].id => i = j

\* No two live blocks of the draft and no two records of structure.json share an
\* id, an inserted paragraph never has the id of a template paragraph, and the
\* sidecars name paragraphs of the template where they must.
TypeOK ==
  /\ \A i, j \in At(draft, Live) : draft[i].id = draft[j].id => i = j
  /\ Distinct(structure.new) /\ Added(structure) \intersect Baseline = {}
  /\ structure.deleted \subseteq Baseline \ Protected
  /\ DOMAIN islands \subseteq Baseline

\* The states a build is accepted in, before anything was reverted.
Settled == clean /\ used.reverts = 0 /\ Buildable(structure)

\* Once committed, the draft, typed.md and the built document hold the same
\* paragraphs with the same text, but for one that was given the id of a deleted
\* paragraph.
ViewsAgree ==
  Settled =>
    LET said == {<<draft[i].id, draft[i].body>> : i \in DOMAIN draft}
        built == Built(structure, islands)
    IN  /\ said = {<<f, typed.rows[f]>> : f \in DOMAIN typed.rows}
        /\ {<<built[i].id, built[i].body>> : i \in DOMAIN built}
             = {pair \in said : pair[1] \notin reused}

Index(seq, id) == CHOOSE i \in DOMAIN seq : seq[i].id = id
Before(seq, a, b) == Index(seq, a) < Index(seq, b)

\* An inserted paragraph is built between the template paragraphs it stands
\* between in the draft (`next_live_paragraph` against the splice, through every
\* chain of anchors and every deleted one), until an id is given out twice.
RightGap ==
  Settled /\ reused = {} =>
    \A new \in Added(structure), old \in Baseline \ structure.deleted :
      Before(Built(structure, islands), new, old) <=> Before(draft, new, old)

\* A commit settles everything: "A repeat commit is then a clean no-op."
CommitConverges ==
  [][used'.commits # used.commits /\ used.reverts = 0 => Accepted' = {}]_vars

\* What the comments of the splice and of `repoint_dependents` promise, "That is
\* the order the draft shows": the built document has the draft's order.
OrderOfTheDraft ==
  Settled /\ reused = {} =>
    LET built == Built(structure, islands)
    IN  \A a, b \in Added(structure) : Before(built, a, b) <=> Before(draft, a, b)

\* What the commit says of typed.md, "a view of the document AS IT NOW STANDS":
\* what would be built now reads as typed.md does.
TypedIsBuilt ==
  clean /\ Buildable(structure) =>
    LET built == Built(structure, islands)
    IN  \A i \in DOMAIN built :
          built[i].id \in DOMAIN typed.rows /\ typed.rows[built[i].id] = built[i].body

\* What `validate_structure` tells of the workdirs it once refused for good: a
\* committed draft is one a build accepts.
CommittedIsBuildable == clean => Buildable(structure)

\* What `repoint_dependents` is there for: an anchor never dangles or goes in a
\* circle, whatever was deleted since it was recorded.  The delete hunk of
\* document_patch does not call it.
AnchorsStand ==
  \A k \in DOMAIN structure.new :
    /\ AnchorKnown(structure, structure.new[k].before)
    /\ Chain(structure, structure.new[k].before) \in Baseline \union {None}

\* Every paragraph the committed draft shows is built.
NothingIsLost ==
  Settled => \A i \in DOMAIN draft : \E j \in DOMAIN Built(structure, islands) :
    Built(structure, islands)[j].id = draft[i].id

=============================================================================
