------------------------------ MODULE LeafEdits ------------------------------
(***************************************************************************)
(* Text edits of one paragraph whose text Word has split into runs: the    *)
(* surfaces that record them in islands.json while they change the draft,  *)
(* the commit that turns the draft into the plan of record, the resolution *)
(* of a record against the runs of the template that the build and the     *)
(* verifier each make, and the text the build writes.                      *)
(*                                                                         *)
(* Three measures of one place meet here: its offset in the runs, in the   *)
(* projection of the template (a run inside a tracked deletion is a gap    *)
(* without width), and in the draft, where pending records count with      *)
(* their new text.  A text is a sequence of letters, a letter is a number. *)
(***************************************************************************)
EXTENDS Integers, Sequences, FiniteSets, FiniteSetsExt, SequencesExt

CONSTANTS
  Templates,    \* paragraphs, each a sequence of runs [text, shown]
  NewTexts,     \* replacement texts
  Surfaces,     \* which of the surfaces below may be used
  Modes,        \* whether callers track their edits: a subset of BOOLEAN
  MaxEdits,     \* bound: edits of every surface
  MaxCommits    \* bound: commits of their own

Gap == 0        \* what the draft shows for a run inside a tracked deletion
None == -1      \* no recorded offset

ASSUME LeafAssumption ==
  /\ Surfaces \subseteq {"edit", "patch", "replace", "run", "all", "leaf", "hand"}
  /\ Modes \subseteq BOOLEAN
  /\ {MaxEdits, MaxCommits} \subseteq Nat

VARIABLES
  runs,         \* the paragraph's runs in _template.docx, which never changes
  body,         \* its block of edit.md
  bound,        \* the block edit.state.json was last bound to
  typed,        \* its visible text in typed.md
  islands,      \* islands.json
  plan,         \* history: the records the last commit left
  used          \* history: edits and commits made, and how the surfaces but those of handles
                \* found their places

vars == <<runs, body, bound, typed, islands, plan, used>>

-----------------------------------------------------------------------------
(* Texts. *)

Places(s, w) == {p \in 0 .. Len(s) - Len(w) : SubSeq(s, p + 1, p + Len(w)) = w}
First(s, w) == Min(Places(s, w))
\* Occurrences are counted from the left and never overlap.
Once(s, w) ==
  /\ w # <<>> /\ Places(s, w) # {}
  /\ \A p \in Places(s, w) : p < First(s, w) + Len(w)
Put(s, at, len, w) == SubSeq(s, 1, at) \o w \o SubSeq(s, at + len + 1, Len(s))
Subst(s, old, new) == Put(s, First(s, old), Len(old), new)
Visible(block) == SelectSeq(block, LAMBDA c : c # Gap)
\* What a block reads as in typed.md: a gap is written as a revision without text,
\* and a revision that is no insertion is not read.
Row(block) == Visible(block)

-----------------------------------------------------------------------------
(* One paragraph, run by run, in the three measures. *)

Leaves == DOMAIN runs
Shown == {i \in Leaves : runs[i].shown}
Stored == [i \in Leaves |-> runs[i].text]
Projected(texts) == [i \in Leaves |-> IF i \in Shown THEN texts[i] ELSE <<>>]
Offset(texts, i) == Len(FlattenSeq(SubSeq(texts, 1, i - 1)))
Holding(texts, at) == {i \in Leaves : Offset(texts, i) <= at /\ at < Offset(texts, i + 1)}
Span(texts, i, j) == FlattenSeq(SubSeq(texts, i, j))

Rendered == FlattenSeq([i \in Leaves |-> IF i \in Shown THEN runs[i].text ELSE <<Gap>>])
Baseline == Row(Rendered)

\* What a caller reads: a run a pending record starts in reads as its new text.
Pending(recs, i) == \E k \in DOMAIN recs : recs[k].leaf = i
Reads(recs) ==
  [i \in Leaves |-> IF Pending(recs, i) THEN SelectSeq(recs, LAMBDA r : r.leaf = i)[1].new
                    ELSE runs[i].text]
Caller(recs) == Projected(Reads(recs))

-----------------------------------------------------------------------------
(* Where a record's old text is in the runs: the places, counted over all  *)
(* runs.  An offset is measured in the projection and decides the run the  *)
(* text starts in; without one every run is asked for its first occurrence.*)

Seen(i) == Offset(Projected(Stored), i)
Heads(i, old, at) ==
  LET from == Span(Stored, i, Len(runs))
  IN  {h \in Places(from, old) :
         /\ h < Len(runs[i].text)
         /\ IF at = None THEN h = First(from, old) ELSE i \in Shown /\ h = at - Seen(i)}
Matches(from, old, at) ==
  IF old = <<>> THEN {}
  ELSE UNION {{Offset(Stored, i) + h : h \in Heads(i, old, at)} : i \in {j \in Leaves : j >= from}}
Found(from, old, at) == Cardinality(Matches(from, old, at)) = 1
Place(rec) == CHOOSE g \in Matches(rec.leaf, rec.old, rec.at) : TRUE
LeafOf(g) == CHOOSE i \in Leaves : i \in Holding(Stored, g)

-----------------------------------------------------------------------------
(* The build. *)

Touched(rec) == LeafOf(Place(rec)) .. LeafOf(Place(rec) + Len(rec.old) - 1)
Share(rec, i) ==
  LET from == Max({Place(rec), Offset(Stored, i)})
      to == Min({Place(rec) + Len(rec.old), Offset(Stored, i + 1)})
  IN  SubSeq(Span(Stored, 1, Len(runs)), from + 1, to)

\* validate_edit: found once, in runs that can be edited, and each run's share
\* of it once in that run - however the record is anchored.
Valid(rec) ==
  /\ Found(rec.leaf, rec.old, rec.at)
  /\ \A i \in Touched(rec) : i \in Shown /\ Once(runs[i].text, Share(rec, i))
Buildable(recs) == \A k \in DOMAIN recs : Valid(recs[k])

\* A tracked record rewrites the runs it touches whole; a direct one its text.
Writes(rec) ==
  IF rec.tracked
  THEN Offset(Stored, Min(Touched(rec))) .. Offset(Stored, Max(Touched(rec)) + 1) - 1
  ELSE Place(rec) .. Place(rec) + Len(rec.old) - 1
Clash(recs) ==
  \E k, l \in DOMAIN recs : k < l /\ Writes(recs[k]) \intersect Writes(recs[l]) # {}

\* What the built paragraph shows.
Built(recs) ==
  LET all == Span(Stored, 1, Len(runs))
      covered(rec) == Place(rec) .. Place(rec) + Len(rec.old) - 1
      here(g) == SelectSeq(recs, LAMBDA r : Place(r) = g)
      kept(g) == IF \/ Holding(Stored, g) \intersect Shown = {}
                    \/ \E k \in DOMAIN recs : g \in covered(recs[k])
                 THEN <<>> ELSE <<all[g + 1]>>
  IN  FlattenSeq([n \in 1 .. Len(all) |->
        FlattenSeq([k \in DOMAIN here(n - 1) |-> here(n - 1)[k].new]) \o kept(n - 1)])

-----------------------------------------------------------------------------
(* The verifier's own reading of the records and of the built paragraph.   *)

\* The deletions a tracked build writes, run by run, in document order.
Deletions(recs) ==
  FlattenSeq([i \in Leaves |->
    LET mine == SelectSeq(recs, LAMBDA r : r.tracked /\ i \in Touched(r))
    IN  [k \in DOMAIN mine |-> Share(mine[k], i)]])
\* A record claims the first deletions in a row that join to its old text.
ClaimsOne(dels, old) ==   \* mutant: one deletion for one record
  {<<a, a>> : a \in {b \in DOMAIN dels : dels[b] = old}}
Claims(dels, old) ==
  {<<a, b>> \in (DOMAIN dels) \X (DOMAIN dels) : a <= b /\ FlattenSeq(SubSeq(dels, a, b)) = old}
Claimed(dels, old) ==
  LET runsOf == Claims(dels, old)
      a == Min({c[1] : c \in runsOf})
      b == Min({c[2] : c \in {d \in runsOf : d[1] = a}})
  IN  IF runsOf = {} THEN Append(dels, <<Gap>>)
      ELSE SubSeq(dels, 1, a - 1) \o SubSeq(dels, b + 1, Len(dels))
\* A direct record is found again in the template, its own run editable.
Recomputes(rec) == Found(rec.leaf, rec.old, rec.at) /\ rec.leaf \in Shown
\* A part with a tracked record is checked for its tracked records alone; one
\* without is computed again and must differ from the template.
Verified(recs) ==
  LET marked == SelectSeq(recs, LAMBDA r : r.tracked)
  IN  IF marked # <<>>
      THEN FoldLeft(LAMBDA dels, r : Claimed(dels, r.old), Deletions(recs), marked) = <<>>
      ELSE \A k \in DOMAIN recs : Recomputes(recs[k])

-----------------------------------------------------------------------------
(* The commit: the plan it makes of the draft and of the records on disk. *)

\* The span two texts differ in: offset, old and new text.
Changed(old, new) ==
  LET short == Min({Len(old), Len(new)})
      p == Max({n \in 0 .. short : SubSeq(old, 1, n) = SubSeq(new, 1, n)})
      s == Max({n \in 0 .. short - p : SubSeq(old, Len(old) - n + 1, Len(old))
                                       = SubSeq(new, Len(new) - n + 1, Len(new))})
  IN  [at |-> p, old |-> SubSeq(old, p + 1, Len(old) - s), new |-> SubSeq(new, p + 1, Len(new) - s)]

\* An insertion is widened to the run that holds it, or ends there.  The runs
\* are measured with their hidden ones, the offset without.
Widened(span) ==
  LET holders == {i \in Leaves : span.at < Offset(Stored, i + 1) \/
                                 (span.at = Offset(Stored, i + 1) /\ runs[i].text # <<>>)}
      i == Min(holders)
  IN  IF span.old # <<>> THEN {span}
      ELSE IF holders = {} THEN {}
      ELSE {[at |-> Offset(Stored, i), old |-> runs[i].text,
             new |-> Put(runs[i].text, span.at - Offset(Stored, i), 0, span.new)]}

Record(leaf, at, old, new, tracked) ==
  [leaf |-> leaf, at |-> at, old |-> old, new |-> new, tracked |-> tracked]
Before(r, q) == \/ r.leaf < q.leaf
                \/ r.leaf = q.leaf /\ Max({r.at, 0}) < Max({q.at, 0})
\* A stable sort: every record goes behind those that are not after it.
InOrder(recs) ==
  FoldLeft(LAMBDA done, r :
             SelectSeq(done, LAMBDA q : ~Before(r, q)) \o <<r>> \o SelectSeq(done, LAMBDA q : Before(r, q)),
           <<>>, recs)
Reproduces(recs, said) ==
  FoldLeft(LAMBDA text, r : IF Once(text, r.old) THEN Subst(text, r.old, r.new) ELSE <<Gap>>,
           Baseline, recs) = said

\* The plans a commit may record: one, or none where it refuses.
Plans(said, recs, tracked) ==
  LET kept == InOrder(SelectSeq(recs, LAMBDA r : r.tracked = tracked))
      spans == Widened(Changed(Baseline, said))
  IN  IF said = Baseline THEN {<<>>}
      ELSE IF Len(kept) > 1 /\ Reproduces(kept, said) THEN {kept}
      ELSE IF spans # {} /\ recs # <<>> /\ Reproduces(<<recs[1]>>, said) THEN {<<recs[1]>>}
      ELSE {<<Record(LeafOf(Place(Record(1, s.at, s.old, s.new, tracked))),
                     s.at, s.old, s.new, tracked)>> :
              s \in {t \in spans : Found(1, t.old, t.at)}}

\* Only the first record on disk is compared with the plan.
PlanMovedKeeping(new, recs) ==   \* mutant: taking a record back is no change
  \E k \in DOMAIN new : recs = <<>> \/ recs[1] # new[k]
PlanMoved(new, recs) ==
  \/ new = <<>> /\ recs # <<>>
  \/ \E k \in DOMAIN new : recs = <<>> \/ recs[1] # new[k]

\* The row of typed.md is rendered from the build, where one can be made, and has
\* to read as the draft.
ReadsBack(new, said) == Buildable(new) /\ ~Clash(new) => Built(new) = said

\* What a commit leaves of the records and of typed.md; nothing, where it is
\* refused.  One with nothing to do binds no draft.  Publishing wants typed.md
\* moved.
Committed(said, recs, row, tracked) ==
  {IF PlanMoved(new, recs) \/ said # row THEN [islands |-> new, typed |-> said, moved |-> TRUE]
   ELSE [islands |-> recs, typed |-> row, moved |-> FALSE] :
     new \in {p \in Plans(said, recs, tracked) :
                 /\ PlanMoved(p, recs) => said # row
                 /\ said # row => ReadsBack(p, said)}}

-----------------------------------------------------------------------------
(* Recording an edit. *)

Crosses(block, at, len) ==
  \E n \in DOMAIN block : /\ block[n] = Gap
                          /\ Len(Visible(SubSeq(block, 1, n))) > at
                          /\ Len(Visible(SubSeq(block, 1, n))) < at + len
\* The visible span replaced in the block.
Spliced(block, at, len, new) ==
  LET n == CHOOSE n \in DOMAIN block : block[n] # Gap /\ Len(Visible(SubSeq(block, 1, n))) = at + 1
  IN  Put(block, n - 1, len, new)

\* The run an edit starts in: a pending record owns its run, else the text has to
\* be in the template's runs, at the caller's offset if there is one.
Resolved(recs, target, from, old, at) ==
  IF \E i \in target : Pending(recs, i) THEN target
  ELSE {LeafOf(g) : g \in {m \in Matches(from, old, at) :
                             Found(from, old, at) /\ LeafOf(m) \in Shown}}

\* The runs a span covers, in the caller's measure; from a pending run on, the
\* pending ones only.
Covered(recs, at, len) ==
  LET texts == Caller(recs)
      first == Holding(texts, at)
      last == Holding(texts, at + len - 1)
  IN  {j \in Leaves : \E f \in first :
         /\ j >= f
         /\ IF Pending(recs, f)
            THEN \A i \in f .. j : Pending(recs, i) /\ Offset(texts, i) < at + len
            ELSE \E l \in last : j <= l /\ f .. l \subseteq Shown}

\* The record of an edit covers whole runs on both sides and takes the place of
\* the records pending in them; none is left where the template's text is back.
MergedAppend(recs, at, old, new, tracked) ==   \* mutant: absorbs nothing
  LET cov == Covered(recs, at, Len(old))
      f == Min(cov)
      t == Max(cov)
      from == Offset(Caller(recs), f)
      text == Put(Span(Reads(recs), f, t), at - from, Len(old), new)
  IN  IF cov = {} THEN {} ELSE {Append(recs, Record(f, from, Span(Stored, f, t), text, tracked))}
Absorbed(recs, cov, new) == SelectSeq(recs, LAMBDA r : r.leaf \notin cov) \o new
Merged(recs, at, old, new, tracked) ==
  LET cov == Covered(recs, at, Len(old))
      f == Min(cov)
      t == Max(cov)
      from == Offset(Caller(recs), f)
      end == Offset(Caller(recs), t) + Len(Reads(recs)[t])
      keep == Min({Len(old), end - at})
      text == Put(Span(Reads(recs), f, t), at - from, keep,
                  SubSeq(new, 1, Len(new) - (Len(old) - keep)))
  IN  IF cov = {} THEN {}
      ELSE IF text = Span(Stored, f, t) THEN {Absorbed(recs, cov, <<>>)}
      ELSE {Absorbed(recs, cov, <<Record(f, from, Span(Stored, f, t), text, tracked)>>)}

\* What document_edit asks before it records: the run the caller's offset is in
\* is the one the template has the text in, and no run is covered in part after
\* the first.  The last question counts hidden text.
Editable(recs, at, old) ==
  LET here == Holding(Caller(recs), at)
      first == IF here = {} THEN 1 ELSE Min(here)
      leaf == Resolved(recs, here, first, old, at)
  IN  leaf # {} /\ (here = {} \/ leaf = here)
KeepsFormat(recs, at, old) ==
  LET texts == Reads(recs)
      places == {p \in Places(Span(texts, 1, Len(runs)), old) : p >= at}
  IN  places # {} =>
        LET end == Min(places) + Len(old)
            last == Holding(texts, end - 1)
        IN  last = Holding(texts, Min(places)) \/ \E i \in last : Offset(texts, i + 1) = end

-----------------------------------------------------------------------------
\* How a surface finds its place: by a handle's offset, by a search for the text,
\* or by something the records on disk do not say.
Kind(surface) == IF surface \in {"edit", "patch"} THEN "handle"
                 ELSE IF surface \in {"replace", "all"} THEN "search" ELSE "other"

\* An edit of one surface, within the bound.
From(surface) ==
  /\ surface \in Surfaces /\ used.edits < MaxEdits
  /\ used' = [used EXCEPT !.edits = @ + 1, !.by = @ \union ({Kind(surface)} \ {"handle"})]

\* What document_patch makes of a replacement of the span at `at`: the block and
\* the records.  Without a handle the text must be unique, and is searched for
\* from the first run.
Patched(at, old, new, anchored, tracked) ==
  LET leaf == IF anchored THEN Resolved(islands, Holding(Caller(islands), at), 1, old, at)
              ELSE Resolved(islands, {1}, 1, old, None)
  IN  {[body |-> Spliced(body, at, Len(old), new), islands |-> recs] :
         recs \in IF /\ old # new /\ ~Crosses(body, at, Len(old))
                     /\ anchored \/ Once(Visible(body), old)
                     /\ leaf # {} /\ leaf = Holding(Caller(islands), at)
                  THEN Merged(islands, at, old, new, tracked) ELSE {}}

SpansOf(text) ==
  {<<s[1], SubSeq(text, s[1] + 1, s[2])>> :
     s \in {p \in (0 .. Len(text)) \X (1 .. Len(text)) : p[1] < p[2]}}
Spans == SpansOf(Visible(body))

\* document_edit: the edit and the commit are one mutation.
Edit ==
  /\ From("edit")
  /\ \E span \in {s \in Spans : Editable(islands, s[1], s[2]) /\ KeepsFormat(islands, s[1], s[2])},
        new \in NewTexts, tracked \in Modes :
       \E p \in Patched(span[1], span[2], new, TRUE, tracked) :
         \E c \in Committed(Row(p.body), p.islands, typed, tracked) :
           /\ body' = p.body /\ bound' = IF c.moved THEN p.body ELSE bound
           /\ islands' = c.islands /\ plan' = c.islands /\ typed' = c.typed
  /\ UNCHANGED runs

\* document_patch: the draft and the records, committed later.
Patch ==
  /\ From("patch")
  /\ \E span \in Spans, new \in NewTexts, anchored \in BOOLEAN, tracked \in Modes :
       \E p \in Patched(span[1], span[2], new, anchored, tracked) :
         body' = p.body /\ islands' = p.islands
  /\ UNCHANGED <<runs, bound, typed, plan>>

\* The places of a text, from the left and never overlapping.
Hits(text, w) ==
  FoldLeft(LAMBDA hits, p : IF p - 1 \in Places(text, w) /\ \A h \in hits : h + Len(w) < p
                            THEN hits \union {p - 1} ELSE hits,
           {}, [p \in 1 .. Len(text) |-> p])

\* replace_text: the text is searched for in the block, where it has to be unique,
\* and the record is added as the caller worded it.
ReplaceText ==
  /\ From("replace")
  /\ \E old \in {s[2] : s \in Spans} :
       /\ Once(body, old)
       /\ \E leaf \in Resolved(islands, {1}, 1, old, None), new \in NewTexts, tracked \in Modes :
            /\ body' = Subst(body, old, new)
            /\ islands' = Append(islands, Record(leaf, None, old, new, tracked))
  /\ UNCHANGED <<runs, bound, typed, plan>>

\* With the ordinal of a run, the occurrence is the one behind as many as there
\* are runs before it that hold this text and nothing else, hidden ones included.
Ordinal(i, old) == Cardinality({j \in Leaves : j < i /\ runs[j].text = old})
ReplaceInRun ==
  /\ From("run")
  /\ \E old \in {s[2] : s \in Spans} : \E i \in Leaves, h \in Hits(body, old) :
       /\ Cardinality({g \in Hits(body, old) : g < h}) = Ordinal(i, old)
       /\ Resolved(islands, {i}, i, old, None) = {i}
       /\ \E new \in NewTexts, tracked \in Modes :
            /\ body' = Put(body, h, Len(old), new)
            /\ islands' = Append(islands, Record(i, None, old, new, tracked))
  /\ UNCHANGED <<runs, bound, typed, plan>>

Everywhere(text, w, new) ==
  LET hits == Hits(text, w)
  IN  FlattenSeq([n \in 1 .. Len(text) |->
        IF n - 1 \in hits THEN new
        ELSE IF \E h \in hits : h < n /\ n <= h + Len(w) THEN <<>> ELSE <<text[n]>>])

\* document_replace takes every match of the draft or none: no match may cross a
\* gap, and each lies within one run as the runs are measured with their hidden
\* ones.
Rewritable(hits, old) ==
  \A h \in hits : /\ ~Crosses(body, h, Len(old))
                  /\ \E i \in Holding(Stored, h) : h + Len(old) <= Offset(Stored, i + 1)
\* The block with every match replaced, from the right.
ReplacedAll(hits, old, new) ==
  FoldRight(LAMBDA p, block : IF p - 1 \in hits THEN Spliced(block, p - 1, Len(old), new) ELSE block,
            [p \in 1 .. Len(Visible(body)) |-> p], body)
\* Each run that holds a match is recorded whole, once - if its text in the
\* template has a match.
WholeRuns(hits, old, new, tracked) ==
  LET to(i) == Everywhere(runs[i].text, old, new)
      held(i) == \E h \in hits : i \in Holding(Stored, h)
      mine == SelectSeq([i \in Leaves |-> i], LAMBDA i : held(i) /\ to(i) # runs[i].text)
  IN  [k \in DOMAIN mine |-> Record(mine[k], None, runs[mine[k]].text, to(mine[k]), tracked)]
\* A paragraph none of whose matches can be recorded refuses the replacement.
RecordAll(hits, old, new, tracked) ==
  LET records == WholeRuns(hits, old, new, tracked)
  IN  /\ records # <<>>
      /\ body' = ReplacedAll(hits, old, new) /\ islands' = islands \o records
DocumentReplace ==
  /\ From("all")
  /\ \E old \in {s[2] : s \in Spans}, new \in NewTexts, tracked \in Modes :
       LET hits == Hits(Visible(body), old)
       IN  Rewritable(hits, old) /\ RecordAll(hits, old, new, tracked)
  /\ UNCHANGED <<runs, bound, typed, plan>>

\* The edit command: a record proven against the template; the draft stays.
EditText ==
  /\ From("leaf")
  /\ \E leaf \in Leaves, new \in NewTexts : \E span \in SpansOf(runs[leaf].text) :
       LET rec == Record(leaf, None, span[2], new, FALSE)
       IN  Valid(rec) /\ islands' = Append(islands, rec)
  /\ UNCHANGED <<runs, body, bound, typed, plan>>

\* A person edits edit.md and leaves its gap tokens alone.
EditByHand ==
  /\ From("hand")
  /\ \E at \in 0 .. Len(body), len \in 0 .. 1, new \in NewTexts :
       /\ at + len <= Len(body) /\ Gap \notin ToSet(SubSeq(body, at + 1, at + len))
       /\ body' = Put(body, at, len, new)
  /\ UNCHANGED <<runs, bound, typed, islands, plan>>

\* commit_sync, and what a save does first where the draft is not settled.
Commit ==
  /\ used.commits < MaxCommits /\ used' = [used EXCEPT !.commits = @ + 1]
  /\ \E tracked \in Modes : \E c \in Committed(Row(body), islands, typed, tracked) :
       /\ bound' = IF c.moved THEN body ELSE bound
       /\ islands' = c.islands /\ plan' = c.islands /\ typed' = c.typed
  /\ UNCHANGED <<runs, body>>

Init ==
  /\ runs \in Templates
  /\ body = Rendered /\ bound = Rendered /\ typed = Baseline
  /\ islands = <<>> /\ plan = <<>> /\ used = [edits |-> 0, commits |-> 0, by |-> {}]

Next == Edit \/ Patch \/ ReplaceText \/ ReplaceInRun \/ DocumentReplace \/ EditText \/ EditByHand \/ Commit
Spec == Init /\ [][Next]_vars

-----------------------------------------------------------------------------
(* Properties. *)

Settled == body = bound /\ islands = plan
Sound(recs) == Buildable(recs) /\ ~Clash(recs)

\* Where the draft is the committed one and its records can be built, the build
\* reads as the draft: the records, resolved in the template's measure, say what
\* the callers said in theirs, and the plan a commit leaves holds no record of
\* text that was taken back.  With two records in the paragraph a person's edits
\* and the edit command are left out - the commit compares the first record only -
\* and so are replacements by a run's ordinal, which is counted in the template
\* and looked up in the draft.
SettledBuildsTheDraft ==
  /\ Settled /\ Sound(islands)
  /\ Len(islands) <= 1 \/ "other" \notin used.by
  => Built(islands) = Visible(body)

\* The verifier, which reads the records a second way, passes the document the
\* builder makes of a committed draft.
VerifierAgrees == Settled /\ Sound(islands) => Verified(islands)

\* However often document_edit and document_patch go over a paragraph, in either
\* mode, no two of their records write over the same text of the template.
NoClash == used.by = {} /\ Buildable(islands) => ~Clash(islands)

-----------------------------------------------------------------------------
(* What the program's comments say, and some behaviour refutes. *)

\* A caller is never told that a document is ready whose draft was not applied:
\* what a clean draft builds reads as the draft.
BuiltIsTheDraft == body = bound /\ Sound(islands) => Built(islands) = Visible(body)

\* What was committed can be built.
CommittedBuilds == Settled => Buildable(islands)

\* A commit that reports work has moved typed.md, so that one right after a commit
\* reports none: with any number of records.
CommitConverges ==
  Settled => \A tracked \in Modes :
    (\A k \in DOMAIN islands : islands[k].tracked = tracked) =>
      Committed(Visible(body), islands, typed, tracked)
        = {[islands |-> islands, typed |-> typed, moved |-> FALSE]}

\* Whatever surface records them, no two records write over the same text.
NoClashAnywhere == Buildable(islands) => ~Clash(islands)
=============================================================================
