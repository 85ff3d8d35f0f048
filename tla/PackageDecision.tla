-------------------------- MODULE PackageDecision --------------------------
(***************************************************************************)
(* The other decisions on a document: rows, columns and cells of a table,  *)
(* the deletion of a comment, and the decision of everything at once.  A   *)
(* table operation and a decision of everything go to a workdir of their   *)
(* own, which then is the document; what they do to the tokens of          *)
(* `document.xml` meets revisions and comments in the table's cells.       *)
(*                                                                         *)
(* Tables, rows and cells are further tokens: where one begins, with the   *)
(* `gridSpan` elements of a cell and whether it has properties (`tcPr`) at *)
(* all, and where it ends.  Their `par` is Outside, as is that of what     *)
(* stands in a row or a cell beside its paragraphs.                        *)
(***************************************************************************)
EXTENDS RevisionDecision

CONSTANTS
  Remarks,    \* the comments of comments.xml
  MaxAsked,   \* bound: the row or column asked for
  MaxWidth    \* bound: the span of a merge or a split

ASSUME PackageAssumption == MaxAsked \in Nat /\ MaxWidth \in Nat

VARIABLES
  comments,   \* the comments defined in comments.xml
  afar        \* the comments anchored in other parts

package == <<comments, afar>>
allVars == <<vars, package>>

Outside == "outside"
Begins(d, kind) == {i \in At(d, {"begin"}) : d[i].of = kind}
Ends(d, kind) == {i \in At(d, {"end"}) : d[i].of = kind}

-----------------------------------------------------------------------------
(* Tables of the body, their rows and their cells.  A table in a cell is    *)
(* one level deeper, and its rows and cells are not those of the table.     *)

Level(d, i) == Cardinality({j \in Begins(d, "tbl") : j < i})
                 - Cardinality({j \in Ends(d, "tbl") : j < i})
EndOf(d, i) ==
  Min({j \in Ends(d, d[i].of) :
         j > i /\ Level(d, j) = Level(d, i) + IF d[i].of = "tbl" THEN 1 ELSE 0})
Whole(d, i) == i .. EndOf(d, i)
Own(d, kind, range) == {i \in Begins(d, kind) \intersect range : Level(d, i) = 1}
Ascending(numbers) ==
  SelectSeq([k \in 1 .. Max(numbers \union {0}) + 1 |-> k - 1], LAMBDA k : k \in numbers)

Tables(d) == Ascending({i \in Begins(d, "tbl") : Level(d, i) = 0})
Rows(d, t) == Ascending(Own(d, "tr", Whole(d, t)))
Cells(d, row) == Ascending(Own(d, "tc", Whole(d, row)))

\* The element whose properties a scan of a cell finds first: the cell's own, or
\* if it has none those of a cell of a table in it.
Bearer(d, c) ==
  LET with == {i \in Begins(d, "tc") \intersect Whole(d, c) : d[i].props}
  IN  IF with = {} THEN c ELSE Min(with)
Spans(d, c) == d[Bearer(d, c)].spans

\* The test for a span already there compares ten bytes with the eight of
\* `gridSpan` and never succeeds: a merge adds an element to what is there.
Widened(d, c, span) ==
  IF span <= 1 THEN d
  ELSE [d EXCEPT ![Bearer(d, c)] = [@ EXCEPT !.spans = Append(@, span), !.props = TRUE]]

\* A new element that holds copies of revisions holds elements of its own.
Fresh(tokens, stamp) ==
  [k \in DOMAIN tokens |->
    IF tokens[k].tag \in {"open", "close", "mark"}
    THEN [tokens[k] EXCEPT !.rev = [@ EXCEPT !.n = <<stamp>> \o @]] ELSE tokens[k]]

\* clone_cell_with_empty_paragraph, clone_row_with_empty_cells: the tags, and what
\* stands between the paragraphs.  The cell is built anew.  A table in the row is
\* passed over as far as the next closing `tbl`, its own or that of a table in it:
\* the tags that follow of the outer one are copied.
EmptyCell(d, c) ==
  <<[d[c] EXCEPT !.props = d[Bearer(d, c)].props, !.spans = Spans(d, c)], d[EndOf(d, c)]>>
EmptyRow(d, row) ==
  Pick(d, {i \in Whole(d, row) :
    /\ d[i].par = Outside
    /\ ~\E t \in Begins(d, "tbl") :
         /\ row < t /\ t <= i
         /\ \A j \in Ends(d, "tbl") : ~(t < j /\ j < i)})

\* The tags of the document are in order: every closing tag closes the element
\* that was opened last, and none is left open.
Parses(d) ==
  LET open == FoldLeft(LAMBDA now, token :
                CASE token.tag = "begin" -> Append(now, token.of)
                  [] token.tag = "end" -> IF now # <<>> /\ Last(now) = token.of
                                          THEN Front(now) ELSE Append(now, "malformed")
                  [] OTHER -> now, <<>>, d)
  IN  open = <<>>

-----------------------------------------------------------------------------
(* The operations, each on the n-th table of the body.                      *)

Insert(d, at, tokens) == SubSeq(d, 1, at) \o tokens \o SubSeq(d, at + 1, Len(d))
Without(d, positions) == Pick(d, DOMAIN d \ positions)

InsertRow(d, rows, after, stamp) ==
  Insert(d, EndOf(d, rows[after]), Fresh(EmptyRow(d, rows[after]), stamp))

\* The bytes between the row and the one before it go with it.
DeleteRow(d, rows, row) ==
  LET from == IF row = 1 THEN rows[1] ELSE EndOf(d, rows[row - 1]) + 1
  IN  Without(d, from .. EndOf(d, rows[row]))

\* Columns are counted in cells, row by row.
Column(d, rows, col) == {Cells(d, rows[r])[col] : r \in DOMAIN rows}
InsertCol(d, rows, after) ==
  LET column == Column(d, rows, after)
      last == {EndOf(d, c) : c \in column}
  IN  FlattenSeq([i \in DOMAIN d |->
        IF i \in last THEN <<d[i]>> \o EmptyCell(d, CHOOSE c \in column : EndOf(d, c) = i)
        ELSE <<d[i]>>])
DeleteCol(d, rows, col) ==
  Without(d, UNION {Whole(d, c) : c \in Column(d, rows, col)})

Visible(d, range) ==
  {i \in At(d, {"text"}) \intersect range :
     ~\E s \in Elements(d) : s.kind \in Deletions /\ i \in Range_(d, s)}
Spanned(cells, col, span) == {cells[x] : x \in col + 1 .. Min({col + span - 1, Len(cells)})}
Drops(d, cells, col, span) ==
  \E c \in Spanned(cells, col, span) : Visible(d, Whole(d, c)) # {}

\* A span of none leaves the cell and writes it once more.
Doubled(d, c, stamp) == Insert(d, EndOf(d, c), Fresh(SubSeq(d, c, EndOf(d, c)), stamp))
MergeShort(d, cells, col, span, stamp) ==   \* mutant: the last cell of the span stays
  IF span = 0 THEN IF col \in DOMAIN cells THEN Doubled(d, cells[col], stamp) ELSE d
  ELSE Without(Widened(d, cells[col], span),
               EndOf(d, cells[col]) + 1 .. EndOf(d, cells[Max({col, col + span - 2})]))
MergeCells(d, cells, col, span, stamp) ==
  IF span = 0 THEN IF col \in DOMAIN cells THEN Doubled(d, cells[col], stamp) ELSE d
  ELSE Without(Widened(d, cells[col], span),
               EndOf(d, cells[col]) + 1 .. EndOf(d, cells[col + span - 1]))

\* The same test: the cell keeps the span it has, and so do its empty copies.
SplitCells(d, cells, col, span) ==
  Insert(d, EndOf(d, cells[col]), FlattenSeq([x \in 1 .. span - 1 |-> EmptyCell(d, cells[col])]))

-----------------------------------------------------------------------------
(* The comments of the main story.                                          *)

AnchorsOf(d, c) == {i \in At(d, {"anchor"}) : d[i].comment = c}
Anchored(d) == {d[i].comment : i \in At(d, {"anchor"})} \union afar
Stripped(d, gone) ==
  Without(d, {i \in At(d, {"anchor"}) : d[i].comment \in gone /\ d[i].short})

\* The package without the comment is looked through again before it is written.
Deletable(d, c) ==
  /\ c \in comments
  /\ AnchorsOf(Stripped(d, {c}), c) = {} /\ c \notin afar

-----------------------------------------------------------------------------
(* Everything at once: one element for each entry of the inventory, in the  *)
(* order of the ids as strings, where 10 comes before 9; the first that is  *)
(* not found ends the decision.                                             *)

Decimal(id) ==
  LET digits[k \in 0 .. id] == IF k < 10 THEN <<k>> ELSE Append(digits[k \div 10], k % 10)
  IN  digits[id]
Sooner(a, b) ==
  LET s == Decimal(a)
      t == Decimal(b)
  IN  \/ IsStrictPrefix(s, t)
      \/ \E k \in DOMAIN s \intersect DOMAIN t :
           s[k] < t[k] /\ \A j \in 1 .. k - 1 : s[j] = t[j]
InOrder(ids) ==
  [k \in 1 .. Cardinality(ids) |->
     CHOOSE id \in ids : Cardinality({a \in ids : Sooner(a, id)}) = k - 1]

RefusedAll == <<[tag |-> "refused"]>>
EntriesOnce(d) == InOrder(UsedIds(d))   \* mutant: an id that is shared is settled once
Entries(d) ==
  LET times(id) == Cardinality({i \in At(d, {"open", "mark"}) : d[i].rev.id = id})
                     + IF id \in others THEN 1 ELSE 0
      ids == InOrder(UsedIds(d))
  IN  FlattenSeq([k \in DOMAIN ids |-> [x \in 1 .. times(ids[k]) |-> ids[k]]])
SettledAll(d, action) ==
  FoldLeft(LAMBDA now, id : IF now = RefusedAll \/ ~Found(now, id) THEN RefusedAll
                           ELSE Settled(now, Target(now, id), action),
           d, Entries(d))

-----------------------------------------------------------------------------
(* The actions. *)

\* The new workdir is extracted from what was made, which is refused when its tags
\* do not match.
Took(new, record) ==
  /\ made < MaxDecisions
  /\ Parses(new)
  /\ doc' = new /\ decisions' = record /\ made' = made + 1
  /\ UNCHANGED <<others, known>>

RowsOf(table) == Rows(doc, Tables(doc)[table])
AddRow(table, after) ==
  /\ after \in DOMAIN RowsOf(table)
  /\ Took(InsertRow(doc, RowsOf(table), after, Stamp),
          [action |-> "insert-row", table |-> table, row |-> after])
  /\ UNCHANGED package
RemoveRow(table, row) ==
  /\ row \in DOMAIN RowsOf(table)
  /\ Took(DeleteRow(doc, RowsOf(table), row),
          [action |-> "delete-row", table |-> table, row |-> row])
  /\ UNCHANGED package

\* A column there has to be in every row.
HasColumn(rows, col) ==
  rows # <<>> /\ \A r \in DOMAIN rows : col \in DOMAIN Cells(doc, rows[r])
AddColumn(table, after) ==
  /\ HasColumn(RowsOf(table), after)
  /\ Took(InsertCol(doc, RowsOf(table), after),
          [action |-> "insert-col", table |-> table, col |-> after])
  /\ UNCHANGED package
RemoveColumn(table, col) ==
  /\ HasColumn(RowsOf(table), col)
  /\ Took(DeleteCol(doc, RowsOf(table), col),
          [action |-> "delete-col", table |-> table, col |-> col])
  /\ UNCHANGED package

\* A row the table does not have is no reason to refuse: nothing is changed, and
\* the decision succeeds.  A span of none at the first cell is one below zero, and
\* ends the call.
Merge(table, row, col, span, drop) ==
  LET rows == RowsOf(table)
      cells == Cells(doc, rows[row])
      record == [action |-> "merge-cells", table |-> table, row |-> row, col |-> col,
                 span |-> span, drop |-> drop]
  IN  /\ rows # <<>>
      /\ IF row \notin DOMAIN rows THEN Took(doc, record)
         ELSE /\ drop \/ ~Drops(doc, cells, col, span)
              /\ col + span - 1 <= Len(cells)
              /\ ~(span = 0 /\ col = 1 /\ cells # <<>>)
              /\ Took(MergeCells(doc, cells, col, span, Stamp), record)
      /\ UNCHANGED package
Split(table, row, col, span) ==
  LET rows == RowsOf(table)
      cells == Cells(doc, rows[row])
      record == [action |-> "split-cells", table |-> table, row |-> row, col |-> col, span |-> span]
  IN  /\ rows # <<>>
      /\ IF row \notin DOMAIN rows THEN Took(doc, record)
         ELSE /\ col \in DOMAIN cells /\ span >= 1
              /\ Took(SplitCells(doc, cells, col, span), record)
      /\ UNCHANGED package

DeleteComment(c) ==
  /\ Deletable(doc, c)
  /\ Took(Stripped(doc, {c}), [action |-> "comment-delete", comment |-> c])
  /\ comments' = comments \ {c}
  /\ UNCHANGED afar

\* decide_all_package: the revisions, then every comment the package still knows
\* of, which has to be defined.
DecideAll(action) ==
  /\ SettledAll(doc, action) # RefusedAll
  /\ Anchored(SettledAll(doc, action)) \subseteq comments
  /\ Took(Stripped(SettledAll(doc, action), comments), [action |-> "decide-all", all |-> action])
  /\ comments' = {}
  /\ UNCHANGED afar

PackageInit ==
  /\ Init
  /\ \E p \in Start : doc = p.doc /\ afar = p.afar
  /\ comments = Remarks
PackageNext ==
  \/ Next /\ UNCHANGED package
  \/ \E table \in DOMAIN Tables(doc), x \in 1 .. MaxAsked :
       \/ AddRow(table, x)
       \/ RemoveRow(table, x)
       \/ AddColumn(table, x)
       \/ RemoveColumn(table, x)
       \/ \E col \in 1 .. MaxAsked, span \in 0 .. MaxWidth :
            \/ \E drop \in BOOLEAN : Merge(table, x, col, span, drop)
            \/ Split(table, x, col, span)
  \/ \E c \in Remarks : DeleteComment(c)
  \/ \E action \in {"accept", "reject"} : DecideAll(action)
PackageSpec == PackageInit /\ [][PackageNext]_allVars

-----------------------------------------------------------------------------
(* Properties. *)

Took_(action) == made' # made /\ decisions'.action = action
TableActions == {"insert-row", "delete-row", "insert-col", "delete-col", "merge-cells", "split-cells"}

\* The cells an operation is asked to take away.
Named(d, op) ==
  LET rows == Rows(d, Tables(d)[op.table])
  IN  CASE op.action = "delete-row" -> Whole(d, rows[op.row])
        [] op.action = "delete-col" -> UNION {Whole(d, c) : c \in Column(d, rows, op.col)}
        [] op.action = "merge-cells" /\ op.row \in DOMAIN rows ->
             UNION {Whole(d, c) : c \in Spanned(Cells(d, rows[op.row]), op.col, op.span)}
        [] OTHER -> {}

Taken(d, op) == IF op.action = "merge-cells" /\ ~op.drop THEN {} ELSE Named(d, op)
TextKept(old, new, op) ==
  Words(Pick(new, Visible(new, DOMAIN new)))
    = Words(Pick(old, Visible(old, DOMAIN old) \ Taken(old, op)))

Width(d, row) ==
  FoldLeft(LAMBDA sum, c : sum + IF d[c].spans = <<>> THEN 1 ELSE d[c].spans[1], 0, Cells(d, row))
Agree(d) ==
  \A x \in DOMAIN Tables(d) :
    LET rows == Rows(d, Tables(d)[x])
    IN  \A r, q \in DOMAIN rows : Width(d, rows[r]) = Width(d, rows[q])
CountsAlike(d, op) ==
  LET rows == Rows(d, Tables(d)[op.table])
      cells == Cells(d, rows[op.row])
  IN  /\ \A c \in Begins(d, "tc") : Bearer(d, c) = c
      /\ op.action \in {"insert-col", "delete-col"} =>
           Cardinality({d[c].spans : c \in Column(d, rows, op.col)}) = 1
      /\ op.action = "merge-cells" /\ op.row \in DOMAIN rows =>
           op.span > 0 /\ \A x \in op.col .. op.col + op.span - 1 : d[cells[x]].spans = <<>>
      /\ op.action = "split-cells" => op.row \notin DOMAIN rows

\* A table operation takes no text but that of the row or column it deletes and of
\* cells a merge was told to drop, and brings none: the document reads as before,
\* word for word, in tables in cells too (`apply_table_operation`, "Cell text is
\* never rewritten").  And the rows of a table that cover the same number of grid
\* columns go on doing so, where columns and cells count the same: a column of
\* cells of one width, a merge of single cells, no cell that takes its properties
\* from a table in it, and no split.  A merge of no cells is left out: it doubles
\* the cell.
TablesStayWhole ==
  [][made' # made /\ decisions'.action \in TableActions
      /\ ~(decisions'.action = "merge-cells" /\ decisions'.span = 0) =>
       /\ TextKept(doc, doc', decisions')
       /\ Agree(doc) /\ CountsAlike(doc, decisions') => Agree(doc')]_allVars

\* Deciding everything ends where the view of the whole says: no revision is left,
\* no comment, and each paragraph reads as it does with all revisions accepted or
\* rejected, although they are settled one by one by their ids
\* (`decide_all_package` against `paragraph_visible_text`).
AllIsDecided ==
  [][Took_("decide-all") =>
       LET hidden == IF decisions'.all = "accept" THEN Deletions ELSE Insertions
       IN  /\ Revisions(doc') = {} /\ others = {}
           /\ comments' = {} /\ {i \in At(doc', {"anchor"}) : doc'[i].short} = {}
           /\ \A p \in Paragraphs(doc) : View(doc', p, {}) = View(doc, p, hidden)]_allVars

-----------------------------------------------------------------------------
(* What the documents say, and the code does not keep.                      *)

\* collab.rs:1743 and 1765, "Accept or reject every tracked revision" and "the
\* initial scan is stable": a package of editable revisions can be decided whole.
EverythingCanBeDecided ==
  ((\A r \in Revisions(doc) : Editable(doc, r)) /\ Distinct(doc) /\ others = {}) =>
    \A action \in {"accept", "reject"} : SettledAll(doc, action) # RefusedAll
\* govern.rs:1806, for the reading with the revisions rejected: a merge that is not
\* told to drop anything drops nothing.
MergesDropNothing ==
  [][Took_("merge-cells") /\ ~decisions'.drop /\ decisions'.span > 0 =>
       \A p \in Paragraphs(doc) : View(doc', p, Insertions) = View(doc, p, Insertions)]_allVars
\* test_tables.py:331, "each split cell claims exactly one grid column", and
\* split_cell_bytes itself, "reduce gridSpan to 1": a cell that spans n columns and
\* is split into n leaves the rows of the table in agreement.
SplitsAgree ==
  [][Took_("split-cells") /\ Agree(doc) =>
       LET rows == RowsOf(decisions'.table)
       IN  (/\ decisions'.row \in DOMAIN rows
            /\ Spans(doc, Cells(doc, rows[decisions'.row])[decisions'.col]) = <<decisions'.span>>) =>
             Agree(doc')]_allVars
\* govern.rs:1597: a cloned row is empty, and so brings no revision of its own.
ClonedRowsBringNone ==
  [][Took_("insert-row") => Revisions(doc') = Revisions(doc)]_allVars
\* govern.rs:1597, "nested tables dropped": there is no row that cannot be copied.
RowsCanBeCopied ==
  \A x \in DOMAIN Tables(doc) :
    LET rows == RowsOf(x)
    IN  \A r \in DOMAIN rows : Parses(InsertRow(doc, rows, r, Stamp))
\* govern.rs:1440: a comment goes with its anchors and references.
NoAnchorDangles == Anchored(doc) \intersect Remarks \subseteq comments

=============================================================================
