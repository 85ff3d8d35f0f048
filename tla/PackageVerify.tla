--------------------------- MODULE PackageVerify ---------------------------
(***************************************************************************)
(* The independent verifier: what it concludes from the template, the      *)
(* sidecars of the session and the file, without asking the build.  It     *)
(* scans the XML as text: an element runs from its opening tag to the next *)
(* closing tag of its kind, a revision of the template is known by being   *)
(* identical, and the place of a planned run is counted in the letters of  *)
(* the XML.                                                                *)
(***************************************************************************)
EXTENDS PackageBuild

CONSTANT Escaped   \* letters the XML spells as an entity

Planned == {q.para : q \in plan}
HasTracked == \E k \in DOMAIN records : Tracked(records[k])
Of(n) == SelectSeq(records, LAMBDA r : r.para = n)

-----------------------------------------------------------------------------
(* Elements, as a scan of the text finds them. *)

Elements(p, kind) ==
  LET closes(i) == {c \in i .. Len(p) : p[c] = Close(kind)}
      next(acc, i) ==
        IF i <= acc.last \/ closes(i) = {} THEN acc
        ELSE [last |-> Min(closes(i)), found |-> Append(acc.found, SubSeq(p, i, Min(closes(i))))]
      opens == SelectSeq([i \in DOMAIN p |-> i], LAMBDA i : p[i].k = kind)
  IN  FoldLeft(next, [last |-> 0, found |-> <<>>], opens).found

\* The text a deletion lost, or an insertion brought.
Carries(e) ==
  LET kind == IF e[1].k = "del" THEN "gone" ELSE "run"
  IN  FlattenSeq([i \in DOMAIN e |-> IF e[i].k = kind THEN e[i].text ELSE <<>>])
Maker(e) == e[1].by
Same(els, e) == Cardinality({x \in DOMAIN els : els[x] = e})

\* One element of the file for each identical one of the template is prior.
IsPriorByText(old, els, x) ==   \* mutant: a prior revision is known by its text
  Cardinality({y \in 1 .. x : Carries(els[y]) = Carries(els[x])})
    <= Cardinality({y \in DOMAIN old : Carries(old[y]) = Carries(els[x])})
IsPrior(old, els, x) == Same(SubSeq(els, 1, x), els[x]) <= Same(old, els[x])
NewOnes(old, els) ==
  LET order == SelectSeq([x \in DOMAIN els |-> x], LAMBDA x : ~IsPrior(old, els, x))
  IN  [y \in DOMAIN order |-> els[order[y]]]
PriorsStand(old, els) ==
  \A x \in DOMAIN old : Same(SubSeq(old, 1, x), old[x]) <= Same(els, old[x])

-----------------------------------------------------------------------------
(* A tracked record claims the deletions in a row that join to its old text *)
(* and the first insertion of its new text, all by one maker.               *)

Joined(dels, a, b) == FlattenSeq([x \in 1 .. b - a + 1 |-> Carries(dels[a + x - 1])])
\* Where a row that starts at a may end: every deletion carries the next letters.
Rows(dels, old) ==
  {<<a, b>> \in (DOMAIN dels) \X (DOMAIN dels) :
     /\ a <= b
     /\ \A x \in a .. b : Carries(dels[x]) # <<>>
     /\ IsPrefix(Joined(dels, a, b), old)}
OneMaker(dels, row) == \A x \in row[1] .. row[2] : Maker(dels[x]) = Maker(dels[row[1]])

AnyMaker(e, r) == TRUE   \* mutant: a revision is known by its text
MadeBy(e, r) == Maker(e) = Stamp(r)
Failed == [ok |-> FALSE, dels |-> <<>>, inss |-> <<>>]
Claim(acc, p, r, old) ==
  LET rows == Rows(acc.dels, old)
      whole == {row \in rows : Joined(acc.dels, row[1], row[2]) = old}
      row == CHOOSE w \in whole : \A other \in whole : w[1] <= other[1]
      inss == {x \in DOMAIN acc.inss : Carries(acc.inss[x]) = r.new}
      gone == FlattenSeq([i \in DOMAIN p |-> IF p[i].k = "gone" THEN p[i].text ELSE <<>>])
  IN  IF /\ acc.ok
         /\ \E x \in 0 .. Len(gone) - Len(old) : SubSeq(gone, x + 1, x + Len(old)) = old
         /\ \A w \in rows : OneMaker(acc.dels, w)
         /\ whole # {}
         /\ \A w \in whole : MadeBy(acc.dels[w[1]], r)
         /\ inss # {} /\ MadeBy(acc.inss[Min(inss)], r)
         /\ \E i \in DOMAIN p : p[i].k = "run" /\ p[i].text = r.new
      THEN [ok |-> TRUE,
            dels |-> SubSeq(acc.dels, 1, row[1] - 1)
                       \o SubSeq(acc.dels, row[2] + 1, Len(acc.dels)),
            inss |-> RemoveAt(acc.inss, Min(inss))]
      ELSE Failed

TrackedParagraph(n, p) ==
  LET dels(doc) == Elements(doc, "del")
      inss(doc) == Elements(doc, "ins")
      claims == SelectSeq(Of(n), Tracked)
      start == [ok |-> TRUE, dels |-> NewOnes(dels(template[n]), dels(p)),
                inss |-> NewOnes(inss(template[n]), inss(p))]
      left == FoldLeft(LAMBDA acc, r : Claim(acc, p, r, Old(template[n], r)), start, claims)
  IN  /\ PriorsStand(dels(template[n]), dels(p)) /\ PriorsStand(inss(template[n]), inss(p))
      /\ left.ok /\ left.dels = <<>> /\ left.inss = <<>>

-----------------------------------------------------------------------------
(* Runs a plan names: counted in letters of the XML, where an entity is     *)
(* five, over all runs with text.                                           *)

Raw(p, i) == Len(p[i].text) + 4 * Len(SelectSeq(p[i].text, LAMBDA c : c \in Escaped))
RawOffset(p, i) == FoldLeft(LAMBDA x, y : x + y, 0,
  [j \in 1 .. i - 1 |-> IF j \in Leaves(p) THEN Raw(p, j) ELSE 0])
Covered(p, q) == {i \in Leaves(p) : /\ p[i].text # <<>>
                                    /\ RawOffset(p, i) < q.to
                                    /\ q.from < RawOffset(p, i) + Raw(p, i)}

\* The run whose properties a scan from a run's opening tag finds first: its
\* own, or those of the next run that has some.
Props(doc, n, i) ==
  LET with(m) == {x \in Leaves(doc[m]) : doc[m][x].fmt # Bare}
      here == {x \in with(n) : x >= i}
      later == {m \in n + 1 .. Len(doc) : with(m) # {}}
  IN  IF here # {} THEN <<n, Min(here)>>
      ELSE IF later # {} THEN <<Min(later), Min(with(Min(later)))>> ELSE <<n, 0>>
PropsOf(doc, n, i) ==
  LET at == Props(doc, n, i) IN IF at[2] = 0 THEN Bare ELSE doc[at[1]][at[2]].fmt

\* The part with every record applied, computed from the template again.
DraftParts == [n \in DOMAIN template |-> Draft(n)]

\* format-plan-applied: one run of the file for each planned one, with its properties.
Applied(q) ==
  LET mine == Covered(output[q.para], q)
      was == Covered(Draft(q.para), q)
  IN  /\ Cardinality(mine) = 1
      /\ IF q.style = Own
         THEN /\ q.para \in DOMAIN template /\ Cardinality(was) = 1
              /\ PropsOf(output, q.para, Min(mine)) = PropsOf(DraftParts, q.para, Min(was))
         ELSE PropsOf(output, q.para, Min(mine)) = q.style

\* edited-part-exact: computed again without the records' build, compared
\* without the runs the plan names.
Stripped(doc) ==
  [n \in DOMAIN doc |->
    Without(doc[n], UNION {Covered(doc[n], q) : q \in {x \in plan : x.para = n}})]
Recomputed == Spliced(DraftParts)
Exact ==
  IF HasTracked
  THEN inserted = 0 /\ \A n \in DOMAIN template :
         (\E r \in ToSet(Of(n)) : Tracked(r)) => TrackedParagraph(n, output[n])
  ELSE Stripped(Recomputed) = Stripped(output)

\* protected-structure-preserved, paragraph by paragraph.
Protected(p) == SelectSeq(p, LAMBDA x : x.k \in {"mark", "link", "opaque"})
Kept(p, q) == Protected(p) = Protected(q)

\* non-target-preserved: the paragraphs with a record or a planned run excepted.
TargetsAll == DOMAIN template   \* mutant: an edit excuses every paragraph
Targets ==
  {records[k].para : k \in DOMAIN records}
    \union {Props(template, q.para, i)[1] :
              <<q, i>> \in {x \in plan \X (1 .. 20) : /\ x[1].para \in DOMAIN template
                                                      /\ x[2] \in Covered(template[x[1].para], x[1])}}
Baseline == IF inserted = 0 THEN template ELSE Recomputed

WellFormed(p) ==
  FoldLeft(LAMBDA open, x :
             IF x.k \in {"ins", "del", "link"} THEN <<x.k>> \o open
             ELSE IF x.k # "end" THEN open
             ELSE IF open # <<>> /\ open[1] = x.of THEN Tail(open) ELSE <<"broken">> \o open,
           <<>>, p) = <<>>

\* A paragraph of the template that is no target is the template's, byte by byte.
\* (Beside a new paragraph the two sides are told apart by Exact alone.)
Untouched(n) == (inserted = 0 /\ n \notin Targets) => output[n] = template[n]
\* A session without edits delivers the template.
Identical == output = template

\* The verdict on a file, for sessions that do not format beside a new paragraph.
Unedited == records = <<>> /\ inserted = 0 /\ plan = {}
Verified ==
  /\ output # <<>>
  /\ \A n \in DOMAIN output : WellFormed(output[n])
  /\ IF Unedited THEN Identical
     ELSE /\ Len(output) = Len(Baseline)
          /\ Exact
          /\ \A q \in plan : Applied(q)
          /\ \A n \in DOMAIN output :
               /\ Kept(Baseline[n], output[n])
               /\ Untouched(n)
          /\ output # template
Plain == inserted = 0 \/ plan = {}

-----------------------------------------------------------------------------
(* What a genuine build is, and the ones the verifier is known to refuse.   *)

Writable(doc) == Plannable(doc, requests) /\ Materializable(doc, requests)
Genuine ==
  LET doc == DraftPackage
  IN  /\ Writable(doc) /\ plan = PlanOf(doc, requests)
      /\ output = Formatted(doc, requests) /\ output # template

\* A record rewrites a run of an insertion of the template.
InsideAnInsertion ==
  \E k \in DOMAIN records :
    LET p == template[records[k].para]
    IN  /\ \E i \in Touched(p, records[k]) : Around(p, i, {"ins"}) # {}
        /\ \E r \in ToSet(Of(records[k].para)) : Tracked(r)
\* Two makers bring the same text, or lose texts that begin alike.
MakersMix ==
  \E k, l \in DOMAIN records :
    LET old(x) == Old(template[records[x].para], records[x])
    IN  /\ records[k].para = records[l].para
        /\ Tracked(records[k]) /\ Tracked(records[l]) /\ records[k].by # records[l].by
        /\ records[k].new = records[l].new \/ old(k)[1] = old(l)[1]
\* A planned paragraph has a run without properties, or a letter spelled as an entity.
PlannedUnseen ==
  \E n \in Planned : \E i \in Leaves(DraftPackage[n]) :
    \/ DraftPackage[n][i].fmt = Bare
    \/ ToSet(DraftPackage[n][i].text) \intersect Escaped # {}
Refused == \/ HasTracked /\ inserted # 0
           \/ InsideAnInsertion \/ MakersMix \/ PlannedUnseen

-----------------------------------------------------------------------------
(* Revisions counted by what they are, not by a scan.                       *)

Element(p, j) == SubSeq(p, j, Partner(p, j))
Brought(p, by, text) ==
  Cardinality({j \in DOMAIN p : /\ p[j].k = "ins" /\ p[j].by = by
                                /\ Carries(Element(p, j)) = text})
Lost(p, by, c) ==
  Cardinality({x \in (DOMAIN p) \X (1 .. 9) :
    /\ p[x[1]].k = "gone" /\ x[2] \in DOMAIN p[x[1]].text /\ p[x[1]].text[x[2]] = c
    /\ \E j \in Around(p, x[1], {"del"}) : p[j].by = by})
Asks(n, by, want(_)) == SelectSeq(Of(n), LAMBDA r : Stamp(r) = by /\ Tracked(r) /\ want(r))
AllMakers(p) == {p[j].by : j \in Revisions(p)}

\* Letters with no revision of this session: its insertions out, its deletions in.
IsOwn(x) == x.k \in {"ins", "del"} /\ x.by[2] = round /\ x.by[1] \in Makers
Rejected(p) ==
  Letters(p, LAMBDA i :
    /\ \A j \in Around(p, i, {"ins"}) : ~IsOwn(p[j])
    /\ \A j \in Around(p, i, {"del"}) : IsOwn(p[j]))
\* Everything but runs and the revisions of this session, in order.
Frame(p) ==
  LET drop == UNION {{j, Partner(p, j)} : j \in {x \in DOMAIN p : IsOwn(p[x])}} \union Leaves(p)
  IN  Without(p, drop)

-----------------------------------------------------------------------------
(* Properties. *)

\* Every genuine build passes, but for the kinds named above: the build and the
\* verifier find the same revisions, the same runs and the same paragraphs,
\* although neither asks the other and the template may hold revisions of
\* earlier rounds (verify_edited against apply_build and apply_format_plan).
GenuinePasses == (Genuine /\ Plain /\ ~Refused) => Verified

\* Accepting the changes of a build gives the draft, letter by letter and format
\* by format; rejecting this session's gives back the template; anchors, links,
\* locked content and earlier revisions stay where they are in the order
\* (tracked_span_replacement, apply_edits).
ViewsOfTheBuild ==
  \A n \in DOMAIN template :
    /\ Visible(Edited(n)) = Visible(Draft(n))
    /\ (\A r \in ToSet(Of(n)) : Tracked(r)) => Rejected(Edited(n)) = Visible(template[n])
    /\ Frame(Edited(n)) = Frame(template[n])

\* A format request changes the style of the letters it names and nothing else:
\* each letter keeps its place, and carries the style last asked for or the one
\* it had (plan and materialize).
FormatReachesItsCharacters ==
  LET doc == DraftPackage
      built == Formatted(doc, requests)
  IN  Writable(doc) =>
        \A n \in Asked(requests) :
          LET draft == Letters(doc[n], LAMBDA i : TRUE)
              style(c) == StyleAt(requests, n, c - 1)
          IN  /\ Letters(built[n], LAMBDA i : TRUE) =
                   [c \in DOMAIN draft |->
                     <<draft[c][1], IF style(c) = Own THEN draft[c][2] ELSE style(c)>>]
              /\ Frame(built[n]) = Frame(doc[n])

\* In a file that passes, a paragraph with tracked records holds the revisions of
\* the template and those the records ask for, by the makers they name, and no
\* other - whoever changed the file after the build (verify_tracked_paragraph).
PassedRevisionsAreRecorded ==
  (Verified /\ Plain) =>
    \A n \in DOMAIN template :
      (\E r \in ToSet(Of(n)) : Tracked(r)) =>
        LET p == output[n]
            t == template[n]
            makers == AllMakers(p) \union AllMakers(t) \union {Stamp(r) : r \in ToSet(Of(n))}
        IN  \A by \in makers :
              /\ \A text \in {Carries(Element(p, j)) : j \in {x \in DOMAIN p : p[x].k = "ins"}}
                               \union {r.new : r \in ToSet(Of(n))} :
                   Brought(p, by, text) =
                     Brought(t, by, text) + Len(Asks(n, by, LAMBDA r : r.new = text))
              /\ \A c \in ToSet(Text(p)) \union ToSet(Text(t)) :
                   Lost(p, by, c) = Lost(t, by, c) +
                     Len(SelectSeq(FlattenSeq([k \in DOMAIN Asks(n, by, LAMBDA r : TRUE) |->
                                     Old(t, Asks(n, by, LAMBDA r : TRUE)[k])]),
                                   LAMBDA x : x = c))

\* A file that passes differs from the template only where the session edits: the
\* other paragraphs are the template's, and without tracked records and planned
\* runs every paragraph is the one the records give.  The scan for a run's
\* properties must not leave the planned paragraph (check_non_target_preserved,
\* recompute_edited_part).
PassedOutsideTheEdits ==
  (Verified /\ Plain /\ ~PlannedUnseen) =>
    /\ \A n \in DOMAIN output :
         (inserted = 0 /\ Of(n) = <<>> /\ n \notin Planned) => output[n] = template[n]
    /\ (~HasTracked /\ plan = {}) => output = Recomputed
    /\ \A n \in DOMAIN output :
         Protected(output[n]) = Protected(Baseline[n])

-----------------------------------------------------------------------------
(* What the documents and comments say, and the code does not keep.         *)

\* verify/src/lib.rs:58 and ADR 0037: a build that did what it was asked passes.
GenuineAlwaysPasses == Genuine => Verified
\* ADR 0037, the acceptance gate on the final text: what passes reads as the draft.
PassedReadsAsTheDraft ==
  (Verified /\ Plain) =>
    \A n \in DOMAIN output :
      LET text(p) == [x \in DOMAIN Visible(p) |-> Visible(p)[x][1]]
      IN  text(output[n]) = text(DraftPackage[n])
\* prose.rs:1702: a run that is replaced keeps what it has besides its text.
TabsKept ==
  \A n \in DOMAIN template :
    LET tabs(p) == Cardinality({i \in Leaves(p) : p[i].tab})
    IN  tabs(Edited(n)) = tabs(template[n])
\* format_lane.rs:7: an id names one paragraph, for the plan, the build and the
\* verification.
PlanNamesTheDraft ==
  inserted # 0 => \A q \in plan : DraftPackage[q.para] = ApplyEdits[q.para]
\* ADR 0037: a revision takes an id no other has.
RevisionIdsFree ==
  \A n, m \in DOMAIN ApplyEdits : \A i \in Revisions(Edited(n)), j \in Revisions(Edited(m)) :
    Edited(n)[i].id = Edited(m)[j].id => n = m /\ i = j
\* format_lane.rs:53: what a selector skips has the style already.
SkippedHasTheStyle ==
  LET doc == DraftPackage
      built == Formatted(doc, requests)
  IN  \A n \in DOMAIN doc : \A x \in Spans(doc[n]), style \in Styles :
        (Plannable(doc, requests) /\ AlreadyHolds(doc[n], x[1], x[2], style)) =>
          \A c \in x[1] + 1 .. x[2] : Letters(built[n], LAMBDA i : TRUE)[c][2] = style
\* app/src/lib.rs:2970: a recorded request does not make a document undeliverable.
RequestsStayWritable == Writable(DraftPackage)

=============================================================================
