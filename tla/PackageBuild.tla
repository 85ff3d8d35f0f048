---------------------------- MODULE PackageBuild ----------------------------
(***************************************************************************)
(* The document a build writes.  A build puts the committed text records   *)
(* into the template's XML (direct ones in place, tracked ones as a        *)
(* deletion and an insertion), adds a new paragraph, and lets the format   *)
(* engine plan and write the requested styles.  The file may be changed by *)
(* another program, and may be handed to the next reviewer, whose template *)
(* it becomes.  PackageVerify is the verifier that reads it on its own.    *)
(*                                                                         *)
(* A paragraph is its sequence of XML pieces: runs, the runs of a deletion,*)
(* the opening and closing tags of revisions and hyperlinks, anchors, and  *)
(* content that is locked.  A text is a sequence of letters.  Which runs a *)
(* record's old text is in is the matter of LeafEdits; here a record names *)
(* its span in the text of all runs of the template's paragraph.           *)
(***************************************************************************)
EXTENDS Integers, Sequences, FiniteSets, FiniteSetsExt, SequencesExt

CONSTANTS
  Templates,    \* the main story of documents: sequences of paragraphs
  NewTexts,     \* replacement texts
  Makers,       \* who tracks changes; No one makes a direct edit
  Styles,       \* the styles of styles.json, each with run properties
  Wide,         \* letters of several bytes
  Readable,     \* whether the zip file may hold its XML uncompressed
  MaxEdits,     \* bound: records, new paragraphs and format requests
  MaxRounds,    \* bound: times the document is handed on
  MaxTampers    \* bound: changes of the file by another program

NoOne == "no one"
Bare == "bare"      \* the format of a run without run properties
Own == "own"        \* in a plan: the properties of the run it came from

ASSUME BuildAssumption ==
  /\ NoOne \notin Makers /\ Readable \subseteq BOOLEAN
  /\ {Bare, Own} \intersect Styles = {}
  /\ {MaxEdits, MaxRounds, MaxTampers} \subseteq Nat

VARIABLES
  template,     \* the paragraphs of _template.docx
  stored,       \* whether its XML is readable in the bytes of the zip file
  records,      \* islands.json
  inserted,     \* structure.json: the number of the new paragraph, or 0
  requests,     \* format_intents.json
  plan,         \* format_plan.json, a set of planned runs
  output,       \* the file delivered, or no paragraphs
  edits,        \* history: edits made
  tampers,      \* history: changes by another program
  round         \* history: times handed on

session == <<records, inserted, requests, plan>>
vars == <<template, stored, session, output, edits, tampers, round>>

-----------------------------------------------------------------------------
(* Pieces of a paragraph. *)

Run(text, fmt) == [k |-> "run", text |-> text, fmt |-> fmt, tab |-> FALSE]
Gone(text, fmt) == [k |-> "gone", text |-> text, fmt |-> fmt, tab |-> FALSE]
Open(kind, id, by) == [k |-> kind, id |-> id, by |-> by]
Close(kind) == [k |-> "end", of |-> kind]

Leaves(p) == {i \in DOMAIN p : p[i].k \in {"run", "gone"}}
Text(p) == FlattenSeq([i \in DOMAIN p |-> IF i \in Leaves(p) THEN p[i].text ELSE <<>>])
Offset(p, i) == Len(Text(SubSeq(p, 1, i - 1)))

\* The tag that closes a tag, and the elements a piece is in.
Partner(p, j) ==
  LET deeper(c) == Cardinality({x \in j .. c : p[x].k = p[j].k})
      closed(c) == Cardinality({x \in j .. c : p[x].k = "end" /\ p[x].of = p[j].k})
  IN  Min({c \in j .. Len(p) : deeper(c) = closed(c)} \union {Len(p) + 1})
Around(p, i, kinds) == {j \in 1 .. i - 1 : p[j].k \in kinds /\ Partner(p, j) > i}
Shown(p, i) == p[i].k = "run" /\ Around(p, i, {"del"}) = {}

\* The letters of some runs, each with its format.
Letters(p, want(_)) ==
  FlattenSeq([i \in DOMAIN p |->
    IF i \in Leaves(p) /\ want(i)
    THEN [n \in DOMAIN p[i].text |-> <<p[i].text[n], p[i].fmt>>] ELSE <<>>])
Visible(p) == Letters(p, LAMBDA i : Shown(p, i))

-----------------------------------------------------------------------------
(* The text records. *)

Tracked(r) == r.by # NoOne
Stamp(r) == <<r.by, round>>
Touched(p, r) == {i \in Leaves(p) : /\ Offset(p, i) < r.to
                                    /\ r.from < Offset(p, i) + Len(p[i].text)}
Prefix(p, r, i) == SubSeq(p[i].text, 1, r.from - Offset(p, i))
Body(p, r, i) == SubSeq(p[i].text, Max({r.from - Offset(p, i), 0}) + 1,
                        Min({r.to - Offset(p, i), Len(p[i].text)}))
Suffix(p, r, i) == SubSeq(p[i].text, r.to - Offset(p, i) + 1, Len(p[i].text))
Old(p, r) == SubSeq(Text(p), r.from + 1, r.to)

\* validate_edit: every covered run is editable, and holds its share once.  One
\* locked piece locks the paragraph.
Valid(p, r) ==
  /\ \A i \in DOMAIN p : p[i].k # "opaque"
  /\ \A i \in Touched(p, r) :
       /\ p[i].k = "run"
       /\ Cardinality({n \in DOMAIN p[i].text :
            /\ n + Len(Body(p, r, i)) - 1 <= Len(p[i].text)
            /\ SubSeq(p[i].text, n, n + Len(Body(p, r, i)) - 1) = Body(p, r, i)}) = 1

\* A direct record puts its new text into the first run it covers.
InPlace(p, r, i) ==
  <<[p[i] EXCEPT !.text = Prefix(p, r, i)
       \o (IF i = Min(Touched(p, r)) THEN r.new ELSE <<>>) \o Suffix(p, r, i)]>>

\* tracked_span_replacement: every covered run is written anew where it stands,
\* with its text alone.
AsRevisionEach(p, r, i, id) ==   \* mutant: every covered run brings the new text
  LET plain(text) == IF text = <<>> THEN <<>> ELSE <<Run(text, p[i].fmt)>>
  IN  plain(Prefix(p, r, i))
        \o <<Open("del", id, Stamp(r)), Gone(Body(p, r, i), p[i].fmt), Close("del")>>
        \o <<Open("ins", id + 1, Stamp(r)), Run(r.new, p[i].fmt), Close("ins")>>
        \o plain(Suffix(p, r, i))
AsRevision(p, r, i, id) ==
  LET plain(text) == IF text = <<>> THEN <<>> ELSE <<Run(text, p[i].fmt)>>
      first == Min(Touched(p, r))
  IN  plain(Prefix(p, r, i))
        \o <<Open("del", id, Stamp(r)), Gone(Body(p, r, i), p[i].fmt), Close("del")>>
        \o (IF i = Max(Touched(p, r))
            THEN <<Open("ins", id + 1, Stamp(r)), Run(r.new, p[first].fmt), Close("ins")>>
            ELSE <<>>)
        \o plain(Suffix(p, r, i))

\* max_revision_id reads the bytes of the file, where a compressed part shows no
\* ids; every tracked record takes two.
Revisions(p) == {i \in DOMAIN p : p[i].k \in {"ins", "del"}}
Ids(doc) == UNION {{doc[n][i].id : i \in Revisions(doc[n])} : n \in DOMAIN doc}
IdOf(k) ==
  1 + Max({0} \union IF stored THEN Ids(template) ELSE {})
    + 2 * Cardinality({l \in 1 .. k - 1 : Tracked(records[l])})

Covering(n, i) ==
  {k \in DOMAIN records : records[k].para = n /\ i \in Touched(template[n], records[k])}
Rewritten(n, write(_, _, _)) ==
  FlattenSeq([i \in DOMAIN template[n] |->
    IF Covering(n, i) = {} THEN <<template[n][i]>>
    ELSE write(template[n], Min(Covering(n, i)), i)])
Edited(n) ==
  Rewritten(n, LAMBDA p, k, i :
    IF Tracked(records[k]) THEN AsRevision(p, records[k], i, IdOf(k))
    ELSE InPlace(p, records[k], i))
\* What the draft shows: every record in place.
Draft(n) == Rewritten(n, LAMBDA p, k, i : InPlace(p, records[k], i))
ApplyEdits == [n \in DOMAIN template |-> Edited(n)]

-----------------------------------------------------------------------------
(* The structure, and the package the format engine plans on. *)

NewParagraph == <<Run(<<1>>, Bare)>>
Spliced(doc) ==
  IF inserted = 0 THEN doc
  ELSE SubSeq(doc, 1, inserted - 1) \o <<NewParagraph>> \o SubSeq(doc, inserted, Len(doc))
DraftPackage == Spliced(ApplyEdits)

-----------------------------------------------------------------------------
(* The format lane.  A request names its paragraph by the id of the draft,  *)
(* which the engine reads as the number of a paragraph of the package.      *)

Asked(reqs) == {reqs[k].para : k \in DOMAIN reqs}
Over(a, b) == a.from < b.to /\ b.from < a.to
Plannable(doc, reqs) ==
  /\ \A k \in DOMAIN reqs :
       LET p == doc[reqs[k].para]
       IN  /\ Leaves(p) # {}
           /\ \A i \in Leaves(p) : Shown(p, i)
           /\ reqs[k].from < reqs[k].to /\ reqs[k].to <= Len(Text(p))
  /\ \A k, l \in DOMAIN reqs :
       (reqs[k].para = reqs[l].para /\ Over(reqs[k], reqs[l])) => reqs[k].style = reqs[l].style

StyleAt(reqs, n, c) ==
  LET here == {k \in DOMAIN reqs : /\ reqs[k].para = n
                                   /\ reqs[k].from <= c /\ c < reqs[k].to}
  IN  IF here = {} THEN Own ELSE reqs[Min(here)].style

\* The runs the engine cuts one run into: a stretch of one style each.
StartsAtStyles(reqs, n, from, to) ==   \* mutant: what follows a styled stretch takes its style
  SelectSeq([c \in 1 .. to - from |-> from + c - 1],
            LAMBDA c : c = from \/ (StyleAt(reqs, n, c - 1) = Own /\ StyleAt(reqs, n, c) # Own))
Starts(reqs, n, from, to) ==
  SelectSeq([c \in 1 .. to - from |-> from + c - 1],
            LAMBDA c : c = from \/ StyleAt(reqs, n, c - 1) # StyleAt(reqs, n, c))
Pieces(doc, reqs, n, i) ==
  LET from == Offset(doc[n], i)
      to == from + Len(doc[n][i].text)
      starts == Starts(reqs, n, from, to)
  IN  [x \in DOMAIN starts |->
        [para |-> n, from |-> starts[x], style |-> StyleAt(reqs, n, starts[x]),
         to |-> IF x < Len(starts) THEN starts[x + 1] ELSE to]]
PlanOf(doc, reqs) ==
  UNION {UNION {ToSet(Pieces(doc, reqs, n, i)) : i \in Leaves(doc[n])} : n \in Asked(reqs)}

\* The engine is handed the bytes from the first run with text on, and counts
\* the elements opened since: only a run in two of them is nested.
Nested(p, i) ==
  FoldLeft(LAMBDA d, x : IF x.k \in {"ins", "link"} THEN d + 1
                         ELSE IF x.k = "end" THEN Max({d - 1, 0}) ELSE d,
           0, SubSeq(p, Min(Leaves(p)), i - 1)) > 1

\* Materialize refuses a run without letters, a nested run that would be
\* restyled, and to rewrite a run with more than text.
Materializable(doc, reqs) ==
  \A n \in Asked(reqs) : \A i \in Leaves(doc[n]) :
    /\ doc[n][i].text # <<>>
    /\ (\E x \in ToSet(Pieces(doc, reqs, n, i)) : x.style # Own)
         => ~Nested(doc[n], i) /\ ~doc[n][i].tab

Restyled(run, at, pieces) ==
  IF \A x \in DOMAIN pieces : pieces[x].style = Own THEN <<run>>
  ELSE [x \in DOMAIN pieces |->
         Run(SubSeq(run.text, pieces[x].from - at + 1, pieces[x].to - at),
             IF pieces[x].style = Own THEN run.fmt ELSE pieces[x].style)]
Formatted(doc, reqs) ==
  [n \in DOMAIN doc |->
    IF n \notin Asked(reqs) THEN doc[n]
    ELSE FlattenSeq([i \in DOMAIN doc[n] |->
           IF i \notin Leaves(doc[n]) THEN <<doc[n][i]>>
           ELSE Restyled(doc[n][i], Offset(doc[n], i), Pieces(doc, reqs, n, i))])]

-----------------------------------------------------------------------------
Init ==
  /\ template \in Templates
  /\ stored \in Readable
  /\ records = <<>> /\ inserted = 0 /\ requests = <<>> /\ plan = {}
  /\ output = <<>> /\ edits = 0 /\ tampers = 0 /\ round = 0

\* A commit leaves one more record; those of a paragraph stand in text order.
Record(n, from, to, new, by) ==
  LET p == template[n]
      r == [para |-> n, from |-> from, to |-> to, new |-> new, by |-> by]
      before(s) == s.para < n \/ (s.para = n /\ s.from < from)
  IN  /\ edits < MaxEdits
      /\ Valid(p, r) /\ new # Old(p, r)
      /\ \A k \in DOMAIN records :
           records[k].para = n => Touched(p, records[k]) \intersect Touched(p, r) = {}
      /\ records' = SelectSeq(records, before) \o <<r>>
                      \o SelectSeq(records, LAMBDA s : ~before(s))
      /\ edits' = edits + 1
      /\ UNCHANGED <<template, stored, inserted, requests, plan, output, tampers, round>>

InsertParagraph(n) ==
  /\ inserted = 0 /\ edits < MaxEdits
  /\ inserted' = n /\ edits' = edits + 1
  /\ UNCHANGED <<template, stored, records, requests, plan, output, tampers, round>>

\* record_format_request: a request for the same letters replaces the earlier one,
\* and the plan is derived again from all of them.
Request(q) ==
  LET same == {k \in DOMAIN requests : /\ requests[k].para = q.para
                                       /\ requests[k].from = q.from /\ requests[k].to = q.to}
      reqs == IF same = {} THEN Append(requests, q)
              ELSE [requests EXCEPT ![Min(same)] = q]
  IN  /\ edits < MaxEdits
      /\ Plannable(DraftPackage, reqs)
      /\ requests' = reqs /\ plan' = PlanOf(DraftPackage, reqs) /\ edits' = edits + 1
      /\ UNCHANGED <<template, stored, records, inserted, output, tampers, round>>

\* What a selector skips as done: every covered run of the draft has the style,
\* where a run without properties is taken for the one before it.
KnownFormat(p, i) ==
  LET with == {j \in Leaves(p) : j <= i /\ p[j].fmt # Bare}
  IN  IF with = {} THEN Bare ELSE p[Max(with)].fmt
AlreadyHolds(p, from, to, style) ==
  LET covered == {i \in Leaves(p) : /\ p[i].text # <<>> /\ Offset(p, i) < to
                                    /\ from < Offset(p, i) + Len(p[i].text)}
  IN  covered # {} /\ \A i \in covered : KnownFormat(p, i) = style

\* document_edit finds the letters in the draft; a request of a selector that is
\* AlreadyHolds is dropped, which changes nothing.
Format(n, from, to, style) ==
  Request([para |-> n, from |-> from, to |-> to, style |-> style])

\* format_span finds them in the template: the start in bytes, the length in letters.
Bytes(text) == Len(text) + 2 * Len(SelectSeq(text, LAMBDA c : c \in Wide))
FormatSpan(n, from, to, style) ==
  LET p == template[n]
      text == IF \E i \in DOMAIN p : p[i].k = "opaque" THEN <<>>
              ELSE FlattenSeq([i \in DOMAIN p |-> IF p[i].k = "run" THEN p[i].text ELSE <<>>])
      old == SubSeq(text, from + 1, to)
      start == Bytes(SubSeq(text, 1, from))
  IN  /\ to <= Len(text)
      /\ \A x \in 0 .. Len(text) - Len(old) : SubSeq(text, x + 1, x + Len(old)) = old => x = from
      /\ start < Len(text)
      /\ Request([para |-> n, from |-> start, to |-> start + Len(old), style |-> style])

\* A build derives the plan again and keeps it, even if it cannot be written.
Build ==
  LET doc == DraftPackage
  IN  /\ Plannable(doc, requests)
      /\ plan' = PlanOf(doc, requests)
      /\ IF Materializable(doc, requests)
         THEN output' = Formatted(doc, requests) /\ tampers' = 0
         ELSE UNCHANGED <<output, tampers>>
      /\ UNCHANGED <<template, stored, records, inserted, requests, edits, round>>

-----------------------------------------------------------------------------
(* What other programs do to the file: remove, copy or unwrap a piece, or   *)
(* change one - its letters, its format, its maker, its target.             *)

Part(p, i) == IF p[i].k \in {"ins", "del", "link"} THEN i .. Partner(p, i) ELSE {i}
Without(p, gone) == SelectSeq([i \in DOMAIN p |-> IF i \in gone THEN Close("cut") ELSE p[i]],
                              LAMBDA x : x # Close("cut"))
Changed(x) ==
  IF x.k \in {"run", "gone"}
  THEN {[x EXCEPT !.text = SubSeq(@, 2, Len(@))], [x EXCEPT !.fmt = Bare]}
  ELSE IF x.k \in {"ins", "del"} THEN {[x EXCEPT !.by = <<"word", 0>>]}
  ELSE IF x.k = "end" THEN {} ELSE {[x EXCEPT !.id = @ + 1]}
Tamperings(p) ==
  UNION {IF p[i].k = "end" THEN {} ELSE
           {Without(p, Part(p, i)), Without(p, {i, Partner(p, i)})}
             \union {SubSeq(p, 1, i) \o SubSeq(p, i, Len(p))}
             \union {[p EXCEPT ![i] = x] : x \in Changed(p[i])}
         : i \in DOMAIN p}
Tamper(n) ==
  /\ tampers < MaxTampers
  /\ \E p \in Tamperings(output[n]) \ {output[n]} : output' = [output EXCEPT ![n] = p]
  /\ tampers' = tampers + 1
  /\ UNCHANGED <<template, stored, session, edits, round>>

\* The next reviewer extracts the file into a workdir of its own.
Handoff ==
  /\ output # <<>> /\ tampers = 0 /\ round < MaxRounds
  /\ template' = output /\ round' = round + 1
  /\ records' = <<>> /\ inserted' = 0 /\ requests' = <<>> /\ plan' = {}
  /\ output' = <<>>
  /\ UNCHANGED <<stored, edits, tampers>>

Spans(p) == {x \in (0 .. Len(Text(p))) \X (0 .. Len(Text(p))) : x[1] < x[2]}
Next ==
  \/ \E n \in DOMAIN template : edits < MaxEdits /\ \E x \in Spans(template[n]) :
       \/ \E new \in NewTexts, by \in Makers \union {NoOne} : Record(n, x[1], x[2], new, by)
       \/ \E s \in Styles : FormatSpan(n, x[1], x[2], s)
  \/ \E n \in DOMAIN template : edits < MaxEdits /\ \E x \in Spans(DraftPackage[n]), s \in Styles :
       Format(n, x[1], x[2], s)
  \/ \E n \in DOMAIN template : InsertParagraph(n)
  \/ Build
  \/ \E n \in DOMAIN output : Tamper(n)
  \/ Handoff
Spec == Init /\ [][Next]_vars

=============================================================================
