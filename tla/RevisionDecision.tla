-------------------------- MODULE RevisionDecision --------------------------
(***************************************************************************)
(* Decisions on tracked revisions.  A reader lists the revisions of        *)
(* `word/document.xml` and is given a key for each (part, kind, w:id,      *)
(* fingerprint of its text); later it asks for a key to be accepted,       *)
(* rejected or reinserted.  The decision is a piece of byte surgery on the *)
(* `_template.docx` of the current generation; the key is all that ties it *)
(* to what the reader saw.                                                 *)
(*                                                                         *)
(* The part is a sequence of tokens: the opening and closing tag of each   *)
(* revision element, the text elements, self-closing revisions (the mark   *)
(* of a paragraph) and opaque nodes.  `n` tells two elements apart for the *)
(* properties; the program has only the w:id.                              *)
(***************************************************************************)
EXTENDS Integers, Sequences, FiniteSets, SequencesExt

CONSTANTS
  Start,         \* the packages a workdir may be extracted from: document.xml, and what
                 \* the w:ids of the revisions in other parts are
  MaxDecisions   \* bound: decisions carried out

ASSUME BoundAssumption == MaxDecisions \in Nat

VARIABLES
  others,        \* the w:ids of revisions in other parts
  doc,           \* the tokens of document.xml in the current generation
  known,         \* the keys readers have been given, with the element each was for
  decisions,     \* decisions.json: the last decision, with the element it took
  made           \* decisions carried out

vars == <<others, doc, known, decisions, made>>

Insertions == {"insert", "move_to"}
Deletions == {"delete", "move_from"}
Actions == {"accept", "reject", "reinsert"}
None == [action |-> "none"]
Sayings == {<<>>, <<"said">>}

-----------------------------------------------------------------------------
(* The document. *)

At(d, tags) == {i \in DOMAIN d : d[i].tag \in tags}
Revisions(d) == {d[i].rev : i \in At(d, {"open", "mark"})}
Elements(d) == {d[i].rev : i \in At(d, {"open"})}
Opening(d, r) == CHOOSE i \in At(d, {"open"}) : d[i].rev = r
Closing(d, r) == CHOOSE i \in At(d, {"close"}) : d[i].rev = r
Range_(d, r) == Opening(d, r) .. Closing(d, r)
Inside(d, s, r) == s # r /\ Opening(d, s) \in Range_(d, r)

\* A part of a package, as XML it was parsed from: every revision element is one
\* of its own, opens and closes in one paragraph, and lies within another or beside
\* it. A self-closing revision is no element.
Revision == [kind : Insertions \union Deletions, id : Nat, n : Seq(Nat) \ {<<>>}]
IsToken(t) ==
  /\ {"tag", "par"} \subseteq DOMAIN t
  /\ t.tag \in {"open", "close", "mark"} => "rev" \in DOMAIN t /\ t.rev \in Revision
  /\ t.tag = "text" => {"text", "form", "run"} \subseteq DOMAIN t
WellNested(d) ==
  /\ \A i, j \in At(d, {"open"}) : d[i].rev = d[j].rev => i = j
  /\ \A i, j \in At(d, {"close"}) : d[i].rev = d[j].rev => i = j
  /\ \A i \in At(d, {"open"}) : \E j \in At(d, {"close"}) :
       i < j /\ d[j].rev = d[i].rev /\ d[j].par = d[i].par
  /\ \A j \in At(d, {"close"}) : \E i \in At(d, {"open"}) : d[i].rev = d[j].rev
  /\ \A i, j \in At(d, {"open"}), x, y \in At(d, {"close"}) :
       d[i].rev = d[x].rev /\ d[j].rev = d[y].rev /\ i < j /\ j < x => y < x
  /\ \A i \in At(d, {"open"}), j \in At(d, {"mark"}) : d[i].rev # d[j].rev
WellFormed(d) ==
  /\ d \in Seq({d[i] : i \in DOMAIN d})
  /\ \A i \in DOMAIN d : IsToken(d[i])
  /\ WellNested(d)
ASSUME StartAssumption ==
  \A p \in Start : /\ WellFormed(p.doc) /\ \A r \in Revisions(p.doc) : r.n[1] < 100
                   /\ p.others \subseteq Nat /\ IsFiniteSet(p.others)

\* The tokens at a set of positions, in document order.
Pick(d, positions) ==
  FoldLeftDomain(LAMBDA kept, i : IF i \in positions THEN Append(kept, d[i]) ELSE kept, <<>>, d)
Words(tokens) == [k \in DOMAIN tokens |-> tokens[k].text]

\* A revision's own text: that of a revision nested in it is not part of it.
OwnText(d, r) ==
  Words(Pick(d, {i \in At(d, {"text"}) :
          i \in Range_(d, r) /\ ~\E s \in Elements(d) : Inside(d, s, r) /\ i \in Range_(d, s)}))

\* The text of a paragraph as it would read with every revision settled one way.
View(d, p, hidden) ==
  Words(Pick(d, {i \in At(d, {"text"}) :
          d[i].par = p /\ ~\E s \in Elements(d) : s.kind \in hidden /\ i \in Range_(d, s)}))

Paragraphs(d) == {d[i].par : i \in DOMAIN d}

\* A node the paragraph model does not know locks the whole paragraph.
Locked(d, p) == \E i \in At(d, {"opaque"}) : d[i].par = p

-----------------------------------------------------------------------------
(* The inventory. *)

TextOf(d, r) == IF r \in Elements(d) THEN OwnText(d, r) ELSE <<>>
Editable(d, r) == r \in Elements(d) /\ ~Locked(d, d[Opening(d, r)].par)
KeyOf(d, r) == [kind |-> r.kind, id |-> r.id, text |-> TextOf(d, r)]

-----------------------------------------------------------------------------
(* What one decision does. *)

\* The element a decision takes: the first to close, or the first mark, that
\* carries the id; it is given up when that one is not editable.
Hits(d, id) == {i \in At(d, {"close", "mark"}) : d[i].rev.id = id}
First(d, id) == d[Min(Hits(d, id))]
FoundAnywhere(d, id) ==   \* mutant: the paragraph of the element is not looked at
  Hits(d, id) # {} /\ First(d, id).tag = "close"
Found(d, id) ==
  /\ Hits(d, id) # {}
  /\ First(d, id).tag = "close"
  /\ ~Locked(d, First(d, id).par)
Target(d, id) == First(d, id).rev

Plain(token) == IF token.tag = "text" THEN [token EXCEPT !.form = "t"] ELSE token
UnwrappedFlat(d, r, rejecting) ==   \* mutant: the revisions inside are unwrapped as well
  SubSeq(d, 1, Opening(d, r) - 1)
    \o SelectSeq(SubSeq(d, Opening(d, r), Closing(d, r)), LAMBDA token : token.tag = "text")
    \o SubSeq(d, Closing(d, r) + 1, Len(d))
Unwrapped(d, r, rejecting) ==
  LET body == SubSeq(d, Opening(d, r) + 1, Closing(d, r) - 1)
  IN  SubSeq(d, 1, Opening(d, r) - 1)
        \o (IF rejecting THEN [k \in DOMAIN body |-> Plain(body[k])] ELSE body)
        \o SubSeq(d, Closing(d, r) + 1, Len(d))
Removed(d, r) ==
  SubSeq(d, 1, Opening(d, r) - 1) \o SubSeq(d, Closing(d, r) + 1, Len(d))
RemovesPlain(r, action) ==   \* mutant: moves are forgotten
  r.kind = IF action = "accept" THEN "delete" ELSE "insert"
Removes(r, action) == r.kind \in IF action = "accept" THEN Deletions ELSE Insertions
Settled(d, r, action) ==
  IF Removes(r, action) THEN Removed(d, r) ELSE Unwrapped(d, r, action = "reject")

\* The lowest id no revision of the package carries.
UsedHere(d) == {r.id : r \in Revisions(d)}   \* mutant: document.xml only
UsedIds(d) == others \union {r.id : r \in Revisions(d)}
NextId(d) == Min((0 .. Cardinality(UsedIds(d))) \ UsedIds(d))

\* What the loop over the deletion's tags writes: every element is copied when
\* it closes, so a run's text element comes out on its own, unconverted, and
\* then once more inside the run; a nested revision comes out once more whole.
Renamed(r, stamp, i) == [r EXCEPT !.n = <<stamp, i>> \o @]
Copied(d, i, stamp) ==
  CASE d[i].tag = "text" /\ d[i].run ->
         <<[d[i] EXCEPT !.run = FALSE], [d[i] EXCEPT !.form = "t"]>>
    [] d[i].tag = "text" /\ ~d[i].run -> <<d[i]>>
    [] d[i].tag = "close" ->
         LET raw == SubSeq(d, Opening(d, d[i].rev), i)
         IN  [k \in DOMAIN raw |->
               IF raw[k].tag \in {"open", "close"}
               THEN [raw[k] EXCEPT !.rev = Renamed(@, stamp, i)]
               ELSE raw[k]]
    [] OTHER -> <<>>
CopyOf(d, r, stamp) ==
  LET first == Opening(d, r)
      body == [k \in 1 .. Closing(d, r) - first - 1 |-> Copied(d, first + k, stamp)]
  IN  FlattenSeq(body)

\* The reader's own text (`said`) is used only for a deletion that has no runs.
Reinserted(d, r, stamp, said) ==
  LET par == d[Opening(d, r)].par
      new == [kind |-> "insert", id |-> NextId(d), n |-> <<stamp>>]
      copy == CopyOf(d, r, stamp)
      run(text) == [tag |-> "text", text |-> text, form |-> "t", run |-> TRUE, par |-> par]
  IN  SubSeq(d, 1, Closing(d, r))
        \o <<[tag |-> "open", rev |-> new, par |-> par]>>
        \o (IF copy = <<>> THEN [k \in DOMAIN said |-> run(said[k])] ELSE copy)
        \o <<[tag |-> "close", rev |-> new, par |-> par]>>
        \o SubSeq(d, Closing(d, r) + 1, Len(d))

Outcome(d, r, action, stamp, said) ==
  IF action = "reinsert" THEN Reinserted(d, r, stamp, said) ELSE Settled(d, r, action)

\* The guards on the key, against the live element.
Matches(d, r, key, action) ==
  /\ IF action = "reinsert" THEN r.kind \in Deletions ELSE r.kind = key.kind
  /\ OwnText(d, r) = key.text

\* The check of the settled package before it is written.
Verified(d, key, action) ==
  IF action = "reinsert"
  THEN \E r \in Revisions(d) : Editable(d, r) /\ r.kind = "insert" /\ r.id # key.id
  ELSE ~\E r \in Revisions(d) : Editable(d, r) /\ r.id = key.id

Carried(d, key, action, stamp, said) ==
  /\ Found(d, key.id)
  /\ Matches(d, Target(d, key.id), key, action)
  /\ Verified(Outcome(d, Target(d, key.id), action, stamp, said), key, action)

-----------------------------------------------------------------------------
(* The actions. *)

\* A reader lists the inventory and keeps the keys of the editable revisions.
List ==
  /\ known' = known \union {[key |-> KeyOf(doc, r), n |-> r.n] : r \in {s \in Revisions(doc) : Editable(doc, s)}}
  /\ known' # known
  /\ UNCHANGED <<others, doc, decisions, made>>

\* A decision with a key given out at some time.  What fails leaves no
\* generation, so only what is carried out changes anything.
Stamp == 100 + made
Decide(given, action, said) ==
  /\ made < MaxDecisions
  /\ Carried(doc, given.key, action, Stamp, said)
  /\ doc' = Outcome(doc, Target(doc, given.key.id), action, Stamp, said)
  /\ decisions' = [action |-> action, rev |-> Target(doc, given.key.id)]
  /\ made' = made + 1
  /\ UNCHANGED <<others, known>>

Init ==
  /\ \E p \in Start : doc = p.doc /\ others = p.others
  /\ known = {}
  /\ decisions = None
  /\ made = 0

Next ==
  \/ List
  \/ \E given \in known, action \in Actions, said \in Sayings : Decide(given, action, said)

Spec == Init /\ [][Next]_vars

-----------------------------------------------------------------------------
(* Properties. *)

\* The surgery leaves a document a parser accepts: every revision element opens
\* and closes once, in one paragraph, and lies within another or beside it, and a
\* revision a later decision makes is none there is.
TypeOK ==
  /\ WellFormed(doc) /\ \A r \in Revisions(doc) : r.n[1] < Stamp
  /\ made \in Nat /\ others \subseteq Nat /\ IsFiniteSet(others)

\* Accepting a revision leaves the text every paragraph has once everything is
\* accepted, and rejecting one the text it has once everything is rejected, so
\* that decisions taken one by one end where the view of the whole said
\* (`revision_views` against `settle_one_revision`).
ViewsKept ==
  [][made' # made /\ decisions'.action \in {"accept", "reject"} =>
       LET hidden == IF decisions'.action = "accept" THEN Deletions ELSE Insertions
       IN  \A p \in Paragraphs(doc) : View(doc', p, hidden) = View(doc, p, hidden)]_vars

\* A decision on one revision leaves the others as their keys describe them:
\* only one inside a removed revision goes with it, and only one around the
\* decided revision can come to own more text.
OthersKept ==
  [][made' # made /\ decisions'.action \in Actions =>
       LET r == decisions'.rev
           removed == decisions'.action # "reinsert" /\ Removes(r, decisions'.action)
       IN  \A s \in Elements(doc) \ {r} :
             ~(removed /\ Inside(doc, s, r)) =>
               /\ s \in Elements(doc')
               /\ Inside(doc, r, s) \/ OwnText(doc', s) = OwnText(doc, s)]_vars

\* While no two revisions of the package share a w:id, none come to share one,
\* unless a deletion is reinserted that has revisions in it: its copy carries
\* them along with their ids.
Distinct(d) ==
  /\ \A r, s \in Revisions(d) : r.id = s.id => r = s
  /\ \A r \in Revisions(d) : r.id \notin others
IdsStayUnique ==
  [][Distinct(doc) /\ ~Distinct(doc') /\ decisions'.action \in Actions =>
       /\ decisions'.action = "reinsert"
       /\ \E s \in Elements(doc) : Inside(doc, s, decisions'.rev)]_vars

\* Where ids are unique the inventory is honest: what it calls editable can be
\* accepted and rejected with the key it gives now, and what it locks cannot
\* (`scan_revisions_bytes` against `find_settleable_revision`, which walk the
\* part separately).
InventoryHonest ==
  Distinct(doc) =>
    \A r \in Revisions(doc), action \in {"accept", "reject"} :
      Editable(doc, r) <=> Carried(doc, KeyOf(doc, r), action, Stamp, <<>>)

\* The function's own account, "Clone the deletion's runs": the insertion a
\* reinsertion makes has the text of the deletion.
ReinsertsTheText ==
  [][made' # made /\ decisions'.action = "reinsert" /\ OwnText(doc, decisions'.rev) # <<>> =>
       \E s \in Elements(doc') \ Elements(doc) :
         s.kind = "insert" /\ OwnText(doc', s) = OwnText(doc, decisions'.rev)]_vars

=============================================================================
