-------------------------- MODULE DocumentSurface --------------------------
(***************************************************************************)
(* The surface an agent edits through: document_find hands out handles,    *)
(* document_edit takes a batch of edits addressed by handles or by a       *)
(* selector (a query the surface expands itself), applies it inside one    *)
(* store mutation, and answers.  Several sessions share one document; a    *)
(* reply can be lost, and a call is repeated under its operation id.       *)
(*                                                                         *)
(* A paragraph is one run of plain text.  Four characters are enough to    *)
(* tell the two passes of the search apart: "A" is "a" in upper case and   *)
(* "w" the full-width "a", which only the second pass takes for one.       *)
(***************************************************************************)
EXTENDS Integers, Sequences, FiniteSets, SequencesExt, FiniteSetsExt

CONSTANTS
  Sessions,    \* agent processes with the document open
  Ops,         \* operation ids
  Start,       \* the document: paragraphs, in order
  Protected,   \* ids of paragraphs that may not be deleted
  Queries,     \* texts agents look for
  NewTexts,    \* texts they write
  NewText,     \* the text of a paragraph they insert
  Styles,      \* styles they name
  Registered,  \* styles the document carries
  Limit,       \* matching paragraphs a selector's search returns
  MaxCalls,    \* bound: calls, retries included
  None

ASSUME LimitAssumption == Limit \in Nat \ {0} /\ MaxCalls \in Nat
ASSUME NoneAssumption == None \notin BOOLEAN
ASSUME StyleAssumption == "bold" \in Registered /\ "attributes" \notin Registered

VARIABLES
  doc,         \* paragraphs of the current generation: id, text, base style
  requests,    \* its format_intents.json
  gen,         \* which generation that is
  ledger,      \* operation -> the verdict its record holds
  asked,       \* operation -> the edits it was called with, <<>> before that
  held,        \* handles of the last search; agents share what they know
  call,        \* session -> the call it is in
  calls,       \* calls made
  landed,      \* history: operations whose edits are in the document
  told         \* history: answers given, and whether the edits were in then

vars == <<doc, requests, gen, ledger, asked, held, call, calls, landed, told>>

Char == {"a", "A", "w", "b"}
Idle == [pc |-> "idle", op |-> None, edits |-> <<>>, seen |-> 0, pin |-> 0,
         ok |-> FALSE, in |-> FALSE]

-----------------------------------------------------------------------------
(* The search. *)

Lowered == [c \in Char |-> IF c = "A" THEN "a" ELSE c]
Folded == [c \in Char |-> IF c = "w" THEN "a" ELSE Lowered[c]]
Read(text, as) == [i \in DOMAIN text |-> as[text[i]]]

\* Offsets of q, found one after the other, so that hits may overlap.
At(hay, q) == {i \in 0 .. Len(hay) - Len(q) : SubSeq(hay, i + 1, i + Len(q)) = q}
\* A paragraph with a literal hit is not searched for folded ones.
Occurrences(text, q) ==
  LET exact == At(Read(text, Lowered), Read(q, Lowered))
  IN  IF exact # {} THEN exact ELSE At(Read(text, Folded), Read(q, Folded))

\* match_ref: the span and its text (as a digest). The revision it carries is
\* never compared.
Handle(par, from, to) ==
  [p |-> par.id, from |-> from, to |-> to, text |-> SubSeq(par.text, from + 1, to)]
HandlesIn(par, q) ==
  LET at == SelectSeq([i \in DOMAIN par.text |-> i - 1],
                      LAMBDA i : i \in Occurrences(par.text, q))
  IN  [k \in DOMAIN at |-> Handle(par, at[k], at[k] + Len(q))]

Ids(d) == {d[i].id : i \in DOMAIN d}
Matching(d, q, scope) ==
  SelectSeq(d, LAMBDA par : scope \in {None, par.id} /\ Occurrences(par.text, q) # {})
Complete(d, q, scope) == Len(Matching(d, q, scope)) <= Limit
Found(d, q, scope) ==
  LET blocks == Matching(d, q, scope)
  IN  FlattenSeq([i \in 1 .. Min({Limit, Len(blocks)}) |-> HandlesIn(blocks[i], q)])

Place(d, id) == CHOOSE i \in DOMAIN d : d[i].id = id
Resolves(d, h) ==
  /\ h.p \in Ids(d)
  /\ LET text == d[Place(d, h.p)].text
     IN  h.to <= Len(text) /\ SubSeq(text, h.from + 1, h.to) = h.text

-----------------------------------------------------------------------------
(* The batch: what a caller sends, and what a selector makes of it. *)

Entry == [kind |-> "replace", handle |-> None, query |-> None, scope |-> None,
          first |-> FALSE, expect |-> None, new |-> <<>>, style |-> None]
Selects(e) == e.query # None
\* A field the kind does not use is refused rather than dropped.
Consumed(e) == e.kind \in {"replace", "insert", "delete"} => e.style = None

Targets(d, e) ==
  LET all == Found(d, e.query, e.scope)
  IN  IF e.first THEN SubSeq(all, 1, Min({1, Len(all)})) ELSE all
ExpandsPartly(d, e) ==                                         \* mutant: incomplete
  /\ Consumed(e)
  /\ Selects(e) => Targets(d, e) # <<>>
Expands(d, e) ==
  /\ Consumed(e)
  /\ Selects(e) => /\ e.scope \in Ids(d) \union {None}
                   /\ Complete(d, e.query, e.scope)
                   /\ e.expect \in {None, Len(Targets(d, e))}
                   /\ Targets(d, e) # <<>>
Edit(e, h) == [kind |-> e.kind, handle |-> h, new |-> e.new, style |-> e.style,
               many |-> Selects(e)]
Expanded(d, batch) ==
  FlattenSeq([i \in DOMAIN batch |->
    IF Selects(batch[i])
    THEN LET to == Targets(d, batch[i]) IN [k \in DOMAIN to |-> Edit(batch[i], to[k])]
    ELSE <<Edit(batch[i], batch[i].handle)>>])

-----------------------------------------------------------------------------
(* Formats. *)

Overlap(r, q) == r.p = q.p /\ r.from < q.to /\ q.from < r.to
Plannable(d, reqs) ==
  /\ \A i \in DOMAIN reqs : /\ reqs[i].p \in Ids(d)
                            /\ reqs[i].to <= Len(d[Place(d, reqs[i].p)].text)
                            /\ reqs[i].style \in Registered
  /\ \A i, j \in DOMAIN reqs : Overlap(reqs[i], reqs[j]) => reqs[i].style = reqs[j].style

Request(h, style) == [p |-> h.p, from |-> h.from, to |-> h.to, style |-> style]
\* A request for the same characters takes the place of the earlier one.
Recorded(reqs, r) ==
  LET same == {i \in DOMAIN reqs : <<reqs[i].p, reqs[i].from, reqs[i].to>> = <<r.p, r.from, r.to>>}
  IN  IF same # {} THEN [reqs EXCEPT ![Min(same)] = r] ELSE Append(reqs, r)

\* Properties asked for ({"bold": true}) are turned into a style of the document.
StyleOf(e) == IF e.style = "attributes" THEN "bold" ELSE e.style
Restyled(st, e) ==
  LET reqs == Recorded(st.requests, Request(e.handle, StyleOf(e)))
      holds == e.many /\ Resolves(st.doc, e.handle)
                 /\ st.doc[Place(st.doc, e.handle.p)].base = StyleOf(e)
  IN  IF holds THEN st
      ELSE IF Resolves(st.doc, e.handle) /\ Plannable(st.doc, reqs)
      THEN [st EXCEPT !.requests = reqs]
      ELSE [st EXCEPT !.done = FALSE]

-----------------------------------------------------------------------------
(* Text. Structural edits take effect one by one, in the caller's order; the *)
(* replacements of the batch follow together.                                *)

\* Ids are given above those of the draft, deleted paragraphs of this batch included.
Inserted(st, e) ==
  LET i == Place(st.doc, e.handle.p)
      id == 1 + Max(Ids(st.doc) \union Ids(doc))
  IN  IF Resolves(st.doc, e.handle)
      THEN [st EXCEPT !.doc = InsertAt(st.doc, i + 1,
                                [id |-> id, text |-> e.new, base |-> st.doc[i].base])]
      ELSE [st EXCEPT !.done = FALSE]
Deleted(st, e) ==
  IF Resolves(st.doc, e.handle) /\ e.handle.p \notin Protected
  THEN [st EXCEPT !.doc = RemoveAt(st.doc, Place(st.doc, e.handle.p))]
  ELSE [st EXCEPT !.done = FALSE]

\* A replacement that cannot be staged blocks the others, not the structure.
Blocked(d, edits) == \E i \in DOMAIN edits :
  ~Resolves(d, edits[i].handle) \/ edits[i].handle.text = edits[i].new
Overlapping(edits) ==
  \E i, j \in DOMAIN edits : i < j /\ Overlap(edits[i].handle, edits[j].handle)

Spliced(text, e) ==
  SubSeq(text, 1, e.handle.from) \o e.new \o SubSeq(text, e.handle.to + 1, Len(text))
\* Of one paragraph, from its end to its start.
ReplacedForwards(par, edits) ==                                           \* mutant
  LET mine == SelectSeq(edits, LAMBDA e : e.handle.p = par.id)
  IN  [par EXCEPT !.text = FoldLeft(Spliced, par.text,
         SortSeq(mine, LAMBDA e, f : e.handle.from < f.handle.from))]
Replaced(par, edits) ==
  LET mine == SelectSeq(edits, LAMBDA e : e.handle.p = par.id)
  IN  [par EXCEPT !.text = FoldLeft(Spliced, par.text,
         SortSeq(mine, LAMBDA e, f : e.handle.from > f.handle.from))]

\* Handles become spans of the paragraphs they name.
Patched(d, edits) == [i \in DOMAIN d |-> Replaced(d[i], edits)]

Step(st, e) ==
  IF ~st.done THEN st
  ELSE IF e.kind = "format" THEN Restyled(st, e)
  ELSE IF e.kind = "insert" THEN Inserted(st, e)
  ELSE IF e.kind = "delete" THEN Deleted(st, e)
  ELSE st

Kinds(edits) == {edits[i].kind : i \in DOMAIN edits}
\* What the mutation does to the copy it is handed: done is false when it fails
\* (the copy is thrown away), blocked when it succeeds and says so.
Stage(st, new) ==
  IF Blocked(st.doc, new) THEN [st EXCEPT !.blocked = TRUE]
  ELSE IF Overlapping(new) THEN [st EXCEPT !.done = FALSE]
  ELSE [st EXCEPT !.doc = Patched(st.doc, new)]
Applied(edits) ==
  LET start == [doc |-> doc, requests |-> requests, blocked |-> FALSE,
                done |-> "format" \notin Kinds(edits) \/ Kinds(edits) = {"format"}]
      st == FoldLeft(Step, start, edits)
  IN  IF ~st.done \/ "replace" \notin Kinds(edits) THEN st
      ELSE Stage(st, SelectSeq(edits, LAMBDA e : e.kind = "replace"))

-----------------------------------------------------------------------------
(* The sessions. *)

Init ==
  /\ doc = Start /\ requests = <<>> /\ gen = 0
  /\ ledger = [op \in Ops |-> None] /\ asked = [op \in Ops |-> <<>>]
  /\ held = <<>> /\ call = [s \in Sessions |-> Idle]
  /\ calls = 0 /\ landed = {} /\ told = {}

\* document_find
Find(s, q) ==
  /\ call[s].pc = "idle" /\ \E op \in Ops : asked[op] = <<>>
  /\ held' = Found(doc, q, None)
  /\ UNCHANGED <<doc, requests, gen, ledger, asked, call, calls, landed, told>>

\* A call: selectors are expanded by a search of the current document, under no
\* lock and before the ledger is asked.
Enter(s, op, batch) ==
  /\ call[s].pc = "idle" /\ calls < MaxCalls
  /\ calls' = calls + 1
  /\ call' = [call EXCEPT ![s] =
       IF \A i \in DOMAIN batch : Expands(doc, batch[i])
       THEN [Idle EXCEPT !.pc = "pin", !.op = op, !.edits = Expanded(doc, batch), !.seen = gen]
       ELSE [Idle EXCEPT !.pc = "probe", !.op = op, !.in = op \in landed]]
  /\ UNCHANGED <<doc, requests, gen, ledger, landed, told>>

\* document_edit: a new operation, or one whose answer was lost or not believed
Ask(s, op, batch) ==
  /\ asked[op] = <<>> /\ asked' = [asked EXCEPT ![op] = batch]
  /\ held' = IF \E o \in Ops : asked'[o] = <<>> THEN held ELSE <<>>
  /\ Enter(s, op, batch)
Retry(s, op) == asked[op] # <<>> /\ UNCHANGED <<asked, held>> /\ Enter(s, op, asked[op])

\* The verdict on a call, and whether the edits are in the document then.
Decide(s, ok) == call' = [call EXCEPT ![s] =
  [Idle EXCEPT !.pc = "probe", !.op = call[s].op, !.ok = ok, !.in = call[s].op \in landed']]

Pin(s) ==
  /\ call[s].pc = "pin"
  /\ UNCHANGED <<doc, requests, gen, ledger, asked, held, calls, landed, told>>
  /\ IF ledger[call[s].op] # None THEN Decide(s, ledger[call[s].op])
     ELSE call' = [call EXCEPT ![s].pc = "commit", ![s].pin = gen]

\* The mutation, inside the lane.
Mutate(s, st) ==
  LET op == call[s].op
  IN  /\ doc' = st.doc /\ requests' = st.requests /\ gen' = gen + 1
      /\ ledger' = [ledger EXCEPT ![op] = ~st.blocked]
      /\ landed' = IF st.doc = doc /\ st.blocked THEN landed ELSE landed \union {op}
      /\ Decide(s, ~st.blocked)
CommitUnasked(s) ==                              \* mutant: the ledger is not asked again
  LET st == Applied(call[s].edits)
  IN  /\ call[s].pc = "commit"
      /\ IF gen = call[s].pin /\ st.done THEN Mutate(s, st)
         ELSE UNCHANGED <<doc, requests, gen, ledger, landed>> /\ Decide(s, FALSE)
      /\ UNCHANGED <<asked, held, calls, told>>
Commit(s) ==
  LET recorded == ledger[call[s].op]
      st == Applied(call[s].edits)
  IN  /\ call[s].pc = "commit"
      /\ IF recorded = None /\ gen = call[s].pin /\ st.done THEN Mutate(s, st)
         ELSE /\ UNCHANGED <<doc, requests, gen, ledger, landed>>
              /\ Decide(s, recorded # None /\ recorded)
      /\ UNCHANGED <<asked, held, calls, told>>

\* The members of a selector are probed once more, after the mutation, for
\* formats only, and properties are probed as the style "".
ProbeFails(e) ==
  /\ Selects(e) /\ e.kind = "format" /\ Expands(doc, e)
  /\ LET to == Targets(doc, e)
     IN  \E k \in DOMAIN to :
           ~Plannable(doc, Recorded(requests, Request(to[k], e.style)))
Answer(s) ==
  LET op == call[s].op
      batch == asked[op]
      ok == call[s].ok /\ \A i \in DOMAIN batch : ~ProbeFails(batch[i])
  IN  /\ call[s].pc = "probe"
      /\ told' = told \union {[op |-> op, ok |-> ok, landed |-> call[s].in]}
      /\ call' = [call EXCEPT ![s] = Idle]
      /\ UNCHANGED <<doc, requests, gen, ledger, asked, held, calls, landed>>

\* The reply does not arrive, or the process dies before it is sent. (One that
\* dies before its mutation leaves nothing behind.)
Lose(s) ==
  /\ call[s].pc = "probe"
  /\ call' = [call EXCEPT ![s] = Idle]
  /\ UNCHANGED <<doc, requests, gen, ledger, asked, held, calls, landed, told>>

-----------------------------------------------------------------------------
(* What agents send. *)

Longest == CHOOSE t \in NewTexts : \A u \in NewTexts : Len(u) <= Len(t)
By(kind, h, new) == [Entry EXCEPT !.kind = kind, !.handle = h, !.new = new]
Restyle(h, style) == [By("format", h, <<>>) EXCEPT !.style = style]
Selector(kind, q, new, style) ==
  [Entry EXCEPT !.kind = kind, !.query = q, !.new = new, !.style = style]
Singles(h) ==
  {By("replace", h, t) : t \in NewTexts} \union {By("insert", h, NewText), By("delete", h, <<>>)}
    \union {Restyle(h, style) : style \in Styles}
Pairs(h, g) ==
  {<<By("replace", h, t), By("replace", g, Longest)>> : t \in NewTexts}
    \union {<<By(kind, h, NewText), By("replace", g, Longest)>> : kind \in {"insert", "delete"}}
    \union {<<Restyle(h, "bold"), Restyle(g, style)>> : style \in Styles \ {"bold"}}
Selectors(seen) ==
  UNION {LET e == Selector("replace", q, Longest, None)
         IN  {e, [e EXCEPT !.expect = seen], [e EXCEPT !.first = TRUE], [e EXCEPT !.scope = 1],
              [e EXCEPT !.style = "bold"]}
               \union {[e EXCEPT !.new = t] : t \in NewTexts}
               \union {Selector("format", q, <<>>, style) : style \in Styles \union {"attributes"}}
           : q \in Queries}
Batches ==
  LET hs == held
  IN  {<<e>> : e \in UNION {Singles(hs[i]) : i \in DOMAIN hs} \union Selectors(Len(hs))}
        \union UNION {UNION {Pairs(hs[i], hs[j]) : j \in i + 1 .. Len(hs)} : i \in DOMAIN hs}

Next ==
  \E s \in Sessions :
    \/ \E q \in Queries : Find(s, q)
    \/ \E op \in Ops : Retry(s, op) \/ \E batch \in Batches : Ask(s, op, batch)
    \/ Pin(s) \/ Commit(s) \/ Answer(s) \/ Lose(s)

Spec == Init /\ [][Next]_vars

-----------------------------------------------------------------------------
(* Properties. *)

Pure(batch) ==
  /\ \A i \in DOMAIN batch : ~Selects(batch[i])
  /\ Kinds(batch) = {"replace"} \/ "replace" \notin Kinds(batch)

\* The answer to a batch of handles of one kind is true, whoever else edits,
\* whatever was lost and however often it is repeated: a refusal means that
\* nothing of it was written, a success that it is in the document.
\* (document_edit's "nothing was written", and its retry property)
AnswersAreTrue ==
  \A a \in told : Pure(asked[a.op]) => a.ok = a.landed

Settles(s) == call[s].pc = "commit" /\ call'[s].pc = "probe" /\ gen' # gen

\* A batch of replacements does to every paragraph what replacing all its spans
\* at once would do, each span holding the text its handle was issued for.
\* (plan_patch, which splices them one by one)
AtOnce(par, edits) ==
  LET mine == {edits[i] : i \in {j \in DOMAIN edits : edits[j].handle.p = par.id}}
      piece(i) == IF \E e \in mine : e.handle.from = i - 1
                  THEN (CHOOSE e \in mine : e.handle.from = i - 1).new
                  ELSE IF \E e \in mine : i \in e.handle.from + 1 .. e.handle.to THEN <<>>
                  ELSE <<par.text[i]>>
  IN  [par EXCEPT !.text = FlattenSeq([i \in DOMAIN par.text |-> piece(i)])]
BatchIsAtOnce ==
  [][\A s \in Sessions :
       LET edits == call[s].edits
       IN  Settles(s) /\ call'[s].ok /\ Kinds(edits) = {"replace"} =>
             /\ \A i \in DOMAIN edits : \E par \in Range(doc) :
                  /\ par.id = edits[i].handle.p /\ edits[i].handle.to <= Len(par.text)
                  /\ Handle(par, edits[i].handle.from, edits[i].handle.to) = edits[i].handle
             /\ doc' = [i \in DOMAIN doc |-> AtOnce(doc[i], edits)]]_vars

\* A selector for all of a text leaves no literal occurrence of it, unless
\* another session committed between the search and the mutation.
\* (handles_for_selector: "every X in the body")
Chars(text) == Range(Read(text, Lowered))
NoneIsLeft ==
  [][\A s \in Sessions : Settles(s) /\ call'[s].ok /\ call[s].seen = call[s].pin =>
       \A i \in DOMAIN asked[call[s].op] :
         LET e == asked[call[s].op][i]
         IN  Selects(e) /\ e.kind = "replace" /\ ~e.first /\ e.scope = None
               /\ e.new # <<>> /\ Chars(e.new) \intersect Chars(e.query) = {}
             => \A par \in Range(doc') : At(Read(par.text, Lowered), Read(e.query, Lowered)) = {}]_vars

-----------------------------------------------------------------------------
(* Refuted: what the answers say of the batches AnswersAreTrue leaves out. *)

Refused(a) == ~a.ok => ~a.landed

\* The probe of a selector's members ("BEFORE anything is attempted", edit.rs
\* 1094-1097) comes after the mutation and reports what was written as rejected.
FormatRefusalIsTrue ==
  \A a \in told : (\A i \in DOMAIN asked[a.op] : asked[a.op][i].kind = "format") => Refused(a)

\* A selector that is repeated is expanded before the ledger is asked, finds
\* nothing left and says that nothing was written (edit.rs 365-378).
RepeatedSelectorIsTrue ==
  \A a \in told :
    (\A i \in DOMAIN asked[a.op] : Selects(asked[a.op][i]) /\ asked[a.op][i].kind = "replace")
      => Refused(a)

\* A blocked replacement leaves the structural edits of its batch in the document
\* although "nothing was written" (facade.rs 313-368).
MixedRefusalIsTrue ==
  \A a \in told : {"insert", "replace"} \subseteq Kinds(asked[a.op]) => Refused(a)
=============================================================================
