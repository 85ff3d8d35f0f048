--------------------------- MODULE ReviewSession ----------------------------
(***************************************************************************)
(* Human review of a workdir an agent edits (crates/docx2typed-review:     *)
(* collab.rs, queue.rs, draft.rs, and the tools of src/src/mcp.rs and      *)
(* server.rs that call them).  A reviewer stages patches and decisions in  *)
(* the browser and dispatches them; the agent edits a draft, commits it,   *)
(* applies the dispatched patches and settles the decisions; somebody may  *)
(* edit typed.md by hand in between.                                       *)
(*                                                                         *)
(* Every call runs inside Store::mutate on a copy of the generation: it    *)
(* commits as a whole or leaves nothing (module GenerationStore), so every *)
(* call is one action and a refused call is no step.                       *)
(***************************************************************************)
EXTENDS Integers, FiniteSets, Sequences

CONSTANTS
  Paragraph,     \* the paragraphs of the document
  Patch,         \* the patches reviewers write
  Insertion,     \* the patches that insert text; the others replace text
  Where,         \* the paragraph of each patch
  Decision,      \* the decisions reviewers write
  Revision,      \* the tracked revisions of the document
  RevisionOf,    \* the revision of each decision
  None,          \* no draft, session, event, island or snapshot file
  MaxCalls,      \* bound on calls
  MaxHandEdits   \* bound on hand edits

ASSUME ReviewSessionAssumption ==
  /\ Insertion \subseteq Patch
  /\ Where \in [Patch -> Paragraph]
  /\ RevisionOf \in [Decision -> Revision]
  /\ Patch \cap Decision = {}
  /\ None \notin Patch \cup Decision
  /\ {MaxCalls, MaxHandEdits} \subseteq Nat

VARIABLES
  template,  \* _template.docx: how often its bytes were replaced
  gone,      \* the revisions that were accepted or rejected in it
  typed,     \* typed.md: the committed text
  draft,     \* edit.md: the text being edited
  bound,     \* edit.state.json: the typed.md and edit.md the draft was bound to
  plan,      \* islands.json: the edits a build applies to the template
  session,   \* .review/session.json
  snapshot,  \* .review/snapshots: the file of every snapshot number
  event,     \* the review queue
  batch,     \* how many batches were dispatched
  lineage,   \* history: how often the session was bootstrapped
  applied,   \* history: which patch was published where
  left       \* what the bounds still allow

vars == <<template, gone, typed, draft, bound, plan, session, snapshot, event,
          batch, lineage, applied, left>>

-----------------------------------------------------------------------------
(* Texts.  A paragraph is its own text, which a replacement or an edit      *)
(* exchanges, and what was inserted at its end.                             *)

Words == {"base", "agent", "hand"} \cup Patch
Text == [head : Words, tail : Seq(Insertion)]

\* The text of the template, which is also the frozen baseline.view: staged
\* patches, edits and settlements of other paragraphs never change it.
Base     == [head |-> "base", tail |-> <<>>]
Baseline == [p \in Paragraph |-> Base]

WithHead(doc, p, head) == [doc EXCEPT ![p].head = head]

\* What every paragraph of the draft would be patched to: a replacement finds
\* its expected text or refuses, an insertion expects no text and always fits.
Patched(doc, patches) ==
  [p \in Paragraph |->
     LET here == {e \in patches : Where[e] = p}
         heads == here \ Insertion
         tails == here \cap Insertion
     IN [head |-> IF heads = {} THEN doc[p].head ELSE CHOOSE e \in heads : TRUE,
         tail |-> IF tails = {} THEN doc[p].tail
                  ELSE Append(doc[p].tail, CHOOSE e \in tails : TRUE)]]

Fits(doc, patches)  == \A e \in patches \ Insertion : doc[Where[e]].head = "base"
Overlapping(patches) ==
  \E e, f \in patches : /\ e # f /\ Where[e] = Where[f]
                        /\ (e \in Insertion) = (f \in Insertion)

-----------------------------------------------------------------------------
(* The draft and the plan of the build. *)

Draft == IF draft = None THEN Baseline ELSE draft
Bound(typedText, body) == [typed |-> typedText, body |-> body]
Clean == draft = None \/ bound = Bound(typed, draft)

\* One island for every paragraph the draft reads differently from the
\* baseline.
Desired(doc) == [p \in Paragraph |-> IF doc[p] = Base THEN None ELSE doc[p]]

\* What a build writes, and what the reviewer's frame shows: the template with
\* the islands applied.
Built(p) == IF plan[p] = None THEN Base ELSE plan[p]

\* apply_projection has work: the draft differs from the baseline, the plan
\* from the draft, or the draft from what it was bound to.
Work(doc) == doc # Baseline \/ plan # Desired(doc) \/ draft = None \/ ~Clean \/ doc # draft

\* The paragraphs a commit changes: in the plan, or in typed.md.
Accepted(doc) == {p \in Paragraph : plan[p] # Desired(doc)[p] \/ typed[p] # doc[p]}

-----------------------------------------------------------------------------
(* The session. *)

\* C<n> is <<n, 0>> and H<n>.<k> is <<n, k>>: the snapshot after the k-th patch
\* staged on C<n>.
Session(base, n, text, staged, t) ==
  [base |-> base, n |-> n, text |-> text, staged |-> staged, template |-> t]
Fresh(t) == Session(0, 0, typed, <<>>, t)

\* ensure_session on template t.
Rebinds(t)   == session = None \/ session.template # t
Ensured(t)   == IF Rebinds(t) THEN Fresh(t) ELSE session
Lineage(t)   == IF Rebinds(t) THEN lineage + 1 ELSE lineage
File(text, of) == [text |-> text, of |-> of]
NoFile == File(Baseline, 0)
\* How far the bounds let the snapshot numbers run.
Numbers == 0..MaxCalls

Persisted(t) ==
  LET s == Ensured(t)
  IN IF Rebinds(t) \/ snapshot[s.n] = NoFile
       THEN [snapshot EXCEPT ![s.n] = File(s.text, Lineage(t))]
       ELSE snapshot

Ensure(t) ==
  /\ session' = Ensured(t)
  /\ snapshot' = Persisted(t)
  /\ lineage' = Lineage(t)

Drifts(s) == typed # s.text

\* The snapshot the next staged patch continues from.
Tip(s) == <<s.n, Len(s.staged)>>

\* Mutant: the published session keeps the patches staged on its predecessor.
PublishKeeping(text) ==
  LET s == Ensured(template)
  IN /\ text # s.text
     /\ session' = Session(s.base, s.n + 1, text, s.staged, s.template)
     /\ snapshot' = [Persisted(template) EXCEPT ![s.n + 1] = File(text, Lineage(template))]
     /\ lineage' = Lineage(template)
\* publish_current, with the parent read in the same call.
Publish(text) ==
  LET s == Ensured(template)
  IN /\ text # s.text
     /\ session' = Session(s.base, s.n + 1, text, <<>>, s.template)
     /\ snapshot' = [Persisted(template) EXCEPT ![s.n + 1] = File(text, Lineage(template))]
     /\ lineage' = Lineage(template)

-----------------------------------------------------------------------------
(* The queue. *)

\* status and delivery_state of an event, the snapshot a patch was drawn on,
\* the batch that dispatched it, and what a decision says.
Event(status, delivery, parent, in, verdict) ==
  [status |-> status, delivery |-> delivery, parent |-> parent, batch |-> in, verdict |-> verdict]
NoEvent == Event("none", "none", <<0, 0>>, 0, "none")
Marked(e, status, delivery) ==
  Event(status, delivery, event[e].parent, event[e].batch, event[e].verdict)

Queued    == {e \in Patch \cup Decision : event[e].status = "queued"}
\* The queued patches that hold an agent's edits back.
Blocking  == {e \in Queued \cap Patch : event[e].delivery = "queued"}
Settled   == {"applied", "acknowledged"}
\* The decisions a settlement selects.
Ready ==
  {d \in Decision : /\ event[d].status \in {"queued", "acknowledged"}
                    /\ event[d].delivery \notin Settled}

\* preflight.
AgentReady ==
  /\ ~Drifts(Ensured(template))
  /\ Blocking = {}

Spend == left.calls > 0 /\ left' = [left EXCEPT !.calls = @ - 1]

Deliver(events, status, delivery) ==
  [e \in Patch \cup Decision |->
     IF e \in events THEN Marked(e, status, delivery) ELSE event[e]]

-----------------------------------------------------------------------------
(* The reviewer. *)

\* The gate: the reviewer selects text in the frame, which shows the committed
\* edits, and it is compared with the template, which does not have them.
\* Nothing is selected where an insertion goes.
Selectable(e) == e \notin Insertion => Built(Where[e]).head = "base"

\* What validate_patch makes of a patch.
PatchEvent(parent) == Event("draft", "staged", parent, 0, "none")

\* stage_patch.  The parent is the one the frame's session names.  A patch that is
\* still a draft is replaced under its id, and its id joins the chain once more.
\* (The replacement may say something else; here it says what the draft said.)
Stage(e) ==
  LET s == Ensured(template)
  IN /\ Spend
     /\ event[e].status \in {"none", "draft"}
     /\ session # None
     /\ Tip(session) = Tip(s)
     /\ Selectable(e)
     /\ event' = [event EXCEPT ![e] = PatchEvent(Tip(s))]
     /\ session' = Session(s.base, s.n, s.text, Append(s.staged, e), s.template)
     /\ snapshot' = Persisted(template)
     /\ lineage' = Lineage(template)
     /\ UNCHANGED <<template, gone, typed, draft, bound, plan, batch, applied>>

\* upsert_event of a decision, and the session state the server answers with.
Decide(d, verdict) ==
  /\ Spend
  /\ event[d].status \in {"none", "draft"}
  /\ event' = [event EXCEPT ![d] = Event("draft", "staged", <<0, 0>>, 0, verdict)]
  /\ Ensure(template)
  /\ UNCHANGED <<template, gone, typed, draft, bound, plan, batch, applied>>

\* dispatch: every draft event joins one queued batch.
Dispatch ==
  /\ Spend
  /\ batch' = batch + 1
  /\ event' = [e \in Patch \cup Decision |->
                 IF event[e].status = "draft"
                   THEN Event("queued", "queued", event[e].parent, batch + 1, event[e].verdict)
                   ELSE event[e]]
  /\ Ensure(template)
  /\ UNCHANGED <<template, gone, typed, draft, bound, plan, applied>>

\* The publish route: the reviewer takes a hand-edited typed.md as it is.
PublishHandEdit ==
  /\ Spend
  /\ Publish(typed)
  /\ UNCHANGED <<template, gone, typed, draft, bound, plan, event, batch, applied>>

\* Somebody edits typed.md at the root; the next call's copy has it.
HandEdit(p) ==
  /\ left.hands > 0
  /\ left' = [left EXCEPT !.hands = @ - 1]
  /\ typed' = WithHead(typed, p, "hand")
  /\ UNCHANGED <<template, gone, draft, bound, plan, session, snapshot, event, batch, lineage,
                 applied>>

-----------------------------------------------------------------------------
(* The agent. *)

\* replace_text and document_patch: behind the gate, the text goes to the
\* draft and its island to the plan.
Edit(p) ==
  LET doc == WithHead(Draft, p, "agent")
  IN /\ Spend
     /\ AgentReady
     /\ Draft[p].head # "agent"
     /\ draft' = doc
     /\ bound' = IF draft = None THEN Bound(typed, Baseline) ELSE bound
     /\ plan' = [plan EXCEPT ![p] = doc[p]]
     /\ Ensure(template)
     /\ UNCHANGED <<template, gone, typed, event, batch, applied>>

\* Mutant: the commit leaves the session at the snapshot it had.
CommitUnpublished(doc) ==
  /\ Work(doc) /\ Accepted(doc) # {}
  /\ typed' = doc
  /\ draft' = doc
  /\ bound' = Bound(doc, doc)
  /\ plan' = Desired(doc)
  /\ Ensure(template)
\* apply_projection on a draft that reads doc, and the snapshot it publishes.
CommitOf(doc) ==
  /\ Work(doc) /\ Accepted(doc) # {}
  /\ typed' = doc
  /\ draft' = doc
  /\ bound' = Bound(doc, doc)
  /\ plan' = Desired(doc)
  /\ Publish(doc)

\* commit_sync, which does not ask the gate.
Commit ==
  /\ Spend
  /\ draft # None
  /\ CommitOf(draft)
  /\ UNCHANGED <<template, gone, event, batch, applied>>

\* document_edit: the edit and the commit in one call.
DocumentEdit(p) ==
  /\ Spend
  /\ AgentReady
  /\ Draft[p].head # "agent"
  /\ CommitOf(WithHead(Draft, p, "agent"))
  /\ UNCHANGED <<template, gone, event, batch, applied>>

\* revert: edit.md is rendered again, from the template, and bound.
Revert ==
  /\ Spend
  /\ draft # None
  /\ draft' = Baseline
  /\ bound' = Bound(typed, Baseline)
  /\ UNCHANGED <<template, gone, typed, plan, session, snapshot, event, batch, lineage, applied>>

\* Mutant: the parents of a batch are not looked at.
FollowAnything(patches, n) == TRUE
\* The patches of a batch continue one another from the current snapshot.
Follow(patches, n) ==
  {event[e].parent : e \in patches} = {<<n, k>> : k \in 0..(Cardinality(patches) - 1)}

\* The batch goes to the draft, which is the agent's, whatever it holds, and is
\* committed; the snapshot it publishes is the one every patch was applied in.
ApplyAll(patches, n) ==
  /\ CommitOf(Patched(Draft, patches))
  /\ event' = Deliver(patches, "queued", "applied")
  /\ applied' = applied \cup {[patch |-> e, of |-> Lineage(template), n |-> n] : e \in patches}

\* review_apply_batch on the queued patches of one batch, applied or not.
Apply(patches) ==
  LET s == Ensured(template)
  IN /\ Spend
     /\ patches # {}
     /\ ~Drifts(s)
     /\ Follow(patches, s.n)
     /\ ~Overlapping(patches)
     /\ Fits(Draft, patches)
     /\ ApplyAll(patches, s.n + 1)
     /\ UNCHANGED <<template, gone, batch>>

ApplyBatch(b) == Apply({e \in Queued \cap Patch : event[e].batch = b})

\* review_apply_patch: one patch is asked for, every queued patch is applied.
ApplyPatch(e) ==
  /\ e \in Queued
  /\ event[e].delivery # "applied"
  /\ Apply(Queued \cap Patch)

\* acknowledge.
Acknowledge(e) ==
  /\ Spend
  /\ e \in Queued
  /\ event' = Deliver({e}, "acknowledged", "acknowledged")
  /\ UNCHANGED <<template, gone, typed, draft, bound, plan, session, snapshot, batch, lineage,
                 applied>>

\* The accepted and rejected revisions leave the template, and the session is
\* read again after that.  Recompressing an unchanged document.xml may or may not
\* move the template's bytes.
SettleAll(decisions, real) ==
  /\ gone' = gone \cup {RevisionOf[d] : d \in real}
  /\ template' \in IF real = {} THEN {template, template + 1} ELSE {template + 1}
  /\ session' = LET s == Ensured(template')
                IN Session(s.base + 1, s.n, s.text, s.staged, s.template)
  /\ snapshot' = Persisted(template')
  /\ lineage' = Lineage(template')
  /\ event' = [e \in Patch \cup Decision |->
                 IF e \in decisions THEN Marked(e, event[e].status, "applied") ELSE event[e]]

\* settle_decisions.
Settle(decisions) ==
  LET real == {d \in decisions : event[d].verdict # "defer"}
  IN /\ Spend
     /\ decisions # {} /\ decisions \subseteq Ready
     /\ ~Drifts(Ensured(template))
     /\ Clean
     /\ \A d, e \in real : d # e => RevisionOf[d] # RevisionOf[e]
     /\ \A d \in real : RevisionOf[d] \notin gone
     /\ SettleAll(decisions, real)
     /\ UNCHANGED <<typed, draft, bound, plan, batch, applied>>

\* review_settle: the decisions it names, or every one that is ready.
SettleReady == \E decisions \in SUBSET Ready : Settle(decisions)

\* revision_accept and revision_reject of the engine: the template changes and
\* the session is not told.
DecideNow(r) ==
  /\ Spend
  /\ r \notin gone
  /\ gone' = gone \cup {r}
  /\ template' = template + 1
  /\ UNCHANGED <<typed, draft, bound, plan, session, snapshot, event, batch, lineage, applied>>

-----------------------------------------------------------------------------
Init ==
  /\ template = 0
  /\ gone = {}
  /\ typed = Baseline
  /\ draft = None
  /\ bound = Bound(Baseline, Baseline)
  /\ plan = [p \in Paragraph |-> None]
  /\ session = None
  /\ snapshot = [n \in Numbers |-> NoFile]
  /\ event = [e \in Patch \cup Decision |-> NoEvent]
  /\ batch = 0
  /\ lineage = 0
  /\ applied = {}
  /\ left = [calls |-> MaxCalls, hands |-> MaxHandEdits]

Reviewer ==
  \/ \E e \in Patch : Stage(e)
  \/ \E d \in Decision, verdict \in {"accept", "defer"} : Decide(d, verdict)
  \/ Dispatch
  \/ PublishHandEdit
  \/ \E p \in Paragraph : HandEdit(p)

Agent ==
  \/ \E p \in Paragraph : Edit(p) \/ DocumentEdit(p)
  \/ Commit
  \/ Revert
  \/ \E b \in 1..batch : ApplyBatch(b)
  \/ \E e \in Patch : ApplyPatch(e)
  \/ \E e \in Patch \cup Decision : Acknowledge(e)
  \/ SettleReady
  \/ \E r \in Revision : DecideNow(r)

Next == Reviewer \/ Agent

Spec == Init /\ [][Next]_vars

-----------------------------------------------------------------------------
(* Properties. *)

Doc == [Paragraph -> Text]

Sessions == [base : Nat, n : Nat, text : Doc, staged : Seq(Patch), template : Nat]
Files    == [text : Doc, of : Nat]
Events   == [status : {"none", "draft", "queued", "acknowledged"},
             delivery : {"none", "staged", "queued", "applied", "acknowledged"},
             parent : Nat \X Nat, batch : Nat, verdict : {"none", "accept", "defer"}]
Applied  == [patch : Patch, of : Nat, n : Nat]

\* The files have the shape the code gives them; what was applied is settled,
\* by a session that existed; and no session is of a later template
\* (collab.rs, queue.rs, edit_state.rs).
TypeOK ==
  /\ template \in Nat /\ lineage \in Nat /\ batch \in Nat
  /\ gone \subseteq Revision
  /\ typed \in Doc
  /\ draft = None \/ draft \in Doc
  /\ bound \in [typed : Doc, body : Doc]
  /\ plan \in [Paragraph -> Text \cup {None}]
  /\ session = None \/ (session \in Sessions /\ session.template <= template)
  /\ snapshot \in [Numbers -> Files]
  /\ event \in [Patch \cup Decision -> Events]
  /\ applied \subseteq Applied
  /\ \A x \in applied : event[x.patch].delivery \in Settled /\ x.of <= lineage
  /\ left \in [calls : 0..MaxCalls, hands : 0..MaxHandEdits]

\* The last time a patch was staged.
StagedLast(staged, k) == \A j \in k + 1..Len(staged) : staged[j] # staged[k]

\* The patches staged in the session continue one another from its current
\* snapshot, so a patch drawn on a snapshot that was replaced is never in the
\* chain the next reviewer continues.  A draft that was staged again stands where
\* it was staged last; at the places it left, the chain has a gap
\* (stage_patch, publish_current and ensure_session, collab.rs:825-978 and
\* 236-357; upsert_event, queue.rs:304-350).
StagedChainIsRooted ==
  session # None =>
    \A k \in 1..Len(session.staged) :
      StagedLast(session.staged, k) =>
        event[session.staged[k]].parent = <<session.n, k - 1>>

\* While the session is not bootstrapped anew, a patch is published once,
\* however often its batch is applied (review_apply_batch's parent chain,
\* collab.rs:1581-1598).
OnceInASession ==
  \A x, y \in applied : x.patch = y.patch /\ x.of = y.of => x = y

\* The snapshot files of the session's own chain, and not those of a session
\* the template change threw away, are on the disk under its numbers
\* (persist_snapshot, collab.rs:166-372 and 950-972).
SnapshotsAreOfThisSession ==
  session # None =>
    /\ lineage > 0
    /\ snapshot[session.n] = File(session.text, lineage)
    /\ \A n \in 0..session.n : snapshot[n].of = lineage

\* The review base advances only for a decision that was not settled before,
\* whatever is acknowledged, dispatched or settled again in between
\* (settle_decisions, collab.rs:1050-1075 and 1233-1262).
BaseAdvancesForNew ==
  [][(session # None /\ session' # None /\ session'.base > session.base)
       => \E d \in Decision : event[d].delivery \notin Settled /\ event'[d].delivery \in Settled]_vars

Drift == session # None /\ session.template = template /\ Drifts(session)

\* The program never drifts from its own session: typed.md stops matching the
\* current snapshot only when somebody edits it by hand, so a refusal with
\* current-snapshot-drift always has a hand edit to show (mcp.rs:824-888,
\* collab.rs:917-978).
DriftsOnlyByHand ==
  [][~Drift /\ Drift' => left'.hands < left.hands]_vars

\* What the test of the batch says: "the one-shot apply cannot double-publish"
\* (tests/review_crate.rs:573-575).
NoDoublePublish ==
  \A x, y \in applied : x.patch = y.patch => x = y

\* What the chain of a session is for (collab.rs:825-912): no patch of it is ever
\* refused for the parent it has.  A draft that is staged again follows itself.
ChainHasNoGaps ==
  session # None =>
    \A k \in 1..Len(session.staged) :
      event[session.staged[k]].parent = <<session.n, k - 1>>

\* What preflight says of itself: "The gate an agent must pass before changing
\* the canonical AST" (collab.rs:456) is closed while typed.md drifts from the
\* current snapshot, so text nobody published is not overwritten.
DriftIsNotOverwritten ==
  [][Drift /\ typed' # typed => left'.hands < left.hands]_vars

\* What the commit says of the island an edit stages: it "is a cache of the
\* same plan, not a second source of truth" (draft.rs:4593-4594), so a build of
\* a clean workdir writes what typed.md says.
PlanIsNoSecondTruth ==
  Clean => \A p \in Paragraph : Built(p) = typed[p]

=============================================================================
