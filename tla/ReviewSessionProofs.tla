------------------------ MODULE ReviewSessionProofs ------------------------
(***************************************************************************)
(* Proofs about module ReviewSession, for every set of paragraphs, patches *)
(* and decisions and every bound: the types, the chain of staged patches,  *)
(* the snapshot files, that a patch is published once in a session, and    *)
(* that only a hand edit makes typed.md drift.                             *)
(***************************************************************************)
EXTENDS ReviewSession, TLAPS

-----------------------------------------------------------------------------
(* The invariant.  What it says of the session is stated of any session,   *)
(* snapshot files, lineage, queue, publications and remaining calls, so    *)
(* that it can be said of the session a call works on before it is written. *)

Consistent(s, files, of, queue, published, calls) ==
  /\ s \in Sessions
  /\ of \in Nat /\ of > 0
  /\ files \in [Numbers -> Files]
  /\ files[s.n] = File(s.text, of)
  /\ \A n \in 0..s.n : files[n].of = of
  /\ s.n + calls <= MaxCalls
  /\ \A k \in 1..Len(s.staged) :
       /\ queue[s.staged[k]].status # "none"
       /\ StagedLast(s.staged, k) => queue[s.staged[k]].parent = <<s.n, k - 1>>
  /\ \A x \in published : /\ x.of <= of
                          /\ x.of = of => queue[x.patch].parent[1] = x.n - 1 /\ x.n <= s.n

\* A published patch is past its draft.
AppliedAreOut ==
  \A x \in applied : event[x.patch].status \in {"queued", "acknowledged"}

IInv ==
  /\ TypeOK
  /\ AppliedAreOut
  /\ OnceInASession
  /\ session # None => Consistent(session, snapshot, lineage, event, applied, left.calls)

\* What every call does to the queue: an event that was written stays, and what
\* is past its draft or settled remains so, a patch with its parent.
KeepsEvents ==
  /\ event' \in [Patch \cup Decision -> Events]
  /\ \A e \in Patch \cup Decision :
       event[e].status # "none" =>
         /\ event'[e].status # "none"
         /\ event[e].status \in {"queued", "acknowledged"} =>
              /\ event'[e].status \in {"queued", "acknowledged"}
              /\ e \in Patch => event'[e].parent = event[e].parent
              /\ event[e].delivery \in Settled => event'[e].delivery \in Settled

\* And every call but one that stages a draft again leaves the parents alone.
KeepsParents ==
  \A e \in Patch : event[e].status # "none" => event'[e].parent = event[e].parent

-----------------------------------------------------------------------------
(* Texts. *)

\* The template's text is a document.
LEMMA BaselineDoc == Base \in Text /\ Baseline \in Doc
  BY DEF Base, Baseline, Doc, Text, Words

\* Rewording one paragraph gives a document.
LEMMA WithHeadDoc ==
  ASSUME NEW doc \in Doc, NEW p \in Paragraph, NEW head \in Words
  PROVE  WithHead(doc, p, head) \in Doc
<1>1. doc[p] \in Text
  BY DEF Doc
<1>2. [doc[p] EXCEPT !.head = head] \in Text
  BY <1>1 DEF Text
<1>3. QED
  BY <1>2 DEF WithHead, Doc

\* Patching a document gives a document.
LEMMA PatchedDoc ==
  ASSUME NEW doc \in Doc, NEW patches \in SUBSET Patch
  PROVE  Patched(doc, patches) \in Doc
<1> SUFFICES ASSUME NEW p \in Paragraph
             PROVE  Patched(doc, patches)[p] \in Text
  BY DEF Patched, Doc
<1> DEFINE here  == {e \in patches : Where[e] = p}
           heads == here \ Insertion
           tails == here \cap Insertion
<1>1. doc[p].head \in Words /\ doc[p].tail \in Seq(Insertion)
  BY DEF Doc, Text
<1>2. heads # {} => (CHOOSE e \in heads : TRUE) \in Words
  BY DEF Words
<1>3. tails # {} => Append(doc[p].tail, CHOOSE e \in tails : TRUE) \in Seq(Insertion)
  <2>1. tails # {} => (CHOOSE e \in tails : TRUE) \in Insertion
    OBVIOUS
  <2>2. QED
    BY <2>1, <1>1
<1>4. QED
  BY <1>1, <1>2, <1>3 DEF Patched, Text

\* The draft is a document.
LEMMA DraftDoc == TypeOK => Draft \in Doc
  BY BaselineDoc DEF TypeOK, Draft

\* The plan of a document names texts.
LEMMA DesiredTexts ==
  ASSUME NEW doc \in Doc
  PROVE  Desired(doc) \in [Paragraph -> Text \cup {None}]
  BY DEF Desired, Doc

-----------------------------------------------------------------------------
(* The session a call works on. *)

\* ensure_session leaves a session of the template it looked at, and a
\* consistent state.
LEMMA EnsuredConsistent ==
  ASSUME IInv, NEW t \in Nat
  PROVE  /\ Consistent(Ensured(t), Persisted(t), Lineage(t), event, applied, left.calls)
         /\ Ensured(t).template = t
         /\ lineage <= Lineage(t)
<1> USE DEF IInv
<1>1. CASE Rebinds(t)
  <2>1. /\ Ensured(t) = Fresh(t) /\ Lineage(t) = lineage + 1
        /\ Persisted(t) = [snapshot EXCEPT ![0] = File(typed, lineage + 1)]
    BY <1>1 DEF Ensured, Lineage, Persisted, Fresh, Session
  <2>2. Fresh(t) \in Sessions /\ Fresh(t).n = 0 /\ Fresh(t).text = typed /\ Fresh(t).template = t
        /\ Len(Fresh(t).staged) = 0
    BY DEF Fresh, Session, Sessions, TypeOK
  <2>3. 0 \in Numbers /\ File(typed, lineage + 1) \in Files
    BY ReviewSessionAssumption DEF Numbers, File, Files, TypeOK
  <2>4. /\ Persisted(t) \in [Numbers -> Files]
        /\ Persisted(t)[0] = File(typed, lineage + 1)
        /\ Persisted(t)[0].of = lineage + 1
    BY <2>1, <2>3 DEF TypeOK, File
  <2>5. \A x \in applied : x.of <= lineage /\ x.of \in Nat
    BY DEF TypeOK, Applied
  <2>6. lineage \in Nat /\ left.calls \in 0..MaxCalls
    BY DEF TypeOK
  <2>7. MaxCalls \in Nat
    BY ReviewSessionAssumption
  <2>8. \A n \in 0..Fresh(t).n : Persisted(t)[n].of = lineage + 1
    BY <2>2, <2>4
  <2>9. \A x \in applied : x.of <= lineage + 1 /\ x.of # lineage + 1
    BY <2>5, <2>6
  <2>10. QED
    BY <2>1, <2>2, <2>4, <2>6, <2>7, <2>8, <2>9 DEF Consistent
<1>2. CASE ~Rebinds(t)
  <2>1. session # None /\ session.template = t
    BY <1>2 DEF Rebinds
  <2>2. Consistent(session, snapshot, lineage, event, applied, left.calls)
    BY <2>1
  <2>3. snapshot[session.n].of = lineage /\ NoFile.of = 0 /\ lineage > 0
    BY <2>2 DEF Consistent, File, NoFile
  <2>4. snapshot[session.n] # NoFile
    BY <2>3
  <2>5. Ensured(t) = session /\ Lineage(t) = lineage /\ Persisted(t) = snapshot
    BY <1>2, <2>4 DEF Ensured, Lineage, Persisted
  <2>6. lineage \in Nat
    BY DEF TypeOK
  <2>7. QED
    BY <2>1, <2>2, <2>5, <2>6
<1>3. QED
  BY <1>1, <1>2

\* What is said of the session stays true when the queue keeps parents and
\* fewer calls are left.
LEMMA ConsistentLater ==
  ASSUME TypeOK, AppliedAreOut, KeepsEvents, KeepsParents, NEW s, NEW files, NEW of,
         NEW calls \in Nat, NEW less \in Nat, less <= calls,
         Consistent(s, files, of, event, applied, calls)
  PROVE  Consistent(s, files, of, event', applied, less)
<1> USE DEF Consistent
<1>1. s.n + less <= MaxCalls
  BY ReviewSessionAssumption DEF Sessions
<1>2. ASSUME NEW k \in 1..Len(s.staged)
      PROVE  /\ event'[s.staged[k]].status # "none"
             /\ StagedLast(s.staged, k) => event'[s.staged[k]].parent = <<s.n, k - 1>>
  <2>1. s.staged[k] \in Patch
    BY <1>2 DEF Sessions
  <2>2. QED
    BY <1>2, <2>1 DEF KeepsEvents, KeepsParents
<1>3. ASSUME NEW x \in applied
      PROVE  event'[x.patch].parent = event[x.patch].parent
  <2>1. x.patch \in Patch /\ event[x.patch].status \in {"queued", "acknowledged"}
    BY <1>3 DEF TypeOK, AppliedAreOut, Applied
  <2>2. QED
    BY <2>1 DEF KeepsEvents
<1>4. QED
  BY <1>1, <1>2, <1>3

\* What a session is when a call that only looked at it has been made.
LEMMA EnsureStep ==
  ASSUME IInv, Ensure(template), KeepsEvents, KeepsParents, Spend, UNCHANGED <<template, applied>>
  PROVE  /\ Consistent(session', snapshot', lineage', event', applied', left'.calls)
         /\ session'.template = template'
         /\ lineage <= lineage'
<1>1. template \in Nat /\ left.calls \in Nat /\ left'.calls \in Nat /\ left'.calls <= left.calls
  BY ReviewSessionAssumption DEF IInv, TypeOK, Spend
<1>2. Consistent(session', snapshot', lineage', event, applied, left.calls)
      /\ session'.template = template /\ lineage <= lineage'
  BY <1>1, EnsuredConsistent DEF Ensure
<1>3. QED
  BY <1>1, <1>2, ConsistentLater DEF IInv

\* Publishing a snapshot gives a consistent state on the next number.
LEMMA PublishStep ==
  ASSUME IInv, NEW text \in Doc, Publish(text), KeepsEvents, KeepsParents, Spend
  PROVE  /\ Consistent(session', snapshot', lineage', event', applied, left'.calls)
         /\ session'.template = template
         /\ session'.n = Ensured(template).n + 1
         /\ session'.text = text
         /\ lineage <= lineage' /\ lineage' = Lineage(template)
<1> DEFINE s == Ensured(template)
           of == Lineage(template)
           files == Persisted(template)
<1>1. template \in Nat /\ left.calls \in Nat /\ left'.calls = left.calls - 1 /\ left.calls > 0
  BY ReviewSessionAssumption DEF IInv, TypeOK, Spend
<1>2. Consistent(s, files, of, event, applied, left.calls) /\ s.template = template /\ lineage <= of
  BY <1>1, EnsuredConsistent
<1>3. /\ session' = Session(s.base, s.n + 1, text, <<>>, s.template)
      /\ snapshot' = [files EXCEPT ![s.n + 1] = File(text, of)]
      /\ lineage' = of
  BY DEF Publish
<1> HIDE DEF s, of, files
<1>4. s \in Sessions /\ of \in Nat /\ of > 0 /\ files \in [Numbers -> Files]
      /\ s.n + left.calls <= MaxCalls
  BY <1>2 DEF Consistent
<1>5. s.n \in Nat /\ s.n + 1 \in Numbers
  BY <1>1, <1>4, ReviewSessionAssumption DEF Sessions, Numbers
<1>6. /\ session' \in Sessions /\ session'.n = s.n + 1 /\ session'.text = text
      /\ session'.template = template /\ Len(session'.staged) = 0
  BY <1>2, <1>3, <1>4 DEF Session, Sessions
<1>7. File(text, of) \in Files /\ File(text, of).of = of
  BY <1>4 DEF File, Files
<1>8. /\ snapshot' \in [Numbers -> Files]
      /\ snapshot'[s.n + 1] = File(text, of)
      /\ \A n \in Numbers : n # s.n + 1 => snapshot'[n] = files[n]
  BY <1>3, <1>4, <1>5, <1>7
<1>9. ASSUME NEW n \in 0..session'.n
      PROVE  snapshot'[n].of = of
  <2>1. CASE n = s.n + 1
    BY <2>1, <1>8, <1>7
  <2>2. CASE n # s.n + 1
    <3>1. n \in 0..s.n /\ n \in Numbers
      BY <2>2, <1>5, <1>6, ReviewSessionAssumption DEF Numbers
    <3>2. QED
      BY <3>1, <2>2, <1>8, <1>2 DEF Consistent
  <2>3. QED
    BY <2>1, <2>2
<1>10. session'.n + left'.calls <= MaxCalls
  BY <1>1, <1>4, <1>5, <1>6, ReviewSessionAssumption
<1>11. ASSUME NEW x \in applied
       PROVE  x.of <= of /\ (x.of = of => event'[x.patch].parent[1] = x.n - 1 /\ x.n <= session'.n)
  <2>1. /\ x.of <= of
        /\ x.of = of => event[x.patch].parent[1] = x.n - 1 /\ x.n <= s.n
    BY <1>2 DEF Consistent
  <2>2. x.patch \in Patch /\ x.n \in Nat /\ event[x.patch].status \in {"queued", "acknowledged"}
    BY DEF IInv, TypeOK, Applied, AppliedAreOut
  <2>3. event'[x.patch].parent = event[x.patch].parent
    BY <2>2 DEF KeepsEvents
  <2>4. QED
    BY <2>1, <2>2, <2>3, <1>5, <1>6
<1>12. Consistent(session', snapshot', lineage', event', applied, left'.calls)
  BY <1>3, <1>4, <1>6, <1>8, <1>9, <1>10, <1>11 DEF Consistent
<1>13. QED
  BY <1>2, <1>3, <1>6, <1>12 DEF s, of

-----------------------------------------------------------------------------
(* The queue: every call keeps events. *)

\* Marking events keeps the queue's shape.
LEMMA MarkedEvent ==
  ASSUME TypeOK, NEW e \in Patch \cup Decision,
         NEW status \in {"queued", "acknowledged"},
         NEW delivery \in {"queued", "applied", "acknowledged"}
  PROVE  /\ Marked(e, status, delivery) \in Events
         /\ Marked(e, status, delivery).status = status
         /\ Marked(e, status, delivery).delivery = delivery
         /\ Marked(e, status, delivery).parent = event[e].parent
<1>1. event[e] \in Events
  BY DEF TypeOK
<1>2. QED
  BY <1>1 DEF Marked, Event, Events

\* Delivering settled states keeps events and parents.
LEMMA DeliverKeeps ==
  ASSUME TypeOK, NEW events \in SUBSET (Patch \cup Decision),
         NEW status \in {"queued", "acknowledged"}, NEW delivery \in Settled,
         event' = Deliver(events, status, delivery)
  PROVE  KeepsEvents /\ KeepsParents
<1>1. ASSUME NEW e \in Patch \cup Decision
      PROVE  /\ event'[e] = IF e \in events THEN Marked(e, status, delivery) ELSE event[e]
             /\ event'[e] \in Events
             /\ e \in events => /\ event'[e].status = status /\ event'[e].delivery = delivery
                                 /\ event'[e].parent = event[e].parent
  BY <1>1, MarkedEvent DEF Deliver, TypeOK, Settled
<1>2. event' \in [Patch \cup Decision -> Events]
  BY <1>1 DEF Deliver
<1>3. QED
  BY <1>1, <1>2 DEF KeepsEvents, KeepsParents, Settled

\* Every call keeps events, and every call but staging keeps parents.
LEMMA NextKeepsEvents ==
  ASSUME TypeOK, [Next]_vars
  PROVE  KeepsEvents /\ (KeepsParents \/ \E e \in Patch : Stage(e))
<1> USE DEF KeepsEvents, KeepsParents
<1>1. event \in [Patch \cup Decision -> Events]
  BY DEF TypeOK
<1>2. CASE UNCHANGED event
  BY <1>1, <1>2
<1>3. ASSUME NEW e \in Patch, Stage(e) PROVE KeepsEvents
  <2>1. Tip(Ensured(template)) \in Nat \X Nat
    <3>1. Ensured(template) \in Sessions
      BY DEF TypeOK, Ensured, Rebinds, Fresh, Session, Sessions
    <3>2. QED
      BY <3>1 DEF Tip, Sessions
  <2>2. Event("draft", "staged", Tip(Ensured(template)), 0, "none") \in Events
    BY <2>1 DEF Event, Events
  <2>3. event' \in [Patch \cup Decision -> Events]
    BY <1>1, <1>3, <2>2 DEF Stage, PatchEvent
  <2>4. event[e].status \in {"none", "draft"} /\ event'[e].status = "draft"
    BY <1>1, <1>3 DEF Stage, PatchEvent, Event
  <2>5. \A f \in Patch \cup Decision : f # e => event'[f] = event[f]
    BY <1>1, <1>3 DEF Stage, PatchEvent
  <2>6. QED
    BY <2>3, <2>4, <2>5
<1>4. ASSUME NEW d \in Decision, NEW verdict \in {"accept", "defer"}, Decide(d, verdict)
      PROVE KeepsEvents /\ KeepsParents
  <2>1. Event("draft", "staged", <<0, 0>>, 0, verdict) \in Events
    BY DEF Event, Events
  <2>2. event' \in [Patch \cup Decision -> Events]
    BY <1>1, <1>4, <2>1 DEF Decide
  <2>3. event[d].status \in {"none", "draft"} /\ d \notin Patch
    BY <1>4, ReviewSessionAssumption DEF Decide
  <2>4. event'[d].status = "draft"
    BY <1>1, <1>4 DEF Decide, Event
  <2>5. \A f \in Patch \cup Decision : f # d => event'[f] = event[f]
    BY <1>1, <1>4 DEF Decide
  <2>6. QED
    BY <2>2, <2>3, <2>4, <2>5
<1>5. ASSUME Dispatch PROVE KeepsEvents /\ KeepsParents
  <2>1. ASSUME NEW e \in Patch \cup Decision
        PROVE  /\ event'[e] \in Events
               /\ event[e].status = "draft" => event'[e].status = "queued"
               /\ event[e].status # "draft" => event'[e] = event[e]
               /\ event'[e].parent = event[e].parent
    <3>1. event[e] \in Events /\ batch + 1 \in Nat
      BY DEF TypeOK
    <3>2. event'[e] = IF event[e].status = "draft"
                        THEN Event("queued", "queued", event[e].parent, batch + 1, event[e].verdict)
                        ELSE event[e]
      BY <1>5 DEF Dispatch
    <3>3. QED
      BY <3>1, <3>2 DEF Event, Events
  <2>2. event' \in [Patch \cup Decision -> Events]
    BY <1>5, <2>1 DEF Dispatch
  <2>3. QED
    BY <2>1, <2>2
<1>6. ASSUME NEW patches \in SUBSET Patch, Apply(patches) PROVE KeepsEvents /\ KeepsParents
  BY <1>6, DeliverKeeps DEF Apply, ApplyAll, Settled
<1>7. ASSUME NEW e \in Patch \cup Decision, Acknowledge(e) PROVE KeepsEvents /\ KeepsParents
  BY <1>7, DeliverKeeps DEF Acknowledge, Settled
<1>8. ASSUME NEW decisions \in SUBSET Ready, Settle(decisions) PROVE KeepsEvents /\ KeepsParents
  <2>1. ASSUME NEW e \in Patch \cup Decision
        PROVE  /\ event'[e] \in Events
               /\ event'[e].status = event[e].status /\ event'[e].parent = event[e].parent
               /\ e \in decisions => event'[e].delivery = "applied"
               /\ e \notin decisions => event'[e] = event[e]
    <3>1. e \in decisions => event[e].status \in {"queued", "acknowledged"}
      BY DEF Ready
    <3>2. event[e] \in Events
      BY DEF TypeOK
    <3>3. event'[e] = IF e \in decisions THEN Marked(e, event[e].status, "applied") ELSE event[e]
      BY <1>8 DEF Settle, SettleAll
    <3>4. QED
      BY <3>1, <3>2, <3>3, MarkedEvent
  <2>2. event' \in [Patch \cup Decision -> Events]
    BY <1>8, <2>1 DEF Settle, SettleAll
  <2>3. QED
    BY <2>1, <2>2 DEF Settled
<1>9. QED
  <2>1. CASE Reviewer
    BY <2>1, <1>2, <1>3, <1>4, <1>5 DEF Reviewer, PublishHandEdit, HandEdit
  <2>2. CASE Agent
    <3>1. ASSUME NEW b \in 1..batch, ApplyBatch(b) PROVE KeepsEvents /\ KeepsParents
      BY <3>1, <1>6 DEF ApplyBatch
    <3>2. ASSUME NEW e \in Patch, ApplyPatch(e) PROVE KeepsEvents /\ KeepsParents
      BY <3>2, <1>6 DEF ApplyPatch
    <3>3. QED
      BY <2>2, <1>2, <1>7, <1>8, <3>1, <3>2
         DEF Agent, SettleReady, Edit, DocumentEdit, Commit, Revert, DecideNow
  <2>3. QED
    BY <2>1, <2>2, <1>2 DEF Next, vars

-----------------------------------------------------------------------------
(* The invariant, one action at a time. *)

\* The types of what is neither session nor queue.
FilesTyped ==
  /\ template \in Nat /\ batch \in Nat
  /\ gone \subseteq Revision
  /\ typed \in Doc
  /\ draft = None \/ draft \in Doc
  /\ bound \in [typed : Doc, body : Doc]
  /\ plan \in [Paragraph -> Text \cup {None}]
  /\ left \in [calls : 0..MaxCalls, hands : 0..MaxHandEdits]

\* A call spends one of the calls that are left.
LEMMA Spent ==
  ASSUME TypeOK, Spend
  PROVE  /\ left' \in [calls : 0..MaxCalls, hands : 0..MaxHandEdits]
         /\ left'.calls \in Nat /\ left.calls \in Nat /\ left'.calls <= left.calls
         /\ left'.hands = left.hands
  BY ReviewSessionAssumption DEF TypeOK, Spend

\* What was published stays settled.
LEMMA AppliedLater ==
  ASSUME TypeOK, AppliedAreOut, KeepsEvents, NEW x \in applied
  PROVE  /\ x \in Applied
         /\ event'[x.patch].status \in {"queued", "acknowledged"}
         /\ event'[x.patch].delivery \in Settled
         /\ x.of \in Nat /\ x.of <= lineage
<1>1. /\ x \in Applied /\ x.patch \in Patch /\ x.of \in Nat /\ x.of <= lineage
      /\ event[x.patch].status \in {"queued", "acknowledged"}
      /\ event[x.patch].delivery \in Settled
  BY DEF TypeOK, AppliedAreOut, Applied
<1>2. QED
  BY <1>1 DEF KeepsEvents

\* A call that leaves the session alone.
LEMMA KeptSession ==
  ASSUME IInv, KeepsEvents, KeepsParents, FilesTyped', template <= template',
         left'.calls <= left.calls, UNCHANGED <<session, snapshot, lineage, applied>>
  PROVE  IInv'
<1>1. TypeOK'
  <2>1. session' = None \/ (session' \in Sessions /\ session'.template <= template')
    BY DEF IInv, TypeOK, FilesTyped, Sessions
  <2>2. QED
    BY <2>1, AppliedLater DEF IInv, TypeOK, FilesTyped, KeepsEvents
<1>2. AppliedAreOut'
  BY AppliedLater DEF IInv, AppliedAreOut
<1>3. OnceInASession'
  BY DEF IInv, OnceInASession
<1>4. ASSUME session' # None
      PROVE  Consistent(session', snapshot', lineage', event', applied', left'.calls)
  <2>1. left.calls \in Nat /\ left'.calls \in Nat
    BY ReviewSessionAssumption DEF IInv, TypeOK, FilesTyped
  <2>2. Consistent(session, snapshot, lineage, event, applied, left.calls)
    BY <1>4 DEF IInv
  <2>3. Consistent(session, snapshot, lineage, event', applied, left'.calls)
    BY <2>1, <2>2, ConsistentLater DEF IInv
  <2>4. QED
    BY <2>3
<1>5. QED
  BY <1>1, <1>2, <1>3, <1>4 DEF IInv

\* A call that writes the session.
LEMMA NewSession ==
  ASSUME IInv, KeepsEvents, FilesTyped', lineage <= lineage',
         Consistent(session', snapshot', lineage', event', applied', left'.calls),
         session'.template <= template', OnceInASession',
         \A x \in applied' :
           x \in applied \/ /\ x \in Applied /\ x.of <= lineage'
                            /\ event'[x.patch].status \in {"queued", "acknowledged"}
                            /\ event'[x.patch].delivery \in Settled
  PROVE  IInv'
<1>1. session' \in Sessions /\ snapshot' \in [Numbers -> Files] /\ lineage' \in Nat
  BY DEF Consistent
<1>2. ASSUME NEW x \in applied'
      PROVE  /\ x \in Applied /\ x.of <= lineage'
             /\ event'[x.patch].status \in {"queued", "acknowledged"}
             /\ event'[x.patch].delivery \in Settled
  <2>1. CASE x \in applied
    <3>1. /\ x \in Applied /\ x.of \in Nat /\ x.of <= lineage
          /\ event'[x.patch].status \in {"queued", "acknowledged"}
          /\ event'[x.patch].delivery \in Settled
      BY <2>1, AppliedLater DEF IInv
    <3>2. lineage \in Nat
      BY DEF IInv, TypeOK
    <3>3. QED
      BY <3>1, <3>2, <1>1
  <2>2. CASE x \notin applied
    BY <2>2, <1>2
  <2>3. QED
    BY <2>1, <2>2
<1>3. TypeOK'
  BY <1>1, <1>2 DEF TypeOK, FilesTyped, KeepsEvents
<1>4. AppliedAreOut'
  BY <1>2 DEF AppliedAreOut
<1>5. QED
  BY <1>3, <1>4 DEF IInv

\* A call that only looks at the session.
LEMMA EnsuredInv ==
  ASSUME IInv, KeepsEvents, KeepsParents, Ensure(template), Spend, FilesTyped',
         UNCHANGED <<template, applied>>
  PROVE  IInv'
<1>1. /\ Consistent(session', snapshot', lineage', event', applied', left'.calls)
      /\ session'.template = template' /\ lineage <= lineage'
  BY EnsureStep
<1>2. session'.template <= template'
  BY <1>1 DEF FilesTyped
<1>3. OnceInASession'
  BY DEF IInv, OnceInASession
<1>4. \A x \in applied' : x \in applied
  OBVIOUS
<1>5. QED
  BY <1>1, <1>2, <1>3, <1>4, NewSession

\* A call that publishes a snapshot and no patch.
LEMMA PublishedInv ==
  ASSUME IInv, KeepsEvents, KeepsParents, NEW text \in Doc, Publish(text), Spend, FilesTyped',
         UNCHANGED <<template, applied>>
  PROVE  IInv'
<1>1. /\ Consistent(session', snapshot', lineage', event', applied', left'.calls)
      /\ session'.template = template' /\ lineage <= lineage'
  BY PublishStep
<1>2. session'.template <= template'
  BY <1>1 DEF FilesTyped
<1>3. OnceInASession'
  BY DEF IInv, OnceInASession
<1>4. \A x \in applied' : x \in applied
  OBVIOUS
<1>5. QED
  BY <1>1, <1>2, <1>3, <1>4, NewSession

\* A commit writes documents and a plan.
LEMMA CommitTypes ==
  ASSUME TypeOK, NEW doc \in Doc, CommitOf(doc), Spend, UNCHANGED <<template, gone, batch>>
  PROVE  FilesTyped'
<1>1. Desired(doc) \in [Paragraph -> Text \cup {None}]
  BY DesiredTexts
<1>2. QED
  BY <1>1, Spent DEF CommitOf, TypeOK, FilesTyped, Bound

\* Staging a patch.
LEMMA StageInv ==
  ASSUME IInv, KeepsEvents, NEW e \in Patch, Stage(e)
  PROVE  IInv'
<1> DEFINE s == Ensured(template)
<1>1. template \in Nat /\ Spend /\ left.calls \in Nat /\ left'.calls \in Nat
      /\ left'.calls <= left.calls
  BY Spent DEF IInv, TypeOK, Stage, PatchEvent
<1>2. /\ Consistent(s, Persisted(template), Lineage(template), event, applied, left.calls)
      /\ s.template = template /\ lineage <= Lineage(template)
  BY <1>1, EnsuredConsistent
<1>3. event[e].status \in {"none", "draft"} /\ left'.calls <= left.calls
  BY <1>1 DEF Stage
<1>4. /\ session' = Session(s.base, s.n, s.text, Append(s.staged, e), s.template)
      /\ snapshot' = Persisted(template) /\ lineage' = Lineage(template)
      /\ applied' = applied /\ template' = template
      /\ event' = [event EXCEPT ![e] = Event("draft", "staged", Tip(s), 0, "none")]
      /\ FilesTyped'
  BY <1>1, Spent DEF Stage, PatchEvent, IInv, TypeOK, FilesTyped
<1>5. /\ event'[e].status = "draft" /\ event'[e].parent = <<s.n, Len(s.staged)>>
      /\ \A f \in Patch : f # e => event'[f] = event[f]
  BY <1>4 DEF IInv, TypeOK, Event, Tip
<1> HIDE DEF s
<1>6. s \in Sessions
  BY <1>2 DEF Consistent
<1>7. /\ session' \in Sessions /\ session'.n = s.n /\ session'.text = s.text
      /\ session'.template = template' /\ session'.staged = Append(s.staged, e)
  BY <1>2, <1>4, <1>6 DEF Session, Sessions
<1>8. ASSUME NEW k \in 1..Len(session'.staged)
      PROVE  /\ event'[session'.staged[k]].status # "none"
             /\ StagedLast(session'.staged, k) =>
                  event'[session'.staged[k]].parent = <<session'.n, k - 1>>
  <2>1. /\ s.staged \in Seq(Patch) /\ Len(s.staged) \in Nat
        /\ Len(session'.staged) = Len(s.staged) + 1
        /\ session'.staged[Len(s.staged) + 1] = e
        /\ \A j \in 1..Len(s.staged) : session'.staged[j] = s.staged[j]
    BY <1>6, <1>7 DEF Sessions
  <2>2. CASE k = Len(s.staged) + 1
    <3>1. session'.staged[k] = e /\ k - 1 = Len(s.staged)
      BY <2>1, <2>2
    <3>2. QED
      BY <3>1, <1>5, <1>7
  <2>3. CASE k # Len(s.staged) + 1 /\ s.staged[k] = e
    <3>1. session'.staged[k] = e /\ Len(s.staged) + 1 \in k + 1..Len(session'.staged)
      BY <2>1, <2>3
    <3>2. ~StagedLast(session'.staged, k)
      BY <2>1, <3>1 DEF StagedLast
    <3>3. QED
      BY <3>1, <3>2, <1>5
  <2>4. CASE k # Len(s.staged) + 1 /\ s.staged[k] # e
    <3>1. k \in 1..Len(s.staged) /\ session'.staged[k] = s.staged[k] /\ s.staged[k] \in Patch
      BY <2>1, <2>4
    <3>2. ASSUME StagedLast(session'.staged, k), NEW j \in k + 1..Len(s.staged)
          PROVE  s.staged[j] # s.staged[k]
      <4>1. j \in k + 1..Len(session'.staged) /\ j \in 1..Len(s.staged)
        BY <2>1, <3>1, <3>2
      <4>2. session'.staged[j] # session'.staged[k] /\ session'.staged[j] = s.staged[j]
        BY <2>1, <3>2, <4>1 DEF StagedLast
      <4>3. QED
        BY <3>1, <4>2
    <3>3. StagedLast(session'.staged, k) => StagedLast(s.staged, k)
      BY <3>2 DEF StagedLast
    <3>4. QED
      BY <3>1, <3>3, <2>4, <1>2, <1>5, <1>7 DEF Consistent
  <2>5. QED
    BY <2>2, <2>3, <2>4
<1>9. Consistent(session', snapshot', lineage', event', applied', left'.calls)
  <2>1. ASSUME NEW x \in applied
        PROVE  event'[x.patch].parent = event[x.patch].parent
    BY DEF KeepsEvents, IInv, TypeOK, Applied, AppliedAreOut
  <2>2. s.n \in Nat /\ s.n + left'.calls <= MaxCalls
    BY <1>1, <1>2, <1>6, ReviewSessionAssumption DEF Consistent, Sessions
  <2>3. QED
    BY <1>2, <1>4, <1>7, <1>8, <2>1, <2>2 DEF Consistent
<1>10. OnceInASession'
  BY <1>4 DEF IInv, OnceInASession
<1>11. session'.template <= template' /\ lineage <= lineage'
  BY <1>1, <1>2, <1>4, <1>7
<1>12. \A x \in applied' : x \in applied
  BY <1>4
<1>13. QED
  BY <1>4, <1>9, <1>10, <1>11, <1>12, NewSession

\* Applying a batch.  A patch that was already published in this session has a
\* parent below the current snapshot, and the chain the batch must form has
\* none: so what is published now was not published before in this session.
LEMMA ApplyInv ==
  ASSUME IInv, KeepsEvents, KeepsParents, NEW patches \in SUBSET Patch, Apply(patches)
  PROVE  IInv'
<1> DEFINE s   == Ensured(template)
           doc == Patched(Draft, patches)
           new == {[patch |-> e, of |-> Lineage(template), n |-> s.n + 1] : e \in patches}
<1>1. /\ Spend /\ Follow(patches, s.n) /\ CommitOf(doc)
      /\ event' = Deliver(patches, "queued", "applied")
      /\ applied' = applied \cup new
      /\ UNCHANGED <<template, gone, batch>>
  BY DEF Apply, ApplyAll
<1>2. doc \in Doc
  BY DraftDoc, PatchedDoc DEF IInv
<1>3. FilesTyped'
  BY <1>1, <1>2, CommitTypes DEF IInv
<1>4. template \in Nat
  BY DEF IInv, TypeOK
<1>5. /\ Consistent(session', snapshot', lineage', event', applied, left'.calls)
      /\ session'.template = template /\ session'.n = s.n + 1
      /\ lineage <= lineage' /\ lineage' = Lineage(template)
  <2>1. Publish(doc)
    BY <1>1 DEF CommitOf
  <2>2. QED
    BY <1>1, <1>2, <2>1, PublishStep
<1>6. /\ Consistent(s, Persisted(template), Lineage(template), event, applied, left.calls)
      /\ s.n \in Nat /\ Lineage(template) \in Nat
  BY <1>4, EnsuredConsistent DEF Consistent, Sessions
<1> HIDE DEF s, doc
<1>7. ASSUME NEW e \in patches
      PROVE  /\ event[e].parent[1] = s.n
             /\ event'[e].status = "queued" /\ event'[e].delivery = "applied"
             /\ event'[e].parent = event[e].parent
  <2>1. event[e].parent \in {<<s.n, k>> : k \in 0..(Cardinality(patches) - 1)}
    BY <1>1 DEF Follow
  <2>2. event[e].parent[1] = s.n
    BY <2>1
  <2>3. event'[e] = Marked(e, "queued", "applied")
    BY <1>1 DEF Deliver
  <2>4. QED
    BY <2>2, <2>3, MarkedEvent DEF IInv
<1>8. ASSUME NEW x \in new
      PROVE  /\ x \in Applied /\ x.patch \in patches /\ x.of = lineage' /\ x.n = s.n + 1
             /\ event'[x.patch].status \in {"queued", "acknowledged"}
             /\ event'[x.patch].delivery \in Settled
             /\ event'[x.patch].parent[1] = x.n - 1
  <2>1. PICK e \in patches : x = [patch |-> e, of |-> Lineage(template), n |-> s.n + 1]
    BY <1>8
  <2>2. x \in Applied /\ x.patch = e /\ x.of = lineage' /\ x.n = s.n + 1
    BY <2>1, <1>5, <1>6 DEF Applied
  <2>3. QED
    BY <2>2, <1>6, <1>7 DEF Settled
<1>9. ASSUME NEW x \in applied, x.of = lineage'
      PROVE  /\ event[x.patch].parent[1] = x.n - 1 /\ x.n <= s.n
             /\ x.n \in Nat
  BY <1>5, <1>6, <1>9 DEF Consistent, IInv, TypeOK, Applied
<1>10. OnceInASession'
  <2>1. SUFFICES ASSUME NEW x \in applied', NEW y \in applied',
                        x.patch = y.patch, x.of = y.of
                 PROVE  x = y
    BY DEF OnceInASession
  <2>2. ASSUME NEW u \in new, NEW v \in applied, u.patch = v.patch, u.of = v.of
        PROVE  FALSE
    <3>1. event[u.patch].parent[1] = s.n /\ v.of = lineage'
      BY <2>2, <1>7, <1>8
    <3>2. event[u.patch].parent[1] = v.n - 1 /\ v.n <= s.n /\ v.n \in Nat
      BY <2>2, <3>1, <1>9
    <3>3. QED
      BY <3>1, <3>2, <1>6
  <2>3. CASE x \in applied /\ y \in applied
    BY <2>1, <2>3 DEF IInv, OnceInASession
  <2>4. CASE x \in new /\ y \in new
    BY <2>1, <2>4
  <2>5. QED
    BY <2>1, <2>2, <2>3, <2>4, <1>1
<1>11. Consistent(session', snapshot', lineage', event', applied', left'.calls)
  <2>1. ASSUME NEW x \in applied'
        PROVE  /\ x.of <= lineage'
               /\ x.of = lineage' => event'[x.patch].parent[1] = x.n - 1 /\ x.n <= session'.n
    <3>1. CASE x \in applied
      BY <3>1, <1>5 DEF Consistent
    <3>2. CASE x \in new
      BY <3>2, <1>5, <1>6, <1>8
    <3>3. QED
      BY <3>1, <3>2, <1>1
  <2>2. QED
    BY <2>1, <1>5 DEF Consistent
<1>12. session'.template <= template'
  BY <1>1, <1>4, <1>5
<1>13. ASSUME NEW x \in applied'
       PROVE  x \in applied \/ /\ x \in Applied /\ x.of <= lineage'
                               /\ event'[x.patch].status \in {"queued", "acknowledged"}
                               /\ event'[x.patch].delivery \in Settled
  BY <1>1, <1>5, <1>6, <1>8
<1>14. QED
  BY <1>3, <1>5, <1>10, <1>11, <1>12, <1>13, NewSession

\* Settling decisions.  The session is bootstrapped again when the template
\* moved; the published patches are then of an earlier session.
LEMMA SettleInv ==
  ASSUME IInv, KeepsEvents, KeepsParents, NEW decisions \in SUBSET Ready, Settle(decisions)
  PROVE  IInv'
<1> DEFINE s == Ensured(template')
<1>1. Spend /\ left.calls \in Nat /\ left'.calls \in Nat /\ left'.calls <= left.calls
  BY Spent DEF Settle, SettleAll, IInv
<1>2. template \in Nat /\ template' \in Nat /\ template' >= template
  BY DEF Settle, SettleAll, IInv, TypeOK
<1>3. /\ Consistent(s, Persisted(template'), Lineage(template'), event, applied, left.calls)
      /\ s.template = template' /\ lineage <= Lineage(template')
  BY <1>2, EnsuredConsistent
<1>4. Consistent(s, Persisted(template'), Lineage(template'), event', applied, left'.calls)
  BY <1>1, <1>3, ConsistentLater DEF IInv
<1>5. /\ session' = Session(s.base + 1, s.n, s.text, s.staged, s.template)
      /\ snapshot' = Persisted(template') /\ lineage' = Lineage(template')
      /\ applied' = applied
  BY DEF Settle, SettleAll
<1>6. gone' \subseteq Revision
  <2>1. \A d \in decisions : d \in Decision
    BY DEF Ready
  <2>2. QED
    BY <2>1, ReviewSessionAssumption DEF Settle, SettleAll, IInv, TypeOK
<1>7. FilesTyped'
  BY <1>1, <1>2, <1>6, Spent DEF Settle, SettleAll, IInv, TypeOK, FilesTyped
<1> HIDE DEF s
<1>8. /\ session' \in Sessions /\ session'.n = s.n /\ session'.text = s.text
      /\ session'.staged = s.staged /\ session'.template = template'
  BY <1>3, <1>5 DEF Consistent, Session, Sessions
<1>9. Consistent(session', snapshot', lineage', event', applied', left'.calls)
  BY <1>4, <1>5, <1>8 DEF Consistent
<1>10. OnceInASession'
  BY <1>5 DEF IInv, OnceInASession
<1>11. session'.template <= template' /\ lineage <= lineage'
  BY <1>2, <1>3, <1>5, <1>8
<1>12. \A x \in applied' : x \in applied
  BY <1>5
<1>13. QED
  BY <1>7, <1>9, <1>10, <1>11, <1>12, NewSession

\* Every step keeps the invariant.
LEMMA NextInv == IInv /\ [Next]_vars => IInv'
<1> SUFFICES ASSUME IInv, [Next]_vars PROVE IInv'
  OBVIOUS
<1>0. TypeOK /\ KeepsEvents /\ FilesTyped
  BY NextKeepsEvents DEF IInv, TypeOK, FilesTyped
<1>s. CASE \E e \in Patch : Stage(e)
  BY <1>0, <1>s, StageInv
<1> SUFFICES ASSUME ~(\E e \in Patch : Stage(e)) PROVE IInv'
  BY <1>s
<1>k. KeepsParents
  BY NextKeepsEvents DEF IInv
<1>1. CASE UNCHANGED vars
  BY <1>0, <1>1, <1>k, KeptSession DEF vars, FilesTyped
<1>2. ASSUME NEW d \in Decision, NEW verdict \in {"accept", "defer"}, Decide(d, verdict)
      PROVE  IInv'
  <2>1. FilesTyped'
    BY <1>0, <1>2, Spent DEF Decide, FilesTyped
  <2>2. QED
    BY <1>0, <1>2, <2>1, <1>k, EnsuredInv DEF Decide
<1>3. ASSUME Dispatch PROVE IInv'
  <2>1. FilesTyped'
    BY <1>0, <1>3, Spent DEF Dispatch, FilesTyped
  <2>2. QED
    BY <1>0, <1>3, <2>1, <1>k, EnsuredInv DEF Dispatch
<1>4. ASSUME PublishHandEdit PROVE IInv'
  <2>1. FilesTyped'
    BY <1>0, <1>4, Spent DEF PublishHandEdit, FilesTyped
  <2>2. QED
    BY <1>0, <1>4, <2>1, <1>k, PublishedInv DEF PublishHandEdit, FilesTyped
<1>5. ASSUME NEW p \in Paragraph, HandEdit(p) PROVE IInv'
  <2>1. WithHead(typed, p, "hand") \in Doc
    BY <1>0, WithHeadDoc DEF FilesTyped, Words
  <2>2. /\ left' \in [calls : 0..MaxCalls, hands : 0..MaxHandEdits]
        /\ left'.calls <= left.calls
    BY <1>0, <1>5, ReviewSessionAssumption DEF HandEdit, FilesTyped
  <2>3. FilesTyped' /\ template <= template'
    BY <1>0, <1>5, <2>1, <2>2 DEF HandEdit, FilesTyped
  <2>4. QED
    BY <1>0, <1>5, <2>2, <2>3, <1>k, KeptSession DEF HandEdit
<1>6. ASSUME NEW p \in Paragraph, Edit(p) PROVE IInv'
  <2>1. WithHead(Draft, p, "agent") \in Doc
    BY <1>0, DraftDoc, WithHeadDoc DEF Words
  <2>2. WithHead(Draft, p, "agent")[p] \in Text
    BY <2>1 DEF Doc
  <2>3. plan' \in [Paragraph -> Text \cup {None}]
    BY <1>0, <1>6, <2>2 DEF Edit, FilesTyped
  <2>4. bound' \in [typed : Doc, body : Doc]
    BY <1>0, <1>6, BaselineDoc DEF Edit, FilesTyped, Bound
  <2>5. FilesTyped'
    BY <1>0, <1>6, <2>1, <2>3, <2>4, Spent DEF Edit, FilesTyped
  <2>6. QED
    BY <1>0, <1>6, <2>5, <1>k, EnsuredInv DEF Edit
<1>7. ASSUME NEW p \in Paragraph, DocumentEdit(p) PROVE IInv'
  <2>1. WithHead(Draft, p, "agent") \in Doc
    BY <1>0, DraftDoc, WithHeadDoc DEF Words
  <2>2. FilesTyped'
    BY <1>0, <1>7, <2>1, CommitTypes DEF DocumentEdit
  <2>3. QED
    BY <1>0, <1>7, <2>1, <2>2, <1>k, PublishedInv DEF DocumentEdit, CommitOf
<1>8. ASSUME Commit PROVE IInv'
  <2>1. draft \in Doc
    BY <1>0, <1>8 DEF Commit, FilesTyped
  <2>2. FilesTyped'
    BY <1>0, <1>8, <2>1, CommitTypes DEF Commit
  <2>3. QED
    BY <1>0, <1>8, <2>1, <2>2, <1>k, PublishedInv DEF Commit, CommitOf
<1>9. ASSUME Revert PROVE IInv'
  <2>1. FilesTyped' /\ template <= template' /\ left'.calls <= left.calls
    BY <1>0, <1>9, BaselineDoc, Spent DEF Revert, FilesTyped, Bound
  <2>2. QED
    BY <1>0, <1>9, <2>1, <1>k, KeptSession DEF Revert
<1>10. ASSUME NEW e \in Patch \cup Decision, Acknowledge(e) PROVE IInv'
  <2>1. FilesTyped' /\ template <= template' /\ left'.calls <= left.calls
    BY <1>0, <1>10, Spent DEF Acknowledge, FilesTyped
  <2>2. QED
    BY <1>0, <1>10, <2>1, <1>k, KeptSession DEF Acknowledge
<1>11. ASSUME NEW r \in Revision, DecideNow(r) PROVE IInv'
  <2>1. FilesTyped' /\ template <= template' /\ left'.calls <= left.calls
    BY <1>0, <1>11, Spent DEF DecideNow, FilesTyped
  <2>2. QED
    BY <1>0, <1>11, <2>1, <1>k, KeptSession DEF DecideNow
<1>12. QED
  <2>1. CASE Reviewer
    BY <2>1, <1>0, <1>2, <1>3, <1>4, <1>5 DEF Reviewer
  <2>2. CASE Agent
    <3>1. ASSUME NEW b \in 1..batch, ApplyBatch(b) PROVE IInv'
      BY <3>1, <1>0, <1>k, ApplyInv DEF ApplyBatch
    <3>2. ASSUME NEW e \in Patch, ApplyPatch(e) PROVE IInv'
      BY <3>2, <1>0, <1>k, ApplyInv DEF ApplyPatch
    <3>3. ASSUME NEW decisions \in SUBSET Ready, Settle(decisions) PROVE IInv'
      BY <3>3, <1>0, <1>k, SettleInv
    <3>4. QED
      BY <2>2, <1>6, <1>7, <1>8, <1>9, <1>10, <1>11, <3>1, <3>2, <3>3 DEF Agent, SettleReady
  <2>3. QED
    BY <2>1, <2>2, <1>1 DEF Next

\* The invariant holds at the start.
LEMMA InitInv == Init => IInv
<1> SUFFICES ASSUME Init PROVE IInv
  OBVIOUS
<1>1. NoFile \in Files /\ NoEvent \in Events
  BY BaselineDoc DEF NoFile, File, Files, NoEvent, Event, Events
<1>2. left \in [calls : 0..MaxCalls, hands : 0..MaxHandEdits]
  BY ReviewSessionAssumption DEF Init
<1>3. TypeOK
  BY <1>1, <1>2, BaselineDoc DEF Init, TypeOK, Bound
<1>4. QED
  BY <1>3 DEF Init, IInv, AppliedAreOut, OnceInASession

-----------------------------------------------------------------------------
(* Theorems. *)

\* The invariant holds in every state: of every workdir, however it is edited,
\* reviewed and settled (collab.rs, queue.rs, draft.rs).
THEOREM Invariant == Spec => []IInv
  BY InitInv, NextInv, PTL DEF Spec

\* The files keep their shape, and what was applied is settled (collab.rs,
\* queue.rs, edit_state.rs).
THEOREM TypeCorrect == Spec => []TypeOK
<1>1. IInv => TypeOK
  BY DEF IInv
<1>2. QED
  BY <1>1, Invariant, PTL

\* A staged chain continues from the session's current snapshot
\* (stage_patch, publish_current and ensure_session, collab.rs:825-978).
THEOREM ChainRooted == Spec => []StagedChainIsRooted
<1>1. IInv => StagedChainIsRooted
  BY DEF IInv, StagedChainIsRooted, Consistent
<1>2. QED
  BY <1>1, Invariant, PTL

\* A patch is published once in a session (review_apply_batch's parent chain,
\* collab.rs:1581-1598).
THEOREM PublishedOnceInASession == Spec => []OnceInASession
<1>1. IInv => OnceInASession
  BY DEF IInv
<1>2. QED
  BY <1>1, Invariant, PTL

\* The snapshot files under the session's numbers are its own
\* (persist_snapshot and publish_current, collab.rs:345-372 and 917-978).
THEOREM SnapshotsOwned == Spec => []SnapshotsAreOfThisSession
<1>1. IInv => SnapshotsAreOfThisSession
  BY DEF IInv, SnapshotsAreOfThisSession, Consistent
<1>2. QED
  BY <1>1, Invariant, PTL

\* A call that only looks at the session does not make it drift.
LEMMA EnsureNoDrift ==
  ASSUME Ensure(template), UNCHANGED <<template, typed>>, ~Drift
  PROVE  ~Drift'
  BY DEF Ensure, Ensured, Rebinds, Fresh, Session, Drift, Drifts

\* A call that publishes the text it writes leaves no drift.
LEMMA PublishNoDrift ==
  ASSUME NEW text, Publish(text), typed' = text
  PROVE  ~Drift'
  BY DEF Publish, Session, Drift, Drifts

\* Of all steps only a hand edit makes typed.md drift.
LEMMA DriftStep ==
  ASSUME TypeOK, [Next]_vars, ~Drift, Drift'
  PROVE  left'.hands < left.hands
<1>1. CASE UNCHANGED vars
  BY <1>1 DEF vars, Drift, Drifts
<1>2. ASSUME NEW e \in Patch, Stage(e) PROVE FALSE
  BY <1>2 DEF Stage, PatchEvent, Ensured, Rebinds, Fresh, Session, Drift, Drifts
<1>3. ASSUME NEW d \in Decision, NEW verdict \in {"accept", "defer"}, Decide(d, verdict) PROVE FALSE
  BY <1>3, EnsureNoDrift DEF Decide
<1>4. ASSUME Dispatch PROVE FALSE
  BY <1>4, EnsureNoDrift DEF Dispatch
<1>5. ASSUME PublishHandEdit PROVE FALSE
  BY <1>5, PublishNoDrift DEF PublishHandEdit
<1>6. ASSUME NEW p \in Paragraph, HandEdit(p) PROVE left'.hands < left.hands
  BY <1>6, ReviewSessionAssumption DEF HandEdit, TypeOK
<1>7. ASSUME NEW p \in Paragraph, Edit(p) PROVE FALSE
  BY <1>7, EnsureNoDrift DEF Edit
<1>8. ASSUME NEW doc, CommitOf(doc) PROVE FALSE
  BY <1>8, PublishNoDrift DEF CommitOf
<1>9. ASSUME NEW decisions, Settle(decisions) PROVE FALSE
  <2>1. template' >= template /\ template \in Nat /\ template' \in Nat /\ typed' = typed
    BY <1>9 DEF Settle, SettleAll, TypeOK
  <2>2. session' = LET s == Ensured(template')
                   IN Session(s.base + 1, s.n, s.text, s.staged, s.template)
    BY <1>9 DEF Settle, SettleAll
  <2>3. session'.text = Ensured(template').text
    BY <2>2 DEF Session
  <2>4. CASE Rebinds(template')
    BY <2>1, <2>3, <2>4 DEF Ensured, Fresh, Session, Drift, Drifts
  <2>5. CASE ~Rebinds(template')
    <3>1. session # None /\ session.template = template' /\ session.template <= template
          /\ session'.text = session.text
      BY <2>3, <2>5 DEF Rebinds, Ensured, TypeOK
    <3>2. session.template = template
      BY <2>1, <3>1
    <3>3. QED
      BY <2>1, <3>1, <3>2 DEF Drift, Drifts
  <2>6. QED
    BY <2>4, <2>5
<1>10. ASSUME NEW r \in Revision, DecideNow(r) PROVE FALSE
  <2>1. session' = session /\ template' = template + 1 /\ template \in Nat
    BY <1>10 DEF DecideNow, TypeOK
  <2>2. session # None => session.template <= template /\ session.template \in Nat
    BY DEF TypeOK, Sessions
  <2>3. QED
    BY <2>1, <2>2 DEF Drift
<1>11. ASSUME Revert PROVE FALSE
  BY <1>11 DEF Revert, Drift, Drifts
<1>12. ASSUME NEW e \in Patch \cup Decision, Acknowledge(e) PROVE FALSE
  BY <1>12 DEF Acknowledge, Drift, Drifts
<1>13. QED
  <2>1. CASE Reviewer
    BY <2>1, <1>2, <1>3, <1>4, <1>5, <1>6 DEF Reviewer
  <2>2. CASE Agent
    <3>1. ASSUME NEW patches, Apply(patches) PROVE FALSE
      BY <3>1, <1>8 DEF Apply, ApplyAll
    <3>2. QED
      BY <2>2, <1>7, <1>8, <1>9, <1>10, <1>11, <1>12, <3>1
         DEF Agent, SettleReady, DocumentEdit, Commit, ApplyBatch, ApplyPatch
  <2>3. QED
    BY <2>1, <2>2, <1>1 DEF Next

\* typed.md stops matching the session's snapshot only by a hand edit
\* (commit_sync, mcp.rs:824-888, and publish_current, collab.rs:917-978).
THEOREM OnlyHandsDrift == Spec => DriftsOnlyByHand
<1>1. TypeOK /\ [Next]_vars => [~Drift /\ Drift' => left'.hands < left.hands]_vars
  BY DriftStep
<1>2. QED
  BY <1>1, TypeCorrect, PTL DEF Spec, DriftsOnlyByHand

\* A session that is only looked at, or published, keeps its base or starts at
\* the first one.
LEMMA BaseKept ==
  ASSUME TypeOK, session # None, Ensure(template) \/ (\E text \in Doc : Publish(text))
  PROVE  ~(session'.base > session.base)
<1>1. session.base \in Nat
  BY DEF TypeOK, Sessions
<1>2. Ensured(template).base = 0 \/ Ensured(template).base = session.base
  BY DEF Ensured, Fresh, Session
<1>3. session'.base = Ensured(template).base
  BY DEF Ensure, Publish, Session
<1>4. QED
  BY <1>1, <1>2, <1>3

\* Of all steps only the settlement of a decision that was open moves the base.
LEMMA BaseStep ==
  ASSUME TypeOK, [Next]_vars, session # None, session' # None, session'.base > session.base
  PROVE  \E d \in Decision : event[d].delivery \notin Settled /\ event'[d].delivery \in Settled
<1> DEFINE Goal == \E d \in Decision : event[d].delivery \notin Settled /\ event'[d].delivery \in Settled
<1>1. session.base \in Nat
  BY DEF TypeOK, Sessions
<1>2. session' # session
  BY <1>1
<1>3. ~Ensure(template) /\ ~(\E text \in Doc : Publish(text))
  BY BaseKept
<1>4. ASSUME NEW e \in Patch, Stage(e) PROVE FALSE
  <2>1. session'.base = Ensured(template).base
    BY <1>4 DEF Stage, PatchEvent, Session
  <2>2. Ensured(template).base = 0 \/ Ensured(template).base = session.base
    BY DEF Ensured, Fresh, Session
  <2>3. QED
    BY <1>1, <2>1, <2>2
<1>5. ASSUME NEW doc \in Doc, CommitOf(doc) PROVE FALSE
  BY <1>3, <1>5 DEF CommitOf
<1>6. ASSUME NEW decisions \in SUBSET Ready, Settle(decisions) PROVE Goal
  <2>1. PICK d \in decisions : TRUE
    BY <1>6 DEF Settle, SettleAll
  <2>2. d \in Decision /\ event[d].delivery \notin Settled
    BY <2>1 DEF Ready
  <2>3. event'[d] = Marked(d, event[d].status, "applied")
    BY <1>6, <2>1, <2>2 DEF Settle, SettleAll
  <2>4. event'[d].delivery = "applied"
    BY <2>3 DEF Marked, Event
  <2>5. QED
    BY <2>2, <2>4 DEF Settled
<1>7. ASSUME NEW patches \in SUBSET Patch, Apply(patches) PROVE FALSE
  <2>1. Patched(Draft, patches) \in Doc
    BY DraftDoc, PatchedDoc
  <2>2. QED
    BY <1>5, <1>7, <2>1 DEF Apply, ApplyAll
<1>8. QED
  <2>1. CASE Reviewer
    BY <2>1, <1>2, <1>3, <1>4 DEF Reviewer, Decide, Dispatch, PublishHandEdit, HandEdit, TypeOK
  <2>2. CASE Agent
    <3>1. ASSUME NEW p \in Paragraph, Edit(p) \/ DocumentEdit(p) PROVE FALSE
      <4>1. WithHead(Draft, p, "agent") \in Doc
        BY DraftDoc, WithHeadDoc DEF Words
      <4>2. QED
        BY <1>3, <1>5, <3>1, <4>1 DEF Edit, DocumentEdit
    <3>2. ASSUME Commit PROVE FALSE
      BY <1>5, <3>2 DEF Commit, TypeOK
    <3>3. QED
      BY <2>2, <1>2, <1>6, <1>7, <3>1, <3>2
         DEF Agent, SettleReady, Revert, ApplyBatch, ApplyPatch, Acknowledge, DecideNow
  <2>3. QED
    BY <2>1, <2>2, <1>2 DEF Next, vars

\* The review base advances only for a decision that was not settled
\* (settle_decisions, collab.rs:1050-1075 and 1233-1262).
THEOREM BaseAdvances == Spec => BaseAdvancesForNew
<1>1. TypeOK /\ [Next]_vars =>
        [(session # None /\ session' # None /\ session'.base > session.base)
           => \E d \in Decision : event[d].delivery \notin Settled
                                /\ event'[d].delivery \in Settled]_vars
  BY BaseStep
<1>2. QED
  BY <1>1, TypeCorrect, PTL DEF Spec, BaseAdvancesForNew

=============================================================================
