# Verification of docx2typed

TLA+ models of the parts of docx2typed whose correctness depends on the order in
which things happen: processes that share a workdir, I/O errors half way through
a mutation, killed processes, retries, another program that writes the same
files, and long sequences of legal calls on one document. Paths below are
relative to the repository; `store.rs` is `crates/docx2typed-store/src/store.rs`.

| module | what it is |
|---|---|
| `AtomicDocument` | what the store promises its callers, without lane, journal or directories |
| `GenerationStore` | the store: mutation, abort, recovery, garbage collection, readers |
| `GenerationStoreProofs` | theorems `TypeCorrect`, `Resolves`, `StoreIsAtomic` (the refinement of `AtomicDocument`), `AnswersAreKept`, `LedgerIsCarried`, `RootIsNotBehind`, `ReadersSeeWholes`, `RecordsStay`, `EffectAtMostOnce`, from the invariant of `PromiseHolds` |
| `ExternalPublish` | built documents published over files another program owns too |
| `ExternalPublishProofs` | theorems `EveryPreparedIsDecidable`, `ForeignBytesAreSafe`, `WhatWasRefusedIsNotThere`, `RegistryNamesThePackage`, `PublishedOnce`, and with saves `EvidenceIsTheDocuments`, `OnlyCapturedIsReplaced`, `SavesAndBuildsTyped` |
| `VersionHistory` | the pool of versions: recording, restoring, retention |
| `VersionHistoryProofs` | theorems `TypeCorrect`, `Readable`, `NeverRewinds`, `SavedIsNewest` |
| `Workdir` | extraction, upgrade and first edit of one directory, without a lane |
| `WorkdirProofs` | theorems `WorkdirShape`, `TheDocumentIsKept` |
| `ReviewSession` | reviewer, agent and hand editor on one document |
| `ReviewSessionProofs` | theorems `TypeCorrect`, `ChainRooted`, `PublishedOnceInASession`, `SnapshotsOwned`, `OnlyHandsDrift`, `BaseAdvances` |
| `RevisionDecision` | accept, reject and reinsert on the tokens of the document |
| `RevisionDecisionProofs` | theorems `TypeCorrect`, `InventoryHonestHolds`, `ViewsKeptHolds`, `OthersKeptHolds`, `IdsStayUniqueHolds` |
| `PackageDecision` | the same document under table operations, deletion of comments and the decision of everything |
| `ParagraphStructure` | inserted and deleted paragraphs: draft, commit, splice |
| `ParagraphStructureProofs` | theorems `TypeCorrect`, `ViewsAgreeHolds`, `CommitConvergesHolds` |
| `LeafEdits` | text edits in the runs of a paragraph: six surfaces, commit, build, verify |
| `PackageBuild` | the document a build writes: text records, a new paragraph, planned formats |
| `PackageVerify` | the verifier that reads this document on its own, and the properties of both |
| `DocumentSurface` | sessions of agents: search, handles, batches of edits, retries, answers |
| `DocumentSurfaceProofs` | theorems `SurfaceInvariant`, `AnswersAreTrueHolds`, `WrittenOnceHolds` |
| `MC...` | the instance of each for TLC: model values, symmetry, small documents |

`PROJECT.json` lists the runs, the source lines behind every definition, the
hazards and the mutants. Operators whose comment says `mutant` are not
part of any `Next`: each is a plausible defect of the definition after it and
shows that a property notices.

## 1. The system

docx2typed turns a DOCX file into a *workdir* of text files that people and
agents edit, and builds a DOCX from it again. A command line, an MCP server and a
local review server (all in one binary, several processes possibly at once) work
on the same workdir.

| part | state it keeps | operations | who it talks to | hard behaviour | what makes it correct | modelled in |
|---|---|---|---|---|---|---|
| Generation store (`store.rs`) | pointer `workdir.json`, generation directories with their ledgers, root mirror, journals, reserve, lane | ensure, pin, lookup, mutate, abort, recover, collect garbage, replenish | every surface through `mutate`; readers pin without a lane | death between any two writes, I/O errors, retries by another process, readers without a lock | an edit is in the document entirely or not at all, once, and stays once answered; recovery never guesses | `GenerationStore` |
| External publication (`store.rs`) | external-target registry, staged outputs, backups | stage, check, publish, roll back, decide | the build operations; a foreign writer (Word) | hashes instead of locks | bytes of another program are replaced only where they were captured or slipped in under a guard; an output is published once or restored | `ExternalPublish` |
| Document save (`src/surface/save.rs`) | sidecar files beside the document | publish the set, repoint ledger, compare | store and file system | files replaced one by one | document and evidence agree once answered | `ExternalPublish` |
| Store birth and extraction (`store.rs`, `lib.rs`) | the directory itself, the first generation | init, open, ensure, commit_workdir | first use of a workdir | processes at once, no lane; two renames | the document is always whole somewhere | `Workdir` |
| Version pool (`versions.rs`, `objects.rs`) | objects, commits, trim log, HEAD in the pointer | record, restore, collect, verify | save boundaries of the store | sweep against a concurrent save; content read before the lane | a retained version is always readable | `VersionHistory` |
| Review session, queue, server (`docx2typed-review`: `collab.rs`, `queue.rs`, `server.rs`) | session, snapshots, one file per event | stage, decide, dispatch, apply, settle, acknowledge | browser and agent; the store | rebase while decisions wait; a batch applied twice | a patch is published once and never over somebody's text | `ReviewSession` |
| Decisions (`govern.rs`, app `decide` and `comment`, `decide_all`) | tokens of `_template.docx`, `comments.xml`, decisions | list, accept, reject, reinsert; rows, columns, merge, split; delete a comment; decide everything | the review session | keys held while the document changes; shared and nested ids; revisions and tables inside cells | one decision settles one revision, a table operation touches no other text, and the rest stays | `RevisionDecision`, `PackageDecision` |
| Draft and structure (`draft.rs`, `prose.rs`) | `edit.md` with its state, `typed.md`, `structure.json`, `islands.json` | insert, delete, rewrite, commit, revert, build | core splice, verifier | the plan of record lags behind the draft; anchors to deleted paragraphs | what is built is what the draft shows | `ParagraphStructure` |
| Text edits (`prose.rs`, `draft.rs`, `mcp.rs`, verify) | the same, down to runs | six editing surfaces, commit, build, verify | each other, through `islands.json` | three measures of one place | the same | `LeafEdits` |
| Build and verification (`prose.rs`, `format_lane.rs`, `docx2typed-format`, verify) | the built file, format requests and their plan | build, verify, hand on | each other, through the file only | two independent readings of the same XML; other programs change the file; templates with earlier revisions | a genuine build passes, and what passes holds the recorded changes and no others | `PackageBuild`, `PackageVerify` |
| Agent surface (`src/surface/find.rs`, `edit.rs`, `src/facade.rs`) | handles in the agents' hands; the ledger of the store | find, edit by handle or selector, retry | the store; the format lane | a search outside the lane, members probed after the mutation, answers lost and calls repeated | a refusal wrote nothing, a success is there; a batch is one edit | `DocumentSurface` |

## 2. GenerationStore

### State

| variable | code |
|---|---|
| `pointer` | `workdir.json`: the selected generation, the version HEAD it carries (`head_version*`) and the tree it digests (`head_tree`) |
| `dirs` | directories under `generations/` |
| `content` | the files of a generation, as the set of edits each contains; two classes, because `overlay_ingress()` takes `typed.md` and `edit.md` from the root while everything else comes from the parent |
| `ledger` | the `<<operation, input>>` rows under a generation |
| `root` | the workdir root's own copy of the files |
| `tx` | `transactions/<operation>/`: which phase records exist, what they name, the record the completed one was chained to, its outcome |
| `depleted` | `reserve-depleted.json` |
| `lane` | holder of the advisory lock; an OS lock, so it is free once its holder is dead |
| `pc`, `call` | a caller's position in `mutate_with_boundary()` and its request |
| `recovery` | the journals `recover_all()` has still to look at, and whether one of them needs recovery by hand |
| `reader` | a reader inside `pin()` or holding a pin |
| `calls`, `crashes`, `faults` | bounds |
| `owner`, `acked`, `early`, `failed` | history: the operation a generation was staged for, operations answered with success, those answered so while their journal was open, attempts answered with an error |

A generation is identified with the number of the call that minted it (the code
uses a fresh random name), and its content with the set of generations whose edit
it contains. A duplicated effect is then two generations of one operation in one
content; a lost effect is an operation with none; a half-applied one is a
generation in one file class and not in the other.

### Actions

One action per durable step of `mutate()`: `Call` (pin, outside the lane),
`Acquire`/`GiveUp`, `RefuseDepleted`, `Enter` (is there anything to recover),
`Conflict`/`Replay`/`RefuseReuse`/`RefuseJournal` (the early returns in the order
of the code), `Begin` and `WriteIntent`, `Stage`, `Prepare`, `SwapPointer`,
`Commit`, `WriteLedger`, `Materialize`, `Complete`, `RemoveTx`. A journal record,
the pointer and a ledger file are each written with a rename, hence one step; the
copy onto the root and the removal of a transaction directory are loops, and a
crash or an error inside one leaves any subset of the files (`PartlyCopied`,
`PartlyRemoved`).

`abort()` is `Restore`, `Discard`, `CloseFailed`, `Dismiss`, entered by
`FailPhase` at any step between the intent and the completed record: before the
pointer swap at `Discard`, after it at `Restore`, like the flag
`pointer_committed`. A refusal by the mutation's own closure is a `FailPhase` at
`stage`. `FailRestore`, `FailDiscard`, `FailClose` and the second disjunct of
`Remove` are the results the code ignores.

Recovery is `recover_tx()` by case: `RecoverStick` (broken chain, or the pointer
at neither generation), `RecoverForward`, `RecoverBack`, `RecoverSettle`,
`RecoverPanic`; each followed by its repair steps, and the pass by
`CollectGarbage`. The journals are taken in any order, the code sorts them by
name. `FailRecovery` is a repair that fails: the journal stays and the mutation
is refused. A separate call of `recover()` (only tests make one) does what a
mutation does that is then refused as a conflict, so it is no action of its own.

`Crash` kills a caller anywhere. `ReadPointer`, `PinGeneration`, `Unpin` are a
reader.

A repeated call is answered before any of this: `store_mutation_boundary` looks the
ledger up without the lane and returns the recorded success (`server.rs` 583-597).
That is `AnswerFromLedger`. Where the operation's journal is open (`InProgress`) the
row may be one that `abort()` undoes; the answer is then counted in `early` and
promises nothing (`EarlyAnswersStayTrue` is refuted). In `acked` it counts like
every other.

Mutant operators (marked `Mutant` in the module) are not part of `Next`; each is
a plausible defect of the definition after it and shows that a property notices.

### Not represented

- Mutations with `generation = false` and staged external outputs.
- Digests as such: the manifest comparison of the CAS adds nothing to the
  generation comparison, because a generation's manifest never changes.
- Run evidence files, which are written and repaired together with the ledger.
- Half-copied stage directories: a process that dies while copying leaves a
  directory nothing refers to, and the next garbage collection removes it.
- A failure of `create_dir_all` itself in `begin_journal()`: nothing was done.
- Corrupted bytes of a journal record. A broken chain does occur, through a
  partly removed directory.
- Loss of renames after a power failure. `write_durable()` syncs the file and
  ignores errors of the directory sync; a crash here is the death of a process.

## 3. ExternalPublish

A build is a store transaction without a generation: it stages a package and
publishes it on a path the user named. `document_save` builds beside the document
through such a transaction and moves document and sidecars into place itself.

`file`, `evidence`, `ledger`, `registry` and `tx` are the files; `lane`, `pc`,
`call` a process in the middle of a call; `touched`, `undone`, `acked`, `done`,
`late` and `unrecorded` are history for the properties. Bytes are named by the call that
built them. A guard is a handle on a file; `slipped` are the processes whose guarded file
is no longer the one at the output.

A build is `Call`, `Acquire`/`Busy`, `Replay`/`RefuseEntry`, `Begin`, `Run`,
`CheckStaged`/`RefuseStaged`, `Prepare`, `Gate`, then `Link` (the target is new)
or `Hold`, `Replace`, then `Load`, `RecordSuccess`, `LogPublished`, `Commit`,
`WriteLedger`, `Complete`, `RemoveTx`. `FailStep` (an I/O error before or after the package
has landed) and `Abort` are its error path. A save adds
`VerifyStaged`, `Capture`, `Guard`, the renames of its set in the order of
`save.rs` (`MoveEvidence` to `MoveOperations`; `SaveReplace` and `SaveLink` are
the document), `Reread`, `Compare`, `SaveRecord`. Recovery is `RecoverStick`,
`RecoverBack`, `RecoverForward` with the `Fix...` repairs and `FailMend`, the error of
one. Word acts at any moment: `ForeignWrite` opens an output and writes it, which a
guard on Windows denies (`GuardDenies`, the platform of the instances); `ForeignRename`
removes the output or renames a file of Word's own onto it, which no guard denies
(`store.rs` 3357-3359), and from then on the guard is one of a file that is gone.

Three properties have exceptions that the code makes necessary, each remembered in a
variable of its own: Word's bytes may be replaced by whoever's guard slipped
(`ForeignBytesStay`); a call that failed after its package had landed leaves it there,
because `abort()` takes back no output (`late`, in `RefusedIsNotPublished`); and a row
of the registry is lost for good where writing it fails, because `abort()` closes the
journal, or where recovery dies or fails between its completed record and the registry,
because `settle_completed()` does not look at the registry (`unrecorded`, in
`PublicationRecorded`). Without the exceptions all three are refuted (section 12).

The assumption on the constants says that no path of a user is a staging path: the code
makes those from the output and the operation (`save.rs` 488).

Not represented: several outputs of one transaction (no caller makes one),
generations (they do not move), backups as files (their bytes are `before`).

## 4. VersionHistory

`pool` holds the objects, `pointer.head` the chain of versions, `trimmed` the trim
log, `made` and `dirs` the generations. An object's content stands for its digest.

An edit is `Edit` (pin and read outside the lane), `Enter`/`Conflict`/`Busy`,
`Stage`, `Put` once per object of a save boundary, `Swap` (which also selects the
new HEAD), `Acknowledge`; `Fail` undoes it. `Restore` reads the objects of an old
version before the lane (`ReadObject`, `RefuseMissing`, `PinRestore`) and then
goes the same way, `RefuseCoupled` when a selective restore asks for more than
paragraphs. `Gc` plans, `AppendTrimLog` writes the log, `Sweep` removes one object
per step, `Reclaim` one generation. `Verify` reads version after version without
a lane.

Not represented: labels, exports, listings (they read); the pinned version field,
which no call sets.

## 5. Workdir

Places are the root and each process's staging and backup directory; a directory
has assets and, once upgraded, generations and a pointer. `Plan` is
`plan_extract_with`; it decides which sidecars are removed (`Stale`). Then either
`FindNone`/`MakeRoot`/`Apply`/`InPlaceDone` or
`PublishStaged`/`Apply`/`MoveAside`/`MoveIn`/`DropBackup`, with `ApplyFails`,
`MoveBack` and `MoveRefused` for failures. A rename onto an empty directory may
succeed, as on POSIX, or not, as on Windows (`Vacant`). `Upgrade`, `BirthCheck`, `BirthDir`, `BirthSnapshot`,
`BirthPointer`, `BirthClose` are `Store::ensure` and `init`; `Pin` and `Mutate`
are an edit of a store, in one step. `Crash` strikes anywhere.

Every step acts on whatever directory has the name at that moment, as the code
does; so a birth can finish in a directory another process moved in, and an
extraction that found no root can write, file by file and without a copy, over one
that another moved in or back. The latter sets `crossed`: a kill then leaves no whole
document, and `DocumentSurvives` excepts it.

## 6. ReviewSession

Every call runs inside `Store::mutate` on a copy of the generation, so every call
is one action; a refused call is no step. `template`, `gone`, `typed`, `draft`,
`bound`, `plan` are the document, `session`, `snapshot`, `event`, `batch` the
review files, `lineage` and `applied` history.

Reviewer: `Stage`, `Decide`, `Dispatch`, `DecideNow`, `ApplyPatch`. Agent: `Edit`,
`Commit`, `DocumentEdit`, `Revert`, `ApplyBatch`, `Acknowledge`, `Settle`.
Anybody: `HandEdit` of `typed.md`. `Ensure`, `Drifts`, `Publish`, `Deliver` are the
helpers those calls share, in the order the code calls them.

`Stage` of a patch that is still a draft is `upsert_event` on the same `client_id`:
the event is replaced under its id, with a new parent, and the id is put into the
chain again. `StagedChainIsRooted` therefore speaks of the place where a patch was
staged last. A draft staged twice on one snapshot follows itself, and its batch is
refused for ever (`ChainHasNoGaps`, refuted). The replacement may say something else
than the draft did; the model keeps what it says.

Not represented: a template that is extracted anew under an open session, event
history files, frames.

## 7. RevisionDecision and PackageDecision

`doc` is the token sequence of `document.xml`: tags of revision elements, text,
marks, opaque nodes. `List` gives a reader keys, `Decide` is `decide_revision` with
every guard, the byte surgery of `govern.rs` (`Unwrapped`, `Removed`, `CopyOf`,
`Reinserted`) and the verification of the result (`Verified`).

Not represented: revisions in other parts, except that their ids are taken (`others`);
the store.

`PackageDecision` adds tokens for tables, rows and cells and for the anchors of
comments. `Tables`, `Rows` and `Cells` are the scans of `govern.rs`, with tables in
cells; `AddRow` to `Split` are the six branches of `apply_table_operation`,
`DeleteComment` is `delete_comment_bytes` with the check of `comment_op`, `DecideAll`
is `decide_all_package`: the ids are settled in the order of their strings, and the
comments are looked for in what that leaves. `EmptyRow` copies a row as the code does,
which passes over a table in it only up to the next closing `tbl`. With a table two
deep in the row this leaves closing tags nothing opened; the extraction of the new
workdir refuses them (`Parses` is the nesting check of `scan_document`), so such a row
cannot be copied (`RowsCanBeCopied`, refuted) and no broken document is published. A table operation and a decision of everything write a new
document with a workdir of its own; the next decision is taken there.

Not represented: vertical merges, text boxes, tables that are not children of the
body, the parts beside `comments.xml` that repeat comment ids, and how the new
workdir is published. By reading: a table operation commits the new workdir inside
its mutation, before the document is published, so a mutation that fails after it
leaves the directory behind, and `decided-workdir-already-exists` refuses the retry
before the store is asked. `decide_all` writes its output before it does so, and a
retry after a crash in between is refused with `decided-output-already-exists`.

## 8. ParagraphStructure

`draft`, `bound`, `clean`, `typed`, `islands`, `structure` are the files. `Insert`,
`Rewrite`, `Delete` edit the draft, `PatchInsert` and `PatchDelete` are the same two by a hunk
of `document_patch` (which repoints no anchor), `Commit` is the whole of `commit_draft`
(`Committed`, `Restructured`, `Canonical`, the refusals in `Accepted`), `Revert`
the CLI's. `Built` is `splice_structure` on the template, `Buildable` is
`validate_structure`.

Not represented: paragraphs of several runs (module `LeafEdits`), the format a
new paragraph inherits, tables and other parts, the store (a call is one step).

## 9. LeafEdits

One paragraph whose text Word split into runs, some hidden in a tracked deletion.
`runs` is the template, `body`, `bound`, `typed`, `islands` the files.

`Edit` (document_edit), `Patch` (document_patch), `ReplaceText` (the CLI's
replace_text), `ReplaceInRun` (the same with a run's ordinal), `DocumentReplace` (every hit in the document), `EditText` (one run by
its id) and `EditByHand` each record and write what their code does; `Commit` is
the commit. `Place`, `Touched`, `Share` resolve a record against the runs,
`Buildable` and `Built` are `apply_edits`, `Verified` is the verifier's own reading.

By reading: `document_replace` folds case by lowercasing, which can change a length
it goes on measuring with.

Not represented: tracked insertions in the template, patches with several hunks
(a call has one), regular expressions and case folding, comments, duplicate
paragraphs together with insertions, the store.

## 10. PackageBuild and PackageVerify

`template` is the main story, paragraph by paragraph, as a sequence of XML pieces:
runs with letters and a format, tags of revisions and links, anchors, locked
content. `records`, `inserted`, `requests`, `plan` are the sidecars, `output` the
file.

`Record` and `InsertParagraph` are commits, `Format` and `FormatSpan` the two tools
that ask for a style, `Build` the whole of the application's build, `Tamper`
another program, `Handoff` the next reviewer's extraction. `AsRevision` is the
tracked rewrite of a run, `InPlace` the direct one, `IdOf` the ids of revisions,
`PlanOf` and `Formatted` the planner and the writer of formats.

`Verified` is the verdict: `TrackedParagraph` claims the new revisions record by
record, `Exact` compares a part without tracked records with its recomputation,
`Applied` looks a planned run up, `Kept` and `Targets` are the comparison of
everything else. Its scans are those of the code, over text: `Elements`, `Raw`, `Props`.

Genuine builds that the verifier refuses are named in `Refused`: a new paragraph
beside tracked edits, a tracked edit inside an insertion of the template, two makers
with the same text, a planned paragraph with a run without properties (the scan for
them runs on into the next run) or with a letter spelled as an entity.

Not represented: other parts, comments, the resolution of a record's text
(`LeafEdits` does it), several styles' properties merged into one run, formats
beside a new paragraph in the verdict (`Plain`).

## 11. DocumentSurface

Agents with the document open in several sessions. `doc`, `requests`, `gen`, `ledger` are the
store's current generation and its ledger; `asked` and `held` what agents know (they
share it: an operation's edits, and the handles of the last search); `call` a
session inside a call; `landed` and `told` are history.

`Find` is document_find: two passes (`Occurrences`), of which the folded one is not
run in a paragraph with a literal hit, and a limit on matching paragraphs. `Ask` and
`Retry` enter document_edit: selectors are expanded by a search outside the lane
and before the ledger is asked; then `Pin` (lookup and pin), `Commit` (the whole
mutation: `Applied`, where formats stand alone and replacements come last),
`Answer` (formats asked through a selector are probed once more) or `Lose`.

Not represented: tracked edits; several runs in a paragraph; the scope "comments"
and the dry run; more than one insertion in a batch; a call that dies before its
mutation, which is one never made. By reading: the revision in a handle's reference
is not compared anywhere, only its text; the dry run accepts formats the run
refuses; two hits that overlap make a selector for all of them be refused.

## 12. Runs

| run | instance | result |
|---|---|---|
| `Surface` | 2 sessions, 2 paragraphs, 2 operations, 3 calls (retries included), searches that return 2 paragraphs | pass, 1.07 million states |
| `StoreAtomic` | 2 writers, 1 reader, 2 operations (one a save), 3 calls or answers from the ledger, 2 crashes, 1 I/O error at any step whose failure leaves nothing behind that was to be undone | pass, 2.45 million states: atomicity, durable answers (but those given of an open transaction), ledger cover, root mirror, no dirty read, no result taken back, and refinement of `AtomicDocument` |
| `StoreAnyFault` | 2 writers, 1 operation with 2 inputs, 2 calls, 1 crash, 2 errors at any step, ignored ones included | pass, 0.14 million states: no duplicated effect, every call returns |
| `Publish` | 2 processes, 2 outputs, 3 builds, 2 crashes at any step, 2 writes or renames of Word, 1 error before or after publication or in recovery | pass, 2.54 million states |
| `Save` | 2 processes, 1 output, 3 saves or builds, 2 crashes, 2 writes or renames of Word, 1 error | pass, 2.66 million states |
| `History` | 2 processes, 2 paragraphs (one coupled), 3 calls, 4 generations, keep 0 or 1, 1 crash, 1 failed save | pass, 0.43 million states |
| `Workdir` | 2 processes, 2 sources, 4 calls, 1 crash, 1 failed file operation | pass, 0.91 million states |
| `Review` | 2 paragraphs, 2 patches, 1 decision, 2 revisions, 7 calls, 1 hand edit | pass, 2.25 million states |
| `Decide` | 7 documents, 3 of them with tables and 2 of those with comments, 2 decisions, rows and columns up to 3, spans up to 2 | pass, 6 186 states |
| `Structure` | 3 paragraphs, 3 edits, 2 deletions, 3 commits, 1 revert | pass, 0.95 million states |
| `Leaves` | 3 paragraphs of 1 to 3 runs, 7 surfaces, tracked or not, 3 edits, 1 commit of its own | pass, 0.66 million states |
| `Build` | 3 documents, 2 styles, 2 makers, 2 edits, 1 hand-on, 1 change by another program | pass, 66 241 states |

Why the bounds are enough.

- Store: with two operations and three calls an operation can be attempted,
  killed or failed, overtaken by another one and retried; two crashes let
  recovery itself be killed and run again; a reader needs one instance, since
  readers never write. The lane makes a third writer behave like one of the two at
  another time.
- `Publish` and `Save`: a build captures its bytes at staging and the guard only
  compares, so that Word can take them away and put them back; with a third write both
  configurations pass as well, `ForeignBytesStay` included (5.17 and 4.60 million
  states, not in the list because they need minutes more). `ForeignBytesStay` is
  checked in `Save`, where builds and saves meet.
- `History`: three calls are a save, a second one and a collection or restore
  between them; four generations let a restore return to a collected one.
- `Workdir`: four calls are two extractions, an upgrade and an edit.
- `Review`: seven calls are stage, dispatch, apply, stage again on the same
  paragraph, settle, apply again, acknowledge.
- `Decide`: two decisions are a table operation on the result of another, a decision
  on a copy one made, or a key used after the document changed under it; three rows
  and columns reach one past every table. The three documents without tables have
  also been run with three decisions.
- `Structure` and `Leaves`: every known counterexample of these modules takes at
  most three edits and two commits; `Leaves` has also been run with three texts in
  each mode apart and with four edits of two surfaces.
- `Build`: two edits on one paragraph meet in adjacent runs, in one format span, or
  in one part with a tracked and a direct one; one hand-on puts this session's own
  kind of revision under the next session's edits; the two makers are symmetric, as
  no definition tells them apart; the documents have Word's
  revision before and after the edited run, an anchor between two runs, and links
  inside and outside revisions. No letter is spelled as an entity (`Escaped` is empty),
  since genuine builds with such a letter in a planned paragraph may be refused; the run
  has also been made with each of the three letters escaped.

- `Surface`: three calls are an edit, another session's edit between its search and
  its mutation, and a retry. "aA" and "wa" hold overlapping hits, hits by
  case and hits by folding; the query "aa" has two places where "a" has four.

The two store runs differ in where errors may strike because the code
gives different guarantees there; with an error after the pointer swap, `abort()`
undoes a generation others can see (further counterexamples below). Where `abort()`
fails to restore the pointer or to remove its generation, or recovery to remove a
journal it has settled, the error is ignored and atomicity is lost as well: a
generation that could not be removed keeps its ledger row. What remains with two
such errors is what `StoreAnyFault` checks; with three even `EffectOnce` is lost.

`CHECK_DEADLOCK FALSE` in every run: the calls are bounded, so the system stops.

### Further counterexamples

Properties TLC refutes when they are put in place of a run's own. Each is defined
beside the properties that hold and shows why those are stated no stronger.

| run | property | what happens |
|---|---|---|
| `StoreAtomic` | `LookupStays` | the lookup before `mutate()` finds the row of a transaction that `abort()` then undoes |
| `StoreAtomic` | `EarlyAnswersStayTrue` | an error at the copy to the root: until `abort()` has removed the generation its row answers a repeated call with success, and the document never has the edit |
| `StoreAnyFault` | `EffectOnce`, with three errors | the completed record cannot be written, `abort()` neither restores the pointer nor removes the generation; its journal is closed as failed, and the retry applies the edit to the document that has it |
| `StoreAtomic` | `NeverMixed` | after an undone swap, files already copied to the root get into the next generation |
| `StoreAtomic` | `HeadInDocument` | an undone save stays HEAD |
| `StoreAtomic` | `PinnedPathStays` | garbage collection removes a directory a reader has pinned |
| `StoreAtomic` | `PreparedPresent` | a prepared generation directory partly removed by a killed abort |
| `Publish` | `PublicationRecorded`, without `unrecorded` | a kill or an error between recovery's completed record and the registry row: the next recovery removes the journal and leaves the registry as it was; or an error in writing the registry, after which `abort()` removes the journal |
| `Publish` | `RefusedIsNotPublished`, without `late` | an error once the package is at the output: the caller is refused, `abort()` leaves the package there |
| `Save` | `ForeignBytesStay`, without `slipped` | Word renames a file of its own onto the output while a save holds the guard on the old one; the last rename of the save replaces it |
| `Save` | `ForeignBytesStay`, with `GuardDenies` FALSE | where the guard denies nothing, Word writes the file in place under it |
| `Save` | `WordBytesStay` | a save over the source replaces what Word wrote after extraction: the guard compares with what is there at capture |
| `Save` | `ForeignBytesStay`, with the error at `new-ledger` | a save to a new output fails at its last file and takes its sidecars back; Word writes that output before a second save rereads it; that save finds no evidence that disagrees and records Word's bytes in the registry as its own; the next build finds what it expects and replaces them |
| `Save` | `NoSecondEffect` | a save replaces the operations ledger beside the path, and an old build is published again |
| `History` | `MovesParagraphsOnly` | a selective restore takes the style sheet of the old version along |
| `History` | `TrimIsNoDamage` | verification during a collection reports a trimmed version as damaged |
| `Workdir` | `AlwaysSurvives` | one process has the root aside, a second finds none; the first moves its root in or back, onto the empty directory the second made or before it makes one; the second writes its first file into it. Killed there, it leaves no whole document: two processes, one kill |
| `Workdir` | `BaselineIsClear` | an extraction is planned over a workdir without edits, one is made, and the staged copy takes its sidecar along, beside the new template |
| `Workdir` | `EditsAreNotReplaced` | an extraction planned before an edit replaces it |
| `Review` | `DriftIsNotOverwritten` | an agent's document_edit between a hand edit and its detection |
| `Review` | `PlanIsNoSecondTruth` | revert after a commit; the next commit withdraws the committed edits |
| `Review` | `NoDoublePublish` | a settlement rebinds the session, its numbers start again, and a patch of the old lineage is published a second time |
| `Review` | `ChainHasNoGaps` | a draft is staged again: its id is in the chain twice, its parent is the snapshot it made itself, and no batch with it is ever applied |
| `Decide` | `RowsCanBeCopied` | the copy of a row with a table two deep in a cell keeps closing tags of the outer one; the extraction of the new workdir refuses it |
| `Decide` | `ReinsertsTheText` | a deletion is reinserted twice |
| `Structure` | `TypedIsBuilt` | a replace_text that was reverted is still built |
| `Structure` | `CommittedIsBuildable` | an insertion that inherits from another new paragraph is committed and refused by every build |
| `Structure` | `OrderOfTheDraft` | two insertions with one anchor are built in the order of their records, not of the draft |
| `Structure` | `NothingIsLost` | the last paragraph is deleted, its id given to an insertion |
| `Structure` | `AnchorsStand` | the delete hunk of document_patch leaves the anchors of other records on the paragraph it deletes |
| `Leaves` | `SettledBuildsTheDraft`, with `ReplaceInRun` | the ordinal is counted in the template's runs and looked up in the draft's occurrences, so another place is recorded than the one rewritten |
| `Leaves` | `BuiltIsTheDraft` | a record nobody sees any more is built |
| `Leaves` | `CommittedBuilds` | a committed record whose share occurs twice in its run |
| `Leaves` | `CommitConverges` | two records in one paragraph: the second commit is refused although it reports work |
| `Leaves` | `NoClashAnywhere` | document_edit and replace_text record overlapping spans |
| `Decide` | `SplitsAgree` | the test for a `gridSpan` compares windows of ten bytes with eight: a split never takes the span away, in the cell or its copies (`tests/test_tables.py:330` demands it of the reference), and a merge of a spanning cell adds a second one |
| `Decide` | `EverythingCanBeDecided` | rejecting an insertion removes the deletion in it, whose id is then not found |
| `Decide` | `MergesDropNothing` | a cell that holds only tracked deletions counts as empty and is dropped, they with it |
| `Decide` | `ClonedRowsBringNone` | the copy of a tracked row is tracked too, under the same id |
| `Decide` | `NoAnchorDangles` | anchors in headers stay when everything is decided |
| `Build` | `GenuineAlwaysPasses` | the kinds of `Refused` |
| `Build` | `PassedReadsAsTheDraft` | plain text beside a tracked edit is not compared |
| `Build` | `TabsKept` | a tracked rewrite drops tabs and breaks of the run |
| `Build` | `PlanNamesTheDraft` | a new paragraph shifts the numbers the plan names |
| `Build` | `RevisionIdsFree` | ids are looked for in the compressed bytes, and given out again |
| `Build` | `SkippedHasTheStyle` | a run without properties is taken for the one before it, pending requests are not asked |
| `Build` | `RequestsStayWritable` | a request stays recorded while a later edit makes it unwritable, and every build refuses |
| `Surface` | `FormatRefusalIsTrue` | formats through a selector are probed after the mutation, and what was written is reported as rejected |
| `Surface` | `RepeatedSelectorIsTrue` | a repeated selector is expanded before the ledger is asked, finds nothing left, and says that nothing was written |
| `Surface` | `MixedRefusalIsTrue` | a blocked replacement leaves the insertions of its batch in the document |

### Fairness

Only `GenerationStore` has liveness. `FairSpec` assumes weak fairness of each
writer's own steps: `mutate()` is straight-line code, and a waiting caller either
gets the lane or times out (`GiveUp`). Nothing is assumed of calls, crashes,
errors, readers or `Replenish`. `CallsReturn` is therefore a statement about the
code's own loops: recovery does not go round in circles and nobody waits for
somebody who waits. The other components have no loop of their own that waits for
another: a call runs through or is refused, and nothing makes a person or an
agent call again.

### Refinement

`AtomicDocument` has three steps: apply an edit that is not there yet, answer an
operation that is there, reject an attempt that is not and never will be; a fourth,
`Foretell`, stands for the answers of the unlocked lookup about an open transaction and
promises nothing. The
mapping takes the document from the pointer, with one exception: from the swap
to the completed record `abort()` may still take the pointer back, so the
document is then still the parent's. The edit takes effect when the completed
record is written, or when the process dies in that window, because recovery then
goes forward. That the second case is a legal step is the reason why recovery may
never go backward once the pointer has moved.

The same module justifies the grain of the others: `ReviewSession`, `RevisionDecision`,
`PackageDecision`, `ParagraphStructure`, `LeafEdits` and `PackageBuild` take a call as one step, because a
call is one `mutate()`; `VersionHistory` and `Workdir` take the swap as one step.

## 13. Proofs

TLAPS checks every theorem for every value of the constants, from the named
assumption on the constants alone unless stated.

Store.

- `TypeCorrect`: `Spec => []TypeOK`, for every set of fault points. `TypeOK` is
  not inductive. `TypeInv` adds that whoever is past the lane holds it
  (`LaneHeld`), that a call in progress names an operation, a parent and a newer
  generation of its own (`CallShape`), that a journal with a prepared record or a
  successful completed one names a generation and an input (`Sound`), and that
  recovery works on a journal that fits what it does (`RecoveryShape`).
- `Resolves`: `Spec => []PointerResolves`, assuming `RestoreSucceeds` (no error in
  abort()'s own pointer write, which the code ignores: with it the property is
  false). `ResolveInv` adds to `TypeInv` what each removal and each selection
  relies on (`Here`): nobody moves the pointer between the check and the swap; the
  generation about to be selected, and the parent abort() would return to, exist;
  rolling back removes a generation the pointer does not select. The last needs
  that a prepared generation is never its own parent (`AllFresh`).
- The promises: everything `StoreAtomic` checks, and `EffectOnce`, for any
  number of writers, readers, operations, calls, crashes and errors, assuming
  `UndoSucceeds`: no error in the three steps `restore`, `discard` and `sweep`, whose
  errors the code ignores although something was left to undo. Errors anywhere else are
  allowed, the other ignored ones (`fail`, `back-close`, `remove`, `dismiss`) included.
  The invariant `Promise` is `ResolveInv` with four parts. `AtRest`: at most one journal
  is open, and its operation is `Done` (selected, recorded, at the root), `Undone` (the
  selected generation is complete without it) or `Open` (selected, and recovery can only
  go forward); without a journal the selected generation is `Full`. `NumbersOK`: a
  generation not staged yet is nowhere, a failed one in no document. `ReadersOK`: a
  reader has a generation of the document, one that is gone, or one that a journal has
  prepared. `WhereTheyStand`: what each step of a mutation, of `abort()` and of recovery
  relies on; from the swap to the completed record (`Moved`) the parent is still `Full`
  and the new generation is the parent with one edit (`Grown`). None of the checked
  properties is inductive: `LedgerCoversDocument`, for one, survives a swap only
  because of `Grown`, and `RootMirrorsDocument` a recovery only because of
  `forward-materialize` coming before `forward-close`. `Promise` was checked with two
  errors and a crash (5.9 million states) before it was proved.
- `StoreIsAtomic` maps each step: `Complete`, and the death of a writer between swap
  and completed record, are the abstract `Apply`; `Replay`, `RemoveTx` and `AnswerFromLedger`
its `Answer`, the last its `Foretell` where the journal is open;
  `Dismiss` and `FailIntent` its `Reject`; all else is a stutter. The death
  needs the most: the document as `AtomicDocument` sees it (`SettledDocument`) must jump
  from the parent to what recovery will complete.

Review session. One inductive invariant, `IInv`, carries all six theorems: the type,
that what was applied is marked so (`AppliedAreOut`), that nothing was applied twice
in one lineage (`OnceInASession`), and, while there is a session, that its staged
chain, its snapshots and its number fit together (`Consistent`). The argument of
`PublishedOnceInASession`: a patch published in the current lineage continued the
snapshot before it, so its parent is smaller than the session's number, while
publication demands the parent to be that number; a rebind starts a lineage larger
than any before.

Version history. `IInv` is the type, mutual exclusion of the lane, `RetainedReadable` and,
for each process, what its call relies on (`Relies`): inside the lane the pointer
does not move; when objects are put, each object of the staged document is stored
or still to do; before the answer the pointer selects the newest generation, its
parent is still there, and after a save HEAD is the current content; during trim and
sweep, the tree of every version not trimmed is kept, and the generations marked
for removal are not the selected one. A sweep needs the last two: objects go only
when no kept tree reaches them, and no writer can add a version in between.

Publication. `IInv` relates the four parts of the state: what can be on a path (`DiskOK`),
where each call stands and what it knows (`ProcessesOK`), what each journal names
(`JournalsOK`), and that at most one process is past the lane (`HoldersOK`). Its centre is
`Vouched`: a prepared journal whose path no other program touched finds on the path
either the bytes it captured or the package it staged. `PackagesOK`, `UndoneOK`,
`RegistryOK` and `AnsweredOK` add where the package of an open call can be, that what
was undone is nowhere, that the registry row is the package on the path or the one a
journal still owes it (`Due`), and where the rows of the operations ledger are. They
hold with errors and kills at every step, in recovery too; the exceptions `late` and
`unrecorded` are parts of them.

Builds and saves (second part of `ExternalPublishProofs`). `SaveInv` allows saves and every fault and kill. It says
less of a build than the invariant above, and of a save what its comparison rests on:
where the files of a call can be (`PlacesOK`), that a journal about an output is of a build
nobody was answered for (`RecordsOK`), and `EvidenceOK`: once a save has passed its
comparison, what lies beside its document is its own or `NotClaimed`, of a call that was not
answered with success and has not found its own document at its path since. Renames of
others after the comparison keep that, because they bring evidence of a call that has
yet to read its path, and that finds its own document only by replacing this one;
recovery keeps it, because the evidence it repairs is of a build that died before its answer: a living one would hold the lane. It
was checked before the proof with an error and a kill at every step (1.82 million states).

`OnlyCapturedIsReplaced` adds `GuardOK`: who holds the guard of the file at an output
remembers the bytes of the other program in it, so a rename over them is one of a call
that captured them; and `LostIsLost`: whose file was removed or renamed over has slipped
for as long as it holds that guard. That is what is left of `ForeignBytesStay` beside saves (further
counterexamples above).

Hypotheses: with saves only `GuardDenies`, for `OnlyCapturedIsReplaced`. In the
first part `BuildsOnly`, because a save replaces the ledger and the bytes a build
rests on (`WordBytesStay`, `ForeignBytesStay` and `NoSecondEffect` above are false with saves);
and `GuardDenies` for `ForeignBytesAreSafe`, the platform on which a guard denies writing
the file it holds (renaming over it is never denied). Errors and kills strike anywhere
in all of them.

Workdir. `WorkdirShape` is the type, what each process has staged or moved aside
included. `TheDocumentIsKept` adds `Survives`: a whole document is among the
directories left behind, or in the backup of a process that moved it aside, or in the
root while no extraction that found none is about to write there; or `crossed`. A
document in the root keeps others from being renamed onto it (`NotVacant`), and one
that takes the name meets no such extraction, unless that is the exception. It holds for
any number of processes.

Revisions (`RevisionDecisionProofs`). The inductive invariant is `TypeOK` itself: every
revision element opens and closes once, in one paragraph, two elements lie one within
the other or beside each other (`WellNested`), no mark is an element, and every
element carries names made before now. It was checked with three decisions before it
was proved. The surgery is four cuts of a sequence, so the proofs are about two
relations between the document before and after. `Embeds`: the new tokens are the old
ones at increasing positions, tags of revisions in pairs; removing, and unwrapping
with another form of the text, are that, and well-nestedness and every view that
hides what was cut follow (`Settled...`). `Joins`: a piece put between two tokens;
nothing around it changes, and the whole is well nested if the piece is and shares no
name with the rest (`InsertWellFormed`). What a reinsertion puts in is the copy of an
element, token by token (`CopyPart`), inside a new insertion under an id that
`NextIdFree` shows to be free: among one more numbers than there are ids, one is.
`InventoryHonestHolds` compares the two readings of the part: with ids unique, the
element that closes first under an id is the one listed, and a paragraph that is
locked at its opening tag is locked at its closing tag.

These theorems are about `RevisionDecision!Spec`: decisions on revisions, from any package
whose parts are well nested. `Decide` checks the same four properties with the
operations of `PackageDecision` in between, which are not proved to keep `TypeOK`.

Agent surface (`DocumentSurfaceProofs`). `Inv` says what each party knows of a batch of
handles of one kind (`Pure`): the ledger, whether its edits are in the document; a
call past its lookup, that its edits are those of the batch and can be written
(`Consumed`); an answer, what was true when it was given. It is inductive because
edits are applied by a fold whose result is blocked as a whole or changed as a whole
(`PureApplied`), which needs induction over the batch. `WrittenOnceHolds` is about
every batch: the ledger is asked again inside the lane.

Paragraphs (`ParagraphStructureProofs`). `Inv` is `Shape` and, until a revert, `Agrees`.
`Shape` says that whatever the draft or typed.md names is a paragraph of the template or
a recorded insertion, and that ids are unique. `Agrees` is what the three files of the
last commit owe each other while the draft moves on: typed.md reads as the blocks last
bound; its rows are the paragraphs the draft has or marks deleted; each record has its
text; `TextsAgree`, a paragraph of the template reads in the draft as islands.json says, or
as the template where that is silent; and a deleted paragraph typed.md still has is one
whose id was given out again. A revert breaks it, as the hazard on reverts says. The document built is a concatenation of picked
blocks, one piece per gap, so `BuiltMembers` gives what is in it (every record,
which needs that all anchors resolve, and every template paragraph not deleted) and says nothing of the order;
`ViewsAgreeHolds` follows from it and `Agrees`. `CommitConvergesHolds` needs `Exact` too:
islands.json has no text the template has, which a commit brings about (`CommitIsExact`)
and an edit need not keep. `RightGap`, the order, stays with TLC. There is no hypothesis
but `CountAssumption`.

Inductions over a sequence are sets of numbers: `Least` and `Induction` derive from the
library's theorem on strict subsets of a finite set, which takes no operator, that a
set with 0 and with every successor of its members is all of `Nat`.

Each proof is one lemma per group of actions that disturb the same parts, collected
in the step for `Next`.

Only model-checked, and why.

- `RightGap` of `ParagraphStructure`: it compares the order the draft has with the order chains
  of anchors resolve to, through paragraphs deleted in between.
- `PackageDecision`, `LeafEdits`, `PackageBuild`, `PackageVerify`:
  their properties are about what scans and folds over a document compute. Many of the
  scans are `SelectSeq`, of which the provers know nothing.
- `BatchIsAtOnce` and `NoneIsLeft` of `DocumentSurface`, for the same reason: matches
  are found and edits are sorted by such scans.
- `EffectOnce` with errors at `restore`, `discard` and `sweep`: it is false with three of
  them (further counterexamples above); with two it is what `StoreAnyFault` checks.
- Liveness (`CallsReturn`): fairness and ENABLED are out of the prover's reach.

## 14. Not modelled

| part | why |
|---|---|
| Merging of run properties | a style is one value; its properties are tested against the reference |
| Parsing, projection, the views of the document | pure functions of a document, tested against a reference implementation |
| Comments being written, other parts of the package | the structure code treats them like paragraphs that may not change |
| Review security | checks of one request; the throttle table is local and tested |
| Protocol | data types, canonical JSON and digests, which are model values here |
| Review console, Python reference | browser client; the implementation the code was ported from |

## 15. Plan

1. Proofs: that the operations of `PackageDecision` keep the document well nested; of
   `EffectOnce` with one error at the steps of `abort()` that undo.
2. Document handles of the MCP server and what makes them stale.
