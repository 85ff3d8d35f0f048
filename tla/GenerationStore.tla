--------------------------- MODULE GenerationStore ---------------------------
(***************************************************************************)
(* The generation store of docx2typed (crates/docx2typed-store/src/store.rs):*)
(* a workdir whose document is an immutable generation directory selected   *)
(* by one pointer file.  A mutation runs under the Writer lane, journals    *)
(* its phases, commits by replacing the pointer, and is undone by abort();  *)
(* whatever a killed process leaves behind is settled by the next mutation. *)
(*                                                                         *)
(* Here every mutation is a `generation = true' one without external        *)
(* outputs, which is what each production caller of that kind issues.       *)
(*                                                                         *)
(* A generation is named by the number of the call that minted it and its   *)
(* content is the set of generations whose edit it contains, so two         *)
(* generations of one operation in one content are a duplicated effect.     *)
(* Bounds: MaxCalls calls, MaxCrashes process deaths, MaxFaults I/O     *)
(* errors (or refusals by the mutation's own closure).                      *)
(***************************************************************************)
EXTENDS Naturals, FiniteSets

CONSTANTS
  Writers,      \* processes or threads that mutate the workdir
  Readers,      \* processes or threads that pin a generation and read it
  Ops,          \* Operation-IDs
  Inputs,       \* canonical inputs of an operation
  SaveOps,      \* operations that are a save boundary (they record a Version)
  FaultPoints,  \* steps at which an I/O error or a refusal may strike
  MaxCalls, MaxCrashes, MaxFaults,
  None

ASSUME StoreAssumption ==
  /\ MaxCalls \in Nat /\ MaxCrashes \in Nat /\ MaxFaults \in Nat
  /\ SaveOps \subseteq Ops
  /\ None \notin Writers /\ None \notin Ops /\ None \notin Inputs /\ None \notin Nat
  /\ None # "success"

VARIABLES
  \* on disk
  pointer,   \* workdir.json: the generation selected and the version HEAD
  dirs,      \* generation directories that exist
  content,   \* content[g][f]: the edits file class f of generation g contains
  ledger,    \* ledger[g]: the <<operation, input>> records g carries
  root,      \* the workdir root's own copy of each file class
  tx,        \* tx[o]: the transaction directory of operation o
  depleted,  \* the reserve-depleted marker exists
  \* in memory
  lane,      \* the holder of the Writer lane (an OS advisory lock)
  pc, call,  \* each writer's position in mutate() and its arguments
  recovery,  \* the lane holder's recovery pass
  reader,    \* each reader's pin
  \* bounds and history
  calls, crashes, faults,
  owner,     \* owner[g]: the operation generation g was staged for
  acked,     \* operations answered with success once their effect was decided
  early,     \* operations answered with success while their journal was open
  failed     \* generations whose mutation was answered with an error

vars == <<pointer, dirs, content, ledger, root, tx, depleted, lane, pc, call,
          recovery, reader, calls, crashes, faults, owner, acked, early, failed>>

Generations == 0..MaxCalls

\* typed.md and edit.md are read back from the root (ingress); the template,
\* the formats and the other assets only ever come from the parent.
Files == {"ingress", "assets"}

Phases == {"intent", "prepared", "committed", "completed"}
Rank == [p \in Phases |-> CASE p = "intent"    -> 1 [] p = "prepared"  -> 2
                            [] p = "committed" -> 3 [] p = "completed" -> 4]

NoTx == [dir |-> FALSE, phases |-> {}, gen |-> None, parent |-> None,
         input |-> None, link |-> None, outcome |-> None]
NoCall == [op |-> None, input |-> None, expected |-> None, gen |-> None]
NoRecovery == [todo |-> {}, op |-> None, stuck |-> FALSE]
NoPin == [at |-> "idle", gen |-> None]

\* The document: what a reader that pins now is given.
Document == content[pointer.gen]["assets"]

\* The canonical tree a version digests: its bytes, so the operations applied
\* and not the directory they were applied in.
Tree(edits) == {owner[g] : g \in edits}

Pending == {o \in Ops : tx[o].dir}

-----------------------------------------------------------------------------
(* The journal.  A record names the hash of the record it was written after; *)
(* `link' is the one of the completed record, the others are fixed.          *)

LinkOf(t, p) == CASE p = "prepared"  -> "intent" [] p = "committed" -> "prepared"
                  [] p = "completed" -> t.link   [] OTHER -> None

Precedes(q, p, S) == /\ Rank[q] < Rank[p]
                     /\ \A r \in S : ~(Rank[q] < Rank[r] /\ Rank[r] < Rank[p])

ChainOk(t) == \A p, q \in t.phases : Precedes(q, p, t.phases) => LinkOf(t, p) = q

LastPhase(t) == IF t.phases = {} THEN None
                ELSE CHOOSE p \in t.phases : \A q \in t.phases : Rank[q] <= Rank[p]

\* The generation the readable records of a journal name.
Named(t) == IF ChainOk(t) /\ t.gen # None /\ t.phases \cap {"prepared", "committed", "completed"} # {}
            THEN {t.gen} ELSE {}

Prepared(t, g, parent, i) ==
  [dir |-> TRUE, phases |-> t.phases \cup {"prepared"}, gen |-> g, parent |-> parent,
   input |-> i, link |-> t.link, outcome |-> t.outcome]

Closed(t, result) ==
  [dir |-> TRUE, phases |-> t.phases \cup {"completed"}, gen |-> t.gen, parent |-> t.parent,
   input |-> t.input, link |-> LastPhase(t), outcome |-> result]

\* abort() closes the journal with the generation and the parent it was given.
Aborted(t, g, parent) ==
  [dir |-> TRUE, phases |-> t.phases \cup {"completed"}, gen |-> g, parent |-> parent,
   input |-> t.input, link |-> LastPhase(t), outcome |-> "failed"]

Birth == [f \in Files |-> {0}]

Init ==
  /\ pointer = [gen |-> 0, head |-> None, tree |-> {}]
  /\ dirs = {0}
  /\ content = [g \in Generations |-> Birth]
  /\ ledger = [g \in Generations |-> {}]
  /\ root = Birth
  /\ tx = [o \in Ops |-> NoTx]
  /\ depleted = FALSE
  /\ lane = None
  /\ pc = [w \in Writers |-> "idle"]
  /\ call = [w \in Writers |-> NoCall]
  /\ recovery = NoRecovery
  /\ reader = [r \in Readers |-> NoPin]
  /\ calls = 0 /\ crashes = 0 /\ faults = 0
  /\ owner = [g \in Generations |-> None]
  /\ acked = {} /\ early = {} /\ failed = {}

bounds  == <<calls, crashes, faults>>
history == <<owner, acked, early, failed>>
disk    == <<pointer, dirs, content, ledger, root, tx, depleted>>
files   == <<dirs, content, ledger>>

At(w, here) == pc[w] = here
Go(w, there) == pc' = [pc EXCEPT ![w] = there]

\* mutate() returns: the guard is dropped and the lane is free.
Leave(w) ==
  /\ Go(w, "idle")
  /\ call' = [call EXCEPT ![w] = NoCall]
  /\ lane' = None
  /\ recovery' = NoRecovery

-----------------------------------------------------------------------------
(* A mutation, from the caller's pin to the lane.                           *)

\* The caller ensures the store, pins, and passes the pinned generation on as
\* the compare-and-swap expectation.  A retry is a call with the same operation.
Call(w, o, i) ==
  /\ At(w, "idle") /\ calls < MaxCalls
  /\ pointer.gen \in dirs
  /\ calls' = calls + 1
  /\ call' = [call EXCEPT ![w] = [op |-> o, input |-> i, expected |-> pointer.gen,
                                  gen |-> calls + 1]]
  /\ Go(w, "lane")
  /\ UNCHANGED <<disk, lane, recovery, reader, crashes, faults, history>>

\* Mutant: the lookups find nothing.
RecordedNowhere(o) == {}
\* What the ledgers of all generation directories hold for one operation.
Recorded(o) == {i \in Inputs : \E g \in dirs : <<o, i>> \in ledger[g]}

\* Its journal does not say yet how the operation ended.
InProgress(o) == tx[o].dir /\ "completed" \notin tx[o].phases

\* The lookup before the pin, under no lane: an operation found recorded with the
\* caller's input is answered with success at once, whatever its journal says.
\* (It refuses another input without a change, and Call does not ask it: the
\* facade's calls do without it, and a lookup may look just before the row is there.)
AnswerFromLedger(w, o, i) ==
  /\ At(w, "idle") /\ calls < MaxCalls
  /\ i \in Recorded(o)
  /\ calls' = calls + 1
  /\ \/ InProgress(o)  /\ early' = early \cup {o} /\ UNCHANGED acked
     \/ ~InProgress(o) /\ acked' = acked \cup {o} /\ UNCHANGED early
  /\ UNCHANGED <<disk, lane, pc, call, recovery, reader, crashes, faults, owner, failed>>

Acquire(w) ==
  /\ At(w, "lane") /\ lane = None
  /\ lane' = w
  /\ Go(w, "entered")
  /\ UNCHANGED <<disk, call, recovery, reader, bounds, history>>

\* writer-busy or writer-timeout.
GiveUp(w) ==
  /\ At(w, "lane") /\ lane # None
  /\ Go(w, "idle")
  /\ call' = [call EXCEPT ![w] = NoCall]
  /\ UNCHANGED <<disk, lane, recovery, reader, bounds, history>>

RefuseDepleted(w) ==
  /\ At(w, "entered") /\ depleted
  /\ Leave(w)
  /\ UNCHANGED <<disk, reader, bounds, history>>

Enter(w) ==
  /\ At(w, "entered") /\ ~depleted
  /\ IF Pending = {} THEN /\ Go(w, "check")
                          /\ UNCHANGED recovery
                     ELSE /\ Go(w, "recover")
                          /\ recovery' = [NoRecovery EXCEPT !.todo = Pending]
  /\ UNCHANGED <<disk, lane, call, reader, bounds, history>>

Conflict(w) ==
  /\ At(w, "check") /\ pointer.gen # call[w].expected
  /\ Leave(w)
  /\ UNCHANGED <<disk, reader, bounds, history>>

Replay(w) ==
  /\ At(w, "check") /\ pointer.gen = call[w].expected
  /\ call[w].input \in Recorded(call[w].op)
  /\ acked' = acked \cup {call[w].op}
  /\ Leave(w)
  /\ UNCHANGED <<disk, reader, bounds, owner, early, failed>>

RefuseReuse(w) ==
  /\ At(w, "check") /\ pointer.gen = call[w].expected
  /\ Recorded(call[w].op) # {} /\ call[w].input \notin Recorded(call[w].op)
  /\ Leave(w)
  /\ UNCHANGED <<disk, reader, bounds, history>>

\* The transaction directory of an earlier attempt could not be removed.
RefuseJournal(w) ==
  /\ At(w, "check") /\ pointer.gen = call[w].expected
  /\ Recorded(call[w].op) = {}
  /\ tx[call[w].op].dir
  /\ Leave(w)
  /\ UNCHANGED <<disk, reader, bounds, history>>

\* begin_journal() creates the transaction directory, then writes the intent.
Begin(w) ==
  /\ At(w, "check") /\ pointer.gen = call[w].expected
  /\ Recorded(call[w].op) = {}
  /\ ~tx[call[w].op].dir
  /\ tx' = [tx EXCEPT ![call[w].op] = [NoTx EXCEPT !.dir = TRUE]]
  /\ Go(w, "intent")
  /\ UNCHANGED <<pointer, files, root, depleted, lane, call, recovery, reader, bounds, history>>

-----------------------------------------------------------------------------
(* The journaled phases of one mutation.                                     *)

MayFault(w, point) == At(w, point) /\ point \in FaultPoints /\ faults < MaxFaults

Journal(w, t) == tx' = [tx EXCEPT ![call[w].op] = t]
Mine(w) == tx[call[w].op]

\* A directory whose removal is interrupted keeps any of its records; the result
\* of the removal is ignored.
Removing == {"remove", "dismiss", "sweep"}
PartlyRemoved(t) == {NoTx} \cup {[t EXCEPT !.phases = left] : left \in SUBSET t.phases}

Remove(w, o) ==
  \/ tx' = [tx EXCEPT ![o] = NoTx] /\ UNCHANGED faults
  \/ /\ \E point \in Removing : MayFault(w, point)
     /\ faults' = faults + 1
     /\ \E t \in PartlyRemoved(tx[o]) \ {NoTx} : tx' = [tx EXCEPT ![o] = t]

WriteIntent(w) ==
  /\ At(w, "intent")
  /\ Journal(w, [Mine(w) EXCEPT !.phases = {"intent"}])
  /\ Go(w, "stage")
  /\ UNCHANGED <<pointer, files, root, depleted, lane, call, recovery, reader, bounds, history>>

\* The files of a staged generation: the root's ingress files, the parent's assets,
\* and the edit itself.
Staged(g) == [f \in Files |-> {g} \cup IF f = "ingress" THEN root[f] ELSE content[pointer.gen][f]]

\* Mutant: the copy leaves the parent's ledger behind.
StageWithoutLedger(w) ==
  LET c == call[w] IN
  /\ At(w, "stage") /\ pointer.gen \in dirs
  /\ dirs' = dirs \cup {c.gen}
  /\ content' = [content EXCEPT ![c.gen] = Staged(c.gen)]
  /\ owner' = [owner EXCEPT ![c.gen] = c.op]
  /\ Go(w, "prepare")
  /\ UNCHANGED <<pointer, ledger, root, tx, depleted, lane, call, recovery, reader, bounds,
                 acked, early, failed>>

\* Copy the parent (its ledger comes along), lay the root's ingress files over
\* the copy, and run the edit on it.
Stage(w) ==
  LET c == call[w] IN
  /\ At(w, "stage") /\ pointer.gen \in dirs
  /\ dirs' = dirs \cup {c.gen}
  /\ content' = [content EXCEPT ![c.gen] = Staged(c.gen)]
  /\ ledger' = [ledger EXCEPT ![c.gen] = ledger[pointer.gen]]
  /\ owner' = [owner EXCEPT ![c.gen] = c.op]
  /\ Go(w, "prepare")
  /\ UNCHANGED <<pointer, root, tx, depleted, lane, call, recovery, reader, bounds, acked, early, failed>>

Prepare(w) ==
  LET c == call[w] IN
  /\ At(w, "prepare")
  /\ Journal(w, Prepared(Mine(w), c.gen, pointer.gen, c.input))
  /\ Go(w, "swap")
  /\ UNCHANGED <<pointer, files, root, depleted, lane, call, recovery, reader, bounds, history>>

\* commit_pointer(): the version fields are carried forward from the previous
\* pointer unless a save boundary changed the canonical tree.
Selecting(g, save) ==
  LET tree == Tree(content[g]["assets"]) IN
  IF save /\ tree # pointer.tree
  THEN [gen |-> g, head |-> g, tree |-> tree]
  ELSE [pointer EXCEPT !.gen = g]

SwapPointer(w) ==
  /\ At(w, "swap")
  /\ pointer' = Selecting(call[w].gen, call[w].op \in SaveOps)
  /\ Go(w, "commit")
  /\ UNCHANGED <<files, root, tx, depleted, lane, call, recovery, reader, bounds, history>>

Commit(w) ==
  /\ At(w, "commit")
  /\ Journal(w, [Mine(w) EXCEPT !.phases = @ \cup {"committed"}])
  /\ Go(w, "ledger")
  /\ UNCHANGED <<pointer, files, root, depleted, lane, call, recovery, reader, bounds, history>>

Record(o, i, g) == ledger' = [ledger EXCEPT ![g] = @ \cup {<<o, i>>}]

WriteLedger(w) ==
  /\ At(w, "ledger")
  /\ Record(call[w].op, call[w].input, call[w].gen)
  /\ Go(w, "materialize")
  /\ UNCHANGED <<pointer, dirs, content, root, tx, depleted, lane, call, recovery, reader, bounds, history>>

\* Every file of the generation is copied onto the root.
Materialize(w) ==
  /\ At(w, "materialize")
  /\ root' = content[call[w].gen]
  /\ Go(w, "complete")
  /\ UNCHANGED <<pointer, files, tx, depleted, lane, call, recovery, reader, bounds, history>>

Complete(w) ==
  /\ At(w, "complete")
  /\ Journal(w, Closed(Mine(w), "success"))
  /\ Go(w, "remove")
  /\ UNCHANGED <<pointer, files, root, depleted, lane, call, recovery, reader, bounds, history>>

RemoveTx(w) ==
  /\ At(w, "remove")
  /\ Remove(w, call[w].op)
  /\ acked' = acked \cup {call[w].op}
  /\ Leave(w)
  /\ UNCHANGED <<pointer, files, root, depleted, reader, calls, crashes, owner, early, failed>>

-----------------------------------------------------------------------------
(* I/O errors and refusals.  After the intent every one of them ends in       *)
(* abort(), which undoes the pointer first when it had already moved.         *)

BeforeSwap == {"stage", "prepare", "swap"}
AfterSwap  == {"commit", "ledger", "materialize", "complete"}

\* Any subset of the files may have been copied when a copy loop stops.
PartlyCopied(g) == {[f \in Files |-> IF f \in done /\ g \in dirs THEN content[g][f] ELSE root[f]] :
                      done \in SUBSET Files}

\* begin_journal() failing returns at once: the empty directory stays.
FailIntent(w) ==
  /\ MayFault(w, "intent")
  /\ faults' = faults + 1
  /\ failed' = failed \cup {call[w].gen}
  /\ Leave(w)
  /\ UNCHANGED <<disk, reader, calls, crashes, owner, acked, early>>

\* Mutant: abort() never undoes the pointer.
FailPhaseUnrestored(w) ==
  /\ \E point \in BeforeSwap \cup AfterSwap :
       /\ MayFault(w, point)
       /\ Go(w, "discard")
       /\ IF point = "materialize" THEN root' \in PartlyCopied(call[w].gen)
                                   ELSE UNCHANGED root
  /\ faults' = faults + 1
  /\ UNCHANGED <<pointer, files, tx, depleted, lane, call, recovery, reader, calls, crashes, history>>

FailPhase(w) ==
  /\ \E point \in BeforeSwap \cup AfterSwap :
       /\ MayFault(w, point)
       /\ Go(w, IF point \in AfterSwap THEN "restore" ELSE "discard")
       /\ IF point = "materialize" THEN root' \in PartlyCopied(call[w].gen)
                                   ELSE UNCHANGED root
  /\ faults' = faults + 1
  /\ UNCHANGED <<pointer, files, tx, depleted, lane, call, recovery, reader, calls, crashes, history>>

\* The parent vanished between the caller's pin and the copy.
StageMissing(w) ==
  /\ At(w, "stage") /\ pointer.gen \notin dirs
  /\ Go(w, "discard")
  /\ UNCHANGED <<disk, lane, call, recovery, reader, bounds, history>>

\* abort() 1: republish the parent, which carries the version fields forward.
Restore(w) ==
  /\ At(w, "restore")
  /\ pointer' = Selecting(call[w].expected, FALSE)
  /\ Go(w, "discard")
  /\ UNCHANGED <<files, root, tx, depleted, lane, call, recovery, reader, bounds, history>>

\* Its result is ignored.
FailRestore(w) ==
  /\ MayFault(w, "restore")
  /\ faults' = faults + 1
  /\ Go(w, "discard")
  /\ UNCHANGED <<disk, lane, call, recovery, reader, calls, crashes, history>>

\* Mutant: the failed generation, and the ledger in it, stays.
DiscardNothing(w) ==
  /\ At(w, "discard")
  /\ Go(w, "fail")
  /\ UNCHANGED <<disk, lane, call, recovery, reader, bounds, history>>

\* abort() 2: remove the prepared generation.
Discard(w) ==
  /\ At(w, "discard")
  /\ dirs' = dirs \ {call[w].gen}
  /\ Go(w, "fail")
  /\ UNCHANGED <<pointer, content, ledger, root, tx, depleted, lane, call, recovery, reader, bounds, history>>

FailDiscard(w) ==
  /\ MayFault(w, "discard")
  /\ faults' = faults + 1
  /\ Go(w, "fail")
  /\ UNCHANGED <<disk, lane, call, recovery, reader, calls, crashes, history>>

\* abort() 3: close the journal as failed; an ENOSPC releases the reserve.
CloseFailed(w) ==
  /\ At(w, "fail")
  /\ Journal(w, Aborted(Mine(w), call[w].gen, call[w].expected))
  /\ \E enospc \in BOOLEAN : depleted' = (depleted \/ enospc)
  /\ Go(w, "dismiss")
  /\ UNCHANGED <<pointer, files, root, lane, call, recovery, reader, bounds, history>>

\* The closing record of an undone transaction is tried, and done without.
FailClose(w) ==
  /\ \/ MayFault(w, "fail") /\ Go(w, "dismiss")
     \/ MayFault(w, "back-close") /\ Go(w, "sweep")
  /\ \E enospc \in BOOLEAN : depleted' = (depleted \/ (enospc /\ At(w, "fail")))
  /\ faults' = faults + 1
  /\ UNCHANGED <<pointer, files, root, tx, lane, call, recovery, reader, calls, crashes, history>>

\* abort() 4: remove the transaction directory and return the error.
Dismiss(w) ==
  /\ At(w, "dismiss")
  /\ Remove(w, call[w].op)
  /\ failed' = failed \cup {call[w].gen}
  /\ Leave(w)
  /\ UNCHANGED <<pointer, files, root, depleted, reader, calls, crashes, owner, acked, early>>

Replenish ==
  /\ depleted
  /\ depleted' = FALSE
  /\ UNCHANGED <<pointer, files, root, tx, lane, pc, call, recovery, reader, bounds, history>>

-----------------------------------------------------------------------------
(* recover_all(), run by the lane holder before its own mutation.            *)

Take(w, o, next) ==
  /\ recovery' = [recovery EXCEPT !.op = o]
  /\ Go(w, next)
  /\ UNCHANGED <<disk, lane, call, reader, bounds, history>>

\* A transaction nothing can be proved about stays, and refuses the mutation.
Stick(w, o) ==
  /\ recovery' = [recovery EXCEPT !.todo = @ \ {o}, !.op = None, !.stuck = TRUE]
  /\ Go(w, "recover")

Unfinished(t) == ChainOk(t) /\ "completed" \notin t.phases
IsForward(t) == \* the pointer already selects the prepared generation
  /\ Unfinished(t) /\ "prepared" \in t.phases /\ pointer.gen = t.gen
IsBack(t) == \* the pointer never moved, or nothing was prepared
  /\ Unfinished(t)
  /\ \/ t.phases \subseteq {"intent"}
     \/ "prepared" \in t.phases /\ pointer.gen = t.parent
IsUnprovable(t) ==
  \/ ~ChainOk(t)
  \/ Unfinished(t) /\ "prepared" \in t.phases /\ pointer.gen \notin {t.gen, t.parent}
\* A committed record without its prepared record is rolled forward as if it
\* were an external output, and roll_forward() expects the prepared record.
IsHeadless(t) == Unfinished(t) /\ "committed" \in t.phases /\ "prepared" \notin t.phases

RecoverStick(w) ==
  /\ At(w, "recover")
  /\ \E o \in recovery.todo : IsUnprovable(tx[o]) /\ Stick(w, o)
  /\ UNCHANGED <<disk, lane, call, reader, bounds, history>>

RecoverForward(w) ==
  /\ At(w, "recover")
  /\ \E o \in recovery.todo : IsForward(tx[o]) /\ Take(w, o, "forward-materialize")

RecoverBack(w) ==
  /\ At(w, "recover")
  /\ \E o \in recovery.todo : IsBack(tx[o]) /\ Take(w, o, "back-discard")

RecoverSettle(w) ==
  /\ At(w, "recover")
  /\ \E o \in recovery.todo :
       ChainOk(tx[o]) /\ "completed" \in tx[o].phases /\ Take(w, o, "settle-ledger")

RecoverPanic(w) ==
  /\ At(w, "recover")
  /\ \E o \in recovery.todo : IsHeadless(tx[o]) /\ Take(w, o, "panic")

\* The thread unwinds and drops the lane guard.
Unwind(w) ==
  /\ At(w, "panic")
  /\ Leave(w)
  /\ UNCHANGED <<disk, reader, bounds, history>>

Mending == tx[recovery.op]

\* Mutant: rolling forward leaves the root as the killed process left it.
ForwardUnmaterialized(w) ==
  /\ At(w, "forward-materialize")
  /\ IF Mending.gen \in dirs THEN Go(w, "forward-ledger") /\ UNCHANGED recovery
                             ELSE Stick(w, recovery.op)
  /\ UNCHANGED <<disk, lane, call, reader, bounds, history>>

ForwardMaterialize(w) ==
  /\ At(w, "forward-materialize")
  /\ IF Mending.gen \in dirs
     THEN /\ root' = content[Mending.gen]
          /\ Go(w, "forward-ledger")
          /\ UNCHANGED recovery
     ELSE /\ Stick(w, recovery.op)
          /\ UNCHANGED root
  /\ UNCHANGED <<pointer, files, tx, depleted, lane, call, reader, bounds, history>>

\* Mutant: the ledger row the killed process did not write is not repaired.
ForwardWithoutLedger(w) ==
  /\ At(w, "forward-ledger")
  /\ Go(w, "forward-close")
  /\ UNCHANGED <<disk, lane, call, recovery, reader, bounds, history>>

ForwardLedger(w) ==
  /\ At(w, "forward-ledger")
  /\ Record(recovery.op, Mending.input, Mending.gen)
  /\ Go(w, "forward-close")
  /\ UNCHANGED <<pointer, dirs, content, root, tx, depleted, lane, call, recovery, reader, bounds, history>>

ForwardClose(w) ==
  /\ At(w, "forward-close")
  /\ tx' = [tx EXCEPT ![recovery.op] = Closed(Mending, "success")]
  /\ Go(w, "sweep")
  /\ UNCHANGED <<pointer, files, root, depleted, lane, call, recovery, reader, bounds, history>>

BackDiscard(w) ==
  /\ At(w, "back-discard")
  /\ dirs' = IF "prepared" \in Mending.phases THEN dirs \ {Mending.gen} ELSE dirs
  /\ Go(w, "back-close")
  /\ UNCHANGED <<pointer, content, ledger, root, tx, depleted, lane, call, recovery, reader, bounds, history>>

BackClose(w) ==
  /\ At(w, "back-close")
  /\ tx' = [tx EXCEPT ![recovery.op] = Closed(Mending, "rolled-back")]
  /\ Go(w, "sweep")
  /\ UNCHANGED <<pointer, files, root, depleted, lane, call, recovery, reader, bounds, history>>

\* Only a successful record carries the envelope a ledger row is made of.
SettleLedger(w) ==
  /\ At(w, "settle-ledger")
  /\ IF Mending.outcome = "success" THEN Record(recovery.op, Mending.input, Mending.gen)
                                    ELSE UNCHANGED ledger
  /\ Go(w, "sweep")
  /\ UNCHANGED <<pointer, dirs, content, root, tx, depleted, lane, call, recovery, reader, bounds, history>>

\* Mutant: the pass starts again on what it has settled.
SweepAgain(w) ==
  /\ At(w, "sweep")
  /\ Remove(w, recovery.op)
  /\ recovery' = [recovery EXCEPT !.op = None]
  /\ Go(w, "recover")
  /\ UNCHANGED <<pointer, files, root, depleted, lane, call, reader, calls, crashes, history>>

\* Remove the settled transaction directory and go on with the next one.
Sweep(w) ==
  /\ At(w, "sweep")
  /\ Remove(w, recovery.op)
  /\ recovery' = [recovery EXCEPT !.todo = @ \ {recovery.op}, !.op = None]
  /\ Go(w, "recover")
  /\ UNCHANGED <<pointer, files, root, depleted, lane, call, reader, calls, crashes, history>>

\* A repair that fails is reported as ambiguous; the journal stays.
FailRecovery(w) ==
  /\ \E point \in {"forward-materialize", "forward-ledger", "forward-close", "settle-ledger"} :
       /\ MayFault(w, point)
       /\ point = "settle-ledger" => Mending.outcome = "success"
       /\ IF point = "forward-materialize" THEN root' \in PartlyCopied(Mending.gen)
                                           ELSE UNCHANGED root
  /\ Stick(w, recovery.op)
  /\ faults' = faults + 1
  /\ UNCHANGED <<pointer, files, tx, depleted, lane, call, reader, calls, crashes, history>>

\* gc_abandoned(): what neither the pointer nor a readable journal names goes.
CollectGarbage(w) ==
  /\ At(w, "recover") /\ recovery.todo = {}
  /\ dirs' = dirs \cap ({pointer.gen} \cup UNION {Named(tx[o]) : o \in Pending})
  /\ IF recovery.stuck THEN Leave(w)
                       ELSE /\ Go(w, "check")
                            /\ recovery' = NoRecovery
                            /\ UNCHANGED <<lane, call>>
  /\ UNCHANGED <<pointer, content, ledger, root, tx, depleted, reader, bounds, history>>

-----------------------------------------------------------------------------
(* Process death, readers, and the whole.                                     *)

Crash(w) ==
  /\ ~At(w, "idle") /\ crashes < MaxCrashes
  /\ crashes' = crashes + 1
  /\ Go(w, "idle")
  /\ call' = [call EXCEPT ![w] = NoCall]
  /\ IF lane = w THEN lane' = None /\ recovery' = NoRecovery
                 ELSE UNCHANGED <<lane, recovery>>
  /\ root' \in CASE At(w, "materialize")         -> PartlyCopied(call[w].gen)
                 [] At(w, "forward-materialize") -> PartlyCopied(Mending.gen)
                 [] OTHER                        -> {root}
  /\ LET o == IF At(w, "sweep") THEN recovery.op ELSE call[w].op IN
     IF pc[w] \in Removing THEN \E t \in PartlyRemoved(tx[o]) : tx' = [tx EXCEPT ![o] = t]
                           ELSE UNCHANGED tx
  /\ UNCHANGED <<pointer, files, depleted, reader, calls, faults, history>>

\* Mutant: the reader takes the newest directory instead of the pointer's.
ReadNewest(r) ==
  /\ reader[r].at = "idle"
  /\ reader' = [reader EXCEPT ![r] =
                  [at |-> "read", gen |-> CHOOSE g \in dirs : \A h \in dirs : h <= g]]
  /\ UNCHANGED <<disk, lane, pc, call, recovery, bounds, history>>

\* pin() reads the pointer, then looks for the directory.
ReadPointer(r) ==
  /\ reader[r].at = "idle"
  /\ reader' = [reader EXCEPT ![r] = [at |-> "read", gen |-> pointer.gen]]
  /\ UNCHANGED <<disk, lane, pc, call, recovery, bounds, history>>

PinGeneration(r) ==
  /\ reader[r].at = "read"
  /\ reader' = [reader EXCEPT ![r] = IF reader[r].gen \in dirs THEN [@ EXCEPT !.at = "pinned"]
                                                               ELSE NoPin]
  /\ UNCHANGED <<disk, lane, pc, call, recovery, bounds, history>>

Unpin(r) ==
  /\ reader[r].at = "pinned"
  /\ reader' = [reader EXCEPT ![r] = NoPin]
  /\ UNCHANGED <<disk, lane, pc, call, recovery, bounds, history>>

Step(w) ==
  \/ Acquire(w) \/ GiveUp(w) \/ RefuseDepleted(w) \/ Enter(w)
  \/ Conflict(w) \/ Replay(w) \/ RefuseReuse(w) \/ RefuseJournal(w) \/ Begin(w)
  \/ WriteIntent(w) \/ Stage(w) \/ StageMissing(w) \/ Prepare(w) \/ SwapPointer(w) \/ Commit(w)
  \/ WriteLedger(w) \/ Materialize(w) \/ Complete(w) \/ RemoveTx(w)
  \/ Restore(w) \/ Discard(w) \/ CloseFailed(w) \/ Dismiss(w)
  \/ RecoverStick(w) \/ RecoverForward(w) \/ RecoverBack(w) \/ RecoverSettle(w)
  \/ RecoverPanic(w) \/ Unwind(w)
  \/ ForwardMaterialize(w) \/ ForwardLedger(w) \/ ForwardClose(w)
  \/ BackDiscard(w) \/ BackClose(w) \/ SettleLedger(w) \/ Sweep(w) \/ CollectGarbage(w)

Fail(w) ==
  \/ FailIntent(w) \/ FailPhase(w)
  \/ FailRestore(w) \/ FailDiscard(w) \/ FailClose(w)
  \/ FailRecovery(w)

Read(r) == ReadPointer(r) \/ PinGeneration(r) \/ Unpin(r)

Next ==
  \/ \E w \in Writers : \/ \E o \in Ops, i \in Inputs : Call(w, o, i) \/ AnswerFromLedger(w, o, i)
                        \/ Step(w) \/ Fail(w) \/ Crash(w)
  \/ \E r \in Readers : Read(r)
  \/ Replenish

Spec == Init /\ [][Next]_vars

\* A mutation is straight-line code: a process that is not killed goes on.
FairSpec == Spec /\ \A w \in Writers : WF_vars(Step(w))

-----------------------------------------------------------------------------
(* Properties.                                                               *)

PcValues == {"idle", "lane", "entered", "check", "intent", "stage", "prepare", "swap", "commit",
             "ledger", "materialize", "complete", "remove", "restore", "discard", "fail", "dismiss",
             "recover", "panic", "forward-materialize", "forward-ledger", "forward-close",
             "back-discard", "back-close", "settle-ledger", "sweep"}

TxRecords == [dir : BOOLEAN, phases : SUBSET Phases, gen : Generations \cup {None},
              parent : Generations \cup {None}, input : Inputs \cup {None},
              link : Phases \cup {None}, outcome : {"success", "failed", "rolled-back", None}]

\* The type of every variable.
TypeOK ==
  /\ pointer \in [gen : Generations, head : Generations \cup {None}, tree : SUBSET (Ops \cup {None})]
  /\ dirs \subseteq Generations
  /\ content \in [Generations -> [Files -> SUBSET Generations]]
  /\ ledger \in [Generations -> SUBSET (Ops \X Inputs)]
  /\ root \in [Files -> SUBSET Generations]
  /\ tx \in [Ops -> TxRecords]
  /\ depleted \in BOOLEAN
  /\ lane \in Writers \cup {None}
  /\ pc \in [Writers -> PcValues]
  /\ call \in [Writers -> [op : Ops \cup {None}, input : Inputs \cup {None},
                          expected : Generations \cup {None}, gen : Generations \cup {None}]]
  /\ recovery \in [todo : SUBSET Ops, op : Ops \cup {None}, stuck : BOOLEAN]
  /\ reader \in [Readers -> [at : {"idle", "read", "pinned"}, gen : Generations \cup {None}]]
  /\ calls \in 0..MaxCalls /\ crashes \in 0..MaxCrashes /\ faults \in 0..MaxFaults
  /\ owner \in [Generations -> Ops \cup {None}]
  /\ acked \subseteq Ops /\ early \subseteq Ops /\ failed \subseteq Generations

\* The pointer always selects a generation that exists: no cut between staging,
\* the pointer swap, abort(), recovery and garbage collection leaves it dangling.
PointerResolves == pointer.gen \in dirs

\* "duplicated Operation-ID effect": however often an operation is retried, by
\* whom, and after which crash, the document contains its edit at most once.
EffectOnce == \A g, h \in Document \ {0} : owner[g] = owner[h] => g = h

\* Every answer to an operation whose journal is closed stays true: the document
\* still contains an edit answered with success, by mutate() or by the unlocked
\* lookup, and no part of an attempt answered with an error, whatever crashes,
\* aborts and recoveries come after the answer.  (EarlyAnswersStayTrue, below, is
\* what the lookup's other answers do not keep.)
AnswersStayTrue ==
  /\ \A o \in acked : \E g \in Document : owner[g] = o
  /\ failed \cap Document = {}

\* What makes replay work after garbage collection: the generation the pointer
\* selects itself carries the record of every edit it contains, except the last
\* one while its transaction is still open.
LedgerCoversDocument ==
  \A g \in Document \ {0} :
    \/ \E i \in Inputs : <<owner[g], i>> \in ledger[pointer.gen]
    \/ g = pointer.gen /\ tx[owner[g]].dir

\* When nobody is mutating and no transaction is open, no file at the root is
\* behind the generation the pointer selects; what it holds beyond that are parts
\* of attempts that were undone after they had been copied (NeverMixed, below).
RootMirrorsDocument ==
  lane = None /\ Pending = {} =>
    \A f \in DOMAIN root : content[pointer.gen][f] \subseteq root[f]

\* The version HEAD names a generation whose edit the document contains.
HeadInDocument == pointer.head \in Document \cup {None}

\* No torn read: while it exists, a generation a reader was given to read is part
\* of the document or was prepared whole, never one still being written.
PinnedInDocument ==
  \A r \in Readers : reader[r].at = "pinned" =>
    \/ reader[r].gen \in Document \/ reader[r].gen \notin dirs
    \/ \E o \in Ops : tx[o].gen = reader[r].gen /\ "prepared" \in tx[o].phases

\* A retry is answered the same at any time: what a lookup finds recorded for an
\* operation without an open transaction, the unlocked lookup before mutate()
\* included, no abort, recovery or garbage collection takes back.
RecordedStays ==
  [][\A o \in Ops : ~tx[o].dir => Recorded(o) \subseteq Recorded(o)']_vars

\* The same of every operation is refuted: while its transaction is open, abort()
\* can still take back the row that the unlocked lookup finds (server.rs 585-599).
LookupStays == [][\A o \in Ops : Recorded(o) \subseteq Recorded(o)']_vars

\* Every call returns: nobody waits for ever, recovery included.
CallsReturn == \A w \in Writers : ~At(w, "idle") ~> At(w, "idle")

(* The statements of the source below do not hold; each is a counterexample    *)
(* TLC finds with the configuration the README names.                          *)

\* "never a mixed generation": all files of the selected generation contain the
\* same edits (store.rs, module contract and abort()).
NeverMixed == content[pointer.gen]["ingress"] = content[pointer.gen]["assets"]

\* "the pinned path stays consistent even while a later writer commits" (pin()).
PinnedPathStays == \A r \in Readers : reader[r].at = "pinned" => reader[r].gen \in dirs

\* "The committed generation for one completed mutation ... the record is durable
\* before `mutate` returns": an answer the unlocked lookup takes from the row of an
\* operation whose journal is open (server.rs 583-597) is undone by abort(), or by
\* the recovery of a process killed in abort().
EarlyAnswersStayTrue == \A o \in early : \E g \in Document : owner[g] = o

\* roll_forward() asserts "prepared present".
PreparedPresent == \A w \in Writers : ~At(w, "panic")

-----------------------------------------------------------------------------
(* The store implements AtomicDocument.  Until the completed record of a       *)
(* mutation is on disk, abort() may still take the swapped pointer back, so    *)
(* the document of the abstract specification is the parent's; a writer that   *)
(* dies in that window leaves the decision to recovery, which goes forward.    *)

Undecided == AfterSwap \cup {"restore"}

SettledDocument ==
  IF \E w \in Writers : pc[w] \in Undecided
  THEN content[call[lane].expected]["assets"]
  ELSE Document

Atomic == INSTANCE AtomicDocument WITH
  Attempts <- Generations,
  doc      <- {<<owner[g], g>> : g \in SettledDocument \ {0}},
  answered <- acked,
  foretold <- early,
  rejected <- failed

\* Each step of the store is a step of AtomicDocument or leaves it alone.
ImplementsAtomicDocument == Atomic!Spec
=============================================================================
