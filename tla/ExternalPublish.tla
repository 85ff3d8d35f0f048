--------------------------- MODULE ExternalPublish ---------------------------
(***************************************************************************)
(* Publication of built documents.  `build' runs as a store transaction    *)
(* without a generation (store.rs) and publishes the package straight onto *)
(* the output path; `document_save' (src/surface/save.rs) builds beside the *)
(* output through such a transaction, verifies, and moves the result into  *)
(* place itself.  Another program, Word, owns the same files and takes no  *)
(* part in any lock; a registry of the bytes last published is what guards *)
(* its work.                                                               *)
(*                                                                         *)
(* The bytes a call builds are named by its number.  Generations never move *)
(* here, so their compare-and-swap is left out; one transaction publishes  *)
(* one output, which is all production callers do.  The guard is a handle   *)
(* on the file at the output: on Windows it denies writing that file        *)
(* (GuardDenies), elsewhere nothing, and nowhere removing it from its path  *)
(* or renaming another one onto it.                                         *)
(* Bounds: MaxCalls, MaxCrashes, MaxWrites of the other program, MaxFaults. *)
(***************************************************************************)
EXTENDS Naturals, FiniteSets

CONSTANTS
  Processes,    \* processes that build or save
  Outputs,      \* paths a caller may name
  Ops,          \* Operation-IDs of builds (a save makes a fresh one)
  Kinds,        \* which of "build" and "save" the processes call
  Foreign,      \* bytes the other program writes
  Source,       \* the canonical source path of the workdir
  Baseline,     \* the bytes it was extracted from
  GuardDenies,  \* a guard keeps the other program from writing the file it holds
  FaultPoints,  \* steps that may end in an I/O error
  CrashPoints,  \* steps at which a process may die
  MaxCalls, MaxCrashes, MaxWrites, MaxFaults,
  None

ASSUME PublishAssumption ==
  /\ MaxCalls \in Nat /\ MaxCrashes \in Nat /\ MaxWrites \in Nat /\ MaxFaults \in Nat
  /\ Kinds \subseteq {"build", "save"} /\ GuardDenies \in BOOLEAN
  /\ None \notin Processes \cup Foreign \cup Outputs \cup Ops \cup Nat \cup {Baseline}
  /\ (Foreign \cup Outputs \cup Ops \cup {Baseline, Source}) \cap Nat = {}
  /\ Baseline \notin Foreign

VARIABLES
  \* on disk
  file,      \* file[path]: the bytes there, None when absent
  evidence,  \* evidence[path][s]: the bytes a sidecar of path claims
  ledger,    \* ledger[path]: the operations recorded beside path
  registry,  \* external-targets.json: the bytes last published per path
  tx,        \* tx[operation]: its transaction journal
  \* in memory
  lane, pc, call,
  slipped,   \* whoever holds a guard on a file that is no longer at the output
  \* bounds and history
  calls, crashes, writes, faults,
  touched,   \* paths the other program wrote since they were last staged
  late,      \* calls that ended in an error after their package had landed
  unrecorded, \* calls whose package no step will enter into the registry
  undone,    \* builds answered with an error or rolled back by recovery
  acked,     \* operation, path and bytes of the builds answered with success
  done       \* saves answered with success

vars == <<file, evidence, ledger, registry, tx, lane, pc, call, slipped,
          calls, crashes, writes, faults, late, unrecorded, touched, undone, acked, done>>

Calls == 1..MaxCalls
Paths == Outputs \cup Calls          \* call n of a save builds at the path n
Operations == Ops \cup Calls         \* and under the operation n
Sidecars == {"build", "verify"}
Bytes == Calls \cup Foreign \cup {Baseline, None}

NoTx == [phases |-> {}, dir |-> FALSE, path |-> None, bytes |-> None, before |-> None]
NoCall == [kind |-> None, op |-> None, out |-> None, path |-> None, n |-> 0,
           before |-> None, seen |-> [p \in {} |-> None], todo |-> {}, mend |-> None, stuck |-> FALSE]

Pending == {o \in Operations : tx[o].dir}

Init ==
  /\ file = [p \in Paths |-> IF p = Source THEN Baseline ELSE None]
  /\ evidence = [p \in Paths |-> [s \in Sidecars |-> None]]
  /\ ledger = [p \in Paths |-> {}]
  /\ registry = [p \in Paths |-> None]
  /\ tx = [o \in Operations |-> NoTx]
  /\ lane = None /\ slipped = {}
  /\ pc = [p \in Processes |-> "idle"] /\ call = [p \in Processes |-> NoCall]
  /\ calls = 0 /\ crashes = 0 /\ writes = 0 /\ faults = 0
  /\ late = {} /\ unrecorded = {}
  /\ touched = {} /\ undone = {} /\ acked = {} /\ done = {}

\* What only a few actions change.
rare == <<calls, crashes, writes, faults, slipped, late, unrecorded>>
history == <<touched, undone, acked, done>>
disk == <<file, evidence, ledger, registry, tx>>

At(p, here) == pc[p] = here
Go(p, there) == pc' = [pc EXCEPT ![p] = there]
Keep(p, c) == call' = [call EXCEPT ![p] = c]

Unlock(p) == lane' = IF lane = p THEN None ELSE lane

\* Back to the caller, with an error.
Refuse(p) ==
  /\ Go(p, "idle") /\ Keep(p, NoCall) /\ Unlock(p)
  /\ undone' = IF call[p].kind = "build" THEN undone \cup {call[p].n} ELSE undone

-----------------------------------------------------------------------------
(* check_external_target(): the registry first, the baseline only without it. *)

MayPublish(path) ==
  IF registry[path] # None THEN file[path] = registry[path]
  ELSE file[path] = None \/ (path = Source /\ file[path] = Baseline)

-----------------------------------------------------------------------------
(* From the caller to the journal.                                           *)

Call(p, kind, o, out) ==
  /\ At(p, "idle") /\ calls < MaxCalls
  /\ kind = "save" => MayPublish(out)
  /\ calls' = calls + 1
  /\ LET n == calls + 1 IN
     Keep(p, [NoCall EXCEPT !.kind = kind, !.out = out, !.n = n,
                            !.op = IF kind = "save" THEN n ELSE o,
                            !.path = IF kind = "save" THEN n ELSE out])
  /\ Go(p, "lane")
  /\ UNCHANGED <<disk, lane, crashes, writes, faults, slipped, late, unrecorded, history>>

Acquire(p) ==
  /\ At(p, "lane") /\ lane = None
  /\ lane' = p
  /\ IF Pending = {} THEN Go(p, "check") /\ UNCHANGED call
                     ELSE Go(p, "recover") /\ Keep(p, [call[p] EXCEPT !.todo = Pending])
  /\ UNCHANGED <<disk, rare, history>>

\* Builds do not wait: writer-busy.
Busy(p) ==
  /\ At(p, "lane") /\ lane # None
  /\ Refuse(p)
  /\ UNCHANGED <<disk, rare, touched, acked, done>>

\* An operation recorded beside the output is answered again.
Replay(p) ==
  /\ At(p, "check") /\ call[p].op \in ledger[call[p].path]
  /\ Go(p, "idle") /\ Keep(p, NoCall) /\ Unlock(p)
  /\ UNCHANGED <<disk, rare, history>>

\* check_production_entry(), before anything is written.
RefuseEntry(p) ==
  /\ At(p, "check") /\ call[p].op \notin ledger[call[p].path]
  /\ ~MayPublish(call[p].path)
  /\ Refuse(p)
  /\ UNCHANGED <<disk, rare, touched, acked, done>>

Journal(p, t) == tx' = [tx EXCEPT ![call[p].op] = t]
Mine(p) == tx[call[p].op]
Log(p, phase) == Journal(p, [Mine(p) EXCEPT !.phases = @ \cup {phase}])

Begin(p) ==
  /\ At(p, "check") /\ call[p].op \notin ledger[call[p].path]
  /\ MayPublish(call[p].path)
  /\ ~Mine(p).dir
  /\ Journal(p, [NoTx EXCEPT !.dir = TRUE, !.phases = {"intent"}])
  /\ Go(p, "run")
  /\ UNCHANGED <<file, evidence, ledger, registry, lane, call, rare, history>>

\* The build itself; stage_external() captures what the output is now.
Run(p) ==
  /\ At(p, "run")
  /\ Keep(p, [call[p] EXCEPT !.before = file[call[p].path]])
  /\ touched' = touched \ {call[p].path}
  /\ Go(p, "staged")
  /\ UNCHANGED <<disk, lane, rare, undone, acked, done>>

\* Every staged output is checked again; the run evidence is written beside it.
CheckStaged(p) ==
  /\ At(p, "staged") /\ MayPublish(call[p].path)
  /\ evidence' = [evidence EXCEPT ![call[p].path]["build"] = call[p].n]
  /\ Go(p, "prepare")
  /\ UNCHANGED <<file, ledger, registry, tx, lane, call, rare, history>>

RefuseStaged(p) ==
  /\ At(p, "staged") /\ ~MayPublish(call[p].path)
  /\ Go(p, "abort")
  /\ UNCHANGED <<disk, lane, call, rare, history>>

Prepare(p) ==
  /\ At(p, "prepare")
  /\ Journal(p, [dir |-> TRUE, phases |-> Mine(p).phases \cup {"prepared"}, path |-> call[p].path,
                 bytes |-> call[p].n, before |-> call[p].before])
  /\ Go(p, "gate")
  /\ UNCHANGED <<file, evidence, ledger, registry, lane, call, rare, history>>

-----------------------------------------------------------------------------
(* publish_externals().                                                       *)

\* The output must still be what staging observed.
Gate(p) ==
  /\ At(p, "gate")
  /\ Go(p, IF file[call[p].path] # call[p].before THEN "abort"
           ELSE IF call[p].before = None THEN "link" ELSE "hold")
  /\ UNCHANGED <<disk, lane, call, rare, history>>

Land(path, bytes) == file' = [file EXCEPT ![path] = bytes]

\* A hard link creates the output or loses to whoever created it first.
Link(p) ==
  /\ At(p, "link")
  /\ IF file[call[p].path] = None THEN Land(call[p].path, call[p].n) /\ Go(p, "record")
                                  ELSE UNCHANGED file /\ Go(p, "abort")
  /\ UNCHANGED <<evidence, ledger, registry, tx, lane, call, rare, history>>

\* The guard handle is opened, then the output is hashed once more under it.
Hold(p) ==
  /\ At(p, "hold")
  /\ Go(p, IF file[call[p].path] = call[p].before THEN "replace" ELSE "abort")
  /\ UNCHANGED <<disk, lane, call, rare, history>>

\* The guard's handle is closed.
DropGuard(p) == slipped' = slipped \ {p}

\* The backup copy needs the file; the rename needs nothing.
Replace(p) ==
  /\ At(p, "replace")
  /\ IF file[call[p].path] # None THEN Land(call[p].path, call[p].n) /\ Go(p, "record")
                                  ELSE UNCHANGED file /\ Go(p, "abort")
  /\ DropGuard(p)
  /\ UNCHANGED <<evidence, ledger, registry, tx, lane, call, calls, crashes, writes, faults,
                 late, unrecorded, history>>

\* record_external_success() reads the whole registry, then writes all of it.
Load(p) ==
  /\ At(p, "record") \/ At(p, "save-record")
  /\ Keep(p, [call[p] EXCEPT !.seen = registry])
  /\ Go(p, IF At(p, "record") THEN "record-write" ELSE "save-record-write")
  /\ UNCHANGED <<disk, lane, rare, history>>

RecordSuccess(p) ==
  /\ At(p, "record-write")
  /\ registry' = [call[p].seen EXCEPT ![call[p].path] = call[p].n]
  /\ Keep(p, [call[p] EXCEPT !.seen = NoCall.seen])
  /\ Go(p, "published")
  /\ UNCHANGED <<file, evidence, ledger, tx, lane, rare, history>>

LogPublished(p) ==
  /\ At(p, "published")
  /\ Log(p, "published")
  /\ Go(p, "commit")
  /\ UNCHANGED <<file, evidence, ledger, registry, lane, call, rare, history>>

Commit(p) ==
  /\ At(p, "commit")
  /\ Log(p, "committed")
  /\ Go(p, "ledger")
  /\ UNCHANGED <<file, evidence, ledger, registry, lane, call, rare, history>>

WriteLedger(p) ==
  /\ At(p, "ledger")
  /\ ledger' = [ledger EXCEPT ![call[p].path] = @ \cup {call[p].op}]
  /\ Go(p, "complete")
  /\ UNCHANGED <<file, evidence, registry, tx, lane, call, rare, history>>

Complete(p) ==
  /\ At(p, "complete")
  /\ Log(p, "completed")
  /\ Go(p, "remove")
  /\ UNCHANGED <<file, evidence, ledger, registry, lane, call, rare, history>>

\* The transaction is over and the lane free; a save goes on with its package.
RemoveTx(p) ==
  /\ At(p, "remove")
  /\ Journal(p, NoTx)
  /\ Unlock(p)
  /\ IF call[p].kind = "build"
       THEN /\ Go(p, "idle") /\ Keep(p, NoCall)
            /\ acked' = acked \cup {[op |-> call[p].op, path |-> call[p].path, bytes |-> call[p].n]}
       ELSE Go(p, "verify") /\ UNCHANGED <<call, acked>>
  /\ UNCHANGED <<file, evidence, ledger, registry, rare, touched, undone, done>>

\* abort(): the staged package goes, the journal is closed and removed.  What was
\* published stays published.
Abort(p) ==
  /\ At(p, "abort")
  /\ Journal(p, NoTx)
  /\ IF call[p].kind = "build" THEN /\ Refuse(p)
                               ELSE Go(p, "discard") /\ Unlock(p) /\ UNCHANGED <<call, undone>>
  /\ UNCHANGED <<file, evidence, ledger, registry, rare, touched, acked, done>>

\* The steps of a transaction whose error goes to abort(), before and after the
\* package is on its path.
FallibleEarly == {"run", "staged", "prepare", "link", "hold", "replace"}
FallibleLate == {"record-write", "published", "commit", "ledger", "complete"}

\* An I/O error in any of them.  One in record_external_success() leaves the package
\* at the output and the registry without it.
FailStep(p) ==
  /\ pc[p] \in FaultPoints \cap (FallibleEarly \cup FallibleLate) /\ faults < MaxFaults
  /\ faults' = faults + 1
  /\ late' = late \cup {n \in {call[p].n} : pc[p] \in FallibleLate}
  /\ unrecorded' = unrecorded \cup {n \in {call[p].n} : At(p, "record-write")}
  /\ DropGuard(p)
  /\ Go(p, "abort")
  /\ UNCHANGED <<disk, lane, call, calls, crashes, writes, history>>

-----------------------------------------------------------------------------
(* document_save() after its build: verify the staged package, capture what    *)
(* the output is now, publish under the guard, record.                         *)

Staging(p) == call[p].n
Out(p) == call[p].out

VerifyStaged(p) ==
  /\ At(p, "verify")
  /\ evidence' = [evidence EXCEPT ![Staging(p)]["verify"] = file[Staging(p)]]
  /\ Go(p, "capture")
  /\ UNCHANGED <<file, ledger, registry, tx, lane, call, rare, history>>

Capture(p) ==
  /\ At(p, "capture")
  /\ Keep(p, [call[p] EXCEPT !.before = file[Out(p)]])
  /\ Go(p, "guard")
  /\ UNCHANGED <<disk, lane, rare, history>>

\* Mutant: what is held is not compared with what was captured.
GuardUnseen(p) ==
  /\ At(p, "guard")
  /\ Go(p, IF call[p].before = None THEN "new-document" ELSE "side-build")
  /\ UNCHANGED <<disk, lane, call, rare, history>>

\* publish_build(): hold the output, compare it with what was captured.
Guard(p) ==
  /\ At(p, "guard")
  /\ Go(p, IF file[Out(p)] # call[p].before THEN "discard"
           ELSE IF call[p].before = None THEN "new-document" ELSE "side-build")
  /\ UNCHANGED <<disk, lane, call, rare, history>>

\* Renames of the sidecars, in the order of SIDECARS.
MoveEvidence(p, s) ==
  evidence' = [evidence EXCEPT ![Out(p)][s] = evidence[Staging(p)][s], ![Staging(p)][s] = None]

MoveLedger(p) ==
  ledger' = [ledger EXCEPT ![Out(p)] = ledger[Staging(p)], ![Staging(p)] = {}]

MoveDocument(p) ==
  file' = [file EXCEPT ![Out(p)] = file[Staging(p)], ![Staging(p)] = None]

MoveBuildEvidence(p) ==
  /\ \/ At(p, "side-build") /\ Go(p, "side-verify")
     \/ At(p, "new-build") /\ Go(p, "new-verify")
  /\ MoveEvidence(p, "build")
  /\ Keep(p, [call[p] EXCEPT !.todo = IF evidence[Out(p)]["build"] = None THEN {"build"} ELSE {}])
  /\ UNCHANGED <<file, ledger, registry, tx, lane, rare, history>>

MoveVerifyEvidence(p) ==
  /\ \/ At(p, "side-verify") /\ Go(p, "side-ledger")
     \/ At(p, "new-verify") /\ Go(p, "new-ledger")
  /\ MoveEvidence(p, "verify")
  /\ Keep(p, [call[p] EXCEPT !.todo = @ \cup IF evidence[Out(p)]["verify"] = None THEN {"verify"} ELSE {}])
  /\ UNCHANGED <<file, ledger, registry, tx, lane, rare, history>>

MoveOperations(p) ==
  /\ \/ At(p, "side-ledger") /\ Go(p, "save-replace")
     \/ At(p, "new-ledger") /\ Go(p, "reread")
  /\ MoveLedger(p)
  /\ Keep(p, [call[p] EXCEPT !.todo = {}])
  /\ UNCHANGED <<file, evidence, registry, tx, lane, rare, history>>

\* coordinated_output_replace(): the rename is what makes the save visible.
SaveReplace(p) ==
  /\ At(p, "save-replace")
  /\ MoveDocument(p)
  /\ DropGuard(p)
  /\ Go(p, "reread")
  /\ UNCHANGED <<evidence, ledger, registry, tx, lane, call, calls, crashes, writes, faults,
                 late, unrecorded, history>>

\* A new output is linked first and gets its sidecars afterwards.
SaveLink(p) ==
  /\ At(p, "new-document")
  /\ IF file[Out(p)] = None THEN MoveDocument(p) /\ Go(p, "new-build")
                            ELSE UNCHANGED file /\ Go(p, "discard")
  /\ UNCHANGED <<evidence, ledger, registry, tx, lane, call, rare, history>>

\* A rename that fails: over an old output everything stays where it is, a new
\* output and the sidecars that had nothing in their place are removed again.
FailMove(p) ==
  /\ pc[p] \in FaultPoints /\ faults < MaxFaults
  /\ faults' = faults + 1
  /\ \/ /\ pc[p] \in {"side-build", "side-verify", "side-ledger", "save-replace"}
        /\ UNCHANGED <<file, evidence>>
     \/ /\ pc[p] \in {"new-build", "new-verify", "new-ledger"}
        /\ file' = [file EXCEPT ![Out(p)] = None]
        /\ evidence' = [evidence EXCEPT ![Out(p)] =
                         [s \in Sidecars |-> IF s \in call[p].todo THEN None ELSE @[s]]]
  /\ DropGuard(p)
  /\ Go(p, "discard")
  /\ UNCHANGED <<ledger, registry, tx, lane, call, calls, crashes, writes, late, unrecorded, history>>

\* discard_build(), and the error goes to the caller.
Discard(p) ==
  /\ At(p, "discard")
  /\ file' = [file EXCEPT ![Staging(p)] = None]
  /\ evidence' = [evidence EXCEPT ![Staging(p)] = [s \in Sidecars |-> None]]
  /\ ledger' = [ledger EXCEPT ![Staging(p)] = {}]
  /\ Refuse(p)
  /\ UNCHANGED <<registry, tx, rare, touched, acked, done>>

\* The output is hashed once more; this is the hash the caller is told.
Reread(p) ==
  /\ At(p, "reread")
  /\ Keep(p, [call[p] EXCEPT !.before = file[Out(p)]])
  /\ Go(p, IF file[Out(p)] = None THEN "discard" ELSE "compare")
  /\ UNCHANGED <<disk, lane, rare, history>>

Agrees(path, bytes) == \A s \in Sidecars : evidence[path][s] \in {None, bytes}

\* Mutant: the published set is taken on trust.
CompareNothing(p) ==
  /\ At(p, "compare")
  /\ Go(p, "save-record")
  /\ UNCHANGED <<disk, lane, call, rare, history>>

\* sidecars_disagreeing_with(): a mixed set is an error.
Compare(p) ==
  /\ At(p, "compare")
  /\ IF Agrees(Out(p), call[p].before) THEN Go(p, "save-record") /\ UNCHANGED <<lane, call, undone>>
                                       ELSE Refuse(p)
  /\ UNCHANGED <<disk, rare, touched, acked, done>>

\* The registry is written without the lane and its errors are dropped.
SaveRecord(p) ==
  /\ At(p, "save-record-write")
  /\ registry' = [call[p].seen EXCEPT ![Out(p)] = call[p].before]
  /\ Go(p, "idle") /\ Keep(p, NoCall)
  /\ done' = done \cup {call[p].n}
  /\ UNCHANGED <<file, evidence, ledger, tx, lane, rare, touched, undone, acked>>

-----------------------------------------------------------------------------
(* recover_all() at the start of the next transaction.                         *)

Takes(p, o) == At(p, "recover") /\ call[p].mend = None /\ o \in call[p].todo
Skip(p, o) == Keep(p, [call[p] EXCEPT !.todo = @ \ {o}])

\* The committed record names prepared as its predecessor, not published.
ChainOk(o) == ~({"published", "committed"} \subseteq tx[o].phases)

\* Mutant: a registry that already holds the journal's bytes proves nothing.
ProvableBefore(t) == registry[t.path] = t.before

\* expected_registry_state()
Provable(t) ==
  \/ registry[t.path] = t.bytes
  \/ registry[t.path] # None /\ registry[t.path] = t.before
  \/ registry[t.path] = None /\ t.before = None

Landed(t) == file[t.path] = t.bytes

\* external_decision() for a journal that ends in its prepared record.
IsForward(t) ==
  \/ t.phases \cap {"published", "committed"} # {}
  \/ "prepared" \in t.phases /\ Provable(t) /\ Landed(t)

\* Mutant: the output is not looked at.
IsBackBlind(t) == t.phases \subseteq {"intent", "prepared"}

IsBack(t) ==
  \/ "prepared" \notin t.phases
  \/ /\ t.phases = {"intent", "prepared"} /\ Provable(t)
     /\ ~Landed(t) /\ file[t.path] = t.before

IsSettled(o) == ChainOk(o) /\ "completed" \in tx[o].phases
IsStuck(o) == ~ChainOk(o) \/ (~IsSettled(o) /\ ~IsForward(tx[o]) /\ ~IsBack(tx[o]))

RecoverStick(p, o) ==
  /\ Takes(p, o) /\ IsStuck(o)
  /\ Keep(p, [call[p] EXCEPT !.todo = @ \ {o}, !.stuck = TRUE])
  /\ UNCHANGED <<disk, lane, pc, rare, history>>

RecoverBack(p, o) ==
  /\ Takes(p, o) /\ ChainOk(o) /\ ~IsSettled(o) /\ IsBack(tx[o])
  /\ tx' = [tx EXCEPT ![o] = NoTx]
  /\ Skip(p, o)
  /\ undone' = undone \cup ({tx[o].bytes} \cap Calls)
  /\ UNCHANGED <<file, evidence, ledger, registry, lane, pc, rare, touched, acked, done>>

\* roll_forward() and settle_completed() first repair what the caller was owed.
RecoverForward(p, o) ==
  /\ Takes(p, o) /\ ChainOk(o)
  /\ IsSettled(o) \/ IsForward(tx[o])
  /\ Keep(p, [call[p] EXCEPT !.mend = o])
  /\ Go(p, "fix-ledger")
  /\ UNCHANGED <<disk, lane, rare, history>>

Mended(p) == tx[call[p].mend]

FixLedger(p) ==
  /\ At(p, "fix-ledger")
  /\ ledger' = [ledger EXCEPT ![Mended(p).path] = @ \cup {call[p].mend}]
  /\ Go(p, "fix-evidence")
  /\ UNCHANGED <<file, evidence, registry, tx, lane, call, rare, history>>

FixEvidence(p) ==
  /\ At(p, "fix-evidence")
  /\ evidence' = [evidence EXCEPT ![Mended(p).path]["build"] = Mended(p).bytes]
  /\ Go(p, IF IsSettled(call[p].mend) THEN "fix-remove" ELSE "fix-complete")
  /\ UNCHANGED <<file, ledger, registry, tx, lane, call, rare, history>>

FixComplete(p) ==
  /\ At(p, "fix-complete")
  /\ tx' = [tx EXCEPT ![call[p].mend] = [Mended(p) EXCEPT !.phases = @ \cup {"completed"}]]
  /\ Go(p, "fix-record")
  /\ UNCHANGED <<file, evidence, ledger, registry, lane, call, rare, history>>

\* Mutant: recovery closes the journal and leaves the registry alone.
FixRecordNothing(p) ==
  /\ At(p, "fix-record")
  /\ Go(p, "fix-remove")
  /\ UNCHANGED <<disk, lane, call, rare, history>>

\* Only an output that still holds the journal's bytes is recorded.
FixRecord(p) ==
  /\ At(p, "fix-record")
  /\ registry' = IF Landed(Mended(p)) THEN [registry EXCEPT ![Mended(p).path] = Mended(p).bytes]
                                      ELSE registry
  /\ Go(p, "fix-remove")
  /\ UNCHANGED <<file, evidence, ledger, tx, lane, call, rare, history>>

FixRemove(p) ==
  /\ At(p, "fix-remove")
  /\ tx' = [tx EXCEPT ![call[p].mend] = NoTx]
  /\ Keep(p, [call[p] EXCEPT !.todo = @ \ {call[p].mend}, !.mend = None])
  /\ Go(p, "recover")
  /\ UNCHANGED <<file, evidence, ledger, registry, lane, rare, history>>

\* The package whose registry row a recovery that ends here leaves out: its journal is
\* completed, and settle_completed() does not look at the registry.
Owed(p) ==
  IF At(p, "fix-record") THEN {Mended(p).bytes} \ {registry[Mended(p).path]} ELSE {}

\* An error in one of the repairs: the journal stays, and needs recovery.
FailMend(p) ==
  /\ pc[p] \in FaultPoints \cap {"fix-ledger", "fix-evidence", "fix-complete", "fix-record"}
  /\ faults < MaxFaults
  /\ At(p, "fix-record") => Landed(Mended(p))
  /\ faults' = faults + 1
  /\ unrecorded' = unrecorded \cup Owed(p)
  /\ Keep(p, [call[p] EXCEPT !.todo = @ \ {call[p].mend}, !.mend = None, !.stuck = TRUE])
  /\ Go(p, "recover")
  /\ UNCHANGED <<disk, lane, calls, crashes, writes, slipped, late, history>>

\* A journal recovery could not decide refuses the mutation: needs-recovery.
Recovered(p) ==
  /\ At(p, "recover") /\ call[p].todo = {} /\ call[p].mend = None
  /\ IF ~call[p].stuck THEN Go(p, "check") /\ UNCHANGED <<lane, call, undone>>
     ELSE IF call[p].kind = "build" THEN Refuse(p)
     ELSE Go(p, "discard") /\ Unlock(p) /\ UNCHANGED <<call, undone>>
  /\ UNCHANGED <<disk, rare, touched, acked, done>>

-----------------------------------------------------------------------------
(* Everybody else.                                                             *)

\* p holds a guard taken at this path.
Guarding(p, path) ==
  \/ At(p, "replace") /\ call[p].path = path
  \/ pc[p] \in {"side-build", "side-verify", "side-ledger", "save-replace"} /\ Out(p) = path

\* The file at this path is held.
Guarded(path) == \E p \in Processes \ slipped : Guarding(p, path)

Foreignly(path, bytes) ==
  /\ writes < MaxWrites /\ writes' = writes + 1
  /\ file[path] # bytes
  /\ Land(path, bytes)
  /\ touched' = touched \cup {path}
  /\ UNCHANGED <<evidence, ledger, registry, tx, lane, pc, call, calls, crashes, faults,
                 late, unrecorded, undone, acked, done>>

\* The other program opens an output and writes it.
ForeignWrite(path, bytes) ==
  /\ GuardDenies => ~Guarded(path)
  /\ Foreignly(path, bytes)
  /\ UNCHANGED slipped

\* Or it removes the output, or renames a file of its own onto it: no guard denies that,
\* and every guard taken there is from then on one of a file that is gone.
ForeignRename(path, bytes) ==
  /\ Foreignly(path, bytes)
  /\ slipped' = slipped \cup {p \in Processes : Guarding(p, path)}

Crash(p) ==
  /\ pc[p] \in CrashPoints /\ crashes < MaxCrashes
  /\ crashes' = crashes + 1
  /\ unrecorded' = unrecorded \cup Owed(p)
  /\ DropGuard(p)
  /\ Go(p, "idle") /\ Keep(p, NoCall) /\ Unlock(p)
  /\ UNCHANGED <<disk, calls, writes, faults, late, history>>

Transaction(p) ==
  \/ Acquire(p) \/ Busy(p) \/ Replay(p) \/ RefuseEntry(p) \/ Begin(p)
  \/ Run(p) \/ CheckStaged(p) \/ RefuseStaged(p) \/ Prepare(p)
  \/ Gate(p) \/ Link(p) \/ Hold(p) \/ Replace(p) \/ Load(p) \/ RecordSuccess(p)
  \/ LogPublished(p) \/ Commit(p) \/ WriteLedger(p) \/ Complete(p) \/ RemoveTx(p) \/ Abort(p)

Publication(p) ==
  \/ VerifyStaged(p) \/ Capture(p) \/ Guard(p) \/ MoveBuildEvidence(p) \/ MoveVerifyEvidence(p)
  \/ MoveOperations(p) \/ SaveReplace(p) \/ SaveLink(p) \/ Discard(p) \/ Reread(p)
  \/ Compare(p) \/ SaveRecord(p)

Recovery(p) ==
  \/ \E o \in Operations : RecoverStick(p, o) \/ RecoverBack(p, o) \/ RecoverForward(p, o)
  \/ FixLedger(p) \/ FixEvidence(p) \/ FixComplete(p) \/ FixRecord(p) \/ FixRemove(p) \/ Recovered(p)

Work(p) == Transaction(p) \/ Publication(p) \/ Recovery(p)

Next ==
  \/ \E p \in Processes : Work(p) \/ FailStep(p) \/ FailMove(p) \/ FailMend(p) \/ Crash(p)
  \/ \E p \in Processes, kind \in Kinds, o \in Ops, out \in Outputs : Call(p, kind, o, out)
  \/ \E path \in Outputs, bytes \in Foreign : ForeignWrite(path, bytes)
  \/ \E path \in Outputs, bytes \in Foreign \cup {None} : ForeignRename(path, bytes)

Spec == Init /\ [][Next]_vars

-----------------------------------------------------------------------------
(* Properties.                                                                 *)

\* The shape of the state.
TypeOK ==
  /\ file \in [Paths -> Bytes]
  /\ evidence \in [Paths -> [Sidecars -> Bytes]]
  /\ ledger \in [Paths -> SUBSET Operations]
  /\ registry \in [Paths -> Bytes]
  /\ \A o \in Operations : tx[o].phases # {} => tx[o].dir
  /\ lane \in Processes \cup {None}
  /\ lane # None => pc[lane] # "idle"
  /\ slipped \subseteq Processes /\ late \subseteq Calls /\ unrecorded \subseteq Bytes

\* The renames that put a document over what is at an output.
Replacing(p, path) ==
  \/ At(p, "replace") /\ call[p].path = path
  \/ At(p, "save-replace") /\ Out(p) = path

\* What the other program wrote is replaced by a document of the engine only where
\* these very bytes were captured as the state to replace, or where it removed the
\* file under a guard or renamed another onto it, which no guard stops (store.rs
\* 3357-3359).  A save captures after its build; a build captures before its last
\* check of the registry, so for it the other program must have written the output
\* since, or a save's last reading have put these bytes in the registry.  No other
\* interleaving, and no recovery, does it where a guard denies writing (store.rs
\* 3450-3575 and 3728-3735, save.rs 79-130; "never silently overwritten", save.rs 163).
ForeignBytesStay ==
  [][\A t \in Outputs : (file[t] \in Foreign /\ file'[t] \in Calls) =>
       \E p \in Processes :
         /\ Replacing(p, t)
         /\ call[p].before = file[t] \/ p \in slipped
         /\ At(p, "replace") => t \in touched \/ registry[t] \in Foreign]_vars

\* At rest, with no journal left, a document of the engine at an output is the one
\* the registry expects there, so that the next call recognises it, unless its record
\* was lost: by an error in writing it, after which abort() closes the journal, or by
\* a death or an error of recovery between its completed record and the registry, which
\* the next recovery does not make up for (store.rs 317-336, 2698-2777, 3604-3672).
PublicationRecorded ==
  (Pending = {} /\ \A p \in Processes : At(p, "idle")) =>
    \A t \in Outputs : file[t] \in Calls \ unrecorded => registry[t] = file[t]

\* A build that was refused, failed before its package was on its path, or was rolled
\* back by recovery is at no output ("nothing was published", store.rs 3476); one that
\* failed later stays there, because abort() takes back no output (store.rs 3604-3672).
RefusedIsNotPublished == \A t \in Outputs : file[t] \notin undone \ late

\* A journal that ends in its prepared record can be decided, unless the other
\* program wrote the output since staging, or the output was the source with its
\* baseline bytes, which no registry entry vouches for (store.rs 2301-2475).
PreparedDecidable ==
  \A o \in Operations :
    LET t == tx[o] IN
    (t.phases = {"intent", "prepared"} /\ t.path \notin touched
     /\ ~(t.path = Source /\ t.before = Baseline)) => ~IsStuck(o)

\* Beside a saved document that was answered with success lies its own evidence,
\* unless a later call replaced that evidence and did not itself succeed (save.rs
\* 625-662: a mixed set is reported, never called a success).
EvidenceOfTheDocument ==
  \A t \in Outputs, s \in Sidecars :
    file[t] \in done => \/ evidence[t][s] = file[t]
                        \/ evidence[t][s] \notin done \cup {a.bytes : a \in acked}

\* As save.rs 589-592 says it: a file that appeared or changed after the entry check
\* is refused and left untouched.
WordBytesStay ==
  [][\A t \in Outputs : file[t] \in Foreign => file'[t] \notin Calls]_vars

\* As store.rs 3081-3083 says it, of every path: a build that was answered with
\* success is answered again, never published again. Builds alone keep it; a save
\* over the same path replaces the ledger it rests on.
NoSecondEffect ==
  \A p \in Processes :
    (pc[p] \in {"record", "record-write", "published"} /\ call[p].kind = "build") =>
      \A a \in acked : a.op = call[p].op => a.path # call[p].path
=============================================================================
