------------------------ MODULE GenerationStoreProofs ------------------------
(***************************************************************************)
(* What is proved of GenerationStore, for every value of its constants:     *)
(* its types, that the pointer resolves, and what the store promises.       *)
(***************************************************************************)
EXTENDS GenerationStore, TLAPS

-----------------------------------------------------------------------------
(* Type correctness, for every set of fault points.  TypeOK is not           *)
(* inductive: that a writer at "stage" has a generation to create follows    *)
(* from CallShape, and that only one writer acts on the disk at a time from  *)
(* LaneHeld.                                                                 *)

\* Whoever is past the lane holds it.
LaneHeld == \A w \in Writers : pc[w] \in {"idle", "lane"} \/ lane = w

\* A call in progress names its operation, the generation it pinned, and a newer
\* one of its own.
CallShape == \A w \in Writers : pc[w] # "idle" =>
  /\ call[w].op \in Ops /\ call[w].input \in Inputs
  /\ call[w].gen \in Generations /\ call[w].gen <= calls
  /\ call[w].expected \in Generations /\ call[w].expected < call[w].gen

\* What recovery takes from a journal is there: a prepared record and a successful
\* completed one name a generation and an input.
Sound(t) ==
  /\ "prepared" \in t.phases => t.gen \in Generations /\ t.input \in Inputs
  /\ t.outcome = "success" => t.gen \in Generations /\ t.input \in Inputs

PastPrepare == {"swap"} \cup AfterSwap

PreparedShape == \A w \in Writers :
  pc[w] \in PastPrepare => "prepared" \in tx[call[w].op].phases

Forward  == {"forward-materialize", "forward-ledger", "forward-close"}
Settling == Forward \cup {"back-discard", "back-close", "settle-ledger", "sweep"}

RecoveryShape == \A w \in Writers :
  /\ pc[w] \in Settling => recovery.op \in Ops
  /\ pc[w] \in Forward => "prepared" \in tx[recovery.op].phases

\* The parts of TypeOK, by who keeps the state.
Calls == [op : Ops \cup {None}, input : Inputs \cup {None},
          expected : Generations \cup {None}, gen : Generations \cup {None}]

Recoveries == [todo : SUBSET Ops, op : Ops \cup {None}, stuck : BOOLEAN]

DiskOK ==
  /\ pointer \in [gen : Generations, head : Generations \cup {None}, tree : SUBSET (Ops \cup {None})]
  /\ pointer.gen <= calls
  /\ dirs \subseteq Generations
  /\ content \in [Generations -> [Files -> SUBSET Generations]]
  /\ ledger \in [Generations -> SUBSET (Ops \X Inputs)]
  /\ root \in [Files -> SUBSET Generations]
  /\ depleted \in BOOLEAN
  /\ owner \in [Generations -> Ops \cup {None}]
  /\ acked \subseteq Ops /\ early \subseteq Ops /\ failed \subseteq Generations

TxOK == tx \in [Ops -> TxRecords] /\ \A o \in Ops : Sound(tx[o])

WritersOK ==
  /\ lane \in Writers \cup {None}
  /\ pc \in [Writers -> PcValues]
  /\ call \in [Writers -> Calls]
  /\ recovery \in Recoveries
  /\ LaneHeld /\ CallShape

OthersOK ==
  /\ reader \in [Readers -> [at : {"idle", "read", "pinned"}, gen : Generations \cup {None}]]
  /\ calls \in 0..MaxCalls /\ crashes \in 0..MaxCrashes /\ faults \in 0..MaxFaults

TypeInv == DiskOK /\ TxOK /\ WritersOK /\ OthersOK /\ PreparedShape /\ RecoveryShape

LEMMA TypeInvType == TypeInv => TypeOK
  BY DEF TypeInv, TypeOK, DiskOK, TxOK, WritersOK, OthersOK, Calls, Recoveries

-----------------------------------------------------------------------------
LEMMA TInit == Init => TypeInv
  <1> SUFFICES ASSUME Init PROVE TypeInv OBVIOUS
  <1> USE StoreAssumption DEF Init, Generations, NoTx, NoCall, NoRecovery, NoPin, Birth, Files
  <1>1. DiskOK
    <2>1. pointer \in [gen : Generations, head : Generations \cup {None}, tree : SUBSET (Ops \cup {None})]
      OBVIOUS
    <2>2. content \in [Generations -> [Files -> SUBSET Generations]]
      OBVIOUS
    <2>3. ledger \in [Generations -> SUBSET (Ops \X Inputs)] /\ root \in [Files -> SUBSET Generations]
      OBVIOUS
    <2>4. pointer.gen <= calls OBVIOUS
    <2>6. dirs \subseteq Generations OBVIOUS
    <2>7. depleted \in BOOLEAN OBVIOUS
    <2>5. owner \in [Generations -> Ops \cup {None}] /\ acked \subseteq Ops /\ early \subseteq Ops /\ failed \subseteq Generations
      OBVIOUS
    <2> QED BY <2>1, <2>2, <2>3, <2>4, <2>5, <2>6, <2>7 DEF DiskOK
  <1>2. TxOK BY DEF TxOK, TxRecords, Sound
  <1>3. WritersOK BY DEF WritersOK, PcValues, Calls, Recoveries, LaneHeld, CallShape
  <1>4. OthersOK BY DEF OthersOK
  <1>5. PreparedShape BY DEF PreparedShape, PastPrepare, AfterSwap
  <1>6. RecoveryShape BY DEF RecoveryShape, Settling, Forward
  <1> QED BY <1>1, <1>2, <1>3, <1>4, <1>5, <1>6 DEF TypeInv

-----------------------------------------------------------------------------
(* Journals. *)

LEMMA JournalStep ==
  ASSUME tx \in [Ops -> TxRecords], NEW o \in Ops, NEW t, tx' = [tx EXCEPT ![o] = t]
  PROVE  tx'[o] = t /\ \A p \in Ops : p # o => tx'[p] = tx[p]
  OBVIOUS

\* Writing one sound record keeps every journal sound.
LEMMA JournalSound ==
  ASSUME TxOK, NEW o \in Ops, NEW t \in TxRecords, Sound(t), tx' = [tx EXCEPT ![o] = t]
  PROVE  TxOK'
  <1>1. tx' \in [Ops -> TxRecords] BY DEF TxOK
  <1>2. Sound(tx'[o]) BY JournalStep DEF TxOK
  <1>3. \A p \in Ops : p # o => Sound(tx'[p]) BY JournalStep DEF TxOK
  <1>4. \A p \in Ops : Sound(tx'[p]) BY <1>2, <1>3
  <1> QED BY <1>1, <1>4 DEF TxOK, Sound

LEMMA LastPhaseType == \A t \in TxRecords : LastPhase(t) \in Phases \cup {None}
  <1> SUFFICES ASSUME NEW t \in TxRecords, t.phases # {}
               PROVE  \E p \in t.phases : \A q \in t.phases : Rank[q] <= Rank[p]
    BY DEF LastPhase, TxRecords
  <1>1. t.phases \subseteq Phases BY DEF TxRecords
  <1>2. /\ Rank["intent"] = 1 /\ Rank["prepared"] = 2
        /\ Rank["committed"] = 3 /\ Rank["completed"] = 4 BY DEF Rank, Phases
  <1>3. CASE "completed" \in t.phases BY <1>1, <1>2, <1>3 DEF Phases
  <1>4. CASE "completed" \notin t.phases /\ "committed" \in t.phases BY <1>1, <1>2, <1>4 DEF Phases
  <1>5. CASE t.phases \subseteq {"intent", "prepared"} /\ "prepared" \in t.phases BY <1>2, <1>5
  <1>6. CASE t.phases \subseteq {"intent"} BY <1>2, <1>6
  <1> QED BY <1>1, <1>3, <1>4, <1>5, <1>6 DEF Phases

LEMMA NoTxSound == NoTx \in TxRecords /\ Sound(NoTx)
  BY StoreAssumption DEF NoTx, TxRecords, Sound

LEMMA PreparedSound ==
  ASSUME NEW t \in TxRecords, Sound(t), NEW g \in Generations, NEW p \in Generations,
         NEW i \in Inputs
  PROVE  Prepared(t, g, p, i) \in TxRecords /\ Sound(Prepared(t, g, p, i))
  BY DEF Prepared, TxRecords, Sound, Phases

LEMMA ClosedSound ==
  ASSUME NEW t \in TxRecords, Sound(t), NEW result \in {"success", "rolled-back"},
         result = "success" => "prepared" \in t.phases
  PROVE  Closed(t, result) \in TxRecords /\ Sound(Closed(t, result))
  <1>1. LastPhase(t) \in Phases \cup {None} BY LastPhaseType
  <1> QED BY <1>1 DEF Closed, TxRecords, Sound, Phases

LEMMA AbortedSound ==
  ASSUME NEW t \in TxRecords, Sound(t), NEW g \in Generations, NEW p \in Generations
  PROVE  Aborted(t, g, p) \in TxRecords /\ Sound(Aborted(t, g, p))
  <1>1. LastPhase(t) \in Phases \cup {None} BY LastPhaseType
  <1> QED BY <1>1 DEF Aborted, TxRecords, Sound, Phases

LEMMA PartlyRemovedSound ==
  ASSUME NEW t \in TxRecords, Sound(t), NEW u \in PartlyRemoved(t)
  PROVE  u \in TxRecords /\ Sound(u)
  <1>1. CASE u = NoTx BY <1>1, NoTxSound
  <1>2. CASE \E left \in SUBSET t.phases : u = [t EXCEPT !.phases = left]
    BY <1>2 DEF TxRecords, Sound
  <1> QED BY <1>1, <1>2 DEF PartlyRemoved

-----------------------------------------------------------------------------
(* The lane holder's steps move nobody else. *)

LEMMA Advance ==
  ASSUME TypeInv, NEW w \in Writers, pc[w] \notin {"idle", "lane"},
         NEW there \in PcValues \ {"idle", "lane"}, Go(w, there),
         UNCHANGED <<lane, call, calls, crashes, reader>>,
         DiskOK', TxOK', recovery' \in Recoveries, faults' \in 0..MaxFaults,
         there \in PastPrepare => "prepared" \in tx'[call[w].op].phases,
         there \in Settling => recovery'.op \in Ops,
         there \in Forward => "prepared" \in tx'[recovery'.op].phases
  PROVE  TypeInv'
  <1>1. pc \in [Writers -> PcValues] BY DEF TypeInv, WritersOK
  <1>2. pc' \in [Writers -> PcValues] /\ pc'[w] = there BY <1>1 DEF Go
  <1>3. \A v \in Writers : v # w => pc'[v] = pc[v] /\ pc[v] \in {"idle", "lane"}
    BY <1>1 DEF Go, TypeInv, WritersOK, LaneHeld
  <1>4. LaneHeld' BY <1>2, <1>3 DEF TypeInv, WritersOK, LaneHeld
  <1>5. CallShape'
    <2> SUFFICES ASSUME NEW v \in Writers, pc'[v] # "idle"
                 PROVE  /\ call[v].op \in Ops /\ call[v].input \in Inputs
                        /\ call[v].gen \in Generations /\ call[v].gen <= calls
                        /\ call[v].expected \in Generations /\ call[v].expected < call[v].gen
      BY DEF CallShape
    <2>1. pc[v] # "idle" BY <1>2, <1>3
    <2> QED BY <2>1 DEF TypeInv, WritersOK, CallShape
  <1>6. WritersOK' BY <1>2, <1>4, <1>5 DEF TypeInv, WritersOK
  <1>7. OthersOK' BY DEF TypeInv, OthersOK
  <1>8. PreparedShape' BY <1>2, <1>3 DEF PreparedShape, PastPrepare, AfterSwap
  <1>9. RecoveryShape' BY <1>2, <1>3 DEF RecoveryShape, Settling, Forward
  <1> QED BY <1>6, <1>7, <1>8, <1>9 DEF TypeInv

LEMMA Release ==
  ASSUME TypeInv, NEW w \in Writers, pc[w] \notin {"idle", "lane"}, Leave(w),
         UNCHANGED <<calls, crashes, reader>>, DiskOK', TxOK', faults' \in 0..MaxFaults
  PROVE  TypeInv'
  <1>1. pc \in [Writers -> PcValues] /\ call \in [Writers -> Calls] BY DEF TypeInv, WritersOK
  <1>2. pc' \in [Writers -> PcValues] BY <1>1 DEF Leave, Go, PcValues
  <1>3. call' \in [Writers -> Calls] BY <1>1 DEF Leave, Calls, NoCall
  <1>4. recovery' \in Recoveries BY DEF Leave, NoRecovery, Recoveries
  <1>5. \A v \in Writers : /\ pc'[v] \in {"idle", "lane"}
                           /\ pc'[v] # "idle" => pc[v] = pc'[v] /\ call'[v] = call[v]
    BY <1>1 DEF Leave, Go, TypeInv, WritersOK, LaneHeld
  <1>6. LaneHeld' BY <1>5 DEF LaneHeld
  <1>7. CallShape'
    <2> SUFFICES ASSUME NEW v \in Writers, pc'[v] # "idle"
                 PROVE  /\ call'[v].op \in Ops /\ call'[v].input \in Inputs
                        /\ call'[v].gen \in Generations /\ call'[v].gen <= calls'
                        /\ call'[v].expected \in Generations /\ call'[v].expected < call'[v].gen
      BY DEF CallShape
    <2>1. pc[v] # "idle" /\ call'[v] = call[v] BY <1>5
    <2> QED BY <2>1 DEF TypeInv, WritersOK, CallShape
  <1>8. WritersOK' BY <1>2, <1>3, <1>4, <1>6, <1>7 DEF WritersOK, Leave
  <1>9. OthersOK' BY DEF TypeInv, OthersOK
  <1>10. PreparedShape' BY <1>5 DEF PreparedShape, PastPrepare, AfterSwap
  <1>11. RecoveryShape' BY <1>5 DEF RecoveryShape, Settling, Forward
  <1> QED BY <1>8, <1>9, <1>10, <1>11 DEF TypeInv

-----------------------------------------------------------------------------
(* Steps. *)

\* The steps that return without touching anything but the lane.
LEMMA TRefuse ==
  ASSUME TypeInv, NEW w \in Writers,
         \/ RefuseDepleted(w) \/ Conflict(w) \/ RefuseReuse(w) \/ RefuseJournal(w) \/ Unwind(w)
  PROVE  TypeInv'
  <1>1. pc[w] \notin {"idle", "lane"} /\ Leave(w) /\ UNCHANGED <<disk, reader, bounds, history>>
    BY DEF RefuseDepleted, Conflict, RefuseReuse, RefuseJournal, Unwind, At
  <1>2. DiskOK' BY <1>1 DEF TypeInv, DiskOK, disk, history, bounds
  <1>3. TxOK' BY <1>1 DEF TypeInv, TxOK, disk, Sound
  <1> QED BY <1>1, <1>2, <1>3, Release DEF bounds, TypeInv, OthersOK

LEMMA TReplay == ASSUME TypeInv, NEW w \in Writers, Replay(w) PROVE TypeInv'
  <1>1. /\ pc[w] \notin {"idle", "lane"} /\ Leave(w) /\ acked' = acked \cup {call[w].op}
        /\ UNCHANGED <<disk, reader, bounds, owner, early, failed>>
    BY DEF Replay, At
  <1>2. call[w].op \in Ops BY <1>1 DEF TypeInv, WritersOK, CallShape
  <1>3. DiskOK' BY <1>1, <1>2 DEF TypeInv, DiskOK, disk, bounds
  <1>4. TxOK' BY <1>1 DEF TypeInv, TxOK, disk, Sound
  <1> QED BY <1>1, <1>3, <1>4, Release DEF bounds, TypeInv, OthersOK

LEMMA TFailIntent == ASSUME TypeInv, NEW w \in Writers, FailIntent(w) PROVE TypeInv'
  <1>1. /\ pc[w] \notin {"idle", "lane"} /\ Leave(w) /\ failed' = failed \cup {call[w].gen}
        /\ faults < MaxFaults /\ faults' = faults + 1
        /\ UNCHANGED <<disk, reader, calls, crashes, owner, acked, early>>
    BY DEF FailIntent, MayFault, At
  <1>2. call[w].gen \in Generations BY <1>1 DEF TypeInv, WritersOK, CallShape
  <1>3. DiskOK' BY <1>1, <1>2 DEF TypeInv, DiskOK, disk
  <1>4. TxOK' BY <1>1 DEF TypeInv, TxOK, disk, Sound
  <1>5. faults' \in 0..MaxFaults BY <1>1, StoreAssumption DEF TypeInv, OthersOK
  <1> QED BY <1>1, <1>3, <1>4, <1>5, Release

\* Removing a transaction directory, entirely or partly.
LEMMA RemoveSound ==
  ASSUME TypeInv, NEW w \in Writers, NEW o \in Ops, Remove(w, o)
  PROVE  TxOK' /\ faults' \in 0..MaxFaults
  <1>1. tx[o] \in TxRecords /\ Sound(tx[o]) BY DEF TypeInv, TxOK
  <1>2. CASE tx' = [tx EXCEPT ![o] = NoTx] /\ UNCHANGED faults
    BY <1>2, NoTxSound, JournalSound DEF TypeInv, OthersOK
  <1>3. CASE /\ \E point \in Removing : MayFault(w, point)
             /\ faults' = faults + 1
             /\ \E t \in PartlyRemoved(tx[o]) \ {NoTx} : tx' = [tx EXCEPT ![o] = t]
    <2>1. PICK t \in PartlyRemoved(tx[o]) : tx' = [tx EXCEPT ![o] = t] BY <1>3
    <2>2. t \in TxRecords /\ Sound(t) BY <1>1, <2>1, PartlyRemovedSound
    <2>3. TxOK' BY <2>1, <2>2, JournalSound DEF TypeInv
    <2>4. faults' \in 0..MaxFaults BY <1>3, StoreAssumption DEF MayFault, TypeInv, OthersOK
    <2> QED BY <2>3, <2>4
  <1> QED BY <1>2, <1>3 DEF Remove

LEMMA TRemoveTx == ASSUME TypeInv, NEW w \in Writers, RemoveTx(w) PROVE TypeInv'
  <1>1. /\ pc[w] \notin {"idle", "lane"} /\ Leave(w) /\ Remove(w, call[w].op)
        /\ acked' = acked \cup {call[w].op}
        /\ UNCHANGED <<pointer, files, root, depleted, reader, calls, crashes, owner, early, failed>>
    BY DEF RemoveTx, At
  <1>2. call[w].op \in Ops BY <1>1 DEF TypeInv, WritersOK, CallShape
  <1>3. DiskOK' BY <1>1, <1>2 DEF TypeInv, DiskOK, files
  <1>4. TxOK' /\ faults' \in 0..MaxFaults BY <1>1, <1>2, RemoveSound
  <1> QED BY <1>1, <1>3, <1>4, Release

LEMMA TDismiss == ASSUME TypeInv, NEW w \in Writers, Dismiss(w) PROVE TypeInv'
  <1>1. /\ pc[w] \notin {"idle", "lane"} /\ Leave(w) /\ Remove(w, call[w].op)
        /\ failed' = failed \cup {call[w].gen}
        /\ UNCHANGED <<pointer, files, root, depleted, reader, calls, crashes, owner, acked, early>>
    BY DEF Dismiss, At
  <1>2. call[w].op \in Ops /\ call[w].gen \in Generations BY <1>1 DEF TypeInv, WritersOK, CallShape
  <1>3. DiskOK' BY <1>1, <1>2 DEF TypeInv, DiskOK, files
  <1>4. TxOK' /\ faults' \in 0..MaxFaults BY <1>1, <1>2, RemoveSound
  <1> QED BY <1>1, <1>3, <1>4, Release

\* The steps that only go on to another point of mutate() or of the recovery pass.
LEMMA TGoOn ==
  ASSUME TypeInv, NEW w \in Writers,
         Enter(w) \/ StageMissing(w) \/ RecoverPanic(w) \/ RecoverForward(w) \/ RecoverBack(w)
           \/ RecoverSettle(w) \/ RecoverStick(w)
  PROVE  TypeInv'
  <1>1. DiskOK' BY DEF TypeInv, DiskOK, disk, history, bounds, Enter, StageMissing, RecoverPanic,
          RecoverForward, RecoverBack, RecoverSettle, RecoverStick, Take, Stick
  <1>2. TxOK' BY DEF TypeInv, TxOK, Sound, disk, Enter, StageMissing, RecoverPanic,
          RecoverForward, RecoverBack, RecoverSettle, RecoverStick, Take, Stick
  <1>3. /\ pc[w] \notin {"idle", "lane"} /\ UNCHANGED <<lane, call, calls, crashes, reader>>
        /\ UNCHANGED tx /\ faults' \in 0..MaxFaults
    BY DEF Enter, StageMissing, RecoverPanic, RecoverForward, RecoverBack, RecoverSettle,
           RecoverStick, Take, Stick, At, bounds, disk, TypeInv, OthersOK
  <1>4. recovery \in Recoveries /\ Pending \subseteq Ops BY DEF TypeInv, WritersOK, Pending
  <1>5. CASE Enter(w)
    <2>1. recovery' \in Recoveries BY <1>4, <1>5 DEF Enter, NoRecovery, Recoveries
    <2>2. \E there \in {"check", "recover"} : Go(w, there) BY <1>5 DEF Enter
    <2> QED BY <1>1, <1>2, <1>3, <2>1, <2>2, Advance
          DEF PcValues, PastPrepare, AfterSwap, Settling, Forward
  <1>6. CASE StageMissing(w)
    BY <1>1, <1>2, <1>3, <1>4, <1>6, Advance
       DEF StageMissing, PcValues, PastPrepare, AfterSwap, Settling, Forward
  <1>7. ASSUME NEW o \in Ops, NEW there \in {"panic", "back-discard", "settle-ledger", "forward-materialize"},
               Take(w, o, there), there = "forward-materialize" => IsForward(tx[o])
        PROVE  TypeInv'
    <2>1. recovery' \in Recoveries /\ recovery'.op = o BY <1>4, <1>7 DEF Take, Recoveries
    <2>2. Go(w, there) /\ there \in PcValues \ {"idle", "lane"} BY <1>7 DEF Take, PcValues
    <2>3. there \in Forward => "prepared" \in tx'[recovery'.op].phases
      BY <1>3, <1>7, <2>1 DEF Forward, IsForward
    <2>4. there \notin PastPrepare BY DEF PastPrepare, AfterSwap
    <2> QED BY <1>1, <1>2, <1>3, <2>1, <2>2, <2>3, <2>4, Advance
  <1>8. CASE RecoverPanic(w) \/ RecoverForward(w) \/ RecoverBack(w) \/ RecoverSettle(w)
    BY <1>4, <1>7, <1>8 DEF RecoverPanic, RecoverForward, RecoverBack, RecoverSettle, Recoveries
  <1>9. CASE RecoverStick(w)
    <2>1. recovery' \in Recoveries BY <1>4, <1>9 DEF RecoverStick, Stick, Recoveries
    <2>2. Go(w, "recover") BY <1>9 DEF RecoverStick, Stick
    <2> QED BY <1>1, <1>2, <1>3, <2>1, <2>2, Advance
          DEF PcValues, PastPrepare, AfterSwap, Settling, Forward
  <1> QED BY <1>5, <1>6, <1>8, <1>9

-----------------------------------------------------------------------------
(* The phases of a mutation. *)

LEMMA TEnough ==
  ASSUME TypeInv, NEW w \in Writers, pc[w] \notin {"idle", "lane"}
  PROVE  /\ call[w].op \in Ops /\ call[w].input \in Inputs
         /\ call[w].gen \in Generations /\ call[w].expected \in Generations
         /\ call[w].gen <= calls /\ call[w].expected < call[w].gen
         /\ pointer.gen \in Generations
         /\ tx[call[w].op] \in TxRecords /\ Sound(tx[call[w].op])
  BY DEF TypeInv, WritersOK, CallShape, TxOK, DiskOK

LEMMA TBegin == ASSUME TypeInv, NEW w \in Writers, Begin(w) PROVE TypeInv'
  <1>1. /\ pc[w] \notin {"idle", "lane"} /\ Go(w, "intent")
        /\ tx' = [tx EXCEPT ![call[w].op] = [NoTx EXCEPT !.dir = TRUE]]
        /\ UNCHANGED <<pointer, files, root, depleted, lane, call, recovery, reader, bounds, history>>
    BY DEF Begin, At
  <1>2. [NoTx EXCEPT !.dir = TRUE] \in TxRecords /\ Sound([NoTx EXCEPT !.dir = TRUE])
    BY StoreAssumption DEF NoTx, TxRecords, Sound
  <1>3. TxOK' BY <1>1, <1>2, TEnough, JournalSound DEF TypeInv
  <1>4. DiskOK' BY <1>1 DEF TypeInv, DiskOK, files, bounds, history
  <1> QED BY <1>1, <1>3, <1>4, Advance
        DEF bounds, TypeInv, WritersOK, OthersOK, PcValues, PastPrepare, AfterSwap, Settling, Forward

LEMMA TWriteIntent == ASSUME TypeInv, NEW w \in Writers, WriteIntent(w) PROVE TypeInv'
  <1> DEFINE t == [tx[call[w].op] EXCEPT !.phases = {"intent"}]
  <1>1. /\ pc[w] \notin {"idle", "lane"} /\ Go(w, "stage") /\ tx' = [tx EXCEPT ![call[w].op] = t]
        /\ UNCHANGED <<pointer, files, root, depleted, lane, call, recovery, reader, bounds, history>>
    BY DEF WriteIntent, At, Journal, Mine
  <1>2. t \in TxRecords /\ Sound(t) BY <1>1, TEnough DEF TxRecords, Sound, Phases
  <1>3. TxOK'
    <2> HIDE DEF t
    <2> QED BY <1>1, <1>2, TEnough, JournalSound DEF TypeInv
  <1>4. DiskOK' BY <1>1 DEF TypeInv, DiskOK, files, bounds, history
  <1> QED BY <1>1, <1>3, <1>4, Advance
        DEF bounds, TypeInv, WritersOK, OthersOK, PcValues, PastPrepare, AfterSwap, Settling, Forward

LEMMA TStage == ASSUME TypeInv, NEW w \in Writers, Stage(w) PROVE TypeInv'
  <1>1. /\ pc[w] \notin {"idle", "lane"} /\ Go(w, "prepare")
        /\ dirs' = dirs \cup {call[w].gen}
        /\ content' = [content EXCEPT ![call[w].gen] = Staged(call[w].gen)]
        /\ ledger' = [ledger EXCEPT ![call[w].gen] = ledger[pointer.gen]]
        /\ owner' = [owner EXCEPT ![call[w].gen] = call[w].op]
        /\ UNCHANGED <<pointer, root, tx, depleted, lane, call, recovery, reader, bounds, acked, early, failed>>
    BY DEF Stage, At
  <1>2. Staged(call[w].gen) \in [Files -> SUBSET Generations]
    BY <1>1, TEnough DEF Staged, TypeInv, DiskOK, Files
  <1>3. DiskOK' BY <1>1, <1>2, TEnough DEF TypeInv, DiskOK, bounds
  <1>4. TxOK' BY <1>1 DEF TypeInv, TxOK, Sound
  <1> QED BY <1>1, <1>3, <1>4, Advance
        DEF bounds, TypeInv, WritersOK, OthersOK, PcValues, PastPrepare, AfterSwap, Settling, Forward

LEMMA TSelecting ==
  ASSUME DiskOK, NEW g \in Generations, g <= calls, NEW save
  PROVE  /\ Selecting(g, save) \in [gen : Generations, head : Generations \cup {None},
                                    tree : SUBSET (Ops \cup {None})]
         /\ Selecting(g, save).gen = g
  <1>1. Tree(content[g]["assets"]) \subseteq Ops \cup {None} BY DEF DiskOK, Tree, Files
  <1> QED BY <1>1 DEF Selecting, DiskOK

LEMMA TPrepare == ASSUME TypeInv, NEW w \in Writers, Prepare(w) PROVE TypeInv'
  <1> DEFINE t == Prepared(tx[call[w].op], call[w].gen, pointer.gen, call[w].input)
  <1>1. /\ pc[w] \notin {"idle", "lane"} /\ Go(w, "swap") /\ tx' = [tx EXCEPT ![call[w].op] = t]
        /\ UNCHANGED <<pointer, files, root, depleted, lane, call, recovery, reader, bounds, history>>
    BY DEF Prepare, At, Journal, Mine
  <1>2. t \in TxRecords /\ Sound(t) BY <1>1, TEnough, PreparedSound
  <1>3. TxOK'
    <2> HIDE DEF t
    <2> QED BY <1>1, <1>2, TEnough, JournalSound DEF TypeInv
  <1>4. DiskOK' BY <1>1 DEF TypeInv, DiskOK, files, bounds, history
  <1>5. "prepared" \in tx'[call[w].op].phases
    BY <1>1, TEnough, JournalStep DEF TypeInv, TxOK, Prepared
  <1> QED BY <1>1, <1>3, <1>4, <1>5, Advance
        DEF bounds, TypeInv, WritersOK, OthersOK, PcValues, PastPrepare, AfterSwap, Settling, Forward

LEMMA TSwapPointer == ASSUME TypeInv, NEW w \in Writers, SwapPointer(w) PROVE TypeInv'
  <1>1. /\ pc[w] = "swap" /\ Go(w, "commit")
        /\ pointer' = Selecting(call[w].gen, call[w].op \in SaveOps)
        /\ UNCHANGED <<files, root, tx, depleted, lane, call, recovery, reader, bounds, history>>
    BY DEF SwapPointer, At
  <1>2. DiskOK' BY <1>1, TEnough, TSelecting DEF TypeInv, DiskOK, files, bounds, history
  <1>3. TxOK' BY <1>1 DEF TypeInv, TxOK, Sound
  <1>4. "prepared" \in tx'[call[w].op].phases BY <1>1 DEF TypeInv, PreparedShape, PastPrepare
  <1> QED BY <1>1, <1>2, <1>3, <1>4, Advance
        DEF bounds, TypeInv, WritersOK, OthersOK, PcValues, PastPrepare, AfterSwap, Settling, Forward

LEMMA TCommit == ASSUME TypeInv, NEW w \in Writers, Commit(w) PROVE TypeInv'
  <1> DEFINE t == [tx[call[w].op] EXCEPT !.phases = @ \cup {"committed"}]
  <1>1. /\ pc[w] = "commit" /\ Go(w, "ledger") /\ tx' = [tx EXCEPT ![call[w].op] = t]
        /\ UNCHANGED <<pointer, files, root, depleted, lane, call, recovery, reader, bounds, history>>
    BY DEF Commit, At, Journal, Mine
  <1>2. "prepared" \in tx[call[w].op].phases BY <1>1 DEF TypeInv, PreparedShape, PastPrepare, AfterSwap
  <1>3. /\ t \in TxRecords /\ Sound(t) /\ "prepared" \in t.phases
    BY <1>1, <1>2, TEnough DEF TxRecords, Sound, Phases
  <1> HIDE DEF t
  <1>4. TxOK' BY <1>1, <1>3, TEnough, JournalSound DEF TypeInv
  <1>5. DiskOK' BY <1>1 DEF TypeInv, DiskOK, files, bounds, history
  <1>6. "prepared" \in tx'[call[w].op].phases
    BY <1>1, <1>3, TEnough, JournalStep DEF TypeInv, TxOK
  <1> QED BY <1>1, <1>4, <1>5, <1>6, Advance
        DEF bounds, TypeInv, WritersOK, OthersOK, PcValues, PastPrepare, AfterSwap, Settling, Forward

LEMMA TWriteLedger == ASSUME TypeInv, NEW w \in Writers, WriteLedger(w) PROVE TypeInv'
  <1>1. /\ pc[w] = "ledger" /\ Go(w, "materialize")
        /\ ledger' = [ledger EXCEPT ![call[w].gen] = @ \cup {<<call[w].op, call[w].input>>}]
        /\ UNCHANGED <<pointer, dirs, content, root, tx, depleted, lane, call, recovery, reader, bounds, history>>
    BY DEF WriteLedger, At, Record
  <1>2. DiskOK'
    <2>1. ledger' \in [Generations -> SUBSET (Ops \X Inputs)] BY <1>1, TEnough DEF TypeInv, DiskOK
    <2> QED BY <1>1, <2>1 DEF TypeInv, DiskOK, bounds, history
  <1>3. TxOK' BY <1>1 DEF TypeInv, TxOK, Sound
  <1>4. "prepared" \in tx'[call[w].op].phases BY <1>1 DEF TypeInv, PreparedShape, PastPrepare, AfterSwap
  <1> QED BY <1>1, <1>2, <1>3, <1>4, Advance
        DEF bounds, TypeInv, WritersOK, OthersOK, PcValues, PastPrepare, AfterSwap, Settling, Forward

LEMMA TMaterialize == ASSUME TypeInv, NEW w \in Writers, Materialize(w) PROVE TypeInv'
  <1>1. /\ pc[w] = "materialize" /\ Go(w, "complete") /\ root' = content[call[w].gen]
        /\ UNCHANGED <<pointer, files, tx, depleted, lane, call, recovery, reader, bounds, history>>
    BY DEF Materialize, At
  <1>2. DiskOK' BY <1>1, TEnough DEF TypeInv, DiskOK, files, bounds, history
  <1>3. TxOK' BY <1>1 DEF TypeInv, TxOK, Sound
  <1>4. "prepared" \in tx'[call[w].op].phases BY <1>1 DEF TypeInv, PreparedShape, PastPrepare, AfterSwap
  <1> QED BY <1>1, <1>2, <1>3, <1>4, Advance
        DEF bounds, TypeInv, WritersOK, OthersOK, PcValues, PastPrepare, AfterSwap, Settling, Forward

LEMMA TComplete == ASSUME TypeInv, NEW w \in Writers, Complete(w) PROVE TypeInv'
  <1> DEFINE t == Closed(tx[call[w].op], "success")
  <1>1. /\ pc[w] = "complete" /\ Go(w, "remove") /\ tx' = [tx EXCEPT ![call[w].op] = t]
        /\ UNCHANGED <<pointer, files, root, depleted, lane, call, recovery, reader, bounds, history>>
    BY DEF Complete, At, Journal, Mine
  <1>2. "prepared" \in tx[call[w].op].phases BY <1>1 DEF TypeInv, PreparedShape, PastPrepare, AfterSwap
  <1>3. t \in TxRecords /\ Sound(t) BY <1>1, <1>2, TEnough, ClosedSound
  <1> HIDE DEF t
  <1>4. TxOK' BY <1>1, <1>3, TEnough, JournalSound DEF TypeInv
  <1>5. DiskOK' BY <1>1 DEF TypeInv, DiskOK, files, bounds, history
  <1> QED BY <1>1, <1>4, <1>5, Advance
        DEF bounds, TypeInv, WritersOK, OthersOK, PcValues, PastPrepare, AfterSwap, Settling, Forward

LEMMA PartlyCopiedType ==
  ASSUME DiskOK, NEW g \in Generations, NEW copy \in PartlyCopied(g)
  PROVE  copy \in [Files -> SUBSET Generations]
  BY DEF PartlyCopied, DiskOK

LEMMA TFailPhase == ASSUME TypeInv, NEW w \in Writers, FailPhase(w) PROVE TypeInv'
  <1>1. PICK point \in BeforeSwap \cup AfterSwap :
          /\ MayFault(w, point)
          /\ Go(w, IF point \in AfterSwap THEN "restore" ELSE "discard")
          /\ IF point = "materialize" THEN root' \in PartlyCopied(call[w].gen) ELSE UNCHANGED root
    BY DEF FailPhase
  <1>2. /\ pc[w] \notin {"idle", "lane"} /\ faults < MaxFaults /\ faults' = faults + 1
        /\ UNCHANGED <<pointer, files, tx, depleted, lane, call, recovery, reader, calls, crashes, history>>
    BY <1>1 DEF FailPhase, MayFault, At, BeforeSwap, AfterSwap
  <1>3. root' \in [Files -> SUBSET Generations]
    BY <1>1, <1>2, TEnough, PartlyCopiedType DEF TypeInv, DiskOK
  <1>4. DiskOK' BY <1>2, <1>3 DEF TypeInv, DiskOK, files, history
  <1>5. TxOK' BY <1>2 DEF TypeInv, TxOK, Sound
  <1>6. faults' \in 0..MaxFaults BY <1>2, StoreAssumption DEF TypeInv, OthersOK
  <1>7. \E there \in {"restore", "discard"} : Go(w, there) BY <1>1
  <1> QED BY <1>2, <1>4, <1>5, <1>6, <1>7, Advance
        DEF bounds, TypeInv, WritersOK, OthersOK, PcValues, PastPrepare, AfterSwap, Settling, Forward

LEMMA TRestore == ASSUME TypeInv, NEW w \in Writers, Restore(w) PROVE TypeInv'
  <1>1. /\ pc[w] \notin {"idle", "lane"} /\ Go(w, "discard")
        /\ pointer' = Selecting(call[w].expected, FALSE)
        /\ UNCHANGED <<files, root, tx, depleted, lane, call, recovery, reader, bounds, history>>
    BY DEF Restore, At
  <1>2. call[w].expected <= calls
    BY <1>1, TEnough, StoreAssumption DEF Generations, TypeInv, OthersOK
  <1>3. DiskOK' BY <1>1, <1>2, TEnough, TSelecting DEF TypeInv, DiskOK, files, bounds, history
  <1>4. TxOK' BY <1>1 DEF TypeInv, TxOK, Sound
  <1> QED BY <1>1, <1>3, <1>4, Advance
        DEF bounds, TypeInv, WritersOK, OthersOK, PcValues, PastPrepare, AfterSwap, Settling, Forward

LEMMA TFailRestore == ASSUME TypeInv, NEW w \in Writers, FailRestore(w) \/ FailDiscard(w) PROVE TypeInv'
  <1>1. /\ pc[w] \notin {"idle", "lane"} /\ faults < MaxFaults /\ faults' = faults + 1
        /\ \E there \in {"discard", "fail"} : Go(w, there)
        /\ UNCHANGED <<disk, lane, call, recovery, reader, calls, crashes, history>>
    BY DEF FailRestore, FailDiscard, MayFault, At
  <1>2. DiskOK' BY <1>1 DEF TypeInv, DiskOK, disk, history
  <1>3. TxOK' BY <1>1 DEF TypeInv, TxOK, Sound, disk
  <1>4. faults' \in 0..MaxFaults BY <1>1, StoreAssumption DEF TypeInv, OthersOK
  <1> QED BY <1>1, <1>2, <1>3, <1>4, Advance
        DEF bounds, TypeInv, WritersOK, OthersOK, PcValues, PastPrepare, AfterSwap, Settling, Forward

LEMMA TFailClose == ASSUME TypeInv, NEW w \in Writers, FailClose(w) PROVE TypeInv'
  <1>1. /\ pc[w] \in {"fail", "back-close"} /\ faults < MaxFaults /\ faults' = faults + 1
        /\ pc[w] = "fail" => Go(w, "dismiss")
        /\ pc[w] = "back-close" => Go(w, "sweep")
        /\ UNCHANGED <<pointer, files, root, tx, lane, call, recovery, reader, calls, crashes, history>>
    BY DEF FailClose, MayFault, At
  <1>2. depleted' \in BOOLEAN BY DEF FailClose
  <1>3. DiskOK' BY <1>1, <1>2 DEF TypeInv, DiskOK, files, history
  <1>4. TxOK' BY <1>1 DEF TypeInv, TxOK, Sound
  <1>5. faults' \in 0..MaxFaults BY <1>1, StoreAssumption DEF TypeInv, OthersOK
  <1>6. pc[w] = "back-close" => recovery.op \in Ops BY DEF TypeInv, RecoveryShape, Settling
  <1> QED BY <1>1, <1>3, <1>4, <1>5, <1>6, Advance
        DEF bounds, TypeInv, WritersOK, OthersOK, PcValues, PastPrepare, AfterSwap, Settling, Forward

LEMMA TDiscard == ASSUME TypeInv, NEW w \in Writers, Discard(w) PROVE TypeInv'
  <1>1. /\ pc[w] \notin {"idle", "lane"} /\ Go(w, "fail") /\ dirs' = dirs \ {call[w].gen}
        /\ UNCHANGED <<pointer, content, ledger, root, tx, depleted, lane, call, recovery, reader, bounds, history>>
    BY DEF Discard, At
  <1>2. DiskOK' BY <1>1 DEF TypeInv, DiskOK, bounds, history
  <1>3. TxOK' BY <1>1 DEF TypeInv, TxOK, Sound
  <1> QED BY <1>1, <1>2, <1>3, Advance
        DEF bounds, TypeInv, WritersOK, OthersOK, PcValues, PastPrepare, AfterSwap, Settling, Forward

LEMMA TCloseFailed == ASSUME TypeInv, NEW w \in Writers, CloseFailed(w) PROVE TypeInv'
  <1> DEFINE t == Aborted(tx[call[w].op], call[w].gen, call[w].expected)
  <1>1. /\ pc[w] \notin {"idle", "lane"} /\ Go(w, "dismiss") /\ tx' = [tx EXCEPT ![call[w].op] = t]
        /\ \E enospc \in BOOLEAN : depleted' = (depleted \/ enospc)
        /\ UNCHANGED <<pointer, files, root, lane, call, recovery, reader, bounds, history>>
    BY DEF CloseFailed, At, Journal, Mine
  <1>2. t \in TxRecords /\ Sound(t) BY <1>1, TEnough, AbortedSound
  <1> HIDE DEF t
  <1>3. TxOK' BY <1>1, <1>2, TEnough, JournalSound DEF TypeInv
  <1>4. depleted' \in BOOLEAN BY <1>1
  <1>5. DiskOK' BY <1>1, <1>4 DEF TypeInv, DiskOK, files, bounds, history
  <1> QED BY <1>1, <1>3, <1>5, Advance
        DEF bounds, TypeInv, WritersOK, OthersOK, PcValues, PastPrepare, AfterSwap, Settling, Forward

-----------------------------------------------------------------------------
(* Recovery. *)

\* What a writer that settles a transaction may rely on.
LEMMA TMending ==
  ASSUME TypeInv, NEW w \in Writers, pc[w] \in Settling
  PROVE  /\ pc[w] \notin {"idle", "lane"} /\ recovery.op \in Ops /\ recovery \in Recoveries
         /\ Mending \in TxRecords /\ Sound(Mending)
         /\ pc[w] \in Forward => "prepared" \in Mending.phases
  BY DEF TypeInv, RecoveryShape, Settling, Forward, TxOK, WritersOK, Mending

LEMMA TForwardMaterialize == ASSUME TypeInv, NEW w \in Writers, ForwardMaterialize(w) PROVE TypeInv'
  <1>1. /\ pc[w] = "forward-materialize" /\ pc[w] \in Forward /\ pc[w] \in Settling
        /\ UNCHANGED <<pointer, files, tx, depleted, lane, call, reader, bounds, history>>
    BY DEF ForwardMaterialize, At, Forward, Settling
  <1>2. TxOK' BY <1>1 DEF TypeInv, TxOK, Sound
  <1>3. CASE Mending.gen \in dirs
    <2>1. root' = content[Mending.gen] /\ Go(w, "forward-ledger") /\ UNCHANGED recovery
      BY <1>3 DEF ForwardMaterialize
    <2>2. Mending.gen \in Generations BY <1>1, TMending DEF Sound
    <2>3. DiskOK' BY <1>1, <2>1, <2>2 DEF TypeInv, DiskOK, files, bounds, history
    <2>4. "prepared" \in tx'[recovery'.op].phases BY <1>1, <2>1, TMending DEF Mending
    <2>5. recovery'.op \in Ops BY <1>1, <2>1, TMending
    <2> QED BY <1>1, <1>2, <2>1, <2>3, <2>4, <2>5, Advance
          DEF bounds, TypeInv, WritersOK, OthersOK, PcValues, PastPrepare, AfterSwap
  <1>4. CASE Mending.gen \notin dirs
    <2>1. Stick(w, recovery.op) /\ UNCHANGED root BY <1>4 DEF ForwardMaterialize
    <2>2. DiskOK' BY <1>1, <2>1 DEF TypeInv, DiskOK, files, bounds, history
    <2>3. recovery' \in Recoveries BY <1>1, <2>1, TMending DEF Stick, Recoveries
    <2>4. Go(w, "recover") BY <2>1 DEF Stick
    <2> QED BY <1>1, <1>2, <2>2, <2>3, <2>4, Advance
          DEF bounds, TypeInv, WritersOK, OthersOK, PcValues, PastPrepare, AfterSwap, Settling, Forward
  <1> QED BY <1>3, <1>4

LEMMA TForwardLedger == ASSUME TypeInv, NEW w \in Writers, ForwardLedger(w) PROVE TypeInv'
  <1>1. /\ pc[w] \in Forward /\ pc[w] \in Settling /\ Go(w, "forward-close")
        /\ ledger' = [ledger EXCEPT ![Mending.gen] = @ \cup {<<recovery.op, Mending.input>>}]
        /\ UNCHANGED <<pointer, dirs, content, root, tx, depleted, lane, call, recovery, reader, bounds, history>>
    BY DEF ForwardLedger, At, Record, Forward, Settling
  <1>2. TxOK' BY <1>1 DEF TypeInv, TxOK, Sound
  <1>3. Mending.gen \in Generations /\ Mending.input \in Inputs BY <1>1, TMending DEF Sound
  <1>4. DiskOK' BY <1>1, <1>3, TMending DEF TypeInv, DiskOK, bounds, history
  <1>5. recovery'.op \in Ops /\ "prepared" \in tx'[recovery'.op].phases BY <1>1, TMending DEF Mending
  <1>6. pc[w] \notin {"idle", "lane"} BY <1>1, TMending
  <1> QED BY <1>1, <1>2, <1>4, <1>5, <1>6, Advance
        DEF bounds, TypeInv, WritersOK, OthersOK, PcValues, PastPrepare, AfterSwap

LEMMA TCloseRecovered ==
  ASSUME TypeInv, NEW w \in Writers, ForwardClose(w) \/ BackClose(w)
  PROVE  TypeInv'
  <1>1. PICK result \in {"success", "rolled-back"} :
          /\ tx' = [tx EXCEPT ![recovery.op] = Closed(Mending, result)]
          /\ result = "success" => pc[w] \in Forward
    BY DEF ForwardClose, BackClose, At, Forward
  <1>2. /\ pc[w] \in Settling /\ Go(w, "sweep")
        /\ UNCHANGED <<pointer, files, root, depleted, lane, call, recovery, reader, bounds, history>>
    BY DEF ForwardClose, BackClose, At, Forward, Settling
  <1>3. Closed(Mending, result) \in TxRecords /\ Sound(Closed(Mending, result))
    BY <1>1, <1>2, TMending, ClosedSound
  <1>4. TxOK' BY <1>1, <1>2, <1>3, TMending, JournalSound DEF TypeInv
  <1>5. DiskOK' BY <1>2 DEF TypeInv, DiskOK, files, bounds, history
  <1>6. pc[w] \notin {"idle", "lane"} /\ recovery'.op \in Ops BY <1>2, TMending
  <1> QED BY <1>2, <1>4, <1>5, <1>6, Advance
        DEF bounds, TypeInv, WritersOK, OthersOK, PcValues, PastPrepare, AfterSwap, Forward

LEMMA TBackDiscard == ASSUME TypeInv, NEW w \in Writers, BackDiscard(w) PROVE TypeInv'
  <1>1. /\ pc[w] \in Settling /\ Go(w, "back-close") /\ dirs' \subseteq dirs
        /\ UNCHANGED <<pointer, content, ledger, root, tx, depleted, lane, call, recovery, reader, bounds, history>>
    BY DEF BackDiscard, At, Settling
  <1>2. DiskOK' BY <1>1 DEF TypeInv, DiskOK, bounds, history
  <1>3. TxOK' BY <1>1 DEF TypeInv, TxOK, Sound
  <1>4. pc[w] \notin {"idle", "lane"} /\ recovery'.op \in Ops BY <1>1, TMending
  <1> QED BY <1>1, <1>2, <1>3, <1>4, Advance
        DEF bounds, TypeInv, WritersOK, OthersOK, PcValues, PastPrepare, AfterSwap, Forward

LEMMA TSettleLedger == ASSUME TypeInv, NEW w \in Writers, SettleLedger(w) PROVE TypeInv'
  <1>1. /\ pc[w] \in Settling /\ Go(w, "sweep")
        /\ UNCHANGED <<pointer, dirs, content, root, tx, depleted, lane, call, recovery, reader, bounds, history>>
    BY DEF SettleLedger, At, Settling
  <1>2. ledger' \in [Generations -> SUBSET (Ops \X Inputs)]
    <2>1. CASE Mending.outcome = "success"
      BY <1>1, <2>1, TMending DEF SettleLedger, Record, Sound, TypeInv, DiskOK
    <2>2. CASE Mending.outcome # "success"
      BY <2>2 DEF SettleLedger, TypeInv, DiskOK
    <2> QED BY <2>1, <2>2
  <1>3. DiskOK' BY <1>1, <1>2 DEF TypeInv, DiskOK, bounds, history
  <1>4. TxOK' BY <1>1 DEF TypeInv, TxOK, Sound
  <1>5. pc[w] \notin {"idle", "lane"} /\ recovery'.op \in Ops BY <1>1, TMending
  <1> QED BY <1>1, <1>3, <1>4, <1>5, Advance
        DEF bounds, TypeInv, WritersOK, OthersOK, PcValues, PastPrepare, AfterSwap, Forward

LEMMA TSweep == ASSUME TypeInv, NEW w \in Writers, Sweep(w) PROVE TypeInv'
  <1>1. /\ pc[w] \in Settling /\ Go(w, "recover") /\ Remove(w, recovery.op)
        /\ recovery' = [recovery EXCEPT !.todo = @ \ {recovery.op}, !.op = None]
        /\ UNCHANGED <<pointer, files, root, depleted, lane, call, reader, calls, crashes, history>>
    BY DEF Sweep, At, Settling
  <1>2. TxOK' /\ faults' \in 0..MaxFaults BY <1>1, TMending, RemoveSound
  <1>3. DiskOK' BY <1>1 DEF TypeInv, DiskOK, files, history
  <1>4. pc[w] \notin {"idle", "lane"} BY <1>1, TMending
  <1>5. recovery' \in Recoveries BY <1>1, TMending DEF Recoveries
  <1> QED BY <1>1, <1>2, <1>3, <1>4, <1>5, Advance
        DEF PcValues, PastPrepare, AfterSwap, Settling, Forward

LEMMA TFailRecovery == ASSUME TypeInv, NEW w \in Writers, FailRecovery(w) PROVE TypeInv'
  <1>1. PICK point \in {"forward-materialize", "forward-ledger", "forward-close", "settle-ledger"} :
          /\ MayFault(w, point)
          /\ IF point = "forward-materialize" THEN root' \in PartlyCopied(Mending.gen) ELSE UNCHANGED root
    BY DEF FailRecovery
  <1>2. /\ pc[w] = point /\ pc[w] \in Settling /\ faults < MaxFaults /\ faults' = faults + 1
        /\ Stick(w, recovery.op)
        /\ UNCHANGED <<pointer, files, tx, depleted, lane, call, reader, calls, crashes, history>>
    BY <1>1 DEF FailRecovery, MayFault, At, Settling, Forward
  <1>3. pc[w] = "forward-materialize" => Mending.gen \in Generations
    BY <1>2, TMending DEF Sound, Forward
  <1>4. root' \in [Files -> SUBSET Generations]
    BY <1>1, <1>2, <1>3, PartlyCopiedType DEF TypeInv, DiskOK
  <1>5. DiskOK' BY <1>2, <1>4 DEF TypeInv, DiskOK, files, history
  <1>6. TxOK' BY <1>2 DEF TypeInv, TxOK, Sound
  <1>7. faults' \in 0..MaxFaults BY <1>2, StoreAssumption DEF TypeInv, OthersOK
  <1>8. recovery' \in Recoveries /\ Go(w, "recover") BY <1>2, TMending DEF Stick, Recoveries
  <1>9. pc[w] \notin {"idle", "lane"} BY <1>2, TMending
  <1> QED BY <1>2, <1>5, <1>6, <1>7, <1>8, <1>9, Advance
        DEF PcValues, PastPrepare, AfterSwap, Settling, Forward

LEMMA TCollectGarbage == ASSUME TypeInv, NEW w \in Writers, CollectGarbage(w) PROVE TypeInv'
  <1>1. /\ pc[w] \notin {"idle", "lane"} /\ dirs' \subseteq dirs
        /\ UNCHANGED <<pointer, content, ledger, root, tx, depleted, reader, bounds, history>>
    BY DEF CollectGarbage, At
  <1>2. DiskOK' BY <1>1 DEF TypeInv, DiskOK, bounds, history
  <1>3. TxOK' BY <1>1 DEF TypeInv, TxOK, Sound
  <1>4. CASE recovery.stuck
    BY <1>1, <1>2, <1>3, <1>4, Release DEF CollectGarbage, bounds, TypeInv, OthersOK
  <1>5. CASE ~recovery.stuck
    <2>1. Go(w, "check") /\ recovery' = NoRecovery /\ UNCHANGED <<lane, call>>
      BY <1>5 DEF CollectGarbage
    <2>2. recovery' \in Recoveries BY <2>1 DEF NoRecovery, Recoveries
    <2> QED BY <1>1, <1>2, <1>3, <2>1, <2>2, Advance
          DEF bounds, TypeInv, OthersOK, PcValues, PastPrepare, AfterSwap, Settling, Forward
  <1> QED BY <1>4, <1>5

-----------------------------------------------------------------------------
(* Callers, process death and readers. *)

\* A step of one writer that holds nothing after it: the others are as they were.
LEMMA OthersStand ==
  ASSUME TypeInv, NEW w \in Writers, pc' \in [Writers -> PcValues], call' \in [Writers -> Calls],
         \A v \in Writers : v # w => pc'[v] = pc[v] /\ call'[v] = call[v],
         pc'[w] \in {"idle", "lane"},
         pc'[w] # "idle" => /\ call'[w].op \in Ops /\ call'[w].input \in Inputs
                            /\ call'[w].gen \in Generations /\ call'[w].gen <= calls'
                            /\ call'[w].expected \in Generations /\ call'[w].expected < call'[w].gen,
         calls' \in Nat, calls \in Nat, calls <= calls',
         lane' \in Writers \cup {None}, lane # w => lane' = lane /\ recovery' = recovery /\ tx' = tx,
         recovery' \in Recoveries
  PROVE  WritersOK' /\ PreparedShape' /\ RecoveryShape'
  <1>1. \A v \in Writers : v # w /\ pc'[v] \notin {"idle", "lane"} => lane = v /\ lane # w
    BY DEF TypeInv, WritersOK, LaneHeld
  <1>2. LaneHeld' BY <1>1 DEF LaneHeld
  <1>3. CallShape'
    <2> SUFFICES ASSUME NEW v \in Writers, pc'[v] # "idle", v # w
                 PROVE  /\ call'[v].op \in Ops /\ call'[v].input \in Inputs
                        /\ call'[v].gen \in Generations /\ call'[v].gen <= calls'
                        /\ call'[v].expected \in Generations /\ call'[v].expected < call'[v].gen
      BY DEF CallShape
    <2>1. /\ call[v].op \in Ops /\ call[v].input \in Inputs
          /\ call[v].gen \in Generations /\ call[v].gen <= calls
          /\ call[v].expected \in Generations /\ call[v].expected < call[v].gen
      BY DEF TypeInv, WritersOK, CallShape
    <2> QED BY <2>1, StoreAssumption DEF Generations
  <1>4. WritersOK' BY <1>2, <1>3 DEF WritersOK
  <1>5. PreparedShape'
    <2> SUFFICES ASSUME NEW v \in Writers, pc'[v] \in PastPrepare
                 PROVE  "prepared" \in tx'[call'[v].op].phases
      BY DEF PreparedShape
    <2>1. v # w /\ pc'[v] \notin {"idle", "lane"} BY DEF PastPrepare, AfterSwap
    <2>2. tx' = tx /\ pc[v] \in PastPrepare /\ call'[v] = call[v] BY <1>1, <2>1
    <2> QED BY <2>2 DEF TypeInv, PreparedShape
  <1>6. RecoveryShape'
    <2> SUFFICES ASSUME NEW v \in Writers, pc'[v] \in Settling
                 PROVE  /\ recovery'.op \in Ops
                        /\ pc'[v] \in Forward => "prepared" \in tx'[recovery'.op].phases
      BY DEF RecoveryShape, Settling
    <2>1. v # w /\ pc'[v] \notin {"idle", "lane"} BY DEF Settling, Forward
    <2>2. tx' = tx /\ pc[v] = pc'[v] /\ recovery' = recovery BY <1>1, <2>1
    <2> QED BY <2>2 DEF TypeInv, RecoveryShape
  <1> QED BY <1>4, <1>5, <1>6

LEMMA TCall == ASSUME TypeInv, NEW w \in Writers, NEW o \in Ops, NEW i \in Inputs, Call(w, o, i)
               PROVE  TypeInv'
  <1>1. /\ pc[w] = "idle" /\ calls < MaxCalls /\ calls' = calls + 1
        /\ call' = [call EXCEPT ![w] = [op |-> o, input |-> i, expected |-> pointer.gen, gen |-> calls + 1]]
        /\ pc' = [pc EXCEPT ![w] = "lane"]
        /\ UNCHANGED <<disk, lane, recovery, reader, crashes, faults, history>>
    BY DEF Call, At, Go
  <1>2. /\ pc \in [Writers -> PcValues] /\ call \in [Writers -> Calls] /\ recovery \in Recoveries
        /\ lane \in Writers \cup {None} /\ calls \in 0..MaxCalls
        /\ pointer.gen \in Generations /\ pointer.gen <= calls
    BY DEF TypeInv, WritersOK, OthersOK, DiskOK
  <1>3. calls' \in 0..MaxCalls /\ calls' \in Generations /\ calls \in Nat /\ calls' \in Nat
    BY <1>1, <1>2, StoreAssumption DEF Generations
  <1>4. pointer.gen < calls' /\ pointer.gen <= calls'
    BY <1>1, <1>2, <1>3, StoreAssumption DEF Generations
  <1>5. DiskOK' BY <1>1, <1>4 DEF TypeInv, DiskOK, disk, history
  <1>6. TxOK' BY <1>1 DEF TypeInv, TxOK, Sound, disk
  <1>7. OthersOK' BY <1>1, <1>3 DEF TypeInv, OthersOK
  <1>8. pc' \in [Writers -> PcValues] /\ pc'[w] = "lane" BY <1>1, <1>2 DEF PcValues
  <1>9. /\ call'[w] = [op |-> o, input |-> i, expected |-> pointer.gen, gen |-> calls']
        /\ call'[w] \in Calls
    BY <1>1, <1>2, <1>3 DEF Calls
  <1>10. call' \in [Writers -> Calls] BY <1>1, <1>2, <1>9
  <1>11. \A v \in Writers : v # w => pc'[v] = pc[v] /\ call'[v] = call[v] BY <1>1, <1>2
  <1>12. WritersOK' /\ PreparedShape' /\ RecoveryShape'
    <2>1. /\ call'[w].op \in Ops /\ call'[w].input \in Inputs
          /\ call'[w].gen \in Generations /\ call'[w].gen <= calls'
          /\ call'[w].expected \in Generations /\ call'[w].expected < call'[w].gen
      BY <1>2, <1>3, <1>4, <1>9
    <2>2. lane' = lane /\ recovery' = recovery /\ tx' = tx /\ calls <= calls'
      BY <1>1, <1>3 DEF disk
    <2> QED BY <1>2, <1>3, <1>8, <1>10, <1>11, <2>1, <2>2, OthersStand
  <1> QED BY <1>5, <1>6, <1>7, <1>12 DEF TypeInv

LEMMA TAcquire == ASSUME TypeInv, NEW w \in Writers, Acquire(w) PROVE TypeInv'
  <1>1. /\ pc[w] = "lane" /\ lane = None /\ lane' = w /\ pc' = [pc EXCEPT ![w] = "entered"]
        /\ UNCHANGED <<disk, call, recovery, reader, bounds, history>>
    BY DEF Acquire, At, Go
  <1>2. pc \in [Writers -> PcValues] BY DEF TypeInv, WritersOK
  <1>3. pc' \in [Writers -> PcValues] /\ pc'[w] = "entered" BY <1>1, <1>2 DEF PcValues
  <1>4. \A v \in Writers : v # w => pc'[v] = pc[v] /\ pc[v] \in {"idle", "lane"}
    BY <1>1, <1>2, StoreAssumption DEF TypeInv, WritersOK, LaneHeld
  <1>5. DiskOK' BY <1>1 DEF TypeInv, DiskOK, disk, history, bounds
  <1>6. TxOK' BY <1>1 DEF TypeInv, TxOK, Sound, disk
  <1>7. OthersOK' BY <1>1 DEF TypeInv, OthersOK, bounds
  <1>8. LaneHeld' BY <1>1, <1>3, <1>4 DEF LaneHeld
  <1>9. CallShape'
    <2> SUFFICES ASSUME NEW v \in Writers, pc'[v] # "idle"
                 PROVE  /\ call[v].op \in Ops /\ call[v].input \in Inputs
                        /\ call[v].gen \in Generations /\ call[v].gen <= calls
                        /\ call[v].expected \in Generations /\ call[v].expected < call[v].gen
      BY <1>1 DEF CallShape, bounds
    <2>1. pc[v] # "idle" BY <1>1, <1>4
    <2> QED BY <2>1 DEF TypeInv, WritersOK, CallShape
  <1>10. WritersOK' BY <1>1, <1>3, <1>8, <1>9 DEF TypeInv, WritersOK
  <1>11. PreparedShape' BY <1>3, <1>4 DEF PreparedShape, PastPrepare, AfterSwap
  <1>12. RecoveryShape' BY <1>3, <1>4 DEF RecoveryShape, Settling, Forward
  <1> QED BY <1>5, <1>6, <1>7, <1>10, <1>11, <1>12 DEF TypeInv

LEMMA TAnswerFromLedger ==
  ASSUME TypeInv, NEW w \in Writers, NEW o \in Ops, NEW i \in Inputs, AnswerFromLedger(w, o, i)
  PROVE  TypeInv'
  <1>1. /\ calls < MaxCalls /\ calls' = calls + 1
        /\ acked' \subseteq acked \cup {o} /\ early' \subseteq early \cup {o}
        /\ UNCHANGED <<disk, lane, pc, call, recovery, reader, crashes, faults, owner, failed>>
    BY DEF AnswerFromLedger
  <1>2. calls \in Nat /\ calls' \in 0..MaxCalls /\ calls <= calls'
    BY <1>1, StoreAssumption DEF TypeInv, OthersOK
  <1>3. DiskOK'
    <2>1. pointer.gen \in Nat /\ pointer.gen <= calls /\ calls \in Nat
      BY <1>2, StoreAssumption DEF TypeInv, DiskOK, Generations
    <2>2. pointer'.gen <= calls' BY <1>1, <1>2, <2>1 DEF disk
    <2> QED BY <1>1, <2>2 DEF TypeInv, DiskOK, disk
  <1>4. TxOK' BY <1>1 DEF TypeInv, TxOK, Sound, disk
  <1>5. CallShape'
    <2> SUFFICES ASSUME NEW v \in Writers, pc'[v] # "idle"
                 PROVE  /\ call'[v].op \in Ops /\ call'[v].input \in Inputs
                        /\ call'[v].gen \in Generations /\ call'[v].gen <= calls'
                        /\ call'[v].expected \in Generations /\ call'[v].expected < call'[v].gen
      BY DEF CallShape
    <2>1. /\ call[v].op \in Ops /\ call[v].input \in Inputs
          /\ call[v].gen \in Generations /\ call[v].gen <= calls
          /\ call[v].expected \in Generations /\ call[v].expected < call[v].gen
      BY <1>1 DEF TypeInv, WritersOK, CallShape
    <2>2. call[v].gen \in Nat BY <2>1, StoreAssumption DEF Generations
    <2> QED BY <1>1, <1>2, <2>1, <2>2
  <1>6. WritersOK' BY <1>1, <1>5 DEF TypeInv, WritersOK, LaneHeld
  <1>7. OthersOK' BY <1>1, <1>2 DEF TypeInv, OthersOK
  <1>8. PreparedShape' /\ RecoveryShape'
    BY <1>1 DEF TypeInv, PreparedShape, RecoveryShape, disk
  <1> QED BY <1>3, <1>4, <1>6, <1>7, <1>8 DEF TypeInv

LEMMA TGiveUp == ASSUME TypeInv, NEW w \in Writers, GiveUp(w) PROVE TypeInv'
  <1>1. /\ pc' = [pc EXCEPT ![w] = "idle"] /\ call' = [call EXCEPT ![w] = NoCall]
        /\ UNCHANGED <<disk, lane, recovery, reader, bounds, history>>
    BY DEF GiveUp, Go
  <1>2. /\ pc \in [Writers -> PcValues] /\ call \in [Writers -> Calls] /\ recovery \in Recoveries
        /\ lane \in Writers \cup {None} /\ calls \in Nat
    BY StoreAssumption DEF TypeInv, WritersOK, OthersOK
  <1>3. pc' \in [Writers -> PcValues] /\ pc'[w] = "idle" BY <1>1, <1>2 DEF PcValues
  <1>4. call' \in [Writers -> Calls] BY <1>1, <1>2 DEF Calls, NoCall
  <1>5. \A v \in Writers : v # w => pc'[v] = pc[v] /\ call'[v] = call[v] BY <1>1, <1>2
  <1>6. calls' = calls /\ calls <= calls' /\ tx' = tx BY <1>1, <1>2 DEF bounds, disk
  <1>7. WritersOK' /\ PreparedShape' /\ RecoveryShape'
    BY <1>1, <1>2, <1>3, <1>4, <1>5, <1>6, OthersStand
  <1>8. DiskOK' BY <1>1 DEF TypeInv, DiskOK, disk, history, bounds
  <1>9. TxOK' BY <1>1 DEF TypeInv, TxOK, Sound, disk
  <1>10. OthersOK' BY <1>1 DEF TypeInv, OthersOK, bounds
  <1> QED BY <1>7, <1>8, <1>9, <1>10 DEF TypeInv

LEMMA TCrash == ASSUME TypeInv, NEW w \in Writers, Crash(w) PROVE TypeInv'
  <1>1. /\ pc[w] # "idle" /\ crashes < MaxCrashes /\ crashes' = crashes + 1
        /\ pc' = [pc EXCEPT ![w] = "idle"] /\ call' = [call EXCEPT ![w] = NoCall]
        /\ IF lane = w THEN lane' = None /\ recovery' = NoRecovery ELSE UNCHANGED <<lane, recovery>>
        /\ UNCHANGED <<pointer, files, depleted, reader, calls, faults, history>>
    BY DEF Crash, At, Go
  <1>2. /\ pc \in [Writers -> PcValues] /\ call \in [Writers -> Calls] /\ recovery \in Recoveries
        /\ lane \in Writers \cup {None} /\ calls \in Nat /\ crashes \in Nat
    BY StoreAssumption DEF TypeInv, WritersOK, OthersOK
  <1>3. TxOK' /\ (lane # w => tx' = tx)
    <2>1. CASE pc[w] \notin Removing
      <3>1. tx' = tx BY <2>1 DEF Crash
      <3> QED BY <3>1 DEF TypeInv, TxOK, Sound
    <2>2. CASE pc[w] \in Removing
      <3> DEFINE o == IF At(w, "sweep") THEN recovery.op ELSE call[w].op
      <3>1. PICK t \in PartlyRemoved(tx[o]) : tx' = [tx EXCEPT ![o] = t] BY <2>2 DEF Crash
      <3>2. o \in Ops
        BY <1>1, <2>2, TEnough DEF At, Removing, TypeInv, RecoveryShape, Settling
      <3>3. t \in TxRecords /\ Sound(t) BY <3>1, <3>2, PartlyRemovedSound DEF TypeInv, TxOK
      <3> HIDE DEF o
      <3>4. TxOK' BY <3>1, <3>2, <3>3, JournalSound DEF TypeInv
      <3>5. lane = w BY <2>2 DEF Removing, TypeInv, WritersOK, LaneHeld
      <3> QED BY <3>4, <3>5
    <2> QED BY <2>1, <2>2
  <1>4. root' \in [Files -> SUBSET Generations]
    <2>1. CASE pc[w] = "materialize"
      <3>1. root' \in PartlyCopied(call[w].gen) BY <2>1 DEF Crash, At
      <3> QED BY <2>1, <3>1, TEnough, PartlyCopiedType DEF TypeInv
    <2>2. CASE pc[w] = "forward-materialize"
      <3>1. root' \in PartlyCopied(Mending.gen) BY <2>2 DEF Crash, At
      <3>2. Mending.gen \in Generations BY <2>2, TMending DEF Sound, Settling, Forward
      <3> QED BY <3>1, <3>2, PartlyCopiedType DEF TypeInv
    <2>3. CASE pc[w] \notin {"materialize", "forward-materialize"}
      <3>1. root' = root BY <2>3 DEF Crash, At
      <3> QED BY <3>1 DEF TypeInv, DiskOK
    <2> QED BY <2>1, <2>2, <2>3
  <1>5. DiskOK' BY <1>1, <1>4 DEF TypeInv, DiskOK, files, history
  <1>6. OthersOK' BY <1>1, <1>2, StoreAssumption DEF TypeInv, OthersOK
  <1>7. pc' \in [Writers -> PcValues] /\ pc'[w] = "idle" BY <1>1, <1>2 DEF PcValues
  <1>8. call' \in [Writers -> Calls] BY <1>1, <1>2 DEF Calls, NoCall
  <1>9. \A v \in Writers : v # w => pc'[v] = pc[v] /\ call'[v] = call[v] BY <1>1, <1>2
  <1>10. recovery' \in Recoveries /\ lane' \in Writers \cup {None} /\ (lane # w => recovery' = recovery /\ lane' = lane)
    <2>1. CASE lane = w
      <3>1. recovery' = NoRecovery /\ lane' = None BY <1>1, <2>1
      <3>2. NoRecovery \in Recoveries BY DEF NoRecovery, Recoveries
      <3> QED BY <2>1, <3>1, <3>2
    <2>2. CASE lane # w BY <1>1, <1>2, <2>2
    <2> QED BY <2>1, <2>2
  <1>11. WritersOK' /\ PreparedShape' /\ RecoveryShape'
    BY <1>1, <1>2, <1>3, <1>7, <1>8, <1>9, <1>10, OthersStand
  <1> QED BY <1>3, <1>5, <1>6, <1>11 DEF TypeInv

LEMMA TRead ==
  ASSUME TypeInv, (\E r \in Readers : Read(r)) \/ Replenish
  PROVE  TypeInv'
  <1>1. /\ UNCHANGED <<pointer, files, root, tx, lane, pc, call, recovery, bounds, history>>
        /\ depleted' = FALSE \/ UNCHANGED depleted
    BY DEF Read, ReadPointer, PinGeneration, Unpin, Replenish, disk, files
  <1>2. reader' \in [Readers -> [at : {"idle", "read", "pinned"}, gen : Generations \cup {None}]]
    <2>1. CASE Replenish BY <2>1 DEF Replenish, TypeInv, OthersOK
    <2>2. ASSUME NEW r \in Readers, Read(r)
          PROVE  reader' \in [Readers -> [at : {"idle", "read", "pinned"}, gen : Generations \cup {None}]]
      <3> DEFINE Pins == [at : {"idle", "read", "pinned"}, gen : Generations \cup {None}]
      <3>1. reader \in [Readers -> Pins] /\ pointer.gen \in Generations \cup {None}
        BY DEF TypeInv, OthersOK, DiskOK
      <3>2. reader[r] \in Pins /\ NoPin \in Pins BY <3>1 DEF NoPin
      <3>3. [reader[r] EXCEPT !.at = "pinned"] \in Pins BY <3>2
      <3>4. [at |-> "read", gen |-> pointer.gen] \in Pins BY <3>1
      <3>5. \E p \in Pins : reader' = [reader EXCEPT ![r] = p]
        <4>1. CASE ReadPointer(r) BY <4>1, <3>4 DEF ReadPointer
        <4>2. CASE PinGeneration(r) BY <4>2, <3>2, <3>3 DEF PinGeneration
        <4>3. CASE Unpin(r) BY <4>3, <3>2 DEF Unpin
        <4> QED BY <2>2, <4>1, <4>2, <4>3 DEF Read
      <3> QED BY <3>1, <3>5
    <2> QED BY <2>1, <2>2
  <1>3. DiskOK'
    <2>1. depleted' \in BOOLEAN BY <1>1 DEF TypeInv, DiskOK
    <2> QED BY <1>1, <2>1 DEF TypeInv, DiskOK, files, bounds, history
  <1>4. TxOK' BY <1>1 DEF TypeInv, TxOK, Sound
  <1>5. WritersOK' BY <1>1 DEF TypeInv, WritersOK, LaneHeld, CallShape, bounds
  <1>6. OthersOK' BY <1>1, <1>2 DEF TypeInv, OthersOK, bounds
  <1>7. PreparedShape' /\ RecoveryShape' BY <1>1 DEF TypeInv, PreparedShape, RecoveryShape
  <1> QED BY <1>3, <1>4, <1>5, <1>6, <1>7 DEF TypeInv

-----------------------------------------------------------------------------
(* The theorem. *)

LEMMA TypeInvNext == TypeInv /\ [Next]_vars => TypeInv'
  <1> SUFFICES ASSUME TypeInv, [Next]_vars PROVE TypeInv' OBVIOUS
  <1>1. CASE UNCHANGED vars
    BY <1>1 DEF vars, TypeInv, DiskOK, TxOK, Sound, WritersOK, LaneHeld, CallShape, OthersOK,
                PreparedShape, RecoveryShape
  <1>2. CASE (\E r \in Readers : Read(r)) \/ Replenish BY <1>2, TRead
  <1>3. ASSUME NEW w \in Writers, \E o \in Ops, i \in Inputs : Call(w, o, i) \/ AnswerFromLedger(w, o, i)
        PROVE  TypeInv'
    BY <1>3, TCall, TAnswerFromLedger
  <1>4. ASSUME NEW w \in Writers, Step(w) PROVE TypeInv'
    BY <1>4, TAcquire, TGiveUp, TRefuse, TGoOn, TReplay, TBegin, TWriteIntent, TStage, TPrepare,
       TSwapPointer, TCommit, TWriteLedger, TMaterialize, TComplete, TRemoveTx, TRestore, TDiscard,
       TCloseFailed, TDismiss, TForwardMaterialize, TForwardLedger, TCloseRecovered, TBackDiscard,
       TSettleLedger, TSweep, TCollectGarbage
       DEF Step
  <1>5. ASSUME NEW w \in Writers, Fail(w) PROVE TypeInv'
    BY <1>5, TFailIntent, TFailPhase, TFailRestore, TFailClose, TFailRecovery DEF Fail
  <1>6. ASSUME NEW w \in Writers, Crash(w) PROVE TypeInv' BY <1>6, TCrash
  <1> QED BY <1>1, <1>2, <1>3, <1>4, <1>5, <1>6 DEF Next

\* No cut between the steps of a mutation, of abort() or of a recovery pass, and no
\* crash or I/O error whatever it strikes, leaves a variable outside its type.
THEOREM TypeCorrect == Spec => []TypeOK
  <1>1. Init => TypeInv BY TInit
  <1>2. TypeInv /\ [Next]_vars => TypeInv' BY TypeInvNext
  <1>3. TypeInv => TypeOK BY TypeInvType
  <1> QED BY <1>1, <1>2, <1>3, PTL DEF Spec

-----------------------------------------------------------------------------
(* PointerResolves: whatever is staged, swapped, undone, recovered and       *)
(* collected, the pointer selects a generation that exists.  abort() ignores *)
(* the result of restoring the pointer, so this needs that write to succeed. *)

RestoreSucceeds == "restore" \notin FaultPoints

\* What a writer relies on at the steps that select or remove a generation.
Relying == {"intent", "stage", "prepare", "swap", "discard", "restore", "back-discard"} \cup AfterSwap

Here(w) ==
  \* nobody moved the pointer since the check, or abort() moved it back
  /\ pc[w] \in {"intent", "stage", "prepare", "swap", "discard"} => pointer.gen = call[w].expected
  \* the generation about to be selected exists
  /\ pc[w] \in {"prepare", "swap"} => call[w].gen \in dirs
  \* so does the one abort() would go back to
  /\ pc[w] \in AfterSwap \cup {"restore"} => call[w].expected \in dirs
  \* rolling back removes a generation the pointer does not select
  /\ pc[w] = "back-discard" /\ "prepared" \in Mending.phases => Mending.gen # pointer.gen

\* A prepared generation is not its own parent.
Fresh(t) == "prepared" \in t.phases => t.gen # t.parent

AllFresh == \A o \in Ops : Fresh(tx[o])

ResolveInv == TypeInv /\ PointerResolves /\ AllFresh /\ \A w \in Writers : Here(w)

LEMMA ResolveInit == Init => ResolveInv
  <1> SUFFICES ASSUME Init PROVE ResolveInv OBVIOUS
  <1>1. TypeInv BY TInit
  <1>2. PointerResolves BY DEF Init, PointerResolves
  <1>3. AllFresh BY DEF Init, AllFresh, Fresh, NoTx
  <1>4. \A w \in Writers : Here(w) BY DEF Init, Here, AfterSwap
  <1> QED BY <1>1, <1>2, <1>3, <1>4 DEF ResolveInv

-----------------------------------------------------------------------------
(* Journals stay fresh. *)

LEMMA FreshStep ==
  ASSUME TxOK, AllFresh, NEW o \in Ops, NEW t, Fresh(t), tx' = [tx EXCEPT ![o] = t]
  PROVE  AllFresh'
  <1>1. Fresh(tx'[o]) BY JournalStep DEF TxOK
  <1>2. \A p \in Ops : p # o => Fresh(tx'[p]) BY JournalStep DEF TxOK, AllFresh
  <1>3. \A p \in Ops : Fresh(tx'[p]) BY <1>1, <1>2
  <1> QED BY <1>3 DEF AllFresh, Fresh

LEMMA PartlyRemovedFresh ==
  ASSUME NEW t \in TxRecords, Fresh(t), NEW u \in PartlyRemoved(t)
  PROVE  Fresh(u)
  BY DEF PartlyRemoved, Fresh, TxRecords, NoTx

LEMMA RemoveFresh ==
  ASSUME TxOK, AllFresh, NEW w \in Writers, NEW o \in Ops, Remove(w, o)
  PROVE  AllFresh'
  <1>1. PICK t \in PartlyRemoved(tx[o]) : tx' = [tx EXCEPT ![o] = t] BY DEF Remove, PartlyRemoved
  <1>2. Fresh(t) BY <1>1, PartlyRemovedFresh DEF TxOK, AllFresh
  <1> QED BY <1>1, <1>2, FreshStep

-----------------------------------------------------------------------------
(* Steps after which the writer relies on nothing. *)

LEMMA Quiet ==
  ASSUME ResolveInv, TypeInv', NEW w \in Writers, NEW there, there \notin Relying, Go(w, there),
         UNCHANGED <<pointer, dirs>>, AllFresh',
         \A v \in Writers : v # w => call'[v] = call[v],
         lane # w => UNCHANGED <<tx, recovery>>
  PROVE  ResolveInv'
  <1>1. pc \in [Writers -> PcValues] BY DEF ResolveInv, TypeInv, WritersOK
  <1>2. pc'[w] = there /\ \A v \in Writers : v # w => pc'[v] = pc[v] BY <1>1 DEF Go
  <1>3. PointerResolves' BY DEF ResolveInv, PointerResolves
  <1>4. Here(w)' BY <1>2 DEF Here, Relying
  <1>5. ASSUME NEW v \in Writers, v # w PROVE Here(v)'
    <2>1. CASE pc[v] \in {"idle", "lane"} BY <1>2, <1>5, <2>1 DEF Here, AfterSwap
    <2>2. CASE pc[v] \notin {"idle", "lane"}
      <3>1. lane = v BY <2>2 DEF ResolveInv, TypeInv, WritersOK, LaneHeld
      <3>2. UNCHANGED <<pointer, dirs, tx, recovery>> /\ call'[v] = call[v] /\ pc'[v] = pc[v]
        BY <1>2, <1>5, <3>1
      <3> QED BY <3>2 DEF ResolveInv, Here, Mending
    <2> QED BY <2>1, <2>2
  <1> QED BY <1>3, <1>4, <1>5 DEF ResolveInv

\* The same for a step that ends the call.
LEMMA QuietLeave ==
  ASSUME ResolveInv, TypeInv', NEW w \in Writers, pc[w] \notin {"idle", "lane"}, Leave(w),
         UNCHANGED <<pointer, dirs>>, AllFresh'
  PROVE  ResolveInv'
  <1>1. lane = w BY DEF ResolveInv, TypeInv, WritersOK, LaneHeld
  <1>2. \A v \in Writers : v # w => call'[v] = call[v] BY DEF Leave, ResolveInv, TypeInv, WritersOK
  <1>3. "idle" \notin Relying BY DEF Relying, AfterSwap
  <1> QED BY <1>1, <1>2, <1>3, Quiet DEF Leave

\* A step of the lane holder that does rely on something: nobody else does.
LEMMA Holder ==
  ASSUME ResolveInv, TypeInv', NEW w \in Writers, pc[w] \notin {"idle", "lane"}, NEW there, Go(w, there),
         pointer'.gen \in dirs', AllFresh', pc'[w] = there => Here(w)'
  PROVE  ResolveInv'
  <1>1. pc \in [Writers -> PcValues] BY DEF ResolveInv, TypeInv, WritersOK
  <1>2. pc'[w] = there /\ \A v \in Writers : v # w => pc'[v] = pc[v] BY <1>1 DEF Go
  <1>3. ASSUME NEW v \in Writers, v # w PROVE Here(v)'
    <2>1. pc'[v] \in {"idle", "lane"} BY <1>2, <1>3 DEF ResolveInv, TypeInv, WritersOK, LaneHeld
    <2> QED BY <2>1 DEF Here, AfterSwap
  <1> QED BY <1>2, <1>3 DEF ResolveInv, PointerResolves

-----------------------------------------------------------------------------
(* The steps. *)

\* Every step that is neither part of a mutation past its check, nor of abort(), nor
\* of rolling back or collecting garbage.
LEMMA RQuietRefuse ==
  ASSUME ResolveInv, TypeInv', NEW w \in Writers,
         RefuseDepleted(w) \/ Conflict(w) \/ Replay(w) \/ RefuseReuse(w) \/ RefuseJournal(w)
           \/ Unwind(w) \/ FailIntent(w)
  PROVE  ResolveInv'
  <1>1. pc[w] \notin {"idle", "lane"} /\ Leave(w) /\ UNCHANGED <<pointer, dirs, tx>>
    BY DEF RefuseDepleted, Conflict, Replay, RefuseReuse, RefuseJournal, Unwind, FailIntent,
           MayFault, At, disk
  <1>2. AllFresh' BY <1>1 DEF ResolveInv, AllFresh, Fresh
  <1> QED BY <1>1, <1>2, QuietLeave

LEMMA RQuietRemove ==
  ASSUME ResolveInv, TypeInv', NEW w \in Writers, RemoveTx(w) \/ Dismiss(w)
  PROVE  ResolveInv'
  <1>1. /\ pc[w] \notin {"idle", "lane"} /\ Leave(w) /\ UNCHANGED <<pointer, dirs>>
        /\ Remove(w, call[w].op)
    BY DEF RemoveTx, Dismiss, At, files
  <1>2. call[w].op \in Ops BY <1>1, TEnough DEF ResolveInv
  <1>3. AllFresh' BY <1>1, <1>2, RemoveFresh DEF ResolveInv, TypeInv
  <1> QED BY <1>1, <1>3, QuietLeave

LEMMA RQuietMove ==
  ASSUME ResolveInv, TypeInv', NEW w \in Writers,
         \/ Enter(w) \/ RecoverStick(w) \/ RecoverForward(w) \/ RecoverSettle(w) \/ RecoverPanic(w)
         \/ ForwardMaterialize(w) \/ ForwardLedger(w) \/ SettleLedger(w)
         \/ FailDiscard(w) \/ FailClose(w) \/ FailRecovery(w)
  PROVE  ResolveInv'
  <1>1. /\ pc[w] \notin {"idle", "lane"} /\ UNCHANGED <<pointer, dirs, tx, call>>
        /\ \E there \in {"check", "recover", "forward-materialize", "settle-ledger", "panic",
                         "forward-ledger", "forward-close", "sweep", "fail", "dismiss"} : Go(w, there)
    BY DEF Enter, RecoverStick, RecoverForward, RecoverSettle, RecoverPanic, ForwardMaterialize,
           ForwardLedger, SettleLedger, FailDiscard, FailClose, FailRecovery, MayFault, Take, Stick, At, disk, files
  <1>2. AllFresh' BY <1>1 DEF ResolveInv, AllFresh, Fresh
  <1>3. lane = w BY <1>1 DEF ResolveInv, TypeInv, WritersOK, LaneHeld
  <1> QED BY <1>1, <1>2, <1>3, Quiet DEF Relying, AfterSwap

LEMMA RQuietJournal ==
  ASSUME ResolveInv, TypeInv', NEW w \in Writers,
         Complete(w) \/ CloseFailed(w) \/ ForwardClose(w) \/ BackClose(w) \/ Sweep(w)
  PROVE  ResolveInv'
  <1>1. /\ pc[w] \notin {"idle", "lane"} /\ UNCHANGED <<pointer, dirs, call>>
        /\ \E there \in {"remove", "dismiss", "sweep", "recover"} : Go(w, there)
    BY DEF Complete, CloseFailed, ForwardClose, BackClose, Sweep, At, files
  <1>2. lane = w BY <1>1 DEF ResolveInv, TypeInv, WritersOK, LaneHeld
  <1>3. AllFresh'
    <2>1. CASE Complete(w)
      <3>1. tx' = [tx EXCEPT ![call[w].op] = Closed(tx[call[w].op], "success")]
        BY <2>1 DEF Complete, Journal, Mine
      <3>2. Fresh(Closed(tx[call[w].op], "success"))
        BY <1>1, TEnough DEF ResolveInv, AllFresh, Fresh, Closed
      <3> QED BY <1>1, <3>1, <3>2, TEnough, FreshStep DEF ResolveInv, TypeInv
    <2>2. CASE CloseFailed(w)
      <3>1. tx' = [tx EXCEPT ![call[w].op] = Aborted(tx[call[w].op], call[w].gen, call[w].expected)]
        BY <2>2 DEF CloseFailed, Journal, Mine
      <3>2. call[w].gen # call[w].expected
        BY <1>1, TEnough, StoreAssumption DEF ResolveInv, Generations
      <3>3. Fresh(Aborted(tx[call[w].op], call[w].gen, call[w].expected))
        BY <3>2 DEF Fresh, Aborted
      <3> QED BY <1>1, <3>1, <3>3, TEnough, FreshStep DEF ResolveInv, TypeInv
    <2>3. CASE ForwardClose(w) \/ BackClose(w)
      <3>1. PICK result : tx' = [tx EXCEPT ![recovery.op] = Closed(Mending, result)]
        BY <2>3 DEF ForwardClose, BackClose
      <3>2. recovery.op \in Ops
        BY <2>3, TMending DEF ForwardClose, BackClose, At, Settling, Forward, ResolveInv
      <3>3. Fresh(Closed(Mending, result))
        BY <3>2 DEF ResolveInv, AllFresh, Fresh, Closed, Mending
      <3> QED BY <3>1, <3>2, <3>3, FreshStep DEF ResolveInv, TypeInv
    <2>4. CASE Sweep(w)
      <3>1. recovery.op \in Ops /\ Remove(w, recovery.op)
        BY <2>4, TMending DEF Sweep, At, Settling, ResolveInv
      <3> QED BY <3>1, RemoveFresh DEF ResolveInv, TypeInv
    <2> QED BY <1>1, <2>1, <2>2, <2>3, <2>4
  <1> QED BY <1>1, <1>2, <1>3, Quiet DEF Relying, AfterSwap

LEMMA RQuietLane ==
  ASSUME ResolveInv, TypeInv', NEW w \in Writers,
         (\E o \in Ops, i \in Inputs : Call(w, o, i)) \/ Acquire(w) \/ GiveUp(w)
  PROVE  ResolveInv'
  <1>1. /\ UNCHANGED <<pointer, dirs, tx, recovery>>
        /\ \E there \in {"lane", "entered", "idle"} : Go(w, there)
        /\ \/ UNCHANGED call
           \/ \E c : call' = [call EXCEPT ![w] = c]
    BY DEF Call, Acquire, GiveUp, disk
  <1>2. \A v \in Writers : v # w => call'[v] = call[v]
    BY <1>1 DEF ResolveInv, TypeInv, WritersOK
  <1>3. AllFresh' BY <1>1 DEF ResolveInv, AllFresh, Fresh
  <1> QED BY <1>1, <1>2, <1>3, Quiet DEF Relying, AfterSwap

LEMMA RCrash == ASSUME ResolveInv, TypeInv', NEW w \in Writers, Crash(w) PROVE ResolveInv'
  <1>1. /\ pc[w] # "idle" /\ Go(w, "idle") /\ call' = [call EXCEPT ![w] = NoCall]
        /\ UNCHANGED <<pointer, dirs>> /\ (lane # w => UNCHANGED recovery)
    BY DEF Crash, At, files
  <1>2. \A v \in Writers : v # w => call'[v] = call[v]
    BY <1>1 DEF ResolveInv, TypeInv, WritersOK
  <1>3. AllFresh' /\ (lane # w => UNCHANGED tx)
    <2>1. CASE pc[w] \notin Removing
      BY <2>1 DEF Crash, ResolveInv, AllFresh, Fresh
    <2>2. CASE pc[w] \in Removing
      <3> DEFINE o == IF At(w, "sweep") THEN recovery.op ELSE call[w].op
      <3>1. PICK t \in PartlyRemoved(tx[o]) : tx' = [tx EXCEPT ![o] = t] BY <2>2 DEF Crash
      <3>2. o \in Ops
        BY <1>1, <2>2, TEnough DEF At, Removing, ResolveInv, TypeInv, RecoveryShape, Settling
      <3>3. Fresh(t) BY <3>1, <3>2, PartlyRemovedFresh DEF ResolveInv, TypeInv, TxOK, AllFresh
      <3> HIDE DEF o
      <3>4. AllFresh' BY <3>1, <3>2, <3>3, FreshStep DEF ResolveInv, TypeInv
      <3>5. lane = w BY <2>2 DEF Removing, ResolveInv, TypeInv, WritersOK, LaneHeld
      <3> QED BY <3>4, <3>5
    <2> QED BY <2>1, <2>2
  <1> QED BY <1>1, <1>2, <1>3, Quiet DEF Relying, AfterSwap

\* From the check to the swap nobody else moves the pointer.
LEMMA RBeforeSwap ==
  ASSUME ResolveInv, TypeInv', NEW w \in Writers,
         Begin(w) \/ WriteIntent(w) \/ Stage(w) \/ StageMissing(w) \/ Prepare(w)
  PROVE  ResolveInv'
  <1> DEFINE o == call[w].op
  <1>1. /\ pc[w] \notin {"idle", "lane"} /\ UNCHANGED <<pointer, call>>
        /\ dirs' = dirs \/ dirs' = dirs \cup {call[w].gen}
        /\ \/ Begin(w) /\ Go(w, "intent")
           \/ WriteIntent(w) /\ Go(w, "stage")
           \/ Stage(w) /\ Go(w, "prepare")
           \/ StageMissing(w) /\ Go(w, "discard")
           \/ Prepare(w) /\ Go(w, "swap")
    BY DEF Begin, WriteIntent, Stage, StageMissing, Prepare, At, disk, files
  <1>2. pointer.gen = call[w].expected
    BY DEF Begin, WriteIntent, Stage, StageMissing, Prepare, At, ResolveInv, Here
  <1>3. pointer.gen # call[w].gen /\ o \in Ops
    BY <1>1, <1>2, TEnough, StoreAssumption DEF ResolveInv, Generations
  <1>4. pointer'.gen \in dirs' BY <1>1 DEF ResolveInv, PointerResolves
  <1>5. AllFresh'
    <2>1. CASE Begin(w)
      <3>1. tx' = [tx EXCEPT ![o] = [NoTx EXCEPT !.dir = TRUE]] BY <2>1 DEF Begin
      <3>2. Fresh([NoTx EXCEPT !.dir = TRUE]) BY DEF Fresh, NoTx
      <3> QED BY <1>3, <3>1, <3>2, FreshStep DEF ResolveInv, TypeInv
    <2>2. CASE WriteIntent(w)
      <3>1. tx' = [tx EXCEPT ![o] = [tx[o] EXCEPT !.phases = {"intent"}]]
        BY <2>2 DEF WriteIntent, Journal, Mine
      <3>2. Fresh([tx[o] EXCEPT !.phases = {"intent"}])
        BY <1>1, TEnough DEF Fresh, ResolveInv, TxRecords
      <3> QED BY <1>3, <3>1, <3>2, FreshStep DEF ResolveInv, TypeInv
    <2>3. CASE Prepare(w)
      <3>1. tx' = [tx EXCEPT ![o] = Prepared(tx[o], call[w].gen, pointer.gen, call[w].input)]
        BY <2>3 DEF Prepare, Journal, Mine
      <3>2. Fresh(Prepared(tx[o], call[w].gen, pointer.gen, call[w].input))
        BY <1>3 DEF Fresh, Prepared
      <3> QED BY <1>3, <3>1, <3>2, FreshStep DEF ResolveInv, TypeInv
    <2>4. CASE Stage(w) \/ StageMissing(w)
      BY <2>4 DEF Stage, StageMissing, disk, ResolveInv, AllFresh, Fresh
    <2> QED BY <2>1, <2>2, <2>3, <2>4
  <1>6. pc'[w] \in {"prepare", "swap"} => call[w].gen \in dirs'
    <2>1. Stage(w) => call[w].gen \in dirs' BY DEF Stage
    <2>2. Prepare(w) => call[w].gen \in dirs'
      BY DEF Prepare, At, ResolveInv, Here, files
    <2>3. pc \in [Writers -> PcValues] BY DEF ResolveInv, TypeInv, WritersOK
    <2> QED BY <1>1, <2>1, <2>2, <2>3 DEF Go
  <1>7. ASSUME NEW there \in {"intent", "stage", "prepare", "discard", "swap"}, pc'[w] = there
        PROVE  Here(w)'
    BY <1>1, <1>2, <1>6, <1>7 DEF Here, AfterSwap
  <1> QED BY <1>1, <1>4, <1>5, <1>7, Holder

\* Until the completed record abort() can go back to the parent.
LEMMA RAfterSwap ==
  ASSUME ResolveInv, TypeInv', NEW w \in Writers,
         SwapPointer(w) \/ Commit(w) \/ WriteLedger(w) \/ Materialize(w)
  PROVE  ResolveInv'
  <1>1. /\ pc[w] \notin {"idle", "lane"} /\ UNCHANGED <<dirs, call>>
        /\ \E there \in {"commit", "ledger", "materialize", "complete"} : Go(w, there)
    BY DEF SwapPointer, Commit, WriteLedger, Materialize, At, files
  <1>2. pointer'.gen \in dirs' /\ call[w].expected \in dirs'
    <2>1. CASE SwapPointer(w)
      <3>1. pointer' = Selecting(call[w].gen, call[w].op \in SaveOps) /\ pc[w] = "swap"
        BY <2>1 DEF SwapPointer, At
      <3>2. pointer'.gen = call[w].gen
        BY <1>1, <3>1, TEnough, TSelecting DEF ResolveInv, TypeInv
      <3> QED BY <1>1, <3>1, <3>2 DEF ResolveInv, PointerResolves, Here
    <2>2. CASE Commit(w) \/ WriteLedger(w) \/ Materialize(w)
      BY <1>1, <2>2 DEF Commit, WriteLedger, Materialize, At, files, ResolveInv, PointerResolves,
                        Here, AfterSwap
    <2> QED BY <2>1, <2>2
  <1>3. AllFresh'
    <2>1. CASE Commit(w)
      <3> DEFINE o == call[w].op
      <3>1. tx' = [tx EXCEPT ![o] = [tx[o] EXCEPT !.phases = @ \cup {"committed"}]]
        BY <2>1 DEF Commit, Journal, Mine
      <3>2. o \in Ops /\ tx[o] \in TxRecords BY <1>1, TEnough DEF ResolveInv
      <3>3. Fresh([tx[o] EXCEPT !.phases = @ \cup {"committed"}])
        BY <3>2 DEF Fresh, ResolveInv, AllFresh, TxRecords
      <3> QED BY <3>1, <3>2, <3>3, FreshStep DEF ResolveInv, TypeInv
    <2>2. CASE SwapPointer(w) \/ WriteLedger(w) \/ Materialize(w)
      BY <2>2 DEF SwapPointer, WriteLedger, Materialize, ResolveInv, AllFresh, Fresh
    <2> QED BY <2>1, <2>2
  <1>4. ASSUME NEW there \in {"commit", "ledger", "materialize", "complete"}, pc'[w] = there
        PROVE  Here(w)'
    BY <1>1, <1>2, <1>4 DEF Here, AfterSwap
  <1> QED BY <1>1, <1>2, <1>3, <1>4, Holder

\* abort() undoes the pointer before it removes the generation.
LEMMA RAbort ==
  ASSUME ResolveInv, TypeInv', RestoreSucceeds, NEW w \in Writers,
         FailPhase(w) \/ Restore(w) \/ FailRestore(w)
  PROVE  ResolveInv'
  <1>1. ~FailRestore(w) BY DEF RestoreSucceeds, FailRestore, MayFault
  <1>2. /\ pc[w] \notin {"idle", "lane"} /\ UNCHANGED <<dirs, tx, call>>
    BY <1>1 DEF FailPhase, Restore, MayFault, At, files, BeforeSwap, AfterSwap
  <1>3. AllFresh' BY <1>2 DEF ResolveInv, AllFresh, Fresh
  <1>4. CASE FailPhase(w)
    <2>1. PICK point \in BeforeSwap \cup AfterSwap :
            pc[w] = point /\ Go(w, IF point \in AfterSwap THEN "restore" ELSE "discard")
      BY <1>4 DEF FailPhase, MayFault, At
    <2>2. UNCHANGED pointer BY <1>4 DEF FailPhase
    <2>3. pointer'.gen \in dirs' BY <1>2, <2>2 DEF ResolveInv, PointerResolves
    <2>4. CASE point \in AfterSwap
      <3>1. call[w].expected \in dirs BY <2>1, <2>4 DEF ResolveInv, Here
      <3>2. pc'[w] = "restore" => Here(w)' BY <1>2, <3>1 DEF Here, AfterSwap
      <3> QED BY <1>2, <1>3, <2>1, <2>3, <2>4, <3>2, Holder
    <2>5. CASE point \notin AfterSwap
      <3>1. pointer.gen = call[w].expected
        BY <2>1, <2>5 DEF ResolveInv, Here, BeforeSwap
      <3>2. pc'[w] = "discard" => Here(w)' BY <1>2, <2>2, <3>1 DEF Here, AfterSwap
      <3> QED BY <1>2, <1>3, <2>1, <2>3, <2>5, <3>2, Holder
    <2> QED BY <2>4, <2>5
  <1>5. CASE Restore(w)
    <2>1. pc[w] = "restore" /\ Go(w, "discard") /\ pointer' = Selecting(call[w].expected, FALSE)
      BY <1>5 DEF Restore, At
    <2>2. call[w].expected \in Generations /\ call[w].expected <= calls
      BY <1>2, TEnough, StoreAssumption DEF ResolveInv, Generations, TypeInv, OthersOK
    <2>3. pointer'.gen = call[w].expected
      BY <2>1, <2>2, TSelecting DEF ResolveInv, TypeInv
    <2>4. pointer'.gen \in dirs' BY <1>2, <2>1, <2>3 DEF ResolveInv, Here
    <2>5. pc'[w] = "discard" => Here(w)' BY <1>2, <2>3 DEF Here, AfterSwap
    <2> QED BY <1>2, <1>3, <2>1, <2>4, <2>5, Holder
  <1> QED BY <1>1, <1>4, <1>5

\* The three places that remove generations spare the one the pointer selects.
LEMMA RRemoval ==
  ASSUME ResolveInv, TypeInv', NEW w \in Writers,
         Discard(w) \/ BackDiscard(w) \/ CollectGarbage(w)
  PROVE  ResolveInv'
  <1>1. /\ pc[w] \notin {"idle", "lane"} /\ UNCHANGED <<pointer, tx>>
        /\ \E there \in {"fail", "back-close", "check", "idle"} : Go(w, there)
    BY DEF Discard, BackDiscard, CollectGarbage, Leave, At
  <1>2. AllFresh' BY <1>1 DEF ResolveInv, AllFresh, Fresh
  <1>3. pointer'.gen \in dirs'
    <2>1. CASE Discard(w)
      <3>1. dirs' = dirs \ {call[w].gen} /\ pc[w] = "discard" BY <2>1 DEF Discard, At
      <3>2. pointer.gen = call[w].expected BY <3>1 DEF ResolveInv, Here
      <3>3. pointer.gen # call[w].gen
        BY <1>1, <3>2, TEnough, StoreAssumption DEF ResolveInv, Generations
      <3> QED BY <1>1, <3>1, <3>3 DEF ResolveInv, PointerResolves
    <2>2. CASE BackDiscard(w)
      BY <1>1, <2>2 DEF BackDiscard, At, ResolveInv, PointerResolves, Here
    <2>3. CASE CollectGarbage(w)
      BY <1>1, <2>3 DEF CollectGarbage, ResolveInv, PointerResolves
    <2> QED BY <2>1, <2>2, <2>3
  <1>4. ASSUME NEW there \in {"fail", "back-close", "check", "idle"}, pc'[w] = there PROVE Here(w)'
    BY <1>4 DEF Here, AfterSwap
  <1> QED BY <1>1, <1>2, <1>3, <1>4, Holder

\* Recovery only rolls back a generation the pointer does not select.
LEMMA RRecoverBack == ASSUME ResolveInv, TypeInv', NEW w \in Writers, RecoverBack(w) PROVE ResolveInv'
  <1>1. PICK o \in recovery.todo : IsBack(tx[o]) /\ Take(w, o, "back-discard") BY DEF RecoverBack
  <1>2. /\ pc[w] \notin {"idle", "lane"} /\ Go(w, "back-discard")
        /\ UNCHANGED <<pointer, dirs, tx, call>> /\ recovery' = [recovery EXCEPT !.op = o]
    BY <1>1 DEF RecoverBack, At, Take, disk
  <1>3. o \in Ops /\ recovery'.op = o
    BY <1>1, <1>2 DEF ResolveInv, TypeInv, WritersOK, Recoveries
  <1>4. "prepared" \in tx[o].phases => tx[o].gen # pointer.gen
    BY <1>1, <1>3 DEF IsBack, ResolveInv, AllFresh, Fresh
  <1>5. pc'[w] = "back-discard" => Here(w)' BY <1>2, <1>3, <1>4 DEF Here, Mending, AfterSwap
  <1>6. AllFresh' BY <1>2 DEF ResolveInv, AllFresh, Fresh
  <1>7. pointer'.gen \in dirs' BY <1>2 DEF ResolveInv, PointerResolves
  <1> QED BY <1>2, <1>5, <1>6, <1>7, Holder

-----------------------------------------------------------------------------
(* The theorem. *)

LEMMA ResolveNext == ASSUME RestoreSucceeds PROVE ResolveInv /\ [Next]_vars => ResolveInv'
  <1> SUFFICES ASSUME ResolveInv, [Next]_vars PROVE ResolveInv' OBVIOUS
  <1>1. TypeInv' BY TypeInvNext DEF ResolveInv
  <1>2. CASE UNCHANGED vars
    BY <1>1, <1>2 DEF vars, ResolveInv, PointerResolves, AllFresh, Fresh, Here, Mending
  <1>3. CASE \/ (\E r \in Readers : Read(r)) \/ Replenish
             \/ \E w \in Writers, o \in Ops, i \in Inputs : AnswerFromLedger(w, o, i)
    <2>1. UNCHANGED <<pointer, dirs, tx, pc, call, recovery>>
      BY <1>3 DEF Read, ReadPointer, PinGeneration, Unpin, Replenish, AnswerFromLedger, disk, files
    <2> QED BY <1>1, <2>1 DEF ResolveInv, PointerResolves, AllFresh, Fresh, Here, Mending
  <1>4. ASSUME NEW w \in Writers, \E o \in Ops, i \in Inputs : Call(w, o, i) PROVE ResolveInv'
    BY <1>1, <1>4, RQuietLane
  <1>5. ASSUME NEW w \in Writers, Step(w) PROVE ResolveInv'
    BY <1>1, <1>5, RQuietRefuse, RQuietRemove, RQuietMove, RQuietJournal, RQuietLane, RBeforeSwap,
       RAfterSwap, RAbort, RRemoval, RRecoverBack
       DEF Step
  <1>6. ASSUME NEW w \in Writers, Fail(w) PROVE ResolveInv'
    BY <1>1, <1>6, RQuietRefuse, RQuietMove, RAbort DEF Fail
  <1>7. ASSUME NEW w \in Writers, Crash(w) PROVE ResolveInv' BY <1>1, <1>7, RCrash
  <1> QED BY <1>2, <1>3, <1>4, <1>5, <1>6, <1>7 DEF Next

\* The pointer never dangles: neither a crash between any two steps, nor an I/O error
\* at any step but abort()'s own restore, nor recovery, nor garbage collection leaves
\* it selecting a generation whose directory is gone.
THEOREM Resolves == ASSUME RestoreSucceeds PROVE Spec => []PointerResolves
  <1>1. Init => ResolveInv BY ResolveInit
  <1>2. ResolveInv /\ [Next]_vars => ResolveInv' BY ResolveNext
  <1>3. ResolveInv => PointerResolves BY DEF ResolveInv
  <1> QED BY <1>1, <1>2, <1>3, PTL DEF Spec

-----------------------------------------------------------------------------
(* What the store promises: it implements AtomicDocument, every answer stays *)
(* true, the selected generation carries the record of every edit in it, the *)
(* root is not behind it, nobody reads what is still being written, and no   *)
(* record is taken back.                                                     *)
(*                                                                           *)
(* One inductive invariant carries all of them.  At most one journal is      *)
(* open.  Of the operation it belongs to either everything is done (Done),   *)
(* or nothing is (Undone), or the pointer has moved and recovery can only    *)
(* go forward (Open).                                                        *)

\* The code ignores the errors of these steps: abort() republishing the parent and
\* removing its generation, recovery removing a journal it has settled.
UndoSucceeds == FaultPoints \cap {"restore", "discard", "sweep"} = {}

-----------------------------------------------------------------------------
(* Documents. *)

Edits(g) == content[g]["assets"]
OwnersIn(g) == {owner[h] : h \in Edits(g) \ {0}}
Has(g, o) == \E i \in Inputs : <<o, i>> \in ledger[g]
Mirrored(g) == \A f \in Files : content[g][f] \subseteq root[f]

\* A document: one edit of an operation, with all answered ones, and the record of
\* every edit but perhaps its own.
Readable(g) ==
  /\ g \in dirs /\ g \in Edits(g)
  /\ \A h \in Edits(g) \ {0} :
       /\ owner[h] \in Ops
       /\ \A k \in Edits(g) \ {0} : owner[h] = owner[k] => h = k
       /\ h # g => Has(g, owner[h])
  /\ acked \subseteq OwnersIn(g)
  /\ \A o \in Ops : Has(g, o) => o \in OwnersIn(g)

\* With its own record, and at the root.
Full(g) == Readable(g) /\ (g # 0 => Has(g, owner[g])) /\ Mirrored(g)

\* No directory has a record that g has not, but for an open operation's own.
RowsIn(g) ==
  \A d \in dirs : \A o \in Ops, i \in Inputs :
    <<o, i>> \in ledger[d] => <<o, i>> \in ledger[g] \/ (tx[o].dir /\ tx[o].gen = d)

\* Generation g is e with the edit of o.
Grown(g, e, o) ==
  /\ g # 0 /\ owner[g] = o
  /\ g \notin Edits(e) /\ Edits(g) = {g} \cup Edits(e)
  /\ \A f \in Files : content[e][f] \subseteq content[g][f]
  /\ ledger[e] \subseteq ledger[g] /\ ledger[g] \subseteq ledger[e] \cup ({o} \X Inputs)

-----------------------------------------------------------------------------
(* Journals. *)

Live(t) ==
  /\ t.phases \in {{"intent", "prepared"}, {"intent", "prepared", "committed"}}
  /\ t.outcome # "success"

\* The operation owns the selected generation, which its journal names.
Selected(o) == pointer.gen # 0 /\ owner[pointer.gen] = o /\ tx[o].gen = pointer.gen

Done(o) == Selected(o) /\ Full(pointer.gen)
Open(o) == Selected(o) /\ Live(tx[o])
Undone(o) ==
  /\ Full(pointer.gen)
  /\ o \notin OwnersIn(pointer.gen) /\ tx[o].gen # pointer.gen /\ tx[o].outcome # "success"
  /\ tx[o].gen \in dirs => Live(tx[o])
\* There is nothing left to undo.
Over(o) == Done(o) \/ (Undone(o) /\ tx[o].gen \notin dirs)

JournalsOK ==
  /\ \A o \in Ops : ~tx[o].dir => tx[o] = NoTx
  /\ \A o, q \in Pending : o = q
  /\ \A o \in Pending : Done(o) \/ Open(o) \/ Undone(o)

AtRest ==
  /\ Readable(pointer.gen) /\ RowsIn(pointer.gen)
  /\ Pending = {} => Full(pointer.gen)
  /\ JournalsOK

-----------------------------------------------------------------------------
(* Numbers. *)

Waiting == {"lane", "entered", "check", "intent", "stage", "recover", "panic"} \cup Settling

\* A generation that is not staged yet is nowhere.
Unseen(g) ==
  /\ g \notin dirs /\ g \notin Edits(pointer.gen)
  /\ \A r \in Readers : reader[r].gen # g
  /\ \A o \in Ops : tx[o].gen # g

NumbersOK ==
  /\ dirs \subseteq 0..calls /\ Edits(pointer.gen) \subseteq 0..calls /\ failed \subseteq 0..calls
  /\ \A r \in Readers : reader[r].gen \in 0..calls \cup {None}
  /\ \A o \in Ops : tx[o].gen \in 0..calls \cup {None}
  /\ failed \cap Edits(pointer.gen) = {}
  /\ \A w \in Writers : pc[w] # "idle" => call[w].gen \notin failed
  /\ \A w \in Writers : pc[w] \in Waiting => Unseen(call[w].gen)
  /\ \A v, w \in Writers : v # w /\ pc[v] # "idle" /\ pc[w] # "idle" => call[v].gen # call[w].gen

ReadersOK ==
  \A r \in Readers : reader[r].at # "idle" =>
    \/ reader[r].gen \in Edits(pointer.gen) \/ reader[r].gen \notin dirs
    \/ \E o \in Ops : tx[o].gen = reader[r].gen /\ "prepared" \in tx[o].phases

-----------------------------------------------------------------------------
(* Where a writer stands. *)

Unswapped == {"intent", "stage", "prepare", "swap", "discard", "fail", "dismiss"}
Mutating == Unswapped \cup Undecided \cup {"remove"}
Recovering == {"recover", "panic"} \cup Settling

\* The pointer has moved from e to g, and could be moved back.
Moved(o, g, e) ==
  /\ pointer.gen = g /\ tx[o].gen = g /\ Live(tx[o])
  /\ Full(e) /\ RowsIn(e) /\ Grown(g, e, o) /\ o \notin OwnersIn(e)

MutatingOK(w) ==
  LET o == call[w].op
      g == call[w].gen
      e == call[w].expected
      t == tx[o]
  IN
  /\ pc[w] \in Mutating => Pending = {o}
  /\ pc[w] \in Unswapped => Undone(o) /\ g \notin Edits(pointer.gen)
  /\ pc[w] \in {"intent", "stage", "prepare"} => t.gen = None
  /\ pc[w] \in {"stage", "prepare"} => t.phases = {"intent"}
  /\ pc[w] \in {"prepare", "swap"} => Grown(g, pointer.gen, o)
  /\ pc[w] = "swap" => Live(t) /\ t.gen = g
  /\ pc[w] = "discard" => t.gen \in {None, g}
  /\ pc[w] \in {"fail", "dismiss"} => g \notin dirs /\ t.gen \notin dirs
  /\ pc[w] \in Undecided => Moved(o, g, e)
  /\ pc[w] \in {"materialize", "complete"} => Has(g, o)
  /\ pc[w] = "complete" => Mirrored(g)
  /\ pc[w] = "remove" => Done(o)

RecoveringOK(w) ==
  LET o == recovery.op
  IN
  /\ pc[w] = "check" => Pending = {}
  /\ pc[w] \in Recovering => /\ recovery.todo \subseteq Pending
                             /\ ~recovery.stuck => Pending \subseteq recovery.todo
  /\ pc[w] \in Settling => o \in recovery.todo
  /\ pc[w] \in Forward => Selected(o)
  /\ pc[w] \in {"forward-ledger", "forward-close"} => Mirrored(pointer.gen)
  /\ pc[w] = "forward-close" => Has(pointer.gen, o)
  /\ pc[w] = "back-discard" => Undone(o) \/ (Done(o) /\ "prepared" \notin tx[o].phases)
  /\ pc[w] \in {"back-close", "settle-ledger", "sweep"} => Over(o)

WhereTheyStand == \A w \in Writers : MutatingOK(w) /\ RecoveringOK(w)

Standing == AtRest /\ NumbersOK /\ ReadersOK /\ WhereTheyStand

Promise == ResolveInv /\ Standing
-----------------------------------------------------------------------------
(* Documents that a step leaves alone, or adds to. *)

LEMMA ReadableKept ==
  ASSUME NEW g \in Generations, Readable(g), g \in dirs', content'[g] = content[g],
         \A h \in Edits(g) : owner'[h] = owner[h],
         ledger[g] \subseteq ledger'[g],
         \A o \in Ops, i \in Inputs : <<o, i>> \in ledger'[g] => <<o, i>> \in ledger[g] \/ o \in OwnersIn(g),
         acked' \subseteq acked \cup OwnersIn(g)
  PROVE  Readable(g)' /\ OwnersIn(g)' = OwnersIn(g) /\ Edits(g)' = Edits(g)
  <1>1. Edits(g)' = Edits(g) BY DEF Edits
  <1>2. OwnersIn(g)' = OwnersIn(g) BY <1>1 DEF OwnersIn
  <1>3. \A o : Has(g, o) => Has(g, o)' BY DEF Has
  <1>4. \A o \in Ops : Has(g, o)' => Has(g, o) \/ o \in OwnersIn(g) BY DEF Has
  <1>5. acked' \subseteq OwnersIn(g) BY DEF Readable
  <1>6. \A h \in Edits(g) \ {0} :
          /\ owner'[h] \in Ops
          /\ \A k \in Edits(g) \ {0} : owner'[h] = owner'[k] => h = k
          /\ h # g => Has(g, owner[h])'
    BY <1>3 DEF Readable
  <1>7. \A h \in Edits(g) \ {0} : h # g => Has(g, owner[h])' /\ owner'[h] = owner[h] BY <1>6
  <1>8. \A o \in Ops : Has(g, o)' => o \in OwnersIn(g) BY <1>4 DEF Readable
  <1>9. g \in Edits(g) BY DEF Readable
  <1> QED BY <1>1, <1>2, <1>5, <1>6, <1>7, <1>8, <1>9 DEF Readable, Has

LEMMA FullKept ==
  ASSUME NEW g \in Generations, Full(g), g \in dirs', content'[g] = content[g],
         \A h \in Edits(g) : owner'[h] = owner[h],
         ledger[g] \subseteq ledger'[g],
         \A o \in Ops, i \in Inputs : <<o, i>> \in ledger'[g] => <<o, i>> \in ledger[g] \/ o \in OwnersIn(g),
         acked' \subseteq acked \cup OwnersIn(g),
         \A f \in Files : content[g][f] \subseteq root'[f]
  PROVE  Full(g)' /\ OwnersIn(g)' = OwnersIn(g) /\ Edits(g)' = Edits(g)
  <1>1. Readable(g)' /\ OwnersIn(g)' = OwnersIn(g) /\ Edits(g)' = Edits(g)
    BY ReadableKept DEF Full
  <1>2. Mirrored(g)' BY DEF Mirrored
  <1>3. g # 0 => Has(g, owner[g]) BY DEF Full
  <1>4. g # 0 => Has(g, owner[g])' BY <1>3 DEF Has, Full, Readable
  <1> QED BY <1>1, <1>2, <1>4 DEF Full, Has

\* A document that grew out of a full one by an operation's edit.
LEMMA GrownIsReadable ==
  ASSUME TypeInv, NEW g \in Generations, NEW e \in Generations, NEW o \in Ops,
         Full(e), Grown(g, e, o), o \notin OwnersIn(e), g \in dirs
  PROVE  /\ Readable(g) /\ OwnersIn(g) = OwnersIn(e) \cup {o}
         /\ Mirrored(g) /\ Has(g, o) => Full(g)
  <1>1. Edits(g) \ {0} = {g} \cup (Edits(e) \ {0}) /\ g \notin Edits(e) /\ owner[g] = o /\ g # 0
    BY DEF Grown
  <1>2. OwnersIn(g) = OwnersIn(e) \cup {o} BY <1>1 DEF OwnersIn
  <1>3. \A h \in Edits(e) \ {0} : owner[h] # o BY DEF OwnersIn
  <1>4. \A q : Has(e, q) => Has(g, q) BY DEF Has, Grown
  <1>5. \A q \in Ops : Has(g, q) => Has(e, q) \/ q = o BY DEF Has, Grown
  <1>6. \A h \in Edits(e) \ {0} : Has(e, owner[h]) BY DEF Full, Readable
  <1>7. \A h \in Edits(g) \ {0} :
          /\ owner[h] \in Ops
          /\ \A k \in Edits(g) \ {0} : owner[h] = owner[k] => h = k
          /\ h # g => Has(g, owner[h])
    BY <1>1, <1>3, <1>4, <1>6 DEF Full, Readable
  <1>8. acked \subseteq OwnersIn(g) BY <1>2 DEF Full, Readable
  <1>9. \A q \in Ops : Has(g, q) => q \in OwnersIn(g) BY <1>2, <1>5 DEF Full, Readable
  <1> QED BY <1>1, <1>2, <1>7, <1>8, <1>9 DEF Full, Readable

-----------------------------------------------------------------------------
(* Only the lane holder stands anywhere. *)

LEMMA Elsewhere ==
  ASSUME NEW w \in Writers, pc[w] \in {"idle", "lane"}
  PROVE  MutatingOK(w) /\ RecoveringOK(w)
  BY DEF MutatingOK, RecoveringOK, Mutating, Unswapped, Undecided, AfterSwap, Recovering, Settling,
         Forward

LEMMA HolderStands ==
  ASSUME TypeInv, NEW w \in Writers, pc[w] \notin {"idle", "lane"}, NEW there, Go(w, there),
         (MutatingOK(w) /\ RecoveringOK(w))'
  PROVE  WhereTheyStand'
  <1>1. pc \in [Writers -> PcValues] BY DEF TypeInv, WritersOK
  <1>2. ASSUME NEW v \in Writers, v # w PROVE (MutatingOK(v) /\ RecoveringOK(v))'
    <2>1. pc'[v] \in {"idle", "lane"} BY <1>1, <1>2 DEF Go, TypeInv, WritersOK, LaneHeld
    <2> QED BY <2>1 DEF MutatingOK, RecoveringOK, Mutating, Unswapped, Undecided, AfterSwap,
                        Recovering, Settling, Forward
  <1> QED BY <1>2 DEF WhereTheyStand

LEMMA HolderLeaves ==
  ASSUME TypeInv, NEW w \in Writers, pc[w] \notin {"idle", "lane"}, Go(w, "idle")
  PROVE  WhereTheyStand'
  <1>1. pc \in [Writers -> PcValues] BY DEF TypeInv, WritersOK
  <1>2. pc'[w] = "idle" BY <1>1 DEF Go
  <1>3. (MutatingOK(w) /\ RecoveringOK(w))'
    BY <1>2 DEF MutatingOK, RecoveringOK, Mutating, Unswapped, Undecided, AfterSwap,
                Recovering, Settling, Forward
  <1> QED BY <1>3, HolderStands

-----------------------------------------------------------------------------
(* Numbers. *)

\* A step of w adds nothing anywhere but its own generation, and that only when it
\* is not waiting any more.
LEMMA NumbersStep ==
  ASSUME TypeInv, TypeInv', NumbersOK, NEW w \in Writers, pc[w] # "idle",
         calls' = calls, NEW there, Go(w, there),
         \A v \in Writers : v # w => call'[v] = call[v],
         call'[w] = call[w] \/ there = "idle",
         dirs' \subseteq dirs \cup {call[w].gen},
         Edits(pointer.gen)' \subseteq Edits(pointer.gen) \cup {call[w].gen},
         failed' \subseteq failed \cup {call[w].gen},
         \A o \in Ops : tx'[o].gen \in {tx[o].gen, call[w].gen, None},
         \A r \in Readers : reader'[r].gen \in {reader[r].gen, None} \cup dirs,
         there \in Waiting =>
           /\ pc[w] \in Waiting /\ dirs' \subseteq dirs
           /\ Edits(pointer.gen)' \subseteq Edits(pointer.gen)
           /\ \A o \in Ops : tx'[o].gen \in {tx[o].gen, None},
         there # "idle" => failed' = failed,
         \/ failed' = failed
         \/ /\ Edits(pointer.gen)' \subseteq Edits(pointer.gen)
            /\ call[w].gen \notin Edits(pointer.gen)
  PROVE  NumbersOK'
  <1> DEFINE g == call[w].gen
             E == Edits(pointer.gen)
             F == Edits(pointer.gen)'
  <1>1. g \in Generations /\ g \in 0..calls /\ calls \in Nat
    BY StoreAssumption DEF TypeInv, WritersOK, CallShape, OthersOK, Generations
  <1>2. pc'[w] = there /\ \A v \in Writers : v # w => pc'[v] = pc[v]
    BY DEF Go, TypeInv, WritersOK
  <1>3. g \notin failed BY DEF NumbersOK
  <1>4. dirs' \subseteq 0..calls /\ F \subseteq 0..calls /\ failed' \subseteq 0..calls
    BY <1>1 DEF NumbersOK
  <1>5. \A r \in Readers : reader'[r].gen \in 0..calls \cup {None} BY DEF NumbersOK
  <1>6. \A o \in Ops : tx'[o].gen \in 0..calls \cup {None} BY <1>1 DEF NumbersOK
  <1>7. failed' \cap F = {} BY <1>3 DEF NumbersOK
  <1>8. ASSUME NEW v \in Writers, pc'[v] # "idle" PROVE call'[v].gen \notin failed'
    <2>1. CASE v = w BY <1>2, <1>3, <1>8, <2>1
    <2>2. CASE v # w
      <3>1. pc[v] # "idle" /\ call'[v] = call[v] BY <1>2, <1>8, <2>2
      <3>2. call[v].gen # g /\ call[v].gen \notin failed BY <2>2, <3>1 DEF NumbersOK
      <3> QED BY <3>1, <3>2
    <2> QED BY <2>1, <2>2
  <1>9. ASSUME NEW v \in Writers, pc'[v] \in Waiting
        PROVE  /\ call'[v].gen \notin dirs' /\ call'[v].gen \notin F
               /\ \A r \in Readers : reader'[r].gen # call'[v].gen
               /\ \A o \in Ops : tx'[o].gen # call'[v].gen
    <2>0. "idle" \notin Waiting BY DEF Waiting, Settling, Forward
    <2>1. pc[v] \in Waiting /\ call'[v] = call[v] BY <1>2, <1>9, <2>0
    <2>2. Unseen(call[v].gen) BY <2>1 DEF NumbersOK
    <2>3. call[v].gen \in Generations BY <2>0, <2>1 DEF TypeInv, WritersOK, CallShape
    <2>4. call[v].gen # None BY <2>3, StoreAssumption DEF Generations
    <2>5. CASE v = w BY <1>2, <1>9, <2>1, <2>2, <2>4, <2>5 DEF Unseen
    <2>6. CASE v # w
      <3>1. call[v].gen # g BY <2>0, <2>1, <2>6 DEF NumbersOK
      <3> QED BY <2>1, <2>2, <2>4, <3>1 DEF Unseen
    <2> QED BY <2>5, <2>6
  <1>10. ASSUME NEW u \in Writers, NEW v \in Writers, u # v, pc'[u] # "idle", pc'[v] # "idle"
         PROVE  call'[u].gen # call'[v].gen
    BY <1>2, <1>10 DEF NumbersOK
  <1>11. calls' = calls OBVIOUS
  <1> HIDE DEF E
  <1> QED BY <1>4, <1>5, <1>6, <1>7, <1>8, <1>9, <1>10, <1>11 DEF NumbersOK, Unseen

-----------------------------------------------------------------------------
(* Readers. *)

InJournal(g) == \E o \in Ops : tx[o].gen = g /\ "prepared" \in tx[o].phases

\* What a reader was given stays a document, goes, or stays prepared.
LEMMA ReadersStep ==
  ASSUME ReadersOK, UNCHANGED reader,
         \A r \in Readers : reader[r].gen \notin dirs => reader[r].gen \notin dirs',
         \A g \in dirs : g \in Edits(pointer.gen)
                         => g \in Edits(pointer.gen)' \/ g \notin dirs' \/ InJournal(g)',
         \A g \in dirs : InJournal(g) => g \in Edits(pointer.gen)' \/ g \notin dirs' \/ InJournal(g)'
  PROVE  ReadersOK'
  <1> SUFFICES ASSUME NEW r \in Readers, reader[r].at # "idle"
               PROVE  \/ reader[r].gen \in Edits(pointer.gen)' \/ reader[r].gen \notin dirs'
                      \/ \E o \in Ops : tx'[o].gen = reader[r].gen /\ "prepared" \in tx'[o].phases
    BY DEF ReadersOK
  <1>1. CASE reader[r].gen \in dirs
    <2>1. PICK g \in dirs : g = reader[r].gen BY <1>1
    <2>2. g \in Edits(pointer.gen) \/ InJournal(g) BY <2>1 DEF ReadersOK, InJournal
    <2> QED BY <2>1, <2>2 DEF InJournal
  <1>2. CASE reader[r].gen \notin dirs BY <1>2
  <1> QED BY <1>1, <1>2

-----------------------------------------------------------------------------
(* The state at rest. *)

\* Nothing happens to the documents but that the root may catch up.
LEMMA DocumentsStay ==
  ASSUME TypeInv, NEW g \in Generations,
         UNCHANGED <<dirs, content, ledger, owner>>, acked' \subseteq acked \cup OwnersIn(g),
         Mirrored(g) => Mirrored(g)'
  PROVE  /\ Readable(g) => Readable(g)'
         /\ Full(g) => Full(g)'
         /\ OwnersIn(g)' = OwnersIn(g) /\ Edits(g)' = Edits(g)
         /\ \A o : Has(g, o)' = Has(g, o)
  <1>1. OwnersIn(g)' = OwnersIn(g) /\ Edits(g)' = Edits(g) BY DEF OwnersIn, Edits
  <1>2. Readable(g) => Readable(g)' BY ReadableKept DEF Readable
  <1>3. \A o : Has(g, o)' = Has(g, o) BY DEF Has
  <1>4. Full(g) => Full(g)'
    <2> SUFFICES ASSUME Full(g) PROVE Full(g)' OBVIOUS
    <2>1. g # 0 => Has(g, owner[g]) BY DEF Full
    <2>2. g # 0 => Has(g, owner[g])' BY <1>3, <2>1
    <2>3. Mirrored(g)' BY DEF Full
    <2> QED BY <1>2, <2>2, <2>3 DEF Full
  <1> QED BY <1>1, <1>2, <1>3, <1>4

LEMMA SelectedDocument == TypeInv => pointer.gen \in Generations /\ pointer.gen \in 0..calls
  BY StoreAssumption DEF TypeInv, DiskOK, OthersOK, Generations

LEMMA DocumentStays ==
  ASSUME TypeInv, UNCHANGED <<pointer, dirs, content, ledger, owner>>,
         acked' \subseteq acked \cup OwnersIn(pointer.gen),
         Mirrored(pointer.gen) => Mirrored(pointer.gen)'
  PROVE  /\ Readable(pointer.gen) => Readable(pointer.gen)'
         /\ Full(pointer.gen) => Full(pointer.gen)'
         /\ OwnersIn(pointer.gen)' = OwnersIn(pointer.gen)
         /\ Edits(pointer.gen)' = Edits(pointer.gen)
         /\ \A o : Has(pointer.gen, o)' = Has(pointer.gen, o)
  <1>1. PICK g \in Generations : g = pointer.gen BY SelectedDocument
  <1>2. Mirrored(g) => Mirrored(g)' BY <1>1
  <1>3. acked' \subseteq acked \cup OwnersIn(g) BY <1>1
  <1>4. /\ Readable(g) => Readable(g)'
        /\ Full(g) => Full(g)'
        /\ OwnersIn(g)' = OwnersIn(g) /\ Edits(g)' = Edits(g)
        /\ \A o : Has(g, o)' = Has(g, o)
    BY <1>2, <1>3, DocumentsStay
  <1>5. pointer'.gen = g BY <1>1
  <1> QED BY <1>1, <1>4, <1>5

\* The journals do not change either.
LEMMA RestStays ==
  ASSUME TypeInv, UNCHANGED <<pointer, dirs, content, ledger, owner, tx>>,
         acked' \subseteq acked \cup OwnersIn(pointer.gen),
         Mirrored(pointer.gen) => Mirrored(pointer.gen)'
  PROVE  /\ AtRest => AtRest'
         /\ Pending' = Pending
         /\ \A o \in Ops : /\ Selected(o)' = Selected(o)
                           /\ Done(o) => Done(o)'
                           /\ Open(o) => Open(o)'
                           /\ Undone(o) => Undone(o)'
                           /\ Over(o) => Over(o)'
  <1>1. /\ Readable(pointer.gen) => Readable(pointer.gen)'
        /\ Full(pointer.gen) => Full(pointer.gen)'
        /\ OwnersIn(pointer.gen)' = OwnersIn(pointer.gen)
    BY DocumentStays
  <1>2. Pending' = Pending BY DEF Pending
  <1>3. RowsIn(pointer.gen)' = RowsIn(pointer.gen) BY DEF RowsIn
  <1>4. ASSUME NEW o \in Ops
        PROVE  /\ Selected(o)' = Selected(o)
               /\ Done(o) => Done(o)'
               /\ Open(o) => Open(o)'
               /\ Undone(o) => Undone(o)'
               /\ Over(o) => Over(o)'
    <2>1. Selected(o)' = Selected(o) BY DEF Selected
    <2>2. Done(o) => Done(o)' BY <1>1, <2>1 DEF Done
    <2>3. Open(o) => Open(o)' BY <2>1 DEF Open, Live
    <2>4. Undone(o) => Undone(o)' BY <1>1 DEF Undone, Live
    <2>5. Over(o) => Over(o)' BY <2>2, <2>4 DEF Over
    <2> QED BY <2>1, <2>2, <2>3, <2>4, <2>5
  <1>5. Pending \subseteq Ops BY DEF Pending
  <1>6. JournalsOK => JournalsOK' BY <1>2, <1>4, <1>5 DEF JournalsOK
  <1> QED BY <1>1, <1>2, <1>3, <1>4, <1>6 DEF AtRest

\* One journal is written or removed, and it was the only one.
LEMMA JournalStays ==
  ASSUME TypeInv, AtRest, NEW o \in Ops, NEW t \in TxRecords, tx' = [tx EXCEPT ![o] = t],
         Pending \subseteq {o}, t.dir \/ t = NoTx,
         UNCHANGED <<pointer, dirs, content, ledger, root, owner>>,
         acked' \subseteq acked \cup OwnersIn(pointer.gen),
         t.dir => (Done(o) \/ Open(o) \/ Undone(o))',
         ~t.dir => Full(pointer.gen),
         \A d \in dirs : \A i \in Inputs :
           <<o, i>> \in ledger[d] => <<o, i>> \in ledger[pointer.gen] \/ (t.dir /\ t.gen = d)
  PROVE  /\ AtRest' /\ Pending' = IF t.dir THEN {o} ELSE {}
         /\ tx'[o] = t /\ \A q \in Ops : q # o => tx'[q] = tx[q]
         /\ Full(pointer.gen) => Full(pointer.gen)'
         /\ OwnersIn(pointer.gen)' = OwnersIn(pointer.gen)
         /\ Edits(pointer.gen)' = Edits(pointer.gen)
         /\ \A q : Has(pointer.gen, q)' = Has(pointer.gen, q)
         /\ Mirrored(pointer.gen)' = Mirrored(pointer.gen)
  <1>1. tx'[o] = t /\ \A q \in Ops : q # o => tx'[q] = tx[q] BY JournalStep DEF TypeInv, TxOK
  <1>2. Pending' = IF t.dir THEN {o} ELSE {} BY <1>1 DEF Pending
  <1>3. Mirrored(pointer.gen)' = Mirrored(pointer.gen) BY DEF Mirrored
  <1>4. /\ Readable(pointer.gen)'
        /\ Full(pointer.gen) => Full(pointer.gen)'
        /\ OwnersIn(pointer.gen)' = OwnersIn(pointer.gen)
        /\ Edits(pointer.gen)' = Edits(pointer.gen)
        /\ \A q : Has(pointer.gen, q)' = Has(pointer.gen, q)
    BY <1>3, DocumentStays DEF AtRest
  <1>5. RowsIn(pointer.gen)'
    <2> SUFFICES ASSUME NEW d \in dirs, NEW q \in Ops, NEW i \in Inputs, <<q, i>> \in ledger[d]
                 PROVE  <<q, i>> \in ledger[pointer.gen] \/ (tx'[q].dir /\ tx'[q].gen = d)
      BY DEF RowsIn
    <2>1. CASE q = o BY <1>1, <2>1
    <2>2. CASE q # o BY <1>1, <2>2 DEF AtRest, RowsIn
    <2> QED BY <2>1, <2>2
  <1>6. JournalsOK'
    <2>1. \A q \in Ops : ~tx'[q].dir => tx'[q] = NoTx BY <1>1 DEF AtRest, JournalsOK
    <2>2. \A p, q \in Pending' : p = q BY <1>2
    <2>3. \A q \in Pending' : (Done(q) \/ Open(q) \/ Undone(q))' BY <1>2
    <2> QED BY <2>1, <2>2, <2>3 DEF JournalsOK
  <1>7. Pending' = {} => Full(pointer.gen)' BY <1>2, <1>4
  <1> QED BY <1>1, <1>2, <1>3, <1>4, <1>5, <1>6, <1>7 DEF AtRest

-----------------------------------------------------------------------------
(* The steps. *)

LEMMA Enough ==
  ASSUME Promise, NEW w \in Writers, pc[w] \notin {"idle", "lane"}
  PROVE  /\ call[w].op \in Ops /\ call[w].input \in Inputs
         /\ call[w].gen \in Generations /\ call[w].expected \in Generations
         /\ call[w].expected < call[w].gen /\ call[w].gen # 0 /\ call[w].gen # None
         /\ pointer.gen \in Generations /\ pointer.gen # None /\ pointer.gen \in dirs
         /\ tx[call[w].op] \in TxRecords
         /\ MutatingOK(w) /\ RecoveringOK(w)
         /\ TypeInv /\ AtRest /\ NumbersOK /\ ReadersOK
         /\ pc \in [Writers -> PcValues] /\ lane = w
         /\ Readable(pointer.gen) /\ RowsIn(pointer.gen)
  BY TEnough, StoreAssumption
     DEF Promise, Standing, ResolveInv, WhereTheyStand, Generations, AtRest, Readable, TypeInv, WritersOK,
         LaneHeld

LEMMA NoneIsNoDirectory == TypeInv => None \notin dirs
  <1>1. None \notin Generations BY StoreAssumption DEF Generations
  <1> QED BY <1>1 DEF TypeInv, DiskOK

\* With no journal open every record in any directory is one of the document.
LEMMA RecordsAreTrue ==
  ASSUME TypeInv, AtRest, Pending = {}, NEW o \in Ops, Recorded(o) # {}
  PROVE  o \in OwnersIn(pointer.gen)
  <1>1. PICK i \in Inputs, d \in dirs : <<o, i>> \in ledger[d] BY DEF Recorded
  <1>2. ~tx[o].dir BY DEF Pending
  <1>3. <<o, i>> \in ledger[pointer.gen] BY <1>1, <1>2 DEF AtRest, RowsIn
  <1> QED BY <1>3 DEF AtRest, Readable, Has

\* The steps that end a call and write nothing.
LEMMA ARefuse ==
  ASSUME Promise, TypeInv', NEW w \in Writers,
         RefuseDepleted(w) \/ Conflict(w) \/ Replay(w) \/ RefuseReuse(w) \/ RefuseJournal(w)
           \/ Unwind(w) \/ FailIntent(w)
  PROVE  Standing'
  <1>1. /\ pc[w] \notin {"idle", "lane"} /\ Leave(w)
        /\ UNCHANGED <<pointer, dirs, content, ledger, root, tx, owner, reader, calls>>
        /\ \/ UNCHANGED <<acked, failed>>
           \/ Replay(w) /\ acked' = acked \cup {call[w].op} /\ UNCHANGED failed
           \/ FailIntent(w) /\ failed' = failed \cup {call[w].gen} /\ UNCHANGED acked
    BY DEF RefuseDepleted, Conflict, Replay, RefuseReuse, RefuseJournal, Unwind, FailIntent,
           MayFault, At, disk, bounds, history
  <1> USE <1>1
  <1>2. Replay(w) => call[w].op \in OwnersIn(pointer.gen)
    <2> SUFFICES ASSUME Replay(w) PROVE call[w].op \in OwnersIn(pointer.gen) OBVIOUS
    <2>1. pc[w] = "check" /\ Recorded(call[w].op) # {} BY DEF Replay, At
    <2>2. Pending = {} BY <2>1, Enough DEF RecoveringOK
    <2> QED BY <2>1, <2>2, Enough, RecordsAreTrue
  <1>3. AtRest'
    <2>1. acked' \subseteq acked \cup OwnersIn(pointer.gen) BY <1>2
    <2>2. Mirrored(pointer.gen) => Mirrored(pointer.gen)' BY DEF Mirrored
    <2> QED BY <2>1, <2>2, RestStays, Enough
  <1>4. Edits(pointer.gen)' = Edits(pointer.gen) BY DEF Edits
  <1>5. NumbersOK'
    <2>1. FailIntent(w) => call[w].gen \notin Edits(pointer.gen)
      BY Enough DEF FailIntent, MayFault, At, NumbersOK, Waiting, Unseen
    <2>2. \A v \in Writers : v # w => call'[v] = call[v]
      BY Enough DEF Leave, TypeInv, WritersOK
    <2>3. "idle" \notin Waiting BY DEF Waiting, Settling, Forward
    <2> QED BY <1>4, <2>1, <2>2, <2>3, Enough, NumbersStep DEF Leave
  <1>6. ReadersOK' BY <1>4, Enough, ReadersStep DEF InJournal
  <1>7. WhereTheyStand' BY Enough, HolderLeaves DEF Leave
  <1> QED BY <1>3, <1>5, <1>6, <1>7 DEF Standing

\* A step that writes nothing and goes on.
LEMMA AMove ==
  ASSUME Promise, TypeInv', NEW w \in Writers, pc[w] \notin {"idle", "lane"},
         NEW there, there # "idle", Go(w, there), there \in Waiting => pc[w] \in Waiting,
         UNCHANGED <<pointer, dirs, content, ledger, tx, owner, reader, calls, call, acked, failed>>,
         Mirrored(pointer.gen) => Mirrored(pointer.gen)',
         (MutatingOK(w) /\ RecoveringOK(w))'
  PROVE  Standing'
  <1>1. AtRest' BY Enough, RestStays
  <1>2. Edits(pointer.gen)' = Edits(pointer.gen) BY DEF Edits
  <1>3. NumbersOK' BY <1>2, Enough, NumbersStep
  <1>4. ReadersOK' BY <1>2, Enough, ReadersStep DEF InJournal
  <1>5. WhereTheyStand' BY Enough, HolderStands
  <1> QED BY <1>1, <1>3, <1>4, <1>5 DEF Standing

LEMMA AEnter == ASSUME Promise, TypeInv', NEW w \in Writers, Enter(w) PROVE Standing'
  <1>1. /\ pc[w] = "entered"
        /\ UNCHANGED <<pointer, dirs, content, ledger, root, tx, owner, reader, calls, call, acked, failed>>
    BY DEF Enter, At, disk, bounds, history
  <1>2. Mirrored(pointer.gen) => Mirrored(pointer.gen)' BY <1>1 DEF Mirrored
  <1>3. Pending' = Pending BY <1>1 DEF Pending
  <1>4. CASE Pending = {}
    <2>1. Go(w, "check") /\ pc'[w] = "check" BY <1>1, <1>4, Enough DEF Enter, Go
    <2>2. (MutatingOK(w) /\ RecoveringOK(w))'
      BY <1>3, <1>4, <2>1 DEF MutatingOK, RecoveringOK, Mutating, Unswapped, Undecided, AfterSwap,
                              Recovering, Settling, Forward
    <2> QED BY <1>1, <1>2, <2>1, <2>2, AMove DEF Waiting
  <1>5. CASE Pending # {}
    <2>1. Go(w, "recover") /\ pc'[w] = "recover" /\ recovery' = [NoRecovery EXCEPT !.todo = Pending]
      BY <1>1, <1>5, Enough DEF Enter, Go
    <2>2. recovery'.todo = Pending BY <2>1 DEF NoRecovery
    <2>3. (MutatingOK(w) /\ RecoveringOK(w))'
      BY <1>3, <2>1, <2>2 DEF MutatingOK, RecoveringOK, Mutating, Unswapped, Undecided, AfterSwap,
                              Recovering, Settling, Forward
    <2> QED BY <1>1, <1>2, <2>1, <2>3, AMove DEF Waiting
  <1> QED BY <1>4, <1>5

\* The pass takes up a journal for what it is.
LEMMA ATake ==
  ASSUME Promise, TypeInv', NEW w \in Writers, pc[w] = "recover", NEW o \in recovery.todo,
         NEW there \in {"panic", "back-discard", "settle-ledger", "forward-materialize"},
         Take(w, o, there),
         there = "forward-materialize" => Selected(o),
         there = "back-discard" => Undone(o) \/ (Done(o) /\ "prepared" \notin tx[o].phases),
         there = "settle-ledger" => Over(o)
  PROVE  Standing'
  <1>1. UNCHANGED <<pointer, dirs, content, ledger, root, tx, owner, reader, calls, call, acked, failed>>
    BY DEF Take, disk, bounds, history
  <1>2. Mirrored(pointer.gen) => Mirrored(pointer.gen)' BY <1>1 DEF Mirrored
  <1>3. /\ Go(w, there) /\ pc'[w] = there /\ recovery'.op = o
        /\ recovery'.todo = recovery.todo /\ recovery'.stuck = recovery.stuck
    BY Enough DEF Take, Go, TypeInv, WritersOK, Recoveries
  <1>4. /\ recovery.todo \subseteq Pending
        /\ ~recovery.stuck => Pending \subseteq recovery.todo
    BY Enough DEF RecoveringOK, Recovering
  <1>5. o \in Ops BY <1>4 DEF Pending
  <1>6. acked' \subseteq acked \cup OwnersIn(pointer.gen) BY <1>1
  <1>7. /\ Pending' = Pending
        /\ Selected(o) => Selected(o)'
        /\ Done(o) => Done(o)'
        /\ Undone(o) => Undone(o)'
        /\ Over(o) => Over(o)'
    BY <1>1, <1>2, <1>5, <1>6, Enough, RestStays
  <1>8. ("prepared" \notin tx[o].phases) => "prepared" \notin tx'[o].phases BY <1>1
  <1>9. MutatingOK(w)'
    BY <1>3 DEF MutatingOK, Mutating, Unswapped, Undecided, AfterSwap
  <1>10. RecoveringOK(w)'
    BY <1>3, <1>4, <1>7, <1>8 DEF RecoveringOK, Forward
  <1> QED BY <1>1, <1>2, <1>3, <1>9, <1>10, AMove DEF Waiting, Settling, Forward

LEMMA ARecover ==
  ASSUME Promise, TypeInv', NEW w \in Writers,
         RecoverForward(w) \/ RecoverBack(w) \/ RecoverSettle(w) \/ RecoverPanic(w)
  PROVE  Standing'
  <1>1. pc[w] = "recover"
    BY DEF RecoverForward, RecoverBack, RecoverSettle, RecoverPanic, At
  <1>2. ASSUME NEW o \in recovery.todo
        PROVE  /\ Done(o) \/ Open(o) \/ Undone(o)
               /\ o \in Ops /\ Fresh(tx[o])
    <2>1. o \in Pending BY <1>1, Enough DEF RecoveringOK, Recovering
    <2>2. o \in Ops BY <2>1 DEF Pending
    <2>3. Fresh(tx[o]) BY <2>2 DEF Promise, ResolveInv, AllFresh
    <2> QED BY <1>1, <2>1, <2>2, <2>3, Enough DEF AtRest, JournalsOK
  <1>3. CASE RecoverForward(w)
    <2>1. PICK o \in recovery.todo : IsForward(tx[o]) /\ Take(w, o, "forward-materialize")
      BY <1>3 DEF RecoverForward
    <2>2. Selected(o) BY <1>2, <2>1 DEF IsForward, Undone, Done, Open
    <2> QED BY <1>1, <2>1, <2>2, ATake
  <1>4. CASE RecoverBack(w)
    <2>1. PICK o \in recovery.todo : IsBack(tx[o]) /\ Take(w, o, "back-discard")
      BY <1>4 DEF RecoverBack
    <2>2. Selected(o) => "prepared" \notin tx[o].phases
      BY <1>2, <2>1 DEF IsBack, Fresh, Selected
    <2>3. Open(o) => "prepared" \in tx[o].phases BY DEF Open, Live
    <2>4. Undone(o) \/ (Done(o) /\ "prepared" \notin tx[o].phases)
      BY <1>2, <2>2, <2>3 DEF Done, Open
    <2> QED BY <1>1, <2>1, <2>4, ATake
  <1>5. CASE RecoverSettle(w)
    <2>1. PICK o \in recovery.todo : "completed" \in tx[o].phases /\ Take(w, o, "settle-ledger")
      BY <1>5 DEF RecoverSettle
    <2>2. ~Live(tx[o]) BY <2>1 DEF Live
    <2>3. Over(o) BY <1>2, <2>2 DEF Over, Open, Undone
    <2> QED BY <1>1, <2>1, <2>3, ATake
  <1>6. CASE RecoverPanic(w)
    <2>1. PICK o \in recovery.todo : Take(w, o, "panic") BY <1>6 DEF RecoverPanic
    <2> QED BY <1>1, <2>1, ATake
  <1> QED BY <1>3, <1>4, <1>5, <1>6

\* A journal that cannot be settled is left as it is.
LEMMA AStick ==
  ASSUME Promise, TypeInv', NEW w \in Writers, pc[w] \in Recovering,
         NEW o \in recovery.todo, Stick(w, o), Mirrored(pointer.gen) => Mirrored(pointer.gen)',
         UNCHANGED <<pointer, dirs, content, ledger, tx, owner, reader, calls, call, acked, failed>>
  PROVE  Standing'
  <1>1. /\ Go(w, "recover") /\ pc'[w] = "recover"
        /\ recovery'.todo = recovery.todo \ {o} /\ recovery'.stuck
    BY Enough DEF Stick, Go, TypeInv, WritersOK, Recoveries, Recovering, Settling, Forward
  <1>2. pc[w] \notin {"idle", "lane"} /\ pc[w] \in Waiting
    BY DEF Recovering, Settling, Forward, Waiting
  <1>3. recovery.todo \subseteq Pending BY <1>2, Enough DEF RecoveringOK
  <1>4. Pending' = Pending BY DEF Pending
  <1>5. MutatingOK(w)' BY <1>1 DEF MutatingOK, Mutating, Unswapped, Undecided, AfterSwap
  <1>6. RecoveringOK(w)'
    BY <1>1, <1>3, <1>4 DEF RecoveringOK, Recovering, Settling, Forward
  <1> QED BY <1>1, <1>2, <1>5, <1>6, AMove

LEMMA AStuck ==
  ASSUME Promise, TypeInv', NEW w \in Writers, RecoverStick(w) \/ FailRecovery(w)
  PROVE  Standing'
  <1>1. CASE RecoverStick(w)
    <2>1. PICK o \in recovery.todo : Stick(w, o) BY <1>1 DEF RecoverStick
    <2>2. pc[w] \in Recovering /\ UNCHANGED disk /\ UNCHANGED <<call, reader, bounds, history>>
      BY <1>1 DEF RecoverStick, At, Recovering
    <2>3. Mirrored(pointer.gen) => Mirrored(pointer.gen)' BY <2>2 DEF Mirrored, disk
    <2> QED BY <2>1, <2>2, <2>3, AStick DEF disk, bounds, history
  <1>2. CASE FailRecovery(w)
    <2>1. PICK point \in {"forward-materialize", "forward-ledger", "forward-close", "settle-ledger"} :
            /\ pc[w] = point
            /\ IF point = "forward-materialize" THEN root' \in PartlyCopied(Mending.gen)
                                                ELSE UNCHANGED root
      BY <1>2 DEF FailRecovery, MayFault, At
    <2>2. pc[w] \in Settling /\ Stick(w, recovery.op)
      BY <1>2, <2>1 DEF FailRecovery, Settling, Forward
    <2>3. pc[w] \notin {"idle", "lane"} BY <2>1
    <2>4. recovery.op \in recovery.todo BY <2>2, <2>3, Enough DEF RecoveringOK
    <2>5. Mirrored(pointer.gen) => Mirrored(pointer.gen)'
      <3>1. CASE pc[w] = "forward-materialize"
        <4>1. Mending.gen = pointer.gen
          BY <2>3, <3>1, Enough DEF RecoveringOK, Forward, Selected, Mending
        <4>2. \A f \in Files : root'[f] = root[f] \/ root'[f] = content[pointer.gen][f]
          BY <2>1, <3>1, <4>1 DEF PartlyCopied
        <4>3. UNCHANGED <<pointer, content>> BY <1>2 DEF FailRecovery, files
        <4> QED BY <4>2, <4>3 DEF Mirrored
      <3>2. CASE pc[w] # "forward-materialize"
        BY <1>2, <2>1, <3>2 DEF FailRecovery, files, Mirrored
      <3> QED BY <3>1, <3>2
    <2>6. UNCHANGED <<pointer, dirs, content, ledger, tx, owner, reader, calls, call, acked, failed>>
      BY <1>2 DEF FailRecovery, files, history
    <2> QED BY <2>2, <2>4, <2>5, <2>6, AStick DEF Recovering
  <1> QED BY <1>1, <1>2

\* A swapped generation and its parent, at a step that writes the journal or the ledger.
LEMMA MovedStays ==
  ASSUME TypeInv, NEW o \in Ops, NEW g \in Generations, NEW e \in Generations, Moved(o, g, e),
         UNCHANGED <<pointer, dirs, content, owner, acked>>,
         \A f \in Files : content[e][f] \subseteq root'[f],
         tx[o].dir, tx'[o].dir, tx'[o].gen = g, Live(tx'[o]), \A q \in Ops : q # o => tx'[q] = tx[q],
         \/ UNCHANGED ledger
         \/ \E i \in Inputs : ledger' = [ledger EXCEPT ![g] = @ \cup {<<o, i>>}]
  PROVE  Moved(o, g, e)'
  <1>1. g # e BY DEF Moved, Grown, Full, Readable
  <1>2. ledger \in [Generations -> SUBSET (Ops \X Inputs)] BY DEF TypeInv, DiskOK
  <1>3. /\ ledger'[e] = ledger[e] /\ ledger[g] \subseteq ledger'[g]
        /\ ledger'[g] \subseteq ledger[g] \cup ({o} \X Inputs)
        /\ \A d \in Generations : d # g => ledger'[d] = ledger[d]
    BY <1>1, <1>2
  <1>4. Full(e)' /\ OwnersIn(e)' = OwnersIn(e) /\ Edits(e)' = Edits(e)
    BY <1>3, FullKept DEF Moved, Full, Readable
  <1>5. Grown(g, e, o)'
    <2>1. Edits(g)' = Edits(g) BY DEF Edits
    <2> QED BY <1>3, <1>4, <2>1 DEF Moved, Grown
  <1>6. RowsIn(e)'
    <2> SUFFICES ASSUME NEW d \in dirs, NEW q \in Ops, NEW i \in Inputs, <<q, i>> \in ledger'[d]
                 PROVE  <<q, i>> \in ledger'[e] \/ (tx'[q].dir /\ tx'[q].gen = d)
      BY DEF RowsIn
    <2>1. d \in Generations BY DEF TypeInv, DiskOK
    <2>2. CASE <<q, i>> \in ledger[d]
      <3>1. <<q, i>> \in ledger[e] \/ (tx[q].dir /\ tx[q].gen = d)
        BY <2>2 DEF Moved, RowsIn
      <3> QED BY <1>3, <3>1 DEF Moved
    <2>3. CASE <<q, i>> \notin ledger[d]
      <3>1. d = g /\ q = o BY <1>3, <2>1, <2>3
      <3> QED BY <3>1
    <2> QED BY <2>2, <2>3
  <1> QED BY <1>4, <1>5, <1>6 DEF Moved, Live

\* abort() is entered.
LEMMA AFailPhase == ASSUME Promise, TypeInv', NEW w \in Writers, FailPhase(w) PROVE Standing'
  <1>1. PICK point \in BeforeSwap \cup AfterSwap :
          /\ pc[w] = point
          /\ Go(w, IF point \in AfterSwap THEN "restore" ELSE "discard")
          /\ IF point = "materialize" THEN root' \in PartlyCopied(call[w].gen) ELSE UNCHANGED root
    BY DEF FailPhase, MayFault, At
  <1>2. UNCHANGED <<pointer, dirs, content, ledger, tx, owner, reader, calls, call, acked, failed>>
    BY DEF FailPhase, files, history
  <1>3. pc[w] \notin {"idle", "lane"} BY <1>1 DEF BeforeSwap, AfterSwap
  <1>4. Pending = {call[w].op} /\ Pending' = Pending /\ call[w].op \in Ops
    BY <1>1, <1>2, <1>3, Enough DEF MutatingOK, Mutating, Unswapped, Undecided, BeforeSwap, Pending
  <1>5. CASE point \in BeforeSwap
    <2>1. Go(w, "discard") /\ pc'[w] = "discard" /\ UNCHANGED root
      BY <1>1, <1>3, <1>5, Enough DEF BeforeSwap, AfterSwap, Go
    <2>2. Mirrored(pointer.gen) => Mirrored(pointer.gen)' BY <1>2, <2>1 DEF Mirrored
    <2>3. Undone(call[w].op) /\ call[w].gen \notin Edits(pointer.gen)
          /\ tx[call[w].op].gen \in {None, call[w].gen}
      BY <1>1, <1>3, <1>5, Enough DEF MutatingOK, Unswapped, BeforeSwap
    <2>4. Undone(call[w].op)' BY <1>2, <1>4, <2>2, <2>3, RestStays, Enough, <1>3
    <2>5. Edits(pointer.gen)' = Edits(pointer.gen) BY <1>2 DEF Edits
    <2>6. MutatingOK(w)'
      BY <1>2, <1>4, <2>1, <2>3, <2>4, <2>5 DEF MutatingOK, Undecided, AfterSwap
    <2>7. RecoveringOK(w)' BY <2>1 DEF RecoveringOK, Recovering, Settling, Forward
    <2> QED BY <1>2, <1>3, <2>1, <2>2, <2>6, <2>7, AMove DEF Waiting, Settling, Forward
  <1>6. CASE point \in AfterSwap
    <2>0. PICK o \in Ops, g \in Generations, e \in Generations :
            o = call[w].op /\ g = call[w].gen /\ e = call[w].expected
      BY <1>3, Enough
    <2>1. Go(w, "restore") /\ pc'[w] = "restore" BY <1>1, <1>3, <1>6, Enough DEF Go
    <2>2. Moved(o, g, e) BY <1>1, <1>3, <1>6, <2>0, Enough DEF MutatingOK, Undecided
    <2>3. \A f \in Files : root'[f] = root[f] \/ root'[f] = content[g][f]
      BY <1>1, <2>0 DEF PartlyCopied
    <2>4. Mirrored(pointer.gen) => Mirrored(pointer.gen)'
      BY <1>2, <2>2, <2>3 DEF Mirrored, Moved
    <2>5. \A f \in Files : content[e][f] \subseteq root'[f]
      BY <2>2, <2>3 DEF Moved, Grown, Full, Mirrored
    <2>6. tx[o].dir /\ tx[o].gen = g /\ Live(tx[o]) BY <1>4, <2>0, <2>2 DEF Pending, Moved
    <2>7. Moved(o, g, e)' BY <1>2, <1>3, <2>2, <2>5, <2>6, MovedStays, Enough
    <2>8. MutatingOK(w)'
      BY <1>2, <1>4, <2>0, <2>1, <2>7 DEF MutatingOK, Mutating, Unswapped
    <2>9. RecoveringOK(w)' BY <2>1 DEF RecoveringOK, Recovering, Settling, Forward
    <2> QED BY <1>2, <1>3, <2>1, <2>4, <2>8, <2>9, AMove DEF Waiting, Settling, Forward
  <1> QED BY <1>1, <1>5, <1>6

\* A record is written to the only journal, and nothing else.
LEMMA JournalWritten ==
  ASSUME TypeInv, NEW o \in Ops, NEW t \in TxRecords, tx' = [tx EXCEPT ![o] = t], t.dir,
         Pending \subseteq {o}, UNCHANGED <<pointer, dirs, content, ledger, root, owner, acked>>
  PROVE  /\ tx'[o] = t /\ \A q \in Ops : q # o => tx'[q] = tx[q]
         /\ Pending' = {o}
         /\ Full(pointer.gen) => Full(pointer.gen)'
         /\ OwnersIn(pointer.gen)' = OwnersIn(pointer.gen)
         /\ Edits(pointer.gen)' = Edits(pointer.gen)
         /\ \A q : Has(pointer.gen, q)' = Has(pointer.gen, q)
         /\ Mirrored(pointer.gen)' = Mirrored(pointer.gen)
  <1>1. tx'[o] = t /\ \A q \in Ops : q # o => tx'[q] = tx[q] BY JournalStep DEF TypeInv, TxOK
  <1>2. Pending' = {o} BY <1>1 DEF Pending
  <1>3. Mirrored(pointer.gen)' = Mirrored(pointer.gen) BY DEF Mirrored
  <1> QED BY <1>1, <1>2, <1>3, DocumentStays

LEMMA AJournal ==
  ASSUME Promise, TypeInv', NEW w \in Writers, pc[w] \notin {"idle", "lane"},
         NEW there, there # "idle", Go(w, there),
         NEW o \in Ops, NEW t \in TxRecords, tx' = [tx EXCEPT ![o] = t], t.dir, Pending \subseteq {o},
         UNCHANGED <<pointer, dirs, content, ledger, root, owner, reader, calls, call, acked, failed>>,
         t.gen \in {tx[o].gen, call[w].gen, None},
         there \in Waiting => pc[w] \in Waiting /\ t.gen \in {tx[o].gen, None},
         (Done(o) \/ Open(o) \/ Undone(o))',
         \A d \in dirs : \A i \in Inputs :
           <<o, i>> \in ledger[d] => <<o, i>> \in ledger[pointer.gen] \/ t.gen = d,
         \/ t.gen = tx[o].gen /\ ("prepared" \in tx[o].phases => "prepared" \in t.phases)
         \/ tx[o].gen \notin dirs,
         (MutatingOK(w) /\ RecoveringOK(w))'
  PROVE  Standing'
  <1>1. tx'[o] = t /\ \A q \in Ops : q # o => tx'[q] = tx[q]
    BY Enough, JournalWritten
  <1>2. AtRest'
    <2>1. acked' \subseteq acked \cup OwnersIn(pointer.gen) OBVIOUS
    <2> QED BY <2>1, Enough, JournalStays
  <1>3. Edits(pointer.gen)' = Edits(pointer.gen) BY DEF Edits
  <1>4. NumbersOK'
    <2>1. \A q \in Ops : tx'[q].gen \in {tx[q].gen, call[w].gen, None} BY <1>1
    <2>2. there \in Waiting => \A q \in Ops : tx'[q].gen \in {tx[q].gen, None} BY <1>1
    <2> QED BY <1>3, <2>1, <2>2, Enough, NumbersStep
  <1>5. ReadersOK'
    <2>1. \A g \in dirs : InJournal(g) => InJournal(g)' BY <1>1 DEF InJournal
    <2> QED BY <1>3, <2>1, Enough, ReadersStep
  <1>6. WhereTheyStand' BY Enough, HolderStands
  <1> QED BY <1>2, <1>4, <1>5, <1>6 DEF Standing

\* An operation that no directory has a record of has no edit in a full document.
LEMMA ABegin == ASSUME Promise, TypeInv', NEW w \in Writers, Begin(w) PROVE Standing'
  <1> DEFINE t == [NoTx EXCEPT !.dir = TRUE]
  <1>1. PICK o \in Ops : o = call[w].op BY Enough DEF Begin, At
  <1>2. /\ pc[w] = "check" /\ Go(w, "intent") /\ Recorded(o) = {} /\ ~tx[o].dir
        /\ tx' = [tx EXCEPT ![o] = t]
        /\ UNCHANGED <<pointer, dirs, content, ledger, root, owner, reader, calls, call, acked, failed>>
    BY <1>1 DEF Begin, At, files, bounds, history
  <1>3. Pending = {} /\ pc'[w] = "intent" BY <1>2, Enough DEF RecoveringOK, Go
  <1>4. tx[o] = NoTx /\ Full(pointer.gen) BY <1>2, <1>3, Enough DEF AtRest, JournalsOK
  <1>5. t \in TxRecords /\ t.dir /\ t.gen = None /\ t.outcome = None
    BY StoreAssumption DEF TxRecords, NoTx
  <1>6. o \notin OwnersIn(pointer.gen)
    <2> SUFFICES ASSUME NEW h \in Edits(pointer.gen) \ {0}, owner[h] = o PROVE FALSE BY DEF OwnersIn
    <2>1. Has(pointer.gen, owner[h]) BY <1>4 DEF Full, Readable
    <2>2. pointer.gen \in dirs BY <1>2, Enough
    <2> QED BY <1>2, <2>1, <2>2 DEF Has, Recorded
  <1>7. call[w].gen \notin Edits(pointer.gen)
    BY <1>2, Enough DEF NumbersOK, Waiting, Unseen
  <1>8. None \notin dirs BY <1>2, Enough, NoneIsNoDirectory
  <1> HIDE DEF t
  <1>9. tx'[o] = t /\ Pending' = {o} /\ Full(pointer.gen)' /\ o \notin OwnersIn(pointer.gen)'
        /\ Edits(pointer.gen)' = Edits(pointer.gen)
    <2>1. UNCHANGED <<pointer, dirs, content, ledger, root, owner, acked>> BY <1>2
    <2>2. Pending \subseteq {o} BY <1>3
    <2> QED BY <1>2, <1>4, <1>5, <1>6, <2>1, <2>2, Enough, JournalWritten
  <1>10. Undone(o)' BY <1>2, <1>5, <1>8, <1>9, StoreAssumption, Enough DEF Undone
  <1>11. MutatingOK(w)'
    BY <1>1, <1>2, <1>3, <1>5, <1>7, <1>9, <1>10 DEF MutatingOK, Undecided, AfterSwap
  <1>12. RecoveringOK(w)' BY <1>3 DEF RecoveringOK, Recovering, Settling, Forward
  <1>13. \A d \in dirs : \A i \in Inputs : <<o, i>> \notin ledger[d] BY <1>2 DEF Recorded
  <1>14. tx[o].gen \notin dirs BY <1>4, <1>8 DEF NoTx
  <1> QED BY <1>2, <1>3, <1>5, <1>10, <1>11, <1>12, <1>13, <1>14, AJournal DEF Waiting

\* The journal of an operation before its pointer moves.
LEMMA AWriteIntent == ASSUME Promise, TypeInv', NEW w \in Writers, WriteIntent(w) PROVE Standing'
  <1>1. PICK o \in Ops : o = call[w].op BY Enough DEF WriteIntent, At
  <1>2. PICK t : t = [tx[o] EXCEPT !.phases = {"intent"}] OBVIOUS
  <1>3. /\ pc[w] = "intent" /\ Go(w, "stage") /\ pc'[w] = "stage"
        /\ tx' = [tx EXCEPT ![o] = t]
        /\ UNCHANGED <<pointer, dirs, content, ledger, root, owner, reader, calls, call, acked, failed>>
    BY <1>1, <1>2, Enough DEF WriteIntent, Journal, Mine, At, Go, files, bounds, history
  <1>4. Pending = {o} /\ Undone(o) /\ call[w].gen \notin Edits(pointer.gen) /\ tx[o].gen = None
    BY <1>1, <1>3, Enough DEF MutatingOK, Mutating, Unswapped
  <1>5. /\ t \in TxRecords /\ t.dir /\ t.gen = None /\ t.outcome = tx[o].outcome /\ t.phases = {"intent"}
    BY <1>1, <1>2, <1>3, <1>4, Enough DEF TxRecords, Pending, Phases
  <1>6. None \notin dirs BY <1>3, Enough, NoneIsNoDirectory
  <1>7. tx'[o] = t /\ Pending' = {o} /\ Full(pointer.gen)' /\ o \notin OwnersIn(pointer.gen)'
        /\ Edits(pointer.gen)' = Edits(pointer.gen)
    <2>1. UNCHANGED <<pointer, dirs, content, ledger, root, owner, acked>> BY <1>3
    <2>2. Pending \subseteq {o} BY <1>4
    <2>3. Full(pointer.gen) /\ o \notin OwnersIn(pointer.gen) BY <1>4 DEF Undone
    <2> QED BY <1>3, <1>5, <2>1, <2>2, <2>3, Enough, JournalWritten
  <1>8. Undone(o)' BY <1>3, <1>4, <1>5, <1>6, <1>7, Enough DEF Undone
  <1>9. MutatingOK(w)'
    BY <1>1, <1>3, <1>4, <1>5, <1>7, <1>8 DEF MutatingOK, Undecided, AfterSwap
  <1>10. RecoveringOK(w)' BY <1>3 DEF RecoveringOK, Recovering, Settling, Forward
  <1>11. \A d \in dirs : \A i \in Inputs : <<o, i>> \in ledger[d] => <<o, i>> \in ledger[pointer.gen]
    BY <1>3, <1>4, <1>6, Enough DEF RowsIn
  <1> QED BY <1>3, <1>4, <1>5, <1>6, <1>8, <1>9, <1>10, <1>11, AJournal DEF Waiting

LEMMA APrepare == ASSUME Promise, TypeInv', NEW w \in Writers, Prepare(w) PROVE Standing'
  <1>1. PICK o \in Ops, g \in Generations : o = call[w].op /\ g = call[w].gen BY Enough DEF Prepare, At
  <1>2. PICK t : t = Prepared(tx[o], g, pointer.gen, call[w].input) OBVIOUS
  <1>3. /\ pc[w] = "prepare" /\ Go(w, "swap") /\ pc'[w] = "swap"
        /\ tx' = [tx EXCEPT ![o] = t]
        /\ UNCHANGED <<pointer, dirs, content, ledger, root, owner, reader, calls, call, acked, failed>>
    BY <1>1, <1>2, Enough DEF Prepare, Journal, Mine, At, Go, files, bounds, history
  <1>4. /\ Pending = {o} /\ Undone(o) /\ g \notin Edits(pointer.gen)
        /\ tx[o].gen = None /\ tx[o].phases = {"intent"} /\ Grown(g, pointer.gen, o)
    BY <1>1, <1>3, Enough DEF MutatingOK, Mutating, Unswapped
  <1>5. /\ t \in TxRecords /\ t.dir /\ t.gen = g /\ t.outcome = tx[o].outcome
        /\ t.phases = {"intent", "prepared"} /\ Live(t)
    <2>1. t \in TxRecords BY <1>1, <1>2, <1>3, Enough, PreparedSound DEF TypeInv, TxOK
    <2> QED BY <1>2, <1>4, <2>1 DEF Prepared, Live, Undone
  <1>6. None \notin dirs BY <1>3, Enough, NoneIsNoDirectory
  <1>7. tx'[o] = t /\ Pending' = {o} /\ Full(pointer.gen)' /\ o \notin OwnersIn(pointer.gen)'
        /\ Edits(pointer.gen)' = Edits(pointer.gen)
    <2>1. UNCHANGED <<pointer, dirs, content, ledger, root, owner, acked>> BY <1>3
    <2>2. Pending \subseteq {o} BY <1>4
    <2>3. Full(pointer.gen) /\ o \notin OwnersIn(pointer.gen) BY <1>4 DEF Undone
    <2> QED BY <1>3, <1>5, <2>1, <2>2, <2>3, Enough, JournalWritten
  <1>8. pointer.gen \in Edits(pointer.gen) BY <1>3, Enough DEF Readable
  <1>9. Undone(o)' BY <1>3, <1>4, <1>5, <1>7, <1>8 DEF Undone
  <1>10. Grown(g, pointer.gen, o)' BY <1>3, <1>4 DEF Grown, Edits
  <1>11. MutatingOK(w)'
    BY <1>1, <1>3, <1>4, <1>5, <1>7, <1>9, <1>10 DEF MutatingOK, Undecided, AfterSwap
  <1>12. RecoveringOK(w)' BY <1>3 DEF RecoveringOK, Recovering, Settling, Forward
  <1>13. \A d \in dirs : \A i \in Inputs : <<o, i>> \in ledger[d] => <<o, i>> \in ledger[pointer.gen]
    BY <1>3, <1>4, <1>6, Enough DEF RowsIn
  <1> QED BY <1>1, <1>3, <1>4, <1>5, <1>6, <1>9, <1>11, <1>12, <1>13, AJournal
          DEF Waiting, Settling, Forward

-----------------------------------------------------------------------------
(* The phases of a mutation past its journal. *)

LEMMA AStage == ASSUME Promise, TypeInv', NEW w \in Writers, Stage(w) PROVE Standing'
  <1>1. PICK o \in Ops, g \in Generations, p \in Generations :
          o = call[w].op /\ g = call[w].gen /\ p = pointer.gen
    BY Enough DEF Stage, At
  <1>2. /\ pc[w] = "stage" /\ Go(w, "prepare") /\ pc'[w] = "prepare"
        /\ dirs' = dirs \cup {g}
        /\ content' = [content EXCEPT ![g] = Staged(g)]
        /\ ledger' = [ledger EXCEPT ![g] = ledger[p]]
        /\ owner' = [owner EXCEPT ![g] = o]
        /\ UNCHANGED <<pointer, root, tx, reader, calls, call, acked, failed>>
    BY <1>1, Enough DEF Stage, At, Go, bounds
  <1>3. g \notin dirs /\ g \notin Edits(p) /\ (\A r \in Readers : reader[r].gen # g) /\ g # 0
    BY <1>1, <1>2, Enough DEF NumbersOK, Waiting, Unseen
  <1>4. /\ Pending = {o} /\ Undone(o) /\ tx[o].gen = None /\ tx[o].phases = {"intent"}
    BY <1>1, <1>2, Enough DEF MutatingOK, Mutating, Unswapped
  <1>5. Full(p) /\ p # g /\ p \in Edits(p) /\ o \notin OwnersIn(p) /\ p \in dirs
    BY <1>1, <1>3, <1>4 DEF Undone, Full, Readable
  <1>6. /\ \A d \in Generations : d # g => /\ content'[d] = content[d] /\ ledger'[d] = ledger[d]
                                           /\ owner'[d] = owner[d]
        /\ content'[g] = Staged(g) /\ ledger'[g] = ledger[p] /\ owner'[g] = o
    BY <1>2, Enough DEF TypeInv, DiskOK
  <1>7. Edits(p) \subseteq Generations
    <2>1. content[p] \in [Files -> SUBSET Generations] BY <1>2, Enough DEF TypeInv, DiskOK
    <2> QED BY <2>1 DEF Edits, Files
  <1>8. Full(p)' /\ OwnersIn(p)' = OwnersIn(p) /\ Edits(p)' = Edits(p)
    <2>1. \A h \in Edits(p) : owner'[h] = owner[h] BY <1>3, <1>6, <1>7
    <2>2. \A f \in Files : content[p][f] \subseteq root'[f] BY <1>2, <1>5 DEF Full, Mirrored
    <2>3. p \in dirs' /\ content'[p] = content[p] /\ ledger'[p] = ledger[p] BY <1>2, <1>5, <1>6
    <2> QED BY <1>2, <1>5, <2>1, <2>2, <2>3, FullKept
  <1>9. Grown(g, p, o)'
    <2>1. Edits(g)' = {g} \cup Edits(p) BY <1>1, <1>6 DEF Edits, Staged, Files
    <2>2. \A f \in Files : content[p][f] \subseteq content'[g][f]
      BY <1>1, <1>5, <1>6 DEF Staged, Full, Mirrored
    <2> QED BY <1>3, <1>5, <1>6, <1>8, <2>1, <2>2 DEF Grown
  <1>10. None \notin dirs' BY <1>1, <1>2, Enough, NoneIsNoDirectory
  <1>11. Pending' = Pending BY <1>2 DEF Pending
  <1>12. Undone(o)' BY <1>1, <1>2, <1>4, <1>5, <1>8, <1>10 DEF Undone
  <1>13. AtRest'
    <2>1. RowsIn(p)'
      <3> SUFFICES ASSUME NEW d \in dirs', NEW q \in Ops, NEW i \in Inputs, <<q, i>> \in ledger'[d]
                   PROVE  <<q, i>> \in ledger'[p] \/ (tx'[q].dir /\ tx'[q].gen = d)
        BY DEF RowsIn
      <3>1. CASE d = g BY <1>5, <1>6, <3>1
      <3>2. CASE d # g
        <4>1. d \in dirs /\ d \in Generations BY <1>2, <3>2, Enough DEF TypeInv, DiskOK
        <4> QED BY <1>1, <1>2, <1>5, <1>6, <3>2, <4>1, Enough DEF RowsIn
      <3> QED BY <3>1, <3>2
    <2>2. JournalsOK' BY <1>2, <1>4, <1>11, <1>12, Enough DEF AtRest, JournalsOK
    <2> QED BY <1>1, <1>2, <1>8, <2>1, <2>2 DEF AtRest, Full
  <1>14. Edits(pointer.gen)' = Edits(pointer.gen) BY <1>1, <1>2, <1>8
  <1>15. NumbersOK' BY <1>1, <1>2, <1>14, Enough, NumbersStep DEF Waiting, Settling, Forward
  <1>16. ReadersOK'
    <2>1. \A r \in Readers : reader[r].gen \notin dirs => reader[r].gen \notin dirs' BY <1>2, <1>3
    <2>2. \A d : InJournal(d)' = InJournal(d) BY <1>2 DEF InJournal
    <2> QED BY <1>2, <1>14, <2>1, <2>2, Enough, ReadersStep
  <1>17. MutatingOK(w)'
    <2>1. Grown(g, pointer.gen, o)' BY <1>1, <1>2, <1>9
    <2>2. g \notin Edits(pointer.gen)' BY <1>1, <1>3, <1>14
    <2> QED BY <1>1, <1>2, <1>4, <1>11, <1>12, <2>1, <2>2 DEF MutatingOK, Undecided, AfterSwap
  <1>18. RecoveringOK(w)' BY <1>2 DEF RecoveringOK, Recovering, Settling, Forward
  <1>19. WhereTheyStand' BY <1>2, <1>17, <1>18, Enough, HolderStands
  <1> QED BY <1>13, <1>15, <1>16, <1>19 DEF Standing

\* The parent is there: the document is always readable.
LEMMA AStageMissing == ASSUME Promise, NEW w \in Writers, StageMissing(w) PROVE FALSE
  BY Enough DEF StageMissing, At

\* From here on recovery can only go forward.
LEMMA ASwapPointer == ASSUME Promise, TypeInv', NEW w \in Writers, SwapPointer(w) PROVE Standing'
  <1>1. PICK o \in Ops, g \in Generations, e \in Generations :
          o = call[w].op /\ g = call[w].gen /\ e = call[w].expected
    BY Enough DEF SwapPointer, At
  <1>2. /\ pc[w] = "swap" /\ Go(w, "commit") /\ pc'[w] = "commit"
        /\ UNCHANGED <<dirs, content, ledger, root, tx, owner, reader, calls, call, acked, failed>>
    BY Enough DEF SwapPointer, At, Go, files, bounds, history
  <1>3. pointer'.gen = g
    <2>1. pointer' = Selecting(g, o \in SaveOps) BY <1>1 DEF SwapPointer
    <2> QED BY <1>1, <1>2, <2>1, TSelecting, TEnough, Enough DEF TypeInv
  <1>4. pointer.gen = e /\ g \in dirs
    BY <1>1, <1>2 DEF Promise, ResolveInv, Here
  <1>5. /\ Pending = {o} /\ Undone(o) /\ tx[o].gen = g /\ Live(tx[o]) /\ Grown(g, e, o)
    BY <1>1, <1>2, <1>4, Enough DEF MutatingOK, Mutating, Unswapped
  <1>6. Full(e) /\ o \notin OwnersIn(e) /\ RowsIn(e) BY <1>2, <1>4, <1>5, Enough DEF Undone
  <1>7. Readable(g) BY <1>2, <1>4, <1>5, <1>6, Enough, GrownIsReadable
  <1>8. Full(e)' /\ OwnersIn(e)' = OwnersIn(e) /\ Edits(e)' = Edits(e)
        /\ Readable(g)' /\ Edits(g)' = Edits(g)
    <2>1. Mirrored(e) => Mirrored(e)' BY <1>2 DEF Mirrored
    <2>2. Mirrored(g) => Mirrored(g)' BY <1>2 DEF Mirrored
    <2> QED BY <1>2, <1>6, <1>7, <2>1, <2>2, Enough, DocumentsStay
  <1>9. RowsIn(e)' BY <1>2, <1>6 DEF RowsIn
  <1>10. Grown(g, e, o)' BY <1>2, <1>5, <1>8 DEF Grown
  <1>11. Pending' = Pending BY <1>2 DEF Pending
  <1>12. Moved(o, g, e)' BY <1>2, <1>3, <1>5, <1>6, <1>8, <1>9, <1>10 DEF Moved, Live
  <1>13. AtRest'
    <2>1. RowsIn(g)' BY <1>2, <1>5, <1>6 DEF RowsIn, Grown
    <2>2. Open(o)' BY <1>2, <1>3, <1>5 DEF Open, Selected, Grown, Live
    <2>3. JournalsOK' BY <1>2, <1>5, <1>11, <2>2, Enough DEF AtRest, JournalsOK
    <2> QED BY <1>3, <1>5, <1>8, <1>11, <2>1, <2>3 DEF AtRest
  <1>14. Edits(pointer.gen)' = {g} \cup Edits(pointer.gen) BY <1>3, <1>4, <1>5, <1>8 DEF Grown
  <1>15. NumbersOK'
    BY <1>1, <1>2, <1>14, Enough, NumbersStep DEF Waiting, Settling, Forward
  <1>16. ReadersOK' BY <1>2, <1>14, Enough, ReadersStep DEF InJournal
  <1>17. MutatingOK(w)'
    BY <1>1, <1>2, <1>5, <1>11, <1>12 DEF MutatingOK, Unswapped
  <1>18. RecoveringOK(w)' BY <1>2 DEF RecoveringOK, Recovering, Settling, Forward
  <1>19. WhereTheyStand' BY <1>2, <1>17, <1>18, Enough, HolderStands
  <1> QED BY <1>13, <1>15, <1>16, <1>19 DEF Standing

\* What a writer between the pointer and its completed record may rely on.
LEMMA MovedEnough ==
  ASSUME Promise, NEW w \in Writers, pc[w] \in Undecided
  PROVE  /\ pc[w] \notin {"idle", "lane"} /\ Pending = {call[w].op} /\ tx[call[w].op].dir
         /\ Moved(call[w].op, call[w].gen, call[w].expected)
         /\ Selected(call[w].op) /\ Open(call[w].op)
         /\ Readable(call[w].gen) /\ call[w].op \in OwnersIn(call[w].gen)
         /\ Mirrored(call[w].gen) /\ Has(call[w].gen, call[w].op) => Full(call[w].gen)
  <1>1. pc[w] \notin {"idle", "lane"} BY DEF Undecided, AfterSwap
  <1>2. Pending = {call[w].op} /\ Moved(call[w].op, call[w].gen, call[w].expected)
    BY <1>1, Enough DEF MutatingOK, Mutating
  <1>3. Selected(call[w].op) /\ Open(call[w].op)
    BY <1>1, <1>2, Enough DEF Moved, Selected, Open, Grown
  <1>4. PICK o \in Ops, g \in Generations, e \in Generations :
          o = call[w].op /\ g = call[w].gen /\ e = call[w].expected
    BY <1>1, Enough
  <1>5. Full(e) /\ Grown(g, e, o) /\ o \notin OwnersIn(e) /\ g \in dirs
    BY <1>1, <1>2, <1>4, Enough DEF Moved
  <1>6. /\ Readable(g) /\ o \in OwnersIn(g)
        /\ Mirrored(g) /\ Has(g, o) => Full(g)
    BY <1>1, <1>5, Enough, GrownIsReadable
  <1>7. tx[o].dir BY <1>2, <1>4 DEF Pending
  <1> QED BY <1>1, <1>2, <1>3, <1>4, <1>6, <1>7

LEMMA ACommit == ASSUME Promise, TypeInv', NEW w \in Writers, Commit(w) PROVE Standing'
  <1>1. /\ pc[w] = "commit" /\ Go(w, "ledger") /\ pc[w] \in Undecided
        /\ UNCHANGED <<pointer, dirs, content, ledger, root, owner, reader, calls, call, acked, failed>>
    BY DEF Commit, At, Undecided, AfterSwap, files, bounds, history
  <1>2. pc[w] \notin {"idle", "lane"} /\ pc'[w] = "ledger" BY <1>1, Enough DEF Go
  <1>3. PICK o \in Ops, g \in Generations, e \in Generations :
          o = call[w].op /\ g = call[w].gen /\ e = call[w].expected
    BY <1>2, Enough
  <1>4. PICK t : t = [tx[o] EXCEPT !.phases = @ \cup {"committed"}] OBVIOUS
  <1>5. tx' = [tx EXCEPT ![o] = t] BY <1>3, <1>4 DEF Commit, Journal, Mine
  <1>6. Moved(o, g, e) /\ Pending = {o} /\ tx[o].dir /\ Selected(o)
    BY <1>1, <1>3, MovedEnough
  <1>7. t \in TxRecords /\ t.dir /\ t.gen = g /\ Live(t) /\ "prepared" \in t.phases
    BY <1>2, <1>3, <1>4, <1>6, Enough DEF Moved, Live, TxRecords, Phases
  <1>8. tx'[o] = t /\ (\A q \in Ops : q # o => tx'[q] = tx[q]) /\ Pending' = {o}
    BY <1>1, <1>2, <1>5, <1>6, <1>7, Enough, JournalWritten
  <1>9. Moved(o, g, e)'
    <2>1. \A f \in Files : content[e][f] \subseteq root'[f] BY <1>1, <1>6 DEF Moved, Full, Mirrored
    <2> QED BY <1>1, <1>2, <1>6, <1>7, <1>8, <2>1, Enough, MovedStays
  <1>10. Open(o)' BY <1>1, <1>6, <1>7, <1>8 DEF Open, Selected, Moved, Live
  <1>11. MutatingOK(w)' BY <1>1, <1>2, <1>3, <1>8, <1>9 DEF MutatingOK, Unswapped
  <1>12. RecoveringOK(w)' BY <1>2 DEF RecoveringOK, Recovering, Settling, Forward
  <1>13. \A d \in dirs : \A i \in Inputs :
           <<o, i>> \in ledger[d] => <<o, i>> \in ledger[pointer.gen] \/ t.gen = d
    BY <1>2, <1>6, <1>7, Enough DEF RowsIn, Moved
  <1>14. t.gen = tx[o].gen BY <1>6, <1>7 DEF Moved
  <1>15. "ledger" \notin Waiting BY DEF Waiting, Settling, Forward
  <1> QED BY <1>1, <1>2, <1>3, <1>5, <1>6, <1>7, <1>10, <1>11, <1>12, <1>13, <1>14, <1>15, AJournal

\* The completed record: the operation is done.
LEMMA AComplete == ASSUME Promise, TypeInv', NEW w \in Writers, Complete(w) PROVE Standing'
  <1>1. /\ pc[w] = "complete" /\ Go(w, "remove") /\ pc[w] \in Undecided
        /\ UNCHANGED <<pointer, dirs, content, ledger, root, owner, reader, calls, call, acked, failed>>
    BY DEF Complete, At, Undecided, AfterSwap, files, bounds, history
  <1>2. pc[w] \notin {"idle", "lane"} /\ pc'[w] = "remove" BY <1>1, Enough DEF Go
  <1>3. PICK o \in Ops, g \in Generations : o = call[w].op /\ g = call[w].gen
    BY <1>2, Enough
  <1>4. PICK t : t = Closed(tx[o], "success") OBVIOUS
  <1>5. tx' = [tx EXCEPT ![o] = t] BY <1>3, <1>4 DEF Complete, Journal, Mine
  <1>6. /\ Pending = {o} /\ tx[o].dir /\ Selected(o) /\ tx[o].gen = g /\ pointer.gen = g
        /\ "prepared" \in tx[o].phases
    BY <1>1, <1>3, MovedEnough DEF Moved, Live
  <1>7. Full(pointer.gen)
    BY <1>1, <1>2, <1>3, <1>6, Enough, MovedEnough DEF MutatingOK
  <1>8. t \in TxRecords /\ t.dir /\ t.gen = g /\ "prepared" \in t.phases
    <2>1. t \in TxRecords BY <1>2, <1>3, <1>4, <1>6, Enough, ClosedSound DEF TypeInv, TxOK
    <2> QED BY <1>4, <1>6, <2>1 DEF Closed
  <1>9. tx'[o] = t /\ Pending' = {o} /\ Full(pointer.gen)'
    BY <1>1, <1>2, <1>5, <1>6, <1>7, <1>8, Enough, JournalWritten
  <1>10. Done(o)' BY <1>1, <1>6, <1>8, <1>9 DEF Done, Selected
  <1>11. MutatingOK(w)' BY <1>1, <1>2, <1>3, <1>9, <1>10 DEF MutatingOK, Unswapped, Undecided, AfterSwap
  <1>12. RecoveringOK(w)' BY <1>2 DEF RecoveringOK, Recovering, Settling, Forward
  <1>13. \A d \in dirs : \A i \in Inputs :
           <<o, i>> \in ledger[d] => <<o, i>> \in ledger[pointer.gen] \/ t.gen = d
    BY <1>2, <1>6, <1>8, Enough DEF RowsIn
  <1>14. "remove" \notin Waiting BY DEF Waiting, Settling, Forward
  <1> QED BY <1>1, <1>2, <1>5, <1>6, <1>8, <1>10, <1>11, <1>12, <1>13, <1>14, AJournal

-----------------------------------------------------------------------------
(* Ledger rows. *)

\* The selected generation is given the record of an edit it has.
LEMMA RowAdded ==
  ASSUME TypeInv, AtRest, NEW o \in Ops, o \in OwnersIn(pointer.gen), NEW i \in Inputs,
         ledger' = [ledger EXCEPT ![pointer.gen] = @ \cup {<<o, i>>}],
         UNCHANGED <<pointer, dirs, content, root, tx, owner, acked>>
  PROVE  /\ AtRest' /\ Pending' = Pending /\ Has(pointer.gen, o)'
         /\ Edits(pointer.gen)' = Edits(pointer.gen)
         /\ Mirrored(pointer.gen)' = Mirrored(pointer.gen)
         /\ \A q \in Ops : /\ Selected(q)' = Selected(q)
                           /\ Done(q) => Done(q)'
                           /\ Open(q) => Open(q)'
                           /\ Undone(q) => Undone(q)'
                           /\ Over(q) => Over(q)'
  <1>1. PICK p \in Generations : p = pointer.gen BY SelectedDocument
  <1>2. /\ ledger'[p] = ledger[p] \cup {<<o, i>>}
        /\ \A d \in Generations : d # p => ledger'[d] = ledger[d]
    BY <1>1 DEF TypeInv, DiskOK
  <1>3. Readable(p)' /\ OwnersIn(p)' = OwnersIn(p) /\ Edits(p)' = Edits(p)
    <2>1. Readable(p) /\ o \in OwnersIn(p) BY <1>1 DEF AtRest
    <2>2. p \in dirs' /\ content'[p] = content[p] BY <2>1 DEF Readable
    <2>3. \A q \in Ops, j \in Inputs :
            <<q, j>> \in ledger'[p] => <<q, j>> \in ledger[p] \/ q \in OwnersIn(p)
      BY <1>2, <2>1
    <2> QED BY <1>2, <2>1, <2>2, <2>3, ReadableKept
  <1>4. Full(p) => Full(p)'
    <2> SUFFICES ASSUME Full(p) PROVE Full(p)' OBVIOUS
    <2>1. Mirrored(p)' BY DEF Full, Mirrored
    <2>2. p # 0 => Has(p, owner[p])' BY <1>2 DEF Full, Has
    <2> QED BY <1>3, <2>1, <2>2 DEF Full
  <1>5. Has(p, o)' BY <1>2 DEF Has
  <1>6. Mirrored(p)' = Mirrored(p) BY DEF Mirrored
  <1>7. pointer'.gen = p BY <1>1
  <1>8. RowsIn(p)'
    <2> SUFFICES ASSUME NEW d \in dirs, NEW q \in Ops, NEW j \in Inputs, <<q, j>> \in ledger'[d], d # p
                 PROVE  <<q, j>> \in ledger'[p] \/ (tx[q].dir /\ tx[q].gen = d)
      BY DEF RowsIn
    <2>1. <<q, j>> \in ledger[d] BY <1>2 DEF TypeInv, DiskOK
    <2> QED BY <1>1, <1>2, <2>1 DEF AtRest, RowsIn
  <1>9. Pending' = Pending /\ Pending \subseteq Ops BY DEF Pending
  <1>10. ASSUME NEW q \in Ops
         PROVE  /\ Selected(q)' = Selected(q)
                /\ Done(q) => Done(q)'
                /\ Open(q) => Open(q)'
                /\ Undone(q) => Undone(q)'
                /\ Over(q) => Over(q)'
    <2>1. Selected(q)' = Selected(q) BY DEF Selected
    <2>2. Full(pointer.gen) => Full(pointer.gen)' BY <1>1, <1>4, <1>7
    <2>3. OwnersIn(pointer.gen)' = OwnersIn(pointer.gen) BY <1>1, <1>3, <1>7
    <2>4. Done(q) => Done(q)' BY <2>1, <2>2 DEF Done
    <2>5. Open(q) => Open(q)' BY <2>1 DEF Open, Live
    <2>6. Undone(q) => Undone(q)' BY <2>2, <2>3 DEF Undone, Live
    <2>7. Over(q) => Over(q)' BY <2>4, <2>6 DEF Over
    <2> QED BY <2>1, <2>4, <2>5, <2>6, <2>7
  <1>11. JournalsOK' BY <1>9, <1>10 DEF AtRest, JournalsOK
  <1>12. AtRest' BY <1>1, <1>3, <1>4, <1>7, <1>8, <1>9, <1>11 DEF AtRest
  <1> QED BY <1>1, <1>3, <1>5, <1>6, <1>7, <1>9, <1>10, <1>12

LEMMA ARecord ==
  ASSUME Promise, TypeInv', NEW w \in Writers, pc[w] \notin {"idle", "lane"},
         NEW there, there # "idle", Go(w, there), there \in Waiting => pc[w] \in Waiting,
         NEW o \in Ops, o \in OwnersIn(pointer.gen), NEW i \in Inputs,
         ledger' = [ledger EXCEPT ![pointer.gen] = @ \cup {<<o, i>>}],
         UNCHANGED <<pointer, dirs, content, root, tx, owner, reader, calls, call, acked, failed>>,
         (MutatingOK(w) /\ RecoveringOK(w))'
  PROVE  Standing'
  <1>1. AtRest' /\ Edits(pointer.gen)' = Edits(pointer.gen) BY Enough, RowAdded
  <1>2. NumbersOK' BY <1>1, Enough, NumbersStep
  <1>3. ReadersOK' BY <1>1, Enough, ReadersStep DEF InJournal
  <1>4. WhereTheyStand' BY Enough, HolderStands
  <1> QED BY <1>1, <1>2, <1>3, <1>4 DEF Standing

LEMMA AWriteLedger == ASSUME Promise, TypeInv', NEW w \in Writers, WriteLedger(w) PROVE Standing'
  <1>1. /\ pc[w] = "ledger" /\ Go(w, "materialize") /\ pc[w] \in Undecided
        /\ UNCHANGED <<pointer, dirs, content, root, tx, owner, reader, calls, call, acked, failed>>
    BY DEF WriteLedger, At, Undecided, AfterSwap, bounds, history
  <1>2. pc[w] \notin {"idle", "lane"} /\ pc'[w] = "materialize" BY <1>1, Enough DEF Go
  <1>3. PICK o \in Ops, g \in Generations, e \in Generations, i \in Inputs :
          o = call[w].op /\ g = call[w].gen /\ e = call[w].expected /\ i = call[w].input
    BY <1>2, Enough
  <1>4. Moved(o, g, e) /\ Pending = {o} /\ tx[o].dir /\ pointer.gen = g /\ o \in OwnersIn(g)
    BY <1>1, <1>3, MovedEnough DEF Moved
  <1>5. ledger' = [ledger EXCEPT ![g] = @ \cup {<<o, i>>}] BY <1>3 DEF WriteLedger, Record
  <1>6. Pending' = Pending /\ Has(pointer.gen, o)'
    BY <1>1, <1>2, <1>4, <1>5, Enough, RowAdded
  <1>7. Moved(o, g, e)'
    <2>1. \A f \in Files : content[e][f] \subseteq root'[f] BY <1>1, <1>4 DEF Moved, Full, Mirrored
    <2>2. tx'[o].dir /\ tx'[o].gen = g /\ Live(tx'[o]) BY <1>1, <1>4 DEF Moved
    <2> QED BY <1>1, <1>2, <1>4, <1>5, <2>1, <2>2, Enough, MovedStays
  <1>8. Has(g, o)' BY <1>1, <1>4, <1>6
  <1>9. MutatingOK(w)' BY <1>1, <1>2, <1>3, <1>4, <1>6, <1>7, <1>8 DEF MutatingOK, Unswapped
  <1>10. RecoveringOK(w)' BY <1>2 DEF RecoveringOK, Recovering, Settling, Forward
  <1>11. "materialize" \notin Waiting BY DEF Waiting, Settling, Forward
  <1> QED BY <1>1, <1>2, <1>4, <1>5, <1>9, <1>10, <1>11, ARecord

LEMMA AMaterialize == ASSUME Promise, TypeInv', NEW w \in Writers, Materialize(w) PROVE Standing'
  <1>1. /\ pc[w] = "materialize" /\ Go(w, "complete") /\ pc[w] \in Undecided
        /\ UNCHANGED <<pointer, dirs, content, ledger, tx, owner, reader, calls, call, acked, failed>>
    BY DEF Materialize, At, Undecided, AfterSwap, files, bounds, history
  <1>2. pc[w] \notin {"idle", "lane"} /\ pc'[w] = "complete" BY <1>1, Enough DEF Go
  <1>3. PICK o \in Ops, g \in Generations, e \in Generations :
          o = call[w].op /\ g = call[w].gen /\ e = call[w].expected
    BY <1>2, Enough
  <1>4. /\ Moved(o, g, e) /\ Pending = {o} /\ tx[o].dir /\ pointer.gen = g
        /\ tx[o].gen = g /\ Live(tx[o])
    BY <1>1, <1>3, MovedEnough DEF Moved
  <1>5. root' = content[g] BY <1>3 DEF Materialize
  <1>6. Mirrored(g)' BY <1>1, <1>5 DEF Mirrored
  <1>7. Mirrored(pointer.gen)' BY <1>1, <1>4, <1>6
  <1>8. Moved(o, g, e)'
    <2>1. \A f \in Files : content[e][f] \subseteq root'[f] BY <1>4, <1>5 DEF Moved, Grown
    <2> QED BY <1>1, <1>2, <1>4, <2>1, Enough, MovedStays
  <1>9. Has(g, o)' BY <1>1, <1>2, <1>3, Enough DEF MutatingOK, Has
  <1>10. Pending' = Pending BY <1>1 DEF Pending
  <1>11. MutatingOK(w)'
    BY <1>1, <1>2, <1>3, <1>4, <1>6, <1>8, <1>9, <1>10 DEF MutatingOK, Unswapped
  <1>12. RecoveringOK(w)' BY <1>2 DEF RecoveringOK, Recovering, Settling, Forward
  <1>13. "complete" \notin Waiting BY DEF Waiting, Settling, Forward
  <1> QED BY <1>1, <1>2, <1>7, <1>11, <1>12, <1>13, AMove

-----------------------------------------------------------------------------
(* Recovery. *)

\* What recovery may rely on while it settles one journal.
LEMMA SettlingEnough ==
  ASSUME Promise, NEW w \in Writers, pc[w] \in Settling
  PROVE  /\ pc[w] \notin {"idle", "lane"} /\ recovery.op \in Ops
         /\ recovery.op \in recovery.todo /\ recovery.todo \subseteq Pending
         /\ ~recovery.stuck => Pending \subseteq recovery.todo
         /\ Pending = {recovery.op} /\ tx[recovery.op].dir /\ Mending \in TxRecords
         /\ RecoveringOK(w) /\ pc[w] \in Waiting
         /\ recovery.op \in OwnersIn(pointer.gen) \/ ~Selected(recovery.op)
  <1>1. pc[w] \notin {"idle", "lane"} /\ pc[w] \in Recovering /\ pc[w] \in Waiting
    BY DEF Settling, Forward, Recovering, Waiting
  <1>2. recovery.op \in recovery.todo /\ recovery.todo \subseteq Pending
        /\ (~recovery.stuck => Pending \subseteq recovery.todo) /\ RecoveringOK(w)
    BY <1>1, Enough DEF RecoveringOK
  <1>3. Pending = {recovery.op} BY <1>1, <1>2, Enough DEF AtRest, JournalsOK
  <1>4. recovery.op \in Ops /\ tx[recovery.op].dir /\ Mending \in TxRecords
    BY <1>1, <1>3, Enough DEF Pending, Mending, TypeInv, TxOK
  <1>5. Selected(recovery.op) => recovery.op \in OwnersIn(pointer.gen)
    BY <1>1, Enough DEF Selected, OwnersIn, Readable
  <1> QED BY <1>1, <1>2, <1>3, <1>4, <1>5

LEMMA AForwardMaterialize ==
  ASSUME Promise, TypeInv', NEW w \in Writers, ForwardMaterialize(w) PROVE Standing'
  <1>1. /\ pc[w] = "forward-materialize" /\ pc[w] \in Settling
        /\ UNCHANGED <<pointer, dirs, content, ledger, tx, owner, reader, calls, call, acked, failed>>
    BY DEF ForwardMaterialize, At, Settling, Forward, files, bounds, history
  <1>2. pc[w] \notin {"idle", "lane"} /\ pc[w] \in Waiting BY <1>1, SettlingEnough
  <1>3. PICK o \in Ops : o = recovery.op BY <1>1, SettlingEnough
  <1>4. Selected(o) /\ Mending.gen = pointer.gen /\ Mending.gen \in dirs
    BY <1>1, <1>2, <1>3, Enough, SettlingEnough DEF RecoveringOK, Forward, Selected, Mending
  <1>5. root' = content[pointer.gen] /\ Go(w, "forward-ledger") /\ recovery' = recovery
    BY <1>4 DEF ForwardMaterialize
  <1>6. Mirrored(pointer.gen)' BY <1>1, <1>5 DEF Mirrored
  <1>7. Pending' = Pending /\ Selected(o)' BY <1>1, <1>4 DEF Pending, Selected
  <1>8. pc'[w] = "forward-ledger" BY <1>2, <1>5, Enough DEF Go
  <1>9. MutatingOK(w)' BY <1>8 DEF MutatingOK, Mutating, Unswapped, Undecided, AfterSwap
  <1>10. RecoveringOK(w)'
    BY <1>1, <1>3, <1>5, <1>6, <1>7, <1>8, SettlingEnough DEF RecoveringOK, Settling, Forward
  <1> QED BY <1>1, <1>2, <1>5, <1>6, <1>9, <1>10, AMove

LEMMA AForwardLedger ==
  ASSUME Promise, TypeInv', NEW w \in Writers, ForwardLedger(w) PROVE Standing'
  <1>1. /\ pc[w] = "forward-ledger" /\ pc[w] \in Settling /\ Go(w, "forward-close") /\ recovery' = recovery
        /\ UNCHANGED <<pointer, dirs, content, root, tx, owner, reader, calls, call, acked, failed>>
    BY DEF ForwardLedger, At, Settling, Forward, bounds, history
  <1>2. pc[w] \notin {"idle", "lane"} /\ pc[w] \in Waiting BY <1>1, SettlingEnough
  <1>3. "prepared" \in Mending.phases /\ Sound(Mending) BY <1>1, <1>2, Enough, TMending DEF Forward
  <1>4. PICK o \in Ops, i \in Inputs : o = recovery.op /\ i = Mending.input
    BY <1>1, <1>3, SettlingEnough DEF Sound
  <1>5. Selected(o) /\ Mending.gen = pointer.gen /\ o \in OwnersIn(pointer.gen) /\ Mirrored(pointer.gen)
    BY <1>1, <1>2, <1>4, Enough, SettlingEnough DEF RecoveringOK, Forward, Selected, Mending
  <1>6. ledger' = [ledger EXCEPT ![pointer.gen] = @ \cup {<<o, i>>}]
    BY <1>4, <1>5 DEF ForwardLedger, Record
  <1>7. /\ Pending' = Pending /\ Selected(o)' /\ Has(pointer.gen, o)' /\ Mirrored(pointer.gen)'
    BY <1>1, <1>2, <1>5, <1>6, Enough, RowAdded
  <1>8. pc'[w] = "forward-close" BY <1>1, <1>2, Enough DEF Go
  <1>9. MutatingOK(w)' BY <1>8 DEF MutatingOK, Mutating, Unswapped, Undecided, AfterSwap
  <1>10. RecoveringOK(w)'
    BY <1>1, <1>4, <1>7, <1>8, SettlingEnough DEF RecoveringOK, Settling, Forward
  <1> QED BY <1>1, <1>2, <1>5, <1>6, <1>9, <1>10, ARecord

\* Only what is done was closed as a success.
LEMMA ASettleLedger ==
  ASSUME Promise, TypeInv', NEW w \in Writers, SettleLedger(w) PROVE Standing'
  <1>1. /\ pc[w] = "settle-ledger" /\ pc[w] \in Settling /\ Go(w, "sweep") /\ recovery' = recovery
        /\ UNCHANGED <<pointer, dirs, content, root, tx, owner, reader, calls, call, acked, failed>>
    BY DEF SettleLedger, At, Settling, Forward, bounds, history
  <1>2. pc[w] \notin {"idle", "lane"} /\ pc[w] \in Waiting BY <1>1, SettlingEnough
  <1>3. PICK o \in Ops : o = recovery.op BY <1>1, SettlingEnough
  <1>4. Over(o) BY <1>1, <1>2, <1>3, Enough DEF RecoveringOK
  <1>5. pc'[w] = "sweep" BY <1>1, <1>2, Enough DEF Go
  <1>6. MutatingOK(w)' BY <1>5 DEF MutatingOK, Mutating, Unswapped, Undecided, AfterSwap
  <1>7. Pending' = Pending BY <1>1 DEF Pending
  <1>8. CASE Mending.outcome = "success"
    <2>1. Done(o) BY <1>3, <1>4, <1>8 DEF Over, Undone, Mending
    <2>2. Mending.gen = pointer.gen /\ o \in OwnersIn(pointer.gen)
      BY <1>1, <1>3, <2>1, SettlingEnough DEF Done, Selected, Mending
    <2>3. Sound(Mending) BY <1>1, <1>2, Enough, TMending
    <2>4. PICK i \in Inputs : i = Mending.input BY <1>8, <2>3 DEF Sound
    <2>5. ledger' = [ledger EXCEPT ![pointer.gen] = @ \cup {<<o, i>>}]
      BY <1>3, <1>8, <2>2, <2>4 DEF SettleLedger, Record
    <2>6. Over(o)' BY <1>1, <1>2, <1>4, <2>2, <2>5, Enough, RowAdded
    <2>7. RecoveringOK(w)'
      BY <1>1, <1>3, <1>5, <1>7, <2>6, SettlingEnough DEF RecoveringOK, Settling, Forward
    <2> QED BY <1>1, <1>2, <1>6, <2>2, <2>5, <2>7, ARecord
  <1>9. CASE Mending.outcome # "success"
    <2>1. UNCHANGED ledger BY <1>9 DEF SettleLedger
    <2>2. Mirrored(pointer.gen) => Mirrored(pointer.gen)' BY <1>1 DEF Mirrored
    <2>3. acked' \subseteq acked \cup OwnersIn(pointer.gen) BY <1>1
    <2>4. Over(o)' BY <1>1, <1>2, <1>4, <2>1, <2>2, <2>3, Enough, RestStays
    <2>5. RecoveringOK(w)'
      BY <1>1, <1>3, <1>5, <1>7, <2>4, SettlingEnough DEF RecoveringOK, Settling, Forward
    <2> QED BY <1>1, <1>2, <1>6, <2>1, <2>2, <2>5, AMove
  <1> QED BY <1>8, <1>9

\* A journal is closed: rolled forward it is done, rolled back there is nothing left to undo.
LEMMA AClose ==
  ASSUME Promise, TypeInv', NEW w \in Writers, ForwardClose(w) \/ BackClose(w) PROVE Standing'
  <1>1. /\ pc[w] \in {"forward-close", "back-close"} /\ pc[w] \in Settling /\ Go(w, "sweep")
        /\ UNCHANGED <<pointer, dirs, content, ledger, root, owner, reader, calls, call, acked, failed>>
        /\ recovery' = recovery
    BY DEF ForwardClose, BackClose, At, Settling, Forward, files, bounds, history
  <1>2. /\ pc[w] \notin {"idle", "lane"} /\ pc[w] \in Waiting /\ pc'[w] = "sweep"
    BY <1>1, Enough, SettlingEnough DEF Go
  <1>3. PICK o \in Ops : o = recovery.op BY <1>1, SettlingEnough
  <1>4. Pending = {o} /\ tx[o].dir /\ o \in recovery.todo BY <1>1, <1>3, SettlingEnough
  <1>5. PICK result \in {"success", "rolled-back"} :
          /\ tx' = [tx EXCEPT ![o] = Closed(tx[o], result)]
          /\ result = "success" <=> pc[w] = "forward-close"
    BY <1>1, <1>3 DEF ForwardClose, BackClose, Mending, At
  <1>6. PICK t : t = Closed(tx[o], result) OBVIOUS
  <1>7. /\ t \in TxRecords /\ t.dir /\ t.gen = tx[o].gen /\ t.outcome = result
        /\ tx[o].phases \subseteq t.phases
    <2>1. result = "success" => "prepared" \in tx[o].phases
      BY <1>1, <1>2, <1>3, <1>5, Enough, TMending DEF Forward, Mending
    <2>2. t \in TxRecords BY <1>2, <1>6, <2>1, Enough, ClosedSound DEF TypeInv, TxOK
    <2> QED BY <1>6, <2>2 DEF Closed
  <1>8. /\ tx'[o] = t /\ Pending' = {o}
        /\ Full(pointer.gen) => Full(pointer.gen)'
        /\ OwnersIn(pointer.gen)' = OwnersIn(pointer.gen)
    BY <1>1, <1>2, <1>4, <1>5, <1>6, <1>7, Enough, JournalWritten
  <1>9. Over(o)'
    <2>1. CASE pc[w] = "forward-close"
      <3>1. Selected(o) /\ Mirrored(pointer.gen) /\ Has(pointer.gen, o)
        BY <1>1, <1>2, <1>3, <2>1, Enough DEF RecoveringOK, Forward
      <3>2. Full(pointer.gen) BY <1>2, <3>1, Enough DEF Full, Selected
      <3> QED BY <1>1, <1>7, <1>8, <3>1, <3>2 DEF Over, Done, Selected
    <2>2. CASE pc[w] = "back-close"
      <3>1. Over(o) BY <1>2, <1>3, <2>2, Enough DEF RecoveringOK
      <3>2. CASE Done(o) BY <1>1, <1>7, <1>8, <3>2 DEF Over, Done, Selected
      <3>3. CASE Undone(o) /\ tx[o].gen \notin dirs
        BY <1>1, <1>5, <1>7, <1>8, <2>2, <3>3 DEF Over, Undone
      <3> QED BY <3>1, <3>2, <3>3 DEF Over
    <2> QED BY <1>1, <2>1, <2>2
  <1>10. MutatingOK(w)' BY <1>2 DEF MutatingOK, Mutating, Unswapped, Undecided, AfterSwap
  <1>11. RecoveringOK(w)'
    BY <1>1, <1>2, <1>3, <1>4, <1>8, <1>9, SettlingEnough DEF RecoveringOK, Settling, Forward
  <1>12. (Done(o) \/ Open(o) \/ Undone(o))' BY <1>9 DEF Over
  <1>13. \A d \in dirs : \A i \in Inputs :
           <<o, i>> \in ledger[d] => <<o, i>> \in ledger[pointer.gen] \/ t.gen = d
    BY <1>2, <1>7, Enough DEF RowsIn
  <1> QED BY <1>1, <1>2, <1>4, <1>5, <1>6, <1>7, <1>10, <1>11, <1>12, <1>13, AJournal

-----------------------------------------------------------------------------
(* Generations that go. *)

LEMMA RestShrinks ==
  ASSUME TypeInv, dirs' \subseteq dirs, pointer.gen \in dirs',
         UNCHANGED <<pointer, content, ledger, root, tx, owner, acked>>
  PROVE  /\ AtRest => AtRest'
         /\ Pending' = Pending /\ Edits(pointer.gen)' = Edits(pointer.gen)
         /\ \A o \in Ops : /\ Done(o) => Done(o)'
                           /\ Open(o) => Open(o)'
                           /\ Undone(o) => Undone(o)'
  <1>1. PICK p \in Generations : p = pointer.gen BY SelectedDocument
  <1>2. Readable(p) => Readable(p)'
    <2> SUFFICES ASSUME Readable(p) PROVE Readable(p)' OBVIOUS
    <2>1. p \in dirs' BY <1>1
    <2> QED BY <2>1, ReadableKept
  <1>3. Full(p) => Full(p)'
    <2> SUFFICES ASSUME Full(p) PROVE Full(p)' OBVIOUS
    <2>1. p \in dirs' BY <1>1
    <2>2. \A f \in Files : content[p][f] \subseteq root'[f] BY DEF Full, Mirrored
    <2> QED BY <2>1, <2>2, FullKept
  <1>4. pointer'.gen = p BY <1>1
  <1>5. OwnersIn(pointer.gen)' = OwnersIn(pointer.gen) /\ Edits(pointer.gen)' = Edits(pointer.gen)
    BY DEF OwnersIn, Edits
  <1>6. RowsIn(p) => RowsIn(p)' BY DEF RowsIn
  <1>7. Pending' = Pending /\ Pending \subseteq Ops BY DEF Pending
  <1>8. Readable(pointer.gen) => Readable(pointer.gen)' BY <1>1, <1>2, <1>4
  <1>9. Full(pointer.gen) => Full(pointer.gen)' BY <1>1, <1>3, <1>4
  <1>10. RowsIn(pointer.gen) => RowsIn(pointer.gen)' BY <1>1, <1>4, <1>6
  <1>11. ASSUME NEW o \in Ops
         PROVE  /\ Done(o) => Done(o)'
                /\ Open(o) => Open(o)'
                /\ Undone(o) => Undone(o)'
    <2>1. Selected(o)' = Selected(o) BY DEF Selected
    <2> QED BY <1>5, <1>9, <2>1 DEF Done, Open, Undone, Live
  <1>12. JournalsOK => JournalsOK' BY <1>7, <1>11 DEF JournalsOK
  <1> QED BY <1>5, <1>7, <1>8, <1>9, <1>10, <1>11, <1>12 DEF AtRest

LEMMA AShrink ==
  ASSUME Promise, TypeInv', NEW w \in Writers, pc[w] \notin {"idle", "lane"},
         NEW there, Go(w, there), there \in Waiting => pc[w] \in Waiting,
         dirs' \subseteq dirs, pointer.gen \in dirs',
         UNCHANGED <<pointer, content, ledger, root, tx, owner, reader, calls, acked, failed>>,
         \A v \in Writers : v # w => call'[v] = call[v],
         call'[w] = call[w] \/ there = "idle",
         (MutatingOK(w) /\ RecoveringOK(w))'
  PROVE  Standing'
  <1>1. AtRest' /\ Edits(pointer.gen)' = Edits(pointer.gen) BY Enough, RestShrinks
  <1>2. NumbersOK' BY <1>1, Enough, NumbersStep
  <1>3. ReadersOK' BY <1>1, Enough, ReadersStep DEF InJournal
  <1>4. WhereTheyStand' BY Enough, HolderStands
  <1> QED BY <1>1, <1>2, <1>3, <1>4 DEF Standing

LEMMA ADiscard == ASSUME Promise, TypeInv', NEW w \in Writers, Discard(w) PROVE Standing'
  <1>1. /\ pc[w] = "discard" /\ Go(w, "fail") /\ dirs' = dirs \ {call[w].gen}
        /\ UNCHANGED <<pointer, content, ledger, root, tx, owner, reader, calls, call, acked, failed>>
    BY DEF Discard, At, bounds, history
  <1>2. pc'[w] = "fail" BY <1>1, Enough DEF Go
  <1>3. PICK o \in Ops, g \in Generations : o = call[w].op /\ g = call[w].gen BY <1>1, Enough
  <1>4. Pending = {o} /\ Undone(o) /\ g \notin Edits(pointer.gen) /\ tx[o].gen \in {None, g}
    BY <1>1, <1>3, Enough DEF MutatingOK, Mutating, Unswapped
  <1>5. pointer.gen \in dirs' BY <1>1, <1>3, <1>4, Enough DEF Readable
  <1>6. /\ Pending' = Pending /\ Edits(pointer.gen)' = Edits(pointer.gen) /\ Undone(o)'
    BY <1>1, <1>4, <1>5, Enough, RestShrinks
  <1>7. g \notin dirs' /\ tx'[o].gen \notin dirs' BY <1>1, <1>3, <1>4, Enough, NoneIsNoDirectory
  <1>8. MutatingOK(w)' BY <1>1, <1>2, <1>3, <1>4, <1>6, <1>7 DEF MutatingOK, Undecided, AfterSwap
  <1>9. RecoveringOK(w)' BY <1>2 DEF RecoveringOK, Recovering, Settling, Forward
  <1>10. "fail" \notin Waiting BY DEF Waiting, Settling, Forward
  <1> QED BY <1>1, <1>5, <1>8, <1>9, <1>10, AShrink

LEMMA ABackDiscard == ASSUME Promise, TypeInv', NEW w \in Writers, BackDiscard(w) PROVE Standing'
  <1>1. /\ pc[w] = "back-discard" /\ pc[w] \in Settling /\ Go(w, "back-close") /\ recovery' = recovery
        /\ dirs' = IF "prepared" \in Mending.phases THEN dirs \ {Mending.gen} ELSE dirs
        /\ UNCHANGED <<pointer, content, ledger, root, tx, owner, reader, calls, call, acked, failed>>
    BY DEF BackDiscard, At, Settling, bounds, history
  <1>2. pc[w] \notin {"idle", "lane"} /\ pc[w] \in Waiting /\ pc'[w] = "back-close"
    BY <1>1, Enough, SettlingEnough DEF Go
  <1>3. PICK o \in Ops : o = recovery.op BY <1>1, SettlingEnough
  <1>4. Undone(o) \/ (Done(o) /\ "prepared" \notin tx[o].phases)
    BY <1>1, <1>2, <1>3, Enough DEF RecoveringOK
  <1>5. "prepared" \in tx[o].phases => Undone(o) /\ tx[o].gen # pointer.gen BY <1>4 DEF Undone
  <1>6. pointer.gen \in dirs' BY <1>1, <1>2, <1>3, <1>5, Enough DEF Mending
  <1>7. Undone(o) => tx[o].gen \notin dirs' BY <1>1, <1>3 DEF Undone, Live, Mending
  <1>8. Pending' = Pending /\ (Done(o) => Done(o)') /\ (Undone(o) => Undone(o)')
    BY <1>1, <1>2, <1>6, Enough, RestShrinks
  <1>9. Over(o)' BY <1>1, <1>4, <1>7, <1>8 DEF Over
  <1>10. MutatingOK(w)' BY <1>2 DEF MutatingOK, Mutating, Unswapped, Undecided, AfterSwap
  <1>11. RecoveringOK(w)'
    BY <1>1, <1>2, <1>3, <1>8, <1>9, SettlingEnough DEF RecoveringOK, Settling, Forward
  <1> QED BY <1>1, <1>2, <1>6, <1>10, <1>11, AShrink

LEMMA ACollectGarbage == ASSUME Promise, TypeInv', NEW w \in Writers, CollectGarbage(w) PROVE Standing'
  <1>1. /\ pc[w] = "recover" /\ recovery.todo = {}
        /\ dirs' = dirs \cap ({pointer.gen} \cup UNION {Named(tx[o]) : o \in Pending})
        /\ UNCHANGED <<pointer, content, ledger, root, tx, owner, reader, calls, acked, failed>>
    BY DEF CollectGarbage, At, bounds, history
  <1>2. dirs' \subseteq dirs /\ pointer.gen \in dirs' BY <1>1, Enough
  <1>3. pc[w] \in Waiting /\ pc[w] \in Recovering BY <1>1 DEF Waiting, Recovering
  <1>4. CASE recovery.stuck
    <2>1. Leave(w) BY <1>4 DEF CollectGarbage
    <2>2. pc'[w] = "idle" /\ \A v \in Writers : v # w => call'[v] = call[v]
      BY <1>1, <2>1, Enough DEF Leave, Go, TypeInv, WritersOK
    <2>3. (MutatingOK(w) /\ RecoveringOK(w))'
      BY <2>2 DEF MutatingOK, RecoveringOK, Mutating, Unswapped, Undecided, AfterSwap,
                  Recovering, Settling, Forward
    <2> QED BY <1>1, <1>2, <1>3, <2>1, <2>2, <2>3, AShrink DEF Leave
  <1>5. CASE ~recovery.stuck
    <2>1. Go(w, "check") /\ call' = call /\ pc'[w] = "check"
      BY <1>1, <1>5, Enough DEF CollectGarbage, Go
    <2>2. Pending' = {} BY <1>1, <1>3, <1>5, Enough DEF RecoveringOK, Pending
    <2>3. (MutatingOK(w) /\ RecoveringOK(w))'
      BY <2>1, <2>2 DEF MutatingOK, RecoveringOK, Mutating, Unswapped, Undecided, AfterSwap,
                        Recovering, Settling, Forward
    <2> QED BY <1>1, <1>2, <1>3, <2>1, <2>3, AShrink
  <1> QED BY <1>4, <1>5

-----------------------------------------------------------------------------
(* Journals that go. *)

\* Of a journal with nothing left to undo any part may be removed.
LEMMA JournalRemoved ==
  ASSUME TypeInv, AtRest, NEW o \in Ops, Over(o), Pending = {o},
         NEW t \in PartlyRemoved(tx[o]), tx' = [tx EXCEPT ![o] = t],
         UNCHANGED <<pointer, dirs, content, ledger, root, owner>>,
         acked' \subseteq acked \cup OwnersIn(pointer.gen)
  PROVE  /\ AtRest' /\ Pending' = IF t.dir THEN {o} ELSE {}
         /\ t \in TxRecords /\ t.gen \in {tx[o].gen, None}
         /\ tx'[o] = t /\ \A q \in Ops : q # o => tx'[q] = tx[q]
         /\ Edits(pointer.gen)' = Edits(pointer.gen)
         /\ \A g \in dirs : InJournal(g) => g \in Edits(pointer.gen)' \/ InJournal(g)'
  <1>1. tx'[o] = t /\ \A q \in Ops : q # o => tx'[q] = tx[q] BY JournalStep DEF TypeInv, TxOK
  <1>2. tx[o] \in TxRecords /\ Sound(tx[o]) BY DEF TypeInv, TxOK
  <1>3. t \in TxRecords BY <1>2, PartlyRemovedSound
  <1>4. Full(pointer.gen) BY DEF Over, Done, Undone
  <1>5. \A d \in dirs : \A i \in Inputs : <<o, i>> \in ledger[d] => <<o, i>> \in ledger[pointer.gen]
    BY DEF AtRest, RowsIn, Over, Done, Selected, Undone
  <1>6. tx[o].dir BY DEF Pending
  <1>7. t = NoTx \/ (t.dir /\ t.gen = tx[o].gen /\ t.outcome = tx[o].outcome)
    BY <1>2, <1>6 DEF PartlyRemoved, TxRecords
  <1>8. ~NoTx.dir /\ NoTx.gen = None BY DEF NoTx
  <1>9. Mirrored(pointer.gen)' = Mirrored(pointer.gen) BY DEF Mirrored
  <1>10. /\ Full(pointer.gen)'
         /\ OwnersIn(pointer.gen)' = OwnersIn(pointer.gen) /\ Edits(pointer.gen)' = Edits(pointer.gen)
    BY <1>4, <1>9, DocumentStays
  <1>11. t.dir => (Done(o) \/ Open(o) \/ Undone(o))'
    BY <1>1, <1>7, <1>8, <1>10 DEF Over, Done, Selected, Undone
  <1>12. AtRest' /\ Pending' = IF t.dir THEN {o} ELSE {}
    BY <1>3, <1>4, <1>5, <1>7, <1>11, JournalStays
  <1>13. ASSUME NEW g \in dirs, InJournal(g) PROVE g \in Edits(pointer.gen)' \/ InJournal(g)'
    <2>1. PICK q \in Ops : tx[q].gen = g /\ "prepared" \in tx[q].phases BY <1>13 DEF InJournal
    <2>2. CASE q # o BY <1>1, <2>1, <2>2 DEF InJournal
    <2>3. CASE q = o
      BY <1>10, <2>1, <2>3 DEF Over, Done, Selected, Undone, AtRest, Readable
    <2> QED BY <2>2, <2>3
  <1> QED BY <1>1, <1>3, <1>7, <1>8, <1>10, <1>12, <1>13

\* mutate() returns and its journal is gone, or part of it is.
LEMMA ARemove ==
  ASSUME Promise, TypeInv', NEW w \in Writers, RemoveTx(w) \/ Dismiss(w) PROVE Standing'
  <1>1. /\ pc[w] \in {"remove", "dismiss"} /\ Remove(w, call[w].op) /\ Leave(w)
        /\ UNCHANGED <<pointer, dirs, content, ledger, root, owner, reader, calls>>
        /\ \/ pc[w] = "remove" /\ acked' = acked \cup {call[w].op} /\ failed' = failed
           \/ pc[w] = "dismiss" /\ acked' = acked /\ failed' = failed \cup {call[w].gen}
    BY DEF RemoveTx, Dismiss, At, files
  <1>2. pc[w] \notin {"idle", "lane"} BY <1>1
  <1>3. PICK o \in Ops : o = call[w].op BY <1>2, Enough
  <1>4. PICK t \in PartlyRemoved(tx[o]) : tx' = [tx EXCEPT ![o] = t]
    BY <1>1, <1>3 DEF Remove, PartlyRemoved
  <1>5. Pending = {o} BY <1>1, <1>2, <1>3, Enough DEF MutatingOK, Mutating, Unswapped
  <1>6. pc[w] = "remove" => Done(o) BY <1>1, <1>3, Enough DEF MutatingOK
  <1>7. pc[w] = "dismiss" => Undone(o) /\ tx[o].gen \notin dirs /\ call[w].gen \notin Edits(pointer.gen)
    BY <1>1, <1>3, Enough DEF MutatingOK, Unswapped
  <1>8. Over(o) BY <1>1, <1>6, <1>7 DEF Over
  <1>9. acked' \subseteq acked \cup OwnersIn(pointer.gen)
    BY <1>1, <1>2, <1>3, <1>6, Enough DEF Done, Selected, OwnersIn, Readable
  <1>10. /\ AtRest' /\ t.gen \in {tx[o].gen, None}
         /\ tx'[o] = t /\ \A q \in Ops : q # o => tx'[q] = tx[q]
         /\ Edits(pointer.gen)' = Edits(pointer.gen)
         /\ \A g \in dirs : InJournal(g) => g \in Edits(pointer.gen)' \/ InJournal(g)'
    BY <1>1, <1>2, <1>4, <1>5, <1>8, <1>9, Enough, JournalRemoved
  <1>11. NumbersOK'
    <2>1. \A v \in Writers : v # w => call'[v] = call[v] BY <1>1, <1>2, Enough DEF Leave, TypeInv, WritersOK
    <2>2. "idle" \notin Waiting BY DEF Waiting, Settling, Forward
    <2>3. \A q \in Ops : tx'[q].gen \in {tx[q].gen, None} BY <1>10
    <2>4. Go(w, "idle") BY <1>1 DEF Leave
    <2> QED BY <1>1, <1>2, <1>7, <1>10, <2>1, <2>2, <2>3, <2>4, Enough, NumbersStep
  <1>12. ReadersOK' BY <1>1, <1>2, <1>10, Enough, ReadersStep
  <1>13. WhereTheyStand' BY <1>1, <1>2, Enough, HolderLeaves DEF Leave
  <1> QED BY <1>10, <1>11, <1>12, <1>13 DEF Standing

\* Recovery goes on with no journal left: this needs the removal to succeed.
LEMMA ASweep ==
  ASSUME UndoSucceeds, Promise, TypeInv', NEW w \in Writers, Sweep(w) PROVE Standing'
  <1>1. /\ pc[w] = "sweep" /\ pc[w] \in Settling /\ Go(w, "recover")
        /\ UNCHANGED <<pointer, dirs, content, ledger, root, owner, reader, calls, call, acked, failed>>
    BY DEF Sweep, At, Settling, files, history
  <1>2. pc[w] \notin {"idle", "lane"} /\ pc[w] \in Waiting /\ pc'[w] = "recover"
    BY <1>1, Enough, SettlingEnough DEF Go
  <1>3. PICK o \in Ops : o = recovery.op BY <1>1, SettlingEnough
  <1>4. Pending = {o} /\ Over(o) /\ recovery.todo \subseteq {o}
    BY <1>1, <1>2, <1>3, Enough, SettlingEnough DEF RecoveringOK
  <1>5. tx' = [tx EXCEPT ![o] = NoTx]
    BY <1>1, <1>3 DEF Sweep, Remove, MayFault, At, UndoSucceeds
  <1>6. recovery'.todo = {}
    BY <1>1, <1>2, <1>3, <1>4, Enough DEF Sweep, TypeInv, WritersOK, Recoveries
  <1>7. /\ AtRest' /\ Pending' = {}
        /\ tx'[o] = NoTx /\ \A q \in Ops : q # o => tx'[q] = tx[q]
        /\ Edits(pointer.gen)' = Edits(pointer.gen)
        /\ \A g \in dirs : InJournal(g) => g \in Edits(pointer.gen)' \/ InJournal(g)'
    <2>1. NoTx \in PartlyRemoved(tx[o]) /\ ~NoTx.dir BY DEF PartlyRemoved, NoTx
    <2>2. acked' \subseteq acked \cup OwnersIn(pointer.gen) BY <1>1
    <2> QED BY <1>1, <1>2, <1>4, <1>5, <2>1, <2>2, Enough, JournalRemoved
  <1>8. NumbersOK'
    <2>1. \A q \in Ops : tx'[q].gen \in {tx[q].gen, None} BY <1>7 DEF NoTx
    <2> QED BY <1>1, <1>2, <1>7, <2>1, Enough, NumbersStep
  <1>9. ReadersOK' BY <1>1, <1>2, <1>7, Enough, ReadersStep
  <1>10. MutatingOK(w)' BY <1>2 DEF MutatingOK, Mutating, Unswapped, Undecided, AfterSwap
  <1>11. RecoveringOK(w)' BY <1>2, <1>6, <1>7 DEF RecoveringOK, Settling, Forward
  <1>12. WhereTheyStand' BY <1>1, <1>2, <1>10, <1>11, Enough, HolderStands
  <1> QED BY <1>7, <1>8, <1>9, <1>12 DEF Standing

-----------------------------------------------------------------------------
(* abort(). *)

LEMMA ARestore == ASSUME Promise, TypeInv', NEW w \in Writers, Restore(w) PROVE Standing'
  <1>1. /\ pc[w] = "restore" /\ Go(w, "discard") /\ pc[w] \in Undecided
        /\ UNCHANGED <<dirs, content, ledger, root, tx, owner, reader, calls, call, acked, failed>>
    BY DEF Restore, At, Undecided, files, bounds, history
  <1>2. pc[w] \notin {"idle", "lane"} /\ pc'[w] = "discard" BY <1>1, Enough DEF Go
  <1>3. PICK o \in Ops, g \in Generations, e \in Generations :
          o = call[w].op /\ g = call[w].gen /\ e = call[w].expected /\ e < g
    BY <1>2, Enough
  <1>4. pointer'.gen = e
    <2>1. pointer' = Selecting(e, FALSE) BY <1>3 DEF Restore
    <2>2. e <= calls BY <1>2, <1>3, Enough, TEnough, StoreAssumption DEF Generations, TypeInv, OthersOK
    <2> QED BY <1>2, <2>1, <2>2, TSelecting, Enough DEF TypeInv
  <1>5. /\ Moved(o, g, e) /\ Pending = {o} /\ pointer.gen = g
    BY <1>1, <1>3, MovedEnough DEF Moved
  <1>6. /\ Full(e) /\ RowsIn(e) /\ Grown(g, e, o) /\ o \notin OwnersIn(e)
        /\ tx[o].gen = g /\ Live(tx[o])
    BY <1>5 DEF Moved
  <1>7. Full(e)' /\ OwnersIn(e)' = OwnersIn(e) /\ Edits(e)' = Edits(e)
    <2>1. Mirrored(e) => Mirrored(e)' BY <1>1 DEF Mirrored
    <2> QED BY <1>1, <1>2, <1>6, <2>1, Enough, DocumentsStay
  <1>8. RowsIn(e)' BY <1>1, <1>6 DEF RowsIn
  <1>9. Pending' = Pending BY <1>1 DEF Pending
  <1>10. e # g /\ g \notin Edits(e) /\ Edits(g) = {g} \cup Edits(e)
    BY <1>6 DEF Grown, Full, Readable
  <1>11. Undone(o)'
    BY <1>1, <1>4, <1>6, <1>7, <1>10 DEF Undone, Live
  <1>12. AtRest'
    <2>1. JournalsOK' BY <1>1, <1>2, <1>5, <1>9, <1>11, Enough DEF AtRest, JournalsOK
    <2> QED BY <1>4, <1>7, <1>8, <2>1 DEF AtRest, Full
  <1>13. Edits(pointer.gen)' = Edits(e) /\ Edits(pointer.gen) = {g} \cup Edits(e)
    BY <1>4, <1>5, <1>7, <1>10
  <1>14. NumbersOK'
    BY <1>1, <1>2, <1>13, Enough, NumbersStep DEF Waiting, Settling, Forward
  <1>15. ReadersOK'
    <2>1. \A d : InJournal(d)' = InJournal(d) BY <1>1 DEF InJournal
    <2>2. InJournal(g) BY <1>6 DEF InJournal, Live
    <2> QED BY <1>1, <1>2, <1>13, <2>1, <2>2, Enough, ReadersStep
  <1>16. MutatingOK(w)'
    BY <1>1, <1>2, <1>3, <1>5, <1>6, <1>9, <1>10, <1>11, <1>13 DEF MutatingOK, Undecided, AfterSwap
  <1>17. RecoveringOK(w)' BY <1>2 DEF RecoveringOK, Recovering, Settling, Forward
  <1>18. WhereTheyStand' BY <1>1, <1>2, <1>16, <1>17, Enough, HolderStands
  <1> QED BY <1>12, <1>14, <1>15, <1>18 DEF Standing

LEMMA ACloseFailed == ASSUME Promise, TypeInv', NEW w \in Writers, CloseFailed(w) PROVE Standing'
  <1>1. /\ pc[w] = "fail" /\ Go(w, "dismiss")
        /\ UNCHANGED <<pointer, dirs, content, ledger, root, owner, reader, calls, call, acked, failed>>
    BY DEF CloseFailed, At, files, bounds, history
  <1>2. pc[w] \notin {"idle", "lane"} /\ pc'[w] = "dismiss" BY <1>1, Enough DEF Go
  <1>3. PICK o \in Ops, g \in Generations, e \in Generations :
          o = call[w].op /\ g = call[w].gen /\ e = call[w].expected
    BY <1>2, Enough
  <1>4. PICK t : t = Aborted(tx[o], g, e) OBVIOUS
  <1>5. tx' = [tx EXCEPT ![o] = t] BY <1>3, <1>4 DEF CloseFailed, Journal, Mine
  <1>6. /\ Pending = {o} /\ Undone(o) /\ g \notin Edits(pointer.gen)
        /\ g \notin dirs /\ tx[o].gen \notin dirs
    BY <1>1, <1>3, Enough DEF MutatingOK, Mutating, Unswapped
  <1>7. t \in TxRecords /\ t.dir /\ t.gen = g /\ t.outcome = "failed"
    <2>1. t \in TxRecords BY <1>2, <1>3, <1>4, Enough, AbortedSound DEF TypeInv, TxOK
    <2> QED BY <1>4, <2>1 DEF Aborted
  <1>8. /\ tx'[o] = t /\ Pending' = {o} /\ Full(pointer.gen)' /\ o \notin OwnersIn(pointer.gen)'
        /\ Edits(pointer.gen)' = Edits(pointer.gen)
    <2>1. Full(pointer.gen) /\ o \notin OwnersIn(pointer.gen) BY <1>6 DEF Undone
    <2> QED BY <1>1, <1>2, <1>5, <1>6, <1>7, <2>1, Enough, JournalWritten
  <1>9. Undone(o)' BY <1>1, <1>2, <1>6, <1>7, <1>8, Enough DEF Undone
  <1>10. MutatingOK(w)'
    BY <1>1, <1>2, <1>3, <1>6, <1>7, <1>8, <1>9 DEF MutatingOK, Undecided, AfterSwap
  <1>11. RecoveringOK(w)' BY <1>2 DEF RecoveringOK, Recovering, Settling, Forward
  <1>12. \A d \in dirs : \A i \in Inputs : <<o, i>> \in ledger[d] => <<o, i>> \in ledger[pointer.gen]
    BY <1>2, <1>6, Enough DEF RowsIn
  <1>13. "dismiss" \notin Waiting BY DEF Waiting, Settling, Forward
  <1> QED BY <1>1, <1>2, <1>3, <1>5, <1>6, <1>7, <1>9, <1>10, <1>11, <1>12, <1>13, AJournal

\* A closing record that could not be written is done without.
LEMMA AFailClose == ASSUME Promise, TypeInv', NEW w \in Writers, FailClose(w) PROVE Standing'
  <1>1. UNCHANGED <<pointer, dirs, content, ledger, root, tx, owner, reader, calls, call, acked, failed>>
        /\ recovery' = recovery
    BY DEF FailClose, files, history
  <1>2. Mirrored(pointer.gen) => Mirrored(pointer.gen)' BY <1>1 DEF Mirrored
  <1>3. acked' \subseteq acked \cup OwnersIn(pointer.gen) BY <1>1
  <1>4. Pending' = Pending /\ Edits(pointer.gen)' = Edits(pointer.gen) BY <1>1 DEF Pending, Edits
  <1>5. CASE pc[w] = "fail" /\ Go(w, "dismiss")
    <2>1. pc[w] \notin {"idle", "lane"} /\ pc'[w] = "dismiss" BY <1>5, Enough DEF Go
    <2>2. PICK o \in Ops : o = call[w].op BY <2>1, Enough
    <2>3. Undone(o)'
      <3>1. Undone(o) BY <1>5, <2>1, <2>2, Enough DEF MutatingOK, Unswapped
      <3> QED BY <1>1, <1>2, <1>3, <2>1, <3>1, Enough, RestStays
    <2>4. MutatingOK(w)'
      BY <1>1, <1>4, <1>5, <2>1, <2>2, <2>3, Enough
         DEF MutatingOK, Mutating, Unswapped, Undecided, AfterSwap
    <2>5. RecoveringOK(w)' BY <2>1 DEF RecoveringOK, Recovering, Settling, Forward
    <2>6. "dismiss" \notin Waiting BY DEF Waiting, Settling, Forward
    <2> QED BY <1>1, <1>2, <1>5, <2>1, <2>4, <2>5, <2>6, AMove
  <1>6. CASE pc[w] = "back-close" /\ Go(w, "sweep")
    <2>1. /\ pc[w] \in Settling /\ pc[w] \in Waiting /\ pc[w] \notin {"idle", "lane"} /\ pc'[w] = "sweep"
      BY <1>6, Enough DEF Go, Settling, Waiting
    <2>2. PICK o \in Ops : o = recovery.op BY <2>1, SettlingEnough
    <2>3. Over(o)'
      <3>1. Over(o) BY <1>6, <2>1, <2>2, Enough DEF RecoveringOK
      <3> QED BY <1>1, <1>2, <1>3, <2>1, <3>1, Enough, RestStays
    <2>4. MutatingOK(w)' BY <2>1 DEF MutatingOK, Mutating, Unswapped, Undecided, AfterSwap
    <2>5. RecoveringOK(w)'
      BY <1>1, <1>4, <2>1, <2>2, <2>3, SettlingEnough DEF RecoveringOK, Settling, Forward
    <2> QED BY <1>1, <1>2, <1>6, <2>1, <2>4, <2>5, AMove
  <1> QED BY <1>5, <1>6 DEF FailClose, MayFault, At

-----------------------------------------------------------------------------
(* Steps beside the lane holder's. *)

\* Nothing that a writer relies on moves.
LEMMA StandStill ==
  ASSUME TypeInv, NEW v \in Writers, MutatingOK(v), RecoveringOK(v),
         pc'[v] = pc[v], call'[v] = call[v],
         UNCHANGED <<pointer, dirs, content, ledger, root, tx, owner, acked, recovery>>
  PROVE  (MutatingOK(v) /\ RecoveringOK(v))'
  <1>1. PICK o, g, e, q : o = call[v].op /\ g = call[v].gen /\ e = call[v].expected /\ q = recovery.op
    OBVIOUS
  <1>2. \A d : OwnersIn(d)' = OwnersIn(d) /\ Edits(d)' = Edits(d) BY DEF OwnersIn, Edits
  <1>3. \A d, k : Has(d, k)' = Has(d, k) BY DEF Has
  <1>4. \A d : Mirrored(d)' = Mirrored(d) BY DEF Mirrored
  <1>5. \A d : Readable(d)' = Readable(d) BY <1>2, <1>3 DEF Readable
  <1>6. \A d : Full(d)' = Full(d) BY <1>3, <1>4, <1>5 DEF Full
  <1>7. \A d : RowsIn(d)' = RowsIn(d) BY DEF RowsIn
  <1>8. Grown(g, e, o)' = Grown(g, e, o) /\ Grown(g, pointer.gen, o)' = Grown(g, pointer.gen, o)
    BY <1>2 DEF Grown
  <1>9. Full(pointer.gen)' = Full(pointer.gen) /\ OwnersIn(pointer.gen)' = OwnersIn(pointer.gen)
        /\ Edits(pointer.gen)' = Edits(pointer.gen) /\ Mirrored(pointer.gen)' = Mirrored(pointer.gen)
        /\ Has(pointer.gen, q)' = Has(pointer.gen, q)
    <2>1. PICK p : p = pointer.gen OBVIOUS
    <2>2. pointer'.gen = p BY <2>1
    <2> QED BY <1>2, <1>3, <1>4, <1>6, <2>1, <2>2
  <1>10. \A k : Selected(k)' = Selected(k) BY DEF Selected
  <1>11. \A k : Done(k)' = Done(k) BY <1>9, <1>10 DEF Done
  <1>12. \A k : Undone(k)' = Undone(k) BY <1>9 DEF Undone, Live
  <1>13. \A k : Over(k)' = Over(k) BY <1>11, <1>12 DEF Over
  <1>14. Moved(o, g, e)' = Moved(o, g, e) BY <1>2, <1>6, <1>7, <1>8 DEF Moved, Live
  <1>15. Pending' = Pending BY DEF Pending
  <1>16. MutatingOK(v)'
    BY <1>1, <1>3, <1>4, <1>8, <1>9, <1>11, <1>12, <1>14, <1>15 DEF MutatingOK, Live
  <1>17. RecoveringOK(v)'
    BY <1>1, <1>9, <1>10, <1>11, <1>12, <1>13, <1>15 DEF RecoveringOK
  <1> QED BY <1>16, <1>17

\* A step of a writer outside the lane.
LEMMA Beside ==
  ASSUME Promise, NEW w \in Writers, NEW there \in {"idle", "lane"}, Go(w, there),
         \A v \in Writers : v # w => call'[v] = call[v],
         UNCHANGED <<pointer, dirs, content, ledger, root, tx, owner, acked>>,
         lane # w => UNCHANGED recovery
  PROVE  WhereTheyStand'
  <1> SUFFICES ASSUME NEW v \in Writers PROVE (MutatingOK(v) /\ RecoveringOK(v))'
    BY DEF WhereTheyStand
  <1>1. TypeInv /\ WhereTheyStand BY DEF Promise, ResolveInv, Standing
  <1>2. pc'[w] = there /\ \A u \in Writers : u # w => pc'[u] = pc[u]
    BY <1>1 DEF Go, TypeInv, WritersOK
  <1>3. CASE pc'[v] \in {"idle", "lane"}
    BY <1>3 DEF MutatingOK, RecoveringOK, Mutating, Unswapped, Undecided, AfterSwap,
                Recovering, Settling, Forward
  <1>4. CASE pc'[v] \notin {"idle", "lane"}
    <2>1. v # w /\ pc'[v] = pc[v] /\ call'[v] = call[v] BY <1>2, <1>4
    <2>2. lane = v BY <1>1, <1>4, <2>1 DEF TypeInv, WritersOK, LaneHeld
    <2>3. recovery' = recovery BY <2>1, <2>2
    <2> QED BY <1>1, <2>1, <2>3, StandStill DEF WhereTheyStand
  <1> QED BY <1>3, <1>4

\* The state at rest, as it is.
LEMMA RestAsItIs ==
  ASSUME Promise, UNCHANGED <<pointer, dirs, content, ledger, root, tx, owner, acked>>
  PROVE  AtRest' /\ Edits(pointer.gen)' = Edits(pointer.gen) /\ \A g : InJournal(g)' = InJournal(g)
  <1>1. TypeInv /\ AtRest BY DEF Promise, ResolveInv, Standing
  <1>2. acked' \subseteq acked \cup OwnersIn(pointer.gen) OBVIOUS
  <1>3. Mirrored(pointer.gen) => Mirrored(pointer.gen)' BY DEF Mirrored
  <1> QED BY <1>1, <1>2, <1>3, RestStays DEF Edits, InJournal

LEMMA ALane == ASSUME Promise, TypeInv', NEW w \in Writers, Acquire(w) \/ GiveUp(w) PROVE Standing'
  <1>1. /\ pc[w] = "lane" /\ UNCHANGED <<pointer, dirs, content, ledger, root, tx, owner, reader, calls,
                                         acked, failed, recovery>>
        /\ \/ lane = None /\ Go(w, "entered") /\ call' = call
           \/ Go(w, "idle") /\ call' = [call EXCEPT ![w] = NoCall]
    BY DEF Acquire, GiveUp, At, disk, bounds, history
  <1>2. TypeInv /\ NumbersOK /\ ReadersOK /\ pc \in [Writers -> PcValues] /\ call \in [Writers -> Calls]
    BY DEF Promise, ResolveInv, Standing, TypeInv, WritersOK
  <1>3. AtRest' /\ Edits(pointer.gen)' = Edits(pointer.gen) /\ \A g : InJournal(g)' = InJournal(g)
    BY <1>1, RestAsItIs
  <1>4. pc[w] \in Waiting /\ "entered" \in Waiting /\ "idle" \notin Waiting
    BY <1>1 DEF Waiting, Settling, Forward
  <1>5. \A v \in Writers : v # w => call'[v] = call[v] BY <1>1, <1>2
  <1>6. NumbersOK'
    <2>1. CASE Go(w, "entered") /\ call' = call
      BY <1>1, <1>2, <1>3, <1>4, <2>1, NumbersStep
    <2>2. CASE Go(w, "idle") BY <1>1, <1>2, <1>3, <1>4, <1>5, <2>2, NumbersStep
    <2> QED BY <1>1, <2>1, <2>2
  <1>7. ReadersOK' BY <1>1, <1>2, <1>3, ReadersStep
  <1>8. WhereTheyStand'
    <2>1. CASE Go(w, "idle") BY <1>1, <1>5, <2>1, Beside
    <2>2. CASE lane = None /\ Go(w, "entered")
      <3>1. None \notin Writers BY StoreAssumption
      <3>2. \A v \in Writers : pc[v] \in {"idle", "lane"}
        BY <1>2, <2>2, <3>1 DEF TypeInv, WritersOK, LaneHeld
      <3>3. \A v \in Writers : pc'[v] \in {"idle", "lane", "entered"} BY <1>2, <2>2, <3>2 DEF Go
      <3> QED BY <3>3 DEF WhereTheyStand, MutatingOK, RecoveringOK, Mutating, Unswapped, Undecided,
                          AfterSwap, Recovering, Settling, Forward
    <2> QED BY <1>1, <2>1, <2>2
  <1> QED BY <1>3, <1>6, <1>7, <1>8 DEF Standing

\* The number of a new call is nowhere yet.
LEMMA ACall ==
  ASSUME Promise, TypeInv', NEW w \in Writers, NEW o \in Ops, NEW i \in Inputs, Call(w, o, i)
  PROVE  Standing'
  <1>1. /\ pc[w] = "idle" /\ Go(w, "lane") /\ calls' = calls + 1
        /\ call' = [call EXCEPT ![w] = [op |-> o, input |-> i, expected |-> pointer.gen, gen |-> calls + 1]]
        /\ UNCHANGED <<pointer, dirs, content, ledger, root, tx, owner, reader, acked, failed, recovery>>
    BY DEF Call, At, disk, history
  <1>2. TypeInv /\ NumbersOK /\ ReadersOK /\ pc \in [Writers -> PcValues] /\ call \in [Writers -> Calls]
        /\ calls \in Nat
    BY StoreAssumption DEF Promise, ResolveInv, Standing, TypeInv, WritersOK, OthersOK
  <1>3. AtRest' /\ Edits(pointer.gen)' = Edits(pointer.gen) /\ \A g : InJournal(g)' = InJournal(g)
    BY <1>1, RestAsItIs
  <1>4. /\ pc'[w] = "lane" /\ call'[w].gen = calls + 1
        /\ \A v \in Writers : v # w => pc'[v] = pc[v] /\ call'[v] = call[v]
    BY <1>1, <1>2 DEF Go
  <1>5. NumbersOK'
    <2>1. calls + 1 \notin 0..calls /\ 0..calls \subseteq 0..(calls + 1) /\ calls + 1 # None
      BY <1>2, StoreAssumption
    <2>2. Unseen(calls + 1) BY <1>2, <2>1 DEF NumbersOK, Unseen
    <2>3. \A v \in Writers : pc[v] # "idle" => call[v].gen # calls + 1
      BY <1>2 DEF TypeInv, WritersOK, CallShape, Generations
    <2>4. \A v \in Writers : pc'[v] # "idle" => call'[v].gen \notin failed'
      BY <1>1, <1>2, <1>4, <2>1 DEF NumbersOK
    <2>5. \A v \in Writers : pc'[v] \in Waiting => Unseen(call'[v].gen)
      BY <1>2, <1>4, <2>2 DEF NumbersOK
    <2>6. \A v \in Writers : pc'[v] \in Waiting =>
            /\ call'[v].gen \notin dirs' /\ call'[v].gen \notin Edits(pointer.gen)'
            /\ \A r \in Readers : reader'[r].gen # call'[v].gen
            /\ \A k \in Ops : tx'[k].gen # call'[v].gen
      BY <1>1, <1>3, <2>5 DEF Unseen
    <2>7. \A u, v \in Writers : (u # v /\ pc'[u] # "idle" /\ pc'[v] # "idle") =>
            call'[u].gen # call'[v].gen
      BY <1>2, <1>4, <2>3 DEF NumbersOK
    <2>8. /\ dirs' \subseteq 0..calls' /\ Edits(pointer.gen)' \subseteq 0..calls' /\ failed' \subseteq 0..calls'
          /\ \A r \in Readers : reader'[r].gen \in 0..calls' \cup {None}
          /\ \A k \in Ops : tx'[k].gen \in 0..calls' \cup {None}
          /\ failed' \cap Edits(pointer.gen)' = {}
      BY <1>1, <1>2, <1>3, <2>1 DEF NumbersOK
    <2> QED BY <2>4, <2>6, <2>7, <2>8 DEF NumbersOK, Unseen
  <1>6. ReadersOK' BY <1>1, <1>2, <1>3, ReadersStep
  <1>7. WhereTheyStand' BY <1>1, <1>4, Beside
  <1> QED BY <1>3, <1>5, <1>6, <1>7 DEF Standing

\* What the unlocked lookup finds of an operation that is not in progress is in the
\* document, and in the parent's where the pointer can still be moved back.
LEMMA LookupIsTrue ==
  ASSUME Promise, NEW o \in Ops, NEW i \in Inputs, i \in Recorded(o), ~InProgress(o)
  PROVE  /\ o \in OwnersIn(pointer.gen)
         /\ \A v \in Writers : pc[v] \in Undecided => o \in OwnersIn(call[v].expected)
  <1>1. PICK d \in dirs : <<o, i>> \in ledger[d] BY DEF Recorded
  <1>2. ~(tx[o].dir /\ Live(tx[o])) BY DEF InProgress, Live
  <1>3. o \in OwnersIn(pointer.gen)
    <2>1. CASE <<o, i>> \in ledger[pointer.gen]
      BY <2>1 DEF Promise, Standing, AtRest, Readable, Has
    <2>2. CASE <<o, i>> \notin ledger[pointer.gen]
      <3>1. tx[o].dir /\ tx[o].gen = d BY <1>1, <2>2 DEF Promise, Standing, AtRest, RowsIn
      <3>2. Done(o) \/ Open(o) \/ Undone(o)
        BY <3>1 DEF Promise, Standing, AtRest, JournalsOK, Pending
      <3>3. ~Open(o) /\ ~Undone(o) BY <1>1, <1>2, <3>1 DEF Open, Undone
      <3>4. Done(o) /\ pointer.gen \in Edits(pointer.gen)
        BY <3>2, <3>3 DEF Promise, Standing, AtRest, Readable
      <3> QED BY <3>4 DEF Done, Selected, OwnersIn
    <2> QED BY <2>1, <2>2
  <1>4. ASSUME NEW v \in Writers, pc[v] \in Undecided PROVE o \in OwnersIn(call[v].expected)
    <2>1. /\ Moved(call[v].op, call[v].gen, call[v].expected) /\ Pending = {call[v].op}
      BY <1>4 DEF Promise, Standing, WhereTheyStand, MutatingOK, Mutating
    <2>2. tx[o].dir => o = call[v].op BY <2>1 DEF Pending
    <2>3. ~tx[o].dir BY <1>2, <2>1, <2>2 DEF Moved
    <2>4. <<o, i>> \in ledger[call[v].expected] BY <1>1, <2>1, <2>3 DEF Moved, RowsIn
    <2> QED BY <2>1, <2>4 DEF Moved, Full, Readable, Has
  <1> QED BY <1>3, <1>4

\* An answer that is true of both documents disturbs nobody.
LEMMA AnswerStands ==
  ASSUME TypeInv, NEW v \in Writers, MutatingOK(v), RecoveringOK(v),
         UNCHANGED <<pointer, dirs, content, ledger, root, tx, owner, pc, call, recovery>>,
         acked' \subseteq acked \cup OwnersIn(pointer.gen),
         pc[v] \in Undecided => acked' \subseteq acked \cup OwnersIn(call[v].expected)
  PROVE  (MutatingOK(v) /\ RecoveringOK(v))'
  <1>1. PICK o, g, e, q : o = call[v].op /\ g = call[v].gen /\ e = call[v].expected /\ q = recovery.op
    OBVIOUS
  <1>2. \A d : Edits(d)' = Edits(d) BY DEF Edits
  <1>3. \A d, k : Has(d, k)' = Has(d, k) BY DEF Has
  <1>4. \A d : Mirrored(d)' = Mirrored(d) BY DEF Mirrored
  <1>5. \A d : OwnersIn(d)' = OwnersIn(d) BY <1>2 DEF OwnersIn
  <1>6. \A d : RowsIn(d)' = RowsIn(d) BY DEF RowsIn
  <1>7. \A d : Full(d) /\ acked' \subseteq acked \cup OwnersIn(d) => Full(d)'
    <2> SUFFICES ASSUME NEW d, Full(d), acked' \subseteq acked \cup OwnersIn(d) PROVE Full(d)'
      OBVIOUS
    <2>1. acked' \subseteq OwnersIn(d) BY DEF Full, Readable
    <2>2. Readable(d)' BY <1>2, <1>3, <1>5, <2>1 DEF Full, Readable
    <2> QED BY <1>3, <1>4, <2>2 DEF Full
  <1>8. Grown(g, e, o)' = Grown(g, e, o) /\ Grown(g, pointer.gen, o)' = Grown(g, pointer.gen, o)
    BY <1>2 DEF Grown
  <1>9. /\ Full(pointer.gen) => Full(pointer.gen)'
        /\ OwnersIn(pointer.gen)' = OwnersIn(pointer.gen)
        /\ Edits(pointer.gen)' = Edits(pointer.gen) /\ Mirrored(pointer.gen)' = Mirrored(pointer.gen)
        /\ Has(pointer.gen, q)' = Has(pointer.gen, q)
    <2>1. PICK p : p = pointer.gen OBVIOUS
    <2>2. pointer'.gen = p BY <2>1
    <2> QED BY <1>2, <1>3, <1>4, <1>5, <1>7, <2>1, <2>2
  <1>10. \A k : Selected(k)' = Selected(k) BY DEF Selected
  <1>11. \A k : Done(k) => Done(k)' BY <1>9, <1>10 DEF Done
  <1>12. \A k : Undone(k) => Undone(k)' BY <1>9 DEF Undone, Live
  <1>13. \A k : Over(k) => Over(k)' BY <1>11, <1>12 DEF Over
  <1>14. Moved(o, g, e) /\ acked' \subseteq acked \cup OwnersIn(e) => Moved(o, g, e)'
    BY <1>5, <1>6, <1>7, <1>8 DEF Moved, Live
  <1>15. Pending' = Pending BY DEF Pending
  <1>16. MutatingOK(v)'
    BY <1>1, <1>3, <1>4, <1>8, <1>9, <1>11, <1>12, <1>14, <1>15 DEF MutatingOK, Live
  <1>17. RecoveringOK(v)'
    BY <1>1, <1>9, <1>10, <1>11, <1>12, <1>13, <1>15 DEF RecoveringOK
  <1> QED BY <1>16, <1>17

\* A lookup answers what the document has, or notes an answer that nothing relies on.
LEMMA AAnswerFromLedger ==
  ASSUME Promise, TypeInv', NEW w \in Writers, NEW o \in Ops, NEW i \in Inputs,
         AnswerFromLedger(w, o, i)
  PROVE  Standing'
  <1>1. /\ i \in Recorded(o) /\ calls' = calls + 1
        /\ acked' = acked \/ (~InProgress(o) /\ acked' = acked \cup {o})
        /\ UNCHANGED <<pointer, dirs, content, ledger, root, tx, owner, reader, failed,
                       pc, call, recovery>>
    BY DEF AnswerFromLedger, disk
  <1>2. TypeInv /\ AtRest /\ NumbersOK /\ ReadersOK /\ WhereTheyStand /\ calls \in Nat
    BY StoreAssumption DEF Promise, ResolveInv, Standing, TypeInv, OthersOK
  <1>3. /\ acked' \subseteq acked \cup OwnersIn(pointer.gen)
        /\ \A v \in Writers : pc[v] \in Undecided => acked' \subseteq acked \cup OwnersIn(call[v].expected)
    BY <1>1, LookupIsTrue
  <1>4. Mirrored(pointer.gen) => Mirrored(pointer.gen)' BY <1>1 DEF Mirrored
  <1>5. AtRest' BY <1>1, <1>2, <1>3, <1>4, RestStays
  <1>6. Edits(pointer.gen)' = Edits(pointer.gen) BY <1>1 DEF Edits
  <1>7. 0..calls \subseteq 0..calls' BY <1>1, <1>2
  <1>8. NumbersOK' BY <1>1, <1>2, <1>6, <1>7 DEF NumbersOK, Unseen
  <1>9. ReadersOK' BY <1>1, <1>2, <1>6 DEF ReadersOK
  <1>10. WhereTheyStand' BY <1>1, <1>2, <1>3, AnswerStands DEF WhereTheyStand
  <1> QED BY <1>5, <1>8, <1>9, <1>10 DEF Standing

\* Whatever a dying process leaves, one journal covers it.
LEMMA ACrash == ASSUME Promise, TypeInv', NEW w \in Writers, Crash(w) PROVE Standing'
  <1>1. /\ pc[w] # "idle" /\ Go(w, "idle") /\ call' = [call EXCEPT ![w] = NoCall]
        /\ lane # w => UNCHANGED recovery
        /\ UNCHANGED <<pointer, dirs, content, ledger, owner, reader, calls, acked, failed>>
    BY DEF Crash, At, files, history
  <1>2. TypeInv /\ AtRest /\ NumbersOK /\ ReadersOK /\ pc \in [Writers -> PcValues]
        /\ call \in [Writers -> Calls]
    BY DEF Promise, ResolveInv, Standing, TypeInv, WritersOK
  <1>3. \A v \in Writers : v # w => call'[v] = call[v] BY <1>1, <1>2
  <1>4. "idle" \notin Waiting BY DEF Waiting, Settling, Forward
  <1>5. acked' \subseteq acked \cup OwnersIn(pointer.gen) BY <1>1
  <1>6. Edits(pointer.gen)' = Edits(pointer.gen) BY <1>1 DEF Edits
  <1>7. CASE pc[w] \in Removing
    <2>1. pc[w] \notin {"idle", "lane"} /\ UNCHANGED root
      BY <1>7 DEF Removing, Crash, At
    <2>2. PICK o \in Ops : o = IF pc[w] = "sweep" THEN recovery.op ELSE call[w].op
      BY <1>7, <2>1, Enough, SettlingEnough DEF Settling
    <2>3. PICK t \in PartlyRemoved(tx[o]) : tx' = [tx EXCEPT ![o] = t]
      BY <1>7, <2>2 DEF Crash, At
    <2>4. Over(o) /\ Pending = {o}
      <3>1. CASE pc[w] = "sweep"
        <4>1. pc[w] \in Settling BY <3>1 DEF Settling
        <4> QED BY <2>1, <2>2, <3>1, <4>1, Enough, SettlingEnough DEF RecoveringOK
      <3>2. CASE pc[w] \in {"remove", "dismiss"}
        BY <2>1, <2>2, <3>2, Enough DEF MutatingOK, Mutating, Unswapped, Over
      <3> QED BY <1>7, <3>1, <3>2 DEF Removing
    <2>5. /\ AtRest' /\ t.gen \in {tx[o].gen, None}
          /\ tx'[o] = t /\ \A q \in Ops : q # o => tx'[q] = tx[q]
          /\ \A g \in dirs : InJournal(g) => g \in Edits(pointer.gen)' \/ InJournal(g)'
      BY <1>1, <1>2, <1>5, <2>1, <2>3, <2>4, JournalRemoved
    <2>6. NumbersOK'
      <3>1. \A q \in Ops : tx'[q].gen \in {tx[q].gen, None} BY <2>5
      <3> QED BY <1>1, <1>2, <1>3, <1>4, <1>6, <3>1, NumbersStep
    <2>7. ReadersOK' BY <1>1, <1>2, <1>6, <2>5, ReadersStep
    <2>8. WhereTheyStand' BY <1>1, <1>2, <2>1, HolderLeaves
    <2> QED BY <2>5, <2>6, <2>7, <2>8 DEF Standing
  <1>8. CASE pc[w] \notin Removing
    <2>1. UNCHANGED tx BY <1>8 DEF Crash
    <2>2. /\ root' = root \/ pc[w] \notin {"idle", "lane"}
          /\ \A f \in Files : root'[f] = root[f] \/ root'[f] = content[pointer.gen][f]
      <3>1. CASE pc[w] = "materialize"
        <4>1. pc[w] \in Undecided BY <3>1 DEF Undecided, AfterSwap
        <4>2. call[w].gen = pointer.gen BY <4>1, MovedEnough DEF Moved
        <4>3. root' \in PartlyCopied(pointer.gen) BY <3>1, <4>2 DEF Crash, At
        <4> QED BY <3>1, <4>3 DEF PartlyCopied
      <3>2. CASE pc[w] = "forward-materialize"
        <4>1. pc[w] \in Settling /\ pc[w] \in Forward BY <3>2 DEF Settling, Forward
        <4>2. Mending.gen = pointer.gen
          BY <3>2, <4>1, Enough DEF RecoveringOK, Selected, Mending
        <4>3. root' \in PartlyCopied(pointer.gen) BY <3>2, <4>2 DEF Crash, At
        <4> QED BY <3>2, <4>3 DEF PartlyCopied
      <3>3. CASE pc[w] \notin {"materialize", "forward-materialize"} BY <3>3 DEF Crash, At
      <3> QED BY <3>1, <3>2, <3>3
    <2>3. Mirrored(pointer.gen) => Mirrored(pointer.gen)' BY <1>1, <2>2 DEF Mirrored
    <2>4. AtRest' BY <1>1, <1>2, <1>5, <2>1, <2>3, RestStays
    <2>5. NumbersOK' BY <1>1, <1>2, <1>3, <1>4, <1>6, <2>1, NumbersStep
    <2>6. ReadersOK' BY <1>1, <1>2, <1>6, <2>1, ReadersStep DEF InJournal
    <2>7. WhereTheyStand'
      <3>1. CASE pc[w] = "lane"
        <4>1. UNCHANGED root BY <3>1 DEF Crash, At
        <4> QED BY <1>1, <1>3, <2>1, <4>1, Beside
      <3>2. CASE pc[w] # "lane" BY <1>1, <1>2, <3>2, HolderLeaves
      <3> QED BY <3>1, <3>2
    <2> QED BY <2>4, <2>5, <2>6, <2>7 DEF Standing
  <1> QED BY <1>7, <1>8

LEMMA AStill ==
  ASSUME Promise, UNCHANGED <<pointer, dirs, content, ledger, root, tx, owner, acked, failed,
                              calls, pc, call, recovery>>
  PROVE  AtRest' /\ Edits(pointer.gen)' = Edits(pointer.gen) /\ WhereTheyStand'
  <1>1. TypeInv /\ WhereTheyStand BY DEF Promise, ResolveInv, Standing
  <1> QED BY <1>1, RestAsItIs, StandStill DEF WhereTheyStand

LEMMA ARead == ASSUME Promise, NEW r \in Readers, Read(r) PROVE Standing'
  <1>1. UNCHANGED <<pointer, dirs, content, ledger, root, tx, owner, acked, failed,
                    calls, pc, call, recovery>>
    BY DEF Read, ReadPointer, PinGeneration, Unpin, disk, bounds, history
  <1>2. AtRest' /\ Edits(pointer.gen)' = Edits(pointer.gen) /\ WhereTheyStand' BY <1>1, AStill
  <1>3. TypeInv /\ AtRest /\ NumbersOK /\ ReadersOK BY DEF Promise, ResolveInv, Standing
  <1>4. /\ \A s \in Readers : s # r => reader'[s] = reader[s]
        /\ \/ reader'[r].gen = pointer.gen
           \/ reader'[r].gen = reader[r].gen /\ reader[r].at # "idle"
           \/ reader'[r] = NoPin
    BY <1>3 DEF Read, ReadPointer, PinGeneration, Unpin, TypeInv, OthersOK
  <1>5. pointer.gen \in Edits(pointer.gen) /\ pointer.gen \in dirs BY <1>3 DEF AtRest, Readable
  <1>6. \A s \in Readers : reader'[s].gen \in {reader[s].gen, None, pointer.gen}
    BY <1>4 DEF NoPin
  <1>7. NumbersOK'
    <2>1. \A s \in Readers : reader'[s].gen \in 0..calls \cup {None} BY <1>3, <1>5, <1>6 DEF NumbersOK
    <2>2. \A v \in Writers : pc[v] \in Waiting =>
            /\ call[v].gen \notin dirs /\ call[v].gen \notin Edits(pointer.gen)
            /\ \A s \in Readers : reader'[s].gen # call[v].gen
            /\ \A k \in Ops : tx[k].gen # call[v].gen
      <3> SUFFICES ASSUME NEW v \in Writers, pc[v] \in Waiting
                   PROVE  /\ Unseen(call[v].gen)
                          /\ \A s \in Readers : reader'[s].gen # call[v].gen
        BY DEF Unseen
      <3>1. Unseen(call[v].gen) BY <1>3 DEF NumbersOK
      <3>2. pc[v] # "idle" BY DEF Waiting, Settling, Forward
      <3>3. call[v].gen # None BY <1>3, <3>2, StoreAssumption DEF TypeInv, WritersOK, CallShape, Generations
      <3> QED BY <1>5, <1>6, <3>1, <3>3 DEF Unseen
    <2> QED BY <1>1, <1>2, <1>3, <2>1, <2>2 DEF NumbersOK, Unseen
  <1>8. ReadersOK'
    <2> SUFFICES ASSUME NEW s \in Readers, reader'[s].at # "idle"
                 PROVE  \/ reader'[s].gen \in Edits(pointer.gen) \/ reader'[s].gen \notin dirs
                        \/ \E o \in Ops : tx[o].gen = reader'[s].gen /\ "prepared" \in tx[o].phases
      BY <1>1, <1>2 DEF ReadersOK
    <2>1. CASE s = r BY <1>3, <1>4, <1>5, <2>1 DEF ReadersOK, NoPin
    <2>2. CASE s # r BY <1>3, <1>4, <2>2 DEF ReadersOK
    <2> QED BY <2>1, <2>2
  <1> QED BY <1>2, <1>7, <1>8 DEF Standing

LEMMA AReplenish == ASSUME Promise, Replenish \/ UNCHANGED vars PROVE Standing'
  <1>1. UNCHANGED <<pointer, dirs, content, ledger, root, tx, owner, acked, failed,
                    calls, pc, call, recovery, reader>>
    BY DEF Replenish, files, bounds, history, vars
  <1>2. AtRest' /\ Edits(pointer.gen)' = Edits(pointer.gen) /\ WhereTheyStand' BY <1>1, AStill
  <1>3. NumbersOK /\ ReadersOK BY DEF Promise, Standing
  <1>4. NumbersOK' BY <1>1, <1>2, <1>3 DEF NumbersOK, Unseen
  <1>5. ReadersOK' BY <1>1, <1>2, <1>3 DEF ReadersOK
  <1> QED BY <1>2, <1>4, <1>5 DEF Standing

-----------------------------------------------------------------------------
(* The invariant. *)

LEMMA PromiseInit == Init => Promise
  <1> SUFFICES ASSUME Init PROVE Promise OBVIOUS
  <1>1. ResolveInv BY ResolveInit
  <1>2. /\ pointer.gen = 0 /\ dirs = {0} /\ calls = 0 /\ acked = {} /\ failed = {}
        /\ 0 \in Generations /\ 0..calls = {0}
        /\ content = [g \in Generations |-> Birth] /\ ledger = [g \in Generations |-> {}] /\ root = Birth
        /\ tx = [o \in Ops |-> NoTx] /\ reader = [r \in Readers |-> NoPin]
        /\ \A w \in Writers : pc[w] = "idle"
    BY StoreAssumption DEF Init, Generations
  <1>3. Edits(0) = {0} BY <1>2 DEF Edits, Birth, Files
  <1>4. \A o : ~Has(0, o) BY <1>2 DEF Has
  <1>5. Readable(0) BY <1>2, <1>3, <1>4 DEF Readable
  <1>6. Full(0) BY <1>2, <1>5 DEF Full, Mirrored
  <1>7. RowsIn(0) BY <1>2 DEF RowsIn
  <1>8. \A o \in Ops : tx[o] = NoTx /\ ~tx[o].dir /\ tx[o].gen = None BY <1>2 DEF NoTx
  <1>9. Pending = {} BY <1>8 DEF Pending
  <1>10. AtRest BY <1>2, <1>5, <1>6, <1>7, <1>8, <1>9 DEF AtRest, JournalsOK
  <1>11. NumbersOK
    BY <1>2, <1>3, <1>8 DEF NumbersOK, Unseen, NoPin, Waiting, Settling, Forward
  <1>12. ReadersOK BY <1>2 DEF ReadersOK, NoPin
  <1>13. WhereTheyStand BY <1>2, Elsewhere DEF WhereTheyStand
  <1> QED BY <1>1, <1>10, <1>11, <1>12, <1>13 DEF Promise, Standing

LEMMA PromiseNext == ASSUME UndoSucceeds PROVE Promise /\ [Next]_vars => Promise'
  <1> SUFFICES ASSUME Promise, [Next]_vars PROVE Promise' OBVIOUS
  <1>1. RestoreSucceeds BY DEF UndoSucceeds, RestoreSucceeds
  <1>2. ResolveInv' BY <1>1, ResolveNext DEF Promise
  <1>3. TypeInv' BY <1>2 DEF ResolveInv
  <1>4. CASE Replenish \/ UNCHANGED vars BY <1>2, <1>4, AReplenish DEF Promise
  <1>5. ASSUME NEW r \in Readers, Read(r) PROVE Promise' BY <1>2, <1>5, ARead DEF Promise
  <1>6. ASSUME NEW w \in Writers, NEW o \in Ops, NEW i \in Inputs, Call(w, o, i) PROVE Promise'
    BY <1>2, <1>3, <1>6, ACall DEF Promise
  <1>10. ASSUME NEW w \in Writers, NEW o \in Ops, NEW i \in Inputs, AnswerFromLedger(w, o, i)
         PROVE  Promise'
    BY <1>2, <1>3, <1>10, AAnswerFromLedger DEF Promise
  <1>7. ASSUME NEW w \in Writers, Step(w) PROVE Standing'
    <2>1. CASE \/ RefuseDepleted(w) \/ Enter(w) \/ Conflict(w) \/ Replay(w) \/ RefuseReuse(w)
               \/ RefuseJournal(w) \/ Begin(w) \/ Acquire(w) \/ GiveUp(w)
      BY <1>3, <2>1, ARefuse, AEnter, ABegin, ALane
    <2>2. CASE \/ WriteIntent(w) \/ Stage(w) \/ StageMissing(w) \/ Prepare(w) \/ SwapPointer(w)
               \/ Commit(w) \/ WriteLedger(w) \/ Materialize(w) \/ Complete(w) \/ RemoveTx(w)
      BY <1>3, <2>2, AWriteIntent, AStage, AStageMissing, APrepare, ASwapPointer, ACommit,
         AWriteLedger, AMaterialize, AComplete, ARemove
    <2>3. CASE Restore(w) \/ Discard(w) \/ CloseFailed(w) \/ Dismiss(w)
      BY <1>3, <2>3, ARestore, ADiscard, ACloseFailed, ARemove
    <2>4. CASE \/ RecoverStick(w) \/ RecoverForward(w) \/ RecoverBack(w) \/ RecoverSettle(w)
               \/ RecoverPanic(w) \/ Unwind(w)
      BY <1>3, <2>4, AStuck, ARecover, ARefuse
    <2>5. CASE \/ ForwardMaterialize(w) \/ ForwardLedger(w) \/ ForwardClose(w)
               \/ BackDiscard(w) \/ BackClose(w) \/ SettleLedger(w) \/ Sweep(w) \/ CollectGarbage(w)
      BY <1>3, <2>5, AForwardMaterialize, AForwardLedger, AClose, ABackDiscard, ASettleLedger,
         ASweep, ACollectGarbage
    <2> QED BY <1>7, <2>1, <2>2, <2>3, <2>4, <2>5 DEF Step
  <1>8. ASSUME NEW w \in Writers, Fail(w) PROVE Standing'
    <2>1. ~FailRestore(w) /\ ~FailDiscard(w)
      BY DEF FailRestore, FailDiscard, MayFault, UndoSucceeds
    <2> QED BY <1>3, <1>8, <2>1, ARefuse, AFailPhase, AFailClose, AStuck DEF Fail
  <1>9. ASSUME NEW w \in Writers, Crash(w) PROVE Standing' BY <1>3, <1>9, ACrash
  <1> QED BY <1>2, <1>4, <1>5, <1>6, <1>7, <1>8, <1>9, <1>10 DEF Next, Promise

\* The invariant holds whenever the errors that the code ignores do not occur.
THEOREM PromiseHolds == ASSUME UndoSucceeds PROVE Spec => []Promise
  <1>1. Init => Promise BY PromiseInit
  <1>2. Promise /\ [Next]_vars => Promise' BY PromiseNext
  <1> QED BY <1>1, <1>2, PTL DEF Spec

-----------------------------------------------------------------------------
(* What it says of the document. *)

LEMMA DocumentIs == Document = Edits(pointer.gen) BY DEF Document, Edits

\* Whatever is open, the selected generation has its own record or an open journal.
LEMMA SelectedIsRecorded ==
  ASSUME Promise, pointer.gen # 0
  PROVE  owner[pointer.gen] \in Ops /\ (Has(pointer.gen, owner[pointer.gen]) \/ tx[owner[pointer.gen]].dir)
  <1>1. AtRest BY DEF Promise, Standing
  <1>2. owner[pointer.gen] \in Ops BY <1>1 DEF AtRest, Readable
  <1>3. CASE Pending = {} BY <1>1, <1>2, <1>3 DEF AtRest, Full
  <1>4. CASE Pending # {}
    <2>1. PICK o \in Pending : Done(o) \/ Open(o) \/ Undone(o) BY <1>1, <1>4 DEF AtRest, JournalsOK
    <2>2. tx[o].dir BY <2>1 DEF Pending
    <2> QED BY <1>2, <2>1, <2>2 DEF Done, Open, Undone, Selected, Full
  <1> QED BY <1>3, <1>4

\* However often an operation is retried, by whom and after which crash, the document
\* contains its edit at most once ("duplicated Operation-ID effect").
THEOREM EffectAtMostOnce == ASSUME UndoSucceeds PROVE Spec => []EffectOnce
  <1>1. Promise => EffectOnce
    BY DocumentIs DEF Promise, Standing, AtRest, Readable, EffectOnce
  <1> QED BY <1>1, PromiseHolds, PTL

\* Every answer stays true: the document keeps every edit answered with success and
\* contains nothing of an attempt answered with an error.
THEOREM AnswersAreKept == ASSUME UndoSucceeds PROVE Spec => []AnswersStayTrue
  <1>1. Promise => AnswersStayTrue
    <2> SUFFICES ASSUME Promise PROVE AnswersStayTrue OBVIOUS
    <2>1. failed \cap Document = {} BY DocumentIs DEF Promise, Standing, NumbersOK
    <2>2. \A o \in acked : \E g \in Document : owner[g] = o
      BY DocumentIs DEF Promise, Standing, AtRest, Readable, OwnersIn
    <2> QED BY <2>1, <2>2 DEF AnswersStayTrue
  <1> QED BY <1>1, PromiseHolds, PTL

\* The generation the pointer selects itself carries the record of every edit in it,
\* its own one excepted while the journal is open: replay survives garbage collection.
THEOREM LedgerIsCarried == ASSUME UndoSucceeds PROVE Spec => []LedgerCoversDocument
  <1>1. Promise => LedgerCoversDocument
    <2> SUFFICES ASSUME Promise, NEW g \in Edits(pointer.gen) \ {0}
                 PROVE  \/ \E i \in Inputs : <<owner[g], i>> \in ledger[pointer.gen]
                        \/ g = pointer.gen /\ tx[owner[g]].dir
      BY DocumentIs DEF LedgerCoversDocument
    <2>1. CASE g = pointer.gen BY <2>1, SelectedIsRecorded DEF Has
    <2>2. CASE g # pointer.gen BY <2>2 DEF Promise, Standing, AtRest, Readable, Has
    <2> QED BY <2>1, <2>2
  <1> QED BY <1>1, PromiseHolds, PTL

\* With nobody mutating and no transaction open, no file at the root is behind the
\* document.
THEOREM RootIsNotBehind == ASSUME UndoSucceeds PROVE Spec => []RootMirrorsDocument
  <1>1. Promise => RootMirrorsDocument
    <2> SUFFICES ASSUME Promise, Pending = {}
                 PROVE  \A f \in DOMAIN root : content[pointer.gen][f] \subseteq root[f]
      BY DEF RootMirrorsDocument
    <2>1. Full(pointer.gen) BY DEF Promise, Standing, AtRest
    <2>2. DOMAIN root = Files BY DEF Promise, ResolveInv, TypeInv, DiskOK
    <2> QED BY <2>1, <2>2 DEF Full, Mirrored
  <1> QED BY <1>1, PromiseHolds, PTL

\* Nobody is given a generation that is still being written.
THEOREM ReadersSeeWholes == ASSUME UndoSucceeds PROVE Spec => []PinnedInDocument
  <1>1. Promise => PinnedInDocument
    BY DocumentIs DEF Promise, Standing, ReadersOK, PinnedInDocument
  <1> QED BY <1>1, PromiseHolds, PTL

-----------------------------------------------------------------------------
(* What a step may never do. *)

\* The selected generation outlives the step, with all its records.
LEMMA SelectedSurvives ==
  ASSUME UndoSucceeds, Promise, [Next]_vars
  PROVE  pointer.gen \in dirs' /\ ledger[pointer.gen] \subseteq ledger'[pointer.gen]
  <1>1. /\ pointer.gen \in dirs /\ ledger \in [Generations -> SUBSET (Ops \X Inputs)]
        /\ pointer.gen \in Generations
    BY SelectedDocument DEF Promise, Standing, AtRest, Readable, ResolveInv, TypeInv, DiskOK
  <1>2. CASE UNCHANGED <<dirs, ledger>> BY <1>1, <1>2
  <1>3. ASSUME NEW w \in Writers, Stage(w)
        PROVE pointer.gen \in dirs' /\ ledger[pointer.gen] \subseteq ledger'[pointer.gen]
    <2>1. pc[w] = "stage" BY <1>3 DEF Stage, At
    <2>2. call[w].gen # pointer.gen BY <1>1, <2>1, Enough DEF NumbersOK, Waiting, Unseen
    <2> QED BY <1>1, <1>3, <2>2 DEF Stage
  <1>4. ASSUME NEW o, NEW i, NEW g, Record(o, i, g), UNCHANGED dirs
        PROVE pointer.gen \in dirs' /\ ledger[pointer.gen] \subseteq ledger'[pointer.gen]
    BY <1>1, <1>4 DEF Record
  <1>5. ASSUME NEW w \in Writers, Discard(w)
        PROVE pointer.gen \in dirs' /\ ledger[pointer.gen] \subseteq ledger'[pointer.gen]
    <2>1. pc[w] = "discard" BY <1>5 DEF Discard, At
    <2>2. call[w].gen # pointer.gen BY <2>1, Enough DEF MutatingOK, Unswapped, Readable
    <2> QED BY <1>1, <1>5, <2>2 DEF Discard
  <1>6. ASSUME NEW w \in Writers, BackDiscard(w)
        PROVE pointer.gen \in dirs' /\ ledger[pointer.gen] \subseteq ledger'[pointer.gen]
    <2>1. pc[w] = "back-discard" BY <1>6 DEF BackDiscard, At
    <2>2. "prepared" \in Mending.phases => Mending.gen # pointer.gen
      BY <2>1, Enough DEF RecoveringOK, Undone, Mending
    <2> QED BY <1>1, <1>6, <2>2 DEF BackDiscard
  <1>7. ASSUME NEW w \in Writers, CollectGarbage(w)
        PROVE pointer.gen \in dirs' /\ ledger[pointer.gen] \subseteq ledger'[pointer.gen]
    BY <1>1, <1>7 DEF CollectGarbage
  <1>8. CASE UNCHANGED vars \/ Replenish \/ \E r \in Readers : Read(r)
    BY <1>2, <1>8 DEF vars, Replenish, Read, ReadPointer, PinGeneration, Unpin, disk, files
  <1>9. ASSUME NEW w \in Writers,
               \/ \E o \in Ops, i \in Inputs : Call(w, o, i) \/ AnswerFromLedger(w, o, i)
               \/ Fail(w) \/ Crash(w)
        PROVE UNCHANGED <<dirs, ledger>>
    BY <1>9 DEF Call, AnswerFromLedger, Fail, FailIntent, FailPhase, FailRestore, FailDiscard, FailClose, FailRecovery,
                Crash, disk, files
  <1>10. ASSUME NEW w \in Writers, Step(w)
         PROVE  \/ UNCHANGED <<dirs, ledger>> \/ Stage(w) \/ Discard(w) \/ BackDiscard(w) \/ CollectGarbage(w)
                \/ UNCHANGED dirs /\ \E o, i, g : Record(o, i, g)
    <2>1. CASE \/ RefuseDepleted(w) \/ Enter(w) \/ Conflict(w) \/ Replay(w) \/ RefuseReuse(w)
               \/ RefuseJournal(w) \/ Begin(w) \/ Acquire(w) \/ GiveUp(w) \/ WriteIntent(w)
               \/ StageMissing(w) \/ Prepare(w) \/ SwapPointer(w) \/ Commit(w)
               \/ Materialize(w) \/ Complete(w) \/ RemoveTx(w) \/ Restore(w) \/ CloseFailed(w) \/ Dismiss(w)
      BY <2>1 DEF RefuseDepleted, Enter, Conflict, Replay, RefuseReuse, RefuseJournal, Begin, Acquire,
                  GiveUp, WriteIntent, StageMissing, Prepare, SwapPointer, Commit, Materialize,
                  Complete, RemoveTx, Restore, CloseFailed, Dismiss, disk, files
    <2>2. CASE \/ RecoverStick(w) \/ RecoverForward(w) \/ RecoverBack(w) \/ RecoverSettle(w)
               \/ RecoverPanic(w) \/ Unwind(w) \/ ForwardMaterialize(w) \/ ForwardClose(w)
               \/ BackClose(w) \/ Sweep(w)
      BY <2>2 DEF RecoverStick, RecoverForward, RecoverBack, RecoverSettle, RecoverPanic, Unwind,
                  ForwardMaterialize, ForwardClose, BackClose, Sweep, Take, disk, files
    <2>3. CASE WriteLedger(w) \/ ForwardLedger(w) \/ SettleLedger(w)
      BY <2>3 DEF WriteLedger, ForwardLedger, SettleLedger
    <2> QED BY <1>10, <2>1, <2>2, <2>3 DEF Step
  <1> QED BY <1>2, <1>3, <1>4, <1>5, <1>6, <1>7, <1>8, <1>9, <1>10 DEF Next

\* A retry is answered the same at any time: what is recorded for an operation without
\* an open transaction is recorded in the selected generation, and nothing takes it back.
THEOREM RecordsStay == ASSUME UndoSucceeds PROVE Spec => RecordedStays
  <1>1. Promise /\ [Next]_vars => \A o \in Ops : ~tx[o].dir => Recorded(o) \subseteq Recorded(o)'
    <2> SUFFICES ASSUME Promise, [Next]_vars, NEW o \in Ops, ~tx[o].dir, NEW i \in Inputs,
                        NEW d \in dirs, <<o, i>> \in ledger[d]
                 PROVE  \E g \in dirs' : <<o, i>> \in ledger'[g]
      BY DEF Recorded
    <2>1. <<o, i>> \in ledger[pointer.gen] BY DEF Promise, Standing, AtRest, RowsIn
    <2> QED BY <2>1, SelectedSurvives
  <1> QED BY <1>1, PromiseHolds, PTL DEF Spec, RecordedStays

-----------------------------------------------------------------------------
(* The store implements AtomicDocument. *)

Applied == {<<owner[g], g>> : g \in SettledDocument \ {0}}

Abstractly == Atomic!Next \/ UNCHANGED <<Applied, acked, early, failed>>

\* The document of the abstract specification, by where the lane holder stands.
LEMMA SettledBefore ==
  ASSUME TypeInv, NEW w \in Writers, pc[w] \notin {"idle", "lane"}
  PROVE  SettledDocument = IF pc[w] \in Undecided THEN Edits(call[w].expected) ELSE Edits(pointer.gen)
  <1>1. lane = w BY DEF TypeInv, WritersOK, LaneHeld
  <1>2. \A v \in Writers : pc[v] \in Undecided => v = w
    BY <1>1 DEF TypeInv, WritersOK, LaneHeld, Undecided, AfterSwap
  <1> QED BY <1>1, <1>2 DEF SettledDocument, Document, Edits

LEMMA SettledAfter ==
  ASSUME TypeInv, NEW w \in Writers, pc[w] \notin {"idle", "lane"}, NEW there, Go(w, there),
         there \in Undecided => UNCHANGED <<lane, call>>
  PROVE  SettledDocument' = IF there \in Undecided THEN content'[call[w].expected]["assets"]
                                                   ELSE content'[pointer'.gen]["assets"]
  <1>1. lane = w BY DEF TypeInv, WritersOK, LaneHeld
  <1>2. pc'[w] = there /\ \A v \in Writers : v # w => pc'[v] = pc[v]
    BY DEF Go, TypeInv, WritersOK
  <1>3. \A v \in Writers : pc'[v] \in Undecided => v = w
    BY <1>1, <1>2 DEF TypeInv, WritersOK, LaneHeld, Undecided, AfterSwap
  <1> QED BY <1>1, <1>2, <1>3 DEF SettledDocument, Document

\* It stays as it is unless its edits change.
LEMMA AppliedStays ==
  ASSUME SettledDocument' = SettledDocument, \A h \in SettledDocument : owner'[h] = owner[h]
  PROVE  Applied' = Applied
  BY DEF Applied

\* A step of the lane holder on one side of its pointer's move.
LEMMA SameSide ==
  ASSUME Promise, NEW w \in Writers, pc[w] \notin {"idle", "lane"},
         NEW there, Go(w, there), there \in Undecided <=> pc[w] \in Undecided,
         there \in Undecided => UNCHANGED <<lane, call>>,
         UNCHANGED <<pointer, content, owner>>
  PROVE  Applied' = Applied
  <1>1. SettledDocument' = SettledDocument
    BY Enough, SettledBefore, SettledAfter DEF Edits
  <1> QED BY <1>1, AppliedStays

LEMMA StageApplies == ASSUME Promise, NEW w \in Writers, Stage(w) PROVE Applied' = Applied
  <1>1. /\ pc[w] = "stage" /\ Go(w, "prepare") /\ pointer' = pointer
        /\ content' = [content EXCEPT ![call[w].gen] = Staged(call[w].gen)]
        /\ owner' = [owner EXCEPT ![call[w].gen] = call[w].op]
    BY DEF Stage, At
  <1>2. pc[w] \notin {"idle", "lane"} /\ pc[w] \notin Undecided /\ "prepare" \notin Undecided
    BY <1>1 DEF Undecided, AfterSwap
  <1>3. call[w].gen \notin Edits(pointer.gen) /\ call[w].gen # pointer.gen
    BY <1>1, <1>2, Enough DEF NumbersOK, Waiting, Unseen
  <1>4. SettledDocument = Edits(pointer.gen) BY <1>2, Enough, SettledBefore
  <1>5. SettledDocument' = content'[pointer'.gen]["assets"]
    BY <1>1, <1>2, Enough, SettledAfter
  <1>6. content'[pointer.gen] = content[pointer.gen]
    BY <1>1, <1>2, <1>3, Enough DEF TypeInv, DiskOK
  <1>7. SettledDocument' = SettledDocument BY <1>1, <1>4, <1>5, <1>6 DEF Edits
  <1>8. \A h \in Edits(pointer.gen) : h \in Generations
    <2>1. content[pointer.gen] \in [Files -> SUBSET Generations] BY <1>2, Enough DEF TypeInv, DiskOK
    <2> QED BY <2>1 DEF Edits, Files
  <1>9. \A h \in SettledDocument : owner'[h] = owner[h]
    BY <1>1, <1>2, <1>3, <1>4, <1>8, Enough DEF TypeInv, DiskOK
  <1> QED BY <1>7, <1>9, AppliedStays

\* Moving the pointer, and moving it back, leaves it to be decided.
LEMMA SwapApplies == ASSUME Promise, NEW w \in Writers, SwapPointer(w) PROVE Applied' = Applied
  <1>1. /\ pc[w] = "swap" /\ Go(w, "commit") /\ UNCHANGED <<lane, call, content, owner>>
    BY DEF SwapPointer, At, files, history
  <1>2. pc[w] \notin {"idle", "lane"} /\ pc[w] \notin Undecided /\ "commit" \in Undecided
    BY <1>1 DEF Undecided, AfterSwap
  <1>3. pointer.gen = call[w].expected BY <1>1 DEF Promise, ResolveInv, Here
  <1>4. SettledDocument' = SettledDocument
    BY <1>1, <1>2, <1>3, Enough, SettledBefore, SettledAfter DEF Edits
  <1> QED BY <1>1, <1>4, AppliedStays

LEMMA RestoreApplies == ASSUME Promise, NEW w \in Writers, Restore(w) PROVE Applied' = Applied
  <1>1. /\ pc[w] = "restore" /\ Go(w, "discard") /\ UNCHANGED <<content, owner>>
        /\ pointer' = Selecting(call[w].expected, FALSE)
    BY DEF Restore, At, files, history
  <1>2. pc[w] \notin {"idle", "lane"} /\ pc[w] \in Undecided /\ "discard" \notin Undecided
    BY <1>1 DEF Undecided, AfterSwap
  <1>3. pointer'.gen = call[w].expected
    <2>1. call[w].expected <= calls
      BY <1>2, Enough, TEnough, StoreAssumption DEF Generations, TypeInv, OthersOK
    <2> QED BY <1>1, <1>2, <2>1, TSelecting, Enough DEF TypeInv
  <1>4. SettledDocument' = SettledDocument
    BY <1>1, <1>2, <1>3, Enough, SettledBefore, SettledAfter DEF Edits
  <1> QED BY <1>1, <1>4, AppliedStays

\* The completed record decides; so does the death of the writer before it.
LEMMA DecisionApplies ==
  ASSUME Promise, NEW w \in Writers, pc[w] \in Undecided,
         NEW there, Go(w, there), there \notin Undecided,
         UNCHANGED <<pointer, content, owner, acked, early, failed>>
  PROVE  Abstractly
  <1>1. pc[w] \notin {"idle", "lane"} BY DEF Undecided, AfterSwap
  <1>2. PICK o \in Ops, g \in Generations, e \in Generations :
          o = call[w].op /\ g = call[w].gen /\ e = call[w].expected
    BY <1>1, Enough
  <1>3. Moved(o, g, e) BY <1>2, MovedEnough
  <1>4. pointer.gen = g /\ o \notin OwnersIn(e) /\ g \notin Edits(e) /\ Edits(g) = {g} \cup Edits(e)
        /\ owner[g] = o /\ g # 0
    BY <1>3 DEF Moved, Grown
  <1>5. SettledDocument = Edits(e) BY <1>1, <1>2, Enough, SettledBefore
  <1>6. SettledDocument' = {g} \cup Edits(e)
    BY <1>1, <1>4, Enough, SettledAfter DEF Edits
  <1>7. g \notin failed BY <1>1, <1>2, Enough DEF NumbersOK
  <1>8. Applied' = Applied \cup {<<o, g>>} BY <1>4, <1>5, <1>6 DEF Applied
  <1>9. \A edit \in Applied : edit[1] # o /\ edit[2] # g
    BY <1>4, <1>5 DEF Applied, OwnersIn
  <1>10. Atomic!Apply(o, g) BY <1>7, <1>8, <1>9 DEF Atomic!Apply, Applied
  <1> QED BY <1>10 DEF Abstractly, Atomic!Next

\* A step outside the lane.
LEMMA OutsideApplies ==
  ASSUME TypeInv, NEW w \in Writers, pc[w] \in {"idle", "lane"},
         NEW there, Go(w, there), there \notin Undecided,
         \A v \in Writers : v # w => call'[v] = call[v],
         lane' = lane \/ lane \in {None, w}, UNCHANGED <<pointer, content, owner>>
  PROVE  Applied' = Applied
  <1>1. pc'[w] = there /\ \A v \in Writers : v # w => pc'[v] = pc[v]
    BY DEF Go, TypeInv, WritersOK
  <1>2. pc[w] \notin Undecided BY DEF Undecided, AfterSwap
  <1>3. CASE \E v \in Writers : pc[v] \in Undecided
    <2>1. PICK v \in Writers : pc[v] \in Undecided BY <1>3
    <2>2. v # w /\ lane = v
      BY <1>2, <2>1 DEF TypeInv, WritersOK, LaneHeld, Undecided, AfterSwap
    <2>3. lane' = v /\ call'[v] = call[v] /\ pc'[v] = pc[v]
      BY <1>1, <2>2, StoreAssumption
    <2> QED BY <2>1, <2>2, <2>3, AppliedStays DEF SettledDocument
  <1>4. CASE ~\E v \in Writers : pc[v] \in Undecided
    <2>1. ~\E v \in Writers : pc'[v] \in Undecided BY <1>1, <1>4
    <2> QED BY <1>4, <2>1, AppliedStays DEF SettledDocument, Document
  <1> QED BY <1>3, <1>4

\* What is recorded may be answered, what is not in the document may be rejected.
LEMMA Answers ==
  ASSUME NEW o \in Ops, NEW g, g # 0, g \in SettledDocument, owner[g] = o,
         Applied' = Applied, acked' = acked \cup {o}, early' = early, failed' = failed
  PROVE  Atomic!Answer(o)
  <1>1. <<owner[g], g>> \in Applied BY DEF Applied
  <1>2. \E edit \in Applied : edit[1] = o BY <1>1
  <1> QED BY <1>2 DEF Atomic!Answer, Applied

LEMMA Rejects ==
  ASSUME NEW g \in Generations, g \notin SettledDocument,
         Applied' = Applied, failed' = failed \cup {g}, acked' = acked, early' = early
  PROVE  Atomic!Reject(g)
  BY DEF Atomic!Reject, Applied

\* The steps that answer.
LEMMA AnswerApplies ==
  ASSUME Promise, NEW w \in Writers, Replay(w) \/ RemoveTx(w) PROVE Abstractly
  <1>1. /\ pc[w] \in {"check", "remove"} /\ Go(w, "idle") /\ acked' = acked \cup {call[w].op}
        /\ UNCHANGED <<pointer, content, owner, early, failed>>
    BY DEF Replay, RemoveTx, At, Leave, disk, files
  <1>2. /\ pc[w] \notin {"idle", "lane"} /\ pc[w] \notin Undecided /\ "idle" \notin Undecided
    BY <1>1 DEF Undecided, AfterSwap
  <1>3. PICK o \in Ops : o = call[w].op BY <1>2, Enough
  <1>4. o \in OwnersIn(pointer.gen)
    <2>1. CASE Replay(w)
      <3>1. pc[w] = "check" /\ Recorded(o) # {} BY <1>3, <2>1 DEF Replay, At
      <3>2. Pending = {} BY <1>2, <3>1, Enough DEF RecoveringOK
      <3> QED BY <1>2, <3>1, <3>2, Enough, RecordsAreTrue
    <2>2. CASE RemoveTx(w)
      <3>1. Done(o) BY <1>2, <1>3, <2>2, Enough DEF RemoveTx, At, MutatingOK
      <3> QED BY <1>2, <3>1, Enough DEF Done, Selected, OwnersIn, Readable
    <2> QED BY <2>1, <2>2
  <1>5. PICK g \in Edits(pointer.gen) : g # 0 /\ owner[g] = o BY <1>4 DEF OwnersIn
  <1>6. SettledDocument = Edits(pointer.gen) BY <1>2, Enough, SettledBefore
  <1>7. Applied' = Applied BY <1>1, <1>2, SameSide
  <1> QED BY <1>1, <1>3, <1>5, <1>6, <1>7, Answers DEF Abstractly, Atomic!Next

LEMMA LookupApplies ==
  ASSUME Promise, NEW w \in Writers, NEW o \in Ops, NEW i \in Inputs, AnswerFromLedger(w, o, i)
  PROVE  Abstractly
  <1>1. /\ i \in Recorded(o)
        /\ \/ early' = early \cup {o} /\ acked' = acked
           \/ ~InProgress(o) /\ acked' = acked \cup {o} /\ early' = early
        /\ UNCHANGED <<pointer, content, owner, failed, pc, call, lane>>
    BY DEF AnswerFromLedger, disk
  <1>2. SettledDocument' = SettledDocument BY <1>1 DEF SettledDocument, Document
  <1>3. Applied' = Applied BY <1>1, <1>2, AppliedStays
  <1>4. CASE early' = early \cup {o} /\ acked' = acked
    <2>1. Atomic!Foretell(o) BY <1>1, <1>3, <1>4 DEF Atomic!Foretell, Applied
    <2> QED BY <2>1 DEF Abstractly, Atomic!Next
  <1>5. CASE ~InProgress(o) /\ acked' = acked \cup {o} /\ early' = early
    <2>1. /\ o \in OwnersIn(pointer.gen)
          /\ \A v \in Writers : pc[v] \in Undecided => o \in OwnersIn(call[v].expected)
      BY <1>1, <1>5, LookupIsTrue
    <2>2. \E g \in SettledDocument : g # 0 /\ owner[g] = o
      <3>1. CASE \E v \in Writers : pc[v] \in Undecided
        <4>1. PICK v \in Writers : pc[v] \in Undecided BY <3>1
        <4>2. pc[v] \notin {"idle", "lane"} BY <4>1 DEF Undecided, AfterSwap
        <4>3. SettledDocument = Edits(call[v].expected)
          BY <4>1, <4>2, SettledBefore DEF Promise, ResolveInv
        <4> QED BY <2>1, <4>1, <4>3 DEF OwnersIn
      <3>2. CASE ~\E v \in Writers : pc[v] \in Undecided
        <4>1. SettledDocument = Edits(pointer.gen) BY <3>2 DEF SettledDocument, Document, Edits
        <4> QED BY <2>1, <4>1 DEF OwnersIn
      <3> QED BY <3>1, <3>2
    <2>3. PICK g \in SettledDocument : g # 0 /\ owner[g] = o BY <2>2
    <2>4. Atomic!Answer(o) BY <1>1, <1>3, <1>5, <2>3, Answers
    <2> QED BY <2>4 DEF Abstractly, Atomic!Next
  <1> QED BY <1>1, <1>4, <1>5

LEMMA RejectApplies ==
  ASSUME Promise, NEW w \in Writers, FailIntent(w) \/ Dismiss(w) PROVE Abstractly
  <1>1. /\ pc[w] \in {"intent", "dismiss"} /\ Go(w, "idle") /\ failed' = failed \cup {call[w].gen}
        /\ UNCHANGED <<pointer, content, owner, acked, early>>
    BY DEF FailIntent, Dismiss, MayFault, At, Leave, disk, files
  <1>2. /\ pc[w] \notin {"idle", "lane"} /\ pc[w] \notin Undecided /\ "idle" \notin Undecided
    BY <1>1 DEF Undecided, AfterSwap
  <1>3. PICK g \in Generations : g = call[w].gen BY <1>2, Enough
  <1>4. g \notin Edits(pointer.gen) BY <1>1, <1>2, <1>3, Enough DEF MutatingOK, Unswapped
  <1>5. SettledDocument = Edits(pointer.gen) BY <1>2, Enough, SettledBefore
  <1>6. Applied' = Applied BY <1>1, <1>2, SameSide
  <1> QED BY <1>1, <1>3, <1>4, <1>5, <1>6, Rejects DEF Abstractly, Atomic!Next

\* The steps of the lane holder that nobody outside sees.
LEMMA SilentApplies ==
  ASSUME Promise, NEW w \in Writers, pc[w] \notin {"idle", "lane"},
         NEW there, Go(w, there), there \in Undecided <=> pc[w] \in Undecided,
         there \in Undecided => UNCHANGED <<lane, call>>,
         UNCHANGED <<pointer, content, owner, acked, early, failed>>
  PROVE  Abstractly
  BY SameSide DEF Abstractly

LEMMA StepApplies == ASSUME Promise, NEW w \in Writers, Step(w) PROVE Abstractly
  <1> USE DEF Undecided, AfterSwap
  <1>1. CASE Acquire(w) \/ GiveUp(w)
    <2>1. /\ pc[w] = "lane" /\ (Go(w, "entered") \/ Go(w, "idle")) /\ (lane' = lane \/ lane = None)
          /\ UNCHANGED <<pointer, content, owner, acked, early, failed>>
          /\ \/ call' = call
             \/ call' = [call EXCEPT ![w] = NoCall]
      BY <1>1 DEF Acquire, GiveUp, At, disk, history
    <2>2. TypeInv /\ \A v \in Writers : v # w => call'[v] = call[v]
      BY <2>1 DEF Promise, ResolveInv, TypeInv, WritersOK
    <2>3. Applied' = Applied BY <2>1, <2>2, OutsideApplies
    <2> QED BY <2>1, <2>3 DEF Abstractly
  <1>2. CASE \/ RefuseDepleted(w) \/ Enter(w) \/ Conflict(w) \/ RefuseReuse(w) \/ RefuseJournal(w)
             \/ Begin(w) \/ WriteIntent(w) \/ Prepare(w) \/ Discard(w) \/ CloseFailed(w) \/ Unwind(w)
    <2>1. /\ pc[w] \in {"entered", "check", "intent", "prepare", "discard", "fail", "panic"}
          /\ \E there \in {"idle", "check", "recover", "intent", "stage", "swap", "fail", "dismiss"} :
               Go(w, there)
          /\ UNCHANGED <<pointer, content, owner, acked, early, failed>>
      BY <1>2 DEF RefuseDepleted, Enter, Conflict, RefuseReuse, RefuseJournal, Begin, WriteIntent, Prepare,
                  Discard, CloseFailed, Unwind, Leave, At, disk, files, history
    <2> QED BY <2>1, SilentApplies
  <1>3. CASE Replay(w) \/ RemoveTx(w) BY <1>3, AnswerApplies
  <1>4. CASE Dismiss(w) BY <1>4, RejectApplies
  <1>5. CASE Stage(w)
    <2>1. UNCHANGED <<acked, early, failed>> BY <1>5 DEF Stage
    <2> QED BY <1>5, <2>1, StageApplies DEF Abstractly
  <1>6. CASE StageMissing(w) BY <1>6, AStageMissing
  <1>7. CASE SwapPointer(w)
    <2>1. UNCHANGED <<acked, early, failed>> BY <1>7 DEF SwapPointer, history
    <2> QED BY <1>7, <2>1, SwapApplies DEF Abstractly
  <1>8. CASE Restore(w)
    <2>1. UNCHANGED <<acked, early, failed>> BY <1>8 DEF Restore, history
    <2> QED BY <1>8, <2>1, RestoreApplies DEF Abstractly
  <1>9. CASE Commit(w) \/ WriteLedger(w) \/ Materialize(w)
    <2>1. /\ pc[w] \in {"commit", "ledger", "materialize"}
          /\ \E there \in {"ledger", "materialize", "complete"} : Go(w, there)
          /\ UNCHANGED <<lane, call, pointer, content, owner, acked, early, failed>>
      BY <1>9 DEF Commit, WriteLedger, Materialize, At, files, history
    <2> QED BY <2>1, SilentApplies
  <1>10. CASE Complete(w)
    <2>1. /\ pc[w] = "complete" /\ Go(w, "remove")
          /\ UNCHANGED <<pointer, content, owner, acked, early, failed>>
      BY <1>10 DEF Complete, At, files, history
    <2> QED BY <2>1, DecisionApplies
  <1>11. CASE \/ RecoverStick(w) \/ RecoverForward(w) \/ RecoverBack(w) \/ RecoverSettle(w)
              \/ RecoverPanic(w) \/ CollectGarbage(w)
    <2>1. /\ pc[w] = "recover"
          /\ \E there \in {"recover", "forward-materialize", "back-discard", "settle-ledger", "panic",
                           "idle", "check"} : Go(w, there)
          /\ UNCHANGED <<pointer, content, owner, acked, early, failed>>
      BY <1>11 DEF RecoverStick, RecoverForward, RecoverBack, RecoverSettle, RecoverPanic, CollectGarbage,
                   Take, Stick, Leave, At, disk, history
    <2> QED BY <2>1, SilentApplies
  <1>12. CASE \/ ForwardMaterialize(w) \/ ForwardLedger(w) \/ ForwardClose(w)
              \/ BackDiscard(w) \/ BackClose(w) \/ SettleLedger(w) \/ Sweep(w)
    <2>1. /\ pc[w] \in Settling
          /\ \E there \in {"forward-ledger", "forward-close", "back-close", "sweep", "recover"} : Go(w, there)
          /\ UNCHANGED <<pointer, content, owner, acked, early, failed>>
      BY <1>12 DEF ForwardMaterialize, ForwardLedger, ForwardClose, BackDiscard, BackClose, SettleLedger,
                   Sweep, Stick, At, files, history, Settling, Forward
    <2>2. pc[w] \notin {"idle", "lane"} /\ pc[w] \notin Undecided BY <2>1 DEF Settling, Forward
    <2> QED BY <2>1, <2>2, SilentApplies
  <1> QED BY <1>1, <1>2, <1>3, <1>4, <1>5, <1>6, <1>7, <1>8, <1>9, <1>10, <1>11, <1>12 DEF Step

LEMMA FailApplies == ASSUME UndoSucceeds, Promise, NEW w \in Writers, Fail(w) PROVE Abstractly
  <1> USE DEF Undecided, AfterSwap
  <1>1. CASE FailIntent(w) BY <1>1, RejectApplies
  <1>2. CASE FailPhase(w)
    <2>1. PICK point \in BeforeSwap \cup AfterSwap :
            pc[w] = point /\ Go(w, IF point \in AfterSwap THEN "restore" ELSE "discard")
      BY <1>2 DEF FailPhase, MayFault, At
    <2>2. UNCHANGED <<lane, call, pointer, content, owner, acked, early, failed>>
      BY <1>2 DEF FailPhase, files, history
    <2>3. pc[w] \notin {"idle", "lane"} BY <2>1 DEF BeforeSwap
    <2>4. CASE point \in AfterSwap BY <2>1, <2>2, <2>3, <2>4, SilentApplies
    <2>5. CASE point \notin AfterSwap BY <2>1, <2>2, <2>3, <2>5, SilentApplies DEF BeforeSwap
    <2> QED BY <2>4, <2>5
  <1>3. ~FailRestore(w) /\ ~FailDiscard(w)
    BY DEF FailRestore, FailDiscard, MayFault, UndoSucceeds
  <1>4. CASE FailClose(w) \/ FailRecovery(w)
    <2>1. /\ pc[w] \in {"fail", "back-close", "forward-materialize", "forward-ledger", "forward-close",
                        "settle-ledger"}
          /\ \E there \in {"dismiss", "sweep", "recover"} : Go(w, there)
          /\ UNCHANGED <<pointer, content, owner, acked, early, failed>>
      BY <1>4 DEF FailClose, FailRecovery, MayFault, Stick, At, files, history
    <2> QED BY <2>1, SilentApplies
  <1> QED BY <1>1, <1>2, <1>3, <1>4 DEF Fail

LEMMA CrashApplies == ASSUME Promise, NEW w \in Writers, Crash(w) PROVE Abstractly
  <1>1. /\ pc[w] # "idle" /\ Go(w, "idle") /\ call' = [call EXCEPT ![w] = NoCall]
        /\ (lane' = lane \/ lane = w)
        /\ UNCHANGED <<pointer, content, owner, acked, early, failed>> /\ "idle" \notin Undecided
    BY DEF Crash, At, files, history, Undecided, AfterSwap
  <1>2. CASE pc[w] = "lane"
    <2>1. TypeInv /\ \A v \in Writers : v # w => call'[v] = call[v]
      BY <1>1 DEF Promise, ResolveInv, TypeInv, WritersOK
    <2>2. Applied' = Applied BY <1>1, <1>2, <2>1, OutsideApplies
    <2> QED BY <1>1, <2>2 DEF Abstractly
  <1>3. CASE pc[w] # "lane" /\ pc[w] \notin Undecided BY <1>1, <1>3, SilentApplies
  <1>4. CASE pc[w] \in Undecided BY <1>1, <1>4, DecisionApplies
  <1> QED BY <1>2, <1>3, <1>4

\* Each step of the store is a step of AtomicDocument or leaves it alone: an edit is in the
\* document entirely or not at all, an operation takes effect at most once, success is
\* answered only for an effect the document has, and a rejected attempt never has any.
THEOREM StoreIsAtomic == ASSUME UndoSucceeds PROVE Spec => ImplementsAtomicDocument
  <1>1. Init => Atomic!Init
    <2> SUFFICES ASSUME Init PROVE Atomic!Init OBVIOUS
    <2>1. SettledDocument = {0}
      <3>1. \A w \in Writers : pc[w] \notin Undecided BY DEF Init, Undecided, AfterSwap
      <3>2. 0 \in Generations BY StoreAssumption DEF Generations
      <3> QED BY <3>1, <3>2 DEF Init, SettledDocument, Document, Birth, Files
    <2> QED BY <2>1 DEF Init, Atomic!Init
  <1>2. Promise /\ [Next]_vars => Abstractly
    <2> SUFFICES ASSUME Promise, [Next]_vars PROVE Abstractly OBVIOUS
    <2>1. CASE UNCHANGED vars \/ Replenish \/ \E r \in Readers : Read(r)
      <3>1. UNCHANGED <<pointer, content, owner, acked, early, failed, pc, call, lane>>
        BY <2>1 DEF vars, Replenish, Read, ReadPointer, PinGeneration, Unpin, disk, files, history
      <3>2. SettledDocument' = SettledDocument BY <3>1 DEF SettledDocument, Document
      <3> QED BY <3>1, <3>2, AppliedStays DEF Abstractly
    <2>2. ASSUME NEW w \in Writers, NEW o \in Ops, NEW i \in Inputs, Call(w, o, i) PROVE Abstractly
      <3>1. /\ pc[w] = "idle" /\ Go(w, "lane") /\ "lane" \notin Undecided
            /\ UNCHANGED <<lane, pointer, content, owner, acked, early, failed>>
        BY <2>2 DEF Call, At, disk, history, Undecided, AfterSwap
      <3>2. TypeInv /\ \A v \in Writers : v # w => call'[v] = call[v]
        BY <2>2 DEF Call, Promise, ResolveInv, TypeInv, WritersOK
      <3> QED BY <3>1, <3>2, OutsideApplies DEF Abstractly
    <2>3. ASSUME NEW w \in Writers, NEW o \in Ops, NEW i \in Inputs, AnswerFromLedger(w, o, i)
          PROVE  Abstractly
      BY <2>3, LookupApplies
    <2> QED BY <2>1, <2>2, <2>3, StepApplies, FailApplies, CrashApplies DEF Next
  <1>3. Abstractly => [Atomic!Next]_<<{<<owner[g], g>> : g \in SettledDocument \ {0}}, acked, early, failed>>
    BY DEF Abstractly, Applied
  <1> QED BY <1>1, <1>2, <1>3, PromiseHolds, PTL DEF Spec, ImplementsAtomicDocument, Atomic!Spec
=============================================================================
