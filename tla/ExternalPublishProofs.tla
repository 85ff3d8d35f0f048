------------------------ MODULE ExternalPublishProofs ------------------------
(***************************************************************************)
(* Proofs about module ExternalPublish, for every set of processes,        *)
(* outputs, Operation-IDs and bytes of the other program, and every bound: *)
(* first where every call is a build, then for builds and saves together.  *)
(*                                                                         *)
(* What a build may do to an output is decided long before it does it: the *)
(* last check of the registry is at "staged", the rename at "replace", and *)
(* a recovery may come weeks later. The invariant IInv carries what was    *)
(* checked from the one to the others: in the process while it lives       *)
(* (HolderOK), in its journal when it has died (Vouched).                  *)
(*                                                                         *)
(* A save moves its sidecars and its document one by one, outside the      *)
(* lane, while builds and other saves do the same to the same path. What   *)
(* saves it is the last comparison, and SaveInv says so.                   *)
(***************************************************************************)
EXTENDS ExternalPublish, TLAPS

BuildsOnly == Kinds = {"build"}

\* The steps of a build whose package is on its path.
Late == {"record", "record-write", "published", "commit", "ledger", "complete", "remove"}
Mending == {"fix-ledger", "fix-evidence", "fix-complete", "fix-record", "fix-remove"}

-----------------------------------------------------------------------------
(* Types. *)

Early == {"run", "staged", "prepare"}
Landing == {"gate", "link", "hold", "replace"}
Waiting == {"idle", "lane"}
Steps == {"check", "abort", "recover"} \cup Early \cup Landing \cup Late \cup Mending

Phases == {"intent", "prepared", "published", "committed", "completed"}

Registries == [Paths -> Calls \cup {None}]

Build ==
  [kind : {"build"}, op : Ops, out : Outputs, path : Outputs, n : Calls, before : Bytes,
   seen : Registries \cup {NoCall.seen}, todo : SUBSET Operations,
   mend : Operations \cup {None}, stuck : BOOLEAN]

Journals ==
  [phases : SUBSET Phases, dir : BOOLEAN, path : Outputs \cup {None},
   bytes : Calls \cup {None}, before : Bytes]

DiskOK ==
  /\ file \in [Paths -> Bytes]
  /\ evidence \in [Paths -> [Sidecars -> Bytes]]
  /\ ledger \in [Paths -> SUBSET Operations]
  /\ registry \in Registries
  /\ tx \in [Operations -> Journals]
  /\ calls \in 0..MaxCalls

ProcessesOK ==
  /\ lane \in Processes \cup {None}
  /\ lane # None => pc[lane] \notin Waiting
  /\ pc \in [Processes -> Steps \cup Waiting]
  /\ call = [p \in Processes |-> call[p]]
  /\ \A p \in Processes :
       /\ pc[p] # "idle" => call[p] \in Build /\ call[p].n <= calls
       /\ pc[p] = "lane" => call[p].mend = None /\ ~call[p].stuck
       /\ pc[p] \notin Waiting => lane = p

-----------------------------------------------------------------------------
(* Journals. *)

\* What MayPublish says of an output that holds these bytes.
Vouched(path, bytes) ==
  IF registry[path] # None THEN bytes = registry[path]
  ELSE bytes = None \/ (path = Source /\ bytes = Baseline)

\* A journal that is there names what it is about from its prepared record on,
\* and what was checked then is still true of an output nobody else has written.
JournalOK(t) ==
  /\ ~t.dir => t = NoTx
  /\ t.phases \cap {"published", "committed", "completed"} # {} => "prepared" \in t.phases
  /\ "prepared" \notin t.phases => t.bytes = None
  /\ "prepared" \in t.phases => t.path \in Outputs /\ t.bytes \in 1..calls
  /\ (t.phases = {"intent", "prepared"} /\ t.path \notin touched) =>
       /\ file[t.path] \in {t.bytes, t.before}
       /\ registry[t.path] = t.bytes \/ Vouched(t.path, t.before)

JournalsOK ==
  /\ \A o \in Operations : JournalOK(tx[o])
  /\ \A o, r \in Operations : tx[o].dir /\ tx[r].dir => o = r

\* The journal of a build that has prepared.
PhasesAt(at) ==
  {"intent", "prepared"}
  \cup (IF at \in {"commit", "ledger", "complete", "remove"} THEN {"published"} ELSE {})
  \cup (IF at \in {"ledger", "complete", "remove"} THEN {"committed"} ELSE {})
  \cup (IF at = "remove" THEN {"completed"} ELSE {})

JournalOf(c, at) ==
  [dir |-> TRUE, phases |-> PhasesAt(at), path |-> c.path, bytes |-> c.n, before |-> c.before]

\* What whoever has the lane knows.
HolderOK(c, at) ==
  /\ at = "check" => Pending = {}
  /\ at \in Early => tx[c.op].dir /\ tx[c.op].phases = {"intent"}
  /\ at = "staged" /\ c.path \notin touched => file[c.path] = c.before
  /\ at = "prepare" /\ c.path \notin touched =>
       file[c.path] = c.before /\ Vouched(c.path, c.before)
  /\ at \in Landing \cup Late => tx[c.op] = JournalOf(c, at)
  /\ at \in Landing /\ c.path \notin touched => c.before \notin Foreign
  /\ at = "record-write" => c.seen = registry
  /\ at = "recover" => c.mend = None /\ (c.stuck \/ Pending \subseteq c.todo)
  /\ at \in Mending => c.mend \in Operations /\ "prepared" \in tx[c.mend].phases
  /\ at \in {"fix-record", "fix-remove"} => "completed" \in tx[c.mend].phases

HolderAt(p) == HolderOK(call[p], pc[p])
HoldersOK == \A p \in Processes : pc[p] \notin Waiting => HolderAt(p)

IInv == DiskOK /\ ProcessesOK /\ JournalsOK /\ HoldersOK

-----------------------------------------------------------------------------
(* Packages. *)

\* A package is at no output before its build has landed it, and only at its own. It
\* stays there when the build fails after that.
PackagesOK ==
  /\ \A t \in Paths : file[t] \in Calls => file[t] <= calls
  /\ \A p \in Processes : pc[p] \notin {"idle"} \cup Late =>
       (pc[p] = "abort" /\ call[p].n \in late) \/ \A t \in Paths : file[t] # call[p].n
  /\ \A p, q \in Processes : (pc[p] # "idle" /\ pc[q] # "idle" /\ call[p].n = call[q].n) => p = q
  /\ \A o \in Operations, t \in Paths :
       ("prepared" \in tx[o].phases /\ file[t] = tx[o].bytes) => t = tx[o].path
  /\ \A o \in Operations, p \in Processes :
       ("prepared" \in tx[o].phases /\ pc[p] # "idle" /\ call[p].n = tx[o].bytes) =>
         pc[p] \in Landing \cup Late \cup {"abort"}

\* What was undone is over.
UndoneOK ==
  /\ undone \subseteq 1..calls
  /\ \A n \in undone : /\ n \in late \/ \A t \in Paths : file[t] # n
                        /\ \A p \in Processes : pc[p] # "idle" => call[p].n # n

\* A package the registry does not name yet has a journal that will see to it, unless
\* its record was lost.
DueBy(o, t, n) ==
  /\ "prepared" \in tx[o].phases /\ tx[o].path = t /\ tx[o].bytes = n
  /\ \/ "completed" \notin tx[o].phases
     \/ \E p \in Processes : pc[p] = "fix-record" /\ call[p].mend = o

Due(t, n) == \E o \in Operations : DueBy(o, t, n)

\* Nobody else's package is at the output of a build that has landed; from its
\* record on the registry names its own. What it takes back is its own, too.
ResultOK(c, at) ==
  /\ at \in Late /\ file[c.path] \in Calls => file[c.path] = c.n
  /\ at \in Late \ {"record", "record-write"} /\ file[c.path] \in Calls => registry[c.path] = c.n
  /\ at = "abort" /\ "prepared" \in tx[c.op].phases =>
       /\ tx[c.op].bytes = c.n /\ tx[c.op].path = c.path
       /\ file[c.path] = c.n /\ c.n \notin unrecorded => registry[c.path] = c.n

ResultAt(p) == ResultOK(call[p], pc[p])

NamedOK ==
  \A t \in Outputs : file[t] \in Calls \ unrecorded => registry[t] = file[t] \/ Due(t, file[t])

RegistryOK == NamedOK /\ \A p \in Processes : pc[p] # "idle" => ResultAt(p)

-----------------------------------------------------------------------------
(* Processes. *)

LEMMA Paths_ ==
  /\ Outputs \subseteq Paths /\ Calls \subseteq Paths
  /\ Ops \subseteq Operations /\ Calls \subseteq Operations
  /\ Calls \subseteq Bytes /\ None \in Bytes /\ Foreign \subseteq Bytes /\ Baseline \in Bytes
  /\ None \notin Calls /\ None \notin Foreign /\ None \notin Outputs
  /\ Outputs \cap Calls = {} /\ Foreign \cap Calls = {} /\ Baseline \notin Calls
  /\ Baseline \notin Foreign /\ Baseline # None
  BY PublishAssumption DEF Paths, Operations, Bytes, Calls

\* Nobody but the holder of the lane is past it.
LEMMA Alone ==
  ASSUME ProcessesOK, NEW p \in Processes, pc[p] \notin Waiting, NEW q \in Processes, q # p
  PROVE  pc[q] \in Waiting
  BY DEF ProcessesOK

LEMMA CallOf ==
  ASSUME ProcessesOK, NEW p \in Processes, pc[p] # "idle"
  PROVE  /\ call[p] \in Build /\ call[p].n \in Calls /\ call[p].op \in Ops
         /\ call[p].path \in Outputs /\ call[p].before \in Bytes /\ call[p].kind = "build"
         /\ call[p].out \in Outputs
  BY DEF ProcessesOK, Build

\* The holder of the lane goes on.
LEMMA PGoesOn ==
  ASSUME ProcessesOK, NEW p \in Processes, pc[p] \notin Waiting, NEW there \in Steps, NEW c \in Build,
         c.n = call[p].n, pc' = [pc EXCEPT ![p] = there], call' = [call EXCEPT ![p] = c],
         UNCHANGED <<lane, calls>>
  PROVE  /\ ProcessesOK' /\ pc'[p] = there /\ call'[p] = c
         /\ \A q \in Processes \ {p} : pc'[q] = pc[q] /\ call'[q] = call[q]
<1>1. /\ pc'[p] = there /\ call'[p] = c
      /\ \A q \in Processes \ {p} : pc'[q] = pc[q] /\ call'[q] = call[q]
  BY DEF ProcessesOK
<1>2. there \notin Waiting BY DEF Steps, Early, Landing, Late, Mending, Waiting
<1> QED BY <1>1, <1>2 DEF ProcessesOK, Waiting

LEMMA PMoves ==
  ASSUME ProcessesOK, NEW p \in Processes, pc[p] \notin Waiting, NEW there \in Steps,
         pc' = [pc EXCEPT ![p] = there], UNCHANGED <<call, lane, calls>>
  PROVE  /\ ProcessesOK' /\ pc'[p] = there
         /\ \A q \in Processes \ {p} : pc'[q] = pc[q]
<1>1. /\ pc'[p] = there
      /\ \A q \in Processes \ {p} : pc'[q] = pc[q]
  BY DEF ProcessesOK
<1>2. there \notin Waiting BY DEF Steps, Early, Landing, Late, Mending, Waiting
<1>3. call[p] \in Build /\ call[p].n <= calls BY DEF ProcessesOK, Waiting
<1> QED BY <1>1, <1>2, <1>3 DEF ProcessesOK, Waiting

\* A process leaves, and the lane is free if it was its own.
LEMMA PLeaves ==
  ASSUME ProcessesOK, NEW p \in Processes,
         pc' = [pc EXCEPT ![p] = "idle"], call' = [call EXCEPT ![p] = NoCall],
         lane' = (IF lane = p THEN None ELSE lane), UNCHANGED calls
  PROVE  /\ ProcessesOK' /\ pc'[p] = "idle"
         /\ \A q \in Processes \ {p} : pc'[q] = pc[q] /\ call'[q] = call[q]
<1>1. /\ pc'[p] = "idle" /\ call'[p] = NoCall
      /\ \A q \in Processes \ {p} : pc'[q] = pc[q] /\ call'[q] = call[q]
  BY DEF ProcessesOK
<1>2. pc[p] \in Waiting => lane # p
  BY PublishAssumption DEF ProcessesOK, Waiting
<1> QED BY <1>1, <1>2 DEF ProcessesOK, Waiting

-----------------------------------------------------------------------------
(* Holders. *)

\* Only the holder of the lane has anything to know.
LEMMA HoldersBy ==
  ASSUME ProcessesOK, NEW p \in Processes, pc[p] \notin Waiting,
         \A q \in Processes \ {p} : pc'[q] = pc[q],
         pc'[p] \notin Waiting => HolderAt(p)'
  PROVE  HoldersOK'
<1>1. \A q \in Processes \ {p} : pc'[q] \in Waiting BY Alone
<1> QED BY <1>1 DEF HoldersOK

\* What others know stays true while a process that only waits or leaves does so.
LEMMA HoldersKept ==
  ASSUME HoldersOK, NEW p \in Processes, UNCHANGED <<file, registry, tx, touched>>,
         \A q \in Processes \ {p} : pc'[q] = pc[q] /\ call'[q] = call[q],
         pc'[p] \in Waiting
  PROVE  HoldersOK'
<1>1. ASSUME NEW q \in Processes \ {p}, pc[q] \notin Waiting PROVE HolderAt(q)'
  <2>1. HolderAt(q) BY <1>1 DEF HoldersOK
  <2>2. pc'[q] = pc[q] /\ call'[q] = call[q] OBVIOUS
  <2>3. HolderAt(q)' = HolderAt(q)
    BY <2>2 DEF HolderAt, HolderOK, JournalOf, Vouched, Pending, Operations, Calls, PhasesAt
  <2> QED BY <2>1, <2>3
<1> QED BY <1>1 DEF HoldersOK

-----------------------------------------------------------------------------
(* Journals. *)

LEMMA NoTxOK == NoTx \in Journals /\ ~NoTx.dir /\ NoTx.phases = {} /\ JournalOK(NoTx) /\ JournalOK(NoTx)'
  BY Paths_ DEF NoTx, Journals, JournalOK

LEMMA JournalsKept ==
  ASSUME JournalsOK, UNCHANGED <<file, registry, tx, touched, calls>>
  PROVE  JournalsOK'
  BY DEF JournalsOK, JournalOK, Vouched, Operations, Calls

LEMMA JournalStays ==
  ASSUME NEW t, JournalOK(t), UNCHANGED <<file, registry, touched, calls>>
  PROVE  JournalOK(t)'
  BY DEF JournalOK, Vouched, NoTx

\* There is one journal at a time.
LEMMA Sole ==
  ASSUME JournalsOK, NEW o \in Operations, tx[o].dir
  PROVE  \A r \in Operations \ {o} : tx[r] = NoTx
  BY DEF JournalsOK, JournalOK

LEMMA JournalsBy ==
  ASSUME JournalsOK, tx \in [Operations -> Journals], NEW o \in Operations, NEW t \in Journals,
         tx[o].dir \/ Pending = {}, tx' = [tx EXCEPT ![o] = t], JournalOK(t)'
  PROVE  JournalsOK'
<1>0. tx'[o] = t /\ JournalOK(tx[o])' OBVIOUS
<1>1. \A r \in Operations \ {o} : tx[r] = NoTx
  BY Sole DEF Pending, JournalsOK, JournalOK
<1>2. \A r \in Operations \ {o} : tx'[r] = NoTx BY <1>1
<1>3. Operations' = Operations BY DEF Operations, Calls
<1>4. \A r \in Operations \ {o} : JournalOK(tx[r])'
  BY <1>2, NoTxOK
<1> QED BY <1>0, <1>2, <1>3, <1>4, NoTxOK DEF JournalsOK

-----------------------------------------------------------------------------
(* The steps that leave the disk alone. *)

LEMMA Constants ==
  /\ Calls' = Calls /\ Paths' = Paths /\ Operations' = Operations /\ Bytes' = Bytes
  /\ Registries' = Registries /\ Journals' = Journals /\ Build' = Build
  BY DEF Calls, Paths, Operations, Bytes, Registries, Journals, Build, Phases, NoCall

LEMMA DiskKept ==
  ASSUME DiskOK, UNCHANGED <<disk, calls>>
  PROVE  DiskOK'
  BY Constants DEF DiskOK, disk, Sidecars

\* A step of nobody who has the lane: everything else is as it was.
LEMMA Leaving ==
  ASSUME IInv, NEW p \in Processes,
         pc' = [pc EXCEPT ![p] = "idle"], call' = [call EXCEPT ![p] = NoCall],
         lane' = (IF lane = p THEN None ELSE lane), UNCHANGED <<disk, calls, touched>>
  PROVE  IInv'
<1>1. DiskOK' BY DiskKept DEF IInv
<1>2. /\ ProcessesOK' /\ pc'[p] = "idle"
      /\ \A q \in Processes \ {p} : pc'[q] = pc[q] /\ call'[q] = call[q]
  BY PLeaves DEF IInv
<1>3. JournalsOK' BY JournalsKept DEF IInv, disk
<1>4. HoldersOK' BY <1>2, HoldersKept DEF IInv, disk, Waiting
<1> QED BY <1>1, <1>2, <1>3, <1>4 DEF IInv

\* A step of the holder of the lane.
LEMMA Onward ==
  ASSUME IInv, NEW p \in Processes, pc[p] \notin Waiting, NEW there \in Steps, NEW c \in Build,
         c.n = call[p].n, pc' = [pc EXCEPT ![p] = there], call' = [call EXCEPT ![p] = c],
         UNCHANGED <<lane, calls>>, DiskOK', JournalsOK', HolderOK(c, there)'
  PROVE  IInv'
<1>1. /\ ProcessesOK' /\ pc'[p] = there /\ call'[p] = c
      /\ \A q \in Processes \ {p} : pc'[q] = pc[q]
  BY PGoesOn DEF IInv
<1>2. HolderAt(p)' BY <1>1 DEF HolderAt
<1>3. HoldersOK' BY <1>1, <1>2, HoldersBy DEF IInv
<1> QED BY <1>1, <1>3 DEF IInv

\* One that touches no output, no journal and not the registry.
LEMMA GoingOnWith ==
  ASSUME IInv, NEW p \in Processes, pc[p] \notin Waiting, NEW there \in Steps, NEW c \in Build,
         c.n = call[p].n, pc' = [pc EXCEPT ![p] = there], call' = [call EXCEPT ![p] = c],
         UNCHANGED <<lane, file, registry, tx, calls, touched>>, DiskOK', HolderOK(c, there)
  PROVE  IInv'
<1>1. JournalsOK' BY JournalsKept DEF IInv
<1>2. HolderOK(c, there)'
  BY Constants DEF HolderOK, JournalOf, PhasesAt, Vouched, Pending
<1> QED BY <1>1, <1>2, Onward

\* And one that does not write its own memory either.
LEMMA GoingOn ==
  ASSUME IInv, NEW p \in Processes, pc[p] \notin Waiting, NEW there \in Steps,
         pc' = [pc EXCEPT ![p] = there],
         UNCHANGED <<lane, call, file, registry, tx, calls, touched>>, DiskOK',
         HolderOK(call[p], there)
  PROVE  IInv'
<1>1. call[p] \in Build BY CallOf DEF IInv, Waiting
<1>2. PICK c \in Build : c = call[p] BY <1>1
<1>3. c.n = call[p].n /\ call' = [call EXCEPT ![p] = c] /\ HolderOK(c, there)
  BY <1>2 DEF IInv, ProcessesOK
<1> QED BY <1>3, GoingOnWith

\* One that writes its journal or an output, and not its own memory.
LEMMA GoingOver ==
  ASSUME IInv, NEW p \in Processes, pc[p] \notin Waiting, NEW there \in Steps,
         pc' = [pc EXCEPT ![p] = there],
         UNCHANGED <<lane, call, calls>>, DiskOK', JournalsOK', HolderAt(p)'
  PROVE  IInv'
<1>1. /\ ProcessesOK' /\ pc'[p] = there
      /\ \A q \in Processes \ {p} : pc'[q] = pc[q]
  BY PMoves DEF IInv
<1>2. HoldersOK' BY <1>1, HoldersBy DEF IInv
<1> QED BY <1>1, <1>2 DEF IInv

LEMMA SCall ==
  ASSUME IInv, BuildsOnly, NEW p \in Processes, NEW kind \in Kinds, NEW o \in Ops, NEW out \in Outputs,
         Call(p, kind, o, out)
  PROVE  IInv'
<1> DEFINE c == [NoCall EXCEPT !.kind = kind, !.out = out, !.n = calls + 1,
                               !.op = IF kind = "save" THEN calls + 1 ELSE o,
                               !.path = IF kind = "save" THEN calls + 1 ELSE out]
<1>1. kind = "build" BY DEF BuildsOnly
<1>2. calls' = calls + 1 /\ calls' \in Calls /\ calls \in Nat
  BY PublishAssumption DEF Call, IInv, DiskOK, Calls
<1>3. c \in Build /\ c.n = calls + 1 /\ c.mend = None /\ ~c.stuck
  BY <1>1, <1>2, Paths_ DEF NoCall, Build
<1>4. /\ pc' = [pc EXCEPT ![p] = "lane"] /\ call' = [call EXCEPT ![p] = c] /\ pc[p] = "idle"
      /\ UNCHANGED <<disk, lane, touched>>
  BY DEF Call, Go, Keep, At, history
<1> HIDE DEF c
<1>5. /\ pc'[p] = "lane" /\ call'[p] = c
      /\ \A q \in Processes \ {p} : pc'[q] = pc[q] /\ call'[q] = call[q]
  BY <1>4 DEF IInv, ProcessesOK
<1>6. ProcessesOK'
  <2>1. lane # p BY <1>4, PublishAssumption DEF IInv, ProcessesOK, Waiting
  <2>2. lane' = lane /\ pc' \in [Processes -> Steps \cup Waiting] /\ call' = [q \in Processes |-> call'[q]]
    BY <1>4 DEF IInv, ProcessesOK, Waiting
  <2>3. \A q \in Processes : pc[q] # "idle" => call[q] \in Build /\ call[q].n <= calls /\ call[q].n \in Nat
    BY DEF IInv, ProcessesOK, Build, Calls
  <2>4. \A q \in Processes : pc'[q] # "idle" => call'[q] \in Build /\ call'[q].n <= calls'
    BY <1>2, <1>3, <1>5, <2>3
  <2>5. \A q \in Processes : pc'[q] = "lane" => call'[q].mend = None /\ ~call'[q].stuck
    BY <1>3, <1>5 DEF IInv, ProcessesOK
  <2>6. \A q \in Processes : pc'[q] \notin Waiting => lane' = q
    BY <1>4, <1>5 DEF IInv, ProcessesOK, Waiting
  <2>7. lane' # None => pc'[lane'] \notin Waiting
    BY <1>5, <2>1, <2>2 DEF IInv, ProcessesOK
  <2> QED BY <2>2, <2>4, <2>5, <2>6, <2>7, Constants DEF IInv, ProcessesOK
<1>7. DiskOK'
  BY <1>2, <1>4, Constants, PublishAssumption DEF IInv, DiskOK, disk, Sidecars, Calls
<1>8. JournalsOK'
  <2>1. tx' = tx /\ file' = file /\ registry' = registry /\ touched' = touched BY <1>4 DEF disk
  <2>2. 1..calls \subseteq 1..calls' BY <1>2
  <2>3. ASSUME NEW t, JournalOK(t) PROVE JournalOK(t)'
    BY <2>1, <2>2, <2>3 DEF JournalOK, Vouched, NoTx
  <2>4. \A r \in Operations : JournalOK(tx[r])'
    BY <2>1, <2>3 DEF IInv, JournalsOK
  <2> QED BY <2>1, <2>4, Constants DEF IInv, JournalsOK
<1>9. HoldersOK'
  BY <1>4, <1>5, HoldersKept DEF IInv, disk, Waiting
<1> QED BY <1>6, <1>7, <1>8, <1>9 DEF IInv

LEMMA SLeaves ==
  ASSUME IInv, NEW p \in Processes, Busy(p) \/ Replay(p) \/ RefuseEntry(p) \/ Crash(p)
  PROVE  IInv'
<1>1. /\ pc' = [pc EXCEPT ![p] = "idle"] /\ call' = [call EXCEPT ![p] = NoCall]
      /\ lane' = (IF lane = p THEN None ELSE lane)
      /\ UNCHANGED <<disk, calls, touched>>
  BY DEF Busy, Replay, RefuseEntry, Crash, Refuse, Go, Keep, Unlock, rare, history
<1> QED BY <1>1, Leaving

LEMMA SAcquire ==
  ASSUME IInv, NEW p \in Processes, Acquire(p)
  PROVE  IInv'
<1>1. pc[p] = "lane" /\ lane = None /\ lane' = p /\ UNCHANGED <<disk, calls, touched>>
  BY DEF Acquire, At, rare, history
<1>2. call[p] \in Build /\ call[p].n <= calls /\ call[p].mend = None /\ ~call[p].stuck
  BY <1>1 DEF IInv, ProcessesOK
<1>3. PICK c \in Build : c = IF Pending = {} THEN call[p] ELSE [call[p] EXCEPT !.todo = Pending]
  <2>1. Pending \in SUBSET Operations BY DEF Pending
  <2> QED BY <1>2, <2>1 DEF Build
<1>4. PICK there \in {"check", "recover"} : there = IF Pending = {} THEN "check" ELSE "recover"
  OBVIOUS
<1>5. c.n = call[p].n /\ c.mend = None
  BY <1>2, <1>3 DEF Build
<1>6. pc' = [pc EXCEPT ![p] = there] /\ call' = [call EXCEPT ![p] = c]
  BY <1>3, <1>4 DEF Acquire, Go, Keep, IInv, ProcessesOK
<1>7. /\ pc'[p] = there /\ call'[p] = c
      /\ \A q \in Processes \ {p} : pc'[q] = pc[q] /\ call'[q] = call[q]
  BY <1>6 DEF IInv, ProcessesOK
<1>8. \A q \in Processes : pc[q] \in Waiting
  BY <1>1, PublishAssumption DEF IInv, ProcessesOK
<1>9. there \in Steps /\ there \notin Waiting BY DEF Steps, Waiting
<1>10. ProcessesOK'
  <2>1. /\ pc' \in [Processes -> Steps \cup Waiting] /\ call' = [q \in Processes |-> call'[q]]
        /\ lane' \in Processes \cup {None} /\ pc'[lane'] \notin Waiting
    BY <1>1, <1>6, <1>7, <1>9 DEF IInv, ProcessesOK
  <2>2. \A q \in Processes : pc'[q] # "idle" => call'[q] \in Build /\ call'[q].n <= calls'
    BY <1>1, <1>2, <1>5, <1>7 DEF IInv, ProcessesOK
  <2>3. \A q \in Processes : pc'[q] = "lane" => call'[q].mend = None /\ ~call'[q].stuck
    BY <1>4, <1>7 DEF IInv, ProcessesOK
  <2>4. \A q \in Processes : pc'[q] \notin Waiting => lane' = q
    BY <1>1, <1>7, <1>8
  <2> QED BY <2>1, <2>2, <2>3, <2>4, Constants DEF ProcessesOK
<1>11. DiskOK' BY <1>1, DiskKept DEF IInv
<1>12. JournalsOK' BY <1>1, JournalsKept DEF IInv, disk
<1>13. HolderAt(p)'
  <2>1. CASE Pending = {}
    <3>1. there = "check" /\ Pending' = {} BY <2>1, <1>1, <1>4, Constants DEF Pending, disk
    <3> QED BY <1>7, <3>1 DEF HolderAt, HolderOK, Early, Landing, Late, Mending
  <2>2. CASE Pending # {}
    <3>1. there = "recover" /\ c.todo = Pending /\ Pending' = Pending
      BY <2>2, <1>1, <1>2, <1>3, <1>4, Constants DEF Pending, disk, Build
    <3> QED BY <1>5, <1>7, <3>1 DEF HolderAt, HolderOK, Early, Landing, Late, Mending
  <2> QED BY <2>1, <2>2
<1>14. HoldersOK'
  BY <1>7, <1>8, <1>13 DEF HoldersOK
<1> QED BY <1>10, <1>11, <1>12, <1>14 DEF IInv

-----------------------------------------------------------------------------
(* From the first check to the prepared record. *)

LEMMA SBegin ==
  ASSUME IInv, NEW p \in Processes, Begin(p)
  PROVE  IInv'
<1> DEFINE t == [NoTx EXCEPT !.dir = TRUE, !.phases = {"intent"}]
<1>1. /\ pc[p] = "check" /\ pc[p] \notin Waiting /\ "run" \in Steps
      /\ tx' = [tx EXCEPT ![call[p].op] = t] /\ pc' = [pc EXCEPT ![p] = "run"]
      /\ UNCHANGED <<file, evidence, ledger, registry, lane, call, calls, touched>>
  BY DEF Begin, At, Go, Journal, Waiting, Steps, Early, rare, history
<1>2. call[p] \in Build /\ call[p].op \in Operations
  BY <1>1, CallOf, Paths_ DEF IInv, Waiting
<1>3. t \in Journals /\ JournalOK(t)'
  <2>2. t \in Journals BY NoTxOK DEF Journals, Phases
  <2>3. t.dir /\ t.phases = {"intent"} /\ t.bytes = None BY NoTxOK DEF Journals, NoTx
  <2> HIDE DEF t
  <2>4. PICK j \in Journals : j = t BY <2>2
  <2>5. t.phases \cap {"published", "committed", "completed"} = {} /\ "prepared" \notin t.phases
        /\ t.phases # {"intent", "prepared"}
    BY <2>3
  <2> QED BY <2>2, <2>3, <2>5 DEF JournalOK, t
<1>4. Pending = {}
  BY <1>1 DEF IInv, HoldersOK, HolderAt, HolderOK, Waiting
<1>5. DiskOK'
  BY <1>1, <1>2, <1>3, Constants DEF IInv, DiskOK, Sidecars
<1>6. tx'[call[p].op] = t BY <1>1, <1>2 DEF IInv, DiskOK
<1>7. JournalsOK'
  <2> HIDE DEF t
  <2> QED BY <1>1, <1>2, <1>3, <1>4, JournalsBy DEF IInv, DiskOK
<1>8. pc'[p] = "run" /\ call'[p] = call[p] BY <1>1 DEF IInv, ProcessesOK
<1>9. HolderAt(p)'
  BY <1>6, <1>8 DEF HolderAt, HolderOK, Early, Landing, Late, Mending, NoTx
<1> QED BY <1>1, <1>5, <1>7, <1>9, GoingOver

LEMMA SRun ==
  ASSUME IInv, NEW p \in Processes, Run(p)
  PROVE  IInv'
<1>1. /\ pc[p] = "run" /\ pc[p] \notin Waiting /\ "staged" \in Steps
      /\ call' = [call EXCEPT ![p] = [call[p] EXCEPT !.before = file[call[p].path]]]
      /\ pc' = [pc EXCEPT ![p] = "staged"] /\ touched' = touched \ {call[p].path}
      /\ UNCHANGED <<disk, lane, calls>>
  BY DEF Run, At, Go, Keep, Waiting, Steps, Early, rare
<1>2. call[p] \in Build /\ call[p].op \in Operations /\ call[p].path \in Outputs
  BY <1>1, CallOf, Paths_ DEF IInv, Waiting
<1>3. file[call[p].path] \in Bytes BY <1>2, Paths_ DEF IInv, DiskOK
<1>4. PICK c \in Build : c = [call[p] EXCEPT !.before = file[call[p].path]]
  BY <1>2, <1>3 DEF Build
<1>5. /\ c.n = call[p].n /\ c.op = call[p].op /\ c.path = call[p].path
      /\ c.before = file[c.path]
  BY <1>2, <1>4 DEF Build
<1>6. tx[c.op].dir /\ tx[c.op].phases = {"intent"}
  BY <1>1, <1>5 DEF IInv, HoldersOK, HolderAt, HolderOK, Waiting, Early
<1>7. DiskOK' BY <1>1, DiskKept DEF IInv
<1>8. JournalsOK'
  <2>1. \A r \in Operations \ {c.op} : tx[r] = NoTx
    BY <1>2, <1>5, <1>6, Sole DEF IInv
  <2>2. JournalOK(tx[c.op])'
    BY <1>1, <1>2, <1>5, <1>6 DEF IInv, JournalsOK, JournalOK, disk, NoTx
  <2>3. \A r \in Operations : JournalOK(tx[r])'
    BY <1>1, <2>1, <2>2, NoTxOK DEF disk
  <2> QED BY <1>1, <2>3, Constants DEF IInv, JournalsOK, disk
<1>9. HolderOK(c, "staged")'
  BY <1>1, <1>5, <1>6 DEF HolderOK, Early, Landing, Late, Mending, disk
<1> QED BY <1>1, <1>4, <1>5, <1>7, <1>8, <1>9, Onward

LEMMA SCheckStaged ==
  ASSUME IInv, NEW p \in Processes, CheckStaged(p)
  PROVE  IInv'
<1>1. /\ pc[p] = "staged" /\ pc[p] \notin Waiting /\ "prepare" \in Steps /\ MayPublish(call[p].path)
      /\ evidence' = [evidence EXCEPT ![call[p].path]["build"] = call[p].n]
      /\ pc' = [pc EXCEPT ![p] = "prepare"]
      /\ UNCHANGED <<file, ledger, registry, tx, lane, call, calls, touched>>
  BY DEF CheckStaged, At, Go, Waiting, Steps, Early, rare, history
<1>2. call[p] \in Build /\ call[p].path \in Paths /\ call[p].n \in Bytes
  BY <1>1, CallOf, Paths_ DEF IInv, Waiting
<1>3. DiskOK'
  BY <1>1, <1>2, Constants DEF IInv, DiskOK, Sidecars
<1>4. HolderOK(call[p], "staged")
  BY <1>1 DEF IInv, HoldersOK, HolderAt, Waiting
<1>5. HolderOK(call[p], "prepare")
  BY <1>1, <1>4 DEF HolderOK, Early, Landing, Late, Mending, MayPublish, Vouched
<1> QED BY <1>1, <1>3, <1>5, GoingOn

LEMMA SToAbort ==
  ASSUME IInv, NEW p \in Processes, RefuseStaged(p) \/ (FailStep(p) /\ pc[p] \notin Waiting)
  PROVE  IInv'
<1>1. /\ pc[p] \notin Waiting /\ "abort" \in Steps
      /\ pc' = [pc EXCEPT ![p] = "abort"]
      /\ UNCHANGED <<disk, lane, call, calls, touched>>
  BY DEF RefuseStaged, FailStep, At, Go, Waiting, Steps, rare, history
<1>2. DiskOK' BY <1>1, DiskKept DEF IInv
<1>3. HolderOK(call[p], "abort")
  BY DEF HolderOK, Early, Landing, Late, Mending
<1> QED BY <1>1, <1>2, <1>3, GoingOn DEF disk

LEMMA SPrepare ==
  ASSUME IInv, NEW p \in Processes, Prepare(p)
  PROVE  IInv'
<1> DEFINE c == call[p]
           t == [dir |-> TRUE, phases |-> tx[c.op].phases \cup {"prepared"}, path |-> c.path,
                 bytes |-> c.n, before |-> c.before]
<1>1. /\ pc[p] = "prepare" /\ pc[p] \notin Waiting /\ "gate" \in Steps
      /\ tx' = [tx EXCEPT ![c.op] = t] /\ pc' = [pc EXCEPT ![p] = "gate"]
      /\ UNCHANGED <<file, evidence, ledger, registry, lane, call, calls, touched>>
  BY DEF Prepare, At, Go, Journal, Mine, Waiting, Steps, Landing, rare, history
<1>2. /\ c \in Build /\ c.op \in Operations /\ c.path \in Outputs /\ c.n \in Calls
      /\ c.before \in Bytes /\ c.n <= calls
  BY <1>1, CallOf, Paths_ DEF IInv, ProcessesOK, Waiting
<1>3. /\ tx[c.op].dir /\ tx[c.op].phases = {"intent"}
      /\ c.path \notin touched => file[c.path] = c.before /\ Vouched(c.path, c.before)
  BY <1>1 DEF IInv, HoldersOK, HolderAt, HolderOK, Waiting, Early
<1>4. t \in Journals /\ t = JournalOf(c, "gate")
  BY <1>2, <1>3 DEF Journals, Phases, JournalOf, PhasesAt
<1>5. tx'[c.op] = t BY <1>1, <1>2 DEF IInv, DiskOK
<1>6. DiskOK'
  <2> HIDE DEF c, t
  <2> QED BY <1>1, <1>2, <1>4, Constants DEF IInv, DiskOK, Sidecars
<1>7. PICK j \in Journals : j = t BY <1>4
<1>8. JournalOK(j)'
  <2>1. c.n \in 1..calls BY <1>2, PublishAssumption DEF Calls, IInv, DiskOK
  <2>2. /\ t.dir /\ t.phases = {"intent", "prepared"} /\ t.path = c.path /\ t.bytes = c.n
        /\ t.before = c.before
    BY <1>3
  <2> HIDE DEF c, t
  <2>4. j.dir /\ j.phases = {"intent", "prepared"} /\ j.path = c.path /\ j.bytes = c.n
        /\ j.before = c.before
    BY <1>7, <2>2
  <2>5. j.path \in Outputs /\ j.bytes \in 1..calls BY <1>2, <2>1, <2>4
  <2>6. j.path \notin touched => file[j.path] = j.before /\ Vouched(j.path, j.before)
    BY <1>3, <2>4
  <2>7. j.path \notin touched => Vouched(j.path, j.before)'
    BY <1>1, <2>6 DEF Vouched
  <2> QED BY <1>1, <2>4, <2>5, <2>6, <2>7 DEF JournalOK
<1>9. JournalsOK'
  <2> HIDE DEF t
  <2> QED BY <1>1, <1>2, <1>3, <1>7, <1>8, JournalsBy DEF IInv, DiskOK
<1>10. c.path \notin touched => c.before \notin Foreign
  <2>1. registry[c.path] \in Calls \cup {None}
    BY <1>2, Paths_ DEF IInv, DiskOK, Registries
  <2> QED BY <1>3, <2>1, Paths_ DEF Vouched
<1>11. pc'[p] = "gate" /\ call'[p] = c BY <1>1 DEF IInv, ProcessesOK
<1>12. HolderAt(p)'
  BY <1>1, <1>4, <1>5, <1>10, <1>11
     DEF HolderAt, HolderOK, Early, Landing, Late, Mending, JournalOf, PhasesAt
<1> QED BY <1>1, <1>6, <1>9, <1>12, GoingOver

-----------------------------------------------------------------------------
(* Publication. *)

\* What a build past its prepared record knows of itself.
LEMMA PastPrepare ==
  ASSUME IInv, NEW p \in Processes, pc[p] \in Landing \cup Late
  PROVE  LET c == call[p]  t == tx[call[p].op] IN
         /\ pc[p] \notin Waiting /\ c \in Build /\ c.op \in Operations /\ c.path \in Outputs
         /\ c.n \in Calls /\ c.before \in Bytes /\ t \in Journals /\ JournalOK(t)
         /\ t.dir /\ t.path = c.path /\ t.bytes = c.n /\ t.before = c.before
         /\ t.phases = PhasesAt(pc[p])
         /\ HolderOK(c, pc[p])
<1>1. pc[p] \notin Waiting BY DEF Landing, Late, Waiting
<1>2. /\ call[p] \in Build /\ call[p].op \in Operations /\ call[p].path \in Outputs
      /\ call[p].n \in Calls /\ call[p].before \in Bytes
  BY <1>1, CallOf, Paths_ DEF IInv, Waiting
<1>3. HolderOK(call[p], pc[p]) BY <1>1 DEF IInv, HoldersOK, HolderAt
<1>4. tx[call[p].op] = JournalOf(call[p], pc[p]) BY <1>3 DEF HolderOK
<1>5. tx[call[p].op] \in Journals /\ JournalOK(tx[call[p].op])
  BY <1>2 DEF IInv, DiskOK, JournalsOK
<1> QED BY <1>1, <1>2, <1>3, <1>4, <1>5 DEF JournalOf

LEMMA SGate ==
  ASSUME IInv, NEW p \in Processes, Gate(p) \/ Hold(p)
  PROVE  IInv'
<1>1. /\ pc[p] \in {"gate", "hold"}
      /\ UNCHANGED <<disk, lane, call, calls, touched>>
  BY DEF Gate, Hold, At, rare, history
<1>2. PICK there \in Steps :
        /\ pc' = [pc EXCEPT ![p] = there]
        /\ there \in {"abort", "link", "hold", "replace"}
  BY DEF Gate, Hold, Go, Steps, Landing
<1>3. /\ pc[p] \notin Waiting /\ HolderOK(call[p], pc[p])
  BY <1>1, PastPrepare DEF Landing
<1>4. DiskOK' BY <1>1, DiskKept DEF IInv
<1>5. HolderOK(call[p], there)
  BY <1>1, <1>2, <1>3 DEF HolderOK, Early, Landing, Late, Mending, JournalOf, PhasesAt
<1> QED BY <1>1, <1>2, <1>3, <1>4, <1>5, GoingOn DEF disk

LEMMA SLand ==
  ASSUME IInv, NEW p \in Processes, pc[p] \in {"link", "replace"},
         file' = [file EXCEPT ![call[p].path] = call[p].n], pc' = [pc EXCEPT ![p] = "record"],
         UNCHANGED <<evidence, ledger, registry, tx, lane, call, calls, touched>>
  PROVE  IInv'
<1>1. /\ pc[p] \notin Waiting /\ call[p] \in Build /\ call[p].op \in Operations
      /\ call[p].path \in Outputs /\ call[p].n \in Calls /\ tx[call[p].op] \in Journals
      /\ tx[call[p].op].dir /\ JournalOK(tx[call[p].op])
      /\ tx[call[p].op].path = call[p].path /\ tx[call[p].op].bytes = call[p].n
      /\ tx[call[p].op] = JournalOf(call[p], pc[p])
  BY PastPrepare DEF Landing, HolderOK
<1>2. DiskOK'
  BY <1>1, Constants, Paths_ DEF IInv, DiskOK, Sidecars
<1>3. PICK j \in Journals : j = tx[call[p].op] BY <1>1
<1>4. tx' = [tx EXCEPT ![call[p].op] = j] BY <1>3 DEF IInv, DiskOK
<1>5. JournalOK(j)'
  <2>1. file'[j.path] = j.bytes
    BY <1>1, <1>3, Paths_ DEF IInv, DiskOK
  <2>2. (j.phases = {"intent", "prepared"} /\ j.path \notin touched) =>
          (registry[j.path] = j.bytes \/ Vouched(j.path, j.before))'
    BY <1>1, <1>3 DEF JournalOK, Vouched
  <2> QED BY <1>1, <1>3, <2>1, <2>2 DEF JournalOK, NoTx
<1>6. JournalsOK' BY <1>1, <1>3, <1>4, <1>5, JournalsBy DEF IInv, DiskOK
<1>7. pc'[p] = "record" /\ call'[p] = call[p] BY DEF IInv, ProcessesOK
<1>8. HolderAt(p)'
  BY <1>1, <1>7 DEF HolderAt, HolderOK, Early, Landing, Late, Mending, JournalOf, PhasesAt
<1>9. "record" \in Steps BY DEF Steps, Late
<1> QED BY <1>1, <1>2, <1>6, <1>8, <1>9, GoingOver

LEMMA SLink ==
  ASSUME IInv, NEW p \in Processes, Link(p) \/ Replace(p)
  PROVE  IInv'
<1>1. /\ pc[p] \in {"link", "replace"}
      /\ UNCHANGED <<evidence, ledger, registry, tx, lane, call, calls, touched>>
      /\ \/ file' = [file EXCEPT ![call[p].path] = call[p].n] /\ pc' = [pc EXCEPT ![p] = "record"]
         \/ UNCHANGED file /\ pc' = [pc EXCEPT ![p] = "abort"]
  BY DEF Link, Replace, At, Land, Go, rare, history
<1>2. CASE file' = [file EXCEPT ![call[p].path] = call[p].n] /\ pc' = [pc EXCEPT ![p] = "record"]
  BY <1>1, <1>2, SLand
<1>3. CASE UNCHANGED file /\ pc' = [pc EXCEPT ![p] = "abort"]
  <2>1. DiskOK' BY <1>1, <1>3, DiskKept DEF IInv, disk
  <2>2. HolderOK(call[p], "abort") BY DEF HolderOK, Early, Landing, Late, Mending
  <2>3. "abort" \in Steps /\ pc[p] \notin Waiting BY <1>1 DEF Steps, Waiting
  <2> QED BY <1>1, <1>3, <2>1, <2>2, <2>3, GoingOn
<1> QED BY <1>1, <1>2, <1>3

LEMMA SLoad ==
  ASSUME IInv, NEW p \in Processes, Load(p)
  PROVE  IInv'
<1>1. pc[p] = "record"
  <2>1. pc[p] \in Steps \cup Waiting BY DEF IInv, ProcessesOK
  <2> QED BY <2>1 DEF Load, At, Steps, Early, Landing, Late, Mending, Waiting
<1>2. /\ call' = [call EXCEPT ![p] = [call[p] EXCEPT !.seen = registry]]
      /\ pc' = [pc EXCEPT ![p] = "record-write"] /\ UNCHANGED <<disk, lane, calls, touched>>
  BY <1>1 DEF Load, At, Go, Keep, rare, history
<1>3. /\ pc[p] \notin Waiting /\ call[p] \in Build /\ HolderOK(call[p], "record")
      /\ registry \in Registries
  BY <1>1, PastPrepare DEF Late, IInv, DiskOK
<1>4. PICK c \in Build : c = [call[p] EXCEPT !.seen = registry]
  BY <1>3 DEF Build
<1>5. /\ c.n = call[p].n /\ c.op = call[p].op /\ c.path = call[p].path
      /\ c.before = call[p].before /\ c.seen = registry
  BY <1>3, <1>4 DEF Build
<1>6. DiskOK' BY <1>2, DiskKept DEF IInv
<1>7. HolderOK(c, "record-write")
  BY <1>3, <1>5 DEF HolderOK, Early, Landing, Late, Mending, JournalOf, PhasesAt
<1>8. "record-write" \in Steps BY DEF Steps, Late
<1> QED BY <1>2, <1>3, <1>4, <1>5, <1>6, <1>7, <1>8, GoingOnWith DEF disk

LEMMA SRecord ==
  ASSUME IInv, NEW p \in Processes, RecordSuccess(p)
  PROVE  IInv'
<1>1. /\ pc[p] = "record-write"
      /\ registry' = [call[p].seen EXCEPT ![call[p].path] = call[p].n]
      /\ call' = [call EXCEPT ![p] = [call[p] EXCEPT !.seen = NoCall.seen]]
      /\ pc' = [pc EXCEPT ![p] = "published"]
      /\ UNCHANGED <<file, evidence, ledger, tx, lane, calls, touched>>
  BY DEF RecordSuccess, At, Go, Keep, rare, history
<1>2. /\ pc[p] \notin Waiting /\ call[p] \in Build /\ call[p].op \in Operations
      /\ call[p].path \in Outputs /\ call[p].n \in Calls /\ tx[call[p].op] \in Journals
      /\ tx[call[p].op].dir /\ JournalOK(tx[call[p].op])
      /\ tx[call[p].op].path = call[p].path /\ tx[call[p].op].bytes = call[p].n
      /\ tx[call[p].op] = JournalOf(call[p], pc[p]) /\ call[p].seen = registry
  BY <1>1, PastPrepare DEF Late, HolderOK
<1>3. PICK c \in Build : c = [call[p] EXCEPT !.seen = NoCall.seen]
  BY <1>2 DEF Build
<1>4. c.n = call[p].n /\ c.op = call[p].op /\ c.path = call[p].path /\ c.before = call[p].before
  BY <1>2, <1>3 DEF Build
<1>5. registry' \in Registries /\ registry'[call[p].path] = call[p].n
  BY <1>1, <1>2, Paths_ DEF IInv, DiskOK, Registries
<1>6. DiskOK'
  BY <1>1, <1>5, Constants DEF IInv, DiskOK, Sidecars
<1>7. PICK j \in Journals : j = tx[call[p].op] BY <1>2
<1>8. tx' = [tx EXCEPT ![call[p].op] = j] BY <1>1, <1>7 DEF IInv, DiskOK
<1>9. JournalOK(j)'
  BY <1>1, <1>2, <1>5, <1>7 DEF JournalOK, NoTx
<1>10. JournalsOK' BY <1>2, <1>7, <1>8, <1>9, JournalsBy DEF IInv, DiskOK
<1>11. HolderOK(c, "published")'
  BY <1>1, <1>2, <1>4 DEF HolderOK, Early, Landing, Late, Mending, JournalOf, PhasesAt
<1>12. "published" \in Steps BY DEF Steps, Late
<1> QED BY <1>1, <1>2, <1>3, <1>4, <1>6, <1>10, <1>11, <1>12, Onward

\* A record of the journal that follows the prepared one.
LEMMA SLog ==
  ASSUME IInv, NEW p \in Processes, NEW here, NEW phase \in Phases, NEW there \in Late \ {"record-write"},
         pc[p] = here, here \in Late, PhasesAt(here) \cup {phase} = PhasesAt(there),
         phase \in {"published", "committed", "completed"},
         Log(p, phase), pc' = [pc EXCEPT ![p] = there],
         UNCHANGED <<file, evidence, ledger, registry, lane, call, calls, touched>>
  PROVE  IInv'
<1> DEFINE t == tx[call[p].op]
<1>1. /\ pc[p] \notin Waiting /\ call[p] \in Build /\ call[p].op \in Operations
      /\ t \in Journals /\ t.dir /\ JournalOK(t) /\ t = JournalOf(call[p], here)
  BY PastPrepare DEF HolderOK
<1>2. tx' = [tx EXCEPT ![call[p].op] = [t EXCEPT !.phases = t.phases \cup {phase}]]
  BY DEF Log, Journal, Mine
<1> HIDE DEF t
<1>3. PICK j \in Journals : j = [t EXCEPT !.phases = t.phases \cup {phase}]
  BY <1>1 DEF Journals
<1>4. /\ j.phases = t.phases \cup {phase} /\ j.dir /\ j.path = t.path /\ j.bytes = t.bytes
      /\ j.before = t.before
  BY <1>1, <1>3 DEF Journals
<1>5. j = JournalOf(call[p], there)
  BY <1>1, <1>3 DEF JournalOf
<1>6. tx'[call[p].op] = j BY <1>1, <1>2, <1>3 DEF IInv, DiskOK
<1>7. DiskOK'
  BY <1>1, <1>2, <1>3, Constants DEF IInv, DiskOK, Sidecars
<1>8. JournalOK(j)'
  <2>1. "prepared" \in t.phases /\ t.path \in Outputs /\ t.bytes \in 1..calls
    BY <1>1 DEF JournalOK, JournalOf, PhasesAt
  <2>2. j.phases # {"intent", "prepared"} BY <1>4
  <2> QED BY <1>4, <2>1, <2>2 DEF JournalOK
<1>9. JournalsOK' BY <1>1, <1>2, <1>3, <1>8, JournalsBy DEF IInv, DiskOK, t
<1>10. pc'[p] = there /\ call'[p] = call[p] BY DEF IInv, ProcessesOK
<1>11. HolderAt(p)'
  BY <1>5, <1>6, <1>10 DEF HolderAt, HolderOK, Early, Landing, Late, Mending, JournalOf, PhasesAt
<1>12. there \in Steps BY DEF Steps, Late
<1> QED BY <1>1, <1>7, <1>9, <1>11, <1>12, GoingOver

LEMMA SLogs ==
  ASSUME IInv, NEW p \in Processes, LogPublished(p) \/ Commit(p) \/ Complete(p)
  PROVE  IInv'
<1>1. UNCHANGED <<file, evidence, ledger, registry, lane, call, calls, touched>>
  BY DEF LogPublished, Commit, Complete, rare, history
<1>2. CASE LogPublished(p)
  <2>1. pc[p] = "published" /\ Log(p, "published") /\ pc' = [pc EXCEPT ![p] = "commit"]
    BY <1>2 DEF LogPublished, At, Go
  <2>2. PhasesAt("published") \cup {"published"} = PhasesAt("commit") BY DEF PhasesAt
  <2> QED BY <1>1, <2>1, <2>2, SLog DEF Phases, Late
<1>3. CASE Commit(p)
  <2>1. pc[p] = "commit" /\ Log(p, "committed") /\ pc' = [pc EXCEPT ![p] = "ledger"]
    BY <1>3 DEF Commit, At, Go
  <2>2. PhasesAt("commit") \cup {"committed"} = PhasesAt("ledger") BY DEF PhasesAt
  <2> QED BY <1>1, <2>1, <2>2, SLog DEF Phases, Late
<1>4. CASE Complete(p)
  <2>1. pc[p] = "complete" /\ Log(p, "completed") /\ pc' = [pc EXCEPT ![p] = "remove"]
    BY <1>4 DEF Complete, At, Go
  <2>2. PhasesAt("complete") \cup {"completed"} = PhasesAt("remove") BY DEF PhasesAt
  <2> QED BY <1>1, <2>1, <2>2, SLog DEF Phases, Late
<1> QED BY <1>2, <1>3, <1>4

LEMMA SLedger ==
  ASSUME IInv, NEW p \in Processes, WriteLedger(p)
  PROVE  IInv'
<1>1. /\ pc[p] = "ledger" /\ pc' = [pc EXCEPT ![p] = "complete"]
      /\ ledger' = [ledger EXCEPT ![call[p].path] = @ \cup {call[p].op}]
      /\ UNCHANGED <<file, evidence, registry, tx, lane, call, calls, touched>>
  BY DEF WriteLedger, At, Go, rare, history
<1>2. /\ pc[p] \notin Waiting /\ call[p].op \in Operations /\ call[p].path \in Paths
      /\ HolderOK(call[p], "ledger")
  BY <1>1, PastPrepare, Paths_ DEF Late
<1>3. DiskOK'
  BY <1>1, <1>2, Constants DEF IInv, DiskOK, Sidecars
<1>4. HolderOK(call[p], "complete")
  BY <1>2 DEF HolderOK, Early, Landing, Late, Mending, JournalOf, PhasesAt
<1>5. "complete" \in Steps BY DEF Steps, Late
<1> QED BY <1>1, <1>2, <1>3, <1>4, <1>5, GoingOn

\* A journal goes.
LEMMA JournalsGone ==
  ASSUME IInv, NEW o \in Operations, tx' = [tx EXCEPT ![o] = NoTx],
         UNCHANGED <<file, evidence, ledger, registry, calls, touched>>
  PROVE  DiskOK' /\ JournalsOK' /\ Pending' = Pending \ {o}
<1>1. \A r \in Operations : tx'[r] = IF r = o THEN NoTx ELSE tx[r]
  BY DEF IInv, DiskOK
<1>2. DiskOK' BY NoTxOK, Constants DEF IInv, DiskOK, Sidecars
<1>3. \A r \in Operations : JournalOK(tx[r])'
  <2>1. ASSUME NEW r \in Operations \ {o} PROVE JournalOK(tx[r])'
    <3>1. JournalOK(tx[r]) BY DEF IInv, JournalsOK
    <3>2. PICK t : t = tx[r] OBVIOUS
    <3>3. JournalOK(t)' BY <3>1, <3>2, JournalStays
    <3> QED BY <1>1, <3>2, <3>3
  <2> QED BY <1>1, <2>1, NoTxOK
<1>4. JournalsOK' BY <1>1, <1>3, NoTxOK, Constants DEF IInv, JournalsOK
<1> QED BY <1>1, <1>2, <1>4, NoTxOK, Constants DEF Pending

LEMMA SCloses ==
  ASSUME IInv, NEW p \in Processes, RemoveTx(p) \/ Abort(p)
  PROVE  IInv'
<1>1. pc[p] \in {"remove", "abort"} /\ pc[p] \notin Waiting
  BY DEF RemoveTx, Abort, At, Waiting
<1>2. call[p].kind = "build" /\ call[p].op \in Operations
  BY <1>1, CallOf, Paths_ DEF IInv, Waiting
<1>3. /\ tx' = [tx EXCEPT ![call[p].op] = NoTx]
      /\ pc' = [pc EXCEPT ![p] = "idle"] /\ call' = [call EXCEPT ![p] = NoCall]
      /\ lane' = (IF lane = p THEN None ELSE lane)
      /\ UNCHANGED <<file, evidence, ledger, registry, calls, touched>>
  BY <1>2 DEF RemoveTx, Abort, Journal, Refuse, Go, Keep, Unlock, rare, history
<1>4. DiskOK' /\ JournalsOK' BY <1>2, <1>3, JournalsGone
<1>5. /\ ProcessesOK' /\ pc'[p] = "idle"
      /\ \A q \in Processes \ {p} : pc'[q] = pc[q] /\ call'[q] = call[q]
  BY <1>3, PLeaves DEF IInv
<1>6. HoldersOK' BY <1>1, <1>5, HoldersBy DEF IInv, Waiting
<1> QED BY <1>4, <1>5, <1>6 DEF IInv

-----------------------------------------------------------------------------
(* Recovery. *)

LEMMA SStick ==
  ASSUME IInv, NEW p \in Processes, NEW o \in Operations, RecoverStick(p, o)
  PROVE  IInv'
<1>1. /\ pc[p] = "recover" /\ pc[p] \notin Waiting /\ "recover" \in Steps /\ call[p].mend = None
      /\ call' = [call EXCEPT ![p] = [call[p] EXCEPT !.todo = call[p].todo \ {o}, !.stuck = TRUE]]
      /\ UNCHANGED <<disk, lane, pc, calls, touched>>
  BY DEF RecoverStick, Takes, At, Keep, Waiting, Steps, rare, history
<1>2. call[p] \in Build BY <1>1, CallOf DEF IInv, Waiting
<1>3. PICK c \in Build : c = [call[p] EXCEPT !.todo = call[p].todo \ {o}, !.stuck = TRUE]
  BY <1>2 DEF Build
<1>4. c.n = call[p].n /\ c.mend = None /\ c.stuck BY <1>1, <1>2, <1>3 DEF Build
<1>5. DiskOK' BY <1>1, DiskKept DEF IInv
<1>6. HolderOK(c, "recover") BY <1>4 DEF HolderOK, Early, Landing, Late, Mending
<1>7. pc' = [pc EXCEPT ![p] = "recover"] BY <1>1 DEF IInv, ProcessesOK
<1> QED BY <1>1, <1>3, <1>4, <1>5, <1>6, <1>7, GoingOnWith DEF disk

LEMMA SBack ==
  ASSUME IInv, NEW p \in Processes, NEW o \in Operations, RecoverBack(p, o)
  PROVE  IInv'
<1>1. /\ pc[p] = "recover" /\ pc[p] \notin Waiting /\ "recover" \in Steps /\ call[p].mend = None
      /\ call' = [call EXCEPT ![p] = [call[p] EXCEPT !.todo = call[p].todo \ {o}]]
      /\ tx' = [tx EXCEPT ![o] = NoTx]
      /\ UNCHANGED <<file, evidence, ledger, registry, lane, pc, calls, touched>>
  BY DEF RecoverBack, Takes, Skip, At, Keep, Waiting, Steps, rare
<1>2. call[p] \in Build BY <1>1, CallOf DEF IInv, Waiting
<1>3. PICK c \in Build : c = [call[p] EXCEPT !.todo = call[p].todo \ {o}]
  BY <1>2 DEF Build
<1>4. c.n = call[p].n /\ c.mend = None /\ c.stuck = call[p].stuck /\ c.todo = call[p].todo \ {o}
  BY <1>1, <1>2, <1>3 DEF Build
<1>5. DiskOK' /\ JournalsOK' /\ Pending' = Pending \ {o} BY <1>1, JournalsGone
<1>6. call[p].stuck \/ Pending \subseteq call[p].todo
  BY <1>1 DEF IInv, HoldersOK, HolderAt, HolderOK
<1>7. HolderOK(c, "recover")'
  BY <1>4, <1>5, <1>6 DEF HolderOK, Early, Landing, Late, Mending
<1>8. pc' = [pc EXCEPT ![p] = "recover"] BY <1>1 DEF IInv, ProcessesOK
<1> QED BY <1>1, <1>3, <1>4, <1>5, <1>7, <1>8, Onward

LEMMA SForward ==
  ASSUME IInv, NEW p \in Processes, NEW o \in Operations, RecoverForward(p, o)
  PROVE  IInv'
<1>1. /\ pc[p] = "recover" /\ pc[p] \notin Waiting /\ "fix-ledger" \in Steps
      /\ call' = [call EXCEPT ![p] = [call[p] EXCEPT !.mend = o]]
      /\ pc' = [pc EXCEPT ![p] = "fix-ledger"]
      /\ UNCHANGED <<disk, lane, calls, touched>>
      /\ IsSettled(o) \/ IsForward(tx[o])
  BY DEF RecoverForward, Takes, At, Go, Keep, Waiting, Steps, Mending, rare, history
<1>2. call[p] \in Build BY <1>1, CallOf DEF IInv, Waiting
<1>3. PICK c \in Build : c = [call[p] EXCEPT !.mend = o]
  BY <1>2 DEF Build
<1>4. c.n = call[p].n /\ c.mend = o BY <1>2, <1>3 DEF Build
<1>5. "prepared" \in tx[o].phases
  <2>1. JournalOK(tx[o]) BY DEF IInv, JournalsOK
  <2> QED BY <1>1, <2>1 DEF JournalOK, IsSettled, IsForward
<1>6. DiskOK' BY <1>1, DiskKept DEF IInv
<1>7. HolderOK(c, "fix-ledger")
  BY <1>4, <1>5 DEF HolderOK, Early, Landing, Late, Mending
<1> QED BY <1>1, <1>3, <1>4, <1>6, <1>7, GoingOnWith DEF disk

\* The journal a recovery repairs.
LEMMA Mends ==
  ASSUME IInv, NEW p \in Processes, pc[p] \in Mending
  PROVE  LET c == call[p]  t == tx[call[p].mend] IN
         /\ pc[p] \notin Waiting /\ c \in Build /\ c.mend \in Operations
         /\ t \in Journals /\ JournalOK(t) /\ t.dir /\ "prepared" \in t.phases
         /\ t.path \in Outputs /\ t.bytes \in Calls /\ HolderOK(c, pc[p])
<1>1. pc[p] \notin Waiting BY DEF Mending, Waiting
<1>2. call[p] \in Build BY <1>1, CallOf DEF IInv, Waiting
<1>3. HolderOK(call[p], pc[p]) BY <1>1 DEF IInv, HoldersOK, HolderAt
<1>4. call[p].mend \in Operations /\ "prepared" \in tx[call[p].mend].phases
  BY <1>3 DEF HolderOK
<1>5. tx[call[p].mend] \in Journals /\ JournalOK(tx[call[p].mend])
  BY <1>4 DEF IInv, DiskOK, JournalsOK
<1>6. 1..calls \subseteq Calls BY PublishAssumption DEF IInv, DiskOK, Calls
<1> QED BY <1>1, <1>2, <1>3, <1>4, <1>5, <1>6 DEF JournalOK, NoTx

LEMMA SFixBeside ==
  ASSUME IInv, NEW p \in Processes, FixLedger(p) \/ FixEvidence(p)
  PROVE  IInv'
<1>1. /\ pc[p] \in {"fix-ledger", "fix-evidence"}
      /\ UNCHANGED <<file, registry, tx, lane, call, calls, touched>>
  BY DEF FixLedger, FixEvidence, At, rare, history
<1>2. /\ pc[p] \notin Waiting /\ call[p].mend \in Operations /\ HolderOK(call[p], pc[p])
      /\ tx[call[p].mend].path \in Outputs /\ tx[call[p].mend].bytes \in Calls
  BY <1>1, Mends DEF Mending
<1>3. PICK there \in {"fix-evidence", "fix-complete", "fix-remove"} :
        /\ pc' = [pc EXCEPT ![p] = there]
        /\ there = "fix-remove" => IsSettled(call[p].mend)
  BY DEF FixLedger, FixEvidence, Go
<1>4. DiskOK'
  BY <1>1, <1>2, Constants, Paths_
     DEF FixLedger, FixEvidence, Mended, IInv, DiskOK, Sidecars
<1>5. HolderOK(call[p], there)
  BY <1>1, <1>2, <1>3 DEF HolderOK, IsSettled, Early, Landing, Late, Mending
<1>6. there \in Steps BY DEF Steps, Mending
<1> QED BY <1>1, <1>2, <1>3, <1>4, <1>5, <1>6, GoingOn

LEMMA SFixComplete ==
  ASSUME IInv, NEW p \in Processes, FixComplete(p)
  PROVE  IInv'
<1> DEFINE t == tx[call[p].mend]
<1>1. /\ pc[p] = "fix-complete" /\ pc' = [pc EXCEPT ![p] = "fix-record"]
      /\ tx' = [tx EXCEPT ![call[p].mend] = [t EXCEPT !.phases = t.phases \cup {"completed"}]]
      /\ UNCHANGED <<file, evidence, ledger, registry, lane, call, calls, touched>>
  BY DEF FixComplete, Mended, At, Go, rare, history
<1>2. /\ pc[p] \notin Waiting /\ call[p].mend \in Operations
      /\ t \in Journals /\ JournalOK(t) /\ t.dir /\ "prepared" \in t.phases
  BY <1>1, Mends DEF Mending
<1> HIDE DEF t
<1>3. PICK j \in Journals : j = [t EXCEPT !.phases = t.phases \cup {"completed"}]
  BY <1>2 DEF Journals, Phases
<1>4. /\ j.phases = t.phases \cup {"completed"} /\ j.dir /\ j.path = t.path /\ j.bytes = t.bytes
  BY <1>2, <1>3 DEF Journals
<1>5. tx'[call[p].mend] = j BY <1>1, <1>2, <1>3 DEF IInv, DiskOK
<1>6. DiskOK'
  BY <1>1, <1>2, <1>3, Constants DEF IInv, DiskOK, Sidecars
<1>7. JournalOK(j)'
  BY <1>1, <1>2, <1>4 DEF JournalOK
<1>8. JournalsOK' BY <1>1, <1>2, <1>3, <1>7, JournalsBy DEF IInv, DiskOK, t
<1>9. pc'[p] = "fix-record" /\ call'[p] = call[p] BY <1>1 DEF IInv, ProcessesOK
<1>10. HolderAt(p)'
  BY <1>2, <1>4, <1>5, <1>9, Constants DEF HolderAt, HolderOK, Early, Landing, Late, Mending
<1>11. "fix-record" \in Steps BY DEF Steps, Mending
<1> QED BY <1>1, <1>2, <1>6, <1>8, <1>10, <1>11, GoingOver

LEMMA SFixRecord ==
  ASSUME IInv, NEW p \in Processes, FixRecord(p)
  PROVE  IInv'
<1> DEFINE t == tx[call[p].mend]
<1>1. /\ pc[p] = "fix-record" /\ pc' = [pc EXCEPT ![p] = "fix-remove"]
      /\ registry' = IF Landed(t) THEN [registry EXCEPT ![t.path] = t.bytes] ELSE registry
      /\ UNCHANGED <<file, evidence, ledger, tx, lane, call, calls, touched>>
  BY DEF FixRecord, Mended, At, Go, rare, history
<1>2. /\ pc[p] \notin Waiting /\ call[p].mend \in Operations
      /\ t \in Journals /\ JournalOK(t) /\ t.dir /\ "prepared" \in t.phases
      /\ t.path \in Paths /\ t.bytes \in Calls /\ "completed" \in t.phases
  BY <1>1, Mends, Paths_ DEF Mending, HolderOK
<1> HIDE DEF t
<1>3. registry' \in Registries
  BY <1>1, <1>2 DEF IInv, DiskOK, Registries
<1>4. DiskOK'
  BY <1>1, <1>3, Constants DEF IInv, DiskOK, Sidecars
<1>5. PICK j \in Journals : j = t BY <1>2
<1>6. JournalOK(j)'
  <2>1. j.phases # {"intent", "prepared"} BY <1>2, <1>5
  <2> QED BY <1>1, <1>2, <1>5, <2>1 DEF JournalOK
<1>7. tx' = [tx EXCEPT ![call[p].mend] = j] BY <1>1, <1>5 DEF IInv, DiskOK, t
<1>8. JournalsOK' BY <1>2, <1>6, <1>7, JournalsBy DEF IInv, DiskOK, t
<1>9. pc'[p] = "fix-remove" /\ call'[p] = call[p] /\ tx'[call[p].mend] = t
  BY <1>1 DEF IInv, ProcessesOK, t
<1>10. HolderAt(p)'
  BY <1>2, <1>9, Constants DEF HolderAt, HolderOK, Early, Landing, Late, Mending
<1>11. "fix-remove" \in Steps BY DEF Steps, Mending
<1> QED BY <1>1, <1>2, <1>4, <1>8, <1>10, <1>11, GoingOver

LEMMA SFixRemove ==
  ASSUME IInv, NEW p \in Processes, FixRemove(p)
  PROVE  IInv'
<1>1. /\ pc[p] = "fix-remove" /\ pc' = [pc EXCEPT ![p] = "recover"]
      /\ tx' = [tx EXCEPT ![call[p].mend] = NoTx]
      /\ call' = [call EXCEPT ![p] = [call[p] EXCEPT !.todo = call[p].todo \ {call[p].mend},
                                                     !.mend = None]]
      /\ UNCHANGED <<file, evidence, ledger, registry, lane, calls, touched>>
  BY DEF FixRemove, At, Go, Keep, rare, history
<1>2. /\ pc[p] \notin Waiting /\ call[p] \in Build /\ call[p].mend \in Operations
      /\ tx[call[p].mend].dir
  BY <1>1, Mends DEF Mending
<1>3. PICK c \in Build : c = [call[p] EXCEPT !.todo = call[p].todo \ {call[p].mend}, !.mend = None]
  BY <1>2 DEF Build
<1>4. c.n = call[p].n /\ c.mend = None BY <1>2, <1>3 DEF Build
<1>5. DiskOK' /\ JournalsOK' /\ Pending' = Pending \ {call[p].mend} BY <1>1, <1>2, JournalsGone
<1>6. Pending' = {}
  BY <1>2, <1>5 DEF Pending, IInv, JournalsOK
<1>7. HolderOK(c, "recover")'
  BY <1>4, <1>6 DEF HolderOK, Early, Landing, Late, Mending
<1>8. "recover" \in Steps BY DEF Steps
<1> QED BY <1>1, <1>2, <1>3, <1>4, <1>5, <1>7, <1>8, Onward

\* A repair that fails leaves its journal to the next recovery.
LEMMA SFailMend ==
  ASSUME IInv, NEW p \in Processes, FailMend(p)
  PROVE  IInv'
<1>1. /\ pc[p] \in Mending /\ pc' = [pc EXCEPT ![p] = "recover"]
      /\ call' = [call EXCEPT ![p] = [call[p] EXCEPT !.todo = call[p].todo \ {call[p].mend},
                                                     !.mend = None, !.stuck = TRUE]]
      /\ UNCHANGED <<disk, lane, calls, touched>>
  BY DEF FailMend, Mending, Go, Keep, history
<1>2. pc[p] \notin Waiting /\ call[p] \in Build BY <1>1, Mends
<1>3. PICK c \in Build : c = [call[p] EXCEPT !.todo = call[p].todo \ {call[p].mend},
                                             !.mend = None, !.stuck = TRUE]
  BY <1>2 DEF Build
<1>4. c.n = call[p].n /\ c.mend = None /\ c.stuck BY <1>2, <1>3 DEF Build
<1>5. DiskOK' BY <1>1, DiskKept DEF IInv
<1>6. HolderOK(c, "recover") BY <1>4 DEF HolderOK, Early, Landing, Late, Mending
<1>7. "recover" \in Steps BY DEF Steps
<1> QED BY <1>1, <1>2, <1>3, <1>4, <1>5, <1>6, <1>7, GoingOnWith DEF disk

LEMMA SRecovered ==
  ASSUME IInv, NEW p \in Processes, Recovered(p)
  PROVE  IInv'
<1>1. /\ pc[p] = "recover" /\ pc[p] \notin Waiting /\ call[p].todo = {}
      /\ UNCHANGED <<disk, calls, touched>>
  BY DEF Recovered, At, Waiting, rare
<1>2. call[p].kind = "build" BY <1>1, CallOf DEF IInv, Waiting
<1>3. CASE call[p].stuck
  <2>1. /\ pc' = [pc EXCEPT ![p] = "idle"] /\ call' = [call EXCEPT ![p] = NoCall]
        /\ lane' = (IF lane = p THEN None ELSE lane)
    BY <1>2, <1>3 DEF Recovered, Refuse, Go, Keep, Unlock
  <2> QED BY <1>1, <2>1, Leaving
<1>4. CASE ~call[p].stuck
  <2>1. pc' = [pc EXCEPT ![p] = "check"] /\ UNCHANGED <<lane, call>> /\ "check" \in Steps
    BY <1>4 DEF Recovered, Go, Steps
  <2>2. Pending = {}
    BY <1>1, <1>4 DEF IInv, HoldersOK, HolderAt, HolderOK
  <2>3. HolderOK(call[p], "check")
    BY <2>2 DEF HolderOK, Early, Landing, Late, Mending
  <2>4. DiskOK' BY <1>1, DiskKept DEF IInv
  <2> QED BY <1>1, <2>1, <2>3, <2>4, GoingOn DEF disk
<1> QED BY <1>3, <1>4

-----------------------------------------------------------------------------
(* The other program. *)

LEMMA SForeign ==
  ASSUME IInv, NEW path \in Outputs, NEW bytes \in Foreign \cup {None}, Foreignly(path, bytes)
  PROVE  IInv'
<1>1. /\ file' = [file EXCEPT ![path] = bytes] /\ touched' = touched \cup {path}
      /\ UNCHANGED <<evidence, ledger, registry, tx, lane, pc, call, calls>>
  BY DEF Foreignly, Land
<1>2. \A t \in Paths : t \notin touched' => t \notin touched /\ file'[t] = file[t]
  BY <1>1 DEF IInv, DiskOK
<1>3. DiskOK'
  BY <1>1, Constants, Paths_ DEF IInv, DiskOK, Sidecars
<1>4. ProcessesOK'
  BY <1>1, Constants DEF IInv, ProcessesOK, Waiting
<1>5. JournalsOK'
  <2>1. ASSUME NEW r \in Operations PROVE JournalOK(tx[r])'
    <3>1. PICK t : t = tx[r] OBVIOUS
    <3>2. JournalOK(t) BY <3>1 DEF IInv, JournalsOK
    <3>3. JournalOK(t)' BY <1>1, <1>2, <3>2, Paths_ DEF JournalOK, Vouched, NoTx
    <3> QED BY <1>1, <3>1, <3>3
  <2> QED BY <1>1, <2>1, Constants DEF IInv, JournalsOK
<1>6. HoldersOK'
  <2>1. SUFFICES ASSUME NEW p \in Processes, pc'[p] \notin Waiting PROVE HolderAt(p)'
    BY DEF HoldersOK
  <2>2. pc'[p] = pc[p] /\ call'[p] = call[p] /\ pc[p] \notin Waiting BY <1>1, <2>1
  <2>3. HolderOK(call[p], pc[p]) BY <2>2 DEF IInv, HoldersOK, HolderAt
  <2>4. call[p].path \in Paths BY <2>2, CallOf, Paths_ DEF IInv, Waiting
  <2> QED BY <1>1, <1>2, <2>2, <2>3, <2>4, Constants
          DEF HolderAt, HolderOK, Vouched, JournalOf, PhasesAt, Pending
<1> QED BY <1>3, <1>4, <1>5, <1>6 DEF IInv

-----------------------------------------------------------------------------
(* The invariant. *)

LEMMA InitOK ==
  ASSUME Init
  PROVE  IInv
<1>1. \A r \in Operations : tx[r] = NoTx /\ JournalOK(tx[r])
  BY NoTxOK DEF Init
<1>2. DiskOK
  <2>1. file \in [Paths -> Bytes] BY Paths_ DEF Init
  <2>2. evidence \in [Paths -> [Sidecars -> Bytes]] BY Paths_ DEF Init
  <2>3. tx \in [Operations -> Journals] BY NoTxOK DEF Init
  <2>4. calls \in 0..MaxCalls BY PublishAssumption DEF Init
  <2> QED BY <2>1, <2>2, <2>3, <2>4 DEF Init, DiskOK, Registries
<1>3. ProcessesOK BY DEF Init, ProcessesOK, Waiting
<1>4. JournalsOK BY <1>1, NoTxOK DEF JournalsOK
<1>5. HoldersOK BY DEF Init, HoldersOK, Waiting
<1> QED BY <1>2, <1>3, <1>4, <1>5 DEF IInv

LEMMA Stutters ==
  ASSUME IInv, UNCHANGED vars
  PROVE  IInv'
<1>1. DiskOK' BY DiskKept DEF IInv, vars, disk
<1>2. ProcessesOK' BY Constants DEF IInv, vars, ProcessesOK, Waiting
<1>3. JournalsOK' BY JournalsKept DEF IInv, vars
<1>4. HoldersOK'
  BY Constants DEF IInv, vars, HoldersOK, HolderAt, HolderOK, JournalOf, PhasesAt, Vouched, Pending
<1> QED BY <1>1, <1>2, <1>3, <1>4 DEF IInv

\* A build is never at a step of a save.
LEMMA NoSave ==
  ASSUME IInv, NEW p \in Processes
  PROVE  ~Publication(p) /\ ~FailMove(p)
<1>1. pc[p] \in Steps \cup Waiting BY DEF IInv, ProcessesOK
<1>2. pc[p] \notin {"verify", "capture", "guard", "side-build", "side-verify", "side-ledger",
                    "new-build", "new-verify", "new-ledger", "new-document", "save-replace",
                    "discard", "reread", "compare", "save-record-write"}
  BY <1>1 DEF Steps, Early, Landing, Late, Mending, Waiting
<1>3. ~Publication(p)
  BY <1>2 DEF Publication, VerifyStaged, Capture, Guard, MoveBuildEvidence, MoveVerifyEvidence,
         MoveOperations, SaveReplace, SaveLink, Discard, Reread, Compare, SaveRecord, At
<1>4. ~FailMove(p) BY <1>2 DEF FailMove
<1> QED BY <1>3, <1>4

\* A write in place and a rename are one thing to whoever holds no guard.
LEMMA Somebody ==
  ASSUME Next
  PROVE  \/ \E p \in Processes : Work(p) \/ FailStep(p) \/ FailMove(p) \/ FailMend(p) \/ Crash(p)
         \/ \E p \in Processes, kind \in Kinds, o \in Ops, out \in Outputs : Call(p, kind, o, out)
         \/ \E path \in Outputs, bytes \in Foreign \cup {None} : Foreignly(path, bytes)
  BY DEF Next, ForeignWrite, ForeignRename

LEMMA NextOK ==
  ASSUME IInv, BuildsOnly, [Next]_vars
  PROVE  IInv'
<1>1. CASE UNCHANGED vars BY <1>1, Stutters
<1>2. ASSUME NEW p \in Processes, Transaction(p) PROVE IInv'
  BY <1>2, SAcquire, SLeaves, SBegin, SRun, SCheckStaged, SToAbort, SPrepare, SGate, SLink, SLoad,
     SRecord, SLogs, SLedger, SCloses DEF Transaction
<1>3. ASSUME NEW p \in Processes, Recovery(p) PROVE IInv'
  BY <1>3, SStick, SBack, SForward, SFixBeside, SFixComplete, SFixRecord, SFixRemove, SRecovered
     DEF Recovery
<1>4. ASSUME NEW p \in Processes, FailStep(p) PROVE IInv'
  <2>1. pc[p] \notin Waiting BY <1>4 DEF FailStep, FallibleEarly, FallibleLate, Waiting
  <2> QED BY <1>4, <2>1, SToAbort
<1>5. ASSUME NEW p \in Processes, Crash(p) PROVE IInv' BY <1>5, SLeaves
<1>6. ASSUME NEW p \in Processes, Work(p) PROVE IInv'
  BY <1>2, <1>3, <1>6, NoSave DEF Work
<1> QED BY <1>1, <1>4, <1>5, <1>6, Somebody, NoSave, SCall, SFailMend, SForeign

\* Whatever the other program writes, wherever a build dies and whichever of its
\* steps fails, the journals on the disk and the memory of whoever has the lane
\* keep what was checked of the output they are about.
THEOREM Vouching == BuildsOnly => (Spec => []IInv)
<1>1. Init => IInv BY InitOK
<1>2. BuildsOnly /\ IInv /\ [Next]_vars => IInv' BY NextOK
<1>3. BuildsOnly => (IInv /\ [][Next]_vars => []IInv)
  <2>1. SUFFICES ASSUME BuildsOnly PROVE IInv /\ [][Next]_vars => []IInv OBVIOUS
  <2>2. IInv /\ [Next]_vars => IInv' BY <1>2, <2>1
  <2> QED BY <2>2, PTL
<1> QED BY <1>1, <1>3, PTL DEF Spec

-----------------------------------------------------------------------------
(* Recovery can decide. *)

LEMMA Decides ==
  ASSUME IInv
  PROVE  PreparedDecidable
<1> SUFFICES ASSUME NEW o \in Operations, tx[o].phases = {"intent", "prepared"},
                    tx[o].path \notin touched, ~(tx[o].path = Source /\ tx[o].before = Baseline)
             PROVE  ~IsStuck(o)
  BY DEF PreparedDecidable
<1>1. /\ file[tx[o].path] \in {tx[o].bytes, tx[o].before}
      /\ registry[tx[o].path] = tx[o].bytes \/ Vouched(tx[o].path, tx[o].before)
  BY DEF IInv, JournalsOK, JournalOK
<1>2. Provable(tx[o]) BY <1>1 DEF Provable, Vouched
<1>3. IsForward(tx[o]) \/ IsBack(tx[o]) BY <1>1, <1>2 DEF IsForward, IsBack, Landed
<1> QED BY <1>3 DEF IsStuck, ChainOk

\* A journal that ends in its prepared record is one recovery can decide, however
\* many builds, crashes, faults and writes of the other program came before, unless
\* that program wrote the output since staging or the output was the source with
\* its baseline bytes (store.rs 2301-2475).
THEOREM EveryPreparedIsDecidable == BuildsOnly => (Spec => []PreparedDecidable)
<1>1. IInv => PreparedDecidable BY Decides
<1> QED BY <1>1, Vouching, PTL

-----------------------------------------------------------------------------
(* The work of the other program. *)

\* Behind the guard lies what was captured, unless the other program put another file
\* at the output, and then it wrote that output since it was staged.
HeldOK ==
  /\ slipped \subseteq Processes
  /\ \A p \in slipped : pc[p] = "replace" /\ call[p].path \in touched
  /\ \A p \in Processes : pc[p] = "replace" /\ p \notin slipped => file[call[p].path] = call[p].before

\* A step of somebody who takes or drops no guard while another holds one.
LEMMA HeldKept ==
  ASSUME IInv, HeldOK, NEW p \in Processes, pc[p] # "replace",
         \A q \in Processes \ {p} : pc'[q] = pc[q] /\ call'[q] = call[q],
         slipped' \subseteq slipped, slipped \subseteq slipped' \cup {p},
         pc'[p] = "replace" => file'[call'[p].path] = call'[p].before,
         pc[p] \in Waiting => UNCHANGED <<file, touched>>
  PROVE  HeldOK'
<1>1. p \notin slipped BY DEF HeldOK
<1>2. CASE \A q \in Processes : pc[q] # "replace"
  <2>1. slipped = {} BY <1>2 DEF HeldOK
  <2> QED BY <1>1, <1>2, <2>1 DEF HeldOK
<1>3. ASSUME NEW q \in Processes, pc[q] = "replace" PROVE HeldOK'
  <2>1. q # p /\ pc[q] \notin Waiting BY <1>3 DEF Waiting
  <2>2. pc[p] \in Waiting BY <2>1, Alone DEF IInv
  <2> QED BY <1>1, <2>2 DEF HeldOK
<1> QED BY <1>2, <1>3

\* The guard goes with the step that follows.
LEMMA HeldDropped ==
  ASSUME IInv, HeldOK, NEW p \in Processes, pc[p] = "replace", pc'[p] # "replace",
         \A q \in Processes \ {p} : pc'[q] = pc[q], slipped' = slipped \ {p}
  PROVE  HeldOK'
<1>1. \A q \in Processes \ {p} : pc[q] # "replace" /\ pc'[q] # "replace"
  BY Alone DEF IInv, Waiting
<1> QED BY <1>1 DEF HeldOK

LEMMA HeldForeign ==
  ASSUME IInv, HeldOK, GuardDenies, NEW path \in Outputs, NEW bytes,
         ForeignWrite(path, bytes) \/ ForeignRename(path, bytes)
  PROVE  HeldOK'
<1>1. /\ UNCHANGED <<pc, call>> /\ touched' = touched \cup {path}
      /\ \A t \in Paths : t # path => file'[t] = file[t]
  BY DEF ForeignWrite, ForeignRename, Foreignly, Land, IInv, DiskOK
<1>2. \A p \in Processes : pc[p] # "idle" => call[p].path \in Paths BY CallOf, Paths_ DEF IInv
<1>3. \A p \in Processes : Guarding(p, path) <=> pc[p] = "replace" /\ call[p].path = path
  <2>1. \A p \in Processes : pc[p] \notin {"side-build", "side-verify", "side-ledger", "save-replace"}
    BY DEF IInv, ProcessesOK, Steps, Early, Landing, Late, Mending, Waiting
  <2> QED BY <2>1 DEF Guarding, At
<1>4. CASE ForeignWrite(path, bytes)
  BY <1>1, <1>2, <1>3, <1>4 DEF ForeignWrite, Guarded, HeldOK
<1>5. CASE ForeignRename(path, bytes)
  <2>1. slipped' = slipped \cup {p \in Processes : pc[p] = "replace" /\ call[p].path = path}
    BY <1>3, <1>5 DEF ForeignRename
  <2> QED BY <1>1, <1>2, <2>1 DEF HeldOK
<1> QED BY <1>4, <1>5

LEMMA HeldNext ==
  ASSUME IInv, HeldOK, BuildsOnly, GuardDenies, [Next]_vars
  PROVE  HeldOK'
<1>1. CASE UNCHANGED vars BY <1>1 DEF vars, HeldOK
<1>2. ASSUME NEW p \in Processes,
             Replace(p) \/ ((FailStep(p) \/ Crash(p)) /\ pc[p] = "replace")
      PROVE  HeldOK'
  <2>1. pc[p] = "replace" /\ slipped' = slipped \ {p}
    BY <1>2 DEF Replace, FailStep, Crash, DropGuard, At
  <2>2. pc'[p] # "replace" /\ \A q \in Processes \ {p} : pc'[q] = pc[q]
    BY <1>2 DEF Replace, FailStep, Crash, Go, IInv, ProcessesOK
  <2> QED BY <2>1, <2>2, HeldDropped
<1>3. ASSUME NEW p \in Processes, (FailStep(p) \/ Crash(p)) /\ pc[p] # "replace" PROVE HeldOK'
  <2>1. /\ UNCHANGED <<file, touched>> /\ pc'[p] \in {"abort", "idle"}
        /\ slipped' = slipped \ {p}
        /\ \A q \in Processes \ {p} : pc'[q] = pc[q] /\ call'[q] = call[q]
    BY <1>3 DEF FailStep, Crash, DropGuard, Go, Keep, disk, history, IInv, ProcessesOK
  <2> QED BY <1>3, <2>1, HeldKept
<1>4. ASSUME NEW p \in Processes, Transaction(p), ~Replace(p) PROVE HeldOK'
  <2>1. /\ pc[p] # "replace" /\ UNCHANGED slipped
        /\ \A q \in Processes \ {p} : pc'[q] = pc[q] /\ call'[q] = call[q]
    BY <1>4 DEF Transaction, Acquire, Busy, Replay, RefuseEntry, Begin, Run, CheckStaged,
       RefuseStaged, Prepare, Gate, Link, Hold, Load, RecordSuccess, LogPublished, Commit,
       WriteLedger, Complete, RemoveTx, Abort, Refuse, At, Go, Keep, rare, IInv, ProcessesOK
  <2>2. pc'[p] = "replace" => Hold(p)
    BY <1>4 DEF Transaction, Acquire, Busy, Replay, RefuseEntry, Begin, Run, CheckStaged,
       RefuseStaged, Prepare, Gate, Link, Load, RecordSuccess, LogPublished, Commit,
       WriteLedger, Complete, RemoveTx, Abort, Refuse, At, Go, IInv, ProcessesOK
  <2>3. Hold(p) /\ pc'[p] = "replace" => file'[call'[p].path] = call'[p].before
    BY DEF Hold, Go, disk, IInv, ProcessesOK
  <2>4. pc[p] \in Waiting => UNCHANGED <<file, touched>>
    BY <1>4 DEF Transaction, Acquire, Busy, Replay, RefuseEntry, Begin, Run, CheckStaged,
       RefuseStaged, Prepare, Gate, Link, Hold, Load, RecordSuccess, LogPublished, Commit,
       WriteLedger, Complete, RemoveTx, Abort, At, disk, history, Waiting
  <2> QED BY <2>1, <2>2, <2>3, <2>4, HeldKept
<1>5. ASSUME NEW p \in Processes, Recovery(p) \/ FailMend(p) PROVE HeldOK'
  <2>1. pc[p] # "replace" /\ UNCHANGED <<slipped, file, touched>>
    BY <1>5 DEF Recovery, RecoverStick, RecoverBack, RecoverForward, Takes, FixLedger, FixEvidence,
       FixComplete, FixRecord, FixRemove, Recovered, FailMend, At, disk, rare, history
  <2>2. \A q \in Processes \ {p} : pc'[q] = pc[q] /\ call'[q] = call[q]
    BY <1>5 DEF Recovery, RecoverStick, RecoverBack, RecoverForward, Takes, Skip, FixLedger, FixEvidence,
       FixComplete, FixRecord, FixRemove, Recovered, Refuse, FailMend, Go, Keep, IInv, ProcessesOK
  <2>3. pc'[p] # "replace"
    BY <1>5 DEF Recovery, RecoverStick, RecoverBack, RecoverForward, Takes, FixLedger, FixEvidence,
       FixComplete, FixRecord, FixRemove, Recovered, Refuse, FailMend, At, Go, IInv, ProcessesOK
  <2> QED BY <2>1, <2>2, <2>3, HeldKept
<1>6. ASSUME NEW p \in Processes, NEW kind \in Kinds, NEW o \in Ops, NEW out \in Outputs,
             Call(p, kind, o, out)
      PROVE  HeldOK'
  <2>1. /\ pc[p] = "idle" /\ pc'[p] = "lane" /\ UNCHANGED <<slipped, file, touched>>
        /\ \A q \in Processes \ {p} : pc'[q] = pc[q] /\ call'[q] = call[q]
    BY <1>6 DEF Call, At, Go, Keep, disk, history, IInv, ProcessesOK
  <2> QED BY <2>1, HeldKept
<1> QED BY <1>1, <1>2, <1>3, <1>4, <1>5, <1>6, NoSave, HeldForeign DEF Next, Work

LEMMA Stays ==
  ASSUME IInv, HeldOK, BuildsOnly, [Next]_vars,
         NEW t \in Outputs, file[t] \in Foreign, file'[t] \in Calls
  PROVE  \E p \in Processes :
           /\ Replacing(p, t)
           /\ call[p].before = file[t] \/ p \in slipped
           /\ At(p, "replace") => t \in touched \/ registry[t] \in Foreign
<1>1. file' # file BY Paths_
<1>2. ASSUME NEW p \in Processes, Link(p) PROVE FALSE
  <2>1. call[p].path \in Paths
    BY <1>2, PastPrepare, Paths_ DEF Link, At, Landing
  <2> QED BY <1>1, <1>2, <2>1, Paths_ DEF Link, Land, IInv, DiskOK
<1>3. ASSUME NEW p \in Processes, Replace(p)
      PROVE  Replacing(p, t) /\ (call[p].before = file[t] \/ p \in slipped) /\ t \in touched
  <2>1. pc[p] = "replace" BY <1>3 DEF Replace, At
  <2>2. call[p].path \in Paths /\ HolderOK(call[p], "replace")
    BY <2>1, PastPrepare, Paths_ DEF Landing
  <2>3. call[p].path = t
    BY <1>1, <1>3, <2>2, Paths_ DEF Replace, Land, IInv, DiskOK
  <2>4. p \in slipped => t \in touched BY <2>3 DEF HeldOK
  <2>5. p \notin slipped => file[t] = call[p].before BY <2>1, <2>3 DEF HeldOK
  <2> QED BY <2>1, <2>2, <2>3, <2>4, <2>5 DEF HolderOK, Landing, Replacing, At
<1>4. ASSUME NEW path \in Outputs, NEW bytes \in Foreign \cup {None}, Foreignly(path, bytes)
      PROVE  FALSE
  BY <1>4, Paths_ DEF Foreignly, Land, IInv, DiskOK
<1>5. ASSUME NEW p \in Processes, Transaction(p), ~Link(p), ~Replace(p) PROVE FALSE
  BY <1>1, <1>5 DEF Transaction, Acquire, Busy, Replay, RefuseEntry, Begin, Run, CheckStaged,
     RefuseStaged, Prepare, Gate, Hold, Load, RecordSuccess, LogPublished, Commit, WriteLedger,
     Complete, RemoveTx, Abort, disk
<1>6. ASSUME NEW p \in Processes, Recovery(p) PROVE FALSE
  BY <1>1, <1>6 DEF Recovery, RecoverStick, RecoverBack, RecoverForward, FixLedger, FixEvidence,
     FixComplete, FixRecord, FixRemove, Recovered, disk
<1>7. ASSUME NEW p \in Processes, FailStep(p) \/ FailMend(p) \/ Crash(p) PROVE FALSE
  BY <1>1, <1>7 DEF FailStep, FailMend, Crash, disk
<1>8. ASSUME NEW p \in Processes, NEW kind \in Kinds, NEW o \in Ops, NEW out \in Outputs,
             Call(p, kind, o, out)
      PROVE  FALSE
  BY <1>1, <1>8 DEF Call, disk
<1>9. ~UNCHANGED vars BY <1>1 DEF vars
<1>10. PICK p \in Processes : Link(p) \/ Replace(p)
  BY <1>4, <1>5, <1>6, <1>7, <1>8, <1>9, Somebody, NoSave DEF Work
<1> QED BY <1>2, <1>3, <1>10

\* Where a guard denies writing the file it holds, no interleaving of builds,
\* recoveries, crashes and faults puts a package over bytes the other program wrote,
\* unless it wrote the output after the build was staged, and either these very bytes
\* were captured or it renamed its file there under the guard, which no guard stops
\* (store.rs 3357-3359, 3450-3575, 3728-3735).
THEOREM ForeignBytesAreSafe == BuildsOnly /\ GuardDenies => (Spec => ForeignBytesStay)
<1> SUFFICES ASSUME BuildsOnly, GuardDenies PROVE Spec => ForeignBytesStay OBVIOUS
<1> DEFINE A == \A t \in Outputs : (file[t] \in Foreign /\ file'[t] \in Calls) =>
                  \E p \in Processes :
                    /\ Replacing(p, t)
                    /\ call[p].before = file[t] \/ p \in slipped
                    /\ At(p, "replace") => t \in touched \/ registry[t] \in Foreign
<1>1. Init => HeldOK BY DEF Init, HeldOK
<1>2. IInv /\ HeldOK /\ [Next]_vars => HeldOK' BY HeldNext
<1>3. IInv /\ HeldOK /\ [Next]_vars => A BY Stays
<1>4. Spec => []IInv BY Vouching
<1>5. Spec => [][A]_vars BY <1>1, <1>2, <1>3, <1>4, PTL DEF Spec
<1> QED BY <1>5 DEF ForeignBytesStay

-----------------------------------------------------------------------------
(* Packages: every build has bytes of its own, and they are where it put them. *)

Closing == Landing \cup Late \cup {"abort"}

\* A step that lands nothing and prepares nothing.
Calm(p) ==
  /\ UNCHANGED <<file, calls>> /\ late \subseteq late'
  /\ \A q \in Processes \ {p} : pc'[q] = pc[q] /\ call'[q] = call[q]
  /\ pc'[p] # "idle" =>
       /\ pc[p] # "idle" /\ call'[p].n = call[p].n
       /\ pc[p] \in Late => pc'[p] \in Late \/ (pc'[p] = "abort" /\ call[p].n \in late')
       /\ pc'[p] \in Late => pc[p] \in Late
       /\ pc[p] = "abort" => pc'[p] = "abort"
       /\ pc[p] \in Closing => pc'[p] \in Closing
  /\ \A o \in Operations : "prepared" \in tx'[o].phases =>
       "prepared" \in tx[o].phases /\ tx'[o].bytes = tx[o].bytes /\ tx'[o].path = tx[o].path

LEMMA PackagesCalm ==
  ASSUME IInv, PackagesOK, NEW p \in Processes, Calm(p)
  PROVE  PackagesOK'
<1>1. \A q \in Processes : pc'[q] # "idle" => pc[q] # "idle" /\ call'[q].n = call[q].n
  BY DEF Calm
<1>2. \A t \in Paths : file'[t] \in Calls => file'[t] <= calls' BY DEF PackagesOK, Calm
<1>3. ASSUME NEW q \in Processes, pc'[q] \notin {"idle"} \cup Late
      PROVE  (pc'[q] = "abort" /\ call'[q].n \in late') \/ \A t \in Paths : file'[t] # call'[q].n
  <2>1. pc[q] # "idle" /\ call'[q].n = call[q].n /\ file' = file /\ late \subseteq late'
    BY <1>1, <1>3 DEF Calm
  <2>2. CASE pc[q] \in Late BY <1>3, <2>1, <2>2 DEF Calm
  <2>3. CASE pc[q] \notin Late
    <3>1. (pc[q] = "abort" /\ call[q].n \in late) \/ \A t \in Paths : file[t] # call[q].n
      BY <2>1, <2>3 DEF PackagesOK
    <3>2. pc[q] = "abort" => pc'[q] = "abort" BY <1>3 DEF Calm
    <3> QED BY <2>1, <3>1, <3>2
  <2> QED BY <2>2, <2>3
<1>4. \A q, r \in Processes : (pc'[q] # "idle" /\ pc'[r] # "idle" /\ call'[q].n = call'[r].n) => q = r
  BY <1>1 DEF PackagesOK, Calm
<1>5. \A o \in Operations, t \in Paths :
        ("prepared" \in tx'[o].phases /\ file'[t] = tx'[o].bytes) => t = tx'[o].path
  BY DEF PackagesOK, Calm
<1>6. ASSUME NEW o \in Operations, NEW q \in Processes, "prepared" \in tx'[o].phases, pc'[q] # "idle",
             call'[q].n = tx'[o].bytes
      PROVE  pc'[q] \in Closing
  <2>1. pc[q] \in Closing BY <1>1, <1>6 DEF PackagesOK, Closing, Calm
  <2> QED BY <1>6, <2>1 DEF Calm
<1> QED BY <1>2, <1>3, <1>4, <1>5, <1>6, Constants DEF PackagesOK, Closing

LEMMA PCall ==
  ASSUME IInv, PackagesOK, BuildsOnly, NEW p \in Processes, NEW kind \in Kinds, NEW o \in Ops,
         NEW out \in Outputs, Call(p, kind, o, out)
  PROVE  PackagesOK'
<1>1. /\ pc'[p] = "lane" /\ call'[p].n = calls + 1 /\ calls' = calls + 1 /\ UNCHANGED <<file, tx>>
      /\ \A q \in Processes \ {p} : pc'[q] = pc[q] /\ call'[q] = call[q]
  BY DEF Call, Go, Keep, disk, NoCall, IInv, ProcessesOK
<1>0. late' = late BY DEF Call
<1>2. calls \in Nat BY PublishAssumption DEF IInv, DiskOK
<1>3. \A q \in Processes : pc[q] # "idle" => call[q].n \in Nat /\ call[q].n <= calls
  BY DEF IInv, ProcessesOK, Build, Calls
<1>4. \A t \in Paths : file[t] # calls + 1
  <2>1. ASSUME NEW t \in Paths, file[t] = calls + 1 PROVE FALSE
    <3>1. file[t] \in Calls
      BY <1>2, <2>1, PublishAssumption DEF Call, Calls
    <3> QED BY <1>2, <2>1, <3>1 DEF PackagesOK
  <2> QED BY <2>1
<1>5. \A t \in Paths : file[t] \in Calls => file[t] <= calls + 1
  BY <1>2 DEF PackagesOK, Calls
<1>6. \A r \in Operations : "prepared" \in tx[r].phases => tx[r].bytes # calls + 1
  BY <1>2 DEF IInv, JournalsOK, JournalOK
<1>7. \A q \in Processes \ {p} : pc'[q] # "idle" => call'[q].n # calls + 1
  BY <1>1, <1>2, <1>3
<1>8. \A t \in Paths : file'[t] \in Calls => file'[t] <= calls' BY <1>1, <1>5
<1>9. \A q \in Processes : pc'[q] \notin {"idle"} \cup Late =>
        (pc'[q] = "abort" /\ call'[q].n \in late') \/ \A t \in Paths : file'[t] # call'[q].n
  BY <1>0, <1>1, <1>4 DEF PackagesOK
<1>10. \A q, r \in Processes : (pc'[q] # "idle" /\ pc'[r] # "idle" /\ call'[q].n = call'[r].n) => q = r
  BY <1>1, <1>7 DEF PackagesOK
<1>11. \A r \in Operations, t \in Paths :
         ("prepared" \in tx'[r].phases /\ file'[t] = tx'[r].bytes) => t = tx'[r].path
  BY <1>1 DEF PackagesOK
<1>12. \A r \in Operations, q \in Processes :
         ("prepared" \in tx'[r].phases /\ pc'[q] # "idle" /\ call'[q].n = tx'[r].bytes) =>
           pc'[q] \in Landing \cup Late \cup {"abort"}
  BY <1>1, <1>6 DEF PackagesOK
<1> QED BY <1>8, <1>9, <1>10, <1>11, <1>12, Constants DEF PackagesOK

LEMMA PPrepare ==
  ASSUME IInv, PackagesOK, NEW p \in Processes, Prepare(p)
  PROVE  PackagesOK'
<1>1. /\ pc[p] = "prepare" /\ pc'[p] = "gate" /\ UNCHANGED <<file, call, calls, late>>
      /\ \A q \in Processes \ {p} : pc'[q] = pc[q]
  BY DEF Prepare, At, Go, disk, rare, IInv, ProcessesOK
<1>2. call[p].op \in Operations BY <1>1, CallOf, Paths_ DEF IInv, Waiting
<1>3. /\ tx'[call[p].op].bytes = call[p].n
      /\ \A o \in Operations \ {call[p].op} : tx'[o] = tx[o]
  BY <1>2 DEF Prepare, Journal, IInv, DiskOK
<1>4. \A t \in Paths : file[t] # call[p].n BY <1>1 DEF PackagesOK, Late
<1>5. \A q \in Processes : pc'[q] # "idle" => pc[q] # "idle" BY <1>1
<1>6. \A t \in Paths : file'[t] \in Calls => file'[t] <= calls' BY <1>1 DEF PackagesOK
<1>7. \A q \in Processes : pc'[q] \notin {"idle"} \cup Late =>
        (pc'[q] = "abort" /\ call'[q].n \in late') \/ \A t \in Paths : file'[t] # call'[q].n
  BY <1>1, <1>4 DEF PackagesOK
<1>8. \A q, r \in Processes : (pc'[q] # "idle" /\ pc'[r] # "idle" /\ call'[q].n = call'[r].n) => q = r
  BY <1>1, <1>5 DEF PackagesOK
<1>9. \A r \in Operations, t \in Paths :
        ("prepared" \in tx'[r].phases /\ file'[t] = tx'[r].bytes) => t = tx'[r].path
  BY <1>1, <1>3, <1>4 DEF PackagesOK
<1>10. ASSUME NEW r \in Operations, NEW q \in Processes, "prepared" \in tx'[r].phases,
              pc'[q] # "idle", call'[q].n = tx'[r].bytes
       PROVE  pc'[q] \in Landing \cup Late \cup {"abort"}
  <2>1. CASE q = p BY <1>1, <2>1 DEF Landing
  <2>2. CASE q # p /\ r = call[p].op
    BY <1>1, <1>3, <1>10, <2>2 DEF PackagesOK
  <2>3. CASE q # p /\ r # call[p].op
    BY <1>1, <1>3, <1>10, <2>3 DEF PackagesOK
  <2> QED BY <2>1, <2>2, <2>3
<1> QED BY <1>6, <1>7, <1>8, <1>9, <1>10, Constants DEF PackagesOK

LEMMA PLand ==
  ASSUME IInv, PackagesOK, NEW p \in Processes, pc[p] \in {"link", "replace"},
         file' = [file EXCEPT ![call[p].path] = call[p].n], pc' = [pc EXCEPT ![p] = "record"],
         UNCHANGED <<tx, call, calls, late>>
  PROVE  PackagesOK'
<1>1. /\ pc[p] \notin Waiting /\ call[p].op \in Operations /\ call[p].path \in Outputs
      /\ call[p].n \in Calls /\ tx[call[p].op].dir /\ "prepared" \in tx[call[p].op].phases
      /\ tx[call[p].op].path = call[p].path /\ tx[call[p].op].bytes = call[p].n
  BY PastPrepare DEF Landing, PhasesAt
<1>2. pc'[p] = "record" /\ \A q \in Processes \ {p} : pc'[q] = pc[q] BY DEF IInv, ProcessesOK
<1>3. call[p].n <= calls BY DEF IInv, ProcessesOK
<1>4. \A t \in Paths : file'[t] = IF t = call[p].path THEN call[p].n ELSE file[t]
  BY DEF IInv, DiskOK
<1>5. \A t \in Paths : file'[t] \in Calls => file'[t] <= calls'
  BY <1>3, <1>4 DEF PackagesOK
<1>6. ASSUME NEW q \in Processes, pc'[q] \notin {"idle"} \cup Late
      PROVE  (pc'[q] = "abort" /\ call'[q].n \in late') \/ \A t \in Paths : file'[t] # call'[q].n
  <2>1. q # p /\ pc[q] = pc'[q] BY <1>2, <1>6 DEF Late
  <2>2. call[q].n # call[p].n BY <1>6, <2>1 DEF PackagesOK
  <2> QED BY <1>4, <1>6, <2>1, <2>2 DEF PackagesOK
<1>7. \A q, r \in Processes : (pc'[q] # "idle" /\ pc'[r] # "idle" /\ call'[q].n = call'[r].n) => q = r
  BY <1>2 DEF PackagesOK
<1>8. \A r \in Operations \ {call[p].op} : "prepared" \notin tx[r].phases
  BY <1>1, Sole, NoTxOK DEF IInv
<1>9. \A r \in Operations, t \in Paths :
        ("prepared" \in tx'[r].phases /\ file'[t] = tx'[r].bytes) => t = tx'[r].path
  BY <1>1, <1>4, <1>8 DEF PackagesOK
<1>10. \A r \in Operations, q \in Processes :
         ("prepared" \in tx'[r].phases /\ pc'[q] # "idle" /\ call'[q].n = tx'[r].bytes) =>
           pc'[q] \in Landing \cup Late \cup {"abort"}
  BY <1>2 DEF PackagesOK, Late
<1> QED BY <1>5, <1>6, <1>7, <1>9, <1>10, Constants DEF PackagesOK

LEMMA PForeign ==
  ASSUME IInv, PackagesOK, NEW path \in Outputs, NEW bytes \in Foreign \cup {None},
         Foreignly(path, bytes)
  PROVE  PackagesOK'
<1>1. \A t \in Paths : file'[t] = IF t = path THEN bytes ELSE file[t]
  BY DEF Foreignly, Land, IInv, DiskOK
<1>2. UNCHANGED <<tx, pc, call, calls, late>> BY DEF Foreignly
<1>3. bytes \notin Calls BY Paths_
<1>4. \A q \in Processes : pc[q] # "idle" => call[q].n \in Calls BY CallOf DEF IInv
<1>5. \A r \in Operations : "prepared" \in tx[r].phases => tx[r].bytes \in Calls
  BY PublishAssumption DEF IInv, JournalsOK, JournalOK, DiskOK, Calls
<1>6. \A t \in Paths : file'[t] \in Calls => file'[t] = file[t] BY <1>1, <1>3
<1>7. \A t \in Paths : file'[t] \in Calls => file'[t] <= calls' BY <1>2, <1>6 DEF PackagesOK
<1>8. \A q \in Processes : pc'[q] \notin {"idle"} \cup Late =>
        (pc'[q] = "abort" /\ call'[q].n \in late') \/ \A t \in Paths : file'[t] # call'[q].n
  BY <1>2, <1>4, <1>6 DEF PackagesOK
<1>9. \A r \in Operations, t \in Paths :
        ("prepared" \in tx'[r].phases /\ file'[t] = tx'[r].bytes) => t = tx'[r].path
  BY <1>2, <1>5, <1>6 DEF PackagesOK
<1> QED BY <1>2, <1>7, <1>8, <1>9, Constants DEF PackagesOK

\* Where a step leaves its process, and everybody else where they were.
LEMMA Elsewhere ==
  ASSUME IInv, NEW p \in Processes, NEW there, pc' = [pc EXCEPT ![p] = there]
  PROVE  pc'[p] = there /\ \A q \in Processes \ {p} : pc'[q] = pc[q]
  BY DEF IInv, ProcessesOK

LEMMA OwnMemory ==
  ASSUME IInv, NEW p \in Processes, NEW c, call' = [call EXCEPT ![p] = c]
  PROVE  call'[p] = c /\ \A q \in Processes \ {p} : call'[q] = call[q]
  BY DEF IInv, ProcessesOK

\* A process that goes away leaves the packages alone.
LEMMA CalmAway ==
  ASSUME IInv, NEW p \in Processes, pc' = [pc EXCEPT ![p] = "idle"], call' = [call EXCEPT ![p] = NoCall],
         UNCHANGED <<file, calls, tx, late>>
  PROVE  Calm(p)
  BY Elsewhere, OwnMemory DEF Calm

\* So does one that goes on without touching its journal.
LEMMA CalmOn ==
  ASSUME IInv, NEW p \in Processes, NEW there \in Steps, pc' = [pc EXCEPT ![p] = there],
         \A q \in Processes \ {p} : call'[q] = call[q], call'[p].n = call[p].n,
         UNCHANGED <<file, calls, tx, late>>, pc[p] \notin {"idle", "abort"},
         pc[p] \in Late <=> there \in Late, pc[p] \in Closing => there \in Closing
  PROVE  Calm(p)
  BY Elsewhere DEF Calm

LEMMA CalmSame ==
  ASSUME IInv, NEW p \in Processes, NEW there \in Steps, pc' = [pc EXCEPT ![p] = there],
         UNCHANGED <<call, file, calls, tx, late>>, pc[p] \notin {"idle", "abort"},
         pc[p] \in Late <=> there \in Late, pc[p] \in Closing => there \in Closing
  PROVE  Calm(p)
  BY CalmOn

LEMMA CalmTransaction ==
  ASSUME IInv, NEW p \in Processes, Transaction(p), ~Prepare(p), ~Link(p), ~Replace(p)
  PROVE  Calm(p)
<1> USE DEF At, Go, Keep, rare, disk
<1>1. CASE Busy(p) \/ Replay(p) \/ RefuseEntry(p)
  BY <1>1, CalmAway DEF Busy, Replay, RefuseEntry, Refuse
<1>2. CASE Acquire(p)
  <2>1. call[p] \in Build /\ pc[p] = "lane" BY <1>2, CallOf DEF Acquire, IInv
  <2>2. CASE Pending = {}
    BY <1>2, <2>1, <2>2, CalmSame DEF Acquire, Steps, Late, Closing, Landing
  <2>3. CASE Pending # {}
    <3>1. call' = [call EXCEPT ![p] = [call[p] EXCEPT !.todo = Pending]] /\ pc' = [pc EXCEPT ![p] = "recover"]
      BY <1>2, <2>3 DEF Acquire
    <3>2. call'[p] = [call[p] EXCEPT !.todo = Pending] /\ \A q \in Processes \ {p} : call'[q] = call[q]
      BY <3>1 DEF IInv, ProcessesOK
    <3>3. call'[p].n = call[p].n BY <2>1, <3>2 DEF Build
    <3> QED BY <1>2, <2>1, <3>1, <3>2, <3>3, CalmOn DEF Acquire, Steps, Late, Closing, Landing
  <2> QED BY <2>2, <2>3
<1>3. CASE CheckStaged(p)
  BY <1>3, CalmSame DEF CheckStaged, Steps, Early, Late, Closing, Landing
<1>4. CASE RefuseStaged(p)
  BY <1>4, CalmSame DEF RefuseStaged, Steps, Early, Late, Closing, Landing
<1>5. CASE Gate(p) \/ Hold(p)
  <2>1. PICK there \in {"abort", "link", "hold", "replace"} : pc' = [pc EXCEPT ![p] = there]
    BY <1>5 DEF Gate, Hold
  <2>2. pc[p] \in {"gate", "hold"} /\ UNCHANGED <<call, file, calls, tx, late>>
    BY <1>5 DEF Gate, Hold
  <2>3. /\ there \in Steps /\ there \notin Late /\ pc[p] \notin Late /\ there \in Closing
        /\ pc[p] \notin {"idle", "abort"}
    BY <2>2 DEF Steps, Late, Closing, Landing
  <2> QED BY <2>1, <2>2, <2>3, CalmSame
<1>6. CASE Run(p) \/ Load(p) \/ RecordSuccess(p)
  <2>1. pc[p] \in {"run", "record", "record-write"}
    <3>1. pc[p] \in Steps \cup Waiting BY DEF IInv, ProcessesOK
    <3> QED BY <1>6, <3>1 DEF Run, Load, RecordSuccess, Steps, Early, Landing, Late, Mending, Waiting
  <2>2. call[p] \in Build BY <2>1, CallOf DEF IInv
  <2>3. PICK there \in Steps :
          /\ pc' = [pc EXCEPT ![p] = there]
          /\ pc[p] \in Late <=> there \in Late
          /\ pc[p] \in Closing => there \in Closing
    BY <1>6, <2>1 DEF Run, Load, RecordSuccess, Steps, Early, Late, Closing, Landing
  <2>4. /\ call'[p] \in {[call[p] EXCEPT !.before = file[call[p].path]], [call[p] EXCEPT !.seen = registry],
                         [call[p] EXCEPT !.seen = NoCall.seen]}
        /\ \A q \in Processes \ {p} : call'[q] = call[q]
    BY <1>6 DEF Run, Load, RecordSuccess, IInv, ProcessesOK
  <2>5. call'[p].n = call[p].n BY <2>2, <2>4 DEF Build
  <2> QED BY <1>6, <2>1, <2>3, <2>4, <2>5, CalmOn DEF Run, Load, RecordSuccess
<1>7. CASE WriteLedger(p)
  BY <1>7, CalmSame DEF WriteLedger, Steps, Late, Closing, Landing
<1>8. CASE Begin(p)
  <2>1. call[p].op \in Operations BY <1>8, CallOf, Paths_ DEF Begin, IInv
  <2>2. \A o \in Operations : tx'[o] = IF o = call[p].op THEN [NoTx EXCEPT !.dir = TRUE, !.phases = {"intent"}]
                                                       ELSE tx[o]
    BY <1>8, <2>1 DEF Begin, Journal, IInv, DiskOK
  <2>3. "prepared" \notin [NoTx EXCEPT !.dir = TRUE, !.phases = {"intent"}].phases BY DEF NoTx
  <2>4. pc'[p] = "run" /\ pc[p] = "check" /\ UNCHANGED <<file, calls, call, late>>
        /\ \A q \in Processes \ {p} : pc'[q] = pc[q]
    BY <1>8 DEF Begin, IInv, ProcessesOK
  <2> QED BY <2>2, <2>3, <2>4 DEF Calm, Late, Closing, Landing
<1>9. CASE LogPublished(p) \/ Commit(p) \/ Complete(p)
  <2>1. pc[p] \in Late BY <1>9 DEF LogPublished, Commit, Complete, Late
  <2>2. call[p].op \in Operations /\ tx[call[p].op] \in Journals /\ "prepared" \in tx[call[p].op].phases
    BY <2>1, PastPrepare DEF PhasesAt
  <2>3. PICK phase : tx' = [tx EXCEPT ![call[p].op] = [tx[call[p].op] EXCEPT !.phases = tx[call[p].op].phases \cup {phase}]]
    BY <1>9 DEF LogPublished, Commit, Complete, Log, Journal, Mine
  <2>4. \A o \in Operations \ {call[p].op} : tx'[o] = tx[o] BY <2>2, <2>3 DEF IInv, DiskOK
  <2>5. tx'[call[p].op].bytes = tx[call[p].op].bytes /\ tx'[call[p].op].path = tx[call[p].op].path
    BY <2>2, <2>3 DEF IInv, DiskOK, Journals
  <2>6. PICK there \in Late : pc' = [pc EXCEPT ![p] = there]
    BY <1>9 DEF LogPublished, Commit, Complete, Late
  <2>7. UNCHANGED <<file, calls, call, late>> BY <1>9 DEF LogPublished, Commit, Complete
  <2>8. pc[p] \notin {"idle", "abort"} /\ pc'[p] \in Late /\ \A q \in Processes \ {p} : pc'[q] = pc[q]
    BY <2>1, <2>6, Elsewhere DEF Late
  <2>9. \A o \in Operations : "prepared" \in tx'[o].phases =>
          "prepared" \in tx[o].phases /\ tx'[o].bytes = tx[o].bytes /\ tx'[o].path = tx[o].path
    BY <2>2, <2>4, <2>5
  <2>10. pc'[p] \in Closing BY <2>8 DEF Closing
  <2>11. \A q \in Processes : call'[q] = call[q] BY <2>7
  <2> HIDE DEF At, Go, Keep, rare, disk
  <2> QED BY <2>1, <2>7, <2>8, <2>9, <2>10, <2>11 DEF Calm
<1>10. CASE RemoveTx(p) \/ Abort(p)
  <2>1. pc[p] \in {"remove", "abort"} BY <1>10 DEF RemoveTx, Abort
  <2>2. call[p].op \in Operations /\ call[p].kind = "build" BY <2>1, CallOf, Paths_ DEF IInv
  <2>3. /\ tx' = [tx EXCEPT ![call[p].op] = NoTx] /\ pc' = [pc EXCEPT ![p] = "idle"]
        /\ call' = [call EXCEPT ![p] = NoCall] /\ UNCHANGED <<file, calls, late>>
    BY <1>10, <2>2 DEF RemoveTx, Abort, Journal, Refuse
  <2>4. \A o \in Operations : tx'[o] = IF o = call[p].op THEN NoTx ELSE tx[o] BY <2>3 DEF IInv, DiskOK
  <2>5. pc'[p] = "idle" /\ \A q \in Processes \ {p} : pc'[q] = pc[q] /\ call'[q] = call[q]
    BY <2>3 DEF IInv, ProcessesOK
  <2> QED BY <2>3, <2>4, <2>5, NoTxOK DEF Calm
<1> QED BY <1>1, <1>2, <1>3, <1>4, <1>5, <1>6, <1>7, <1>8, <1>9, <1>10 DEF Transaction

LEMMA CalmRecovery ==
  ASSUME IInv, NEW p \in Processes, Recovery(p)
  PROVE  Calm(p)
<1>1. ASSUME NEW o \in Operations, RecoverStick(p, o) \/ RecoverBack(p, o) \/ RecoverForward(p, o)
      PROVE  Calm(p)
  <2>1. pc[p] = "recover" /\ call[p] \in Build
    BY <1>1, CallOf DEF RecoverStick, RecoverBack, RecoverForward, Takes, At, IInv
  <2>2. /\ UNCHANGED <<file, calls, late>>
        /\ pc'[p] \in {"recover", "fix-ledger"} /\ \A q \in Processes \ {p} : pc'[q] = pc[q]
    BY <1>1, <2>1 DEF RecoverStick, RecoverBack, RecoverForward, Go, disk, rare, IInv, ProcessesOK
  <2>3. /\ \A q \in Processes \ {p} : call'[q] = call[q]
        /\ \/ call'[p] = [call[p] EXCEPT !.todo = call[p].todo \ {o}, !.stuck = TRUE]
           \/ call'[p] = [call[p] EXCEPT !.todo = call[p].todo \ {o}]
           \/ call'[p] = [call[p] EXCEPT !.mend = o]
    BY <1>1 DEF RecoverStick, RecoverBack, RecoverForward, Skip, Keep, IInv, ProcessesOK
  <2>4. call'[p].n = call[p].n BY <2>1, <2>3 DEF Build
  <2>5. \A r \in Operations : tx'[r] = tx[r] \/ tx'[r] = NoTx
    BY <1>1 DEF RecoverStick, RecoverBack, RecoverForward, disk, IInv, DiskOK
  <2>6. pc[p] \notin Late /\ pc[p] \notin Closing /\ pc'[p] \notin Late /\ pc[p] \notin {"idle", "abort"}
    BY <2>1, <2>2 DEF Late, Closing, Landing
  <2> QED BY <2>2, <2>3, <2>4, <2>5, <2>6, NoTxOK DEF Calm
<1>2. CASE FixLedger(p) \/ FixEvidence(p) \/ FixRecord(p) \/ FixComplete(p) \/ FixRemove(p)
  <2>1. pc[p] \in Mending
    BY <1>2 DEF FixLedger, FixEvidence, FixRecord, FixComplete, FixRemove, At, Mending
  <2>2. /\ call[p] \in Build /\ call[p].mend \in Operations /\ tx[call[p].mend] \in Journals
        /\ "prepared" \in tx[call[p].mend].phases
    BY <2>1, Mends
  <2>3. /\ UNCHANGED <<file, calls, late>>
        /\ pc'[p] \in Mending \cup {"recover"} /\ \A q \in Processes \ {p} : pc'[q] = pc[q]
    BY <1>2 DEF FixLedger, FixEvidence, FixRecord, FixComplete, FixRemove, Go, Mending, rare,
       IInv, ProcessesOK
  <2>4. /\ \A q \in Processes \ {p} : call'[q] = call[q]
        /\ \/ call'[p] = call[p]
           \/ call'[p] = [call[p] EXCEPT !.todo = call[p].todo \ {call[p].mend}, !.mend = None]
    BY <1>2 DEF FixLedger, FixEvidence, FixRecord, FixComplete, FixRemove, Keep, IInv, ProcessesOK
  <2>5. call'[p].n = call[p].n BY <2>2, <2>4 DEF Build
  <2>6. /\ \A r \in Operations \ {call[p].mend} : tx'[r] = tx[r]
        /\ \/ tx'[call[p].mend] = tx[call[p].mend]
           \/ tx'[call[p].mend] = NoTx
           \/ tx'[call[p].mend] = [tx[call[p].mend] EXCEPT
                                     !.phases = tx[call[p].mend].phases \cup {"completed"}]
    BY <1>2, <2>2 DEF FixLedger, FixEvidence, FixRecord, FixComplete, FixRemove, Mended, IInv, DiskOK
  <2>7. "prepared" \in tx'[call[p].mend].phases =>
          /\ tx'[call[p].mend].bytes = tx[call[p].mend].bytes
          /\ tx'[call[p].mend].path = tx[call[p].mend].path
    BY <2>2, <2>6, NoTxOK DEF Journals
  <2>8. \A r \in Operations : "prepared" \in tx'[r].phases =>
          "prepared" \in tx[r].phases /\ tx'[r].bytes = tx[r].bytes /\ tx'[r].path = tx[r].path
    BY <2>2, <2>6, <2>7
  <2>9. pc[p] \notin Late /\ pc[p] \notin Closing /\ pc'[p] \notin Late /\ pc[p] \notin {"idle", "abort"}
    BY <2>1, <2>3 DEF Late, Closing, Landing, Mending
  <2> QED BY <2>3, <2>4, <2>5, <2>8, <2>9 DEF Calm
<1>3. CASE Recovered(p)
  <2>1. pc[p] = "recover" /\ UNCHANGED <<file, calls, tx, late>> BY <1>3 DEF Recovered, At, disk, rare
  <2>2. call[p].kind = "build" BY <2>1, CallOf DEF IInv
  <2>3. \/ pc' = [pc EXCEPT ![p] = "check"] /\ UNCHANGED call
        \/ pc' = [pc EXCEPT ![p] = "idle"] /\ call' = [call EXCEPT ![p] = NoCall]
    BY <1>3, <2>2 DEF Recovered, Refuse, Go, Keep
  <2>4. \A q \in Processes \ {p} : pc'[q] = pc[q] /\ call'[q] = call[q]
    BY <2>3 DEF IInv, ProcessesOK
  <2>5. pc'[p] = "idle" \/ (pc'[p] = "check" /\ call'[p] = call[p])
    BY <2>3 DEF IInv, ProcessesOK
  <2> QED BY <2>1, <2>4, <2>5 DEF Calm, Late, Closing, Landing
<1> QED BY <1>1, <1>2, <1>3 DEF Recovery

LEMMA CalmEnd ==
  ASSUME IInv, NEW p \in Processes, FailStep(p) \/ FailMend(p) \/ Crash(p)
  PROVE  Calm(p)
<1>1. CASE FailStep(p)
  <2>1. /\ UNCHANGED <<file, calls, tx, call>> /\ pc' = [pc EXCEPT ![p] = "abort"]
        /\ pc[p] \notin {"idle", "abort"} /\ late \subseteq late'
        /\ pc[p] \in FallibleLate => call[p].n \in late'
        /\ pc[p] \in FallibleEarly \cup FallibleLate
    BY <1>1 DEF FailStep, FallibleEarly, FallibleLate, Go, disk
  <2>2. pc'[p] = "abort" /\ \A q \in Processes \ {p} : pc'[q] = pc[q] BY <2>1, Elsewhere
  <2>3. "abort" \notin Late /\ "abort" \in Closing /\ (pc[p] \in Late => pc[p] \in FallibleLate)
    BY <2>1 DEF FallibleEarly, Late, Closing
  <2> QED BY <2>1, <2>2, <2>3 DEF Calm
<1>2. CASE FailMend(p)
  <2>1. /\ UNCHANGED <<file, calls, tx, late>> /\ pc' = [pc EXCEPT ![p] = "recover"] /\ pc[p] \in Mending
        /\ call' = [call EXCEPT ![p] = [call[p] EXCEPT !.todo = call[p].todo \ {call[p].mend},
                                                       !.mend = None, !.stuck = TRUE]]
    BY <1>2 DEF FailMend, Mending, Go, Keep, disk
  <2>2. call[p] \in Build BY <2>1, Mends
  <2>3. /\ call'[p] = [call[p] EXCEPT !.todo = call[p].todo \ {call[p].mend}, !.mend = None, !.stuck = TRUE]
        /\ \A q \in Processes \ {p} : call'[q] = call[q]
    BY <2>1, OwnMemory
  <2>4. call'[p].n = call[p].n BY <2>2, <2>3 DEF Build
  <2>5. /\ "recover" \in Steps /\ "recover" \notin Late /\ pc[p] \notin Late /\ pc[p] \notin Closing
        /\ pc[p] \notin {"idle", "abort"}
    BY <2>1 DEF Steps, Late, Closing, Landing, Mending
  <2> QED BY <2>1, <2>3, <2>4, <2>5, CalmOn
<1>3. CASE Crash(p)
  BY <1>3, CalmAway DEF Crash, Go, Keep, disk
<1> QED BY <1>1, <1>2, <1>3

LEMMA PackagesNext ==
  ASSUME IInv, PackagesOK, BuildsOnly, [Next]_vars
  PROVE  PackagesOK'
<1>1. CASE UNCHANGED vars BY <1>1, Constants DEF vars, PackagesOK
<1>2. ASSUME NEW p \in Processes, Link(p) \/ Replace(p) PROVE PackagesOK'
  <2>1. /\ pc[p] \in {"link", "replace"} /\ UNCHANGED <<tx, call, calls, late>>
        /\ \/ file' = [file EXCEPT ![call[p].path] = call[p].n] /\ pc' = [pc EXCEPT ![p] = "record"]
           \/ UNCHANGED file /\ pc' = [pc EXCEPT ![p] = "abort"]
    BY <1>2 DEF Link, Replace, At, Land, Go, rare
  <2>2. "abort" \in Steps /\ "abort" \notin Late /\ "abort" \in Closing
        /\ "link" \notin Late /\ "replace" \notin Late
    BY DEF Steps, Late, Closing
  <2>3. CASE file' = [file EXCEPT ![call[p].path] = call[p].n] /\ pc' = [pc EXCEPT ![p] = "record"]
    BY <2>1, <2>3, PLand
  <2>4. CASE UNCHANGED file /\ pc' = [pc EXCEPT ![p] = "abort"]
    <3>1. pc[p] \notin {"idle", "abort"} /\ UNCHANGED <<call, file, calls, tx, late>> BY <2>1, <2>4
    <3>2. pc[p] \in Late <=> "abort" \in Late BY <2>1, <2>2
    <3> QED BY <2>2, <2>4, <3>1, <3>2, CalmSame, PackagesCalm
  <2> QED BY <2>1, <2>3, <2>4
<1>3. ASSUME NEW p \in Processes, Transaction(p) PROVE PackagesOK'
  BY <1>2, <1>3, PPrepare, CalmTransaction, PackagesCalm
<1>4. ASSUME NEW p \in Processes, Recovery(p) \/ FailStep(p) \/ FailMend(p) \/ Crash(p) PROVE PackagesOK'
  BY <1>4, CalmRecovery, CalmEnd, PackagesCalm
<1> QED BY <1>1, <1>3, <1>4, Somebody, NoSave, PCall, PForeign DEF Work

-----------------------------------------------------------------------------
(* What was undone stays undone. *)

LEMMA UndoneKept ==
  ASSUME UndoneOK, NEW p \in Processes, Calm(p), UNCHANGED undone
  PROVE  UndoneOK'
<1>1. /\ UNCHANGED <<file, calls, undone>> /\ late \subseteq late'
      /\ \A q \in Processes : pc'[q] # "idle" => pc[q] # "idle" /\ call'[q].n = call[q].n
  BY DEF Calm
<1> QED BY <1>1, Constants DEF UndoneOK

\* A build that gives up is at no output unless it had landed, and its number was its own.
LEMMA UndoneOne ==
  ASSUME IInv, PackagesOK, UndoneOK, NEW p \in Processes, Calm(p), pc'[p] = "idle",
         pc[p] \notin {"idle"} \cup Late, undone' = undone \cup {call[p].n}
  PROVE  UndoneOK'
<1>1. /\ UNCHANGED <<file, calls>> /\ late \subseteq late'
      /\ \A q \in Processes : pc'[q] # "idle" => q # p /\ pc[q] # "idle" /\ call'[q].n = call[q].n
  BY DEF Calm
<1>2. call[p].n \in 1..calls
  BY PublishAssumption DEF IInv, ProcessesOK, DiskOK, Build, Calls
<1>3. call[p].n \in late \/ \A t \in Paths : file[t] # call[p].n BY DEF PackagesOK
<1>4. \A q \in Processes : pc'[q] # "idle" => call'[q].n # call[p].n
  BY <1>1 DEF PackagesOK
<1> QED BY <1>1, <1>2, <1>3, <1>4, Constants DEF UndoneOK

\* What recovery rolls back never landed, and its build is dead.
LEMMA UndoneBack ==
  ASSUME IInv, PackagesOK, UndoneOK, NEW p \in Processes, NEW o \in Operations, RecoverBack(p, o)
  PROVE  UndoneOK'
<1>1. /\ pc[p] = "recover" /\ IsBack(tx[o]) /\ UNCHANGED <<file, pc, calls, late>>
      /\ undone' = undone \cup ({tx[o].bytes} \cap Calls)
      /\ call' = [call EXCEPT ![p] = [call[p] EXCEPT !.todo = call[p].todo \ {o}]]
  BY DEF RecoverBack, Takes, At, Skip, Keep, rare
<1>2. call[p] \in Build BY <1>1, CallOf DEF IInv
<1>3. \A q \in Processes : call'[q].n = call[q].n
  BY <1>1, <1>2 DEF IInv, ProcessesOK, Build
<1>4. CASE "prepared" \notin tx[o].phases
  <2>1. tx[o].bytes = None BY <1>4 DEF IInv, JournalsOK, JournalOK
  <2>2. undone' = undone BY <1>1, <2>1, Paths_
  <2> QED BY <1>1, <1>3, <2>2, Constants DEF UndoneOK
<1>5. CASE "prepared" \in tx[o].phases
  <2>1. tx[o].path \in Outputs /\ tx[o].bytes \in 1..calls
    BY <1>5 DEF IInv, JournalsOK, JournalOK
  <2>2. file[tx[o].path] # tx[o].bytes BY <1>1, <1>5 DEF IsBack, Landed
  <2>3. \A t \in Paths : file[t] # tx[o].bytes BY <1>5, <2>2 DEF PackagesOK
  <2>4. ASSUME NEW q \in Processes, pc[q] # "idle", call[q].n = tx[o].bytes PROVE FALSE
    <3>1. pc[q] \in Landing \cup Late \cup {"abort"} BY <1>5, <2>4 DEF PackagesOK
    <3>2. pc[q] \notin Waiting /\ pc[p] \notin Waiting /\ pc[q] # "recover"
      BY <1>1, <3>1 DEF Landing, Late, Waiting
    <3>3. q = p BY <3>2 DEF IInv, ProcessesOK
    <3> QED BY <1>1, <3>2, <3>3
  <2> QED BY <1>1, <1>3, <2>1, <2>3, <2>4, Constants DEF UndoneOK
<1> QED BY <1>4, <1>5

LEMMA UndoneRest ==
  ASSUME IInv, PackagesOK, UndoneOK, NEW p \in Processes, Calm(p),
         Work(p) \/ FailStep(p) \/ FailMend(p) \/ Crash(p), \A o \in Operations : ~RecoverBack(p, o)
  PROVE  UndoneOK'
<1>1. CASE Busy(p) \/ RefuseEntry(p) \/ Abort(p) \/ Recovered(p)
  <2>1. pc[p] \in {"lane", "check", "abort", "recover"}
    BY <1>1 DEF Busy, RefuseEntry, Abort, Recovered, At
  <2>2. call[p].kind = "build" BY <2>1, CallOf DEF IInv
  <2>3. \/ pc' = [pc EXCEPT ![p] = "idle"] /\ undone' = undone \cup {call[p].n}
        \/ UNCHANGED undone
    BY <1>1, <2>2 DEF Busy, RefuseEntry, Abort, Recovered, Refuse, Go
  <2>4. pc[p] \notin {"idle"} \cup Late BY <2>1 DEF Late
  <2>5. CASE pc' = [pc EXCEPT ![p] = "idle"] /\ undone' = undone \cup {call[p].n}
    <3>1. pc'[p] = "idle" BY <2>5 DEF IInv, ProcessesOK
    <3> QED BY <2>4, <2>5, <3>1, UndoneOne
  <2> QED BY <2>3, <2>5, UndoneKept
<1>2. CASE ~(Busy(p) \/ RefuseEntry(p) \/ Abort(p) \/ Recovered(p))
  <2>1. ASSUME Transaction(p) PROVE UNCHANGED undone
    BY <1>2, <2>1 DEF Transaction, Acquire, Replay, Begin, Run, CheckStaged, RefuseStaged, Prepare,
       Gate, Link, Hold, Replace, Load, RecordSuccess, LogPublished, Commit, WriteLedger, Complete,
       RemoveTx, history
  <2>2. ASSUME Recovery(p) PROVE UNCHANGED undone
    BY <1>2, <2>2 DEF Recovery, RecoverStick, RecoverForward, FixLedger, FixEvidence, FixComplete,
       FixRecord, FixRemove, history
  <2>3. FailStep(p) \/ FailMend(p) \/ Crash(p) => UNCHANGED undone
    BY DEF FailStep, FailMend, Crash, history
  <2> QED BY <2>1, <2>2, <2>3, NoSave, UndoneKept DEF Work
<1> QED BY <1>1, <1>2

LEMMA UndoneNext ==
  ASSUME IInv, PackagesOK, UndoneOK, BuildsOnly, [Next]_vars
  PROVE  UndoneOK'
<1>1. CASE UNCHANGED vars BY <1>1, Constants DEF vars, UndoneOK
<1>2. ASSUME NEW p \in Processes, Link(p) \/ Replace(p) PROVE UndoneOK'
  <2>1. /\ pc[p] \in {"link", "replace"} /\ UNCHANGED <<call, calls, undone, late>>
        /\ file' = [file EXCEPT ![call[p].path] = call[p].n] \/ UNCHANGED file
        /\ pc' = [pc EXCEPT ![p] = "record"] \/ pc' = [pc EXCEPT ![p] = "abort"]
    BY <1>2 DEF Link, Replace, At, Land, Go, rare, history
  <2>2. \A t \in Paths : file'[t] \in {file[t], call[p].n} BY <2>1 DEF IInv, DiskOK
  <2>3. \A q \in Processes : pc'[q] # "idle" => pc[q] # "idle" BY <2>1 DEF IInv, ProcessesOK
  <2> QED BY <2>1, <2>2, <2>3, Constants DEF UndoneOK
<1>3. ASSUME NEW p \in Processes, Prepare(p) PROVE UndoneOK'
  <2>1. UNCHANGED <<file, call, calls, undone, late>> /\ pc[p] = "prepare"
    BY <1>3 DEF Prepare, At, disk, rare, history
  <2>2. \A q \in Processes : pc'[q] # "idle" => pc[q] # "idle"
    BY <1>3, <2>1 DEF Prepare, Go, IInv, ProcessesOK
  <2> QED BY <2>1, <2>2, Constants DEF UndoneOK
<1>4. ASSUME NEW p \in Processes, Work(p) \/ FailStep(p) \/ FailMend(p) \/ Crash(p) PROVE UndoneOK'
  <2>1. CASE \E o \in Operations : RecoverBack(p, o) BY <2>1, UndoneBack
  <2>2. CASE Prepare(p) \/ Link(p) \/ Replace(p) BY <1>2, <1>3, <2>2
  <2>3. CASE /\ ~Prepare(p) /\ ~Link(p) /\ ~Replace(p)
             /\ \A o \in Operations : ~RecoverBack(p, o)
    <3>1. Calm(p) BY <1>4, <2>3, CalmTransaction, CalmRecovery, CalmEnd, NoSave DEF Work
    <3> QED BY <1>4, <2>3, <3>1, UndoneRest
  <2> QED BY <2>1, <2>2, <2>3
<1>5. ASSUME NEW p \in Processes, NEW kind \in Kinds, NEW o \in Ops, NEW out \in Outputs,
             Call(p, kind, o, out)
      PROVE  UndoneOK'
  <2>1. /\ call'[p].n = calls + 1 /\ calls' = calls + 1 /\ UNCHANGED <<file, undone, late>>
        /\ \A q \in Processes \ {p} : pc'[q] = pc[q] /\ call'[q] = call[q]
    BY <1>5 DEF Call, Go, Keep, disk, history, NoCall, IInv, ProcessesOK
  <2>2. calls \in Nat BY PublishAssumption DEF IInv, DiskOK
  <2>3. undone' \subseteq 1..calls' /\ \A n \in undone : n # calls + 1 BY <2>1, <2>2 DEF UndoneOK
  <2>4. ASSUME NEW n \in undone, n \notin late
        PROVE  \A t \in Paths : file'[t] # n /\ \A q \in Processes : pc'[q] # "idle" => call'[q].n # n
    BY <2>1, <2>3, <2>4 DEF UndoneOK
  <2> QED BY <2>1, <2>3, <2>4, Constants DEF UndoneOK
<1>6. ASSUME NEW path \in Outputs, NEW bytes \in Foreign \cup {None}, Foreignly(path, bytes)
      PROVE  UndoneOK'
  <2>1. \A t \in Paths : file'[t] \in {bytes, file[t]}
    BY <1>6 DEF Foreignly, Land, IInv, DiskOK
  <2>2. undone \subseteq Calls BY PublishAssumption DEF UndoneOK, IInv, DiskOK, Calls
  <2>3. bytes \notin undone BY <2>2, Paths_
  <2>4. UNCHANGED <<pc, call, calls, undone, late>> BY <1>6 DEF Foreignly
  <2> QED BY <2>1, <2>3, <2>4, Constants DEF UndoneOK
<1> QED BY <1>1, <1>4, <1>5, <1>6, Somebody, NoSave

\* A build that was answered with an error, or that recovery rolled back, is at no
\* output, then and at any later time ("nothing was published", store.rs 3476), unless
\* its error came after its package had landed: abort() takes back no output.
THEOREM WhatWasRefusedIsNotThere == BuildsOnly => (Spec => []RefusedIsNotPublished)
<1> SUFFICES ASSUME BuildsOnly PROVE Spec => []RefusedIsNotPublished OBVIOUS
<1>1. Init => PackagesOK /\ UndoneOK
  <2>1. ASSUME Init PROVE PackagesOK
    BY <2>1, NoTxOK, Paths_ DEF Init, PackagesOK
  <2>2. ASSUME Init PROVE UndoneOK BY <2>2 DEF Init, UndoneOK
  <2> QED BY <2>1, <2>2
<1>2. IInv /\ (PackagesOK /\ UndoneOK) /\ [Next]_vars => (PackagesOK /\ UndoneOK)'
  BY PackagesNext, UndoneNext
<1>3. UndoneOK => RefusedIsNotPublished
  BY Paths_ DEF UndoneOK, RefusedIsNotPublished
<1>4. Spec => []IInv BY Vouching
<1> QED BY <1>1, <1>2, <1>3, <1>4, PTL DEF Spec

-----------------------------------------------------------------------------
(* The registry. *)

\* Only who has the lane has something to answer for.
LEMMA ResultsBy ==
  ASSUME IInv, NEW p \in Processes, pc[p] \notin Waiting,
         \A q \in Processes \ {p} : pc'[q] = pc[q],
         pc'[p] \in Late \cup {"abort"} => ResultAt(p)'
  PROVE  \A q \in Processes : pc'[q] # "idle" => ResultAt(q)'
<1>1. "idle" \notin Late \cup {"abort"} /\ "lane" \notin Late \cup {"abort"} BY DEF Late
<1>2. ASSUME NEW q \in Processes, pc'[q] \notin Late \cup {"abort"} PROVE ResultAt(q)'
  BY <1>2 DEF ResultAt, ResultOK
<1>3. \A q \in Processes \ {p} : pc'[q] \in {"idle", "lane"} BY Alone DEF IInv, Waiting
<1> QED BY <1>1, <1>2, <1>3

\* A step of somebody who is not closing anything, and touches nothing others read.
LEMMA ResultsStill ==
  ASSUME RegistryOK, NEW p \in Processes, UNCHANGED <<file, registry, tx>>,
         unrecorded \subseteq unrecorded',
         \A q \in Processes \ {p} : pc'[q] = pc[q] /\ call'[q] = call[q],
         pc'[p] \notin Late \cup {"abort"}
  PROVE  \A q \in Processes : pc'[q] # "idle" => ResultAt(q)'
<1>1. ResultAt(p)' BY DEF ResultAt, ResultOK
<1>2. ASSUME NEW q \in Processes \ {p}, pc'[q] # "idle" PROVE ResultAt(q)'
  <2>1. ResultAt(q) /\ pc'[q] = pc[q] /\ call'[q] = call[q] BY <1>2 DEF RegistryOK
  <2> QED BY <2>1, Constants DEF ResultAt, ResultOK
<1> QED BY <1>1, <1>2

\* What is owed stays owed while no journal is completed or goes.
LEMMA NamedStill ==
  ASSUME NamedOK, NEW p \in Processes, UNCHANGED <<file, registry>>, pc[p] # "fix-record",
         unrecorded \subseteq unrecorded',
         \A q \in Processes \ {p} : pc'[q] = pc[q] /\ call'[q] = call[q],
         \A o \in Operations : "prepared" \in tx[o].phases =>
           /\ "prepared" \in tx'[o].phases /\ tx'[o].path = tx[o].path /\ tx'[o].bytes = tx[o].bytes
           /\ "completed" \in tx'[o].phases => "completed" \in tx[o].phases
  PROVE  NamedOK'
<1>1. ASSUME NEW t \in Outputs, file'[t] \in Calls \ unrecorded', registry'[t] # file'[t]
      PROVE  Due(t, file[t])'
  <2>1. Due(t, file[t]) BY <1>1, Constants DEF NamedOK
  <2>2. PICK o \in Operations : DueBy(o, t, file[t]) BY <2>1 DEF Due
  <2>3. DueBy(o, t, file[t])' BY <2>2 DEF DueBy
  <2> QED BY <2>3, Constants DEF Due
<1> QED BY <1>1, Constants DEF NamedOK

\* A step that writes neither an output nor the registry nor a journal.
LEMMA RegistryStill ==
  ASSUME IInv, RegistryOK, NEW p \in Processes, Calm(p), UNCHANGED <<registry, tx, unrecorded>>,
         pc[p] # "fix-record", pc'[p] \notin Late \cup {"abort"}
  PROVE  RegistryOK'
<1>1. /\ UNCHANGED file
      /\ \A q \in Processes \ {p} : pc'[q] = pc[q] /\ call'[q] = call[q]
  BY DEF Calm
<1>2. NamedOK' BY <1>1, NamedStill DEF RegistryOK
<1>3. \A q \in Processes : pc'[q] # "idle" => ResultAt(q)' BY <1>1, ResultsStill
<1> QED BY <1>2, <1>3 DEF RegistryOK

\* The same, to the abort of a build that did not land, or of one that did and is
\* either in the registry or lost its record.
LEMMA RegistryAborts ==
  ASSUME IInv, PackagesOK, RegistryOK, NEW p \in Processes, Calm(p), UNCHANGED <<registry, tx, call>>,
         pc[p] \in {"check"} \cup Early \cup Landing \cup (Late \ {"record"}), pc'[p] = "abort",
         unrecorded \subseteq unrecorded', pc[p] = "record-write" => call[p].n \in unrecorded'
  PROVE  RegistryOK'
<1>1. /\ UNCHANGED file
      /\ \A q \in Processes \ {p} : pc'[q] = pc[q] /\ call'[q] = call[q]
  BY DEF Calm
<1>2. pc[p] # "fix-record" /\ pc[p] \notin Waiting /\ pc[p] \notin {"idle", "abort"}
  BY DEF Early, Landing, Late, Waiting
<1>3. NamedOK' BY <1>1, <1>2, NamedStill DEF RegistryOK
<1>4. call[p].op \in Operations /\ call[p].path \in Paths /\ call[p].n \in Calls
  BY <1>2, CallOf, Paths_ DEF IInv
<1>5. HolderOK(call[p], pc[p]) BY <1>2 DEF IInv, HoldersOK, HolderAt
<1>6. "prepared" \in tx[call[p].op].phases =>
        tx[call[p].op].bytes = call[p].n /\ tx[call[p].op].path = call[p].path
  <2>1. CASE pc[p] = "check"
    <3>1. ~tx[call[p].op].dir BY <1>4, <1>5, <2>1 DEF HolderOK, Pending
    <3> QED BY <1>4, <3>1, NoTxOK DEF IInv, JournalsOK, JournalOK
  <2>2. CASE pc[p] \in Early BY <1>5, <2>2 DEF HolderOK
  <2>3. CASE pc[p] \in Landing \cup Late BY <2>3, PastPrepare
  <2> QED BY <2>1, <2>2, <2>3
<1>7. file[call[p].path] = call[p].n /\ call[p].n \notin unrecorded' => registry[call[p].path] = call[p].n
  <2>1. CASE pc[p] \in Late \ {"record", "record-write"}
    BY <1>2, <1>4, <2>1 DEF RegistryOK, ResultAt, ResultOK
  <2>2. CASE pc[p] \notin Late BY <1>2, <1>4, <2>2 DEF PackagesOK
  <2>3. CASE pc[p] = "record-write" BY <2>3
  <2>4. pc[p] # "record" BY DEF Early, Landing
  <2> QED BY <2>1, <2>2, <2>3, <2>4
<1>8. ResultAt(p)' BY <1>1, <1>6, <1>7 DEF ResultAt, ResultOK, Late
<1>9. \A q \in Processes : pc'[q] # "idle" => ResultAt(q)' BY <1>1, <1>2, <1>8, ResultsBy
<1> QED BY <1>3, <1>9 DEF RegistryOK

LEMMA RQuiet ==
  ASSUME IInv, RegistryOK, NEW p \in Processes,
         \/ Acquire(p) \/ Busy(p) \/ Replay(p) \/ RefuseEntry(p) \/ Run(p) \/ CheckStaged(p)
         \/ \E o \in Operations : RecoverStick(p, o) \/ RecoverForward(p, o)
         \/ FixLedger(p) \/ FixEvidence(p) \/ Recovered(p)
         \/ (Crash(p) \/ FailMend(p)) /\ pc[p] # "fix-record"
  PROVE  RegistryOK'
<1>1. Calm(p)
  <2>1. CASE \/ Acquire(p) \/ Busy(p) \/ Replay(p) \/ RefuseEntry(p) \/ Run(p) \/ CheckStaged(p)
    BY <2>1, CalmTransaction
       DEF Transaction, Acquire, Busy, Replay, RefuseEntry, Run, CheckStaged, Prepare, Link, Replace, At
  <2>2. CASE \/ \E o \in Operations : RecoverStick(p, o) \/ RecoverForward(p, o)
             \/ FixLedger(p) \/ FixEvidence(p) \/ Recovered(p)
    BY <2>2, CalmRecovery DEF Recovery
  <2>3. CASE Crash(p) \/ FailMend(p) BY <2>3, CalmEnd
  <2> QED BY <2>1, <2>2, <2>3
<1>2. UNCHANGED <<registry, tx, unrecorded>>
  BY DEF Acquire, Busy, Replay, RefuseEntry, Run, CheckStaged, RecoverStick, RecoverForward,
     FixLedger, FixEvidence, Recovered, Crash, FailMend, Owed, At, disk, rare
<1>3. pc[p] # "fix-record"
  BY DEF Acquire, Busy, Replay, RefuseEntry, Run, CheckStaged, RecoverStick, RecoverForward, Takes,
     FixLedger, FixEvidence, Recovered, At
<1>4. ASSUME Recovered(p) PROVE pc'[p] \in {"idle", "check"}
  <2>1. call[p].kind = "build" BY <1>4, CallOf DEF Recovered, At, IInv
  <2> QED BY <1>4, <2>1 DEF Recovered, Refuse, Go, IInv, ProcessesOK
<1>5. pc'[p] \in {"idle", "recover", "check", "staged", "prepare", "fix-ledger",
                  "fix-evidence", "fix-complete", "fix-remove"}
  BY <1>4 DEF Acquire, Busy, Replay, RefuseEntry, Run, CheckStaged, RecoverStick, RecoverForward, Takes,
     FixLedger, FixEvidence, Crash, FailMend, Refuse, At, Go, IInv, ProcessesOK
<1>6. pc'[p] \notin Late \cup {"abort"} BY <1>5 DEF Late
<1> QED BY <1>1, <1>2, <1>3, <1>6, RegistryStill

LEMMA RAborts ==
  ASSUME IInv, PackagesOK, RegistryOK, NEW p \in Processes,
         RefuseStaged(p) \/ FailStep(p) \/ Gate(p) \/ Hold(p)
  PROVE  RegistryOK'
<1>1. Calm(p)
  BY CalmTransaction, CalmEnd
     DEF Transaction, RefuseStaged, Gate, Hold, Prepare, Link, Replace, At
<1>2. UNCHANGED <<registry, tx, call>> /\ unrecorded \subseteq unrecorded'
  BY DEF RefuseStaged, FailStep, Gate, Hold, disk, rare
<1>3. pc[p] \in {"check"} \cup Early \cup Landing \cup (Late \ {"record"})
  BY DEF RefuseStaged, Gate, Hold, FailStep, FallibleEarly, FallibleLate, At, Early, Landing, Late
<1>4. pc[p] = "record-write" => call[p].n \in unrecorded'
  BY DEF RefuseStaged, FailStep, Gate, Hold, At
<1>5. pc'[p] \in {"abort", "link", "hold", "replace"}
  BY DEF RefuseStaged, FailStep, Gate, Hold, Go, IInv, ProcessesOK
<1>6. CASE pc'[p] = "abort" BY <1>1, <1>2, <1>3, <1>4, <1>6, RegistryAborts
<1>7. CASE pc'[p] # "abort"
  <2>1. UNCHANGED unrecorded
    BY <1>7 DEF RefuseStaged, FailStep, Gate, Hold, Go, rare, IInv, ProcessesOK
  <2>2. pc'[p] \notin Late \cup {"abort"} BY <1>5, <1>7 DEF Late
  <2>3. pc[p] # "fix-record" BY <1>3 DEF Early, Landing, Late
  <2> QED BY <1>1, <1>2, <2>1, <2>2, <2>3, RegistryStill
<1> QED BY <1>6, <1>7

\* A build that has landed goes on.
LEMMA RLate ==
  ASSUME IInv, RegistryOK, NEW p \in Processes, Load(p) \/ WriteLedger(p) \/ LogPublished(p) \/ Commit(p)
  PROVE  RegistryOK'
<1>1. pc[p] \in {"record", "ledger", "published", "commit"}
  <2>1. pc[p] \in Steps \cup Waiting BY DEF IInv, ProcessesOK
  <2> QED BY <2>1 DEF Load, WriteLedger, LogPublished, Commit, At, Steps, Early, Landing, Late,
                     Mending, Waiting
<1>2. pc[p] \in Late /\ pc[p] \notin Waiting BY <1>1 DEF Late, Waiting
<1>3. /\ call[p] \in Build /\ call[p].op \in Operations /\ tx[call[p].op] \in Journals
  BY <1>2, PastPrepare
<1>4. /\ UNCHANGED <<file, registry>>
      /\ \A q \in Processes \ {p} : pc'[q] = pc[q] /\ call'[q] = call[q]
      /\ pc'[p] \in Late /\ (pc[p] = "record" <=> pc'[p] = "record-write") /\ pc'[p] # "record"
  BY <1>1 DEF Load, WriteLedger, LogPublished, Commit, At, Go, Keep, disk, Late, IInv, ProcessesOK
<1>5. call'[p] \in {call[p], [call[p] EXCEPT !.seen = registry]}
  BY DEF Load, WriteLedger, LogPublished, Commit, Keep, IInv, ProcessesOK
<1>6. call'[p].n = call[p].n /\ call'[p].path = call[p].path BY <1>3, <1>5 DEF Build
<1>7. /\ \A o \in Operations \ {call[p].op} : tx'[o] = tx[o]
      /\ \/ tx'[call[p].op] = tx[call[p].op]
         \/ tx'[call[p].op] = [tx[call[p].op] EXCEPT !.phases = tx[call[p].op].phases \cup {"published"}]
         \/ tx'[call[p].op] = [tx[call[p].op] EXCEPT !.phases = tx[call[p].op].phases \cup {"committed"}]
  BY <1>3 DEF Load, WriteLedger, LogPublished, Commit, Log, Journal, Mine, disk, IInv, DiskOK
<1>8. /\ tx'[call[p].op].path = tx[call[p].op].path /\ tx'[call[p].op].bytes = tx[call[p].op].bytes
      /\ "prepared" \in tx[call[p].op].phases => "prepared" \in tx'[call[p].op].phases
      /\ "completed" \in tx'[call[p].op].phases => "completed" \in tx[call[p].op].phases
  BY <1>3, <1>7 DEF Journals
<1>9. \A o \in Operations : "prepared" \in tx[o].phases =>
        /\ "prepared" \in tx'[o].phases /\ tx'[o].path = tx[o].path /\ tx'[o].bytes = tx[o].bytes
        /\ "completed" \in tx'[o].phases => "completed" \in tx[o].phases
  BY <1>7, <1>8
<1>0. unrecorded' = unrecorded BY DEF Load, WriteLedger, LogPublished, Commit, rare
<1>10. NamedOK' BY <1>0, <1>1, <1>4, <1>9, NamedStill DEF RegistryOK
<1>11. ResultAt(p)'
  <2>1. ResultAt(p) BY <1>1 DEF RegistryOK
  <2>2. pc'[p] # "abort" BY <1>4 DEF Late
  <2>3. pc[p] = "record" \/ pc[p] \in Late \ {"record", "record-write"} BY <1>1, <1>2
  <2> QED BY <1>2, <1>4, <1>6, <2>1, <2>2, <2>3, Constants DEF ResultAt, ResultOK
<1>12. \A q \in Processes : pc'[q] # "idle" => ResultAt(q)' BY <1>2, <1>4, <1>11, ResultsBy
<1> QED BY <1>10, <1>12 DEF RegistryOK

LEMMA RBegins ==
  ASSUME IInv, RegistryOK, PackagesOK, NEW p \in Processes, Begin(p) \/ Prepare(p)
  PROVE  RegistryOK'
<1>1. pc[p] \in {"check", "prepare"} /\ pc'[p] \in {"run", "gate"}
  BY DEF Begin, Prepare, At, Go, IInv, ProcessesOK
<1>2. pc[p] \notin Waiting /\ pc[p] # "idle" /\ pc[p] # "fix-record" BY <1>1 DEF Waiting
<1>3. call[p].op \in Operations BY <1>2, CallOf, Paths_ DEF IInv
<1>4. "prepared" \notin tx[call[p].op].phases
  <2>1. HolderOK(call[p], pc[p]) BY <1>2 DEF IInv, HoldersOK, HolderAt
  <2>2. CASE pc[p] = "prepare" BY <2>1, <2>2 DEF HolderOK, Early
  <2>3. CASE pc[p] = "check"
    <3>1. ~tx[call[p].op].dir BY <1>3, <2>1, <2>3 DEF HolderOK, Pending
    <3> QED BY <1>3, <3>1, NoTxOK DEF IInv, JournalsOK, JournalOK
  <2> QED BY <1>1, <2>2, <2>3
<1>5. \A o \in Operations \ {call[p].op} : tx'[o] = tx[o]
  BY <1>3 DEF Begin, Prepare, Journal, IInv, DiskOK
<1>6. /\ UNCHANGED <<file, registry>>
      /\ \A q \in Processes \ {p} : pc'[q] = pc[q] /\ call'[q] = call[q]
  BY DEF Begin, Prepare, Go, disk, IInv, ProcessesOK
<1>0. unrecorded' = unrecorded BY DEF Begin, Prepare, rare
<1>7. NamedOK' BY <1>0, <1>2, <1>4, <1>5, <1>6, NamedStill DEF RegistryOK
<1>8. pc'[p] \notin Late \cup {"abort"} BY <1>1 DEF Late
<1>9. \A q \in Processes : pc'[q] # "idle" => ResultAt(q)' BY <1>2, <1>6, <1>8, ResultsBy
<1> QED BY <1>7, <1>9 DEF RegistryOK

\* What is owed while there is a journal is owed by that one.
LEMMA OwedBy ==
  ASSUME IInv, NamedOK, NEW o \in Operations, tx[o].dir,
         NEW t \in Outputs, file[t] \in Calls \ unrecorded, registry[t] # file[t]
  PROVE  DueBy(o, t, file[t])
<1>1. PICK r \in Operations : DueBy(r, t, file[t]) BY DEF NamedOK, Due
<1>2. r = o BY <1>1, Sole, NoTxOK DEF IInv, DueBy
<1> QED BY <1>1, <1>2

LEMMA RLand ==
  ASSUME IInv, PackagesOK, RegistryOK, NEW p \in Processes, Link(p) \/ Replace(p)
  PROVE  RegistryOK'
<1>1. /\ pc[p] \in {"link", "replace"} /\ UNCHANGED <<tx, call, calls, registry, late, unrecorded>>
      /\ \/ file' = [file EXCEPT ![call[p].path] = call[p].n] /\ pc' = [pc EXCEPT ![p] = "record"]
         \/ UNCHANGED file /\ pc' = [pc EXCEPT ![p] = "abort"]
  BY DEF Link, Replace, At, Land, Go, rare
<1>2. /\ pc[p] \notin Waiting /\ call[p].op \in Operations /\ call[p].path \in Outputs
      /\ call[p].n \in Calls /\ tx[call[p].op].dir
      /\ "prepared" \in tx[call[p].op].phases /\ "completed" \notin tx[call[p].op].phases
      /\ tx[call[p].op].path = call[p].path /\ tx[call[p].op].bytes = call[p].n
  BY <1>1, PastPrepare DEF Landing, PhasesAt
<1>3. CASE file' = [file EXCEPT ![call[p].path] = call[p].n] /\ pc' = [pc EXCEPT ![p] = "record"]
  <2>1. \A t \in Paths : file'[t] = IF t = call[p].path THEN call[p].n ELSE file[t]
    BY <1>3 DEF IInv, DiskOK
  <2>2. pc'[p] = "record" /\ \A q \in Processes \ {p} : pc'[q] = pc[q]
    BY <1>3 DEF IInv, ProcessesOK
  <2>3. ASSUME NEW t \in Outputs, file'[t] \in Calls \ unrecorded', registry'[t] # file'[t]
        PROVE  Due(t, file[t])'
    <3>1. DueBy(call[p].op, t, file'[t])
      <4>1. CASE t = call[p].path BY <1>2, <2>1, <4>1, Paths_ DEF DueBy
      <4>2. CASE t # call[p].path
        BY <1>1, <1>2, <2>1, <2>3, <4>2, OwedBy, Paths_ DEF RegistryOK
      <4> QED BY <4>1, <4>2
    <3>2. DueBy(call[p].op, t, file[t])' BY <1>1, <1>2, <3>1 DEF DueBy
    <3> QED BY <1>1, <1>2, <3>2, Constants DEF Due
  <2>4. NamedOK' BY <2>3, Constants DEF NamedOK
  <2>5. ResultAt(p)'
    <3>1. file'[call'[p].path] = call'[p].n BY <1>1, <1>2, <2>1, Paths_
    <3> QED BY <2>2, <3>1 DEF ResultAt, ResultOK
  <2>6. \A q \in Processes : pc'[q] # "idle" => ResultAt(q)' BY <1>2, <2>2, <2>5, ResultsBy
  <2> QED BY <2>4, <2>6 DEF RegistryOK
<1>4. CASE UNCHANGED file /\ pc' = [pc EXCEPT ![p] = "abort"]
  <2>1. "abort" \in Steps /\ "abort" \notin Late /\ "abort" \in Closing
        /\ "link" \notin Late /\ "replace" \notin Late /\ pc[p] \notin {"idle", "abort"}
        /\ pc[p] \in Landing /\ pc[p] # "record-write"
    BY <1>1 DEF Steps, Late, Closing, Landing
  <2>2. Calm(p) BY <1>1, <1>4, <2>1, CalmSame
  <2>3. pc'[p] = "abort" BY <1>4 DEF IInv, ProcessesOK
  <2> QED BY <1>1, <2>1, <2>2, <2>3, RegistryAborts
<1> QED BY <1>1, <1>3, <1>4

LEMMA RRecord ==
  ASSUME IInv, RegistryOK, NEW p \in Processes, RecordSuccess(p)
  PROVE  RegistryOK'
<1>1. /\ pc[p] = "record-write" /\ registry' = [call[p].seen EXCEPT ![call[p].path] = call[p].n]
      /\ UNCHANGED <<file, tx, unrecorded>>
      /\ call' = [call EXCEPT ![p] = [call[p] EXCEPT !.seen = NoCall.seen]]
      /\ pc' = [pc EXCEPT ![p] = "published"]
  BY DEF RecordSuccess, At, Go, Keep, rare
<1>2. /\ pc[p] \notin Waiting /\ call[p] \in Build /\ call[p].op \in Operations
      /\ call[p].path \in Outputs /\ call[p].n \in Calls /\ tx[call[p].op].dir
      /\ tx[call[p].op].path = call[p].path /\ call[p].seen = registry
      /\ "completed" \notin tx[call[p].op].phases
  BY <1>1, PastPrepare DEF Late, HolderOK, PhasesAt
<1>3. \A t \in Paths : registry'[t] = IF t = call[p].path THEN call[p].n ELSE registry[t]
  BY <1>1, <1>2 DEF IInv, DiskOK, Registries
<1>4. /\ pc'[p] = "published" /\ \A q \in Processes \ {p} : pc'[q] = pc[q]
      /\ call'[p] = [call[p] EXCEPT !.seen = NoCall.seen]
  BY <1>1 DEF IInv, ProcessesOK
<1>5. call'[p].n = call[p].n /\ call'[p].path = call[p].path BY <1>2, <1>4 DEF Build
<1>6. file[call[p].path] \in Calls => file[call[p].path] = call[p].n
  BY <1>1, <1>2 DEF RegistryOK, ResultAt, ResultOK, Late
<1>7. ASSUME NEW t \in Outputs, file'[t] \in Calls \ unrecorded' PROVE registry'[t] = file'[t]
  <2>1. CASE t = call[p].path BY <1>1, <1>2, <1>3, <1>6, <1>7, <2>1, Paths_
  <2>2. CASE t # call[p].path
    <3>1. ~DueBy(call[p].op, t, file[t]) BY <1>2, <2>2 DEF DueBy
    <3>2. registry[t] = file[t] BY <1>1, <1>2, <1>7, <3>1, OwedBy DEF RegistryOK
    <3> QED BY <1>1, <1>3, <2>2, <3>2, Paths_
  <2> QED BY <2>1, <2>2
<1>8. NamedOK' BY <1>7, Constants DEF NamedOK
<1>9. ResultAt(p)'
  <2>1. registry'[call'[p].path] = call'[p].n BY <1>2, <1>3, <1>5, Paths_
  <2>2. file'[call'[p].path] \in Calls => file'[call'[p].path] = call'[p].n BY <1>1, <1>5, <1>6
  <2> QED BY <1>4, <2>1, <2>2, Constants DEF ResultAt, ResultOK
<1>10. \A q \in Processes : pc'[q] # "idle" => ResultAt(q)' BY <1>2, <1>4, <1>9, ResultsBy
<1> QED BY <1>8, <1>10 DEF RegistryOK

\* A journal that goes, or is closed, owes nothing any more.
LEMMA RCloses ==
  ASSUME IInv, RegistryOK, PackagesOK, NEW p \in Processes, Complete(p) \/ RemoveTx(p) \/ Abort(p)
  PROVE  RegistryOK'
<1>1. pc[p] \in {"complete", "remove", "abort"} BY DEF Complete, RemoveTx, Abort, At
<1>2. pc[p] \notin Waiting /\ pc[p] # "idle" BY <1>1 DEF Waiting
<1>3. call[p].kind = "build" /\ call[p].op \in Operations /\ call[p].path \in Outputs
  BY <1>2, CallOf, Paths_ DEF IInv
<1>4. ResultAt(p) BY <1>2 DEF RegistryOK
<1>5. /\ UNCHANGED <<file, registry, unrecorded>>
      /\ \A q \in Processes \ {p} : pc'[q] = pc[q]
      /\ \A o \in Operations \ {call[p].op} : tx'[o] = tx[o]
      /\ pc[p] = "complete" => pc'[p] = "remove" /\ UNCHANGED call
      /\ pc[p] # "complete" => pc'[p] = "idle"
  BY <1>3 DEF Complete, RemoveTx, Abort, Log, Journal, Refuse, At, Go, disk, rare, IInv, ProcessesOK, DiskOK
<1>6. ASSUME NEW t \in Outputs, file[t] \in Calls \ unrecorded, registry[t] # file[t],
             DueBy(call[p].op, t, file[t])
      PROVE  FALSE
  <2>1. CASE pc[p] = "abort" BY <1>4, <1>6, <2>1 DEF ResultAt, ResultOK, DueBy
  <2>2. CASE pc[p] \in {"complete", "remove"}
    <3>1. pc[p] \in Late /\ pc[p] \in Late \ {"record", "record-write"} BY <2>2 DEF Late
    <3>2. tx[call[p].op].path = call[p].path BY <3>1, PastPrepare
    <3>3. t = call[p].path BY <1>6, <3>2 DEF DueBy
    <3>4. file[t] = call[p].n /\ registry[t] = call[p].n
      BY <1>4, <1>6, <3>1, <3>3 DEF ResultAt, ResultOK
    <3> QED BY <1>6, <3>4
  <2> QED BY <1>1, <2>1, <2>2
<1>7. ASSUME NEW t \in Outputs, file'[t] \in Calls \ unrecorded', registry'[t] # file'[t]
      PROVE  Due(t, file[t])'
  <2>1. PICK o \in Operations : DueBy(o, t, file[t]) BY <1>5, <1>7 DEF RegistryOK, NamedOK, Due
  <2>2. o # call[p].op BY <1>5, <1>6, <1>7, <2>1
  <2>3. \A q \in Processes : pc[q] # "fix-record"
    <3>1. \A q \in Processes \ {p} : pc[q] \in Waiting BY <1>2, Alone DEF IInv
    <3> QED BY <1>1, <3>1 DEF Waiting
  <2>4. DueBy(o, t, file[t])' BY <1>5, <2>1, <2>2, <2>3 DEF DueBy
  <2> QED BY <2>4, Constants DEF Due
<1>8. NamedOK' BY <1>7, Constants DEF NamedOK
<1>9. pc'[p] \in Late \cup {"abort"} => ResultAt(p)'
  <2>1. SUFFICES ASSUME pc[p] = "complete" PROVE ResultAt(p)' BY <1>1, <1>5 DEF Late
  <2>2. pc'[p] = "remove" /\ call'[p] = call[p] BY <1>5, <2>1
  <2>3. "remove" \in Late \ {"record", "record-write"} /\ "complete" \in Late \ {"record", "record-write"}
    BY DEF Late
  <2> QED BY <1>4, <1>5, <2>1, <2>2, <2>3, Constants DEF ResultAt, ResultOK
<1>10. \A q \in Processes : pc'[q] # "idle" => ResultAt(q)' BY <1>2, <1>5, <1>9, ResultsBy
<1> QED BY <1>8, <1>10 DEF RegistryOK

LEMMA RBack ==
  ASSUME IInv, RegistryOK, NEW p \in Processes, NEW o \in Operations, RecoverBack(p, o)
  PROVE  RegistryOK'
<1>1. /\ pc[p] = "recover" /\ IsBack(tx[o]) /\ UNCHANGED <<file, registry, pc, unrecorded>>
  BY DEF RecoverBack, Takes, At, rare
<1>2. \A r \in Operations \ {o} : tx'[r] = tx[r] BY DEF RecoverBack, IInv, DiskOK
<1>3. \A q \in Processes : pc[q] # "fix-record"
  <2>1. \A q \in Processes \ {p} : pc[q] \in Waiting BY <1>1, Alone DEF IInv, Waiting
  <2> QED BY <1>1, <2>1 DEF Waiting
<1>4. ASSUME NEW t \in Outputs, file'[t] \in Calls \ unrecorded', registry'[t] # file'[t]
      PROVE  Due(t, file[t])'
  <2>1. PICK r \in Operations : DueBy(r, t, file[t]) BY <1>1, <1>4 DEF RegistryOK, NamedOK, Due
  <2>2. r # o BY <1>1, <2>1 DEF DueBy, IsBack, Landed
  <2>3. DueBy(r, t, file[t])' BY <1>1, <1>2, <1>3, <2>1, <2>2 DEF DueBy
  <2> QED BY <2>3, Constants DEF Due
<1>5. NamedOK' BY <1>4, Constants DEF NamedOK
<1>6. pc'[p] \notin Late \cup {"abort"} /\ pc[p] \notin Waiting BY <1>1 DEF Late, Waiting
<1>7. \A q \in Processes : pc'[q] # "idle" => ResultAt(q)' BY <1>1, <1>6, ResultsBy
<1> QED BY <1>5, <1>7 DEF RegistryOK

LEMMA RFix ==
  ASSUME IInv, RegistryOK, NEW p \in Processes, FixComplete(p) \/ FixRecord(p) \/ FixRemove(p)
  PROVE  RegistryOK'
<1>1. pc[p] \in {"fix-complete", "fix-record", "fix-remove"} /\ pc[p] \in Mending
  BY DEF FixComplete, FixRecord, FixRemove, At, Mending
<1>2. /\ pc[p] \notin Waiting /\ call[p].mend \in Operations /\ tx[call[p].mend] \in Journals
      /\ tx[call[p].mend].dir /\ "prepared" \in tx[call[p].mend].phases
      /\ tx[call[p].mend].path \in Outputs /\ tx[call[p].mend].bytes \in Calls
      /\ HolderOK(call[p], pc[p])
  BY <1>1, Mends
<1>3. /\ UNCHANGED <<file, unrecorded>> /\ \A q \in Processes \ {p} : pc'[q] = pc[q]
      /\ pc'[p] \in {"fix-record", "fix-remove", "recover"}
  BY DEF FixComplete, FixRecord, FixRemove, Go, rare, IInv, ProcessesOK
<1>4. pc'[p] \notin Late \cup {"abort"} BY <1>3 DEF Late
<1>5. \A q \in Processes : pc'[q] # "idle" => ResultAt(q)' BY <1>2, <1>3, <1>4, ResultsBy
<1>6. CASE FixComplete(p)
  <2>1. /\ pc'[p] = "fix-record" /\ call'[p] = call[p] /\ UNCHANGED registry
        /\ tx'[call[p].mend] = [tx[call[p].mend] EXCEPT !.phases = tx[call[p].mend].phases \cup {"completed"}]
    BY <1>2, <1>6 DEF FixComplete, Mended, Go, IInv, ProcessesOK, DiskOK
  <2>2. /\ tx'[call[p].mend].path = tx[call[p].mend].path
        /\ tx'[call[p].mend].bytes = tx[call[p].mend].bytes
        /\ "prepared" \in tx'[call[p].mend].phases
    BY <1>2, <2>1 DEF Journals
  <2>3. ASSUME NEW t \in Outputs, file'[t] \in Calls \ unrecorded', registry'[t] # file'[t]
        PROVE  Due(t, file[t])'
    <3>1. DueBy(call[p].mend, t, file[t]) BY <1>2, <1>3, <2>1, <2>3, OwedBy DEF RegistryOK
    <3>2. DueBy(call[p].mend, t, file[t])' BY <1>3, <2>1, <2>2, <3>1 DEF DueBy
    <3> QED BY <1>2, <2>1, <3>2, Constants DEF Due
  <2> QED BY <1>5, <2>3, Constants DEF RegistryOK, NamedOK
<1>7. CASE FixRecord(p)
  <2>1. /\ UNCHANGED tx
        /\ registry' = IF Landed(tx[call[p].mend])
                         THEN [registry EXCEPT ![tx[call[p].mend].path] = tx[call[p].mend].bytes]
                         ELSE registry
    BY <1>7 DEF FixRecord, Mended
  <2>2. ASSUME NEW t \in Outputs, file[t] \in Calls \ unrecorded PROVE registry'[t] = file[t]
    <3>1. CASE registry[t] = file[t]
      BY <1>2, <2>1, <3>1, Paths_ DEF Landed, IInv, DiskOK, Registries
    <3>2. CASE registry[t] # file[t]
      <4>1. DueBy(call[p].mend, t, file[t]) BY <1>2, <2>2, <3>2, OwedBy DEF RegistryOK
      <4> QED BY <1>2, <2>1, <4>1, Paths_ DEF DueBy, Landed, IInv, DiskOK, Registries
    <3> QED BY <3>1, <3>2
  <2> QED BY <1>3, <1>5, <2>2, Constants DEF RegistryOK, NamedOK
<1>8. CASE FixRemove(p)
  <2>1. pc[p] = "fix-remove" /\ UNCHANGED registry BY <1>8 DEF FixRemove, At
  <2>2. "completed" \in tx[call[p].mend].phases BY <1>2, <2>1 DEF HolderOK
  <2>3. \A q \in Processes : pc[q] # "fix-record"
    <3>1. \A q \in Processes \ {p} : pc[q] \in Waiting BY <1>2, Alone DEF IInv
    <3> QED BY <2>1, <3>1 DEF Waiting
  <2>4. ASSUME NEW t \in Outputs, file[t] \in Calls \ unrecorded PROVE registry[t] = file[t]
    <3>1. ~DueBy(call[p].mend, t, file[t]) BY <2>2, <2>3 DEF DueBy
    <3> QED BY <1>2, <2>4, <3>1, OwedBy DEF RegistryOK
  <2> QED BY <1>3, <1>5, <2>1, <2>4, Constants DEF RegistryOK, NamedOK
<1> QED BY <1>6, <1>7, <1>8

\* A recovery that ends between its completed record and the registry leaves out
\* what it owed, and nothing else.
LEMMA RLost ==
  ASSUME IInv, RegistryOK, NEW p \in Processes, Crash(p) \/ FailMend(p), pc[p] = "fix-record"
  PROVE  RegistryOK'
<1>1. Calm(p) BY CalmEnd
<1>2. /\ UNCHANGED <<file, registry, tx>> /\ unrecorded' = unrecorded \cup Owed(p)
      /\ pc'[p] \in {"idle", "recover"}
      /\ \A q \in Processes \ {p} : pc'[q] = pc[q] /\ call'[q] = call[q]
  BY <1>1 DEF Calm, Crash, FailMend, Go, disk, IInv, ProcessesOK
<1>3. /\ call[p].mend \in Operations /\ tx[call[p].mend].dir BY Mends DEF Mending
<1>4. Owed(p) = {tx[call[p].mend].bytes} \ {registry[tx[call[p].mend].path]}
  BY DEF Owed, Mended, At
<1>5. ASSUME NEW t \in Outputs, file[t] \in Calls \ unrecorded' PROVE registry[t] = file[t]
  <2>1. SUFFICES ASSUME registry[t] # file[t] PROVE FALSE OBVIOUS
  <2>2. DueBy(call[p].mend, t, file[t]) BY <1>2, <1>3, <1>5, <2>1, OwedBy DEF RegistryOK
  <2>3. file[t] \in Owed(p) BY <1>4, <2>1, <2>2 DEF DueBy
  <2> QED BY <1>2, <1>5, <2>3
<1>6. NamedOK' BY <1>2, <1>5, Constants DEF NamedOK
<1>7. pc'[p] \notin Late \cup {"abort"} BY <1>2 DEF Late
<1>8. \A q \in Processes : pc'[q] # "idle" => ResultAt(q)' BY <1>2, <1>7, ResultsStill
<1> QED BY <1>6, <1>8 DEF RegistryOK

LEMMA RCall ==
  ASSUME RegistryOK, IInv, NEW p \in Processes, NEW kind \in Kinds, NEW o \in Ops, NEW out \in Outputs,
         Call(p, kind, o, out)
  PROVE  RegistryOK'
<1>1. /\ pc[p] = "idle" /\ pc'[p] = "lane" /\ UNCHANGED <<file, registry, tx, unrecorded>>
      /\ \A q \in Processes \ {p} : pc'[q] = pc[q] /\ call'[q] = call[q]
  BY DEF Call, At, Go, Keep, disk, IInv, ProcessesOK
<1>2. NamedOK' BY <1>1, NamedStill DEF RegistryOK
<1>3. \A q \in Processes : pc'[q] # "idle" => ResultAt(q)' BY <1>1, ResultsStill DEF Late
<1> QED BY <1>2, <1>3 DEF RegistryOK

LEMMA RForeign ==
  ASSUME IInv, RegistryOK, NEW path \in Outputs, NEW bytes \in Foreign \cup {None},
         Foreignly(path, bytes)
  PROVE  RegistryOK'
<1>1. \A t \in Paths : file'[t] = IF t = path THEN bytes ELSE file[t]
  BY DEF Foreignly, Land, IInv, DiskOK
<1>2. UNCHANGED <<registry, tx, pc, call, unrecorded>> BY DEF Foreignly
<1>3. bytes \notin Calls BY Paths_
<1>4. ASSUME NEW t \in Outputs, file'[t] \in Calls \ unrecorded', registry'[t] # file'[t]
      PROVE  Due(t, file[t])'
  <2>1. file'[t] = file[t] BY <1>1, <1>3, <1>4, Paths_
  <2>2. PICK o \in Operations : DueBy(o, t, file[t])
    BY <1>2, <1>4, <2>1 DEF RegistryOK, NamedOK, Due
  <2>3. DueBy(o, t, file[t])' BY <1>2, <2>1, <2>2 DEF DueBy
  <2> QED BY <2>3, Constants DEF Due
<1>5. NamedOK' BY <1>4, Constants DEF NamedOK
<1>6. ASSUME NEW q \in Processes, pc'[q] # "idle" PROVE ResultAt(q)'
  <2>1. ResultAt(q) /\ pc'[q] = pc[q] /\ call'[q] = call[q] /\ pc[q] # "idle"
    BY <1>2, <1>6 DEF RegistryOK
  <2>2. call[q].path \in Paths /\ call[q].n \in Calls BY <2>1, CallOf, Paths_ DEF IInv
  <2>3. file'[call[q].path] \in Calls => file'[call[q].path] = file[call[q].path]
    BY <1>1, <1>3, <2>2
  <2> QED BY <1>2, <2>1, <2>2, <2>3, Constants DEF ResultAt, ResultOK
<1> QED BY <1>5, <1>6 DEF RegistryOK

LEMMA RegistryNext ==
  ASSUME IInv, PackagesOK, RegistryOK, BuildsOnly, [Next]_vars
  PROVE  RegistryOK'
<1>1. CASE UNCHANGED vars
  BY <1>1, Constants DEF vars, RegistryOK, NamedOK, Due, DueBy, ResultAt, ResultOK
<1>2. ASSUME NEW p \in Processes, Transaction(p) PROVE RegistryOK'
  BY <1>2, RQuiet, RAborts, RLate, RBegins, RLand, RRecord, RCloses DEF Transaction
<1>3. ASSUME NEW p \in Processes, Recovery(p) PROVE RegistryOK'
  BY <1>3, RQuiet, RBack, RFix DEF Recovery
<1>4. ASSUME NEW p \in Processes, FailStep(p) \/ FailMend(p) \/ Crash(p) PROVE RegistryOK'
  BY <1>4, RQuiet, RAborts, RLost
<1> QED BY <1>1, <1>2, <1>3, <1>4, Somebody, NoSave, RCall, RForeign DEF Work

\* Whenever nobody is at work and no journal is left, the registry names the package
\* that is at an output, whatever crashed, failed or was written by the other program
\* before, and wherever it did, except for the packages whose record was lost in one of
\* two ways: the error that ended the build struck in the writing of it, or a recovery
\* died or failed between its completed record and its write of the registry (store.rs
\* 317-336, 2698-2777, 3604-3672).
THEOREM RegistryNamesThePackage == BuildsOnly => (Spec => []PublicationRecorded)
<1> SUFFICES ASSUME BuildsOnly PROVE Spec => []PublicationRecorded OBVIOUS
<1>1. Init => PackagesOK /\ RegistryOK
  <2>1. ASSUME Init PROVE PackagesOK
    BY <2>1, NoTxOK, Paths_ DEF Init, PackagesOK
  <2>2. ASSUME Init PROVE RegistryOK
    BY <2>2, Paths_ DEF Init, RegistryOK, NamedOK
  <2> QED BY <2>1, <2>2
<1>2. IInv /\ (PackagesOK /\ RegistryOK) /\ [Next]_vars => (PackagesOK /\ RegistryOK)'
  BY PackagesNext, RegistryNext
<1>3. IInv /\ RegistryOK => PublicationRecorded
  <2>1. SUFFICES ASSUME IInv, RegistryOK, Pending = {}, NEW t \in Outputs, file[t] \in Calls \ unrecorded
                 PROVE  registry[t] = file[t]
    BY DEF PublicationRecorded
  <2>2. \A o \in Operations : tx[o].phases = {}
    BY <2>1, NoTxOK DEF Pending, IInv, JournalsOK, JournalOK
  <2> QED BY <2>1, <2>2 DEF RegistryOK, NamedOK, Due, DueBy
<1>4. Spec => []IInv BY Vouching
<1> QED BY <1>1, <1>2, <1>3, <1>4, PTL DEF Spec

-----------------------------------------------------------------------------
(* An operation that was answered is answered again. *)

Unwritten == Early \cup Landing \cup {"record", "record-write", "published", "commit", "ledger"}

\* From the check of the ledger to the write of it, an operation is not there.
EntryOK(c, at) ==
  /\ at \in Unwritten => c.op \notin ledger[c.path]
  /\ at \in {"complete", "remove"} => c.op \in ledger[c.path]

EntryAt(p) == EntryOK(call[p], pc[p])

AnsweredOK ==
  /\ \A a \in acked : a.path \in Paths /\ a.op \in ledger[a.path]
  /\ \A p \in Processes : EntryAt(p)

LEMMA EntriesBy ==
  ASSUME IInv, NEW p \in Processes, pc[p] \notin Waiting,
         \A q \in Processes \ {p} : pc'[q] = pc[q], EntryAt(p)'
  PROVE  \A q \in Processes : EntryAt(q)'
<1>1. \A q \in Processes \ {p} : pc'[q] \in Waiting BY Alone DEF IInv
<1>2. ASSUME NEW q \in Processes, pc'[q] \in Waiting PROVE EntryAt(q)'
  BY <1>2 DEF EntryAt, EntryOK, Unwritten, Early, Landing, Waiting
<1> QED BY <1>1, <1>2

\* A step that leaves the ledgers and the answers alone, of a process that is not
\* between the two, or waits.
LEMMA ESame ==
  ASSUME AnsweredOK, NEW p \in Processes, UNCHANGED <<ledger, acked>>,
         \A q \in Processes \ {p} : pc'[q] = pc[q] /\ call'[q] = call[q],
         pc'[p] \notin Unwritten \cup {"complete", "remove"}
  PROVE  AnsweredOK'
<1>1. EntryAt(p)' BY DEF EntryAt, EntryOK
<1>2. ASSUME NEW q \in Processes \ {p} PROVE EntryAt(q)'
  BY DEF AnsweredOK, EntryAt, EntryOK
<1> QED BY <1>1, <1>2, Constants DEF AnsweredOK

LEMMA EQuiet ==
  ASSUME IInv, AnsweredOK, NEW p \in Processes,
         \/ Acquire(p) \/ Busy(p) \/ Replay(p) \/ RefuseEntry(p) \/ RefuseStaged(p) \/ Abort(p)
         \/ \E o \in Operations : RecoverStick(p, o) \/ RecoverBack(p, o) \/ RecoverForward(p, o)
         \/ FixEvidence(p) \/ FixComplete(p) \/ FixRecord(p) \/ FixRemove(p) \/ Recovered(p)
         \/ FailStep(p) \/ FailMend(p) \/ Crash(p)
  PROVE  AnsweredOK'
<1>1. UNCHANGED <<ledger, acked>>
  <2>1. CASE \/ Acquire(p) \/ Busy(p) \/ Replay(p) \/ RefuseEntry(p) \/ RefuseStaged(p)
             \/ FailStep(p) \/ FailMend(p) \/ Crash(p) \/ Abort(p) \/ Recovered(p)
    BY <2>1 DEF Acquire, Busy, Replay, RefuseEntry, RefuseStaged, FailStep, FailMend, Crash, Abort,
       Recovered, disk, history
  <2>2. CASE \/ \E o \in Operations : RecoverStick(p, o) \/ RecoverBack(p, o) \/ RecoverForward(p, o)
             \/ FixEvidence(p) \/ FixComplete(p) \/ FixRecord(p) \/ FixRemove(p)
    BY <2>2 DEF RecoverStick, RecoverBack, RecoverForward, FixEvidence, FixComplete, FixRecord,
       FixRemove, disk, history
  <2> QED BY <2>1, <2>2
<1>2. /\ \A q \in Processes \ {p} : pc'[q] = pc[q] /\ call'[q] = call[q]
      /\ pc'[p] \notin Unwritten \cup {"complete", "remove"}
  <2>1. CASE \/ Acquire(p) \/ Busy(p) \/ Replay(p) \/ RefuseEntry(p) \/ RefuseStaged(p)
             \/ FailStep(p) \/ FailMend(p) \/ Crash(p)
    BY <2>1 DEF Acquire, Busy, Replay, RefuseEntry, RefuseStaged, FailStep, FailMend, Crash, Refuse, Go, Keep,
       Unwritten, Early, Landing, IInv, ProcessesOK
  <2>2. CASE Abort(p) \/ Recovered(p)
    <3>1. call[p].kind = "build" BY <2>2, CallOf DEF Abort, Recovered, At, IInv
    <3> QED BY <2>2, <3>1 DEF Abort, Recovered, Refuse, Go, Keep, Unwritten, Early, Landing,
                              IInv, ProcessesOK
  <2>3. CASE \/ \E o \in Operations : RecoverStick(p, o) \/ RecoverBack(p, o) \/ RecoverForward(p, o)
             \/ FixEvidence(p) \/ FixComplete(p) \/ FixRecord(p) \/ FixRemove(p)
    BY <2>3 DEF RecoverStick, RecoverBack, RecoverForward, Takes, Skip, FixEvidence, FixComplete,
       FixRecord, FixRemove, At, Go, Keep, Unwritten, Early, Landing, IInv, ProcessesOK
  <2> QED BY <2>1, <2>2, <2>3
<1> QED BY <1>1, <1>2, ESame

LEMMA EWorks ==
  ASSUME IInv, AnsweredOK, NEW p \in Processes,
         \/ Begin(p) \/ Run(p) \/ CheckStaged(p) \/ Prepare(p) \/ Gate(p) \/ Link(p) \/ Hold(p)
         \/ Replace(p) \/ Load(p) \/ RecordSuccess(p) \/ LogPublished(p) \/ Commit(p) \/ Complete(p)
  PROVE  AnsweredOK'
<1>1. UNCHANGED <<ledger, acked>>
  BY DEF Begin, Run, CheckStaged, Prepare, Gate, Link, Hold, Replace, Load, RecordSuccess,
     LogPublished, Commit, Complete, disk, history
<1>2. pc[p] \in Unwritten \cup {"check", "complete"}
  <2>1. pc[p] \in Steps \cup Waiting BY DEF IInv, ProcessesOK
  <2> QED BY <2>1 DEF Begin, Run, CheckStaged, Prepare, Gate, Link, Hold, Replace, Load, RecordSuccess,
     LogPublished, Commit, Complete, At, Unwritten, Early, Landing, Steps, Late, Mending, Waiting
<1>3. pc[p] \notin Waiting /\ call[p] \in Build
  BY <1>2, CallOf DEF Unwritten, Early, Landing, Waiting, IInv
<1>4. /\ \A q \in Processes \ {p} : pc'[q] = pc[q]
      /\ pc'[p] \in {"complete", "remove"} => pc[p] = "complete"
      /\ pc'[p] \in Unwritten => pc[p] \in Unwritten \/ call[p].op \notin ledger[call[p].path]
  BY DEF Begin, Run, CheckStaged, Prepare, Gate, Link, Hold, Replace, Load, RecordSuccess,
     LogPublished, Commit, Complete, At, Go, Unwritten, Early, Landing, IInv, ProcessesOK
<1>5. call'[p] \in {call[p], [call[p] EXCEPT !.before = file[call[p].path]],
                    [call[p] EXCEPT !.seen = registry], [call[p] EXCEPT !.seen = NoCall.seen]}
  BY DEF Begin, Run, CheckStaged, Prepare, Gate, Link, Hold, Replace, Load, RecordSuccess,
     LogPublished, Commit, Complete, Keep, IInv, ProcessesOK
<1>6. call'[p].op = call[p].op /\ call'[p].path = call[p].path BY <1>3, <1>5 DEF Build
<1>7. EntryAt(p)' BY <1>1, <1>4, <1>6 DEF AnsweredOK, EntryAt, EntryOK
<1>8. \A q \in Processes : EntryAt(q)' BY <1>3, <1>4, <1>7, EntriesBy
<1> QED BY <1>1, <1>8, Constants DEF AnsweredOK

\* Ledgers only grow.
LEMMA EGrows ==
  ASSUME IInv, AnsweredOK, NEW p \in Processes, WriteLedger(p) \/ FixLedger(p) \/ RemoveTx(p)
  PROVE  AnsweredOK'
<1>1. pc[p] \in {"ledger", "fix-ledger", "remove"} BY DEF WriteLedger, FixLedger, RemoveTx, At
<1>2. pc[p] \notin Waiting BY <1>1 DEF Waiting
<1>3. call[p] \in Build /\ call[p].path \in Paths /\ call[p].kind = "build"
  BY <1>2, CallOf, Paths_ DEF IInv, Waiting
<1>4. \A t \in Paths : ledger[t] \subseteq ledger'[t]
  BY DEF WriteLedger, FixLedger, RemoveTx, IInv, DiskOK
<1>5. \A q \in Processes \ {p} : pc'[q] = pc[q]
  BY <1>3 DEF WriteLedger, FixLedger, RemoveTx, Go, IInv, ProcessesOK
<1>6. CASE WriteLedger(p)
  <2>1. pc'[p] = "complete" /\ UNCHANGED <<call, acked>> /\ call[p].op \in ledger'[call[p].path]
    BY <1>3, <1>6 DEF WriteLedger, Go, history, IInv, ProcessesOK, DiskOK
  <2>2. EntryAt(p)' BY <2>1 DEF EntryAt, EntryOK, Unwritten, Early, Landing
  <2>3. \A q \in Processes : EntryAt(q)' BY <1>2, <1>5, <2>2, EntriesBy
  <2> QED BY <1>4, <2>1, <2>3, Constants DEF AnsweredOK
<1>7. CASE FixLedger(p)
  <2>1. pc'[p] = "fix-evidence" /\ UNCHANGED acked
    BY <1>7 DEF FixLedger, Go, history, IInv, ProcessesOK
  <2>2. EntryAt(p)' BY <2>1 DEF EntryAt, EntryOK, Unwritten, Early, Landing
  <2>3. \A q \in Processes : EntryAt(q)' BY <1>2, <1>5, <2>2, EntriesBy
  <2> QED BY <1>4, <2>1, <2>3, Constants DEF AnsweredOK
<1>8. CASE RemoveTx(p)
  <2>1. /\ pc[p] = "remove" /\ pc'[p] = "idle" /\ UNCHANGED ledger
        /\ acked' = acked \cup {[op |-> call[p].op, path |-> call[p].path, bytes |-> call[p].n]}
    BY <1>3, <1>8 DEF RemoveTx, At, Go, IInv, ProcessesOK
  <2>2. call[p].op \in ledger[call[p].path] BY <2>1 DEF AnsweredOK, EntryAt, EntryOK
  <2>3. EntryAt(p)' BY <2>1 DEF EntryAt, EntryOK, Unwritten, Early, Landing
  <2>4. \A q \in Processes : EntryAt(q)' BY <1>2, <1>5, <2>3, EntriesBy
  <2>5. \A a \in acked' : a.path \in Paths /\ a.op \in ledger'[a.path]
    BY <1>3, <2>1, <2>2 DEF AnsweredOK
  <2> QED BY <2>4, <2>5, Constants DEF AnsweredOK
<1> QED BY <1>6, <1>7, <1>8

LEMMA AnsweredNext ==
  ASSUME IInv, AnsweredOK, BuildsOnly, [Next]_vars
  PROVE  AnsweredOK'
<1>1. CASE UNCHANGED vars BY <1>1, Constants DEF vars, AnsweredOK, EntryAt, EntryOK
<1>2. ASSUME NEW p \in Processes, Transaction(p) PROVE AnsweredOK'
  BY <1>2, EQuiet, EWorks, EGrows DEF Transaction
<1>3. ASSUME NEW p \in Processes, Recovery(p) PROVE AnsweredOK'
  BY <1>3, EQuiet, EGrows DEF Recovery
<1>4. ASSUME NEW p \in Processes, FailStep(p) \/ FailMend(p) \/ Crash(p) PROVE AnsweredOK' BY <1>4, EQuiet
<1>5. ASSUME NEW p \in Processes, NEW kind \in Kinds, NEW o \in Ops, NEW out \in Outputs,
             Call(p, kind, o, out)
      PROVE  AnsweredOK'
  <2>1. /\ UNCHANGED <<ledger, acked>> /\ pc'[p] = "lane"
        /\ \A q \in Processes \ {p} : pc'[q] = pc[q] /\ call'[q] = call[q]
    BY <1>5 DEF Call, Go, Keep, disk, history, IInv, ProcessesOK
  <2> QED BY <2>1, ESame DEF Unwritten, Early, Landing
<1>6. ASSUME NEW path \in Outputs, NEW bytes \in Foreign \cup {None}, Foreignly(path, bytes)
      PROVE  AnsweredOK'
  <2>1. UNCHANGED <<ledger, acked, pc, call>> BY <1>6 DEF Foreignly
  <2> QED BY <2>1, Constants DEF AnsweredOK, EntryAt, EntryOK
<1> QED BY <1>1, <1>2, <1>3, <1>4, <1>5, <1>6, Somebody, NoSave DEF Work

\* Among builds, an operation that was answered with success for an output is never
\* published there again, whoever asks and whatever crashed in between ("without a
\* second effect", store.rs 3081-3083).
THEOREM PublishedOnce == BuildsOnly => (Spec => []NoSecondEffect)
<1> SUFFICES ASSUME BuildsOnly PROVE Spec => []NoSecondEffect OBVIOUS
<1>1. Init => AnsweredOK
  BY DEF Init, AnsweredOK, EntryAt, EntryOK, Unwritten, Early, Landing
<1>2. IInv /\ AnsweredOK /\ [Next]_vars => AnsweredOK' BY AnsweredNext
<1>3. AnsweredOK => NoSecondEffect
  BY DEF AnsweredOK, EntryAt, EntryOK, Unwritten, NoSecondEffect
<1>4. Spec => []IInv BY Vouching
<1> QED BY <1>1, <1>2, <1>3, <1>4, PTL DEF Spec

-----------------------------------------------------------------------------
(***************************************************************************)
(* Builds and saves together, with errors and kills at every step, for     *)
(* every value of the constants: a saved document that was answered with   *)
(* success lies beside its own evidence, which beside a document somebody  *)
(* has settled for is either its own or that of a call which will not be   *)
(* answered with success (NotClaimed).                                     *)
(*                                                                         *)
(* SaveInv is the inductive invariant: the types; which call is at which   *)
(* step (CallsOK); what a journal's name proves about its build            *)
(* (RecordsOK); where a call's bytes can be (PlacesOK); and the comparison *)
(* (EvidenceOK).                                                           *)
(***************************************************************************)

(* The types of builds and saves. *)

Journalled == {"run", "staged", "prepare"} \cup Landing \cup Late
InLane == {"check", "abort", "recover"} \cup Journalled \cup Mending
Settling == {"save-record", "save-record-write"}
Moving ==
  {"verify", "capture", "guard", "side-build", "side-verify", "side-ledger", "save-replace",
   "new-document", "new-build", "new-verify", "new-ledger", "reread", "compare", "discard"}
  \cup Settling

Glances == [Paths -> Bytes]

Requests ==
  [kind : {"build", "save"}, op : Operations, out : Outputs, path : Paths, n : Calls,
   before : Bytes, seen : Glances \cup {NoCall.seen}, todo : SUBSET (Operations \cup Sidecars),
   mend : Operations \cup {None}, stuck : BOOLEAN]

\* A build publishes at the output itself, a save beside it under its own number.
Coherent(c) == IF c.kind = "build" THEN c.path = c.out ELSE c.path = c.n /\ c.op = c.n

Transactions ==
  [phases : SUBSET Phases, dir : BOOLEAN, path : Paths \cup {None},
   bytes : Calls \cup {None}, before : Bytes]

SharedOK ==
  /\ file \in [Paths -> Bytes]
  /\ evidence \in [Paths -> [Sidecars -> Bytes]]
  /\ ledger \in [Paths -> SUBSET Operations]
  /\ registry \in Glances
  /\ tx \in [Operations -> Transactions]
  /\ calls \in 0..MaxCalls

Active(p) == pc[p] # "idle"

CallOK(p) ==
  /\ Active(p) => call[p] \in Requests /\ Coherent(call[p]) /\ call[p].n <= calls
  /\ lane = p <=> pc[p] \in InLane
  /\ pc[p] \in Moving => call[p].kind = "save"
  /\ pc[p] \in {"record-write", "save-record-write"} => call[p].seen \in Glances
  /\ pc[p] \in Journalled => Mine(p).dir
  /\ pc[p] \in {"recover"} \cup Mending => call[p].todo \subseteq Pending
  /\ pc[p] \in Mending => call[p].mend \in call[p].todo

CallsOK ==
  /\ lane \in Processes \cup {None}
  /\ pc \in [Processes -> {"idle", "lane"} \cup InLane \cup Moving]
  /\ call = [p \in Processes |-> call[p]]
  /\ \A p \in Processes : CallOK(p)
  /\ \A p, q \in Processes : Active(p) /\ Active(q) /\ call[p].n = call[q].n => p = q

-----------------------------------------------------------------------------
(* Transactions and answers. *)

\* The calls answered with success.
Credited == done \cup {a.bytes : a \in acked}

\* A journal about an output is of a build nobody has been told of; while the build
\* lives it is at work on this journal.
RecordOK(o) ==
  /\ tx[o].phases # {} => tx[o].dir
  /\ tx[o].path \in Calls => tx[o].bytes = tx[o].path
  /\ tx[o].path \in Outputs =>
       /\ tx[o].bytes \in 1..calls /\ tx[o].bytes \notin Credited
       /\ \A p \in Processes : Active(p) /\ call[p].n = tx[o].bytes =>
            call[p].kind = "build" /\ call[p].op = o /\ pc[p] \in Landing \cup Late \cup {"abort"}

AnswersOK ==
  /\ Credited \subseteq 1..calls
  /\ \A p \in Processes : Active(p) => call[p].n \notin Credited

RecordsOK == AnswersOK /\ \A o \in Operations : RecordOK(o)

-----------------------------------------------------------------------------
(* Documents and evidence. *)

\* A call's bytes are only where it puts them, a staged package among its own.
Placed(n, out) ==
  /\ \A t \in Outputs : file[t] = n => t = out
  /\ \A t \in Outputs, s \in Sidecars : evidence[t][s] = n => t = out

PlacesOK ==
  /\ \A t \in Outputs : file[t] \in Calls => file[t] <= calls
  /\ \A t \in Outputs, s \in Sidecars : evidence[t][s] \in Calls => evidence[t][s] <= calls
  /\ \A n \in Calls : file[n] \in {None, n} /\ \A s \in Sidecars : evidence[n][s] \in {None, n}
  /\ \A p \in Processes : Active(p) => Placed(call[p].n, call[p].out)

\* The saves that have passed their comparison.
Saved == done \cup {call[p].n : p \in {q \in Processes : pc[q] \in Settling}}

\* A call that may still be answered with success although nothing of it moves any more.
Claims(p) ==
  \/ pc[p] \in Settling
  \/ pc[p] = "compare" /\ call[p].before = call[p].n
  \/ pc[p] \in Late /\ call[p].kind = "build"

NotClaimed(n) ==
  n \notin Credited /\ \A p \in Processes : Active(p) /\ call[p].n = n => ~Claims(p)

EvidenceOK ==
  /\ \A p \in Processes :
       pc[p] = "compare" /\ file[call[p].out] = call[p].n => call[p].before = call[p].n
  /\ \A t \in Outputs, s \in Sidecars :
       file[t] \in Saved => evidence[t][s] = file[t] \/ NotClaimed(evidence[t][s])

SaveInv == SharedOK /\ CallsOK /\ RecordsOK /\ PlacesOK /\ EvidenceOK

-----------------------------------------------------------------------------
(* Processes. *)

AllSteps == {"idle", "lane"} \cup InLane \cup Moving
Owning == Landing \cup Late \cup {"abort"}

LEMMA Sorts ==
  /\ Outputs \subseteq Paths /\ Calls \subseteq Paths /\ Calls \subseteq Operations
  /\ Ops \subseteq Operations /\ Calls \subseteq Bytes /\ None \in Bytes
  /\ Foreign \subseteq Bytes /\ Baseline \in Bytes
  /\ None \notin Calls /\ None \notin Foreign /\ None \notin Paths /\ None \notin Processes
  /\ None \notin Operations
  /\ Outputs \cap Calls = {} /\ Foreign \cap Calls = {} /\ Baseline \notin Calls
  /\ Calls = 1..MaxCalls /\ MaxCalls \in Nat
  BY PublishAssumption DEF Paths, Operations, Bytes, Calls

\* A call as the steps below read it.
LEMMA RequestOf ==
  ASSUME CallsOK, NEW p \in Processes, Active(p)
  PROVE  /\ call[p] \in Requests /\ Coherent(call[p]) /\ call[p].n \in Calls
         /\ call[p].out \in Outputs /\ call[p].path \in Paths /\ call[p].op \in Operations
         /\ call[p].kind \in {"build", "save"} /\ call[p].n <= calls
  BY DEF CallsOK, CallOK, Requests

\* The rest of the processes, after a step of one of them.
Others(p) == \A q \in Processes \ {p} : pc'[q] = pc[q] /\ call'[q] = call[q]
Shaped == pc \in [Processes -> AllSteps] /\ call = [p \in Processes |-> call[p]]
Same(p) ==
  /\ call'[p].kind = call[p].kind /\ call'[p].op = call[p].op /\ call'[p].out = call[p].out
  /\ call'[p].path = call[p].path /\ call'[p].n = call[p].n

LEMMA Goes ==
  ASSUME CallsOK, NEW p \in Processes, NEW there \in AllSteps,
         pc' = [pc EXCEPT ![p] = there]
  PROVE  /\ pc'[p] = there /\ pc' \in [Processes -> AllSteps]
         /\ \A q \in Processes \ {p} : pc'[q] = pc[q]
  BY DEF CallsOK, AllSteps

LEMMA Moves ==
  ASSUME CallsOK, NEW p \in Processes, NEW there \in AllSteps,
         pc' = [pc EXCEPT ![p] = there], UNCHANGED call
  PROVE  /\ pc'[p] = there /\ Shaped' /\ Others(p)
         /\ Same(p)
  BY Goes DEF CallsOK, Shaped, Others, Same

\* One process changes its step or its call, keeping what it was asked.
LEMMA ProcessGoes ==
  ASSUME CallsOK, NEW p \in Processes, Active(p), Active(p)',
         Shaped', Others(p), Same(p), call'[p] \in Requests, calls' = calls,
         lane' \in Processes \cup {None}, lane' = p <=> pc'[p] \in InLane,
         \A q \in Processes : q # p => (lane' = q <=> lane = q),
         tx' = tx \/ lane = p,
         pc'[p] \in Moving => call[p].kind = "save",
         pc'[p] \in {"record-write", "save-record-write"} => call'[p].seen \in Glances,
         pc'[p] \in Journalled => tx'[call[p].op].dir,
         pc'[p] \in {"recover"} \cup Mending => call'[p].todo \subseteq Pending',
         pc'[p] \in Mending => call'[p].mend \in call'[p].todo
  PROVE  CallsOK'
  <1>1. CallOK(p)'
    <2>1. Coherent(call'[p]) /\ call'[p].n <= calls' BY RequestOf DEF Same, Coherent
    <2> QED BY <2>1 DEF CallOK, Same, Mine
  <1>2. ASSUME NEW q \in Processes \ {p} PROVE CallOK(q)'
    <2>1. CallOK(q) /\ pc'[q] = pc[q] /\ call'[q] = call[q] /\ (lane' = q <=> lane = q)
      BY DEF CallsOK, Others
    <2>2. CASE tx' = tx
      <3>1. Pending' = Pending BY <2>2 DEF Pending, Operations, Calls
      <3> QED BY <2>1, <2>2, <3>1 DEF CallOK, Active, Mine
    <2>3. CASE lane = p
      <3>1. pc[q] \notin InLane BY <2>1, <2>3 DEF CallOK
      <3> QED BY <2>1, <3>1 DEF CallOK, Active, InLane, Mine
    <2> QED BY <2>2, <2>3
  <1>3. \A q, r \in Processes : Active(q)' /\ Active(r)' /\ call'[q].n = call'[r].n => q = r
    BY DEF CallsOK, Active, Others, Same
  <1> QED BY <1>1, <1>2, <1>3 DEF CallsOK, Shaped, AllSteps

\* One process leaves; the lane is free if it was its own.
LEMMA ProcessLeaves ==
  ASSUME CallsOK, NEW p \in Processes,
         pc' = [pc EXCEPT ![p] = "idle"], call' = [call EXCEPT ![p] = NoCall],
         lane' = (IF lane = p THEN None ELSE lane), calls' = calls, tx' = tx \/ lane = p
  PROVE  /\ CallsOK' /\ pc'[p] = "idle"
         /\ \A q \in Processes \ {p} : pc'[q] = pc[q] /\ call'[q] = call[q]
  <1>1. /\ pc'[p] = "idle" /\ call'[p] = NoCall
        /\ \A q \in Processes \ {p} : pc'[q] = pc[q] /\ call'[q] = call[q]
    BY DEF CallsOK
  <1>2. CallOK(p)'
    <2>1. lane' # p BY Sorts
    <2> QED BY <1>1, <2>1
      DEF CallOK, Active, InLane, Moving, Settling, Journalled, Landing, Late, Mending
  <1>3. ASSUME NEW q \in Processes \ {p} PROVE CallOK(q)'
    <2>1. CallOK(q) /\ pc'[q] = pc[q] /\ call'[q] = call[q] /\ (lane' = q <=> lane = q)
      BY <1>1, Sorts DEF CallsOK
    <2>2. CASE tx' = tx
      <3>1. Pending' = Pending BY <2>2 DEF Pending, Operations, Calls
      <3> QED BY <2>1, <2>2, <3>1 DEF CallOK, Active, Mine
    <2>3. CASE lane = p
      <3>1. pc[q] \notin InLane BY <2>1, <2>3 DEF CallOK
      <3> QED BY <2>1, <3>1 DEF CallOK, Active, InLane, Mine
    <2> QED BY <2>2, <2>3
  <1>4. \A q, r \in Processes : Active(q)' /\ Active(r)' /\ call'[q].n = call'[r].n => q = r
    BY <1>1 DEF CallsOK, Active
  <1>5. /\ pc' \in [Processes -> {"idle", "lane"} \cup InLane \cup Moving]
        /\ call' = [q \in Processes |-> call'[q]] /\ lane' \in Processes \cup {None}
    BY DEF CallsOK
  <1> QED BY <1>1, <1>2, <1>3, <1>4, <1>5 DEF CallsOK

-----------------------------------------------------------------------------
(* Transactions and answers. *)

\* Transactions keep their names or go, nobody is answered, no build leaves its journal
\* but for good.
LEMMA RecordsKept ==
  ASSUME RecordsOK, UNCHANGED <<done, acked, calls>>,
         \A o \in Operations :
           /\ tx'[o].phases # {} => tx'[o].dir
           /\ tx'[o].path = None \/ (tx'[o].path = tx[o].path /\ tx'[o].bytes = tx[o].bytes),
         \A p \in Processes : Active(p)' =>
           /\ Active(p) /\ call'[p].n = call[p].n /\ call'[p].op = call[p].op
           /\ call'[p].kind = call[p].kind
           /\ pc[p] \in Owning /\ call[p].kind = "build" => pc'[p] \in Owning
  PROVE  RecordsOK'
  <1>1. Credited' = Credited BY DEF Credited
  <1>2. AnswersOK' BY <1>1 DEF RecordsOK, AnswersOK
  <1>3. ASSUME NEW o \in Operations PROVE RecordOK(o)'
    <2>1. RecordOK(o) BY DEF RecordsOK
    <2>2. Calls' = Calls BY DEF Calls
    <2>3. CASE tx'[o].path = None BY <2>2, <2>3, Sorts DEF RecordOK
    <2>4. CASE tx'[o].path = tx[o].path /\ tx'[o].bytes = tx[o].bytes
      BY <1>1, <2>1, <2>2, <2>4 DEF RecordOK, Owning
    <2> QED BY <2>3, <2>4
  <1>4. \A o \in Operations : RecordOK(o)' BY <1>3
  <1>5. Operations' = Operations BY DEF Operations, Calls
  <1> QED BY <1>2, <1>4, <1>5 DEF RecordsOK

\* The same with no journal touched.
LEMMA RecordsStay ==
  ASSUME RecordsOK, UNCHANGED <<tx, done, acked, calls>>,
         \A p \in Processes : Active(p)' =>
           /\ Active(p) /\ call'[p].n = call[p].n /\ call'[p].op = call[p].op
           /\ call'[p].kind = call[p].kind
           /\ pc[p] \in Owning /\ call[p].kind = "build" => pc'[p] \in Owning
  PROVE  RecordsOK'
  <1>1. \A o \in Operations : tx'[o].phases # {} => tx'[o].dir
    BY DEF RecordsOK, RecordOK
  <1> QED BY <1>1, RecordsKept

-----------------------------------------------------------------------------
(* Documents and evidence. *)

\* Nothing is claimed that was not.
LEMMA NoNewClaims ==
  ASSUME UNCHANGED <<done, acked>>,
         \A p \in Processes : Active(p)' /\ Claims(p)' =>
           Active(p) /\ Claims(p) /\ call'[p].n = call[p].n
  PROVE  \A n : NotClaimed(n) => NotClaimed(n)'
  BY DEF NotClaimed, Credited

LEMMA NoNewSaves ==
  ASSUME UNCHANGED done,
         \A p \in Processes : pc'[p] \in Settling => pc[p] \in Settling /\ call'[p].n = call[p].n
  PROVE  Saved' \subseteq Saved
  BY DEF Saved

\* A step that writes no file and no evidence, settles for nothing and claims nothing.
LEMMA Quietly ==
  ASSUME PlacesOK, EvidenceOK, UNCHANGED <<file, evidence, done, acked, calls>>,
         NEW p \in Processes, \A q \in Processes \ {p} : pc'[q] = pc[q] /\ call'[q] = call[q],
         pc'[p] # "idle" =>
           /\ Active(p) /\ call'[p].n = call[p].n /\ call'[p].out = call[p].out
           /\ call'[p].kind = call[p].kind
           /\ pc'[p] # "compare" /\ (pc'[p] \in Settling => pc[p] \in Settling)
           /\ pc'[p] \in Late /\ call[p].kind = "build" => pc[p] \in Late
  PROVE  PlacesOK' /\ EvidenceOK'
  <1>1. \A q \in Processes : Active(q)' =>
          Active(q) /\ call'[q].n = call[q].n /\ call'[q].out = call[q].out
    BY DEF Active
  <1>2. PlacesOK' BY <1>1 DEF PlacesOK, Placed, Calls
  <1>3. \A q \in Processes : Active(q)' /\ Claims(q)' =>
          Active(q) /\ Claims(q) /\ call'[q].n = call[q].n
    BY DEF Active, Claims
  <1>4. \A n : NotClaimed(n) => NotClaimed(n)' BY <1>3, NoNewClaims
  <1>5. Saved' \subseteq Saved
    <2>1. \A q \in Processes : pc'[q] \in Settling => pc[q] \in Settling /\ call'[q].n = call[q].n
      BY DEF Settling
    <2> QED BY <2>1, NoNewSaves
  <1>6. \A q \in Processes : pc'[q] = "compare" => pc[q] = "compare" /\ call'[q] = call[q]
    OBVIOUS
  <1> QED BY <1>2, <1>4, <1>5, <1>6 DEF EvidenceOK

-----------------------------------------------------------------------------
(* AllSteps that write no file and no evidence. *)

\* What a step leaves of the journals.
JournalsHeld ==
  \A o \in Operations :
    /\ tx'[o].phases # {} => tx'[o].dir
    /\ tx'[o].path = None \/ (tx'[o].path = tx[o].path /\ tx'[o].bytes = tx[o].bytes)

LEMMA JournalsStay == ASSUME RecordsOK, UNCHANGED tx PROVE JournalsHeld
  BY DEF RecordsOK, RecordOK, JournalsHeld

\* Where a call stands after a step that moves nothing and settles for nothing.
Onwards(p) ==
  /\ pc'[p] # "compare" /\ (pc'[p] \in Settling => pc[p] \in Settling)
  /\ call[p].kind = "build" =>
       /\ pc'[p] \in Late => pc[p] \in Late
       /\ pc[p] \in Owning => pc'[p] \in Owning

LEMMA Quiet ==
  ASSUME RecordsOK, PlacesOK, EvidenceOK, NEW p \in Processes, Active(p), Active(p)',
         Others(p), Same(p), UNCHANGED <<file, evidence, done, acked, calls>>,
         JournalsHeld, Onwards(p)
  PROVE  RecordsOK' /\ PlacesOK' /\ EvidenceOK'
  <1>1. \A q \in Processes : Active(q)' =>
          /\ Active(q) /\ call'[q].n = call[q].n /\ call'[q].op = call[q].op
          /\ call'[q].kind = call[q].kind
          /\ pc[q] \in Owning /\ call[q].kind = "build" => pc'[q] \in Owning
    BY DEF Active, Others, Same, Onwards
  <1>2. RecordsOK' BY <1>1, RecordsKept DEF JournalsHeld
  <1>3. PlacesOK' /\ EvidenceOK'
    <2>1. \A q \in Processes \ {p} : pc'[q] = pc[q] /\ call'[q] = call[q] BY DEF Others
    <2>2. /\ Active(p) /\ call'[p].n = call[p].n /\ call'[p].out = call[p].out
          /\ call'[p].kind = call[p].kind
          /\ pc'[p] # "compare" /\ (pc'[p] \in Settling => pc[p] \in Settling)
          /\ pc'[p] \in Late /\ call[p].kind = "build" => pc[p] \in Late
      BY DEF Same, Onwards
    <2> QED BY <2>1, <2>2, Quietly
  <1> QED BY <1>2, <1>3

\* A process leaves without an answer that is counted.
LEMMA Leaves ==
  ASSUME SaveInv, NEW p \in Processes,
         pc' = [pc EXCEPT ![p] = "idle"], call' = [call EXCEPT ![p] = NoCall],
         lane' = (IF lane = p THEN None ELSE lane), tx' = tx \/ lane = p,
         UNCHANGED <<file, evidence, done, acked, calls>>, JournalsHeld, SharedOK'
  PROVE  SaveInv'
  <1>1. /\ CallsOK' /\ pc'[p] = "idle"
        /\ \A q \in Processes \ {p} : pc'[q] = pc[q] /\ call'[q] = call[q]
    BY ProcessLeaves DEF SaveInv
  <1>2. \A q \in Processes : Active(q)' => pc'[q] = pc[q] /\ call'[q] = call[q] /\ Active(q)
    BY <1>1 DEF Active
  <1>3. RecordsOK' BY <1>2, RecordsKept DEF SaveInv, JournalsHeld
  <1>4. PlacesOK' /\ EvidenceOK' BY <1>1, Quietly DEF SaveInv
  <1> QED BY <1>1, <1>3, <1>4 DEF SaveInv

\* The lane holder goes on to a step that asks for nothing.
LEMMA HolderMoves ==
  ASSUME SaveInv, NEW p \in Processes, lane = p, NEW there \in InLane,
         there \notin {"record-write"} \cup {"recover"} \cup Mending,
         pc' = [pc EXCEPT ![p] = there], UNCHANGED <<call, lane, file, evidence, done, acked, calls>>,
         there \in Journalled => tx'[call[p].op].dir,
         JournalsHeld, SharedOK',
         call[p].kind = "build" =>
           /\ there \in Late => pc[p] \in Late
           /\ pc[p] \in Owning => there \in Owning
  PROVE  SaveInv'
  <1>1. pc[p] \in InLane /\ Active(p) /\ there \notin {"idle", "compare"} \cup Moving
    BY DEF SaveInv, CallsOK, CallOK, Active, InLane, Moving, Settling, Journalled, Landing, Late, Mending
  <1>2. /\ pc'[p] = there /\ Shaped' /\ Others(p) /\ Same(p)
    BY Moves DEF SaveInv, AllSteps
  <1>3. Onwards(p) BY <1>1, <1>2 DEF Onwards, Moving
  <1>4. Active(p)' /\ call'[p] \in Requests BY <1>1, <1>2, RequestOf DEF SaveInv, Active
  <1>5. CallsOK' BY <1>1, <1>2, <1>4, ProcessGoes DEF SaveInv, CallsOK, Moving, Settling
  <1>6. RecordsOK' /\ PlacesOK' /\ EvidenceOK' BY <1>1, <1>2, <1>3, <1>4, Quiet DEF SaveInv
  <1> QED BY <1>5, <1>6 DEF SaveInv

-----------------------------------------------------------------------------
(* The transaction. *)

LEMMA NoTxIsJournal ==
  NoTx \in Transactions /\ NoTx.phases = {} /\ NoTx.path = None
  BY Sorts DEF NoTx, Transactions

\* A transaction's journal is closed.
LEMMA Closed ==
  ASSUME SharedOK, RecordsOK, NEW o \in Operations, tx' = [tx EXCEPT ![o] = NoTx],
         UNCHANGED <<file, evidence, ledger, registry, calls>>
  PROVE  SharedOK' /\ JournalsHeld /\ tx'[o] = NoTx /\ \A r \in Operations \ {o} : tx'[r] = tx[r]
  <1>1. tx'[o] = NoTx /\ \A r \in Operations \ {o} : tx'[r] = tx[r] BY DEF SharedOK
  <1>2. SharedOK' BY NoTxIsJournal DEF SharedOK, Calls, Operations, Paths, Bytes, Glances, Transactions
  <1>3. \A r \in Operations : tx[r].phases # {} => tx[r].dir BY DEF RecordsOK, RecordOK
  <1> QED BY <1>1, <1>2, <1>3, NoTxIsJournal DEF JournalsHeld

LEMMA DiskStays ==
  ASSUME SharedOK, UNCHANGED <<file, evidence, ledger, registry, tx, calls>> PROVE SharedOK'
  BY DEF SharedOK

LEMMA IAcquire == ASSUME SaveInv, NEW p \in Processes, Acquire(p) PROVE SaveInv'
  <1>1. /\ pc[p] = "lane" /\ lane = None /\ lane' = p /\ Active(p)
        /\ UNCHANGED <<file, evidence, ledger, registry, tx, done, acked, calls>>
    BY DEF Acquire, At, disk, rare, history, Active
  <1>2. call[p] \in Requests BY <1>1, RequestOf DEF SaveInv
  <1>3. SharedOK' /\ JournalsHeld BY <1>1, DiskStays, JournalsStay DEF SaveInv
  <1>4. \A q \in Processes : q # p => (lane' = q <=> lane = q) BY <1>1, Sorts
  <1>5. Pending' = Pending BY <1>1 DEF Pending, Operations, Calls
  <1>6. CASE Pending = {}
    <2>1. pc' = [pc EXCEPT ![p] = "check"] /\ call' = call BY <1>6 DEF Acquire, Go
    <2>2. pc'[p] = "check" /\ Shaped' /\ Others(p) /\ Same(p)
      BY <2>1, Moves DEF SaveInv, AllSteps, InLane
    <2>3. Onwards(p) /\ Active(p)'
      BY <1>1, <2>2 DEF Onwards, Active, Settling, Late, Owning, Landing
    <2>4. CallsOK'
      BY <1>1, <1>2, <1>4, <2>1, <2>2, <2>3, ProcessGoes
      DEF SaveInv, InLane, Moving, Settling, Journalled, Landing, Late, Mending
    <2> QED BY <1>1, <1>3, <2>2, <2>3, <2>4, Quiet DEF SaveInv
  <1>7. CASE Pending # {}
    <2>1. /\ pc' = [pc EXCEPT ![p] = "recover"]
          /\ call' = [call EXCEPT ![p] = [call[p] EXCEPT !.todo = Pending]]
      BY <1>7 DEF Acquire, Go, Keep
    <2>2. pc'[p] = "recover" /\ call'[p] = [call[p] EXCEPT !.todo = Pending] /\ Shaped' /\ Others(p)
      BY <2>1, Goes DEF SaveInv, AllSteps, InLane, CallsOK, Shaped, Others
    <2>3. Same(p) /\ call'[p] \in Requests /\ call'[p].todo = Pending
      BY <1>2, <2>2 DEF Same, Requests, Pending
    <2>4. Onwards(p) /\ Active(p)'
      BY <1>1, <2>2 DEF Onwards, Active, Settling, Late, Owning, Landing
    <2>5. CallsOK'
      BY <1>1, <1>4, <1>5, <2>2, <2>3, <2>4, ProcessGoes
      DEF SaveInv, InLane, Moving, Settling, Journalled, Landing, Late, Mending
    <2> QED BY <1>1, <1>3, <2>2, <2>3, <2>4, <2>5, Quiet DEF SaveInv
  <1> QED BY <1>6, <1>7

\* Refusals that leave the disk alone, and deaths.
LEMMA IRefuse ==
  ASSUME SaveInv, NEW p \in Processes, Busy(p) \/ Replay(p) \/ RefuseEntry(p) \/ Crash(p) PROVE SaveInv'
  <1>1. /\ pc' = [pc EXCEPT ![p] = "idle"] /\ call' = [call EXCEPT ![p] = NoCall]
        /\ lane' = (IF lane = p THEN None ELSE lane)
        /\ UNCHANGED <<file, evidence, ledger, registry, tx, done, acked, calls>>
    BY DEF Busy, Replay, RefuseEntry, Crash, Refuse, Go, Keep, Unlock, disk, rare, history
  <1>2. SharedOK' /\ JournalsHeld BY <1>1, DiskStays, JournalsStay DEF SaveInv
  <1> QED BY <1>1, <1>2, Leaves

\* A holder of the lane, and what it holds.
LEMMA Holder ==
  ASSUME SaveInv, NEW p \in Processes, pc[p] \in InLane
  PROVE  /\ lane = p /\ Active(p) /\ call[p] \in Requests /\ Coherent(call[p])
         /\ call[p].op \in Operations /\ call[p].path \in Paths /\ call[p].n \in Calls
         /\ call[p].out \in Outputs /\ call[p].before \in Bytes /\ call[p].n <= calls
         /\ pc[p] \in Journalled => tx[call[p].op].dir
  <1>1. lane = p /\ (pc[p] \in Journalled => tx[call[p].op].dir)
    BY DEF SaveInv, CallsOK, CallOK, Mine
  <1>2. Active(p) BY DEF Active, InLane, Journalled, Landing, Late, Mending
  <1> QED BY <1>1, <1>2, RequestOf DEF SaveInv, Requests

\* AllSteps of the transaction that only look.
LEMMA ILook ==
  ASSUME SaveInv, NEW p \in Processes, RefuseStaged(p) \/ Gate(p) \/ Hold(p) \/ FailStep(p)
  PROVE  SaveInv'
  <1>1. PICK there \in {"abort", "link", "hold", "replace"} :
          /\ pc' = [pc EXCEPT ![p] = there] /\ (pc[p] \in Landing \/ there = "abort")
          /\ pc[p] \in InLane \/ lane = p
          /\ UNCHANGED <<file, evidence, ledger, registry, tx, lane, call, done, acked, calls>>
    <2>1. CASE RefuseStaged(p) \/ FailStep(p)
      BY <2>1 DEF RefuseStaged, FailStep, FallibleEarly, FallibleLate, At, Go, disk, rare, history,
         InLane, Journalled, Landing, Late
    <2>2. CASE Gate(p) BY <2>2 DEF Gate, At, Go, disk, rare, history, InLane, Journalled, Landing
    <2>3. CASE Hold(p) BY <2>3 DEF Hold, At, Go, disk, rare, history, InLane, Journalled, Landing
    <2> QED BY <2>1, <2>2, <2>3
  <1>2. pc[p] \in InLane /\ lane = p /\ Active(p)
    BY <1>1, Holder DEF SaveInv, CallsOK, CallOK
  <1>3. there \in InLane /\ there \notin {"record-write", "recover"} \cup Mending \cup Late
        /\ there \in Owning
    BY DEF InLane, Journalled, Landing, Mending, Owning, Late
  <1>4. there \in Journalled => tx'[call[p].op].dir
    BY <1>1, <1>2, Holder DEF Journalled, Landing, Late
  <1>5. SharedOK' /\ JournalsHeld BY <1>1, DiskStays, JournalsStay DEF SaveInv
  <1> QED BY <1>1, <1>2, <1>3, <1>4, <1>5, HolderMoves

\* AllSteps of the transaction that write a record, or the ledger.
LEMMA ILog ==
  ASSUME SaveInv, NEW p \in Processes,
         LogPublished(p) \/ Commit(p) \/ WriteLedger(p) \/ Complete(p)
  PROVE  SaveInv'
  <1>1. PICK there \in {"commit", "ledger", "complete", "remove"} :
          /\ pc' = [pc EXCEPT ![p] = there] /\ pc[p] \in Late
          /\ UNCHANGED <<file, evidence, registry, lane, call, done, acked, calls>>
          /\ \/ /\ tx' = tx
                /\ ledger' = [ledger EXCEPT ![call[p].path] = @ \cup {call[p].op}]
             \/ /\ ledger' = ledger
                /\ \E phase \in Phases :
                     tx' = [tx EXCEPT ![call[p].op] =
                              [tx[call[p].op] EXCEPT !.phases = @ \cup {phase}]]
    BY DEF LogPublished, Commit, WriteLedger, Complete, At, Go, Log, Journal, Mine, Late, Phases,
           rare, history
  <1>2. pc[p] \in InLane /\ pc[p] \in Journalled BY <1>1 DEF InLane, Journalled
  <1>3. /\ lane = p /\ tx[call[p].op].dir /\ call[p].op \in Operations /\ call[p].path \in Paths
    BY <1>2, Holder
  <1>4. SharedOK' /\ JournalsHeld /\ tx'[call[p].op].dir
    <2>1. CASE tx' = tx /\ ledger' = [ledger EXCEPT ![call[p].path] = @ \cup {call[p].op}]
      <3>1. ledger' \in [Paths -> SUBSET Operations] BY <1>3, <2>1 DEF SaveInv, SharedOK
      <3> QED BY <1>1, <1>3, <2>1, <3>1, JournalsStay DEF SaveInv, SharedOK
    <2>2. CASE /\ ledger' = ledger
               /\ \E phase \in Phases :
                    tx' = [tx EXCEPT ![call[p].op] =
                             [tx[call[p].op] EXCEPT !.phases = @ \cup {phase}]]
      <3>1. PICK phase \in Phases :
              tx' = [tx EXCEPT ![call[p].op] = [tx[call[p].op] EXCEPT !.phases = @ \cup {phase}]]
        BY <2>2
      <3>2. tx[call[p].op] \in Transactions BY <1>3 DEF SaveInv, SharedOK
      <3>3. [tx[call[p].op] EXCEPT !.phases = @ \cup {phase}] \in Transactions
        BY <3>2 DEF Transactions
      <3>4. /\ tx'[call[p].op] = [tx[call[p].op] EXCEPT !.phases = @ \cup {phase}]
            /\ \A o \in Operations \ {call[p].op} : tx'[o] = tx[o]
            /\ tx' \in [Operations -> Transactions]
        BY <1>3, <3>1, <3>3 DEF SaveInv, SharedOK
      <3>5. /\ tx'[call[p].op].dir /\ tx'[call[p].op].path = tx[call[p].op].path
            /\ tx'[call[p].op].bytes = tx[call[p].op].bytes
        BY <1>3, <3>2, <3>4 DEF Transactions
      <3>6. \A o \in Operations : tx[o].phases # {} => tx[o].dir
        BY DEF SaveInv, RecordsOK, RecordOK
      <3>7. JournalsHeld BY <3>4, <3>5, <3>6 DEF JournalsHeld
      <3> QED BY <1>1, <2>2, <3>4, <3>5, <3>7 DEF SaveInv, SharedOK
    <2> QED BY <1>1, <2>1, <2>2
  <1>5. there \in InLane /\ there \notin {"record-write", "recover"} \cup Mending
        /\ there \in Owning
    BY DEF InLane, Journalled, Mending, Owning, Late
  <1> QED BY <1>1, <1>3, <1>4, <1>5, HolderMoves

LEMMA IBegin == ASSUME SaveInv, NEW p \in Processes, Begin(p) PROVE SaveInv'
  <1> DEFINE o == call[p].op
             t == [NoTx EXCEPT !.dir = TRUE, !.phases = {"intent"}]
  <1>1. /\ pc[p] = "check" /\ pc' = [pc EXCEPT ![p] = "run"] /\ tx' = [tx EXCEPT ![o] = t]
        /\ UNCHANGED <<file, evidence, ledger, registry, lane, call, done, acked, calls>>
    BY DEF Begin, At, Go, Journal, rare, history
  <1>2. pc[p] \in InLane BY <1>1 DEF InLane
  <1>3. lane = p /\ o \in Operations BY <1>2, Holder
  <1>4. t \in Transactions /\ t.dir /\ t.path = None BY Sorts DEF NoTx, Transactions, Phases
  <1>5. tx'[o] = t /\ (\A r \in Operations \ {o} : tx'[r] = tx[r]) /\ tx' \in [Operations -> Transactions]
    <2> HIDE DEF o, t
    <2> QED BY <1>1, <1>3, <1>4 DEF SaveInv, SharedOK
  <1>6. JournalsHeld
    <2>1. \A r \in Operations : tx[r].phases # {} => tx[r].dir BY DEF SaveInv, RecordsOK, RecordOK
    <2> HIDE DEF o, t
    <2> QED BY <1>4, <1>5, <2>1 DEF JournalsHeld
  <1>7. SharedOK'
    <2> HIDE DEF o, t
    <2> QED BY <1>1, <1>5 DEF SaveInv, SharedOK
  <1>8. tx'[call[p].op].dir BY <1>4, <1>5
  <1>9. "run" \in InLane /\ "run" \notin {"record-write", "recover"} \cup Mending \cup Late
        /\ pc[p] \notin Owning
    BY <1>1 DEF InLane, Journalled, Mending, Owning, Late, Landing
  <1> HIDE DEF o, t
  <1> QED BY <1>1, <1>3, <1>6, <1>7, <1>8, <1>9, HolderMoves

\* A step of the lane holder that changes its call.
LEMMA HolderChanges ==
  ASSUME SaveInv, NEW p \in Processes, pc[p] \in InLane, NEW there \in InLane,
         pc' = [pc EXCEPT ![p] = there], call' = [call EXCEPT ![p] = call'[p]],
         UNCHANGED <<lane, file, evidence, tx, done, acked, calls>>,
         call'[p] \in Requests, Same(p), SharedOK',
         there = "record-write" => call'[p].seen \in Glances,
         there \in Journalled => pc[p] \in Journalled,
         there \in {"recover"} \cup Mending => call'[p].todo \subseteq Pending,
         there \in Mending => call'[p].mend \in call'[p].todo,
         call[p].kind = "build" =>
           /\ there \in Late => pc[p] \in Late
           /\ pc[p] \in Owning => there \in Owning
  PROVE  SaveInv'
  <1>1. lane = p /\ Active(p) /\ (pc[p] \in Journalled => tx[call[p].op].dir) BY Holder
  <1>2. there \notin {"idle", "compare", "save-record-write"} \cup Moving
    BY DEF InLane, Moving, Settling, Journalled, Landing, Late, Mending
  <1>3. /\ pc'[p] = there /\ Shaped' /\ Others(p)
    BY Goes DEF SaveInv, AllSteps, CallsOK, Shaped, Others
  <1>4. Onwards(p) BY <1>2, <1>3 DEF Onwards, Moving
  <1>5. Active(p)' BY <1>2, <1>3 DEF Active
  <1>6. JournalsHeld BY JournalsStay DEF SaveInv
  <1>7. Pending' = Pending BY DEF Pending, Operations, Calls
  <1>8. CallsOK'
    BY <1>1, <1>2, <1>3, <1>5, <1>7, ProcessGoes DEF SaveInv, CallsOK, Moving, Settling
  <1>9. RecordsOK' /\ PlacesOK' /\ EvidenceOK' BY <1>1, <1>3, <1>4, <1>5, <1>6, Quiet DEF SaveInv
  <1> QED BY <1>8, <1>9 DEF SaveInv

LEMMA IRun == ASSUME SaveInv, NEW p \in Processes, Run(p) PROVE SaveInv'
  <1>1. /\ pc[p] = "run" /\ pc' = [pc EXCEPT ![p] = "staged"]
        /\ call' = [call EXCEPT ![p] = [call[p] EXCEPT !.before = file[call[p].path]]]
        /\ UNCHANGED <<file, evidence, ledger, registry, tx, lane, done, acked, calls>>
    BY DEF Run, At, Go, Keep, disk, rare
  <1>2. pc[p] \in InLane /\ pc[p] \in Journalled /\ pc[p] \notin Owning
    BY <1>1 DEF InLane, Journalled, Owning, Landing, Late
  <1>3. call[p] \in Requests /\ call[p].path \in Paths BY <1>2, Holder
  <1>4. call'[p] = [call[p] EXCEPT !.before = file[call[p].path]]
    BY <1>1 DEF SaveInv, CallsOK
  <1>5. file[call[p].path] \in Bytes BY <1>3 DEF SaveInv, SharedOK
  <1>6. call'[p] \in Requests /\ Same(p) BY <1>3, <1>4, <1>5 DEF Requests, Same
  <1>7. call' = [call EXCEPT ![p] = call'[p]] BY <1>1, <1>4 
  <1>8. SharedOK' BY <1>1, DiskStays DEF SaveInv
  <1>9. "staged" \in InLane /\ "staged" \notin Mending \cup Late \cup {"record-write", "recover"}
    BY DEF InLane, Journalled, Mending, Late
  <1> QED BY <1>1, <1>2, <1>6, <1>7, <1>8, <1>9, HolderChanges

\* The registry is read while the lane is held, or by a save that is settled for.
LEMMA LoadedCall ==
  ASSUME SaveInv, NEW p \in Processes, Load(p)
  PROVE  /\ call'[p] \in Requests /\ Same(p) /\ call'[p].seen \in Glances
         /\ call' = [call EXCEPT ![p] = call'[p]] /\ Active(p) /\ SharedOK'
         /\ UNCHANGED <<file, evidence, ledger, registry, tx, lane, done, acked, calls>>
  <1>1. /\ pc[p] \in {"record", "save-record"}
        /\ call' = [call EXCEPT ![p] = [call[p] EXCEPT !.seen = registry]]
        /\ UNCHANGED <<file, evidence, ledger, registry, tx, lane, done, acked, calls>>
    BY DEF Load, At, Keep, disk, rare, history
  <1>2. Active(p) BY <1>1 DEF Active
  <1>3. call[p] \in Requests BY <1>2, RequestOf DEF SaveInv
  <1>4. call'[p] = [call[p] EXCEPT !.seen = registry] BY <1>1 DEF SaveInv, CallsOK
  <1>5. registry \in Glances BY DEF SaveInv, SharedOK
  <1>6. call'[p] \in Requests /\ Same(p) /\ call'[p].seen \in Glances
    BY <1>3, <1>4, <1>5 DEF Requests, Same
  <1>7. call' = [call EXCEPT ![p] = call'[p]] BY <1>1, <1>4
  <1> QED BY <1>1, <1>2, <1>6, <1>7, DiskStays DEF SaveInv

LEMMA ILoad == ASSUME SaveInv, NEW p \in Processes, Load(p) PROVE SaveInv'
  <1>1. CASE pc[p] = "record"
    <2>1. pc' = [pc EXCEPT ![p] = "record-write"] BY <1>1 DEF Load, At, Go
    <2>2. pc[p] \in InLane /\ pc[p] \in Journalled /\ pc[p] \in Late
      BY <1>1 DEF InLane, Journalled, Late
    <2>3. "record-write" \in InLane /\ "record-write" \notin Mending \cup {"recover"}
          /\ "record-write" \in Owning
      BY DEF InLane, Journalled, Mending, Late, Owning
    <2> QED BY <2>1, <2>2, <2>3, LoadedCall, HolderChanges
  <1>2. CASE pc[p] = "save-record"
    <2>1. pc' = [pc EXCEPT ![p] = "save-record-write"] BY <1>2 DEF Load, At, Go
    <2>2. pc'[p] = "save-record-write" /\ Shaped' /\ Others(p)
      BY <2>1, LoadedCall, Goes DEF SaveInv, AllSteps, Moving, Settling, CallsOK, Shaped, Others
    <2>3. Onwards(p) /\ Active(p)' /\ call[p].kind = "save"
      BY <1>2, <2>2 DEF Onwards, Active, Settling, SaveInv, CallsOK, CallOK, Moving
    <2>4. JournalsHeld BY LoadedCall, JournalsStay DEF SaveInv
    <2>5. lane # p BY <1>2
      DEF SaveInv, CallsOK, CallOK, InLane, Journalled, Landing, Late, Mending
    <2>6. "save-record-write" \notin InLane
      BY DEF InLane, Journalled, Landing, Late, Mending
    <2>7. CallsOK'
      BY <2>2, <2>3, <2>5, <2>6, LoadedCall, ProcessGoes DEF SaveInv, CallsOK, InLane
    <2> QED BY <2>2, <2>3, <2>4, <2>7, LoadedCall, Quiet DEF SaveInv
  <1> QED BY <1>1, <1>2 DEF Load, At

LEMMA IRecordSuccess == ASSUME SaveInv, NEW p \in Processes, RecordSuccess(p) PROVE SaveInv'
  <1>1. /\ pc[p] = "record-write" /\ pc' = [pc EXCEPT ![p] = "published"]
        /\ call' = [call EXCEPT ![p] = [call[p] EXCEPT !.seen = NoCall.seen]]
        /\ registry' = [call[p].seen EXCEPT ![call[p].path] = call[p].n]
        /\ UNCHANGED <<file, evidence, ledger, tx, lane, done, acked, calls>>
    BY DEF RecordSuccess, At, Go, Keep, rare, history
  <1>2. pc[p] \in InLane /\ pc[p] \in Journalled /\ pc[p] \in Late
    BY <1>1 DEF InLane, Journalled, Late
  <1>3. call[p] \in Requests /\ call[p].path \in Paths /\ call[p].n \in Bytes BY <1>2, Holder, Sorts
  <1>4. call[p].seen \in Glances BY <1>1 DEF SaveInv, CallsOK, CallOK
  <1>5. SharedOK' 
    <2>1. registry' \in Glances BY <1>1, <1>3, <1>4 DEF Glances
    <2> QED BY <1>1, <2>1 DEF SaveInv, SharedOK
  <1>6. call'[p] = [call[p] EXCEPT !.seen = NoCall.seen] BY <1>1 DEF SaveInv, CallsOK
  <1>7. call'[p] \in Requests /\ Same(p) BY <1>3, <1>6 DEF Requests, Same
  <1>8. call' = [call EXCEPT ![p] = call'[p]] BY <1>1, <1>6
  <1>9. "published" \in InLane /\ "published" \notin Mending \cup {"record-write", "recover"}
        /\ "published" \in Owning
    BY DEF InLane, Journalled, Mending, Late, Owning
  <1> QED BY <1>1, <1>2, <1>5, <1>7, <1>8, <1>9, HolderChanges

\* The transaction ends, or is given up.
LEMMA IAbort == ASSUME SaveInv, NEW p \in Processes, Abort(p) PROVE SaveInv'
  <1>1. /\ pc[p] = "abort" /\ tx' = [tx EXCEPT ![call[p].op] = NoTx]
        /\ lane' = (IF lane = p THEN None ELSE lane)
        /\ UNCHANGED <<file, evidence, ledger, registry, done, acked, calls>>
    BY DEF Abort, At, Journal, Refuse, Unlock, rare
  <1>2. pc[p] \in InLane BY <1>1 DEF InLane
  <1>3. lane = p /\ Active(p) /\ call[p].op \in Operations /\ call[p] \in Requests BY <1>2, Holder
  <1>4. SharedOK' /\ JournalsHeld BY <1>1, <1>3, Closed DEF SaveInv
  <1>5. CASE call[p].kind = "build"
    <2>1. pc' = [pc EXCEPT ![p] = "idle"] /\ call' = [call EXCEPT ![p] = NoCall]
      BY <1>5 DEF Abort, Refuse, Go, Keep
    <2> QED BY <1>1, <1>3, <1>4, <2>1, Leaves
  <1>6. CASE call[p].kind # "build"
    <2>1. pc' = [pc EXCEPT ![p] = "discard"] /\ call' = call BY <1>6 DEF Abort, Go
    <2>2. pc'[p] = "discard" /\ Shaped' /\ Others(p) /\ Same(p)
      BY <2>1, Moves DEF SaveInv, AllSteps, Moving
    <2>3. Onwards(p) /\ Active(p)' /\ call[p].kind = "save"
      BY <1>3, <1>6, <2>2 DEF Onwards, Active, Settling, Requests
    <2>4. "discard" \notin InLane \cup {"record-write", "save-record-write"}
      BY DEF InLane, Journalled, Landing, Late, Mending
    <2>5. \A q \in Processes : q # p => (lane' = q <=> lane = q) BY <1>1, <1>3, Sorts
    <2>6. CallsOK'
      BY <1>1, <1>3, <2>1, <2>2, <2>3, <2>4, <2>5, Sorts, ProcessGoes DEF SaveInv, InLane
    <2> QED BY <1>1, <1>3, <1>4, <2>2, <2>3, <2>6, Quiet DEF SaveInv
  <1> QED BY <1>5, <1>6

\* The journal of a build names the output, that of a save the package beside it.
LEMMA IPrepare == ASSUME SaveInv, NEW p \in Processes, Prepare(p) PROVE SaveInv'
  <1> DEFINE o == call[p].op
             t == [dir |-> TRUE, phases |-> tx[o].phases \cup {"prepared"}, path |-> call[p].path,
                   bytes |-> call[p].n, before |-> call[p].before]
  <1>1. /\ pc[p] = "prepare" /\ pc' = [pc EXCEPT ![p] = "gate"] /\ tx' = [tx EXCEPT ![o] = t]
        /\ UNCHANGED <<file, evidence, ledger, registry, lane, call, done, acked, calls>>
    BY DEF Prepare, At, Go, Journal, Mine, rare, history
  <1>2. pc[p] \in InLane BY <1>1 DEF InLane, Journalled
  <1>3. /\ lane = p /\ Active(p) /\ call[p] \in Requests /\ Coherent(call[p])
        /\ o \in Operations /\ call[p].path \in Paths /\ call[p].n \in Calls
        /\ call[p].before \in Bytes /\ call[p].out \in Outputs /\ call[p].n <= calls
    BY <1>2, Holder
  <1>4. tx[o] \in Transactions BY <1>3 DEF SaveInv, SharedOK
  <1>5. t \in Transactions BY <1>3, <1>4 DEF Transactions, Phases
  <1>6. t.dir /\ t.path = call[p].path /\ t.bytes = call[p].n OBVIOUS
  <1>7. /\ tx'[o] = t /\ (\A r \in Operations \ {o} : tx'[r] = tx[r])
        /\ tx' \in [Operations -> Transactions]
    <2> HIDE DEF o, t
    <2> QED BY <1>1, <1>3, <1>5 DEF SaveInv, SharedOK
  <1>8. tx'[o].dir /\ tx'[o].path = call[p].path /\ tx'[o].bytes = call[p].n BY <1>6, <1>7
  <1> HIDE DEF o, t
  <1>9. pc'[p] = "gate" /\ Shaped' /\ Others(p) /\ Same(p)
    BY <1>1, Moves DEF SaveInv, AllSteps, InLane, Journalled, Landing
  <1>10. Onwards(p) /\ Active(p)' /\ pc[p] \notin Owning
    BY <1>1, <1>9 DEF Onwards, Active, Settling, Late, Owning, Landing
  <1>11. SharedOK' BY <1>1, <1>7 DEF SaveInv, SharedOK
  <1>12. "gate" \in InLane
         /\ "gate" \notin {"record-write", "save-record-write", "recover"} \cup Mending \cup Moving
    BY DEF InLane, Journalled, Landing, Mending, Moving, Settling
  <1>13. CallsOK'
    BY <1>1, <1>3, <1>8, <1>9, <1>10, <1>12, ProcessGoes DEF SaveInv, CallsOK, o
  <1>14. PlacesOK' /\ EvidenceOK'
    BY <1>1, <1>3, <1>9, <1>10, Quietly DEF SaveInv, Onwards, Others, Same
  <1>15. RecordsOK'
    <2>1. Credited' = Credited BY <1>1 DEF Credited
    <2>2. \A q \in Processes : Active(q)' => Active(q) /\ call'[q] = call[q]
      BY <1>1, <1>9 DEF Active, Others
    <2>3. AnswersOK' BY <1>1, <2>1, <2>2 DEF SaveInv, RecordsOK, AnswersOK
    <2>4. ASSUME NEW r \in Operations, r = o PROVE RecordOK(r)'
      <3>1. call[p].path \in Calls => call[p].n = call[p].path
        BY <1>3, Sorts DEF Coherent
      <3>2. CASE call[p].path \in Outputs
        <4>1. call[p].n \in 1..calls /\ call[p].n \notin Credited
          BY <1>3, Sorts DEF SaveInv, RecordsOK, AnswersOK, SharedOK
        <4>2. call[p].kind = "build"
          BY <1>3, <3>2, Sorts DEF Coherent
        <4>3. \A q \in Processes : Active(q)' /\ call'[q].n = call[p].n => q = p
          BY <1>3, <2>2 DEF SaveInv, CallsOK
        <4>4. pc'[p] \in Landing BY <1>9 DEF Landing
        <4> QED BY <1>1, <1>8, <2>1, <2>2, <3>1, <4>1, <4>2, <4>3, <4>4, <2>4 DEF RecordOK, o
      <3>3. CASE call[p].path \notin Outputs BY <1>8, <2>4, <3>1, <3>3 DEF RecordOK, Calls
      <3> QED BY <3>2, <3>3
    <2>5. ASSUME NEW r \in Operations \ {o} PROVE RecordOK(r)'
      <3>1. RecordOK(r) /\ tx'[r] = tx[r] BY <1>7 DEF SaveInv, RecordsOK
      <3>2. \A q \in Processes : Active(q)' /\ pc[q] \in Owning => pc'[q] \in Owning
        BY <1>9, <1>10 DEF Others
      <3> QED BY <1>1, <2>1, <2>2, <3>1, <3>2 DEF RecordOK, Owning
    <2>6. Operations' = Operations BY DEF Operations, Calls
    <2> QED BY <2>3, <2>4, <2>5, <2>6 DEF RecordsOK
  <1> QED BY <1>11, <1>13, <1>14, <1>15 DEF SaveInv

\* A call begins under a number nothing knows yet.
LEMMA ICall ==
  ASSUME SaveInv, NEW p \in Processes, NEW kind \in Kinds, NEW o \in Ops, NEW out \in Outputs,
         Call(p, kind, o, out)
  PROVE  SaveInv'
  <1> DEFINE n == calls + 1
             c == [NoCall EXCEPT !.kind = kind, !.out = out, !.n = n,
                                 !.op = IF kind = "save" THEN n ELSE o,
                                 !.path = IF kind = "save" THEN n ELSE out]
  <1>1. /\ pc[p] = "idle" /\ calls < MaxCalls /\ calls' = n
        /\ pc' = [pc EXCEPT ![p] = "lane"] /\ call' = [call EXCEPT ![p] = c]
        /\ UNCHANGED <<file, evidence, ledger, registry, tx, lane, done, acked>>
    BY DEF Call, At, Go, Keep, disk, history
  <1>2. n \in Calls /\ calls \in Nat /\ kind \in {"build", "save"}
    BY <1>1, Sorts, PublishAssumption DEF SaveInv, SharedOK
  <1>3. /\ c \in Requests /\ Coherent(c) /\ c.n = n /\ c.out = out /\ c.kind = kind
    BY <1>2, Sorts DEF NoCall, Requests, Coherent
  <1> HIDE DEF n, c
  <1>4. /\ pc'[p] = "lane" /\ call'[p] = c /\ Shaped' /\ Others(p)
    BY <1>1, Goes DEF SaveInv, AllSteps, CallsOK, Shaped, Others
  <1>5. \A m : m <= calls => m # n BY <1>2 DEF n
  <1>6. \A q \in Processes \ {p} : Active(q) => call[q].n # n
    BY <1>5, RequestOf DEF SaveInv
  <1>7. CallsOK'
    <2>1. CallOK(p)'
      <3>1. lane # p BY <1>1
        DEF SaveInv, CallsOK, CallOK, InLane, Journalled, Landing, Late, Mending
      <3>2. c.n <= calls' BY <1>1, <1>2, <1>3, Sorts
      <3> QED BY <1>1, <1>3, <1>4, <3>1, <3>2
        DEF CallOK, InLane, Journalled, Landing, Late, Mending, Moving, Settling, SaveInv, SharedOK
    <2>2. ASSUME NEW q \in Processes \ {p} PROVE CallOK(q)'
      <3>1. CallOK(q) /\ pc'[q] = pc[q] /\ call'[q] = call[q]
        BY <1>4 DEF SaveInv, CallsOK, Others
      <3>2. Active(q) => call[q].n <= calls'
        <4>1. Active(q) => call[q].n \in Nat /\ call[q].n <= calls
          BY RequestOf, Sorts DEF SaveInv
        <4> QED BY <1>1, <1>2, <4>1 DEF n
      <3>3. Pending' = Pending BY <1>1 DEF Pending, Operations, Calls
      <3> QED BY <1>1, <3>1, <3>2, <3>3 DEF CallOK, Active, Mine
    <2>3. \A q, r \in Processes : Active(q)' /\ Active(r)' /\ call'[q].n = call'[r].n => q = r
      BY <1>3, <1>4, <1>6 DEF SaveInv, CallsOK, Active, Others
    <2> QED BY <1>1, <1>4, <2>1, <2>2, <2>3 DEF SaveInv, CallsOK, Shaped, AllSteps
  <1>8. SharedOK' BY <1>1, <1>2, Sorts DEF SaveInv, SharedOK, n
  <1>9. Credited' = Credited /\ Saved' = Saved
    <2>1. Credited' = Credited BY <1>1 DEF Credited
    <2>2. \A q \in Processes : (pc'[q] \in Settling <=> pc[q] \in Settling)
                               /\ (pc[q] \in Settling => call'[q].n = call[q].n)
      BY <1>1, <1>4 DEF Settling, Others
    <2> QED BY <1>1, <2>1, <2>2 DEF Saved
  <1>10. RecordsOK'
    <2>1. n \notin Credited
      <3>1. n \notin 1..calls BY <1>2 DEF n
      <3> QED BY <3>1 DEF SaveInv, RecordsOK, AnswersOK
    <2>2. AnswersOK'
      <3>1. 1..calls \subseteq 1..calls' BY <1>1, <1>2 DEF n
      <3> QED BY <1>3, <1>4, <1>9, <2>1, <3>1 DEF SaveInv, RecordsOK, AnswersOK, Active, Others
    <2>3. ASSUME NEW r \in Operations PROVE RecordOK(r)'
      <3>1. RecordOK(r) BY DEF SaveInv, RecordsOK
      <3>2. tx[r].path \in Outputs => tx[r].bytes \in 1..calls' /\ tx[r].bytes # n
        BY <1>1, <1>2, <3>1 DEF RecordOK, n
      <3> QED BY <1>1, <1>3, <1>4, <1>9, <3>1, <3>2 DEF RecordOK, Active, Others
    <2> QED BY <2>2, <2>3 DEF RecordsOK
  <1>11. PlacesOK'
    <2>1. \A m \in Calls : m <= calls => m <= calls' BY <1>1, <1>2, Sorts DEF n
    <2>2. Placed(n, out)
      BY <1>2, <1>5 DEF SaveInv, PlacesOK, Placed
    <2> QED BY <1>1, <1>3, <1>4, <2>1, <2>2 DEF SaveInv, PlacesOK, Placed, Active, Others
  <1>12. EvidenceOK'
    <2>1. \A q \in Processes : Active(q)' /\ Claims(q)' =>
            Active(q) /\ Claims(q) /\ call'[q].n = call[q].n
      BY <1>4 DEF Active, Claims, Others, Settling, Late
    <2>2. \A m : NotClaimed(m) => NotClaimed(m)' BY <1>1, <2>1, NoNewClaims
    <2>3. \A q \in Processes : pc'[q] = "compare" => pc[q] = "compare" /\ call'[q] = call[q]
      BY <1>4 DEF Others
    <2> QED BY <1>1, <1>9, <2>2, <2>3 DEF SaveInv, EvidenceOK
  <1> QED BY <1>7, <1>8, <1>10, <1>11, <1>12 DEF SaveInv

-----------------------------------------------------------------------------
(* AllSteps that write files or evidence. *)

\* Whose bytes these are, if a call's that still lives, puts them at t.
Fits(m, t) ==
  m \in Calls =>
    m <= calls /\ \A q \in Processes : Active(q) /\ call[q].n = m => call[q].out = t

\* Nobody but known calls is at work.
Known ==
  \A q \in Processes : Active(q)' =>
    Active(q) /\ call'[q].n = call[q].n /\ call'[q].out = call[q].out

LEMMA PlacesKept ==
  ASSUME PlacesOK, UNCHANGED calls, Known,
         \A t \in Outputs : file'[t] = file[t] \/ Fits(file'[t], t),
         \A t \in Outputs, s \in Sidecars :
           evidence'[t][s] = evidence[t][s] \/ Fits(evidence'[t][s], t),
         \A n \in Calls :
           file'[n] \in {None, n} /\ \A s \in Sidecars : evidence'[n][s] \in {None, n},
         \A q \in Processes : Active(q) => call[q].n \in Calls
  PROVE  PlacesOK'
  <1>1. \A t \in Outputs : file'[t] \in Calls => file'[t] <= calls' BY DEF PlacesOK, Fits
  <1>2. \A t \in Outputs, s \in Sidecars : evidence'[t][s] \in Calls => evidence'[t][s] <= calls'
    BY DEF PlacesOK, Fits
  <1>3. ASSUME NEW q \in Processes, Active(q)' PROVE Placed(call[q].n, call[q].out)'
    <2>1. /\ Active(q) /\ call[q].n \in Calls /\ Placed(call[q].n, call[q].out)
          /\ call'[q].n = call[q].n /\ call'[q].out = call[q].out
      BY <1>3 DEF Known, PlacesOK
    <2>2. \A t \in Outputs : file'[t] = call[q].n => t = call[q].out
      BY <2>1 DEF Placed, Fits
    <2>3. \A t \in Outputs, s \in Sidecars : evidence'[t][s] = call[q].n => t = call[q].out
      BY <2>1 DEF Placed, Fits
    <2> QED BY <2>1, <2>2, <2>3 DEF Placed
  <1>4. Calls' = Calls BY DEF Calls
  <1> QED BY <1>1, <1>2, <1>3, <1>4 DEF PlacesOK

\* Nobody claims anew evidence that lies beside a settled document.
ClaimsStay ==
  \A m, t : t \in Outputs /\ file'[t] \in Saved' /\ (\E s \in Sidecars : evidence[t][s] = m)
              /\ NotClaimed(m) => NotClaimed(m)'

LEMMA EvidenceKept ==
  ASSUME EvidenceOK, Saved' \subseteq Saved, ClaimsStay,
         \A t \in Outputs : file'[t] = file[t] \/ file'[t] \notin Saved',
         \A t \in Outputs, s \in Sidecars :
           evidence'[t][s] = evidence[t][s] \/ NotClaimed(evidence[t][s])',
         \A q \in Processes :
           pc'[q] = "compare" /\ file'[call'[q].out] = call'[q].n => call'[q].before = call'[q].n
  PROVE  EvidenceOK'
  <1>1. ASSUME NEW t \in Outputs, NEW s \in Sidecars, file'[t] \in Saved'
        PROVE  evidence'[t][s] = file'[t] \/ NotClaimed(evidence[t][s])'
    <2>1. file'[t] = file[t] /\ file[t] \in Saved BY <1>1
    <2>2. evidence[t][s] = file[t] \/ NotClaimed(evidence[t][s]) BY <2>1 DEF EvidenceOK
    <2>3. CASE evidence'[t][s] = evidence[t][s]
      <3>1. CASE evidence[t][s] = file[t] BY <2>1, <2>3, <3>1
      <3>2. CASE NotClaimed(evidence[t][s])
        <4>1. PICK m : m = evidence[t][s] OBVIOUS
        <4>2. NotClaimed(m)' BY <1>1, <3>2, <4>1 DEF ClaimsStay
        <4>3. m = evidence'[t][s] BY <2>3, <4>1
        <4> QED BY <4>2, <4>3 DEF NotClaimed
      <3> QED BY <2>2, <3>1, <3>2
    <2> QED BY <2>3
  <1> QED BY <1>1 DEF EvidenceOK

LEMMA ClaimsHeld ==
  ASSUME PlacesOK, Known,
         \A m \in Credited' :
           m \in Credited \/ \E q \in Processes : Active(q) /\ Claims(q) /\ call[q].n = m,
         \A q \in Processes : Active(q)' /\ Claims(q)' =>
           Claims(q) \/ file'[call[q].out] \notin Saved'
  PROVE  ClaimsStay
  <1> SUFFICES ASSUME NEW m, NEW t \in Outputs, file'[t] \in Saved',
                      NEW s \in Sidecars, evidence[t][s] = m, NotClaimed(m)
               PROVE  NotClaimed(m)'
    BY DEF ClaimsStay
  <1>1. m \notin Credited' BY DEF NotClaimed
  <1>2. ASSUME NEW q \in Processes, Active(q)', call'[q].n = m, Claims(q)' PROVE FALSE
    <2>1. Active(q) /\ call[q].n = m BY <1>2 DEF Known
    <2>2. t = call[q].out BY <2>1 DEF PlacesOK, Placed
    <2> QED BY <1>2, <2>1, <2>2 DEF NotClaimed
  <1> QED BY <1>1, <1>2 DEF NotClaimed

\* The lane holder goes on; its journal and its call are in order.
LEMMA HolderGoes ==
  ASSUME SaveInv, NEW p \in Processes, pc[p] \in InLane, NEW there \in InLane,
         pc' = [pc EXCEPT ![p] = there], call' = [call EXCEPT ![p] = call'[p]],
         UNCHANGED <<lane, done, acked, calls>>, JournalsHeld,
         call'[p] \in Requests, Same(p),
         there = "record-write" => call'[p].seen \in Glances,
         there \in Journalled => tx'[call[p].op].dir,
         there \in {"recover"} \cup Mending => call'[p].todo \subseteq Pending',
         there \in Mending => call'[p].mend \in call'[p].todo,
         call[p].kind = "build" /\ pc[p] \in Owning => there \in Owning
  PROVE  /\ CallsOK' /\ RecordsOK' /\ pc'[p] = there /\ Others(p)
         /\ Active(p) /\ Active(p)' /\ Known
  <1>1. lane = p /\ Active(p) BY Holder
  <1>2. there \notin {"idle", "compare", "save-record-write"} \cup Moving
    BY DEF InLane, Moving, Settling, Journalled, Landing, Late, Mending
  <1>3. /\ pc'[p] = there /\ Shaped' /\ Others(p)
    BY Goes DEF SaveInv, AllSteps, CallsOK, Shaped, Others
  <1>4. Active(p)' BY <1>2, <1>3 DEF Active
  <1>5. CallsOK'
    BY <1>1, <1>2, <1>3, <1>4, ProcessGoes DEF SaveInv, CallsOK, Moving, Settling
  <1>6. \A q \in Processes : Active(q)' =>
          /\ Active(q) /\ call'[q].n = call[q].n /\ call'[q].op = call[q].op
          /\ call'[q].kind = call[q].kind /\ call'[q].out = call[q].out
          /\ pc[q] \in Owning /\ call[q].kind = "build" => pc'[q] \in Owning
    BY <1>1, <1>3 DEF Active, Others, Same
  <1>7. RecordsOK' BY <1>6, RecordsKept DEF SaveInv, JournalsHeld
  <1>8. Known BY <1>6 DEF Known
  <1> QED BY <1>1, <1>3, <1>4, <1>5, <1>7, <1>8

\* A save goes on outside the lane.
LEMMA SaverGoes ==
  ASSUME SaveInv, NEW p \in Processes, pc[p] \in Moving, NEW there \in Moving,
         there # "save-record-write",
         pc' = [pc EXCEPT ![p] = there], call' = [call EXCEPT ![p] = call'[p]],
         UNCHANGED <<tx, lane, done, acked, calls>>, call'[p] \in Requests, Same(p)
  PROVE  /\ CallsOK' /\ RecordsOK' /\ pc'[p] = there /\ Others(p) /\ Known
  <1>1. Active(p) /\ pc[p] \notin InLane /\ call[p].kind = "save"
    BY DEF SaveInv, CallsOK, CallOK, Active, InLane, Moving, Settling, Journalled, Landing, Late, Mending
  <1>2. there \notin {"idle", "record-write"} \cup InLane
    BY DEF InLane, Moving, Settling, Journalled, Landing, Late, Mending
  <1>3. /\ pc'[p] = there /\ Shaped' /\ Others(p)
    BY Goes DEF SaveInv, AllSteps, CallsOK, Shaped, Others
  <1>4. Active(p)' /\ lane # p BY <1>1, <1>2, <1>3 DEF Active, SaveInv, CallsOK, CallOK
  <1>5. CallsOK'
    BY <1>1, <1>2, <1>3, <1>4, ProcessGoes DEF SaveInv, CallsOK, InLane
  <1>6. \A q \in Processes : Active(q)' =>
          /\ Active(q) /\ call'[q].n = call[q].n /\ call'[q].op = call[q].op
          /\ call'[q].kind = call[q].kind /\ call'[q].out = call[q].out
          /\ pc[q] \in Owning /\ call[q].kind = "build" => pc'[q] \in Owning
    BY <1>1, <1>3 DEF Active, Others, Same
  <1>7. RecordsOK' BY <1>6, RecordsStay DEF SaveInv
  <1>8. Known BY <1>6 DEF Known
  <1> QED BY <1>3, <1>5, <1>7, <1>8

\* What a save has in hand.
LEMMA Saver ==
  ASSUME SaveInv, NEW p \in Processes, pc[p] \in Moving
  PROVE  /\ Active(p) /\ call[p] \in Requests /\ call[p].kind = "save" /\ call[p].n \in Calls
         /\ call[p].out \in Outputs /\ call[p].out # call[p].n /\ call[p].n <= calls
         /\ call[p].n \in Paths /\ call[p].out \in Paths /\ pc[p] \notin InLane
         /\ call[p].before \in Bytes /\ call[p].todo \subseteq Operations \cup Sidecars
  <1>1. Active(p) /\ pc[p] \notin InLane /\ call[p].kind = "save"
    BY DEF SaveInv, CallsOK, CallOK, Active, InLane, Moving, Settling, Journalled, Landing, Late, Mending
  <1> QED BY <1>1, RequestOf, Sorts DEF SaveInv, Requests

\* Bytes of a call fit where it puts them, and its own staging.
LEMMA OwnFits ==
  ASSUME SaveInv, NEW p \in Processes, Active(p)
  PROVE  Fits(call[p].n, call[p].out) /\ \A t : Fits(None, t)
  BY RequestOf, Sorts DEF SaveInv, CallsOK, Fits

\* A call at work that claims nothing.
LEMMA Unclaimed ==
  ASSUME CallsOK', RecordsOK', NEW p \in Processes, Active(p)', ~Claims(p)',
         NEW n, call'[p].n = n
  PROVE  NotClaimed(n)'
  BY DEF CallsOK, RecordsOK, AnswersOK, NotClaimed

LEMMA EvidenceAt ==
  ASSUME SharedOK, NEW t \in Paths, NEW s \in Sidecars, NEW m \in Bytes,
         evidence' = [evidence EXCEPT ![t][s] = m]
  PROVE  /\ evidence' \in [Paths -> [Sidecars -> Bytes]] /\ evidence'[t][s] = m
         /\ \A u \in Paths, r \in Sidecars : u # t \/ r # s => evidence'[u][r] = evidence[u][r]
  <1>1. evidence[t] \in [Sidecars -> Bytes] BY DEF SharedOK
  <1>2. [evidence[t] EXCEPT ![s] = m] \in [Sidecars -> Bytes] BY <1>1
  <1>3. evidence' \in [Paths -> [Sidecars -> Bytes]] BY <1>2 DEF SharedOK
  <1>4. evidence'[t] = [evidence[t] EXCEPT ![s] = m] BY DEF SharedOK
  <1>5. \A u \in Paths \ {t} : evidence'[u] = evidence[u] BY DEF SharedOK
  <1>6. evidence'[t][s] = m /\ \A r \in Sidecars \ {s} : evidence'[t][r] = evidence[t][r]
    BY <1>1, <1>4
  <1> QED BY <1>3, <1>5, <1>6

\* A step with no new answer, no new settlement and no new claim keeps both.
LEMMA Unsettled ==
  ASSUME PlacesOK, Known, UNCHANGED <<done, acked>>, NEW p \in Processes, Others(p),
         pc'[p] \notin Settling \cup {"compare"},
         pc'[p] \in Late /\ call'[p].kind = "build" => Claims(p)
  PROVE  Saved' \subseteq Saved /\ ClaimsStay
  <1>1. \A q \in Processes : pc'[q] \in Settling => pc[q] \in Settling /\ call'[q].n = call[q].n
    BY DEF Others, Settling
  <1>2. Saved' \subseteq Saved BY <1>1, NoNewSaves
  <1>3. \A q \in Processes : Active(q)' /\ Claims(q)' => Claims(q)
    BY DEF Claims, Others, Active, Settling
  <1>4. Credited' = Credited BY DEF Credited
  <1> QED BY <1>2, <1>3, <1>4, ClaimsHeld

LEMMA ICheckStaged == ASSUME SaveInv, NEW p \in Processes, CheckStaged(p) PROVE SaveInv'
  <1> DEFINE t == call[p].path
             n == call[p].n
  <1>1. /\ pc[p] = "staged" /\ pc' = [pc EXCEPT ![p] = "prepare"]
        /\ evidence' = [evidence EXCEPT ![t]["build"] = n]
        /\ UNCHANGED <<file, ledger, registry, tx, lane, call, done, acked, calls>>
    BY DEF CheckStaged, At, Go, rare, history
  <1>2. pc[p] \in InLane /\ pc[p] \in Journalled /\ pc[p] \notin Owning
    BY <1>1 DEF InLane, Journalled, Owning, Landing, Late
  <1>3. /\ call[p] \in Requests /\ Coherent(call[p]) /\ n \in Calls /\ t \in Paths /\ n \in Bytes
        /\ tx[call[p].op].dir /\ call[p].out \in Outputs
    BY <1>2, Holder, Sorts
  <1>4. "prepare" \in InLane /\ "prepare" \notin {"record-write", "recover"} \cup Mending
    BY DEF InLane, Journalled, Mending
  <1>5. call' = [call EXCEPT ![p] = call'[p]] BY <1>1 DEF SaveInv, CallsOK
  <1>6. JournalsHeld /\ Same(p) BY <1>1, JournalsStay DEF SaveInv, Same
  <1>7. /\ CallsOK' /\ RecordsOK' /\ pc'[p] = "prepare" /\ Others(p)
        /\ Active(p) /\ Active(p)' /\ Known
    BY <1>1, <1>2, <1>3, <1>4, <1>5, <1>6, HolderGoes
  <1> HIDE DEF t, n
  <1>8. /\ evidence' \in [Paths -> [Sidecars -> Bytes]] /\ evidence'[t]["build"] = n
        /\ \A u \in Paths, r \in Sidecars : u # t \/ r # "build" => evidence'[u][r] = evidence[u][r]
    BY <1>1, <1>3, EvidenceAt DEF SaveInv, Sidecars
  <1>9. SharedOK' BY <1>1, <1>8 DEF SaveInv, SharedOK
  <1>10. t = call[p].out \/ t = n BY <1>3 DEF Coherent, Requests, t, n
  <1>11. Saved' \subseteq Saved /\ ClaimsStay
    BY <1>1, <1>7, Unsettled DEF SaveInv, Settling, Late
  <1>12. PICK k : k = n /\ NotClaimed(k)'
    <2>1. ~Claims(p)' BY <1>7 DEF Claims, Settling, Late
    <2>2. PICK k : k = n /\ k = call'[p].n BY <1>1 DEF n
    <2>3. NotClaimed(k)' BY <1>7, <2>1, <2>2, Unclaimed
    <2> QED BY <2>2, <2>3
  <1>13. PlacesOK'
    <2>1. \A u \in Outputs, s \in Sidecars :
            evidence'[u][s] = evidence[u][s] \/ Fits(evidence'[u][s], u)
      BY <1>3, <1>7, <1>8, <1>10, OwnFits, Sorts DEF n
    <2>2. \A m \in Calls :
            file'[m] \in {None, m} /\ \A s \in Sidecars : evidence'[m][s] \in {None, m}
      BY <1>1, <1>3, <1>8, <1>10, Sorts DEF SaveInv, PlacesOK
    <2>3. \A q \in Processes : Active(q) => call[q].n \in Calls BY RequestOf DEF SaveInv
    <2> QED BY <1>1, <1>7, <2>1, <2>2, <2>3, PlacesKept DEF SaveInv
  <1>14. EvidenceOK'
    <2>1. \A u \in Outputs, s \in Sidecars :
            evidence'[u][s] = evidence[u][s] \/ NotClaimed(evidence[u][s])'
      BY <1>8, <1>12, Sorts DEF NotClaimed
    <2>2. \A q \in Processes :
            pc'[q] = "compare" /\ file'[call'[q].out] = call'[q].n => call'[q].before = call'[q].n
      BY <1>1, <1>7 DEF SaveInv, EvidenceOK, Others
    <2> QED BY <1>1, <1>11, <2>1, <2>2, EvidenceKept DEF SaveInv
  <1> QED BY <1>7, <1>9, <1>13, <1>14 DEF SaveInv

LEMMA NotSaved ==
  ASSUME SaveInv, NEW p \in Processes, Active(p), pc[p] \notin Settling
  PROVE  call[p].n \notin Saved
  BY DEF SaveInv, CallsOK, RecordsOK, AnswersOK, Credited, Saved, Active, Settling

LEMMA FileAt ==
  ASSUME SharedOK, NEW t \in Paths, NEW m \in Bytes, file' = [file EXCEPT ![t] = m]
  PROVE  file' \in [Paths -> Bytes] /\ file'[t] = m /\ \A u \in Paths \ {t} : file'[u] = file[u]
  BY DEF SharedOK

\* The package lands; a build's at the output.
LEMMA Lands ==
  ASSUME SaveInv, NEW p \in Processes, pc[p] \in {"link", "replace"},
         pc' = [pc EXCEPT ![p] = "record"], file' = [file EXCEPT ![call[p].path] = call[p].n],
         UNCHANGED <<evidence, ledger, registry, tx, lane, call, done, acked, calls>>
  PROVE  SaveInv'
  <1> DEFINE t == call[p].path
             n == call[p].n
  <1>1. /\ pc[p] \in InLane /\ pc[p] \in Journalled /\ pc[p] \notin Settling
        /\ "record" \in InLane /\ "record" \notin {"record-write", "recover"} \cup Mending \cup Settling
        /\ "record" \in Owning
    BY DEF InLane, Journalled, Owning, Landing, Late, Mending, Settling
  <1>2. /\ call[p] \in Requests /\ Coherent(call[p]) /\ n \in Calls /\ t \in Paths /\ n \in Bytes
        /\ tx[call[p].op].dir /\ call[p].out \in Outputs
    BY <1>1, Holder, Sorts
  <1>3. call' = [call EXCEPT ![p] = call'[p]] BY DEF SaveInv, CallsOK
  <1>4. JournalsHeld /\ Same(p) BY JournalsStay DEF SaveInv, Same
  <1>5. /\ CallsOK' /\ RecordsOK' /\ pc'[p] = "record" /\ Others(p)
        /\ Active(p) /\ Active(p)' /\ Known
    BY <1>1, <1>2, <1>3, <1>4, HolderGoes
  <1> HIDE DEF t, n
  <1>6. file' \in [Paths -> Bytes] /\ file'[t] = n /\ \A u \in Paths \ {t} : file'[u] = file[u]
    BY <1>2, FileAt DEF SaveInv, t, n
  <1>7. SharedOK' BY <1>6 DEF SaveInv, SharedOK
  <1>8. /\ t = call[p].out \/ t = n
        /\ t \in Outputs => t = call[p].out
        /\ call[p].kind = "build" => t = call[p].out
    BY <1>2, Sorts DEF Coherent, Requests, t, n
  <1>9. n \notin Saved BY <1>1, <1>5, NotSaved DEF n
  <1>10. Saved' \subseteq Saved
    <2>1. \A q \in Processes : pc'[q] \in Settling => pc[q] \in Settling /\ call'[q].n = call[q].n
      BY <1>1, <1>5 DEF Others
    <2> QED BY <2>1, NoNewSaves
  <1>11. ClaimsStay
    <2>1. Credited' = Credited BY DEF Credited
    <2>2. \A q \in Processes : Active(q)' /\ Claims(q)' =>
            Claims(q) \/ file'[call[q].out] \notin Saved'
      <3>1. ASSUME NEW q \in Processes, q # p, Claims(q)' PROVE Claims(q)
        BY <1>5, <3>1 DEF Claims, Others, Settling, Late
      <3>2. Claims(p)' => file'[call[p].out] \notin Saved'
        BY <1>5, <1>6, <1>8, <1>9, <1>10 DEF Claims, Settling
      <3> QED BY <3>1, <3>2
    <2> QED BY <1>5, <2>1, <2>2, ClaimsHeld DEF SaveInv
  <1>12. PlacesOK'
    <2>1. \A u \in Outputs : file'[u] = file[u] \/ Fits(file'[u], u)
      BY <1>2, <1>5, <1>6, <1>8, OwnFits, Sorts DEF n
    <2>2. \A m \in Calls :
            file'[m] \in {None, m} /\ \A s \in Sidecars : evidence'[m][s] \in {None, m}
      BY <1>2, <1>6, <1>8, Sorts DEF SaveInv, PlacesOK
    <2>3. \A q \in Processes : Active(q) => call[q].n \in Calls BY RequestOf DEF SaveInv
    <2> QED BY <1>5, <2>1, <2>2, <2>3, PlacesKept DEF SaveInv
  <1>13. EvidenceOK'
    <2>1. \A u \in Outputs : file'[u] = file[u] \/ file'[u] \notin Saved'
      BY <1>6, <1>9, <1>10, Sorts
    <2>2. \A q \in Processes :
            pc'[q] = "compare" /\ file'[call'[q].out] = call'[q].n => call'[q].before = call'[q].n
      <3>1. ASSUME NEW q \in Processes, pc'[q] = "compare"
            PROVE  /\ q # p /\ pc[q] = "compare" /\ call'[q].n # n /\ call'[q].out \in Outputs
                   /\ call'[q] = call[q]
        BY <1>5, <3>1, RequestOf DEF SaveInv, CallsOK, Others, Active, n
      <3>2. \A u \in Outputs : file'[u] = n \/ file'[u] = file[u] BY <1>6, Sorts
      <3> QED BY <3>1, <3>2 DEF SaveInv, EvidenceOK
    <2> QED BY <1>10, <1>11, <2>1, <2>2, EvidenceKept DEF SaveInv
  <1> QED BY <1>5, <1>7, <1>12, <1>13 DEF SaveInv

LEMMA ILand == ASSUME SaveInv, NEW p \in Processes, Link(p) \/ Replace(p) PROVE SaveInv'
  <1>1. /\ pc[p] \in {"link", "replace"}
        /\ UNCHANGED <<evidence, ledger, registry, tx, lane, call, done, acked, calls>>
        /\ \/ /\ file' = [file EXCEPT ![call[p].path] = call[p].n]
              /\ pc' = [pc EXCEPT ![p] = "record"]
           \/ file' = file /\ pc' = [pc EXCEPT ![p] = "abort"]
    BY DEF Link, Replace, At, Go, Land, rare, history
  <1>2. CASE file' = file /\ pc' = [pc EXCEPT ![p] = "abort"]
    <2>1. pc[p] \in InLane BY <1>1 DEF InLane, Journalled, Landing
    <2>2. "abort" \in InLane /\ "abort" \in Owning
          /\ "abort" \notin {"record-write", "recover"} \cup Mending \cup Journalled \cup Late
      BY DEF InLane, Journalled, Landing, Late, Mending, Owning
    <2>3. SharedOK' /\ JournalsHeld BY <1>1, <1>2, DiskStays, JournalsStay DEF SaveInv
    <2>4. lane = p BY <2>1, Holder
    <2> QED BY <1>1, <1>2, <2>2, <2>3, <2>4, HolderMoves
  <1> QED BY <1>1, <1>2, Lands

LEMMA IRemoveTx == ASSUME SaveInv, NEW p \in Processes, RemoveTx(p) PROVE SaveInv'
  <1>1. /\ pc[p] = "remove" /\ tx' = [tx EXCEPT ![call[p].op] = NoTx]
        /\ lane' = (IF lane = p THEN None ELSE lane)
        /\ UNCHANGED <<file, evidence, ledger, registry, done, calls>>
    BY DEF RemoveTx, At, Journal, Unlock, rare
  <1>2. pc[p] \in InLane /\ pc[p] \in Late /\ pc[p] \in Owning
    BY <1>1 DEF InLane, Journalled, Late, Owning
  <1>3. /\ lane = p /\ Active(p) /\ call[p].op \in Operations /\ call[p] \in Requests
        /\ call[p].n \in Calls /\ call[p].n <= calls
    BY <1>2, Holder
  <1>4. /\ SharedOK' /\ JournalsHeld /\ tx'[call[p].op] = NoTx
        /\ \A r \in Operations \ {call[p].op} : tx'[r] = tx[r]
    BY <1>1, <1>3, Closed DEF SaveInv
  <1>5. CASE call[p].kind = "build"
    <2>1. /\ pc' = [pc EXCEPT ![p] = "idle"] /\ call' = [call EXCEPT ![p] = NoCall]
          /\ acked' = acked \cup {[op |-> call[p].op, path |-> call[p].path, bytes |-> call[p].n]}
      BY <1>5 DEF RemoveTx, Go, Keep
    <2>2. /\ CallsOK' /\ pc'[p] = "idle"
          /\ \A q \in Processes \ {p} : pc'[q] = pc[q] /\ call'[q] = call[q]
      BY <1>1, <1>3, <2>1, ProcessLeaves DEF SaveInv
    <2>3. Credited' = Credited \cup {call[p].n}
      <3> DEFINE a == [op |-> call[p].op, path |-> call[p].path, bytes |-> call[p].n]
      <3>1. acked' = acked \cup {a} /\ a.bytes = call[p].n BY <2>1
      <3> HIDE DEF a
      <3>2. {b.bytes : b \in acked'} = {b.bytes : b \in acked} \cup {a.bytes} BY <3>1
      <3> QED BY <1>1, <3>1, <3>2 DEF Credited
    <2>4. \A q \in Processes : Active(q)' =>
            q # p /\ Active(q) /\ pc'[q] = pc[q] /\ call'[q] = call[q] /\ call[q].n # call[p].n
      BY <1>3, <2>2 DEF SaveInv, CallsOK, Active
    <2>5. RecordsOK'
      <3>1. AnswersOK'
        <4>1. call[p].n \in 1..calls BY <1>3, Sorts DEF SaveInv, SharedOK
        <4>2. AnswersOK BY DEF SaveInv, RecordsOK
        <4> QED BY <1>1, <2>3, <2>4, <4>1, <4>2 DEF AnswersOK
      <3>2. ASSUME NEW r \in Operations PROVE RecordOK(r)'
        <4>1. RecordOK(r) BY DEF SaveInv, RecordsOK
        <4>2. CASE r = call[p].op BY <1>4, <4>2, NoTxIsJournal, Sorts DEF RecordOK
        <4>3. CASE r # call[p].op
          <5>1. tx'[r] = tx[r] BY <1>4, <4>3
          <5>2. tx[r].path \in Outputs => tx[r].bytes # call[p].n
            BY <1>3, <4>1, <4>3 DEF RecordOK
          <5> QED BY <1>1, <2>3, <2>4, <4>1, <5>1, <5>2 DEF RecordOK, Calls
        <4> QED BY <4>2, <4>3
      <3>3. Operations' = Operations BY DEF Operations, Calls
      <3> QED BY <3>1, <3>2, <3>3 DEF RecordsOK
    <2>6. Known BY <2>4 DEF Known
    <2>7. PlacesOK'
      <3>1. \A q \in Processes : Active(q) => call[q].n \in Calls BY RequestOf DEF SaveInv
      <3> QED BY <1>1, <2>6, <3>1, PlacesKept DEF SaveInv, PlacesOK
    <2>8. EvidenceOK'
      <3>1. \A q \in Processes : pc'[q] \in Settling => pc[q] \in Settling /\ call'[q].n = call[q].n
        BY <2>2 DEF Settling
      <3>2. Saved' \subseteq Saved BY <1>1, <3>1, NoNewSaves
      <3>3. Claims(p) BY <1>2, <1>5 DEF Claims
      <3>4. \A q \in Processes : Active(q)' /\ Claims(q)' => Claims(q)
        BY <2>4 DEF Claims
      <3>5. ClaimsStay BY <1>3, <2>3, <2>6, <3>3, <3>4, ClaimsHeld DEF SaveInv
      <3>6. \A q \in Processes :
              pc'[q] = "compare" /\ file'[call'[q].out] = call'[q].n => call'[q].before = call'[q].n
        BY <1>1, <2>4 DEF SaveInv, EvidenceOK, Active
      <3> QED BY <1>1, <3>2, <3>5, <3>6, EvidenceKept DEF SaveInv
    <2> QED BY <1>4, <2>2, <2>5, <2>7, <2>8 DEF SaveInv
  <1>6. CASE call[p].kind # "build"
    <2>1. pc' = [pc EXCEPT ![p] = "verify"] /\ call' = call /\ acked' = acked
      BY <1>6 DEF RemoveTx, Go
    <2>2. pc'[p] = "verify" /\ Shaped' /\ Others(p) /\ Same(p)
      BY <2>1, Moves DEF SaveInv, AllSteps, Moving
    <2>3. Onwards(p) /\ Active(p)' /\ call[p].kind = "save"
      BY <1>3, <1>6, <2>2 DEF Onwards, Active, Settling, Requests
    <2>4. "verify" \notin InLane \cup {"record-write", "save-record-write"}
      BY DEF InLane, Journalled, Landing, Late, Mending
    <2>5. \A q \in Processes : q # p => (lane' = q <=> lane = q) BY <1>1, <1>3, Sorts
    <2>6. CallsOK'
      BY <1>1, <1>3, <2>1, <2>2, <2>3, <2>4, <2>5, Sorts, ProcessGoes DEF SaveInv, InLane
    <2> QED BY <1>1, <1>3, <1>4, <2>1, <2>2, <2>3, <2>6, Quiet DEF SaveInv
  <1> QED BY <1>5, <1>6

-----------------------------------------------------------------------------
(* The save. *)

\* A save that is not settled for writes only its own bytes, at its own output.
LEMMA SaverWrites ==
  ASSUME SaveInv, NEW p \in Processes, pc[p] \in Moving \ Settling,
         NEW there \in Moving \ (Settling \cup {"compare"}),
         pc' = [pc EXCEPT ![p] = there], call' = [call EXCEPT ![p] = call'[p]],
         UNCHANGED <<tx, lane, done, acked, calls>>, call'[p] \in Requests, Same(p), SharedOK',
         \A t \in Outputs :
           file'[t] \in {file[t], None} \/ (t = call[p].out /\ file'[t] = call[p].n),
         \A t \in Outputs, s \in Sidecars :
           evidence'[t][s] \in {evidence[t][s], None} \/ (t = call[p].out /\ evidence'[t][s] = call[p].n),
         \A m \in Calls :
           file'[m] \in {None, m} /\ \A s \in Sidecars : evidence'[m][s] \in {None, m}
  PROVE  SaveInv'
  <1>1. /\ Active(p) /\ call[p].kind = "save" /\ call[p].n \in Calls /\ call[p].out \in Outputs
        /\ pc[p] \notin InLane
    BY Saver
  <1>2. /\ CallsOK' /\ RecordsOK' /\ pc'[p] = there /\ Others(p) /\ Known
    BY SaverGoes DEF Settling
  <1>3. Active(p)' BY <1>2 DEF Active, Moving, Settling
  <1>4. Fits(call[p].n, call[p].out) /\ \A t : Fits(None, t) BY <1>1, OwnFits
  <1>5. PlacesOK'
    <2>1. \A u \in Outputs : file'[u] = file[u] \/ Fits(file'[u], u) BY <1>4
    <2>2. \A u \in Outputs, s \in Sidecars :
            evidence'[u][s] = evidence[u][s] \/ Fits(evidence'[u][s], u)
      BY <1>4
    <2>3. \A q \in Processes : Active(q) => call[q].n \in Calls BY RequestOf DEF SaveInv
    <2> QED BY <1>2, <2>1, <2>2, <2>3, PlacesKept DEF SaveInv
  <1>6. Saved' \subseteq Saved /\ ClaimsStay
    BY <1>1, <1>2, Unsettled DEF SaveInv, Same
  <1>7. EvidenceOK'
    <2>1. PICK k : k = call[p].n /\ NotClaimed(k)'
      <3>1. ~Claims(p)' BY <1>1, <1>2 DEF Claims, Same
      <3>2. PICK k : k = call[p].n /\ k = call'[p].n BY DEF Same
      <3> QED BY <1>2, <1>3, <3>1, <3>2, Unclaimed
    <2>2. NotClaimed(None)'
      <3>1. \A q \in Processes : Active(q)' => call'[q].n # None
        BY <1>2, RequestOf, Sorts DEF SaveInv, Known
      <3>2. None \notin Credited'
        <4>1. None \notin 1..calls' BY Sorts DEF SharedOK
        <4> QED BY <1>2, <4>1 DEF RecordsOK, AnswersOK
      <3> QED BY <3>1, <3>2 DEF NotClaimed
    <2>3. \A u \in Outputs, s \in Sidecars :
            evidence'[u][s] = evidence[u][s] \/ NotClaimed(evidence[u][s])'
      BY <2>1, <2>2 DEF NotClaimed
    <2>4. call[p].n \notin Saved /\ None \notin Saved
      <3>1. \A q \in Processes : pc[q] \in Settling => call[q].n # None
        BY RequestOf, Sorts DEF SaveInv, Active, Settling
      <3>2. None \notin done
        <4>1. None \notin 1..calls BY Sorts DEF SaveInv, SharedOK
        <4> QED BY <4>1 DEF SaveInv, RecordsOK, AnswersOK, Credited
      <3> QED BY <1>1, <3>1, <3>2, NotSaved DEF Saved
    <2>5. \A u \in Outputs : file'[u] = file[u] \/ file'[u] \notin Saved' BY <1>6, <2>4
    <2>6. \A q \in Processes :
            pc'[q] = "compare" /\ file'[call'[q].out] = call'[q].n => call'[q].before = call'[q].n
      <3>1. ASSUME NEW q \in Processes, pc'[q] = "compare"
            PROVE  /\ q # p /\ pc[q] = "compare" /\ call'[q].n # call[p].n /\ call'[q].out \in Outputs
                   /\ call'[q] = call[q] /\ call[q].n # None
        BY <1>1, <1>2, <3>1, RequestOf, Sorts DEF SaveInv, CallsOK, Others, Active
      <3> QED BY <3>1 DEF SaveInv, EvidenceOK
    <2> QED BY <1>6, <2>3, <2>5, <2>6, EvidenceKept DEF SaveInv
  <1> QED BY <1>2, <1>5, <1>7 DEF SaveInv

\* A save's call with something else remembered is still its call.
LEMMA SaverCall ==
  ASSUME SaveInv, NEW p \in Processes, pc[p] \in Moving,
         NEW b \in Bytes, NEW d \in SUBSET (Operations \cup Sidecars),
         call' = [call EXCEPT ![p] = [call[p] EXCEPT !.before = b]]
         \/ call' = [call EXCEPT ![p] = [call[p] EXCEPT !.todo = d]] \/ call' = call
  PROVE  call'[p] \in Requests /\ Same(p) /\ call' = [call EXCEPT ![p] = call'[p]]
  <1>1. call[p] \in Requests BY Saver
  <1>2. \/ call'[p] = [call[p] EXCEPT !.before = b] \/ call'[p] = [call[p] EXCEPT !.todo = d]
        \/ call'[p] = call[p]
    BY DEF SaveInv, CallsOK
  <1>3. call'[p] \in Requests /\ Same(p) BY <1>1, <1>2 DEF Requests, Same
  <1>4. call' = [call EXCEPT ![p] = call'[p]] BY <1>2 DEF SaveInv, CallsOK
  <1> QED BY <1>3, <1>4

LEMMA ILookAround == ASSUME SaveInv, NEW p \in Processes, Capture(p) \/ Guard(p) PROVE SaveInv'
  <1>1. PICK there \in {"guard", "discard", "new-document", "side-build"} :
          /\ pc[p] \in {"capture", "guard"} /\ pc' = [pc EXCEPT ![p] = there]
          /\ UNCHANGED <<file, evidence, ledger, registry, tx, lane, done, acked, calls>>
          /\ \/ call' = [call EXCEPT ![p] = [call[p] EXCEPT !.before = file[call[p].out]]]
             \/ call' = call
    BY DEF Capture, Guard, At, Go, Keep, Out, disk, rare, history
  <1>2. pc[p] \in Moving \ Settling /\ there \in Moving \ (Settling \cup {"compare"})
    BY <1>1 DEF Moving, Settling
  <1>3. file[call[p].out] \in Bytes BY <1>2, Saver DEF SaveInv, SharedOK
  <1>4. call'[p] \in Requests /\ Same(p) /\ call' = [call EXCEPT ![p] = call'[p]]
    BY <1>1, <1>2, <1>3, SaverCall
  <1>5. SharedOK' BY <1>1, DiskStays DEF SaveInv
  <1>6. \A m \in Calls :
          file'[m] \in {None, m} /\ \A s \in Sidecars : evidence'[m][s] \in {None, m}
    BY <1>1 DEF SaveInv, PlacesOK
  <1> QED BY <1>1, <1>2, <1>4, <1>5, <1>6, SaverWrites

LEMMA IVerifyStaged == ASSUME SaveInv, NEW p \in Processes, VerifyStaged(p) PROVE SaveInv'
  <1> DEFINE n == call[p].n
  <1>1. /\ pc[p] = "verify" /\ pc' = [pc EXCEPT ![p] = "capture"]
        /\ evidence' = [evidence EXCEPT ![n]["verify"] = file[n]]
        /\ UNCHANGED <<file, ledger, registry, tx, lane, call, done, acked, calls>>
    BY DEF VerifyStaged, Staging, At, Go, rare, history
  <1>2. pc[p] \in Moving \ Settling /\ "capture" \in Moving \ (Settling \cup {"compare"})
    BY <1>1 DEF Moving, Settling
  <1>3. n \in Calls /\ n \in Paths /\ file[n] \in Bytes /\ file[n] \in {None, n}
    BY <1>2, Saver DEF SaveInv, SharedOK, PlacesOK
  <1>4. call'[p] \in Requests /\ Same(p) /\ call' = [call EXCEPT ![p] = call'[p]]
    BY <1>1, <1>2, <1>3, SaverCall
  <1> HIDE DEF n
  <1>5. /\ evidence' \in [Paths -> [Sidecars -> Bytes]] /\ evidence'[n]["verify"] = file[n]
        /\ \A u \in Paths, r \in Sidecars : u # n \/ r # "verify" => evidence'[u][r] = evidence[u][r]
    BY <1>1, <1>3, EvidenceAt DEF SaveInv, Sidecars
  <1>6. SharedOK' BY <1>1, <1>5 DEF SaveInv, SharedOK
  <1>7. \A t \in Outputs, s \in Sidecars :
          evidence'[t][s] \in {evidence[t][s], None} \/ (t = call[p].out /\ evidence'[t][s] = call[p].n)
    BY <1>3, <1>5, Sorts
  <1>8. \A m \in Calls :
          file'[m] \in {None, m} /\ \A s \in Sidecars : evidence'[m][s] \in {None, m}
    BY <1>1, <1>3, <1>5, Sorts DEF SaveInv, PlacesOK
  <1> QED BY <1>1, <1>2, <1>4, <1>6, <1>7, <1>8, SaverWrites

\* A rename of one sidecar.
LEMMA MovesOne ==
  ASSUME SaveInv, NEW p \in Processes, pc[p] \in Moving, NEW s \in Sidecars, MoveEvidence(p, s)
  PROVE  /\ evidence' \in [Paths -> [Sidecars -> Bytes]]
         /\ \A t \in Outputs, r \in Sidecars :
              evidence'[t][r] \in {evidence[t][r], None} \/ (t = call[p].out /\ evidence'[t][r] = call[p].n)
         /\ \A m \in Calls, r \in Sidecars : evidence'[m][r] \in {None, m}
  <1>1. PICK n, t : n = call[p].n /\ t = call[p].out OBVIOUS
  <1>2. /\ n \in Calls /\ n \in Paths /\ t \in Outputs /\ t \in Paths /\ t # n
        /\ evidence[n][s] \in {None, n} /\ None \in Bytes /\ n \in Bytes
    BY <1>1, Saver, Sorts DEF SaveInv, PlacesOK
  <1>3. evidence' = [evidence EXCEPT ![t][s] = evidence[n][s], ![n][s] = None]
    BY <1>1 DEF MoveEvidence, Out, Staging
  <1>4. PICK e : e = [evidence EXCEPT ![t][s] = evidence[n][s]] OBVIOUS
  <1>5. /\ e \in [Paths -> [Sidecars -> Bytes]] /\ e[t][s] = evidence[n][s]
        /\ \A u \in Paths, r \in Sidecars : u # t \/ r # s => e[u][r] = evidence[u][r]
    <2>1. evidence \in [Paths -> [Sidecars -> Bytes]] BY DEF SaveInv, SharedOK
    <2>2. [evidence[t] EXCEPT ![s] = evidence[n][s]] \in [Sidecars -> Bytes] BY <1>2, <2>1
    <2>3. e[t] = [evidence[t] EXCEPT ![s] = evidence[n][s]] BY <1>2, <1>4, <2>1
    <2>4. evidence[t] \in [Sidecars -> Bytes] BY <1>2, <2>1
    <2>5. e[t][s] = evidence[n][s] /\ \A r \in Sidecars \ {s} : e[t][r] = evidence[t][r]
      BY <2>3, <2>4
    <2>6. e \in [Paths -> [Sidecars -> Bytes]] /\ \A u \in Paths \ {t} : e[u] = evidence[u]
      BY <1>2, <1>4, <2>1, <2>2
    <2> QED BY <2>5, <2>6
  <1>6. evidence' = [e EXCEPT ![n][s] = None] BY <1>3, <1>4
  <1>7. /\ evidence' \in [Paths -> [Sidecars -> Bytes]] /\ evidence'[n][s] = None
        /\ \A u \in Paths, r \in Sidecars : u # n \/ r # s => evidence'[u][r] = e[u][r]
    <2>2. [e[n] EXCEPT ![s] = None] \in [Sidecars -> Bytes] BY <1>2, <1>5
    <2>3. evidence'[n] = [e[n] EXCEPT ![s] = None] BY <1>2, <1>6, <1>5
    <2>4. e[n] \in [Sidecars -> Bytes] BY <1>2, <1>5
    <2>5. evidence'[n][s] = None /\ \A r \in Sidecars \ {s} : evidence'[n][r] = e[n][r]
      BY <2>3, <2>4
    <2>6. evidence' \in [Paths -> [Sidecars -> Bytes]] /\ \A u \in Paths \ {n} : evidence'[u] = e[u]
      BY <1>2, <1>6, <2>2, <1>5
    <2> QED BY <2>5, <2>6
  <1>8. \A u \in Outputs, r \in Sidecars :
          evidence'[u][r] \in {evidence[u][r], None} \/ (u = t /\ evidence'[u][r] = n)
    BY <1>2, <1>5, <1>7, Sorts
  <1>9. \A m \in Calls, r \in Sidecars : evidence'[m][r] \in {None, m}
    BY <1>2, <1>5, <1>7, Sorts DEF SaveInv, PlacesOK
  <1> QED BY <1>1, <1>7, <1>8, <1>9

LEMMA IMoveEvidence ==
  ASSUME SaveInv, NEW p \in Processes, MoveBuildEvidence(p) \/ MoveVerifyEvidence(p) PROVE SaveInv'
  <1>1. PICK there \in {"side-verify", "new-verify", "side-ledger", "new-ledger"},
             d \in SUBSET (Operations \cup Sidecars), s \in Sidecars :
          /\ pc[p] \in {"side-build", "new-build", "side-verify", "new-verify"}
          /\ pc' = [pc EXCEPT ![p] = there] /\ MoveEvidence(p, s)
          /\ UNCHANGED <<file, ledger, registry, tx, lane, done, acked, calls>>
          /\ call' = [call EXCEPT ![p] = [call[p] EXCEPT !.todo = d]]
    <2>1. CASE MoveBuildEvidence(p)
      <3>1. (IF evidence[Out(p)]["build"] = None THEN {"build"} ELSE {})
              \in SUBSET (Operations \cup Sidecars)
        BY DEF Sidecars
      <3> QED BY <2>1, <3>1 DEF MoveBuildEvidence, At, Go, Keep, rare, history, Sidecars
    <2>2. CASE MoveVerifyEvidence(p)
      <3>1. pc[p] \in Moving BY <2>2 DEF MoveVerifyEvidence, At, Moving
      <3>2. call[p].todo \cup (IF evidence[Out(p)]["verify"] = None THEN {"verify"} ELSE {})
              \in SUBSET (Operations \cup Sidecars)
        BY <3>1, Saver DEF Sidecars
      <3> QED BY <2>2, <3>2 DEF MoveVerifyEvidence, At, Go, Keep, rare, history, Sidecars
    <2> QED BY <2>1, <2>2
  <1>2. pc[p] \in Moving \ Settling /\ there \in Moving \ (Settling \cup {"compare"})
    BY <1>1 DEF Moving, Settling
  <1>3. call'[p] \in Requests /\ Same(p) /\ call' = [call EXCEPT ![p] = call'[p]]
    BY <1>1, <1>2, SaverCall, Sorts
  <1>4. /\ evidence' \in [Paths -> [Sidecars -> Bytes]]
        /\ \A t \in Outputs, r \in Sidecars :
             evidence'[t][r] \in {evidence[t][r], None} \/ (t = call[p].out /\ evidence'[t][r] = call[p].n)
        /\ \A m \in Calls, r \in Sidecars : evidence'[m][r] \in {None, m}
    BY <1>1, <1>2, MovesOne
  <1>5. SharedOK' BY <1>1, <1>4 DEF SaveInv, SharedOK
  <1>6. \A m \in Calls : file'[m] \in {None, m} BY <1>1 DEF SaveInv, PlacesOK
  <1> QED BY <1>1, <1>2, <1>3, <1>4, <1>5, <1>6, SaverWrites

\* The calls' own places, when nothing is written there.
LEMMA OwnPlaces ==
  ASSUME SaveInv, UNCHANGED <<file, evidence>>
  PROVE  \A m \in Calls :
           file'[m] \in {None, m} /\ \A s \in Sidecars : evidence'[m][s] \in {None, m}
  BY DEF SaveInv, PlacesOK

LEMMA IMoveOperations == ASSUME SaveInv, NEW p \in Processes, MoveOperations(p) PROVE SaveInv'
  <1>1. PICK there \in {"save-replace", "reread"} :
          /\ pc[p] \in {"side-ledger", "new-ledger"} /\ pc' = [pc EXCEPT ![p] = there]
          /\ ledger' = [ledger EXCEPT ![call[p].out] = ledger[call[p].n], ![call[p].n] = {}]
          /\ UNCHANGED <<file, evidence, registry, tx, lane, done, acked, calls>>
          /\ call' = [call EXCEPT ![p] = [call[p] EXCEPT !.todo = {}]]
    BY DEF MoveOperations, MoveLedger, Out, Staging, At, Go, Keep, rare, history
  <1>2. pc[p] \in Moving \ Settling /\ there \in Moving \ (Settling \cup {"compare"})
    BY <1>1 DEF Moving, Settling
  <1>3. call'[p] \in Requests /\ Same(p) /\ call' = [call EXCEPT ![p] = call'[p]]
    BY <1>1, <1>2, SaverCall, Sorts
  <1>4. SharedOK'
    <2>1. call[p].n \in Paths /\ call[p].out \in Paths BY <1>2, Saver
    <2>2. ledger' \in [Paths -> SUBSET Operations] BY <1>1, <2>1 DEF SaveInv, SharedOK
    <2> QED BY <1>1, <2>2 DEF SaveInv, SharedOK
  <1> QED BY <1>1, <1>2, <1>3, <1>4, OwnPlaces, SaverWrites

\* The rename of the document.
LEMMA DocumentMoves ==
  ASSUME SaveInv, NEW p \in Processes, pc[p] \in Moving, MoveDocument(p), UNCHANGED evidence
  PROVE  /\ file' \in [Paths -> Bytes]
         /\ \A t \in Outputs : file'[t] \in {file[t], None} \/ (t = call[p].out /\ file'[t] = call[p].n)
         /\ \A m \in Calls :
              file'[m] \in {None, m} /\ \A s \in Sidecars : evidence'[m][s] \in {None, m}
  <1>1. PICK n, t : n = call[p].n /\ t = call[p].out OBVIOUS
  <1>2. /\ n \in Calls /\ n \in Paths /\ t \in Outputs /\ t \in Paths /\ t # n
        /\ file[n] \in {None, n} /\ None \in Bytes /\ n \in Bytes
    BY <1>1, Saver, Sorts DEF SaveInv, PlacesOK
  <1>3. file' = [file EXCEPT ![t] = file[n], ![n] = None]
    BY <1>1 DEF MoveDocument, Out, Staging
  <1>4. /\ file' \in [Paths -> Bytes] /\ file'[t] = file[n] /\ file'[n] = None
        /\ \A u \in Paths \ {t, n} : file'[u] = file[u]
    BY <1>2, <1>3 DEF SaveInv, SharedOK
  <1> QED BY <1>1, <1>2, <1>4, Sorts DEF SaveInv, PlacesOK

LEMMA ISaveLands ==
  ASSUME SaveInv, NEW p \in Processes, SaveReplace(p) \/ SaveLink(p) PROVE SaveInv'
  <1>1. PICK there \in {"reread", "new-build", "discard"} :
          /\ pc[p] \in {"save-replace", "new-document"} /\ pc' = [pc EXCEPT ![p] = there]
          /\ MoveDocument(p) \/ file' = file
          /\ UNCHANGED <<evidence, ledger, registry, tx, lane, call, done, acked, calls>>
    BY DEF SaveReplace, SaveLink, At, Go, rare, history
  <1>2. pc[p] \in Moving \ Settling /\ there \in Moving \ (Settling \cup {"compare"})
    BY <1>1 DEF Moving, Settling
  <1>3. call'[p] \in Requests /\ Same(p) /\ call' = [call EXCEPT ![p] = call'[p]]
    BY <1>1, <1>2, SaverCall, Sorts
  <1>4. /\ file' \in [Paths -> Bytes]
        /\ \A t \in Outputs : file'[t] \in {file[t], None} \/ (t = call[p].out /\ file'[t] = call[p].n)
        /\ \A m \in Calls :
             file'[m] \in {None, m} /\ \A s \in Sidecars : evidence'[m][s] \in {None, m}
    <2>1. CASE MoveDocument(p) BY <1>1, <1>2, <2>1, DocumentMoves
    <2>2. CASE file' = file BY <1>1, <2>2, OwnPlaces DEF SaveInv, SharedOK
    <2> QED BY <1>1, <2>1, <2>2
  <1>5. SharedOK' BY <1>1, <1>4 DEF SaveInv, SharedOK
  <1> QED BY <1>1, <1>2, <1>3, <1>4, <1>5, SaverWrites

LEMMA IFailMove == ASSUME SaveInv, NEW p \in Processes, FailMove(p) PROVE SaveInv'
  <1> DEFINE t == call[p].out
             e == [s \in Sidecars |-> IF s \in call[p].todo THEN None ELSE evidence[t][s]]
  <1>1. /\ pc[p] \in {"side-build", "side-verify", "side-ledger", "save-replace",
                      "new-build", "new-verify", "new-ledger"}
        /\ pc' = [pc EXCEPT ![p] = "discard"]
        /\ UNCHANGED <<ledger, registry, tx, lane, call, done, acked, calls>>
        /\ \/ UNCHANGED <<file, evidence>>
           \/ file' = [file EXCEPT ![t] = None] /\ evidence' = [evidence EXCEPT ![t] = e]
    BY DEF FailMove, Go, Out, history
  <1>2. pc[p] \in Moving \ Settling /\ "discard" \in Moving \ (Settling \cup {"compare"})
    BY <1>1 DEF Moving, Settling
  <1>3. call'[p] \in Requests /\ Same(p) /\ call' = [call EXCEPT ![p] = call'[p]]
    BY <1>1, <1>2, SaverCall, Sorts
  <1>4. CASE UNCHANGED <<file, evidence>>
    <2>1. SharedOK' BY <1>1, <1>4, DiskStays DEF SaveInv
    <2> QED BY <1>1, <1>2, <1>3, <1>4, <2>1, OwnPlaces, SaverWrites
  <1>5. CASE file' = [file EXCEPT ![t] = None] /\ evidence' = [evidence EXCEPT ![t] = e]
    <2>1. /\ t \in Outputs /\ t \in Paths /\ t \notin Calls /\ None \in Bytes
      BY <1>2, Saver, Sorts
    <2>2. evidence[t] \in [Sidecars -> Bytes] BY <2>1 DEF SaveInv, SharedOK
    <2>3. e \in [Sidecars -> Bytes] /\ \A s \in Sidecars : e[s] \in {evidence[t][s], None}
      BY <2>1, <2>2
    <2> HIDE DEF t, e
    <2>4. /\ file' \in [Paths -> Bytes] /\ file'[t] = None /\ \A u \in Paths \ {t} : file'[u] = file[u]
          /\ evidence' \in [Paths -> [Sidecars -> Bytes]] /\ evidence'[t] = e
          /\ \A u \in Paths \ {t} : evidence'[u] = evidence[u]
      BY <1>5, <2>1, <2>3 DEF SaveInv, SharedOK
    <2>5. SharedOK' BY <1>1, <2>4 DEF SaveInv, SharedOK
    <2>6. \A u \in Outputs : file'[u] \in {file[u], None} BY <2>4, Sorts
    <2>7. \A u \in Outputs, s \in Sidecars : evidence'[u][s] \in {evidence[u][s], None}
      BY <2>3, <2>4, Sorts
    <2>8. \A m \in Calls :
            file'[m] \in {None, m} /\ \A s \in Sidecars : evidence'[m][s] \in {None, m}
      BY <2>1, <2>4, Sorts DEF SaveInv, PlacesOK
    <2> QED BY <1>1, <1>2, <1>3, <2>5, <2>6, <2>7, <2>8, SaverWrites
  <1> QED BY <1>1, <1>4, <1>5

LEMMA IDiscard == ASSUME SaveInv, NEW p \in Processes, Discard(p) PROVE SaveInv'
  <1>1. PICK n, e : n = call[p].n /\ e = [s \in Sidecars |-> None] OBVIOUS
  <1>2. /\ pc[p] = "discard" /\ pc' = [pc EXCEPT ![p] = "idle"]
        /\ call' = [call EXCEPT ![p] = NoCall] /\ lane' = (IF lane = p THEN None ELSE lane)
        /\ file' = [file EXCEPT ![n] = None] /\ evidence' = [evidence EXCEPT ![n] = e]
        /\ ledger' = [ledger EXCEPT ![n] = {}]
        /\ UNCHANGED <<registry, tx, done, acked, calls>>
    BY <1>1 DEF Discard, Refuse, At, Go, Keep, Unlock, Staging, rare
  <1>3. pc[p] \in Moving BY <1>2 DEF Moving
  <1>4. n \in Calls /\ n \in Paths /\ None \in Bytes BY <1>1, <1>3, Saver, Sorts
  <1>5. e \in [Sidecars -> Bytes] /\ \A s \in Sidecars : e[s] = None BY <1>1, <1>4
  <1>6. /\ file' \in [Paths -> Bytes] /\ file'[n] = None /\ \A u \in Paths \ {n} : file'[u] = file[u]
        /\ evidence' \in [Paths -> [Sidecars -> Bytes]] /\ evidence'[n] = e
        /\ \A u \in Paths \ {n} : evidence'[u] = evidence[u]
        /\ ledger' \in [Paths -> SUBSET Operations]
    BY <1>2, <1>4, <1>5 DEF SaveInv, SharedOK
  <1>7. SharedOK' BY <1>2, <1>6 DEF SaveInv, SharedOK
  <1>8. /\ CallsOK' /\ pc'[p] = "idle"
        /\ \A q \in Processes \ {p} : pc'[q] = pc[q] /\ call'[q] = call[q]
    BY <1>2, ProcessLeaves DEF SaveInv
  <1>9. \A q \in Processes : Active(q)' => pc'[q] = pc[q] /\ call'[q] = call[q] /\ Active(q)
    BY <1>8 DEF Active
  <1>10. RecordsOK' BY <1>2, <1>9, RecordsStay DEF SaveInv
  <1>11. Known /\ Others(p) BY <1>8, <1>9 DEF Known, Others
  <1>12. \A t \in Outputs : file'[t] = file[t] /\ evidence'[t] = evidence[t]
    BY <1>4, <1>6, Sorts
  <1>13. PlacesOK'
    <2>1. \A m \in Calls :
            file'[m] \in {None, m} /\ \A s \in Sidecars : evidence'[m][s] \in {None, m}
      BY <1>4, <1>5, <1>6, Sorts DEF SaveInv, PlacesOK
    <2>2. \A q \in Processes : Active(q) => call[q].n \in Calls BY RequestOf DEF SaveInv
    <2> QED BY <1>2, <1>11, <1>12, <2>1, <2>2, PlacesKept DEF SaveInv
  <1>14. EvidenceOK'
    <2>1. Saved' \subseteq Saved /\ ClaimsStay
      BY <1>2, <1>8, <1>11, Unsettled DEF SaveInv, Settling, Late
    <2>2. \A q \in Processes :
            pc'[q] = "compare" /\ file'[call'[q].out] = call'[q].n => call'[q].before = call'[q].n
      <3>1. ASSUME NEW q \in Processes, pc'[q] = "compare"
            PROVE  pc[q] = "compare" /\ call'[q] = call[q] /\ call'[q].out \in Outputs
        BY <1>9, <3>1, RequestOf DEF SaveInv, Active
      <3> QED BY <1>12, <3>1 DEF SaveInv, EvidenceOK
    <2> QED BY <1>12, <2>1, <2>2, EvidenceKept DEF SaveInv
  <1> QED BY <1>7, <1>8, <1>10, <1>13, <1>14 DEF SaveInv

LEMMA IReread == ASSUME SaveInv, NEW p \in Processes, Reread(p) PROVE SaveInv'
  <1> DEFINE t == call[p].out
             n == call[p].n
  <1>1. /\ pc[p] = "reread" /\ call' = [call EXCEPT ![p] = [call[p] EXCEPT !.before = file[t]]]
        /\ pc' = [pc EXCEPT ![p] = IF file[t] = None THEN "discard" ELSE "compare"]
        /\ UNCHANGED <<file, evidence, ledger, registry, tx, lane, done, acked, calls>>
    BY DEF Reread, At, Go, Keep, Out, disk, rare, history
  <1>2. pc[p] \in Moving \ Settling BY <1>1 DEF Moving, Settling
  <1>3. t \in Outputs /\ file[t] \in Bytes /\ call[p] \in Requests /\ Active(p)
    BY <1>2, Saver DEF SaveInv, SharedOK
  <1>4. call'[p] \in Requests /\ Same(p) /\ call' = [call EXCEPT ![p] = call'[p]]
    BY <1>1, <1>2, <1>3, SaverCall
  <1>5. SharedOK' BY <1>1, DiskStays DEF SaveInv
  <1>6. CASE file[t] = None
    <2>1. "discard" \in Moving \ (Settling \cup {"compare"}) BY DEF Moving, Settling
    <2> QED BY <1>1, <1>2, <1>4, <1>5, <1>6, <2>1, OwnPlaces, SaverWrites
  <1>7. CASE file[t] # None
    <2>1. "compare" \in Moving /\ "compare" \notin Settling BY DEF Moving, Settling
    <2>2. /\ CallsOK' /\ RecordsOK' /\ pc'[p] = "compare" /\ Others(p) /\ Known
      BY <1>1, <1>2, <1>4, <1>7, <2>1, SaverGoes DEF Settling
    <2>3. call'[p].before = file[t]
      BY <1>1, <1>3 DEF SaveInv, CallsOK, Requests
    <2>4. PlacesOK'
      <3>1. \A q \in Processes : Active(q) => call[q].n \in Calls BY RequestOf DEF SaveInv
      <3> QED BY <1>1, <2>2, <3>1, OwnPlaces, PlacesKept DEF SaveInv
    <2>5. Saved' \subseteq Saved
      <3>1. \A q \in Processes : pc'[q] \in Settling => pc[q] \in Settling /\ call'[q].n = call[q].n
        BY <2>1, <2>2 DEF Others
      <3> QED BY <1>1, <3>1, NoNewSaves
    <2>6. ClaimsStay
      <3>1. n \notin Saved BY <1>2, <1>3, NotSaved
      <3>2. Credited' = Credited BY <1>1 DEF Credited
      <3>3. Claims(p)' => file'[t] \notin Saved'
        BY <1>1, <2>2, <2>3, <2>5, <3>1 DEF Claims, Same, Settling, Late
      <3>4. \A q \in Processes \ {p} : Claims(q)' => Claims(q)
        BY <2>2 DEF Claims, Others
      <3> QED BY <2>2, <3>2, <3>3, <3>4, ClaimsHeld DEF SaveInv
    <2>7. \A q \in Processes :
            pc'[q] = "compare" /\ file'[call'[q].out] = call'[q].n => call'[q].before = call'[q].n
      BY <1>1, <1>4, <2>2, <2>3 DEF SaveInv, EvidenceOK, Others, Same
    <2>8. EvidenceOK' BY <1>1, <2>5, <2>6, <2>7, EvidenceKept DEF SaveInv
    <2> QED BY <1>5, <2>2, <2>4, <2>8 DEF SaveInv
  <1> QED BY <1>6, <1>7

\* The comparison: the evidence is that of the document, or the call fails.
LEMMA ICompare == ASSUME SaveInv, NEW p \in Processes, Compare(p) PROVE SaveInv'
  <1> DEFINE t == call[p].out
             n == call[p].n
             b == call[p].before
  <1>1. /\ pc[p] = "compare"
        /\ UNCHANGED <<file, evidence, ledger, registry, tx, done, acked, calls>>
        /\ \/ /\ \A s \in Sidecars : evidence[t][s] \in {None, b}
              /\ pc' = [pc EXCEPT ![p] = "save-record"] /\ UNCHANGED <<lane, call>>
           \/ /\ pc' = [pc EXCEPT ![p] = "idle"] /\ call' = [call EXCEPT ![p] = NoCall]
              /\ lane' = (IF lane = p THEN None ELSE lane)
    BY DEF Compare, Agrees, Refuse, At, Go, Keep, Unlock, Out, disk, rare
  <1>2. SharedOK' /\ JournalsHeld BY <1>1, DiskStays, JournalsStay DEF SaveInv
  <1>3. CASE /\ pc' = [pc EXCEPT ![p] = "idle"] /\ call' = [call EXCEPT ![p] = NoCall]
             /\ lane' = (IF lane = p THEN None ELSE lane)
    BY <1>1, <1>2, <1>3, Leaves
  <1>4. CASE /\ \A s \in Sidecars : evidence[t][s] \in {None, b}
             /\ pc' = [pc EXCEPT ![p] = "save-record"] /\ UNCHANGED <<lane, call>>
    <2>1. /\ pc[p] \in Moving \ Settling /\ "save-record" \in Moving /\ "save-record" \in Settling
      BY <1>1 DEF Moving, Settling
    <2>2. t \in Outputs /\ n \in Calls /\ Active(p) BY <2>1, Saver
    <2>3. call'[p] \in Requests /\ Same(p) /\ call' = [call EXCEPT ![p] = call'[p]]
      BY <1>4, <2>1, SaverCall, Sorts
    <2>4. /\ CallsOK' /\ RecordsOK' /\ pc'[p] = "save-record" /\ Others(p) /\ Known
      BY <1>1, <1>4, <2>1, <2>3, SaverGoes DEF Settling
    <2>5. PlacesOK'
      <3>1. \A q \in Processes : Active(q) => call[q].n \in Calls BY RequestOf DEF SaveInv
      <3> QED BY <1>1, <2>4, <3>1, OwnPlaces, PlacesKept DEF SaveInv
    <2>6. \A m \in Saved' : m \in Saved \/ m = n
      BY <1>1, <1>4, <2>4 DEF Saved, Others, Settling
    <2>7. \A m : NotClaimed(m) /\ m # n => NotClaimed(m)'
      <3>1. \A q \in Processes : Active(q)' /\ Claims(q)' => q = p \/ (Active(q) /\ Claims(q))
        BY <2>4 DEF Claims, Others, Active
      <3> QED BY <1>1, <1>4, <3>1 DEF NotClaimed, Credited
    <2>8. NotClaimed(None)'
      <3>1. \A q \in Processes : Active(q)' => call'[q].n # None
        BY <2>4, RequestOf, Sorts DEF SaveInv, Known
      <3>2. None \notin Credited'
        <4>1. None \notin 1..calls' BY <1>2, Sorts DEF SharedOK
        <4> QED BY <2>4, <4>1 DEF RecordsOK, AnswersOK
      <3> QED BY <3>1, <3>2 DEF NotClaimed
    <2>9. ASSUME NEW u \in Outputs, NEW s \in Sidecars, file[u] \in Saved'
          PROVE  evidence[u][s] = file[u] \/ \E m : m = evidence[u][s] /\ NotClaimed(m)'
      <3>1. CASE file[u] = n
        <4>1. u = t BY <2>2, <3>1 DEF SaveInv, PlacesOK, Placed
        <4>2. b = n BY <1>1, <3>1, <4>1 DEF SaveInv, EvidenceOK
        <4> QED BY <1>4, <2>8, <3>1, <4>1, <4>2
      <3>2. CASE file[u] \in Saved
        <4>1. evidence[u][s] = file[u] \/ NotClaimed(evidence[u][s])
          BY <3>2 DEF SaveInv, EvidenceOK
        <4>2. CASE NotClaimed(evidence[u][s]) /\ evidence[u][s] = n
          <5>1. u = t BY <2>2, <4>2 DEF SaveInv, PlacesOK, Placed
          <5>2. n # None /\ b = n BY <1>4, <2>2, <4>2, <5>1, Sorts
          <5> QED BY <1>1, <2>2, <4>2, <5>2 DEF NotClaimed, Claims
        <4> QED BY <2>7, <4>1, <4>2
      <3> QED BY <2>6, <2>9, <3>1, <3>2
    <2>10. \A q \in Processes : pc'[q] = "compare" => pc[q] = "compare" /\ call'[q] = call[q]
      BY <1>4, <2>4 DEF Others
    <2>11. EvidenceOK'
      <3>1. ASSUME NEW u \in Outputs, NEW s \in Sidecars, file'[u] \in Saved'
            PROVE  evidence'[u][s] = file'[u] \/ NotClaimed(evidence[u][s])'
        BY <1>1, <2>9, <3>1 DEF NotClaimed
      <3> QED BY <1>1, <2>10, <3>1 DEF SaveInv, EvidenceOK
    <2> QED BY <1>2, <2>4, <2>5, <2>11 DEF SaveInv
  <1> QED BY <1>1, <1>3, <1>4

\* The answer.
LEMMA ISaveRecord == ASSUME SaveInv, NEW p \in Processes, SaveRecord(p) PROVE SaveInv'
  <1>1. PICK n : n = call[p].n OBVIOUS
  <1>2. /\ pc[p] = "save-record-write" /\ pc' = [pc EXCEPT ![p] = "idle"]
        /\ call' = [call EXCEPT ![p] = NoCall] /\ done' = done \cup {n}
        /\ registry' = [call[p].seen EXCEPT ![call[p].out] = call[p].before]
        /\ UNCHANGED <<file, evidence, ledger, tx, lane, acked, calls>>
    BY <1>1 DEF SaveRecord, At, Go, Keep, Out, rare
  <1>3. pc[p] \in Moving /\ pc[p] \in Settling BY <1>2 DEF Moving, Settling
  <1>4. /\ Active(p) /\ call[p].kind = "save" /\ n \in Calls /\ n <= calls /\ pc[p] \notin InLane
        /\ call[p].out \in Paths /\ call[p].before \in Bytes
    BY <1>1, <1>3, Saver
  <1>5. lane # p BY <1>4 DEF SaveInv, CallsOK, CallOK
  <1>6. SharedOK'
    <2>1. call[p].seen \in Glances BY <1>2 DEF SaveInv, CallsOK, CallOK
    <2>2. registry' \in Glances BY <1>2, <1>4, <2>1 DEF Glances
    <2> QED BY <1>2, <2>2 DEF SaveInv, SharedOK
  <1>7. /\ CallsOK' /\ pc'[p] = "idle"
        /\ \A q \in Processes \ {p} : pc'[q] = pc[q] /\ call'[q] = call[q]
    BY <1>2, <1>5, ProcessLeaves DEF SaveInv
  <1>8. Credited' = Credited \cup {n} BY <1>2 DEF Credited
  <1>9. \A q \in Processes : Active(q)' =>
          q # p /\ Active(q) /\ pc'[q] = pc[q] /\ call'[q] = call[q] /\ call[q].n # n
    BY <1>1, <1>4, <1>7 DEF SaveInv, CallsOK, Active
  <1>10. RecordsOK'
    <2>1. AnswersOK'
      <3>1. n \in 1..calls BY <1>4, Sorts DEF SaveInv, SharedOK
      <3>2. AnswersOK BY DEF SaveInv, RecordsOK
      <3>3. Credited' \subseteq 1..calls' BY <1>2, <1>8, <3>1, <3>2 DEF AnswersOK
      <3>4. \A q \in Processes : Active(q)' => call'[q].n \notin Credited'
        BY <1>8, <1>9, <3>2 DEF AnswersOK
      <3> QED BY <3>3, <3>4 DEF AnswersOK
    <2>2. ASSUME NEW r \in Operations PROVE RecordOK(r)'
      <3>1. RecordOK(r) BY DEF SaveInv, RecordsOK
      <3>2. tx[r].path \in Outputs => tx[r].bytes # n
        BY <1>1, <1>4, <3>1 DEF RecordOK
      <3> QED BY <1>2, <1>8, <1>9, <3>1, <3>2 DEF RecordOK, Calls
    <2>3. Operations' = Operations BY DEF Operations, Calls
    <2> QED BY <2>1, <2>2, <2>3 DEF RecordsOK
  <1>11. Known BY <1>9 DEF Known
  <1>12. PlacesOK'
    <2>1. \A q \in Processes : Active(q) => call[q].n \in Calls BY RequestOf DEF SaveInv
    <2> QED BY <1>2, <1>11, <2>1, OwnPlaces, PlacesKept DEF SaveInv
  <1>13. EvidenceOK'
    <2>1. Saved' \subseteq Saved
      <3>1. n \in Saved BY <1>1, <1>3 DEF Saved
      <3>2. \A q \in Processes : pc'[q] \in Settling => pc[q] \in Settling /\ call'[q].n = call[q].n
        BY <1>7 DEF Settling
      <3> QED BY <1>2, <3>1, <3>2 DEF Saved
    <2>2. Claims(p) BY <1>3 DEF Claims
    <2>3. \A q \in Processes : Active(q)' /\ Claims(q)' => Claims(q) BY <1>9 DEF Claims
    <2>4. ClaimsStay BY <1>1, <1>4, <1>8, <1>11, <2>2, <2>3, ClaimsHeld DEF SaveInv
    <2>5. \A q \in Processes :
            pc'[q] = "compare" /\ file'[call'[q].out] = call'[q].n => call'[q].before = call'[q].n
      BY <1>2, <1>9 DEF SaveInv, EvidenceOK, Active
    <2> QED BY <1>2, <2>1, <2>4, <2>5, EvidenceKept DEF SaveInv
  <1> QED BY <1>6, <1>7, <1>10, <1>12, <1>13 DEF SaveInv

-----------------------------------------------------------------------------
(* Recovery. *)

\* A process that recovers, and what is left for it.
LEMMA Mender ==
  ASSUME SaveInv, NEW p \in Processes, pc[p] \in {"recover"} \cup Mending
  PROVE  /\ pc[p] \in InLane /\ pc[p] \notin Journalled \cup Owning
         /\ call[p] \in Requests /\ call[p].todo \subseteq Pending /\ Pending \subseteq Operations
         /\ call[p].mend \in Operations \cup {None}
         /\ pc[p] \in Mending => call[p].mend \in call[p].todo /\ call[p].mend \in Operations
  <1>1. pc[p] \in InLane /\ pc[p] \notin Journalled \cup Owning
    BY DEF InLane, Journalled, Owning, Landing, Late, Mending
  <1>2. call[p].todo \subseteq Pending /\ (pc[p] \in Mending => call[p].mend \in call[p].todo)
    BY DEF SaveInv, CallsOK, CallOK
  <1>3. Pending \subseteq Operations BY DEF Pending
  <1>4. call[p] \in Requests BY <1>1, Holder
  <1> QED BY <1>1, <1>2, <1>3, <1>4 DEF Requests

\* The holder's step leaves files, evidence and answers alone.
LEMMA HolderQuiet ==
  ASSUME SaveInv, NEW p \in Processes, NEW there \in {"check", "recover"} \cup Mending,
         CallsOK', RecordsOK', pc'[p] = there, Others(p), Active(p), Same(p), SharedOK',
         UNCHANGED <<file, evidence, done, acked, calls>>
  PROVE  SaveInv'
  <1>1. there \notin Settling \cup Late \cup {"compare"} BY DEF Settling, Late, Mending
  <1>2. PlacesOK' /\ EvidenceOK' BY <1>1, Quietly DEF SaveInv, Others, Same
  <1> QED BY <1>2 DEF SaveInv

LEMMA IPick ==
  ASSUME SaveInv, NEW p \in Processes, NEW o \in Operations,
         RecoverStick(p, o) \/ RecoverForward(p, o)
  PROVE  SaveInv'
  <1>1. PICK there \in {"recover", "fix-ledger"} :
          /\ pc[p] = "recover" /\ o \in call[p].todo /\ pc' = [pc EXCEPT ![p] = there]
          /\ UNCHANGED <<file, evidence, ledger, registry, tx, lane, done, acked, calls>>
          /\ \/ /\ there = "recover"
                /\ call' = [call EXCEPT ![p] = [call[p] EXCEPT !.todo = @ \ {o}, !.stuck = TRUE]]
             \/ /\ there = "fix-ledger"
                /\ call' = [call EXCEPT ![p] = [call[p] EXCEPT !.mend = o]]
    <2>1. CASE RecoverStick(p, o)
      <3>1. pc' = [pc EXCEPT ![p] = "recover"]
        BY <2>1 DEF RecoverStick, Takes, At, SaveInv, CallsOK
      <3> QED BY <2>1, <3>1 DEF RecoverStick, Takes, At, Keep, disk, rare, history
    <2>2. CASE RecoverForward(p, o)
      BY <2>2 DEF RecoverForward, Takes, At, Go, Keep, disk, rare, history
    <2> QED BY <2>1, <2>2
  <1>2. pc[p] \in {"recover"} \cup Mending BY <1>1
  <1>3. /\ pc[p] \in InLane /\ pc[p] \notin Journalled \cup Owning /\ call[p] \in Requests
        /\ call[p].todo \subseteq Pending
    BY <1>2, Mender
  <1>4. \/ there = "recover" /\ call'[p] = [call[p] EXCEPT !.todo = @ \ {o}, !.stuck = TRUE]
        \/ there = "fix-ledger" /\ call'[p] = [call[p] EXCEPT !.mend = o]
    BY <1>1 DEF SaveInv, CallsOK
  <1>5. /\ call'[p] \in Requests /\ Same(p) /\ call'[p].todo \subseteq call[p].todo
        /\ there = "fix-ledger" => call'[p].mend \in call'[p].todo
    <2>1. call[p] \in Requests BY <1>3
    <2>2. CASE there = "recover" /\ call'[p] = [call[p] EXCEPT !.todo = @ \ {o}, !.stuck = TRUE]
      BY <2>1, <2>2 DEF Requests, Same
    <2>3. CASE there = "fix-ledger" /\ call'[p] = [call[p] EXCEPT !.mend = o]
      <3>1. o \in call[p].todo BY <1>1
      <3> QED BY <2>1, <2>3, <3>1 DEF Requests, Same
    <2> QED BY <1>4, <2>2, <2>3
  <1>6. call' = [call EXCEPT ![p] = call'[p]] BY <1>1, <1>4
  <1>7. there \in InLane /\ there \notin Journalled \cup Late \cup {"record-write"}
        /\ (there \in Mending => there = "fix-ledger")
    BY <1>1 DEF InLane, Journalled, Landing, Late, Mending
  <1>8. SharedOK' BY <1>1, DiskStays DEF SaveInv
  <1> QED BY <1>1, <1>3, <1>5, <1>6, <1>7, <1>8, HolderChanges

\* A repair that fails leaves its journal for somebody else.
LEMMA IFailMend == ASSUME SaveInv, NEW p \in Processes, FailMend(p) PROVE SaveInv'
  <1>1. PICK d : d = call[p].todo \ {call[p].mend} OBVIOUS
  <1>2. /\ pc[p] \in Mending /\ pc' = [pc EXCEPT ![p] = "recover"]
        /\ call' = [call EXCEPT ![p] = [call[p] EXCEPT !.todo = d, !.mend = None, !.stuck = TRUE]]
        /\ UNCHANGED <<file, evidence, ledger, registry, tx, lane, done, acked, calls>>
    BY <1>1 DEF FailMend, Go, Keep, Mending, disk, history
  <1>3. /\ pc[p] \in InLane /\ pc[p] \notin Journalled \cup Owning /\ call[p] \in Requests
        /\ call[p].todo \subseteq Pending
    BY <1>2, Mender
  <1>4. call'[p] = [call[p] EXCEPT !.todo = d, !.mend = None, !.stuck = TRUE]
    BY <1>2 DEF SaveInv, CallsOK
  <1>5. d \in SUBSET (Operations \cup Sidecars) BY <1>1, <1>3 DEF Requests
  <1>6. call'[p] \in Requests /\ Same(p) /\ call'[p].todo = d
    BY <1>3, <1>4, <1>5 DEF Requests, Same
  <1>7. call' = [call EXCEPT ![p] = call'[p]] BY <1>2, <1>4
  <1>8. "recover" \in InLane /\ "recover" \notin Journalled \cup Late \cup Mending
    BY DEF InLane, Journalled, Landing, Late, Mending
  <1>9. SharedOK' BY <1>2, DiskStays DEF SaveInv
  <1>10. call'[p].todo \subseteq Pending BY <1>1, <1>3, <1>6
  <1> QED BY <1>2, <1>3, <1>6, <1>7, <1>8, <1>9, <1>10, HolderChanges

\* A journal goes, undone or mended, and its operation with it.
LEMMA IRecoverAway ==
  ASSUME SaveInv, NEW p \in Processes, FixRemove(p) \/ \E o \in Operations : RecoverBack(p, o)
  PROVE  SaveInv'
  <1>1. PICK o \in Operations :
          /\ pc[p] \in {"recover"} \cup Mending /\ pc' = [pc EXCEPT ![p] = "recover"]
          /\ tx' = [tx EXCEPT ![o] = NoTx]
          /\ UNCHANGED <<file, evidence, ledger, registry, lane, done, acked, calls>>
          /\ \/ call' = [call EXCEPT ![p] = [call[p] EXCEPT !.todo = @ \ {o}, !.mend = None]]
             \/ call' = [call EXCEPT ![p] = [call[p] EXCEPT !.todo = @ \ {o}]]
    <2>1. CASE FixRemove(p)
      <3>1. pc[p] \in Mending BY <2>1 DEF FixRemove, At, Mending
      <3>2. call[p].mend \in Operations BY <3>1, Mender
      <3> QED BY <2>1, <3>1, <3>2 DEF FixRemove, Go, Keep, rare, history
    <2>2. ASSUME NEW o \in Operations, RecoverBack(p, o) PROVE pc' = [pc EXCEPT ![p] = "recover"]
      BY <2>2 DEF RecoverBack, Takes, At, SaveInv, CallsOK
    <2> QED BY <2>1, <2>2 DEF RecoverBack, Takes, At, Skip, Keep, rare
  <1>2. /\ pc[p] \in InLane /\ pc[p] \notin Journalled \cup Owning /\ call[p] \in Requests
        /\ call[p].todo \subseteq Pending
    BY <1>1, Mender
  <1>3. \/ call'[p] = [call[p] EXCEPT !.todo = @ \ {o}, !.mend = None]
        \/ call'[p] = [call[p] EXCEPT !.todo = @ \ {o}]
    BY <1>1 DEF SaveInv, CallsOK
  <1>4. call'[p] \in Requests /\ Same(p) /\ call'[p].todo = call[p].todo \ {o}
    <2>1. call[p].todo \ {o} \in SUBSET (Operations \cup Sidecars) BY <1>2 DEF Requests
    <2>2. PICK d \in SUBSET (Operations \cup Sidecars) : d = call[p].todo \ {o} BY <2>1
    <2>3. CASE call'[p] = [call[p] EXCEPT !.todo = d, !.mend = None]
      BY <1>2, <2>2, <2>3 DEF Requests, Same
    <2>4. CASE call'[p] = [call[p] EXCEPT !.todo = d]
      BY <1>2, <2>2, <2>4 DEF Requests, Same
    <2> QED BY <1>3, <2>2, <2>3, <2>4
  <1>5. call' = [call EXCEPT ![p] = call'[p]] BY <1>1, <1>3
  <1>6. SharedOK' /\ JournalsHeld /\ \A r \in Operations \ {o} : tx'[r] = tx[r]
    BY <1>1, Closed DEF SaveInv
  <1>7. call'[p].todo \subseteq Pending'
    <2>1. Operations' = Operations BY DEF Operations, Calls
    <2> QED BY <1>2, <1>4, <1>6, <2>1 DEF Pending
  <1>8. "recover" \in InLane /\ "recover" \notin Journalled \cup Mending
    BY DEF InLane, Journalled, Landing, Late, Mending
  <1>9. CallsOK' /\ RecordsOK' /\ pc'[p] = "recover" /\ Others(p) /\ Active(p)
    BY <1>1, <1>2, <1>4, <1>5, <1>6, <1>7, <1>8, HolderGoes
  <1> QED BY <1>1, <1>4, <1>6, <1>9, HolderQuiet

\* Mending what the caller was owed: the ledger, the record of completion, the registry.
LEMMA IMend ==
  ASSUME SaveInv, NEW p \in Processes, FixLedger(p) \/ FixComplete(p) \/ FixRecord(p) PROVE SaveInv'
  <1>1. PICK o : o = call[p].mend BY Zenon
  <1>2. PICK there \in {"fix-evidence", "fix-record", "fix-remove"} :
          /\ pc[p] \in Mending /\ pc' = [pc EXCEPT ![p] = there]
          /\ UNCHANGED <<file, evidence, lane, call, done, acked, calls>>
          /\ \/ ledger' = [ledger EXCEPT ![tx[o].path] = @ \cup {o}] /\ UNCHANGED <<registry, tx>>
             \/ /\ UNCHANGED <<ledger, registry>>
                /\ tx' = [tx EXCEPT ![o] = [tx[o] EXCEPT !.phases = @ \cup {"completed"}]]
             \/ /\ UNCHANGED <<ledger, tx>>
                /\ registry' \in {registry, [registry EXCEPT ![tx[o].path] = tx[o].bytes]}
    BY <1>1 DEF FixLedger, FixComplete, FixRecord, Mended, At, Go, rare, history, Mending
  <1>3. /\ pc[p] \in InLane /\ pc[p] \notin Journalled \cup Owning /\ call[p] \in Requests
        /\ call[p].todo \subseteq Pending /\ o \in call[p].todo /\ o \in Operations
    BY <1>1, <1>2, Mender
  <1>4. tx[o] \in Transactions /\ tx[o].bytes \in Bytes /\ tx[o].dir
    BY <1>3, Sorts DEF SaveInv, SharedOK, Transactions, Pending
  <1>5. /\ tx' \in [Operations -> Transactions]
        /\ \A r \in Operations : tx'[r].path = tx[r].path /\ tx'[r].bytes = tx[r].bytes
                                 /\ tx'[r].dir = tx[r].dir
    <2>1. CASE tx' = [tx EXCEPT ![o] = [tx[o] EXCEPT !.phases = @ \cup {"completed"}]]
      <3>1. PICK t : t = [tx[o] EXCEPT !.phases = @ \cup {"completed"}] OBVIOUS
      <3>2. t \in Transactions /\ t.path = tx[o].path /\ t.bytes = tx[o].bytes /\ t.dir = tx[o].dir
        BY <1>4, <3>1 DEF Transactions, Phases
      <3>3. tx' = [tx EXCEPT ![o] = t] BY <2>1, <3>1
      <3> QED BY <1>3, <3>2, <3>3 DEF SaveInv, SharedOK
    <2>2. CASE tx' = tx BY <2>2 DEF SaveInv, SharedOK
    <2> QED BY <1>2, <2>1, <2>2
  <1>6. JournalsHeld /\ Pending' = Pending
    <2>1. \A r \in Operations : tx[r].phases # {} => tx[r].dir BY DEF SaveInv, RecordsOK, RecordOK
    <2>2. \A r \in Operations : tx'[r].phases # {} => tx'[r].dir
      BY <1>2, <1>3, <1>4, <1>5, <2>1 DEF SaveInv, SharedOK
    <2>3. Operations' = Operations BY DEF Operations, Calls
    <2> QED BY <1>5, <2>2, <2>3 DEF JournalsHeld, Pending
  <1>7. SharedOK'
    <2>1. ledger' \in [Paths -> SUBSET Operations] BY <1>2, <1>3 DEF SaveInv, SharedOK
    <2>2. registry' \in Glances BY <1>2, <1>4 DEF SaveInv, SharedOK, Glances
    <2> QED BY <1>2, <1>5, <2>1, <2>2 DEF SaveInv, SharedOK
  <1>8. there \in InLane /\ there \notin Journalled \cup {"record-write"} /\ there \in Mending
    BY <1>2 DEF InLane, Journalled, Landing, Late, Mending
  <1>9. Same(p) /\ call' = [call EXCEPT ![p] = call'[p]] BY <1>2 DEF Same, SaveInv, CallsOK
  <1>10. CallsOK' /\ RecordsOK' /\ pc'[p] = there /\ Others(p) /\ Active(p)
    BY <1>1, <1>2, <1>3, <1>6, <1>8, <1>9, HolderGoes
  <1> QED BY <1>2, <1>7, <1>8, <1>9, <1>10, HolderQuiet

\* The evidence recovery restores is of a build that nobody was told of and that is
\* dead: were it alive it would hold the lane.
LEMMA IFixEvidence == ASSUME SaveInv, NEW p \in Processes, FixEvidence(p) PROVE SaveInv'
  <1>1. PICK o, t, m : o = call[p].mend /\ t = tx[o].path /\ m = tx[o].bytes OBVIOUS
  <1>2. PICK there \in {"fix-remove", "fix-complete"} :
          /\ pc[p] = "fix-evidence" /\ pc' = [pc EXCEPT ![p] = there]
          /\ evidence' = [evidence EXCEPT ![t]["build"] = m]
          /\ UNCHANGED <<file, ledger, registry, tx, lane, call, done, acked, calls>>
    BY <1>1 DEF FixEvidence, Mended, At, Go, rare, history
  <1>3. pc[p] \in Mending BY <1>2 DEF Mending
  <1>4. /\ pc[p] \in InLane /\ pc[p] \notin Journalled \cup Owning /\ call[p] \in Requests
        /\ call[p].todo \subseteq Pending /\ o \in call[p].todo /\ o \in Operations
    BY <1>1, <1>3, Mender
  <1>5. lane = p BY <1>4, Holder
  <1>6. t \in Paths \cup {None} /\ m \in Bytes
    BY <1>1, <1>4, Sorts DEF SaveInv, SharedOK, Transactions
  <1>7. there \in InLane /\ there \notin Journalled \cup {"record-write"} \cup Settling \cup Late
        /\ there \in Mending
    BY <1>2 DEF InLane, Journalled, Landing, Late, Mending, Settling
  <1>8. /\ JournalsHeld /\ Pending' = Pending /\ Same(p) /\ call' = [call EXCEPT ![p] = call'[p]]
    BY <1>2, JournalsStay DEF SaveInv, CallsOK, Same, Pending, Operations, Calls
  <1>9. CallsOK' /\ RecordsOK' /\ pc'[p] = there /\ Others(p) /\ Active(p) /\ Known
    BY <1>1, <1>2, <1>4, <1>7, <1>8, HolderGoes
  <1>10. CASE t = None
    <2>1. evidence' = evidence BY <1>2, <1>10, Sorts DEF SaveInv, SharedOK
    <2>2. SharedOK' BY <1>2, <2>1, DiskStays DEF SaveInv
    <2> QED BY <1>2, <1>7, <1>8, <1>9, <2>1, <2>2, HolderQuiet
  <1>11. CASE t \in Paths
    <2>1. /\ evidence' \in [Paths -> [Sidecars -> Bytes]] /\ evidence'[t]["build"] = m
          /\ \A u \in Paths, r \in Sidecars : u # t \/ r # "build" => evidence'[u][r] = evidence[u][r]
      BY <1>2, <1>6, <1>11, EvidenceAt DEF SaveInv, Sidecars
    <2>2. SharedOK' BY <1>2, <2>1 DEF SaveInv, SharedOK
    <2>3. RecordOK(o) BY <1>4 DEF SaveInv, RecordsOK
    <2>4. t \in Outputs =>
            /\ m \in 1..calls /\ m \notin Credited
            /\ \A q \in Processes : Active(q) => call[q].n # m
      <3>1. ASSUME t \in Outputs, NEW q \in Processes, Active(q), call[q].n = m PROVE FALSE
        <4>1. pc[q] \in Owning BY <1>1, <2>3, <3>1 DEF RecordOK, Owning
        <4>2. lane = q BY <4>1 DEF SaveInv, CallsOK, CallOK, InLane, Journalled, Owning
        <4> QED BY <1>4, <1>5, <4>1, <4>2
      <3> QED BY <1>1, <2>3, <3>1 DEF RecordOK
    <2>5. t \in Outputs => Fits(m, t) /\ NotClaimed(m)'
      <3>1. \A q \in Processes : Active(q)' => Active(q) /\ call'[q].n = call[q].n
        BY <1>9 DEF Known
      <3> QED BY <1>2, <2>4, <3>1 DEF Fits, NotClaimed, Credited, SaveInv, SharedOK
    <2>6. PlacesOK'
      <3>1. \A u \in Outputs, s \in Sidecars :
              evidence'[u][s] = evidence[u][s] \/ Fits(evidence'[u][s], u)
        BY <2>1, <2>5, Sorts
      <3>2. t \in Calls => m = t BY <1>1, <2>3 DEF RecordOK
      <3>3. \A k \in Calls :
              file'[k] \in {None, k} /\ \A s \in Sidecars : evidence'[k][s] \in {None, k}
        BY <1>2, <2>1, <3>2, Sorts DEF SaveInv, PlacesOK
      <3>4. \A q \in Processes : Active(q) => call[q].n \in Calls BY RequestOf DEF SaveInv
      <3> QED BY <1>2, <1>9, <3>1, <3>3, <3>4, PlacesKept DEF SaveInv
    <2>7. EvidenceOK'
      <3>1. Saved' \subseteq Saved /\ ClaimsStay
        BY <1>2, <1>7, <1>9, Unsettled DEF SaveInv, Mending
      <3>2. \A u \in Outputs, s \in Sidecars :
              evidence'[u][s] = evidence[u][s] \/ NotClaimed(evidence[u][s])'
        BY <2>1, <2>5, Sorts DEF NotClaimed
      <3>3. \A q \in Processes :
              pc'[q] = "compare" /\ file'[call'[q].out] = call'[q].n => call'[q].before = call'[q].n
        BY <1>2, <1>9, <1>7 DEF SaveInv, EvidenceOK, Others, Mending
      <3> QED BY <1>2, <3>1, <3>2, <3>3, EvidenceKept DEF SaveInv
    <2> QED BY <1>9, <2>2, <2>6, <2>7 DEF SaveInv
  <1> QED BY <1>6, <1>10, <1>11

LEMMA IRecovered == ASSUME SaveInv, NEW p \in Processes, Recovered(p) PROVE SaveInv'
  <1>1. /\ pc[p] = "recover"
        /\ UNCHANGED <<file, evidence, ledger, registry, tx, done, acked, calls>>
        /\ \/ pc' = [pc EXCEPT ![p] = "check"] /\ UNCHANGED <<lane, call>>
           \/ /\ pc' = [pc EXCEPT ![p] = "idle"] /\ call' = [call EXCEPT ![p] = NoCall]
              /\ lane' = (IF lane = p THEN None ELSE lane)
           \/ /\ pc' = [pc EXCEPT ![p] = "discard"] /\ call' = call /\ call[p].kind # "build"
              /\ lane' = (IF lane = p THEN None ELSE lane)
    BY DEF Recovered, Refuse, At, Go, Keep, Unlock, disk, rare
  <1>2. pc[p] \in InLane /\ pc[p] \notin Owning
    BY <1>1 DEF InLane, Owning, Landing, Late
  <1>3. lane = p /\ Active(p) /\ call[p] \in Requests BY <1>2, Holder
  <1>4. SharedOK' /\ JournalsHeld BY <1>1, DiskStays, JournalsStay DEF SaveInv
  <1>5. CASE pc' = [pc EXCEPT ![p] = "check"] /\ UNCHANGED <<lane, call>>
    <2>1. "check" \in InLane
          /\ "check" \notin {"record-write", "recover"} \cup Mending \cup Journalled \cup Late
      BY DEF InLane, Journalled, Landing, Late, Mending
    <2> QED BY <1>1, <1>2, <1>3, <1>4, <1>5, <2>1, HolderMoves
  <1>6. CASE /\ pc' = [pc EXCEPT ![p] = "idle"] /\ call' = [call EXCEPT ![p] = NoCall]
             /\ lane' = (IF lane = p THEN None ELSE lane)
    BY <1>1, <1>4, <1>6, Leaves
  <1>7. CASE /\ pc' = [pc EXCEPT ![p] = "discard"] /\ call' = call /\ call[p].kind # "build"
             /\ lane' = (IF lane = p THEN None ELSE lane)
    <2>1. pc'[p] = "discard" /\ Shaped' /\ Others(p) /\ Same(p)
      BY <1>7, Moves DEF SaveInv, AllSteps, Moving
    <2>2. Onwards(p) /\ Active(p)' /\ call[p].kind = "save"
      BY <1>3, <1>7, <2>1 DEF Onwards, Active, Settling, Requests
    <2>3. "discard" \notin InLane \cup {"record-write", "save-record-write"}
      BY DEF InLane, Journalled, Landing, Late, Mending
    <2>4. \A q \in Processes : q # p => (lane' = q <=> lane = q) BY <1>3, <1>7, Sorts
    <2>5. CallsOK'
      BY <1>1, <1>3, <1>7, <2>1, <2>2, <2>3, <2>4, Sorts, ProcessGoes DEF SaveInv, InLane
    <2> QED BY <1>1, <1>3, <1>4, <2>1, <2>2, <2>5, Quiet DEF SaveInv
  <1> QED BY <1>1, <1>5, <1>6, <1>7

-----------------------------------------------------------------------------
(* Everybody else, and the whole. *)

LEMMA IForeign ==
  ASSUME SaveInv, NEW t \in Outputs, NEW b \in Foreign \cup {None}, Foreignly(t, b) PROVE SaveInv'
  <1>1. /\ file' = [file EXCEPT ![t] = b]
        /\ UNCHANGED <<evidence, ledger, registry, tx, lane, pc, call, done, acked, calls>>
    BY DEF Foreignly, Land
  <1>2. t \in Paths /\ t \notin Calls /\ b \in Bytes /\ b \notin Calls BY Sorts
  <1>3. file' \in [Paths -> Bytes] /\ file'[t] = b /\ \A u \in Paths \ {t} : file'[u] = file[u]
    BY <1>1, <1>2, FileAt DEF SaveInv
  <1>4. SharedOK' BY <1>1, <1>3 DEF SaveInv, SharedOK
  <1>5. CallsOK'
    BY <1>1 DEF SaveInv, CallsOK, CallOK, Active, Mine, Pending, Operations, Calls
  <1>6. RecordsOK'
    <2>1. \A q \in Processes : Active(q)' =>
            /\ Active(q) /\ call'[q].n = call[q].n /\ call'[q].op = call[q].op
            /\ call'[q].kind = call[q].kind
            /\ pc[q] \in Owning /\ call[q].kind = "build" => pc'[q] \in Owning
      BY <1>1 DEF Active
    <2> QED BY <1>1, <2>1, RecordsStay DEF SaveInv
  <1>7. Known BY <1>1 DEF Known, Active
  <1>8. \A q \in Processes : Active(q) => call[q].n \in Calls BY RequestOf DEF SaveInv
  <1>9. PlacesOK'
    <2>1. \A u \in Outputs : file'[u] = file[u] \/ Fits(file'[u], u)
      BY <1>2, <1>3, Sorts DEF Fits
    <2>2. \A m \in Calls :
            file'[m] \in {None, m} /\ \A s \in Sidecars : evidence'[m][s] \in {None, m}
      BY <1>1, <1>2, <1>3, Sorts DEF SaveInv, PlacesOK
    <2> QED BY <1>1, <1>7, <1>8, <2>1, <2>2, PlacesKept DEF SaveInv
  <1>10. EvidenceOK'
    <2>1. \A q \in Processes : pc'[q] \in Settling => pc[q] \in Settling /\ call'[q].n = call[q].n
      BY <1>1
    <2>2. Saved' \subseteq Saved BY <1>1, <2>1, NoNewSaves
    <2>3. \A q \in Processes : Active(q)' /\ Claims(q)' => Claims(q) BY <1>1 DEF Claims
    <2>4. Credited' = Credited BY <1>1 DEF Credited
    <2>5. ClaimsStay BY <1>7, <2>3, <2>4, ClaimsHeld DEF SaveInv
    <2>6. Saved \subseteq Calls
      <3>1. \A q \in Processes : pc[q] \in Settling => Active(q) BY DEF Settling, Active
      <3>2. done \subseteq Calls
        <4>1. done \subseteq 1..calls BY DEF SaveInv, RecordsOK, AnswersOK, Credited
        <4>2. 1..calls \subseteq Calls BY Sorts DEF SaveInv, SharedOK
        <4> QED BY <4>1, <4>2
      <3> QED BY <1>8, <3>1, <3>2 DEF Saved
    <2>7. \A u \in Outputs : file'[u] = file[u] \/ file'[u] \notin Saved'
      BY <1>2, <1>3, <2>2, <2>6, Sorts
    <2>8. \A q \in Processes :
            pc'[q] = "compare" /\ file'[call'[q].out] = call'[q].n => call'[q].before = call'[q].n
      <3>1. ASSUME NEW q \in Processes, pc'[q] = "compare"
            PROVE  call'[q] = call[q] /\ call[q].n \in Calls /\ call[q].out \in Outputs /\ pc[q] = "compare"
        BY <1>1, <3>1, RequestOf DEF SaveInv, Active
      <3> QED BY <1>2, <1>3, <3>1, Sorts DEF SaveInv, EvidenceOK
    <2> QED BY <1>1, <2>2, <2>5, <2>7, <2>8, EvidenceKept DEF SaveInv
  <1> QED BY <1>4, <1>5, <1>6, <1>9, <1>10 DEF SaveInv

LEMMA IInit == Init => SaveInv
  <1> SUFFICES ASSUME Init PROVE SaveInv OBVIOUS
  <1>1. \A p \in Processes : pc[p] = "idle" /\ call[p] = NoCall BY DEF Init
  <1>2. SharedOK
    <2>1. 0 \in 0..MaxCalls BY Sorts
    <2>2. file \in [Paths -> Bytes] BY Sorts DEF Init
    <2>3. evidence \in [Paths -> [Sidecars -> Bytes]] BY Sorts DEF Init
    <2>4. registry \in Glances BY Sorts DEF Init, Glances
    <2>5. tx \in [Operations -> Transactions] BY NoTxIsJournal DEF Init
    <2>6. ledger \in [Paths -> SUBSET Operations] /\ calls = 0 BY DEF Init
    <2> QED BY <2>1, <2>2, <2>3, <2>4, <2>5, <2>6 DEF SharedOK
  <1>3. CallsOK
    <2>1. ASSUME NEW p \in Processes PROVE CallOK(p)
      <3>1. lane # p BY Sorts DEF Init
      <3> QED BY <1>1, <3>1
        DEF CallOK, Active, InLane, Moving, Settling, Journalled, Landing, Late, Mending
    <2> QED BY <1>1, <2>1 DEF CallsOK, Init, Active
  <1>4. RecordsOK
    <2>1. Credited = {} BY DEF Init, Credited
    <2>2. \A o \in Operations : tx[o] = NoTx BY DEF Init
    <2> QED BY <1>1, <2>1, <2>2, NoTxIsJournal, Sorts DEF RecordsOK, AnswersOK, RecordOK, Active
  <1>5. \A t \in Outputs : file[t] \notin Calls /\ \A s \in Sidecars : evidence[t][s] = None
    BY Sorts DEF Init
  <1>6. PlacesOK
    <2>1. ASSUME NEW n \in Calls
          PROVE  file[n] \in {None, n} /\ \A s \in Sidecars : evidence[n][s] \in {None, n}
      <3>1. n # Source BY PublishAssumption DEF Calls
      <3> QED BY <3>1, Sorts DEF Init
    <2> QED BY <1>1, <1>5, <2>1, Sorts DEF PlacesOK, Active
  <1>7. EvidenceOK
    <2>1. Saved = {} BY <1>1 DEF Saved, Init, Settling
    <2> QED BY <1>1, <2>1 DEF EvidenceOK
  <1> QED BY <1>2, <1>3, <1>4, <1>6, <1>7 DEF SaveInv

LEMMA INext == ASSUME SaveInv, Next PROVE SaveInv'
  <1>1. ASSUME NEW p \in Processes, Transaction(p) PROVE SaveInv'
    BY <1>1, IAcquire, IRefuse, IBegin, IRun, ICheckStaged, ILook, IPrepare, ILand, ILoad,
       IRecordSuccess, ILog, IRemoveTx, IAbort
    DEF Transaction
  <1>2. ASSUME NEW p \in Processes, Publication(p) PROVE SaveInv'
    BY <1>2, IVerifyStaged, ILookAround, IMoveEvidence, IMoveOperations, ISaveLands, IDiscard,
       IReread, ICompare, ISaveRecord
    DEF Publication
  <1>3. ASSUME NEW p \in Processes, Recovery(p) PROVE SaveInv'
    BY <1>3, IPick, IRecoverAway, IMend, IFixEvidence, IRecovered DEF Recovery
  <1>4. ASSUME NEW p \in Processes, FailStep(p) \/ FailMove(p) \/ Crash(p) PROVE SaveInv'
    BY <1>4, ILook, IFailMove, IRefuse
  <1> QED BY <1>1, <1>2, <1>3, <1>4, ICall, IFailMend, IForeign, Somebody DEF Work

LEMMA IStutter == ASSUME SaveInv, UNCHANGED vars PROVE SaveInv'
  BY DEF SaveInv, vars, SharedOK, CallsOK, CallOK, Active, Mine, Pending, Operations, Calls,
         RecordsOK, AnswersOK, RecordOK, Credited, PlacesOK, Placed, EvidenceOK, Saved, NotClaimed,
         Claims

\* What only remembers how calls ended.
MarksOK == slipped \subseteq Processes /\ late \subseteq Calls /\ unrecorded \subseteq Bytes

LEMMA MarksNext == ASSUME SaveInv, MarksOK, [Next]_vars PROVE MarksOK'
  <1>1. CASE UNCHANGED vars BY <1>1 DEF vars, MarksOK, Calls, Bytes
  <1>2. ASSUME NEW p \in Processes, FailStep(p) PROVE MarksOK'
    <2>1. pc[p] \in InLane
      BY <1>2 DEF FailStep, FallibleEarly, FallibleLate, InLane, Journalled, Landing, Late
    <2>2. call[p].n \in Calls /\ call[p].n \in Bytes BY <2>1, Holder, Sorts
    <2> QED BY <1>2, <2>2 DEF FailStep, DropGuard, MarksOK, Calls, Bytes
  <1>3. ASSUME NEW p \in Processes PROVE Owed(p) \subseteq Bytes
    <2>1. CASE pc[p] = "fix-record"
      <3>1. call[p].mend \in Operations BY <2>1, Mender DEF Mending
      <3>2. tx[call[p].mend].bytes \in Bytes BY <3>1, Sorts DEF SaveInv, SharedOK, Transactions
      <3> QED BY <3>2 DEF Owed, Mended
    <2>2. CASE pc[p] # "fix-record" BY <2>2 DEF Owed, At
    <2> QED BY <2>1, <2>2
  <1>4. ASSUME NEW p \in Processes, FailMend(p) \/ Crash(p) PROVE MarksOK'
    BY <1>3, <1>4 DEF FailMend, Crash, DropGuard, MarksOK, Calls, Bytes
  <1>5. ASSUME NEW p \in Processes, FailMove(p) PROVE MarksOK'
    BY <1>5 DEF FailMove, DropGuard, MarksOK, Calls, Bytes
  <1>6. ASSUME NEW p \in Processes, Transaction(p) PROVE MarksOK'
    BY <1>6 DEF Transaction, Acquire, Busy, Replay, RefuseEntry, Begin, Run, CheckStaged,
       RefuseStaged, Prepare, Gate, Link, Hold, Replace, Load, RecordSuccess, LogPublished, Commit,
       WriteLedger, Complete, RemoveTx, Abort, rare, DropGuard, MarksOK, Calls, Bytes
  <1>7. ASSUME NEW p \in Processes, Publication(p) PROVE MarksOK'
    BY <1>7 DEF Publication, VerifyStaged, Capture, Guard, MoveBuildEvidence, MoveVerifyEvidence,
       MoveOperations, SaveReplace, SaveLink, Discard, Reread, Compare, SaveRecord, rare, DropGuard,
       MarksOK, Calls, Bytes
  <1>8. ASSUME NEW p \in Processes, Recovery(p) PROVE MarksOK'
    BY <1>8 DEF Recovery, RecoverStick, RecoverBack, RecoverForward, FixLedger, FixEvidence,
       FixComplete, FixRecord, FixRemove, Recovered, rare, MarksOK, Calls, Bytes
  <1>9. ASSUME NEW p \in Processes, NEW kind \in Kinds, NEW o \in Ops, NEW out \in Outputs,
               Call(p, kind, o, out)
        PROVE  MarksOK'
    BY <1>9 DEF Call, MarksOK, Calls, Bytes
  <1>10. ASSUME NEW t \in Outputs, NEW b \in Foreign \cup {None},
                ForeignWrite(t, b) \/ ForeignRename(t, b)
         PROVE  MarksOK'
    BY <1>10 DEF ForeignWrite, ForeignRename, Foreignly, MarksOK, Calls, Bytes
  <1> QED BY <1>1, <1>2, <1>4, <1>5, <1>6, <1>7, <1>8, <1>9, <1>10 DEF Next, Work

\* Documents, evidence, ledgers, registry, journals and processes keep their shape,
\* whatever fails and whoever dies.
THEOREM SavesAndBuildsTyped == Spec => []TypeOK
  <1>1. SaveInv /\ MarksOK => TypeOK
    <2> SUFFICES ASSUME SaveInv, MarksOK PROVE TypeOK OBVIOUS
    <2>1. \A o \in Operations : tx[o].phases # {} => tx[o].dir BY DEF SaveInv, RecordsOK, RecordOK
    <2>2. lane # None => pc[lane] # "idle"
      BY DEF SaveInv, CallsOK, CallOK, InLane, Journalled, Landing, Late, Mending
    <2> QED BY <2>1, <2>2 DEF TypeOK, SaveInv, SharedOK, CallsOK, Glances, MarksOK
  <1>2. Init => MarksOK BY DEF Init, MarksOK
  <1>3. SaveInv /\ MarksOK /\ [Next]_vars => SaveInv' /\ MarksOK' BY INext, IStutter, MarksNext
  <1> QED BY <1>1, <1>2, <1>3, IInit, PTL DEF Spec

\* Beside a saved document that was answered with success lies its own evidence, or
\* evidence no answered call vouches for (save.rs 625-662), with builds and saves of
\* any number of processes, errors at any step and deaths at any step.
THEOREM EvidenceIsTheDocuments == Spec => []EvidenceOfTheDocument
  <1>1. SaveInv => EvidenceOfTheDocument
    BY DEF SaveInv, EvidenceOK, EvidenceOfTheDocument, Saved, NotClaimed, Credited
  <1> QED BY <1>1, IInit, INext, IStutter, PTL DEF Spec

-----------------------------------------------------------------------------
(* The work of the other program. *)

\* The steps of a save that has the guard of an old output.
Sides == {"side-build", "side-verify", "side-ledger", "save-replace"}

\* Whoever holds a guard on the file at an output remembers the bytes of the other
\* program that it holds.
GuardOK ==
  \A p \in Processes, t \in Outputs :
    Guarding(p, t) /\ p \notin slipped /\ file[t] \in Foreign => call[p].before = file[t]

\* The ways an output changes.
LEMMA OutputChanges ==
  ASSUME SaveInv, Next, NEW t \in Outputs, file'[t] # file[t]
  PROVE  \/ file'[t] = None
         \/ \E b \in Foreign : (ForeignWrite(t, b) \/ ForeignRename(t, b)) /\ file'[t] = b
         \/ file'[t] \in Calls /\ (file[t] = None \/ \E p \in Processes : Replacing(p, t))
  <1>1. t \in Paths /\ t \notin Calls BY Sorts
  <1>2. ASSUME NEW p \in Processes, Link(p) \/ Replace(p)
        PROVE  file'[t] \in Calls /\ (file[t] = None \/ Replacing(p, t))
    <2>1. pc[p] \in InLane BY <1>2 DEF Link, Replace, At, InLane, Journalled, Landing
    <2>2. call[p].path \in Paths /\ call[p].n \in Calls /\ call[p].n \in Bytes BY <2>1, Holder, Sorts
    <2>3. file' = [file EXCEPT ![call[p].path] = call[p].n] BY <1>2 DEF Link, Replace, Land
    <2>4. t = call[p].path /\ file'[t] = call[p].n BY <1>1, <2>2, <2>3, FileAt DEF SaveInv
    <2> QED BY <1>2, <2>2, <2>4 DEF Link, Replace, Replacing
  <1>3. ASSUME NEW p \in Processes, SaveReplace(p) \/ SaveLink(p)
        PROVE  file'[t] = None \/ (file'[t] \in Calls /\ (file[t] = None \/ Replacing(p, t)))
    <2>1. pc[p] \in Moving BY <1>3 DEF SaveReplace, SaveLink, At, Moving
    <2>2. /\ call[p].out \in Paths /\ call[p].n \in Paths /\ call[p].n \in Calls
          /\ file[call[p].n] \in {None, call[p].n}
      BY <2>1, Saver DEF SaveInv, PlacesOK
    <2>3. file' = [file EXCEPT ![call[p].out] = file[call[p].n], ![call[p].n] = None]
      BY <1>3 DEF SaveReplace, SaveLink, MoveDocument, Out, Staging
    <2>4. t = call[p].out /\ file'[t] = file[call[p].n]
      BY <1>1, <2>2, <2>3 DEF SaveInv, SharedOK
    <2> QED BY <1>3, <2>2, <2>4 DEF SaveReplace, SaveLink, Replacing, Out
  <1>4. ASSUME NEW p \in Processes, Discard(p) \/ FailMove(p) PROVE file'[t] = None
    <2>1. PICK u : file' = [file EXCEPT ![u] = None]
      BY <1>1, <1>4 DEF Discard, FailMove
    <2> QED BY <1>1, <2>1 DEF SaveInv, SharedOK
  <1>5. ASSUME NEW u \in Outputs, NEW b \in Foreign \cup {None},
               ForeignWrite(u, b) \/ ForeignRename(u, b)
        PROVE  \/ file'[t] = None
               \/ b \in Foreign /\ (ForeignWrite(t, b) \/ ForeignRename(t, b)) /\ file'[t] = b
    <2>1. file' = [file EXCEPT ![u] = b] /\ u \in Paths /\ b \in Bytes
      BY <1>5, Sorts DEF ForeignWrite, ForeignRename, Foreignly, Land
    <2>2. u = t /\ file'[t] = b BY <1>1, <2>1, FileAt DEF SaveInv
    <2> QED BY <1>5, <2>2
  <1>6. ASSUME NEW p \in Processes, Transaction(p), ~Link(p), ~Replace(p) PROVE FALSE
    BY <1>6 DEF Transaction, Acquire, Busy, Replay, RefuseEntry, Begin, Run, CheckStaged,
       RefuseStaged, Prepare, Gate, Hold, Load, RecordSuccess, LogPublished, Commit, WriteLedger,
       Complete, RemoveTx, Abort, disk
  <1>7. ASSUME NEW p \in Processes, Publication(p), ~SaveReplace(p), ~SaveLink(p), ~Discard(p)
        PROVE  FALSE
    BY <1>7 DEF Publication, VerifyStaged, Capture, Guard, MoveBuildEvidence, MoveVerifyEvidence,
       MoveOperations, Reread, Compare, SaveRecord, disk
  <1>8. ASSUME NEW p \in Processes, Recovery(p) PROVE FALSE
    BY <1>8 DEF Recovery, RecoverStick, RecoverBack, RecoverForward, FixLedger, FixEvidence,
       FixComplete, FixRecord, FixRemove, Recovered, disk
  <1>9. ASSUME NEW p \in Processes, FailStep(p) \/ FailMend(p) \/ Crash(p) PROVE FALSE
    BY <1>9 DEF FailStep, FailMend, Crash, disk
  <1>10. ASSUME NEW p \in Processes, NEW kind \in Kinds, NEW o \in Ops, NEW out \in Outputs,
                Call(p, kind, o, out)
         PROVE  FALSE
    BY <1>10 DEF Call, disk
  <1> QED BY <1>2, <1>3, <1>4, <1>5, <1>6, <1>7, <1>8, <1>9, <1>10 DEF Next, Work

\* Where a step leads that takes no guard.
StaysElsewhere(q) ==
  /\ \E there \in {"idle", "lane"} \cup ((InLane \cup Moving) \ (Sides \cup {"replace"})) :
       pc' = [pc EXCEPT ![q] = there]
  /\ call' = call \/ \E c : call' = [call EXCEPT ![q] = c]

LEMMA GoesElsewhere ==
  ASSUME SaveInv, NEW q \in Processes,
         \/ (Transaction(q) /\ ~Hold(q)) \/ Recovery(q)
         \/ FailStep(q) \/ FailMove(q) \/ FailMend(q) \/ Crash(q)
  PROVE  StaysElsewhere(q)
  <1>1. CASE Acquire(q) \/ Busy(q) \/ Replay(q) \/ RefuseEntry(q) \/ Begin(q) \/ Run(q)
    BY <1>1 DEF Acquire, Busy, Replay, RefuseEntry, Begin, Run, Refuse, Go, Keep, StaysElsewhere, Sides,
       InLane, Journalled, disk
  <1>2. CASE CheckStaged(q) \/ RefuseStaged(q) \/ Prepare(q) \/ Gate(q) \/ Link(q) \/ Replace(q)
    BY <1>2 DEF CheckStaged, RefuseStaged, Prepare, Gate, Link, Replace, Go, Keep, StaysElsewhere, Sides,
       InLane, Journalled, Landing, Late
  <1>3. CASE \/ Load(q) \/ RecordSuccess(q) \/ LogPublished(q) \/ Commit(q) \/ WriteLedger(q)
             \/ Complete(q) \/ RemoveTx(q) \/ Abort(q)
    BY <1>3 DEF Load, RecordSuccess, LogPublished, Commit, WriteLedger, Complete, RemoveTx, Abort,
       Refuse, Go, Keep, StaysElsewhere, Sides, InLane, Journalled, Late, Moving, Settling
  <1>4. CASE \E o \in Operations : RecoverStick(q, o) \/ RecoverBack(q, o)
    <2>1. pc' = [pc EXCEPT ![q] = "recover"] /\ \E c : call' = [call EXCEPT ![q] = c]
      BY <1>4 DEF RecoverStick, RecoverBack, Takes, At, Skip, Keep, SaveInv, CallsOK
    <2> QED BY <2>1 DEF StaysElsewhere, Sides, InLane
  <1>5. CASE \/ \E o \in Operations : RecoverForward(q, o)
             \/ FixLedger(q) \/ FixEvidence(q) \/ FixComplete(q) \/ FixRecord(q) \/ FixRemove(q)
             \/ Recovered(q)
    BY <1>5 DEF RecoverForward, FixLedger, FixEvidence, FixComplete, FixRecord, FixRemove, Recovered,
       Refuse, Go, Keep, StaysElsewhere, Sides, InLane, Mending, Moving
  <1>6. CASE FailStep(q) \/ FailMove(q) \/ FailMend(q) \/ Crash(q)
    BY <1>6 DEF FailStep, FailMove, FailMend, Crash, Go, Keep, StaysElsewhere, Sides, InLane, Moving
  <1> QED BY <1>1, <1>2, <1>3, <1>4, <1>5, <1>6 DEF Transaction, Recovery

\* A guard is taken over what is there, and what it remembers stays.
LEMMA GuardTaken ==
  ASSUME SaveInv, Next, NEW p \in Processes, NEW t \in Outputs, Guarding(p, t)'
  PROVE  \/ Guarding(p, t) /\ call'[p].before = call[p].before
         \/ file' = file /\ call'[p].before = file[t]
  <1>1. pc'[p] \in Sides \cup {"replace"} BY DEF Guarding, At, Sides
  <1>2. CASE pc'[p] = pc[p] /\ call'[p] = call[p]
    BY <1>2 DEF Guarding, At, Out
  <1>3. ASSUME NEW q \in Processes, StaysElsewhere(q) PROVE pc'[p] = pc[p] /\ call'[p] = call[p]
    <2>1. PICK there : there \notin Sides \cup {"replace"} /\ pc' = [pc EXCEPT ![q] = there]
      BY <1>3 DEF StaysElsewhere, Sides
    <2>2. pc'[q] = there /\ \A r \in Processes \ {q} : pc'[r] = pc[r]
      BY <2>1 DEF SaveInv, CallsOK
    <2>3. p # q BY <1>1, <2>1, <2>2
    <2> QED BY <1>3, <2>2, <2>3 DEF SaveInv, CallsOK, StaysElsewhere
  <1>4. ASSUME NEW q \in Processes, q # p, Publication(q) \/ Hold(q)
        PROVE  pc'[p] = pc[p] /\ call'[p] = call[p]
    BY <1>4 DEF Publication, VerifyStaged, Capture, Guard, MoveBuildEvidence, MoveVerifyEvidence,
       MoveOperations, SaveReplace, SaveLink, Discard, Reread, Compare, SaveRecord, Hold, Refuse,
       Go, Keep, SaveInv, CallsOK
  <1>5. CASE Hold(p) \/ Guard(p)
    <2>1. call' = call /\ file' = file BY <1>5 DEF Hold, Guard, disk
    <2>2. CASE Hold(p)
      <3>1. /\ pc' = [pc EXCEPT ![p] =
                        IF file[call[p].path] = call[p].before THEN "replace" ELSE "abort"]
        BY <2>2 DEF Hold, Go
      <3>2. pc'[p] = "replace" /\ file[call[p].path] = call[p].before
        BY <1>1, <3>1 DEF SaveInv, CallsOK, Sides
      <3>3. t = call[p].path BY <2>1, <3>2 DEF Guarding, At
      <3> QED BY <2>1, <3>2, <3>3
    <2>3. CASE Guard(p)
      <3>1. /\ pc' = [pc EXCEPT ![p] =
                        IF file[call[p].out] # call[p].before THEN "discard"
                        ELSE IF call[p].before = None THEN "new-document" ELSE "side-build"]
        BY <2>3 DEF Guard, Go, Out
      <3>2. pc'[p] = "side-build" /\ file[call[p].out] = call[p].before
        BY <1>1, <3>1 DEF SaveInv, CallsOK, Sides
      <3>3. t = call[p].out BY <2>1, <3>2 DEF Guarding, At, Out
      <3> QED BY <2>1, <3>2, <3>3
    <2> QED BY <1>5, <2>2, <2>3
  <1>6. CASE MoveBuildEvidence(p) \/ MoveVerifyEvidence(p) \/ MoveOperations(p)
    <2>1. /\ pc[p] \in {"side-build", "side-verify", "side-ledger", "new-build", "new-verify", "new-ledger"}
          /\ \E d : call' = [call EXCEPT ![p] = [call[p] EXCEPT !.todo = d]]
          /\ \/ pc[p] \in Sides
             \/ \E there \in {"new-verify", "new-ledger", "reread"} : pc' = [pc EXCEPT ![p] = there]
      BY <1>6 DEF MoveBuildEvidence, MoveVerifyEvidence, MoveOperations, At, Go, Keep, Sides
    <2>2. pc[p] \in Sides
      <3>1. ASSUME NEW there \in {"new-verify", "new-ledger", "reread"},
                   pc' = [pc EXCEPT ![p] = there]
            PROVE  FALSE
        BY <1>1, <3>1 DEF SaveInv, CallsOK, Sides
      <3> QED BY <2>1, <3>1
    <2>3. call[p] \in Requests BY <2>1, Saver DEF Moving
    <2>4. PICK d : call' = [call EXCEPT ![p] = [call[p] EXCEPT !.todo = d]] BY <2>1
    <2>5. call'[p] = [call[p] EXCEPT !.todo = d] BY <2>4 DEF SaveInv, CallsOK
    <2>6. call'[p].out = call[p].out /\ call'[p].before = call[p].before
      BY <2>3, <2>5 DEF Requests
    <2>7. pc'[p] # "replace"
      BY <1>6 DEF MoveBuildEvidence, MoveVerifyEvidence, MoveOperations, Go, SaveInv, CallsOK
    <2> QED BY <2>2, <2>6, <2>7 DEF Guarding, At, Out, Sides
  <1>7. CASE \/ VerifyStaged(p) \/ Capture(p) \/ SaveReplace(p) \/ SaveLink(p) \/ Discard(p)
             \/ Reread(p) \/ Compare(p) \/ SaveRecord(p)
    <2>1. StaysElsewhere(p)
      BY <1>7 DEF VerifyStaged, Capture, SaveReplace, SaveLink, Discard, Reread, Compare, SaveRecord,
         Refuse, Go, Keep, StaysElsewhere, Sides, Moving, Settling
    <2> QED BY <1>2, <1>3, <2>1
  <1>8. ASSUME NEW q \in Processes, NEW kind \in Kinds, NEW o \in Ops, NEW out \in Outputs,
               Call(q, kind, o, out)
        PROVE  StaysElsewhere(q)
    BY <1>8 DEF Call, Go, Keep, StaysElsewhere
  <1>9. ASSUME NEW u \in Outputs, NEW b \in Foreign \cup {None}, Foreignly(u, b)
        PROVE  pc'[p] = pc[p] /\ call'[p] = call[p]
    BY <1>9 DEF Foreignly
  <1>10. ASSUME NEW q \in Processes, Work(q)
         PROVE  \/ StaysElsewhere(q) \/ (q # p /\ (Publication(q) \/ Hold(q)))
                \/ (q = p /\ (Publication(p) \/ Hold(p)))
    BY <1>10, GoesElsewhere DEF Work
  <1>11. CASE \E q \in Processes : Work(q) /\ q = p /\ (Publication(p) \/ Hold(p))
    BY <1>5, <1>6, <1>7, <1>11 DEF Publication
  <1> QED BY <1>2, <1>3, <1>4, <1>8, <1>9, <1>10, <1>11, GoesElsewhere, Somebody

\* Who has lost the file under its guard has lost it for as long as it holds the guard.
LEMMA LostIsLost ==
  ASSUME SaveInv, Next, NEW p \in Processes, p \in slipped, NEW t \in Outputs, Guarding(p, t)'
  PROVE  p \in slipped'
  <1>1. pc'[p] \in Sides \cup {"replace"} BY DEF Guarding, At, Sides
  <1>2. ASSUME NEW q \in Processes, DropGuard(q),
               NEW there \in {"record", "abort", "reread", "discard", "idle"},
               pc' = [pc EXCEPT ![q] = there]
        PROVE  p \in slipped'
    <2>1. p # q BY <1>1, <1>2 DEF SaveInv, CallsOK, Sides
    <2> QED BY <1>2, <2>1 DEF DropGuard
  <1>3. ASSUME NEW q \in Processes, Replace(q) \/ SaveReplace(q) \/ FailStep(q) \/ FailMove(q) \/ Crash(q)
        PROVE  p \in slipped'
    <2>1. DropGuard(q) /\ \E there \in {"record", "abort", "reread", "discard", "idle"} :
                             pc' = [pc EXCEPT ![q] = there]
      BY <1>3 DEF Replace, SaveReplace, FailStep, FailMove, Crash, Go
    <2> QED BY <1>2, <2>1
  <1>4. ASSUME NEW q \in Processes, Transaction(q), ~Replace(q) PROVE slipped' = slipped
    BY <1>4 DEF Transaction, Acquire, Busy, Replay, RefuseEntry, Begin, Run, CheckStaged,
       RefuseStaged, Prepare, Gate, Link, Hold, Load, RecordSuccess, LogPublished, Commit,
       WriteLedger, Complete, RemoveTx, Abort, rare
  <1>5. ASSUME NEW q \in Processes, Publication(q), ~SaveReplace(q) PROVE slipped' = slipped
    BY <1>5 DEF Publication, VerifyStaged, Capture, Guard, MoveBuildEvidence, MoveVerifyEvidence,
       MoveOperations, SaveLink, Discard, Reread, Compare, SaveRecord, rare
  <1>6. ASSUME NEW q \in Processes, Recovery(q) \/ FailMend(q) PROVE slipped' = slipped
    BY <1>6 DEF Recovery, RecoverStick, RecoverBack, RecoverForward, FixLedger, FixEvidence,
       FixComplete, FixRecord, FixRemove, Recovered, FailMend, rare
  <1>7. ASSUME NEW q \in Processes, NEW kind \in Kinds, NEW o \in Ops, NEW out \in Outputs,
               Call(q, kind, o, out)
        PROVE  slipped' = slipped
    BY <1>7 DEF Call
  <1>8. ASSUME NEW u \in Outputs, NEW b \in Foreign \cup {None},
               ForeignWrite(u, b) \/ ForeignRename(u, b)
        PROVE  slipped \subseteq slipped'
    BY <1>8 DEF ForeignWrite, ForeignRename
  <1> QED BY <1>3, <1>4, <1>5, <1>6, <1>7, <1>8 DEF Next, Work

LEMMA GuardKept ==
  ASSUME SaveInv, GuardOK, GuardDenies, [Next]_vars
  PROVE  GuardOK'
  <1>1. CASE UNCHANGED vars BY <1>1 DEF vars, GuardOK, Guarding, At, Out
  <1>2. CASE Next
    <2> SUFFICES ASSUME NEW p \in Processes, NEW t \in Outputs, Guarding(p, t)', p \notin slipped',
                        file'[t] \in Foreign
                 PROVE  call'[p].before = file'[t]
      BY DEF GuardOK
    <2>1. CASE file' = file /\ call'[p].before = file[t] BY <2>1
    <2>2. p \notin slipped BY <1>2, LostIsLost
    <2>3. CASE Guarding(p, t) /\ call'[p].before = call[p].before
      <3>1. file'[t] = file[t]
        <4>1. file'[t] # None /\ file'[t] \notin Calls BY Sorts
        <4>2. ASSUME NEW b \in Foreign, ForeignWrite(t, b) \/ ForeignRename(t, b) PROVE FALSE
          <5>1. Guarded(t) BY <2>2, <2>3 DEF Guarded
          <5> QED BY <2>3, <4>2, <5>1 DEF ForeignWrite, ForeignRename
        <4> QED BY <1>2, <4>1, <4>2, OutputChanges
      <3> QED BY <2>2, <2>3, <3>1 DEF GuardOK
    <2> QED BY <1>2, <2>1, <2>3, GuardTaken
  <1> QED BY <1>1, <1>2

\* Where a guard keeps the other program from writing the file it holds, a document of
\* the engine takes the place of that program's bytes only through the rename of a build
\* or of a save that captured these very bytes as the state it replaces, or whose guarded
\* file that program removed or renamed another onto meanwhile, which no guard stops
\* (save.rs 79-130, store.rs 3351-3373 and 3450-3575), whatever builds, saves, errors and
\* deaths interleave.
CapturedIsReplaced ==
  [][\A t \in Outputs : (file[t] \in Foreign /\ file'[t] \in Calls) =>
       \E p \in Processes :
         Replacing(p, t) /\ (call[p].before = file[t] \/ p \in slipped)]_vars

\* So it is for every number of processes, calls, errors, deaths and foreign writes:
\* whoever holds a guard on the file at an output remembers what the other program left
\* in it (GuardOK), and who has lost that file is known for it (LostIsLost).
THEOREM OnlyCapturedIsReplaced == GuardDenies => (Spec => CapturedIsReplaced)
  <1> SUFFICES ASSUME GuardDenies PROVE Spec => CapturedIsReplaced OBVIOUS
  <1> DEFINE A == \A t \in Outputs : (file[t] \in Foreign /\ file'[t] \in Calls) =>
                    \E p \in Processes : Replacing(p, t) /\ (call[p].before = file[t] \/ p \in slipped)
  <1>1. Init => GuardOK BY DEF Init, GuardOK, Guarding, At
  <1>2. SaveInv /\ GuardOK /\ [Next]_vars => SaveInv' /\ GuardOK' BY INext, IStutter, GuardKept
  <1>3. SaveInv /\ GuardOK /\ [Next]_vars => [A]_vars
    <2> SUFFICES ASSUME SaveInv, GuardOK, Next, NEW t \in Outputs, file[t] \in Foreign, file'[t] \in Calls
                 PROVE  \E p \in Processes :
                          Replacing(p, t) /\ (call[p].before = file[t] \/ p \in slipped)
      BY DEF A
    <2>1. file[t] # None /\ file'[t] # None /\ file'[t] \notin Foreign /\ file'[t] # file[t] BY Sorts
    <2>2. PICK p \in Processes : Replacing(p, t) BY <2>1, OutputChanges
    <2>3. Guarding(p, t) BY <2>2 DEF Replacing, Guarding, At
    <2> QED BY <2>2, <2>3 DEF GuardOK
  <1> HIDE DEF A
  <1>4. SaveInv /\ GuardOK /\ [][Next]_vars => [][A]_vars BY <1>2, <1>3, PTL
  <1>5. [][A]_vars <=> CapturedIsReplaced BY DEF A, CapturedIsReplaced
  <1> QED BY <1>1, <1>4, <1>5, IInit, PTL DEF Spec

==============================================================================
