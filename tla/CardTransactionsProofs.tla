----------------------- MODULE CardTransactionsProofs -----------------------
(***************************************************************************)
(* TLAPS proofs about CardTransactions, for any sets of processes, cards,  *)
(* groups, operation ids and jobs.                                         *)
(***************************************************************************)
EXTENDS CardTransactions, FiniteSetTheorems, WellFoundedInduction, TLAPS

\* Which local values a command has at each point of its run.
PcInv ==
    \A p \in Proc :
        /\ pc[p] = "idle" => held[p] = {}
        /\ pc[p] # "idle" => job[p] \in Job
        /\ pc[p] \in {"publish", "apply", "commit"} => rec[p] \in Record
        /\ pc[p] # "idle" /\ job[p].kind = "update" =>
               \A c \in job[p].cards : view[p][c] \in Snapshot

TypeInv == TypeOK /\ PcInv

LEMMA JobFacts == Jobs \cup {InitJob} \subseteq Job /\ None \notin Op /\ Foreign \notin Op
  BY CardTransactionsAssumption DEF InitJob, Job, Places

LEMMA InitTypeInv == Init => TypeInv
  <1> SUFFICES ASSUME Init PROVE TypeInv
    OBVIOUS
  <1> USE CardTransactionsAssumption DEF Init
  <1>1. loc \in [Card -> Places] /\ text \in [Item -> Content]
    BY DEF Places, Content
  <1>2. ver \in [Card -> Version]
    BY DEF Version
  <1>3. acc \in [Proc -> [Card -> Snapshot \cup {None}]]
        /\ view \in [Proc -> [Card -> Snapshot \cup {None}]]
    BY DEF NoView
  <1>4. TypeOK
    BY <1>1, <1>2, <1>3 DEF TypeOK, DiskType, LocalType
  <1>5. PcInv
    BY DEF PcInv
  <1>6. QED
    BY <1>4, <1>5 DEF TypeInv

LEMMA LeaveLocal ==
    ASSUME LocalType, PcInv, NEW p \in Proc,
           NEW v \in [Card -> Snapshot \cup {None}], Leave(p, v)
    PROVE  LocalType' /\ PcInv'
  <1>1. NoView \in [Card -> Snapshot \cup {None}]
    BY DEF NoView
  <1>2. LocalType'
    BY <1>1 DEF LocalType, Leave
  <1>3. PcInv'
    BY DEF PcInv, Leave, LocalType
  <1>4. QED
    BY <1>2, <1>3

LEMMA SnapshotOfType ==
    ASSUME DiskType, NEW c \in Card
    PROVE  SnapshotOf(c) \in Snapshot
  BY DEF DiskType, SnapshotOf, Snapshot, Version, Item

LEMMA UnitsType ==
    ASSUME NEW r \in Record
    PROVE  Units(r) \in SUBSET Unit
  BY DEF Units, Unit, Items, Relocates, Creates, Record, Item

LEMMA NewRecordType ==
    ASSUME TypeInv, NEW p \in Proc, pc[p] = "stage", NEW id \in Op
    PROVE  NewRecord(p, id) \in Record
  <1> DEFINE j == job[p]
  <1>1. j \in Job /\ j.cards \subseteq Card /\ j.groups \subseteq Group /\ j.to \in Places
    BY DEF TypeInv, PcInv, Job
  <1>2. ASSUME NEW i \in j.cards \cup j.groups
        PROVE  NewText(p, id, i) \in Content
    <2>1. i \in Item /\ text[i] \in Content
      BY <1>1 DEF TypeInv, TypeOK, DiskType, Item
    <2>2. CASE i \in Card /\ j.kind = "update"
      <3>1. i \in j.cards
        BY <1>1, <1>2, <2>2, CardTransactionsAssumption
      <3>2. view[p][i] \in Snapshot
        BY <3>1, <2>2 DEF TypeInv, PcInv
      <3>3. QED
        BY <2>2, <3>2 DEF NewText, Snapshot, Content
    <2>3. CASE ~(i \in Card /\ j.kind = "update")
      BY <2>1, <2>3 DEF NewText, Content
    <2>4. QED
      BY <2>2, <2>3
  <1>3. NewRecord(p, id).from \in [Card -> Places]
        /\ NewRecord(p, id).to \in [Card -> Places]
    BY <1>1 DEF NewRecord, Places, TypeInv, TypeOK, DiskType
  <1>4. NewRecord(p, id).before \in [Item -> Content]
        /\ NewRecord(p, id).after \in [Item -> Content]
    BY <1>1, <1>2 DEF NewRecord, Content, TypeInv, TypeOK, DiskType
  <1>5. NewRecord(p, id).rev \in [Card -> Nat]
    BY <1>1 DEF NewRecord, touch, TypeInv, TypeOK, DiskType, Version
  <1>6. QED
    BY <1>1, <1>3, <1>4, <1>5 DEF NewRecord, Record

\* A step that only advances the reading or applying process and the disk.
LEMMA ApplyType ==
    ASSUME TypeInv, NEW p \in Proc, pc[p] = "apply",
           \/ \E i \in Item : compareFile(p, i) \/ writeFile(p, i)
           \/ \E c \in Card : \/ applyRename(p, c) \/ createDirectory(p, c)
                             \/ createSpec(p, c) \/ applyVersion(p, c)
    PROVE  TypeInv'
  <1>1. rec[p] \in Record /\ Card \subseteq Item
    BY DEF TypeInv, PcInv, Item
  <1>2. LocalType' /\ PcInv'
    <2> USE DEF TypeInv, TypeOK, LocalType, PcInv
    <2>1. \/ UNCHANGED local
          \/ /\ UNCHANGED <<pc, job, held, rec, queue, acc, view>>
             /\ \E U \in SUBSET Unit : todo' = [todo EXCEPT ![p] = U]
      <3>1. ASSUME NEW i \in Item PROVE <<"write", i>> \in Unit
        BY DEF Unit
      <3>2. todo[p] \in SUBSET Unit
        OBVIOUS
      <3>3. ASSUME NEW i \in Item PROVE todo[p] \cup {<<"write", i>>} \in SUBSET Unit
        BY <3>1, <3>2
      <3>4. ASSUME NEW U PROVE todo[p] \ U \in SUBSET Unit
        BY <3>2
      <3>5. CASE \E i \in Item : compareFile(p, i)
        BY <3>3, <3>4, <3>5 DEF compareFile, Done
      <3>6. CASE \E i \in Item : writeFile(p, i)
        BY <3>4, <3>6 DEF writeFile
      <3>7. CASE \E c \in Card : \/ applyRename(p, c) \/ createDirectory(p, c)
                               \/ createSpec(p, c) \/ applyVersion(p, c)
        BY <3>4, <3>7 DEF applyRename, createDirectory, createSpec, applyVersion, Done
      <3>8. QED
        BY <3>5, <3>6, <3>7
    <2>2. CASE UNCHANGED local
      BY <2>2 DEF local
    <2>3. CASE /\ UNCHANGED <<pc, job, held, rec, queue, acc, view>>
               /\ \E U \in SUBSET Unit : todo' = [todo EXCEPT ![p] = U]
      BY <2>3
    <2>4. QED
      BY <2>1, <2>2, <2>3
  <1>3. DiskType' /\ faults' \in 0..MaxFaults /\ edits' \in 0..MaxEdits
    <2> USE <1>1 DEF TypeInv, TypeOK, DiskType, bounds
    <2>1. ASSUME NEW i \in Item, compareFile(p, i) \/ writeFile(p, i)
          PROVE  DiskType' /\ UNCHANGED bounds
      BY <2>1 DEF compareFile, writeFile, Record, disk
    <2>2. ASSUME NEW c \in Card, applyRename(p, c)
          PROVE  DiskType' /\ UNCHANGED bounds
      BY <2>2 DEF applyRename, Record
    <2>3. ASSUME NEW c \in Card, createDirectory(p, c)
          PROVE  DiskType' /\ UNCHANGED bounds
      BY <2>3 DEF createDirectory, Record
    <2>4. ASSUME NEW c \in Card, createSpec(p, c)
          PROVE  DiskType' /\ UNCHANGED bounds
      BY <2>4 DEF createSpec, Record
    <2>5. ASSUME NEW c \in Card, applyVersion(p, c)
          PROVE  DiskType' /\ UNCHANGED bounds
      <3>1. [rev |-> rec[p].rev[c], op |-> rec[p].id,
             frozen |-> ver[c].frozen \/ Freezes(rec[p], c)] \in Version
        BY DEF Version, Record, Freezes
      <3>2. QED
        BY <2>5, <3>1 DEF applyVersion
    <2>6. QED
      BY <2>1, <2>2, <2>3, <2>4, <2>5
  <1>4. QED
    BY <1>2, <1>3 DEF TypeInv, TypeOK

LEMMA ActionTypes ==
    ASSUME TypeInv, NEW p \in Proc, Step(p) \/ Interrupt(p) \/ \E j \in Jobs : Begin(p, j)
    PROVE  TypeInv'
  <1> USE CardTransactionsAssumption
  <1>a. view[p] \in [Card -> Snapshot \cup {None}]
        /\ acc[p] \in [Card -> Snapshot \cup {None}]
        /\ NoView \in [Card -> Snapshot \cup {None}]
    BY DEF TypeInv, TypeOK, LocalType, NoView
  <1>b. ASSUME NEW v \in [Card -> Snapshot \cup {None}], Leave(p, v)
        PROVE  LocalType' /\ PcInv'
    BY <1>b, LeaveLocal DEF TypeInv, TypeOK
  <1>1. CASE \E j \in Jobs : Begin(p, j)
    <2> PICK j \in Jobs : Begin(p, j)
      BY <1>1
    <2>1. j \in Job
      BY JobFacts
    <2>2. j.kind = "update" => \A c \in j.cards : view[p][c] \in Snapshot
      BY <1>a, <2>1 DEF Begin, Job
    <2>3. QED
      BY <2>1, <2>2 DEF TypeInv, TypeOK, DiskType, LocalType, PcInv, Begin, Goto, disk, bounds
  <1>2. CASE acquire(p)
    <2>1. Need(p) \subseteq Lock
      BY <1>2 DEF TypeInv, PcInv, Need, Scope, Job, Lock, Item, acquire
    <2>2. QED
      BY <1>2, <2>1 DEF TypeInv, TypeOK, DiskType, LocalType, PcInv, acquire, NextLocks,
                        Goto, disk, bounds
  <1>3. CASE RefusePending(p)
    BY <1>3, <1>a, <1>b DEF TypeInv, TypeOK, DiskType, RefusePending, disk, bounds
  <1>4. CASE pendingContext(p)
    <2>1. {<<"read", c>> : c \in Scope(p)} \in SUBSET Unit
      BY <1>4 DEF TypeInv, PcInv, Scope, Job, Unit, pendingContext
    <2>2. todo' \in [Proc -> SUBSET Unit]
      <3>1. CASE ReadOnly(job[p])
        <4> DEFINE S == {<<"read", c>> : c \in Scope(p)}
        <4>1. S \in SUBSET Unit /\ todo' = [todo EXCEPT ![p] = S]
          BY <1>4, <2>1, <3>1 DEF pendingContext
        <4> HIDE DEF S
        <4>2. QED
          BY <4>1 DEF TypeInv, TypeOK, LocalType
      <3>2. CASE ~ReadOnly(job[p])
        BY <1>4, <3>2 DEF TypeInv, TypeOK, LocalType, pendingContext
      <3>3. QED
        BY <3>1, <3>2
    <2>3. \E l \in {"read", "stage"} : pc' = [pc EXCEPT ![p] = l]
      BY <1>4 DEF pendingContext, Goto
    <2>4. UNCHANGED <<disk, jlock, job, held, rec, queue, acc, view, bounds>> /\ pc[p] = "check"
      BY <1>4 DEF pendingContext
    <2>5. QED
      BY <2>2, <2>3, <2>4 DEF TypeInv, TypeOK, DiskType, LocalType, PcInv, disk, bounds
  <1>5. CASE \E c \in Card : ReadCard(p, c)
    <2> PICK c \in Card : ReadCard(p, c)
      BY <1>5
    <2>1. SnapshotOf(c) \in Snapshot
      BY SnapshotOfType DEF TypeInv, TypeOK
    <2>2. QED
      BY <2>1 DEF TypeInv, TypeOK, DiskType, LocalType, PcInv, ReadCard, disk, bounds
  <1>6. CASE ReadDone(p)
    <2>1. Merge(p, Scope(p), acc[p]) \in [Card -> Snapshot \cup {None}]
      BY <1>a DEF Merge
    <2>2. QED
      BY <1>6, <1>b, <2>1 DEF TypeInv, TypeOK, DiskType, ReadDone, disk, bounds
  <1>7. CASE RefuseStale(p)
    BY <1>7, <1>a, <1>b DEF TypeInv, TypeOK, DiskType, RefuseStale, disk, bounds
  <1>8. CASE Stage(p)
    <2> PICK id \in Unused : rec' = [rec EXCEPT ![p] = NewRecord(p, id)]
      BY <1>8 DEF Stage
    <2>1. NewRecord(p, id) \in Record
      BY <1>8, NewRecordType DEF Stage, Unused
    <2>2. QED
      BY <1>8, <2>1 DEF TypeInv, TypeOK, DiskType, LocalType, PcInv, Stage, Goto, disk, bounds
  <1>9. CASE writeOperation(p)
    <2>1. rec[p] \in Record
      BY <1>9 DEF TypeInv, PcInv, writeOperation
    <2>2. Units(rec[p]) \in SUBSET Unit
      BY <2>1, UnitsType
    <2>3. QED
      BY <1>9, <2>1, <2>2 DEF TypeInv, TypeOK, DiskType, LocalType, PcInv, writeOperation,
                              Goto, bounds
  <1>10. CASE RefuseReplay(p)
    BY <1>10, <1>a, <1>b DEF TypeInv, TypeOK, DiskType, RefuseReplay, disk, bounds
  <1>11. CASE \E i \in Item : compareFile(p, i) \/ writeFile(p, i)
    <2>1. pc[p] = "apply"
      BY <1>11 DEF compareFile, writeFile
    <2>2. QED
      BY <1>11, <2>1, ApplyType
  <1>12. CASE \E c \in Card : applyRename(p, c) \/ createDirectory(p, c)
                              \/ createSpec(p, c) \/ applyVersion(p, c)
    <2>1. pc[p] = "apply"
      BY <1>12 DEF applyRename, createDirectory, createSpec, applyVersion
    <2>2. QED
      BY <1>12, <2>1, ApplyType
  <1>13. CASE commitPhase(p)
    <2>1. rec[p] \in Record /\ [rec[p] EXCEPT !.phase = "committed"] \in Record
      BY <1>13 DEF TypeInv, PcInv, commitPhase, Record
    <2>2. QED
      BY <1>13, <2>1 DEF TypeInv, TypeOK, DiskType, LocalType, PcInv, commitPhase, Goto, bounds
  <1>14. CASE commitRename(p)
    <2>1. rec[p] \in Record /\ rec[p].id \in Op
      BY <1>14 DEF TypeInv, PcInv, commitRename, Record
    <2>2. DiskType'
      BY <1>14, <2>1 DEF TypeInv, TypeOK, DiskType, commitRename
    <2>3. CASE job[p].kind = "init"
      BY <1>14, <2>2, <2>3 DEF TypeInv, TypeOK, LocalType, PcInv, commitRename, Goto, bounds
    <2>4. CASE job[p].kind # "init"
      <3>1. \A c \in Card : SnapshotOf(c) \in Snapshot
        BY SnapshotOfType DEF TypeInv, TypeOK
      <3>2. Merge(p, rec[p].cards, [c \in Card |-> SnapshotOf(c)])
               \in [Card -> Snapshot \cup {None}]
        BY <1>a, <3>1 DEF Merge
      <3>3. QED
        BY <1>14, <1>b, <2>2, <2>4, <3>2 DEF TypeInv, TypeOK, commitRename, bounds
    <2>5. QED
      BY <2>3, <2>4
  <1>15. CASE operationRecords(p)
    <2>1. Prepared \subseteq Record /\ {r.id : r \in pend \ Prepared} \subseteq Op
      BY DEF TypeInv, TypeOK, DiskType, Prepared, Record
    <2>2. QED
      BY <1>15, <2>1 DEF TypeInv, TypeOK, DiskType, LocalType, PcInv, operationRecords,
                         Goto, bounds
  <1>16. CASE Replay(p)
    <2> PICK r \in queue[p] : /\ rec' = [rec EXCEPT ![p] = r]
                              /\ queue' = [queue EXCEPT ![p] = @ \ {r}]
                              /\ todo' = [todo EXCEPT ![p] = Units(r)]
      BY <1>16 DEF Replay
    <2>1. r \in Record /\ Units(r) \in SUBSET Unit
      BY UnitsType DEF TypeInv, TypeOK, LocalType
    <2>2. QED
      BY <1>16, <2>1 DEF TypeInv, TypeOK, DiskType, LocalType, PcInv, Replay, Goto, disk, bounds
  <1>17. CASE RecoveryDone(p)
    BY <1>17, <1>a, <1>b DEF TypeInv, TypeOK, DiskType, RecoveryDone, disk, bounds
  <1>18. CASE Interrupt(p)
    <2> PICK v \in {view[p], NoView} : Leave(p, v)
      BY <1>18 DEF Interrupt
    <2>1. LocalType' /\ PcInv'
      BY <1>a, <1>b
    <2>2. QED
      BY <1>18, <2>1 DEF TypeInv, TypeOK, DiskType, Interrupt, disk
  <1>19. QED
    BY <1>1, <1>2, <1>3, <1>4, <1>5, <1>6, <1>7, <1>8, <1>9, <1>10, <1>11, <1>12, <1>13,
       <1>14, <1>15, <1>16, <1>17, <1>18 DEF Step

LEMMA StepTypeInv == TypeInv /\ [Next]_vars => TypeInv'
  <1> SUFFICES ASSUME TypeInv, [Next]_vars PROVE TypeInv'
    OBVIOUS
  <1>1. ASSUME NEW p \in Proc, Step(p) \/ Interrupt(p) \/ \E j \in Jobs : Begin(p, j)
        PROVE  TypeInv'
    BY <1>1, ActionTypes
  <1>2. ASSUME NEW c \in Card, ExternalEdit(c)
        PROVE  TypeInv'
    BY <1>2, CardTransactionsAssumption
       DEF TypeInv, TypeOK, DiskType, LocalType, PcInv, ExternalEdit, Content, Item, local
  <1>3. CASE UNCHANGED vars
    BY <1>3 DEF TypeInv, TypeOK, DiskType, LocalType, PcInv, vars, disk, local, bounds
  <1>4. QED
    BY <1>1, <1>2, <1>3 DEF Next

\* Every reachable state is well formed, for any number of commands and cards.
THEOREM TypeCorrect == Spec => []TypeOK
  <1>1. TypeInv => TypeOK
    BY DEF TypeInv
  <1>2. QED
    BY <1>1, InitTypeInv, StepTypeInv, PTL DEF Spec

-----------------------------------------------------------------------------
(* PendingDisjoint.  A writer looks at the journal once, at "check", and     *)
(* publishes later: what it saw stays true because it keeps its task and     *)
(* group locks, exclusively, until its record is on disk.                    *)

Mine(p) == job[p].cards \cup job[p].groups

\* Two commands never hold one lock unless both took it shared.
LockInv ==
    \A p, q \in Proc : p # q =>
        \A l \in held[p] \cap held[q] : ~TakesExclusive(job[p], l)

\* Past "lock" a command holds its whole scope; what it publishes is its scope.
ScopeInv ==
    \A p \in Proc :
        /\ pc[p] \in {"check", "stage", "publish"} /\ job[p].kind # "scan" =>
               Mine(p) \subseteq held[p]
        /\ pc[p] \in {"stage", "publish"} => ~ReadOnly(job[p])
        /\ pc[p] = "publish" => Items(rec[p]) = Mine(p)

\* No prepared record covers what a command past the check is about to write.
ClearInv ==
    \A p \in Proc : pc[p] \in {"stage", "publish"} =>
        \A r \in Prepared : Items(r) \cap Mine(p) = {}

JournalInv == TypeInv /\ LockInv /\ ScopeInv /\ ClearInv /\ PendingDisjoint

LEMMA InitJournalInv == Init => JournalInv
  <1> SUFFICES ASSUME Init PROVE JournalInv
    OBVIOUS
  <1>1. TypeInv
    BY InitTypeInv
  <1>2. LockInv /\ ScopeInv /\ ClearInv
    BY DEF Init, LockInv, ScopeInv, ClearInv
  <1>3. PendingDisjoint
    BY DEF Init, PendingDisjoint, Prepared
  <1>4. QED
    BY <1>1, <1>2, <1>3 DEF JournalInv

\* The steps of a process leave the locks and the job of every other alone.
LEMMA OthersKeep ==
    ASSUME TypeInv, NEW p \in Proc, Step(p) \/ Interrupt(p) \/ \E j \in Jobs : Begin(p, j),
           NEW q \in Proc, q # p
    PROVE  UNCHANGED <<pc[q], job[q], held[q], rec[q]>>
  BY DEF TypeInv, TypeOK, LocalType, Step, Interrupt, Begin, acquire, RefusePending,
         pendingContext, ReadCard, ReadDone, RefuseStale, Stage, writeOperation, RefuseReplay,
         compareFile, writeFile, applyRename, createDirectory, createSpec, applyVersion, commitPhase,
         commitRename, operationRecords, Replay, RecoveryDone, Leave, Goto, local

\* A lock set only grows in acquire, and its job stays while it is held.
LEMMA OwnLocks ==
    ASSUME TypeInv, NEW p \in Proc, Step(p) \/ Interrupt(p) \/ \E j \in Jobs : Begin(p, j)
    PROVE  \/ held'[p] = {}
           \/ job'[p] = job[p] /\ held'[p] = held[p]
           \/ acquire(p)
  BY DEF TypeInv, TypeOK, LocalType, PcInv, Step, Interrupt, Begin, RefusePending,
         pendingContext, ReadCard, ReadDone, RefuseStale, Stage, writeOperation, RefuseReplay,
         compareFile, writeFile, applyRename, createDirectory, createSpec, applyVersion, commitPhase,
         commitRename, operationRecords, Replay, RecoveryDone, Leave, Goto, local

LEMMA StepLockInv ==
    ASSUME TypeInv, LockInv, NEW p \in Proc,
           Step(p) \/ Interrupt(p) \/ \E j \in Jobs : Begin(p, j)
    PROVE  LockInv'
  <1> SUFFICES ASSUME NEW a \in Proc, NEW b \in Proc, a # b,
                      NEW l \in held'[a] \cap held'[b]
               PROVE  ~TakesExclusive(job'[a], l)
    BY DEF LockInv, TakesExclusive, ExclusiveBoard, ReadOnly
  <1>1. \A q \in Proc \ {p} : UNCHANGED <<job[q], held[q]>>
    BY OthersKeep
  <1>2. CASE job'[p] = job[p] /\ held'[p] = held[p]
    BY <1>1, <1>2 DEF LockInv
  <1>3. CASE held'[p] = {}
    BY <1>1, <1>3 DEF LockInv
  <1>4. CASE acquire(p)
    <2> PICK m \in NextLocks(p) : /\ Grantable(p, m)
                                  /\ held' = [held EXCEPT ![p] = @ \cup {m}]
      BY <1>4 DEF acquire
    <2>1. job' = job /\ held'[p] = held[p] \cup {m}
      BY <1>4 DEF acquire, TypeInv, TypeOK, LocalType
    <2>2. \A q \in Proc \ {p} : m \in held[q] =>
              ~TakesExclusive(job[p], m) /\ ~TakesExclusive(job[q], m)
      BY DEF Grantable
    <2>3. QED
      BY <1>1, <2>1, <2>2 DEF LockInv
  <1>5. QED
    BY <1>2, <1>3, <1>4, OwnLocks

LEMMA StepScopeInv ==
    ASSUME TypeInv, ScopeInv, NEW p \in Proc,
           Step(p) \/ Interrupt(p) \/ \E j \in Jobs : Begin(p, j)
    PROVE  ScopeInv'
  <1> USE DEF ScopeInv, Mine
  <1>1. \A q \in Proc \ {p} : UNCHANGED <<pc[q], job[q], held[q], rec[q]>>
    BY OthersKeep
  <1>2. ASSUME pc'[p] \notin {"check", "stage", "publish"}
        PROVE  ScopeInv'
    BY <1>1, <1>2
  <1>3. CASE acquire(p)
    <2>1. /\ pc'[p] = "lock" \/ (pc'[p] = "check" /\ Need(p) \subseteq held'[p])
          /\ job' = job
      BY <1>3 DEF acquire, Goto, TypeInv, TypeOK, LocalType
    <2>2. job[p].kind # "scan" => Mine(p) \subseteq Need(p)
      BY DEF Need, Scope
    <2>3. QED
      BY <1>1, <2>1, <2>2 DEF ReadOnly
  <1>4. CASE pendingContext(p)
    <2>1. /\ pc[p] = "check"
          /\ pc'[p] = "read" \/ (pc'[p] = "stage" /\ ~ReadOnly(job[p]))
          /\ UNCHANGED <<job, held, rec>>
      BY <1>4 DEF pendingContext, Goto, TypeInv, TypeOK, LocalType
    <2>2. QED
      BY <1>1, <2>1 DEF ReadOnly
  <1>5. CASE Stage(p)
    <2>1. /\ pc[p] = "stage" /\ pc'[p] = "publish"
          /\ UNCHANGED <<job, held>>
          /\ \E id \in Unused : rec'[p] = NewRecord(p, id)
      BY <1>5 DEF Stage, Goto, TypeInv, TypeOK, LocalType
    <2>2. Items(rec'[p]) = Mine(p)
      BY <2>1 DEF NewRecord, Items
    <2>3. QED
      BY <1>1, <2>1, <2>2 DEF ReadOnly
  <1>6. CASE pc'[p] = pc[p] /\ job'[p] = job[p] /\ held'[p] = held[p] /\ rec'[p] = rec[p]
    BY <1>1, <1>6
  <1>7. \/ pc'[p] \notin {"check", "stage", "publish"}
        \/ acquire(p) \/ pendingContext(p) \/ Stage(p)
        \/ pc'[p] = pc[p] /\ job'[p] = job[p] /\ held'[p] = held[p] /\ rec'[p] = rec[p]
    BY DEF TypeInv, TypeOK, LocalType, Step, Interrupt, Begin, RefusePending,
           ReadCard, ReadDone, RefuseStale, writeOperation, RefuseReplay,
           compareFile, writeFile, applyRename, createDirectory, createSpec, applyVersion, commitPhase,
           commitRename, operationRecords, Replay, RecoveryDone, Leave, Goto, local
  <1>8. QED
    BY <1>2, <1>3, <1>4, <1>5, <1>6, <1>7

\* Only writeOperation adds to the prepared records.
LEMMA PreparedShrinks ==
    ASSUME TypeInv, NEW p \in Proc, Step(p) \/ Interrupt(p) \/ \E j \in Jobs : Begin(p, j),
           ~writeOperation(p)
    PROVE  Prepared' \subseteq Prepared
  <1>1. CASE commitPhase(p)
    BY <1>1 DEF commitPhase, Prepared, TypeInv, PcInv, Record
  <1>2. CASE commitRename(p)
    BY <1>2 DEF commitRename, Prepared
  <1>3. CASE operationRecords(p)
    BY <1>3 DEF operationRecords, Prepared
  <1>4. CASE pend' = pend
    BY <1>4 DEF Prepared
  <1>5. commitPhase(p) \/ commitRename(p) \/ operationRecords(p) \/ pend' = pend
    BY DEF Step, Interrupt, Begin, acquire, RefusePending,
           pendingContext, ReadCard, ReadDone, RefuseStale, Stage, RefuseReplay,
           compareFile, writeFile, applyRename, createDirectory, createSpec, applyVersion,
           Replay, RecoveryDone, disk
  <1>6. QED
    BY <1>1, <1>2, <1>3, <1>4, <1>5

\* Two commands that are both about to write share no card and no group.
LEMMA WritersApart ==
    ASSUME TypeInv, LockInv, ScopeInv, NEW p \in Proc, NEW q \in Proc, p # q,
           pc[p] \in {"stage", "publish"}, pc[q] \in {"stage", "publish"}
    PROVE  Mine(p) \cap Mine(q) = {}
  <1>1. Mine(p) \subseteq held[p] /\ Mine(q) \subseteq held[q]
    BY DEF ScopeInv, ReadOnly
  <1>2. Mine(p) \subseteq Item
    BY DEF TypeInv, PcInv, Mine, Job, Item
  <1>3. \A l \in Mine(p) : TakesExclusive(job[p], l)
    BY <1>2, CardTransactionsAssumption DEF ScopeInv, TakesExclusive
  <1>4. QED
    BY <1>1, <1>3 DEF LockInv

LEMMA StepClearInv ==
    ASSUME JournalInv, NEW p \in Proc,
           Step(p) \/ Interrupt(p) \/ \E j \in Jobs : Begin(p, j)
    PROVE  ClearInv' /\ PendingDisjoint'
  <1> USE DEF JournalInv
  <1>1. \A q \in Proc \ {p} : pc'[q] = pc[q] /\ Mine(q)' = Mine(q)
    BY OthersKeep DEF Mine
  <1>2. CASE writeOperation(p)
    <2>1. /\ Prepared' \subseteq Prepared \cup {rec[p]}
          /\ pc[p] = "publish" /\ pc'[p] = "apply"
      BY <1>2 DEF writeOperation, Prepared, Goto, TypeInv, TypeOK, LocalType
    <2>2. Items(rec[p]) = Mine(p)
      BY <2>1 DEF ScopeInv
    <2>3. \A q \in Proc \ {p} : pc[q] \in {"stage", "publish"} =>
              Items(rec[p]) \cap Mine(q) = {}
      BY <2>1, <2>2, WritersApart
    <2>4. ClearInv'
      BY <1>1, <2>1, <2>3 DEF ClearInv
    <2>5. \A r \in Prepared : Items(r) \cap Items(rec[p]) = {}
      BY <2>1, <2>2 DEF ClearInv
    <2>6. PendingDisjoint'
      BY <2>1, <2>5 DEF PendingDisjoint
    <2>7. QED
      BY <2>4, <2>6
  <1>3. CASE ~writeOperation(p)
    <2>1. Prepared' \subseteq Prepared
      BY <1>3, PreparedShrinks
    <2>2. PendingDisjoint'
      BY <2>1 DEF PendingDisjoint
    <2>3. ASSUME pc'[p] \in {"stage", "publish"}
          PROVE  /\ Mine(p)' = Mine(p)
                 /\ \A r \in Prepared : Items(r) \cap Mine(p) = {}
      <3>1. CASE pendingContext(p)
        <4>1. job' = job /\ job[p].kind # "scan" /\ \A r \in Prepared : ~Blocks(p, r)
          BY <2>3, <3>1 DEF pendingContext, Goto, ReadOnly, TypeInv, TypeOK, LocalType
        <4>2. QED
          BY <4>1 DEF Blocks, Scope, Mine
      <3>2. CASE pc[p] \in {"stage", "publish"} /\ job'[p] = job[p]
        BY <3>2 DEF ClearInv, Mine
      <3>3. pendingContext(p) \/ (pc[p] \in {"stage", "publish"} /\ job'[p] = job[p])
        BY <2>3 DEF TypeInv, TypeOK, LocalType, Step, Interrupt, Begin, acquire, RefusePending,
           ReadCard, ReadDone, RefuseStale, Stage, writeOperation, RefuseReplay,
           compareFile, writeFile, applyRename, createDirectory, createSpec, applyVersion, commitPhase,
           commitRename, operationRecords, Replay, RecoveryDone, Leave, Goto, local
      <3>4. QED
        BY <3>1, <3>2, <3>3
    <2>4. ClearInv'
      BY <1>1, <2>1, <2>3 DEF ClearInv
    <2>5. QED
      BY <2>2, <2>4
  <1>4. QED
    BY <1>2, <1>3

LEMMA StepJournalInv == JournalInv /\ [Next]_vars => JournalInv'
  <1> SUFFICES ASSUME JournalInv, [Next]_vars PROVE JournalInv'
    OBVIOUS
  <1>1. TypeInv'
    BY StepTypeInv DEF JournalInv
  <1>2. ASSUME NEW p \in Proc, Step(p) \/ Interrupt(p) \/ \E j \in Jobs : Begin(p, j)
        PROVE  JournalInv'
    BY <1>1, <1>2, StepLockInv, StepScopeInv, StepClearInv DEF JournalInv
  <1>3. ASSUME UNCHANGED <<pend, local>>
        PROVE  JournalInv'
    <2>1. LockInv' /\ ScopeInv'
      BY <1>3 DEF JournalInv, LockInv, ScopeInv, Mine, local
    <2>2. ClearInv' /\ PendingDisjoint'
      BY <1>3 DEF JournalInv, ClearInv, PendingDisjoint, Prepared, Mine, local
    <2>3. QED
      BY <1>1, <2>1, <2>2 DEF JournalInv
  <1>4. QED
    BY <1>2, <1>3 DEF Next, ExternalEdit, vars, disk

\* Whatever the commands, their number and the points where they die, no two
\* records that still have to be replayed cover the same card or group.
THEOREM PreparedApart == Spec => []PendingDisjoint
  <1>1. JournalInv => PendingDisjoint
    BY DEF JournalInv
  <1>2. QED
    BY <1>1, InitJournalInv, StepJournalInv, PTL DEF Spec

\* Two commands share a lock only as readers: fs locks taken by different
\* processes, released together when a command ends or dies.
THEOREM LocksExclusive == Spec => []LockInv
  <1>1. JournalInv => LockInv
    BY DEF JournalInv
  <1>2. QED
    BY <1>1, InitJournalInv, StepJournalInv, PTL DEF Spec

-----------------------------------------------------------------------------
(* Replayable.  A command past its locks keeps them (HoldInv, KindInv); the *)
(* record it applies is in the journal under an id nobody else has (RecInv, *)
(* IdInv); the cards a record moves exist (AskInv).  With that, what is staged *)
(* agrees with the disk until it is published (StageInv), what is published is *)
(* an interrupted run of itself (PendInv), and what has left the list of units *)
(* of a command is done (DoneInv).                                         *)

\* p has its whole lock set.
Past(p) == pc[p] \notin {"idle", "lock"}
Writes(p) == pc[p] \in {"publish", "apply", "commit"}

HoldInv ==
  \A p \in Proc :
    /\ pc[p] # "idle" => job[p] \in Jobs \cup {InitJob}
    /\ pc[p] # "idle" /\ job[p].kind \in {"update", "move"} =>
         \A c \in job[p].cards : view[p][c] # None
    /\ Past(p) => BoardLock \in held[p] /\ (job[p].kind # "scan" => Mine(p) \subseteq held[p])

KindInv ==
  \A p \in Proc :
    /\ pc[p] = "read" => ReadOnly(job[p])
    /\ pc[p] \in {"stage", "publish"} => ~ReadOnly(job[p]) /\ job[p].kind # "init"
    /\ pc[p] \in {"apply", "commit"} => ~ReadOnly(job[p])
    /\ pc[p] = "replay" => job[p].kind = "init"
    /\ Writes(p) /\ job[p].kind # "init" => Items(rec[p]) = Mine(p)

Finished(r) == [r EXCEPT !.phase = "committed"]
RecInv ==
  \A p \in Proc :
    /\ Writes(p) => rec[p].phase = "prepared"
    /\ ~Writes(p) => rec[p] = None
    /\ pc[p] = "publish" => rec[p].id \notin committed /\ \A r \in pend : r.id # rec[p].id
    /\ pc[p] = "apply" => rec[p] \in pend
    /\ pc[p] = "commit" => Finished(rec[p]) \in pend
    /\ \A r \in queue[p] : /\ job[p].kind = "init" /\ pc[p] \in {"replay", "apply", "commit"}
                           /\ r \in Prepared /\ (Writes(p) => r.id # rec[p].id)

IdInv ==
  /\ \A r, s \in pend : r.id = s.id => r = s
  /\ \A r \in pend : r.id \notin committed
  /\ \A p, q \in Proc : Writes(p) /\ Writes(q) /\ rec[p].id = rec[q].id => p = q

\* The units of a record that is being applied, and the renames they come to.
Tasks(r) == Units(r) \cup {<<"write", i>> : i \in Items(r) \ Creates(r)}
TodoInv ==
  \A p \in Proc :
    /\ pc[p] \in {"apply", "commit"} => todo[p] \subseteq Tasks(rec[p])
    /\ pc[p] = "commit" => todo[p] = {}

\* What a record may ask for; the cards it is about exist.
Asks(r) ==
  \A c \in r.cards :
    IF r.from[c] = Absent THEN r.to[c] = "backlog" /\ r.before[c] = {}
    ELSE /\ r.from[c] # "archived"
         /\ r.to[c] # r.from[c] => allowedMove(r.from[c], r.to[c])
Here(r) == \A c \in r.cards : r.from[c] # Absent => loc[c] # Absent
AskInv ==
  /\ \A r \in Prepared : Asks(r) /\ Here(r)
  /\ \A p \in Proc : Writes(p) => Asks(rec[p]) /\ Here(rec[p])
  /\ \A p \in Proc : pc[p] \in {"apply", "commit"} =>
       \A c \in Creates(rec[p]) : loc[c] = Absent => <<"entry", c>> \in todo[p]
  /\ \A c \in Card : loc[c] = Absent =>
       text[c] = {} /\ \A p \in Proc : view[p][c] = None /\ acc[p][c] = None

StageInv ==
  \A p \in Proc : pc[p] = "publish" =>
    /\ \A c \in rec[p].cards : loc[c] = rec[p].from[c] /\ rec[p].rev[c] = ver[c].rev + 1
    /\ edits = 0 => \A i \in Items(rec[p]) : text[i] = rec[p].before[i]

VersionDone(r, c) ==
  /\ ver[c].rev = r.rev[c] /\ ver[c].op = r.id /\ loc[c] = r.to[c]
  /\ Freezes(r, c) => ver[c].frozen
  /\ \A i \in Items(r) : text[i] = r.after[i]
Started(r) ==
  /\ \A i \in Items(r) : text[i] \in {r.before[i], r.after[i]}
  /\ \A c \in r.cards :
       /\ loc[c] \in {r.from[c], r.to[c]}
       /\ loc[c] # r.from[c] /\ r.from[c] # Absent =>
            \A i \in Items(r) \ Creates(r) : text[i] = r.after[i]
       /\ ver[c].rev + 1 = r.rev[c] \/ VersionDone(r, c)
PendInv == edits = 0 => \A r \in Prepared : Started(r)

\* What p need not do any more is done.
Progress(p) ==
  LET r == rec[p] IN
  /\ \A i \in Items(r) \ Creates(r) : <<"file", i>> \notin todo[p] => text[i] = r.after[i]
  /\ \A c \in Relocates(r) : <<"entry", c>> \notin todo[p] =>
       loc[c] = r.to[c] /\ text[c] = r.after[c]
  /\ \A c \in r.cards : <<"version", c>> \notin todo[p] => VersionDone(r, c)
DoneInv == edits = 0 => \A p \in Proc : pc[p] \in {"apply", "commit"} => Progress(p)
AInv == HoldInv /\ KindInv /\ RecInv /\ IdInv /\ TodoInv /\ AskInv
BInv == StageInv /\ PendInv /\ DoneInv

Acts(p) == Step(p) \/ Interrupt(p) \/ \E j \in Jobs : Begin(p, j)

\* Whatever p does, others keep what they have.
LEMMA Others ==
  ASSUME TypeInv, NEW p \in Proc, Acts(p), NEW q \in Proc, q # p
  PROVE  UNCHANGED <<pc[q], job[q], held[q], rec[q], queue[q], todo[q], acc[q], view[q]>>
BY DEF TypeInv, TypeOK, LocalType, Acts, Step, Interrupt, Begin, acquire, RefusePending,
         pendingContext, ReadCard, ReadDone, RefuseStale, Stage, writeOperation, RefuseReplay,
         compareFile, writeFile, applyRename, createDirectory, createSpec, applyVersion, commitPhase,
         commitRename, operationRecords, Replay, RecoveryDone, Leave, Goto, Done, local

\* Commands end, or they keep their job and what they hold.
LEMMA HoldStep ==
  ASSUME TypeInv, HoldInv, NEW p \in Proc, Acts(p)
  PROVE  HoldInv'
<1>1. \A q \in Proc \ {p} : UNCHANGED <<pc[q], job[q], held[q], view[q]>>
  BY Others
<1>2. CASE acquire(p)
  <2>1. /\ pc'[p] = "lock" \/ (pc'[p] = "check" /\ Need(p) \subseteq held'[p])
        /\ job' = job /\ pc[p] = "lock" /\ view' = view
    BY <1>2 DEF acquire, Goto, TypeInv, TypeOK, LocalType
  <2>2. BoardLock \in Need(p) /\ (job[p].kind # "scan" => Mine(p) \subseteq Need(p))
    BY DEF Need, Scope, Mine
  <2> QED BY <1>1, <2>1, <2>2 DEF HoldInv, Past, Mine
<1>3. CASE \E j \in Jobs : Begin(p, j)
  BY <1>1, <1>3 DEF HoldInv, Past, Mine, Begin, Goto, TypeInv, TypeOK, LocalType
<1>4. CASE pc'[p] = "idle"
  BY <1>1, <1>4 DEF HoldInv, Past, Mine
<1>5. CASE UNCHANGED <<job[p], held[p], view[p]>> /\ Past(p)
  BY <1>1, <1>5 DEF HoldInv, Past, Mine
<1>6. \/ acquire(p) \/ \E j \in Jobs : Begin(p, j)
      \/ pc'[p] = "idle"
      \/ UNCHANGED <<job[p], held[p], view[p]>> /\ Past(p)
  BY DEF Past, TypeInv, TypeOK, LocalType, Acts, Step, Interrupt, RefusePending,
         pendingContext, ReadCard, ReadDone, RefuseStale, Stage, writeOperation, RefuseReplay,
         compareFile, writeFile, applyRename, createDirectory, createSpec, applyVersion, commitPhase,
         commitRename, operationRecords, Replay, RecoveryDone, Leave, Goto, local
<1> QED BY <1>2, <1>3, <1>4, <1>5, <1>6

LEMMA KindStep ==
  ASSUME TypeInv, KindInv, NEW p \in Proc, Acts(p)
  PROVE  KindInv'
<1>1. \A q \in Proc \ {p} : UNCHANGED <<pc[q], job[q], rec[q]>>
  BY Others
<1>2. ASSUME pc'[p] \in {"idle", "lock", "check"} PROVE KindInv'
  BY <1>1, <1>2 DEF KindInv, Mine, Writes
<1>3. CASE pendingContext(p)
  <2>1. /\ \/ pc'[p] = "read" /\ ReadOnly(job[p])
           \/ pc'[p] = "stage" /\ ~ReadOnly(job[p])
        /\ job[p].kind # "init" /\ UNCHANGED <<job, rec>>
    BY <1>3 DEF pendingContext, Goto, TypeInv, TypeOK, LocalType
  <2> QED BY <1>1, <2>1 DEF KindInv, Mine, Writes, ReadOnly
<1>4. CASE Stage(p)
  <2>1. pc[p] = "stage" /\ pc'[p] = "publish" /\ job' = job /\ \E id \in Unused : rec'[p] = NewRecord(p, id)
    BY <1>4 DEF Stage, Goto, TypeInv, TypeOK, LocalType
  <2>2. Items(rec'[p]) = Mine(p)
    BY <2>1 DEF NewRecord, Items, Mine
  <2> QED BY <1>1, <2>1, <2>2 DEF KindInv, Mine, Writes, ReadOnly
<1>5. CASE operationRecords(p) \/ Replay(p)
  <2>1. job[p].kind = "init" /\ job' = job /\ pc'[p] \in {"replay", "apply"}
    BY <1>5 DEF operationRecords, Replay, KindInv, Goto, TypeInv, TypeOK, LocalType
  <2> QED BY <1>1, <2>1 DEF KindInv, Mine, Writes, ReadOnly
<1>6. CASE commitRename(p) /\ job[p].kind = "init"
  <2>1. job' = job /\ pc'[p] = "replay"
    BY <1>6 DEF commitRename, Goto, TypeInv, TypeOK, LocalType
  <2> QED BY <1>1, <1>6, <2>1 DEF KindInv, Mine, Writes, ReadOnly
<1>7. CASE /\ job'[p] = job[p] /\ rec'[p] = rec[p]
           /\ \/ pc'[p] = pc[p]
              \/ pc[p] = "publish" /\ pc'[p] = "apply"
              \/ pc[p] = "apply" /\ pc'[p] = "commit"
  BY <1>1, <1>7 DEF KindInv, Mine, Writes
<1>8. \/ pc'[p] \in {"idle", "lock", "check"} \/ pendingContext(p) \/ Stage(p)
      \/ operationRecords(p) \/ Replay(p) \/ (commitRename(p) /\ job[p].kind = "init")
      \/ /\ job'[p] = job[p] /\ rec'[p] = rec[p]
         /\ \/ pc'[p] = pc[p]
            \/ pc[p] = "publish" /\ pc'[p] = "apply"
            \/ pc[p] = "apply" /\ pc'[p] = "commit"
  BY DEF TypeInv, TypeOK, LocalType, Acts, Step, Interrupt, Begin, acquire, RefusePending,
         ReadCard, ReadDone, RefuseStale, writeOperation, RefuseReplay,
         compareFile, writeFile, applyRename, createDirectory, createSpec, applyVersion, commitPhase,
         commitRename, RecoveryDone, Leave, Goto, local
<1> QED BY <1>2, <1>3, <1>4, <1>5, <1>6, <1>7, <1>8

\* Alone on the board, apart on a card or group.
LEMMA Alone ==
  ASSUME TypeInv, LockInv, HoldInv, NEW p \in Proc, Past(p), ExclusiveBoard(job[p]),
         NEW q \in Proc, q # p
  PROVE  ~Past(q)
BY DEF HoldInv, LockInv, TakesExclusive

LEMMA Apart ==
  ASSUME TypeInv, LockInv, HoldInv, KindInv, NEW p \in Proc, NEW q \in Proc, q # p,
         pc[p] \in {"stage", "publish", "apply", "commit"}, Past(q),
         job[q].kind \notin {"scan"}
  PROVE  job[p].kind # "init" /\ Mine(p) \cap Mine(q) = {}
<1>1. Past(p) /\ ~ReadOnly(job[p]) /\ job[p].kind # "init"
  BY Alone DEF Past, KindInv, ExclusiveBoard
<1>2. Mine(p) \subseteq held[p] /\ Mine(q) \subseteq held[q] /\ Mine(p) \subseteq Item
  BY <1>1 DEF HoldInv, ReadOnly, TypeInv, PcInv, Mine, Job, Item, Past
<1>3. \A l \in Mine(p) : TakesExclusive(job[p], l)
  BY <1>1, <1>2, CardTransactionsAssumption DEF TakesExclusive
<1> QED BY <1>1, <1>2, <1>3 DEF LockInv


\* How the journal changes.
LEMMA JournalMoves ==
  ASSUME NEW p \in Proc, Acts(p)
  PROVE  \/ UNCHANGED <<pend, committed>> /\ ~operationRecords(p)
         \/ writeOperation(p) \/ commitPhase(p) \/ commitRename(p) \/ operationRecords(p)
BY DEF Acts, Step, Interrupt, Begin, acquire, RefusePending,
         pendingContext, ReadCard, ReadDone, RefuseStale, Stage, RefuseReplay,
         compareFile, writeFile, applyRename, createDirectory, createSpec, applyVersion,
         Replay, RecoveryDone, disk, operationRecords

RecOf(p) ==
    /\ Writes(p) => rec[p].phase = "prepared"
    /\ ~Writes(p) => rec[p] = None
    /\ pc[p] = "publish" => rec[p].id \notin committed /\ \A r \in pend : r.id # rec[p].id
    /\ pc[p] = "apply" => rec[p] \in pend
    /\ pc[p] = "commit" => Finished(rec[p]) \in pend
    /\ \A r \in queue[p] : /\ job[p].kind = "init" /\ pc[p] \in {"replay", "apply", "commit"}
                           /\ r \in Prepared /\ (Writes(p) => r.id # rec[p].id)

LEMMA RecOthers ==
  ASSUME TypeInv, LockInv, HoldInv, KindInv, RecInv, IdInv, NEW p \in Proc, Acts(p),
         NEW q \in Proc, q # p
  PROVE  RecOf(q)'
<1>1. UNCHANGED <<pc[q], job[q], held[q], rec[q], queue[q]>> BY Others
<1>2. RecOf(q) BY DEF RecInv, RecOf
<1>3. CASE UNCHANGED <<pend, committed>>
  BY <1>1, <1>2, <1>3 DEF RecOf, Writes, Prepared, Finished
<1>4. Writes(p) => rec[p] \in Record /\ rec[p].phase = "prepared"
  BY DEF Writes, RecInv, TypeInv, PcInv
<1>5. Writes(p) /\ Writes(q) => rec[p].id # rec[q].id BY DEF IdInv
<1>6. Writes(q) => rec[q] \in Record /\ Finished(rec[q]).id = rec[q].id
                   /\ Finished(rec[q]).phase = "committed"
  BY DEF Writes, Finished, TypeInv, PcInv, Record
<1>7. Past(p) => queue[q] = {}
  <2>1. queue[q] # {} => Past(q) /\ ExclusiveBoard(job[q])
    BY <1>2 DEF RecOf, Past, ExclusiveBoard
  <2> QED BY <2>1, Alone
<1>8. CASE writeOperation(p)
  <2>1. pend' = pend \cup {rec[p]} /\ committed' = committed /\ Writes(p)
    BY <1>8 DEF writeOperation, Writes
  <2>2. Prepared \subseteq Prepared' BY <2>1 DEF Prepared
  <2> QED BY <1>1, <1>2, <1>4, <1>5, <2>1, <2>2 DEF RecOf, Writes, Finished
<1>9. CASE commitPhase(p)
  <2>1. pend' = (pend \ {rec[p]}) \cup {Finished(rec[p])} /\ committed' = committed
        /\ Writes(p) /\ Past(p)
    BY <1>9 DEF commitPhase, Writes, Finished, Past
  <2>2. Finished(rec[p]).id = rec[p].id BY <1>4, <2>1 DEF Finished, Record
  <2>3. Writes(q) => rec[q] # rec[p] /\ Finished(rec[q]) # rec[p]
    BY <1>4, <1>5, <1>6, <2>1
  <2>4. queue[q] = {} BY <1>7, <2>1
  <2> QED BY <1>1, <1>2, <1>5, <2>1, <2>2, <2>3, <2>4 DEF RecOf, Writes, Finished
<1>10. CASE commitRename(p)
  <2>1. pend' = {r \in pend : r.id # rec[p].id} /\ committed' = committed \cup {rec[p].id}
        /\ Writes(p) /\ Past(p)
    BY <1>10 DEF commitRename, Writes, Past
  <2>4. queue[q] = {} BY <1>7, <2>1
  <2> QED BY <1>1, <1>2, <1>5, <1>6, <2>1, <2>4 DEF RecOf, Writes, Finished
<1>11. CASE operationRecords(p)
  <2>1. Past(p) /\ ExclusiveBoard(job[p])
    BY <1>11 DEF operationRecords, Past, ExclusiveBoard
  <2>2. ~Past(q) BY <2>1, Alone
  <2>3. queue[q] = {} BY <1>7, <2>1
  <2> QED BY <1>1, <1>2, <2>2, <2>3 DEF RecOf, Past, Writes
<1> QED BY <1>3, <1>8, <1>9, <1>10, <1>11, JournalMoves

LEMMA RecSelf ==
  ASSUME TypeInv, LockInv, HoldInv, KindInv, RecInv, IdInv, NEW p \in Proc, Acts(p)
  PROVE  RecOf(p)'
<1>1. RecOf(p) BY DEF RecInv, RecOf
<1>2. CASE rec'[p] = None /\ queue'[p] = {} /\ ~Writes(p)'
  BY <1>2 DEF RecOf, Writes
<1>3. CASE UNCHANGED <<pc[p], job[p], rec[p], queue[p], pend, committed>>
  BY <1>1, <1>3 DEF RecOf, Writes, Prepared, Finished
<1>4. Writes(p) => rec[p] \in Record /\ rec[p].phase = "prepared"
                   /\ Finished(rec[p]).id = rec[p].id
  BY DEF Writes, RecInv, TypeInv, PcInv, Finished, Record
<1>5. CASE Stage(p)
  <2>1. PICK id \in Unused : rec' = [rec EXCEPT ![p] = NewRecord(p, id)] BY <1>5 DEF Stage
  <2>2. rec'[p].id = id /\ rec'[p].phase = "prepared" BY <2>1 DEF NewRecord, TypeInv, TypeOK, LocalType
  <2>3. pc[p] = "stage" /\ pc'[p] = "publish" /\ UNCHANGED <<job, queue, pend, committed>>
    BY <1>5 DEF Stage, Goto, disk, TypeInv, TypeOK, LocalType
  <2>4. id \notin committed /\ \A r \in pend : r.id # id BY DEF Unused
  <2>5. queue[p] = {} BY <1>1, <2>3 DEF RecOf
  <2> QED BY <2>2, <2>3, <2>4, <2>5 DEF RecOf, Writes
<1>6. CASE writeOperation(p)
  <2>1. /\ pc[p] = "publish" /\ pc'[p] = "apply" /\ UNCHANGED <<job, queue, rec>>
        /\ pend' = pend \cup {rec[p]}
    BY <1>6 DEF writeOperation, Goto, TypeInv, TypeOK, LocalType
  <2>2. queue[p] = {} BY <1>1, <2>1 DEF RecOf
  <2> QED BY <1>1, <2>1, <2>2 DEF RecOf, Writes
<1>7. CASE commitPhase(p)
  <2>1. /\ pc[p] = "apply" /\ pc'[p] = "commit" /\ UNCHANGED <<job, queue, rec>>
        /\ pend' = (pend \ {rec[p]}) \cup {Finished(rec[p])}
    BY <1>7 DEF commitPhase, Goto, Finished, TypeInv, TypeOK, LocalType
  <2>2. \A r \in queue[p] : r \in Prepared' BY <1>1, <2>1 DEF RecOf, Writes, Prepared
  <2> QED BY <1>1, <2>1, <2>2 DEF RecOf, Writes, Finished
<1>8. CASE commitRename(p) /\ job[p].kind = "init"
  <2>1. /\ pc[p] = "commit" /\ pc'[p] = "replay" /\ UNCHANGED <<job, queue>> /\ rec'[p] = None
        /\ pend' = {r \in pend : r.id # rec[p].id}
    BY <1>8 DEF commitRename, Goto, TypeInv, TypeOK, LocalType
  <2>2. \A r \in queue[p] : r \in Prepared' BY <1>1, <2>1 DEF RecOf, Writes, Prepared
  <2> QED BY <1>1, <1>8, <2>1, <2>2 DEF RecOf, Writes
<1>9. CASE operationRecords(p)
  <2>1. /\ pc[p] = "check" /\ job[p].kind = "init" /\ pc'[p] = "replay" /\ UNCHANGED <<job, rec>>
        /\ queue'[p] = Prepared /\ pend' = Prepared
    BY <1>9 DEF operationRecords, Goto, TypeInv, TypeOK, LocalType
  <2>2. Prepared' = Prepared BY <2>1 DEF Prepared
  <2> QED BY <1>1, <2>1, <2>2 DEF RecOf, Writes
<1>10. CASE Replay(p)
  <2>1. PICK r \in queue[p] : rec' = [rec EXCEPT ![p] = r] /\ queue' = [queue EXCEPT ![p] = @ \ {r}]
    BY <1>10 DEF Replay
  <2>2. /\ pc[p] = "replay" /\ pc'[p] = "apply" /\ UNCHANGED <<job, pend, committed>>
        /\ rec'[p] = r /\ queue'[p] = queue[p] \ {r}
    BY <1>10, <2>1 DEF Replay, Goto, disk, TypeInv, TypeOK, LocalType
  <2>3. \A s \in queue[p] : s \in Prepared /\ s \in pend /\ s.phase = "prepared"
    BY <1>1 DEF RecOf, Prepared
  <2>4. \A s \in queue'[p] : s.id # r.id BY <2>2, <2>3 DEF IdInv
  <2> QED BY <1>1, <2>2, <2>3, <2>4 DEF RecOf, Writes, Prepared
<1>11. \/ rec'[p] = None /\ queue'[p] = {} /\ ~Writes(p)'
       \/ UNCHANGED <<pc[p], job[p], rec[p], queue[p], pend, committed>>
       \/ Stage(p) \/ writeOperation(p) \/ commitPhase(p)
       \/ commitRename(p) /\ job[p].kind = "init"
       \/ operationRecords(p) \/ Replay(p)
  <2>1. CASE pc'[p] = "idle" /\ rec'[p] = None /\ queue'[p] = {} BY <2>1 DEF Writes
  <2>2. CASE acquire(p) \/ pendingContext(p) \/ \E j \in Jobs : Begin(p, j)
    BY <1>1, <2>2 DEF acquire, pendingContext, Begin, Goto, Writes, RecOf, TypeInv, TypeOK, LocalType
  <2>3. Acts(p) => \/ pc'[p] = "idle" /\ rec'[p] = None /\ queue'[p] = {}
                   \/ acquire(p) \/ pendingContext(p) \/ \E j \in Jobs : Begin(p, j)
                   \/ UNCHANGED <<pc[p], job[p], rec[p], queue[p], pend, committed>>
                   \/ Stage(p) \/ writeOperation(p) \/ commitPhase(p)
                   \/ commitRename(p) /\ job[p].kind = "init"
                   \/ operationRecords(p) \/ Replay(p)
    BY DEF TypeInv, TypeOK, LocalType, Acts, Step, Interrupt, RefusePending,
         ReadCard, ReadDone, RefuseStale, RefuseReplay,
         compareFile, writeFile, applyRename, createDirectory, createSpec, applyVersion,
         commitRename, RecoveryDone, Leave, local, disk
  <2> QED BY <2>1, <2>2, <2>3
<1> QED BY <1>2, <1>3, <1>5, <1>6, <1>7, <1>8, <1>9, <1>10, <1>11

LEMMA RecStep ==
  ASSUME TypeInv, LockInv, HoldInv, KindInv, RecInv, IdInv, NEW p \in Proc, Acts(p)
  PROVE  RecInv'
BY RecOthers, RecSelf DEF RecInv, RecOf

LEMMA IdStep ==
  ASSUME TypeInv, LockInv, HoldInv, KindInv, RecInv, IdInv, NEW p \in Proc, Acts(p)
  PROVE  IdInv'
<1>1. \A q \in Proc \ {p} : UNCHANGED <<pc[q], rec[q]>> BY Others
<1>2. Writes(p) => rec[p] \in Record /\ rec[p].phase = "prepared"
                   /\ Finished(rec[p]).id = rec[p].id
  BY DEF Writes, RecInv, TypeInv, PcInv, Finished, Record
<1>3. \A q \in Proc \ {p} : Writes(q)' => Writes(q) /\ rec'[q] = rec[q]
  BY <1>1 DEF Writes
<1>4. (\A a, b \in Proc : Writes(a) /\ Writes(b) /\ rec[a].id = rec[b].id => a = b)'
  <2>1. CASE Writes(p)' => Writes(p) /\ rec'[p] = rec[p]
    <3>1. \A a \in Proc : Writes(a)' => Writes(a) /\ rec'[a] = rec[a] BY <1>3, <2>1
    <3> QED BY <3>1 DEF IdInv
  <2>2. CASE Writes(p)' /\ \A q \in Proc \ {p} : Writes(q) => rec'[p].id # rec[q].id
    BY <1>3, <2>2 DEF IdInv
  <2>3. CASE Stage(p)
    <3>1. PICK id \in Unused : rec' = [rec EXCEPT ![p] = NewRecord(p, id)] BY <2>3 DEF Stage
    <3>2. rec'[p].id = id /\ pc'[p] = "publish"
      BY <2>3, <3>1 DEF Stage, Goto, NewRecord, TypeInv, TypeOK, LocalType
    <3>3. \A q \in Proc : Writes(q) => rec[q] # None
      BY NoRecord DEF Writes, TypeInv, PcInv
    <3> QED BY <2>2, <3>2, <3>3 DEF Unused, Writes
  <2>4. CASE Replay(p)
    <3>1. Past(p) /\ ExclusiveBoard(job[p])
      BY <2>4 DEF Replay, Past, ExclusiveBoard, KindInv
    <3>2. \A q \in Proc \ {p} : ~Writes(q) BY <3>1, Alone DEF Past, Writes
    <3> QED BY <2>1, <2>2, <3>2
  <2>5. Stage(p) \/ Replay(p) \/ (Writes(p)' => Writes(p) /\ rec'[p] = rec[p])
    BY DEF Writes, TypeInv, TypeOK, LocalType, Acts, Step, Interrupt, Begin, acquire, RefusePending,
         pendingContext, ReadCard, ReadDone, RefuseStale, writeOperation, RefuseReplay,
         compareFile, writeFile, applyRename, createDirectory, createSpec, applyVersion, commitPhase,
         commitRename, operationRecords, RecoveryDone, Leave, Goto, local
  <2> QED BY <2>1, <2>3, <2>4, <2>5
<1> DEFINE G == /\ \A r, s \in pend' : r.id = s.id => r = s
                /\ \A r \in pend' : r.id \notin committed'
<1>5. G
  <2>1. CASE UNCHANGED <<pend, committed>> BY <2>1 DEF IdInv
  <2>2. CASE writeOperation(p)
    <3>1. pc[p] = "publish" /\ pend' = pend \cup {rec[p]} /\ committed' = committed
      BY <2>2 DEF writeOperation
    <3>2. rec[p].id \notin committed /\ \A r \in pend : r.id # rec[p].id BY <3>1 DEF RecInv
    <3> QED BY <3>1, <3>2 DEF IdInv
  <2>3. CASE commitPhase(p)
    <3>1. pc[p] = "apply" /\ pend' = (pend \ {rec[p]}) \cup {Finished(rec[p])}
          /\ committed' = committed
      BY <2>3 DEF commitPhase, Finished
    <3>2. rec[p] \in pend /\ Finished(rec[p]).id = rec[p].id
      BY <1>2, <3>1 DEF RecInv, Writes
    <3> QED BY <3>1, <3>2 DEF IdInv
  <2>4. CASE commitRename(p)
    <3>1. pend' = {r \in pend : r.id # rec[p].id} /\ committed' = committed \cup {rec[p].id}
      BY <2>4 DEF commitRename
    <3> QED BY <3>1 DEF IdInv
  <2>5. CASE operationRecords(p)
    <3>1. pend' = Prepared /\ committed' = committed \cup {r.id : r \in pend \ Prepared}
      BY <2>5 DEF operationRecords
    <3> QED BY <3>1 DEF IdInv, Prepared
  <2> QED BY <2>1, <2>2, <2>3, <2>4, <2>5, JournalMoves
<1> QED BY <1>4, <1>5 DEF IdInv


-----------------------------------------------------------------------------
LEMMA UnitFacts ==
  ASSUME NEW r
  PROVE  /\ \A i : <<"file", i>> \in Tasks(r) <=> i \in Items(r) \ Creates(r)
         /\ \A i : <<"write", i>> \in Tasks(r) <=> i \in Items(r) \ Creates(r)
         /\ \A c : <<"entry", c>> \in Tasks(r) <=> c \in Relocates(r)
         /\ \A c : <<"version", c>> \in Tasks(r) <=> c \in r.cards
         /\ \A c : <<"entry", c>> \in Units(r) <=> c \in Relocates(r)
         /\ \A i : <<"file", i>> \in Units(r) <=> i \in Items(r) \ Creates(r)
         /\ \A i : <<"write", i>> \notin Units(r)
         /\ \A c : <<"version", c>> \in Units(r) <=> c \in r.cards
         /\ Units(r) \subseteq Tasks(r)
BY DEF Tasks, Units

LEMMA TodoStep ==
  ASSUME TypeInv, TodoInv, NEW p \in Proc, Acts(p)
  PROVE  TodoInv'
<1>1. \A q \in Proc \ {p} : UNCHANGED <<pc[q], rec[q], todo[q]>> BY Others
<1>2. ASSUME pc'[p] \notin {"apply", "commit"} PROVE TodoInv'
  BY <1>1, <1>2 DEF TodoInv
<1>3. CASE pc[p] = "apply" /\ rec'[p] = rec[p] /\ todo'[p] \subseteq todo[p] /\ pc'[p] = "apply"
  BY <1>1, <1>3 DEF TodoInv
<1>4. CASE pc'[p] = "apply" /\ todo'[p] = Units(rec'[p])
  <2>1. Tasks(rec'[p]) = Tasks(rec[p])' BY DEF Tasks, Units, Items, Creates, Relocates
  <2> QED BY <1>1, <1>4, <2>1, UnitFacts DEF TodoInv
<1>5. CASE commitPhase(p)
  <2>1. rec'[p] = rec[p] /\ todo'[p] = {} /\ pc'[p] = "commit" 
    BY <1>5 DEF commitPhase, Goto, TypeInv, TypeOK, LocalType
  <2> QED BY <1>1, <2>1 DEF TodoInv
<1>6. CASE writeOperation(p)
  <2>1. rec'[p] = rec[p] /\ todo'[p] = Units(rec[p]) /\ pc'[p] = "apply"
    BY <1>6 DEF writeOperation, Goto, TypeInv, TypeOK, LocalType
  <2> QED BY <1>4, <2>1
<1>7. CASE Replay(p)
  <2>1. PICK r \in queue[p] : /\ rec' = [rec EXCEPT ![p] = r]
                              /\ todo' = [todo EXCEPT ![p] = Units(r)]
    BY <1>7 DEF Replay
  <2>2. rec'[p] = r /\ todo'[p] = Units(r) /\ pc'[p] = "apply"
    BY <1>7, <2>1 DEF Replay, Goto, TypeInv, TypeOK, LocalType
  <2> QED BY <1>4, <2>2
<1>9. ASSUME NEW i \in Item, compareFile(p, i) PROVE TodoInv'
  <2>1. /\ pc[p] = "apply" /\ UNCHANGED <<pc, rec>> /\ <<"file", i>> \in todo[p]
        /\ todo'[p] \subseteq todo[p] \cup {<<"write", i>>}
    BY <1>9 DEF compareFile, Done, Ready, TypeInv, TypeOK, LocalType
  <2>2. todo'[p] \subseteq Tasks(rec[p]) BY <2>1, UnitFacts DEF TodoInv
  <2> QED BY <1>1, <2>1, <2>2 DEF TodoInv
<1>8. \/ pc'[p] \notin {"apply", "commit"}
      \/ pc[p] = "apply" /\ rec'[p] = rec[p] /\ todo'[p] \subseteq todo[p] /\ pc'[p] = "apply"
      \/ \E i \in Item : compareFile(p, i)
      \/ commitPhase(p) \/ writeOperation(p) \/ Replay(p)
  <2> DEFINE G == \/ pc'[p] \notin {"apply", "commit"}
                  \/ /\ pc[p] = "apply" /\ rec'[p] = rec[p] /\ todo'[p] \subseteq todo[p]
                     /\ pc'[p] = "apply"
  <2>1. CASE \/ \E i \in Item : writeFile(p, i)
             \/ \E c \in Card : \/ applyRename(p, c) \/ createDirectory(p, c)
                               \/ createSpec(p, c) \/ applyVersion(p, c)
    <3>1. /\ pc[p] = "apply" /\ UNCHANGED <<pc, rec>>
          /\ UNCHANGED todo \/ \E U : todo' = [todo EXCEPT ![p] = @ \ U]
      BY <2>1 DEF writeFile, applyRename, createDirectory, createSpec, applyVersion, Done, local
    <3> QED BY <3>1 DEF TypeInv, TypeOK, LocalType
  <2>2. ASSUME NEW v, Leave(p, v) PROVE pc'[p] = "idle"
    BY <2>2 DEF Leave, TypeInv, TypeOK, LocalType
  <2>3. CASE Interrupt(p) \/ RefusePending(p) \/ ReadDone(p) \/ RefuseStale(p)
             \/ RefuseReplay(p) \/ RecoveryDone(p)
    BY <2>2, <2>3 DEF Interrupt, RefusePending, ReadDone, RefuseStale, RefuseReplay, RecoveryDone
  <2>4. CASE commitRename(p) \/ operationRecords(p)
    BY <2>2, <2>4 DEF commitRename, operationRecords, Goto, TypeInv, TypeOK, LocalType
  <2>5. CASE \/ \E j \in Jobs : Begin(p, j)
             \/ acquire(p) \/ pendingContext(p) \/ Stage(p) \/ \E c \in Card : ReadCard(p, c)
    BY <2>5 DEF Begin, acquire, pendingContext, Stage, ReadCard, Goto, TypeInv, TypeOK, LocalType
  <2> QED BY <2>1, <2>3, <2>4, <2>5 DEF Acts, Step
<1> QED BY <1>2, <1>3, <1>5, <1>6, <1>7, <1>8, <1>9

\* A step changes on disk only what the record covers that it applies.
LEMMA OwnItems ==
  ASSUME TypeInv, TodoInv, NEW p \in Proc, Acts(p)
  PROVE  /\ \A c \in Card : loc'[c] # loc[c] \/ ver'[c] # ver[c] =>
              pc[p] = "apply" /\ c \in rec[p].cards
         /\ \A i \in Item : text'[i] # text[i] => pc[p] = "apply" /\ i \in Items(rec[p])
<1> DEFINE G == /\ \A c \in Card : loc'[c] # loc[c] \/ ver'[c] # ver[c] =>
                     pc[p] = "apply" /\ c \in rec[p].cards
                /\ \A i \in Item : text'[i] # text[i] => pc[p] = "apply" /\ i \in Items(rec[p])
<1> SUFFICES G OBVIOUS
<1>1. CASE UNCHANGED <<loc, text, ver>> BY <1>1
<1>2. ASSUME NEW u, Ready(p, u), pc[p] = "apply" PROVE u \in Tasks(rec[p])
  BY <1>2 DEF TodoInv, Ready
<1>3. ASSUME NEW i \in Item, compareFile(p, i) \/ writeFile(p, i) PROVE G
  <2>1. pc[p] = "apply" /\ i \in Items(rec[p])
    BY <1>3, UnitFacts DEF compareFile, writeFile, Ready, TodoInv
  <2> QED BY <1>3, <2>1 DEF compareFile, writeFile, TypeInv, TypeOK, DiskType, disk
<1>4. ASSUME NEW c \in Card, applyRename(p, c) \/ createDirectory(p, c) PROVE G
  <2>1. pc[p] = "apply" /\ c \in Relocates(rec[p])
    BY <1>2, <1>4, UnitFacts DEF applyRename, createDirectory
  <2>2. c \in rec[p].cards BY <2>1 DEF Relocates
  <2> QED BY <1>4, <2>1, <2>2 DEF applyRename, createDirectory, TypeInv, TypeOK, DiskType
<1>5. ASSUME NEW c \in Card, createSpec(p, c) PROVE G
  <2>1. pc[p] = "apply" /\ c \in Relocates(rec[p])
    BY <1>2, <1>5, UnitFacts DEF createSpec
  <2>2. c \in Items(rec[p]) BY <2>1 DEF Relocates, Items
  <2> QED BY <1>5, <2>1, <2>2 DEF createSpec, TypeInv, TypeOK, DiskType
<1>6. ASSUME NEW c \in Card, applyVersion(p, c) PROVE G
  <2>1. pc[p] = "apply" /\ c \in rec[p].cards
    BY <1>2, <1>6, UnitFacts DEF applyVersion
  <2> QED BY <1>6, <2>1 DEF applyVersion, TypeInv, TypeOK, DiskType
<1>7. \/ UNCHANGED <<loc, text, ver>>
      \/ \E i \in Item : compareFile(p, i) \/ writeFile(p, i)
      \/ \E c \in Card : applyRename(p, c) \/ createDirectory(p, c) \/ createSpec(p, c)
                         \/ applyVersion(p, c)
  BY DEF Acts, Step, Interrupt, Begin, acquire, RefusePending,
         pendingContext, ReadCard, ReadDone, RefuseStale, Stage, writeOperation, RefuseReplay,
         commitPhase, commitRename, operationRecords, Replay, RecoveryDone, disk
<1> HIDE DEF G
<1> QED BY <1>1, <1>3, <1>4, <1>5, <1>6, <1>7

LEMMA Moved ==
  ASSUME NEW r \in Record, Asks(r), NEW c \in Relocates(r)
  PROVE  r.to[c] # Absent
<1>1. c \in r.cards /\ c \in Card /\ r.from[c] \in Places /\ r.to[c] # r.from[c]
  BY DEF Relocates, Record
<1> QED BY <1>1 DEF Asks, Places, States, Absent, allowedMove, transitions

\* No card disappears, and none that is not there has a text.
LEMMA CardsStay ==
  ASSUME TypeInv, TodoInv, RecInv, AskInv, NEW p \in Proc, Acts(p), NEW c \in Card
  PROVE  /\ loc[c] # Absent => loc'[c] # Absent
         /\ loc'[c] = Absent => text'[c] = text[c]
<1> DEFINE G == /\ loc[c] # Absent => loc'[c] # Absent
                /\ loc'[c] = Absent => text'[c] = text[c]
<1> SUFFICES G OBVIOUS
<1>0. c \in Item BY DEF Item
<1>1. CASE loc'[c] = loc[c] /\ text'[c] = text[c] BY <1>1
<1>2. CASE pc[p] # "apply" BY <1>0, <1>1, <1>2, OwnItems
<1>3. CASE pc[p] = "apply"
  <2> DEFINE r == rec[p]
  <2>1. r \in Record /\ Asks(r) /\ Here(r) /\ todo[p] \subseteq Tasks(r)
    BY <1>3 DEF TypeInv, PcInv, AskInv, TodoInv, Writes
  <2> HIDE DEF r
  <2>2. ASSUME NEW d \in Card, applyRename(p, d) \/ createDirectory(p, d) PROVE G
    <3>1. d \in Relocates(r)
      BY <2>1, <2>2, UnitFacts DEF applyRename, createDirectory, Ready
    <3>2. r.to[d] # Absent BY <2>1, <3>1, Moved
    <3> QED BY <2>2, <3>2 DEF applyRename, createDirectory, TypeInv, TypeOK, DiskType, r
  <2>3. ASSUME NEW d \in Card, createSpec(p, d) PROVE G
    <3>1. d \in Relocates(r) /\ loc[d] = r.to[d] /\ loc' = loc
          /\ (text' = text \/ text' = [text EXCEPT ![d] = r.after[d]])
      BY <2>1, <2>3, UnitFacts DEF createSpec, Ready, r
    <3>2. r.to[d] # Absent BY <2>1, <3>1, Moved
    <3> QED BY <1>0, <3>1, <3>2 DEF TypeInv, TypeOK, DiskType
  <2>4. ASSUME NEW i \in Item, compareFile(p, i) \/ writeFile(p, i) PROVE G
    <3>1. i \in Items(r) \ Creates(r)
      BY <2>1, <2>4, UnitFacts DEF compareFile, writeFile, Ready
    <3>2. CASE i # c
      BY <1>0, <2>4, <3>2 DEF compareFile, writeFile, TypeInv, TypeOK, DiskType, disk
    <3>3. CASE i = c
      <4>1. c \in r.cards /\ r.from[c] # Absent
        BY <2>1, <3>1, <3>3, CardTransactionsAssumption DEF Items, Creates, Record
      <4>2. loc[c] # Absent /\ loc' = loc BY <2>1, <2>4, <4>1 DEF Here, compareFile, writeFile, disk
      <4> QED BY <4>2
    <3> QED BY <3>2, <3>3
  <2>5. \/ UNCHANGED <<loc, text>>
        \/ \E i \in Item : compareFile(p, i) \/ writeFile(p, i)
        \/ \E d \in Card : applyRename(p, d) \/ createDirectory(p, d) \/ createSpec(p, d)
    BY DEF Acts, Step, Interrupt, Begin, acquire, RefusePending, applyVersion,
         pendingContext, ReadCard, ReadDone, RefuseStale, Stage, writeOperation, RefuseReplay,
         commitPhase, commitRename, operationRecords, Replay, RecoveryDone, disk
  <2> HIDE DEF G
  <2>6. UNCHANGED <<loc, text>> => G BY DEF G
  <2> QED BY <2>2, <2>3, <2>4, <2>5, <2>6
<1> QED BY <1>2, <1>3

\* What is staged is asked for with reason.
LEMMA StagedAsks ==
  ASSUME TypeInv, HoldInv, KindInv, AskInv, NEW p \in Proc, Stage(p)
  PROVE  Asks(rec'[p]) /\ (\A c \in rec'[p].cards : rec'[p].from[c] # Absent => loc[c] # Absent)
<1>1. pc[p] = "stage" /\ Expected(p) BY DEF Stage
<1>2. PICK id \in Unused : rec'[p] = NewRecord(p, id)
  BY DEF Stage, TypeInv, TypeOK, LocalType
<1> DEFINE j == job[p]
           r == NewRecord(p, id)
<1>3. /\ j \in Job /\ j \in Jobs \cup {InitJob} /\ j.cards \subseteq Card /\ j.kind \notin {"read", "scan", "init"}
  BY <1>1 DEF TypeInv, PcInv, Job, HoldInv, KindInv, ReadOnly
<1>4. j \in Jobs BY <1>3 DEF InitJob
<1>5. j.kind \in {"update", "move", "create"} /\ (j.kind = "create" => j.to = "backlog")
  BY <1>3, <1>4, JobsAssumption DEF Job
<1>6. r.cards = j.cards /\ \A c \in j.cards :
        /\ r.from[c] = loc[c] /\ r.before[c] = text[c]
        /\ r.to[c] = IF ExclusiveBoard(j) THEN j.to ELSE loc[c]
  BY <1>3 DEF NewRecord, Item
<1> HIDE DEF r
<1>7. ASSUME NEW c \in j.cards
      PROVE IF r.from[c] = Absent THEN r.to[c] = "backlog" /\ r.before[c] = {}
            ELSE /\ r.from[c] # "archived"
                 /\ r.to[c] # r.from[c] => allowedMove(r.from[c], r.to[c])
  <2>1. c \in Card BY <1>3
  <2>2. CASE j.kind = "create"
    <3>1. loc[c] = Absent BY <1>1, <2>2 DEF Expected
    <3>2. text[c] = {} BY <2>1, <3>1 DEF AskInv
    <3> QED BY <1>5, <1>6, <2>2, <3>1, <3>2 DEF ExclusiveBoard
  <2>3. CASE j.kind \in {"update", "move"}
    <3>1. view[p][c] # None BY <1>1, <2>3 DEF HoldInv
    <3>2. loc[c] # Absent BY <2>1, <3>1 DEF AskInv
    <3>3. requireNotArchived(c) /\ (j.kind = "move" => allowedMove(loc[c], j.to))
      BY <1>1, <2>3 DEF Expected
    <3> QED BY <1>6, <2>3, <3>2, <3>3 DEF requireNotArchived, ExclusiveBoard
  <2> QED BY <1>5, <2>2, <2>3
<1>8. Asks(r) BY <1>6, <1>7 DEF Asks
<1>9. \A c \in r.cards : r.from[c] # Absent => loc[c] # Absent BY <1>6
<1> QED BY <1>2, <1>8, <1>9 DEF r

\* Where prepared records and the record of a command come from.
LEMMA PreparedFrom ==
  ASSUME TypeInv, RecInv, NEW p \in Proc, Acts(p), NEW r \in Prepared'
  PROVE  r \in Prepared \/ (pc[p] = "publish" /\ writeOperation(p) /\ r = rec[p])
<1>1. CASE writeOperation(p) BY <1>1 DEF writeOperation, Prepared
<1>2. CASE ~writeOperation(p) BY <1>2, PreparedShrinks DEF Acts
<1> QED BY <1>1, <1>2

LEMMA RecFrom ==
  ASSUME TypeInv, RecInv, NEW p \in Proc, Acts(p), Writes(p)'
  PROVE  \/ Writes(p) /\ rec'[p] = rec[p] /\ ~Stage(p) /\ ~Replay(p)
         \/ Stage(p)
         \/ Replay(p) /\ rec'[p] \in Prepared
<1>1. CASE Replay(p)
  <2>1. PICK r \in queue[p] : rec' = [rec EXCEPT ![p] = r] BY <1>1 DEF Replay
  <2> QED BY <1>1, <2>1 DEF RecInv, TypeInv, TypeOK, LocalType
<1>2. Stage(p) \/ Replay(p) \/ (Writes(p)' => Writes(p) /\ rec'[p] = rec[p])
  BY DEF Writes, TypeInv, TypeOK, LocalType, Acts, Step, Interrupt, Begin, acquire, RefusePending,
       pendingContext, ReadCard, ReadDone, RefuseStale, writeOperation, RefuseReplay,
       compareFile, writeFile, applyRename, createDirectory, createSpec, applyVersion, commitPhase,
       commitRename, operationRecords, RecoveryDone, Leave, Goto, local
<1> QED BY <1>1, <1>2

\* Where the cursors of a command and its unfinished snapshot come from.
LEMMA ViewFrom ==
  ASSUME TypeInv, NEW p \in Proc, Acts(p), NEW c \in Card
  PROVE  /\ \/ view'[p][c] \in {view[p][c], None}
            \/ ReadDone(p) /\ view'[p][c] = acc[p][c]
            \/ commitRename(p) /\ c \in rec[p].cards /\ view'[p][c] = SnapshotOf(c)
         /\ \/ acc'[p][c] \in {acc[p][c], None}
            \/ pc[p] = "read" /\ loc[c] # Absent /\ acc'[p][c] = SnapshotOf(c)
<1> DEFINE G == /\ \/ view'[p][c] \in {view[p][c], None}
                   \/ ReadDone(p) /\ view'[p][c] = acc[p][c]
                   \/ commitRename(p) /\ c \in rec[p].cards /\ view'[p][c] = SnapshotOf(c)
                /\ \/ acc'[p][c] \in {acc[p][c], None}
                   \/ pc[p] = "read" /\ loc[c] # Absent /\ acc'[p][c] = SnapshotOf(c)
<1> SUFFICES G OBVIOUS
<1>1. ASSUME NEW v, Leave(p, v) PROVE acc'[p][c] = None /\ view'[p] = v
  BY <1>1 DEF Leave, NoView, TypeInv, TypeOK, LocalType
<1>2. CASE view' = view /\ acc' = acc BY <1>2
<1>3. CASE ReadDone(p) BY <1>1, <1>3 DEF ReadDone, Merge
<1>4. CASE commitRename(p)
  BY <1>1, <1>2, <1>4 DEF commitRename, Merge
<1>5. ASSUME NEW d \in Card, ReadCard(p, d) PROVE G
  BY <1>5 DEF ReadCard, TypeInv, TypeOK, LocalType
<1>6. CASE Interrupt(p)
  BY <1>1, <1>6 DEF Interrupt, NoView
<1>7. CASE RefusePending(p) \/ RefuseStale(p) \/ RefuseReplay(p) \/ RecoveryDone(p)
  BY <1>1, <1>7 DEF RefusePending, RefuseStale, RefuseReplay, RecoveryDone
<1>8. \/ UNCHANGED <<view, acc>> \/ ReadDone(p) \/ commitRename(p) \/ Interrupt(p)
      \/ \E d \in Card : ReadCard(p, d)
      \/ RefusePending(p) \/ RefuseStale(p) \/ RefuseReplay(p) \/ RecoveryDone(p)
  BY DEF Acts, Step, Begin, acquire, pendingContext, Stage, writeOperation, compareFile, writeFile,
       applyRename, createDirectory, createSpec, applyVersion, commitPhase,
       operationRecords, Replay, local
<1> HIDE DEF G
<1> QED BY <1>2, <1>3, <1>4, <1>5, <1>6, <1>7, <1>8

\* What leaves the list of units is done.
LEMMA EntriesLeft ==
  ASSUME TypeInv, TodoInv, AskInv, NEW p \in Proc, Acts(p), pc'[p] \in {"apply", "commit"},
         NEW c \in Creates(rec'[p]), loc'[c] = Absent, loc[c] = Absent, Asks(rec'[p]), rec'[p] \in Record
  PROVE  <<"entry", c>> \in todo'[p]
<1> DEFINE G == <<"entry", c>> \in todo'[p]
<1> SUFFICES G OBVIOUS
<1>0. c \in Relocates(rec'[p]) /\ c \in Card BY DEF Creates, Relocates, Asks, Absent, Record
<1>1. CASE rec'[p] = rec[p] /\ todo'[p] = todo[p] /\ pc[p] \in {"apply", "commit"}
  BY <1>1 DEF AskInv
<1>2. CASE todo'[p] = Units(rec'[p])
  BY <1>0, <1>2, UnitFacts
<1>3. ASSUME NEW u, u # <<"entry", c>>, Done(p, u), rec' = rec, pc[p] = "apply" PROVE G
  BY <1>3 DEF Done, AskInv, TypeInv, TypeOK, LocalType
<1>4. ASSUME NEW i \in Item, compareFile(p, i) \/ writeFile(p, i) PROVE G
  <2>1. /\ rec' = rec /\ pc[p] = "apply"
        /\ todo[p] \ {<<"file", i>>, <<"write", i>>} \subseteq todo'[p]
    BY <1>4 DEF compareFile, writeFile, Done, TypeInv, TypeOK, LocalType
  <2> QED BY <2>1 DEF AskInv
<1>5. ASSUME NEW d \in Card, applyRename(p, d) PROVE G
  BY <1>3, <1>5 DEF applyRename
<1>6. ASSUME NEW d \in Card, createSpec(p, d) PROVE G
  BY <1>3, <1>6, <1>0 DEF createSpec, Creates, Relocates
<1>7. ASSUME NEW d \in Card, applyVersion(p, d) PROVE G
  BY <1>3, <1>7 DEF applyVersion
<1>8. CASE (\E d \in Card : createDirectory(p, d)) \/ commitPhase(p)
  BY <1>1, <1>8 DEF createDirectory, commitPhase, local
<1>9. CASE writeOperation(p)
  BY <1>2, <1>9 DEF writeOperation, TypeInv, TypeOK, LocalType
<1>10. CASE Replay(p)
  <2>1. PICK r \in queue[p] : /\ rec' = [rec EXCEPT ![p] = r]
                              /\ todo' = [todo EXCEPT ![p] = Units(r)]
    BY <1>10 DEF Replay
  <2> QED BY <1>2, <2>1 DEF TypeInv, TypeOK, LocalType
<1>11. ASSUME NEW v, Leave(p, v) PROVE FALSE
  BY <1>11 DEF Leave, TypeInv, TypeOK, LocalType
<1>12. \/ \E i \in Item : compareFile(p, i) \/ writeFile(p, i)
       \/ \E d \in Card : \/ applyRename(p, d) \/ createSpec(p, d) \/ applyVersion(p, d)
       \/ (\E d \in Card : createDirectory(p, d)) \/ commitPhase(p)
       \/ writeOperation(p) \/ Replay(p)
  <2>1. ~(ReadDone(p) \/ Interrupt(p) \/ RefusePending(p) \/ RefuseStale(p) \/ RefuseReplay(p)
          \/ RecoveryDone(p))
    BY <1>11 DEF ReadDone, Interrupt, RefusePending, RefuseStale, RefuseReplay, RecoveryDone
  <2>2. ~(commitRename(p) \/ operationRecords(p))
    BY <1>11 DEF commitRename, operationRecords, Goto, TypeInv, TypeOK, LocalType
  <2>3. ~(\/ acquire(p) \/ pendingContext(p) \/ Stage(p) \/ (\E d \in Card : ReadCard(p, d))
          \/ (\E j \in Jobs : Begin(p, j)))
    BY DEF acquire, pendingContext, Stage, ReadCard, Begin, Goto, TypeInv, TypeOK, LocalType
  <2> QED BY <2>1, <2>2, <2>3 DEF Acts, Step
<1> HIDE DEF G
<1> QED BY <1>4, <1>5, <1>6, <1>7, <1>8, <1>9, <1>10, <1>12

LEMMA AskStep ==
  ASSUME TypeInv, HoldInv, KindInv, RecInv, TodoInv, AskInv, NEW p \in Proc, Acts(p)
  PROVE  AskInv'
<1>1. TypeInv' BY ActionTypes DEF Acts
<1>2. \A q \in Proc \ {p} : UNCHANGED <<pc[q], rec[q], todo[q], acc[q], view[q]>> BY Others
<1>3. \A c \in Card : /\ loc[c] # Absent => loc'[c] # Absent
                      /\ loc'[c] = Absent => text'[c] = text[c]
  BY CardsStay
<1>4. ASSUME NEW r \in Record, Here(r) PROVE Here(r)'
  BY <1>3, <1>4 DEF Here, Record
<1>5. \A r \in Prepared : r \in Record BY DEF Prepared, TypeInv, TypeOK, DiskType
<1>6. \A q \in Proc : Writes(q) => rec[q] \in Record BY DEF Writes, TypeInv, PcInv
<1>7. ASSUME NEW r \in Prepared' PROVE Asks(r) /\ Here(r)'
  <2>1. r \in Prepared \/ (pc[p] = "publish" /\ r = rec[p]) BY PreparedFrom
  <2>2. r \in Record /\ Asks(r) /\ Here(r) BY <1>5, <1>6, <2>1 DEF AskInv, Writes
  <2> QED BY <1>4, <2>2
<1>8. ASSUME NEW q \in Proc, Writes(q)' PROVE Asks(rec'[q]) /\ Here(rec[q])'
  <2> DEFINE r == rec'[q]
  <2>1. CASE Writes(q) /\ rec'[q] = rec[q]
    <3>1. r \in Record /\ Asks(r) /\ Here(r) BY <1>6, <2>1 DEF AskInv
    <3>2. \A c \in r.cards : r.from[c] # Absent => loc'[c] # Absent
      BY <1>3, <3>1 DEF Here, Record
    <3> QED BY <3>1, <3>2 DEF Here
  <2>2. CASE q # p BY <1>2, <1>8, <2>1, <2>2 DEF Writes
  <2>3. CASE q = p /\ Stage(p)
    <3>1. Asks(r) /\ \A c \in r.cards : r.from[c] # Absent => loc[c] # Absent
      BY <2>3, StagedAsks
    <3>2. r \in Record BY <1>1, <1>8 DEF TypeInv, PcInv, Writes
    <3>3. \A c \in r.cards : r.from[c] # Absent => loc'[c] # Absent
      BY <1>3, <3>1, <3>2 DEF Record
    <3> QED BY <3>1, <3>3 DEF Here
  <2>4. CASE q = p /\ rec'[p] \in Prepared
    <3>1. r \in Record /\ Asks(r) /\ Here(r) BY <1>5, <2>4 DEF AskInv
    <3>2. \A c \in r.cards : r.from[c] # Absent => loc'[c] # Absent
      BY <1>3, <3>1 DEF Here, Record
    <3> QED BY <3>1, <3>2 DEF Here
  <2> QED BY <1>8, <2>1, <2>2, <2>3, <2>4, RecFrom
<1>9. ASSUME NEW q \in Proc, pc'[q] \in {"apply", "commit"}, NEW c \in Creates(rec'[q]),
             loc'[c] = Absent
      PROVE <<"entry", c>> \in todo'[q]
  <2>1. rec'[q] \in Record /\ Asks(rec'[q]) BY <1>1, <1>8, <1>9 DEF TypeInv, PcInv, Writes
  <2>2. c \in Card BY <2>1 DEF Creates, Record
  <2>3. loc[c] = Absent BY <1>3, <1>9, <2>2
  <2>4. CASE q # p
    BY <1>2, <1>9, <2>3, <2>4 DEF AskInv
  <2>5. CASE q = p BY <1>9, <2>1, <2>3, <2>5, EntriesLeft
  <2> QED BY <2>4, <2>5
<1>10. ASSUME NEW c \in Card, loc'[c] = Absent, NEW q \in Proc
       PROVE  text'[c] = {} /\ view'[q][c] = None /\ acc'[q][c] = None
  <2>1. loc[c] = Absent /\ text'[c] = text[c] BY <1>3, <1>10
  <2>2. text[c] = {} /\ view[q][c] = None /\ acc[q][c] = None BY <2>1 DEF AskInv
  <2>3. ~(commitRename(p) /\ c \in rec[p].cards)
    <3> SUFFICES ASSUME commitRename(p), c \in rec[p].cards PROVE FALSE OBVIOUS
    <3>1. pc[p] = "commit" /\ todo[p] = {} /\ Here(rec[p])
      BY DEF commitRename, TodoInv, AskInv, Writes
    <3>2. c \notin Creates(rec[p]) BY <2>1, <3>1 DEF AskInv
    <3> QED BY <2>1, <3>1, <3>2 DEF Here, Creates
  <2>4. CASE q # p BY <1>2, <2>1, <2>2, <2>4
  <2>5. CASE q = p BY <2>1, <2>2, <2>3, <2>5, ViewFrom
  <2> QED BY <2>4, <2>5
<1>11. \A c \in Creates(rec'[p]) : TRUE OBVIOUS
<1> QED
  <2>1. (\A r \in Prepared : Asks(r) /\ Here(r))' BY <1>7
  <2>2. (\A q \in Proc : Writes(q) => Asks(rec[q]) /\ Here(rec[q]))'
    BY <1>8 DEF Asks, Here
  <2>3. (\A q \in Proc : pc[q] \in {"apply", "commit"} =>
           \A c \in Creates(rec[q]) : loc[c] = Absent => <<"entry", c>> \in todo[q])'
    BY <1>9 DEF Creates
  <2>4. (\A c \in Card : loc[c] = Absent =>
           text[c] = {} /\ \A q \in Proc : view[q][c] = None /\ acc[q][c] = None)'
    <3>1. \A c \in Card : loc'[c] = Absent => text'[c] = {}
      BY <1>3 DEF AskInv
    <3> QED BY <1>10, <3>1
  <2> QED BY <2>1, <2>2, <2>3, <2>4 DEF AskInv

\* A step towards what the record says keeps the record replayable.
LEMMA Towards ==
  ASSUME NEW r \in Record, Started(r),
         \A i \in Items(r) : text'[i] \in {text[i], r.after[i]},
         \A c \in r.cards : loc'[c] \in {loc[c], r.to[c]},
         \A c \in r.cards : ver'[c] = ver[c] \/ VersionDone(r, c)',
         \A c \in r.cards : loc'[c] # loc[c] /\ r.from[c] # Absent =>
             \A i \in Items(r) \ Creates(r) : text'[i] = r.after[i]
  PROVE  /\ Started(r)'
         /\ \A c \in r.cards : VersionDone(r, c) => VersionDone(r, c)'
<1>1. ASSUME NEW c \in r.cards, VersionDone(r, c) PROVE VersionDone(r, c)'
  BY <1>1 DEF VersionDone, Freezes
<1>2. ASSUME NEW c \in r.cards PROVE (ver[c].rev + 1 = r.rev[c] \/ VersionDone(r, c))'
  BY <1>1, <1>2 DEF Started
<1>3. ASSUME NEW c \in r.cards PROVE
        /\ loc'[c] \in {r.from[c], r.to[c]}
        /\ loc'[c] # r.from[c] /\ r.from[c] # Absent =>
             \A i \in Items(r) \ Creates(r) : text'[i] = r.after[i]
  BY <1>3 DEF Started
<1>4. \A i \in Items(r) : text'[i] \in {r.before[i], r.after[i]}
  BY DEF Started
<1> QED BY <1>1, <1>2, <1>3, <1>4 DEF Started

\* Progress of the record r when T is left to do.
ProgressOf(r, T) ==
  /\ \A i \in Items(r) \ Creates(r) : <<"file", i>> \notin T => text[i] = r.after[i]
  /\ \A c \in Relocates(r) : <<"entry", c>> \notin T => loc[c] = r.to[c] /\ text[c] = r.after[c]
  /\ \A c \in r.cards : <<"version", c>> \notin T => VersionDone(r, c)

ApplyAny(p) ==
  \/ \E i \in Item : compareFile(p, i) \/ writeFile(p, i)
  \/ \E c \in Card : \/ applyRename(p, c) \/ createDirectory(p, c)
                     \/ createSpec(p, c) \/ applyVersion(p, c)

LEMMA OwnFile ==
  ASSUME TypeInv, TodoInv, NEW p \in Proc, NEW r \in Record, r = rec[p], NEW i \in Item,
         compareFile(p, i) \/ writeFile(p, i), Started(r), ProgressOf(r, todo[p])
  PROVE  Started(r)' /\ ProgressOf(r, todo[p])'
<1>1. /\ i \in Items(r) \ Creates(r) /\ UNCHANGED <<loc, ver>>
      /\ \A u \in Units(r) : u # <<"file", i>> => (u \in todo'[p] <=> u \in todo[p])
  <2>1. <<"file", i>> \in todo[p] \/ <<"write", i>> \in todo[p]
    BY DEF compareFile, writeFile, Ready
  <2>2. pc[p] = "apply" /\ UNCHANGED <<loc, ver>> BY DEF compareFile, writeFile, disk
  <2>3. \/ todo'[p] = todo[p] \ {<<"file", i>>}
        \/ todo'[p] = todo[p] \cup {<<"write", i>>}
        \/ todo'[p] = todo[p] \ {<<"file", i>>, <<"write", i>>}
    BY DEF compareFile, writeFile, Done, TypeInv, TypeOK, LocalType
  <2> QED BY <2>1, <2>2, <2>3, UnitFacts DEF TodoInv
<1>2. /\ <<"file", i>> \notin todo'[p] =>
           text'[i] = r.after[i] \/ (<<"file", i>> \notin todo[p] /\ text' = text)
      /\ text'[i] \in {text[i], r.after[i]}
      /\ \A k \in Items(r) : k # i => text'[k] = text[k]
  <2>1. Items(r) \subseteq Item BY DEF Items, Record, Item
  <2>2. CASE compareFile(p, i)
    BY <2>2 DEF compareFile, Replayed, Done, TypeInv, TypeOK, LocalType, disk
  <2>3. CASE writeFile(p, i)
    BY <2>1, <2>3 DEF writeFile, TypeInv, TypeOK, DiskType
  <2> QED BY <2>2, <2>3
<1>3. Relocates(r) \subseteq Items(r) BY DEF Relocates, Items
<1>4. /\ Started(r)' /\ \A c \in r.cards : VersionDone(r, c) => VersionDone(r, c)'
  BY <1>1, <1>2, Towards
<1>5. ASSUME NEW k \in Items(r) \ Creates(r), <<"file", k>> \notin todo'[p]
      PROVE  text'[k] = r.after[k]
  BY <1>1, <1>2, <1>5, UnitFacts DEF ProgressOf
<1>6. ASSUME NEW c \in Relocates(r), <<"entry", c>> \notin todo'[p]
      PROVE  loc'[c] = r.to[c] /\ text'[c] = r.after[c]
  <2>1. <<"entry", c>> \notin todo[p] BY <1>1, <1>6, UnitFacts
  <2> QED BY <1>1, <1>2, <1>3, <2>1 DEF ProgressOf
<1>7. ASSUME NEW c \in r.cards, <<"version", c>> \notin todo'[p]
      PROVE  VersionDone(r, c)'
  BY <1>1, <1>4, <1>7, UnitFacts DEF ProgressOf
<1> QED BY <1>4, <1>5, <1>6, <1>7 DEF ProgressOf

LEMMA OwnRename ==
  ASSUME TypeInv, TodoInv, NEW p \in Proc, NEW r \in Record, r = rec[p], NEW c \in Card,
         applyRename(p, c), Started(r), ProgressOf(r, todo[p])
  PROVE  Started(r)' /\ ProgressOf(r, todo[p])'
<1>1. /\ c \in Relocates(r) /\ c \notin Creates(r) /\ UNCHANGED <<text, ver>>
      /\ todo'[p] = todo[p] \ {<<"entry", c>>}
  BY UnitFacts DEF applyRename, Ready, TodoInv, Done, TypeInv, TypeOK, LocalType
<1>2. loc'[c] = r.to[c] /\ \A d \in Card : d # c => loc'[d] = loc[d]
  BY DEF applyRename, TypeInv, TypeOK, DiskType
<1>3. \A i \in Items(r) \ Creates(r) : text[i] = r.after[i]
  BY DEF applyRename, Ready, Before, ProgressOf
<1>4. Relocates(r) \subseteq r.cards /\ r.cards \subseteq Card /\ c \in Items(r) \ Creates(r)
  BY <1>1 DEF Relocates, Record, Items
<1>5. /\ Started(r)' /\ \A d \in r.cards : VersionDone(r, d) => VersionDone(r, d)'
  BY <1>1, <1>2, <1>3, <1>4, Towards
<1> QED BY <1>1, <1>2, <1>3, <1>4, <1>5 DEF ProgressOf

LEMMA OwnCreate ==
  ASSUME TypeInv, TodoInv, NEW p \in Proc, NEW r \in Record, r = rec[p], NEW c \in Card,
         createDirectory(p, c) \/ createSpec(p, c), Started(r), ProgressOf(r, todo[p])
  PROVE  Started(r)' /\ ProgressOf(r, todo[p])'
<1>1. c \in Relocates(r) /\ c \in Creates(r) /\ ver' = ver
  BY UnitFacts DEF createDirectory, createSpec, Ready, TodoInv
<1>2. Relocates(r) \subseteq r.cards /\ r.cards \subseteq Card /\ Items(r) \subseteq Item
      /\ Relocates(r) \subseteq Items(r) /\ c \in Item /\ r.from[c] = Absent
  BY <1>1 DEF Relocates, Record, Items, Item, Creates
<1>3. CASE createDirectory(p, c)
  <2>1. text' = text /\ todo' = todo /\ <<"entry", c>> \in todo[p]
    BY <1>3 DEF createDirectory, local, Ready
  <2>2. loc'[c] = r.to[c] /\ \A d \in Card : d # c => loc'[d] = loc[d]
    BY <1>3 DEF createDirectory, TypeInv, TypeOK, DiskType
  <2>3. /\ Started(r)' /\ \A d \in r.cards : VersionDone(r, d) => VersionDone(r, d)'
    BY <1>1, <1>2, <2>1, <2>2, Towards
  <2> QED BY <1>1, <1>2, <2>1, <2>2, <2>3 DEF ProgressOf
<1>4. CASE createSpec(p, c)
  <2>1. loc' = loc /\ todo'[p] = todo[p] \ {<<"entry", c>>} /\ loc[c] = r.to[c]
    BY <1>4 DEF createSpec, Done, TypeInv, TypeOK, LocalType
  <2>2. text'[c] = r.after[c] /\ \A i \in Item : i # c => text'[i] = text[i]
    BY <1>2, <1>4 DEF createSpec, Replayed, TypeInv, TypeOK, DiskType
  <2>3. /\ Started(r)' /\ \A d \in r.cards : VersionDone(r, d) => VersionDone(r, d)'
    BY <1>1, <1>2, <2>1, <2>2, Towards
  <2> QED BY <1>1, <1>2, <2>1, <2>2, <2>3 DEF ProgressOf
<1> QED BY <1>3, <1>4

LEMMA OwnVersion ==
  ASSUME TypeInv, TodoInv, NEW p \in Proc, NEW r \in Record, r = rec[p], NEW c \in Card,
         Asks(r), applyVersion(p, c), Started(r), ProgressOf(r, todo[p])
  PROVE  Started(r)' /\ ProgressOf(r, todo[p])'
<1>1. c \in r.cards /\ UNCHANGED <<loc, text>> /\ todo'[p] = todo[p] \ {<<"version", c>>}
  BY UnitFacts DEF applyVersion, Ready, TodoInv, Done, TypeInv, TypeOK, LocalType
<1>2. r.cards \subseteq Card /\ Relocates(r) \subseteq r.cards /\ Creates(r) \subseteq Relocates(r)
  BY DEF Record, Relocates, Creates, Asks, Absent
<1>3. \A u \in todo[p] : u[1] \notin {"file", "entry"}
  BY DEF applyVersion, Ready, Before
<1>4. \A i : <<"file", i>> \notin todo[p] /\ <<"entry", i>> \notin todo[p]
  BY <1>3
<1>5. \A i \in Items(r) : text[i] = r.after[i]
  BY <1>2, <1>4 DEF ProgressOf
<1>6. \A d \in r.cards : loc[d] = r.to[d]
  BY <1>2, <1>4 DEF ProgressOf, Started, Relocates
<1>7. VersionDone(r, c)'
  <2>1. CASE ver[c].rev = r.rev[c] /\ UNCHANGED ver
    <3>1. ver[c].rev \in Nat BY <1>1, <1>2 DEF TypeInv, TypeOK, DiskType, Version
    <3>2. VersionDone(r, c) BY <1>1, <2>1, <3>1 DEF Started
    <3> QED BY <1>1, <2>1, <3>2 DEF VersionDone, Freezes
  <2>2. CASE ver' = [ver EXCEPT ![c] = [rev |-> r.rev[c], op |-> r.id,
                                        frozen |-> @.frozen \/ Freezes(r, c)]]
    <3>1. ver'[c].rev = r.rev[c] /\ ver'[c].op = r.id /\ (Freezes(r, c) => ver'[c].frozen)
      BY <1>1, <1>2, <2>2 DEF TypeInv, TypeOK, DiskType
    <3> QED BY <1>1, <1>5, <1>6, <3>1 DEF VersionDone, Freezes
  <2> QED BY <2>1, <2>2 DEF applyVersion
<1>8. \A d \in Card : d # c => ver'[d] = ver[d]
  BY DEF applyVersion, TypeInv, TypeOK, DiskType
<1>9. /\ Started(r)' /\ \A d \in r.cards : VersionDone(r, d) => VersionDone(r, d)'
  BY <1>1, <1>2, <1>7, <1>8, Towards
<1> QED BY <1>1, <1>2, <1>5, <1>6, <1>7, <1>9 DEF ProgressOf

LEMMA OwnApply ==
  ASSUME TypeInv, TodoInv, AskInv, NEW p \in Proc, NEW r \in Record, r = rec[p],
         pc[p] = "apply", ApplyAny(p), Started(r), ProgressOf(r, todo[p])
  PROVE  Started(r)' /\ ProgressOf(r, todo[p])'
<1>1. Asks(r) BY DEF AskInv, Writes
<1> QED BY <1>1, OwnFile, OwnRename, OwnCreate, OwnVersion DEF ApplyAny

\* What the record p applies does not cover stays.
LEMMA Untouched ==
  ASSUME TypeInv, TodoInv, NEW p \in Proc, Acts(p), NEW r \in Record,
         pc[p] = "apply" => Items(r) \cap Items(rec[p]) = {}
  PROVE  /\ \A i \in Items(r) : text'[i] = text[i]
         /\ \A c \in r.cards : loc'[c] = loc[c] /\ ver'[c] = ver[c]
<1>1. Items(r) \subseteq Item /\ r.cards \subseteq Items(r) /\ r.cards \subseteq Card
  BY DEF Items, Record, Item
<1>2. rec[p].cards \subseteq Items(rec[p]) BY DEF Items
<1> QED BY <1>1, <1>2, OwnItems

JInv == JournalInv /\ AInv /\ BInv

LEMMA RecordApart ==
  ASSUME JInv, NEW q \in Proc, NEW p \in Proc, q # p, Writes(q), pc[p] = "apply"
  PROVE  Items(rec[q]) \cap Items(rec[p]) = {}
<1> USE DEF JInv, JournalInv, AInv
<1>1. Past(p) /\ Past(q) /\ job[q].kind # "scan" /\ job[p].kind # "scan"
  BY DEF Past, Writes, KindInv, ReadOnly
<1>2. job[q].kind # "init" /\ Mine(p) \cap Mine(q) = {}
  BY <1>1, Apart DEF Writes
<1>3. job[p].kind # "init"
  BY <1>1, Apart
<1>4. Items(rec[q]) = Mine(q) /\ Items(rec[p]) = Mine(p)
  BY <1>2, <1>3 DEF KindInv, Writes
<1> QED BY <1>2, <1>4

LEMMA StageStep ==
  ASSUME JInv, NEW p \in Proc, Acts(p)
  PROVE  StageInv'
<1> USE DEF JInv, JournalInv, AInv
<1>1. edits' = edits
  BY DEF Acts, Step, Interrupt, Begin, acquire, RefusePending, pendingContext, ReadCard, ReadDone,
       RefuseStale, Stage, writeOperation, RefuseReplay, compareFile, writeFile, applyRename, createDirectory,
       createSpec, applyVersion, commitPhase, commitRename, operationRecords, Replay, RecoveryDone,
       bounds
<1>2. ASSUME NEW q \in Proc, pc[q] = "publish", rec'[q] = rec[q], pc'[q] = "publish"
      PROVE /\ \A c \in rec'[q].cards : loc'[c] = rec'[q].from[c] /\ rec'[q].rev[c] = ver'[c].rev + 1
            /\ edits' = 0 => \A i \in Items(rec'[q]) : text'[i] = rec'[q].before[i]
  <2>1. rec[q] \in Record /\ Writes(q) BY <1>2 DEF TypeInv, PcInv, Writes
  <2>2. pc[p] = "apply" => Items(rec[q]) \cap Items(rec[p]) = {}
    BY <1>2, <2>1, RecordApart
  <2>3. /\ \A i \in Items(rec[q]) : text'[i] = text[i]
        /\ \A c \in rec[q].cards : loc'[c] = loc[c] /\ ver'[c] = ver[c]
    BY <2>1, <2>2, Untouched
  <2>4. /\ \A c \in rec[q].cards : loc[c] = rec[q].from[c] /\ rec[q].rev[c] = ver[c].rev + 1
        /\ edits = 0 => \A i \in Items(rec[q]) : text[i] = rec[q].before[i]
    BY <1>2 DEF BInv, StageInv
  <2> QED BY <1>1, <1>2, <2>3, <2>4
<1>3. ASSUME Stage(p)
      PROVE /\ \A c \in rec'[p].cards : loc'[c] = rec'[p].from[c] /\ rec'[p].rev[c] = ver'[c].rev + 1
            /\ \A i \in Items(rec'[p]) : text'[i] = rec'[p].before[i]
  <2>1. PICK id \in Unused : rec'[p] = NewRecord(p, id)
    BY <1>3 DEF Stage, TypeInv, TypeOK, LocalType
  <2>2. UNCHANGED <<loc, text, ver>> BY <1>3 DEF Stage, disk
  <2>3. job[p].cards \subseteq Card /\ job[p].groups \subseteq Group
    BY <1>3 DEF Stage, TypeInv, PcInv, Job
  <2> QED BY <2>1, <2>2, <2>3 DEF NewRecord, touch, Items, Item
<1>4. ASSUME NEW q \in Proc, pc'[q] = "publish", ~(q = p /\ Stage(p))
      PROVE  pc[q] = "publish" /\ rec'[q] = rec[q]
  <2>1. CASE q # p BY <1>4, <2>1, Others
  <2>2. CASE q = p
    <3>1. ~Replay(p) BY <1>4, <2>2 DEF Replay, Goto, TypeInv, TypeOK, LocalType
    <3>2. Writes(p) /\ rec'[p] = rec[p] BY <1>4, <2>2, <3>1, RecFrom DEF Writes
    <3>3. pc[p] = "publish"
      BY <1>4, <2>2 DEF TypeInv, TypeOK, LocalType, Acts, Step, Interrupt, Begin, acquire, RefusePending,
       pendingContext, ReadCard, ReadDone, RefuseStale, writeOperation, RefuseReplay,
       compareFile, writeFile, applyRename, createDirectory, createSpec, applyVersion, commitPhase,
       commitRename, operationRecords, Replay, RecoveryDone, Leave, Goto, local
    <3> QED BY <2>2, <3>2, <3>3
  <2> QED BY <2>1, <2>2
<1>5. ASSUME NEW q \in Proc, pc'[q] = "publish"
      PROVE /\ \A c \in rec'[q].cards : loc'[c] = rec'[q].from[c] /\ rec'[q].rev[c] = ver'[c].rev + 1
            /\ edits' = 0 => \A i \in Items(rec'[q]) : text'[i] = rec'[q].before[i]
  <2>1. CASE q = p /\ Stage(p) BY <1>3, <2>1
  <2>2. CASE ~(q = p /\ Stage(p)) BY <1>2, <1>4, <1>5, <2>2
  <2> QED BY <2>1, <2>2
<1>6. (\A q \in Proc : pc[q] = "publish" =>
        /\ \A c \in rec[q].cards : loc[c] = rec[q].from[c] /\ rec[q].rev[c] = ver[c].rev + 1
        /\ edits = 0 => \A i \in Items(rec[q]) : text[i] = rec[q].before[i])'
  <2>1. \A r : Items(r)' = Items(r) BY DEF Items
  <2> QED BY <1>5 DEF Items
<1> QED BY <1>6 DEF StageInv

\* The record of a command that applies it or has just finished it.
LEMMA PendStep ==
  ASSUME JInv, NEW p \in Proc, Acts(p)
  PROVE  PendInv' /\ DoneInv'
<1> USE DEF JInv, JournalInv, AInv
<1>1. edits' = edits
  BY DEF Acts, Step, Interrupt, Begin, acquire, RefusePending, pendingContext, ReadCard, ReadDone,
       RefuseStale, Stage, writeOperation, RefuseReplay, compareFile, writeFile, applyRename, createDirectory,
       createSpec, applyVersion, commitPhase, commitRename, operationRecords, Replay, RecoveryDone,
       bounds
<1>2. CASE edits # 0 BY <1>1, <1>2 DEF PendInv, DoneInv
<1>3. CASE edits = 0
  <2>1. \A r \in Prepared : r \in Record /\ Started(r)
    BY <1>3 DEF BInv, PendInv, Prepared, TypeInv, TypeOK, DiskType
  <2>2. \A q \in Proc : pc[q] \in {"apply", "commit"} => rec[q] \in Record /\ ProgressOf(rec[q], todo[q])
    BY <1>3 DEF BInv, DoneInv, Progress, ProgressOf, TypeInv, PcInv
  <2>3. pc[p] = "apply" => rec[p] \in Prepared
    BY DEF RecInv, Prepared, Writes
  \* what nobody touches
  <2>4. ASSUME NEW r \in Record, pc[p] = "apply" => Items(r) \cap Items(rec[p]) = {}
        PROVE  /\ Started(r) => Started(r)'
               /\ \A q \in Proc : UNCHANGED todo[q] /\ ProgressOf(r, todo[q]) => ProgressOf(r, todo[q])'
    <3>1. /\ \A i \in Items(r) : text'[i] = text[i]
          /\ \A c \in r.cards : loc'[c] = loc[c] /\ ver'[c] = ver[c]
      BY <2>4, Untouched
    <3>2. \A c \in r.cards : VersionDone(r, c) <=> VersionDone(r, c)'
      BY <3>1 DEF VersionDone, Freezes
    <3>3. Started(r) => Started(r)' BY <3>1, <3>2 DEF Started
    <3>4. Relocates(r) \subseteq r.cards /\ r.cards \subseteq Items(r)
      BY DEF Relocates, Items
    <3>5. ASSUME NEW q \in Proc, UNCHANGED todo[q], ProgressOf(r, todo[q]) PROVE ProgressOf(r, todo[q])'
      BY <3>1, <3>2, <3>4, <3>5 DEF ProgressOf
    <3> QED BY <3>3, <3>5
  <2>5. CASE pc[p] = "apply" /\ ApplyAny(p)
    <3>0. rec[p] \in Record BY <2>2, <2>5
    <3> PICK r \in Record : r = rec[p] BY <3>0
    <3>1. r \in Prepared /\ Started(r) /\ ProgressOf(r, todo[p])
      BY <2>1, <2>2, <2>3, <2>5
    <3>2. UNCHANGED <<rec, pend, pc>>
      BY <2>5 DEF ApplyAny, compareFile, writeFile, applyRename, createDirectory, createSpec, applyVersion, disk, local
    <3>3. Started(r)' /\ ProgressOf(r, todo[p])' BY <2>5, <3>1, OwnApply
    <3>4. ASSUME NEW s \in Prepared' PROVE Started(s)'
      <4>1. s \in Prepared BY <3>2 DEF Prepared
      <4>2. CASE s = r BY <3>3, <4>2
      <4>3. CASE s # r
        <5>1. Items(s) \cap Items(r) = {} BY <3>1, <4>1, <4>3 DEF PendingDisjoint
        <5> QED BY <2>1, <2>4, <4>1, <5>1
      <4> QED BY <4>2, <4>3
    <3>5. ASSUME NEW q \in Proc, pc[q] \in {"apply", "commit"}, q # p PROVE ProgressOf(rec[q], todo[q])'
      <4>0. rec[q] \in Record BY <2>2, <3>5
      <4> PICK s \in Record : s = rec[q] BY <4>0
      <4>1. Items(s) \cap Items(rec[p]) = {} BY <2>5, <3>5, RecordApart DEF Writes
      <4>2. ProgressOf(s, todo[q]) /\ todo'[q] = todo[q] /\ rec'[q] = s
        BY <2>2, <3>5, Others
      <4>3. ProgressOf(s, todo[q])' BY <2>4, <3>5, <4>1, <4>2
      <4> QED BY <4>2, <4>3 DEF ProgressOf, VersionDone, Freezes, Items, Creates, Relocates
    <3>6. rec'[p] = r BY <3>2
    <3>7. ProgressOf(rec[p], todo[p])'
      BY <3>3, <3>6 DEF ProgressOf, VersionDone, Freezes, Items, Creates, Relocates
    <3>8. PendInv' BY <3>4 DEF PendInv
    <3>9. (\A q \in Proc : pc[q] \in {"apply", "commit"} => ProgressOf(rec[q], todo[q]))'
      BY <3>2, <3>5, <3>7
    <3> QED BY <3>8, <3>9 DEF DoneInv, Progress, ProgressOf
  <2>6. CASE ~(pc[p] = "apply" /\ ApplyAny(p))
    <3>1. UNCHANGED <<loc, text, ver>>
      BY <2>6 DEF ApplyAny, Acts, Step, Interrupt, Begin, acquire, RefusePending, pendingContext,
       ReadCard, ReadDone, RefuseStale, Stage, writeOperation, RefuseReplay, commitPhase,
       commitRename, operationRecords, Replay, RecoveryDone, compareFile, writeFile, applyRename,
       createDirectory, createSpec, applyVersion, disk
    <3>2. \A s : Started(s) => Started(s)'
      BY <3>1 DEF Started, VersionDone, Freezes, Items, Creates, Relocates
    <3>3. ASSUME NEW s \in Prepared' PROVE Started(s)'
      <4>1. CASE s \in Prepared BY <2>1, <3>2, <4>1
      <4>2. CASE pc[p] = "publish" /\ s = rec[p]
        <5>1. Started(s)
          BY <1>3, <4>2 DEF BInv, StageInv, Started
        <5> QED BY <3>2, <5>1
      <4> QED BY <4>1, <4>2, PreparedFrom
    <3>4. ASSUME NEW q \in Proc, pc[q] \in {"apply", "commit"}, rec'[q] = rec[q], todo'[q] = todo[q]
          PROVE  ProgressOf(rec[q], todo[q])'
      BY <2>2, <3>1, <3>4 DEF ProgressOf, VersionDone, Freezes, Items, Creates, Relocates
    <3>5. ASSUME pc'[p] \in {"apply", "commit"}, todo'[p] = Units(rec'[p])
          PROVE  ProgressOf(rec[p], todo[p])'
      <4> DEFINE s == rec'[p]
      <4>1. /\ \A i : <<"file", i>> \in todo'[p] <=> i \in Items(s) \ Creates(s)
            /\ \A c : <<"entry", c>> \in todo'[p] <=> c \in Relocates(s)
            /\ \A c : <<"version", c>> \in todo'[p] <=> c \in s.cards
        BY <3>5, UnitFacts
      <4> QED BY <4>1 DEF ProgressOf, Items, Creates, Relocates
    <3>6. ASSUME pc'[p] \in {"apply", "commit"} PROVE ProgressOf(rec[p], todo[p])'
      <4>1. CASE pc[p] \in {"apply", "commit"} /\ rec'[p] = rec[p] /\ todo'[p] = todo[p]
        BY <3>4, <4>1
      <4>2. CASE todo'[p] = Units(rec'[p]) BY <3>5, <3>6, <4>2
      <4>3. CASE writeOperation(p)
        BY <4>2, <4>3 DEF writeOperation, TypeInv, TypeOK, LocalType
      <4>4. CASE Replay(p)
        <5>1. PICK r \in queue[p] : /\ rec' = [rec EXCEPT ![p] = r]
                                    /\ todo' = [todo EXCEPT ![p] = Units(r)]
          BY <4>4 DEF Replay
        <5> QED BY <4>2, <5>1 DEF TypeInv, TypeOK, LocalType
      <4>5. CASE commitPhase(p)
        BY <4>1, <4>5 DEF commitPhase
      <4>6. ASSUME NEW v, Leave(p, v) PROVE FALSE
        BY <3>6, <4>6 DEF Leave, TypeInv, TypeOK, LocalType
      <4>7. ~(ReadDone(p) \/ Interrupt(p) \/ RefusePending(p) \/ RefuseStale(p) \/ RefuseReplay(p)
              \/ RecoveryDone(p))
        BY <4>6 DEF ReadDone, Interrupt, RefusePending, RefuseStale, RefuseReplay, RecoveryDone
      <4>8. ~(commitRename(p) \/ operationRecords(p))
        BY <3>6, <4>6 DEF commitRename, operationRecords, Goto, TypeInv, TypeOK, LocalType
      <4>9. ~(\/ acquire(p) \/ pendingContext(p) \/ Stage(p) \/ (\E d \in Card : ReadCard(p, d))
              \/ (\E j \in Jobs : Begin(p, j)))
        BY <3>6 DEF acquire, pendingContext, Stage, ReadCard, Begin, Goto, TypeInv, TypeOK, LocalType
      <4>10. ~ApplyAny(p)
        BY <2>6 DEF ApplyAny, compareFile, writeFile, applyRename, createDirectory, createSpec, applyVersion
      <4> QED BY <4>3, <4>4, <4>5, <4>7, <4>8, <4>9, <4>10 DEF Acts, Step, ApplyAny
    <3>7. ASSUME NEW q \in Proc, pc'[q] \in {"apply", "commit"} PROVE ProgressOf(rec[q], todo[q])'
      <4>1. CASE q # p BY <3>4, <3>7, <4>1, Others
      <4>2. CASE q = p BY <3>6, <3>7, <4>2
      <4> QED BY <4>1, <4>2
    <3>8. PendInv' BY <3>3 DEF PendInv
    <3>9. DoneInv' BY <3>7 DEF DoneInv, Progress, ProgressOf
    <3> QED BY <3>8, <3>9
  <2> QED BY <2>5, <2>6
<1> QED BY <1>2, <1>3

\* Who commits holds journal.lock.
JlockInv == \A p \in Proc : jlock = p <=> pc[p] = "commit"

LEMMA JlockStep ==
  ASSUME TypeInv, JlockInv, NEW p \in Proc, Acts(p)
  PROVE  JlockInv'
<1>0. None \notin Proc BY NoRecord
<1>1. \A q \in Proc \ {p} : pc'[q] = pc[q] BY Others
<1>2. CASE commitPhase(p)
  <2>1. jlock = None /\ jlock' = p /\ pc'[p] = "commit"
    BY <1>2 DEF commitPhase, Goto, TypeInv, TypeOK, LocalType
  <2> QED BY <1>0, <1>1, <2>1 DEF JlockInv
<1>3. CASE pc'[p] # "commit" /\ jlock' = IF jlock = p THEN None ELSE jlock
  BY <1>0, <1>1, <1>3 DEF JlockInv
<1>4. ASSUME NEW v, Leave(p, v) PROVE pc'[p] = "idle"
  BY <1>4 DEF Leave, TypeInv, TypeOK, LocalType
<1>5. CASE commitRename(p)
  <2>1. jlock = p /\ jlock' = None BY <1>5 DEF commitRename, JlockInv
  <2>2. pc'[p] # "commit" BY <1>4, <1>5 DEF commitRename, Goto, TypeInv, TypeOK, LocalType
  <2> QED BY <1>3, <2>1, <2>2
<1>6. CASE Interrupt(p)
  BY <1>3, <1>4, <1>6 DEF Interrupt
<1>7. CASE pc[p] # "commit" /\ pc'[p] # "commit" /\ jlock' = jlock
  BY <1>3, <1>7 DEF JlockInv
<1>8. CASE RefusePending(p) \/ ReadDone(p) \/ RefuseStale(p) \/ RefuseReplay(p) \/ RecoveryDone(p)
  BY <1>4, <1>7, <1>8 DEF RefusePending, ReadDone, RefuseStale, RefuseReplay, RecoveryDone
<1>9. CASE \/ (\E j \in Jobs : Begin(p, j)) \/ acquire(p) \/ pendingContext(p)
           \/ (\E c \in Card : ReadCard(p, c)) \/ Stage(p) \/ writeOperation(p)
           \/ operationRecords(p) \/ Replay(p)
  BY <1>7, <1>9 DEF Begin, acquire, pendingContext, ReadCard, Stage, writeOperation,
       operationRecords, Replay, Goto, TypeInv, TypeOK, LocalType
<1>10. CASE ApplyAny(p)
  BY <1>7, <1>10 DEF ApplyAny, compareFile, writeFile, applyRename, createDirectory, createSpec, applyVersion, local
<1> QED BY <1>2, <1>5, <1>6, <1>8, <1>9, <1>10 DEF Acts, Step, ApplyAny

LEMMA JInit == Init => JInv /\ JlockInv
<1> SUFFICES ASSUME Init PROVE JInv /\ JlockInv OBVIOUS
<1>1. JournalInv BY InitJournalInv
<1>2. HoldInv /\ KindInv /\ RecInv /\ TodoInv /\ StageInv /\ DoneInv
  BY DEF Init, HoldInv, KindInv, RecInv, TodoInv, StageInv, DoneInv, Past, Writes
<1>3. IdInv /\ PendInv BY DEF Init, IdInv, PendInv, Prepared, Writes
<1>4. \A c \in Card : text[c] = {} BY DEF Init, Item
<1>5. AskInv
  BY <1>4 DEF Init, AskInv, Prepared, Writes, NoView
<1>6. JlockInv BY NoRecord DEF Init, JlockInv
<1> QED BY <1>1, <1>2, <1>3, <1>5, <1>6 DEF JInv, AInv, BInv

LEMMA JNext == JInv /\ JlockInv /\ [Next]_vars => JInv' /\ JlockInv'
<1> SUFFICES ASSUME JInv, JlockInv, [Next]_vars PROVE JInv' /\ JlockInv' OBVIOUS
<1>1. JournalInv' BY StepJournalInv DEF JInv
<1>2. ASSUME NEW p \in Proc, Acts(p) PROVE AInv' /\ BInv' /\ JlockInv'
  <2>1. HoldInv' /\ KindInv' /\ RecInv' /\ IdInv' /\ TodoInv'
    BY <1>2, HoldStep, KindStep, RecStep, IdStep, TodoStep DEF JInv, JournalInv, AInv
  <2>2. AskInv' BY <1>2, AskStep DEF JInv, JournalInv, AInv
  <2>3. BInv' BY <1>2, StageStep, PendStep DEF BInv
  <2>4. JlockInv' BY <1>2, JlockStep DEF JInv, JournalInv
  <2> QED BY <2>1, <2>2, <2>3, <2>4 DEF AInv
<1>3. ASSUME NEW c \in Card, ExternalEdit(c) PROVE AInv' /\ BInv' /\ JlockInv'
  <2>1. UNCHANGED <<loc, ver, pend, committed, jlock, pc, job, held, rec, queue, todo, acc, view>>
    BY <1>3 DEF ExternalEdit, local
  <2>2. HoldInv' /\ KindInv' /\ TodoInv' /\ JlockInv'
    BY <2>1 DEF JInv, AInv, HoldInv, KindInv, TodoInv, JlockInv, Past, Writes, Mine, Units, Items,
                Creates, Relocates
  <2>3. RecInv' /\ IdInv'
    BY <2>1 DEF JInv, AInv, RecInv, IdInv, Writes, Prepared, Finished
  <2>4. \A d \in Card : loc[d] = Absent => text'[d] = text[d]
    BY <1>3 DEF ExternalEdit, JInv, JournalInv, TypeInv, TypeOK, DiskType, Item
  <2>5. AskInv'
    BY <2>1, <2>4 DEF JInv, AInv, AskInv, Asks, Here, Prepared, Writes, Creates
  <2>6. edits' # 0
    BY <1>3 DEF ExternalEdit, JInv, JournalInv, TypeInv, TypeOK
  <2>7. StageInv'
    BY <2>1, <2>6 DEF JInv, BInv, StageInv
  <2>8. PendInv' /\ DoneInv' BY <2>6 DEF PendInv, DoneInv
  <2> QED BY <2>2, <2>3, <2>5, <2>7, <2>8 DEF AInv, BInv
<1>4. CASE UNCHANGED vars
  <2>1. UNCHANGED <<loc, text, ver, pend, committed, jlock, pc, job, held, rec, queue, todo, acc, view,
                    faults, edits>>
    BY <1>4 DEF vars, disk, local, bounds
  <2>2. HoldInv' /\ KindInv' /\ TodoInv' /\ JlockInv'
    BY <2>1 DEF JInv, AInv, HoldInv, KindInv, TodoInv, JlockInv, Past, Writes, Mine, Units, Items,
                Creates, Relocates
  <2>3. RecInv' /\ IdInv'
    BY <2>1 DEF JInv, AInv, RecInv, IdInv, Writes, Prepared, Finished
  <2>4. AskInv'
    BY <2>1 DEF JInv, AInv, AskInv, Asks, Here, Prepared, Writes, Creates
  <2>5. StageInv' /\ PendInv' /\ DoneInv'
    BY <2>1 DEF JInv, BInv, StageInv, PendInv, DoneInv, Started, Progress, VersionDone, Prepared,
                Items, Creates, Relocates, Freezes
  <2> QED BY <1>1, <2>2, <2>3, <2>4, <2>5 DEF AInv, BInv, JInv
<1> QED BY <1>1, <1>2, <1>3, <1>4 DEF Next, Acts, JInv

\* PendInv says more than Replayable.
LEMMA StartedIsReplayable == JInv /\ edits = 0 => Replayable
<1> SUFFICES ASSUME JInv, edits = 0 PROVE Replayable OBVIOUS
<1>1. \A r \in Prepared : Started(r) BY DEF JInv, BInv, PendInv
<1> QED BY <1>1 DEF Replayable, Started, VersionDone

\* No command is refused half way: nothing on disk contradicts its record.
NeverRefused ==
  /\ \A p \in Proc : pc[p] = "apply" => ~Conflicts(p)
  /\ \A p \in Proc : pc[p] = "publish" => validateRecord(rec[p])
  /\ \A r \in Prepared : validateRecord(r)

LEMMA JNeverRefused == JInv /\ edits = 0 => NeverRefused
<1> SUFFICES ASSUME JInv, edits = 0 PROVE NeverRefused OBVIOUS
<1> USE DEF JInv, JournalInv, AInv, BInv
<1>1. \A r \in Prepared : Started(r) BY DEF PendInv
<1>2. ASSUME NEW r \in Prepared PROVE validateRecord(r)
  BY <1>1, <1>2 DEF validateRecord, Started, VersionDone
<1>3. ASSUME NEW p \in Proc, pc[p] = "publish" PROVE validateRecord(rec[p])
  BY <1>3 DEF StageInv, validateRecord
<1>4. ASSUME NEW p \in Proc, pc[p] = "apply", Conflicts(p) PROVE FALSE
  <2>0. rec[p] \in Record BY <1>4 DEF TypeInv, PcInv
  <2> PICK r \in Record : r = rec[p] BY <2>0
  <2>1. r \in Prepared /\ Started(r) /\ Asks(r)
    BY <1>1, <1>4 DEF RecInv, Prepared, Writes, AskInv
  <2>2. todo[p] \subseteq Tasks(r) BY <1>4 DEF TodoInv
  <2>3. ASSUME NEW i \in Items(r), Ready(p, <<"file", i>>), ~Replayed(r, i), ~Writable(r, i)
        PROVE  FALSE
    <3>1. i \in Items(r) \ Creates(r) BY <2>2, <2>3, UnitFacts DEF Ready
    <3>2. text[i] = r.before[i] /\ i \in Card /\ loc[i] # r.from[i]
      BY <2>1, <2>3 DEF Replayed, Writable, Started
    <3>3. i \in r.cards BY <2>3, <3>2, CardTransactionsAssumption DEF Items, Record
    <3>4. r.from[i] # Absent BY <3>1, <3>3 DEF Creates
    <3> QED BY <2>1, <2>3, <3>1, <3>2, <3>3, <3>4 DEF Started, Replayed
  <2>4. ASSUME NEW c \in r.cards, Ready(p, <<"entry", c>>), loc[c] = r.to[c], ~Replayed(r, c),
               ~(c \in Creates(r) /\ text[c] = {})
        PROVE  FALSE
    <3>1. c \in Relocates(r) /\ c \in Items(r) BY <2>2, <2>4, UnitFacts DEF Ready, Items
    <3>2. CASE c \in Creates(r)
      BY <2>1, <2>4, <3>1, <3>2 DEF Started, Replayed, Creates, Asks
    <3>3. CASE c \notin Creates(r)
      BY <2>1, <2>4, <3>1, <3>3 DEF Started, Replayed, Creates, Relocates
    <3> QED BY <3>2, <3>3
  <2> QED BY <1>4, <2>3, <2>4 DEF Conflicts
<1> QED BY <1>2, <1>3, <1>4 DEF NeverRefused

\* As long as nobody edits the board from outside, whatever is left under
\* operations/pending is an interrupted run of itself (applyRecord): each document
\* before or after, no rename before the files, no version before the rename.
THEOREM RecordsReplayable == Spec => [](edits = 0 => Replayable)
<1>1. JInv /\ JlockInv => (edits = 0 => Replayable) BY StartedIsReplayable
<1> QED BY <1>1, JInit, JNext, PTL DEF Spec

\* Then neither the writer nor any later recovery ever meets bytes or a revision it
\* must refuse: the conflicts of applyRecord and validateRecord only speak of edits.
THEOREM ReplayNeverRefused == Spec => [](edits = 0 => NeverRefused)
<1>1. JInv /\ JlockInv => (edits = 0 => NeverRefused) BY JNeverRefused
<1> QED BY <1>1, JInit, JNext, PTL DEF Spec

-----------------------------------------------------------------------------
(* Finite sets of numbers have a greatest member.  Induction over Nat, without *)
(* an operator parameter: a nonempty set of numbers has a least member.    *)

Less == OpToRel(<, Nat)
LEMMA Least ==
  ASSUME NEW T \in SUBSET Nat, T # {}
  PROVE  \E n \in T : \A m \in T : n <= m
<1>1. IsWellFoundedOn(Less, Nat) BY NatLessThanWellFounded DEF Less
<1>2. \E x \in T : \A y \in T : ~(<<y, x>> \in Less) BY <1>1, WFMin
<1>3. \A x, y \in Nat : <<y, x>> \in Less <=> y < x BY DEF Less, OpToRel
<1>4. PICK x \in T : \A y \in T : ~(<<y, x>> \in Less) BY <1>2
<1>5. \A y \in T : ~(y < x) BY <1>3, <1>4
<1>6. \A y \in T : x <= y BY <1>5
<1> QED BY <1>6
LEMMA HasMax ==
  ASSUME NEW S, IsFiniteSet(S), S # {}, NEW f \in [S -> Nat]
  PROVE  \E x \in S : \A y \in S : f[y] <= f[x]
<1> DEFINE Bad(X) == X # {} /\ ~ \E x \in X : \A y \in X : f[y] <= f[x]
           T == {n \in Nat : \E X \in SUBSET S : Bad(X) /\ Cardinality(X) = n}
<1> SUFFICES ASSUME Bad(S) PROVE FALSE OBVIOUS
<1>1. Cardinality(S) \in T BY FS_CardinalityType
<1>2. PICK n \in T : \A m \in T : n <= m
  <2> HIDE DEF T
  <2>1. T \in SUBSET Nat BY DEF T
  <2> QED BY <1>1, <2>1, Least
<1>3. PICK X \in SUBSET S : Bad(X) /\ Cardinality(X) = n OBVIOUS
<1>4. IsFiniteSet(X) BY FS_Subset
<1>5. PICK a \in X : TRUE BY <1>3
<1> DEFINE Y == X \ {a}
<1>6. IsFiniteSet(Y) /\ Cardinality(Y) = n - 1 /\ n \in Nat /\ Cardinality(Y) \in Nat
  BY <1>3, <1>4, FS_RemoveElement, FS_CardinalityType
<1>7. ~Bad(Y)
  <2>0. Cardinality(Y) < n BY <1>6
  <2>1. Cardinality(Y) \notin T
    <3> HIDE DEF T, Y
    <3> QED BY <1>2, <1>6, <2>0
  <2> QED BY <1>6, <2>1
<1>8. Y # {} BY <1>3
<1>9. PICK b \in Y : \A y \in Y : f[y] <= f[b] BY <1>7, <1>8
<1>10. f[a] \in Nat /\ f[b] \in Nat /\ \A y \in X : f[y] \in Nat OBVIOUS
<1>11. \E x \in X : \A y \in X : f[y] <= f[x]
  <2>1. CASE f[a] <= f[b] BY <1>9, <2>1
  <2>2. CASE f[b] <= f[a]
    <3>1. \A y \in X : f[y] <= f[a] BY <1>9, <1>10, <2>2
    <3> QED BY <3>1
  <2> QED BY <1>10, <2>1, <2>2
<1> QED BY <1>3, <1>11

-----------------------------------------------------------------------------
(* Edits from outside, and the order of the locks.                         *)

\* An edit meets a record.
LEMMA EditStays ==
  ASSUME JInv, [Next]_vars, NEW r \in Prepared, NEW i \in Items(r), Standing(r, i)
  PROVE  Standing(r, i)'
<1> DEFINE W(q) == <<"write", i>> \notin todo'[q]
           G == Foreign \in text'[i] /\ \A q \in Proc : W(q)
<1> SUFFICES G BY DEF Standing
<1> USE DEF JInv, JournalInv, AInv
<1>0. /\ r \in Record /\ i \in Item
      /\ Foreign \in text[i] /\ Foreign \notin r.before[i]
      /\ \A q \in Proc : <<"write", i>> \notin todo[q]
  BY DEF Standing, Prepared, TypeInv, TypeOK, DiskType, Items, Record, Item
<1>1. CASE text' = text /\ todo' = todo BY <1>0, <1>1
<1>2. ASSUME NEW c \in Card, ExternalEdit(c) PROVE G
  BY <1>0, <1>2 DEF ExternalEdit, TypeInv, TypeOK, DiskType, local
<1>3. ASSUME NEW p \in Proc, pc[p] = "apply", i \in Items(rec[p]) PROVE rec[p] = r
  <2>1. rec[p] \in Prepared BY <1>3 DEF RecInv, Prepared, Writes
  <2> QED BY <1>3, <2>1 DEF PendingDisjoint
<1>4. ASSUME NEW p \in Proc, NEW k \in Item, compareFile(p, k) \/ writeFile(p, k) PROVE G
  <2>1. pc[p] = "apply" /\ k \in Items(rec[p])
    BY <1>4, UnitFacts DEF compareFile, writeFile, Ready, TodoInv
  <2>2. \A q \in Proc \ {p} : todo'[q] = todo[q]
    BY <1>4 DEF compareFile, writeFile, Done, TypeInv, TypeOK, LocalType
  <2>3. CASE writeFile(p, k)
    <3>1. k # i BY <1>0, <2>3 DEF writeFile
    <3>2. text'[i] = text[i] BY <1>0, <2>3, <3>1 DEF writeFile, TypeInv, TypeOK, DiskType
    <3>3. todo'[p] \subseteq todo[p] BY <2>3 DEF writeFile, TypeInv, TypeOK, LocalType
    <3> QED BY <1>0, <2>2, <3>2, <3>3
  <2>4. CASE compareFile(p, k)
    <3>1. text' = text BY <2>4 DEF compareFile, disk
    <3>2. k = i => ~Writable(rec[p], i) BY <1>0, <1>3, <2>1 DEF Writable
    <3>3. \/ todo'[p] \subseteq todo[p]
          \/ k # i /\ todo'[p] = todo[p] \cup {<<"write", k>>}
      BY <2>4, <3>2 DEF compareFile, Done, TypeInv, TypeOK, LocalType
    <3> QED BY <1>0, <2>2, <3>1, <3>3
  <2> QED BY <1>4, <2>3, <2>4
<1>5. ASSUME NEW p \in Proc, NEW c \in Card, createSpec(p, c) PROVE G
  <2>1. Foreign \in text'[i] BY <1>0, <1>5 DEF createSpec, TypeInv, TypeOK, DiskType
  <2>2. \A q \in Proc : todo'[q] \subseteq todo[q]
    BY <1>5 DEF createSpec, Done, TypeInv, TypeOK, LocalType
  <2> QED BY <1>0, <2>1, <2>2
<1>6. ASSUME NEW p \in Proc, Acts(p),
             ~\E k \in Item : compareFile(p, k) \/ writeFile(p, k)
      PROVE \A q \in Proc : W(q)
  <2>0. SUFFICES W(p)
    <3>1. \A q \in Proc \ {p} : todo'[q] = todo[q] BY <1>6, Others
    <3> QED BY <1>0, <3>1
  <2>2. ASSUME NEW s, todo'[p] = Units(s) PROVE W(p) BY <2>2, UnitFacts
  <2>3. ASSUME NEW v, Leave(p, v) PROVE W(p)
    BY <2>3 DEF Leave, TypeInv, TypeOK, LocalType
  <2>4. CASE todo'[p] \subseteq todo[p] BY <1>0, <2>4
  <2>5. CASE writeOperation(p) BY <2>2, <2>5 DEF writeOperation, TypeInv, TypeOK, LocalType
  <2>6. CASE Replay(p) BY <2>2, <2>6 DEF Replay, TypeInv, TypeOK, LocalType
  <2>7. CASE pendingContext(p)
    <3>1. CASE todo' = [todo EXCEPT ![p] = {<<"read", c>> : c \in Scope(p)}]
      BY <3>1 DEF TypeInv, TypeOK, LocalType
    <3>2. CASE todo' = todo BY <2>4, <3>2
    <3> QED BY <2>7, <3>1, <3>2 DEF pendingContext
  <2>8. CASE \/ Interrupt(p) \/ RefusePending(p) \/ ReadDone(p) \/ RefuseStale(p)
             \/ RefuseReplay(p) \/ RecoveryDone(p)
    <3> HIDE DEF W
    <3>1. \E v : Leave(p, v)
      BY <2>8 DEF Interrupt, RefusePending, ReadDone, RefuseStale, RefuseReplay, RecoveryDone
    <3> QED BY <2>3, <3>1
  <2>9. CASE commitRename(p)
    <3>1. todo' = todo \/ \E v : Leave(p, v) BY <2>9 DEF commitRename
    <3>2. todo' = todo => W(p) BY <2>4
    <3> HIDE DEF W
    <3> QED BY <2>3, <3>1, <3>2
  <2>10. CASE \E c \in Card : \/ ReadCard(p, c) \/ applyRename(p, c) \/ createDirectory(p, c)
                              \/ createSpec(p, c) \/ applyVersion(p, c)
    <3>1. todo' = todo \/ \E u : todo' = [todo EXCEPT ![p] = @ \ {u}]
      BY <2>10 DEF ReadCard, applyRename, createDirectory, createSpec, applyVersion, Done, local
    <3>2. todo'[p] \subseteq todo[p] BY <3>1 DEF TypeInv, TypeOK, LocalType
    <3> QED BY <2>4, <3>2
  <2>11. CASE \/ acquire(p) \/ Stage(p) \/ commitPhase(p) \/ operationRecords(p)
              \/ \E j \in Jobs : Begin(p, j)
    BY <2>4, <2>11 DEF acquire, Stage, commitPhase, operationRecords, Begin
  <2>12. W(p)
    BY <1>6, <2>5, <2>6, <2>7, <2>8, <2>9, <2>10, <2>11 DEF Acts, Step
  <2> QED BY <2>12
<1>7. ASSUME NEW p \in Proc, Acts(p) PROVE G
  <2>1. \/ text' = text \/ (\E k \in Item : compareFile(p, k) \/ writeFile(p, k))
        \/ \E c \in Card : createSpec(p, c)
    BY <1>7 DEF Acts, Step, Interrupt, Begin, acquire, RefusePending, pendingContext,
       ReadCard, ReadDone, RefuseStale, Stage, writeOperation, RefuseReplay, commitPhase,
       commitRename, operationRecords, Replay, RecoveryDone, applyRename,
       createDirectory, applyVersion, disk
  <2>2. CASE \E k \in Item : compareFile(p, k) \/ writeFile(p, k) BY <1>4, <2>2
  <2>3. CASE ~\E k \in Item : compareFile(p, k) \/ writeFile(p, k)
    <3>1. \A q \in Proc : W(q) BY <1>6, <1>7, <2>3
    <3>2. text' = text => G BY <1>0, <3>1
    <3> HIDE DEF G
    <3> QED BY <1>5, <2>1, <2>3, <3>2
  <2> QED BY <2>2, <2>3
<1>8. UNCHANGED vars => G BY <1>1 DEF vars, disk, local
<1> HIDE DEF G
<1> QED BY <1>2, <1>7, <1>8 DEF Next, Acts

\* As long as a record is prepared, every edit from outside that it was not
\* staged on and that no replay had already looked past when it was saved stays
\* on disk, and no command begins to rename over it (the Before check of
\* applyRecord).  What this leaves out is the edit saved between the check and
\* the rename that follows it.
THEOREM ReplayKeepsEdits == Spec => EditsSurviveReplay
<1> DEFINE A == \A r \in Prepared : \A i \in Items(r) :
                  Standing(r, i) /\ r \in pend' => Standing(r, i)'
<1>1. JInv /\ JlockInv /\ [Next]_vars => A BY EditStays
<1> HIDE DEF A
<1>2. Spec => [][A]_vars BY <1>1, JInit, JNext, PTL DEF Spec
<1> QED BY <1>2 DEF EditsSurviveReplay, A

-----------------------------------------------------------------------------
\* Only who holds the board for itself moves cards.
RelocInv == \A p \in Proc : Writes(p) /\ Relocates(rec[p]) # {} => ExclusiveBoard(job[p])

\* Locks are taken upwards.
OrderInv == \A p \in Proc : pc[p] = "lock" =>
              \A l \in held[p], m \in Need(p) \ held[p] : Rank[l] < Rank[m]

LEMMA RelocStep ==
  ASSUME TypeInv, KindInv, RecInv, RelocInv, NEW p \in Proc, Acts(p)
  PROVE  RelocInv'
<1>1. \A q \in Proc \ {p} : UNCHANGED <<pc[q], rec[q], job[q]>> BY Others
<1>2. ASSUME NEW q \in Proc, Writes(q)', Relocates(rec'[q]) # {} PROVE ExclusiveBoard(job'[q])
  <2>1. CASE Writes(q) /\ rec'[q] = rec[q] /\ job'[q] = job[q] BY <1>2, <2>1 DEF RelocInv
  <2>2. CASE q # p BY <1>1, <1>2, <2>1, <2>2 DEF Writes
  <2>3. CASE q = p /\ Stage(p)
    <3>1. PICK id \in Unused : rec'[p] = NewRecord(p, id)
      BY <2>3 DEF Stage, TypeInv, TypeOK, LocalType
    <3>2. job' = job /\ job[p].cards \subseteq Card
      BY <2>3 DEF Stage, TypeInv, PcInv, Job
    <3> QED BY <1>2, <2>3, <3>1, <3>2 DEF NewRecord, Relocates
  <2>4. CASE q = p /\ Replay(p)
    BY <2>4 DEF Replay, KindInv, ExclusiveBoard
  <2>5. CASE q = p /\ Writes(p) /\ rec'[p] = rec[p]
    <3>1. pc'[p] # "idle" /\ pc[p] # "idle" BY <1>2, <2>5 DEF Writes
    <3>2. job'[p] = job[p]
      BY <3>1 DEF TypeInv, TypeOK, LocalType, Acts, Step, Interrupt, Begin, acquire, RefusePending,
         pendingContext, ReadCard, ReadDone, RefuseStale, Stage, writeOperation, RefuseReplay,
         compareFile, writeFile, applyRename, createDirectory, createSpec, applyVersion, commitPhase,
         commitRename, operationRecords, Replay, RecoveryDone, Leave, Goto, local
    <3> QED BY <2>1, <2>5, <3>2
  <2> QED BY <1>2, <2>2, <2>3, <2>4, <2>5, RecFrom
<1> QED BY <1>2 DEF RelocInv, ExclusiveBoard, Relocates

LEMMA LocMoves ==
  ASSUME TypeInv, TodoInv, NEW p \in Proc, Acts(p), loc' # loc
  PROVE  pc[p] = "apply" /\ Relocates(rec[p]) # {}
<1>1. \E c \in Card : applyRename(p, c) \/ createDirectory(p, c)
  BY DEF Acts, Step, Interrupt, Begin, acquire, RefusePending,
         pendingContext, ReadCard, ReadDone, RefuseStale, Stage, writeOperation, RefuseReplay,
         compareFile, writeFile, createSpec, applyVersion, commitPhase, commitRename, operationRecords, Replay,
         RecoveryDone, disk
<1>2. PICK c \in Card : pc[p] = "apply" /\ Ready(p, <<"entry", c>>)
  BY <1>1 DEF applyRename, createDirectory
<1> QED BY <1>2, UnitFacts DEF Ready, TodoInv

LEMMA OrderStep ==
  ASSUME TypeInv, LockInv, HoldInv, TodoInv, RelocInv, OrderInv, NEW p \in Proc, Acts(p)
  PROVE  OrderInv'
<1>1. \A q \in Proc \ {p} : UNCHANGED <<pc[q], held[q], job[q]>> BY Others
<1>2. \A q \in Proc : held[q] \subseteq Lock BY DEF TypeInv, TypeOK, LocalType
<1>3. \A q \in Proc : pc[q] # "idle" => Need(q) \subseteq Lock
  BY DEF Need, Scope, TypeInv, PcInv, Job, Lock, Item
<1>4. \A l \in Lock : Rank[l] \in Nat BY CardTransactionsAssumption
<1>5. ASSUME NEW q \in Proc, q # p, pc'[q] = "lock", NEW l \in held'[q], NEW m \in Need(q)' \ held'[q]
      PROVE  Rank[l] < Rank[m]
  <2>1. pc[q] = "lock" /\ held'[q] = held[q] /\ job'[q] = job[q] BY <1>1, <1>5
  <2>2. CASE loc' = loc
    <3>1. Need(q)' = Need(q) BY <2>1, <2>2 DEF Need, Scope
    <3> QED BY <1>5, <2>1, <3>1 DEF OrderInv
  <2>3. CASE loc' # loc
    <3>1. pc[p] = "apply" /\ ExclusiveBoard(job[p])
      BY <2>3, LocMoves DEF RelocInv, Writes
    <3>2. BoardLock \in held[p] /\ TakesExclusive(job[p], BoardLock)
      BY <3>1 DEF HoldInv, Past, TakesExclusive
    <3>3. BoardLock \notin held[q] BY <1>5, <3>2 DEF LockInv
    <3>4. Rank[l] < Rank[BoardLock] BY <1>5, <2>1, <3>3 DEF OrderInv, Need
    <3>5. l \in Item BY <1>2, <1>5, <2>1, <3>3 DEF Lock
    <3>6. Rank[BoardLock] < Rank[l] /\ Rank[l] \in Nat /\ Rank[BoardLock] \in Nat
      BY <3>5, CardTransactionsAssumption DEF Lock
    <3> QED BY <3>4, <3>6
  <2> QED BY <2>2, <2>3
<1>6. ASSUME pc'[p] = "lock", NEW l \in held'[p], NEW m \in Need(p)' \ held'[p]
      PROVE  Rank[l] < Rank[m]
  <2>1. CASE acquire(p)
    <3>1. PICK k \in NextLocks(p) : held' = [held EXCEPT ![p] = @ \cup {k}] BY <2>1 DEF acquire
    <3>2. held'[p] = held[p] \cup {k} /\ UNCHANGED <<loc, job>> /\ pc[p] = "lock"
      BY <2>1, <3>1 DEF acquire, disk, TypeInv, TypeOK, LocalType
    <3>3. Need(p)' = Need(p) BY <3>2 DEF Need, Scope
    <3>4. m \in Need(p) \ held[p] /\ m # k BY <1>6, <3>2, <3>3
    <3>5. k \in Need(p) \ held[p] /\ Rank[k] <= Rank[m] BY <3>4 DEF NextLocks
    <3>6. k \in Lock /\ m \in Lock /\ Rank[k] # Rank[m]
      BY <1>3, <3>2, <3>4, <3>5, CardTransactionsAssumption
    <3>7. Rank[k] < Rank[m] BY <1>4, <3>5, <3>6
    <3>8. CASE l \in held[p] BY <3>2, <3>4, <3>8 DEF OrderInv
    <3> QED BY <1>6, <3>2, <3>7, <3>8
  <2>2. CASE \E j \in Jobs : Begin(p, j)
    BY <1>6, <2>2 DEF Begin, TypeInv, PcInv
  <2>3. acquire(p) \/ \E j \in Jobs : Begin(p, j)
    BY <1>6 DEF TypeInv, TypeOK, LocalType, Acts, Step, Interrupt, RefusePending,
         pendingContext, ReadCard, ReadDone, RefuseStale, Stage, writeOperation, RefuseReplay,
         compareFile, writeFile, applyRename, createDirectory, createSpec, applyVersion, commitPhase,
         commitRename, operationRecords, Replay, RecoveryDone, Leave, Goto, local
  <2> QED BY <2>1, <2>2, <2>3
<1>7. ASSUME NEW q \in Proc, pc'[q] = "lock", NEW l \in held'[q], NEW m \in Need(q)' \ held'[q]
      PROVE  Rank[l] < Rank[m]
  <2>1. CASE q # p BY <1>5, <1>7, <2>1
  <2>2. CASE q = p
    <3>1. Need(q)' = Need(p)' BY <2>2 DEF Need, Scope
    <3> QED BY <1>6, <1>7, <2>2, <3>1
  <2> QED BY <2>1, <2>2
<1> QED BY <1>7 DEF OrderInv

OInv == RelocInv /\ OrderInv

LEMMA OInit == Init => OInv
BY DEF Init, OInv, RelocInv, OrderInv, Writes

LEMMA ONext == JInv /\ OInv /\ [Next]_vars => OInv'
<1> SUFFICES ASSUME JInv, OInv, [Next]_vars PROVE OInv' OBVIOUS
<1>1. ASSUME NEW p \in Proc, Acts(p) PROVE OInv'
  BY <1>1, RelocStep, OrderStep DEF JInv, JournalInv, AInv, OInv
<1>2. CASE UNCHANGED <<loc, pc, job, held, rec>>
  BY <1>2 DEF OInv, RelocInv, OrderInv, Writes, Need, Scope, Relocates
<1>3. \A c \in Card : ExternalEdit(c) => UNCHANGED <<loc, pc, job, held, rec>>
  BY DEF ExternalEdit, local
<1>4. UNCHANGED vars => UNCHANGED <<loc, pc, job, held, rec>>
  BY DEF vars, disk, local
<1> QED BY <1>1, <1>2, <1>3, <1>4 DEF Next, Acts

\* Who holds journal.lock waits for nobody, so all wait for board locks, and the one that waits
\* for the highest has nobody to wait for.
LEMMA OrderNoCycle ==
  ASSUME JInv, JlockInv, OInv
  PROVE  NoLockCycle
<1> SUFFICES ASSUME NEW S \in SUBSET Proc, S # {}, \A p \in S : \E q \in S \ {p} : WaitsFor(p, q)
             PROVE  FALSE
  BY DEF NoLockCycle
<1>1. ASSUME NEW p \in S PROVE pc[p] = "lock" /\ \E q \in S : \E l \in NextLocks(p) : l \in held[q]
  <2>1. PICK q \in S \ {p} : WaitsFor(p, q) OBVIOUS
  <2>2. jlock # q
    <3> SUFFICES ASSUME jlock = q PROVE FALSE OBVIOUS
    <3>1. pc[q] = "commit" BY DEF JlockInv
    <3>2. PICK s \in S \ {q} : WaitsFor(q, s) OBVIOUS
    <3>3. jlock = s BY <3>1, <3>2 DEF WaitsFor
    <3> QED BY <3>3
  <2> QED BY <2>1, <2>2 DEF WaitsFor
<1>2. ASSUME NEW p \in S, NEW l \in NextLocks(p), NEW m \in NextLocks(p)
      PROVE  Rank[l] = Rank[m] /\ Rank[l] \in Nat
  <2>1. Need(p) \subseteq Lock
    BY <1>1 DEF Need, Scope, TypeInv, PcInv, Job, Lock, Item, JInv, JournalInv
  <2>2. l \in Lock /\ m \in Lock /\ Rank[l] <= Rank[m] /\ Rank[m] <= Rank[l]
    BY <2>1 DEF NextLocks
  <2> QED BY <2>2, CardTransactionsAssumption
<1> DEFINE f == [p \in S |-> Rank[CHOOSE l \in NextLocks(p) : TRUE]]
<1>3. ASSUME NEW p \in S, NEW l \in NextLocks(p) PROVE f[p] = Rank[l]
  BY <1>2
<1>4. f \in [S -> Nat] BY <1>1, <1>2
<1> HIDE DEF f
<1>5. IsFiniteSet(S) BY CardTransactionsAssumption, FS_Subset
<1>6. PICK p \in S : \A q \in S : f[q] <= f[p] BY <1>4, <1>5, HasMax
<1>7. PICK q \in S : \E l \in NextLocks(p) : l \in held[q] BY <1>1
<1>8. PICK l \in NextLocks(p) : l \in held[q] BY <1>7
<1>9. PICK m \in NextLocks(q) : TRUE BY <1>1
<1>10. Rank[l] < Rank[m]
  BY <1>1, <1>8, <1>9 DEF OInv, OrderInv, NextLocks
<1>11. f[p] = Rank[l] /\ f[q] = Rank[m] /\ Rank[l] \in Nat /\ Rank[m] \in Nat
  BY <1>2, <1>3, <1>8, <1>9
<1> QED BY <1>6, <1>10, <1>11

\* board.lock, then groups, then tasks, each set sorted (transaction_lock.go), and
\* journal.lock last: no set of commands waits for itself, for any number of them.
THEOREM LocksOrdered == Spec => []NoLockCycle
<1>1. Init => JInv /\ JlockInv /\ OInv BY JInit, OInit
<1>2. JInv /\ JlockInv /\ OInv /\ [Next]_vars => (JInv /\ JlockInv /\ OInv)' BY JNext, ONext
<1>3. JInv /\ JlockInv /\ OInv => NoLockCycle BY OrderNoCycle
<1> QED BY <1>1, <1>2, <1>3, PTL DEF Spec

-----------------------------------------------------------------------------
(* The refinement.  Without edits from outside, every step is an operation or *)
(* a snapshot of the abstract board, or changes nothing of it.             *)

CommitInv == \A p \in Proc : pc[p] = "commit" =>
                 \A r \in Prepared : Items(r) \cap Items(rec[p]) = {}

Seen(c) == IF loc[c] = Absent THEN None ELSE SnapshotOf(c)

\* A reader holds all it reads, so nothing of it is being written.
ReadInv ==
  \A p \in Proc :
    /\ pc[p] \in {"check", "read"} => Need(p) \subseteq held[p]
    /\ pc[p] = "read" =>
         /\ \A r \in Prepared : Items(r) \cap Scope(p) = {}
         /\ \A c \in Scope(p) : <<"read", c>> \in todo[p] \/ acc[p][c] = Seen(c)

\* Documents name only operations of the journal.
Used == committed \cup {r.id : r \in pend}
TextInv ==
  /\ \A i \in Item : text[i] \subseteq Used
  /\ \A r \in Prepared : \A i \in Items(r) : r.after[i] \subseteq Used
  /\ \A p \in Proc : pc[p] = "publish" =>
       \A i \in Items(rec[p]) : rec[p].after[i] = text[i] \cup {rec[p].id}

LEMMA WritesApart ==
  ASSUME JInv, NEW q \in Proc, NEW p \in Proc, q # p, Writes(q), Writes(p)
  PROVE  Items(rec[q]) \cap Items(rec[p]) = {}
<1> USE DEF JInv, JournalInv, AInv
<1>1. Past(p) /\ Past(q) /\ job[q].kind # "scan" /\ job[p].kind # "scan"
  BY DEF Past, Writes, KindInv, ReadOnly
<1>2. job[q].kind # "init" /\ Mine(p) \cap Mine(q) = {}
  BY <1>1, Apart DEF Writes
<1>3. job[p].kind # "init"
  BY <1>1, Apart DEF Writes
<1>4. Items(rec[q]) = Mine(q) /\ Items(rec[p]) = Mine(p)
  BY <1>2, <1>3 DEF KindInv, Writes
<1> QED BY <1>2, <1>4

LEMMA CommitStep ==
  ASSUME JInv, CommitInv, NEW p \in Proc, Acts(p)
  PROVE  CommitInv'
<1> USE DEF JInv, JournalInv, AInv
<1>1. ASSUME NEW q \in Proc, q # p, pc'[q] = "commit", NEW r \in Prepared'
      PROVE  Items(r) \cap Items(rec'[q]) = {}
  <2>1. pc[q] = "commit" /\ rec'[q] = rec[q] BY <1>1, Others
  <2>2. CASE r \in Prepared BY <2>1, <2>2 DEF CommitInv
  <2>3. CASE pc[p] = "publish" /\ r = rec[p]
    BY <1>1, <2>1, <2>3, WritesApart DEF Writes
  <2> QED BY <2>2, <2>3, PreparedFrom
<1>2. ASSUME pc'[p] = "commit", NEW r \in Prepared'
      PROVE  Items(r) \cap Items(rec'[p]) = {}
  <2>1. commitPhase(p)
    <3>1. ASSUME NEW v, Leave(p, v) PROVE FALSE
      BY <1>2, <3>1 DEF Leave, TypeInv, TypeOK, LocalType
    <3>2. ~(ReadDone(p) \/ Interrupt(p) \/ RefusePending(p) \/ RefuseStale(p) \/ RefuseReplay(p)
              \/ RecoveryDone(p))
      BY <3>1 DEF ReadDone, Interrupt, RefusePending, RefuseStale, RefuseReplay, RecoveryDone
    <3>3. ~(commitRename(p) \/ operationRecords(p) \/ Replay(p) \/ writeOperation(p))
      BY <1>2, <3>1 DEF commitRename, operationRecords, Replay, writeOperation, Goto, TypeInv,
                        TypeOK, LocalType
    <3>4. ~(\/ acquire(p) \/ pendingContext(p) \/ Stage(p) \/ (\E d \in Card : ReadCard(p, d))
              \/ (\E j \in Jobs : Begin(p, j)))
      BY <1>2 DEF acquire, pendingContext, Stage, ReadCard, Begin, Goto, TypeInv, TypeOK, LocalType
    <3>5. ~ApplyAny(p)
      BY <1>2 DEF ApplyAny, compareFile, writeFile, applyRename, createDirectory, createSpec, applyVersion, local
    <3> QED BY <3>2, <3>3, <3>4, <3>5 DEF Acts, Step, ApplyAny
  <2>2. pc[p] = "apply" /\ rec'[p] = rec[p] /\ pend' = (pend \ {rec[p]}) \cup {Finished(rec[p])}
    BY <2>1 DEF commitPhase, Finished
  <2>3. Finished(rec[p]).phase = "committed"
    BY <2>2 DEF Finished, TypeInv, PcInv, Record
  <2>4. r \in Prepared /\ r # rec[p] /\ rec[p] \in Prepared
    BY <2>2, <2>3 DEF Prepared, RecInv, Writes
  <2> QED BY <2>2, <2>4 DEF PendingDisjoint
<1> QED
  <2>1. \A q \in Proc : pc'[q] = "commit" => \A r \in Prepared' : Items(r) \cap Items(rec'[q]) = {}
    BY <1>1, <1>2
  <2> QED BY <2>1 DEF CommitInv, Items

LEMMA ScopeKept ==
  ASSUME JInv, OInv, ReadInv, NEW p \in Proc, Acts(p), NEW q \in Proc,
         pc[q] \in {"check", "read"}, job'[q] = job[q]
  PROVE  Scope(q)' = Scope(q) /\ Need(q)' = Need(q)
<1> USE DEF JInv, JournalInv, AInv
<1>1. CASE loc' = loc BY <1>1 DEF Scope, Need
<1>2. CASE loc' # loc
  <2>1. pc[p] = "apply" /\ ExclusiveBoard(job[p])
    BY <1>2, LocMoves DEF OInv, RelocInv, Writes
  <2>2. q # p BY <2>1
  <2>3. BoardLock \in held[q] BY DEF ReadInv, Need
  <2>4. BoardLock \in held[p] /\ TakesExclusive(job[p], BoardLock)
    BY <2>1 DEF HoldInv, Past, TakesExclusive
  <2> QED BY <2>2, <2>3, <2>4 DEF LockInv
<1> QED BY <1>1, <1>2

LEMMA SeenKept ==
  ASSUME JInv, ReadInv, NEW p \in Proc, Acts(p), NEW q \in Proc, pc[q] = "read",
         NEW c \in Scope(q), c \in Card
  PROVE  Seen(c)' = Seen(c)
<1> USE DEF JInv, JournalInv, AInv
<1>1. pc[p] = "apply" => c \notin Items(rec[p])
  BY DEF ReadInv, RecInv, Prepared, Writes
<1>2. c \in Item BY DEF Item
<1>3. rec[p].cards \subseteq Items(rec[p]) BY DEF Items
<1>4. loc'[c] = loc[c] /\ ver'[c] = ver[c] /\ text'[c] = text[c]
  BY <1>1, <1>2, <1>3, OwnItems
<1> QED BY <1>4 DEF Seen, SnapshotOf

ReadOf(p) ==
    /\ pc[p] \in {"check", "read"} => Need(p) \subseteq held[p]
    /\ pc[p] = "read" =>
         /\ \A r \in Prepared : Items(r) \cap Scope(p) = {}
         /\ \A c \in Scope(p) : <<"read", c>> \in todo[p] \/ acc[p][c] = Seen(c)

LEMMA ReadOthers ==
  ASSUME JInv, OInv, ReadInv, NEW p \in Proc, Acts(p), NEW q \in Proc, q # p
  PROVE  ReadOf(q)'
<1> USE DEF JInv, JournalInv, AInv
<1>1. UNCHANGED <<pc[q], job[q], held[q], todo[q], acc[q]>> BY Others
<1>2. CASE pc[q] \notin {"check", "read"} BY <1>1, <1>2 DEF ReadOf
<1>3. CASE pc[q] \in {"check", "read"}
  <2>1. Scope(q)' = Scope(q) /\ Need(q)' = Need(q) BY <1>1, <1>3, ScopeKept
  <2>2. Need(q)' \subseteq held'[q] BY <1>1, <1>3, <2>1 DEF ReadInv
  <2>3. Scope(q) \subseteq Card
    BY <1>3 DEF Scope, TypeInv, PcInv, Job
  <2>4. ASSUME pc[q] = "read", NEW r \in Prepared' PROVE Items(r) \cap Scope(q) = {}
    <3>1. CASE r \in Prepared BY <2>4, <3>1 DEF ReadInv
    <3>2. CASE pc[p] = "publish" /\ r = rec[p]
      <4>1. ~ReadOnly(job[p]) /\ Items(r) = Mine(p) /\ Past(p) /\ job[p].kind # "scan"
        BY <3>2 DEF KindInv, Writes, Past, ReadOnly
      <4>2. Mine(p) \subseteq held[p] BY <4>1 DEF HoldInv
      <4>3. \A c \in Scope(q) : c \in held[q] /\ c # BoardLock
        BY <1>3, <2>3, CardTransactionsAssumption DEF ReadInv, Need, Item
      <4>4. \A c \in Scope(q) : TakesExclusive(job[p], c) BY <4>1, <4>3 DEF TakesExclusive
      <4> QED BY <1>1, <4>1, <4>2, <4>3, <4>4 DEF LockInv
    <3> QED BY <3>1, <3>2, PreparedFrom
  <2>5. ASSUME pc[q] = "read", NEW c \in Scope(q)
        PROVE  <<"read", c>> \in todo'[q] \/ acc'[q][c] = Seen(c)'
    <3>1. Seen(c)' = Seen(c) BY <2>3, <2>5, SeenKept
    <3> QED BY <1>1, <2>5, <3>1 DEF ReadInv
  <2> QED BY <1>1, <2>1, <2>2, <2>4, <2>5 DEF ReadOf
<1> QED BY <1>2, <1>3

LEMMA ReadSelf ==
  ASSUME JInv, OInv, ReadInv, NEW p \in Proc, Acts(p)
  PROVE  ReadOf(p)'
<1> USE DEF JInv, JournalInv, AInv
<1>1. CASE pc'[p] \notin {"check", "read"} BY <1>1 DEF ReadOf
<1>2. CASE acquire(p)
  <2>1. PICK l \in NextLocks(p) : /\ held' = [held EXCEPT ![p] = @ \cup {l}]
                                  /\ Goto(p, IF Need(p) \subseteq held[p] \cup {l} THEN "check" ELSE "lock")
    BY <1>2 DEF acquire
  <2>2. pc'[p] # "read" /\ (pc'[p] = "check" => Need(p) \subseteq held'[p])
    BY <2>1 DEF Goto, TypeInv, TypeOK, LocalType
  <2>3. Need(p)' = Need(p) BY <1>2 DEF acquire, Need, Scope, disk
  <2> QED BY <2>2, <2>3 DEF ReadOf
<1>3. CASE pendingContext(p) /\ pc'[p] = "read"
  <2>1. /\ pc[p] = "check" /\ UNCHANGED <<loc, text, ver, pend, job, held>> /\ ReadOnly(job[p])
        /\ \A r \in Prepared : ~Blocks(p, r)
        /\ todo' = [todo EXCEPT ![p] = {<<"read", c>> : c \in Scope(p)}]
    BY <1>3 DEF pendingContext, disk, Goto, TypeInv, TypeOK, LocalType
  <2>2. Need(p)' = Need(p) /\ Scope(p)' = Scope(p) /\ Prepared' = Prepared
    BY <2>1 DEF Need, Scope, Prepared
  <2>3. \A c \in Scope(p) : <<"read", c>> \in todo'[p]
    <3> DEFINE R == {<<"read", c>> : c \in Scope(p)}
    <3>1. \A c \in Scope(p) : <<"read", c>> \in R OBVIOUS
    <3>2. todo' = [todo EXCEPT ![p] = R] BY <2>1
    <3> HIDE DEF R
    <3>3. todo'[p] = R BY <3>2 DEF TypeInv, TypeOK, LocalType
    <3> QED BY <3>1, <3>3
  <2>4. \A r \in Prepared : Items(r) \cap Scope(p) = {}
    BY <2>1 DEF Blocks
  <2>5. Need(p) \subseteq held[p] BY <2>1 DEF ReadInv
  <2> QED BY <2>1, <2>2, <2>3, <2>4, <2>5 DEF ReadOf
<1>4. ASSUME NEW d \in Card, ReadCard(p, d) PROVE ReadOf(p)'
  <2>1. /\ pc[p] = "read" /\ UNCHANGED <<loc, text, ver, pend, job, held, pc>>
        /\ todo'[p] = todo[p] \ {<<"read", d>>}
        /\ acc'[p] = [acc[p] EXCEPT ![d] = Seen(d)]
    BY <1>4 DEF ReadCard, disk, Seen, TypeInv, TypeOK, LocalType
  <2>2. Need(p)' = Need(p) /\ Scope(p)' = Scope(p) /\ Prepared' = Prepared
    BY <2>1 DEF Need, Scope, Prepared
  <2>3. \A c \in Card : Seen(c)' = Seen(c) BY <2>1 DEF Seen, SnapshotOf
  <2>4. Scope(p) \subseteq Card /\ acc[p] \in [Card -> Snapshot \cup {None}]
    BY <2>1 DEF Scope, TypeInv, PcInv, Job, TypeOK, LocalType
  <2>5. ReadOf(p) BY DEF ReadInv, ReadOf
  <2>6. \A c \in Scope(p) : <<"read", c>> \in todo'[p] \/ acc'[p][c] = Seen(c)
    BY <2>1, <2>4, <2>5 DEF ReadOf
  <2> QED BY <2>1, <2>2, <2>3, <2>4, <2>5, <2>6 DEF ReadOf
<1>5. \/ pc'[p] \notin {"check", "read"} \/ acquire(p) \/ (pendingContext(p) /\ pc'[p] = "read")
      \/ \E d \in Card : ReadCard(p, d)
  BY DEF TypeInv, TypeOK, LocalType, Acts, Step, Interrupt, Begin, RefusePending,
         pendingContext, ReadDone, RefuseStale, Stage, writeOperation, RefuseReplay,
         compareFile, writeFile, applyRename, createDirectory, createSpec, applyVersion, commitPhase,
         commitRename, operationRecords, Replay, RecoveryDone, Leave, Goto, local
<1> QED BY <1>1, <1>2, <1>3, <1>4, <1>5

LEMMA ReadStep ==
  ASSUME JInv, OInv, ReadInv, NEW p \in Proc, Acts(p)
  PROVE  ReadInv'
<1>1. \A q \in Proc : ReadOf(q)' BY ReadOthers, ReadSelf
<1> QED BY <1>1 DEF ReadInv, ReadOf

\* The card c as the record r will leave it.
Rolled(r, c) == [ place |-> r.to[c], text |-> r.after[c], rev |-> r.rev[c],
                  frozen |-> ver[c].frozen \/ Freezes(r, c) ]

\* What is covered reads as its record says, the rest as the disk says.
RolledRight ==
  /\ \A r \in Prepared : \A c \in r.cards : RolledCard(c) = Rolled(r, c)
  /\ \A r \in Prepared : \A i \in Items(r) : RolledText(i) = r.after[i]
  /\ \A c \in Card : (\A r \in Prepared : c \notin r.cards) => RolledCard(c) = SnapshotOf(c)
  /\ \A i \in Item : (\A r \in Prepared : i \notin Items(r)) => RolledText(i) = text[i]

LEMMA RolledFacts == TypeInv /\ PendingDisjoint => RolledRight
<1> SUFFICES ASSUME TypeInv, PendingDisjoint PROVE RolledRight OBVIOUS
<1>1. ASSUME NEW r \in Prepared, NEW i \in Items(r) PROVE Covering(i) = {r} /\ Cover(i) = r
  <2>1. Covering(i) = {r} BY <1>1 DEF Covering, PendingDisjoint
  <2> QED BY <2>1 DEF Cover
<1>2. \A r \in Prepared : \A c \in r.cards : RolledCard(c) = Rolled(r, c)
  BY <1>1 DEF RolledCard, Rolled, Items
<1>3. \A r \in Prepared : \A i \in Items(r) : RolledText(i) = r.after[i]
  BY <1>1 DEF RolledText
<1>4. ASSUME NEW c \in Card, \A r \in Prepared : c \notin r.cards PROVE Covering(c) = {}
  <2>1. \A r \in Prepared : r.groups \subseteq Group
    BY DEF Prepared, TypeInv, TypeOK, DiskType, Record
  <2> QED BY <1>4, <2>1, CardTransactionsAssumption DEF Covering, Items
<1>5. \A c \in Card : (\A r \in Prepared : c \notin r.cards) => RolledCard(c) = SnapshotOf(c)
  BY <1>4 DEF RolledCard
<1>6. \A i \in Item : (\A r \in Prepared : i \notin Items(r)) => RolledText(i) = text[i]
  BY DEF RolledText, Covering
<1> QED BY <1>2, <1>3, <1>5, <1>6 DEF RolledRight

LEMMA RolledTypes ==
  ASSUME TypeInv, RolledRight, NEW c \in Card
  PROVE  RolledCard(c) \in Snapshot
<1>1. CASE \A r \in Prepared : c \notin r.cards
  BY <1>1, SnapshotOfType DEF RolledRight, TypeInv, TypeOK
<1>2. ASSUME NEW r \in Prepared, c \in r.cards PROVE RolledCard(c) \in Snapshot
  <2>1. r \in Record BY DEF Prepared, TypeInv, TypeOK, DiskType
  <2>2. Rolled(r, c) \in Snapshot
    <3>1. r.to[c] \in Places /\ r.after[c] \in Content /\ r.rev[c] \in Nat
      BY <2>1 DEF Record, Item
    <3>2. (ver[c].frozen \/ Freezes(r, c)) \in BOOLEAN
      BY DEF TypeInv, TypeOK, DiskType, Version, Freezes
    <3> QED BY <3>1, <3>2 DEF Rolled, Snapshot
  <2> QED BY <1>2, <2>2 DEF RolledRight
<1> QED BY <1>1, <1>2

\* A snapshot that names the present revision is the present card.
ViewInv == \A p \in Proc, c \in Card : view[p][c] # None =>
    /\ view[p][c].rev <= RolledCard(c).rev
    /\ view[p][c].rev = RolledCard(c).rev => view[p][c] = RolledCard(c)

\* A document that is staged is the present one and the new operation.
LEMMA StagedAfter ==
  ASSUME JInv, RolledRight, ViewInv, NEW p \in Proc, Stage(p), NEW id \in Unused,
         NEW i \in job[p].cards \cup job[p].groups
  PROVE  NewRecord(p, id).after[i] = text[i] \cup {id}
<1> USE DEF JInv, JournalInv, AInv
<1>1. pc[p] = "stage" /\ Expected(p) /\ job[p] \in Job BY DEF Stage, TypeInv, PcInv
<1>2. i \in Item BY <1>1 DEF Job, Item
<1>3. NewRecord(p, id).after[i] = NewText(p, id, i) BY <1>2 DEF NewRecord
<1>4. CASE i \in Card /\ job[p].kind = "update"
  <2>1. i \in job[p].cards BY <1>1, <1>4, CardTransactionsAssumption DEF Job
  <2>2. view[p][i] # None /\ ver[i].rev = view[p][i].rev
    BY <1>1, <1>4, <2>1 DEF HoldInv, Expected, Expect
  <2>3. \A r \in Prepared : i \notin r.cards BY <1>1, <2>1 DEF ClearInv, Mine, Items
  <2>4. RolledCard(i) = SnapshotOf(i) BY <1>4, <2>3 DEF RolledRight
  <2>5. view[p][i] = SnapshotOf(i) BY <1>4, <2>2, <2>4 DEF ViewInv, SnapshotOf
  <2> QED BY <1>3, <1>4, <2>5 DEF NewText, SnapshotOf
<1>5. CASE ~(i \in Card /\ job[p].kind = "update")
  BY <1>3, <1>5 DEF NewText
<1> QED BY <1>4, <1>5

LEMMA UsedGrows ==
  ASSUME JInv, NEW p \in Proc, Acts(p)
  PROVE  Used \subseteq Used' /\ (writeOperation(p) => rec[p].id \in Used')
<1> USE DEF JInv, JournalInv, AInv
<1>1. CASE UNCHANGED <<pend, committed>> /\ ~writeOperation(p) BY <1>1 DEF Used
<1>2. CASE writeOperation(p) BY <1>2 DEF Used, writeOperation
<1>3. CASE commitPhase(p)
  <2>1. Finished(rec[p]).id = rec[p].id
    BY <1>3 DEF commitPhase, Finished, TypeInv, PcInv, Record
  <2>2. pend' = (pend \ {rec[p]}) \cup {Finished(rec[p])} /\ committed' = committed
    BY <1>3 DEF commitPhase, Finished
  <2>3. ~writeOperation(p) BY <1>3 DEF commitPhase, writeOperation
  <2> QED BY <2>1, <2>2, <2>3 DEF Used
<1>4. CASE commitRename(p)
  BY <1>4 DEF Used, commitRename, writeOperation
<1>5. CASE operationRecords(p)
  BY <1>5 DEF Used, operationRecords, writeOperation
<1> QED
  <2>1. writeOperation(p) \/ ~writeOperation(p) OBVIOUS
  <2> QED BY <1>1, <1>2, <1>3, <1>4, <1>5, JournalMoves

LEMMA TextMoves ==
  ASSUME TypeInv, TodoInv, NEW p \in Proc, Acts(p), NEW i \in Item, text'[i] # text[i]
  PROVE  pc[p] = "apply" /\ i \in Items(rec[p]) /\ text'[i] = rec[p].after[i]
<1>1. pc[p] = "apply" /\ i \in Items(rec[p]) BY OwnItems
<1>2. (\E k \in Item : compareFile(p, k) \/ writeFile(p, k)) \/ \E c \in Card : createSpec(p, c)
  BY DEF Acts, Step, Interrupt, Begin, acquire, RefusePending, pendingContext, ReadCard,
         ReadDone, RefuseStale, Stage, writeOperation, RefuseReplay, applyRename, createDirectory,
         applyVersion, commitPhase, commitRename, operationRecords, Replay, RecoveryDone, disk
<1>3. text'[i] = rec[p].after[i]
  BY <1>2 DEF compareFile, writeFile, createSpec, TypeInv, TypeOK, DiskType, disk
<1> QED BY <1>1, <1>3

LEMMA TextStep ==
  ASSUME JInv, RolledRight, ViewInv, TextInv, NEW p \in Proc, Acts(p)
  PROVE  TextInv'
<1> USE DEF JInv, JournalInv, AInv
<1>1. Used \subseteq Used' /\ (writeOperation(p) => rec[p].id \in Used') BY UsedGrows
<1>2. ASSUME NEW i \in Item PROVE text'[i] \subseteq Used'
  <2>1. CASE text'[i] = text[i] BY <1>1, <2>1 DEF TextInv
  <2>2. CASE text'[i] # text[i]
    <3>1. pc[p] = "apply" /\ i \in Items(rec[p]) /\ text'[i] = rec[p].after[i]
      BY <2>2, TextMoves
    <3>2. rec[p] \in Prepared BY <3>1 DEF RecInv, Prepared, Writes
    <3> QED BY <1>1, <3>1, <3>2 DEF TextInv
  <2> QED BY <2>1, <2>2
<1>3. ASSUME NEW r \in Prepared', NEW i \in Items(r) PROVE r.after[i] \subseteq Used'
  <2>1. CASE r \in Prepared BY <1>1, <1>3, <2>1 DEF TextInv
  <2>2. CASE pc[p] = "publish" /\ writeOperation(p) /\ r = rec[p]
    <3>1. r \in Record BY <2>2 DEF TypeInv, PcInv
    <3>2. i \in Item BY <1>3, <3>1 DEF Items, Record, Item
    <3>3. r.after[i] = text[i] \cup {r.id} BY <1>3, <2>2 DEF TextInv
    <3> QED BY <1>1, <2>2, <3>2, <3>3 DEF TextInv
  <2> QED BY <2>1, <2>2, PreparedFrom
<1>4. ASSUME NEW q \in Proc, pc'[q] = "publish", NEW i \in Items(rec'[q])
      PROVE  rec'[q].after[i] = text'[i] \cup {rec'[q].id}
  <2>1. CASE q = p /\ Stage(p)
    <3>1. PICK id \in Unused : rec'[p] = NewRecord(p, id)
      BY <2>1 DEF Stage, TypeInv, TypeOK, LocalType
    <3>2. i \in job[p].cards \cup job[p].groups BY <1>4, <2>1, <3>1 DEF NewRecord, Items
    <3>3. rec'[p].after[i] = text[i] \cup {id} BY <2>1, <3>1, <3>2, StagedAfter
    <3>4. text' = text BY <2>1 DEF Stage, disk
    <3> QED BY <2>1, <3>1, <3>3, <3>4 DEF NewRecord
  <2>2. CASE pc[q] = "publish" /\ rec'[q] = rec[q]
    <3>1. rec[q] \in Record /\ Writes(q) BY <2>2 DEF TypeInv, PcInv, Writes
    <3>2. pc[p] = "apply" => Items(rec[q]) \cap Items(rec[p]) = {}
      BY <2>2, <3>1, RecordApart
    <3>3. \A k \in Items(rec[q]) : text'[k] = text[k] BY <3>1, <3>2, Untouched
    <3> QED BY <1>4, <2>2, <3>3 DEF TextInv
  <2>3. CASE q # p BY <1>4, <2>2, <2>3, Others
  <2>4. CASE q = p /\ ~Stage(p)
    <3>1. ~Replay(p) BY <1>4, <2>4 DEF Replay, Goto, TypeInv, TypeOK, LocalType
    <3>2. Writes(p) /\ rec'[p] = rec[p] BY <1>4, <2>4, <3>1, RecFrom DEF Writes
    <3>3. pc[p] = "publish"
      BY <1>4, <2>4 DEF TypeInv, TypeOK, LocalType, Acts, Step, Interrupt, Begin, acquire, RefusePending,
       pendingContext, ReadCard, ReadDone, RefuseStale, writeOperation, RefuseReplay,
       compareFile, writeFile, applyRename, createDirectory, createSpec, applyVersion, commitPhase,
       commitRename, operationRecords, Replay, RecoveryDone, Leave, Goto, local
    <3> QED BY <2>2, <2>4, <3>2, <3>3
  <2> QED BY <2>1, <2>3, <2>4
<1> QED
  <2>1. \A q \in Proc : pc'[q] = "publish" => \A i \in Items(rec'[q]) :
            rec'[q].after[i] = text'[i] \cup {rec'[q].id}
    BY <1>4
  <2> QED BY <1>2, <1>3, <2>1 DEF TextInv, Items

\* Applying a record changes neither what its cards will be nor any other card.
LEMMA AppliedSame ==
  ASSUME JInv, RolledRight, RolledRight', NEW p \in Proc, ApplyAny(p)
  PROVE  /\ \A c \in Card : RolledCard(c)' = RolledCard(c)
         /\ \A g \in Group : RolledText(g)' = RolledText(g)
<1> USE DEF JInv, JournalInv, AInv
<1>1. Acts(p) /\ pc[p] = "apply" /\ Prepared' = Prepared
  BY DEF ApplyAny, Acts, Step, Prepared, compareFile, writeFile, applyRename, createDirectory, createSpec,
         applyVersion, disk
<1>2. rec[p] \in Prepared BY <1>1 DEF RecInv, Prepared, Writes
<1>3. /\ \A c \in Card : c \notin rec[p].cards => loc'[c] = loc[c] /\ ver'[c] = ver[c]
      /\ \A i \in Item : i \notin Items(rec[p]) => text'[i] = text[i]
  BY <1>1, OwnItems
<1>4. \A r \in Prepared : r.cards \subseteq Card /\ r.groups \subseteq Group
  BY DEF Prepared, TypeInv, TypeOK, DiskType, Record
<1>5. ASSUME NEW c \in rec[p].cards
      PROVE  (ver'[c].frozen \/ Freezes(rec[p], c)) <=> (ver[c].frozen \/ Freezes(rec[p], c))
  <2>1. c \in Card BY <1>2, <1>4
  <2>2. CASE ver'[c] = ver[c] BY <2>2
  <2>3. CASE \E d \in Card : applyVersion(p, d)
    <3>1. PICK d \in Card : applyVersion(p, d) BY <2>3
    <3>2. CASE d # c BY <2>1, <3>1, <3>2 DEF applyVersion, TypeInv, TypeOK, DiskType
    <3>3. CASE d = c
      <4> DEFINE F == Freezes(rec[p], c)
      <4>1. \/ ver' = ver
            \/ ver' = [ver EXCEPT ![c] = [rev |-> rec[p].rev[c], op |-> rec[p].id,
                                          frozen |-> @.frozen \/ F]]
        BY <3>1, <3>3 DEF applyVersion
      <4> HIDE DEF F
      <4>2. ver' = ver \/ ver'[c].frozen = (ver[c].frozen \/ F)
        BY <2>1, <4>1 DEF TypeInv, TypeOK, DiskType
      <4>3. (ver'[c].frozen \/ F) <=> (ver[c].frozen \/ F) BY <4>2
      <4> QED BY <4>3 DEF F
    <3> QED BY <3>2, <3>3
  <2>4. ver' = ver \/ \E d \in Card : applyVersion(p, d)
    BY DEF ApplyAny, compareFile, writeFile, applyRename, createDirectory, createSpec, disk
  <2> QED BY <2>2, <2>3, <2>4
<1>6. ASSUME NEW c \in Card PROVE RolledCard(c)' = RolledCard(c)
  <2>1. ASSUME NEW r \in Prepared, c \in r.cards PROVE RolledCard(c)' = RolledCard(c)
    <3>1. RolledCard(c) = Rolled(r, c) /\ RolledCard(c)' = Rolled(r, c)'
      BY <1>1, <2>1 DEF RolledRight
    <3>2. CASE r = rec[p]
      <4>1. (ver'[c].frozen \/ Freezes(r, c)) <=> (ver[c].frozen \/ Freezes(r, c))
        BY <1>5, <2>1, <3>2
      <4>2. Freezes(r, c)' = Freezes(r, c) BY DEF Freezes, Relocates
      <4>3. (ver'[c].frozen \/ Freezes(r, c)) = (ver[c].frozen \/ Freezes(r, c))
        BY <4>1
      <4> QED BY <3>1, <4>2, <4>3 DEF Rolled
    <3>3. CASE r # rec[p]
      <4>1. c \notin rec[p].cards BY <1>2, <2>1, <3>3 DEF PendingDisjoint, Items
      <4>2. ver'[c] = ver[c] BY <1>3, <4>1
      <4> QED BY <3>1, <4>2 DEF Rolled, Freezes, Relocates
    <3> QED BY <3>2, <3>3
  <2>2. CASE \A r \in Prepared : c \notin r.cards
    <3>1. RolledCard(c) = SnapshotOf(c) /\ RolledCard(c)' = SnapshotOf(c)'
      BY <1>1, <2>2 DEF RolledRight
    <3>2. c \in Item /\ c \notin rec[p].cards /\ c \notin Items(rec[p])
      BY <1>2, <1>4, <2>2, CardTransactionsAssumption DEF Items, Item
    <3>3. loc'[c] = loc[c] /\ ver'[c] = ver[c] /\ text'[c] = text[c] BY <1>3, <3>2
    <3> QED BY <3>1, <3>3 DEF SnapshotOf
  <2> QED BY <2>1, <2>2
<1>7. ASSUME NEW g \in Group PROVE RolledText(g)' = RolledText(g)
  <2>0. g \in Item BY DEF Item
  <2>1. ASSUME NEW r \in Prepared, g \in Items(r) PROVE RolledText(g)' = RolledText(g)
    BY <1>1, <2>1 DEF RolledRight, Items
  <2>2. CASE \A r \in Prepared : g \notin Items(r)
    <3>1. RolledText(g) = text[g] /\ RolledText(g)' = text'[g]
      BY <1>1, <2>0, <2>2 DEF RolledRight, Items
    <3> QED BY <1>2, <1>3, <2>0, <2>2, <3>1
  <2> QED BY <2>1, <2>2
<1> QED BY <1>6, <1>7

\* Nothing on disk nor the prepared records change.
LEMMA QuietSame ==
  ASSUME TypeInv, RolledRight, RolledRight', UNCHANGED <<loc, text, ver>>, Prepared' = Prepared
  PROVE  /\ \A c \in Card : RolledCard(c)' = RolledCard(c)
         /\ \A g \in Group : RolledText(g)' = RolledText(g)
<1>1. ASSUME NEW c \in Card PROVE RolledCard(c)' = RolledCard(c)
  <2>1. ASSUME NEW r \in Prepared, c \in r.cards PROVE RolledCard(c)' = RolledCard(c)
    BY <2>1 DEF RolledRight, Rolled, Freezes, Relocates
  <2>2. CASE \A r \in Prepared : c \notin r.cards
    BY <2>2 DEF RolledRight, SnapshotOf
  <2> QED BY <2>1, <2>2
<1>2. ASSUME NEW g \in Group PROVE RolledText(g)' = RolledText(g)
  <2>0. g \in Item BY DEF Item
  <2>1. ASSUME NEW r \in Prepared, g \in Items(r) PROVE RolledText(g)' = RolledText(g)
    BY <2>1 DEF RolledRight, Items
  <2>2. CASE \A r \in Prepared : g \notin Items(r)
    BY <2>0, <2>2 DEF RolledRight, Items
  <2> QED BY <2>1, <2>2
<1> QED BY <1>1, <1>2

\* A record leaves the journal when all it says is on disk.
LEMMA PhaseSame ==
  ASSUME JInv, edits = 0, RolledRight, RolledRight', NEW p \in Proc, commitPhase(p)
  PROVE  /\ \A c \in Card : RolledCard(c)' = RolledCard(c)
         /\ \A g \in Group : RolledText(g)' = RolledText(g)
<1> USE DEF JInv, JournalInv, AInv, BInv
<1>1. /\ pc[p] = "apply" /\ todo[p] = {} /\ UNCHANGED <<loc, text, ver>>
      /\ pend' = (pend \ {rec[p]}) \cup {Finished(rec[p])}
  BY DEF commitPhase, Finished
<1>0. rec[p] \in Record BY <1>1 DEF TypeInv, PcInv
<1> PICK r \in Record : r = rec[p] BY <1>0
<1>2. Finished(r).phase = "committed" BY DEF Finished, Record
<1>3. r \in Prepared /\ Prepared' = Prepared \ {r} /\ Asks(r)
  BY <1>1, <1>2 DEF Prepared, RecInv, Writes, AskInv
<1>4. Progress(p) BY <1>1 DEF DoneInv
<1>5. /\ \A i \in Items(r) \ Creates(r) : text[i] = r.after[i]
      /\ \A c \in Relocates(r) : text[c] = r.after[c]
      /\ \A c \in r.cards : VersionDone(r, c)
  BY <1>1, <1>4 DEF Progress
<1>6. Creates(r) \subseteq Relocates(r)
  BY <1>3 DEF Creates, Relocates, Asks, Absent
<1>7. r.cards \subseteq Card /\ r.groups \subseteq Group BY DEF Record
<1>8. ASSUME NEW c \in Card PROVE RolledCard(c)' = RolledCard(c)
  <2>1. ASSUME NEW s \in Prepared', c \in s.cards PROVE RolledCard(c)' = RolledCard(c)
    BY <1>1, <1>3, <2>1 DEF RolledRight, Rolled, Freezes, Relocates
  <2>2. CASE c \in r.cards
    <3>1. \A s \in Prepared' : c \notin s.cards BY <1>3, <2>2 DEF PendingDisjoint, Items
    <3>2. RolledCard(c) = Rolled(r, c) /\ RolledCard(c)' = SnapshotOf(c)'
      BY <1>3, <2>2, <3>1 DEF RolledRight
    <3>3. SnapshotOf(c)' = SnapshotOf(c) BY <1>1 DEF SnapshotOf
    <3>4. VersionDone(r, c) /\ c \in Items(r) BY <1>5, <2>2 DEF Items
    <3>5. ver[c].frozen \in BOOLEAN BY DEF TypeInv, TypeOK, DiskType, Version
    <3>6. ver[c].frozen = (ver[c].frozen \/ Freezes(r, c)) BY <3>4, <3>5 DEF VersionDone
    <3>7. loc[c] = r.to[c] /\ text[c] = r.after[c] /\ ver[c].rev = r.rev[c]
      BY <3>4 DEF VersionDone
    <3> QED BY <3>2, <3>3, <3>6, <3>7 DEF Rolled, SnapshotOf
  <2>3. CASE \A s \in Prepared : c \notin s.cards
    BY <1>1, <1>3, <2>3 DEF RolledRight, SnapshotOf
  <2> QED BY <1>3, <2>1, <2>2, <2>3
<1>9. ASSUME NEW g \in Group PROVE RolledText(g)' = RolledText(g)
  <2>0. g \in Item BY DEF Item
  <2>1. ASSUME NEW s \in Prepared', g \in Items(s) PROVE RolledText(g)' = RolledText(g)
    BY <1>3, <2>1 DEF RolledRight, Items
  <2>2. CASE g \in Items(r)
    <3>1. \A s \in Prepared' : g \notin Items(s) BY <1>3, <2>2 DEF PendingDisjoint
    <3>2. RolledText(g) = r.after[g] /\ RolledText(g)' = text'[g]
      BY <1>3, <2>0, <2>2, <3>1 DEF RolledRight, Items
    <3>3. g \notin Creates(r) BY <1>7, CardTransactionsAssumption DEF Creates
    <3> QED BY <1>1, <1>5, <2>2, <3>2, <3>3
  <2>3. CASE \A s \in Prepared : g \notin Items(s)
    BY <1>1, <1>3, <2>0, <2>3 DEF RolledRight, Items
  <2> QED BY <1>3, <2>1, <2>2, <2>3
<1> QED BY <1>8, <1>9

LEMMA RenamePrepared ==
  ASSUME JInv, NEW p \in Proc, commitRename(p)
  PROVE  Prepared' = Prepared
<1> USE DEF JInv, JournalInv, AInv
<1>1. pc[p] = "commit" /\ pend' = {r \in pend : r.id # rec[p].id} BY DEF commitRename
<1>0. Finished(rec[p]).id = rec[p].id /\ Finished(rec[p]).phase = "committed"
  BY <1>1 DEF Finished, TypeInv, PcInv, Record
<1>2. Finished(rec[p]) \in pend /\ Finished(rec[p]).id = rec[p].id
      /\ Finished(rec[p]).phase = "committed"
  BY <1>0, <1>1 DEF RecInv
<1>3. \A r \in pend : r.id = rec[p].id => r = Finished(rec[p]) BY <1>2 DEF IdInv
<1> QED BY <1>1, <1>2, <1>3 DEF Prepared

LEMMA OnlyCommitsShow ==
  ASSUME JInv, edits = 0, RolledRight, RolledRight', NEW p \in Proc, Acts(p), ~writeOperation(p)
  PROVE  /\ \A c \in Card : RolledCard(c)' = RolledCard(c)
         /\ \A g \in Group : RolledText(g)' = RolledText(g)
<1>0. TypeInv BY DEF JInv, JournalInv
<1> DEFINE G == /\ \A c \in Card : RolledCard(c)' = RolledCard(c)
                /\ \A g \in Group : RolledText(g)' = RolledText(g)
<1> SUFFICES G OBVIOUS
<1>1. CASE ApplyAny(p) BY <1>1, AppliedSame
<1>2. CASE commitPhase(p) BY <1>2, PhaseSame
<1>3. CASE commitRename(p)
  <2>1. UNCHANGED <<loc, text, ver>> BY <1>3 DEF commitRename
  <2>2. Prepared' = Prepared BY <1>3, RenamePrepared
  <2> HIDE DEF G
  <2>3. G BY <1>0, <2>1, <2>2, QuietSame DEF G
  <2> QED BY <2>3
<1>4. CASE operationRecords(p)
  <2>1. UNCHANGED <<loc, text, ver>> /\ Prepared' = Prepared
    BY <1>4 DEF operationRecords, Prepared
  <2> QED BY <1>0, <2>1, QuietSame
<1>5. CASE UNCHANGED <<loc, text, ver, pend>>
  <2>1. Prepared' = Prepared BY <1>5 DEF Prepared
  <2> QED BY <1>0, <1>5, <2>1, QuietSame
<1>6. \/ ApplyAny(p) \/ commitPhase(p) \/ commitRename(p) \/ operationRecords(p)
      \/ UNCHANGED <<loc, text, ver, pend>>
  BY DEF ApplyAny, Acts, Step, Interrupt, Begin, acquire, RefusePending, pendingContext, ReadCard,
         ReadDone, RefuseStale, Stage, RefuseReplay, Replay, RecoveryDone, disk
<1> HIDE DEF G
<1> QED BY <1>1, <1>2, <1>3, <1>4, <1>5, <1>6

LEMMA RolledUsed ==
  ASSUME TypeInv, RolledRight, TextInv
  PROVE  /\ \A c \in Card : RolledCard(c).text \subseteq Used
         /\ \A g \in Group : RolledText(g) \subseteq Used
<1>1. ASSUME NEW c \in Card PROVE RolledCard(c).text \subseteq Used
  <2>0. c \in Item BY DEF Item
  <2>1. ASSUME NEW r \in Prepared, c \in r.cards PROVE RolledCard(c).text \subseteq Used
    <3>1. RolledCard(c).text = r.after[c] /\ c \in Items(r)
      BY <2>1 DEF RolledRight, Rolled, Items
    <3> QED BY <3>1 DEF TextInv
  <2>2. CASE \A r \in Prepared : c \notin r.cards
    BY <2>0, <2>2 DEF RolledRight, SnapshotOf, TextInv
  <2> QED BY <2>1, <2>2
<1>2. ASSUME NEW g \in Group PROVE RolledText(g) \subseteq Used
  <2>0. g \in Item BY DEF Item
  <2> QED BY <2>0 DEF RolledRight, TextInv
<1> QED BY <1>1, <1>2

\* What a published record changes, seen from above.
LEMMA Published ==
  ASSUME JInv, edits = 0, RolledRight, RolledRight', TextInv,
         NEW p \in Proc, writeOperation(p), NEW r \in Record, r = rec[p]
  PROVE  /\ r.cards \subseteq Card /\ r.groups \subseteq Group /\ r.id \in Op /\ r.id \notin Used
         /\ Asks(r)
         /\ \A c \in Card : c \notin r.cards => RolledCard(c)' = RolledCard(c)
         /\ \A g \in Group : g \notin r.groups => RolledText(g)' = RolledText(g)
         /\ \A g \in r.groups : RolledText(g)' = RolledText(g) \cup {r.id}
         /\ \A c \in r.cards :
              /\ RolledCard(c).place = r.from[c]
              /\ RolledCard(c)' = [ place |-> r.to[c], text |-> RolledCard(c).text \cup {r.id},
                                    rev |-> RolledCard(c).rev + 1,
                                    frozen |-> RolledCard(c).frozen \/ Freezes(r, c) ]
<1> USE DEF JInv, JournalInv, AInv, BInv
<1>1. pc[p] = "publish" /\ UNCHANGED <<loc, text, ver>> /\ pend' = pend \cup {r}
  BY DEF writeOperation
<1>2. r.cards \subseteq Card /\ r.groups \subseteq Group /\ r.id \in Op BY DEF Record
<1>3. r.id \notin Used BY <1>1 DEF Used, RecInv
<1>4. Prepared' = Prepared \cup {r} /\ Asks(r)
  BY <1>1 DEF Prepared, RecInv, Writes, AskInv
<1>5. \A s \in Prepared : Items(s) \cap Items(r) = {}
  BY <1>1 DEF ClearInv, ScopeInv
<1>6. /\ \A c \in r.cards : loc[c] = r.from[c] /\ r.rev[c] = ver[c].rev + 1
      /\ \A i \in Items(r) : r.after[i] = text[i] \cup {r.id}
  BY <1>1 DEF StageInv, TextInv
<1>7. ASSUME NEW c \in Card, c \notin r.cards PROVE RolledCard(c)' = RolledCard(c)
  <2>1. ASSUME NEW s \in Prepared, c \in s.cards PROVE RolledCard(c)' = RolledCard(c)
    BY <1>1, <1>4, <2>1 DEF RolledRight, Rolled, Freezes, Relocates
  <2>2. CASE \A s \in Prepared : c \notin s.cards
    <3>1. \A s \in Prepared' : c \notin s.cards BY <1>4, <1>7, <2>2
    <3> QED BY <1>1, <2>2, <3>1 DEF RolledRight, SnapshotOf
  <2> QED BY <2>1, <2>2
<1>8. ASSUME NEW g \in Group PROVE
        /\ g \notin r.groups => RolledText(g)' = RolledText(g)
        /\ g \in r.groups => RolledText(g)' = RolledText(g) \cup {r.id}
  <2>0. g \in Item /\ (g \in Items(r) <=> g \in r.groups)
    BY <1>2, CardTransactionsAssumption DEF Item, Items
  <2>1. CASE g \in r.groups
    <3>1. RolledText(g)' = r.after[g] BY <1>4, <2>0, <2>1 DEF RolledRight, Items
    <3>2. RolledText(g) = text[g] BY <1>5, <2>0, <2>1 DEF RolledRight
    <3> QED BY <1>6, <2>0, <2>1, <3>1, <3>2
  <2>2. CASE g \notin r.groups
    <3>1. ASSUME NEW s \in Prepared, g \in Items(s) PROVE RolledText(g)' = RolledText(g)
      BY <1>4, <3>1 DEF RolledRight, Items
    <3>2. CASE \A s \in Prepared : g \notin Items(s)
      <4>1. \A s \in Prepared' : g \notin Items(s) BY <1>4, <2>0, <2>2, <3>2
      <4> QED BY <1>1, <2>0, <2>2, <3>2, <4>1 DEF RolledRight, Items
    <3> QED BY <2>2, <3>1, <3>2
  <2> QED BY <2>1, <2>2
<1>9. ASSUME NEW c \in r.cards
      PROVE  /\ RolledCard(c).place = r.from[c]
             /\ RolledCard(c)' = [ place |-> r.to[c], text |-> RolledCard(c).text \cup {r.id},
                                   rev |-> RolledCard(c).rev + 1,
                                   frozen |-> RolledCard(c).frozen \/ Freezes(r, c) ]
  <2>1. c \in Card /\ c \in Items(r) BY <1>2 DEF Items
  <2>2. \A s \in Prepared : c \notin s.cards BY <1>5, <2>1 DEF Items
  <2>3. RolledCard(c) = SnapshotOf(c) BY <2>1, <2>2 DEF RolledRight
  <2>4. RolledCard(c)' = Rolled(r, c)' BY <1>4 DEF RolledRight
  <2>5. Rolled(r, c)' = Rolled(r, c) BY <1>1 DEF Rolled, Freezes, Relocates
  <2>6. RolledCard(c).place = loc[c] /\ RolledCard(c).text = text[c]
        /\ RolledCard(c).rev = ver[c].rev /\ RolledCard(c).frozen = ver[c].frozen
    BY <2>3 DEF SnapshotOf
  <2>7. RolledCard(c)' = [ place |-> r.to[c], text |-> r.after[c], rev |-> r.rev[c],
                           frozen |-> ver[c].frozen \/ Freezes(r, c) ]
    BY <2>4, <2>5 DEF Rolled
  <2>8. loc[c] = r.from[c] /\ r.rev[c] = ver[c].rev + 1 /\ r.after[c] = text[c] \cup {r.id}
    BY <1>6, <2>1
  <2> QED BY <2>6, <2>7, <2>8
<1> QED BY <1>2, <1>3, <1>4, <1>7, <1>8, <1>9

LEMMA PublishedCommit ==
  ASSUME JInv, edits = 0, RolledRight, RolledRight', TextInv, NEW p \in Proc, writeOperation(p)
  PROVE  Atomic!Next
<1>0. rec[p] \in Record BY DEF writeOperation, JInv, JournalInv, TypeInv, PcInv
<1> PICK r \in Record : r = rec[p] BY <1>0
<1>1. /\ r.cards \subseteq Card /\ r.groups \subseteq Group /\ r.id \in Op /\ r.id \notin Used
      /\ Asks(r)
      /\ \A c \in Card : c \notin r.cards => RolledCard(c)' = RolledCard(c)
      /\ \A g \in Group : g \notin r.groups => RolledText(g)' = RolledText(g)
      /\ \A g \in r.groups : RolledText(g)' = RolledText(g) \cup {r.id}
      /\ \A c \in r.cards :
              /\ RolledCard(c).place = r.from[c]
              /\ RolledCard(c)' = [ place |-> r.to[c], text |-> RolledCard(c).text \cup {r.id},
                                    rev |-> RolledCard(c).rev + 1,
                                    frozen |-> RolledCard(c).frozen \/ Freezes(r, c) ]
  BY Published
<1>2. /\ \A c \in Card : r.id \notin RolledCard(c).text
      /\ \A g \in Group : r.id \notin RolledText(g)
  BY <1>1, RolledUsed DEF JInv, JournalInv
<1>3. view' = view BY DEF writeOperation
<1>4. \A c \in Card : r.id \in RolledCard(c)'.text <=> c \in r.cards
  BY <1>1, <1>2
<1>5. \A g \in Group : r.id \in RolledText(g)' <=> g \in r.groups
  BY <1>1, <1>2
<1> DEFINE now == [c \in Card |-> RolledCard(c)]
           grp == [g \in Group |-> RolledText(g)]
           to == [c \in Card |-> now'[c].place]
           C == {c \in Card : r.id \in now'[c].text}
           D == {g \in Group : r.id \in grp'[g]}
<1>6. C = r.cards /\ D = r.groups BY <1>1, <1>4, <1>5
<1>7. \A c \in r.cards : to[c] = r.to[c] BY <1>1
<1>8. Atomic!Absent = Absent /\ \A a, b : Atomic!allowedMove(a, b) <=> allowedMove(a, b)
  BY DEF Atomic!Absent, Absent, Atomic!allowedMove, allowedMove, Atomic!transitions, transitions
<1>9. \A c \in C : /\ now[c].place # "archived"
                   /\ to[c] # now[c].place =>
                        \/ now[c].place = Atomic!Absent /\ to[c] = "backlog"
                        \/ now[c].place # Atomic!Absent /\ Atomic!allowedMove(now[c].place, to[c])
  <2> SUFFICES ASSUME NEW c \in r.cards
               PROVE  /\ now[c].place # "archived"
                      /\ to[c] # now[c].place =>
                           \/ now[c].place = Absent /\ to[c] = "backlog"
                           \/ now[c].place # Absent /\ allowedMove(now[c].place, to[c])
    BY <1>6, <1>8
  <2>1. now[c].place = r.from[c] /\ to[c] = r.to[c] BY <1>1, <1>7
  <2> HIDE DEF now, to
  <2> QED BY <1>1, <2>1 DEF Asks, Absent
<1>10. \A c \in r.cards : now'[c] = Atomic!After(c, r.id, to[c])
  <2> TAKE c \in r.cards
  <2>1. /\ now[c].place = r.from[c] /\ to[c] = r.to[c]
        /\ now'[c] = [ place |-> r.to[c], text |-> now[c].text \cup {r.id},
                       rev |-> now[c].rev + 1, frozen |-> now[c].frozen \/ Freezes(r, c) ]
    BY <1>1, <1>7
  <2>2. Freezes(r, c) = (to[c] # now[c].place /\ (to[c] # "backlog" \/ now[c].place # Absent))
    BY <2>1 DEF Freezes, Relocates
  <2>3. Atomic!After(c, r.id, to[c]) =
          [ place |-> to[c], text |-> now[c].text \cup {r.id}, rev |-> now[c].rev + 1,
            frozen |-> \/ now[c].frozen
                       \/ to[c] # now[c].place /\ (to[c] # "backlog" \/ now[c].place # Absent) ]
    BY <1>8 DEF Atomic!After
  <2> HIDE DEF now, to
  <2> QED BY <2>1, <2>2, <2>3
<1>11. now' = [c \in Card |-> IF c \in C THEN Atomic!After(c, r.id, to[c]) ELSE now[c]]
  <2>1. \A c \in Card : c \notin C => now'[c] = now[c] BY <1>1, <1>6
  <2>2. now' = [c \in Card |-> now'[c]] OBVIOUS
  <2>3. \A c \in C : now'[c] = Atomic!After(c, r.id, to[c]) BY <1>6, <1>10
  <2> HIDE DEF now, to, C
  <2> QED BY <2>1, <2>2, <2>3
<1>12. grp' = [g \in Group |-> IF g \in D THEN grp[g] \cup {r.id} ELSE grp[g]]
  <2>1. \A g \in Group : grp'[g] = IF g \in r.groups THEN grp[g] \cup {r.id} ELSE grp[g]
    BY <1>1
  <2> QED BY <1>6, <2>1
<1>13. Atomic!Fresh(r.id) BY <1>2 DEF Atomic!Fresh
<1>14. Atomic!Commit(r.id)
  BY ZenonT(60), <1>3, <1>9, <1>11, <1>12, <1>13 DEF Atomic!Commit
<1> QED BY <1>1, <1>14 DEF Atomic!Next

\* What a command learns is the present state of its cards.
LEMMA Observed ==
  ASSUME JInv, ReadInv, CommitInv, RolledRight, NEW p \in Proc, Acts(p)
  PROVE  \/ view' = view
         \/ view' = [view EXCEPT ![p] = NoView]
         \/ \E C \in SUBSET Card : view' = [view EXCEPT ![p] = [c \in Card |->
                 IF c \notin C THEN view[p][c]
                 ELSE IF RolledCard(c).place = Absent THEN None ELSE RolledCard(c)]]
<1> DEFINE G == \/ view' = view
                \/ view' = [view EXCEPT ![p] = NoView]
                \/ \E C \in SUBSET Card : view' = [view EXCEPT ![p] = [c \in Card |->
                     IF c \notin C THEN view[p][c]
                     ELSE IF RolledCard(c).place = Absent THEN None ELSE RolledCard(c)]]
<1> SUFFICES G OBVIOUS
<1> USE DEF JInv, JournalInv, AInv, BInv
<1>1. ASSUME Leave(p, view[p]) PROVE view' = view
  BY <1>1 DEF Leave, TypeInv, TypeOK, LocalType
<1>2. ASSUME NEW C \in SUBSET Card, NEW w, Leave(p, Merge(p, C, w)),
             \A c \in C : w[c] = IF RolledCard(c).place = Absent THEN None ELSE RolledCard(c)
      PROVE  G
  <2> DEFINE v == [c \in Card |-> IF c \notin C THEN view[p][c]
                     ELSE IF RolledCard(c).place = Absent THEN None ELSE RolledCard(c)]
  <2>1. Merge(p, C, w) = v BY <1>2 DEF Merge
  <2>2. view' = [view EXCEPT ![p] = v] BY <1>2, <2>1 DEF Leave
  <2> QED BY <2>2
<1>3. CASE ReadDone(p)
  <2>1. pc[p] = "read" /\ todo[p] = {} /\ Leave(p, Merge(p, Scope(p), acc[p]))
    BY <1>3 DEF ReadDone
  <2>2. Scope(p) \in SUBSET Card BY <2>1 DEF Scope, TypeInv, PcInv, Job
  <2>3. ASSUME NEW c \in Scope(p)
        PROVE  acc[p][c] = IF RolledCard(c).place = Absent THEN None ELSE RolledCard(c)
    <3>1. acc[p][c] = Seen(c) BY <2>1 DEF ReadInv
    <3>2. c \in Card /\ \A r \in Prepared : c \notin r.cards BY <2>1, <2>2 DEF ReadInv, Items
    <3>3. RolledCard(c) = SnapshotOf(c) BY <3>2 DEF RolledRight
    <3> QED BY <3>1, <3>3 DEF Seen, SnapshotOf
  <2> HIDE DEF G
  <2> QED BY <1>2, <2>1, <2>2, <2>3
<1>4. CASE commitRename(p)
  <2>1. pc[p] = "commit" /\ todo[p] = {} /\ Here(rec[p]) /\ rec[p] \in Record
    BY <1>4 DEF commitRename, TodoInv, AskInv, Writes, TypeInv, PcInv
  <2>2. CASE job[p].kind = "init" BY <1>4, <2>2 DEF commitRename
  <2>3. CASE job[p].kind # "init"
    <3> DEFINE w == [c \in Card |-> SnapshotOf(c)]
    <3>1. Leave(p, Merge(p, rec[p].cards, w)) BY <1>4, <2>3 DEF commitRename
    <3>2. rec[p].cards \in SUBSET Card BY <2>1 DEF Record
    <3>3. ASSUME NEW c \in rec[p].cards
          PROVE  w[c] = IF RolledCard(c).place = Absent THEN None ELSE RolledCard(c)
      <4>1. c \in Card /\ \A r \in Prepared : c \notin r.cards
        BY <2>1, <3>2 DEF CommitInv, Items
      <4>2. RolledCard(c) = SnapshotOf(c) BY <4>1 DEF RolledRight
      <4>3. loc[c] # Absent
        BY <2>1 DEF AskInv, Here, Creates
      <4> QED BY <4>1, <4>2, <4>3 DEF SnapshotOf
    <3> HIDE DEF G, w
    <3> QED BY <1>2, <3>1, <3>2, <3>3
  <2> QED BY <2>2, <2>3
<1>5. CASE Interrupt(p) BY <1>1, <1>5 DEF Interrupt, Leave
<1>6. CASE RefusePending(p) \/ RefuseStale(p) \/ RefuseReplay(p) \/ RecoveryDone(p)
  BY <1>1, <1>6 DEF RefusePending, RefuseStale, RefuseReplay, RecoveryDone
<1>7. view' = view \/ ReadDone(p) \/ commitRename(p) \/ Interrupt(p)
      \/ RefusePending(p) \/ RefuseStale(p) \/ RefuseReplay(p) \/ RecoveryDone(p)
  BY DEF Acts, Step, Begin, acquire, pendingContext, ReadCard, Stage, writeOperation, compareFile, writeFile,
       applyRename, createDirectory, createSpec, applyVersion, commitPhase,
       operationRecords, Replay, local
<1>8. view' = view => G OBVIOUS
<1> HIDE DEF G
<1> QED BY <1>3, <1>4, <1>1, <1>5, <1>6, <1>7, <1>8 DEF G

\* Every step of a command is one of the abstract board, or none.
LEMMA AtomicStep ==
  ASSUME JInv, edits = 0, ReadInv, CommitInv, TextInv, RolledRight, RolledRight',
         NEW p \in Proc, Acts(p)
  PROVE  Atomic!Next \/ UNCHANGED Atomic!vars
<1> DEFINE now == [c \in Card |-> RolledCard(c)]
           grp == [g \in Group |-> RolledText(g)]
<1>1. CASE writeOperation(p) BY <1>1, PublishedCommit
<1>2. CASE ~writeOperation(p)
  <2>1. /\ \A c \in Card : RolledCard(c)' = RolledCard(c)
        /\ \A g \in Group : RolledText(g)' = RolledText(g)
    BY <1>2, OnlyCommitsShow
  <2>2. now' = now /\ grp' = grp BY <2>1
  <2>3. CASE view' = view BY <2>2, <2>3 DEF Atomic!vars
  <2>4. CASE view' = [view EXCEPT ![p] = NoView]
    <3>1. Atomic!Forget(p) BY <2>2, <2>4 DEF Atomic!Forget, NoView
    <3> QED BY <3>1 DEF Atomic!Next
  <2>5. ASSUME NEW C \in SUBSET Card, view' = [view EXCEPT ![p] = [c \in Card |->
                 IF c \notin C THEN view[p][c]
                 ELSE IF RolledCard(c).place = Absent THEN None ELSE RolledCard(c)]]
        PROVE  Atomic!Next
    <3>0. Atomic!Absent = Absent BY DEF Atomic!Absent, Absent
    <3> DEFINE v == [c \in Card |->
                 IF c \notin C THEN view[p][c]
                 ELSE IF now[c].place = Atomic!Absent THEN None ELSE now[c]]
    <3>1. view' = [view EXCEPT ![p] = v] BY <2>5, <3>0
    <3>2. Atomic!Observe(p, C) BY <2>2, <3>1 DEF Atomic!Observe
    <3> QED BY <3>2 DEF Atomic!Next
  <2> QED BY <2>3, <2>4, <2>5, Observed
<1> QED BY <1>1, <1>2

LEMMA ViewStep ==
  ASSUME JInv, edits = 0, ReadInv, CommitInv, TextInv, ViewInv, RolledRight, RolledRight',
         NEW p \in Proc, Acts(p)
  PROVE  ViewInv'
<1>0. TypeInv BY DEF JInv, JournalInv
<1>1. \A c \in Card : RolledCard(c) \in Snapshot /\ RolledCard(c).rev \in Nat
  BY <1>0, RolledTypes DEF Snapshot
<1>2. \A q \in Proc, c \in Card : view[q][c] # None => view[q][c].rev \in Nat
  BY <1>0 DEF TypeInv, TypeOK, LocalType, Snapshot
<1>3. CASE writeOperation(p)
  <2>0. rec[p] \in Record /\ view' = view BY <1>0, <1>3 DEF writeOperation, TypeInv, PcInv
  <2> PICK r \in Record : r = rec[p] BY <2>0
  <2>1. /\ \A c \in Card : c \notin r.cards => RolledCard(c)' = RolledCard(c)
        /\ \A c \in r.cards : RolledCard(c)'.rev = RolledCard(c).rev + 1
    BY <1>3, Published
  <2>2. ASSUME NEW q \in Proc, NEW c \in Card, view[q][c] # None
        PROVE  /\ view[q][c].rev <= RolledCard(c)'.rev
               /\ view[q][c].rev = RolledCard(c)'.rev => view[q][c] = RolledCard(c)'
    <3>1. CASE c \in r.cards
      <4>1. view[q][c].rev <= RolledCard(c).rev BY <2>2 DEF ViewInv
      <4> QED BY <1>1, <1>2, <2>1, <2>2, <3>1, <4>1
    <3>2. CASE c \notin r.cards BY <2>1, <2>2, <3>2 DEF ViewInv
    <3> QED BY <3>1, <3>2
  <2> QED BY <2>0, <2>2 DEF ViewInv
<1>4. CASE ~writeOperation(p)
  <2>1. \A c \in Card : RolledCard(c)' = RolledCard(c) BY <1>4, OnlyCommitsShow
  <2>2. ASSUME NEW q \in Proc, NEW c \in Card
        PROVE  view'[q][c] \in {view[q][c], None, RolledCard(c)}
    <3>1. view \in [Proc -> [Card -> Snapshot \cup {None}]]
      BY <1>0 DEF TypeInv, TypeOK, LocalType
    <3>2. CASE view' = view \/ view' = [view EXCEPT ![p] = NoView]
      BY <3>1, <3>2 DEF NoView
    <3>3. ASSUME NEW C \in SUBSET Card, view' = [view EXCEPT ![p] = [d \in Card |->
                 IF d \notin C THEN view[p][d]
                 ELSE IF RolledCard(d).place = Absent THEN None ELSE RolledCard(d)]]
          PROVE  view'[q][c] \in {view[q][c], None, RolledCard(c)}
      BY <3>1, <3>3
    <3> QED BY <3>2, <3>3, Observed
  <2>3. ASSUME NEW q \in Proc, NEW c \in Card, view'[q][c] # None
        PROVE  /\ view'[q][c].rev <= RolledCard(c).rev
               /\ view'[q][c].rev = RolledCard(c).rev => view'[q][c] = RolledCard(c)
    BY <1>1, <2>2, <2>3 DEF ViewInv
  <2> QED BY <2>1, <2>3 DEF ViewInv
<1> QED BY <1>3, <1>4

KInv == JInv /\ JlockInv /\ OInv /\ edits = 0 /\ ReadInv /\ CommitInv /\ TextInv /\ ViewInv

LEMMA KInit == Init => KInv /\ Atomic!Init
<1> SUFFICES ASSUME Init PROVE KInv /\ Atomic!Init OBVIOUS
<1>1. JInv /\ JlockInv /\ OInv BY JInit, OInit
<1>2. Prepared = {} BY DEF Init, Prepared
<1>3. ReadInv /\ CommitInv /\ TextInv BY <1>2 DEF Init, ReadInv, CommitInv, TextInv
<1>4. ViewInv BY DEF Init, ViewInv, NoView
<1>5. RolledRight BY <1>1, RolledFacts DEF JInv, JournalInv
<1>6. \A c \in Card : RolledCard(c) = SnapshotOf(c) BY <1>2, <1>5 DEF RolledRight
<1>7. \A c \in Card : SnapshotOf(c) =
         [place |-> InitPlace[c], text |-> {}, rev |-> 0, frozen |-> InitPlace[c] \notin {"backlog", Absent}]
  BY DEF Init, SnapshotOf, Item
<1>8. \A g \in Group : RolledText(g) = {}
  <2>1. \A g \in Group : RolledText(g) = text[g] BY <1>2, <1>5 DEF RolledRight, Item
  <2> QED BY <2>1 DEF Init, Item
<1>9. Atomic!Init
  BY <1>6, <1>7, <1>8 DEF Atomic!Init, Init, NoView, Atomic!Absent, Absent
<1>10. edits = 0 BY DEF Init
<1> QED BY <1>1, <1>3, <1>4, <1>9, <1>10 DEF KInv

LEMMA KNext ==
  ASSUME MaxEdits = 0
  PROVE  KInv /\ [Next]_vars => KInv' /\ [Atomic!Next]_Atomic!vars
<1> SUFFICES ASSUME KInv, [Next]_vars PROVE KInv' /\ [Atomic!Next]_Atomic!vars OBVIOUS
<1>1. (JInv /\ JlockInv /\ OInv)' BY JNext, ONext DEF KInv
<1>2. RolledRight BY RolledFacts DEF KInv, JInv, JournalInv
<1>3. RolledRight'
  <2>1. (TypeInv /\ PendingDisjoint)' BY <1>1 DEF JInv, JournalInv
  <2> QED BY <2>1, RolledFacts, PTL
<1>4. ASSUME NEW p \in Proc, Acts(p) PROVE KInv' /\ [Atomic!Next]_Atomic!vars
  <2>1. edits' = 0
    BY <1>4 DEF KInv, Acts, Step, Interrupt, Begin, acquire, RefusePending, pendingContext, ReadCard,
       ReadDone, RefuseStale, Stage, writeOperation, RefuseReplay, compareFile, writeFile, applyRename,
       createDirectory, createSpec, applyVersion, commitPhase, commitRename, operationRecords,
       Replay, RecoveryDone, bounds
  <2>2. ReadInv' /\ CommitInv' /\ TextInv' /\ ViewInv'
    BY <1>2, <1>3, <1>4, ReadStep, CommitStep, TextStep, ViewStep DEF KInv
  <2>3. Atomic!Next \/ UNCHANGED Atomic!vars BY <1>2, <1>3, <1>4, AtomicStep DEF KInv
  <2> QED BY <1>1, <2>1, <2>2, <2>3 DEF KInv
<1>5. \A c \in Card : ~ExternalEdit(c) BY DEF ExternalEdit, KInv
<1>6. CASE UNCHANGED vars
  <2>1. UNCHANGED <<loc, text, ver, pend, committed, pc, job, held, rec, todo, acc, view, edits>>
    BY <1>6 DEF vars, disk, local, bounds
  <2>2. Prepared' = Prepared BY <2>1 DEF Prepared
  <2>3. /\ \A c \in Card : RolledCard(c)' = RolledCard(c)
        /\ \A g \in Group : RolledText(g)' = RolledText(g)
    BY <1>2, <1>3, <2>1, <2>2, QuietSame DEF KInv, JInv, JournalInv
  <2>4. UNCHANGED Atomic!vars BY <2>1, <2>3 DEF Atomic!vars
  <2>5. ViewInv' BY <2>1, <2>3 DEF KInv, ViewInv
  <2>6. ReadInv'
    BY <2>1, <2>2 DEF KInv, ReadInv, Need, Scope, Seen, SnapshotOf, Items
  <2>7. CommitInv' /\ TextInv'
    BY <2>1, <2>2 DEF KInv, CommitInv, TextInv, Used, Items
  <2> QED BY <1>1, <2>1, <2>4, <2>5, <2>6, <2>7 DEF KInv
<1> QED BY <1>4, <1>5, <1>6 DEF Next, Acts

\* Without edits from outside the journal implements the atomic board: each operation
\* takes effect at the write of its record, all of it or nothing, however often
\* commands die and recoveries replay; each snapshot is of one instant.
THEOREM JournalAtomic ==
  ASSUME MaxEdits = 0
  PROVE  Spec => ImplementsAtomicCards
<1>1. Init => KInv /\ Atomic!Init BY KInit
<1>2. KInv /\ [Next]_vars => KInv' /\ [Atomic!Next]_Atomic!vars BY KNext
<1> QED BY <1>1, <1>2, PTL DEF Spec, ImplementsAtomicCards, Atomic!Spec
=============================================================================
