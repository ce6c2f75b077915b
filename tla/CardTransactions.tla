-------------------------- MODULE CardTransactions --------------------------
(***************************************************************************)
(* The redo journal of the board (internal/board: transaction.go,          *)
(* transaction_lock.go, transaction_log.go, journal_layout.go, recovery.go,*)
(* snapshot_context.go).                                                   *)
(*                                                                         *)
(* Processes of separate kander commands share one board directory.  Each  *)
(* runs one job at a time: it takes its whole lock set in a fixed order,   *)
(* refuses to touch anything a prepared record covers, stages its writes   *)
(* in memory, publishes one prepared record, and then applies the record   *)
(* file by file.  It may stop at any step; "init" later replays what is    *)
(* left.                                                                   *)
(*                                                                         *)
(* The content of a document is the set of the operations it reflects.     *)
(* An operation id is a fresh random string: any unused member of Op.      *)
(***************************************************************************)
EXTENDS CardStates, Naturals, FiniteSets

CONSTANTS
    Proc,       \* running kander commands
    Card,       \* task ids
    Group,      \* group ids: owners of the control documents
    Op,         \* operation ids
    Jobs,       \* what commands may be asked to do, see Job
    InitPlace,  \* where each card lies at the start
    BoardLock,  \* the name of board.lock
    Rank,       \* the order in which lock names sort
    None,       \* no value
    Foreign,    \* the mark an editor outside kander leaves in a document
    MaxFaults,  \* bound: interrupted commands
    MaxEdits    \* bound: edits from outside

Item == Card \cup Group
Lock == {BoardLock} \cup Item
Content == SUBSET (Op \cup {Foreign})

\* A command and its LockScope.  "update" rewrites documents in place, "move"
\* relocates a card, "create" adds one, "read" returns a snapshot of the named
\* cards, "scan" of the whole board, "init" recovers.
Job == [kind : {"update", "move", "create", "read", "scan", "init"},
        cards : SUBSET Card, groups : SUBSET Group, to : Places]

InitJob == [kind |-> "init", cards |-> {}, groups |-> {}, to |-> Absent]

ASSUME CardTransactionsAssumption ==
    /\ Card \cap Group = {} /\ BoardLock \notin Item
    /\ Jobs \subseteq Job
    /\ InitPlace \in [Card -> Places]
    /\ Rank \in [Lock -> Nat]
    /\ \A l, m \in Lock : Rank[l] = Rank[m] => l = m
    /\ \A i \in Item : Rank[BoardLock] < Rank[i]
    /\ \A g \in Group, c \in Card : Rank[g] < Rank[c]
    /\ IsFiniteSet(Proc)
    /\ None \notin Op /\ Foreign \notin Op
    /\ MaxFaults \in Nat /\ MaxEdits \in Nat

ASSUME JobsAssumption ==
    \A j \in Jobs :
        /\ j.kind \in {"move", "create"} => \E c \in Card : j.cards = {c}
        /\ j.kind \in {"read", "scan", "init"} => j.groups = {}
        /\ j.kind \in {"scan", "init"} => j.cards = {}
        /\ j.kind = "move" => j.to \in States
        /\ j.kind = "create" => j.to = "backlog"

VARIABLES
    loc,        \* card -> the state directory its entry lies in
    text,       \* card or group -> content of its document
    ver,        \* card -> versions/<id>.json
    pend,       \* the records under operations/pending
    committed,  \* the ids of the records under operations/committed
    jlock,      \* who holds journal.lock across steps
    pc, job, held,
    rec,        \* the record a process is publishing or applying
    queue,      \* prepared records a recovery has read and not yet replayed
    todo,       \* units of work left in the current loop
    acc,        \* what an unfinished snapshot has read so far
    view,       \* per process: the committed snapshots its command goes by
    faults, edits

disk == <<loc, text, ver, pend, committed>>
local == <<pc, job, held, rec, queue, todo, acc, view>>
bounds == <<faults, edits>>
vars == <<disk, jlock, local, bounds>>

-----------------------------------------------------------------------------
(* Records and versions *)

Version == [rev : Nat, op : Op \cup {None}, frozen : BOOLEAN]

Snapshot == [place : Places, text : Content, rev : Nat, frozen : BOOLEAN]

NoView == [c \in Card |-> None]

\* OperationRecord.  Fields of a card or group outside the record hold a
\* fixed filler.
Record == [id : Op, phase : {"prepared", "committed"},
           cards : SUBSET Card, groups : SUBSET Group,
           from : [Card -> Places], to : [Card -> Places],
           before : [Item -> Content], after : [Item -> Content],
           rev : [Card -> Nat]]

\* None stands for a command that has no record and for a card not seen.
ASSUME NoRecord == None \notin Record \cup Proc

Items(r) == r.cards \cup r.groups
Creates(r) == {c \in r.cards : r.from[c] = Absent}
Relocates(r) == {c \in r.cards : r.from[c] # r.to[c]}

Prepared == {r \in pend : r.phase = "prepared"}

\* The loops of applyRecord: every file, then every entry, then every version.
Units(r) == {<<"file", i>> : i \in Items(r) \ Creates(r)}
              \cup {<<"entry", c>> : c \in Relocates(r)}
              \cup {<<"version", c>> : c \in r.cards}

\* Slip: versions written without waiting for the renames.
Before_VersionEarly(kind) == IF kind = "file" THEN {"write"} ELSE {"file"}

\* One file is compared and replaced before the next is read.
Before(kind) == CASE kind = "file" -> {"write"} [] kind = "entry" -> {"file"}
                  [] kind = "version" -> {"file", "entry"}

\* u is what the current loop may take next.
Ready(p, u) == /\ u \in todo[p]
               /\ \A w \in todo[p] : w[1] \notin Before(u[1])

\* validateRecord, for the fields the model keeps.
validateRecord(r) ==
    \A c \in r.cards : \/ r.rev[c] = ver[c].rev + 1
                       \/ r.rev[c] = ver[c].rev /\ ver[c].op = r.id

-----------------------------------------------------------------------------
(* Locks: board.lock, groups, tasks, each set sorted; shared for readers *)

Scope(p) == IF job[p].kind = "scan" THEN {c \in Card : loc[c] # Absent}
                                    ELSE job[p].cards
Need(p) == {BoardLock} \cup job[p].groups \cup Scope(p)

ExclusiveBoard(j) == j.kind \in {"move", "create", "init"}
ReadOnly(j) == j.kind \in {"read", "scan"}

TakesExclusive(j, l) == IF l = BoardLock THEN ExclusiveBoard(j) ELSE ~ReadOnly(j)

Grantable(p, l) == \A q \in Proc \ {p} :
    l \in held[q] => ~TakesExclusive(job[p], l) /\ ~TakesExclusive(job[q], l)

\* Slip: locks taken in whatever order the caller named them.
NextLocks_Unsorted(p) == Need(p) \ held[p]

NextLocks(p) == {l \in Need(p) \ held[p] :
                    \A m \in Need(p) \ held[p] : Rank[l] <= Rank[m]}

\* Closing the lock set ends the command, whatever its result was.
Leave(p, v) ==
    /\ pc' = [pc EXCEPT ![p] = "idle"]
    /\ job' = [job EXCEPT ![p] = None]
    /\ held' = [held EXCEPT ![p] = {}]
    /\ rec' = [rec EXCEPT ![p] = None]
    /\ queue' = [queue EXCEPT ![p] = {}]
    /\ todo' = [todo EXCEPT ![p] = {}]
    /\ acc' = [acc EXCEPT ![p] = NoView]
    /\ view' = [view EXCEPT ![p] = v]

Goto(p, l) == pc' = [pc EXCEPT ![p] = l]

SnapshotOf(c) == [place |-> loc[c], text |-> text[c],
                  rev |-> ver[c].rev, frozen |-> ver[c].frozen]

-----------------------------------------------------------------------------
Init ==
    /\ loc = InitPlace
    /\ text = [i \in Item |-> {}]
    /\ ver = [c \in Card |-> [rev |-> 0, op |-> None,
                              frozen |-> InitPlace[c] \notin {"backlog", Absent}]]
    /\ pend = {} /\ committed = {} /\ jlock = None
    /\ pc = [p \in Proc |-> "idle"]
    /\ job = [p \in Proc |-> None]
    /\ held = [p \in Proc |-> {}]
    /\ rec = [p \in Proc |-> None]
    /\ queue = [p \in Proc |-> {}]
    /\ todo = [p \in Proc |-> {}]
    /\ acc = [p \in Proc |-> NoView]
    /\ view = [p \in Proc |-> NoView]
    /\ faults = 0 /\ edits = 0

Unused == Op \ ({r.id : r \in pend} \cup committed
                  \cup {rec[q].id : q \in {q \in Proc : rec[q] # None}})

\* Bound: commands begin to write only while Op has an id for each of them.
OpsLeft(j) == ReadOnly(j) \/ j.kind = "init" \/
    Cardinality({q \in Proc : pc[q] \in {"lock", "check", "stage"} /\ ~ReadOnly(job[q])})
        < Cardinality(Unused)

(* Begin a command.  Update and move name the revision the caller last saw. *)
Begin(p, j) ==
    /\ pc[p] = "idle"
    /\ j.kind \in {"update", "move"} => \A c \in j.cards : view[p][c] # None
    /\ OpsLeft(j)
    /\ job' = [job EXCEPT ![p] = j]
    /\ Goto(p, "lock")
    /\ UNCHANGED <<disk, jlock, held, rec, queue, todo, acc, view, bounds>>

acquire(p) ==
    /\ pc[p] = "lock"
    /\ \E l \in NextLocks(p) :
        /\ Grantable(p, l)
        /\ held' = [held EXCEPT ![p] = @ \cup {l}]
        /\ Goto(p, IF Need(p) \subseteq held[p] \cup {l} THEN "check" ELSE "lock")
    /\ UNCHANGED <<disk, jlock, job, rec, queue, todo, acc, view, bounds>>

(* The journal is read under a shared journal.lock.  A scan of the board    *)
(* fails on any prepared record, other commands on one that covers a task   *)
(* or a group of their scope.                                               *)
\* Slip: groups left out of the check.
Blocks_TasksOnly(p, r) == job[p].kind = "scan" \/ Scope(p) \cap r.cards # {}

Blocks(p, r) == job[p].kind = "scan" \/ (Scope(p) \cup job[p].groups) \cap Items(r) # {}

RefusePending(p) ==
    /\ pc[p] = "check" /\ job[p].kind # "init" /\ jlock = None
    /\ \E r \in Prepared : Blocks(p, r)
    /\ Leave(p, view[p])
    /\ UNCHANGED <<disk, jlock, bounds>>

pendingContext(p) ==
    /\ pc[p] = "check" /\ job[p].kind # "init" /\ jlock = None
    /\ \A r \in Prepared : ~Blocks(p, r)
    /\ IF ReadOnly(job[p])
       THEN /\ Goto(p, "read")
            /\ todo' = [todo EXCEPT ![p] = {<<"read", c>> : c \in Scope(p)}]
       ELSE Goto(p, "stage") /\ UNCHANGED todo
    /\ UNCHANGED <<disk, jlock, job, held, rec, queue, acc, view, bounds>>

-----------------------------------------------------------------------------
(* Snapshots *)

Merge(p, C, v) == [c \in Card |-> IF c \in C THEN v[c] ELSE view[p][c]]

ReadCard(p, c) ==
    /\ pc[p] = "read" /\ <<"read", c>> \in todo[p]
    /\ todo' = [todo EXCEPT ![p] = @ \ {<<"read", c>>}]
    /\ acc' = [acc EXCEPT ![p][c] = IF loc[c] = Absent THEN None ELSE SnapshotOf(c)]
    /\ UNCHANGED <<disk, jlock, pc, job, held, rec, queue, view, bounds>>

ReadDone(p) ==
    /\ pc[p] = "read" /\ todo[p] = {}
    /\ Leave(p, Merge(p, Scope(p), acc[p]))
    /\ UNCHANGED <<disk, jlock, bounds>>

-----------------------------------------------------------------------------
(* Staging *)

\* Slip: the final state forgotten.
requireNotArchived_Off(c) == TRUE
requireNotArchived(c) == loc[c] # "archived"

Expect(p, c) == ver[c].rev = view[p][c].rev

\* What newTask, UpdateDocument and MoveWithOptions require of a card.
Expected(p) == \A c \in job[p].cards :
    CASE job[p].kind = "create" -> loc[c] = Absent
      [] job[p].kind = "update" -> Expect(p, c) /\ requireNotArchived(c)
      [] OTHER -> /\ Expect(p, c) /\ loc[c] = view[p][c].place
                  /\ requireNotArchived(c) /\ allowedMove(loc[c], job[p].to)

RefuseStale(p) ==
    /\ pc[p] = "stage" /\ ~Expected(p)
    /\ Leave(p, view[p])
    /\ UNCHANGED <<disk, jlock, bounds>>

\* An update publishes the text its caller built on the snapshot it holds; a
\* move edits the text read inside the transaction, and so do group documents.
NewText(p, id, i) ==
    IF i \in Card /\ job[p].kind = "update" THEN view[p][i].text \cup {id}
                                            ELSE text[i] \cup {id}

touch(c) == ver[c].rev + 1

NewRecord(p, id) ==
    LET j == job[p] IN
    [ id |-> id, phase |-> "prepared", cards |-> j.cards, groups |-> j.groups,
      from |-> [c \in Card |-> IF c \in j.cards THEN loc[c] ELSE Absent],
      to |-> [c \in Card |-> IF c \notin j.cards THEN Absent
                             ELSE IF ExclusiveBoard(j) THEN j.to ELSE loc[c]],
      before |-> [i \in Item |-> IF i \in j.cards \cup j.groups THEN text[i] ELSE {}],
      after |-> [i \in Item |-> IF i \in j.cards \cup j.groups
                                THEN NewText(p, id, i) ELSE {}],
      rev |-> [c \in Card |-> IF c \in j.cards THEN touch(c) ELSE 0] ]

Stage(p) ==
    /\ pc[p] = "stage" /\ Expected(p)
    /\ \E id \in Unused : rec' = [rec EXCEPT ![p] = NewRecord(p, id)]
    /\ Goto(p, "publish")
    /\ UNCHANGED <<disk, jlock, job, held, queue, todo, acc, view, bounds>>

(* The write of the record is atomic (temporary file, then rename) and under *)
(* journal.lock.                                                             *)
writeOperation(p) ==
    /\ pc[p] = "publish" /\ jlock = None
    /\ validateRecord(rec[p])
    /\ pend' = pend \cup {rec[p]}
    /\ Goto(p, "apply")
    /\ todo' = [todo EXCEPT ![p] = Units(rec[p])]
    /\ UNCHANGED <<loc, text, ver, committed, jlock, job, held, rec, queue, acc, view, bounds>>

-----------------------------------------------------------------------------
(* applyRecord.  Each step re-reads the disk, so that a record another      *)
(* command left half applied can be replayed from its first step.           *)

Done(p, u) == todo' = [todo EXCEPT ![p] = @ \ {u}]

\* Content equal to the staged bytes is skipped, at the source or, once the
\* rename is done, at the target; anything else must be what was staged over.
\* Slips: a step already done not recognised; the Before image not compared.
Replayed_Never(r, i) == FALSE
Writable_Always(r, i) == TRUE

Replayed(r, i) == text[i] = r.after[i]
Writable(r, i) == text[i] = r.before[i] /\ (i \in Card => loc[i] = r.from[i])

Conflicts(p) ==
    LET r == rec[p] IN
    \/ \E i \in Items(r) : /\ Ready(p, <<"file", i>>)
                           /\ ~Replayed(r, i) /\ ~Writable(r, i)
    \/ \E c \in r.cards : /\ Ready(p, <<"entry", c>>)
                          /\ loc[c] = r.to[c] /\ ~Replayed(r, c)
                          /\ ~(c \in Creates(r) /\ text[c] = {})

RefuseReplay(p) ==
    /\ pc[p] = "apply" /\ Conflicts(p)
    /\ Leave(p, view[p])
    /\ UNCHANGED <<disk, jlock, bounds>>

\* The document is read and compared.  <<"write", i>> stands beside
\* <<"file", i>> from then on: the rename comes next, whatever i holds by then.
compareFile(p, i) ==
    LET r == rec[p] IN
    /\ pc[p] = "apply" /\ Ready(p, <<"file", i>>)
    /\ \/ Replayed(r, i) /\ Done(p, <<"file", i>>)
       \/ /\ ~Replayed(r, i) /\ Writable(r, i)
          /\ todo' = [todo EXCEPT ![p] = @ \cup {<<"write", i>>}]
    /\ UNCHANGED <<disk, jlock, pc, job, held, rec, queue, acc, view, bounds>>

\* WriteTextAtomic over a document that exists: a rename that looks at nothing.
writeFile(p, i) ==
    /\ pc[p] = "apply" /\ <<"write", i>> \in todo[p]
    /\ text' = [text EXCEPT ![i] = rec[p].after[i]]
    /\ todo' = [todo EXCEPT ![p] = @ \ {<<"file", i>>, <<"write", i>>}]
    /\ UNCHANGED <<loc, ver, pend, committed, jlock, pc, job, held, rec, queue, acc, view, bounds>>

applyRename(p, c) ==
    LET r == rec[p] IN
    /\ pc[p] = "apply" /\ Ready(p, <<"entry", c>>) /\ c \notin Creates(r)
    /\ \/ loc[c] = r.to[c] /\ Replayed(r, c) /\ UNCHANGED loc
       \/ loc[c] = r.from[c] /\ loc' = [loc EXCEPT ![c] = r.to[c]]
    /\ Done(p, <<"entry", c>>)
    /\ UNCHANGED <<text, ver, pend, committed, jlock, pc, job, held, rec, queue, acc, view, bounds>>

\* A new card: the directory, then spec.md inside it.
createDirectory(p, c) ==
    /\ pc[p] = "apply" /\ Ready(p, <<"entry", c>>) /\ c \in Creates(rec[p])
    /\ loc[c] = Absent
    /\ loc' = [loc EXCEPT ![c] = rec[p].to[c]]
    /\ UNCHANGED <<text, ver, pend, committed, jlock, local, bounds>>

createSpec(p, c) ==
    LET r == rec[p] IN
    /\ pc[p] = "apply" /\ Ready(p, <<"entry", c>>) /\ c \in Creates(r)
    /\ loc[c] = r.to[c]
    /\ \/ text[c] = {} /\ text' = [text EXCEPT ![c] = r.after[c]]
       \/ Replayed(r, c) /\ UNCHANGED text
    /\ Done(p, <<"entry", c>>)
    /\ UNCHANGED <<loc, ver, pend, committed, jlock, pc, job, held, rec, queue, acc, view, bounds>>

\* Leaving backlog, or moving at all, freezes the contract for good.
Freezes(r, c) == c \in Relocates(r) /\ (r.to[c] # "backlog" \/ r.from[c] # Absent)

applyVersion(p, c) ==
    LET r == rec[p] IN
    /\ pc[p] = "apply" /\ Ready(p, <<"version", c>>)
    /\ \/ ver[c].rev = r.rev[c] /\ UNCHANGED ver
       \/ /\ ver[c].rev + 1 = r.rev[c]
          /\ ver' = [ver EXCEPT ![c] = [rev |-> r.rev[c], op |-> r.id,
                                        frozen |-> @.frozen \/ Freezes(r, c)]]
    /\ Done(p, <<"version", c>>)
    /\ UNCHANGED <<loc, text, pend, committed, jlock, pc, job, held, rec, queue, acc, view, bounds>>

\* commitOperation, under journal.lock: the phase first, then the rename into
\* the committed partition.  A writer's own cursor moves to what it wrote.
commitPhase(p) ==
    /\ pc[p] = "apply" /\ todo[p] = {} /\ jlock = None
    /\ jlock' = p
    /\ pend' = (pend \ {rec[p]}) \cup {[rec[p] EXCEPT !.phase = "committed"]}
    /\ Goto(p, "commit")
    /\ UNCHANGED <<loc, text, ver, committed, job, held, rec, queue, todo, acc, view, bounds>>

commitRename(p) ==
    /\ pc[p] = "commit"
    /\ jlock' = None
    /\ pend' = {r \in pend : r.id # rec[p].id}
    /\ committed' = committed \cup {rec[p].id}
    /\ IF job[p].kind = "init"
       THEN /\ Goto(p, "replay")
            /\ rec' = [rec EXCEPT ![p] = None]
            /\ UNCHANGED <<job, held, queue, todo, acc, view>>
       ELSE Leave(p, Merge(p, rec[p].cards, [c \in Card |-> SnapshotOf(c)]))
    /\ UNCHANGED <<loc, text, ver, bounds>>

-----------------------------------------------------------------------------
(* RecoverTransactions: alone on the board, it reads the journal once, moves *)
(* records that only missed the last rename, replays the prepared ones and   *)
(* stops at the first that fails.                                            *)

operationRecords(p) ==
    /\ pc[p] = "check" /\ job[p].kind = "init" /\ jlock = None
    /\ queue' = [queue EXCEPT ![p] = Prepared]
    /\ pend' = Prepared
    /\ committed' = committed \cup {r.id : r \in pend \ Prepared}
    /\ Goto(p, "replay")
    /\ UNCHANGED <<loc, text, ver, jlock, job, held, rec, todo, acc, view, bounds>>

Replay(p) ==
    /\ pc[p] = "replay"
    /\ \E r \in queue[p] :
        /\ validateRecord(r)
        /\ rec' = [rec EXCEPT ![p] = r]
        /\ queue' = [queue EXCEPT ![p] = @ \ {r}]
        /\ todo' = [todo EXCEPT ![p] = Units(r)]
    /\ Goto(p, "apply")
    /\ UNCHANGED <<disk, jlock, job, held, acc, view, bounds>>

RecoveryDone(p) ==
    /\ pc[p] = "replay" /\ queue[p] = {}
    /\ Leave(p, view[p])
    /\ UNCHANGED <<disk, jlock, bounds>>

-----------------------------------------------------------------------------
(* The environment *)

(* A command stops: an I/O error returned to a caller that keeps its cursor, *)
(* a cancelled wait for a lock, or the death of the process.  The kernel     *)
(* drops its locks; what it wrote stays.                                     *)
Interrupt(p) ==
    /\ pc[p] # "idle" /\ faults < MaxFaults
    /\ faults' = faults + 1
    /\ \E v \in {view[p], NoView} : Leave(p, v)
    /\ jlock' = IF jlock = p THEN None ELSE jlock
    /\ UNCHANGED <<disk, edits>>

\* Someone edits a card's document without kander: no lock, no revision.
ExternalEdit(c) ==
    /\ edits < MaxEdits /\ loc[c] # Absent /\ Foreign \notin text[c]
    /\ edits' = edits + 1
    /\ text' = [text EXCEPT ![c] = @ \cup {Foreign}]
    /\ UNCHANGED <<loc, ver, pend, committed, jlock, local, faults>>

Step(p) ==
    \/ acquire(p) \/ RefusePending(p) \/ pendingContext(p)
    \/ \E c \in Card : ReadCard(p, c)
    \/ ReadDone(p)
    \/ RefuseStale(p) \/ Stage(p) \/ writeOperation(p)
    \/ RefuseReplay(p)
    \/ \E i \in Item : compareFile(p, i) \/ writeFile(p, i)
    \/ \E c \in Card : \/ applyRename(p, c) \/ createDirectory(p, c)
                       \/ createSpec(p, c) \/ applyVersion(p, c)
    \/ commitPhase(p) \/ commitRename(p)
    \/ operationRecords(p) \/ Replay(p) \/ RecoveryDone(p)

Next ==
    \/ \E p \in Proc : Step(p) \/ Interrupt(p) \/ \E j \in Jobs : Begin(p, j)
    \/ \E c \in Card : ExternalEdit(c)

Spec == Init /\ [][Next]_vars

\* The kernel does not starve a lock request for ever, and an operator who sees
\* a prepared record runs init.
Fairness ==
    /\ \A p \in Proc : SF_vars(Step(p))
    /\ SF_vars(\E p \in Proc : Prepared # {} /\ Begin(p, InitJob))

FairSpec == Spec /\ Fairness

-----------------------------------------------------------------------------
(* What the disk will hold once the prepared records are rolled forward *)

Covering(i) == {r \in Prepared : i \in Items(r)}
Cover(i) == CHOOSE r \in Covering(i) : TRUE

RolledText(i) == IF Covering(i) = {} THEN text[i] ELSE Cover(i).after[i]

RolledCard(c) ==
    IF Covering(c) = {} THEN SnapshotOf(c)
    ELSE LET r == Cover(c) IN
         [ place |-> r.to[c], text |-> r.after[c], rev |-> r.rev[c],
           frozen |-> ver[c].frozen \/ Freezes(r, c) ]

Atomic == INSTANCE AtomicCards WITH
    card <- [c \in Card |-> RolledCard(c)],
    group <- [g \in Group |-> RolledText(g)]

-----------------------------------------------------------------------------
(* Properties *)

Unit == ({"file", "write"} \X Item) \cup ({"entry", "version", "read"} \X Card)

DiskType ==
    /\ loc \in [Card -> Places]
    /\ text \in [Item -> Content]
    /\ ver \in [Card -> Version]
    /\ pend \subseteq Record
    /\ committed \subseteq Op
    /\ jlock \in Proc \cup {None}

LocalType ==
    /\ pc \in [Proc -> {"idle", "lock", "check", "read", "stage", "publish",
                        "apply", "commit", "replay"}]
    /\ job \in [Proc -> Jobs \cup {InitJob, None}]
    /\ held \in [Proc -> SUBSET Lock]
    /\ rec \in [Proc -> Record \cup {None}]
    /\ queue \in [Proc -> SUBSET Record]
    /\ todo \in [Proc -> SUBSET Unit]
    /\ acc \in [Proc -> [Card -> Snapshot \cup {None}]]
    /\ view \in [Proc -> [Card -> Snapshot \cup {None}]]

\* Every variable stays in its domain.
TypeOK == /\ DiskType /\ LocalType
          /\ faults \in 0..MaxFaults /\ edits \in 0..MaxEdits

\* No two prepared records ever cover the same card or group, whoever wrote
\* them and whichever command died on the way: recovery may replay them in any
\* order (pendingContext under the task and group locks).
PendingDisjoint ==
    \A r, s \in Prepared : r # s => Items(r) \cap Items(s) = {}

\* Whenever a record is prepared, what is on disk is an interrupted run of it:
\* each document before or after, no rename before the files, no version
\* before the rename.  So the replay never meets bytes it must refuse.
Replayable ==
    \A r \in Prepared :
        /\ \A i \in Items(r) : text[i] \in {r.before[i], r.after[i]}
        /\ \A c \in r.cards :
            /\ loc[c] \in {r.from[c], r.to[c]}
            /\ loc[c] # r.from[c] /\ r.from[c] # Absent =>
                   \A i \in Items(r) \ Creates(r) : text[i] = r.after[i]
            /\ \/ ver[c].rev + 1 = r.rev[c]
               \/ ver[c].rev = r.rev[c] /\ ver[c].op = r.id /\ loc[c] = r.to[c]
                  /\ \A i \in Items(r) : text[i] = r.after[i]

\* p waits for a lock q holds.
WaitsFor(p, q) ==
    \/ /\ pc[p] = "lock"
       /\ \E l \in NextLocks(p) \cap held[q] :
              TakesExclusive(job[p], l) \/ TakesExclusive(job[q], l)
    \/ /\ jlock = q
       /\ \/ pc[p] \in {"check", "publish"}
          \/ pc[p] = "apply" /\ todo[p] = {}

\* The fixed order leaves no set of commands each waiting for another of them.
NoLockCycle ==
    ~ \E S \in (SUBSET Proc) \ {{}} : \A p \in S : \E q \in S \ {p} : WaitsFor(p, q)

\* An edit r was not staged on, in a document that no command has compared and
\* is about to rename over.
Standing(r, i) ==
    Foreign \in text[i] \ r.before[i] /\ \A p \in Proc : <<"write", i>> \notin todo[p]

\* An edit that no replay has already looked past stays as long as the record
\* is prepared: every replay of it stops with a conflict and keeps the bytes,
\* and no rename over them is begun (the Before check of applyRecord).  An edit
\* saved between that check and the rename after it is lost.
EditsSurviveReplay ==
    [][\A r \in Prepared : \A i \in Items(r) :
         Standing(r, i) /\ r \in pend' => Standing(r, i)']_vars

\* The journal implements indivisible operations and instantaneous snapshots.
ImplementsAtomicCards == Atomic!Spec

\* A prepared record always rolls forward once init is run (recovery.go),
\* unless an edit from outside the program stands in its way.
RollsForward == Prepared # {} ~> (Prepared = {} \/ edits > 0)
=============================================================================
