------------------------------- MODULE Reviews -------------------------------
(***************************************************************************)
(* The review archive of a board: plans, batches, runs, findings, author   *)
(* dispositions, closures and the gate before done (internal/board         *)
(* review*.go, snapshot.go) with the commands that drive it                *)
(* (internal/review).                                                      *)
(*                                                                         *)
(* Every archive mutation is one transaction, so it is one action here.    *)
(* `kander review` and `kander review close` span several transactions and *)
(* hold no board lock between them: they are processes with a program      *)
(* counter that may die anywhere.  One required role and one reviewer; a   *)
(* report has at most one must-fix item.  Commits are a line 0 .. MaxCommit*)
(* on which ancestry is <=; the worktree only moves forward.               *)
(***************************************************************************)
EXTENDS Integers, Sequences, SequencesExt, FiniteSets

CONSTANTS Task, Batch, Run, Proc, None,
          MaxCommit,    \* commits the executors may make
          Base,         \* commits a request may name as a batch's base
          MaxCycle,     \* execution cycles of a card
          MaxRecords,   \* disposition records an author appends per finding
          Report,       \* reports a reviewer may hand in
          Legacy        \* also start from a plan whose target drifted

ASSUME ReviewAssumption ==
    /\ MaxCommit \in Nat \ {0} /\ MaxCycle \in Nat /\ MaxRecords \in Nat \ {0}
    /\ Report \subseteq {"clean", "must", "prose"}
    /\ Legacy \in BOOLEAN /\ Base \subseteq 0 .. MaxCommit
    /\ Batch # {} /\ Task # {}
    /\ None \notin Run \cup Batch \cup Task

VARIABLES card,       \* [Task -> [place, cycle]]
          plan,       \* the review plan of the cards, or None
          batch,      \* [Batch -> runtime batch or None]
          run,        \* [Run -> run.json or None]
          reading,    \* [Run -> the receiver's interpretation or None]
          ledger,     \* [Run -> assignment and author records or None]
          closure,    \* [Batch -> closure or None]
          head,       \* HEAD of the task worktree
          proc,       \* [Proc -> what the command is doing, or None]
          launches    \* [Run -> reviewers started under this run ID]

archive == <<plan, batch, run, reading, ledger, closure>>
vars == <<card, archive, head, proc, launches>>

Commit == 0 .. MaxCommit
Bounded == {"clean", "must"}        \* findings a structured reading can hold

\* What the archive's files hold: ReviewPlan, ReviewBatch, ReviewRun, the ledger
\* of a run's findings, and what a review command knows of its own run.
EntryRecord == [id : Batch, tasks : SUBSET Task, base : Commit, target : Commit,
                prev : Batch \cup {None}]
PlanRecord == [sealed : BOOLEAN, cycles : [Task -> Nat], batches : Seq(EntryRecord)]
BatchRecord == [tasks : SUBSET Task, base : Commit, target : Commit, planned : BOOLEAN,
                prev : Batch \cup {None}]
RunRecord == [batch : Batch, commit : Commit, prev : Run \cup {None},
              phase : {"prepared", "launching", "running", "finalized"},
              status : {"incomplete", "failed", "ok", "interrupted"},
              report : Report \cup {"none"}, published : SUBSET Task]
AnswerRecord == [status : {"confirmed", "rejected", "fixed"}, fix : Nat, mech : BOOLEAN]
LedgerRecord == [owners : SUBSET Task, records : [Task -> Seq(AnswerRecord)]]
Reviewer == [run : Run, pc : {"intent", "started", "running", "failed", "publish"}]

\* None stands for a file that is not there, and for a command that does not run.
ASSUME NoRecord ==
    /\ None \notin PlanRecord /\ None \notin BatchRecord /\ None \notin RunRecord
    /\ None \notin LedgerRecord /\ None \notin Reviewer /\ None \notin Bounded

-----------------------------------------------------------------------------
(* What the records say. *)

Member(t) == card[t].place \in {"working", "review"}

RunsOf(b) == {r \in Run : run[r] # None /\ run[r].batch = b}
Ok(r) == run[r].status = "ok"

\* allPublished and a frozen original: the run may be consumed.
Settled(r) == run[r].phase = "finalized" /\ run[r].published = batch[run[r].batch].tasks

settledReviewBatch(b) == \A r \in RunsOf(b) : Settled(r)

\* Findings of an ok run: the structured block, else the receiver's reading.
runFindings(r) == IF run[r].report = "prose" THEN reading[r] ELSE run[r].report
Pending(r) == runFindings(r) = None

\* Every assigned owner has an author record.
ledgerComplete(r) ==
    IF ledger[r] = None THEN FALSE
    ELSE \A t \in ledger[r].owners : ledger[r].records[t] # <<>>

Planned == IF plan = None THEN <<>> ELSE plan.batches
EntryOf(b) == SelectInSeq(Planned, LAMBDA e : e.id = b)

\* batchPlan: the plan lists the batch with the same binding and target.
batchPlan(b) ==
    batch[b].planned =>
        /\ EntryOf(b) # 0
        /\ Planned[EntryOf(b)] =
              [id |-> b, tasks |-> batch[b].tasks, base |-> batch[b].base,
               target |-> batch[b].target, prev |-> batch[b].prev]

\* aggregateReviewBatch: the view and whether it can be built.
View(b) == [batch |-> batch[b],
            runs |-> [r \in RunsOf(b) |->
                        [run |-> run[r], reading |-> reading[r], ledger |-> ledger[r]]]]

Aggregates(b) ==
    /\ batchPlan(b) /\ settledReviewBatch(b)
    /\ \A r \in RunsOf(b) : Ok(r) /\ ~Pending(r) => ledgerComplete(r)

Open(b) == closure[b] = None

\* Slip: the base of a batch need not be where the one before it ended.
previousClosed_AnyBase(prev, base) ==
    prev # None => \A i \in 1 .. EntryOf(prev) : ~Open(Planned[i].id)

\* validatePreviousClosure of a batch that follows entry `prev` from `base`:
\* the whole chain is closed and its evidence still reads the same.
previousClosed(prev, base) ==
    prev # None =>
        /\ ~Open(prev)
        /\ closure[prev].target = base
        /\ \A i \in 1 .. EntryOf(prev) :
              LET b == Planned[i].id IN
              ~Open(b) /\ Aggregates(b) /\ View(b) = closure[b].view

-----------------------------------------------------------------------------
(* ReviewClosureEdges: which requests close a view. *)

\* The conclusion run and its predecessors: whatever holds the run and the
\* predecessor of each of its members.
Chain(v, r) ==
    LET Linked(S) == r \in S /\ \A x \in S : v.runs[x].run.prev \in S \cup {None}
    IN {x \in DOMAIN v.runs : \A S \in SUBSET DOMAIN v.runs : Linked(S) => x \in S}

OkRuns(v) == {r \in DOMAIN v.runs : v.runs[r].run.status = "ok"}
FindingsIn(v, r) ==
    IF v.runs[r].run.report = "prose" THEN v.runs[r].reading ELSE v.runs[r].run.report
Answers(v, r) ==
    LET l == v.runs[r].ledger IN {Last(l.records[t]) : t \in l.owners}

\* A successful run outside the chain is only ever a parallel duplicate.
superseded(v, chain, last, r) ==
    /\ \/ \E twin \in chain : /\ v.runs[twin].run.commit = v.runs[r].run.commit
                              /\ v.runs[twin].run.prev = v.runs[r].run.prev
       \/ /\ v.runs[r].run.prev \in OkRuns(v) \ chain
          /\ v.runs[r].run.commit = v.runs[last].run.commit
    /\ \E twin \in chain \cap OkRuns(v) : v.runs[r].run.commit <= v.runs[twin].run.commit

failureResolved(v, chain, r) ==
    \E x \in chain \cap OkRuns(v) : v.runs[r].run.commit <= v.runs[x].run.commit

mechanicalFix(v, last) == \E a \in Answers(v, last) : a.status = "fixed" /\ a.mech

\* Slip: a mechanical fix of any round needs no further look.
fixCovered_Mechanical(v, last, passedAt, r, a) == a.mech \/ a.fix <= v.runs[last].run.commit
fixCovered(v, last, passedAt, r, a) ==
    IF r = last THEN a.mech /\ a.fix <= passedAt
    ELSE a.fix <= v.runs[last].run.commit

ReviewClosureEdges(v, last, passedAt) ==
    /\ last \in OkRuns(v)
    /\ \A r \in OkRuns(v) : FindingsIn(v, r) # None
    /\ \A r \in DOMAIN v.runs : v.runs[r].run.prev # last
    /\ v.batch.base <= v.batch.target
    /\ v.runs[last].run.commit <= passedAt /\ passedAt <= v.batch.target
    /\ LET chain == Chain(v, last) IN
       /\ \A r \in OkRuns(v) \ chain : superseded(v, chain, last, r)
       /\ \A r \in DOMAIN v.runs \ OkRuns(v) : failureResolved(v, chain, r)
    /\ \A r \in OkRuns(v) : \A a \in Answers(v, r) :
          /\ a.status # "confirmed"
          /\ a.status = "fixed" =>
                /\ v.runs[r].run.commit < a.fix /\ a.fix <= v.batch.target
                /\ fixCovered(v, last, passedAt, r, a)
    /\ passedAt # v.runs[last].run.commit => mechanicalFix(v, last)

-----------------------------------------------------------------------------
Drifted(b) ==   \* a plan written before advances rewrote its target
    /\ plan = [sealed |-> FALSE, cycles |-> [t \in Task |-> 0],
               batches |-> <<[id |-> b, tasks |-> Task, base |-> 0, target |-> 0, prev |-> None]>>]
    /\ batch = [x \in Batch |-> IF x = b
                  THEN [tasks |-> Task, base |-> 0, target |-> 1,
                        planned |-> TRUE, prev |-> None]
                  ELSE None]

Init ==
    /\ card = [t \in Task |-> [place |-> "working", cycle |-> 0]]
    /\ \/ plan = None /\ batch = [b \in Batch |-> None]
       \/ Legacy /\ \E b \in Batch : Drifted(b)
    /\ run = [r \in Run |-> None]
    /\ reading = [r \in Run |-> None]
    /\ ledger = [r \in Run |-> None]
    /\ closure = [b \in Batch |-> None]
    /\ head = 1
    /\ proc = [p \in Proc |-> None]
    /\ launches = [r \in Run |-> 0]

-----------------------------------------------------------------------------
(* The plan. *)

\* A chain of batches; a batch that runs already opened is adopted when it agrees.
PlanOf(ids, tasks, base, target, sealed) ==
    LET prev(i) == IF i = 1 THEN None ELSE ids[i-1]
        entry(i) == [id |-> ids[i], tasks |-> tasks[i], base |-> base[i],
                     target |-> target[i], prev |-> prev(i)]
        fresh(i) == [tasks |-> tasks[i], base |-> base[i], target |-> target[i],
                     planned |-> TRUE, prev |-> prev(i)]
    IN /\ \A i \in 1 .. Len(ids) : base[i] <= target[i]
       /\ sealed => UNION {tasks[i] : i \in 1 .. Len(ids)} = Task
       /\ \A i \in 1 .. Len(ids) :
             LET b == batch[ids[i]] IN
             b # None => /\ ~b.planned /\ b.tasks = tasks[i]
                         /\ b.base = base[i] /\ b.target = target[i]
       /\ plan' = [sealed |-> sealed, cycles |-> [t \in Task |-> card[t].cycle],
                   batches |-> [i \in 1 .. Len(ids) |-> entry(i)]]
       /\ batch' = [b \in Batch |->
             IF \E i \in 1 .. Len(ids) : ids[i] = b
             THEN fresh(CHOOSE i \in 1 .. Len(ids) : ids[i] = b)
             ELSE batch[b]]

\* createReviewPlan, over working or review cards.
CreateReviewPlan ==
    /\ plan = None
    /\ \A t \in Task : Member(t)
    /\ \E ids \in {s \in SeqOf(Batch, 2) : s # <<>> /\ IsInjective(s)} :
       \E tasks \in [1 .. Len(ids) -> (SUBSET Task) \ {{}}], base \in [1 .. Len(ids) -> Base],
          target \in [1 .. Len(ids) -> 0 .. head], sealed \in BOOLEAN :
            PlanOf(ids, tasks, base, target, sealed)
    /\ UNCHANGED <<card, run, reading, ledger, closure, head, proc, launches>>

\* Slip: only a plan ahead of its cards is noticed.
CyclesChanged_Ahead == {t \in Task : plan.cycles[t] > card[t].cycle}
CyclesChanged == {t \in Task : plan.cycles[t] # card[t].cycle}

\* ExtendReviewPlan with a batch: only after the last planned batch closed, and
\* from its final target.  The request may seal the plan in the same step.
ExtendBatch ==
    /\ plan # None /\ ~plan.sealed /\ CyclesChanged = {}
    /\ \A t \in Task : Member(t)
    /\ \E b \in Batch, tasks \in (SUBSET Task) \ {{}}, base \in Commit, target \in 0 .. head,
          seal \in BOOLEAN :
         LET prev == Last(plan.batches).id
             entry == [id |-> b, tasks |-> tasks, base |-> base, target |-> target, prev |-> prev]
         IN /\ batch[b] = None /\ base <= target
            /\ previousClosed(prev, base)
            /\ seal => UNION {e.tasks : e \in ToSet(plan.batches) \cup {entry}} = Task
            /\ plan' = [plan EXCEPT !.batches = Append(@, entry), !.sealed = seal]
            /\ batch' = [batch EXCEPT ![b] = [tasks |-> tasks, base |-> base, target |-> target,
                                              planned |-> TRUE, prev |-> prev]]
    /\ UNCHANGED <<card, run, reading, ledger, closure, head, proc, launches>>

SealPlan ==
    /\ plan # None /\ ~plan.sealed /\ CyclesChanged = {}
    /\ \A t \in Task : Member(t)
    /\ UNION {e.tasks : e \in ToSet(plan.batches)} = Task
    /\ plan' = [plan EXCEPT !.sealed = TRUE]
    /\ UNCHANGED <<card, batch, run, reading, ledger, closure, head, proc, launches>>

\* A sealed plan still follows its cards into new cycles, terminal ones excepted.
RebindCycles ==
    /\ plan # None /\ CyclesChanged # {}
    /\ \A t \in Task : Member(t) \/ t \notin CyclesChanged
    /\ plan' = [plan EXCEPT !.cycles = [t \in Task |-> card[t].cycle]]
    /\ UNCHANGED <<card, batch, run, reading, ledger, closure, head, proc, launches>>

SyncTargets ==
    /\ plan # None /\ CyclesChanged = {}
    /\ \E i \in 1 .. Len(plan.batches) :
         /\ plan.batches[i].target # batch[plan.batches[i].id].target
         /\ plan' = [plan EXCEPT !.batches[i].target = batch[plan.batches[i].id].target]
    /\ UNCHANGED <<card, batch, run, reading, ledger, closure, head, proc, launches>>

\* Slip: the plan keeps the old target.
retarget_BatchOnly(b, target) == batch' = [batch EXCEPT ![b].target = target] /\ plan' = plan

\* The batch's new target, and syncPlannedBatchTarget in the same transaction.
retarget(b, target) ==
    /\ batch' = [batch EXCEPT ![b].target = target]
    /\ IF batch[b].planned
       THEN /\ plan.batches[EntryOf(b)].target = batch[b].target
            /\ plan' = [plan EXCEPT !.batches[EntryOf(b)].target = target]
       ELSE plan' = plan

\* `review advance`: Git was checked at a clean HEAD before the transaction, so
\* the target is some commit HEAD has reached.
AdvanceReviewBatch(b, target) ==
    /\ IF batch[b] = None THEN FALSE
       ELSE batch[b].planned /\ batch[b].target < target /\ target <= head
    /\ Open(b) /\ settledReviewBatch(b)
    /\ retarget(b, target)
    /\ UNCHANGED <<card, run, reading, ledger, closure, head, proc, launches>>

-----------------------------------------------------------------------------
(* `kander review`: one process holds the lock of its run ID from the look-up *)
(* to the exit; the operating system frees it when the process dies.          *)

\* Slip: the run ID is not locked.
RunLockFree_Always(r) == TRUE
RunLockFree(r) == \A p \in Proc : proc[p] # None => proc[p].run # r
Reviewing(r, pc) == [run |-> r, pc |-> pc]
At(p, pc) == IF proc[p] = None THEN FALSE ELSE proc[p].pc = pc
Goto(p, pc) == proc' = [proc EXCEPT ![p].pc = pc]

\* An incremental run needs a published predecessor whose findings are answered.
Predecessor(r, b, commit) ==
    /\ run[r] # None
    /\ run[r].batch = b /\ Settled(r) /\ Ok(r) /\ run[r].commit < commit
    /\ Aggregates(b) /\ ~Pending(r) /\ ledgerComplete(r)

Intent(b, prev) ==
    [batch |-> b, commit |-> head, prev |-> prev, phase |-> "prepared",
     status |-> "incomplete", report |-> "none", published |-> {}]

\* PrepareReviewRun for an unused ID: the commit is HEAD (a HEAD that moves in
\* between only makes the run fail its last check).  It may open the batch, or
\* advance it, in the same transaction.
PrepareReviewRun(p, r, b, prev) ==
    /\ proc[p] = None /\ RunLockFree(r) /\ run[r] = None
    /\ IF batch[b] = None
       THEN /\ prev = None
            /\ \E tasks \in (SUBSET Task) \ {{}}, base \in Base :
                 /\ base <= head /\ \A t \in tasks : Member(t)
                 /\ batch' = [batch EXCEPT ![b] = [tasks |-> tasks, base |-> base, target |-> head,
                                planned |-> FALSE, prev |-> None]]
            /\ plan' = plan
       ELSE /\ \A t \in batch[b].tasks : Member(t)
            /\ batch[b].base <= head
            /\ batch[b].planned => batchPlan(b) /\ previousClosed(batch[b].prev, batch[b].base)
            /\ prev # None => Predecessor(prev, b, head)
            /\ IF head = batch[b].target THEN UNCHANGED <<plan, batch>>
               ELSE /\ batch[b].target < head /\ settledReviewBatch(b)
                    /\ retarget(b, head)
    /\ Open(b)
    /\ run' = [run EXCEPT ![r] = Intent(b, prev)]
    /\ proc' = [proc EXCEPT ![p] = Reviewing(r, "intent")]
    /\ UNCHANGED <<card, reading, ledger, closure, head, launches>>

\* UpdateReviewRun refuses a finalized run; the command then gives up.
Phase(r, to) == run[r].phase # "finalized" /\ run' = [run EXCEPT ![r].phase = to]
GivesUp(p, r) == run[r].phase = "finalized" /\ run' = run /\ Goto(p, "failed")

\* The intent says launching before the reviewer is started; it may not start.
Launch(p) ==
    LET r == proc[p].run IN
    /\ At(p, "intent")
    /\ \/ GivesUp(p, r) /\ UNCHANGED launches
       \/ Phase(r, "launching") /\ Goto(p, "started") /\ launches' = [launches EXCEPT ![r] = @ + 1]
       \/ Phase(r, "launching") /\ Goto(p, "failed") /\ UNCHANGED launches
    /\ UNCHANGED <<card, plan, batch, reading, ledger, closure, head>>

Running(p) ==
    LET r == proc[p].run IN
    /\ At(p, "started")
    /\ GivesUp(p, r) \/ (Phase(r, "running") /\ Goto(p, "running"))
    /\ UNCHANGED <<card, plan, batch, reading, ledger, closure, head, launches>>

\* The reviewer is reaped, HEAD is compared and the originals are frozen: the
\* run is ok only with a report and an unmoved worktree.
Outcomes(p, r) ==
    {[status |-> "failed", report |-> "none"]} \cup
    IF At(p, "running") /\ head = run[r].commit
    THEN {[status |-> "ok", report |-> f] : f \in Report} ELSE {}

FinalizeReviewRun(p) ==
    LET r == proc[p].run IN
    /\ At(p, "running") \/ At(p, "failed")
    /\ IF run[r].phase = "finalized" THEN proc' = [proc EXCEPT ![p] = None] /\ run' = run
       ELSE /\ \E o \in Outcomes(p, r) :
                 run' = [run EXCEPT ![r].phase = "finalized", ![r].report = o.report,
                                    ![r].status = o.status]
            /\ Goto(p, "publish")
    /\ UNCHANGED <<card, plan, batch, reading, ledger, closure, head, launches>>

\* The same command with a used ID: never a launch.  An unfinished intent of a
\* command that died is finalized as interrupted; then publication resumes.
Recover(p, r) ==
    /\ proc[p] = None /\ RunLockFree(r) /\ run[r] # None
    /\ \A t \in batch[run[r].batch].tasks : Member(t)
    /\ run' = IF run[r].phase = "finalized" THEN run
              ELSE [run EXCEPT ![r].phase = "finalized", ![r].status = "interrupted"]
    /\ proc' = [proc EXCEPT ![p] = Reviewing(r, "publish")]
    /\ UNCHANGED <<card, plan, batch, reading, ledger, closure, head, launches>>

\* PublishReviewRun commits each card on its own.
PublishReviewRun(p, t) ==
    LET r == proc[p].run IN
    /\ At(p, "publish")
    /\ t \in batch[run[r].batch].tasks \ run[r].published
    /\ Member(t) /\ batchPlan(run[r].batch)
    /\ run' = [run EXCEPT ![r].published = @ \cup {t}]
    /\ UNCHANGED <<card, plan, batch, reading, ledger, closure, head, proc, launches>>

\* The command returns from a step that ends it, or dies anywhere.
Leave(p) ==
    /\ proc[p] # None
    /\ proc' = [proc EXCEPT ![p] = None]
    /\ UNCHANGED <<card, archive, head, launches>>

-----------------------------------------------------------------------------
(* Findings: reading, attribution and the authors' answers. *)

\* Slip: the successful run is checked, its batch is not (reviewRunForConsumption).
Mutable_Closed(r) == run[r] # None /\ Ok(r) /\ Settled(r) /\ batchPlan(run[r].batch)

Mutable(r) ==      \* reviewRunForMutation
    /\ run[r] # None
    /\ Ok(r) /\ Settled(r) /\ batchPlan(run[r].batch) /\ Open(run[r].batch)

InterpretReview(r, f) ==
    /\ Mutable(r) /\ run[r].report = "prose" /\ reading[r] = None
    /\ reading' = [reading EXCEPT ![r] = f]
    /\ UNCHANGED <<card, plan, batch, run, ledger, closure, head, proc, launches>>

AssignReviewFindings(r, owners) ==
    /\ Mutable(r) /\ ~Pending(r) /\ ledger[r] = None
    /\ owners \subseteq batch[run[r].batch].tasks
    /\ (owners # {}) <=> (runFindings(r) = "must")
    /\ ledger' = [ledger EXCEPT ![r] = [owners |-> owners, records |-> [t \in Task |-> <<>>]]]
    /\ UNCHANGED <<card, plan, batch, run, reading, closure, head, proc, launches>>

Answer == {[status |-> s, fix |-> 0, mech |-> FALSE] : s \in {"confirmed", "rejected"}}
          \cup {[status |-> "fixed", fix |-> c, mech |-> m] : c \in 1 .. head, m \in BOOLEAN}

SubmitReviewDisposition(r, t, a) ==
    /\ Mutable(r) /\ card[t].place = "working"
    /\ IF ledger[r] = None THEN FALSE
       ELSE t \in ledger[r].owners /\ Len(ledger[r].records[t]) < MaxRecords
    /\ ledger' = [ledger EXCEPT ![r].records[t] = Append(@, a)]
    /\ UNCHANGED <<card, plan, batch, run, reading, closure, head, proc, launches>>

-----------------------------------------------------------------------------
(* `review close`: the view is read and the request checked against it, Git   *)
(* is asked with no lock held, and the closing transaction demands the very   *)
(* view that was read (its digest) once more.                                 *)

CloseRead(p, b, last, passedAt) ==
    /\ proc[p] = None /\ batch[b] # None /\ Aggregates(b) /\ head = batch[b].target
    /\ ReviewClosureEdges(View(b), last, passedAt)
    /\ proc' = [proc EXCEPT ![p] = [run |-> None, pc |-> "close", batch |-> b, last |-> last,
                                    passedAt |-> passedAt, view |-> View(b)]]
    /\ UNCHANGED <<card, archive, head, launches>>

SameView(p, b) == View(b) = proc[p].view

CloseReviewBatch(p) ==
    LET b == proc[p].batch IN
    /\ At(p, "close")
    /\ batch[b].planned /\ batchPlan(b) /\ CyclesChanged = {}
    /\ previousClosed(batch[b].prev, batch[b].base)
    /\ Aggregates(b) /\ SameView(p, b)
    /\ ReviewClosureEdges(View(b), proc[p].last, proc[p].passedAt)
    /\ Open(b)
    /\ closure' = [closure EXCEPT ![b] = [view |-> View(b), target |-> batch[b].target,
                                          last |-> proc[p].last, passedAt |-> proc[p].passedAt]]
    /\ proc' = [proc EXCEPT ![p] = None]
    /\ UNCHANGED <<card, plan, batch, run, reading, ledger, head, launches>>

-----------------------------------------------------------------------------
(* The cards. *)

Covered(t) == plan.sealed /\ \E e \in ToSet(plan.batches) : t \in e.tasks

\* validateTaskReview for completion.
Gate(t) ==
    /\ plan # None
    /\ \A r \in Run : run[r] # None => EntryOf(run[r].batch) # 0
    /\ CyclesChanged = {}
    /\ Covered(t)
    /\ \A i \in 1 .. Len(plan.batches) :
         LET b == plan.batches[i].id IN
         /\ batchPlan(b) /\ ~Open(b) /\ Aggregates(b) /\ View(b) = closure[b].view
         /\ i > 1 => plan.batches[i].base = plan.batches[i-1].target

Place(t, from, to) ==
    /\ card[t].place = from
    /\ card' = [card EXCEPT ![t].place = to]
    /\ UNCHANGED <<archive, head, proc, launches>>

Deliver(t) == Place(t, "working", "review")
Rework(t)  == Place(t, "review", "working")
MoveDone(t) == \E from \in {"working", "review"} : Place(t, from, "done") /\ Gate(t)

\* A reclaim from review gives the card a new execution cycle.
Reclaim(t) ==
    /\ card[t].place = "review" /\ card[t].cycle < MaxCycle
    /\ card' = [card EXCEPT ![t] = [place |-> "working", cycle |-> @.cycle + 1]]
    /\ UNCHANGED <<archive, head, proc, launches>>

\* Executors commit; nothing holds the worktree during a review.
NewCommit ==
    /\ head < MaxCommit
    /\ head' = head + 1
    /\ UNCHANGED <<card, archive, proc, launches>>

-----------------------------------------------------------------------------
Review(p) ==
    \/ \E r \in Run, b \in Batch, prev \in Run \cup {None} : PrepareReviewRun(p, r, b, prev)
    \/ Launch(p) \/ Running(p) \/ FinalizeReviewRun(p)
    \/ \E r \in Run : Recover(p, r)
    \/ \E t \in Task : PublishReviewRun(p, t)
    \/ Leave(p)
    \/ \E b \in Batch, last \in Run, passedAt \in Commit : CloseRead(p, b, last, passedAt)
    \/ CloseReviewBatch(p)

Record ==
    \/ CreateReviewPlan \/ ExtendBatch \/ SealPlan \/ RebindCycles \/ SyncTargets
    \/ \E b \in Batch, target \in Commit : AdvanceReviewBatch(b, target)
    \/ \E r \in Run, f \in Bounded : InterpretReview(r, f)
    \/ \E r \in Run, owners \in SUBSET Task : AssignReviewFindings(r, owners)
    \/ \E r \in Run, t \in Task, a \in Answer : SubmitReviewDisposition(r, t, a)

Move == \E t \in Task : Deliver(t) \/ Rework(t) \/ MoveDone(t) \/ Reclaim(t)

Next == (\E p \in Proc : Review(p)) \/ Record \/ Move \/ NewCommit

Spec == Init /\ [][Next]_vars

-----------------------------------------------------------------------------
(* Properties. *)

\* What a closure froze is what the archive says for ever: no run, advance,
\* reading, attribution or answer that races `review close` gets in behind it
\* (review_closure.go:486, reviewRunForMutation).
ClosureFrozen == \A b \in Batch : ~Open(b) => View(b) = closure[b].view

\* Closed batches of a plan form an unbroken chain of ranges from its first
\* base: each starts at the final target of the one before it
\* (validatePreviousClosure).
ClosuresChain ==
    \A i \in 2 .. Len(Planned) : ~Open(Planned[i].id) =>
        LET prev == Planned[i-1].id IN
        ~Open(prev) /\ closure[prev].target = Planned[i].base

\* One run ID starts one reviewer at most, and a run is called interrupted only
\* when no command is still carrying it out (LockReviewRun, recover).
Executing(p, r) == proc[p] # None /\ proc[p].run = r /\ proc[p].pc # "publish"
ReviewedOnce ==
    \A r \in Run :
        /\ launches[r] <= 1
        /\ run[r] # None => (run[r].status = "interrupted" => \A p \in Proc : ~Executing(p, r))

\* What a closed batch promises, read off the originals: every report was read,
\* every owner answered, nothing confirmed stays open, every fix lies in the
\* closed range and was seen by a later successful review unless it is a
\* mechanical fix of the concluding round, every failed run was made good, and
\* no second full first round hides behind the concluding one
\* (rules/snippets/orchestrate-review.md:66-68).
Reviewed(c) ==
    LET v == c.view
        ok == OkRuns(v)
        answers(r) == {Last(v.runs[r].ledger.records[t]) : t \in v.runs[r].ledger.owners}
    IN /\ ok # {}
       /\ \A r \in ok : \A t \in v.runs[r].ledger.owners : v.runs[r].ledger.records[t] # <<>>
       /\ \A r \in ok : \A a \in answers(r) :
             \/ a.status = "rejected"
             \/ /\ a.status = "fixed" /\ v.runs[r].run.commit < a.fix /\ a.fix <= c.target
                /\ \/ r = c.last /\ a.mech
                   \/ \E x \in ok \ {r} : a.fix <= v.runs[x].run.commit
       /\ \A r \in DOMAIN v.runs : \E x \in ok : v.runs[r].run.commit <= v.runs[x].run.commit
       /\ \A r, x \in ok : v.runs[r].run.prev = None /\ v.runs[x].run.prev = None
                              => v.runs[r].run.commit = v.runs[x].run.commit

FixesReviewed == \A b \in Batch : ~Open(b) => Reviewed(closure[b])

\* A card that is done stays reviewed: its plan is sealed, names its execution
\* cycle, and every batch of it is closed, whatever its other members do later
\* (review_gate.go:46).
DoneReviewed ==
    \A t \in Task : card[t].place = "done" =>
        /\ plan # None
        /\ plan.sealed /\ plan.cycles[t] = card[t].cycle
        /\ \A e \in ToSet(plan.batches) : ~Open(e.id)

\* No step makes the plan and a runtime batch disagree on the target: only a
\* plan written before advances rewrote it may, until it is synchronised
\* (syncPlannedBatchTarget, extend-plan with sync_targets).
Agree(b) == batch[b] # None => batchPlan(b)
KeepsTargets == \A b \in Batch : Agree(b) => Agree(b)'
TargetsAgree == [][KeepsTargets]_vars

=============================================================================
