-------------------------------- MODULE Prune --------------------------------
(***************************************************************************)
(* The cleanup of archived cards (internal/board/prune.go): evidence and   *)
(* control records that only settled cards need are removed under the      *)
(* exclusive board lock, outside the journal, one file or tree at a time,  *)
(* and a crash or an I/O failure may come between any two of them.         *)
(*                                                                         *)
(* The evidence graph (which run belongs to which batch, which batch to    *)
(* which plan, and the predecessors) is any well-formed one: archived      *)
(* cards are final, so nothing can be added to the part a round removes.   *)
(* A review gate holds its run lock for as long as its reviewer runs, and  *)
(* takes the board lock only after it; the round does it the other way     *)
(* round, with a bounded try.                                              *)
(***************************************************************************)
EXTENDS Integers, FiniteSets

CONSTANTS Card, Run, Batch, Plan, None,
          Grouped,      \* cards whose document names the one task group
          Later,        \* cards that are created while the others exist
          Evidence,     \* evidence graphs a board starts with
          MaxFaults     \* crashes, failed removals and unreadable documents

ASSUME PruneAssumption ==
    /\ Grouped \subseteq Card /\ Later \subseteq Card /\ Later # Card
    /\ MaxFaults \in Nat /\ IsFiniteSet(Card)
    /\ None \notin Run \cup Batch \cup Plan

VARIABLES graph,      \* [run, batch, plan]: who belongs to what
          place,      \* [Card -> open, archived, trash or absent]
          gates,      \* runs whose execution lock a review gate holds
          record,     \* [Run -> state of its directory in the review group]
          batches, plans,   \* records that exist
          copies,     \* [Card -> runs with a copy below the card]
          taskPlans,  \* cards with a task-plans record
          checkpoint, \* the coordinator checkpoint of the group exists
          receipts,   \* [Card -> runs its receipt says were removed]
          pending,    \* an archive has left a cleanup intent
          faults,
          \* the round that holds the board lock:
          phase,      \* idle, plan or remove
          hidden,     \* cards it could not read
          locks,      \* run locks it holds until it ends
          going,      \* records it is going to remove
          todo,       \* <<stage, item>> it has not come to
          failed      \* a removal has failed

evidence == <<record, batches, plans, copies, taskPlans, checkpoint>>
board == <<graph, place, pending>>
cleanup == <<phase, hidden, locks, going, todo, failed>>
vars == <<board, gates, evidence, receipts, faults, cleanup>>

\* "partial": run.json is gone and the directory is not.
RunStates == {"whole", "partial", "gone"}

-----------------------------------------------------------------------------
(* The evidence graph. *)

Existing == Card \ Later

RunsIn(g, b) == {r \in Run : g.run[r].batch = b}

WellFormed(g) ==
    /\ \A r \in Run :
        /\ g.run[r].prev # r
        /\ g.run[r].prev # None => g.run[r].prev \in RunsIn(g, g.run[r].batch)
    /\ \A b \in Batch :
        /\ g.batch[b].prev # b
        /\ g.batch[b].plan # None => g.batch[b].tasks \subseteq g.plan[g.batch[b].plan]
        /\ g.batch[b].prev # None =>
              g.batch[g.batch[b].prev].plan = g.batch[b].plan
    /\ \A p, q \in Plan : p # q => g.plan[p] \cap g.plan[q] = {}

Graphs ==
    {g \in [run   : [Run -> [batch : Batch, prev : Run \cup {None}]],
            batch : [Batch -> [tasks : (SUBSET Existing) \ {{}},
                               plan : Plan \cup {None}, prev : Batch \cup {None}]],
            plan  : [Plan -> (SUBSET Existing) \ {{}}]] : WellFormed(g)}

ASSUME EvidenceAssumption == Evidence \subseteq Graphs

RunTasks(r) == graph.batch[graph.run[r].batch].tasks
PlansOf(c) == {p \in Plan : c \in graph.plan[p]}

NoRecords == [runs |-> {}, batches |-> {}, plans |-> {}]

Init ==
    /\ graph \in Evidence
    /\ place = [c \in Card |-> IF c \in Later THEN "absent" ELSE "open"]
    /\ gates = {} /\ record = [r \in Run |-> "whole"]
    /\ batches = Batch /\ plans = Plan
    /\ copies = [c \in Card |-> {r \in Run : c \in RunTasks(r)}]
    /\ taskPlans = UNION {graph.plan[p] : p \in Plan}
    /\ checkpoint = TRUE
    /\ receipts = [c \in Card |-> {}] /\ pending = FALSE
    /\ faults = 0 /\ phase = "idle" /\ hidden = {} /\ locks = {}
    /\ going = NoRecords /\ todo = {} /\ failed = FALSE

-----------------------------------------------------------------------------
(* What a round decides to remove, from one snapshot of the board: H are   *)
(* the cards it cannot read, busy the runs whose lock it did not get.      *)

\* Slip: an unreadable member no longer keeps its group from settling.
settledGroup_Hidden(H) ==
    \A c \in Grouped \ H : place[c] \in {"archived", "trash", "absent"}
settledGroup(H) ==
    /\ H = {}
    /\ \A c \in Grouped : place[c] \in {"archived", "trash", "absent"}

settled(c, H) ==
    /\ place[c] = "archived" /\ c \notin H
    /\ c \in Grouped => settledGroup(H)

allSettled(C, H) == C # {} /\ \A c \in C : settled(c, H)

Runs == {r \in Run : record[r] = "whole"}

Candidates(H) ==
    LET P == {p \in plans : allSettled(graph.plan[p], H)}
        B == {b \in batches : /\ allSettled(graph.batch[b].tasks, H)
                              /\ graph.batch[b].plan \in plans => graph.batch[b].plan \in P}
    IN [plans |-> P, batches |-> B,
        runs |-> {r \in Runs : /\ allSettled(RunTasks(r), H)
                               /\ graph.run[r].batch \in batches => graph.run[r].batch \in B}]

Unlocked(d, busy) == [d EXCEPT !.runs = @ \ busy]

\* A kept record keeps what it names, and what belongs to it.
KeepsRun(d, r) ==
    \/ \E q \in Runs \ d.runs : graph.run[q].prev = r
    \/ graph.run[r].batch \in batches \ d.batches

KeepsBatch(d, b) ==
    \/ \E q \in Runs \ d.runs : graph.run[q].batch = b
    \/ \E q \in batches \ d.batches : graph.batch[q].prev = b
    \/ graph.batch[b].plan \in plans \ d.plans

\* Slip: a kept batch no longer keeps its plan.
KeepsPlan_Never(d, p) == FALSE
KeepsPlan(d, p) == \E q \in batches \ d.batches : graph.batch[q].plan = p

-----------------------------------------------------------------------------
(* Cards move and gates run while no round holds the board lock. *)

BoardFree == phase = "idle"

\* A committed move into archived/ stages the intent in its own transaction.
Archive(c) ==
    /\ BoardFree /\ place[c] = "open"
    /\ place' = [place EXCEPT ![c] = "archived"] /\ pending' = TRUE
    /\ UNCHANGED <<graph, gates, evidence, receipts, faults, cleanup>>

Trash(c) ==
    /\ BoardFree /\ place[c] = "open"
    /\ place' = [place EXCEPT ![c] = "trash"]
    /\ UNCHANGED <<graph, pending, gates, evidence, receipts, faults, cleanup>>

Create(c) ==
    /\ BoardFree /\ place[c] = "absent"
    /\ place' = [place EXCEPT ![c] = "open"]
    /\ UNCHANGED <<graph, pending, gates, evidence, receipts, faults, cleanup>>

\* LockReviewRun: the run lock comes first and asks for no board lock.
LockReviewRun(r) ==
    /\ r \notin gates \cup locks
    /\ gates' = gates \cup {r}
    /\ UNCHANGED <<board, evidence, receipts, faults, cleanup>>

GateEnds(r) ==
    /\ r \in gates /\ gates' = gates \ {r}
    /\ UNCHANGED <<board, evidence, receipts, faults, cleanup>>

-----------------------------------------------------------------------------
(* The round: after an archive move, or inside init. *)

\* The stages of the removal, in this order.
Receipts == 1
Copies == 2
RunTrees == 3
BatchFiles == 4
PlanFiles == 5
TaskPlans == 6
Checkpoint == 7

Present == {c \in Card : place[c] # "absent"}

BeginRound(H) ==
    /\ phase = "idle" /\ (\E c \in Card : place[c] = "archived")
    /\ faults + Cardinality(H) <= MaxFaults
    /\ faults' = faults + Cardinality(H)
    /\ phase' = "plan" /\ hidden' = H
    /\ locks' = Candidates(H).runs \ gates
    /\ going' = Unlocked(Candidates(H), gates)
    /\ UNCHANGED <<board, gates, evidence, receipts, todo, failed>>

\* The loop of planPrune keeps records one by one, in the order of Go maps,
\* which is any order.
KeepRun(r) ==
    /\ phase = "plan" /\ r \in going.runs /\ KeepsRun(going, r)
    /\ going' = [going EXCEPT !.runs = @ \ {r}]
    /\ UNCHANGED <<board, gates, evidence, receipts, faults, phase, hidden, locks, todo, failed>>

KeepBatch(b) ==
    /\ phase = "plan" /\ b \in going.batches /\ KeepsBatch(going, b)
    /\ going' = [going EXCEPT !.batches = @ \ {b}]
    /\ UNCHANGED <<board, gates, evidence, receipts, faults, phase, hidden, locks, todo, failed>>

KeepPlan(p) ==
    /\ phase = "plan" /\ p \in going.plans /\ KeepsPlan(going, p)
    /\ going' = [going EXCEPT !.plans = @ \ {p}]
    /\ UNCHANGED <<board, gates, evidence, receipts, faults, phase, hidden, locks, todo, failed>>

\* No rule keeps anything more.
FixedPoint(d) ==
    /\ \A r \in d.runs : ~KeepsRun(d, r)
    /\ \A b \in d.batches : ~KeepsBatch(d, b)
    /\ \A p \in d.plans : ~KeepsPlan(d, p)

Touched(R) == {c \in Card : \E r \in R : c \in RunTasks(r)}

\* The pointers of cards whose plan goes or is gone, and the checkpoint of a
\* group that has settled.
LoosePointers == {c \in taskPlans : settled(c, hidden) /\ PlansOf(c) \cap plans \subseteq going.plans}

LooseCheckpoint ==
    {x \in {"checkpoint"} : /\ checkpoint /\ settledGroup(hidden)
                            /\ allSettled(Grouped \cap Existing, hidden)}

Decide ==
    /\ phase = "plan" /\ FixedPoint(going)
    /\ phase' = "remove"
    /\ todo' = UNION { {Receipts, Copies} \X Touched(going.runs), {RunTrees} \X going.runs,
                       {BatchFiles} \X going.batches, {PlanFiles} \X going.plans,
                       {TaskPlans} \X LoosePointers, {Checkpoint} \X LooseCheckpoint }
    /\ UNCHANGED <<board, gates, evidence, receipts, faults, hidden, locks, going, failed>>

\* Slip: removals do not wait for the receipts.
Turn_ReceiptsLast(k, x) ==
    /\ phase = "remove" /\ <<k, x>> \in todo
    /\ \A t \in todo : t[1] >= k \/ t[1] = Receipts
Turn(k, x) ==
    /\ phase = "remove" /\ <<k, x>> \in todo
    /\ \A t \in todo : t[1] >= k

Did(k, x) ==
    /\ todo' = todo \ {<<k, x>>}
    /\ UNCHANGED <<phase, hidden, locks, going, failed>>

WriteReceipt(c) ==
    /\ Turn(Receipts, c) /\ Did(Receipts, c)
    /\ receipts' = [receipts EXCEPT ![c] = @ \cup {r \in going.runs : c \in RunTasks(r)}]
    /\ UNCHANGED <<board, gates, evidence, faults>>

RemoveCopies(c) ==
    /\ Turn(Copies, c) /\ Did(Copies, c)
    /\ copies' = [copies EXCEPT ![c] = @ \ going.runs]
    /\ UNCHANGED <<board, gates, record, batches, plans, taskPlans, checkpoint, receipts, faults>>

\* removeTree: the files one by one, run.json among them, then the directory.
RemoveRunJSON(r) ==
    /\ Turn(RunTrees, r) /\ record[r] = "whole"
    /\ record' = [record EXCEPT ![r] = "partial"]
    /\ UNCHANGED <<board, gates, batches, plans, copies, taskPlans, checkpoint, receipts, faults, cleanup>>

RemoveRunDirectory(r) ==
    /\ Turn(RunTrees, r) /\ record[r] = "partial" /\ Did(RunTrees, r)
    /\ record' = [record EXCEPT ![r] = "gone"]
    /\ UNCHANGED <<board, gates, batches, plans, copies, taskPlans, checkpoint, receipts, faults>>

RemoveBatch(b) ==
    /\ Turn(BatchFiles, b) /\ Did(BatchFiles, b)
    /\ batches' = batches \ {b}
    /\ UNCHANGED <<board, gates, record, plans, copies, taskPlans, checkpoint, receipts, faults>>

RemovePlan(p) ==
    /\ Turn(PlanFiles, p) /\ Did(PlanFiles, p)
    /\ plans' = plans \ {p}
    /\ UNCHANGED <<board, gates, record, batches, copies, taskPlans, checkpoint, receipts, faults>>

RemoveTaskPlan(c) ==
    /\ Turn(TaskPlans, c) /\ Did(TaskPlans, c)
    /\ taskPlans' = taskPlans \ {c}
    /\ UNCHANGED <<board, gates, record, batches, plans, copies, checkpoint, receipts, faults>>

RemoveCheckpoint ==
    /\ Turn(Checkpoint, "checkpoint") /\ Did(Checkpoint, "checkpoint")
    /\ checkpoint' = FALSE
    /\ UNCHANGED <<board, gates, record, batches, plans, copies, taskPlans, receipts, faults>>

\* A removal fails and keeps its item; the round goes on with the others.
RemovalFails(k, x) ==
    /\ faults < MaxFaults /\ faults' = faults + 1
    /\ k # Receipts /\ Turn(k, x)
    /\ todo' = todo \ {<<k, x>>} /\ failed' = TRUE
    /\ UNCHANGED <<board, gates, evidence, receipts, phase, hidden, locks, going>>

Release ==
    /\ phase' = "idle" /\ hidden' = {} /\ locks' = {}
    /\ going' = NoRecords /\ todo' = {} /\ failed' = FALSE

\* The intents go last, and only when nothing failed.
EndRound ==
    /\ phase = "remove" /\ todo = {} /\ Release
    /\ pending' = (pending /\ failed)
    /\ UNCHANGED <<graph, place, gates, evidence, receipts, faults>>

\* A crash, or the failure of a receipt: the round ends where it is.
Interrupt ==
    /\ phase # "idle" /\ Release
    /\ faults < MaxFaults /\ faults' = faults + 1
    /\ UNCHANGED <<board, gates, evidence, receipts>>

Next ==
    \/ \E c \in Card : \/ Archive(c) \/ Trash(c) \/ Create(c)
                       \/ WriteReceipt(c) \/ RemoveCopies(c) \/ RemoveTaskPlan(c)
    \/ \E r \in Run : \/ LockReviewRun(r) \/ GateEnds(r)
                      \/ KeepRun(r) \/ RemoveRunJSON(r) \/ RemoveRunDirectory(r)
    \/ \E b \in Batch : KeepBatch(b) \/ RemoveBatch(b)
    \/ \E p \in Plan : KeepPlan(p) \/ RemovePlan(p)
    \/ \E H \in SUBSET Present : Cardinality(H) < 2 /\ BeginRound(H)
    \/ Decide \/ RemoveCheckpoint
    \/ \E t \in todo : RemovalFails(t[1], t[2])
    \/ EndRound \/ Interrupt

Spec == Init /\ [][Next]_vars

-----------------------------------------------------------------------------
(* Properties. *)

TypeOK ==
    /\ graph \in Evidence /\ place \in [Card -> {"open", "archived", "trash", "absent"}]
    /\ gates \subseteq Run /\ record \in [Run -> RunStates]
    /\ batches \subseteq Batch /\ plans \subseteq Plan
    /\ copies \in [Card -> SUBSET Run] /\ receipts \in [Card -> SUBSET Run]
    /\ taskPlans \subseteq Card /\ checkpoint \in BOOLEAN
    /\ pending \in BOOLEAN /\ faults \in 0 .. MaxFaults
    /\ phase \in {"idle", "plan", "remove"} /\ failed \in BOOLEAN
    /\ hidden \subseteq Card /\ locks \subseteq Run
    /\ going \in [runs : SUBSET Run, batches : SUBSET Batch, plans : SUBSET Plan]
    /\ todo \subseteq (Receipts .. Checkpoint) \X (Card \cup Run \cup Batch \cup Plan \cup {"checkpoint"})
    /\ going.runs \subseteq locks

\* What a reader of the records relies on, stated without the loop: a set of
\* records may go when the cards of each are settled, the lock of each run is
\* held, and no record that stays names one that goes or belongs to one.
Removable(d) ==
    /\ \A r \in d.runs :
        /\ allSettled(RunTasks(r), hidden) /\ r \in locks
        /\ graph.run[r].batch \in batches => graph.run[r].batch \in d.batches
    /\ \A b \in d.batches :
        /\ allSettled(graph.batch[b].tasks, hidden)
        /\ graph.batch[b].plan \in plans => graph.batch[b].plan \in d.plans
    /\ \A p \in d.plans : allSettled(graph.plan[p], hidden)
    /\ \A r \in Runs \ d.runs :
        graph.run[r].batch \notin d.batches /\ graph.run[r].prev \notin d.runs
    /\ \A b \in batches \ d.batches :
        graph.batch[b].plan \notin d.plans /\ graph.batch[b].prev \notin d.batches

RecordSets == [runs : SUBSET Runs, batches : SUBSET batches, plans : SUBSET plans]

Within(d, e) ==
    d.runs \subseteq e.runs /\ d.batches \subseteq e.batches /\ d.plans \subseteq e.plans

\* Whatever the order of its steps, the loop of planPrune ends in the largest
\* set that may go: nothing still needed is removed, nothing else is left
\* (docs/review-evidence.md, "this is iterated to a fixed point").
PlanExact ==
    phase = "plan" /\ FixedPoint(going) =>
        /\ Removable(going)
        /\ \A d \in RecordSets : Removable(d) => Within(d, going)

\* The run, its batch and plan and the card's own copy are there, and so is
\* its predecessor, which is not removed either.
Intact(c, r) ==
    /\ record[r] = "whole" /\ r \in copies[c]
    /\ graph.run[r].prev # None =>
          record[graph.run[r].prev] = "whole" /\ graph.run[r].prev \notin receipts[c]
    /\ graph.run[r].batch \in batches
    /\ LET p == graph.batch[graph.run[r].batch].plan IN p # None => p \in plans

\* Whatever was interrupted or failed, and whoever joined a group since, a
\* run that check looks up for a card is there with all it refers to, unless
\* the receipt of that card says it was removed: CheckReviewEvidence reports
\* no card as damaged because of a cleanup.
Accounted ==
    \A r \in Run : \A c \in RunTasks(r) : r \in receipts[c] \/ Intact(c, r)

\* A step removes a record only when every card it is about is settled at
\* that moment, and no tree of a run whose gate is still running.
OnlySettled ==
    /\ \A r \in Run : record'[r] # record[r] => allSettled(RunTasks(r), {}) /\ r \notin gates
    /\ \A b \in batches \ batches' : allSettled(graph.batch[b].tasks, {})
    /\ \A p \in plans \ plans' : allSettled(graph.plan[p], {})
    /\ \A c \in Card : copies'[c] # copies[c] \/ c \in taskPlans \ taskPlans' => settled(c, {})
    /\ checkpoint /\ ~checkpoint' => settledGroup({})

\* A round removes nothing a live card, a running gate or an unsettled group
\* still needs, although it judges the board once and removes for a while.
LiveKept == [][OnlySettled]_vars

\* The cleanup after an interrupted one "recomputes the same set and finishes
\* it" (docs/review-evidence.md): when a round ends without a failure and
\* removes the intents, no half-removed run is left.
RoundFinishes ==
    [][ phase # "idle" /\ phase' = "idle" /\ ~failed /\ faults' = faults
            => \A r \in Run : record'[r] # "partial" ]_vars

=============================================================================
