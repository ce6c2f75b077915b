----------------------------- MODULE PruneProofs -----------------------------
(***************************************************************************)
(* The cleanup proved for every evidence graph and every number of cards,  *)
(* runs, batches, plans, rounds and failures.                              *)
(***************************************************************************)
EXTENDS Prune, FiniteSetTheorems, TLAPS

Stages == Receipts .. Checkpoint
Items == Card \cup Run \cup Batch \cup Plan \cup {"checkpoint"}

USE DEF Receipts, Copies, RunTrees, BatchFiles, PlanFiles, TaskPlans, Checkpoint

-----------------------------------------------------------------------------
(* Type correctness. *)

LEMMA GraphShape ==
    ASSUME graph \in Evidence
    PROVE  /\ graph.run \in [Run -> [batch : Batch, prev : Run \cup {None}]]
           /\ graph.batch \in [Batch -> [tasks : (SUBSET Existing) \ {{}},
                                         plan : Plan \cup {None}, prev : Batch \cup {None}]]
           /\ graph.plan \in [Plan -> (SUBSET Existing) \ {{}}]
           /\ WellFormed(graph)
  BY EvidenceAssumption DEF Graphs

LEMMA Members ==
    ASSUME graph \in Evidence
    PROVE  /\ \A r \in Run : RunTasks(r) \subseteq Card
           /\ \A b \in Batch : graph.batch[b].tasks \subseteq Card
           /\ \A p \in Plan : graph.plan[p] \subseteq Card
  <1>1. \A r \in Run : graph.run[r].batch \in Batch
    BY GraphShape
  <1>2. \A b \in Batch : graph.batch[b].tasks \in SUBSET Existing
    BY GraphShape
  <1>3. \A p \in Plan : graph.plan[p] \in SUBSET Existing
    BY GraphShape
  <1> QED BY <1>1, <1>2, <1>3 DEF RunTasks, Existing

\* The well-formedness of a state: the values of every variable.
THEOREM TypeCorrect == Spec => []TypeOK
  <1>1. Init => TypeOK
    <2> SUFFICES ASSUME Init PROVE TypeOK OBVIOUS
    <2>1. copies \in [Card -> SUBSET Run] /\ taskPlans \subseteq Card
      BY Members DEF Init
    <2>2. faults \in 0 .. MaxFaults BY PruneAssumption DEF Init
    <2>3. /\ going \in [runs : SUBSET Run, batches : SUBSET Batch, plans : SUBSET Plan]
          /\ going.runs \subseteq locks
      BY DEF Init, NoRecords
    <2>4. /\ place \in [Card -> {"open", "archived", "trash", "absent"}]
          /\ record \in [Run -> RunStates] /\ receipts \in [Card -> SUBSET Run]
      BY DEF Init, RunStates
    <2> QED BY <2>1, <2>2, <2>3, <2>4 DEF Init, TypeOK
  <1>2. TypeOK /\ [Next]_vars => TypeOK'
    <2> SUFFICES ASSUME TypeOK, [Next]_vars PROVE TypeOK' OBVIOUS
    <2> USE DEF TypeOK
    <2>1. ASSUME NEW c \in Card, Archive(c) \/ Trash(c) \/ Create(c) PROVE TypeOK'
      BY <2>1 DEF Archive, Trash, Create, evidence, cleanup
    <2>2. ASSUME NEW c \in Card, WriteReceipt(c) PROVE TypeOK'
      BY <2>2 DEF WriteReceipt, Did, evidence, board
    <2>3. ASSUME NEW c \in Card, RemoveCopies(c) PROVE TypeOK'
      BY <2>3 DEF RemoveCopies, Did, board
    <2>4. ASSUME NEW c \in Card, RemoveTaskPlan(c) PROVE TypeOK'
      BY <2>4 DEF RemoveTaskPlan, Did, board
    <2>5. ASSUME NEW r \in Run, LockReviewRun(r) \/ GateEnds(r) PROVE TypeOK'
      BY <2>5 DEF LockReviewRun, GateEnds, evidence, cleanup, board
    <2>6. ASSUME NEW r \in Run, KeepRun(r) PROVE TypeOK'
      BY <2>6 DEF KeepRun, evidence, board
    <2>7. ASSUME NEW r \in Run, RemoveRunJSON(r) \/ RemoveRunDirectory(r) PROVE TypeOK'
      BY <2>7 DEF RemoveRunJSON, RemoveRunDirectory, Did, board, cleanup, RunStates
    <2>8. ASSUME NEW b \in Batch, KeepBatch(b) PROVE TypeOK'
      BY <2>8 DEF KeepBatch, evidence, board
    <2>9. ASSUME NEW b \in Batch, RemoveBatch(b) PROVE TypeOK'
      BY <2>9 DEF RemoveBatch, Did, board
    <2>10. ASSUME NEW p \in Plan, KeepPlan(p) PROVE TypeOK'
      BY <2>10 DEF KeepPlan, evidence, board
    <2>11. ASSUME NEW p \in Plan, RemovePlan(p) PROVE TypeOK'
      BY <2>11 DEF RemovePlan, Did, board
    <2>12. ASSUME NEW H \in SUBSET Present, BeginRound(H) PROVE TypeOK'
      <3>1. IsFiniteSet(H) /\ H \subseteq Card
        BY PruneAssumption, FS_Subset DEF Present
      <3>2. Cardinality(H) \in Nat BY <3>1, FS_CardinalityType
      <3>3. faults' \in 0 .. MaxFaults BY <2>12, <3>2, PruneAssumption DEF BeginRound
      <3>4. /\ going' \in [runs : SUBSET Run, batches : SUBSET Batch, plans : SUBSET Plan]
            /\ locks' \subseteq Run /\ going'.runs \subseteq locks'
        BY <2>12 DEF BeginRound, Unlocked, Candidates, Runs
      <3> QED BY <2>12, <3>1, <3>3, <3>4 DEF BeginRound, evidence, board
    <2>13. CASE Decide
      <3>1. Touched(going.runs) \subseteq Card /\ LoosePointers \subseteq Card
            /\ LooseCheckpoint \subseteq {"checkpoint"}
        BY DEF Touched, LoosePointers, LooseCheckpoint
      <3>2. todo' \subseteq Stages \X Items
        <4> SUFFICES ASSUME NEW t \in todo' PROVE t \in Stages \X Items OBVIOUS
        <4>1. \/ t \in {Receipts, Copies} \X Touched(going.runs)
              \/ t \in {RunTrees} \X going.runs
              \/ t \in {BatchFiles} \X going.batches
              \/ t \in {PlanFiles} \X going.plans
              \/ t \in {TaskPlans} \X LoosePointers
              \/ t \in {Checkpoint} \X LooseCheckpoint
          BY <2>13 DEF Decide
        <4>2. CASE t \in {Receipts, Copies} \X Touched(going.runs)
          BY <4>2, <3>1 DEF Stages, Items
        <4>3. CASE t \in {RunTrees} \X going.runs
          BY <4>3 DEF Stages, Items
        <4>4. CASE t \in {BatchFiles} \X going.batches
          BY <4>4 DEF Stages, Items
        <4>5. CASE t \in {PlanFiles} \X going.plans
          BY <4>5 DEF Stages, Items
        <4>6. CASE t \in {TaskPlans} \X LoosePointers
          BY <4>6, <3>1 DEF Stages, Items
        <4>7. CASE t \in {Checkpoint} \X LooseCheckpoint
          <5>1. PICK x \in LooseCheckpoint : t = <<Checkpoint, x>> BY <4>7
          <5>2. x \in Items BY <5>1, <3>1 DEF Items
          <5>3. Checkpoint \in Stages BY DEF Stages
          <5> QED BY <5>1, <5>2, <5>3
        <4> QED BY <4>1, <4>2, <4>3, <4>4, <4>5, <4>6, <4>7
      <3>3. phase' = "remove"
            /\ UNCHANGED <<board, gates, evidence, receipts, faults, hidden, locks, going, failed>>
        BY <2>13 DEF Decide
      <3> QED BY <3>2, <3>3 DEF evidence, board, Stages, Items
    <2>14. CASE RemoveCheckpoint
      BY <2>14 DEF RemoveCheckpoint, Did, board
    <2>15. ASSUME NEW t \in todo, RemovalFails(t[1], t[2]) PROVE TypeOK'
      BY <2>15, PruneAssumption DEF RemovalFails, evidence, board
    <2>16. CASE EndRound
      BY <2>16 DEF EndRound, Release, NoRecords, evidence
    <2>17. CASE Interrupt
      <3>1. faults' \in 0 .. MaxFaults BY <2>17, PruneAssumption DEF Interrupt
      <3> QED BY <2>17, <3>1 DEF Interrupt, Release, NoRecords, evidence, board
    <2>18. CASE UNCHANGED vars
      BY <2>18 DEF vars, board, evidence, cleanup
    <2> QED BY <2>1, <2>2, <2>3, <2>4, <2>5, <2>6, <2>7, <2>8, <2>9, <2>10, <2>11, <2>12,
               <2>13, <2>14, <2>15, <2>16, <2>17, <2>18 DEF Next
  <1> QED BY <1>1, <1>2, PTL DEF Spec

-----------------------------------------------------------------------------
(* What a round is going to remove. *)

\* No gate runs under a lock the round holds.
Held == gates \cap locks = {}

\* Every record that is going is one of settled cards only.
Chosen ==
    phase # "idle" =>
        /\ \A r \in going.runs : allSettled(RunTasks(r), hidden)
        /\ \A b \in going.batches : allSettled(graph.batch[b].tasks, hidden)
        /\ \A p \in going.plans : allSettled(graph.plan[p], hidden)

\* The items left to do belong to records that are going.
Work ==
    /\ phase # "remove" => todo = {}
    /\ \A t \in todo :
        /\ t[1] \in {Receipts, Copies} => t[2] \in Touched(going.runs)
        /\ t[1] = RunTrees => t[2] \in going.runs
        /\ t[1] = BatchFiles => t[2] \in going.batches
        /\ t[1] = PlanFiles => t[2] \in going.plans
        /\ t[1] = TaskPlans => settled(t[2], hidden)
        /\ t[1] = Checkpoint => settledGroup(hidden)

\* While the loop runs, every set that may go is within what is going.
Greatest ==
    phase = "plan" =>
        /\ going \in RecordSets
        /\ \A d \in RecordSets : Removable(d) => Within(d, going)

RoundInv == Held /\ Chosen /\ Work /\ Greatest

LEMMA InitRound == Init => RoundInv
  BY DEF Init, RoundInv, Held, Chosen, Work, Greatest, NoRecords

\* A step of a card or a gate outside a round.
LEMMA OutsideRound ==
    ASSUME TypeOK, RoundInv,
           \/ \E c \in Card : Archive(c) \/ Trash(c) \/ Create(c)
           \/ EndRound \/ Interrupt
    PROVE  RoundInv'
  <1>1. /\ phase' = "idle" /\ todo' = {} /\ gates' = gates
        /\ locks' = locks \/ locks' = {}
    BY DEF Archive, Trash, Create, BoardFree, EndRound, Interrupt, Release, cleanup,
           RoundInv, Work
  <1> QED BY <1>1 DEF RoundInv, Held, Chosen, Work, Greatest

\* Equal boards judge a card alike.
LEMMA SettledFrame ==
    ASSUME UNCHANGED <<graph, place, hidden>>
    PROVE  /\ \A c : settled(c, hidden)' = settled(c, hidden)
           /\ settledGroup(hidden)' = settledGroup(hidden)
           /\ \A C : allSettled(C, hidden)' = allSettled(C, hidden)
           /\ \A r : RunTasks(r)' = RunTasks(r)
  BY DEF settled, settledGroup, allSettled, RunTasks

LEMMA GateRound ==
    ASSUME TypeOK, RoundInv, NEW r \in Run, LockReviewRun(r) \/ GateEnds(r)
    PROVE  RoundInv'
  <1>1. UNCHANGED <<board, evidence, cleanup>> /\ gates' \cap locks = {}
    BY DEF LockReviewRun, GateEnds, RoundInv, Held
  <1>2. UNCHANGED <<graph, place, hidden, locks, going, todo, phase, record, batches, plans>>
    BY <1>1 DEF board, evidence, cleanup
  <1>3. Held' /\ Chosen' /\ Work'
    BY <1>1, <1>2 DEF RoundInv, Held, Chosen, Work, settled, settledGroup, allSettled,
       RunTasks, Touched
  <1>4. Greatest'
    <2>1. RecordSets' = RecordSets BY <1>2 DEF RecordSets, Runs
    <2>2. \A d : Removable(d)' = Removable(d)
      BY <1>2 DEF Removable, Runs, settled, settledGroup, allSettled, RunTasks
    <2> QED BY <1>2, <2>1, <2>2 DEF RoundInv, Greatest, Within
  <1> QED BY <1>3, <1>4 DEF RoundInv

LEMMA BeginRoundRound ==
    ASSUME TypeOK, RoundInv, NEW H, BeginRound(H)
    PROVE  RoundInv'
  <1> DEFINE d == Candidates(H)
  <1>1. /\ phase' = "plan" /\ hidden' = H /\ locks' = d.runs \ gates
        /\ going' = [d EXCEPT !.runs = @ \ gates]
        /\ UNCHANGED <<graph, place, gates, record, batches, plans, todo>> /\ todo = {}
    BY DEF BeginRound, Unlocked, board, evidence, RoundInv, Work
  <1>2. /\ d = [plans |-> d.plans, batches |-> d.batches, runs |-> d.runs]
        /\ \A p : p \in d.plans <=> p \in plans /\ allSettled(graph.plan[p], H)
        /\ \A b : b \in d.batches <=>
              /\ b \in batches /\ allSettled(graph.batch[b].tasks, H)
              /\ graph.batch[b].plan \in plans => graph.batch[b].plan \in d.plans
        /\ \A r : r \in d.runs <=>
              /\ r \in Runs /\ allSettled(RunTasks(r), H)
              /\ graph.run[r].batch \in batches => graph.run[r].batch \in d.batches
    BY DEF Candidates
  <1> HIDE DEF d
  <1>3. /\ going' = [plans |-> d.plans, batches |-> d.batches, runs |-> d.runs \ gates]
        /\ going'.runs = d.runs \ gates /\ going'.batches = d.batches /\ going'.plans = d.plans
    BY <1>1, <1>2
  <1>4. Held' BY <1>1 DEF Held
  <1>5. Chosen'
    BY <1>1, <1>2, <1>3 DEF Chosen, settled, settledGroup, allSettled, RunTasks
  <1>6. Work' BY <1>1 DEF Work
  <1>7. Greatest'
    <2>1. RecordSets' = RecordSets BY <1>1 DEF RecordSets, Runs
    <2>2. going' \in RecordSets
      BY <1>2, <1>3 DEF RecordSets, Runs
    <2>3. ASSUME NEW e \in RecordSets, Removable(e)' PROVE Within(e, going')
      <3>1. /\ \A r \in e.runs : r \in d.runs \ gates
            /\ \A b \in e.batches : allSettled(graph.batch[b].tasks, H)
                 /\ (graph.batch[b].plan \in plans => graph.batch[b].plan \in e.plans)
            /\ \A p \in e.plans : allSettled(graph.plan[p], H)
        BY <2>3, <1>1 DEF Removable, settled, settledGroup, allSettled, RunTasks
      <3>2. e.plans \subseteq d.plans
        BY <3>1, <1>2 DEF RecordSets
      <3>3. e.batches \subseteq d.batches
        BY <3>1, <3>2, <1>2 DEF RecordSets
      <3> QED BY <3>1, <3>2, <3>3, <1>3 DEF Within
    <2> QED BY <2>1, <2>2, <2>3, <1>3 DEF Greatest, Within
  <1> QED BY <1>4, <1>5, <1>6, <1>7 DEF RoundInv

\* A step of the loop: what it keeps is in no set that may go.
LEMMA KeepRound ==
    ASSUME TypeOK, RoundInv,
           \/ \E r \in Run : KeepRun(r)
           \/ \E b \in Batch : KeepBatch(b)
           \/ \E p \in Plan : KeepPlan(p)
    PROVE  RoundInv'
  <1>1. /\ phase = "plan" /\ phase' = phase
        /\ UNCHANGED <<graph, place, gates, hidden, locks, todo, record, batches, plans>>
    BY DEF KeepRun, KeepBatch, KeepPlan, board, evidence
  <1>2. /\ going' \in RecordSets
        /\ Within(going', going)
    BY DEF KeepRun, KeepBatch, KeepPlan, RoundInv, Greatest, RecordSets, Within, TypeOK
  <1>3. Held' /\ Work'
    BY <1>1 DEF RoundInv, Held, Work
  <1>4. Chosen'
    BY <1>1, <1>2 DEF RoundInv, Chosen, Within, settled, settledGroup, allSettled, RunTasks
  <1>5. ASSUME NEW e \in RecordSets, Removable(e) PROVE Within(e, going')
    <2>1. Within(e, going) BY <1>5, <1>1 DEF RoundInv, Greatest
    <2>2. /\ Runs \ going.runs \subseteq Runs \ e.runs
          /\ batches \ going.batches \subseteq batches \ e.batches
          /\ plans \ going.plans \subseteq plans \ e.plans
      BY <2>1 DEF Within
    <2>3. ASSUME NEW r \in Run, KeepRun(r) PROVE Within(e, going')
      <3>1. r \notin e.runs
        BY <2>3, <2>2, <1>5 DEF KeepRun, KeepsRun, Removable
      <3> QED BY <3>1, <2>1, <2>3 DEF KeepRun, Within, TypeOK
    <2>4. ASSUME NEW b \in Batch, KeepBatch(b) PROVE Within(e, going')
      <3>1. b \notin e.batches
        BY <2>4, <2>2, <1>5 DEF KeepBatch, KeepsBatch, Removable
      <3> QED BY <3>1, <2>1, <2>4 DEF KeepBatch, Within, TypeOK
    <2>5. ASSUME NEW p \in Plan, KeepPlan(p) PROVE Within(e, going')
      <3>1. p \notin e.plans
        BY <2>5, <2>2, <1>5 DEF KeepPlan, KeepsPlan, Removable
      <3> QED BY <3>1, <2>1, <2>5 DEF KeepPlan, Within, TypeOK
    <2> QED BY <2>3, <2>4, <2>5
  <1>6. Greatest'
    <2>1. RecordSets' = RecordSets BY <1>1 DEF RecordSets, Runs
    <2>2. \A d : Removable(d)' = Removable(d)
      BY <1>1 DEF Removable, Runs, settled, settledGroup, allSettled, RunTasks
    <2> QED BY <2>1, <2>2, <1>2, <1>5 DEF Greatest, Within
  <1> QED BY <1>3, <1>4, <1>6 DEF RoundInv

LEMMA DecideRound ==
    ASSUME TypeOK, RoundInv, Decide
    PROVE  RoundInv'
  <1>1. /\ phase' = "remove"
        /\ UNCHANGED <<graph, place, gates, hidden, locks, going, record, batches, plans>>
    BY DEF Decide, board, evidence
  <1>2. Held' BY <1>1 DEF RoundInv, Held
  <1>3. Chosen'
    BY <1>1 DEF Decide, RoundInv, Chosen, settled, settledGroup, allSettled, RunTasks
  <1>4. Work'
    <2>1. ASSUME NEW t \in todo'
          PROVE  /\ t[1] \in {Receipts, Copies} => t[2] \in Touched(going.runs)
                 /\ t[1] = RunTrees => t[2] \in going.runs
                 /\ t[1] = BatchFiles => t[2] \in going.batches
                 /\ t[1] = PlanFiles => t[2] \in going.plans
                 /\ t[1] = TaskPlans => settled(t[2], hidden)
                 /\ t[1] = Checkpoint => settledGroup(hidden)
      <3>1. \/ t \in {Receipts, Copies} \X Touched(going.runs)
            \/ t \in {RunTrees} \X going.runs
            \/ t \in {BatchFiles} \X going.batches
            \/ t \in {PlanFiles} \X going.plans
            \/ t \in {TaskPlans} \X LoosePointers
            \/ t \in {Checkpoint} \X LooseCheckpoint
        BY DEF Decide
      <3>2. CASE t \in {Receipts, Copies} \X Touched(going.runs) BY <3>2
      <3>3. CASE t \in {RunTrees} \X going.runs BY <3>3
      <3>4. CASE t \in {BatchFiles} \X going.batches BY <3>4
      <3>5. CASE t \in {PlanFiles} \X going.plans BY <3>5
      <3>6. CASE t \in {TaskPlans} \X LoosePointers BY <3>6 DEF LoosePointers
      <3>7. CASE t \in {Checkpoint} \X LooseCheckpoint BY <3>7 DEF LooseCheckpoint
      <3> QED BY <3>1, <3>2, <3>3, <3>4, <3>5, <3>6, <3>7
    <2>2. Touched(going.runs)' = Touched(going.runs)
      BY <1>1 DEF Touched, RunTasks
    <2> QED BY <1>1, <2>1, <2>2 DEF Work, settled, settledGroup
  <1>5. Greatest' BY <1>1 DEF Greatest
  <1> QED BY <1>2, <1>3, <1>4, <1>5 DEF RoundInv

\* The removals only take items off the list.
Removal ==
    \/ \E c \in Card : WriteReceipt(c) \/ RemoveCopies(c) \/ RemoveTaskPlan(c)
    \/ \E r \in Run : RemoveRunJSON(r) \/ RemoveRunDirectory(r)
    \/ \E b \in Batch : RemoveBatch(b)
    \/ \E p \in Plan : RemovePlan(p)
    \/ RemoveCheckpoint
    \/ \E t \in todo : RemovalFails(t[1], t[2])

LEMMA RemovalFrame ==
    ASSUME Removal
    PROVE  /\ phase = "remove" /\ phase' = "remove" /\ todo' \subseteq todo
           /\ UNCHANGED <<graph, place, gates, hidden, locks, going>>
  BY DEF Removal, WriteReceipt, RemoveCopies, RemoveTaskPlan, RemoveRunJSON,
         RemoveRunDirectory, RemoveBatch, RemovePlan, RemoveCheckpoint, RemovalFails,
         Turn, Did, board, cleanup

LEMMA RemovalRound ==
    ASSUME TypeOK, RoundInv, Removal
    PROVE  RoundInv'
  BY RemovalFrame DEF RoundInv, Held, Chosen, Work, Greatest, settled, settledGroup,
     allSettled, RunTasks, Touched

LEMMA NextRound == TypeOK /\ RoundInv /\ [Next]_vars => RoundInv'
  <1> SUFFICES ASSUME TypeOK, RoundInv, [Next]_vars PROVE RoundInv' OBVIOUS
  <1>1. CASE UNCHANGED vars
    <2>1. UNCHANGED <<graph, place, gates, hidden, locks, going, todo, phase, record, batches, plans>>
      BY <1>1 DEF vars, board, evidence, cleanup
    <2>2. Held' /\ Chosen' /\ Work'
      BY <2>1 DEF RoundInv, Held, Chosen, Work, settled, settledGroup, allSettled,
         RunTasks, Touched
    <2>3. RecordSets' = RecordSets BY <2>1 DEF RecordSets, Runs
    <2>4. \A d : Removable(d)' = Removable(d)
      BY <2>1 DEF Removable, Runs, settled, settledGroup, allSettled, RunTasks
    <2> QED BY <2>1, <2>2, <2>3, <2>4 DEF RoundInv, Greatest, Within
  <1> QED BY <1>1, OutsideRound, GateRound, BeginRoundRound, KeepRound, DecideRound,
             RemovalRound DEF Next, Removal

LEMMA RoundCorrect == Spec => []RoundInv
  BY InitRound, TypeCorrect, NextRound, PTL DEF Spec

\* The loop of planPrune, whatever the order of its steps, ends in the
\* largest set of records that may go.
THEOREM PlanExactAlways == Spec => []PlanExact
  <1>1. TypeOK /\ RoundInv => PlanExact
    <2> SUFFICES ASSUME TypeOK, RoundInv, phase = "plan", FixedPoint(going)
                 PROVE  Removable(going)
      BY DEF PlanExact, RoundInv, Greatest
    <2>1. /\ \A r \in going.runs : allSettled(RunTasks(r), hidden) /\ r \in locks
          /\ \A b \in going.batches : allSettled(graph.batch[b].tasks, hidden)
          /\ \A p \in going.plans : allSettled(graph.plan[p], hidden)
      BY DEF RoundInv, Chosen, TypeOK
    <2> QED BY <2>1 DEF Removable, FixedPoint, KeepsRun, KeepsBatch, KeepsPlan
  <1> QED BY <1>1, TypeCorrect, RoundCorrect, PTL

-----------------------------------------------------------------------------
(* Only settled records are removed. *)

LEMMA SettledTruly ==
    ASSUME NEW H
    PROVE  /\ \A c : settled(c, H) => settled(c, {})
           /\ settledGroup(H) => settledGroup({})
           /\ \A C : allSettled(C, H) => allSettled(C, {})
  BY DEF settled, settledGroup, allSettled

LEMMA TouchedSettled ==
    ASSUME TypeOK, RoundInv, phase # "idle", NEW c \in Touched(going.runs)
    PROVE  settled(c, {})
  <1>1. PICK r \in going.runs : c \in RunTasks(r) BY DEF Touched
  <1>2. allSettled(RunTasks(r), {}) BY <1>1, SettledTruly DEF RoundInv, Chosen
  <1> QED BY <1>1, <1>2 DEF allSettled

\* An item whose turn has come belongs to a record that is going.
LEMMA TurnItem ==
    ASSUME RoundInv, NEW k, NEW x, Turn(k, x)
    PROVE  /\ phase = "remove"
           /\ k \in {Receipts, Copies} => x \in Touched(going.runs)
           /\ k = RunTrees => x \in going.runs
           /\ k = BatchFiles => x \in going.batches
           /\ k = PlanFiles => x \in going.plans
           /\ k = TaskPlans => settled(x, hidden)
           /\ k = Checkpoint => settledGroup(hidden)
  <1>1. phase = "remove" /\ <<k, x>> \in todo BY DEF Turn
  <1> DEFINE t == <<k, x>>
  <1>2. t \in todo /\ t[1] = k /\ t[2] = x BY <1>1
  <1> HIDE DEF t
  <1> QED BY <1>1, <1>2 DEF RoundInv, Work

LEMMA StepLive == TypeOK /\ RoundInv /\ [Next]_vars => [OnlySettled]_vars
  <1> SUFFICES ASSUME TypeOK, RoundInv, Next PROVE OnlySettled
    BY DEF vars
  <1> DEFINE Same == UNCHANGED <<record, batches, plans, copies, taskPlans, checkpoint>>
  <1>1. ASSUME Same PROVE OnlySettled BY <1>1 DEF OnlySettled
  <1>2. ASSUME NEW c \in Card, RemoveCopies(c) PROVE OnlySettled
    <2>1. settled(c, {})
      BY <1>2, TurnItem, TouchedSettled DEF RemoveCopies
    <2>2. /\ UNCHANGED <<record, batches, plans, taskPlans, checkpoint>>
          /\ \A d \in Card : copies'[d] # copies[d] => d = c
      BY <1>2 DEF RemoveCopies, TypeOK
    <2> QED BY <2>1, <2>2 DEF OnlySettled
  <1>3. ASSUME NEW c \in Card, RemoveTaskPlan(c) PROVE OnlySettled
    <2>1. settled(c, {}) BY <1>3, TurnItem, SettledTruly DEF RemoveTaskPlan
    <2> QED BY <2>1, <1>3 DEF RemoveTaskPlan, OnlySettled
  <1>4. ASSUME NEW r \in Run, RemoveRunJSON(r) \/ RemoveRunDirectory(r) PROVE OnlySettled
    <2>1. phase = "remove" /\ r \in going.runs
      BY <1>4, TurnItem DEF RemoveRunJSON, RemoveRunDirectory
    <2>2. allSettled(RunTasks(r), {}) /\ r \notin gates
      BY <2>1, SettledTruly DEF RoundInv, Chosen, Held, TypeOK
    <2>3. /\ UNCHANGED <<batches, plans, copies, taskPlans, checkpoint>>
          /\ \A q \in Run : record'[q] # record[q] => q = r
      BY <1>4 DEF RemoveRunJSON, RemoveRunDirectory, TypeOK
    <2> QED BY <2>2, <2>3 DEF OnlySettled
  <1>5. ASSUME NEW b \in Batch, RemoveBatch(b) PROVE OnlySettled
    <2>1. phase = "remove" /\ b \in going.batches BY <1>5, TurnItem DEF RemoveBatch
    <2>2. allSettled(graph.batch[b].tasks, {}) BY <2>1, SettledTruly DEF RoundInv, Chosen
    <2> QED BY <2>2, <1>5 DEF RemoveBatch, OnlySettled
  <1>6. ASSUME NEW p \in Plan, RemovePlan(p) PROVE OnlySettled
    <2>1. phase = "remove" /\ p \in going.plans BY <1>6, TurnItem DEF RemovePlan
    <2>2. allSettled(graph.plan[p], {}) BY <2>1, SettledTruly DEF RoundInv, Chosen
    <2> QED BY <2>2, <1>6 DEF RemovePlan, OnlySettled
  <1>7. CASE RemoveCheckpoint
    <2>1. settledGroup({}) BY <1>7, TurnItem, SettledTruly DEF RemoveCheckpoint
    <2> QED BY <2>1, <1>7 DEF RemoveCheckpoint, OnlySettled
  <1>8. ASSUME NEW c \in Card, Archive(c) \/ Trash(c) \/ Create(c) \/ WriteReceipt(c)
        PROVE  Same
    BY <1>8 DEF Archive, Trash, Create, WriteReceipt, evidence
  <1>9. ASSUME NEW r \in Run, LockReviewRun(r) \/ GateEnds(r) \/ KeepRun(r) PROVE Same
    BY <1>9 DEF LockReviewRun, GateEnds, KeepRun, evidence
  <1>10. /\ \A b \in Batch : KeepBatch(b) => Same
         /\ \A p \in Plan : KeepPlan(p) => Same
    BY DEF KeepBatch, KeepPlan, evidence
  <1>11. /\ \A H : BeginRound(H) => Same
         /\ \A t \in todo : RemovalFails(t[1], t[2]) => Same
         /\ Decide \/ EndRound \/ Interrupt => Same
    BY DEF BeginRound, RemovalFails, Decide, EndRound, Interrupt, evidence
  <1> HIDE DEF Same
  <1> QED BY <1>1, <1>2, <1>3, <1>4, <1>5, <1>6, <1>7, <1>8, <1>9, <1>10, <1>11 DEF Next

\* A round removes nothing that a live card, a running gate or an unsettled
\* group still needs, however long it removes.
THEOREM LiveKeptAlways == Spec => LiveKept
  BY TypeCorrect, RoundCorrect, StepLive, PTL DEF Spec, LiveKept

-----------------------------------------------------------------------------
(* Check finds every run of a card, or its receipt. *)

PlanOfRun(r) == graph.batch[graph.run[r].batch].plan

\* Nothing the run refers to is going, and neither is the run.
Spared(r) ==
    /\ r \notin going.runs /\ graph.run[r].prev \notin going.runs
    /\ graph.run[r].batch \notin going.batches /\ PlanOfRun(r) \notin going.plans

\* While records are removed, a run without a receipt waits for it or stays.
Receipted ==
    phase = "remove" =>
        \A r \in Run : \A c \in RunTasks(r) :
            \/ r \in receipts[c]
            \/ r \in going.runs /\ <<Receipts, c>> \in todo
            \/ Spared(r)

LEMMA InitAccounted == Init => Accounted /\ Receipted
  <1> SUFFICES ASSUME Init PROVE Accounted BY DEF Init, Receipted
  <1> SUFFICES ASSUME NEW r \in Run, NEW c \in RunTasks(r) PROVE Intact(c, r)
    BY DEF Accounted
  <1>1. graph \in Evidence /\ c \in Card BY Members DEF Init
  <1>2. graph.run[r] \in [batch : Batch, prev : Run \cup {None}]
    BY <1>1, GraphShape
  <1>3. PlanOfRun(r) \in Plan \cup {None}
    BY <1>1, <1>2, GraphShape DEF PlanOfRun
  <1> QED BY <1>1, <1>2, <1>3 DEF Init, Intact, PlanOfRun

\* Outside the removals nothing a receipt or a run's being there rests on
\* changes, and the round, if any, is not removing.
LEMMA OtherAccounted ==
    ASSUME Accounted, Receipted, [Next]_vars, ~Removal, ~Decide
    PROVE  Accounted' /\ Receipted'
  <1>1. /\ UNCHANGED <<graph, record, batches, plans, copies, receipts>>
        /\ \/ UNCHANGED <<phase, going, todo>>
           \/ phase' # "remove"
    BY DEF Next, Removal, Archive, Trash, Create, LockReviewRun, GateEnds, BeginRound,
           KeepRun, KeepBatch, KeepPlan, EndRound, Interrupt, Release,
           vars, board, evidence, cleanup
  <1>2. Accounted' BY <1>1 DEF Accounted, Intact, RunTasks
  <1>3. Receipted' BY <1>1 DEF Receipted, Spared, PlanOfRun, RunTasks
  <1> QED BY <1>2, <1>3

LEMMA DecideAccounted ==
    ASSUME TypeOK, RoundInv, Accounted, Decide
    PROVE  Accounted' /\ Receipted'
  <1>1. UNCHANGED <<graph, record, batches, plans, copies, receipts, going>> /\ phase = "plan"
    BY DEF Decide, board, evidence
  <1>2. Accounted' BY <1>1 DEF Accounted, Intact, RunTasks
  <1>3. ASSUME NEW r \in Run, NEW c \in RunTasks(r), r \notin receipts[c]
        PROVE  (r \in going.runs /\ <<Receipts, c>> \in todo') \/ Spared(r)
    <2>1. CASE r \in going.runs
      <3>1. c \in Touched(going.runs)
        BY <2>1, <1>3, Members DEF Touched, TypeOK
      <3>2. <<Receipts, c>> \in {Receipts, Copies} \X Touched(going.runs) BY <3>1
      <3> QED BY <2>1, <3>2 DEF Decide
    <2>2. CASE r \notin going.runs
      <3>1. Intact(c, r) BY <1>3 DEF Accounted
      <3>2. r \in Runs \ going.runs BY <2>2, <3>1 DEF Intact, Runs
      <3>3. graph.run[r].prev \notin going.runs /\ graph.run[r].batch \notin going.batches
        BY <3>2 DEF Decide, FixedPoint, KeepsRun, KeepsBatch
      <3>4. graph.run[r].batch \in batches \ going.batches
        BY <3>1, <3>3 DEF Intact
      <3>5. PlanOfRun(r) \notin going.plans
        BY <3>4 DEF Decide, FixedPoint, KeepsPlan, PlanOfRun
      <3> QED BY <2>2, <3>3, <3>5 DEF Spared
    <2> QED BY <2>1, <2>2
  <1>4. Receipted'
    BY <1>1, <1>3 DEF Receipted, Spared, PlanOfRun, RunTasks
  <1> QED BY <1>2, <1>4

LEMMA ReceiptAccounted ==
    ASSUME TypeOK, Accounted, Receipted, NEW d \in Card, WriteReceipt(d)
    PROVE  Accounted' /\ Receipted'
  <1>1. /\ phase = "remove" /\ todo' = todo \ {<<Receipts, d>>}
        /\ UNCHANGED <<graph, record, batches, plans, copies, phase, going>>
        /\ receipts' \in [Card -> SUBSET Run]
        /\ receipts'[d] = receipts[d] \cup {r \in going.runs : d \in RunTasks(r)}
        /\ \A c \in Card : c # d => receipts'[c] = receipts[c]
    BY DEF WriteReceipt, Turn, Did, board, evidence, TypeOK
  <1>2. \A r \in Run : \A c \in RunTasks(r) : c \in Card
    BY Members DEF TypeOK
  <1> SUFFICES ASSUME NEW r \in Run, NEW c \in RunTasks(r), r \notin receipts'[c]
               PROVE  /\ Intact(c, r)'
                      /\ (r \in going.runs /\ <<Receipts, c>> \in todo') \/ Spared(r)
    BY <1>1 DEF Accounted, Receipted, RunTasks, Spared, PlanOfRun
  <1>3. r \notin receipts[c] BY <1>1, <1>2
  <1>4. Intact(c, r) BY <1>3 DEF Accounted
  <1>5. (r \in going.runs /\ <<Receipts, c>> \in todo) \/ Spared(r)
    BY <1>1, <1>3 DEF Receipted
  <1>6. CASE c = d
    <2>1. r \notin going.runs BY <1>1, <1>6
    <2>2. Spared(r) BY <2>1, <1>5
    <2>3. graph.run[r].prev \notin receipts[c] => graph.run[r].prev \notin receipts'[c]
      BY <2>2, <1>1, <1>6 DEF Spared
    <2> QED BY <2>2, <2>3, <1>1, <1>4 DEF Intact
  <1>7. CASE c # d
    <2>1. receipts'[c] = receipts[c] BY <1>1, <1>2, <1>7
    <2>2. Intact(c, r)' BY <2>1, <1>1, <1>4 DEF Intact
    <2>3. <<Receipts, c>> # <<Receipts, d>> BY <1>7
    <2> QED BY <2>2, <2>3, <1>1, <1>5
  <1> QED BY <1>6, <1>7

\* Every other removal waits until no receipt is left to write, so that what
\* it removes is no part of a run without one.
LEMMA RemovalAccounted ==
    ASSUME TypeOK, RoundInv, Accounted, Receipted, Removal, \A c \in Card : ~WriteReceipt(c)
    PROVE  Accounted' /\ Receipted'
  <1>1. phase = "remove" /\ UNCHANGED <<phase, graph, going>> /\ receipts' = receipts
    <2>1. receipts' = receipts
      BY DEF Removal, RemoveCopies, RemoveTaskPlan, RemoveRunJSON, RemoveRunDirectory,
             RemoveBatch, RemovePlan, RemoveCheckpoint, RemovalFails
    <2> QED BY <2>1, RemovalFrame
  <1>2. \A c : <<Receipts, c>> \notin todo
    <2>1. \E k, x : Turn(k, x) /\ k \in Stages /\ k # Receipts
      <3>1. ASSUME NEW t \in todo, RemovalFails(t[1], t[2])
            PROVE  Turn(t[1], t[2]) /\ t[1] \in Stages /\ t[1] # Receipts
        BY <3>1 DEF RemovalFails, TypeOK, Stages
      <3>2. {Copies, RunTrees, BatchFiles, PlanFiles, TaskPlans, Checkpoint}
              \subseteq Stages \ {Receipts}
        BY DEF Stages
      <3>3. \/ \E k \in {Copies, RunTrees, BatchFiles, PlanFiles, TaskPlans, Checkpoint} :
                 \E x : Turn(k, x)
            \/ \E t \in todo : RemovalFails(t[1], t[2])
        BY DEF Removal, RemoveCopies, RemoveTaskPlan, RemoveRunJSON, RemoveRunDirectory,
               RemoveBatch, RemovePlan, RemoveCheckpoint
      <3> QED BY <3>1, <3>2, <3>3
    <2>2a. PICK k \in Stages : (\E x : Turn(k, x)) /\ k # Receipts BY <2>1
    <2>2. PICK x : Turn(k, x) BY <2>2a
    <2>3. ASSUME NEW c, <<Receipts, c>> \in todo PROVE FALSE
      <3>1. <<Receipts, c>>[1] >= k BY <2>2, <2>3 DEF Turn
      <3> QED BY <3>1, <2>2a DEF Stages
    <2> QED BY <2>3
  <1> SUFFICES ASSUME NEW r \in Run, NEW c \in RunTasks(r), r \notin receipts[c]
               PROVE  Intact(c, r)' /\ Spared(r)
    BY <1>1 DEF Accounted, Receipted, RunTasks, Spared, PlanOfRun
  <1>3. Intact(c, r) BY DEF Accounted
  <1>4. Spared(r) BY <1>1, <1>2 DEF Receipted
  <1>5. /\ \A q \in Run \ going.runs : record'[q] = record[q]
        /\ copies[c] \ going.runs \subseteq copies'[c]
        /\ batches \ going.batches \subseteq batches'
        /\ plans \ going.plans \subseteq plans'
    <2>1. c \in Card BY Members DEF TypeOK
    <2>2. ASSUME NEW d \in Card, RemoveCopies(d) \/ RemoveTaskPlan(d)
          PROVE  /\ UNCHANGED <<record, batches, plans>>
                 /\ copies[c] \ going.runs \subseteq copies'[c]
      BY <2>1, <2>2 DEF RemoveCopies, RemoveTaskPlan, TypeOK
    <2>3. ASSUME NEW q \in Run, RemoveRunJSON(q) \/ RemoveRunDirectory(q)
          PROVE  /\ UNCHANGED <<copies, batches, plans>>
                 /\ \A p \in Run \ going.runs : record'[p] = record[p]
      <3>1. q \in going.runs BY <2>3, TurnItem DEF RemoveRunJSON, RemoveRunDirectory
      <3> QED BY <2>3, <3>1 DEF RemoveRunJSON, RemoveRunDirectory, TypeOK
    <2>4. ASSUME NEW b \in Batch, RemoveBatch(b)
          PROVE  UNCHANGED <<record, copies, plans>> /\ batches \ going.batches \subseteq batches'
      BY <2>4, TurnItem DEF RemoveBatch
    <2>5. ASSUME NEW p \in Plan, RemovePlan(p)
          PROVE  UNCHANGED <<record, copies, batches>> /\ plans \ going.plans \subseteq plans'
      BY <2>5, TurnItem DEF RemovePlan
    <2>6. \/ RemoveCheckpoint
          \/ \E t \in todo : RemovalFails(t[1], t[2])
          => UNCHANGED <<record, copies, batches, plans>>
      BY DEF RemoveCheckpoint, RemovalFails, evidence
    <2> QED BY <2>2, <2>3, <2>4, <2>5, <2>6 DEF Removal
  <1>6. graph.run[r].prev \in Run \cup {None}
    BY GraphShape DEF TypeOK
  <1> QED BY <1>1, <1>3, <1>4, <1>5, <1>6 DEF Intact, Spared, PlanOfRun

\* No interruption, failure or later member of a group makes check report a
\* card because of a cleanup.
THEOREM AccountedAlways == Spec => []Accounted
  <1>1. TypeOK /\ RoundInv /\ Accounted /\ Receipted /\ [Next]_vars => Accounted' /\ Receipted'
    BY OtherAccounted, DecideAccounted, ReceiptAccounted, RemovalAccounted
  <1>2. Spec => [](Accounted /\ Receipted)
    BY <1>1, InitAccounted, TypeCorrect, RoundCorrect, PTL DEF Spec
  <1> QED BY <1>2, PTL

=============================================================================
