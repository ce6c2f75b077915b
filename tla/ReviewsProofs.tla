---------------------------- MODULE ReviewsProofs ----------------------------
(* What holds on a board with any number of cards, batches, runs and         *)
(* commands, whatever they are killed in.                                    *)
EXTENDS Reviews, SequenceTheorems, TLAPS

-----------------------------------------------------------------------------
(* The invariant.                                                            *)

CardRecord == [place : {"working", "review", "done"}, cycle : Nat]
Closes(x) == x.pc = "close" /\ x.run = None /\ x.batch \in Batch
TypeOK ==
  /\ card \in [Task -> CardRecord] /\ plan \in PlanRecord \cup {None}
  /\ batch \in [Batch -> BatchRecord \cup {None}]
  /\ run \in [Run -> RunRecord \cup {None}]
  /\ reading \in [Run -> Bounded \cup {None}]
  /\ ledger \in [Run -> LedgerRecord \cup {None}]
  /\ DOMAIN closure = Batch /\ head \in Commit /\ launches \in [Run -> Nat]
  /\ DOMAIN proc = Proc
  /\ \A p \in Proc : proc[p] # None => proc[p] \in Reviewer \/ Closes(proc[p])

\* The plan is a chain of batches that were opened with it.
IdsApart(s) == \A i, j \in 1 .. Len(s) : s[i].id = s[j].id => i = j
Chained(s) ==
  \A i \in 1 .. Len(s) : s[i].prev = IF i = 1 THEN None ELSE s[i-1].id
PlanOK ==
  plan # None =>
    /\ Len(plan.batches) >= 1 /\ IdsApart(plan.batches) /\ Chained(plan.batches)
    /\ \A i \in 1 .. Len(plan.batches) : batch[plan.batches[i].id] # None

\* A batch that was opened with the plan is on it.
Listed(b) == \E i \in 1 .. Len(Planned) : Planned[i].id = b
BatchOK(b) == batch[b] # None => (batch[b].planned => Listed(b))

\* Nothing of a closed batch is under way, and the closure has what it has.
ClosedOK(b) ==
  ~Open(b) => /\ batch[b] # None /\ batch[b].planned
              /\ settledReviewBatch(b) /\ View(b) = closure[b].view
              /\ Reviewed(closure[b])

\* An incremental run follows one of the same batch.
FollowsOK(r) ==
  run[r] # None => LET prev == run[r].prev IN
    prev # None => run[prev] # None /\ run[prev].batch = run[r].batch

\* One command at most has a run, and it has not started the reviewer twice.
Owns(p, r) == proc[p] # None /\ proc[p].run = r
RunOK(r) ==
  /\ launches[r] <= 1 /\ (run[r] = None => launches[r] = 0)
  /\ \A p \in Proc : Owns(p, r) =>
        /\ run[r] # None
        /\ proc[p].pc = "intent" => launches[r] = 0
        /\ proc[p].pc # "publish" => run[r].status # "interrupted"
        /\ \A q \in Proc : Owns(q, r) => p = q

\* What is about to be closed is there.
ClosingOK ==
  \A p \in Proc : proc[p] # None /\ proc[p].pc = "close" => batch[proc[p].batch] # None

IInv ==
  /\ TypeOK /\ ClosingOK /\ PlanOK /\ ClosuresChain /\ DoneReviewed
  /\ \A b \in Batch : BatchOK(b) /\ ClosedOK(b)
  /\ \A r \in Run : FollowsOK(r) /\ RunOK(r)

-----------------------------------------------------------------------------
(* The operators of the model.                                               *)

EntryAt(s, b) == SelectInSeq(s, LAMBDA e : e.id = b)

LEMMA EntryTypes ==
  ASSUME NEW s \in Seq(EntryRecord)
  PROVE  \A i \in 1 .. Len(s) : s[i] \in EntryRecord /\ s[i].id \in Batch
<1>1. \A i \in 1 .. Len(s) : s[i] \in EntryRecord OBVIOUS
<1> QED BY <1>1 DEF EntryRecord

LEMMA EntryFound ==
  ASSUME NEW b, NEW s \in Seq(EntryRecord), IdsApart(s)
  PROVE  /\ EntryAt(s, b) \in 0 .. Len(s)
         /\ EntryAt(s, b) # 0 => s[EntryAt(s, b)].id = b
         /\ \A i \in 1 .. Len(s) : s[i].id = b => EntryAt(s, b) = i
<1> DEFINE I == {i \in 1 .. Len(s) : s[i].id = b}
<1>1. EntryAt(s, b) = IF I # {} THEN Min(I) ELSE 0
  BY DEF EntryAt, SelectInSeq
<1>2. \A i \in I : Min(I) = i
  BY DEF Min, IdsApart
<1>3. Len(s) \in Nat OBVIOUS
<1> QED BY <1>1, <1>2, <1>3

LEMMA EntryNow ==
  \A b : EntryOf(b) = EntryAt(Planned, b) /\ EntryOf(b)' = EntryAt(Planned', b)
BY DEF EntryOf, EntryAt, SelectInSeq

LEMMA PlannedType ==
  ASSUME TypeOK, PlanOK
  PROVE  /\ Planned \in Seq(EntryRecord) /\ IdsApart(Planned) /\ Chained(Planned)
         /\ \A i \in 1 .. Len(Planned) : batch[Planned[i].id] # None
BY DEF TypeOK, PlanOK, Planned, PlanRecord, IdsApart, Chained

\* The entry of a batch is its place on the plan.
LEMMA EntryPlace ==
  ASSUME TypeOK, PlanOK, NEW b
  PROVE  /\ EntryOf(b) \in 0 .. Len(Planned)
         /\ EntryOf(b) # 0 => Planned[EntryOf(b)].id = b
         /\ \A i \in 1 .. Len(Planned) : Planned[i].id = b => EntryOf(b) = i
BY PlannedType, EntryFound, EntryNow

\* What is read of the records when nothing of a batch has changed.
Frozen(b) ==
  /\ batch'[b] = batch[b]
  /\ \A r \in Run : r \in RunsOf(b) \/ r \in RunsOf(b)' =>
       run'[r] = run[r] /\ reading'[r] = reading[r] /\ ledger'[r] = ledger[r]

LEMMA FrozenView ==
  ASSUME NEW b \in Batch, Frozen(b)
  PROVE  View(b)' = View(b) /\ settledReviewBatch(b)' = settledReviewBatch(b)
<1>1. RunsOf(b)' = RunsOf(b)
  BY DEF Frozen, RunsOf
<1>2. View(b)' = View(b)
  <2>1. \A r \in RunsOf(b) :
          run'[r] = run[r] /\ reading'[r] = reading[r] /\ ledger'[r] = ledger[r]
    BY DEF Frozen, RunsOf
  <2> QED BY <1>1, <2>1 DEF Frozen, View
<1>3. \A r \in RunsOf(b) : Settled(r)' = Settled(r)
  BY DEF Frozen, Settled, RunsOf
<1>4. settledReviewBatch(b)' = settledReviewBatch(b)
  BY <1>1, <1>3 DEF settledReviewBatch
<1> QED BY <1>2, <1>4

-----------------------------------------------------------------------------
(* The plan is created: its batches are opened or adopted.                   *)

EntryBatch(e) ==
  [tasks |-> e.tasks, base |-> e.base, target |-> e.target, planned |-> TRUE, prev |-> e.prev]

LEMMA EntryBatchType == \A e \in EntryRecord : EntryBatch(e) \in BatchRecord
BY DEF EntryRecord, EntryBatch, BatchRecord

LEMMA Created ==
  ASSUME TypeOK, CreateReviewPlan
  PROVE  /\ plan = None /\ plan' \in PlanRecord
         /\ Len(plan'.batches) >= 1 /\ IdsApart(plan'.batches) /\ Chained(plan'.batches)
         /\ batch' \in [Batch -> BatchRecord \cup {None}]
         /\ \A i \in 1 .. Len(plan'.batches) :
              LET e == plan'.batches[i] IN
              /\ batch'[e.id] = EntryBatch(e)
              /\ batch[e.id] # None => ~batch[e.id].planned
         /\ \A b \in Batch : (\A i \in 1 .. Len(plan'.batches) : plan'.batches[i].id # b) =>
              batch'[b] = batch[b]
<1>0. PICK ids \in {s \in SeqOf(Batch, 2) : s # <<>> /\ IsInjective(s)} :
        \E tasks \in [1 .. Len(ids) -> (SUBSET Task) \ {{}}], base \in [1 .. Len(ids) -> Base],
           target \in [1 .. Len(ids) -> 0 .. head], sealed \in BOOLEAN :
             PlanOf(ids, tasks, base, target, sealed)
  BY DEF CreateReviewPlan
<1>1. PICK tasks \in [1 .. Len(ids) -> (SUBSET Task) \ {{}}], base \in [1 .. Len(ids) -> Base],
           target \in [1 .. Len(ids) -> 0 .. head], sealed \in BOOLEAN :
             PlanOf(ids, tasks, base, target, sealed)
  BY <1>0
<1> DEFINE entry(i) == [id |-> ids[i], tasks |-> tasks[i], base |-> base[i],
                        target |-> target[i], prev |-> IF i = 1 THEN None ELSE ids[i-1]]
           s == [i \in 1 .. Len(ids) |-> entry(i)]
<1>2. ids \in Seq(Batch) /\ Len(ids) \in {1, 2} /\ DOMAIN ids = 1 .. Len(ids)
      /\ \A i, j \in 1 .. Len(ids) : ids[i] = ids[j] => i = j
  <2>1. PICK m \in 0 .. 2 : ids \in [1 .. m -> Batch]
    BY DEF SeqOf
  <2>2. ids \in Seq(Batch) /\ Len(ids) = m BY <2>1, SeqDef
  <2>3. m # 0 BY <2>2
  <2> QED BY <2>1, <2>2, <2>3 DEF IsInjective
<1>3. \A i \in 1 .. Len(ids) : entry(i) \in EntryRecord
  <2> SUFFICES ASSUME NEW i \in 1 .. Len(ids) PROVE entry(i) \in EntryRecord
    OBVIOUS
  <2>1. ids[i] \in Batch /\ (IF i = 1 THEN None ELSE ids[i-1]) \in Batch \cup {None}
    BY <1>2
  <2>2. tasks[i] \in SUBSET Task /\ base[i] \in Commit
    BY ReviewAssumption DEF Commit
  <2>3. target[i] \in Commit
    <3>1. head \in 0 .. MaxCommit /\ MaxCommit \in Nat /\ target[i] \in 0 .. head
      BY ReviewAssumption DEF TypeOK, Commit
    <3> HIDE DEF entry, s
    <3> QED BY <3>1 DEF Commit
  <2> QED BY <2>1, <2>2, <2>3 DEF EntryRecord
<1>4. s \in Seq(EntryRecord) /\ Len(s) = Len(ids) /\ \A i \in 1 .. Len(ids) : s[i] = entry(i)
  BY <1>2, <1>3
<1>5. plan' = [sealed |-> sealed, cycles |-> [t \in Task |-> card[t].cycle], batches |-> s]
  BY <1>1 DEF PlanOf
<1>6. plan' \in PlanRecord /\ plan'.batches = s
  BY <1>4, <1>5 DEF PlanRecord, TypeOK, CardRecord
<1>7. \A i \in 1 .. Len(ids) : batch'[ids[i]] = EntryBatch(entry(i))
  <2> SUFFICES ASSUME NEW i \in 1 .. Len(ids) PROVE batch'[ids[i]] = EntryBatch(entry(i))
    OBVIOUS
  <2>1. (CHOOSE j \in 1 .. Len(ids) : ids[j] = ids[i]) = i
    BY <1>2
  <2>2. ids[i] \in Batch BY <1>2
  <2> QED BY <1>1, <2>1, <2>2 DEF EntryBatch, PlanOf
<1>8. \A b \in Batch : (\A i \in 1 .. Len(ids) : ids[i] # b) => batch'[b] = batch[b]
  BY <1>1 DEF PlanOf
<1>11. DOMAIN batch' = Batch /\ batch' = [b \in Batch |-> batch'[b]] BY <1>1 DEF PlanOf
<1> HIDE DEF entry
<1>9. batch' \in [Batch -> BatchRecord \cup {None}]
  <2>1. \A i \in 1 .. Len(ids) : EntryBatch(entry(i)) \in BatchRecord
    BY <1>3, EntryBatchType
  <2>2. \A b \in Batch : batch[b] \in BatchRecord \cup {None} BY DEF TypeOK
  <2>3. \A b \in Batch : batch'[b] \in BatchRecord \cup {None}
    BY <1>7, <1>8, <2>1, <2>2
  <2> QED BY <1>11, <2>3
<1>10. \A i \in 1 .. Len(ids) : s[i].id = ids[i] /\ s[i].prev = IF i = 1 THEN None ELSE ids[i-1]
  BY <1>4 DEF entry
<1> HIDE DEF s
<1>15. IdsApart(s) /\ Chained(s)
  BY <1>2, <1>4, <1>10 DEF IdsApart, Chained
<1>12. plan = None BY DEF CreateReviewPlan
<1>16. \A i \in 1 .. Len(ids) : batch[ids[i]] # None => ~batch[ids[i]].planned
  BY <1>1 DEF PlanOf
<1>13. \A i \in 1 .. Len(s) : batch'[s[i].id] = EntryBatch(s[i])
          /\ (batch[s[i].id] # None => ~batch[s[i].id].planned)
  BY <1>4, <1>7, <1>10, <1>16
<1>14. ASSUME NEW b \in Batch, \A i \in 1 .. Len(s) : s[i].id # b
       PROVE  batch'[b] = batch[b]
  <2>1. \A i \in 1 .. Len(ids) : ids[i] # b BY <1>4, <1>10, <1>14
  <2> QED BY <1>8, <2>1
<1> QED BY <1>2, <1>4, <1>6, <1>9, <1>12, <1>15, <1>13, <1>14

-----------------------------------------------------------------------------
(* A review command and its run.                                             *)

\* An unfinished run that its command takes a step further, or publishes.
Altered(r) ==
  /\ run[r] # None /\ ~Settled(r)
  /\ \E x \in RunRecord : run' = [run EXCEPT ![r] = x]
                         /\ x.batch = run[r].batch /\ x.prev = run[r].prev

\* The command that has a run.
LEMMA OwnRun ==
  ASSUME IInv, NEW p \in Proc, proc[p] # None, proc[p].pc # "close"
  PROVE  /\ proc[p] \in Reviewer /\ proc[p].run \in Run /\ run[proc[p].run] \in RunRecord
         /\ run[proc[p].run] # None /\ Owns(p, proc[p].run)
<1>1. proc[p] \in Reviewer /\ proc[p].run \in Run
  BY DEF IInv, TypeOK, Closes, Reviewer
<1>2. RunOK(proc[p].run) BY <1>1 DEF IInv
<1> QED BY <1>1, <1>2 DEF RunOK, Owns, IInv, TypeOK

LEMMA PhaseAlters ==
  ASSUME IInv, NEW r \in Run, run[r] # None, NEW to \in {"launching", "running"}, Phase(r, to)
  PROVE  Altered(r)
<1> DEFINE x == [run[r] EXCEPT !.phase = to]
<1>1. run[r] \in RunRecord BY DEF IInv, TypeOK
<1>2. x \in RunRecord /\ x.batch = run[r].batch /\ x.prev = run[r].prev BY <1>1 DEF RunRecord
<1>3. run' = [run EXCEPT ![r] = x] /\ ~Settled(r) BY DEF Phase, Settled
<1> HIDE DEF x
<1> QED BY <1>2, <1>3 DEF Altered

LEMMA LaunchRun ==
  ASSUME IInv, NEW p \in Proc, Launch(p)
  PROVE  run' = run \/ Altered(proc[p].run)
<1>1. proc[p] # None /\ proc[p].pc = "intent" BY DEF Launch, At
<1> QED BY <1>1, OwnRun, PhaseAlters DEF Launch, GivesUp

LEMMA RunningRun ==
  ASSUME IInv, NEW p \in Proc, Running(p)
  PROVE  run' = run \/ Altered(proc[p].run)
<1>1. proc[p] # None /\ proc[p].pc = "started" BY DEF Running, At
<1> QED BY <1>1, OwnRun, PhaseAlters DEF Running, GivesUp

LEMMA FinalizeRun ==
  ASSUME IInv, NEW p \in Proc, FinalizeReviewRun(p)
  PROVE  /\ run' = run \/ Altered(proc[p].run)
         /\ run' # run => run'[proc[p].run].status \in {"ok", "failed"}
<1> DEFINE r == proc[p].run
<1>1. proc[p] # None /\ proc[p].pc \in {"running", "failed"} BY DEF FinalizeReviewRun, At
<1>2. r \in Run /\ run[r] \in RunRecord /\ run[r] # None BY <1>1, OwnRun
<1>3. CASE run[r].phase = "finalized" BY <1>3 DEF FinalizeReviewRun
<1>4. CASE run[r].phase # "finalized"
  <2>1. PICK o \in Outcomes(p, r) :
          run' = [run EXCEPT ![r].phase = "finalized", ![r].report = o.report,
                             ![r].status = o.status]
    BY <1>4 DEF FinalizeReviewRun
  <2>2. o.status \in {"ok", "failed"} /\ o.report \in Report \cup {"none"}
    BY DEF Outcomes
  <2> DEFINE x == [run[r] EXCEPT !.phase = "finalized", !.report = o.report, !.status = o.status]
  <2>3. x \in RunRecord /\ x.batch = run[r].batch /\ x.prev = run[r].prev /\ x.status = o.status
    BY <1>2, <2>2 DEF RunRecord
  <2>4. DOMAIN run = Run BY DEF IInv, TypeOK
  <2>5. run' = [run EXCEPT ![r] = x]
    BY <1>2, <2>1, <2>4
  <2>6. ~Settled(r) BY <1>4 DEF Settled
  <2> HIDE DEF x, r
  <2>7. run'[r] = x BY <1>2, <2>4, <2>5
  <2> QED BY <1>2, <2>2, <2>3, <2>5, <2>6, <2>7 DEF Altered, r
<1> QED BY <1>3, <1>4

LEMMA RecoverRun ==
  ASSUME IInv, NEW p \in Proc, NEW r \in Run, Recover(p, r)
  PROVE  run' = run \/ Altered(r)
<1> DEFINE x == [run[r] EXCEPT !.phase = "finalized", !.status = "interrupted"]
<1>1. run[r] # None /\ run[r] \in RunRecord BY DEF Recover, IInv, TypeOK
<1>2. x \in RunRecord /\ x.batch = run[r].batch /\ x.prev = run[r].prev BY <1>1 DEF RunRecord
<1>3. run[r].phase # "finalized" => ~Settled(r) BY DEF Settled
<1>4. \/ run' = run
      \/ run[r].phase # "finalized" /\ run' = [run EXCEPT ![r] = x]
  <2>1. DOMAIN run = Run BY DEF IInv, TypeOK
  <2> QED BY <2>1 DEF Recover
<1> HIDE DEF x
<1> QED BY <1>1, <1>2, <1>3, <1>4 DEF Altered

LEMMA PublishRun ==
  ASSUME IInv, NEW p \in Proc, NEW t \in Task, PublishReviewRun(p, t)
  PROVE  Altered(proc[p].run)
<1> DEFINE r == proc[p].run
           x == [run[r] EXCEPT !.published = @ \cup {t}]
<1>1. proc[p] # None /\ proc[p].pc = "publish" BY DEF PublishReviewRun, At
<1>2. r \in Run /\ run[r] \in RunRecord /\ run[r] # None BY <1>1, OwnRun
<1>3. x \in RunRecord /\ x.batch = run[r].batch /\ x.prev = run[r].prev BY <1>2 DEF RunRecord
<1>4. run' = [run EXCEPT ![r] = x] /\ ~Settled(r)
  BY DEF PublishReviewRun, Settled
<1> HIDE DEF x
<1> QED BY <1>2, <1>3, <1>4 DEF Altered

\* No closed batch has a run that is altered.
LEMMA AlteredFreezes ==
  ASSUME IInv, NEW r \in Run, Altered(r), NEW b \in Batch, ~Open(b),
         UNCHANGED <<batch, reading, ledger>>
  PROVE  Frozen(b)
<1>1. settledReviewBatch(b) BY DEF IInv, ClosedOK
<1>2. r \notin RunsOf(b) BY <1>1 DEF Altered, settledReviewBatch
<1>3. DOMAIN run = Run BY DEF IInv, TypeOK
<1>4. run'[r].batch = run[r].batch /\ \A s \in Run : s # r => run'[s] = run[s]
  BY <1>3 DEF Altered
<1>5. r \notin RunsOf(b)' BY <1>2, <1>4 DEF RunsOf, Altered
<1> QED BY <1>2, <1>4, <1>5 DEF Frozen

-----------------------------------------------------------------------------
\* Whatever happens, nothing of a closed batch changes.
LEMMA FrozenStep ==
  ASSUME IInv, [Next]_vars, NEW b \in Batch, ~Open(b)
  PROVE  Frozen(b) /\ closure'[b] = closure[b]
<1>1. batch[b] # None /\ batch[b].planned /\ Listed(b) /\ DOMAIN batch = Batch
      /\ DOMAIN run = Run /\ DOMAIN closure = Batch /\ DOMAIN ledger = Run
      /\ DOMAIN reading = Run
  BY DEF IInv, BatchOK, ClosedOK, TypeOK
<1>2. CASE UNCHANGED archive
  BY <1>2 DEF archive, Frozen, RunsOf
<1>3. CASE CreateReviewPlan
  <2>1. Planned = <<>> BY <1>3 DEF CreateReviewPlan, Planned
  <2> QED BY <1>1, <2>1 DEF Listed
<1>4. CASE ExtendBatch \/ SealPlan \/ RebindCycles \/ SyncTargets
  <2>1. batch'[b] = batch[b]
    BY <1>1, <1>4 DEF ExtendBatch, SealPlan, RebindCycles, SyncTargets
  <2>2. UNCHANGED <<run, reading, ledger, closure>>
    BY <1>4 DEF ExtendBatch, SealPlan, RebindCycles, SyncTargets
  <2> QED BY <2>1, <2>2 DEF Frozen, RunsOf
<1>5. ASSUME NEW c \in Batch, NEW target \in Commit, AdvanceReviewBatch(c, target)
      PROVE  Frozen(b) /\ closure'[b] = closure[b]
  <2>1. batch'[b] = batch[b] /\ UNCHANGED <<run, reading, ledger, closure>>
    BY <1>1, <1>5 DEF AdvanceReviewBatch, retarget
  <2> QED BY <2>1 DEF Frozen, RunsOf
<1>6. ASSUME NEW p \in Proc, NEW r \in Run, NEW c \in Batch, NEW prev \in Run \cup {None},
             PrepareReviewRun(p, r, c, prev)
      PROVE  Frozen(b) /\ closure'[b] = closure[b]
  <2>1. c # b /\ run[r] = None /\ run' = [run EXCEPT ![r] = Intent(c, prev)]
        /\ UNCHANGED <<reading, ledger, closure>>
    BY <1>6 DEF PrepareReviewRun
  <2>2. batch'[b] = batch[b]
    BY <1>1, <1>6, <2>1 DEF PrepareReviewRun, retarget
  <2>3. Intent(c, prev).batch = c BY DEF Intent
  <2>4. r \notin RunsOf(b) /\ r \notin RunsOf(b)'
    BY <1>1, <2>1, <2>3 DEF RunsOf
  <2> QED BY <1>1, <2>1, <2>2, <2>4 DEF Frozen
<1>7. ASSUME NEW r \in Run, run' = run \/ Altered(r),
             UNCHANGED <<batch, reading, ledger, closure>>
      PROVE  Frozen(b) /\ closure'[b] = closure[b]
  BY <1>7, AlteredFreezes DEF Frozen, RunsOf
<1>8. ASSUME NEW p \in Proc, Launch(p) \/ Running(p) \/ FinalizeReviewRun(p)
      PROVE  Frozen(b) /\ closure'[b] = closure[b]
  <2>1. proc[p] # None /\ proc[p].pc # "close"
    BY <1>8 DEF Launch, Running, FinalizeReviewRun, At
  <2>2. proc[p].run \in Run BY <2>1, OwnRun
  <2>3. UNCHANGED <<batch, reading, ledger, closure>>
    BY <1>8 DEF Launch, Running, FinalizeReviewRun
  <2> QED BY <1>7, <1>8, <2>2, <2>3, LaunchRun, RunningRun, FinalizeRun
<1>9. ASSUME NEW p \in Proc, NEW r \in Run, Recover(p, r)
      PROVE  Frozen(b) /\ closure'[b] = closure[b]
  <2>1. UNCHANGED <<batch, reading, ledger, closure>> BY <1>9 DEF Recover
  <2> QED BY <1>7, <1>9, <2>1, RecoverRun
<1>10. ASSUME NEW p \in Proc, NEW t \in Task, PublishReviewRun(p, t)
      PROVE  Frozen(b) /\ closure'[b] = closure[b]
  <2>1. proc[p] # None /\ proc[p].pc # "close"
    BY <1>10 DEF PublishReviewRun, At
  <2>2. proc[p].run \in Run BY <2>1, OwnRun
  <2>3. UNCHANGED <<batch, reading, ledger, closure>> BY <1>10 DEF PublishReviewRun
  <2> QED BY <1>7, <1>10, <2>2, <2>3, PublishRun
<1>11. ASSUME NEW p \in Proc, CloseReviewBatch(p)
      PROVE  Frozen(b) /\ closure'[b] = closure[b]
  <2>1. UNCHANGED <<batch, run, reading, ledger>> /\ closure'[b] = closure[b]
    BY <1>1, <1>11 DEF CloseReviewBatch
  <2> QED BY <2>1 DEF Frozen, RunsOf
<1>12. ASSUME NEW r \in Run, Mutable(r), UNCHANGED <<batch, run, closure>>,
              \A s \in Run : s # r => reading'[s] = reading[s] /\ ledger'[s] = ledger[s]
      PROVE  Frozen(b) /\ closure'[b] = closure[b]
  <2>1. r \notin RunsOf(b) BY <1>12 DEF Mutable, RunsOf
  <2> QED BY <1>12, <2>1 DEF Frozen, RunsOf
<1>13. ASSUME NEW r \in Run, NEW f \in Bounded, InterpretReview(r, f)
      PROVE  Frozen(b) /\ closure'[b] = closure[b]
  BY <1>1, <1>12, <1>13 DEF InterpretReview
<1>14. ASSUME NEW r \in Run, NEW owners \in SUBSET Task, AssignReviewFindings(r, owners)
      PROVE  Frozen(b) /\ closure'[b] = closure[b]
  BY <1>1, <1>12, <1>14 DEF AssignReviewFindings
<1>15. ASSUME NEW r \in Run, NEW t \in Task, NEW a \in Answer, SubmitReviewDisposition(r, t, a)
      PROVE  Frozen(b) /\ closure'[b] = closure[b]
  BY <1>1, <1>12, <1>15 DEF SubmitReviewDisposition
<1>16. ASSUME NEW p \in Proc, Review(p)
       PROVE  Frozen(b) /\ closure'[b] = closure[b]
  BY <1>2, <1>6, <1>8, <1>9, <1>10, <1>11, <1>16 DEF Review, Leave, CloseRead
<1>17. CASE Record
  BY <1>3, <1>4, <1>5, <1>13, <1>14, <1>15, <1>17 DEF Record
<1>18. CASE Move \/ NewCommit \/ UNCHANGED vars
  BY <1>2, <1>18 DEF Move, NewCommit, vars, Deliver, Rework, MoveDone, Reclaim, Place
<1> QED BY <1>16, <1>17, <1>18 DEF Next

-----------------------------------------------------------------------------
(* The plan and the batches.                                                 *)

\* The plan has the very entry of a batch that was opened with it.
AsEntry(b, x) == [id |-> b, tasks |-> x.tasks, base |-> x.base, target |-> x.target,
                  prev |-> x.prev]
Backed(b) ==
  batch[b] # None => (batch[b].planned =>
    \E i \in 1 .. Len(Planned) : Planned[i] = AsEntry(b, batch[b]))

\* What every step keeps of a plan: entries are added at the end, for batches
\* that were not there, and only targets of entries are rewritten.
Grows ==
  /\ Len(Planned) <= Len(Planned')
  /\ \A i \in 1 .. Len(Planned) :
       Planned'[i].id = Planned[i].id /\ Planned'[i].base = Planned[i].base
  /\ \A i \in 1 .. Len(Planned') : i > Len(Planned) =>
       Open(Planned'[i].id) /\ UNCHANGED closure
PlanKept ==
  /\ plan' \in PlanRecord \cup {None} /\ batch' \in [Batch -> BatchRecord \cup {None}]
  /\ PlanOK' /\ Grows
  /\ \A b \in Batch : BatchOK(b)' /\ (batch[b] # None => batch'[b] # None)

LEMMA PlanSame ==
  ASSUME IInv, UNCHANGED <<plan, batch>>
  PROVE  PlanKept
<1>1. Len(Planned) \in Nat BY PlannedType DEF IInv
<1>2. Planned' = Planned /\ batch' = batch /\ plan' = plan BY DEF Planned
<1>3. PlanOK' BY <1>2 DEF PlanOK, IInv
<1>4. Grows BY <1>1, <1>2 DEF Grows
<1>5. \A b \in Batch : BatchOK(b)' BY <1>2 DEF BatchOK, Listed, IInv
<1> QED BY <1>2, <1>3, <1>4, <1>5 DEF PlanKept, IInv, TypeOK

\* A new batch that is not of the plan, or a new target of one.
LEMMA BatchSet ==
  ASSUME IInv, NEW b \in Batch, NEW x \in BatchRecord, batch' = [batch EXCEPT ![b] = x],
         plan' = plan, x.planned => Listed(b)
  PROVE  PlanKept
<1>1. Len(Planned) \in Nat /\ \A c : Listed(c)' = Listed(c)
  BY PlannedType DEF IInv, Listed, Planned
<1>2. batch' \in [Batch -> BatchRecord \cup {None}] /\ batch'[b] = x
      /\ \A c \in Batch : c # b => batch'[c] = batch[c]
  BY DEF IInv, TypeOK
<1>3. \A c \in Batch : BatchOK(c)'
  BY <1>1, <1>2 DEF BatchOK, IInv
<1>4. PlanOK'
  <2> SUFFICES ASSUME plan # None PROVE \A i \in 1 .. Len(plan.batches) :
                 plan.batches[i].id \in Batch /\ batch'[plan.batches[i].id] # None
    BY DEF PlanOK, IInv
  <2>1. plan.batches = Planned /\ Planned \in Seq(EntryRecord)
        /\ \A i \in 1 .. Len(Planned) : batch[Planned[i].id] # None
    BY PlannedType DEF IInv, Planned
  <2>2. \A i \in 1 .. Len(Planned) : Planned[i].id \in Batch
    BY <2>1, EntryTypes
  <2> QED BY <1>2, <2>1, <2>2, NoRecord
<1>5. Grows BY <1>1 DEF Grows, Planned
<1>6. \A c \in Batch : batch[c] # None => batch'[c] # None
  BY <1>2, NoRecord
<1> QED BY <1>2, <1>3, <1>4, <1>5, <1>6 DEF PlanKept, IInv, TypeOK

\* The same entries, but for the target of one.
LEMMA Rewrites ==
  ASSUME NEW q \in PlanRecord, NEW i \in 1 .. Len(q.batches), NEW x \in Commit,
         NEW w, w = [q EXCEPT !.batches[i].target = x]
  PROVE  /\ w \in PlanRecord /\ Len(w.batches) = Len(q.batches)
         /\ w.sealed = q.sealed /\ w.cycles = q.cycles
         /\ \A j \in 1 .. Len(q.batches) :
              /\ w.batches[j].id = q.batches[j].id /\ w.batches[j].base = q.batches[j].base
              /\ w.batches[j].prev = q.batches[j].prev /\ w.batches[j].tasks = q.batches[j].tasks
              /\ w.batches[j].target = IF j = i THEN x ELSE q.batches[j].target
              /\ j # i => w.batches[j] = q.batches[j]
<1> DEFINE s == q.batches
           e == [s[i] EXCEPT !.target = x]
<1>1. s \in Seq(EntryRecord) /\ s[i] \in EntryRecord BY DEF PlanRecord
<1>2. /\ e \in EntryRecord /\ e.id = s[i].id /\ e.base = s[i].base /\ e.prev = s[i].prev
      /\ e.tasks = s[i].tasks /\ e.target = x
  BY <1>1 DEF EntryRecord
<1>3. w.sealed = q.sealed /\ w.cycles = q.cycles /\ w.batches = [s EXCEPT ![i] = e]
      /\ w = [q EXCEPT !.batches = [s EXCEPT ![i] = e]]
  BY DEF PlanRecord
<1> HIDE DEF e
<1>4. [s EXCEPT ![i] = e] \in Seq(EntryRecord) /\ Len([s EXCEPT ![i] = e]) = Len(s)
      /\ \A j \in 1 .. Len(s) : [s EXCEPT ![i] = e][j] = IF j = i THEN e ELSE s[j]
  BY <1>1, <1>2
<1>5. w \in PlanRecord BY <1>3, <1>4 DEF PlanRecord
<1>6. \A j \in 1 .. Len(s) : w.batches[j] = IF j = i THEN e ELSE s[j] BY <1>3, <1>4
<1>7. Len(w.batches) = Len(s) BY <1>3, <1>4
<1> QED BY <1>2, <1>3, <1>5, <1>6, <1>7

\* An entry of the plan gets a new target.
LEMMA Retargets ==
  ASSUME IInv, plan # None, NEW i \in 1 .. Len(plan.batches), NEW x \in Commit,
         plan' = [plan EXCEPT !.batches[i].target = x],
         batch' \in [Batch -> BatchRecord \cup {None}],
         \A b \in Batch : batch[b] # None => batch'[b] # None,
         \A b \in Batch : batch'[b] # None /\ batch'[b].planned =>
                            batch[b] # None /\ batch[b].planned
  PROVE  PlanKept
<1>1. plan \in PlanRecord BY DEF IInv, TypeOK
<1>2. /\ plan' \in PlanRecord /\ Len(plan'.batches) = Len(plan.batches)
      /\ \A j \in 1 .. Len(plan.batches) :
           /\ plan'.batches[j].id = plan.batches[j].id
           /\ plan'.batches[j].base = plan.batches[j].base
           /\ plan'.batches[j].prev = plan.batches[j].prev
  BY <1>1, Rewrites
<1>3. plan' # None /\ Planned = plan.batches /\ Planned' = plan'.batches
  BY <1>2, NoRecord DEF Planned
<1>4. Planned \in Seq(EntryRecord) /\ Len(Planned) \in Nat BY PlannedType DEF IInv
<1>5. \A j \in 1 .. Len(Planned) : Planned[j].id \in Batch BY <1>4, EntryTypes
<1>6. PlanOK'
  <2>1. IdsApart(plan'.batches) BY <1>2 DEF IInv, PlanOK, IdsApart
  <2>2. Chained(plan'.batches)
    <3>1. \A j \in 1 .. Len(plan.batches) :
            plan.batches[j].prev = IF j = 1 THEN None ELSE plan.batches[j-1].id
      BY DEF IInv, PlanOK, Chained
    <3>2. \A j \in 1 .. Len(plan.batches) : j # 1 => j-1 \in 1 .. Len(plan.batches)
      BY <1>3, <1>4
    <3> QED BY <1>2, <3>1, <3>2 DEF Chained
  <2>3. Len(plan'.batches) >= 1 BY <1>2 DEF IInv, PlanOK
  <2>4. \A j \in 1 .. Len(plan.batches) :
          batch[plan.batches[j].id] # None /\ plan.batches[j].id \in Batch
    BY <1>3, <1>5 DEF IInv, PlanOK
  <2>5. \A j \in 1 .. Len(plan'.batches) : batch'[plan'.batches[j].id] # None
    <3> SUFFICES ASSUME NEW j \in 1 .. Len(plan'.batches)
                 PROVE  batch'[plan'.batches[j].id] # None
      OBVIOUS
    <3>2. plan'.batches[j].id = plan.batches[j].id /\ j \in 1 .. Len(plan.batches) BY <1>2
    <3> QED BY <2>4, <3>2
  <2> QED BY <2>1, <2>2, <2>3, <2>5 DEF PlanOK
<1>7. \A b \in Batch : Listed(b)' = Listed(b)
  BY <1>2, <1>3 DEF Listed
<1>8. \A b \in Batch : BatchOK(b)' BY <1>7 DEF IInv, BatchOK
<1>9. Grows BY <1>2, <1>3, <1>4 DEF Grows
<1> QED BY <1>2, <1>6, <1>8, <1>9 DEF PlanKept

LEMMA BatchRetarget ==
  ASSUME IInv, NEW b \in Batch, batch[b] # None, NEW target \in Commit, retarget(b, target)
  PROVE  PlanKept
<1> DEFINE x == [batch[b] EXCEPT !.target = target]
<1>1. batch[b] \in BatchRecord BY DEF IInv, TypeOK
<1>2. x \in BatchRecord /\ x.planned = batch[b].planned BY <1>1 DEF BatchRecord
<1>3. batch' = [batch EXCEPT ![b] = x] BY DEF retarget
<1> HIDE DEF x
<1>4. CASE ~batch[b].planned
  BY <1>2, <1>3, <1>4, BatchSet DEF retarget
<1>5. CASE batch[b].planned
  <2>1. Listed(b) BY <1>5 DEF IInv, BatchOK
  <2>2. plan # None /\ Planned = plan.batches
    BY <2>1 DEF Listed, Planned
  <2>3. EntryOf(b) \in 1 .. Len(plan.batches)
    BY <2>1, <2>2, EntryPlace DEF IInv, Listed
  <2>4. plan' = [plan EXCEPT !.batches[EntryOf(b)].target = target]
    BY <1>5 DEF retarget
  <2>5. batch' \in [Batch -> BatchRecord \cup {None}] /\ batch'[b] = x
        /\ \A c \in Batch : c # b => batch'[c] = batch[c]
    BY <1>2, <1>3 DEF IInv, TypeOK
  <2> QED BY <1>2, <2>2, <2>3, <2>4, <2>5, Retargets, NoRecord
<1> QED BY <1>4, <1>5

LEMMA PlanCreated ==
  ASSUME IInv, CreateReviewPlan
  PROVE  PlanKept
<1>1. TypeOK BY DEF IInv
<1>2. /\ plan = None /\ plan' \in PlanRecord
      /\ Len(plan'.batches) >= 1 /\ IdsApart(plan'.batches) /\ Chained(plan'.batches)
      /\ batch' \in [Batch -> BatchRecord \cup {None}]
      /\ \A i \in 1 .. Len(plan'.batches) :
           batch'[plan'.batches[i].id] = EntryBatch(plan'.batches[i])
      /\ \A b \in Batch : (\A i \in 1 .. Len(plan'.batches) : plan'.batches[i].id # b) =>
           batch'[b] = batch[b]
  BY <1>1, Created
<1>3. plan' # None /\ Planned = <<>> /\ Planned' = plan'.batches
  BY <1>2, NoRecord DEF Planned
<1>4. plan'.batches \in Seq(EntryRecord) BY <1>2 DEF PlanRecord
<1>5. \A i \in 1 .. Len(plan'.batches) :
        batch'[plan'.batches[i].id] # None /\ plan'.batches[i].id \in Batch
  <2> SUFFICES ASSUME NEW i \in 1 .. Len(plan'.batches)
               PROVE  batch'[plan'.batches[i].id] # None /\ plan'.batches[i].id \in Batch
    OBVIOUS
  <2>1. plan'.batches[i] \in EntryRecord BY <1>4
  <2>2. EntryBatch(plan'.batches[i]) # None BY <2>1, EntryBatchType, NoRecord
  <2> QED BY <1>2, <2>1, <2>2 DEF EntryRecord
<1>6. PlanOK' BY <1>2, <1>5 DEF PlanOK
<1>7. \A b \in Batch : ~Listed(b) BY <1>3 DEF Listed
<1>8. \A b \in Batch : BatchOK(b)'
  BY <1>2, <1>3, <1>7 DEF IInv, BatchOK, Listed
<1>9. \A b \in Batch : Open(b)
  BY <1>7 DEF IInv, BatchOK, ClosedOK
<1>10. Grows
  <2>1. UNCHANGED closure BY DEF CreateReviewPlan
  <2>2. Len(plan'.batches) \in Nat BY <1>4
  <2> QED BY <1>3, <1>5, <1>9, <2>1, <2>2 DEF Grows
<1>11. \A b \in Batch : batch[b] # None => batch'[b] # None
  BY <1>2, <1>5
<1> QED BY <1>2, <1>6, <1>8, <1>10, <1>11 DEF PlanKept

LEMMA PlanExtended ==
  ASSUME IInv, ExtendBatch
  PROVE  PlanKept /\ \A c \in Batch : Backed(c) => Backed(c)'
<1>1. PICK b \in Batch, tasks \in (SUBSET Task) \ {{}}, base \in Commit, target \in 0 .. head,
           seal \in BOOLEAN :
        LET prev == Last(plan.batches).id
            entry == [id |-> b, tasks |-> tasks, base |-> base, target |-> target, prev |-> prev]
        IN /\ batch[b] = None /\ base <= target
           /\ previousClosed(prev, base)
           /\ seal => UNION {e.tasks : e \in ToSet(plan.batches) \cup {entry}} = Task
           /\ plan' = [plan EXCEPT !.batches = Append(@, entry), !.sealed = seal]
           /\ batch' = [batch EXCEPT ![b] = [tasks |-> tasks, base |-> base, target |-> target,
                                             planned |-> TRUE, prev |-> prev]]
  BY DEF ExtendBatch
<1> DEFINE s == plan.batches
           entry == [id |-> b, tasks |-> tasks, base |-> base, target |-> target,
                     prev |-> Last(s).id]
           x == [tasks |-> tasks, base |-> base, target |-> target, planned |-> TRUE,
                 prev |-> Last(s).id]
<1>2. plan # None /\ plan \in PlanRecord /\ s \in Seq(EntryRecord) /\ Len(s) >= 1 /\ Planned = s
  BY DEF ExtendBatch, IInv, TypeOK, PlanOK, PlanRecord, Planned
<1>3. Len(s) \in Nat /\ Last(s) = s[Len(s)] /\ s[Len(s)] \in EntryRecord
  BY <1>2 DEF Last
<1>4. Last(s).id \in Batch BY <1>3 DEF EntryRecord
<1>5. target \in Commit
  <2>1. head \in 0 .. MaxCommit /\ MaxCommit \in Nat BY ReviewAssumption DEF IInv, TypeOK, Commit
  <2> QED BY <2>1 DEF Commit
<1>6. entry \in EntryRecord /\ entry.id = b /\ entry.prev = Last(s).id
  BY <1>4, <1>5 DEF EntryRecord
<1>7. x \in BatchRecord BY <1>4, <1>5 DEF BatchRecord
<1>8. plan' = [plan EXCEPT !.batches = Append(s, entry), !.sealed = seal]
      /\ batch' = [batch EXCEPT ![b] = x]
  BY <1>1
<1> HIDE DEF entry, x
<1>9. Append(s, entry) \in Seq(EntryRecord) /\ Len(Append(s, entry)) = Len(s) + 1
      /\ \A i \in 1 .. Len(s) : Append(s, entry)[i] = s[i]
      /\ Append(s, entry)[Len(s) + 1] = entry
  BY <1>2, <1>3, <1>6
<1>10. plan' \in PlanRecord /\ plan'.batches = Append(s, entry)
  BY <1>2, <1>8, <1>9 DEF PlanRecord
<1>11. plan' # None /\ Planned' = Append(s, entry)
  BY <1>10, NoRecord DEF Planned
<1> DEFINE w == Append(s, entry)
<1> HIDE DEF w
<1>12. /\ w \in Seq(EntryRecord) /\ Len(w) = Len(s) + 1 /\ \A i \in 1 .. Len(s) : w[i] = s[i]
       /\ w[Len(s) + 1] = entry
  BY <1>9 DEF w
<1>13. batch' \in [Batch -> BatchRecord \cup {None}] /\ batch'[b] = x
       /\ \A c \in Batch : c # b => batch'[c] = batch[c]
  BY <1>7, <1>8 DEF IInv, TypeOK
<1>14. /\ IdsApart(s) /\ Chained(s)
       /\ \A i \in 1 .. Len(s) : batch[s[i].id] # None /\ s[i].id \in Batch
  <2>1. \A i \in 1 .. Len(s) : s[i].id \in Batch BY <1>2, EntryTypes
  <2> QED BY <1>2, <2>1 DEF IInv, PlanOK
<1>15. batch[b] = None BY <1>1
<1>16. \A i \in 1 .. Len(s) : s[i].id # b BY <1>14, <1>15
<1> HIDE DEF s
<1>17. \A i \in 1 .. Len(w) : i \in 1 .. Len(s) \/ i = Len(s) + 1
  BY <1>3, <1>12
<1>18. IdsApart(w)
  <2> SUFFICES ASSUME NEW i \in 1 .. Len(w), NEW j \in 1 .. Len(w), w[i].id = w[j].id
               PROVE  i = j
    BY DEF IdsApart
  <2>1. CASE i \in 1 .. Len(s) /\ j \in 1 .. Len(s)
    BY <1>12, <1>14, <2>1 DEF IdsApart
  <2>2. CASE i = Len(s) + 1 \/ j = Len(s) + 1
    BY <1>6, <1>12, <1>16, <1>17, <2>2
  <2> QED BY <1>17, <2>1, <2>2
<1>19. Chained(w)
  <2> SUFFICES ASSUME NEW i \in 1 .. Len(w)
               PROVE  w[i].prev = IF i = 1 THEN None ELSE w[i-1].id
    BY DEF Chained
  <2>1. CASE i \in 1 .. Len(s)
    <3>1. i # 1 => i-1 \in 1 .. Len(s) BY <1>3, <2>1
    <3>2. w[i] = s[i] /\ (i # 1 => w[i-1] = s[i-1]) BY <1>12, <2>1, <3>1
    <3> QED BY <1>14, <2>1, <3>2 DEF Chained
  <2>2. CASE i = Len(s) + 1
    <3>1. i # 1 /\ i-1 = Len(s) /\ Len(s) \in 1 .. Len(s) BY <1>2, <1>3, <2>2
    <3>2. w[i-1] = s[Len(s)] BY <1>12, <3>1
    <3> QED BY <1>3, <1>6, <1>12, <2>2, <3>1, <3>2
  <2> QED BY <1>17, <2>1, <2>2
<1>20. \A i \in 1 .. Len(w) : batch'[w[i].id] # None
  <2> SUFFICES ASSUME NEW i \in 1 .. Len(w) PROVE batch'[w[i].id] # None
    OBVIOUS
  <2>1. CASE i \in 1 .. Len(s) BY <1>12, <1>13, <1>14, <1>16, <2>1
  <2>2. CASE i = Len(s) + 1 BY <1>6, <1>7, <1>12, <1>13, <2>2, NoRecord
  <2> QED BY <1>17, <2>1, <2>2
<1>21. plan'.batches = w /\ Planned' = w BY <1>10, <1>11 DEF w
<1>22. PlanOK'
  <2>1. Len(w) >= 1 BY <1>2, <1>3, <1>12
  <2> QED BY <1>18, <1>19, <1>20, <1>21, <2>1 DEF PlanOK
<1>23. \A c \in Batch : BatchOK(c)'
  <2> SUFFICES ASSUME NEW c \in Batch, batch'[c] # None, batch'[c].planned
               PROVE  \E i \in 1 .. Len(w) : w[i].id = c
    BY <1>21 DEF BatchOK, Listed
  <2>1. CASE c = b
    <3>1. Len(s) + 1 \in 1 .. Len(w) BY <1>3, <1>12
    <3> QED BY <1>6, <1>12, <2>1, <3>1
  <2>2. CASE c # b
    <3>1. Listed(c) BY <1>13, <2>2 DEF IInv, BatchOK
    <3>2. PICK i \in 1 .. Len(s) : s[i].id = c BY <1>2, <3>1 DEF Listed
    <3>3. i \in 1 .. Len(w) BY <1>3, <1>12
    <3> QED BY <1>12, <3>2, <3>3
  <2> QED BY <2>1, <2>2
<1>24. Grows
  <2>1. UNCHANGED closure BY DEF ExtendBatch
  <2>2. Open(b) BY <1>15 DEF IInv, ClosedOK
  <2>3. \A i \in 1 .. Len(w) : i > Len(s) => w[i].id = b
    BY <1>3, <1>6, <1>12, <1>17
  <2> QED BY <1>2, <1>3, <1>12, <1>21, <2>1, <2>2, <2>3 DEF Grows
<1>25. \A c \in Batch : batch[c] # None => batch'[c] # None BY <1>13, <1>15
<1>26. ASSUME NEW c \in Batch, Backed(c) PROVE Backed(c)'
  <2> SUFFICES ASSUME batch'[c] # None, batch'[c].planned
               PROVE  \E i \in 1 .. Len(w) : w[i] = AsEntry(c, batch'[c])
    BY <1>21 DEF Backed, AsEntry
  <2>1. CASE c = b
    <3>1. Len(s) + 1 \in 1 .. Len(w) BY <1>3, <1>12
    <3>2. entry = AsEntry(b, x) BY DEF entry, x, AsEntry
    <3> QED BY <1>12, <1>13, <2>1, <3>1, <3>2
  <2>2. CASE c # b
    <3>1. batch'[c] = batch[c] BY <1>13, <2>2
    <3>2. PICK i \in 1 .. Len(s) : s[i] = AsEntry(c, batch[c])
      BY <1>2, <1>26, <3>1 DEF Backed
    <3>3. i \in 1 .. Len(w) BY <1>3, <1>12
    <3> QED BY <1>12, <3>1, <3>2, <3>3
  <2> QED BY <2>1, <2>2
<1> QED BY <1>10, <1>13, <1>22, <1>23, <1>24, <1>25, <1>26 DEF PlanKept

\* The plan is sealed, or follows its cards: the entries stay.
LEMMA SameEntries ==
  ASSUME IInv, plan # None, plan' \in PlanRecord, plan'.batches = plan.batches,
         UNCHANGED batch
  PROVE  PlanKept
<1>1. plan' # None /\ Planned' = Planned BY NoRecord DEF Planned
<1>2. Len(Planned) \in Nat BY PlannedType DEF IInv
<1>3. PlanOK' BY <1>1 DEF IInv, PlanOK
<1> QED BY <1>1, <1>2, <1>3 DEF PlanKept, IInv, TypeOK, Grows, BatchOK, Listed

LEMMA PlanStep ==
  ASSUME IInv, [Next]_vars
  PROVE  PlanKept
<1>1. CASE UNCHANGED <<plan, batch>> BY <1>1, PlanSame
<1>2. CASE SealPlan
  <2>1. plan \in PlanRecord /\ plan # None BY <1>2 DEF SealPlan, IInv, TypeOK
  <2>2. plan' \in PlanRecord /\ plan'.batches = plan.batches /\ UNCHANGED batch
    BY <1>2, <2>1 DEF SealPlan, PlanRecord
  <2> QED BY <2>1, <2>2, SameEntries
<1>3. CASE RebindCycles
  <2>1. plan \in PlanRecord /\ plan # None BY <1>3 DEF RebindCycles, IInv, TypeOK
  <2>2. [t \in Task |-> card[t].cycle] \in [Task -> Nat]
    BY DEF IInv, TypeOK, CardRecord
  <2>3. plan' \in PlanRecord /\ plan'.batches = plan.batches /\ UNCHANGED batch
    BY <1>3, <2>1, <2>2 DEF RebindCycles, PlanRecord
  <2> QED BY <2>1, <2>3, SameEntries
<1>4. CASE SyncTargets
  <2>1. plan # None /\ UNCHANGED batch BY <1>4 DEF SyncTargets
  <2>2. PICK i \in 1 .. Len(plan.batches) :
          plan' = [plan EXCEPT !.batches[i].target = batch[plan.batches[i].id].target]
    BY <1>4 DEF SyncTargets
  <2>3. plan.batches \in Seq(EntryRecord) BY <2>1 DEF IInv, TypeOK, PlanRecord
  <2>4. plan.batches[i].id \in Batch BY <2>3, EntryTypes
  <2>5. batch[plan.batches[i].id] \in BatchRecord
    BY <2>1, <2>4 DEF IInv, TypeOK, PlanOK
  <2>6. batch[plan.batches[i].id].target \in Commit BY <2>5 DEF BatchRecord
  <2>7. batch' \in [Batch -> BatchRecord \cup {None}] BY <2>1 DEF IInv, TypeOK
  <2> QED BY <2>1, <2>2, <2>6, <2>7, Retargets
<1>5. ASSUME NEW b \in Batch, NEW target \in Commit, AdvanceReviewBatch(b, target)
      PROVE  PlanKept
  BY <1>5, BatchRetarget DEF AdvanceReviewBatch
<1>6. ASSUME NEW p \in Proc, NEW r \in Run, NEW b \in Batch, NEW prev \in Run \cup {None},
             PrepareReviewRun(p, r, b, prev)
      PROVE  PlanKept
  <2>1. head \in Commit BY DEF IInv, TypeOK
  <2>2. CASE batch[b] = None
    <3>1. PICK tasks \in (SUBSET Task) \ {{}}, base \in Base :
             batch' = [batch EXCEPT ![b] = [tasks |-> tasks, base |-> base, target |-> head,
                          planned |-> FALSE, prev |-> None]]
      BY <1>6, <2>2 DEF PrepareReviewRun
    <3> DEFINE x == [tasks |-> tasks, base |-> base, target |-> head,
                     planned |-> FALSE, prev |-> None]
    <3>2. x \in BatchRecord /\ ~x.planned
      BY <2>1, ReviewAssumption DEF BatchRecord, Commit
    <3>3. batch' = [batch EXCEPT ![b] = x] /\ plan' = plan
      BY <1>6, <2>2, <3>1 DEF PrepareReviewRun
    <3> HIDE DEF x
    <3> QED BY <3>2, <3>3, BatchSet
  <2>3. CASE batch[b] # None
    BY <1>6, <2>1, <2>3, BatchRetarget, PlanSame DEF PrepareReviewRun
  <2> QED BY <2>2, <2>3
<1>7. ASSUME NEW p \in Proc, Review(p) PROVE PlanKept
  BY <1>1, <1>6, <1>7 DEF Review, Launch, Running, FinalizeReviewRun, Recover,
     PublishReviewRun, Leave, CloseRead, CloseReviewBatch, archive
<1>8. CASE Record
  BY <1>1, <1>2, <1>3, <1>4, <1>5, <1>8, PlanCreated, PlanExtended DEF Record, InterpretReview,
     AssignReviewFindings, SubmitReviewDisposition
<1>9. CASE Move \/ NewCommit \/ UNCHANGED vars
  BY <1>1, <1>9 DEF Move, NewCommit, vars, Deliver, Rework, MoveDone, Reclaim, Place, archive
<1> QED BY <1>7, <1>8, <1>9 DEF Next

-----------------------------------------------------------------------------
(* The conclusion of a batch: its chain has one beginning, so no second full *)
(* first round of another commit hides beside it.                            *)

Before(v, x) == v.runs[x].run.prev
Linked(v, r, S) == r \in S /\ \A x \in S : Before(v, x) \in S \cup {None}
Follows(v) ==
  None \notin DOMAIN v.runs /\ \A x \in DOMAIN v.runs : Before(v, x) \in DOMAIN v.runs \cup {None}

LEMMA ChainDef ==
  ASSUME NEW v, NEW r
  PROVE  /\ Chain(v, r) \subseteq DOMAIN v.runs
         /\ \A S \in SUBSET DOMAIN v.runs : Linked(v, r, S) => Chain(v, r) \subseteq S
         /\ \A x \in DOMAIN v.runs :
              (\A S \in SUBSET DOMAIN v.runs : Linked(v, r, S) => x \in S) => x \in Chain(v, r)
BY DEF Chain, Linked, Before

LEMMA ChainLinked ==
  ASSUME NEW v, Follows(v), NEW r \in DOMAIN v.runs
  PROVE  Linked(v, r, Chain(v, r))
<1>1. r \in Chain(v, r) BY ChainDef DEF Linked
<1>2. ASSUME NEW x \in Chain(v, r) PROVE Before(v, x) \in Chain(v, r) \cup {None}
  <2>1. x \in DOMAIN v.runs BY ChainDef
  <2>2. Before(v, x) \in DOMAIN v.runs \cup {None} BY <2>1 DEF Follows
  <2>3. \A S \in SUBSET DOMAIN v.runs : Linked(v, r, S) => Before(v, x) \in S \cup {None}
    BY ChainDef DEF Linked
  <2> QED BY <2>2, <2>3, ChainDef
<1> QED BY <1>1, <1>2 DEF Linked

\* The chain of a run is the run and the chain of the one before it.
LEMMA ChainFromPrevious ==
  ASSUME NEW v, Follows(v), NEW r \in DOMAIN v.runs
  PROVE  /\ Before(v, r) = None => Chain(v, r) \subseteq {r}
         /\ Before(v, r) # None => Chain(v, r) \subseteq {r} \cup Chain(v, Before(v, r))
<1>1. CASE Before(v, r) = None
  <2>1. Linked(v, r, {r}) BY <1>1 DEF Linked
  <2> QED BY <1>1, <2>1, ChainDef
<1>2. CASE Before(v, r) # None
  <2> DEFINE q == Before(v, r)
             S == {r} \cup Chain(v, q)
  <2>1. q \in DOMAIN v.runs BY <1>2 DEF Follows
  <2>2. Linked(v, q, Chain(v, q)) BY <2>1, ChainLinked
  <2>3. S \in SUBSET DOMAIN v.runs BY ChainDef
  <2>4. Linked(v, r, S) BY <2>2 DEF Linked
  <2> HIDE DEF q
  <2>5. Chain(v, r) \subseteq S BY <2>3, <2>4, ChainDef
  <2> QED BY <1>2, <2>5 DEF q
<1> QED BY <1>1, <1>2

LEMMA OneBeginning ==
  ASSUME NEW v, Follows(v), NEW last \in DOMAIN v.runs,
         NEW a \in Chain(v, last), Before(v, a) = None,
         NEW c \in Chain(v, last), Before(v, c) = None
  PROVE  a = c
<1> DEFINE A == {y \in Chain(v, last) : a \in Chain(v, y)}
<1>1. Linked(v, last, Chain(v, last)) BY ChainLinked
<1>2. Chain(v, last) \subseteq DOMAIN v.runs BY ChainDef
<1>3. last \in A BY <1>1 DEF Linked
<1>4. ASSUME NEW y \in A PROVE Before(v, y) \in A \cup {None}
  <2>1. CASE Before(v, y) = None BY <2>1
  <2>2. CASE Before(v, y) # None
    <3>1. a # y BY <2>2
    <3>2. a \in Chain(v, Before(v, y)) BY <1>2, <2>2, <3>1, ChainFromPrevious
    <3>3. Before(v, y) \in Chain(v, last) BY <1>1, <2>2 DEF Linked
    <3> QED BY <3>2, <3>3
  <2> QED BY <2>1, <2>2
<1>5. Linked(v, last, A) BY <1>3, <1>4 DEF Linked
<1>6. c \in A BY <1>2, <1>5, ChainDef
<1>7. a \in Chain(v, c) BY <1>6
<1> QED BY <1>2, <1>7, ChainFromPrevious

LEMMA OneFirstRound ==
  ASSUME NEW v, Follows(v), NEW last, NEW passedAt, ReviewClosureEdges(v, last, passedAt),
         NEW r \in OkRuns(v), Before(v, r) = None,
         NEW x \in OkRuns(v), Before(v, x) = None
  PROVE  v.runs[r].run.commit = v.runs[x].run.commit
<1>1. last \in DOMAIN v.runs
      /\ \A y \in OkRuns(v) \ Chain(v, last) : superseded(v, Chain(v, last), last, y)
  BY DEF ReviewClosureEdges, OkRuns
<1>2. None \notin OkRuns(v) BY DEF Follows, OkRuns
<1>3. ASSUME NEW y \in OkRuns(v), Before(v, y) = None
      PROVE  \E z \in Chain(v, last) :
               v.runs[z].run.commit = v.runs[y].run.commit /\ Before(v, z) = None
  <2>1. CASE y \in Chain(v, last) BY <1>3, <2>1
  <2>2. CASE y \notin Chain(v, last)
    <3>1. superseded(v, Chain(v, last), last, y) BY <1>1, <2>2
    <3> QED BY <1>2, <1>3, <3>1 DEF superseded, Before
  <2> QED BY <2>1, <2>2
<1>4. PICK a \in Chain(v, last) :
        v.runs[a].run.commit = v.runs[r].run.commit /\ Before(v, a) = None
  BY <1>3
<1>5. PICK c \in Chain(v, last) :
        v.runs[c].run.commit = v.runs[x].run.commit /\ Before(v, c) = None
  BY <1>3
<1>6. a = c BY <1>1, <1>4, <1>5, OneBeginning
<1> QED BY <1>4, <1>5, <1>6

\* What `review close` checks is what a closed batch promises.
LEMMA CheckedIsReviewed ==
  ASSUME IInv, NEW b \in Batch, batch[b] # None, Aggregates(b), NEW last, NEW passedAt,
         ReviewClosureEdges(View(b), last, passedAt),
         NEW c, c.view = View(b), c.target = batch[b].target, c.last = last
  PROVE  Reviewed(c)
<1> DEFINE v == View(b)
           ok == OkRuns(v)
<1>1. /\ DOMAIN v.runs = RunsOf(b) /\ v.batch = batch[b]
      /\ \A r \in RunsOf(b) : /\ v.runs[r].run = run[r] /\ v.runs[r].reading = reading[r]
                             /\ v.runs[r].ledger = ledger[r]
  BY DEF View
<1> HIDE DEF v
<1>2. /\ last \in ok /\ \A r \in ok : FindingsIn(v, r) # None
      /\ \A r \in DOMAIN v.runs \ ok : failureResolved(v, Chain(v, last), r)
      /\ \A r \in ok : \A a \in Answers(v, r) :
            /\ a.status # "confirmed"
            /\ a.status = "fixed" =>
                  /\ v.runs[r].run.commit < a.fix /\ a.fix <= v.batch.target
                  /\ fixCovered(v, last, passedAt, r, a)
  BY DEF ReviewClosureEdges, v
<1>3. \A r \in RunsOf(b) : r \in Run /\ run[r] \in RunRecord /\ run[r] # None /\ run[r].batch = b
  BY DEF RunsOf, IInv, TypeOK
<1>4. ok = {r \in RunsOf(b) : run[r].status = "ok"}
  BY <1>1 DEF OkRuns
<1>5. Follows(v)
  <2>1. \A r \in RunsOf(b) : FollowsOK(r) BY <1>3 DEF IInv
  <2>2. \A r \in RunsOf(b) : run[r].prev \in Run \cup {None} BY <1>3 DEF RunRecord
  <2>3. \A r \in RunsOf(b) : run[r].prev \in RunsOf(b) \cup {None}
    BY <1>3, <2>1, <2>2 DEF FollowsOK, RunsOf
  <2>4. None \notin RunsOf(b) BY <1>3, ReviewAssumption
  <2> QED BY <1>1, <2>3, <2>4 DEF Follows, Before
<1>6. ASSUME NEW r \in ok
      PROVE  /\ ledger[r] \in LedgerRecord
             /\ \A t \in ledger[r].owners : ledger[r].records[t] # <<>>
  <2>1. r \in RunsOf(b) /\ Ok(r) BY <1>4 DEF Ok
  <2>2. ~Pending(r)
    BY <1>1, <1>2, <2>1 DEF FindingsIn, Pending, runFindings
  <2>3. ledgerComplete(r) BY <2>1, <2>2 DEF Aggregates
  <2> QED BY <1>3, <2>1, <2>3 DEF ledgerComplete, IInv, TypeOK
<1> DEFINE answer(r, t) == Last(v.runs[r].ledger.records[t])
<1>7. ASSUME NEW r \in ok, NEW t \in v.runs[r].ledger.owners
      PROVE  /\ v.runs[r].ledger.records[t] # <<>>
             /\ answer(r, t) \in AnswerRecord /\ answer(r, t) \in Answers(v, r)
  <2>1. v.runs[r].ledger = ledger[r] BY <1>1, <1>4
  <2>2. ledger[r].records[t] \in Seq(AnswerRecord) /\ ledger[r].records[t] # <<>>
    BY <1>6, <1>7, <2>1 DEF LedgerRecord
  <2>3. Last(ledger[r].records[t]) \in AnswerRecord BY <2>2 DEF Last
  <2>4. answer(r, t) \in Answers(v, r) BY <1>7 DEF Answers
  <2> QED BY <2>1, <2>2, <2>3, <2>4
<1>8. ASSUME NEW r \in ok, NEW t \in v.runs[r].ledger.owners
      PROVE  LET a == answer(r, t) IN
             \/ a.status = "rejected"
             \/ /\ a.status = "fixed" /\ v.runs[r].run.commit < a.fix /\ a.fix <= c.target
                /\ \/ r = last /\ a.mech
                   \/ \E x \in ok \ {r} : a.fix <= v.runs[x].run.commit
  <2> DEFINE a == answer(r, t)
  <2>1. a \in AnswerRecord /\ a \in Answers(v, r) BY <1>7, <1>8
  <2> HIDE DEF a
  <2>2. a.status \in {"rejected", "fixed"} BY <1>2, <2>1 DEF AnswerRecord
  <2>3. a.status = "fixed" => /\ v.runs[r].run.commit < a.fix /\ a.fix <= c.target
                              /\ fixCovered(v, last, passedAt, r, a)
    BY <1>1, <1>2, <2>1
  <2>4. a.status = "fixed" => \/ r = last /\ a.mech
                              \/ \E x \in ok \ {r} : a.fix <= v.runs[x].run.commit
    BY <1>2, <2>3 DEF fixCovered
  <2> QED BY <2>2, <2>3, <2>4 DEF a
<1>9. \A r \in DOMAIN v.runs : \E x \in ok : v.runs[r].run.commit <= v.runs[x].run.commit
  <2> SUFFICES ASSUME NEW r \in DOMAIN v.runs
               PROVE  \E x \in ok : v.runs[r].run.commit <= v.runs[x].run.commit
    OBVIOUS
  <2>1. CASE r \in ok
    <3>1. v.runs[r].run.commit \in Int
      BY <1>1, <1>3, ReviewAssumption DEF RunRecord, Commit
    <3> QED BY <2>1, <3>1
  <2>2. CASE r \notin ok BY <1>2, <2>2 DEF failureResolved
  <2> QED BY <2>1, <2>2
<1>10. \A r, x \in ok : v.runs[r].run.prev = None /\ v.runs[x].run.prev = None
                              => v.runs[r].run.commit = v.runs[x].run.commit
  BY <1>5, OneFirstRound DEF Before, v
<1>11. c.view = v BY DEF v
<1>12. \A r \in ok : \A a \in {Last(v.runs[r].ledger.records[t]) : t \in v.runs[r].ledger.owners} :
             \/ a.status = "rejected"
             \/ /\ a.status = "fixed" /\ v.runs[r].run.commit < a.fix /\ a.fix <= c.target
                /\ \/ r = last /\ a.mech
                   \/ \E x \in ok \ {r} : a.fix <= v.runs[x].run.commit
  BY <1>8
<1> HIDE DEF ok, answer
<1>13. ok # {} BY <1>2
<1>14. \A r \in ok : \A t \in v.runs[r].ledger.owners : v.runs[r].ledger.records[t] # <<>>
  BY <1>7
<1> QED BY <1>9, <1>10, <1>11, <1>12, <1>13, <1>14 DEF Reviewed, ok

-----------------------------------------------------------------------------
(* Closures.                                                                 *)

\* What a step closes.
LEMMA Closing ==
  ASSUME IInv, [Next]_vars, NEW b \in Batch, closure'[b] # closure[b]
  PROVE  \E p \in Proc : CloseReviewBatch(p) /\ proc[p].batch = b
<1>1. CASE \E p \in Proc : CloseReviewBatch(p)
  BY <1>1 DEF CloseReviewBatch, IInv, TypeOK
<1>2. CASE UNCHANGED closure BY <1>2
<1> QED
  BY <1>1, <1>2 DEF Next, vars, archive, Review, Record, Move, PrepareReviewRun, Launch, Running,
     FinalizeReviewRun, Recover, PublishReviewRun, Leave, CloseRead, CreateReviewPlan,
     ExtendBatch, SealPlan, RebindCycles, SyncTargets, AdvanceReviewBatch, InterpretReview,
     AssignReviewFindings, SubmitReviewDisposition, Deliver, Rework, MoveDone, Reclaim, Place,
     NewCommit

LEMMA ClosedStep ==
  ASSUME IInv, [Next]_vars, NEW b \in Batch
  PROVE  ClosedOK(b)'
<1>1. CASE closure'[b] = closure[b]
  <2> SUFFICES ASSUME ~Open(b) PROVE ClosedOK(b)'
    BY <1>1 DEF ClosedOK, Open
  <2>1. Frozen(b) BY FrozenStep
  <2>2. View(b)' = View(b) /\ settledReviewBatch(b)' = settledReviewBatch(b) /\ batch'[b] = batch[b]
    BY <2>1, FrozenView DEF Frozen
  <2>3. Reviewed(closure[b])' = Reviewed(closure[b])
    BY <1>1 DEF Reviewed, OkRuns
  <2> QED BY <1>1, <2>2, <2>3 DEF ClosedOK, Open, IInv
<1>2. CASE closure'[b] # closure[b]
  <2>1. PICK p \in Proc : CloseReviewBatch(p) /\ proc[p].batch = b BY <1>2, Closing
  <2>2. /\ batch[b].planned /\ batchPlan(b) /\ Aggregates(b)
        /\ ReviewClosureEdges(View(b), proc[p].last, proc[p].passedAt)
        /\ UNCHANGED <<card, plan, batch, run, reading, ledger, head, launches>>
        /\ closure'[b] = [view |-> View(b), target |-> batch[b].target,
                          last |-> proc[p].last, passedAt |-> proc[p].passedAt]
        /\ SameView(p, b)
    BY <2>1 DEF CloseReviewBatch, IInv, TypeOK
  <2>3. View(b)' = View(b) /\ settledReviewBatch(b)' = settledReviewBatch(b)
    BY <2>2 DEF View, RunsOf, settledReviewBatch, Settled
  <2>6. batch[b] # None BY <2>1 DEF CloseReviewBatch, At, IInv, ClosingOK
  <2>4. Reviewed(closure'[b])
    <3> DEFINE c == closure'[b]
    <3>1. c.view = View(b) /\ c.target = batch[b].target /\ c.last = proc[p].last
      BY <2>2
    <3> HIDE DEF c
    <3>2. Reviewed(c) BY <2>2, <2>6, <3>1, CheckedIsReviewed
    <3> QED BY <3>2 DEF c
  <2>5. Reviewed(closure[b])'
    BY <2>4 DEF Reviewed, OkRuns
  <2> QED BY <2>2, <2>3, <2>5, <2>6 DEF ClosedOK, Aggregates
<1> QED BY <1>1, <1>2

LEMMA ChainStep ==
  ASSUME IInv, [Next]_vars
  PROVE  ClosuresChain'
<1> SUFFICES ASSUME NEW i \in 2 .. Len(Planned'), closure'[Planned'[i].id] # None
             PROVE  /\ closure'[Planned'[i-1].id] # None
                    /\ closure'[Planned'[i-1].id].target = Planned'[i].base
  BY DEF ClosuresChain, Open
<1>0. PlanKept /\ Grows BY PlanStep DEF PlanKept
<1>1. Planned \in Seq(EntryRecord) /\ Len(Planned) \in Nat BY PlannedType DEF IInv
<1>2. Planned' \in Seq(EntryRecord) /\ Len(Planned') \in Nat
  <2>1. Planned' = IF plan' = None THEN <<>> ELSE plan'.batches BY DEF Planned
  <2> QED BY <1>0, <2>1 DEF PlanKept, PlanRecord
<1>3. CASE i > Len(Planned)
  <2>1. i \in 1 .. Len(Planned') BY <1>2
  <2> QED BY <1>0, <1>3, <2>1 DEF Grows, Open
<1>4. CASE i <= Len(Planned)
  <2> DEFINE b == Planned[i].id
             prev == Planned[i-1].id
  <2>1. i \in 1 .. Len(Planned) /\ i-1 \in 1 .. Len(Planned) /\ i # 1 /\ i \in 2 .. Len(Planned)
    BY <1>1, <1>4
  <2>2. Planned'[i].id = b /\ Planned'[i].base = Planned[i].base /\ Planned'[i-1].id = prev
    BY <1>0, <2>1 DEF Grows
  <2>3. b \in Batch /\ prev \in Batch BY <1>1, <2>1, EntryTypes
  <2>4. b # prev
    BY <2>1, PlannedType DEF IInv, IdsApart
  <2> HIDE DEF b, prev
  <2>5. CASE closure'[b] = closure[b]
    <3>1. ~Open(b) BY <2>2, <2>5 DEF Open
    <3>2. ~Open(prev) /\ closure[prev].target = Planned[i].base
      BY <2>1, <3>1 DEF IInv, ClosuresChain, b, prev
    <3>3. closure'[prev] = closure[prev] BY <2>3, <3>2, FrozenStep
    <3> QED BY <2>2, <3>2, <3>3 DEF Open
  <2>6. CASE closure'[b] # closure[b]
    <3>1. PICK p \in Proc : CloseReviewBatch(p) /\ proc[p].batch = b BY <2>3, <2>6, Closing
    <3>2. batch[b].planned /\ batchPlan(b) /\ previousClosed(batch[b].prev, batch[b].base)
      BY <3>1 DEF CloseReviewBatch
    <3>3. EntryOf(b) = i BY <2>1, EntryPlace DEF IInv, b
    <3>4. Planned[i] = [id |-> b, tasks |-> batch[b].tasks, base |-> batch[b].base,
                        target |-> batch[b].target, prev |-> batch[b].prev]
      BY <3>2, <3>3 DEF batchPlan
    <3>5. Planned[i].prev = prev
      BY <2>1, PlannedType DEF IInv, Chained, prev
    <3>6. batch[b].prev = prev /\ batch[b].base = Planned[i].base BY <3>4, <3>5
    <3>7. ~Open(prev) /\ closure[prev].target = Planned[i].base
      BY <2>3, <3>2, <3>6, ReviewAssumption DEF previousClosed
    <3>8. closure'[prev] = closure[prev] BY <2>3, <3>7, FrozenStep
    <3> QED BY <2>2, <3>7, <3>8 DEF Open
  <2> QED BY <2>5, <2>6
<1> QED BY <1>1, <1>3, <1>4

-----------------------------------------------------------------------------
(* Cards that are done.                                                      *)

LEMMA RetargetMoves ==
  ASSUME IInv, NEW b \in Batch, batch[b] # None, NEW x \in Commit, retarget(b, x)
  PROVE  \/ plan' = plan
         \/ /\ batch[b].planned /\ plan # None /\ EntryOf(b) \in 1 .. Len(plan.batches)
            /\ plan' = [plan EXCEPT !.batches[EntryOf(b)].target = x]
<1>1. CASE batch[b].planned
  <2>1. Listed(b) BY <1>1 DEF IInv, BatchOK
  <2>2. plan # None /\ Planned = plan.batches BY <2>1 DEF Listed, Planned
  <2>3. EntryOf(b) \in 1 .. Len(plan.batches)
    BY <2>1, <2>2, EntryPlace DEF IInv, Listed
  <2> QED BY <1>1, <2>2, <2>3 DEF retarget
<1> QED BY <1>1 DEF retarget

\* How a sealed plan may still change.
LEMMA PlanMoves ==
  ASSUME IInv, [Next]_vars, plan # None, plan.sealed
  PROVE  \/ plan' = plan \/ RebindCycles
         \/ \E i \in 1 .. Len(plan.batches), x \in Commit :
              plan' = [plan EXCEPT !.batches[i].target = x]
<1> DEFINE G == \/ plan' = plan \/ RebindCycles
                \/ \E i \in 1 .. Len(plan.batches), x \in Commit :
                     plan' = [plan EXCEPT !.batches[i].target = x]
<1> SUFFICES G OBVIOUS
<1>1. CASE SyncTargets
  <2>1. PICK i \in 1 .. Len(plan.batches) :
          plan' = [plan EXCEPT !.batches[i].target = batch[plan.batches[i].id].target]
    BY <1>1 DEF SyncTargets
  <2>2. plan.batches \in Seq(EntryRecord) BY DEF IInv, TypeOK, PlanRecord
  <2>3. plan.batches[i].id \in Batch BY <2>2, EntryTypes
  <2>4. batch[plan.batches[i].id] \in BatchRecord BY <2>3 DEF IInv, TypeOK, PlanOK
  <2>5. batch[plan.batches[i].id].target \in Commit BY <2>4 DEF BatchRecord
  <2> QED BY <2>1, <2>5
<1>2. ASSUME NEW b \in Batch, NEW x \in Commit, AdvanceReviewBatch(b, x) PROVE G
  <2>1. batch[b] # None /\ retarget(b, x) BY <1>2 DEF AdvanceReviewBatch
  <2> QED BY <2>1, RetargetMoves
<1>3. ASSUME NEW p \in Proc, NEW r \in Run, NEW b \in Batch, NEW prev \in Run \cup {None},
             PrepareReviewRun(p, r, b, prev)
      PROVE  G
  <2>1. head \in Commit BY DEF IInv, TypeOK
  <2>2. plan' = plan \/ (batch[b] # None /\ retarget(b, head))
    BY <1>3 DEF PrepareReviewRun
  <2> QED BY <2>1, <2>2, RetargetMoves
<1>4. ASSUME NEW p \in Proc, Review(p) PROVE G
  BY <1>3, <1>4 DEF Review, Launch, Running, FinalizeReviewRun, Recover,
     PublishReviewRun, Leave, CloseRead, CloseReviewBatch, archive
<1>5. CASE Record
  BY <1>1, <1>2, <1>5 DEF Record, CreateReviewPlan, ExtendBatch, SealPlan, InterpretReview,
     AssignReviewFindings, SubmitReviewDisposition
<1>6. CASE Move \/ NewCommit \/ UNCHANGED vars
  BY <1>6 DEF Move, NewCommit, vars, Deliver, Rework, MoveDone, Reclaim, Place, archive
<1> QED BY <1>4, <1>5, <1>6 DEF Next

\* A plan that has a card that is done: it is not extended any more.
LEMMA DonePlan ==
  ASSUME IInv, [Next]_vars, NEW t \in Task, card[t].place = "done"
  PROVE  /\ plan' # None /\ plan'.sealed /\ plan'.cycles[t] = card[t].cycle
         /\ Len(plan'.batches) = Len(plan.batches)
<1>1. /\ plan # None /\ plan.sealed /\ plan.cycles[t] = card[t].cycle /\ ~Member(t)
      /\ plan \in PlanRecord
  BY DEF IInv, TypeOK, DoneReviewed, Member
<1>2. CASE plan' = plan BY <1>1, <1>2
<1>3. CASE RebindCycles
  <2>1. plan' = [plan EXCEPT !.cycles = [x \in Task |-> card[x].cycle]]
        /\ [x \in Task |-> card[x].cycle] \in [Task -> Nat]
    BY <1>3 DEF RebindCycles, IInv, TypeOK, CardRecord
  <2>2. plan' \in PlanRecord /\ plan'.sealed = plan.sealed /\ plan'.batches = plan.batches
        /\ plan'.cycles[t] = card[t].cycle
    BY <1>1, <2>1 DEF PlanRecord
  <2> QED BY <1>1, <2>2, NoRecord
<1>4. ASSUME NEW i \in 1 .. Len(plan.batches), NEW x \in Commit,
             plan' = [plan EXCEPT !.batches[i].target = x]
      PROVE  /\ plan' # None /\ plan'.sealed /\ plan'.cycles[t] = card[t].cycle
             /\ Len(plan'.batches) = Len(plan.batches)
  <2>1. plan' \in PlanRecord /\ plan'.sealed = plan.sealed /\ plan'.cycles = plan.cycles
        /\ Len(plan'.batches) = Len(plan.batches)
    <3> DEFINE w == plan'
    <3>1. w = [plan EXCEPT !.batches[i].target = x] BY <1>4
    <3> HIDE DEF w
    <3>2. w \in PlanRecord /\ w.sealed = plan.sealed /\ w.cycles = plan.cycles
          /\ Len(w.batches) = Len(plan.batches)
      <4>1. plan \in PlanRecord BY <1>1
      <4> QED BY <4>1, <3>1, Rewrites
    <3> QED BY <3>2 DEF w
  <2> QED BY <1>1, <2>1, NoRecord
<1>5. plan' = plan \/ RebindCycles
      \/ \E i \in 1 .. Len(plan.batches), x \in Commit : plan' = [plan EXCEPT !.batches[i].target = x]
  BY <1>1, PlanMoves
<1> QED BY <1>2, <1>3, <1>4, <1>5

\* How a card moves.
LEMMA CardStep ==
  ASSUME IInv, [Next]_vars
  PROVE  /\ card' \in [Task -> CardRecord]
         /\ \A t \in Task : card[t].place = "done" => card'[t] = card[t]
         /\ \A t \in Task : card'[t].place = "done" /\ card[t].place # "done" =>
              Gate(t) /\ UNCHANGED archive /\ card'[t].cycle = card[t].cycle
<1> DEFINE G == /\ card' \in [Task -> CardRecord]
                /\ \A t \in Task : card[t].place = "done" => card'[t] = card[t]
                /\ \A t \in Task : card'[t].place = "done" /\ card[t].place # "done" =>
                     Gate(t) /\ UNCHANGED archive /\ card'[t].cycle = card[t].cycle
<1> SUFFICES G OBVIOUS
<1>1. card \in [Task -> CardRecord] /\ \A t \in Task : card[t] \in CardRecord
  BY DEF IInv, TypeOK
<1>2. CASE UNCHANGED card BY <1>1, <1>2
<1>3. ASSUME NEW t \in Task, NEW x \in CardRecord, card' = [card EXCEPT ![t] = x],
             card[t].place # "done",
             x.place = "done" => Gate(t) /\ UNCHANGED archive /\ x.cycle = card[t].cycle
      PROVE  G
  BY <1>1, <1>3
<1>4. ASSUME NEW t \in Task, NEW from \in {"working", "review"},
             NEW to \in {"working", "review", "done"}, Place(t, from, to), to = "done" => Gate(t)
      PROVE  G
  <2> DEFINE x == [card[t] EXCEPT !.place = to]
  <2>1. x \in CardRecord /\ x.place = to /\ x.cycle = card[t].cycle BY <1>1 DEF CardRecord
  <2>2. card' = [card EXCEPT ![t] = x] /\ card[t].place = from /\ UNCHANGED archive
    BY <1>4 DEF Place
  <2> HIDE DEF x, G
  <2> QED BY <1>3, <1>4, <2>1, <2>2
<1>5. ASSUME NEW t \in Task, Reclaim(t) PROVE G
  <2> DEFINE x == [place |-> "working", cycle |-> card[t].cycle + 1]
  <2>1. x \in CardRecord /\ x.place = "working" BY <1>1 DEF CardRecord
  <2>2. card' = [card EXCEPT ![t] = x] /\ card[t].place = "review"
    BY <1>5 DEF Reclaim
  <2> HIDE DEF x, G
  <2> QED BY <1>3, <2>1, <2>2
<1> HIDE DEF G
<1>6. CASE Move BY <1>4, <1>5, <1>6 DEF Move, Deliver, Rework, MoveDone
<1>7. ASSUME NEW p \in Proc, Review(p) PROVE G
  BY <1>2, <1>7 DEF Review, PrepareReviewRun, Launch, Running, FinalizeReviewRun, Recover,
     PublishReviewRun, Leave, CloseRead, CloseReviewBatch
<1>8. CASE Record
  BY <1>2, <1>8 DEF Record, CreateReviewPlan, ExtendBatch, SealPlan, RebindCycles, SyncTargets,
     AdvanceReviewBatch, InterpretReview, AssignReviewFindings, SubmitReviewDisposition
<1> QED BY <1>2, <1>6, <1>7, <1>8 DEF Next, vars, NewCommit

LEMMA DoneStep ==
  ASSUME IInv, [Next]_vars
  PROVE  DoneReviewed'
<1> SUFFICES ASSUME NEW t \in Task, card'[t].place = "done"
             PROVE  /\ plan' # None /\ plan'.sealed /\ plan'.cycles[t] = card'[t].cycle
                    /\ \A i \in 1 .. Len(plan'.batches) : closure'[plan'.batches[i].id] # None
  <2>1. PlanKept BY PlanStep
  <2>2. plan' # None => DOMAIN plan'.batches = 1 .. Len(plan'.batches)
    BY <2>1 DEF PlanKept, PlanRecord
  <2> QED BY <2>2 DEF DoneReviewed, ToSet, Open
<1>1. CASE card[t].place = "done"
  <2>1. /\ plan' # None /\ plan'.sealed /\ plan'.cycles[t] = card[t].cycle
        /\ Len(plan'.batches) = Len(plan.batches) /\ card'[t] = card[t]
    BY <1>1, DonePlan, CardStep
  <2>2. plan # None /\ Planned = plan.batches /\ Planned' = plan'.batches
    BY <1>1, <2>1 DEF IInv, DoneReviewed, Planned
  <2>3. Planned \in Seq(EntryRecord) BY PlannedType DEF IInv
  <2>4. \A i \in 1 .. Len(Planned) : Planned[i].id \in Batch BY <2>3, EntryTypes
  <2>5. \A i \in 1 .. Len(Planned) : ~Open(Planned[i].id)
    BY <1>1, <2>2, <2>3 DEF IInv, DoneReviewed, ToSet
  <2>6. \A i \in 1 .. Len(Planned) : closure'[Planned[i].id] # None
    BY <2>4, <2>5, FrozenStep DEF Open
  <2>7. \A i \in 1 .. Len(Planned) : Planned'[i].id = Planned[i].id
    BY PlanStep DEF PlanKept, Grows
  <2> QED BY <2>1, <2>2, <2>6, <2>7
<1>2. CASE card[t].place # "done"
  <2>1. Gate(t) /\ UNCHANGED archive /\ card'[t].cycle = card[t].cycle BY <1>2, CardStep
  <2>2. plan # None /\ plan.sealed /\ plan.cycles[t] = card[t].cycle
    BY <2>1 DEF Gate, Covered, CyclesChanged
  <2>3. \A i \in 1 .. Len(plan.batches) : closure[plan.batches[i].id] # None
    BY <2>1 DEF Gate, Open
  <2> QED BY <2>1, <2>2, <2>3 DEF archive
<1> QED BY <1>1, <1>2

-----------------------------------------------------------------------------
(* The commands and their runs.                                              *)

Carried ==
  /\ run' \in [Run -> RunRecord \cup {None}] /\ launches' \in [Run -> Nat]
  /\ DOMAIN proc' = Proc
  /\ \A p \in Proc : proc'[p] # None =>
       /\ proc'[p] \in Reviewer \/ Closes(proc'[p])
       /\ proc'[p].pc = "close" => batch[proc'[p].batch] # None /\ proc'[p].batch \in Batch
  /\ \A r \in Run : FollowsOK(r)' /\ RunOK(r)'

\* Only commands that look for what to close begin, commands only end.
LEMMA NothingReviewed ==
  ASSUME IInv, UNCHANGED <<run, launches>>, DOMAIN proc' = Proc,
         \A p \in Proc : \/ proc'[p] = proc[p] \/ proc'[p] = None
                         \/ Closes(proc'[p]) /\ batch[proc'[p].batch] # None
  PROVE  Carried
<1>1. None \notin Run BY ReviewAssumption
<1>2. \A r \in Run, p \in Proc : Owns(p, r)' => Owns(p, r) /\ proc'[p] = proc[p]
  BY <1>1 DEF Owns, Closes
<1>3. \A r \in Run : RunOK(r)' BY <1>2 DEF RunOK, IInv, Owns
<1>4. \A r \in Run : FollowsOK(r)' BY DEF FollowsOK, IInv
<1>5. ASSUME NEW p \in Proc, proc'[p] # None
      PROVE  /\ proc'[p] \in Reviewer \/ Closes(proc'[p])
             /\ proc'[p].pc = "close" => batch[proc'[p].batch] # None /\ proc'[p].batch \in Batch
  <2>1. CASE proc'[p] = proc[p]
    BY <1>5, <2>1 DEF IInv, TypeOK, ClosingOK, Closes, Reviewer
  <2>2. CASE Closes(proc'[p]) /\ batch[proc'[p].batch] # None
    BY <2>2 DEF Closes
  <2> QED BY <1>5, <2>1, <2>2
<1> QED BY <1>3, <1>4, <1>5 DEF Carried, IInv, TypeOK

\* Command p goes on, the others stay.
Steps(p, x) ==
  DOMAIN proc' = Proc /\ proc'[p] = x /\ \A q \in Proc : q # p => proc'[q] = proc[q]

LEMMA StepsOne ==
  ASSUME IInv, NEW p \in Proc, NEW x, proc' = [proc EXCEPT ![p] = x]
  PROVE  Steps(p, x)
BY DEF Steps, IInv, TypeOK

\* A command that alone has a run takes a step with it.
LEMMA OneCommand ==
  ASSUME IInv, NEW p \in Proc, NEW r \in Run, NEW x, NEW y \in RunRecord, NEW n \in {0, 1},
         Steps(p, x), run' = [run EXCEPT ![r] = y],
         launches' = [launches EXCEPT ![r] = n],
         \A q \in Proc : q # p => ~Owns(q, r),
         x # None => x \in Reviewer /\ x.run = r,
         x # None /\ x.pc = "intent" => n = 0,
         x # None /\ x.pc # "publish" => y.status # "interrupted",
         run[r] # None => y.batch = run[r].batch,
         y.prev # None => run[y.prev] # None /\ run[y.prev].batch = y.batch
  PROVE  Carried
<1>1. /\ run \in [Run -> RunRecord \cup {None}] /\ launches \in [Run -> Nat] /\ DOMAIN proc = Proc
      /\ \A q \in Proc : proc[q] # None => proc[q] \in Reviewer \/ Closes(proc[q])
  BY DEF IInv, TypeOK
<1>2. /\ run'[r] = y /\ \A s \in Run : s # r => run'[s] = run[s]
      /\ launches'[r] = n /\ \A s \in Run : s # r => launches'[s] = launches[s]
      /\ proc'[p] = x /\ \A q \in Proc : q # p => proc'[q] = proc[q]
  BY <1>1 DEF Steps
<1>3. y # None /\ y.prev \in Run \cup {None} BY NoRecord DEF RunRecord
<1>4. ASSUME NEW s \in Run PROVE FollowsOK(s)'
  <2>1. CASE s = r BY <1>2, <1>3, <2>1 DEF FollowsOK
  <2>2. CASE s # r
    <3>1. FollowsOK(s) BY DEF IInv
    <3>2. run[s] # None => run[s].prev \in Run \cup {None} BY <1>1 DEF RunRecord
    <3> QED BY <1>2, <1>3, <2>2, <3>1, <3>2 DEF FollowsOK
  <2> QED BY <2>1, <2>2
<1>5. ASSUME NEW s \in Run PROVE RunOK(s)'
  <2>1. CASE s = r
    <3>1. \A q \in Proc : Owns(q, r)' => q = p /\ x # None BY <1>2 DEF Owns
    <3>2. launches'[r] <= 1 /\ run'[r] # None BY <1>2, <1>3
    <3>3. \A q \in Proc : Owns(q, r)' =>
            /\ proc'[q].pc = "intent" => launches'[r] = 0
            /\ proc'[q].pc # "publish" => run'[r].status # "interrupted"
      BY <1>2, <3>1
    <3>4. RunOK(r)' BY <3>1, <3>2, <3>3 DEF RunOK
    <3> QED BY <2>1, <3>4
  <2>2. CASE s # r
    <3>1. RunOK(s) BY DEF IInv
    <3>2. \A q \in Proc : Owns(q, s)' => Owns(q, s) /\ proc'[q] = proc[q]
      BY <1>2, <2>2 DEF Owns
    <3> QED BY <1>2, <2>2, <3>1, <3>2 DEF RunOK
  <2> QED BY <2>1, <2>2
<1>6. ASSUME NEW q \in Proc, proc'[q] # None
      PROVE  /\ proc'[q] \in Reviewer \/ Closes(proc'[q])
             /\ proc'[q].pc = "close" => batch[proc'[q].batch] # None /\ proc'[q].batch \in Batch
  <2>1. CASE q = p BY <1>2, <1>6, <2>1 DEF Reviewer
  <2>2. CASE q # p
    BY <1>1, <1>2, <1>6, <2>2 DEF IInv, ClosingOK, Closes, Reviewer
  <2> QED BY <2>1, <2>2
<1>7. run' \in [Run -> RunRecord \cup {None}] /\ launches' \in [Run -> Nat] /\ DOMAIN proc' = Proc
  BY <1>1 DEF Steps
<1> QED BY <1>4, <1>5, <1>6, <1>7 DEF Carried

LEMMA OwnCommand ==
  ASSUME IInv, NEW p \in Proc, proc[p] # None, proc[p].pc # "close", NEW r, r = proc[p].run,
         NEW x, NEW y \in RunRecord, NEW n \in {0, 1},
         Steps(p, x), run' = [run EXCEPT ![r] = y],
         launches' = [launches EXCEPT ![r] = n],
         x # None => x \in Reviewer /\ x.run = r,
         x # None /\ x.pc = "intent" => n = 0,
         x # None /\ x.pc # "publish" => y.status # "interrupted",
         y.batch = run[r].batch, y.prev = run[r].prev
  PROVE  Carried
<1>1. r \in Run /\ run[r] # None /\ Owns(p, r) BY OwnRun
<1>2. \A q \in Proc : q # p => ~Owns(q, r) BY <1>1 DEF IInv, RunOK
<1>3. y.prev # None => run[y.prev] # None /\ run[y.prev].batch = y.batch
  BY <1>1 DEF IInv, FollowsOK
<1> QED BY <1>1, <1>2, <1>3, OneCommand

\* The command is at another point of the same run.
LEMMA NextPoint ==
  ASSUME IInv, NEW p \in Proc, proc[p] # None, proc[p].pc # "close",
         NEW to \in {"intent", "started", "running", "failed", "publish"}, Goto(p, to)
  PROVE  \E x \in Reviewer : x.run = proc[p].run /\ x.pc = to /\ Steps(p, x)
<1>1. proc[p] \in Reviewer BY OwnRun
<1> DEFINE x == [proc[p] EXCEPT !.pc = to]
<1>2. x \in Reviewer /\ x.run = proc[p].run /\ x.pc = to BY <1>1 DEF Reviewer
<1>3. Steps(p, x)
  <2>1. proc' = [proc EXCEPT ![p] = x] BY DEF Goto
  <2> HIDE DEF x
  <2> QED BY <2>1, StepsOne
<1> HIDE DEF x
<1> QED BY <1>2, <1>3

LEMMA Same ==
  ASSUME IInv, NEW r \in Run
  PROVE  run = [run EXCEPT ![r] = run[r]] /\ launches = [launches EXCEPT ![r] = launches[r]]
         /\ launches[r] \in {0, 1}
<1>1. run \in [Run -> RunRecord \cup {None}] /\ launches \in [Run -> Nat] /\ launches[r] <= 1
  BY DEF IInv, TypeOK, RunOK
<1> QED BY <1>1

LEMMA LaunchCarries ==
  ASSUME IInv, NEW p \in Proc, Launch(p)
  PROVE  Carried
<1> DEFINE r == proc[p].run
<1>1. proc[p] # None /\ proc[p].pc = "intent" BY DEF Launch, At
<1>2. r \in Run /\ run[r] \in RunRecord /\ run[r] # None /\ Owns(p, r) BY <1>1, OwnRun
<1>3. launches[r] = 0 /\ run[r].status # "interrupted" BY <1>1, <1>2 DEF IInv, RunOK
<1>4. CASE GivesUp(p, r) /\ UNCHANGED launches
  <2>1. run' = [run EXCEPT ![r] = run[r]] /\ launches' = [launches EXCEPT ![r] = 0]
    BY <1>2, <1>3, <1>4, Same DEF GivesUp
  <2>2. PICK x \in Reviewer : x.run = r /\ x.pc = "failed" /\ Steps(p, x)
    BY <1>1, <1>4, NextPoint DEF GivesUp
  <2> HIDE DEF r
  <2> QED BY <1>1, <1>2, <1>3, <2>1, <2>2, OwnCommand DEF r
<1>5. CASE Phase(r, "launching")
  <2> DEFINE y == [run[r] EXCEPT !.phase = "launching"]
  <2>1. y \in RunRecord /\ y.batch = run[r].batch /\ y.prev = run[r].prev
        /\ y.status = run[r].status
    BY <1>2 DEF RunRecord
  <2>2. run' = [run EXCEPT ![r] = y] BY <1>5 DEF Phase
  <2> HIDE DEF y
  <2>3. PICK n \in {0, 1}, to \in {"started", "failed"} :
          Goto(p, to) /\ launches' = [launches EXCEPT ![r] = n]
    <3>1. \/ Goto(p, "started") /\ launches' = [launches EXCEPT ![r] = @ + 1]
          \/ Goto(p, "failed") /\ UNCHANGED launches
      BY <1>5 DEF Launch, Phase, GivesUp
    <3>2. launches' = [launches EXCEPT ![r] = 1] \/ launches' = [launches EXCEPT ![r] = 0]
      BY <1>2, <1>3, <3>1, Same
    <3> QED BY <3>1, <3>2
  <2>4. PICK x \in Reviewer : x.run = r /\ x.pc = to /\ Steps(p, x)
    BY <1>1, <2>3, NextPoint
  <2> HIDE DEF r
  <2> QED BY <1>1, <1>2, <1>3, <2>1, <2>2, <2>3, <2>4, OwnCommand DEF r
<1> QED BY <1>4, <1>5 DEF Launch

LEMMA RunningCarries ==
  ASSUME IInv, NEW p \in Proc, Running(p)
  PROVE  Carried
<1> DEFINE r == proc[p].run
<1>1. proc[p] # None /\ proc[p].pc = "started" BY DEF Running, At
<1>2. r \in Run /\ run[r] \in RunRecord /\ run[r] # None /\ Owns(p, r) BY <1>1, OwnRun
<1>3. run[r].status # "interrupted" BY <1>1, <1>2 DEF IInv, RunOK
<1>4. launches' = [launches EXCEPT ![r] = launches[r]] /\ launches[r] \in {0, 1}
  BY <1>2, Same DEF Running
<1>5. PICK y \in RunRecord : /\ run' = [run EXCEPT ![r] = y] /\ y.batch = run[r].batch
                            /\ y.prev = run[r].prev /\ y.status = run[r].status
  <2> DEFINE y == [run[r] EXCEPT !.phase = "running"]
  <2>1. y \in RunRecord /\ y.batch = run[r].batch /\ y.prev = run[r].prev
        /\ y.status = run[r].status
    BY <1>2 DEF RunRecord
  <2>2. CASE Phase(r, "running")
    <3>1. run' = [run EXCEPT ![r] = y] BY <2>2 DEF Phase
    <3> HIDE DEF y
    <3> QED BY <2>1, <3>1
  <2>3. CASE GivesUp(p, r)
    <3>1. run' = [run EXCEPT ![r] = run[r]] BY <1>2, <2>3, Same DEF GivesUp
    <3> QED BY <1>2, <3>1
  <2> QED BY <2>2, <2>3 DEF Running
<1>6. PICK to \in {"running", "failed"} : Goto(p, to) BY DEF Running, GivesUp
<1>7. PICK x \in Reviewer : x.run = r /\ x.pc = to /\ Steps(p, x)
  BY <1>1, <1>6, NextPoint
<1> HIDE DEF r
<1> QED BY <1>1, <1>2, <1>3, <1>4, <1>5, <1>6, <1>7, OwnCommand DEF r

LEMMA FinalizeCarries ==
  ASSUME IInv, NEW p \in Proc, FinalizeReviewRun(p)
  PROVE  Carried
<1> DEFINE r == proc[p].run
<1>1. proc[p] # None /\ proc[p].pc \in {"running", "failed"} BY DEF FinalizeReviewRun, At
<1>2. r \in Run /\ run[r] \in RunRecord /\ run[r] # None /\ Owns(p, r) BY <1>1, OwnRun
<1>3. launches' = [launches EXCEPT ![r] = launches[r]] /\ launches[r] \in {0, 1}
  BY <1>2, Same DEF FinalizeReviewRun
<1>4. PICK y \in RunRecord : /\ run' = [run EXCEPT ![r] = y] /\ y.batch = run[r].batch
                            /\ y.prev = run[r].prev
  <2>1. CASE run' = run
    <3>1. run' = [run EXCEPT ![r] = run[r]] BY <1>2, <2>1, Same
    <3> QED BY <1>2, <3>1
  <2>2. CASE Altered(r) BY <2>2 DEF Altered
  <2> QED BY <2>1, <2>2, FinalizeRun
<1>5. PICK x : /\ x # None => x \in Reviewer /\ x.run = r /\ x.pc = "publish"
               /\ Steps(p, x)
  <2>1. Steps(p, None) \/ Goto(p, "publish") BY StepsOne DEF FinalizeReviewRun
  <2> HIDE DEF r
  <2>2. CASE Goto(p, "publish")
    <3>1. PICK x \in Reviewer : x.run = r /\ x.pc = "publish" /\ Steps(p, x)
      BY <1>1, <2>2, NextPoint DEF r
    <3> QED BY <3>1
  <2> QED BY <2>1, <2>2
<1> HIDE DEF r
<1> QED BY <1>1, <1>2, <1>3, <1>4, <1>5, OwnCommand DEF r

LEMMA RecoverCarries ==
  ASSUME IInv, NEW p \in Proc, NEW r \in Run, Recover(p, r)
  PROVE  Carried
<1>1. run[r] \in RunRecord /\ run[r] # None /\ \A q \in Proc : ~Owns(q, r)
  BY DEF Recover, RunLockFree, Owns, IInv, TypeOK
<1>2. launches' = [launches EXCEPT ![r] = launches[r]] /\ launches[r] \in {0, 1}
  BY Same DEF Recover
<1>3. PICK y \in RunRecord : /\ run' = [run EXCEPT ![r] = y] /\ y.batch = run[r].batch
                            /\ y.prev = run[r].prev
  <2>1. CASE run' = run
    <3>1. run' = [run EXCEPT ![r] = run[r]] BY <2>1, Same
    <3> QED BY <1>1, <3>1
  <2>2. CASE Altered(r) BY <2>2 DEF Altered
  <2> QED BY <2>1, <2>2, RecoverRun
<1> DEFINE x == Reviewing(r, "publish")
<1>4. x \in Reviewer /\ x.run = r /\ x.pc = "publish" BY DEF Reviewing, Reviewer
<1>5. Steps(p, x) BY StepsOne DEF Recover
<1>6. y.prev # None => run[y.prev] # None /\ run[y.prev].batch = y.batch
  BY <1>1, <1>3 DEF IInv, FollowsOK
<1> HIDE DEF x
<1> QED BY <1>1, <1>2, <1>3, <1>4, <1>5, <1>6, OneCommand

LEMMA PublishCarries ==
  ASSUME IInv, NEW p \in Proc, NEW t \in Task, PublishReviewRun(p, t)
  PROVE  Carried
<1> DEFINE r == proc[p].run
<1>1. proc[p] # None /\ proc[p].pc = "publish" BY DEF PublishReviewRun, At
<1>2. r \in Run /\ run[r] \in RunRecord /\ run[r] # None /\ Owns(p, r) /\ proc[p] \in Reviewer
  BY <1>1, OwnRun
<1>3. launches' = [launches EXCEPT ![r] = launches[r]] /\ launches[r] \in {0, 1}
  BY <1>2, Same DEF PublishReviewRun
<1>4. PICK y \in RunRecord : /\ run' = [run EXCEPT ![r] = y] /\ y.batch = run[r].batch
                            /\ y.prev = run[r].prev
  BY PublishRun DEF Altered
<1>5. Steps(p, proc[p]) BY DEF Steps, PublishReviewRun, IInv, TypeOK
<1> HIDE DEF r
<1> QED BY <1>1, <1>2, <1>3, <1>4, <1>5, OwnCommand DEF r

\* The predecessor of an incremental run is one of its batch.
LEMMA PrepareCarries ==
  ASSUME IInv, NEW p \in Proc, NEW r \in Run, NEW b \in Batch, NEW prev \in Run \cup {None},
         PrepareReviewRun(p, r, b, prev)
  PROVE  Carried
<1> DEFINE x == Reviewing(r, "intent")
           y == Intent(b, prev)
<1>1. run[r] = None /\ launches[r] = 0 /\ \A q \in Proc : ~Owns(q, r)
  BY DEF PrepareReviewRun, RunLockFree, Owns, IInv, RunOK
<1>2. launches' = [launches EXCEPT ![r] = 0] BY <1>1, Same DEF PrepareReviewRun
<1>3. head \in Commit BY DEF IInv, TypeOK
<1>4. y \in RunRecord /\ y.batch = b /\ y.prev = prev /\ y.status = "incomplete"
  BY <1>3 DEF Intent, RunRecord
<1>5. x \in Reviewer /\ x.run = r /\ x.pc = "intent" BY DEF Reviewing, Reviewer
<1>6. run' = [run EXCEPT ![r] = y] /\ Steps(p, x) BY StepsOne DEF PrepareReviewRun
<1>7. prev # None => run[prev] # None /\ run[prev].batch = b
  BY DEF PrepareReviewRun, Predecessor
<1> HIDE DEF x, y
<1> QED BY <1>1, <1>2, <1>4, <1>5, <1>6, <1>7, OneCommand

LEMMA CommandStep ==
  ASSUME IInv, [Next]_vars
  PROVE  Carried
<1>1. DOMAIN proc = Proc BY DEF IInv, TypeOK
<1>2. CASE UNCHANGED <<run, launches, proc>> BY <1>1, <1>2, NothingReviewed
<1>3. ASSUME NEW p \in Proc, Leave(p) PROVE Carried
  BY <1>1, <1>3, NothingReviewed DEF Leave, archive
<1>4. ASSUME NEW p \in Proc, CloseReviewBatch(p) PROVE Carried
  BY <1>1, <1>4, NothingReviewed DEF CloseReviewBatch
<1>5. ASSUME NEW p \in Proc, NEW b \in Batch, NEW last \in Run, NEW passedAt \in Commit,
             CloseRead(p, b, last, passedAt)
      PROVE  Carried
  <2> DEFINE x == [run |-> None, pc |-> "close", batch |-> b, last |-> last,
                   passedAt |-> passedAt, view |-> View(b)]
  <2>1. Closes(x) /\ x.batch = b BY DEF Closes
  <2>2. proc' = [proc EXCEPT ![p] = x] /\ batch[b] # None /\ UNCHANGED <<run, launches>>
    BY <1>5 DEF CloseRead, archive
  <2> HIDE DEF x
  <2> QED BY <1>1, <2>1, <2>2, NothingReviewed
<1>6. ASSUME NEW p \in Proc, Review(p) PROVE Carried
  BY <1>3, <1>4, <1>5, <1>6, PrepareCarries, LaunchCarries, RunningCarries, FinalizeCarries,
     RecoverCarries, PublishCarries DEF Review
<1>7. CASE Record
  BY <1>2, <1>7 DEF Record, CreateReviewPlan, ExtendBatch, SealPlan, RebindCycles, SyncTargets,
     AdvanceReviewBatch, InterpretReview, AssignReviewFindings, SubmitReviewDisposition
<1>8. CASE Move \/ NewCommit \/ UNCHANGED vars
  BY <1>2, <1>8 DEF Move, NewCommit, vars, Deliver, Rework, MoveDone, Reclaim, Place, archive
<1> QED BY <1>6, <1>7, <1>8 DEF Next

-----------------------------------------------------------------------------
(* The findings, and what else has a type.                                   *)

Recorded ==
  /\ reading' \in [Run -> Bounded \cup {None}] /\ ledger' \in [Run -> LedgerRecord \cup {None}]
  /\ DOMAIN closure' = Batch /\ head' \in Commit

LEMMA RecordsStep ==
  ASSUME IInv, [Next]_vars
  PROVE  Recorded
<1>1. /\ reading \in [Run -> Bounded \cup {None}] /\ ledger \in [Run -> LedgerRecord \cup {None}]
      /\ DOMAIN closure = Batch /\ head \in Commit
  BY DEF IInv, TypeOK
<1>2. CASE UNCHANGED <<reading, ledger, closure, head>> BY <1>1, <1>2 DEF Recorded
<1>3. CASE NewCommit
  <2>1. head + 1 \in Commit BY <1>1, <1>3, ReviewAssumption DEF NewCommit, Commit
  <2> QED BY <1>1, <1>3, <2>1 DEF Recorded, NewCommit, archive
<1>4. ASSUME NEW r \in Run, NEW f \in Bounded, InterpretReview(r, f) PROVE Recorded
  BY <1>1, <1>4 DEF InterpretReview, Recorded
<1>5. ASSUME NEW r \in Run, NEW owners \in SUBSET Task, AssignReviewFindings(r, owners)
      PROVE  Recorded
  <2> DEFINE l == [owners |-> owners, records |-> [t \in Task |-> <<>>]]
  <2>1. l \in LedgerRecord BY DEF LedgerRecord
  <2>2. ledger' = [ledger EXCEPT ![r] = l] /\ UNCHANGED <<reading, closure, head>>
    BY <1>5 DEF AssignReviewFindings
  <2> HIDE DEF l
  <2> QED BY <1>1, <2>1, <2>2 DEF Recorded
<1>6. ASSUME NEW r \in Run, NEW t \in Task, NEW a \in Answer, SubmitReviewDisposition(r, t, a)
      PROVE  Recorded
  <2>1. a \in AnswerRecord
    <3>1. head \in Nat /\ \A c \in 1 .. head : c \in Nat BY <1>1, ReviewAssumption DEF Commit
    <3>2. \/ \E x \in {"confirmed", "rejected"} : a = [status |-> x, fix |-> 0, mech |-> FALSE]
          \/ \E c \in 1 .. head, m \in BOOLEAN : a = [status |-> "fixed", fix |-> c, mech |-> m]
      BY DEF Answer
    <3>3. \A x \in {"confirmed", "rejected"} :
            [status |-> x, fix |-> 0, mech |-> FALSE] \in AnswerRecord
      BY DEF AnswerRecord
    <3>4. \A c \in Nat, m \in BOOLEAN :
            [status |-> "fixed", fix |-> c, mech |-> m] \in AnswerRecord
      BY DEF AnswerRecord
    <3> QED BY <3>1, <3>2, <3>3, <3>4
  <2>2. ledger[r] \in LedgerRecord BY <1>1, <1>6 DEF SubmitReviewDisposition
  <2> DEFINE l == [ledger[r] EXCEPT !.records[t] = Append(@, a)]
  <2>3. Append(ledger[r].records[t], a) \in Seq(AnswerRecord)
    BY <2>1, <2>2 DEF LedgerRecord
  <2>4. l \in LedgerRecord BY <2>2, <2>3 DEF LedgerRecord
  <2>5. ledger' = [ledger EXCEPT ![r] = l] /\ UNCHANGED <<reading, closure, head>>
    BY <1>6 DEF SubmitReviewDisposition
  <2> HIDE DEF l
  <2> QED BY <1>1, <2>4, <2>5 DEF Recorded
<1>7. ASSUME NEW p \in Proc, CloseReviewBatch(p) PROVE Recorded
  BY <1>1, <1>7 DEF CloseReviewBatch, Recorded
<1>8. ASSUME NEW p \in Proc, Review(p) PROVE Recorded
  BY <1>2, <1>7, <1>8 DEF Review, PrepareReviewRun, Launch, Running, FinalizeReviewRun, Recover,
     PublishReviewRun, Leave, CloseRead, archive
<1>9. CASE Record
  BY <1>2, <1>4, <1>5, <1>6, <1>9 DEF Record, CreateReviewPlan, ExtendBatch, SealPlan,
     RebindCycles, SyncTargets, AdvanceReviewBatch
<1>10. CASE Move \/ UNCHANGED vars
  BY <1>2, <1>10 DEF Move, vars, Deliver, Rework, MoveDone, Reclaim, Place, archive
<1> QED BY <1>3, <1>8, <1>9, <1>10 DEF Next

-----------------------------------------------------------------------------
(* The invariant, and what follows from it.                                  *)

LEMMA IInvNext == IInv /\ [Next]_vars => IInv'
<1> SUFFICES ASSUME IInv, [Next]_vars PROVE IInv'
  OBVIOUS
<1>1. PlanKept BY PlanStep
<1>2. Carried BY CommandStep
<1>3. TypeOK'
  <2>1. card' \in [Task -> CardRecord] BY CardStep
  <2>2. Recorded BY RecordsStep
  <2>3. \A p \in Proc : proc'[p] # None => proc'[p] \in Reviewer \/ Closes(proc'[p])
    BY <1>2 DEF Carried
  <2>4. (\A p \in Proc : proc[p] # None => proc[p] \in Reviewer \/ Closes(proc[p]))'
    BY <2>3 DEF Closes
  <2> QED BY <1>1, <1>2, <2>1, <2>2, <2>4 DEF TypeOK, PlanKept, Carried, Recorded
<1>4. ClosingOK' BY <1>1, <1>2 DEF ClosingOK, PlanKept, Carried
<1>5. PlanOK' /\ \A b \in Batch : BatchOK(b)' BY <1>1 DEF PlanKept
<1>6. ClosuresChain' /\ DoneReviewed' BY ChainStep, DoneStep
<1>7. \A b \in Batch : ClosedOK(b)' BY ClosedStep
<1>8. \A r \in Run : FollowsOK(r)' /\ RunOK(r)' BY <1>2 DEF Carried
<1> QED BY <1>3, <1>4, <1>5, <1>6, <1>7, <1>8 DEF IInv

LEMMA IInvInit == Init => IInv
<1> SUFFICES ASSUME Init PROVE IInv
  OBVIOUS
<1>1. 0 \in Commit /\ 1 \in Commit BY ReviewAssumption DEF Commit
<1>2. \A b \in Batch : Open(b) BY DEF Init, Open
<1>3. \A t \in Task : card[t].place # "done" BY DEF Init
<1>4. ASSUME NEW b \in Batch, Drifted(b)
      PROVE  /\ plan \in PlanRecord /\ batch \in [Batch -> BatchRecord \cup {None}]
             /\ PlanOK /\ \A c \in Batch : BatchOK(c)
  <2> DEFINE e == [id |-> b, tasks |-> Task, base |-> 0, target |-> 0, prev |-> None]
             x == [tasks |-> Task, base |-> 0, target |-> 1, planned |-> TRUE, prev |-> None]
  <2>1. e \in EntryRecord /\ e.id = b /\ e.prev = None BY <1>1 DEF EntryRecord
  <2>2. x \in BatchRecord BY <1>1 DEF BatchRecord
  <2>3. plan = [sealed |-> FALSE, cycles |-> [t \in Task |-> 0], batches |-> <<e>>]
        /\ batch = [c \in Batch |-> IF c = b THEN x ELSE None]
    BY <1>4 DEF Drifted
  <2> HIDE DEF e, x
  <2>4. plan \in PlanRecord /\ plan.batches = <<e>> BY <2>1, <2>3 DEF PlanRecord
  <2>5. plan # None /\ Planned = <<e>> BY <2>4, NoRecord DEF Planned
  <2>6. PlanOK BY <2>1, <2>2, <2>3, <2>4, NoRecord DEF PlanOK, IdsApart, Chained
  <2>7. \A c \in Batch : BatchOK(c) BY <2>1, <2>3, <2>5 DEF BatchOK, Listed
  <2> QED BY <2>2, <2>3, <2>4, <2>6, <2>7
<1>5. ASSUME plan = None, batch = [b \in Batch |-> None]
      PROVE  /\ batch \in [Batch -> BatchRecord \cup {None}]
             /\ PlanOK /\ \A c \in Batch : BatchOK(c)
  BY <1>5 DEF PlanOK, BatchOK
<1>6. /\ plan \in PlanRecord \cup {None} /\ batch \in [Batch -> BatchRecord \cup {None}]
      /\ PlanOK /\ \A c \in Batch : BatchOK(c)
  BY <1>4, <1>5 DEF Init
<1>7. TypeOK
  <2>1. card \in [Task -> CardRecord] BY DEF Init, CardRecord
  <2>2. head \in Commit BY <1>1 DEF Init
  <2> QED BY <1>6, <2>1, <2>2 DEF Init, TypeOK
<1>8. ClosuresChain
  <2>1. Planned \in Seq(EntryRecord) BY <1>6, <1>7, PlannedType
  <2>2. \A i \in 1 .. Len(Planned) : Planned[i].id \in Batch BY <2>1, EntryTypes
  <2>3. \A i \in 2 .. Len(Planned) : i \in 1 .. Len(Planned) BY <2>1
  <2> QED BY <1>2, <2>2, <2>3 DEF ClosuresChain
<1>9. ClosingOK /\ \A r \in Run : FollowsOK(r) /\ RunOK(r)
  BY DEF Init, ClosingOK, FollowsOK, RunOK, Owns
<1> QED BY <1>2, <1>3, <1>6, <1>7, <1>8, <1>9 DEF IInv, DoneReviewed, ClosedOK

\* The inductive invariant of the review archive (reviews.go, review_plan.go,
\* review_advance.go, review_closure.go, review_disposition.go, review_gate.go).
THEOREM ReviewsInvariant == Spec => []IInv
BY IInvInit, IInvNext, PTL DEF Spec

\* What a closure froze is what the archive says for ever (the closing
\* transaction demands the view that was read, reviewRunForMutation refuses
\* what a closed batch holds).
THEOREM ClosuresFreeze == Spec => []ClosureFrozen
<1>1. IInv => ClosureFrozen BY DEF IInv, ClosureFrozen, ClosedOK
<1> QED BY <1>1, ReviewsInvariant, PTL

\* A closed batch was reviewed: what ReviewClosureEdges checked of the view it
\* was shown, and that only one first round can conclude.
THEOREM ClosedIsReviewed == Spec => []FixesReviewed
<1>1. IInv => FixesReviewed BY DEF IInv, FixesReviewed, ClosedOK
<1> QED BY <1>1, ReviewsInvariant, PTL

\* Closed batches are an unbroken chain of ranges (validatePreviousClosure).
THEOREM ClosuresLinked == Spec => []ClosuresChain
<1>1. IInv => ClosuresChain BY DEF IInv
<1> QED BY <1>1, ReviewsInvariant, PTL

\* A card that is done stays reviewed (validateTaskReview).
THEOREM DoneStaysReviewed == Spec => []DoneReviewed
<1>1. IInv => DoneReviewed BY DEF IInv
<1> QED BY <1>1, ReviewsInvariant, PTL

\* One run ID starts one reviewer (LockReviewRun), whatever dies.
THEOREM OneReviewer == Spec => []ReviewedOnce
<1>1. IInv => ReviewedOnce
  <2> SUFFICES ASSUME IInv, NEW r \in Run
               PROVE  /\ launches[r] <= 1
                      /\ run[r] # None => (run[r].status = "interrupted" =>
                                             \A p \in Proc : ~Executing(p, r))
    BY DEF ReviewedOnce
  <2>1. RunOK(r) BY DEF IInv
  <2> QED BY <2>1 DEF RunOK, Executing, Owns
<1> QED BY <1>1, ReviewsInvariant, PTL

-----------------------------------------------------------------------------
(* The plan and its batches agree.                                           *)

LEMMA BackedNow ==
  ASSUME IInv, NEW b \in Batch
  PROVE  Agree(b) <=> Backed(b)
<1>1. Planned \in Seq(EntryRecord) /\ IdsApart(Planned) BY PlannedType DEF IInv
<1>2. /\ EntryOf(b) \in 0 .. Len(Planned)
      /\ \A i \in 1 .. Len(Planned) : Planned[i].id = b => EntryOf(b) = i
  BY <1>1, EntryFound, EntryNow
<1>3. \A i \in 1 .. Len(Planned) : Planned[i] = AsEntry(b, batch[b]) => Planned[i].id = b
  BY DEF AsEntry
<1>4. EntryOf(b) # 0 => EntryOf(b) \in 1 .. Len(Planned) BY <1>1, <1>2
<1> QED BY <1>2, <1>3, <1>4 DEF Agree, batchPlan, Backed, AsEntry

LEMMA BackedNext ==
  ASSUME IInv', NEW b \in Batch
  PROVE  Agree(b)' <=> Backed(b)'
<1>1. Planned' \in Seq(EntryRecord) /\ IdsApart(Planned')
  BY DEF IInv, TypeOK, PlanOK, Planned, PlanRecord, IdsApart
<1>2. /\ EntryOf(b)' \in 0 .. Len(Planned')
      /\ \A i \in 1 .. Len(Planned') : Planned'[i].id = b => EntryOf(b)' = i
  BY <1>1, EntryFound, EntryNow
<1>3. \A i \in 1 .. Len(Planned') : Planned'[i] = AsEntry(b, batch'[b]) => Planned'[i].id = b
  BY DEF AsEntry
<1>4. EntryOf(b)' # 0 => EntryOf(b)' \in 1 .. Len(Planned') BY <1>1, <1>2
<1> QED BY <1>2, <1>3, <1>4 DEF Agree, batchPlan, Backed, AsEntry

\* An entry with a new target backs a batch with that target.
LEMMA RewritesBack ==
  ASSUME IInv, plan # None, NEW i \in 1 .. Len(plan.batches), NEW x \in Commit,
         plan' = [plan EXCEPT !.batches[i].target = x],
         NEW c \in Batch, Backed(c), batch[c] # None, batch[c].planned,
         \/ batch'[c] = batch[c] /\ (plan.batches[i].id = c => batch[c].target = x)
         \/ batch'[c] = [batch[c] EXCEPT !.target = x] /\ plan.batches[i].id = c
  PROVE  Backed(c)'
<1>1. plan \in PlanRecord /\ Planned = plan.batches BY DEF IInv, TypeOK, Planned
<1> DEFINE w == plan'
<1>2. w = [plan EXCEPT !.batches[i].target = x] OBVIOUS
<1> HIDE DEF w
<1>3. /\ w \in PlanRecord /\ Len(w.batches) = Len(plan.batches)
      /\ \A j \in 1 .. Len(plan.batches) :
           /\ w.batches[j].id = plan.batches[j].id /\ w.batches[j].base = plan.batches[j].base
           /\ w.batches[j].prev = plan.batches[j].prev /\ w.batches[j].tasks = plan.batches[j].tasks
           /\ w.batches[j].target = IF j = i THEN x ELSE plan.batches[j].target
           /\ j # i => w.batches[j] = plan.batches[j]
  BY <1>1, <1>2, Rewrites
<1>4. Planned' = w.batches /\ w.batches \in Seq(EntryRecord)
  BY <1>3, NoRecord DEF Planned, PlanRecord, w
<1>5. PICK j \in 1 .. Len(plan.batches) : plan.batches[j] = AsEntry(c, batch[c])
  BY <1>1 DEF Backed
<1>6. /\ plan.batches[j].id = c /\ plan.batches[j].tasks = batch[c].tasks
      /\ plan.batches[j].base = batch[c].base /\ plan.batches[j].target = batch[c].target
      /\ plan.batches[j].prev = batch[c].prev
  BY <1>5 DEF AsEntry
<1>7. \A k \in 1 .. Len(plan.batches) : plan.batches[k].id = c => k = j
  BY <1>1, <1>6, PlannedType DEF IInv, IdsApart
<1>8. batch[c] \in BatchRecord BY DEF IInv, TypeOK
<1>9. /\ batch'[c].tasks = batch[c].tasks /\ batch'[c].base = batch[c].base
      /\ batch'[c].prev = batch[c].prev
      /\ batch'[c].target = IF j = i THEN x ELSE batch[c].target
  BY <1>6, <1>7, <1>8 DEF BatchRecord
<1>10. w.batches[j] \in EntryRecord BY <1>3, <1>4
<1>11. w.batches[j] = [id |-> w.batches[j].id, tasks |-> w.batches[j].tasks,
                       base |-> w.batches[j].base, target |-> w.batches[j].target,
                       prev |-> w.batches[j].prev]
  BY <1>10 DEF EntryRecord
<1>12. w.batches[j] = AsEntry(c, batch'[c])
  BY <1>3, <1>6, <1>9, <1>11 DEF AsEntry
<1> QED BY <1>3, <1>4, <1>12 DEF Backed, AsEntry

LEMMA RetargetBacks ==
  ASSUME IInv, NEW b \in Batch, batch[b] # None, NEW x \in Commit, retarget(b, x),
         NEW c \in Batch, Backed(c)
  PROVE  Backed(c)'
<1>1. batch \in [Batch -> BatchRecord \cup {None}] /\ batch[b] \in BatchRecord
  BY DEF IInv, TypeOK
<1>2. batch'[b] = [batch[b] EXCEPT !.target = x] /\ \A d \in Batch : d # b => batch'[d] = batch[d]
  BY <1>1 DEF retarget
<1>3. batch'[b].planned = batch[b].planned BY <1>1, <1>2 DEF BatchRecord
<1> SUFFICES ASSUME batch[c] # None, batch[c].planned PROVE Backed(c)'
  BY <1>2, <1>3 DEF Backed
<1>4. CASE ~batch[b].planned
  <2>1. c # b /\ plan' = plan BY <1>4 DEF retarget
  <2> QED BY <1>2, <2>1 DEF Backed, Planned, AsEntry
<1>5. CASE batch[b].planned
  <2>1. Listed(b) BY <1>5 DEF IInv, BatchOK
  <2>2. plan # None /\ Planned = plan.batches BY <2>1 DEF Listed, Planned
  <2>3. EntryOf(b) \in 1 .. Len(plan.batches) /\ plan.batches[EntryOf(b)].id = b
    BY <2>1, <2>2, EntryPlace DEF IInv, Listed
  <2>4. plan' = [plan EXCEPT !.batches[EntryOf(b)].target = x] BY <1>5 DEF retarget
  <2>5. CASE c = b BY <1>2, <2>2, <2>3, <2>4, <2>5, RewritesBack
  <2>6. CASE c # b BY <1>2, <2>2, <2>3, <2>4, <2>6, RewritesBack
  <2> QED BY <2>5, <2>6
<1> QED BY <1>4, <1>5

LEMMA CreatedBacks ==
  ASSUME IInv, CreateReviewPlan, NEW c \in Batch, Backed(c)
  PROVE  Backed(c)'
<1>1. TypeOK BY DEF IInv
<1>2. /\ plan' \in PlanRecord
      /\ \A i \in 1 .. Len(plan'.batches) :
           batch'[plan'.batches[i].id] = EntryBatch(plan'.batches[i])
      /\ \A b \in Batch : (\A i \in 1 .. Len(plan'.batches) : plan'.batches[i].id # b) =>
           batch'[b] = batch[b]
  BY <1>1, Created
<1>3. Planned = <<>> /\ Planned' = plan'.batches
  BY <1>2, NoRecord DEF Planned, CreateReviewPlan
<1>4. \A i \in 1 .. Len(plan'.batches) : plan'.batches[i] \in EntryRecord
  BY <1>2 DEF PlanRecord
<1>5. CASE \E i \in 1 .. Len(plan'.batches) : plan'.batches[i].id = c
  <2>1. PICK i \in 1 .. Len(plan'.batches) : plan'.batches[i].id = c BY <1>5
  <2> DEFINE e == plan'.batches[i]
  <2>2. e \in EntryRecord /\ e.id = c /\ batch'[c] = EntryBatch(e) BY <1>2, <1>4, <2>1
  <2> HIDE DEF e
  <2>3. e = AsEntry(c, EntryBatch(e)) BY <2>2 DEF EntryRecord, EntryBatch, AsEntry
  <2>4. e = AsEntry(c, batch'[c]) BY <2>2, <2>3
  <2> QED BY <1>3, <2>4 DEF Backed, AsEntry, e
<1>6. CASE \A i \in 1 .. Len(plan'.batches) : plan'.batches[i].id # c
  <2>1. batch'[c] = batch[c] BY <1>2, <1>6
  <2> QED BY <1>3, <2>1 DEF Backed
<1> QED BY <1>5, <1>6

LEMMA BackedStep ==
  ASSUME IInv, [Next]_vars, NEW c \in Batch, Backed(c)
  PROVE  Backed(c)'
<1>1. CASE Planned' = Planned /\ batch' = batch BY <1>1 DEF Backed, AsEntry
<1>2. CASE SealPlan \/ RebindCycles
  <2>1. plan \in PlanRecord /\ plan # None /\ UNCHANGED batch
    BY <1>2 DEF SealPlan, RebindCycles, IInv, TypeOK
  <2>2. plan' # None /\ plan'.batches = plan.batches
    <3>1. CASE SealPlan
      <4>1. plan' \in PlanRecord /\ plan'.batches = plan.batches
        BY <2>1, <3>1 DEF SealPlan, PlanRecord
      <4> QED BY <4>1, NoRecord
    <3>2. CASE RebindCycles
      <4>1. plan' \in PlanRecord /\ plan'.batches = plan.batches
        BY <2>1, <3>2 DEF RebindCycles, PlanRecord, IInv, TypeOK, CardRecord
      <4> QED BY <4>1, NoRecord
    <3> QED BY <1>2, <3>1, <3>2
  <2> QED BY <1>1, <2>1, <2>2 DEF Planned
<1>3. CASE SyncTargets
  <2>1. PICK i \in 1 .. Len(plan.batches) :
          /\ plan.batches[i].target # batch[plan.batches[i].id].target
          /\ plan' = [plan EXCEPT !.batches[i].target = batch[plan.batches[i].id].target]
    BY <1>3 DEF SyncTargets
  <2>2. plan.batches \in Seq(EntryRecord) /\ plan # None /\ UNCHANGED batch
    BY <1>3 DEF IInv, TypeOK, PlanRecord, SyncTargets
  <2>3. plan.batches[i].id \in Batch BY <2>2, EntryTypes
  <2>4. batch[plan.batches[i].id] \in BatchRecord BY <2>2, <2>3 DEF IInv, TypeOK, PlanOK
  <2>5. batch[plan.batches[i].id].target \in Commit BY <2>4 DEF BatchRecord
  <2> SUFFICES ASSUME batch[c] # None, batch[c].planned PROVE Backed(c)'
    BY <2>2 DEF Backed
  <2> QED BY <2>1, <2>2, <2>5, RewritesBack
<1>4. ASSUME NEW b \in Batch, NEW x \in Commit, AdvanceReviewBatch(b, x) PROVE Backed(c)'
  <2>1. batch[b] # None /\ retarget(b, x) BY <1>4 DEF AdvanceReviewBatch
  <2> QED BY <2>1, RetargetBacks
<1>5. ASSUME NEW p \in Proc, NEW r \in Run, NEW b \in Batch, NEW prev \in Run \cup {None},
             PrepareReviewRun(p, r, b, prev)
      PROVE  Backed(c)'
  <2>1. head \in Commit BY DEF IInv, TypeOK
  <2>2. CASE batch[b] # None /\ retarget(b, head) BY <2>1, <2>2, RetargetBacks
  <2>3. CASE UNCHANGED <<plan, batch>> BY <1>1, <2>3 DEF Planned
  <2>4. CASE batch[b] = None
    <3>1. PICK tasks, base :
            batch' = [batch EXCEPT ![b] = [tasks |-> tasks, base |-> base, target |-> head,
                                           planned |-> FALSE, prev |-> None]]
      BY <1>5, <2>4 DEF PrepareReviewRun
    <3>2. plan' = plan BY <1>5, <2>4 DEF PrepareReviewRun
    <3>3. batch'[b].planned = FALSE /\ \A d \in Batch : d # b => batch'[d] = batch[d]
      BY <3>1 DEF IInv, TypeOK
    <3> QED BY <3>2, <3>3 DEF Backed, Planned, AsEntry
  <2> QED BY <1>5, <2>2, <2>3, <2>4 DEF PrepareReviewRun
<1>6. ASSUME NEW p \in Proc, Review(p) PROVE Backed(c)'
  <2>1. CASE UNCHANGED <<plan, batch>> BY <1>1, <2>1 DEF Planned
  <2> QED BY <1>5, <1>6, <2>1 DEF Review, Launch, Running, FinalizeReviewRun, Recover,
        PublishReviewRun, Leave, CloseRead, CloseReviewBatch, archive
<1>7. CASE Record
  <2>1. CASE UNCHANGED <<plan, batch>> BY <1>1, <2>1 DEF Planned
  <2> QED BY <1>2, <1>3, <1>4, <1>7, <2>1, PlanExtended, CreatedBacks DEF Record, InterpretReview,
        AssignReviewFindings, SubmitReviewDisposition
<1>8. CASE Move \/ NewCommit \/ UNCHANGED vars
  <2>1. UNCHANGED <<plan, batch>>
    BY <1>8 DEF Move, NewCommit, vars, Deliver, Rework, MoveDone, Reclaim, Place, archive
  <2> QED BY <1>1, <2>1 DEF Planned
<1> QED BY <1>6, <1>7, <1>8 DEF Next

\* No step makes the plan and a batch of it disagree (syncPlannedBatchTarget
\* writes both in one transaction).
THEOREM AgreementIsKept == Spec => TargetsAgree
<1>1. IInv /\ IInv' /\ [Next]_vars => [KeepsTargets]_vars
  BY BackedNow, BackedNext, BackedStep DEF KeepsTargets
<1> QED BY <1>1, ReviewsInvariant, PTL DEF Spec, TargetsAgree

=============================================================================
