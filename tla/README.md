# Kander: a verification development

Kander keeps a kanban board in plain files and lets several independent commands, started by people and by
coding agents, work on it at the same time. There is no server: every command is a process of its own, it locks
what it needs, writes a redo journal, and may be killed at any instruction. Executors are external programs that
talk to the board only by running `kander` commands. What must not go wrong is spread over a few protocols:

- the **journal** (`internal/board`): how one command changes several cards and documents as if it were alone;
- the **durable dispatch** (`board/dispatch*.go`, `internal/notify`, `internal/launch`): how the right to
  work on a card is handed from a coordinator to an executor, and from a dead executor to the next;
- the **task start** (`board/task_start.go`, `internal/launch`): how a card of `todo` gets its first executor, and what a
  coordinator may conclude from it;
- the **coordinator checkpoint** (`board/coordinator*.go`): what a replaceable session knows of a group of cards;
- the **reviews** (`board/review*.go`, `internal/review`): what must be read, answered and fixed before a card is done;
- the **clean-up** outside the journal: pruning of archived evidence, migration of old boards, journal retention;
- around them, services with races of their own: the summary index and the screens that read it, the subscription, issue
  import and result publication, the saving of the configuration.

`PROJECT.json` holds the runs, the mutants, the source lines every definition stands for, the hazards and the
theorems. Everything runs from this directory:

    tlc -workers 2 -config MCCardTransactions.cfg MCCardTransactions.tla
    tlapm CardTransactionsProofs.tla

## 1. Inventory

What each part keeps, what it does, with whom, what is hard about it, and what makes it correct.

### Card transactions (`board/transaction*.go`, `recovery.go`, `journal_layout.go`, `snapshot*.go`)

- *State*: the cards, each a directory inside one of seven state directories; `versions/<id>.json` (revision, last
  operation, contract frozen); control documents under `.kander`, owned by a task or a group; the journal in
  `operations/pending` and `operations/committed`; `board.lock`, one lock file per group and task, `journal.lock`.
- *Operations*: `WithTransaction` (lock, check the journal, stage in memory, publish a record, apply it, commit it),
  the shared-lock snapshots, the scan of all cards, and `RecoverTransactions`, which only `init` runs.
- *Interaction*: every other component changes the board through it. The processes share nothing but the files.
- *Hard*: a crash between any two file operations; the pending check and the publication are separate steps; a
  scan locks the cards one after another while they move; a file edited by hand between the steps.
- *Correct when*: operations look indivisible, snapshots instantaneous; no update is lost; an interrupted record can
  always be replayed from where it stopped; nobody deadlocks.

### File locks and atomic files (`internal/fs`)

`flock` on POSIX, `LockFileEx` on Windows, temporary file and rename, directory sync. A blocking lock waits in the
kernel, a cancellable one polls every 10 ms. *Correct when* exclusion holds and a crash leaves the old or the new file.

### Card states, moves, updates, documents (`board/board.go`, `move.go`, `update.go`, `document.go`, ...)

The state table, the compare-and-swap on revisions, contract freezing, the gates of a move (self review, card review,
summary, report, review closure), parsing and rendering of the Markdown documents.
*Correct when* a card only takes allowed moves, `archived` is final, and a caller never overwrites what it has not read.

### Durable dispatch (`board/dispatch*.go`)

- *State*: `dispatches/<id>/state.json` (state, epoch, revision, attempts, deadline, wrap-up, released), one immutable
  receipt per epoch and stage, `DISPATCH_ID` and `DISPATCH_EXECUTION_EPOCH` in the card, the delivery lease.
- *Operations*: prepare, begin an attempt, accept, complete, fail or cancel, release, terminate by a lifecycle move,
  reauthorize, grant a wrap-up, check the authority of a write.
- *Interaction*: senders hold the lease around slow deliveries; agents answer through `move`; the journal carries it all.
- *Hard*: duplicated, late and lost answers; an unknown delivery; an executor that dies, or seems to; an answer racing
  the deadline; epochs that start again at 1 after a release.
- *Correct when* at most one grant is live, a grant is worked on once, a late or fenced answer is refused, and accepted
  work is handed over only after its executor has stopped.

### Delivery (`internal/notify`, `internal/launch`, `board/dispatch_delivery.go`)

`notify`, `resume`, `resume --agent` and `authorize-wrap-up`: read, observe the executor, reauthorize, record the attempt,
send or start, await the receipt, roll back a failed launch. They hold no board lock while they talk to a terminal.

### Task start (`board/task_start.go`, `launch`)

Creates the start record and a provisional session, launches the executor, confirms or rolls back. *Hard*: an executor
that is faster than the confirmation; a session discovered after a takeover. *Correct when* a rollback never undoes
what an executor has committed, and a confirmed start is never rolled back.

### Coordinator (`board/coordinator*.go`, `launch/coordinator.go`)

- *State*: one checkpoint per group: revision, owner and epoch, and per member its state, cycle, dispatch round and proved
  delivery. A session keeps its claim in a file.
- *Operations*: claim, and reconcile: observe all members, check the request, verify deliveries with Git while no lock is
  held, check everything again and publish.
- *Hard*: Git and board change between the passes; a replayed claim; a session that does not know it was replaced; rounds,
  rotations, releases and claims that nobody observed.
- *Correct when* only the newest epoch writes, a published checkpoint describes the board of one moment with proved
  deliveries, and a late session can still catch up.

### Reviews (`board/review*.go`, `gate.go`, `internal/review`)

- *State*: the review plan of some cards, batches, runs, readings of reports, attributions, author answers, closures.
- *Operations*: create, extend, seal, rebind, synchronise a plan; advance a batch; prepare, launch, finalize, publish, recover a
  run; interpret, assign, answer; close a batch; the gate of a move to `done`.
- *Hard*: `review` and `review close` span several transactions and die between them; the closing view is read in one and
  closed in another; a recovery meets a command that is only slow.
- *Correct when* a closure is complete and immutable, fixes were reviewed, and `done` relies on closures that hold.

### Prune (`board/prune.go`)

Removal of evidence that only archived cards need, outside the journal, under the board lock, file by file. *Hard*: crashes half
way, records a live card still needs, gates that hold run locks and want the board lock. *Correct when* it removes exactly what
nobody needs, never loses evidence without a receipt, and a round can be repeated.

### Migration and retention (`board/migration*.go`, `journal_retention.go`)

Conversion of single-file cards into directories as one record of repeatable steps; pruning of committed records. *Hard*: a
crash anywhere, a partly written text, an editor that saves meanwhile, a record a staging directory still belongs to.
*Correct when* no text is lost and only an edit can stop a recovery.

### Summary index (`board/summary_cache.go`, `summary_refresh.go`)

What lists are read from: cached summaries with fingerprints, marks and a generation. *Hard*: an invalidation during a scan, edits
that leave the fingerprint alone. *Correct when* a returned view has every change marked before it began.

### Subscription, liveness, takeover (`internal/liveness`, `internal/takeover`)

A status stream with one probe batch, a bounded output queue and contention retries; classification of sessions; dismissal of an
old container. *Hard*: a slow or failed reader, a cancellation in any phase. *Correct when* it ends when told to, and announces
an overdue dispatch once and in time.

### Issue import and results (`internal/issue`)

*Hard*: a comment was posted and the crash came before its id was saved; two imports of one issue wait for the network together.
*Correct when* nothing is asked twice that may have been done, and an issue has one card.

### Terminal interface and configuration (`internal/tui`, `menu`, `config`)

One goroutine, and reads and commands beside it that answer in any order; options panels, preferences and commands that save one
file. *Correct when* the screen never goes back, comes to show what was done, and a save replaces nothing it has not seen.

### The rest

Installation and update, terminal backends, processes and probes, Git checks, prompts and sessions, the command line.

## 2. Modules

| Module | What it is | Proofs |
|---|---|---|
| `CardStates` | the state directories and the table of moves, shared by the others | |
| `AtomicCards` | *abstract*: a board that changes in indivisible operations and is read in one instant | |
| `CardTransactions` | the journal: locks, records, file-by-file application, recovery, snapshots, interruptions | `CardTransactionsProofs` |
| `ExecutionGrants` | *abstract*: authority over a card, granted one token at a time | |
| `DurableDispatch` | the dispatch of one card, its senders, its agents, the clock | `DurableDispatchProofs` |
| `TaskStart` | starting a card, taking it over, rolling a failed launch back | `StartProofs` |
| `StartReconcile` | `TaskStart` composed with the member a coordinator keeps of the card | `StartProofs` |
| `Coordinator` | the checkpoint of a group: claims, epochs, two-pass reconciliation, while board and Git change | `CoordinatorProofs` |
| `Reviews` | plans, batches, runs, findings, answers, closures, the gate before done | `ReviewsProofs` |
| `Prune` | the clean-up of archived evidence and the review gates it meets | `PruneProofs` |
| `Migration` | the steps of a migration, and the retention of committed records | `ServiceProofs` |
| `SummaryIndex` | the summary cache and its viewers | `ServiceProofs` |
| `IssueImport` | issues imported as cards | `IssueProofs` |
| `IssueResults` | results published on GitHub, with lost and late answers | `IssueProofs` |
| `Subscription` | the status stream: loop, writer, probes | |
| `BoardView` | the list and the open card of the terminal interface | `ServiceProofs` |
| `ConfigEdits` | the writers of `config.json` | `ServiceProofs` |
| `MCServices` | the seven services that share no state, one per behaviour | |
| `MC...` | constants, bounds and symmetry of the other components for TLC | |

`CardTransactions` implements `AtomicCards` (`ImplementsAtomicCards`), and that is what allows all other modules to treat a
board transaction as one step; `Prune` and `Migration`, which work outside the journal or inside one record, go step by step.
One exception to the moves of `AtomicCards`: the rollback of a launch takes a card from `working` back to `todo`, which the
table of moves does not have; it is part of `TaskStart` only. `DurableDispatch` implements `ExecutionGrants`
(`ImplementsGrants`). `Coordinator` has the rounds of a dispatch as the checkpoint sees them, and not the deliveries behind
them. `BoardView` reads the list by the contract `SummaryIndex` shows of it (`ViewCurrent`).

### CardTransactions and the code

A process is a running command; `pc` says where in `withTransactionCheckpoint`, `CommittedSnapshotContext` or
`RecoverTransactions` it is:

| `pc` | actions | code |
|---|---|---|
| `lock` | `acquire` | `lockScopeContext`: `board.lock`, groups, tasks, each kind sorted; shared for readers |
| `check` | `pendingContext`, `RefusePending`, `operationRecords` | the scan of the pending partition under `journal.lock` |
| `read` | `ReadCard`, `ReadDone` | the cards of a snapshot, one by one |
| `stage` | `Stage`, `RefuseStale` | the callback: expectations, `Put`, `Relocate`, `touch` |
| `publish` | `writeOperation` | the record, written atomically under `journal.lock` |
| `apply` | `compareFile`, `writeFile`, `applyRename`, `createDirectory`, `createSpec`, `applyVersion`, `RefuseReplay` | `applyRecord` |
| `apply`, `commit` | `commitPhase`, `commitRename` | `commitOperation`: the phase, then the rename |
| `replay` | `Replay`, `RecoveryDone` | the loop of `RecoverTransactions` |

`loc`, `text`, `ver`, `pend` and `committed` are the disk and survive; the rest dies with its process (`Interrupt`), which
also drops its locks, as the kernel does. `ExternalEdit` is a person with an editor.

Abstractions, each chosen so that it allows at least what the code does:

- The content of a document is the *set of operations it reflects*; a stale text written over a newer one shows as a
  missing element. `Foreign` marks an edit from outside. One document stands for all files of a card.
- The files of a record are applied one at a time in any order, the code applies them in the order of the record. The two
  order constraints the recovery relies on, files before entries before versions, are kept (`Before`).
- A file takes two steps, as in the code: it is read and compared (`compareFile`), and then a rename replaces whatever is there
  (`writeFile`). An editor takes no lock, so it may save in between; entries and versions are only moved by kander, one step each.
- `operationRecords` reads the journal and finishes committed records that missed their rename in one step; the code
  does so record by record under the exclusive board lock, where nobody can look.
- Committed records are only ever added; which of them go again is in `Migration`. The ids of operations are
  fresh random strings in the code and unused members of `Op` here.
- Every step of applying a record begins by reading the disk again, as the code does, so the model has no separate
  replay code: a replay is the same actions on a disk that is partly done.

### DurableDispatch and the code

One card. A sender is a command that holds the delivery lease (`WithDispatchDelivery`); `pc` follows `runDispatch` and
`resumeDispatch`:

    read -> recover -> authorize -> observe -> (window) -> begin -> send           -> await
                                                                 -> launch -> start -> await

`recover` exists only for accepted work and wrap-ups, `authorize` only when the epoch must be rotated, `window` when the
card names the wrong window, `launch` when there is no running executor or another one takes over. What a sender read
before it let the lock go lies in `cur` and is used later, as in the code: the revision of the dispatch and of the card,
the deadline, the exit evidence, the session.

An agent is an external program. The model lets it run the commands the documents tell it to run, with the token of any
message it ever received, in any order, late, twice and after a restart: `OpenAccept`/`PublishAccept`,
`ReplayAccept`, `AuthorWrite`, `OpenComplete`/`PublishComplete`. Accepting and completing are two steps because a
receipt is *dated* when its task lock is taken and *visible* when the transaction ends; the task lock is `lock`. A death in
between leaves a record, which the journal rolls forward before anyone can touch the card, or nothing (`AgentDies`).

Abstractions:

- `Confirm` stands for the executor's time to answer and `Fresh` for the age exit evidence may have; the clock is `now`.
  A command's own timeout, shorter than the deadline, may end a wait at any time (`TimesOut`).
- Evidence files (what a completion must show) can only refuse; a refusal of a completion is a completion not tried.
- `Kinds` has `fix` and `wrap-up`; a `sync` takes the path of a fix.
- A new session is one of the stopped agents; a plain `resume` is `notify` that finds its executor stopped.
- The lifecycle moves `Terminate` and `Move`, the end of a dispatch and the author's writes draw on one budget
  (`MaxEdits`), so a run says how many of them may interfere.
- `sent`, `started`, `expired` and `issued` record what has happened; no guard reads them.
- Legacy deliveries without a dispatch and the readiness markers are left out.

### TaskStart, StartReconcile and the code

One card that starts in `todo`. A launcher is a `start` or a `resume --agent`; `pc` follows `Start` (`launch/start.go`),
`commandResumeLegacy` (`launch/commands.go`) and `launchAgent` (`launch/agent.go`):

    claim -> write    -> (locate) -> run -> (locate) -> finish             -> started     start
             takeover -> (locate) -> run -> (locate) -> finish -> validate -> started     resume --agent
    any of them -> close -> rollback -> failed

`locate` is the write of `WINDOW`, before the command or, when the prompt is typed into the pane, after it. `finish` is
`ConfirmTaskStartSession` for an agent whose session is only known after it runs, `ConfirmTaskStart` for the others.
`cur` is the launcher's `Entry` with its version, the text it restores and the state it restores it to; the record
`attempt` is `pending.json` with `result.json`, `current` is `current.json`.

- The text is the claim that owns the execution (`cycle`, which stands for OWNER, STARTED_AT and the claim record; `None`
  is an empty STARTED_AT), the session, and a count of what executors have written (`work`).
- A board transaction may also fail after it was published: the command is told of an error, recovery completes the
  record. `Learn` has both outcomes, so the launcher's cursor may be behind the card it wrote itself.
- Reading the document and writing it back at the same cursor is one step, since a change in between refuses the write.
- Once it runs, an executor writes and moves the card at any time, also one whose container could not be closed (`left`).
- `StartReconcile` adds the coordinator's record of the card: the first claim of the group, and `ReconcileCoordinator`, which
  accepts the card as a new state of the member (`StartCycle`) or refuses it (the empty set). Without dispatches a handoff
  of a bound cycle never has its release record, so it is always refused. A resume of the same session, the archiving of
  the card and the checkpoint's own revisions are left out.

### Coordinator and the code

A session's request goes `Observe` (outside any lock, cards one by one in the code, one instant here; the request is stale
as soon as anything moves) -> `Collect` (the first pass: authority, `Acceptable` for every member, the facts to verify) ->
`Verify` (Git, no lock) -> `Reconcile` (the second pass: everything of the first again, and the write) or `Stop`, which loses
the answer too. `Acceptable` is `reconcileCoordinatorMember` with `coordinatorDispatchAdvance` and `lifecycleHandoffs`;
`NextMember` is what it writes. `Produce` is everybody else: executors, people and dispatches, on one budget (`MaxEdits`),
and Git. `ClaimCoordinator` executes a claim file that `WriteClaim` wrote before, also late and twice.

Left out: groups outside Git, the rendering of the checkpoint, task starts (`StartReconcile` has them), the cards of other
groups.

### Reviews and the code

Each archive mutation of `board/review*.go` is one transaction and one action. `kander review` and `kander review close` are
processes (`proc`):

    PrepareReviewRun -> Launch -> FinalizeReviewRun -> PublishReviewRun (per card) -> Leave       review
    CloseRead -> CloseReviewBatch                                                                  review close
    Recover -> PublishReviewRun                                                                    review, on a run that died

Any of them may die between two steps, which frees the run lock. `ReviewClosureEdges` computes what the closure records;
`Gate` is `review_gate.go`.

- One required role and one reviewer; a report is `clean`, has one item that must be fixed, or is prose that somebody has to
  interpret. Commits are a line on which ancestry is `<=`, and the worktree only moves forward.
- Left out: waived and deferred statuses, batches outside Git, legacy finding maps, the lineage of findings, report
  languages and text, the task context a run is bound to, the dispatch authority and the expected revisions of an answer
  (both can only refuse). The Git checks before an advance and a closure are part of their actions.

### Prune and the code

A round takes the board lock and tries the run lock of each candidate (`BeginRound`; the bounded try of 100 ms is an immediate
answer), takes records away from the candidates until nothing changes (`KeepRun`, `KeepBatch`, `KeepPlan`, then `Decide`), and
removes file by file in the order of the stages (`Receipts` .. `Checkpoint`). `RemovalFails` and `Interrupt` may come between
any two; a tree whose removal was interrupted is `partial`. `todo` holds what is left of a stage; within one the order is open.

- The evidence graph is any well-formed one; `Later` are cards created while others exist. A gate holds its run lock for the
  duration of its reviewer (`LockReviewRun`, `GateEnds`).
- Left out: task-start artifacts and entries of the dispatch registry, which go like pointers, and record files that cannot be
  read (an unreadable card is `hidden`).

### Services

They share no state, so `MCServices` picks one at the start of a behaviour and checks them in one run.

- *Migration.* `formAt` follows `applyMigration` and `rewriteMigrationDocument` step by step; every step may be the last
  (`StopMigration`), and the next command recovers. A text is as planned, as wanted, the beginning of what is wanted, a mixture,
  or what an editor saved. One record; the rewriting of links is part of "as wanted"; cards in any order; edits before the plan
  are the planned text; commands that would need the maintenance window simply do not start. Retention keeps the newest
  records and those a staging directory pins.
- *SummaryIndex.* `BeginRound`, `ReadCard`, `EndScan`, `Publish`: snapshot under the mutex, scan without, publish if the
  generation is the same. A reading of a card's state, fingerprint and body is one step.
- *IssueImport.* `FastPath` looks without the lock, `ImportTask` is the transaction that looks again.
- *IssueResults.* A command holds the issue's file lock from `Enter` to `Leave`, the network being slow in between; `Send`, then
  an answer, none, or a late effect (`Serve`, `Refuse`). One read of the issue is atomic, and so are rechecking the documents and
  saving. Rendering, redaction and more than one work set are left out.
- *Subscription.* `at` is the place in the loop; probe, writer and queue run beside it. The watched cards are fixed, the revisions
  in probe results left out, and so is all that happens after the return.
- *BoardView.* One message at a time (`TakePending` ends each), reads and commands in any order. Sequence numbers serve to tell
  awaited from overtaken results, kept as `live`. Each command is given once. Left out: failures of reads nobody awaits, changes
  by other processes, quitting, the issue panel, chat and agent status. A user who keeps pressing keys can starve a read,
  because results are given up when another is queued; `MaxTicks` bounds that.
- *ConfigEdits.* A panel compares with the configuration as it was read
  (`base`, `Validated`) and saves the one its session made of it (`buffer`, `Prepared`): the issue section is always the default,
  and a language the file does not name is that of the environment. `rules` stands for all sections that are copied; validation has
  filled the chat agent before `prepare` would. `touched` records what was edited in a panel; no guard reads it. Saving is possible
  without an edit, as leaving a page is (`finishSection`). Preferences overwrite their section, which is the code's design. Left out:
  the overlay file, a missing file, the agents section (taken back from `base` before a save), the choice of a launcher or agent
  that is not installed, the language given back by Esc, edits by hand during a save.

## 3. Runs

All but two pass, and each property is broken by the mutant PROJECT.json names: a change of the model that a plausible bug
would make in the code (the definitions marked *Slip* beside the right ones).

| Run | Bounds | States | Question |
|---|---|---|---|
| `journal` | 2 processes, 2 cards, 1 group, 2 operations, 2 interruptions | 262,000 | are operations indivisible, snapshots instantaneous, replay always possible, locks free of cycles? |
| `journal_live` | 2 processes, an update, a creation, a read, 2 interruptions, or 1 and an outside edit, or 2 edits; fair | 568,496 | does recovery end, when a recovery is interrupted too; does a replay leave alone what was edited? |
| `dispatch_live` | 1 sender, 2 agents, 1 dispatch, 2 epochs, 1 death, 1 interfering transaction, fair | 516,000 | is each grant worked on once, through takeovers; is the lease given back? |
| `dispatch_successive` | 2 senders, 1 agent, 2 dispatches, 2 epochs, 1 interfering transaction | 342,982 | does authority move only along its lines, and is a late answer refused, across dispatches? |
| `start` | 2 starts, 1 takeover, 1 claim by hand, 2 faults, 1 executor write or move | 1,979,510 | do failed launches leave work, attempts and executors in order? |
| `start_reconcile` | the same with 2 claims, 1 fault and no writes of `WINDOW`, fair | 711,752 | does a coordinator bind exactly the confirmed execution, and in the end? |
| `coordinator` | 2 sessions, 1 card, 2 dispatches, 2 epochs, 1 commit, 3 observations, 6 changes | 1,950,000 | do replaced sessions stay out, and does a checkpoint describe the board with proved deliveries? |
| `reviews` | 2 cards, 2 batches, 2 runs, 2 processes, 2 commits, 2 execution cycles, in one of three regimes | 221,987 | do closures stay true under races, deaths and recoveries; do batches chain, plans agree, and `done` cards stay reviewed in their cycle, while targets move, plans grow and cards are reclaimed? |
| `prune` | 3 cards (2 of a group, 1 created later), 2 runs, 2 batches, 1 plan, 1 fault | 897,885 | is exactly the unneeded removed, with receipts, under crashes? |
| `prune_finish` | the same | violated | does the round after an interrupted one finish it? |
| `services` | see below | 605,106 | the ten properties of the seven services |
| `config_handoff` | 1 panel, 1 setting | violated | does saving a panel keep the handoff of finished issues? |

In `services`: 1 card and 2 viewers of the index; 2 sessions, 2 documents, 2 requests; 2 importers of 2 issues whose ids collide;
1 watched card and a queue of 1; 2 single-file cards, 2 interruptions, 1 editor save, 2 other records with 1 retained; 2 cards
to open, one after the other, with a move, a start and an import at once; 2 options panels with 2 settings.

**Why these bounds.** *Journal*: two operations on overlapping cards, of which either may be interrupted, are the
smallest case of every hazard: a record meeting a newer one, a scan meeting a move, a recovery meeting a recovery. A
write covers two cards and a group, so it has every kind of unit, two of the first kind; two interruptions allow the
recovery itself to die, one beside an edit lets the edit fall before, between or behind the writer's and the recovery's steps,
and two edits meet two cards (`Upsets` bounds the sum of both). A
command that takes two locks against the order already deadlocks with one other
command that takes the same two. *Dispatch*: two epochs are a grant and the one that fences it; two ids are a dispatch and
its successor; a second agent is the one that takes over; with `Confirm` 1 the clock reaches a
deadline and, where it ends at 2, a later grant whose deadline has not come. `MaxRev` ends the
behaviours and is the numeric limit `touch` refuses at once; 6 is enough to prepare, attempt, accept, rotate, attempt and
accept. *Task start*: two starts are a launch that was rolled back and its retry; two faults let a launch fail and its
clean-up fail too; one executor write is what a stale cursor must not erase, one move brings the card to `review`, from where it
can be claimed by hand again. *Coordinator*: two sessions are a holder and its successor; six changes take a card through two
rounds that nobody observes. *Reviews*: two runs are a first one and its repetition after a fix, or a dead one and its
replacement; two batches are a link of the chain; two cycles are the one a plan was made for and the one it is bound to again.
Everything at once is too much, so `MCReviews` explores the states that keep to one of three regimes: `OneCard`, one batch of one
card with two commands, deaths, findings and answers (an author answers again only what he had confirmed); `Targets`, plans over
two cards with one command at a time and one run per batch, which finds nothing, whose targets move and whose cards go straight to
`done`; `Cycles`, the same plans at one commit, while cards are delivered and reclaimed, one in review at a time until the first is reclaimed
(a plan needs one card out of step). *Prune*: two batches, two runs and a plan let a kept run keep its batch,
that batch its plan, and the plan the other batch. *Services*: two of whatever races, one of whatever is raced for. *Configuration*: two settings
are an edit in one panel and one, of the other panel or of a command, that reaches the file first. Deadlock
checking is off in all runs, since every budget can be used up and commands need not be started.

**Fairness.** *Journal*: `SF` on the steps of each process, since a lock request is enabled and disabled again as others
come and go. The kernel grants a blocking `flock` eventually; the cancellable variant polls every 10 ms and has no queue
(`fs/shared_lock_context.go`), so there the assumption is about scheduling, not about the code: overlapping readers may
keep a writer out, and that is listed as a hazard rather than shown. A process that is interrupted is not obliged to
anything. `SF` on starting `init` while a record is prepared: recovery runs only when a person runs it, and the error
every command then gives says so. *Dispatch*: `WF` on the steps of a sender (no other party can take its turn for ever),
on publishing a transaction already begun, and on the clock. Agents owe nothing, they may stay silent for ever, and the
timeouts of `TimesOut` are not relied upon. *Reconciliation*: `WF` on `ReconcileCoordinator`, because the
coordinator reconciles again after every event, heartbeat and restart; launchers and executors owe nothing.
*Subscription*: `WF` on the loop, on the writer (every line has a deadline) and on the end of a probe batch (every probe has a
timeout); board, clock and caller owe nothing. *BoardView*: `WF` on goroutines ending and their messages being handled; nothing is
asked of clock or user, so that no later refresh makes up for a lost one.

### Properties

*Journal.* `PendingDisjoint`: no two records to be replayed overlap, so their order does not matter. `Replayable`: while a
record is prepared, the disk is an interrupted run of it. `NoLockCycle`. `RollsForward`.
`EditsSurviveReplay`: a document that differs from what the record was staged on stays as it is as long as the record waits, and
no command begins to rename over it. It is said of documents that no command has compared and is about to replace: an edit saved
between those two steps (`recovery.go:91-118`) is overwritten, in the model as in the code. That is no finding, since
`rules/KANDER-KANBAN-RULES.md:125` says that transactions do not protect processes "editing files directly".
`ImplementsAtomicCards` maps each card to what it will be once the prepared records are rolled forward: the operation takes
place when its record is published, and everything later, crashes and replays included, must be a stutter. A lost
update or a torn snapshot breaks it.

*Dispatch.* `WorkedOnce`, `LateAnswerLoses`, `RotatedOnlyAfterExit`, `LeaseReleased`, `ImplementsGrants`. The last maps every
token ever issued to offered, accepted, completed or revoked, and says that authority moves only along those lines and
that no token is issued twice, although a release makes epochs start again; that one authority is open at a time is part
of it. `LateAnswerLoses` is the race the two-step receipt is in the model for: a transaction
opened in time holds the task lock, so a sender cannot see the deadline pass before it ends.

*Task start.* `WorkKept`: no launch, confirmation or rollback puts an earlier text back over what an executor wrote.
`StartsApart`: a retry gets an executor only after the one before was closed, unless closing failed. `TodoStartable`: what
is back in `todo` has lost its launch metadata and carries the rolled-back result. `SuccessIsOwn`: success is recorded only
while the claim and the session are those of the launch. `BoundConfirmed`: a member is bound to a launch only
after its success. `AwaitingBinds`: a waiting member is bound in the end, also when it has already
seen the revision that is then confirmed.

*Coordinator.* `EpochFences`: who publishes holds the newest epoch, also when it was replaced between its passes, and a claim
file moves the epoch once. `CommitsPresent`: a published checkpoint is the board at one moment, and as it was observed.
`DeliveryProved`. `Reconcilable`: an honest observation is accepted however much was missed, except where the card was claimed
again without a release or a released round overtook the one the checkpoint knows; both exceptions are the code's.

*Reviews.* `ClosureFrozen`: nothing that races a closing gets in behind it. `ReviewedOnce`: one id, one reviewer, and
`interrupted` only when nobody carries the run out. `FixesReviewed`: what a closed batch promises, read off the originals.
`ClosuresChain`, `TargetsAgree`. `DoneReviewed`: a done card's plan is sealed and closed, and is of the cycle the card was done in,
although cards are reclaimed and plans bound to new cycles.

*Prune.* `PlanExact`: what the fixed point leaves is the largest set no card needs, by a definition that does not follow the
algorithm. `Accounted`: evidence is whole or has a receipt on each of its cards. `LiveKept`.

*Services.* `TextKept`, `OnlyEditsStop` (migration and retention); `ViewCurrent` (index); `OneCardPerIssue`; `AskedOnce` (a comment
or a close is requested again only after a refusal); `Ends`, `AnnouncedOnTime` (subscription); `NeverBack`, `Settles` (screens);
`NothingOverwritten` (configuration): a save changes what it is meant to set, a panel only fields edited in it, and only where the
file still says what the panel began from. It allows by name the two fields that a session does not take from the file; what
that does to the first of them is `IssueModeKept`, below.

### Where code and documents differ

*Shown by a run.* `RoundFinishes` (`prune_finish`). `docs/review-evidence.md:152` says that the round after an interrupted or
failed one recomputes the same set and finishes it. `removeTree` (`prune.go:553`) removes `run.json` in directory order with
the other files; a crash after that and before the directory is gone leaves a directory that the next round warns of and skips,
while it clears the intents. The directory stays, and `batchRuns` and `settledReviewBatch` fail on it.

`IssueModeKept` (`config_handoff`). `menu/options.go:99` says that a session "prepares the editable config from existing".
`prepare` (`options.go:151-207`) starts from the defaults, copies section by section, and leaves out `Issue`; so the buffer of every panel
has `issue.result_on_done` at `auto`. What a save compares with is the loaded file, which has not changed, so there is no conflict,
and saving anything, or leaving a page, puts `auto` in the place of the user's `ask` or `off`. A session that set the value itself
keeps it, which is all that `TestRulePanelSavesIssueResultOnDone` looks at.

*Seen while modelling, no run*:

- `docs/coordinator-recovery.md:82` speaks of a snapshot; `coordinator_reconcile.go:213-235` reads in two passes with no lock
  in between, which is why `CommitsPresent` is about the second.
- `docs/coordinator-recovery.md:78`: success may be recorded after the executor has written. True of `ConfirmTaskStart`;
  `ConfirmTaskStartSession` (`task_start.go:147`) demands the launcher's own last revision, so an early write makes it refuse.
- `docs/coordinator-recovery.md:76`: an empty STARTED_AT means that the member waits. A claim between the launcher's move and
  its metadata finds `working` without STARTED_AT and records a member that does not wait (`coordinator.go:232`).
- `docs/github-issue-import.md:49` promises no duplicate fetches; concurrent imports of one issue both fetch (`import.go`), and one
  card results (`OneCardPerIssue`).
- `tui/background.go:36-38`: an answer that comes late, while the next probe round is open, is taken for that round.
- `RepairRules` "still converges on the current layout" (`install/rules_state.go`): a crash between `writeRule` and
  `saveRulesState` leaves an official file that counts as modified.

## 4. Proofs

Each proof module holds for any values of the constants that satisfy the named assumptions of its component. Beside types, bounds
and disjoint names there are two kinds: `NoRecord` (and `NoneAssumption`) say that the value for "none" is no record, and the
order of the locks (`CardTransactionsAssumption`) says what `transaction_lock.go` sorts by. TLC evaluates all of them.

**`CardTransactionsProofs`**, from `CardTransactionsAssumption`, `JobsAssumption` (a move or a creation names one card, a read names no
group) and `NoRecord`:

- `TypeCorrect`: `Spec => []TypeOK`. The types alone are not inductive: that a process at `stage` has a job, that one
  applying has a record, and that the caller of an update holds a snapshot of its cards are needed to type the record it
  builds. These are `PcInv`; `TypeInv == TypeOK /\ PcInv` is inductive.
- `LocksExclusive`: `Spec => []LockInv`, two processes hold one lock only as readers.
- `PreparedApart`: `Spec => []PendingDisjoint`. Publication checks nothing: that no other record covers its items is a
  consequence of a check done several steps before and of the locks held since. The inductive invariant is
  `JournalInv == TypeInv /\ LockInv /\ ScopeInv /\ ClearInv /\ PendingDisjoint`. `ScopeInv`: a process past `lock` holds its whole
  scope. `ClearInv`: for a writer between the check and the publication, no prepared record covers its items. The core is
  `WritersApart`, by `LockInv` and `ScopeInv` two writers between check and commit share no item, and `StepClearInv`, in
  which the only action that adds a prepared record is another writer's, whose items are apart from ours, and recovery
  only removes records (`PreparedShrinks`).
- `RecordsReplayable` and `ReplayNeverRefused`: as long as nobody edits from outside, every prepared record is an interrupted run of
  itself, and neither its writer nor a recovery of it, or of a recovery, meets bytes or a revision that it refuses.
  `Replayable` alone is not inductive: which unit may be written next depends on what the process has still to do. `Progress`: what
  it need not do any more is done on disk; `Started`: a document is before or after, an entry has moved only when the
  documents have, a version only when the entry has; `StageInv`: between staging and publication nobody moves what the record was
  computed from; `AskInv`: a record asks for a legal move of a card that exists. `JInv` joins them with who holds which record
  (`RecInv`, `IdInv`, `TodoInv`). The hypothesis `edits = 0` is the property's own: an edit may make a recovery stop, and then
  `ReplayKeepsEdits` (`EditsSurviveReplay`), which has no such hypothesis, says that the edit is what stays, unless a replay had compared its document before it was saved.
- `LocksOrdered` (`NoLockCycle`): the next lock a process asks for is above all it has (`OrderInv`), `journal.lock` is asked for
  last and its holder waits for nobody (`JlockInv`, `RelocInv`). So along a cycle the ranks held would grow for ever; that a finite set
  of processes has one of largest rank is `HasMax`, by induction on its bound.
- `JournalAtomic` (`ImplementsAtomicCards`), for a board without outside edits (`MaxEdits = 0`, as in the run that checks it): the
  board of `AtomicCards` is the disk with all prepared records rolled forward. `RolledRight` computes it card by card, `ReadInv` says
  what a reader has collected is still there, `ViewInv` that an expectation met means an unchanged card. Publication is then the
  operation, a snapshot's end the snapshot, and each of the other steps, the moves of files and the
  recoveries above all, leaves the rolled-forward board alone.

**`DurableDispatchProofs`**: `Invariant`, `OneAuthority`, `BegunOnce` (`WorkedOnce`) and `Refinement` (`ImplementsGrants`). The
invariant has a part about records and receipts (`Core`: a token is issued once, receipts belong to issued tokens, the card names
a dispatch that exists, only the newest grant can still change) and one about the processes (`Locked`: the grant of the agent whose
receipt is being published is still the card's when the transaction ends). Only five kinds of steps change what is stored; for each
of them one lemma preserves `Core` and one gives the step of `ExecutionGrants`. `Handover`, `LateAnswers` (`LateAnswerLoses`) and
`RotatedAfterExit` (`RotatedOnlyAfterExit`) rest on the second half, `HInv`, about commands that hold a lease and no task lock. `ReadOK`:
what a command has read of its dispatch is its present epoch and deadline, or an epoch that has been rotated since. `ExitOK`: an exit
it has seen is evidence as long as the revision is the same, since whoever begins work writes a new one. `AimOK` and `StartOK`: the
session it aims at is the card's, as long as the revision (before the attempt) or the grant (after it) is the same, so a rollback puts
back the right session. `UntoldOK`: a takeover names another session only while nobody was told of its grant, and the lease keeps
everybody else from telling. So the agent told of an open grant is the card's session (`MessageOK`, `HeldOK`), and the exit seen was
that agent's. `ExpiredOK`: a grant seen to expire is past its deadline under a clock that only grows, with no acceptance open, because the
sender looks under the task lock.

**`StartProofs`**: `OneExecutor` (`StartsApart`), `BackInTodo` (`TodoStartable`), `WorkIsKept` (`WorkKept`), `OwnSuccess` (`SuccessIsOwn`)
and `BindsConfirmed` (`BoundConfirmed`), from `StartInvariant`. What carries them is the cursor: a launcher whose revision is still the
card's was the last to write, so what it would restore has the present work and cycle (`CursorOK`); and a start that has, or is
about to have, an executor has left every other start behind with an old cursor (`HolderOK`). No step looks at the executors of
others: that they are apart follows from revisions only. For the member, `BoundConfirmed` is preserved because an attempt that
succeeded is never changed again.

**`CoordinatorProofs`**: `EpochsFence` (`EpochFences`) and `PublishesPresent` (`CommitsPresent`). `BoundOK`: a card names an
existing dispatch of its own, at its present epoch, so the epoch a checkpoint takes from the dispatch is the one the card carries.
`ClaimsOK`: an executed claim is older than the checkpoint, whose revision only grows. The second pass does the rest, which is the
point: nothing of the first is needed. `Records`, `DeliveriesProved` (`DeliveryProved`) and
`AlwaysReconcilable` (`Reconcilable`) are about the first pass, and rest on `CInv`. A card that was not forced has unbroken handoffs
from cycle 1 to its own, each with the revision it was released at (`Unbroken`); revisions only grow, so the newest release is the largest.
A round is bound, completed or released (`DispatchOK`). What a member has recorded of its round is the present epoch or one that has been
fenced since (`RoundKnown`), the handoffs it keeps are a piece of the card's that ends at its own cycle (`CopiedFrom`), and one that
knows no cycle has no delivery and no round. From these, whatever a checkpoint can meet is accepted by `NextMember`: the handoffs of the
card continue those of the member, and the delivery it reports is named by the last of them. Each board command is one lemma about
the card and its round (`BoardKeeps`, `CardStep`, `RoundMoves`), and `NextMember` and `FirstMember` preserve `MemberOK`.

**`ReviewsProofs`**: `ClosuresFreeze` (`ClosureFrozen`), `ClosedIsReviewed` (`FixesReviewed`), `ClosuresLinked` (`ClosuresChain`),
`DoneStaysReviewed` (`DoneReviewed`), `OneReviewer` (`ReviewedOnce`) and `AgreementIsKept` (`TargetsAgree`), from
`ReviewsInvariant`. `ClosedOK` says of a closed batch that all its runs are settled and that its view is the one its closure was
computed from; whatever could change the view (a new run, a result, a reading, an attribution, an answer, an advance) is refused for it,
or concerns a run that is not settled (`FrozenView`). `PlanOK`: the batches of a plan are a list without repetition, each naming the
one before, which is what turns the check of one predecessor at closing time into a chain. `FollowsOK` and `RunOK` tie runs
to batches and commands to runs. `DoneReviewed` needs no strengthening but that a sealed plan is never extended.
The ancestors of a closure's concluding run (`Chain`) are defined as the least set closed under predecessors, which is what the loop
of `ReviewClosureEdges` collects, and which can be reasoned about where a recursion cannot.

**`PruneProofs`**: `TypeCorrect`, `PlanExactAlways`, `LiveKeptAlways`, `AccountedAlways`. `RoundInv` says of a round that no
gate runs under a lock it holds (`Held`), that every record it goes for is about settled cards only (`Chosen`), that the work still
to do belongs to such records (`Work`), and that, while it decides, the largest removable set is within what is left of the
candidates (`Greatest`); with the last, the fixed point is that set. `Accounted` adds that a run without a receipt either waits for
one or is spared together with all it refers to (`Receipted`).

**`IssueProofs`**: `OneCard` (`OneCardPerIssue`), from: ids returned exist as cards of their issue as long as nobody
removes one (`ReturnedExist`), and a card is only made when no attachment is unreadable and none is of the issue (`NoneOf`).
`NeverAskedTwice` (`AskedOnce`), the longer chain: a request that may still be served is backed by a record
that says so (`Backed`), what a command in the middle knows of the store is still so, since it holds the lock (`CmdOK`), and
before it asks nothing of the kind is out (`Sole`).

**`ServiceProofs`**:

- `NoTextLost` (`TextKept`), by what is true of the staging directory at each place of the command (`CommandOK`) and, since a crash
  forgets the place, at every moment (`Kept`).
- `OnlyEditsRefuse` (`OnlyEditsStop`): without an edit every card is `Untouched`, `Moving` or `Moved`, at each of which the next
  command takes it up; the record outlives the staging directories of its cards and, once committed, stays as long as the directory
  that pins it (`RecordOK`), so retention cannot make a recovery fail.
- `Current` (`ViewCurrent`), by what each mark of the index and of a running snapshot guarantees: a card that
  is neither marked nor changed by fingerprint is shown as new as its last `Invalidate` (`RoundOK` for a round in progress).
- `ListGoesForward` (`NeverBack`): of the reads under way at most one is waited for, it was asked for after everything that is shown,
  and none is while a move runs, whose own view replaces the list (`WaitedFor`, `OneRead`, `MoveOK`).
- `SavesWhatIsMeant` (`NothingOverwritten`): whoever holds the lock has read the file as it is (`Holding`), and what a panel has that
  nobody edited is what it began from, but for the two fields the session makes itself (`NotEdited` outside `touched`).

**Only model-checked:** every liveness property (`RollsForward`, `LeaseReleased`, `AwaitingBinds`, `Ends`, `AnnouncedOnTime`,
`Settles`), since fairness and `ENABLED` are out of the prover's reach.

## 5. Not modelled

`PROJECT.json` has one entry per component with its reason. In short: text (parsing, rendering, evidence validation) is
abstracted to refusals that may happen; terminals, processes, Git and the network are outside and appear as choices.
Not modelled at all are the commands that only read or render (lists, reports, messages, flow charts), launch preparation and
prompts, the dismissal of an old container, installation and update (downloads and copies of files), terminal backends, and
the probes of processes. Of what is modelled, these parts are left out because they would need state no property here tells
apart: the v1 journal layout and migration records inside `CardTransactions`, deliveries without a dispatch, several review roles
and waived findings, groups outside Git, the layering of configuration files.
