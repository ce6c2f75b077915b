------------------------------ MODULE BoardView ------------------------------
(* The list and the open card of the terminal interface (internal/tui,       *)
(* refresh.go and the commands that write).  One goroutine handles messages; *)
(* reads and commands run beside it and answer with a message each, in any   *)
(* order.  Every message ends with takePending, which starts the reads that  *)
(* were asked for.  What a screen shows is the set of changes it includes.   *)
(*                                                                           *)
(* The list is read through the summary index: a view has every change that  *)
(* was marked before it was asked for (ViewCurrent of SummaryIndex), and     *)
(* others perhaps.  A sequence number only says whether a result is still    *)
(* waited for, which is kept as live.                                        *)
EXTENDS Naturals

CONSTANTS
  OpenCards,   \* the cards that may be opened
  NoCard,
  MaxTicks     \* bound: refreshes by the clock or the key r

Jobs == {"move", "start", "import"}   \* bound: each command is given once
Screen == "board"                     \* a read of the list

ASSUME ViewAssumption == Screen \notin OpenCards /\ NoCard \notin OpenCards

VARIABLES
  ui,       \* the fields of App that decide what is read and shown
  running,  \* reads that have not answered: [of, live, floor, at, got]
  work,     \* work[j]: "idle", "run", "written", "answer" or "over"
  payload,  \* the view the move read for itself, with at = "error" if it failed
  written,  \* changes on the board
  known,    \* changes the index will show from now on
  told,     \* ghost: own changes whose command has answered
  ticks     \* counter for MaxTicks

viewVars == <<ui, running, work, payload, written, known, told, ticks>>

NoPayload == [at |-> "none", got |-> {}]

ViewInit ==
  /\ ui = [queued |-> FALSE, reading |-> FALSE, acting |-> FALSE,
           shown |-> {}, failed |-> FALSE, detail |-> NoCard, seen |-> {},
           detailQueued |-> NoCard, detailReading |-> NoCard, detailFailed |-> FALSE]
  /\ running = {} /\ work = [j \in Jobs |-> "idle"]
  /\ payload = NoPayload
  /\ written = {} /\ known = {} /\ told = {} /\ ticks = 0

-----------------------------------------------------------------------------
(* What the handlers do to the fields; u is the App, r the running reads.    *)

\* invalidateBoardReads and invalidateDetailReads: the result comes all the
\* same and must not be taken for one that is waited for.
Stale(r, of) ==
  {IF q.of \in of THEN [q EXCEPT !.live = FALSE] ELSE q : q \in r}

\* requestBoardRefresh.
\* Slip: a read under way is taken to be recent enough.
RequestBoard_Joins(u, fresh) ==
  [u EXCEPT !.queued = @ \/ (~u.acting /\ ~u.reading)]
RequestBoard(u, fresh) ==
  [u EXCEPT !.queued = @ \/ fresh \/ (~u.acting /\ ~u.reading)]

\* requestDetailRead: a read under way is given up unless one is queued.
GivesUp(u, c) == u.detailReading # NoCard /\ u.detailQueued # c
RequestDetail(u, c) ==
  [u EXCEPT !.detailQueued = c, !.detailReading = IF GivesUp(u, c) THEN NoCard ELSE @]

\* takePending, takeQueuedReads: start what is queued and not blocked.
NewRead(of) == [of |-> of, live |-> TRUE, floor |-> known', at |-> "asked", got |-> {}]
TakePending(u, r) ==
  LET list == u.queued /\ ~u.reading /\ ~u.acting
      one  == u.detailQueued # NoCard /\ u.detailReading = NoCard
  IN /\ ui' = [u EXCEPT !.queued = @ /\ ~list, !.reading = @ \/ list,
                        !.detailQueued = IF one THEN NoCard ELSE @,
                        !.detailReading = IF one THEN u.detailQueued ELSE @]
     /\ running' = r \cup {NewRead(of) : of \in
                      (IF list THEN {Screen} ELSE {})
                        \cup (IF one THEN {u.detailQueued} ELSE {})}

\* No dialog has the keys: TaskActions running, StartConfirmation running.
AtBoard == ui.detail = NoCard /\ ~ui.acting /\ work["start"] \in {"idle", "over"}

-----------------------------------------------------------------------------
(* Messages of the clock and of the user.                                    *)

\* tickMsg with the refresh interval over, and the key r.
Refresh(fresh) ==
  /\ fresh => AtBoard
  /\ ticks < MaxTicks /\ ticks' = ticks + 1
  /\ UNCHANGED <<work, payload, written, known, told>>
  /\ TakePending(RequestBoard(ui, fresh), running)

OpenDetail(c) ==
  /\ AtBoard
  /\ UNCHANGED <<work, payload, written, known, told>>
  /\ ticks < MaxTicks /\ ticks' = ticks + 1
  /\ TakePending(RequestDetail([ui EXCEPT !.detail = c, !.seen = ui.shown,
                                          !.detailFailed = FALSE], c), running)

CloseDetail ==
  /\ ui.detail # NoCard
  /\ UNCHANGED <<work, payload, written, known, told, ticks>>
  /\ TakePending([ui EXCEPT !.detail = NoCard, !.seen = {}, !.detailFailed = FALSE,
                            !.detailQueued = NoCard, !.detailReading = NoCard],
                 Stale(running, OpenCards))

\* queueTaskAction: nothing is read until the move has answered.
BeginMove ==
  /\ AtBoard /\ work["move"] = "idle"
  /\ work' = [work EXCEPT !["move"] = "run"]
  /\ UNCHANGED <<payload, written, known, told, ticks>>
  /\ TakePending([ui EXCEPT !.acting = TRUE, !.reading = FALSE], Stale(running, {Screen}))

\* StartTask behind its confirmation, and an import from the issue panel,
\* which may be closed while it runs.
BeginOther(j) ==
  /\ AtBoard /\ j # "move" /\ work[j] = "idle"
  /\ work' = [work EXCEPT ![j] = "run"]
  /\ UNCHANGED <<payload, written, known, told, ticks>>
  /\ TakePending(ui, running)

-----------------------------------------------------------------------------
(* The goroutines beside: commands and reads.                                *)

\* A command writes, or fails before or after it wrote.
RunJob(j) ==
  /\ work[j] = "run"
  /\ work' = [work EXCEPT ![j] = IF j = "move" THEN "written" ELSE "answer"]
  /\ \/ written' = written \cup {j}
     \/ UNCHANGED written
  /\ UNCHANGED <<ui, running, payload, known, told, ticks>>

\* runTaskAction is over: the card is marked.
MarkMoved == written \cap {"move"}
\* SummaryIndex.View: what was marked when it was asked, and maybe all else.
Views(floor) == {floor, written}
MoveReads ==
  /\ work["move"] = "written" /\ work' = [work EXCEPT !["move"] = "answer"]
  /\ \/ \E got \in Views(known \cup MarkMoved) :
          payload' = [at |-> "read", got |-> got] /\ known' = known \cup got
     \/ payload' = [at |-> "error", got |-> {}] /\ known' = known \cup MarkMoved
  /\ UNCHANGED <<ui, running, written, told, ticks>>

\* runBoardRead, and runTaskRead, which reads the card itself.  Whether a read
\* nobody waits for failed makes no difference.
Reads(q) ==
  /\ q.at = "asked"
  /\ \/ \E got \in (IF q.of = Screen THEN Views(q.floor) ELSE {written}) :
          /\ running' = (running \ {q}) \cup {[q EXCEPT !.at = "read", !.got = got]}
          /\ known' = IF q.of = Screen THEN known \cup got ELSE known
     \/ /\ q.live
        /\ running' = (running \ {q}) \cup {[q EXCEPT !.at = "error"]}
        /\ UNCHANGED known
  /\ UNCHANGED <<ui, work, payload, written, told, ticks>>

-----------------------------------------------------------------------------
(* Their answers.                                                            *)

\* Slip: the sequence number of a result is not looked at.
Awaited_Any(q) == TRUE
Awaited(q) == q.live

\* applyBoardRead and applyBoardPayload.
ApplyBoardRead(q) ==
  /\ q.of = Screen /\ q.at # "asked"
  /\ UNCHANGED <<work, payload, written, known, told, ticks>>
  /\ LET rest == running \ {q}
         u == [ui EXCEPT !.reading = FALSE]
         shows == [u EXCEPT !.shown = q.got, !.failed = FALSE]
     IN IF ~Awaited(q) THEN TakePending(ui, rest)
        ELSE IF ui.queued THEN TakePending(u, rest)
        ELSE IF q.at = "error" THEN TakePending([u EXCEPT !.failed = TRUE], rest)
        ELSE IF ui.detail # NoCard
        THEN TakePending(RequestDetail(shows, ui.detail),
                         IF GivesUp(u, ui.detail) THEN Stale(rest, OpenCards) ELSE rest)
        ELSE TakePending(shows, rest)

\* applyDetailRead and applyDetailTask.
ApplyDetailRead(q) ==
  /\ q.of # Screen /\ q.at # "asked"
  /\ UNCHANGED <<work, payload, written, known, told, ticks>>
  /\ LET rest == running \ {q}
         u == [ui EXCEPT !.detailReading = NoCard]
     IN IF ~Awaited(q) THEN TakePending(ui, rest)
        ELSE IF ui.detailQueued # NoCard \/ ui.detail # q.of THEN TakePending(u, rest)
        ELSE IF q.at = "error" THEN TakePending([u EXCEPT !.detailFailed = TRUE], rest)
        ELSE TakePending([u EXCEPT !.seen = q.got, !.detailFailed = FALSE], rest)

JobAnswers(j) ==
  /\ work[j] = "answer" /\ work' = [work EXCEPT ![j] = "over"]
  /\ told' = told \cup (written \cap {j})
  /\ payload' = IF j = "move" THEN NoPayload ELSE payload
  /\ UNCHANGED <<written, ticks>>

\* applyTaskActionResult: the list the move read is shown at once.
FinishMove ==
  /\ JobAnswers("move") /\ UNCHANGED known
  /\ LET u == [ui EXCEPT !.acting = FALSE]
     IN TakePending(IF payload.at = "error" THEN [u EXCEPT !.failed = TRUE]
                    ELSE [u EXCEPT !.shown = payload.got], running)

\* applyStartResult and applyIssuesImport: mark the card and ask anew.
FinishStart ==
  /\ JobAnswers("start") /\ known' = known \cup (written \cap {"start"})
  /\ TakePending(RequestBoard(ui, TRUE), running)
FinishImport ==
  /\ JobAnswers("import") /\ known' = known \cup (written \cap {"import"})
  /\ TakePending(RequestBoard([ui EXCEPT !.reading = FALSE], TRUE),
                 Stale(running, {Screen}))

Answers ==
  \/ \E j \in Jobs : RunJob(j)
  \/ MoveReads
  \/ \E q \in running : Reads(q) \/ ApplyBoardRead(q) \/ ApplyDetailRead(q)
  \/ FinishMove \/ FinishStart \/ FinishImport

ViewNext ==
  \/ \E fresh \in BOOLEAN : Refresh(fresh)
  \/ \E c \in OpenCards : OpenDetail(c)
  \/ CloseDetail \/ BeginMove
  \/ \E j \in Jobs : BeginOther(j)
  \/ Answers

\* A goroutine ends and its message is handled; nothing is asked of the clock
\* or the user, so no later refresh makes up for a lost one.
ViewFairness == WF_viewVars(Answers)

ViewSpec == ViewInit /\ [][ViewNext]_viewVars /\ ViewFairness

-----------------------------------------------------------------------------
(* The list never loses a change it has shown, in whatever order the reads   *)
(* answer that were overtaken by a command (the sequence numbers of          *)
(* refresh.go and invalidateBoardReads).                                     *)
NeverBack == [][ui.shown \subseteq ui'.shown]_viewVars

(* When the interface comes to rest, the list shows every change whose       *)
(* command has answered, and an open card every change the list shows,       *)
(* unless it says that the read failed.                                      *)
ListSettled == \A j \in told : j \in ui.shown \/ ui.failed
DetailSettled == ui.detail # NoCard => ui.shown \subseteq ui.seen \/ ui.detailFailed
Settles == <>[](ListSettled /\ DetailSettled)
=============================================================================
