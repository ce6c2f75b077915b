------------------------------ MODULE TaskStart ------------------------------
(***************************************************************************)
(* Starting a card (internal/board/task_start.go, internal/launch/start.go,*)
(* agent.go) and taking it over (launch/commands.go), as steps on one card.*)
(*                                                                         *)
(* A launcher claims a card of todo, writes its metadata together with a   *)
(* pending attempt, runs an executor, and records success; or it closes    *)
(* the executor and restores the card together with a rolled-back result.  *)
(* Every write goes through the cursor the launcher holds: it is refused   *)
(* once anybody else has written.  The executor writes to the card as soon *)
(* as it runs, a takeover replaces its session, and a person may claim the *)
(* card by hand.  Each board transaction is one step (CardTransactions).   *)
(***************************************************************************)
EXTENDS CardStates, Naturals

CONSTANTS
    Start,          \* start commands, each used once; names its attempt, claim and executor
    Takeover,       \* resume --agent commands, each used once; names its executor
    Claim,          \* move --owner commands, each used once; names its claim
    None,           \* no value
    Plans,          \* how launches deliver their prompt, see Plan
    MaxFaults,      \* bound: failed external calls and transactions, dead launchers
    MaxEdits        \* bound: writes and moves of executors

\* How a launch delivers its prompt: whether the session is discovered after it,
\* and whether WINDOW is written before or after the command is run.
Plan == [persist : BOOLEAN, window : {"none", "before", "after"}]

ASSUME TaskStartAssumption ==
    /\ Plans \subseteq Plan
    /\ Start \cap Takeover = {} /\ Start \cap Claim = {}
    /\ None \notin Start \cup Takeover \cup Claim
    /\ MaxFaults \in Nat /\ MaxEdits \in Nat

Run == Start \cup Takeover

VARIABLES
    card,           \* state, revision and text
    attempt,        \* start -> its pending.json, with its result.json once there is one
    current,        \* current.json: the latest attempt
    pc, cur,        \* launchers: where they are, the cursor and texts they hold
    exec,           \* launcher -> the executor it ran
    claimed,        \* claims by hand that were made
    faults, edits

launchers == <<pc, cur>>
vars == <<card, attempt, current, launchers, exec, claimed, faults, edits>>

\* The text has the managed fields and how much executors have written.  Its
\* cycle is the start or claim that began it (STARTED_AT is empty when it is
\* None), its session whose executor it is and whether the reference is exact.
NoSession == [by |-> None, exact |-> FALSE]
Place == {"todo", "working", "review", "done"}

Init ==
    /\ card = [ place |-> "todo", rev |-> 1,
                text |-> [cycle |-> None, session |-> NoSession, work |-> 0] ]
    /\ attempt = [r \in Start |-> None]
    /\ current = None
    /\ pc = [r \in Run |-> "idle"]
    /\ cur = [r \in Run |-> None]
    /\ exec = [r \in Run |-> "none"]
    /\ claimed = {}
    /\ faults = 0 /\ edits = 0

Alive(r) == exec[r] \in {"running", "left"}     \* left: it could not be closed

Fault == faults < MaxFaults /\ faults' = faults + 1
Ended == {"started", "failed", "refused", "dead"}
\* The launcher goes on with cursor c, or exits and holds nothing.
Go(r, at, c) == /\ pc' = [pc EXCEPT ![r] = at]
                /\ cur' = [cur EXCEPT ![r] = IF at \in Ended THEN None ELSE c]
Goto(r, at) == Go(r, at, cur[r])

\* Slip: any revision will do.
Expect_Any(r) == TRUE
\* The card is where the launcher's entry says, at the cursor's revision.
Expect(r) == card.rev = cur[r].rev /\ card.place = cur[r].place

\* One committed transaction on the card.
Publish(place, text) == card' = [place |-> place, rev |-> card.rev + 1, text |-> text]

\* A committed write: the launcher hears of it and moves its cursor, or is told
\* that it failed and does not.
Learn(r, place, next, fail) ==
    \/ /\ Go(r, next, [cur[r] EXCEPT !.rev = @ + 1, !.place = place])
       /\ UNCHANGED faults
    \/ Fault /\ Goto(r, fail)

\* A write that is refused, unless it may be made, or that fails.
Refuse(r, may, fail) ==
    /\ (~may /\ UNCHANGED faults) \/ Fault
    /\ Goto(r, fail)
    /\ UNCHANGED <<card, attempt, current, exec>>

-----------------------------------------------------------------------------
(* The attempt record *)

\* A start may follow only a rolled-back one.
Startable == current # None => /\ attempt[current].status = "rolled-back"
                               /\ card.rev >= attempt[current].finished

Pending(session) == [ previous |-> current, session |-> session, rev |-> card.rev + 1,
                      status |-> "pending", finished |-> 0 ]

Finish(a, status, rev) ==
    attempt' = [attempt EXCEPT ![a].status = status, ![a].finished = rev]

\* What a rollback that clears STARTED_AT has to find.
RollbackBinding == current # None => /\ attempt[current].status = "pending"
                                     /\ card.text.cycle = current
                                     /\ card.rev >= attempt[current].rev

\* Slip: the card is restored and the attempt left pending.
stageRollback_Forgotten == UNCHANGED attempt
stageRollback == IF current = None THEN UNCHANGED attempt
                 ELSE Finish(current, "rolled-back", card.rev + 1)

\* Slip: whoever holds the session now.
SuccessBinding_AnySession(r, session) ==
    /\ current # None /\ attempt[current].status = "pending"
    /\ attempt[current].rev <= cur[r].rev /\ card.text.cycle = current
\* What recording success has to find: the attempt of this launch and the card
\* as that attempt left it.
SuccessBinding(r, session) ==
    /\ current # None /\ attempt[current].status = "pending"
    /\ attempt[current].rev <= cur[r].rev /\ card.text.cycle = current
    /\ attempt[current].session = session /\ card.text.session = session

-----------------------------------------------------------------------------
(* start *)

Select(r, plan, next) ==
    /\ pc[r] = "idle"
    /\ Go(r, next, [ rev |-> card.rev, place |-> card.place, original |-> card.text,
                     from |-> card.place, plan |-> plan ])
    /\ UNCHANGED <<card, attempt, current, exec, claimed, faults, edits>>

\* Everything before the claim: selection, the document, the plan.
SelectTodo(r, plan) == card.place = "todo" /\ Select(r, plan, "claim")

\* The claim publishes working; a refused or failed one leaves the card alone.
MoveEntry(r) ==
    /\ pc[r] = "claim"
    /\ \/ /\ Expect(r)
          /\ Publish("working", card.text)
          /\ Learn(r, "working", "write", "refused")
          /\ UNCHANGED <<attempt, current, exec>>
       \/ Refuse(r, Expect(r), "refused")
    /\ UNCHANGED <<claimed, edits>>

\* A session that is discovered after the start is not known exactly before.
Provisional(r) == [by |-> r, exact |-> ~cur[r].plan.persist]

Launch(r) == IF cur[r].plan.window = "before" THEN "locate" ELSE "run"

\* The start metadata and the pending attempt, in one transaction.
WriteStart(r) ==
    /\ pc[r] = "write"
    /\ \/ /\ Expect(r) /\ Startable
          /\ Publish("working", [card.text EXCEPT !.cycle = r, !.session = Provisional(r)])
          /\ attempt' = [attempt EXCEPT ![r] = Pending(Provisional(r))]
          /\ current' = r
          /\ Learn(r, "working", Launch(r), "rollback")
          /\ UNCHANGED exec
       \/ Refuse(r, Expect(r) /\ Startable, "rollback")
    /\ UNCHANGED <<claimed, edits>>

-----------------------------------------------------------------------------
(* launchAgent, for start and takeover *)

\* The command is run, once the container exists; a failed call may have
\* started the executor all the same.
RunAgent(r) ==
    /\ pc[r] = "run"
    /\ \/ /\ exec' = [exec EXCEPT ![r] = "running"]
          /\ Goto(r, IF cur[r].plan.window = "after" THEN "locate" ELSE "finish")
          /\ UNCHANGED faults
       \/ /\ Fault /\ Goto(r, "close")
          /\ exec' \in {exec, [exec EXCEPT ![r] = "running"]}
    /\ UNCHANGED <<card, attempt, current, claimed, edits>>

\* WINDOW is written: before the command, or after a prompt typed into the pane.
recordWindowLocation(r) ==
    /\ pc[r] = "locate"
    /\ \/ /\ Expect(r)
          /\ Publish(card.place, card.text)
          /\ Learn(r, card.place, IF exec[r] = "none" THEN "run" ELSE "finish", "close")
          /\ UNCHANGED <<attempt, current, exec>>
       \/ Refuse(r, Expect(r), "close")
    /\ UNCHANGED <<claimed, edits>>

Exactly(r) == [card.text EXCEPT !.session = [by |-> r, exact |-> TRUE]]

\* The session is discovered and replaced, and success recorded, at exactly the
\* revision of the launcher's last write.
ConfirmTaskStartSession(r) ==
    /\ pc[r] = "finish" /\ r \in Start /\ cur[r].plan.persist
    /\ LET may == Expect(r) /\ SuccessBinding(r, Provisional(r)) IN
       \/ /\ may
          /\ Publish(card.place, Exactly(r))
          /\ Finish(current, "succeeded", card.rev + 1)
          /\ Learn(r, card.place, "started", "close")
          /\ UNCHANGED <<current, exec>>
       \/ Refuse(r, may, "close")
    /\ UNCHANGED <<claimed, edits>>

\* Success is recorded beside the card, whatever its executor has written.  A
\* failure is reported; the executor stays and nothing is rolled back.
ConfirmTaskStart(r) ==
    /\ pc[r] = "finish" /\ r \in Start /\ ~cur[r].plan.persist
    /\ LET may == SuccessBinding(r, card.text.session) IN
       \/ /\ may
          /\ Finish(current, "succeeded", card.rev)
          /\ \/ Goto(r, "started") /\ UNCHANGED faults
             \/ Fault /\ Goto(r, "failed")
          /\ UNCHANGED <<card, current, exec>>
       \/ Refuse(r, may, "failed")
    /\ UNCHANGED <<claimed, edits>>

\* Slip: the executor is left behind.
CloseContainer_Skipped(r) == UNCHANGED <<exec, faults>>
\* The executor of a failed launch is closed; that may fail too.
CloseContainer(r) ==
    \/ /\ exec' = [exec EXCEPT ![r] = IF exec[r] = "none" THEN "none" ELSE "closed"]
       /\ UNCHANGED faults
    \/ /\ exec[r] = "running" /\ Fault
       /\ exec' = [exec EXCEPT ![r] = "left"]

LaunchFails(r) ==
    /\ pc[r] = "close"
    /\ CloseContainer(r)
    /\ Goto(r, "rollback")
    /\ UNCHANGED <<card, attempt, current, claimed, edits>>

\* The text and state before the launch are restored, at the launcher's own
\* revision only; a restored todo card carries the rolled-back result with it.
RollbackDocument(r) ==
    /\ pc[r] = "rollback"
    /\ LET clears == r \in Start /\ card.text.cycle # None
           may == Expect(r) /\ (clears => RollbackBinding) IN
       \/ /\ may
          /\ Publish(cur[r].from, cur[r].original)
          /\ IF clears THEN stageRollback ELSE UNCHANGED attempt
          /\ Learn(r, cur[r].from, "failed", "failed")
          /\ UNCHANGED <<current, exec>>
       \/ Refuse(r, may, "failed")
    /\ UNCHANGED <<claimed, edits>>

-----------------------------------------------------------------------------
(* resume --agent *)

SelectTakeover(r, plan) ==
    /\ card.place \in {"working", "review"} /\ card.text.session.by # None
    /\ Select(r, plan, "takeover")

\* A fresh session replaces the one on the card; cycle and claim stay.
WriteTakeover(r) ==
    /\ pc[r] = "takeover"
    /\ \/ /\ Expect(r)
          /\ Publish(card.place, [card.text EXCEPT !.session = Provisional(r)])
          /\ Learn(r, card.place, Launch(r), "rollback")
          /\ UNCHANGED <<attempt, current, exec>>
       \/ Refuse(r, Expect(r), "rollback")
    /\ UNCHANGED <<claimed, edits>>

\* The discovered session is written; nothing else is recorded.
DiscoverTakeover(r) ==
    /\ pc[r] = "finish" /\ r \in Takeover
    /\ \/ /\ ~cur[r].plan.persist
          /\ Goto(r, "validate")
          /\ UNCHANGED <<card, attempt, current, exec, faults>>
       \/ /\ cur[r].plan.persist /\ Expect(r)
          /\ Publish(card.place, Exactly(r))
          /\ Learn(r, card.place, "validate", "close")
          /\ UNCHANGED <<attempt, current, exec>>
       \/ Refuse(r, ~cur[r].plan.persist \/ Expect(r), "close")
    /\ UNCHANGED <<claimed, edits>>

\* The new executor is watched for a while; then the old one is closed, which
\* may be declined without failing the takeover.
ValidateTakeover(r) ==
    /\ pc[r] = "validate"
    /\ LET old == cur[r].original.session.by IN
       \/ /\ Goto(r, "started")
          /\ exec' \in {exec, [exec EXCEPT ![old] = IF Alive(old) THEN "closed" ELSE @]}
          /\ UNCHANGED faults
       \/ Fault /\ Goto(r, "close") /\ UNCHANGED exec
    /\ UNCHANGED <<card, attempt, current, claimed, edits>>

-----------------------------------------------------------------------------
(* Everybody else *)

LauncherDies(r) ==
    /\ pc[r] \notin Ended \cup {"idle"}
    /\ Fault /\ Goto(r, "dead")
    /\ UNCHANGED <<card, attempt, current, exec, claimed, edits>>

Edit == edits < MaxEdits /\ edits' = edits + 1

\* An executor writes to the card at the revision it finds there.
UpdateDocument(r) ==
    /\ Alive(r) /\ Edit
    /\ Publish(card.place, [card.text EXCEPT !.work = @ + 1])
    /\ UNCHANGED <<attempt, current, launchers, exec, claimed, faults>>

\* An executor moves the card on, or the person who claimed it does.
Move(to) ==
    /\ (\E r \in Run : Alive(r)) \/ card.text.cycle \in Claim
    /\ Edit
    /\ allowedMove(card.place, to)
    /\ Publish(to, card.text)
    /\ UNCHANGED <<attempt, current, launchers, exec, claimed, faults>>

\* move --owner: a person claims the card anew.
MoveOwner(c) ==
    /\ c \notin claimed /\ claimed' = claimed \cup {c}
    /\ allowedMove(card.place, "working")
    /\ Publish("working", [card.text EXCEPT !.cycle = c])
    /\ UNCHANGED <<attempt, current, launchers, exec, faults, edits>>

Next ==
    \/ \E r \in Start, plan \in Plans : SelectTodo(r, plan)
    \/ \E r \in Takeover, plan \in Plans : SelectTakeover(r, plan)
    \/ \E r \in Start : MoveEntry(r) \/ WriteStart(r)
    \/ \E r \in Start : ConfirmTaskStartSession(r) \/ ConfirmTaskStart(r)
    \/ \E r \in Takeover : WriteTakeover(r) \/ DiscoverTakeover(r) \/ ValidateTakeover(r)
    \/ \E r \in Run : RunAgent(r) \/ recordWindowLocation(r)
    \/ \E r \in Run : LaunchFails(r) \/ RollbackDocument(r) \/ LauncherDies(r)
    \/ \E r \in Run : UpdateDocument(r)
    \/ \E to \in Place : Move(to)
    \/ \E c \in Claim : MoveOwner(c)

Spec == Init /\ [][Next]_vars

-----------------------------------------------------------------------------
(* Properties *)

\* What an executor has written stays: no launch, confirmation or rollback puts
\* an earlier text back over it.
WorkKept == [][card'.text.work >= card.text.work]_vars

\* Two starts have executors at the same time only when closing one failed: a
\* card gets back to todo only after its executor was closed.
StartsApart ==
    \A r1, r2 \in Start : exec[r1] = "running" /\ exec[r2] = "running" => r1 = r2

\* A card in todo can be started again: its launch metadata is gone, and the
\* attempt that led away from it has its rolled-back result.
TodoStartable ==
    card.place = "todo" =>
      /\ card.text.cycle = None /\ card.text.session = NoSession
      /\ current # None => attempt[current].status = "rolled-back"

\* Success is recorded only while the card still belongs to the attempt, claim
\* and session of the launch, whoever took it over or claimed it meanwhile.
SuccessIsOwn ==
    [][\A r \in Start :
         attempt'[r] # attempt[r] /\ attempt'[r] # None /\ attempt'[r].status = "succeeded" =>
           card.text.cycle = r /\ card.text.session.by = r]_vars

==============================================================================
