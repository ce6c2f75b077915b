--------------------------- MODULE DurableDispatch ---------------------------
(***************************************************************************)
(* The durable dispatch protocol of one card (internal/board/dispatch*.go) *)
(* and the commands that drive it (internal/notify/dispatch.go,            *)
(* internal/launch/dispatch*.go).                                          *)
(*                                                                         *)
(* A coordinator prepares an intent, senders deliver it under a lease, an  *)
(* agent accepts it and later completes it, and an authority (id, epoch)   *)
(* written in the card fences whoever held an earlier one.  Each board     *)
(* transaction is indivisible (CardTransactions shows it), except that a   *)
(* receipt is checked against the clock when its task lock is taken and    *)
(* becomes visible when the lock is released.                              *)
(***************************************************************************)
EXTENDS CardStates, Naturals, Sequences, FiniteSets

CONSTANTS
    Sender,         \* running notify, resume and authorize-wrap-up commands
    Agent,          \* agent sessions: one executor process each
    Id,             \* dispatch ids
    FirstAgent,     \* the session the card names at the start
    None,           \* no value
    Confirm,        \* time an executor has to accept a grant
    Fresh,          \* how old an exit observation may be
    MaxEpoch,       \* the largest execution epoch (a uint64 in the code)
    MaxRev,         \* the largest card revision (a uint64 in the code)
    MaxTime,        \* bound: the clock
    MaxFaults,      \* bound: deaths of senders and agents
    MaxEdits        \* bound: transactions besides the delivery itself

ASSUME DurableDispatchAssumption ==
    /\ FirstAgent \in Agent /\ None \notin Agent \cup Id \cup Sender
    /\ Confirm \in Nat \ {0} /\ Fresh \in Nat
    /\ MaxEpoch \in Nat /\ MaxRev \in Nat \ {0} /\ MaxTime \in Nat /\ MaxFaults \in Nat
    /\ MaxEdits \in Nat

\* ExecutionAuthorization
Token == [id : Id, epoch : 1..MaxEpoch]
Unbound == [id |-> None, epoch |-> 0]

VARIABLES
    now,
    place, rev, bound, session,     \* the card: state, revision, DISPATCH_ID and epoch, SESSION
    disp,                           \* dispatches/<id>/state.json
    receipts,                       \* accepted-<epoch>.json and completed-<epoch>.json
    lock,                           \* the task lock, while a receipt is being published
    lease,                          \* dispatch-<id>.lock
    pc, cur,                        \* senders: where they are, what they go by
    agent, token,                   \* agents: what they do, under which grant
    mail,                           \* messages handed to a session: [to, token]
    sent, started, expired, issued, \* what has happened, see Init
    faults, edits

card == <<place, rev, bound, session>>
senders == <<lease, pc, cur>>
agents == <<agent, token, mail>>
history == <<sent, started, expired, issued>>
bounds == <<faults, edits>>
vars == <<now, card, disp, receipts, lock, senders, agents, history, bounds>>

Kinds == {"fix", "wrap-up"}         \* a sync goes the way of a fix
Terminal == {"completed", "failed", "cancelled"}
Dispatch == [ kind : Kinds, state : {"prepared", "delivery-unknown", "accepted"} \cup Terminal,
              epoch : 1..MaxEpoch, rev : Nat, attempts : Nat, deadline : Nat,
              wrapUp : BOOLEAN, released : BOOLEAN ]
Receipt == [at : Nat, rev : Nat]
Holder == [by : Agent, at : Nat]
Stage == {"accepted", "completed"}

ASSUME NoneAssumption == None \notin Dispatch \cup Receipt \cup Holder

Live(id) == disp[id] # None /\ disp[id].state \notin Terminal
Auth(id) == [id |-> id, epoch |-> disp[id].epoch]
Pending(id) == Live(id) /\ disp[id].state # "accepted"
receiptExists(id) == disp[id].state \in Stage

Init ==
    /\ now = 0
    /\ place \in {"working", "review"} /\ rev = 1
    /\ bound = Unbound /\ session = FirstAgent
    /\ disp = [id \in Id |-> None]
    /\ receipts = [k \in Stage \X Token |-> None]
    /\ lock = None
    /\ lease = [id \in Id |-> None]
    /\ pc = [s \in Sender |-> "idle"]
    /\ cur = [s \in Sender |-> None]
    /\ agent = [a \in Agent |-> IF a = FirstAgent THEN "idle" ELSE "dead"]
    /\ token = [a \in Agent |-> None]
    /\ mail = {}
    /\ sent = [t \in Token |-> 0]           \* transmissions of each grant
    /\ started = [t \in Token |-> 0]        \* how often its work was begun
    /\ expired = {}                         \* grants seen unaccepted at their deadline
    /\ issued = <<>>                        \* every grant, oldest first
    /\ faults = 0 /\ edits = 0

\* Slip: the board is read and written without the task lock.
TaskLock_Ignored == TRUE
TaskLock == lock = None

\* One committed transaction on the card; touch refuses a revision overflow.
touch == TaskLock /\ rev < MaxRev /\ rev' = rev + 1

InTime(id) == now < disp[id].deadline

Edit == edits < MaxEdits /\ edits' = edits + 1

requireExecution(t, author) ==
    /\ bound = t /\ t.id \in Id /\ Live(t.id) /\ Auth(t.id) = t
    /\ disp[t.id].state # "accepted" => ~author /\ InTime(t.id)

-----------------------------------------------------------------------------
(* Coordinator transactions *)

Settled == bound # Unbound => ~Live(bound.id)

\* A new intent binds the card and fences the settled one before it.
PrepareDispatch(id, kind) ==
    /\ disp[id] = None /\ place \in {"working", "review"}
    /\ Settled
    /\ bound.epoch < MaxEpoch
    /\ now + Confirm <= MaxTime     \* bound: deadlines the clock can reach
    /\ touch
    /\ bound' = [id |-> id, epoch |-> bound.epoch + 1]
    /\ disp' = [disp EXCEPT ![id] =
                  [ kind |-> kind, state |-> "prepared", epoch |-> bound.epoch + 1, rev |-> 1,
                    attempts |-> 0, deadline |-> now + Confirm, wrapUp |-> FALSE,
                    released |-> FALSE ]]
    /\ issued' = Append(issued, bound')
    /\ UNCHANGED <<now, place, session, receipts, lock, senders, agents, sent, started,
                   expired, bounds>>

\* Fail or cancel an unfinished dispatch and unbind the card; one that is
\* already failed or cancelled is only released.
EndDispatch(id, state) ==
    LET d == disp[id] IN
    /\ d # None /\ bound = Auth(id) /\ place # "archived"
    /\ d.state # "completed" /\ ~d.released
    /\ Live(id) \/ d.state = state
    /\ touch /\ Edit
    /\ disp' = [disp EXCEPT ![id].state = state, ![id].rev = @ + 1, ![id].released = TRUE]
    /\ bound' = Unbound
    /\ UNCHANGED <<now, place, session, receipts, lock, senders, agents, history, faults>>

\* A lifecycle decision on a bound card cancels what is unfinished and keeps
\* the binding (stageDispatchTermination).
Terminate(to) ==
    LET id == bound.id IN
    /\ bound # Unbound /\ to \in {"archived", "trash"} /\ allowedMove(place, to)
    /\ touch /\ Edit
    /\ place' = to
    /\ disp' = IF Live(id) THEN [disp EXCEPT ![id].state = "cancelled", ![id].rev = @ + 1]
                           ELSE disp
    /\ UNCHANGED <<now, bound, session, receipts, lock, senders, agents, history, faults>>

\* A move of an unbound card: no authority is asked for or given.
Move(to) ==
    /\ bound = Unbound /\ allowedMove(place, to)
    /\ touch /\ Edit
    /\ place' = to
    /\ UNCHANGED <<now, bound, session, disp, receipts, lock, senders, agents, history, faults>>

-----------------------------------------------------------------------------
(* Senders: every command on a dispatch runs under its lease *)

Goto(s, l) == pc' = [pc EXCEPT ![s] = l]

Leave(s) ==
    /\ Goto(s, "idle")
    /\ cur' = [cur EXCEPT ![s] = None]
    /\ lease' = [id \in Id |-> IF lease[id] = s THEN None ELSE lease[id]]

\* mode: "notify", "takeover" (resume --agent), "wrap-up" (authorize-wrap-up).
WithDispatchDelivery(s, id, mode) ==
    /\ pc[s] = "idle" /\ disp[id] # None /\ lease[id] = None
    /\ lease' = [lease EXCEPT ![id] = s]
    /\ cur' = [cur EXCEPT ![s] = [ id |-> id, mode |-> mode, epoch |-> 0, rev |-> 0,
                                   card |-> 0, deadline |-> 0, launch |-> FALSE,
                                   exit |-> None, target |-> None, old |-> None ]]
    /\ Goto(s, "read")
    /\ UNCHANGED <<now, card, disp, receipts, lock, agents, history, bounds>>

\* Accepted work is only ever taken over; settled work is reported.
ReadDispatch(s) ==
    LET id == cur[s].id
        d == disp[id]
        settled == \/ d.state \in Terminal
                   \/ cur[s].mode = "wrap-up" /\ (d.wrapUp \/ d.kind # "wrap-up") IN
    /\ pc[s] = "read" /\ TaskLock
    /\ \/ /\ settled \/ (cur[s].mode = "notify" /\ d.state = "accepted")     \* --pane
          /\ Leave(s)
       \/ /\ ~settled
          /\ cur' = [cur EXCEPT ![s].epoch = d.epoch, ![s].rev = d.rev, ![s].deadline = d.deadline]
          /\ Goto(s, IF cur[s].mode = "wrap-up" \/ d.state = "accepted" THEN "recover"
                     ELSE IF cur[s].mode = "takeover" THEN "authorize" ELSE "observe")
          /\ UNCHANGED lease
    /\ UNCHANGED <<now, card, disp, receipts, lock, agents, history, bounds>>

\* Slip: silence taken for a confirmed exit.
Stopped_Silent(a) == TRUE
Stopped(a) == agent[a] = "dead"

\* observedDispatchExit: only a confirmed stop of the session the card names.
ObserveExit(s) ==
    /\ pc[s] = "recover" /\ TaskLock
    /\ \/ /\ Stopped(session)
          /\ cur' = [cur EXCEPT ![s].exit = [rev |-> rev, session |-> session, at |-> now]]
          /\ Goto(s, "authorize") /\ UNCHANGED lease
       \/ ~Stopped(session) /\ Leave(s)
    /\ UNCHANGED <<now, card, disp, receipts, lock, agents, history, bounds>>

validDispatchExit(s) ==
    LET e == cur[s].exit IN
    e # None /\ e.rev = rev /\ e.session = session /\ now - e.at <= Fresh

\* The compare-and-swap both grants share.
Current(s) ==
    LET id == cur[s].id IN
    /\ Live(id) /\ disp[id].rev = cur[s].rev /\ bound = Auth(id)
    /\ ~disp[id].wrapUp /\ disp[id].epoch < MaxEpoch /\ rev < MaxRev

ExitProven(s) == disp[cur[s].id].state = "accepted" => validDispatchExit(s)

Reauthorizable(s) ==
    /\ cur[s].mode # "wrap-up" /\ Current(s) /\ ExitProven(s)
    /\ Pending(cur[s].id) => InTime(cur[s].id)
    /\ now + Confirm <= MaxTime     \* bound: deadlines the clock can reach

WrapUpAllowed(s) ==
    /\ cur[s].mode = "wrap-up" /\ Current(s) /\ validDispatchExit(s)
    /\ place \in {"review", "working"}
    /\ now + Confirm <= MaxTime     \* bound: deadlines the clock can reach

\* The next epoch of a dispatch: nothing accepted or attempted under it yet.
Rotated(d, deadline, wrapUp) ==
    [d EXCEPT !.epoch = @ + 1, !.rev = @ + 1, !.state = "prepared", !.attempts = 0,
              !.deadline = deadline, !.wrapUp = wrapUp]

Rotate(id, deadline, wrapUp) ==
    /\ touch
    /\ disp' = [disp EXCEPT ![id] = Rotated(@, deadline, wrapUp)]
    /\ bound' = [id |-> id, epoch |-> disp'[id].epoch]
    /\ issued' = Append(issued, bound')

ReauthorizeDispatch(s) ==
    LET id == cur[s].id
        deadline == IF Pending(id) THEN disp[id].deadline ELSE now + Confirm IN
    /\ pc[s] = "authorize" /\ Reauthorizable(s)
    /\ Rotate(id, deadline, FALSE)
    /\ cur' = [cur EXCEPT ![s].epoch = disp'[id].epoch, ![s].rev = disp'[id].rev,
                                ![s].deadline = deadline]
    /\ Goto(s, "observe")
    /\ UNCHANGED <<now, place, session, receipts, lock, lease, agents, sent, started,
                   expired, bounds>>

\* The grant goes to an agent that finishes the records on behalf of the old one.
AuthorizeDispatchWrapUp(s) ==
    /\ pc[s] = "authorize" /\ WrapUpAllowed(s)
    /\ Rotate(cur[s].id, now + Confirm, TRUE)
    /\ Leave(s)
    /\ \E a \in Agent : mail' = mail \cup {[to |-> a, token |-> bound']}
    /\ UNCHANGED <<now, place, session, receipts, lock, agent, token, sent, started,
                   expired, bounds>>

RefuseGrant(s) ==
    /\ pc[s] = "authorize" /\ TaskLock /\ ~Reauthorizable(s) /\ ~WrapUpAllowed(s)
    /\ Leave(s)
    /\ UNCHANGED <<now, card, disp, receipts, lock, agents, history, bounds>>

\* Reconcile the receipt, then look at the executor; a busy one is waited for.
Observe(s) ==
    LET id == cur[s].id
        sendable == /\ disp[id].epoch = cur[s].epoch /\ ~receiptExists(id)
                    /\ requireExecution(Auth(id), FALSE) IN
    /\ pc[s] = "observe" /\ TaskLock
    /\ \/ ~sendable /\ Leave(s)
       \/ /\ sendable
          /\ cur' = [cur EXCEPT ![s].rev = IF cur[s].mode = "takeover" THEN @ ELSE disp[id].rev,
                       ![s].card = rev, ![s].target = session,
                       ![s].launch = cur[s].mode = "takeover" \/ Stopped(session)]
          /\ \/ Goto(s, "begin")
             \/ ~cur'[s].launch /\ Goto(s, "window")
          /\ UNCHANGED lease
    /\ UNCHANGED <<now, card, disp, receipts, lock, agents, history, bounds>>

\* The executor was found in another window than the card says: write that
\* down first, in a transaction of its own.
WriteDocument(s) ==
    LET writable == rev = cur[s].card /\ rev < MaxRev /\ requireExecution(bound, FALSE) IN
    /\ pc[s] = "window" /\ TaskLock
    /\ \/ /\ writable
          /\ rev' = rev + 1
          /\ cur' = [cur EXCEPT ![s].card = rev + 1]
          /\ Goto(s, "begin") /\ UNCHANGED lease
       \/ ~writable /\ Leave(s) /\ UNCHANGED rev
    /\ UNCHANGED <<now, place, bound, session, disp, receipts, lock, agents, history, bounds>>

Attemptable(s) ==
    LET id == cur[s].id IN
    /\ Pending(id) /\ ~disp[id].wrapUp /\ rev = cur[s].card
    /\ disp[id].rev = cur[s].rev /\ bound = Auth(id) /\ InTime(id) /\ rev < MaxRev

Attempted(d) == [d EXCEPT !.state = "delivery-unknown", !.rev = @ + 1, !.attempts = @ + 1]

BeginDispatchAttempt(s) ==
    /\ pc[s] = "begin" /\ Attemptable(s)
    /\ touch
    /\ disp' = [disp EXCEPT ![cur[s].id] = Attempted(@)]
    /\ Goto(s, IF cur[s].launch THEN "launch" ELSE "send")
    /\ UNCHANGED <<now, place, bound, session, receipts, lock, lease, cur, agents, history,
                   bounds>>

RefuseAttempt(s) ==
    /\ pc[s] = "begin" /\ TaskLock /\ ~Attemptable(s)
    /\ Leave(s)
    /\ UNCHANGED <<now, card, disp, receipts, lock, agents, history, bounds>>

Transmit(s) ==
    LET t == [id |-> cur[s].id, epoch |-> cur[s].epoch] IN
    /\ mail' = mail \cup {[to |-> cur[s].target, token |-> t]}
    /\ sent' = [sent EXCEPT ![t] = @ + 1]

\* A transport error may still have delivered the message.
sendDispatch(s) ==
    /\ pc[s] = "send"
    /\ \/ Transmit(s)
       \/ UNCHANGED <<mail, sent>>
    /\ \/ Goto(s, "await") /\ UNCHANGED <<lease, cur>>
       \/ Leave(s)
    /\ UNCHANGED <<now, card, disp, receipts, lock, agent, token, started, expired, issued,
                   bounds>>

\* A takeover names a new session before it starts one; a plain resume keeps it.
WriteSession(s) ==
    LET t == [id |-> cur[s].id, epoch |-> cur[s].epoch] IN
    /\ pc[s] = "launch" /\ requireExecution(t, FALSE) /\ ~disp[t.id].wrapUp
    /\ \E a \in {a \in Agent : Stopped(a) /\ (a = session <=> cur[s].mode = "notify")} :
        /\ touch
        /\ session' = a
        /\ cur' = [cur EXCEPT ![s].target = a, ![s].old = session, ![s].card = rev + 1]
    /\ Goto(s, "start")
    /\ UNCHANGED <<now, place, bound, disp, receipts, lock, lease, agents, history, bounds>>

StartAgent(s) ==
    LET a == cur[s].target IN
    /\ pc[s] = "start"
    /\ Transmit(s)
    /\ IF Stopped(a) THEN /\ agent' = [agent EXCEPT ![a] = "idle"]
                          /\ token' = [token EXCEPT ![a] = None]
                     ELSE UNCHANGED <<agent, token>>
    /\ \/ cur[s].mode = "notify" /\ Goto(s, "await") /\ UNCHANGED <<lease, cur>>
       \/ Leave(s)
    /\ UNCHANGED <<now, card, disp, receipts, lock, started, expired, issued, bounds>>

\* rollbackLaunch puts the old text back only while nothing newer was committed,
\* and not at all after a launch that may have delivered.
RollsBack(s) == pc[s] = "start" /\ rev = cur[s].card /\ rev < MaxRev
                /\ requireExecution(bound, FALSE)

LaunchFails(s) ==
    /\ pc[s] \in {"launch", "start"} /\ TaskLock
    /\ \/ RollsBack(s) /\ rev' = rev + 1 /\ session' = cur[s].old
       \/ UNCHANGED <<rev, session>>
    /\ Leave(s)
    /\ UNCHANGED <<now, place, bound, disp, receipts, lock, agents, history, bounds>>

\* Slip: waiting for the receipt only.
GaveUp_Never(s) == FALSE
GaveUp(s) == now >= cur[s].deadline

awaitDispatch(s) ==
    LET id == cur[s].id IN
    /\ pc[s] = "await" /\ TaskLock
    /\ \/ receiptExists(id) /\ UNCHANGED expired
       \/ /\ ~receiptExists(id) /\ GaveUp(s)
          /\ expired' = expired \cup {[id |-> id, epoch |-> cur[s].epoch]}
    /\ Leave(s)
    /\ UNCHANGED <<now, card, disp, receipts, lock, agents, sent, started, issued, bounds>>

\* The command's own timeout, shorter than the deadline, ends the wait: the
\* dispatch stays pending and nothing is known about it.
TimesOut(s) ==
    /\ pc[s] \in {"recover", "authorize", "observe", "await"}
    /\ Leave(s)
    /\ UNCHANGED <<now, card, disp, receipts, lock, agents, history, bounds>>

\* A sender dies or is cancelled: the kernel drops its lease, nothing is undone.
SenderDies(s) ==
    /\ pc[s] # "idle" /\ faults < MaxFaults
    /\ faults' = faults + 1
    /\ Leave(s)
    /\ UNCHANGED <<now, card, disp, receipts, lock, agents, history, edits>>

-----------------------------------------------------------------------------
(* Agents: an external program that calls kander with the token it was told *)

Do(a, l) == agent' = [agent EXCEPT ![a] = l]

\* The message files are kept: one may be read late, twice, or after a restart.
Receive(a, m) ==
    /\ agent[a] = "idle" /\ m.to = a
    /\ Do(a, "told")
    /\ token' = [token EXCEPT ![a] = m.token]
    /\ UNCHANGED <<now, card, disp, receipts, lock, senders, mail, history, bounds>>

\* Slip: the epoch of the answer not looked at.
Bound_IdOnly(a) == bound.id = token[a].id
Bound(a) == bound = token[a]

\* stageDispatchMove to working: a receipt that exists is replayed, and tells
\* the agent not to begin again.
AcceptReplayed(a) == Bound(a) /\ receiptExists(bound.id)

Acceptable(a) ==
    /\ Bound(a) /\ Pending(bound.id) /\ place \in {"working", "review"}
    /\ InTime(bound.id) /\ rev < MaxRev

\* The task lock is taken and the clock read; the receipt is dated.
OpenAccept(a) ==
    /\ agent[a] = "told" /\ TaskLock /\ Acceptable(a)
    /\ lock' = [by |-> a, at |-> now]
    /\ Do(a, "accepting")
    /\ UNCHANGED <<now, card, disp, receipts, senders, token, mail, history, bounds>>

\* Slip: an agent begins the work again on a replayed receipt.
Begins_OnReplay(a) == {"working", "idle"}
Begins(a) == {"idle"}

ReplayAccept(a) ==
    /\ agent[a] = "told" /\ TaskLock /\ AcceptReplayed(a)
    /\ \E l \in Begins(a) :
        /\ Do(a, l)
        /\ started' = IF l = "working" THEN [started EXCEPT ![token[a]] = @ + 1] ELSE started
    /\ UNCHANGED <<now, card, disp, receipts, lock, senders, token, mail, sent, expired,
                   issued, bounds>>

RefuseAccept(a) ==
    /\ agent[a] = "told" /\ TaskLock /\ ~Acceptable(a) /\ ~AcceptReplayed(a)
    /\ Do(a, "idle")
    /\ UNCHANGED <<now, card, disp, receipts, lock, senders, token, mail, history, bounds>>

receiptName(stage, t) == <<stage, t>>

\* The receipt, the dispatch and the relocation in one transaction.
Settle(a, stage, to) ==
    LET t == token[a] IN
    /\ rev' = rev + 1
    /\ disp' = [disp EXCEPT ![t.id].state = stage, ![t.id].rev = @ + 1]
    /\ receipts' = [receipts EXCEPT ![receiptName(stage, t)] = [at |-> lock.at, rev |-> rev + 1]]
    /\ place' = to
    /\ lock' = None

PublishAccept(a) ==
    /\ agent[a] = "accepting"
    /\ Settle(a, "accepted", "working")
    /\ started' = [started EXCEPT ![token[a]] = @ + 1]
    /\ Do(a, "working")
    /\ UNCHANGED <<now, bound, session, senders, token, mail, sent, expired, issued, bounds>>

\* UpdateDocument by the executor.
AuthorWrite(a) ==
    /\ agent[a] = "working" /\ requireExecution(token[a], TRUE)
    /\ touch /\ Edit
    /\ UNCHANGED <<now, place, bound, session, disp, receipts, lock, senders, agents, history,
                   faults>>

Target(a) == IF disp[token[a].id].kind = "wrap-up" THEN "done" ELSE "review"

OpenComplete(a) ==
    /\ agent[a] = "working" /\ Bound(a) /\ disp[bound.id].state = "accepted"
    /\ place = "working" /\ TaskLock /\ rev < MaxRev
    /\ lock' = [by |-> a, at |-> now]
    /\ Do(a, "completing")
    /\ UNCHANGED <<now, card, disp, receipts, senders, token, mail, history, bounds>>

PublishComplete(a) ==
    /\ agent[a] = "completing"
    /\ Settle(a, "completed", Target(a))
    /\ Do(a, "idle")
    /\ UNCHANGED <<now, bound, session, senders, token, mail, history, bounds>>

\* Any refusal, and a replayed completion, ends the work.
StopWork(a) ==
    /\ agent[a] = "working" /\ TaskLock /\ ~requireExecution(token[a], TRUE)
    /\ Do(a, "idle")
    /\ UNCHANGED <<now, card, disp, receipts, lock, senders, token, mail, history, bounds>>

\* A death in the middle of a publication: the journal has the record and rolls
\* it forward before anyone else can touch the card, or has nothing.
AgentDies(a) ==
    /\ agent[a] # "dead" /\ faults < MaxFaults
    /\ faults' = faults + 1
    /\ Do(a, "dead")
    /\ \/ /\ agent[a] = "accepting" /\ Settle(a, "accepted", "working")
       \/ /\ agent[a] = "completing" /\ Settle(a, "completed", Target(a))
       \/ /\ lock' = IF lock # None /\ lock.by = a THEN None ELSE lock
          /\ UNCHANGED <<place, rev, disp, receipts>>
    /\ UNCHANGED <<now, bound, session, senders, token, mail, history, edits>>

Tick ==
    /\ now < MaxTime /\ now' = now + 1
    /\ UNCHANGED <<card, disp, receipts, lock, senders, agents, history, bounds>>

-----------------------------------------------------------------------------
SenderStep(s) ==
    \/ ReadDispatch(s) \/ ObserveExit(s) \/ ReauthorizeDispatch(s)
    \/ AuthorizeDispatchWrapUp(s) \/ RefuseGrant(s) \/ Observe(s) \/ WriteDocument(s)
    \/ BeginDispatchAttempt(s) \/ RefuseAttempt(s) \/ sendDispatch(s)
    \/ WriteSession(s) \/ StartAgent(s) \/ LaunchFails(s) \/ awaitDispatch(s)

Publish(a) == PublishAccept(a) \/ PublishComplete(a)

AgentStep(a) ==
    \/ \E m \in mail : Receive(a, m)
    \/ OpenAccept(a) \/ ReplayAccept(a) \/ RefuseAccept(a)
    \/ AuthorWrite(a) \/ OpenComplete(a) \/ StopWork(a) \/ Publish(a)

Decide ==
    \/ \E id \in Id, kind \in Kinds : PrepareDispatch(id, kind)
    \/ \E id \in Id, state \in {"failed", "cancelled"} : EndDispatch(id, state)
    \/ \E to \in States : Terminate(to) \/ Move(to)

Next ==
    \/ Decide
    \/ \E s \in Sender :
        \/ SenderStep(s) \/ TimesOut(s) \/ SenderDies(s)
        \/ \E id \in Id, mode \in {"notify", "takeover", "wrap-up"} :
              WithDispatchDelivery(s, id, mode)
    \/ \E a \in Agent : AgentStep(a) \/ AgentDies(a)
    \/ Tick

Spec == Init /\ [][Next]_vars

\* A sender that can go on does, a transaction once begun is published, and
\* time passes.
Fairness == /\ \A s \in Sender : WF_vars(SenderStep(s))
            /\ \A a \in Agent : WF_vars(Publish(a))
            /\ WF_vars(Tick)

FairSpec == Spec /\ Fairness

-----------------------------------------------------------------------------
(* The authority over the card, as ExecutionGrants sees it *)

StatusOf(t) ==
    IF receipts[<<"completed", t>>] # None THEN "completed"
    ELSE IF ~Live(t.id) \/ Auth(t.id) # t THEN "revoked"
    ELSE IF disp[t.id].state = "accepted" THEN "accepted" ELSE "offered"

Grants == INSTANCE ExecutionGrants WITH
    grants <- [i \in 1..Len(issued) |-> [token |-> issued[i], status |-> StatusOf(issued[i])]]

-----------------------------------------------------------------------------
(* Properties *)

\* The card names the one dispatch that is still open, at its current epoch: no
\* second open intent hides behind another binding (PrepareDispatch, EndDispatch,
\* stageDispatchTermination).
OneLiveAuthority == \A id \in Id : Live(id) => bound = Auth(id)

\* The external work of one grant is begun once, however often its message was
\* sent and read (the replayed receipt of stageDispatchMove).
WorkedOnce == \A t \in Token : started[t] <= 1

\* Once a sender has seen the deadline pass without a receipt, nobody accepts
\* under that grant any more: the late answer loses, one whose transaction was
\* begun in time included (awaitDispatch against stageDispatchMove).
LateAnswerLoses ==
    [][\A t \in expired :
         receipts[<<"accepted", t>>] = None => receipts'[<<"accepted", t>>] = None]_vars

\* Accepted work is handed to another executor only when nobody is still at it
\* (RecoverAcceptedDispatch, ReauthorizeDispatch).
RotatedOnlyAfterExit ==
    [][\A id \in Id, a \in Agent :
         /\ disp[id] # None /\ disp[id].state = "accepted"
         /\ disp'[id].epoch # disp[id].epoch
         /\ agent[a] \in {"working", "completing"}
         => token[a] # Auth(id)]_vars

\* The card's authority goes from grant to grant as ExecutionGrants says.
ImplementsGrants == Grants!Spec

\* Every sender comes back and frees the lease, whatever the executor does.
LeaseReleased == \A id \in Id : lease[id] # None ~> lease[id] = None
=============================================================================
