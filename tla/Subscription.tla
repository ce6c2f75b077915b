---------------------------- MODULE Subscription ----------------------------
(* "kander subscribe" (internal/liveness): one loop reads committed facts,   *)
(* prints an event for what changed, for overdue dispatches and for the      *)
(* heartbeat, and waits for the refresh timer.  Beside it run one writer     *)
(* behind a bounded queue (subscribe_output.go) and at most one batch of     *)
(* process probes (subscribe_probe.go); what a batch observed is not kept    *)
(* here, only when it ends.  The set of watched cards is fixed.              *)
EXTENDS Naturals

CONSTANTS
  Watched,     \* the monitored cards
  QueueSize,   \* subscriptionQueueSize
  MaxChanges,  \* bound: changes of the board
  MaxRetries,  \* subscriptionContentionLimit / refresh: retries of one read
  MaxBeats     \* bound: heartbeats that come due

VARIABLES
  card,      \* card[c]: [rev, state, epoch, pending, overdue], dispatch included
  changes,   \* counter for MaxChanges
  at,        \* where the loop is
  facts,     \* the revisions last committed (snapshot), [] before the first read
  current,   \* the facts read in this round
  retries,   \* contended reads in a row
  attention, \* attention[c]: epoch the overdue dispatch was announced for, 0 for none
  owed,      \* dispatchProbePending
  completed, \* probeCompleted
  probe,     \* the batch of probes: "none", "running" or "ready"
  queue,     \* lines waiting for the writer
  writer,    \* "up", "failed" or "gone"
  full,      \* the queue overflowed, which cancels the writer
  cancelled, \* the caller's context ended
  beatDue,   \* the heartbeat is due
  beats,     \* counter for MaxBeats
  alerted    \* ghost, alerted[c]: epoch last listed in a dispatch-attention event

board     == <<card, changes>>
loopVars  == <<at, facts, current, retries, attention, owed, completed>>
outVars   == <<queue, writer, full>>
subVars   == <<board, loopVars, outVars, probe, cancelled, beatDue, beats, alerted>>

NoFacts == [c \in {} |-> 0]

SubInit ==
  /\ card = [c \in Watched |-> [rev |-> 1, state |-> "working", epoch |-> 0,
                                pending |-> FALSE, overdue |-> FALSE]]
  /\ changes = 0
  /\ at = "read" /\ facts = NoFacts /\ current = NoFacts /\ retries = 0
  /\ attention = [c \in Watched |-> 0] /\ owed = FALSE /\ completed = FALSE
  /\ probe = "none"
  /\ queue = 0 /\ writer = "up" /\ full = FALSE
  /\ cancelled = FALSE /\ beatDue = FALSE /\ beats = 0
  /\ alerted = [c \in Watched |-> 0]

-----------------------------------------------------------------------------
(* The world: commands on the board, the clock, the caller; nothing more is  *)
(* looked at once the subscription has returned.                             *)

Returned == at = "ended"

Changes(c, new) ==
  /\ ~Returned /\ changes < MaxChanges /\ changes' = changes + 1
  /\ card' = [card EXCEPT ![c] = new]
  /\ UNCHANGED <<loopVars, outVars, probe, cancelled, beatDue, beats,
                 alerted>>

Move(c, state) ==
  Changes(c, [card[c] EXCEPT !.rev = @ + 1, !.state = state])
\* A card is dispatched: prepared, not confirmed.
Dispatch(c) ==
  Changes(c, [card[c] EXCEPT !.rev = @ + 1, !.epoch = @ + 1, !.pending = TRUE,
                             !.overdue = FALSE])
Confirm(c) ==
  /\ card[c].pending
  /\ Changes(c, [card[c] EXCEPT !.rev = @ + 1, !.pending = FALSE, !.overdue = FALSE])
\* ConfirmBy passes.
ComesDue(c) ==
  /\ ~Returned /\ card[c].pending /\ ~card[c].overdue
  /\ card' = [card EXCEPT ![c].overdue = TRUE]
  /\ UNCHANGED <<changes, loopVars, outVars, probe, cancelled, beatDue, beats,
                 alerted>>

BeatComesDue ==
  /\ ~Returned /\ ~beatDue /\ beats < MaxBeats /\ beatDue' = TRUE /\ beats' = beats + 1
  /\ UNCHANGED <<board, loopVars, outVars, probe, cancelled, alerted>>

Cancel ==
  /\ ~Returned /\ ~cancelled /\ cancelled' = TRUE
  /\ UNCHANGED <<board, loopVars, outVars, probe, beatDue, beats, alerted>>

-----------------------------------------------------------------------------
(* The writer: subscriptionOutputQueue.                                      *)

WriteLine ==
  /\ writer = "up" /\ queue > 0 /\ ~cancelled /\ ~full
  /\ queue' = queue - 1
  /\ UNCHANGED <<board, loopVars, writer, full, probe, cancelled, beatDue, beats,
                 alerted>>

\* The pipe breaks, the line's deadline passes, or the writer was cancelled.
WriteFails ==
  /\ writer = "up" /\ queue > 0 /\ writer' = "failed"
  /\ UNCHANGED <<board, loopVars, queue, full, probe, cancelled, beatDue, beats,
                 alerted>>

\* Write: an event is queued, or the loop ends with an error.
Accepts == ~cancelled /\ ~full /\ writer = "up" /\ queue < QueueSize
Emit(then) ==
  IF Accepts THEN queue' = queue + 1 /\ at' = then /\ UNCHANGED full
  ELSE /\ full' = (full \/ (~cancelled /\ writer = "up"))
       /\ at' = "join" /\ UNCHANGED queue
NoEvent(then) == at' = then /\ UNCHANGED <<queue, full>>

-----------------------------------------------------------------------------
(* The probes: subscriptionProbes.                                           *)

NeedsProbe(f) == f.state = "working" \/ (f.state = "review" /\ f.pending)

ProbeEnds ==
  /\ probe = "running" /\ probe' = "ready"
  /\ UNCHANGED <<board, loopVars, outVars, cancelled, beatDue, beats,
                 alerted>>

\* start: nothing while a batch runs, and nothing when no card needs it.
Started(fs, p) ==
  IF p = "none" /\ ~cancelled /\ \E c \in DOMAIN fs : NeedsProbe(fs[c])
    THEN "running" ELSE p

\* poll: takes a result that is there.
Polled == IF probe = "ready" THEN "none" ELSE probe


-----------------------------------------------------------------------------
(* The loop: SubscribeContext.                                               *)

\* readTolerant succeeds: every card in one committed scan.
Read ==
  /\ at = "read" /\ ~cancelled
  /\ current' = card /\ retries' = 0 /\ at' = "events"
  /\ UNCHANGED <<board, facts, attention, owed, completed, outVars, probe,
                 cancelled, beatDue, beats, alerted>>

\* The board is locked for longer than a read waits: again after a refresh,
\* unless the caller or the writer ended meanwhile.
Stopped == cancelled \/ writer # "up"
Contended ==
  /\ at = "read" /\ retries < MaxRetries
  /\ IF Stopped THEN at' = "join" ELSE UNCHANGED at
  /\ retries' = retries + 1
  /\ UNCHANGED <<board, facts, current, attention, owed, completed, outVars, probe,
                 cancelled, beatDue, beats, alerted>>

\* unavailable: a last event, and the loop ends.
ReadFails ==
  /\ at = "read" /\ Emit("join")
  /\ UNCHANGED <<board, facts, current, retries, attention, owed, completed, writer,
                 probe, cancelled, beatDue, beats, alerted>>

\* snapshot, state-change or task-update.
Differs == \E c \in DOMAIN facts : facts[c] # current[c].rev
Events ==
  /\ at = "events"
  /\ IF facts = NoFacts \/ Differs THEN Emit("attention") ELSE NoEvent("attention")
  /\ probe' = IF facts = NoFacts /\ Accepts THEN Started(current, probe) ELSE probe
  /\ UNCHANGED <<board, facts, current, retries, attention, owed, completed, writer, cancelled, beatDue, beats, alerted>>

\* dispatchAttention.
\* Slip: an announcement holds for the card, whichever dispatch it was about.
Announced_Card(c) == attention[c] # 0
Announced(c) == attention[c] = current[c].epoch
Overdue == {c \in Watched : current[c].pending /\ current[c].overdue}

Attend ==
  /\ at = "attention"
  /\ LET news == {c \in Overdue : ~Announced(c)}
         owing == Overdue # {} /\ (owed \/ news # {})
         done == completed \/ probe = "ready"
         batch == IF owing THEN Started(current, Polled) ELSE Polled
     IN /\ attention' = [c \in Watched |->
              IF c \notin Overdue THEN 0
              ELSE IF c \in news THEN current[c].epoch ELSE attention[c]]
        /\ probe' = batch
        /\ owed' = (owing /\ Polled # "none")
        /\ IF Overdue # {} /\ (news # {} \/ done)
             THEN /\ Emit("beat")
                  /\ alerted' = [c \in Watched |-> IF Accepts /\ c \in Overdue
                                   THEN current[c].epoch ELSE alerted[c]]
             ELSE NoEvent("beat") /\ UNCHANGED alerted
  /\ UNCHANGED <<board, facts, current, retries, completed, writer, cancelled,
                 beatDue, beats>>

Beat ==
  /\ at = "beat"
  /\ facts' = [c \in Watched |-> current[c].rev] /\ current' = NoFacts /\ completed' = FALSE
  /\ IF beatDue /\ facts # NoFacts
       THEN /\ Emit("check") /\ beatDue' = FALSE
            /\ probe' = IF Accepts THEN Started(current, Polled) ELSE Polled
       ELSE NoEvent("check") /\ UNCHANGED <<beatDue, probe>>
  /\ UNCHANGED <<board, retries, attention, owed, writer, cancelled,
                 beats, alerted>>

\* Both selects: the caller or the writer ended.  The first is only left for
\* the second if neither has; the second may as well take another case.
Stop ==
  /\ at \in {"check", "wait"} /\ Stopped /\ at' = "join"
  /\ UNCHANGED <<board, facts, current, retries, attention, owed, completed, outVars,
                 probe, cancelled, beatDue, beats, alerted>>

Wait ==
  /\ at = "check" /\ ~Stopped /\ at' = "wait"
  /\ UNCHANGED <<board, facts, current, retries, attention, owed, completed, outVars,
                 probe, cancelled, beatDue, beats, alerted>>

\* The second select: a batch ended; a round follows only if a dispatch is overdue.
TakeBatch ==
  /\ at = "wait" /\ probe = "ready"
  /\ probe' = "none"
  /\ IF \A c \in Watched : attention[c] = 0 THEN at' = "check" /\ UNCHANGED completed
     ELSE at' = "read" /\ completed' = TRUE
  /\ UNCHANGED <<board, facts, current, retries, attention, owed, outVars, cancelled,
                 beatDue, beats, alerted>>

\* The second select: refresh, heartbeat or confirmation timer.
Tick ==
  /\ at = "wait" /\ at' = "read"
  /\ UNCHANGED <<board, facts, current, retries, attention, owed, completed, outVars,
                 probe, cancelled, beatDue, beats, alerted>>

\* subscriptionProbes.finish: cancels the batch and takes its result.
\* Slip: a result is waited for even when no batch runs.
NothingToJoin_Never == FALSE
NothingToJoin == probe = "none"
Join ==
  /\ at = "join" /\ (NothingToJoin \/ probe = "ready")
  /\ probe' = "none" /\ at' = "drain"
  /\ UNCHANGED <<board, facts, current, retries, attention, owed, completed, outVars, cancelled, beatDue, beats, alerted>>

\* subscriptionOutputQueue.finish: the lines left are written or time out.
Drain ==
  /\ at = "drain" /\ (queue = 0 \/ writer # "up")
  /\ writer' = (IF writer = "up" THEN "gone" ELSE writer) /\ at' = "ended"
  /\ UNCHANGED <<board, facts, current, retries, attention, owed, completed, queue,
                 full, probe, cancelled, beatDue, beats, alerted>>

Loop == Read \/ Contended \/ ReadFails \/ Events \/ Attend \/ Beat \/ Stop \/ Wait
        \/ TakeBatch \/ Tick \/ Join \/ Drain

SubNext ==
  \/ \E c \in Watched : Dispatch(c) \/ Confirm(c) \/ ComesDue(c)
  \/ \E c \in Watched, state \in {"working", "review", "done"} : Move(c, state)
  \/ BeatComesDue \/ Cancel
  \/ WriteLine \/ WriteFails \/ ProbeEnds
  \/ Loop

\* The loop is a running goroutine with bounded waits, a write ends by its
\* deadline, and a batch of probes has a budget.  Nothing is asked of commands,
\* of the caller or of the heartbeat.
SubFairness ==
  /\ WF_subVars(Loop)
  /\ WF_subVars(WriteLine \/ WriteFails)
  /\ WF_subVars(ProbeEnds)

SubSpec == SubInit /\ [][SubNext]_subVars /\ SubFairness

-----------------------------------------------------------------------------
(* After the caller has cancelled, or the output failed, the subscription    *)
(* returns: its probes are joined and its writer has ended, in any phase of  *)
(* the loop and with any number of lines queued.                             *)
Ends == (cancelled \/ writer = "failed") ~>
          (at = "ended" /\ probe = "none" /\ writer # "up")

(* A dispatch that stays unconfirmed past its deadline is announced, whether *)
(* or not a heartbeat or another change ever comes, and although an earlier  *)
(* dispatch of the same card was announced before (dispatchAttention): no    *)
(* card is unannounced for ever, since a new dispatch of it is not late yet. *)
Unannounced(c) == card[c].pending /\ card[c].overdue /\ alerted[c] # card[c].epoch
AnnouncedOnTime ==
  \A c \in Watched : []<>(~Unannounced(c) \/ at \in {"join", "drain", "ended"})
=============================================================================
