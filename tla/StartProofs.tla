------------------------------ MODULE StartProofs ------------------------------
(* That a card is started by one launcher at a time, that one in todo can be  *)
(* started again, that no launch puts an earlier text over what an executor   *)
(* wrote, and that success and the coordinator's binding belong to the very   *)
(* attempt; for any number of starts, takeovers, claims by hand and failures. *)
(*                                                                            *)
(* What carries the proof is the cursor: a launcher whose revision is still   *)
(* the card's is the last that wrote, so the card has the work and the place  *)
(* of the launcher's own text (CursorOK), and a start that may have an        *)
(* executor has left every other start behind with an old cursor (HolderOK).  *)
EXTENDS StartReconcile, TLAPS

Session == [by : Run \cup {None}, exact : BOOLEAN]
Text == [cycle : Start \cup Claim \cup {None}, session : Session, work : Nat]
Attempt == [ previous : Start \cup {None}, session : Session, rev : Nat,
             status : {"pending", "succeeded", "rolled-back"}, finished : Nat ]
Cursor == [rev : Nat, place : Place, original : Text, from : Place, plan : Plan]

Early == {"idle", "claim", "write"}
Live == { "claim", "write", "takeover", "locate", "run", "finish", "validate", "close",
          "rollback" }

LaunchersOK ==
  /\ pc \in [Run -> Live \cup Ended \cup {"idle"}]
  /\ DOMAIN cur = Run /\ \A r \in Run : pc[r] \in Live => cur[r] \in Cursor

TypeOK ==
  /\ card \in [place : Place, rev : Nat, text : Text]
  /\ DOMAIN attempt = Start /\ current \in Start \cup {None}
  /\ LaunchersOK
  /\ exec \in [Run -> {"none", "running", "left", "closed"}]

Recorded(r) == attempt[r] \in Attempt /\ attempt[r].session.by = r

\* An attempt names the executor of its own start, and is written once.
AttemptOK ==
  /\ \A r \in Start : attempt[r] # None => Recorded(r)
  /\ current # None => Recorded(current) /\ pc[current] \notin Early

\* The cycle and the latest attempt agree, in todo above all.
CycleOK ==
  /\ card.text.cycle \in Start =>
       current = card.text.cycle /\ attempt[current].status \in {"pending", "succeeded"}
  /\ card.text.cycle = None /\ current # None => attempt[current].status = "rolled-back"
  /\ card.place = "todo" => card.text.cycle = None /\ card.text.session = NoSession

\* What a launcher would restore: a start the card as it was in todo, and a
\* launcher that wrote last a text with the present work and cycle.
CursorOK(r) ==
  pc[r] \in Live =>
    /\ cur[r].rev <= card.rev
    /\ r \in Start =>
         cur[r].from = "todo" /\ cur[r].original.cycle = None /\ cur[r].original.session = NoSession
    /\ r \in Takeover =>
         cur[r].from # "todo" /\ cur[r].place # "todo" /\ cur[r].original.session.by # None
    /\ cur[r].rev = card.rev =>
         /\ cur[r].original.work = card.text.work
         /\ r \in Takeover => cur[r].original.cycle = card.text.cycle

ExecOK(r) ==
  /\ pc[r] \in Early \cup {"run", "takeover"} => exec[r] = "none"
  /\ pc[r] = "rollback" => exec[r] # "running"

\* r has an executor, or is about to have one.
Holder(r) == exec[r] = "running" \/ (exec[r] = "none" /\ pc[r] \in {"locate", "run"})

HolderOK(r) ==
  Holder(r) =>
    /\ card.place # "todo"
    /\ \A s \in Start \ {r} : ~Holder(s) /\ (pc[s] \in Live => cur[s].rev < card.rev)

Cursors == \A r \in Run : CursorOK(r)
Executors == \A r \in Run : ExecOK(r)
Holders == \A r \in Start : HolderOK(r)

IInv == TypeOK /\ AttemptOK /\ CycleOK /\ Cursors /\ Executors /\ Holders

-----------------------------------------------------------------------------
(* The launchers' own steps.                                                 *)

Others(r) == \A s \in Run \ {r} : pc'[s] = pc[s] /\ cur'[s] = cur[s]

Moved(c, place) == [c EXCEPT !.rev = @ + 1, !.place = place]

LEMMA CursorMoves ==
  ASSUME NEW c \in Cursor, NEW place \in Place
  PROVE  /\ Moved(c, place) \in Cursor
         /\ Moved(c, place).rev = c.rev + 1 /\ Moved(c, place).place = place
         /\ Moved(c, place).original = c.original /\ Moved(c, place).from = c.from
  <1>1. c.rev + 1 \in Nat
    BY DEF Cursor
  <1> QED BY <1>1 DEF Cursor, Moved

\* r stays at its cursor, or exits.
LEMMA GoesOn ==
  ASSUME LaunchersOK, NEW r \in Run, pc[r] \in Live, NEW at \in Live \cup Ended, Goto(r, at)
  PROVE  LaunchersOK' /\ Others(r) /\ pc'[r] = at /\ (at \in Live => cur'[r] = cur[r])
  <1>1. pc' = [pc EXCEPT ![r] = at] /\ pc'[r] = at
    BY DEF Goto, Go, LaunchersOK
  <1>2. cur' = [cur EXCEPT ![r] = IF at \in Ended THEN None ELSE cur[r]]
    BY DEF Goto, Go
  <1>3. at \in Live => at \notin Ended
    BY DEF Live, Ended
  <1> QED BY <1>1, <1>2, <1>3 DEF LaunchersOK, Others

\* r wrote and knows, or wrote and does not.
LEMMA Learned ==
  ASSUME LaunchersOK, NEW r \in Run, pc[r] \in Live, NEW place \in Place,
         NEW next \in Live \cup Ended, NEW fail \in Live \cup Ended, Learn(r, place, next, fail)
  PROVE  /\ LaunchersOK' /\ Others(r) /\ pc'[r] \in {next, fail}
         /\ pc'[r] \in Live => cur'[r] \in {cur[r], Moved(cur[r], place)}
  <1>1. CASE Go(r, next, Moved(cur[r], place))
    <2>1. pc' = [pc EXCEPT ![r] = next] /\ pc'[r] = next
      BY <1>1 DEF Go, LaunchersOK
    <2>2. cur' = [cur EXCEPT ![r] = IF next \in Ended THEN None ELSE Moved(cur[r], place)]
      BY <1>1 DEF Go
    <2>3. next \in Live => next \notin Ended
      BY DEF Live, Ended
    <2>4. Moved(cur[r], place) \in Cursor
      BY CursorMoves DEF LaunchersOK
    <2>5. next \in Live => cur'[r] = Moved(cur[r], place)
      BY <2>2, <2>3 DEF LaunchersOK
    <2>6. LaunchersOK' /\ Others(r)
      BY <2>1, <2>2, <2>3, <2>4 DEF LaunchersOK, Others
    <2> QED BY <2>1, <2>5, <2>6
  <1>2. CASE Goto(r, fail)
    BY <1>2, GoesOn
  <1> QED BY <1>1, <1>2 DEF Learn, Moved

\* A write of launcher r to the card.
Written(r, place) ==
  /\ pc[r] \in Live /\ Expect(r)
  /\ card'.rev = card.rev + 1 /\ card'.place = place
  /\ LaunchersOK' /\ Others(r)
  /\ pc'[r] \in Live => cur'[r] \in {cur[r], Moved(cur[r], place)}

\* A step of launcher r that leaves the card alone.
Silent(r) ==
  /\ pc[r] \in Live /\ UNCHANGED card
  /\ LaunchersOK' /\ Others(r)
  /\ pc'[r] \in Live => cur'[r] = cur[r]

LEMMA WriteCursors ==
  ASSUME TypeOK, Cursors, NEW r \in Run, NEW place \in Place, Written(r, place),
         card'.text.work = card.text.work,
         r \in Takeover => place # "todo" /\ card'.text.cycle = card.text.cycle
  PROVE  Cursors'
  <1> SUFFICES ASSUME NEW s \in Run, pc'[s] \in Live
               PROVE  CursorOK(s)'
    BY DEF Cursors, CursorOK
  <1>1. card.rev \in Nat /\ card'.rev = card.rev + 1 /\ cur'[s] \in Cursor
    BY DEF TypeOK, LaunchersOK, Written
  <1>2. CASE s = r
    <2>1. CursorOK(r) /\ pc[r] \in Live /\ cur[r].rev = card.rev /\ cur[r] \in Cursor
      BY DEF Cursors, Written, Expect, TypeOK, LaunchersOK
    <2>2. CASE cur'[r] = cur[r]
      BY <1>1, <1>2, <2>1, <2>2 DEF CursorOK
    <2>3. CASE cur'[r] = Moved(cur[r], place)
      <3>1. /\ cur'[r].rev = card.rev + 1 /\ cur'[r].place = place
            /\ cur'[r].original = cur[r].original /\ cur'[r].from = cur[r].from
        BY <2>1, <2>3, CursorMoves
      <3> QED BY <1>1, <1>2, <2>1, <3>1 DEF CursorOK
    <2> QED BY <1>2, <2>2, <2>3 DEF Written
  <1>3. CASE s # r
    <2>1. pc'[s] = pc[s] /\ cur'[s] = cur[s]
      BY <1>3 DEF Written, Others
    <2>2. CursorOK(s) /\ cur[s].rev \in Nat
      BY <1>1, <2>1 DEF Cursors, Cursor
    <2> QED BY <1>1, <2>1, <2>2 DEF CursorOK
  <1> QED BY <1>2, <1>3

LEMMA SilentCursors ==
  ASSUME TypeOK, Cursors, NEW r \in Run, Silent(r)
  PROVE  Cursors'
  <1> SUFFICES ASSUME NEW s \in Run, pc'[s] \in Live
               PROVE  CursorOK(s)'
    BY DEF Cursors, CursorOK
  <1>1. CursorOK(s) /\ pc[s] \in Live /\ cur'[s] = cur[s] /\ UNCHANGED card
    BY DEF Cursors, Silent, Others
  <1> QED BY <1>1 DEF CursorOK

\* Anybody else's write leaves every launcher behind.
LEMMA OtherCursors ==
  ASSUME TypeOK, Cursors, card'.rev = card.rev + 1, UNCHANGED launchers
  PROVE  Cursors'
  <1> SUFFICES ASSUME NEW s \in Run, pc'[s] \in Live
               PROVE  CursorOK(s)'
    BY DEF Cursors, CursorOK
  <1>1. pc[s] \in Live /\ cur'[s] = cur[s] /\ pc'[s] = pc[s]
    BY DEF launchers
  <1>2. CursorOK(s) /\ cur[s].rev \in Nat /\ card.rev \in Nat
    BY <1>1 DEF Cursors, TypeOK, LaunchersOK, Cursor
  <1> QED BY <1>1, <1>2 DEF CursorOK

\* A start that writes is the only one that may have an executor.
LEMMA WriteHolders ==
  ASSUME TypeOK, Cursors, Holders, NEW r \in Run, NEW place \in Place, Written(r, place),
         UNCHANGED exec,
         r \in Takeover => place # "todo",
         r \in Start /\ Holder(r)' => place # "todo"
  PROVE  Holders'
  <1> SUFFICES ASSUME NEW h \in Start, Holder(h)'
               PROVE  /\ card'.place # "todo"
                      /\ \A s \in Start \ {h} : ~Holder(s)' /\ (pc'[s] \in Live => cur'[s].rev < card'.rev)
    BY DEF Holders, HolderOK
  <1>1. /\ card.rev \in Nat /\ card'.rev = card.rev + 1 /\ card'.place = place
        /\ cur[r].rev = card.rev /\ pc[r] \in Live
    BY DEF TypeOK, Written, Expect
  <1>2. \A s \in Run \ {r} : (Holder(s)' <=> Holder(s)) /\ pc'[s] = pc[s] /\ cur'[s] = cur[s]
    BY DEF Written, Others, Holder
  <1>3. \A s \in Run : pc[s] \in Live => cur[s].rev \in Nat /\ cur[s].rev <= card.rev
    BY DEF TypeOK, LaunchersOK, Cursor, Cursors, CursorOK
  <1>4. Start \subseteq Run /\ Run = Start \cup Takeover
    BY DEF Run
  <1>5. r \in Start => \A s \in Start \ {r} : ~Holder(s)
    BY <1>1 DEF Holders, HolderOK
  <1>6. CASE h = r
    BY <1>1, <1>2, <1>3, <1>4, <1>5, <1>6
  <1>7. CASE h # r
    <2>1. Holder(h) /\ r \notin Start
      BY <1>2, <1>4, <1>5, <1>7
    <2> QED BY <1>1, <1>2, <1>3, <1>4, <2>1 DEF Holders, HolderOK
  <1> QED BY <1>6, <1>7

LEMMA SilentHolders ==
  ASSUME TypeOK, Holders, NEW r \in Run, Silent(r),
         \A s \in Start : Holder(s)' => Holder(s)
  PROVE  Holders'
  <1>1. \A s \in Run : pc'[s] \in Live => pc[s] \in Live /\ cur'[s] = cur[s]
    BY DEF Silent, Others
  <1>2. UNCHANGED card /\ Start \subseteq Run
    BY DEF Silent, Run
  <1> QED BY <1>1, <1>2 DEF Holders, HolderOK

LEMMA OtherHolders ==
  ASSUME TypeOK, Cursors, Holders, card'.rev = card.rev + 1, UNCHANGED <<launchers, exec>>,
         card'.place = "todo" => card.place = "todo"
  PROVE  Holders'
  <1>1. \A s \in Run : (Holder(s)' <=> Holder(s)) /\ pc'[s] = pc[s] /\ cur'[s] = cur[s]
    BY DEF launchers, Holder
  <1>2. card.rev \in Nat /\ Start \subseteq Run
    BY DEF TypeOK, Run
  <1>3. \A s \in Run : pc[s] \in Live => cur[s].rev \in Nat
    BY DEF TypeOK, LaunchersOK, Cursor
  <1> QED BY <1>1, <1>2, <1>3 DEF Holders, HolderOK

LEMMA Learns ==
  ASSUME TypeOK, NEW r \in Run, pc[r] \in Live, Expect(r), NEW place \in Place, NEW text,
         NEW next \in Live \cup Ended, NEW fail \in Live \cup Ended,
         Publish(place, text), Learn(r, place, next, fail)
  PROVE  Written(r, place) /\ pc'[r] \in {next, fail} /\ card'.text = text
  BY Learned DEF TypeOK, Written, Publish

LEMMA Quiet ==
  ASSUME TypeOK, NEW r \in Run, pc[r] \in Live, NEW at \in Live \cup Ended, Goto(r, at),
         UNCHANGED card
  PROVE  Silent(r) /\ pc'[r] = at
  BY GoesOn DEF TypeOK, Silent

LEMMA OthersExec ==
  ASSUME TypeOK, Executors, NEW r \in Run, Others(r), UNCHANGED exec,
         pc'[r] \notin Early \cup {"run", "takeover"} \/ exec[r] = "none",
         pc'[r] = "rollback" => exec[r] # "running"
  PROVE  Executors'
  <1> SUFFICES ASSUME NEW s \in Run
               PROVE  ExecOK(s)'
    BY DEF Executors
  <1>1. CASE s = r
    BY <1>1 DEF ExecOK
  <1>2. CASE s # r
    BY <1>2 DEF Others, Executors, ExecOK
  <1> QED BY <1>1, <1>2

\* No write, and none recorded.
LEMMA RefusedInv ==
  ASSUME IInv, NEW r \in Run, pc[r] \in Live,
         NEW fail \in {"refused", "rollback", "close", "failed", "dead", "started", "validate"},
         fail = "rollback" => exec[r] # "running",
         Goto(r, fail), UNCHANGED <<card, attempt, current, exec>>
  PROVE  IInv'
  <1>1. fail \in Live \cup Ended /\ fail \notin Early \cup {"run", "locate", "takeover"}
    BY DEF Live, Ended, Early
  <1>2. Silent(r) /\ pc'[r] = fail
    BY <1>1, Quiet DEF IInv
  <1>3. TypeOK'
    BY <1>2 DEF IInv, TypeOK, Silent
  <1>4. AttemptOK'
    BY <1>1, <1>2 DEF IInv, TypeOK, AttemptOK, Recorded, Silent, Others, Run
  <1>5. CycleOK'
    BY DEF IInv, CycleOK
  <1>6. Cursors'
    BY <1>2, SilentCursors DEF IInv
  <1>7. Executors'
    BY <1>1, <1>2, OthersExec DEF IInv, Silent
  <1>8. \A s \in Start : Holder(s)' => Holder(s)
    BY <1>1, <1>2 DEF Holder, Silent, Others, Run
  <1>9. Holders'
    BY <1>2, <1>8, SilentHolders DEF IInv
  <1> QED BY <1>3, <1>4, <1>5, <1>6, <1>7, <1>9 DEF IInv

\* A write of a launcher, but for what it does to the attempt and the cycle.
LEMMA WrittenInv ==
  ASSUME IInv, NEW r \in Run, NEW place \in Place, Written(r, place), UNCHANGED exec,
         card' \in [place : Place, rev : Nat, text : Text],
         card'.text.work = card.text.work,
         r \in Takeover => place # "todo" /\ card'.text.cycle = card.text.cycle,
         r \in Start /\ Holder(r)' => place # "todo",
         pc'[r] \notin Early \cup {"run", "takeover"} \/ exec[r] = "none",
         pc'[r] = "rollback" => exec[r] # "running",
         DOMAIN attempt' = Start, current' \in Start \cup {None},
         AttemptOK', CycleOK'
  PROVE  IInv'
  <1>1. TypeOK'
    BY DEF IInv, TypeOK, Written
  <1>2. Cursors'
    BY WriteCursors DEF IInv
  <1>3. Executors'
    BY OthersExec DEF IInv, Written
  <1>4. Holders'
    BY WriteHolders DEF IInv
  <1> QED BY <1>1, <1>2, <1>3, <1>4 DEF IInv

\* The records stay where only launchers move on.
LEMMA SameAttempts ==
  ASSUME TypeOK, AttemptOK, UNCHANGED <<attempt, current>>, NEW r \in Run, Others(r),
         pc'[r] \notin Early \/ pc[r] \in Early
  PROVE  AttemptOK'
  BY DEF TypeOK, AttemptOK, Recorded, Others, Run

LEMMA MoveEntryInv ==
  ASSUME IInv, NEW r \in Start, MoveEntry(r)
  PROVE  IInv'
  <1>0. r \in Run /\ pc[r] = "claim" /\ pc[r] \in Live
    BY DEF MoveEntry, Run, Live
  <1>1. ASSUME Expect(r), Publish("working", card.text), Learn(r, "working", "write", "refused"),
               UNCHANGED <<attempt, current, exec>>
        PROVE  IInv'
    <2>1. Written(r, "working") /\ pc'[r] \in {"write", "refused"} /\ card'.text = card.text
      BY <1>0, <1>1, Learns DEF IInv, Place, Live, Ended
    <2>2. card' \in [place : Place, rev : Nat, text : Text]
      BY <1>1 DEF Publish, Place, IInv, TypeOK
    <2>3. exec[r] = "none"
      BY <1>0 DEF IInv, Executors, ExecOK, Early
    <2>4. AttemptOK'
      BY <1>0, <1>1, <2>1, SameAttempts DEF IInv, Written, Early
    <2>5. CycleOK'
      BY <1>1, <2>1 DEF IInv, CycleOK, Written
    <2>6. r \notin Takeover
      BY TaskStartAssumption
    <2> QED BY <1>0, <1>1, <2>1, <2>2, <2>3, <2>4, <2>5, <2>6, WrittenInv DEF IInv, TypeOK, Place
  <1>2. ASSUME Refuse(r, Expect(r), "refused")
        PROVE  IInv'
    BY <1>0, <1>2, RefusedInv DEF Refuse
  <1> QED BY <1>1, <1>2 DEF MoveEntry

LEMMA ProvisionalSession ==
  ASSUME TypeOK, NEW r \in Run, pc[r] \in Live
  PROVE  Provisional(r) \in Session /\ Provisional(r).by = r
  BY DEF Provisional, Session, TypeOK, LaunchersOK, Cursor, Plan

LEMMA WriteStartInv ==
  ASSUME IInv, NEW r \in Start, WriteStart(r)
  PROVE  IInv'
  <1>0. r \in Run /\ pc[r] = "write" /\ pc[r] \in Live
    BY DEF WriteStart, Run, Live
  <1>a. exec[r] = "none"
    BY <1>0 DEF IInv, Executors, ExecOK, Early
  <1>1. ASSUME Expect(r), Startable,
               Publish("working", [card.text EXCEPT !.cycle = r, !.session = Provisional(r)]),
               attempt' = [attempt EXCEPT ![r] = Pending(Provisional(r))], current' = r,
               Learn(r, "working", Launch(r), "rollback"), UNCHANGED exec
        PROVE  IInv'
    <2>1. Launch(r) \in {"locate", "run"} /\ {"locate", "run", "rollback"} \subseteq Live
      BY DEF Launch, Live
    <2> DEFINE text == [card.text EXCEPT !.cycle = r, !.session = Provisional(r)]
    <2>2. text \in Text /\ text.cycle = r /\ text.work = card.text.work
      BY <1>0, ProvisionalSession DEF IInv, TypeOK, Text
    <2>3. card' = [place |-> "working", rev |-> card.rev + 1, text |-> text]
      BY <1>1 DEF Publish
    <2> HIDE DEF text
    <2>4. Written(r, "working") /\ pc'[r] \in {Launch(r), "rollback"} /\ card'.text = text
      BY <1>0, <1>1, <2>1, Learns DEF IInv, Place, text
    <2>5. card' \in [place : Place, rev : Nat, text : Text]
      BY <2>2, <2>3 DEF Place, IInv, TypeOK
    <2>6. DOMAIN attempt' = Start /\ attempt'[r] = Pending(Provisional(r))
          /\ \A s \in Start \ {r} : attempt'[s] = attempt[s]
      BY <1>1 DEF IInv, TypeOK
    <2>7. attempt'[r] \in Attempt /\ attempt'[r].session.by = r /\ attempt'[r].status = "pending"
      BY <1>0, <2>6, ProvisionalSession DEF IInv, TypeOK, Attempt, Pending
    <2>8. pc'[r] \notin Early
      BY <2>1, <2>4 DEF Early
    <2>9. AttemptOK'
      BY <1>1, <2>6, <2>7, <2>8 DEF IInv, AttemptOK, Recorded
    <2>10. CycleOK'
      BY <1>1, <2>2, <2>3, <2>4, <2>7, TaskStartAssumption DEF CycleOK
    <2>11. r \notin Takeover
      BY TaskStartAssumption
    <2> QED BY <1>0, <1>1, <1>a, <2>1, <2>2, <2>4, <2>5, <2>6, <2>9, <2>10, <2>11, WrittenInv DEF IInv, TypeOK, Place
  <1>2. ASSUME Refuse(r, Expect(r) /\ Startable, "rollback")
        PROVE  IInv'
    BY <1>0, <1>a, <1>2, RefusedInv DEF Refuse
  <1> QED BY <1>1, <1>2 DEF WriteStart

-----------------------------------------------------------------------------
(* Steps that leave the card alone.                                          *)

LEMMA SilentInv ==
  ASSUME IInv, NEW r \in Run, Silent(r), pc'[r] \notin Early,
         exec' \in [Run -> {"none", "running", "left", "closed"}], Executors',
         \A s \in Start : Holder(s)' => Holder(s), UNCHANGED <<attempt, current>>
  PROVE  IInv'
  <1>1. TypeOK'
    BY DEF IInv, TypeOK, Silent
  <1>2. AttemptOK'
    BY SameAttempts DEF IInv, Silent
  <1>3. CycleOK'
    BY DEF IInv, CycleOK, Silent
  <1>4. Cursors'
    BY SilentCursors DEF IInv
  <1>5. Holders'
    BY SilentHolders DEF IInv
  <1> QED BY <1>1, <1>2, <1>3, <1>4, <1>5 DEF IInv

\* What changes are r's place and executor.
LEMMA OwnExec ==
  ASSUME TypeOK, Executors, NEW r \in Run, Others(r), NEW e \in {"none", "running", "left", "closed"},
         exec' = [exec EXCEPT ![r] = e],
         pc'[r] \in {"locate", "finish", "close"} \/ (pc'[r] = "rollback" /\ e # "running"),
         Holder(r) \/ e # "running", pc'[r] = "locate" => e # "none"
  PROVE  /\ exec' \in [Run -> {"none", "running", "left", "closed"}] /\ Executors'
         /\ \A s \in Start : Holder(s)' => Holder(s)
  <1>1. exec' \in [Run -> {"none", "running", "left", "closed"}] /\ exec'[r] = e
    BY DEF TypeOK
  <1>2. \A s \in Run \ {r} : exec'[s] = exec[s] /\ pc'[s] = pc[s]
    BY DEF TypeOK, Others
  <1>3. Executors'
    <2> SUFFICES ASSUME NEW s \in Run
                 PROVE  ExecOK(s)'
      BY DEF Executors
    <2>1. CASE s = r
      BY <1>1, <2>1 DEF ExecOK, Early
    <2>2. CASE s # r
      BY <1>2, <2>2 DEF Executors, ExecOK
    <2> QED BY <2>1, <2>2
  <1>4. \A s \in Start : Holder(s)' => Holder(s)
    <2> SUFFICES ASSUME NEW s \in Start, Holder(s)'
                 PROVE  Holder(s)
      OBVIOUS
    <2>1. s \in Run
      BY DEF Run
    <2>2. CASE s = r
      BY <1>1, <2>2 DEF Holder
    <2>3. CASE s # r
      BY <1>2, <2>1, <2>3 DEF Holder
    <2> QED BY <2>2, <2>3
  <1> QED BY <1>1, <1>3, <1>4

LEMMA RunAgentInv ==
  ASSUME IInv, NEW r \in Run, RunAgent(r)
  PROVE  IInv'
  <1>1. pc[r] = "run" /\ pc[r] \in Live /\ UNCHANGED <<card, attempt, current>>
    BY DEF RunAgent, Live
  <1>2. exec[r] = "none" /\ Holder(r)
    BY <1>1 DEF IInv, Executors, ExecOK, Holder
  <1>3. PICK at \in {"locate", "finish", "close"} : Goto(r, at) /\ (at = "locate" => exec' # exec)
    BY <1>2 DEF RunAgent, IInv, TypeOK
  <1>4. Silent(r) /\ pc'[r] = at
    BY <1>1, <1>3, Quiet DEF IInv, Live
  <1>5. PICK e \in {"none", "running"} : exec' = [exec EXCEPT ![r] = e]
    BY <1>2 DEF RunAgent, IInv, TypeOK
  <1>6. at = "locate" => e # "none"
    BY <1>2, <1>3, <1>5 DEF IInv, TypeOK
  <1> QED BY <1>1, <1>2, <1>4, <1>5, <1>6, OwnExec, SilentInv DEF IInv, Silent, Early

LEMMA LaunchFailsInv ==
  ASSUME IInv, NEW r \in Run, LaunchFails(r)
  PROVE  IInv'
  <1>1. pc[r] \in Live /\ UNCHANGED <<card, attempt, current>> /\ Goto(r, "rollback")
    BY DEF LaunchFails, Live
  <1>2. Silent(r) /\ pc'[r] = "rollback"
    BY <1>1, Quiet DEF IInv, Live
  <1>3. PICK e \in {"none", "left", "closed"} : exec' = [exec EXCEPT ![r] = e]
    BY DEF LaunchFails, CloseContainer
  <1> QED BY <1>1, <1>2, <1>3, OwnExec, SilentInv DEF IInv, Silent, Early

LEMMA ValidateTakeoverInv ==
  ASSUME IInv, NEW r \in Takeover, ValidateTakeover(r)
  PROVE  IInv'
  <1>1. r \in Run /\ pc[r] \in Live /\ UNCHANGED <<card, attempt, current>>
    BY DEF ValidateTakeover, Live, Run
  <1> DEFINE old == cur[r].original.session.by
  <1>2. old \in Run
    BY <1>1 DEF IInv, TypeOK, LaunchersOK, Cursor, Text, Session, Cursors, CursorOK
  <1>3. PICK at \in {"started", "close"} : Goto(r, at)
    BY DEF ValidateTakeover
  <1>4. Silent(r) /\ pc'[r] = at /\ at \notin Early \cup {"run", "locate", "takeover", "rollback"}
    BY <1>1, <1>3, Quiet DEF IInv, Live, Ended, Early
  <1>5. exec' = exec \/ (Alive(old) /\ exec' = [exec EXCEPT ![old] = "closed"])
    BY <1>2 DEF ValidateTakeover, IInv, TypeOK
  <1> HIDE DEF old
  <1>6. exec' \in [Run -> {"none", "running", "left", "closed"}]
    BY <1>2, <1>5 DEF IInv, TypeOK
  <1>7. \A s \in Run : exec'[s] = exec[s] \/ (exec'[s] = "closed" /\ exec[s] # "none")
    BY <1>2, <1>5 DEF IInv, TypeOK, Alive
  <1>8. Executors'
    BY <1>4, <1>7 DEF IInv, Executors, ExecOK, Silent, Others
  <1>9. \A s \in Start : Holder(s)' => Holder(s)
    BY <1>4, <1>7 DEF Holder, Silent, Others, Run
  <1> QED BY <1>1, <1>4, <1>6, <1>8, <1>9, SilentInv

LEMMA LauncherDiesInv ==
  ASSUME IInv, NEW r \in Run, LauncherDies(r)
  PROVE  IInv'
  <1>1. pc[r] \in Live
    BY DEF LauncherDies, IInv, TypeOK, LaunchersOK
  <1> QED BY <1>1, RefusedInv DEF LauncherDies

\* A launcher that has just read the card.
LEMMA SelectInv ==
  ASSUME IInv, NEW r \in Run, NEW plan \in Plans, NEW next \in {"claim", "takeover"},
         Select(r, plan, next),
         r \in Start => next = "claim" /\ card.place = "todo",
         r \in Takeover => next = "takeover" /\ card.place # "todo" /\ card.text.session.by # None
  PROVE  IInv'
  <1> DEFINE c == [ rev |-> card.rev, place |-> card.place, original |-> card.text,
                    from |-> card.place, plan |-> plan ]
  <1>1. pc[r] = "idle" /\ UNCHANGED <<card, attempt, current, exec>>
    BY DEF Select
  <1>2. pc' = [pc EXCEPT ![r] = next] /\ cur' = [cur EXCEPT ![r] = c]
    BY DEF Select, Go, Ended
  <1>3. c \in Cursor
    BY TaskStartAssumption DEF IInv, TypeOK, Cursor
  <1>4. TypeOK'
    BY <1>1, <1>2, <1>3 DEF IInv, TypeOK, LaunchersOK, Live
  <1>5. Others(r) /\ pc'[r] = next /\ cur'[r] = c
    BY <1>2 DEF IInv, TypeOK, LaunchersOK, Others
  <1>6. AttemptOK'
    BY <1>1, <1>5, SameAttempts DEF IInv, Early
  <1>7. CycleOK'
    BY <1>1 DEF IInv, CycleOK
  <1>8. Cursors'
    <2> SUFFICES ASSUME NEW s \in Run, pc'[s] \in Live
                 PROVE  CursorOK(s)'
      BY DEF Cursors, CursorOK
    <2>1. CASE s = r
      BY <1>1, <1>5, <2>1 DEF CursorOK, IInv, TypeOK, CycleOK
    <2>2. CASE s # r
      BY <1>1, <1>5, <2>2 DEF Others, IInv, Cursors, CursorOK
    <2> QED BY <2>1, <2>2
  <1>9. Executors'
    BY <1>1, <1>5, OthersExec DEF IInv, Executors, ExecOK, Early
  <1>10. Holders'
    <2> SUFFICES ASSUME NEW h \in Start, Holder(h)'
                 PROVE  HolderOK(h)'
      BY DEF Holders, HolderOK
    <2>1. h # r /\ Holder(h)
      BY <1>1, <1>5 DEF Others, Holder, Run, IInv, Executors, ExecOK, Early
    <2>2. card.place # "todo" /\ r \notin Start
      BY <2>1 DEF IInv, Holders, HolderOK
    <2> QED BY <1>1, <1>5, <2>1, <2>2 DEF IInv, Holders, HolderOK, Holder, Others, Run
  <1> QED BY <1>4, <1>6, <1>7, <1>8, <1>9, <1>10 DEF IInv

-----------------------------------------------------------------------------
(* Steps that write the card.                                                *)

LEMMA SameCycle ==
  ASSUME CycleOK, UNCHANGED <<attempt, current>>, card'.text.cycle = card.text.cycle,
         card'.place # "todo" \/ (card'.place = card.place /\ card'.text.session = card.text.session)
  PROVE  CycleOK'
  BY DEF CycleOK

\* A launcher that writes to the card, but for the cycle, where it finds it.
LEMMA InPlaceInv ==
  ASSUME IInv, NEW r \in Run, pc[r] \in Live, Expect(r), NEW text \in Text,
         text.work = card.text.work, text.cycle = card.text.cycle,
         card.place # "todo" \/ text.session = card.text.session,
         NEW next \in Live \cup Ended, NEW fail \in Live \cup Ended,
         Publish(card.place, text), Learn(r, card.place, next, fail),
         {next, fail} \cap (Early \cup {"takeover", "locate"}) = {},
         "run" \in {next, fail} => exec[r] = "none",
         r \in Start /\ exec[r] = "none" => pc[r] \in {"locate", "run"} \/ "run" \notin {next, fail},
         "rollback" \in {next, fail} => exec[r] # "running",
         UNCHANGED <<attempt, current, exec>>
  PROVE  IInv'
  <1>1. Written(r, card.place) /\ pc'[r] \in {next, fail} /\ card'.text = text /\ card.place \in Place
    BY Learns DEF IInv, TypeOK
  <1>2. card' \in [place : Place, rev : Nat, text : Text]
    BY DEF Publish, IInv, TypeOK
  <1>3. AttemptOK'
    BY <1>1, SameAttempts DEF IInv, Written
  <1>4. CycleOK'
    BY <1>1, SameCycle DEF IInv, Written
  <1>5. r \in Takeover => card.place # "todo"
    BY DEF Expect, IInv, Cursors, CursorOK
  <1>6. r \in Start /\ Holder(r)' => card.place # "todo"
    BY <1>1 DEF Holder, IInv, Holders, HolderOK
  <1> QED BY <1>1, <1>2, <1>3, <1>4, <1>5, <1>6, WrittenInv DEF IInv, TypeOK

LEMMA RecordWindowInv ==
  ASSUME IInv, NEW r \in Run, recordWindowLocation(r)
  PROVE  IInv'
  <1>1. pc[r] = "locate" /\ pc[r] \in Live
    BY DEF recordWindowLocation, Live
  <1>2. CASE Refuse(r, Expect(r), "close")
    BY <1>1, <1>2, RefusedInv DEF Refuse
  <1>3. CASE ~Refuse(r, Expect(r), "close")
    <2> DEFINE next == IF exec[r] = "none" THEN "run" ELSE "finish"
    <2>1. /\ Expect(r) /\ Publish(card.place, card.text) /\ Learn(r, card.place, next, "close")
          /\ UNCHANGED <<attempt, current, exec>>
      BY <1>3 DEF recordWindowLocation
    <2>2. /\ next \in Live \cup Ended /\ "close" \in Live \cup Ended
          /\ {next, "close"} \cap (Early \cup {"takeover", "locate"}) = {}
          /\ "run" \in {next, "close"} => exec[r] = "none"
          /\ "rollback" \notin {next, "close"}
      BY DEF Live, Early
    <2> HIDE DEF next
    <2>3. card.text \in Text
      BY DEF IInv, TypeOK
    <2> QED BY <1>1, <2>1, <2>2, <2>3, InPlaceInv
  <1> QED BY <1>2, <1>3

LEMMA FreshText ==
  ASSUME TypeOK, NEW session \in Session
  PROVE  LET text == [card.text EXCEPT !.session = session] IN
         text \in Text /\ text.work = card.text.work /\ text.cycle = card.text.cycle
  BY DEF TypeOK, Text

LEMMA TakeoverWrites ==
  ASSUME IInv, NEW r \in Takeover, pc[r] \in Live, Expect(r)
  PROVE  r \in Run /\ r \notin Start /\ card.place # "todo"
  BY TaskStartAssumption DEF Expect, Run, IInv, Cursors, CursorOK

LEMMA WriteTakeoverInv ==
  ASSUME IInv, NEW r \in Takeover, WriteTakeover(r)
  PROVE  IInv'
  <1>1. r \in Run /\ pc[r] = "takeover" /\ pc[r] \in Live
    BY DEF WriteTakeover, Live, Run
  <1>2. exec[r] = "none"
    BY <1>1 DEF IInv, Executors, ExecOK
  <1>3. CASE Refuse(r, Expect(r), "rollback")
    BY <1>1, <1>2, <1>3, RefusedInv DEF Refuse
  <1>4. CASE ~Refuse(r, Expect(r), "rollback")
    <2> DEFINE text == [card.text EXCEPT !.session = Provisional(r)]
    <2>1. /\ Expect(r) /\ Publish(card.place, text) /\ Learn(r, card.place, Launch(r), "rollback")
          /\ UNCHANGED <<attempt, current, exec>>
      BY <1>4 DEF WriteTakeover
    <2>2. text \in Text /\ text.work = card.text.work /\ text.cycle = card.text.cycle
      BY <1>1, FreshText, ProvisionalSession DEF IInv
    <2> HIDE DEF text
    <2>3. r \notin Start /\ card.place # "todo"
      BY <1>1, <2>1, TakeoverWrites
    <2>4. Launch(r) \in {"locate", "run"} /\ {"locate", "run", "rollback"} \subseteq Live
      BY DEF Launch, Live
    <2>5. Written(r, card.place) /\ pc'[r] \in {Launch(r), "rollback"} /\ card'.text = text
      BY <1>1, <2>1, <2>4, Learns DEF IInv, TypeOK
    <2>6. card' \in [place : Place, rev : Nat, text : Text]
      BY <2>1, <2>2 DEF Publish, IInv, TypeOK
    <2>7. AttemptOK'
      BY <1>1, <2>1, <2>4, <2>5, SameAttempts DEF IInv, Written, Early
    <2>8. CycleOK'
      BY <2>1, <2>2, <2>3, <2>5, SameCycle DEF IInv, Written
    <2> QED BY <1>1, <1>2, <2>1, <2>2, <2>3, <2>5, <2>6, <2>7, <2>8, WrittenInv DEF IInv, TypeOK
  <1> QED BY <1>3, <1>4

LEMMA ExactSession ==
  ASSUME TypeOK, NEW r \in Run
  PROVE  Exactly(r) \in Text /\ Exactly(r).work = card.text.work /\ Exactly(r).cycle = card.text.cycle
  BY FreshText DEF Exactly, Session

LEMMA DiscoverTakeoverInv ==
  ASSUME IInv, NEW r \in Takeover, DiscoverTakeover(r)
  PROVE  IInv'
  <1>1. r \in Run /\ pc[r] = "finish" /\ pc[r] \in Live
    BY DEF DiscoverTakeover, Live, Run
  <1>2. CASE Refuse(r, ~cur[r].plan.persist \/ Expect(r), "close")
    BY <1>1, <1>2, RefusedInv DEF Refuse
  <1>3. CASE Goto(r, "validate") /\ UNCHANGED <<card, attempt, current, exec>>
    BY <1>1, <1>3, RefusedInv
  <1>4. CASE /\ Expect(r) /\ Publish(card.place, Exactly(r))
             /\ Learn(r, card.place, "validate", "close") /\ UNCHANGED <<attempt, current, exec>>
    <2>1. r \notin Start /\ card.place # "todo"
      BY <1>1, <1>4, TakeoverWrites
    <2>2. /\ "validate" \in Live \cup Ended /\ "close" \in Live \cup Ended
          /\ {"validate", "close"} \cap (Early \cup {"takeover", "locate"}) = {}
          /\ "run" \notin {"validate", "close"} /\ "rollback" \notin {"validate", "close"}
      BY DEF Live, Early
    <2>3. Exactly(r) \in Text /\ Exactly(r).work = card.text.work /\ Exactly(r).cycle = card.text.cycle
      BY <1>1, ExactSession DEF IInv
    <2> QED BY <1>1, <1>4, <2>1, <2>2, <2>3, InPlaceInv
  <1> QED BY <1>2, <1>3, <1>4 DEF DiscoverTakeover

-----------------------------------------------------------------------------
(* Results of an attempt.                                                    *)

LEMMA Finished ==
  ASSUME TypeOK, AttemptOK, current # None, NEW status \in {"succeeded", "rolled-back"},
         NEW rev \in Nat, Finish(current, status, rev), current' = current
  PROVE  /\ DOMAIN attempt' = Start /\ attempt'[current].status = status
         /\ \A s \in Start \ {current} : attempt'[s] = attempt[s]
         /\ Recorded(current)'
  <1>1. current \in Start /\ attempt[current] \in Attempt /\ attempt[current].session.by = current
    BY DEF TypeOK, AttemptOK, Recorded
  <1> DEFINE a == [attempt[current] EXCEPT !.status = status, !.finished = rev]
  <1>2. a \in Attempt /\ a.status = status /\ a.session = attempt[current].session
    BY <1>1 DEF Attempt
  <1>3. attempt' = [attempt EXCEPT ![current] = a]
    BY <1>1 DEF Finish, TypeOK
  <1> HIDE DEF a
  <1>4. DOMAIN attempt' = Start /\ attempt'[current] = a
        /\ \A s \in Start \ {current} : attempt'[s] = attempt[s]
    BY <1>1, <1>3 DEF TypeOK
  <1> QED BY <1>1, <1>2, <1>4 DEF Recorded

LEMMA FinishedOK ==
  ASSUME TypeOK, AttemptOK, current # None, NEW status \in {"succeeded", "rolled-back"},
         NEW rev \in Nat, Finish(current, status, rev), current' = current,
         NEW r \in Run, Others(r), pc'[r] \notin Early
  PROVE  AttemptOK'
  BY Finished DEF AttemptOK, TypeOK, Recorded, Others, Run

LEMMA ConfirmSessionInv ==
  ASSUME IInv, NEW r \in Start, ConfirmTaskStartSession(r)
  PROVE  IInv'
  <1>1. r \in Run /\ pc[r] = "finish" /\ pc[r] \in Live /\ r \notin Takeover
    BY TaskStartAssumption DEF ConfirmTaskStartSession, Live, Run
  <1>2. CASE Refuse(r, Expect(r) /\ SuccessBinding(r, Provisional(r)), "close")
    BY <1>1, <1>2, RefusedInv DEF Refuse
  <1>3. CASE /\ Expect(r) /\ SuccessBinding(r, Provisional(r)) /\ Publish(card.place, Exactly(r))
             /\ Finish(current, "succeeded", card.rev + 1)
             /\ Learn(r, card.place, "started", "close") /\ UNCHANGED <<current, exec>>
    <2>1. current \in Start /\ current # None /\ card.text.cycle = current /\ card.place # "todo"
      BY <1>3, TaskStartAssumption DEF SuccessBinding, IInv, TypeOK, CycleOK
    <2>2. Written(r, card.place) /\ pc'[r] \in {"started", "close"} /\ card'.text = Exactly(r)
      BY <1>1, <1>3, Learns DEF IInv, TypeOK, Live, Ended
    <2>3. Exactly(r) \in Text /\ Exactly(r).work = card.text.work /\ Exactly(r).cycle = card.text.cycle
      BY <1>1, ExactSession DEF IInv
    <2>4. card' \in [place : Place, rev : Nat, text : Text]
      BY <1>3, <2>3 DEF Publish, IInv, TypeOK
    <2>5. card.rev + 1 \in Nat /\ pc'[r] \notin Early
      BY <2>2 DEF IInv, TypeOK, Early
    <2>6. AttemptOK'
      BY <1>1, <1>3, <2>1, <2>2, <2>5, FinishedOK DEF IInv, Written
    <2>7. DOMAIN attempt' = Start /\ attempt'[current].status = "succeeded"
      BY <1>3, <2>1, <2>5, Finished DEF IInv
    <2>8. CycleOK'
      BY <1>3, <2>1, <2>2, <2>3, <2>7, TaskStartAssumption DEF CycleOK, Written
    <2> QED BY <1>1, <1>3, <2>1, <2>2, <2>3, <2>4, <2>5, <2>6, <2>7, <2>8, WrittenInv DEF IInv, TypeOK
  <1> QED BY <1>2, <1>3 DEF ConfirmTaskStartSession

LEMMA ConfirmInv ==
  ASSUME IInv, NEW r \in Start, ConfirmTaskStart(r)
  PROVE  IInv'
  <1>1. r \in Run /\ pc[r] = "finish" /\ pc[r] \in Live /\ r \notin Takeover
    BY TaskStartAssumption DEF ConfirmTaskStart, Live, Run
  <1>2. CASE Refuse(r, SuccessBinding(r, card.text.session), "failed")
    BY <1>1, <1>2, RefusedInv DEF Refuse
  <1>3. CASE /\ SuccessBinding(r, card.text.session) /\ Finish(current, "succeeded", card.rev)
             /\ Goto(r, "started") \/ Goto(r, "failed")
             /\ UNCHANGED <<card, current, exec>>
    <2>1. current \in Start /\ current # None /\ card.text.cycle = current /\ card.rev \in Nat
      BY <1>3, TaskStartAssumption DEF SuccessBinding, IInv, TypeOK
    <2>2. Silent(r) /\ pc'[r] \in {"started", "failed"}
      BY <1>1, <1>3, Quiet DEF IInv, Ended
    <2>3. AttemptOK'
      BY <1>1, <1>3, <2>1, <2>2, FinishedOK DEF IInv, Silent, Early
    <2>4. DOMAIN attempt' = Start /\ attempt'[current].status = "succeeded"
      BY <1>3, <2>1, Finished DEF IInv
    <2>5. CycleOK'
      BY <1>3, <2>1, <2>4, TaskStartAssumption DEF IInv, CycleOK
    <2>6. TypeOK'
      BY <1>3, <2>2, <2>4 DEF IInv, TypeOK, Silent
    <2>7. Cursors'
      BY <1>1, <2>2, SilentCursors DEF IInv
    <2>8. Executors'
      BY <1>1, <1>3, <2>2, OthersExec DEF IInv, Silent, Early
    <2>9. \A s \in Start : Holder(s)' => Holder(s)
      BY <1>3, <2>2 DEF Holder, Silent, Others, Run
    <2>10. Holders'
      BY <1>1, <2>2, <2>9, SilentHolders DEF IInv
    <2> QED BY <2>3, <2>5, <2>6, <2>7, <2>8, <2>10 DEF IInv
  <1> QED BY <1>2, <1>3 DEF ConfirmTaskStart

\* The text restored is the launcher's own, with the present work.
LEMMA Restored ==
  ASSUME IInv, NEW r \in Run, pc[r] = "rollback", Expect(r)
  PROVE  /\ cur[r].original \in Text /\ cur[r].original.work = card.text.work /\ cur[r].from \in Place
         /\ r \in Takeover => cur[r].from # "todo" /\ cur[r].original.cycle = card.text.cycle
         /\ r \in Start => /\ cur[r].original.cycle = None /\ cur[r].original.session = NoSession
  BY DEF IInv, TypeOK, LaunchersOK, Cursor, Cursors, CursorOK, Expect, Live

LEMMA RollbackInv ==
  ASSUME IInv, NEW r \in Run, RollbackDocument(r)
  PROVE  IInv'
  <1>1. pc[r] = "rollback" /\ pc[r] \in Live
    BY DEF RollbackDocument, Live
  <1>2. CASE \E may \in BOOLEAN : Refuse(r, may, "failed")
    BY <1>1, <1>2, RefusedInv DEF Refuse
  <1> DEFINE clears == r \in Start /\ card.text.cycle # None
  <1>3. CASE /\ Expect(r) /\ (clears => RollbackBinding) /\ Publish(cur[r].from, cur[r].original)
             /\ IF clears THEN stageRollback ELSE UNCHANGED attempt
             /\ Learn(r, cur[r].from, "failed", "failed") /\ UNCHANGED <<current, exec>>
    <2> DEFINE text == cur[r].original
               place == cur[r].from
    <2>1. text \in Text /\ text.work = card.text.work /\ place \in Place
      BY <1>1, <1>3, Restored
    <2>2. r \in Takeover => place # "todo" /\ text.cycle = card.text.cycle
      BY <1>1, <1>3, Restored
    <2>3. r \in Start => text.cycle = None /\ text.session = NoSession
      BY <1>1, <1>3, Restored
    <2>4. Publish(place, text) /\ Learn(r, place, "failed", "failed")
      BY <1>3
    <2> HIDE DEF text, place
    <2>5. Written(r, place) /\ pc'[r] = "failed" /\ card'.text = text /\ pc'[r] \notin Early
      BY <1>1, <1>3, <2>1, <2>4, Learns DEF IInv, Ended, Early
    <2>6. card' \in [place : Place, rev : Nat, text : Text]
      BY <2>1, <2>4 DEF Publish, IInv, TypeOK
    <2>7. ~Holder(r)'
      BY <1>1, <1>3, <2>5 DEF Holder, IInv, Executors, ExecOK
    <2>8. Start \cap Takeover = {} /\ Run = Start \cup Takeover /\ card.rev + 1 \in Nat
      BY TaskStartAssumption DEF Run, IInv, TypeOK
    <2>9. CASE clears /\ current # None
      <3>1. Finish(current, "rolled-back", card.rev + 1)
        BY <1>3, <2>9 DEF stageRollback
      <3>2. AttemptOK'
        BY <1>3, <2>5, <2>8, <2>9, <3>1, FinishedOK DEF IInv, Written
      <3>3. DOMAIN attempt' = Start /\ attempt'[current].status = "rolled-back"
        BY <1>3, <2>8, <2>9, <3>1, Finished DEF IInv
      <3>4. CycleOK'
        BY <1>3, <2>3, <2>5, <2>9, <3>3, TaskStartAssumption DEF CycleOK, Written
      <3> QED BY <1>3, <2>1, <2>2, <2>5, <2>6, <2>7, <2>8, <3>2, <3>3, <3>4, WrittenInv DEF IInv, TypeOK
    <2>10. CASE ~(clears /\ current # None)
      <3>1. UNCHANGED <<attempt, current>>
        BY <1>3, <2>10 DEF stageRollback
      <3>2. AttemptOK'
        BY <2>5, <3>1, SameAttempts DEF IInv, Written
      <3>3. CycleOK'
        <4>1. CASE r \in Takeover
          BY <2>2, <2>5, <3>1, <4>1, SameCycle DEF IInv, Written
        <4>2. CASE r \in Start
          <5>1. current # None => attempt[current].status = "rolled-back"
            BY <2>10, <4>2 DEF IInv, CycleOK
          <5> QED BY <2>3, <2>5, <3>1, <4>2, <5>1, TaskStartAssumption DEF CycleOK
        <4> QED BY <2>8, <4>1, <4>2
      <3> QED BY <1>3, <2>1, <2>2, <2>5, <2>6, <2>7, <2>8, <3>1, <3>2, <3>3, WrittenInv DEF IInv, TypeOK
    <2> QED BY <2>9, <2>10
  <1> QED BY <1>2, <1>3 DEF RollbackDocument

-----------------------------------------------------------------------------
(* Everybody else.                                                           *)

LEMMA OtherInv ==
  ASSUME IInv, card' \in [place : Place, rev : Nat, text : Text], card'.rev = card.rev + 1,
         card'.place = "todo" => card.place = "todo",
         UNCHANGED <<attempt, current, launchers, exec>>, CycleOK'
  PROVE  IInv'
  <1>1. TypeOK'
    BY DEF IInv, TypeOK, LaunchersOK, launchers
  <1>2. AttemptOK'
    BY DEF IInv, AttemptOK, Recorded, launchers
  <1>3. Cursors'
    BY OtherCursors DEF IInv
  <1>4. Executors'
    BY DEF IInv, Executors, ExecOK, launchers
  <1>5. Holders'
    BY OtherHolders DEF IInv
  <1> QED BY <1>1, <1>2, <1>3, <1>4, <1>5 DEF IInv

LEMMA UpdateDocumentInv ==
  ASSUME IInv, NEW r \in Run, UpdateDocument(r)
  PROVE  IInv'
  <1> DEFINE text == [card.text EXCEPT !.work = @ + 1]
  <1>1. text \in Text /\ text.cycle = card.text.cycle /\ text.session = card.text.session
    BY DEF IInv, TypeOK, Text
  <1>2. card' = [place |-> card.place, rev |-> card.rev + 1, text |-> text]
        /\ UNCHANGED <<attempt, current, launchers, exec>>
    BY DEF UpdateDocument, Publish
  <1> HIDE DEF text
  <1>3. card' \in [place : Place, rev : Nat, text : Text]
    BY <1>1, <1>2 DEF IInv, TypeOK
  <1>4. CycleOK'
    BY <1>1, <1>2, SameCycle DEF IInv
  <1> QED BY <1>2, <1>3, <1>4, OtherInv

\* No transition leads back to todo.
LEMMA NeverBackToTodo ==
  ASSUME NEW from \in Place, NEW to \in Place, allowedMove(from, to)
  PROVE  to # "todo"
  BY DEF allowedMove, transitions, Place

LEMMA MoveInv ==
  ASSUME IInv, NEW to \in Place, Move(to)
  PROVE  IInv'
  <1>1. card' = [place |-> to, rev |-> card.rev + 1, text |-> card.text] /\ to # "todo"
        /\ UNCHANGED <<attempt, current, launchers, exec>>
    BY NeverBackToTodo DEF Move, Publish, IInv, TypeOK
  <1>2. card' \in [place : Place, rev : Nat, text : Text]
    BY <1>1 DEF IInv, TypeOK
  <1>3. CycleOK'
    BY <1>1, SameCycle DEF IInv
  <1> QED BY <1>1, <1>2, <1>3, OtherInv

LEMMA MoveOwnerInv ==
  ASSUME IInv, NEW c \in Claim, MoveOwner(c)
  PROVE  IInv'
  <1> DEFINE text == [card.text EXCEPT !.cycle = c]
  <1>1. text \in Text /\ text.cycle = c
    BY DEF IInv, TypeOK, Text
  <1>2. card' = [place |-> "working", rev |-> card.rev + 1, text |-> text]
        /\ UNCHANGED <<attempt, current, launchers, exec>>
    BY DEF MoveOwner, Publish
  <1> HIDE DEF text
  <1>3. card' \in [place : Place, rev : Nat, text : Text]
    BY <1>1, <1>2 DEF IInv, TypeOK, Place
  <1>4. CycleOK'
    BY <1>1, <1>2, TaskStartAssumption DEF CycleOK
  <1> QED BY <1>2, <1>3, <1>4, OtherInv

-----------------------------------------------------------------------------

LEMMA InitInv == Init => IInv
  <1> SUFFICES ASSUME Init PROVE IInv
    OBVIOUS
  <1>1. TypeOK
    <2>1. card \in [place : Place, rev : Nat, text : Text]
      BY DEF Init, Place, Text, Session, NoSession
    <2>2. LaunchersOK
      BY DEF Init, LaunchersOK, Live
    <2> QED BY <2>1, <2>2 DEF Init, TypeOK
  <1>2. AttemptOK
    BY DEF Init, AttemptOK
  <1>3. CycleOK
    BY TaskStartAssumption DEF Init, CycleOK
  <1>4. Cursors /\ Executors
    BY DEF Init, Cursors, CursorOK, Executors, ExecOK, Live
  <1>5. Holders
    BY DEF Init, Holders, HolderOK, Holder, Run
  <1> QED BY <1>1, <1>2, <1>3, <1>4, <1>5 DEF IInv

LEMMA SelectTodoInv ==
  ASSUME IInv, NEW r \in Start, NEW plan \in Plans, SelectTodo(r, plan)
  PROVE  IInv'
  BY SelectInv, TaskStartAssumption DEF SelectTodo, Run

LEMMA SelectTakeoverInv ==
  ASSUME IInv, NEW r \in Takeover, NEW plan \in Plans, SelectTakeover(r, plan)
  PROVE  IInv'
  BY SelectInv, TaskStartAssumption DEF SelectTakeover, Run

LEMMA NextInv == IInv /\ [Next]_vars => IInv'
  <1> SUFFICES ASSUME IInv, [Next]_vars PROVE IInv'
    OBVIOUS
  <1>1. CASE UNCHANGED vars
    BY <1>1 DEF vars, launchers, IInv, TypeOK, LaunchersOK, AttemptOK, Recorded, CycleOK, Cursors,
                CursorOK, Executors, ExecOK, Holders, HolderOK, Holder
  <1>2. CASE \E r \in Start, plan \in Plans : SelectTodo(r, plan)
    BY <1>2, SelectTodoInv
  <1>3. CASE \E r \in Takeover, plan \in Plans : SelectTakeover(r, plan)
    BY <1>3, SelectTakeoverInv
  <1>4. CASE \E r \in Start : MoveEntry(r) \/ WriteStart(r)
    BY <1>4, MoveEntryInv, WriteStartInv
  <1>5. CASE \E r \in Start : ConfirmTaskStartSession(r) \/ ConfirmTaskStart(r)
    BY <1>5, ConfirmSessionInv, ConfirmInv
  <1>6. CASE \E r \in Takeover : WriteTakeover(r) \/ DiscoverTakeover(r) \/ ValidateTakeover(r)
    BY <1>6, WriteTakeoverInv, DiscoverTakeoverInv, ValidateTakeoverInv
  <1>7. CASE \E r \in Run : RunAgent(r) \/ recordWindowLocation(r)
    BY <1>7, RunAgentInv, RecordWindowInv
  <1>8. CASE \E r \in Run : LaunchFails(r) \/ RollbackDocument(r) \/ LauncherDies(r)
    BY <1>8, LaunchFailsInv, RollbackInv, LauncherDiesInv
  <1>9. CASE \E r \in Run : UpdateDocument(r)
    BY <1>9, UpdateDocumentInv
  <1>10. CASE \E to \in Place : Move(to)
    BY <1>10, MoveInv
  <1>11. CASE \E c \in Claim : MoveOwner(c)
    BY <1>11, MoveOwnerInv
  <1> QED BY <1>1, <1>2, <1>3, <1>4, <1>5, <1>6, <1>7, <1>8, <1>9, <1>10, <1>11 DEF Next

\* The inductive invariant of the start of a card (start.go, agent.go, task_start.go,
\* commands.go): what each launcher may still do is what card and attempt say.
THEOREM StartInvariant == Spec => []IInv
  BY InitInv, NextInv, PTL DEF Spec

\* Two starts have executors at the same time only when closing one failed.
THEOREM OneExecutor == Spec => []StartsApart
  <1>1. IInv => StartsApart
    BY DEF IInv, Holders, HolderOK, Holder, StartsApart
  <1> QED BY <1>1, StartInvariant, PTL

\* A card in todo carries nothing of an earlier launch, and the attempt that led
\* away from it is rolled back: the next start is not refused.
THEOREM BackInTodo == Spec => []TodoStartable
  <1>1. IInv => TodoStartable
    BY DEF IInv, CycleOK, TodoStartable
  <1> QED BY <1>1, StartInvariant, PTL

-----------------------------------------------------------------------------
(* What a step may not do.                                                   *)

LEMMA WorkStep ==
  ASSUME IInv, Next
  PROVE  card'.text.work >= card.text.work
  <1>1. card.text.work \in Nat /\ card.text \in Text
    BY DEF IInv, TypeOK, Text
  <1>2. ASSUME NEW r \in Run, RollbackDocument(r)
        PROVE  card'.text.work = card.text.work
    <2>1. CASE UNCHANGED card
      BY <2>1
    <2>2. CASE ~UNCHANGED card
      <3>1. pc[r] = "rollback" /\ Expect(r) /\ Publish(cur[r].from, cur[r].original)
        BY <1>2, <2>2 DEF RollbackDocument, Refuse
      <3> QED BY <3>1, Restored DEF Publish
    <2> QED BY <2>1, <2>2
  <1>3. ASSUME NEW r \in Start, MoveEntry(r) \/ WriteStart(r)
        PROVE  card'.text.work = card.text.work
    <2> DEFINE text == [card.text EXCEPT !.cycle = r, !.session = Provisional(r)]
    <2>1. text.work = card.text.work
      BY <1>1 DEF Text
    <2>2. CASE MoveEntry(r)
      BY <2>2 DEF MoveEntry, Refuse, Publish
    <2>3. CASE WriteStart(r)
      <3>1. UNCHANGED card \/ Publish("working", text)
        BY <2>3 DEF WriteStart, Refuse
      <3> HIDE DEF text
      <3> QED BY <2>1, <3>1 DEF Publish
    <2> QED BY <1>3, <2>2, <2>3
  <1>4. ASSUME NEW r \in Start, ConfirmTaskStartSession(r) \/ ConfirmTaskStart(r)
        PROVE  card'.text.work = card.text.work
    BY <1>1, <1>4 DEF ConfirmTaskStartSession, ConfirmTaskStart, Refuse, Publish, Exactly, Text
  <1>5. ASSUME NEW r \in Takeover, WriteTakeover(r) \/ DiscoverTakeover(r) \/ ValidateTakeover(r)
        PROVE  card'.text.work = card.text.work
    BY <1>1, <1>5 DEF WriteTakeover, DiscoverTakeover, ValidateTakeover, Refuse, Publish, Exactly, Text
  <1>6. ASSUME NEW r \in Run, RunAgent(r) \/ recordWindowLocation(r)
        PROVE  card'.text.work = card.text.work
    BY <1>6 DEF RunAgent, recordWindowLocation, Refuse, Publish
  <1>7. ASSUME NEW r \in Run, UpdateDocument(r)
        PROVE  card'.text.work = card.text.work + 1
    BY <1>1, <1>7 DEF UpdateDocument, Publish, Text
  <1>8. ASSUME NEW to \in Place, Move(to)
        PROVE  card'.text.work = card.text.work
    BY <1>8 DEF Move, Publish
  <1>9. ASSUME NEW c \in Claim, MoveOwner(c)
        PROVE  card'.text.work = card.text.work
    BY <1>1, <1>9 DEF MoveOwner, Publish, Text
  <1>10. ASSUME NEW r \in Run, NEW plan \in Plans, SelectTodo(r, plan) \/ SelectTakeover(r, plan)
         PROVE  card' = card
    BY <1>10 DEF SelectTodo, SelectTakeover, Select
  <1>11. ASSUME NEW r \in Run, LaunchFails(r) \/ LauncherDies(r)
         PROVE  card' = card
    BY <1>11 DEF LaunchFails, LauncherDies
  <1> QED BY <1>1, <1>2, <1>3, <1>4, <1>5, <1>6, <1>7, <1>8, <1>9, <1>10, <1>11 DEF Next, Run

\* No claim, launch, confirmation or rollback puts an earlier text back over
\* what an executor wrote.
THEOREM WorkIsKept == Spec => WorkKept
  <1>1. IInv /\ [Next]_vars => [card'.text.work >= card.text.work]_vars
    BY WorkStep
  <1> QED BY <1>1, StartInvariant, PTL DEF Spec, WorkKept

\* What may happen to the attempts: nothing, one begins, or the latest ends.
Begins(r) ==
  /\ pc[r] \in Early /\ current' = r
  /\ attempt' = [attempt EXCEPT ![r] = Pending(Provisional(r))]
Succeeds ==
  /\ current # None /\ attempt[current].status = "pending" /\ UNCHANGED current
  /\ card.text.cycle = current /\ card.text.session.by = current
  /\ \E rev \in Nat : Finish(current, "succeeded", rev)
RollsBack ==
  /\ current # None /\ attempt[current].status = "pending" /\ UNCHANGED current
  /\ \E rev \in Nat : Finish(current, "rolled-back", rev)

LEMMA AttemptSteps ==
  ASSUME IInv, Next
  PROVE  UNCHANGED <<attempt, current>> \/ (\E r \in Start : Begins(r)) \/ Succeeds \/ RollsBack
  <1> DEFINE Goal == UNCHANGED <<attempt, current>> \/ (\E r \in Start : Begins(r)) \/ Succeeds \/ RollsBack
  <1> SUFFICES Goal
    OBVIOUS
  <1>0. card.rev \in Nat /\ card.rev + 1 \in Nat
    BY DEF IInv, TypeOK
  <1>1. CASE \E r \in Start, plan \in Plans : SelectTodo(r, plan)
    BY <1>1 DEF SelectTodo, Select
  <1>2. CASE \E r \in Takeover, plan \in Plans : SelectTakeover(r, plan)
    BY <1>2 DEF SelectTakeover, Select
  <1>3. ASSUME NEW r \in Start, MoveEntry(r)
        PROVE  Goal
    BY <1>3 DEF MoveEntry, Refuse
  <1>4. ASSUME NEW r \in Start, WriteStart(r)
        PROVE  Goal
    BY <1>4 DEF WriteStart, Refuse, Early, Begins
  <1>5. ASSUME NEW r \in Start, ConfirmTaskStartSession(r)
        PROVE  Goal
    <2>1. \/ UNCHANGED <<attempt, current>>
          \/ /\ SuccessBinding(r, Provisional(r)) /\ Finish(current, "succeeded", card.rev + 1)
             /\ UNCHANGED current
      BY <1>5 DEF ConfirmTaskStartSession, Refuse
    <2> QED BY <1>0, <2>1 DEF SuccessBinding, IInv, AttemptOK, Recorded, Succeeds
  <1>6. ASSUME NEW r \in Start, ConfirmTaskStart(r)
        PROVE  Goal
    <2>1. \/ UNCHANGED <<attempt, current>>
          \/ /\ SuccessBinding(r, card.text.session) /\ Finish(current, "succeeded", card.rev)
             /\ UNCHANGED current
      BY <1>6 DEF ConfirmTaskStart, Refuse
    <2> QED BY <1>0, <2>1 DEF SuccessBinding, IInv, AttemptOK, Recorded, Succeeds
  <1>7. CASE \E r \in Takeover : WriteTakeover(r) \/ DiscoverTakeover(r) \/ ValidateTakeover(r)
    BY <1>7 DEF WriteTakeover, DiscoverTakeover, ValidateTakeover, Refuse
  <1>8. CASE \E r \in Run : RunAgent(r) \/ recordWindowLocation(r)
    BY <1>8 DEF RunAgent, recordWindowLocation, Refuse
  <1>9. ASSUME NEW r \in Run, RollbackDocument(r)
        PROVE  Goal
    <2>1. \/ UNCHANGED <<attempt, current>>
          \/ RollbackBinding /\ stageRollback /\ UNCHANGED current
      BY <1>9 DEF RollbackDocument, Refuse
    <2> QED BY <1>0, <2>1 DEF stageRollback, RollbackBinding, RollsBack
  <1>10. CASE \E r \in Run : LaunchFails(r) \/ LauncherDies(r) \/ UpdateDocument(r)
    BY <1>10 DEF LaunchFails, LauncherDies, UpdateDocument
  <1>11. CASE \E to \in Place : Move(to)
    BY <1>11 DEF Move
  <1>12. CASE \E c \in Claim : MoveOwner(c)
    BY <1>12 DEF MoveOwner
  <1> HIDE DEF Goal
  <1> QED BY <1>1, <1>2, <1>3, <1>4, <1>5, <1>6, <1>7, <1>8, <1>9, <1>10, <1>11, <1>12 DEF Next

LEMMA SuccessStep ==
  ASSUME IInv, Next, NEW r \in Start, attempt'[r] # attempt[r], attempt'[r].status = "succeeded"
  PROVE  card.text.cycle = r /\ card.text.session.by = r
  <1>1. ASSUME NEW s \in Start, Begins(s)
        PROVE  FALSE
    BY <1>1 DEF Begins, IInv, TypeOK, Pending
  <1>2. ~RollsBack
    BY Finished DEF RollsBack, IInv
  <1>3. Succeeds => current = r
    BY Finished DEF Succeeds, IInv
  <1> QED BY <1>1, <1>2, <1>3, AttemptSteps DEF Succeeds

\* Success is recorded only while the card still belongs to the attempt, claim
\* and session of the launch, whoever took it over or claimed it meanwhile.
THEOREM OwnSuccess == Spec => SuccessIsOwn
  <1>1. IInv /\ [Next]_vars =>
          [\A r \in Start :
             attempt'[r] # attempt[r] /\ attempt'[r] # None /\ attempt'[r].status = "succeeded" =>
               card.text.cycle = r /\ card.text.session.by = r]_vars
    BY SuccessStep
  <1> QED BY <1>1, StartInvariant, PTL DEF Spec, SuccessIsOwn

-----------------------------------------------------------------------------
(* The coordinator.                                                          *)

\* The member's cycle was confirmed, which no later step takes back.
SeenOK ==
  ~NoMember /\ seen.cycle \in Start =>
    /\ attempt[seen.cycle].status = "succeeded" /\ pc[seen.cycle] \notin Early

\* A card whose cycle is a start that neither runs nor was rolled back.
LEMMA CycleConfirmed ==
  ASSUME IInv, cycleOf \in Start, current = None \/ Status # "pending"
  PROVE  attempt[cycleOf].status = "succeeded" /\ pc[cycleOf] \notin Early
  BY TaskStartAssumption DEF IInv, CycleOK, AttemptOK, cycleOf, Status

\* A binding takes the cycle the card shows, or keeps the one it has.
LEMMA Binds ==
  ASSUME NEW old, NEW confirmed, NEW m \in MemberCycle(old, confirmed)
  PROVE  m.cycle = cycleOf
  BY DEF MemberCycle, Observed

LEMMA UnboundCycle == Unbound.cycle = None
  BY DEF Unbound, Observed

LEMMA StartCycleOK ==
  ASSUME IInv, SeenOK, ~NoMember, NEW m \in StartCycle(seen)
  PROVE  m.cycle \in Start => attempt[m.cycle].status = "succeeded" /\ pc[m.cycle] \notin Early
  <1>1. CASE current # None /\ Status = "pending"
    <2>1. m \in WhilePending(seen)
      BY <1>1 DEF StartCycle
    <2> QED BY <2>1, UnboundCycle, TaskStartAssumption DEF WhilePending
  <1>2. CASE current = None \/ Status # "pending"
    <2>1. m.cycle = cycleOf \/ m.cycle = None
      <3>1. current = None => m.cycle = cycleOf
        BY Binds DEF StartCycle
      <3>2. ASSUME current # None
            PROVE  Status = "rolled-back" \/ Status = "succeeded"
        BY <1>2, <3>2 DEF IInv, AttemptOK, Recorded, Attempt, Status
      <3>3. current # None /\ Status = "rolled-back" => m \in AfterRollback(seen)
        BY DEF StartCycle
      <3>4. current # None /\ Status = "succeeded" => m \in AfterSuccess(seen)
        BY DEF StartCycle
      <3>5. m \in AfterRollback(seen) => m.cycle = cycleOf \/ m = Unbound
        BY Binds DEF AfterRollback
      <3>6. m \in AfterSuccess(seen) => m.cycle = cycleOf
        BY Binds DEF AfterSuccess
      <3> QED BY <3>1, <3>2, <3>3, <3>4, <3>5, <3>6, UnboundCycle
    <2> QED BY <1>2, <2>1, CycleConfirmed, TaskStartAssumption
  <1> QED BY <1>1, <1>2

LEMMA ConfirmedStays ==
  ASSUME IInv, Next, NEW r \in Start, attempt[r].status = "succeeded", pc[r] \notin Early
  PROVE  attempt'[r].status = "succeeded"
  <1>1. ASSUME NEW s \in Start, Begins(s)
        PROVE  attempt'[r] = attempt[r]
    BY <1>1 DEF Begins, IInv, TypeOK
  <1>2. Succeeds \/ RollsBack => attempt'[r] = attempt[r]
    BY Finished DEF Succeeds, RollsBack, IInv
  <1> QED BY <1>1, <1>2, AttemptSteps

\* A launcher never starts over.
LEMMA LateStays ==
  ASSUME IInv, Next, NEW r \in Start, pc[r] \notin Early
  PROVE  pc'[r] \notin Early
  <1> USE DEF Early
  <1>0. /\ pc \in [Run -> Live \cup Ended \cup {"idle"}] /\ r \in Run
        /\ \A q \in Run : \A at : pc' = [pc EXCEPT ![q] = at] /\ (r = q => at \notin Early) => pc'[r] \notin Early
    BY DEF IInv, TypeOK, LaunchersOK, Run
  <1>1. CASE \E q \in Start, plan \in Plans : SelectTodo(q, plan)
    BY <1>0, <1>1 DEF SelectTodo, Select, Go, Run
  <1>2. CASE \E q \in Takeover, plan \in Plans : SelectTakeover(q, plan)
    BY <1>0, <1>2 DEF SelectTakeover, Select, Go, Run
  <1>3. ASSUME NEW q \in Start, MoveEntry(q)
        PROVE  pc'[r] \notin Early
    BY <1>0, <1>3 DEF MoveEntry, Learn, Refuse, Goto, Go, Run
  <1>4. ASSUME NEW q \in Start, WriteStart(q)
        PROVE  pc'[r] \notin Early
    <2>1. \E at \in {"locate", "run", "rollback"} : pc' = [pc EXCEPT ![q] = at]
      BY <1>4 DEF WriteStart, Launch, Learn, Refuse, Goto, Go
    <2> QED BY <1>0, <2>1 DEF Run
  <1>5. CASE \E q \in Start : ConfirmTaskStartSession(q) \/ ConfirmTaskStart(q)
    <2>1. \E q \in Start, at \in Ended \cup {"close"} : pc' = [pc EXCEPT ![q] = at]
      BY <1>5 DEF ConfirmTaskStartSession, ConfirmTaskStart, Learn, Refuse, Goto, Go, Ended
    <2> QED BY <1>0, <2>1 DEF Run, Ended
  <1>6. CASE \E q \in Takeover : WriteTakeover(q) \/ DiscoverTakeover(q) \/ ValidateTakeover(q)
    <2>1. \E q \in Takeover, at \in {"locate", "run", "rollback", "validate", "close", "started"} :
            pc' = [pc EXCEPT ![q] = at]
      BY <1>6 DEF WriteTakeover, DiscoverTakeover, ValidateTakeover, Launch, Learn, Refuse, Goto, Go
    <2> QED BY <1>0, <2>1 DEF Run
  <1>7. CASE \E q \in Run : RunAgent(q) \/ recordWindowLocation(q)
    <2>1. \E q \in Run, at \in {"locate", "run", "finish", "close"} : pc' = [pc EXCEPT ![q] = at]
      BY <1>7 DEF RunAgent, recordWindowLocation, Learn, Refuse, Goto, Go
    <2> QED BY <1>0, <2>1
  <1>8. CASE \E q \in Run : LaunchFails(q) \/ RollbackDocument(q) \/ LauncherDies(q)
    <2>1. \E q \in Run, at \in {"rollback", "failed", "dead"} : pc' = [pc EXCEPT ![q] = at]
      BY <1>8 DEF LaunchFails, RollbackDocument, LauncherDies, Learn, Refuse, Goto, Go
    <2> QED BY <1>0, <2>1
  <1>9. CASE UNCHANGED launchers
    BY <1>9 DEF launchers
  <1> QED BY <1>1, <1>2, <1>3, <1>4, <1>5, <1>6, <1>7, <1>8, <1>9 DEF Next, UpdateDocument, Move, MoveOwner

LEMMA SeenStep == IInv /\ SeenOK /\ [NextAll]_allVars => SeenOK'
  <1> SUFFICES ASSUME IInv, SeenOK, [NextAll]_allVars PROVE SeenOK'
    OBVIOUS
  <1>1. CASE UNCHANGED allVars
    BY <1>1 DEF allVars, vars, launchers, SeenOK, NoMember
  <1>2. CASE Next /\ UNCHANGED seen
    BY <1>2, ConfirmedStays, LateStays DEF SeenOK, NoMember
  <1>3. ASSUME UNCHANGED vars, seen' # None,
               seen'.cycle \in Start => attempt[seen'.cycle].status = "succeeded" /\ pc[seen'.cycle] \notin Early
        PROVE  SeenOK'
    BY <1>3 DEF SeenOK, vars, launchers
  <1>4. CASE UNCHANGED vars /\ seen' = None
    BY <1>4 DEF SeenOK, NoMember
  <1>5. CASE ClaimCoordinator
    <2>1. ClaimPending => seen'.cycle = None
      BY <1>5, UnboundCycle DEF ClaimCoordinator
    <2>2. ~ClaimPending => seen'.cycle = cycleOf
      BY <1>5 DEF ClaimCoordinator, Observed
    <2>3. seen'.cycle \in Start => attempt[seen'.cycle].status = "succeeded" /\ pc[seen'.cycle] \notin Early
      BY <2>1, <2>2, CycleConfirmed, TaskStartAssumption DEF ClaimPending
    <2> QED BY <1>3, <1>4, <1>5, <2>3 DEF ClaimCoordinator
  <1>6. CASE ReconcileCoordinator
    BY <1>3, <1>4, <1>6, StartCycleOK DEF ReconcileCoordinator
  <1> QED BY <1>1, <1>2, <1>5, <1>6 DEF NextAll

\* The coordinator's checkpoint binds a member to a launch only if that launch
\* recorded success, whatever is rolled back, retried, taken over or claimed by
\* hand between two reconciliations.
THEOREM BindsConfirmed == SpecAll => []BoundConfirmed
  <1>1. InitAll => IInv /\ SeenOK
    BY InitInv DEF InitAll, SeenOK
  <1>2. IInv /\ SeenOK /\ [NextAll]_allVars => (IInv /\ SeenOK)'
    <2>1. [NextAll]_allVars => [Next]_vars
      BY DEF NextAll, ClaimCoordinator, ReconcileCoordinator, allVars
    <2> QED BY <2>1, NextInv, SeenStep
  <1>3. IInv /\ SeenOK => BoundConfirmed
    BY DEF SeenOK, BoundConfirmed
  <1> QED BY <1>1, <1>2, <1>3, PTL DEF SpecAll

=============================================================================
