---------------------------- MODULE StartReconcile ----------------------------
(***************************************************************************)
(* What a coordinator's checkpoint makes of a start                        *)
(* (internal/board/coordinator.go, coordinator_start.go,                   *)
(* coordinator_cycle.go).                                                  *)
(*                                                                         *)
(* The checkpoint holds one member, the card of TaskStart.  A claim records*)
(* what the card shows; later each reconciliation reads the card and the   *)
(* attempt records in one transaction and binds the member to the          *)
(* execution cycle only from a recorded success or a claim by hand.  No    *)
(* dispatch is involved: nothing is released or handed over here.          *)
(***************************************************************************)
EXTENDS TaskStart

\* A member is the revision, state and cycle it observed, whether it still waits
\* for a start, and the attempt it knows.
VARIABLE seen       \* the member in checkpoint.json, None before the claim

allVars == <<vars, seen>>

NoMember == seen = None

Observed(cycle, awaiting, a) ==
    [rev |-> card.rev, place |-> card.place, cycle |-> cycle, awaiting |-> awaiting, attempt |-> a]

cycleOf == card.text.cycle
Started == card.place \in {"working", "review", "done", "archived"}
Status == attempt[current].status

\* The attempts from a back to the first, along previous_id.
Lineage[a \in Start] ==
    {a} \cup (IF attempt[a].previous = None THEN {} ELSE Lineage[attempt[a].previous])

\* coordinatorStartLineage: each retry follows a rollback, and the attempt the
\* member knows is among them; one it is bound to is the latest.
StartLineage(old) ==
    /\ old.attempt \in {None, current} \/ old.awaiting
    /\ old.attempt # None => old.attempt \in Lineage[current]
    /\ \A a \in Lineage[current] : attempt[a].previous # None =>
         LET p == attempt[attempt[a].previous] IN
         p.status = "rolled-back" /\ p.finished < attempt[a].rev

\* Slip: only a newer revision can show a start.
FirstBinding_Newer(old, confirmed) ==
    old.cycle = None /\ old.awaiting /\ card.rev > old.rev /\ Started /\ cycleOf # None
\* The facts a first binding needs: a newer revision, or a recorded success,
\* which leaves the revision alone.
FirstBinding(old, confirmed) ==
    /\ old.cycle = None /\ old.awaiting
    /\ card.rev > old.rev \/ (card.rev = old.rev /\ confirmed)
    /\ Started /\ cycleOf # None

\* A member claimed in todo without the flag waits as well.
Upgraded(old) == [old EXCEPT !.awaiting = @ \/ (old.cycle = None /\ old.place = "todo")]

\* coordinatorMemberCycle: the members this one may become, none if refused.  A
\* cycle that was bound changes only with a release, of which there is none.
MemberCycle(old, confirmed) ==
    LET m == Upgraded(old) IN
    IF m.cycle = cycleOf THEN {Observed(cycleOf, m.awaiting, current)}
    ELSE IF FirstBinding(m, confirmed) THEN {Observed(cycleOf, FALSE, current)}
    ELSE {}

Unbound == Observed(None, TRUE, current)

\* Metadata is only an attempt: the member stays unbound.
WhilePending(old) ==
    IF /\ cycleOf = current /\ card.text.session = attempt[current].session
       /\ old.cycle \in {None, current}
    THEN {Unbound} ELSE {}

\* A rollback leaves a claim by hand alone, and revokes only what was observed
\* of the attempt itself.
AfterRollback(old) ==
    LET a == attempt[current]
        byHand == old.cycle # None /\ old.attempt = current /\ ~old.awaiting /\ old.rev > a.finished
        revoked == old.cycle = current /\ old.rev \in a.rev..(a.finished - 1)
        m == [old EXCEPT !.cycle = None, !.awaiting = @ \/ revoked] IN
    IF byHand THEN MemberCycle(old, FALSE)
    ELSE IF old.cycle # None /\ ~revoked THEN {}
    ELSE IF cycleOf = None THEN {Unbound}
    ELSE IF card.rev = a.finished THEN {}
    ELSE MemberCycle(m, FALSE)

AfterSuccess(old) ==
    IF cycleOf = current /\ card.rev >= attempt[current].finished
    THEN MemberCycle(old, TRUE) ELSE {}

\* coordinatorStartCycle
StartCycle(old) ==
    IF current = None THEN IF old.attempt = None THEN MemberCycle(old, FALSE) ELSE {}
    ELSE IF ~StartLineage(old) \/ card.rev < attempt[current].rev THEN {}
    ELSE CASE Status = "pending" -> WhilePending(old)
           [] Status = "rolled-back" -> AfterRollback(old)
           [] Status = "succeeded" -> AfterSuccess(old)

-----------------------------------------------------------------------------

InitAll == Init /\ NoMember

\* Slip: the claim believes the metadata of an attempt.
ClaimPending_Bound == FALSE
ClaimPending == current # None /\ Status = "pending"

\* The first claim of the group takes the member as the card shows it.
ClaimCoordinator ==
    /\ NoMember
    /\ seen' = IF ClaimPending THEN Unbound
               ELSE Observed(cycleOf, cycleOf = None /\ card.place = "todo", current)
    /\ UNCHANGED vars

ReconcileCoordinator ==
    /\ ~NoMember
    /\ seen' \in StartCycle(seen)
    /\ UNCHANGED vars

NextAll ==
    \/ Next /\ UNCHANGED seen
    \/ ClaimCoordinator
    \/ ReconcileCoordinator

SpecAll == InitAll /\ [][NextAll]_allVars

\* The coordinator reconciles again after every event and heartbeat.
LiveSpec == SpecAll /\ WF_allVars(ReconcileCoordinator)

-----------------------------------------------------------------------------
(* Properties *)

\* A member is bound to a launch only if that launch recorded success: not to
\* one still being made, and not to one that was rolled back.
BoundConfirmed ==
    ~NoMember /\ seen.cycle \in Start => attempt[seen.cycle].status = "succeeded"

\* A waiting member is bound in the end when the start succeeds, even if it had
\* already seen the very revision that was confirmed; unless the card is
\* claimed by hand meanwhile.
AwaitingBinds ==
    (~NoMember /\ seen.awaiting /\ current # None /\ Status = "succeeded")
      ~> (~NoMember /\ seen.cycle # None) \/ cycleOf # current

==============================================================================
