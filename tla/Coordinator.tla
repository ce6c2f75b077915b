----------------------------- MODULE Coordinator -----------------------------
(***************************************************************************)
(* The checkpoint of a task group (internal/board/coordinator*.go) and the *)
(* command that writes it (internal/launch/coordinator.go).                *)
(*                                                                         *)
(* A coordinating session claims the checkpoint under an epoch.  Later it  *)
(* reconciles: it observes every member, and one request is checked in two *)
(* passes over the board with Git asked in between, while no lock is held. *)
(* Executors, people and other sessions go on working all the time; a      *)
(* request may be late, may be repeated after its answer was lost, and may *)
(* come from a session that was replaced.  The launcher's start records    *)
(* are in StartReconcile; here cards are claimed by hand.                  *)
(***************************************************************************)
EXTENDS CardStates, Naturals, Sequences, SequencesExt, FiniteSets

CONSTANTS
    Session,        \* coordinating sessions, each with its own token
    Card,           \* the cards that can belong to the group
    Id,             \* dispatch ids
    Commit,         \* Git commits
    None,           \* no value
    MaxEpoch,       \* the largest epoch (2^64 - 1 in the code)
    MaxRequests,    \* bound: observations made
    MaxEdits        \* bound: changes of the board and of Git

ASSUME CoordinatorAssumption ==
    /\ None \notin Session \cup Id \cup Commit
    /\ MaxEpoch \in Nat /\ MaxRequests \in Nat /\ MaxEdits \in Nat

VARIABLES
    card,           \* specs: revision, state, cycle, binding, lifecycle records
    disp,           \* dispatches/<id>/state.json and its originals
    group,          \* the cards whose TASK_GROUP names the group
    head,           \* Git: the head of each task branch
    merged,         \* Git: the cards whose delivery is integrated
    checkpoint,     \* checkpoint.json
    file,           \* the claim of each session
    pc, req,        \* the reconciliation of each session and its request
    facts,          \* what its first pass found to verify
    forced,         \* cards claimed again without a release, see Claim
    requests, edits

git == <<head, merged>>
board == <<card, disp, group, forced>>
sessions == <<file, pc, req, facts>>
vars == <<board, git, checkpoint, sessions, requests, edits>>

Unbound == [id |-> None, epoch |-> 0]
Terminal == {"completed", "failed", "cancelled"}

\* Dispatch and CoordinatorDispatch, and what stands for no checkpoint.
Round == {"prepared", "accepted"} \cup Terminal
Dispatch == [ task : Card, kind : {"fix", "wrap-up"}, state : Round, epoch : Nat,
              commit : Commit \cup {None}, fenced : SUBSET Nat ]
Dispatched == [id : Id, epoch : Nat, state : Round]
NoCheckpoint == [ rev |-> 0, owner |-> None, epoch |-> 0, claim |-> 0, last |-> None,
                  members |-> <<>> ]
Claimed == checkpoint # NoCheckpoint

ASSUME NoneAssumption == None \notin Dispatch \cup Dispatched

Live(id) == disp[id].state \notin Terminal
Auth(id) == [id |-> id, epoch |-> disp[id].epoch]
Started(c) == card[c].place \in {"working", "review", "done", "archived"}

Init ==
    /\ card = [c \in Card |-> [ rev |-> 1, place |-> "todo", cycle |-> 0, bound |-> Unbound,
                                releases |-> {}, handoffs |-> <<>> ]]
    /\ disp = [i \in Id |-> None]
    /\ group = Card
    /\ head = [c \in Card |-> None]
    /\ merged = {}
    /\ checkpoint = NoCheckpoint
    /\ file = [k \in Session |-> None]
    /\ pc = [k \in Session |-> "idle"]
    /\ req = [k \in Session |-> None]
    /\ facts = [k \in Session |-> {}]
    /\ forced = {}
    /\ requests = 0 /\ edits = 0

Edit == edits < MaxEdits /\ edits' = edits + 1 /\ UNCHANGED <<checkpoint, sessions, requests>>

-----------------------------------------------------------------------------
(* What happens on the board and in Git meanwhile *)

\* A card is claimed by hand for the first time.
Start(c) ==
    /\ card[c].place = "todo" /\ Edit
    /\ card' = [card EXCEPT ![c].rev = @ + 1, ![c].place = "working", ![c].cycle = 1]
    /\ UNCHANGED <<disp, group, forced, git>>

\* The executor of an unbound card delivers: no receipt, only the branch.
Deliver(c) ==
    /\ card[c].place = "working" /\ card[c].bound = Unbound /\ Edit
    /\ card' = [card EXCEPT ![c].rev = @ + 1, ![c].place = "review"]
    /\ UNCHANGED <<disp, group, forced, git>>

\* Slip: the claim of a released card leaves no handoff.
HandoffOf_Lost(c, r) == <<>>
HandoffOf(c, r) ==
    <<[old |-> card[c].cycle, new |-> card[c].cycle + 1, id |-> r.id, rev |-> card[c].rev + 1]>>

\* stageReclaim: a claim of a reviewed card starts a new cycle.  If a dispatch
\* of the old one was released, the handoff names it; otherwise nothing is left
\* to prove the change by.
Claim(c) ==
    LET old == {r \in card[c].releases : r.cycle = card[c].cycle}
        last == CHOOSE r \in old : \A s \in old : s.rev <= r.rev IN
    /\ card[c].place = "review" /\ card[c].bound = Unbound /\ Edit
    /\ card' = [card EXCEPT ![c].rev = @ + 1, ![c].place = "working", ![c].cycle = @ + 1,
                            ![c].handoffs = IF old = {} THEN @ ELSE @ \o HandoffOf(c, last)]
    /\ forced' = IF old = {} THEN forced \cup {c} ELSE forced
    /\ UNCHANGED <<disp, group, git>>

\* A new intent over a settled one.
prepareDispatch(c, id, kind) ==
    /\ disp[id] = None /\ card[c].place \in {"working", "review"}
    /\ card[c].bound # Unbound => ~Live(card[c].bound.id)
    /\ Edit
    /\ disp' = [disp EXCEPT ![id] = [ task |-> c, kind |-> kind, state |-> "prepared",
                                      epoch |-> card[c].bound.epoch + 1, commit |-> None,
                                      fenced |-> {} ]]
    /\ card' = [card EXCEPT ![c].rev = @ + 1, ![c].bound = Auth(id)']
    /\ UNCHANGED <<group, forced, git>>

\* A receipt, or the rotation of the grant, which archives the fenced one.
Accept(id) ==
    LET c == disp[id].task IN
    /\ disp[id].state = "prepared" /\ card[c].bound = Auth(id) /\ Edit
    /\ disp' = [disp EXCEPT ![id].state = "accepted"]
    /\ card' = [card EXCEPT ![c].rev = @ + 1, ![c].place = "working"]
    /\ UNCHANGED <<group, forced, git>>

Complete(id, commit) ==
    LET c == disp[id].task IN
    /\ disp[id].state = "accepted" /\ card[c].bound = Auth(id) /\ card[c].place = "working"
    /\ Edit
    /\ disp' = [disp EXCEPT ![id].state = "completed", ![id].commit = commit]
    /\ card' = [card EXCEPT ![c].rev = @ + 1,
                            ![c].place = IF disp[id].kind = "wrap-up" THEN "done" ELSE "review"]
    /\ UNCHANGED <<group, forced, git>>

Fenced(id) == disp[id].fenced \cup {disp[id].epoch}

ReauthorizeDispatch(id) ==
    LET c == disp[id].task IN
    /\ Live(id) /\ card[c].bound = Auth(id) /\ Edit
    /\ disp' = [disp EXCEPT ![id].state = "prepared", ![id].epoch = @ + 1, ![id].fenced = Fenced(id)]
    /\ card' = [card EXCEPT ![c].rev = @ + 1, ![c].bound = Auth(id)']
    /\ UNCHANGED <<group, forced, git>>

\* Fail or cancel, and release the binding.
EndDispatch(id, state) ==
    LET c == disp[id].task IN
    /\ card[c].bound = Auth(id) /\ card[c].place # "archived" /\ disp[id].state # "completed"
    /\ Live(id) \/ disp[id].state = state
    /\ Edit
    /\ disp' = [disp EXCEPT ![id].state = state]
    /\ card' = [card EXCEPT ![c].rev = @ + 1, ![c].bound = Unbound,
                  ![c].releases = @ \cup {[id |-> id, cycle |-> card[c].cycle, rev |-> card[c].rev + 1]}]
    /\ UNCHANGED <<group, forced, git>>

\* A lifecycle decision cancels what is open and keeps the binding.
Archive(c) ==
    LET id == card[c].bound.id IN
    /\ Started(c) /\ card[c].place # "archived" /\ Edit
    /\ card' = [card EXCEPT ![c].rev = @ + 1, ![c].place = "archived"]
    /\ disp' = IF id # None /\ Live(id) THEN [disp EXCEPT ![id].state = "cancelled"] ELSE disp
    /\ UNCHANGED <<group, forced, git>>

\* TASK_GROUP of a card is edited.
Regroup(c) ==
    /\ card[c].place # "archived" /\ Edit
    /\ group' = IF c \in group THEN group \ {c} ELSE group \cup {c}
    /\ card' = [card EXCEPT ![c].rev = @ + 1]
    /\ UNCHANGED <<disp, forced, git>>

\* Commits, merges and rewritten branches: nothing on the board changes.
GitChanges(c) ==
    /\ Edit
    /\ \/ \E g \in Commit \ {head[c]} : head' = [head EXCEPT ![c] = g] /\ UNCHANGED merged
       \/ merged' = (merged \cup {c}) \ (merged \cap {c}) /\ UNCHANGED head
    /\ UNCHANGED board

Produce ==
    \/ \E c \in Card :
        \/ Start(c) \/ Deliver(c) \/ Claim(c) \/ Archive(c) \/ Regroup(c) \/ GitChanges(c)
        \/ \E id \in Id, kind \in {"fix", "wrap-up"} : prepareDispatch(c, id, kind)
    \/ \E id \in Id :
        /\ disp[id] # None
        /\ \/ Accept(id) \/ ReauthorizeDispatch(id)
           \/ \E g \in Commit : Complete(id, g)
           \/ \E s \in {"failed", "cancelled"} : EndDispatch(id, s)

-----------------------------------------------------------------------------
(* One member: what the checkpoint may say of it next *)

\* lifecycleHandoffs: the records from the one that leaves a cycle on, and whether
\* they lead to the present one.
Links(c, from) ==
    LET hs == card[c].handoffs
        first == SelectInSeq(hs, LAMBDA h : h.old = from) IN
    IF first = 0 THEN <<>> ELSE SubSeq(hs, first, Len(hs))
Chained(c, from) ==
    LET ls == Links(c, from) IN
    \/ from = card[c].cycle
    \/ /\ ls # <<>> /\ ls[Len(ls)].new = card[c].cycle
       /\ \A i \in 2..Len(ls) : ls[i].old = ls[i - 1].new
       /\ \A i \in 1..Len(ls) : \E r \in card[c].releases :
            r.cycle = ls[i].old /\ r.id = ls[i].id /\ r.rev < ls[i].rev

\* verifyCoordinatorHandoffs: what was retained is still there.
Retained(c, old) ==
    /\ old.released \subseteq {r.id : r \in card[c].releases}
    /\ old.handoffs # <<>> =>
         /\ Chained(c, old.handoffs[1].old)
         /\ LET ls == Links(c, old.handoffs[1].old) IN
            Len(ls) >= Len(old.handoffs) /\ SubSeq(ls, 1, Len(old.handoffs)) = old.handoffs

\* coordinatorMemberCycle: the cycle stays, is bound for the first time, or is
\* handed over.
Awaits(old) == old.awaiting \/ (/\ old.cycle = 0 /\ old.place \in {"todo", "backlog"}
                                /\ old.dispatch = None /\ old.delivery = None)
FirstBound(c, old) == Awaits(old) /\ old.cycle = 0 /\ card[c].rev > old.rev /\ Started(c)
HandedOver(c, old) ==
    ~Awaits(old) /\ Started(c) /\ card[c].rev > old.rev /\ Chained(c, old.cycle)
CycleAccepted(c, old) ==
    card[c].cycle = old.cycle \/ FirstBound(c, old) \/ HandedOver(c, old)
StillAwaits(c, old) == card[c].cycle = old.cycle /\ Awaits(old)
Replaced(c, old) ==
    card[c].cycle # old.cycle /\ ~StillAwaits(c, old) /\ ~old.awaiting /\ old.cycle # 0

\* coordinatorDispatchAdvance: a round is followed by its rotation, whose fenced
\* grant is on record, or, once settled, by another round.
Advances(old, id) ==
    IF old.id # id THEN disp[old.id].epoch >= old.epoch /\ ~Live(old.id)
    ELSE \/ old.epoch = disp[id].epoch /\ (old.state \in Terminal => disp[id].state = old.state)
         \/ old.epoch < disp[id].epoch /\ old.epoch \in disp[id].fenced

\* Slip: a request is taken at any revision of the card.
Expect_Any(c, o) == TRUE
Expect(c, o) == o.rev = card[c].rev

\* Slip: a first delivery is taken wherever the card is.
Handed_Any(c) == TRUE
Handed(c) == card[c].place = "review"

\* The round the observation names is exactly the current one.
UnboundRound(c, old, o) ==
    /\ o.id = None /\ o.epoch = 0
    /\ old.dispatch # None =>
         /\ old.dispatch.id \in {r.id : r \in card[c].releases}
         /\ Advances(old.dispatch, old.dispatch.id)
    /\ o.commit # None => Handed(c)
BoundRound(c, old, o) ==
    LET id == card[c].bound.id IN
    /\ [id |-> o.id, epoch |-> o.epoch] = card[c].bound
    /\ old.dispatch # None => Advances(old.dispatch, id)
    /\ o.commit = disp[id].commit       \* None without a completed receipt
    /\ disp[id].kind = "wrap-up" /\ disp[id].state = "completed" =>
         card[c].place \in {"done", "archived"}
Acceptable(c, old, o) ==
    /\ Expect(c, o) /\ card[c].rev >= old.rev
    /\ Retained(c, old) /\ CycleAccepted(c, old)
    /\ IF card[c].bound = Unbound THEN UnboundRound(c, old, o) ELSE BoundRound(c, old, o)

\* What Git has to confirm: the branch head of a first delivery, the integration
\* behind a wrap-up.
FactsOf(c, o) ==
    LET id == card[c].bound.id IN
    IF id = None THEN {[task |-> c, commit |-> o.commit] : x \in {o.commit} \ {None}}
    ELSE {[task |-> c, commit |-> None] : x \in {disp[id].kind} \cap {"wrap-up"}}
Confirmed(f) == IF f.commit = None THEN f.task \in merged ELSE head[f.task] = f.commit

\* A delivery belongs to its execution cycle.
Kept(c, old) == IF Replaced(c, old) THEN None ELSE old.delivery

NextMember(c, old, o) ==
    LET id == card[c].bound.id IN
    [ rev |-> card[c].rev, place |-> card[c].place, cycle |-> card[c].cycle,
      awaiting |-> StillAwaits(c, old),
      delivery |-> IF o.commit # None THEN o.commit ELSE Kept(c, old),
      dispatch |-> IF id = None THEN None
                   ELSE [id |-> id, epoch |-> disp[id].epoch, state |-> disp[id].state],
      released |-> old.released \cup
                     (IF id = None /\ old.dispatch # None THEN {old.dispatch.id} ELSE {}),
      handoffs |-> old.handoffs \o (IF Replaced(c, old) THEN Links(c, old.cycle) ELSE <<>>) ]

-----------------------------------------------------------------------------
(* The commands of a session *)

Members == DOMAIN checkpoint.members

\* A session looks (show) and writes its claim file.
WriteClaim(k) ==
    /\ pc[k] = "idle" /\ requests < MaxRequests /\ requests' = requests + 1
    /\ file' = [file EXCEPT ![k] =
         [ rev |-> checkpoint.rev, epoch |-> checkpoint.epoch,
           members |-> IF Claimed THEN Members ELSE group, done |-> FALSE ]]
    /\ UNCHANGED <<board, git, checkpoint, pc, req, facts, edits>>

FirstMember(c) ==
    [ rev |-> card[c].rev, place |-> card[c].place, cycle |-> card[c].cycle,
      awaiting |-> card[c].cycle = 0 /\ card[c].place \in {"todo", "backlog"},
      delivery |-> None, dispatch |-> None, released |-> {}, handoffs |-> <<>> ]

\* Slip: the claim is taken at any revision and epoch.
ClaimExpected_Any(k) == TRUE
ClaimExpected(k) ==
    /\ file[k].rev = checkpoint.rev /\ file[k].epoch = checkpoint.epoch
    /\ checkpoint.owner # k
    /\ Claimed => Members = file[k].members

EpochLeft(k) == file[k].epoch < MaxEpoch

\* The claim is executed, perhaps again.  The same claim as the last one
\* changes nothing (ClaimHash).
ClaimCoordinator(k) ==
    /\ pc[k] = "idle" /\ file[k] # None /\ file[k].members # {}
    /\ ~(Claimed /\ checkpoint.claim = file[k].rev /\ checkpoint.owner = k)
    /\ ClaimExpected(k) /\ file[k].members = group
    /\ EpochLeft(k)
    /\ checkpoint' =
         [ rev |-> file[k].rev + 1, owner |-> k, epoch |-> (file[k].epoch + 1) % (MaxEpoch + 1),
           claim |-> file[k].rev,
           last |-> None,
           members |-> IF Claimed THEN checkpoint.members
                       ELSE [c \in group |-> FirstMember(c)] ]
    /\ file' = [file EXCEPT ![k].done = TRUE]
    /\ UNCHANGED <<board, git, pc, req, facts, requests, edits>>

\* A session that got an epoch observes the members, each as it is; of a commit
\* it reports what it was told, true or not.
Observe(k) ==
    /\ pc[k] = "idle" /\ file[k] # None /\ file[k].done
    /\ Claimed /\ requests < MaxRequests
    /\ requests' = requests + 1
    /\ \E told \in [Members -> Commit \cup {None}] :
         req' = [req EXCEPT ![k] =
           [ rev |-> checkpoint.rev, owner |-> k, epoch |-> file[k].epoch + 1,
             seen |-> [c \in Members |-> [ rev |-> card[c].rev, id |-> card[c].bound.id,
                                           epoch |-> card[c].bound.epoch,
                                           commit |-> told[c] ]] ]]
    /\ UNCHANGED <<board, git, checkpoint, file, pc, facts, edits>>

Authority(k) == checkpoint.owner = k /\ checkpoint.epoch = req[k].epoch

\* reconcileCheckpoint: the same check in both passes.  The request that was
\* committed last may be repeated at its old revision.
Valid(k) ==
    LET r == req[k] IN
    /\ Claimed /\ Authority(k)
    /\ checkpoint.rev = r.rev \/ checkpoint.last = r
    /\ DOMAIN r.seen = Members /\ group = Members
    /\ \A c \in Members : Acceptable(c, checkpoint.members[c], r.seen[c])

Goto(k, l) == pc' = [pc EXCEPT ![k] = l]

\* First pass, under shared locks: collect what Git has to confirm.
Collect(k) ==
    /\ pc[k] = "idle" /\ req[k] # None
    /\ Valid(k)
    /\ facts' = [facts EXCEPT ![k] = UNION {FactsOf(c, req[k].seen[c]) : c \in Members}]
    /\ Goto(k, "verify")
    /\ UNCHANGED <<board, git, checkpoint, file, req, requests, edits>>

Verified(k) == \A f \in facts[k] : Confirmed(f)

\* Git, with no lock held.
Verify(k) ==
    /\ pc[k] = "verify"
    /\ IF Verified(k) THEN Goto(k, "commit") /\ UNCHANGED facts
       ELSE Goto(k, "idle") /\ facts' = [facts EXCEPT ![k] = {}]
    /\ UNCHANGED <<board, git, checkpoint, file, req, requests, edits>>

\* Second pass, under exclusive locks: only verified facts, then the new
\* checkpoint if it says anything new.
Reconcile(k) ==
    LET next == [c \in Members |-> NextMember(c, checkpoint.members[c], req[k].seen[c])] IN
    /\ pc[k] = "commit"
    /\ IF /\ Valid(k)
          /\ UNION {FactsOf(c, req[k].seen[c]) : c \in Members} \subseteq facts[k]
          /\ next # checkpoint.members
       THEN checkpoint' = [checkpoint EXCEPT !.rev = @ + 1, !.members = next, !.last = req[k]]
       ELSE UNCHANGED checkpoint
    /\ Goto(k, "idle")
    /\ facts' = [facts EXCEPT ![k] = {}]
    /\ UNCHANGED <<board, git, file, req, requests, edits>>

\* The command dies or runs into its timeout; its request file stays.
Stop(k) ==
    /\ pc[k] # "idle" /\ Goto(k, "idle")
    /\ facts' = [facts EXCEPT ![k] = {}]
    /\ UNCHANGED <<board, git, checkpoint, file, req, requests, edits>>

Coordinate(k) ==
    \/ WriteClaim(k) \/ ClaimCoordinator(k) \/ Observe(k)
    \/ Collect(k) \/ Verify(k) \/ Reconcile(k) \/ Stop(k)

Next == Produce \/ \E k \in Session : Coordinate(k)

Spec == Init /\ [][Next]_vars

-----------------------------------------------------------------------------
(* Properties *)

\* The reconciliation of k publishes a checkpoint in this step.
Publishes(k) == pc[k] = "commit" /\ pc'[k] = "idle" /\ checkpoint' # checkpoint

\* Only the session of the newest epoch publishes, also when it was replaced
\* between its two passes; and a claim file, however often it is executed, moves
\* the epoch at most once and never past another session's claim
\* (reconcileCheckpoint, ClaimCoordinator).
EpochFences ==
    [][\A k \in Session :
        /\ Publishes(k) => checkpoint.owner = k /\ checkpoint.epoch = req[k].epoch
        /\ file[k] # None /\ file[k].done /\ checkpoint'.owner = k => checkpoint.owner = k]_vars

\* A published checkpoint describes all members as they are at one moment, and as
\* its request observed them, however long Git took in between: revision, state
\* and round (ReconcileCoordinator).
CommitsPresent ==
    [][\A k \in Session : Publishes(k) =>
        \A c \in Members :
          LET m == checkpoint'.members[c]
              o == req[k].seen[c] IN
          /\ m.rev = card[c].rev /\ m.rev = o.rev /\ m.place = card[c].place
          /\ group = Members
          /\ IF m.dispatch = None THEN o.id = None /\ card[c].bound = Unbound
             ELSE o.id = m.dispatch.id /\ m.dispatch.state = disp[o.id].state
                  /\ card[c].bound = [id |-> o.id, epoch |-> m.dispatch.epoch]]_vars

\* Every delivery of a published checkpoint is proved: by a completed receipt of
\* the current grant, by Git in this very command, or by the checkpoint before if
\* the execution cycle is still the same (reconcileCoordinatorMember).
DeliveryProved ==
    [][\A k \in Session : Publishes(k) =>
        \A c \in Members :
          LET m == checkpoint'.members[c]
              old == checkpoint.members[c]
              id == card[c].bound.id IN
          m.delivery # None =>
            \/ id # None /\ disp[id].commit = m.delivery
            \/ /\ m.dispatch = None /\ [task |-> c, commit |-> m.delivery] \in facts[k]
               /\ card[c].place = "review"
            \/ m.delivery = old.delivery /\ (m.cycle = old.cycle \/ old.awaiting)]_vars

Honest(c, g) == [ rev |-> card[c].rev, id |-> card[c].bound.id, epoch |-> card[c].bound.epoch,
                  commit |-> g ]
Reconciles(c) ==
    \E g \in Commit \cup {None} : Acceptable(c, checkpoint.members[c], Honest(c, g))

\* The round the checkpoint knows was completed, and a later one, never observed,
\* was released.
Overtaken(c) ==
    LET d == checkpoint.members[c].dispatch IN
    card[c].bound = Unbound /\ d # None /\ disp[d.id].state = "completed"

\* However many rounds, rotations, releases and claims a session has missed, an
\* honest observation of a member is accepted (coordinatorDispatchAdvance,
\* lifecycleHandoffs), unless its card was claimed again without a release, or
\* a released round overtook the completed one the checkpoint knows.
Reconcilable ==
    Claimed => \A c \in Members \ forced : Overtaken(c) \/ Reconciles(c)

=============================================================================
