-------------------------- MODULE CoordinatorProofs --------------------------
(* That a replaced session publishes nothing and a claim moves the epoch     *)
(* once, that what is published is the present with proved deliveries, and   *)
(* that an honest session is not locked out, for any number of sessions,     *)
(* cards, dispatches, claims and requests.                                   *)
(*                                                                           *)
(* An executed claim is older than the checkpoint, whose revision only grows *)
(* (ClaimsOK).  A binding names a dispatch of its own card at that           *)
(* dispatch's present epoch, so the epoch a checkpoint takes from the        *)
(* dispatch is the one the card carries (BoundOK).  What the checkpoint      *)
(* retained of a card is still there (CInv, in the second half).             *)
EXTENDS Coordinator, SequenceTheorems, WellFoundedInduction, TLAPS

Bound(c, id) == disp[id] # None /\ disp[id].task = c /\ card[c].bound = Auth(id)

BoundOK ==
  /\ DOMAIN card = Card /\ disp \in [Id -> Dispatch \cup {None}]
  /\ \A c \in Card :
       /\ {"rev", "bound"} \subseteq DOMAIN card[c]
       /\ card[c].bound # Unbound => \E id \in Id : Bound(c, id)

ClaimsOK ==
  /\ DOMAIN file = Session /\ DOMAIN pc = Session
  /\ {"rev", "owner", "members"} \subseteq DOMAIN checkpoint /\ checkpoint.rev \in Nat
  /\ group \subseteq Card
  /\ \A k \in Session : file[k] # None =>
       /\ {"rev", "done"} \subseteq DOMAIN file[k] /\ file[k].rev \in Nat
       /\ file[k].done => file[k].rev < checkpoint.rev

IInv == BoundOK /\ ClaimsOK

-----------------------------------------------------------------------------
(* The board.                                                                *)

LEMMA TheBound ==
  ASSUME BoundOK, NEW id \in Id, NEW c \in Card, card[c].bound = Auth(id)
  PROVE  Bound(c, id)
  <1>1. card[c].bound # Unbound
    BY CoordinatorAssumption DEF Auth, Unbound
  <1>2. PICK j \in Id : Bound(c, j)
    BY <1>1 DEF BoundOK
  <1>3. j = id
    BY <1>2 DEF Bound, Auth
  <1> QED BY <1>2, <1>3

\* A step that leaves the bindings alone.
LEMMA Untouched ==
  ASSUME BoundOK, UNCHANGED disp, DOMAIN card' = Card,
         \A c \in Card : {"rev", "bound"} \subseteq DOMAIN card'[c] /\ card'[c].bound = card[c].bound
  PROVE  BoundOK'
  BY DEF BoundOK, Bound, Auth

\* A step about one card and a dispatch of it, which binds the two or unbinds
\* the card.
LEMMA Rebound ==
  ASSUME BoundOK, NEW c \in Card, NEW id \in Id,
         disp[id] # None => disp[id].task = c,
         disp' \in [Id -> Dispatch \cup {None}], \A j \in Id \ {id} : disp'[j] = disp[j],
         DOMAIN card' = Card, \A x \in Card \ {c} : card'[x] = card[x],
         {"rev", "bound"} \subseteq DOMAIN card'[c],
         card'[c].bound = Unbound \/ Bound(c, id)'
  PROVE  BoundOK'
  <1>1. ASSUME NEW x \in Card, x # c, card'[x].bound # Unbound
        PROVE  \E j \in Id : Bound(x, j)'
    <2>1. card'[x] = card[x]
      BY <1>1
    <2>2. PICK j \in Id : Bound(x, j)
      BY <1>1, <2>1 DEF BoundOK
    <2>3. j # id
      BY <1>1, <2>2 DEF Bound
    <2>4. Bound(x, j)'
      BY <2>1, <2>2, <2>3 DEF Bound, Auth
    <2> QED BY <2>4
  <1>2. card'[c].bound # Unbound => \E j \in Id : Bound(c, j)'
    OBVIOUS
  <1>3. \A x \in Card : {"rev", "bound"} \subseteq DOMAIN card'[x]
    BY DEF BoundOK
  <1> QED BY <1>1, <1>2, <1>3 DEF BoundOK

\* Commands that change a card and no dispatch.
LEMMA CardCommands ==
  ASSUME BoundOK, NEW c \in Card, Start(c) \/ Deliver(c) \/ Claim(c) \/ Regroup(c) \/ GitChanges(c)
  PROVE  BoundOK'
  <1>1. UNCHANGED disp
    BY DEF Start, Deliver, Claim, Regroup, GitChanges, board
  <1>2. DOMAIN card' = Card /\ \A x \in Card : {"rev", "bound"} \subseteq DOMAIN card[x]
    BY DEF Start, Deliver, Claim, Regroup, GitChanges, board, BoundOK
  <1>3. \A x \in Card : {"rev", "bound"} \subseteq DOMAIN card'[x] /\ card'[x].bound = card[x].bound
    <2>1. CASE Start(c)
      BY <1>2, <2>1 DEF Start, BoundOK
    <2>2. CASE Deliver(c)
      BY <1>2, <2>2 DEF Deliver, BoundOK
    <2>3. CASE Claim(c)
      BY <1>2, <2>3 DEF Claim, BoundOK
    <2>4. CASE Regroup(c)
      BY <1>2, <2>4 DEF Regroup, BoundOK
    <2>5. CASE GitChanges(c)
      BY <1>2, <2>5 DEF GitChanges, board
    <2> QED BY <2>1, <2>2, <2>3, <2>4, <2>5
  <1> QED BY <1>1, <1>2, <1>3, Untouched

\* What the steps of a dispatch find: its card, bound to it.
LEMMA Rounds ==
  ASSUME BoundOK, NEW id \in Id, disp[id] # None, card[disp[id].task].bound = Auth(id)
  PROVE  /\ disp[id] \in Dispatch /\ disp[id].task \in Card /\ Bound(disp[id].task, id)
         /\ DOMAIN card = Card /\ {"rev", "bound"} \subseteq DOMAIN card[disp[id].task]
  <1>1. disp[id] \in Dispatch /\ disp[id].task \in Card
    BY DEF BoundOK, Dispatch
  <1> QED BY <1>1, TheBound DEF BoundOK

LEMMA Binding ==
  ASSUME BoundOK, NEW id \in Id, disp[id] # None,
         card[disp[id].task].bound = Auth(id),
         NEW d \in Dispatch, d.task = disp[id].task,
         disp' = [disp EXCEPT ![id] = d],
         DOMAIN card' = Card, \A x \in Card \ {d.task} : card'[x] = card[x],
         {"rev", "bound"} \subseteq DOMAIN card'[d.task],
         card'[d.task].bound = Unbound \/ card'[d.task].bound = [id |-> id, epoch |-> d.epoch]
  PROVE  BoundOK'
  <1>1. d.task \in Card /\ disp \in [Id -> Dispatch \cup {None}]
    BY Rounds DEF BoundOK
  <1>2. disp' \in [Id -> Dispatch \cup {None}] /\ disp'[id] = d /\ d # None
    BY <1>1, NoneAssumption
  <1>3. \A j \in Id \ {id} : disp'[j] = disp[j]
    BY <1>1
  <1>4. card'[d.task].bound = Unbound \/ Bound(d.task, id)'
    BY <1>2 DEF Bound, Auth
  <1> QED BY <1>1, <1>2, <1>3, <1>4, Rebound

LEMMA Prepares ==
  ASSUME BoundOK, NEW c \in Card, NEW id \in Id, NEW kind \in {"fix", "wrap-up"},
         prepareDispatch(c, id, kind)
  PROVE  BoundOK'
  <1>1. card[c].bound.epoch \in Nat
    <2>1. CASE card[c].bound = Unbound
      BY <2>1 DEF Unbound
    <2>2. CASE card[c].bound # Unbound
      <3>1. PICK j \in Id : Bound(c, j)
        BY <2>2 DEF BoundOK
      <3>2. disp[j] \in Dispatch
        BY <3>1 DEF Bound, BoundOK
      <3> QED BY <3>1, <3>2 DEF Bound, Auth, Dispatch
    <2> QED BY <2>1, <2>2
  <1> DEFINE d == [ task |-> c, kind |-> kind, state |-> "prepared",
                    epoch |-> card[c].bound.epoch + 1, commit |-> None, fenced |-> {} ]
  <1>2. d \in Dispatch
    BY <1>1 DEF Dispatch, Round
  <1>3. d.task = c
    OBVIOUS
  <1>4. disp' = [disp EXCEPT ![id] = d] /\ disp[id] = None
    BY DEF prepareDispatch
  <1>5. card' = [card EXCEPT ![c].rev = @ + 1, ![c].bound = Auth(id)']
    BY DEF prepareDispatch
  <1> HIDE DEF d
  <1>6. disp' \in [Id -> Dispatch \cup {None}] /\ disp'[id] = d /\ d # None
    BY <1>2, <1>4, NoneAssumption DEF BoundOK
  <1>7. \A j \in Id \ {id} : disp'[j] = disp[j]
    BY <1>4 DEF BoundOK
  <1>8. /\ DOMAIN card' = Card /\ \A x \in Card \ {c} : card'[x] = card[x]
        /\ {"rev", "bound"} \subseteq DOMAIN card'[c] /\ card'[c].bound = Auth(id)'
    BY <1>5 DEF BoundOK
  <1>9. Bound(c, id)'
    BY <1>3, <1>6, <1>8 DEF Bound
  <1> QED BY <1>4, <1>6, <1>7, <1>8, <1>9, Rebound

LEMMA Receipts ==
  ASSUME BoundOK, NEW id \in Id, disp[id] # None,
         Accept(id) \/ \E g \in Commit : Complete(id, g)
  PROVE  BoundOK'
  <1>1. card[disp[id].task].bound = Auth(id)
    BY DEF Accept, Complete
  <1>2. disp[id] \in Dispatch /\ disp[id].task \in Card /\ DOMAIN card = Card
        /\ {"rev", "bound"} \subseteq DOMAIN card[disp[id].task]
    BY <1>1, Rounds
  <1>3. PICK c \in Card : c = disp[id].task
    BY <1>2
  <1>4. /\ DOMAIN card' = Card /\ \A x \in Card \ {c} : card'[x] = card[x]
        /\ {"rev", "bound"} \subseteq DOMAIN card'[c] /\ card'[c].bound = card[c].bound
    BY <1>2, <1>3 DEF Accept, Complete
  <1>5. \E d \in Dispatch : /\ disp' = [disp EXCEPT ![id] = d]
                            /\ d.task = disp[id].task /\ d.epoch = disp[id].epoch
    <2>1. CASE Accept(id)
      <3> DEFINE d == [disp[id] EXCEPT !.state = "accepted"]
      <3>1. d \in Dispatch /\ d.task = disp[id].task /\ d.epoch = disp[id].epoch
        BY <1>2 DEF Dispatch, Round
      <3>2. disp' = [disp EXCEPT ![id] = d]
        BY <2>1 DEF Accept, BoundOK
      <3> QED BY <3>1, <3>2
    <2>2. ASSUME NEW g \in Commit, Complete(id, g) PROVE <1>5!:
      <3> DEFINE d == [disp[id] EXCEPT !.state = "completed", !.commit = g]
      <3>1. d \in Dispatch /\ d.task = disp[id].task /\ d.epoch = disp[id].epoch
        BY <1>2 DEF Dispatch, Round, Terminal
      <3>2. disp' = [disp EXCEPT ![id] = d]
        BY <2>2 DEF Complete, BoundOK
      <3> QED BY <3>1, <3>2
    <2> QED BY <2>1, <2>2
  <1>6. PICK d \in Dispatch : /\ disp' = [disp EXCEPT ![id] = d]
                              /\ d.task = disp[id].task /\ d.epoch = disp[id].epoch
    BY <1>5
  <1>7. card'[c].bound = [id |-> id, epoch |-> d.epoch]
    BY <1>1, <1>3, <1>4, <1>6 DEF Auth
  <1> QED BY <1>1, <1>3, <1>4, <1>6, <1>7, Binding

LEMMA Rotates ==
  ASSUME BoundOK, NEW id \in Id, disp[id] # None, ReauthorizeDispatch(id)
  PROVE  BoundOK'
  <1>1. card[disp[id].task].bound = Auth(id)
    BY DEF ReauthorizeDispatch
  <1>2. disp[id] \in Dispatch /\ disp[id].task \in Card /\ DOMAIN card = Card
        /\ {"rev", "bound"} \subseteq DOMAIN card[disp[id].task]
    BY <1>1, Rounds
  <1>3. PICK c \in Card : c = disp[id].task
    BY <1>2
  <1> DEFINE d == [disp[id] EXCEPT !.state = "prepared", !.epoch = @ + 1, !.fenced = Fenced(id)]
  <1>4. d \in Dispatch /\ d.task = disp[id].task
    <2>1. Fenced(id) \in SUBSET Nat /\ disp[id].epoch + 1 \in Nat
      BY <1>2 DEF Dispatch, Fenced
    <2> QED BY <1>2, <2>1 DEF Dispatch, Round
  <1>5. disp' = [disp EXCEPT ![id] = d]
    BY DEF ReauthorizeDispatch, BoundOK
  <1>6. card' = [card EXCEPT ![c].rev = @ + 1, ![c].bound = Auth(id)']
    BY <1>3 DEF ReauthorizeDispatch
  <1> HIDE DEF d
  <1>7. Auth(id)' = [id |-> id, epoch |-> d.epoch]
    BY <1>5 DEF Auth, BoundOK
  <1>8. /\ DOMAIN card' = Card /\ \A x \in Card \ {c} : card'[x] = card[x]
        /\ {"rev", "bound"} \subseteq DOMAIN card'[c] /\ card'[c].bound = [id |-> id, epoch |-> d.epoch]
    BY <1>2, <1>3, <1>6, <1>7
  <1> QED BY <1>1, <1>3, <1>4, <1>5, <1>8, Binding

LEMMA Releases ==
  ASSUME BoundOK, NEW id \in Id, disp[id] # None, NEW s \in {"failed", "cancelled"},
         EndDispatch(id, s)
  PROVE  BoundOK'
  <1>1. card[disp[id].task].bound = Auth(id)
    BY DEF EndDispatch
  <1>2. disp[id] \in Dispatch /\ disp[id].task \in Card /\ DOMAIN card = Card
        /\ {"rev", "bound"} \subseteq DOMAIN card[disp[id].task]
    BY <1>1, Rounds
  <1>3. PICK c \in Card : c = disp[id].task
    BY <1>2
  <1> DEFINE d == [disp[id] EXCEPT !.state = s]
  <1>4. d \in Dispatch /\ d.task = disp[id].task
    BY <1>2 DEF Dispatch, Round, Terminal
  <1>5. disp' = [disp EXCEPT ![id] = d]
    BY DEF EndDispatch, BoundOK
  <1> HIDE DEF d
  <1>6. /\ DOMAIN card' = Card /\ \A x \in Card \ {c} : card'[x] = card[x]
        /\ {"rev", "bound"} \subseteq DOMAIN card'[c] /\ card'[c].bound = Unbound
    BY <1>2, <1>3 DEF EndDispatch
  <1> QED BY <1>1, <1>3, <1>4, <1>5, <1>6, Binding

LEMMA Archives ==
  ASSUME BoundOK, NEW c \in Card, Archive(c)
  PROVE  BoundOK'
  <1>1. /\ DOMAIN card' = Card /\ \A x \in Card \ {c} : card'[x] = card[x]
        /\ {"rev", "bound"} \subseteq DOMAIN card'[c] /\ card'[c].bound = card[c].bound
    BY DEF Archive, BoundOK
  <1>2. CASE UNCHANGED disp
    <2>1. \A x \in Card : {"rev", "bound"} \subseteq DOMAIN card'[x] /\ card'[x].bound = card[x].bound
      BY <1>1 DEF BoundOK
    <2> QED BY <1>1, <1>2, <2>1, Untouched
  <1>3. CASE disp' # disp
    <2>1. /\ card[c].bound.id # None
          /\ disp' = [disp EXCEPT ![card[c].bound.id].state = "cancelled"]
      BY <1>3 DEF Archive
    <2>2. card[c].bound # Unbound
      BY <2>1 DEF Unbound
    <2>3. PICK id \in Id : Bound(c, id)
      BY <2>2 DEF BoundOK
    <2>4. card[c].bound.id = id /\ card[c].bound = Auth(id) /\ disp[id] # None /\ disp[id].task = c
      BY <2>3 DEF Bound, Auth
    <2> DEFINE d == [disp[id] EXCEPT !.state = "cancelled"]
    <2>5. d \in Dispatch /\ d.task = disp[id].task /\ d.epoch = disp[id].epoch
      BY <2>4 DEF BoundOK, Dispatch, Round, Terminal
    <2>6. disp' = [disp EXCEPT ![id] = d]
      BY <2>1, <2>4 DEF BoundOK
    <2> HIDE DEF d
    <2>7. card'[c].bound = [id |-> id, epoch |-> d.epoch]
      BY <1>1, <2>4, <2>5 DEF Auth
    <2>8. /\ \A x \in Card \ {d.task} : card'[x] = card[x]
          /\ {"rev", "bound"} \subseteq DOMAIN card'[d.task]
          /\ card'[d.task].bound = [id |-> id, epoch |-> d.epoch]
          /\ card[disp[id].task].bound = Auth(id)
      BY <1>1, <2>4, <2>5, <2>7
    <2> QED BY <1>1, <2>4, <2>5, <2>6, <2>8, Binding
  <1> QED BY <1>2, <1>3

-----------------------------------------------------------------------------
(* The whole system.                                                         *)

LEMMA Board == ASSUME IInv, Produce PROVE IInv'
  <1>1. UNCHANGED <<checkpoint, file, pc>>
    BY DEF Produce, Start, Deliver, Claim, Archive, Regroup, GitChanges, prepareDispatch, Accept,
           Complete, ReauthorizeDispatch, EndDispatch, Edit, sessions
  <1>2. ClaimsOK'
    <2>1. group' \subseteq Card
      BY DEF Produce, Start, Deliver, Claim, Archive, Regroup, GitChanges, prepareDispatch, Accept,
             Complete, ReauthorizeDispatch, EndDispatch, board, IInv, ClaimsOK
    <2> QED BY <1>1, <2>1 DEF IInv, ClaimsOK
  <1>3. BoundOK'
    <2>1. CASE \E c \in Card : Start(c) \/ Deliver(c) \/ Claim(c) \/ Regroup(c) \/ GitChanges(c)
      BY <2>1, CardCommands DEF IInv
    <2>2. CASE \E c \in Card : Archive(c)
      BY <2>2, Archives DEF IInv
    <2>3. CASE \E c \in Card, id \in Id, kind \in {"fix", "wrap-up"} : prepareDispatch(c, id, kind)
      BY <2>3, Prepares DEF IInv
    <2>4. CASE \E id \in Id : disp[id] # None /\ (Accept(id) \/ \E g \in Commit : Complete(id, g))
      BY <2>4, Receipts DEF IInv
    <2>5. CASE \E id \in Id : disp[id] # None /\ ReauthorizeDispatch(id)
      BY <2>5, Rotates DEF IInv
    <2>6. CASE \E id \in Id : disp[id] # None /\ \E s \in {"failed", "cancelled"} : EndDispatch(id, s)
      BY <2>6, Releases DEF IInv
    <2> QED BY <2>1, <2>2, <2>3, <2>4, <2>5, <2>6 DEF Produce
  <1> QED BY <1>2, <1>3 DEF IInv

LEMMA Commands == ASSUME IInv, NEW k \in Session, Coordinate(k) PROVE IInv'
  <1>1. UNCHANGED <<card, disp, group>>
    BY DEF Coordinate, WriteClaim, ClaimCoordinator, Observe, Collect, Verify, Reconcile, Stop, board
  <1>2. BoundOK' /\ group' \subseteq Card
    BY <1>1 DEF IInv, BoundOK, Bound, Auth, ClaimsOK
  <1>3. DOMAIN pc' = Session
    BY DEF Coordinate, WriteClaim, ClaimCoordinator, Observe, Collect, Verify, Reconcile, Stop, Goto,
           IInv, ClaimsOK
  <1>4. ClaimsOK'
    <2>1. CASE WriteClaim(k)
      <3>1. /\ UNCHANGED checkpoint /\ DOMAIN file' = Session
            /\ \A j \in Session \ {k} : file'[j] = file[j]
            /\ {"rev", "done"} \subseteq DOMAIN file'[k]
            /\ file'[k].rev = checkpoint.rev /\ file'[k].done = FALSE
        BY <2>1 DEF WriteClaim, IInv, ClaimsOK
      <3> QED BY <1>2, <1>3, <3>1 DEF IInv, ClaimsOK
    <2>2. CASE ClaimCoordinator(k)
      <3>1. /\ checkpoint'.rev = file[k].rev + 1 /\ {"rev", "owner", "members"} \subseteq DOMAIN checkpoint'
            /\ file[k] # None /\ file[k].rev = checkpoint.rev
        BY <2>2 DEF ClaimCoordinator, ClaimExpected
      <3>2. file' = [file EXCEPT ![k].done = TRUE]
        BY <2>2 DEF ClaimCoordinator
      <3>3. /\ DOMAIN file' = Session /\ \A j \in Session \ {k} : file'[j] = file[j]
            /\ {"rev", "done"} \subseteq DOMAIN file'[k] /\ file'[k].rev = file[k].rev
        BY <3>1, <3>2 DEF IInv, ClaimsOK
      <3>4. checkpoint.rev \in Nat /\ checkpoint'.rev = checkpoint.rev + 1
        BY <3>1 DEF IInv, ClaimsOK
      <3>5. ASSUME NEW j \in Session, file'[j] # None
            PROVE  /\ {"rev", "done"} \subseteq DOMAIN file'[j] /\ file'[j].rev \in Nat
                   /\ file'[j].done => file'[j].rev < checkpoint'.rev
        BY <3>1, <3>3, <3>4, <3>5 DEF IInv, ClaimsOK
      <3> QED BY <1>2, <1>3, <3>1, <3>3, <3>4, <3>5 DEF ClaimsOK
    <2>3. CASE Observe(k) \/ Collect(k) \/ Verify(k) \/ Stop(k)
      <3>1. UNCHANGED <<checkpoint, file>>
        BY <2>3 DEF Observe, Collect, Verify, Stop
      <3> QED BY <1>2, <1>3, <3>1 DEF IInv, ClaimsOK
    <2>4. CASE Reconcile(k)
      <3>1. UNCHANGED file /\ checkpoint'.rev \in {checkpoint.rev, checkpoint.rev + 1}
            /\ {"rev", "owner", "members"} \subseteq DOMAIN checkpoint'
        BY <2>4 DEF Reconcile, IInv, ClaimsOK
      <3> QED BY <1>2, <1>3, <3>1 DEF IInv, ClaimsOK
    <2> QED BY <2>1, <2>2, <2>3, <2>4 DEF Coordinate
  <1> QED BY <1>2, <1>4 DEF IInv

LEMMA InvInit == Init => IInv
  BY DEF Init, IInv, BoundOK, ClaimsOK, NoCheckpoint

\* Every binding names a dispatch of its card at its present epoch, and an
\* executed claim file is behind the checkpoint (prepareDispatch, ClaimCoordinator).
THEOREM Invariant == Spec => []IInv
  <1>1. IInv /\ [Next]_vars => IInv'
    <2> SUFFICES ASSUME IInv, [Next]_vars PROVE IInv'
      OBVIOUS
    <2>1. CASE UNCHANGED vars
      BY <2>1 DEF vars, board, sessions, IInv, BoundOK, Bound, Auth, ClaimsOK
    <2> QED BY <2>1, Board, Commands DEF Next
  <1> QED BY <1>1, InvInit, PTL DEF Spec

\* Only a reconciliation publishes, and only one that commits.
LEMMA Publishing ==
  ASSUME IInv, [Next]_vars, NEW k \in Session, Publishes(k)
  PROVE  Reconcile(k) /\ Valid(k) /\ checkpoint' = [checkpoint EXCEPT
           !.rev = @ + 1, !.last = req[k],
           !.members = [c \in Members |-> NextMember(c, checkpoint.members[c], req[k].seen[c])]]
  <1>1. checkpoint' # checkpoint /\ pc'[k] # pc[k]
    BY DEF Publishes
  <1>2. ~Produce /\ ~UNCHANGED vars
    BY <1>1 DEF Produce, Start, Deliver, Claim, Archive, Regroup, GitChanges, prepareDispatch, Accept,
           Complete, ReauthorizeDispatch, EndDispatch, Edit, vars
  <1>3. PICK j \in Session : Coordinate(j)
    BY <1>2 DEF Next
  <1>4. Reconcile(j)
    BY <1>1, <1>3 DEF Coordinate, WriteClaim, ClaimCoordinator, Observe, Collect, Verify, Stop
  <1>5. j = k
    BY <1>1, <1>4 DEF Reconcile, Goto, IInv, ClaimsOK
  <1>6. Reconcile(k)
    BY <1>4, <1>5
  <1> QED BY <1>1, <1>6 DEF Reconcile

\* Who owns the checkpoint changes in a claim only, which finds the file current.
LEMMA Owners ==
  ASSUME IInv, [Next]_vars, NEW k \in Session, file[k] # None, file[k].done, checkpoint'.owner = k
  PROVE  checkpoint.owner = k
  <1>1. CASE UNCHANGED checkpoint
    BY <1>1
  <1>2. CASE checkpoint' # checkpoint
    <2>1. ~Produce /\ ~UNCHANGED vars
      BY <1>2 DEF Produce, Start, Deliver, Claim, Archive, Regroup, GitChanges, prepareDispatch,
             Accept, Complete, ReauthorizeDispatch, EndDispatch, Edit, vars
    <2>2. PICK j \in Session : ClaimCoordinator(j) \/ Reconcile(j)
      BY <1>2, <2>1 DEF Next, Coordinate, WriteClaim, Observe, Collect, Verify, Stop
    <2>3. CASE Reconcile(j)
      BY <1>2, <2>3 DEF Reconcile, IInv, ClaimsOK
    <2>4. CASE ClaimCoordinator(j)
      <3>1. file[j].rev = checkpoint.rev /\ checkpoint'.owner = j
        BY <2>4 DEF ClaimCoordinator, ClaimExpected
      <3>2. file[k].rev < checkpoint.rev /\ checkpoint.rev \in Nat
        BY DEF IInv, ClaimsOK
      <3> QED BY <3>1, <3>2
    <2> QED BY <2>2, <2>3, <2>4
  <1> QED BY <1>1, <1>2

\* Only the session of the newest epoch publishes, and an executed claim file
\* never wins a second time (reconcileCheckpoint, ClaimCoordinator).
THEOREM EpochsFence == Spec => EpochFences
  <1>1. IInv /\ [Next]_vars =>
          [\A k \in Session :
            /\ Publishes(k) => checkpoint.owner = k /\ checkpoint.epoch = req[k].epoch
            /\ file[k] # None /\ file[k].done /\ checkpoint'.owner = k => checkpoint.owner = k]_vars
    BY Publishing, Owners DEF Valid, Authority
  <1> QED BY <1>1, Invariant, PTL DEF Spec, EpochFences

\* The member that is published is the card as it is and as it was observed.
LEMMA Present ==
  ASSUME IInv, NEW c \in Card, NEW old, NEW o, Acceptable(c, old, o)
  PROVE  LET m == NextMember(c, old, o) IN
         /\ m.rev = card[c].rev /\ m.rev = o.rev /\ m.place = card[c].place
         /\ IF m.dispatch = None THEN o.id = None /\ card[c].bound = Unbound
            ELSE o.id = m.dispatch.id /\ m.dispatch.state = disp[o.id].state
                 /\ card[c].bound = [id |-> o.id, epoch |-> m.dispatch.epoch]
  <1> DEFINE m == NextMember(c, old, o)
             id == card[c].bound.id
  <1>1. m.rev = card[c].rev /\ m.rev = o.rev /\ m.place = card[c].place
    BY DEF NextMember, Acceptable, Expect
  <1>2. m.dispatch = IF id = None THEN None
                     ELSE [id |-> id, epoch |-> disp[id].epoch, state |-> disp[id].state]
    BY DEF NextMember
  <1>3. CASE card[c].bound = Unbound
    <2>1. id = None /\ o.id = None
      BY <1>3 DEF Unbound, Acceptable, UnboundRound
    <2> QED BY <1>1, <1>2, <1>3, <2>1
  <1>4. CASE card[c].bound # Unbound
    <2>1. PICK j \in Id : Bound(c, j)
      BY <1>4 DEF IInv, BoundOK
    <2>2. id = j /\ card[c].bound = [id |-> j, epoch |-> disp[j].epoch] /\ disp[j] \in Dispatch
      BY <2>1 DEF Bound, Auth, IInv, BoundOK
    <2>3. m.dispatch = [id |-> j, epoch |-> disp[j].epoch, state |-> disp[j].state]
      BY <1>2, <2>2, CoordinatorAssumption
    <2>4. m.dispatch \in Dispatched
      BY <2>2, <2>3 DEF Dispatch, Dispatched
    <2>5. o.id = j
      BY <1>4, <2>2 DEF Acceptable, BoundRound
    <2> QED BY <1>1, <2>2, <2>3, <2>4, <2>5, NoneAssumption
  <1> QED BY <1>3, <1>4

LEMMA PresentStep ==
  ASSUME IInv, [Next]_vars, NEW k \in Session, Publishes(k), NEW c \in Members
  PROVE  LET m == checkpoint'.members[c]  o == req[k].seen[c] IN
         /\ m.rev = card[c].rev /\ m.rev = o.rev /\ m.place = card[c].place
         /\ group = Members
         /\ IF m.dispatch = None THEN o.id = None /\ card[c].bound = Unbound
            ELSE o.id = m.dispatch.id /\ m.dispatch.state = disp[o.id].state
                 /\ card[c].bound = [id |-> o.id, epoch |-> m.dispatch.epoch]
  <1>1. checkpoint'.members[c] = NextMember(c, checkpoint.members[c], req[k].seen[c])
    <2> DEFINE next == [x \in Members |-> NextMember(x, checkpoint.members[x], req[k].seen[x])]
    <2>1. checkpoint' = [checkpoint EXCEPT !.rev = @ + 1, !.last = req[k], !.members = next]
      BY Publishing
    <2>2. next[c] = NextMember(c, checkpoint.members[c], req[k].seen[c])
      OBVIOUS
    <2> HIDE DEF next
    <2>3. checkpoint'.members = next
      BY <2>1 DEF IInv, ClaimsOK
    <2> QED BY <2>2, <2>3
  <1>2. group = Members /\ Acceptable(c, checkpoint.members[c], req[k].seen[c])
    BY Publishing DEF Valid
  <1>3. c \in Card
    BY <1>2 DEF IInv, ClaimsOK
  <1> QED BY <1>1, <1>2, <1>3, Present

\* A published checkpoint is the state of all members at one moment, and what its
\* request observed (ReconcileCoordinator).
THEOREM PublishesPresent == Spec => CommitsPresent
  <1>1. IInv /\ [Next]_vars =>
          [\A k \in Session : Publishes(k) =>
            \A c \in Members :
              LET m == checkpoint'.members[c]
                  o == req[k].seen[c] IN
              /\ m.rev = card[c].rev /\ m.rev = o.rev /\ m.place = card[c].place
              /\ group = Members
              /\ IF m.dispatch = None THEN o.id = None /\ card[c].bound = Unbound
                 ELSE o.id = m.dispatch.id /\ m.dispatch.state = disp[o.id].state
                      /\ card[c].bound = [id |-> o.id, epoch |-> m.dispatch.epoch]]_vars
    BY PresentStep
  <1> QED BY <1>1, Invariant, PTL DEF Spec, CommitsPresent

-----------------------------------------------------------------------------
(* What an honest session finds.  An execution cycle left by a claim over a  *)
(* release has its record; if it always was so (the card is not forced), the *)
(* records are 1 -> 2 -> .. -> cycle, and those a checkpoint retained are a  *)
(* piece of them that ends at its own cycle (Unbroken, CopiedFrom).  A round *)
(* is bound, or completed, or released, and what a checkpoint knows of it is *)
(* its present or a fenced epoch (DispatchOK, RoundKnown).                   *)

Place == {"todo", "working", "review", "done", "archived"}
Release == [id : Id, cycle : Nat, rev : Nat]
Handoff == [old : Nat, new : Nat, id : Id, rev : Nat]
CardRec == [ rev : Nat, place : Place, cycle : Nat, bound : [id : Id \cup {None}, epoch : Nat],
             releases : SUBSET Release, handoffs : Seq(Handoff) ]

Lives(x) ==
  /\ x.place = "todo" <=> x.cycle = 0
  /\ x.cycle = 0 => x.bound = Unbound
  /\ \A r \in x.releases : r.rev <= x.rev
  /\ \A i \in 1 .. Len(x.handoffs) : x.handoffs[i].old >= 1
Linked(x, i) ==
  LET h == x.handoffs[i] IN
  /\ h.old = i /\ h.new = i + 1
  /\ \E r \in x.releases : r.cycle = i /\ r.id = h.id /\ r.rev < h.rev
Unbroken(x) ==
  /\ Len(x.handoffs) = IF x.cycle = 0 THEN 0 ELSE x.cycle - 1
  /\ \A i \in 1 .. Len(x.handoffs) : Linked(x, i)
CardOK(x, f) == x \in CardRec /\ Lives(x) /\ (~f => Unbroken(x))

\* d is the state of a dispatch of card x.
DispatchOK(id, d, x) ==
  /\ d.state \notin Terminal =>
       x.bound = [id |-> id, epoch |-> d.epoch] /\ x.place # "archived"
  /\ x.bound.id = id =>
       /\ x.bound.epoch = d.epoch
       /\ d.state \in {"failed", "cancelled"} => x.place = "archived"
       /\ d.kind = "wrap-up" /\ d.state = "completed" => x.place \in {"done", "archived"}
  /\ x.bound.id # id => d.state = "completed" \/ \E r \in x.releases : r.id = id

\* What a member says of its round, d being the round's state.
Knows(r, d) ==
  \/ r.epoch = d.epoch /\ (r.state \in Terminal => d.state = r.state)
  \/ r.epoch < d.epoch /\ r.epoch \in d.fenced
RoundKnown(c, r) ==
  r \in Dispatched /\ disp[r.id] # None /\ disp[r.id].task = c /\ Knows(r, disp[r.id])
CopiedFrom(m, x) ==
  m.handoffs # <<>> =>
    LET s == m.handoffs[1].old IN
    /\ s >= 1 /\ Len(m.handoffs) = m.cycle - s
    /\ \A i \in 1 .. Len(m.handoffs) : m.handoffs[i] = x.handoffs[s + i - 1]
MemberType(m) ==
  /\ m.rev \in Nat /\ m.cycle \in Nat /\ m.awaiting \in BOOLEAN /\ m.handoffs \in Seq(Handoff)
  /\ m.awaiting => m.cycle = 0
  /\ m.cycle = 0 => /\ m.place = "todo" /\ m.dispatch = None /\ m.delivery = None
                    /\ m.handoffs = <<>>
MemberOK(c, m) ==
  /\ MemberType(m)
  /\ m.rev <= card[c].rev /\ (m.rev = card[c].rev => m.cycle = card[c].cycle)
  /\ m.cycle <= card[c].cycle
  /\ \A id \in m.released : \E r \in card[c].releases : r.id = id
  /\ m.dispatch # None => RoundKnown(c, m.dispatch)
  /\ c \notin forced => CopiedFrom(m, card[c])

CardsOK == DOMAIN card = Card /\ \A c \in Card : CardOK(card[c], c \in forced)
DispatchesOK == \A id \in Id : disp[id] # None => DispatchOK(id, disp[id], card[disp[id].task])
MembersOK ==
  Claimed => Members \subseteq Card /\ \A c \in Members : MemberOK(c, checkpoint.members[c])
RequestsOK ==
  /\ DOMAIN req = Session
  /\ \A k \in Session : req[k] # None =>
       \A c \in DOMAIN req[k].seen : req[k].seen[c].commit \in Commit \cup {None}
CInv == IInv /\ CardsOK /\ DispatchesOK /\ MembersOK /\ RequestsOK

-----------------------------------------------------------------------------
(* The records of a card.                                                    *)

LinksOf(hs, from) ==
  LET first == SelectInSeq(hs, LAMBDA h : h.old = from) IN
  IF first = 0 THEN <<>> ELSE SubSeq(hs, first, Len(hs))

LEMMA NoLinks ==
  ASSUME NEW hs, NEW from, \A i \in 1 .. Len(hs) : hs[i].old # from
  PROVE  LinksOf(hs, from) = <<>>
BY DEF LinksOf, SelectInSeq

LEMMA LinksFrom ==
  ASSUME NEW hs \in Seq(Handoff), \A i \in 1 .. Len(hs) : hs[i].old = i,
         NEW from \in 1 .. Len(hs)
  PROVE  /\ LinksOf(hs, from) \in Seq(Handoff)
         /\ Len(LinksOf(hs, from)) = Len(hs) - from + 1
         /\ \A i \in 1 .. Len(hs) - from + 1 : LinksOf(hs, from)[i] = hs[from + i - 1]
<1> DEFINE I == {i \in 1 .. Len(hs) : hs[i].old = from}
<1>1. SelectInSeq(hs, LAMBDA h : h.old = from) = IF I # {} THEN Min(I) ELSE 0
  BY DEF SelectInSeq
<1>2. I = {from} OBVIOUS
<1>3. Min({from}) = from BY DEF Min
<1>4. LinksOf(hs, from) = SubSeq(hs, from, Len(hs))
  <2>1. SelectInSeq(hs, LAMBDA h : h.old = from) = from
    <3> HIDE DEF I
    <3> QED BY <1>1, <1>2, <1>3
  <2>2. from # 0 OBVIOUS
  <2> QED BY <2>1, <2>2 DEF LinksOf
<1>5. Len(hs) \in Nat /\ \A i \in from .. Len(hs) : hs[i] \in Handoff OBVIOUS
<1> QED BY <1>4, <1>5, SubSeqProperties

LEMMA LinksAre == \A c, from : Links(c, from) = LinksOf(card[c].handoffs, from)
BY DEF Links, LinksOf

LEMMA LinkBy ==
  ASSUME NEW x \in CardRec, Lives(x)
  PROVE  /\ x.handoffs \in Seq(Handoff) /\ Len(x.handoffs) \in Nat
         /\ x.rev \in Nat /\ x.cycle \in Nat /\ x.place \in Place
         /\ x.releases \subseteq Release
         /\ LinksOf(x.handoffs, 0) = <<>>
<1>1. \A i \in 1 .. Len(x.handoffs) : x.handoffs[i].old # 0
  BY DEF Lives
<1> QED BY <1>1, NoLinks DEF CardRec

\* What the records of a card that was never claimed without a release give.
LEMMA Chain ==
  ASSUME NEW c \in Card, CardOK(card[c], FALSE), NEW from \in Nat, from >= 1, from < card[c].cycle
  PROVE  /\ Chained(c, from) /\ Links(c, from) \in Seq(Handoff)
         /\ Len(Links(c, from)) = card[c].cycle - from
         /\ \A i \in 1 .. card[c].cycle - from : Links(c, from)[i] = card[c].handoffs[from + i - 1]
  <1>1. PICK x \in CardRec : x = card[c] /\ Lives(x) /\ Unbroken(x)
    BY DEF CardOK
  <1>2. PICK n \in Nat, hs \in Seq(Handoff) : n = x.cycle /\ hs = x.handoffs
    BY <1>1, LinkBy
  <1>3. from < n /\ Len(hs) = n - 1 /\ from \in 1 .. Len(hs)
    BY <1>1, <1>2 DEF Unbroken
  <1>4. \A i \in 1 .. Len(hs) : /\ hs[i].old = i /\ hs[i].new = i + 1
                                /\ \E r \in x.releases : r.cycle = i /\ r.id = hs[i].id /\ r.rev < hs[i].rev
    BY <1>1, <1>2 DEF Unbroken, Linked
  <1>5. Len(hs) - from + 1 = n - from
    BY <1>3
  <1>6. PICK ls \in Seq(Handoff) : ls = Links(c, from) /\ Len(ls) = n - from
                                 /\ \A i \in 1 .. n - from : ls[i] = hs[from + i - 1]
    <2>1. \A i \in 1 .. Len(hs) : hs[i].old = i
      BY <1>4
    <2>2. Links(c, from) = LinksOf(hs, from)
      BY <1>1, <1>2, LinksAre
    <2> QED BY <2>1, <2>2, <1>3, <1>5, LinksFrom
  <1>7. Len(ls) \in Nat /\ Len(ls) >= 1 /\ Len(ls) \in 1 .. Len(ls) /\ from + Len(ls) = n
    BY <1>3, <1>6
  <1>8. \A i \in 1 .. Len(ls) : /\ from + i - 1 \in 1 .. Len(hs) /\ ls[i] = hs[from + i - 1]
                                /\ ls[i].old = from + i - 1 /\ ls[i].new = from + i
    BY <1>3, <1>4, <1>6
  <1>9. ls # <<>> /\ ls[Len(ls)].new = n
    BY <1>7, <1>8
  <1>10. \A i \in 2 .. Len(ls) : ls[i].old = ls[i - 1].new
    <2>1. ASSUME NEW i \in 2 .. Len(ls) PROVE ls[i].old = ls[i - 1].new
      <3>1. i \in 1 .. Len(ls) /\ i - 1 \in 1 .. Len(ls)
        BY <1>7
      <3>2. ls[i].old = from + i - 1 /\ ls[i - 1].new = from + (i - 1)
        BY <1>8, <3>1
      <3> QED BY <3>2
    <2> QED BY <2>1
  <1>11. \A i \in 1 .. Len(ls) : \E r \in x.releases :
           r.cycle = ls[i].old /\ r.id = ls[i].id /\ r.rev < ls[i].rev
    <2>1. ASSUME NEW i \in 1 .. Len(ls)
          PROVE  \E r \in x.releases : r.cycle = ls[i].old /\ r.id = ls[i].id /\ r.rev < ls[i].rev
      <3>1. PICK j \in 1 .. Len(hs) : ls[i] = hs[j] /\ ls[i].old = j
        BY <1>8
      <3> QED BY <1>4, <3>1
    <2> QED BY <2>1
  <1>12. Chained(c, from)
    BY <1>1, <1>2, <1>6, <1>9, <1>10, <1>11 DEF Chained
  <1> QED BY <1>1, <1>2, <1>6, <1>12

-----------------------------------------------------------------------------
(* The steps of the board.                                                   *)

Grows(x, y) ==
  /\ x.rev < y.rev /\ x.cycle <= y.cycle /\ x.releases \subseteq y.releases
  /\ \A i \in 1 .. Len(x.handoffs) : y.handoffs[i] = x.handoffs[i]
Follows(d, e) == e.task = d.task /\ \A r \in Dispatched : Knows(r, d) => Knows(r, e)

\* A member stays true of a card that goes on.
LEMMA MemberStays ==
  ASSUME NEW c \in Card, NEW m, MemberOK(c, m), CardOK(card[c], c \in forced),
         CardOK(card'[c], c \in forced'), card'[c] = card[c] \/ Grows(card[c], card'[c]),
         forced \subseteq forced',
         \A id \in Id : disp[id] # None => disp'[id] # None /\ Follows(disp[id], disp'[id])
  PROVE  MemberOK(c, m)'
  <1>1. PICK x \in CardRec, y \in CardRec : x = card[c] /\ y = card'[c] /\ (y = x \/ Grows(x, y))
    BY DEF CardOK
  <1>2. x.rev \in Nat /\ y.rev \in Nat /\ x.cycle \in Nat /\ y.cycle \in Nat
        /\ m.rev \in Nat /\ m.cycle \in Nat /\ MemberType(m)
    BY DEF CardRec, MemberOK, MemberType
  <1>3. /\ m.rev <= x.rev /\ (m.rev = x.rev => m.cycle = x.cycle) /\ m.cycle <= x.cycle
        /\ \A id \in m.released : \E r \in x.releases : r.id = id
        /\ c \notin forced => CopiedFrom(m, x)
    BY <1>1 DEF MemberOK
  <1>4. /\ m.rev <= y.rev /\ (m.rev = y.rev => m.cycle = y.cycle) /\ m.cycle <= y.cycle
        /\ \A id \in m.released : \E r \in y.releases : r.id = id
    <2>1. CASE y = x
      BY <1>3, <2>1
    <2>2. CASE Grows(x, y)
      BY <1>2, <1>3, <2>2 DEF Grows
    <2> QED BY <1>1, <2>1, <2>2
  <1>5. m.dispatch # None => RoundKnown(c, m.dispatch)'
    <2>1. CASE m.dispatch # None
      <3>1. RoundKnown(c, m.dispatch)
        BY <2>1 DEF MemberOK
      <3>2. m.dispatch.id \in Id
        BY <3>1 DEF RoundKnown, Dispatched
      <3> QED BY <3>1, <3>2 DEF RoundKnown, Follows
    <2> QED BY <2>1
  <1>6. c \notin forced' => CopiedFrom(m, y)
    <2> SUFFICES ASSUME c \notin forced', m.handoffs # <<>>, y # x PROVE CopiedFrom(m, y)
      BY <1>3 DEF CopiedFrom
    <2>1. c \notin forced /\ CopiedFrom(m, x) /\ Unbroken(x) /\ Grows(x, y)
      BY <1>1, <1>3 DEF CardOK
    <2>2. PICK hs \in Seq(Handoff), ms \in Seq(Handoff) : hs = x.handoffs /\ ms = m.handoffs
      BY <1>2 DEF CardRec, MemberType
    <2>3. ms # <<>> /\ Len(ms) \in Nat /\ Len(ms) >= 1 /\ ms[1].old \in Nat
      <3>1. Len(ms) \in Nat /\ Len(ms) >= 1
        BY <2>2, EmptySeq
      <3>2. ms[1] \in Handoff
        BY <3>1, ElementOfSeq
      <3> QED BY <2>2, <3>1, <3>2 DEF Handoff
    <2>4. PICK s \in Nat : s = ms[1].old
      BY <2>3
    <2>5. s >= 1 /\ Len(ms) = m.cycle - s /\ \A i \in 1 .. Len(ms) : ms[i] = hs[s + i - 1]
      BY <2>1, <2>2, <2>4 DEF CopiedFrom
    <2>6. Len(hs) = x.cycle - 1
      BY <1>2, <1>3, <2>1, <2>2, <2>3, <2>5 DEF Unbroken
    <2>7. \A i \in 1 .. Len(ms) : s + i - 1 \in 1 .. Len(hs)
      BY <1>2, <1>3, <2>3, <2>5, <2>6
    <2>8. \A i \in 1 .. Len(hs) : y.handoffs[i] = hs[i]
      BY <2>1, <2>2 DEF Grows
    <2>9. \A i \in 1 .. Len(ms) : ms[i] = y.handoffs[s + i - 1]
      BY <2>5, <2>7, <2>8
    <2> QED BY <2>2, <2>4, <2>5, <2>9 DEF CopiedFrom
  <1> QED BY <1>1, <1>2, <1>4, <1>5, <1>6 DEF MemberOK

LEMMA MembersStay ==
  ASSUME CInv, UNCHANGED checkpoint, CardsOK',
         \A c \in Card : card'[c] = card[c] \/ Grows(card[c], card'[c]),
         forced \subseteq forced',
         \A id \in Id : disp[id] # None => disp'[id] # None /\ Follows(disp[id], disp'[id])
  PROVE  MembersOK'
  <1> SUFFICES ASSUME Claimed', NEW c \in Members' PROVE c \in Card /\ MemberOK(c, checkpoint.members[c])'
    BY DEF MembersOK
  <1>1. Claimed /\ c \in Members /\ c \in Card /\ MemberOK(c, checkpoint.members[c])
    BY DEF CInv, MembersOK, Claimed, Members
  <1>2. CardOK(card[c], c \in forced) /\ CardOK(card'[c], c \in forced')
    BY <1>1 DEF CInv, CardsOK
  <1>3. PICK m : m = checkpoint.members[c]
    OBVIOUS
  <1>4. MemberOK(c, m)'
    BY <1>1, <1>2, <1>3, MemberStays
  <1> QED BY <1>1, <1>3, <1>4

\* A step about one card and at most one dispatch of it.
LEMMA BoardKeeps ==
  ASSUME CInv, IInv', UNCHANGED <<checkpoint, req>>, NEW c \in Card, NEW y,
         card' = [card EXCEPT ![c] = y], CardOK(y, c \in forced'), Grows(card[c], y),
         forced \subseteq forced', forced' \subseteq forced \cup {c},
         \A id \in Id : disp[id] # None => disp'[id] # None /\ Follows(disp[id], disp'[id]),
         \A id \in Id : disp'[id] # None =>
           IF disp'[id].task = c THEN DispatchOK(id, disp'[id], y) ELSE disp'[id] = disp[id]
  PROVE  CInv'
  <1>1. DOMAIN card = Card
    BY DEF CInv, CardsOK
  <1>2. card'[c] = y /\ DOMAIN card' = Card /\ \A x \in Card \ {c} : card'[x] = card[x]
    BY <1>1
  <1>3. CardsOK'
    <2>1. ASSUME NEW x \in Card, x # c PROVE CardOK(card'[x], x \in forced')
      <3>1. CardOK(card[x], x \in forced) /\ card'[x] = card[x] /\ (x \in forced <=> x \in forced')
        BY <1>2, <2>1 DEF CInv, CardsOK
      <3> QED BY <3>1 DEF CardOK
    <2> QED BY <1>2, <2>1 DEF CardsOK
  <1>4. DispatchesOK'
    <2>1. ASSUME NEW id \in Id, disp'[id] # None
          PROVE  DispatchOK(id, disp'[id], card'[disp'[id].task])
      <3>1. CASE disp'[id].task = c
        BY <1>2, <2>1, <3>1
      <3>2. CASE disp'[id].task # c
        <4>1. disp'[id] = disp[id] /\ DispatchOK(id, disp[id], card[disp[id].task])
          BY <2>1, <3>2 DEF CInv, DispatchesOK
        <4>2. disp'[id] \in Dispatch
          BY <2>1 DEF IInv, BoundOK
        <4>3. disp[id].task \in Card \ {c}
          BY <3>2, <4>1, <4>2 DEF Dispatch
        <4> QED BY <1>2, <4>1, <4>3
      <3> QED BY <3>1, <3>2
    <2> QED BY <2>1 DEF DispatchesOK
  <1>5. MembersOK'
    BY <1>2, <1>3, MembersStay
  <1>6. RequestsOK'
    BY DEF CInv, RequestsOK
  <1> QED BY <1>3, <1>4, <1>5, <1>6 DEF CInv

\* A round that is not the bound one, before and after.
LEMMA Aside ==
  ASSUME NEW id \in Id, NEW d, NEW x, NEW y, DispatchOK(id, d, x), x.bound.id # id,
         y.bound.id # id, x.releases \subseteq y.releases
  PROVE  DispatchOK(id, d, y)
  <1>1. d.state \in Terminal
    BY DEF DispatchOK
  <1>2. d.state = "completed" \/ \E r \in y.releases : r.id = id
    BY DEF DispatchOK
  <1> QED BY <1>1, <1>2 DEF DispatchOK

LEMMA Follow == \A d : Follows(d, d)
  BY DEF Follows

\* A command that leaves the rounds of its card alone: the place changes only
\* where no round is bound.
LEMMA CardStep ==
  ASSUME CInv, IInv', UNCHANGED <<checkpoint, req, disp>>, NEW c \in Card, NEW y,
         card' = [card EXCEPT ![c] = y], CardOK(y, c \in forced'), Grows(card[c], y),
         forced \subseteq forced', forced' \subseteq forced \cup {c},
         y.bound = card[c].bound, y.place = card[c].place \/ y.bound = Unbound
  PROVE  CInv'
  <1>1. ASSUME NEW id \in Id, disp[id] # None, disp[id].task = c
        PROVE  DispatchOK(id, disp[id], y)
    <2>1. DispatchOK(id, disp[id], card[c]) /\ card[c].releases \subseteq y.releases
      BY <1>1 DEF CInv, DispatchesOK, Grows
    <2>2. CASE y.bound = Unbound
      <3>1. y.bound.id # id /\ card[c].bound.id # id
        BY <2>2, CoordinatorAssumption DEF Unbound
      <3> QED BY <2>1, <3>1, Aside
    <2>3. CASE y.place = card[c].place
      BY <2>1, <2>3 DEF DispatchOK
    <2> QED BY <2>2, <2>3
  <1>2. \A id \in Id : disp[id] # None => disp'[id] # None /\ Follows(disp[id], disp'[id])
    BY Follow
  <1> QED BY <1>1, <1>2, BoardKeeps

LEMMA CardFacts ==
  ASSUME CInv, NEW c \in Card
  PROVE  /\ card[c] \in CardRec /\ Lives(card[c]) /\ (c \notin forced => Unbroken(card[c]))
         /\ DOMAIN card = Card
  BY DEF CInv, CardsOK, CardOK

\* A card that moves on within its cycle.
Moved(x, p, b) == [x EXCEPT !.rev = @ + 1, !.place = p, !.bound = b]
LEMMA Onward ==
  ASSUME NEW x \in CardRec, Lives(x), NEW p \in Place, NEW b \in [id : Id \cup {None}, epoch : Nat],
         p = "todo" <=> x.place = "todo", x.cycle = 0 => b = Unbound
  PROVE  LET y == Moved(x, p, b) IN
         /\ y \in CardRec /\ Lives(y) /\ (Unbroken(x) => Unbroken(y)) /\ Grows(x, y)
         /\ y.place = p /\ y.bound = b /\ y.releases = x.releases /\ y.cycle = x.cycle
  <1> PICK y : y = Moved(x, p, b)
    OBVIOUS
  <1>1. /\ x.rev \in Nat /\ x.cycle \in Nat /\ x.releases \in SUBSET Release /\ x.handoffs \in Seq(Handoff)
    BY DEF CardRec
  <1>2. /\ y.rev = x.rev + 1 /\ y.place = p /\ y.cycle = x.cycle /\ y.bound = b
        /\ y.releases = x.releases /\ y.handoffs = x.handoffs
    BY DEF CardRec, Moved
  <1>3. y \in CardRec
    <2>1. y = [rev |-> x.rev + 1, place |-> p, cycle |-> x.cycle, bound |-> b,
               releases |-> x.releases, handoffs |-> x.handoffs]
      BY DEF CardRec, Moved
    <2>2. x.rev + 1 \in Nat
      BY <1>1
    <2> QED BY <1>1, <2>1, <2>2 DEF CardRec
  <1>4. Lives(y)
    <2>1. \A r \in x.releases : r.rev \in Nat /\ r.rev <= x.rev
      BY <1>1 DEF Lives, Release
    <2>2. \A r \in y.releases : r.rev <= y.rev
      BY <1>1, <1>2, <2>1
    <2> QED BY <1>1, <1>2, <2>2 DEF Lives
  <1>5. Unbroken(x) => Unbroken(y)
    BY <1>2 DEF Unbroken, Linked
  <1>6. Grows(x, y)
    BY <1>1, <1>2 DEF Grows
  <1> QED BY <1>2, <1>3, <1>4, <1>5, <1>6

LEMMA Starts ==
  ASSUME CInv, IInv', NEW c \in Card, Start(c)
  PROVE  CInv'
  <1>1. PICK x \in CardRec : x = card[c] /\ Lives(x) /\ DOMAIN card = Card
                            /\ (c \notin forced => Unbroken(x))
    BY CardFacts
  <1>2. PICK y : y = [x EXCEPT !.rev = @ + 1, !.place = "working", !.cycle = 1]
                 /\ card' = [card EXCEPT ![c] = y]
    BY <1>1 DEF Start
  <1>3. /\ y.rev = x.rev + 1 /\ y.place = "working" /\ y.cycle = 1 /\ y.bound = x.bound
        /\ y.releases = x.releases /\ y.handoffs = x.handoffs
    BY <1>1, <1>2 DEF CardRec
  <1>4. /\ x.rev \in Nat /\ x.place = "todo" /\ x.cycle = 0 /\ x.bound = Unbound
        /\ UNCHANGED <<disp, forced, checkpoint, req>>
    BY <1>1 DEF Start, Edit, Lives, CardRec, sessions
  <1>5. y \in CardRec
    <2>1. y = [rev |-> x.rev + 1, place |-> "working", cycle |-> 1, bound |-> x.bound,
               releases |-> x.releases, handoffs |-> x.handoffs]
      BY <1>1, <1>2 DEF CardRec
    <2>2. x.rev + 1 \in Nat /\ "working" \in Place
      BY <1>4 DEF Place
    <2>3. x.bound \in [id : Id \cup {None}, epoch : Nat] /\ x.releases \in SUBSET Release
          /\ x.handoffs \in Seq(Handoff)
      BY <1>1 DEF CardRec
    <2> QED BY <2>1, <2>2, <2>3 DEF CardRec
  <1>6. Lives(y)
    <2>1. \A r \in x.releases : r.rev \in Nat /\ r.rev <= x.rev
      BY <1>1 DEF Lives, CardRec, Release
    <2> QED BY <1>1, <1>3, <1>4, <2>1 DEF Lives
  <1>7. CardOK(y, c \in forced')
    <2>1. c \notin forced' => Unbroken(y)
      BY <1>1, <1>3, <1>4 DEF CardOK, Unbroken, Linked
    <2> QED BY <1>5, <1>6, <2>1 DEF CardOK
  <1>8. Grows(x, y)
    BY <1>3, <1>4 DEF Grows
  <1> QED BY <1>1, <1>2, <1>3, <1>4, <1>7, <1>8, CardStep

LEMMA DeliversOrRegroups ==
  ASSUME CInv, IInv', NEW c \in Card, Deliver(c) \/ Regroup(c)
  PROVE  CInv'
  <1>1. PICK x \in CardRec : x = card[c] /\ Lives(x) /\ DOMAIN card = Card
                            /\ (c \notin forced => Unbroken(x))
    BY CardFacts
  <1>2. UNCHANGED <<disp, forced, checkpoint, req>>
    BY DEF Deliver, Regroup, Edit, sessions
  <1>3. PICK b \in [id : Id \cup {None}, epoch : Nat] : b = x.bound
    BY DEF CardRec
  <1>4. PICK p \in Place : /\ (p = "todo" <=> x.place = "todo")
                           /\ p = x.place \/ b = Unbound
                           /\ card' = [card EXCEPT ![c] = Moved(x, p, b)]
    <2>1. CASE Deliver(c)
      <3>1. card' = [card EXCEPT ![c] = [x EXCEPT !.rev = @ + 1, !.place = "review"]]
            /\ x.place = "working" /\ b = Unbound
        BY <1>1, <1>3, <2>1 DEF Deliver
      <3>2. [x EXCEPT !.rev = @ + 1, !.place = "review"] = Moved(x, "review", b)
        BY <1>3 DEF CardRec, Moved
      <3> QED BY <3>1, <3>2 DEF Place
    <2>2. CASE Regroup(c)
      <3>1. card' = [card EXCEPT ![c] = [x EXCEPT !.rev = @ + 1]]
        BY <1>1, <2>2 DEF Regroup
      <3>2. [x EXCEPT !.rev = @ + 1] = Moved(x, x.place, b) /\ x.place \in Place
        BY <1>3 DEF CardRec, Moved
      <3> QED BY <3>1, <3>2
    <2> QED BY <2>1, <2>2
  <1>5. PICK y : y = Moved(x, p, b)
    OBVIOUS
  <1>6. x.cycle = 0 => b = Unbound
    BY <1>1, <1>3 DEF Lives
  <1>7. /\ y \in CardRec /\ Lives(y) /\ (Unbroken(x) => Unbroken(y)) /\ Grows(x, y)
        /\ y.place = p /\ y.bound = b
    BY <1>1, <1>4, <1>5, <1>6, Onward
  <1>8. CardOK(y, c \in forced')
    BY <1>1, <1>2, <1>7 DEF CardOK
  <1> QED BY <1>1, <1>2, <1>3, <1>4, <1>5, <1>7, <1>8, CardStep

\* A step of the round that is bound: it stays bound or is let go.
LEMMA RoundStep ==
  ASSUME CInv, IInv', UNCHANGED <<checkpoint, req, forced>>, NEW id \in Id, NEW c \in Card,
         disp[id] # None, disp[id].task = c, card[c].bound = Auth(id),
         NEW e \in Dispatch, Follows(disp[id], e), disp' = [disp EXCEPT ![id] = e],
         NEW y, card' = [card EXCEPT ![c] = y], CardOK(y, c \in forced), Grows(card[c], y),
         y.bound.id \in {id, None}, DispatchOK(id, e, y)
  PROVE  CInv'
  <1>1. disp \in [Id -> Dispatch \cup {None}]
    BY DEF CInv, IInv, BoundOK
  <1>2. disp'[id] = e /\ e # None /\ e.task = c /\ \A j \in Id \ {id} : disp'[j] = disp[j]
    BY <1>1, NoneAssumption DEF Follows
  <1>3. ASSUME NEW j \in Id, disp'[j] # None
        PROVE  IF disp'[j].task = c THEN DispatchOK(j, disp'[j], y) ELSE disp'[j] = disp[j]
    <2>1. CASE j = id
      BY <1>2, <2>1
    <2>2. CASE j # id
      <3>1. disp'[j] = disp[j]
        BY <1>2, <2>2
      <3>2. CASE disp[j].task = c
        <4>1. DispatchOK(j, disp[j], card[c])
          BY <1>3, <3>1, <3>2 DEF CInv, DispatchesOK
        <4>2. card[c].bound.id # j /\ y.bound.id # j
          BY <2>2, CoordinatorAssumption DEF Auth
        <4>3. card[c].releases \subseteq y.releases
          BY DEF Grows
        <4> QED BY <3>1, <4>1, <4>2, <4>3, Aside
      <3> QED BY <3>1, <3>2
    <2> QED BY <2>1, <2>2
  <1>4. \A j \in Id : disp[j] # None => disp'[j] # None /\ Follows(disp[j], disp'[j])
    BY <1>2, Follow
  <1>5. CardOK(y, c \in forced')
    BY DEF CardOK
  <1> QED BY <1>3, <1>4, <1>5, BoardKeeps

\* What follows a round under the same grant, and under the next one.
LEMMA SameGrant ==
  ASSUME NEW d, NEW e, e.task = d.task, e.epoch = d.epoch, e.fenced = d.fenced,
         d.state \notin Terminal \/ e.state = d.state
  PROVE  Follows(d, e)
  BY DEF Follows, Knows

LEMMA NextGrant ==
  ASSUME NEW d \in Dispatch, NEW e, e.task = d.task, e.epoch = d.epoch + 1,
         e.fenced = d.fenced \cup {d.epoch}
  PROVE  Follows(d, e)
  <1>1. d.epoch \in Nat
    BY DEF Dispatch
  <1>2. ASSUME NEW r \in Dispatched, Knows(r, d) PROVE Knows(r, e)
    <2>1. r.epoch \in Nat
      BY DEF Dispatched
    <2> QED BY <1>1, <1>2, <2>1 DEF Knows
  <1> QED BY <1>2 DEF Follows

\* What a step of the bound round finds.
LEMMA BoundCard ==
  ASSUME CInv, NEW id \in Id, disp[id] # None, card[disp[id].task].bound = Auth(id)
  PROVE  \E c \in Card, x \in CardRec, d \in Dispatch :
           /\ c = disp[id].task /\ x = card[c] /\ d = disp[id] /\ Lives(x)
           /\ (c \notin forced => Unbroken(x)) /\ DispatchOK(id, d, x)
           /\ x.bound = [id |-> id, epoch |-> d.epoch] /\ x.cycle # 0 /\ x.place # "todo"
           /\ DOMAIN card = Card /\ disp \in [Id -> Dispatch \cup {None}]
  <1>1. disp[id] \in Dispatch /\ disp[id].task \in Card /\ disp \in [Id -> Dispatch \cup {None}]
    BY Rounds DEF CInv, IInv, BoundOK
  <1>2. PICK c \in Card : c = disp[id].task
    BY <1>1
  <1>3. card[c] \in CardRec /\ Lives(card[c]) /\ (c \notin forced => Unbroken(card[c])) /\ DOMAIN card = Card
    BY CardFacts
  <1>4. card[c].bound = [id |-> id, epoch |-> disp[id].epoch] /\ card[c].bound # Unbound
    BY <1>2, CoordinatorAssumption DEF Auth, Unbound
  <1>5. card[c].cycle # 0 /\ card[c].place # "todo"
    BY <1>3, <1>4 DEF Lives
  <1>6. DispatchOK(id, disp[id], card[c])
    BY <1>2 DEF CInv, DispatchesOK
  <1> QED BY <1>1, <1>2, <1>3, <1>4, <1>5, <1>6

\* The bound round goes on and its card moves.
LEMMA RoundMoves ==
  ASSUME CInv, IInv', UNCHANGED <<checkpoint, req, forced>>, NEW id \in Id,
         disp[id] # None, card[disp[id].task].bound = Auth(id),
         NEW e \in Dispatch, Follows(disp[id], e), disp' = [disp EXCEPT ![id] = e],
         NEW p \in Place \ {"todo"},
         card' = [card EXCEPT ![disp[id].task] =
                    Moved(card[disp[id].task], p, [id |-> id, epoch |-> e.epoch])],
         e.state \notin Terminal => p # "archived",
         e.state \in {"failed", "cancelled"} => p = "archived",
         e.kind = "wrap-up" /\ e.state = "completed" => p \in {"done", "archived"}
  PROVE  CInv'
  <1>1. PICK c \in Card, x \in CardRec, d \in Dispatch :
           /\ c = disp[id].task /\ x = card[c] /\ d = disp[id] /\ Lives(x)
           /\ (c \notin forced => Unbroken(x))
           /\ x.cycle # 0 /\ x.place # "todo"
    BY BoundCard
  <1>2. PICK b \in [id : Id \cup {None}, epoch : Nat] : b = [id |-> id, epoch |-> e.epoch]
    <2>1. e.epoch \in Nat
      BY DEF Dispatch
    <2> QED BY <2>1
  <1>3. PICK y : y = Moved(x, p, b)
    OBVIOUS
  <1>4. /\ y \in CardRec /\ Lives(y) /\ (Unbroken(x) => Unbroken(y)) /\ Grows(x, y)
        /\ y.place = p /\ y.bound = b
    BY <1>1, <1>3, Onward
  <1>5. CardOK(y, c \in forced)
    BY <1>1, <1>4 DEF CardOK
  <1>6. DispatchOK(id, e, y)
    BY <1>2, <1>4 DEF DispatchOK
  <1>7. card' = [card EXCEPT ![c] = y]
    BY <1>1, <1>2, <1>3
  <1>8. y.bound.id \in {id, None}
    BY <1>2, <1>4
  <1> QED BY <1>1, <1>4, <1>5, <1>6, <1>7, <1>8, RoundStep

LEMMA RoundTypes ==
  ASSUME NEW d \in Dispatch
  PROVE  /\ d.task \in Card /\ d.kind \in {"fix", "wrap-up"} /\ d.state \in Round /\ d.epoch \in Nat
         /\ d.commit \in Commit \cup {None} /\ d.fenced \in SUBSET Nat
  BY DEF Dispatch

LEMMA Accepts ==
  ASSUME CInv, IInv', NEW id \in Id, disp[id] # None, Accept(id)
  PROVE  CInv'
  <1>1. card[disp[id].task].bound = Auth(id) /\ disp[id].state = "prepared"
        /\ UNCHANGED <<checkpoint, req, forced>>
    BY DEF Accept, Edit, sessions
  <1>2. PICK c \in Card, x \in CardRec, d \in Dispatch :
           /\ c = disp[id].task /\ x = card[c] /\ d = disp[id]
           /\ x.bound = [id |-> id, epoch |-> d.epoch]
           /\ DOMAIN card = Card /\ disp \in [Id -> Dispatch \cup {None}]
    BY <1>1, BoundCard
  <1>3. PICK e : e = [d EXCEPT !.state = "accepted"]
    OBVIOUS
  <1>4. e \in Dispatch /\ e.task = d.task /\ e.epoch = d.epoch /\ e.fenced = d.fenced
        /\ e.state = "accepted"
    BY <1>3 DEF Dispatch, Round
  <1>5. disp' = [disp EXCEPT ![id] = e]
    BY <1>2, <1>3 DEF Accept
  <1>6. card' = [card EXCEPT ![c] = Moved(x, "working", [id |-> id, epoch |-> e.epoch])]
    <2>1. card' = [card EXCEPT ![c] = [x EXCEPT !.rev = @ + 1, !.place = "working"]]
      BY <1>2 DEF Accept
    <2>2. [x EXCEPT !.rev = @ + 1, !.place = "working"] = Moved(x, "working", [id |-> id, epoch |-> e.epoch])
      BY <1>2, <1>4 DEF CardRec, Moved
    <2> QED BY <2>1, <2>2
  <1>7. Follows(d, e)
    BY <1>1, <1>2, <1>4, SameGrant DEF Terminal
  <1>8. "working" \in Place \ {"todo"}
    BY DEF Place
  <1> QED BY <1>1, <1>2, <1>4, <1>5, <1>6, <1>7, <1>8, RoundMoves

LEMMA Completes ==
  ASSUME CInv, IInv', NEW id \in Id, disp[id] # None, NEW g \in Commit, Complete(id, g)
  PROVE  CInv'
  <1>1. card[disp[id].task].bound = Auth(id) /\ disp[id].state = "accepted"
        /\ UNCHANGED <<checkpoint, req, forced>>
    BY DEF Complete, Edit, sessions
  <1>2. PICK c \in Card, x \in CardRec, d \in Dispatch :
           /\ c = disp[id].task /\ x = card[c] /\ d = disp[id]
           /\ x.bound = [id |-> id, epoch |-> d.epoch]
           /\ DOMAIN card = Card /\ disp \in [Id -> Dispatch \cup {None}]
    BY <1>1, BoundCard
  <1>3. PICK e : e = [d EXCEPT !.state = "completed", !.commit = g]
    OBVIOUS
  <1>4. e \in Dispatch /\ e.task = d.task /\ e.epoch = d.epoch /\ e.fenced = d.fenced
        /\ e.state = "completed" /\ e.kind = d.kind
    BY <1>3 DEF Dispatch, Round, Terminal
  <1>5. disp' = [disp EXCEPT ![id] = e]
    BY <1>2, <1>3 DEF Complete
  <1>6. PICK p \in Place \ {"todo"} : p = IF d.kind = "wrap-up" THEN "done" ELSE "review"
    BY DEF Place
  <1>7. card' = [card EXCEPT ![c] = Moved(x, p, [id |-> id, epoch |-> e.epoch])]
    <2>1. card' = [card EXCEPT ![c] = [x EXCEPT !.rev = @ + 1, !.place = p]]
      BY <1>2, <1>6 DEF Complete
    <2>2. [x EXCEPT !.rev = @ + 1, !.place = p] = Moved(x, p, [id |-> id, epoch |-> e.epoch])
      BY <1>2, <1>4 DEF CardRec, Moved
    <2> QED BY <2>1, <2>2
  <1>8. Follows(d, e)
    BY <1>1, <1>2, <1>4, SameGrant DEF Terminal
  <1> QED BY <1>1, <1>2, <1>4, <1>5, <1>6, <1>7, <1>8, RoundMoves DEF Terminal

LEMMA Reauthorizes ==
  ASSUME CInv, IInv', NEW id \in Id, disp[id] # None, ReauthorizeDispatch(id)
  PROVE  CInv'
  <1>1. card[disp[id].task].bound = Auth(id) /\ disp[id].state \notin Terminal
        /\ UNCHANGED <<checkpoint, req, forced>>
    BY DEF ReauthorizeDispatch, Live, Edit, sessions
  <1>2. PICK c \in Card, x \in CardRec, d \in Dispatch :
           /\ c = disp[id].task /\ x = card[c] /\ d = disp[id] /\ DispatchOK(id, d, x)
           /\ x.bound = [id |-> id, epoch |-> d.epoch] /\ x.place # "todo"
           /\ DOMAIN card = Card /\ disp \in [Id -> Dispatch \cup {None}]
    BY <1>1, BoundCard
  <1>3. PICK e : e = [d EXCEPT !.state = "prepared", !.epoch = @ + 1, !.fenced = Fenced(id)]
    OBVIOUS
  <1>4. /\ e.task = d.task /\ e.epoch = d.epoch + 1 /\ e.fenced = d.fenced \cup {d.epoch}
        /\ e.state = "prepared"
    BY <1>2, <1>3 DEF Dispatch, Fenced
  <1>5. e \in Dispatch
    <2>1. d.epoch + 1 \in Nat /\ d.fenced \cup {d.epoch} \in SUBSET Nat
      BY RoundTypes
    <2>2. e = [task |-> d.task, kind |-> d.kind, state |-> "prepared", epoch |-> d.epoch + 1,
               commit |-> d.commit, fenced |-> d.fenced \cup {d.epoch}]
      BY <1>2, <1>3 DEF Dispatch, Fenced
    <2> QED BY <2>1, <2>2, RoundTypes DEF Dispatch, Round
  <1>6. disp' = [disp EXCEPT ![id] = e]
    BY <1>2, <1>3 DEF ReauthorizeDispatch
  <1>7. PICK p \in Place \ {"todo"} : p = x.place /\ p # "archived"
    BY <1>1, <1>2 DEF CardRec, DispatchOK
  <1>8. card' = [card EXCEPT ![c] = Moved(x, p, [id |-> id, epoch |-> e.epoch])]
    <2>1. Auth(id)' = [id |-> id, epoch |-> e.epoch]
      BY <1>2, <1>6 DEF Auth
    <2>2. card' = [card EXCEPT ![c] = [x EXCEPT !.rev = @ + 1, !.bound = [id |-> id, epoch |-> e.epoch]]]
      BY <1>2, <2>1 DEF ReauthorizeDispatch
    <2>3. [x EXCEPT !.rev = @ + 1, !.bound = [id |-> id, epoch |-> e.epoch]]
            = Moved(x, p, [id |-> id, epoch |-> e.epoch])
      BY <1>7 DEF CardRec, Moved
    <2> QED BY <2>2, <2>3
  <1>9. Follows(d, e)
    BY <1>2, <1>4, NextGrant
  <1> QED BY <1>1, <1>2, <1>4, <1>5, <1>6, <1>7, <1>8, <1>9, RoundMoves DEF Terminal

LEMMA Ends ==
  ASSUME CInv, IInv', NEW id \in Id, disp[id] # None, NEW s \in {"failed", "cancelled"},
         EndDispatch(id, s)
  PROVE  CInv'
  <1>1. card[disp[id].task].bound = Auth(id) /\ (disp[id].state \notin Terminal \/ disp[id].state = s)
        /\ UNCHANGED <<checkpoint, req, forced>>
    BY DEF EndDispatch, Live, Edit, sessions
  <1>2. PICK c \in Card, x \in CardRec, d \in Dispatch :
           /\ c = disp[id].task /\ x = card[c] /\ d = disp[id] /\ Lives(x)
           /\ (c \notin forced => Unbroken(x))
           /\ x.bound = [id |-> id, epoch |-> d.epoch] /\ x.cycle # 0 /\ x.place # "todo"
           /\ DOMAIN card = Card /\ disp \in [Id -> Dispatch \cup {None}]
    BY <1>1, BoundCard
  <1>3. PICK e : e = [d EXCEPT !.state = s]
    OBVIOUS
  <1>4. e \in Dispatch /\ e.task = d.task /\ e.epoch = d.epoch /\ e.fenced = d.fenced /\ e.state = s
    BY <1>3 DEF Dispatch, Round, Terminal
  <1>5. disp' = [disp EXCEPT ![id] = e]
    BY <1>2, <1>3 DEF EndDispatch
  <1>6. Follows(d, e)
    BY <1>1, <1>2, <1>4, SameGrant
  <1>7. x.rev \in Nat /\ x.cycle \in Nat /\ x.place \in Place /\ x.releases \in SUBSET Release
        /\ x.handoffs \in Seq(Handoff)
    BY DEF CardRec
  <1>8. PICK r \in Release : r = [id |-> id, cycle |-> x.cycle, rev |-> x.rev + 1]
    <2>1. x.rev + 1 \in Nat
      BY <1>7
    <2>2. [id |-> id, cycle |-> x.cycle, rev |-> x.rev + 1] \in Release
      BY <1>7, <2>1 DEF Release
    <2> QED BY <2>2
  <1>9. PICK y : y = [x EXCEPT !.rev = @ + 1, !.bound = Unbound, !.releases = @ \cup {r}]
    OBVIOUS
  <1>10. card' = [card EXCEPT ![c] = y]
    BY <1>2, <1>8, <1>9 DEF EndDispatch
  <1>11. /\ y.rev = x.rev + 1 /\ y.place = x.place /\ y.cycle = x.cycle /\ y.bound = Unbound
         /\ y.releases = x.releases \cup {r} /\ y.handoffs = x.handoffs
    BY <1>9 DEF CardRec
  <1>12. y \in CardRec
    <2>1. y = [rev |-> x.rev + 1, place |-> x.place, cycle |-> x.cycle, bound |-> Unbound,
               releases |-> x.releases \cup {r}, handoffs |-> x.handoffs]
      BY <1>9 DEF CardRec
    <2>2. x.rev + 1 \in Nat /\ x.releases \cup {r} \in SUBSET Release
          /\ Unbound \in [id : Id \cup {None}, epoch : Nat]
      BY <1>7 DEF Unbound
    <2> QED BY <1>7, <2>1, <2>2 DEF CardRec
  <1>13. Lives(y)
    <2>1. \A q \in x.releases : q.rev \in Nat /\ q.rev <= x.rev
      BY <1>2, <1>7 DEF Lives, Release
    <2>2. \A q \in y.releases : q.rev <= y.rev
      BY <1>7, <1>8, <1>11, <2>1
    <2> QED BY <1>2, <1>11, <2>2 DEF Lives
  <1>14. Unbroken(x) => Unbroken(y)
    BY <1>11 DEF Unbroken, Linked
  <1>15. CardOK(y, c \in forced)
    BY <1>2, <1>12, <1>13, <1>14 DEF CardOK
  <1>16. Grows(x, y)
    BY <1>7, <1>11 DEF Grows
  <1>17. DispatchOK(id, e, y) /\ y.bound.id = None
    <2>1. y.bound.id = None /\ y.bound.id # id
      BY <1>11, CoordinatorAssumption DEF Unbound
    <2>2. \E q \in y.releases : q.id = id
      BY <1>8, <1>11
    <2>3. e.state \in Terminal
      BY <1>4 DEF Terminal
    <2> QED BY <2>1, <2>2, <2>3 DEF DispatchOK
  <1> QED BY <1>1, <1>2, <1>4, <1>5, <1>6, <1>10, <1>15, <1>16, <1>17, RoundStep

LEMMA ArchivesOne ==
  ASSUME CInv, IInv', NEW c \in Card, Archive(c)
  PROVE  CInv'
  <1>1. UNCHANGED <<checkpoint, req, forced>> /\ card[c].place \in {"working", "review", "done"}
    BY DEF Archive, Started, Edit, sessions
  <1>2. PICK x \in CardRec : x = card[c] /\ Lives(x) /\ DOMAIN card = Card
                            /\ (c \notin forced => Unbroken(x))
    BY CardFacts
  <1>3. PICK b \in [id : Id \cup {None}, epoch : Nat] : b = x.bound
    BY DEF CardRec
  <1>4. card' = [card EXCEPT ![c] = Moved(x, "archived", b)] /\ "archived" \in Place \ {"todo"}
    <2>1. card' = [card EXCEPT ![c] = [x EXCEPT !.rev = @ + 1, !.place = "archived"]]
      BY <1>2 DEF Archive
    <2>2. [x EXCEPT !.rev = @ + 1, !.place = "archived"] = Moved(x, "archived", b)
      BY <1>3 DEF CardRec, Moved
    <2> QED BY <2>1, <2>2 DEF Place
  <1>5. CASE b.id # None /\ Live(b.id)
    <2>1. card[c].bound # Unbound
      BY <1>2, <1>3, <1>5 DEF Unbound
    <2>2. PICK id \in Id : Bound(c, id)
      BY <2>1 DEF CInv, IInv, BoundOK
    <2>3. disp[id] # None /\ disp[id].task = c /\ card[c].bound = Auth(id) /\ id = b.id
          /\ b = [id |-> id, epoch |-> disp[id].epoch]
      BY <1>2, <1>3, <2>2 DEF Bound, Auth
    <2>4. PICK d \in Dispatch : d = disp[id] /\ disp \in [Id -> Dispatch \cup {None}]
      BY <2>3, BoundCard
    <2>5. PICK e : e = [d EXCEPT !.state = "cancelled"]
      OBVIOUS
    <2>6. e \in Dispatch /\ e.task = d.task /\ e.epoch = d.epoch /\ e.fenced = d.fenced
          /\ e.state = "cancelled"
      BY <2>5 DEF Dispatch, Round, Terminal
    <2>7. disp' = [disp EXCEPT ![id] = e]
      BY <1>2, <1>3, <1>5, <2>3, <2>4, <2>5 DEF Archive
    <2>8. Follows(d, e)
      BY <1>5, <2>3, <2>4, <2>6, SameGrant DEF Live
    <2>9. card' = [card EXCEPT ![c] = Moved(x, "archived", [id |-> id, epoch |-> e.epoch])]
      BY <1>4, <2>3, <2>4, <2>6
    <2> QED BY <1>1, <1>2, <1>4, <2>3, <2>4, <2>6, <2>7, <2>8, <2>9, RoundMoves DEF Terminal
  <1>6. CASE ~(b.id # None /\ Live(b.id))
    <2>1. UNCHANGED disp
      BY <1>2, <1>3, <1>6 DEF Archive
    <2>2. PICK y : y = Moved(x, "archived", b)
      OBVIOUS
    <2>3. x.place # "todo" /\ (x.cycle = 0 => b = Unbound)
      BY <1>1, <1>2, <1>3 DEF Lives
    <2>4. /\ y \in CardRec /\ Lives(y) /\ (Unbroken(x) => Unbroken(y)) /\ Grows(x, y)
          /\ y.place = "archived" /\ y.bound = b
      BY <1>2, <1>4, <2>2, <2>3, Onward
    <2>5. CardOK(y, c \in forced')
      BY <1>1, <1>2, <2>4 DEF CardOK
    <2>6. ASSUME NEW id \in Id, disp[id] # None, disp[id].task = c
          PROVE  DispatchOK(id, disp[id], y)
      <3>1. DispatchOK(id, disp[id], x) /\ x.releases \subseteq y.releases
        BY <1>2, <2>4, <2>6 DEF CInv, DispatchesOK, Grows
      <3>2. CASE b.id = id
        <4>1. disp[id].state \in Terminal
          BY <1>6, <3>2, CoordinatorAssumption DEF Live
        <4> QED BY <1>3, <2>4, <3>1, <3>2, <4>1 DEF DispatchOK
      <3>3. CASE b.id # id
        BY <1>3, <2>4, <3>1, <3>3, Aside
      <3> QED BY <3>2, <3>3
    <2>7. \A id \in Id : disp[id] # None => disp'[id] # None /\ Follows(disp[id], disp'[id])
      BY <2>1, Follow
    <2> QED BY <1>1, <1>2, <1>4, <2>1, <2>2, <2>4, <2>5, <2>6, <2>7, BoardKeeps
  <1> QED BY <1>5, <1>6

LEMMA PreparesOne ==
  ASSUME CInv, IInv', NEW c \in Card, NEW id \in Id, NEW kind \in {"fix", "wrap-up"},
         prepareDispatch(c, id, kind)
  PROVE  CInv'
  <1>1. UNCHANGED <<checkpoint, req, forced>> /\ card[c].place \in {"working", "review"}
        /\ disp[id] = None /\ (card[c].bound # Unbound => ~Live(card[c].bound.id))
    BY DEF prepareDispatch, Edit, sessions
  <1>2. PICK x \in CardRec : x = card[c] /\ Lives(x) /\ DOMAIN card = Card
                            /\ (c \notin forced => Unbroken(x))
    BY CardFacts
  <1>3. x.bound \in [id : Id \cup {None}, epoch : Nat] /\ x.place \in Place /\ x.place # "todo"
        /\ x.cycle # 0
    BY <1>1, <1>2 DEF CardRec, Lives
  <1>4. PICK e \in Dispatch : /\ e = [ task |-> c, kind |-> kind, state |-> "prepared", epoch |-> x.bound.epoch + 1,
                                       commit |-> None, fenced |-> {} ]
    <2>1. x.bound.epoch + 1 \in Nat
      BY <1>3
    <2> QED BY <2>1 DEF Dispatch, Round
  <1>5. disp' = [disp EXCEPT ![id] = e] /\ disp \in [Id -> Dispatch \cup {None}]
    BY <1>2, <1>4 DEF prepareDispatch, CInv, IInv, BoundOK
  <1>6. disp'[id] = e /\ \A j \in Id \ {id} : disp'[j] = disp[j]
    BY <1>5
  <1>7. PICK b \in [id : Id \cup {None}, epoch : Nat], p \in Place :
          b = [id |-> id, epoch |-> e.epoch] /\ p = x.place
    <2>1. e.epoch \in Nat
      BY RoundTypes
    <2> QED BY <1>3, <2>1
  <1>8. card' = [card EXCEPT ![c] = Moved(x, p, b)]
    <2>1. Auth(id)' = b
      BY <1>6, <1>7 DEF Auth
    <2>2. card' = [card EXCEPT ![c] = [x EXCEPT !.rev = @ + 1, !.bound = b]]
      BY <1>2, <2>1 DEF prepareDispatch
    <2>3. [x EXCEPT !.rev = @ + 1, !.bound = b] = Moved(x, p, b)
      BY <1>7 DEF CardRec, Moved
    <2> QED BY <2>2, <2>3
  <1>9. PICK y : y = Moved(x, p, b)
    OBVIOUS
  <1>10. /\ y \in CardRec /\ Lives(y) /\ (Unbroken(x) => Unbroken(y)) /\ Grows(x, y)
         /\ y.place = p /\ y.bound = b
    BY <1>2, <1>3, <1>7, <1>9, Onward
  <1>11. CardOK(y, c \in forced')
    BY <1>1, <1>2, <1>10 DEF CardOK
  <1>12. ASSUME NEW j \in Id, disp'[j] # None
         PROVE  IF disp'[j].task = c THEN DispatchOK(j, disp'[j], y) ELSE disp'[j] = disp[j]
    <2>1. CASE j = id
      <3>1. e.state = "prepared" /\ e.task = c
        BY <1>4
      <3>2. p # "archived"
        BY <1>1, <1>2, <1>7
      <3>3. DispatchOK(id, e, y)
        BY <1>7, <1>10, <3>1, <3>2 DEF DispatchOK
      <3> QED BY <1>6, <2>1, <3>1, <3>3
    <2>2. CASE j # id
      <3>1. disp'[j] = disp[j]
        BY <1>6, <2>2
      <3>2. ASSUME disp[j].task = c PROVE DispatchOK(j, disp[j], y)
        <4>1. DispatchOK(j, disp[j], x) /\ x.releases \subseteq y.releases /\ y.bound.id # j
          BY <1>2, <1>7, <1>10, <1>12, <2>2, <3>1, <3>2 DEF CInv, DispatchesOK, Grows
        <4>2. CASE x.bound.id = j
          <5>1. x.bound # Unbound
            BY <4>2, CoordinatorAssumption DEF Unbound
          <5>2. disp[j].state \in Terminal
            BY <1>1, <1>2, <4>2, <5>1 DEF Live
          <5>3. disp[j].state = "completed"
            BY <1>1, <1>2, <4>1, <4>2, <5>2 DEF DispatchOK, Terminal
          <5> QED BY <4>1, <5>2, <5>3 DEF DispatchOK
        <4>3. CASE x.bound.id # j
          BY <4>1, <4>3, Aside
        <4> QED BY <4>2, <4>3
      <3> QED BY <3>1, <3>2
    <2> QED BY <2>1, <2>2
  <1>13. \A j \in Id : disp[j] # None => disp'[j] # None /\ Follows(disp[j], disp'[j])
    BY <1>1, <1>6, Follow
  <1> QED BY <1>1, <1>2, <1>8, <1>9, <1>10, <1>11, <1>12, <1>13, BoardKeeps

-----------------------------------------------------------------------------
(* The claim of a reviewed card.  Of the releases of its cycle there is a    *)
(* last one, since the revisions are bounded by that of the card.            *)

Less == OpToRel(<, Nat)
LEMMA Least ==
  ASSUME NEW T \in SUBSET Nat, T # {}
  PROVE  \E n \in T : \A m \in T : n <= m
  <1>1. IsWellFoundedOn(Less, Nat)
    BY NatLessThanWellFounded DEF Less
  <1>2. PICK n \in T : \A m \in T : <<m, n>> \notin Less
    BY <1>1, WFMin
  <1>3. \A m \in T : ~(m < n)
    BY <1>2 DEF Less, OpToRel
  <1> QED BY <1>3

LEMMA LastRelease ==
  ASSUME NEW x \in CardRec, Lives(x), NEW old \in SUBSET x.releases, old # {}
  PROVE  \E r \in old : \A s \in old : s.rev <= r.rev
  <1>1. x.rev \in Nat /\ \A r \in old : r.rev \in Nat /\ r.rev <= x.rev
    BY DEF CardRec, Lives, Release
  <1> DEFINE T == {x.rev - r.rev : r \in old}
  <1>2. T \in SUBSET Nat /\ T # {}
    BY <1>1
  <1>3. PICK n \in T : \A m \in T : n <= m
    BY <1>2, Least
  <1>4. PICK r \in old : n = x.rev - r.rev
    OBVIOUS
  <1>5. ASSUME NEW s \in old PROVE s.rev <= r.rev
    <2>1. x.rev - r.rev <= x.rev - s.rev
      BY <1>3, <1>4
    <2> QED BY <1>1, <2>1
  <1> QED BY <1>5

LEMMA Join ==
  ASSUME NEW hs \in Seq(Handoff), NEW ms \in Seq(Handoff), NEW n \in Nat, n = Len(hs),
         NEW k \in Nat, k = Len(ms)
  PROVE  /\ hs \o ms \in Seq(Handoff) /\ Len(hs \o ms) = n + k
         /\ \A i \in 1 .. n : (hs \o ms)[i] = hs[i]
         /\ \A i \in 1 .. k : (hs \o ms)[n + i] = ms[i]
  <1>1. hs \o ms \in Seq(Handoff) /\ Len(hs \o ms) = n + k
    OBVIOUS
  <1>2. \A i \in 1 .. n + k : (hs \o ms)[i] = IF i <= n THEN hs[i] ELSE ms[i - n]
    OBVIOUS
  <1>3. \A i \in 1 .. n : i \in 1 .. n + k /\ i <= n
    OBVIOUS
  <1>4. \A i \in 1 .. k : n + i \in 1 .. n + k /\ ~(n + i <= n) /\ (n + i) - n = i
    OBVIOUS
  <1> QED BY <1>1, <1>2, <1>3, <1>4

LEMMA Reclaims ==
  ASSUME CInv, IInv', NEW c \in Card, Claim(c)
  PROVE  CInv'
  <1> DEFINE old == {r \in card[c].releases : r.cycle = card[c].cycle}
             last == CHOOSE r \in old : \A s \in old : s.rev <= r.rev
  <1>1. /\ UNCHANGED <<checkpoint, req, disp>> /\ card[c].place = "review" /\ card[c].bound = Unbound
        /\ forced' = IF old = {} THEN forced \cup {c} ELSE forced
        /\ card' = [card EXCEPT ![c].rev = @ + 1, ![c].place = "working", ![c].cycle = @ + 1,
                                ![c].handoffs = IF old = {} THEN @ ELSE @ \o HandoffOf(c, last)]
    BY DEF Claim, Edit, sessions
  <1>2. PICK x \in CardRec : x = card[c] /\ Lives(x) /\ DOMAIN card = Card
                            /\ (c \notin forced => Unbroken(x))
    BY CardFacts
  <1>3. x.rev \in Nat /\ x.cycle \in Nat /\ x.releases \in SUBSET Release
        /\ x.bound \in [id : Id \cup {None}, epoch : Nat] /\ x.cycle # 0 /\ x.cycle >= 1
    <2>1. x.rev \in Nat /\ x.cycle \in Nat /\ x.releases \in SUBSET Release
          /\ x.bound \in [id : Id \cup {None}, epoch : Nat]
      BY DEF CardRec
    <2>2. x.cycle # 0
      BY <1>1, <1>2 DEF Lives
    <2> QED BY <2>1, <2>2
  <1>4. PICK hs \in Seq(Handoff) : hs = x.handoffs
    BY DEF CardRec
  <1>5. PICK more \in Seq(Handoff) :
          /\ more = IF old = {} THEN <<>> ELSE HandoffOf(c, last)
          /\ \/ old = {} /\ more = <<>>
             \/ /\ old # {} /\ Len(more) = 1 /\ more[1].old = x.cycle /\ more[1].new = x.cycle + 1
                /\ \E r \in x.releases : r.cycle = x.cycle /\ r.id = more[1].id /\ r.rev < more[1].rev
    <2>1. CASE old = {}
      BY <2>1, EmptySeq
    <2>2. CASE old # {}
      <3>1. \E r \in old : \A s \in old : s.rev <= r.rev
        BY <1>2, <2>2, LastRelease
      <3>2. last \in old
        BY <3>1
      <3> HIDE DEF last
      <3>3. last \in x.releases /\ last.cycle = x.cycle /\ last.id \in Id
            /\ last.rev \in Nat /\ last.rev < x.rev + 1
        <4>1. last \in x.releases /\ last.cycle = x.cycle
          BY <1>2, <3>2
        <4>2. last \in Release /\ last.rev <= x.rev
          BY <1>2, <1>3, <4>1 DEF Lives
        <4> QED BY <1>3, <4>1, <4>2 DEF Release
      <3>4. PICK h : h = [old |-> x.cycle, new |-> x.cycle + 1, id |-> last.id, rev |-> x.rev + 1]
        OBVIOUS
      <3>5. h \in Handoff /\ h.old = x.cycle /\ h.new = x.cycle + 1 /\ h.id = last.id /\ h.rev = x.rev + 1
        <4>1. x.cycle + 1 \in Nat /\ x.rev + 1 \in Nat
          BY <1>3
        <4> QED BY <1>3, <3>3, <3>4, <4>1 DEF Handoff
      <3>6. HandoffOf(c, last) = <<h>>
        BY <1>2, <3>4 DEF HandoffOf
      <3>7. <<h>> \in Seq(Handoff) /\ Len(<<h>>) = 1 /\ <<h>>[1] = h
        BY <3>5
      <3> QED BY <2>2, <3>3, <3>5, <3>6, <3>7
    <2> QED BY <2>1, <2>2
  <1> HIDE DEF last, old
  <1>6. PICK n \in Nat, k \in {0, 1}, ys \in Seq(Handoff) :
          /\ n = Len(hs) /\ k = Len(more) /\ ys = hs \o more /\ Len(ys) = n + k
          /\ (\A i \in 1 .. n : ys[i] = hs[i]) /\ (\A i \in 1 .. k : ys[n + i] = more[i])
    <2>1. PICK n \in Nat, k \in {0, 1} : n = Len(hs) /\ k = Len(more)
      BY <1>5, EmptySeq
    <2>2. k \in Nat
      OBVIOUS
    <2>3. /\ hs \o more \in Seq(Handoff) /\ Len(hs \o more) = n + k
          /\ \A i \in 1 .. n : (hs \o more)[i] = hs[i]
          /\ \A i \in 1 .. k : (hs \o more)[n + i] = more[i]
      BY <2>1, <2>2, Join
    <2> QED BY <2>1, <2>3
  <1>7. PICK y : y = [rev |-> x.rev + 1, place |-> "working", cycle |-> x.cycle + 1,
                      bound |-> x.bound, releases |-> x.releases, handoffs |-> ys]
    OBVIOUS
  <1>8. card' = [card EXCEPT ![c] = y]
    <2>1. ys = IF old = {} THEN hs ELSE hs \o HandoffOf(c, last)
      BY <1>5, <1>6
    <2>2. PICK z : z = [x EXCEPT !.rev = @ + 1, !.place = "working", !.cycle = @ + 1, !.handoffs = ys]
      OBVIOUS
    <2>3. card' = [card EXCEPT ![c] = [x EXCEPT !.rev = @ + 1, !.place = "working", !.cycle = @ + 1,
                                                !.handoffs = ys]]
      BY <1>1, <1>2, <1>4, <2>1
    <2>4. y = z
      BY <1>7, <2>2 DEF CardRec
    <2> QED BY <2>2, <2>3, <2>4
  <1>9. y \in CardRec
    <2>1. x.rev + 1 \in Nat /\ x.cycle + 1 \in Nat
      BY <1>3
    <2> QED BY <1>3, <1>7, <2>1 DEF CardRec, Place
  <1>10. \A i \in 1 .. Len(ys) : i \in 1 .. n \/ (k = 1 /\ i = n + 1 /\ ys[i] = more[1])
    <2>1. ASSUME NEW i \in 1 .. n + k PROVE i \in 1 .. n \/ (k = 1 /\ i = n + 1 /\ ys[i] = more[1])
      <3>1. CASE k = 0
        BY <3>1
      <3>2. CASE k = 1
        <4>1. ys[n + 1] = more[1]
          BY <1>6, <3>2
        <4> QED BY <3>2, <4>1
      <3> QED BY <3>1, <3>2
    <2> QED BY <1>6, <2>1
  <1>11. Lives(y)
    <2>1. \A r \in x.releases : r.rev \in Nat /\ r.rev <= x.rev
      BY <1>2, <1>3 DEF Lives, Release
    <2>2. \A r \in y.releases : r.rev <= y.rev
      BY <1>3, <1>7, <2>1
    <2>3. \A i \in 1 .. n : hs[i].old >= 1
      BY <1>2, <1>4, <1>6 DEF Lives
    <2>4. k = 1 => more[1].old >= 1
      BY <1>3, <1>5, <1>6, EmptySeq
    <2>5. \A i \in 1 .. Len(ys) : ys[i].old >= 1
      BY <1>6, <1>10, <2>3, <2>4
    <2>6. y.cycle # 0 /\ y.place # "todo"
      BY <1>3, <1>7
    <2> QED BY <1>7, <2>2, <2>5, <2>6 DEF Lives
  <1>12. c \notin forced' => Unbroken(y)
    <2> SUFFICES ASSUME c \notin forced' PROVE Unbroken(y)
      OBVIOUS
    <2>1. c \notin forced /\ old # {}
      BY <1>1
    <2>2. n = x.cycle - 1 /\ \A i \in 1 .. n : Linked(x, i)
      BY <1>2, <1>3, <1>4, <1>6, <2>1 DEF Unbroken
    <2>3. k = 1
      BY <1>5, <1>6, <2>1
    <2>4. n + 1 = x.cycle /\ Len(ys) = x.cycle
      BY <1>3, <1>6, <2>2, <2>3
    <2>5. ASSUME NEW i \in 1 .. Len(ys) PROVE Linked(y, i)
      <3>1. CASE i \in 1 .. n
        <4>1. ys[i] = hs[i] /\ Linked(x, i)
          BY <1>6, <2>2, <3>1
        <4> QED BY <1>4, <1>7, <4>1 DEF Linked
      <3>2. CASE i \notin 1 .. n
        <4>1. i = x.cycle /\ ys[i] = more[1]
          BY <1>10, <2>4, <3>2
        <4> QED BY <1>5, <1>7, <2>1, <4>1 DEF Linked
      <3> QED BY <3>1, <3>2
    <2> QED BY <1>3, <1>7, <2>4, <2>5 DEF Unbroken
  <1>13. CardOK(y, c \in forced')
    BY <1>9, <1>11, <1>12 DEF CardOK
  <1>14. Grows(x, y)
    BY <1>3, <1>4, <1>6, <1>7 DEF Grows
  <1>15. y.bound = card[c].bound /\ y.bound = Unbound
    BY <1>1, <1>2, <1>7
  <1>16. forced \subseteq forced' /\ forced' \subseteq forced \cup {c}
    BY <1>1
  <1> QED BY <1>1, <1>2, <1>8, <1>13, <1>14, <1>15, <1>16, CardStep

LEMMA BoardInv ==
  ASSUME CInv, IInv', Produce
  PROVE  CInv'
  <1>1. CASE \E c \in Card : Start(c) \/ Deliver(c) \/ Regroup(c) \/ Claim(c) \/ Archive(c)
    BY <1>1, Starts, DeliversOrRegroups, Reclaims, ArchivesOne
  <1>2. CASE \E c \in Card : GitChanges(c)
    BY <1>2 DEF GitChanges, Edit, board, sessions, CInv, CardsOK, DispatchesOK, MembersOK, MemberOK,
                RoundKnown, Claimed, Members, RequestsOK
  <1>3. CASE \E c \in Card, id \in Id, kind \in {"fix", "wrap-up"} : prepareDispatch(c, id, kind)
    BY <1>3, PreparesOne
  <1>4. CASE \E id \in Id : /\ disp[id] # None
                            /\ \/ Accept(id) \/ ReauthorizeDispatch(id)
                               \/ \E g \in Commit : Complete(id, g)
                               \/ \E s \in {"failed", "cancelled"} : EndDispatch(id, s)
    BY <1>4, Accepts, Reauthorizes, Completes, Ends
  <1> QED BY <1>1, <1>2, <1>3, <1>4 DEF Produce

-----------------------------------------------------------------------------
(* What a checkpoint says of a member.                                       *)

LEMMA LinksType ==
  ASSUME NEW hs \in Seq(Handoff), NEW from
  PROVE  LinksOf(hs, from) \in Seq(Handoff)
  <1> DEFINE I == {i \in 1 .. Len(hs) : hs[i].old = from}
  <1>1. SelectInSeq(hs, LAMBDA h : h.old = from) = IF I # {} THEN Min(I) ELSE 0
    BY DEF SelectInSeq
  <1>2. CASE I = {}
    <2>1. LinksOf(hs, from) = <<>>
      BY <1>2, NoLinks
    <2> QED BY <2>1
  <1>3. CASE I # {}
    <2>1. I \in SUBSET Nat
      OBVIOUS
    <2>2. PICK n \in I : \A m \in I : n <= m
      BY <1>3, <2>1, Least
    <2>3. Min(I) \in I
      BY <2>2 DEF Min
    <2>4. PICK first \in 1 .. Len(hs) : first = Min(I)
      <3>1. Min(I) \in 1 .. Len(hs)
        BY <2>3
      <3> HIDE DEF I
      <3> QED BY <3>1
    <2>5. SelectInSeq(hs, LAMBDA h : h.old = from) = first /\ first # 0
      BY <1>1, <1>3, <2>4
    <2>6. LinksOf(hs, from) = SubSeq(hs, first, Len(hs))
      BY <2>5 DEF LinksOf
    <2>7. Len(hs) \in Nat /\ \A i \in first .. Len(hs) : hs[i] \in Handoff
      OBVIOUS
    <2> QED BY <2>6, <2>7, SubSeqProperties
  <1> QED BY <1>2, <1>3

\* A binding names a dispatch, whose present grant it is.
LEMMA TheRound ==
  ASSUME CInv, NEW c \in Card
  PROVE  \/ card[c].bound = Unbound /\ card[c].bound.id = None
         \/ \E id \in Id, d \in Dispatch :
              /\ id = card[c].bound.id /\ d = disp[id] /\ disp[id] # None /\ d.task = c
              /\ card[c].bound = [id |-> id, epoch |-> d.epoch] /\ card[c].bound # Unbound /\ id # None
              /\ DispatchOK(id, d, card[c])
  <1>1. CASE card[c].bound = Unbound
    BY <1>1 DEF Unbound
  <1>2. CASE card[c].bound # Unbound
    <2>1. PICK id \in Id : Bound(c, id)
      BY <1>2 DEF CInv, IInv, BoundOK
    <2>2. disp[id] \in Dispatch
      BY <2>1 DEF Bound, CInv, IInv, BoundOK
    <2>3. DispatchOK(id, disp[id], card[c])
      BY <2>1 DEF Bound, CInv, DispatchesOK
    <2> QED BY <1>2, <2>1, <2>2, <2>3, CoordinatorAssumption DEF Bound, Auth
  <1> QED BY <1>1, <1>2

LEMMA FirstMemberOK ==
  ASSUME CInv, NEW c \in Card
  PROVE  MemberOK(c, FirstMember(c))
  <1>1. PICK x \in CardRec : x = card[c] /\ Lives(x)
    BY CardFacts
  <1>2. x.rev \in Nat /\ x.cycle \in Nat
    BY DEF CardRec
  <1>3. PICK m : m = FirstMember(c)
    OBVIOUS
  <1>4. /\ m.rev = x.rev /\ m.place = x.place /\ m.cycle = x.cycle
        /\ m.awaiting = (x.cycle = 0 /\ x.place \in {"todo", "backlog"})
        /\ m.delivery = None /\ m.dispatch = None /\ m.released = {} /\ m.handoffs = <<>>
    BY <1>1, <1>3 DEF FirstMember
  <1>5. m.awaiting \in BOOLEAN /\ (m.awaiting => m.cycle = 0)
    BY <1>4
  <1>6. MemberType(m)
    BY <1>1, <1>2, <1>4, <1>5, EmptySeq DEF MemberType, Lives
  <1>7. CopiedFrom(m, x)
    BY <1>4 DEF CopiedFrom
  <1> QED BY <1>1, <1>2, <1>3, <1>4, <1>6, <1>7 DEF MemberOK

LEMMA NextMemberOK ==
  ASSUME CInv, NEW c \in Card, NEW old, MemberOK(c, old), NEW o, Acceptable(c, old, o)
  PROVE  MemberOK(c, NextMember(c, old, o))
  <1>1. PICK x \in CardRec : x = card[c] /\ Lives(x) /\ (c \notin forced => Unbroken(x))
    BY CardFacts
  <1>2. x.rev \in Nat /\ x.cycle \in Nat /\ x.handoffs \in Seq(Handoff)
    BY DEF CardRec
  <1>3. MemberType(old) /\ old.cycle <= x.cycle /\ old.cycle \in Nat /\ old.handoffs \in Seq(Handoff)
        /\ (\A id \in old.released : \E r \in x.releases : r.id = id)
        /\ (c \notin forced => CopiedFrom(old, x))
    BY <1>1 DEF MemberOK, MemberType
  <1>4. PICK m : m = NextMember(c, old, o)
    OBVIOUS
  <1>5. /\ m.rev = x.rev /\ m.place = x.place /\ m.cycle = x.cycle
        /\ m.awaiting = StillAwaits(c, old)
        /\ m.delivery = IF o.commit # None THEN o.commit ELSE Kept(c, old)
        /\ m.dispatch = IF x.bound.id = None THEN None
                        ELSE [id |-> x.bound.id, epoch |-> disp[x.bound.id].epoch,
                              state |-> disp[x.bound.id].state]
        /\ m.released = old.released \cup
             (IF x.bound.id = None /\ old.dispatch # None THEN {old.dispatch.id} ELSE {})
        /\ m.handoffs = old.handoffs \o (IF Replaced(c, old) THEN Links(c, old.cycle) ELSE <<>>)
    BY <1>1, <1>4 DEF NextMember
  <1>6. Awaits(old) => old.cycle = 0
    BY <1>3 DEF Awaits, MemberType
  <1>7. Replaced(c, old) <=> x.cycle # old.cycle /\ old.cycle # 0
    BY <1>1, <1>3 DEF Replaced, StillAwaits, MemberType
  <1>8. m.awaiting \in BOOLEAN /\ (m.awaiting => m.cycle = 0)
    BY <1>1, <1>5, <1>6 DEF StillAwaits
  <1>9. m.dispatch # None => RoundKnown(c, m.dispatch)
    <2> SUFFICES ASSUME m.dispatch # None PROVE RoundKnown(c, m.dispatch)
      OBVIOUS
    <2>1. x.bound.id # None
      BY <1>5
    <2>2. PICK id \in Id, d \in Dispatch : id = x.bound.id /\ d = disp[id] /\ disp[id] # None /\ d.task = c
      BY <1>1, <2>1, TheRound
    <2>3. PICK r : r = [id |-> id, epoch |-> d.epoch, state |-> d.state]
      OBVIOUS
    <2>4. r = m.dispatch /\ r \in Dispatched /\ r.id = id /\ r.epoch = d.epoch /\ r.state = d.state
      BY <1>5, <2>1, <2>2, <2>3, RoundTypes DEF Dispatched
    <2> QED BY <2>2, <2>4 DEF RoundKnown, Knows
  <1>10. \A id \in m.released : \E r \in x.releases : r.id = id
    <2>1. CASE x.bound.id = None /\ old.dispatch # None
      <3>1. card[c].bound = Unbound
        BY <1>1, <2>1, TheRound
      <3>2. old.dispatch.id \in {r.id : r \in x.releases}
        BY <1>1, <2>1, <3>1 DEF Acceptable, UnboundRound
      <3> QED BY <1>3, <1>5, <3>2
    <2>2. CASE ~(x.bound.id = None /\ old.dispatch # None)
      BY <1>3, <1>5, <2>2
    <2> QED BY <2>1, <2>2
  <1>11. CASE ~Replaced(c, old)
    <2>1. m.handoffs = old.handoffs
      BY <1>3, <1>5, <1>11
    <2>2. m.cycle = 0 => /\ m.place = "todo" /\ m.dispatch = None /\ m.delivery = None
                         /\ m.handoffs = <<>>
      <3> SUFFICES ASSUME x.cycle = 0
                   PROVE  m.place = "todo" /\ m.dispatch = None /\ m.delivery = None /\ m.handoffs = <<>>
        BY <1>5
      <3>1. old.cycle = 0 /\ x.place = "todo" /\ x.bound = Unbound
        BY <1>1, <1>3 DEF Lives
      <3>2. m.handoffs = <<>> /\ old.delivery = None
        BY <1>3, <2>1, <3>1 DEF MemberType
      <3>3. m.dispatch = None
        BY <1>5, <3>1 DEF Unbound
      <3>4. o.commit = None
        BY <1>1, <3>1 DEF Acceptable, UnboundRound, Handed
      <3>5. m.delivery = None
        BY <1>5, <1>11, <3>2, <3>4 DEF Kept
      <3> QED BY <1>5, <3>1, <3>2, <3>3, <3>5
    <2>3. MemberType(m)
      BY <1>2, <1>3, <1>5, <1>8, <2>1, <2>2 DEF MemberType
    <2>4. c \notin forced => CopiedFrom(m, x)
      <3> SUFFICES ASSUME c \notin forced, old.handoffs # <<>> PROVE CopiedFrom(m, x)
        BY <2>1 DEF CopiedFrom
      <3>1. old.cycle # 0
        BY <1>3 DEF MemberType
      <3>2. m.cycle = old.cycle
        BY <1>5, <1>7, <1>11, <3>1
      <3> QED BY <1>3, <2>1, <3>2 DEF CopiedFrom
    <2> QED BY <1>1, <1>2, <1>4, <1>5, <1>9, <1>10, <2>3, <2>4 DEF MemberOK
  <1>12. CASE Replaced(c, old)
    <2>1. PICK ms \in Seq(Handoff), ls \in Seq(Handoff) :
            ms = old.handoffs /\ ls = Links(c, old.cycle)
      BY <1>1, <1>2, <1>3, LinksAre, LinksType
    <2>2. PICK n \in Nat, k \in Nat, p \in Nat, q \in Nat :
            n = Len(ms) /\ k = Len(ls) /\ p = old.cycle /\ q = x.cycle
      BY <1>2, <1>3
    <2>3. p < q /\ p >= 1
      BY <1>3, <1>7, <1>12, <2>2
    <2>4. PICK ys \in Seq(Handoff) :
            /\ ys = m.handoffs /\ Len(ys) = n + k /\ (\A i \in 1 .. n : ys[i] = ms[i])
            /\ \A i \in 1 .. k : ys[n + i] = ls[i]
      <3>1. m.handoffs = ms \o ls
        BY <1>5, <1>12, <2>1
      <3>2. /\ ms \o ls \in Seq(Handoff) /\ Len(ms \o ls) = n + k
            /\ \A i \in 1 .. n : (ms \o ls)[i] = ms[i]
            /\ \A i \in 1 .. k : (ms \o ls)[n + i] = ls[i]
        BY <2>2, Join
      <3> QED BY <3>1, <3>2
    <2>5. MemberType(m)
      <3>1. m.cycle # 0
        BY <1>5, <2>2, <2>3
      <3> QED BY <1>2, <1>5, <1>8, <2>4, <3>1 DEF MemberType
    <2>6. c \notin forced => CopiedFrom(m, x)
      <3> SUFFICES ASSUME c \notin forced PROVE CopiedFrom(m, x)
        OBVIOUS
      <3>1. CardOK(card[c], FALSE) /\ Unbroken(x) /\ CopiedFrom(old, x)
        BY <1>1, <1>3 DEF CardOK
      <3>2. p < card[c].cycle
        BY <1>1, <2>2, <2>3
      <3>3. k = q - p /\ \A i \in 1 .. k : ls[i] = x.handoffs[p + i - 1]
        <4>1. /\ Len(Links(c, p)) = card[c].cycle - p
              /\ \A i \in 1 .. card[c].cycle - p : Links(c, p)[i] = card[c].handoffs[p + i - 1]
          BY <2>3, <3>1, <3>2, Chain
        <4> QED BY <1>1, <2>1, <2>2, <4>1
      <3>5. PICK s \in Nat : /\ s >= 1 /\ n = p - s
                             /\ \A i \in 1 .. n : ms[i] = x.handoffs[s + i - 1]
        <4>1. CASE ms = <<>>
          <5>1. n = 0
            BY <2>2, <4>1
          <5> QED BY <2>3, <5>1
        <4>2. CASE ms # <<>>
          <5>1. ms[1] \in Handoff
            BY <4>2, EmptySeq, ElementOfSeq
          <5>2. PICK s \in Nat : s = ms[1].old
            BY <5>1 DEF Handoff
          <5> QED BY <2>1, <2>2, <3>1, <4>2, <5>2 DEF CopiedFrom
        <4> QED BY <4>1, <4>2
      <3>6. \A i \in 1 .. n + k : ys[i] = x.handoffs[s + i - 1]
        <4>1. ASSUME NEW i \in 1 .. n + k PROVE ys[i] = x.handoffs[s + i - 1]
          <5>1. CASE i <= n
            BY <2>4, <3>5, <5>1
          <5>2. CASE ~(i <= n)
            <6>1. PICK j \in 1 .. k : i = n + j
              BY <5>2
            <6>2. ys[i] = ls[j] /\ ls[j] = x.handoffs[p + j - 1]
              BY <2>4, <3>3, <6>1
            <6>3. p + j - 1 = s + i - 1
              BY <3>5, <6>1
            <6> QED BY <6>2, <6>3
          <5> QED BY <5>1, <5>2
        <4> QED BY <4>1
      <3>7. n + k = q - s /\ 1 \in 1 .. n + k
        BY <2>3, <3>3, <3>5
      <3>8. ys[1] = x.handoffs[s] /\ x.handoffs[s].old = s
        <4>1. ys[1] = x.handoffs[s + 1 - 1] /\ s + 1 - 1 = s
          BY <3>6, <3>7
        <4>2. s \in 1 .. q - 1 /\ Len(x.handoffs) = q - 1
          BY <2>2, <2>3, <3>1, <3>5 DEF Unbroken
        <4> QED BY <3>1, <4>1, <4>2 DEF Unbroken, Linked
      <3>9. m.handoffs[1].old = s /\ Len(m.handoffs) = n + k /\ m.cycle = q
            /\ \A i \in 1 .. Len(m.handoffs) : m.handoffs[i] = x.handoffs[s + i - 1]
        BY <1>5, <2>2, <2>4, <3>6, <3>8
      <3> QED BY <3>5, <3>7, <3>9 DEF CopiedFrom
    <2> QED BY <1>1, <1>2, <1>4, <1>5, <1>9, <1>10, <2>5, <2>6 DEF MemberOK
  <1> QED BY <1>11, <1>12

-----------------------------------------------------------------------------
(* The commands of a session.                                                *)

LEMMA Reconciled ==
  ASSUME CInv, NEW k \in Session, Reconcile(k), checkpoint' # checkpoint
  PROVE  /\ Valid(k) /\ Members \subseteq Card /\ Claimed
         /\ UNION {FactsOf(c, req[k].seen[c]) : c \in Members} \subseteq facts[k]
         /\ DOMAIN checkpoint'.members = Members
         /\ \A c \in Members :
              /\ Acceptable(c, checkpoint.members[c], req[k].seen[c])
              /\ MemberOK(c, checkpoint.members[c])
              /\ checkpoint'.members[c] = NextMember(c, checkpoint.members[c], req[k].seen[c])
  <1> DEFINE next == [c \in Members |-> NextMember(c, checkpoint.members[c], req[k].seen[c])]
  <1>1. /\ Valid(k) /\ UNION {FactsOf(c, req[k].seen[c]) : c \in Members} \subseteq facts[k]
        /\ checkpoint' = [checkpoint EXCEPT !.rev = @ + 1, !.members = next, !.last = req[k]]
    BY DEF Reconcile
  <1>2. DOMAIN next = Members
        /\ \A c \in Members : next[c] = NextMember(c, checkpoint.members[c], req[k].seen[c])
    OBVIOUS
  <1> HIDE DEF next
  <1>3. checkpoint'.members = next
    BY <1>1 DEF CInv, IInv, ClaimsOK
  <1>4. Claimed /\ \A c \in Members : Acceptable(c, checkpoint.members[c], req[k].seen[c])
    BY <1>1 DEF Valid
  <1> QED BY <1>1, <1>2, <1>3, <1>4 DEF CInv, MembersOK

LEMMA SessionInv ==
  ASSUME CInv, IInv', NEW k \in Session, Coordinate(k)
  PROVE  CInv'
  <1>1. UNCHANGED <<card, disp, group, forced>>
    BY DEF Coordinate, WriteClaim, ClaimCoordinator, Observe, Collect, Verify, Reconcile, Stop, board
  <1>2. CardsOK' /\ DispatchesOK'
    BY <1>1 DEF CInv, CardsOK, DispatchesOK
  <1>3. RequestsOK'
    <2>1. CASE Observe(k)
      <3>1. PICK told \in [Members -> Commit \cup {None}] :
              req' = [req EXCEPT ![k] =
                [ rev |-> checkpoint.rev, owner |-> k, epoch |-> file[k].epoch + 1,
                  seen |-> [c \in Members |-> [ rev |-> card[c].rev, id |-> card[c].bound.id,
                                                epoch |-> card[c].bound.epoch,
                                                commit |-> told[c] ]] ]]
        BY <2>1 DEF Observe
      <3>2. PICK r : r = [ rev |-> checkpoint.rev, owner |-> k, epoch |-> file[k].epoch + 1,
                  seen |-> [c \in Members |-> [ rev |-> card[c].rev, id |-> card[c].bound.id,
                                                epoch |-> card[c].bound.epoch,
                                                commit |-> told[c] ]] ]
        OBVIOUS
      <3>3. \A c \in DOMAIN r.seen : r.seen[c].commit \in Commit \cup {None}
        BY <3>1, <3>2
      <3>4. DOMAIN req' = Session /\ req'[k] = r /\ \A j \in Session \ {k} : req'[j] = req[j]
        BY <3>1, <3>2 DEF CInv, RequestsOK
      <3> QED BY <3>3, <3>4 DEF CInv, RequestsOK
    <2>2. CASE ~Observe(k)
      <3>1. UNCHANGED req
        BY <2>2 DEF Coordinate, WriteClaim, ClaimCoordinator, Collect, Verify, Reconcile, Stop
      <3> QED BY <3>1 DEF CInv, RequestsOK
    <2> QED BY <2>1, <2>2
  <1>4. ASSUME NEW c, NEW m, MemberOK(c, m) PROVE MemberOK(c, m)'
    BY <1>1, <1>4 DEF MemberOK, RoundKnown
  <1>5. MembersOK'
    <2>1. CASE UNCHANGED checkpoint
      BY <1>4, <2>1 DEF CInv, MembersOK, Claimed, Members
    <2>2. CASE ClaimCoordinator(k)
      <3>1. checkpoint'.members = IF Claimed THEN checkpoint.members ELSE [c \in group |-> FirstMember(c)]
        BY <2>2 DEF ClaimCoordinator
      <3>2. CASE Claimed
        BY <1>4, <3>1, <3>2 DEF CInv, MembersOK, Members
      <3>3. CASE ~Claimed
        <4>1. DOMAIN checkpoint'.members = group /\ group \subseteq Card
              /\ \A c \in group : checkpoint'.members[c] = FirstMember(c)
          BY <3>1, <3>3 DEF CInv, IInv, ClaimsOK
        <4>2. \A c \in group : MemberOK(c, checkpoint'.members[c])
          BY <4>1, FirstMemberOK
        <4>3. \A c \in group : MemberOK(c, checkpoint.members[c])'
          BY <1>1, <4>2 DEF MemberOK, RoundKnown
        <4> QED BY <4>1, <4>3 DEF MembersOK, Members
      <3> QED BY <3>2, <3>3
    <2>3. CASE Reconcile(k) /\ checkpoint' # checkpoint
      <3>1. /\ DOMAIN checkpoint'.members = Members /\ Members \subseteq Card
            /\ \A c \in Members :
                 /\ Acceptable(c, checkpoint.members[c], req[k].seen[c])
                 /\ MemberOK(c, checkpoint.members[c])
                 /\ checkpoint'.members[c] = NextMember(c, checkpoint.members[c], req[k].seen[c])
        BY <2>3, Reconciled
      <3>2. \A c \in Members : MemberOK(c, checkpoint'.members[c])
        BY <3>1, NextMemberOK
      <3>3. \A c \in Members : MemberOK(c, checkpoint.members[c])'
        BY <1>1, <3>2 DEF MemberOK, RoundKnown
      <3>4. Members' = Members
        BY <3>1 DEF Members
      <3> QED BY <3>1, <3>3, <3>4 DEF MembersOK
    <2> QED BY <2>1, <2>2, <2>3 DEF Coordinate, WriteClaim, Observe, Collect, Verify, Stop
  <1> QED BY <1>2, <1>3, <1>5 DEF CInv

LEMMA CInvInit == Init => CInv
  <1> SUFFICES ASSUME Init PROVE CInv
    OBVIOUS
  <1>1. PICK x : x = [ rev |-> 1, place |-> "todo", cycle |-> 0, bound |-> Unbound,
                       releases |-> {}, handoffs |-> <<>> ]
    OBVIOUS
  <1>2. x \in CardRec
    <2>1. Unbound \in [id : Id \cup {None}, epoch : Nat]
      BY DEF Unbound
    <2> QED BY <1>1, <2>1 DEF CardRec, Place
  <1>3. Lives(x) /\ Unbroken(x)
    BY <1>1 DEF Lives, Unbroken
  <1>4. CardsOK
    BY <1>1, <1>2, <1>3 DEF Init, CardsOK, CardOK
  <1>5. DispatchesOK /\ MembersOK /\ RequestsOK
    BY DEF Init, DispatchesOK, MembersOK, Claimed, RequestsOK
  <1> QED BY <1>4, <1>5, InvInit DEF CInv

\* What the records of a card, its rounds and a checkpoint say of each other
\* (stageReclaim, coordinatorDispatchAdvance, lifecycleHandoffs).
THEOREM Records == Spec => []CInv
  <1>1. CInv /\ IInv' /\ [Next]_vars => CInv'
    <2> SUFFICES ASSUME CInv, IInv', [Next]_vars PROVE CInv'
      OBVIOUS
    <2>1. CASE UNCHANGED vars
      BY <2>1 DEF vars, board, sessions, CInv, CardsOK, DispatchesOK, MembersOK, MemberOK, RoundKnown,
                  Claimed, Members, RequestsOK
    <2> QED BY <2>1, BoardInv, SessionInv DEF Next
  <1> QED BY <1>1, CInvInit, Invariant, PTL DEF Spec

\* Where a delivery that is published comes from.
LEMMA Proof ==
  ASSUME CInv, [Next]_vars, NEW k \in Session, Publishes(k), NEW c \in Members,
         checkpoint'.members[c].delivery # None
  PROVE  LET m == checkpoint'.members[c]
             old == checkpoint.members[c]
             id == card[c].bound.id IN
         \/ id # None /\ disp[id].commit = m.delivery
         \/ /\ m.dispatch = None /\ [task |-> c, commit |-> m.delivery] \in facts[k]
            /\ card[c].place = "review"
         \/ m.delivery = old.delivery /\ (m.cycle = old.cycle \/ old.awaiting)
  <1>1. Reconcile(k) /\ checkpoint' # checkpoint
    BY Publishing DEF CInv, Publishes
  <1>2. PICK m, old, o : m = checkpoint'.members[c] /\ old = checkpoint.members[c] /\ o = req[k].seen[c]
    OBVIOUS
  <1>3. /\ Acceptable(c, old, o) /\ MemberOK(c, old) /\ m = NextMember(c, old, o) /\ c \in Card
        /\ FactsOf(c, o) \subseteq facts[k]
    BY <1>1, <1>2, Reconciled
  <1>4. /\ m.delivery = IF o.commit # None THEN o.commit ELSE Kept(c, old)
        /\ m.cycle = card[c].cycle
        /\ m.dispatch = IF card[c].bound.id = None THEN None
                        ELSE [id |-> card[c].bound.id, epoch |-> disp[card[c].bound.id].epoch,
                              state |-> disp[card[c].bound.id].state]
    BY <1>3 DEF NextMember
  <1>5. CASE o.commit # None /\ card[c].bound = Unbound
    <2>1. card[c].bound.id = None /\ card[c].place = "review"
      BY <1>3, <1>5 DEF Unbound, Acceptable, UnboundRound, Handed
    <2>2. [task |-> c, commit |-> o.commit] \in FactsOf(c, o)
      BY <1>5, <2>1 DEF FactsOf
    <2> QED BY <1>2, <1>3, <1>4, <1>5, <2>1, <2>2
  <1>6. CASE o.commit # None /\ card[c].bound # Unbound
    <2>1. card[c].bound.id # None
      BY <1>3, <1>6, TheRound
    <2>2. o.commit = disp[card[c].bound.id].commit
      BY <1>3, <1>6 DEF Acceptable, BoundRound
    <2> QED BY <1>2, <1>4, <1>6, <2>1, <2>2
  <1>7. CASE o.commit = None
    <2>1. ~Replaced(c, old) /\ m.delivery = old.delivery /\ old.delivery # None
      BY <1>2, <1>4, <1>7 DEF Kept
    <2>2. old.cycle # 0 /\ ~old.awaiting
      BY <1>3, <2>1 DEF MemberOK, MemberType
    <2>3. card[c].cycle = old.cycle
      BY <2>1, <2>2 DEF Replaced, StillAwaits
    <2> QED BY <1>2, <1>4, <2>1, <2>3
  <1> QED BY <1>5, <1>6, <1>7

\* Every delivery of a published checkpoint is proved: by a completed receipt, by
\* Git in this very command, or by the checkpoint before (reconcileCoordinatorMember).
THEOREM DeliveriesProved == Spec => DeliveryProved
  <1>1. CInv /\ [Next]_vars =>
          [\A k \in Session : Publishes(k) =>
            \A c \in Members :
              LET m == checkpoint'.members[c]
                  old == checkpoint.members[c]
                  id == card[c].bound.id IN
              m.delivery # None =>
                \/ id # None /\ disp[id].commit = m.delivery
                \/ /\ m.dispatch = None /\ [task |-> c, commit |-> m.delivery] \in facts[k]
                   /\ card[c].place = "review"
                \/ m.delivery = old.delivery /\ (m.cycle = old.cycle \/ old.awaiting)]_vars
    BY Proof
  <1> QED BY <1>1, Records, PTL DEF Spec, DeliveryProved

-----------------------------------------------------------------------------
(* What an honest session sees is accepted.                                  *)

LEMMA KeepsRetained ==
  ASSUME CInv, NEW c \in Card, c \notin forced, NEW m, MemberOK(c, m)
  PROVE  Retained(c, m)
  <1>1. PICK x \in CardRec : x = card[c] /\ CardOK(card[c], FALSE)
    BY CardFacts DEF CardOK
  <1>2. m.released \subseteq {r.id : r \in card[c].releases}
    BY DEF MemberOK
  <1>3. ASSUME m.handoffs # <<>>
        PROVE  /\ Chained(c, m.handoffs[1].old)
               /\ LET ls == Links(c, m.handoffs[1].old) IN
                  Len(ls) >= Len(m.handoffs) /\ SubSeq(ls, 1, Len(m.handoffs)) = m.handoffs
    <2>1. MemberType(m) /\ m.cycle \in Nat /\ m.cycle <= x.cycle /\ x.cycle \in Nat /\ CopiedFrom(m, x)
      BY <1>1 DEF MemberOK, MemberType, CardRec
    <2>2. PICK ms \in Seq(Handoff), n \in Nat : ms = m.handoffs /\ n = Len(ms) /\ n >= 1
      <3>1. m.handoffs \in Seq(Handoff)
        BY <2>1 DEF MemberType
      <3> QED BY <1>3, <3>1, EmptySeq
    <2>3. PICK s \in Nat : s = ms[1].old
      <3>1. ms[1] \in Handoff
        BY <2>2, ElementOfSeq
      <3> QED BY <3>1 DEF Handoff
    <2>4. s >= 1 /\ n = m.cycle - s /\ \A i \in 1 .. n : ms[i] = x.handoffs[s + i - 1]
      BY <1>3, <2>1, <2>2, <2>3 DEF CopiedFrom
    <2>5. s < card[c].cycle
      BY <1>1, <2>1, <2>2, <2>4
    <2>6. PICK q \in Nat, ls \in Seq(Handoff) : q = card[c].cycle /\ ls = Links(c, s)
      BY <1>1, <2>1, <2>4, <2>5, Chain
    <2>7. /\ Chained(c, s) /\ Len(ls) = q - s /\ \A i \in 1 .. q - s : ls[i] = x.handoffs[s + i - 1]
      BY <1>1, <2>4, <2>5, <2>6, Chain
    <2>8. n <= q - s
      BY <1>1, <2>1, <2>4, <2>6
    <2>9. \A i \in 1 .. n : i \in 1 .. q - s /\ i \in 1 .. Len(ls) /\ ls[i] = ms[i] /\ ls[i] \in Handoff
      BY <2>4, <2>7, <2>8, ElementOfSeq
    <2>10. PICK t : t = SubSeq(ls, 1, n)
      OBVIOUS
    <2>11. t \in Seq(Handoff) /\ Len(t) = n /\ \A i \in 1 .. n : t[i] = ls[i]
      <3>1. /\ SubSeq(ls, 1, n) \in Seq(Handoff)
            /\ Len(SubSeq(ls, 1, n)) = IF 1 <= n THEN n - 1 + 1 ELSE 0
            /\ \A i \in 1 .. n - 1 + 1 : SubSeq(ls, 1, n)[i] = ls[1 + i - 1]
        BY <2>9, SubSeqProperties
      <3>2. n - 1 + 1 = n /\ \A i \in 1 .. n : 1 + i - 1 = i
        OBVIOUS
      <3> QED BY <2>2, <2>10, <3>1, <3>2
    <2>12. t = ms
      BY <2>2, <2>9, <2>11, SeqEqual
    <2> QED BY <2>2, <2>3, <2>6, <2>7, <2>8, <2>10, <2>12
  <1> QED BY <1>2, <1>3 DEF Retained

LEMMA TakesCycle ==
  ASSUME CInv, NEW c \in Card, c \notin forced, NEW m, MemberOK(c, m)
  PROVE  CycleAccepted(c, m) /\ card[c].rev >= m.rev
  <1>1. PICK x \in CardRec : x = card[c] /\ Lives(x) /\ CardOK(card[c], FALSE)
    BY CardFacts DEF CardOK
  <1>2. x.rev \in Nat /\ x.cycle \in Nat /\ x.place \in Place
    BY DEF CardRec
  <1>3. /\ MemberType(m) /\ m.rev \in Nat /\ m.cycle \in Nat /\ m.rev <= x.rev /\ m.cycle <= x.cycle
        /\ (m.rev = x.rev => m.cycle = x.cycle)
    BY <1>1 DEF MemberOK, MemberType
  <1>4. CASE m.cycle # x.cycle
    <2>1. x.rev > m.rev /\ x.cycle # 0 /\ m.cycle < x.cycle
      BY <1>2, <1>3, <1>4
    <2>2. Started(c)
      BY <1>1, <1>2, <2>1 DEF Lives, Place, Started
    <2>3. CASE m.cycle = 0
      <3>1. Awaits(m)
        BY <1>3, <2>3 DEF MemberType, Awaits
      <3> QED BY <1>1, <1>2, <1>3, <2>1, <2>2, <2>3, <3>1 DEF CycleAccepted, FirstBound
    <2>4. CASE m.cycle # 0
      <3>1. ~Awaits(m)
        BY <1>3, <2>4 DEF MemberType, Awaits
      <3>2. m.cycle >= 1 /\ m.cycle < card[c].cycle
        BY <1>1, <1>3, <2>1, <2>4
      <3>3. Chained(c, m.cycle)
        BY <1>1, <1>3, <3>2, Chain
      <3> QED BY <1>1, <1>2, <1>3, <2>1, <2>2, <3>1, <3>3 DEF CycleAccepted, HandedOver
    <2> QED BY <2>3, <2>4
  <1> QED BY <1>1, <1>2, <1>3, <1>4 DEF CycleAccepted

LEMMA HonestlyTaken ==
  ASSUME CInv, Claimed, NEW c \in Members, c \notin forced
  PROVE  Overtaken(c) \/ Reconciles(c)
  <1>1. c \in Card /\ MemberOK(c, checkpoint.members[c])
    BY DEF CInv, MembersOK
  <1>2. PICK m : m = checkpoint.members[c]
    OBVIOUS
  <1>3. Retained(c, m) /\ CycleAccepted(c, m) /\ card[c].rev >= m.rev
    BY <1>1, <1>2, KeepsRetained, TakesCycle
  <1>4. m.dispatch # None =>
          /\ m.dispatch.id \in Id /\ disp[m.dispatch.id] # None /\ disp[m.dispatch.id].task = c
          /\ disp[m.dispatch.id] \in Dispatch /\ m.dispatch.epoch \in Nat
          /\ Knows(m.dispatch, disp[m.dispatch.id])
          /\ DispatchOK(m.dispatch.id, disp[m.dispatch.id], card[c])
    BY <1>1, <1>2 DEF MemberOK, RoundKnown, Dispatched, CInv, IInv, BoundOK, DispatchesOK
  <1>5. m.dispatch # None => Advances(m.dispatch, m.dispatch.id)
    BY <1>4 DEF Knows, Advances
  <1>6. CASE card[c].bound = Unbound
    <2> SUFFICES ASSUME ~Overtaken(c) PROVE Reconciles(c)
      OBVIOUS
    <2>1. PICK o : o = Honest(c, None)
      OBVIOUS
    <2>2. o.rev = card[c].rev /\ o.id = None /\ o.epoch = 0 /\ o.commit = None
      BY <1>6, <2>1 DEF Honest, Unbound
    <2>3. m.dispatch # None => m.dispatch.id \in {r.id : r \in card[c].releases}
      <3> SUFFICES ASSUME m.dispatch # None PROVE m.dispatch.id \in {r.id : r \in card[c].releases}
        OBVIOUS
      <3>1. disp[m.dispatch.id].state # "completed"
        BY <1>2, <1>6 DEF Overtaken
      <3>2. card[c].bound.id # m.dispatch.id
        BY <1>4, <1>6, CoordinatorAssumption DEF Unbound
      <3>3. \E r \in card[c].releases : r.id = m.dispatch.id
        BY <1>4, <3>1, <3>2 DEF DispatchOK
      <3> QED BY <3>3
    <2>4. UnboundRound(c, m, o)
      BY <1>5, <2>2, <2>3 DEF UnboundRound
    <2>5. Acceptable(c, m, o)
      BY <1>3, <1>6, <2>2, <2>4 DEF Acceptable, Expect
    <2> QED BY <1>2, <2>1, <2>5 DEF Reconciles
  <1>7. CASE card[c].bound # Unbound
    <2>1. PICK id \in Id, d \in Dispatch :
              /\ id = card[c].bound.id /\ d = disp[id] /\ d.task = c
              /\ card[c].bound = [id |-> id, epoch |-> d.epoch]
              /\ DispatchOK(id, d, card[c])
      BY <1>1, <1>7, TheRound
    <2>2. PICK g \in Commit \cup {None} : g = d.commit
      BY RoundTypes
    <2>3. PICK o : o = Honest(c, g)
      OBVIOUS
    <2>4. o.rev = card[c].rev /\ o.id = id /\ o.epoch = d.epoch /\ o.commit = d.commit
      BY <2>1, <2>2, <2>3 DEF Honest
    <2>5. m.dispatch # None => Advances(m.dispatch, id)
      <3> SUFFICES ASSUME m.dispatch # None, m.dispatch.id # id PROVE Advances(m.dispatch, id)
        BY <1>5
      <3>1. disp[m.dispatch.id].epoch \in Nat /\ disp[m.dispatch.id].epoch >= m.dispatch.epoch
        BY <1>4, RoundTypes DEF Knows
      <3>2. ~Live(m.dispatch.id)
        BY <1>4, <2>1 DEF DispatchOK, Live
      <3> QED BY <3>1, <3>2 DEF Advances
    <2>6. BoundRound(c, m, o)
      BY <2>1, <2>4, <2>5 DEF BoundRound, DispatchOK
    <2>7. Acceptable(c, m, o)
      BY <1>3, <1>7, <2>4, <2>6 DEF Acceptable, Expect
    <2> QED BY <1>2, <2>2, <2>3, <2>7 DEF Reconciles
  <1> QED BY <1>6, <1>7

\* However much a session has missed, an honest observation of a member is
\* accepted, unless its card was claimed without a release or a released round
\* overtook the one the checkpoint knows (lifecycleHandoffs, coordinatorDispatchAdvance).
THEOREM AlwaysReconcilable == Spec => []Reconcilable
  <1>1. CInv => Reconcilable
    BY HonestlyTaken DEF Reconcilable
  <1> QED BY <1>1, Records, PTL
=============================================================================
