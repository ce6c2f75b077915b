----------------------- MODULE DurableDispatchProofs -----------------------
(* That the dispatch protocol implements ExecutionGrants, for any number of  *)
(* senders, agents, dispatches and faults; and with it that one authority is *)
(* open and that the work of a grant is begun once.                          *)
(*                                                                           *)
(* The invariant has two halves.  Core speaks of what is stored: the card's  *)
(* authority, the dispatches, the receipts, the grants issued.  Only five    *)
(* kinds of steps change any of it (Granting, Ending, Attempting, Accepting, *)
(* Completing), and each kind is one lemma about Core and about the step of  *)
(* ExecutionGrants it is.  Locked speaks of the agent whose receipt is being *)
(* published: its grant is still the card's when the transaction ends.       *)
(*                                                                           *)
(* The second half (HInv) is what a command in flight may rely on although   *)
(* it holds only the delivery lease: what it has read of its dispatch, the   *)
(* exit it has seen, the session it aims at.  The lease keeps every other    *)
(* command from telling anybody of the same grant, the card's revision tells *)
(* whether anything else has changed.  Two action properties follow: an      *)
(* answer after the deadline loses, and accepted work is granted anew only   *)
(* after its executor is gone.                                               *)
EXTENDS DurableDispatch, SequenceTheorems, TLAPS

CoreType ==
  /\ bound \in Token \cup {Unbound}
  /\ disp \in [Id -> Dispatch \cup {None}]
  /\ receipts \in [Stage \X Token -> Receipt \cup {None}]
  /\ started \in [Token -> Nat]
  /\ issued \in Seq(Token)

BoundKnown == bound # Unbound => disp[bound.id] # None

IssuedKnown ==
  \A i \in 1..Len(issued) :
    disp[issued[i].id] # None /\ issued[i].epoch <= disp[issued[i].id].epoch

IssuedOnce == \A i, j \in 1..Len(issued) : issued[i] = issued[j] => i = j

\* The only grant that can still change is the newest.
NewestLive ==
  \A id \in Id : Live(id) => Len(issued) > 0 /\ issued[Len(issued)] = Auth(id)

CompletedSettled ==
  \A t \in Token : receipts[<<"completed", t>>] # None =>
    disp[t.id] # None /\ disp[t.id].state = "completed" /\ disp[t.id].epoch = t.epoch

\* What was begun can not be offered again.
BegunAccepted ==
  \A t \in Token : started[t] # 0 =>
    /\ started[t] = 1 /\ disp[t.id] # None
    /\ t.epoch <= disp[t.id].epoch
    /\ t.epoch = disp[t.id].epoch => disp[t.id].state \in {"accepted"} \cup Terminal

Core == /\ CoreType /\ BoundKnown /\ OneLiveAuthority
        /\ IssuedKnown /\ IssuedOnce /\ NewestLive
        /\ CompletedSettled /\ BegunAccepted

GrantSeq == [i \in 1..Len(issued) |-> [token |-> issued[i], status |-> StatusOf(issued[i])]]
Status == {"offered", "accepted", "completed", "revoked"}
GrantRec == [token : Token, status : Status]

-----------------------------------------------------------------------------
(* Small facts.                                                              *)

LEMMA LenIssued ==
  ASSUME CoreType
  PROVE  /\ Len(issued) \in Nat
         /\ \A i \in 1..Len(issued) : issued[i] \in Token
  BY LenProperties, ElementOfSeq DEF CoreType

LEMMA StatusType == \A t : StatusOf(t) \in Status
  BY DEF StatusOf, Status

LEMMA SeqOf ==
  ASSUME NEW S, NEW n \in Nat, NEW f \in [1..n -> S]
  PROVE  f \in Seq(S) /\ Len(f) = n
  BY SeqDef

LEMMA GrantSeqType ==
  ASSUME CoreType
  PROVE  GrantSeq \in Seq(GrantRec) /\ Len(GrantSeq) = Len(issued)
  <1>1. GrantSeq \in [1..Len(issued) -> GrantRec]
    BY LenIssued, StatusType DEF GrantSeq, GrantRec
  <1> QED BY <1>1, LenIssued, SeqOf

LEMMA TokenFields ==
  /\ \A t \in Token : t.id \in Id /\ t.epoch \in 1..MaxEpoch /\ t # Unbound
  /\ \A t, u \in Token : t.id = u.id /\ t.epoch = u.epoch => t = u
  /\ \A id \in Id, e \in 1..MaxEpoch : [id |-> id, epoch |-> e] \in Token
  /\ Unbound.id \notin Id
  BY DurableDispatchAssumption DEF Token, Unbound

LEMMA AuthToken ==
  ASSUME CoreType, NEW id \in Id, disp[id] # None
  PROVE  disp[id] \in Dispatch /\ Auth(id) \in Token
  BY DEF CoreType, Auth, Dispatch, Token

-----------------------------------------------------------------------------
(* A new grant: PrepareDispatch, ReauthorizeDispatch, AuthorizeDispatchWrapUp *)

Granting(id, d) ==
  /\ d.state = "prepared"
  /\ disp[id] = None \/ (Live(id) /\ d.epoch > disp[id].epoch)
  /\ \A o \in Id : Live(o) => o = id
  /\ disp' = [disp EXCEPT ![id] = d]
  /\ bound' = [id |-> id, epoch |-> d.epoch]
  /\ issued' = Append(issued, bound')
  /\ UNCHANGED <<receipts, started>>

LEMMA GrantingCore ==
  ASSUME Core, NEW id \in Id, NEW d \in Dispatch, Granting(id, d)
  PROVE  /\ Core'
         /\ Len(issued') = Len(issued) + 1
         /\ \A i \in 1..Len(issued) : issued'[i] = issued[i] /\ issued[i] # bound'
         /\ issued'[Len(issued) + 1] = bound'
  <1>1. d # None /\ d.epoch \in 1..MaxEpoch
    BY NoneAssumption DEF Dispatch
  <1>2. bound' \in Token /\ bound'.id = id /\ bound'.epoch = d.epoch
    BY <1>1, TokenFields DEF Granting
  <1>3. disp'[id] = d /\ \A o \in Id : o # id => disp'[o] = disp[o]
    BY DEF Granting, Core, CoreType
  <1>4. /\ issued' \in Seq(Token) /\ Len(issued') = Len(issued) + 1
        /\ \A i \in 1..Len(issued) : issued'[i] = issued[i]
        /\ issued'[Len(issued) + 1] = bound'
    BY <1>2, AppendProperties DEF Granting, Core, CoreType
  <1>5. CoreType'
    BY <1>1, <1>2, <1>4 DEF Granting, Core, CoreType
  <1>6. Len(issued) \in Nat /\ \A i \in 1..Len(issued) : issued[i] \in Token
    BY LenIssued DEF Core
  <1>7. \A o \in Id : disp[o] # None => disp[o].epoch \in Nat
    BY DEF Core, CoreType, Dispatch
  <1>8. \A i \in 1..Len(issued) : issued[i].id = id => issued[i].epoch < d.epoch
    <2> SUFFICES ASSUME NEW i \in 1..Len(issued), issued[i].id = id PROVE issued[i].epoch < d.epoch
      OBVIOUS
    <2>1. disp[id] # None /\ issued[i].epoch <= disp[id].epoch
      BY DEF Core, IssuedKnown
    <2>2. disp[id].epoch < d.epoch
      BY <2>1, <1>1, <1>7 DEF Granting
    <2>3. issued[i].epoch \in Nat
      BY <1>6, TokenFields
    <2> QED BY <1>1, <1>7, <2>1, <2>2, <2>3
  <1>9. \A i \in 1..Len(issued) : issued[i] # bound'
    BY <1>1, <1>2, <1>6, <1>8, TokenFields
  <1>10. BoundKnown'
    BY <1>1, <1>2, <1>3 DEF BoundKnown
  <1>11. OneLiveAuthority'
    BY <1>3 DEF Granting, OneLiveAuthority, Live, Auth
  <1>12. IssuedKnown'
    <2> SUFFICES ASSUME NEW i \in 1..Len(issued')
                 PROVE  disp'[issued'[i].id] # None /\ issued'[i].epoch <= disp'[issued'[i].id].epoch
      BY DEF IssuedKnown
    <2>1. CASE i = Len(issued) + 1
      BY <1>1, <1>2, <1>3, <1>4, <2>1
    <2>2. CASE i # Len(issued) + 1
      <3>1. i \in 1..Len(issued)
        BY <1>4, <1>6, <2>2
      <3>2. issued'[i] = issued[i] /\ issued[i].id \in Id /\ issued[i].epoch \in Nat
        BY <1>4, <1>6, <3>1, TokenFields
      <3>3. CASE issued[i].id = id
        BY <1>1, <1>3, <1>8, <3>1, <3>2, <3>3
      <3>4. CASE issued[i].id # id
        BY <1>3, <3>1, <3>2, <3>4 DEF Core, IssuedKnown
      <3> QED BY <3>3, <3>4
    <2> QED BY <2>1, <2>2
  <1>13. IssuedOnce'
    BY <1>4, <1>6, <1>9 DEF Core, IssuedOnce
  <1>14. NewestLive'
    <2>1. Len(issued') > 0 /\ issued'[Len(issued')] = bound'
      BY <1>4, <1>6
    <2>2. \A o \in Id : Live(o)' => o = id
      BY <1>3 DEF Granting, Live
    <2>3. Auth(id)' = bound'
      BY <1>3 DEF Granting, Auth
    <2> QED BY <2>1, <2>2, <2>3 DEF NewestLive
  <1>15. CompletedSettled'
    <2> SUFFICES ASSUME NEW t \in Token, receipts[<<"completed", t>>] # None
                 PROVE  disp'[t.id] # None /\ disp'[t.id].state = "completed" /\ disp'[t.id].epoch = t.epoch
      BY DEF CompletedSettled, Granting
    <2>1. disp[t.id] # None /\ disp[t.id].state = "completed" /\ disp[t.id].epoch = t.epoch
      BY DEF Core, CompletedSettled
    <2>2. t.id # id /\ t.id \in Id
      BY <2>1, TokenFields DEF Granting, Live, Terminal
    <2> QED BY <1>3, <2>1, <2>2
  <1>16. BegunAccepted'
    <2> SUFFICES ASSUME NEW t \in Token, started[t] # 0
                 PROVE  /\ started[t] = 1 /\ disp'[t.id] # None
                        /\ t.epoch <= disp'[t.id].epoch
                        /\ t.epoch = disp'[t.id].epoch => disp'[t.id].state \in {"accepted"} \cup Terminal
      BY DEF BegunAccepted, Granting
    <2>1. /\ started[t] = 1 /\ disp[t.id] # None
          /\ t.epoch <= disp[t.id].epoch
          /\ t.epoch = disp[t.id].epoch => disp[t.id].state \in {"accepted"} \cup Terminal
      BY DEF Core, BegunAccepted
    <2>2. t.id \in Id /\ t.epoch \in Nat
      BY TokenFields
    <2>3. CASE t.id = id
      <3>1. disp[id].epoch < d.epoch /\ disp[id].epoch \in Nat
        BY <1>1, <1>7, <2>1, <2>3 DEF Granting
      <3>2. t.epoch < d.epoch
        BY <1>1, <2>1, <2>2, <2>3, <3>1
      <3> QED BY <1>1, <1>3, <2>1, <2>2, <2>3, <3>2
    <2>4. CASE t.id # id
      BY <1>3, <2>1, <2>2, <2>4
    <2> QED BY <2>3, <2>4
  <1>17. Core'
    BY <1>5, <1>10, <1>11, <1>12, <1>13, <1>14, <1>15, <1>16 DEF Core
  <1> QED BY <1>4, <1>9, <1>17

\* What was live before is superseded, and nothing else changes.
LEMMA GrantingStatus ==
  ASSUME Core, NEW id \in Id, NEW d \in Dispatch, Granting(id, d)
  PROVE  /\ StatusOf([id |-> id, epoch |-> d.epoch])' = "offered"
         /\ \A i \in 1..Len(issued) :
              StatusOf(issued[i])' = IF StatusOf(issued[i]) \in {"offered", "accepted"}
                                     THEN "revoked" ELSE StatusOf(issued[i])
  <1> DEFINE tok == [id |-> id, epoch |-> d.epoch]
  <1>1. d # None /\ d.epoch \in 1..MaxEpoch
    BY NoneAssumption DEF Dispatch
  <1>2. bound' = tok /\ tok \in Token /\ tok.id = id /\ tok.epoch = d.epoch
    BY <1>1, TokenFields DEF Granting
  <1>3. disp'[id] = d /\ \A o \in Id : o # id => disp'[o] = disp[o]
    BY DEF Granting, Core, CoreType
  <1>4. Live(id)' /\ Auth(id)' = tok
    BY <1>1, <1>3 DEF Granting, Live, Auth, Terminal
  <1>5. \A o \in Id : o # id => ~Live(o)'
    BY <1>3 DEF Granting, Live
  <1>6. receipts' = receipts
    BY DEF Granting
  <1>7. receipts[<<"completed", tok>>] = None
    <2>1. SUFFICES ASSUME receipts[<<"completed", tok>>] # None PROVE FALSE
      OBVIOUS
    <2>2. disp[id] # None /\ disp[id].state = "completed"
      BY <1>2, <2>1 DEF Core, CompletedSettled
    <2> QED BY <2>2 DEF Granting, Live, Terminal
  <1>8. StatusOf(tok)' = "offered"
    <2>1. disp'[tok.id].state = "prepared"
      BY <1>2, <1>3 DEF Granting
    <2> QED BY <1>2, <1>4, <1>6, <1>7, <2>1 DEF StatusOf
  <1>9. ASSUME NEW i \in 1..Len(issued)
        PROVE  StatusOf(issued[i])' = IF StatusOf(issued[i]) \in {"offered", "accepted"}
                                      THEN "revoked" ELSE StatusOf(issued[i])
    <2> DEFINE t == issued[i]
    <2>1. issued'[i] = t /\ t \in Token /\ t # tok /\ t.id \in Id
      BY <1>2, GrantingCore, LenIssued, TokenFields DEF Core
    <2>2. ~Live(t.id)' \/ Auth(t.id)' # t
      BY <1>4, <1>5, <2>1
    <2>3. StatusOf(issued[i])' = IF receipts[<<"completed", t>>] # None THEN "completed" ELSE "revoked"
      BY <1>6, <2>1, <2>2 DEF StatusOf
    <2> QED BY <2>3 DEF StatusOf
  <1> QED BY <1>8, <1>9

-----------------------------------------------------------------------------
(* The actions of ExecutionGrants, with the sequence they are about named.   *)

RevokedSeq ==
  [i \in 1..Len(GrantSeq) |->
     IF GrantSeq[i].status \in {"offered", "accepted"} THEN [GrantSeq[i] EXCEPT !.status = "revoked"]
                                                      ELSE GrantSeq[i]]

LEMMA GrantIs ==
  ASSUME NEW t \in Token,
         t \notin {GrantSeq[i].token : i \in 1..Len(GrantSeq)},
         GrantSeq' = Append(RevokedSeq, [token |-> t, status |-> "offered"])
  PROVE  Grants!Next
  BY DEF Grants!Next, Grants!Grant, Grants!Granted, Grants!Revoked, Grants!live,
         GrantSeq, RevokedSeq

LEMMA BecomeIs ==
  ASSUME NEW from, NEW to,
         \/ from = {"offered"} /\ to = "accepted"
         \/ from = {"accepted"} /\ to = "completed"
         \/ from = {"offered", "accepted"} /\ to = "revoked",
         Len(GrantSeq) > 0, GrantSeq[Len(GrantSeq)].status \in from,
         GrantSeq' = [GrantSeq EXCEPT ![Len(GrantSeq)].status = to]
  PROVE  Grants!Next
  BY DEF Grants!Next, Grants!Accept, Grants!Complete, Grants!Revoke, Grants!Become,
         Grants!live, GrantSeq

LEMMA GrantSeqElements ==
  ASSUME CoreType
  PROVE  \A i \in 1..Len(issued) :
           /\ GrantSeq[i] = [token |-> issued[i], status |-> StatusOf(issued[i])]
           /\ GrantSeq[i].token = issued[i]
           /\ GrantSeq[i].status = StatusOf(issued[i])
  BY DEF GrantSeq

LEMMA GrantingRefines ==
  ASSUME Core, NEW id \in Id, NEW d \in Dispatch, Granting(id, d)
  PROVE  Grants!Next
  <1> DEFINE tok == [id |-> id, epoch |-> d.epoch]
             n == Len(issued)
             new == [token |-> tok, status |-> "offered"]
  <1>1. tok \in Token /\ bound' = tok
    BY TokenFields, NoneAssumption DEF Dispatch, Granting
  <1>2. n \in Nat /\ Len(GrantSeq) = n /\ GrantSeq \in Seq(GrantRec)
        /\ \A i \in 1..n : issued[i] \in Token
    BY LenIssued, GrantSeqType DEF Core
  <1>3. CoreType' /\ Len(issued') = n + 1
        /\ (\A i \in 1..n : issued'[i] = issued[i] /\ issued[i] # tok)
        /\ issued'[n + 1] = tok
    BY <1>1, GrantingCore DEF Core
  <1>4. GrantSeq' \in Seq(GrantRec) /\ Len(GrantSeq') = n + 1
    <2>1. GrantSeq' \in [1..(n + 1) -> GrantRec]
      <3>1. \A i \in 1..(n + 1) : issued'[i] \in Token /\ StatusOf(issued[i])' \in Status
        BY <1>3, ElementOfSeq DEF CoreType, StatusOf, Status
      <3> QED BY <1>3, <3>1 DEF GrantSeq, GrantRec
    <2> QED BY <1>2, <2>1, SeqOf
  <1>5. \A i \in 1..n : /\ GrantSeq[i] = [token |-> issued[i], status |-> StatusOf(issued[i])]
                        /\ GrantSeq[i].token = issued[i]
                        /\ GrantSeq[i].status = StatusOf(issued[i])
    BY GrantSeqElements DEF Core
  <1>6. \A i \in 1..(n + 1) : GrantSeq'[i] = [token |-> issued'[i], status |-> StatusOf(issued[i])']
    BY <1>3 DEF GrantSeq
  <1>7. tok \notin {GrantSeq[i].token : i \in 1..Len(GrantSeq)}
    <2> SUFFICES ASSUME NEW i \in 1..n, GrantSeq[i].token = tok PROVE FALSE
      BY <1>2
    <2>1. GrantSeq[i].token = issued[i]
      BY <1>5
    <2> QED BY <1>3, <2>1
  <1>8. RevokedSeq \in [1..n -> GrantRec]
        /\ \A i \in 1..n : RevokedSeq[i] = [token |-> issued[i],
             status |-> IF StatusOf(issued[i]) \in {"offered", "accepted"} THEN "revoked"
                        ELSE StatusOf(issued[i])]
    <2>1. DOMAIN RevokedSeq = 1..n /\ RevokedSeq = [i \in 1..n |-> RevokedSeq[i]]
      BY <1>2 DEF RevokedSeq
    <2>2. ASSUME NEW i \in 1..n
          PROVE  RevokedSeq[i] = [token |-> issued[i],
             status |-> IF StatusOf(issued[i]) \in {"offered", "accepted"} THEN "revoked"
                        ELSE StatusOf(issued[i])]
      <3>1. RevokedSeq[i] = IF GrantSeq[i].status \in {"offered", "accepted"}
                              THEN [GrantSeq[i] EXCEPT !.status = "revoked"] ELSE GrantSeq[i]
        BY <1>2 DEF RevokedSeq
      <3>2. GrantSeq[i] = [token |-> issued[i], status |-> StatusOf(issued[i])]
        BY <1>5
      <3> QED BY <3>1, <3>2
    <2>3. ASSUME NEW i \in 1..n PROVE RevokedSeq[i] \in GrantRec
      <3> DEFINE st == IF StatusOf(issued[i]) \in {"offered", "accepted"} THEN "revoked"
                       ELSE StatusOf(issued[i])
      <3>1. st \in Status
        BY StatusType DEF Status
      <3>2. issued[i] \in Token
        BY <1>2
      <3>3. RevokedSeq[i] = [token |-> issued[i], status |-> st]
        BY <2>2
      <3> HIDE DEF st
      <3> QED BY <3>1, <3>2, <3>3 DEF GrantRec
    <2> QED BY <2>1, <2>2, <2>3
  <1>9. RevokedSeq \in Seq(GrantRec) /\ Len(RevokedSeq) = n
    BY <1>2, <1>8, SeqOf
  <1>10. new \in GrantRec
    BY <1>1 DEF GrantRec, Status
  <1>11. Append(RevokedSeq, new) \in Seq(GrantRec) /\ Len(Append(RevokedSeq, new)) = n + 1
         /\ (\A i \in 1..n : Append(RevokedSeq, new)[i] = RevokedSeq[i])
         /\ Append(RevokedSeq, new)[n + 1] = new
    BY <1>9, <1>10, AppendProperties
  <1>12. \A i \in 1..(n + 1) : GrantSeq'[i] = Append(RevokedSeq, new)[i]
    <2> TAKE i \in 1..(n + 1)
    <2>1. CASE i \in 1..n
      <3>1. StatusOf(issued[i])' = IF StatusOf(issued[i]) \in {"offered", "accepted"}
                                   THEN "revoked" ELSE StatusOf(issued[i])
        BY <2>1, GrantingStatus
      <3> QED BY <1>3, <1>6, <1>8, <1>11, <2>1, <3>1
    <2>2. CASE i = n + 1
      <3>1. issued'[i] = tok
        BY <1>3, <2>2
      <3>2. StatusOf(issued[i])' = StatusOf(tok)'
        BY <3>1
      <3>3. StatusOf(tok)' = "offered"
        BY GrantingStatus
      <3> QED BY <1>6, <1>11, <2>2, <3>1, <3>2, <3>3
    <2>3. n \in Nat
      BY <1>2
    <2> HIDE DEF n
    <2>4. i \in 1..n \/ i = n + 1
      BY <2>3
    <2> QED BY <2>1, <2>2, <2>4
  <1>13. GrantSeq' = Append(RevokedSeq, new)
    BY <1>4, <1>11, <1>12, SeqEqual
  <1> QED BY <1>1, <1>7, <1>13, GrantIs

-----------------------------------------------------------------------------
(* A dispatch changes under its present grant: it is attempted, or released  *)
(* once more (Keeping), fails or is cancelled (Ending), is accepted or       *)
(* completed by the agent that holds the grant.                              *)

Changing(id, e) ==
  /\ disp[id] # None /\ e.epoch = disp[id].epoch
  /\ disp' = [disp EXCEPT ![id] = e]
  /\ issued' = issued
  /\ \/ bound' = bound
     \/ bound' = Unbound /\ bound = Auth(id) /\ e.state \in Terminal

Keeping(id, e) ==
  /\ Changing(id, e) /\ UNCHANGED <<receipts, started>>
  /\ e.state = disp[id].state \/ (Pending(id) /\ e.state = "delivery-unknown")

Ending(id, e) ==
  /\ Changing(id, e) /\ UNCHANGED <<receipts, started>>
  /\ Live(id) /\ e.state \in {"failed", "cancelled"}

Accepting(id, e, r) ==
  /\ Changing(id, e) /\ Pending(id) /\ e.state = "accepted"
  /\ receipts' = [receipts EXCEPT ![<<"accepted", Auth(id)>>] = r]
  /\ started' = started \/ started' = [started EXCEPT ![Auth(id)] = @ + 1]

Completing(id, e, r) ==
  /\ Changing(id, e) /\ disp[id].state = "accepted" /\ e.state = "completed"
  /\ receipts' = [receipts EXCEPT ![<<"completed", Auth(id)>>] = r]
  /\ started' = started

LEMMA ChangingDisp ==
  ASSUME Core, NEW id \in Id, NEW e \in Dispatch, Changing(id, e)
  PROVE  /\ e # None /\ disp'[id] = e /\ \A o \in Id : o # id => disp'[o] = disp[o]
         /\ disp' \in [Id -> Dispatch \cup {None}]
         /\ \A o \in Id : disp[o] # None => disp'[o] # None /\ disp'[o].epoch = disp[o].epoch
         /\ \A o \in Id : Auth(o)' = [id |-> o, epoch |-> disp'[o].epoch]
         /\ \A o \in Id : disp[o] # None => Auth(o)' = Auth(o)
         /\ Auth(id) \in Token
  <1>1. e # None /\ disp'[id] = e /\ \A o \in Id : o # id => disp'[o] = disp[o]
    BY NoneAssumption DEF Changing, Core, CoreType
  <1>2. disp' \in [Id -> Dispatch \cup {None}]
    BY DEF Changing, Core, CoreType
  <1>3. \A o \in Id : disp[o] # None => disp'[o] # None /\ disp'[o].epoch = disp[o].epoch
    BY <1>1 DEF Changing
  <1>4. disp[id] # None
    BY DEF Changing
  <1> QED BY <1>1, <1>2, <1>3, <1>4, AuthToken DEF Auth, Core

LEMMA ChangingCore ==
  ASSUME Core, NEW id \in Id, NEW e \in Dispatch, Changing(id, e),
         e.state \notin Terminal => Live(id)
  PROVE  /\ BoundKnown' /\ OneLiveAuthority' /\ IssuedKnown' /\ IssuedOnce' /\ NewestLive'
         /\ bound' \in Token \cup {Unbound}
         /\ issued' \in Seq(Token)
  <1>1. bound' \in Token \cup {Unbound} /\ issued' \in Seq(Token)
    BY DEF Changing, Core, CoreType
  <1>2. \A o \in Id : Live(o)' => Live(o)
    BY ChangingDisp DEF Live
  <1>3. BoundKnown'
    BY <1>1, ChangingDisp, TokenFields DEF Core, BoundKnown, Changing
  <1>4. OneLiveAuthority'
    <2> SUFFICES ASSUME NEW o \in Id, Live(o)' PROVE bound' = Auth(o)'
      BY DEF OneLiveAuthority
    <2>1. Live(o) /\ bound = Auth(o) /\ disp[o] # None /\ Auth(o)' = Auth(o)
      BY <1>2, ChangingDisp DEF Core, OneLiveAuthority, Live
    <2>2. CASE bound' = bound
      BY <2>1, <2>2
    <2>3. CASE bound = Auth(id) /\ e.state \in Terminal
      <3>1. o = id
        BY <2>1, <2>3 DEF Auth
      <3> QED BY <2>3, <3>1, ChangingDisp DEF Live
    <2> QED BY <2>2, <2>3 DEF Changing
  <1>5. IssuedKnown'
    BY ChangingDisp, LenIssued, TokenFields DEF Core, IssuedKnown, Changing
  <1>6. IssuedOnce'
    BY DEF Core, IssuedOnce, Changing
  <1>7. NewestLive'
    <2> SUFFICES ASSUME NEW o \in Id, Live(o)' PROVE Len(issued') > 0 /\ issued'[Len(issued')] = Auth(o)'
      BY DEF NewestLive
    <2>1. Live(o) /\ disp[o] # None /\ Auth(o)' = Auth(o) /\ issued' = issued
      BY <1>2, ChangingDisp DEF Live, Changing
    <2> QED BY <2>1 DEF Core, NewestLive
  <1> QED BY <1>1, <1>3, <1>4, <1>5, <1>6, <1>7

\* What was settled stays settled, and what was begun stays accepted.
LEMMA KeptCore ==
  ASSUME Core, NEW id \in Id, NEW e \in Dispatch, Changing(id, e),
         UNCHANGED <<receipts, started>>, e.state \notin Terminal => Live(id),
         disp[id].state = "completed" => e.state = "completed",
         disp[id].state = "accepted" => e.state \in {"accepted"} \cup Terminal,
         disp[id].state \in Terminal => e.state \in Terminal
  PROVE  Core'
  <1>1. CoreType'
    BY ChangingCore, ChangingDisp DEF Core, CoreType
  <1>2. CompletedSettled'
    <2> SUFFICES ASSUME NEW t \in Token, receipts'[<<"completed", t>>] # None
                 PROVE  disp'[t.id] # None /\ disp'[t.id].state = "completed" /\ disp'[t.id].epoch = t.epoch
      BY DEF CompletedSettled
    <2>1. disp[t.id] # None /\ disp[t.id].state = "completed" /\ disp[t.id].epoch = t.epoch
      BY DEF Core, CompletedSettled
    <2> QED BY <2>1, ChangingDisp, TokenFields
  <1>3. BegunAccepted'
    <2> SUFFICES ASSUME NEW t \in Token, started'[t] # 0
                 PROVE  /\ started'[t] = 1 /\ disp'[t.id] # None
                        /\ t.epoch <= disp'[t.id].epoch
                        /\ t.epoch = disp'[t.id].epoch => disp'[t.id].state \in {"accepted"} \cup Terminal
      BY DEF BegunAccepted
    <2>1. /\ started[t] = 1 /\ disp[t.id] # None /\ t.id \in Id
          /\ t.epoch <= disp[t.id].epoch
          /\ t.epoch = disp[t.id].epoch => disp[t.id].state \in {"accepted"} \cup Terminal
      BY TokenFields DEF Core, BegunAccepted
    <2>2. disp'[t.id] # None /\ disp'[t.id].epoch = disp[t.id].epoch
      BY <2>1, ChangingDisp
    <2>3. t.epoch = disp'[t.id].epoch => disp'[t.id].state \in {"accepted"} \cup Terminal
      BY <2>1, <2>2, ChangingDisp
    <2> QED BY <2>1, <2>2, <2>3
  <1> QED BY <1>1, <1>2, <1>3, ChangingCore DEF Core

LEMMA KeepingCore ==
  ASSUME Core, NEW id \in Id, NEW e \in Dispatch, Keeping(id, e) \/ Ending(id, e)
  PROVE  Core'
  <1>1. Changing(id, e) /\ UNCHANGED <<receipts, started>> /\ disp[id] # None
    BY DEF Keeping, Ending, Changing
  <1>2. CASE Keeping(id, e)
    BY <1>1, <1>2, KeptCore DEF Keeping, Pending, Live, Terminal
  <1>3. CASE Ending(id, e)
    BY <1>1, <1>3, KeptCore DEF Ending, Live, Terminal
  <1> QED BY <1>2, <1>3

LEMMA AcceptingCore ==
  ASSUME Core, NEW id \in Id, NEW e \in Dispatch, NEW r \in Receipt, Accepting(id, e, r)
  PROVE  Core'
  <1> DEFINE u == Auth(id)
  <1>1. Changing(id, e) /\ Live(id) /\ u \in Token /\ u.id = id /\ u.epoch = disp[id].epoch
    BY ChangingDisp DEF Accepting, Pending, Auth
  <1>2. started[u] = 0
    <2>1. disp[id].state \notin {"accepted"} \cup Terminal
      BY DEF Accepting, Pending, Live
    <2> QED BY <1>1, <2>1 DEF Core, BegunAccepted
  <1>3. \A t \in Token : started'[t] = started[t] \/ (t = u /\ started'[t] = 1)
    BY <1>1, <1>2 DEF Accepting, Core, CoreType
  <1>4. CoreType'
    <2>1. receipts' \in [Stage \X Token -> Receipt \cup {None}]
      BY <1>1 DEF Accepting, Core, CoreType
    <2>2. started' \in [Token -> Nat]
      BY <1>1, <1>2 DEF Accepting, Core, CoreType
    <2> QED BY <1>1, <2>1, <2>2, ChangingCore, ChangingDisp DEF CoreType
  <1>5. CompletedSettled'
    <2> SUFFICES ASSUME NEW t \in Token, receipts'[<<"completed", t>>] # None
                 PROVE  disp'[t.id] # None /\ disp'[t.id].state = "completed" /\ disp'[t.id].epoch = t.epoch
      BY DEF CompletedSettled
    <2>1. receipts'[<<"completed", t>>] = receipts[<<"completed", t>>]
      BY DEF Accepting, Core, CoreType, Stage
    <2>2. disp[t.id] # None /\ disp[t.id].state = "completed" /\ disp[t.id].epoch = t.epoch
      BY <2>1 DEF Core, CompletedSettled
    <2>3. t.id # id
      BY <1>1, <2>2 DEF Live, Terminal
    <2> QED BY <1>1, <2>2, <2>3, ChangingDisp, TokenFields
  <1>6. BegunAccepted'
    <2> SUFFICES ASSUME NEW t \in Token, started'[t] # 0
                 PROVE  /\ started'[t] = 1 /\ disp'[t.id] # None
                        /\ t.epoch <= disp'[t.id].epoch
                        /\ t.epoch = disp'[t.id].epoch => disp'[t.id].state \in {"accepted"} \cup Terminal
      BY DEF BegunAccepted
    <2>1. t.id \in Id
      BY TokenFields
    <2>2. disp'[id].state = "accepted" /\ disp'[id].epoch = u.epoch /\ disp'[id] # None
      BY <1>1, ChangingDisp DEF Accepting, Changing
    <2>3. CASE t = u /\ started'[t] = 1
      <3>1. u.epoch \in Nat
        BY <1>1, TokenFields
      <3> QED BY <1>1, <2>2, <2>3, <3>1
    <2>4. CASE started'[t] = started[t]
      <3>1. /\ started[t] = 1 /\ disp[t.id] # None /\ t.epoch <= disp[t.id].epoch
            /\ t.epoch = disp[t.id].epoch => disp[t.id].state \in {"accepted"} \cup Terminal
        BY <2>4 DEF Core, BegunAccepted
      <3>2. disp'[t.id] # None /\ disp'[t.id].epoch = disp[t.id].epoch
        BY <1>1, <2>1, <3>1, ChangingDisp
      <3>3. t.epoch = disp'[t.id].epoch => disp'[t.id].state \in {"accepted"} \cup Terminal
        BY <1>1, <2>1, <2>2, <3>1, <3>2, ChangingDisp
      <3> QED BY <2>4, <3>1, <3>2, <3>3
    <2> QED BY <1>3, <2>3, <2>4
  <1> QED BY <1>1, <1>4, <1>5, <1>6, ChangingCore DEF Core

LEMMA CompletingCore ==
  ASSUME Core, NEW id \in Id, NEW e \in Dispatch, NEW r \in Receipt, Completing(id, e, r)
  PROVE  Core'
  <1> DEFINE u == Auth(id)
  <1>1. Changing(id, e) /\ e.state \in Terminal /\ u \in Token /\ u.id = id
        /\ u.epoch = disp[id].epoch /\ disp[id].state # "completed"
    BY ChangingDisp DEF Completing, Auth, Terminal
  <1>2. disp'[id].state = "completed" /\ disp'[id].epoch = u.epoch /\ disp'[id] # None
    BY <1>1, ChangingDisp DEF Completing, Changing
  <1>3. CoreType'
    <2>1. receipts' \in [Stage \X Token -> Receipt \cup {None}]
      BY <1>1 DEF Completing, Core, CoreType
    <2>2. started' \in [Token -> Nat]
      BY DEF Completing, Core, CoreType
    <2> QED BY <1>1, <2>1, <2>2, ChangingCore, ChangingDisp DEF CoreType
  <1>4. CompletedSettled'
    <2> SUFFICES ASSUME NEW t \in Token, receipts'[<<"completed", t>>] # None
                 PROVE  disp'[t.id] # None /\ disp'[t.id].state = "completed" /\ disp'[t.id].epoch = t.epoch
      BY DEF CompletedSettled
    <2>1. CASE t = u
      BY <1>1, <1>2, <2>1
    <2>2. CASE t # u
      <3>1. receipts'[<<"completed", t>>] = receipts[<<"completed", t>>]
        BY <2>2 DEF Completing, Core, CoreType, Stage
      <3>2. disp[t.id] # None /\ disp[t.id].state = "completed" /\ disp[t.id].epoch = t.epoch
        BY <3>1 DEF Core, CompletedSettled
      <3> QED BY <1>1, <3>2, ChangingDisp, TokenFields
    <2> QED BY <2>1, <2>2
  <1>5. BegunAccepted'
    <2> SUFFICES ASSUME NEW t \in Token, started'[t] # 0
                 PROVE  /\ started'[t] = 1 /\ disp'[t.id] # None
                        /\ t.epoch <= disp'[t.id].epoch
                        /\ t.epoch = disp'[t.id].epoch => disp'[t.id].state \in {"accepted"} \cup Terminal
      BY DEF BegunAccepted
    <2>1. /\ started[t] = 1 /\ disp[t.id] # None /\ t.epoch <= disp[t.id].epoch /\ t.id \in Id
          /\ t.epoch = disp[t.id].epoch => disp[t.id].state \in {"accepted"} \cup Terminal
      BY TokenFields DEF Core, BegunAccepted, Completing
    <2>2. disp'[t.id] # None /\ disp'[t.id].epoch = disp[t.id].epoch
      BY <1>1, <2>1, ChangingDisp
    <2>3. t.epoch = disp'[t.id].epoch => disp'[t.id].state \in {"accepted"} \cup Terminal
      BY <1>1, <1>2, <2>1, <2>2, ChangingDisp DEF Terminal
    <2> QED BY <2>1, <2>2, <2>3 DEF Completing
  <1> QED BY <1>1, <1>3, <1>4, <1>5, ChangingCore DEF Core

-----------------------------------------------------------------------------
(* The step of ExecutionGrants a change is: the newest grant changes, or     *)
(* none does.                                                                *)

\* A grant that is not the present one of its dispatch is settled for good.
LEMMA OtherStatus ==
  ASSUME Core, NEW id \in Id, NEW e \in Dispatch, Changing(id, e),
         NEW t \in Token, t # Auth(id), disp[t.id] # None,
         receipts'[<<"completed", t>>] = receipts[<<"completed", t>>]
  PROVE  StatusOf(t)' = StatusOf(t)
  <1>1. t.id \in Id /\ Auth(t.id)' = Auth(t.id)
    BY TokenFields, ChangingDisp
  <1>2. CASE t.id = id
    <2>1. Auth(t.id)' # t /\ Auth(t.id) # t
      BY <1>1, <1>2
    <2> QED BY <2>1 DEF StatusOf
  <1>3. CASE t.id # id
    <2>1. disp'[t.id] = disp[t.id]
      BY <1>1, <1>3, ChangingDisp
    <2>2. Live(t.id)' = Live(t.id)
      BY <2>1 DEF Live
    <2> QED BY <1>1, <2>1, <2>2 DEF StatusOf
  <1> QED BY <1>2, <1>3

LEMMA GrantSeqPrime ==
  ASSUME Core, issued' = issued
  PROVE  /\ \A i \in 1..Len(issued) : GrantSeq'[i] = [token |-> issued[i], status |-> StatusOf(issued[i])']
         /\ GrantSeq' \in Seq(GrantRec) /\ Len(GrantSeq') = Len(issued)
         /\ Len(issued) \in Nat
  <1>1. Len(issued) \in Nat /\ \A i \in 1..Len(issued) : issued[i] \in Token
    BY LenIssued DEF Core
  <1>2. \A i \in 1..Len(issued) : GrantSeq'[i] = [token |-> issued[i], status |-> StatusOf(issued[i])']
    BY DEF GrantSeq
  <1>3. GrantSeq' \in [1..Len(issued) -> GrantRec]
    <2>1. \A i \in 1..Len(issued) : StatusOf(issued[i])' \in Status
      BY DEF StatusOf, Status
    <2> QED BY <1>1, <2>1 DEF GrantSeq, GrantRec
  <1> QED BY <1>1, <1>2, <1>3, SeqOf

LEMMA Stutter ==
  ASSUME Core, issued' = issued,
         \A i \in 1..Len(issued) : StatusOf(issued[i])' = StatusOf(issued[i])
  PROVE  GrantSeq' = GrantSeq
  <1>1. \A i \in 1..Len(issued) : GrantSeq'[i] = GrantSeq[i]
    BY GrantSeqPrime, GrantSeqElements DEF Core
  <1>2. GrantSeq \in Seq(GrantRec) /\ Len(GrantSeq) = Len(issued)
    BY GrantSeqType DEF Core
  <1> QED BY <1>1, <1>2, GrantSeqPrime, SeqEqual

LEMMA NewestChanges ==
  ASSUME Core, issued' = issued, Len(issued) > 0,
         NEW from \in SUBSET Status, NEW to \in Status,
         \/ from = {"offered"} /\ to = "accepted"
         \/ from = {"accepted"} /\ to = "completed"
         \/ from = {"offered", "accepted"} /\ to = "revoked",
         StatusOf(issued[Len(issued)]) \in from, StatusOf(issued[Len(issued)])' = to,
         \A i \in 1..Len(issued) : i # Len(issued) => StatusOf(issued[i])' = StatusOf(issued[i])
  PROVE  Grants!Next
  <1> DEFINE n == Len(issued)
             changed == [GrantSeq EXCEPT ![n].status = to]
             last == [token |-> issued[n], status |-> to]
  <1>1. n \in 1..n /\ n \in Nat
    BY LenIssued DEF Core
  <1>2. GrantSeq \in Seq(GrantRec) /\ Len(GrantSeq) = n
    BY GrantSeqType DEF Core
  <1>3. /\ GrantSeq[n] = [token |-> issued[n], status |-> StatusOf(issued[n])]
        /\ GrantSeq[n].status = StatusOf(issued[n])
    BY <1>1, GrantSeqElements DEF Core
  <1>4. changed = [GrantSeq EXCEPT ![n] = last]
    <2>1. changed = [GrantSeq EXCEPT ![n] = [GrantSeq[n] EXCEPT !.status = to]]
      OBVIOUS
    <2>2. [GrantSeq[n] EXCEPT !.status = to] = last
      BY <1>3
    <2> HIDE DEF last
    <2> QED BY <2>1, <2>2, Zenon
  <1>5. last \in GrantRec
    BY <1>1, LenIssued DEF GrantRec, Core
  <1>6. changed \in Seq(GrantRec) /\ Len(changed) = n
        /\ \A j \in 1..n : changed[j] = IF j = n THEN last ELSE GrantSeq[j]
    BY <1>1, <1>2, <1>4, <1>5, ExceptSeq
  <1>7. \A i \in 1..n : GrantSeq'[i] = changed[i]
    <2> TAKE i \in 1..n
    <2>1. GrantSeq'[i] = [token |-> issued[i], status |-> StatusOf(issued[i])']
      BY GrantSeqPrime
    <2>2. CASE i = n
      <3>1. StatusOf(issued[i])' = to
        BY <2>2
      <3> QED BY <1>6, <2>1, <2>2, <3>1
    <2>3. CASE i # n
      <3>1. GrantSeq[i] = [token |-> issued[i], status |-> StatusOf(issued[i])]
        BY GrantSeqElements DEF Core
      <3>2. StatusOf(issued[i])' = StatusOf(issued[i])
        BY <2>3
      <3> QED BY <1>6, <2>1, <2>3, <3>1, <3>2
    <2> QED BY <2>2, <2>3
  <1>8. GrantSeq' = changed
    BY <1>2, <1>6, <1>7, GrantSeqPrime, SeqEqual
  <1> QED BY <1>2, <1>3, <1>8, BecomeIs

\* Grants other than the newest do not change; the newest is Auth(id) if live.
LEMMA ChangingNewest ==
  ASSUME Core, NEW id \in Id, NEW e \in Dispatch, Changing(id, e), Live(id),
         \A t \in Token : t # Auth(id) =>
            receipts'[<<"completed", t>>] = receipts[<<"completed", t>>]
  PROVE  /\ issued' = issued /\ Len(issued) > 0 /\ issued[Len(issued)] = Auth(id)
         /\ \A i \in 1..Len(issued) : i # Len(issued) => StatusOf(issued[i])' = StatusOf(issued[i])
         /\ StatusOf(Auth(id)) = IF disp[id].state = "accepted" THEN "accepted" ELSE "offered"
  <1>1. issued' = issued /\ Len(issued) > 0 /\ issued[Len(issued)] = Auth(id)
    BY DEF Changing, Core, NewestLive
  <1>2. Len(issued) \in 1..Len(issued)
    BY <1>1, LenIssued DEF Core
  <1>3. ASSUME NEW i \in 1..Len(issued), i # Len(issued)
        PROVE  StatusOf(issued[i])' = StatusOf(issued[i])
    <2>1. issued[i] \in Token /\ disp[issued[i].id] # None /\ issued[i] # Auth(id)
      BY <1>1, <1>2, <1>3, LenIssued DEF Core, IssuedKnown, IssuedOnce
    <2>3. \A t \in Token : t = issued[i] => StatusOf(t)' = StatusOf(t)
      BY <2>1, OtherStatus
    <2> QED BY <1>1, <2>1, <2>3 DEF StatusOf
  <1>4. StatusOf(Auth(id)) = IF disp[id].state = "accepted" THEN "accepted" ELSE "offered"
    <2>1. Auth(id) \in Token /\ Auth(id).id = id
      BY ChangingDisp DEF Auth
    <2>2. receipts[<<"completed", Auth(id)>>] = None
      BY <2>1 DEF Core, CompletedSettled, Live, Terminal
    <2> QED BY <2>1, <2>2 DEF StatusOf
  <1> QED BY <1>1, <1>3, <1>4

LEMMA ChangedStatus ==
  ASSUME Core, NEW id \in Id, NEW e \in Dispatch, Changing(id, e),
         NEW u \in Token, u = Auth(id)
  PROVE  StatusOf(u)' = IF receipts'[<<"completed", u>>] # None THEN "completed"
                        ELSE IF e.state \in Terminal THEN "revoked"
                        ELSE IF e.state = "accepted" THEN "accepted" ELSE "offered"
  <1>1. u.id = id /\ disp'[id] = e /\ e # None
    BY ChangingDisp DEF Auth
  <1>2. Auth(u.id)' = u
    <2>1. Auth(id)' = Auth(id)
      BY ChangingDisp DEF Changing
    <2> QED BY <1>1, <2>1
  <1>3. Live(u.id)' <=> e.state \notin Terminal
    BY <1>1 DEF Live
  <1> QED BY <1>1, <1>2, <1>3 DEF StatusOf

LEMMA NewestBecomes ==
  ASSUME Core, NEW id \in Id, NEW e \in Dispatch, Changing(id, e), Live(id),
         \A t \in Token : t # Auth(id) =>
            receipts'[<<"completed", t>>] = receipts[<<"completed", t>>],
         NEW from \in SUBSET Status, NEW to \in Status,
         \/ from = {"offered"} /\ to = "accepted"
         \/ from = {"accepted"} /\ to = "completed"
         \/ from = {"offered", "accepted"} /\ to = "revoked",
         StatusOf(Auth(id)) \in from,
         \A u \in Token : u = Auth(id) => StatusOf(u)' = to
  PROVE  Grants!Next
  <1>1. /\ issued' = issued /\ Len(issued) > 0 /\ issued[Len(issued)] = Auth(id)
        /\ \A i \in 1..Len(issued) : i # Len(issued) => StatusOf(issued[i])' = StatusOf(issued[i])
    BY ChangingNewest
  <1>2. PICK u \in Token : u = Auth(id)
    BY ChangingDisp
  <1>3. StatusOf(u)' = to
    BY <1>2
  <1>4. issued'[Len(issued')] = u
    BY <1>1, <1>2
  <1>5. StatusOf(issued[Len(issued)])' = to
    BY <1>3, <1>4
  <1>6. StatusOf(issued[Len(issued)]) \in from
    BY <1>1
  <1> QED BY <1>1, <1>5, <1>6, NewestChanges

LEMMA EndingRefines ==
  ASSUME Core, NEW id \in Id, NEW e \in Dispatch, Ending(id, e)
  PROVE  Grants!Next
  <1>1. Changing(id, e) /\ Live(id) /\ receipts' = receipts /\ e.state \in {"failed", "cancelled"}
    BY DEF Ending
  <1>2. StatusOf(Auth(id)) \in {"offered", "accepted"}
    BY <1>1, ChangingNewest
  <1>3. receipts[<<"completed", Auth(id)>>] = None
    BY <1>1, ChangingDisp DEF Core, CompletedSettled, Live, Terminal, Auth
  <1>4. \A u \in Token : u = Auth(id) => StatusOf(u)' = "revoked"
    BY <1>1, <1>3, ChangedStatus DEF Terminal
  <1>5. {"offered", "accepted"} \in SUBSET Status /\ "revoked" \in Status
    BY DEF Status
  <1> QED BY <1>1, <1>2, <1>4, <1>5, NewestBecomes

LEMMA AcceptingRefines ==
  ASSUME Core, NEW id \in Id, NEW e \in Dispatch, NEW r \in Receipt, Accepting(id, e, r)
  PROVE  Grants!Next
  <1>1. Changing(id, e) /\ Live(id) /\ e.state = "accepted" /\ disp[id].state # "accepted"
    BY DEF Accepting, Pending
  <1>2. \A t \in Token : receipts'[<<"completed", t>>] = receipts[<<"completed", t>>]
    BY DEF Accepting, Core, CoreType, Stage
  <1>3. StatusOf(Auth(id)) \in {"offered"}
    BY <1>1, <1>2, ChangingNewest
  <1>4. receipts[<<"completed", Auth(id)>>] = None
    BY <1>1, ChangingDisp DEF Core, CompletedSettled, Live, Terminal, Auth
  <1>5. \A u \in Token : u = Auth(id) => StatusOf(u)' = "accepted"
    BY <1>1, <1>2, <1>4, ChangedStatus DEF Terminal
  <1>6. {"offered"} \in SUBSET Status /\ "accepted" \in Status
    BY DEF Status
  <1> QED BY <1>1, <1>2, <1>3, <1>5, <1>6, NewestBecomes

LEMMA CompletingRefines ==
  ASSUME Core, NEW id \in Id, NEW e \in Dispatch, NEW r \in Receipt, Completing(id, e, r)
  PROVE  Grants!Next
  <1>1. Changing(id, e) /\ Live(id) /\ disp[id].state = "accepted"
    BY DEF Completing, Changing, Live, Terminal
  <1>2. \A t \in Token : t # Auth(id) => receipts'[<<"completed", t>>] = receipts[<<"completed", t>>]
    BY DEF Completing, Core, CoreType, Stage
  <1>3. StatusOf(Auth(id)) \in {"accepted"}
    BY <1>1, <1>2, ChangingNewest
  <1>4. Auth(id) \in Token
    BY <1>1, ChangingDisp
  <1>5. receipts'[<<"completed", Auth(id)>>] = r /\ r # None
    BY <1>4, NoneAssumption DEF Completing, Core, CoreType, Stage
  <1>6. \A u \in Token : u = Auth(id) => StatusOf(u)' = "completed"
    BY <1>1, <1>5, ChangedStatus
  <1>7. {"accepted"} \in SUBSET Status /\ "completed" \in Status
    BY DEF Status
  <1> QED BY <1>1, <1>2, <1>3, <1>6, <1>7, NewestBecomes

LEMMA KeepingRefines ==
  ASSUME Core, NEW id \in Id, NEW e \in Dispatch, Keeping(id, e)
  PROVE  GrantSeq' = GrantSeq
  <1>1. Changing(id, e) /\ receipts' = receipts /\ issued' = issued /\ disp[id] # None
    BY DEF Keeping, Changing
  <1>2. \A u \in Token : u = Auth(id) => StatusOf(u)' = StatusOf(u)
    <2> SUFFICES ASSUME NEW u \in Token, u = Auth(id) PROVE StatusOf(u)' = StatusOf(u)
      OBVIOUS
    <2>1. u.id = id /\ Auth(u.id) = u
      BY DEF Auth
    <2>2. Live(id) <=> e.state \notin Terminal
      BY <1>1 DEF Keeping, Pending, Live, Terminal
    <2>3. e.state = "accepted" <=> disp[id].state = "accepted"
      BY DEF Keeping, Pending
    <2> QED BY <1>1, <2>1, <2>2, <2>3, ChangedStatus DEF StatusOf
  <1>3. ASSUME NEW i \in 1..Len(issued) PROVE StatusOf(issued[i])' = StatusOf(issued[i])
    <2>1. issued[i] \in Token /\ disp[issued[i].id] # None
      BY LenIssued DEF Core, IssuedKnown
    <2>2. \A t \in Token : t = issued[i] => StatusOf(t)' = StatusOf(t)
      BY <1>1, <1>2, <2>1, OtherStatus
    <2> QED BY <1>1, <2>1, <2>2 DEF StatusOf
  <1> QED BY <1>1, <1>3, Stutter

-----------------------------------------------------------------------------
(* The processes: what they hold on to while others act.                     *)

ClockType == now \in Nat /\ rev \in Nat

CursorInv ==
  /\ DOMAIN pc = Sender /\ DOMAIN cur = Sender
  /\ \A s \in Sender : pc[s] # "idle" => "id" \in DOMAIN cur[s] /\ cur[s].id \in Id

AgentState == {"dead", "idle", "told", "accepting", "working", "completing"}
TokenInv ==
  /\ agent \in [Agent -> AgentState] /\ DOMAIN token = Agent
  /\ \A m \in mail : m.token.id \in Id
  /\ \A a \in Agent : agent[a] \notin {"dead", "idle"} => token[a].id \in Id

\* While a receipt is being published its grant is the card's, and open.
Locked ==
  /\ lock \in Holder \cup {None}
  /\ \A a \in Agent : agent[a] \in {"accepting", "completing"} =>
       /\ lock # None /\ lock.by = a /\ bound = token[a]
       /\ agent[a] = "accepting" => Pending(token[a].id)
       /\ agent[a] = "completing" => Live(token[a].id) /\ disp[token[a].id].state = "accepted"

IInv == Core /\ ClockType /\ CursorInv /\ TokenInv /\ Locked

coreVars == <<bound, disp, receipts, started, issued>>

LEMMA QuietCore ==
  ASSUME Core, UNCHANGED coreVars
  PROVE  Core' /\ GrantSeq' = GrantSeq
  <1>1. Core'
    BY DEF Core, CoreType, BoundKnown, OneLiveAuthority, IssuedKnown, IssuedOnce, NewestLive,
           CompletedSettled, BegunAccepted, Live, Auth, coreVars
  <1>2. GrantSeq' = GrantSeq
    BY DEF GrantSeq, StatusOf, Live, Auth, coreVars
  <1> QED BY <1>1, <1>2

\* Under a free task lock nobody is publishing.
LEMMA NobodyPublishes ==
  ASSUME Locked, TokenInv, TaskLock, NEW a \in Agent
  PROVE  agent[a] \notin {"accepting", "completing"}
  BY DEF Locked, TaskLock

LEMMA LockedFree ==
  ASSUME Locked, TokenInv, TaskLock, lock' = lock, agent' = agent
  PROVE  Locked'
  BY NobodyPublishes DEF Locked

LEMMA LockedKept ==
  ASSUME Locked, UNCHANGED <<bound, disp, lock, agent, token>>
  PROVE  Locked'
  BY DEF Locked, Pending, Live

\* What a change of state makes of a dispatch.
LEMMA Stated ==
  ASSUME NEW d \in Dispatch, NEW st \in {"accepted"} \cup Terminal
  PROVE  /\ [d EXCEPT !.state = st, !.rev = @ + 1] \in Dispatch
         /\ [d EXCEPT !.state = st, !.rev = @ + 1].state = st
         /\ [d EXCEPT !.state = st, !.rev = @ + 1].epoch = d.epoch
  <1>1. d.rev + 1 \in Nat
    BY DEF Dispatch
  <1> QED BY <1>1 DEF Dispatch

LEMMA Released ==
  ASSUME NEW d \in Dispatch, NEW st \in Terminal
  PROVE  /\ [d EXCEPT !.state = st, !.rev = @ + 1, !.released = TRUE] \in Dispatch
         /\ [d EXCEPT !.state = st, !.rev = @ + 1, !.released = TRUE].state = st
         /\ [d EXCEPT !.state = st, !.rev = @ + 1, !.released = TRUE].epoch = d.epoch
  <1>1. d.rev + 1 \in Nat
    BY DEF Dispatch
  <1> QED BY <1>1 DEF Dispatch

LEMMA RotatedType ==
  ASSUME NEW d \in Dispatch, NEW deadline \in Nat, NEW wrapUp \in BOOLEAN,
         d.epoch + 1 \in 1..MaxEpoch
  PROVE  /\ Rotated(d, deadline, wrapUp) \in Dispatch
         /\ Rotated(d, deadline, wrapUp).state = "prepared"
         /\ Rotated(d, deadline, wrapUp).epoch = d.epoch + 1
  <1>1. d.rev + 1 \in Nat
    BY DEF Dispatch
  <1> QED BY <1>1 DEF Dispatch, Rotated

LEMMA AttemptedType ==
  ASSUME NEW d \in Dispatch
  PROVE  /\ Attempted(d) \in Dispatch /\ Attempted(d).state = "delivery-unknown"
         /\ Attempted(d).epoch = d.epoch
  <1>1. d.rev + 1 \in Nat /\ d.attempts + 1 \in Nat
    BY DEF Dispatch
  <1> QED BY <1>1 DEF Dispatch, Attempted

\* The grants.
LEMMA PrepareStep ==
  ASSUME IInv, NEW id \in Id, NEW kind \in Kinds, PrepareDispatch(id, kind)
  PROVE  \E d \in Dispatch : Granting(id, d)
  <1> DEFINE d == [ kind |-> kind, state |-> "prepared", epoch |-> bound.epoch + 1, rev |-> 1,
                    attempts |-> 0, deadline |-> now + Confirm, wrapUp |-> FALSE,
                    released |-> FALSE ]
  <1>1. bound.epoch + 1 \in 1..MaxEpoch
    <2>1. bound.epoch \in Nat /\ bound.epoch < MaxEpoch
      BY TokenFields DEF IInv, Core, CoreType, PrepareDispatch, Unbound
    <2> QED BY <2>1, DurableDispatchAssumption
  <1>2. now + Confirm \in Nat
    BY DurableDispatchAssumption DEF IInv, ClockType
  <1>3. d \in Dispatch
    BY <1>1, <1>2 DEF Dispatch
  <1>4. \A o \in Id : ~Live(o)
    <2> SUFFICES ASSUME NEW o \in Id, Live(o) PROVE FALSE
      OBVIOUS
    <2>1. bound = Auth(o) /\ Auth(o) \in Token /\ bound.id = o
      BY AuthToken DEF IInv, Core, OneLiveAuthority, Live, Auth
    <2> QED BY <2>1, TokenFields DEF PrepareDispatch, Settled
  <1>5. Granting(id, d)
    BY <1>4 DEF Granting, PrepareDispatch
  <1> QED BY <1>3, <1>5

LEMMA RotateStep ==
  ASSUME IInv, NEW s \in Sender, NEW deadline \in Nat, NEW wrapUp \in BOOLEAN,
         Current(s), cur[s].id \in Id, Rotate(cur[s].id, deadline, wrapUp),
         UNCHANGED <<receipts, started>>
  PROVE  \E d \in Dispatch : Granting(cur[s].id, d)
  <1> DEFINE id == cur[s].id
             d == Rotated(disp[id], deadline, wrapUp)
  <1>1. disp[id] \in Dispatch /\ Live(id)
    BY AuthToken DEF IInv, Core, Current, Live
  <1>2. disp[id].epoch + 1 \in 1..MaxEpoch /\ disp[id].epoch + 1 > disp[id].epoch
    <2>1. disp[id].epoch \in 1..MaxEpoch /\ disp[id].epoch < MaxEpoch
      BY <1>1 DEF Dispatch, Current
    <2> QED BY <2>1, DurableDispatchAssumption
  <1>3. d \in Dispatch /\ d.state = "prepared" /\ d.epoch = disp[id].epoch + 1
    BY <1>1, <1>2, RotatedType
  <1>4. disp' = [disp EXCEPT ![id] = d] /\ disp'[id] = d
    BY DEF Rotate, IInv, Core, CoreType
  <1>5. \A o \in Id : Live(o) => o = id
    BY DEF Current, IInv, Core, OneLiveAuthority, Auth
  <1>6. bound' = [id |-> id, epoch |-> d.epoch] /\ issued' = Append(issued, bound')
    BY <1>4 DEF Rotate
  <1>7. Granting(id, d)
    <2> HIDE DEF d
    <2> QED BY <1>1, <1>2, <1>3, <1>4, <1>5, <1>6 DEF Granting
  <1> QED BY <1>3, <1>7

\* The other changes.
LEMMA EndStep ==
  ASSUME IInv, NEW id \in Id, NEW state \in {"failed", "cancelled"}, EndDispatch(id, state)
  PROVE  \E e \in Dispatch : Ending(id, e) \/ Keeping(id, e)
  <1> DEFINE e == [disp[id] EXCEPT !.state = state, !.rev = @ + 1, !.released = TRUE]
  <1>1. disp[id] \in Dispatch /\ disp[id] # None
    BY DEF IInv, Core, CoreType, EndDispatch
  <1>2. e \in Dispatch /\ e.state = state /\ e.epoch = disp[id].epoch
    BY <1>1, Released DEF Terminal
  <1>3. disp' = [disp EXCEPT ![id] = e]
    BY DEF EndDispatch, IInv, Core, CoreType
  <1> HIDE DEF e
  <1>4. Changing(id, e) /\ UNCHANGED <<receipts, started>>
    BY <1>1, <1>2, <1>3 DEF Changing, EndDispatch, history, Terminal
  <1>5. Ending(id, e) \/ Keeping(id, e)
    BY <1>2, <1>4 DEF Ending, Keeping, EndDispatch
  <1> QED BY <1>2, <1>5

LEMMA TerminateStep ==
  ASSUME IInv, NEW to \in States, Terminate(to)
  PROVE  UNCHANGED coreVars \/ \E id \in Id, e \in Dispatch : Ending(id, e)
  <1> DEFINE id == bound.id
             e == [disp[id] EXCEPT !.state = "cancelled", !.rev = @ + 1]
  <1>1. CASE ~Live(id)
    BY <1>1 DEF Terminate, coreVars, history
  <1>2. CASE Live(id)
    <2>1. id \in Id /\ disp[id] \in Dispatch /\ disp[id] # None
      BY <1>2, TokenFields DEF IInv, Core, CoreType, Terminate, Live
    <2>2. e \in Dispatch /\ e.state = "cancelled" /\ e.epoch = disp[id].epoch
      BY <2>1, Stated DEF Terminal
    <2>3. disp' = [disp EXCEPT ![id] = e]
      BY <1>2 DEF Terminate, IInv, Core, CoreType
    <2> HIDE DEF e
    <2>4. Ending(id, e)
      BY <1>2, <2>1, <2>2, <2>3 DEF Ending, Changing, Terminate, history
    <2> QED BY <2>1, <2>2, <2>4
  <1> QED BY <1>1, <1>2

LEMMA AttemptStep ==
  ASSUME IInv, NEW s \in Sender, BeginDispatchAttempt(s)
  PROVE  \E id \in Id, e \in Dispatch : Keeping(id, e)
  <1> DEFINE id == cur[s].id
             e == Attempted(disp[id])
  <1>1. id \in Id
    BY DEF IInv, CursorInv, BeginDispatchAttempt
  <1>2. Pending(id) /\ disp[id] \in Dispatch /\ disp[id] # None
    BY <1>1 DEF IInv, Core, CoreType, BeginDispatchAttempt, Attemptable, Pending, Live
  <1>3. e \in Dispatch /\ e.state = "delivery-unknown" /\ e.epoch = disp[id].epoch
    BY <1>2, AttemptedType
  <1>4. disp' = [disp EXCEPT ![id] = e]
    BY DEF BeginDispatchAttempt
  <1> HIDE DEF e
  <1>5. Keeping(id, e)
    BY <1>2, <1>3, <1>4 DEF Keeping, Changing, BeginDispatchAttempt, history
  <1> QED BY <1>1, <1>3, <1>5

\* Publications: the agent that holds the lock settles its own grant.
LEMMA PublisherHolds ==
  ASSUME IInv, NEW a \in Agent, agent[a] \in {"accepting", "completing"}
  PROVE  /\ token[a].id \in Id /\ Live(token[a].id) /\ token[a] = Auth(token[a].id)
         /\ disp[token[a].id] \in Dispatch /\ disp[token[a].id] # None
         /\ lock \in Holder /\ bound = token[a] /\ token[a] \in Token
  <1>1. token[a].id \in Id
    BY DEF IInv, TokenInv
  <1>2. lock \in Holder /\ bound = token[a] /\ Live(token[a].id)
    BY DEF IInv, Locked, Pending
  <1>3. disp[token[a].id] \in Dispatch /\ disp[token[a].id] # None /\ Auth(token[a].id) \in Token
    BY <1>1, <1>2, AuthToken DEF IInv, Core, Live
  <1>4. token[a] = Auth(token[a].id)
    BY <1>1, <1>2 DEF IInv, Core, OneLiveAuthority
  <1> QED BY <1>1, <1>2, <1>3, <1>4

LEMMA SettleChanges ==
  ASSUME IInv, NEW a \in Agent, agent[a] \in {"accepting", "completing"},
         NEW stage \in Stage, NEW to, Settle(a, stage, to), issued' = issued, bound' = bound
  PROVE  \E e \in Dispatch, r \in Receipt :
           /\ Changing(token[a].id, e) /\ e.state = stage
           /\ receipts' = [receipts EXCEPT ![<<stage, Auth(token[a].id)>>] = r]
  <1> DEFINE id == token[a].id
             e == [disp[id] EXCEPT !.state = stage, !.rev = @ + 1]
             r == [at |-> lock.at, rev |-> rev + 1]
  <1>1. id \in Id /\ disp[id] \in Dispatch /\ disp[id] # None /\ token[a] = Auth(id) /\ lock \in Holder
    BY PublisherHolds
  <1>2. e \in Dispatch /\ e.state = stage /\ e.epoch = disp[id].epoch
    BY <1>1, Stated DEF Stage, Terminal
  <1>3. r \in Receipt
    BY <1>1 DEF Receipt, Holder, IInv, ClockType
  <1>4. disp' = [disp EXCEPT ![id] = e]
    BY DEF Settle, IInv, Core, CoreType
  <1>5. receipts' = [receipts EXCEPT ![<<stage, Auth(id)>>] = r]
    BY <1>1 DEF Settle, receiptName
  <1> HIDE DEF e, r
  <1>6. Changing(id, e)
    BY <1>1, <1>2, <1>4 DEF Changing
  <1> QED BY <1>2, <1>3, <1>5, <1>6

LEMMA AcceptStep ==
  ASSUME IInv, NEW a \in Agent, agent[a] = "accepting", Settle(a, "accepted", "working"),
         UNCHANGED <<issued, bound>>,
         started' = started \/ started' = [started EXCEPT ![token[a]] = @ + 1]
  PROVE  \E id \in Id, e \in Dispatch, r \in Receipt : Accepting(id, e, r)
  <1>1. PICK e \in Dispatch, r \in Receipt :
           /\ Changing(token[a].id, e) /\ e.state = "accepted"
           /\ receipts' = [receipts EXCEPT ![<<"accepted", Auth(token[a].id)>>] = r]
    BY SettleChanges DEF Stage
  <1>2. Pending(token[a].id)
    BY DEF IInv, Locked
  <1>3. Accepting(token[a].id, e, r)
    BY <1>1, <1>2, PublisherHolds DEF Accepting
  <1> QED BY <1>3, PublisherHolds

LEMMA CompleteStep ==
  ASSUME IInv, NEW a \in Agent, agent[a] = "completing", NEW to, Settle(a, "completed", to),
         UNCHANGED <<issued, bound, started>>
  PROVE  \E id \in Id, e \in Dispatch, r \in Receipt : Completing(id, e, r)
  <1>1. PICK e \in Dispatch, r \in Receipt :
           /\ Changing(token[a].id, e) /\ e.state = "completed"
           /\ receipts' = [receipts EXCEPT ![<<"completed", Auth(token[a].id)>>] = r]
    BY SettleChanges DEF Stage
  <1>2. disp[token[a].id].state = "accepted"
    BY DEF IInv, Locked
  <1>3. Completing(token[a].id, e, r)
    BY <1>1, <1>2 DEF Completing
  <1> QED BY <1>3, PublisherHolds

\* Publishing gives the lock back, and nobody else was publishing.
LEMMA LockedAfter ==
  ASSUME IInv, NEW a \in Agent, agent[a] \in {"accepting", "completing"},
         lock' = None, NEW l \in {"dead", "idle", "working"}, Do(a, l)
  PROVE  Locked'
  <1>1. ASSUME NEW b \in Agent PROVE agent'[b] \notin {"accepting", "completing"}
    <2>1. CASE b = a
      BY <2>1 DEF Do, IInv, TokenInv
    <2>2. CASE b # a
      <3>1. agent[b] \notin {"accepting", "completing"}
        BY <2>2 DEF IInv, Locked
      <3> QED BY <2>2, <3>1 DEF Do, IInv, TokenInv
    <2> QED BY <2>1, <2>2
  <1> QED BY <1>1 DEF Locked

-----------------------------------------------------------------------------
(* Every action, one conjunct of the invariant at a time.                    *)

LEMMA ClockMoves ==
  ASSUME ClockType, rev' \in {rev, rev + 1}, now' \in {now, now + 1}
  PROVE  ClockType'
  BY DEF ClockType

LEMMA ClockNext ==
  ASSUME IInv, Next
  PROVE  ClockType'
  <1> USE DEF IInv
  <1>1. CASE Decide
    <2>1. rev' = rev + 1 /\ now' = now
      BY <1>1, Zenon DEF Decide, PrepareDispatch, EndDispatch, Terminate, Move, touch
    <2> QED BY <2>1, ClockMoves
  <1>2. ASSUME NEW s \in Sender, SenderStep(s) PROVE ClockType'
    <2>1. CASE ReadDispatch(s) \/ ObserveExit(s) \/ RefuseGrant(s) \/ Observe(s)
               \/ RefuseAttempt(s) \/ sendDispatch(s) \/ StartAgent(s) \/ awaitDispatch(s)
      <3>1. UNCHANGED <<now, card>>
        BY <2>1, Zenon DEF ReadDispatch, ObserveExit, RefuseGrant, Observe, RefuseAttempt,
             sendDispatch, StartAgent, awaitDispatch
      <3> QED BY <3>1, ClockMoves DEF card
    <2>2. CASE ReauthorizeDispatch(s) \/ AuthorizeDispatchWrapUp(s)
      <3>1. rev' = rev + 1 /\ now' = now
        BY <2>2, Zenon DEF ReauthorizeDispatch, AuthorizeDispatchWrapUp, Rotate, touch
      <3> QED BY <3>1, ClockMoves
    <2>3. CASE BeginDispatchAttempt(s) \/ WriteSession(s)
      <3>1. rev' = rev + 1 /\ now' = now
        BY <2>3, Zenon DEF BeginDispatchAttempt, WriteSession, touch
      <3> QED BY <3>1, ClockMoves
    <2>4. CASE WriteDocument(s) \/ LaunchFails(s)
      <3>1. rev' \in {rev, rev + 1} /\ now' = now
        BY <2>4 DEF WriteDocument, LaunchFails
      <3> QED BY <3>1, ClockMoves
    <2> QED BY <1>2, <2>1, <2>2, <2>3, <2>4 DEF SenderStep
  <1>3. ASSUME NEW s \in Sender,
               \/ TimesOut(s) \/ SenderDies(s)
               \/ \E id \in Id, mode \in {"notify", "takeover", "wrap-up"} : WithDispatchDelivery(s, id, mode)
        PROVE  ClockType'
    <2>1. UNCHANGED <<now, card>>
      BY <1>3, Zenon DEF TimesOut, SenderDies, WithDispatchDelivery
    <2> QED BY <2>1, ClockMoves DEF card
  <1>4. ASSUME NEW a \in Agent, AgentStep(a) \/ AgentDies(a) PROVE ClockType'
    <2>1. CASE \/ \E m \in mail : Receive(a, m)
               \/ OpenAccept(a) \/ ReplayAccept(a) \/ RefuseAccept(a) \/ OpenComplete(a) \/ StopWork(a)
      <3>1. UNCHANGED <<now, card>>
        BY <2>1, Zenon DEF Receive, OpenAccept, ReplayAccept, RefuseAccept, OpenComplete, StopWork
      <3> QED BY <3>1, ClockMoves DEF card
    <2>2. CASE AuthorWrite(a) \/ Publish(a) \/ AgentDies(a)
      <3>1. rev' \in {rev, rev + 1} /\ now' = now
        BY <2>2 DEF AuthorWrite, touch, Publish, PublishAccept, PublishComplete, AgentDies, Settle
      <3> QED BY <3>1, ClockMoves
    <2> QED BY <1>4, <2>1, <2>2 DEF AgentStep
  <1>5. CASE Tick
    <2>1. rev' = rev /\ now' = now + 1
      BY <1>5 DEF Tick, card
    <2> QED BY <2>1, ClockMoves
  <1> QED BY <1>1, <1>2, <1>3, <1>4, <1>5 DEF Next

\* A sender moves on or leaves; the others stay where they are.
LEMMA CursorMoves ==
  ASSUME CursorInv, NEW s \in Sender, NEW l, Goto(s, l), pc[s] # "idle",
         \A o \in Sender : o # s => cur'[o] = cur[o], DOMAIN cur' = Sender,
         "id" \in DOMAIN cur'[s], cur'[s].id = cur[s].id
  PROVE  CursorInv'
  BY DEF CursorInv, Goto

LEMMA CursorLeaves ==
  ASSUME CursorInv, NEW s \in Sender, Leave(s)
  PROVE  CursorInv'
  BY DEF CursorInv, Leave, Goto

LEMMA CursorStays ==
  ASSUME CursorInv, NEW s \in Sender, NEW l, Goto(s, l), pc[s] # "idle", cur' = cur
  PROVE  CursorInv'
  BY DEF CursorInv, Goto

LEMMA CursorNext ==
  ASSUME IInv, Next
  PROVE  CursorInv'
  <1> USE DEF IInv
  <1>1. CASE UNCHANGED <<pc, cur>>
    BY <1>1 DEF CursorInv
  <1>2. CASE Decide \/ Tick \/ \E a \in Agent : AgentStep(a) \/ AgentDies(a)
    <2>1. UNCHANGED <<pc, cur>>
      BY <1>2 DEF Decide, PrepareDispatch, EndDispatch, Terminate, Move, Tick, AgentStep, Receive,
           OpenAccept, ReplayAccept, RefuseAccept, AuthorWrite, OpenComplete, StopWork, Publish,
           PublishAccept, PublishComplete, AgentDies, senders
    <2> QED BY <1>1, <2>1
  <1>3. ASSUME NEW s \in Sender, SenderStep(s) PROVE CursorInv'
    <2>1. CASE ReadDispatch(s)
      <3>1. CASE Leave(s)
        BY <3>1, CursorLeaves
      <3>2. CASE ~Leave(s)
        BY <2>1, <3>2, CursorMoves DEF ReadDispatch, CursorInv
      <3> QED BY <3>1, <3>2
    <2>2. CASE ObserveExit(s)
      <3>1. CASE Leave(s)
        BY <3>1, CursorLeaves
      <3>2. CASE ~Leave(s)
        BY <2>2, <3>2, CursorMoves DEF ObserveExit, CursorInv
      <3> QED BY <3>1, <3>2
    <2>3. CASE ReauthorizeDispatch(s)
      BY <2>3, CursorMoves DEF ReauthorizeDispatch, CursorInv
    <2>4. CASE Observe(s)
      <3>1. CASE Leave(s)
        BY <3>1, CursorLeaves
      <3>2. CASE ~Leave(s)
        <4> DEFINE r == IF cur[s].mode = "takeover" THEN cur[s].rev ELSE disp[cur[s].id].rev
                   l == cur[s].mode = "takeover" \/ Stopped(session)
        <4>1. /\ Goto(s, "begin") \/ Goto(s, "window")
              /\ cur' = [cur EXCEPT ![s].rev = r, ![s].card = rev, ![s].target = session,
                                    ![s].launch = l]
          BY <2>4, <3>2 DEF Observe
        <4> HIDE DEF r, l
        <4>2. /\ \A o \in Sender : o # s => cur'[o] = cur[o]
              /\ DOMAIN cur' = Sender
          BY <4>1 DEF CursorInv
        <4>3. "id" \in DOMAIN cur[s] /\ pc[s] # "idle"
          BY <2>4 DEF Observe, CursorInv
        <4>4. "id" \in DOMAIN cur'[s] /\ cur'[s].id = cur[s].id
          BY <4>1, <4>3 DEF CursorInv
        <4> QED BY <4>1, <4>2, <4>3, <4>4, CursorMoves
      <3> QED BY <3>1, <3>2
    <2>5. CASE WriteDocument(s)
      <3>1. CASE Leave(s)
        BY <3>1, CursorLeaves
      <3>2. CASE ~Leave(s)
        BY <2>5, <3>2, CursorMoves DEF WriteDocument, CursorInv
      <3> QED BY <3>1, <3>2
    <2>6. CASE BeginDispatchAttempt(s) \/ sendDispatch(s) \/ StartAgent(s)
      <3>1. CASE Leave(s)
        BY <3>1, CursorLeaves
      <3>2. CASE ~Leave(s)
        BY <2>6, <3>2, CursorStays DEF BeginDispatchAttempt, sendDispatch, StartAgent
      <3> QED BY <3>1, <3>2
    <2>7. CASE WriteSession(s)
      BY <2>7, CursorMoves DEF WriteSession, CursorInv
    <2>8. CASE \/ AuthorizeDispatchWrapUp(s) \/ RefuseGrant(s) \/ RefuseAttempt(s)
               \/ LaunchFails(s) \/ awaitDispatch(s)
      BY <2>8, CursorLeaves
         DEF AuthorizeDispatchWrapUp, RefuseGrant, RefuseAttempt, LaunchFails, awaitDispatch
    <2> QED BY <1>3, <2>1, <2>2, <2>3, <2>4, <2>5, <2>6, <2>7, <2>8 DEF SenderStep
  <1>4. ASSUME NEW s \in Sender, TimesOut(s) \/ SenderDies(s) PROVE CursorInv'
    BY <1>4, CursorLeaves DEF TimesOut, SenderDies
  <1>5. ASSUME NEW s \in Sender, NEW id \in Id, NEW mode, WithDispatchDelivery(s, id, mode)
        PROVE  CursorInv'
    BY <1>5 DEF WithDispatchDelivery, CursorInv, Goto
  <1> QED BY <1>2, <1>3, <1>4, <1>5 DEF Next

LEMMA TokenNext ==
  ASSUME IInv, Next
  PROVE  TokenInv'
  <1> USE DEF IInv
  <1>1. CASE UNCHANGED agents
    BY <1>1 DEF TokenInv, agents
  <1>2. CASE Decide \/ Tick
    <2>1. UNCHANGED agents
      BY <1>2 DEF Decide, PrepareDispatch, EndDispatch, Terminate, Move, Tick
    <2> QED BY <1>1, <2>1
  <1>3. ASSUME NEW s \in Sender, SenderStep(s) PROVE TokenInv'
    <2>1. CASE AuthorizeDispatchWrapUp(s)
      <3>1. cur[s].id \in Id
        BY <2>1 DEF AuthorizeDispatchWrapUp, CursorInv
      <3>2. bound'.id = cur[s].id
        BY <2>1 DEF AuthorizeDispatchWrapUp, Rotate
      <3>3. \A m \in mail' : m.token.id \in Id
        BY <2>1, <3>1, <3>2 DEF AuthorizeDispatchWrapUp, TokenInv
      <3> QED BY <2>1, <3>3 DEF AuthorizeDispatchWrapUp, TokenInv
    <2>2. CASE sendDispatch(s) \/ StartAgent(s)
      <3>1. cur[s].id \in Id
        BY <2>2 DEF sendDispatch, StartAgent, CursorInv
      <3>2. \A m \in mail' : m.token.id \in Id
        BY <2>2, <3>1 DEF sendDispatch, StartAgent, Transmit, TokenInv
      <3>3. CASE sendDispatch(s)
        BY <3>2, <3>3 DEF sendDispatch, TokenInv
      <3>4. CASE StartAgent(s)
        <4>1. \/ UNCHANGED <<agent, token>>
              \/ /\ agent' = [agent EXCEPT ![cur[s].target] = "idle"]
                 /\ token' = [token EXCEPT ![cur[s].target] = None]
          BY <3>4 DEF StartAgent
        <4> QED BY <3>2, <4>1 DEF TokenInv, AgentState
      <3> QED BY <2>2, <3>3, <3>4
    <2>3. CASE ~(AuthorizeDispatchWrapUp(s) \/ sendDispatch(s) \/ StartAgent(s))
      <3>1. UNCHANGED agents
        BY <1>3, <2>3 DEF SenderStep, ReadDispatch, ObserveExit, ReauthorizeDispatch, RefuseGrant,
             Observe, WriteDocument, BeginDispatchAttempt, RefuseAttempt, WriteSession, LaunchFails,
             awaitDispatch, agents
      <3> QED BY <1>1, <3>1
    <2> QED BY <2>1, <2>2, <2>3
  <1>4. ASSUME NEW s \in Sender,
               \/ TimesOut(s) \/ SenderDies(s)
               \/ \E id \in Id, mode \in {"notify", "takeover", "wrap-up"} : WithDispatchDelivery(s, id, mode)
        PROVE  TokenInv'
    BY <1>1, <1>4 DEF TimesOut, SenderDies, WithDispatchDelivery
  <1>5. ASSUME NEW a \in Agent, AgentStep(a) \/ AgentDies(a) PROVE TokenInv'
    <2>1. ASSUME NEW m \in mail, Receive(a, m) PROVE TokenInv'
      <3>1. m.token.id \in Id
        BY DEF TokenInv
      <3> QED BY <2>1, <3>1 DEF Receive, Do, TokenInv, AgentState
    <2>2. ASSUME NEW l \in AgentState, Do(a, l), UNCHANGED <<token, mail>>,
                 l \in {"dead", "idle"} \/ agent[a] \notin {"dead", "idle"}
          PROVE  TokenInv'
      BY <2>2 DEF Do, TokenInv
    <2>3. CASE OpenAccept(a) \/ OpenComplete(a)
      BY <2>2, <2>3 DEF OpenAccept, OpenComplete, AgentState
    <2>4. CASE ReplayAccept(a) \/ RefuseAccept(a) \/ StopWork(a)
      BY <2>2, <2>4 DEF ReplayAccept, Begins, RefuseAccept, StopWork, AgentState
    <2>5. CASE Publish(a) \/ AgentDies(a)
      BY <2>2, <2>5 DEF Publish, PublishAccept, PublishComplete, AgentDies, AgentState
    <2>6. CASE AuthorWrite(a)
      BY <1>1, <2>6 DEF AuthorWrite
    <2> QED BY <1>5, <2>1, <2>3, <2>4, <2>5, <2>6 DEF AgentStep
  <1> QED BY <1>2, <1>3, <1>4, <1>5 DEF Next

LEMMA LockedNext ==
  ASSUME IInv, Next
  PROVE  Locked'
  <1> USE DEF IInv
  <1>1. CASE Decide
    <2>1. TaskLock /\ lock' = lock /\ agent' = agent
      BY <1>1 DEF Decide, PrepareDispatch, EndDispatch, Terminate, Move, touch, agents
    <2> QED BY <2>1, LockedFree
  <1>2. CASE Tick
    BY <1>2, LockedKept DEF Tick, card, agents
  <1>3. ASSUME NEW s \in Sender, SenderStep(s) PROVE Locked'
    <2>1. CASE sendDispatch(s)
      BY <2>1, LockedKept DEF sendDispatch, card
    <2>2. CASE StartAgent(s)
      <3>1. CASE UNCHANGED <<agent, token>>
        BY <2>2, <3>1, LockedKept DEF StartAgent, card
      <3>2. CASE ~UNCHANGED <<agent, token>>
        <4>1. /\ Stopped(cur[s].target) /\ UNCHANGED <<bound, disp, lock>>
              /\ agent' = [agent EXCEPT ![cur[s].target] = "idle"]
              /\ token' = [token EXCEPT ![cur[s].target] = None]
          BY <2>2, <3>2 DEF StartAgent, card
        <4>2. \A a \in Agent : agent'[a] \in {"accepting", "completing"} =>
                agent'[a] = agent[a] /\ token'[a] = token[a]
          BY <4>1 DEF TokenInv, Stopped
        <4> QED BY <4>1, <4>2 DEF Locked, Pending, Live
      <3> QED BY <3>1, <3>2
    <2>3. CASE ~sendDispatch(s) /\ ~StartAgent(s)
      <3>1. TaskLock /\ lock' = lock /\ agent' = agent
        BY <1>3, <2>3 DEF SenderStep, ReadDispatch, ObserveExit, ReauthorizeDispatch,
             AuthorizeDispatchWrapUp, RefuseGrant, Observe, WriteDocument, BeginDispatchAttempt,
             RefuseAttempt, WriteSession, LaunchFails, awaitDispatch, Rotate, touch, agents
      <3> QED BY <3>1, LockedFree
    <2> QED BY <2>1, <2>2, <2>3
  <1>4. ASSUME NEW s \in Sender,
               \/ TimesOut(s) \/ SenderDies(s)
               \/ \E id \in Id, mode \in {"notify", "takeover", "wrap-up"} : WithDispatchDelivery(s, id, mode)
        PROVE  Locked'
    BY <1>4, LockedKept DEF TimesOut, SenderDies, WithDispatchDelivery, card, agents
  <1>5. ASSUME NEW a \in Agent, AgentStep(a) PROVE Locked'
    <2>1. ASSUME NEW m \in mail, Receive(a, m) PROVE Locked'
      <3>1. UNCHANGED <<bound, disp, lock>>
        BY <2>1 DEF Receive, card
      <3>2. \A b \in Agent : agent'[b] \in {"accepting", "completing"} =>
              agent'[b] = agent[b] /\ token'[b] = token[b]
        BY <2>1 DEF Receive, Do, TokenInv
      <3> QED BY <3>1, <3>2 DEF Locked, Pending, Live
    <2>2. CASE OpenAccept(a)
      <3>1. [by |-> a, at |-> now] \in Holder
        BY DEF Holder, ClockType
      <3>2. \A b \in Agent : agent'[b] \in {"accepting", "completing"} => b = a /\ agent'[b] = "accepting"
        BY <2>2, NobodyPublishes DEF OpenAccept, Do, TokenInv
      <3>3. bound = token[a] /\ Pending(token[a].id)
        BY <2>2 DEF OpenAccept, Acceptable, Bound
      <3>4. UNCHANGED <<bound, disp, token>> /\ lock' = [by |-> a, at |-> now]
        BY <2>2 DEF OpenAccept, card
      <3> QED BY <3>1, <3>2, <3>3, <3>4, NoneAssumption DEF Locked, Pending, Live
    <2>3. CASE OpenComplete(a)
      <3>1. [by |-> a, at |-> now] \in Holder
        BY DEF Holder, ClockType
      <3>2. \A b \in Agent : agent'[b] \in {"accepting", "completing"} => b = a /\ agent'[b] = "completing"
        BY <2>3, NobodyPublishes DEF OpenComplete, Do, TokenInv
      <3>3. bound = token[a] /\ disp[token[a].id].state = "accepted" /\ token[a].id \in Id
        BY <2>3 DEF OpenComplete, Bound, TokenInv
      <3>4. Live(token[a].id)
        BY <3>3, TokenFields DEF Core, CoreType, BoundKnown, Live, Terminal
      <3>5. UNCHANGED <<bound, disp, token>> /\ lock' = [by |-> a, at |-> now]
        BY <2>3 DEF OpenComplete, card
      <3> QED BY <3>1, <3>2, <3>3, <3>4, <3>5, NoneAssumption DEF Locked, Live
    <2>4. CASE ReplayAccept(a) \/ RefuseAccept(a) \/ StopWork(a)
      <3>1. TaskLock /\ lock' = lock /\ \E l \in {"idle"} : Do(a, l)
        BY <2>4 DEF ReplayAccept, Begins, RefuseAccept, StopWork
      <3>2. \A b \in Agent : agent'[b] \notin {"accepting", "completing"}
        BY <3>1, NobodyPublishes DEF Do, TokenInv
      <3> QED BY <3>1, <3>2 DEF Locked
    <2>5. CASE AuthorWrite(a)
      <3>1. TaskLock /\ lock' = lock /\ agent' = agent
        BY <2>5 DEF AuthorWrite, touch, agents
      <3> QED BY <3>1, LockedFree
    <2>6. CASE Publish(a)
      BY <2>6, LockedAfter DEF Publish, PublishAccept, PublishComplete, Settle
    <2> QED BY <1>5, <2>1, <2>2, <2>3, <2>4, <2>5, <2>6 DEF AgentStep
  <1>6. ASSUME NEW a \in Agent, AgentDies(a) PROVE Locked'
    <2>1. CASE /\ agent[a] \in {"accepting", "completing"} /\ lock' = None
      BY <1>6, <2>1, LockedAfter DEF AgentDies
    <2>2. CASE /\ lock' = IF lock # None /\ lock.by = a THEN None ELSE lock
               /\ UNCHANGED disp
      <3>1. Do(a, "dead") /\ UNCHANGED <<bound, disp, token>>
        BY <1>6, <2>2 DEF AgentDies
      <3>2. \A b \in Agent : agent'[b] \in {"accepting", "completing"} => b # a /\ agent'[b] = agent[b]
        BY <3>1 DEF Do, TokenInv
      <3>3. lock' \in Holder \cup {None}
        BY <2>2 DEF Locked
      <3>4. \A b \in Agent : agent'[b] \in {"accepting", "completing"} => lock' = lock
        BY <2>2, <3>2 DEF Locked
      <3> QED BY <3>1, <3>2, <3>3, <3>4 DEF Locked, Pending, Live
    <2> QED BY <1>6, <2>1, <2>2 DEF AgentDies, Settle
  <1> QED BY <1>1, <1>2, <1>3, <1>4, <1>5, <1>6 DEF Next

GrantStep == Core' /\ (Grants!Next \/ GrantSeq' = GrantSeq)

\* Every step is one of the five kinds of changes, or leaves the core alone.
LEMMA CoreNext ==
  ASSUME IInv, Next
  PROVE  Core' /\ (Grants!Next \/ GrantSeq' = GrantSeq)
  <1> SUFFICES GrantStep
    BY DEF GrantStep
  <1> USE DEF IInv
  <1>1. ASSUME UNCHANGED coreVars PROVE GrantStep
    BY <1>1, QuietCore DEF GrantStep
  <1>2. ASSUME NEW id \in Id, NEW d \in Dispatch, Granting(id, d) PROVE GrantStep
    BY <1>2, GrantingCore, GrantingRefines DEF GrantStep
  <1>3. ASSUME NEW id \in Id, NEW e \in Dispatch, Keeping(id, e) PROVE GrantStep
    BY <1>3, KeepingCore, KeepingRefines DEF GrantStep
  <1>4. ASSUME NEW id \in Id, NEW e \in Dispatch, Ending(id, e) PROVE GrantStep
    BY <1>4, KeepingCore, EndingRefines DEF GrantStep
  <1>5. ASSUME NEW id \in Id, NEW e \in Dispatch, NEW r \in Receipt, Accepting(id, e, r) PROVE GrantStep
    BY <1>5, AcceptingCore, AcceptingRefines DEF GrantStep
  <1>6. ASSUME NEW id \in Id, NEW e \in Dispatch, NEW r \in Receipt, Completing(id, e, r) PROVE GrantStep
    BY <1>6, CompletingCore, CompletingRefines DEF GrantStep
  <1>7. CASE Decide
    <2>1. ASSUME NEW id \in Id, NEW kind \in Kinds, PrepareDispatch(id, kind) PROVE GrantStep
      BY <1>2, <2>1, PrepareStep
    <2>2. ASSUME NEW id \in Id, NEW state \in {"failed", "cancelled"}, EndDispatch(id, state) PROVE GrantStep
      BY <1>3, <1>4, <2>2, EndStep
    <2>3. ASSUME NEW to \in States, Terminate(to) PROVE GrantStep
      BY <1>1, <1>4, <2>3, TerminateStep
    <2>4. ASSUME NEW to \in States, Move(to) PROVE GrantStep
      BY <1>1, <2>4 DEF Move, coreVars, history
    <2> QED BY <1>7, <2>1, <2>2, <2>3, <2>4 DEF Decide
  <1>8. ASSUME NEW s \in Sender, SenderStep(s) PROVE GrantStep
    <2>1. CASE ReauthorizeDispatch(s)
      <3>1. cur[s].id \in Id /\ Current(s)
        BY <2>1 DEF ReauthorizeDispatch, CursorInv, Reauthorizable
      <3>2. \E deadline \in Nat : Rotate(cur[s].id, deadline, FALSE)
        <4>1. disp[cur[s].id] \in Dispatch
          BY <3>1 DEF Core, CoreType, Current, Live
        <4>2. disp[cur[s].id].deadline \in Nat /\ now + Confirm \in Nat
          BY <4>1, DurableDispatchAssumption DEF Dispatch, ClockType
        <4> QED BY <2>1, <4>2 DEF ReauthorizeDispatch
      <3>3. UNCHANGED <<receipts, started>>
        BY <2>1 DEF ReauthorizeDispatch
      <3> QED BY <1>2, <3>1, <3>2, <3>3, RotateStep
    <2>2. CASE AuthorizeDispatchWrapUp(s)
      <3>1. cur[s].id \in Id /\ Current(s) /\ Rotate(cur[s].id, now + Confirm, TRUE)
        BY <2>2 DEF AuthorizeDispatchWrapUp, CursorInv, WrapUpAllowed
      <3>2. now + Confirm \in Nat /\ UNCHANGED <<receipts, started>>
        BY <2>2, DurableDispatchAssumption DEF ClockType, AuthorizeDispatchWrapUp
      <3> QED BY <1>2, <3>1, <3>2, RotateStep
    <2>3. CASE BeginDispatchAttempt(s)
      BY <1>3, <2>3, AttemptStep
    <2>4. CASE ~(ReauthorizeDispatch(s) \/ AuthorizeDispatchWrapUp(s) \/ BeginDispatchAttempt(s))
      <3>1. UNCHANGED coreVars
        BY <1>8, <2>4 DEF SenderStep, ReadDispatch, ObserveExit, RefuseGrant, Observe, WriteDocument,
             RefuseAttempt, sendDispatch, WriteSession, StartAgent, LaunchFails, awaitDispatch,
             card, history, coreVars
      <3> QED BY <1>1, <3>1
    <2> QED BY <2>1, <2>2, <2>3, <2>4
  <1>9. ASSUME NEW s \in Sender,
               \/ TimesOut(s) \/ SenderDies(s)
               \/ \E id \in Id, mode \in {"notify", "takeover", "wrap-up"} : WithDispatchDelivery(s, id, mode)
        PROVE  GrantStep
    <2>1. UNCHANGED coreVars
      BY <1>9 DEF TimesOut, SenderDies, WithDispatchDelivery, card, history, coreVars
    <2> QED BY <1>1, <2>1
  <1>10. ASSUME NEW a \in Agent, AgentStep(a) \/ AgentDies(a) PROVE GrantStep
    <2>1. CASE PublishAccept(a) \/ (AgentDies(a) /\ agent[a] = "accepting" /\ Settle(a, "accepted", "working"))
      <3>1. /\ agent[a] = "accepting" /\ Settle(a, "accepted", "working") /\ UNCHANGED <<issued, bound>>
            /\ started' = started \/ started' = [started EXCEPT ![token[a]] = @ + 1]
        BY <2>1 DEF PublishAccept, AgentDies, history
      <3> QED BY <1>5, <3>1, AcceptStep
    <2>2. CASE PublishComplete(a) \/ (AgentDies(a) /\ agent[a] = "completing" /\ Settle(a, "completed", Target(a)))
      <3>1. /\ agent[a] = "completing" /\ Settle(a, "completed", Target(a))
            /\ UNCHANGED <<issued, bound, started>>
        BY <2>2 DEF PublishComplete, AgentDies, history
      <3> QED BY <1>6, <3>1, CompleteStep
    <2>3. CASE AgentDies(a) /\ UNCHANGED <<disp, receipts>>
      BY <1>1, <2>3 DEF AgentDies, history, coreVars
    <2>4. CASE ReplayAccept(a)
      <3>1. started' = started
        BY <2>4 DEF ReplayAccept, Begins
      <3> QED BY <1>1, <2>4, <3>1 DEF ReplayAccept, card, coreVars
    <2>5. CASE \/ \E m \in mail : Receive(a, m)
               \/ OpenAccept(a) \/ RefuseAccept(a) \/ AuthorWrite(a) \/ OpenComplete(a) \/ StopWork(a)
      <3>1. UNCHANGED coreVars
        BY <2>5 DEF Receive, OpenAccept, RefuseAccept, AuthorWrite, OpenComplete, StopWork,
             card, history, coreVars
      <3> QED BY <1>1, <3>1
    <2> QED BY <1>10, <2>1, <2>2, <2>3, <2>4, <2>5 DEF AgentStep, Publish, AgentDies
  <1>11. CASE Tick
    BY <1>1, <1>11 DEF Tick, card, history, coreVars
  <1> QED BY <1>7, <1>8, <1>9, <1>10, <1>11 DEF Next

LEMMA InitInv ==
  ASSUME Init
  PROVE  IInv /\ GrantSeq = <<>>
  <1> USE DEF Init
  <1>1. \A id \in Id : disp[id] = None
    OBVIOUS
  <1>2. issued = <<>> /\ Len(issued) = 0 /\ issued \in Seq(Token)
    BY EmptySeq
  <1>3. CoreType
    BY <1>2 DEF CoreType
  <1>4. BoundKnown /\ OneLiveAuthority /\ NewestLive
    BY <1>1 DEF BoundKnown, OneLiveAuthority, NewestLive, Live
  <1>5. IssuedKnown /\ IssuedOnce
    BY <1>2 DEF IssuedKnown, IssuedOnce
  <1>6. CompletedSettled /\ BegunAccepted
    BY DEF CompletedSettled, BegunAccepted, Stage
  <1>7. ClockType
    BY DEF ClockType
  <1>8. CursorInv
    BY DEF CursorInv
  <1>9. TokenInv
    BY DEF TokenInv, AgentState
  <1>10. Locked
    BY DEF Locked
  <1>11. GrantSeq = <<>>
    BY <1>2, <1>3, GrantSeqType, EmptySeq
  <1> QED BY <1>3, <1>4, <1>5, <1>6, <1>7, <1>8, <1>9, <1>10, <1>11 DEF IInv, Core

LEMMA StepInv ==
  ASSUME IInv, [Next]_vars
  PROVE  IInv' /\ (Grants!Next \/ GrantSeq' = GrantSeq)
  <1>1. CASE Next
    BY <1>1, CoreNext, ClockNext, CursorNext, TokenNext, LockedNext DEF IInv
  <1>2. CASE UNCHANGED vars
    <2>1. Core' /\ GrantSeq' = GrantSeq
      BY <1>2, QuietCore DEF IInv, coreVars, vars, card, history
    <2>2. ClockType' /\ CursorInv' /\ TokenInv'
      BY <1>2 DEF IInv, ClockType, CursorInv, TokenInv, vars, card, senders, agents
    <2>3. Locked'
      BY <1>2, LockedKept DEF IInv, vars, card, agents
    <2> QED BY <2>1, <2>2, <2>3 DEF IInv
  <1> QED BY <1>1, <1>2

-----------------------------------------------------------------------------
(* What senders, messages and agents know of the card while others act       *)
(* (HInv).                                                                   *)

Stops == {"idle", "read", "recover", "authorize", "observe", "window", "begin", "send", "launch",
           "start", "await"}
Modes == {"notify", "takeover", "wrap-up"}
Exit == [rev : Nat, session : Agent, at : Nat]
Cursor == [ id : Id, mode : Modes, epoch : Nat, rev : Nat, card : Nat, deadline : Nat,
            launch : BOOLEAN, exit : Exit \cup {None}, target : Agent \cup {None},
            old : Agent \cup {None} ]
Message == [to : Agent, token : Token]

Busy == {"working", "completing"}
Mine(s) == [id |-> cur[s].id, epoch |-> cur[s].epoch]

\* A grant that a message may carry, and the one the card's session may accept.
Known(t) == disp[t.id] # None /\ t.epoch <= disp[t.id].epoch
Open(t) == Live(t.id) /\ Auth(t.id) = t

\* What a sender has read of its dispatch, under its lease.
ReadOK(s) ==
  /\ cur[s] \in Cursor /\ lease[cur[s].id] = s /\ disp[cur[s].id] # None
  /\ pc[s] # "read" =>
       /\ Mine(s) \in Token /\ Known(Mine(s))
       /\ cur[s].epoch = disp[cur[s].id].epoch => cur[s].deadline = disp[cur[s].id].deadline

\* An exit is evidence for the revision it was seen at.
ExitOK(s) ==
  cur[s].exit # None =>
    /\ cur[s].exit.rev <= rev
    /\ cur[s].exit.rev = rev => agent[cur[s].exit.session] \notin Busy

\* What is aimed at is the session of the card, as long as the card has not
\* changed before the attempt, and as long as the grant is open after it.
AimOK(s) ==
  /\ pc[s] \in {"window", "begin"} =>
       cur[s].card <= rev /\ (cur[s].card = rev => cur[s].target = session)
  /\ pc[s] \in {"send", "start"} =>
       cur[s].target \in Agent /\ (Open(Mine(s)) => cur[s].target = session)

\* A rollback finds the grant and the session as its own write left them.
StartOK(s) ==
  pc[s] = "start" =>
    /\ cur[s].old \in Agent /\ cur[s].card <= rev
    /\ cur[s].card = rev => bound = Mine(s) /\ (cur[s].mode = "notify" => cur[s].old = session)

\* A takeover has a grant nobody was told of until its own agent is started.
UntoldOK(s) ==
  pc[s] \in {"observe", "window", "begin", "launch", "start"} /\ cur[s].mode # "notify" =>
    \A m \in mail : m.token # Mine(s)

SenderOK(s) ==
  pc[s] # "idle" => ReadOK(s) /\ ExitOK(s) /\ AimOK(s) /\ StartOK(s) /\ UntoldOK(s)

MessageOK(m) ==
  /\ m \in Message /\ Known(m.token)
  /\ Open(m.token) /\ ~disp[m.token.id].wrapUp => m.to = session

HeldOK == \A a \in Agent : agent[a] \notin {"dead", "idle"} => [to |-> a, token |-> token[a]] \in mail

ExpiredOK ==
  \A t \in expired :
    /\ t \in Token /\ Known(t)
    /\ t.epoch = disp[t.id].epoch =>
         /\ disp[t.id].deadline <= now
         /\ \A a \in Agent : agent[a] = "accepting" => token[a] # t

\* The inductive invariant of a handover.
HInv == /\ IInv /\ session \in Agent /\ pc \in [Sender -> Stops] /\ DOMAIN lease = Id
        /\ \A s \in Sender : SenderOK(s)
        /\ \A m \in mail : MessageOK(m)
        /\ HeldOK /\ ExpiredOK

-----------------------------------------------------------------------------
(* What a step does to a dispatch.                                           *)

\* It keeps its epoch with its deadline, or is rotated to a later one.
Moves(id) ==
  disp[id] # None =>
    /\ disp'[id] # None
    /\ \/ /\ disp'[id].epoch = disp[id].epoch /\ disp'[id].deadline = disp[id].deadline
          /\ disp'[id].wrapUp = disp[id].wrapUp
          /\ Live(id)' => Live(id)
       \/ disp'[id].epoch > disp[id].epoch

\* A dispatch that goes from d to e without being rotated.
Continues(d, e) ==
  /\ e \in Dispatch /\ e.epoch = d.epoch /\ e.deadline = d.deadline /\ e.wrapUp = d.wrapUp
  /\ e.state \notin Terminal => d.state \notin Terminal

LEMMA ContinuesMoves ==
  ASSUME CoreType, NEW i \in Id, NEW e, disp[i] # None, disp' = [disp EXCEPT ![i] = e],
         Continues(disp[i], e)
  PROVE  \A id \in Id : Moves(id)
  <1>1. e # None
    BY NoneAssumption DEF Continues
  <1>2. disp'[i] = e /\ \A id \in Id : id # i => disp'[id] = disp[id]
    BY DEF CoreType
  <1> QED BY <1>1, <1>2 DEF Moves, Continues, Live

LEMMA SameMoves ==
  ASSUME disp' = disp
  PROVE  \A id \in Id : Moves(id)
  BY DEF Moves, Live

LEMMA StatedContinues ==
  ASSUME NEW d \in Dispatch, NEW st \in {"accepted"} \cup Terminal,
         st = "accepted" => d.state \notin Terminal
  PROVE  Continues(d, [d EXCEPT !.state = st, !.rev = @ + 1])
  <1>1. d.rev + 1 \in Nat
    BY DEF Dispatch
  <1> QED BY <1>1 DEF Dispatch, Continues

LEMMA ReleasedContinues ==
  ASSUME NEW d \in Dispatch, NEW st \in Terminal
  PROVE  Continues(d, [d EXCEPT !.state = st, !.rev = @ + 1, !.released = TRUE])
  <1>1. d.rev + 1 \in Nat
    BY DEF Dispatch
  <1> QED BY <1>1 DEF Dispatch, Continues

LEMMA AttemptedContinues ==
  ASSUME NEW d \in Dispatch, d.state \notin Terminal
  PROVE  Continues(d, Attempted(d))
  <1>1. d.rev + 1 \in Nat /\ d.attempts + 1 \in Nat
    BY DEF Dispatch
  <1> QED BY <1>1 DEF Dispatch, Attempted, Continues

LEMMA RotateMoves ==
  ASSUME IInv, NEW s \in Sender, cur[s].id \in Id, Current(s), NEW deadline \in Nat, NEW wrapUp \in BOOLEAN,
         Rotate(cur[s].id, deadline, wrapUp)
  PROVE  \A id \in Id : Moves(id)
  <1> DEFINE i == cur[s].id
  <1>1. disp[i] \in Dispatch /\ disp[i] # None
    BY DEF IInv, Core, CoreType, Current, Live
  <1>2. PICK e : e = Rotated(disp[i], deadline, wrapUp)
    OBVIOUS
  <1>3. disp' = [disp EXCEPT ![i] = e]
    BY <1>2 DEF Rotate, IInv, Core, CoreType
  <1>4. e.epoch = disp[i].epoch + 1
    BY <1>1, <1>2 DEF Rotated, Dispatch
  <1>5. e # None
    <2>1. disp[i].epoch \in 1..MaxEpoch /\ disp[i].epoch < MaxEpoch /\ MaxEpoch \in Nat
      BY <1>1, DurableDispatchAssumption DEF Dispatch, Current
    <2>2. disp[i].epoch + 1 \in 1..MaxEpoch
      BY <2>1
    <2> QED BY <1>1, <1>2, <2>2, RotatedType, NoneAssumption
  <1>6. disp'[i] = e /\ \A id \in Id : id # i => disp'[id] = disp[id]
    BY <1>3 DEF IInv, Core, CoreType
  <1>7. disp[i].epoch \in Nat
    BY <1>1 DEF Dispatch
  <1> QED BY <1>4, <1>5, <1>6, <1>7 DEF Moves, Live

LEMMA SettleMoves ==
  ASSUME IInv, NEW a \in Agent, agent[a] \in {"accepting", "completing"}, NEW stage \in Stage, NEW to,
         Settle(a, stage, to)
  PROVE  \A id \in Id : Moves(id)
  <1> DEFINE i == token[a].id
  <1>1. i \in Id /\ disp[i] \in Dispatch /\ disp[i] # None /\ Live(i)
    BY PublisherHolds
  <1>2. PICK e : e = [disp[i] EXCEPT !.state = stage, !.rev = @ + 1]
    OBVIOUS
  <1>3. Continues(disp[i], e)
    BY <1>1, <1>2, StatedContinues DEF Stage, Terminal, Live
  <1>4. disp' = [disp EXCEPT ![i] = e]
    BY <1>2 DEF Settle, IInv, Core, CoreType
  <1> QED BY <1>1, <1>3, <1>4, ContinuesMoves DEF IInv, Core

LEMMA NextMoves ==
  ASSUME IInv, Next
  PROVE  \A id \in Id : Moves(id)
  <1> USE DEF IInv, Core
  <1>1. ASSUME NEW id \in Id, NEW kind \in Kinds, PrepareDispatch(id, kind) PROVE \A o \in Id : Moves(o)
    <2>1. \A o \in Id : disp[o] # None => disp'[o] = disp[o]
      BY <1>1 DEF PrepareDispatch, CoreType
    <2> QED BY <2>1 DEF Moves, Live
  <1>2. ASSUME NEW id \in Id, NEW state \in {"failed", "cancelled"}, EndDispatch(id, state)
        PROVE  \A o \in Id : Moves(o)
    <2>1. disp[id] \in Dispatch /\ disp[id] # None /\ state \in Terminal
      BY <1>2 DEF CoreType, EndDispatch, Terminal
    <2>2. PICK e : e = [disp[id] EXCEPT !.state = state, !.rev = @ + 1, !.released = TRUE]
      OBVIOUS
    <2>3. Continues(disp[id], e) /\ disp' = [disp EXCEPT ![id] = e]
      BY <1>2, <2>1, <2>2, ReleasedContinues DEF EndDispatch, CoreType
    <2> QED BY <2>1, <2>3, ContinuesMoves
  <1>3. ASSUME NEW to \in States, Terminate(to) PROVE \A o \in Id : Moves(o)
    <2>1. CASE ~Live(bound.id)
      BY <1>3, <2>1, SameMoves DEF Terminate
    <2>2. CASE Live(bound.id)
      <3>1. bound.id \in Id /\ disp[bound.id] \in Dispatch /\ disp[bound.id] # None
        BY <1>3, <2>2, TokenFields DEF CoreType, Terminate, Live
      <3>2. PICK e : e = [disp[bound.id] EXCEPT !.state = "cancelled", !.rev = @ + 1]
        OBVIOUS
      <3>3. Continues(disp[bound.id], e) /\ disp' = [disp EXCEPT ![bound.id] = e]
        BY <1>3, <2>2, <3>1, <3>2, StatedContinues DEF Terminate, CoreType, Terminal
      <3> QED BY <3>1, <3>3, ContinuesMoves
    <2> QED BY <2>1, <2>2
  <1>4. ASSUME NEW s \in Sender, ReauthorizeDispatch(s) PROVE \A o \in Id : Moves(o)
    <2>1. cur[s].id \in Id /\ Current(s)
      BY <1>4 DEF ReauthorizeDispatch, CursorInv, Reauthorizable
    <2>2. disp[cur[s].id] \in Dispatch
      BY <2>1 DEF CoreType, Current, Live
    <2>3. disp[cur[s].id].deadline \in Nat /\ now + Confirm \in Nat
      BY <2>2, DurableDispatchAssumption DEF Dispatch, ClockType
    <2>4. \E deadline \in Nat : Rotate(cur[s].id, deadline, FALSE)
      BY <1>4, <2>3 DEF ReauthorizeDispatch
    <2> QED BY <2>1, <2>4, RotateMoves
  <1>5. ASSUME NEW s \in Sender, AuthorizeDispatchWrapUp(s) PROVE \A o \in Id : Moves(o)
    <2>1. cur[s].id \in Id /\ Current(s) /\ Rotate(cur[s].id, now + Confirm, TRUE)
      BY <1>5 DEF AuthorizeDispatchWrapUp, CursorInv, WrapUpAllowed
    <2>2. now + Confirm \in Nat
      BY DurableDispatchAssumption DEF ClockType
    <2> QED BY <2>1, <2>2, RotateMoves
  <1>6. ASSUME NEW s \in Sender, BeginDispatchAttempt(s) PROVE \A o \in Id : Moves(o)
    <2>1. cur[s].id \in Id
      BY <1>6 DEF CursorInv, BeginDispatchAttempt
    <2>2. disp[cur[s].id] \in Dispatch /\ disp[cur[s].id] # None /\ disp[cur[s].id].state \notin Terminal
      BY <1>6, <2>1 DEF CoreType, BeginDispatchAttempt, Attemptable, Pending, Live
    <2>3. PICK e : e = Attempted(disp[cur[s].id])
      OBVIOUS
    <2>4. Continues(disp[cur[s].id], e) /\ disp' = [disp EXCEPT ![cur[s].id] = e]
      BY <1>6, <2>2, <2>3, AttemptedContinues DEF BeginDispatchAttempt
    <2> QED BY <2>1, <2>2, <2>4, ContinuesMoves
  <1>7. ASSUME NEW s \in Sender, SenderStep(s),
               ~(ReauthorizeDispatch(s) \/ AuthorizeDispatchWrapUp(s) \/ BeginDispatchAttempt(s))
        PROVE  \A o \in Id : Moves(o)
    <2>1. disp' = disp
      BY <1>7 DEF SenderStep, ReadDispatch, ObserveExit, RefuseGrant, Observe, WriteDocument,
           RefuseAttempt, sendDispatch, WriteSession, StartAgent, LaunchFails, awaitDispatch
    <2> QED BY <2>1, SameMoves
  <1>8. ASSUME NEW s \in Sender,
               \/ TimesOut(s) \/ SenderDies(s)
               \/ \E id \in Id, mode \in {"notify", "takeover", "wrap-up"} : WithDispatchDelivery(s, id, mode)
        PROVE  \A o \in Id : Moves(o)
    <2>1. disp' = disp
      BY <1>8 DEF TimesOut, SenderDies, WithDispatchDelivery
    <2> QED BY <2>1, SameMoves
  <1>9. ASSUME NEW a \in Agent, AgentStep(a) \/ AgentDies(a) PROVE \A o \in Id : Moves(o)
    <2>1. ASSUME NEW stage \in Stage, NEW to, Settle(a, stage, to),
                 agent[a] \in {"accepting", "completing"}
          PROVE  \A o \in Id : Moves(o)
      BY <2>1, SettleMoves
    <2>2. CASE PublishAccept(a) \/ PublishComplete(a)
      BY <2>1, <2>2 DEF PublishAccept, PublishComplete, Stage
    <2>3. CASE AgentDies(a) /\ disp' # disp
      BY <2>1, <2>3 DEF AgentDies, Stage
    <2>4. CASE disp' = disp
      BY <2>4, SameMoves
    <2> QED BY <1>9, <2>2, <2>3, <2>4 DEF AgentStep, Receive, OpenAccept, ReplayAccept, RefuseAccept,
               AuthorWrite, OpenComplete, StopWork, Publish
  <1>10. ASSUME NEW to \in States, Move(to) PROVE \A o \in Id : Moves(o)
    BY <1>10, SameMoves DEF Move
  <1>11. CASE Tick
    BY <1>11, SameMoves DEF Tick
  <1> QED BY <1>1, <1>2, <1>3, <1>4, <1>5, <1>6, <1>7, <1>8, <1>9, <1>10, <1>11 DEF Next, Decide

-----------------------------------------------------------------------------
(* What a step does to the rest: whatever matters to an exit or an aim takes *)
(* a new revision.                                                           *)

Env ==
  /\ rev' >= rev /\ now' >= now
  /\ rev' = rev => /\ session' = session /\ bound' = bound
                   /\ \A a \in Agent : agent'[a] \in Busy => agent[a] \in Busy

LEMMA EnvWritten ==
  ASSUME IInv, rev' = rev + 1, now' = now
  PROVE  Env
  BY DEF Env, IInv, ClockType

LEMMA EnvQuiet ==
  ASSUME IInv, UNCHANGED <<card, agent>>, now' \in {now, now + 1}
  PROVE  Env
  BY DEF Env, IInv, ClockType, card

LEMMA EnvAgent ==
  ASSUME IInv, UNCHANGED card, now' = now, NEW a \in Agent, NEW l, agent' = [agent EXCEPT ![a] = l],
         l \in Busy => agent[a] \in Busy
  PROVE  Env
  BY DEF Env, IInv, ClockType, card, TokenInv

LEMMA NextEnv ==
  ASSUME IInv, Next
  PROVE  Env
  <1>1. CASE Decide
    <2>1. rev' = rev + 1 /\ now' = now
      BY <1>1, Zenon DEF Decide, PrepareDispatch, EndDispatch, Terminate, Move, touch
    <2> QED BY <2>1, EnvWritten
  <1>2. ASSUME NEW s \in Sender, SenderStep(s) PROVE Env
    <2>1. CASE ReadDispatch(s) \/ ObserveExit(s) \/ RefuseGrant(s) \/ Observe(s)
               \/ RefuseAttempt(s) \/ sendDispatch(s) \/ awaitDispatch(s)
      <3>1. UNCHANGED <<now, card, agent>>
        BY <2>1, Zenon DEF ReadDispatch, ObserveExit, RefuseGrant, Observe, RefuseAttempt,
             sendDispatch, awaitDispatch, agents
      <3> QED BY <3>1, EnvQuiet
    <2>2. CASE ReauthorizeDispatch(s) \/ AuthorizeDispatchWrapUp(s) \/ BeginDispatchAttempt(s)
               \/ WriteSession(s)
      <3>1. rev' = rev + 1 /\ now' = now
        BY <2>2, Zenon DEF ReauthorizeDispatch, AuthorizeDispatchWrapUp, Rotate, touch,
             BeginDispatchAttempt, WriteSession
      <3> QED BY <3>1, EnvWritten
    <2>3. CASE WriteDocument(s) \/ LaunchFails(s)
      <3>1. now' = now /\ (rev' = rev + 1 \/ UNCHANGED <<card, agent>>)
        BY <2>3 DEF WriteDocument, LaunchFails, card, agents
      <3> QED BY <3>1, EnvWritten, EnvQuiet
    <2>4. CASE StartAgent(s)
      <3>1. UNCHANGED <<now, card>>
        BY <2>4 DEF StartAgent
      <3>2. agent' = agent \/ agent' = [agent EXCEPT ![cur[s].target] = "idle"]
        BY <2>4 DEF StartAgent
      <3>3. \A a \in Agent : agent'[a] \in Busy => agent[a] \in Busy
        BY <3>2 DEF IInv, TokenInv, Busy
      <3> QED BY <3>1, <3>3 DEF Env, IInv, ClockType, card
    <2> QED BY <1>2, <2>1, <2>2, <2>3, <2>4 DEF SenderStep
  <1>3. ASSUME NEW s \in Sender,
               \/ TimesOut(s) \/ SenderDies(s)
               \/ \E id \in Id, mode \in {"notify", "takeover", "wrap-up"} : WithDispatchDelivery(s, id, mode)
        PROVE  Env
    <2>1. UNCHANGED <<now, card, agent>>
      BY <1>3, Zenon DEF TimesOut, SenderDies, WithDispatchDelivery, agents
    <2> QED BY <2>1, EnvQuiet
  <1>4. ASSUME NEW a \in Agent, AgentStep(a) \/ AgentDies(a) PROVE Env
    <2>1. ASSUME NEW m \in mail, Receive(a, m) PROVE Env
      BY <2>1, EnvAgent DEF Receive, Do, Busy
    <2>2. CASE OpenAccept(a) \/ ReplayAccept(a) \/ RefuseAccept(a) \/ OpenComplete(a) \/ StopWork(a)
      BY <2>2, EnvAgent DEF OpenAccept, ReplayAccept, Begins, RefuseAccept, OpenComplete, StopWork, Do,
         Busy
    <2>3. CASE AuthorWrite(a) \/ Publish(a)
      <3>1. rev' = rev + 1 /\ now' = now
        BY <2>3 DEF AuthorWrite, touch, Publish, PublishAccept, PublishComplete, Settle
      <3> QED BY <3>1, EnvWritten
    <2>4. CASE AgentDies(a)
      <3>1. now' = now /\ agent' = [agent EXCEPT ![a] = "dead"]
            /\ (rev' = rev + 1 \/ UNCHANGED card)
        BY <2>4 DEF AgentDies, Do, Settle, card
      <3> QED BY <3>1, EnvWritten, EnvAgent DEF Busy
    <2> QED BY <1>4, <2>1, <2>2, <2>3, <2>4 DEF AgentStep
  <1>5. CASE Tick
    BY <1>5, EnvQuiet DEF Tick, agents
  <1> QED BY <1>1, <1>2, <1>3, <1>4, <1>5 DEF Next

-----------------------------------------------------------------------------
(* What was known of a grant, a message and a sender stays true.             *)

LEMMA KnownAfter ==
  ASSUME CoreType, CoreType', NEW t \in Token, Known(t), Moves(t.id)
  PROVE  /\ Known(t)'
         /\ t.epoch = disp'[t.id].epoch =>
              /\ t.epoch = disp[t.id].epoch /\ disp'[t.id].deadline = disp[t.id].deadline
              /\ disp'[t.id].wrapUp = disp[t.id].wrapUp
         /\ Open(t)' => Open(t)
  <1>1. t.id \in Id /\ t.epoch \in Nat /\ t = [id |-> t.id, epoch |-> t.epoch]
    BY DEF Token
  <1>2. disp[t.id] # None /\ disp'[t.id] # None
    BY DEF Known, Moves
  <1>3. disp[t.id].epoch \in Nat /\ disp'[t.id].epoch \in Nat
    BY <1>1, <1>2 DEF CoreType, Dispatch
  <1>4. Known(t)'
    BY <1>1, <1>2, <1>3 DEF Known, Moves
  <1>5. t.epoch = disp'[t.id].epoch =>
              /\ t.epoch = disp[t.id].epoch /\ disp'[t.id].deadline = disp[t.id].deadline
              /\ disp'[t.id].wrapUp = disp[t.id].wrapUp /\ (Live(t.id)' => Live(t.id))
    BY <1>1, <1>2, <1>3 DEF Known, Moves
  <1>6. Open(t)' => Open(t)
    <2> SUFFICES ASSUME Open(t)' PROVE Open(t)
      OBVIOUS
    <2>1. Live(t.id)' /\ t = [id |-> t.id, epoch |-> disp'[t.id].epoch]
      BY DEF Open, Auth
    <2>2. t.epoch = disp'[t.id].epoch
      BY <2>1
    <2>3. Live(t.id) /\ t.epoch = disp[t.id].epoch
      BY <1>5, <2>1, <2>2
    <2> QED BY <1>1, <2>3 DEF Open, Auth
  <1> QED BY <1>4, <1>5, <1>6

LEMMA MessageAfter ==
  ASSUME HInv, IInv', NEW m \in mail, \A id \in Id : Moves(id),
         session' = session \/ ~Open(m.token)
  PROVE  MessageOK(m)'
  <1>1. m \in Message /\ m.token \in Token /\ m.token.id \in Id /\ Known(m.token)
        /\ (Open(m.token) /\ ~disp[m.token.id].wrapUp => m.to = session)
    BY DEF HInv, MessageOK, Message, Token
  <1>2. PICK t : t = m.token
    OBVIOUS
  <1>3. /\ Known(t)' /\ (Open(t)' => Open(t))
        /\ t.epoch = disp'[t.id].epoch => disp'[t.id].wrapUp = disp[t.id].wrapUp
    BY <1>1, <1>2, KnownAfter DEF HInv, IInv, Core
  <1>4. Open(t)' => t.epoch = disp'[t.id].epoch
    BY DEF Open, Auth
  <1> QED BY <1>1, <1>2, <1>3, <1>4 DEF MessageOK

\* A message of a sender that transmits.
LEMMA MessageSent ==
  ASSUME HInv, NEW s \in Sender, pc[s] \in {"send", "start"}, UNCHANGED <<disp, session>>,
         NEW m, m = [to |-> cur[s].target, token |-> Mine(s)]
  PROVE  MessageOK(m)'
  <1>1. /\ Mine(s) \in Token /\ Known(Mine(s)) /\ cur[s].target \in Agent
        /\ Open(Mine(s)) => cur[s].target = session
    BY DEF HInv, SenderOK, ReadOK, AimOK
  <1>2. m.to = cur[s].target /\ m.token = Mine(s) /\ m \in Message
    BY <1>1 DEF Message
  <1>3. PICK t : t = m.token
    OBVIOUS
  <1>4. Known(t)' /\ (Open(t)' => m.to = session')
    BY <1>1, <1>2, <1>3 DEF Known, Open, Live, Auth
  <1> QED BY <1>2, <1>3, <1>4 DEF MessageOK

LEMMA OtherSender ==
  ASSUME HInv, IInv', Env, \A id \in Id : Moves(id), NEW o \in Sender,
         pc'[o] = pc[o], cur'[o] = cur[o],
         pc[o] # "idle" => /\ lease'[cur[o].id] = o
                           /\ Open(Mine(o)) => session' = session
                           /\ \A m \in mail' : m \in mail \/ m.token.id # cur[o].id
  PROVE  SenderOK(o)'
  <1> SUFFICES ASSUME pc[o] # "idle" PROVE SenderOK(o)'
    BY DEF SenderOK
  <1> PICK c : c = cur[o]
    OBVIOUS
  <1> PICK t : t = Mine(o)
    OBVIOUS
  <1>1. c \in Cursor /\ c.id \in Id /\ t.id = c.id /\ t.epoch = c.epoch /\ Mine(o)' = t
    BY DEF HInv, SenderOK, ReadOK, Cursor, Mine
  <1>2. /\ lease[c.id] = o /\ disp[c.id] # None
        /\ pc[o] # "read" =>
             t \in Token /\ Known(t) /\ (t.epoch = disp[c.id].epoch => c.deadline = disp[c.id].deadline)
    BY <1>1 DEF HInv, SenderOK, ReadOK
  <1>3. pc[o] # "read" =>
          /\ Known(t)' /\ (Open(t)' => Open(t))
          /\ t.epoch = disp'[c.id].epoch =>
               t.epoch = disp[c.id].epoch /\ disp'[c.id].deadline = disp[c.id].deadline
    BY <1>1, <1>2, KnownAfter DEF HInv, IInv, Core
  <1>4. ReadOK(o)'
    BY <1>1, <1>2, <1>3 DEF ReadOK, Moves
  <1>5. rev \in Nat /\ rev' \in Nat /\ rev' >= rev
    BY DEF HInv, IInv, ClockType, Env
  <1>6. ExitOK(o)'
    <2> SUFFICES ASSUME c.exit # None
                 PROVE  c.exit.rev <= rev' /\ (c.exit.rev = rev' => agent'[c.exit.session] \notin Busy)
      BY DEF ExitOK
    <2>1. c.exit.rev \in Nat /\ c.exit.session \in Agent
      BY <1>1 DEF Cursor, Exit
    <2>2. c.exit.rev <= rev /\ (c.exit.rev = rev => agent[c.exit.session] \notin Busy)
      BY DEF HInv, SenderOK, ExitOK
    <2> QED BY <1>5, <2>1, <2>2 DEF Env
  <1>7. AimOK(o)'
    <2>1. c.card \in Nat
      BY <1>1 DEF Cursor
    <2>2. pc[o] \in {"window", "begin"} =>
             c.card <= rev' /\ (c.card = rev' => c.target = session')
      BY <1>5, <2>1 DEF HInv, SenderOK, AimOK, Env
    <2>3. pc[o] \in {"send", "start"} => c.target \in Agent /\ (Open(t)' => c.target = session')
      BY <1>3 DEF HInv, SenderOK, AimOK
    <2> QED BY <1>1, <2>2, <2>3 DEF AimOK, Open
  <1>8. StartOK(o)'
    <2>1. c.card \in Nat
      BY <1>1 DEF Cursor
    <2>2. pc[o] = "start" =>
            /\ c.old \in Agent /\ c.card <= rev'
            /\ c.card = rev' => bound' = t /\ (c.mode = "notify" => c.old = session')
      BY <1>5, <2>1 DEF HInv, SenderOK, StartOK, Env
    <2> QED BY <1>1, <2>2 DEF StartOK
  <1>9. UntoldOK(o)'
    <2> SUFFICES ASSUME pc[o] \in {"observe", "window", "begin", "launch", "start"}, c.mode # "notify",
                        NEW m \in mail'
                 PROVE  m.token # t
      BY <1>1 DEF UntoldOK
    <2>1. m \in mail \/ m.token.id # c.id
      OBVIOUS
    <2> QED BY <1>1, <2>1 DEF HInv, SenderOK, UntoldOK
  <1> QED BY <1>4, <1>6, <1>7, <1>8, <1>9 DEF SenderOK

-----------------------------------------------------------------------------
(* The session the card names.                                               *)

\* Under one lease there is one sender.
LEMMA OneSender ==
  ASSUME HInv, NEW s \in Sender, NEW o \in Sender, pc[s] # "idle", pc[o] # "idle",
         cur[s].id = cur[o].id
  PROVE  s = o
  BY DEF HInv, SenderOK, ReadOK

LEMMA OpenIsBound ==
  ASSUME HInv, NEW t \in Token, Open(t)
  PROVE  bound = t
  BY DEF HInv, IInv, Core, OneLiveAuthority, Open, Token

\* Who writes the session holds the open grant, if any is open, and writes
\* another session only while nobody was told of it.
LEMMA SessionWritten ==
  ASSUME HInv, NEW s \in Sender, WriteSession(s) \/ LaunchFails(s), session' # session
  PROVE  /\ pc[s] # "idle" /\ session' \in Agent /\ rev' = rev + 1
         /\ \A t \in Token : Open(t) => t = Mine(s) /\ \A m \in mail : m.token # t
  <1> USE DEF HInv, SenderOK
  <1>1. CASE WriteSession(s)
    <2>1. pc[s] = "launch" /\ bound = Mine(s) /\ rev' = rev + 1
      BY <1>1 DEF WriteSession, requireExecution, Mine, touch
    <2>2. PICK a \in Agent : session' = a /\ (a = session <=> cur[s].mode = "notify")
      BY <1>1 DEF WriteSession
    <2>3. cur[s].mode # "notify"
      BY <2>2
    <2>4. \A m \in mail : m.token # Mine(s)
      BY <2>1, <2>3 DEF UntoldOK
    <2> QED BY <2>1, <2>2, <2>4, OpenIsBound
  <1>2. CASE LaunchFails(s)
    <2>1. pc[s] = "start" /\ rev = cur[s].card /\ rev' = rev + 1 /\ session' = cur[s].old
      BY <1>2 DEF LaunchFails, RollsBack
    <2>2. bound = Mine(s) /\ cur[s].old \in Agent /\ cur[s].mode # "notify"
      BY <2>1 DEF StartOK
    <2>3. \A m \in mail : m.token # Mine(s)
      BY <2>1, <2>2 DEF UntoldOK
    <2> QED BY <2>1, <2>2, <2>3, OpenIsBound
  <1> QED BY <1>1, <1>2

LEMMA NextSession ==
  ASSUME HInv, Next
  PROVE  session' = session \/ \E s \in Sender : WriteSession(s) \/ LaunchFails(s)
  <1>1. CASE Decide \/ Tick
    BY <1>1 DEF Decide, PrepareDispatch, EndDispatch, Terminate, Move, Tick, card
  <1>2. ASSUME NEW s \in Sender, SenderStep(s), ~(WriteSession(s) \/ LaunchFails(s))
        PROVE  session' = session
    BY <1>2 DEF SenderStep, ReadDispatch, ObserveExit, ReauthorizeDispatch, AuthorizeDispatchWrapUp,
       RefuseGrant, Observe, WriteDocument, BeginDispatchAttempt, RefuseAttempt, sendDispatch,
       StartAgent, awaitDispatch, card
  <1>3. ASSUME NEW s \in Sender,
               \/ TimesOut(s) \/ SenderDies(s)
               \/ \E id \in Id, mode \in {"notify", "takeover", "wrap-up"} : WithDispatchDelivery(s, id, mode)
        PROVE  session' = session
    BY <1>3 DEF TimesOut, SenderDies, WithDispatchDelivery, card
  <1>4. ASSUME NEW a \in Agent, AgentStep(a) \/ AgentDies(a) PROVE session' = session
    BY <1>4 DEF AgentStep, AgentDies, Receive, OpenAccept, ReplayAccept, RefuseAccept, AuthorWrite,
       OpenComplete, StopWork, Publish, PublishAccept, PublishComplete, card
  <1> QED BY <1>1, <1>2, <1>3, <1>4 DEF Next

LEMMA SessionType ==
  ASSUME HInv, Next
  PROVE  session' \in Agent
  BY NextSession, SessionWritten DEF HInv

-----------------------------------------------------------------------------
(* Messages, and what agents hold.                                           *)

\* A message is handed over by three kinds of steps.
LEMMA NextMail ==
  ASSUME HInv, Next
  PROVE  \/ mail' = mail
         \/ \E s \in Sender : /\ pc[s] \in {"send", "start"} /\ UNCHANGED <<disp, session>>
                              /\ mail' = mail \cup {[to |-> cur[s].target, token |-> Mine(s)]}
         \/ \E s \in Sender, a \in Agent : /\ AuthorizeDispatchWrapUp(s)
                                           /\ mail' = mail \cup {[to |-> a, token |-> bound']}
  <1>1. CASE Decide \/ Tick
    BY <1>1 DEF Decide, PrepareDispatch, EndDispatch, Terminate, Move, Tick, agents
  <1>2. ASSUME NEW s \in Sender, sendDispatch(s) \/ StartAgent(s), mail' # mail
        PROVE  /\ pc[s] \in {"send", "start"} /\ UNCHANGED <<disp, session>>
               /\ mail' = mail \cup {[to |-> cur[s].target, token |-> Mine(s)]}
    BY <1>2 DEF sendDispatch, StartAgent, Transmit, Mine, card
  <1>3. ASSUME NEW s \in Sender, AuthorizeDispatchWrapUp(s)
        PROVE  \E a \in Agent : mail' = mail \cup {[to |-> a, token |-> bound']}
    BY <1>3 DEF AuthorizeDispatchWrapUp
  <1>4. ASSUME NEW s \in Sender, SenderStep(s),
               ~(sendDispatch(s) \/ StartAgent(s) \/ AuthorizeDispatchWrapUp(s))
        PROVE  mail' = mail
    BY <1>4 DEF SenderStep, ReadDispatch, ObserveExit, ReauthorizeDispatch, RefuseGrant, Observe,
       WriteDocument, BeginDispatchAttempt, RefuseAttempt, WriteSession, LaunchFails, awaitDispatch,
       agents
  <1>5. ASSUME NEW s \in Sender,
               \/ TimesOut(s) \/ SenderDies(s)
               \/ \E id \in Id, mode \in {"notify", "takeover", "wrap-up"} : WithDispatchDelivery(s, id, mode)
        PROVE  mail' = mail
    BY <1>5 DEF TimesOut, SenderDies, WithDispatchDelivery, agents
  <1>6. ASSUME NEW a \in Agent, AgentStep(a) \/ AgentDies(a) PROVE mail' = mail
    BY <1>6 DEF AgentStep, AgentDies, Receive, OpenAccept, ReplayAccept, RefuseAccept, AuthorWrite,
       OpenComplete, StopWork, Publish, PublishAccept, PublishComplete, agents
  <1> QED BY <1>1, <1>2, <1>3, <1>4, <1>5, <1>6 DEF Next

\* The grant of a wrap-up, told with its message.
LEMMA WrapUpGrant ==
  ASSUME HInv, IInv', NEW s \in Sender, AuthorizeDispatchWrapUp(s)
  PROVE  /\ bound'.id = cur[s].id /\ bound' \in Token
         /\ disp'[cur[s].id] # None /\ disp'[cur[s].id].wrapUp
         /\ bound'.epoch = disp'[cur[s].id].epoch
  <1>1. cur[s].id \in Id /\ disp[cur[s].id] \in Dispatch
    BY DEF AuthorizeDispatchWrapUp, WrapUpAllowed, Current, Live, HInv, IInv, CursorInv, Core, CoreType
  <1>2. disp'[cur[s].id] = Rotated(disp[cur[s].id], now + Confirm, TRUE)
    BY <1>1 DEF AuthorizeDispatchWrapUp, Rotate, HInv, IInv, Core, CoreType
  <1>3. bound' = [id |-> cur[s].id, epoch |-> disp'[cur[s].id].epoch]
    BY DEF AuthorizeDispatchWrapUp, Rotate
  <1>4. bound' \in Token
    BY <1>1, <1>3, TokenFields DEF HInv, IInv, Core, CoreType, Unbound
  <1>5. disp'[cur[s].id] # None
    <2>1. bound' # Unbound /\ bound'.id = cur[s].id
      BY <1>3, <1>4, TokenFields
    <2> QED BY <2>1 DEF HInv, IInv, Core, BoundKnown
  <1> QED BY <1>1, <1>2, <1>3, <1>4, <1>5 DEF Rotated, Dispatch

LEMMA NextMessages ==
  ASSUME HInv, IInv', Next
  PROVE  \A m \in mail' : MessageOK(m)'
  <1>1. \A id \in Id : Moves(id)
    BY NextMoves DEF HInv
  <1>2. ASSUME NEW m \in mail PROVE MessageOK(m)'
    <2>1. m.token \in Token
      BY DEF HInv, MessageOK, Message
    <2>2. session' = session \/ ~Open(m.token)
      <3>1. SUFFICES ASSUME session' # session, Open(m.token) PROVE FALSE
        OBVIOUS
      <3>2. PICK s \in Sender : WriteSession(s) \/ LaunchFails(s)
        BY <3>1, NextSession
      <3>3. \A t \in Token : Open(t) => \A n \in mail : n.token # t
        BY <3>1, <3>2, SessionWritten
      <3> QED BY <2>1, <3>1, <3>3
    <2> QED BY <1>1, <2>2, MessageAfter
  <1>3. ASSUME NEW s \in Sender, NEW m, pc[s] \in {"send", "start"}, UNCHANGED <<disp, session>>,
               m = [to |-> cur[s].target, token |-> Mine(s)]
        PROVE  MessageOK(m)'
    BY <1>3, MessageSent
  <1>4. ASSUME NEW s \in Sender, NEW a \in Agent, AuthorizeDispatchWrapUp(s),
               NEW m, m = [to |-> a, token |-> bound']
        PROVE  MessageOK(m)'
    <2>1. /\ bound'.id = cur[s].id /\ bound' \in Token
          /\ disp'[cur[s].id] # None /\ disp'[cur[s].id].wrapUp
          /\ bound'.epoch = disp'[cur[s].id].epoch
      BY <1>4, WrapUpGrant
    <2>2. m.token = bound' /\ m \in Message
      BY <1>4, <2>1 DEF Message
    <2>3. bound'.epoch \in Nat
      BY <2>1 DEF Token
    <2> QED BY <2>1, <2>2, <2>3 DEF MessageOK, Known
  <1>5. CASE mail' = mail
    BY <1>2, <1>5
  <1>6. ASSUME NEW s \in Sender, pc[s] \in {"send", "start"}, UNCHANGED <<disp, session>>,
               mail' = mail \cup {[to |-> cur[s].target, token |-> Mine(s)]}
        PROVE  \A n \in mail' : MessageOK(n)'
    BY <1>2, <1>3, <1>6
  <1>7. ASSUME NEW s \in Sender, NEW a \in Agent, AuthorizeDispatchWrapUp(s),
               mail' = mail \cup {[to |-> a, token |-> bound']}
        PROVE  \A n \in mail' : MessageOK(n)'
    BY <1>2, <1>4, <1>7
  <1> QED BY <1>5, <1>6, <1>7, NextMail

\* Where an agent is told of a grant, and where it begins to answer.
LEMMA NextAgent ==
  ASSUME IInv, Next, NEW a \in Agent
  PROVE  /\ agent'[a] \in AgentState \ {"dead", "idle"} =>
              \/ agent[a] \notin {"dead", "idle"} /\ token'[a] = token[a]
              \/ agent'[a] = "told" /\ \E m \in mail : m.to = a /\ token'[a] = m.token
         /\ agent'[a] = "accepting" =>
              \/ agent[a] = "accepting" /\ token'[a] = token[a]
              \/ token'[a] = token[a] /\ bound = token[a] /\ InTime(bound.id) /\ UNCHANGED <<disp, now>>
  <1> USE DEF IInv, TokenInv
  <1>1. CASE UNCHANGED <<agent, token>>
    BY <1>1
  <1>2. CASE Decide \/ Tick
    <2>1. UNCHANGED <<agent, token>>
      BY <1>2 DEF Decide, PrepareDispatch, EndDispatch, Terminate, Move, Tick, agents
    <2> QED BY <1>1, <2>1
  <1>3. ASSUME NEW s \in Sender, SenderStep(s), ~UNCHANGED <<agent, token>>
        PROVE  agent'[a] = "idle" \/ (agent'[a] = agent[a] /\ token'[a] = token[a])
    <2>1. StartAgent(s)
      BY <1>3 DEF SenderStep, ReadDispatch, ObserveExit, ReauthorizeDispatch, AuthorizeDispatchWrapUp,
         RefuseGrant, Observe, WriteDocument, BeginDispatchAttempt, RefuseAttempt, sendDispatch,
         WriteSession, LaunchFails, awaitDispatch, agents
    <2>2. /\ agent' = [agent EXCEPT ![cur[s].target] = "idle"]
          /\ token' = [token EXCEPT ![cur[s].target] = None]
      BY <1>3, <2>1 DEF StartAgent
    <2> QED BY <2>2
  <1>4. ASSUME NEW s \in Sender,
               \/ TimesOut(s) \/ SenderDies(s)
               \/ \E id \in Id, mode \in {"notify", "takeover", "wrap-up"} : WithDispatchDelivery(s, id, mode)
        PROVE  UNCHANGED <<agent, token>>
    BY <1>4 DEF TimesOut, SenderDies, WithDispatchDelivery, agents
  <1>5. ASSUME NEW b \in Agent, NEW m \in mail, Receive(b, m)
        PROVE  \/ agent'[a] = agent[a] /\ token'[a] = token[a]
               \/ agent'[a] = "told" /\ m.to = a /\ token'[a] = m.token
    BY <1>5 DEF Receive, Do
  <1>6. ASSUME NEW b \in Agent, OpenAccept(b)
        PROVE  \/ agent'[a] = agent[a] /\ token'[a] = token[a]
               \/ /\ agent[a] = "told" /\ agent'[a] = "accepting"
                  /\ token'[a] = token[a] /\ bound = token[a] /\ InTime(bound.id) /\ UNCHANGED <<disp, now>>
    BY <1>6 DEF OpenAccept, Acceptable, Bound, Do
  <1>7. ASSUME NEW b \in Agent,
               \/ ReplayAccept(b) \/ RefuseAccept(b) \/ StopWork(b) \/ PublishComplete(b) \/ AgentDies(b)
               \/ AuthorWrite(b)
        PROVE  token' = token /\ (agent'[a] = agent[a] \/ agent'[a] \in {"dead", "idle"})
    BY <1>7 DEF ReplayAccept, Begins, RefuseAccept, StopWork, PublishComplete, AgentDies, AuthorWrite,
       Do, agents
  <1>8. ASSUME NEW b \in Agent, OpenComplete(b) \/ PublishAccept(b)
        PROVE  /\ token' = token
               /\ \/ agent'[a] = agent[a]
                  \/ agent[a] \in {"accepting", "working"} /\ agent'[a] \in Busy
    BY <1>8 DEF OpenComplete, PublishAccept, Do, Busy
  <1>9. ASSUME NEW b \in Agent, AgentStep(b) \/ AgentDies(b)
        PROVE  /\ agent'[a] \in AgentState \ {"dead", "idle"} =>
                    \/ agent[a] \notin {"dead", "idle"} /\ token'[a] = token[a]
                    \/ agent'[a] = "told" /\ \E m \in mail : m.to = a /\ token'[a] = m.token
               /\ agent'[a] = "accepting" =>
                    \/ agent[a] = "accepting" /\ token'[a] = token[a]
                    \/ /\ token'[a] = token[a] /\ bound = token[a]
                       /\ InTime(bound.id) /\ UNCHANGED <<disp, now>>
    BY <1>5, <1>6, <1>7, <1>8, <1>9 DEF AgentStep, Publish, Busy
  <1> QED BY <1>1, <1>2, <1>3, <1>4, <1>9 DEF Next

LEMMA NextHeld ==
  ASSUME HInv, IInv', Next
  PROVE  HeldOK'
  <1> SUFFICES ASSUME NEW a \in Agent, agent'[a] \notin {"dead", "idle"}
               PROVE  [to |-> a, token |-> token'[a]] \in mail'
    BY DEF HeldOK
  <1>1. mail \subseteq mail'
    BY NextMail
  <1>2. agent'[a] \in AgentState
    BY DEF IInv, TokenInv
  <1>3. CASE agent[a] \notin {"dead", "idle"} /\ token'[a] = token[a]
    BY <1>1, <1>3 DEF HInv, HeldOK
  <1>4. ASSUME NEW m \in mail, m.to = a, token'[a] = m.token
        PROVE  [to |-> a, token |-> token'[a]] \in mail'
    <2>1. m \in Message
      BY DEF HInv, MessageOK
    <2>2. m = [to |-> a, token |-> token'[a]]
      BY <1>4, <2>1 DEF Message
    <2> QED BY <1>1, <2>2
  <1> QED BY <1>2, <1>3, <1>4, NextAgent DEF HInv

-----------------------------------------------------------------------------
(* Grants whose deadline has been seen to pass.                              *)

Lapsed(t) ==
  /\ t \in Token /\ Known(t)
  /\ t.epoch = disp[t.id].epoch =>
       /\ disp[t.id].deadline <= now
       /\ \A a \in Agent : agent[a] = "accepting" => token[a] # t

LEMMA NextExpired ==
  ASSUME HInv, IInv', Next
  PROVE  ExpiredOK'
  <1>1. ASSUME NEW t \in expired PROVE Lapsed(t)'
    <2>1. Lapsed(t) /\ t \in Token /\ t.id \in Id /\ Known(t)
      BY DEF HInv, ExpiredOK, Lapsed, Token
    <2>2. /\ Known(t)'
          /\ t.epoch = disp'[t.id].epoch =>
               t.epoch = disp[t.id].epoch /\ disp'[t.id].deadline = disp[t.id].deadline
      BY <2>1, NextMoves, KnownAfter DEF HInv, IInv, Core
    <2>3. SUFFICES ASSUME t.epoch = disp'[t.id].epoch
                   PROVE  /\ disp'[t.id].deadline <= now'
                          /\ \A a \in Agent : agent'[a] = "accepting" => token'[a] # t
      BY <2>1, <2>2 DEF Lapsed
    <2>4. disp[t.id].deadline \in Nat /\ now \in Nat /\ now' \in Nat /\ now' >= now
          /\ disp[t.id].deadline <= now
      BY <2>1, <2>2, <2>3, NextEnv DEF HInv, IInv, ClockType, Core, CoreType, Dispatch, Known, Lapsed, Env
    <2>5. ASSUME NEW a \in Agent, agent'[a] = "accepting", token'[a] = t PROVE FALSE
      <3>1. CASE agent[a] = "accepting" /\ token'[a] = token[a]
        BY <2>1, <2>2, <2>3, <2>5, <3>1 DEF Lapsed
      <3>2. CASE token'[a] = token[a] /\ bound = token[a] /\ InTime(bound.id)
        BY <2>4, <2>5, <3>2 DEF InTime
      <3> QED BY <2>5, <3>1, <3>2, NextAgent DEF HInv
    <2> QED BY <2>2, <2>3, <2>4, <2>5
  <1>2. ASSUME NEW s \in Sender, awaitDispatch(s), expired' # expired
        PROVE  \E t : expired' = expired \cup {t} /\ Lapsed(t)'
    <2>1. /\ pc[s] = "await" /\ TaskLock /\ GaveUp(s) /\ expired' = expired \cup {Mine(s)}
          /\ UNCHANGED <<disp, now, agent, token>>
      BY <1>2 DEF awaitDispatch, Mine, agents
    <2>2. PICK t : t = Mine(s)
      OBVIOUS
    <2>3. t \in Token /\ Known(t) /\ t.id = cur[s].id /\ t.epoch = cur[s].epoch
          /\ (t.epoch = disp[t.id].epoch => cur[s].deadline = disp[t.id].deadline)
      BY <2>1, <2>2 DEF HInv, SenderOK, ReadOK, Mine
    <2>4. now \in Nat /\ cur[s].deadline \in Nat /\ cur[s].deadline <= now
      BY <2>1 DEF HInv, IInv, ClockType, GaveUp, SenderOK, ReadOK, Cursor
    <2>5. \A a \in Agent : agent[a] # "accepting"
      BY <2>1, NobodyPublishes DEF HInv, IInv
    <2>6. Lapsed(t)'
      BY <2>1, <2>3, <2>4, <2>5 DEF Lapsed, Known
    <2> QED BY <2>1, <2>2, <2>6
  <1>3. ASSUME \A s \in Sender : ~awaitDispatch(s) PROVE expired' = expired
    <2>1. CASE Decide \/ Tick
      BY <2>1 DEF Decide, PrepareDispatch, EndDispatch, Terminate, Move, Tick, history
    <2>2. ASSUME NEW s \in Sender, SenderStep(s) PROVE expired' = expired
      BY <1>3, <2>2 DEF SenderStep, ReadDispatch, ObserveExit, ReauthorizeDispatch,
         AuthorizeDispatchWrapUp, RefuseGrant, Observe, WriteDocument, BeginDispatchAttempt,
         RefuseAttempt, sendDispatch, WriteSession, StartAgent, LaunchFails, history
    <2>3. ASSUME NEW s \in Sender,
                 \/ TimesOut(s) \/ SenderDies(s)
                 \/ \E id \in Id, mode \in {"notify", "takeover", "wrap-up"} : WithDispatchDelivery(s, id, mode)
          PROVE  expired' = expired
      BY <2>3 DEF TimesOut, SenderDies, WithDispatchDelivery, history
    <2>4. ASSUME NEW a \in Agent, AgentStep(a) \/ AgentDies(a) PROVE expired' = expired
      BY <2>4 DEF AgentStep, AgentDies, Receive, OpenAccept, ReplayAccept, RefuseAccept, AuthorWrite,
         OpenComplete, StopWork, Publish, PublishAccept, PublishComplete, history
    <2> QED BY <2>1, <2>2, <2>3, <2>4 DEF Next
  <1>4. \A t \in expired' : Lapsed(t)'
    <2>1. CASE expired' = expired
      BY <1>1, <2>1
    <2>2. CASE expired' # expired
      <3>1. PICK t : expired' = expired \cup {t} /\ Lapsed(t)'
        BY <1>2, <1>3, <2>2
      <3> QED BY <1>1, <3>1
    <2> QED BY <2>1, <2>2
  <1> QED BY <1>4 DEF ExpiredOK, Lapsed

-----------------------------------------------------------------------------
(* The senders that do not act.                                              *)

Acts(s) ==
  \/ SenderStep(s) \/ TimesOut(s) \/ SenderDies(s)
  \/ \E id \in Id, mode \in {"notify", "takeover", "wrap-up"} : WithDispatchDelivery(s, id, mode)

LEMMA LeaveFrame ==
  ASSUME HInv, NEW s \in Sender, Leave(s), NEW o \in Sender, o # s
  PROVE  /\ pc'[o] = pc[o] /\ cur'[o] = cur[o]
         /\ pc[o] # "idle" => lease'[cur[o].id] = o
  <1>1. pc[o] # "idle" => cur[o].id \in Id /\ lease[cur[o].id] = o
    BY DEF HInv, IInv, CursorInv, SenderOK, ReadOK
  <1> QED BY <1>1 DEF Leave, Goto, HInv, IInv, CursorInv

LEMMA ActFrame ==
  ASSUME HInv, NEW s \in Sender, Acts(s), NEW o \in Sender, o # s
  PROVE  /\ pc'[o] = pc[o] /\ cur'[o] = cur[o]
         /\ pc[o] # "idle" => lease'[cur[o].id] = o
  <1>1. CASE Leave(s)
    BY <1>1, LeaveFrame
  <1>2. CASE ~Leave(s) /\ SenderStep(s)
    <2>1. lease' = lease /\ \E l : Goto(s, l)
      BY <1>2 DEF SenderStep, ReadDispatch, ObserveExit, ReauthorizeDispatch, AuthorizeDispatchWrapUp,
         RefuseGrant, Observe, WriteDocument, BeginDispatchAttempt, RefuseAttempt, sendDispatch,
         WriteSession, StartAgent, LaunchFails, awaitDispatch
    <2>2. cur' = cur \/ \E y : cur' = [cur EXCEPT ![s] = y]
      BY <1>2 DEF SenderStep, ReadDispatch, ObserveExit, ReauthorizeDispatch, AuthorizeDispatchWrapUp,
         RefuseGrant, Observe, WriteDocument, BeginDispatchAttempt, RefuseAttempt, sendDispatch,
         WriteSession, StartAgent, LaunchFails, awaitDispatch
    <2> QED BY <2>1, <2>2 DEF Goto, HInv, SenderOK, ReadOK, IInv, CursorInv
  <1>3. ASSUME NEW id \in Id, NEW mode \in Modes, WithDispatchDelivery(s, id, mode)
        PROVE  /\ pc'[o] = pc[o] /\ cur'[o] = cur[o]
               /\ pc[o] # "idle" => lease'[cur[o].id] = o
    <2>1. /\ lease[id] = None /\ lease' = [lease EXCEPT ![id] = s]
          /\ \E y : cur' = [cur EXCEPT ![s] = y]
          /\ Goto(s, "read")
      BY <1>3 DEF WithDispatchDelivery
    <2>2. pc[o] # "idle" => cur[o].id \in Id /\ lease[cur[o].id] = o /\ o # None
      BY DurableDispatchAssumption DEF HInv, IInv, CursorInv, SenderOK, ReadOK
    <2> QED BY <2>1, <2>2 DEF Goto, HInv, IInv, CursorInv
  <1> QED BY <1>1, <1>2, <1>3 DEF Acts, TimesOut, SenderDies, Modes

LEMMA ActMail ==
  ASSUME HInv, IInv', NEW s \in Sender, Acts(s)
  PROVE  \A m \in mail' : m \in mail \/ (m.token.id = cur[s].id /\ pc[s] # "idle")
  <1>1. CASE sendDispatch(s) \/ StartAgent(s)
    BY <1>1 DEF sendDispatch, StartAgent, Transmit
  <1>2. CASE AuthorizeDispatchWrapUp(s)
    <2>1. bound'.id = cur[s].id
      BY <1>2, WrapUpGrant
    <2> QED BY <1>2, <2>1 DEF AuthorizeDispatchWrapUp
  <1>3. CASE ~(sendDispatch(s) \/ StartAgent(s) \/ AuthorizeDispatchWrapUp(s))
    <2>1. mail' = mail
      BY <1>3 DEF Acts, TimesOut, SenderDies, WithDispatchDelivery, SenderStep, ReadDispatch, ObserveExit,
         ReauthorizeDispatch, RefuseGrant, Observe, WriteDocument, BeginDispatchAttempt, RefuseAttempt,
         WriteSession, LaunchFails, awaitDispatch, agents
    <2> QED BY <2>1
  <1> QED BY <1>1, <1>2, <1>3

LEMMA ActSession ==
  ASSUME NEW s \in Sender, Acts(s), ~(WriteSession(s) \/ LaunchFails(s))
  PROVE  session' = session
  BY DEF Acts, TimesOut, SenderDies, WithDispatchDelivery, SenderStep, ReadDispatch, ObserveExit,
     ReauthorizeDispatch, AuthorizeDispatchWrapUp, RefuseGrant, Observe, WriteDocument,
     BeginDispatchAttempt, RefuseAttempt, sendDispatch, StartAgent, awaitDispatch, card

LEMMA OtherSenders ==
  ASSUME HInv, IInv', Next, NEW s \in Sender, Acts(s), NEW o \in Sender, o # s
  PROVE  SenderOK(o)'
  <1>1. Env /\ \A id \in Id : Moves(id)
    BY NextEnv, NextMoves DEF HInv
  <1>2. /\ pc'[o] = pc[o] /\ cur'[o] = cur[o]
        /\ pc[o] # "idle" => lease'[cur[o].id] = o
    BY ActFrame
  <1>3. ASSUME pc[o] # "idle", Open(Mine(o)), session' # session PROVE FALSE
    <2>1. WriteSession(s) \/ LaunchFails(s)
      BY <1>3, ActSession
    <2>2. pc[s] # "idle" /\ \A t \in Token : Open(t) => t = Mine(s)
      BY <1>3, <2>1, SessionWritten
    <2>3. Mine(o).id = cur[o].id /\ cur[o].id \in Id /\ disp[cur[o].id] # None
          /\ Mine(o) = Auth(cur[o].id)
      BY <1>3 DEF HInv, SenderOK, ReadOK, Cursor, Mine, Open
    <2>4. Mine(o) \in Token
      BY <2>3, AuthToken DEF HInv, IInv, Core
    <2>5. cur[o].id = cur[s].id
      BY <1>3, <2>2, <2>4 DEF Mine
    <2> QED BY <1>3, <2>2, <2>5, OneSender
  <1>4. ASSUME pc[o] # "idle", NEW m \in mail', m \notin mail PROVE m.token.id # cur[o].id
    BY <1>4, ActMail, OneSender
  <1> QED BY <1>1, <1>2, <1>3, <1>4, OtherSender

LEMMA QuietSenders ==
  ASSUME HInv, IInv', Next, UNCHANGED <<senders, session, mail>>, NEW o \in Sender
  PROVE  SenderOK(o)'
  <1>1. Env /\ \A id \in Id : Moves(id)
    BY NextEnv, NextMoves DEF HInv
  <1>2. pc'[o] = pc[o] /\ cur'[o] = cur[o] /\ lease' = lease
    BY DEF senders
  <1>3. pc[o] # "idle" => lease'[cur[o].id] = o
    BY <1>2 DEF HInv, SenderOK, ReadOK
  <1> QED BY <1>1, <1>2, <1>3, OtherSender

-----------------------------------------------------------------------------
(* The sender that acts.                                                     *)

LEMMA ReadKept ==
  ASSUME HInv, IInv', NEW s \in Sender, pc[s] \notin {"idle", "read"}, \A id \in Id : Moves(id),
         lease' = lease, cur'[s] \in Cursor, cur'[s].id = cur[s].id, cur'[s].epoch = cur[s].epoch,
         cur'[s].deadline = cur[s].deadline
  PROVE  ReadOK(s)' /\ Mine(s)' = Mine(s)
  <1> PICK t : t = Mine(s)
    OBVIOUS
  <1>1. /\ t.id = cur[s].id /\ t.epoch = cur[s].epoch /\ Mine(s)' = t
        /\ lease[cur[s].id] = s /\ t \in Token /\ Known(t) /\ cur[s].id \in Id
        /\ t.epoch = disp[t.id].epoch => cur[s].deadline = disp[t.id].deadline
    BY DEF HInv, SenderOK, ReadOK, Mine, Cursor
  <1>2. /\ Known(t)'
        /\ t.epoch = disp'[t.id].epoch =>
             t.epoch = disp[t.id].epoch /\ disp'[t.id].deadline = disp[t.id].deadline
    BY <1>1, KnownAfter DEF HInv, IInv, Core
  <1> QED BY <1>1, <1>2 DEF ReadOK, Known

LEMMA ExitKept ==
  ASSUME HInv, IInv', Env, NEW s \in Sender, pc[s] # "idle", cur'[s].exit = cur[s].exit
  PROVE  ExitOK(s)'
  <1> SUFFICES ASSUME cur[s].exit # None
               PROVE  /\ cur[s].exit.rev <= rev'
                      /\ cur[s].exit.rev = rev' => agent'[cur[s].exit.session] \notin Busy
    BY DEF ExitOK
  <1>1. cur[s].exit.rev \in Nat /\ cur[s].exit.session \in Agent
    BY DEF HInv, SenderOK, ReadOK, Cursor, Exit
  <1>2. cur[s].exit.rev <= rev /\ (cur[s].exit.rev = rev => agent[cur[s].exit.session] \notin Busy)
    BY DEF HInv, SenderOK, ExitOK
  <1>3. rev \in Nat /\ rev' \in Nat
    BY DEF HInv, IInv, ClockType
  <1> QED BY <1>1, <1>2, <1>3 DEF Env

LEMMA AtRest ==
  ASSUME NEW s \in Sender, pc' = [pc EXCEPT ![s] = "idle"], DOMAIN pc = Sender
  PROVE  SenderOK(s)'
  BY DEF SenderOK

\* ReadDispatch takes the epoch and the deadline from the dispatch.
LEMMA OwnRead ==
  ASSUME HInv, IInv', Env, \A id \in Id : Moves(id), NEW s \in Sender, ReadDispatch(s), ~Leave(s)
  PROVE  SenderOK(s)'
  <1> USE DEF HInv, IInv, CursorInv
  <1>1. PICK d : d = disp[cur[s].id]
    OBVIOUS
  <1>2. /\ pc[s] = "read" /\ cur[s] \in Cursor /\ lease[cur[s].id] = s /\ d # None
        /\ cur[s].id \in Id /\ d \in Dispatch
    BY <1>1 DEF ReadDispatch, SenderOK, ReadOK, Core, CoreType
  <1>3. d.epoch \in Nat /\ d.rev \in Nat /\ d.deadline \in Nat
    BY <1>2 DEF Dispatch
  <1>4. PICK e \in Nat, r \in Nat, t \in Nat : e = d.epoch /\ r = d.rev /\ t = d.deadline
    BY <1>3
  <1>5. PICK y : y = [cur[s] EXCEPT !.epoch = e, !.rev = r, !.deadline = t]
    OBVIOUS
  <1>6. /\ y \in Cursor /\ y.id = cur[s].id /\ y.epoch = e /\ y.deadline = t
         /\ y.exit = cur[s].exit /\ y.mode = cur[s].mode
    BY <1>2, <1>5 DEF Cursor
  <1>7. PICK l : /\ l = IF cur[s].mode = "wrap-up" \/ d.state = "accepted" THEN "recover"
                     ELSE IF cur[s].mode = "takeover" THEN "authorize" ELSE "observe"
    OBVIOUS
  <1>8. cur' = [cur EXCEPT ![s] = y] /\ Goto(s, l) /\ UNCHANGED <<disp, lease>>
    BY <1>1, <1>4, <1>5, <1>6, <1>7 DEF ReadDispatch
  <1>9. cur'[s] = y /\ pc'[s] = l /\ disp' = disp /\ lease' = lease
    BY <1>8 DEF Goto
  <1>10. [id |-> y.id, epoch |-> y.epoch] = Auth(y.id) /\ Auth(y.id) \in Token
    <2>1. y.id \in Id /\ disp[y.id] = d
      BY <1>1, <1>2, <1>5, <1>6
    <2> QED BY <1>1, <1>2, <1>4, <1>5, <1>6, <2>1, AuthToken DEF Auth, Core
  <1>11. ReadOK(s)'
    <2>1. Mine(s)' = Auth(y.id) /\ Mine(s)' \in Token
      BY <1>9, <1>10 DEF Mine
    <2>2. Known(Mine(s))'
      BY <1>1, <1>2, <1>3, <1>4, <1>6, <1>9, <2>1 DEF Known, Auth, Mine
    <2> QED BY <1>1, <1>2, <1>4, <1>5, <1>6, <1>9, <2>1, <2>2 DEF ReadOK
  <1>12. ExitOK(s)'
    BY <1>1, <1>2, <1>5, <1>6, <1>9, ExitKept
  <1>13. l \in {"recover", "authorize", "observe"} /\ (l = "observe" => y.mode = "notify")
    BY <1>1, <1>2, <1>5, <1>6, <1>7 DEF Cursor, Modes
  <1> QED BY <1>9, <1>11, <1>12, <1>13 DEF SenderOK, AimOK, StartOK, UntoldOK

LEMMA OwnObserveExit ==
  ASSUME HInv, IInv', Env, \A id \in Id : Moves(id), NEW s \in Sender, ObserveExit(s), ~Leave(s)
  PROVE  SenderOK(s)'
  <1> USE DEF HInv, IInv, CursorInv
  <1>1. pc[s] = "recover" /\ cur[s] \in Cursor /\ Stopped(session) /\ UNCHANGED <<card, agents, lease>>
    BY DEF ObserveExit, SenderOK, ReadOK
  <1>2. PICK e : e = [rev |-> rev, session |-> session, at |-> now]
    OBVIOUS
  <1>3. e \in Exit /\ e.rev = rev /\ e.session = session
    BY <1>2 DEF Exit, ClockType
  <1>4. PICK y : y = [cur[s] EXCEPT !.exit = e]
    OBVIOUS
  <1>5. /\ y \in Cursor /\ y.id = cur[s].id /\ y.epoch = cur[s].epoch
        /\ y.deadline = cur[s].deadline /\ y.exit = e
    BY <1>1, <1>3, <1>4 DEF Cursor
  <1>6. cur'[s] = y /\ pc'[s] = "authorize" /\ lease' = lease
    BY <1>1, <1>2, <1>4 DEF ObserveExit, Goto
  <1>7. ReadOK(s)'
    BY <1>1, <1>5, <1>6, ReadKept
  <1>8. ExitOK(s)'
    <2>1. rev' = rev /\ agent' = agent /\ rev \in Nat /\ agent[session] = "dead"
      BY <1>1 DEF card, agents, Stopped, ClockType
    <2> QED BY <1>3, <1>5, <1>6, <2>1 DEF ExitOK, Busy
  <1> QED BY <1>6, <1>7, <1>8 DEF SenderOK, AimOK, StartOK, UntoldOK

\* ReauthorizeDispatch knows the grant it has written; nobody was told of it.
LEMMA OwnReauthorize ==
  ASSUME HInv, IInv', Env, \A id \in Id : Moves(id), NEW s \in Sender, ReauthorizeDispatch(s)
  PROVE  SenderOK(s)'
  <1> USE DEF HInv, IInv, CursorInv
  <1>1. PICK d : d = disp[cur[s].id]
    OBVIOUS
  <1>2. /\ pc[s] = "authorize" /\ cur[s] \in Cursor /\ lease[cur[s].id] = s /\ d # None
        /\ cur[s].id \in Id /\ d \in Dispatch
    BY <1>1 DEF ReauthorizeDispatch, SenderOK, ReadOK, Core, CoreType
  <1>3. PICK dl : dl = IF Pending(cur[s].id) THEN disp[cur[s].id].deadline ELSE now + Confirm
    OBVIOUS
  <1>4. dl \in Nat
    BY <1>1, <1>2, <1>3, DurableDispatchAssumption DEF Dispatch, ClockType
  <1>5. PICK e : e = Rotated(d, dl, FALSE)
    OBVIOUS
  <1>6. disp'[cur[s].id] = e /\ disp' = [disp EXCEPT ![cur[s].id] = e]
        /\ bound' = [id |-> cur[s].id, epoch |-> e.epoch]
    BY <1>1, <1>2, <1>3, <1>5 DEF ReauthorizeDispatch, Rotate, Core, CoreType
  <1>7. e.epoch = d.epoch + 1 /\ e.rev = d.rev + 1 /\ e.deadline = dl
    BY <1>1, <1>2, <1>5 DEF Rotated, Dispatch
  <1>8. d.epoch \in Nat /\ d.rev \in Nat
    BY <1>2 DEF Dispatch
  <1>9. PICK n \in Nat, r \in Nat, t \in Nat : n = e.epoch /\ r = e.rev /\ t = dl
    BY <1>4, <1>7, <1>8
  <1>10. PICK y : y = [cur[s] EXCEPT !.epoch = n, !.rev = r, !.deadline = t]
    OBVIOUS
  <1>11. /\ y \in Cursor /\ y.id = cur[s].id /\ y.epoch = n /\ y.deadline = t
         /\ y.exit = cur[s].exit /\ y.mode = cur[s].mode
    BY <1>2, <1>10 DEF Cursor
  <1>12. cur'[s] = y /\ pc'[s] = "observe" /\ lease' = lease /\ mail' = mail
    BY <1>1, <1>3, <1>6, <1>9, <1>10, <1>11 DEF ReauthorizeDispatch, Goto, agents
  <1>13. bound' \in Token /\ e # None
    <2>1. bound' \in Token
      BY <1>1, <1>2, <1>6, TokenFields DEF Core, CoreType, Unbound
    <2> QED BY <1>1, <1>2, <1>6, <2>1, TokenFields DEF Core, BoundKnown
  <1>14. ReadOK(s)'
    <2>1. Mine(s)' = bound'
      BY <1>6, <1>9, <1>10, <1>11, <1>12 DEF Mine
    <2>2. Known(Mine(s))'
      BY <1>6, <1>7, <1>8, <1>9, <1>10, <1>11, <1>12, <1>13, <2>1 DEF Known, Mine
    <2> QED BY <1>1, <1>2, <1>6, <1>7, <1>9, <1>10, <1>11, <1>12, <1>13, <2>1, <2>2 DEF ReadOK
  <1>15. ExitOK(s)'
    BY <1>1, <1>2, <1>9, <1>10, <1>11, <1>12, ExitKept
  <1>16. UntoldOK(s)'
    <2> SUFFICES ASSUME NEW m \in mail, m.token.id = y.id, m.token.epoch = y.epoch PROVE FALSE
      BY <1>12 DEF UntoldOK, Mine
    <2>1. m.token.epoch <= d.epoch /\ m.token.epoch \in Nat
      <3>1. disp[m.token.id] = d /\ MessageOK(m)
        BY <1>1, <1>9, <1>10, <1>11
      <3> QED BY <3>1 DEF MessageOK, Message, Token, Known
    <2> QED BY <1>7, <1>8, <1>9, <1>10, <1>11, <2>1
  <1> QED BY <1>12, <1>14, <1>15, <1>16 DEF SenderOK, AimOK, StartOK

LEMMA OwnObserve ==
  ASSUME HInv, IInv', Env, \A id \in Id : Moves(id), NEW s \in Sender, Observe(s), ~Leave(s)
  PROVE  SenderOK(s)'
  <1> USE DEF HInv, IInv, CursorInv
  <1>1. /\ pc[s] = "observe" /\ cur[s] \in Cursor /\ UNCHANGED <<card, disp, agents, lease>>
        /\ cur[s].id \in Id /\ disp[cur[s].id] # None /\ UntoldOK(s)
    BY DEF Observe, SenderOK, ReadOK, Cursor
  <1>2. PICK r : r = IF cur[s].mode = "takeover" THEN cur[s].rev ELSE disp[cur[s].id].rev
    OBVIOUS
  <1>3. PICK l : l = (cur[s].mode = "takeover" \/ Stopped(session))
    OBVIOUS
  <1>4. r \in Nat /\ l \in BOOLEAN /\ rev \in Nat
    BY <1>1, <1>2, <1>3 DEF Core, CoreType, Dispatch, Cursor, ClockType
  <1>5. PICK y : y = [cur[s] EXCEPT !.rev = r, !.card = rev, !.target = session, !.launch = l]
    OBVIOUS
  <1>6. /\ y \in Cursor /\ y.id = cur[s].id /\ y.epoch = cur[s].epoch /\ y.deadline = cur[s].deadline
        /\ y.exit = cur[s].exit /\ y.mode = cur[s].mode /\ y.card = rev /\ y.target = session
    BY <1>1, <1>4, <1>5 DEF Cursor
  <1>7. cur'[s] = y /\ pc'[s] \in {"begin", "window"} /\ lease' = lease
    BY <1>1, <1>2, <1>3, <1>5 DEF Observe, Goto
  <1>8. ReadOK(s)' /\ Mine(s)' = Mine(s)
    BY <1>1, <1>6, <1>7, ReadKept
  <1>9. ExitOK(s)'
    BY <1>1, <1>6, <1>7, ExitKept
  <1>10. AimOK(s)'
    BY <1>1, <1>4, <1>6, <1>7 DEF AimOK, card
  <1>11. UntoldOK(s)'
    BY <1>1, <1>6, <1>7, <1>8 DEF UntoldOK, agents
  <1> QED BY <1>7, <1>8, <1>9, <1>10, <1>11 DEF SenderOK, StartOK

LEMMA OwnWriteDocument ==
  ASSUME HInv, IInv', Env, \A id \in Id : Moves(id), NEW s \in Sender, WriteDocument(s), ~Leave(s)
  PROVE  SenderOK(s)'
  <1> USE DEF HInv, IInv, CursorInv
  <1>1. /\ pc[s] = "window" /\ cur[s] \in Cursor /\ rev = cur[s].card /\ rev' = rev + 1
        /\ UNCHANGED <<session, mail, lease>> /\ UntoldOK(s) /\ AimOK(s)
    BY DEF WriteDocument, SenderOK, ReadOK, agents
  <1>2. rev \in Nat /\ rev + 1 \in Nat
    BY DEF ClockType
  <1>3. PICK n \in Nat : n = rev + 1
    BY <1>2
  <1>4. PICK y : y = [cur[s] EXCEPT !.card = n]
    OBVIOUS
  <1>5. /\ y \in Cursor /\ y.id = cur[s].id /\ y.epoch = cur[s].epoch /\ y.deadline = cur[s].deadline
        /\ y.exit = cur[s].exit /\ y.mode = cur[s].mode /\ y.card = n /\ y.target = cur[s].target
    BY <1>1, <1>4 DEF Cursor
  <1>6. cur'[s] = y /\ pc'[s] = "begin" /\ lease' = lease
    BY <1>1, <1>3, <1>4 DEF WriteDocument, Goto
  <1>7. ReadOK(s)' /\ Mine(s)' = Mine(s)
    BY <1>1, <1>5, <1>6, ReadKept
  <1>8. ExitOK(s)'
    BY <1>1, <1>5, <1>6, ExitKept
  <1>9. cur[s].target = session
    BY <1>1 DEF AimOK
  <1>10. AimOK(s)'
    BY <1>1, <1>3, <1>5, <1>6, <1>9 DEF AimOK
  <1>11. UntoldOK(s)'
    BY <1>1, <1>5, <1>6, <1>7 DEF UntoldOK
  <1> QED BY <1>6, <1>7, <1>8, <1>10, <1>11 DEF SenderOK, StartOK

\* An attempt on a card that has not changed is aimed at its session.
LEMMA OwnBegin ==
  ASSUME HInv, IInv', Env, \A id \in Id : Moves(id), NEW s \in Sender, BeginDispatchAttempt(s)
  PROVE  SenderOK(s)'
  <1> USE DEF HInv, IInv, CursorInv
  <1>1. /\ pc[s] = "begin" /\ cur[s] \in Cursor /\ rev = cur[s].card
        /\ UNCHANGED <<session, mail, lease, cur>> /\ UntoldOK(s) /\ AimOK(s)
    BY DEF BeginDispatchAttempt, Attemptable, SenderOK, ReadOK, agents
  <1>2. pc'[s] \in {"launch", "send"}
    BY DEF BeginDispatchAttempt, Goto
  <1>3. ReadOK(s)' /\ Mine(s)' = Mine(s)
    BY <1>1, ReadKept
  <1>4. ExitOK(s)'
    BY <1>1, ExitKept
  <1>5. AimOK(s)'
    BY <1>1, <1>2 DEF AimOK
  <1>6. UntoldOK(s)'
    BY <1>1, <1>2, <1>3 DEF UntoldOK
  <1> QED BY <1>2, <1>3, <1>4, <1>5, <1>6 DEF SenderOK, StartOK

LEMMA OwnAwait ==
  ASSUME HInv, IInv', Env, \A id \in Id : Moves(id), NEW s \in Sender,
         sendDispatch(s) \/ StartAgent(s), ~Leave(s)
  PROVE  SenderOK(s)'
  <1> USE DEF HInv, IInv, CursorInv
  <1>1. /\ pc[s] \in {"send", "start"} /\ cur[s] \in Cursor /\ UNCHANGED <<lease, cur>>
        /\ pc'[s] = "await"
    BY DEF sendDispatch, StartAgent, Goto, SenderOK, ReadOK
  <1>2. ReadOK(s)' /\ Mine(s)' = Mine(s)
    BY <1>1, ReadKept
  <1>3. ExitOK(s)'
    BY <1>1, ExitKept
  <1> QED BY <1>1, <1>2, <1>3 DEF SenderOK, AimOK, StartOK, UntoldOK

LEMMA OwnWriteSession ==
  ASSUME HInv, IInv', Env, \A id \in Id : Moves(id), NEW s \in Sender, WriteSession(s)
  PROVE  SenderOK(s)'
  <1> USE DEF HInv, IInv, CursorInv
  <1>1. /\ pc[s] = "launch" /\ cur[s] \in Cursor /\ rev' = rev + 1 /\ bound = Mine(s) /\ bound' = bound
        /\ UNCHANGED <<mail, lease>> /\ UntoldOK(s)
    BY DEF WriteSession, requireExecution, Mine, touch, SenderOK, ReadOK, agents
  <1>2. PICK a \in Agent : /\ a = session <=> cur[s].mode = "notify"
                           /\ session' = a
                           /\ cur' = [cur EXCEPT ![s].target = a, ![s].old = session, ![s].card = rev + 1]
    BY DEF WriteSession
  <1>3. PICK n \in Nat : n = rev + 1
    BY DEF ClockType
  <1>4. PICK y : y = [cur[s] EXCEPT !.target = a, !.old = session, !.card = n]
    OBVIOUS
  <1>5. /\ y \in Cursor /\ y.id = cur[s].id /\ y.epoch = cur[s].epoch /\ y.deadline = cur[s].deadline
        /\ y.exit = cur[s].exit /\ y.mode = cur[s].mode /\ y.card = n /\ y.target = a /\ y.old = session
    BY <1>1, <1>4 DEF Cursor
  <1>6. cur'[s] = y /\ pc'[s] = "start" /\ lease' = lease
    BY <1>1, <1>2, <1>3, <1>4 DEF WriteSession, Goto
  <1>7. ReadOK(s)' /\ Mine(s)' = Mine(s)
    BY <1>1, <1>5, <1>6, ReadKept
  <1>8. ExitOK(s)'
    BY <1>1, <1>5, <1>6, ExitKept
  <1>9. AimOK(s)'
    BY <1>2, <1>5, <1>6 DEF AimOK
  <1>10. StartOK(s)'
    BY <1>1, <1>2, <1>3, <1>5, <1>6, <1>7 DEF StartOK
  <1>11. UntoldOK(s)'
    BY <1>1, <1>5, <1>6, <1>7 DEF UntoldOK
  <1> QED BY <1>6, <1>7, <1>8, <1>9, <1>10, <1>11 DEF SenderOK

LEMMA OwnBegins ==
  ASSUME HInv, IInv', NEW s \in Sender, NEW id \in Id, NEW mode \in Modes,
         WithDispatchDelivery(s, id, mode)
  PROVE  SenderOK(s)'
  <1> USE DEF HInv, IInv, CursorInv
  <1>1. PICK y : y = [ id |-> id, mode |-> mode, epoch |-> 0, rev |-> 0, card |-> 0, deadline |-> 0,
                       launch |-> FALSE, exit |-> None, target |-> None, old |-> None ]
    OBVIOUS
  <1>2. cur'[s] = y /\ pc'[s] = "read" /\ lease'[id] = s /\ disp'[id] # None
    BY <1>1 DEF WithDispatchDelivery, Goto
  <1>3. y \in Cursor /\ y.id = id /\ y.exit = None
    BY <1>1 DEF Cursor
  <1> QED BY <1>2, <1>3 DEF SenderOK, ReadOK, ExitOK, AimOK, StartOK, UntoldOK

LEMMA ActingSender ==
  ASSUME HInv, IInv', Next, NEW s \in Sender, Acts(s)
  PROVE  SenderOK(s)'
  <1>1. Env /\ \A id \in Id : Moves(id)
    BY NextEnv, NextMoves DEF HInv
  <1>2. CASE Leave(s)
    BY <1>2, AtRest DEF Leave, Goto, HInv
  <1>3. CASE SenderStep(s) /\ ~Leave(s)
    <2>1. CASE ReadDispatch(s)
      BY <1>1, <1>3, <2>1, OwnRead
    <2>2. CASE ObserveExit(s)
      BY <1>1, <1>3, <2>2, OwnObserveExit
    <2>3. CASE ReauthorizeDispatch(s)
      BY <1>1, <2>3, OwnReauthorize
    <2>4. CASE Observe(s)
      BY <1>1, <1>3, <2>4, OwnObserve
    <2>5. CASE WriteDocument(s)
      BY <1>1, <1>3, <2>5, OwnWriteDocument
    <2>6. CASE BeginDispatchAttempt(s)
      BY <1>1, <2>6, OwnBegin
    <2>7. CASE sendDispatch(s) \/ StartAgent(s)
      BY <1>1, <1>3, <2>7, OwnAwait
    <2>8. CASE WriteSession(s)
      BY <1>1, <2>8, OwnWriteSession
    <2> QED BY <1>3, <2>1, <2>2, <2>3, <2>4, <2>5, <2>6, <2>7, <2>8
            DEF SenderStep, AuthorizeDispatchWrapUp, RefuseGrant, RefuseAttempt, LaunchFails, awaitDispatch
  <1>4. ASSUME NEW id \in Id, NEW mode \in Modes, WithDispatchDelivery(s, id, mode) PROVE SenderOK(s)'
    BY <1>4, OwnBegins
  <1> QED BY <1>2, <1>3, <1>4 DEF Acts, TimesOut, SenderDies, Modes

\* Whoever acts, the senders stay as SenderOK says, and their types.
LEMMA NextSenders ==
  ASSUME HInv, IInv', Next
  PROVE  /\ \A o \in Sender : SenderOK(o)'
         /\ pc' \in [Sender -> Stops] /\ DOMAIN lease' = Id
  <1>1. ASSUME NEW s \in Sender, Acts(s)
        PROVE  /\ \A o \in Sender : SenderOK(o)'
               /\ pc' \in [Sender -> Stops] /\ DOMAIN lease' = Id
    <2>1. \A o \in Sender : SenderOK(o)'
      BY <1>1, ActingSender, OtherSenders
    <2>2. \E l \in Stops : Goto(s, l)
      BY <1>1 DEF Acts, TimesOut, SenderDies, WithDispatchDelivery, SenderStep, ReadDispatch, ObserveExit,
         ReauthorizeDispatch, AuthorizeDispatchWrapUp, RefuseGrant, Observe, WriteDocument,
         BeginDispatchAttempt, RefuseAttempt, sendDispatch, WriteSession, StartAgent, LaunchFails,
         awaitDispatch, Leave, Stops
    <2>3. \/ lease' = lease \/ DOMAIN lease' = Id
          \/ \E id \in Id : lease' = [lease EXCEPT ![id] = s]
      BY <1>1 DEF Acts, TimesOut, SenderDies, WithDispatchDelivery, SenderStep, ReadDispatch, ObserveExit,
         ReauthorizeDispatch, AuthorizeDispatchWrapUp, RefuseGrant, Observe, WriteDocument,
         BeginDispatchAttempt, RefuseAttempt, sendDispatch, WriteSession, StartAgent, LaunchFails,
         awaitDispatch, Leave
    <2>4. pc' \in [Sender -> Stops]
      BY <2>2 DEF Goto, HInv
    <2>5. DOMAIN lease' = Id
      BY <2>3 DEF HInv
    <2> QED BY <2>1, <2>4, <2>5
  <1>2. CASE ~\E s \in Sender : Acts(s)
    <2>1. UNCHANGED <<senders, session, mail>>
      <3>1. CASE Decide \/ Tick
        BY <3>1 DEF Decide, PrepareDispatch, EndDispatch, Terminate, Move, Tick, card, agents
      <3>2. ASSUME NEW a \in Agent, AgentStep(a) \/ AgentDies(a)
            PROVE  UNCHANGED <<senders, session, mail>>
        BY <3>2 DEF AgentStep, AgentDies, Receive, OpenAccept, ReplayAccept, RefuseAccept, AuthorWrite,
           OpenComplete, StopWork, Publish, PublishAccept, PublishComplete, card, agents
      <3> QED BY <1>2, <3>1, <3>2 DEF Next, Acts
    <2>2. \A o \in Sender : SenderOK(o)'
      BY <2>1, QuietSenders
    <2> QED BY <2>1, <2>2 DEF senders, HInv
  <1> QED BY <1>1, <1>2

LEMMA HandoverInit ==
  ASSUME Init
  PROVE  HInv
  <1>1. IInv
    BY InitInv
  <1>2. session \in Agent /\ pc \in [Sender -> Stops] /\ DOMAIN lease = Id
    BY DurableDispatchAssumption DEF Init, Stops
  <1>3. (\A s \in Sender : SenderOK(s)) /\ (\A m \in mail : MessageOK(m)) /\ HeldOK /\ ExpiredOK
    BY DEF Init, SenderOK, HeldOK, ExpiredOK
  <1> QED BY <1>1, <1>2, <1>3 DEF HInv

LEMMA HandoverStep ==
  ASSUME HInv, [Next]_vars
  PROVE  HInv'
  <1>1. IInv'
    BY StepInv DEF HInv
  <1>2. CASE Next
    BY <1>1, <1>2, SessionType, NextSenders, NextMessages, NextHeld, NextExpired DEF HInv
  <1>3. CASE UNCHANGED vars
    <2>1. UNCHANGED <<now, rev, bound, session, disp, lease, pc, cur, agent, token, mail, expired>>
      BY <1>3 DEF vars, card, senders, agents, history
    <2>2. \A s \in Sender : SenderOK(s)'
      BY <2>1 DEF HInv, SenderOK, ReadOK, ExitOK, AimOK, StartOK, UntoldOK, Mine, Known, Open, Live, Auth
    <2>3. \A m \in mail' : MessageOK(m)'
      BY <2>1 DEF HInv, MessageOK, Known, Open, Live, Auth
    <2>4. HeldOK' /\ ExpiredOK'
      BY <2>1 DEF HInv, HeldOK, ExpiredOK, Known
    <2> QED BY <1>1, <2>1, <2>2, <2>3, <2>4 DEF HInv
  <1> QED BY <1>2, <1>3

-----------------------------------------------------------------------------
(* What the two properties are about.                                        *)

\* Who writes a receipt of an acceptance is publishing it.
LEMMA Receipted ==
  ASSUME IInv, Next, NEW t \in Token, receipts'[<<"accepted", t>>] # receipts[<<"accepted", t>>]
  PROVE  \E a \in Agent : agent[a] = "accepting" /\ token[a] = t
  <1>1. ASSUME NEW a \in Agent, NEW to, Settle(a, "completed", to) PROVE FALSE
    BY <1>1 DEF Settle, receiptName, IInv, Core, CoreType, Stage
  <1>2. ASSUME NEW a \in Agent, NEW to, Settle(a, "accepted", to) PROVE token[a] = t
    BY <1>2 DEF Settle, receiptName, IInv, Core, CoreType, Stage
  <1>3. CASE Decide \/ Tick
    BY <1>3 DEF Decide, PrepareDispatch, EndDispatch, Terminate, Move, Tick
  <1>4. ASSUME NEW s \in Sender, Acts(s) PROVE FALSE
    BY <1>4 DEF Acts, TimesOut, SenderDies, WithDispatchDelivery, SenderStep, ReadDispatch, ObserveExit,
       ReauthorizeDispatch, AuthorizeDispatchWrapUp, RefuseGrant, Observe, WriteDocument,
       BeginDispatchAttempt, RefuseAttempt, sendDispatch, WriteSession, StartAgent, LaunchFails,
       awaitDispatch
  <1>5. ASSUME NEW a \in Agent, AgentStep(a) \/ AgentDies(a)
        PROVE  agent[a] = "accepting" /\ token[a] = t
    <2>1. \/ agent[a] = "accepting" /\ Settle(a, "accepted", "working")
          \/ Settle(a, "completed", Target(a))
      BY <1>5 DEF AgentStep, AgentDies, Receive, OpenAccept, ReplayAccept, RefuseAccept, AuthorWrite,
         OpenComplete, StopWork, Publish, PublishAccept, PublishComplete
    <2> QED BY <1>1, <1>2, <2>1
  <1> QED BY <1>3, <1>4, <1>5 DEF Next, Acts

\* A dispatch gets another epoch only by one of the two grants a sender makes.
LEMMA Rotates ==
  ASSUME IInv, Next, NEW id \in Id, disp[id] # None, disp'[id].epoch # disp[id].epoch
  PROVE  \E s \in Sender : cur[s].id = id /\ (ReauthorizeDispatch(s) \/ AuthorizeDispatchWrapUp(s))
  <1> USE DEF IInv
  <1>1. ASSUME NEW o \in Id, NEW e \in Dispatch, Changing(o, e) PROVE FALSE
    BY <1>1, ChangingDisp
  <1>2. ASSUME disp' = disp PROVE FALSE
    BY <1>2
  <1>3. ASSUME NEW o \in Id, NEW kind \in Kinds, PrepareDispatch(o, kind) PROVE FALSE
    BY <1>3 DEF PrepareDispatch, Core, CoreType
  <1>4. ASSUME NEW o \in Id, NEW state \in {"failed", "cancelled"}, EndDispatch(o, state) PROVE FALSE
    BY <1>1, <1>4, EndStep DEF Ending, Keeping
  <1>5. ASSUME NEW to \in States, Terminate(to) PROVE FALSE
    BY <1>1, <1>2, <1>5, TerminateStep DEF Ending, coreVars
  <1>6. ASSUME NEW to \in States, Move(to) PROVE FALSE
    BY <1>2, <1>6 DEF Move
  <1>7. ASSUME NEW s \in Sender, ReauthorizeDispatch(s) \/ AuthorizeDispatchWrapUp(s)
        PROVE  cur[s].id = id
    BY <1>7 DEF ReauthorizeDispatch, AuthorizeDispatchWrapUp, Rotate, Core, CoreType
  <1>8. ASSUME NEW s \in Sender, BeginDispatchAttempt(s) PROVE FALSE
    BY <1>1, <1>8, AttemptStep DEF Keeping
  <1>9. ASSUME NEW s \in Sender, Acts(s),
               ~(ReauthorizeDispatch(s) \/ AuthorizeDispatchWrapUp(s) \/ BeginDispatchAttempt(s))
        PROVE  FALSE
    <2>1. disp' = disp
      BY <1>9 DEF Acts, TimesOut, SenderDies, WithDispatchDelivery, SenderStep, ReadDispatch, ObserveExit,
         RefuseGrant, Observe, WriteDocument, RefuseAttempt, sendDispatch, WriteSession, StartAgent,
         LaunchFails, awaitDispatch
    <2> QED BY <1>2, <2>1
  <1>10. ASSUME NEW a \in Agent, AgentStep(a) \/ AgentDies(a) PROVE FALSE
    <2>1. ASSUME NEW stage \in Stage, NEW to, Settle(a, stage, to), UNCHANGED <<issued, bound>>,
                 agent[a] \in {"accepting", "completing"}
          PROVE  FALSE
      <3>1. token[a].id \in Id
        BY <2>1, PublisherHolds
      <3> QED BY <1>1, <2>1, <3>1, SettleChanges
    <2>2. CASE PublishAccept(a) \/ PublishComplete(a)
      BY <2>1, <2>2 DEF PublishAccept, PublishComplete, Stage, history
    <2>3. CASE AgentDies(a)
      BY <1>2, <2>1, <2>3 DEF AgentDies, Stage, history
    <2> QED BY <1>2, <1>10, <2>2, <2>3 DEF AgentStep, Receive, OpenAccept, ReplayAccept, RefuseAccept,
               AuthorWrite, OpenComplete, StopWork, Publish
  <1>11. CASE Tick
    BY <1>2, <1>11 DEF Tick
  <1> QED BY <1>3, <1>4, <1>5, <1>6, <1>7, <1>8, <1>9, <1>10, <1>11 DEF Next, Decide, Acts

LateStep ==
  \A t \in expired : receipts[<<"accepted", t>>] = None => receipts'[<<"accepted", t>>] = None

RotationStep ==
  \A id \in Id, a \in Agent :
    /\ disp[id] # None /\ disp[id].state = "accepted"
    /\ disp'[id].epoch # disp[id].epoch
    /\ agent[a] \in {"working", "completing"}
    => token[a] # Auth(id)

LEMMA NextLate ==
  ASSUME HInv, [Next]_vars
  PROVE  [LateStep]_vars
  <1>1. CASE Next
    <2> SUFFICES ASSUME NEW t \in expired, receipts'[<<"accepted", t>>] # receipts[<<"accepted", t>>]
                 PROVE  FALSE
      BY DEF LateStep
    <2>1. t \in Token
      BY DEF HInv, ExpiredOK
    <2>2. PICK a \in Agent : agent[a] = "accepting" /\ token[a] = t
      BY <1>1, <2>1, Receipted DEF HInv
    <2>3. t = Auth(t.id)
      BY <2>2, PublisherHolds DEF HInv
    <2>4. t.epoch = disp[t.id].epoch
      BY <2>3 DEF Auth
    <2> QED BY <2>2, <2>4 DEF HInv, ExpiredOK
  <1> QED BY <1>1

LEMMA NextRotation ==
  ASSUME HInv, [Next]_vars
  PROVE  [RotationStep]_vars
  <1>1. CASE Next
    <2> SUFFICES ASSUME NEW id \in Id, NEW a \in Agent, disp[id] # None, disp[id].state = "accepted",
                        disp'[id].epoch # disp[id].epoch, agent[a] \in Busy, token[a] = Auth(id)
                 PROVE  FALSE
      BY DEF RotationStep, Busy
    <2>1. PICK s \in Sender : cur[s].id = id /\ (ReauthorizeDispatch(s) \/ AuthorizeDispatchWrapUp(s))
      BY <1>1, Rotates DEF HInv
    <2>2. Current(s) /\ validDispatchExit(s) /\ pc[s] # "idle"
      BY <2>1 DEF ReauthorizeDispatch, Reauthorizable, ExitProven, AuthorizeDispatchWrapUp, WrapUpAllowed
    <2>3. agent[session] \notin Busy
      BY <2>2 DEF HInv, SenderOK, ExitOK, validDispatchExit
    <2>4. PICK m \in mail : m = [to |-> a, token |-> token[a]]
      BY DEF HInv, HeldOK, Busy
    <2>5. m.to = a /\ m.token = Auth(id)
      BY <2>4
    <2>6. Open(m.token) /\ ~disp[m.token.id].wrapUp
      BY <2>1, <2>2, <2>5 DEF Open, Auth, Current
    <2>7. a = session
      BY <2>5, <2>6 DEF HInv, MessageOK
    <2> QED BY <2>3, <2>7
  <1> QED BY <1>1

-----------------------------------------------------------------------------
(* Theorems                                                                  *)

\* What is stored about grants stays consistent, and a publication under way
\* still owns its grant: the inductive invariant of the protocol.
THEOREM Invariant == Spec => []IInv
  BY InitInv, StepInv, PTL DEF Spec

\* The card always names the one dispatch that is open, at its current epoch,
\* whoever prepares, ends, rotates, accepts or completes it and whoever dies
\* in the middle (PrepareDispatch, FailDispatch, CancelDispatch,
\* ReauthorizeDispatch, AuthorizeDispatchWrapUp, stageDispatchMove).
THEOREM OneAuthority == Spec => []OneLiveAuthority
  BY Invariant, PTL DEF IInv, Core

\* The work of a grant is begun at most once, however often its message is
\* sent, read or answered: what was begun is accepted or settled, or its epoch
\* is past, and a receipt that exists is only replayed (stageDispatchMove).
THEOREM BegunOnce == Spec => []WorkedOnce
  <1>1. IInv => WorkedOnce
    <2> SUFFICES ASSUME IInv, NEW t \in Token PROVE started[t] <= 1
      BY DEF WorkedOnce
    <2> QED BY DEF IInv, Core, BegunAccepted
  <1> QED BY <1>1, Invariant, PTL

\* The protocol implements ExecutionGrants: the grants of a card are offered,
\* accepted, completed and revoked one at a time, no token is granted twice,
\* and only the newest can still change (internal/board/dispatch*.go).
THEOREM Refinement == Spec => ImplementsGrants
  <1>1. Init => Grants!Init
    BY InitInv DEF Grants!Init, GrantSeq
  <1>2. IInv /\ [Next]_vars => [Grants!Next]_GrantSeq
    BY StepInv
  <1> QED BY <1>1, <1>2, Invariant, PTL DEF Spec, ImplementsGrants, Grants!Spec, GrantSeq

\* What a command in flight knows of its dispatch, its exit observation and
\* its target stays true, and whoever is told of an open grant is the session
\* of the card (WithDispatchDelivery, observedDispatchExit, rollbackLaunch).
THEOREM Handover == Spec => []HInv
  BY HandoverInit, HandoverStep, PTL DEF Spec

\* A grant whose deadline a sender has seen to pass is accepted by nobody any
\* more: no transaction begun in time is still open then, and a later one is
\* refused by the clock (awaitDispatch against stageDispatchMove).
THEOREM LateAnswers == Spec => LateAnswerLoses
  <1>1. HInv /\ [Next]_vars => [LateStep]_vars
    BY NextLate
  <1> QED BY <1>1, Handover, PTL DEF Spec, LateAnswerLoses, LateStep

\* Accepted work is granted to another executor only when the one that has it
\* is no longer at it: who works is the session of the card, and the exit seen
\* was that session's at the card's present revision (RecoverAcceptedDispatch,
\* ReauthorizeDispatch, AuthorizeDispatchWrapUp).
THEOREM RotatedAfterExit == Spec => RotatedOnlyAfterExit
  <1>1. HInv /\ [Next]_vars => [RotationStep]_vars
    BY NextRotation
  <1> QED BY <1>1, Handover, PTL DEF Spec, RotatedOnlyAfterExit, RotationStep
=============================================================================
