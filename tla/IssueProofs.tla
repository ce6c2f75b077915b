----------------------------- MODULE IssueProofs -----------------------------
(* That an issue has one card, for any number of processes, issues, lost and *)
(* damaged cards; and that GitHub is asked again for the same thing only     *)
(* after it refused, for any number of sessions, documents, requests and     *)
(* lost answers.                                                             *)
EXTENDS IssueResults, IssueImport, SequenceTheorems, TLAPS

-----------------------------------------------------------------------------
(* Import.  What carries the proof is that every task ID an import returned  *)
(* still is the ID of the issue's card (ReturnedExist), and that a card is   *)
(* only made when no attachment is unreadable and none is of the issue       *)
(* (NoneOf).                                                                 *)

Card == [source : Sources, readable : BOOLEAN]
Import == [at : {"fetching"}, source : Sources]

ImportType ==
  /\ \A id \in DOMAIN imports : imports[id] \in Card
  /\ import \in [Importers -> {NoImport} \cup Import]
  /\ DOMAIN returned = Sources

OneOf ==
  \A a, b \in DOMAIN imports : imports[a].source = imports[b].source => a = b

ReturnedExist ==
  \A s \in Sources : \A id \in returned[s] : id \in DOMAIN imports /\ imports[id].source = s

ImportInv == ImportType /\ OneOf /\ ReturnedExist

LEMMA NoImportIsNone == \A i \in Import : i # NoImport
  BY DEF Import, NoImport

LEMMA InitInv == ImportInit => ImportInv
  BY DEF ImportInit, ImportInv, ImportType, OneOf, ReturnedExist

\* What was returned is the card of the issue, so returning it again is safe.
LEMMA ReturnsInv ==
  ASSUME ImportInv, NEW p \in Importers, NEW s \in Sources, NEW id \in DOMAIN imports,
         imports[id].source = s, Returns(p, s, id), UNCHANGED <<imports, taken>>
  PROVE  ImportInv'
  BY DEF ImportInv, ImportType, OneOf, ReturnedExist, Returns

\* The guard of the second disjunct of ImportTask.
LEMMA NoneOf ==
  ASSUME ImportInv, NEW s \in Sources, Existing(s) = {}, ~Undecodable
  PROVE  \A x \in DOMAIN imports : imports[x].source # s
  BY DEF Existing, Indexed, Undecodable, ImportInv, ImportType, Card

LEMMA ImportTaskInv ==
  ASSUME ImportInv, NEW p \in Importers, ImportTask(p)
  PROVE  ImportInv'
  <1> DEFINE s == import[p].source
  <1>1. s \in Sources
    BY DEF ImportInv, ImportType, ImportTask, Import
  <1>2. CASE /\ \E id \in Existing(s) : Returns(p, s, id)
             /\ UNCHANGED imports
    BY <1>1, <1>2, ReturnsInv DEF ImportTask, Existing, Indexed
  <1>3. ASSUME Existing(s) = {}, ~Undecodable, NEW id \in NewId(s),
               imports' = [x \in DOMAIN imports \cup {id} |->
                  IF x = id THEN [source |-> s, readable |-> TRUE] ELSE imports[x]],
               Returns(p, s, id)
        PROVE  ImportInv'
    <2>1. id \notin DOMAIN imports
      BY <1>3 DEF NewId, FreeIds
    <2>2. \A x \in DOMAIN imports : imports[x].source # s
      BY <1>1, <1>3, NoneOf
    <2>3. DOMAIN imports' = DOMAIN imports \cup {id} /\ imports'[id] = [source |-> s, readable |-> TRUE]
          /\ \A x \in DOMAIN imports : imports'[x] = imports[x]
      BY <1>3, <2>1
    <2>4. ImportType'
      BY <1>1, <1>3, <2>3 DEF ImportInv, ImportType, Card, Returns
    <2>5. OneOf'
      BY <2>2, <2>3 DEF ImportInv, OneOf
    <2>6. ReturnedExist'
      BY <1>1, <1>3, <2>3 DEF ImportInv, ImportType, ReturnedExist, Returns
    <2> QED BY <2>4, <2>5, <2>6 DEF ImportInv
  <1> QED BY <1>2, <1>3 DEF ImportTask

LEMMA LoseCardInv ==
  ASSUME ImportInv, NEW id \in DOMAIN imports, LoseCard(id)
  PROVE  ImportInv'
  <1>1. DOMAIN imports' = DOMAIN imports \ {id} /\ \A x \in DOMAIN imports' : imports'[x] = imports[x]
    BY DEF LoseCard
  <1>2. imports[id].source \in Sources
    BY DEF ImportInv, ImportType, Card
  <1>3. ReturnedExist'
    \* what was returned for another issue is another card
    BY <1>1, <1>2 DEF ImportInv, ImportType, OneOf, ReturnedExist, LoseCard
  <1> QED BY <1>1, <1>3 DEF ImportInv, ImportType, OneOf, LoseCard

LEMMA DamageCardInv ==
  ASSUME ImportInv, NEW id \in DOMAIN imports, DamageCard(id)
  PROVE  ImportInv'
  <1>1. DOMAIN imports' = DOMAIN imports
    BY DEF DamageCard
  <1>2. \A x \in DOMAIN imports : imports'[x] \in Card /\ imports'[x].source = imports[x].source
    BY DEF ImportInv, ImportType, Card, DamageCard
  <1>3. UNCHANGED <<import, returned>>
    BY DEF DamageCard
  <1>4. ImportType'
    BY <1>1, <1>2, <1>3 DEF ImportInv, ImportType
  <1>5. OneOf'
    BY <1>1, <1>2 DEF ImportInv, OneOf
  <1>6. ReturnedExist'
    BY <1>1, <1>2, <1>3 DEF ImportInv, ReturnedExist
  <1> QED BY <1>4, <1>5, <1>6 DEF ImportInv

LEMMA NextInv == ImportInv /\ [ImportNext]_importVars => ImportInv'
  <1> SUFFICES ASSUME ImportInv, [ImportNext]_importVars PROVE ImportInv'
    OBVIOUS
  <1>1. ASSUME NEW p \in Importers, NEW s \in Sources, FastPath(p, s) PROVE ImportInv'
    <2>1. CASE Indexed(s) # {}
      BY <1>1, <2>1, ReturnsInv DEF FastPath, Indexed
    <2>2. CASE Indexed(s) = {}
      BY <1>1, <2>2 DEF FastPath, ImportInv, ImportType, OneOf, ReturnedExist, Import
    <2> QED BY <2>1, <2>2
  <1>2. ASSUME NEW p \in Importers, GiveUpImport(p) PROVE ImportInv'
    BY <1>2 DEF GiveUpImport, ImportInv, ImportType, OneOf, ReturnedExist
  <1>3. CASE UNCHANGED importVars
    BY <1>3 DEF importVars, ImportInv, ImportType, OneOf, ReturnedExist
  <1> QED BY <1>1, <1>2, <1>3, ImportTaskInv, LoseCardInv, DamageCardInv DEF ImportNext

\* All imports of an issue return the same card as long as it is on the board,
\* and there never is a second one (findImportedCard under the board lock).
THEOREM OneCard == ImportSpec => []OneCardPerIssue
  <1>1. ImportInv => OneCardPerIssue
    BY DEF ImportInv, OneOf, ReturnedExist, OneCardPerIssue
  <1> QED BY <1>1, InitInv, NextInv, PTL DEF ImportSpec

-----------------------------------------------------------------------------
(* Results.  The store answers for every request that may still have an      *)
(* effect: a comment's record is not "rejected", a close has a decision that *)
(* says yes and was not rejected (Backed).  A command that is about to ask   *)
(* holds the lock, has the store's present content, and found nothing of the *)
(* kind in it, so nothing of the kind is out (CmdOK).                        *)

Decision == [ state : Nat, answer : {"yes", "no"},
              status : {"uncertain", "declined", "observed-closed", "superseded", "closed",
                        "rejected"} ]
Rec == [ status : {"uncertain", "published", "equivalent", "rejected"}, body : Nat,
         digest : Docs, evidence : Nat, decisions : Seq(Decision) ]
Request == [ kind : {"post", "close"}, version : Versions, state : Nat,
             fate : {"sent", "served", "refused"} ]

Refusable(d) == d.answer = "yes" /\ d.status # "rejected"
Asks(r, st) == \E i \in 1..Len(r.decisions) : r.decisions[i].state = st /\ Refusable(r.decisions[i])

\* Nobody decides about a result that is not published.
RecOK(r) ==
  /\ r \in Rec
  /\ r.status \in {"uncertain", "rejected"} => r.decisions = <<>>
  /\ \A i \in 1..Len(r.decisions) : r.decisions[i].status = "uncertain" => r.decisions[i].answer = "yes"

StoreOK(records) == DOMAIN records \subseteq Versions /\ \A v \in DOMAIN records : RecOK(records[v])

TypesOK ==
  /\ doc \in Docs /\ issue.state \in Nat /\ "state" \in DOMAIN issue
  /\ DOMAIN cmd = Sessions /\ requests \in Seq(Request)

Answers(r, q) == IF q.kind = "post" THEN r.status # "rejected" ELSE Asks(r, q.state)
Backed ==
  \A n \in 1..Len(requests) : ~Refused(n) =>
    requests[n].version \in DOMAIN store /\ Answers(store[requests[n].version], requests[n])

\* Nothing of the kind is out, but for what is in the set.
Sole(kind, v, st, but) ==
  \A n \in 1..Len(requests) :
    /\ n \notin but /\ requests[n].kind = kind /\ requests[n].version = v
    /\ kind = "close" => requests[n].state = st
    => Refused(n)

\* The record is the one the request is made for.
Prepared(kind, v, st) ==
  /\ v \in DOMAIN store
  /\ kind = "post" => store[v].status = "uncertain"
  /\ kind = "close" =>
       LET ds == store[v].decisions IN
       Len(ds) > 0 /\ ds[Len(ds)].state = st /\ Refusable(ds[Len(ds)])

CmdOK(s) ==
  LET c == cmd[s] IN
  c # Idle =>
    /\ lock = s /\ c.store = store /\ c.at \in {"read", "intent", "sent"}
    /\ c.at = "read" => c.work \in Docs /\ c.seen.state \in Nat
    /\ c.at = "intent" =>
         /\ c.kind \in {"post", "close"} /\ c.state \in Nat
         /\ Prepared(c.kind, c.version, c.state) /\ Sole(c.kind, c.version, c.state, {})
    /\ c.at = "sent" =>
         /\ c.request \in 1..Len(requests) /\ c.kind = requests[c.request].kind
         /\ c.version = requests[c.request].version
         /\ Prepared(c.kind, c.version, requests[c.request].state)
         /\ Sole(c.kind, c.version, requests[c.request].state, {c.request})

IInv == TypesOK /\ StoreOK(store) /\ Backed /\ AskedOnce /\ \A s \in Sessions : CmdOK(s)

-----------------------------------------------------------------------------
(* Records.                                                                  *)

LEMMA SeqOf ==
  ASSUME NEW S, NEW n \in Nat, NEW f \in [1..n -> S]
  PROVE  f \in Seq(S) /\ Len(f) = n
  BY SeqDef

LEMMA Decisions ==
  ASSUME NEW r \in Rec
  PROVE  /\ r.decisions \in Seq(Decision) /\ Len(r.decisions) \in Nat
         /\ DOMAIN r.decisions = 1..Len(r.decisions)
         /\ \A i \in 1..Len(r.decisions) : r.decisions[i] \in Decision
  <1>1. r.decisions \in Seq(Decision)
    BY DEF Rec
  <1> QED BY <1>1, LenProperties, ElementOfSeq

\* What a record may become while requests made for it are out.
Grows(r, t) ==
  /\ r.status # "rejected" => t.status # "rejected"
  /\ \A st \in Nat : Asks(r, st) => Asks(t, st)

Steady(old, new) ==
  DOMAIN old \subseteq DOMAIN new /\ \A v \in DOMAIN old : Grows(old[v], new[v])

LEMMA SettleGrows ==
  ASSUME NEW r, RecOK(r), NEW seen
  PROVE  RecOK(Settle(r, seen)) /\ Grows(r, Settle(r, seen))
  <1> DEFINE one(d) == IF d.status # "uncertain" THEN d
                       ELSE IF ~seen.open THEN [d EXCEPT !.status = "observed-closed"]
                       ELSE IF seen.state # d.state THEN [d EXCEPT !.status = "superseded"]
                       ELSE d
             ds == [i \in 1..Len(r.decisions) |-> one(r.decisions[i])]
             st == IF r.status = "uncertain" /\ r.body \in seen.comments THEN "published" ELSE r.status
             t == [r EXCEPT !.status = st, !.decisions = ds]
  <1>1. r \in Rec /\ Len(r.decisions) \in Nat /\ DOMAIN r.decisions = 1..Len(r.decisions)
        /\ \A i \in 1..Len(r.decisions) : r.decisions[i] \in Decision
    BY Decisions DEF RecOK
  <1>2. Settle(r, seen) = t
    BY <1>1 DEF Settle
  <1>3. ASSUME NEW d \in Decision
        PROVE  /\ one(d) \in Decision /\ one(d).state = d.state /\ one(d).answer = d.answer
               /\ one(d).status = "uncertain" => d.status = "uncertain"
               /\ Refusable(d) => Refusable(one(d))
    BY DEF Decision, Refusable
  <1> HIDE DEF one
  <1>4. ds \in Seq(Decision) /\ Len(ds) = Len(r.decisions)
    <2>1. ds \in [1..Len(r.decisions) -> Decision]
      BY <1>1, <1>3
    <2> QED BY <1>1, <2>1, SeqOf
  <1>5. \A i \in 1..Len(ds) : ds[i] = one(r.decisions[i])
    BY <1>4
  <1>6. st \in {"uncertain", "published", "equivalent", "rejected"}
        /\ (r.status # "rejected" => st # "rejected")
        /\ (st \in {"uncertain", "rejected"} => st = r.status)
    BY <1>1 DEF Rec
  <1> HIDE DEF st, ds
  <1>7. t \in Rec /\ t.status = st /\ t.decisions = ds
    BY <1>1, <1>4, <1>6 DEF Rec
  <1> HIDE DEF t
  <1>8. RecOK(t)
    <2>1. t.status \in {"uncertain", "rejected"} => t.decisions = <<>>
      <3> SUFFICES ASSUME t.status \in {"uncertain", "rejected"} PROVE ds = <<>>
        BY <1>7
      <3>1. r.decisions = <<>>
        BY <1>6, <1>7 DEF RecOK
      <3>2. Len(ds) = 0
        BY <1>4, <3>1, EmptySeq
      <3> QED BY <1>4, <3>2, EmptySeq
    <2>2. \A i \in 1..Len(ds) : ds[i].status = "uncertain" => ds[i].answer = "yes"
      BY <1>1, <1>3, <1>4, <1>5 DEF RecOK
    <2> QED BY <1>7, <2>1, <2>2 DEF RecOK
  <1>9. Grows(r, t)
    <2>1. ASSUME NEW s \in Nat, Asks(r, s) PROVE Asks(t, s)
      <3>1. PICK i \in 1..Len(r.decisions) : r.decisions[i].state = s /\ Refusable(r.decisions[i])
        BY <2>1 DEF Asks
      <3>2. ds[i].state = s /\ Refusable(ds[i])
        BY <1>1, <1>3, <1>4, <1>5, <3>1
      <3> QED BY <1>4, <1>7, <3>2 DEF Asks
    <2> QED BY <1>6, <1>7, <2>1 DEF Grows
  <1> QED BY <1>2, <1>8, <1>9

LEMMA GrowsSame == ASSUME NEW r PROVE Grows(r, r)
  BY DEF Grows

\* A record that is made anew replaces one nobody can rely on.
LEMMA NewGrows ==
  ASSUME NEW d \in Docs, NEW g, NEW status \in {"uncertain", "equivalent"}, NEW body \in Nat
  PROVE  /\ RecOK(NewRecord(d, g, status, body)) /\ NewRecord(d, g, status, body).status = status
         /\ \A r : RecOK(r) /\ r.status = "rejected" => Grows(r, NewRecord(d, g, status, body))
  <1> DEFINE n == NewRecord(d, g, status, body)
  <1>1. n.decisions = <<>> /\ n.status = status /\ n \in Rec
    BY IssueAssumption, EmptySeq DEF NewRecord, Rec
  <1>2. Len(n.decisions) = 0
    BY <1>1, EmptySeq
  <1> HIDE DEF n
  <1>3. RecOK(n)
    BY <1>1, <1>2 DEF RecOK
  <1>4. ASSUME NEW r, RecOK(r), r.status = "rejected" PROVE Grows(r, n)
    <2>1. Len(r.decisions) = 0
      BY <1>4, EmptySeq DEF RecOK
    <2> QED BY <1>4, <2>1 DEF Grows, Asks
  <1> QED BY <1>1, <1>3, <1>4 DEF n

LEMMA WithSteady ==
  ASSUME StoreOK(store), NEW v \in Versions, NEW t, RecOK(t), ~OnRecord(store, v),
         \A r : RecOK(r) /\ r.status = "rejected" => Grows(r, t)
  PROVE  /\ StoreOK(With(store, v, t)) /\ Steady(store, With(store, v, t))
         /\ v \in DOMAIN With(store, v, t) /\ With(store, v, t)[v] = t
  <1> DEFINE w == With(store, v, t)
  <1>1. DOMAIN w = DOMAIN store \cup {v} /\ w[v] = t /\ \A x \in DOMAIN store : x # v => w[x] = store[x]
    BY DEF With
  <1> HIDE DEF w
  <1>2. StoreOK(w)
    BY <1>1 DEF StoreOK
  <1>3. ASSUME NEW x \in DOMAIN store PROVE Grows(store[x], w[x])
    <2>1. CASE x = v
      BY <1>1, <2>1 DEF OnRecord, StoreOK
    <2>2. CASE x # v
      BY <1>1, <2>2, GrowsSame
    <2> QED BY <2>1, <2>2
  <1> QED BY <1>1, <1>2, <1>3 DEF Steady, w

\* A decision more.
LEMMA DecidedGrows ==
  ASSUME NEW r, RecOK(r), r.status \in {"published", "equivalent"}, NEW m \in Decision,
         m.status = "uncertain" => m.answer = "yes"
  PROVE  /\ RecOK([r EXCEPT !.decisions = Append(@, m)]) /\ Grows(r, [r EXCEPT !.decisions = Append(@, m)])
         /\ [r EXCEPT !.decisions = Append(@, m)].decisions = Append(r.decisions, m)
         /\ [r EXCEPT !.decisions = Append(@, m)].status = r.status
         /\ Len(Append(r.decisions, m)) = Len(r.decisions) + 1
         /\ Append(r.decisions, m)[Len(r.decisions) + 1] = m
         /\ Len(r.decisions) \in Nat
  <1> DEFINE ds == Append(r.decisions, m)
             t == [r EXCEPT !.decisions = ds]
  <1>1. r \in Rec /\ r.decisions \in Seq(Decision) /\ Len(r.decisions) \in Nat
    BY Decisions DEF RecOK
  <1>2. /\ ds \in Seq(Decision) /\ Len(ds) = Len(r.decisions) + 1
        /\ \A i \in 1..Len(r.decisions) : ds[i] = r.decisions[i]
        /\ ds[Len(r.decisions) + 1] = m
    BY <1>1, AppendProperties
  <1> HIDE DEF ds
  <1>3. t \in Rec /\ t.status = r.status /\ t.decisions = ds
    BY <1>1, <1>2 DEF Rec
  <1> HIDE DEF t
  <1>4. RecOK(t)
    <2>1. ASSUME NEW i \in 1..Len(ds), ds[i].status = "uncertain" PROVE ds[i].answer = "yes"
      <3>1. i \in 1..Len(r.decisions) \/ i = Len(r.decisions) + 1
        BY <1>1, <1>2
      <3> QED BY <1>2, <2>1, <3>1 DEF RecOK
    <2> QED BY <1>3, <2>1 DEF RecOK
  <1>5. ASSUME NEW st \in Nat, Asks(r, st) PROVE Asks(t, st)
    BY <1>1, <1>2, <1>3, <1>5 DEF Asks
  <1>6. Grows(r, t)
    BY <1>3, <1>5 DEF Grows
  <1> QED BY <1>1, <1>2, <1>3, <1>4, <1>6 DEF t, ds

-----------------------------------------------------------------------------
(* Steps.                                                                    *)

\* Whoever is in has the lock, so the others are out.
LEMMA Alone ==
  ASSUME IInv, NEW s \in Sessions, cmd[s] # Idle
  PROVE  /\ lock = s /\ cmd[s].store = store
         /\ \A o \in Sessions : o # s => cmd[o] = Idle
  BY DEF IInv, CmdOK

LEMMA BackedSteady ==
  ASSUME Backed, TypesOK, Steady(store, store'), requests' = requests
  PROVE  Backed'
  <1> SUFFICES ASSUME NEW n \in 1..Len(requests), ~Refused(n)
               PROVE  /\ requests[n].version \in DOMAIN store'
                      /\ Answers(store'[requests[n].version], requests[n])
    BY DEF Backed, Refused, Answers, Asks
  <1>1. requests[n].version \in DOMAIN store /\ Answers(store[requests[n].version], requests[n])
    BY DEF Backed
  <1>2. requests[n].state \in Nat
    <2>1. requests[n] \in Request
      BY ElementOfSeq DEF TypesOK
    <2> QED BY <2>1 DEF Request
  <1> QED BY <1>1, <1>2 DEF Steady, Grows, Answers

LEMMA Closes ==
  ASSUME IInv, NEW s \in Sessions, cmd[s] # Idle, NEW records, StoreOK(records), Backed',
         SaveAndLeave(s, records), UNCHANGED <<doc, issue, requests>>
  PROVE  IInv'
  <1>1. TypesOK' /\ StoreOK(store') /\ AskedOnce'
    BY DEF IInv, TypesOK, SaveAndLeave, AskedOnce, SameThing, Refused
  <1>2. \A o \in Sessions : cmd'[o] = Idle
    BY Alone DEF SaveAndLeave, IInv, TypesOK
  <1> QED BY <1>1, <1>2 DEF IInv, CmdOK, StoreOK, RecOK

LEMMA Saves ==
  ASSUME IInv, NEW s \in Sessions, cmd[s] # Idle, NEW records, StoreOK(records),
         Steady(store, records), SaveAndLeave(s, records), UNCHANGED <<doc, issue, requests>>
  PROVE  IInv'
  <1>1. Backed'
    BY BackedSteady DEF IInv, SaveAndLeave
  <1> QED BY <1>1, Closes

\* A command saves what it is about to do, and has found nothing of the kind.
LEMMA Intends ==
  ASSUME IInv, NEW s \in Sessions, cmd[s] # Idle, StoreOK(store'), Steady(store, store'),
         NEW kind \in {"post", "close"}, NEW v, NEW st \in Nat,
         cmd' = [cmd EXCEPT ![s] = [at |-> "intent", kind |-> kind, version |-> v,
                                    store |-> store', state |-> st]],
         Prepared(kind, v, st)', Sole(kind, v, st, {}), UNCHANGED <<doc, issue, requests, lock>>
  PROVE  IInv'
  <1>1. TypesOK' /\ AskedOnce'
    BY DEF IInv, TypesOK, AskedOnce, SameThing, Refused
  <1>2. Backed'
    BY BackedSteady DEF IInv
  <1>3. Sole(kind, v, st, {})'
    BY DEF Sole, Refused
  <1>4. cmd'[s] = [at |-> "intent", kind |-> kind, version |-> v, store |-> store', state |-> st]
        /\ \A o \in Sessions : o # s => cmd'[o] = Idle
    BY Alone DEF IInv, TypesOK
  <1>5. CmdOK(s)'
    <2>1. lock' = s
      BY Alone
    <2> QED BY <1>3, <1>4, <2>1 DEF CmdOK
  <1>6. \A o \in Sessions : CmdOK(o)'
    BY <1>4, <1>5 DEF CmdOK
  <1> QED BY <1>1, <1>2, <1>6 DEF IInv, StoreOK, RecOK

LEMMA Proposes ==
  ASSUME IInv, NEW s \in Sessions, NEW g \in Grades, ProposePost(s, g)
  PROVE  IInv'
  <1>1. cmd[s] # Idle /\ cmd[s].at = "read"
    BY DEF ProposePost, Assessing, Current, Idle
  <1>2. cmd[s].store = store /\ cmd[s].work \in Docs /\ cmd[s].seen.state \in Nat
    BY <1>1, Alone DEF IInv, CmdOK
  <1>3. VersionOf(cmd[s].work, g) \in Versions /\ Len(requests) + 1 \in Nat
    BY <1>2, LenProperties DEF VersionOf, Versions, IInv, TypesOK
  <1>4. PICK v \in Versions, st \in Nat, d \in Docs, n \in Nat :
          /\ v = VersionOf(cmd[s].work, g) /\ st = cmd[s].seen.state /\ d = cmd[s].work
          /\ n = Len(requests) + 1
    BY <1>2, <1>3
  <1> DEFINE r == NewRecord(d, g, "uncertain", n)
  <1>5. ~OnRecord(store, v) /\ store' = With(store, v, r)
        /\ cmd' = [cmd EXCEPT ![s] = [at |-> "intent", kind |-> "post", version |-> v,
                                      store |-> store', state |-> st]]
        /\ UNCHANGED <<doc, issue, requests, lock>>
    BY <1>2, <1>4 DEF ProposePost, Intend
  <1>6. RecOK(r) /\ r.status = "uncertain" /\ \A q : RecOK(q) /\ q.status = "rejected" => Grows(q, r)
    BY NewGrows
  <1> HIDE DEF r
  <1>7. StoreOK(With(store, v, r)) /\ Steady(store, With(store, v, r))
        /\ v \in DOMAIN With(store, v, r) /\ With(store, v, r)[v] = r
    BY <1>5, <1>6, WithSteady DEF IInv
  <1>8. StoreOK(store') /\ Steady(store, store') /\ v \in DOMAIN store' /\ store'[v] = r
    BY <1>5, <1>7
  <1>9. Prepared("post", v, st)'
    BY <1>6, <1>8 DEF Prepared
  <1>10. Sole("post", v, st, {})
    BY <1>5 DEF Sole, IInv, Backed, Answers, OnRecord
  <1> QED BY <1>1, <1>5, <1>8, <1>9, <1>10, Intends

\* What is decided once more was not decided in a way that may have an effect.
LEMMA Decides ==
  ASSUME IInv, NEW s \in Sessions, NEW v \in Versions, NEW answer \in {"yes", "no"},
         NEW again \in BOOLEAN, Decide(s, v, answer, again)
  PROVE  IInv'
  <1>1. cmd[s] # Idle /\ cmd[s].at = "read"
    BY DEF Decide, Decidable, Current, Idle
  <1>2. cmd[s].store = store /\ cmd[s].seen.state \in Nat
    BY <1>1, Alone DEF IInv, CmdOK
  <1>3. PICK st \in Nat : st = cmd[s].seen.state
    BY <1>2
  <1> DEFINE m == [state |-> st, answer |-> answer,
                   status |-> IF answer = "yes" THEN "uncertain" ELSE "declined"]
             old == store[v]
             r == [old EXCEPT !.decisions = Append(@, m)]
             records == [store EXCEPT ![v] = r]
  <1>4. v \in DOMAIN store /\ RecOK(old) /\ old.status \in {"published", "equivalent"}
    BY <1>2 DEF Decide, Decidable, IInv, StoreOK
  <1>5. m \in Decision /\ (m.status = "uncertain" => m.answer = "yes")
    BY DEF Decision
  <1>6. /\ RecOK(r) /\ Grows(old, r) /\ r.decisions = Append(old.decisions, m)
        /\ r.status = old.status
        /\ Len(r.decisions) = Len(old.decisions) + 1 /\ r.decisions[Len(old.decisions) + 1] = m
        /\ Len(old.decisions) \in Nat
    <2>1. /\ RecOK(r) /\ Grows(old, r) /\ r.decisions = Append(old.decisions, m)
          /\ r.status = old.status
          /\ Len(Append(old.decisions, m)) = Len(old.decisions) + 1
          /\ Append(old.decisions, m)[Len(old.decisions) + 1] = m
          /\ Len(old.decisions) \in Nat
      <3> HIDE DEF m, old
      <3> QED BY <1>4, <1>5, DecidedGrows
    <2> HIDE DEF m, old, r
    <2> QED BY <2>1
  <1>7. StoreOK(records) /\ Steady(store, records) /\ v \in DOMAIN records /\ records[v] = r
    <2> HIDE DEF r
    <2> QED BY <1>4, <1>6, GrowsSame DEF StoreOK, Steady, IInv
  <1>8. ~Asks(old, st)
    <2>1. DOMAIN old.decisions = 1..Len(old.decisions)
      BY <1>4, Decisions DEF RecOK
    <2>2. ASSUME NEW i \in 1..Len(old.decisions), old.decisions[i].state = st
          PROVE  ~Binding(old.decisions[i], again)
      BY <1>2, <1>3, <2>1, <2>2 DEF Decide
    <2> QED BY <2>2 DEF Asks, Refusable, Binding
  <1>9. CASE answer = "no"
    <2>1. SaveAndLeave(s, records) /\ UNCHANGED <<doc, issue, requests>>
      BY <1>2, <1>3, <1>9 DEF Decide
    <2> HIDE DEF records
    <2> QED BY <1>1, <1>7, <2>1, Saves
  <1>10. CASE answer = "yes"
    <2>1. /\ store' = records /\ UNCHANGED <<doc, issue, requests, lock>>
          /\ cmd' = [cmd EXCEPT ![s] = [at |-> "intent", kind |-> "close", version |-> v,
                                        store |-> store', state |-> st]]
      BY <1>2, <1>3, <1>10 DEF Decide
    <2>2. m.state = st /\ Refusable(m)
      BY <1>10 DEF Refusable
    <2> HIDE DEF records, r, m
    <2>3. StoreOK(store') /\ Steady(store, store')
      BY <1>7, <2>1
    <2>4. Prepared("close", v, st)'
      BY <1>6, <1>7, <2>1, <2>2 DEF Prepared
    <2>5. Sole("close", v, st, {})
      BY <1>4, <1>8 DEF Sole, IInv, Backed, Answers
    <2> QED BY <1>1, <2>1, <2>3, <2>4, <2>5, Intends
  <1> QED BY <1>9, <1>10

\* The request is made: it is the only one of its kind.
LEMMA Sends ==
  ASSUME IInv, NEW s \in Sessions, Send(s)
  PROVE  IInv'
  <1>1. cmd[s] # Idle /\ cmd[s].at = "intent"
    BY DEF Send, Idle
  <1>2. /\ cmd[s].store = store /\ lock = s /\ cmd[s].kind \in {"post", "close"} /\ cmd[s].state \in Nat
        /\ Prepared(cmd[s].kind, cmd[s].version, cmd[s].state)
        /\ Sole(cmd[s].kind, cmd[s].version, cmd[s].state, {})
        /\ \A o \in Sessions : o # s => cmd[o] = Idle
    BY <1>1, Alone DEF IInv, CmdOK
  <1>3. cmd[s].version \in Versions
    BY <1>2 DEF Prepared, IInv, StoreOK
  <1>4. PICK kind \in {"post", "close"}, v \in Versions, st \in Nat, n \in Nat :
          kind = cmd[s].kind /\ v = cmd[s].version /\ st = cmd[s].state /\ n = Len(requests) + 1
    BY <1>2, <1>3, LenProperties DEF IInv, TypesOK
  <1> DEFINE q == [kind |-> kind, version |-> v, state |-> st, fate |-> "sent"]
  <1>5. /\ requests' = Append(requests, q) /\ UNCHANGED <<doc, issue, store, lock>>
        /\ cmd' = [cmd EXCEPT ![s] = [at |-> "sent", kind |-> kind, version |-> v,
                                      store |-> store, request |-> n]]
    BY <1>2, <1>4 DEF Send
  <1>6. q \in Request /\ q.kind = kind /\ q.version = v /\ q.state = st /\ q.fate = "sent"
    BY DEF Request
  <1> HIDE DEF q
  <1>7. /\ requests' \in Seq(Request) /\ Len(requests') = n /\ requests'[n] = q
        /\ \A i \in 1..Len(requests) : requests'[i] = requests[i]
        /\ n = Len(requests) + 1 /\ Len(requests) \in Nat
    BY <1>4, <1>5, <1>6, AppendProperties, LenProperties DEF IInv, TypesOK
  <1>8. \A i \in 1..n : i \in 1..Len(requests) \/ i = n
    BY <1>7
  <1>9. Prepared(kind, v, st)' /\ Prepared(kind, v, st) /\ Sole(kind, v, st, {})
    BY <1>2, <1>4, <1>5 DEF Prepared
  <1>10. TypesOK' /\ StoreOK(store')
    BY <1>5, <1>7 DEF IInv, TypesOK
  <1>11. Backed'
    <2> SUFFICES ASSUME NEW i \in 1..n, requests'[i].fate # "refused"
                 PROVE  /\ requests'[i].version \in DOMAIN store
                        /\ Answers(store[requests'[i].version], requests'[i])
      BY <1>5, <1>7 DEF Backed, Refused, Answers, Asks
    <2>1. CASE i \in 1..Len(requests)
      BY <1>7, <2>1 DEF IInv, Backed, Refused
    <2>2. CASE i = n
      <3>1. v \in DOMAIN store /\ RecOK(store[v])
        BY <1>9 DEF Prepared, IInv, StoreOK
      <3>2. CASE kind = "post"
        BY <1>6, <1>7, <1>9, <2>2, <3>2 DEF Prepared, Answers
      <3>3. CASE kind = "close"
        <4>1. Len(store[v].decisions) \in Nat /\ Len(store[v].decisions) > 0
          BY <1>9, <3>1, <3>3, Decisions DEF Prepared, RecOK
        <4>2. Refusable(store[v].decisions[Len(store[v].decisions)])
              /\ store[v].decisions[Len(store[v].decisions)].state = st
          BY <1>9, <3>3 DEF Prepared
        <4>3. Asks(store[v], st)
          BY <4>1, <4>2 DEF Asks
        <4> QED BY <1>6, <1>7, <1>9, <2>2, <3>1, <3>3, <4>3 DEF Prepared, Answers
      <3> QED BY <3>2, <3>3
    <2> QED BY <1>8, <2>1, <2>2
  <1>12. AskedOnce'
    <2> SUFFICES ASSUME NEW i \in 1..n, NEW j \in 1..n, i # j,
                        requests'[i].kind = requests'[j].kind,
                        requests'[i].version = requests'[j].version,
                        requests'[i].kind = "close" => requests'[i].state = requests'[j].state,
                        requests'[i].fate # "refused", requests'[j].fate # "refused"
                 PROVE  FALSE
      BY <1>7 DEF AskedOnce, SameThing, Refused
    <2>1. CASE i \in 1..Len(requests) /\ j \in 1..Len(requests)
      BY <1>7, <2>1 DEF IInv, TypesOK, AskedOnce, SameThing, Refused
    <2>2. CASE i = n /\ j \in 1..Len(requests)
      BY <1>6, <1>7, <1>9, <2>2 DEF Sole, Refused
    <2>3. CASE j = n /\ i \in 1..Len(requests)
      BY <1>6, <1>7, <1>9, <2>3 DEF Sole, Refused
    <2> QED BY <1>8, <2>1, <2>2, <2>3
  <1>13. cmd'[s] = [at |-> "sent", kind |-> kind, version |-> v, store |-> store, request |-> n]
         /\ \A o \in Sessions : o # s => cmd'[o] = Idle
    BY <1>2, <1>5 DEF IInv, TypesOK
  <1>14. Sole(kind, v, st, {n})'
    <2> SUFFICES ASSUME NEW i \in 1..n, i # n, requests'[i].kind = kind, requests'[i].version = v,
                        kind = "close" => requests'[i].state = st
                 PROVE  requests'[i].fate = "refused"
      BY <1>7 DEF Sole, Refused
    <2> QED BY <1>7, <1>8, <1>9 DEF Sole, Refused
  <1>15. CmdOK(s)'
    <2>1. n \in 1..Len(requests')
      BY <1>7
    <2>2. lock' = s /\ store' = store /\ requests'[n].kind = kind /\ requests'[n].version = v
          /\ requests'[n].state = st
      BY <1>2, <1>5, <1>6, <1>7
    <2> QED BY <1>9, <1>13, <1>14, <2>1, <2>2 DEF CmdOK
  <1>16. \A o \in Sessions : CmdOK(o)'
    BY <1>13, <1>15 DEF CmdOK
  <1> QED BY <1>10, <1>11, <1>12, <1>16 DEF IInv

\* A request is served or refused: what may have an effect only gets less.
LEMMA Fates ==
  ASSUME IInv, NEW n \in DOMAIN requests, Serve(n) \/ Refuse(n)
  PROVE  IInv'
  <1>1. /\ requests \in Seq(Request) /\ DOMAIN requests = 1..Len(requests) /\ Len(requests) \in Nat
        /\ requests[n] \in Request /\ requests[n].fate = "sent"
        /\ UNCHANGED <<doc, store, lock, cmd>>
    BY LenProperties, ElementOfSeq DEF IInv, TypesOK, Serve, Refuse
  <1>2. PICK f \in {"served", "refused"} : requests' = [requests EXCEPT ![n].fate = f]
    BY DEF Serve, Refuse
  <1> DEFINE q == [requests[n] EXCEPT !.fate = f]
  <1>3. /\ q \in Request /\ q.kind = requests[n].kind /\ q.version = requests[n].version
        /\ q.state = requests[n].state /\ q.fate = f
    BY <1>1 DEF Request
  <1>4. requests' = [requests EXCEPT ![n] = q]
    BY <1>1, <1>2
  <1> HIDE DEF q
  <1>5. /\ requests' \in Seq(Request) /\ Len(requests') = Len(requests)
        /\ \A i \in 1..Len(requests) : requests'[i] = IF i = n THEN q ELSE requests[i]
    BY <1>1, <1>3, <1>4, ExceptSeq
  <1>6. \A i \in 1..Len(requests) :
          /\ requests'[i].kind = requests[i].kind /\ requests'[i].version = requests[i].version
          /\ requests'[i].state = requests[i].state
          /\ requests[i].fate = "refused" => requests'[i].fate = "refused"
    BY <1>1, <1>3, <1>5
  <1>7. issue'.state \in Nat /\ "state" \in DOMAIN issue'
    <2>1. CASE Refuse(n)
      BY <2>1 DEF Refuse, IInv, TypesOK
    <2>2. CASE Serve(n) /\ requests[n].kind = "post"
      BY <2>2 DEF Serve, IInv, TypesOK
    <2>3. CASE Serve(n) /\ requests[n].kind # "post"
      <3>1. issue' = [issue EXCEPT !.open = FALSE, !.state = IF issue.open THEN @ + 1 ELSE @]
        BY <2>3 DEF Serve
      <3> QED BY <3>1 DEF IInv, TypesOK
    <2> QED BY <2>1, <2>2, <2>3
  <1>8. TypesOK' /\ StoreOK(store')
    BY <1>1, <1>5, <1>7 DEF IInv, TypesOK
  <1>9. Backed'
    <2> SUFFICES ASSUME NEW i \in 1..Len(requests), requests'[i].fate # "refused"
                 PROVE  /\ requests'[i].version \in DOMAIN store
                        /\ Answers(store[requests'[i].version], requests'[i])
      BY <1>1, <1>5 DEF Backed, Refused, Answers, Asks
    <2>1. requests[i].version \in DOMAIN store /\ Answers(store[requests[i].version], requests[i])
      BY <1>6 DEF IInv, Backed, Refused
    <2> QED BY <1>6, <2>1 DEF Answers
  <1>10. AskedOnce'
    <2> SUFFICES ASSUME NEW i \in 1..Len(requests), NEW j \in 1..Len(requests), i # j,
                        requests'[i].kind = requests'[j].kind,
                        requests'[i].version = requests'[j].version,
                        requests'[i].kind = "close" => requests'[i].state = requests'[j].state,
                        requests'[i].fate # "refused", requests'[j].fate # "refused"
                 PROVE  FALSE
      BY <1>5 DEF AskedOnce, SameThing, Refused
    <2> QED BY <1>1, <1>6 DEF IInv, AskedOnce, SameThing, Refused
  <1>11. ASSUME NEW kind, NEW v, NEW st, NEW but, Sole(kind, v, st, but)
         PROVE  Sole(kind, v, st, but)'
    BY <1>5, <1>6, <1>11 DEF Sole, Refused
  <1>12. ASSUME NEW s \in Sessions, cmd[s] # Idle PROVE CmdOK(s)'
    <2>1. CmdOK(s)
      BY DEF IInv
    <2>2. CASE cmd[s].at = "read"
      BY <1>1, <1>12, <2>1, <2>2 DEF CmdOK
    <2>3. CASE cmd[s].at = "intent"
      <3>1. PICK kind, v, st : kind = cmd[s].kind /\ v = cmd[s].version /\ st = cmd[s].state
        OBVIOUS
      <3>2. Prepared(kind, v, st) /\ Sole(kind, v, st, {})
        BY <1>12, <2>1, <2>3, <3>1 DEF CmdOK
      <3>3. Prepared(kind, v, st)' /\ Sole(kind, v, st, {})'
        BY <1>1, <1>11, <3>2 DEF Prepared
      <3> QED BY <1>1, <1>12, <2>1, <2>3, <3>1, <3>3 DEF CmdOK
    <2>4. CASE cmd[s].at = "sent"
      <3>1. PICK kind, v, st, r : /\ kind = cmd[s].kind /\ v = cmd[s].version /\ r = cmd[s].request
                                  /\ st = requests[cmd[s].request].state
        OBVIOUS
      <3>2. Prepared(kind, v, st) /\ Sole(kind, v, st, {r}) /\ r \in 1..Len(requests)
            /\ kind = requests[r].kind /\ v = requests[r].version
        BY <1>12, <2>1, <2>4, <3>1 DEF CmdOK
      <3>3. Prepared(kind, v, st)' /\ Sole(kind, v, st, {r})'
        BY <1>1, <1>11, <3>2 DEF Prepared
      <3>4. requests'[r].state = st /\ kind = requests'[r].kind /\ v = requests'[r].version
            /\ r \in 1..Len(requests')
        BY <1>5, <1>6, <3>1, <3>2
      <3> QED BY <1>1, <1>12, <2>1, <2>4, <3>1, <3>3, <3>4 DEF CmdOK
    <2> QED BY <1>12, <2>1, <2>2, <2>3, <2>4 DEF CmdOK
  <1>13. \A s \in Sessions : CmdOK(s)'
    BY <1>1, <1>12 DEF CmdOK
  <1> QED BY <1>8, <1>9, <1>10, <1>13 DEF IInv

LEMMA PostAnswered ==
  ASSUME NEW r, RecOK(r), r.status = "uncertain", NEW x \in {"published", "rejected"}
  PROVE  /\ RecOK([r EXCEPT !.status = x]) /\ [r EXCEPT !.status = x].status = x
         /\ \A st : ~Asks(r, st)
         /\ x = "published" => Grows(r, [r EXCEPT !.status = x])
  <1> DEFINE t == [r EXCEPT !.status = x]
  <1>1. t \in Rec /\ t.status = x /\ t.decisions = r.decisions /\ r.decisions = <<>>
    BY DEF RecOK, Rec
  <1>2. Len(r.decisions) = 0
    BY <1>1, EmptySeq
  <1> HIDE DEF t
  <1>3. RecOK(t) /\ \A st : ~Asks(r, st)
    BY <1>1, <1>2 DEF RecOK, Asks
  <1>4. x = "published" => Grows(r, t)
    BY <1>1, <1>3 DEF Grows
  <1> QED BY <1>1, <1>3, <1>4 DEF t

LEMMA CloseAnswered ==
  ASSUME NEW r, RecOK(r), Len(r.decisions) > 0, Refusable(r.decisions[Len(r.decisions)]),
         NEW x \in {"closed", "rejected"}
  PROVE  LET t == [r EXCEPT !.decisions[Len(r.decisions)].status = x] IN
         /\ RecOK(t) /\ t.status = r.status
         /\ \A st : Asks(r, st) /\ (x = "closed" \/ st # r.decisions[Len(r.decisions)].state) => Asks(t, st)
         /\ x = "closed" => Grows(r, t)
  <1> DEFINE n == Len(r.decisions)
             d == [r.decisions[n] EXCEPT !.status = x]
             ds == [r.decisions EXCEPT ![n] = d]
             t == [r EXCEPT !.decisions = ds]
  <1>1. r \in Rec /\ r.decisions \in Seq(Decision) /\ n \in 1..n
        /\ \A i \in 1..n : r.decisions[i] \in Decision
    BY Decisions DEF RecOK
  <1>2. [r EXCEPT !.decisions[n].status = x] = t
    OBVIOUS
  <1>3. d \in Decision /\ d.state = r.decisions[n].state /\ d.answer = "yes" /\ d.status = x
    <2>1. r.decisions[n] \in Decision /\ r.decisions[n].answer = "yes"
      BY <1>1 DEF Refusable
    <2> QED BY <2>1 DEF Decision
  <1> HIDE DEF d
  <1>4. ds \in Seq(Decision) /\ Len(ds) = n /\ \A i \in 1..n : ds[i] = IF i = n THEN d ELSE r.decisions[i]
    BY <1>1, <1>3, ExceptSeq
  <1> HIDE DEF ds
  <1>5. t \in Rec /\ t.status = r.status /\ t.decisions = ds
    BY <1>1, <1>4 DEF Rec
  <1>6. r.status \notin {"uncertain", "rejected"}
    BY <1>1, EmptySeq DEF RecOK
  <1> HIDE DEF t
  <1>7. RecOK(t)
    BY <1>3, <1>4, <1>5, <1>6 DEF RecOK
  <1>8. ASSUME NEW st, Asks(r, st), x = "closed" \/ st # r.decisions[n].state
        PROVE  Asks(t, st)
    <2>1. PICK i \in 1..n : r.decisions[i].state = st /\ Refusable(r.decisions[i])
      BY <1>8 DEF Asks
    <2>2. ds[i].state = st /\ Refusable(ds[i])
      BY <1>3, <1>4, <1>8, <2>1 DEF Refusable
    <2> QED BY <1>4, <1>5, <2>2 DEF Asks
  <1>9. x = "closed" => Grows(r, t)
    BY <1>5, <1>8 DEF Grows
  <1> QED BY <1>2, <1>5, <1>7, <1>8, <1>9

\* The answer arrives.  A refusal takes back what only this request relied on.
LEMMA Answering ==
  ASSUME IInv, NEW s \in Sessions, Answer(s)
  PROVE  IInv'
  <1>1. cmd[s] # Idle /\ cmd[s].at = "sent"
    <2>1. cmd[s].at = "sent"
      BY Zenon DEF Answer
    <2> QED BY <2>1 DEF Idle
  <1>2. PICK kind, v, st, n : /\ kind = cmd[s].kind /\ v = cmd[s].version /\ n = cmd[s].request
                              /\ st = requests[n].state
    OBVIOUS
  <1>3. /\ cmd[s].store = store /\ n \in 1..Len(requests) /\ kind = requests[n].kind
        /\ v = requests[n].version /\ Prepared(kind, v, st) /\ Sole(kind, v, st, {n})
    BY <1>1, <1>2, Alone DEF IInv, CmdOK
  <1>4. v \in DOMAIN store /\ RecOK(store[v]) /\ requests[n] \in Request
    BY <1>3, ElementOfSeq DEF Prepared, IInv, StoreOK, TypesOK
  <1>5. requests[n].fate \in {"served", "refused"} /\ UNCHANGED <<doc, issue, requests>>
    BY <1>2, <1>4 DEF Answer, Request
  <1>6. ASSUME NEW t, RecOK(t), SaveAndLeave(s, [store EXCEPT ![v] = t]),
               \/ Grows(store[v], t)
               \/ /\ requests[n].fate = "refused"
                  /\ \A i \in 1..Len(requests) :
                       i # n /\ ~Refused(i) /\ requests[i].version = v
                       => Answers(t, requests[i])
        PROVE  IInv'
    <2> DEFINE records == [store EXCEPT ![v] = t]
    <2>1. DOMAIN records = DOMAIN store /\ records[v] = t
          /\ \A w \in DOMAIN store : w # v => records[w] = store[w]
      BY <1>4
    <2> HIDE DEF records
    <2>2. StoreOK(records)
      BY <1>6, <2>1 DEF IInv, StoreOK
    <2>3. CASE Grows(store[v], t)
      <3>1. Steady(store, records)
        BY <2>1, <2>3, GrowsSame DEF Steady
      <3> QED BY <1>1, <1>5, <1>6, <2>2, <3>1, Saves DEF records
    <2>4. CASE /\ requests[n].fate = "refused"
               /\ \A i \in 1..Len(requests) :
                    i # n /\ ~Refused(i) /\ requests[i].version = v
                    => Answers(t, requests[i])
      <3>1. store' = records
        BY <1>6 DEF SaveAndLeave, records
      <3>2. ASSUME NEW i \in 1..Len(requests), ~Refused(i)
            PROVE  requests[i].version \in DOMAIN records /\ Answers(records[requests[i].version], requests[i])
        <4>1. i # n /\ requests[i].version \in DOMAIN store
              /\ Answers(store[requests[i].version], requests[i])
          BY <2>4, <3>2 DEF IInv, Backed, Refused
        <4> QED BY <2>1, <2>4, <3>2, <4>1
      <3>3. Backed'
        BY <1>5, <3>1, <3>2 DEF Backed, Refused, Answers, Asks
      <3> QED BY <1>1, <1>5, <1>6, <2>2, <3>3, Closes DEF records
    <2> QED BY <1>6, <2>3, <2>4
  <1>7. CASE kind = "post"
    <2>1. store[v].status = "uncertain"
      BY <1>3, <1>7 DEF Prepared
    <2>2. PICK x \in {"published", "rejected"} :
            /\ SaveAndLeave(s, [store EXCEPT ![v] = [store[v] EXCEPT !.status = x]])
            /\ x = "published" \/ requests[n].fate = "refused"
      <3>1. CASE requests[n].fate = "served"
        BY <1>2, <1>3, <1>7, <3>1 DEF Answer, Answered
      <3>2. CASE requests[n].fate = "refused"
        BY <1>2, <1>3, <1>7, <3>2 DEF Answer, Answered
      <3> QED BY <1>5, <3>1, <3>2
    <2>3. RecOK([store[v] EXCEPT !.status = x]) /\ (\A q : ~Asks(store[v], q))
          /\ (x = "published" => Grows(store[v], [store[v] EXCEPT !.status = x]))
      BY <1>4, <2>1, PostAnswered
    <2>4. \A i \in 1..Len(requests) : i # n /\ requests[i].version = v => Refused(i)
      <3> SUFFICES ASSUME NEW i \in 1..Len(requests), i # n, requests[i].version = v PROVE Refused(i)
        OBVIOUS
      <3>1. requests[i] \in Request
        BY ElementOfSeq DEF IInv, TypesOK
      <3>2. CASE requests[i].kind = "post"
        BY <1>3, <1>7, <3>2 DEF Sole
      <3>3. CASE requests[i].kind = "close"
        BY <2>3, <3>3 DEF IInv, Backed, Answers
      <3> QED BY <3>1, <3>2, <3>3 DEF Request
    <2> QED BY <1>6, <2>2, <2>3, <2>4
  <1>8. CASE kind = "close"
    <2> DEFINE r == store[v]
               m == Len(r.decisions)
    <2>1. m > 0 /\ r.decisions[m].state = st /\ Refusable(r.decisions[m])
      BY <1>3, <1>8 DEF Prepared
    <2>2. PICK x \in {"closed", "rejected"} :
            /\ SaveAndLeave(s, [store EXCEPT ![v] = [r EXCEPT !.decisions[m].status = x]])
            /\ x = "closed" \/ requests[n].fate = "refused"
      <3>1. CASE requests[n].fate = "served"
        BY <1>2, <1>3, <1>8, <3>1 DEF Answer, Answered
      <3>2. CASE requests[n].fate = "refused"
        BY <1>2, <1>3, <1>8, <3>2 DEF Answer, Answered
      <3> QED BY <1>5, <3>1, <3>2
    <2> DEFINE t == [r EXCEPT !.decisions[m].status = x]
    <2>3. /\ RecOK(t) /\ t.status = r.status
          /\ \A q : Asks(r, q) /\ (x = "closed" \/ q # st) => Asks(t, q)
          /\ x = "closed" => Grows(r, t)
      BY <1>4, <2>1, CloseAnswered
    <2> HIDE DEF t
    <2>4. ASSUME NEW i \in 1..Len(requests), i # n, ~Refused(i), requests[i].version = v
          PROVE  Answers(t, requests[i])
      <3>1. Answers(r, requests[i])
        BY <2>4 DEF IInv, Backed
      <3>2. CASE requests[i].kind = "post"
        BY <2>3, <3>1, <3>2 DEF Answers
      <3>3. CASE requests[i].kind = "close"
        <4>1. requests[i].state # st
          BY <1>3, <1>8, <2>4, <3>3 DEF Sole
        <4> QED BY <2>3, <3>1, <3>3, <4>1 DEF Answers
      <3>4. requests[i] \in Request
        BY ElementOfSeq DEF IInv, TypesOK
      <3> QED BY <3>2, <3>3, <3>4 DEF Request
    <2>5. SaveAndLeave(s, [store EXCEPT ![v] = t])
      BY <2>2 DEF t
    <2> QED BY <1>6, <2>2, <2>3, <2>4, <2>5
  <1> QED BY <1>3, <1>4, <1>7, <1>8 DEF Request

LEMMA Inspects ==
  ASSUME IInv, NEW s \in Sessions, InspectResult(s)
  PROVE  IInv'
  <1> DEFINE records == [v \in DOMAIN store |-> Settle(store[v], cmd[s].seen)]
  <1>1. cmd[s] # Idle
    BY DEF InspectResult, Current, Idle
  <1>2. SaveAndLeave(s, records) /\ UNCHANGED <<doc, issue, requests>>
    BY <1>1, Alone DEF InspectResult
  <1>3. \A v \in DOMAIN store :
          RecOK(Settle(store[v], cmd[s].seen)) /\ Grows(store[v], Settle(store[v], cmd[s].seen))
    BY SettleGrows DEF IInv, StoreOK
  <1>4. StoreOK(records) /\ Steady(store, records)
    BY <1>3 DEF StoreOK, Steady, IInv
  <1> HIDE DEF records
  <1> QED BY <1>1, <1>2, <1>4, Saves

LEMMA Reassesses ==
  ASSUME IInv, NEW s \in Sessions, NEW g \in Grades, Reassess(s, g)
  PROVE  IInv'
  <1>1. cmd[s] # Idle /\ cmd[s].at = "read"
    BY DEF Reassess, Assessing, Current, Idle
  <1>2. cmd[s].store = store /\ cmd[s].work \in Docs
    BY <1>1, Alone DEF IInv, CmdOK
  <1>3. PICK v \in Versions, d \in Docs : v = VersionOf(cmd[s].work, g) /\ d = cmd[s].work
    BY <1>2 DEF VersionOf, Versions
  <1> DEFINE r == store[v]
             t == [r EXCEPT !.digest = d, !.evidence = EvidenceOf[d]]
             records == [store EXCEPT ![v] = t]
  <1>4. v \in DOMAIN store /\ RecOK(r)
    BY <1>2, <1>3 DEF Reassess, OnRecord, IInv, StoreOK
  <1>5. SaveAndLeave(s, records) /\ UNCHANGED <<doc, issue, requests>>
    <2>1. [store EXCEPT ![v].digest = d, ![v].evidence = EvidenceOf[d]] = records
      BY <1>4
    <2> HIDE DEF records
    <2> QED BY <1>2, <1>3, <2>1 DEF Reassess
  <1>6. t \in Rec /\ t.status = r.status /\ t.decisions = r.decisions
    BY <1>4, IssueAssumption DEF RecOK, Rec
  <1> HIDE DEF t
  <1>7. RecOK(t) /\ Grows(r, t)
    BY <1>4, <1>6 DEF RecOK, Grows, Asks
  <1>8. StoreOK(records) /\ Steady(store, records)
    BY <1>4, <1>7, GrowsSame DEF StoreOK, Steady, IInv
  <1> HIDE DEF records
  <1> QED BY <1>1, <1>5, <1>8, Saves

LEMMA Adopts ==
  ASSUME IInv, NEW s \in Sessions, NEW g \in Grades, NEW n \in 0..MaxRequests, Adopt(s, g, n)
  PROVE  IInv'
  <1>1. cmd[s] # Idle /\ cmd[s].at = "read"
    BY DEF Adopt, Assessing, Current, Idle
  <1>2. cmd[s].store = store /\ cmd[s].work \in Docs
    BY <1>1, Alone DEF IInv, CmdOK
  <1>3. PICK v \in Versions, d \in Docs : v = VersionOf(cmd[s].work, g) /\ d = cmd[s].work
    BY <1>2 DEF VersionOf, Versions
  <1> DEFINE r == NewRecord(d, g, "equivalent", n)
             records == With(store, v, r)
  <1>4. ~OnRecord(store, v) /\ SaveAndLeave(s, records) /\ UNCHANGED <<doc, issue, requests>>
    BY <1>2, <1>3 DEF Adopt
  <1>5. n \in Nat
    BY IssueAssumption
  <1>6. RecOK(r) /\ \A q : RecOK(q) /\ q.status = "rejected" => Grows(q, r)
    BY <1>5, NewGrows
  <1> HIDE DEF r
  <1>7. StoreOK(records) /\ Steady(store, records)
    BY <1>4, <1>6, WithSteady DEF IInv
  <1> HIDE DEF records
  <1> QED BY <1>1, <1>4, <1>7, Saves

\* Coming, going, and the world.
LEMMA Enters ==
  ASSUME IInv, NEW s \in Sessions, Enter(s)
  PROVE  IInv'
  <1>1. \A o \in Sessions : cmd[o] = Idle
    BY IssueAssumption DEF IInv, CmdOK, Enter
  <1>2. /\ lock' = s /\ UNCHANGED <<doc, issue, requests, store>>
        /\ cmd'[s] = [at |-> "read", work |-> doc, seen |-> issue, store |-> store]
        /\ DOMAIN cmd' = Sessions /\ \A o \in Sessions : o # s => cmd'[o] = Idle
    BY <1>1 DEF Enter, IInv, TypesOK
  <1>3. TypesOK' /\ StoreOK(store') /\ Backed' /\ AskedOnce'
    BY <1>2 DEF IInv, TypesOK, Backed, AskedOnce, SameThing, Refused, Answers, Asks
  <1>4. \A o \in Sessions : CmdOK(o)'
    BY <1>2 DEF CmdOK, IInv, TypesOK
  <1> QED BY <1>2, <1>3, <1>4 DEF IInv

LEMMA Leaves ==
  ASSUME IInv, NEW s \in Sessions, Leave(s)
  PROVE  IInv'
  <1>1. SaveAndLeave(s, store) /\ cmd[s] # Idle /\ UNCHANGED <<doc, issue, requests>>
    BY DEF Leave, SaveAndLeave
  <1>2. StoreOK(store) /\ Steady(store, store)
    BY GrowsSame DEF IInv, Steady
  <1> QED BY <1>1, <1>2, Saves

LEMMA Quiet ==
  ASSUME IInv, UNCHANGED <<requests, store, lock, cmd>>, doc' \in Docs, issue'.state \in Nat,
         "state" \in DOMAIN issue'
  PROVE  IInv'
  <1>1. TypesOK' /\ StoreOK(store') /\ Backed' /\ AskedOnce'
    BY DEF IInv, TypesOK, Backed, AskedOnce, SameThing, Refused, Answers, Asks
  <1>2. \A s \in Sessions : CmdOK(s)'
    BY DEF IInv, CmdOK, Prepared, Sole, Refused, Refusable
  <1> QED BY <1>1, <1>2 DEF IInv

LEMMA World ==
  ASSUME IInv,
         \/ \E d \in Docs : EditDocs(d)
         \/ Comment \/ Flip \/ \E n \in 0..MaxRequests : Uncomment(n)
  PROVE  IInv'
  <1>1. UNCHANGED <<requests, store, lock, cmd>> /\ doc' \in Docs
    BY DEF EditDocs, Comment, Flip, Uncomment, IInv, TypesOK
  <1>2. issue.state \in Nat /\ "state" \in DOMAIN issue
    BY DEF IInv, TypesOK
  <1>3. issue'.state \in Nat /\ "state" \in DOMAIN issue'
    <2>1. CASE \E d \in Docs : EditDocs(d)
      BY <1>2, <2>1 DEF EditDocs
    <2>2. CASE Comment
      BY <1>2, <2>2 DEF Comment
    <2>3. CASE Flip
      BY <1>2, <2>3 DEF Flip
    <2>4. CASE \E n \in 0..MaxRequests : Uncomment(n)
      BY <1>2, <2>4 DEF Uncomment
    <2> QED BY <2>1, <2>2, <2>3, <2>4
  <1> QED BY <1>1, <1>3, Quiet

LEMMA InvInit == ResultInit => IInv
  <1> SUFFICES ASSUME ResultInit PROVE IInv
    OBVIOUS
  <1>1. requests = <<>> /\ requests \in Seq(Request) /\ Len(requests) = 0
    BY EmptySeq DEF ResultInit
  <1>2. TypesOK
    BY <1>1 DEF ResultInit, TypesOK
  <1>3. StoreOK(store)
    BY DEF ResultInit, StoreOK
  <1>4. Backed /\ AskedOnce
    BY <1>1 DEF Backed, AskedOnce
  <1>5. \A s \in Sessions : CmdOK(s)
    BY DEF ResultInit, CmdOK
  <1> QED BY <1>2, <1>3, <1>4, <1>5 DEF IInv

LEMMA InvNext == IInv /\ [ResultNext]_resultVars => IInv'
  <1> SUFFICES ASSUME IInv, [ResultNext]_resultVars PROVE IInv'
    OBVIOUS
  <1>1. CASE ResultNext
    BY <1>1, World, Fates, Enters, Leaves, Inspects, Sends, Answering, Reassesses, Proposes,
       Adopts, Decides DEF ResultNext
  <1>2. CASE UNCHANGED resultVars
    BY <1>2, Quiet DEF resultVars, IInv, TypesOK
  <1> QED BY <1>1, <1>2

-----------------------------------------------------------------------------
\* For one result version at most one comment is ever accepted by GitHub or still
\* may be, and for one result and one state of the issue at most one close, for
\* any number of processes, deaths, lost or late answers and edits (ApplyResult,
\* DecideResult, withResultStore).
THEOREM NeverAskedTwice == ResultSpec => []AskedOnce
  <1>1. IInv => AskedOnce
    BY DEF IInv
  <1> QED BY <1>1, InvInit, InvNext, PTL DEF ResultSpec

=============================================================================
