---------------------------- MODULE IssueResults ----------------------------
(* Publication of a finished card's result on its GitHub issue               *)
(* (internal/issue: result_sync.go and result_store.go).  A command holds    *)
(* the issue's file lock from its first read to its last save, saves what it *)
(* is about to do before it asks GitHub for it, and never asks again unless  *)
(* GitHub definitely refused.  GitHub has no idempotency key: a request      *)
(* whose answer was lost may still be served later.                          *)
(*                                                                           *)
(* One issue with one work set.  Its completion documents are a member of    *)
(* Docs; the body of comment n carries the random marker of request n, and   *)
(* comment 0 is one a person wrote.                                          *)
EXTENDS Naturals, Sequences, FiniteSets

CONSTANTS
  Sessions,    \* agent sessions that run "kander issue result" at the issue
  Docs,        \* contents of the completion documents (ResultWork.Digest)
  CommitsOf,   \* CommitsOf[d]: delivery commits named in d
  EvidenceOf,  \* EvidenceOf[d]: summary, criteria and report in d
  Grades,      \* assessments of the criteria; "resolved" is full resolution
  NoSession,   \* nobody holds the lock
  MaxRequests, \* bound: requests sent to GitHub
  MaxEvents    \* bound: edits of the documents, of comments and of the state

ASSUME IssueAssumption ==
  /\ CommitsOf \in [Docs -> Nat] /\ EvidenceOf \in [Docs -> Nat]
  /\ NoSession \notin Sessions
  /\ MaxRequests \in Nat /\ MaxEvents \in Nat

VARIABLES
  doc,      \* the completion documents as they are now
  issue,    \* GitHub: [comments, open, state]; state is the last open/close event
  requests, \* requests sent: number -> [kind, version, state, fate]
  store,    \* state.json: version -> record
  lock,     \* holder of the issue's lock file
  cmd,      \* cmd[s]: the command session s is running
  token,    \* token[s]: what session s last inspected (the digest it quotes)
  events    \* counter for MaxEvents

resultVars == <<doc, issue, requests, store, lock, cmd, token, events>>

\* resultVersion: what makes two results the same.
Versions == [commits : {CommitsOf[d] : d \in Docs}, grade : Grades]
VersionOf(d, g) == [commits |-> CommitsOf[d], grade |-> g]

NoObservation == [doc |-> 0, issue |-> 0]
Idle == [at |-> "idle"]

ResultInit ==
  /\ doc \in Docs
  /\ issue = [comments |-> {}, open |-> TRUE, state |-> 0]
  /\ requests = <<>>
  /\ store = [v \in {} |-> 0]
  /\ lock = NoSession
  /\ cmd = [s \in Sessions |-> Idle]
  /\ token = [s \in Sessions |-> NoObservation]
  /\ events = 0

-----------------------------------------------------------------------------
(* The world: people and GitHub.                                             *)

Happens == events < MaxEvents /\ events' = events + 1

EditDocs(d) ==
  /\ Happens /\ d # doc /\ doc' = d
  /\ UNCHANGED <<issue, requests, store, lock, cmd, token>>

\* Somebody writes comment 0, or deletes some comment.
Comment ==
  /\ Happens /\ issue' = [issue EXCEPT !.comments = @ \cup {0}]
  /\ UNCHANGED <<doc, requests, store, lock, cmd, token>>
Uncomment(n) ==
  /\ Happens /\ n \in issue.comments
  /\ issue' = [issue EXCEPT !.comments = @ \ {n}]
  /\ UNCHANGED <<doc, requests, store, lock, cmd, token>>

\* Somebody closes or reopens the issue.
Flip ==
  /\ Happens
  /\ issue' = [issue EXCEPT !.open = ~@, !.state = @ + 1]
  /\ UNCHANGED <<doc, requests, store, lock, cmd, token>>

\* GitHub serves a request, whether or not anybody still waits for it.
Serve(n) ==
  /\ requests[n].fate = "sent"
  /\ requests' = [requests EXCEPT ![n].fate = "served"]
  /\ issue' = IF requests[n].kind = "post"
                THEN [issue EXCEPT !.comments = @ \cup {n}]
              ELSE [issue EXCEPT !.open = FALSE,
                                 !.state = IF issue.open THEN @ + 1 ELSE @]
  /\ UNCHANGED <<doc, store, lock, cmd, token, events>>

\* GitHub refuses it with a status that proves it had no effect.
Refuse(n) ==
  /\ requests[n].fate = "sent"
  /\ requests' = [requests EXCEPT ![n].fate = "refused"]
  /\ UNCHANGED <<doc, issue, store, lock, cmd, token, events>>

-----------------------------------------------------------------------------
(* A command under the issue's lock.                                         *)

\* withResultStore and the first half of readResult: lock, read the store, the
\* documents and the issue.
Enter(s) ==
  /\ cmd[s] = Idle /\ lock = NoSession
  /\ lock' = s
  /\ cmd' = [cmd EXCEPT ![s] =
               [at |-> "read", work |-> doc, seen |-> issue, store |-> store]]
  /\ UNCHANGED <<doc, issue, requests, store, token, events>>

\* Every way out but the ones below: an error, a lost answer, the end of the
\* process.  The lock goes, the store stays as it was last saved.
Leave(s) ==
  /\ cmd[s] # Idle
  /\ cmd' = [cmd EXCEPT ![s] = Idle] /\ lock' = NoSession
  /\ UNCHANGED <<doc, issue, requests, store, token, events>>

\* The documents are read again after the network.
Current(s) == cmd[s].at = "read" /\ doc = cmd[s].work

SaveAndLeave(s, records) ==
  /\ store' = records /\ lock' = NoSession
  /\ cmd' = [cmd EXCEPT ![s] = Idle]

\* The token an assessment quotes is that of the observation made now.
Quoted(s) == token[s] = [doc |-> cmd[s].work, issue |-> cmd[s].seen]

With(records, v, r) == [x \in DOMAIN records \cup {v} |->
                          IF x = v THEN r ELSE records[x]]

\* InspectResult.  An uncertain comment that is there was published; one that
\* is not there stays uncertain.  Likewise a close.
Settle(r, seen) ==
  [r EXCEPT !.status = IF @ = "uncertain" /\ r.body \in seen.comments
                         THEN "published" ELSE @,
            !.decisions = [i \in DOMAIN @ |->
               IF @[i].status # "uncertain" THEN @[i]
               ELSE IF ~seen.open THEN [@[i] EXCEPT !.status = "observed-closed"]
               ELSE IF seen.state # @[i].state THEN [@[i] EXCEPT !.status = "superseded"]
               ELSE @[i]]]

InspectResult(s) ==
  /\ Current(s)
  /\ SaveAndLeave(s, [v \in DOMAIN cmd[s].store |-> Settle(cmd[s].store[v], cmd[s].seen)])
  /\ token' = [token EXCEPT ![s] = [doc |-> cmd[s].work, issue |-> cmd[s].seen]]
  /\ UNCHANGED <<doc, issue, requests, events>>

\* ApplyResult: what stands in the way of a publication.
Unsettled(records) == \E v \in DOMAIN records : records[v].status = "uncertain"
OnRecord(records, v) == v \in DOMAIN records /\ records[v].status # "rejected"
EvidenceUsed(records, d) ==
  \E v \in DOMAIN records :
    /\ records[v].status \in {"published", "equivalent"}
    /\ records[v].evidence = EvidenceOf[d] /\ v.commits = CommitsOf[d]

NewRecord(d, g, status, body) ==
  [status |-> status, body |-> body, digest |-> d, evidence |-> EvidenceOf[d],
   decisions |-> <<>>]

Assessing(s) == Current(s) /\ Quoted(s) /\ ~Unsettled(cmd[s].store)

\* The result is published already: only the assessment is brought up to date.
Reassess(s, g) ==
  LET v == VersionOf(cmd[s].work, g)  records == cmd[s].store IN
  /\ Assessing(s) /\ OnRecord(records, v)
  /\ SaveAndLeave(s, [records EXCEPT ![v].digest = cmd[s].work,
                                     ![v].evidence = EvidenceOf[cmd[s].work]])
  /\ UNCHANGED <<doc, issue, requests, token, events>>

\* A comment that is there already says the same.
Adopt(s, g, n) ==
  LET v == VersionOf(cmd[s].work, g)  records == cmd[s].store IN
  /\ Assessing(s) /\ ~OnRecord(records, v) /\ n \in cmd[s].seen.comments
  /\ SaveAndLeave(s, With(records, v, NewRecord(cmd[s].work, g, "equivalent", n)))
  /\ UNCHANGED <<doc, issue, requests, token, events>>

\* Slip: the intent is only saved with the answer.
Intend_AfterPost(s, v, r) ==
  /\ UNCHANGED store
  /\ cmd' = [cmd EXCEPT ![s] = [at |-> "intent", kind |-> "post", version |-> v,
                                store |-> With(@.store, v, r), state |-> @.seen.state]]
\* The intent is saved first; its body is the one the request will carry.
Intend(s, v, r) ==
  /\ store' = With(cmd[s].store, v, r)
  /\ cmd' = [cmd EXCEPT ![s] = [at |-> "intent", kind |-> "post", version |-> v,
                                store |-> store', state |-> @.seen.state]]

ProposePost(s, g) ==
  LET v == VersionOf(cmd[s].work, g) IN
  /\ Assessing(s) /\ ~OnRecord(cmd[s].store, v) /\ ~EvidenceUsed(cmd[s].store, cmd[s].work)
  /\ Len(requests) < MaxRequests
  /\ Intend(s, v, NewRecord(cmd[s].work, g, "uncertain", Len(requests) + 1))
  /\ UNCHANGED <<doc, issue, requests, lock, token, events>>

\* DecideResult: consent is asked for a published, fully resolved, current
\* result of an open issue, at the state of the issue that was shown.
Decidable(s, v) ==
  /\ Current(s) /\ Quoted(s) /\ cmd[s].seen.open
  /\ v \in DOMAIN cmd[s].store /\ v.grade = "resolved"
  /\ cmd[s].store[v].status \in {"published", "equivalent"}
  /\ cmd[s].store[v].digest = cmd[s].work

\* An earlier decision about this state of the issue that forbids this one.
Binding(d, again) ==
  \/ d.status = "uncertain"
  \/ d.answer = "no" /\ ~again
  \/ d.answer = "yes" /\ ~(d.status = "rejected" /\ again)

Decide(s, v, answer, again) ==
  LET r == cmd[s].store[v]
      made == [state |-> cmd[s].seen.state, answer |-> answer,
               status |-> IF answer = "yes" THEN "uncertain" ELSE "declined"]
      records == [cmd[s].store EXCEPT ![v].decisions = Append(@, made)]
  IN
  /\ Decidable(s, v)
  /\ \A i \in DOMAIN r.decisions :
       r.decisions[i].state = cmd[s].seen.state => ~Binding(r.decisions[i], again)
  /\ Len(r.decisions) < MaxRequests
  /\ IF answer = "no" THEN SaveAndLeave(s, records)
     ELSE /\ Len(requests) < MaxRequests
          /\ store' = records /\ UNCHANGED lock
          /\ cmd' = [cmd EXCEPT ![s] = [at |-> "intent", kind |-> "close", version |-> v,
                                        store |-> records, state |-> @.seen.state]]
  /\ UNCHANGED <<doc, issue, requests, token, events>>

\* PostResult or CloseResult: one attempt.
Send(s) ==
  /\ cmd[s].at = "intent"
  /\ requests' = Append(requests, [kind |-> cmd[s].kind, version |-> cmd[s].version,
                                   state |-> cmd[s].state, fate |-> "sent"])
  /\ cmd' = [cmd EXCEPT ![s] = [at |-> "sent", kind |-> @.kind, version |-> @.version,
                                store |-> @.store, request |-> Len(requests) + 1]]
  /\ UNCHANGED <<doc, issue, store, lock, token, events>>

\* The answer arrives and is saved; a transport failure is a Leave.
Answered(s, good, bad) ==
  LET fate == requests[cmd[s].request].fate IN
  CASE fate = "served" -> good [] fate = "refused" -> bad

Answer(s) ==
  /\ cmd[s].at = "sent" /\ requests[cmd[s].request].fate # "sent"
  /\ LET v == cmd[s].version  records == cmd[s].store IN
     SaveAndLeave(s,
       IF cmd[s].kind = "post"
         THEN [records EXCEPT ![v].status = Answered(s, "published", "rejected")]
         ELSE [records EXCEPT ![v].decisions[Len(records[v].decisions)].status =
                                Answered(s, "closed", "rejected")])
  /\ UNCHANGED <<doc, issue, requests, token, events>>

ResultNext ==
  \/ \E d \in Docs : EditDocs(d)
  \/ Comment \/ Flip
  \/ \E n \in 0 .. MaxRequests : Uncomment(n)
  \/ \E n \in DOMAIN requests : Serve(n) \/ Refuse(n)
  \/ \E s \in Sessions :
       \/ Enter(s) \/ Leave(s) \/ InspectResult(s) \/ Send(s) \/ Answer(s)
       \/ \E g \in Grades : Reassess(s, g) \/ ProposePost(s, g)
       \/ \E g \in Grades, n \in 0 .. MaxRequests : Adopt(s, g, n)
       \/ \E v \in Versions, answer \in {"yes", "no"}, again \in BOOLEAN :
            Decide(s, v, answer, again)

ResultSpec == ResultInit /\ [][ResultNext]_resultVars

-----------------------------------------------------------------------------
(* GitHub is asked again for the same thing only after it refused: for one   *)
(* result version at most one comment is ever accepted or still may be, and  *)
(* for one result and one state of the issue at most one close, whatever     *)
(* processes die, whatever answers are lost or late, and whoever edits the   *)
(* documents or deletes comments meanwhile (ApplyResult, DecideResult).      *)
Refused(n) == requests[n].fate = "refused"
SameThing(m, n) ==
  /\ requests[m].kind = requests[n].kind
  /\ requests[m].version = requests[n].version
  /\ requests[m].kind = "close" => requests[m].state = requests[n].state

AskedOnce ==
  \A m, n \in DOMAIN requests :
    SameThing(m, n) /\ ~Refused(m) /\ ~Refused(n) => m = n
=============================================================================
