----------------------------- MODULE IssueImport -----------------------------
(* Import of GitHub issues as backlog cards (internal/issue/import.go and    *)
(* internal/board/import.go).  The fast path looks for a card of the issue   *)
(* without the board lock; the issue is then fetched, which takes as long as *)
(* the network does; and the card is published in one transaction under the  *)
(* exclusive board lock, which looks again.  The transaction is one step     *)
(* here: that it is one is the business of CardTransactions.                 *)
EXTENDS Naturals

CONSTANTS
  Importers,  \* processes: command line, terminal interface
  Sources,    \* issues that are imported (source keys)
  Slug,       \* the readable task ID they share
  MaxRemoved  \* bound: cards taken away or damaged by hand

ASSUME ImportAssumption == Slug \notin Sources

VARIABLES
  imports,  \* imported cards: task ID -> [source, readable]
  taken,    \* task IDs of other cards on the board, and blocked ones
  import,   \* import[p]: [at, source] of the import process p runs
  returned, \* ghost: source -> task IDs returned since a card of it was lost
  removed   \* counter for MaxRemoved

importVars == <<imports, taken, import, returned, removed>>

NoImport == [at |-> "idle"]
Ids == {Slug} \cup Sources  \* importHash(source) makes the alternative unique

ImportInit ==
  /\ imports = [id \in {} |-> 0]
  /\ taken \in SUBSET {Slug}
  /\ import = [p \in Importers |-> NoImport]
  /\ returned = [s \in Sources |-> {}]
  /\ removed = 0

\* LoadIndex: only a readable binding counts.
Indexed(s) == {id \in DOMAIN imports : imports[id].source = s /\ imports[id].readable}

Returns(p, s, id) ==
  /\ returned' = [returned EXCEPT ![s] = @ \cup {id}]
  /\ import' = [import EXCEPT ![p] = NoImport]

\* Import, up to GetIssue.
FastPath(p, s) ==
  /\ import[p] = NoImport
  /\ IF Indexed(s) # {}
       THEN \E id \in Indexed(s) : Returns(p, s, id)
       ELSE /\ import' = [import EXCEPT ![p] = [at |-> "fetching", source |-> s]]
            /\ UNCHANGED returned
  /\ UNCHANGED <<imports, taken, removed>>

\* The fetch fails, or the process ends, before the transaction.
GiveUpImport(p) ==
  /\ import[p] # NoImport
  /\ import' = [import EXCEPT ![p] = NoImport]
  /\ UNCHANGED <<imports, taken, returned, removed>>

\* findImportedCard: an attachment that cannot be decoded stops the import, as
\* long as no readable card of the issue comes before it.
\* Slip: what the fast path saw is good enough.
Existing_FastPath(s) == {}
Existing(s) == Indexed(s)
Undecodable == \E id \in DOMAIN imports : ~imports[id].readable

FreeIds == Ids \ (DOMAIN imports \cup taken)
\* importTaskID: the readable ID first.
NewId(s) == IF Slug \in FreeIds THEN {Slug} ELSE {s} \cap FreeIds

ImportTask(p) ==
  LET s == import[p].source IN
  /\ import[p] # NoImport
  /\ \/ /\ \E id \in Existing(s) : Returns(p, s, id)
        /\ UNCHANGED imports
     \/ /\ Existing(s) = {} /\ ~Undecodable
        /\ \E id \in NewId(s) :
             /\ imports' = [x \in DOMAIN imports \cup {id} |->
                  IF x = id THEN [source |-> s, readable |-> TRUE] ELSE imports[x]]
             /\ Returns(p, s, id)
  /\ UNCHANGED <<taken, removed>>

\* Somebody deletes an imported card, or damages its attachment.
LoseCard(id) ==
  /\ removed < MaxRemoved /\ removed' = removed + 1
  /\ imports' = [x \in DOMAIN imports \ {id} |-> imports[x]]
  /\ returned' = [returned EXCEPT ![imports[id].source] = {}]
  /\ UNCHANGED <<taken, import>>
DamageCard(id) ==
  /\ removed < MaxRemoved /\ removed' = removed + 1
  /\ imports' = [imports EXCEPT ![id].readable = FALSE]
  /\ UNCHANGED <<taken, import, returned>>

ImportNext ==
  \/ \E p \in Importers, s \in Sources : FastPath(p, s)
  \/ \E p \in Importers : GiveUpImport(p) \/ ImportTask(p)
  \/ \E id \in DOMAIN imports : LoseCard(id) \/ DamageCard(id)

ImportSpec == ImportInit /\ [][ImportNext]_importVars

-----------------------------------------------------------------------------
(* An issue has one card: all imports of it return the same card as long as  *)
(* nobody deletes that card, however many of them were waiting for the       *)
(* network together, and a damaged attachment never leads to a second card   *)
(* (ImportTask, findImportedCard).                                           *)
OneCardPerIssue ==
  \A s \in Sources :
    /\ \A a, b \in DOMAIN imports :
         imports[a].source = s /\ imports[b].source = s => a = b
    /\ \A a, b \in returned[s] : a = b
=============================================================================
