----------------------------- MODULE Migration -----------------------------
(* "kander init" turns cards that are single files into directories          *)
(* (internal/board: migration.go, migration_write.go) as one journal record  *)
(* whose steps can be repeated after an interruption anywhere, under the     *)
(* exclusive board lock; and the retention of committed records              *)
(* (journal_retention.go), which must not remove the record that the staging *)
(* directory left behind belongs to.                                         *)
(*                                                                           *)
(* A text is "before" (the card as it was planned), "after" (as it is to     *)
(* be), "part" (a proper beginning of "after"), "mixed" (neither) or "other" *)
(* (what an editor saved after the plan was made).                           *)
EXTENDS Naturals

CONSTANTS
  FormCards,  \* the cards in file form
  Keep,       \* committedJournalRetention
  MaxOps,     \* bound: records other commands commit
  MaxStops,   \* bound: interruptions
  MaxSaves    \* bound: saves of an editor

ASSUME MigrationAssumption == Keep \in Nat /\ MaxStops \in Nat /\ MaxSaves \in Nat

VARIABLES
  source,   \* source[c]: the file <task>.md, or "none"
  stage,    \* stage[c]: the staging directory: names -> texts, or NoStage
  target,   \* target[c]: spec.md in the card's directory, or "none"
  parent,   \* .kander/migrations/<operation> exists
  record,   \* the record: "none", "prepared", "phase" (committed, not yet moved), "committed"
  journal,  \* the record's place in the committed directory: {n} if n records
            \*   are newer, {} if it is not there
  formAt,    \* where the command is
  left,     \* cards the command has still to do
  who,      \* the card it is at
  found,    \* what the command read of that card
  counts,   \* [ops, stops, saves], counters for the bounds
  refused,  \* ghost: a command met a state it refuses
  saved     \* ghost, saved[c]: the text an author saved last

formFiles   == <<source, stage, target, parent>>
formCommand == <<formAt, left, who, found>>
formVars    == <<formFiles, record, journal, formCommand, counts, refused, saved>>

NoStage == [there |-> FALSE, spec |-> "none", rewrite |-> "none", original |-> "none"]
Empty == [NoStage EXCEPT !.there = TRUE]
NothingFound == [source |-> FALSE, spec |-> FALSE, output |-> "none"]

MigrationInit ==
  /\ source = [c \in FormCards |-> "before"]
  /\ stage = [c \in FormCards |-> NoStage]
  /\ target = [c \in FormCards |-> "none"]
  /\ parent = FALSE /\ record = "none" /\ journal = {}
  /\ formAt = "idle" /\ left = {} /\ found = NothingFound
  /\ who = CHOOSE c \in FormCards : TRUE
  /\ counts = [ops |-> 0, stops |-> 0, saves |-> 0]
  /\ refused = FALSE
  /\ saved = [c \in FormCards |-> "before"]

-----------------------------------------------------------------------------
(* Retention.                                                                *)

\* Slip: only the age of a record counts.
Pinned_Never == FALSE
\* The staging directory of its name pins the record.
Pinned == parent

\* pruneCommitted: the newest stay, and the pinned ones.
Pruned(j) == {n \in j : n < Keep \/ Pinned}

\* Another command commits its record; cards of the migration are refused to it.
OtherCommits ==
  /\ formAt = "idle" /\ counts.ops < MaxOps
  /\ counts' = [counts EXCEPT !.ops = @ + 1]
  /\ journal' = Pruned({n + 1 : n \in journal})
  /\ UNCHANGED <<formFiles, record, formCommand, refused, saved>>

-----------------------------------------------------------------------------
(* The command.                                                              *)

Goto(place) == formAt' = place
Conflict == formAt' = "idle" /\ refused' = TRUE

\* MigrateCards without a record: plans all cards and writes the record.
PlanMigration ==
  /\ formAt = "idle" /\ record = "none"
  /\ record' = "prepared" /\ left' = FormCards /\ Goto("check")
  /\ UNCHANGED <<formFiles, journal, who, found, counts, refused, saved>>

\* validateMigrationStaging.
RecordKnown == record \in {"prepared", "phase"} \/ journal # {}
StagingValid ==
  /\ parent => RecordKnown
  /\ (\E c \in FormCards : stage[c].there) => record = "prepared"

\* recoverMigrationRecords: a prepared record is applied, one that is committed
\* but was not moved is moved.
RecoverMigration ==
  /\ formAt = "idle" /\ record # "none"
  /\ IF ~StagingValid THEN Conflict /\ UNCHANGED <<record, journal, left>>
     ELSE IF record = "prepared"
       THEN left' = FormCards /\ Goto("check") /\ UNCHANGED <<record, journal, refused>>
     ELSE /\ record' = "committed"
          /\ journal' = Pruned(IF record = "phase" THEN {0} ELSE journal)
          /\ UNCHANGED <<formAt, left, refused>>
  /\ UNCHANGED <<formFiles, who, found, counts, saved>>

\* applyMigration, up to the staging directory.
Check(c) ==
  /\ formAt = "check" /\ c \in left
  /\ IF target[c] # "none"
       THEN IF source[c] # "none" \/ stage[c].there \/ target[c] # "after"
              THEN Conflict /\ UNCHANGED <<parent, left, who, found>>
              ELSE left' = left \ {c} /\ UNCHANGED <<parent, formAt, who, found, refused>>
     ELSE IF source[c] \notin {"none", "before"} \/ (source[c] = "none" /\ ~stage[c].there)
       THEN Conflict /\ UNCHANGED <<parent, left, who, found>>
     ELSE /\ parent' = TRUE /\ who' = c /\ Goto("stage")
          /\ found' = [NothingFound EXCEPT !.source = source[c] # "none"]
          /\ UNCHANGED <<left, refused>>
  /\ UNCHANGED <<source, stage, target, record, journal, counts, saved>>

MakeStage ==
  /\ formAt = "stage"
  /\ stage' = [stage EXCEPT ![who] = IF @.there THEN @ ELSE Empty]
  /\ Goto("source")
  /\ UNCHANGED <<source, target, parent, record, journal, left, who, found, counts,
                 refused, saved>>

TakeSource ==
  /\ formAt = "source"
  /\ IF ~found.source THEN Goto("inspect") /\ UNCHANGED <<source, stage, refused>>
     ELSE IF stage[who] # Empty THEN Conflict /\ UNCHANGED <<source, stage>>
     ELSE /\ stage' = [stage EXCEPT ![who].spec = source[who]]
          /\ source' = [source EXCEPT ![who] = "none"]
          /\ Goto("inspect") /\ UNCHANGED refused
  /\ UNCHANGED <<target, parent, record, journal, left, who, found, counts, saved>>

\* rewriteMigrationDocument: what is there, and what of it is refused.
Written == stage[who].spec = "after"
Rewritable ==
  LET s == stage[who] IN
  /\ s.original \in {"none", "before"}
  /\ IF Written THEN s.rewrite = "none"
     ELSE /\ IF s.spec = "none" THEN s.original = "before"
                                ELSE s.spec = "before" /\ s.original = "none"
          /\ s.rewrite \in {"none", "part", "after"}

Inspect ==
  /\ formAt = "inspect"
  /\ IF ~Rewritable THEN Conflict /\ UNCHANGED found
     ELSE /\ found' = [found EXCEPT !.spec = stage[who].spec # "none",
                                    !.output = stage[who].rewrite]
          /\ Goto(IF Written THEN "clean" ELSE "append") /\ UNCHANGED refused
  /\ UNCHANGED <<formFiles, record, journal, left, who, counts, saved>>

\* Slip: the whole text is appended to what an interrupted write left.
Appended_Whole(output) == IF output = "none" THEN "after" ELSE "mixed"
\* The rest is appended to what an interrupted write left.
Appended(output) == "after"

\* The write is interrupted, or it ends.
AppendPart ==
  /\ formAt = "append" /\ stage[who].rewrite = "none"
  /\ stage' = [stage EXCEPT ![who].rewrite = "part"]
  /\ UNCHANGED <<source, target, parent, record, journal, formCommand, counts,
                 refused, saved>>
AppendAll ==
  /\ formAt = "append"
  /\ stage' = [stage EXCEPT ![who].rewrite = Appended(found.output)]
  /\ Goto("save")
  /\ UNCHANGED <<source, target, parent, record, journal, left, who, found, counts,
                 refused, saved>>

SaveOriginal ==
  /\ formAt = "save"
  /\ stage' = IF found.spec
                THEN [stage EXCEPT ![who].original = stage[who].spec, ![who].spec = "none"]
                ELSE stage
  /\ Goto("swap")
  /\ UNCHANGED <<source, target, parent, record, journal, left, who, found, counts,
                 refused, saved>>

Swap ==
  /\ formAt = "swap"
  /\ stage' = [stage EXCEPT ![who].spec = stage[who].rewrite, ![who].rewrite = "none"]
  /\ Goto("clean")
  /\ UNCHANGED <<source, target, parent, record, journal, left, who, found, counts,
                 refused, saved>>

RemoveOriginal ==
  /\ formAt = "clean"
  /\ stage' = [stage EXCEPT ![who].original = "none"]
  /\ Goto("move")
  /\ UNCHANGED <<source, target, parent, record, journal, left, who, found, counts,
                 refused, saved>>

PublishCard ==
  /\ formAt = "move"
  /\ target' = [target EXCEPT ![who] = stage[who].spec]
  /\ stage' = [stage EXCEPT ![who] = NoStage]
  /\ left' = left \ {who} /\ Goto("check")
  /\ UNCHANGED <<source, parent, record, journal, who, found, counts, refused, saved>>

\* commitOperation: the phase, and then the name.
CommitPhase ==
  /\ formAt = "check" /\ left = {}
  /\ record' = "phase" /\ Goto("commit")
  /\ UNCHANGED <<formFiles, journal, left, who, found, counts, refused, saved>>
CommitName ==
  /\ formAt = "commit"
  /\ record' = "committed" /\ journal' = Pruned({0}) /\ Goto("idle")
  /\ UNCHANGED <<formFiles, left, who, found, counts, refused, saved>>

-----------------------------------------------------------------------------
(* Faults: the command is interrupted; an editor saves the old file.         *)

StopMigration ==
  /\ formAt # "idle" /\ counts.stops < MaxStops
  /\ counts' = [counts EXCEPT !.stops = @ + 1]
  /\ Goto("idle")
  /\ UNCHANGED <<formFiles, record, journal, left, who, found, refused, saved>>

SaveSource(c) ==
  /\ record # "none" /\ counts.saves < MaxSaves
  /\ counts' = [counts EXCEPT !.saves = @ + 1]
  /\ source' = [source EXCEPT ![c] = "other"]
  /\ saved' = [saved EXCEPT ![c] = "other"]
  /\ UNCHANGED <<stage, target, parent, record, journal, formCommand, refused>>

MigrationNext ==
  \/ OtherCommits \/ PlanMigration \/ RecoverMigration
  \/ \E c \in FormCards : Check(c) \/ SaveSource(c)
  \/ MakeStage \/ TakeSource \/ Inspect \/ AppendPart \/ AppendAll \/ SaveOriginal
  \/ Swap \/ RemoveOriginal \/ PublishCard \/ CommitPhase \/ CommitName
  \/ StopMigration

MigrationSpec == MigrationInit /\ [][MigrationNext]_formVars

-----------------------------------------------------------------------------
(* What an author saved last is never lost: it is in the old file, in the    *)
(* staging directory or, rewritten, on the board; and what is on the board   *)
(* is the whole new text, however often a write of it was interrupted.       *)
Texts(c) == {source[c], stage[c].spec, stage[c].original, target[c]}
TextKept ==
  \A c \in FormCards :
    /\ saved[c] \in Texts(c) \/ (saved[c] = "before" /\ "after" \in Texts(c))
    /\ target[c] \in {"none", "after"}

(* Only an edit outside kander makes a recovery refuse: no interruption      *)
(* leaves files that applyMigration does not take up again, and retention    *)
(* never removes the record of a staging directory, which is left for good.  *)
OnlyEditsStop == refused => counts.saves > 0
=============================================================================
