---------------------------- MODULE ServiceProofs ----------------------------
(* Four services that keep files or views of the board: the migration of     *)
(* cards, the summary index, the screens and the configuration.  They share  *)
(* no state, and the sections of this module no lemma.                       *)
EXTENDS Migration, SummaryIndex, BoardView, ConfigEdits, TLAPS

-----------------------------------------------------------------------------
(* Migration: no author's text is lost and only whole texts get on the       *)
(* board, for any number of cards, interruptions and edits.                  *)
(*                                                                           *)
(* TextKept alone is not inductive: when the command removes the original it *)
(* relies on what it found two steps earlier.  CommandOK says what each      *)
(* place of the command may rely on about the card it is at; only the        *)
(* command changes a staging directory, so that stays true in between.       *)

Edited == {"before", "other"}
StageRec == [ there : BOOLEAN, spec : {"none", "before", "after", "other"},
              rewrite : {"none", "part", "after"}, original : {"none", "before"} ]
FoundRec == [source : BOOLEAN, spec : BOOLEAN, output : {"none", "part", "after"}]

FilesOK ==
  /\ source \in [FormCards -> {"none"} \cup Edited]
  /\ stage \in [FormCards -> StageRec]
  /\ target \in [FormCards -> {"none", "after"}]
  /\ saved \in [FormCards -> Edited]

\* What an author saved is where a later step still looks for it.
Kept(c) ==
  /\ stage[c].there \/ (stage[c].spec = "none" /\ stage[c].original = "none")
  /\ saved[c] = "other" => source[c] = "other" \/ stage[c].spec = "other"
  /\ saved[c] = "before" =>
       \/ source[c] = "before" \/ stage[c].spec \in {"before", "after"}
       \/ stage[c].original = "before" \/ target[c] = "after"

Unwritten(s) ==
  /\ s.spec \in {"none", "before"}
  /\ s.spec = "none" => s.original = "before"
  /\ found.spec = (s.spec # "none")

CommandOK ==
  /\ found \in FoundRec
  /\ formAt \notin {"idle", "check", "commit"} => who \in FormCards
  /\ formAt \notin {"idle", "check", "stage", "commit"} => stage[who].there
  /\ formAt = "append" => Unwritten(stage[who])
  /\ formAt = "save" => Unwritten(stage[who]) /\ stage[who].rewrite = "after"
  /\ formAt = "swap" => stage[who].spec = "none" /\ stage[who].rewrite = "after"
  /\ formAt \in {"clean", "move"} => stage[who].spec = "after"

FormInv == FilesOK /\ CommandOK /\ \A c \in FormCards : Kept(c)

-----------------------------------------------------------------------------
\* A step of the command between two of its interruptions changes one staging
\* directory, and nothing of the other cards.
LEMMA OneCard ==
  ASSUME FormInv, who \in FormCards, NEW s \in StageRec,
         stage' = [stage EXCEPT ![who] = s], UNCHANGED <<source, target, saved>>,
         s.there,
         saved[who] = "other" /\ stage[who].spec = "other" => s.spec = "other",
         saved[who] = "before" => s.spec \in {"before", "after"} \/ s.original = "before"
                                  \/ source[who] = "before" \/ target[who] = "after"
  PROVE  FilesOK' /\ \A c \in FormCards : Kept(c)'
  <1>1. stage'[who] = s /\ \A c \in FormCards : c # who => stage'[c] = stage[c]
    BY DEF FormInv, FilesOK
  <1>2. FilesOK'
    BY DEF FormInv, FilesOK
  <1>3. ASSUME NEW c \in FormCards PROVE Kept(c)'
    <2>1. CASE c = who
      BY <1>1, <2>1 DEF FormInv, Kept
    <2>2. CASE c # who
      BY <1>1, <2>2 DEF FormInv, Kept
    <2> QED BY <2>1, <2>2
  <1> QED BY <1>2, <1>3

\* What is left alone by a step that only moves the command.
LEMMA FilesStay ==
  ASSUME FormInv, UNCHANGED <<source, stage, target, saved>>
  PROVE  FilesOK' /\ \A c \in FormCards : Kept(c)'
  BY DEF FormInv, FilesOK, Kept

LEMMA Checks ==
  ASSUME FormInv, NEW c \in FormCards, Check(c)
  PROVE  FormInv'
  <1>1. UNCHANGED <<source, stage, target, saved>>
    BY DEF Check
  <1>2. \/ formAt' \in {"idle", "check"} /\ found' = found
        \/ formAt' = "stage" /\ who' = c /\ \E b \in BOOLEAN : found' = [NothingFound EXCEPT !.source = b]
    BY DEF Check, Conflict, Goto
  <1>3. CommandOK'
    BY <1>2 DEF FormInv, CommandOK, NothingFound, FoundRec
  <1> QED BY <1>1, <1>3, FilesStay DEF FormInv

LEMMA Stages ==
  ASSUME FormInv, MakeStage
  PROVE  FormInv'
  <1> DEFINE s == IF stage[who].there THEN stage[who] ELSE Empty
  <1>1. who \in FormCards /\ stage[who] \in StageRec /\ Kept(who)
    BY DEF MakeStage, FormInv, CommandOK, FilesOK
  <1>2. stage' = [stage EXCEPT ![who] = s] /\ UNCHANGED <<source, target, saved, who, found>>
        /\ formAt' = "source"
    BY DEF MakeStage, Goto
  <1>3. s \in StageRec /\ s.there /\ s.spec = stage[who].spec /\ s.original = stage[who].original
    BY <1>1 DEF Empty, NoStage, StageRec, Kept
  <1> HIDE DEF s
  <1>4. stage'[who] = s
    BY <1>1, <1>2 DEF FormInv, FilesOK
  <1>5. CommandOK'
    BY <1>1, <1>2, <1>3, <1>4 DEF FormInv, CommandOK
  <1>6. FilesOK' /\ \A c \in FormCards : Kept(c)'
    BY <1>1, <1>2, <1>3, OneCard DEF Kept
  <1> QED BY <1>5, <1>6 DEF FormInv

LEMMA Takes ==
  ASSUME FormInv, TakeSource
  PROVE  FormInv'
  <1>1. who \in FormCards /\ stage[who] \in StageRec /\ Kept(who) /\ stage[who].there
    BY DEF TakeSource, FormInv, CommandOK, FilesOK
  <1>2. UNCHANGED <<target, saved, who, found>>
    BY DEF TakeSource
  <1>3. CASE UNCHANGED <<source, stage>>
    <2>1. formAt' \in {"inspect", "idle"}
      BY <1>3 DEF TakeSource, Goto, Conflict
    <2>2. CommandOK'
      BY <1>1, <1>2, <1>3, <2>1 DEF FormInv, CommandOK
    <2> QED BY <1>2, <1>3, <2>2, FilesStay DEF FormInv
  <1>4. CASE ~UNCHANGED <<source, stage>>
    <2>1. /\ stage[who] = Empty /\ formAt' = "inspect"
          /\ stage' = [stage EXCEPT ![who].spec = source[who]]
          /\ source' = [source EXCEPT ![who] = "none"]
      BY <1>4 DEF TakeSource, Goto, Conflict
    <2>2. source[who] \in {"none", "before", "other"}
      BY <1>1 DEF FormInv, FilesOK, Edited
    <2>3. /\ stage'[who].spec = source[who] /\ stage'[who].there /\ source'[who] = "none"
          /\ stage'[who].original = "none"
          /\ \A c \in FormCards : c # who => stage'[c] = stage[c] /\ source'[c] = source[c]
      BY <1>1, <2>1 DEF FormInv, FilesOK, Empty, NoStage, StageRec
    <2>4. stage[who].spec = "none" /\ stage[who].original = "none"
      BY <2>1 DEF Empty, NoStage
    <2>5. FilesOK'
      BY <1>1, <1>2, <2>1, <2>2 DEF FormInv, FilesOK, StageRec
    <2>6. ASSUME NEW c \in FormCards PROVE Kept(c)'
      <3>1. CASE c = who
        BY <1>1, <1>2, <2>2, <2>3, <2>4, <3>1 DEF Kept
      <3>2. CASE c # who
        BY <1>2, <2>3, <3>2 DEF Kept, FormInv
      <3> QED BY <3>1, <3>2
    <2>7. CommandOK'
      BY <1>1, <1>2, <2>1, <2>3 DEF FormInv, CommandOK
    <2> QED BY <2>5, <2>6, <2>7 DEF FormInv
  <1> QED BY <1>3, <1>4

LEMMA Inspects ==
  ASSUME FormInv, Inspect
  PROVE  FormInv'
  <1>1. who \in FormCards /\ stage[who] \in StageRec /\ stage[who].there
    BY DEF Inspect, FormInv, CommandOK, FilesOK
  <1>2. UNCHANGED <<source, stage, target, saved, who>>
    BY DEF Inspect, formFiles
  <1>3. \/ formAt' = "idle" /\ found' = found
        \/ /\ found' = [found EXCEPT !.spec = stage[who].spec # "none",
                                     !.output = stage[who].rewrite]
           /\ \/ formAt' = "clean" /\ stage[who].spec = "after"
              \/ /\ formAt' = "append"
                 /\ \/ stage[who].spec = "none" /\ stage[who].original = "before"
                    \/ stage[who].spec = "before"
    BY DEF Inspect, Conflict, Goto, Rewritable, Written
  <1>4. CommandOK'
    BY <1>1, <1>2, <1>3 DEF FormInv, CommandOK, FoundRec, StageRec, Unwritten
  <1> QED BY <1>2, <1>4, FilesStay DEF FormInv

LEMMA Appends ==
  ASSUME FormInv, AppendPart \/ AppendAll
  PROVE  FormInv'
  <1>1. who \in FormCards /\ stage[who] \in StageRec /\ Kept(who) /\ stage[who].there
        /\ Unwritten(stage[who])
    BY DEF AppendPart, AppendAll, FormInv, CommandOK, FilesOK
  <1>2. PICK t \in {"part", "after"} :
          /\ stage' = [stage EXCEPT ![who].rewrite = t]
          /\ formAt' = IF t = "after" THEN "save" ELSE "append"
          /\ UNCHANGED <<source, target, saved, who, found>>
    BY DEF AppendPart, AppendAll, Appended, Goto, formCommand
  <1> DEFINE s == [stage[who] EXCEPT !.rewrite = t]
  <1>3. s \in StageRec /\ s.there /\ s.spec = stage[who].spec /\ s.original = stage[who].original
        /\ s.rewrite = t
    BY <1>1 DEF StageRec
  <1>4. stage' = [stage EXCEPT ![who] = s]
    BY <1>1, <1>2 DEF FormInv, FilesOK
  <1> HIDE DEF s
  <1>5. stage'[who] = s
    BY <1>1, <1>4 DEF FormInv, FilesOK
  <1>6. CommandOK'
    BY <1>1, <1>2, <1>3, <1>5 DEF FormInv, CommandOK, Unwritten
  <1>7. FilesOK' /\ \A c \in FormCards : Kept(c)'
    BY <1>1, <1>2, <1>3, <1>4, OneCard DEF Kept
  <1> QED BY <1>6, <1>7 DEF FormInv

LEMMA Saves ==
  ASSUME FormInv, SaveOriginal
  PROVE  FormInv'
  <1>1. who \in FormCards /\ stage[who] \in StageRec /\ Kept(who) /\ stage[who].there
        /\ Unwritten(stage[who]) /\ stage[who].rewrite = "after"
    BY DEF SaveOriginal, FormInv, CommandOK, FilesOK
  <1>2. formAt' = "swap" /\ UNCHANGED <<source, target, saved, who, found>>
    BY DEF SaveOriginal, Goto
  <1> DEFINE s == [stage[who] EXCEPT !.original = "before", !.spec = "none"]
  <1>3. s \in StageRec /\ s.there /\ s.spec = "none" /\ s.original = "before" /\ s.rewrite = "after"
    BY <1>1 DEF StageRec
  <1>4. stage' = [stage EXCEPT ![who] = s]
    <2>1. CASE found.spec
      <3>1. stage[who].spec = "before"
        BY <1>1, <2>1 DEF Unwritten
      <3> QED BY <1>1, <2>1, <3>1 DEF SaveOriginal, FormInv, FilesOK
    <2>2. CASE ~found.spec
      <3>1. stage[who].spec = "none" /\ stage[who].original = "before" /\ stage' = stage
        BY <1>1, <2>2 DEF Unwritten, SaveOriginal
      <3>2. s = stage[who]
        BY <1>1, <3>1 DEF StageRec
      <3> QED BY <1>1, <3>1, <3>2 DEF FormInv, FilesOK
    <2> QED BY <2>1, <2>2
  <1> HIDE DEF s
  <1>5. stage'[who] = s
    BY <1>1, <1>4 DEF FormInv, FilesOK
  <1>6. CommandOK'
    BY <1>1, <1>2, <1>3, <1>5 DEF FormInv, CommandOK
  <1>7. FilesOK' /\ \A c \in FormCards : Kept(c)'
    BY <1>1, <1>2, <1>3, <1>4, OneCard DEF Unwritten
  <1> QED BY <1>6, <1>7 DEF FormInv

LEMMA Swaps ==
  ASSUME FormInv, Swap
  PROVE  FormInv'
  <1>1. who \in FormCards /\ stage[who] \in StageRec /\ stage[who].there
        /\ stage[who].spec = "none" /\ stage[who].rewrite = "after"
    BY DEF Swap, FormInv, CommandOK, FilesOK
  <1>2. formAt' = "clean" /\ UNCHANGED <<source, target, saved, who, found>>
    BY DEF Swap, Goto
  <1> DEFINE s == [stage[who] EXCEPT !.spec = "after", !.rewrite = "none"]
  <1>3. s \in StageRec /\ s.there /\ s.spec = "after"
    BY <1>1 DEF StageRec
  <1>4. stage' = [stage EXCEPT ![who] = s]
    BY <1>1 DEF Swap, FormInv, FilesOK
  <1> HIDE DEF s
  <1>5. stage'[who] = s
    BY <1>1, <1>4 DEF FormInv, FilesOK
  <1>6. CommandOK'
    BY <1>1, <1>2, <1>3, <1>5 DEF FormInv, CommandOK
  <1>7. FilesOK' /\ \A c \in FormCards : Kept(c)'
    BY <1>1, <1>2, <1>3, <1>4, OneCard
  <1> QED BY <1>6, <1>7 DEF FormInv

LEMMA Cleans ==
  ASSUME FormInv, RemoveOriginal
  PROVE  FormInv'
  <1>1. who \in FormCards /\ stage[who] \in StageRec /\ stage[who].there /\ stage[who].spec = "after"
    BY DEF RemoveOriginal, FormInv, CommandOK, FilesOK
  <1>2. formAt' = "move" /\ UNCHANGED <<source, target, saved, who, found>>
    BY DEF RemoveOriginal, Goto
  <1> DEFINE s == [stage[who] EXCEPT !.original = "none"]
  <1>3. s \in StageRec /\ s.there /\ s.spec = "after"
    BY <1>1 DEF StageRec
  <1>4. stage' = [stage EXCEPT ![who] = s]
    BY <1>1 DEF RemoveOriginal, FormInv, FilesOK
  <1> HIDE DEF s
  <1>5. stage'[who] = s
    BY <1>1, <1>4 DEF FormInv, FilesOK
  <1>6. CommandOK'
    BY <1>1, <1>2, <1>3, <1>5 DEF FormInv, CommandOK
  <1>7. FilesOK' /\ \A c \in FormCards : Kept(c)'
    BY <1>1, <1>2, <1>3, <1>4, OneCard
  <1> QED BY <1>6, <1>7 DEF FormInv

LEMMA PublishesCard ==
  ASSUME FormInv, PublishCard
  PROVE  FormInv'
  <1>1. who \in FormCards /\ stage[who].spec = "after" /\ Kept(who)
    BY DEF PublishCard, FormInv, CommandOK
  <1>2. /\ target' = [target EXCEPT ![who] = "after"] /\ stage' = [stage EXCEPT ![who] = NoStage]
        /\ formAt' = "check" /\ UNCHANGED <<source, saved, found>>
    BY <1>1 DEF PublishCard, Goto
  <1>3. NoStage \in StageRec /\ NoStage.spec = "none" /\ NoStage.original = "none"
    BY DEF NoStage, StageRec
  <1>4. /\ stage'[who] = NoStage /\ target'[who] = "after"
        /\ \A c \in FormCards : c # who => stage'[c] = stage[c] /\ target'[c] = target[c]
    BY <1>1, <1>2 DEF FormInv, FilesOK
  <1>5. FilesOK'
    BY <1>2, <1>3 DEF FormInv, FilesOK
  <1>6. ASSUME NEW c \in FormCards PROVE Kept(c)'
    <2>1. CASE c = who
      BY <1>1, <1>2, <1>3, <1>4, <2>1 DEF Kept
    <2>2. CASE c # who
      BY <1>2, <1>4, <2>2 DEF Kept, FormInv
    <2> QED BY <2>1, <2>2
  <1>7. CommandOK'
    BY <1>2 DEF FormInv, CommandOK
  <1> QED BY <1>5, <1>6, <1>7 DEF FormInv

\* An editor's save is of the old file; what the command is at stays as it is.
LEMMA SavesSource ==
  ASSUME FormInv, NEW c \in FormCards, SaveSource(c)
  PROVE  FormInv'
  <1>1. /\ source' = [source EXCEPT ![c] = "other"] /\ saved' = [saved EXCEPT ![c] = "other"]
        /\ UNCHANGED <<stage, target, formAt, who, found>>
    BY DEF SaveSource, formCommand
  <1>2. FilesOK'
    BY <1>1 DEF FormInv, FilesOK, Edited
  <1>3. ASSUME NEW d \in FormCards PROVE Kept(d)'
    <2>1. CASE d = c
      BY <1>1, <2>1 DEF FormInv, FilesOK, Kept
    <2>2. CASE d # c
      BY <1>1, <2>2 DEF FormInv, FilesOK, Kept
    <2> QED BY <2>1, <2>2
  <1>4. CommandOK'
    BY <1>1 DEF FormInv, CommandOK, Unwritten
  <1> QED BY <1>2, <1>3, <1>4 DEF FormInv

\* The steps that change no file of a card.
LEMMA OtherSteps ==
  ASSUME FormInv,
         \/ OtherCommits \/ PlanMigration \/ RecoverMigration \/ CommitPhase \/ CommitName
         \/ StopMigration
  PROVE  FormInv'
  <1>1. UNCHANGED <<source, stage, target, saved, found>>
    BY DEF OtherCommits, PlanMigration, RecoverMigration, CommitPhase, CommitName, StopMigration,
       formFiles, formCommand
  <1>2. formAt' \in {"idle", "check", "commit"}
    BY DEF OtherCommits, PlanMigration, RecoverMigration, CommitPhase, CommitName, StopMigration,
       Goto, Conflict, formCommand
  <1>3. CommandOK'
    BY <1>1, <1>2 DEF FormInv, CommandOK
  <1> QED BY <1>1, <1>3, FilesStay DEF FormInv

LEMMA FormInvInit == MigrationInit => FormInv
  <1> SUFFICES ASSUME MigrationInit PROVE FormInv
    OBVIOUS
  <1>1. NoStage \in StageRec /\ NoStage.spec = "none" /\ NoStage.original = "none"
    BY DEF NoStage, StageRec
  <1>2. FilesOK /\ \A c \in FormCards : Kept(c)
    BY <1>1 DEF MigrationInit, FilesOK, Kept, Edited
  <1>3. CommandOK
    BY DEF MigrationInit, CommandOK, NothingFound, FoundRec
  <1> QED BY <1>2, <1>3 DEF FormInv

LEMMA FormInvNext == FormInv /\ [MigrationNext]_formVars => FormInv'
  <1> SUFFICES ASSUME FormInv, [MigrationNext]_formVars PROVE FormInv'
    OBVIOUS
  <1>1. CASE MigrationNext
    BY <1>1, Checks, SavesSource, Stages, Takes, Inspects, Appends, Saves, Swaps, Cleans,
       PublishesCard, OtherSteps DEF MigrationNext
  <1>2. CASE UNCHANGED formVars
    <2>1. UNCHANGED <<source, stage, target, saved, formAt, who, found>>
      BY <1>2 DEF formVars, formFiles, formCommand
    <2>2. CommandOK'
      BY <2>1 DEF FormInv, CommandOK, Unwritten
    <2> QED BY <2>1, <2>2, FilesStay DEF FormInv
  <1> QED BY <1>1, <1>2

-----------------------------------------------------------------------------
\* However often a migration is interrupted, and whatever an editor saves
\* meanwhile, the text an author saved last is in the old file, in the staging
\* directory or, rewritten, on the board; and only whole texts get there
\* (applyMigration, rewriteMigrationDocument).
THEOREM NoTextLost == MigrationSpec => []TextKept
  <1>1. FormInv => TextKept
    <2> SUFFICES ASSUME FormInv, NEW c \in FormCards
                 PROVE  /\ saved[c] \in Texts(c) \/ (saved[c] = "before" /\ "after" \in Texts(c))
                        /\ target[c] \in {"none", "after"}
      BY DEF TextKept
    <2>1. saved[c] \in {"before", "other"} /\ target[c] \in {"none", "after"} /\ Kept(c)
      BY DEF FormInv, FilesOK, Edited
    <2> QED BY <2>1 DEF Kept, Texts
  <1> QED BY <1>1, FormInvInit, FormInvNext, PTL DEF MigrationSpec

-----------------------------------------------------------------------------
(* Without edits from outside, every card is at one of the states through    *)
(* which applyMigration takes it, the record is there as long as a staging   *)
(* directory is, and retention keeps it for as long as the directory is left *)
(* behind: so there is nothing for a recovery to refuse.                     *)

Untouched(c) == source[c] = "before" /\ stage[c] \in {NoStage, Empty} /\ target[c] = "none"
InStage(s) ==
  /\ s.there
  /\ \/ s.spec = "before" /\ s.original = "none"
     \/ s.spec = "none" /\ s.original = "before" /\ s.rewrite = "after"
     \/ s.spec = "after" /\ s.rewrite = "none"
Moving(c) == source[c] = "none" /\ InStage(stage[c]) /\ target[c] = "none"
Moved(c) == source[c] = "none" /\ stage[c] = NoStage /\ target[c] = "after"

RecordOK ==
  /\ record \in {"none", "prepared", "phase", "committed"}
  /\ record = "none" => ~parent
  /\ record # "prepared" => \A c \in FormCards : ~stage[c].there
  /\ record = "committed" /\ parent => journal # {}

PlaceOK ==
  /\ formAt \notin {"idle", "commit"} =>
       record = "prepared" /\ \A c \in FormCards : c \in left \/ Moved(c)
  /\ formAt = "commit" => record = "phase"
  /\ formAt = "stage" => IF found.source THEN Untouched(who) ELSE Moving(who)
  /\ formAt = "source" =>
       IF found.source THEN Untouched(who) /\ stage[who] = Empty ELSE Moving(who)
  /\ formAt \in {"inspect", "append", "save", "swap", "clean", "move"} => Moving(who)

Intact ==
  /\ ~refused /\ RecordOK /\ PlaceOK
  /\ \A c \in FormCards : Untouched(c) \/ Moving(c) \/ Moved(c)

CountsOK == counts \in [ops : Nat, stops : Nat, saves : Nat]
NoEdits == CountsOK /\ (counts.saves = 0 => Intact)

LEMMA IntactInit == MigrationInit => NoEdits
  BY DEF MigrationInit, NoEdits, CountsOK, Intact, RecordOK, PlaceOK, Untouched, NoStage

\* A step of the command at one card.
LEMMA IntactStep ==
  ASSUME FormInv, Intact, formAt \notin {"idle", "check", "commit"}, UNCHANGED <<parent, record, journal, who>>,
         ~refused', left' \subseteq left, left \ left' \subseteq {who},
         \A c \in FormCards \ {who} : source'[c] = source[c] /\ stage'[c] = stage[c] /\ target'[c] = target[c],
         Untouched(who)' \/ Moving(who)' \/ Moved(who)', PlaceOK'
  PROVE  Intact'
  <1>1. record = "prepared" /\ RecordOK' /\ who \in FormCards
    BY DEF Intact, RecordOK, PlaceOK, FormInv, CommandOK
  <1>2. \A c \in FormCards : Untouched(c)' \/ Moving(c)' \/ Moved(c)'
    BY <1>1 DEF Intact, Untouched, Moving, Moved
  <1> QED BY <1>1, <1>2 DEF Intact

LEMMA StageFields ==
  /\ ~NoStage.there /\ Empty.there /\ Empty.spec = "none" /\ Empty.original = "none"
  /\ NoStage.spec = "none" /\ Empty # NoStage
  BY DEF NoStage, Empty

LEMMA IntactChecks ==
  ASSUME FormInv, Intact, NEW c \in FormCards, Check(c)
  PROVE  Intact'
  <1>1. formAt = "check" /\ record = "prepared" /\ UNCHANGED <<source, stage, target, record, journal>>
    BY DEF Check, Intact, PlaceOK
  <1>2. Untouched(c) \/ Moving(c) \/ Moved(c)
    BY DEF Intact
  <1>3. CASE Moved(c)
    <2>1. ~refused' /\ formAt' = "check" /\ left' = left \ {c} /\ UNCHANGED <<parent, who, found>>
      BY <1>1, <1>3, StageFields DEF Moved, Check, Intact
    <2> QED BY <1>1, <1>3, <2>1 DEF Intact, RecordOK, PlaceOK, Untouched, Moving, Moved
  <1>4. CASE Untouched(c) \/ Moving(c)
    <2>1. /\ ~refused' /\ formAt' = "stage" /\ left' = left /\ who' = c /\ parent' = TRUE
          /\ found' = [NothingFound EXCEPT !.source = source[c] # "none"]
      BY <1>1, <1>4 DEF Untouched, Moving, InStage, Check, Intact, Goto
    <2>2. found'.source <=> source[c] # "none"
      BY <2>1 DEF NothingFound
    <2>3. found'.source => Untouched(c)'
      BY <1>1, <1>4, <2>2 DEF Untouched, Moving
    <2>4. ~found'.source => Moving(c)'
      BY <1>1, <1>4, <2>2 DEF Untouched, Moving
    <2>5. PlaceOK'
      BY <1>1, <2>1, <2>3, <2>4 DEF Intact, PlaceOK, Moved
    <2>6. RecordOK'
      BY <1>1 DEF Intact, RecordOK
    <2> QED BY <1>1, <2>1, <2>5, <2>6 DEF Intact, Untouched, Moving, Moved
  <1> QED BY <1>2, <1>3, <1>4

LEMMA IntactStages ==
  ASSUME FormInv, Intact, MakeStage
  PROVE  Intact'
  <1>1. formAt = "stage" /\ formAt' = "source" /\ who \in FormCards /\ UNCHANGED <<source, target, left, found, who>>
    BY DEF MakeStage, Goto, FormInv, CommandOK
  <1>2. /\ stage'[who] = IF stage[who].there THEN stage[who] ELSE Empty
        /\ \A c \in FormCards \ {who} : stage'[c] = stage[c]
    BY <1>1 DEF MakeStage, FormInv, FilesOK
  <1>3. found.source => Untouched(who)' /\ stage'[who] = Empty
    BY <1>1, <1>2, StageFields DEF Intact, PlaceOK, Untouched
  <1>4. ~found.source => Moving(who)'
    BY <1>1, <1>2 DEF Intact, PlaceOK, Moving, InStage
  <1>5. \A c \in FormCards : c \in left \/ Moved(c)'
    BY <1>1, <1>2, <1>3, <1>4, StageFields DEF Intact, PlaceOK, Moved, Untouched, Moving, InStage
  <1>6. PlaceOK'
    BY <1>1, <1>3, <1>4, <1>5 DEF PlaceOK, MakeStage, Intact
  <1> QED BY <1>1, <1>2, <1>3, <1>4, <1>6, IntactStep DEF MakeStage, Intact

\* Only the card the command is at changes, and it is still on its way.
LEMMA StillMoving ==
  ASSUME FormInv, Intact, formAt \in {"source", "inspect", "append", "save", "swap", "clean", "move"},
         formAt' \in {"inspect", "append", "save", "swap", "clean", "move"}, UNCHANGED <<parent, record, journal, who, left, refused>>,
         \A c \in FormCards \ {who} : source'[c] = source[c] /\ stage'[c] = stage[c] /\ target'[c] = target[c],
         Moving(who)'
  PROVE  Intact'
  <1>1. who \in FormCards /\ ~Moved(who)
    BY StageFields DEF FormInv, CommandOK, Intact, PlaceOK, Moved, Moving, InStage, Untouched
  <1>2. \A c \in FormCards : c \in left \/ Moved(c)'
    BY <1>1 DEF Intact, PlaceOK, Moved
  <1>3. PlaceOK'
    BY <1>2 DEF Intact, PlaceOK
  <1> QED BY <1>3, IntactStep DEF Intact

LEMMA IntactTakes ==
  ASSUME FormInv, Intact, TakeSource
  PROVE  Intact'
  <1>1. formAt = "source" /\ who \in FormCards /\ UNCHANGED <<target, parent, record, journal, left, who, found>>
    BY DEF TakeSource, FormInv, CommandOK
  <1>2. CASE found.source
    <2>1. Untouched(who) /\ stage[who] = Empty
      BY <1>1, <1>2 DEF Intact, PlaceOK
    <2>2. /\ stage' = [stage EXCEPT ![who].spec = source[who]] /\ source' = [source EXCEPT ![who] = "none"]
          /\ formAt' = "inspect" /\ UNCHANGED refused
      BY <1>2, <2>1 DEF TakeSource, Goto
    <2>3. stage[who] \in StageRec /\ source[who] = "before"
      BY <1>1, <2>1 DEF FormInv, FilesOK, Untouched
    <2>4. stage'[who].there /\ stage'[who].spec = "before" /\ stage'[who].original = "none"
      BY <1>1, <2>1, <2>2, <2>3, StageFields DEF FormInv, FilesOK, StageRec
    <2>5. source'[who] = "none" /\ target'[who] = "none"
      BY <1>1, <2>1, <2>2 DEF FormInv, FilesOK, Untouched
    <2>6. \A c \in FormCards \ {who} : source'[c] = source[c] /\ stage'[c] = stage[c]
      BY <2>2 DEF FormInv, FilesOK
    <2>7. Moving(who)'
      BY <1>1, <2>4, <2>5 DEF Moving, InStage
    <2> QED BY <1>1, <2>2, <2>6, <2>7, StillMoving
  <1>3. CASE ~found.source
    <2>1. formAt' = "inspect" /\ UNCHANGED <<source, stage, refused>> /\ Moving(who)'
      BY <1>1, <1>3 DEF TakeSource, Goto, Intact, PlaceOK, Moving
    <2> QED BY <1>1, <2>1, StillMoving
  <1> QED BY <1>2, <1>3

LEMMA IntactInspects ==
  ASSUME FormInv, Intact, Inspect
  PROVE  Intact'
  <1>1. formAt = "inspect" /\ Moving(who) /\ stage[who] \in StageRec
    BY DEF Inspect, Intact, PlaceOK, FormInv, CommandOK, FilesOK
  <1>2. Rewritable
    BY <1>1 DEF Rewritable, Written, Moving, InStage, StageRec
  <1>3. /\ formAt' \in {"clean", "append"} /\ UNCHANGED <<refused, parent, record, journal, left, who>>
        /\ UNCHANGED <<source, stage, target>>
    BY <1>2 DEF Inspect, Goto, formFiles
  <1>4. Moving(who)'
    BY <1>1, <1>3 DEF Moving
  <1> QED BY <1>1, <1>3, <1>4, StillMoving

LEMMA IntactAppends ==
  ASSUME FormInv, Intact, AppendPart \/ AppendAll
  PROVE  Intact'
  <1>1. formAt = "append" /\ Moving(who) /\ who \in FormCards /\ stage[who] \in StageRec /\ Unwritten(stage[who])
    BY DEF AppendPart, AppendAll, Intact, PlaceOK, FormInv, CommandOK, FilesOK
  <1>2. PICK t \in {"part", "after"} :
          /\ stage' = [stage EXCEPT ![who].rewrite = t] /\ (t = "part" => stage[who].rewrite = "none")
          /\ formAt' \in {"save", "append"}
    BY <1>1 DEF AppendPart, AppendAll, Appended, Goto, formCommand
  <1>3. UNCHANGED <<source, target, parent, record, journal, left, who, refused>>
    BY DEF AppendPart, AppendAll, formCommand
  <1> DEFINE s == [stage[who] EXCEPT !.rewrite = t]
  <1>4. s.there = stage[who].there /\ s.spec = stage[who].spec /\ s.original = stage[who].original /\ s.rewrite = t
    BY <1>1 DEF StageRec
  <1>5. stage'[who] = s /\ \A c \in FormCards \ {who} : stage'[c] = stage[c]
    BY <1>1, <1>2 DEF FormInv, FilesOK
  <1> HIDE DEF s
  <1>6. Moving(who)'
    BY <1>1, <1>2, <1>3, <1>4, <1>5 DEF Moving, InStage, Unwritten
  <1> QED BY <1>1, <1>2, <1>3, <1>5, <1>6, StillMoving

LEMMA IntactSaves ==
  ASSUME FormInv, Intact, SaveOriginal
  PROVE  Intact'
  <1>1. /\ formAt = "save" /\ Moving(who) /\ who \in FormCards /\ stage[who] \in StageRec
        /\ Unwritten(stage[who]) /\ stage[who].rewrite = "after"
    BY DEF SaveOriginal, Intact, PlaceOK, FormInv, CommandOK, FilesOK
  <1>2. UNCHANGED <<source, target, parent, record, journal, left, who, refused>> /\ formAt' = "swap"
    BY DEF SaveOriginal, Goto
  <1>3. CASE found.spec
    <2> DEFINE s == [stage[who] EXCEPT !.original = stage[who].spec, !.spec = "none"]
    <2>1. s.there = stage[who].there /\ s.spec = "none" /\ s.original = stage[who].spec /\ s.rewrite = "after"
      BY <1>1 DEF StageRec
    <2>2. stage'[who] = s /\ \A c \in FormCards \ {who} : stage'[c] = stage[c]
      BY <1>1, <1>3 DEF SaveOriginal, FormInv, FilesOK
    <2> HIDE DEF s
    <2>3. Moving(who)'
      BY <1>1, <1>2, <1>3, <2>1, <2>2 DEF Moving, InStage, Unwritten
    <2> QED BY <1>1, <1>2, <2>2, <2>3, StillMoving
  <1>4. CASE ~found.spec
    <2>1. UNCHANGED stage /\ Moving(who)'
      BY <1>1, <1>2, <1>4 DEF SaveOriginal, Moving
    <2> QED BY <1>1, <1>2, <2>1, StillMoving
  <1> QED BY <1>3, <1>4

LEMMA IntactSwaps ==
  ASSUME FormInv, Intact, Swap
  PROVE  Intact'
  <1>1. formAt = "swap" /\ Moving(who) /\ who \in FormCards /\ stage[who] \in StageRec /\ stage[who].rewrite = "after"
    BY DEF Swap, Intact, PlaceOK, FormInv, CommandOK, FilesOK
  <1>2. UNCHANGED <<source, target, parent, record, journal, left, who, refused>> /\ formAt' = "clean"
    BY DEF Swap, Goto
  <1> DEFINE s == [stage[who] EXCEPT !.spec = stage[who].rewrite, !.rewrite = "none"]
  <1>3. s.there = stage[who].there /\ s.spec = "after" /\ s.rewrite = "none"
    BY <1>1 DEF StageRec
  <1>4. stage'[who] = s /\ \A c \in FormCards \ {who} : stage'[c] = stage[c]
    BY <1>1 DEF Swap, FormInv, FilesOK
  <1> HIDE DEF s
  <1>5. Moving(who)'
    BY <1>1, <1>2, <1>3, <1>4 DEF Moving, InStage
  <1> QED BY <1>1, <1>2, <1>4, <1>5, StillMoving

LEMMA IntactCleans ==
  ASSUME FormInv, Intact, RemoveOriginal
  PROVE  Intact'
  <1>1. formAt = "clean" /\ Moving(who) /\ who \in FormCards /\ stage[who] \in StageRec /\ stage[who].spec = "after"
    BY DEF RemoveOriginal, Intact, PlaceOK, FormInv, CommandOK, FilesOK
  <1>2. UNCHANGED <<source, target, parent, record, journal, left, who, refused>> /\ formAt' = "move"
    BY DEF RemoveOriginal, Goto
  <1> DEFINE s == [stage[who] EXCEPT !.original = "none"]
  <1>3. s.there = stage[who].there /\ s.spec = stage[who].spec /\ s.rewrite = stage[who].rewrite
    BY <1>1 DEF StageRec
  <1>4. stage'[who] = s /\ \A c \in FormCards \ {who} : stage'[c] = stage[c]
    BY <1>1 DEF RemoveOriginal, FormInv, FilesOK
  <1> HIDE DEF s
  <1>5. Moving(who)'
    BY <1>1, <1>2, <1>3, <1>4 DEF Moving, InStage
  <1> QED BY <1>1, <1>2, <1>4, <1>5, StillMoving

LEMMA IntactPublishes ==
  ASSUME FormInv, Intact, PublishCard
  PROVE  Intact'
  <1>1. formAt = "move" /\ Moving(who) /\ who \in FormCards /\ stage[who].spec = "after"
    BY DEF PublishCard, Intact, PlaceOK, FormInv, CommandOK
  <1>2. UNCHANGED <<source, parent, record, journal, who, refused>> /\ formAt' = "check" /\ left' = left \ {who}
    BY DEF PublishCard, Goto
  <1>3. /\ stage'[who] = NoStage /\ target'[who] = "after"
        /\ \A c \in FormCards \ {who} : stage'[c] = stage[c] /\ target'[c] = target[c]
    BY <1>1 DEF PublishCard, FormInv, FilesOK
  <1>4. Moved(who)'
    BY <1>1, <1>2, <1>3 DEF Moved, Moving
  <1>5. \A c \in FormCards : c \in left' \/ Moved(c)'
    BY <1>1, <1>2, <1>3, <1>4 DEF Intact, PlaceOK, Moved
  <1>6. PlaceOK'
    BY <1>1, <1>2, <1>5 DEF Intact, PlaceOK
  <1> QED BY <1>1, <1>2, <1>3, <1>4, <1>6, IntactStep DEF Intact

\* Retention keeps the record of a staging directory.
LEMMA PrunedKeeps ==
  ASSUME NEW j, parent, j # {}
  PROVE  Pruned(j) = j
  BY DEF Pruned, Pinned

LEMMA IntactRecovers ==
  ASSUME FormInv, Intact, RecoverMigration
  PROVE  Intact'
  <1>1. formAt = "idle" /\ record # "none" /\ UNCHANGED <<source, stage, target, parent, who, found>>
    BY DEF RecoverMigration, formFiles
  <1>2. StagingValid
    BY <1>1 DEF StagingValid, RecordKnown, Intact, RecordOK
  <1>3. \A c \in FormCards : (Untouched(c) \/ Moving(c) \/ Moved(c))'
    BY <1>1 DEF Intact, Untouched, Moving, Moved
  <1>4. CASE record = "prepared"
    <2>1. left' = FormCards /\ formAt' = "check" /\ UNCHANGED <<record, journal, refused>>
      BY <1>2, <1>4 DEF RecoverMigration, Goto
    <2> QED BY <1>1, <1>3, <1>4, <2>1 DEF Intact, RecordOK, PlaceOK
  <1>5. CASE record # "prepared"
    <2>1. /\ record' = "committed" /\ UNCHANGED <<formAt, left, refused>>
          /\ journal' = Pruned(IF record = "phase" THEN {0} ELSE journal)
      BY <1>2, <1>5 DEF RecoverMigration
    <2>2. parent' => journal' # {}
      BY <1>1, <1>5, <2>1, PrunedKeeps DEF Intact, RecordOK
    <2> QED BY <1>1, <1>3, <1>5, <2>1, <2>2 DEF Intact, RecordOK, PlaceOK
  <1> QED BY <1>4, <1>5

LEMMA IntactOthers ==
  ASSUME FormInv, Intact, OtherCommits \/ PlanMigration \/ CommitPhase \/ CommitName \/ StopMigration
  PROVE  Intact'
  <1>1. UNCHANGED <<source, stage, target, parent, found, refused, who>>
    BY DEF OtherCommits, PlanMigration, CommitPhase, CommitName, StopMigration, formFiles, formCommand
  <1>2. \A c \in FormCards : (Untouched(c) \/ Moving(c) \/ Moved(c))'
    BY <1>1 DEF Intact, Untouched, Moving, Moved
  <1>3. CASE OtherCommits
    <2>1. formAt' = "idle" /\ UNCHANGED record /\ journal' = Pruned({n + 1 : n \in journal})
      BY <1>3 DEF OtherCommits, formCommand
    <2>2. journal # {} => {n + 1 : n \in journal} # {}
      OBVIOUS
    <2>3. record' = "committed" /\ parent' => journal' # {}
      BY <1>1, <2>1, <2>2, PrunedKeeps DEF Intact, RecordOK
    <2> QED BY <1>1, <1>2, <2>1, <2>3 DEF Intact, RecordOK, PlaceOK
  <1>4. CASE PlanMigration
    <2>1. formAt' = "check" /\ record' = "prepared" /\ left' = FormCards
      BY <1>4 DEF PlanMigration, Goto
    <2> QED BY <1>1, <1>2, <2>1 DEF Intact, RecordOK, PlaceOK
  <1>5. CASE CommitPhase
    <2>1. formAt' = "commit" /\ record' = "phase" /\ formAt = "check" /\ left = {}
      BY <1>5 DEF CommitPhase, Goto
    <2>2. \A c \in FormCards : ~stage[c].there
      BY <2>1, StageFields DEF Intact, PlaceOK, Moved
    <2> QED BY <1>1, <1>2, <2>1, <2>2 DEF Intact, RecordOK, PlaceOK
  <1>6. CASE CommitName
    <2>1. formAt' = "idle" /\ record' = "committed" /\ record = "phase" /\ journal' = Pruned({0})
      BY <1>6 DEF CommitName, Goto, Intact, PlaceOK
    <2>2. parent' => journal' # {}
      BY <1>1, <2>1, PrunedKeeps
    <2> QED BY <1>1, <1>2, <2>1, <2>2 DEF Intact, RecordOK, PlaceOK
  <1>7. CASE StopMigration
    <2>1. formAt' = "idle" /\ UNCHANGED <<record, journal>>
      BY <1>7 DEF StopMigration, Goto
    <2> QED BY <1>1, <1>2, <2>1 DEF Intact, RecordOK, PlaceOK
  <1> QED BY <1>3, <1>4, <1>5, <1>6, <1>7

LEMMA NoEditsNext == FormInv /\ NoEdits /\ [MigrationNext]_formVars => NoEdits'
  <1> SUFFICES ASSUME FormInv, NoEdits, [MigrationNext]_formVars PROVE NoEdits'
    OBVIOUS
  <1>1. CASE UNCHANGED formVars
    BY <1>1 DEF formVars, formFiles, formCommand, NoEdits, CountsOK, Intact, RecordOK, PlaceOK,
                Untouched, Moving, Moved
  <1>2. CASE \E c \in FormCards : SaveSource(c)
    BY <1>2 DEF SaveSource, NoEdits, CountsOK
  <1>3. CASE MigrationNext /\ ~\E c \in FormCards : SaveSource(c)
    <2>1. CountsOK' /\ counts'.saves = counts.saves
      <3>1. CASE OtherCommits
        BY <3>1 DEF OtherCommits, NoEdits, CountsOK
      <3>2. CASE StopMigration
        BY <3>2 DEF StopMigration, NoEdits, CountsOK
      <3>3. CASE UNCHANGED counts
        BY <3>3 DEF NoEdits, CountsOK
      <3> QED BY <1>3, <3>1, <3>2, <3>3
            DEF MigrationNext, PlanMigration, RecoverMigration, Check, MakeStage, TakeSource, Inspect,
                AppendPart, AppendAll, SaveOriginal, Swap, RemoveOriginal, PublishCard, CommitPhase,
                CommitName
    <2>2. Intact => Intact'
      BY <1>3, IntactChecks, IntactStages, IntactTakes, IntactInspects, IntactAppends, IntactSaves,
         IntactSwaps, IntactCleans, IntactPublishes, IntactRecovers, IntactOthers DEF MigrationNext
    <2> QED BY <2>1, <2>2 DEF NoEdits
  <1> QED BY <1>1, <1>2, <1>3

\* Wherever migrations are interrupted and whatever other commands commit and
\* retention removes meanwhile, a recovery refuses only after an edit from
\* outside (applyMigration, validateMigrationStaging, pruneCommitted).
THEOREM OnlyEditsRefuse == MigrationSpec => []OnlyEditsStop
  <1>1. NoEdits => OnlyEditsStop
    BY DEF NoEdits, CountsOK, OnlyEditsStop, Intact
  <1> QED BY <1>1, FormInvInit, FormInvNext, IntactInit, NoEditsNext, PTL DEF MigrationSpec

-----------------------------------------------------------------------------
(* The summary index: every view it returns is current, for any number of    *)
(* cards, callers, edits and invalidations.                                  *)
(*                                                                           *)
(* The index and every snapshot of it know which of their entries may be     *)
(* older than the last Invalidate: those that are marked.  A snapshot of the *)
(* present generation was taken after the last Invalidate, so what its marks *)
(* leave alone is young enough; what is read meanwhile is younger still.     *)

IsMap(f) ==
  /\ DOMAIN f \subseteq IndexCards
  /\ \A c \in DOMAIN f : f[c].shows \in Nat /\ f[c].finger \in Nat /\ f[c].shows >= f[c].finger

Agrees(f, w) == DOMAIN w = DOMAIN f /\ \A c \in DOMAIN f : w[c] = f[c].shows

\* What is not marked is not older than the last Invalidate.
Marked(f, marks, all) == \A c \in DOMAIN f : c \in marks \/ all \/ f[c].shows >= asked[c]

BoardOK ==
  /\ live \subseteq IndexCards /\ edits \in Nat
  /\ text \in [IndexCards -> Nat] /\ finger \in [IndexCards -> Nat] /\ asked \in [IndexCards -> Nat]
  /\ \A c \in IndexCards : finger[c] <= text[c] /\ asked[c] <= text[c] /\ text[c] <= edits

IndexOK ==
  /\ gen \in Nat /\ IsMap(cache) /\ Agrees(cache, shown) /\ Marked(cache, dirty, rebuild)

ViewersOK ==
  /\ phase \in [Viewers -> {"idle", "scan", "finish"}]
  /\ DOMAIN snap = Viewers /\ DOMAIN todo = Viewers /\ DOMAIN next = Viewers
  /\ DOMAIN changed = Viewers /\ DOMAIN begun = Viewers

SnapOK(v) ==
  LET s == snap[v] IN
  /\ s.gen \in Nat /\ s.gen <= gen
  /\ IsMap(s.cache) /\ Agrees(s.cache, s.shown)
  /\ s.gen = gen => Marked(s.cache, s.dirty, s.rebuild)

BegunOK(v) ==
  /\ begun[v].live \subseteq IndexCards
  /\ \A c \in IndexCards : begun[v].finger[c] \in Nat /\ begun[v].finger[c] <= finger[c]

\* What the scan has built so far.
NextOK(v) ==
  /\ IsMap(next[v]) /\ DOMAIN next[v] \cup todo[v] = begun[v].live
  /\ phase[v] = "finish" => todo[v] = {}
  /\ \A c \in DOMAIN next[v] : next[v][c].finger >= begun[v].finger[c]
  /\ snap[v].gen = gen => \A c \in DOMAIN next[v] : next[v][c].shows >= asked[c]
  /\ ~changed[v] => \A c \in DOMAIN next[v] : c \in DOMAIN snap[v].cache /\ next[v][c] = snap[v].cache[c]

RoundOK(v) == SnapOK(v) /\ BegunOK(v) /\ NextOK(v)

IndexInv == /\ BoardOK /\ IndexOK /\ ViewersOK
       /\ \A v \in Viewers : phase[v] # "idle" => RoundOK(v)

-----------------------------------------------------------------------------
(* What each kind of step does to a round that is under way.                 *)

\* A round that nothing happens to but edits of the board.
LEMMA RoundKept ==
  ASSUME NEW v \in Viewers, RoundOK(v), UNCHANGED <<gen, asked>>,
         phase'[v] = phase[v], snap'[v] = snap[v], todo'[v] = todo[v], next'[v] = next[v],
         changed'[v] = changed[v], begun'[v] = begun[v],
         \A c \in IndexCards : finger'[c] >= finger[c],
         \A c \in IndexCards : finger[c] \in Nat /\ finger'[c] \in Nat
  PROVE  RoundOK(v)'
  <1>1. SnapOK(v)'
    BY DEF RoundOK, SnapOK, IsMap, Agrees, Marked
  <1>2. BegunOK(v)'
    BY DEF RoundOK, BegunOK
  <1>3. NextOK(v)'
    BY DEF RoundOK, NextOK, IsMap
  <1> QED BY <1>1, <1>2, <1>3 DEF RoundOK

\* A round that an Invalidate or a Close overtakes.
LEMMA RoundOvertaken ==
  ASSUME NEW v \in Viewers, RoundOK(v), gen \in Nat, gen' = gen + 1,
         UNCHANGED <<indexBoard, viewState>>
  PROVE  RoundOK(v)'
  <1>1. snap[v].gen # gen' /\ snap[v].gen <= gen'
    BY DEF RoundOK, SnapOK
  <1>2. SnapOK(v)'
    BY <1>1 DEF RoundOK, SnapOK, IsMap, Agrees, viewState
  <1>3. BegunOK(v)' /\ NextOK(v)'
    BY <1>1 DEF RoundOK, BegunOK, NextOK, IsMap, viewState, indexBoard
  <1> QED BY <1>2, <1>3 DEF RoundOK

LEMMA Begins ==
  ASSUME IndexInv, NEW v \in Viewers, NEW strong \in BOOLEAN, BeginRound(v, strong)
  PROVE  IndexInv'
  <1> USE DEF IndexInv
  <1>1. BoardOK' /\ IndexOK' /\ ViewersOK'
    BY DEF BeginRound, BoardOK, IndexOK, ViewersOK, IsMap, Agrees, Marked, indexBoard, indexState
  <1>2. /\ snap'[v].gen = gen /\ snap'[v].cache = cache /\ snap'[v].shown = shown
        /\ snap'[v].dirty = dirty /\ snap'[v].rebuild = rebuild
        /\ next'[v] = NoView /\ todo'[v] = live /\ phase'[v] = "scan"
        /\ begun'[v].live = live /\ begun'[v].finger = finger
    BY DEF BeginRound, ViewersOK
  <1>3. UNCHANGED <<indexBoard, indexState, asked>>
    BY DEF BeginRound
  <1>4. SnapOK(v)'
    BY <1>2, <1>3 DEF SnapOK, IndexOK, indexState, IsMap, Agrees, Marked
  <1>5. BegunOK(v)'
    BY <1>2, <1>3 DEF BegunOK, BoardOK, indexBoard
  <1>6. NextOK(v)'
    BY <1>2 DEF NextOK, NoView, IsMap
  <1>7. ASSUME NEW w \in Viewers, phase'[w] # "idle" PROVE RoundOK(w)'
    <2>1. CASE w = v
      BY <2>1, <1>4, <1>5, <1>6 DEF RoundOK
    <2>2. CASE w # v
      <3>1. /\ phase'[w] = phase[w] /\ snap'[w] = snap[w] /\ todo'[w] = todo[w] /\ next'[w] = next[w]
            /\ changed'[w] = changed[w] /\ begun'[w] = begun[w]
        BY <2>2 DEF BeginRound, ViewersOK
      <3> QED BY <1>3, <1>7, <3>1, RoundKept DEF BoardOK, indexBoard, indexState
    <2> QED BY <2>1, <2>2
  <1> QED BY <1>1, <1>7

\* Nothing is left of a call that returned.
LEMMA Returns ==
  ASSUME IndexInv, NEW v \in Viewers, Return(v), UNCHANGED <<indexBoard, gen, asked>>, IndexOK'
  PROVE  IndexInv'
  <1> USE DEF IndexInv
  <1>1. BoardOK' /\ ViewersOK'
    BY DEF Return, BoardOK, ViewersOK, indexBoard
  <1>2. ASSUME NEW w \in Viewers, phase'[w] # "idle" PROVE RoundOK(w)'
    <2>1. w # v
      BY <1>2 DEF Return, ViewersOK
    <2>2. /\ phase'[w] = phase[w] /\ snap'[w] = snap[w] /\ todo'[w] = todo[w] /\ next'[w] = next[w]
          /\ changed'[w] = changed[w] /\ begun'[w] = begun[w]
      BY <2>1 DEF Return, ViewersOK
    <2> QED BY <1>2, <2>2, RoundKept DEF BoardOK, indexBoard
  <1> QED BY <1>1, <1>2

LEMMA ReadsCard ==
  ASSUME IndexInv, NEW v \in Viewers, NEW c \in IndexCards, ReadCard(v, c)
  PROVE  IndexInv'
  <1> USE DEF IndexInv
  <1> DEFINE s == snap[v]
             keep == KeepCached(s, c)
             taken == IF keep THEN s.cache[c] ELSE [shows |-> text[c], finger |-> finger[c]]
  <1>1. /\ RoundOK(v) /\ phase[v] = "scan" /\ c \in todo[v]
        /\ UNCHANGED <<indexBoard, indexState, phase, snap, begun, asked>>
        /\ next'[v] = [x \in DOMAIN next[v] \cup {c} |-> IF x = c THEN taken ELSE next[v][x]]
        /\ todo'[v] = todo[v] \ {c} /\ changed'[v] = (changed[v] \/ ~keep)
    BY DEF ReadCard, ViewersOK
  <1>2. keep => c \in DOMAIN s.cache /\ s.cache[c].finger = finger[c]
    BY DEF KeepCached, NeedBody
  <1>3. keep /\ s.gen = gen => s.cache[c].shows >= asked[c]
    <2> SUFFICES ASSUME keep, s.gen = gen PROVE s.cache[c].shows >= asked[c]
      OBVIOUS
    <2>1. Marked(s.cache, s.dirty, s.rebuild)
      BY <1>1 DEF RoundOK, SnapOK
    <2> QED BY <1>2, <2>1 DEF KeepCached, NeedBody, Marked
  <1>4. /\ taken.shows \in Nat /\ taken.finger \in Nat /\ taken.shows >= taken.finger
        /\ taken.finger = finger[c] /\ (s.gen = gen => taken.shows >= asked[c])
    <2>1. CASE keep
      <3>1. IsMap(s.cache)
        BY <1>1 DEF RoundOK, SnapOK
      <3> HIDE DEF keep
      <3> QED BY <2>1, <3>1, <1>2, <1>3 DEF IsMap
    <2>2. CASE ~keep
      BY <2>2 DEF BoardOK
    <2> QED BY <2>1, <2>2
  <1>5. keep => taken = s.cache[c]
    OBVIOUS
  <1> HIDE DEF taken, keep
  <1>6. IsMap(next'[v]) /\ DOMAIN next'[v] = DOMAIN next[v] \cup {c} /\ next'[v][c] = taken
        /\ \A x \in DOMAIN next[v] : x # c => next'[v][x] = next[v][x]
    BY <1>1, <1>4 DEF IsMap, RoundOK, NextOK
  <1>7. NextOK(v)'
    <2>1. DOMAIN next'[v] \cup todo'[v] = begun'[v].live
      BY <1>1, <1>6 DEF RoundOK, NextOK
    <2>2. \A x \in DOMAIN next'[v] : next'[v][x].finger >= begun'[v].finger[x]
      <3>1. begun[v].finger[c] <= finger[c] /\ begun[v].finger[c] \in Nat
        BY <1>1 DEF RoundOK, BegunOK
      <3> QED BY <1>1, <1>4, <1>6, <3>1 DEF RoundOK, NextOK
    <2>3. snap'[v].gen = gen' => \A x \in DOMAIN next'[v] : next'[v][x].shows >= asked'[x]
      BY <1>1, <1>4, <1>6 DEF RoundOK, NextOK, indexState
    <2>4. ~changed'[v] => \A x \in DOMAIN next'[v] :
             x \in DOMAIN snap'[v].cache /\ next'[v][x] = snap'[v].cache[x]
      BY <1>1, <1>2, <1>5, <1>6 DEF RoundOK, NextOK
    <2> QED BY <1>1, <1>6, <2>1, <2>2, <2>3, <2>4 DEF NextOK, IsMap
  <1>8. SnapOK(v)' /\ BegunOK(v)'
    BY <1>1 DEF RoundOK, SnapOK, BegunOK, IsMap, Agrees, Marked, indexBoard, indexState
  <1>9. ASSUME NEW w \in Viewers, phase'[w] # "idle" PROVE RoundOK(w)'
    <2>1. CASE w = v
      BY <2>1, <1>7, <1>8 DEF RoundOK
    <2>2. CASE w # v
      <3>1. todo'[w] = todo[w] /\ next'[w] = next[w] /\ changed'[w] = changed[w]
        BY <2>2 DEF ReadCard, ViewersOK
      <3> QED BY <1>1, <1>9, <3>1, RoundKept DEF BoardOK, indexBoard, indexState
    <2> QED BY <2>1, <2>2
  <1>10. BoardOK' /\ IndexOK'
    BY <1>1 DEF BoardOK, IndexOK, IsMap, Agrees, Marked, indexBoard, indexState
  <1>11. ViewersOK'
    BY DEF ReadCard, ViewersOK
  <1> QED BY <1>9, <1>10, <1>11

\* What a call that may publish has built.
LEMMA BuiltOK ==
  ASSUME IndexInv, NEW v \in Viewers, Publish(v)
  PROVE  /\ Agrees(next[v], Built(v)) /\ IsMap(next[v])
         /\ DOMAIN Built(v) = begun[v].live
         /\ \A c \in DOMAIN Built(v) :
              Built(v)[c] >= asked[c] /\ Built(v)[c] >= begun[v].finger[c]
  <1>1. RoundOK(v) /\ phase[v] = "finish" /\ snap[v].gen = gen
    BY DEF IndexInv, Publish, Superseded
  <1>2. Agrees(next[v], Built(v))
    <2>1. CASE changed[v] \/ SomeGone(v)
      <3>1. Built(v) = [c \in DOMAIN next[v] |-> next[v][c].shows]
        BY <2>1 DEF Built
      <3> QED BY <3>1 DEF Agrees
    <2>2. CASE ~changed[v] /\ ~SomeGone(v)
      <3>1. Built(v) = snap[v].shown
        BY <2>2 DEF Built
      <3>2. DOMAIN next[v] = DOMAIN snap[v].cache
            /\ \A c \in DOMAIN next[v] : next[v][c] = snap[v].cache[c]
        BY <1>1, <2>2 DEF RoundOK, NextOK, SomeGone
      <3> QED BY <1>1, <3>1, <3>2 DEF Agrees, RoundOK, SnapOK
    <2> QED BY <2>1, <2>2
  <1>3. IsMap(next[v]) /\ DOMAIN next[v] = begun[v].live /\ begun[v].live \subseteq IndexCards
    BY <1>1 DEF RoundOK, NextOK, BegunOK
  <1>4. ASSUME NEW c \in DOMAIN Built(v)
        PROVE  Built(v)[c] >= asked[c] /\ Built(v)[c] >= begun[v].finger[c]
    <2>1. c \in DOMAIN next[v] /\ c \in IndexCards /\ Built(v)[c] = next[v][c].shows
      BY <1>2, <1>3 DEF Agrees
    <2>2. next[v][c].shows \in Nat /\ next[v][c].finger \in Nat /\ next[v][c].shows >= next[v][c].finger
      BY <1>3, <2>1 DEF IsMap
    <2>3. next[v][c].finger >= begun[v].finger[c] /\ begun[v].finger[c] \in Nat
          /\ next[v][c].shows >= asked[c]
      BY <1>1, <2>1 DEF RoundOK, NextOK, BegunOK
    <2>4. next[v][c].shows >= begun[v].finger[c]
      BY <2>2, <2>3
    <2> QED BY <2>1, <2>3, <2>4
  <1> QED BY <1>2, <1>3, <1>4 DEF Agrees

LEMMA Publishes ==
  ASSUME IndexInv, NEW v \in Viewers, Publish(v)
  PROVE  IndexInv'
  <1>1. /\ cache' = next[v] /\ shown' = Built(v) /\ gen' = gen /\ asked' = asked /\ Return(v)
        /\ UNCHANGED indexBoard
    BY DEF Publish
  <1>2. \A c \in DOMAIN next[v] : next[v][c].shows >= asked[c]
    BY DEF IndexInv, Publish, Superseded, RoundOK, NextOK
  <1>3. IndexOK'
    BY <1>1, <1>2, BuiltOK DEF IndexOK, IndexInv, Marked, IsMap, Agrees
  <1> QED BY <1>1, <1>3, Returns

LEMMA Edits ==
  ASSUME IndexInv, NEW c \in IndexCards,
         Rewrite(c) \/ Relist(c) \/ \E hidden \in BOOLEAN : EditOutside(c, hidden)
  PROVE  IndexInv'
  <1> USE DEF IndexInv
  <1>1. /\ live' \subseteq IndexCards /\ edits' = edits + 1
        /\ text' = [text EXCEPT ![c] = edits + 1]
        /\ finger' = finger \/ finger' = [finger EXCEPT ![c] = edits + 1]
        /\ UNCHANGED <<indexState, viewState, asked>>
    BY DEF Rewrite, Relist, EditOutside, BoardOK
  <1>2. \A d \in IndexCards : finger'[d] >= finger[d] /\ finger[d] \in Nat /\ finger'[d] \in Nat
    BY <1>1 DEF BoardOK
  <1>3. BoardOK'
    BY <1>1 DEF BoardOK
  <1>4. IndexOK' /\ ViewersOK'
    BY <1>1 DEF IndexOK, ViewersOK, IsMap, Agrees, Marked, indexState, viewState
  <1>5. \A v \in Viewers : phase'[v] # "idle" => RoundOK(v)'
    BY <1>1, <1>2, RoundKept DEF indexState, viewState
  <1> QED BY <1>3, <1>4, <1>5

LEMMA Marks ==
  ASSUME IndexInv, CloseIndex \/ \E ids \in SUBSET IndexCards : Invalidate(ids)
  PROVE  IndexInv'
  <1> USE DEF IndexInv
  <1>1. gen' = gen + 1 /\ gen \in Nat /\ UNCHANGED <<indexBoard, viewState>>
    BY DEF CloseIndex, Invalidate, IndexOK
  <1>2. \A v \in Viewers : phase'[v] # "idle" => RoundOK(v)'
    BY <1>1, RoundOvertaken DEF viewState
  <1>3. CASE CloseIndex
    <2>1. BoardOK' /\ ViewersOK'
      BY <1>1, <1>3 DEF CloseIndex, BoardOK, ViewersOK, indexBoard, viewState
    <2>2. IndexOK'
      BY <1>1, <1>3 DEF CloseIndex, IndexOK, NoView, IsMap, Agrees, Marked
    <2> QED BY <1>2, <2>1, <2>2
  <1>4. ASSUME NEW ids \in SUBSET IndexCards, Invalidate(ids) PROVE IndexInv'
    <2>1. BoardOK' /\ ViewersOK'
      BY <1>1, <1>4 DEF Invalidate, BoardOK, ViewersOK, indexBoard, viewState
    <2>2. /\ UNCHANGED <<cache, shown>>
          /\ \A c \in IndexCards : asked'[c] = IF c \in ids \/ ids = {} THEN text[c] ELSE asked[c]
          /\ ids = {} => rebuild' = TRUE
          /\ ids # {} => dirty' = dirty \cup ids /\ rebuild' = rebuild
      BY <1>4 DEF Invalidate
    <2>3. \A c \in DOMAIN cache : c \in dirty' \/ rebuild' \/ cache[c].shows >= asked'[c]
      BY <2>2 DEF IndexOK, Marked, IsMap
    <2>4. IndexOK'
      BY <1>1, <2>2, <2>3 DEF IndexOK, IsMap, Agrees, Marked
    <2> QED BY <1>2, <2>1, <2>4
  <1> QED BY <1>3, <1>4

LEMMA EndsRound ==
  ASSUME IndexInv, NEW v \in Viewers, EndScan(v)
  PROVE  IndexInv'
  <1> USE DEF IndexInv
  <1>1. BoardOK' /\ IndexOK' /\ ViewersOK'
    BY DEF EndScan, BoardOK, IndexOK, ViewersOK, IsMap, Agrees, Marked, indexBoard, indexState
  <1>2. ASSUME NEW w \in Viewers, phase'[w] # "idle" PROVE RoundOK(w)'
    <2>1. CASE w = v
      <3>1. RoundOK(v) /\ todo[v] = {} /\ UNCHANGED <<indexBoard, indexState, snap, todo, next, changed, begun, asked>>
        BY DEF EndScan
      <3>2. SnapOK(v)' /\ BegunOK(v)'
        BY <3>1 DEF RoundOK, SnapOK, BegunOK, IsMap, Agrees, Marked, indexBoard, indexState
      <3>3. NextOK(v)'
        BY <3>1 DEF RoundOK, NextOK, IsMap, indexState
      <3> QED BY <2>1, <3>2, <3>3 DEF RoundOK
    <2>2. CASE w # v
      <3>1. phase'[w] = phase[w]
        BY <2>2 DEF EndScan, ViewersOK
      <3>2. UNCHANGED <<indexBoard, indexState, snap, todo, next, changed, begun, asked>>
        BY DEF EndScan
      <3> QED BY <1>2, <3>1, <3>2, RoundKept DEF BoardOK, indexBoard, indexState
    <2> QED BY <2>1, <2>2
  <1> QED BY <1>1, <1>2

LEMMA Fails ==
  ASSUME IndexInv, NEW v \in Viewers, ViewFails(v)
  PROVE  IndexInv'
  <1>1. Return(v) /\ UNCHANGED <<indexBoard, indexState, asked>>
    BY DEF ViewFails
  <1>2. IndexOK'
    BY <1>1 DEF IndexInv, IndexOK, IsMap, Agrees, Marked, indexState
  <1> QED BY <1>1, <1>2, Returns DEF indexState

LEMMA IndexInvInit == IndexInit => IndexInv
  <1> SUFFICES ASSUME IndexInit PROVE IndexInv
    OBVIOUS
  <1>1. BoardOK
    BY DEF IndexInit, BoardOK
  <1>2. IndexOK
    BY DEF IndexInit, IndexOK, NoView, IsMap, Agrees, Marked
  <1>3. ViewersOK /\ \A v \in Viewers : phase[v] = "idle"
    BY DEF IndexInit, ViewersOK
  <1> QED BY <1>1, <1>2, <1>3 DEF IndexInv

LEMMA IndexInvNext == IndexInv /\ [IndexNext]_indexVars => IndexInv'
  <1> SUFFICES ASSUME IndexInv, [IndexNext]_indexVars PROVE IndexInv'
    OBVIOUS
  <1>1. CASE IndexNext
    BY <1>1, Edits, Marks, Begins, ReadsCard, EndsRound, Publishes, Fails DEF IndexNext, View, RoundAgain
  <1>2. CASE UNCHANGED indexVars
    <2>1. BoardOK' /\ IndexOK' /\ ViewersOK'
      BY <1>2 DEF IndexInv, BoardOK, IndexOK, ViewersOK, IsMap, Agrees, Marked, indexVars, indexBoard,
           indexState, viewState
    <2>2. \A v \in Viewers : phase'[v] # "idle" => RoundOK(v)'
      BY <1>2, RoundKept DEF IndexInv, BoardOK, indexVars, indexBoard, indexState, viewState
    <2> QED BY <2>1, <2>2 DEF IndexInv
  <1> QED BY <1>1, <1>2

-----------------------------------------------------------------------------
\* A view that is returned lists the cards that were on the board when its last
\* round began, none older than the last Invalidate that named it nor than the
\* fingerprint the round began with (summary_cache.go: beginView, finishView).
THEOREM Current == IndexSpec => ViewCurrent
  <1>1. IndexInv /\ [IndexNext]_indexVars =>
          [\A v \in Viewers : Publish(v) =>
             /\ DOMAIN Built(v) = begun[v].live
             /\ \A c \in DOMAIN Built(v) :
                  /\ Built(v)[c] >= asked[c]
                  /\ Built(v)[c] >= begun[v].finger[c]]_indexVars
    BY BuiltOK
  <1> QED BY <1>1, IndexInvInit, IndexInvNext, PTL DEF IndexSpec, ViewCurrent

-----------------------------------------------------------------------------
(* The screens.  A read of the list that is still waited for was asked for   *)
(* after everything that is shown: what is shown is among the changes the    *)
(* index will show from now on, and the read starts from those.  There is    *)
(* one such read at most, and none while a move runs, whose own view then    *)
(* replaces the list.                                                        *)

Cards == OpenCards \cup {NoCard}
AppRec == [queued : BOOLEAN, reading : BOOLEAN, acting : BOOLEAN,
           shown : SUBSET Jobs, failed : BOOLEAN, detail : Cards, seen : SUBSET Jobs,
           detailQueued : Cards, detailReading : Cards, detailFailed : BOOLEAN]
ReadRec == [of : OpenCards \cup {Screen}, live : BOOLEAN, floor : SUBSET Jobs,
            at : {"asked", "read", "error"}, got : SUBSET Jobs]

\* u: the App, r: the running reads, k: what the index will show.
ReadKnown(q, k) ==
  q.of = Screen => q.floor \subseteq k /\ (q.at = "read" => q.got \subseteq k)
WaitedFor(u, q) ==
  q.of = Screen /\ q.live =>
    /\ u.reading /\ ~u.acting /\ u.shown \subseteq q.floor
    /\ q.at = "read" => u.shown \subseteq q.got
OneRead(r) ==
  \A q, s \in r : q.of = Screen /\ q.live /\ s.of = Screen /\ s.live => q = s
AppOK(u, r, k) ==
  /\ u \in AppRec /\ u.shown \subseteq k /\ r \subseteq ReadRec
  /\ \A q \in r : ReadKnown(q, k) /\ WaitedFor(u, q)
  /\ OneRead(r)

MoveRuns == work["move"] \in {"run", "written", "answer"}
MoveOK ==
  /\ work \in [Jobs -> {"idle", "run", "written", "answer", "over"}]
  /\ payload \in [at : {"none", "read", "error"}, got : SUBSET Jobs]
  /\ ui.acting <=> MoveRuns
  /\ work["move"] = "answer" => payload.at # "none"
  /\ payload.at = "read" => /\ work["move"] = "answer" /\ payload.got \subseteq known
                            /\ ui.shown \subseteq payload.got
ViewInv ==
  /\ written \subseteq Jobs /\ known \subseteq written
  /\ AppOK(ui, running, known) /\ MoveOK

\* What a step keeps, and that the list loses nothing.
Onward == ViewInv' /\ ui.shown \subseteq ui'.shown

LEMMA ViewInvInit == ViewInit => ViewInv
<1> SUFFICES ASSUME ViewInit PROVE ViewInv
  OBVIOUS
<1>1. ui \in AppRec BY DEF ViewInit, AppRec, Cards
<1> QED BY <1>1 DEF ViewInit, ViewInv, AppOK, MoveOK, OneRead, MoveRuns, Jobs, NoPayload

\* takePending: the fields it does not touch, and a read that starts.
LEMMA Starts ==
  ASSUME NEW u, NEW r, AppOK(u, r, known'), known' \subseteq Jobs, TakePending(u, r)
  PROVE  /\ AppOK(ui', running', known')
         /\ ui'.shown = u.shown /\ ui'.acting = u.acting
<1> DEFINE list == u.queued /\ ~u.reading /\ ~u.acting
           one  == u.detailQueued # NoCard /\ u.detailReading = NoCard
           started == (IF list THEN {Screen} ELSE {})
                        \cup (IF one THEN {u.detailQueued} ELSE {})
<1>1. /\ ui' = [u EXCEPT !.queued = @ /\ ~list, !.reading = @ \/ list,
                        !.detailQueued = IF one THEN NoCard ELSE @,
                        !.detailReading = IF one THEN u.detailQueued ELSE @]
      /\ running' = r \cup {NewRead(of) : of \in started}
  BY DEF TakePending
<1>2. /\ ui' \in AppRec /\ ui'.shown = u.shown /\ ui'.acting = u.acting
      /\ ui'.reading = (u.reading \/ list)
  BY <1>1 DEF AppOK, AppRec, Cards
<1>3. /\ started \subseteq OpenCards \cup {Screen}
      /\ Screen \in started <=> list
  BY ViewAssumption DEF AppOK, AppRec, Cards
<1> HIDE DEF started
<1>4. \A of \in started :
        /\ NewRead(of) \in ReadRec /\ NewRead(of).of = of /\ NewRead(of).live
        /\ NewRead(of).floor = known' /\ NewRead(of).at = "asked"
  BY <1>3 DEF NewRead, ReadRec
<1>5. \A q \in running' : q \in r \/ \E of \in started : q = NewRead(of)
  BY <1>1
<1>6. running' \subseteq ReadRec BY <1>4, <1>5 DEF AppOK
<1>7. \A q \in running' : ReadKnown(q, known')
  BY <1>4, <1>5 DEF AppOK, ReadKnown
<1>8. ASSUME NEW q \in running', q.of = Screen, q.live
      PROVE  \/ q \in r /\ u.reading
             \/ q = NewRead(Screen) /\ list
  BY <1>3, <1>4, <1>5, <1>8 DEF AppOK, WaitedFor
<1>9. \A q \in running' : WaitedFor(ui', q)
  BY <1>2, <1>3, <1>4, <1>8 DEF AppOK, WaitedFor
<1>10. OneRead(running')
  BY <1>8 DEF AppOK, OneRead
<1> QED BY <1>2, <1>6, <1>7, <1>9, <1>10 DEF AppOK

\* Reads that are taken away, and reads that nobody waits for any more.
LEMMA FewerReads ==
  ASSUME NEW u, NEW r, NEW k, AppOK(u, r, k), NEW s \in SUBSET r
  PROVE  AppOK(u, s, k)
BY DEF AppOK, OneRead

LEMMA StaleOK ==
  ASSUME NEW u, NEW r, NEW k, AppOK(u, r, k), NEW of
  PROVE  /\ AppOK(u, Stale(r, of), k)
         /\ Screen \in of => \A q \in Stale(r, of) : ~(q.of = Screen /\ q.live)
<1>1. \A q \in r : [q EXCEPT !.live = FALSE] \in ReadRec
        /\ [q EXCEPT !.live = FALSE].of = q.of /\ ~[q EXCEPT !.live = FALSE].live
        /\ [q EXCEPT !.live = FALSE].floor = q.floor
        /\ [q EXCEPT !.live = FALSE].at = q.at /\ [q EXCEPT !.live = FALSE].got = q.got
  BY DEF AppOK, ReadRec
<1>2. \A s \in Stale(r, of) : \E q \in r :
        \/ s = q /\ q.of \notin of
        \/ s = [q EXCEPT !.live = FALSE]
  BY DEF Stale
<1>3. ASSUME NEW s \in Stale(r, of)
      PROVE  /\ s \in ReadRec /\ ReadKnown(s, k) /\ WaitedFor(u, s)
             /\ s.live => s \in r /\ s.of \notin of
  <2>1. PICK q \in r : \/ s = q /\ q.of \notin of
                       \/ s = [q EXCEPT !.live = FALSE]
    BY <1>2
  <2>2. q \in ReadRec /\ ReadKnown(q, k) /\ WaitedFor(u, q) BY DEF AppOK
  <2>3. CASE s = q /\ q.of \notin of BY <2>2, <2>3
  <2>4. CASE s = [q EXCEPT !.live = FALSE]
    BY <1>1, <2>2, <2>4 DEF ReadKnown, WaitedFor
  <2> QED BY <2>1, <2>3, <2>4
<1> QED BY <1>3 DEF AppOK, OneRead

\* The App changes, what it shows and whether it reads do not.
LEMMA SameList ==
  ASSUME NEW u, NEW v \in AppRec, NEW r, NEW k, AppOK(u, r, k), v.shown = u.shown,
         v.reading = u.reading, v.acting = u.acting
  PROVE  AppOK(v, r, k)
BY DEF AppOK, WaitedFor

\* The App changes when no read of the list is waited for.
LEMMA NoReads ==
  ASSUME NEW u, NEW v \in AppRec, NEW r, NEW k, AppOK(u, r, k),
         v.shown \subseteq k, \A q \in r : ~(q.of = Screen /\ q.live)
  PROVE  AppOK(v, r, k)
BY DEF AppOK, WaitedFor

\* More is on the board, and the index will show more.
LEMMA MoreKnown ==
  ASSUME NEW u, NEW r, NEW k, AppOK(u, r, k), NEW l, k \subseteq l
  PROVE  AppOK(u, r, l)
BY DEF AppOK, ReadKnown

-----------------------------------------------------------------------------
(* The steps.                                                                *)

LEMMA AppFields == ViewInv => /\ ui \in AppRec /\ ui.shown \subseteq known
                            /\ running \subseteq ReadRec
BY DEF ViewInv, AppOK

\* A step that shows the same list, and leaves the move and the board alone.
LEMMA ListStays ==
  ASSUME ViewInv, NEW u, NEW r, AppOK(u, r, known'), TakePending(u, r),
         u.shown = ui.shown, u.acting = ui.acting, known \subseteq known',
         known' \subseteq written, UNCHANGED <<written, payload>>, work' \in
           [Jobs -> {"idle", "run", "written", "answer", "over"}],
         work'["move"] = work["move"]
  PROVE  Onward
<1>1. AppOK(ui', running', known') /\ ui'.shown = ui.shown /\ ui'.acting = ui.acting
  BY Starts DEF ViewInv
<1> QED BY <1>1 DEF Onward, ViewInv, MoveOK, MoveRuns

LEMMA Refreshes ==
  ASSUME ViewInv, NEW fresh \in BOOLEAN, Refresh(fresh)
  PROVE  Onward
<1> DEFINE u == RequestBoard(ui, fresh)
<1>1. u \in AppRec /\ u.shown = ui.shown /\ u.reading = ui.reading /\ u.acting = ui.acting
  BY AppFields DEF RequestBoard, AppRec
<1>2. AppOK(ui, running, known') /\ TakePending(u, running)
  BY DEF Refresh, ViewInv
<1> HIDE DEF u
<1>3. AppOK(u, running, known') BY <1>1, <1>2, SameList
<1> QED BY <1>1, <1>2, <1>3, ListStays DEF Refresh, ViewInv, MoveOK

LEMMA RequestsDetail ==
  ASSUME NEW u \in AppRec, NEW c \in OpenCards
  PROVE  /\ RequestDetail(u, c) \in AppRec /\ RequestDetail(u, c).shown = u.shown
         /\ RequestDetail(u, c).reading = u.reading /\ RequestDetail(u, c).acting = u.acting
BY DEF RequestDetail, AppRec, Cards

LEMMA Opens ==
  ASSUME ViewInv, NEW c \in OpenCards, OpenDetail(c)
  PROVE  Onward
<1> DEFINE v == [ui EXCEPT !.detail = c, !.seen = ui.shown, !.detailFailed = FALSE]
           u == RequestDetail(v, c)
<1>1. v \in AppRec /\ v.shown = ui.shown /\ v.reading = ui.reading /\ v.acting = ui.acting
  BY AppFields DEF AppRec, Cards
<1>2. AppOK(ui, running, known') /\ TakePending(u, running)
  BY DEF OpenDetail, ViewInv
<1> HIDE DEF v
<1>3. u \in AppRec /\ u.shown = ui.shown /\ u.reading = ui.reading /\ u.acting = ui.acting
  BY <1>1, RequestsDetail
<1> HIDE DEF u
<1>4. AppOK(u, running, known') BY <1>2, <1>3, SameList
<1> QED BY <1>2, <1>3, <1>4, ListStays DEF OpenDetail, ViewInv, MoveOK

LEMMA Closes ==
  ASSUME ViewInv, CloseDetail
  PROVE  Onward
<1> DEFINE u == [ui EXCEPT !.detail = NoCard, !.seen = {}, !.detailFailed = FALSE,
                           !.detailQueued = NoCard, !.detailReading = NoCard]
           r == Stale(running, OpenCards)
<1>1. u \in AppRec /\ u.shown = ui.shown /\ u.reading = ui.reading /\ u.acting = ui.acting
  BY AppFields DEF AppRec, Cards
<1>2. AppOK(ui, running, known') /\ TakePending(u, r)
  BY DEF CloseDetail, ViewInv
<1>3. AppOK(ui, r, known') BY <1>2, StaleOK
<1> HIDE DEF u, r
<1>4. AppOK(u, r, known') BY <1>1, <1>3, SameList
<1> QED BY <1>1, <1>2, <1>4, ListStays DEF CloseDetail, ViewInv, MoveOK

LEMMA Moves ==
  ASSUME ViewInv, BeginMove
  PROVE  Onward
<1> DEFINE u == [ui EXCEPT !.acting = TRUE, !.reading = FALSE]
           r == Stale(running, {Screen})
<1>1. u \in AppRec /\ u.shown = ui.shown /\ u.acting
  BY AppFields DEF AppRec
<1>2. AppOK(ui, running, known') /\ TakePending(u, r)
  BY DEF BeginMove, ViewInv
<1>3. AppOK(ui, r, known') /\ \A q \in r : ~(q.of = Screen /\ q.live)
  BY <1>2, StaleOK
<1> HIDE DEF u, r
<1>4. AppOK(u, r, known')
  <2>1. u.shown \subseteq known' BY <1>1, <1>2 DEF AppOK
  <2> QED BY <1>1, <1>3, <2>1, NoReads
<1>5. AppOK(ui', running', known') /\ ui'.shown = ui.shown /\ ui'.acting
  BY <1>1, <1>2, <1>4, Starts DEF BeginMove, ViewInv
<1>6. MoveOK' BY <1>5 DEF BeginMove, ViewInv, MoveOK, MoveRuns, Jobs
<1> QED BY <1>5, <1>6 DEF Onward, BeginMove, ViewInv

LEMMA BeginsOther ==
  ASSUME ViewInv, NEW j \in Jobs, BeginOther(j)
  PROVE  Onward
<1>1. AppOK(ui, running, known') /\ TakePending(ui, running)
  BY DEF BeginOther, ViewInv
<1> QED BY <1>1, ListStays DEF BeginOther, ViewInv, MoveOK, Jobs

LEMMA Runs ==
  ASSUME ViewInv, NEW j \in Jobs, RunJob(j)
  PROVE  Onward
<1>1. MoveOK' BY DEF RunJob, ViewInv, MoveOK, MoveRuns, Jobs
<1> QED BY <1>1 DEF Onward, RunJob, ViewInv, AppOK

LEMMA ReadsForMove ==
  ASSUME ViewInv, MoveReads
  PROVE  Onward
<1>1. /\ known \subseteq known' /\ known' \subseteq written
      /\ payload' \in [at : {"none", "read", "error"}, got : SUBSET Jobs]
      /\ payload'.at # "none"
      /\ payload'.at = "read" => payload'.got \subseteq known' /\ known \subseteq payload'.got
  BY DEF MoveReads, ViewInv, Views, MarkMoved, AppOK
<1>2. AppOK(ui', running', known')
  BY <1>1, MoreKnown DEF MoveReads, ViewInv
<1>3. MoveOK' BY <1>1 DEF MoveReads, ViewInv, MoveOK, MoveRuns, Jobs, AppOK
<1> QED BY <1>1, <1>2, <1>3 DEF Onward, MoveReads, ViewInv, AppOK

\* A read that is replaced by what it has become.
LEMMA ReadGoesOn ==
  ASSUME NEW u, NEW r, NEW k, AppOK(u, r, k), NEW q \in r, NEW s \in ReadRec,
         NEW l, k \subseteq l, s.of = q.of, s.live = q.live, ReadKnown(s, l), WaitedFor(u, s)
  PROVE  AppOK(u, (r \ {q}) \cup {s}, l)
BY DEF AppOK, OneRead, ReadKnown

LEMMA ReadsOne ==
  ASSUME ViewInv, NEW q \in running, Reads(q)
  PROVE  Onward
<1> SUFFICES /\ AppOK(ui, running', known') /\ known \subseteq known' /\ known' \subseteq written
  BY DEF Onward, ViewInv, MoveOK, MoveRuns, Reads
<1>0. q \in ReadRec /\ ReadKnown(q, known) /\ WaitedFor(ui, q) /\ q.at = "asked"
  BY DEF ViewInv, AppOK, Reads
<1>1. ASSUME NEW got \in (IF q.of = Screen THEN Views(q.floor) ELSE {written}),
             running' = (running \ {q}) \cup {[q EXCEPT !.at = "read", !.got = got]},
             known' = IF q.of = Screen THEN known \cup got ELSE known
      PROVE  AppOK(ui, running', known') /\ known \subseteq known' /\ known' \subseteq written
  <2> DEFINE s == [q EXCEPT !.at = "read", !.got = got]
  <2>1. /\ got \subseteq written /\ got \subseteq Jobs
        /\ q.of = Screen => q.floor \subseteq got
    BY <1>0, <1>1 DEF Views, ViewInv, ReadKnown
  <2>2. /\ s \in ReadRec /\ s.of = q.of /\ s.live = q.live /\ s.floor = q.floor
        /\ s.at = "read" /\ s.got = got
    BY <1>0, <2>1 DEF ReadRec
  <2>3. known \subseteq known' /\ known' \subseteq written
        /\ (q.of = Screen => got \subseteq known')
    BY <1>1, <2>1 DEF ViewInv
  <2>4. running' = (running \ {q}) \cup {s} BY <1>1
  <2> HIDE DEF s
  <2>5. ReadKnown(s, known') /\ WaitedFor(ui, s)
    BY <1>0, <2>1, <2>2, <2>3 DEF ReadKnown, WaitedFor
  <2> QED BY <2>2, <2>3, <2>4, <2>5, ReadGoesOn DEF ViewInv
<1>2. ASSUME q.live, running' = (running \ {q}) \cup {[q EXCEPT !.at = "error"]},
             UNCHANGED known
      PROVE  AppOK(ui, running', known')
  <2> DEFINE s == [q EXCEPT !.at = "error"]
  <2>1. /\ s \in ReadRec /\ s.of = q.of /\ s.live = q.live /\ s.floor = q.floor
        /\ s.at = "error"
    BY <1>0 DEF ReadRec
  <2>2. running' = (running \ {q}) \cup {s} BY <1>2
  <2> HIDE DEF s
  <2>3. ReadKnown(s, known) /\ WaitedFor(ui, s)
    BY <1>0, <2>1 DEF ReadKnown, WaitedFor
  <2>4. AppOK(ui, running, known) /\ known' = known BY <1>2 DEF ViewInv
  <2> QED BY <2>1, <2>2, <2>3, <2>4, ReadGoesOn
<1> QED BY <1>1, <1>2 DEF Reads, ViewInv

\* What is left when one answer is taken: no read of the list, if it was one
\* that is waited for.
LEMMA Rest ==
  ASSUME ViewInv, NEW q \in running
  PROVE  /\ AppOK(ui, running \ {q}, known)
         /\ q.of = Screen /\ q.live =>
              \A s \in running \ {q} : ~(s.of = Screen /\ s.live)
<1>1. AppOK(ui, running, known) BY DEF ViewInv
<1>2. AppOK(ui, running \ {q}, known) BY <1>1, FewerReads
<1> QED BY <1>1, <1>2 DEF AppOK, OneRead

\* The list is read: what it shows from now on is what the read has, or what it
\* showed before.
LEMMA ShowsList ==
  ASSUME ViewInv, NEW u \in AppRec, NEW r, AppOK(ui, r, known),
         \A s \in r : ~(s.of = Screen /\ s.live), TakePending(u, r),
         ui.shown \subseteq u.shown, u.shown \subseteq known, u.acting = ui.acting,
         ~ui.acting, UNCHANGED <<written, payload, known, work>>
  PROVE  Onward
<1>1. AppOK(u, r, known') BY NoReads
<1>2. AppOK(ui', running', known') /\ ui'.shown = u.shown /\ ui'.acting = u.acting
  BY <1>1, Starts DEF ViewInv
<1> QED BY <1>2 DEF Onward, ViewInv, MoveOK, MoveRuns

LEMMA ListAnswers ==
  ASSUME ViewInv, NEW q \in running, ApplyBoardRead(q)
  PROVE  Onward
<1> DEFINE rest == running \ {q}
           u == [ui EXCEPT !.reading = FALSE]
           shows == [u EXCEPT !.shown = q.got, !.failed = FALSE]
           failed == [u EXCEPT !.failed = TRUE]
<1>1. /\ AppOK(ui, rest, known)
      /\ q.live => \A s \in rest : ~(s.of = Screen /\ s.live)
  BY Rest DEF ApplyBoardRead
<1>2. /\ q \in ReadRec /\ q.at # "asked" /\ q.of = Screen
      /\ ReadKnown(q, known) /\ WaitedFor(ui, q)
      /\ UNCHANGED <<work, payload, written, known, told, ticks>>
  BY DEF ApplyBoardRead, ViewInv, AppOK
<1>3. /\ u \in AppRec /\ u.shown = ui.shown /\ u.acting = ui.acting /\ u.reading = FALSE
      /\ u.detail = ui.detail
      /\ failed \in AppRec /\ failed.shown = ui.shown /\ failed.acting = ui.acting
      /\ shows \in AppRec /\ shows.shown = q.got /\ shows.acting = ui.acting
  BY <1>2, AppFields DEF AppRec, ReadRec
<1>4. \/ ~q.live /\ TakePending(ui, rest)
      \/ q.live /\ TakePending(u, rest)
      \/ q.live /\ TakePending(failed, rest)
      \/ /\ q.live /\ q.at = "read" /\ ui.detail # NoCard
         /\ \/ TakePending(RequestDetail(shows, ui.detail), Stale(rest, OpenCards))
            \/ TakePending(RequestDetail(shows, ui.detail), rest)
      \/ q.live /\ q.at = "read" /\ TakePending(shows, rest)
  BY <1>2 DEF ApplyBoardRead, Awaited, ReadRec
<1> HIDE DEF u, shows, failed, rest
<1>5. CASE ~q.live /\ TakePending(ui, rest)
  BY <1>1, <1>2, <1>5, ListStays DEF ViewInv, MoveOK
<1>6. ASSUME q.live
      PROVE  ui.shown \subseteq known /\ ~ui.acting
  BY <1>2, <1>6 DEF ViewInv, AppOK, WaitedFor
<1>7. ASSUME q.live, q.at = "read"
      PROVE  ui.shown \subseteq q.got /\ q.got \subseteq known
  BY <1>2, <1>7 DEF WaitedFor, ReadKnown
<1>8. CASE q.live /\ TakePending(u, rest)
  BY <1>1, <1>2, <1>3, <1>6, <1>8, ShowsList
<1>9. CASE q.live /\ TakePending(failed, rest)
  BY <1>1, <1>2, <1>3, <1>6, <1>9, ShowsList
<1>10. CASE q.live /\ q.at = "read" /\ TakePending(shows, rest)
  BY <1>1, <1>2, <1>3, <1>6, <1>7, <1>10, ShowsList
<1>11. CASE /\ q.live /\ q.at = "read" /\ ui.detail # NoCard
            /\ \/ TakePending(RequestDetail(shows, ui.detail), Stale(rest, OpenCards))
               \/ TakePending(RequestDetail(shows, ui.detail), rest)
  <2> DEFINE v == RequestDetail(shows, ui.detail)
             r == Stale(rest, OpenCards)
  <2>1. ui.detail \in OpenCards BY <1>11, AppFields DEF AppRec, Cards
  <2>2. v \in AppRec /\ v.shown = q.got /\ v.acting = ui.acting
    BY <1>3, <2>1, RequestsDetail
  <2>3. AppOK(ui, r, known) BY <1>1, StaleOK
  <2>4. \A s \in r : ~(s.of = Screen /\ s.live)
    <3> SUFFICES ASSUME NEW s \in r, s.of = Screen, s.live PROVE FALSE
      OBVIOUS
    <3>1. s \in rest
      <4>1. PICK t \in rest : s = IF t.of \in OpenCards THEN [t EXCEPT !.live = FALSE] ELSE t
        BY DEF Stale
      <4>2. t \in ReadRec BY <1>1 DEF AppOK
      <4>3. CASE t.of \in OpenCards BY <4>1, <4>2, <4>3 DEF ReadRec
      <4> QED BY <4>1, <4>3
    <3> QED BY <1>1, <1>11, <3>1
  <2> HIDE DEF v, r
  <2>5. CASE TakePending(v, r)
    BY <1>2, <1>6, <1>7, <1>11, <2>2, <2>3, <2>4, <2>5, ShowsList
  <2>6. CASE TakePending(v, rest)
    BY <1>1, <1>2, <1>6, <1>7, <1>11, <2>2, <2>6, ShowsList
  <2> QED BY <1>11, <2>5, <2>6 DEF v, r
<1> QED BY <1>4, <1>5, <1>8, <1>9, <1>10, <1>11

LEMMA DetailAnswers ==
  ASSUME ViewInv, NEW q \in running, ApplyDetailRead(q)
  PROVE  Onward
<1> DEFINE rest == running \ {q}
           u == [ui EXCEPT !.detailReading = NoCard]
           failed == [u EXCEPT !.detailFailed = TRUE]
           sees == [u EXCEPT !.seen = q.got, !.detailFailed = FALSE]
           Same(v) == /\ v \in AppRec /\ v.shown = ui.shown
                      /\ v.reading = ui.reading /\ v.acting = ui.acting
<1>1. AppOK(ui, rest, known') /\ UNCHANGED <<work, payload, written, known, told, ticks>>
  BY Rest DEF ApplyDetailRead
<1>2. q \in ReadRec BY AppFields
<1>3. Same(ui) /\ Same(u) /\ Same(failed) /\ Same(sees)
  BY <1>2, AppFields DEF AppRec, ReadRec, Cards
<1>4. \/ TakePending(ui, rest) \/ TakePending(u, rest)
      \/ TakePending(failed, rest) \/ TakePending(sees, rest)
  BY DEF ApplyDetailRead
<1> HIDE DEF rest, u, failed, sees
<1>5. ASSUME NEW v, Same(v), TakePending(v, rest) PROVE Onward
  <2>1. AppOK(v, rest, known') BY <1>1, <1>5, SameList
  <2> QED BY <1>1, <1>5, <2>1, ListStays DEF ViewInv, MoveOK
<1> QED BY <1>3, <1>4, <1>5

LEMMA MoveEnds ==
  ASSUME ViewInv, FinishMove
  PROVE  Onward
<1> DEFINE u == [ui EXCEPT !.acting = FALSE]
           failed == [u EXCEPT !.failed = TRUE]
           shows == [u EXCEPT !.shown = payload.got]
           Ends(v) == /\ v \in AppRec /\ v.shown \subseteq known /\ ~v.acting
                      /\ ui.shown \subseteq v.shown
<1>1. /\ work["move"] = "answer" /\ work' = [work EXCEPT !["move"] = "over"]
      /\ payload' = NoPayload /\ UNCHANGED <<written, known>>
  BY DEF FinishMove, JobAnswers
<1>2. AppOK(ui, running, known') /\ \A q \in running : ~(q.of = Screen /\ q.live)
  BY <1>1 DEF ViewInv, AppOK, WaitedFor, MoveOK, MoveRuns
<1>3. Ends(failed)
  BY AppFields DEF AppRec
<1>4. payload.at # "error" => Ends(shows)
  BY <1>1, AppFields DEF AppRec, ViewInv, MoveOK
<1>5. \/ TakePending(failed, running)
      \/ payload.at # "error" /\ TakePending(shows, running)
  BY DEF FinishMove
<1> HIDE DEF u, failed, shows
<1>6. ASSUME NEW v, Ends(v), TakePending(v, running) PROVE Onward
  <2>1. AppOK(v, running, known') BY <1>1, <1>2, <1>6, NoReads
  <2>2. AppOK(ui', running', known') /\ ui'.shown = v.shown /\ ui'.acting = v.acting
    BY <1>1, <1>6, <2>1, Starts DEF ViewInv
  <2>3. MoveOK'
    BY <1>1, <1>6, <2>2 DEF ViewInv, MoveOK, MoveRuns, NoPayload, Jobs
  <2> QED BY <1>1, <1>6, <2>2, <2>3 DEF Onward, ViewInv
<1> QED BY <1>3, <1>4, <1>5, <1>6

LEMMA StartEnds ==
  ASSUME ViewInv, FinishStart
  PROVE  Onward
<1> DEFINE u == RequestBoard(ui, TRUE)
<1>1. /\ u \in AppRec /\ u.shown = ui.shown /\ u.reading = ui.reading
      /\ u.acting = ui.acting
  BY AppFields DEF RequestBoard, AppRec
<1>2. /\ known \subseteq known' /\ known' \subseteq written /\ TakePending(u, running)
      /\ UNCHANGED <<written, payload>> /\ work' = [work EXCEPT !["start"] = "over"]
  BY DEF FinishStart, JobAnswers, ViewInv
<1> HIDE DEF u
<1>3. AppOK(ui, running, known') BY <1>2, MoreKnown DEF ViewInv
<1>4. AppOK(u, running, known') BY <1>1, <1>3, SameList
<1> QED BY <1>1, <1>2, <1>4, ListStays DEF ViewInv, MoveOK, Jobs

LEMMA ImportEnds ==
  ASSUME ViewInv, FinishImport
  PROVE  Onward
<1> DEFINE v == [ui EXCEPT !.reading = FALSE]
           u == RequestBoard(v, TRUE)
           r == Stale(running, {Screen})
<1>1. u \in AppRec /\ u.shown = ui.shown /\ u.acting = ui.acting
  BY AppFields DEF RequestBoard, AppRec
<1>2. /\ known \subseteq known' /\ known' \subseteq written /\ TakePending(u, r)
      /\ UNCHANGED <<written, payload>> /\ work' = [work EXCEPT !["import"] = "over"]
  BY DEF FinishImport, JobAnswers, ViewInv
<1>3. AppOK(ui, running, known') BY <1>2, MoreKnown DEF ViewInv
<1>4. AppOK(ui, r, known') /\ \A q \in r : ~(q.of = Screen /\ q.live)
  BY <1>3, StaleOK
<1> HIDE DEF u, v, r
<1>5. u.shown \subseteq known' BY <1>1, <1>2, AppFields
<1>6. AppOK(u, r, known') BY <1>1, <1>4, <1>5, NoReads
<1> QED BY <1>1, <1>2, <1>6, ListStays DEF ViewInv, MoveOK, Jobs

LEMMA ViewInvNext == ViewInv /\ [ViewNext]_viewVars => Onward
<1> SUFFICES ASSUME ViewInv, [ViewNext]_viewVars PROVE Onward
  OBVIOUS
<1>1. CASE UNCHANGED viewVars
  BY <1>1 DEF viewVars, Onward, ViewInv, MoveOK, MoveRuns
<1> QED
  BY <1>1, Refreshes, Opens, Closes, Moves, BeginsOther, Runs, ReadsForMove, ReadsOne,
     ListAnswers, DetailAnswers, MoveEnds, StartEnds, ImportEnds DEF ViewNext, Answers

-----------------------------------------------------------------------------
\* The list never loses a change it has shown, whatever answers late or fails
\* (refresh.go: the sequence numbers, invalidateBoardReads).
THEOREM ListGoesForward == ViewSpec => NeverBack
<1>1. ViewInv /\ [ViewNext]_viewVars => [ui.shown \subseteq ui'.shown]_viewVars
  BY ViewInvNext DEF Onward
<1>2. ViewInv /\ [ViewNext]_viewVars => ViewInv'
  BY ViewInvNext DEF Onward
<1> QED BY ViewInvInit, <1>1, <1>2, PTL DEF ViewSpec, NeverBack

-----------------------------------------------------------------------------
(* Who writes config.json.  A panel that holds the lock has the file before  *)
(* it as it is: nobody writes without the lock.  And what nobody edited in a *)
(* panel is there as the panel began, or as the session made it.             *)

Values == [Fields -> Nat]
Kinds == {"no", "scope", "prefs", "columns", "language"}
SaveRecs == [what : Kinds, value : Nat]
Holding(p) == configLock = p => read[p] = Validated(file) /\ ~AtRest(p)
ConfigTypeOK ==
  /\ file \in Values /\ settings \in Nat /\ configLock \in Panels \cup {Nobody}
  /\ base \in [Panels -> Values] /\ buffer \in [Panels -> Values]
  /\ touched \in [Panels -> SUBSET Fields]
  /\ read \in [Panels -> Values] /\ saving \in [Panels -> SaveRecs]
ConfigInv ==
  /\ ConfigTypeOK
  /\ \A p \in Panels : Holding(p)
  /\ \A p \in Panels : \A f \in Fields \ touched[p] : NotEdited(p, f)

\* A section of one configuration in another is a configuration.
LEMMA ReplacedType ==
  ASSUME NEW a \in Values, NEW b \in Values, NEW part
  PROVE  Replaced(a, part, b) \in Values
BY DEF Replaced, Values

LEMMA DefaultsType == Defaults \in Values /\ NotSaving \in SaveRecs
BY DEF Defaults, NotSaving, Values, SaveRecs, Kinds, Standard, Absent

\* What the session makes of a file: all fields but two are as validated.
LEMMA PreparedFields ==
  ASSUME NEW c \in Values
  PROVE  /\ Validated(c) \in Values /\ Prepared(c) \in Values
         /\ \A f \in Fields :
              \/ Prepared(c)[f] = Validated(c)[f]
              \/ f = "issue" /\ Prepared(c)[f] = Standard
              \/ f = "language" /\ Prepared(c)[f] = Resolved
<1>1. Validated(c) \in Values
  BY DEF Validated, Values, Standard, Absent
<1> DEFINE language == IF c["language"] = Absent THEN Resolved ELSE Validated(c)["language"]
           with == [Validated(c) EXCEPT !["issue"] = Standard]
<1>2. language \in Nat /\ (language = Resolved \/ language = Validated(c)["language"])
  BY <1>1 DEF Values, Fields, Resolved
<1>3. with \in Values /\ with["language"] = Validated(c)["language"]
      /\ with["issue"] = Standard
      /\ \A f \in Fields : f # "issue" => with[f] = Validated(c)[f]
  BY <1>1 DEF Values, Fields, Standard
<1>4. Prepared(c) = [with EXCEPT !["language"] = language]
  BY <1>3 DEF Prepared
<1> HIDE DEF language, with
<1>5. Prepared(c) \in Values /\ Prepared(c)["language"] = language
      /\ \A f \in Fields : f # "language" => Prepared(c)[f] = with[f]
  BY <1>2, <1>3, <1>4 DEF Values, Fields
<1> QED BY <1>1, <1>2, <1>3, <1>5

LEMMA ConfigInvInit == ConfigInit => ConfigInv
<1> SUFFICES ASSUME ConfigInit PROVE ConfigInv
  OBVIOUS
<1>1. file \in Values
  BY DefaultsType DEF ConfigInit, Values, Absent
<1>2. ConfigTypeOK
  BY <1>1, PreparedFields, DefaultsType DEF ConfigInit, ConfigTypeOK
<1>3. \A p \in Panels : Holding(p)
  BY ConfigAssumption DEF ConfigInit, Holding
<1>4. \A p \in Panels : \A f \in Fields \ touched[p] : NotEdited(p, f)
  BY <1>1, PreparedFields DEF ConfigInit, NotEdited
<1> QED BY <1>2, <1>3, <1>4 DEF ConfigInv

\* Outcome and SyncTUI: what is written is a configuration.
LEMMA OutcomeType ==
  ASSUME ConfigTypeOK, NEW p \in Panels, ~AtRest(p)
  PROVE  Outcome(p) \in Values
<1>1. CASE saving[p].what \in {"scope", "prefs"}
  BY <1>1, ReplacedType DEF ConfigTypeOK, Outcome
<1>2. CASE saving[p].what \in {"columns", "language"}
  BY <1>2 DEF ConfigTypeOK, Outcome, Values, SaveRecs, Fields
<1> QED BY <1>1, <1>2 DEF ConfigTypeOK, AtRest, SaveRecs, Kinds

\* The next edit has a number.
LEMMA NextValue == \A n \in Nat : Resolved + n \in Nat
BY DEF Resolved

\* A panel's next edit: the field is touched, every other as it was.
LEMMA EditsField ==
  ASSUME ConfigInv, NEW p \in Panels, NEW g \in Fields, Edit(p, g),
         settings' \in Nat, UNCHANGED base
  PROVE  /\ buffer' \in [Panels -> Values] /\ touched' \in [Panels -> SUBSET Fields]
         /\ \A q \in Panels : \A f \in Fields \ touched'[q] : NotEdited(q, f)'
<1>1. /\ buffer' = [buffer EXCEPT ![p] = [buffer[p] EXCEPT ![g] = Resolved + settings']]
      /\ touched' = [touched EXCEPT ![p] = touched[p] \cup {g}]
      /\ Resolved + settings' \in Nat
  <2>1. Resolved + settings' \in Nat
    BY NextValue
  <2> QED BY <2>1, Zenon DEF Edit
<1>2. buffer' \in [Panels -> Values] /\ touched' \in [Panels -> SUBSET Fields]
  <2>1. /\ buffer \in [Panels -> Values] /\ touched \in [Panels -> SUBSET Fields]
        /\ buffer[p] \in Values /\ touched[p] \cup {g} \in SUBSET Fields
    BY DEF ConfigInv, ConfigTypeOK
  <2>2. [buffer[p] EXCEPT ![g] = Resolved + settings'] \in Values
    BY <1>1, <2>1 DEF Values
  <2> QED BY <1>1, <2>1, <2>2
<1>3. ASSUME NEW q \in Panels, NEW f \in Fields \ touched'[q] PROVE NotEdited(q, f)'
  <2>1. f \notin touched[q] /\ (q = p => f # g)
    BY <1>1, <1>3 DEF ConfigInv, ConfigTypeOK
  <2>2. buffer'[q][f] = buffer[q][f]
    BY <1>1, <2>1 DEF ConfigInv, ConfigTypeOK, Values
  <2> QED BY <2>1, <2>2 DEF ConfigInv, NotEdited
<1> QED BY <1>2, <1>3

\* Unlocking: nobody holds the lock after it.
LEMMA Unlocks ==
  ASSUME ConfigInv, NEW p \in Panels, Unlock(p)
  PROVE  /\ settings' \in Nat /\ configLock' \in Panels \cup {Nobody}
         /\ read' \in [Panels -> Values] /\ saving' \in [Panels -> SaveRecs]
         /\ \A q \in Panels : Holding(q)'
BY DefaultsType, ConfigAssumption DEF Unlock, ConfigInv, ConfigTypeOK, Holding

LEMMA Loads ==
  ASSUME ConfigInv, NEW p \in Panels, LoadPanel(p)
  PROVE  ConfigInv'
<1>1. /\ base' = [base EXCEPT ![p] = Validated(file)]
      /\ buffer' = [buffer EXCEPT ![p] = Prepared(file)]
      /\ touched' = [touched EXCEPT ![p] = {}]
      /\ UNCHANGED <<file, settings, configLock, saving, read>>
  BY DEF LoadPanel
<1>2. file \in Values BY DEF ConfigInv, ConfigTypeOK
<1>3. ConfigTypeOK'
  BY <1>1, <1>2, PreparedFields DEF ConfigInv, ConfigTypeOK
<1>4. \A q \in Panels : Holding(q)'
  BY <1>1 DEF ConfigInv, Holding, AtRest
<1>5. ASSUME NEW q \in Panels, NEW f \in Fields \ touched'[q] PROVE NotEdited(q, f)'
  <2>1. CASE q = p
    <3>1. base'[q] = Validated(file) /\ buffer'[q] = Prepared(file)
      BY <1>1, <2>1 DEF ConfigInv, ConfigTypeOK
    <3> QED BY <1>2, <3>1, PreparedFields DEF NotEdited
  <2>2. CASE q # p
    BY <1>1, <1>5, <2>2 DEF ConfigInv, ConfigTypeOK, NotEdited
  <2> QED BY <2>1, <2>2
<1> QED BY <1>3, <1>4, <1>5 DEF ConfigInv

LEMMA Sets ==
  ASSUME ConfigInv, NEW p \in Panels,
         NEW what \in {"prefs", "columns", "language"}, SetValue(p, what)
  PROVE  ConfigInv'
<1>1. settings' \in Nat /\ [what |-> what, value |-> Resolved + settings'] \in SaveRecs
  BY DEF SetValue, ConfigInv, ConfigTypeOK, SaveRecs, Kinds, Resolved
<1>2. /\ AtRest(p) /\ saving' = [saving EXCEPT ![p] = [what |-> what, value |-> Resolved + settings']]
      /\ UNCHANGED <<file, configLock, base, read>>
  BY DEF SetValue
<1>3. /\ buffer' \in [Panels -> Values] /\ touched' \in [Panels -> SUBSET Fields]
      /\ \A q \in Panels : \A f \in Fields \ touched'[q] : NotEdited(q, f)'
  <2>1. CASE what = "prefs"
    BY <1>1, <1>2, <2>1, EditsField DEF SetValue, Fields
  <2>2. CASE what # "prefs"
    BY <1>2, <2>2 DEF SetValue, ConfigInv, ConfigTypeOK, NotEdited
  <2> QED BY <2>1, <2>2
<1>4. ConfigTypeOK'
  BY <1>1, <1>2, <1>3 DEF ConfigInv, ConfigTypeOK
<1>5. \A q \in Panels : Holding(q)'
  BY <1>2 DEF ConfigInv, ConfigTypeOK, Holding, AtRest
<1> QED BY <1>3, <1>4, <1>5 DEF ConfigInv

\* A write, and what the session makes of it.
LEMMA Writes ==
  ASSUME ConfigInv, NEW p \in Panels, WriteConfig(p)
  PROVE  ConfigInv'
<1>1. Unlock(p) /\ file' = Outcome(p) /\ ~AtRest(p)
  BY DEF WriteConfig, ConfigInv, Holding
<1>2. file' \in Values
  BY <1>1, OutcomeType DEF ConfigInv
<1>3. CASE saving[p].what = "scope"
  <2>1. /\ base' = [base EXCEPT ![p] = buffer[p]] /\ UNCHANGED buffer
        /\ touched' = [touched EXCEPT ![p] = {}]
    BY <1>3 DEF WriteConfig
  <2>2. ConfigTypeOK'
    BY <1>1, <1>2, <2>1, Unlocks DEF ConfigInv, ConfigTypeOK
  <2>3. ASSUME NEW q \in Panels, NEW f \in Fields \ touched'[q] PROVE NotEdited(q, f)'
    BY <2>1, <2>3 DEF ConfigInv, ConfigTypeOK, NotEdited
  <2> QED BY <1>1, <2>2, <2>3, Unlocks DEF ConfigInv
<1>4. CASE saving[p].what = "language"
  <2>1. UNCHANGED <<base, buffer, touched>>
    BY <1>4 DEF WriteConfig
  <2>2. ConfigTypeOK'
    BY <1>1, <1>2, <2>1, Unlocks DEF ConfigInv, ConfigTypeOK
  <2> QED BY <1>1, <2>1, <2>2, Unlocks DEF ConfigInv, NotEdited
<1>5. CASE saving[p].what \notin {"scope", "language"}
  <2>1. /\ base' = [base EXCEPT ![p] = Replaced(base[p], TUI, file')]
        /\ buffer' = [buffer EXCEPT ![p] = Replaced(buffer[p], TUI, file')]
        /\ touched' = [touched EXCEPT ![p] = touched[p] \ TUI]
    BY <1>5 DEF WriteConfig
  <2>2. /\ Replaced(base[p], TUI, file') \in Values
        /\ Replaced(buffer[p], TUI, file') \in Values
    BY <1>2, ReplacedType DEF ConfigInv, ConfigTypeOK
  <2>3. ConfigTypeOK'
    BY <1>1, <1>2, <2>1, <2>2, Unlocks DEF ConfigInv, ConfigTypeOK
  <2>4. ASSUME NEW q \in Panels, NEW f \in Fields \ touched'[q] PROVE NotEdited(q, f)'
    <3>1. CASE q = p /\ f \in TUI
      <4>1. base'[q][f] = file'[f] /\ buffer'[q][f] = file'[f]
        BY <2>1, <3>1 DEF ConfigInv, ConfigTypeOK, Replaced
      <4> QED BY <4>1 DEF NotEdited
    <3>2. CASE q = p /\ f \notin TUI
      <4>1. f \notin touched[q] /\ base'[q][f] = base[q][f] /\ buffer'[q][f] = buffer[q][f]
        BY <2>1, <2>4, <3>2 DEF ConfigInv, ConfigTypeOK, Replaced
      <4> QED BY <4>1 DEF ConfigInv, NotEdited
    <3>3. CASE q # p
      BY <2>1, <2>4, <3>3 DEF ConfigInv, ConfigTypeOK, NotEdited
    <3> QED BY <3>1, <3>2, <3>3
  <2> QED BY <1>1, <2>3, <2>4, Unlocks DEF ConfigInv
<1> QED BY <1>3, <1>4, <1>5

LEMMA ConfigInvNext == ConfigInv /\ [ConfigNext]_configVars => ConfigInv'
<1> SUFFICES ASSUME ConfigInv, [ConfigNext]_configVars PROVE ConfigInv'
  OBVIOUS
<1>1. ASSUME NEW p \in Panels, NEW f \in {"rules", "issue", "language"}, EditPanel(p, f)
      PROVE  ConfigInv'
  <2>1. f \in Fields /\ settings' \in Nat /\ Edit(p, f)
        /\ UNCHANGED <<file, configLock, base, saving, read>>
    BY <1>1 DEF EditPanel, Fields, ConfigInv, ConfigTypeOK
  <2>2. /\ buffer' \in [Panels -> Values] /\ touched' \in [Panels -> SUBSET Fields]
        /\ \A q \in Panels : \A g \in Fields \ touched'[q] : NotEdited(q, g)'
    BY <2>1, EditsField
  <2> QED BY <2>1, <2>2 DEF ConfigInv, ConfigTypeOK, Holding, AtRest
<1>2. ASSUME NEW p \in Panels, NEW what \in {"prefs", "scope"}, SavePanel(p, what)
      PROVE  ConfigInv'
  <2>1. [what |-> what, value |-> Absent] \in SaveRecs
    BY DEF SaveRecs, Kinds, Absent
  <2>2. /\ AtRest(p) /\ saving' = [saving EXCEPT ![p] = [what |-> what, value |-> Absent]]
        /\ UNCHANGED <<file, settings, configLock, base, buffer, touched, read>>
    BY <1>2 DEF SavePanel
  <2>3. ConfigTypeOK' /\ \A q \in Panels : Holding(q)'
    BY <2>1, <2>2 DEF ConfigInv, ConfigTypeOK, Holding, AtRest
  <2> QED BY <2>2, <2>3 DEF ConfigInv, NotEdited
<1>3. ASSUME NEW p \in Panels, LockAndRead(p) PROVE ConfigInv'
  <2>1. /\ ~AtRest(p) /\ configLock' = p /\ read' = [read EXCEPT ![p] = Validated(file)]
        /\ UNCHANGED <<file, settings, base, buffer, touched, saving>>
    BY <1>3 DEF LockAndRead
  <2>2. Validated(file) \in Values BY PreparedFields DEF ConfigInv, ConfigTypeOK
  <2>3. ConfigTypeOK' /\ \A q \in Panels : Holding(q)'
    BY <2>1, <2>2 DEF ConfigInv, ConfigTypeOK, Holding, AtRest
  <2> QED BY <2>1, <2>3 DEF ConfigInv, NotEdited
<1>4. ASSUME NEW p \in Panels, SaveFails(p) PROVE ConfigInv'
  <2>1. Unlock(p) /\ UNCHANGED <<file, base, buffer, touched>>
    BY <1>4 DEF SaveFails
  <2> QED BY <2>1, Unlocks DEF ConfigInv, ConfigTypeOK, NotEdited
<1>5. CASE UNCHANGED configVars
  BY <1>5 DEF configVars, ConfigInv, ConfigTypeOK, Holding, AtRest, NotEdited
<1> QED BY <1>1, <1>2, <1>3, <1>4, <1>5, Loads, Sets, Writes DEF ConfigNext

\* No section that differs from both means: it is as it was when the panel
\* began, or as the panel has it.
LEMMA Compared ==
  ASSUME NEW p \in Panels, ~Conflicts(p), NEW f \in Fields
  PROVE  read[p][f] = base[p][f] \/ read[p][f] = buffer[p][f]
BY DEF Conflicts, Sections, Fields, TUI

LEMMA WritesWhatIsMeant ==
  ASSUME ConfigInv, [ConfigNext]_configVars, NEW p \in Panels, NEW f \in Fields,
         configLock = p, Overwrites(f)
  PROVE  /\ f \in Meant(p) \/ (saving[p].what = "scope" /\ f \in {"issue", "language"}
                              /\ NotEdited(p, f))
         /\ saving[p].what = "scope" => base[p][f] = Validated(file)[f]
<1>1. PICK q \in Panels : WriteConfig(q)
  BY DEF Overwrites, ConfigNext, configVars, LoadPanel, EditPanel, SetValue, SavePanel,
         LockAndRead, SaveFails
<1>2. q = p /\ file' = Outcome(p) /\ read[p] = Validated(file) /\ ~AtRest(p)
  BY <1>1 DEF WriteConfig, ConfigInv, Holding
<1>3. file'[f] # read[p][f] BY <1>2 DEF Overwrites
<1>4. CASE saving[p].what = "scope"
  <2>1. file'[f] = buffer[p][f] BY <1>2, <1>4 DEF Outcome
  <2>2. read[p][f] = base[p][f] /\ buffer[p][f] # base[p][f]
    BY <1>1, <1>2, <1>3, <1>4, <2>1, Compared DEF WriteConfig
  <2>3. f \in touched[p] \/ (f \in {"issue", "language"} /\ NotEdited(p, f))
    BY <2>2 DEF ConfigInv, NotEdited
  <2> QED BY <1>2, <1>4, <2>2, <2>3 DEF Meant
<1>5. CASE saving[p].what = "prefs"
  BY <1>2, <1>3, <1>5 DEF Outcome, Replaced, Meant
<1>6. CASE saving[p].what \in {"columns", "language"}
  BY <1>2, <1>3, <1>6 DEF Outcome, Meant, ConfigInv, ConfigTypeOK, Values
<1> QED BY <1>2, <1>4, <1>5, <1>6 DEF ConfigInv, ConfigTypeOK, AtRest, SaveRecs, Kinds

-----------------------------------------------------------------------------
\* Whoever saves changes no value but those it is meant to set, and a panel
\* only where the file says what it began from; the two fields the session
\* does not take from the file are the exception the property names
\* (loadsave.go: SaveIfUnchanged, Update; prefs.go: savePrefs; options.go:
\* prepare).
THEOREM SavesWhatIsMeant == ConfigSpec => NothingOverwritten
<1>1. ConfigInv /\ [ConfigNext]_configVars =>
        [\A p \in Panels, f \in Fields :
           configLock = p /\ Overwrites(f) =>
             /\ f \in Meant(p) \/ (saving[p].what = "scope" /\ f \in {"issue", "language"}
                                  /\ NotEdited(p, f))
             /\ saving[p].what = "scope" => base[p][f] = Validated(file)[f]]_configVars
  BY WritesWhatIsMeant
<1> QED BY ConfigInvInit, ConfigInvNext, <1>1, PTL DEF ConfigSpec, NothingOverwritten
=============================================================================
