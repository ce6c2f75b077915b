----------------------------- MODULE ConfigEdits -----------------------------
(* Who writes config.json (internal/config/loadsave.go): the options panels  *)
(* of several terminal interfaces (menu/session_overlay.go), the preferences *)
(* and the column keys (tui/prefs.go), and commands that set one value.      *)
(* Every write reads, decides and replaces the whole file under one lock; a  *)
(* panel also compares the file with the text it began from, section by      *)
(* section.  What a panel edits is not what it compares with: the session    *)
(* builds its buffer anew, field by field (menu/options.go: prepare).        *)
EXTENDS Naturals

CONSTANTS
  Panels,       \* terminal interfaces, each with an options session
  Nobody,
  MaxSettings   \* bound: edits

ASSUME ConfigAssumption == Nobody \notin Panels

\* Sections of Config and their fields: tui has two that are set apart, "issue"
\* is issue.result_on_done, "rules" stands for every section prepare copies.
Fields == {"columns", "theme", "rules", "issue", "language"}
TUI == {"columns", "theme"}
Sections == {TUI, {"rules"}, {"issue"}, {"language"}}

\* Values of a field: no key in the file, the value Validate puts there, the
\* language of the environment, and those set by edits, numbered after them.
Absent == 0
Standard == 1
Resolved == 2

VARIABLES
  file,     \* config.json
  settings, \* edits so far
  configLock,     \* who holds config.json.lock
  base,     \* base[p]: Session.scopeExisting
  buffer,   \* buffer[p]: Session.scopeConfig
  touched,  \* touched[p]: the fields edited in the panel, not yet saved
  saving,   \* saving[p]: what p is writing: "no", "scope", "prefs", "columns"
            \*   or "language", and wants: the value set, if one is
  read      \* read[p]: the file as read under the lock

configVars == <<file, settings, configLock, base, buffer, touched, saving, read>>

Defaults == [f \in Fields |-> Standard]
NotSaving == [what |-> "no", value |-> Absent]

\* Validate: a file without a key is read as one with the default.
Validated(config) ==
  [f \in Fields |-> IF config[f] = Absent THEN Standard ELSE config[f]]

\* prepare and loadOptionsSession, from what validation read: Issue is not
\* copied, and a language the file does not name is that of the environment.
Prepared(config) ==
  [Validated(config) EXCEPT
     !["issue"] = Standard,
     !["language"] = IF config["language"] = Absent THEN Resolved ELSE @]

\* An old file without keys, or a complete one.
ConfigInit ==
  /\ file \in {[f \in Fields |-> Absent], Defaults}
  /\ settings = 0 /\ configLock = Nobody
  /\ base = [p \in Panels |-> Validated(file)]
  /\ buffer = [p \in Panels |-> Prepared(file)]
  /\ touched = [p \in Panels |-> {}]
  /\ saving = [p \in Panels |-> NotSaving]
  /\ read = [p \in Panels |-> Defaults]

\* A section of one configuration replaced by that of another.
Replaced(config, part, other) ==
  [f \in Fields |-> IF f \in part THEN other[f] ELSE config[f]]

-----------------------------------------------------------------------------
AtRest(p) == saving[p].what = "no"

\* The panel is opened again: what it held unsaved is dropped.
LoadPanel(p) ==
  /\ AtRest(p) /\ base' = [base EXCEPT ![p] = Validated(file)]
  /\ buffer' = [buffer EXCEPT ![p] = Prepared(file)]
  /\ touched' = [touched EXCEPT ![p] = {}]
  /\ UNCHANGED <<file, settings, configLock, saving, read>>

\* The next edit sets a field of the panel.
Edit(p, f) ==
  /\ buffer' = [buffer EXCEPT ![p][f] = Resolved + settings']
  /\ touched' = [touched EXCEPT ![p] = @ \cup {f}]

\* SetRules, SetIssueResultOnDone, SetLanguage: kept until the panel is saved.
EditPanel(p, f) ==
  /\ AtRest(p) /\ settings < MaxSettings /\ settings' = settings + 1 /\ Edit(p, f)
  /\ UNCHANGED <<file, configLock, base, saving, read>>

\* A preference or the columns, or a command that sets the language.
SetValue(p, what) ==
  /\ AtRest(p) /\ settings < MaxSettings /\ settings' = settings + 1
  /\ saving' = [saving EXCEPT ![p] = [what |-> what, value |-> Resolved + settings']]
  /\ IF what = "prefs" THEN Edit(p, "theme") ELSE UNCHANGED <<buffer, touched>>
  /\ UNCHANGED <<file, configLock, base, read>>

\* Saving, or leaving a page that saves: persistUI, then saveScope, whether
\* anything was edited or not.
SavePanel(p, what) ==
  /\ AtRest(p) /\ saving' = [saving EXCEPT ![p] = [what |-> what, value |-> Absent]]
  /\ UNCHANGED <<file, settings, configLock, base, buffer, touched, read>>

-----------------------------------------------------------------------------
\* withConfigLockFile, and what loadValidated reads first.
LockAndRead(p) ==
  /\ ~AtRest(p) /\ configLock = Nobody
  /\ configLock' = p /\ read' = [read EXCEPT ![p] = Validated(file)]
  /\ UNCHANGED <<file, settings, base, buffer, touched, saving>>

\* configEditConflicts: someone else changed a section to something else.
\* Slip: only the sections edited here are compared.
Conflicts_Edited(p) ==
  \E part \in Sections :
    /\ \E f \in part : read[p][f] # base[p][f]
    /\ \E f \in part : read[p][f] # buffer[p][f]
    /\ \E f \in part : buffer[p][f] # base[p][f]
Conflicts(p) ==
  \E part \in Sections :
    /\ \E f \in part : read[p][f] # base[p][f]
    /\ \E f \in part : read[p][f] # buffer[p][f]

\* What SaveIfUnchanged, savePrefs, saveColumns and Update write.
Outcome(p) ==
  CASE saving[p].what = "scope" -> buffer[p]
    [] saving[p].what = "prefs" -> Replaced(read[p], TUI, buffer[p])
    [] OTHER -> [read[p] EXCEPT ![saving[p].what] = saving[p].value]

Unlock(p) ==
  /\ configLock' = Nobody /\ saving' = [saving EXCEPT ![p] = NotSaving]
  /\ read' = [read EXCEPT ![p] = Defaults] /\ UNCHANGED settings

\* The session follows: saveScope, and SyncTUI of what was written.
WriteConfig(p) ==
  /\ configLock = p /\ ~(saving[p].what = "scope" /\ Conflicts(p))
  /\ file' = Outcome(p) /\ Unlock(p)
  /\ CASE saving[p].what = "scope" ->
            /\ base' = [base EXCEPT ![p] = buffer[p]] /\ UNCHANGED buffer
            /\ touched' = [touched EXCEPT ![p] = {}]
       [] saving[p].what = "language" -> UNCHANGED <<base, buffer, touched>>
       [] OTHER -> /\ base' = [base EXCEPT ![p] = Replaced(@, TUI, file')]
                   /\ buffer' = [buffer EXCEPT ![p] = Replaced(@, TUI, file')]
                   /\ touched' = [touched EXCEPT ![p] = @ \ TUI]

\* Refused, or the file could not be written: the edits stay in the panel.
SaveFails(p) ==
  /\ configLock = p /\ Unlock(p) /\ UNCHANGED <<file, base, buffer, touched>>

ConfigNext ==
  \E p \in Panels :
    \/ LoadPanel(p)
    \/ \E f \in {"rules", "issue", "language"} : EditPanel(p, f)
    \/ \E what \in {"prefs", "scope"} : SavePanel(p, what)
    \/ \E what \in {"prefs", "columns", "language"} : SetValue(p, what)
    \/ LockAndRead(p) \/ WriteConfig(p) \/ SaveFails(p)

ConfigSpec == ConfigInit /\ [][ConfigNext]_configVars

-----------------------------------------------------------------------------
\* What a save is of.
Meant(p) ==
  CASE saving[p].what = "scope" -> touched[p]
    [] saving[p].what = "prefs" -> TUI
    [] OTHER -> {saving[p].what}

\* What a panel holds of a field without anyone having edited it there.
NotEdited(p, f) ==
  \/ buffer[p][f] = base[p][f]
  \/ f = "issue" /\ buffer[p][f] = Standard
  \/ f = "language" /\ buffer[p][f] = Resolved

Overwrites(f) == file' # file /\ file'[f] # Validated(file)[f]

(* Whoever saves changes no value but those it is meant to set, and a panel  *)
(* only where the file still says what the panel began from; preferences     *)
(* replace their section (savePrefs, SaveIfUnchanged, Update).  A panel also *)
(* sets the two fields the session does not take from the file (prepare),    *)
(* to the values the session gave them; see IssueModeKept.                   *)
NothingOverwritten ==
  [][\A p \in Panels, f \in Fields :
       configLock = p /\ Overwrites(f) =>
         /\ f \in Meant(p) \/ (saving[p].what = "scope" /\ f \in {"issue", "language"}
                              /\ NotEdited(p, f))
         /\ saving[p].what = "scope" => base[p][f] = Validated(file)[f]]_configVars

(* Saving a panel leaves the handoff of a finished issue as the user has set *)
(* it, unless it was edited in the panel: the session "prepares the editable *)
(* config from existing" (menu/options.go, NewSession).                      *)
IssueModeKept ==
  [][\A p \in Panels :
       configLock = p /\ saving[p].what = "scope" /\ Overwrites("issue") =>
         "issue" \in touched[p]]_configVars
=============================================================================
