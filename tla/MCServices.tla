----------------------------- MODULE MCServices -----------------------------
(* Seven services that share no state, checked in one run: a behaviour is one *)
(* of theirs, chosen at the start, while the others stay as they began.      *)
EXTENDS SummaryIndex, IssueResults, IssueImport, Subscription, Migration,
        BoardView, ConfigEdits

VARIABLE service

MCCommits == [d \in Docs |-> 1]
MCEvidence == [d \in Docs |-> d]

vars == <<service, indexVars, resultVars, importVars, subVars, formVars,
          viewVars, configVars>>

Services == {"index", "results", "import", "subscription", "migration",
             "view", "config"}

Init ==
  /\ service \in Services
  /\ IndexInit /\ ResultInit /\ ImportInit /\ SubInit /\ MigrationInit
  /\ ViewInit /\ ConfigInit
  /\ service # "results" => doc = 1      \* the services that do not run
  /\ service # "import" => taken = {}    \* begin in one state each
  /\ service # "config" => file = Defaults

Next ==
  /\ UNCHANGED service
  /\ \/ /\ service = "index" /\ IndexNext
        /\ UNCHANGED <<resultVars, importVars, subVars, formVars, viewVars, configVars>>
     \/ /\ service = "results" /\ ResultNext
        /\ UNCHANGED <<indexVars, importVars, subVars, formVars, viewVars, configVars>>
     \/ /\ service = "import" /\ ImportNext
        /\ UNCHANGED <<indexVars, resultVars, subVars, formVars, viewVars, configVars>>
     \/ /\ service = "subscription" /\ SubNext
        /\ UNCHANGED <<indexVars, resultVars, importVars, formVars, viewVars, configVars>>
     \/ /\ service = "migration" /\ MigrationNext
        /\ UNCHANGED <<indexVars, resultVars, importVars, subVars, viewVars, configVars>>
     \/ /\ service = "view" /\ ViewNext
        /\ UNCHANGED <<indexVars, resultVars, importVars, subVars, formVars, configVars>>
     \/ /\ service = "config" /\ ConfigNext
        /\ UNCHANGED <<indexVars, resultVars, importVars, subVars, formVars, viewVars>>

\* SubFairness and ViewFairness, for the behaviours that are theirs.
Subscribed(A) == service = "subscription" /\ A
Fairness ==
  /\ WF_subVars(Subscribed(Loop))
  /\ WF_subVars(Subscribed(WriteLine \/ WriteFails))
  /\ WF_subVars(Subscribed(ProbeEnds))
  /\ WF_viewVars(service = "view" /\ Answers)

Spec == Init /\ [][Next]_vars /\ Fairness
=============================================================================
