------------------------------- MODULE MCPrune -------------------------------
(* Two batches with two runs and one plan: enough for a kept run to keep    *)
(* its batch, that batch its plan, and the plan the other batch.            *)
EXTENDS Prune, TLC

\* No chain is a circle, some batch is planned, and every card has evidence.
MCEvidence ==
    {g \in Graphs :
        /\ \A r \in Run : g.run[r].prev # None => g.run[g.run[r].prev].prev = None
        /\ \A b \in Batch : g.batch[b].prev # None => g.batch[g.batch[b].prev].prev = None
        /\ \A p \in Plan : g.plan[p] = Existing
        /\ \E b \in Batch : g.batch[b].plan # None
        /\ \A c \in Existing : \E r \in Run : c \in g.batch[g.run[r].batch].tasks}

Identities == Permutations(Run) \cup Permutations(Batch) \cup Permutations(Existing \ Grouped)
=============================================================================
