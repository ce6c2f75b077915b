----------------------------- MODULE MCReviews -----------------------------
(* Reviews on small boards: the identities are model values.  Three bounds on *)
(* one pool of cards, batches and commits; the run explores what keeps to     *)
(* one of them.                                                               *)
EXTENDS Reviews, TLC

Opened == {b \in Batch : batch[b] # None}

\* One batch over one card, any two commands, reports to be read; the author
\* answers again only what was confirmed.
OneCard ==
    /\ \A r \in Run : run[r] # None => run[r].report # "clean"
    /\ Cardinality(Opened) <= 1 /\ (plan # None => Len(plan.batches) = 1)
    /\ \E t \in Task :
         /\ \A b \in Opened : batch[b].tasks = {t}
         /\ \A u \in Task \ {t} : card[u] = [place |-> "working", cycle |-> 0]
         /\ \A r \in Run : ledger[r] # None =>
              (Len(ledger[r].records[t]) > 1 => ledger[r].records[t][1].status = "confirmed")

\* Plans over both cards: one command at a time, one run per batch, which does
\* not fail and finds nothing.
TwoCards ==
    /\ \A b \in Opened : Cardinality(RunsOf(b)) <= 1
    /\ \A r \in Run : run[r] # None =>
         run[r].status \in {"incomplete", "ok"} /\ run[r].report \in {"none", "clean"}
    /\ \A p, q \in Proc : proc[p] # None /\ proc[q] # None => p = q

\* Their targets move, and none is delivered before it is done.
Targets ==
    /\ TwoCards
    /\ \A t \in Task : card[t].cycle = 0 /\ card[t].place # "review"

\* No commit is made; one card at a time is in review, until the first is
\* reclaimed.
Cycles ==
    /\ TwoCards /\ head = 1
    /\ \A b \in Opened : batch[b].base = 1
    /\ \A t \in Task : card[t].place = "review" =>
         \A u \in Task : card[u].cycle = 0 /\ (u # t => card[u].place # "review")

Regimes == OneCard \/ Targets \/ Cycles

Identities == Permutations(Task) \cup Permutations(Batch)
              \cup Permutations(Run) \cup Permutations(Proc)
=============================================================================
