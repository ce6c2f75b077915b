------------------------- MODULE MCCardTransactions -------------------------
(* Small boards for TLC. *)
EXTENDS CardTransactions, TLC

CONSTANTS c1, c2, g1, p1, p2

J(kind, cards, groups, to) ==
    [kind |-> kind, cards |-> cards, groups |-> groups, to |-> to]

MCCard == {c1, c2}
MCRank == (BoardLock :> 0) @@ (g1 :> 1) @@ (c1 :> 2) @@ (c2 :> 3)

\* Both cards exist / the second is still to be created.
MCBoth == (c1 :> "todo") @@ (c2 :> "backlog")
MCPlaces == (c1 :> "todo") @@ (c2 :> Absent)

\* A write of two cards and a group, two moves that write the group too, both
\* kinds of snapshot, and a recovery.
MCJobs == { J("update", {c1, c2}, {g1}, Absent),
            J("move", {c1}, {g1}, "archived"), J("move", {c2}, {g1}, "todo"),
            J("read", {c1, c2}, {}, Absent), J("scan", {}, {}, Absent), InitJob }

\* A document write, a creation and a recovery, among edits from outside.
MCLiveJobs == { J("update", {c1}, {g1}, Absent), J("create", {c2}, {}, "backlog"),
                J("read", {c1}, {}, Absent), InitJob }

\* Bound: together, interruptions and edits.
Upsets == faults + edits <= 2

Symmetry == Permutations(Proc) \cup Permutations(Op)
=============================================================================
