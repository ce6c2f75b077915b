--------------------------- MODULE ExecutionGrants ---------------------------
(***************************************************************************)
(* What the dispatch protocol promises about one card: authority to work   *)
(* on it is granted one token at a time, a token is never granted twice,   *)
(* and only the newest grant can still change.  DurableDispatch implements *)
(* it.                                                                     *)
(***************************************************************************)
EXTENDS Naturals, Sequences

CONSTANT Token

VARIABLE grants     \* every grant ever made, oldest first: [token, status]

live == {"offered", "accepted"}

Init == grants = <<>>

Granted == {grants[i].token : i \in 1..Len(grants)}

\* Granting again takes the authority from whoever still had it.
Revoked == [i \in 1..Len(grants) |->
              IF grants[i].status \in live THEN [grants[i] EXCEPT !.status = "revoked"]
                                           ELSE grants[i]]

Grant(t) == /\ t \notin Granted
            /\ grants' = Append(Revoked, [token |-> t, status |-> "offered"])

Become(from, to) ==
    LET n == Len(grants) IN
    /\ n > 0 /\ grants[n].status \in from
    /\ grants' = [grants EXCEPT ![n].status = to]

Accept == Become({"offered"}, "accepted")
Complete == Become({"accepted"}, "completed")
Revoke == Become(live, "revoked")

Next == (\E t \in Token : Grant(t)) \/ Accept \/ Complete \/ Revoke

Spec == Init /\ [][Next]_grants
==============================================================================
