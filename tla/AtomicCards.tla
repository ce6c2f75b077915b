----------------------------- MODULE AtomicCards -----------------------------
(***************************************************************************)
(* What the journal promises to the commands above it: a board of cards    *)
(* and control documents that change in indivisible operations, and        *)
(* snapshots taken in one instant.  CardTransactions implements it.        *)
(***************************************************************************)
EXTENDS CardStates, Naturals

CONSTANTS Proc, Card, Group, Op, InitPlace, None

VARIABLES
    card,   \* card -> [place, text, rev, frozen]
    group,  \* group -> the operations its control document reflects
    view    \* process -> card -> the snapshot it holds, or None

vars == <<card, group, view>>

Init ==
    /\ card = [c \in Card |-> [place |-> InitPlace[c], text |-> {}, rev |-> 0,
                               frozen |-> InitPlace[c] \notin {"backlog", Absent}]]
    /\ group = [g \in Group |-> {}]
    /\ view = [p \in Proc |-> [c \in Card |-> None]]

\* An operation no card or group reflects yet.
Fresh(id) == /\ \A c \in Card : id \notin card[c].text
             /\ \A g \in Group : id \notin group[g]

\* The card after one operation: its text keeps everything it reflected, its
\* revision counts one more, and a contract that left backlog stays frozen.
After(c, id, place) ==
    [ place |-> place, text |-> card[c].text \cup {id}, rev |-> card[c].rev + 1,
      frozen |-> \/ card[c].frozen
                 \/ place # card[c].place /\ (place # "backlog" \/ card[c].place # Absent) ]

\* One operation on any set of cards and groups, read off the next values: all
\* of it or nothing, never on an archived card, only along allowed moves.
Commit(id) ==
    LET C == {c \in Card : id \in card'[c].text}
        G == {g \in Group : id \in group'[g]}
        to == [c \in Card |-> card'[c].place] IN
    /\ Fresh(id)
    /\ \A c \in C : /\ card[c].place # "archived"
                    /\ to[c] # card[c].place =>
                         \/ card[c].place = Absent /\ to[c] = "backlog"
                         \/ card[c].place # Absent /\ allowedMove(card[c].place, to[c])
    /\ card' = [c \in Card |-> IF c \in C THEN After(c, id, to[c]) ELSE card[c]]
    /\ group' = [g \in Group |-> IF g \in G THEN group[g] \cup {id} ELSE group[g]]
    /\ UNCHANGED view

\* p learns the present state of the cards in C, all at once.
Observe(p, C) ==
    /\ view' = [view EXCEPT ![p] = [c \in Card |->
                  IF c \notin C THEN view[p][c]
                  ELSE IF card[c].place = Absent THEN None ELSE card[c]]]
    /\ UNCHANGED <<card, group>>

Forget(p) ==
    /\ view' = [view EXCEPT ![p] = [c \in Card |-> None]]
    /\ UNCHANGED <<card, group>>

Next == \/ \E id \in Op : Commit(id)
        \/ \E p \in Proc : Forget(p) \/ \E C \in SUBSET Card : Observe(p, C)

Spec == Init /\ [][Next]_vars
==============================================================================
