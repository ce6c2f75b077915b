----------------------------- MODULE CardStates -----------------------------
(***************************************************************************)
(* The vocabulary every card module shares: the state directories of a     *)
(* board and the moves between them (internal/board/board.go).             *)
(***************************************************************************)

States == {"backlog", "todo", "working", "review", "done", "archived", "trash"}

transitions ==
    [ backlog  |-> {"todo", "archived", "trash"},
      todo     |-> {"backlog", "working", "archived", "trash"},
      working  |-> {"review", "done", "archived", "trash"},
      review   |-> {"working", "done", "archived", "trash"},
      done     |-> {"archived", "trash"},
      archived |-> {},
      trash    |-> {} ]

allowedMove(from, to) == to \in transitions[from]

\* A card that does not exist yet lies in no state directory.
Absent == "absent"

Places == States \cup {Absent}
=============================================================================
