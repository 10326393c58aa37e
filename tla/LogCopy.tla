------------------------------ MODULE LogCopy ------------------------------
(***************************************************************************)
(* What the sqlite copy promises to those who ask it instead of git:       *)
(* poll_fs() is as good as one step, which brings the rows from one point  *)
(* of the history to a later one, or to the same.                          *)
(***************************************************************************)
EXTENDS GitHistory

CONSTANT Dumps
VARIABLES history,  \* what git has
          rows,     \* the dumps with a row
          head      \* the commit the rows stand for

Init == history = <<>> /\ rows = {} /\ head = 0

Commit(d) ==
    /\ history' = Append(history, d)
    /\ UNCHANGED <<rows, head>>

Poll(to) ==
    /\ rows' = Rows(history, to) /\ head' = to
    /\ UNCHANGED history

Next ==
    \/ \E d \in Dumps : Commit(d)
    \/ \E to \in head..Len(history) : Poll(to)

Spec == Init /\ [][Next]_<<history, rows, head>>
=============================================================================
