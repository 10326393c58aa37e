----------------------------- MODULE AppendOnce -----------------------------
(***************************************************************************)
(* What an archive promises: it stores items for good, in the order it     *)
(* takes them, and none of them twice.                                     *)
(***************************************************************************)
EXTENDS Sequences, Functions

CONSTANT Items
VARIABLE entries

Init == entries = <<>>

Add(x) ==
    /\ x \notin Range(entries)
    /\ entries' = Append(entries, x)

Next == \E x \in Items : Add(x)

Spec == Init /\ [][Next]_entries
=============================================================================
