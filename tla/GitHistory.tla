----------------------------- MODULE GitHistory -----------------------------
(***************************************************************************)
(* The git history that rkngitar writes, and the two reads of it that the  *)
(* sqlite copy is built from.                                              *)
(*                                                                         *)
(* Every commit has one parent (`git commit-tree -p HEAD`), so a branch is *)
(* a sequence of commits, oldest first.  A commit is represented by the    *)
(* dump it stores, and a ref by the length of the history it points at;    *)
(* position 0 stands for the commits of git_init(), which store no dump    *)
(* and leave no row, and also for a cache that has no ref yet: `git log X` *)
(* and `git log root..X` give the same rows.                               *)
(***************************************************************************)
EXTENDS Integers, Sequences, FiniteSets, Functions

\* The dumps stored by the first k commits.
Rows(branch, k) == {branch[i] : i \in 1..k}

\* `git log a..b`: what is reachable from b and not from a.  The history is
\* linear, so the range is empty when a is at or past b.
LogRange(branch, a, b) == {branch[i] : i \in (a + 1)..b}

\* How many commits of `git log a..b` store d.
CommitsOf(branch, d, a, b) == Cardinality({i \in (a + 1)..b : branch[i] = d})

\* INSERTing `git log a..b` raises no UNIQUE error: the range names no dump
\* twice and none that the table already holds.
Insertable(branch, rows, a, b) ==
    /\ LogRange(branch, a, b) \cap rows = {}
    /\ \A i, j \in (a + 1)..b : branch[i] = branch[j] => i = j
=============================================================================
