----------------------------- MODULE MCIndexer -----------------------------
(* Instances of Indexer for TLC: dumps are numbered by update time.  One   *)
(* item comes, changes its `ts`, goes and comes back; the other one comes  *)
(* late and stays.                                                         *)
EXTENDS Indexer

CONSTANT MaxDump

MCDumps == 1..MaxDump
MCTime == [d \in 0..MaxDump |-> d]
MCHolds == [d \in 0..MaxDump |->
              [i \in Items |-> IF i = "a" THEN (<<0, 1, 2, 0, 1>>)[d + 1]
                                          ELSE (<<0, 0, 1, 1, 1>>)[d + 1]]]
=============================================================================
