---------------------------- MODULE MCDonorEais ----------------------------
(* Instances of DonorEais for TLC: dumps are numbered by update time.      *)
EXTENDS DonorEais

CONSTANT MaxDump

MCDumps == 1..MaxDump
MCUT == [d \in MCDumps |-> d]
=============================================================================
