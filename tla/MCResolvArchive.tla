-------------------------- MODULE MCResolvArchive --------------------------
(* An instance of ResolvArchive for TLC: four files, of which the third is  *)
(* broken.                                                                 *)
EXTENDS ResolvArchive

MCFiles == 1..4
MCBroken == {3}
=============================================================================
