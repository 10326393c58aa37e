----------------------------- MODULE MCArchive -----------------------------
(* Instances of Archive for TLC. *)
EXTENDS Archive

\* The turns of the shipped container: all three donors.
MCDonors == <<"eais", "zavod", "che">>
=============================================================================
