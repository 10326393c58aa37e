---------------------------- MODULE MCDonorZavod ----------------------------
(* Instances of DonorZavod for TLC: two names, and versions of different   *)
(* sizes with a genuine dump, a forged one and a zip that does not unpack. *)
EXTENDS DonorZavod, TLC

CONSTANTS good, forged, bad

MCVersions == {good, forged, bad}
MCSize == good :> 1 @@ forged :> 2 @@ bad :> 3
MCContent == good :> good @@ forged :> forged @@ bad :> Broken
=============================================================================
