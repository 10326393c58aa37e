---------------------------- MODULE MCZipDonors ----------------------------
(* An instance of ZipDonors for TLC: a file name of Zavod and the file of  *)
(* Che, with a dump that both of them have, one that only Che has, a       *)
(* forged one of Che, and bad zips.                                        *)
EXTENDS ZipDonors, TLC

CONSTANTS both, late, forged, bad

MCVersions == {both, bad}
MCSize == both :> 1 @@ bad :> 2
MCContent == both :> both @@ bad :> Broken
MCCheContent == <<both, Broken, forged, late>>
=============================================================================
