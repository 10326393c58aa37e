------------------------------- MODULE Donor -------------------------------
(***************************************************************************)
(* What donors_loop() and the donors that fetch zips have in common: the   *)
(* archive they feed, and what may be in a zip.                            *)
(***************************************************************************)
EXTENDS Integers, FiniteSets

CONSTANTS Dumps,
          Forged,    \* dumps that commit_files() always refuses
          Broken,    \* what a zip that does not unpack holds
          MaxFaults  \* bound on failed requests, errors and kills, per donor

ASSUME DumpsAssumption == Forged \subseteq Dumps /\ Broken \notin Dumps
ASSUME MaxFaultsAssumption == MaxFaults \in Nat

NULL == Broken    \* no hash: no zip was unpacked yet

VARIABLE log      \* the dumps of the archive

\* Another donor brings a dump.
OtherStores(d) ==
    /\ d \notin log \cup Forged
    /\ log' = log \cup {d}

\* needs_xml_sha256(), commit_files() and poll_fs(), or one of the first two
\* says no.
Stored(d) == log \cup ({d} \ Forged)
=============================================================================
