----------------------------- MODULE ZipDonors -----------------------------
(***************************************************************************)
(* donors_loop() with the two donors that fetch zips: DonorZavod and       *)
(* DonorChe, which take turns on one thread, have tables in one database   *)
(* and feed one archive.  What each of them takes for the doings of other  *)
(* donors is here what the other one does, and EAIS.                       *)
(***************************************************************************)
EXTENDS DonorZavod, DonorChe

zavodOnly == <<page, zavod, zavodPc, todo, cur, spent, boundVars>>
cheOnly == <<remote, etagVars, chePc, got, hit, cheFaults>>
vars == <<log, zavodOnly, cheOnly>>

Init == ZavodInit /\ CheInit

\* What the two servers do.
Servers ==
    \/ /\ \E f \in Names, v \in Versions \cup {Missing} : PageChange(f, v)
       /\ UNCHANGED cheOnly
    \/ /\ Publish
       /\ UNCHANGED zavodOnly

\* The turn of EAIS.
Eais ==
    \E d \in Dumps : ZavodOtherDonor(d) /\ CheOtherDonor(d)

\* Faulty: a thread per donor.
AnyTime(pc) == TRUE

\* A donor has its turn when the other one has ended its own.
MayRun(pc) == pc = "idle"

\* A step of Zavod's turn, or of Che's.
ZavodMoves(A) == MayRun(chePc) /\ A /\ UNCHANGED cheOnly
CheMoves(A) == MayRun(zavodPc) /\ A /\ UNCHANGED zavodOnly

Turn == ZavodMoves(ZavodTurn) \/ CheMoves(CheTurn)

\* The process is killed and started again, with both donors.
Restart ==
    /\ IF zavodPc = "idle" THEN UNCHANGED zavodOnly ELSE ZavodRestart
    /\ CheRestart

Next == Servers \/ Eais \/ Turn \/ Restart

Spec == Init /\ [][Next]_vars

\* A turn is sequential code, and schedule_every() gives one to each donor again
\* and again.
FairSpec ==
    /\ Spec
    /\ WF_vars(Turn)
    /\ SF_vars(ZavodMoves(ListHandles)) /\ SF_vars(CheMoves(Request))

-----------------------------------------------------------------------------
(* Properties                                                              *)

\* What is shown of each donor alone holds in the loop: a donor sees of the
\* others only dumps that appear in the archive between two of its turns.
EachAsAlone == ZavodSpec /\ CheSpec
=============================================================================
