---------------------------- MODULE ResolvProofs ----------------------------
(***************************************************************************)
(* Theorems about ResolvArchive, for any files, any of them broken, any    *)
(* number of failing commands and kills.                                   *)
(***************************************************************************)
EXTENDS ResolvArchive, TLAPS

LEMMA TypeInit == Init => TypeOK
  <1> SUFFICES ASSUME Init PROVE TypeOK
    OBVIOUS
  <1>1. promPort \in BOOLEAN
    BY Zenon DEF Init
  <1> QED BY <1>1, FaultsAssumption DEF Init, TypeOK

\* What a fault does to its counter.
LEMMA FaultType == ASSUME faults \in 0..MaxFaults, Fault PROVE faults' \in 0..MaxFaults
  BY FaultsAssumption DEF Fault

LEMMA TypeStep == TypeOK /\ [Next]_vars => TypeOK'
  <1> SUFFICES ASSUME TypeOK, [Next]_vars PROVE TypeOK'
    OBVIOUS
  <1> USE DEF TypeOK, disk
  <1>1. ASSUME NEW f \in Files, Create(f) \/ Finish(f) PROVE TypeOK'
    BY <1>1 DEF Create, Finish
  <1>2. CASE GitInit \/ Reopen
    <2>1. promPort' \in BOOLEAN
      BY <1>2, Zenon DEF GitInit, Reopen
    <2> QED BY <1>2, <2>1 DEF GitInit, Reopen
  <1>3. CASE GitZero \/ NoStart \/ Repack
    BY <1>3 DEF GitZero, NoStart, Repack
  <1>4. CASE Start
    BY <1>4 DEF Start, Range
  <1>5. CASE Scan
    BY <1>5 DEF Scan, Present
  <1>6. CASE Push
    BY <1>6 DEF Push
  <1>7. CASE RepackFail \/ PushFail \/ Kill
    BY <1>7, FaultType DEF RepackFail, PushFail, Kill, EndPass
  <1>8. ASSUME NEW f \in Files, Known(f) PROVE TypeOK'
    BY <1>8 DEF Known
  <1>9. ASSUME NEW f \in Files, Store(f) PROVE TypeOK'
    <2>1. git' \in Seq(Files) /\ remote' \in 0..Len(git')
      BY <1>9 DEF Store
    <2> QED BY <1>9, <2>1 DEF Store
  <1>10. ASSUME NEW f \in Files, StoreFail(f) PROVE TypeOK'
    <2>1. faults' \in 0..MaxFaults
      BY <1>10, FaultType DEF StoreFail
    <2> QED BY <1>10, <2>1 DEF StoreFail, EndPass
  <1>11. ASSUME NEW f \in Files, Mark(f) PROVE TypeOK'
    BY <1>11 DEF Mark
  <1>12. ASSUME NEW f \in Files, MarkFail(f) PROVE TypeOK'
    BY <1>12, FaultType DEF MarkFail, EndPass
  <1>13. CASE UNCHANGED vars
    BY <1>13 DEF vars
  <1> QED
    BY <1>1, <1>2, <1>3, <1>4, <1>5, <1>6, <1>7, <1>8, <1>9, <1>10, <1>11,
       <1>12, <1>13 DEF Next, Run

\* The variables keep their types: what was pushed is never more than git has.
THEOREM TypeCorrect == Spec => []TypeOK
  BY TypeInit, TypeStep, PTL DEF Spec

-----------------------------------------------------------------------------
\* What the process remembers is what git holds, except between a commit and
\* its entry, when it is short of the file of whose turn it is, and before it
\* has asked git.
DoneInv ==
    /\ pc \in {"scan", "file", "repack"} => done = Range(git)
    /\ pc = "mark" =>
         \E f \in Files : IsNext(f) /\ Range(git) = done \cup {f}

LEMMA NextIsUnique ==
    ASSUME NEW f \in Files, NEW g \in Files, IsNext(f), IsNext(g)
    PROVE  f = g
  BY FilesAssumption DEF IsNext

\* With its entry made, what is remembered is what git holds.
LEMMA MarkedIsArchive ==
    ASSUME DoneInv, pc = "mark", NEW f \in Files, IsNext(f)
    PROVE  done \cup {f} = Range(git)
  BY NextIsUnique DEF DoneInv

LEMMA RangeOfAppend ==
    ASSUME NEW S, NEW s \in Seq(S), NEW x \in S
    PROVE  Range(Append(s, x)) = Range(s) \cup {x}
  <1>1. \A i \in 1..Len(s) : Append(s, x)[i] = s[i]
    OBVIOUS
  <1>2. Append(s, x)[Len(s) + 1] = x
    OBVIOUS
  <1>3. DOMAIN Append(s, x) = (1..Len(s)) \cup {Len(s) + 1}
    OBVIOUS
  <1> QED BY <1>1, <1>2, <1>3 DEF Range

LEMMA DoneInit == Init => DoneInv
  BY DEF Init, DoneInv

LEMMA DoneStep == TypeOK /\ DoneInv /\ [Next]_vars => DoneInv'
  <1> SUFFICES ASSUME TypeOK, DoneInv, [Next]_vars PROVE DoneInv'
    OBVIOUS
  <1>1. ASSUME NEW f \in Files, Store(f) PROVE DoneInv'
    <2>1. done = Range(git) /\ IsNext(f)
      BY <1>1 DEF Store, DoneInv
    <2>2. Range(git') = done \cup {f}
      BY <1>1, <2>1, RangeOfAppend DEF Store, TypeOK
    <2> QED BY <1>1, <2>1, <2>2 DEF Store, DoneInv, IsNext
  <1>2. ASSUME NEW f \in Files, Mark(f) \/ MarkFail(f) PROVE DoneInv'
    BY <1>2, MarkedIsArchive DEF Mark, MarkFail, EndPass, DoneInv
  <1>3. ASSUME NEW f \in Files, Known(f) \/ StoreFail(f) PROVE DoneInv'
    BY <1>3 DEF Known, StoreFail, EndPass, DoneInv, disk
  <1>4. ASSUME NEW f \in Files, Create(f) \/ Finish(f) PROVE DoneInv'
    BY <1>4 DEF Create, Finish, DoneInv, IsNext, disk
  <1>5. CASE GitInit \/ GitZero \/ Reopen \/ Start \/ NoStart \/ Kill
    BY <1>5 DEF GitInit, GitZero, Reopen, Start, NoStart, Kill, DoneInv, disk
  <1>6. CASE Scan \/ Repack \/ RepackFail \/ Push \/ PushFail
    BY <1>6
    DEF Scan, Repack, RepackFail, Push, PushFail, EndPass, DoneInv, disk
  <1>7. CASE UNCHANGED vars
    BY <1>7 DEF vars, disk, DoneInv, IsNext
  <1> QED BY <1>1, <1>2, <1>3, <1>4, <1>5, <1>6, <1>7 DEF Next, Run

\* The list of processed files is only ever replaced by all that git holds.
THEOREM MarkerNamesAll == Spec => MarkerIsArchive
  <1>1. TypeOK /\ DoneInv /\ [Next]_vars
          => [marker' # marker => marker' = Range(git)]_vars
    <2> SUFFICES ASSUME DoneInv, [Next]_vars, marker' # marker
                 PROVE  marker' = Range(git)
      OBVIOUS
    <2>1. PICK f \in Files : Mark(f) \/ MarkFail(f)
      BY DEF Next, Run, Create, Finish, GitInit, GitZero, Reopen, Start,
          NoStart, Scan, Known, Store, StoreFail, Repack, RepackFail, Push,
          PushFail, Kill, disk, vars
    <2> QED BY <2>1, MarkedIsArchive DEF Mark, MarkFail
  <1> QED
    BY <1>1, TypeInit, TypeStep, DoneInit, DoneStep, PTL
    DEF Spec, MarkerIsArchive

\* resolv-ar implements an append-only archive of files that can be read, none
\* of which it commits twice.
THEOREM KeepsPromise == Spec => ImplementsArchive
  <1>1. Init => Promise!Init
    BY DEF Init, Promise!Init
  <1>2. TypeOK /\ DoneInv /\ [Next]_vars => [Promise!Next]_git
    <2> SUFFICES ASSUME DoneInv, [Next]_vars, git' # git
                 PROVE  Promise!Next
      OBVIOUS
    <2>1. PICK f \in Files : Store(f)
      BY DEF Next, Run, Create, Finish, GitInit, GitZero, Reopen, Start,
          NoStart, Scan, Known, StoreFail, Mark, MarkFail, Repack,
          RepackFail, Push, PushFail, Kill, disk, vars
    <2>2. f \in Files \ Broken /\ f \notin Range(git)
      BY <2>1 DEF Store, Readable, DoneInv
    <2>3. Promise!Add(f)
      BY <2>1, <2>2 DEF Store, Promise!Add, Promise!Range, Range
    <2> QED BY <2>2, <2>3 DEF Promise!Next
  <1> QED
    BY <1>1, <1>2, TypeInit, TypeStep, DoneInit, DoneStep, PTL
    DEF Spec, ImplementsArchive, Promise!Spec
=============================================================================
