---------------------------- MODULE ArchiveProofs ----------------------------
(***************************************************************************)
(* Theorems about Archive, for any dumps, any donors and any length of     *)
(* their lists: first what holds whatever fails, then what holds up to     *)
(* the first poll_fs() that raises on its own.                             *)
(***************************************************************************)
EXTENDS Archive, TLAPS

\* Whatever fails, the copy holds the rows of its head.
CopyInv == log = Rows(git, head)

\* As long as every poll succeeded, its head is the head of git except between
\* a commit and its poll and while the process is down.  Without that the guard
\* of Store would prove nothing about git; without the last part the UNIQUE
\* columns might refuse a poll, and it would raise though nothing failed.
FreshInv ==
    /\ kept = git
    /\ pc \notin {"down", "poll"} => head = Len(git)
    /\ IsInjective(git)

ArchiveInv == CopyInv /\ (~raised => FreshInv)

LEMMA NextTurnType ==
    ASSUME NEW t \in DOMAIN Donors
    PROVE  NextTurn(t) \in DOMAIN Donors
  BY DonorsAssumption DEF NextTurn

LEMMA TodoType ==
    ASSUME NEW s \in Offers(Donors[turn])
    PROVE  s \in Seq(Downloads) /\ Len(s) <= Limit
  <1>1. PICK m \in 0..Limit : s \in [1..m -> Downloads]
    BY DEF Offers, BoundedSeq, SeqOf
  <1> QED BY <1>1, LimitAssumption

LEMMA TypeInit == Init => TypeOK
  <1> SUFFICES ASSUME Init PROVE TypeOK
    OBVIOUS
  <1>1. raised \in BOOLEAN
    BY Zenon DEF Init
  <1> QED BY <1>1, DonorsAssumption, LimitAssumption DEF Init, TypeOK

LEMMA PollType == ASSUME TypeOK, PollFs PROVE log' \subseteq Dumps /\ head' \in 0..Len(git')
  <1>1. \A i \in (head + 1)..Len(git) : git[i] \in Dumps
    BY DEF TypeOK
  <1> QED BY <1>1 DEF PollFs, TypeOK, LogRange

LEMMA TypeStep == TypeOK /\ [Next]_vars => TypeOK'
  <1> SUFFICES ASSUME TypeOK, [Next]_vars PROVE TypeOK'
    OBVIOUS
  <1> USE DEF TypeOK, repoVars
  <1>1. CASE Startup
    <2>1. 1 \in DOMAIN Donors
      BY DonorsAssumption
    <2> QED BY <1>1, <2>1, PollType DEF Startup, PollFs
  <1>2. CASE ListHandles
    BY <1>2, TodoType DEF ListHandles
  <1> DEFINE rest == Tail(todo)
  <1>a. todo # <<>> => /\ Head(todo) \in Downloads
                       /\ rest \in Seq(Downloads) /\ Len(rest) <= Limit
    BY LimitAssumption
  <1> HIDE DEF rest
  <1>3. CASE Fetch
    <2>1. todo' = rest
      BY <1>3 DEF Fetch, rest
    <2> QED BY <1>3, <1>a, <2>1 DEF Fetch
  <1>4. CASE FetchFail
    <2>1. todo' = rest
      BY <1>4 DEF FetchFail, rest
    <2> QED BY <1>4, <1>a, <2>1 DEF FetchFail
  <1>5. CASE Known
    BY <1>5 DEF Known
  <1>6. CASE Store
    <2>1. git' \in Seq(Dumps) /\ head' \in 0..Len(git')
      BY <1>6 DEF Store, Downloads
    <2>2. kept' \in Seq(Dumps)
      BY <1>6, <2>1 DEF Store
    <2> QED BY <1>6, <2>1, <2>2 DEF Store
  <1>7. CASE StoreFail
    BY <1>7 DEF StoreFail
  <1>8. CASE Poll
    BY <1>8, PollType DEF Poll, PollFs
  <1>9. CASE PollRaises
    <2>1. raised' \in BOOLEAN
      BY <1>9, Zenon DEF PollRaises
    <2> QED BY <1>9, <2>1 DEF PollRaises
  <1>10. CASE EndHandles
    BY <1>10, NextTurnType DEF EndHandles
  <1>11. CASE Github
    BY <1>11, PollType, NextTurnType DEF Github, PollFs
  <1>12. CASE Crash
    BY <1>12, LimitAssumption DEF Crash
  <1>13. CASE UNCHANGED vars
    BY <1>13 DEF vars
  <1> QED
    BY <1>1, <1>2, <1>3, <1>4, <1>5, <1>6, <1>7, <1>8, <1>9, <1>10, <1>11,
       <1>12, <1>13 DEF Next

\* The variables keep their types: the list of a turn is never longer than
\* asked for, and the stored head never past git's.
THEOREM TypeCorrect == Spec => []TypeOK
  BY TypeInit, TypeStep, PTL DEF Spec

-----------------------------------------------------------------------------
\* poll_fs() brings the copy to the head of git.
LEMMA PollCompletes ==
    ASSUME TypeOK, CopyInv, PollFs
    PROVE  log' = Rows(git, Len(git)) /\ head' = Len(git)
  <1>1. head \in Nat /\ Len(git) \in Nat /\ head <= Len(git)
    BY DEF TypeOK
  <1>2. Rows(git, head) \cup LogRange(git, head, Len(git)) = Rows(git, Len(git))
    <2>1. 1..Len(git) = (1..head) \cup ((head + 1)..Len(git))
      BY <1>1
    <2> QED BY <2>1 DEF Rows, LogRange
  <1> QED BY <1>2 DEF PollFs, CopyInv

\* While git holds no dump twice poll_fs() can always be done.
LEMMA PollPossible ==
    ASSUME TypeOK, CopyInv, IsInjective(git)
    PROVE  CanPoll
  <1>1. /\ git \in Seq(Dumps) /\ head \in Nat /\ Len(git) \in Nat
        /\ head <= Len(git)
    BY DEF TypeOK
  <1>2. Rows(git, head) \cap LogRange(git, head, Len(git)) = {}
    BY <1>1 DEF Rows, LogRange, IsInjective
  <1>3. \A i, j \in (head + 1)..Len(git) : git[i] = git[j] => i = j
    BY <1>1 DEF IsInjective
  <1> QED BY <1>2, <1>3 DEF CanPoll, Insertable, CopyInv

\* A copy that is complete holds the dumps of git.
LEMMA WholeLog == ASSUME git \in Seq(Dumps) PROVE Rows(git, Len(git)) = Range(git)
  BY DEF Rows, Range

LEMMA CopyInit == Init => CopyInv
  BY DEF Init, CopyInv, Rows

LEMMA CopyStep == TypeOK /\ CopyInv /\ [Next]_vars => CopyInv'
  <1> SUFFICES ASSUME TypeOK, CopyInv, [Next]_vars PROVE CopyInv'
    OBVIOUS
  <1>1. ASSUME PollFs PROVE CopyInv'
    BY <1>1, PollCompletes DEF PollFs, CopyInv
  <1>2. CASE Store
    <2>1. cur.body \in Dumps /\ git \in Seq(Dumps) /\ head \in 0..Len(git)
      BY DEF TypeOK, Downloads
    <2>2. Rows(git', head) = Rows(git, head)
      <3>1. \A i \in 1..head : git'[i] = git[i]
        BY <1>2, <2>1 DEF Store
      <3> QED BY <3>1 DEF Rows
    <2> QED BY <1>2, <2>2 DEF Store, CopyInv
  <1>3. CASE Startup \/ Poll \/ Github
    BY <1>1, <1>3 DEF Startup, Poll, Github, CopyInv, repoVars
  <1>4. CASE ListHandles \/ Fetch \/ FetchFail \/ Known \/ StoreFail
               \/ PollRaises \/ EndHandles \/ Crash \/ UNCHANGED vars
    BY <1>4
    DEF ListHandles, Fetch, FetchFail, Known, StoreFail, PollRaises,
        EndHandles, Crash, vars, repoVars, CopyInv
  <1> QED BY <1>2, <1>3, <1>4 DEF Next

\* A dump that Store commits while the copy is complete is not in git yet.
LEMMA StoresUnknown ==
    ASSUME TypeOK, CopyInv, Store, head = Len(git)
    PROVE  cur.body \notin Range(git)
  <1>1. log = Range(git)
    BY WholeLog DEF TypeOK, CopyInv
  <1> QED BY <1>1 DEF Store, NeedsXml, SanityOk

\* Git has changed: it was Store.
LEMMA OnlyStoreCommits ==
    ASSUME [Next]_vars, git' # git
    PROVE  Store
  BY DEF Next, Startup, ListHandles, Fetch, FetchFail, Known, StoreFail, Poll,
      PollRaises, EndHandles, Github, Crash, PollFs, repoVars, vars

\* Whatever fails, a dump is committed again only while the copy is behind.
THEOREM DuplicatesNeedABehindCopy == Spec => DuplicateOnlyBehind
  <1>1. TypeOK /\ CopyInv /\ [Next]_vars
          => [git' # git /\ head = Len(git) => cur.body \notin Range(git)]_vars
    BY StoresUnknown, OnlyStoreCommits
  <1> QED
    BY <1>1, TypeInit, TypeStep, CopyInit, CopyStep, PTL
    DEF Spec, DuplicateOnlyBehind

\* Whatever fails, sqlite refuses the rows of a poll only after a second commit
\* of some dump.
THEOREM PollsRecover == Spec => []StuckOnlyByDuplicate
  <1>1. TypeOK /\ CopyInv => StuckOnlyByDuplicate
    BY PollPossible DEF StuckOnlyByDuplicate, NoDuplicateCommit
  <1> QED
    BY <1>1, TypeInit, TypeStep, CopyInit, CopyStep, PTL DEF Spec

-----------------------------------------------------------------------------
\* A step is a commit, a poll, or nothing to the copy.
LEMMA StepOfCopy ==
    ASSUME TypeOK, CopyInv, [Next]_vars
    PROVE  [Copy!Next]_<<git, log, head>>
  <1>1. ASSUME PollFs PROVE Copy!Next
    <2>1. Len(git) \in head..Len(git)
      BY DEF TypeOK
    <2>2. Copy!Poll(Len(git))
      BY <1>1, PollCompletes DEF PollFs, Copy!Poll, Copy!Rows, Rows
    <2> QED BY <2>1, <2>2 DEF Copy!Next
  <1>2. CASE Store
    <2>1. cur.body \in Dumps
      BY DEF TypeOK, Downloads
    <2>2. Copy!Commit(cur.body)
      BY <1>2 DEF Store, Copy!Commit
    <2> QED BY <2>1, <2>2 DEF Copy!Next
  <1>3. CASE Startup \/ Poll \/ Github
    BY <1>1, <1>3 DEF Startup, Poll, Github, repoVars
  <1>4. CASE ListHandles \/ Fetch \/ FetchFail \/ Known \/ StoreFail
               \/ PollRaises \/ EndHandles \/ Crash \/ UNCHANGED vars
    BY <1>4
    DEF ListHandles, Fetch, FetchFail, Known, StoreFail, PollRaises,
        EndHandles, Crash, vars, repoVars
  <1> QED BY <1>2, <1>3, <1>4 DEF Next

\* Whatever fails and wherever the process is killed, the copy is one of git as
\* it was at some commit, and only moves on.
THEOREM KeepsCopy == Spec => ImplementsCopy
  <1>1. Init => Copy!Init
    BY DEF Init, Copy!Init
  <1>2. TypeOK /\ CopyInv /\ [Next]_vars => [Copy!Next]_<<git, log, head>>
    BY StepOfCopy
  <1> QED
    BY <1>1, <1>2, TypeInit, TypeStep, CopyInit, CopyStep, PTL
    DEF Spec, ImplementsCopy, Copy!Spec

-----------------------------------------------------------------------------
LEMMA InvInit == Init => ArchiveInv
  BY CopyInit DEF Init, ArchiveInv, FreshInv, IsInjective

LEMMA InvStep == TypeOK /\ ArchiveInv /\ [Next]_vars => ArchiveInv'
  <1> SUFFICES ASSUME TypeOK, ArchiveInv, [Next]_vars, ~raised'
               PROVE  FreshInv'
    BY CopyStep DEF ArchiveInv
  <1>0. CopyInv /\ CanPoll /\ ~raised /\ FreshInv
    <2>1. ~raised
      BY DEF Next, Startup, ListHandles, Fetch, FetchFail, Known, Store,
          StoreFail, Poll, PollRaises, EndHandles, Github, Crash, vars
    <2> QED BY <2>1, PollPossible DEF ArchiveInv, FreshInv
  <1>1. ASSUME PollFs PROVE FreshInv'
    BY <1>0, <1>1, PollCompletes DEF PollFs, FreshInv
  <1>2. CASE Startup \/ Poll
    BY <1>1, <1>2 DEF Startup, Poll
  <1>3. CASE Store
    <2>1. cur.body \notin Range(git)
      BY <1>0, <1>3, StoresUnknown DEF FreshInv, Store
    <2>2. cur.body \in Dumps /\ git \in Seq(Dumps)
      BY DEF TypeOK, Downloads
    <2>3. /\ DOMAIN git' = 1..(Len(git) + 1) /\ DOMAIN git = 1..Len(git)
          /\ git'[Len(git) + 1] = cur.body
          /\ \A i \in 1..Len(git) : git'[i] = git[i] /\ git[i] # cur.body
      BY <1>3, <2>1, <2>2 DEF Store, Range
    <2>4. IsInjective(git')
      <3> SUFFICES ASSUME NEW i \in DOMAIN git', NEW j \in DOMAIN git',
                          git'[i] = git'[j]
                   PROVE  i = j
        BY DEF IsInjective
      <3>1. \A k, l \in DOMAIN git : git[k] = git[l] => k = l
        BY <1>0 DEF FreshInv, IsInjective
      <3> QED BY <2>3, <3>1
    <2> QED BY <1>0, <1>3, <2>4 DEF Store, FreshInv
  <1>4. CASE PollRaises
    BY <1>0, <1>4 DEF PollRaises
  <1>5. CASE Github
    <2>1. CASE UNCHANGED repoVars
      BY <1>0, <1>5, <2>1 DEF Github, FreshInv, repoVars
    <2> QED BY <1>1, <1>5, <2>1 DEF Github
  <1>6. CASE ListHandles \/ Fetch \/ FetchFail \/ Known \/ StoreFail
               \/ EndHandles \/ Crash \/ UNCHANGED vars
    BY <1>0, <1>6
    DEF ListHandles, Fetch, FetchFail, Known, StoreFail, EndHandles, Crash,
        vars, repoVars, FreshInv
  <1> QED BY <1>2, <1>3, <1>4, <1>5, <1>6 DEF Next

\* Up to the first poll that raised on its own, the duplicate check is always
\* asked of a complete copy of git's log.
THEOREM GuardAlwaysFresh == Spec => []GuardIsFresh
  <1>1. TypeOK /\ ArchiveInv => GuardIsFresh
    BY WholeLog DEF TypeOK, ArchiveInv, FreshInv, CopyInv, GuardIsFresh
  <1> QED
    BY <1>1, TypeInit, TypeStep, InvInit, InvStep, PTL DEF Spec

\* Up to the first poll that raised on its own, no dump is committed twice.
THEOREM NoDumpTwice == Spec => [](~raised => NoDuplicateCommit)
  <1>1. ArchiveInv => (~raised => NoDuplicateCommit)
    BY DEF ArchiveInv, FreshInv, NoDuplicateCommit
  <1> QED
    BY <1>1, TypeInit, TypeStep, InvInit, InvStep, PTL DEF Spec

\* What git holds until then only grows, by one genuine dump that it does not
\* hold yet.
LEMMA StepKeepsPromise ==
    TypeOK /\ ArchiveInv /\ [Next]_vars => [Promise!Next]_kept
  <1> SUFFICES ASSUME TypeOK, ArchiveInv, [Next]_vars, kept' # kept
               PROVE  Promise!Next
    OBVIOUS
  <1>1. Store /\ ~raised
    BY DEF Next, Startup, ListHandles, Fetch, FetchFail, Known, Store,
        StoreFail, Poll, PollRaises, EndHandles, Github, Crash, PollFs,
        repoVars, vars
  <1>2. kept = git /\ cur.body \notin Range(git)
    BY <1>1, StoresUnknown DEF ArchiveInv, FreshInv, Store
  <1>3. cur.body \in Genuine
    BY <1>1 DEF Store, SignatureOk
  <1>4. kept' = Append(kept, cur.body)
    BY <1>1, <1>2 DEF Store
  <1>5. Promise!Add(cur.body)
    BY <1>2, <1>4 DEF Promise!Add, Promise!Range, Range
  <1> QED BY <1>3, <1>5 DEF Promise!Next

\* Up to the first poll that raised on its own, donors_loop() implements an
\* append-only archive of genuine dumps.
THEOREM KeepsPromise == Spec => ImplementsArchive
  <1>1. Init => Promise!Init
    BY DEF Init, Promise!Init
  <1> QED
    BY <1>1, StepKeepsPromise, TypeInit, TypeStep, InvInit, InvStep, PTL
    DEF Spec, ImplementsArchive, Promise!Spec
==============================================================================
