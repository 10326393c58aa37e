---------------------------- MODULE MirrorProofs ----------------------------
(***************************************************************************)
(* Theorems about GithubMirror, for any dumps, wherever passes are cut,    *)
(* and any number of faults: first when dumps are committed in the order   *)
(* of their signatures, then in any order.                                 *)
(***************************************************************************)
EXTENDS GithubMirror, FiniteSetTheorems, TLAPS

\* HEAD's order is that of the signatures.
GitOrdered ==
    \A i, j \in 1..Len(git) : i < j => SigningTime[git[i]] < SigningTime[git[j]]

\* The dumps of HEAD from position k on.
From(k) == {git[i] : i \in k..Len(git)}

\* As long as every poll_fs() succeeded, the mirror is the first part of HEAD,
\* and the list of a pass is all the rest of it.
Split ==
    /\ Len(mirror) <= Len(git)
    /\ \A i \in 1..Len(mirror) : mirror[i] = git[i]
    /\ pc # "poll" => head100 = Len(mirror)
    /\ pc \in {"store", "poll"} => todo = From(Len(mirror) + 1)

MirrorInv == GitOrdered /\ (~raised => Split)

-----------------------------------------------------------------------------
LEMMA TypeInit == Init => TypeOK
  <1> SUFFICES ASSUME Init PROVE TypeOK
    OBVIOUS
  <1>1. raised \in BOOLEAN
    BY Zenon DEF Init
  <1> QED BY <1>1, MaxFaultsAssumption DEF Init, TypeOK

LEMMA TodoType == ASSUME TypeOK PROVE Todo \subseteq Dumps
  BY DEF TypeOK, Todo, LogSince

LEMMA TypeStep == TypeOK /\ [Next]_vars => TypeOK'
  <1> SUFFICES ASSUME TypeOK, [Next]_vars PROVE TypeOK'
    OBVIOUS
  <1> USE DEF TypeOK
  <1>1. ASSUME NEW d \in Dumps, Commit(d) PROVE TypeOK'
    BY <1>1 DEF Commit
  <1>2. CASE StartBatch
    BY <1>2, TodoType DEF StartBatch
  <1>3. CASE CommitMirror
    <2>1. PICK d \in todo : mirror' = Append(mirror, d) /\ todo' = todo \ {d}
      BY <1>3 DEF CommitMirror
    <2>2. mirror' \in Seq(Dumps) /\ Len(mirror') = Len(mirror) + 1
      BY <2>1
    <2> QED BY <1>3, <2>1, <2>2 DEF CommitMirror
  <1>4. CASE Poll
    BY <1>4 DEF Poll
  <1>5. CASE Push
    BY <1>5 DEF Push
  <1>6. CASE Raise \/ PollRaises
    <2>1. raised' \in BOOLEAN
      BY <1>6, Zenon DEF Raise, PollRaises
    <2> QED BY <1>6, <2>1, MaxFaultsAssumption DEF Raise, PollRaises
  <1>7. CASE Restart
    BY <1>7, MaxFaultsAssumption DEF Restart, Restarted
  <1>8. CASE UNCHANGED vars
    BY <1>8 DEF vars
  <1> QED BY <1>1, <1>2, <1>3, <1>4, <1>5, <1>6, <1>7, <1>8 DEF Next

\* The variables keep their types: neither the copy nor the remote is ahead of
\* the mirror.
THEOREM TypeCorrect == Spec => []TypeOK
  BY TypeInit, TypeStep, PTL DEF Spec

-----------------------------------------------------------------------------
\* The smallest missing signature is that of the first commit which is missing.
LEMMA FirstIsMin ==
    ASSUME TypeOK, GitOrdered, NEW k \in 1..Len(git),
           SigningTime[git[k]] \in Missing,
           \A i \in 1..Len(git) : SigningTime[git[i]] \in Missing => k <= i
    PROVE  Min(Missing) = SigningTime[git[k]]
  <1> DEFINE t == SigningTime[git[k]]
  <1>0. \A i \in 1..Len(git) : SigningTime[git[i]] \in Nat
    BY SigningTimeAssumption DEF TypeOK
  <1>1. ASSUME NEW y \in Missing PROVE y \in Nat /\ t <= y
    <2>1. PICK i \in 1..Len(git) : y = SigningTime[git[i]]
      BY DEF Missing, Range, TypeOK
    <2>2. k <= i
      BY <2>1
    <2> QED BY <1>0, <2>1, <2>2 DEF GitOrdered
  <1>2. Min(Missing) \in Missing /\ \A y \in Missing : Min(Missing) <= y
    <2> HIDE DEF t
    <2>1. \E x \in Missing : \A y \in Missing : x <= y
      BY <1>1 DEF t
    <2> QED BY <2>1 DEF Min
  <1> QED BY <1>0, <1>1, <1>2

\* `git log --since` of that signature prints that commit and all behind it.
LEMMA SinceIsRest ==
    ASSUME TypeOK, GitOrdered, NEW k \in 1..Len(git)
    PROVE  LogSince(SigningTime[git[k]]) = From(k)
  <1>0. \A i \in 1..Len(git) : SigningTime[git[i]] \in Nat
    BY SigningTimeAssumption DEF TypeOK
  <1>1. ASSUME NEW j \in 1..Len(git)
        PROVE  (\A i \in j..Len(git) :
                   SigningTime[git[i]] >= SigningTime[git[k]]) <=> k <= j
    <2>1. CASE k <= j
      <3>1. ASSUME NEW i \in j..Len(git)
            PROVE  SigningTime[git[i]] >= SigningTime[git[k]]
        <4>1. i \in 1..Len(git) /\ (k = i \/ k < i)
          BY <2>1
        <4> QED BY <1>0, <4>1 DEF GitOrdered
      <3> QED BY <2>1, <3>1
    <2>2. CASE j < k
      <3>1. SigningTime[git[j]] < SigningTime[git[k]]
        BY <2>2 DEF GitOrdered
      <3>2. j \in j..Len(git)
        OBVIOUS
      <3> QED BY <1>0, <2>2, <3>1, <3>2
    <2> QED BY <2>1, <2>2
  <1>2. k..Len(git) = {j \in 1..Len(git) : k <= j}
    OBVIOUS
  <1> QED BY <1>1, <1>2 DEF LogSince, From

\* In an ordered HEAD nothing that is missing is left out of the walk.
LEMMA TodoIsMissing ==
    ASSUME TypeOK, GitOrdered, Missing # {}
    PROVE  Todo = {d \in Range(git) : SigningTime[d] \in Missing}
  <1> DEFINE J == {i \in 1..Len(git) : SigningTime[git[i]] \in Missing}
  <1>1. J # {} /\ J \subseteq Nat
    BY DEF Missing, Range, TypeOK
  <1>2. PICK k \in J : \A i \in J : ~(<<i, k>> \in OpToRel(<, Nat))
    <2> HIDE DEF J
    <2> QED BY <1>1, NatLessThanWellFounded, WFMin
  <1>3. \A i \in J : k <= i
    <2>1. ASSUME NEW i \in J, i < k PROVE FALSE
      <3>1. <<i, k>> \in OpToRel(<, Nat)
        BY <1>1, <2>1 DEF OpToRel
      <3> QED BY <1>2, <3>1
    <2>2. \A i \in J : i \in Nat
      BY <1>1
    <2> HIDE DEF J
    <2> QED BY <2>1, <2>2
  <1>4. LogSince(Min(Missing)) = From(k)
    BY <1>3, FirstIsMin, SinceIsRest
  <1>5. ASSUME NEW d \in Range(git), SigningTime[d] \in Missing
        PROVE  d \in From(k)
    <2>1. PICK i \in 1..Len(git) : d = git[i]
      BY DEF Range, TypeOK
    <2>2. k <= i
      BY <1>3, <1>5, <2>1
    <2> QED BY <2>1, <2>2 DEF From
  <1>6. From(k) \subseteq Range(git)
    BY DEF From, Range, TypeOK
  <1> QED BY <1>4, <1>5, <1>6 DEF Todo

LEMMA HistoryIsFinite == ASSUME TypeOK PROVE IsFiniteSet(Range(git))
  <1>1. git \in Surjection(1..Len(git), Range(git))
    BY DEF TypeOK, Surjection, Range
  <1>2. IsFiniteSet(1..Len(git))
    BY FS_Interval DEF TypeOK
  <1> QED BY <1>1, <1>2, FS_Surjection

\* So that one commit is found for every missing signature.
LEMMA OrderedFindsAll ==
    ASSUME TypeOK, GitOrdered, Missing # {}
    PROVE  AllFound
  <1> DEFINE f == [d \in Todo |-> SigningTime[d]]
  <1>1. Todo \subseteq Range(git) /\ Todo \subseteq Dumps
    BY TodoIsMissing, TodoType
  <1>2. IsFiniteSet(Todo)
    BY <1>1, HistoryIsFinite, FS_Subset
  <1>3. f \in Injection(Todo, Missing)
    <2>1. f \in [Todo -> Missing]
      BY TodoIsMissing
    <2>2. \A d, e \in Todo : f[d] = f[e] => d = e
      BY <1>1, SigningTimeAssumption
    <2> QED BY <2>1, <2>2 DEF Injection, IsInjective
  <1>4. f \in Surjection(Todo, Missing)
    <2>1. \A y \in Missing : \E d \in Todo : f[d] = y
      BY TodoIsMissing DEF Missing
    <2> QED BY <1>3, <2>1 DEF Surjection, Injection
  <1>5. ExistsBijection(Todo, Missing)
    BY <1>3, <1>4 DEF ExistsBijection, Bijection
  <1> QED BY <1>2, <1>5, FS_Bijection DEF AllFound

-----------------------------------------------------------------------------
\* While the mirror is the first part of HEAD, what is missing is the rest.
LEMMA TodoIsRest ==
    ASSUME TypeOK, GitOrdered, Split, pc = "idle", Missing # {}
    PROVE  Todo = From(Len(mirror) + 1)
  <1> DEFINE m == Len(mirror)
  <1>0. m \in Nat /\ m <= Len(git) /\ head100 = m
    BY DEF Split, TypeOK
  <1>1. Rows(mirror, head100) = {git[i] : i \in 1..m}
    BY <1>0 DEF Split, Rows
  <1>2. \A i, j \in 1..Len(git) :
           SigningTime[git[i]] = SigningTime[git[j]] => i = j
    <2>1. \A i \in 1..Len(git) : SigningTime[git[i]] \in Nat
      BY SigningTimeAssumption DEF TypeOK
    <2> QED BY <2>1 DEF GitOrdered
  <1>3. ASSUME NEW i \in 1..Len(git)
        PROVE  SigningTime[git[i]] \in Missing <=> m < i
    <2>1. SigningTime[git[i]] \in {SigningTime[d] : d \in Range(git)}
      BY DEF Range, TypeOK
    <2>2. SigningTime[git[i]] \in {SigningTime[d] : d \in {git[j] : j \in 1..m}}
            <=> i \in 1..m
      BY <1>0, <1>2
    <2> QED BY <1>0, <1>1, <2>1, <2>2 DEF Missing
  <1>4. (m + 1)..Len(git) = {i \in 1..Len(git) : m < i}
    BY <1>0
  <1>5. DOMAIN git = 1..Len(git)
    BY DEF TypeOK
  <1> QED BY <1>3, <1>4, <1>5, TodoIsMissing DEF From, Range

\* The oldest signature of the rest is the next commit of HEAD.
LEMMA OldestIsNext ==
    ASSUME TypeOK, GitOrdered, NEW k \in 1..Len(git),
           NEW d \in From(k), IsOldest(d, From(k))
    PROVE  d = git[k] /\ From(k) \ {d} = From(k + 1)
  <1>0. \A i \in 1..Len(git) : SigningTime[git[i]] \in Nat
    BY SigningTimeAssumption DEF TypeOK
  <1>1. d = git[k]
    <2>1. PICK i \in k..Len(git) : d = git[i]
      BY DEF From
    <2>2. git[k] \in From(k)
      BY DEF From
    <2>3. SigningTime[git[i]] <= SigningTime[git[k]]
      BY <2>1, <2>2 DEF IsOldest
    <2>4. i \in 1..Len(git) /\ (i = k \/ k < i)
      OBVIOUS
    <2> QED BY <1>0, <2>1, <2>3, <2>4 DEF GitOrdered
  <1>2. \A i \in (k + 1)..Len(git) : git[i] # git[k]
    <2>1. \A i \in (k + 1)..Len(git) : i \in 1..Len(git) /\ k < i
      OBVIOUS
    <2> QED BY <1>0, <2>1 DEF GitOrdered
  <1>3. k..Len(git) = {k} \cup ((k + 1)..Len(git))
    OBVIOUS
  <1> QED BY <1>1, <1>2, <1>3 DEF From

LEMMA InvInit == Init => MirrorInv
  BY DEF Init, MirrorInv, GitOrdered, Split

LEMMA InvStep ==
    ASSUME Ordered
    PROVE  TypeOK /\ MirrorInv /\ [Next]_vars => MirrorInv'
  <1> SUFFICES ASSUME TypeOK, MirrorInv, [Next]_vars PROVE MirrorInv'
    OBVIOUS
  <1>1. ASSUME NEW d \in Dumps, Commit(d) PROVE MirrorInv'
    <2>1. git \in Seq(Dumps) /\ mirror \in Seq(Dumps) /\ git' = Append(git, d)
      BY <1>1 DEF Commit, TypeOK
    <2>2. /\ Len(git') = Len(git) + 1 /\ git'[Len(git) + 1] = d
          /\ \A i \in 1..Len(git) : git'[i] = git[i]
      BY <2>1
    <2>3. \A i \in 1..Len(git) : SigningTime[git[i]] < SigningTime[d]
      BY <1>1, <2>1 DEF Commit, Range
    <2>4. GitOrdered'
      <3>1. ASSUME NEW i \in 1..Len(git'), NEW j \in 1..Len(git'), i < j
            PROVE  SigningTime[git'[i]] < SigningTime[git'[j]]
        <4>1. CASE j = Len(git) + 1
          BY <2>1, <2>2, <2>3, <3>1, <4>1
        <4>2. CASE j # Len(git) + 1
          <5>1. i \in 1..Len(git) /\ j \in 1..Len(git)
            BY <2>1, <2>2, <3>1, <4>2
          <5> QED BY <2>2, <3>1, <5>1 DEF MirrorInv, GitOrdered
        <4> QED BY <4>1, <4>2
      <3> QED BY <3>1 DEF GitOrdered
    <2>5. ~raised' => Split'
      BY <1>1, <2>1, <2>2 DEF Commit, MirrorInv, Split
    <2> QED BY <2>4, <2>5 DEF MirrorInv
  <1>2. CASE StartBatch
    <2>1. ~raised' => Split'
      <3> SUFFICES ASSUME ~raised' PROVE Split'
        OBVIOUS
      <3>1. Split /\ todo' = From(Len(mirror) + 1)
        BY <1>2, TodoIsRest DEF StartBatch, MirrorInv
      <3> QED BY <1>2, <3>1 DEF StartBatch, Split, From
    <2> QED BY <1>2, <2>1 DEF StartBatch, MirrorInv, GitOrdered
  <1>3. CASE CommitMirror
    <2>1. ~raised' => Split'
      <3> SUFFICES ASSUME ~raised' PROVE Split'
        OBVIOUS
      <3> DEFINE m == Len(mirror)
      <3>1. Split /\ todo = From(m + 1) /\ m \in Nat
        BY <1>3 DEF CommitMirror, MirrorInv, Split, TypeOK
      <3>2. PICK d \in todo : /\ IsOldest(d, todo)
                              /\ mirror' = Append(mirror, d)
                              /\ todo' = todo \ {d}
        BY <1>3 DEF CommitMirror
      <3>3. m + 1 \in 1..Len(git)
        BY <3>1, <3>2 DEF From, TypeOK
      <3>4. d = git[m + 1] /\ todo' = From(m + 2)
        BY <3>1, <3>2, <3>3, OldestIsNext DEF MirrorInv
      <3>5. /\ Len(mirror') = m + 1 /\ mirror'[m + 1] = d
            /\ \A i \in 1..m : mirror'[i] = mirror[i]
        BY <3>2 DEF TypeOK
      <3>6. \A i \in 1..Len(mirror') : mirror'[i] = git[i]
        BY <3>1, <3>4, <3>5 DEF Split
      <3>7. todo' = {git[i] : i \in (Len(mirror') + 1)..Len(git)}
        BY <3>1, <3>4, <3>5 DEF From
      <3> QED BY <1>3, <3>3, <3>5, <3>6, <3>7 DEF CommitMirror, Split, From
    <2> QED BY <1>3, <2>1 DEF CommitMirror, MirrorInv, GitOrdered
  <1>4. CASE Poll
    BY <1>4 DEF Poll, MirrorInv, GitOrdered, Split, From
  <1>5. CASE Push \/ Raise \/ PollRaises
    BY <1>5 DEF Push, Raise, PollRaises, MirrorInv, GitOrdered, Split
  <1>6. CASE Restart
    BY <1>6 DEF Restart, Restarted, MirrorInv, GitOrdered, Split
  <1>7. CASE UNCHANGED vars
    BY <1>7 DEF vars, MirrorInv, GitOrdered, Split, From
  <1> QED BY <1>1, <1>2, <1>3, <1>4, <1>5, <1>6, <1>7 DEF Next

\* Up to the first poll_fs() of a pass that raised, the mirror is a prefix of
\* HEAD: nothing is skipped, repeated or out of order.
THEOREM MirrorFollows == ASSUME Ordered PROVE Spec => []MirrorIsPrefix
  <1>1. TypeOK /\ MirrorInv => MirrorIsPrefix
    <2> SUFFICES ASSUME TypeOK, Split PROVE IsPrefix(mirror, git)
      BY DEF MirrorInv, MirrorIsPrefix
    <2>1. /\ mirror \in Seq(Dumps) /\ git \in Seq(Dumps)
          /\ Len(mirror) \in 0..Len(git)
      BY DEF TypeOK, Split
    <2>2. SubSeq(mirror, 1, Len(mirror)) = SubSeq(git, 1, Len(mirror))
      BY <2>1 DEF Split
    <2> QED BY <2>1, <2>2 DEF IsPrefix
  <1> QED BY <1>1, TypeInit, TypeStep, InvInit, InvStep, PTL DEF Spec

\* The assertion of github_loop() holds in every pass, also when the copy is
\* stale.
THEOREM AssertionHolds == ASSUME Ordered PROVE Spec => []TodoCoversMissing
  <1>1. TypeOK /\ MirrorInv => TodoCoversMissing
    BY OrderedFindsAll DEF MirrorInv, TodoCoversMissing
  <1> QED BY <1>1, TypeInit, TypeStep, InvInit, InvStep, PTL DEF Spec
-----------------------------------------------------------------------------
(***************************************************************************)
(* Without an order: what is behind the copy, and what a pass has left.    *)
(***************************************************************************)

\* The dumps of HEAD that the first n commits of the mirror lack.
Left(n) == Range(git) \ Rows(mirror, n)

\* Every commit that the copy lacks is of one dump, the oldest of those that
\* the copy lacks, for the next pass begins with that one again.
BatchInv ==
    /\ \A j \in (head100 + 1)..Len(mirror) :
          mirror[j] \in Left(head100) /\ IsOldest(mirror[j], Left(head100))
    /\ pc = "store" => todo = Left(head100)
    /\ pc = "poll" => todo = Left(Len(mirror))
    /\ pc = "push" => head100 = Len(mirror)

\* The assertion says that the walk found whatever the copy lacks.
LEMMA AllFoundIsLeft == ASSUME TypeOK, AllFound PROVE Todo = Left(head100)
  <1> DEFINE L == Left(head100)
             f == [d \in L |-> SigningTime[d]]
  <1>1. L \subseteq Range(git) /\ Range(git) \subseteq Dumps
    BY DEF Left, TypeOK, Range
  <1>2. Rows(mirror, head100) \subseteq Dumps
    BY DEF Rows, TypeOK
  <1>3. ASSUME NEW d \in Range(git) PROVE SigningTime[d] \in Missing <=> d \in L
    BY <1>1, <1>2, SigningTimeAssumption DEF Missing, Left
  <1>4. Todo \subseteq L
    <2>1. Todo \subseteq Range(git)
      BY DEF Todo, LogSince, TypeOK, Range
    <2>2. \A d \in Todo : SigningTime[d] \in Missing
      BY DEF Todo
    <2> QED BY <1>3, <2>1, <2>2
  <1>5. IsFiniteSet(L)
    BY <1>1, HistoryIsFinite, FS_Subset
  <1>6. f \in Bijection(L, Missing)
    <2>1. f \in [L -> Missing]
      BY <1>1, <1>3
    <2>2. \A d, e \in L : f[d] = f[e] => d = e
      BY <1>1, SigningTimeAssumption
    <2>3. \A y \in Missing : \E d \in L : f[d] = y
      <3>1. ASSUME NEW y \in Missing PROVE \E d \in L : f[d] = y
        <4>1. PICK d \in Range(git) : y = SigningTime[d]
          BY DEF Missing
        <4> QED BY <1>3, <4>1
      <3> QED BY <3>1
    <2> HIDE DEF f, L
    <2> QED BY <2>1, <2>2, <2>3 DEF Bijection, Injection, Surjection, IsInjective
  <1> HIDE DEF L, f
  <1>7. Cardinality(L) = Cardinality(Missing)
    BY <1>5, <1>6, FS_Bijection DEF ExistsBijection
  <1>8. Cardinality(Todo) = Cardinality(L)
    BY <1>7 DEF AllFound
  <1> QED BY <1>4, <1>5, <1>8, FS_Subset DEF L

LEMMA BatchInit == Init => BatchInv
  BY DEF Init, BatchInv

LEMMA BatchStep == TypeOK /\ BatchInv /\ [Next]_vars => BatchInv'
  <1> SUFFICES ASSUME TypeOK, BatchInv, [Next]_vars PROVE BatchInv'
    OBVIOUS
  <1>0. head100 \in Nat /\ Len(mirror) \in Nat /\ head100 <= Len(mirror)
    BY DEF TypeOK
  <1>1. ASSUME NEW d \in Dumps, Commit(d) PROVE BatchInv'
    BY <1>0, <1>1 DEF Commit, BatchInv
  <1>2. CASE StartBatch
    <2>1. todo' = Left(head100)
      BY <1>2, AllFoundIsLeft DEF StartBatch
    <2> QED BY <1>2, <2>1 DEF StartBatch, BatchInv, Left, IsOldest
  <1>3. CASE CommitMirror
    <2>1. PICK d \in todo : /\ IsOldest(d, todo)
                            /\ mirror' = Append(mirror, d)
                            /\ todo' = todo \ {d}
      BY <1>3 DEF CommitMirror
    <2>2. todo = Left(head100) /\ d \in Dumps
      BY <1>3 DEF CommitMirror, BatchInv, TypeOK
    <2>3. UNCHANGED <<git, head100>> /\ pc' = "poll"
      BY <1>3 DEF CommitMirror
    <2>4. /\ Len(mirror') = Len(mirror) + 1 /\ mirror'[Len(mirror) + 1] = d
          /\ \A i \in 1..Len(mirror) : mirror'[i] = mirror[i]
      BY <2>1 DEF TypeOK
    <2>5. Left(head100)' = Left(head100)
      <3>1. \A i \in 1..head100 : mirror'[i] = mirror[i]
        BY <1>0, <2>4
      <3> QED BY <2>3, <3>1 DEF Left, Rows
    <2>6. \A j \in (head100 + 1)..Len(mirror') :
             \/ j = Len(mirror) + 1
             \/ j \in (head100 + 1)..Len(mirror) /\ j \in 1..Len(mirror)
      BY <1>0, <2>4
    <2>7. \A j \in (head100 + 1)..Len(mirror') :
             mirror'[j] \in Left(head100) /\ IsOldest(mirror'[j], Left(head100))
      BY <2>1, <2>2, <2>4, <2>6 DEF BatchInv
    <2>8. \A j \in (head100 + 1)..Len(mirror') : mirror'[j] = d
      <3>1. ASSUME NEW j \in (head100 + 1)..Len(mirror') PROVE mirror'[j] = d
        <4> DEFINE e == mirror'[j]
        <4>1. e \in todo /\ IsOldest(e, todo)
          BY <2>2, <2>7
        <4>2. e \in Dumps
          BY <4>1 DEF TypeOK
        <4>3. SigningTime[d] <= SigningTime[e] /\ SigningTime[e] <= SigningTime[d]
          BY <2>1, <4>1 DEF IsOldest
        <4>4. SigningTime[d] \in Nat /\ SigningTime[e] \in Nat
          BY <2>2, <4>2, SigningTimeAssumption
        <4>5. SigningTime[d] = SigningTime[e]
          BY <4>3, <4>4
        <4> QED BY <2>2, <4>2, <4>5, SigningTimeAssumption
      <3> QED BY <3>1
    <2>9. todo' = Left(Len(mirror))'
      <3>1. 1..Len(mirror') = (1..head100) \cup ((head100 + 1)..Len(mirror'))
        BY <1>0, <2>4
      <3>2. Len(mirror') \in (head100 + 1)..Len(mirror')
        BY <1>0, <2>4
      <3>3. Rows(mirror', Len(mirror')) = Rows(mirror', head100) \cup {d}
        BY <2>8, <3>1, <3>2 DEF Rows
      <3>4. Left(head100)' = Range(git) \ Rows(mirror', head100)
        BY <2>3 DEF Left
      <3>5. Left(Len(mirror))' = Range(git) \ Rows(mirror', Len(mirror'))
        BY <2>3 DEF Left
      <3> QED BY <2>1, <2>2, <2>5, <3>3, <3>4, <3>5
    <2>10. \A j \in (head100 + 1)..Len(mirror') :
              mirror'[j] \in Left(head100)' /\ IsOldest(mirror'[j], Left(head100)')
      BY <2>5, <2>7
    <2> QED BY <2>3, <2>9, <2>10 DEF BatchInv, IsOldest
  <1>4. CASE Poll
    BY <1>0, <1>4 DEF Poll, BatchInv, Left
  <1>5. CASE Push \/ Raise \/ PollRaises
    BY <1>5 DEF Push, Raise, PollRaises, BatchInv, Left, IsOldest
  <1>6. CASE Restart
    BY <1>0, <1>6 DEF Restart, Restarted, BatchInv, Left
  <1>7. CASE UNCHANGED vars
    BY <1>7 DEF vars, BatchInv, Left, IsOldest
  <1> QED BY <1>1, <1>2, <1>3, <1>4, <1>5, <1>6, <1>7 DEF Next

\* Whatever the order of the commits and whatever raises, github_loop() commits
\* a dump again only as long as table log100 lacks the last commits.
THEOREM RepeatsOnlyBehind == Spec => RepeatedOnlyBehind
  <1> DEFINE NoRepeat == mirror' # mirror /\ head100 = Len(mirror)
                           => Last(mirror') \notin Range(mirror)
  <1>1. TypeOK /\ BatchInv /\ [Next]_vars => [NoRepeat]_vars
    <2> SUFFICES ASSUME TypeOK, BatchInv, Next,
                        mirror' # mirror, head100 = Len(mirror)
                 PROVE  Last(mirror') \notin Range(mirror)
      OBVIOUS
    <2>1. CommitMirror
      BY DEF Next, Commit, StartBatch, Poll, Push, Raise, PollRaises, Restart
    <2>2. PICK d \in todo : mirror' = Append(mirror, d)
      BY <2>1 DEF CommitMirror
    <2>3. d \notin Range(mirror)
      <3>1. Rows(mirror, Len(mirror)) = Range(mirror)
        BY DEF Rows, Range, TypeOK
      <3> QED BY <2>1, <2>2, <3>1 DEF CommitMirror, BatchInv, Left, TypeOK
    <2>4. Last(mirror') = d
      BY <2>2 DEF Last, TypeOK
    <2> QED BY <2>3, <2>4
  <1> QED BY <1>1, TypeInit, TypeStep, BatchInit, BatchStep, PTL
          DEF Spec, RepeatedOnlyBehind
=============================================================================
