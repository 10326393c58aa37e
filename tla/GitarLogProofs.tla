--------------------------- MODULE GitarLogProofs ---------------------------
(***************************************************************************)
(* Theorems about GitarLog, for any dumps and, unless they say otherwise,  *)
(* any number of pollers.                                                  *)
(***************************************************************************)
EXTENDS GitarLog, FiniteSetTheorems, TLAPS

-----------------------------------------------------------------------------
(* What the reads of a linear history return *)

\* A new commit changes nothing in the history before it.
LEMMA RowsOfPrefix ==
    ASSUME NEW S, NEW branch \in Seq(S), NEW d \in S,
           NEW k \in 0..Len(branch)
    PROVE  Rows(Append(branch, d), k) = Rows(branch, k)
  <1>1. \A i \in 1..k : Append(branch, d)[i] = branch[i]
    OBVIOUS
  <1> QED BY <1>1 DEF Rows

\* The rows of a, followed by `git log a..b`, are the rows of b.
LEMMA RowsExtend ==
    ASSUME NEW branch, NEW a \in Nat, NEW b \in Nat, a <= b
    PROVE  Rows(branch, a) \cup LogRange(branch, a, b) = Rows(branch, b)
  <1>1. 1..b = (1..a) \cup ((a + 1)..b)
    OBVIOUS
  <1> QED BY <1>1 DEF Rows, LogRange

\* `git log a..b` of an a that is not behind b is empty.
LEMMA RangeEmpty ==
    ASSUME NEW branch, NEW a \in Nat, NEW b \in Nat, b <= a
    PROVE  LogRange(branch, a, b) = {}
  <1>1. (a + 1)..b = {}
    OBVIOUS
  <1> QED BY <1>1 DEF LogRange

\* The commits of a range that store d are finitely many.
LEMMA CommitsType ==
    ASSUME NEW branch, NEW d, NEW a \in Nat, NEW b \in Nat
    PROVE  /\ IsFiniteSet({i \in (a + 1)..b : branch[i] = d})
           /\ CommitsOf(branch, d, a, b) \in Nat
  <1> DEFINE at == {i \in (a + 1)..b : branch[i] = d}
  <1>1. a + 1 \in Int /\ b \in Int
    OBVIOUS
  <1>2. IsFiniteSet((a + 1)..b)
    BY <1>1, FS_Interval
  <1>3. at \in SUBSET ((a + 1)..b)
    OBVIOUS
  <1>4. IsFiniteSet(at)
    BY <1>2, <1>3, FS_Subset
  <1>5. Cardinality(at) \in Nat
    BY <1>4, FS_CardinalityType
  <1> QED BY <1>4, <1>5 DEF CommitsOf

\* The commits up to a and those of `git log a..b` are the commits up to b,
\* each counted once.
LEMMA CommitsExtend ==
    ASSUME NEW branch, NEW d, NEW a \in Nat, NEW b \in Nat, a <= b
    PROVE  CommitsOf(branch, d, 0, a) + CommitsOf(branch, d, a, b)
               = CommitsOf(branch, d, 0, b)
  <1> DEFINE before == {i \in (0 + 1)..a : branch[i] = d}
             after == {i \in (a + 1)..b : branch[i] = d}
             all == {i \in (0 + 1)..b : branch[i] = d}
  <1>1. before \cup after = all /\ before \cap after = {}
    OBVIOUS
  <1>2. IsFiniteSet(before) /\ IsFiniteSet(after)
    BY CommitsType, 0 \in Nat
  <1>3. Cardinality(before) \in Nat /\ Cardinality(after) \in Nat
    BY <1>2, FS_CardinalityType
  <1>4. /\ CommitsOf(branch, d, 0, a) = Cardinality(before)
        /\ CommitsOf(branch, d, a, b) = Cardinality(after)
        /\ CommitsOf(branch, d, 0, b) = Cardinality(all)
    BY DEF CommitsOf
  <1> HIDE DEF before, after, all
  <1>5. Cardinality(before \cup after)
            = Cardinality(before) + Cardinality(after)
                - Cardinality(before \cap after)
    BY <1>2, FS_Union
  <1>6. Cardinality(before \cap after) = 0
    BY <1>1, FS_EmptySet
  <1>7. Cardinality(all) = Cardinality(before) + Cardinality(after)
                             - Cardinality(before \cap after)
    BY <1>1, <1>5, Zenon
  <1> QED BY <1>3, <1>4, <1>6, <1>7

\* A dump has a row when it was committed at all.
LEMMA CommittedIsCounted ==
    ASSUME NEW branch, NEW d, NEW k \in Nat
    PROVE  CommitsOf(branch, d, 0, k) # 0 <=> d \in Rows(branch, k)
  <1> DEFINE at == {i \in (0 + 1)..k : branch[i] = d}
  <1>1. IsFiniteSet(at)
    BY CommitsType, 0 \in Nat
  <1>2. CommitsOf(branch, d, 0, k) = Cardinality(at)
    BY DEF CommitsOf
  <1>3. at # {} <=> d \in Rows(branch, k)
    BY DEF Rows
  <1> HIDE DEF at
  <1>4. Cardinality(at) = 0 <=> at = {}
    BY <1>1, FS_EmptySet
  <1> QED BY <1>2, <1>3, <1>4

\* A new commit changes no count of the history before it.
LEMMA CommitsOfPrefix ==
    ASSUME NEW S, NEW branch \in Seq(S), NEW e \in S, NEW d,
           NEW k \in 0..Len(branch)
    PROVE  CommitsOf(Append(branch, e), d, 0, k) = CommitsOf(branch, d, 0, k)
  <1>1. \A i \in (0 + 1)..k : Append(branch, e)[i] = branch[i]
    OBVIOUS
  <1>2. {i \in (0 + 1)..k : Append(branch, e)[i] = d}
            = {i \in (0 + 1)..k : branch[i] = d}
    BY <1>1
  <1> QED BY <1>2 DEF CommitsOf

\* Every commit of a range stores a dump.
LEMMA RangeType ==
    ASSUME NEW branch \in Seq(Dumps), NEW a \in Nat, NEW b \in 0..Len(branch)
    PROVE  LogRange(branch, a, b) \subseteq Dumps
  <1>1. \A i \in (a + 1)..b : branch[i] \in Dumps
    OBVIOUS
  <1> QED BY <1>1 DEF LogRange

LEMMA TypeInit == Init => TypeOK
  <1> SUFFICES ASSUME Init PROVE TypeOK
    OBVIOUS
  <1>1. overlap \in BOOLEAN
    BY Zenon DEF Init
  <1> QED BY <1>1 DEF Init, TypeOK

LEMMA TypeStep == TypeOK /\ [Next]_vars => TypeOK'
  <1> SUFFICES ASSUME TypeOK, [Next]_vars PROVE TypeOK'
    OBVIOUS
  <1> USE DEF TypeOK
  <1>1. ASSUME NEW d \in Dumps, Commit(d) PROVE TypeOK'
    BY <1>1 DEF Commit, dbVars, pollVars
  <1>2. ASSUME NEW d \in Dumps, Commit100(d) PROVE TypeOK'
    BY <1>2 DEF Commit100, dbVars, pollVars
  <1>3. ASSUME NEW p \in Pollers, ReadHead(p) PROVE TypeOK'
    BY <1>3 DEF ReadHead, gitVars, dbVars
  <1>4. ASSUME NEW p \in Pollers, ReadHead100(p) PROVE TypeOK'
    BY <1>4 DEF ReadHead100, gitVars, dbVars
  <1>5. ASSUME NEW p \in Pollers, CommitPoll(p) PROVE TypeOK'
    <2>1. LogRange(main, head, seen[p]) \subseteq Dumps
      BY RangeType
    <2>2. log' \subseteq Dumps
      BY <1>5, <2>1 DEF CommitPoll, InsertUpTo
    <2>3. head100 \in Nat /\ seen100[p] \in Nat
      OBVIOUS
    <2>4. ASSUME NEW d \in Dumps
          PROVE  log100[d] + CommitsOf(mirror, d, head100, seen100[p]) \in Nat
      <3>1. CommitsOf(mirror, d, head100, seen100[p]) \in Nat
        BY <2>3, CommitsType
      <3> QED BY <3>1
    <2>5. log100' \in [Dumps -> Nat]
      BY <1>5, <2>4 DEF CommitPoll, Insert100UpTo
    <2> QED BY <1>5, <2>2, <2>5 DEF CommitPoll, UpdateDbCommit, EndPoll, gitVars
  <1>6. ASSUME NEW p \in Pollers, RollbackPoll(p) PROVE TypeOK'
    BY <1>6 DEF RollbackPoll, EndPoll, gitVars, dbVars
  <1>7. ASSUME NEW p \in Pollers, PollFail(p) PROVE TypeOK'
    BY <1>7 DEF PollFail, EndPoll, gitVars, dbVars
  <1>8. CASE UNCHANGED vars
    BY <1>8 DEF vars, gitVars, dbVars, pollVars
  <1> QED
    BY <1>1, <1>2, <1>3, <1>4, <1>5, <1>6, <1>7, <1>8
    DEF Next, Git, PollFs

\* The variables keep their types: in particular no stored ref, and no ref a
\* poller has read, points past the end of its branch.
THEOREM TypeCorrect == Spec => []TypeOK
  BY TypeInit, TypeStep, PTL DEF Spec

-----------------------------------------------------------------------------
\* A range of an n that is at or past its stored head is inserted without
\* leaving a gap: the rows before it must have been those of the head itself.
LEMMA InsertLeavesNoGap ==
    ASSUME TypeOK, LogIsPrefix, NEW n \in 0..Len(main),
           Insertable(main, log, head, n)
    PROVE  \E k \in n..Len(main) :
              log \cup LogRange(main, head, n) = Rows(main, k)
  <1>1. PICK k \in head..Len(main) : log = Rows(main, k)
    BY DEF LogIsPrefix
  <1>2. k \in Nat /\ head \in Nat /\ n \in Nat
    BY <1>1 DEF TypeOK
  <1>3. CASE n <= head
    <2>1. LogRange(main, head, n) = {}
      BY <1>2, <1>3, RangeEmpty
    <2>2. k \in n..Len(main)
      BY <1>1, <1>2, <1>3
    <2> QED BY <1>1, <2>1, <2>2
  <1>4. CASE head < n /\ head < k
    <2>1. head + 1 \in 1..k /\ head + 1 \in (head + 1)..n
      BY <1>2, <1>4
    <2>2. main[head + 1] \in LogRange(main, head, n) \cap log
      BY <1>1, <2>1 DEF Rows, LogRange
    <2> QED BY <2>2 DEF Insertable
  <1>5. CASE head < n /\ k = head
    <2>1. log \cup LogRange(main, head, n) = Rows(main, n)
      BY <1>1, <1>2, <1>5, RowsExtend
    <2>2. n \in n..Len(main)
      BY <1>2
    <2> QED BY <2>1, <2>2
  <1> QED BY <1>1, <1>2, <1>3, <1>4, <1>5

\* However many processes poll one database, and whatever they race with, the
\* rows are always those of a prefix of git's history.
THEOREM NeverAGap == Spec => []LogIsPrefix
  <1>1. Init => LogIsPrefix
    BY DEF Init, LogIsPrefix, Rows
  <1>2. TypeOK /\ LogIsPrefix /\ [Next]_vars => LogIsPrefix'
    <2> SUFFICES ASSUME TypeOK, LogIsPrefix, [Next]_vars PROVE LogIsPrefix'
      OBVIOUS
    <2>1. PICK k \in head..Len(main) : log = Rows(main, k)
      BY DEF LogIsPrefix
    <2>2. ASSUME NEW d \in Dumps, Commit(d) PROVE LogIsPrefix'
      <3>1. k \in 0..Len(main) /\ k \in head..Len(Append(main, d))
        BY <2>1 DEF TypeOK
      <3>2. Rows(Append(main, d), k) = Rows(main, k)
        BY <3>1, RowsOfPrefix DEF TypeOK
      <3> QED
        BY <2>1, <2>2, <3>1, <3>2 DEF Commit, dbVars, LogIsPrefix
    <2>3. ASSUME NEW p \in Pollers, CommitPoll(p) PROVE LogIsPrefix'
      <3>1. seen[p] \in 0..Len(main)
        BY DEF TypeOK
      <3>2. PICK j \in seen[p]..Len(main) :
               log \cup LogRange(main, head, seen[p]) = Rows(main, j)
        BY <2>3, <3>1, InsertLeavesNoGap DEF CommitPoll
      <3> QED
        BY <2>3, <3>2
        DEF CommitPoll, InsertUpTo, UpdateDbCommit, gitVars, LogIsPrefix
    <2>4. CASE UNCHANGED <<main, log, head>>
      BY <2>4 DEF LogIsPrefix
    <2> QED
      BY <2>2, <2>3, <2>4
      DEF Next, Git, PollFs, Commit100, ReadHead, ReadHead100, RollbackPoll,
          PollFail, vars, gitVars, dbVars
  <1> QED BY <1>1, <1>2, TypeInit, TypeStep, PTL DEF Spec

-----------------------------------------------------------------------------
(***************************************************************************)
(* As long as no two polls overlap, nobody moves the stored refs between a *)
(* poll's reads of git and its transaction, and git only grows: the refs   *)
(* it read are not behind the stored ones.                                 *)
(***************************************************************************)
AloneInv ==
    /\ CacheMatchesHead
    /\ \A p, q \in Pollers :
         ~overlap /\ pc[p] # "idle" /\ pc[q] # "idle" => p = q
    /\ \A p \in Pollers :
         ~overlap /\ pc[p] \in {"read", "ready"} => head <= seen[p]
    /\ \A p \in Pollers :
         ~overlap /\ pc[p] = "ready" => head100 <= seen100[p]

LEMMA AloneInit == Init => AloneInv
  <1>1. ASSUME NEW b PROVE Rows(b, 0) = {}
    BY DEF Rows
  <1>2. ASSUME NEW b, NEW d PROVE CommitsOf(b, d, 0, 0) = 0
    <2>1. CommitsOf(b, d, 0, 0) # 0 <=> d \in Rows(b, 0)
      BY CommittedIsCounted, 0 \in Nat
    <2> QED BY <1>1, <2>1
  <1> QED BY <1>1, <1>2 DEF Init, AloneInv, CacheMatchesHead

\* A transaction that goes through leaves the rows of the refs that were read.
LEMMA PollKeepsMatch ==
    ASSUME TypeOK, AloneInv, NEW p \in Pollers, CommitPoll(p)
    PROVE  CacheMatchesHead'
  <1>0. overlap' = overlap
    BY DEF CommitPoll
  <1>1. SUFFICES ASSUME ~overlap PROVE CacheMatchesHead'
    BY <1>0 DEF CacheMatchesHead
  <1>2. /\ head \in Nat /\ seen[p] \in Nat /\ head <= seen[p]
        /\ head100 \in Nat /\ seen100[p] \in Nat /\ head100 <= seen100[p]
    BY <1>1 DEF TypeOK, AloneInv, CommitPoll
  <1>3. log = Rows(main, head)
    BY <1>1 DEF AloneInv, CacheMatchesHead
  <1>4. log' = Rows(main, seen[p])
    BY <1>2, <1>3, RowsExtend DEF CommitPoll, InsertUpTo
  <1>5. ASSUME NEW d \in Dumps
        PROVE  log100'[d] = CommitsOf(mirror, d, 0, seen100[p])
    <2>1. log100[d] = CommitsOf(mirror, d, 0, head100)
      BY <1>1 DEF AloneInv, CacheMatchesHead
    <2>2. log100'[d] = log100[d] + CommitsOf(mirror, d, head100, seen100[p])
      BY DEF CommitPoll, Insert100UpTo
    <2> QED BY <1>2, <2>1, <2>2, CommitsExtend
  <1>6. /\ head' = seen[p] /\ head100' = seen100[p]
        /\ main' = main /\ mirror' = mirror
    BY DEF CommitPoll, UpdateDbCommit, gitVars
  <1> QED BY <1>4, <1>5, <1>6 DEF CacheMatchesHead

LEMMA AloneStep == TypeOK /\ AloneInv /\ [Next]_vars => AloneInv'
  <1> SUFFICES ASSUME TypeOK, AloneInv, [Next]_vars PROVE AloneInv'
    OBVIOUS
  <1>2. ASSUME NEW d \in Dumps, Commit(d) PROVE AloneInv'
    <2>1. Rows(main', head) = Rows(main, head)
      BY <1>2, RowsOfPrefix DEF Commit, TypeOK
    <2> QED
      BY <1>2, <2>1
      DEF Commit, AloneInv, CacheMatchesHead, dbVars, pollVars
  <1>3. ASSUME NEW d \in Dumps, Commit100(d) PROVE AloneInv'
    <2>1. \A e \in Dumps :
             CommitsOf(mirror', e, 0, head100) = CommitsOf(mirror, e, 0, head100)
      BY <1>3, CommitsOfPrefix DEF Commit100, TypeOK
    <2> QED
      BY <1>3, <2>1
      DEF Commit100, AloneInv, CacheMatchesHead, dbVars, pollVars
  <1>4. ASSUME NEW p \in Pollers, ReadHead(p) PROVE AloneInv'
    <2>1. CacheMatchesHead'
      BY <1>4 DEF ReadHead, AloneInv, CacheMatchesHead, gitVars, dbVars
    <2>2. CASE overlap'
      BY <2>1, <2>2 DEF AloneInv
    <2>3. CASE ~overlap'
      <3>1. ~overlap /\ \A q \in Pollers : pc[q] = "idle"
        BY <1>4, <2>3 DEF ReadHead
      <3>2. /\ pc' = [pc EXCEPT ![p] = "read"]
            /\ seen' = [seen EXCEPT ![p] = Len(main)]
            /\ head' = head /\ head <= Len(main)
        BY <1>4 DEF ReadHead, dbVars, TypeOK
      <3>3. \A q \in Pollers : pc'[q] # "idle" => q = p /\ pc'[q] = "read"
        BY <3>1, <3>2 DEF TypeOK
      <3>4. seen'[p] = Len(main)
        BY <3>2 DEF TypeOK
      <3> QED BY <2>1, <3>2, <3>3, <3>4 DEF AloneInv
    <2> QED BY <2>2, <2>3
  <1>5. ASSUME NEW p \in Pollers, ReadHead100(p) PROVE AloneInv'
    BY <1>5
    DEF ReadHead100, AloneInv, CacheMatchesHead, gitVars, dbVars, TypeOK
  <1>6. ASSUME NEW p \in Pollers, CommitPoll(p) PROVE AloneInv'
    <2>1. CacheMatchesHead'
      BY <1>6, PollKeepsMatch
    <2>2. overlap' = overlap /\ pc[p] # "idle"
          /\ pc' = [pc EXCEPT ![p] = "idle"]
      BY <1>6 DEF CommitPoll, EndPoll
    <2>3. ASSUME ~overlap PROVE \A r \in Pollers : pc'[r] = "idle"
      BY <2>2, <2>3 DEF AloneInv, TypeOK
    <2> QED BY <2>1, <2>2, <2>3 DEF AloneInv
  <1>7. ASSUME NEW p \in Pollers,
               EndPoll(p), UNCHANGED <<gitVars, dbVars, overlap>>
        PROVE  AloneInv'
    BY <1>7 DEF EndPoll, AloneInv, CacheMatchesHead, gitVars, dbVars, TypeOK
  <1>8. CASE UNCHANGED vars
    BY <1>8
    DEF vars, AloneInv, CacheMatchesHead, gitVars, dbVars, pollVars
  <1> QED
    BY <1>2, <1>3, <1>4, <1>5, <1>6, <1>7, <1>8
    DEF Next, Git, PollFs, RollbackPoll, PollFail

\* Any number of processes: as long as no two polls overlap, the tables hold
\* the rows of every commit of their stored refs and no other, also when git has
\* a dump twice.
THEOREM MatchesUnlessRaced == Spec => []CacheMatchesHead
  <1>1. AloneInv => CacheMatchesHead
    BY DEF AloneInv
  <1> QED
    BY <1>1, TypeInit, TypeStep, AloneInit, AloneStep, PTL DEF Spec

LEMMA AloneAlways == Spec => [](TypeOK /\ AloneInv)
  BY TypeInit, TypeStep, AloneInit, AloneStep, PTL DEF Spec

LEMMA StepOfCopy ==
    ASSUME TypeOK, AloneInv, [Next]_vars, ~overlap
    PROVE  /\ [Copy!Next]_<<main, log, head>>
           /\ [Copy100!Next]_<<mirror, log100, head100>>
  <1> USE DEF gitVars, dbVars
  <1> DEFINE counted == {d \in Dumps : log100[d] # 0}
  <1>1. ASSUME NEW d \in Dumps, Commit(d)
        PROVE  Copy!Next /\ UNCHANGED <<mirror, log100, head100>>
    BY <1>1 DEF Commit, Copy!Next, Copy!Commit
  <1>2. ASSUME NEW d \in Dumps, Commit100(d)
        PROVE  Copy100!Next /\ UNCHANGED <<main, log, head>>
    BY <1>2 DEF Commit100, Copy100!Next, Copy100!Commit
  <1>3. ASSUME NEW p \in Pollers, CommitPoll(p) PROVE Copy!Next /\ Copy100!Next
    <2>1. /\ head' = seen[p] /\ head100' = seen100[p]
          /\ UNCHANGED <<main, mirror, overlap>>
      BY <1>3 DEF CommitPoll, UpdateDbCommit
    <2>2. seen[p] \in head..Len(main) /\ seen100[p] \in head100..Len(mirror)
      BY <1>3 DEF CommitPoll, AloneInv, TypeOK
    <2>3. TypeOK' /\ AloneInv'
      BY TypeStep, AloneStep
    <2>4. log' = Rows(main, seen[p]) /\ counted' = Rows(mirror, seen100[p])
      <3>1. log' = Rows(main', head')
        BY <2>1, <2>3 DEF AloneInv, CacheMatchesHead
      <3>2. \A d \in Dumps : log100'[d] = CommitsOf(mirror', d, 0, head100')
        BY <2>1, <2>3 DEF AloneInv, CacheMatchesHead
      <3>4. \A d \in Dumps : log100'[d] # 0 <=> d \in Rows(mirror, seen100[p])
        <4>1. seen100[p] \in Nat
          BY DEF TypeOK
        <4> QED BY <2>1, <3>2, <4>1, CommittedIsCounted
      <3>3. Rows(mirror, seen100[p]) \subseteq Dumps
        BY <2>2 DEF TypeOK, Rows
      <3> QED BY <2>1, <3>1, <3>3, <3>4
    <2>5. Copy!Next
      BY <2>1, <2>2, <2>4 DEF Copy!Next, Copy!Poll, Copy!Rows, Rows
    <2>6. Copy100!Next
      BY <2>1, <2>2, <2>4 DEF Copy100!Next, Copy100!Poll, Copy100!Rows, Rows
    <2> QED BY <2>5, <2>6
  <1>4. CASE UNCHANGED <<gitVars, dbVars>>
    BY <1>4
  <1> QED
    BY <1>1, <1>2, <1>3, <1>4
    DEF Next, Git, PollFs, ReadHead, ReadHead100, RollbackPoll, PollFail, vars

\* Any number of processes: as long as no two polls overlap, a poll is as good as
\* one step from one commit to a later one.
THEOREM AtomicUnlessRaced == Spec => PollsAreAtomic
  <1>1. TypeOK /\ AloneInv /\ [Next]_vars
            => /\ [overlap \/ Copy!Next]_<<main, log, head>>
               /\ [overlap \/ Copy100!Next]_<<mirror, log100, head100>>
    <2> SUFFICES ASSUME TypeOK, AloneInv, [Next]_vars
                 PROVE  /\ [overlap \/ Copy!Next]_<<main, log, head>>
                        /\ [overlap \/ Copy100!Next]_<<mirror, log100, head100>>
      OBVIOUS
    <2>1. CASE overlap
      BY <2>1
    <2>2. CASE ~overlap
      BY <2>2, StepOfCopy
    <2> QED BY <2>1, <2>2
  <1> QED BY <1>1, AloneAlways, PTL DEF Spec, PollsAreAtomic

\* rkngitar, and giweb behind a single worker: the polls of one process never
\* overlap, so that these theorems hold of its copy without reservation.
THEOREM OnePollerIsAlone ==
    ASSUME NEW p, Pollers = {p} PROVE Spec => []~overlap
  <1>1. Init => ~overlap
    BY DEF Init
  <1>2. ~overlap /\ [Next]_vars => ~overlap'
    <2> SUFFICES ASSUME ~overlap, [Next]_vars PROVE ~overlap'
      OBVIOUS
    <2>1. ASSUME NEW r \in Pollers, ReadHead(r) PROVE ~overlap'
      BY <2>1 DEF ReadHead
    <2> QED
      BY <2>1
      DEF Next, Git, PollFs, Commit, Commit100, ReadHead100, CommitPoll,
          RollbackPoll, PollFail, vars
  <1> QED BY <1>1, <1>2, PTL DEF Spec

\* Its copy is thus what Archive and GithubMirror take it for.
THEOREM OnePollerIsAtomic ==
    ASSUME NEW p, Pollers = {p} PROVE Spec => Copy!Spec /\ Copy100!Spec
  <1>1. Init => Copy!Init /\ Copy100!Init
    BY DEF Init, Copy!Init, Copy100!Init
  <1>2. TypeOK /\ AloneInv /\ ~overlap /\ [Next]_vars
            => /\ [Copy!Next]_<<main, log, head>>
               /\ [Copy100!Next]_<<mirror, {d \in Dumps : log100[d] # 0}, head100>>
    <2>1. UNCHANGED <<mirror, log100, head100>>
              => UNCHANGED <<mirror, {d \in Dumps : log100[d] # 0}, head100>>
      OBVIOUS
    <2> QED BY <2>1, StepOfCopy
  <1> QED
    BY <1>1, <1>2, AloneAlways, OnePollerIsAlone, PTL DEF Spec, Copy!Spec, Copy100!Spec
=============================================================================
