--------------------------- MODULE IndexerProofs ---------------------------
(***************************************************************************)
(* Theorems about Indexer, for any dumps, pages, items and faults: as long *)
(* as no dump is listed late, the differences to take are those of         *)
(* neighbours in time, and none of them is ever refused; late or not, the  *)
(* table of contents tells what the dumps listed.                          *)
(***************************************************************************)
EXTENDS Indexer, FiniteSetTheorems, TLAPS

WrittenSoFar == UNION {Written(p[1], p[2]) : p \in ingested}

\* The pairs are always those of neighbouring rows, a pair that was ingested
\* stays one of them and goes forward in time, and content has the rows of such
\* pairs, all of them.
IndexInv ==
    /\ served \subseteq Dumps /\ tmp \subseteq Dumps
    /\ known \in Seq(Dumps) /\ IsInjective(known)
    /\ knownDiff = Joined(known)
    /\ ingested \subseteq knownDiff
    /\ content = WrittenSoFar
    /\ \A p \in ingested : Time[p[1]] < Time[p[2]]

-----------------------------------------------------------------------------
LEMMA TimeType == \A d \in Dumps \cup {Zero} : Time[d] \in Nat
  BY TimeAssumption

\* The rows a listing adds are new, and each of them is added once.
LEMMA InsertedIsInjective ==
    ASSUME NEW D \in SUBSET Dumps, known \in Seq(D), IsInjective(known),
           NEW S \in SUBSET D, NEW rows \in Inserted(S)
    PROVE  /\ rows \in Seq(D) /\ IsInjective(rows)
           /\ \E s \in Seq(D) : rows = known \o s
  <1> DEFINE new == S \ Range(known)
             n == Cardinality(new)
  <1>1. PICK s \in InOrder(new) : rows = known \o s
    BY DEF Inserted
  <1>2. n \in Nat
    BY TimeAssumption, FS_Subset, FS_CardinalityType
  <1>3. s \in [1..n -> new] /\ \A i, j \in 1..n : i < j => Time[s[i]] < Time[s[j]]
    BY <1>1 DEF InOrder
  <1> HIDE DEF n
  <1>4. s \in Seq(D) /\ Len(s) = n
    BY <1>2, <1>3
  <1>5. ASSUME NEW i \in 1..n, NEW j \in 1..n, s[i] = s[j] PROVE i = j
    <2>1. Time[s[i]] \in Nat /\ i \in Nat /\ j \in Nat
      BY <1>2, <1>3, TimeType
    <2>2. ~(i < j) /\ ~(j < i)
      BY <1>3, <1>5, <2>1
    <2> QED BY <2>1, <2>2
  <1>6. /\ DOMAIN rows = 1..(Len(known) + n)
        /\ \A i \in 1..Len(known) : rows[i] = known[i]
        /\ \A i \in 1..(Len(known) + n) \ 1..Len(known) :
             i - Len(known) \in 1..n /\ rows[i] = s[i - Len(known)]
    <2>1. Len(known) \in Nat /\ DOMAIN rows = 1..(Len(known) + n)
      BY <1>1, <1>2, <1>4
    <2>2. \A i \in 1..Len(known) : rows[i] = known[i]
      BY <1>1, <1>2, <1>4
    <2>3. ASSUME NEW i \in 1..(Len(known) + n) \ 1..Len(known)
          PROVE  i - Len(known) \in 1..n
      BY <1>2, <2>1
    <2>4. ASSUME NEW i \in 1..(Len(known) + n) \ 1..Len(known)
          PROVE  rows[i] = s[i - Len(known)]
      BY <1>1, <1>2, <1>4, <2>1
    <2> QED BY <2>1, <2>2, <2>3, <2>4
  <1>7. ASSUME NEW i \in DOMAIN rows, NEW j \in DOMAIN rows, rows[i] = rows[j]
        PROVE  i = j
    <2>1. \A k \in 1..Len(known) : known[k] \in Range(known)
      BY DEF Range
    <2>2. \A k \in 1..n : s[k] \notin Range(known)
      BY <1>3
    <2>3. i \in Int /\ j \in Int /\ Len(known) \in Nat
      BY <1>2, <1>6
    <2>4. CASE i \in 1..Len(known) /\ j \in 1..Len(known)
      BY <1>6, <1>7, <2>4 DEF IsInjective
    <2>5. CASE i \notin 1..Len(known) /\ j \notin 1..Len(known)
      <3>1. i - Len(known) = j - Len(known)
        BY <1>5, <1>6, <1>7, <2>5
      <3> QED BY <2>3, <3>1
    <2>6. CASE i \in 1..Len(known) /\ j \notin 1..Len(known)
      BY <1>6, <1>7, <2>1, <2>2, <2>6
    <2>7. CASE i \notin 1..Len(known) /\ j \in 1..Len(known)
      BY <1>6, <1>7, <2>1, <2>2, <2>7
    <2> QED BY <2>4, <2>5, <2>6, <2>7
  <1>8. rows \in Seq(D)
    BY <1>1, <1>4
  <1> QED BY <1>1, <1>4, <1>7, <1>8 DEF IsInjective

LEMMA JoinedGrows ==
    ASSUME NEW rows \in Seq(Dumps), NEW s \in Seq(Dumps)
    PROVE  Joined(rows) \subseteq Joined(rows \o s)
  <1> DEFINE pair(r, i) == <<IF i = 1 THEN Zero ELSE r[i - 1], r[i]>>
  <1>1. ASSUME NEW i \in DOMAIN rows
        PROVE  i \in DOMAIN (rows \o s) /\ pair(rows, i) = pair(rows \o s, i)
    <2>1. i \in DOMAIN (rows \o s) /\ (rows \o s)[i] = rows[i]
      OBVIOUS
    <2>2. i # 1 => (rows \o s)[i - 1] = rows[i - 1]
      OBVIOUS
    <2> QED BY <2>1, <2>2
  <1> QED BY <1>1 DEF Joined

\* A dump has one pair before it and one behind it.
LEMMA JoinedOnce ==
    ASSUME NEW rows \in Seq(Dumps), IsInjective(rows),
           NEW p \in Joined(rows), NEW q \in Joined(rows),
           p[1] = q[1] \/ p[2] = q[2]
    PROVE  p = q
  <1>1. PICK i \in 1..Len(rows) : p = <<IF i = 1 THEN Zero ELSE rows[i - 1], rows[i]>>
    BY DEF Joined
  <1>2. PICK j \in 1..Len(rows) : q = <<IF j = 1 THEN Zero ELSE rows[j - 1], rows[j]>>
    BY DEF Joined
  <1>3. CASE p[2] = q[2]
    BY <1>1, <1>2, <1>3 DEF IsInjective
  <1>4. CASE p[1] = q[1]
    <2>1. \A k \in 1..Len(rows) : rows[k] # Zero
      BY TimeAssumption
    <2>2. i # 1 => i - 1 \in 1..Len(rows)
      OBVIOUS
    <2>3. j # 1 => j - 1 \in 1..Len(rows)
      OBVIOUS
    <2>4. i = 1 <=> j = 1
      BY <1>1, <1>2, <1>4, <2>1, <2>2, <2>3
    <2>5. i # 1 => i - 1 = j - 1
      BY <1>1, <1>2, <1>4, <2>2, <2>3, <2>4 DEF IsInjective
    <2>6. i = j
      BY <2>4, <2>5
    <2> QED BY <1>1, <1>2, <2>6
  <1> QED BY <1>3, <1>4

\* The rows of a difference name its dumps, and agree with the constraints.
LEMMA WrittenRows ==
    ASSUME NEW d, NEW e, NEW r \in Written(d, e)
    PROVE  /\ r.from = d /\ r.to = e
           /\ \A s \in Written(d, e) :
                r.item = s.item /\ r.deletion = s.deletion => r = s
  BY DEF Written

-----------------------------------------------------------------------------
\* In a list that is in order, neighbouring rows are neighbours in time.
LEMMA OrderedRowsAreNeighbours ==
    ASSUME known \in Seq(Dumps), ListedInOrder
    PROVE  Joined(known) = Neighbours(Range(known))
  <1> DEFINE n == Len(known)
             prev(i) == IF i = 1 THEN Zero ELSE known[i - 1]
  <1>1. /\ n \in Nat /\ DOMAIN known = 1..n
        /\ \A i \in 1..n : known[i] \in Dumps /\ known[i] \in Range(known)
        /\ \A i \in 1..n : Time[known[i]] \in Nat /\ Time[Zero] < Time[known[i]]
    BY TimeType, TimeAssumption DEF Range
  <1>2. \A i, j \in 1..n : i < j => Time[known[i]] < Time[known[j]]
    BY <1>1 DEF ListedInOrder
  <1>3. \A d \in Range(known) : \E i \in 1..n : d = known[i]
    BY <1>1 DEF Range
  <1>4. Time[Zero] \in Nat
    BY TimeType
  <1> HIDE DEF n
  <1>5. ASSUME NEW i \in 1..n PROVE <<prev(i), known[i]>> \in Neighbours(Range(known))
    <2>1. Time[prev(i)] < Time[known[i]] /\ prev(i) \in Range(known) \cup {Zero}
      BY <1>1, <1>2
    <2>2. ASSUME NEW d \in Range(known), Time[prev(i)] < Time[d], Time[d] < Time[known[i]]
          PROVE  FALSE
      <3>1. PICK j \in 1..n : d = known[j]
        BY <1>3
      <3>2. j < i
        BY <1>1, <1>2, <2>2, <3>1
      <3>3. i # 1 /\ prev(i) = known[i - 1] /\ i - 1 \in 1..n /\ j <= i - 1
        BY <1>1, <3>2
      <3>4. j = i - 1 \/ j < i - 1
        BY <1>1, <3>3
      <3> QED BY <1>1, <1>2, <2>2, <3>1, <3>3, <3>4
    <2> QED BY <1>1, <2>1, <2>2 DEF Neighbours
  <1>6. ASSUME NEW p \in Neighbours(Range(known))
        PROVE  \E i \in 1..n : p = <<prev(i), known[i]>>
    <2>1. /\ p \in (Range(known) \cup {Zero}) \X Range(known)
          /\ Time[p[1]] < Time[p[2]]
          /\ \A d \in Range(known) : ~(Time[p[1]] < Time[d] /\ Time[d] < Time[p[2]])
      BY DEF Neighbours
    <2>2. PICK i \in 1..n : p[2] = known[i]
      BY <1>3, <2>1
    <2>3. p[1] = prev(i)
      <3>1. CASE p[1] = Zero
        <4>1. i # 1 => i - 1 \in 1..n /\ i - 1 < i
          BY <1>1
        <4>2. i = 1
          BY <1>1, <1>2, <2>1, <2>2, <3>1, <4>1
        <4> QED BY <3>1, <4>2
      <3>2. CASE p[1] # Zero
        <4>1. PICK j \in 1..n : p[1] = known[j]
          BY <1>3, <2>1, <3>2
        <4>2. j < i
          <5>1. i = j \/ i < j \/ j < i
            BY <1>1
          <5> QED BY <1>1, <1>2, <2>1, <2>2, <4>1, <5>1
        <4>3. i # 1 /\ i - 1 \in 1..n /\ i - 1 < i /\ (j = i - 1 \/ j < i - 1)
          BY <1>1, <4>2
        <4>4. j = i - 1
          BY <1>1, <1>2, <2>1, <2>2, <4>1, <4>3
        <4> QED BY <4>1, <4>3, <4>4
      <3> QED BY <3>1, <3>2
    <2>4. p = <<p[1], p[2]>>
      BY <2>1
    <2> QED BY <2>2, <2>3, <2>4
  <1>7. Joined(known) = {<<prev(i), known[i]>> : i \in 1..n}
    BY <1>1 DEF Joined
  <1> QED BY <1>5, <1>6, <1>7

\* A pair that was not ingested yet repeats nothing that content has.
LEMMA PendingFits ==
    ASSUME IndexInv, NEW p \in Pending
    PROVE  Unique(content \cup Written(p[1], p[2]))
  <1>1. ASSUME NEW r \in content \cup Written(p[1], p[2])
        PROVE  \E q \in Joined(known) : r \in Written(q[1], q[2])
    BY <1>1 DEF IndexInv, WrittenSoFar, Pending
  <1>2. ASSUME NEW r \in content \cup Written(p[1], p[2]),
               NEW s \in content \cup Written(p[1], p[2]),
               r.item = s.item, r.deletion = s.deletion,
               r.from = s.from \/ r.to = s.to
        PROVE  r = s
    <2>1. PICK q \in Joined(known) : r \in Written(q[1], q[2])
      BY <1>1
    <2>2. PICK o \in Joined(known) : s \in Written(o[1], o[2])
      BY <1>1
    <2>3. r.from = q[1] /\ r.to = q[2] /\ s.from = o[1] /\ s.to = o[2]
      BY <2>1, <2>2, WrittenRows
    <2>4. q = o
      BY <1>2, <2>3, JoinedOnce DEF IndexInv
    <2> QED BY <1>2, <2>1, <2>2, <2>4, WrittenRows
  <1> QED BY <1>2 DEF Unique

LEMMA InvSuffices == IndexInv => InOrderPairsAreNeighbours
  <1> SUFFICES ASSUME IndexInv, ListedInOrder
               PROVE  PairsAreNeighbours /\ \A p \in Pending : Accepted(p)
    BY DEF InOrderPairsAreNeighbours
  <1>1. PairsAreNeighbours
    BY OrderedRowsAreNeighbours DEF IndexInv, PairsAreNeighbours
  <1>2. ASSUME NEW p \in Pending PROVE Accepted(p)
    <2>1. p \in Neighbours(Range(known))
      BY <1>1 DEF Pending, PairsAreNeighbours
    <2>2. Time[p[1]] < Time[p[2]]
      BY <2>1 DEF Neighbours
    <2> QED BY <2>2, PendingFits DEF Accepted
  <1> QED BY <1>1, <1>2

-----------------------------------------------------------------------------
(***************************************************************************)
(* The history of one item and one `ts`: along a sequence of dumps, what   *)
(* was added less what was deleted tells whether the last one lists it.    *)
(***************************************************************************)
Came(H, t, l) == {k \in 1..l : H[k] = t /\ H[k - 1] # t}
Went(H, t, l) == {k \in 1..l : H[k - 1] = t /\ H[k] # t}
Net(H, t, l) == Cardinality(Came(H, t, l)) - Cardinality(Went(H, t, l))

LEMMA CameFinite ==
    ASSUME NEW H, NEW t, NEW l \in Nat
    PROVE  /\ IsFiniteSet(Came(H, t, l)) /\ Cardinality(Came(H, t, l)) \in Nat
           /\ IsFiniteSet(Went(H, t, l)) /\ Cardinality(Went(H, t, l)) \in Nat
  <1>1. IsFiniteSet(1..l)
    BY FS_Interval
  <1>2. Came(H, t, l) \in SUBSET (1..l) /\ Went(H, t, l) \in SUBSET (1..l)
    BY DEF Came, Went
  <1>3. IsFiniteSet(Came(H, t, l)) /\ IsFiniteSet(Went(H, t, l))
    BY <1>1, <1>2, FS_Subset
  <1> QED BY <1>3, FS_CardinalityType

LEMMA OneMore ==
    ASSUME NEW H, NEW t, NEW l \in Nat
    PROVE  Net(H, t, l + 1) =
             IF H[l + 1] = t /\ H[l] # t THEN Net(H, t, l) + 1
             ELSE IF H[l] = t /\ H[l + 1] # t THEN Net(H, t, l) - 1
             ELSE Net(H, t, l)
  <1>1. 1..(l + 1) = (1..l) \cup {l + 1} /\ l + 1 \notin 1..l /\ (l + 1) - 1 = l
    OBVIOUS
  <1>2. /\ l + 1 \notin Came(H, t, l) /\ l + 1 \notin Went(H, t, l)
    BY <1>1 DEF Came, Went
  <1>3. CASE H[l + 1] = t /\ H[l] # t
    <2>1. Came(H, t, l + 1) = Came(H, t, l) \cup {l + 1}
      BY <1>1, <1>3 DEF Came
    <2>2. Went(H, t, l + 1) = Went(H, t, l)
      BY <1>1, <1>3 DEF Went
    <2>3. Cardinality(Came(H, t, l + 1)) = Cardinality(Came(H, t, l)) + 1
      BY <1>2, <2>1, CameFinite, FS_AddElement
    <2> QED BY <1>3, <2>2, <2>3, CameFinite DEF Net
  <1>4. CASE H[l] = t /\ H[l + 1] # t
    <2>1. Went(H, t, l + 1) = Went(H, t, l) \cup {l + 1}
      BY <1>1, <1>4 DEF Went
    <2>2. Came(H, t, l + 1) = Came(H, t, l)
      BY <1>1, <1>4 DEF Came
    <2>3. Cardinality(Went(H, t, l + 1)) = Cardinality(Went(H, t, l)) + 1
      BY <1>2, <2>1, CameFinite, FS_AddElement
    <2> QED BY <1>4, <2>2, <2>3, CameFinite DEF Net
  <1>5. CASE H[l] = t <=> H[l + 1] = t
    <2>1. /\ Came(H, t, l + 1) = Came(H, t, l)
          /\ Went(H, t, l + 1) = Went(H, t, l)
      BY <1>1, <1>5 DEF Came, Went
    <2> QED BY <1>5, <2>1 DEF Net
  <1> QED BY <1>3, <1>4, <1>5

LEMMA HasMin ==
    ASSUME NEW S \in SUBSET Nat, S # {}
    PROVE  \E m \in S : \A x \in S : m <= x
  <1>1. PICK m \in S : \A x \in S : ~(<<x, m>> \in OpToRel(<, Nat))
    BY NatLessThanWellFounded, WFMin
  <1>2. \A x \in S : x \in Nat
    OBVIOUS
  <1>3. ASSUME NEW x \in S, x < m PROVE FALSE
    <2>1. <<x, m>> \in OpToRel(<, Nat)
      BY <1>2, <1>3 DEF OpToRel
    <2> QED BY <1>1, <2>1
  <1> QED BY <1>2, <1>3

\* If no dump lists it at first, the sum is 1 when the last one does, or 0.
LEMMA NetTells ==
    ASSUME NEW H, NEW t, H[0] # t, NEW m \in Nat
    PROVE  Net(H, t, m) = IF H[m] = t THEN 1 ELSE 0
  <1> DEFINE P(l) == Net(H, t, l) = IF H[l] = t THEN 1 ELSE 0
             B == {l \in Nat : ~P(l)}
  <1>1. P(0)
    <2>1. Came(H, t, 0) = {} /\ Went(H, t, 0) = {}
      BY DEF Came, Went
    <2>2. Cardinality({}) = 0
      BY FS_EmptySet
    <2> QED BY <2>1, <2>2 DEF Net
  <1>2. ASSUME NEW l \in Nat, P(l) PROVE P(l + 1)
    BY <1>2, OneMore
  <1>3. ASSUME B # {} PROVE FALSE
    <2>1. PICK l \in B : \A x \in B : l <= x
      BY <1>3, HasMin
    <2>2. l \in Nat /\ l # 0
      BY <1>1
    <2>3. l - 1 \in Nat /\ l - 1 \notin B /\ (l - 1) + 1 = l
      <3>1. l - 1 \in Nat /\ ~(l <= l - 1) /\ (l - 1) + 1 = l
        BY <2>2
      <3> HIDE DEF B
      <3> QED BY <2>1, <3>1
    <2>4. P(l - 1)
      BY <2>3
    <2>5. P(l)
      <3> HIDE DEF P
      <3> QED BY <1>2, <2>3, <2>4
    <2> QED BY <2>1, <2>5
  <1> QED BY <1>3

\* Rows of distinct pairs are as many as the pairs.
LEMMA RowsOfPairs ==
    ASSUME NEW K, IsFiniteSet(K), NEW row, NEW R,
           R = {row[k] : k \in K},
           K \subseteq DOMAIN row,
           \A j, k \in K : row[j] = row[k] => j = k
    PROVE  Cardinality(R) = Cardinality(K)
  <1> DEFINE f == [k \in K |-> row[k]]
  <1>1. f \in Bijection(K, R)
    BY DEF Bijection, Injection, Surjection, IsInjective
  <1> HIDE DEF f
  <1> QED BY <1>1, FS_Bijection DEF ExistsBijection

-----------------------------------------------------------------------------
Prev(k) == IF k = 1 THEN Zero ELSE known[k - 1]

\* When all differences up to a dump are in, the rows of known_dump up to it are
\* the dumps that are not younger, and their pairs are in.
LEMMA RowsUpTo ==
    ASSUME IndexInv, NEW m \in 1..Len(known),
           \A p \in knownDiff : Time[p[2]] <= Time[known[m]] => p \in ingested
    PROVE  \A k \in 1..Len(known) :
             /\ Time[known[k]] <= Time[known[m]] <=> k <= m
             /\ k <= m => <<Prev(k), known[k]>> \in ingested
  <1> DEFINE n == Len(known)
             d == known[m]
             old(k) == Time[known[k]] <= Time[d]
  <1>1. n \in Nat /\ m \in 1..n /\ \A k \in 1..n : Time[known[k]] \in Nat
    BY TimeType DEF IndexInv
  <1>2. ASSUME NEW k \in 1..n, old(k)
        PROVE  /\ <<Prev(k), known[k]>> \in ingested
               /\ Time[Prev(k)] < Time[known[k]]
    <2>1. <<Prev(k), known[k]>> \in knownDiff
      BY DEF IndexInv, Joined, Prev
    <2>2. <<Prev(k), known[k]>> \in ingested
      BY <1>2, <2>1
    <2> QED BY <2>2 DEF IndexInv
  <1>3. ASSUME NEW k \in 1..n, k # 1, old(k) PROVE k - 1 \in 1..n /\ old(k - 1)
    <2>1. k - 1 \in 1..n
      BY <1>1, <1>3
    <2>2. Prev(k) = known[k - 1]
      BY <1>3 DEF Prev
    <2>3. Time[known[k - 1]] < Time[known[k]]
      BY <1>2, <1>3, <2>2
    <2>4. /\ Time[known[k - 1]] \in Nat /\ Time[known[k]] \in Nat
          /\ Time[d] \in Nat /\ Time[known[k]] <= Time[d]
      BY <1>1, <1>3, <2>1
    <2>5. Time[known[k - 1]] <= Time[d]
      <3> HIDE DEF d
      <3> QED BY <2>3, <2>4
    <2> QED BY <2>1, <2>5
  <1>4. ASSUME NEW k \in 1..n, k <= m PROVE old(k)
    <2> DEFINE B == {j \in Nat : j < m /\ ~old(m - j)}
    <2>1. ASSUME B # {} PROVE FALSE
      <3>1. PICK j \in B : \A x \in B : j <= x
        BY <2>1, HasMin
      <3>2. j \in Nat /\ j < m /\ ~old(m - j)
        BY <3>1
      <3>3. j # 0
        BY <1>1, <3>2
      <3>4. j - 1 \in Nat /\ j - 1 < m /\ ~(j <= j - 1) /\ m - (j - 1) = (m - j) + 1
        BY <1>1, <3>2, <3>3
      <3>5. old(m - (j - 1))
        BY <3>1, <3>4
      <3>6. (m - j) + 1 \in 1..n /\ (m - j) + 1 # 1 /\ ((m - j) + 1) - 1 = m - j
        BY <1>1, <3>2
      <3>7. old((m - j) + 1)
        BY <3>4, <3>5
      <3>8. old(m - j)
        <4> HIDE DEF old
        <4> QED BY <1>3, <3>6, <3>7
      <3> QED BY <3>2, <3>8
    <2>2. m - k \in Nat /\ m - k < m /\ m - (m - k) = k
      BY <1>1, <1>4
    <2> QED BY <2>1, <2>2
  <1>5. ASSUME NEW k \in 1..n, m < k, old(k) PROVE FALSE
    <2> DEFINE B == {j \in 1..n : m < j /\ old(j)}
    <2>1. PICK j \in B : \A x \in B : j <= x
      <3>1. B \in SUBSET Nat /\ B # {}
        BY <1>1, <1>5
      <3> HIDE DEF B
      <3> QED BY <3>1, HasMin
    <2>2. j \in 1..n /\ m < j /\ old(j) /\ j # 1 /\ j \in Nat
      BY <1>1
    <2>3. j - 1 \in 1..n /\ old(j - 1) /\ ~(j <= j - 1) /\ (j - 1 = m \/ m < j - 1)
      BY <1>1, <1>3, <2>2
    <2>4. j - 1 = m
      BY <2>1, <2>3
    <2>5. Time[known[m]] < Time[known[j]]
      BY <1>2, <2>2, <2>4 DEF Prev
    <2> QED BY <1>1, <2>2, <2>5
  <1> QED BY <1>1, <1>2, <1>4, <1>5

-----------------------------------------------------------------------------
\* The row that the difference before the k-th known dump may have written.
RowOf(i, t, del, k) ==
    [item |-> i, ts |-> t, deletion |-> del, from |-> Prev(k), to |-> known[k]]

WrittenAt(i, t, del, m) ==
    {k \in 1..m : RowOf(i, t, del, k) \in Written(Prev(k), known[k])}

\* What Balance() counts.
Counted(i, t, del, d) ==
    {r \in content : /\ r.item = i /\ r.ts = t
                     /\ r.deletion = del
                     /\ Time[r.to] <= Time[d]}

LEMMA RowIsItsFields ==
    ASSUME NEW d, NEW e, NEW r \in Written(d, e)
    PROVE  r = [item |-> r.item, ts |-> r.ts, deletion |-> r.deletion,
                from |-> d, to |-> e]
  BY DEF Written

LEMMA RowsCounted ==
    ASSUME IndexInv, NEW m \in 1..Len(known),
           \A p \in knownDiff : Time[p[2]] <= Time[known[m]] => p \in ingested,
           NEW i, NEW t, NEW del
    PROVE  Cardinality(Counted(i, t, del, known[m]))
             = Cardinality(WrittenAt(i, t, del, m))
  <1> DEFINE R == Counted(i, t, del, known[m])
             K == WrittenAt(i, t, del, m)
             row == [k \in 1..Len(known) |-> RowOf(i, t, del, k)]
  <1>1. /\ m \in Nat /\ Len(known) \in Nat
        /\ K \subseteq 1..m /\ K \subseteq 1..Len(known)
    BY DEF IndexInv, WrittenAt
  <1>2. \A k \in 1..Len(known) :
          /\ Time[known[k]] <= Time[known[m]] <=> k <= m
          /\ k <= m => <<Prev(k), known[k]>> \in ingested
    BY RowsUpTo
  <1>3. ASSUME NEW r \in R PROVE \E k \in K : r = row[k]
    <2>1. r \in WrittenSoFar
      BY DEF IndexInv, Counted
    <2>2. PICK p \in ingested : r \in Written(p[1], p[2])
      BY <2>1 DEF WrittenSoFar
    <2>3. p \in Joined(known)
      BY DEF IndexInv
    <2>4. PICK k \in 1..Len(known) : p = <<Prev(k), known[k]>>
      BY <2>3 DEF Joined, Prev, IndexInv
    <2>5. r \in Written(Prev(k), known[k])
      BY <2>2, <2>4
    <2>6. r.to = known[k]
      BY <2>5, WrittenRows
    <2>7. r = RowOf(i, t, del, k)
      BY <2>5, RowIsItsFields DEF RowOf, Counted
    <2>8. k \in 1..m
      <3>1. Time[known[k]] <= Time[known[m]]
        BY <2>6 DEF Counted
      <3>2. k \in 1..Len(known) /\ k <= m
        BY <1>2, <3>1
      <3> QED BY <1>1, <3>2
    <2>9. k \in K
      BY <2>5, <2>7, <2>8 DEF WrittenAt
    <2> QED BY <2>7, <2>9
  <1>4. ASSUME NEW k \in K PROVE row[k] \in R
    <2>1. /\ k \in 1..m /\ k \in 1..Len(known) /\ k <= m
          /\ RowOf(i, t, del, k) \in Written(Prev(k), known[k])
      BY <1>1 DEF WrittenAt
    <2>2. <<Prev(k), known[k]>> \in ingested /\ Time[known[k]] <= Time[known[m]]
      BY <1>2, <2>1
    <2>3. RowOf(i, t, del, k) \in WrittenSoFar
      BY <2>1, <2>2 DEF WrittenSoFar
    <2>4. RowOf(i, t, del, k) \in content
      BY <2>3 DEF IndexInv
    <2> QED BY <2>1, <2>2, <2>4 DEF RowOf, Counted
  <1>5. R = {row[k] : k \in K}
    <2> HIDE DEF R, K, row
    <2> QED BY <1>3, <1>4
  <1>6. \A j, k \in K : row[j] = row[k] => j = k
    <2>1. ASSUME NEW j \in K, NEW k \in K, row[j] = row[k] PROVE j = k
      <3>1. j \in 1..Len(known) /\ k \in 1..Len(known)
        BY <1>1
      <3>2. known[j] = known[k]
        BY <2>1, <3>1 DEF RowOf
      <3> QED BY <3>1, <3>2 DEF IndexInv, IsInjective
    <2> QED BY <2>1
  <1>7. IsFiniteSet(K)
    <2> HIDE DEF K
    <2>1. K \in SUBSET (1..m) /\ IsFiniteSet(1..m)
      BY <1>1, FS_Interval
    <2> QED BY <2>1, FS_Subset
  <1>8. K \subseteq DOMAIN row
    BY <1>1
  <1> HIDE DEF R, K, row
  <1>9. Cardinality(R) = Cardinality(K)
    BY <1>5, <1>6, <1>7, <1>8, RowsOfPairs
  <1> QED BY <1>9 DEF R, K

LEMMA RowIsWritten ==
    ASSUME NEW i \in Items, NEW t, t # 0, NEW k
    PROVE  /\ RowOf(i, t, FALSE, k) \in Written(Prev(k), known[k])
                <=> Holds[known[k]][i] = t /\ Holds[Prev(k)][i] # t
           /\ RowOf(i, t, TRUE, k) \in Written(Prev(k), known[k])
                <=> Holds[Prev(k)][i] = t /\ Holds[known[k]][i] # t
  <1> DEFINE d == Prev(k)
             e == known[k]
             row(j, u, del) ==
                 [item |-> j, ts |-> u, deletion |-> del, from |-> d, to |-> e]
             gone == {j \in Items : Holds[d][j] # Holds[e][j] /\ Holds[d][j] # 0}
             new == {j \in Items : Holds[d][j] # Holds[e][j] /\ Holds[e][j] # 0}
             deleted == {row(j, Holds[d][j], TRUE) : j \in gone}
             added == {row(j, Holds[e][j], FALSE) : j \in new}
  <1>1. Written(d, e) = deleted \cup added
    BY DEF Written
  <1>2. row(i, t, FALSE) \notin deleted /\ row(i, t, TRUE) \notin added
    <2>1. ASSUME NEW j, NEW u, row(i, t, FALSE) = row(j, u, TRUE) PROVE FALSE
      <3>1. row(i, t, FALSE).deletion = FALSE /\ row(j, u, TRUE).deletion = TRUE
        BY Zenon
      <3> QED BY <2>1, <3>1, Zenon
    <2>2. ASSUME NEW j, NEW u, row(i, t, TRUE) = row(j, u, FALSE) PROVE FALSE
      <3>1. row(i, t, TRUE).deletion = TRUE /\ row(j, u, FALSE).deletion = FALSE
        BY Zenon
      <3> QED BY <2>2, <3>1, Zenon
    <2> HIDE DEF row
    <2> QED BY <2>1, <2>2
  <1>3. row(i, t, FALSE) \in added <=> Holds[e][i] = t /\ Holds[d][i] # t
    <2>1. ASSUME NEW j, NEW u, row(i, t, FALSE) = row(j, u, FALSE)
          PROVE  i = j /\ t = u
      BY <2>1
    <2> HIDE DEF row
    <2> QED BY <2>1
  <1>4. row(i, t, TRUE) \in deleted <=> Holds[d][i] = t /\ Holds[e][i] # t
    <2>1. ASSUME NEW j, NEW u, row(i, t, TRUE) = row(j, u, TRUE)
          PROVE  i = j /\ t = u
      BY <2>1
    <2> HIDE DEF row
    <2> QED BY <2>1
  <1>5. RowOf(i, t, FALSE, k) = row(i, t, FALSE) /\ RowOf(i, t, TRUE, k) = row(i, t, TRUE)
    BY DEF RowOf
  <1> HIDE DEF d, e, row, gone, new, deleted, added
  <1>6. /\ row(i, t, FALSE) \in Written(d, e) <=> Holds[e][i] = t /\ Holds[d][i] # t
        /\ row(i, t, TRUE) \in Written(d, e) <=> Holds[d][i] = t /\ Holds[e][i] # t
    BY <1>1, <1>2, <1>3, <1>4
  <1> QED BY <1>5, <1>6 DEF d, e

LEMMA Replayed ==
    ASSUME IndexInv, NEW m \in 1..Len(known),
           \A p \in knownDiff : Time[p[2]] <= Time[known[m]] => p \in ingested,
           NEW i \in Items, NEW t, t # 0
    PROVE  Balance(i, t, known[m]) = IF Holds[known[m]][i] = t THEN 1 ELSE 0
  <1> DEFINE H == [k \in 0..Len(known) |->
                     Holds[IF k = 0 THEN Zero ELSE known[k]][i]]
  <1>1. m \in Nat /\ Len(known) \in Nat /\ m <= Len(known) /\ m # 0
    BY DEF IndexInv
  <1>2. H[0] # t /\ H[m] = Holds[known[m]][i]
    BY <1>1, HoldsAssumption
  <1>3. \A k \in 1..m : H[k] = Holds[known[k]][i] /\ H[k - 1] = Holds[Prev(k)][i]
    BY <1>1 DEF Prev
  <1> HIDE DEF H
  <1>4. WrittenAt(i, t, FALSE, m) = Came(H, t, m)
    <2>1. ASSUME NEW k \in 1..m
          PROVE  RowOf(i, t, FALSE, k) \in Written(Prev(k), known[k]) <=> H[k] = t /\ H[k - 1] # t
      <3>1. H[k] = Holds[known[k]][i] /\ H[k - 1] = Holds[Prev(k)][i]
        BY <1>3
      <3>2. RowOf(i, t, FALSE, k) \in Written(Prev(k), known[k])
              <=> Holds[known[k]][i] = t /\ Holds[Prev(k)][i] # t
        BY RowIsWritten, Zenon
      <3> QED BY <3>1, <3>2
    <2> QED BY <2>1 DEF WrittenAt, Came
  <1>5. WrittenAt(i, t, TRUE, m) = Went(H, t, m)
    <2>1. ASSUME NEW k \in 1..m
          PROVE  RowOf(i, t, TRUE, k) \in Written(Prev(k), known[k]) <=> H[k - 1] = t /\ H[k] # t
      <3>1. H[k] = Holds[known[k]][i] /\ H[k - 1] = Holds[Prev(k)][i]
        BY <1>3
      <3>2. RowOf(i, t, TRUE, k) \in Written(Prev(k), known[k])
              <=> Holds[Prev(k)][i] = t /\ Holds[known[k]][i] # t
        BY RowIsWritten, Zenon
      <3> QED BY <3>1, <3>2
    <2> QED BY <2>1 DEF WrittenAt, Went
  <1>6. Balance(i, t, known[m]) = Net(H, t, m)
    <2>1. Cardinality(Counted(i, t, FALSE, known[m])) = Cardinality(Came(H, t, m))
      BY <1>4, RowsCounted
    <2>2. Cardinality(Counted(i, t, TRUE, known[m])) = Cardinality(Went(H, t, m))
      BY <1>5, RowsCounted
    <2>3. Balance(i, t, known[m])
            = Cardinality(Counted(i, t, FALSE, known[m]))
                - Cardinality(Counted(i, t, TRUE, known[m]))
      BY Zenon DEF Balance, Counted
    <2> QED BY <2>1, <2>2, <2>3 DEF Net
  <1> QED BY <1>1, <1>2, <1>6, NetTells

LEMMA InvReplays == IndexInv => HistoryReplays
  <1> SUFFICES ASSUME IndexInv,
                      NEW d \in Range(known),
                      \A p \in knownDiff : Time[p[2]] <= Time[d] => p \in ingested,
                      NEW i \in Items,
                      NEW t \in ({r.ts : r \in content} \cup {Holds[d][i]}) \ {0}
               PROVE  Balance(i, t, d) = IF Holds[d][i] = t THEN 1 ELSE 0
    BY DEF HistoryReplays
  <1>1. PICK m \in 1..Len(known) : d = known[m]
    BY DEF Range, IndexInv
  <1> QED BY <1>1, Replayed

-----------------------------------------------------------------------------
LEMMA IndexInit == Init => IndexInv
  BY DEF Init, IndexInv, IsInjective, Joined, WrittenSoFar

LEMMA IndexStep == IndexInv /\ [Next]_vars => IndexInv'
  <1> SUFFICES ASSUME IndexInv, [Next]_vars PROVE IndexInv'
    OBVIOUS
  <1>1. ASSUME NEW d \in Dumps, Archived(d) PROVE IndexInv'
    BY <1>1 DEF IndexInv, Archived, listVars, diffVars, WrittenSoFar
  <1>2. CASE Start
    BY <1>2 DEF IndexInv, Start, listVars, diffVars, WrittenSoFar
  <1>3. CASE ListPage
    <2>1. PICK n \in PageSizes :
            \/ tmp' = tmp \cup Page(since, n) /\ UNCHANGED listVars
            \/ /\ known' \in Inserted(tmp \cup Page(since, n))
               /\ knownDiff' = Joined(known') /\ tmp' = {}
      BY <1>3 DEF ListPage
    <2>2. Page(since, n) \subseteq Dumps
      BY DEF Page, IndexInv
    <2>3. UNCHANGED <<served, ingested, content>>
      BY <1>3 DEF ListPage, diffVars
    <2>4. CASE tmp' = tmp \cup Page(since, n) /\ UNCHANGED listVars
      BY <2>2, <2>3, <2>4 DEF IndexInv, listVars, WrittenSoFar
    <2>5. CASE /\ known' \in Inserted(tmp \cup Page(since, n))
               /\ knownDiff' = Joined(known') /\ tmp' = {}
      <3>1. /\ known' \in Seq(Dumps) /\ IsInjective(known')
            /\ \E s \in Seq(Dumps) : known' = known \o s
        BY <2>2, <2>5, InsertedIsInjective DEF IndexInv
      <3>2. knownDiff \subseteq knownDiff'
        BY <2>5, <3>1, JoinedGrows DEF IndexInv
      <3> QED BY <2>3, <2>5, <3>1, <3>2 DEF IndexInv, WrittenSoFar
    <2> QED BY <2>1, <2>4, <2>5
  <1>4. ASSUME NEW p \in Pair, Ingest(p) PROVE IndexInv'
    <2>1. WrittenSoFar' = WrittenSoFar \cup Written(p[1], p[2])
      BY <1>4 DEF Ingest, WrittenSoFar
    <2> QED BY <1>4, <2>1 DEF IndexInv, Ingest, Accepted, Pending, listVars
  <1>5. ASSUME NEW p \in Pair, Refused(p) PROVE IndexInv'
    BY <1>5 DEF IndexInv, Refused, listVars, diffVars, WrittenSoFar
  <1>6. CASE Done
    BY <1>6 DEF IndexInv, Done, listVars, diffVars, WrittenSoFar
  <1>7. CASE Fail
    BY <1>7 DEF IndexInv, Fail, listVars, diffVars, WrittenSoFar
  <1>8. CASE UNCHANGED vars
    BY <1>8 DEF IndexInv, vars, listVars, diffVars, WrittenSoFar
  <1> QED BY <1>1, <1>2, <1>3, <1>4, <1>5, <1>6, <1>7, <1>8 DEF Next

-----------------------------------------------------------------------------
\* Some number of a finite set is its greatest: in a least set without one, what
\* is left when one number is taken out has a greatest.
LEMMA HasMax ==
    ASSUME NEW S \in SUBSET Nat, S # {}, IsFiniteSet(S)
    PROVE  \E m \in S : \A x \in S : x <= m
  <1> DEFINE topless(T) == T # {} /\ \A m \in T : \E x \in T : m < x
             sizes == {k \in Nat : \E T \in SUBSET Nat :
                         IsFiniteSet(T) /\ Cardinality(T) = k /\ topless(T)}
  <1>1. ASSUME sizes # {} PROVE FALSE
    <2>1. PICK k \in sizes : \A l \in sizes : k <= l
      <3>1. sizes \in SUBSET Nat
        OBVIOUS
      <3> HIDE DEF sizes
      <3> QED BY <1>1, <3>1, HasMin
    <2>2. PICK T \in SUBSET Nat :
            IsFiniteSet(T) /\ Cardinality(T) = k /\ topless(T)
      OBVIOUS
    <2>3. PICK x \in T : TRUE
      BY <2>2
    <2> DEFINE rest == T \ {x}
    <2>4. IsFiniteSet(rest) /\ Cardinality(rest) = k - 1
      BY <2>2, <2>3, FS_RemoveElement
    <2>5. k - 1 \in Nat /\ ~(k <= k - 1)
      <3>1. k \in Nat /\ Cardinality(rest) \in Nat
        BY <2>4, FS_CardinalityType
      <3> HIDE DEF rest, sizes
      <3> QED BY <2>4, <3>1
    <2>6. k - 1 \notin sizes
      <3> HIDE DEF sizes
      <3> QED BY <2>1, <2>5
    <2>7. ~topless(rest)
      <3>1. rest \in SUBSET Nat
        OBVIOUS
      <3> HIDE DEF rest, topless
      <3> QED BY <2>4, <2>5, <2>6, <3>1
    <2>8. \A y \in T : y \in Nat
      OBVIOUS
    <2> QED BY <2>2, <2>3, <2>7, <2>8
  <1>2. ~topless(S)
    <2>1. Cardinality(S) \in Nat
      BY FS_CardinalityType
    <2> HIDE DEF topless
    <2> QED BY <1>1, <2>1
  <1> QED BY <1>2

\* The next page is asked for from the time of a dump, the last one.
LEMMA LastTime ==
    ASSUME NEW S \in SUBSET Dumps, S # {}
    PROVE  \E m \in S : /\ Time[m] = Max({Time[d] : d \in S})
                        /\ \A d \in S : Time[d] <= Time[m]
  <1> DEFINE T == {Time[d] : d \in S}
             f == [d \in S |-> Time[d]]
  <1>1. T \in SUBSET Nat /\ T # {}
    BY TimeType
  <1>2. f \in Surjection(S, T)
    BY DEF Surjection
  <1>3. IsFiniteSet(T)
    <2>1. IsFiniteSet(S)
      BY TimeAssumption, FS_Subset
    <2> HIDE DEF T, f
    <2> QED BY <1>2, <2>1, FS_Surjection
  <1> HIDE DEF T
  <1>4. \E m \in T : \A x \in T : x <= m
    BY <1>1, <1>3, HasMax
  <1>5. Max(T) \in T /\ \A x \in T : Max(T) >= x
    <2>1. \E m \in T : \A x \in T : m >= x
      BY <1>1, <1>4
    <2> QED BY <2>1 DEF Max
  <1>6. \A x \in T : x \in Nat /\ x <= Max(T)
    BY <1>1, <1>5
  <1> QED BY <1>5, <1>6 DEF T

\* What a difference writes are rows of table content.
LEMMA WrittenType ==
    ASSUME NEW d \in Dumps \cup {Zero}, NEW e \in Dumps
    PROVE  Written(d, e) \subseteq ContentRow
  <1> DEFINE row(i, t, del) ==
                 [item |-> i, ts |-> t, deletion |-> del, from |-> d, to |-> e]
  <1>1. ASSUME NEW i \in Items, NEW t \in Nat, NEW del \in BOOLEAN
        PROVE  row(i, t, del) \in ContentRow
    BY DEF ContentRow
  <1>2. \A i \in Items : Holds[d][i] \in Nat /\ Holds[e][i] \in Nat
    BY HoldsAssumption
  <1>3. ASSUME NEW r \in Written(d, e)
        PROVE  \E i \in Items : r = row(i, Holds[d][i], TRUE) \/ r = row(i, Holds[e][i], FALSE)
    BY DEF Written
  <1> HIDE DEF row
  <1>4. TRUE \in BOOLEAN /\ FALSE \in BOOLEAN
    OBVIOUS
  <1> QED BY <1>1, <1>2, <1>3, <1>4

LEMMA TypeInit == Init => TypeOK
  <1> SUFFICES ASSUME Init PROVE TypeOK
    OBVIOUS
  <1>1. known \in Seq(served) /\ IsInjective(known)
    BY DEF Init, IsInjective
  <1> QED BY <1>1, MaxFaultsAssumption DEF Init, TypeOK

LEMMA TypeStep == TypeOK /\ IndexInv /\ IndexInv' /\ [Next]_vars => TypeOK'
  <1> SUFFICES ASSUME TypeOK, IndexInv, IndexInv', [Next]_vars PROVE TypeOK'
    OBVIOUS
  <1>1. IsInjective(known') /\ ingested' \subseteq knownDiff'
    BY DEF IndexInv
  <1>2. knownDiff' \subseteq Pair
    <2>1. known' \in Seq(Dumps) /\ knownDiff' = Joined(known')
      BY DEF IndexInv
    <2> QED BY <2>1 DEF Joined, Pair
  <1>3. ASSUME NEW d \in Dumps, Archived(d) PROVE TypeOK'
    <2>1. known \in Seq(served')
      BY <1>3 DEF Archived, TypeOK
    <2> QED BY <1>1, <1>2, <1>3, <2>1 DEF Archived, TypeOK, listVars, diffVars
  <1>4. CASE Start
    BY <1>1, <1>2, <1>4 DEF Start, TypeOK, listVars, diffVars
  <1>5. CASE ListPage
    <2>1. PICK n \in PageSizes :
            \/ /\ Cardinality(Page(since, n)) = n
               /\ tmp' = tmp \cup Page(since, n)
               /\ since' = Max({Time[d] : d \in Page(since, n)})
               /\ UNCHANGED <<listVars, pc>>
            \/ /\ known' \in Inserted(tmp \cup Page(since, n))
               /\ tmp' = {} /\ since' = Time[Zero] /\ pc' = "ingest"
      BY <1>5 DEF ListPage
    <2>2. UNCHANGED <<served, ingested, content, faults>>
      BY <1>5 DEF ListPage, diffVars
    <2>3. Page(since, n) \in SUBSET served /\ Page(since, n) \in SUBSET Dumps
      BY DEF Page, TypeOK
    <2> DEFINE page == Page(since, n)
    <2> HIDE DEF page
    <2>4. CASE /\ Cardinality(page) = n /\ tmp' = tmp \cup page
               /\ since' = Max({Time[d] : d \in page})
               /\ UNCHANGED <<listVars, pc>>
      <3>1. page # {}
        BY <2>4, FS_EmptySet, PagesAssumption
      <3>2. since' \in {Time[d] : d \in Dumps \cup {Zero}}
        BY <2>3, <2>4, <3>1, LastTime DEF page
      <3> QED BY <1>1, <1>2, <2>2, <2>3, <2>4, <3>2 DEF TypeOK, listVars, page
    <2>5. CASE /\ known' \in Inserted(tmp \cup page)
               /\ tmp' = {} /\ since' = Time[Zero] /\ pc' = "ingest"
      <3>1. known' \in Seq(served)
        BY <2>3, <2>5, InsertedIsInjective DEF TypeOK, page
      <3> QED BY <1>1, <1>2, <2>2, <2>5, <3>1 DEF TypeOK
    <2> QED BY <2>1, <2>4, <2>5 DEF page
  <1>6. ASSUME NEW p \in Pair, Ingest(p) PROVE TypeOK'
    <2>1. content' \subseteq ContentRow
      BY <1>6, WrittenType DEF Ingest, TypeOK, Pair
    <2> QED BY <1>1, <1>2, <1>6, <2>1 DEF Ingest, TypeOK, listVars
  <1>7. CASE Done \/ \E p \in Pair : Refused(p)
    BY <1>1, <1>2, <1>7 DEF Done, Refused, TypeOK, listVars, diffVars
  <1>8. CASE Fail
    BY <1>1, <1>2, <1>8, MaxFaultsAssumption DEF Fail, TypeOK, listVars, diffVars
  <1>9. CASE UNCHANGED vars
    BY <1>1, <1>2, <1>9 DEF TypeOK, vars, listVars, diffVars
  <1> QED BY <1>3, <1>4, <1>5, <1>6, <1>7, <1>8, <1>9 DEF Next

\* The variables keep their types: known_dump and the temporary table have no
\* dump that giweb does not serve and none twice, and no pair is ingested that
\* known_diff does not have.
THEOREM TypeCorrect == Spec => []TypeOK
  BY TypeInit, TypeStep, IndexInit, IndexStep, PTL DEF Spec

\* As long as no dump is listed late, index_diff.py is given the differences of
\* neighbours in time, its assertion holds, and no UNIQUE constraint of ndx.sql
\* refuses what it writes, whatever order it takes them in and whatever failed.
THEOREM NeighboursAreAccepted == Spec => []InOrderPairsAreNeighbours
  <1>1. Spec => []IndexInv
    BY IndexInit, IndexStep, PTL DEF Spec
  <1> QED BY <1>1, InvSuffices, PTL

\* Table content tells what any dump listed, item by item and `ts` by `ts`, once
\* the differences up to that dump are in it, although ingest_diff() takes them
\* in random order and any of them may fail; also when a dump was listed late.
THEOREM HistoryIsExact == Spec => []HistoryReplays
  <1>1. Spec => []IndexInv
    BY IndexInit, IndexStep, PTL DEF Spec
  <1> QED BY <1>1, InvReplays, PTL

-----------------------------------------------------------------------------
(* A listing that is completed misses no dump that was there when it began *)

From(t) == {d \in served : Time[d] >= t}
Before(t, d) == {e \in From(t) : Time[e] < Time[d]}

LEMMA PageUnfolds ==
    ASSUME NEW t, NEW n
    PROVE  Page(t, n) = {d \in From(t) : Cardinality(Before(t, d)) < n}
  BY DEF Page, From, Before

LEMMA DumpsFinite == \A S \in SUBSET Dumps : IsFiniteSet(S) /\ Cardinality(S) \in Nat
  BY TimeAssumption, FS_Subset, FS_CardinalityType

\* Dumps that are left out by a page come after all of it.
LEMMA PageTakesFirst ==
    ASSUME served \subseteq Dumps, NEW t, NEW n \in Nat,
           NEW d \in Page(t, n), NEW e \in From(t) \ Page(t, n)
    PROVE  Time[d] < Time[e]
  <1>1. /\ d \in From(t) /\ Cardinality(Before(t, d)) < n
        /\ ~(Cardinality(Before(t, e)) < n)
    BY PageUnfolds
  <1>2. /\ \A x \in From(t) : x \in Dumps /\ Time[x] \in Nat
        /\ d \in Dumps /\ e \in Dumps
    BY <1>1, TimeType DEF From
  <1>3. /\ Before(t, d) \in SUBSET Dumps
        /\ IsFiniteSet(Before(t, d)) /\ Cardinality(Before(t, d)) \in Nat
    <2>1. Before(t, d) \in SUBSET Dumps
      BY <1>2 DEF Before
    <2> QED BY <2>1, DumpsFinite
  <1>4. ASSUME Time[e] <= Time[d] PROVE FALSE
    <2>1. Before(t, e) \in SUBSET Before(t, d)
      <3> SUFFICES ASSUME NEW x \in From(t), Time[x] < Time[e]
                   PROVE  Time[x] < Time[d]
        BY DEF Before
      <3>1. Time[x] \in Nat /\ Time[e] \in Nat /\ Time[d] \in Nat
        BY <1>1, <1>2
      <3> QED BY <1>4, <3>1
    <2>2. /\ Cardinality(Before(t, e)) <= Cardinality(Before(t, d))
          /\ Cardinality(Before(t, e)) \in Nat
      BY <1>3, <2>1, FS_Subset, FS_CardinalityType
    <2> QED BY <1>1, <1>3, <2>2
  <1> QED BY <1>2, <1>4, TimeType

\* A page that is not full is all there is: the first dump left out would have
\* just the page before it.
LEMMA ShortPageIsAll ==
    ASSUME served \subseteq Dumps, NEW t, NEW n \in Nat \ {0},
           Cardinality(Page(t, n)) # n
    PROVE  Page(t, n) = From(t)
  <1> DEFINE page == Page(t, n)
             left == From(t) \ page
             T == {Time[d] : d \in left}
  <1>1. page \in SUBSET From(t) /\ From(t) \in SUBSET Dumps
    BY PageUnfolds DEF From
  <1> SUFFICES ASSUME left # {} PROVE FALSE
    BY <1>1
  <1>2. PICK d \in left : \A e \in left : Time[d] <= Time[e]
    <2>1. T \in SUBSET Nat /\ T # {}
      BY <1>1, TimeType
    <2>2. \E m \in T : \A x \in T : m <= x
      <3> HIDE DEF T
      <3> QED BY <2>1, HasMin
    <2> QED BY <2>2
  <1>3. Before(t, d) = page
    <2>1. ASSUME NEW e \in page PROVE e \in Before(t, d)
      BY <1>1, PageTakesFirst DEF Before
    <2>2. ASSUME NEW e \in Before(t, d) PROVE e \in page
      <3>1. e \in From(t) /\ Time[e] < Time[d]
        BY DEF Before
      <3>2. Time[e] \in Nat /\ Time[d] \in Nat
        BY <1>1, <3>1, TimeType
      <3> QED BY <1>2, <3>1, <3>2
    <2> QED BY <2>1, <2>2
  <1>4. page \in SUBSET Dumps /\ IsFiniteSet(page) /\ Cardinality(page) \in Nat
    <2>1. page \in SUBSET Dumps
      BY <1>1
    <2> HIDE DEF page
    <2> QED BY <2>1, DumpsFinite
  <1>5. Cardinality(page) > n
    <2>1. ~(Cardinality(Before(t, d)) < n)
      BY PageUnfolds
    <2> QED BY <1>3, <1>4, <2>1
  <1>6. PICK m \in page : Time[m] = Max({Time[e] : e \in page})
                          /\ \A e \in page : Time[e] <= Time[m]
    <2>1. page # {}
      BY <1>4, <1>5, FS_EmptySet
    <2> HIDE DEF page
    <2> QED BY <1>4, <2>1, LastTime
  <1>7. page \ {m} \in SUBSET Before(t, m)
    <2>1. ASSUME NEW e \in page \ {m} PROVE e \in Before(t, m)
      <3>1. e \in From(t) /\ e \in Dumps /\ m \in Dumps
        BY <1>1
      <3>2. Time[e] # Time[m] /\ Time[e] \in Nat /\ Time[m] \in Nat
        BY <3>1, TimeAssumption
      <3> QED BY <1>6, <3>1, <3>2 DEF Before
    <2> QED BY <2>1
  <1>8. /\ IsFiniteSet(Before(t, m)) /\ Cardinality(Before(t, m)) \in Nat
        /\ Cardinality(Before(t, m)) < n
    <2>1. Before(t, m) \in SUBSET Dumps
      BY <1>1 DEF Before
    <2> QED BY <2>1, DumpsFinite, PageUnfolds
  <1>9. /\ Cardinality(page \ {m}) <= Cardinality(Before(t, m))
        /\ Cardinality(page \ {m}) = Cardinality(page) - 1
    <2> HIDE DEF page
    <2> QED BY <1>4, <1>7, <1>8, FS_Subset, FS_RemoveElement
  <1> QED BY <1>4, <1>5, <1>8, <1>9

\* INSERT ... ON CONFLICT DO NOTHING adds all the dumps.
LEMMA InsertedHasAll ==
    ASSUME known \in Seq(Dumps), NEW S \in SUBSET Dumps, NEW rows \in Inserted(S)
    PROVE  S \subseteq Range(rows)
  <1> DEFINE new == S \ Range(known)
             n == Cardinality(new)
  <1>1. PICK s \in InOrder(new) : rows = known \o s
    BY DEF Inserted
  <1>2. n \in Nat /\ IsFiniteSet(new)
    BY DumpsFinite
  <1>3. s \in [1..n -> new] /\ \A i, j \in 1..n : i < j => Time[s[i]] < Time[s[j]]
    BY <1>1 DEF InOrder
  <1>4. ASSUME NEW i \in 1..n, NEW j \in 1..n, s[i] = s[j] PROVE i = j
    <2> HIDE DEF n
    <2>1. Time[s[i]] \in Nat /\ i \in Nat /\ j \in Nat
      BY <1>2, <1>3, TimeType
    <2>2. ~(i < j) /\ ~(j < i)
      BY <1>3, <1>4, <2>1
    <2> QED BY <2>1, <2>2
  <1>5. s \in Surjection(1..n, new)
    <2>1. s \in Injection(1..n, new)
      BY <1>3, <1>4 DEF Injection, IsInjective
    <2>2. Cardinality(1..n) = n
      BY <1>2, FS_Interval
    <2> HIDE DEF new
    <2> QED BY <1>2, <2>1, <2>2, FS_Injection
  <1> HIDE DEF n
  <1>6. s \in Seq(Dumps) /\ Len(s) = n
    BY <1>2, <1>3
  <1>7. ASSUME NEW d \in S PROVE d \in Range(rows)
    <2>1. CASE d \in Range(known)
      <3>1. PICK i \in 1..Len(known) : d = known[i]
        BY <2>1 DEF Range
      <3>2. i \in DOMAIN rows /\ rows[i] = d
        BY <1>1, <1>6, <3>1
      <3> QED BY <3>2 DEF Range
    <2>2. CASE d \notin Range(known)
      <3>1. PICK i \in 1..n : d = s[i]
        BY <1>5, <2>2 DEF Surjection
      <3>2. Len(known) + i \in DOMAIN rows /\ rows[Len(known) + i] = d
        BY <1>1, <1>2, <1>6, <3>1
      <3> QED BY <3>2 DEF Range
    <2> QED BY <2>1, <2>2
  <1> QED BY <1>7

\* A dump that was served when the listing began is in the temporary table, or
\* comes with one of the pages that are left.
Ahead(d) == d \in served /\ (pc = "list" => d \in tmp \/ Time[d] >= since)

\* No listing is completed without the dump.
ListsIt(d) == [][pc = "list" /\ pc' = "ingest" => d \in Range(known')]_vars

LEMMA AheadStep ==
    ASSUME IndexInv, NEW d \in Dumps, Ahead(d), Next
    PROVE  Ahead(d)' /\ (pc = "list" /\ pc' = "ingest" => d \in Range(known'))
  <1>1. Time[d] \in Nat /\ Time[Zero] \in Nat /\ Time[Zero] < Time[d]
    BY TimeType, TimeAssumption
  <1>2. CASE ListPage
    <2>1. PICK n \in PageSizes :
            \/ /\ Cardinality(Page(since, n)) = n
               /\ tmp' = tmp \cup Page(since, n)
               /\ since' = Max({Time[e] : e \in Page(since, n)})
               /\ pc' = "list"
            \/ /\ Cardinality(Page(since, n)) # n
               /\ known' \in Inserted(tmp \cup Page(since, n))
               /\ pc' = "ingest"
      BY <1>2 DEF ListPage
    <2>2. /\ pc = "list" /\ served' = served /\ d \in served
          /\ d \in tmp \/ d \in From(since)
      BY <1>2 DEF ListPage, Ahead, From
    <2>3. /\ n \in Nat \ {0} /\ Page(since, n) \in SUBSET Dumps
          /\ served \subseteq Dumps /\ tmp \subseteq Dumps /\ known \in Seq(Dumps)
      BY PagesAssumption DEF IndexInv, Page
    <2> DEFINE page == Page(since, n)
    <2>4. CASE pc' = "list"
      <3>1. page # {}
        BY <2>1, <2>3, <2>4, FS_EmptySet
      <3>2. PICK m \in page : Time[m] = since'
        <4> HIDE DEF page
        <4>1. since' = Max({Time[e] : e \in page})
          BY <2>1, <2>4 DEF page
        <4> QED BY <2>3, <3>1, <4>1, LastTime DEF page
      <3>3. CASE d \in tmp \cup page
        BY <2>1, <2>2, <2>4, <3>3 DEF Ahead
      <3>4. CASE d \in From(since) \ page
        <4>1. Time[m] < Time[d]
          BY <2>3, <3>4, PageTakesFirst
        <4>2. Time[m] \in Nat
          BY <2>3, TimeType
        <4> QED BY <1>1, <2>2, <2>4, <3>2, <4>1, <4>2 DEF Ahead
      <3> QED BY <2>2, <2>4, <3>3, <3>4
    <2>5. CASE pc' = "ingest"
      <3>1. page = From(since)
        BY <2>1, <2>3, <2>5, ShortPageIsAll
      <3>2. d \in tmp \cup page /\ tmp \cup page \in SUBSET Dumps
        BY <2>2, <2>3, <3>1
      <3>3. d \in Range(known')
        BY <2>1, <2>3, <2>5, <3>2, InsertedHasAll
      <3> QED BY <2>2, <2>5, <3>3 DEF Ahead
    <2> QED BY <2>1, <2>4, <2>5
  <1>3. CASE Start
    BY <1>1, <1>3 DEF Start, Ahead
  <1>4. ASSUME NEW e \in Dumps, Archived(e)
        PROVE  Ahead(d)' /\ ~(pc = "list" /\ pc' = "ingest")
    BY <1>4 DEF Archived, Ahead
  <1>5. ASSUME NEW p \in Pair, Ingest(p) \/ Refused(p)
        PROVE  Ahead(d)' /\ ~(pc = "list" /\ pc' = "ingest")
    BY <1>5 DEF Ingest, Refused, Ahead
  <1>6. CASE Done \/ Fail
    BY <1>6 DEF Done, Fail, Ahead
  <1>7. Start => pc = "idle"
    BY DEF Start
  <1> QED BY <1>2, <1>3, <1>4, <1>5, <1>6, <1>7 DEF Next, Done, Fail

\* A dump that giweb served at some idle moment is in known_dump when any listing
\* after it is completed, whatever the pages, whatever is archived between two of
\* them, late or not, and whatever failed before.
THEOREM ListingsAreComplete ==
    ASSUME NEW d \in Dumps
    PROVE  Spec => [](pc = "idle" /\ d \in served => ListsIt(d))
  <1>1. pc = "idle" /\ d \in served => Ahead(d)
    BY DEF Ahead
  <1>2. IndexInv /\ Ahead(d) /\ [Next]_vars => Ahead(d)'
    BY AheadStep DEF Ahead, vars
  <1>3. IndexInv /\ Ahead(d) /\ [Next]_vars
          => [pc = "list" /\ pc' = "ingest" => d \in Range(known')]_vars
    BY AheadStep
  <1> QED BY <1>1, <1>2, <1>3, IndexInit, IndexStep, PTL DEF Spec, ListsIt
=============================================================================
