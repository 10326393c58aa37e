----------------------------- MODULE EaisProofs -----------------------------
(***************************************************************************)
(* Theorems about DonorEais: a full listing in pages is exact, for any     *)
(* number of dumps, any sizes of pages and whatever EAIS gains or loses    *)
(* between two requests; and what an operator deleted there is not sent.   *)
(***************************************************************************)
EXTENDS DonorEais, FiniteSetTheorems, TLAPS

\* A listing under way has every dump of base up to the time it has come to,
\* and nothing that EAIS never had meanwhile.
Listing ==
    /\ remote \subseteq ever
    /\ Range(table) \subseteq ever
    /\ \A d \in base : UT[d] <= since => d \in Range(table)

ListInv ==
    /\ remote \subseteq Dumps /\ base \subseteq remote
    /\ table \in Seq(Dumps) /\ since \in Nat
    /\ pc = "post" => cur \in Dumps
    /\ pc \in {"idle", "full", "handles", "choose", "post", "record"}
    /\ pc = "full" => Listing

-----------------------------------------------------------------------------
(* Numbers and finite sets                                                 *)

LEMMA HasMin ==
    ASSUME NEW S \in SUBSET Nat, S # {}
    PROVE  \E m \in S : \A x \in S : m <= x
  <1>1. PICK m \in S : \A x \in S : ~(<<x, m>> \in OpToRel(<, Nat))
    BY NatLessThanWellFounded, WFMin
  <1>2. \A x \in S : x \in Nat
    OBVIOUS
  <1>3. ASSUME NEW x \in S, x < m PROVE FALSE
    <2>1. <<x, m>> \in OpToRel(<, Nat)
      BY <1>2, <1>3 DEF OpToRel
    <2> QED BY <1>1, <2>1
  <1> QED BY <1>2, <1>3

\* Some number of a finite set is its greatest: in a least set without one, what
\* is left when one number is taken out has a greatest.
LEMMA HasMax ==
    ASSUME NEW S \in SUBSET Nat, S # {}, IsFiniteSet(S)
    PROVE  \E m \in S : \A x \in S : x <= m
  <1> DEFINE topless(T) == T # {} /\ \A m \in T : \E x \in T : m < x
             sizes == {k \in Nat : \E T \in SUBSET Nat :
                         IsFiniteSet(T) /\ Cardinality(T) = k /\ topless(T)}
  <1>1. ASSUME sizes # {} PROVE FALSE
    <2>1. PICK k \in sizes : \A l \in sizes : k <= l
      <3>1. sizes \in SUBSET Nat
        OBVIOUS
      <3> HIDE DEF sizes
      <3> QED BY <1>1, <3>1, HasMin
    <2>2. PICK T \in SUBSET Nat :
            IsFiniteSet(T) /\ Cardinality(T) = k /\ topless(T)
      OBVIOUS
    <2>3. PICK x \in T : TRUE
      BY <2>2
    <2> DEFINE rest == T \ {x}
    <2>4. IsFiniteSet(rest) /\ Cardinality(rest) = k - 1
      BY <2>2, <2>3, FS_RemoveElement
    <2>5. k - 1 \in Nat /\ ~(k <= k - 1)
      <3>1. k \in Nat /\ Cardinality(rest) \in Nat
        BY <2>4, FS_CardinalityType
      <3> HIDE DEF rest, sizes
      <3> QED BY <2>4, <3>1
    <2>6. k - 1 \notin sizes
      <3> HIDE DEF sizes
      <3> QED BY <2>1, <2>5
    <2>7. ~topless(rest)
      <3>1. rest \in SUBSET Nat
        OBVIOUS
      <3> HIDE DEF rest, topless
      <3> QED BY <2>4, <2>5, <2>6, <3>1
    <2>8. \A y \in T : y \in Nat
      OBVIOUS
    <2> QED BY <2>2, <2>3, <2>7, <2>8
  <1>2. ~topless(S)
    <2>1. Cardinality(S) \in Nat
      BY FS_CardinalityType
    <2> HIDE DEF topless
    <2> QED BY <1>1, <2>1
  <1> QED BY <1>2

LEMMA DumpsFinite == \A S \in SUBSET Dumps : IsFiniteSet(S) /\ Cardinality(S) \in Nat
  BY UTAssumption, FS_Subset, FS_CardinalityType

LEMMA UTType == \A d \in Dumps : UT[d] \in Nat /\ UT[d] > 0
  BY UTAssumption

\* The update times of some dumps have a greatest one.
LEMMA TimesHaveMax ==
    ASSUME NEW S \in SUBSET Dumps, S # {}
    PROVE  \E m \in S : \A d \in S : UT[d] <= UT[m]
  <1> DEFINE T == {UT[d] : d \in S}
             f == [d \in S |-> UT[d]]
  <1>1. T \in SUBSET Nat /\ T # {}
    BY UTType
  <1>2. f \in Surjection(S, T)
    BY DEF Surjection
  <1>3. IsFiniteSet(T)
    <2> HIDE DEF T, f
    <2> QED BY <1>2, DumpsFinite, FS_Surjection
  <1>4. \E t \in T : \A u \in T : u <= t
    <2> HIDE DEF T
    <2> QED BY <1>1, <1>3, HasMax
  <1> QED BY <1>4

LEMMA TimesHaveMin ==
    ASSUME NEW S \in SUBSET Dumps, S # {}
    PROVE  \E m \in S : \A d \in S : UT[m] <= UT[d]
  <1> DEFINE T == {UT[d] : d \in S}
  <1>1. T \in SUBSET Nat /\ T # {}
    BY UTType
  <1>2. \E t \in T : \A u \in T : t <= u
    <2> HIDE DEF T
    <2> QED BY <1>1, HasMin
  <1> QED BY <1>2

-----------------------------------------------------------------------------
(* What a request returns, and what is done with it                        *)

Later(from) == {d \in remote : UT[d] > from}
Before(from, d) == {e \in Later(from) : UT[e] < UT[d]}

LEMMA PageUnfolds ==
    \A from, n : Page(from, n) =
        {d \in Later(from) : Cardinality(Before(from, d)) < n}
  BY DEF Page, Later, Before

\* With a dump the page has all that come before it.
LEMMA PageTakesFirst ==
    ASSUME remote \subseteq Dumps, NEW from \in Nat, NEW n \in Nat,
           NEW d \in Page(from, n), NEW e \in Later(from), UT[e] <= UT[d]
    PROVE  e \in Page(from, n)
  <1>1. d \in Later(from) /\ Cardinality(Before(from, d)) < n
    BY PageUnfolds
  <1>2. d \in Dumps /\ e \in Dumps
    BY <1>1 DEF Later
  <1>3. Before(from, e) \in SUBSET Before(from, d)
    <2>1. \A x \in Later(from) : UT[x] \in Nat
      BY UTType DEF Later
    <2> QED BY <1>2, <2>1, UTType DEF Before
  <1>4. Before(from, d) \in SUBSET Dumps
    BY DEF Before, Later
  <1>5. IsFiniteSet(Before(from, d)) /\ Cardinality(Before(from, d)) \in Nat
    BY <1>4, DumpsFinite
  <1>6. /\ Cardinality(Before(from, e)) <= Cardinality(Before(from, d))
        /\ Cardinality(Before(from, e)) \in Nat
    BY <1>3, <1>5, FS_Subset, FS_CardinalityType
  <1> QED BY <1>1, <1>5, <1>6, PageUnfolds

\* A page that is not full is all there is.
LEMMA ShortPageIsAll ==
    ASSUME remote \subseteq Dumps, NEW from \in Nat, NEW n \in Nat \ {0},
           Cardinality(Page(from, n)) # n
    PROVE  Page(from, n) = Later(from)
  <1> DEFINE page == Page(from, n)
  <1>1. page \subseteq Later(from) /\ Later(from) \subseteq Dumps
    BY PageUnfolds DEF Later
  <1> SUFFICES ASSUME Later(from) \ page # {} PROVE FALSE
    BY <1>1
  <1>2. PICK d \in Later(from) \ page :
                \A e \in Later(from) \ page : UT[d] <= UT[e]
    <2>1. Later(from) \ page \in SUBSET Dumps
      BY <1>1
    <2> QED BY <2>1, TimesHaveMin
  <1>3. page = Before(from, d)
    <2>1. ASSUME NEW e \in Before(from, d) PROVE e \in page
      <3>1. e \in Later(from) /\ UT[e] < UT[d]
        BY DEF Before
      <3>2. UT[e] \in Nat /\ UT[d] \in Nat
        BY <1>1, <3>1, UTType
      <3> QED BY <1>2, <3>1, <3>2
    <2>2. ASSUME NEW e \in page PROVE e \in Before(from, d)
      <3>1. e \in Later(from) /\ UT[e] \in Nat /\ UT[d] \in Nat
        BY <1>1, UTType
      <3>2. ~(UT[d] <= UT[e])
        BY <1>2, PageTakesFirst
      <3> QED BY <3>1, <3>2 DEF Before
    <2> QED BY <2>1, <2>2
  <1>4. page \in SUBSET Dumps /\ IsFiniteSet(page) /\ Cardinality(page) \in Nat
    BY <1>1, DumpsFinite
  <1>5. Cardinality(page) >= n
    <2>1. ~(Cardinality(Before(from, d)) < n)
      BY <1>2, PageUnfolds
    <2> QED BY <1>3, <1>4, <2>1
  <1>6. page # {}
    BY <1>4, <1>5, FS_EmptySet
  <1>7. PICK m \in page : \A e \in page : UT[e] <= UT[m]
    BY <1>4, <1>6, TimesHaveMax
  <1>8. page \ {m} \in SUBSET Before(from, m)
    <2>1. ASSUME NEW e \in page \ {m} PROVE e \in Before(from, m)
      <3>1. e \in Later(from) /\ e \in Dumps /\ m \in Dumps
        BY <1>1
      <3>2. UT[e] # UT[m] /\ UT[e] <= UT[m]
        BY <1>7, <3>1, UTAssumption
      <3>3. UT[e] \in Nat /\ UT[m] \in Nat
        BY <3>1, UTType
      <3> QED BY <3>1, <3>2, <3>3 DEF Before
    <2> QED BY <2>1
  <1>9. Before(from, m) \in SUBSET Dumps
    BY <1>1 DEF Before
  <1>10. /\ IsFiniteSet(Before(from, m)) /\ Cardinality(Before(from, m)) \in Nat
         /\ Cardinality(Before(from, m)) < n
    BY <1>9, DumpsFinite, PageUnfolds
  <1>11. Cardinality(page \ {m}) <= Cardinality(Before(from, m))
    BY <1>8, <1>10, FS_Subset
  <1>12. Cardinality(page \ {m}) = Cardinality(page) - 1
    <2> HIDE DEF page
    <2> QED BY <1>4, FS_RemoveElement
  <1> QED BY <1>4, <1>5, <1>10, <1>11, <1>12

\* A set of dumps in order is a sequence of just these dumps.
LEMMA OrderOfSet ==
    ASSUME NEW S \in SUBSET Dumps, NEW s \in InOrder(S)
    PROVE  s \in Seq(Dumps) /\ Range(s) = S /\ IsInjective(s)
  <1> DEFINE n == Cardinality(S)
  <1>1. n \in Nat /\ IsFiniteSet(S)
    BY DumpsFinite
  <1>2. s \in [1..n -> S] /\ \A i, j \in 1..n : i < j => UT[s[i]] < UT[s[j]]
    BY DEF InOrder
  <1>3. \A i \in 1..n : UT[s[i]] \in Nat
    BY <1>2, UTType
  <1>4. \A i, j \in 1..n : s[i] = s[j] => i = j
    BY <1>1, <1>2, <1>3
  <1>5. s \in Injection(1..n, S)
    BY <1>2, <1>4 DEF Injection, IsInjective
  <1>6. Cardinality(1..n) = n
    BY <1>1, FS_Interval
  <1>7. s \in Surjection(1..n, S)
    BY <1>1, <1>5, <1>6, FS_Injection
  <1>8. IsInjective(s)
    BY <1>2, <1>4 DEF IsInjective
  <1> QED BY <1>1, <1>2, <1>7, <1>8 DEF Surjection, Range

LEMMA RangeOfConcat ==
    ASSUME NEW s \in Seq(Dumps), NEW t \in Seq(Dumps)
    PROVE  s \o t \in Seq(Dumps) /\ Range(s \o t) = Range(s) \cup Range(t)
  <1>1. /\ DOMAIN s = 1..Len(s) /\ DOMAIN t = 1..Len(t)
        /\ DOMAIN (s \o t) = 1..(Len(s) + Len(t))
    OBVIOUS
  <1>2. \A i \in 1..Len(s) : (s \o t)[i] = s[i]
    OBVIOUS
  <1>3. \A i \in 1..Len(t) : /\ Len(s) + i \in 1..(Len(s) + Len(t))
                             /\ (s \o t)[Len(s) + i] = t[i]
    OBVIOUS
  <1>4. \A i \in 1..(Len(s) + Len(t)) :
           \/ i \in 1..Len(s)
           \/ \E j \in 1..Len(t) : i = Len(s) + j
    <2>1. ASSUME NEW i \in 1..(Len(s) + Len(t)), i \notin 1..Len(s)
          PROVE  i - Len(s) \in 1..Len(t) /\ i = Len(s) + (i - Len(s))
      BY <2>1
    <2> QED BY <2>1
  <1>5. Range(s \o t) \subseteq Range(s) \cup Range(t)
    <2>1. ASSUME NEW i \in 1..(Len(s) + Len(t))
          PROVE  (s \o t)[i] \in Range(s) \cup Range(t)
      BY <1>1, <1>2, <1>3, <1>4 DEF Range
    <2> QED BY <1>1, <2>1 DEF Range
  <1>6. Range(s) \subseteq Range(s \o t)
    <2>1. \A i \in 1..Len(s) : i \in 1..(Len(s) + Len(t))
      OBVIOUS
    <2> QED BY <1>1, <1>2, <2>1 DEF Range
  <1>7. Range(t) \subseteq Range(s \o t)
    BY <1>1, <1>3 DEF Range
  <1>8. s \o t \in Seq(Dumps)
    OBVIOUS
  <1> QED BY <1>5, <1>6, <1>7, <1>8

\* INSERT OR IGNORE adds a page to the table.
LEMMA InsertedRange ==
    ASSUME NEW rows \in Seq(Dumps), NEW page \in SUBSET Dumps,
           NEW new \in Inserted(rows, page)
    PROVE  new \in Seq(Dumps) /\ Range(new) = Range(rows) \cup page
  <1>1. PICK s \in InOrder(page \ Range(rows)) : new = rows \o s
    BY DEF Inserted
  <1>2. s \in Seq(Dumps) /\ Range(s) = page \ Range(rows)
    <2>1. page \ Range(rows) \in SUBSET Dumps
      OBVIOUS
    <2> QED BY <2>1, OrderOfSet
  <1> QED BY <1>1, <1>2, RangeOfConcat

-----------------------------------------------------------------------------
\* A full page moves `since` to its last dump and misses none before it.
LEMMA FullPageStep ==
    ASSUME ListInv, Listing, NEW n \in PageSizes,
           Cardinality(Page(since, n)) = n,
           table' \in Inserted(table, Page(since, n)),
           since' = Max({since} \cup {UT[d] : d \in Page(since, n)}),
           UNCHANGED <<remote, ghostVars>>
    PROVE  table' \in Seq(Dumps) /\ since' \in Nat /\ Listing'
  <1> DEFINE page == Page(since, n)
             T == {since} \cup {UT[d] : d \in page}
  <1>0. n \in Nat \ {0} /\ since \in Nat /\ remote \subseteq Dumps
    BY LimitsAssumption DEF ListInv
  <1>1. page \in SUBSET Dumps /\ page \subseteq remote
    BY <1>0 DEF Page
  <1>2. table' \in Seq(Dumps) /\ Range(table') = Range(table) \cup page
    BY <1>1, InsertedRange DEF ListInv
  <1>3. page # {}
    BY <1>0, FS_EmptySet
  <1>4. PICK m \in page : \A e \in page : UT[e] <= UT[m]
    BY <1>1, <1>3, TimesHaveMax
  <1>5. UT[m] \in Nat /\ since < UT[m]
    BY <1>0, <1>1, UTType DEF Page
  <1>6. since' = UT[m]
    <2>1. UT[m] \in T /\ \A x \in T : x <= UT[m]
      BY <1>0, <1>4, <1>5
    <2>2. T \subseteq Nat
      BY <1>0, <1>1, UTType
    <2>3. since' \in T /\ \A x \in T : since' >= x
      <3> HIDE DEF T
      <3>1. \E x \in T : \A y \in T : x >= y
        BY <2>1, <2>2
      <3> QED BY <3>1 DEF Max, T
    <2>4. since' \in Nat /\ UT[m] \in Nat
      BY <1>5, <2>2, <2>3
    <2>5. since' >= UT[m] /\ since' <= UT[m]
      <3> HIDE DEF T
      <3> QED BY <2>1, <2>3
    <2> QED BY <2>4, <2>5
  <1>7. ASSUME NEW d \in base, UT[d] <= since' PROVE d \in Range(table')
    <2>1. d \in remote /\ UT[d] \in Nat
      BY <1>0, UTType DEF ListInv
    <2>2. CASE UT[d] <= since
      BY <1>2, <2>2 DEF Listing
    <2>3. CASE UT[d] > since
      <3>1. d \in Later(since)
        BY <2>1, <2>3 DEF Later
      <3>2. d \in page
        BY <1>0, <1>6, <1>7, <3>1, PageTakesFirst
      <3> QED BY <1>2, <3>2
    <2>4. UT[d] <= since \/ UT[d] > since
      BY <1>0, <2>1
    <2> QED BY <2>2, <2>3, <2>4
  <1>8. Range(table') \subseteq ever /\ remote \subseteq ever
    BY <1>1, <1>2 DEF Listing
  <1> QED BY <1>2, <1>5, <1>6, <1>7, <1>8 DEF Listing, ghostVars

\* The last page completes the listing.
LEMMA LastPageCompletes ==
    ASSUME ListInv, Listing, NEW n \in PageSizes,
           Cardinality(Page(since, n)) # n,
           NEW rows \in Inserted(table, Page(since, n))
    PROVE  base \subseteq Range(rows) /\ Range(rows) \subseteq ever
  <1> DEFINE page == Page(since, n)
  <1>0. n \in Nat \ {0} /\ since \in Nat /\ remote \subseteq Dumps
    BY LimitsAssumption DEF ListInv
  <1>1. page \in SUBSET Dumps /\ page \subseteq remote
    BY <1>0 DEF Page
  <1>2. Range(rows) = Range(table) \cup page
    BY <1>1, InsertedRange DEF ListInv
  <1>3. page = Later(since)
    BY <1>0, ShortPageIsAll
  <1>4. ASSUME NEW d \in base PROVE d \in Range(rows)
    <2>1. d \in remote /\ UT[d] \in Nat
      BY <1>0, UTType DEF ListInv
    <2>2. UT[d] <= since \/ d \in Later(since)
      BY <1>0, <2>1 DEF Later
    <2> QED BY <1>2, <1>3, <2>2 DEF Listing
  <1> QED BY <1>1, <1>2, <1>4 DEF Listing

LEMMA ListInit == Init => ListInv
  <1> SUFFICES ASSUME Init PROVE ListInv
    OBVIOUS
  <1>1. remote \subseteq Dumps
    BY DEF Init
  <1> QED BY <1>1 DEF Init, ListInv

-----------------------------------------------------------------------------
LEMMA PageType == ASSUME remote \subseteq Dumps, NEW from, NEW n
                  PROVE  Page(from, n) \subseteq remote
  BY DEF Page

LEMMA ListStep == ListInv /\ [Next]_vars => ListInv'
  <1> SUFFICES ASSUME ListInv, [Next]_vars PROVE ListInv'
    OBVIOUS
  <1> USE DEF ListInv
  <1>1. ASSUME NEW d \in Dumps, RemoteAdd(d) PROVE ListInv'
    BY <1>1 DEF RemoteAdd, Listing, eaisVars, listVars
  <1>2. ASSUME NEW d \in Dumps, RemoteLose(d) PROVE ListInv'
    BY <1>2 DEF RemoteLose, Listing, eaisVars, listVars
  <1>3. CASE StartFull
    <2>1. table' = <<>> /\ since' = 0 /\ base' = remote /\ ever' = remote
      BY <1>3 DEF StartFull, Cleared
    <2>2. Listing'
      BY <1>3, <2>1, UTType DEF StartFull, Listing, Range
    <2> QED BY <1>3, <2>1, <2>2 DEF StartFull
  <1>4. CASE FullPage
    <2>1. UNCHANGED <<remote, cur>> /\ pc = "full"
      BY <1>4 DEF FullPage
    <2>2. PICK n \in PageSizes :
            IF Cardinality(Page(since, n)) = n
              THEN /\ table' \in Inserted(table, Page(since, n))
                   /\ since' = Max({since} \cup {UT[d] : d \in Page(since, n)})
                   /\ UNCHANGED <<pc, ghostVars>>
              ELSE table' = <<>> /\ since' = 0 /\ pc' = "handles" /\ base' = {}
      BY <1>4 DEF FullPage, EndFull
    <2>3. CASE Cardinality(Page(since, n)) = n
      <3>1. table' \in Seq(Dumps) /\ since' \in Nat /\ Listing'
        BY <2>1, <2>2, <2>3, FullPageStep
      <3> QED BY <2>1, <2>2, <2>3, <3>1 DEF ghostVars
    <2>4. CASE Cardinality(Page(since, n)) # n
      BY <2>1, <2>2, <2>4
    <2> QED BY <2>3, <2>4
  <1>5. CASE PageFail \/ Restart
    <2>1. /\ table' = <<>> /\ since' = 0 /\ pc' \in {"choose", "idle"}
          /\ remote' = remote /\ base' = {}
      BY <1>5, Zenon DEF PageFail, Restart, EndFull
    <2> QED BY <2>1
  <1>6. CASE ListSinceMax \/ Expire \/ EndHandles \/ NothingToUpload
    BY <1>6 DEF ListSinceMax, Expire, EndHandles, NothingToUpload, Listing,
                listVars, ghostVars
  <1>7. ASSUME NEW d \in Dumps,
               FetchAndStore(d) \/ Skip(d) \/ ChooseUpload(d) \/ OtherDonor(d)
        PROVE  ListInv'
    BY <1>7 DEF FetchAndStore, Skip, ChooseUpload, OtherDonor, IsNext, listVars,
                ghostVars
  <1>8. CASE Post
    BY <1>8 DEF Post, listVars, ghostVars
  <1>9. CASE Record \/ UploadFail
    BY <1>9 DEF Record, UploadFail, listVars, ghostVars
  <1>10. CASE UNCHANGED vars
    BY <1>10 DEF vars, listVars, ghostVars, Listing
  <1> QED BY <1>1, <1>2, <1>3, <1>4, <1>5, <1>6, <1>7, <1>8, <1>9, <1>10 DEF Next

\* Only the last page of a listing makes the list fresh.
LEMMA OnlyLastPage ==
    ASSUME [Next]_vars, due, ~due' PROVE FullPage
  <1>1. CASE StartFull \/ PageFail \/ ListSinceMax \/ Expire
             \/ EndHandles \/ NothingToUpload \/ Post \/ Record \/ UploadFail
             \/ Restart \/ UNCHANGED vars
    BY <1>1, Zenon DEF StartFull, PageFail, ListSinceMax, Expire, EndHandles,
       NothingToUpload, Post, Record, UploadFail, Restart, eaisVars, vars
  <1>2. ASSUME NEW d \in Dumps,
               \/ RemoteAdd(d) \/ RemoteLose(d) \/ FetchAndStore(d) \/ Skip(d)
               \/ ChooseUpload(d) \/ OtherDonor(d)
        PROVE  FALSE
    BY <1>2, Zenon DEF RemoteAdd, RemoteLose, FetchAndStore, Skip, ChooseUpload,
       OtherDonor, eaisVars
  <1> QED BY <1>1, <1>2, Zenon DEF Next

LEMMA ListingStep ==
    ASSUME ListInv, [Next]_vars, due, ~due'
    PROVE  base \subseteq Range(eais') /\ Range(eais') \subseteq ever
  <1>1. FullPage
    BY OnlyLastPage
  <1>2. pc = "full"
    BY <1>1 DEF FullPage
  <1>3. PICK n \in PageSizes :
          /\ Cardinality(Page(since, n)) = n => UNCHANGED eaisVars
          /\ Cardinality(Page(since, n)) # n => eais' \in Inserted(table, Page(since, n))
    BY <1>1, Zenon DEF FullPage
  <1>4. ~(UNCHANGED eaisVars)
    BY Zenon DEF eaisVars
  <1>5. Listing
    BY <1>2 DEF ListInv
  <1> QED BY <1>3, <1>4, <1>5, LastPageCompletes

\* A full listing in pages is exact: what donor_eais.py puts in place of the old
\* table has every dump that EAIS had all the time, and none that it never had,
\* whatever sizes the pages have and whatever EAIS gains or loses between them.
THEOREM ListingsAreExact == Spec => FullListingExact
  <1>1. ListInv /\ [Next]_vars
          => [due /\ ~due' => /\ base \subseteq Range(eais')
                             /\ Range(eais') \subseteq ever]_vars
    BY ListingStep
  <1> QED BY <1>1, ListInit, ListStep, PTL DEF Spec, FullListingExact

-----------------------------------------------------------------------------
LEMMA DeletedStep == DeletedStaysDeleted /\ [Next]_vars => DeletedStaysDeleted'
  <1> SUFFICES ASSUME DeletedStaysDeleted, [Next]_vars, pc' = "post"
               PROVE  cur' \notin Deleted
    BY DEF DeletedStaysDeleted
  <1> USE DEF DeletedStaysDeleted
  <1>1. ASSUME NEW d \in Dumps,
               RemoteAdd(d) \/ RemoteLose(d) \/ FetchAndStore(d) \/ Skip(d)
        PROVE  cur' \notin Deleted
    BY <1>1 DEF RemoteAdd, RemoteLose, FetchAndStore, Skip, IsNext
  <1>2. ASSUME NEW d \in Dumps, ChooseUpload(d) PROVE cur' \notin Deleted
    BY <1>2 DEF ChooseUpload, Uploadable, FirstWithout
  <1>3. ASSUME NEW d \in Dumps, OtherDonor(d) PROVE cur' \notin Deleted
    BY <1>3 DEF OtherDonor, NeedsXml
  <1>4. CASE StartFull \/ FullPage \/ PageFail \/ ListSinceMax \/ Expire
             \/ EndHandles \/ NothingToUpload
    BY <1>4 DEF StartFull, FullPage, PageFail, ListSinceMax, Expire, EndHandles,
                NothingToUpload
  <1>5. CASE Post \/ Record \/ UploadFail \/ Restart \/ UNCHANGED vars
    BY <1>5 DEF Post, Record, UploadFail, Restart, vars
  <1> QED BY <1>1, <1>2, <1>3, <1>4, <1>5 DEF Next

\* What an operator has put in eais_deleted is not sent to EAIS again, by either
\* of the two ways a dump gets there: get_uploadable() and needs_xml_sha256().
THEOREM DeletedAreNotSent == Spec => []DeletedStaysDeleted
  <1>1. Init => DeletedStaysDeleted
    BY DEF Init, DeletedStaysDeleted
  <1> QED BY <1>1, DeletedStep, PTL DEF Spec

-----------------------------------------------------------------------------
(* Types: what the tables have, each dump once *)

\* The handles of a turn are still to be archived, and a turn that ends or is cut
\* leaves none.
HandleInv ==
    /\ pc # "handles" => todo = {}
    /\ todo \cap Range(log) = {}

LEMMA ConcatDistinct ==
    ASSUME NEW s \in DistinctSeqs, NEW t \in DistinctSeqs,
           Range(s) \cap Range(t) = {}
    PROVE  s \o t \in DistinctSeqs /\ Range(s \o t) = Range(s) \cup Range(t)
  <1> DEFINE m == Len(s)
             n == Len(t)
             c == s \o t
  <1>1. /\ s \in Seq(Dumps) /\ t \in Seq(Dumps)
        /\ m \in Nat /\ n \in Nat /\ DOMAIN c = 1..(m + n)
        /\ DOMAIN s = 1..m /\ DOMAIN t = 1..n
    BY DEF DistinctSeqs
  <1>2. \A i \in 1..m : c[i] = s[i] /\ c[i] \in Range(s)
    BY <1>1 DEF Range
  <1>3. ASSUME NEW i \in (1..(m + n)) \ (1..m)
        PROVE  i - m \in 1..n /\ c[i] = t[i - m] /\ c[i] \in Range(t)
    <2>1. i - m \in 1..n /\ i \in Int
      BY <1>1
    <2>2. c[i] = t[i - m]
      BY <1>1, <2>1
    <2> QED BY <1>1, <2>1, <2>2 DEF Range
  <1>4. /\ \A i, j \in 1..m : s[i] = s[j] => i = j
        /\ \A i, j \in 1..n : t[i] = t[j] => i = j
    BY <1>1 DEF DistinctSeqs, IsInjective
  <1>5. c \in Seq(Dumps) /\ Range(c) = Range(s) \cup Range(t)
    BY <1>1, RangeOfConcat
  <1> HIDE DEF c, m, n
  <1>6. ASSUME NEW i \in 1..(m + n), NEW j \in 1..(m + n), c[i] = c[j]
        PROVE  i = j
    <2>1. CASE i \in 1..m /\ j \in 1..m
      BY <1>2, <1>4, <1>6, <2>1
    <2>2. CASE i \notin 1..m /\ j \notin 1..m
      <3>1. i - m = j - m
        BY <1>3, <1>4, <1>6, <2>2
      <3> QED BY <1>1, <3>1
    <2>3. CASE i \in 1..m /\ j \notin 1..m
      BY <1>2, <1>3, <1>6, <2>3
    <2>4. CASE i \notin 1..m /\ j \in 1..m
      BY <1>2, <1>3, <1>6, <2>4
    <2> QED BY <2>1, <2>2, <2>3, <2>4
  <1>7. IsInjective(c)
    BY <1>1, <1>6 DEF IsInjective
  <1> QED BY <1>5, <1>7 DEF DistinctSeqs, c

LEMMA InsertedDistinct ==
    ASSUME NEW rows \in DistinctSeqs, NEW page \in SUBSET Dumps,
           NEW new \in Inserted(rows, page)
    PROVE  new \in DistinctSeqs
  <1>1. PICK s \in InOrder(page \ Range(rows)) : new = rows \o s
    BY DEF Inserted
  <1>2. page \ Range(rows) \in SUBSET Dumps
    OBVIOUS
  <1>3. s \in DistinctSeqs /\ Range(s) = page \ Range(rows)
    BY <1>2, OrderOfSet DEF DistinctSeqs
  <1> QED BY <1>1, <1>3, ConcatDistinct

LEMMA AppendDistinct ==
    ASSUME NEW rows \in DistinctSeqs, NEW d \in Dumps, d \notin Range(rows)
    PROVE  Append(rows, d) \in DistinctSeqs /\ Range(Append(rows, d)) = Range(rows) \cup {d}
  <1>1. <<d>> \in DistinctSeqs /\ Range(<<d>>) = {d}
    BY DEF DistinctSeqs, IsInjective, Range
  <1>2. Append(rows, d) = rows \o <<d>>
    BY DEF DistinctSeqs
  <1> QED BY <1>1, <1>2, ConcatDistinct

LEMMA NoneDistinct == <<>> \in DistinctSeqs /\ Range(<<>>) = {}
  BY DEF DistinctSeqs, IsInjective, Range

\* LIMIT n gives n rows at most, none of them known: the rows before them are
\* fewer than n and differ from row to row.
LEMMA FirstWithoutType ==
    ASSUME NEW rows \in Seq(Dumps), NEW known, NEW n \in Nat
    PROVE  /\ FirstWithout(rows, known, n) \subseteq Range(rows) \ known
           /\ Cardinality(FirstWithout(rows, known, n)) <= n
  <1> DEFINE lacked == {i \in DOMAIN rows : rows[i] \notin known}
             before(j) == {k \in lacked : k < j}
             first == {j \in lacked : Cardinality(before(j)) < n}
             rank == [j \in first |-> Cardinality(before(j))]
             dump == [j \in first |-> rows[j]]
             F == FirstWithout(rows, known, n)
  <1>1. F = {dump[j] : j \in first}
    BY DEF FirstWithout
  <1>2. lacked \in SUBSET (1..Len(rows)) /\ Len(rows) \in Nat
    OBVIOUS
  <1>3. \A j \in lacked : j \in Nat
    BY <1>2
  <1>4. \A j : before(j) \in SUBSET (1..Len(rows))
    BY <1>2
  <1>5. \A j : IsFiniteSet(before(j)) /\ Cardinality(before(j)) \in Nat
    <2>1. IsFiniteSet(1..Len(rows))
      BY <1>2, FS_Interval
    <2> HIDE DEF before
    <2> QED BY <1>4, <2>1, FS_Subset, FS_CardinalityType
  <1>6. ASSUME NEW i \in lacked, NEW j \in lacked, i < j
        PROVE  Cardinality(before(i)) < Cardinality(before(j))
    <2>1. before(i) \cup {i} \in SUBSET before(j) /\ i \notin before(i)
      BY <1>3, <1>6
    <2> HIDE DEF before
    <2>2. Cardinality(before(i) \cup {i}) = Cardinality(before(i)) + 1
      BY <1>5, <2>1, FS_AddElement
    <2>3. Cardinality(before(i) \cup {i}) <= Cardinality(before(j))
      BY <1>5, <2>1, FS_Subset
    <2> QED BY <1>5, <2>2, <2>3
  <1>7. rank \in Injection(first, 0..(n - 1))
    <2>1. \A j \in first : rank[j] \in 0..(n - 1)
      <3> HIDE DEF before
      <3> QED BY <1>5
    <2>2. ASSUME NEW i \in first, NEW j \in first, rank[i] = rank[j] PROVE i = j
      <3>1. /\ i \in lacked /\ j \in lacked /\ i \in Nat /\ j \in Nat
            /\ Cardinality(before(i)) = Cardinality(before(j))
        BY <1>3, <2>2
      <3>2. ~(i < j) /\ ~(j < i)
        <4> HIDE DEF before, lacked
        <4> QED BY <1>5, <1>6, <3>1
      <3> QED BY <3>1, <3>2
    <2> HIDE DEF first
    <2> QED BY <2>1, <2>2 DEF Injection, IsInjective
  <1>8. IsFiniteSet(first) /\ Cardinality(first) <= n
    <2>1. IsFiniteSet(0..(n - 1)) /\ Cardinality(0..(n - 1)) = n
      BY FS_Interval
    <2> HIDE DEF rank, first
    <2> QED BY <1>7, <2>1, FS_Injection
  <1>9. F \subseteq Range(rows) \ known
    BY DEF FirstWithout, Range
  <1>10. IsFiniteSet(F) /\ Cardinality(F) <= Cardinality(first)
    <2>1. dump \in Surjection(first, F)
      <3> HIDE DEF first
      <3> QED BY <1>1 DEF Surjection
    <2> HIDE DEF dump, first
    <2> QED BY <1>8, <2>1, FS_Surjection
  <1>11. Cardinality(F) \in Nat /\ Cardinality(first) \in Nat
    BY <1>8, <1>10, FS_CardinalityType
  <1> HIDE DEF F, first
  <1> QED BY <1>8, <1>9, <1>10, <1>11 DEF F

LEMMA HandlesType ==
    ASSUME NEW rows \in Seq(Dumps)
    PROVE  /\ Handles(rows) \subseteq Dumps /\ Handles(rows) \cap Range(log) = {}
           /\ Cardinality(Handles(rows)) <= Limit
  <1>1. /\ Handles(rows) \subseteq Range(rows) \ Range(log)
        /\ Cardinality(Handles(rows)) <= Limit
    BY FirstWithoutType, LimitsAssumption DEF Handles
  <1>2. Range(rows) \subseteq Dumps
    BY DEF Range
  <1> QED BY <1>1, <1>2

\* The next page is asked for from the start or from the time of a dump.
LEMMA SinceType ==
    ASSUME since \in {0} \cup {UT[d] : d \in Dumps}, NEW page \in SUBSET Dumps
    PROVE  Max({since} \cup {UT[d] : d \in page}) \in {0} \cup {UT[d] : d \in Dumps}
  <1> DEFINE T == {since} \cup {UT[d] : d \in page}
  <1>1. T \subseteq {0} \cup {UT[d] : d \in Dumps}
    OBVIOUS
  <1>2. \E x \in T : \A y \in T : x >= y
    <2>1. since \in Nat /\ \A d \in page : UT[d] \in Nat
      BY UTType
    <2>2. CASE page = {}
      BY <2>1, <2>2
    <2>3. CASE page # {}
      <3>1. PICK m \in page : \A d \in page : UT[d] <= UT[m]
        BY <2>3, TimesHaveMax
      <3>2. CASE since <= UT[m]
        BY <2>1, <3>1, <3>2
      <3>3. CASE UT[m] < since
        <4>1. \A d \in page : UT[d] <= since
          BY <2>1, <3>1, <3>3
        <4> QED BY <2>1, <4>1
      <3> QED BY <2>1, <3>2, <3>3
    <2> QED BY <2>2, <2>3
  <1>3. Max(T) \in T
    <2> HIDE DEF T
    <2> QED BY <1>2 DEF Max
  <1> QED BY <1>1, <1>3

LEMMA FewerHandles ==
    ASSUME TypeOK, NEW d \in todo
    PROVE  Cardinality(todo \ {d}) <= Limit
  <1>1. IsFiniteSet(todo) /\ Cardinality(todo) \in Nat
    BY DumpsFinite DEF TypeOK
  <1>2. Cardinality(todo \ {d}) = Cardinality(todo) - 1
    BY <1>1, FS_RemoveElement
  <1> QED BY <1>1, <1>2, LimitsAssumption DEF TypeOK

LEMMA NoHandles == {} \subseteq Dumps /\ Cardinality({}) <= Limit
  BY FS_EmptySet, LimitsAssumption

LEMMA UploadType == NoUpload \in Dumps
  BY UTAssumption DEF NoUpload

LEMMA TypeInit == Init => TypeOK /\ HandleInv
  <1> SUFFICES ASSUME Init PROVE TypeOK /\ HandleInv
    OBVIOUS
  <1>1. synced \in BOOLEAN /\ due \in BOOLEAN
    BY Zenon DEF Init
  <1>2. cur \in Dumps
    BY UploadType DEF Init
  <1>3. remote \subseteq Dumps
    BY DEF Init
  <1> QED BY <1>1, <1>2, <1>3, NoneDistinct, NoHandles, LimitsAssumption
          DEF Init, TypeOK, HandleInv

LEMMA FlagsType == TypeOK /\ [Next]_vars => synced' \in BOOLEAN /\ due' \in BOOLEAN
  <1> SUFFICES ASSUME TypeOK, [Next]_vars PROVE synced' \in BOOLEAN /\ due' \in BOOLEAN
    OBVIOUS
  <1>1. synced \in BOOLEAN /\ due \in BOOLEAN
    BY DEF TypeOK
  <1>2. CASE UNCHANGED <<synced, due>>
    BY <1>1, <1>2, Zenon
  <1>3. CASE FullPage
    <2>1. UNCHANGED eaisVars \/ (due' = FALSE /\ synced' = TRUE)
      BY <1>3, Zenon DEF FullPage
    <2> QED BY <1>1, <2>1, Zenon DEF eaisVars
  <1>4. CASE Expire
    BY <1>1, <1>4, Zenon DEF Expire
  <1>5. CASE StartFull \/ PageFail \/ ListSinceMax \/ EndHandles
             \/ NothingToUpload \/ Post \/ Record \/ UploadFail \/ Restart
             \/ UNCHANGED vars
    BY <1>2, <1>5, Zenon DEF StartFull, PageFail, ListSinceMax, EndHandles,
       NothingToUpload, Post, Record, UploadFail, Restart, eaisVars, vars
  <1>6. ASSUME NEW d \in Dumps,
               \/ RemoteAdd(d) \/ RemoteLose(d) \/ FetchAndStore(d) \/ Skip(d)
               \/ ChooseUpload(d) \/ OtherDonor(d)
        PROVE  synced' \in BOOLEAN /\ due' \in BOOLEAN
    BY <1>2, <1>6, Zenon DEF RemoteAdd, RemoteLose, FetchAndStore, Skip,
       ChooseUpload, OtherDonor, eaisVars
  <1> QED BY <1>3, <1>4, <1>5, <1>6, Zenon DEF Next

\* The lists: what a full or a short listing inserts.
LEMMA ListTypes ==
    ASSUME TypeOK, HandleInv, FullPage \/ ListSinceMax,
           synced' \in BOOLEAN, due' \in BOOLEAN
    PROVE  TypeOK' /\ HandleInv'
  <1>1. /\ UNCHANGED <<remote, log, nomtime, cur, faults, losses>>
        /\ pc \in {"full", "idle"}
        /\ base' \subseteq ever' /\ ever' \subseteq Dumps
    BY DEF FullPage, ListSinceMax, EndFull, archiveVars, ghostVars, boundVars,
           TypeOK
  <1>2. \A from, n : Page(from, n) \in SUBSET Dumps
    BY DEF Page, TypeOK
  <1>3. /\ \A from, n : \A rows \in Inserted(table, Page(from, n)) :
              rows \in DistinctSeqs
        /\ \A from, n : \A rows \in Inserted(eais, Page(from, n)) :
              rows \in DistinctSeqs
    BY <1>2, InsertedDistinct DEF TypeOK
  <1>4. todo = {}
    BY <1>1 DEF HandleInv
  <1>5. CASE UNCHANGED <<eais, todo, pc>>
    <2>1. FullPage
      BY <1>1, <1>5 DEF FullPage, ListSinceMax
    <2>2. PICK n \in PageSizes :
            \/ /\ table' \in Inserted(table, Page(since, n))
               /\ since' = Max({since} \cup {UT[d] : d \in Page(since, n)})
            \/ table' = <<>> /\ since' = 0
      BY <2>1 DEF FullPage
    <2>3. /\ table' \in DistinctSeqs
          /\ since' \in {0} \cup {UT[d] : d \in Dumps}
      BY <1>2, <1>3, <2>2, NoneDistinct, SinceType DEF TypeOK
    <2> QED BY <1>1, <1>5, <2>3 DEF TypeOK, HandleInv
  <1>6. CASE /\ \E t \in {table, eais} :
                  \E from, n : eais' \in Inserted(t, Page(from, n))
             /\ todo' = Handles(eais') /\ pc' = "handles"
             /\ \/ table' = <<>> /\ since' = 0
                \/ UNCHANGED <<table, since>>
    <2>1. eais' \in DistinctSeqs
      BY <1>3, <1>6
    <2>2. /\ todo' \subseteq Dumps /\ todo' \cap Range(log) = {}
          /\ Cardinality(todo') <= Limit
      BY <1>6, <2>1, HandlesType DEF DistinctSeqs
    <2>3. /\ table' \in DistinctSeqs
          /\ since' \in {0} \cup {UT[d] : d \in Dumps}
      BY <1>6, NoneDistinct DEF TypeOK
    <2> QED BY <1>1, <1>6, <2>1, <2>2, <2>3 DEF TypeOK, HandleInv
  <1> QED BY <1>5, <1>6 DEF FullPage, ListSinceMax, eaisVars, listVars

\* The archive: what is committed was not there.
LEMMA ArchiveTypes ==
    ASSUME TypeOK, HandleInv, synced' \in BOOLEAN, due' \in BOOLEAN,
           NEW d \in Dumps, FetchAndStore(d) \/ OtherDonor(d)
    PROVE  TypeOK' /\ HandleInv'
  <1>1. CASE FetchAndStore(d)
    <2>1. /\ d \in todo /\ pc = "handles" /\ log' = Append(log, d)
          /\ nomtime' = nomtime \cup {d} /\ todo' = todo \ {d}
          /\ UNCHANGED <<remote, eais, pc, since, table, cur, base, ever, faults,
                         losses>>
      BY <1>1 DEF FetchAndStore, IsNext, eaisVars, ghostVars, boundVars
    <2>2. d \notin Range(log)
      BY <2>1 DEF HandleInv
    <2>3. log' \in DistinctSeqs /\ Range(log') = Range(log) \cup {d}
      BY <2>1, <2>2, AppendDistinct DEF TypeOK
    <2>4. nomtime' \subseteq Range(log')
      BY <2>1, <2>3 DEF TypeOK
    <2>5. todo' \subseteq Dumps /\ Cardinality(todo') <= Limit
      BY <2>1, FewerHandles DEF TypeOK
    <2> QED BY <2>1, <2>3, <2>4, <2>5 DEF TypeOK, HandleInv
  <1>2. CASE OtherDonor(d)
    <2>1. /\ pc = "idle"
          /\ log' = IF d \in Range(log) THEN log ELSE Append(log, d)
          /\ pc' \in {"idle", "post"} /\ cur' \in {d, cur}
          /\ UNCHANGED <<remote, eais, nomtime, since, table, todo, base, ever,
                         faults, losses>>
      BY <1>2 DEF OtherDonor, eaisVars, listVars, ghostVars, boundVars
    <2>2. log' \in DistinctSeqs /\ Range(log) \subseteq Range(log')
      BY <2>1, AppendDistinct DEF TypeOK
    <2>3. todo' = {}
      BY <2>1 DEF HandleInv
    <2>4. nomtime' \subseteq Range(log')
      BY <2>1, <2>2 DEF TypeOK
    <2> QED BY <2>1, <2>2, <2>3, <2>4 DEF TypeOK, HandleInv
  <1> QED BY <1>1, <1>2

LEMMA TypeStep ==
    TypeOK /\ HandleInv /\ [Next]_vars => TypeOK' /\ HandleInv'
  <1> SUFFICES ASSUME TypeOK, HandleInv, [Next]_vars
               PROVE  TypeOK' /\ HandleInv'
    OBVIOUS
  <1>0. synced' \in BOOLEAN /\ due' \in BOOLEAN
    BY FlagsType
  <1> USE DEF TypeOK, HandleInv
  <1>1. ASSUME NEW d \in Dumps, RemoteAdd(d) \/ RemoteLose(d)
        PROVE  TypeOK' /\ HandleInv'
    BY <1>0, <1>1, LimitsAssumption
    DEF RemoteAdd, RemoteLose, eaisVars, archiveVars, listVars, boundVars
  <1>2. CASE StartFull
    <2>1. /\ table' = <<>> /\ since' = 0 /\ pc' = "full"
          /\ base' = remote /\ ever' = remote
          /\ UNCHANGED <<remote, eais, log, nomtime, todo, cur, faults, losses>>
          /\ pc = "idle"
      BY <1>2 DEF StartFull, Cleared, eaisVars, archiveVars, boundVars
    <2> QED BY <1>0, <2>1, NoneDistinct
  <1>3. CASE FullPage \/ ListSinceMax
    BY <1>0, <1>3, ListTypes
  <1>4. CASE PageFail \/ Restart
    <2>1. /\ table' = <<>> /\ since' = 0 /\ todo' = {} /\ pc' \in {"choose", "idle"}
          /\ faults < MaxFaults /\ faults' = faults + 1
          /\ cur' \in {cur, NoUpload} /\ base' = {} /\ ever' = {}
          /\ UNCHANGED <<remote, eais, log, nomtime, losses>>
      BY <1>4 DEF PageFail, Restart, EndFull, eaisVars, archiveVars
    <2>2. faults' \in 0..MaxFaults
      BY <2>1, LimitsAssumption
    <2> QED BY <1>0, <2>1, <2>2, NoneDistinct, NoHandles, UploadType
  <1>5. ASSUME NEW d \in Dumps, FetchAndStore(d) \/ OtherDonor(d)
        PROVE  TypeOK' /\ HandleInv'
    BY <1>0, <1>5, ArchiveTypes
  <1>6. ASSUME NEW d \in Dumps, Skip(d) PROVE TypeOK' /\ HandleInv'
    <2>1. /\ d \in todo /\ todo' = todo \ {d} /\ pc = "handles"
          /\ UNCHANGED <<remote, eais, log, nomtime, pc, since, table, cur, base,
                         ever, losses>>
          /\ faults' \in 0..MaxFaults
      BY <1>6, LimitsAssumption
      DEF Skip, IsNext, eaisVars, archiveVars, ghostVars
    <2>2. todo' \subseteq Dumps /\ Cardinality(todo') <= Limit
      BY <2>1, FewerHandles
    <2> QED BY <1>0, <2>1, <2>2
  <1>7. ASSUME NEW d \in Dumps, ChooseUpload(d) PROVE TypeOK' /\ HandleInv'
    BY <1>0, <1>7
    DEF ChooseUpload, eaisVars, archiveVars, listVars, ghostVars, boundVars
  <1>8. CASE Expire \/ EndHandles \/ NothingToUpload
    BY <1>0, <1>8
    DEF Expire, EndHandles, NothingToUpload, eaisVars, archiveVars, listVars,
        ghostVars, boundVars
  <1>9. CASE Post
    BY <1>0, <1>9 DEF Post, eaisVars, archiveVars, listVars, ghostVars, boundVars
  <1>10. CASE Record
    <2>1. /\ eais' \in Inserted(eais, Page(UT[cur] - 1, 2)) /\ pc' = "idle"
          /\ pc = "record" /\ cur' = NoUpload
          /\ UNCHANGED <<remote, log, nomtime, since, table, todo, base, ever,
                         faults, losses>>
      BY <1>10 DEF Record, archiveVars, listVars, ghostVars, boundVars
    <2>2. Page(UT[cur] - 1, 2) \in SUBSET Dumps
      BY DEF Page
    <2>3. eais' \in DistinctSeqs
      BY <2>1, <2>2, InsertedDistinct
    <2> QED BY <1>0, <2>1, <2>3, UploadType
  <1>11. CASE UploadFail
    BY <1>0, <1>11, LimitsAssumption, UploadType
    DEF UploadFail, eaisVars, archiveVars, listVars, ghostVars
  <1>12. CASE UNCHANGED vars
    BY <1>0, <1>12
    DEF vars, eaisVars, archiveVars, listVars, ghostVars, boundVars
  <1> QED BY <1>1, <1>2, <1>3, <1>4, <1>5, <1>6, <1>7, <1>8, <1>9, <1>10, <1>11,
             <1>12 DEF Next

\* The variables keep their types: neither the list of EAIS nor the archive has a
\* dump twice, and a turn has no more handles than its limit.
THEOREM TypeCorrect == Spec => []TypeOK
  BY TypeInit, TypeStep, PTL DEF Spec
=============================================================================
