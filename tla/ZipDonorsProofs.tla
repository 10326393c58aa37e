-------------------------- MODULE ZipDonorsProofs --------------------------
(***************************************************************************)
(* Theorems about the two donors that fetch zips, DonorZavod and DonorChe: *)
(* for any names, versions and faults, the counter of fetches neither      *)
(* gives a file up early nor lets a broken one through for ever, and a     *)
(* file behind an ETag is lost in one way only.  First each donor alone,   *)
(* then both of them in one loop.                                          *)
(***************************************************************************)
EXTENDS ZipDonors, FiniteSetTheorems, TLAPS

\* The counter in a row is never ahead of the downloads, and lags behind them
\* only when a zip was unpacked.  A handle has a try left; the name of the fetch
\* under way has a row, a download, and no second handle in this turn.
FetchInv ==
    /\ \A f \in DOMAIN zavod :
          /\ zavod[f].fetched <= Tries /\ zavod[f].fetched <= spent[f]
          /\ zavod[f].xml = NULL => spent[f] = zavod[f].fetched
    /\ \A f \in todo : zavod[f].fetched < Tries
    /\ zavodPc \in {"unzip", "mark"} =>
          cur.name \in DOMAIN zavod \ todo /\ spent[cur.name] >= 1
    /\ zavodPc \in {"mark", "store"} => cur.got # Broken

-----------------------------------------------------------------------------
LEMMA MinOfTwo ==
    ASSUME NEW a \in Nat, NEW b \in Nat
    PROVE  Min({a, b}) = IF a <= b THEN a ELSE b
  <1>1. \E x \in {a, b} : \A y \in {a, b} : x <= y
    OBVIOUS
  <1>2. Min({a, b}) \in {a, b} /\ \A y \in {a, b} : Min({a, b}) <= y
    BY <1>1 DEF Min
  <1> QED BY <1>2

LEMMA NewIsRow == ASSUME ZavodTypeOK, NEW f \in Names, Listed(f) PROVE New(f) \in Row
  BY VersionsAssumption DEF ZavodTypeOK, Listed, New, Row, NULL

\* What list_handles() puts in the place of a row.
LEMMA UpdatedRow ==
    ASSUME ZavodTypeOK, NEW f \in Names, f \in DOMAIN zavod \/ Listed(f)
    PROVE  /\ Updated(f) \in Row
           /\ IF Unchanged(f) THEN f \in DOMAIN zavod /\ Updated(f) = zavod[f]
              ELSE Updated(f).fetched = 0
  <1>1. CASE Unchanged(f)
    BY <1>1 DEF Unchanged, Updated, ZavodTypeOK
  <1>2. CASE ~Unchanged(f)
    <2>1. Listed(f)
      BY <1>2 DEF Unchanged
    <2> QED BY <1>2, <2>1, NewIsRow DEF Updated, New
  <1> QED BY <1>1, <1>2

LEMMA HandlesType ==
    ASSUME NEW rows, DOMAIN rows \subseteq Names, NEW S \in Handles(rows)
    PROVE  /\ S \subseteq DOMAIN rows /\ Cardinality(S) <= Limit
           /\ \A f \in S : rows[f].fetched < Tries
  <1>1. Limit \in Nat
    BY NumbersAssumption
  <1>2. S \in SUBSET Names
    BY DEF Handles
  <1>3. Cardinality(S) \in Nat
    BY <1>2, NamesAssumption, FS_Subset, FS_CardinalityType
  <1> QED BY <1>1, <1>3 DEF Handles, Wanted

LEMMA HandleIsTaken ==
    ASSUME ZavodTypeOK, NEW f \in todo
    PROVE  /\ todo \ {f} \subseteq DOMAIN zavod
           /\ Cardinality(todo \ {f}) <= Limit
  <1>1. IsFiniteSet(todo) /\ IsFiniteSet(todo \ {f})
    BY NamesAssumption, FS_Subset DEF ZavodTypeOK
  <1>2. Cardinality(todo) \in Nat /\ Cardinality(todo \ {f}) \in Nat
    BY <1>1, FS_CardinalityType
  <1>3. Cardinality(todo \ {f}) <= Cardinality(todo)
    BY <1>1, FS_Subset
  <1>4. Limit \in Nat
    BY NumbersAssumption
  <1> QED BY <1>2, <1>3, <1>4 DEF ZavodTypeOK

-----------------------------------------------------------------------------
LEMMA ListStep ==
    ASSUME ZavodTypeOK, FetchInv, ListHandles PROVE ZavodTypeOK' /\ FetchInv'
  <1> DEFINE listed == {f \in Names : Listed(f)}
  <1>1. PICK gone \in SUBSET (DOMAIN zavod \ listed) :
          zavod' = [f \in (DOMAIN zavod \cup listed) \ gone |-> Updated(f)]
    BY DEF ListHandles
  <1>2. /\ DOMAIN zavod' \subseteq Names
        /\ \A f \in DOMAIN zavod' : /\ f \in DOMAIN zavod \/ Listed(f)
                                    /\ zavod'[f] = Updated(f)
    BY <1>1 DEF ZavodTypeOK
  <1>3. zavod' \in [DOMAIN zavod' -> Row]
    <2>1. \A f \in DOMAIN zavod' : zavod'[f] \in Row
      BY <1>2, UpdatedRow
    <2> QED BY <1>1, <2>1
  <1>4. todo' \in Handles(zavod')
    BY DEF ListHandles
  <1>5. /\ todo' \subseteq DOMAIN zavod' /\ Cardinality(todo') <= Limit
        /\ \A f \in todo' : zavod'[f].fetched < Tries
    BY <1>2, <1>4, HandlesType
  <1>6. /\ spent' = [f \in Names |-> IF Unchanged(f) THEN spent[f] ELSE 0]
        /\ zavodPc' = "handles" /\ UNCHANGED <<page, log, cur, changes, zavodFaults>>
    BY DEF ListHandles, boundVars
  <1>7. spent' \in [Names -> 0..(Tries + 1)]
    BY <1>6, NumbersAssumption, MaxFaultsAssumption DEF ZavodTypeOK
  <1>8. ZavodTypeOK'
    BY <1>2, <1>3, <1>5, <1>6, <1>7 DEF ZavodTypeOK
  <1>9. ASSUME NEW f \in DOMAIN zavod'
        PROVE  /\ zavod'[f].fetched <= Tries /\ zavod'[f].fetched <= spent'[f]
               /\ zavod'[f].xml = NULL => spent'[f] = zavod'[f].fetched
    <2>1. f \in Names
      BY <1>2
    <2>2. CASE Unchanged(f)
      BY <1>2, <1>6, <2>1, <2>2, UpdatedRow DEF FetchInv
    <2>3. CASE ~Unchanged(f)
      BY <1>2, <1>6, <2>1, <2>3, UpdatedRow, NumbersAssumption
    <2> QED BY <2>2, <2>3
  <1> QED BY <1>5, <1>6, <1>8, <1>9 DEF FetchInv

LEMMA DownloadStep ==
    ASSUME ZavodTypeOK, FetchInv, NEW f \in Names, ZavodDownload(f)
    PROVE  ZavodTypeOK' /\ FetchInv'
  <1>1. /\ f \in todo /\ f \in DOMAIN zavod /\ Listed(f)
        /\ zavodPc' = "unzip" /\ todo' = todo \ {f}
        /\ UNCHANGED <<page, log, changes, zavodFaults>>
    BY DEF ZavodDownload, Fits, boundVars, ZavodTypeOK
  <1>2. /\ zavod' = [zavod EXCEPT ![f].fetched = @ + 1]
        /\ spent' = [spent EXCEPT ![f] = Min({@ + 1, Tries + 1})]
        /\ cur' = [name |-> f, got |-> Content[page[f]]]
    BY DEF ZavodDownload, Counted
  <1>3. /\ zavod[f] \in Row /\ zavod[f].fetched \in Nat /\ spent[f] \in Nat
        /\ Tries \in Nat /\ zavod[f].fetched < Tries
        /\ zavod[f].fetched <= spent[f] /\ spent[f] <= Tries + 1
    BY <1>1, NumbersAssumption, MaxFaultsAssumption DEF ZavodTypeOK, FetchInv, Row
  <1>4. spent'[f] = IF spent[f] + 1 <= Tries + 1 THEN spent[f] + 1 ELSE Tries + 1
    BY <1>2, <1>3, MinOfTwo DEF ZavodTypeOK
  <1>5. spent' \in [Names -> 0..(Tries + 1)] /\ \A g \in Names \ {f} : spent'[g] = spent[g]
    BY <1>2, <1>3, <1>4 DEF ZavodTypeOK
  <1>6. /\ DOMAIN zavod' = DOMAIN zavod
        /\ \A g \in DOMAIN zavod \ {f} : zavod'[g] = zavod[g]
        /\ zavod'[f] = [zavod[f] EXCEPT !.fetched = @ + 1]
    BY <1>1, <1>2
  <1>7. /\ zavod'[f] \in Row /\ zavod'[f].fetched = zavod[f].fetched + 1
        /\ zavod'[f].xml = zavod[f].xml
    BY <1>3, <1>6 DEF Row
  <1>8. zavod' \in [DOMAIN zavod' -> Row]
    BY <1>2, <1>6, <1>7 DEF ZavodTypeOK
  <1>9. cur' \in [name : Names, got : Dumps \cup {Broken}]
    BY <1>1, <1>2, VersionsAssumption DEF ZavodTypeOK, Listed
  <1>10. ZavodTypeOK'
    BY <1>1, <1>5, <1>6, <1>8, <1>9, HandleIsTaken DEF ZavodTypeOK
  <1>11. ASSUME NEW g \in DOMAIN zavod'
         PROVE  /\ zavod'[g].fetched <= Tries /\ zavod'[g].fetched <= spent'[g]
                /\ zavod'[g].xml = NULL => spent'[g] = zavod'[g].fetched
    <2>1. CASE g = f
      BY <1>1, <1>3, <1>4, <1>7, <2>1 DEF FetchInv
    <2>2. CASE g # f
      BY <1>5, <1>6, <2>2 DEF FetchInv, ZavodTypeOK
    <2> QED BY <2>1, <2>2
  <1>12. \A g \in todo' : zavod'[g].fetched < Tries
    BY <1>1, <1>6 DEF FetchInv, ZavodTypeOK
  <1>13. spent'[f] >= 1 /\ cur'.name = f /\ f \in DOMAIN zavod' \ todo'
    BY <1>1, <1>2, <1>3, <1>4, <1>6
  <1> QED BY <1>1, <1>10, <1>11, <1>12, <1>13 DEF FetchInv

LEMMA MarkStep == ASSUME ZavodTypeOK, FetchInv, ZavodMark PROVE ZavodTypeOK' /\ FetchInv'
  <1> DEFINE f == cur.name
             d == cur.got
  <1>1. /\ zavodPc = "mark" /\ zavodPc' = "store"
        /\ zavod' = [zavod EXCEPT ![f].fetched = 1, ![f].xml = d]
        /\ UNCHANGED <<page, log, todo, cur, spent, changes, zavodFaults>>
    BY DEF ZavodMark, Marked, boundVars
  <1>2. /\ f \in DOMAIN zavod \ todo /\ spent[f] >= 1 /\ d # Broken
        /\ d \in Dumps /\ Tries \in Nat \ {0}
    BY <1>1, NumbersAssumption, MaxFaultsAssumption DEF FetchInv, ZavodTypeOK
  <1>3. /\ DOMAIN zavod' = DOMAIN zavod
        /\ \A g \in DOMAIN zavod \ {f} : zavod'[g] = zavod[g]
        /\ zavod'[f] = [zavod[f] EXCEPT !.fetched = 1, !.xml = d]
    BY <1>1, <1>2
  <1>4. zavod'[f] \in Row /\ zavod'[f].fetched = 1 /\ zavod'[f].xml = d
    <2> DEFINE row == zavod[f]
               new == zavod'[f]
    <2>1. row \in Row /\ new = [row EXCEPT !.fetched = 1, !.xml = d]
      BY <1>2, <1>3 DEF ZavodTypeOK
    <2> HIDE DEF row, new, d
    <2>2. new \in Row /\ new.fetched = 1 /\ new.xml = d
      BY <1>2, <2>1 DEF Row
    <2> QED BY <2>2 DEF new
  <1>5. zavod' \in [DOMAIN zavod' -> Row]
    BY <1>1, <1>3, <1>4 DEF ZavodTypeOK
  <1>6. ZavodTypeOK'
    BY <1>1, <1>3, <1>5 DEF ZavodTypeOK
  <1>7. ASSUME NEW g \in DOMAIN zavod'
        PROVE  /\ zavod'[g].fetched <= Tries /\ zavod'[g].fetched <= spent'[g]
               /\ zavod'[g].xml = NULL => spent'[g] = zavod'[g].fetched
    <2>1. CASE g = f
      BY <1>1, <1>2, <1>4, <2>1 DEF NULL
    <2>2. CASE g # f
      BY <1>1, <1>3, <2>2 DEF FetchInv
    <2> QED BY <2>1, <2>2
  <1>8. \A g \in todo' : zavod'[g].fetched < Tries
    BY <1>1, <1>2, <1>3 DEF FetchInv, ZavodTypeOK
  <1> QED BY <1>1, <1>2, <1>6, <1>7, <1>8 DEF FetchInv

LEMMA FetchInit == ZavodInit => ZavodTypeOK /\ FetchInv
  <1> SUFFICES ASSUME ZavodInit PROVE ZavodTypeOK /\ FetchInv
    OBVIOUS
  <1>1. (CHOOSE f \in Names : TRUE) \in Names
    BY NamesAssumption
  <1>2. DOMAIN zavod = {} /\ zavod \in [DOMAIN zavod -> Row]
    BY DEF ZavodInit
  <1>3. todo = {} /\ Cardinality(todo) = 0
    BY FS_EmptySet DEF ZavodInit
  <1> QED BY <1>1, <1>2, <1>3, NumbersAssumption, MaxFaultsAssumption DEF ZavodInit, ZavodTypeOK, FetchInv

LEMMA FetchStep ==
    ZavodTypeOK /\ FetchInv /\ [ZavodNext]_zavodVars => ZavodTypeOK' /\ FetchInv'
  <1> SUFFICES ASSUME ZavodTypeOK, FetchInv, [ZavodNext]_zavodVars PROVE ZavodTypeOK' /\ FetchInv'
    OBVIOUS
  <1> USE DEF ZavodTypeOK, FetchInv, tableVars, boundVars
  <1>1. ASSUME NEW f \in Names, NEW v \in Versions \cup {Missing}, PageChange(f, v)
        PROVE  ZavodTypeOK' /\ FetchInv'
    BY <1>1, NumbersAssumption, MaxFaultsAssumption DEF PageChange
  <1>2. ASSUME NEW d \in Dumps, ZavodOtherDonor(d) PROVE ZavodTypeOK' /\ FetchInv'
    BY <1>2 DEF ZavodOtherDonor, OtherStores
  <1>3. CASE ListHandles
    BY <1>3, ListStep
  <1>4. ASSUME NEW f \in Names, ZavodDownload(f) PROVE ZavodTypeOK' /\ FetchInv'
    BY <1>4, DownloadStep
  <1>5. ASSUME NEW f \in Names, ZavodDownloadFail(f) PROVE ZavodTypeOK' /\ FetchInv'
    <2>1. /\ f \in todo /\ todo' = todo \ {f} /\ zavodFaults' \in 0..MaxFaults
          /\ UNCHANGED <<page, zavod, log, zavodPc, cur, spent, changes>>
          /\ zavodPc = "handles"
      BY <1>5, NumbersAssumption, MaxFaultsAssumption DEF ZavodDownloadFail
    <2> QED BY <2>1, HandleIsTaken
  <1>6. CASE ZavodUnzip
    BY <1>6 DEF ZavodUnzip
  <1>7. CASE ZavodMark
    BY <1>7, MarkStep
  <1>8. CASE ZavodStore
    BY <1>8 DEF ZavodStore, Stored
  <1>9. CASE StoreFail
    BY <1>9, NumbersAssumption, MaxFaultsAssumption DEF StoreFail
  <1>10. CASE EndTurn
    BY <1>10 DEF EndTurn
  <1>11. CASE ZavodRestart
    <2>1. todo' = {} /\ Cardinality(todo') = 0
      BY <1>11, FS_EmptySet DEF ZavodRestart
    <2> QED BY <1>11, <2>1, NumbersAssumption, MaxFaultsAssumption DEF ZavodRestart
  <1>12. CASE UNCHANGED zavodVars
    BY <1>12 DEF zavodVars
  <1> QED BY <1>1, <1>2, <1>3, <1>4, <1>5, <1>6, <1>7, <1>8, <1>9, <1>10, <1>11,
             <1>12 DEF ZavodNext, ZavodTurn

LEMMA FetchAlways == ZavodSpec => [](ZavodTypeOK /\ FetchInv)
  BY FetchInit, FetchStep, PTL DEF ZavodSpec

\* The variables keep their types: every handle of a turn has a row, and nothing
\* that commit_files() refuses gets into the archive.
THEOREM ZavodTypeCorrect == ZavodSpec => []ZavodTypeOK
  BY FetchAlways, PTL

\* A zip that never unpacks is downloaded `tries` times and no more, wherever
\* fetch_xml_and_sig() is cut short.
THEOREM BrokenIsGivenUp == ZavodSpec => []BrokenZipGivesUp
  <1>1. ZavodTypeOK /\ FetchInv => BrokenZipGivesUp
    BY DEF FetchInv, BrokenZipGivesUp
  <1> QED BY <1>1, FetchAlways, PTL

\* And list_handles() passes over a row only after as many complete downloads,
\* or when its dump is archived.
THEOREM NotGivenUpEarly == ZavodSpec => []GivesUpLate
  <1>1. ZavodTypeOK /\ FetchInv => GivesUpLate
    <2> SUFFICES ASSUME ZavodTypeOK, FetchInv, NEW f \in DOMAIN zavod, ~Wanted(zavod[f])
                 PROVE  spent[f] >= Tries \/ zavod[f].xml \in log
      BY DEF GivesUpLate
    <2>1. /\ zavod[f].fetched \in Nat /\ spent[f] \in Nat /\ Tries \in Nat
          /\ zavod[f].fetched <= spent[f]
      BY NumbersAssumption DEF ZavodTypeOK, FetchInv, Row
    <2> QED BY <2>1 DEF Wanted
  <1> QED BY <1>1, FetchAlways, PTL

-----------------------------------------------------------------------------
(* DonorChe                                                                *)

\* Nothing is left to do for version e, or a failure struck it.
Kept(e) ==
    e # NoEtag => CheContent[e] \in log \cup Forged \cup {Broken} \/ e \in hit

\* Both ETags name a version that is kept, except that the one in memory runs
\* ahead from the end of the download on, and the one in the table with it from
\* its UPDATE on.  Meanwhile they are that of the answer, which is what the server
\* had or was cut.
EtagInv ==
    /\ chePc \in {"idle", "download"} => Kept(etag)
    /\ chePc \in {"idle", "download", "save"} => Kept(dbEtag)
    /\ chePc = "download" => got.xml = CheContent[got.version]
    /\ chePc \in {"save", "unzip", "mark", "store"} =>
          /\ etag = got.version
          /\ \/ got.xml = CheContent[got.version]
             \/ got.xml = Broken /\ got.version \in hit
    /\ chePc \in {"unzip", "mark", "store"} => dbEtag = etag
    /\ chePc \in {"mark", "store"} => got.xml # Broken
    /\ XmlBelongsToEtag

LEMMA EtagInit == CheInit => CheTypeOK /\ EtagInv
  <1>1. 1 \in CheVersions
    BY MaxVersionAssumption DEF CheVersions
  <1> QED
    BY <1>1, MaxFaultsAssumption
    DEF CheInit, CheTypeOK, EtagInv, Kept, XmlBelongsToEtag, NULL

LEMMA EtagStep ==
    CheTypeOK /\ EtagInv /\ [CheNext]_cheVars => CheTypeOK' /\ EtagInv'
  <1> SUFFICES ASSUME CheTypeOK, EtagInv, [CheNext]_cheVars
               PROVE  CheTypeOK' /\ EtagInv'
    OBVIOUS
  <1> USE MaxVersionAssumption, MaxFaultsAssumption, DumpsAssumption,
          CheContentAssumption
      DEF CheTypeOK, EtagInv, Kept, XmlBelongsToEtag, CheVersions, NoEtag, NULL,
          etagVars
  <1>1. CASE Publish
    BY <1>1 DEF Publish
  <1>2. ASSUME NEW d \in Dumps, CheOtherDonor(d) PROVE CheTypeOK' /\ EtagInv'
    BY <1>2 DEF CheOtherDonor, OtherStores
  <1>3. CASE Request
    BY <1>3 DEF Request
  <1>4. CASE CheDownload
    BY <1>4 DEF CheDownload
  <1>5. CASE CheDownloadFail
    BY <1>5 DEF CheDownloadFail
  <1>6. CASE SaveEtag
    BY <1>6 DEF SaveEtag, Forget
  <1>7. CASE CheUnzip
    BY <1>7 DEF CheUnzip
  <1>8. CASE CheMark
    BY <1>8 DEF CheMark
  <1>9. CASE CheStore
    BY <1>9 DEF CheStore, Stored
  <1>10. CASE Raise
    <2>1. /\ chePc' = "idle" /\ hit' = hit \cup {got.version}
          /\ cheFaults < MaxFaults /\ cheFaults' = cheFaults + 1
          /\ remote' = remote /\ etag' = etag /\ dbEtag' = dbEtag
          /\ dbXml' = dbXml /\ log' = log /\ got' = got
          /\ etag = got.version
      BY <1>10 DEF Raise
    <2>2. got.version \in CheVersions /\ hit' \subseteq CheVersions
      BY <2>1
    <2>3. CheTypeOK'
      BY <2>1, <2>2
    <2>4. Kept(dbEtag)'
      BY <1>10, <2>1 DEF Raise
    <2> QED BY <2>1, <2>3, <2>4
  <1>11. CASE CheRestart
    <2>1. /\ chePc' = "idle" /\ etag' = dbEtag
          /\ cheFaults < MaxFaults /\ cheFaults' = cheFaults + 1
          /\ remote' = remote /\ dbEtag' = dbEtag
          /\ dbXml' = dbXml /\ log' = log /\ got' = got
      BY <1>11 DEF CheRestart, Remembered
    <2>2. /\ hit' \subseteq CheVersions
          /\ dbEtag \in hit => dbEtag \in hit'
      BY <1>11 DEF CheRestart
    <2>3. CheTypeOK'
      BY <2>1, <2>2
    <2>4. Kept(dbEtag)'
      <3>1. CASE chePc \in {"unzip", "mark", "store"}
        BY <1>11, <2>1, <3>1 DEF CheRestart
      <3>2. CASE chePc \in {"idle", "download", "save"}
        BY <2>1, <2>2, <3>2
      <3> QED BY <3>1, <3>2
    <2> QED BY <2>1, <2>3, <2>4
  <1>12. CASE UNCHANGED cheVars
    BY <1>12 DEF cheVars
  <1> QED BY <1>1, <1>2, <1>3, <1>4, <1>5, <1>6, <1>7, <1>8, <1>9, <1>10, <1>11,
             <1>12 DEF CheNext, CheTurn

LEMMA EtagAlways == CheSpec => [](CheTypeOK /\ EtagInv)
  BY EtagInit, EtagStep, PTL DEF CheSpec

\* The variables of DonorChe keep their types.
THEOREM CheTypeCorrect == CheSpec => []CheTypeOK
  BY EtagAlways, PTL

\* For any versions and failures: between two requests the version that will not
\* be asked for again is archived, was no zip or forged, or was struck by a failure
\* between the update of its ETag and the commit.
THEOREM LostInOneWay == CheSpec => []LostOnlyByFailure
  <1>1. CheTypeOK /\ EtagInv => LostOnlyByFailure
    BY DEF EtagInv, Kept, LostOnlyByFailure
  <1> QED BY <1>1, EtagAlways, PTL

\* And the hash in the table is always the one of the version in the table.
THEOREM HashIsOfEtag == CheSpec => []XmlBelongsToEtag
  <1>1. CheTypeOK /\ EtagInv => XmlBelongsToEtag
    BY DEF EtagInv
  <1> QED BY <1>1, EtagAlways, PTL

-----------------------------------------------------------------------------
(* The loop                                                                *)

BothInv == ZavodTypeOK /\ FetchInv /\ CheTypeOK /\ EtagInv

\* For a donor, what the other one stores is a dump that appears in the archive
\* while it has no turn itself, or nothing.
LEMMA OthersStep ==
    ASSUME NEW d \in Dumps, log' = Stored(d)
    PROVE  /\ zavodPc = "idle" /\ UNCHANGED zavodOnly => [ZavodNext]_zavodVars
           /\ chePc = "idle" /\ UNCHANGED cheOnly => [CheNext]_cheVars
  <1>1. CASE OtherStores(d)
    BY <1>1 DEF ZavodNext, ZavodOtherDonor, zavodOnly, CheNext, CheOtherDonor, cheOnly
  <1>2. CASE log' = log
    BY <1>2 DEF zavodVars, tableVars, zavodOnly, cheVars, cheOnly
  <1> QED BY <1>1, <1>2 DEF OtherStores, Stored

LEMMA ZavodKeepsLog ==
    ASSUME BothInv, ZavodTurn
    PROVE  log' = log \/ \E d \in Dumps : log' = Stored(d)
  <1>1. CASE ZavodStore
    <2>1. cur.got \in Dumps
      BY <1>1 DEF BothInv, ZavodTypeOK, FetchInv, ZavodStore
    <2> QED BY <1>1, <2>1 DEF ZavodStore
  <1> QED
    BY <1>1 DEF ZavodTurn, ListHandles, ZavodDownload, ZavodDownloadFail, ZavodUnzip,
                ZavodMark, StoreFail, EndTurn, tableVars

LEMMA CheKeepsLog ==
    ASSUME BothInv, CheTurn
    PROVE  log' = log \/ \E d \in Dumps : log' = Stored(d)
  <1>1. CASE CheStore
    <2>1. got.xml \in Dumps
      BY <1>1 DEF BothInv, CheTypeOK, EtagInv, CheStore
    <2> QED BY <1>1, <2>1 DEF CheStore
  <1> QED
    BY <1>1 DEF CheTurn, Request, CheDownload, CheDownloadFail, SaveEtag, CheUnzip,
                CheMark, Raise

\* Every step of the loop is one of each donor, or none of it.
LEMMA StepOfEach ==
    ASSUME BothInv, [Next]_vars
    PROVE  [ZavodNext]_zavodVars /\ [CheNext]_cheVars
  <1> USE DEF zavodVars, tableVars, boundVars, zavodOnly, cheVars, etagVars, cheOnly
  <1>1. CASE Servers
    <2>1. CASE Publish /\ UNCHANGED zavodOnly
      BY <2>1 DEF Publish, CheNext
    <2>2. ASSUME NEW f \in Names, NEW v \in Versions \cup {Missing},
                 PageChange(f, v), UNCHANGED cheOnly
          PROVE  [ZavodNext]_zavodVars /\ [CheNext]_cheVars
      BY <2>2 DEF PageChange, ZavodNext
    <2> QED BY <1>1, <2>1, <2>2 DEF Servers
  <1>2. CASE Eais
    BY <1>2 DEF Eais, ZavodNext, CheNext
  <1>3. CASE MayRun(chePc) /\ ZavodTurn /\ UNCHANGED cheOnly
    <2>1. [CheNext]_cheVars
      <3>1. CASE log' = log
        BY <1>3, <3>1
      <3>2. ASSUME NEW d \in Dumps, log' = Stored(d) PROVE [CheNext]_cheVars
        BY <1>3, <3>2, OthersStep DEF MayRun
      <3> QED BY <1>3, <3>1, <3>2, ZavodKeepsLog
    <2> QED BY <1>3, <2>1 DEF ZavodNext
  <1>4. CASE MayRun(zavodPc) /\ CheTurn /\ UNCHANGED zavodOnly
    <2>1. [ZavodNext]_zavodVars
      <3>1. CASE log' = log
        BY <1>4, <3>1
      <3>2. ASSUME NEW d \in Dumps, log' = Stored(d) PROVE [ZavodNext]_zavodVars
        BY <1>4, <3>2, OthersStep DEF MayRun
      <3> QED BY <1>4, <3>1, <3>2, CheKeepsLog
    <2> QED BY <1>4, <2>1 DEF CheNext
  <1>5. CASE Restart
    <2>1. [CheNext]_cheVars /\ log' = log
      BY <1>5 DEF Restart, CheNext, CheRestart
    <2>2. [ZavodNext]_zavodVars
      BY <1>5, <2>1 DEF Restart, ZavodNext
    <2> QED BY <2>1, <2>2
  <1>6. CASE UNCHANGED vars
    BY <1>6 DEF vars
  <1> QED
    BY <1>1, <1>2, <1>3, <1>4, <1>5, <1>6 DEF Next, Turn, ZavodMoves, CheMoves

LEMMA BothAlways == Spec => []BothInv
  <1>1. Init => BothInv
    BY FetchInit, EtagInit DEF Init, BothInv
  <1>2. BothInv /\ [Next]_vars => BothInv'
    <2> SUFFICES ASSUME BothInv, [Next]_vars PROVE BothInv'
      OBVIOUS
    <2>1. [ZavodNext]_zavodVars /\ [CheNext]_cheVars
      BY StepOfEach
    <2> QED BY <2>1, FetchStep, EtagStep DEF BothInv
  <1> QED BY <1>1, <1>2, PTL DEF Spec

\* What is shown of each donor alone holds in the loop: neither stores anything
\* but a dump, and not while the other one has its turn.
THEOREM LoopIsAsAlone == Spec => EachAsAlone
  <1>1. Init => ZavodInit /\ CheInit
    BY DEF Init
  <1>2. BothInv /\ [Next]_vars => [ZavodNext]_zavodVars /\ [CheNext]_cheVars
    BY StepOfEach
  <1> QED
    BY <1>1, <1>2, BothAlways, PTL DEF Spec, EachAsAlone, ZavodSpec, CheSpec

\* Thus in the loop, too, neither donor loses or gives up what it should not.
THEOREM DonorsInTheLoop ==
    Spec => [](/\ BrokenZipGivesUp /\ GivesUpLate
               /\ LostOnlyByFailure /\ XmlBelongsToEtag)
  BY LoopIsAsAlone, BrokenIsGivenUp, NotGivenUpEarly, LostInOneWay, HashIsOfEtag,
     PTL DEF EachAsAlone
=============================================================================
