----------------------------- MODULE DonorZavod -----------------------------
(***************************************************************************)
(* rkndex/donor_zavod.py: a directory listing of zip files.  Table zavod   *)
(* has a row per file name, with the number of fetches and the hash of the *)
(* dump once a fetch got that far; a row goes back to the beginning when   *)
(* the listed size changes.  The fetch writes to the table twice, in two   *)
(* transactions, around the unpacking of the zip.                          *)
(***************************************************************************)
EXTENDS Donor, FiniteSetsExt

CONSTANTS Names,      \* the file names
          Versions,   \* what may be behind a name
          Size,       \* of every version, in bytes
          Content,    \* of every version: a dump, or Broken for a bad zip
          Tries,      \* --zavod-tries
          Limit,      \* list_handles(limit=5)
          MaxChanges  \* bound on changes of the page

ASSUME NamesAssumption == IsFiniteSet(Names) /\ Names # {}
ASSUME VersionsAssumption ==
    /\ Size \in [Versions -> Nat]
    /\ Content \in [Versions -> Dumps \cup {Broken}]
ASSUME NumbersAssumption ==
    Tries \in Nat \ {0} /\ Limit \in Nat \ {0} /\ MaxChanges \in Nat

Missing == "404"  \* the name is not on the page

VARIABLES page,    \* what the server has behind every name
          zavod,   \* table zavod: a row for each of some names
          zavodPc,
          todo,    \* the handles of the turn that are left
          cur,     \* the fetch under way: its name and what was received
          spent,   \* complete downloads of a name since its row was new
          changes, zavodFaults

tableVars == <<zavod, log>>
boundVars == <<changes, zavodFaults>>
zavodVars == <<page, tableVars, zavodPc, todo, cur, spent, boundVars>>

Row == [size : Nat, fetched : Nat, xml : Dumps \cup {NULL}]

ZavodTypeOK ==
    /\ page \in [Names -> Versions \cup {Missing}]
    /\ DOMAIN zavod \subseteq Names /\ zavod \in [DOMAIN zavod -> Row]
    /\ log \subseteq Dumps \ Forged
    /\ zavodPc \in {"idle", "handles", "unzip", "mark", "store"}
    /\ todo \subseteq DOMAIN zavod /\ Cardinality(todo) <= Limit
    /\ cur \in [name : Names, got : Dumps \cup {Broken}]
    /\ spent \in [Names -> 0..(Tries + 1)]
    /\ changes \in 0..MaxChanges /\ zavodFaults \in 0..MaxFaults

ZavodInit ==
    /\ page \in [Names -> Versions \cup {Missing}]
    /\ zavod = [f \in {} |-> NULL] /\ log = {}
    /\ zavodPc = "idle" /\ todo = {}
    /\ cur = [name |-> CHOOSE f \in Names : TRUE, got |-> Broken]
    /\ spent = [f \in Names |-> 0]
    /\ changes = 0 /\ zavodFaults = 0

-----------------------------------------------------------------------------
(* The server, and the other donors *)

PageChange(f, v) ==
    /\ changes < MaxChanges /\ v # page[f]
    /\ page' = [page EXCEPT ![f] = v]
    /\ changes' = changes + 1
    /\ UNCHANGED <<tableVars, zavodPc, todo, cur, spent, zavodFaults>>

ZavodOtherDonor(d) ==
    /\ zavodPc = "idle"
    /\ OtherStores(d)
    /\ UNCHANGED <<page, zavod, zavodPc, todo, cur, spent, boundVars>>

-----------------------------------------------------------------------------
(* list_handles(), one transaction                                         *)

Listed(f) == page[f] # Missing

New(f) == [size |-> Size[page[f]], fetched |-> 0, xml |-> NULL]

\* Faulty: the size is replaced and the number of fetches is kept.
Resized(f) ==
    IF f \notin DOMAIN zavod THEN New(f)
    ELSE IF Listed(f) THEN [zavod[f] EXCEPT !.size = Size[page[f]]] ELSE zavod[f]

\* The row has the size that is listed, or its name is not listed now.
Unchanged(f) ==
    /\ f \in DOMAIN zavod
    /\ Listed(f) => zavod[f].size = Size[page[f]]

\* INSERT OR IGNORE, and UPDATE ... WHERE zip_size != the listed one
Updated(f) == IF Unchanged(f) THEN zavod[f] ELSE New(f)

\* fetched < tries AND (xml_sha256 IS NULL OR xml_sha256 NOT IN log)
Wanted(row) ==
    /\ row.fetched < Tries
    /\ row.xml = NULL \/ row.xml \notin log

\* SELECT ... LIMIT, in no order.  A handle is a name and the size in its row,
\* which stays as it is until the next listing.
Handles(rows) ==
    LET wanted == {f \in DOMAIN rows : Wanted(rows[f])}
    IN  {S \in SUBSET wanted :
           Cardinality(S) = Limit \/ (S = wanted /\ Cardinality(S) < Limit)}

\* A row that was not listed for a day is deleted; how long ago it was listed
\* is left open.
ListHandles ==
    /\ zavodPc = "idle"
    /\ LET listed == {f \in Names : Listed(f)}
       IN  \E gone \in SUBSET (DOMAIN zavod \ listed) :
             zavod' = [f \in (DOMAIN zavod \cup listed) \ gone |-> Updated(f)]
    /\ todo' \in Handles(zavod')
    /\ spent' = [f \in Names |-> IF Unchanged(f) THEN spent[f] ELSE 0]
    /\ zavodPc' = "handles"
    /\ UNCHANGED <<page, log, cur, boundVars>>

-----------------------------------------------------------------------------
(* fetch_xml_and_sig() and the rest of a handle                            *)

\* Faulty: the fetch is counted when it has succeeded.
NotCounted(rows, f) == rows

\* UPDATE zavod SET fetched = fetched + 1
Counted(rows, f) == [rows EXCEPT ![f].fetched = @ + 1]

\* The zip has the size that was listed.
Fits(f) == Listed(f) /\ Size[page[f]] = zavod[f].size

\* The fetch is counted before the zip is looked at.
ZavodDownload(f) ==
    /\ zavodPc = "handles" /\ f \in todo
    /\ Fits(f)
    /\ cur' = [name |-> f, got |-> Content[page[f]]]
    /\ zavod' = Counted(zavod, f)
    /\ spent' = [spent EXCEPT ![f] = Min({@ + 1, Tries + 1})]
    /\ todo' = todo \ {f}
    /\ zavodPc' = "unzip"
    /\ UNCHANGED <<page, log, boundVars>>

\* The request fails, or RuntimeError('Truncated zip'): nothing is counted.
ZavodDownloadFail(f) ==
    /\ zavodPc = "handles" /\ f \in todo
    /\ IF Fits(f) THEN zavodFaults < MaxFaults /\ zavodFaults' = zavodFaults + 1
                  ELSE UNCHANGED zavodFaults
    /\ todo' = todo \ {f}
    /\ UNCHANGED <<page, tableVars, zavodPc, cur, spent, changes>>

ZavodUnzip ==
    /\ zavodPc = "unzip"
    /\ zavodPc' = IF cur.got = Broken THEN "handles" ELSE "mark"
    /\ UNCHANGED <<page, tableVars, todo, cur, spent, boundVars>>

\* UPDATE zavod SET fetched = 1, xml_sha256 = ?
Marked(rows, f, d) == [rows EXCEPT ![f].fetched = 1, ![f].xml = d]

ZavodMark ==
    /\ zavodPc = "mark"
    /\ zavod' = Marked(zavod, cur.name, cur.got)
    /\ zavodPc' = "store"
    /\ UNCHANGED <<page, log, todo, cur, spent, boundVars>>

ZavodStore ==
    /\ zavodPc = "store"
    /\ log' = Stored(cur.got)
    /\ zavodPc' = "handles"
    /\ UNCHANGED <<page, zavod, todo, cur, spent, boundVars>>

StoreFail ==
    /\ zavodPc = "store" /\ cur.got \notin log
    /\ zavodFaults < MaxFaults /\ zavodFaults' = zavodFaults + 1
    /\ zavodPc' = "handles"
    /\ UNCHANGED <<page, tableVars, todo, cur, spent, changes>>

EndTurn ==
    /\ zavodPc = "handles" /\ todo = {}
    /\ zavodPc' = "idle"
    /\ UNCHANGED <<page, tableVars, todo, cur, spent, boundVars>>

\* The process is killed and started again.
ZavodRestart ==
    /\ zavodPc # "idle" /\ zavodFaults < MaxFaults
    /\ zavodPc' = "idle" /\ todo' = {} /\ zavodFaults' = zavodFaults + 1
    /\ UNCHANGED <<page, tableVars, cur, spent, changes>>

-----------------------------------------------------------------------------
\* What the loop does in a turn of Zavod.
ZavodTurn ==
    \/ ListHandles
    \/ \E f \in Names : ZavodDownload(f) \/ ZavodDownloadFail(f)
    \/ ZavodUnzip \/ ZavodMark \/ ZavodStore \/ StoreFail
    \/ EndTurn

ZavodNext ==
    \/ \E f \in Names, v \in Versions \cup {Missing} : PageChange(f, v)
    \/ \E d \in Dumps : ZavodOtherDonor(d)
    \/ ZavodTurn
    \/ ZavodRestart

ZavodSpec == ZavodInit /\ [][ZavodNext]_zavodVars

\* The donor gets its turn again and again, a turn is sequential code, and a
\* handle is dealt with one way or the other.
ZavodFairSpec ==
    /\ ZavodSpec
    /\ WF_zavodVars(ListHandles)
    /\ WF_zavodVars(\E f \in Names : ZavodDownload(f) \/ ZavodDownloadFail(f))
    /\ WF_zavodVars(ZavodUnzip) /\ WF_zavodVars(ZavodMark)
    /\ WF_zavodVars(ZavodStore) /\ WF_zavodVars(EndTurn)

-----------------------------------------------------------------------------
(* Properties                                                              *)

\* A name whose zip never unpacks is downloaded `tries` times and no more,
\* also when the process is killed on the way: not counting a download that a
\* kill parts from its count, which is one step here.
BrokenZipGivesUp ==
    \A f \in DOMAIN zavod : zavod[f].xml = NULL => spent[f] <= Tries

\* A name is not given up early: a row that is passed over has had all its
\* downloads, or its dump is in the archive.
GivesUpLate ==
    \A f \in DOMAIN zavod :
        ~Wanted(zavod[f]) => spent[f] >= Tries \/ zavod[f].xml \in log

\* A file that stays on the page and holds a genuine dump is archived, as
\* long as sizes tell versions apart and fewer names than a list has room for
\* hold a dump that is always refused.
ZavodEventuallyArchived ==
    \A f \in Names, v \in Versions :
        (<>[](page[f] = v) /\ Content[v] \in Dumps \ Forged)
            => <>(Content[v] \in log)
=============================================================================
