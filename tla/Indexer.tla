------------------------------ MODULE Indexer ------------------------------
(***************************************************************************)
(* rkndexer: the daemon that turns the dumps giweb serves into a history   *)
(* in PostgreSQL.  main_list() (rkndex/index_list.py) copies the list of   *)
(* dumps in pages and numbers them to find which differences to take;      *)
(* main_alldiff() (rkndex/index_diff.py) takes these one by one, in random *)
(* order, a transaction each.  main_alldiff() is only called when the list *)
(* has changed, and gives up at the first difference that fails.           *)
(*                                                                         *)
(* A dump says of every item it may list (a url, domain or address of some *)
(* <content/>, together with what the UNIQUE columns of table content take *)
(* of the <content/>) whether it is listed, and with which `ts`.           *)
(***************************************************************************)
EXTENDS Integers, Sequences, FiniteSets, FiniteSetsExt, SequencesExt

CONSTANTS Dumps,
          Zero,       \* ZERO_XML, the empty register of 2012
          Time,       \* updateTime of every dump
          Items,
          Holds,      \* of every dump: the `ts` of every item, 0 if not listed
          PageSizes,  \* what random.randint() may choose
          MaxFaults   \* bound on failed requests, database errors and kills

ASSUME TimeAssumption ==
    /\ IsFiniteSet(Dumps) /\ Zero \notin Dumps
    /\ Time \in [Dumps \cup {Zero} -> Nat]
    /\ \A d \in Dumps : Time[Zero] < Time[d]
    /\ \A d, e \in Dumps : Time[d] = Time[e] => d = e
ASSUME HoldsAssumption ==
    /\ Holds \in [Dumps \cup {Zero} -> [Items -> Nat]]
    /\ \A i \in Items : Holds[Zero][i] = 0
\* With a page of one dump the next page would start with the same dump.
ASSUME PagesAssumption == PageSizes \subseteq Nat \ {0, 1} /\ PageSizes # {}
ASSUME MaxFaultsAssumption == MaxFaults \in Nat

VARIABLES served,    \* the dumps giweb knows
          known,     \* table known_dump, in the order of its rows
          knownDiff, \* table known_diff
          ingested,  \* table ingested_diff
          content,   \* table content
          pc,
          tmp,       \* the temporary table of main_list()
          since,
          faults

listVars == <<known, knownDiff>>
diffVars == <<ingested, content>>
vars == <<served, listVars, diffVars, pc, tmp, since, faults>>

Pair == (Dumps \cup {Zero}) \X Dumps
ContentRow == [item : Items, ts : Nat, deletion : BOOLEAN,
               from : Dumps \cup {Zero}, to : Dumps]

TypeOK ==
    /\ served \subseteq Dumps
    /\ known \in Seq(served) /\ IsInjective(known)
    /\ knownDiff \subseteq Pair /\ ingested \subseteq knownDiff
    /\ content \subseteq ContentRow
    /\ pc \in {"idle", "list", "ingest"}
    /\ tmp \subseteq served
    /\ since \in {Time[d] : d \in Dumps \cup {Zero}}
    /\ faults \in 0..MaxFaults

Init ==
    /\ served \in SUBSET Dumps
    /\ known = <<>> /\ knownDiff = {}
    /\ ingested = {} /\ content = {}
    /\ pc = "idle" /\ tmp = {} /\ since = Time[Zero]
    /\ faults = 0

-----------------------------------------------------------------------------
\* rkngitar has archived a dump, maybe one that is older than others.
Archived(d) ==
    /\ d \notin served
    /\ served' = served \cup {d}
    /\ UNCHANGED <<listVars, diffVars, pc, tmp, since, faults>>

-----------------------------------------------------------------------------
(* main_list()                                                             *)

\* Faulty: the listing starts from the last dump that is known.
StartFromLast ==
    /\ pc = "idle" /\ served # Range(known)
    /\ tmp' = {} /\ since' = Max({Time[d] : d \in Range(known) \cup {Zero}})
    /\ pc' = "list"
    /\ UNCHANGED <<served, listVars, diffVars, faults>>

\* The digest of giweb is not the one of known_dump.
Start ==
    /\ pc = "idle" /\ served # Range(known)
    /\ tmp' = {} /\ since' = Time[Zero]
    /\ pc' = "list"
    /\ UNCHANGED <<served, listVars, diffVars, faults>>

\* /since_update_time/from/n
Page(from, n) ==
    LET rest == {d \in served : Time[d] >= from}
    IN  {d \in rest : Cardinality({e \in rest : Time[e] < Time[d]}) < n}

\* The dumps of S in the order of update times, as the pages bring them to tmp.
InOrder(S) ==
    {s \in [1..Cardinality(S) -> S] :
       \A i, j \in 1..Cardinality(S) : i < j => Time[s[i]] < Time[s[j]]}

\* Faulty: the rows are inserted without ON CONFLICT.
InsertedAnyway(dumps) == {known \o s : s \in InOrder(dumps)}

\* INSERT INTO known_dump TABLE tmp ON CONFLICT DO NOTHING
Inserted(dumps) == {known \o s : s \in InOrder(dumps \ Range(known))}

\* Faulty: row 0 is left out.
JoinedWithoutZero(rows) ==
    {<<rows[i - 1], rows[i]>> : i \in DOMAIN rows \ {1}}

\* refresh_known_diff(): row_number() OVER () counts the rows as the table has
\* them, and a row is joined with the next one; row 0 is ZERO_XML.
Joined(rows) ==
    {<<IF i = 1 THEN Zero ELSE rows[i - 1], rows[i]>> : i \in DOMAIN rows}

\* One request; the last one ends the transaction.
ListPage ==
    /\ pc = "list"
    /\ \E n \in PageSizes :
         LET page == Page(since, n)
         IN  IF Cardinality(page) = n
               THEN /\ tmp' = tmp \cup page
                    /\ since' = Max({Time[d] : d \in page})
                    /\ UNCHANGED <<listVars, pc>>
               ELSE /\ known' \in Inserted(tmp \cup page)
                    /\ knownDiff' = Joined(known')
                    /\ tmp' = {} /\ since' = Time[Zero]
                    /\ pc' = "ingest"
    /\ UNCHANGED <<served, diffVars, faults>>

-----------------------------------------------------------------------------
(* main_alldiff(): it takes 100 at a time and asks again until none is     *)
(* left, so that any pair that is left may be the next.                    *)

Pending == knownDiff \ ingested

\* Faulty: a `ts` that has changed does not make a difference.
WrittenByItem(d, e) ==
    LET row(i, t, del) ==
            [item |-> i, ts |-> t, deletion |-> del, from |-> d, to |-> e]
    IN  {row(i, Holds[d][i], TRUE) :
            i \in {j \in Items : Holds[d][j] # 0 /\ Holds[e][j] = 0}}
        \cup
        {row(i, Holds[e][i], FALSE) :
            i \in {j \in Items : Holds[d][j] = 0 /\ Holds[e][j] # 0}}

\* What is written of the difference from d to e: an item that is in both with
\* the same `ts` is left out, one with another `ts` is deleted and added.
Written(d, e) ==
    LET row(i, t, del) ==
            [item |-> i, ts |-> t, deletion |-> del, from |-> d, to |-> e]
        changed == {i \in Items : Holds[d][i] # Holds[e][i]}
    IN  {row(i, Holds[d][i], TRUE) : i \in {j \in changed : Holds[d][j] # 0}}
        \cup
        {row(i, Holds[e][i], FALSE) : i \in {j \in changed : Holds[e][j] # 0}}

\* The two UNIQUE constraints of table content.
Unique(rows) ==
    \A r, s \in rows :
        /\ r.item = s.item /\ r.deletion = s.deletion
        /\ r.from = s.from \/ r.to = s.to
        => r = s

\* select_update_time() asserts that the difference goes forward in time.
Accepted(p) ==
    /\ Time[p[1]] < Time[p[2]]
    /\ Unique(content \cup Written(p[1], p[2]))

\* Faulty: the difference is not recorded.
IngestUnrecorded(p) ==
    /\ pc = "ingest" /\ p \in Pending
    /\ Accepted(p)
    /\ content' = content \cup Written(p[1], p[2])
    /\ UNCHANGED <<served, listVars, ingested, pc, tmp, since, faults>>

Ingest(p) ==
    /\ pc = "ingest" /\ p \in Pending
    /\ Accepted(p)
    /\ content' = content \cup Written(p[1], p[2])
    /\ ingested' = ingested \cup {p}
    /\ UNCHANGED <<served, listVars, pc, tmp, since, faults>>

\* ingest_diff() raises by itself, and main_alldiff() with it.
Refused(p) ==
    /\ pc = "ingest" /\ p \in Pending
    /\ ~Accepted(p)
    /\ pc' = "idle"
    /\ UNCHANGED <<served, listVars, diffVars, tmp, since, faults>>

Done ==
    /\ pc = "ingest" /\ Pending = {}
    /\ pc' = "idle"
    /\ UNCHANGED <<served, listVars, diffVars, tmp, since, faults>>

\* A request or the database fails, or the process is killed: the transaction
\* is rolled back, and the daemon begins from main_list().
Fail ==
    /\ pc # "idle" /\ faults < MaxFaults
    /\ pc' = "idle" /\ faults' = faults + 1
    /\ tmp' = {} /\ since' = Time[Zero]
    /\ UNCHANGED <<served, listVars, diffVars>>

-----------------------------------------------------------------------------
Next ==
    \/ \E d \in Dumps : Archived(d)
    \/ Start \/ ListPage
    \/ \E p \in Pair : Ingest(p) \/ Refused(p)
    \/ Done
    \/ Fail

Spec == Init /\ [][Next]_vars

\* The daemon loops for ever; what it does in a turn is sequential code.
FairSpec ==
    Spec /\ WF_vars(Start) /\ WF_vars(ListPage) /\ WF_vars(Done)
         /\ WF_vars(\E p \in Pair : Ingest(p) \/ Refused(p))

-----------------------------------------------------------------------------
(* Properties                                                              *)

Neighbours(S) ==
    {p \in (S \cup {Zero}) \X S :
        /\ Time[p[1]] < Time[p[2]]
        /\ \A d \in S : ~(Time[p[1]] < Time[d] /\ Time[d] < Time[p[2]])}

\* "indexes the difference between the closest `dump.xml` files"
PairsAreNeighbours == knownDiff = Neighbours(Range(known))

\* No dump was listed after a younger one.
ListedInOrder == \A i, j \in DOMAIN known : i < j => Time[known[i]] < Time[known[j]]

\* As long as no dump is listed late, the differences to take are those of
\* neighbours, however the pages fell and whatever was archived between two of
\* them, and no one of them is refused.
InOrderPairsAreNeighbours ==
    ListedInOrder =>
        /\ PairsAreNeighbours
        /\ pc = "ingest" => \A p \in Pending : Accepted(p)

\* How often the item was added with that `ts`, less how often it was deleted,
\* up to dump d.
Balance(i, t, d) ==
    LET upTo(del) == {r \in content : /\ r.item = i /\ r.ts = t
                                      /\ r.deletion = del
                                      /\ Time[r.to] <= Time[d]}
    IN  Cardinality(upTo(FALSE)) - Cardinality(upTo(TRUE))

\* Table content tells what any dump listed, once the differences up to that
\* dump are in it, in whatever order they were taken and whatever failed.
HistoryReplays ==
    \A d \in Range(known) :
        (\A p \in knownDiff : Time[p[2]] <= Time[d] => p \in ingested) =>
            \A i \in Items :
                \A t \in ({r.ts : r \in content} \cup {Holds[d][i]}) \ {0} :
                    Balance(i, t, d) = IF Holds[d][i] = t THEN 1 ELSE 0

\* Every dump that giweb serves gets to known_dump, also one that is archived
\* late or between two pages.
KnowsAll == \A d \in Dumps : d \in served ~> d \in Range(known)

\* What was left when main_alldiff() gave up is taken when the next dump makes
\* main_list() return true; nothing else makes it.
IngestedWithNextDump ==
    (faults = MaxFaults /\ served # Range(known))
        ~> (served = Range(known) /\ (ListedInOrder => Pending = {}))
=============================================================================
