------------------------------ MODULE DonorEais ------------------------------
(***************************************************************************)
(* rkndex/donor_eais.py and the parts of donors_loop() that drive it.      *)
(* EAIS is a service that stores dumps; table eais is a copy of its list,  *)
(* rebuilt about once a day in pages and extended in between from the      *)
(* largest update time known.  A turn of EAIS lists, downloads what the    *)
(* archive lacks, and uploads one dump that EAIS lacks; a turn of another  *)
(* donor uploads what it has downloaded.                                   *)
(*                                                                         *)
(* A listing is one sqlite transaction but many HTTP requests, and EAIS    *)
(* changes under it.                                                       *)
(***************************************************************************)
EXTENDS Integers, Sequences, FiniteSets, FiniteSetsExt, SequencesExt

CONSTANTS Dumps,
          UT,          \* updateTime of every dump
          Bad,         \* those whose file at EAIS never passes the checks
          Deleted,     \* table eais_deleted, which an operator fills
          Limit,       \* list_handles(limit=5)
          UploadLimit, \* LIMIT 10 of get_uploadable()
          PageSizes,   \* what random.randint() may choose
          MaxFaults,   \* bound on failed requests and kills
          MaxLosses    \* bound on dumps that EAIS loses

ASSUME UTAssumption ==
    /\ IsFiniteSet(Dumps) /\ Dumps # {}
    /\ UT \in [Dumps -> Nat \ {0}]
    /\ \A d, e \in Dumps : UT[d] = UT[e] => d = e
ASSUME SetsAssumption == Bad \subseteq Dumps /\ Deleted \subseteq Dumps
ASSUME LimitsAssumption ==
    /\ Limit \in Nat \ {0} /\ UploadLimit \in Nat \ {0}
    /\ PageSizes \subseteq Nat \ {0} /\ PageSizes # {}
    /\ MaxFaults \in Nat /\ MaxLosses \in Nat

VARIABLES remote,   \* what EAIS stores
          eais,     \* table eais, in the order of its rows
          synced,   \* eais_fullsync_ts > 0
          due,      \* the last full listing is older than freshness_limit
          log,      \* table log of the archive, in the order of its rows
          nomtime,  \* the dumps of log whose sig_mtime is NULL
          pc, since, table, todo, cur,
          base,     \* what EAIS had all through the listing under way
          ever,     \* what EAIS had at any time of it
          faults, losses

archiveVars == <<log, nomtime>>
eaisVars == <<eais, synced, due>>
listVars == <<since, table, todo>>
ghostVars == <<base, ever>>
boundVars == <<faults, losses>>
vars == <<remote, eaisVars, archiveVars, pc, listVars, cur, ghostVars, boundVars>>

\* What cur is when nothing is uploaded; nothing reads it.
NoUpload == CHOOSE d \in Dumps : TRUE

DistinctSeqs == {s \in Seq(Dumps) : IsInjective(s)}

TypeOK ==
    /\ remote \subseteq Dumps
    /\ eais \in DistinctSeqs /\ table \in DistinctSeqs
    /\ log \in DistinctSeqs /\ nomtime \subseteq Range(log)
    /\ synced \in BOOLEAN /\ due \in BOOLEAN
    /\ pc \in {"idle", "full", "handles", "choose", "post", "record"}
    /\ since \in {0} \cup {UT[d] : d \in Dumps}
    /\ todo \subseteq Dumps /\ Cardinality(todo) <= Limit
    /\ cur \in Dumps
    /\ base \subseteq ever /\ ever \subseteq Dumps
    /\ faults \in 0..MaxFaults /\ losses \in 0..MaxLosses

Init ==
    /\ remote \in SUBSET Dumps
    /\ eais = <<>> /\ synced = FALSE /\ due = TRUE
    /\ log = <<>> /\ nomtime = {}
    /\ pc = "idle" /\ since = 0 /\ table = <<>> /\ todo = {}
    /\ cur = NoUpload
    /\ base = {} /\ ever = {}
    /\ faults = 0 /\ losses = 0

-----------------------------------------------------------------------------
(* EAIS                                                                    *)

\* GET /start?ts=from&c=n: the first n dumps with an update time after `from`.
Page(from, n) ==
    LET later == {d \in remote : UT[d] > from}
    IN  {d \in later : Cardinality({e \in later : UT[e] < UT[d]}) < n}

RemoteAdd(d) ==
    /\ d \notin remote
    /\ remote' = remote \cup {d}
    /\ ever' = IF pc = "full" THEN ever \cup {d} ELSE ever
    /\ UNCHANGED <<eaisVars, archiveVars, pc, listVars, cur, base, boundVars>>

RemoteLose(d) ==
    /\ d \in remote /\ losses < MaxLosses
    /\ remote' = remote \ {d}
    /\ base' = base \ {d}
    /\ losses' = losses + 1
    /\ UNCHANGED <<eaisVars, archiveVars, pc, listVars, cur, ever, faults>>

-----------------------------------------------------------------------------
(* list_handles()                                                          *)

MaxUpdateTime(rows) == Max({0} \cup {UT[d] : d \in Range(rows)})

\* The dumps of S in the order of update times.
InOrder(S) ==
    {s \in [1..Cardinality(S) -> S] :
       \A i, j \in 1..Cardinality(S) : i < j => UT[s[i]] < UT[s[j]]}

\* Faulty: INSERT into a table without UNIQUE.
InsertedAnyway(rows, page) == {rows \o s : s \in InOrder(page)}

\* INSERT OR IGNORE of a page, in the order of update times.
Inserted(rows, page) == {rows \o s : s \in InOrder(page \ Range(rows))}

FirstRows(rows, n) == {rows[i] : i \in 1..Min({n, Len(rows)})}

\* The first n rows that are not known: SELECT ... WHERE ... NOT IN known LIMIT n
FirstWithout(rows, known, n) ==
    LET lacked == {i \in DOMAIN rows : rows[i] \notin known}
    IN  {rows[i] : i \in {j \in lacked : Cardinality({k \in lacked : k < j}) < n}}

\* Faulty: the limit is taken before the archived dumps are left out.
HandlesOfFirst(rows) == FirstRows(rows, Limit) \ Range(log)

\* SELECT ... FROM eais WHERE xml_sha256 NOT IN log LIMIT
Handles(rows) == FirstWithout(rows, Range(log), Limit)

\* Faulty: the old rows are kept.
NotCleared(rows) == rows

\* DELETE FROM eais
Cleared(rows) == <<>>

StartFull ==
    /\ pc = "idle" /\ due
    /\ table' = Cleared(eais) /\ since' = 0
    /\ pc' = "full"
    /\ base' = remote /\ ever' = remote
    /\ UNCHANGED <<remote, eaisVars, archiveVars, todo, cur, boundVars>>

\* What is noted about EAIS goes with the listing.
EndFull == base' = {} /\ ever' = {}

\* One request of _list_full(); the last one commits the transaction.
FullPage ==
    /\ pc = "full"
    /\ \E n \in PageSizes :
         LET page == Page(since, n)
         IN  IF Cardinality(page) = n
               THEN /\ table' \in Inserted(table, page)
                    /\ since' = Max({since} \cup {UT[d] : d \in page})
                    /\ UNCHANGED <<eaisVars, todo, pc, ghostVars>>
               ELSE /\ eais' \in Inserted(table, page)
                    /\ due' = FALSE /\ synced' = TRUE
                    /\ todo' = Handles(eais')
                    /\ table' = <<>> /\ since' = 0
                    /\ pc' = "handles"
                    /\ EndFull
    /\ UNCHANGED <<remote, archiveVars, cur, boundVars>>

\* A request fails: ROLLBACK, and donors_loop() goes on with no handles.
PageFail ==
    /\ pc = "full" \/ (pc = "idle" /\ ~due)
    /\ faults < MaxFaults
    /\ table' = <<>> /\ since' = 0 /\ todo' = {}
    /\ pc' = "choose" /\ faults' = faults + 1
    /\ EndFull
    /\ UNCHANGED <<remote, eaisVars, archiveVars, cur, losses>>

\* The listing of a turn between two full ones: one page.
ListSinceMax ==
    /\ pc = "idle" /\ ~due
    /\ \E n \in PageSizes :
         /\ eais' \in Inserted(eais, Page(MaxUpdateTime(eais), n))
         /\ todo' = Handles(eais')
    /\ pc' = "handles"
    /\ UNCHANGED <<remote, synced, due, archiveVars, since, table, cur,
                   ghostVars, boundVars>>

\* freshness_limit passes.
Expire ==
    /\ ~due
    /\ due' = TRUE
    /\ UNCHANGED <<remote, eais, synced, archiveVars, pc, listVars, cur,
                   ghostVars, boundVars>>

-----------------------------------------------------------------------------
(* The handles of the turn                                                 *)

CanFetch(d) == d \in remote \ Bad

\* The handles are taken in the order of the rows of eais.
IsNext(d) ==
    /\ pc = "handles" /\ d \in todo
    /\ \A i, j \in DOMAIN eais : eais[i] = d /\ eais[j] \in todo => i <= j

\* fetch_xml_and_sig() and commit_files(); the mtime of the signature is not
\* known, RKN_EPOCH is stored and read back as NULL.
FetchAndStore(d) ==
    /\ IsNext(d) /\ CanFetch(d)
    /\ log' = Append(log, d)
    /\ nomtime' = nomtime \cup {d}
    /\ todo' = todo \ {d}
    /\ UNCHANGED <<remote, eaisVars, pc, since, table, cur, ghostVars, boundVars>>

\* The download or a check of commit_files() raises.
Skip(d) ==
    /\ IsNext(d)
    /\ \/ ~CanFetch(d) /\ UNCHANGED faults
       \/ CanFetch(d) /\ faults < MaxFaults /\ faults' = faults + 1
    /\ todo' = todo \ {d}
    /\ UNCHANGED <<remote, eaisVars, archiveVars, pc, since, table, cur,
                   ghostVars, losses>>

EndHandles ==
    /\ pc = "handles" /\ todo = {}
    /\ pc' = "choose"
    /\ UNCHANGED <<remote, eaisVars, archiveVars, listVars, cur, ghostVars,
                   boundVars>>

-----------------------------------------------------------------------------
(* Uploads                                                                 *)

\* Faulty: eais_deleted is not looked at.
NeedsXmlNotListed(d) == d \notin Range(eais)

\* needs_xml_sha256()
NeedsXml(d) == d \notin Range(eais) /\ d \notin Deleted

\* Faulty: the limit is taken before the known dumps are left out.
UploadableOfFirst ==
    IF MaxUpdateTime(eais) = 0
      THEN {}
      ELSE FirstRows(log, UploadLimit) \ (Range(eais) \cup Deleted)

\* get_uploadable(): the first rows of log that EAIS lacks.
Uploadable ==
    IF MaxUpdateTime(eais) = 0
      THEN {}
      ELSE FirstWithout(log, Range(eais) \cup Deleted, UploadLimit)

\* get_uploadable() finds nothing.
NothingToUpload ==
    /\ pc = "choose" /\ Uploadable = {}
    /\ pc' = "idle"
    /\ UNCHANGED <<remote, eaisVars, archiveVars, listVars, cur, ghostVars,
                   boundVars>>

\* random.choice(), and eais_upload_from_git(): os.utime() of an mtime that is
\* NULL raises TypeError.
ChooseUpload(d) ==
    /\ pc = "choose" /\ d \in Uploadable
    /\ IF d \in nomtime THEN pc' = "idle" /\ UNCHANGED cur
                        ELSE pc' = "post" /\ cur' = d
    /\ UNCHANGED <<remote, eaisVars, archiveVars, listVars, ghostVars, boundVars>>

\* A handle of another donor: it is archived if the archive lacks it, then
\* offered to EAIS.  The offer asserts that there was a full listing.
OtherDonor(d) ==
    /\ pc = "idle"
    /\ log' = IF d \in Range(log) THEN log ELSE Append(log, d)
    /\ IF synced /\ NeedsXml(d) THEN pc' = "post" /\ cur' = d
                                ELSE UNCHANGED <<pc, cur>>
    /\ UNCHANGED <<remote, eaisVars, nomtime, listVars, ghostVars, boundVars>>

\* POST /upload
Post ==
    /\ pc = "post"
    /\ remote' = remote \cup {cur}
    /\ pc' = "record"
    /\ UNCHANGED <<eaisVars, archiveVars, listVars, cur, ghostVars, boundVars>>

\* upload() lists two dumps from one second before the uploaded one on.
Record ==
    /\ pc = "record"
    /\ eais' \in Inserted(eais, Page(UT[cur] - 1, 2))
    /\ pc' = "idle" /\ cur' = NoUpload
    /\ UNCHANGED <<remote, synced, due, archiveVars, listVars, ghostVars,
                   boundVars>>

UploadFail ==
    /\ pc \in {"post", "record"}
    /\ faults < MaxFaults
    /\ pc' = "idle" /\ cur' = NoUpload /\ faults' = faults + 1
    /\ UNCHANGED <<remote, eaisVars, archiveVars, listVars, ghostVars, losses>>

\* The process is killed and started again; a transaction is rolled back.
Restart ==
    /\ pc # "idle" /\ faults < MaxFaults
    /\ pc' = "idle" /\ faults' = faults + 1
    /\ since' = 0 /\ table' = <<>> /\ todo' = {} /\ cur' = NoUpload
    /\ EndFull
    /\ UNCHANGED <<remote, eaisVars, archiveVars, losses>>

-----------------------------------------------------------------------------
Next ==
    \/ \E d \in Dumps : RemoteAdd(d) \/ RemoteLose(d)
    \/ StartFull \/ FullPage \/ PageFail \/ ListSinceMax \/ Expire
    \/ \E d \in Dumps : FetchAndStore(d) \/ Skip(d)
    \/ EndHandles
    \/ NothingToUpload
    \/ \E d \in Dumps : ChooseUpload(d) \/ OtherDonor(d)
    \/ Post \/ Record \/ UploadFail
    \/ Restart

Spec == Init /\ [][Next]_vars

(***************************************************************************)
(* schedule_every() gives EAIS its turn again and again; a turn is         *)
(* sequential code and its requests do not fail for ever (MaxFaults).      *)
(* random.choice() takes every candidate that it is offered for ever.      *)
(***************************************************************************)
Fairness ==
    /\ SF_vars(StartFull) /\ SF_vars(ListSinceMax) /\ WF_vars(Expire)
    /\ WF_vars(FullPage) /\ WF_vars(EndHandles)
    /\ \A d \in Dumps :
          /\ WF_vars(FetchAndStore(d)) /\ WF_vars(Skip(d))
          /\ SF_vars(ChooseUpload(d))
    /\ WF_vars(NothingToUpload) /\ WF_vars(Post) /\ WF_vars(Record)

FairSpec == Spec /\ Fairness

-----------------------------------------------------------------------------
(* Properties                                                              *)

\* A full listing that is committed has every dump that EAIS had all the time
\* it took, and none that EAIS never had while it took: pages asked for with
\* `>` neither skip a dump nor keep a row of the old table, whatever is added
\* or lost between two requests.
FullListingExact ==
    [][due /\ ~due' => base \subseteq Range(eais') /\ Range(eais') \subseteq ever]_vars

\* What an operator has put in eais_deleted is never sent to EAIS again.
DeletedStaysDeleted == pc = "post" => cur \notin Deleted

\* A dump that stays at EAIS and passes the checks is archived, also one that
\* EAIS got late with an old update time, and in spite of bad ones (fewer than
\* a list has room for).
EventuallyArchived ==
    \A d \in Dumps \ Bad : <>[](d \in remote) => <>(d \in Range(log))

\* What came from EAIS and was lost there can not be uploaded again, and keeps
\* its row of get_uploadable(): as many of them as it has rows leave no row for
\* any other dump.
Blocked == Cardinality(nomtime \ (remote \cup Deleted)) >= UploadLimit

\* get_uploadable() "lists reports known to local storage to upload to EAIS":
\* what another donor brought and is not deleted gets to EAIS (but not to an
\* empty one), whatever else waits for a row of the LIMIT, until dumps that EAIS
\* lost have all of its rows.  Of those themselves it does not hold.
OthersUploaded ==
    \A d \in Dumps \ Deleted :
        d \in Range(log) \ nomtime ~> d \in remote \/ remote = {} \/ Blocked
=============================================================================
