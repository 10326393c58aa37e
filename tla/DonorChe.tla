------------------------------ MODULE DonorChe ------------------------------
(***************************************************************************)
(* rkndex/donor_che.py: one file behind a URL, asked for with the ETag of  *)
(* the last answer.  The ETag is kept in memory, where it decides the next *)
(* request, and in table che, from where a restart reads it; both are      *)
(* written before the zip is unpacked and the dump is committed.           *)
(***************************************************************************)
EXTENDS Donor

CONSTANTS MaxVersion,  \* bound on versions of the file
          CheContent   \* of every version: a dump, or Broken for a bad zip

ASSUME MaxVersionAssumption == MaxVersion \in Nat \ {0}
ASSUME CheContentAssumption ==
    CheContent \in [1..MaxVersion -> Dumps \cup {Broken}]

CheVersions == 1..MaxVersion
NoEtag == 0     \* the random ETag of a new table: no version has it

VARIABLES remote,  \* the version behind the URL
          etag,    \* self.etag
          dbEtag,  \* che.etag
          dbXml,   \* che.xml_sha256
          chePc,
          got,     \* the answer under way: its version and what was received
          hit,     \* versions struck by a failure after self.etag was set
          cheFaults

etagVars == <<etag, dbEtag, dbXml>>
cheVars == <<remote, etagVars, log, chePc, got, hit, cheFaults>>

CheTypeOK ==
    /\ remote \in CheVersions
    /\ etag \in CheVersions \cup {NoEtag} /\ dbEtag \in CheVersions \cup {NoEtag}
    /\ dbXml \in Dumps \cup {NULL}
    /\ log \subseteq Dumps \ Forged
    /\ chePc \in {"idle", "download", "save", "unzip", "mark", "store"}
    /\ got \in [version : CheVersions, xml : Dumps \cup {Broken}]
    /\ hit \subseteq CheVersions
    /\ cheFaults \in 0..MaxFaults

CheInit ==
    /\ remote = 1
    /\ etag = NoEtag /\ dbEtag = NoEtag /\ dbXml = NULL
    /\ log = {} /\ chePc = "idle"
    /\ got = [version |-> 1, xml |-> Broken]
    /\ hit = {} /\ cheFaults = 0

-----------------------------------------------------------------------------
Publish ==
    /\ remote < MaxVersion
    /\ remote' = remote + 1
    /\ UNCHANGED <<etagVars, log, chePc, got, hit, cheFaults>>

CheOtherDonor(d) ==
    /\ chePc = "idle"
    /\ OtherStores(d)
    /\ UNCHANGED <<remote, etagVars, chePc, got, hit, cheFaults>>

\* list_handles(): If-None-Match; the answer is a stream of this version.
Request ==
    /\ chePc = "idle" /\ remote # etag
    /\ got' = [version |-> remote, xml |-> CheContent[remote]]
    /\ chePc' = "download"
    /\ UNCHANGED <<remote, etagVars, log, hit, cheFaults>>

\* The body is read to its end, and the ETag is taken over.  A connection that
\* is cut ends the body early and raises nothing.
CheDownload ==
    /\ chePc = "download"
    /\ etag' = got.version
    /\ \/ UNCHANGED <<got, hit, cheFaults>>
       \/ /\ cheFaults < MaxFaults /\ cheFaults' = cheFaults + 1
          /\ got' = [got EXCEPT !.xml = Broken]
          /\ hit' = hit \cup {got.version}
    /\ chePc' = "save"
    /\ UNCHANGED <<remote, dbEtag, dbXml, log>>

\* Faulty: the ETag is taken over before the body is read.
CheDownloadFailLate ==
    /\ chePc = "download"
    /\ cheFaults < MaxFaults /\ cheFaults' = cheFaults + 1
    /\ etag' = got.version
    /\ chePc' = "idle"
    /\ UNCHANGED <<remote, dbEtag, dbXml, log, got, hit>>

\* Reading raises: nothing is taken over.
CheDownloadFail ==
    /\ chePc = "download"
    /\ cheFaults < MaxFaults /\ cheFaults' = cheFaults + 1
    /\ chePc' = "idle"
    /\ UNCHANGED <<remote, etagVars, log, got, hit>>

\* Faulty: the hash of the last version is left in the table.
KeepXml(xml) == xml

\* UPDATE che SET etag = ?, last_modified = ?, xml_sha256 = NULL
Forget(xml) == NULL

SaveEtag ==
    /\ chePc = "save"
    /\ dbEtag' = etag /\ dbXml' = Forget(dbXml)
    /\ chePc' = "unzip"
    /\ UNCHANGED <<remote, etag, log, got, hit, cheFaults>>

CheUnzip ==
    /\ chePc = "unzip"
    /\ chePc' = IF got.xml = Broken THEN "idle" ELSE "mark"
    /\ UNCHANGED <<remote, etagVars, log, got, hit, cheFaults>>

\* UPDATE che SET xml_sha256 = ?
CheMark ==
    /\ chePc = "mark"
    /\ dbXml' = got.xml
    /\ chePc' = "store"
    /\ UNCHANGED <<remote, etag, dbEtag, log, got, hit, cheFaults>>

CheStore ==
    /\ chePc = "store"
    /\ log' = Stored(got.xml)
    /\ chePc' = "idle"
    /\ UNCHANGED <<remote, etagVars, got, hit, cheFaults>>

\* One of the steps after the download raises.
Raise ==
    /\ chePc \in {"save", "unzip", "mark", "store"}
    /\ cheFaults < MaxFaults /\ cheFaults' = cheFaults + 1
    /\ hit' = hit \cup {got.version}
    /\ chePc' = "idle"
    /\ UNCHANGED <<remote, etagVars, log, got>>

\* DonorChe(): the ETag is read from the table.
Remembered(inMemory) == dbEtag

\* The process is killed and started again.  A version that the table does not
\* know yet is asked for anew, whatever has happened to it.
CheRestart ==
    /\ cheFaults < MaxFaults /\ cheFaults' = cheFaults + 1
    /\ etag' = Remembered(etag)
    /\ hit' = IF chePc \in {"unzip", "mark", "store"}
                THEN hit \cup {got.version} ELSE hit \ ({etag} \ {dbEtag})
    /\ chePc' = "idle"
    /\ UNCHANGED <<remote, dbEtag, dbXml, log, got>>

-----------------------------------------------------------------------------
\* What the loop does in a turn of Che.
CheTurn ==
    \/ Request \/ CheDownload \/ CheDownloadFail
    \/ SaveEtag \/ CheUnzip \/ CheMark \/ CheStore
    \/ Raise

CheNext ==
    \/ Publish
    \/ \E d \in Dumps : CheOtherDonor(d)
    \/ CheTurn
    \/ CheRestart

CheSpec == CheInit /\ [][CheNext]_cheVars

-----------------------------------------------------------------------------
(* Properties                                                              *)

\* "FIXME: if something fails between etag update and git commit then the file
\* may be lost."  That is the only way to lose it: between two requests the
\* last version asked for is in the archive, was no zip or forged, or was struck
\* by such a failure.
LostOnlyByFailure ==
    chePc = "idle" /\ etag # NoEtag =>
        \/ CheContent[etag] \in log \cup Forged \cup {Broken}
        \/ etag \in hit

\* The hash in the table is the one of the version in the table: a hash that
\* was left over would report the update time of an older dump as Che's.
XmlBelongsToEtag == dbXml # NULL => dbEtag # NoEtag /\ dbXml = CheContent[dbEtag]

\* The version that stays behind the URL is archived if it is a genuine dump
\* and no failure strikes it after its download.
CheEventuallyArchived ==
    \A v \in CheVersions :
        (CheContent[v] \in Dumps \ Forged /\ <>[](remote = v /\ v \notin hit))
            => <>(CheContent[v] \in log)
=============================================================================
