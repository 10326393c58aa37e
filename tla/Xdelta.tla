------------------------------- MODULE Xdelta -------------------------------
(***************************************************************************)
(* A difference on its way from giweb to the indexer.  /xdelta/from/to     *)
(* (rkndex/giweb.py) looks it up in a disk cache, makes and stores it      *)
(* first if it has to, and sends what the cache has then; main_alldiff()   *)
(* (rkndex/index_diff.py) asks for it, and feeds the old and the new half  *)
(* of the records to two XML parsers.  git, the cache that another worker  *)
(* or /cache_cull may empty, and the connection fail at any time.          *)
(***************************************************************************)
EXTENDS ContentDiff

CONSTANTS Pairs,     \* the differences that are asked for
          MaxFaults  \* bound on failures and evictions

ASSUME PairsAssumption == Pairs \subseteq Files \X Files /\ Pairs # {}
ASSUME MaxFaultsAssumption == MaxFaults \in Nat

VARIABLES pc,
          ask,     \* the difference that was asked for last
          cache,   \* the disk cache
          body,    \* the records that are received
          next,    \* how many of them are read
          parser,  \* p1 and p2
          diff,    \* what make_content_iter_from_xdelta() yielded
          faults

readVars == <<body, next, parser, diff>>
vars == <<diffVars, pc, ask, cache, readVars, faults>>

Content == 1..MaxId

TypeOK ==
    /\ DiffTypeOK
    /\ pc \in {"idle", "diff", "get", "read", "ok", "refused"}
    /\ ask \in Pairs
    /\ DOMAIN cache \subseteq Pairs
    /\ \A p \in DOMAIN cache : cache[p] \in Seq(Record)
    /\ body \in Seq(Record) /\ next \in 0..Len(body)
    /\ parser \in {"none", "open", "closed", "error"} \X {"none", "open", "closed", "error"}
    /\ diff \subseteq [key : Content, old : Blobs \cup {Empty}, new : Blobs \cup {Empty}]
    /\ faults \in 0..MaxFaults

Init ==
    /\ ask \in Pairs /\ DiffInit(ask[1], ask[2])
    /\ pc = "idle" /\ cache = <<>>
    /\ body = <<>> /\ next = 0
    /\ parser = <<"none", "none">> /\ diff = {}
    /\ faults = 0

-----------------------------------------------------------------------------
(* giweb: open_xdelta_fd()                                                 *)

\* b'XD' + from_sha1 + to_sha1
CacheKey(p) == p

\* The indexer asks; the two `git cat-file` are started if the cache has not
\* got it.  What came of the last request is forgotten.
Request(p) ==
    /\ pc \in {"idle", "ok", "refused"}
    /\ ask' = p
    /\ DiffStart(p[1], p[2])
    /\ pc' = IF CacheKey(p) \in DOMAIN cache THEN "get" ELSE "diff"
    /\ body' = <<>> /\ next' = 0
    /\ parser' = <<"none", "none">> /\ diff' = {}
    /\ UNCHANGED <<cache, faults>>

MakeDiff ==
    /\ pc = "diff"
    /\ DiffNext
    /\ UNCHANGED <<pc, ask, cache, readVars, faults>>

\* Both git processes were successful: the file goes to the cache.
CacheSet ==
    /\ pc = "diff" /\ Finished
    /\ cache' = [p \in DOMAIN cache \cup {CacheKey(ask)} |->
                   IF p = CacheKey(ask) THEN out ELSE cache[p]]
    /\ pc' = "get"
    /\ UNCHANGED <<diffVars, ask, readVars, faults>>

\* Faulty: the file goes to the cache when the block is left, also by an
\* exception.
DiffFailCached ==
    /\ pc = "diff"
    /\ faults < MaxFaults /\ faults' = faults + 1
    /\ cache' = [p \in DOMAIN cache \cup {CacheKey(ask)} |->
                   IF p = CacheKey(ask) THEN out ELSE cache[p]]
    /\ pc' = "idle"
    /\ UNCHANGED <<diffVars, ask, readVars>>

\* A git process fails, a parser finds a dump that ends early, the disk is
\* full: the temporary file is gone.
DiffFail ==
    /\ pc = "diff"
    /\ faults < MaxFaults /\ faults' = faults + 1
    /\ pc' = "idle"
    /\ UNCHANGED <<diffVars, ask, cache, readVars>>

\* The cache is culled, by this request's own set(), by another worker or by
\* /cache_cull.
Evict(p) ==
    /\ faults < MaxFaults /\ faults' = faults + 1
    /\ cache' = [q \in DOMAIN cache \ {p} |-> cache[q]]
    /\ UNCHANGED <<diffVars, pc, ask, readVars>>

\* The file is sent.  If the connection is cut, the gzip stream ends early and
\* read_content_diff() raises, unless not even its first byte has arrived.
Send ==
    /\ pc = "get" /\ CacheKey(ask) \in DOMAIN cache
    /\ \/ body' = cache[CacheKey(ask)] /\ pc' = "read" /\ UNCHANGED faults
       \/ /\ faults < MaxFaults /\ faults' = faults + 1
          /\ body' = <<>> /\ pc' \in {"read", "refused"}
    /\ UNCHANGED <<diffVars, ask, cache, next, parser, diff>>

\* get() returns None and send_file() raises.
SendNothing ==
    /\ pc = "get" /\ CacheKey(ask) \notin DOMAIN cache
    /\ pc' = "refused"
    /\ UNCHANGED <<diffVars, ask, cache, readVars, faults>>

-----------------------------------------------------------------------------
(* The indexer: make_content_iter_from_xdelta()                            *)

\* A dump of one piece: its PROLOGUE has the closing tag.
Whole(blob) == \E f \in Files : Len(f) = 1 /\ f[1].blob = blob

\* expat is fed a piece: a document has one root and nothing behind it.
Parsed(state, k, blob) ==
    IF blob = Empty \/ state = "error" THEN state
    ELSE IF k = PROLOGUE /\ state = "none"
      THEN IF Whole(blob) THEN "closed" ELSE "open"
    ELSE IF k # PROLOGUE /\ state = "open"
      THEN IF k = EPILOGUE THEN "closed" ELSE "open"
    ELSE "error"

\* One record.  Both parsers are done with it when parse() returns.
ReadRecord ==
    /\ pc = "read" /\ next < Len(body)
    /\ LET r == View(body[next + 1])
       IN  /\ parser' = <<Parsed(parser[1], r.key, r.old),
                          Parsed(parser[2], r.key, r.new)>>
           /\ diff' = IF r.key \in Content THEN diff \cup {r} ELSE diff
    /\ next' = next + 1
    /\ pc' = IF "error" \in Range(parser') THEN "refused" ELSE "read"
    /\ UNCHANGED <<diffVars, ask, cache, body, faults>>

SeenEpilogue == \E i \in DOMAIN body : body[i].key = EPILOGUE

\* Faulty: the parsers are not told that the document has ended,
Unchecked(state) == TRUE

\* or are always given the closing tag.
CompleteTwice(state) == state = "open"

\* parse(b'' or b'</reg:register>', is_final=True)
Complete(state) == state = (IF SeenEpilogue THEN "closed" ELSE "open")

ReadEnd ==
    /\ pc = "read" /\ next = Len(body)
    /\ pc' = IF Complete(parser[1]) /\ Complete(parser[2]) THEN "ok" ELSE "refused"
    /\ UNCHANGED <<diffVars, ask, cache, readVars, faults>>

-----------------------------------------------------------------------------
Next ==
    \/ \E p \in Pairs : Request(p) \/ Evict(p)
    \/ MakeDiff \/ CacheSet \/ DiffFail
    \/ Send \/ SendNothing
    \/ ReadRecord \/ ReadEnd

Spec == Init /\ [][Next]_vars

\* A request is sequential code; main_alldiff() asks again, in random order,
\* for what it could not ingest.
FairSpec ==
    /\ Spec
    /\ \A p \in Pairs : SF_vars(Request(p))
    /\ WF_vars(MakeDiff) /\ WF_vars(CacheSet)
    /\ WF_vars(Send) /\ WF_vars(SendNothing)
    /\ WF_vars(ReadRecord) /\ WF_vars(ReadEnd)

-----------------------------------------------------------------------------
(* Properties                                                              *)

\* The cache never holds half a difference, nor one of other dumps or of the
\* other direction: it would be served for months.
CacheHoldsDeltas == \A p \in DOMAIN cache : IsDelta(cache[p], p[1], p[2])

\* What the indexer has read to the end is every <content/> that differs, as
\* both dumps have it, also when the body was cut.
ReaderGetsContents ==
    pc = "ok" => diff = {d \in Difference(ask[1], ask[2]) : d.key \in Content}

\* The records of contents that only one dump lists follow the EPILOGUE, and
\* are not XML any more if the EPILOGUE is among the records of both dumps.
EpilogueBeforeRest(p) ==
    LET d == Difference(p[1], p[2])
    IN  /\ \E r \in d : r.key = EPILOGUE /\ Empty \notin {r.old, r.new}
        /\ \E r \in d : r.key \in Content /\ Empty \in {r.old, r.new}

\* A difference can be asked for until it was read: neither a failure nor an
\* eviction makes it unavailable for good.
EventuallyRead ==
    \A p \in Pairs : ~EpilogueBeforeRest(p) => []<>(pc = "ok" /\ ask = p)
=============================================================================
