# rkndex: specifications, model checks and proofs

rkndex keeps, for good, every dump of the Russian blocklist that it can get
hold of.  `rkngitar` downloads signed dumps from three donors, commits each one
to a git repository and mirrors the repository to GitHub; `giweb` serves the
dumps and their differences over HTTP; `rkndexer` turns the differences into a
PostgreSQL history; `resolv-ar` archives lists of resolved names.  This directory
has TLA+ modules for the parts of it whose correctness depends on order, failure
and restarts, the TLC configurations that check them, and proofs of the most
important invariants.

    tlc -config archive.cfg MCArchive.tla           # one model-checking run
    tlapm ArchiveProofs.tla                         # one module of proofs

`PROJECT.json` lists the runs, the theorems, the hazards, and the source lines
behind every definition; for every property it also names a mutant, a plausible
bug (the definitions commented *Faulty:*) with which TLC finds the property
violated.

## 1. Inventory

| Component | Source | State it keeps | Operations | Module |
|---|---|---|---|---|
| copy of `git log` | `rkndex/gitarlog.py` | sqlite: `log`, `head`, `log100`, `main100` | `poll_fs()` | `GitarLog` |
| archiver loop | `rkngitar` `donors_loop`, `commit_files`; `rkndex/util.py` `schedule_every` | git HEAD, list of handles of a turn | list, fetch, check, commit, poll, startup | `Archive`; `ZipDonors` with two of the donors |
| GitHub mirror | `rkngitar` `github_loop`, `git_commit_100` | branch `BRANCH_100`, the remote | select missing, commit, poll, push | `GithubMirror` |
| donor EAIS | `rkndex/donor_eais.py`, `eais_upload_from_git` | sqlite: `eais`, `eais_deleted`; time of the last full listing | full and incremental listing, fetch, upload | `DonorEais` |
| donor Zavod | `rkndex/donor_zavod.py` | sqlite: `zavod` | listing, fetch in two transactions | `DonorZavod` |
| donor Che | `rkndex/donor_che.py` | ETag in memory, sqlite: `che` | conditional request, fetch | `DonorChe` |
| HTTP API | `rkndex/giweb.py` | a `GitarLog` per request, xdelta cache on disk | requests | `Xdelta`; its requests are pollers of `GitarLog` |
| list of dumps | `rkndex/index_list.py`, `ndx.sql` | PostgreSQL: `known_dump`, `known_diff` | paged listing, refresh of neighbours | `Indexer` |
| ingestion of diffs | `rkndex/index_diff.py`, `rkndexer` | PostgreSQL: `content`, `ingested_diff` | one transaction per pair | `Indexer` |
| content diff | `rkndex/iterdiff.py`, `filediff.py`, `index_diff.py` (reader) | pieces in memory, records | slicing, cancelling of common contents, writing, reading | `ContentDiff`, `Xdelta` |
| resolver archive | `resolv-ar` | git repository, list of processed files | init, commit of a file, list, push | `ResolvArchive` |
| history tools | `git-sort`, `git-split-dump` | none, run by hand | reorder, split | not modelled |
| exporter | `usher2_exporter` | gauges | poll and export | not modelled |
| build and deployment | `Makefile`, `Dockerfile.*`, `perf/` | none | none | not modelled |

How they interact:

- `donors_loop()` is one thread.  It gives the donors their turns in a cycle
  (`schedule_every`), asks a donor for at most 5 handles, and for each of them
  fetches, asks the sqlite copy of the log whether the dump is known, verifies
  and commits it, and calls `poll_fs()`.  A turn of EAIS ends with an upload and
  with `github_loop()`; a handle of another donor ends with an upload to EAIS.
- All tables but those of giweb are in one sqlite file of one process; donors
  read the table `log` of the copy.  git is the source of truth, the copy is
  derived from it.
- giweb has a copy of its own in `/tmp/gitar.db`, and every request polls it.
- The indexer talks to giweb and PostgreSQL only; it is one thread.  It asks giweb
  for the list of dumps and for one difference at a time, which giweb makes from
  two `git cat-file` and keeps in a disk cache.
- resolv-ar shares nothing with the others: another process fills its spool.

What is hard about them:

- *Two stores that change in two steps.*  `git update-ref` and the transaction
  of `poll_fs()` cannot be atomic; the duplicate check relies on the second
  while the damage is done in the first.
- *Reads before the lock.*  `poll_fs()` reads the refs before it opens its
  transaction; other processes may poll in between.
- *Remote state that changes between two requests*: pages of EAIS, the listing
  of Zavod and the zips behind it, the file of Che.
- *Failures that are caught and logged.*  Nearly every step of the loop sits in
  a `try`; the loop goes on with whatever the step left behind.
- *Streams that end early.*  A difference is made from two pipes, stored, sent and
  parsed while each side may be cut at any byte.
- *Order.*  Dumps are found in any order, while `git log --since` and the
  incremental listing of EAIS rely on one.

What makes each component correct:

- copy: it is the log of the ref it stores, its refs never go back, it catches up;
- archive: append-only, only verified dumps, no dump twice, after any failure;
- mirror: the same dumps in the same order, none skipped, nothing stuck, pushed;
- EAIS: listings are exact, everything it keeps is archived, everything others
  brought is uploaded, nothing that was deleted comes back;
- Zavod: broken files are given up after the tries, and not before; good ones are
  archived; Che: a version is lost only in the window its FIXME admits;
- list of dumps: complete, each dump once, neighbours are neighbours in time;
  ingestion: the history of a content is the same in whatever order pairs come;
  content diff: it is the set difference, whatever the chunks;
- xdelta cache: what is served is the delta of the two dumps asked for;
- resolver archive: every file is committed, once, and the list names all of them.

## 2. Modules

### GitHistory
What the other modules share: a branch is a sequence (every commit of the
program has one parent), a ref is the length of the history it points at.
`Rows` is what a complete copy holds, `LogRange` is `git log a..b`, `CommitsOf` counts
its commits of a dump, `Insertable` says that sqlite's UNIQUE does not refuse the range.

### LogCopy
What the sqlite copy promises to those who ask it instead of git: a poll is as good
as one step (`Poll`), which brings the rows from one commit of the history to a
later one, or to the same.  `GitarLog` refines it, `Archive` relies on it and passes
it on.

### GitarLog
Any number of pollers of one database, with the refs moving under them.
`ReadHead` and `ReadHead100` are the two `git rev-parse`, `CommitPoll` is the
transaction with both inserts and both stored refs, `RollbackPoll` is the same
when UNIQUE refuses a row, `PollFail` is everything else that can end a poll (git
cannot be run, the database stays locked, a kill), all of it rolled back; each of
them ends with `EndPoll`.  `log100` counts rows (`CommitsOf`), since that table has no
UNIQUE.  `Commit` and `Commit100` store any dump at any time, also one that the branch
has: rkngitar asks table `log` of its database whether a dump is known and table
`log100` what is mirrored, not git, and either may be behind after a poll that failed;
the database of giweb is not asked at all.  That is more than rkngitar does;
`Archive` and `GithubMirror` have its questions and say when it repeats a commit.
`overlap` remembers that a poll began while another one was going on.  What a
commit body says beyond the dump it names is left out.  `Copy` and `Copy100` are
instances of `LogCopy`, one for each branch; `PollsAreAtomic` says that a step of a
poll is one of theirs, or nothing, unless polls overlap.

### AppendOnce and Archive
`AppendOnce` is the promise: items are added at the end and none twice.
`Archive` is `donors_loop()`: `Startup`, `ListHandles`, `Fetch`, the check and
`Store` (or `Known`, `StoreFail`), `Poll`, the end of a turn, `github_loop()` as
far as it polls, and `Crash` at any point.  A handle is a pair of what the donor
claims and what it serves; EAIS may serve anything.  `PollRaises` is a
`poll_fs()` that raises while the process lives, at any time.  Two history
variables say up to where the code keeps its promise: `raised`, that some poll
has raised on its own, and `kept`, what git held until then.
`ImplementsArchive` is the refinement of `AppendOnce`, with `entries <- kept` and
`Items <- Genuine`; `ImplementsCopy` is that of `LogCopy`, with `history <- git`.
A poll is one step here, which is what `GitarLog` shows of a single poller.

### GithubMirror
`StartBatch` computes what is missing from the sqlite copy, finds it with
`git log --since` (`LogSince`) and needs the assertion to hold; then
`CommitMirror` and `Poll` alternate until the list or the 300 s are over, and
`Push` publishes.  `Raise` and `Restart` cut a pass short, and so does
`PollRaises`, which leaves the copy behind the branch and sets the history
variable `raised`.  HEAD does not move during a pass, which shares the thread of
`donors_loop()`.  The constant `Ordered` says whether dumps are committed in the
order of their signatures.

### ContentDiff and Xdelta
`ContentDiff` is `iter_content_diff()` with the writer behind it.  A dump is a
sequence of pieces: PROLOGUE, a piece for each `<content/>`, EPILOGUE.  `Pump` is
one round of reading both pipes, `Close` ends both parsers, `Pop` takes a common
key out of both dictionaries, `Deleted` and `Added` flush what is left, old dump
first.  A record is written as a delta only if the delta decodes (`Magic`), and
`View` is what the reader makes of it.  Bytes are abstracted to pieces: which of
them a chunk completes is left open, so that every chunking is covered.  The
reference is `Difference`, over the dumps as functions from keys to contents.

`Xdelta` is the way of such a difference: `Request` looks it up in the cache of
giweb, `MakeDiff` runs `ContentDiff`, `CacheSet` stores it once both git processes
were successful, `Send` and `SendNothing` serve what the cache has *then*;
`ReadRecord` and `ReadEnd` are `make_content_iter_from_xdelta()`, which feeds the
old and the new half to two XML parsers.  `DiffFail`, `Evict` and a `Send` that is
cut are the faults.

### ResolvArchive
`resolv-ar` and its spool.  `GitInit` and `GitZero` are the two halves of
`git_init()` that a kill may separate, `Start` reads from git what is done, `Scan`
is a pass: `Known`, `Store`, `Mark` (the list of processed files), `Repack`, and
`Push` behind the last file.  Each has an action in which it raises and so ends
the pass (`EndPass`), and `Kill` may come anywhere.  A file is in the spool before
it is complete, and files in `Broken` never unpack.  `promPort` says whether the
process was started with `--prom-port`, which decides whether it starts at all on
an empty archive.  It implements `AppendOnce` too.

### Indexer
`rkndexer --daemon`.  `Start` compares the digests, `ListPage` is one request of
the paged listing, and the last one inserts into `known_dump` and refreshes
`known_diff`; `Ingest` is the transaction of one pair, `Refused` the assertion or
a UNIQUE constraint that ends `main_alldiff()`, `Fail` a request, an error of the
database or a kill.  A dump is a function from items to their `ts`; an item stands
for a url, domain or address with all that the UNIQUE columns of `content` take
of its `<content/>`.  Digests (XOR of hashes) are compared as the sets they stand
for, and the batches of 100 pairs, which come in random order until none is left,
as a free choice of the next pair.

### DonorEais, Donor, DonorZavod, DonorChe
A donor's tables together with the service behind them and the archive it feeds.

- `DonorEais`: `Page` is what EAIS answers, `Inserted` what INSERT OR IGNORE makes of
  it in the order of update times (`InOrder`).  `StartFull` and `FullPage` are a
  full listing, one action per request, of random page size; it fills `table`,
  which becomes `eais` when the transaction commits.  `ListSinceMax` is
  the listing between two full ones.  The handles of a turn are a set, the first rows
  that the archive lacks (`FirstWithout`, like what may be uploaded), taken in
  the order of the table (`IsNext`).  `FetchAndStore` and `Skip` deal with a handle,
  `ChooseUpload`, `OtherDonor`, `Post` and `Record` with the two ways to
  upload.  EAIS gains and loses dumps at any time.
- `DonorZavod`: the table is a function on the names that have a row; `ListHandles`
  is its one transaction, and since its SELECT has no ORDER BY the handles are any
  `Limit` of the rows it wants, taken in any order.  A fetch is `ZavodDownload`
  (counts the fetch), `ZavodUnzip`, `ZavodMark` (stores the hash) and `ZavodStore`,
  with a kill possible between them.
- `DonorChe`: `Request`, `CheDownload` (takes the ETag over in memory), `SaveEtag`,
  `CheUnzip`, `CheMark`, `CheStore`; a connection that is cut ends the body without
  an error.
- `Donor` is what the last two have in common: the archive they feed (`log`), which
  refuses a forged dump and never has one twice (`Stored`), and what the others
  bring (`OtherStores`).

### ZipDonors
`donors_loop()` with Zavod and Che, whose names are distinct so that both modules can
be extended: one archive, one process, and a turn at a time (`MayRun`).  What each
donor takes for the doings of others is here what the other one does (`Turn`) and
what EAIS brings (`Eais`); `Restart` kills both.  `EachAsAlone` says that the loop
implements `ZavodSpec` and `CheSpec`.  Che is only checked in the loop.

Variables without a counterpart in the code record what a property needs:
`base` and `ever` in `DonorEais` (empty between full listings), `spent` in `DonorZavod`, `hit` in `DonorChe`,
`overlap` in `GitarLog`, `raised` and `kept` in `Archive`, `raised` in `GithubMirror`.
`faults`, `losses` and `changes` are bounds.

## 3. Runs

| Run | What it shows |
|---|---|
| `gitarlog` | Two pollers, three dumps, 3 commits of HEAD and 2 of the mirror, which may be of the same dump, any poll of which may fail: the table never has a gap (`LogIsPrefix`), whoever races with whom; as long as no two polls overlap the copy is exactly the history of its stored refs, with a row for every mirrored commit (`CacheMatchesHead`), a poll is one step of `LogCopy` for either branch (`PollsAreAtomic`), and everything gets into it unless a dump was committed twice (`CatchesUpAlone`). |
| `gitarlog_stale_head` | **Violation** of `CatchesUp` with two pollers and two different dumps, see below. |
| `archive` | Three donors, three genuine dumps and a forged one, lists of two, any number of failures, kills and polls that raise.  Up to the first such poll: `GuardIsFresh`, `ImplementsArchive`, `CommitsReachLog`.  After it, a dump is committed again only while the copy is behind git (`DuplicateOnlyBehind`), and nothing but a second commit makes UNIQUE refuse a poll (`StuckOnlyByDuplicate`); the copy is always git as it was at some commit (`ImplementsCopy`). |
| `mirror_ordered` | Five dumps committed in the order of their signatures, passes cut after any commit, three faults of which a poll may be one: `TodoCoversMissing`, `MirrorIsPrefix`, `RepeatedOnlyBehind`, `EventuallyMirrored`, `PublishedByNextDump`. |
| `mirror_partial_batch` | **Violation** of `AssertionPasses` with three misordered signatures. |
| `eais_sync` | Three dumps, of which one never passes the checks as EAIS has it and is in `eais_deleted`, and the other two compete for one row of `get_uploadable()`; pages of one or two, a fault and a loss: `FullListingExact`, `DeletedStaysDeleted`, `EventuallyArchived`, `OthersUploaded`. |
| `zavod_fetch` | Two names; a good, a forged and a broken zip, of different sizes; two changes of the page and a fault anywhere: `BrokenZipGivesUp`, `GivesUpLate`, `ZavodEventuallyArchived`. |
| `indexer` | Four dumps that arrive in any order, one item that comes, changes, goes and comes back, pages of two or three, two faults: `InOrderPairsAreNeighbours`, `HistoryReplays`, `KnowsAll`, `IngestedWithNextDump`. |
| `indexer_late_dump` | **Violation** of `PairsAreNeighbours` with a dump that is archived late. |
| `xdelta` | Five dumps, pairs of which differ in every way (also in PROLOGUE and EPILOGUE), a delta that does not decode, any chunks, two faults: `DeltaIsDifference`, `CacheHoldsDeltas`, `ReaderGetsContents`, `EventuallyRead`. |
| `resolv` | Four files that arrive in any order, one of them broken, three failures or kills anywhere: `ImplementsArchive`, `MarkerIsArchive`, `EventuallyArchived`, `EventuallyPushed`. |
| `zip_donors` | Zavod with one name and Che with four versions (a dump, a broken zip, a forged dump, another dump) in one loop, where both have one of the dumps; a change of the page, two faults of each donor: `LostOnlyByFailure`, `XmlBelongsToEtag`, `EachAsAlone`, `CheEventuallyArchived`. |

### What the violations say
1. `gitarlog_stale_head` (`gitarlog.py:25`).  Poller A reads HEAD; a commit is
   made; B polls and stores the new head; A's transaction inserts nothing and
   stores its old head.  From then on the range `old..HEAD` contains a row that
   exists, so that every poll is rolled back.  It takes two processes on one
   database: rkngitar has one, and giweb as well as long as gunicorn runs with
   one worker, which is the default the Makefile leaves.
2. `mirror_partial_batch` (`rkngitar:388`).  With signatures `2, 1, 3` in git and a
   pass that ended after mirroring the oldest, 2 and 3 are missing; `--since=@2`
   finds 3 and stops at 1, and the assertion of line 394 fails (`AssertionPasses`).
   It fails in the next passes too, until a dump comes that is older than 1 and
   moves `min(missing)` back.  If the commit at HEAD is itself older than all that is
   missing (git has `2, 1`), `git log` prints nothing, and line 390 raises
   before the assertion, since an empty output is one "line" that has no three
   parts.  `TodoCoversMissing`, which `mirror_ordered` checks, excludes both.
3. `indexer_late_dump` (`index_list.py:81`).  `row_number() OVER ()` numbers the rows
   as the table has them (PostgreSQL 12 reads it from its beginning), so that a
   dump that comes late is paired with the youngest of those before it, and that
   pair goes back in time.  `index_diff.py:194` asserts that none does:
   `main_alldiff()` gives up each time this pair comes up, and the daemon calls it
   again only when there is a new dump.

More defects, which no run asserts the absence of:

- `rkngitar:354`: if `poll_fs()` raises after a commit and the process lives on,
  the copy lacks the commit, the next donor offers the same dump, and it is
  committed again; then UNIQUE makes all later polls fail, also after a restart.
  `archive` pins down when this can happen.
- `rkngitar:400`: likewise on the mirror, where table `log100` has no UNIQUE: the dumps
  that the copy lacks are mirrored again, and nothing gets stuck
  (`RepeatedOnlyBehind`, `EventuallyMirrored`).
- `rkngitar:479`: the mtime of a signature that came from EAIS is NULL, and
  `os.utime(dest, (None, None))` raises, so that a dump EAIS loses again is never
  uploaded, unless another donor brings it.  It also keeps its row in the `LIMIT 10` of
  `get_uploadable()`; ten of them leave no row to any other dump, and the uploads of
  the EAIS turn are over for good (`Blocked`).  `OthersUploaded` is about the rest: without
  `Blocked` TLC finds it violated, with one row and one lost dump.
- `iterdiff.py:112`: contents that only one dump has are written behind the
  EPILOGUE, if that differs.  The reader then feeds its parser elements behind the
  root, and refuses the pair for ever.  `EventuallyRead` leaves such pairs out
  (`EpilogueBeforeRest`); as long as every dump ends with the same tag there are
  none, and `ZERO_XML`, which is one piece, has no EPILOGUE.
- `resolv-ar:230`: a file that does not unpack ends every pass before all younger
  files, and before the push (`EventuallyArchived`, `EventuallyPushed`).
- `resolv-ar:52` and `:226`: after a kill between `git init` and `update-ref`, and on an
  empty archive with `--prom-port` (`max()` of no file), `main()` ends before its loop
  in every such start; `NeverStarts` names both states.
- `ndx.sql:59` says that a difference that touches `ip.ts` only may have no row in
  `content`; `index_diff.py:237` writes them, as `Written` does.
- `resolv-ar:210`: after a failure between the commit and the list, the list lags
  until the next file is stored; then it is complete again (`MarkerIsArchive`).

### Bounds, and why they are enough
- Three dumps are the least with which a range has a first, a middle and a last
  commit, and two the least for a duplicate.  Two pollers suffice for any race
  between two reads and a transaction.  `MaxCommits` and `MaxMirrored` of `gitarlog`
  leave room for a second commit of a dump on either branch, with another one
  between them on HEAD.
- `Limit` is 2: a list that is full, one that is not, and two entries that are the
  same dump.  The donors of `archive` are in the order of the container.
- `MaxCommits` of `archive` is one above the genuine dumps, so it never hides a
  duplicate: everything is checked with room for one.
- Pages of one and two of three dumps give listings that end on a full page, on a
  short one and on an empty one.
- `MaxFaults`, `MaxLosses` and `MaxChanges` make faults finitely many, which the
  liveness properties need; they may fall anywhere, one after the other.
- `PublishedByNextDump` speaks of the time after the last fault of the bound.
- Four dumps of the indexer leave room for one that is late and has neighbours on
  both sides; pages of two and three of them give one to three requests.  Update
  times are distinct, which `known_dump` demands (`ndx.sql:44`: "MAY be eventually
  wrong"), and a page has room for two dumps.
- Zavod: `MaxFaults < Tries` for `ZavodEventuallyArchived`, since kills use up tries
  (with as many kills as tries a good file is given up, which is what the option
  means); sizes of versions are distinct, since a file replaced by one of the same
  size is not noticed; fewer forged files than `Limit`.
- `zip_donors`: Che's versions make every answer to a zip (good, broken, refused, good
  again), and two faults a kill behind a failure; one name of Zavod is enough for what
  the donors see of each other, its list is checked in `zavod_fetch`.
- EAIS: fewer bad dumps than `Limit`, since they keep their places in the list; one
  row (`UploadLimit`) for two dumps that may be uploaded, so that one of them waits
  for the other, or for ever if that one came from EAIS and was lost (`Blocked`);
  update times are distinct (the code accepts, at `donor_eais.py:110`, that equal
  ones could be split by a page).  Mirror: signing times are distinct.
- The pairs of `xdelta` have contents that are changed, added, lost, and listed in
  another order; `ZERO_XML`; both directions; a change of EPILOGUE with and without
  contents that only one dump has.  The prologues of the two dumps of a pair
  differ, as those of real dumps do, which name their update time.
- `resolv`: the broken file has older and younger ones; three faults allow a kill in
  `git_init()`, one behind a commit and a failing push in one behaviour.
- All types are proved (`TypeCorrect`, `ZavodTypeCorrect`, `CheTypeCorrect`), and only
  those of `DonorEais` and `Indexer`, which say that no table has a dump twice, are
  checked as well.
- `CHECK_DEADLOCK FALSE` is said where the modelled part may really come to rest:
  `github_loop()` with nothing missing, giweb with nothing new, and in
  `archive` a program that cannot start any more, since the first `poll_fs()` of
  `main()` raises after a dump was committed twice.

### Fairness
The loop is one thread that `schedule_every` never lets rest, each `try` lets it
go on, and the container restarts it: so every step of the sequential code is
weakly fair, as are `Startup` and the two ways a handle ends.
Strong fairness is used in four places.  A poll that is tried over and over does
not fail every time for reasons outside the program (`GitarLog`).  The turn of
EAIS comes again and again although `freshness_limit` may pass in between, and
`random.choice()` does not avoid a candidate for ever (`DonorEais`); likewise the turns
of donors in one loop (`ZipDonors`), where each makes the other one wait.
In `Xdelta` every pair is asked for again until it is read, which is an assumption
about the client: `main_alldiff()` does ask again, in random order, for every pair it
could not ingest, but only with the next change of the list (`IngestedWithNextDump`).
resolv-ar is restarted like the others, and the writer of its spool
finishes the file it has begun.  No donor is assumed to answer, and no request to
arrive at a particular time.

## 4. Proofs

For every value of the constants, checked by TLAPS:

| Module | Theorem | Says |
|---|---|---|
| `GitarLogProofs` | `TypeCorrect` | `Spec => []TypeOK`: no ref points past its branch |
| | `NeverAGap` | `Spec => []LogIsPrefix`, for any number of pollers |
| | `MatchesUnlessRaced` | `Spec => []CacheMatchesHead`, for any number of pollers |
| | `AtomicUnlessRaced` | `Spec => PollsAreAtomic`, for any number of pollers |
| | `OnePollerIsAlone` | one poller: `Spec => []~overlap` |
| | `OnePollerIsAtomic` | one poller: `Spec => Copy!Spec /\ Copy100!Spec` |
| `ArchiveProofs` | `TypeCorrect` | `Spec => []TypeOK` |
| | `KeepsCopy` | `Spec => ImplementsCopy`, whatever raises |
| | `DuplicatesNeedABehindCopy` | `Spec => DuplicateOnlyBehind` |
| | `PollsRecover` | `Spec => []StuckOnlyByDuplicate` |
| | `GuardAlwaysFresh` | `Spec => []GuardIsFresh` |
| | `NoDumpTwice` | `Spec => [](~raised => NoDuplicateCommit)` |
| | `KeepsPromise` | `Spec => ImplementsArchive` |
| `MirrorProofs` | `TypeCorrect` | `Spec => []TypeOK` |
| | `MirrorFollows` | `Ordered`: `Spec => []MirrorIsPrefix` |
| | `AssertionHolds` | `Ordered`: `Spec => []TodoCoversMissing` |
| | `RepeatsOnlyBehind` | any order: `Spec => RepeatedOnlyBehind` |
| `EaisProofs` | `TypeCorrect` | `Spec => []TypeOK`: no table has a dump twice, no turn more than `Limit` handles |
| | `ListingsAreExact` | `Spec => FullListingExact` |
| | `DeletedAreNotSent` | `Spec => []DeletedStaysDeleted` |
| `ZipDonorsProofs` | `ZavodTypeCorrect` | `ZavodSpec => []ZavodTypeOK` |
| | `BrokenIsGivenUp` | `ZavodSpec => []BrokenZipGivesUp` |
| | `NotGivenUpEarly` | `ZavodSpec => []GivesUpLate` |
| | `CheTypeCorrect` | `CheSpec => []CheTypeOK` |
| | `LostInOneWay` | `CheSpec => []LostOnlyByFailure` |
| | `HashIsOfEtag` | `CheSpec => []XmlBelongsToEtag` |
| | `LoopIsAsAlone` | `Spec => EachAsAlone` |
| | `DonorsInTheLoop` | the four invariants hold of the donors in one loop |
| `IndexerProofs` | `TypeCorrect` | `Spec => []TypeOK`: `known_dump` has only dumps of giweb, none twice |
| | `ListingsAreComplete` | a dump served at an idle moment is in `known_dump` after any later listing that is completed |
| | `NeighboursAreAccepted` | `Spec => []InOrderPairsAreNeighbours` |
| | `HistoryIsExact` | `Spec => []HistoryReplays` |
| `XdeltaProofs` | `TypeCorrect` | `Spec => []TypeOK` |
| | `DiffIsExact` | `Spec => []DeltaIsDifference` |
| | `CacheIsExact` | `Spec => []CacheHoldsDeltas` |
| | `ReaderIsExact` | `Spec => []ReaderGetsContents` |
| `ResolvProofs` | `TypeCorrect` | `Spec => []TypeOK` |
| | `MarkerNamesAll` | `Spec => MarkerIsArchive` |
| | `KeepsPromise` | `Spec => ImplementsArchive` |

They rest on the assumptions the modules name: of `Dumps` and `Files` mostly that
times of dumps are distinct, in `EaisProofs` and `IndexerProofs` also that there are
finitely many of them, in `XdeltaProofs` that a dump lists no key twice (`IsFile`).
Pages hold at least one dump (those of giweb two), and there is a dump and a file name
(the initial value of a register that holds one).  Nothing is assumed of `Delta`, of
chunks or of the number of faults.

The arguments:

- *Any number of pollers.*  `LogIsPrefix` with the types is inductive, because a
  transaction that goes through has a range that is disjoint from the rows: if the
  rows are those of `k` commits and the range starts at `head <= k`, then either
  the range is empty or `head = k`, and no gap is left.
- *Polls that do not overlap.*  `CacheMatchesHead` is not inductive: it needs that
  at most one poller is under way, and that the refs it has read are not behind
  the stored ones, `head <= seen` and `head100 <= seen100` (`AloneInv`).  That is just
  what a second poller breaks, and the first finding shows how.  Counting rows needs
  that the commits up to `head100` and those of `head100..seen100` are disjoint and
  together those up to `seen100` (`CommitsExtend`), and nothing of what the commits
  store: a dump may have been mirrored twice.
- *A poll is one step.*  By the same invariant a transaction starts from the rows of
  the stored refs and leaves those of the refs it read, which are not behind them:
  it is `Poll(seen)` of `LogCopy`, wherever git has gone since, and the other steps of
  a poll change nothing one could ask for.  A single poller never overlaps, so that
  it implements `LogCopy`; that is the assumption under which `Archive` takes a poll
  for one step.
- *Archive, whatever fails.*  `CopyInv`, the copy has the rows of its head, is
  inductive: only a poll that succeeds changes either, and both together.  The
  refinement of `LogCopy` needs no more.
- *Archive, up to the first poll that raised.*  `GuardIsFresh` is not inductive
  either.  `FreshInv` says that the head is git's except between a commit and its
  poll and while the process is down, that git holds no dump twice (else polls
  would fail, and the guard would go stale), and that all of it is genuine.  The
  refinement follows: the dump that `Store` appends is not in `log`, hence not in
  git; every other step stutters.
- *Mirror.*  `Split`: the mirror is the first part of HEAD, and `todo` all the rest of
  it.  The commit that `todo.sort()` puts first is then the next one of HEAD.  Where
  `--since` stops is shown without `Split`: if HEAD is ordered, what is not older
  than the first missing commit is a suffix of HEAD, also when the copy is stale.
- *Mirror, in any order.*  `BatchInv`: all commits the copy lacks are of one dump, the
  oldest of those it lacks, since a pass that begins again begins with that one;
  and the list of a pass is what the copy lacks (`AllFound` makes it all of it).  So
  once the copy has caught up, what is left is not on the branch.
- *Listings.*  `Listing` holds between two pages: the table has every dump of `base`
  up to `since`.  A page that is full takes a whole interval of update times
  (`PageTakesFirst`) and moves `since` to its end; a page that is not full is all
  there is (`ShortPageIsAll`), since otherwise the first dump left out would have
  the whole page before it.
- *Donors' lists.*  That the archive of `DonorEais` has no dump twice needs that the
  handles of a turn are not in it yet, and that no turn leaves any behind
  (`HandleInv`); that they are not more than the limit is counting: the rows before
  them are fewer than `n` and differ from one to the next (`FirstWithoutType`).
- *Tries of Zavod.*  Neither `BrokenZipGivesUp` nor `GivesUpLate` is inductive.
  `FetchInv`: the counter of a row is not ahead of the downloads, and just their
  number as long as no zip was unpacked; a handle has a try left, since a fetch
  takes its name from the list and nothing else counts; what is marked is no broken
  zip, wherever a kill falls.
- *ETag of Che.*  `EtagInv` says where each of the two ETags may be ahead of what is
  archived: the one in memory from the end of the download on, the one in the table
  from its UPDATE on; at all other times what they name is archived, no zip, or
  struck by a failure (`Kept`).  A restart sets the first back to the second, which is
  therefore kept also while only the first is ahead.
- *The loop.*  A donor's step must be, for the other one, a dump that appears while
  it has no turn, or nothing (`OthersStep`).  That the other one has no turn is the
  guard; that nothing but a dump appears needs the invariants of both donors
  (`BothInv`), since only `FetchInv` and `EtagInv` keep a broken zip from the archive.
  They are inductive for the loop because its steps are steps of each donor, which is
  in turn what they are needed for: one induction shows both.
- *Listings of the indexer.*  `Ahead`: a dump that was served when the listing began is
  in `tmp` or not before `since`.  A full page leaves out only what comes after all
  of it, a page that is not full nothing.  A dump archived meanwhile with a time
  before `since` is missed, and the digest shows it afterwards.
- *Pairs.*  `IndexInv`: rows are only added to `known_dump`, so a pair that was
  ingested stays one of the neighbouring rows, and `content` has only rows of such
  pairs; a dump is in one pair as the older and in one as the newer one, so two
  rows that clash on a UNIQUE column are of one pair, and a pair writes an item
  at most once.  Order in time is needed for the assertion only.
- *History.*  `content` is exactly what the ingested pairs write, and these go forward
  in time.  Hence when all pairs up to a dump are in, the rows of `known_dump` up to
  it are just the dumps that are not younger (`RowsUpTo`), late ones or not, and the
  pairs between them are a chain from `ZERO_XML`.  Along a chain, what came less what
  went is 1 if the last dump lists the item with that `ts`, else 0 (`NetTells`); the
  induction is over the least position where that would fail.
- *Differences.*  A key is `Gone` when both slicers are past it and neither has it
  waiting.  The invariant says that every piece that does not wait any more has
  such a key, that its difference was written unless there was none (`Noted`),
  and that only such keys were written; at the end all are gone.  What the cache
  holds and what the reader makes of it follow by the steps of `Xdelta`.
- *Resolver archive.*  `done` is a subset of what git has, all of it in a pass but the
  file between `Store` and `Mark`; so what is stored was not there, and the list
  that replaces the old one is complete.

Every invariant and every action property that a passing run checks is proved.  Only
model-checked is what needs fairness (`CatchesUpAlone`, `CommitsReachLog`, the
`Eventually...` properties, `OthersUploaded`, `KnowsAll`, `IngestedWithNextDump`,
`PublishedByNextDump`), which is beyond the prover; of `KnowsAll`,
`ListingsAreComplete` is the part that needs none.  The inductive invariants were
checked by TLC on the instances of the runs before they were proved.

## 5. What is not modelled

- A git command is atomic.  A killed one may leave `index.lock` or `HEAD.lock`,
  after which every commit fails until it is removed by hand.
- `git_init()` of rkngitar, which takes a repository that it was killed over for
  complete; the one of resolv-ar, which does the same, is modelled.
- The upload to EAIS inside `Archive` (it is in `DonorEais`), the splitting of
  large files inside a mirrored commit, the repack, the metrics, and the texts of
  commits.
- The tries of Zavod are not an upper bound on downloads: `Mark` sets the counter
  back to 1, so that a file whose dump `commit_files()` refuses is fetched in
  every turn.  It costs bandwidth only.  Nor is a download counted that a kill
  parts from its count (`donor_zavod.py:72` and `:78`): the two are one step of the
  model, and `BrokenZipGivesUp` is about downloads that were counted.
- The XML parser of the indexer and its flags (`index_diff.py:39` takes the letters of
  `hash` for attributes), the buffer of COPY in `pg.py`, and a connection to
  PostgreSQL that is lost for good, after which every turn of the daemon raises.
- Of giweb: a dump it does not know, which is an error of that request only, and
  `ctx_teardown()`, which pops `gitarlog` while the request is kept in `g.gitlog`, so that
  closing the database is left to the collector.
- `index_content_diff()`, a way to index a difference without parsing it.
- The offsets of `BufferingPipe` and expat in the content diff: a piece is complete or
  it is not.
- The remote `gh` of both archives is set up by hand, with a first fetch; before that
  `git rev-parse` of its branch raises at the end of every pass.
- Names outside `RVZ_EPOCH..9999999999` in the spool of resolv-ar, which are committed
  again after a restart since `git_done()` does not count them, and its branch: the
  commits go to HEAD and the push is of `refs/heads/main`, which are one branch only
  if git's `init.defaultBranch` says so.
- `git-sort` and `git-split-dump`: sequential scripts that rewrite a branch from the
  command line; `git-split-dump` is the original of `github_loop()`, which is modelled.
- The exporter, the containers, the Makefile and the experiments of `perf/`: they
  have no state that anything relies on.

## 6. What could follow

1. EAIS in the loop of `ZipDonors`: `DonorEais` has the order of the rows of `log`, which
   the other two do not need, so that their archive would be its range.
2. `git_init()` of rkngitar with a kill between any two of its commands, and git
   commands that leave a lock behind.
