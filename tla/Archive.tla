------------------------------ MODULE Archive ------------------------------
(***************************************************************************)
(* rkngitar's donors_loop(): donors take turns, each offers a few handles, *)
(* every handle is fetched, checked against the sqlite copy of the log,    *)
(* verified and committed to git, and the copy is refreshed.  The loop is  *)
(* one thread; what makes it hard is that any step may raise, that the     *)
(* process may be killed between the commit and the refresh, and that the  *)
(* duplicate check is asked of the copy and not of git.                    *)
(*                                                                         *)
(* What a donor remembers of its own and the upload to EAIS that ends a    *)
(* handle are in Donor*.tla; here the donors offer whatever they may.      *)
(***************************************************************************)
EXTENDS GitHistory, FiniteSets, SequencesExt

CONSTANTS Dumps,       \* everything that can be downloaded
          Forged,      \* those whose signature openssl does not verify
          Donors,      \* the donors in the order of their turns
          Limit,       \* list_handles(limit=5)
          MaxCommits   \* bound on commits, met only if dumps are duplicated

ASSUME ForgedAssumption == Forged \subseteq Dumps
ASSUME DonorsAssumption == Donors \in Seq({"eais", "zavod", "che"}) /\ Donors # <<>>
ASSUME LimitAssumption == Limit \in Nat \ {0} /\ MaxCommits \in Nat

Genuine == Dumps \ Forged

\* A handle and what its download holds: the hash that fetch_xml_and_sig()
\* returns, and the dump.  EAIS returns the hash it was promised; the other
\* donors hash the file.
Downloads == [claim : Dumps, body : Dumps]

VARIABLES git,   \* the history of HEAD
          log,   \* the sqlite copy: dumps that have a row
          head,  \* the sqlite copy: position of its HEAD
          pc, turn, todo, cur,
          raised, \* history: some poll_fs() of the loop raised on its own
          kept    \* history: what git held before that

repoVars == <<git, log, head, kept>>
vars == <<repoVars, pc, turn, todo, cur, raised>>

TypeOK ==
    /\ git \in Seq(Dumps)
    /\ log \subseteq Dumps
    /\ head \in 0..Len(git)
    /\ pc \in {"down", "turn", "handle", "check", "poll", "github"}
    /\ turn \in DOMAIN Donors
    /\ todo \in Seq(Downloads) /\ Len(todo) <= Limit
    /\ cur \in Downloads
    /\ raised \in BOOLEAN /\ kept \in Seq(Dumps)

Init ==
    /\ git = <<>> /\ log = {} /\ head = 0
    /\ pc = "down" /\ turn = 1 /\ todo = <<>>
    /\ cur \in Downloads
    /\ raised = FALSE /\ kept = <<>>

-----------------------------------------------------------------------------
(* poll_fs(), with git and the copy in one process: the stored head is     *)
(* never ahead, and the whole call is one step: GitarLog shows that a      *)
(* single poller implements LogCopy, where it is.                          *)

CanPoll == Insertable(git, log, head, Len(git))

\* Faulty: the newest commit is left out.
PollFsShort ==
    /\ CanPoll
    /\ log' = log \cup LogRange(git, head, Len(git) - 1)
    /\ head' = Len(git)
    /\ UNCHANGED <<git, kept>>

\* Faulty: the rows are inserted and the head is not stored.
PollFsKeepHead ==
    /\ CanPoll
    /\ log' = log \cup LogRange(git, head, Len(git))
    /\ UNCHANGED <<git, head, kept>>

PollFs ==
    /\ CanPoll
    /\ log' = log \cup LogRange(git, head, Len(git))
    /\ head' = Len(git)
    /\ UNCHANGED <<git, kept>>

-----------------------------------------------------------------------------
\* Faulty: the loop starts with the copy as it was left.
StartupUnpolled ==
    /\ pc = "down"
    /\ pc' = "turn" /\ turn' = 1
    /\ UNCHANGED <<repoVars, todo, cur, raised>>

\* main(): GitarLog() polls before the loop starts.
Startup ==
    /\ pc = "down"
    /\ PollFs
    /\ pc' = "turn" /\ turn' = 1
    /\ UNCHANGED <<todo, cur, raised>>

\* What a turn of donor don may list.  EAIS lists hashes that are not in the
\* log, each of them once, and may serve anything for them.  Zavod lists file
\* names, of which several may be the same dump; Che has one file.
Offers(don) ==
    {s \in BoundedSeq(Downloads, Limit) :
       /\ don = "eais" =>
            \A i, j \in DOMAIN s : /\ s[i].claim \notin log
                                  /\ s[i].claim = s[j].claim => i = j
       /\ don # "eais" => \A i \in DOMAIN s : s[i].claim = s[i].body
       /\ don = "che" => Len(s) <= 1}

\* list_handles(); when it raises, todo is empty.
ListHandles ==
    /\ pc = "turn"
    /\ todo' \in Offers(Donors[turn])
    /\ pc' = "handle"
    /\ UNCHANGED <<repoVars, turn, cur, raised>>

\* fetch_xml_and_sig() of the next handle.
Fetch ==
    /\ pc = "handle" /\ todo # <<>>
    /\ cur' = Head(todo) /\ todo' = Tail(todo)
    /\ pc' = "check"
    /\ UNCHANGED <<repoVars, turn, raised>>

FetchFail ==
    /\ pc = "handle" /\ todo # <<>>
    /\ todo' = Tail(todo)
    /\ UNCHANGED <<repoVars, pc, turn, cur, raised>>

\* Faulty: what a donor lists is taken for new.
NeedsAnyXml(c) == TRUE

NeedsXml(c) == c.claim \notin log

\* Faulty: what EAIS serves is taken for what it promised.
NoSanityCheck(c) == TRUE

\* sanity_cb() of EAIS; for the other donors claim = body.
SanityOk(c) == c.claim = c.body

\* openssl smime -verify
SignatureOk(c) == c.body \in Genuine

Known ==
    /\ pc = "check" /\ ~NeedsXml(cur)
    /\ pc' = "handle"
    /\ UNCHANGED <<repoVars, turn, todo, cur, raised>>

\* commit_files() up to and with `git update-ref HEAD`, its only effect.
Store ==
    /\ pc = "check" /\ NeedsXml(cur)
    /\ SanityOk(cur) /\ SignatureOk(cur)
    /\ Len(git) < MaxCommits
    /\ git' = Append(git, cur.body)
    /\ kept' = IF raised THEN kept ELSE git'
    /\ pc' = "poll"
    /\ UNCHANGED <<log, head, turn, todo, cur, raised>>

\* commit_files() raises before update-ref: the checks fail, or a command.
StoreFail ==
    /\ pc = "check" /\ NeedsXml(cur)
    /\ pc' = "handle"
    /\ UNCHANGED <<repoVars, turn, todo, cur, raised>>

\* The poll_fs() that follows commit_files().
Poll ==
    /\ pc = "poll"
    /\ PollFs
    /\ pc' = "handle"
    /\ UNCHANGED <<turn, todo, cur, raised>>

\* It raises, on its own (git cannot be run, the database stays locked) or
\* since sqlite refuses a row; the handle's `except` logs it and the loop goes
\* on.
PollRaises ==
    /\ pc = "poll"
    /\ raised' = (raised \/ CanPoll)
    /\ pc' = "handle"
    /\ UNCHANGED <<repoVars, turn, todo, cur>>

NextTurn(t) == IF t = Len(Donors) THEN 1 ELSE t + 1

\* The handles are used up; EAIS's turn ends with github_loop().
EndHandles ==
    /\ pc = "handle" /\ todo = <<>>
    /\ IF Donors[turn] = "eais"
         THEN pc' = "github" /\ UNCHANGED turn
         ELSE pc' = "turn" /\ turn' = NextTurn(turn)
    /\ UNCHANGED <<repoVars, todo, cur, raised>>

\* github_loop() polls after every commit it mirrors, if it mirrors any.
Github ==
    /\ pc = "github"
    /\ PollFs \/ UNCHANGED repoVars
    /\ pc' = "turn" /\ turn' = NextTurn(turn)
    /\ UNCHANGED <<todo, cur, raised>>

\* The process is killed.  git and sqlite are on disk.
Crash ==
    /\ pc # "down"
    /\ pc' = "down" /\ todo' = <<>>
    /\ UNCHANGED <<repoVars, turn, cur, raised>>

Next ==
    \/ Startup
    \/ ListHandles
    \/ Fetch \/ FetchFail
    \/ Known \/ Store \/ StoreFail
    \/ Poll \/ PollRaises
    \/ EndHandles \/ Github
    \/ Crash

Spec == Init /\ [][Next]_vars

\* The container restarts the program and the program takes its next step.
\* Nothing is assumed of the donors, and it may crash any number of times.
FairSpec == Spec /\ WF_vars(Startup) /\ WF_vars(Poll)

-----------------------------------------------------------------------------
(* Properties                                                              *)

\* As long as no poll raised on its own, the duplicate check of donors_loop()
\* is asked of a complete copy: except between a commit and its poll_fs(), and
\* while the process is down, the copy has a row for every commit.
GuardIsFresh ==
    ~raised /\ pc \notin {"down", "poll"} =>
        log = Range(git) /\ head = Len(git)

\* No dump is committed twice, which the UNIQUE columns of the copy rely on:
\* after a second commit every later poll_fs() would be rolled back.
NoDuplicateCommit == IsInjective(git)

\* What is left of it when a poll raised: a dump is committed again only while
\* the copy is behind git, that is, after a poll that failed and before one
\* that does not.
DuplicateOnlyBehind ==
    [][git' # git /\ head = Len(git) => cur.body \notin Range(git)]_vars

\* And the UNIQUE columns never refuse a row for another reason than a second
\* commit: while there is none, the next poll_fs() catches up.
StuckOnlyByDuplicate == NoDuplicateCommit => CanPoll

\* Whatever raises and wherever it is killed, those who ask the copy see the
\* history of git as it was at some commit, and never less than before.
Copy == INSTANCE LogCopy WITH history <- git, rows <- log
ImplementsCopy == Copy!Spec

\* Up to the first poll that raised on its own, HEAD is an append-only archive
\* of dumps with a verified signature, none of them twice.
Promise == INSTANCE AppendOnce WITH Items <- Genuine, entries <- kept
ImplementsArchive == Promise!Spec

\* Every commit gets its row, also when the process is killed between
\* `git update-ref` and poll_fs(), any number of times.
CommitsReachLog == \A d \in Dumps : d \in Range(git) ~> (d \in log \/ raised)
=============================================================================
