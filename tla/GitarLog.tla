------------------------------ MODULE GitarLog ------------------------------
(***************************************************************************)
(* rkndex/gitarlog.py: the sqlite copy of `git log`, and the processes     *)
(* that refresh it with poll_fs().  rkngitar keeps one such database and   *)
(* is its only poller; each request of giweb builds a GitarLog over        *)
(* /tmp/gitar.db, so every worker of giweb is a poller of that one.        *)
(*                                                                         *)
(* poll_fs() reads two git refs, then opens BEGIN EXCLUSIVE TRANSACTION.   *)
(* The refs are therefore read in two separate steps, and anything may     *)
(* happen between them and the transaction.                                *)
(***************************************************************************)
EXTENDS GitHistory

CONSTANTS Dumps,      \* the dumps that may be committed
          Pollers,    \* the processes that call poll_fs() on one database
          MaxCommits, \* bound on the commits of HEAD
          MaxMirrored \* bound on the commits of BRANCH_100

ASSUME MaxCommitsAssumption == MaxCommits \in Nat /\ MaxMirrored \in Nat

VARIABLES main,     \* the history of HEAD
          mirror,   \* the history of BRANCH_100
          log,      \* table log: the dumps that have a row
          head,     \* table head: position of the HEAD the rows stand for
          log100,   \* table log100, no UNIQUE here: rows per dump
          head100,  \* table main100
          pc,       \* how far each poller is in poll_fs()
          seen,     \* git_head of each poller, 0 outside of poll_fs()
          seen100,  \* git_100 of each poller, likewise
          overlap   \* history: some poll began while another one was going on

gitVars == <<main, mirror>>
dbVars == <<log, head, log100, head100>>
pollVars == <<pc, seen, seen100>>
vars == <<gitVars, dbVars, pollVars, overlap>>

TypeOK ==
    /\ main \in Seq(Dumps) /\ mirror \in Seq(Dumps)
    /\ log \subseteq Dumps
    /\ head \in 0..Len(main) /\ head100 \in 0..Len(mirror)
    /\ log100 \in [Dumps -> Nat]
    /\ pc \in [Pollers -> {"idle", "read", "ready"}]
    /\ seen \in [Pollers -> 0..Len(main)]
    /\ seen100 \in [Pollers -> 0..Len(mirror)]
    /\ overlap \in BOOLEAN

Init ==
    /\ main = <<>> /\ mirror = <<>>
    /\ log = {} /\ head = 0
    /\ log100 = [d \in Dumps |-> 0] /\ head100 = 0
    /\ pc = [p \in Pollers |-> "idle"]
    /\ seen = [p \in Pollers |-> 0] /\ seen100 = [p \in Pollers |-> 0]
    /\ overlap = FALSE

-----------------------------------------------------------------------------
(***************************************************************************)
(* rkngitar moves the refs.  Before it commits a dump it asks table log,   *)
(* and before it mirrors one table log100, of its own database, which is   *)
(* the modelled one or, for giweb's, another one.  Either may be behind    *)
(* git after polls that failed, and then the same dump is committed again: *)
(* here it may be committed at any time.  Archive and GithubMirror, which  *)
(* have the questions and the polls of rkngitar in their order, say when.  *)
(***************************************************************************)

Commit(d) ==
    /\ Len(main) < MaxCommits
    /\ main' = Append(main, d)
    /\ UNCHANGED <<mirror, dbVars, pollVars, overlap>>

Commit100(d) ==
    /\ d \in Range(main) /\ Len(mirror) < MaxMirrored
    /\ mirror' = Append(mirror, d)
    /\ UNCHANGED <<main, dbVars, pollVars, overlap>>

-----------------------------------------------------------------------------
(* poll_fs()                                                               *)

ReadHead(p) ==
    /\ pc[p] = "idle"
    /\ seen' = [seen EXCEPT ![p] = Len(main)]
    /\ pc' = [pc EXCEPT ![p] = "read"]
    /\ overlap' = (overlap \/ \E q \in Pollers : pc[q] # "idle")
    /\ UNCHANGED <<gitVars, dbVars, seen100>>

ReadHead100(p) ==
    /\ pc[p] = "read"
    /\ seen100' = [seen100 EXCEPT ![p] = Len(mirror)]
    /\ pc' = [pc EXCEPT ![p] = "ready"]
    /\ UNCHANGED <<gitVars, dbVars, seen, overlap>>

\* Faulty: the oldest commit of the range is left out.
InsertAfterFirst(from, to) == log \cup LogRange(main, from + 1, to)

\* insert_up_to(): a row for every commit of the range; the table is UNIQUE.
\* An unchanged head skips the call, and an empty range inserts nothing.
InsertUpTo(from, to) == log \cup LogRange(main, from, to)

\* Faulty: INSERT OR IGNORE, as if a dump had one row.
Insert100Once(from, to) ==
    LET new == LogRange(mirror, from, to)
    IN  [d \in Dumps |-> IF d \in new THEN 1 ELSE log100[d]]

\* insert_100_up_to(): table log100 has no UNIQUE.
Insert100UpTo(from, to) ==
    [d \in Dumps |-> log100[d] + CommitsOf(mirror, d, from, to)]

\* Faulty: the rows are inserted and the ref is not stored.
KeepDbCommit(stored, given) == stored

\* update_db_commit(): the stored ref becomes the one poll_fs() was given.
UpdateDbCommit(stored, given) == given

EndPoll(p) ==
    /\ pc' = [pc EXCEPT ![p] = "idle"]
    /\ seen' = [seen EXCEPT ![p] = 0]
    /\ seen100' = [seen100 EXCEPT ![p] = 0]

\* The transaction of p goes through.
CommitPoll(p) ==
    /\ pc[p] = "ready"
    /\ Insertable(main, log, head, seen[p])
    /\ log' = InsertUpTo(head, seen[p])
    /\ head' = UpdateDbCommit(head, seen[p])
    /\ log100' = Insert100UpTo(head100, seen100[p])
    /\ head100' = UpdateDbCommit(head100, seen100[p])
    /\ EndPoll(p)
    /\ UNCHANGED <<gitVars, overlap>>

\* sqlite refuses a row: RuntimeError('Bad line in git log'), ROLLBACK.
RollbackPoll(p) ==
    /\ pc[p] = "ready"
    /\ ~Insertable(main, log, head, seen[p])
    /\ EndPoll(p)
    /\ UNCHANGED <<gitVars, dbVars, overlap>>

\* Faulty: the stored ref is deleted and inserted outside of the transaction.
PollFailBetween(p) ==
    /\ pc[p] \in {"read", "ready"}
    /\ head' = 0
    /\ EndPoll(p)
    /\ UNCHANGED <<gitVars, log, log100, head100, overlap>>

\* git cannot be run, the database is locked for a minute, or the process is
\* killed: whatever the transaction did is undone.
PollFail(p) ==
    /\ pc[p] \in {"read", "ready"}
    /\ EndPoll(p)
    /\ UNCHANGED <<gitVars, dbVars, overlap>>

-----------------------------------------------------------------------------
Git == \E d \in Dumps : Commit(d) \/ Commit100(d)

PollFs(p) ==
    \/ ReadHead(p)
    \/ ReadHead100(p)
    \/ CommitPoll(p)
    \/ RollbackPoll(p)
    \/ PollFail(p)

Next == Git \/ \E p \in Pollers : PollFs(p)

Spec == Init /\ [][Next]_vars

(***************************************************************************)
(* Requests keep arriving and rkngitar keeps looping, so a poll always     *)
(* starts; a poll that is tried over and over does not fail every time for *)
(* reasons outside the program.                                            *)
(***************************************************************************)
Fairness ==
    \A p \in Pollers : /\ WF_vars(ReadHead(p))
                       /\ SF_vars(ReadHead100(p))
                       /\ SF_vars(CommitPoll(p))
                       /\ WF_vars(RollbackPoll(p))

FairSpec == Spec /\ Fairness

-----------------------------------------------------------------------------
(* Properties                                                              *)

\* However many pollers interleave, the rows are those of some prefix of the
\* history that is not shorter than the stored head: insert_up_to() never
\* leaves a gap in the table.
LogIsPrefix == \E k \in head..Len(main) : log = Rows(main, k)

\* What poll_fs() leaves behind unless polls overlap: the rows are the history
\* of the stored head, and log100 has one row for every mirrored commit up to
\* the stored BRANCH_100, also of a dump that was mirrored twice.
CacheMatchesHead ==
    overlap \/ /\ log = Rows(main, head)
               /\ \A d \in Dumps :
                    log100[d] = CommitsOf(mirror, d, 0, head100)

\* What is promised of either branch to donors_loop(), github_loop() and giweb.
Copy == INSTANCE LogCopy WITH history <- main, rows <- log
Copy100 == INSTANCE LogCopy
             WITH history <- mirror, head <- head100,
                  rows <- {d \in Dumps : log100[d] # 0}

\* Unless polls overlap, a poll of two reads and a transaction is as good as one
\* step, whatever is committed meanwhile: the rows go from one commit to a later
\* one, and never back.
PollsAreAtomic ==
    /\ [][overlap \/ Copy!Next]_<<main, log, head>>
    /\ [][overlap \/ Copy100!Next]_<<mirror, log100, head100>>

\* A dump was committed twice, and every poll is refused for good.  When that
\* can happen is what Archive is about.
Twice == ~IsInjective(main)

CopyComplete ==
    log = Range(main) /\ \A d \in Range(mirror) : log100[d] > 0

\* needs_xml_sha256(), which is asked of log, sooner or later knows every
\* dump that is in git; github_loop(), which is asked of log100, every
\* mirrored one; unless a dump was committed twice.
CatchesUp == []<>(CopyComplete \/ Twice)

\* The same of polls that do not overlap.
CatchesUpAlone == []<>(CopyComplete \/ Twice \/ overlap)
=============================================================================
