---------------------------- MODULE GithubMirror ----------------------------
(***************************************************************************)
(* rkngitar's github_loop(): once per turn of EAIS the commits that are    *)
(* missing from BRANCH_100 are committed there again, oldest signature     *)
(* first, with files of more than 100 MiB split; then the branch is pushed *)
(* to GitHub.  A commit is recognised on the mirror by its signing time,   *)
(* and found in git with `git log --since`, which walks back from HEAD and *)
(* stops at the first commit that is older than asked for.                 *)
(*                                                                         *)
(* The loop is called by donors_loop() and shares its thread, so HEAD does *)
(* not move during a pass, and the sqlite copy of HEAD's log is complete   *)
(* (Archive!GuardIsFresh) and names no dump twice.                         *)
(***************************************************************************)
EXTENDS GitHistory, FiniteSets, FiniteSetsExt, SequencesExt

CONSTANTS Dumps,
          SigningTime,    \* of every dump: the author date of its commit
          Ordered,        \* are dumps committed in the order of their signatures
          MaxFaults       \* bound on raised exceptions and kills

ASSUME SigningTimeAssumption ==
    /\ SigningTime \in [Dumps -> Nat]
    /\ \A d, e \in Dumps : SigningTime[d] = SigningTime[e] => d = e
ASSUME OrderedAssumption == Ordered \in BOOLEAN
ASSUME MaxFaultsAssumption == MaxFaults \in Nat

VARIABLES git,      \* the history of HEAD
          mirror,   \* the history of BRANCH_100
          head100,  \* what of it is in table log100
          pushed,   \* what of it REMOTE_100 has
          todo,     \* the commits the pass has still to mirror
          pc,
          raised,   \* history: some poll_fs() of a pass raised
          faults

vars == <<git, mirror, head100, pushed, todo, pc, raised, faults>>

TypeOK ==
    /\ git \in Seq(Dumps) /\ mirror \in Seq(Dumps)
    /\ head100 \in 0..Len(mirror) /\ pushed \in 0..Len(mirror)
    /\ todo \subseteq Dumps
    /\ pc \in {"idle", "store", "poll", "push"}
    /\ raised \in BOOLEAN /\ faults \in 0..MaxFaults

Init ==
    /\ git = <<>> /\ mirror = <<>>
    /\ head100 = 0 /\ pushed = 0
    /\ todo = {} /\ pc = "idle"
    /\ raised = FALSE /\ faults = 0

-----------------------------------------------------------------------------
\* The rest of donors_loop() stores a dump (Archive.tla), and polls.
Commit(d) ==
    /\ pc = "idle"
    /\ d \notin Range(git)
    /\ Ordered => \A e \in Range(git) : SigningTime[e] < SigningTime[d]
    /\ git' = Append(git, d) /\ head100' = Len(mirror)
    /\ UNCHANGED <<mirror, pushed, todo, pc, raised, faults>>

\* Faulty: without the subquery.
MissingAny == {SigningTime[d] : d \in Range(git)}

\* SELECT signing_time FROM log WHERE signing_time NOT IN log100
Missing ==
    {SigningTime[d] : d \in Range(git)}
        \ {SigningTime[d] : d \in Rows(mirror, head100)}

\* Faulty: the commit that is exactly as old as asked for is left out.
LogAfter(t) ==
    {git[i] : i \in {j \in 1..Len(git) :
                       \A k \in j..Len(git) : SigningTime[git[k]] > t}}

\* git log --since=@t
LogSince(t) ==
    {git[i] : i \in {j \in 1..Len(git) :
                       \A k \in j..Len(git) : SigningTime[git[k]] >= t}}

Todo == {d \in LogSince(Min(Missing)) : SigningTime[d] \in Missing}

\* `assert len(todo) == len(missing)`.  When it fails, or git log prints
\* nothing and the only "line" can not be split in three, github_loop()
\* raises and the turn ends as if it was not called.
AllFound == Cardinality(Todo) = Cardinality(Missing)

StartBatch ==
    /\ pc = "idle"
    /\ Missing # {} /\ AllFound
    /\ todo' = Todo
    /\ pc' = "store"
    /\ UNCHANGED <<git, mirror, head100, pushed, raised, faults>>

\* Faulty: the list is as `git log` gave it, newest first.
IsNewest(d, S) == \A e \in S : SigningTime[d] >= SigningTime[e]

\* todo.sort()
IsOldest(d, S) == \A e \in S : SigningTime[d] <= SigningTime[e]

\* git_commit_100() of the next commit of the list.
CommitMirror ==
    /\ pc = "store"
    /\ \E d \in todo : /\ IsOldest(d, todo)
                       /\ mirror' = Append(mirror, d)
                       /\ todo' = todo \ {d}
    /\ pc' = "poll"
    /\ UNCHANGED <<git, head100, pushed, raised, faults>>

\* poll_fs(), then the next commit, or the end of the list or of 300 s.
Poll ==
    /\ pc = "poll"
    /\ head100' = Len(mirror)
    /\ \/ todo # {} /\ pc' = "store"
       \/ pc' = "push"
    /\ UNCHANGED <<git, mirror, pushed, todo, raised, faults>>

\* objects_maybe_repack(); github_maybe_push()
Push ==
    /\ pc = "push"
    /\ pushed' = Len(mirror)
    /\ todo' = {} /\ pc' = "idle"
    /\ UNCHANGED <<git, mirror, head100, raised, faults>>

\* git_commit_100(), the repack or the push raises: the pass is over.
Raise ==
    /\ pc \in {"store", "push"}
    /\ faults < MaxFaults
    /\ todo' = {} /\ pc' = "idle" /\ faults' = faults + 1
    /\ UNCHANGED <<git, mirror, head100, pushed, raised>>

\* poll_fs() raises: the pass is over and the copy lacks its last commit.
PollRaises ==
    /\ pc = "poll"
    /\ faults < MaxFaults
    /\ todo' = {} /\ pc' = "idle"
    /\ raised' = TRUE /\ faults' = faults + 1
    /\ UNCHANGED <<git, mirror, head100, pushed>>

\* poll_fs() of the GitarLog() that main() makes before donors_loop().
Restarted(polled) == Len(mirror)

\* The process is killed and started again.
Restart ==
    /\ faults < MaxFaults
    /\ head100' = Restarted(head100)
    /\ todo' = {} /\ pc' = "idle" /\ faults' = faults + 1
    /\ UNCHANGED <<git, mirror, pushed, raised>>

Next ==
    \/ \E d \in Dumps : Commit(d)
    \/ StartBatch
    \/ CommitMirror
    \/ Poll
    \/ Push
    \/ Raise \/ PollRaises
    \/ Restart

Spec == Init /\ [][Next]_vars

\* donors_loop() cycles for ever, so that EAIS gets its next turn; a pass is
\* sequential code.  The faults are finitely many.
FairSpec ==
    Spec /\ WF_vars(StartBatch) /\ WF_vars(CommitMirror)
         /\ WF_vars(Poll) /\ WF_vars(Push)

-----------------------------------------------------------------------------
(* Properties                                                              *)

\* What a pass of github_loop() must not go without: the walk of `git log
\* --since` finds the commit of every missing signature.
TodoCoversMissing == pc = "idle" /\ Missing # {} => AllFound

\* `assert len(todo) == len(missing)` in the passes that get to it: those for
\* which git log printed a commit, since an empty output fails before it.
AssertionPasses ==
    pc = "idle" /\ Missing # {} /\ LogSince(Min(Missing)) # {} => AllFound

\* The mirror has the dumps of HEAD in HEAD's order, none skipped or repeated,
\* as long as no poll_fs() of a pass raised.
MirrorIsPrefix == ~raised => IsPrefix(mirror, git)

\* What is left of it then: a dump is mirrored again only as long as the copy
\* lacks the last commits of the branch.
RepeatedOnlyBehind ==
    [][mirror' # mirror /\ head100 = Len(mirror)
         => Last(mirror') \notin Range(mirror)]_vars

\* Every dump gets to the mirror branch, whatever pass was cut short.
EventuallyMirrored ==
    \A d \in Dumps : d \in Range(git) ~> d \in Rows(mirror, head100)

\* A push that failed is not retried by itself: github_loop() returns early
\* when nothing is missing.  The next dump makes up for it, if nothing fails
\* any more.
PublishedByNextDump ==
    (faults = MaxFaults /\ Missing # {}) ~> (pushed = Len(mirror) /\ Missing = {})
=============================================================================
