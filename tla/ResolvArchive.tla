--------------------------- MODULE ResolvArchive ---------------------------
(***************************************************************************)
(* resolv-ar: another process leaves gzipped lists of resolved names in a  *)
(* spool directory; once a minute every file that is not in git yet is     *)
(* committed, oldest name first, the list of processed files is replaced,  *)
(* and the branch is pushed.  One thread, whose every step may raise: an   *)
(* exception ends the pass.  The process may be killed anywhere; it learns *)
(* what it has done from git and not from the list it writes.              *)
(***************************************************************************)
EXTENDS Naturals, FiniteSets, Sequences, Functions

CONSTANTS Files,      \* names, which are timestamps: they sort as numbers
          Broken,     \* those that never unpack, or hold no list
          MaxFaults   \* bound on failing commands and kills

ASSUME FilesAssumption == Files \subseteq Nat /\ Broken \subseteq Files
ASSUME FaultsAssumption == MaxFaults \in Nat

VARIABLES spool,     \* the files of --src
          repo,      \* --git-dir: "none", "unborn" without a commit, "ready"
          git,       \* the files in the history of HEAD
          remote,    \* how much of it refs/remotes/gh/main has
          marker,    \* --dst-done
          promPort,  \* was this process started with --prom-port
          done, todo, pc,
          faults

disk == <<repo, git, remote, marker>>
vars == <<spool, disk, promPort, done, todo, pc, faults>>

TypeOK ==
    /\ spool \in [Files -> {"absent", "partial", "whole"}]
    /\ repo \in {"none", "unborn", "ready"}
    /\ git \in Seq(Files) /\ remote \in 0..Len(git)
    /\ marker \subseteq Files
    /\ promPort \in BOOLEAN
    /\ done \subseteq Files /\ todo \subseteq Files
    /\ pc \in {"down", "init", "start", "scan", "file", "mark", "repack"}
    /\ faults \in 0..MaxFaults

Init ==
    /\ spool = [f \in Files |-> "absent"]
    /\ repo = "none" /\ git = <<>> /\ remote = 0
    /\ marker = {}
    /\ promPort = FALSE
    /\ done = {} /\ todo = {} /\ pc = "down"
    /\ faults = 0

Present == {f \in Files : spool[f] # "absent"}
Readable(f) == spool[f] = "whole" /\ f \notin Broken
IsNext(f) == f \in todo /\ \A g \in todo : f <= g

Fault == faults < MaxFaults /\ faults' = faults + 1

-----------------------------------------------------------------------------
\* The other process writes a file in place, in any order of names.
Create(f) ==
    /\ spool[f] = "absent"
    /\ spool' = [spool EXCEPT ![f] = "partial"]
    /\ UNCHANGED <<disk, promPort, done, todo, pc, faults>>

Finish(f) ==
    /\ spool[f] = "partial"
    /\ spool' = [spool EXCEPT ![f] = "whole"]
    /\ UNCHANGED <<disk, promPort, done, todo, pc, faults>>

-----------------------------------------------------------------------------
\* git_init(): the directory decides whether there is anything to do.
GitInit ==
    /\ pc = "down" /\ repo = "none"
    /\ promPort' \in BOOLEAN
    /\ repo' = "unborn" /\ pc' = "init"
    /\ UNCHANGED <<spool, git, remote, marker, done, todo, faults>>

GitZero ==
    /\ pc = "init"
    /\ repo' = "ready" /\ pc' = "start"
    /\ UNCHANGED <<spool, git, remote, marker, promPort, done, todo, faults>>

Reopen ==
    /\ pc = "down" /\ repo # "none"
    /\ promPort' \in BOOLEAN
    /\ pc' = "start"
    /\ UNCHANGED <<spool, disk, done, todo, faults>>

\* `git log` fails on a repository without a commit, and max() of no file, for
\* the gauge that --prom-port exports: both end the process.
CanStart == repo = "ready" /\ (promPort => git # <<>>)

\* Faulty: what is done is read from the list instead of git.
StartFromMarker ==
    /\ pc = "start" /\ CanStart
    /\ done' = marker
    /\ pc' = "scan"
    /\ UNCHANGED <<spool, disk, promPort, todo, faults>>

\* git_done()
Start ==
    /\ pc = "start" /\ CanStart
    /\ done' = Range(git)
    /\ pc' = "scan"
    /\ UNCHANGED <<spool, disk, promPort, todo, faults>>

NoStart ==
    /\ pc = "start" /\ ~CanStart
    /\ pc' = "down"
    /\ UNCHANGED <<spool, disk, promPort, done, todo, faults>>

-----------------------------------------------------------------------------
\* An exception, which is printed: the next pass starts a minute later.
EndPass == pc' = "scan" /\ todo' = {}

\* Faulty: a pass waits for a new file.
ScanNew ==
    /\ pc = "scan" /\ ~(Present \subseteq done)
    /\ todo' = Present
    /\ pc' = "file"
    /\ UNCHANGED <<spool, disk, promPort, done, faults>>

\* sorted(glob('*.gz'))
Scan ==
    /\ pc = "scan"
    /\ todo' = Present
    /\ pc' = "file"
    /\ UNCHANGED <<spool, disk, promPort, done, faults>>

Known(f) ==
    /\ pc = "file" /\ IsNext(f) /\ f \in done
    /\ todo' = todo \ {f}
    /\ UNCHANGED <<spool, disk, promPort, done, pc, faults>>

\* commit_file() up to and with `git update-ref HEAD`, its only effect.
Store(f) ==
    /\ pc = "file" /\ IsNext(f) /\ f \notin done
    /\ Readable(f)
    /\ git' = Append(git, f)
    /\ pc' = "mark"
    /\ UNCHANGED <<spool, repo, remote, marker, promPort, done, todo, faults>>

\* Faulty: the file is noted before it is committed.
StoreFailDone(f) ==
    /\ pc = "file" /\ IsNext(f) /\ f \notin done
    /\ IF Readable(f) THEN Fault ELSE UNCHANGED faults
    /\ done' = done \cup {f}
    /\ EndPass
    /\ UNCHANGED <<spool, disk, promPort>>

\* commit_file() raises: the file can not be read, or a command fails.
StoreFail(f) ==
    /\ pc = "file" /\ IsNext(f) /\ f \notin done
    /\ IF Readable(f) THEN Fault ELSE UNCHANGED faults
    /\ EndPass
    /\ UNCHANGED <<spool, disk, promPort, done>>

\* Faulty: the file is added to the list that is there.
MarkOnly(f) ==
    /\ pc = "mark" /\ IsNext(f)
    /\ done' = done \cup {f} /\ marker' = marker \cup {f}
    /\ todo' = todo \ {f}
    /\ pc' = "repack"
    /\ UNCHANGED <<spool, repo, git, remote, promPort, faults>>

\* done.add() and write_done(), which renames a complete list over the old one.
Mark(f) ==
    /\ pc = "mark" /\ IsNext(f)
    /\ done' = done \cup {f} /\ marker' = done'
    /\ todo' = todo \ {f}
    /\ pc' = "repack"
    /\ UNCHANGED <<spool, repo, git, remote, promPort, faults>>

\* write_done() raises, before the rename or behind it.
MarkFail(f) ==
    /\ pc = "mark" /\ IsNext(f)
    /\ Fault
    /\ done' = done \cup {f} /\ marker' \in {marker, done'}
    /\ EndPass
    /\ UNCHANGED <<spool, repo, git, remote, promPort>>

\* objects_maybe_repack() changes how objects are stored only.
Repack ==
    /\ pc = "repack"
    /\ pc' = "file"
    /\ UNCHANGED <<spool, disk, promPort, done, todo, faults>>

RepackFail ==
    /\ pc = "repack"
    /\ Fault
    /\ EndPass
    /\ UNCHANGED <<spool, disk, promPort, done>>

\* github_maybe_push(): whatever is behind is pushed, new or not.
Push ==
    /\ pc = "file" /\ todo = {}
    /\ remote' = Len(git)
    /\ pc' = "scan"
    /\ UNCHANGED <<spool, repo, git, marker, promPort, done, todo, faults>>

PushFail ==
    /\ pc = "file" /\ todo = {}
    /\ Fault
    /\ EndPass
    /\ UNCHANGED <<spool, disk, promPort, done>>

Kill ==
    /\ pc # "down"
    /\ Fault
    /\ done' = {} /\ todo' = {} /\ pc' = "down"
    /\ UNCHANGED <<spool, disk, promPort>>

Run ==
    \/ GitInit \/ GitZero \/ Reopen
    \/ Start \/ NoStart
    \/ Scan
    \/ \E f \in Files : Known(f) \/ Store(f) \/ StoreFail(f)
                        \/ Mark(f) \/ MarkFail(f)
    \/ Repack \/ RepackFail
    \/ Push \/ PushFail

Next ==
    \/ \E f \in Files : Create(f) \/ Finish(f)
    \/ Run
    \/ Kill

Spec == Init /\ [][Next]_vars

\* The process goes on and is started again, a file that was begun gets
\* finished.  Commands that fail, and kills, are finitely many (MaxFaults).
FairSpec ==
    /\ Spec
    /\ WF_vars(Run)
    /\ \A f \in Files : WF_vars(Finish(f))

-----------------------------------------------------------------------------
(* Properties                                                              *)

\* Through failures and kills between any two steps the branch is an
\* append-only archive of the files, none of which is committed twice: what
\* was committed and not noted in the list is found in git.
Promise == INSTANCE AppendOnce WITH Items <- Files \ Broken, entries <- git
ImplementsArchive == Promise!Spec

\* Whenever the list of processed files is replaced it names every file in git,
\* also those whose turn was cut between the commit and the list, and no other.
MarkerIsArchive == [][marker' # marker => marker' = Range(git)]_vars

\* A repository that git_init() left without a commit, or an empty one that is
\* opened with --prom-port: main() ends before its loop, every time.
NeverStarts ==
    \/ repo = "unborn" /\ pc # "init"
    \/ promPort /\ git = <<>>

\* Every good file is archived, unless a file of an older name is broken and
\* ends every pass before.
EventuallyArchived ==
    \A f \in Files \ Broken :
        spool[f] # "absent"
            ~> \/ f \in Range(git)
               \/ NeverStarts
               \/ \E b \in Broken : b < f /\ b \in Present

\* Every commit is pushed, also when its own push failed or was not reached and
\* no further file comes, unless a broken file ends every pass before.
EventuallyPushed ==
    \A n \in 1..Cardinality(Files) :
        Len(git) >= n
            ~> \/ remote >= n
               \/ \E b \in Broken : b \in Present
=============================================================================
