----------------------------- MODULE ContentDiff -----------------------------
(***************************************************************************)
(* rkndex/iterdiff.py and the writer of rkndex/filediff.py: the difference *)
(* of two dumps, made while both are read from pipes.  ContentSlicer cuts  *)
(* a dump into pieces: what precedes the first <content/> (PROLOGUE), one  *)
(* piece per <content/>, and what follows the last one (EPILOGUE).  Pieces *)
(* wait in a dictionary until the other dump has got to the same key, or   *)
(* until both dumps are read.                                              *)
(*                                                                         *)
(* The offsets of BufferingPipe and expat are abstracted to the number of  *)
(* pieces that are complete; what a chunk of 65536 bytes completes is left *)
(* open.                                                                   *)
(***************************************************************************)
EXTENDS Integers, Sequences, FiniteSets, Functions

CONSTANTS MaxId,        \* the largest id of a <content/>
          Blobs,        \* what a piece may hold
          Empty,        \* b''
          Delta(_, _),  \* what xdelta3 makes of its own delta of two blobs;
                        \* anything else if it finds none
          Files         \* the dumps, as sequences of pieces

PROLOGUE == 0           \* float('-inf')
EPILOGUE == MaxId + 1   \* float('+inf')
Keys == PROLOGUE..EPILOGUE
Piece == [key : Keys, blob : Blobs]

\* A dump without any <content/> is one piece: first_content() is never called.
IsFile(f) ==
    /\ f \in Seq(Piece) /\ f # <<>>
    /\ f[1].key = PROLOGUE
    /\ Len(f) > 1 => f[Len(f)].key = EPILOGUE
    /\ \A i, j \in DOMAIN f : f[i].key = f[j].key => i = j

ASSUME MaxIdAssumption == MaxId \in Nat
ASSUME EmptyAssumption == Empty \notin Blobs
ASSUME FilesAssumption == \A f \in Files : IsFile(f)

VARIABLES file,  \* the two dumps
          pos,   \* how many of its pieces each slicer has completed
          acc,   \* ContentSlicer.acc of each
          out    \* the records that were written

diffVars == <<file, pos, acc, out>>

RAW == "raw"  \* also MAGIC_UGLY, which is read like MAGIC_RAW
XDELTA3 == "xdelta3"
Record == [key : Keys, magic : {RAW, XDELTA3},
           old : Blobs \cup {Empty}, new : Blobs \cup {Empty}]

DiffTypeOK ==
    /\ file \in Files \X Files
    /\ pos \in (0..Len(file[1])) \X (0..Len(file[2]))
    /\ acc \in (SUBSET Range(file[1])) \X (SUBSET Range(file[2]))
    /\ out \in Seq(Record)

DiffInit(from, to) ==
    /\ file = <<from, to>>
    /\ pos = <<0, 0>> /\ acc = <<{}, {}>> /\ out = <<>>

DiffStart(from, to) ==
    /\ file' = <<from, to>>
    /\ pos' = <<0, 0>> /\ acc' = <<{}, {}>> /\ out' = <<>>

-----------------------------------------------------------------------------
(* ContentSlicer                                                           *)

Read(s) == pos[s] >= Len(file[s]) - 1
Closed == \A s \in 1..2 : pos[s] = Len(file[s])

\* accflush() of the pieces up to the given one
Flushed(s, upTo) == acc[s] \cup {file[s][i] : i \in (pos[s] + 1)..upTo}

CommonKeys == {p.key : p \in acc[1]} \cap {p.key : p \in acc[2]}

\* A round of zip_longest(): each slicer is pumped unless it is at the end.
\* The last piece is completed by close() only.
Pump(n) ==
    /\ CommonKeys = {} /\ ~Closed
    /\ \A s \in 1..2 : n[s] \in pos[s]..(Len(file[s]) - 1)
    /\ pos' = n
    /\ acc' = <<Flushed(1, n[1]), Flushed(2, n[2])>>
    /\ UNCHANGED <<file, out>>

\* cs1.close(), cs2.close()
Close ==
    /\ CommonKeys = {} /\ ~Closed
    /\ Read(1) /\ Read(2)
    /\ pos' = <<Len(file[1]), Len(file[2])>>
    /\ acc' = <<Flushed(1, pos'[1]), Flushed(2, pos'[2])>>
    /\ UNCHANGED <<file, out>>

-----------------------------------------------------------------------------
(* iter_content_diff(), with write_content_diff() behind each `yield`      *)

\* A delta is stored if it decodes to what it was made of.
Magic(old, new) == IF Delta(old, new) = new THEN XDELTA3 ELSE RAW

Written(k, old, new) ==
    Append(out, [key |-> k, magic |-> Magic(old, new), old |-> old, new |-> new])

IsFirst(p, pieces) == \A q \in pieces : p.key <= q.key

\* Faulty: the pieces of a common key are compared and left where they are.
PopKept(p, q) ==
    /\ p.key = q.key
    /\ \A k \in CommonKeys : p.key <= k
    /\ acc' = <<acc[1] \ {p}, acc[2]>>
    /\ out' = IF p.blob = q.blob THEN out ELSE Written(p.key, p.blob, q.blob)
    /\ UNCHANGED <<file, pos>>

\* pop_common_keys(), one key at a time
Pop(p, q) ==
    /\ p.key = q.key
    /\ \A k \in CommonKeys : p.key <= k
    /\ acc' = <<acc[1] \ {p}, acc[2] \ {q}>>
    /\ out' = IF p.blob = q.blob THEN out ELSE Written(p.key, p.blob, q.blob)
    /\ UNCHANGED <<file, pos>>

\* What is left of the old dump,
Deleted(p) ==
    /\ Closed /\ CommonKeys = {}
    /\ IsFirst(p, acc[1])
    /\ acc' = <<acc[1] \ {p}, acc[2]>>
    /\ out' = Written(p.key, p.blob, Empty)
    /\ UNCHANGED <<file, pos>>

\* and then of the new one.
Added(q) ==
    /\ Closed /\ acc[1] = {}
    /\ IsFirst(q, acc[2])
    /\ acc' = <<acc[1], acc[2] \ {q}>>
    /\ out' = Written(q.key, Empty, q.blob)
    /\ UNCHANGED <<file, pos>>

Finished == Closed /\ acc[1] = {} /\ acc[2] = {}

DiffNext ==
    \/ \E n \in (0..Len(file[1])) \X (0..Len(file[2])) : n # pos /\ Pump(n)
    \/ Close
    \/ \E p \in acc[1], q \in acc[2] : Pop(p, q)
    \/ \E p \in acc[1] : Deleted(p)
    \/ \E q \in acc[2] : Added(q)

-----------------------------------------------------------------------------
(* The reader of filediff.py                                               *)

\* What read_content_diff() yields for a record.
View(r) ==
    [key |-> r.key, old |-> r.old,
     new |-> IF r.magic = XDELTA3 THEN Delta(r.old, r.new) ELSE r.new]

BlobOf(f, k) ==
    IF \E i \in DOMAIN f : f[i].key = k
      THEN f[CHOOSE i \in DOMAIN f : f[i].key = k].blob
      ELSE Empty

\* The reference: what two dumps hold under a key, where they differ.
Difference(f, g) ==
    {[key |-> k, old |-> BlobOf(f, k), new |-> BlobOf(g, k)] :
        k \in {l \in Keys : BlobOf(f, l) # BlobOf(g, l)}}

\* The records stand for the difference and none of them is there twice.
IsDelta(records, f, g) ==
    /\ {View(records[i]) : i \in DOMAIN records} = Difference(f, g)
    /\ \A i, j \in DOMAIN records : records[i].key = records[j].key => i = j

\* However the two pipes are chunked, and in whatever order two dumps list
\* their contents, what iter_content_diff() has written in the end is the
\* difference of the dumps, each key once.
DeltaIsDifference == Finished => IsDelta(out, file[1], file[2])
=============================================================================
