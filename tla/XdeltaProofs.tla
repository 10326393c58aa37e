---------------------------- MODULE XdeltaProofs ----------------------------
(***************************************************************************)
(* Theorems about Xdelta, for any dumps, any chunks, any eviction and any  *)
(* delta that xdelta3 may make: what iter_content_diff() writes, what the  *)
(* cache holds and what the indexer reads.                                 *)
(***************************************************************************)
EXTENDS Xdelta, TLAPS

\* A dump is a sequence of pieces of distinct keys.
LEMMA FileFacts ==
    ASSUME NEW f \in Files
    PROVE  /\ f \in Seq(Piece) /\ Len(f) \in Nat \ {0}
           /\ DOMAIN f = 1..Len(f)
           /\ \A i \in 1..Len(f) : /\ f[i] \in Piece /\ f[i].key \in Keys
                                   /\ f[i].blob \in Blobs
           /\ \A i, j \in 1..Len(f) : f[i].key = f[j].key => i = j
  <1>1. f \in Seq(Piece) /\ f # <<>>
    BY FilesAssumption DEF IsFile
  <1>2. DOMAIN f = 1..Len(f) /\ Len(f) \in Nat \ {0}
    BY <1>1
  <1>3. \A i \in 1..Len(f) : f[i] \in Piece
    BY <1>1
  <1>4. \A i, j \in 1..Len(f) : f[i].key = f[j].key => i = j
    BY <1>2, FilesAssumption DEF IsFile
  <1> QED BY <1>1, <1>2, <1>3, <1>4 DEF Piece

\* What a dump holds under the key of one of its pieces is that piece,
LEMMA BlobOfPiece ==
    ASSUME NEW f \in Files, NEW i \in DOMAIN f
    PROVE  BlobOf(f, f[i].key) = f[i].blob
  <1>1. \A j \in DOMAIN f : f[j].key = f[i].key => j = i
    BY FileFacts
  <1> DEFINE c == CHOOSE j \in DOMAIN f : f[j].key = f[i].key
  <1>2. c \in DOMAIN f /\ f[c].key = f[i].key
    OBVIOUS
  <1>3. c = i
    BY <1>1, <1>2
  <1> QED BY <1>3 DEF BlobOf

\* and nothing under any other key.
LEMMA BlobOfNothing ==
    ASSUME NEW f, NEW k, \A i \in DOMAIN f : f[i].key # k
    PROVE  BlobOf(f, k) = Empty
  BY DEF BlobOf

\* A record is read as it was meant, whether its delta was stored or not.
LEMMA WrittenRecord ==
    ASSUME out \in Seq(Record), NEW k \in Keys,
           NEW old \in Blobs \cup {Empty}, NEW new \in Blobs \cup {Empty},
           NEW w, w = Written(k, old, new)
    PROVE  /\ w \in Seq(Record)
           /\ DOMAIN out = 1..Len(out) /\ DOMAIN w = 1..(Len(out) + 1)
           /\ \A i \in 1..Len(out) : w[i] = out[i]
           /\ w[Len(out) + 1].key = k
           /\ View(w[Len(out) + 1]) = [key |-> k, old |-> old, new |-> new]
  <1> DEFINE r == [key |-> k, magic |-> Magic(old, new), old |-> old, new |-> new]
  <1>1. r \in Record
    BY DEF Record, Magic
  <1>2. w = Append(out, r)
    BY DEF Written
  <1>3. View(r) = [key |-> k, old |-> old, new |-> new]
    BY DEF View, Magic, XDELTA3, RAW
  <1>4. r.key = k
    OBVIOUS
  <1> HIDE DEF r
  <1>5. /\ w \in Seq(Record) /\ DOMAIN out = 1..Len(out)
        /\ DOMAIN w = 1..(Len(out) + 1) /\ w[Len(out) + 1] = r
        /\ \A i \in 1..Len(out) : w[i] = out[i]
    BY <1>1, <1>2
  <1> QED BY <1>3, <1>4, <1>5

-----------------------------------------------------------------------------
(***************************************************************************)
(* A key is gone when both dumps are past it and neither has it waiting.   *)
(* Every piece that does not wait any more has a key that is gone, and its *)
(* difference was written unless there was none; all that was written is   *)
(* gone, so that nothing is written twice.                                 *)
(***************************************************************************)
Gone(k) ==
    \A s \in 1..2 : \A j \in DOMAIN file[s] :
       file[s][j].key = k => j <= pos[s] /\ file[s][j] \notin acc[s]

Noted(k) == \E i \in DOMAIN out : out[i].key = k
Same(k) == BlobOf(file[1], k) = BlobOf(file[2], k)

WaitingWasRead ==
    \A s \in 1..2 : \A p \in acc[s] : \E j \in 1..pos[s] : p = file[s][j]

PoppedIsNoted ==
    \A s \in 1..2 : \A j \in 1..pos[s] :
       file[s][j] \notin acc[s] =>
          Gone(file[s][j].key) /\ (Noted(file[s][j].key) \/ Same(file[s][j].key))

NotedIsExact ==
    /\ \A i \in DOMAIN out :
          Gone(out[i].key) /\ View(out[i]) \in Difference(file[1], file[2])
    /\ \A i, j \in DOMAIN out : out[i].key = out[j].key => i = j

DiffInv == DiffTypeOK /\ WaitingWasRead /\ PoppedIsNoted /\ NotedIsExact

\* What the types say of the two sides.
LEMMA Sides ==
    ASSUME DiffTypeOK
    PROVE  \A s \in 1..2 : /\ file[s] \in Files
                           /\ DOMAIN file[s] = 1..Len(file[s])
                           /\ Len(file[s]) \in Nat \ {0}
                           /\ pos[s] \in 0..Len(file[s])
                           /\ acc[s] \subseteq Range(file[s])
  <1>1. /\ file[1] \in Files /\ file[2] \in Files
        /\ pos[1] \in 0..Len(file[1]) /\ pos[2] \in 0..Len(file[2])
        /\ acc[1] \subseteq Range(file[1]) /\ acc[2] \subseteq Range(file[2])
    BY DEF DiffTypeOK
  <1> QED BY <1>1, FileFacts

\* When everything is read and nothing waits, the difference is written.
LEMMA DiffInvSuffices == DiffInv => DeltaIsDifference
  <1> SUFFICES ASSUME DiffInv, Finished PROVE IsDelta(out, file[1], file[2])
    BY DEF DeltaIsDifference
  <1>1. {View(out[i]) : i \in DOMAIN out} \subseteq Difference(file[1], file[2])
    BY DEF DiffInv, NotedIsExact
  <1>2. ASSUME NEW k \in Keys, BlobOf(file[1], k) # BlobOf(file[2], k)
        PROVE  \E i \in DOMAIN out : out[i].key = k
    <2>1. \E s \in 1..2 : \E j \in DOMAIN file[s] : file[s][j].key = k
      <3>1. (\A j \in DOMAIN file[1] : file[1][j].key # k)
               => BlobOf(file[1], k) = Empty
        BY BlobOfNothing
      <3>2. (\A j \in DOMAIN file[2] : file[2][j].key # k)
               => BlobOf(file[2], k) = Empty
        BY BlobOfNothing
      <3> QED BY <1>2, <3>1, <3>2
    <2>2. PICK s \in 1..2 : \E j \in DOMAIN file[s] : file[s][j].key = k
      BY <2>1
    <2>3. PICK j \in DOMAIN file[s] : file[s][j].key = k
      BY <2>2
    <2>4. j \in 1..pos[s] /\ acc[s] = {}
      BY Sides DEF DiffInv, Finished, Closed
    <2>5. Noted(k) \/ Same(k)
      BY <2>3, <2>4 DEF DiffInv, PoppedIsNoted
    <2> QED BY <1>2, <2>5 DEF Noted, Same
  <1>3. Difference(file[1], file[2]) \subseteq {View(out[i]) : i \in DOMAIN out}
    <2> SUFFICES ASSUME NEW k \in Keys,
                        BlobOf(file[1], k) # BlobOf(file[2], k)
                 PROVE  [key |-> k, old |-> BlobOf(file[1], k),
                         new |-> BlobOf(file[2], k)]
                            \in {View(out[i]) : i \in DOMAIN out}
      BY DEF Difference
    <2>1. PICK i \in DOMAIN out : out[i].key = k
      BY <1>2
    <2>2. PICK l \in Keys : View(out[i]) = [key |-> l, old |-> BlobOf(file[1], l),
                                            new |-> BlobOf(file[2], l)]
      BY <1>1 DEF Difference
    <2>3. l = k
      BY <2>1, <2>2 DEF View
    <2> QED BY <2>2, <2>3
  <1>4. \A i, j \in DOMAIN out : out[i].key = out[j].key => i = j
    BY DEF DiffInv, NotedIsExact
  <1> QED BY <1>1, <1>3, <1>4 DEF IsDelta

-----------------------------------------------------------------------------
(* The steps of the difference                                             *)

LEMMA DiffStarts ==
    ASSUME NEW from \in Files, NEW to \in Files, DiffStart(from, to)
    PROVE  DiffInv'
  <1>1. /\ file' = <<from, to>> /\ pos' = <<0, 0>>
        /\ acc' = <<{}, {}>> /\ out' = <<>>
    BY DEF DiffStart
  <1>2. DiffTypeOK'
    BY <1>1, FileFacts DEF DiffTypeOK
  <1>3. \A s \in 1..2 : acc'[s] = {} /\ pos'[s] = 0
    BY <1>1
  <1>4. WaitingWasRead' /\ PoppedIsNoted'
    BY <1>3 DEF WaitingWasRead, PoppedIsNoted
  <1>5. NotedIsExact'
    BY <1>1 DEF NotedIsExact
  <1> QED BY <1>2, <1>4, <1>5 DEF DiffInv

\* Whatever the chunks complete: what was waiting goes on waiting, the new
\* pieces do too, and no key that is gone comes back.
LEMMA ReadKeepsInv ==
    ASSUME DiffInv,
           file' = file, out' = out,
           pos' \in (0..Len(file[1])) \X (0..Len(file[2])),
           \A s \in 1..2 : pos[s] <= pos'[s],
           acc' = <<Flushed(1, pos'[1]), Flushed(2, pos'[2])>>
    PROVE  DiffInv'
  <1>1. \A s \in 1..2 : /\ file[s] \in Files
                        /\ DOMAIN file[s] = 1..Len(file[s])
                        /\ Len(file[s]) \in Nat
                        /\ pos[s] \in 0..Len(file[s])
                        /\ pos'[s] \in 0..Len(file[s])
    BY Sides DEF DiffInv
  <1>2. \A s \in 1..2 :
           acc'[s] = acc[s] \cup {file[s][i] : i \in (pos[s] + 1)..pos'[s]}
    BY DEF Flushed
  <1>3. \A s \in 1..2 : acc'[s] \subseteq Range(file[s])
    <2> SUFFICES ASSUME NEW s \in 1..2 PROVE acc'[s] \subseteq Range(file[s])
      OBVIOUS
    <2>1. (pos[s] + 1)..pos'[s] \subseteq DOMAIN file[s]
      BY <1>1
    <2>2. acc[s] \subseteq Range(file[s])
      BY Sides DEF DiffInv
    <2> QED BY <1>2, <2>1, <2>2 DEF Range
  <1>4. DiffTypeOK'
    <2>1. acc' \in (SUBSET Range(file[1])) \X (SUBSET Range(file[2]))
      BY <1>3
    <2> QED BY <2>1 DEF DiffInv, DiffTypeOK
  <1>5. WaitingWasRead'
    <2> SUFFICES ASSUME NEW s \in 1..2, NEW p \in acc'[s]
                 PROVE  \E j \in 1..pos'[s] : p = file[s][j]
      BY DEF WaitingWasRead
    <2>1. CASE p \in acc[s]
      <3>1. PICK j \in 1..pos[s] : p = file[s][j]
        BY <2>1 DEF DiffInv, WaitingWasRead
      <3> QED BY <1>1, <3>1
    <2>2. CASE p \notin acc[s]
      <3>1. PICK j \in (pos[s] + 1)..pos'[s] : p = file[s][j]
        BY <1>2, <2>2
      <3> QED BY <1>1, <3>1
    <2> QED BY <2>1, <2>2
  <1>6. ASSUME NEW k, Gone(k) PROVE Gone(k)'
    <2> SUFFICES ASSUME NEW s \in 1..2, NEW j \in DOMAIN file[s],
                        file[s][j].key = k
                 PROVE  j <= pos'[s] /\ file[s][j] \notin acc'[s]
      BY DEF Gone
    <2>1. j <= pos[s] /\ file[s][j] \notin acc[s]
      BY <1>6 DEF Gone
    <2>2. ASSUME NEW i \in (pos[s] + 1)..pos'[s] PROVE file[s][i] # file[s][j]
      <3>1. i \in 1..Len(file[s]) /\ j \in 1..Len(file[s]) /\ i # j
        BY <1>1, <2>1, <2>2
      <3> QED BY <1>1, <3>1, FileFacts
    <2> QED BY <1>1, <1>2, <2>1, <2>2
  <1>7. PoppedIsNoted'
    <2> SUFFICES ASSUME NEW s \in 1..2, NEW j \in 1..pos'[s],
                        file[s][j] \notin acc'[s]
                 PROVE  /\ Gone(file[s][j].key)'
                        /\ Noted(file[s][j].key) \/ Same(file[s][j].key)
      BY DEF PoppedIsNoted, Noted, Same
    <2>1. file[s][j] \notin acc[s] /\ j \notin (pos[s] + 1)..pos'[s]
      BY <1>2
    <2>2. j \in 1..pos[s]
      BY <1>1, <2>1
    <2>3. /\ Gone(file[s][j].key)
          /\ Noted(file[s][j].key) \/ Same(file[s][j].key)
      BY <2>1, <2>2 DEF DiffInv, PoppedIsNoted
    <2> QED BY <1>6, <2>3
  <1>8. NotedIsExact'
    <2>1. \A i \in DOMAIN out : Gone(out[i].key)'
      BY <1>6 DEF DiffInv, NotedIsExact
    <2>2. /\ \A i \in DOMAIN out : View(out[i]) \in Difference(file[1], file[2])
          /\ \A i, j \in DOMAIN out : out[i].key = out[j].key => i = j
      BY DEF DiffInv, NotedIsExact
    <2> QED BY <2>1, <2>2 DEF NotedIsExact
  <1> QED BY <1>4, <1>5, <1>7, <1>8 DEF DiffInv

\* Taking the pieces of a key that both dumps are past, and writing their
\* difference, if there is one.
LEMMA TakeKeepsInv ==
    ASSUME DiffInv, NEW k \in Keys,
           file' = file, pos' = pos,
           acc' \in (SUBSET acc[1]) \X (SUBSET acc[2]),
           \A s \in 1..2 : \A p \in acc[s] : p \notin acc'[s] => p.key = k,
           \E s \in 1..2 : \E p \in acc[s] : p.key = k,
           Gone(k)',
           \/ out' = out /\ Same(k)
           \/ /\ out' = Written(k, BlobOf(file[1], k), BlobOf(file[2], k))
              /\ ~Same(k)
    PROVE  DiffInv'
  <1> DEFINE old == BlobOf(file[1], k)
             new == BlobOf(file[2], k)
  <1>1. \A s \in 1..2 : /\ file[s] \in Files
                        /\ DOMAIN file[s] = 1..Len(file[s])
                        /\ Len(file[s]) \in Nat
                        /\ pos[s] \in 0..Len(file[s])
                        /\ acc[s] \subseteq Range(file[s])
    BY Sides DEF DiffInv
  <1>2. \A s \in 1..2 : acc'[s] \subseteq acc[s]
    OBVIOUS
  <1>3. ASSUME NEW f \in Files PROVE BlobOf(f, k) \in Blobs \cup {Empty}
    <2>1. CASE \E i \in DOMAIN f : f[i].key = k
      BY <2>1, BlobOfPiece, FileFacts
    <2>2. CASE \A i \in DOMAIN f : f[i].key # k
      BY <2>2, BlobOfNothing
    <2> QED BY <2>1, <2>2
  <1>4. old \in Blobs \cup {Empty} /\ new \in Blobs \cup {Empty}
    BY <1>1, <1>3
  <1>5. ~Gone(k)
    <2>1. PICK s \in 1..2 : \E p \in acc[s] : p.key = k
      OBVIOUS
    <2>2. PICK p \in acc[s] : p.key = k
      BY <2>1
    <2>3. PICK j \in DOMAIN file[s] : p = file[s][j]
      BY <1>1 DEF Range
    <2> QED BY <2>2, <2>3 DEF Gone
  <1>6. ASSUME NEW l, Gone(l) PROVE Gone(l)'
    BY <1>2, <1>6 DEF Gone
  <1>7. out \in Seq(Record)
    BY DEF DiffInv, DiffTypeOK
  <1>8. ~Same(k) => /\ out' \in Seq(Record)
                    /\ DOMAIN out = 1..Len(out)
                    /\ DOMAIN out' = 1..(Len(out) + 1)
                    /\ \A i \in 1..Len(out) : out'[i] = out[i]
                    /\ out'[Len(out) + 1].key = k
                    /\ View(out'[Len(out) + 1]) = [key |-> k, old |-> old, new |-> new]
    <2> HIDE DEF old, new
    <2>1. ASSUME out' = Written(k, old, new)
          PROVE  /\ out' \in Seq(Record)
                 /\ DOMAIN out = 1..Len(out)
                 /\ DOMAIN out' = 1..(Len(out) + 1)
                 /\ \A i \in 1..Len(out) : out'[i] = out[i]
                 /\ out'[Len(out) + 1].key = k
                 /\ View(out'[Len(out) + 1]) = [key |-> k, old |-> old, new |-> new]
      BY <1>4, <1>7, <2>1, WrittenRecord
    <2> QED BY <2>1 DEF old, new
  <1>9. DiffTypeOK'
    <2>1. acc' \in (SUBSET Range(file[1])) \X (SUBSET Range(file[2]))
      BY <1>1
    <2>2. out' \in Seq(Record)
      BY <1>7, <1>8
    <2> QED BY <2>1, <2>2 DEF DiffInv, DiffTypeOK
  <1>10. WaitingWasRead'
    BY <1>2 DEF DiffInv, WaitingWasRead
  <1>11. ASSUME NEW l, Noted(l) \/ Same(l) PROVE (Noted(l) \/ Same(l))'
    <2>1. Same(l)' <=> Same(l)
      BY DEF Same
    <2>2. ASSUME Noted(l) PROVE Noted(l)'
      <3>1. PICK i \in DOMAIN out : out[i].key = l
        BY <2>2 DEF Noted
      <3>2. i \in DOMAIN out' /\ out'[i] = out[i]
        BY <1>7, <1>8
      <3> QED BY <3>1, <3>2 DEF Noted
    <2> QED BY <1>11, <2>1, <2>2
  <1>12. (Noted(k) \/ Same(k))'
    <2>1. CASE Same(k)
      BY <2>1, <1>11
    <2>2. CASE ~Same(k)
      <3>1. Len(out) + 1 \in DOMAIN out'
        BY <1>7, <1>8, <2>2
      <3> QED BY <1>8, <2>2, <3>1 DEF Noted
    <2> QED BY <2>1, <2>2
  <1>13. PoppedIsNoted'
    <2> SUFFICES ASSUME NEW s \in 1..2, NEW j \in 1..pos[s],
                        file[s][j] \notin acc'[s]
                 PROVE  /\ Gone(file[s][j].key)'
                        /\ (Noted(file[s][j].key) \/ Same(file[s][j].key))'
      BY DEF PoppedIsNoted, Noted, Same
    <2>1. CASE file[s][j] \in acc[s]
      <3>1. file[s][j].key = k
        BY <2>1
      <3> QED BY <3>1, <1>12
    <2>2. CASE file[s][j] \notin acc[s]
      <3>1. /\ Gone(file[s][j].key)
            /\ Noted(file[s][j].key) \/ Same(file[s][j].key)
        BY <2>2 DEF DiffInv, PoppedIsNoted
      <3> QED BY <3>1, <1>6, <1>11
    <2> QED BY <2>1, <2>2
  <1>14. NotedIsExact'
    <2>0. ASSUME NEW i \in DOMAIN out, NEW l, l = out[i].key
          PROVE  l # k /\ Gone(l)'
      <3>1. Gone(l)
        BY <2>0 DEF DiffInv, NotedIsExact
      <3> QED BY <3>1, <1>5, <1>6
    <2>1. /\ \A i \in DOMAIN out : /\ out[i].key # k
                                   /\ View(out[i]) \in Difference(file[1], file[2])
          /\ \A i, j \in DOMAIN out : out[i].key = out[j].key => i = j
      BY <2>0 DEF DiffInv, NotedIsExact
    <2>2. CASE Same(k)
      <3>1. out' = out
        BY <2>2
      <3>2. \A i \in DOMAIN out' : Gone(out[i].key)'
        BY <2>0, <3>1
      <3> QED BY <2>1, <3>1, <3>2 DEF NotedIsExact
    <2>3. CASE ~Same(k)
      <3>1. View(out'[Len(out) + 1]) \in Difference(file[1], file[2])
        BY <1>8, <2>3 DEF Difference, Same
      <3>2. \A i \in DOMAIN out' : i \in DOMAIN out \/ i = Len(out) + 1
        BY <1>7, <1>8, <2>3
      <3>3. ASSUME NEW i \in DOMAIN out'
            PROVE  Gone(out[i].key)' /\ View(out'[i]) \in Difference(file[1], file[2])
        <4>1. CASE i = Len(out) + 1
          BY <1>8, <2>3, <3>1, <4>1
        <4>2. CASE i \in DOMAIN out
          <5>1. out'[i] = out[i]
            BY <1>8, <2>3, <4>2
          <5> QED BY <2>0, <2>1, <4>2, <5>1
        <4> QED BY <3>2, <4>1, <4>2
      <3>4. \A i, j \in DOMAIN out' : out'[i].key = out'[j].key => i = j
        BY <1>8, <2>1, <2>3, <3>2
      <3> QED BY <3>3, <3>4 DEF NotedIsExact
    <2> QED BY <2>2, <2>3
  <1> QED BY <1>9, <1>10, <1>13, <1>14 DEF DiffInv

LEMMA DiffSteps == DiffInv /\ DiffNext => DiffInv'
  <1> SUFFICES ASSUME DiffInv, DiffNext PROVE DiffInv'
    OBVIOUS
  <1>1. \A s \in 1..2 : /\ file[s] \in Files
                        /\ DOMAIN file[s] = 1..Len(file[s])
                        /\ Len(file[s]) \in Nat \ {0}
                        /\ pos[s] \in 0..Len(file[s])
                        /\ acc[s] \subseteq Range(file[s])
    BY Sides DEF DiffInv
  <1>2. ASSUME NEW s \in 1..2, NEW p \in acc[s]
        PROVE  \E j \in 1..pos[s] : /\ j \in DOMAIN file[s] /\ p = file[s][j]
                                    /\ p.key \in Keys /\ p.blob \in Blobs
                                    /\ BlobOf(file[s], p.key) = p.blob
                                    /\ \A i \in DOMAIN file[s] :
                                         file[s][i].key = p.key => i = j
    <2>1. PICK j \in 1..pos[s] : p = file[s][j]
      BY DEF DiffInv, WaitingWasRead
    <2>2. file[s] \in Files /\ j \in DOMAIN file[s] /\ j \in 1..Len(file[s])
      BY <1>1
    <2>3. BlobOf(file[s], p.key) = p.blob
      BY <2>1, <2>2, BlobOfPiece
    <2>4. /\ p.key \in Keys /\ p.blob \in Blobs
          /\ \A i \in DOMAIN file[s] : file[s][i].key = p.key => i = j
      BY <2>1, <2>2, FileFacts
    <2> QED BY <2>1, <2>2, <2>3, <2>4
  <1>3. acc \in (SUBSET Range(file[1])) \X (SUBSET Range(file[2]))
    BY DEF DiffInv, DiffTypeOK
  <1>4. ASSUME NEW n \in (0..Len(file[1])) \X (0..Len(file[2])), Pump(n)
        PROVE  DiffInv'
    <2>1. /\ file' = file /\ out' = out /\ pos' = n
          /\ acc' = <<Flushed(1, n[1]), Flushed(2, n[2])>>
          /\ \A s \in 1..2 : n[s] \in pos[s]..(Len(file[s]) - 1)
      BY <1>4 DEF Pump
    <2>2. \A s \in 1..2 : pos[s] <= pos'[s]
      BY <1>1, <2>1
    <2> QED BY <2>1, <2>2, ReadKeepsInv
  <1>5. ASSUME Close PROVE DiffInv'
    <2>1. /\ file' = file /\ out' = out
          /\ pos' = <<Len(file[1]), Len(file[2])>>
          /\ acc' = <<Flushed(1, pos'[1]), Flushed(2, pos'[2])>>
      BY <1>5 DEF Close
    <2>2. pos' \in (0..Len(file[1])) \X (0..Len(file[2]))
      BY <1>1, <2>1
    <2>3. \A s \in 1..2 : pos[s] <= pos'[s]
      BY <1>1, <2>1
    <2> QED BY <2>1, <2>2, <2>3, ReadKeepsInv
  <1>6. ASSUME NEW p \in acc[1], NEW q \in acc[2], Pop(p, q) PROVE DiffInv'
    <2>1. /\ p.key = q.key /\ file' = file /\ pos' = pos
          /\ acc' = <<acc[1] \ {p}, acc[2] \ {q}>>
          /\ out' = IF p.blob = q.blob THEN out ELSE Written(p.key, p.blob, q.blob)
      BY <1>6 DEF Pop
    <2>2. /\ p.key \in Keys
          /\ BlobOf(file[1], p.key) = p.blob /\ BlobOf(file[2], p.key) = q.blob
      BY <1>2, <2>1
    <2>3. Gone(p.key)'
      <3>1. ASSUME NEW s \in 1..2, NEW i \in DOMAIN file[s],
                   file[s][i].key = p.key
            PROVE  i <= pos[s] /\ file[s][i] \notin acc'[s]
        <4>1. CASE s = 1
          BY <1>2, <2>1, <3>1, <4>1
        <4>2. CASE s = 2
          BY <1>2, <2>1, <3>1, <4>2
        <4> QED BY <4>1, <4>2
      <3> QED BY <2>1, <3>1 DEF Gone
    <2>4. acc' \in (SUBSET acc[1]) \X (SUBSET acc[2])
      BY <2>1
    <2>5. \A s \in 1..2 : \A r \in acc[s] : r \notin acc'[s] => r.key = p.key
      BY <2>1
    <2>6. \E s \in 1..2 : \E r \in acc[s] : r.key = p.key
      OBVIOUS
    <2>7. \/ out' = out /\ Same(p.key)
          \/ /\ out' = Written(p.key, BlobOf(file[1], p.key), BlobOf(file[2], p.key))
             /\ ~Same(p.key)
      BY <2>1, <2>2 DEF Same
    <2> QED BY <2>1, <2>2, <2>3, <2>4, <2>5, <2>6, <2>7, TakeKeepsInv
  \* A piece that waits when both dumps are read has no counterpart: that one
  \* would wait too, or the key would be gone.
  <1>7. ASSUME NEW s \in 1..2, NEW t \in 1..2, s # t, Closed,
               NEW p \in acc[s], \A r \in acc[t] : r.key # p.key,
               NEW i \in DOMAIN file[t]
        PROVE  file[t][i].key # p.key
    <2> SUFFICES ASSUME file[t][i].key = p.key PROVE FALSE
      OBVIOUS
    <2>1. i \in 1..pos[t] /\ file[t][i] \notin acc[t]
      BY <1>1, <1>7 DEF Closed
    <2>2. Gone(p.key)
      BY <2>1 DEF DiffInv, PoppedIsNoted
    <2> QED BY <1>2, <2>2 DEF Gone
  <1>8. ASSUME NEW p \in acc[1], Deleted(p) PROVE DiffInv'
    <2>1. /\ Closed /\ CommonKeys = {} /\ file' = file /\ pos' = pos
          /\ acc' = <<acc[1] \ {p}, acc[2]>>
          /\ out' = Written(p.key, p.blob, Empty)
      BY <1>8 DEF Deleted
    <2>2. \A r \in acc[2] : r.key # p.key
      BY <2>1 DEF CommonKeys
    <2>3. \A i \in DOMAIN file[2] : file[2][i].key # p.key
      BY <1>7, <2>1, <2>2
    <2>4. /\ p.key \in Keys /\ p.blob # Empty
          /\ BlobOf(file[1], p.key) = p.blob /\ BlobOf(file[2], p.key) = Empty
      BY <1>2, <2>3, BlobOfNothing, EmptyAssumption
    <2>5. Gone(p.key)'
      <3>1. ASSUME NEW s \in 1..2, NEW i \in DOMAIN file[s],
                   file[s][i].key = p.key
            PROVE  i <= pos[s] /\ file[s][i] \notin acc'[s]
        <4>1. CASE s = 1
          BY <1>2, <2>1, <3>1, <4>1
        <4>2. CASE s = 2
          BY <2>3, <3>1, <4>2
        <4> QED BY <4>1, <4>2
      <3> QED BY <2>1, <3>1 DEF Gone
    <2>6. acc' \in (SUBSET acc[1]) \X (SUBSET acc[2])
      BY <2>1
    <2>7. \A s \in 1..2 : \A r \in acc[s] : r \notin acc'[s] => r.key = p.key
      BY <2>1
    <2>8. \E s \in 1..2 : \E r \in acc[s] : r.key = p.key
      OBVIOUS
    <2>9. /\ out' = Written(p.key, BlobOf(file[1], p.key), BlobOf(file[2], p.key))
          /\ ~Same(p.key)
      BY <2>1, <2>4 DEF Same
    <2> QED BY <2>1, <2>4, <2>5, <2>6, <2>7, <2>8, <2>9, TakeKeepsInv
  <1>9. ASSUME NEW q \in acc[2], Added(q) PROVE DiffInv'
    <2>1. /\ Closed /\ acc[1] = {} /\ file' = file /\ pos' = pos
          /\ acc' = <<acc[1], acc[2] \ {q}>>
          /\ out' = Written(q.key, Empty, q.blob)
      BY <1>9 DEF Added
    <2>3. \A i \in DOMAIN file[1] : file[1][i].key # q.key
      BY <1>7, <2>1
    <2>4. /\ q.key \in Keys /\ q.blob # Empty
          /\ BlobOf(file[1], q.key) = Empty /\ BlobOf(file[2], q.key) = q.blob
      BY <1>2, <2>3, BlobOfNothing, EmptyAssumption
    <2>5. Gone(q.key)'
      <3>1. ASSUME NEW s \in 1..2, NEW i \in DOMAIN file[s],
                   file[s][i].key = q.key
            PROVE  i <= pos[s] /\ file[s][i] \notin acc'[s]
        <4>1. CASE s = 1
          BY <2>3, <3>1, <4>1
        <4>2. CASE s = 2
          BY <1>2, <2>1, <3>1, <4>2
        <4> QED BY <4>1, <4>2
      <3> QED BY <2>1, <3>1 DEF Gone
    <2>6. acc' \in (SUBSET acc[1]) \X (SUBSET acc[2])
      BY <2>1
    <2>7. \A s \in 1..2 : \A r \in acc[s] : r \notin acc'[s] => r.key = q.key
      BY <2>1
    <2>8. \E s \in 1..2 : \E r \in acc[s] : r.key = q.key
      OBVIOUS
    <2>9. /\ out' = Written(q.key, BlobOf(file[1], q.key), BlobOf(file[2], q.key))
          /\ ~Same(q.key)
      BY <2>1, <2>4 DEF Same
    <2> QED BY <2>1, <2>4, <2>5, <2>6, <2>7, <2>8, <2>9, TakeKeepsInv
  <1> QED BY <1>4, <1>5, <1>6, <1>8, <1>9 DEF DiffNext

-----------------------------------------------------------------------------
(***************************************************************************)
(* The way of a difference to the indexer                                  *)
(***************************************************************************)

\* The contents among the first n records.
Seen(n) == {r \in {View(body[i]) : i \in 1..n} : r.key \in Content}

Start == /\ body = <<>> /\ next = 0
         /\ parser = <<"none", "none">> /\ diff = {}

WayTypeOK ==
    /\ pc \in {"idle", "diff", "get", "read", "ok", "refused"}
    /\ ask \in Pairs /\ file = <<ask[1], ask[2]>>
    /\ DOMAIN cache \subseteq Pairs
    /\ \A p \in DOMAIN cache : cache[p] \in Seq(Record)
    /\ body \in Seq(Record) /\ next \in 0..Len(body)
    /\ parser \in {"none", "open", "closed", "error"} \X {"none", "open", "closed", "error"}
    /\ faults \in 0..MaxFaults

\* The body is the whole difference or nothing at all, and nothing at all does
\* not pass for a document.
ReadInv ==
    /\ pc \in {"idle", "diff", "get"} => Start
    /\ body = <<>> \/ IsDelta(body, ask[1], ask[2])
    /\ body = <<>> => parser = <<"none", "none">>
    /\ diff = Seen(next)

WayInv ==
    /\ DiffInv /\ WayTypeOK
    /\ CacheHoldsDeltas /\ ReadInv /\ ReaderGetsContents

\* All that is read of a difference is typed.
LEMMA SeenType ==
    ASSUME WayTypeOK, ReadInv
    PROVE  diff \subseteq [key : Content, old : Blobs \cup {Empty},
                           new : Blobs \cup {Empty}]
  <1>1. ask[1] \in Files /\ ask[2] \in Files
    BY PairsAssumption DEF WayTypeOK
  <1>2. ASSUME NEW f \in Files, NEW k PROVE BlobOf(f, k) \in Blobs \cup {Empty}
    <2>1. CASE \E i \in DOMAIN f : f[i].key = k
      BY <2>1, BlobOfPiece, FileFacts
    <2>2. CASE \A i \in DOMAIN f : f[i].key # k
      BY <2>2, BlobOfNothing
    <2> QED BY <2>1, <2>2
  <1>3. SUFFICES ASSUME NEW r \in Seen(next)
                 PROVE  r \in [key : Content, old : Blobs \cup {Empty},
                               new : Blobs \cup {Empty}]
    BY DEF ReadInv
  <1>4. PICK i \in 1..next : r = View(body[i])
    BY DEF Seen
  <1>5. i \in DOMAIN body /\ body # <<>>
    BY <1>4 DEF WayTypeOK
  <1>6. r \in Difference(ask[1], ask[2])
    BY <1>4, <1>5 DEF ReadInv, IsDelta
  <1>7. PICK k \in Keys : r = [key |-> k, old |-> BlobOf(ask[1], k),
                               new |-> BlobOf(ask[2], k)]
    BY <1>6 DEF Difference
  <1>8. k \in Content
    BY <1>7 DEF Seen
  <1> QED BY <1>1, <1>2, <1>7, <1>8

\* One more record.
LEMMA SeenExtends ==
    ASSUME NEW n \in Nat
    PROVE  Seen(n + 1) = IF View(body[n + 1]).key \in Content
                           THEN Seen(n) \cup {View(body[n + 1])} ELSE Seen(n)
  <1>1. 1..(n + 1) = (1..n) \cup {n + 1}
    OBVIOUS
  <1> QED BY <1>1 DEF Seen

\* The whole body.
LEMMA SeenAll ==
    ASSUME WayTypeOK, IsDelta(body, ask[1], ask[2])
    PROVE  Seen(Len(body)) = {d \in Difference(ask[1], ask[2]) : d.key \in Content}
  <1>1. DOMAIN body = 1..Len(body)
    BY DEF WayTypeOK
  <1> QED BY <1>1 DEF Seen, IsDelta

LEMMA WayInit == Init => WayInv
  <1> SUFFICES ASSUME Init PROVE WayInv
    OBVIOUS
  <1>1. /\ file = <<ask[1], ask[2]>> /\ pos = <<0, 0>>
        /\ acc = <<{}, {}>> /\ out = <<>>
        /\ ask \in Pairs /\ ask[1] \in Files /\ ask[2] \in Files
    BY PairsAssumption DEF Init, DiffInit
  <1>2. DiffInv
    <2>1. DiffTypeOK
      BY <1>1, FileFacts DEF DiffTypeOK
    <2>2. \A s \in 1..2 : acc[s] = {} /\ pos[s] = 0
      BY <1>1
    <2> QED
      BY <1>1, <2>1, <2>2
      DEF DiffInv, WaitingWasRead, PoppedIsNoted, NotedIsExact
  <1>3. WayTypeOK
    BY <1>1, MaxFaultsAssumption DEF Init, WayTypeOK
  <1>4. ReadInv
    <2>1. Seen(0) = {}
      BY DEF Seen
    <2> QED BY <2>1 DEF Init, ReadInv, Start
  <1>5. CacheHoldsDeltas /\ ReaderGetsContents
    BY DEF Init, CacheHoldsDeltas, ReaderGetsContents
  <1> QED BY <1>2, <1>3, <1>4, <1>5 DEF WayInv

LEMMA WayStep == WayInv /\ [Next]_vars => WayInv'
  <1> SUFFICES ASSUME WayInv, [Next]_vars PROVE WayInv'
    OBVIOUS
  <1>0. /\ DiffInv /\ WayTypeOK /\ CacheHoldsDeltas
        /\ ReadInv /\ ReaderGetsContents
    BY DEF WayInv
  <1>1. ASSUME UNCHANGED diffVars PROVE DiffInv'
    BY <1>0, <1>1
    DEF DiffInv, DiffTypeOK, WaitingWasRead, PoppedIsNoted, NotedIsExact, Gone,
        Noted, Same, diffVars
  <1>2. ASSUME NEW p \in Pairs, Request(p) PROVE WayInv'
    <2>1. /\ ask' = p /\ DiffStart(p[1], p[2]) /\ pc' \in {"get", "diff"}
          /\ body' = <<>> /\ next' = 0 /\ parser' = <<"none", "none">>
          /\ diff' = {} /\ cache' = cache /\ faults' = faults
      BY <1>2 DEF Request
    <2>2. DiffInv'
      BY <2>1, DiffStarts, PairsAssumption
    <2>3. WayTypeOK'
      <3>1. file' = <<p[1], p[2]>>
        BY <2>1 DEF DiffStart
      <3> QED BY <1>0, <2>1, <3>1 DEF WayTypeOK
    <2>4. ReadInv'
      BY <2>1 DEF ReadInv, Start, Seen
    <2>5. CacheHoldsDeltas' /\ ReaderGetsContents'
      BY <1>0, <2>1 DEF CacheHoldsDeltas, ReaderGetsContents
    <2> QED BY <2>2, <2>3, <2>4, <2>5 DEF WayInv
  <1>3. CASE MakeDiff
    <2>1. /\ DiffNext /\ pc' = pc /\ ask' = ask /\ cache' = cache
          /\ body' = body /\ next' = next /\ parser' = parser /\ diff' = diff
          /\ faults' = faults
      BY <1>3 DEF MakeDiff, readVars
    <2>2. file' = file
      BY <2>1 DEF DiffNext, Pump, Close, Pop, Deleted, Added
    <2>3. DiffInv'
      BY <1>0, <2>1, DiffSteps
    <2> QED
      BY <1>0, <2>1, <2>2, <2>3
      DEF WayInv, WayTypeOK, CacheHoldsDeltas, ReadInv, Start, Seen,
          ReaderGetsContents
  <1>4. CASE CacheSet
    <2>1. /\ pc = "diff" /\ Finished /\ pc' = "get"
          /\ UNCHANGED diffVars /\ ask' = ask
          /\ body' = body /\ next' = next /\ parser' = parser /\ diff' = diff
          /\ faults' = faults
          /\ cache' = [p \in DOMAIN cache \cup {ask} |->
                         IF p = ask THEN out ELSE cache[p]]
      BY <1>4 DEF CacheSet, CacheKey, readVars
    <2>2. IsDelta(out, ask[1], ask[2]) /\ out \in Seq(Record)
      <3>1. IsDelta(out, file[1], file[2])
        BY <1>0, <2>1, DiffInvSuffices DEF DeltaIsDifference
      <3> QED BY <1>0, <3>1 DEF WayTypeOK, DiffInv, DiffTypeOK
    <2>3. CacheHoldsDeltas'
      BY <1>0, <2>1, <2>2 DEF CacheHoldsDeltas
    <2>4. WayTypeOK'
      BY <1>0, <2>1, <2>2 DEF WayTypeOK, diffVars
    <2>5. ReadInv' /\ ReaderGetsContents'
      BY <1>0, <2>1 DEF ReadInv, Start, Seen, ReaderGetsContents
    <2> QED BY <1>1, <2>1, <2>3, <2>4, <2>5 DEF WayInv
  <1>5. CASE DiffFail
    <2>1. /\ pc = "diff" /\ pc' = "idle" /\ UNCHANGED diffVars
          /\ ask' = ask /\ cache' = cache
          /\ body' = body /\ next' = next /\ parser' = parser /\ diff' = diff
          /\ faults < MaxFaults /\ faults' = faults + 1
      BY <1>5 DEF DiffFail, readVars
    <2>2. WayTypeOK'
      BY <1>0, <2>1, MaxFaultsAssumption DEF WayTypeOK, diffVars
    <2>3. CacheHoldsDeltas' /\ ReadInv' /\ ReaderGetsContents'
      BY <1>0, <2>1 DEF CacheHoldsDeltas, ReadInv, Start, Seen, ReaderGetsContents
    <2> QED BY <1>1, <2>1, <2>2, <2>3 DEF WayInv
  <1>6. ASSUME NEW p \in Pairs, Evict(p) PROVE WayInv'
    <2>1. /\ cache' = [q \in DOMAIN cache \ {p} |-> cache[q]]
          /\ UNCHANGED diffVars /\ pc' = pc /\ ask' = ask
          /\ body' = body /\ next' = next /\ parser' = parser /\ diff' = diff
          /\ faults < MaxFaults /\ faults' = faults + 1
      BY <1>6 DEF Evict, readVars
    <2>2. WayTypeOK'
      BY <1>0, <2>1, MaxFaultsAssumption DEF WayTypeOK, diffVars
    <2>3. CacheHoldsDeltas'
      BY <1>0, <2>1 DEF CacheHoldsDeltas
    <2>4. ReadInv' /\ ReaderGetsContents'
      BY <1>0, <2>1 DEF ReadInv, Start, Seen, ReaderGetsContents
    <2> QED BY <1>1, <2>1, <2>2, <2>3, <2>4 DEF WayInv
  <1>7. CASE Send
    <2>1. /\ pc = "get" /\ ask \in DOMAIN cache
          /\ UNCHANGED diffVars /\ ask' = ask /\ cache' = cache
          /\ next' = next /\ parser' = parser /\ diff' = diff
          /\ \/ body' = cache[ask] /\ pc' = "read" /\ faults' = faults
             \/ /\ faults < MaxFaults /\ faults' = faults + 1
                /\ body' = <<>> /\ pc' \in {"read", "refused"}
      BY <1>7 DEF Send, CacheKey
    <2>2. next = 0 /\ parser = <<"none", "none">> /\ diff = {}
      BY <1>0, <2>1 DEF ReadInv, Start
    <2>3. body' = <<>> \/ IsDelta(body', ask[1], ask[2])
      BY <1>0, <2>1 DEF CacheHoldsDeltas
    <2>4. WayTypeOK'
      <3>1. body' \in Seq(Record)
        <4>1. cache[ask] \in Seq(Record) /\ <<>> \in Seq(Record)
          BY <1>0, <2>1 DEF WayTypeOK
        <4> QED BY <2>1, <4>1
      <3>2. faults' \in 0..MaxFaults
        BY <1>0, <2>1, MaxFaultsAssumption DEF WayTypeOK
      <3>3. next' \in 0..Len(body')
        BY <2>1, <2>2, <3>1
      <3> QED BY <1>0, <2>1, <3>1, <3>2, <3>3 DEF WayTypeOK, diffVars
    <2>5. ReadInv'
      <3>1. Seen(next)' = {}
        BY <2>1, <2>2 DEF Seen
      <3> QED BY <2>1, <2>2, <2>3, <3>1 DEF ReadInv
    <2>6. CacheHoldsDeltas' /\ ReaderGetsContents'
      BY <1>0, <2>1 DEF CacheHoldsDeltas, ReaderGetsContents
    <2> QED BY <1>1, <2>1, <2>4, <2>5, <2>6 DEF WayInv
  <1>8. CASE SendNothing
    <2>1. /\ pc' = "refused" /\ UNCHANGED diffVars
          /\ ask' = ask /\ cache' = cache /\ faults' = faults
          /\ body' = body /\ next' = next /\ parser' = parser /\ diff' = diff
      BY <1>8 DEF SendNothing, readVars
    <2>2. WayTypeOK'
      BY <1>0, <2>1 DEF WayTypeOK, diffVars
    <2>3. CacheHoldsDeltas' /\ ReadInv' /\ ReaderGetsContents'
      BY <1>0, <2>1 DEF CacheHoldsDeltas, ReadInv, Start, Seen, ReaderGetsContents
    <2> QED BY <1>1, <2>1, <2>2, <2>3 DEF WayInv
  <1>9. CASE ReadRecord
    <2> DEFINE r == View(body[next + 1])
    <2>1. /\ pc = "read" /\ next < Len(body) /\ next' = next + 1
          /\ UNCHANGED diffVars /\ ask' = ask /\ cache' = cache /\ body' = body
          /\ faults' = faults /\ pc' \in {"refused", "read"}
          /\ parser' = <<Parsed(parser[1], r.key, r.old),
                         Parsed(parser[2], r.key, r.new)>>
          /\ diff' = IF r.key \in Content THEN diff \cup {r} ELSE diff
      BY <1>9 DEF ReadRecord
    <2>2. body \in Seq(Record) /\ next \in Nat /\ body # <<>>
      BY <1>0, <2>1 DEF WayTypeOK
    <2>3. ASSUME NEW st \in {"none", "open", "closed", "error"}, NEW k, NEW b
          PROVE  Parsed(st, k, b) \in {"none", "open", "closed", "error"}
      BY DEF Parsed
    <2>4. WayTypeOK'
      <3>1. parser[1] \in {"none", "open", "closed", "error"}
            /\ parser[2] \in {"none", "open", "closed", "error"}
        BY <1>0 DEF WayTypeOK
      <3>2. parser' \in {"none", "open", "closed", "error"}
                        \X {"none", "open", "closed", "error"}
        BY <2>1, <2>3, <3>1
      <3>3. next' \in 0..Len(body')
        BY <2>1, <2>2
      <3> QED BY <1>0, <2>1, <3>2, <3>3 DEF WayTypeOK, diffVars
    <2>5. diff' = Seen(next)'
      <3>1. diff' = Seen(next + 1)
        BY <1>0, <2>1, <2>2, SeenExtends DEF ReadInv
      <3> QED BY <2>1, <3>1 DEF Seen
    <2>6. ReadInv'
      BY <1>0, <2>1, <2>2, <2>5 DEF ReadInv
    <2>7. CacheHoldsDeltas' /\ ReaderGetsContents'
      BY <1>0, <2>1 DEF CacheHoldsDeltas, ReaderGetsContents
    <2> QED BY <1>1, <2>1, <2>4, <2>6, <2>7 DEF WayInv
  <1>10. CASE ReadEnd
    <2>1. /\ pc = "read" /\ next = Len(body)
          /\ UNCHANGED diffVars /\ ask' = ask /\ cache' = cache /\ faults' = faults
          /\ body' = body /\ next' = next /\ parser' = parser /\ diff' = diff
          /\ pc' = IF Complete(parser[1]) /\ Complete(parser[2])
                     THEN "ok" ELSE "refused"
      BY <1>10 DEF ReadEnd, readVars
    <2>2. WayTypeOK'
      BY <1>0, <2>1 DEF WayTypeOK, diffVars
    <2>3. CacheHoldsDeltas' /\ ReadInv'
      BY <1>0, <2>1 DEF CacheHoldsDeltas, ReadInv, Start, Seen
    <2>4. ASSUME Complete(parser[1])
          PROVE  diff = {d \in Difference(ask[1], ask[2]) : d.key \in Content}
      <3>1. body # <<>>
        BY <1>0, <2>4 DEF ReadInv, Complete
      <3> QED BY <1>0, <2>1, <3>1, SeenAll DEF ReadInv
    <2>5. ReaderGetsContents'
      BY <2>1, <2>4 DEF ReaderGetsContents
    <2> QED BY <1>1, <2>1, <2>2, <2>3, <2>5 DEF WayInv
  <1>11. CASE UNCHANGED vars
    <2>1. /\ UNCHANGED diffVars /\ pc' = pc /\ ask' = ask /\ cache' = cache
          /\ body' = body /\ next' = next /\ parser' = parser /\ diff' = diff
          /\ faults' = faults
      BY <1>11 DEF vars, readVars
    <2>2. WayTypeOK'
      BY <1>0, <2>1 DEF WayTypeOK, diffVars
    <2>3. CacheHoldsDeltas' /\ ReadInv' /\ ReaderGetsContents'
      BY <1>0, <2>1 DEF CacheHoldsDeltas, ReadInv, Start, Seen, ReaderGetsContents
    <2> QED BY <1>1, <2>1, <2>2, <2>3 DEF WayInv
  <1> QED
    BY <1>2, <1>3, <1>4, <1>5, <1>6, <1>7, <1>8, <1>9, <1>10, <1>11 DEF Next

\* The variables keep their types: every record that is read decodes to what
\* the two dumps hold.
THEOREM TypeCorrect == Spec => []TypeOK
  <1>1. ASSUME WayInv PROVE TypeOK
    <2>1. DiffTypeOK /\ WayTypeOK /\ ReadInv
      BY <1>1 DEF WayInv, DiffInv
    <2>2. diff \subseteq [key : Content, old : Blobs \cup {Empty},
                          new : Blobs \cup {Empty}]
      BY <2>1, SeenType
    <2> QED BY <2>1, <2>2 DEF WayTypeOK, TypeOK
  <1> QED BY <1>1, WayInit, WayStep, PTL DEF Spec

\* However the pipes are chunked and whatever order the dumps have,
\* iter_content_diff() writes their difference, each key once.
THEOREM DiffIsExact == Spec => []DeltaIsDifference
  <1>1. WayInv => DeltaIsDifference
    BY DiffInvSuffices DEF WayInv
  <1> QED BY <1>1, WayInit, WayStep, PTL DEF Spec

\* Whatever fails and whatever is evicted, the disk cache of giweb holds whole
\* differences of the two dumps in its key.
THEOREM CacheIsExact == Spec => []CacheHoldsDeltas
  <1>1. WayInv => CacheHoldsDeltas
    BY DEF WayInv
  <1> QED BY <1>1, WayInit, WayStep, PTL DEF Spec

\* Whatever fails, a difference that the indexer has read without an error is
\* that of the two dumps it asked for.
THEOREM ReaderIsExact == Spec => []ReaderGetsContents
  <1>1. WayInv => ReaderGetsContents
    BY DEF WayInv
  <1> QED BY <1>1, WayInit, WayStep, PTL DEF Spec
=============================================================================
