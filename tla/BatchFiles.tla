----------------------------- MODULE BatchFiles -----------------------------
(***************************************************************************)
(* decrement() of multithreading/scheduler.c, called twice by main.c: it   *)
(* cuts the training set, then the test set, into numbered batch files.    *)
(* Full batch files are written first; when their number is not a multiple *)
(* of the number of threads, the last ones are merged and cut again into   *)
(* one smaller file per thread.                                            *)
(*                                                                         *)
(* A line is its data set and its position; a file is the sequence of its  *)
(* lines.  The last line of a data set may lack its newline, in which case *)
(* feof() is true as soon as it has been read.                             *)
(***************************************************************************)
EXTENDS Integers, Sequences

CONSTANTS ExecutionThreads,   \* execution_threads
          FullBatch,          \* lines of a whole batch (512 in the code)
          MaxLines            \* bound: lines of a data set

ASSUME BatchFilesAssumption ==
  /\ ExecutionThreads \in Nat \ {0}
  /\ FullBatch \in Nat /\ FullBatch >= ExecutionThreads
  /\ MaxLines \in Nat

DataSets == {1, 2}                       \* the training set and the test set
batchsize == FullBatch \div ExecutionThreads

VARIABLES lines,         \* lines[d]: number of lines of data set d
          terminated,    \* terminated[d]: its last line ends with a newline
          d,             \* the data set decrement() works on
          taken,         \* lines of fp read so far
          batch,         \* batch[n]: the lines of batch<n>.csv, for the files on disk
          tomerge,       \* the lines of nonfullbatch.csv not yet copied back
          first_no, ncount, i, checking, linesperbatch,   \* locals of decrement
          pc,
          returned       \* returned[d]: what decrement() returned

vars == <<lines, terminated, d, taken, batch, tomerge, first_no, ncount, i,
          checking, linesperbatch, pc, returned>>

Input(s, n) == [k \in 1 .. n |-> [set |-> s, no |-> k]]
WithFile(n, content) == [m \in DOMAIN batch \cup {n} |-> IF m = n THEN content ELSE batch[m]]
WithoutFile(n) == [m \in DOMAIN batch \ {n} |-> batch[m]]

Init ==
  /\ lines \in [DataSets -> 0 .. MaxLines]
  /\ terminated \in [DataSets -> BOOLEAN]
  /\ d = 1
  /\ taken = 0
  /\ batch = <<>>
  /\ tomerge = <<>>
  /\ first_no = 1 /\ ncount = 0 /\ i = 0 /\ checking = 0 /\ linesperbatch = 0
  /\ pc = "open"
  /\ returned = [s \in DataSets |-> 0]

-----------------------------------------------------------------------------
\* Open the next batch file.
OpenBatch ==
  /\ pc = "open"
  /\ batch' = WithFile(first_no, <<>>)
  /\ ncount' = ncount + 1
  /\ first_no' = first_no + 1
  /\ i' = 0
  /\ pc' = "copy"
  /\ UNCHANGED <<lines, terminated, d, taken, tomerge, checking, linesperbatch,
                 returned>>

\* Copy a line; reading an unterminated last line sets the end-of-file flag.
CopyLine ==
  /\ pc = "copy" /\ i < batchsize /\ taken < lines[d]
  /\ batch' = [batch EXCEPT ![first_no - 1] =
                 Append(@, [set |-> d, no |-> taken + 1])]
  /\ taken' = taken + 1
  /\ IF taken' = lines[d] /\ ~terminated[d]
       THEN pc' = "check" /\ UNCHANGED i
       ELSE i' = i + 1 /\ UNCHANGED pc
  /\ UNCHANGED <<lines, terminated, d, tomerge, first_no, ncount, checking,
                 linesperbatch, returned>>

\* getline() fails: no line is left.
EndOfInput ==
  /\ pc = "copy" /\ i < batchsize /\ taken = lines[d]
  /\ pc' = "check"
  /\ UNCHANGED <<lines, terminated, d, taken, batch, tomerge, first_no, ncount,
                 i, checking, linesperbatch, returned>>

BatchFull ==
  /\ pc = "copy" /\ i = batchsize
  /\ pc' = "open"
  /\ UNCHANGED <<lines, terminated, d, taken, batch, tomerge, first_no, ncount,
                 i, checking, linesperbatch, returned>>

\* Do the files make whole rounds of one file per thread?
NothingToMerge == 0                       \* mutant: the remainder is forgotten
Remainder == ncount % ExecutionThreads
CheckRemainder ==
  /\ pc = "check"
  /\ checking' = Remainder
  /\ first_no' = first_no - Remainder
  /\ i' = 1
  /\ pc' = IF Remainder = 0 THEN "return" ELSE "merge"
  /\ UNCHANGED <<lines, terminated, d, taken, batch, tomerge, ncount,
                 linesperbatch, returned>>

\* Append one of the last files to nonfullbatch.csv and remove it.
MergeFile ==
  /\ pc = "merge" /\ i <= checking
  /\ tomerge' = tomerge \o batch[first_no]
  /\ batch' = WithoutFile(first_no)
  /\ first_no' = first_no + 1
  /\ i' = i + 1
  /\ UNCHANGED <<lines, terminated, d, taken, ncount, checking, linesperbatch,
                 pc, returned>>

\* Everything is merged: cut it into one file per thread.  `ncount' has lost
\* the merged files and gets the new ones.
LastFileOnly == first_no - 1              \* mutant: the numbers of the merged files are lost
RewoundTwice == first_no - 2 * checking   \* mutant: rewound as if not advanced in 291
RewoundFirst == first_no - checking
StartSplit ==
  /\ pc = "merge" /\ i > checking
  /\ first_no' = RewoundFirst
  /\ ncount' = ncount - checking
  /\ linesperbatch' = Len(tomerge) \div ExecutionThreads
  /\ i' = RewoundFirst
  /\ pc' = "split"
  /\ UNCHANGED <<lines, terminated, d, taken, batch, tomerge, checking, returned>>

SplitFile ==
  /\ pc = "split" /\ i < first_no + ExecutionThreads
  /\ batch' = WithFile(i, SubSeq(tomerge, 1, linesperbatch))
  /\ tomerge' = SubSeq(tomerge, linesperbatch + 1, Len(tomerge))
  /\ i' = i + 1
  /\ UNCHANGED <<lines, terminated, d, taken, first_no, ncount, checking,
                 linesperbatch, pc, returned>>

\* nonfullbatch.csv is removed with what is left in it.
EndSplit ==
  /\ pc = "split" /\ i = first_no + ExecutionThreads
  /\ ncount' = ncount + ExecutionThreads
  /\ tomerge' = <<>>
  /\ pc' = "return"
  /\ UNCHANGED <<lines, terminated, d, taken, batch, first_no, i, checking,
                 linesperbatch, returned>>

\* Where the files of the test set start, from the number of training files.
LastTrainingFile(training_files) == training_files      \* mutant: off by one
LowerBound(training_files) == training_files + 1

\* Return ncount; main goes on with the test set at lower_bound.
Return ==
  /\ pc = "return"
  /\ returned' = [returned EXCEPT ![d] = ncount]
  /\ IF d = 1
       THEN /\ d' = 2 /\ taken' = 0 /\ ncount' = 0
            /\ first_no' = LowerBound(ncount)
            /\ pc' = "open"
       ELSE /\ pc' = "done"
            /\ UNCHANGED <<d, taken, ncount, first_no>>
  /\ UNCHANGED <<lines, terminated, batch, tomerge, i, checking, linesperbatch>>

Done == pc = "done" /\ UNCHANGED vars

Next ==
  \/ OpenBatch  \/ CopyLine   \/ EndOfInput \/ BatchFull \/ CheckRemainder
  \/ MergeFile  \/ StartSplit \/ SplitFile  \/ EndSplit  \/ Return
  \/ Done

Spec == Init /\ [][Next]_vars

-----------------------------------------------------------------------------
(* Properties *)

\* Files and counters keep their types, and no file number below 1 is used.
TypeOK ==
  /\ lines \in [DataSets -> 0 .. MaxLines] /\ terminated \in [DataSets -> BOOLEAN]
  /\ d \in DataSets /\ taken \in 0 .. MaxLines
  /\ DOMAIN batch \subseteq Nat \ {0}
  /\ first_no \in Nat \ {0} /\ ncount \in Nat /\ i \in Nat
  /\ checking \in 0 .. ExecutionThreads - 1 /\ linesperbatch \in Nat
  /\ returned \in [DataSets -> Nat]

\* First file number of a data set.
FirstFile(s) == IF s = 1 THEN 1 ELSE returned[1] + 1

\* The pieces the data set is in: its files in order, with the merge file before
\* the file `mark', where its lines belong.
Files == {n \in DOMAIN batch : n >= FirstFile(d)}
Pieces(mark) == {n \in Files : n < mark} \cup {mark} \cup {n + 1 : n \in {m \in Files : m >= mark}}
Piece(n, mark) == IF n = mark THEN tomerge ELSE IF n < mark THEN batch[n] ELSE batch[n - 1]

\* The pieces hold the first `kept' lines, each of them, none twice and in order.
HoldInOrder(mark, kept) ==
  LET Number(n, k) == Piece(n, mark)[k].no
  IN /\ \A n \in Pieces(mark) : \A k \in DOMAIN Piece(n, mark) :
          Piece(n, mark)[k].set = d /\ Number(n, k) \in 1 .. kept
     /\ \A no \in 1 .. kept : \E n \in Pieces(mark) : \E k \in DOMAIN Piece(n, mark) :
          Number(n, k) = no
     /\ \A n, m \in Pieces(mark) : \A k \in DOMAIN Piece(n, mark), l \in DOMAIN Piece(m, mark) :
          n < m \/ (n = m /\ k < l) => Number(n, k) < Number(m, l)

\* At every step of the copying, merging and cutting, the files and the merge
\* file together hold every line read, once and in order; when a data set is
\* finished fewer lines are lost than there are threads.
NoLineLost ==
  IF pc \in {"open", "copy", "check", "merge", "split"}
    THEN HoldInOrder(IF pc = "split" THEN i ELSE first_no, taken)
    ELSE \E kept \in 0 .. lines[d] : /\ kept + ExecutionThreads > lines[d]
                                     /\ HoldInOrder(first_no, kept)

\* What main relies on: both counts are whole rounds of one file per thread
\* (its assertions) and at least one, even of an empty data set, so that no
\* thread waits for a job that never comes; and the files on disk are exactly
\* 1, 2, ... up to the sum of the counts, without gap, so that the loop that submits
\* the jobs and the loop that removes the files name files that exist.
FilesMatchCounts ==
  pc = "done" => /\ \A s \in DataSets : returned[s] > 0 /\ returned[s] % ExecutionThreads = 0
                 /\ DOMAIN batch = 1 .. returned[1] + returned[2]

\* No file of one data set holds a line of the other, and no line of the
\* training set is ever touched while the test set is cut.
DataSetsStayApart ==
  \A n \in DOMAIN batch : \A k \in DOMAIN batch[n] :
     batch[n][k].set = IF d = 2 /\ n > returned[1] THEN 2 ELSE 1

\* Each round of the training set, one file per thread, has a line to compute from:
\* the master divides by the number of lines of the round (scheduler.c:147-159), and
\* scheduler.h:43-48 says that smaller batches are calculated correctly, here for
\* training sets of at least one full batch.  (Of the test set the master only adds up
\* the lines, which a round without any does no harm to.)
NoEmptyTrainingRound ==
  pc = "done" /\ lines[1] >= FullBatch =>
    \A r \in 1 .. returned[1] \div ExecutionThreads :
      \E n \in (r - 1) * ExecutionThreads + 1 .. r * ExecutionThreads : batch[n] # <<>>
=============================================================================
