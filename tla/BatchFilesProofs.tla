--------------------------- MODULE BatchFilesProofs ---------------------------
(***************************************************************************)
(* Theorems about BatchFiles, for any number of threads, any size of a     *)
(* batch and data sets of any length: the types, the numbers of the files, *)
(* which data set a file belongs to, and that no line is lost but fewer    *)
(* than there are threads.                                                 *)
(***************************************************************************)
EXTENDS BatchFiles, TLAPS

\* The first file of the data set that decrement() works on.
Base == FirstFile(d)

\* The lines of a whole files, and of a files of l lines each.
WholeLines(a) == a * batchsize
CutLines(a, l) == a * l

\* The lines of data set s that follow the first `after', as many as `length'.
Line == [set : DataSets, no : Nat]
Stretch(s, after, length) == [k \in 1 .. length |-> [set |-> s, no |-> after + k]]

\* The files and the merge file hold lines.
FilesOK == batch \in [DOMAIN batch -> Seq(Line)] /\ tomerge \in Seq(Line)

WholeRounds(n) == n % ExecutionThreads = 0

\* Which numbers the files have, by where decrement() is.
NumbersOK ==
  /\ d = 2 => returned[1] > 0 /\ WholeRounds(returned[1])
  /\ pc \in {"open", "copy", "check"} =>
       /\ first_no = Base + ncount /\ DOMAIN batch = 1 .. first_no - 1
       /\ pc # "open" => ncount > 0
  /\ pc = "merge" =>
       /\ checking \in 1 .. ncount /\ checking < ExecutionThreads
       /\ WholeRounds(ncount - checking)
       /\ i \in 1 .. checking + 1
       /\ first_no - i + 1 + checking = Base + ncount
       /\ DOMAIN batch = (1 .. first_no - i) \cup (first_no .. Base + ncount - 1)
  /\ pc = "split" =>
       /\ WholeRounds(ncount) /\ first_no = Base + ncount
       /\ i \in first_no .. first_no + ExecutionThreads
       /\ DOMAIN batch = 1 .. i - 1
  /\ pc = "return" =>
       /\ ncount > 0 /\ WholeRounds(ncount) /\ DOMAIN batch = 1 .. Base + ncount - 1
  /\ pc = "done" =>
       /\ d = 2 /\ returned[2] > 0 /\ WholeRounds(returned[2]) /\ returned[2] = ncount
       /\ DOMAIN batch = 1 .. returned[1] + returned[2]

Places == {"open", "copy", "check", "merge", "split", "return", "done"}

\* The files from .. to are whole; file n is the last one and holds the rest; the
\* files first_no .. to are cut from what was merged.
WholeFiles(from, to) ==
  \A n \in from .. to : batch[n] = Stretch(d, WholeLines(n - Base), batchsize)
Rest(n) == taken - WholeLines(n - Base)
LastFile(n) == Rest(n) \in 0 .. batchsize /\ batch[n] = Stretch(d, WholeLines(n - Base), Rest(n))
CutBefore(n) == WholeLines(first_no - Base) + CutLines(n - first_no, linesperbatch)
CutFiles(to) ==
  /\ first_no >= Base /\ Rest(first_no) >= 0
  /\ linesperbatch = Rest(first_no) \div ExecutionThreads
  /\ \A n \in first_no .. to : batch[n] = Stretch(d, CutBefore(n), linesperbatch)

\* The file that the merging began with, and the last file.
MergedFrom == first_no - i + 1
LastNumber == Base + ncount - 1

\* Which lines every file and the merge file hold.
LinesOK ==
  /\ d = 2 => \A n \in 1 .. returned[1] : batch[n] \in Seq([set : {1}, no : Nat])
  /\ taken <= lines[d]
  /\ pc \notin {"open", "copy"} => taken = lines[d]
  /\ pc \notin {"merge", "split"} => tomerge = <<>>
  /\ pc = "open" => WholeFiles(Base, first_no - 1) /\ Rest(first_no) = 0
  /\ pc \in {"copy", "check"} => WholeFiles(Base, first_no - 2) /\ LastFile(first_no - 1)
  /\ pc = "copy" => i = Rest(first_no - 1)
  /\ pc = "merge" =>
       /\ WholeFiles(Base, MergedFrom - 1) /\ WholeFiles(first_no, LastNumber - 1)
       /\ i <= checking => LastFile(LastNumber)
       /\ Rest(LastNumber) \in 0 .. batchsize
       /\ tomerge = Stretch(d, WholeLines(MergedFrom - Base),
                            IF i > checking THEN Rest(MergedFrom)
                            ELSE WholeLines(first_no - Base) - WholeLines(MergedFrom - Base))
  /\ pc = "split" =>
       /\ WholeFiles(Base, first_no - 1) /\ CutFiles(i - 1)
       /\ tomerge = Stretch(d, CutBefore(i), taken - CutBefore(i))
  /\ pc \in {"return", "done"} =>
       \/ /\ first_no = Base + ncount /\ ncount > 0
          /\ WholeFiles(Base, first_no - 2) /\ LastFile(first_no - 1)
       \/ /\ first_no + ExecutionThreads = Base + ncount
          /\ WholeFiles(Base, first_no - 1) /\ CutFiles(first_no + ExecutionThreads - 1)

\* The inductive invariant.
NInv == TypeOK /\ pc \in Places /\ FilesOK /\ NumbersOK
IInv == NInv /\ LinesOK

-----------------------------------------------------------------------------
(* Arithmetic of files. *)

\* A whole file holds a line: 512 lines and no more threads than that.
LEMMA BatchsizePositive == batchsize \in Nat \ {0}
BY BatchFilesAssumption DEF batchsize

\* A multiple of the number of threads makes whole rounds.
LEMMA MultiplesAreWhole ==
  ASSUME NEW q \in Nat
  PROVE  WholeRounds(ExecutionThreads * q)
BY BatchFilesAssumption DEF WholeRounds

\* What CheckRemainder and EndSplit make of the number of files.
LEMMA RemainderFacts ==
  ASSUME NEW n \in Nat
  PROVE  /\ n % ExecutionThreads \in 0 .. ExecutionThreads - 1
         /\ n % ExecutionThreads <= n
         /\ WholeRounds(n - (n % ExecutionThreads))
         /\ WholeRounds(n) => WholeRounds(n + ExecutionThreads)
<1> DEFINE q == n \div ExecutionThreads
<1>1. n = ExecutionThreads * q + (n % ExecutionThreads) /\ q \in Nat
  BY BatchFilesAssumption
<1>2. n % ExecutionThreads \in 0 .. ExecutionThreads - 1 /\ n % ExecutionThreads <= n
  BY BatchFilesAssumption
<1>3. n - (n % ExecutionThreads) = ExecutionThreads * q
  BY <1>1, <1>2, BatchFilesAssumption
<1>4. ASSUME WholeRounds(n) PROVE n + ExecutionThreads = ExecutionThreads * (q + 1)
  BY <1>1, <1>4, BatchFilesAssumption DEF WholeRounds
<1> QED
  BY <1>1, <1>2, <1>3, <1>4, MultiplesAreWhole

\* Whole files hold a multiple of batchsize.
LEMMA WholeLinesFacts ==
  ASSUME NEW a \in Nat
  PROVE  /\ WholeLines(a) \in Nat /\ WholeLines(0) = 0
         /\ WholeLines(a + 1) = WholeLines(a) + batchsize
         /\ \A b \in Nat : a < b => WholeLines(a) + batchsize <= WholeLines(b)
<1> USE BatchsizePositive DEF WholeLines
<1>1. WholeLines(a) \in Nat /\ WholeLines(0) = 0 /\ WholeLines(a + 1) = WholeLines(a) + batchsize
  OBVIOUS
<1>2. ASSUME NEW b \in Nat, a < b PROVE WholeLines(a) + batchsize <= WholeLines(b)
  <2>1. a + 1 <= b
    BY <1>2
  <2>2. (a + 1) * batchsize <= b * batchsize
    BY <2>1
  <2> QED
    BY <1>1, <2>2
<1> QED
  BY <1>1, <1>2

\* More whole files do not hold fewer lines.
LEMMA WholeLinesGrow ==
  ASSUME NEW a \in Nat, NEW b \in Nat, a <= b
  PROVE  WholeLines(a) <= WholeLines(b)
<1>1. CASE a = b
  BY <1>1, WholeLinesFacts
<1>2. CASE a < b
  BY <1>2, WholeLinesFacts, BatchsizePositive
<1> QED
  BY <1>1, <1>2

\* The same of files of l lines.
LEMMA CutLinesFacts ==
  ASSUME NEW a \in Nat, NEW l \in Nat
  PROVE  /\ CutLines(a, l) \in Nat /\ CutLines(0, l) = 0
         /\ CutLines(a + 1, l) = CutLines(a, l) + l
         /\ \A b \in Nat : a < b => CutLines(a, l) + l <= CutLines(b, l)
<1> USE DEF CutLines
<1>1. CutLines(a, l) \in Nat /\ CutLines(0, l) = 0 /\ CutLines(a + 1, l) = CutLines(a, l) + l
  OBVIOUS
<1>2. ASSUME NEW b \in Nat, a < b PROVE CutLines(a, l) + l <= CutLines(b, l)
  <2>1. a + 1 <= b
    BY <1>2
  <2>2. (a + 1) * l <= b * l
    BY <2>1
  <2> QED
    BY <1>1, <2>2
<1> QED
  BY <1>1, <1>2

\* One file for each thread takes all but fewer lines than there are threads.
LEMMA CutsFit ==
  ASSUME NEW r \in Nat
  PROVE  LET l == r \div ExecutionThreads
         IN /\ l \in Nat /\ CutLines(ExecutionThreads, l) <= r
            /\ r < CutLines(ExecutionThreads, l) + ExecutionThreads
BY BatchFilesAssumption DEF CutLines

-----------------------------------------------------------------------------
(* Stretches of lines. *)

\* A stretch is a sequence of lines, numbered from the one after `a'.
LEMMA StretchFacts ==
  ASSUME NEW s \in DataSets, NEW a \in Nat, NEW l \in Nat
  PROVE  /\ Stretch(s, a, l) \in Seq(Line) /\ Len(Stretch(s, a, l)) = l
         /\ DOMAIN Stretch(s, a, l) = 1 .. l
         /\ \A k \in 1 .. l : Stretch(s, a, l)[k] = [set |-> s, no |-> a + k]
<1>1. \A k \in 1 .. l : [set |-> s, no |-> a + k] \in Line
  BY DEF Line
<1> QED
  BY <1>1 DEF Stretch

\* A stretch of no lines is the empty file.
LEMMA StretchEmpty ==
  ASSUME NEW s \in DataSets, NEW a \in Nat
  PROVE  Stretch(s, a, 0) = <<>>
BY StretchFacts

\* The next line makes a stretch longer.
LEMMA StretchAppend ==
  ASSUME NEW s \in DataSets, NEW a \in Nat, NEW l \in Nat
  PROVE  Append(Stretch(s, a, l), [set |-> s, no |-> a + l + 1]) = Stretch(s, a, l + 1)
BY DEF Stretch

\* Two stretches of which the second continues the first are one.
LEMMA StretchConcat ==
  ASSUME NEW s \in DataSets, NEW a \in Nat, NEW l \in Nat, NEW m \in Nat
  PROVE  Stretch(s, a, l) \o Stretch(s, a + l, m) = Stretch(s, a, l + m)
BY DEF Stretch

\* A stretch cut in two is two stretches.
LEMMA StretchCut ==
  ASSUME NEW s \in DataSets, NEW a \in Nat, NEW l \in Nat, NEW m \in 0 .. l
  PROVE  /\ SubSeq(Stretch(s, a, l), 1, m) = Stretch(s, a, m)
         /\ SubSeq(Stretch(s, a, l), m + 1, l) = Stretch(s, a + m, l - m)
<1>1. SubSeq(Stretch(s, a, l), 1, m) = Stretch(s, a, m)
  BY DEF Stretch
<1>2. SubSeq(Stretch(s, a, l), m + 1, l) = Stretch(s, a + m, l - m)
  BY DEF Stretch
<1> QED
  BY <1>1, <1>2

-----------------------------------------------------------------------------
(* The numbers of the files. *)

\* No file exists at first.
LEMMA InitNumbers == Init => NInv
<1> SUFFICES ASSUME Init PROVE NInv
  OBVIOUS
<1> USE BatchFilesAssumption DEF Init
<1>1. TypeOK
  BY DEF TypeOK, DataSets
<1>2. FilesOK
  BY DEF FilesOK
<1>3. NumbersOK
  BY DEF NumbersOK, Base, FirstFile
<1> QED
  BY <1>1, <1>2, <1>3 DEF NInv, Places

\* When the merged lines are cut, what is not cut yet is enough for the files that
\* are still to be written.
LEMMA CutsAreThere ==
  ASSUME IInv, pc = "split"
  PROVE  /\ Rest(first_no) \in Nat /\ CutBefore(i) \in Nat /\ CutBefore(i) <= taken
         /\ linesperbatch \in Nat /\ CutBefore(i + 1) = CutBefore(i) + linesperbatch
         /\ i < first_no + ExecutionThreads => linesperbatch <= taken - CutBefore(i)
<1> DEFINE k == i - first_no
           total == WholeLines(first_no - Base)
<1>1. /\ i \in first_no .. first_no + ExecutionThreads /\ first_no = Base + ncount
      /\ taken \in Nat /\ first_no \in Nat /\ ncount \in Nat
  BY DEF IInv, NInv, NumbersOK, TypeOK
<1>2. CutFiles(i - 1)
  BY DEF IInv, LinesOK
<1>3. Base \in Nat
  BY DEF IInv, NInv, TypeOK, Base, FirstFile, DataSets
<1>4. k \in Nat /\ k <= ExecutionThreads /\ i = first_no + k /\ first_no - Base \in Nat
  BY <1>1, <1>3, BatchFilesAssumption
<1>5. total \in Nat
  BY <1>4, WholeLinesFacts
<1>6. Rest(first_no) \in Nat /\ Rest(first_no) = taken - total
  BY <1>1, <1>2, <1>5 DEF CutFiles, Rest
<1>7. /\ linesperbatch \in Nat
      /\ CutLines(ExecutionThreads, linesperbatch) <= Rest(first_no)
  BY <1>2, <1>6, CutsFit DEF CutFiles
<1>8. /\ CutBefore(i) = total + CutLines(k, linesperbatch)
      /\ CutBefore(i + 1) = total + CutLines(k + 1, linesperbatch)
  <2>1. (i + 1) - first_no = k + 1
    BY <1>1, <1>4
  <2> QED
    BY <2>1 DEF CutBefore
<1> HIDE DEF k, total
<1>9. /\ CutLines(k, linesperbatch) \in Nat
      /\ CutLines(k + 1, linesperbatch) = CutLines(k, linesperbatch) + linesperbatch
      /\ CutLines(ExecutionThreads, linesperbatch) \in Nat
      /\ k < ExecutionThreads =>
           CutLines(k, linesperbatch) + linesperbatch <= CutLines(ExecutionThreads, linesperbatch)
  BY <1>4, <1>7, CutLinesFacts, BatchFilesAssumption
<1>10. CutLines(k, linesperbatch) <= CutLines(ExecutionThreads, linesperbatch)
  BY <1>4, <1>7, <1>9, BatchFilesAssumption
<1>11. k < ExecutionThreads <=> i < first_no + ExecutionThreads
  BY <1>1, <1>4, BatchFilesAssumption
<1> QED
  BY <1>1, <1>5, <1>6, <1>7, <1>8, <1>9, <1>10, <1>11

\* Every step keeps the types and the numbers.
LEMMA NextNumbers == IInv /\ [Next]_vars => NInv'
<1> SUFFICES ASSUME IInv, [Next]_vars PROVE NInv'
  OBVIOUS
<1>11. NInv
  BY DEF IInv
<1> USE <1>11, BatchFilesAssumption DEF NInv, Places, DataSets
<1>0. Base \in Nat \ {0}
  BY DEF TypeOK, Base, FirstFile
<1>1. CASE OpenBatch
  <2>1. TypeOK'
    BY <1>1 DEF OpenBatch, TypeOK, WithFile
  <2>2. FilesOK'
    BY <1>1 DEF OpenBatch, FilesOK, WithFile
  <2>3. NumbersOK'
    BY <1>1 DEF OpenBatch, NumbersOK, TypeOK, WithFile, Base, FirstFile
  <2> QED
    BY <1>1, <2>1, <2>2, <2>3 DEF OpenBatch
<1>2. CASE CopyLine
  <2>1. TypeOK'
    BY <1>2 DEF CopyLine, TypeOK
  <2>2. FilesOK'
    <3>1. [set |-> d, no |-> taken + 1] \in Line
      BY DEF TypeOK, Line
    <3>2. first_no - 1 \in DOMAIN batch
      BY <1>0, <1>2 DEF CopyLine, NumbersOK, TypeOK
    <3> QED
      BY <1>2, <3>1, <3>2 DEF CopyLine, FilesOK
  <2>3. NumbersOK'
    BY <1>2 DEF CopyLine, NumbersOK, TypeOK, Base, FirstFile
  <2> QED
    BY <1>2, <2>1, <2>2, <2>3 DEF CopyLine
<1>3. CASE EndOfInput \/ BatchFull
  BY <1>3 DEF EndOfInput, BatchFull, TypeOK, FilesOK, NumbersOK, Base, FirstFile
<1>4. CASE CheckRemainder
  <2>1. /\ Remainder \in 0 .. ExecutionThreads - 1 /\ Remainder <= ncount
        /\ WholeRounds(ncount - Remainder)
    BY RemainderFacts DEF Remainder, TypeOK
  <2>2. /\ first_no = Base + ncount /\ first_no' = Base + ncount - Remainder
        /\ checking' = Remainder /\ i' = 1
        /\ UNCHANGED <<lines, terminated, d, taken, batch, tomerge, ncount, linesperbatch, returned>>
        /\ DOMAIN batch = 1 .. first_no - 1
    <3>1. pc = "check" /\ ncount \in Nat
      BY <1>4 DEF CheckRemainder, TypeOK
    <3>2. first_no = Base + ncount /\ DOMAIN batch = 1 .. first_no - 1
      BY <3>1 DEF NumbersOK
    <3>3. /\ first_no' = first_no - Remainder /\ checking' = Remainder /\ i' = 1
          /\ UNCHANGED <<lines, terminated, d, taken, batch, tomerge, ncount, linesperbatch, returned>>
      BY <1>4 DEF CheckRemainder
    <3> QED
      BY <1>0, <2>1, <3>1, <3>2, <3>3
  <2>3. TypeOK' /\ FilesOK'
    <3>1. first_no' \in Nat \ {0} /\ checking' \in 0 .. ExecutionThreads - 1 /\ i' \in Nat
      BY <1>0, <2>1, <2>2 DEF TypeOK
    <3>2. TypeOK'
      BY <2>2, <3>1 DEF TypeOK
    <3> QED
      BY <2>2, <3>2 DEF FilesOK
  <2>4. NumbersOK'
    <3>1. Base' = Base /\ ncount \in Nat /\ Remainder \in Nat
      BY <2>1, <2>2 DEF Base, FirstFile, TypeOK
    <3>2. CASE Remainder = 0
      BY <1>0, <1>4, <2>1, <2>2, <3>1, <3>2 DEF CheckRemainder, NumbersOK
    <3>3. CASE Remainder # 0
      <4>1. pc' = "merge"
        BY <1>4, <3>3 DEF CheckRemainder
      <4>2. DOMAIN batch' = (1 .. first_no' - i') \cup (first_no' .. Base + ncount - 1)
        BY <1>0, <2>1, <2>2, <3>1
      <4> QED
        BY <1>0, <2>1, <2>2, <3>1, <3>3, <4>1, <4>2 DEF NumbersOK
    <3> QED
      BY <3>2, <3>3
  <2> QED
    BY <1>4, <2>3, <2>4 DEF CheckRemainder
<1>5. CASE MergeFile
  <2>1. first_no \in DOMAIN batch /\ checking \in Nat /\ i \in Nat
    BY <1>0, <1>5 DEF MergeFile, NumbersOK, TypeOK
  <2>2. TypeOK'
    BY <1>5 DEF MergeFile, TypeOK, WithoutFile
  <2>3. FilesOK'
    BY <1>5, <2>1 DEF MergeFile, FilesOK, WithoutFile
  <2>4. NumbersOK'
    BY <1>0, <1>5 DEF MergeFile, NumbersOK, TypeOK, WithoutFile, Base, FirstFile
  <2> QED
    BY <1>5, <2>2, <2>3, <2>4 DEF MergeFile
<1>6. CASE StartSplit
  <2>1. Len(tomerge) \div ExecutionThreads \in Nat
    <3>1. Len(tomerge) \in Nat
      BY DEF FilesOK
    <3> QED
      BY <3>1, CutsFit
  <2>2. RewoundFirst = Base + ncount - checking /\ ncount - checking \in Nat
    BY <1>0, <1>6 DEF StartSplit, NumbersOK, TypeOK, RewoundFirst
  <2>3. TypeOK'
    BY <1>0, <1>6, <2>1, <2>2 DEF StartSplit, TypeOK, NumbersOK
  <2>4. FilesOK'
    BY <1>6 DEF StartSplit, FilesOK
  <2>5. NumbersOK'
    <3>1. /\ pc = "merge" /\ pc' = "split" /\ i = checking + 1
          /\ first_no' = RewoundFirst /\ i' = RewoundFirst /\ ncount' = ncount - checking
          /\ UNCHANGED <<d, batch, checking, returned>>
      BY <1>6 DEF StartSplit, NumbersOK, TypeOK
    <3>2. first_no = Base + ncount
      BY <1>0, <3>1 DEF NumbersOK, TypeOK
    <3>3. Base' = Base /\ ncount \in Nat /\ checking \in Nat
      BY <3>1 DEF Base, FirstFile, TypeOK
    <3>4. DOMAIN batch' = 1 .. i' - 1
      BY <1>0, <2>2, <3>1, <3>2, <3>3 DEF NumbersOK
    <3>5. WholeRounds(ncount')
      BY <3>1 DEF NumbersOK
    <3> QED
      BY <1>0, <2>2, <3>1, <3>3, <3>4, <3>5 DEF NumbersOK
  <2> QED
    BY <1>6, <2>3, <2>4, <2>5 DEF StartSplit
<1>7. CASE SplitFile
  <2>1. TypeOK'
    BY <1>7 DEF SplitFile, TypeOK, WithFile, NumbersOK
  <2>2. FilesOK'
    <3>1. /\ linesperbatch \in 0 .. Len(tomerge) /\ tomerge \in Seq(Line)
      <4>1. tomerge = Stretch(d, CutBefore(i), taken - CutBefore(i))
        BY <1>7 DEF SplitFile, IInv, LinesOK
      <4> QED
        <5>1. /\ CutBefore(i) \in Nat /\ taken \in Nat /\ linesperbatch \in Nat
              /\ linesperbatch <= taken - CutBefore(i)
          BY <1>7, CutsAreThere DEF SplitFile, TypeOK
        <5>2. PICK a \in Nat, l \in Nat : tomerge = Stretch(d, a, l) /\ linesperbatch <= l
          BY <4>1, <5>1
        <5>3. d \in DataSets
          BY DEF TypeOK
        <5>4. Stretch(d, a, l) \in Seq(Line) /\ Len(Stretch(d, a, l)) = l
          BY <5>3, StretchFacts
        <5> QED
          BY <5>1, <5>2, <5>4
    <3>2. /\ SubSeq(tomerge, 1, linesperbatch) \in Seq(Line)
          /\ SubSeq(tomerge, linesperbatch + 1, Len(tomerge)) \in Seq(Line)
      BY <3>1
    <3> QED
      BY <1>7, <3>2 DEF SplitFile, FilesOK, WithFile
  <2>3. NumbersOK'
    BY <1>7 DEF SplitFile, NumbersOK, TypeOK, WithFile, Base, FirstFile
  <2> QED
    BY <1>7, <2>1, <2>2, <2>3 DEF SplitFile
<1>8. CASE EndSplit
  <2>1. WholeRounds(ncount + ExecutionThreads)
    BY <1>8, RemainderFacts DEF EndSplit, NumbersOK, TypeOK
  <2>2. TypeOK' /\ FilesOK'
    BY <1>8 DEF EndSplit, TypeOK, FilesOK
  <2>3. NumbersOK'
    BY <1>8, <2>1 DEF EndSplit, NumbersOK, TypeOK, Base, FirstFile
  <2> QED
    BY <1>8, <2>2, <2>3 DEF EndSplit
<1>9. CASE Return
  <2>1. TypeOK' /\ FilesOK'
    <3>1. ncount \in Nat /\ d \in DataSets /\ returned \in [DataSets -> Nat]
      BY <1>9 DEF TypeOK
    <3>2. returned' \in [DataSets -> Nat]
      BY <1>9, <3>1 DEF Return
    <3>3. LowerBound(ncount) \in Nat \ {0}
      BY <3>1 DEF LowerBound
    <3>4. CASE d = 1
      BY <1>9, <3>2, <3>3, <3>4 DEF Return, TypeOK, FilesOK, DataSets
    <3>5. CASE d # 1
      BY <1>9, <3>2, <3>5 DEF Return, TypeOK, FilesOK
    <3> QED
      BY <3>4, <3>5
  <2>2. NumbersOK'
    <3>1. CASE d = 1
      BY <1>9, <3>1 DEF Return, LowerBound, NumbersOK, TypeOK, Base, FirstFile, WholeRounds
    <3>2. CASE d # 1
      BY <1>9, <3>2 DEF Return, NumbersOK, TypeOK, Base, FirstFile, WholeRounds
    <3> QED
      BY <3>1, <3>2
  <2> QED
    BY <1>9, <2>1, <2>2 DEF Return
<1>10. CASE UNCHANGED vars
  BY <1>10 DEF vars, TypeOK, FilesOK, NumbersOK, Base, FirstFile
<1> QED
  BY <1>1, <1>2, <1>3, <1>4, <1>5, <1>6, <1>7, <1>8, <1>9, <1>10 DEF Next, Done

-----------------------------------------------------------------------------
(* The lines in the files. *)

\* Nothing is read at first.
LEMMA InitLines == Init => LinesOK
<1> SUFFICES ASSUME Init PROVE LinesOK
  OBVIOUS
<1>1. Base = 1 /\ first_no = 1 /\ WholeLines(first_no - Base) = 0
  BY WholeLinesFacts DEF Init, Base, FirstFile
<1>2. lines[d] \in Nat /\ taken = 0
  BY BatchFilesAssumption DEF Init, DataSets
<1> QED
  BY <1>1, <1>2 DEF Init, LinesOK, WholeFiles, Rest

\* What the steps that write or read files are about.
LEMMA BaseFacts ==
  ASSUME IInv
  PROVE  /\ Base \in Nat \ {0} /\ d \in DataSets /\ ncount \in Nat /\ taken \in Nat
         /\ first_no \in Nat \ {0} /\ i \in Nat
         /\ d = 2 => Base = returned[1] + 1 /\ returned[1] \in Nat
         /\ d = 1 => Base = 1
         /\ UNCHANGED <<d, returned>> => Base' = Base
         /\ tomerge \in Seq(Line) /\ batch \in [DOMAIN batch -> Seq(Line)]
BY DEF IInv, NInv, TypeOK, FilesOK, Base, FirstFile, DataSets

\* A new file is opened after whole ones; it holds nothing yet.
LEMMA OpenBatchLines == IInv /\ OpenBatch => LinesOK'
<1> SUFFICES ASSUME IInv, OpenBatch PROVE LinesOK'
  OBVIOUS
<1>0. /\ Base \in Nat \ {0} /\ d \in DataSets /\ ncount \in Nat /\ first_no \in Nat
      /\ d = 2 => Base = returned[1] + 1 /\ returned[1] \in Nat
  BY BaseFacts
<1>1. /\ pc = "open" /\ pc' = "copy" /\ first_no' = first_no + 1 /\ i' = 0
      /\ batch' = WithFile(first_no, <<>>)
      /\ UNCHANGED <<lines, d, taken, tomerge, returned>> /\ Base' = Base
  BY BaseFacts DEF OpenBatch
<1>2. first_no = Base + ncount /\ DOMAIN batch = 1 .. first_no - 1
  BY <1>0, <1>1 DEF IInv, NInv, NumbersOK
<1>3. /\ \A n \in 1 .. first_no - 1 : batch'[n] = batch[n]
      /\ batch'[first_no] = <<>>
  BY <1>0, <1>1, <1>2 DEF WithFile
<1>4. WholeFiles(Base, first_no - 1) /\ Rest(first_no) = 0
  BY <1>0, <1>1 DEF IInv, LinesOK
<1>5. \A n \in Base .. first_no - 1 :
        batch'[n] = Stretch(d, WholeLines(n - Base), batchsize)
  BY <1>0, <1>1, <1>2, <1>3, <1>4 DEF WholeFiles
<1>6. /\ batch'[first_no] = Stretch(d, WholeLines(first_no - Base), 0)
      /\ taken - WholeLines(first_no - Base) = 0
  <2>1. first_no - Base \in Nat
    BY <1>0, <1>2
  <2>2. Stretch(d, WholeLines(first_no - Base), 0) = <<>>
    BY <1>0, <2>1, StretchEmpty, WholeLinesFacts
  <2> QED
    BY <1>3, <1>4, <2>2 DEF Rest
<1>7. first_no' - 1 = first_no /\ first_no' - 2 = first_no - 1
  BY <1>0, <1>1
<1>8. WholeFiles(Base, first_no - 2)' /\ LastFile(first_no - 1)' /\ Rest(first_no - 1)' = 0
  BY <1>0, <1>1, <1>5, <1>6, <1>7, BatchsizePositive DEF WholeFiles, LastFile, Rest
<1> QED
  BY <1>0, <1>1, <1>2, <1>3, <1>8 DEF IInv, LinesOK

\* The line that is copied is the next one of the last file.
LEMMA CopyLineLines == IInv /\ CopyLine => LinesOK'
<1> SUFFICES ASSUME IInv, CopyLine PROVE LinesOK'
  OBVIOUS
<1> DEFINE last == first_no - 1
           before == WholeLines(last - Base)
<1>0. /\ Base \in Nat \ {0} /\ d \in DataSets /\ ncount \in Nat /\ first_no \in Nat
      /\ taken \in Nat /\ lines[d] \in Nat
      /\ d = 2 => Base = returned[1] + 1 /\ returned[1] \in Nat
  BY BaseFacts, BatchFilesAssumption DEF IInv, NInv, TypeOK
<1>1. /\ pc = "copy" /\ pc' \in {"copy", "check"} /\ i < batchsize /\ taken < lines[d]
      /\ taken' = taken + 1
      /\ batch' = [batch EXCEPT ![last] = Append(@, [set |-> d, no |-> taken + 1])]
      /\ pc' = "copy" => i' = i + 1
      /\ pc' = "check" => taken' = lines[d]
      /\ UNCHANGED <<lines, d, tomerge, first_no, returned>> /\ Base' = Base
  BY BaseFacts DEF CopyLine
<1>2. /\ first_no = Base + ncount /\ DOMAIN batch = 1 .. last
      /\ ncount > 0 /\ last \in Nat /\ last >= Base /\ last - Base \in Nat
  BY <1>0, <1>1 DEF IInv, NInv, NumbersOK
<1>3. /\ \A n \in 1 .. last - 1 : batch'[n] = batch[n]
      /\ batch'[last] = Append(batch[last], [set |-> d, no |-> taken + 1])
  BY <1>0, <1>1, <1>2
<1>4. /\ WholeFiles(Base, first_no - 2) /\ first_no - 2 = last - 1
      /\ Rest(last) \in 0 .. batchsize /\ batch[last] = Stretch(d, before, Rest(last))
      /\ i = Rest(last) /\ Rest(last) = taken - before
  BY <1>0, <1>1 DEF IInv, LinesOK, LastFile, Rest
<1>5. before \in Nat /\ batchsize \in Nat
  BY <1>2, WholeLinesFacts, BatchsizePositive
<1> HIDE DEF last, before
<1>6. batch'[last] = Stretch(d, before, i + 1)
  <2>1. taken + 1 = before + i + 1 /\ i \in Nat
    BY <1>0, <1>4, <1>5
  <2>2. Append(Stretch(d, before, i), [set |-> d, no |-> before + i + 1])
          = Stretch(d, before, i + 1)
    BY <1>0, <1>5, <2>1, StretchAppend
  <2> QED
    BY <1>3, <1>4, <2>1, <2>2
<1>7. taken' - before = i + 1 /\ i + 1 \in 0 .. batchsize
  BY <1>0, <1>1, <1>4, <1>5
<1>8. \A n \in Base .. last - 1 : batch'[n] = Stretch(d, WholeLines(n - Base), batchsize)
  BY <1>0, <1>2, <1>3, <1>4 DEF WholeFiles
<1>9. WholeFiles(Base, first_no - 2)'
  BY <1>1, <1>4, <1>8 DEF WholeFiles
<1>10. LastFile(first_no - 1)' /\ Rest(first_no - 1)' = i + 1
  BY <1>1, <1>6, <1>7 DEF LastFile, Rest, last, before
<1> QED
  BY <1>0, <1>1, <1>2, <1>3, <1>9, <1>10 DEF IInv, LinesOK

\* The last file is full, or the data set ends in it.
LEMMA EndOfFileLines == IInv /\ (EndOfInput \/ BatchFull) => LinesOK'
<1> SUFFICES ASSUME IInv, EndOfInput \/ BatchFull PROVE LinesOK'
  OBVIOUS
<1> DEFINE last == first_no - 1
<1>0. /\ Base \in Nat \ {0} /\ d \in DataSets /\ ncount \in Nat /\ first_no \in Nat
      /\ taken \in Nat /\ batchsize \in Nat
  BY BaseFacts, BatchsizePositive
<1>1. /\ pc = "copy"
      /\ UNCHANGED <<lines, d, taken, batch, tomerge, first_no, i, returned>> /\ Base' = Base
  BY BaseFacts DEF EndOfInput, BatchFull
<1>2. /\ first_no = Base + ncount /\ ncount > 0 /\ last \in Nat /\ last >= Base
      /\ last - Base \in Nat
  BY <1>0, <1>1 DEF IInv, NInv, NumbersOK
<1>3. WholeFiles(Base, first_no - 2) /\ LastFile(last) /\ i = Rest(last)
  BY <1>1 DEF IInv, LinesOK
<1>4. CASE EndOfInput
  <2>1. pc' = "check" /\ taken = lines[d]
    BY <1>4 DEF EndOfInput
  <2>2. WholeFiles(Base, first_no - 2)' /\ LastFile(first_no - 1)'
    BY <1>1, <1>3 DEF WholeFiles, LastFile, Rest
  <2> QED
    BY <1>1, <2>1, <2>2 DEF IInv, LinesOK
<1>5. CASE BatchFull
  <2>1. pc' = "open" /\ i = batchsize
    BY <1>5 DEF BatchFull
  <2>2. /\ WholeLines(last - Base) \in Nat
        /\ WholeLines((last - Base) + 1) = WholeLines(last - Base) + batchsize
    BY <1>2, WholeLinesFacts
  <2>3. (last - Base) + 1 = first_no - Base
    BY <1>0, <1>2
  <2>4. Rest(first_no) = 0
    BY <1>0, <1>3, <2>1, <2>2, <2>3 DEF Rest
  <2>5. batch[last] = Stretch(d, WholeLines(last - Base), batchsize)
    BY <1>3, <2>1 DEF LastFile
  <2>6. \A n \in Base .. first_no - 1 : batch[n] = Stretch(d, WholeLines(n - Base), batchsize)
    BY <1>0, <1>2, <1>3, <2>5 DEF WholeFiles
  <2>7. WholeFiles(Base, first_no - 1)' /\ Rest(first_no)' = 0
    BY <1>1, <2>4, <2>6 DEF WholeFiles, Rest
  <2> QED
    BY <1>1, <2>1, <2>7 DEF IInv, LinesOK
<1> QED
  BY <1>4, <1>5

\* The merging starts at the first of the files that make no whole round.
LEMMA CheckRemainderLines == IInv /\ CheckRemainder => LinesOK'
<1> SUFFICES ASSUME IInv, CheckRemainder PROVE LinesOK'
  OBVIOUS
<1>0. /\ Base \in Nat \ {0} /\ d \in DataSets /\ ncount \in Nat /\ first_no \in Nat
      /\ taken \in Nat /\ batchsize \in Nat
  BY BaseFacts, BatchsizePositive
<1>1. /\ pc = "check" /\ checking' = Remainder /\ first_no' = first_no - Remainder /\ i' = 1
      /\ UNCHANGED <<lines, d, taken, batch, tomerge, ncount, returned>> /\ Base' = Base
  BY BaseFacts DEF CheckRemainder
<1>2. /\ first_no = Base + ncount /\ ncount > 0
      /\ Remainder \in Nat /\ Remainder <= ncount
  BY <1>0, <1>1, RemainderFacts DEF IInv, NInv, NumbersOK, Remainder
<1>3. WholeFiles(Base, first_no - 2) /\ LastFile(first_no - 1) /\ taken = lines[d] /\ tomerge = <<>>
  BY <1>1 DEF IInv, LinesOK
<1>4. CASE Remainder = 0
  <2>1. pc' = "return" /\ first_no' = first_no
    BY <1>0, <1>1, <1>4 DEF CheckRemainder
  <2>2. WholeFiles(Base, first_no - 2)' /\ LastFile(first_no - 1)'
    BY <1>1, <1>3, <2>1 DEF WholeFiles, LastFile, Rest
  <2> QED
    BY <1>1, <1>2, <1>3, <2>1, <2>2 DEF IInv, LinesOK
<1>5. CASE Remainder # 0
  <2>1. pc' = "merge"
    BY <1>1, <1>5 DEF CheckRemainder
  <2>2. /\ MergedFrom' = first_no' /\ LastNumber' = LastNumber /\ LastNumber = first_no - 1
        /\ first_no' - Base \in Nat /\ first_no' - 1 <= first_no - 2
    BY <1>0, <1>1, <1>2, <1>5 DEF MergedFrom, LastNumber
  <2>3. WholeFiles(Base, MergedFrom - 1)' /\ WholeFiles(first_no, LastNumber - 1)'
    BY <1>0, <1>1, <1>2, <1>3, <2>2 DEF WholeFiles
  <2>4. LastFile(LastNumber)' /\ Rest(LastNumber)' \in 0 .. batchsize
    BY <1>1, <1>3, <2>2 DEF LastFile, Rest
  <2>5. tomerge' = Stretch(d, WholeLines(first_no' - Base), 0)
    BY <1>0, <1>1, <1>3, <2>2, StretchEmpty, WholeLinesFacts
  <2>6. WholeLines(first_no' - Base') - WholeLines(first_no' - Base') = 0
    BY <1>1, <2>2, WholeLinesFacts
  <2>7. ~(i' > checking')
    BY <1>1, <1>2, <1>5
  <2> QED
    BY <1>1, <1>3, <2>1, <2>2, <2>3, <2>4, <2>5, <2>6, <2>7 DEF IInv, LinesOK
<1> QED
  BY <1>4, <1>5

\* The file that is merged continues what was merged before.
LEMMA MergeFileLines == IInv /\ MergeFile => LinesOK'
<1> SUFFICES ASSUME IInv, MergeFile PROVE LinesOK'
  OBVIOUS
<1> DEFINE from == WholeLines(MergedFrom - Base)
           upto == WholeLines(first_no - Base)
<1>0. /\ Base \in Nat \ {0} /\ d \in DataSets /\ ncount \in Nat /\ first_no \in Nat
      /\ taken \in Nat /\ batchsize \in Nat /\ i \in Nat /\ checking \in Nat
      /\ d = 2 => Base = returned[1] + 1 /\ returned[1] \in Nat
  BY BaseFacts, BatchsizePositive DEF IInv, NInv, TypeOK
<1>1. /\ pc = "merge" /\ pc' = "merge" /\ i <= checking
      /\ tomerge' = tomerge \o batch[first_no] /\ batch' = WithoutFile(first_no)
      /\ first_no' = first_no + 1 /\ i' = i + 1
      /\ UNCHANGED <<lines, d, taken, ncount, checking, returned>> /\ Base' = Base
  BY BaseFacts DEF MergeFile
<1>2. /\ checking <= ncount /\ 1 <= i /\ first_no - i + 1 + checking = Base + ncount
      /\ DOMAIN batch = (1 .. first_no - i) \cup (first_no .. Base + ncount - 1)
  BY <1>0, <1>1 DEF IInv, NInv, NumbersOK
<1>3. /\ MergedFrom' = MergedFrom /\ MergedFrom - Base \in Nat /\ MergedFrom <= first_no
      /\ LastNumber' = LastNumber /\ first_no <= LastNumber
      /\ first_no = LastNumber <=> i = checking
      /\ first_no - Base \in Nat /\ first_no' - Base = (first_no - Base) + 1
      /\ MergedFrom = first_no - i + 1 /\ LastNumber = Base + ncount - 1
  BY <1>0, <1>1, <1>2 DEF MergedFrom, LastNumber
<1>4. /\ WholeFiles(Base, MergedFrom - 1) /\ WholeFiles(first_no, LastNumber - 1)
      /\ LastFile(LastNumber) /\ Rest(LastNumber) \in 0 .. batchsize
      /\ tomerge = Stretch(d, from, upto - from) /\ taken = lines[d]
  BY <1>0, <1>1 DEF IInv, LinesOK
<1>5. /\ from \in Nat /\ upto \in Nat /\ from <= upto
      /\ WholeLines(first_no' - Base) = upto + batchsize
  <2>1. from \in Nat /\ upto \in Nat /\ WholeLines((first_no - Base) + 1) = upto + batchsize
    BY <1>3, WholeLinesFacts
  <2>2. MergedFrom - Base <= first_no - Base
    BY <1>0, <1>2, <1>3
  <2> QED
    BY <1>3, <2>1, <2>2, WholeLinesGrow
<1>6. \A n \in DOMAIN batch : n # first_no => batch'[n] = batch[n]
  BY <1>1 DEF WithoutFile
<1>7. WholeFiles(Base, MergedFrom - 1)'
  <2>1. \A n \in Base .. MergedFrom - 1 : batch'[n] = batch[n]
    BY <1>0, <1>2, <1>3, <1>6
  <2> QED
    BY <1>1, <1>3, <1>4, <2>1 DEF WholeFiles
<1>8. WholeFiles(first_no, LastNumber - 1)'
  <2>1. \A n \in first_no + 1 .. LastNumber - 1 : batch'[n] = batch[n]
    BY <1>0, <1>2, <1>3, <1>6
  <2> QED
    BY <1>0, <1>1, <1>3, <1>4, <2>1 DEF WholeFiles
<1>9. i' <= checking' => LastFile(LastNumber)'
  <2>1. SUFFICES ASSUME i' <= checking' PROVE LastFile(LastNumber)'
    OBVIOUS
  <2>2. LastNumber # first_no /\ LastNumber \in DOMAIN batch
    BY <1>0, <1>1, <1>2, <1>3, <2>1
  <2>3. batch'[LastNumber] = batch[LastNumber]
    BY <1>6, <2>2
  <2> QED
    BY <1>1, <1>3, <1>4, <2>3 DEF LastFile, Rest
<1>10. Rest(LastNumber)' \in 0 .. batchsize
  BY <1>1, <1>3, <1>4 DEF Rest
<1>11. /\ WholeLines(MergedFrom - Base)' = from /\ Rest(MergedFrom)' = taken - from
       /\ WholeLines(first_no - Base)' = upto + batchsize
  BY <1>1, <1>3, <1>5 DEF Rest
<1>12. d = 2 => \A n \in 1 .. returned[1] : batch'[n] = batch[n]
  <2>1. SUFFICES ASSUME d = 2, NEW n \in 1 .. returned[1] PROVE batch'[n] = batch[n]
    OBVIOUS
  <2>2. n \in Nat /\ 1 <= n /\ n < Base
    BY <1>0, <2>1
  <2>3. n <= first_no - i /\ n # first_no
    BY <1>0, <1>2, <2>2
  <2>4. n \in DOMAIN batch
    BY <1>0, <1>2, <2>2, <2>3
  <2> QED
    BY <1>6, <2>3, <2>4
<1> HIDE DEF from, upto
<1>13. CASE first_no = LastNumber
  <2>1. i' > checking'
    BY <1>0, <1>1, <1>3, <1>13
  <2>2. batch[first_no] = Stretch(d, upto, Rest(first_no)) /\ Rest(first_no) \in Nat
        /\ Rest(first_no) = taken - upto
    BY <1>0, <1>4, <1>13 DEF LastFile, Rest, upto
  <2>3. tomerge' = Stretch(d, from, taken - from)
    <3>1. PICK f \in Nat, m \in Nat, r \in Nat : f = from /\ m = upto - from /\ r = Rest(first_no)
      <4>1. from \in Nat /\ upto - from \in Nat /\ Rest(first_no) \in Nat
        BY <1>5, <2>2
      <4> QED
        BY <4>1, Zenon
    <3>2. from + m = upto /\ m + r = taken - from
      BY <1>0, <1>5, <2>2, <3>1
    <3>3. Stretch(d, f, m) \o Stretch(d, f + m, r) = Stretch(d, f, m + r)
      <4>1. d \in DataSets /\ f \in Nat /\ m \in Nat /\ batchsize \in Nat
        BY <1>0, <3>1
      <4> QED
        BY <4>1, StretchConcat
    <3> QED
      BY <1>1, <1>4, <2>2, <3>1, <3>2, <3>3
  <2> QED
    BY <1>1, <1>3, <1>4, <1>7, <1>8, <1>9, <1>10, <1>11, <1>12, <2>1, <2>3 DEF IInv, LinesOK
<1>14. CASE first_no # LastNumber
  <2>1. ~(i' > checking')
    BY <1>0, <1>1, <1>3, <1>14
  <2>2. batch[first_no] = Stretch(d, upto, batchsize)
    BY <1>0, <1>2, <1>3, <1>4, <1>14 DEF WholeFiles, upto
  <2>3. tomerge' = Stretch(d, from, (upto + batchsize) - from)
    <3>1. PICK f \in Nat, m \in Nat : f = from /\ m = upto - from
      BY <1>5
    <3>2. from + m = upto /\ m + batchsize = (upto + batchsize) - from
      BY <1>0, <1>5, <3>1
    <3>3. Stretch(d, f, m) \o Stretch(d, f + m, batchsize) = Stretch(d, f, m + batchsize)
      <4>1. d \in DataSets /\ f \in Nat /\ m \in Nat /\ batchsize \in Nat
        BY <1>0, <3>1
      <4> QED
        BY <4>1, StretchConcat
    <3> QED
      BY <1>1, <1>4, <2>2, <3>1, <3>2, <3>3
  <2> QED
    BY <1>1, <1>3, <1>4, <1>5, <1>7, <1>8, <1>9, <1>10, <1>11, <1>12, <2>1, <2>3 DEF IInv, LinesOK
<1> QED
  BY <1>13, <1>14

\* The numbers and positions that the cutting starts from.
LEMMA StartSplitLines == IInv /\ StartSplit => LinesOK'
<1> SUFFICES ASSUME IInv, StartSplit PROVE LinesOK'
  OBVIOUS
<1>0. /\ Base \in Nat \ {0} /\ d \in DataSets /\ ncount \in Nat /\ first_no \in Nat
      /\ taken \in Nat /\ batchsize \in Nat /\ i \in Nat /\ checking \in Nat
  BY BaseFacts, BatchsizePositive DEF IInv, NInv, TypeOK
<1>1. /\ pc = "merge" /\ i > checking /\ checking \in 1 .. ncount /\ i = checking + 1
      /\ first_no - i + 1 + checking = Base + ncount
  BY <1>0 DEF StartSplit, IInv, NInv, NumbersOK
<1>2. PICK first \in Nat : first = first_no - checking
  BY <1>0, <1>1
<1>3. /\ pc' = "split" /\ first_no' = first /\ i' = first
      /\ linesperbatch' = Len(tomerge) \div ExecutionThreads
      /\ UNCHANGED <<lines, d, taken, batch, tomerge, checking, returned>> /\ Base' = Base
  BY <1>2, BaseFacts DEF StartSplit, RewoundFirst
<1>4. /\ MergedFrom = first /\ first - Base \in Nat
      /\ first <= LastNumber /\ LastNumber - Base \in Nat
  BY <1>0, <1>1, <1>2 DEF MergedFrom, LastNumber
<1>5. PICK before \in Nat : before = WholeLines(first - Base)
  BY <1>4, WholeLinesFacts
<1>6. /\ WholeFiles(Base, first - 1) /\ Rest(LastNumber) \in 0 .. batchsize
      /\ tomerge = Stretch(d, before, Rest(first)) /\ taken = lines[d]
      /\ d = 2 => \A n \in 1 .. returned[1] : batch[n] \in Seq([set : {1}, no : Nat])
  BY <1>0, <1>1, <1>4, <1>5 DEF IInv, LinesOK
<1>7. Rest(first) \in Nat /\ Rest(first) = taken - before
  <2>1. PICK b \in Nat : b = LastNumber - Base
    BY <1>4
  <2>2. first - Base <= b
    BY <1>0, <1>4, <2>1 DEF LastNumber
  <2>3. before <= WholeLines(b) /\ WholeLines(b) \in Nat
    BY <1>4, <1>5, <2>2, WholeLinesGrow, WholeLinesFacts
  <2> QED
    BY <1>0, <1>5, <1>6, <2>1, <2>3 DEF Rest
<1>8. Len(tomerge) = Rest(first)
  BY <1>0, <1>6, <1>7, StretchFacts
<1>9. linesperbatch' \in Nat /\ linesperbatch' = Rest(first) \div ExecutionThreads
  BY <1>3, <1>7, <1>8, CutsFit
<1>10. CutBefore(i)' = before
  <2>1. CutBefore(i)' = WholeLines(first - Base) + CutLines(first - first, linesperbatch')
    BY <1>3 DEF CutBefore
  <2>2. first - first = 0 /\ CutLines(0, linesperbatch') = 0
    BY <1>9, CutLinesFacts
  <2> QED
    BY <1>5, <2>1, <2>2
<1>11. /\ WholeFiles(Base, first_no - 1)'
       /\ CutFiles(i - 1)' /\ tomerge' = Stretch(d', CutBefore(i)', taken' - CutBefore(i)')
  <2>1. WholeFiles(Base, first_no - 1)'
    BY <1>3, <1>6 DEF WholeFiles
  <2>2. CutFiles(i - 1)'
    <3>1. first >= Base /\ Rest(first_no)' = Rest(first) /\ first_no' .. i' - 1 = {}
      BY <1>0, <1>3, <1>4 DEF Rest
    <3> QED
      BY <1>3, <1>7, <1>9, <3>1 DEF CutFiles
  <2> QED
    BY <1>3, <1>6, <1>7, <1>10, <2>1, <2>2
<1> QED
  <2>1. taken' <= lines'[d']
    BY <1>0, <1>3, <1>6
  <2> QED
    BY <1>3, <1>6, <1>11, <2>1 DEF LinesOK

\* A file is cut from the front of what was merged.
LEMMA SplitFileLines == IInv /\ SplitFile => LinesOK'
<1> SUFFICES ASSUME IInv, SplitFile PROVE LinesOK'
  OBVIOUS
<1>0. /\ Base \in Nat \ {0} /\ d \in DataSets /\ ncount \in Nat /\ first_no \in Nat
      /\ taken \in Nat /\ i \in Nat
      /\ d = 2 => Base = returned[1] + 1 /\ returned[1] \in Nat
  BY BaseFacts
<1>1. /\ pc = "split" /\ pc' = "split" /\ i' = i + 1 /\ i < first_no + ExecutionThreads
      /\ batch' = WithFile(i, SubSeq(tomerge, 1, linesperbatch))
      /\ tomerge' = SubSeq(tomerge, linesperbatch + 1, Len(tomerge))
      /\ UNCHANGED <<lines, d, taken, first_no, linesperbatch, returned>> /\ Base' = Base
  BY BaseFacts DEF SplitFile
<1>2. /\ first_no = Base + ncount /\ i >= first_no /\ DOMAIN batch = 1 .. i - 1
  BY <1>0, <1>1, BatchFilesAssumption DEF IInv, NInv, NumbersOK
<1>3. /\ WholeFiles(Base, first_no - 1) /\ CutFiles(i - 1) /\ taken = lines[d]
      /\ tomerge = Stretch(d, CutBefore(i), taken - CutBefore(i))
      /\ d = 2 => \A n \in 1 .. returned[1] : batch[n] \in Seq([set : {1}, no : Nat])
  BY <1>1 DEF IInv, LinesOK
<1>4. PICK c \in Nat, left \in Nat, l \in Nat :
         c = CutBefore(i) /\ left = taken - CutBefore(i) /\ l = linesperbatch
  <2>1. CutBefore(i) \in Nat /\ taken - CutBefore(i) \in Nat /\ linesperbatch \in Nat
    BY <1>0, <1>1, CutsAreThere
  <2> QED
    BY <2>1, Zenon
<1>5. CutBefore(i + 1) = c + l /\ l \in 0 .. left
  BY <1>1, <1>4, CutsAreThere
<1>6. batch'[i] = Stretch(d, c, l) /\ tomerge' = Stretch(d, c + l, left - l)
  <2>1. tomerge = Stretch(d, c, left)
    BY <1>3, <1>4
  <2>2. Len(tomerge) = left
    BY <1>0, <2>1, StretchFacts
  <2>3. /\ SubSeq(Stretch(d, c, left), 1, l) = Stretch(d, c, l)
        /\ SubSeq(Stretch(d, c, left), l + 1, left) = Stretch(d, c + l, left - l)
    BY <1>0, <1>5, StretchCut
  <2>4. batch'[i] = SubSeq(tomerge, 1, l)
    BY <1>1, <1>4 DEF WithFile
  <2> QED
    BY <1>1, <1>4, <2>1, <2>2, <2>3, <2>4
<1>7. \A n \in 1 .. i - 1 : batch'[n] = batch[n]
  BY <1>0, <1>1, <1>2 DEF WithFile
<1>8. WholeFiles(Base, first_no - 1)'
  <2>1. \A n \in Base .. first_no - 1 : batch'[n] = batch[n]
    BY <1>0, <1>2, <1>7
  <2> QED
    BY <1>1, <1>3, <2>1 DEF WholeFiles
<1>9. CutFiles(i - 1)'
  <2>1. \A n : CutBefore(n)' = WholeLines(first_no - Base) + CutLines(n' - first_no, linesperbatch)
    BY <1>1 DEF CutBefore
  <2>2. Rest(first_no)' = Rest(first_no) /\ i' - 1 = i
    BY <1>0, <1>1 DEF Rest
  <2>3. \A n \in first_no .. i : batch'[n] = Stretch(d, CutBefore(n), linesperbatch)
    <3>1. \A n \in first_no .. i - 1 : batch'[n] = Stretch(d, CutBefore(n), linesperbatch)
      BY <1>0, <1>2, <1>3, <1>7 DEF CutFiles
    <3>2. batch'[i] = Stretch(d, CutBefore(i), linesperbatch)
      BY <1>4, <1>6
    <3> QED
      BY <1>0, <1>2, <3>1, <3>2
  <2> QED
    BY <1>1, <1>3, <2>2, <2>3 DEF CutFiles, CutBefore
<1>10. CutBefore(i)' = c + l /\ taken' - CutBefore(i)' = left - l
  <2>1. CutBefore(i)' = CutBefore(i + 1)
    BY <1>1 DEF CutBefore
  <2> QED
    BY <1>0, <1>1, <1>4, <1>5, <2>1
<1>11. tomerge' = Stretch(d', CutBefore(i)', taken' - CutBefore(i)')
  BY <1>1, <1>6, <1>10
<1>12. d' = 2 => \A n \in 1 .. returned'[1] : batch'[n] \in Seq([set : {1}, no : Nat])
  BY <1>0, <1>1, <1>2, <1>3, <1>7
<1>13. taken' = lines'[d'] /\ taken' <= lines'[d']
  BY <1>0, <1>1, <1>3
<1> QED
  BY <1>1, <1>8, <1>9, <1>11, <1>12, <1>13 DEF LinesOK

\* What is left of the merge file is dropped; the files stay.
LEMMA EndSplitLines == IInv /\ EndSplit => LinesOK'
<1> SUFFICES ASSUME IInv, EndSplit PROVE LinesOK'
  OBVIOUS
<1>0. /\ Base \in Nat \ {0} /\ ncount \in Nat /\ first_no \in Nat /\ taken \in Nat
  BY BaseFacts
<1>1. /\ pc = "split" /\ pc' = "return" /\ i = first_no + ExecutionThreads
      /\ ncount' = ncount + ExecutionThreads /\ tomerge' = <<>>
      /\ UNCHANGED <<lines, d, taken, batch, first_no, linesperbatch, returned>> /\ Base' = Base
  BY BaseFacts DEF EndSplit
<1>2. first_no = Base + ncount
  BY <1>1 DEF IInv, NInv, NumbersOK
<1>3. /\ WholeFiles(Base, first_no - 1) /\ CutFiles(first_no + ExecutionThreads - 1)
      /\ taken = lines[d]
      /\ d = 2 => \A n \in 1 .. returned[1] : batch[n] \in Seq([set : {1}, no : Nat])
  <2>1. /\ WholeFiles(Base, first_no - 1) /\ CutFiles(i - 1) /\ taken = lines[d]
        /\ d = 2 => \A n \in 1 .. returned[1] : batch[n] \in Seq([set : {1}, no : Nat])
    BY <1>1 DEF IInv, LinesOK
  <2>2. i - 1 = first_no + ExecutionThreads - 1
    BY <1>0, <1>1, BatchFilesAssumption
  <2> QED
    BY <2>1, <2>2
<1>4. first_no' + ExecutionThreads = Base' + ncount'
  BY <1>0, <1>1, <1>2, BatchFilesAssumption
<1>5. WholeFiles(Base, first_no - 1)' /\ CutFiles(first_no + ExecutionThreads - 1)'
  BY <1>1, <1>3 DEF WholeFiles, CutFiles, Rest, CutBefore
<1> QED
  BY <1>0, <1>1, <1>3, <1>4, <1>5 DEF LinesOK

\* Every file of the data set that is being cut is a stretch of its lines.
LEMMA FilesAreStretches ==
  ASSUME IInv
  PROVE  \A n \in DOMAIN batch : n >= Base =>
            \E a \in Nat, l \in Nat : batch[n] = Stretch(d, a, l)
<1>0. /\ Base \in Nat \ {0} /\ d \in DataSets /\ ncount \in Nat /\ first_no \in Nat
      /\ taken \in Nat /\ i \in Nat /\ batchsize \in Nat /\ checking \in Nat
      /\ DOMAIN batch \subseteq Nat /\ pc \in Places
  BY BaseFacts, BatchsizePositive DEF IInv, NInv, TypeOK
<1>1. ASSUME NEW from \in Nat, NEW to \in Int, from >= Base, WholeFiles(from, to),
             NEW n \in from .. to
      PROVE  \E a \in Nat, l \in Nat : batch[n] = Stretch(d, a, l)
  <2>1. n - Base \in Nat
    BY <1>0, <1>1
  <2>2. WholeLines(n - Base) \in Nat /\ batch[n] = Stretch(d, WholeLines(n - Base), batchsize)
    BY <1>1, <2>1, WholeLinesFacts DEF WholeFiles
  <2> QED
    BY <1>0, <2>2
<1>2. ASSUME NEW n \in Nat, n >= Base, LastFile(n)
      PROVE  \E a \in Nat, l \in Nat : batch[n] = Stretch(d, a, l)
  <2>1. n - Base \in Nat
    BY <1>0, <1>2
  <2>2. /\ WholeLines(n - Base) \in Nat /\ Rest(n) \in Nat
        /\ batch[n] = Stretch(d, WholeLines(n - Base), Rest(n))
    BY <1>0, <1>2, <2>1, WholeLinesFacts DEF LastFile
  <2> QED
    BY <2>2
<1>3. ASSUME NEW to \in Int, CutFiles(to), NEW n \in first_no .. to
      PROVE  \E a \in Nat, l \in Nat : batch[n] = Stretch(d, a, l)
  <2>1. n - first_no \in Nat /\ first_no - Base \in Nat
    BY <1>0, <1>3 DEF CutFiles
  <2>2. linesperbatch \in Nat
    BY DEF IInv, NInv, TypeOK
  <2>3. WholeLines(first_no - Base) \in Nat /\ CutLines(n - first_no, linesperbatch) \in Nat
    BY <2>1, <2>2, WholeLinesFacts, CutLinesFacts
  <2>4. CutBefore(n) \in Nat /\ batch[n] = Stretch(d, CutBefore(n), linesperbatch)
    BY <1>3, <2>3 DEF CutFiles, CutBefore
  <2> QED
    BY <2>2, <2>4
<1> SUFFICES ASSUME NEW n \in DOMAIN batch, n >= Base
             PROVE  \E a \in Nat, l \in Nat : batch[n] = Stretch(d, a, l)
  OBVIOUS
<1>4. n \in Nat
  BY <1>0
<1>5. CASE pc = "open"
  <2>1. DOMAIN batch = 1 .. first_no - 1 /\ WholeFiles(Base, first_no - 1)
    BY <1>5 DEF IInv, NInv, NumbersOK, LinesOK
  <2> QED
    BY <1>0, <1>1, <1>4, <2>1
<1>6. CASE pc \in {"copy", "check"}
  <2>1. DOMAIN batch = 1 .. first_no - 1 /\ WholeFiles(Base, first_no - 2) /\ LastFile(first_no - 1)
    BY <1>6 DEF IInv, NInv, NumbersOK, LinesOK
  <2>2. n \in Base .. first_no - 2 \/ n = first_no - 1
    BY <1>0, <1>4, <2>1
  <2> QED
    BY <1>0, <1>1, <1>2, <1>4, <2>1, <2>2
<1>7. CASE pc = "merge"
  <2>1. /\ DOMAIN batch = (1 .. first_no - i) \cup (first_no .. LastNumber)
        /\ MergedFrom = first_no - i + 1 /\ first_no - i + 1 + checking = Base + ncount
        /\ WholeFiles(Base, MergedFrom - 1) /\ WholeFiles(first_no, LastNumber - 1)
        /\ LastNumber = Base + ncount - 1
        /\ i <= checking => LastFile(LastNumber)
        /\ checking <= ncount /\ i \in 1 .. checking + 1
    BY <1>0, <1>7 DEF IInv, NInv, NumbersOK, LinesOK, MergedFrom, LastNumber
  <2>2. first_no >= Base
    BY <1>0, <2>1
  <2>3. CASE n \in Base .. MergedFrom - 1
    BY <1>0, <1>1, <2>1, <2>3
  <2>4. CASE n \in first_no .. LastNumber - 1
    BY <1>0, <1>1, <2>1, <2>2, <2>4
  <2>5. CASE n = LastNumber /\ n >= first_no
    BY <1>0, <1>2, <1>4, <2>1, <2>5
  <2> QED
    BY <1>0, <1>4, <2>1, <2>3, <2>4, <2>5
<1>8. CASE pc = "split"
  <2>1. /\ DOMAIN batch = 1 .. i - 1 /\ i >= first_no
        /\ WholeFiles(Base, first_no - 1) /\ CutFiles(i - 1)
    BY <1>0, <1>8, BatchFilesAssumption DEF IInv, NInv, NumbersOK, LinesOK
  <2>2. n \in Base .. first_no - 1 \/ n \in first_no .. i - 1
    BY <1>0, <1>4, <2>1
  <2> QED
    BY <1>0, <1>1, <1>3, <2>1, <2>2
<1>9. CASE pc \in {"return", "done"}
  <2>1. DOMAIN batch = 1 .. Base + ncount - 1
    <3>1. pc = "done" => d = 2 /\ returned[2] = ncount /\ DOMAIN batch = 1 .. returned[1] + returned[2]
      BY DEF IInv, NInv, NumbersOK
    <3>2. pc = "return" => DOMAIN batch = 1 .. Base + ncount - 1
      BY DEF IInv, NInv, NumbersOK
    <3>3. d = 2 => Base = returned[1] + 1 /\ returned[1] \in Nat
      BY BaseFacts
    <3> QED
      BY <1>0, <1>9, <3>1, <3>2, <3>3
  <2>2. \/ /\ first_no = Base + ncount /\ ncount > 0
           /\ WholeFiles(Base, first_no - 2) /\ LastFile(first_no - 1)
        \/ /\ first_no + ExecutionThreads = Base + ncount
           /\ WholeFiles(Base, first_no - 1) /\ CutFiles(first_no + ExecutionThreads - 1)
    BY <1>9 DEF IInv, LinesOK
  <2>3. CASE /\ first_no = Base + ncount /\ ncount > 0
             /\ WholeFiles(Base, first_no - 2) /\ LastFile(first_no - 1)
    <3>1. n \in Base .. first_no - 2 \/ n = first_no - 1
      BY <1>0, <1>4, <2>1, <2>3
    <3> QED
      BY <1>0, <1>1, <1>2, <1>4, <2>3, <3>1
  <2>4. CASE /\ first_no + ExecutionThreads = Base + ncount
             /\ WholeFiles(Base, first_no - 1) /\ CutFiles(first_no + ExecutionThreads - 1)
    <3>1. n \in Base .. first_no - 1 \/ n \in first_no .. first_no + ExecutionThreads - 1
      BY <1>0, <1>4, <2>1, <2>4, BatchFilesAssumption
    <3> QED
      BY <1>0, <1>1, <1>3, <2>4, <3>1, BatchFilesAssumption
  <2> QED
    BY <2>2, <2>3, <2>4
<1> QED
  BY <1>0, <1>5, <1>6, <1>7, <1>8, <1>9 DEF Places

\* The training set is finished and the test set begins, or both are finished.
LEMMA ReturnLines == IInv /\ Return => LinesOK'
<1> SUFFICES ASSUME IInv, Return PROVE LinesOK'
  OBVIOUS
<1>0. /\ Base \in Nat \ {0} /\ d \in DataSets /\ ncount \in Nat /\ first_no \in Nat
      /\ taken \in Nat
      /\ d = 2 => Base = returned[1] + 1 /\ returned[1] \in Nat
      /\ d = 1 => Base = 1
      /\ returned \in [DataSets -> Nat] /\ lines \in [DataSets -> Nat]
  BY BaseFacts, BatchFilesAssumption DEF IInv, NInv, TypeOK
<1>1. /\ pc = "return" /\ returned' = [returned EXCEPT ![d] = ncount]
      /\ UNCHANGED <<lines, batch, tomerge, linesperbatch>>
  BY DEF Return
<1>2. tomerge = <<>> /\ taken = lines[d] /\ DOMAIN batch = 1 .. Base + ncount - 1
  BY <1>1 DEF IInv, NInv, NumbersOK, LinesOK
<1>3. CASE d = 1
  <2>1. /\ d' = 2 /\ taken' = 0 /\ first_no' = ncount + 1 /\ pc' = "open"
        /\ returned'[1] = ncount /\ Base' = ncount + 1
    BY <1>0, <1>1, <1>3 DEF Return, LowerBound, Base, FirstFile, DataSets
  <2>2. ASSUME NEW n \in 1 .. ncount PROVE batch[n] \in Seq([set : {1}, no : Nat])
    <3>1. n \in DOMAIN batch /\ n >= Base
      BY <1>0, <1>2, <1>3, <2>2
    <3>2. PICK a \in Nat, l \in Nat : batch[n] = Stretch(1, a, l)
      BY <1>3, <3>1, FilesAreStretches
    <3> QED
      BY <3>2 DEF Stretch
  <2>3. taken' <= lines'[d'] /\ tomerge' = <<>>
    BY <1>0, <1>1, <1>2, <2>1 DEF DataSets
  <2>4. WholeFiles(Base, first_no - 1)' /\ Rest(first_no)' = 0
    <3>1. Base' .. first_no' - 1 = {} /\ first_no' - Base' = 0
      BY <1>0, <2>1
    <3>2. WholeLines(0) = 0
      BY WholeLinesFacts
    <3> QED
      BY <2>1, <3>1, <3>2 DEF WholeFiles, Rest
  <2> QED
    BY <1>1, <2>1, <2>2, <2>3, <2>4 DEF LinesOK
<1>4. CASE d = 2
  <2>1. pc' = "done" /\ UNCHANGED <<d, taken, ncount, first_no>>
    BY <1>4 DEF Return
  <2>2. returned'[1] = returned[1] /\ Base' = Base
    BY <1>0, <1>1, <1>4, <2>1 DEF Base, FirstFile, DataSets
  <2>3. /\ d = 2 => \A n \in 1 .. returned[1] : batch[n] \in Seq([set : {1}, no : Nat])
        /\ \/ /\ first_no = Base + ncount /\ ncount > 0
              /\ WholeFiles(Base, first_no - 2) /\ LastFile(first_no - 1)
           \/ /\ first_no + ExecutionThreads = Base + ncount
              /\ WholeFiles(Base, first_no - 1) /\ CutFiles(first_no + ExecutionThreads - 1)
    BY <1>1 DEF IInv, LinesOK
  <2>4. taken' = lines'[d'] /\ taken' <= lines'[d']
    BY <1>0, <1>1, <1>2, <2>1
  <2>5. \/ /\ (first_no = Base + ncount)' /\ ncount' > 0
           /\ WholeFiles(Base, first_no - 2)' /\ LastFile(first_no - 1)'
        \/ /\ (first_no + ExecutionThreads = Base + ncount)'
           /\ WholeFiles(Base, first_no - 1)' /\ CutFiles(first_no + ExecutionThreads - 1)'
    BY <1>1, <2>1, <2>2, <2>3 DEF WholeFiles, LastFile, CutFiles, Rest, CutBefore
  <2> QED
    BY <1>1, <1>2, <2>1, <2>2, <2>3, <2>4, <2>5 DEF LinesOK
<1> QED
  BY <1>0, <1>3, <1>4 DEF DataSets

\* A step that changes nothing keeps the lines.
LEMMA StutterLines == IInv /\ UNCHANGED vars => LinesOK'
<1> SUFFICES ASSUME LinesOK, UNCHANGED vars PROVE LinesOK'
  BY DEF IInv
<1>1. /\ Base' = Base /\ MergedFrom' = MergedFrom /\ LastNumber' = LastNumber
      /\ UNCHANGED <<lines, d, taken, batch, tomerge, first_no, ncount, i, checking, linesperbatch,
                     pc, returned>>
  BY DEF vars, Base, FirstFile, MergedFrom, LastNumber
<1> QED
  BY <1>1 DEF LinesOK, WholeFiles, LastFile, CutFiles, Rest, CutBefore

\* Every step keeps the lines.
LEMMA NextLines == IInv /\ [Next]_vars => LinesOK'
<1>1. Done => UNCHANGED vars
  BY DEF Done
<1> QED
  BY <1>1, OpenBatchLines, CopyLineLines, EndOfFileLines, CheckRemainderLines, MergeFileLines,
     StartSplitLines, SplitFileLines, EndSplitLines, ReturnLines, StutterLines DEF Next

-----------------------------------------------------------------------------
(* The theorems. *)

\* The inductive invariant holds: file numbers, file contents and the locals of
\* decrement (scheduler.c:232-313) fit together before and after every step.
THEOREM Invariance == Spec => []IInv
<1>1. Init => IInv
  BY InitNumbers, InitLines DEF IInv
<1>2. IInv /\ [Next]_vars => IInv'
  BY NextNumbers, NextLines DEF IInv
<1> QED
  BY <1>1, <1>2, PTL DEF Spec

\* The counters and files of decrement keep their types; no file number is below 1
\* although `first_no' is rewound twice (scheduler.c:276, 297).
THEOREM TypeCorrect == Spec => []TypeOK
<1>1. IInv => TypeOK
  BY DEF IInv, NInv
<1> QED
  BY <1>1, Invariance, PTL

\* Both counts that decrement returns are whole rounds of one file per thread, as
\* main asserts, and at least one, and the files on disk are exactly those that the counts name.
THEOREM CountsMatchFiles == Spec => []FilesMatchCounts
<1>1. IInv => FilesMatchCounts
  BY DEF IInv, NInv, NumbersOK, FilesMatchCounts, WholeRounds, DataSets
<1> QED
  BY <1>1, Invariance, PTL

\* No file of one data set holds a line of the other: cutting the test set leaves the
\* training files alone (main.c calls decrement with the next free number).
THEOREM DataSetsApart == Spec => []DataSetsStayApart
<1>1. ASSUME IInv, NEW n \in DOMAIN batch, NEW k \in DOMAIN batch[n]
      PROVE  batch[n][k].set = IF d = 2 /\ n > returned[1] THEN 2 ELSE 1
  <2>0. /\ Base \in Nat \ {0} /\ d \in DataSets /\ n \in Nat \ {0}
        /\ d = 2 => Base = returned[1] + 1 /\ returned[1] \in Nat
        /\ d = 1 => Base = 1
    BY <1>1, BaseFacts DEF IInv, NInv, TypeOK
  <2>1. CASE n >= Base
    <3>1. PICK a \in Nat, l \in Nat : batch[n] = Stretch(d, a, l)
      BY <1>1, <2>1, FilesAreStretches
    <3>2. batch[n][k].set = d
      BY <1>1, <3>1 DEF Stretch
    <3> QED
      BY <2>0, <2>1, <3>2 DEF DataSets
  <2>2. CASE n < Base
    <3>1. d = 2 /\ n \in 1 .. returned[1]
      BY <2>0, <2>2 DEF DataSets
    <3>2. batch[n] \in Seq([set : {1}, no : Nat])
      BY <1>1, <3>1 DEF IInv, LinesOK
    <3>3. batch[n][k] \in [set : {1}, no : Nat]
      <4>1. PICK s \in Seq([set : {1}, no : Nat]) : s = batch[n]
        BY <3>2
      <4>2. k \in DOMAIN s
        BY <1>1, <4>1
      <4>3. \A S : \A q \in Seq(S) : \A m \in DOMAIN q : q[m] \in S
        OBVIOUS
      <4> QED
        BY <4>1, <4>2, <4>3, Zenon
    <3>4. batch[n][k].set = 1 /\ ~(n > returned[1])
      BY <2>0, <3>1, <3>3
    <3> QED
      BY <3>4
  <2> QED
    BY <2>0, <2>1, <2>2
<1>2. IInv => DataSetsStayApart
  BY <1>1 DEF DataSetsStayApart
<1> QED
  BY <1>2, Invariance, PTL

-----------------------------------------------------------------------------
(* No line is lost. *)

\* Where whole file n begins.
Before(n) == WholeLines(n - Base)

\* Pieces that are stretches, one after the other and without gap, hold the lines
\* they cover once and in order.
LEMMA StretchesHold ==
  ASSUME NEW mark \in Nat, NEW kept \in Nat, NEW start, NEW length,
         Pieces(mark) \subseteq Nat, d \in DataSets,
         \A n \in Pieces(mark) :
            /\ start[n] \in Nat /\ length[n] \in Nat /\ start[n] + length[n] <= kept
            /\ Piece(n, mark) = Stretch(d, start[n], length[n]),
         \A n, m \in Pieces(mark) : n < m => start[n] + length[n] <= start[m],
         \A no \in 1 .. kept : \E n \in Pieces(mark) :
            start[n] < no /\ no <= start[n] + length[n]
  PROVE  HoldInOrder(mark, kept)
<1>1. ASSUME NEW n \in Pieces(mark)
      PROVE  /\ DOMAIN Piece(n, mark) = 1 .. length[n]
             /\ \A k \in 1 .. length[n] : /\ Piece(n, mark)[k].set = d
                                          /\ Piece(n, mark)[k].no = start[n] + k
  <2>1. /\ start[n] \in Nat /\ length[n] \in Nat
        /\ Piece(n, mark) = Stretch(d, start[n], length[n])
    OBVIOUS
  <2>2. PICK a \in Nat, l \in Nat : a = start[n] /\ l = length[n]
    BY <2>1
  <2>3. /\ DOMAIN Stretch(d, a, l) = 1 .. l
        /\ \A k \in 1 .. l : Stretch(d, a, l)[k] = [set |-> d, no |-> a + k]
    BY StretchFacts
  <2>4. PICK p : p = Piece(n, mark) /\ p = Stretch(d, a, l)
    BY <2>1, <2>2, Zenon
  <2>5. /\ DOMAIN p = 1 .. length[n]
        /\ \A k \in 1 .. length[n] : p[k].set = d /\ p[k].no = start[n] + k
    <3>1. DOMAIN p = 1 .. l /\ \A k \in 1 .. l : p[k] = [set |-> d, no |-> a + k]
      BY <2>3, <2>4, Zenon
    <3>2. \A k \in 1 .. l : p[k].set = d /\ p[k].no = a + k
      BY <3>1
    <3> QED
      BY <2>2, <3>1, <3>2, Zenon
  <2> QED
    BY <2>4, <2>5, Zenon
<1>2. ASSUME NEW n \in Pieces(mark), NEW k \in DOMAIN Piece(n, mark)
      PROVE  Piece(n, mark)[k].set = d /\ Piece(n, mark)[k].no \in 1 .. kept
  <2>1. /\ start[n] \in Nat /\ length[n] \in Nat /\ start[n] + length[n] <= kept
        /\ k \in 1 .. length[n]
    BY <1>1, <1>2
  <2>2. Piece(n, mark)[k].set = d /\ Piece(n, mark)[k].no = start[n] + k
    BY <1>1, <1>2
  <2> QED
    BY <2>1, <2>2
<1>3. ASSUME NEW no \in 1 .. kept
      PROVE  \E n \in Pieces(mark) : \E k \in DOMAIN Piece(n, mark) : Piece(n, mark)[k].no = no
  <2>1. PICK n \in Pieces(mark) : start[n] < no /\ no <= start[n] + length[n]
    OBVIOUS
  <2>2. PICK k \in Nat : k = no - start[n]
    BY <2>1
  <2>3. k \in 1 .. length[n] /\ start[n] + k = no
    BY <2>1, <2>2
  <2>4. k \in DOMAIN Piece(n, mark) /\ Piece(n, mark)[k].no = no
    BY <1>1, <2>3
  <2> QED
    BY <2>4
<1>4. ASSUME NEW n \in Pieces(mark), NEW m \in Pieces(mark),
             NEW k \in DOMAIN Piece(n, mark), NEW l \in DOMAIN Piece(m, mark),
             n < m \/ (n = m /\ k < l)
      PROVE  Piece(n, mark)[k].no < Piece(m, mark)[l].no
  <2>1. /\ k \in 1 .. length[n] /\ Piece(n, mark)[k].no = start[n] + k
        /\ l \in 1 .. length[m] /\ Piece(m, mark)[l].no = start[m] + l
    BY <1>1, <1>4
  <2>2. /\ start[n] \in Nat /\ length[n] \in Nat /\ start[m] \in Nat /\ length[m] \in Nat
    OBVIOUS
  <2>3. CASE n < m
    <3>1. start[n] + length[n] <= start[m]
      BY <2>3
    <3> QED
      BY <2>1, <2>2, <3>1
  <2>4. CASE n = m /\ k < l
    BY <2>1, <2>2, <2>4
  <2> QED
    BY <1>4, <2>3, <2>4
<1> QED
  BY <1>2, <1>3, <1>4 DEF HoldInOrder

\* A position below a multiple of b lies in one of the parts of b.
LEMMA PartOfPosition ==
  ASSUME NEW b \in Nat, NEW a \in Nat, NEW x \in 1 .. a * b
  PROVE  \E q \in 0 .. a - 1 : q * b < x /\ x <= q * b + b
<1>1. b > 0 /\ a > 0
  <2>1. b = 0 => a * b = 0
    OBVIOUS
  <2>2. a = 0 => a * b = 0
    OBVIOUS
  <2> QED
    BY <2>1, <2>2
<1> DEFINE q == (x - 1) \div b
<1>2. q \in Nat /\ x - 1 = b * q + ((x - 1) % b) /\ (x - 1) % b \in 0 .. b - 1
  BY <1>1
<1> HIDE DEF q
<1>3. b * q = q * b /\ q * b \in Nat /\ a * b \in Nat
  BY <1>2
<1>4. q * b < x /\ x <= q * b + b
  BY <1>2, <1>3
<1>5. q < a
  <2>1. SUFFICES ASSUME q >= a PROVE FALSE
    BY <1>2
  <2>2. q * b >= a * b
    BY <1>2, <2>1
  <2> QED
    BY <1>3, <1>4, <2>2
<1>6. q \in 0 .. a - 1
  BY <1>2, <1>5
<1> QED
  BY <1>4, <1>6, Zenon

\* Whole files follow one another without gap.
LEMMA WholeFilesFollow ==
  ASSUME IInv
  PROVE  /\ Before(Base) = 0
         /\ \A n \in Nat : n >= Base => Before(n) \in Nat
         /\ \A n, m \in Nat : Base <= n /\ n < m => Before(n) + batchsize <= Before(m)
         /\ \A n, m \in Nat : Base <= n /\ n <= m => Before(n) <= Before(m)
         /\ \A m \in Nat : m >= Base =>
              \A no \in 1 .. Before(m) : \E n \in Base .. m - 1 :
                 Before(n) < no /\ no <= Before(n) + batchsize
<1>0. Base \in Nat /\ batchsize \in Nat
  BY BaseFacts, BatchsizePositive
<1>1. Before(Base) = 0
  BY <1>0, WholeLinesFacts DEF Before
<1>2. ASSUME NEW n \in Nat, n >= Base PROVE Before(n) \in Nat
  <2>1. n - Base \in Nat
    BY <1>0, <1>2
  <2> QED
    BY <2>1, WholeLinesFacts DEF Before
<1>3. ASSUME NEW n \in Nat, NEW m \in Nat, Base <= n, n < m
      PROVE  Before(n) + batchsize <= Before(m)
  <2>1. n - Base \in Nat /\ m - Base \in Nat /\ n - Base < m - Base
    BY <1>0, <1>3
  <2> QED
    BY <2>1, WholeLinesFacts DEF Before
<1>4. ASSUME NEW n \in Nat, NEW m \in Nat, Base <= n, n <= m
      PROVE  Before(n) <= Before(m)
  <2>1. n - Base \in Nat /\ m - Base \in Nat /\ n - Base <= m - Base
    BY <1>0, <1>4
  <2> QED
    BY <2>1, WholeLinesGrow DEF Before
<1>5. ASSUME NEW m \in Nat, m >= Base, NEW no \in 1 .. Before(m)
      PROVE  \E n \in Base .. m - 1 : Before(n) < no /\ no <= Before(n) + batchsize
  <2>1. PICK a \in Nat : a = m - Base
    BY <1>0, <1>5
  <2>2. no \in 1 .. a * batchsize
    BY <2>1 DEF Before, WholeLines
  <2>3. PICK q \in 0 .. a - 1 : q * batchsize < no /\ no <= q * batchsize + batchsize
    BY <1>0, <2>2, PartOfPosition
  <2>4. PICK n \in Base .. m - 1 : n - Base = q
    <3>1. Base + q \in Base .. m - 1 /\ (Base + q) - Base = q
      BY <1>0, <1>5, <2>1
    <3> QED
      BY <3>1
  <2> QED
    BY <2>3, <2>4 DEF Before, WholeLines
<1> QED
  BY <1>1, <1>2, <1>3, <1>4, <1>5

\* The cut files follow the whole ones and one another without gap.
LEMMA CutFilesFollow ==
  ASSUME IInv, first_no >= Base
  PROVE  /\ CutBefore(first_no) = Before(first_no) /\ Before(first_no) \in Nat
         /\ \A n \in Nat : n >= first_no => CutBefore(n) \in Nat
         /\ \A n, m \in Nat : first_no <= n /\ n < m => CutBefore(n) + linesperbatch <= CutBefore(m)
         /\ \A n \in Nat : n >= first_no => Before(first_no) <= CutBefore(n)
         /\ \A m \in Nat : m >= first_no =>
              \A no \in Before(first_no) + 1 .. CutBefore(m) : \E n \in first_no .. m - 1 :
                 CutBefore(n) < no /\ no <= CutBefore(n) + linesperbatch
<1>0. Base \in Nat /\ linesperbatch \in Nat /\ first_no \in Nat
  BY BaseFacts DEF IInv, NInv, TypeOK
<1>1. Before(first_no) \in Nat
  BY <1>0, WholeFilesFollow
<1>2. ASSUME NEW n \in Nat, n >= first_no
      PROVE  /\ CutBefore(n) = Before(first_no) + CutLines(n - first_no, linesperbatch)
             /\ CutLines(n - first_no, linesperbatch) \in Nat /\ n - first_no \in Nat
  <2>1. n - first_no \in Nat
    BY <1>0, <1>2
  <2> QED
    BY <1>0, <2>1, CutLinesFacts DEF CutBefore, Before
<1>3. CutBefore(first_no) = Before(first_no)
  <2>1. first_no - first_no = 0 /\ CutLines(0, linesperbatch) = 0
    BY <1>0, CutLinesFacts
  <2> QED
    BY <1>0, <1>1, <1>2, <2>1
<1>4. ASSUME NEW n \in Nat, NEW m \in Nat, first_no <= n, n < m
      PROVE  CutBefore(n) + linesperbatch <= CutBefore(m)
  <2>1. PICK a \in Nat, b \in Nat : a = n - first_no /\ b = m - first_no /\ a < b
    BY <1>0, <1>4
  <2>2. CutLines(a, linesperbatch) + linesperbatch <= CutLines(b, linesperbatch)
    BY <1>0, <2>1, CutLinesFacts
  <2>3. /\ CutBefore(n) = Before(first_no) + CutLines(a, linesperbatch)
        /\ CutBefore(m) = Before(first_no) + CutLines(b, linesperbatch)
        /\ CutLines(a, linesperbatch) \in Nat /\ CutLines(b, linesperbatch) \in Nat
    BY <1>0, <1>2, <1>4, <2>1
  <2> QED
    BY <1>0, <1>1, <2>2, <2>3
<1>5. ASSUME NEW m \in Nat, m >= first_no, NEW no \in Before(first_no) + 1 .. CutBefore(m)
      PROVE  \E n \in first_no .. m - 1 : CutBefore(n) < no /\ no <= CutBefore(n) + linesperbatch
  <2>1. PICK a \in Nat, x \in Int : a = m - first_no /\ x = no - Before(first_no)
    <3>1. m - first_no \in Nat /\ no - Before(first_no) \in Int
      BY <1>0, <1>1, <1>5
    <3> QED
      BY <3>1, Zenon
  <2>2. x \in 1 .. a * linesperbatch
    BY <1>0, <1>1, <1>2, <1>5, <2>1 DEF CutLines
  <2>3. PICK q \in 0 .. a - 1 : q * linesperbatch < x /\ x <= q * linesperbatch + linesperbatch
    BY <1>0, <2>2, PartOfPosition
  <2>4. PICK n \in first_no .. m - 1 : n - first_no = q
    <3>1. first_no + q \in first_no .. m - 1 /\ (first_no + q) - first_no = q
      BY <1>0, <1>5, <2>1
    <3> QED
      BY <3>1
  <2>5. CutBefore(n) = Before(first_no) + q * linesperbatch /\ q * linesperbatch \in Nat
    BY <1>0, <1>2, <2>4 DEF CutLines
  <2> QED
    BY <1>0, <1>1, <2>1, <2>3, <2>4, <2>5
<1> QED
  BY <1>1, <1>2, <1>3, <1>4, <1>5

\* The pieces: the files before the mark, the merge file, the files from the mark on.
LEMMA PiecesFacts ==
  ASSUME IInv, NEW mark \in Nat
  PROVE  /\ Pieces(mark) \subseteq Nat /\ mark \in Pieces(mark) /\ Piece(mark, mark) = tomerge
         /\ \A n \in Nat : n < mark =>
              /\ n \in Pieces(mark) <=> n \in DOMAIN batch /\ n >= Base
              /\ Piece(n, mark) = batch[n]
         /\ \A n \in Nat : n > mark =>
              /\ n \in Pieces(mark) <=> n - 1 \in DOMAIN batch /\ n - 1 >= Base
              /\ Piece(n, mark) = batch[n - 1]
<1>1. DOMAIN batch \subseteq Nat
  BY DEF IInv, NInv, TypeOK
<1>2. Files = {n \in DOMAIN batch : n >= Base} /\ Files \subseteq Nat
  BY <1>1 DEF Files, Base
<1>3. /\ Piece(mark, mark) = tomerge
      /\ \A n \in Nat : n < mark => Piece(n, mark) = batch[n]
      /\ \A n \in Nat : n > mark => Piece(n, mark) = batch[n - 1]
  BY DEF Piece
<1>4. Pieces(mark) \subseteq Nat /\ mark \in Pieces(mark)
  BY <1>2 DEF Pieces
<1>5. ASSUME NEW n \in Nat, n < mark
      PROVE  n \in Pieces(mark) <=> n \in DOMAIN batch /\ n >= Base
  BY <1>2, <1>5 DEF Pieces
<1>6. ASSUME NEW n \in Nat, n > mark
      PROVE  n \in Pieces(mark) <=> n - 1 \in DOMAIN batch /\ n - 1 >= Base
  BY <1>2, <1>6 DEF Pieces
<1> QED
  BY <1>3, <1>4, <1>5, <1>6

\* Nothing is merged: whole files and the last file.
LEMMA HeldByFiles ==
  ASSUME IInv, first_no >= Base, DOMAIN batch = 1 .. first_no - 1, tomerge = <<>>,
         first_no > Base => WholeFiles(Base, first_no - 2) /\ LastFile(first_no - 1),
         first_no = Base => taken = 0
  PROVE  HoldInOrder(first_no, taken)
<1> DEFINE P == Pieces(first_no)
           last == first_no - 1
<1>0. /\ Base \in Nat \ {0} /\ d \in DataSets /\ taken \in Nat /\ first_no \in Nat \ {0}
      /\ batchsize \in Nat
  BY BaseFacts, BatchsizePositive
<1>1. PICK mark \in Nat : mark = first_no
  BY <1>0
<1>2. PICK start : start = [n \in P |-> IF n = mark THEN taken ELSE Before(n)]
  OBVIOUS
<1>3. PICK length : length = [n \in P |-> IF n = mark THEN 0 ELSE
                                         IF n = last THEN taken - Before(n) ELSE batchsize]
  OBVIOUS
<1>4. /\ P \subseteq Nat /\ mark \in P /\ Piece(mark, mark) = tomerge
      /\ \A n \in P : n # mark => n \in Base .. last /\ Piece(n, mark) = batch[n]
      /\ \A n \in Base .. last : n \in P
  <2>1. P = Pieces(mark)
    BY <1>1
  <2> HIDE DEF P
  <2>2. /\ Pieces(mark) \subseteq Nat /\ mark \in Pieces(mark) /\ Piece(mark, mark) = tomerge
        /\ \A n \in Nat : n < mark =>
             /\ n \in Pieces(mark) <=> n \in DOMAIN batch /\ n >= Base
             /\ Piece(n, mark) = batch[n]
        /\ \A n \in Nat : n > mark =>
             (n \in Pieces(mark) <=> n - 1 \in DOMAIN batch /\ n - 1 >= Base)
    BY PiecesFacts
  <2> QED
    BY <1>0, <1>1, <2>1, <2>2
<1>5. /\ last >= Base => Before(last) \in Nat /\ taken - Before(last) \in 0 .. batchsize
                         /\ batch[last] = Stretch(d, Before(last), taken - Before(last))
      /\ \A n \in Base .. last - 1 : batch[n] = Stretch(d, Before(n), batchsize)
      /\ last < Base => taken = 0
  <2>1. last >= Base => WholeFiles(Base, first_no - 2) /\ LastFile(last) /\ Before(last) \in Nat
    BY <1>0, WholeFilesFollow
  <2>2. first_no - 2 = last - 1
    BY <1>0
  <2> QED
    BY <1>0, <2>1, <2>2 DEF WholeFiles, LastFile, Rest, Before
<1> HIDE DEF P
<1>6. ASSUME NEW n \in P
      PROVE  /\ start[n] \in Nat /\ length[n] \in Nat /\ start[n] + length[n] <= taken
             /\ Piece(n, mark) = Stretch(d, start[n], length[n])
  <2>1. CASE n = mark
    <3>1. start[n] = taken /\ length[n] = 0 /\ Stretch(d, taken, 0) = <<>>
      BY <1>0, <1>2, <1>3, <2>1, StretchEmpty
    <3> QED
      BY <1>0, <1>4, <2>1, <3>1
  <2>2. CASE n # mark /\ n = last
    <3>1. n >= Base
      BY <1>0, <1>4, <2>2
    <3>2. start[n] = Before(last) /\ length[n] = taken - Before(last)
      BY <1>2, <1>3, <2>2
    <3>3. Piece(n, mark) = Stretch(d, start[n], length[n])
      BY <1>4, <1>5, <2>2, <3>1, <3>2
    <3> QED
      BY <1>0, <1>5, <2>2, <3>1, <3>2, <3>3
  <2>3. CASE n # mark /\ n # last
    <3>1. n \in Base .. last - 1 /\ last \in Nat /\ n \in Nat
      BY <1>0, <1>4, <2>3
    <3>2. start[n] = Before(n) /\ length[n] = batchsize
      BY <1>2, <1>3, <2>3
    <3>3. Before(n) \in Nat /\ Before(n) + batchsize <= Before(last) /\ Before(last) \in Nat
      BY <1>0, <3>1, WholeFilesFollow
    <3>4. Piece(n, mark) = Stretch(d, start[n], length[n])
      BY <1>4, <1>5, <2>3, <3>1, <3>2
    <3>5. Before(n) + batchsize <= taken
      BY <1>0, <1>5, <3>1, <3>3
    <3> QED
      BY <1>0, <3>2, <3>3, <3>4, <3>5
  <2> QED
    BY <2>1, <2>2, <2>3
<1>7. ASSUME NEW n \in P, NEW m \in P, n < m PROVE start[n] + length[n] <= start[m]
  <2>0. n \in Base .. last /\ n \in Nat /\ m \in Nat /\ n # mark /\ last \in Nat
    BY <1>0, <1>1, <1>4, <1>7
  <2>1. CASE m = mark
    BY <1>2, <1>6, <2>1
  <2>2. CASE m # mark
    <3>1. m \in Base .. last /\ n # last
      BY <1>0, <1>4, <1>7, <2>0, <2>2
    <3>2. start[n] = Before(n) /\ length[n] = batchsize /\ start[m] = Before(m)
      BY <1>2, <1>3, <2>0, <2>2, <3>1
    <3> QED
      BY <1>7, <2>0, <3>1, <3>2, WholeFilesFollow
  <2> QED
    BY <2>1, <2>2
<1>8. ASSUME NEW no \in 1 .. taken
      PROVE  \E n \in P : start[n] < no /\ no <= start[n] + length[n]
  <2>0. last >= Base /\ last \in Nat
    BY <1>0, <1>5
  <2>1. CASE no > Before(last)
    <3>1. last \in P /\ last # mark
      BY <1>0, <1>1, <1>4, <2>0
    <3>2. start[last] = Before(last) /\ length[last] = taken - Before(last)
      BY <1>2, <1>3, <3>1
    <3> QED
      BY <1>0, <1>5, <2>0, <2>1, <3>1, <3>2
  <2>2. CASE no <= Before(last)
    <3>1. no \in 1 .. Before(last)
      BY <1>0, <1>5, <2>0, <2>2
    <3>2. PICK n \in Base .. last - 1 : Before(n) < no /\ no <= Before(n) + batchsize
      BY <2>0, <3>1, WholeFilesFollow
    <3>3. n \in P /\ n # mark /\ n # last
      BY <1>0, <1>1, <1>4, <2>0, <3>2
    <3>4. start[n] = Before(n) /\ length[n] = batchsize
      BY <1>2, <1>3, <3>3
    <3> QED
      BY <3>2, <3>3, <3>4
  <2> QED
    BY <1>0, <1>5, <2>0, <2>1, <2>2
<1> QED
  <2>1. P = Pieces(mark)
    BY <1>1 DEF P
  <2>2. HoldInOrder(mark, taken)
    BY <1>0, <1>4, <1>6, <1>7, <1>8, <2>1, StretchesHold
  <2> QED
    BY <1>1, <2>2

\* The last files are being merged.
LEMMA HeldWhileMerging ==
  ASSUME IInv, pc = "merge"
  PROVE  HoldInOrder(first_no, taken)
<1>0. /\ Base \in Nat \ {0} /\ d \in DataSets /\ taken \in Nat /\ first_no \in Nat \ {0}
      /\ batchsize \in Nat /\ ncount \in Nat /\ i \in Nat /\ checking \in Nat
  BY BaseFacts, BatchsizePositive DEF IInv, NInv, TypeOK
<1>1. /\ checking \in 1 .. ncount /\ i \in 1 .. checking + 1
      /\ first_no - i + 1 + checking = Base + ncount
      /\ DOMAIN batch = (1 .. first_no - i) \cup (first_no .. Base + ncount - 1)
  BY DEF IInv, NInv, NumbersOK
<1>2. PICK mark \in Nat, f \in Nat, last \in Nat :
         /\ mark = first_no /\ f = first_no - i + 1 /\ last = Base + ncount - 1
  <2>1. first_no \in Nat /\ first_no - i + 1 \in Nat /\ Base + ncount - 1 \in Nat
    BY <1>0, <1>1
  <2> QED
    BY <2>1, Zenon
<1>3. /\ MergedFrom = f /\ LastNumber = last
      /\ Base <= f /\ f <= mark /\ f <= last
      /\ DOMAIN batch = (1 .. f - 1) \cup (mark .. last)
      /\ i > checking <=> mark > last
  BY <1>0, <1>1, <1>2 DEF MergedFrom, LastNumber
<1>4. PICK upto \in Nat : upto = IF i > checking THEN taken ELSE Before(mark)
  <2>1. Before(mark) \in Nat
    BY <1>0, <1>3, WholeFilesFollow
  <2> QED
    BY <1>0, <2>1
<1>5. /\ \A n \in Base .. f - 1 : batch[n] = Stretch(d, Before(n), batchsize)
      /\ \A n \in mark .. last - 1 : batch[n] = Stretch(d, Before(n), batchsize)
      /\ mark <= last => batch[last] = Stretch(d, Before(last), taken - Before(last))
      /\ taken - Before(last) \in 0 .. batchsize
      /\ tomerge = Stretch(d, Before(f), upto - Before(f))
  <2>1. /\ WholeFiles(Base, f - 1) /\ WholeFiles(mark, last - 1)
        /\ i <= checking => LastFile(last)
        /\ Rest(last) \in 0 .. batchsize
        /\ tomerge = Stretch(d, Before(f), IF i > checking THEN Rest(f) ELSE Before(mark) - Before(f))
    BY <1>2, <1>3 DEF IInv, LinesOK, Before
  <2>2. Rest(last) = taken - Before(last) /\ Rest(f) = taken - Before(f)
    BY DEF Rest, Before
  <2>3. tomerge = Stretch(d, Before(f), upto - Before(f))
    BY <1>4, <2>1, <2>2
  <2>4. mark <= last => i <= checking
    BY <1>0, <1>3
  <2> QED
    BY <2>1, <2>2, <2>3, <2>4 DEF WholeFiles, LastFile, Before
<1>6. /\ Before(f) \in Nat /\ Before(mark) \in Nat /\ Before(last) \in Nat
      /\ Before(f) <= Before(mark) /\ Before(f) <= Before(last) /\ Before(last) <= taken
      /\ mark <= last => Before(mark) <= Before(last)
  <2>1. Before(f) \in Nat /\ Before(mark) \in Nat /\ Before(last) \in Nat
    BY <1>0, <1>3, WholeFilesFollow
  <2>2. /\ Before(f) <= Before(mark) /\ Before(f) <= Before(last)
        /\ mark <= last => Before(mark) <= Before(last)
    BY <1>0, <1>3, WholeFilesFollow
  <2> QED
    BY <1>0, <1>5, <2>1, <2>2
<1>7. /\ Before(f) <= upto /\ upto <= taken
      /\ mark <= last => upto = Before(mark)
      /\ mark > last => upto = taken
  BY <1>0, <1>3, <1>4, <1>6
<1> DEFINE P == Pieces(mark)
<1>8. PICK start : start = [n \in P |-> IF n = mark THEN Before(f) ELSE
                                        IF n < mark THEN Before(n) ELSE Before(n - 1)]
  OBVIOUS
<1>9. PICK length : length = [n \in P |-> IF n = mark THEN upto - Before(f) ELSE
                                         IF n = last + 1 THEN taken - Before(last) ELSE batchsize]
  OBVIOUS
<1>10. /\ P \subseteq Nat /\ mark \in P /\ Piece(mark, mark) = tomerge
       /\ \A n \in P : n < mark => n \in Base .. f - 1 /\ Piece(n, mark) = batch[n]
       /\ \A n \in P : n > mark => n - 1 \in mark .. last /\ Piece(n, mark) = batch[n - 1]
       /\ \A n \in Base .. f - 1 : n \in P
       /\ \A n \in mark .. last : n + 1 \in P
  <2>1. /\ P \subseteq Nat /\ mark \in P /\ Piece(mark, mark) = tomerge
        /\ \A n \in Nat : n < mark =>
             /\ n \in P <=> n \in DOMAIN batch /\ n >= Base
             /\ Piece(n, mark) = batch[n]
        /\ \A n \in Nat : n > mark =>
             /\ n \in P <=> n - 1 \in DOMAIN batch /\ n - 1 >= Base
             /\ Piece(n, mark) = batch[n - 1]
    BY PiecesFacts
  <2> HIDE DEF P
  <2>2. \A n \in P : n < mark => n \in Base .. f - 1 /\ Piece(n, mark) = batch[n]
    BY <1>0, <1>3, <2>1
  <2>3. \A n \in P : n > mark => n - 1 \in mark .. last /\ Piece(n, mark) = batch[n - 1]
    BY <1>0, <1>3, <2>1
  <2>4. \A n \in Base .. f - 1 : n \in P
    BY <1>0, <1>3, <2>1
  <2>5. \A n \in mark .. last : n + 1 \in P
    <3>1. ASSUME NEW n \in mark .. last PROVE n + 1 \in P
      <4>1. n + 1 \in Nat /\ n + 1 > mark /\ (n + 1) - 1 = n /\ n \in DOMAIN batch /\ n >= Base
        BY <1>0, <1>3, <3>1
      <4> QED
        BY <2>1, <4>1
    <3> QED
      BY <3>1
  <2> QED
    BY <2>1, <2>2, <2>3, <2>4, <2>5
<1> HIDE DEF P
<1>11. ASSUME NEW n \in P
       PROVE  /\ n < mark => start[n] = Before(n) /\ length[n] = batchsize
                             /\ Before(n) \in Nat /\ Before(n) + batchsize <= Before(f)
              /\ n = mark => start[n] = Before(f) /\ length[n] = upto - Before(f)
              /\ n > mark => /\ start[n] = Before(n - 1) /\ Before(n - 1) \in Nat
                             /\ Before(mark) <= Before(n - 1)
                             /\ n = last + 1 => length[n] = taken - Before(last)
                             /\ n # last + 1 => /\ length[n] = batchsize
                                                /\ Before(n - 1) + batchsize <= Before(last)
  <2>0. n \in Nat
    BY <1>10
  <2>1. CASE n < mark
    <3>1. n \in Base .. f - 1 /\ n # last + 1
      BY <1>0, <1>3, <1>10, <2>1
    <3>2. Before(n) \in Nat /\ Before(n) + batchsize <= Before(f)
      BY <1>0, <3>1, WholeFilesFollow
    <3> QED
      BY <1>8, <1>9, <2>0, <2>1, <3>1, <3>2
  <2>2. CASE n = mark
    BY <1>8, <1>9, <2>0, <2>2
  <2>3. CASE n > mark
    <3>1. /\ n - 1 \in mark .. last /\ n - 1 \in Nat
          /\ n # last + 1 => n - 1 < last
      BY <1>0, <1>10, <2>0, <2>3
    <3>2. Before(n - 1) \in Nat /\ Before(mark) <= Before(n - 1)
      BY <1>0, <1>3, <3>1, WholeFilesFollow
    <3>3. n # last + 1 => Before(n - 1) + batchsize <= Before(last)
      BY <1>0, <1>3, <3>1, WholeFilesFollow
    <3> QED
      BY <1>8, <1>9, <2>0, <2>3, <3>1, <3>2, <3>3
  <2> QED
    BY <2>0, <2>1, <2>2, <2>3
<1>12. ASSUME NEW n \in P
       PROVE  /\ start[n] \in Nat /\ length[n] \in Nat /\ start[n] + length[n] <= taken
              /\ Piece(n, mark) = Stretch(d, start[n], length[n])
  <2>0. n \in Nat
    BY <1>10
  <2>1. CASE n < mark
    <3>1. Piece(n, mark) = Stretch(d, start[n], length[n])
      BY <1>5, <1>10, <1>11, <2>1
    <3> QED
      BY <1>0, <1>6, <1>11, <2>1, <3>1
  <2>2. CASE n = mark
    <3>1. Piece(n, mark) = Stretch(d, start[n], length[n])
      BY <1>5, <1>10, <1>11, <2>2
    <3> QED
      BY <1>0, <1>6, <1>7, <1>11, <2>2, <3>1
  <2>3. CASE n > mark
    <3>1. n - 1 \in mark .. last /\ Piece(n, mark) = batch[n - 1] /\ mark <= last
      BY <1>10, <2>0, <2>3
    <3>2. CASE n = last + 1
      <4>1. n - 1 = last
        BY <3>2
      <4>2. Piece(n, mark) = Stretch(d, start[n], length[n])
        BY <1>5, <1>11, <2>3, <3>1, <3>2, <4>1
      <4> QED
        BY <1>0, <1>5, <1>6, <1>11, <2>3, <3>2, <4>1, <4>2
    <3>3. CASE n # last + 1
      <4>1. n - 1 \in mark .. last - 1
        BY <2>0, <3>1, <3>3
      <4>2. Piece(n, mark) = Stretch(d, start[n], length[n])
        BY <1>5, <1>11, <2>3, <3>1, <3>3, <4>1
      <4> QED
        BY <1>0, <1>6, <1>11, <2>3, <3>3, <4>2
    <3> QED
      BY <3>2, <3>3
  <2> QED
    BY <2>0, <2>1, <2>2, <2>3
<1>13. ASSUME NEW n \in P, NEW m \in P, n < m PROVE start[n] + length[n] <= start[m]
  <2>0. n \in Nat /\ m \in Nat
    BY <1>10
  <2>1. CASE n < mark /\ m < mark
    <3>1. n \in Base .. f - 1 /\ m \in Base .. f - 1
      BY <1>10, <2>1
    <3>2. Before(n) + batchsize <= Before(m)
      BY <1>0, <1>13, <2>0, <3>1, WholeFilesFollow
    <3> QED
      BY <1>11, <2>1, <3>2
  <2>2. CASE n < mark /\ m >= mark
    <3>1. start[n] + length[n] <= Before(f)
      BY <1>11, <2>2
    <3>2. Before(f) <= start[m] /\ start[m] \in Nat
      BY <1>6, <1>11, <1>12, <2>0, <2>2
    <3>3. start[n] \in Nat /\ length[n] \in Nat
      BY <1>12
    <3> QED
      BY <1>6, <3>1, <3>2, <3>3
  <2>3. CASE n = mark
    <3>1. m > mark /\ mark <= last
      BY <1>10, <1>13, <2>0, <2>3
    <3>2. start[n] + length[n] = Before(mark)
      BY <1>6, <1>7, <1>11, <2>3, <3>1
    <3> QED
      BY <1>11, <3>1, <3>2
  <2>4. CASE n > mark
    <3>1. m > mark /\ n - 1 \in mark .. last /\ m - 1 \in mark .. last /\ n # last + 1
      BY <1>10, <1>13, <2>0, <2>4
    <3>2. n - 1 \in Nat /\ m - 1 \in Nat /\ n - 1 < m - 1 /\ Base <= n - 1
      BY <1>0, <1>3, <1>13, <2>0, <3>1
    <3>3. Before(n - 1) + batchsize <= Before(m - 1)
      BY <3>2, WholeFilesFollow
    <3> QED
      BY <1>11, <2>4, <3>1, <3>3
  <2> QED
    BY <2>0, <2>1, <2>2, <2>3, <2>4
<1>14. ASSUME NEW no \in 1 .. taken
       PROVE  \E n \in P : start[n] < no /\ no <= start[n] + length[n]
  <2>1. CASE no <= Before(f)
    <3>1. no \in 1 .. Before(f)
      BY <1>6, <2>1
    <3>2. PICK n \in Base .. f - 1 : Before(n) < no /\ no <= Before(n) + batchsize
      BY <1>0, <1>3, <3>1, WholeFilesFollow
    <3>3. n \in P /\ n < mark
      BY <1>0, <1>3, <1>10, <3>2
    <3> QED
      BY <1>11, <3>2, <3>3
  <2>2. CASE no > Before(f) /\ no <= upto
    <3>1. start[mark] < no /\ no <= start[mark] + length[mark]
      BY <1>6, <1>10, <1>11, <2>2
    <3> QED
      BY <1>10, <3>1
  <2>3. CASE no > upto /\ no > Before(last)
    <3>1. mark <= last
      BY <1>0, <1>7, <2>3
    <3>2. last + 1 \in P /\ last + 1 > mark /\ (last + 1) - 1 = last
      BY <1>10, <3>1
    <3>3. start[last + 1] = Before(last) /\ length[last + 1] = taken - Before(last)
      BY <1>11, <3>2
    <3>4. start[last + 1] < no /\ no <= start[last + 1] + length[last + 1]
      BY <1>0, <1>6, <2>3, <3>3
    <3> QED
      BY <3>2, <3>4
  <2>4. CASE no > upto /\ no <= Before(last)
    <3>1. mark <= last /\ upto = Before(mark)
      BY <1>0, <1>7, <2>4
    <3>2. no \in 1 .. Before(last)
      BY <1>6, <2>4
    <3>3. PICK n \in Base .. last - 1 : Before(n) < no /\ no <= Before(n) + batchsize
      BY <1>0, <1>3, <3>2, WholeFilesFollow
    <3>4. n >= mark
      <4>1. SUFFICES ASSUME n < mark PROVE FALSE
        BY <3>3
      <4>2. Before(n) + batchsize <= Before(mark) /\ Before(n) \in Nat
        BY <1>0, <3>3, <4>1, WholeFilesFollow
      <4> QED
        BY <1>0, <1>6, <2>4, <3>1, <3>3, <4>2
    <3>5. n + 1 \in P /\ n + 1 > mark /\ (n + 1) - 1 = n /\ n + 1 # last + 1
      BY <1>0, <1>10, <3>3, <3>4
    <3>6. start[n + 1] = Before(n) /\ length[n + 1] = batchsize
      BY <1>11, <3>5
    <3> QED
      BY <3>3, <3>5, <3>6
  <2> QED
    BY <1>6, <2>1, <2>2, <2>3, <2>4
<1> QED
  <2>1. HoldInOrder(mark, taken)
    BY <1>0, <1>10, <1>12, <1>13, <1>14, StretchesHold DEF P
  <2> QED
    BY <1>2, <2>1

\* The merged lines are being cut: the merge file holds what follows the last cut.
LEMMA HeldWhileSplitting ==
  ASSUME IInv, pc = "split"
  PROVE  HoldInOrder(i, taken)
<1>0. /\ Base \in Nat \ {0} /\ d \in DataSets /\ taken \in Nat /\ first_no \in Nat \ {0}
      /\ batchsize \in Nat /\ ncount \in Nat /\ i \in Nat /\ linesperbatch \in Nat
  BY BaseFacts, BatchsizePositive DEF IInv, NInv, TypeOK
<1>1. /\ DOMAIN batch = 1 .. i - 1 /\ first_no = Base + ncount
      /\ first_no <= i /\ Base <= first_no
  BY <1>0, BatchFilesAssumption DEF IInv, NInv, NumbersOK
<1>2. PICK mark \in Nat, f \in Nat : mark = i /\ f = first_no
  BY <1>0
<1>3. /\ \A n \in Base .. f - 1 : batch[n] = Stretch(d, Before(n), batchsize)
      /\ \A n \in f .. mark - 1 : batch[n] = Stretch(d, CutBefore(n), linesperbatch)
      /\ tomerge = Stretch(d, CutBefore(mark), taken - CutBefore(mark))
  BY <1>2 DEF IInv, LinesOK, WholeFiles, CutFiles, Before
<1>4. /\ Before(f) \in Nat /\ CutBefore(mark) \in Nat /\ CutBefore(f) = Before(f)
      /\ Before(f) <= CutBefore(mark) /\ CutBefore(mark) <= taken
      /\ \A n \in Nat : n >= f => CutBefore(n) \in Nat
      /\ \A n, m \in Nat : f <= n /\ n < m => CutBefore(n) + linesperbatch <= CutBefore(m)
      /\ \A n \in Nat : n >= f => Before(f) <= CutBefore(n)
      /\ \A no \in Before(f) + 1 .. CutBefore(mark) : \E n \in f .. mark - 1 :
            CutBefore(n) < no /\ no <= CutBefore(n) + linesperbatch
  BY <1>0, <1>1, <1>2, CutFilesFollow, CutsAreThere
<1> DEFINE P == Pieces(mark)
<1>5. PICK start : start = [n \in P |-> IF n < f THEN Before(n) ELSE CutBefore(n)]
  OBVIOUS
<1>6. PICK length : length = [n \in P |-> IF n < f THEN batchsize ELSE
                                         IF n = mark THEN taken - CutBefore(mark) ELSE linesperbatch]
  OBVIOUS
<1>7. /\ P \subseteq Nat /\ mark \in P /\ Piece(mark, mark) = tomerge
      /\ \A n \in P : n # mark => n \in Base .. mark - 1 /\ Piece(n, mark) = batch[n]
      /\ \A n \in Base .. mark - 1 : n \in P
  <2>1. /\ P \subseteq Nat /\ mark \in P /\ Piece(mark, mark) = tomerge
        /\ \A n \in Nat : n < mark =>
             /\ n \in P <=> n \in DOMAIN batch /\ n >= Base
             /\ Piece(n, mark) = batch[n]
        /\ \A n \in Nat : n > mark =>
             (n \in P <=> n - 1 \in DOMAIN batch /\ n - 1 >= Base)
    BY PiecesFacts
  <2> HIDE DEF P
  <2> QED
    BY <1>0, <1>1, <1>2, <2>1
<1> HIDE DEF P
<1>8. Base \in Nat /\ Base <= f /\ f <= mark
  BY <1>0, <1>1, <1>2
<1>9. ASSUME NEW n \in P
      PROVE  /\ n < f => /\ start[n] = Before(n) /\ length[n] = batchsize
                         /\ n \in Base .. f - 1
                         /\ Before(n) \in Nat /\ Before(n) + batchsize <= Before(f)
             /\ n >= f => start[n] = CutBefore(n) /\ CutBefore(n) \in Nat
             /\ n = mark => length[n] = taken - CutBefore(mark)
             /\ n >= f /\ n # mark => /\ length[n] = linesperbatch /\ n \in f .. mark - 1
                                      /\ CutBefore(n) + linesperbatch <= CutBefore(mark)
  <2>0. n \in Nat
    BY <1>7
  <2>1. CASE n < f
    <3>1. n \in Base .. f - 1
      BY <1>7, <1>8, <2>0, <2>1
    <3>2. Before(n) \in Nat /\ Before(n) + batchsize <= Before(f)
      BY <1>8, <3>1, WholeFilesFollow
    <3> QED
      BY <1>5, <1>6, <1>8, <2>0, <2>1, <3>1, <3>2
  <2>2. CASE n >= f /\ n # mark
    <3>1. n \in f .. mark - 1
      BY <1>7, <1>8, <2>0, <2>2
    <3> QED
      BY <1>4, <1>5, <1>6, <1>8, <2>0, <2>2, <3>1
  <2>3. CASE n >= f /\ n = mark
    BY <1>4, <1>5, <1>6, <1>8, <2>0, <2>3
  <2> QED
    BY <1>8, <2>0, <2>1, <2>2, <2>3
<1>10. ASSUME NEW n \in P
       PROVE  /\ start[n] \in Nat /\ length[n] \in Nat /\ start[n] + length[n] <= taken
              /\ Piece(n, mark) = Stretch(d, start[n], length[n])
  <2>0. n \in Nat
    BY <1>7
  <2>1. CASE n < f
    <3>1. Piece(n, mark) = Stretch(d, start[n], length[n])
      BY <1>3, <1>7, <1>8, <1>9, <2>1
    <3> QED
      BY <1>0, <1>4, <1>9, <2>1, <3>1
  <2>2. CASE n >= f /\ n # mark
    <3>1. Piece(n, mark) = Stretch(d, start[n], length[n])
      BY <1>3, <1>7, <1>9, <2>2
    <3> QED
      BY <1>0, <1>4, <1>9, <2>2, <3>1
  <2>3. CASE n = mark
    <3>1. start[n] = CutBefore(mark) /\ length[n] = taken - CutBefore(mark)
      BY <1>8, <1>9, <2>3
    <3>2. Piece(n, mark) = Stretch(d, start[n], length[n])
      BY <1>3, <1>7, <2>3, <3>1
    <3> QED
      BY <1>0, <1>4, <3>1, <3>2
  <2> QED
    BY <1>8, <2>0, <2>1, <2>2, <2>3
<1>11. ASSUME NEW n \in P, NEW m \in P, n < m PROVE start[n] + length[n] <= start[m]
  <2>0. n \in Nat /\ m \in Nat /\ n # mark
    <3>1. m <= mark /\ m \in Nat /\ n \in Nat
      BY <1>7, <1>8
    <3> QED
      BY <1>11, <3>1
  <2>1. CASE m < f
    <3>1. n \in Base .. f - 1 /\ m \in Base .. f - 1 /\ n < f
      BY <1>8, <1>9, <1>11, <2>0, <2>1
    <3>2. Before(n) + batchsize <= Before(m)
      BY <1>8, <1>11, <2>0, <3>1, WholeFilesFollow
    <3> QED
      BY <1>9, <2>1, <3>1, <3>2
  <2>2. CASE n < f /\ m >= f
    <3>1. start[n] + length[n] <= Before(f) /\ start[n] \in Nat /\ length[n] \in Nat
      BY <1>9, <1>10, <2>2
    <3>2. Before(f) <= start[m] /\ start[m] \in Nat
      BY <1>4, <1>9, <2>0, <2>2
    <3> QED
      BY <1>4, <3>1, <3>2
  <2>3. CASE n >= f
    <3>1. m >= f
      BY <1>8, <1>11, <2>0, <2>3
    <3>2. CutBefore(n) + linesperbatch <= CutBefore(m)
      BY <1>4, <1>11, <2>0, <2>3
    <3> QED
      BY <1>9, <2>0, <2>3, <3>1, <3>2
  <2> QED
    BY <1>8, <2>0, <2>1, <2>2, <2>3
<1>12. ASSUME NEW no \in 1 .. taken
       PROVE  \E n \in P : start[n] < no /\ no <= start[n] + length[n]
  <2>1. CASE no <= Before(f)
    <3>1. no \in 1 .. Before(f)
      BY <1>4, <2>1
    <3>2. PICK n \in Base .. f - 1 : Before(n) < no /\ no <= Before(n) + batchsize
      BY <1>8, <3>1, WholeFilesFollow
    <3>3. n \in P /\ n < f
      BY <1>7, <1>8, <3>2
    <3> QED
      BY <1>9, <3>2, <3>3
  <2>2. CASE no > Before(f) /\ no <= CutBefore(mark)
    <3>1. no \in Before(f) + 1 .. CutBefore(mark)
      BY <1>4, <2>2
    <3>2. PICK n \in f .. mark - 1 : CutBefore(n) < no /\ no <= CutBefore(n) + linesperbatch
      BY <1>4, <3>1
    <3>3. n \in P /\ n >= f /\ n # mark
      BY <1>7, <1>8, <3>2
    <3> QED
      BY <1>9, <3>2, <3>3
  <2>3. CASE no > CutBefore(mark)
    <3>1. start[mark] = CutBefore(mark) /\ length[mark] = taken - CutBefore(mark)
      BY <1>7, <1>8, <1>9
    <3> QED
      BY <1>0, <1>4, <1>7, <2>3, <3>1
  <2> QED
    BY <1>4, <2>1, <2>2, <2>3
<1> QED
  <2>1. HoldInOrder(mark, taken)
    BY <1>0, <1>7, <1>10, <1>11, <1>12, StretchesHold DEF P
  <2> QED
    BY <1>2, <2>1

\* The merged lines have been cut: what does not fill a file of each thread is lost.
LEMMA HeldAfterSplitting ==
  ASSUME IInv, pc \in {"return", "done"}, first_no + ExecutionThreads = Base + ncount,
         WholeFiles(Base, first_no - 1), CutFiles(first_no + ExecutionThreads - 1)
  PROVE  \E kept \in 0 .. lines[d] : /\ kept + ExecutionThreads > lines[d]
                                     /\ HoldInOrder(first_no, kept)
<1>0. /\ Base \in Nat \ {0} /\ d \in DataSets /\ taken \in Nat /\ first_no \in Nat \ {0}
      /\ batchsize \in Nat /\ ncount \in Nat /\ linesperbatch \in Nat
      /\ ExecutionThreads \in Nat \ {0}
  BY BaseFacts, BatchsizePositive, BatchFilesAssumption DEF IInv, NInv, TypeOK
<1>1. DOMAIN batch = 1 .. Base + ncount - 1 /\ taken = lines[d] /\ tomerge = <<>>
  <2>1. pc = "done" => d = 2 /\ returned[2] = ncount /\ DOMAIN batch = 1 .. returned[1] + returned[2]
    BY DEF IInv, NInv, NumbersOK
  <2>2. pc = "return" => DOMAIN batch = 1 .. Base + ncount - 1
    BY DEF IInv, NInv, NumbersOK
  <2>3. d = 2 => Base = returned[1] + 1 /\ returned[1] \in Nat
    BY BaseFacts
  <2>4. taken = lines[d] /\ tomerge = <<>>
    BY DEF IInv, LinesOK
  <2> QED
    BY <1>0, <2>1, <2>2, <2>3, <2>4
<1>2. PICK mark \in Nat, end \in Nat : mark = first_no /\ end = Base + ncount
  <2>1. first_no \in Nat /\ Base + ncount \in Nat
    BY <1>0
  <2> QED
    BY <2>1, Zenon
<1>3. /\ \A n \in Base .. mark - 1 : batch[n] = Stretch(d, Before(n), batchsize)
      /\ \A n \in mark .. end - 1 : batch[n] = Stretch(d, CutBefore(n), linesperbatch)
      /\ Base <= mark /\ mark < end /\ DOMAIN batch = 1 .. end - 1
      /\ linesperbatch = Rest(mark) \div ExecutionThreads /\ Rest(mark) >= 0
      /\ end - mark = ExecutionThreads
  <2>1. mark < end /\ end - 1 = first_no + ExecutionThreads - 1 /\ end - mark = ExecutionThreads
    BY <1>0, <1>2
  <2>2. WholeFiles(Base, mark - 1) /\ CutFiles(end - 1)
    BY <1>2, <2>1
  <2>3. \A n \in Base .. mark - 1 : batch[n] = Stretch(d, Before(n), batchsize)
    BY <2>2 DEF WholeFiles, Before
  <2>4. /\ mark >= Base /\ Rest(mark) >= 0 /\ linesperbatch = Rest(mark) \div ExecutionThreads
        /\ \A n \in mark .. end - 1 : batch[n] = Stretch(d, CutBefore(n), linesperbatch)
    BY <1>2, <2>2 DEF CutFiles
  <2> QED
    BY <1>0, <1>1, <1>2, <2>1, <2>3, <2>4
<1>4. /\ Before(mark) \in Nat /\ CutBefore(end) \in Nat /\ CutBefore(mark) = Before(mark)
      /\ Before(mark) <= CutBefore(end)
      /\ \A n \in Nat : n >= mark => CutBefore(n) \in Nat
      /\ \A n, m \in Nat : mark <= n /\ n < m => CutBefore(n) + linesperbatch <= CutBefore(m)
      /\ \A n \in Nat : n >= mark => Before(mark) <= CutBefore(n)
      /\ \A no \in Before(mark) + 1 .. CutBefore(end) : \E n \in mark .. end - 1 :
            CutBefore(n) < no /\ no <= CutBefore(n) + linesperbatch
  BY <1>0, <1>2, <1>3, CutFilesFollow
<1>5. CutBefore(end) <= taken /\ taken < CutBefore(end) + ExecutionThreads
  <2>1. CutBefore(end) = Before(mark) + CutLines(ExecutionThreads, linesperbatch)
    BY <1>2, <1>3 DEF CutBefore, Before
  <2>2. Rest(mark) = taken - Before(mark) /\ Rest(mark) \in Nat
    BY <1>0, <1>3, <1>4 DEF Rest, Before
  <2>3. /\ CutLines(ExecutionThreads, linesperbatch) <= Rest(mark)
        /\ Rest(mark) < CutLines(ExecutionThreads, linesperbatch) + ExecutionThreads
    BY <1>3, <2>2, CutsFit
  <2>4. CutLines(ExecutionThreads, linesperbatch) \in Nat
    BY <1>0, CutLinesFacts
  <2> QED
    BY <1>0, <1>4, <2>1, <2>2, <2>3, <2>4
<1>6. PICK kept \in Nat : kept = CutBefore(end)
  BY <1>4
<1> DEFINE P == Pieces(mark)
<1>7. PICK start : start = [n \in P |-> IF n < mark THEN Before(n) ELSE
                                        IF n = mark THEN Before(mark) ELSE CutBefore(n - 1)]
  OBVIOUS
<1>8. PICK length : length = [n \in P |-> IF n < mark THEN batchsize ELSE
                                         IF n = mark THEN 0 ELSE linesperbatch]
  OBVIOUS
<1>9. /\ P \subseteq Nat /\ mark \in P /\ Piece(mark, mark) = <<>>
      /\ \A n \in P : n < mark => n \in Base .. mark - 1 /\ Piece(n, mark) = batch[n]
      /\ \A n \in P : n > mark => n - 1 \in mark .. end - 1 /\ Piece(n, mark) = batch[n - 1]
      /\ \A n \in Base .. mark - 1 : n \in P
      /\ \A n \in mark .. end - 1 : n + 1 \in P
  <2>1. /\ P \subseteq Nat /\ mark \in P /\ Piece(mark, mark) = tomerge
        /\ \A n \in Nat : n < mark =>
             /\ n \in P <=> n \in DOMAIN batch /\ n >= Base
             /\ Piece(n, mark) = batch[n]
        /\ \A n \in Nat : n > mark =>
             /\ n \in P <=> n - 1 \in DOMAIN batch /\ n - 1 >= Base
             /\ Piece(n, mark) = batch[n - 1]
    BY PiecesFacts
  <2> HIDE DEF P
  <2>2. \A n \in P : n < mark => n \in Base .. mark - 1 /\ Piece(n, mark) = batch[n]
    BY <1>0, <1>3, <2>1
  <2>3. \A n \in P : n > mark => n - 1 \in mark .. end - 1 /\ Piece(n, mark) = batch[n - 1]
    BY <1>0, <1>3, <2>1
  <2>4. \A n \in Base .. mark - 1 : n \in P
    BY <1>0, <1>3, <2>1
  <2>5. \A n \in mark .. end - 1 : n + 1 \in P
    <3>1. ASSUME NEW n \in mark .. end - 1 PROVE n + 1 \in P
      <4>1. n + 1 \in Nat /\ n + 1 > mark /\ (n + 1) - 1 = n /\ n \in DOMAIN batch /\ n >= Base
        BY <1>0, <1>3, <3>1
      <4> QED
        BY <2>1, <4>1
    <3> QED
      BY <3>1
  <2> QED
    BY <1>1, <2>1, <2>2, <2>3, <2>4, <2>5
<1> HIDE DEF P
<1>10. ASSUME NEW n \in P
       PROVE  /\ n < mark => /\ start[n] = Before(n) /\ length[n] = batchsize
                             /\ Before(n) \in Nat /\ Before(n) + batchsize <= Before(mark)
              /\ n = mark => start[n] = Before(mark) /\ length[n] = 0
              /\ n > mark => /\ start[n] = CutBefore(n - 1) /\ length[n] = linesperbatch
                             /\ CutBefore(n - 1) \in Nat
                             /\ Before(mark) <= CutBefore(n - 1)
                             /\ CutBefore(n - 1) + linesperbatch <= kept
  <2>0. n \in Nat
    BY <1>9
  <2>1. CASE n < mark
    <3>1. n \in Base .. mark - 1
      BY <1>9, <2>1
    <3>2. Before(n) \in Nat /\ Before(n) + batchsize <= Before(mark)
      BY <1>0, <3>1, WholeFilesFollow
    <3> QED
      BY <1>7, <1>8, <2>0, <2>1, <3>1, <3>2
  <2>2. CASE n = mark
    BY <1>7, <1>8, <2>0, <2>2
  <2>3. CASE n > mark
    <3>1. n - 1 \in mark .. end - 1 /\ n - 1 \in Nat /\ n - 1 < end
      BY <1>9, <2>0, <2>3
    <3>2. /\ CutBefore(n - 1) \in Nat /\ Before(mark) <= CutBefore(n - 1)
          /\ CutBefore(n - 1) + linesperbatch <= kept
      BY <1>4, <1>6, <3>1
    <3> QED
      BY <1>7, <1>8, <2>0, <2>3, <3>2
  <2> QED
    BY <2>0, <2>1, <2>2, <2>3
<1>11. ASSUME NEW n \in P
       PROVE  /\ start[n] \in Nat /\ length[n] \in Nat /\ start[n] + length[n] <= kept
              /\ Piece(n, mark) = Stretch(d, start[n], length[n])
  <2>0. n \in Nat
    BY <1>9
  <2>1. CASE n < mark
    <3>1. Piece(n, mark) = Stretch(d, start[n], length[n])
      BY <1>3, <1>9, <1>10, <2>1
    <3> QED
      BY <1>0, <1>4, <1>6, <1>10, <2>1, <3>1
  <2>2. CASE n = mark
    <3>1. Piece(n, mark) = Stretch(d, start[n], length[n])
      BY <1>0, <1>4, <1>9, <1>10, <2>2, StretchEmpty
    <3> QED
      BY <1>4, <1>6, <1>10, <2>2, <3>1
  <2>3. CASE n > mark
    <3>1. n - 1 \in mark .. end - 1 /\ Piece(n, mark) = batch[n - 1]
      BY <1>9, <2>3
    <3>2. Piece(n, mark) = Stretch(d, start[n], length[n])
      BY <1>3, <1>10, <2>3, <3>1
    <3> QED
      BY <1>0, <1>10, <2>3, <3>2
  <2> QED
    BY <2>0, <2>1, <2>2, <2>3
<1>12. ASSUME NEW n \in P, NEW m \in P, n < m PROVE start[n] + length[n] <= start[m]
  <2>0. n \in Nat /\ m \in Nat
    BY <1>9
  <2>1. CASE m < mark
    <3>1. n \in Base .. mark - 1 /\ m \in Base .. mark - 1 /\ n < mark
      BY <1>9, <1>12, <2>0, <2>1
    <3>2. Before(n) + batchsize <= Before(m)
      BY <1>0, <1>12, <2>0, <3>1, WholeFilesFollow
    <3> QED
      BY <1>10, <2>1, <3>1, <3>2
  <2>2. CASE n <= mark /\ m >= mark
    <3>1. start[n] + length[n] <= Before(mark) /\ start[n] \in Nat /\ length[n] \in Nat
      BY <1>4, <1>10, <1>11, <2>0, <2>2
    <3>2. Before(mark) <= start[m] /\ start[m] \in Nat
      BY <1>4, <1>10, <1>11, <2>0, <2>2
    <3> QED
      BY <1>4, <3>1, <3>2
  <2>3. CASE n > mark
    <3>1. /\ n - 1 \in Nat /\ m - 1 \in Nat /\ n - 1 < m - 1 /\ mark <= n - 1 /\ m > mark
      BY <1>12, <2>0, <2>3
    <3>2. CutBefore(n - 1) + linesperbatch <= CutBefore(m - 1)
      BY <1>4, <3>1
    <3> QED
      BY <1>10, <2>3, <3>1, <3>2
  <2> QED
    BY <1>12, <2>0, <2>1, <2>2, <2>3
<1>13. ASSUME NEW no \in 1 .. kept
       PROVE  \E n \in P : start[n] < no /\ no <= start[n] + length[n]
  <2>1. CASE no <= Before(mark)
    <3>1. no \in 1 .. Before(mark)
      BY <1>4, <2>1
    <3>2. PICK n \in Base .. mark - 1 : Before(n) < no /\ no <= Before(n) + batchsize
      BY <1>0, <1>3, <3>1, WholeFilesFollow
    <3>3. n \in P /\ n < mark
      BY <1>0, <1>9, <3>2
    <3> QED
      BY <1>10, <3>2, <3>3
  <2>2. CASE no > Before(mark)
    <3>1. no \in Before(mark) + 1 .. CutBefore(end)
      BY <1>4, <1>6, <2>2
    <3>2. PICK n \in mark .. end - 1 : CutBefore(n) < no /\ no <= CutBefore(n) + linesperbatch
      BY <1>4, <3>1
    <3>3. n + 1 \in P /\ n + 1 > mark /\ (n + 1) - 1 = n
      BY <1>9, <3>2
    <3>4. start[n + 1] = CutBefore(n) /\ length[n + 1] = linesperbatch
      BY <1>10, <3>3
    <3> QED
      BY <3>2, <3>3, <3>4
  <2> QED
    BY <1>4, <2>1, <2>2
<1> QED
  <2>1. HoldInOrder(mark, kept)
    BY <1>0, <1>9, <1>11, <1>12, <1>13, StretchesHold DEF P
  <2>2. kept \in 0 .. lines[d] /\ kept + ExecutionThreads > lines[d]
    BY <1>0, <1>1, <1>5, <1>6
  <2> QED
    BY <1>2, <2>1, <2>2

\* Every line is held, once and in order, at every step of the copying, the
\* merging and the cutting of a data set; a finished data set lacks fewer lines
\* than there are threads (decrement, scheduler.c:232-313).
THEOREM LinesKept == Spec => []NoLineLost
<1>1. ASSUME IInv PROVE NoLineLost
  <2>0. /\ Base \in Nat \ {0} /\ ncount \in Nat /\ first_no \in Nat /\ taken \in Nat
        /\ pc \in Places /\ ExecutionThreads \in Nat \ {0} /\ lines[d] \in Nat
    BY <1>1, BaseFacts, BatchFilesAssumption DEF IInv, NInv, TypeOK
  <2>1. CASE pc = "open"
    <3>1. /\ first_no = Base + ncount /\ DOMAIN batch = 1 .. first_no - 1 /\ tomerge = <<>>
          /\ WholeFiles(Base, first_no - 1) /\ Rest(first_no) = 0
      BY <1>1, <2>1 DEF IInv, NInv, NumbersOK, LinesOK
    <3>2. first_no >= Base
      BY <2>0, <3>1
    <3>3. taken = Before(first_no)
      <4>1. Before(first_no) \in Nat
        BY <1>1, <2>0, <3>2, WholeFilesFollow
      <4> QED
        BY <2>0, <3>1, <4>1 DEF Rest, Before
    <3>4. first_no = Base => taken = 0
      BY <1>1, <3>3, WholeFilesFollow
    <3>5. ASSUME first_no > Base
          PROVE  WholeFiles(Base, first_no - 2) /\ LastFile(first_no - 1)
      <4>1. PICK last \in Nat : last = first_no - 1 /\ last >= Base /\ last - Base \in Nat
        BY <2>0, <3>5
      <4>2. (last - Base) + 1 = first_no - Base /\ first_no - 2 = last - 1
        BY <2>0, <4>1
      <4>3. WholeLines(last - Base) \in Nat /\ Rest(last) = batchsize /\ batchsize \in Nat
        <5>1. /\ WholeLines(last - Base) \in Nat
              /\ WholeLines((last - Base) + 1) = WholeLines(last - Base) + batchsize
          BY <4>1, WholeLinesFacts
        <5>2. taken = WholeLines(last - Base) + batchsize
          BY <3>3, <4>2, <5>1 DEF Before
        <5> QED
          BY <5>1, <5>2, BatchsizePositive DEF Rest
      <4>4. LastFile(last)
        BY <2>0, <3>1, <4>1, <4>3 DEF LastFile, WholeFiles
      <4>5. WholeFiles(Base, last - 1)
        BY <2>0, <3>1, <4>1 DEF WholeFiles
      <4> QED
        BY <4>1, <4>2, <4>4, <4>5
    <3>6. HoldInOrder(first_no, taken)
      BY <1>1, <3>1, <3>2, <3>4, <3>5, HeldByFiles
    <3> QED
      BY <2>1, <3>6 DEF NoLineLost
  <2>2. CASE pc \in {"copy", "check"}
    <3>1. /\ first_no = Base + ncount /\ DOMAIN batch = 1 .. first_no - 1 /\ tomerge = <<>>
          /\ ncount > 0 /\ WholeFiles(Base, first_no - 2) /\ LastFile(first_no - 1)
      BY <1>1, <2>2 DEF IInv, NInv, NumbersOK, LinesOK
    <3>2. first_no > Base /\ first_no >= Base /\ first_no # Base
      BY <2>0, <3>1
    <3>3. HoldInOrder(first_no, taken)
      BY <1>1, <3>1, <3>2, HeldByFiles
    <3> QED
      BY <2>2, <3>3 DEF NoLineLost
  <2>3. CASE pc = "merge"
    BY <1>1, <2>3, HeldWhileMerging DEF NoLineLost
  <2>4. CASE pc = "split"
    BY <1>1, <2>4, HeldWhileSplitting DEF NoLineLost
  <2>5. CASE pc \in {"return", "done"}
    <3>1. SUFFICES \E kept \in 0 .. lines[d] : /\ kept + ExecutionThreads > lines[d]
                                               /\ HoldInOrder(first_no, kept)
      BY <2>5 DEF NoLineLost
    <3>2. CASE /\ first_no = Base + ncount /\ ncount > 0
               /\ WholeFiles(Base, first_no - 2) /\ LastFile(first_no - 1)
      <4>1. pc = "done" => d = 2 /\ returned[2] = ncount
                           /\ DOMAIN batch = 1 .. returned[1] + returned[2]
        BY <1>1 DEF IInv, NInv, NumbersOK
      <4>2. pc = "return" => DOMAIN batch = 1 .. Base + ncount - 1
        BY <1>1 DEF IInv, NInv, NumbersOK
      <4>3. d = 2 => Base = returned[1] + 1 /\ returned[1] \in Nat
        BY <1>1, BaseFacts
      <4>4. /\ DOMAIN batch = 1 .. first_no - 1
            /\ first_no > Base /\ first_no >= Base /\ first_no # Base
        BY <2>0, <2>5, <3>2, <4>1, <4>2, <4>3
      <4>5. tomerge = <<>> /\ taken = lines[d]
        BY <1>1, <2>5 DEF IInv, LinesOK
      <4>6. HoldInOrder(first_no, taken)
        BY <1>1, <3>2, <4>4, <4>5, HeldByFiles
      <4>7. taken \in 0 .. lines[d] /\ taken + ExecutionThreads > lines[d]
        BY <2>0, <4>5
      <4> QED
        BY <4>6, <4>7
    <3>3. CASE /\ first_no + ExecutionThreads = Base + ncount
               /\ WholeFiles(Base, first_no - 1) /\ CutFiles(first_no + ExecutionThreads - 1)
      BY <1>1, <2>5, <3>3, HeldAfterSplitting
    <3> QED
      BY <1>1, <2>5, <3>2, <3>3 DEF IInv, LinesOK
  <2> QED
    BY <2>0, <2>1, <2>2, <2>3, <2>4, <2>5 DEF Places
<1> QED
  BY <1>1, Invariance, PTL
=============================================================================
