--------------------------- MODULE RegressionProofs ---------------------------
(***************************************************************************)
(* Theorems about Regression, for files of any length, any number of       *)
(* thresholds and of epochs and any scores: the types and bounds of the    *)
(* counters, the rows that are learned from, what is counted in a pass     *)
(* over the file, and that the threshold chosen is a best one.             *)
(***************************************************************************)
EXTENDS Regression, FiniteSetTheorems, TLAPS

\* An open file: the end can have been hit only after the last row.
File == [labels : Seq({0, 1}), newline : BOOLEAN, at : Nat, eof : BOOLEAN]
FileOK(file) ==
  /\ file \in File /\ file.at \in 1 .. Len(file.labels) + 1
  /\ file.eof => file.at = Len(file.labels) + 1

\* How many of the first n rows are in a set, and the sets that are counted.
HowMany(n, rows) == Cardinality((1 .. n) \cap rows)
Ones(file) == {row \in Nat : file.labels[row] = 1}
Reached(t) == {row \in Nat : score[row] >= 2 * t}
Hit(t) == Reached(t) \cap Ones(rated)
TestedRight == {row \in Nat : Reaches(row, Threshold) = rated.labels[row]}
SerialRight == {row \in Nat : Exceeds(row, Threshold) = rated.labels[row]}

Counts == [rows : Nat, ones : Nat, correct : Nat, pos_all : Nat, pos_correct : Nat]

\* Types, and the bounds that do not depend on the routine.
TypesOK ==
  /\ routine \in Routines /\ FileOK(training) /\ FileOK(rated)
  /\ score \in AnyScores /\ pass \in Nat /\ line_buffer \in 0 .. Len(rated.labels)
  /\ count \in Counts
  /\ best \in [f : Nat \X Nat, threshold : 0 .. Thresholds - 1]

\* Each routine has its own places, and counts what it has read.
TrainOK == routine = "train" =>
  /\ pc \in {"train", "done"} /\ pass = 0
  /\ coeffs = InTurn(training.at - 1)
  /\ count.rows = training.at - 1 /\ count.ones = HowMany(training.at - 1, Ones(training))
  /\ count.correct = 0 /\ count.pos_all = 0 /\ count.pos_correct = 0
  /\ pc = "done" => training.at = Len(training.labels) + 1

\* The rows that test has used: it has read one more, unless the end was hit.
Tested == IF pc = "first line" THEN 0
          ELSE IF ~rated.eof THEN rated.at - 2
          ELSE IF rated.newline \/ rated.labels = <<>> THEN Len(rated.labels)
          ELSE Len(rated.labels) - 1
TestOK == routine = "test" =>
  /\ pc \in {"first line", "test", "done"} /\ pass = 0
  /\ pc = "first line" => rated.at = 1 /\ ~rated.eof
  /\ pc = "done" => rated.eof
  /\ pc = "test" /\ ~rated.eof => /\ rated.at > 1 /\ line_buffer = rated.at - 1
                                  /\ rated.at = Len(rated.labels) + 1 => rated.newline
  /\ count.rows = Tested /\ count.correct = HowMany(Tested, TestedRight)
  /\ count.ones = 0 /\ count.pos_all = 0 /\ count.pos_correct <= Tested

\* The F-measure of threshold t over the whole file, and what is known of the best one
\* after some passes.
Whole == Len(rated.labels)
Upper(t) == 2 * HowMany(Whole, Hit(t))
Lower(t) == HowMany(Whole, Reached(t)) + HowMany(Whole, Ones(rated))
BestOK ==
  \/ /\ best.f = <<0, 1>> /\ best.threshold = 0
     /\ \A t \in 0 .. pass - 1 : Upper(t) = 0
  \/ /\ best.f = <<Upper(best.threshold), Lower(best.threshold)>>
     /\ best.threshold < pass /\ Upper(best.threshold) > 0
     /\ \A t \in 0 .. pass - 1 :
          Upper(t) * Lower(best.threshold) <= Upper(best.threshold) * Lower(t)
TuningOK == routine = "tuning" =>
  /\ pc \in {"tuning", "done"} /\ pass <= Thresholds
  /\ pc = "tuning" => pass < Thresholds
  /\ pc = "done" => pass = Thresholds /\ rated.at = 1
  /\ rated.at = 1 => ~rated.eof
  /\ count.rows = 0 /\ count.correct = 0
  /\ count.ones = HowMany(rated.at - 1, Ones(rated))
  /\ count.pos_all = HowMany(rated.at - 1, Reached(pass))
  /\ count.pos_correct = HowMany(rated.at - 1, Hit(pass))
  /\ BestOK

SerialTrainOK == routine = "serial train" =>
  /\ pc \in {"epoch", "validate", "done"} /\ pass <= Epochs
  /\ pc # "done" => pass < Epochs
  /\ coeffs = InTurn((pass * Len(training.labels)) + (training.at - 1))
  /\ pc = "epoch" =>
       /\ count.rows <= training.at - 1 /\ count.ones <= training.at - 1
       /\ count.correct = 0 /\ count.pos_correct = 0
  /\ pc = "validate" =>
       /\ training.at = Len(training.labels) + 1
       /\ count.rows <= rated.at - 1 /\ count.ones <= rated.at - 1
       /\ count.correct <= rated.at - 1 /\ count.pos_correct <= rated.at - 1
  /\ pc = "done" => count = NoCount
  /\ count.pos_all = 0

SerialTestOK == routine = "serial test" =>
  /\ pc \in {"serial test", "done"} /\ pass = 0
  /\ count.rows = rated.at - 1 /\ count.correct = HowMany(rated.at - 1, SerialRight)
  /\ count.ones <= rated.at - 1 /\ count.pos_correct <= rated.at - 1 /\ count.pos_all = 0
  /\ pc = "done" => rated.at = Len(rated.labels) + 1

\* The inductive invariant.
IInv == TypesOK /\ TrainOK /\ TestOK /\ TuningOK /\ SerialTrainOK /\ SerialTestOK

-----------------------------------------------------------------------------
(* Files and counting. *)

\* What getline and fseek do to a file.
LEMMA GetlineFacts ==
  ASSUME NEW file, FileOK(file)
  PROVE  /\ FileOK(Getline(file)) /\ Getline(file).labels = file.labels
         /\ Getline(file).newline = file.newline
         /\ Line(file) # 0 => /\ Line(file) = file.at /\ file.at <= Len(file.labels)
                              /\ Getline(file).at = file.at + 1
                              /\ Getline(file).eof <=> file.at = Len(file.labels) /\ ~file.newline
         /\ Line(file) = 0 => /\ file.at = Len(file.labels) + 1
                              /\ Getline(file).at = file.at /\ Getline(file).eof
         /\ file.at \in Nat \ {0} /\ Len(file.labels) \in Nat
<1>1. /\ file \in File /\ file.at \in 1 .. Len(file.labels) + 1 /\ Len(file.labels) \in Nat
      /\ file.eof \in BOOLEAN /\ file.newline \in BOOLEAN /\ file.labels \in Seq({0, 1})
      /\ file.at \in Nat
  BY DEF FileOK, File
<1>2. CASE Line(file) = 0
  <2>1. file.at = Len(file.labels) + 1
    BY <1>1, <1>2 DEF Line
  <2>2. /\ Getline(file) \in File /\ Getline(file).labels = file.labels
        /\ Getline(file).newline = file.newline /\ Getline(file).at = file.at
        /\ Getline(file).eof = TRUE
    BY <1>1, <1>2 DEF Getline, File
  <2> QED
    BY <1>1, <1>2, <2>1, <2>2 DEF FileOK
<1>3. CASE Line(file) # 0
  <2>1. Line(file) = file.at /\ file.at <= Len(file.labels)
    BY <1>1, <1>3 DEF Line
  <2>2. PICK next \in Nat : next = file.at + 1
    BY <1>1
  <2>3. PICK hit \in BOOLEAN : hit = (file.at = Len(file.labels) /\ ~file.newline)
    OBVIOUS
  <2>4. Getline(file) = [file EXCEPT !.at = next, !.eof = hit]
    BY <1>3, <2>2, <2>3 DEF Getline
  <2>5. /\ Getline(file) \in File /\ Getline(file).labels = file.labels
        /\ Getline(file).newline = file.newline /\ Getline(file).at = file.at + 1
        /\ Getline(file).eof = hit
    <3>1. CASE hit = TRUE
      <4>1. Getline(file) = [file EXCEPT !.at = next, !.eof = TRUE]
        BY <2>4, <3>1
      <4> QED
        BY <1>1, <2>2, <3>1, <4>1 DEF File
    <3>2. CASE hit = FALSE
      <4>1. Getline(file) = [file EXCEPT !.at = next, !.eof = FALSE]
        BY <2>4, <3>2
      <4> QED
        BY <1>1, <2>2, <3>2, <4>1 DEF File
    <3> QED
      BY <3>1, <3>2
  <2>6. FileOK(Getline(file))
    BY <1>1, <2>1, <2>3, <2>5 DEF FileOK
  <2> QED
    BY <1>1, <1>3, <2>1, <2>3, <2>5, <2>6
<1> QED
  BY <1>2, <1>3

\* fseek takes the file back to its first row and clears the end of file.
LEMMA FseekFacts ==
  ASSUME NEW file, FileOK(file)
  PROVE  /\ FileOK(Fseek(file)) /\ Fseek(file).labels = file.labels
         /\ Fseek(file).newline = file.newline
         /\ Fseek(file).at = 1 /\ ~Fseek(file).eof
<1>1. /\ file \in File /\ Len(file.labels) \in Nat
  BY DEF FileOK, File
<1>2. /\ Fseek(file) \in File /\ Fseek(file).labels = file.labels
      /\ Fseek(file).newline = file.newline /\ Fseek(file).at = 1 /\ Fseek(file).eof = FALSE
  BY <1>1 DEF Fseek, File
<1> QED
  BY <1>1, <1>2 DEF FileOK

\* Counting one row more.
LEMMA HowManyFacts ==
  ASSUME NEW n \in Nat, NEW rows
  PROVE  /\ HowMany(n, rows) \in 0 .. n /\ HowMany(0, rows) = 0
         /\ HowMany(n + 1, rows) = HowMany(n, rows) + (IF n + 1 \in rows THEN 1 ELSE 0)
<1> DEFINE before == (1 .. n) \cap rows
<1>1. IsFiniteSet(1 .. n) /\ Cardinality(1 .. n) = n
  BY FS_Interval
<1>2. IsFiniteSet(before) /\ Cardinality(before) <= Cardinality(1 .. n)
  BY <1>1, FS_Subset
<1>3. Cardinality(before) \in 0 .. n /\ HowMany(n, rows) = Cardinality(before)
  <2>1. Cardinality(before) \in Nat
    BY <1>2, FS_CardinalityType
  <2> QED
    BY <1>1, <1>2, <2>1 DEF HowMany
<1>4. HowMany(0, rows) = 0
  <2>1. (1 .. 0) \cap rows = {}
    OBVIOUS
  <2> QED
    BY <2>1, FS_EmptySet DEF HowMany
<1>5. CASE n + 1 \in rows
  <2>1. (1 .. n + 1) \cap rows = before \cup {n + 1} /\ n + 1 \notin before
    BY <1>5
  <2>2. Cardinality(before \cup {n + 1}) = Cardinality(before) + 1
    BY <1>2, <2>1, FS_AddElement
  <2>3. HowMany(n + 1, rows) = Cardinality(before) + 1
    BY <2>1, <2>2 DEF HowMany
  <2> HIDE DEF before
  <2> QED
    BY <1>3, <1>4, <1>5, <2>3
<1>6. CASE n + 1 \notin rows
  <2>1. (1 .. n + 1) \cap rows = before
    BY <1>6
  <2>2. HowMany(n + 1, rows) = Cardinality(before)
    BY <2>1 DEF HowMany
  <2> HIDE DEF before
  <2> QED
    BY <1>3, <1>4, <1>6, <2>2
<1> QED
  BY <1>5, <1>6

\* A part of the rows is not more than the rows.
LEMMA HowManyGrow ==
  ASSUME NEW n \in Nat, NEW few, NEW many, few \subseteq many
  PROVE  HowMany(n, few) <= HowMany(n, many)
<1>1. IsFiniteSet(1 .. n)
  BY FS_Interval
<1>2. IsFiniteSet((1 .. n) \cap many) /\ (1 .. n) \cap few \subseteq (1 .. n) \cap many
  BY <1>1, FS_Subset
<1> QED
  BY <1>2, FS_Subset DEF HowMany

\* The row after so many, over and over, is the next one of the file.
LEMMA InTurnGrows ==
  ASSUME NEW n \in Nat, NEW r \in Nat, Len(training.labels) \in Nat \ {0},
         n % Len(training.labels) = r
  PROVE  Append(InTurn(n), r + 1) = InTurn(n + 1)
<1> DEFINE rows == Len(training.labels)
<1> HIDE DEF rows
<1>1. rows \in Nat \ {0} /\ n % rows = r
  BY DEF rows
<1>2. ((n + 1) - 1) % rows = r
  BY <1>1
<1>3. ASSUME NEW k \in 1 .. n + 1 PROVE ((k - 1) % rows) + 1 \in Nat
  BY <1>1
<1>4. /\ InTurn(n) = [k \in 1 .. n |-> ((k - 1) % rows) + 1]
      /\ InTurn(n + 1) = [k \in 1 .. n + 1 |-> ((k - 1) % rows) + 1]
  BY DEF InTurn, rows
<1>5. InTurn(n) \in Seq(Nat) /\ Len(InTurn(n)) = n
  BY <1>3, <1>4
<1>6. InTurn(n + 1) \in Seq(Nat) /\ Len(InTurn(n + 1)) = n + 1
  BY <1>3, <1>4
<1> QED
  BY <1>2, <1>4, <1>5, <1>6

\* No rows at all.
LEMMA InTurnEmpty == InTurn(0) = <<>>
<1>1. PICK f : f = [k \in 1 .. 0 |-> ((k - 1) % Len(training.labels)) + 1]
  OBVIOUS
<1>2. 1 .. 0 = {}
  OBVIOUS
<1>3. f \in Seq(Nat) /\ Len(f) = 0
  BY <1>1, <1>2
<1>4. f = <<>>
  BY <1>3
<1> QED
  BY <1>1, <1>4 DEF InTurn

\* Whole passes over the file leave no remainder.
LEMMA PassesAndRows ==
  ASSUME NEW p \in Nat, NEW r \in Nat, NEW rows \in Nat, r < rows
  PROVE  p * rows + r \in Nat /\ (p * rows + r) % rows = r
<1>1. rows * p \in Nat /\ p * rows + r = rows * p + r /\ r \in 0 .. rows - 1
  OBVIOUS
<1> QED
  BY <1>1

\* The counters at the start of a pass.
LEMMA NothingCounted ==
  /\ NoCount \in Counts /\ NoCount.rows = 0 /\ NoCount.ones = 0 /\ NoCount.correct = 0
  /\ NoCount.pos_all = 0 /\ NoCount.pos_correct = 0
BY DEF NoCount, Counts

-----------------------------------------------------------------------------
(* The steps of the routines. *)

\* The place tells which routine runs.
LEMMA Places ==
  ASSUME IInv
  PROVE  /\ pc = "train" => routine = "train"
         /\ pc \in {"first line", "test"} => routine = "test"
         /\ pc = "tuning" => routine = "tuning"
         /\ pc \in {"epoch", "validate"} => routine = "serial train"
         /\ pc = "serial test" => routine = "serial test"
BY DEF IInv, TypesOK, Routines, TrainOK, TestOK, TuningOK, SerialTrainOK, SerialTestOK

\* Counters and files as they are declared.
LEMMA Declared ==
  ASSUME IInv
  PROVE  /\ count \in Counts /\ training \in File /\ rated \in File
         /\ FileOK(training) /\ FileOK(rated)
         /\ Len(training.labels) \in Nat /\ Len(rated.labels) \in Nat
         /\ training.at \in 1 .. Len(training.labels) + 1
         /\ rated.at \in 1 .. Len(rated.labels) + 1
         /\ training.labels \in Seq({0, 1}) /\ rated.labels \in Seq({0, 1})
BY DEF IInv, TypesOK, FileOK, File

\* Initially nothing has been read or counted.
LEMMA InitOK == Init => IInv
<1> SUFFICES ASSUME Init PROVE IInv
  OBVIOUS
<1>1. ASSUME NEW labels \in Labels, NEW newline \in BOOLEAN
      PROVE  /\ FileOK(NewFile(labels, newline)) /\ FileOK(NewFile(<<>>, TRUE))
  <2>1. labels \in Seq({0, 1}) /\ Len(labels) \in Nat
    BY RegressionAssumption DEF Labels, SeqOf
  <2> QED
    BY <2>1 DEF FileOK, File, NewFile
<1>2. FileOK(training) /\ FileOK(rated) /\ training.at = 1 /\ rated.at = 1 /\ ~rated.eof
  <2>1. PICK labels \in Labels, others \in Labels, newline \in BOOLEAN :
          /\ training = Reads({"train", "serial train"}, labels, newline)
          /\ rated = Reads(Routines \ {"train"}, others, newline)
    BY DEF Init
  <2>2. /\ training \in {NewFile(labels, newline), NewFile(<<>>, TRUE)}
        /\ rated \in {NewFile(others, newline), NewFile(<<>>, TRUE)}
    BY <2>1 DEF Reads
  <2>3. FileOK(training) /\ FileOK(rated)
    BY <1>1, <2>2
  <2>4. training.at = 1 /\ rated.at = 1 /\ rated.eof = FALSE
    BY <2>2 DEF NewFile
  <2> QED
    BY <2>3, <2>4
<1>3. Len(rated.labels) \in Nat /\ Len(training.labels) \in Nat
  BY <1>2 DEF FileOK, File
<1>4. /\ routine \in Routines /\ pc = FirstLoop /\ pass = 0 /\ line_buffer = 0
      /\ coeffs = <<>> /\ count = NoCount /\ best = [f |-> <<0, 1>>, threshold |-> 0]
  BY DEF Init
<1>5. score \in AnyScores
  <2>1. CASE routine = "serial train"
    <3>1. score = [row \in DOMAIN rated.labels |-> 0]
      BY <2>1 DEF Init
    <3>2. DOMAIN rated.labels = 1 .. Len(rated.labels)
      BY <1>2 DEF FileOK, File
    <3>3. 0 \in Scores
      BY RegressionAssumption DEF Scores
    <3> QED
      BY <3>1, <3>2, <3>3 DEF AnyScores
  <2>2. CASE routine # "serial train"
    BY <2>2 DEF Init
  <2> QED
    BY <2>1, <2>2
<1>6. TypesOK
  <2>1. best \in [f : Nat \X Nat, threshold : 0 .. Thresholds - 1]
    BY <1>4, RegressionAssumption
  <2>2. line_buffer \in 0 .. Len(rated.labels)
    BY <1>3, <1>4
  <2> QED
    BY <1>2, <1>4, <1>5, <2>1, <2>2, NothingCounted DEF TypesOK
<1>7. \A rows : HowMany(0, rows) = 0
  BY HowManyFacts
<1>8. InTurn(0) = <<>> /\ training.at - 1 = 0 /\ rated.at - 1 = 0
  BY <1>2, InTurnEmpty
<1>9. TrainOK
  BY <1>2, <1>4, <1>7, <1>8, NothingCounted DEF TrainOK, FirstLoop
<1>10. TestOK
  <2>1. SUFFICES ASSUME routine = "test" PROVE TestOK
    BY DEF TestOK
  <2>2. pc = "first line" /\ Tested = 0
    BY <1>4, <2>1 DEF FirstLoop, Tested
  <2>3. HowMany(0, TestedRight) = 0 /\ HowMany(Tested, TestedRight) = 0
    BY <1>7, <2>2
  <2>4. /\ count.rows = 0 /\ count.correct = 0
        /\ count.ones = 0 /\ count.pos_all = 0 /\ count.pos_correct = 0
    BY <1>4, NothingCounted
  <2>5. count.pos_correct <= Tested
    <3>1. PICK none \in Nat : none = 0
      OBVIOUS
    <3>2. none <= none
      OBVIOUS
    <3>3. count.pos_correct = none
      BY <2>4, <3>1
    <3>4. Tested = none
      BY <2>2, <3>1
    <3> QED
      BY <3>2, <3>3, <3>4, Zenon
  <2> QED
    BY <1>2, <1>4, <2>2, <2>3, <2>4, <2>5 DEF TestOK
<1>11. TuningOK
  <2>1. best.f = <<0, 1>> /\ best.threshold = 0 /\ 0 .. pass - 1 = {}
    BY <1>4
  <2>2. BestOK
    BY <2>1 DEF BestOK
  <2> QED
    BY <1>2, <1>4, <1>7, <1>8, <2>2, NothingCounted, RegressionAssumption DEF TuningOK, FirstLoop
<1>12. SerialTrainOK
  <2>1. SUFFICES ASSUME routine = "serial train" PROVE SerialTrainOK
    BY DEF SerialTrainOK
  <2>2. pc = "epoch"
    BY <1>4, <2>1 DEF FirstLoop
  <2>3. (pass * Len(training.labels)) + (training.at - 1) = 0
    BY <1>3, <1>4, <1>8
  <2>4. InTurn((pass * Len(training.labels)) + (training.at - 1)) = InTurn(0)
    BY <2>3
  <2>5. /\ count.rows = 0 /\ count.correct = 0
        /\ count.ones = 0 /\ count.pos_all = 0 /\ count.pos_correct = 0
    BY <1>4, NothingCounted
  <2>6. pass < Epochs /\ pass <= Epochs
    BY <1>4, RegressionAssumption
  <2>7. count.rows <= training.at - 1 /\ count.ones <= training.at - 1
    BY <1>8, <2>5
  <2> QED
    BY <1>4, <1>8, <2>2, <2>4, <2>5, <2>6, <2>7 DEF SerialTrainOK
<1>13. SerialTestOK
  <2>1. SUFFICES ASSUME routine = "serial test" PROVE SerialTestOK
    BY DEF SerialTestOK
  <2>2. pc = "serial test"
    BY <1>4, <2>1 DEF FirstLoop
  <2>3. HowMany(rated.at - 1, SerialRight) = 0
    BY <1>7, <1>8
  <2>4. /\ count.rows = 0 /\ count.correct = 0
        /\ count.ones = 0 /\ count.pos_all = 0 /\ count.pos_correct = 0
    BY <1>4, NothingCounted
  <2>5. count.ones <= rated.at - 1 /\ count.pos_correct <= rated.at - 1
    BY <1>8, <2>4
  <2> QED
    BY <1>4, <1>8, <2>2, <2>3, <2>4, <2>5 DEF SerialTestOK
<1> QED
  BY <1>6, <1>9, <1>10, <1>11, <1>12, <1>13 DEF IInv

\* train counts and learns the row it reads.
LEMMA TrainSteps == IInv /\ (TrainRow \/ TrainReturn) => IInv'
<1> SUFFICES ASSUME IInv, TrainRow \/ TrainReturn PROVE IInv'
  OBVIOUS
<1>1. /\ pc = "train" /\ routine = "train" /\ routine' = "train"
      /\ UNCHANGED <<rated, score, pass, line_buffer, best>>
  BY Places DEF TrainRow, TrainReturn
<1>2. /\ FileOK(training) /\ FileOK(rated) /\ count \in Counts /\ Len(training.labels) \in Nat
      /\ training.at \in 1 .. Len(training.labels) + 1 /\ training.labels \in Seq({0, 1})
  BY Declared
<1>3. /\ pass = 0 /\ coeffs = InTurn(training.at - 1)
      /\ count.rows = training.at - 1 /\ count.ones = HowMany(training.at - 1, Ones(training))
      /\ count.correct = 0 /\ count.pos_all = 0 /\ count.pos_correct = 0
  BY <1>1 DEF IInv, TrainOK
<1>4. CASE TrainRow
  <2>1. PICK n \in Nat : n = training.at - 1
    BY <1>2
  <2>2. /\ Line(training) = training.at /\ training.at <= Len(training.labels)
        /\ training'.at = training.at + 1 /\ FileOK(training')
        /\ training'.labels = training.labels
    BY <1>2, <1>4, GetlineFacts DEF TrainRow
  <2>3. PICK label \in {0, 1} : label = training.labels[training.at]
    BY <1>2, <2>2
  <2>4. /\ count' = [count EXCEPT !.rows = count.rows + 1, !.ones = count.ones + label]
        /\ coeffs' = Append(coeffs, n + 1) /\ pc' = "train"
    BY <1>1, <1>2, <1>4, <2>1, <2>2, <2>3 DEF TrainRow, update_coefficients
  <2>5. /\ count' \in Counts /\ count'.rows = n + 1 /\ count'.ones = HowMany(n, Ones(training)) + label
        /\ count'.correct = 0 /\ count'.pos_all = 0 /\ count'.pos_correct = 0
    <3>1. PICK a \in Nat, b \in Nat : a = count.rows + 1 /\ b = count.ones + label
      BY <1>2, <2>3 DEF Counts
    <3>2. count' = [count EXCEPT !.rows = a, !.ones = b]
      BY <2>4, <3>1
    <3>3. PICK now, next : now = count /\ next = count'
      OBVIOUS
    <3>4. now \in Counts /\ next = [now EXCEPT !.rows = a, !.ones = b]
      BY <1>2, <3>2, <3>3
    <3>5. /\ next \in Counts /\ next.rows = a /\ next.ones = b
          /\ next.correct = now.correct /\ next.pos_all = now.pos_all
          /\ next.pos_correct = now.pos_correct
      BY <3>4 DEF Counts
    <3> QED
      BY <1>2, <1>3, <2>1, <3>1, <3>3, <3>5
  <2>6. HowMany(n + 1, Ones(training)) = HowMany(n, Ones(training)) + label
    <3>1. n + 1 \in Ones(training) <=> label = 1
      BY <1>2, <2>1, <2>3 DEF Ones
    <3>2. HowMany(n, Ones(training)) \in Nat
      BY HowManyFacts
    <3> QED
      BY <2>3, <3>1, <3>2, HowManyFacts
  <2>7. Ones(training') = Ones(training) /\ training'.at - 1 = n + 1
    BY <1>2, <2>1, <2>2 DEF Ones
  <2>8. Append(InTurn(n), n + 1) = InTurn(n + 1) /\ InTurn(n + 1)' = InTurn(n + 1)
    <3>1. PICK rows \in Nat : rows = Len(training.labels)
      BY <1>2
    <3>2. n < rows
      BY <1>2, <2>1, <2>2, <3>1
    <3>3. n % rows = n
      BY <3>2
    <3>4. n % Len(training.labels) = n /\ Len(training.labels) \in Nat \ {0}
      <4>1. rows \in Nat \ {0}
        BY <3>2
      <4> QED
        BY <3>1, <3>3, <4>1, Zenon
    <3>5. Append(InTurn(n), n + 1) = InTurn(n + 1)
      BY <3>4, InTurnGrows
    <3> QED
      BY <2>2, <3>5 DEF InTurn
  <2>9. coeffs' = InTurn(training.at - 1)'
    BY <1>3, <2>1, <2>2, <2>4, <2>7, <2>8 DEF InTurn
  <2>10. TypesOK'
    BY <1>1, <2>2, <2>5 DEF IInv, TypesOK, AnyScores
  <2>11. TrainOK'
    BY <1>1, <1>3, <2>4, <2>5, <2>6, <2>7, <2>9 DEF TrainOK
  <2> QED
    BY <1>1, <2>10, <2>11 DEF IInv, TestOK, TuningOK, SerialTrainOK, SerialTestOK
<1>5. CASE TrainReturn
  <2>1. /\ training'.at = training.at /\ FileOK(training') /\ training'.labels = training.labels
        /\ training.at = Len(training.labels) + 1
    BY <1>2, <1>5, GetlineFacts DEF TrainReturn, FileOK
  <2>2. pc' = "done" /\ UNCHANGED <<coeffs, count>>
    BY <1>5 DEF TrainReturn
  <2>3. TypesOK'
    BY <1>1, <2>1, <2>2 DEF IInv, TypesOK, AnyScores
  <2>4. TrainOK'
    BY <1>1, <1>3, <2>1, <2>2 DEF TrainOK, InTurn, Ones
  <2> QED
    BY <1>1, <2>3, <2>4 DEF IInv, TestOK, TuningOK, SerialTrainOK, SerialTestOK
<1> QED
  BY <1>4, <1>5

\* What a predicted row adds to the counters.
LEMMA RatedRow ==
  ASSUME count \in Counts, NEW row, NEW p \in {0, 1}
  PROVE  \E hit \in {0, 1} :
           /\ hit = 1 <=> p = rated.labels[row]
           /\ Rate(row, p) \in Counts
           /\ Rate(row, p).rows = count.rows + 1 /\ Rate(row, p).ones = count.ones
           /\ Rate(row, p).correct = count.correct + hit
           /\ Rate(row, p).pos_all = count.pos_all
           /\ Rate(row, p).pos_correct >= count.pos_correct
           /\ Rate(row, p).pos_correct <= count.pos_correct + 1
<1>1. PICK hit \in {0, 1} : hit = IF p = rated.labels[row] THEN 1 ELSE 0
  OBVIOUS
<1>2. PICK now, next : now = count /\ next = Rate(row, p)
  OBVIOUS
<1>3. now \in Counts
  BY <1>2
<1>4. PICK a \in Nat, b \in Nat, e \in Nat :
        a = now.rows + 1 /\ b = now.correct + hit /\ e = now.pos_correct + hit * p
  BY <1>3 DEF Counts
<1>5. next = [now EXCEPT !.rows = a, !.correct = b, !.pos_correct = e]
  BY <1>1, <1>2, <1>4 DEF Rate
<1>6. /\ next \in Counts /\ next.rows = a /\ next.correct = b /\ next.pos_correct = e
      /\ next.ones = now.ones /\ next.pos_all = now.pos_all
  BY <1>3, <1>5 DEF Counts
<1>7. e >= now.pos_correct /\ e <= now.pos_correct + 1
  BY <1>3, <1>4 DEF Counts
<1>8. hit = 1 <=> p = rated.labels[row]
  BY <1>1
<1> QED
  BY <1>2, <1>4, <1>6, <1>7, <1>8

\* test uses the row before the one it reads.
LEMMA TestSteps == IInv /\ (ReadFirst \/ TestRow \/ TestReturn) => IInv'
<1> SUFFICES ASSUME IInv, ReadFirst \/ TestRow \/ TestReturn PROVE IInv'
  OBVIOUS
<1>1. /\ pc \in {"first line", "test"} /\ routine = "test" /\ routine' = "test"
      /\ UNCHANGED <<training, score, coeffs, pass, best>>
  BY Places DEF ReadFirst, TestRow, TestReturn
<1>2. /\ FileOK(training) /\ FileOK(rated) /\ count \in Counts
      /\ rated.at \in 1 .. Len(rated.labels) + 1 /\ rated.labels \in Seq({0, 1})
  BY Declared
<1>3. PICK rows \in Nat : rows = Len(rated.labels)
  BY <1>2
<1>4. PICK at \in 1 .. rows + 1 : at = rated.at
  BY <1>2, <1>3
<1>5. /\ pass = 0
      /\ pc = "first line" => at = 1 /\ ~rated.eof
      /\ pc = "test" /\ ~rated.eof => /\ at > 1 /\ line_buffer = at - 1
                                      /\ at = rows + 1 => rated.newline
      /\ count.rows = Tested /\ count.correct = HowMany(Tested, TestedRight)
      /\ count.ones = 0 /\ count.pos_all = 0 /\ count.pos_correct <= Tested
  BY <1>1, <1>3, <1>4 DEF IInv, TestOK
<1>6. \* The file after a getline.
      /\ FileOK(Getline(rated)) /\ Getline(rated).labels = rated.labels
      /\ Getline(rated).newline = rated.newline
      /\ Line(rated) # 0 => /\ Line(rated) = at /\ at <= rows
                            /\ Getline(rated).at = at + 1
                            /\ Getline(rated).eof <=> at = rows /\ ~rated.newline
      /\ Line(rated) = 0 => /\ at = rows + 1 /\ Getline(rated).at = at /\ Getline(rated).eof
  BY <1>2, <1>3, <1>4, GetlineFacts
<1>7. rated.labels = <<>> <=> rows = 0
  BY <1>2, <1>3
<1>8. CASE ReadFirst
  <2>1. /\ at = 1 /\ Tested = 0 /\ pc' = "test" /\ line_buffer' = Line(rated)
        /\ rated' = Getline(rated) /\ count' = count
    BY <1>4, <1>5, <1>8 DEF ReadFirst, Tested
  <2>2. Tested' = 0
    <3>1. CASE Line(rated) = 0
      <4>1. rows = 0 /\ rated'.eof /\ rated'.labels = <<>> /\ Len(rated'.labels) = 0
        BY <1>3, <1>6, <1>7, <2>1, <3>1
      <4> QED
        BY <2>1, <4>1 DEF Tested
    <3>2. CASE Line(rated) # 0 /\ rated'.eof
      <4>1. /\ rows = 1 /\ ~rated'.newline /\ rated'.labels # <<>> /\ Len(rated'.labels) = 1
        BY <1>3, <1>6, <1>7, <2>1, <3>2
      <4>2. Len(rated'.labels) - 1 = 0
        BY <4>1
      <4> QED
        BY <2>1, <3>2, <4>1, <4>2 DEF Tested
    <3>3. CASE Line(rated) # 0 /\ ~rated'.eof
      <4>1. rated'.at - 2 = 0
        BY <1>6, <2>1, <3>3
      <4> QED
        BY <2>1, <3>3, <4>1 DEF Tested
    <3> QED
      BY <3>1, <3>2, <3>3
  <2>3. /\ count'.rows = 0 /\ count'.correct = 0 /\ count'.ones = 0 /\ count'.pos_all = 0
        /\ count'.pos_correct <= 0
    BY <1>5, <2>1, HowManyFacts
  <2>4. HowMany(Tested, TestedRight)' = 0
    <3>1. \A set : HowMany(0, set) = 0
      BY HowManyFacts
    <3>2. HowMany(0, TestedRight') = 0
      BY <3>1
    <3> QED
      BY <2>2, <3>2 DEF HowMany
  <2>5. ~rated'.eof => /\ rated'.at > 1 /\ line_buffer' = rated'.at - 1
                       /\ rated'.at = Len(rated'.labels) + 1 => rated'.newline
    <3> SUFFICES ASSUME ~rated'.eof
                 PROVE  /\ rated'.at > 1 /\ line_buffer' = rated'.at - 1
                        /\ rated'.at = Len(rated'.labels) + 1 => rated'.newline
      OBVIOUS
    <3>1. Line(rated) # 0
      BY <1>6, <2>1
    <3>2. /\ rated'.at = 2 /\ Line(rated) = 1
          /\ at = rows => rated'.newline
      BY <1>6, <2>1, <3>1
    <3>3. Len(rated'.labels) = rows
      BY <1>3, <1>6, <2>1
    <3> QED
      BY <2>1, <3>2, <3>3
  <2>6. count'.pos_correct <= Tested'
    BY <2>2, <2>3
  <2>7. TestOK'
    BY <1>1, <1>5, <2>1, <2>2, <2>3, <2>4, <2>5, <2>6 DEF TestOK
  <2>8. line_buffer' \in 0 .. Len(rated'.labels)
    BY <1>3, <1>6, <2>1
  <2>9. TypesOK'
    BY <1>1, <1>2, <1>6, <2>1, <2>8 DEF IInv, TypesOK, AnyScores
  <2> QED
    BY <1>1, <2>7, <2>9 DEF IInv, TrainOK, TuningOK, SerialTrainOK, SerialTestOK
<1>9. CASE TestRow
  <2>1. /\ pc = "test" /\ ~rated.eof /\ pc' = pc /\ rated' = Getline(rated)
        /\ count' = Rate(line_buffer, Reaches(line_buffer, Threshold))
        /\ line_buffer' = IF Line(rated) = 0 THEN line_buffer ELSE Line(rated)
    BY <1>9 DEF TestRow, AtEnd
  <2>2. PICK n \in Nat : n = at - 2
    BY <1>5, <2>1
  <2>3. Tested = n /\ line_buffer = n + 1 /\ n + 2 = at
    BY <1>4, <1>5, <2>1, <2>2 DEF Tested
  <2>4. Tested' = n + 1
    <3>1. CASE Line(rated) = 0
      <4>1. rated'.eof /\ rated'.newline /\ Len(rated'.labels) = n + 1
        BY <1>3, <1>5, <1>6, <2>1, <2>3, <3>1
      <4> QED
        BY <2>1, <4>1 DEF Tested
    <3>2. CASE Line(rated) # 0 /\ rated'.eof
      <4>1. /\ ~rated'.newline /\ rated'.labels # <<>> /\ Len(rated'.labels) = at
        BY <1>3, <1>6, <1>7, <2>1, <3>2
      <4>2. Len(rated'.labels) - 1 = n + 1
        BY <2>3, <4>1
      <4> QED
        BY <2>1, <3>2, <4>1, <4>2 DEF Tested
    <3>3. CASE Line(rated) # 0 /\ ~rated'.eof
      <4>1. rated'.at - 2 = n + 1
        BY <1>6, <2>1, <2>3, <3>3
      <4> QED
        BY <2>1, <3>3, <4>1 DEF Tested
    <3> QED
      BY <3>1, <3>2, <3>3
  <2>5. Reaches(n + 1, Threshold) \in {0, 1}
    BY DEF Reaches
  <2>6. PICK hit \in {0, 1} :
           /\ hit = 1 <=> Reaches(n + 1, Threshold) = rated.labels[n + 1]
           /\ count' \in Counts /\ count'.rows = count.rows + 1 /\ count'.ones = count.ones
           /\ count'.correct = count.correct + hit /\ count'.pos_all = count.pos_all
           /\ count'.pos_correct <= count.pos_correct + 1
    <3>1. count' = Rate(n + 1, Reaches(n + 1, Threshold))
      BY <2>1, <2>3
    <3> QED
      BY <1>2, <2>5, <3>1, RatedRow
  <2>7. HowMany(n + 1, TestedRight) = HowMany(n, TestedRight) + hit
    <3>1. n + 1 \in TestedRight <=> hit = 1
      BY <2>6 DEF TestedRight
    <3>2. HowMany(n, TestedRight) \in Nat
      BY HowManyFacts
    <3> QED
      BY <3>1, <3>2, HowManyFacts
  <2>8. TestedRight' = TestedRight
    BY <1>1, <1>6, <2>1 DEF TestedRight, Reaches
  <2>9. HowMany(Tested, TestedRight)' = HowMany(n + 1, TestedRight)
    BY <2>4, <2>8 DEF HowMany
  <2>10. /\ count'.rows = Tested' /\ count'.correct = HowMany(Tested, TestedRight)'
         /\ count'.ones = 0 /\ count'.pos_all = 0 /\ count'.pos_correct <= Tested'
    <3>1. count.pos_correct \in Nat /\ count'.pos_correct \in Nat /\ count.rows \in Nat
      BY <1>2, <2>6 DEF Counts
    <3>2. count'.pos_correct <= n + 1
      <4>1. PICK old \in Nat, new \in Nat : old = count.pos_correct /\ new = count'.pos_correct
        BY <3>1
      <4>2. old <= n /\ new <= old + 1
        BY <1>5, <2>3, <2>6, <4>1
      <4>3. new <= n + 1
        BY <4>2
      <4> QED
        BY <4>1, <4>3
    <3> QED
      BY <1>5, <2>3, <2>4, <2>6, <2>7, <2>9, <3>2
  <2>11. ~rated'.eof => /\ rated'.at > 1 /\ line_buffer' = rated'.at - 1
                        /\ rated'.at = Len(rated'.labels) + 1 => rated'.newline
    BY <1>3, <1>6, <2>1
  <2>12. TestOK'
    BY <1>1, <1>5, <2>1, <2>10, <2>11 DEF TestOK
  <2>13. line_buffer' \in 0 .. Len(rated'.labels)
    BY <1>3, <1>6, <2>1, <2>3
  <2>14. TypesOK'
    BY <1>1, <1>2, <1>6, <2>1, <2>6, <2>13 DEF IInv, TypesOK, AnyScores
  <2> QED
    BY <1>1, <2>12, <2>14 DEF IInv, TrainOK, TuningOK, SerialTrainOK, SerialTestOK
<1>10. CASE TestReturn
  <2>1. /\ rated.eof /\ pc = "test" /\ pc' = "done"
        /\ UNCHANGED <<rated, line_buffer, count>>
    BY <1>10 DEF TestReturn, AtEnd
  <2>2. TypesOK'
    BY <1>1, <2>1 DEF IInv, TypesOK, AnyScores
  <2>3. Tested' = Tested /\ TestedRight' = TestedRight
    BY <1>1, <2>1 DEF Tested, TestedRight, Reaches
  <2>4. HowMany(Tested, TestedRight)' = HowMany(Tested, TestedRight)
    BY <2>3 DEF HowMany
  <2>5. TestOK'
    BY <1>1, <1>5, <2>1, <2>3, <2>4 DEF TestOK
  <2> QED
    BY <1>1, <2>2, <2>5 DEF IInv, TrainOK, TuningOK, SerialTrainOK, SerialTestOK
<1> QED
  BY <1>8, <1>9, <1>10

\* The F-measure of a threshold is a fraction of natural numbers, and not 0 / 0 when its
\* numerator is positive: what is predicted rightly is predicted.
LEMMA UpperLower ==
  ASSUME FileOK(rated), NEW t
  PROVE  /\ Upper(t) \in Nat /\ Lower(t) \in Nat
         /\ Upper(t) > 0 => Lower(t) > 0
<1>1. PICK n \in Nat : n = Whole
  BY DEF FileOK, File, Whole
<1>2. PICK h \in Nat : h = HowMany(n, Hit(t))
  BY HowManyFacts
<1>3. PICK a \in Nat : a = HowMany(n, Reached(t))
  BY HowManyFacts
<1>4. PICK l \in Nat : l = HowMany(n, Ones(rated))
  BY HowManyFacts
<1>5. h <= a
  <2>1. Hit(t) \subseteq Reached(t)
    BY DEF Hit
  <2> QED
    BY <1>2, <1>3, <2>1, HowManyGrow
<1>6. 2 * h \in Nat /\ a + l \in Nat /\ (2 * h > 0 => a + l > 0)
  BY <1>5
<1>7. Upper(t) = 2 * h /\ Lower(t) = a + l
  BY <1>1, <1>2, <1>3, <1>4 DEF Upper, Lower
<1> QED
  BY <1>6, <1>7

\* u / l <= ub / lb < up / lp implies u / l <= up / lp, multiplied out.
LEMMA BeatenByBetter ==
  ASSUME NEW u \in Nat, NEW l \in Nat, NEW ub \in Nat, NEW lb \in Nat \ {0},
         NEW up \in Nat, NEW lp \in Nat,
         u * lb <= ub * l, up * lb > ub * lp
  PROVE  u * lp <= up * l
<1>1. (u * lb) * lp <= (ub * l) * lp
  BY SMTT(30)
<1>2. (ub * lp) * l <= (up * lb) * l
  BY SMTT(30)
<1>3. /\ (u * lb) * lp = lb * (u * lp) /\ (ub * l) * lp = (ub * lp) * l
      /\ (up * lb) * l = lb * (up * l)
  BY SMTT(30)
<1>4. PICK x \in Nat, y \in Nat : x = u * lp /\ y = up * l
  OBVIOUS
<1>5. lb * x <= lb * y
  BY <1>1, <1>2, <1>3, <1>4
<1>6. x <= y
  BY <1>5, SMTT(30)
<1> QED
  BY <1>4, <1>6

\* The order of two products.
LEMMA NotBeaten ==
  ASSUME NEW a \in Nat, NEW b \in Nat, NEW c \in Nat, NEW d \in Nat, a * b <= c * d
  PROVE  ~(a * b > c * d)
<1>1. PICK x \in Nat : x = a * b
  OBVIOUS
<1>2. PICK y \in Nat : y = c * d
  OBVIOUS
<1> QED
  BY <1>1, <1>2

\* Two fractions compare one way or the other: what is not more is at most.
LEMMA NotMore ==
  ASSUME NEW a \in Nat, NEW b \in Nat, NEW c \in Nat, NEW d \in Nat, ~(a * b > c * d)
  PROVE  a * b <= c * d
<1>1. PICK x \in Nat : x = a * b
  OBVIOUS
<1>2. PICK y \in Nat : y = c * d
  OBVIOUS
<1> QED
  BY <1>1, <1>2

\* The best threshold after another pass.
LEMMA BestAfterPass ==
  ASSUME FileOK(rated), BestOK, NEW p \in Nat, p = pass,
         best \in [f : Nat \X Nat, threshold : 0 .. Thresholds - 1],
         NEW new,
         new = IF Larger(<<Upper(p), Lower(p)>>, best.f)
               THEN [f |-> <<Upper(p), Lower(p)>>, threshold |-> p] ELSE best
  PROVE  \/ /\ new.f = <<0, 1>> /\ new.threshold = 0
            /\ \A t \in 0 .. p : Upper(t) = 0
         \/ /\ new.f = <<Upper(new.threshold), Lower(new.threshold)>>
            /\ new.threshold \in 0 .. p /\ Upper(new.threshold) > 0
            /\ \A t \in 0 .. p :
                 Upper(t) * Lower(new.threshold) <= Upper(new.threshold) * Lower(t)
<1> DEFINE NoneYet == /\ best.f = <<0, 1>> /\ best.threshold = 0
                      /\ \A t \in 0 .. p - 1 : Upper(t) = 0
           OneYet == /\ best.f = <<Upper(best.threshold), Lower(best.threshold)>>
                     /\ best.threshold < p /\ Upper(best.threshold) > 0
                     /\ \A t \in 0 .. p - 1 :
                          Upper(t) * Lower(best.threshold) <= Upper(best.threshold) * Lower(t)
           None == /\ new.f = <<0, 1>> /\ new.threshold = 0
                   /\ \A t \in 0 .. p : Upper(t) = 0
           One == /\ new.f = <<Upper(new.threshold), Lower(new.threshold)>>
                  /\ new.threshold \in 0 .. p /\ Upper(new.threshold) > 0
                  /\ \A t \in 0 .. p :
                       Upper(t) * Lower(new.threshold) <= Upper(new.threshold) * Lower(t)
<1>1. NoneYet \/ OneYet
  BY DEF BestOK
<1>2. PICK up \in Nat, lp \in Nat : up = Upper(p) /\ lp = Lower(p)
  BY UpperLower
<1>3. \A t : Upper(t) \in Nat /\ Lower(t) \in Nat
  BY UpperLower
<1>4. \A t \in 0 .. p : t \in 0 .. p - 1 \/ t = p
  OBVIOUS
<1>5. CASE Larger(<<Upper(p), Lower(p)>>, best.f)
  <2>1. new = [f |-> <<up, lp>>, threshold |-> p]
    BY <1>2, <1>5
  <2>2. new.f = <<up, lp>> /\ new.threshold = p
    BY <2>1
  <2>3. up > 0 /\ up * best.f[2] > best.f[1] * lp
    BY <1>2, <1>5 DEF Larger
  <2>4. ASSUME NEW t \in 0 .. p PROVE Upper(t) * lp <= up * Lower(t)
    <3>1. PICK u \in Nat, l \in Nat : u = Upper(t) /\ l = Lower(t)
      BY <1>3
    <3>2. CASE t = p
      <4>1. u = up /\ l = lp
        BY <1>2, <3>1, <3>2
      <4>2. up * lp <= up * lp
        OBVIOUS
      <4> QED
        BY <3>1, <4>1, <4>2, Zenon
    <3>3. CASE t \in 0 .. p - 1 /\ NoneYet
      <4>1. u = 0
        BY <3>1, <3>3
      <4>2. u * lp <= up * l
        BY <4>1, SMTT(30)
      <4> QED
        BY <3>1, <4>2, Zenon
    <3>4. CASE t \in 0 .. p - 1 /\ OneYet
      <4>1. PICK ub \in Nat, lb \in Nat : ub = Upper(best.threshold) /\ lb = Lower(best.threshold)
        BY <1>3
      <4>2. lb # 0
        <5>1. ub > 0
          BY <3>4, <4>1
        <5>2. lb > 0
          BY <4>1, <5>1, UpperLower
        <5> QED
          BY <5>2
      <4>3. u * lb <= ub * l
        BY <3>1, <3>4, <4>1
      <4>4. best.f[1] = ub /\ best.f[2] = lb
        BY <3>4, <4>1
      <4>5. up * lb > ub * lp
        BY <2>3, <4>4
      <4>6. u * lp <= up * l
        BY <4>2, <4>3, <4>5, BeatenByBetter
      <4> QED
        BY <3>1, <4>6, Zenon
    <3> QED
      BY <1>1, <1>4, <3>2, <3>3, <3>4
  <2>5. One
    <3> HIDE DEF None, NoneYet, OneYet
    <3>1. /\ new.f = <<Upper(new.threshold), Lower(new.threshold)>>
          /\ new.threshold \in 0 .. p /\ Upper(new.threshold) > 0
      BY <1>2, <2>2, <2>3
    <3>2. up = Upper(new.threshold) /\ lp = Lower(new.threshold)
      BY <1>2, <2>2
    <3>3. \A t \in 0 .. p :
            Upper(t) * Lower(new.threshold) <= Upper(new.threshold) * Lower(t)
      BY <2>4, <3>2
    <3> QED
      BY <3>1, <3>3
  <2> QED
    BY <2>5
<1>6. CASE ~Larger(<<Upper(p), Lower(p)>>, best.f) /\ NoneYet
  <2>1. new = best
    BY <1>6
  <2>2. up = 0
    <3>1. best.f[1] = 0 /\ best.f[2] = 1
      BY <1>6
    <3>2. up * best.f[2] = up /\ best.f[1] * lp = 0
      BY <3>1
    <3>3. ~(up > 0 /\ up > 0)
      BY <1>2, <1>6, <3>2 DEF Larger
    <3> QED
      BY <3>3
  <2>3. None
    BY <1>2, <1>4, <1>6, <2>1, <2>2
  <2> QED
    BY <2>3
<1>7. CASE ~Larger(<<Upper(p), Lower(p)>>, best.f) /\ OneYet
  <2>1. new = best
    BY <1>7
  <2>2. PICK ub \in Nat, lb \in Nat : ub = Upper(best.threshold) /\ lb = Lower(best.threshold)
    BY <1>3
  <2>3. best.f[1] = ub /\ best.f[2] = lb
    BY <1>7, <2>2
  <2>4. ~(up > 0 /\ up * lb > ub * lp)
    BY <1>2, <1>7, <2>3 DEF Larger
  <2>5. up * lb <= ub * lp
    <3>1. CASE up = 0
      <4>1. 0 * lb <= ub * lp
        BY SMTT(30)
      <4> QED
        BY <3>1, <4>1
    <3>2. CASE up # 0
      <4>1. ~(up * lb > ub * lp)
        BY <2>4, <3>2
      <4> QED
        BY <4>1, NotMore
    <3> QED
      BY <3>1, <3>2
  <2>6. ASSUME NEW t \in 0 .. p
        PROVE  Upper(t) * Lower(best.threshold) <= Upper(best.threshold) * Lower(t)
    <3>1. CASE t = p
      BY <1>2, <2>2, <2>5, <3>1
    <3>2. CASE t \in 0 .. p - 1
      BY <1>7, <3>2
    <3> QED
      BY <1>4, <3>1, <3>2
  <2>7. new.threshold \in 0 .. p
    <3>1. best.threshold \in Nat
      BY RegressionAssumption
    <3> QED
      BY <1>7, <2>1, <3>1
  <2>8. One
    <3>1. \A t \in 0 .. p :
            Upper(t) * Lower(best.threshold) <= Upper(best.threshold) * Lower(t)
      BY <2>6
    <3> QED
      BY <1>7, <2>1, <2>7, <3>1
  <2> QED
    BY <2>8
<1> QED
  <2> HIDE DEF NoneYet, OneYet
  <2> QED
    BY <1>1, <1>5, <1>6, <1>7

\* A row of threshold_tuning is counted for the threshold of the pass; at the end of the
\* pass its F-measure is compared and everything starts again.
LEMMA TuningSteps == IInv /\ (TuneRow \/ EndOfPass) => IInv'
<1> SUFFICES ASSUME IInv, TuneRow \/ EndOfPass PROVE IInv'
  OBVIOUS
<1>1. /\ pc = "tuning" /\ routine = "tuning" /\ routine' = "tuning" /\ pass < Thresholds
      /\ UNCHANGED <<training, score, coeffs, line_buffer>>
  BY Places DEF TuneRow, EndOfPass
<1>2. /\ FileOK(training) /\ FileOK(rated) /\ count \in Counts
      /\ rated.at \in 1 .. Len(rated.labels) + 1 /\ rated.labels \in Seq({0, 1})
  BY Declared
<1>3. PICK rows \in Nat : rows = Len(rated.labels)
  BY <1>2
<1>4. PICK n \in 0 .. rows : n = rated.at - 1
  BY <1>2, <1>3
<1>5. PICK p \in Nat : p = pass
  BY DEF IInv, TypesOK
<1>6. /\ rated.at = 1 => ~rated.eof
      /\ count.rows = 0 /\ count.correct = 0
      /\ count.ones = HowMany(n, Ones(rated))
      /\ count.pos_all = HowMany(n, Reached(p))
      /\ count.pos_correct = HowMany(n, Hit(p))
      /\ BestOK
  BY <1>1, <1>4, <1>5 DEF IInv, TuningOK
<1>7. best \in [f : Nat \X Nat, threshold : 0 .. Thresholds - 1] /\ score \in AnyScores
  BY DEF IInv, TypesOK
<1>8. ASSUME rated'.labels = rated.labels, NEW t
      PROVE  /\ Ones(rated)' = Ones(rated) /\ Reached(t)' = Reached(t) /\ Hit(t)' = Hit(t)
             /\ Upper(t)' = Upper(t) /\ Lower(t)' = Lower(t)
  <2>1. Ones(rated)' = Ones(rated) /\ Reached(t)' = Reached(t)
    BY <1>1, <1>8 DEF Ones, Reached
  <2>2. Hit(t)' = Hit(t)
    BY <2>1 DEF Hit
  <2>3. Whole' = Whole
    BY <1>8 DEF Whole
  <2> QED
    BY <2>1, <2>2, <2>3 DEF Upper, Lower, HowMany
<1>9. CASE TuneRow
  <2>1. /\ Line(rated) = n + 1 /\ n + 1 <= rows /\ rated.at = n + 1
        /\ rated'.at = n + 2 /\ FileOK(rated') /\ rated'.labels = rated.labels
    BY <1>2, <1>3, <1>4, <1>9, GetlineFacts DEF TuneRow
  <2>2. PICK label \in {0, 1} : label = rated.labels[n + 1]
    BY <1>2, <1>3, <2>1
  <2>3. PICK above \in {0, 1} : above = Reaches(n + 1, p)
    BY DEF Reaches
  <2>4. /\ count' = [count EXCEPT !.ones = count.ones + label, !.pos_all = count.pos_all + above,
                                  !.pos_correct = count.pos_correct + above * label]
        /\ pc' = "tuning" /\ pass' = p /\ best' = best
    BY <1>1, <1>5, <1>9, <2>1, <2>2, <2>3 DEF TuneRow
  <2>5. /\ count' \in Counts /\ count'.rows = 0 /\ count'.correct = 0
        /\ count'.ones = count.ones + label /\ count'.pos_all = count.pos_all + above
        /\ count'.pos_correct = count.pos_correct + above * label
    <3>1. PICK now, next : now = count /\ next = count'
      OBVIOUS
    <3>2. now \in Counts
      BY <1>2, <3>1
    <3>3. PICK a \in Nat, b \in Nat, e \in Nat :
            a = now.ones + label /\ b = now.pos_all + above /\ e = now.pos_correct + above * label
      BY <3>2 DEF Counts
    <3>4. next = [now EXCEPT !.ones = a, !.pos_all = b, !.pos_correct = e]
      BY <2>4, <3>1, <3>3
    <3>5. /\ next \in Counts /\ next.ones = a /\ next.pos_all = b /\ next.pos_correct = e
          /\ next.rows = now.rows /\ next.correct = now.correct
      BY <3>2, <3>4 DEF Counts
    <3> QED
      BY <1>6, <3>1, <3>3, <3>5
  <2>6. /\ n + 1 \in Ones(rated) <=> label = 1
        /\ n + 1 \in Reached(p) <=> above = 1
        /\ n + 1 \in Hit(p) <=> above * label = 1
    <3>1. n + 1 \in Ones(rated) <=> label = 1
      BY <2>2 DEF Ones
    <3>2. n + 1 \in Reached(p) <=> above = 1
      BY <2>3 DEF Reached, Reaches
    <3>3. n + 1 \in Hit(p) <=> above = 1 /\ label = 1
      BY <3>1, <3>2 DEF Hit
    <3> QED
      BY <3>1, <3>2, <3>3
  <2>7. /\ HowMany(n + 1, Ones(rated)) = HowMany(n, Ones(rated)) + label
        /\ HowMany(n + 1, Reached(p)) = HowMany(n, Reached(p)) + above
        /\ HowMany(n + 1, Hit(p)) = HowMany(n, Hit(p)) + above * label
    <3>1. /\ HowMany(n, Ones(rated)) \in Nat /\ HowMany(n, Reached(p)) \in Nat
          /\ HowMany(n, Hit(p)) \in Nat
      BY HowManyFacts
    <3>2. /\ HowMany(n + 1, Ones(rated)) = HowMany(n, Ones(rated)) + label
          /\ HowMany(n + 1, Reached(p)) = HowMany(n, Reached(p)) + above
      BY <2>6, <3>1, HowManyFacts
    <3>3. PICK both \in {0, 1} : both = above * label
      OBVIOUS
    <3>4. HowMany(n + 1, Hit(p)) = HowMany(n, Hit(p)) + both
      BY <2>6, <3>1, <3>3, HowManyFacts
    <3> QED
      BY <3>2, <3>3, <3>4
  <2>8. /\ count'.ones = HowMany(rated.at - 1, Ones(rated))'
        /\ count'.pos_all = HowMany(rated.at - 1, Reached(pass))'
        /\ count'.pos_correct = HowMany(rated.at - 1, Hit(pass))'
    <3>1. rated'.at - 1 = n + 1 /\ pass' = p
      BY <2>1, <2>4
    <3>2. /\ Ones(rated)' = Ones(rated) /\ Reached(pass)' = Reached(p) /\ Hit(pass)' = Hit(p)
      <4>1. Reached(p)' = Reached(p) /\ Hit(p)' = Hit(p) /\ Ones(rated)' = Ones(rated)
        BY <1>8, <2>1
      <4>2. Reached(pass)' = Reached(p)' /\ Hit(pass)' = Hit(p)'
        BY <3>1 DEF Hit, Reached
      <4> QED
        BY <4>1, <4>2
    <3>3. /\ HowMany(rated.at - 1, Ones(rated))' = HowMany(n + 1, Ones(rated))
          /\ HowMany(rated.at - 1, Reached(pass))' = HowMany(n + 1, Reached(p))
          /\ HowMany(rated.at - 1, Hit(pass))' = HowMany(n + 1, Hit(p))
      BY <3>1, <3>2 DEF HowMany
    <3> QED
      BY <1>6, <2>5, <2>7, <3>3
  <2>9. BestOK'
    <3>1. \A t : Upper(t)' = Upper(t) /\ Lower(t)' = Lower(t)
      BY <1>8, <2>1
    <3>2. /\ best' = best /\ pass' = pass
          /\ Upper(best.threshold)' = Upper(best.threshold)
          /\ Lower(best.threshold)' = Lower(best.threshold)
      <4>1. best' = best /\ pass' = pass
        BY <1>5, <2>4
      <4>2. PICK b : b = best.threshold
        OBVIOUS
      <4>3. b = best'.threshold
        BY <4>1, <4>2
      <4>4. Upper(b)' = Upper(b) /\ Lower(b)' = Lower(b)
        BY <3>1
      <4>5. Upper(best.threshold)' = Upper(b)' /\ Lower(best.threshold)' = Lower(b)'
        BY <4>3 DEF Upper, Lower, Hit, Reached
      <4> QED
        BY <4>1, <4>2, <4>4, <4>5
    <3> QED
      BY <1>6, <3>1, <3>2 DEF BestOK
  <2>10. TuningOK'
    <3>1. rated'.at # 1
      BY <2>1
    <3>2. pass' < Thresholds /\ pass' <= Thresholds
      BY <1>1, <1>5, <2>4, RegressionAssumption
    <3> QED
      BY <1>1, <2>4, <2>5, <2>8, <2>9, <3>1, <3>2 DEF TuningOK
  <2>11. TypesOK'
    BY <1>1, <1>2, <1>5, <1>7, <2>1, <2>4, <2>5 DEF IInv, TypesOK, AnyScores
  <2> QED
    BY <1>1, <2>10, <2>11 DEF IInv, TrainOK, TestOK, SerialTrainOK, SerialTestOK
<1>10. CASE EndOfPass
  <2>1. n = rows /\ rated' = Fseek(rated) /\ count' = NoCount /\ pass' = p + 1
    <3>1. rated.eof \/ Line(rated) = 0
      BY <1>10 DEF EndOfPass
    <3>2. rated.at = rows + 1
      BY <1>2, <1>3, <3>1, GetlineFacts DEF FileOK
    <3> QED
      BY <1>4, <1>5, <1>10, <3>2 DEF EndOfPass, CountsReset
  <2>2. /\ FileOK(rated') /\ rated'.labels = rated.labels /\ rated'.at = 1 /\ ~rated'.eof
    BY <1>2, <2>1, FseekFacts
  <2>3. /\ p + 1 <= Thresholds /\ Thresholds \in Nat
        /\ p + 1 = Thresholds => pc' = "done"
        /\ p + 1 # Thresholds => pc' = "tuning"
    BY <1>1, <1>5, <1>10, <2>1, RegressionAssumption DEF EndOfPass
  <2>4. <<Upper(p), Lower(p)>> = FMeasure(count.pos_correct, count.pos_all, count.ones)
    BY <1>3, <1>6, <2>1 DEF FMeasure, Upper, Lower, Whole
  <2>5. best' = IF Larger(<<Upper(p), Lower(p)>>, best.f)
                THEN [f |-> <<Upper(p), Lower(p)>>, threshold |-> p] ELSE best
    BY <1>5, <1>10, <2>4 DEF EndOfPass
  <2>6. PICK new : new = best'
    OBVIOUS
  <2>7. \/ /\ new.f = <<0, 1>> /\ new.threshold = 0
           /\ \A t \in 0 .. p : Upper(t) = 0
        \/ /\ new.f = <<Upper(new.threshold), Lower(new.threshold)>>
           /\ new.threshold \in 0 .. p /\ Upper(new.threshold) > 0
           /\ \A t \in 0 .. p :
                Upper(t) * Lower(new.threshold) <= Upper(new.threshold) * Lower(t)
    BY <1>2, <1>5, <1>6, <1>7, <2>5, <2>6, BestAfterPass
  <2>8. BestOK'
    <3>1. /\ \A t : Upper(t)' = Upper(t) /\ Lower(t)' = Lower(t)
          /\ pass' - 1 = p
      BY <1>8, <2>1, <2>2
    <3>2. PICK b : b = new.threshold
      OBVIOUS
    <3>3. best'.threshold = b /\ best'.f = new.f
      BY <2>6, <3>2
    <3>4. Upper(best.threshold)' = Upper(b) /\ Lower(best.threshold)' = Lower(b)
      <4>1. Upper(best.threshold)' = Upper(b)' /\ Lower(best.threshold)' = Lower(b)'
        BY <3>3 DEF Upper, Lower, Hit, Reached
      <4> QED
        BY <3>1, <4>1
    <3>5. CASE /\ new.f = <<0, 1>> /\ new.threshold = 0
               /\ \A t \in 0 .. p : Upper(t) = 0
      BY <2>6, <3>1, <3>5 DEF BestOK
    <3>6. CASE /\ new.f = <<Upper(new.threshold), Lower(new.threshold)>>
               /\ new.threshold \in 0 .. p /\ Upper(new.threshold) > 0
               /\ \A t \in 0 .. p :
                    Upper(t) * Lower(new.threshold) <= Upper(new.threshold) * Lower(t)
      <4>1. /\ best'.f = <<Upper(best.threshold)', Lower(best.threshold)'>>
            /\ best'.threshold < pass' /\ Upper(best.threshold)' > 0
        BY <2>1, <3>2, <3>3, <3>4, <3>6
      <4>2. \A t \in 0 .. p :
              Upper(t)' * Lower(best.threshold)' <= Upper(best.threshold)' * Lower(t)'
        BY <3>1, <3>2, <3>4, <3>6
      <4> QED
        BY <3>1, <4>1, <4>2 DEF BestOK
    <3> QED
      BY <2>7, <3>5, <3>6
  <2>9. /\ HowMany(rated.at - 1, Ones(rated))' = 0
        /\ HowMany(rated.at - 1, Reached(pass))' = 0
        /\ HowMany(rated.at - 1, Hit(pass))' = 0
    <3>1. rated'.at - 1 = 0 /\ \A set : HowMany(0, set) = 0
      BY <2>2, HowManyFacts
    <3>2. \A set : HowMany(rated'.at - 1, set) = 0
      BY <3>1
    <3> QED
      BY <3>2 DEF HowMany
  <2>10. TuningOK'
    BY <1>1, <2>1, <2>2, <2>3, <2>8, <2>9, NothingCounted DEF TuningOK
  <2>11. best' \in [f : Nat \X Nat, threshold : 0 .. Thresholds - 1]
    <3>1. p \in 0 .. Thresholds - 1
      BY <1>1, <1>5, RegressionAssumption
    <3>2. <<Upper(p), Lower(p)>> \in Nat \X Nat
      BY <1>2, UpperLower
    <3>3. PICK f : f = <<Upper(p), Lower(p)>>
      OBVIOUS
    <3>4. [f |-> f, threshold |-> p] \in [f : Nat \X Nat, threshold : 0 .. Thresholds - 1]
      BY <3>1, <3>2, <3>3
    <3> QED
      BY <1>7, <2>5, <3>3, <3>4
  <2>12. TypesOK'
    BY <1>1, <1>2, <1>5, <1>7, <2>1, <2>2, <2>11, NothingCounted DEF IInv, TypesOK, AnyScores
  <2> QED
    BY <1>1, <2>10, <2>12 DEF IInv, TrainOK, TestOK, SerialTrainOK, SerialTestOK
<1> QED
  BY <1>9, <1>10

\* What a row of the serial validate and test adds to the counters.
Counted(row) == [Rate(row, Exceeds(row, Threshold)) EXCEPT !.ones = @ + rated.labels[row]]
LEMMA CountedRow ==
  ASSUME count \in Counts, rated.labels \in Seq({0, 1}), NEW row \in 1 .. Len(rated.labels)
  PROVE  \E hit \in {0, 1} :
           /\ hit = 1 <=> Exceeds(row, Threshold) = rated.labels[row]
           /\ Counted(row) \in Counts
           /\ Counted(row).rows = count.rows + 1 /\ Counted(row).ones = count.ones + rated.labels[row]
           /\ Counted(row).correct = count.correct + hit /\ Counted(row).pos_all = count.pos_all
           /\ Counted(row).pos_correct <= count.pos_correct + 1
<1>1. PICK p \in {0, 1} : p = Exceeds(row, Threshold)
  BY DEF Exceeds
<1>2. PICK label \in {0, 1} : label = rated.labels[row]
  OBVIOUS
<1>3. PICK r : r = Rate(row, p)
  OBVIOUS
<1>4. PICK hit \in {0, 1} :
        /\ hit = 1 <=> p = rated.labels[row]
        /\ r \in Counts /\ r.rows = count.rows + 1 /\ r.ones = count.ones
        /\ r.correct = count.correct + hit /\ r.pos_all = count.pos_all
        /\ r.pos_correct <= count.pos_correct + 1
  BY <1>3, RatedRow
<1>5. PICK a \in Nat : a = r.ones + label
  BY <1>4 DEF Counts
<1>6. PICK next : next = Counted(row)
  OBVIOUS
<1>7. next = [r EXCEPT !.ones = a]
  BY <1>1, <1>2, <1>3, <1>5, <1>6 DEF Counted
<1>8. /\ next \in Counts /\ next.ones = a /\ next.rows = r.rows /\ next.correct = r.correct
      /\ next.pos_all = r.pos_all /\ next.pos_correct = r.pos_correct
  BY <1>4, <1>7 DEF Counts
<1> QED
  BY <1>1, <1>2, <1>4, <1>5, <1>6, <1>8

\* The coefficients of the serial train go on over the epochs; the counters do not.
LEMMA SerialTrainSteps ==
  IInv /\ (EpochRow \/ EndOfEpoch \/ ValidateRow \/ EndOfValidate) => IInv'
<1> SUFFICES ASSUME IInv, EpochRow \/ EndOfEpoch \/ ValidateRow \/ EndOfValidate PROVE IInv'
  OBVIOUS
<1>1. /\ pc \in {"epoch", "validate"} /\ routine = "serial train" /\ routine' = "serial train"
      /\ UNCHANGED <<line_buffer, best>>
  BY Places DEF EpochRow, EndOfEpoch, ValidateRow, EndOfValidate, CountRow
<1>2. /\ FileOK(training) /\ FileOK(rated) /\ count \in Counts
      /\ training.at \in 1 .. Len(training.labels) + 1
      /\ rated.at \in 1 .. Len(rated.labels) + 1 /\ Len(rated.labels) \in Nat
      /\ training.labels \in Seq({0, 1}) /\ rated.labels \in Seq({0, 1})
  BY Declared
<1>3. PICK rows \in Nat : rows = Len(training.labels)
  BY <1>2
<1>4. PICK r \in 0 .. rows : r = training.at - 1
  BY <1>2, <1>3
<1>5. PICK p \in Nat : p = pass
  BY DEF IInv, TypesOK
<1>6. PICK n \in Nat : n = (p * rows) + r
  OBVIOUS
<1>7. /\ pass < Epochs /\ pass <= Epochs /\ coeffs = InTurn(n) /\ count.pos_all = 0
      /\ pc = "epoch" =>
           /\ count.rows <= r /\ count.ones <= r
           /\ count.correct = 0 /\ count.pos_correct = 0
      /\ pc = "validate" =>
           /\ r = rows
           /\ count.rows <= rated.at - 1 /\ count.ones <= rated.at - 1
           /\ count.correct <= rated.at - 1 /\ count.pos_correct <= rated.at - 1
  <2>1. /\ SerialTrainOK
        /\ pc # "done"
    BY <1>1 DEF IInv
  <2>2. pass < Epochs /\ pass <= Epochs /\ count.pos_all = 0
    BY <1>1, <2>1 DEF SerialTrainOK
  <2>3. coeffs = InTurn(n)
    <3>1. coeffs = InTurn((pass * Len(training.labels)) + (training.at - 1))
      BY <1>1, <2>1 DEF SerialTrainOK
    <3> QED
      BY <1>3, <1>4, <1>5, <1>6, <3>1
  <2>4. ASSUME pc = "epoch"
        PROVE  /\ count.rows <= r /\ count.ones <= r
               /\ count.correct = 0 /\ count.pos_correct = 0
    BY <1>1, <1>4, <2>1, <2>4 DEF SerialTrainOK
  <2>5. ASSUME pc = "validate"
        PROVE  /\ r = rows
               /\ count.rows <= rated.at - 1 /\ count.ones <= rated.at - 1
               /\ count.correct <= rated.at - 1 /\ count.pos_correct <= rated.at - 1
    <3>1. training.at = Len(training.labels) + 1
      BY <1>1, <2>1, <2>5 DEF SerialTrainOK
    <3>2. r = rows
      BY <1>3, <1>4, <3>1
    <3> QED
      BY <1>1, <2>1, <2>5, <3>2 DEF SerialTrainOK
  <2> QED
    BY <2>2, <2>3, <2>4, <2>5
<1>8. score \in AnyScores
  BY DEF IInv, TypesOK
<1>9. CASE EpochRow
  <2>1. /\ Line(training) = r + 1 /\ r + 1 <= rows
        /\ training'.at = r + 2 /\ FileOK(training') /\ training'.labels = training.labels
    BY <1>2, <1>3, <1>4, <1>9, GetlineFacts DEF EpochRow
  <2>2. PICK label \in {0, 1} : label = training.labels[r + 1]
    BY <1>2, <1>3, <2>1
  <2>3. /\ pc = "epoch" /\ pc' = "epoch" /\ coeffs' = Append(coeffs, r + 1)
        /\ count' = IF pass # 0 THEN count
                    ELSE [count EXCEPT !.rows = count.rows + 1, !.ones = count.ones + label]
        /\ UNCHANGED <<rated, score, pass>>
    BY <1>1, <1>9, <2>1, <2>2 DEF EpochRow, update_coefficients
  <2>4. /\ count' \in Counts /\ count'.rows <= r + 1 /\ count'.ones <= r + 1
        /\ count'.correct = 0 /\ count'.pos_correct = 0 /\ count'.pos_all = 0
    <3>1. PICK now, next : now = count /\ next = count'
      OBVIOUS
    <3>2. /\ now \in Counts /\ now.rows <= r /\ now.ones <= r
          /\ now.correct = 0 /\ now.pos_correct = 0 /\ now.pos_all = 0
      BY <1>2, <1>7, <2>3, <3>1
    <3>3. PICK a \in Nat, b \in Nat : a = now.rows + 1 /\ b = now.ones + label
      BY <3>2 DEF Counts
    <3>4. next = now \/ next = [now EXCEPT !.rows = a, !.ones = b]
      BY <2>3, <3>1, <3>3
    <3>5. CASE next = now
      <4>1. next \in Counts /\ next.rows <= r + 1 /\ next.ones <= r + 1
        BY <3>2, <3>5 DEF Counts
      <4> QED
        BY <3>1, <3>2, <3>5, <4>1
    <3>6. CASE next = [now EXCEPT !.rows = a, !.ones = b]
      <4>1. /\ next \in Counts /\ next.rows = a /\ next.ones = b /\ next.correct = now.correct
            /\ next.pos_correct = now.pos_correct /\ next.pos_all = now.pos_all
        BY <3>2, <3>6 DEF Counts
      <4>2. a <= r + 1 /\ b <= r + 1
        BY <3>2, <3>3 DEF Counts
      <4> QED
        BY <3>1, <3>2, <4>1, <4>2
    <3> QED
      BY <3>4, <3>5, <3>6
  <2>5. Append(InTurn(n), r + 1) = InTurn(n + 1)
    <3>1. r < rows /\ r \in Nat
      BY <2>1
    <3>2. n % rows = r
      BY <1>6, <3>1, PassesAndRows
    <3>3. n % Len(training.labels) = r
      BY <1>3, <3>2
    <3>4. Len(training.labels) \in Nat \ {0}
      <4>1. rows \in Nat \ {0}
        BY <3>1
      <4> QED
        BY <1>3, <4>1
    <3> QED
      BY <3>1, <3>3, <3>4, InTurnGrows
  <2>6. coeffs' = InTurn((pass * Len(training.labels)) + (training.at - 1))'
    <3>1. training'.at - 1 = r + 1
      BY <2>1
    <3>2. (p * rows) + (r + 1) = n + 1
      BY <1>6
    <3>3. ((pass * Len(training.labels)) + (training.at - 1))' = n + 1
      BY <1>3, <1>5, <2>1, <2>3, <3>1, <3>2
    <3>4. InTurn(n + 1)' = InTurn(n + 1)
      BY <2>1 DEF InTurn
    <3>5. InTurn((pass * Len(training.labels)) + (training.at - 1))' = InTurn(n + 1)'
      BY <3>3 DEF InTurn
    <3> QED
      BY <1>7, <2>3, <2>5, <3>4, <3>5
  <2>7. TypesOK'
    BY <1>1, <1>2, <2>1, <2>3, <2>4 DEF IInv, TypesOK, AnyScores
  <2>8. SerialTrainOK'
    <3>1. training'.at - 1 = r + 1
      BY <2>1
    <3>2. count'.rows <= training'.at - 1 /\ count'.ones <= training'.at - 1
      BY <2>4, <3>1
    <3> QED
      BY <1>1, <1>7, <2>3, <2>4, <2>6, <3>2 DEF SerialTrainOK
  <2> QED
    BY <1>1, <2>7, <2>8 DEF IInv, TrainOK, TestOK, TuningOK, SerialTestOK
<1>10. CASE EndOfEpoch
  <2>1. /\ pc = "epoch" /\ pc' = "validate" /\ count' = NoCount
        /\ UNCHANGED <<rated, coeffs, pass>> /\ score' \in AnyScores
    BY <1>10 DEF EndOfEpoch
  <2>2. /\ r = rows /\ training'.at = training.at /\ FileOK(training')
        /\ training'.labels = training.labels /\ training'.at = Len(training'.labels) + 1
    <3>1. /\ training.at = Len(training.labels) + 1 /\ training'.at = training.at
          /\ training'.labels = training.labels /\ FileOK(training')
      BY <1>2, <1>10, GetlineFacts DEF EndOfEpoch
    <3>2. r = rows
      BY <1>3, <1>4, <3>1
    <3> QED
      BY <3>1, <3>2
  <2>3. coeffs' = InTurn((pass * Len(training.labels)) + (training.at - 1))'
    <3>1. coeffs = InTurn((pass * Len(training.labels)) + (training.at - 1))
      BY <1>1 DEF IInv, SerialTrainOK
    <3> QED
      BY <2>1, <2>2, <3>1 DEF InTurn
  <2>4. score' \in AnyScores'
    BY <2>1 DEF AnyScores
  <2>5. TypesOK'
    BY <1>1, <1>2, <2>1, <2>2, <2>4, NothingCounted DEF IInv, TypesOK
  <2>6. /\ count'.rows = 0 /\ count'.ones = 0 /\ count'.correct = 0 /\ count'.pos_correct = 0
        /\ count'.pos_all = 0
    BY <2>1, NothingCounted
  <2>7. PICK k \in Nat : k = rated'.at - 1
    BY <1>2, <2>1
  <2>8. 0 <= k
    OBVIOUS
  <2>9. SerialTrainOK'
    BY <1>1, <1>7, <2>1, <2>2, <2>3, <2>6, <2>7, <2>8 DEF SerialTrainOK
  <2> QED
    BY <1>1, <2>5, <2>9 DEF IInv, TrainOK, TestOK, TuningOK, SerialTestOK
<1>11. CASE ValidateRow
  <2>1. /\ pc = "validate" /\ pc' = "validate"
        /\ UNCHANGED <<training, score, coeffs, pass>>
    BY <1>11 DEF ValidateRow, CountRow
  <2>2. PICK k \in Nat : k = rated.at - 1
    BY <1>2
  <2>3. /\ Line(rated) = k + 1 /\ k + 1 <= Len(rated.labels)
        /\ rated'.at = k + 2 /\ FileOK(rated') /\ rated'.labels = rated.labels
    BY <1>2, <1>11, <2>2, GetlineFacts DEF ValidateRow, CountRow
  <2>4. count' = Counted(k + 1)
    BY <1>11, <2>3 DEF ValidateRow, CountRow, Counted
  <2>5. /\ count' \in Counts /\ count'.rows <= k + 1 /\ count'.ones <= k + 1
        /\ count'.correct <= k + 1 /\ count'.pos_correct <= k + 1 /\ count'.pos_all = 0
    <3>1. PICK now : now = count
      OBVIOUS
    <3>2. /\ now \in Counts /\ now.rows <= k /\ now.ones <= k /\ now.correct <= k
          /\ now.pos_correct <= k /\ now.pos_all = 0
      BY <1>2, <1>7, <2>1, <2>2, <3>1
    <3>3. PICK hit \in {0, 1} :
            /\ count' \in Counts
            /\ count'.rows = count.rows + 1 /\ count'.ones = count.ones + rated.labels[k + 1]
            /\ count'.correct = count.correct + hit
            /\ count'.pos_all = count.pos_all
            /\ count'.pos_correct <= count.pos_correct + 1
      <4>1. k + 1 \in 1 .. Len(rated.labels)
        BY <1>2, <2>3
      <4> QED
        BY <1>2, <2>4, <4>1, CountedRow
    <3>4. PICK label \in {0, 1} : label = rated.labels[k + 1]
      BY <1>2, <2>3
    <3>5. PICK next : next = count'
      OBVIOUS
    <3>6. /\ next \in Counts /\ next.rows = now.rows + 1 /\ next.ones = now.ones + label
          /\ next.correct = now.correct + hit /\ next.pos_all = now.pos_all
          /\ next.pos_correct <= now.pos_correct + 1
      BY <3>1, <3>3, <3>4, <3>5
    <3>7. next.rows <= k + 1 /\ next.ones <= k + 1 /\ next.correct <= k + 1
      BY <3>2, <3>6 DEF Counts
    <3>8. next.pos_correct <= k + 1
      BY <3>2, <3>6 DEF Counts
    <3> QED
      BY <3>2, <3>5, <3>6, <3>7, <3>8
  <2>6. TypesOK'
    BY <1>1, <1>2, <2>1, <2>3, <2>5 DEF IInv, TypesOK, AnyScores
  <2>7. coeffs' = InTurn((pass * Len(training.labels)) + (training.at - 1))'
    <3>1. coeffs = InTurn((pass * Len(training.labels)) + (training.at - 1))
      BY <1>1 DEF IInv, SerialTrainOK
    <3> QED
      BY <2>1, <3>1 DEF InTurn
  <2>8. rated'.at - 1 = k + 1
    BY <2>3
  <2>9. training'.at = Len(training'.labels) + 1
    BY <1>3, <1>4, <1>7, <1>2, <2>1
  <2>10. SerialTrainOK'
    BY <1>1, <1>7, <2>1, <2>5, <2>7, <2>8, <2>9 DEF SerialTrainOK
  <2> QED
    BY <1>1, <2>6, <2>10 DEF IInv, TrainOK, TestOK, TuningOK, SerialTestOK
<1>12. CASE EndOfValidate
  <2>1. /\ pc = "validate" /\ count' = NoCount /\ pass' = p + 1
        /\ training' = Fseek(training) /\ rated' = Fseek(rated)
        /\ UNCHANGED <<score, coeffs>>
    BY <1>5, <1>12 DEF EndOfValidate, Again
  <2>2. /\ FileOK(training') /\ training'.labels = training.labels /\ training'.at = 1
        /\ FileOK(rated') /\ rated'.labels = rated.labels /\ rated'.at = 1
    BY <1>2, <2>1, FseekFacts
  <2>3. /\ p + 1 <= Epochs
        /\ p + 1 = Epochs => pc' = "done"
        /\ p + 1 # Epochs => pc' = "epoch"
    BY <1>5, <1>7, <1>12, <2>1, RegressionAssumption DEF EndOfValidate
  <2>4. coeffs' = InTurn((pass * Len(training.labels)) + (training.at - 1))'
    <3>1. n = (p + 1) * rows
      <4>1. r = rows
        BY <1>7, <2>1
      <4>2. (p + 1) * rows = (p * rows) + rows
        BY SMTT(30)
      <4> QED
        BY <1>6, <4>1, <4>2
    <3>2. training'.at - 1 = 0 /\ pass' = p + 1 /\ Len(training'.labels) = rows
      BY <1>3, <2>1, <2>2
    <3>3. ((p + 1) * rows) + 0 = n
      BY <3>1
    <3>4. ((pass * Len(training.labels)) + (training.at - 1))' = n
      BY <3>2, <3>3
    <3>5. InTurn((pass * Len(training.labels)) + (training.at - 1))' = InTurn(n)
      BY <2>2, <3>4 DEF InTurn
    <3> QED
      BY <1>7, <2>1, <3>5
  <2>5. TypesOK'
    <3>1. pass' \in Nat /\ score' \in AnyScores'
      BY <1>8, <2>1, <2>2 DEF AnyScores
    <3>2. line_buffer' \in 0 .. Len(rated'.labels)
      BY <1>1, <2>2 DEF IInv, TypesOK
    <3> QED
      BY <1>1, <2>1, <2>2, <3>1, <3>2, NothingCounted DEF IInv, TypesOK
  <2>6. /\ count'.rows = 0 /\ count'.ones = 0 /\ count'.correct = 0 /\ count'.pos_correct = 0
        /\ count'.pos_all = 0
    BY <2>1, NothingCounted
  <2>7. /\ pc' \in {"epoch", "done"} /\ pass' <= Epochs
        /\ pc' # "done" => pass' < Epochs
    BY <2>1, <2>3, RegressionAssumption
  <2>8. training'.at - 1 = 0
    BY <2>2
  <2>9. count'.rows <= training'.at - 1 /\ count'.ones <= training'.at - 1
    BY <2>6, <2>8
  <2>10. SerialTrainOK'
    BY <1>1, <2>1, <2>4, <2>6, <2>7, <2>9 DEF SerialTrainOK
  <2> QED
    BY <1>1, <2>5, <2>10 DEF IInv, TrainOK, TestOK, TuningOK, SerialTestOK
<1> QED
  BY <1>9, <1>10, <1>11, <1>12

\* The serial test counts the row it reads.
LEMMA SerialTestSteps == IInv /\ (SerialTestRow \/ EndOfSerialTest) => IInv'
<1> SUFFICES ASSUME IInv, SerialTestRow \/ EndOfSerialTest PROVE IInv'
  OBVIOUS
<1>1. /\ pc = "serial test" /\ routine = "serial test" /\ routine' = "serial test"
      /\ UNCHANGED <<training, score, coeffs, pass, line_buffer, best>>
  BY Places DEF SerialTestRow, EndOfSerialTest, CountRow
<1>2. /\ FileOK(training) /\ FileOK(rated) /\ count \in Counts
      /\ rated.at \in 1 .. Len(rated.labels) + 1 /\ Len(rated.labels) \in Nat
      /\ rated.labels \in Seq({0, 1})
  BY Declared
<1>3. PICK k \in Nat : k = rated.at - 1
  BY <1>2
<1>4. /\ pass = 0
      /\ count.rows = k /\ count.correct = HowMany(k, SerialRight)
      /\ count.ones <= k /\ count.pos_correct <= k /\ count.pos_all = 0
  BY <1>1, <1>3 DEF IInv, SerialTestOK
<1>5. ASSUME rated'.labels = rated.labels PROVE SerialRight' = SerialRight
  BY <1>1, <1>5 DEF SerialRight, Exceeds
<1>6. CASE SerialTestRow
  <2>1. /\ Line(rated) = k + 1 /\ k + 1 <= Len(rated.labels)
        /\ rated'.at = k + 2 /\ FileOK(rated') /\ rated'.labels = rated.labels
    <3>1. Line(rated) # 0 /\ rated' = Getline(rated)
      BY <1>6 DEF SerialTestRow, CountRow
    <3>2. rated.at = k + 1
      BY <1>2, <1>3
    <3>3. /\ Line(rated) = rated.at /\ rated.at <= Len(rated.labels)
          /\ rated'.at = rated.at + 1 /\ FileOK(rated') /\ rated'.labels = rated.labels
      BY <1>2, <3>1, GetlineFacts
    <3>4. k + 1 + 1 = k + 2
      OBVIOUS
    <3> QED
      BY <3>3, <3>2, <3>4
  <2>2. /\ pc' = "serial test"
        /\ count' = Counted(k + 1)
    BY <1>1, <1>6, <2>1 DEF SerialTestRow, CountRow, Counted
  <2>3. PICK hit \in {0, 1} :
          /\ hit = 1 <=> Exceeds(k + 1, Threshold) = rated.labels[k + 1]
          /\ count' \in Counts
          /\ count'.rows = count.rows + 1 /\ count'.ones = count.ones + rated.labels[k + 1]
          /\ count'.correct = count.correct + hit
          /\ count'.pos_all = count.pos_all
          /\ count'.pos_correct <= count.pos_correct + 1
    <3>1. k + 1 \in 1 .. Len(rated.labels)
      BY <1>2, <2>1
    <3> QED
      BY <1>2, <2>2, <3>1, CountedRow
  <2>4. PICK label \in {0, 1} : label = rated.labels[k + 1]
    BY <1>2, <2>1
  <2>5. PICK now, next : now = count /\ next = count'
    OBVIOUS
  <2>6. /\ now \in Counts /\ now.rows = k /\ now.ones <= k /\ now.pos_correct <= k
        /\ now.pos_all = 0 /\ now.correct = HowMany(k, SerialRight)
    BY <1>2, <1>4, <2>5
  <2>7. /\ next \in Counts /\ next.rows = now.rows + 1 /\ next.ones = now.ones + label
        /\ next.correct = now.correct + hit /\ next.pos_all = now.pos_all
        /\ next.pos_correct <= now.pos_correct + 1
    BY <2>3, <2>4, <2>5
  <2>8. next.rows = k + 1 /\ next.ones <= k + 1 /\ next.pos_correct <= k + 1
    BY <2>6, <2>7 DEF Counts
  <2>9. next.correct = HowMany(k + 1, SerialRight)
    <3>1. k + 1 \in SerialRight <=> hit = 1
      BY <2>3 DEF SerialRight
    <3>2. HowMany(k, SerialRight) \in Nat
      BY HowManyFacts
    <3>3. HowMany(k + 1, SerialRight) = HowMany(k, SerialRight) + hit
      BY <3>1, <3>2, HowManyFacts
    <3> QED
      BY <2>6, <2>7, <3>3
  <2>10. rated'.at - 1 = k + 1
    BY <2>1
  <2>11. HowMany(rated.at - 1, SerialRight)' = HowMany(k + 1, SerialRight)
    BY <1>5, <2>1, <2>10 DEF HowMany
  <2>12. SerialTestOK'
    BY <1>1, <1>4, <2>2, <2>5, <2>6, <2>7, <2>8, <2>9, <2>10, <2>11 DEF SerialTestOK
  <2>13. TypesOK'
    BY <1>1, <1>2, <2>1, <2>3 DEF IInv, TypesOK, AnyScores
  <2> QED
    BY <1>1, <2>12, <2>13 DEF IInv, TrainOK, TestOK, TuningOK, SerialTrainOK
<1>7. CASE EndOfSerialTest
  <2>1. /\ rated.at = Len(rated.labels) + 1 /\ rated'.at = rated.at /\ FileOK(rated')
        /\ rated'.labels = rated.labels /\ pc' = "done" /\ count' = count
    BY <1>2, <1>7, GetlineFacts DEF EndOfSerialTest
  <2>2. HowMany(rated.at - 1, SerialRight)' = HowMany(k, SerialRight)
    BY <1>3, <1>5, <2>1 DEF HowMany
  <2>3. rated'.at - 1 = k /\ rated'.at = Len(rated'.labels) + 1
    BY <1>3, <2>1
  <2>4. SerialTestOK'
    BY <1>1, <1>4, <2>1, <2>2, <2>3 DEF SerialTestOK
  <2>5. TypesOK'
    BY <1>1, <1>2, <2>1 DEF IInv, TypesOK, AnyScores
  <2> QED
    BY <1>1, <2>4, <2>5 DEF IInv, TrainOK, TestOK, TuningOK, SerialTrainOK
<1> QED
  BY <1>6, <1>7

\* Every step keeps the invariant.
LEMMA StepsKeep == IInv /\ [Next]_vars => IInv'
<1> SUFFICES ASSUME IInv, [Next]_vars PROVE IInv'
  OBVIOUS
<1>1. CASE Step
  BY <1>1, TrainSteps, TestSteps, TuningSteps, SerialTrainSteps, SerialTestSteps DEF Step
<1>2. CASE UNCHANGED vars
  <2>1. TypesOK'
    BY <1>2 DEF vars, IInv, TypesOK, AnyScores
  <2>2. TrainOK'
    BY <1>2 DEF vars, IInv, TrainOK, InTurn, HowMany, Ones
  <2>3. TestOK'
    BY <1>2 DEF vars, IInv, TestOK, Tested, HowMany, TestedRight, Reaches
  <2>4. TuningOK'
    BY <1>2 DEF vars, IInv, TuningOK, HowMany, Ones, Reached, Hit, BestOK, Upper, Lower, Whole
  <2>5. SerialTrainOK'
    BY <1>2 DEF vars, IInv, SerialTrainOK, InTurn
  <2>6. SerialTestOK'
    BY <1>2 DEF vars, IInv, SerialTestOK, HowMany, SerialRight, Exceeds
  <2> QED
    BY <2>1, <2>2, <2>3, <2>4, <2>5, <2>6 DEF IInv
<1> QED
  BY <1>1, <1>2 DEF Next, Done

-----------------------------------------------------------------------------
(* Theorems. *)

\* The invariant of the five routines: each is at one of its own places, its counters are
\* those of the rows it has read and used, the coefficients are the rows of the training
\* file in turn, and the threshold kept is a best one of the passes made so far.
THEOREM Invariance == Spec => []IInv
<1>1. Init => IInv
  BY InitOK
<1>2. IInv /\ [Next]_vars => IInv'
  BY StepsKeep
<1> QED
  BY <1>1, <1>2, PTL DEF Spec

\* The rows test has used are rows of its file.
LEMMA TestedRows ==
  ASSUME IInv, routine = "test"
  PROVE  Tested \in 0 .. Len(rated.labels)
<1>1. PICK rows \in Nat : rows = Len(rated.labels)
  BY Declared
<1>2. rated.at \in 1 .. rows + 1 /\ (rated.labels = <<>> <=> rows = 0)
  BY <1>1, Declared
<1>3. PICK at \in 1 .. rows + 1 : at = rated.at
  BY <1>2
<1>4. pc \in {"first line", "test", "done"} /\ (pc = "done" => rated.eof)
      /\ (pc = "test" /\ ~rated.eof => at > 1)
  BY <1>3 DEF IInv, TestOK
<1>5. CASE pc = "first line"
  <2>1. Tested = 0
    BY <1>5 DEF Tested
  <2>2. 0 \in 0 .. rows
    OBVIOUS
  <2> QED
    BY <1>1, <2>1, <2>2
<1>6. CASE pc # "first line" /\ ~rated.eof
  <2>1. Tested = at - 2 /\ at > 1
    BY <1>3, <1>4, <1>6 DEF Tested
  <2> QED
    BY <1>1, <2>1
<1>7. CASE pc # "first line" /\ rated.eof
  <2>1. Tested = rows \/ (rows # 0 /\ Tested = rows - 1)
    BY <1>1, <1>2, <1>7 DEF Tested
  <2> QED
    BY <1>1, <2>1
<1> QED
  BY <1>5, <1>6, <1>7

\* The counters of every routine, by name, are at most the rows of its file.
LEMMA CountsBounded ==
  ASSUME IInv
  PROVE  /\ Size \in Nat
         /\ count.rows \in 0 .. Size /\ count.ones \in 0 .. Size /\ count.correct \in 0 .. Size
         /\ count.pos_all \in 0 .. Size /\ count.pos_correct \in 0 .. Size
<1>1. PICK learned \in Nat, rows \in Nat :
        learned = Len(training.labels) /\ rows = Len(rated.labels)
  BY Declared
<1>2. PICK l \in 0 .. learned, r \in 0 .. rows : l = training.at - 1 /\ r = rated.at - 1
  BY <1>1, Declared
<1>3. /\ count.rows \in Nat /\ count.ones \in Nat /\ count.correct \in Nat
      /\ count.pos_all \in Nat /\ count.pos_correct \in Nat
  BY Declared DEF Counts
<1>4. PICK ro \in Nat, on \in Nat, co \in Nat, pa \in Nat, pc_ \in Nat :
        /\ ro = count.rows /\ on = count.ones /\ co = count.correct
        /\ pa = count.pos_all /\ pc_ = count.pos_correct
  BY <1>3
<1>5. SUFFICES ASSUME NEW size \in Nat, size = Size
               PROVE  ro <= size /\ on <= size /\ co <= size /\ pa <= size /\ pc_ <= size
  <2>1. Size = learned \/ Size = rows
    BY <1>1 DEF Size
  <2>2. PICK size \in Nat : size = Size
    BY <2>1
  <2>3. ro <= size /\ on <= size /\ co <= size /\ pa <= size /\ pc_ <= size
    BY <2>2
  <2>4. /\ ro \in 0 .. size /\ on \in 0 .. size /\ co \in 0 .. size
        /\ pa \in 0 .. size /\ pc_ \in 0 .. size
    BY <2>3
  <2> QED
    BY <1>4, <2>2, <2>4
<1>6. routine \in Routines
  BY DEF IInv, TypesOK
<1>7. CASE routine = "train"
  <2>1. size = learned
    BY <1>1, <1>5, <1>7 DEF IInv, TrainOK, Size
  <2>2. ro = l /\ on = HowMany(l, Ones(training)) /\ co = 0 /\ pa = 0 /\ pc_ = 0
    BY <1>2, <1>4, <1>7 DEF IInv, TrainOK
  <2>3. HowMany(l, Ones(training)) \in 0 .. l
    BY HowManyFacts
  <2> QED
    BY <2>1, <2>2, <2>3
<1>8. CASE routine = "test"
  <2>1. size = rows
    BY <1>1, <1>5, <1>8 DEF Size
  <2>2. PICK n \in 0 .. rows : n = Tested
    BY <1>1, <1>8, TestedRows
  <2>3. ro = n /\ co = HowMany(n, TestedRight) /\ on = 0 /\ pa = 0 /\ pc_ <= n
    BY <1>4, <1>8, <2>2 DEF IInv, TestOK
  <2>4. HowMany(n, TestedRight) \in 0 .. n
    BY HowManyFacts
  <2> QED
    BY <2>1, <2>3, <2>4
<1>9. CASE routine = "tuning"
  <2>1. size = rows
    BY <1>1, <1>5, <1>9 DEF Size
  <2>2. /\ ro = 0 /\ co = 0 /\ on = HowMany(r, Ones(rated)) /\ pa = HowMany(r, Reached(pass))
        /\ pc_ = HowMany(r, Hit(pass))
    BY <1>2, <1>4, <1>9 DEF IInv, TuningOK
  <2>3. /\ HowMany(r, Ones(rated)) \in 0 .. r /\ HowMany(r, Reached(pass)) \in 0 .. r
        /\ HowMany(r, Hit(pass)) \in 0 .. r
    BY HowManyFacts
  <2> QED
    BY <2>1, <2>2, <2>3
<1>10. CASE routine = "serial train"
  <2>1. SerialTrainOK
    BY DEF IInv
  <2>2. CASE pc = "epoch"
    <3>1. size = learned
      BY <1>1, <1>5, <1>10, <2>2 DEF Size
    <3>2. ro <= l /\ on <= l /\ co = 0 /\ pa = 0 /\ pc_ = 0
      BY <1>2, <1>4, <1>10, <2>1, <2>2 DEF SerialTrainOK
    <3> QED
      BY <3>1, <3>2
  <2>3. CASE pc = "validate"
    <3>1. size = rows
      BY <1>1, <1>5, <1>10, <2>3 DEF Size
    <3>2. ro <= r /\ on <= r /\ co <= r /\ pa = 0 /\ pc_ <= r
      BY <1>2, <1>4, <1>10, <2>1, <2>3 DEF SerialTrainOK
    <3> QED
      BY <3>1, <3>2
  <2>4. CASE pc = "done"
    <3>1. ro = 0 /\ on = 0 /\ co = 0 /\ pa = 0 /\ pc_ = 0
      BY <1>4, <1>10, <2>1, <2>4, NothingCounted DEF SerialTrainOK
    <3> QED
      BY <3>1
  <2> QED
    BY <1>10, <2>1, <2>2, <2>3, <2>4 DEF SerialTrainOK
<1>11. CASE routine = "serial test"
  <2>1. size = rows
    BY <1>1, <1>5, <1>11 DEF Size
  <2>2. ro = r /\ co = HowMany(r, SerialRight) /\ on <= r /\ pc_ <= r /\ pa = 0
    BY <1>2, <1>4, <1>11 DEF IInv, SerialTestOK
  <2>3. HowMany(r, SerialRight) \in 0 .. r
    BY HowManyFacts
  <2> QED
    BY <2>1, <2>2, <2>3
<1> QED
  BY <1>6, <1>7, <1>8, <1>9, <1>10, <1>11 DEF Routines

\* The types of the variables; in every routine no counter exceeds the rows of the file
\* it is about, and the passes over a file are bounded.
THEOREM TypeCorrect == Spec => []TypeOK
<1>1. ASSUME IInv PROVE TypeOK
  <2> USE <1>1
  <2>1. /\ routine \in Routines /\ FileOK(training) /\ FileOK(rated)
        /\ score \in AnyScores /\ pass \in Nat /\ line_buffer \in 0 .. Len(rated.labels)
        /\ count \in Counts
        /\ best \in [f : Nat \X Nat, threshold : 0 .. Thresholds - 1]
    BY DEF IInv, TypesOK
  <2>2. \A file \in {training, rated} :
          file.at \in 1 .. Len(file.labels) + 1 /\ file.eof \in BOOLEAN
    BY <2>1 DEF FileOK, File
  <2>3. pass \in 0 .. (IF routine = "tuning" THEN Thresholds ELSE Epochs)
    <3>1. CASE routine = "tuning"
      <4>1. pass <= Thresholds
        BY <3>1 DEF IInv, TuningOK
      <4> QED
        BY <2>1, <3>1, <4>1, RegressionAssumption
    <3>2. CASE routine # "tuning"
      <4>1. pass = 0 \/ pass <= Epochs
        BY <2>1, <3>2 DEF Routines, IInv, TrainOK, TestOK, SerialTrainOK, SerialTestOK
      <4> QED
        BY <2>1, <3>2, <4>1, RegressionAssumption
    <3> QED
      BY <3>1, <3>2
  <2>4. count \in [DOMAIN NoCount -> 0 .. Size]
    <3>1. DOMAIN NoCount = {"rows", "ones", "correct", "pos_all", "pos_correct"}
      BY DEF NoCount
    <3>2. /\ count = [field \in {"rows", "ones", "correct", "pos_all", "pos_correct"}
                        |-> count[field]]
      BY <2>1 DEF Counts
    <3>3. \A field \in {"rows", "ones", "correct", "pos_all", "pos_correct"} :
            count[field] \in 0 .. Size
      BY CountsBounded
    <3> QED
      BY <3>1, <3>2, <3>3
  <2>5. best.threshold \in 0 .. Thresholds - 1
    BY <2>1
  <2> QED
    BY <2>1, <2>2, <2>3, <2>4, <2>5 DEF TypeOK
<1> QED
  BY <1>1, Invariance, PTL

\* With or without a newline at the end of the file, the coefficients train returns are
\* updated once by every row, in order, and those of the serial train once in every epoch.
THEOREM EveryRowCounts == Spec => []EveryRowTrainsOnce
<1>1. ASSUME IInv PROVE EveryRowTrainsOnce
  <2> USE <1>1
  <2>1. ASSUME routine = "train", pc = "done"
        PROVE  /\ coeffs = InTurn(Size) /\ count.rows = Size
               /\ count.ones = Cardinality({row \in 1 .. Size : training.labels[row] = 1})
    <3>1. PICK rows \in Nat : rows = Len(training.labels)
      BY Declared
    <3>2. Size = rows
      BY <2>1, <3>1 DEF Size
    <3>3. training.at - 1 = rows
      BY <2>1, <3>1 DEF IInv, TrainOK
    <3>4. /\ coeffs = InTurn(rows) /\ count.rows = rows
          /\ count.ones = HowMany(rows, Ones(training))
      BY <2>1, <3>3 DEF IInv, TrainOK
    <3>5. (1 .. rows) \cap Ones(training) = {row \in 1 .. rows : training.labels[row] = 1}
      BY DEF Ones
    <3> QED
      BY <3>2, <3>4, <3>5 DEF HowMany
  <2>2. routine = "serial train" =>
          coeffs = InTurn((pass * Len(training.labels)) + (training.at - 1))
    BY DEF IInv, SerialTrainOK
  <2> QED
    BY <2>1, <2>2 DEF EveryRowTrainsOnce
<1> QED
  BY <1>1, Invariance, PTL

\* In the middle of a pass the counters of threshold_tuning are those of the rows read in
\* this pass for this pass's threshold.
THEOREM CountsOfThisPass == Spec => []CountsAreOfThisPass
<1>1. ASSUME IInv PROVE CountsAreOfThisPass
  <2> USE <1>1
  <2>1. SUFFICES ASSUME pc = "tuning"
                 PROVE  LET rows == 1 .. rated.at - 1
                        IN /\ count.ones = Cardinality(Positive(rows))
                           /\ count.pos_all = Cardinality(Above(rows, pass))
                           /\ count.pos_correct = Cardinality(Above(rows, pass) \cap Positive(rows))
                           /\ pass > 0 /\ rated.at = 1 => ~rated.eof
    BY DEF CountsAreOfThisPass
  <2>2. routine = "tuning"
    BY <2>1, Places
  <2>3. PICK n \in Nat : n = rated.at - 1
    BY Declared
  <2>4. /\ count.ones = HowMany(n, Ones(rated)) /\ count.pos_all = HowMany(n, Reached(pass))
        /\ count.pos_correct = HowMany(n, Hit(pass))
        /\ rated.at = 1 => ~rated.eof
    BY <2>2, <2>3 DEF IInv, TuningOK
  <2>5. /\ (1 .. n) \cap Ones(rated) = Positive(1 .. n)
        /\ (1 .. n) \cap Reached(pass) = Above(1 .. n, pass)
        /\ (1 .. n) \cap Hit(pass) = Above(1 .. n, pass) \cap Positive(1 .. n)
    BY DEF Ones, Reached, Hit, Positive, Above
  <2> QED
    BY <2>3, <2>4, <2>5 DEF HowMany
<1> QED
  BY <1>1, Invariance, PTL

\* When threshold_tuning returns, no threshold has a larger F-measure over the whole file
\* than the one it reports.
THEOREM BestIsReported == Spec => []BestThresholdIsBest
<1>1. ASSUME IInv PROVE BestThresholdIsBest
  <2> USE <1>1
  <2>1. SUFFICES ASSUME routine = "tuning", pc = "done" PROVE BestThresholdIsBest
    BY DEF BestThresholdIsBest
  <2> DEFINE rows == DOMAIN rated.labels
             F(t) == <<2 * Cardinality(Above(rows, t) \cap Positive(rows)),
                       Cardinality(Above(rows, t)) + Cardinality(Positive(rows))>>
             Beats(t, u) == F(t)[1] * F(u)[2] > F(u)[1] * F(t)[2]
  <2>2. PICK n \in Nat : n = Whole /\ rows = 1 .. n
    BY Declared DEF Whole
  <2>3. pass = Thresholds /\ BestOK /\ FileOK(rated)
    BY <2>1, Declared DEF IInv, TuningOK
  <2>4. ASSUME NEW t PROVE F(t)[1] = Upper(t) /\ F(t)[2] = Lower(t)
    <3>1. /\ (1 .. n) \cap Ones(rated) = Positive(rows)
          /\ (1 .. n) \cap Reached(t) = Above(rows, t)
          /\ (1 .. n) \cap Hit(t) = Above(rows, t) \cap Positive(rows)
      BY <2>2 DEF Ones, Reached, Hit, Positive, Above
    <3> QED
      BY <2>2, <3>1 DEF HowMany, Upper, Lower
  <2>5. \A t : Upper(t) \in Nat /\ Lower(t) \in Nat
    BY <2>3, UpperLower
  <2>6. CASE Positive(rows) = {}
    <3>1. ASSUME NEW t PROVE Upper(t) = 0
      <4>1. (1 .. n) \cap Hit(t) = {}
        BY <2>2, <2>6 DEF Positive, Hit, Ones
      <4>2. HowMany(n, Hit(t)) = 0
        BY <4>1, FS_EmptySet DEF HowMany
      <4> QED
        BY <2>2, <4>2 DEF Upper
    <3>2. best.threshold = 0
      BY <2>3, <3>1 DEF BestOK
    <3> QED
      BY <2>6, <3>2 DEF BestThresholdIsBest
  <2>7. CASE Positive(rows) # {}
    <3>1. ASSUME NEW t \in 0 .. Thresholds - 1
          PROVE  Upper(t) * Lower(best.threshold) <= Upper(best.threshold) * Lower(t)
      <4>1. CASE /\ best.threshold = 0 /\ \A u \in 0 .. pass - 1 : Upper(u) = 0
        <5>1. Upper(t) = 0 /\ Upper(best.threshold) = 0
          BY <2>3, <4>1, RegressionAssumption
        <5>2. PICK l \in Nat, lb \in Nat : l = Lower(t) /\ lb = Lower(best.threshold)
          BY <2>5
        <5>3. 0 * lb <= 0 * l
          OBVIOUS
        <5> QED
          BY <5>1, <5>2, <5>3
      <4>2. CASE \A u \in 0 .. pass - 1 :
                   Upper(u) * Lower(best.threshold) <= Upper(best.threshold) * Lower(u)
        BY <2>3, <4>2
      <4> QED
        BY <2>3, <4>1, <4>2 DEF BestOK
    <3>2. ASSUME NEW t \in 0 .. Thresholds - 1 PROVE ~Beats(t, best.threshold)
      <4>1. PICK u \in Nat, l \in Nat, ub \in Nat, lb \in Nat :
              /\ u = Upper(t) /\ l = Lower(t)
              /\ ub = Upper(best.threshold) /\ lb = Lower(best.threshold)
        BY <2>5
      <4>2. u * lb <= ub * l
        BY <3>1, <4>1
      <4>3. ~(u * lb > ub * l)
        BY <4>2, NotBeaten
      <4>4. /\ F(t)[1] = u /\ F(t)[2] = l
            /\ F(best.threshold)[1] = ub /\ F(best.threshold)[2] = lb
        BY <2>4, <4>1
      <4> HIDE DEF F
      <4> QED
        BY <4>3, <4>4
    <3> QED
      BY <2>7, <3>2 DEF BestThresholdIsBest
  <2> QED
    BY <2>6, <2>7
<1> QED
  BY <1>1, Invariance, PTL

\* Files of any length: the accuracy test reports is over all rows if the last line ends
\* with a newline, that of the serial test in any case (routines.c:81-120, logreg.c).
THEOREM RowsOfTheTests == Spec => []TestsCountRows
<1>1. ASSUME IInv PROVE TestsCountRows
  <2> USE <1>1
  <2> DEFINE all == DOMAIN rated.labels
             TestRight == {row \in all : Reaches(row, Threshold) = rated.labels[row]}
             AllRight == {row \in all : Exceeds(row, Threshold) = rated.labels[row]}
  <2>1. PICK rows \in Nat : rows = Len(rated.labels) /\ all = 1 .. rows
    BY Declared
  <2>2. rated.labels = <<>> <=> rows = 0
    BY <2>1, Declared
  <2>3. ASSUME routine = "test", pc = "done", rated.newline
        PROVE  count.rows = Cardinality(all) /\ count.correct = Cardinality(TestRight)
    <3>1. PICK n \in 0 .. rows : n = Tested
      BY <2>1, <2>3, TestedRows
    <3>2. count.rows = n /\ count.correct = HowMany(n, TestedRight) /\ rated.eof
      BY <2>3, <3>1 DEF IInv, TestOK
    <3>3. all = 1 .. n
      <4>1. n = rows
        BY <2>1, <2>2, <2>3, <3>1, <3>2 DEF Tested
      <4> QED
        BY <2>1, <4>1
    <3>4. TestRight = (1 .. n) \cap TestedRight
      BY <3>3 DEF TestedRight
    <3>5. Cardinality(1 .. n) = n
      BY FS_Interval
    <3> QED
      BY <3>2, <3>3, <3>4, <3>5 DEF HowMany
  <2>4. ASSUME routine = "serial test", pc = "done"
        PROVE  count.rows = Cardinality(all) /\ count.correct = Cardinality(AllRight)
    <3>1. rated.at - 1 = rows
      <4>1. rated.at = rows + 1
        BY <2>1, <2>4 DEF IInv, SerialTestOK
      <4>2. (rows + 1) - 1 = rows
        OBVIOUS
      <4> QED
        BY <4>1, <4>2
    <3>2. count.rows = rows /\ count.correct = HowMany(rows, SerialRight)
      BY <2>4, <3>1 DEF IInv, SerialTestOK
    <3>3. AllRight = (1 .. rows) \cap SerialRight
      BY <2>1 DEF SerialRight
    <3>4. Cardinality(1 .. rows) = rows
      BY FS_Interval
    <3> QED
      BY <2>1, <3>2, <3>3, <3>4 DEF HowMany
  <2> HIDE DEF TestRight, AllRight
  <2> QED
    BY <2>3, <2>4 DEF TestsCountRows, TestRight, AllRight
<1> QED
  BY <1>1, Invariance, PTL
=============================================================================
