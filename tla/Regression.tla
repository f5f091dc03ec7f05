------------------------------ MODULE Regression ------------------------------
(***************************************************************************)
(* The routines that read files of labelled rows: train, test and          *)
(* threshold_tuning of multithreading/routines.c, and the serial train,    *)
(* validate and test of logreg.c that they replaced.                       *)
(*                                                                         *)
(* A row is its label and, for the coefficients of the moment, a score:    *)
(* 2t when its prediction is threshold t, 2t + 1 when it lies between t    *)
(* and the next.  Coefficients are the history of the rows they were       *)
(* updated with, and an epoch may lead to any scores.  A file is open at a *)
(* row; getline, feof and fseek are those of the C library.                *)
(***************************************************************************)
EXTENDS Integers, FiniteSets, SequencesExt

CONSTANTS MaxRows,          \* bound: rows in a file
          Thresholds,       \* 10000 in the code: thresholds are 0 .. Thresholds - 1
          Threshold,        \* the one test is called with, and that of logreg.c
          Epochs            \* EPOCHS

ASSUME RegressionAssumption ==
  /\ MaxRows \in Nat /\ Thresholds \in Nat \ {0} /\ Epochs \in Nat \ {0}
  /\ Threshold \in 0 .. Thresholds - 1

Scores == 0 .. 2 * Thresholds - 1
Routines == {"train", "test", "tuning", "serial train", "serial test"}

VARIABLES routine,          \* which of them is called
          training, rated,  \* the two files: the rows learned from, the rows predicted
          score,            \* of the rows of the second
          coeffs,           \* the updates so far
          pc,               \* the loop the routine is in
          pass,             \* epoch or threshold: i
          line_buffer,      \* of test: the row read and not yet used, 0 for none
          count,            \* the counters
          best              \* best_f_measure, threshold_for_best_f_measure

vars == <<routine, training, rated, score, coeffs, pc, pass, line_buffer, count, best>>

Labels == SeqOf({0, 1}, MaxRows)
\* A file whose last line may lack its newline.
NewFile(labels, newline) == [labels |-> labels, newline |-> newline, at |-> 1, eof |-> FALSE]

\* The row getline returns, 0 for -1, and the file after it: the end is noticed when
\* it is hit, which the last line does only without a newline.
Line(file) == IF file.at <= Len(file.labels) THEN file.at ELSE 0
Getline(file) ==
  IF Line(file) = 0 THEN [file EXCEPT !.eof = TRUE]
  ELSE [file EXCEPT !.at = @ + 1, !.eof = file.at = Len(file.labels) /\ ~file.newline]
Fseek(file) == [file EXCEPT !.at = 1, !.eof = FALSE]

NoCount == [rows |-> 0, ones |-> 0, correct |-> 0, pos_all |-> 0, pos_correct |-> 0]
FirstLoop == CASE routine = "test" -> "first line"
               [] routine = "serial train" -> "epoch"
               [] OTHER -> routine

AnyScores == [1 .. Len(rated.labels) -> Scores]
Reads(files, labels, newline) == IF routine \in files THEN NewFile(labels, newline)
                                 ELSE NewFile(<<>>, TRUE)
Init ==
  /\ routine \in Routines
  /\ \E labels, others \in Labels, newline \in BOOLEAN :
       /\ training = Reads({"train", "serial train"}, labels, newline)
       /\ rated = Reads(Routines \ {"train"}, others, newline)
  /\ IF routine = "serial train" THEN score = [row \in DOMAIN rated.labels |-> 0]
     ELSE score \in AnyScores
  /\ coeffs = <<>> /\ pc = FirstLoop /\ pass = 0 /\ line_buffer = 0
  /\ count = NoCount /\ best = [f |-> <<0, 1>>, threshold |-> 0]

-----------------------------------------------------------------------------
(* train of the scheduler's threads *)

update_coefficients(row) == Append(coeffs, row)

TrainRow ==
  /\ pc = "train" /\ ~training.eof /\ Line(training) # 0
  /\ training' = Getline(training)
  /\ coeffs' = update_coefficients(Line(training))
  /\ count' = [count EXCEPT !.rows = @ + 1, !.ones = @ + training.labels[Line(training)]]
  /\ UNCHANGED <<routine, rated, score, pc, pass, line_buffer, best>>

TrainReturn ==
  /\ pc = "train" /\ (training.eof \/ Line(training) = 0)
  /\ training' = IF training.eof THEN training ELSE Getline(training)
  /\ pc' = "done"
  /\ UNCHANGED <<routine, rated, score, coeffs, pass, line_buffer, count, best>>

-----------------------------------------------------------------------------
(* test of the scheduler's threads: a line is read before the end of the   *)
(* file is asked for, and used after.                                      *)

\* The counters after a row was predicted to be of label p.
Rate(row, p) ==
  LET hit == IF p = rated.labels[row] THEN 1 ELSE 0
  IN [count EXCEPT !.rows = @ + 1, !.correct = @ + hit, !.pos_correct = @ + hit * p]
Reaches(row, t) == IF score[row] >= 2 * t THEN 1 ELSE 0
Exceeds(row, t) == IF score[row] > 2 * t THEN 1 ELSE 0

NothingLeft(file) == Line(file) = 0      \* mutant: asks for another line, not for feof
AtEnd(file) == file.eof

ReadFirst ==
  /\ pc = "first line"
  /\ line_buffer' = Line(rated) /\ rated' = Getline(rated)
  /\ pc' = "test"
  /\ UNCHANGED <<routine, training, score, coeffs, pass, count, best>>

\* When getline fails the line stays in the buffer.
TestRow ==
  /\ pc = "test" /\ ~AtEnd(rated)
  /\ count' = Rate(line_buffer, Reaches(line_buffer, Threshold))
  /\ line_buffer' = IF Line(rated) = 0 THEN line_buffer ELSE Line(rated)
  /\ rated' = Getline(rated)
  /\ UNCHANGED <<routine, training, score, coeffs, pc, pass, best>>

TestReturn ==
  /\ pc = "test" /\ AtEnd(rated)
  /\ pc' = "done"
  /\ UNCHANGED <<routine, training, rated, score, coeffs, pass, line_buffer, count, best>>

-----------------------------------------------------------------------------
(* threshold_tuning: one pass over the file for every threshold. *)

TuneRow ==
  /\ pc = "tuning" /\ pass < Thresholds /\ ~rated.eof /\ Line(rated) # 0
  /\ LET label == rated.labels[Line(rated)]
         above == Reaches(Line(rated), pass)
     IN count' = [count EXCEPT !.ones = @ + label, !.pos_all = @ + above,
                               !.pos_correct = @ + above * label]
  /\ rated' = Getline(rated)
  /\ UNCHANGED <<routine, training, score, coeffs, pc, pass, line_buffer, best>>

\* 2PR / (P + R) for precision P = c / a and recall R = c / l, as a fraction; with
\* c = 0 it is 0 / 0, which is not larger than anything.
PrecisionOnly(c, a, l) == <<c, a>>                  \* mutant: recall left out
FMeasure(c, a, l) == <<2 * c, a + l>>
Larger(f, g) == f[1] > 0 /\ f[1] * g[2] > g[1] * f[2]

\* The counters of the next pass.
CountsKept == count                                 \* mutant: lines 222-224 missing
CountsReset == NoCount
EndOfPass ==
  /\ pc = "tuning" /\ pass < Thresholds /\ (rated.eof \/ Line(rated) = 0)
  /\ LET f == FMeasure(count.pos_correct, count.pos_all, count.ones)
     IN best' = IF Larger(f, best.f) THEN [f |-> f, threshold |-> pass] ELSE best
  /\ rated' = Fseek(rated)
  /\ count' = CountsReset
  /\ pass' = pass + 1
  /\ pc' = IF pass' = Thresholds THEN "done" ELSE pc
  /\ UNCHANGED <<routine, training, score, coeffs, line_buffer>>

-----------------------------------------------------------------------------
(* The serial routines: every row updates the coefficients that the next   *)
(* one is predicted with, and every epoch is followed by a validation.     *)

EpochRow ==
  /\ pc = "epoch" /\ Line(training) # 0
  /\ training' = Getline(training)
  /\ coeffs' = update_coefficients(Line(training))
  /\ count' = IF pass # 0 THEN count
              ELSE [count EXCEPT !.rows = @ + 1, !.ones = @ + training.labels[Line(training)]]
  /\ UNCHANGED <<routine, rated, score, pc, pass, line_buffer, best>>

\* The statistics are printed; validate opens its file.
EndOfEpoch ==
  /\ pc = "epoch" /\ Line(training) = 0
  /\ training' = Getline(training)
  /\ score' \in AnyScores
  /\ count' = NoCount
  /\ pc' = "validate"
  /\ UNCHANGED <<routine, rated, coeffs, pass, line_buffer, best>>

\* A row of validate or of test, which also count the ones.
CountRow(place) ==
  /\ pc = place /\ Line(rated) # 0
  /\ count' = [Rate(Line(rated), Exceeds(Line(rated), Threshold))
                EXCEPT !.ones = @ + rated.labels[Line(rated)]]
  /\ rated' = Getline(rated)
  /\ UNCHANGED <<routine, training, score, coeffs, pc, pass, line_buffer, best>>
ValidateRow == CountRow("validate")
SerialTestRow == CountRow("serial test")

\* Back in train: the next epoch, for which validate opens its file again.
NotRewound(file) == file                            \* mutant: line 72 missing
Again(file) == Fseek(file)
EndOfValidate ==
  /\ pc = "validate" /\ Line(rated) = 0
  /\ training' = Again(training)
  /\ rated' = Fseek(rated)
  /\ count' = NoCount
  /\ pass' = pass + 1
  /\ pc' = IF pass' = Epochs THEN "done" ELSE "epoch"
  /\ UNCHANGED <<routine, score, coeffs, line_buffer, best>>

EndOfSerialTest ==
  /\ pc = "serial test" /\ Line(rated) = 0
  /\ rated' = Getline(rated)
  /\ pc' = "done"
  /\ UNCHANGED <<routine, training, score, coeffs, pass, line_buffer, count, best>>

Done == pc = "done" /\ UNCHANGED vars

Step ==
  \/ TrainRow \/ TrainReturn
  \/ ReadFirst \/ TestRow \/ TestReturn
  \/ TuneRow \/ EndOfPass
  \/ EpochRow \/ EndOfEpoch \/ ValidateRow \/ EndOfValidate
  \/ SerialTestRow \/ EndOfSerialTest
Next == Step \/ Done

Spec == Init /\ [][Next]_vars

-----------------------------------------------------------------------------
(* Properties *)

Size == IF routine \in {"train", "serial train"} /\ pc # "validate" THEN Len(training.labels)
        ELSE Len(rated.labels)
\* n rows of the training file, in order and from the first one again after the last.
InTurn(n) == [k \in 1 .. n |-> ((k - 1) % Len(training.labels)) + 1]

\* The type invariant: no counter exceeds the rows of the file it is about.
TypeOK ==
  /\ routine \in Routines
  /\ \A file \in {training, rated} :
       file.at \in 1 .. Len(file.labels) + 1 /\ file.eof \in BOOLEAN
  /\ score \in AnyScores
  /\ pass \in 0 .. (IF routine = "tuning" THEN Thresholds ELSE Epochs)
  /\ line_buffer \in 0 .. Len(rated.labels)
  /\ count \in [DOMAIN NoCount -> 0 .. Size]
  /\ best.threshold \in 0 .. Thresholds - 1

\* The coefficients are those of every row of the training file, in order, once for
\* every epoch: with or without a newline at its end, no row is left out or used
\* twice, and the epochs after the first read the file again (routines.c train,
\* logreg.c train).
EveryRowTrainsOnce ==
  /\ routine = "train" /\ pc = "done" =>
       /\ coeffs = InTurn(Size) /\ count.rows = Size
       /\ count.ones = Cardinality({row \in 1 .. Size : training.labels[row] = 1})
  /\ routine = "serial train" =>
       coeffs = InTurn((pass * Len(training.labels)) + (training.at - 1))

Above(rows, t) == {row \in rows : score[row] >= 2 * t}
Positive(rows) == {row \in rows : rated.labels[row] = 1}

\* In the middle of a pass over the file, the counters of threshold_tuning are those of
\* the rows read in this pass for this pass's threshold: nothing of an earlier
\* threshold is left in them or in the position of the file.
CountsAreOfThisPass ==
  pc = "tuning" =>
    LET rows == 1 .. rated.at - 1
    IN /\ count.ones = Cardinality(Positive(rows))
       /\ count.pos_all = Cardinality(Above(rows, pass))
       /\ count.pos_correct = Cardinality(Above(rows, pass) \cap Positive(rows))
       /\ pass > 0 /\ rated.at = 1 => ~rated.eof

\* threshold_tuning reports a threshold that no other one beats in F-measure over the
\* whole file, and the first one when none has an F-measure at all, in spite of the
\* divisions by zero of the thresholds that nothing reaches.
BestThresholdIsBest ==
  routine = "tuning" /\ pc = "done" =>
    LET rows == DOMAIN rated.labels
        F(t) == <<2 * Cardinality(Above(rows, t) \cap Positive(rows)),
                  Cardinality(Above(rows, t)) + Cardinality(Positive(rows))>>
        Beats(t, u) == F(t)[1] * F(u)[2] > F(u)[1] * F(t)[2]
    IN IF Positive(rows) = {} THEN best.threshold = 0
       ELSE \A t \in 0 .. Thresholds - 1 : ~Beats(t, best.threshold)

\* The accuracy is over every row of the file, once: that of the serial test for any
\* file, that of test for files whose last line ends, too (routines.c test, logreg.c
\* test and validate).
TestsCountRows ==
  pc = "done" =>
    LET rows == DOMAIN rated.labels
        Right(Predicted(_, _)) ==
          {row \in rows : Predicted(row, Threshold) = rated.labels[row]}
    IN /\ routine = "test" /\ rated.newline => /\ count.rows = Cardinality(rows)
                                              /\ count.correct = Cardinality(Right(Reaches))
       /\ routine = "serial test" => /\ count.rows = Cardinality(rows)
                                     /\ count.correct = Cardinality(Right(Exceeds))

\* What test returns for its thread's slot of thread_predictions is how many lines the
\* file has (scheduler.h:43-45, README.md:110), whatever its last line ends with.
TestCountsEveryLine ==
  routine = "test" /\ pc = "done" => count.rows = Len(rated.labels)
=============================================================================
