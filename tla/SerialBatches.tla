---------------------------- MODULE SerialBatches ---------------------------
(***************************************************************************)
(* What the scheduler promises to its caller: the jobs are processed as if *)
(* by one thread, batch after batch of BatchSize jobs in the order they    *)
(* were submitted.  A training batch makes one update of the coefficients, *)
(* from all its jobs, each computed from the coefficients the previous     *)
(* batch left; a testing batch is counted once, with the coefficients the  *)
(* training left.  The caller may take over when every batch but the last  *)
(* has been accounted for.                                                 *)
(***************************************************************************)
EXTENDS Integers, Sequences

CONSTANTS BatchSize, TrainingJobs, NJobs

VARIABLES coefficients,     \* the updates made, each the set of its contributions
          tested,           \* the testing batches counted
          handedOver        \* the caller has read the accuracy

svars == <<coefficients, tested, handedOver>>

Processed == Len(coefficients) + Len(tested)
NextBatch == {j \in 0 .. NJobs - 1 : j \div BatchSize = Processed}
Outcome == {[job |-> j, base |-> Len(coefficients), done |-> TRUE] : j \in NextBatch}

Init == coefficients = <<>> /\ tested = <<>> /\ handedOver = FALSE

Train ==
  /\ ~handedOver /\ NextBatch # {} /\ \A j \in NextBatch : j < TrainingJobs
  /\ coefficients' = Append(coefficients, Outcome)
  /\ UNCHANGED <<tested, handedOver>>

Test ==
  /\ ~handedOver /\ NextBatch # {} /\ \A j \in NextBatch : j >= TrainingJobs
  /\ tested' = Append(tested, Outcome)
  /\ UNCHANGED <<coefficients, handedOver>>

HandOver ==
  /\ ~handedOver /\ (Processed + 1) * BatchSize >= NJobs
  /\ handedOver' = TRUE
  /\ UNCHANGED <<coefficients, tested>>

\* The caller's own update (conflict resolution).
CallerUpdate ==
  /\ handedOver
  /\ coefficients' = Append(coefficients, {})
  /\ UNCHANGED <<tested, handedOver>>

Next == Train \/ Test \/ HandOver \/ CallerUpdate
Spec == Init /\ [][Next]_svars
=============================================================================
