------------------------- MODULE JobSchedulerProofs -------------------------
(***************************************************************************)
(* Theorems about JobScheduler, for any set of threads, any number of      *)
(* files and epochs, either wakeup order and any number of spurious        *)
(* wakeups: type correctness, the agreement of the completion counter with *)
(* the turns, the quiet state in which the main thread aggregates, the     *)
(* stability of the coefficients under a running worker, the rounds, the   *)
(* refinement of SerialBatches, and progress: signals are passed on, there *)
(* is no standstill, and every step leaves fewer steps to do.              *)
(***************************************************************************)
EXTENDS JobScheduler, FiniteSetTheorems, WellFoundedInduction, TLAPS

\* Who owns the locks, by where the threads are.
LockOwners ==
  Running =>
  /\ T = Main <=> pcM \in {"checkDone", "acquireC", "reset"}
  /\ C = Main <=> pcM = "reset"
  /\ \A t \in Threads : C = t <=> pc[t] \in {"checkTurn", "passTurn"}

Parked(t) == pc[t] \in {"acquireC", "checkTurn", "waiting"}

\* A thread without a turn is parked; a parked thread has no job; and a slot is
\* unfinished only while its thread is in the routine.
PlacesMatchTurns ==
  \A t \in Threads : /\ time_to_work[t] = 0 => Parked(t)
                     /\ Parked(t) \/ pc[t] = "unborn" => aJob[t] = NoJob
                     /\ pc[t] # "compute" => result[t].done

\* The inductive invariant.
IInv == TypeOK /\ LockOwners /\ PlacesMatchTurns /\ CountMatchesTurns
                /\ StableCoefficients

-----------------------------------------------------------------------------
\* The numbers the constants give rise to.
LEMMA ConstantTypes == N \in Nat /\ TrainingJobs \in Nat /\ NJobs \in Nat
<1>1. N \in Nat
  BY ThreadsAssumption, FS_CardinalityType DEF N
<1>2. TrainingJobs \in Nat
  BY FilesAssumption DEF TrainingJobs
<1> QED
  BY <1>1, <1>2, FilesAssumption DEF NJobs

\* A signal wakes only threads that wait.
LEMMA WokenWait ==
  ASSUME NEW W \in Woken
  PROVE  W \subseteq Threads /\ \A t \in W : pc[t] = "waiting"
BY DEF Woken, Wakeable, Waiting

\* The initial state satisfies the inductive invariant.
LEMMA InitInv == Init => IInv
<1> SUFFICES ASSUME Init PROVE IInv
  OBVIOUS
<1>1. TypeOK
  BY WakeupAssumption, ConstantTypes
  DEF Init, TypeOK, WorkerPC, Executing, Contribution, BatchFiles
<1>2. LockOwners
  BY ThreadsAssumption DEF Init, LockOwners, Free, Main
<1>3. PlacesMatchTurns
  BY DEF Init, PlacesMatchTurns, Parked
<1>4. CountMatchesTurns
  <2>1. {t \in Threads : time_to_work[t] = 0} = {}
    BY DEF Init
  <2> QED
    BY <2>1, FS_EmptySet DEF Init, CountMatchesTurns
<1>5. StableCoefficients
  BY DEF Init, StableCoefficients
<1> QED
  BY <1>1, <1>2, <1>3, <1>4, <1>5 DEF IInv

-----------------------------------------------------------------------------
\* When the counter has reached N outside the aggregation, every turn is over,
\* so every thread is parked.
LEMMA AllCompleteAllParked ==
  ASSUME TypeOK, PlacesMatchTurns, CountMatchesTurns, AllComplete,
         pcM = "checkDone"
  PROVE  \A t \in Threads : time_to_work[t] = 0 /\ Parked(t)
<1> DEFINE Over == {t \in Threads : time_to_work[t] = 0}
<1>1. Cardinality(Over) = Cardinality(Threads)
  BY DEF CountMatchesTurns, AllComplete, N, Running, Ended
<1>2. Over = Threads
  BY <1>1, ThreadsAssumption, FS_Subset
<1> QED
  BY <1>2 DEF PlacesMatchTurns

\* Every step preserves the inductive invariant.
LEMMA NextInv == IInv /\ [Next]_vars => IInv'
<1> SUFFICES ASSUME IInv, [Next]_vars PROVE IInv'
  OBVIOUS
<1> USE ThreadsAssumption, ConstantTypes
<1> USE DEF IInv, vars, schVars, dataVars, mainVars, At, Running
<1> USE DEF Executing, AfterJobs, Ended, WorkerPC, Main, Free
<1>1. ASSUME NEW t \in Threads, AcquireC(t) PROVE IInv'
  BY <1>1
  DEF AcquireC, TypeOK, LockOwners, PlacesMatchTurns, Parked,
      CountMatchesTurns, StableCoefficients
<1>2. ASSUME NEW t \in Threads, WaitTurn(t) PROVE IInv'
  <2>1. TypeOK'
    BY <1>2 DEF WaitTurn, Waiting, TypeOK, Contribution
  <2>2. LockOwners'
    BY <1>2 DEF WaitTurn, Waiting, TypeOK, LockOwners
  <2>3. PlacesMatchTurns'
    BY <1>2 DEF WaitTurn, Waiting, TypeOK, PlacesMatchTurns, Parked, Contribution
  <2>4. CountMatchesTurns'
    BY <1>2 DEF WaitTurn, Waiting, TypeOK, CountMatchesTurns
  <2>5. StableCoefficients'
    BY <1>2 DEF WaitTurn, Waiting, TypeOK, StableCoefficients
  <2> QED
    BY <2>1, <2>2, <2>3, <2>4, <2>5
<1>3. ASSUME NEW t \in Threads, TakeJob(t) PROVE IInv'
  <2>1. TypeOK'
    <3>1. CASE queue = <<>>
      BY <1>3, <3>1 DEF TakeJob, queue_empty, queue_remove, TypeOK
    <3>2. CASE queue # <<>>
      <4>1. Head(queue) \in JobIds /\ Tail(queue) \in Seq(JobIds)
        BY <3>2 DEF TypeOK
      <4> QED
        BY <1>3, <3>2, <4>1 DEF TakeJob, queue_empty, queue_remove, TypeOK
    <3> QED
      BY <3>1, <3>2
  <2>2. LockOwners'
    BY <1>3 DEF TakeJob, queue_empty, queue_remove, TypeOK, LockOwners
  <2>3. PlacesMatchTurns'
    BY <1>3 DEF TakeJob, queue_empty, queue_remove, TypeOK, PlacesMatchTurns, Parked, Contribution
  <2>4. CountMatchesTurns'
    BY <1>3 DEF TakeJob, queue_empty, queue_remove, TypeOK, CountMatchesTurns
  <2>5. StableCoefficients'
    BY <1>3 DEF TakeJob, queue_empty, queue_remove, TypeOK, StableCoefficients
  <2> QED
    BY <2>1, <2>2, <2>3, <2>4, <2>5
<1>4. ASSUME NEW t \in Threads, PassTurn(t) PROVE IInv'
  <2>1. TypeOK'
    BY <1>4 DEF PassTurn, Wake, PcAfterWake, TypeOK, Contribution
  <2>2. LockOwners'
    BY <1>4 DEF PassTurn, Wake, PcAfterWake, TypeOK, LockOwners
  <2>3. PlacesMatchTurns'
    <3>1. PICK W \in Woken : pc' = [PcAfterWake(W) EXCEPT ![t] =
                   CASE aJob[t] = NoJob     -> "returned"
                     [] aJob[t] # NoJob /\ IsTraining(aJob[t])  -> "start"
                     [] aJob[t] # NoJob /\ ~IsTraining(aJob[t]) -> "leaveTraining"]
      BY <1>4 DEF PassTurn
    <3>2. W \subseteq Threads /\ \A u \in W : pc[u] = "waiting"
      BY <3>1, WokenWait
    <3> QED
      BY <1>4, <3>1, <3>2
      DEF PassTurn, PcAfterWake, TypeOK, PlacesMatchTurns, Parked
  <2>4. CountMatchesTurns'
    BY <1>4 DEF PassTurn, Wake, PcAfterWake, TypeOK, CountMatchesTurns
  <2>5. StableCoefficients'
    BY <1>4 DEF PassTurn, Wake, PcAfterWake, TypeOK, StableCoefficients
  <2> QED
    BY <2>1, <2>2, <2>3, <2>4, <2>5
<1>5. ASSUME NEW t \in Threads, LeaveTraining(t) PROVE IInv'
  BY <1>5
  DEF LeaveTraining, TypeOK, LockOwners, PlacesMatchTurns, Parked,
      CountMatchesTurns, StableCoefficients
<1>6. ASSUME NEW t \in Threads, StartJob(t) PROVE IInv'
  <2>1. TypeOK'
    <3>1. CASE FileName(aJob[t]) \in files
      <4>1. [job |-> aJob[t], base |-> Len(coefficients), done |-> FALSE]
              \in Contribution
        BY DEF TypeOK, Contribution
      <4>2. result' \in [Threads -> Contribution]
        BY <1>6, <3>1, <4>1 DEF StartJob, TypeOK
      <4> QED
        BY <1>6, <3>1, <4>2 DEF StartJob, TypeOK
    <3>2. CASE FileName(aJob[t]) \notin files
      BY <1>6, <3>2 DEF StartJob, TypeOK
    <3> QED
      BY <3>1, <3>2
  <2>2. LockOwners'
    <3>1. CASE FileName(aJob[t]) \in files
      BY <1>6, <3>1 DEF StartJob, TypeOK, LockOwners
    <3>2. CASE FileName(aJob[t]) \notin files
      BY <1>6, <3>2 DEF StartJob, TypeOK, LockOwners
    <3> QED
      BY <3>1, <3>2
  <2>3. PlacesMatchTurns'
    <3>1. CASE FileName(aJob[t]) \in files
      <4>1. /\ pc' = [pc EXCEPT ![t] = "compute"] /\ pc[t] = "start"
            /\ result' = [result EXCEPT ![t] = result'[t]]
            /\ UNCHANGED <<time_to_work, aJob>>
        BY <1>6, <3>1 DEF StartJob, TypeOK
      <4>2. pc \in [Threads -> WorkerPC] /\ result \in [Threads -> Contribution]
        BY DEF TypeOK
      <4> QED
        BY <4>1, <4>2 DEF PlacesMatchTurns, Parked
    <3>2. CASE FileName(aJob[t]) \notin files
      BY <1>6, <3>2 DEF StartJob, TypeOK, PlacesMatchTurns, Parked, Contribution
    <3> QED
      BY <3>1, <3>2
  <2>4. CountMatchesTurns'
    <3>1. CASE FileName(aJob[t]) \in files
      BY <1>6, <3>1 DEF StartJob, TypeOK, CountMatchesTurns
    <3>2. CASE FileName(aJob[t]) \notin files
      BY <1>6, <3>2 DEF StartJob, TypeOK, CountMatchesTurns
    <3> QED
      BY <3>1, <3>2
  <2>5. StableCoefficients'
    <3>1. CASE FileName(aJob[t]) \in files
      BY <1>6, <3>1 DEF StartJob, TypeOK, StableCoefficients
    <3>2. CASE FileName(aJob[t]) \notin files
      BY <1>6, <3>2 DEF StartJob, TypeOK, StableCoefficients
    <3> QED
      BY <3>1, <3>2
  <2> QED
    BY <2>1, <2>2, <2>3, <2>4, <2>5
<1>7. ASSUME NEW t \in Threads, FinishJob(t) PROVE IInv'
  <2>1. TypeOK'
    BY <1>7 DEF FinishJob, TypeOK, Contribution
  <2>2. LockOwners'
    BY <1>7 DEF FinishJob, TypeOK, LockOwners
  <2>3. PlacesMatchTurns'
    BY <1>7 DEF FinishJob, TypeOK, PlacesMatchTurns, Parked, Contribution
  <2>4. CountMatchesTurns'
    BY <1>7 DEF FinishJob, TypeOK, CountMatchesTurns
  <2>5. StableCoefficients'
    BY <1>7 DEF FinishJob, TypeOK, StableCoefficients
  <2> QED
    BY <2>1, <2>2, <2>3, <2>4, <2>5
<1>8. ASSUME NEW t \in Threads, Complete(t) PROVE IInv'
  <2>1. TypeOK'
    <3> DEFINE Over == {u \in Threads : time_to_work[u] = 0}
    <3>1. threads_complete = Cardinality(Over)
      BY <1>8 DEF Complete, LockOwners, CountMatchesTurns
    <3>2. t \notin Over /\ Over \cup {t} \subseteq Threads
      BY <1>8 DEF Complete, PlacesMatchTurns, Parked
    <3>3. IsFiniteSet(Over) /\ Cardinality(Over \cup {t}) <= N
      BY <3>2, FS_Subset DEF N
    <3>4. Cardinality(Over \cup {t}) = Cardinality(Over) + 1
      BY <3>2, <3>3, FS_AddElement
    <3>5. Cardinality(Over) \in Nat
      BY <3>3, FS_CardinalityType
    <3>6. threads_complete' \in 0 .. N
      BY <1>8, <3>1, <3>3, <3>4, <3>5 DEF Complete
    <3> QED
      BY <1>8, <3>6 DEF Complete, TurnTaken, TypeOK
  <2>2. LockOwners'
    BY <1>8 DEF Complete, TurnTaken, TypeOK, LockOwners
  <2>3. PlacesMatchTurns'
    BY <1>8 DEF Complete, TurnTaken, TypeOK, PlacesMatchTurns, Parked, Contribution
  <2>4. CountMatchesTurns'
    <3> DEFINE Over == {u \in Threads : time_to_work[u] = 0}
    <3>1. time_to_work[t] # 0
      BY <1>8 DEF Complete, PlacesMatchTurns, Parked
    <3>2. Over' = Over \cup {t}
      BY <1>8 DEF Complete, TurnTaken, TypeOK
    <3>3. IsFiniteSet(Over)
      BY FS_Subset
    <3>4. Cardinality(Over') = Cardinality(Over) + 1
      BY <3>1, <3>2, <3>3, FS_AddElement
    <3>5. pcM \notin {"acquireC", "reset"} /\ pcM' \notin {"acquireC", "reset"}
      BY <1>8 DEF Complete, LockOwners
    <3> QED
      BY <1>8, <3>4, <3>5 DEF Complete, CountMatchesTurns
  <2>5. StableCoefficients'
    BY <1>8 DEF Complete, TurnTaken, TypeOK, StableCoefficients
  <2> QED
    BY <2>1, <2>2, <2>3, <2>4, <2>5
<1>9. ASSUME NEW t \in Threads, SpuriousWakeup(t) PROVE IInv'
  <2>1. TypeOK'
    BY <1>9, WakeupAssumption DEF SpuriousWakeup, Wake, PcAfterWake, TypeOK, Contribution
  <2>2. LockOwners'
    BY <1>9 DEF SpuriousWakeup, Wake, PcAfterWake, TypeOK, LockOwners
  <2>3. PlacesMatchTurns'
    BY <1>9 DEF SpuriousWakeup, Wake, PcAfterWake, TypeOK, PlacesMatchTurns, Parked, Contribution
  <2>4. CountMatchesTurns'
    BY <1>9 DEF SpuriousWakeup, Wake, PcAfterWake, TypeOK, CountMatchesTurns
  <2>5. StableCoefficients'
    BY <1>9 DEF SpuriousWakeup, Wake, PcAfterWake, TypeOK, StableCoefficients
  <2> QED
    BY <2>1, <2>2, <2>3, <2>4, <2>5
<1>10. CASE Submit
  <2>1. TypeOK'
    <3>1. Len(queue) \in JobIds
      BY <1>10 DEF Submit, queue_insert, TypeOK, JobIds
    <3>2. Append(queue, Len(queue)) \in Seq(JobIds)
      BY <3>1 DEF TypeOK
    <3> QED
      BY <1>10, <3>2 DEF Submit, queue_insert, TypeOK
  <2>2. LockOwners'
    BY <1>10 DEF Submit, queue_insert, TypeOK, LockOwners
  <2>3. PlacesMatchTurns'
    BY <1>10 DEF Submit, queue_insert, TypeOK, PlacesMatchTurns, Parked, Contribution
  <2>4. CountMatchesTurns'
    BY <1>10 DEF Submit, queue_insert, TypeOK, CountMatchesTurns
  <2>5. StableCoefficients'
    BY <1>10 DEF Submit, queue_insert, TypeOK, StableCoefficients
  <2> QED
    BY <2>1, <2>2, <2>3, <2>4, <2>5
<1>11. CASE Execute
  BY <1>11
  DEF Execute, TypeOK, LockOwners, PlacesMatchTurns, Parked,
      CountMatchesTurns, StableCoefficients
<1>12. CASE CreateThread
  <2>1. TypeOK'
    BY <1>12 DEF CreateThread, TypeOK, Contribution
  <2>2. LockOwners'
    BY <1>12 DEF CreateThread, TypeOK, LockOwners
  <2>3. PlacesMatchTurns'
    BY <1>12 DEF CreateThread, TypeOK, PlacesMatchTurns, Parked, Contribution
  <2>4. CountMatchesTurns'
    BY <1>12 DEF CreateThread, TypeOK, CountMatchesTurns
  <2>5. StableCoefficients'
    BY <1>12 DEF CreateThread, TypeOK, StableCoefficients
  <2> QED
    BY <2>1, <2>2, <2>3, <2>4, <2>5
<1>13. CASE MainAcquireT
  BY <1>13
  DEF MainAcquireT, TypeOK, LockOwners, PlacesMatchTurns, Parked,
      CountMatchesTurns, StableCoefficients
<1>14. CASE MainWait
  BY <1>14
  DEF MainWait, AllComplete, TypeOK, LockOwners, PlacesMatchTurns, Parked,
      CountMatchesTurns, StableCoefficients
<1>15. CASE MainSpuriousWakeup
  BY <1>15, WakeupAssumption
  DEF MainSpuriousWakeup, TypeOK, LockOwners, PlacesMatchTurns, Parked,
      CountMatchesTurns, StableCoefficients
<1>16. CASE Aggregate
  <2>1. TypeOK'
    <3> DEFINE slots == {result[t] : t \in Threads}
    <3>1. slots \in SUBSET Contribution
      BY DEF TypeOK
    <3>2. /\ Append(coefficients, slots) \in Seq(SUBSET Contribution)
          /\ Append(tested, slots) \in Seq(SUBSET Contribution)
      BY <3>1 DEF TypeOK
    <3>3. /\ coefficients' \in Seq(SUBSET Contribution)
          /\ tested' \in Seq(SUBSET Contribution)
      BY <1>16, <3>2 DEF Aggregate, TypeOK
    <3>4. threads_complete' \in 0 .. N
      BY <1>16 DEF Aggregate, CountForNextRound
    <3> QED
      BY <1>16, <3>3, <3>4 DEF Aggregate, TypeOK
  <2>2. LockOwners'
    BY <1>16 DEF Aggregate, AllComplete, CountForNextRound, TypeOK, LockOwners
  <2>3. PlacesMatchTurns'
    BY <1>16 DEF Aggregate, AllComplete, CountForNextRound, TypeOK, PlacesMatchTurns, Parked, Contribution
  <2>4. CountMatchesTurns'
    BY <1>16, AllCompleteAllParked
    DEF Aggregate, CountForNextRound, CountMatchesTurns
  <2>5. StableCoefficients'
    BY <1>16, AllCompleteAllParked
    DEF Aggregate, StableCoefficients, Parked
  <2> QED
    BY <2>1, <2>2, <2>3, <2>4, <2>5
<1>17. CASE MainAcquireC
  BY <1>17
  DEF MainAcquireC, TypeOK, LockOwners, PlacesMatchTurns, Parked,
      CountMatchesTurns, StableCoefficients
<1>18. CASE ResetTurns
  <2>1. TypeOK'
    BY <1>18 DEF ResetTurns, Wake, PcAfterWake, TypeOK, Contribution
  <2>2. LockOwners'
    BY <1>18 DEF ResetTurns, Wake, PcAfterWake, TypeOK, LockOwners
  <2>3. PlacesMatchTurns'
    <3>1. PICK W \in Woken : pc' = PcAfterWake(W)
      BY <1>18 DEF ResetTurns
    <3>2. W \subseteq Threads /\ \A u \in W : pc[u] = "waiting"
      BY <3>1, WokenWait
    <3> QED
      BY <1>18, <3>1, <3>2
      DEF ResetTurns, PcAfterWake, TypeOK, PlacesMatchTurns, Parked
  <2>4. CountMatchesTurns'
    <3>1. {t \in Threads : time_to_work'[t] = 0} = {}
      BY <1>18 DEF ResetTurns
    <3> QED
      BY <1>18, <3>1, FS_EmptySet DEF ResetTurns, CountMatchesTurns
  <2>5. StableCoefficients'
    BY <1>18 DEF ResetTurns, Wake, PcAfterWake, TypeOK, StableCoefficients
  <2> QED
    BY <2>1, <2>2, <2>3, <2>4, <2>5
<1>19. CASE CheckQueue
  BY <1>19
  DEF CheckQueue, NothingQueued, queue_empty, TypeOK, LockOwners, PlacesMatchTurns, Parked,
      CountMatchesTurns, StableCoefficients
<1>20. CASE RemoveFile
  BY <1>20
  DEF RemoveFile, TypeOK, LockOwners, PlacesMatchTurns, Parked,
      CountMatchesTurns, StableCoefficients
<1>21. CASE ReportAccuracy
  BY <1>21
  DEF ReportAccuracy, TypeOK, LockOwners, PlacesMatchTurns, Parked,
      CountMatchesTurns, StableCoefficients
<1>22. CASE ResolveConflicts
  <2>1. TypeOK'
    <3>1. Append(coefficients, {}) \in Seq(SUBSET Contribution)
      BY DEF TypeOK
    <3> QED
      BY <1>22, <3>1 DEF ResolveConflicts, TypeOK
  <2>2. LockOwners'
    BY <1>22 DEF ResolveConflicts, TypeOK, LockOwners
  <2>3. PlacesMatchTurns'
    BY <1>22 DEF ResolveConflicts, TypeOK, PlacesMatchTurns, Parked, Contribution
  <2>4. CountMatchesTurns'
    BY <1>22 DEF ResolveConflicts, TypeOK, CountMatchesTurns
  <2>5. StableCoefficients'
    BY <1>22 DEF ResolveConflicts, TypeOK, StableCoefficients
  <2> QED
    BY <2>1, <2>2, <2>3, <2>4, <2>5
<1>23. CASE Destroy
  BY <1>23
  DEF Destroy, queue_empty, TypeOK, LockOwners, PlacesMatchTurns, Parked,
      CountMatchesTurns, StableCoefficients
<1>24. CASE UNCHANGED vars
  BY <1>24
  DEF TypeOK, LockOwners, PlacesMatchTurns, Parked, CountMatchesTurns,
      StableCoefficients
<1> QED
  BY <1>1, <1>2, <1>3, <1>4, <1>5, <1>6, <1>7, <1>8, <1>9, <1>10, <1>11, <1>12,
     <1>13, <1>14, <1>15, <1>16, <1>17, <1>18, <1>19, <1>20, <1>21, <1>22, <1>23, <1>24
  DEF Next, MainStep, Worker, Terminated

-----------------------------------------------------------------------------
\* The inductive invariant holds in every state of every behaviour.
THEOREM Invariance == Spec => []IInv
<1>1. Init => IInv
  BY InitInv
<1>2. IInv /\ [Next]_vars => IInv'
  BY NextInv
<1> QED
  BY <1>1, <1>2, PTL DEF Spec

\* Every variable of the scheduler keeps its type; in particular the counter
\* threads_complete never exceeds the number of threads.
THEOREM TypeCorrect == Spec => []TypeOK
BY Invariance, PTL DEF IInv

\* The completion counter and the turns of the threads agree in every state,
\* although they are reset in two steps and under different locks.
THEOREM CountCorrect == Spec => []CountMatchesTurns
BY Invariance, PTL DEF IInv

\* No worker is in train() or test() while the main thread reads the slots and
\* writes the coefficients, and every slot it reads is finished.
THEOREM AggregationIsQuiet == Spec => []AllThreadsParked
<1>1. IInv => AllThreadsParked
  <2> SUFFICES ASSUME IInv,
                      (pcM = "checkDone" /\ AllComplete) \/ pcM \in {"acquireC", "reset"},
                      NEW t \in Threads
               PROVE  /\ pc[t] \in {"acquireC", "checkTurn", "waiting"}
                      /\ aJob[t] = NoJob
                      /\ result[t].done
    BY DEF AllThreadsParked
  <2>1. time_to_work[t] = 0
    <3>1. CASE pcM = "checkDone" /\ AllComplete
      BY <3>1, AllCompleteAllParked DEF IInv
    <3>2. CASE pcM \in {"acquireC", "reset"}
      BY <3>2 DEF IInv, CountMatchesTurns, Running, Ended
    <3> QED
      BY <3>1, <3>2
  <2> QED
    BY <2>1 DEF IInv, PlacesMatchTurns, Parked
<1> QED
  BY <1>1, Invariance, PTL

\* A worker that computes does so from the coefficients that are current, for
\* as long as main has not gone on to resolve conflicts.
THEOREM CoefficientsAreStable == Spec => []StableCoefficients
BY Invariance, PTL DEF IInv

-----------------------------------------------------------------------------
(* The rounds: no worker takes a job of a later batch before the batch it  *)
(* works on has been accounted for, what is still running when             *)
(* execute_all_jobs has returned belongs to the last batch, and the        *)
(* threads together implement SerialBatches.                               *)

\* The calls of execute_all_jobs and what main does before it changes the
\* coefficients itself.
InRounds == pcM \in Executing \cup {"removeFiles", "resolve"}

\* The rounds that are over: those accounted for, except that a round is over
\* only when the turns have been given back.
Round == Len(coefficients) + Len(tested)
           - (IF pcM \in {"acquireC", "reset"} THEN 1 ELSE 0)

\* The threads that have taken a job in this round, the jobs they took, and the
\* job that is taken next.
Takers == {t \in Threads : aJob[t] # NoJob \/ time_to_work[t] = 0}
JobOf(t) == IF aJob[t] # NoJob THEN aJob[t] ELSE result[t].job
NextJob == IF pcM = "submit" THEN 0 ELSE NJobs - Len(queue)

\* Until execute_all_jobs is called no thread exists.
NothingStarted ==
  pcM = "submit" =>
    /\ coefficients = <<>> /\ tested = <<>>
    /\ \A t \in Threads : pc[t] = "unborn" /\ time_to_work[t] = 1

\* The queue is what is left of the jobs, in the order of their ids.
QueueInOrder ==
  InRounds => /\ Len(queue) <= NJobs
              /\ \A i \in 1 .. Len(queue) : queue[i] = NextJob + i - 1

\* The jobs taken so far are those of the rounds that are over and one for each
\* thread that took one in this round, and the latter are the first of a batch.
JobsOfRound ==
  InRounds => /\ Round \in Nat
              /\ NextJob = N * Round + Cardinality(Takers)
              /\ {JobOf(t) : t \in Takers} = N * Round .. NextJob - 1

\* A thread on its way to a routine, in it or just out of it has a job.
WorkersHaveJobs ==
  \A t \in Threads : pc[t] \in {"leaveTraining", "start", "compute", "complete"}
                       => aJob[t] # NoJob

\* The slot of a thread is that of its job of this round, computed from the
\* coefficients that the rounds before have left.
ResultsOfRound ==
  InRounds => \A t \in Threads :
    /\ pc[t] \in {"compute", "complete"} => result[t].job = aJob[t]
    /\ pcM \notin {"acquireC", "reset"} /\ (pc[t] = "complete" \/ time_to_work[t] = 0)
         => result[t].base = Len(coefficients)

\* The main thread is switched to accuracy results by the testing jobs alone,
\* and by each of them before it starts.
ModeOfRound ==
  InRounds =>
    /\ read_from_coeff_array = 0 => TrainingJobs <= N * Round
    /\ \A t \in Takers : ~IsTraining(JobOf(t)) /\ pc[t] \notin {"passTurn", "leaveTraining"}
                           => read_from_coeff_array = 0
    /\ \A t \in Threads : pc[t] = "leaveTraining" => ~IsTraining(aJob[t])

\* The batch files exist while the jobs run, and not when main goes on.
FilesKept ==
  /\ pcM \in Executing => files = BatchFiles
  /\ pcM \in {"resolve", "destroy"} => files = {}

\* The inductive invariant of the rounds, on top of IInv.
RInv == /\ NothingStarted /\ QueueInOrder /\ JobsOfRound /\ ResultsOfRound
        /\ ModeOfRound /\ WorkersHaveJobs /\ FilesKept /\ StragglersAreOfLastBatch

-----------------------------------------------------------------------------
(* Arithmetic of batches. *)

\* Batch r + 1 starts n jobs after batch r.
LEMMA NextBatchStarts ==
  ASSUME NEW n \in Nat, NEW r \in Nat
  PROVE  n * (r + 1) = n * r + n /\ n * r \in Nat
OBVIOUS

\* The members of the r-th batch of n jobs.
LEMMA BatchMembers ==
  ASSUME NEW n \in Nat \ {0}, NEW r \in Nat, NEW j \in Nat
  PROVE  j \div n = r <=> n * r <= j /\ j < n * r + n
OBVIOUS

\* A batch that begins before the end of the r-th one begins at most with it.
LEMMA BatchesDoNotOverlap ==
  ASSUME NEW n \in Nat \ {0}, NEW m \in Nat, NEW r \in Nat, n * m < n * r + n
  PROVE  n * m <= n * r
<1>1. m < r + 1
  OBVIOUS
<1> QED
  BY <1>1

\* There is a thread.
LEMMA ThreadsCounted == N \in Nat \ {0}
<1>1. Cardinality(Threads) # 0
  BY ThreadsAssumption, FS_EmptySet
<1> QED
  BY <1>1, ConstantTypes DEF N

\* The training jobs fill whole batches.
LEMMA TrainingFillsBatches == \E m \in Nat : TrainingJobs = N * m
<1>1. TrainingFiles = N * (TrainingFiles \div N) /\ TrainingFiles \div N \in Nat
  BY ThreadsCounted, FilesAssumption
<1>2. /\ Epochs * TrainingFiles = N * (Epochs * (TrainingFiles \div N))
      /\ Epochs * (TrainingFiles \div N) \in Nat
  BY <1>1, ThreadsCounted, FilesAssumption
<1> QED
  BY <1>2 DEF TrainingJobs

-----------------------------------------------------------------------------
(* What a state of the inductive invariants says. *)

\* The numbers that a round is computed from.
LEMMA RoundIsNat ==
  ASSUME TypeOK
  PROVE  Len(coefficients) \in Nat /\ Len(tested) \in Nat /\ Len(queue) \in Nat
BY DEF TypeOK

\* The threads that took a job can be counted, and one that took none makes
\* the count smaller than N.
LEMMA TakersCounted ==
  /\ IsFiniteSet(Takers) /\ Cardinality(Takers) \in 0 .. N
  /\ \A t \in Threads \ Takers : Cardinality(Takers) < N
<1>1. Takers \subseteq Threads
  BY DEF Takers
<1>2. IsFiniteSet(Takers) /\ Cardinality(Takers) <= N
  BY <1>1, ThreadsAssumption, FS_Subset DEF N
<1>3. ASSUME NEW t \in Threads \ Takers PROVE Cardinality(Takers) # N
  BY <1>1, <1>3, ThreadsAssumption, FS_Subset DEF N
<1> QED
  BY <1>2, <1>3, FS_CardinalityType, ConstantTypes

\* A job that is taken is the next one, and belongs to the current batch.
LEMMA TakenJob ==
  ASSUME IInv, RInv, NEW t \in Threads, TakeJob(t), queue # <<>>
  PROVE  /\ pcM \in Executing \ {"submit", "acquireC", "reset"}
         /\ Head(queue) = NextJob /\ aJob[t] = NoJob /\ t \notin Takers
         /\ NextJob \in N * Round .. N * Round + N - 1
<1> USE DEF At, Running, Executing, AfterJobs, Ended, WorkerPC
<1>1. pcM \in Executing /\ InRounds
  BY DEF TakeJob, IInv, TypeOK, RInv, StragglersAreOfLastBatch, InRounds
<1>2. time_to_work[t] # 0 /\ aJob[t] = NoJob /\ t \notin Takers
  BY DEF TakeJob, IInv, PlacesMatchTurns, Parked, Takers
<1>3. pcM \notin {"submit", "acquireC", "reset"}
  BY <1>2 DEF TakeJob, RInv, NothingStarted, IInv, CountMatchesTurns
<1>4. Head(queue) = NextJob
  <2>1. Len(queue) \in Nat \ {0} /\ Head(queue) = queue[1]
    BY DEF IInv, TypeOK
  <2>2. NextJob \in Int
    BY <2>1, ConstantTypes DEF NextJob
  <2> QED
    BY <1>1, <2>1, <2>2 DEF RInv, QueueInOrder
<1>5. Round \in Nat
  BY <1>3, RoundIsNat DEF Round, IInv
<1>6. NextJob = N * Round + Cardinality(Takers) /\ Cardinality(Takers) \in 0 .. N - 1
  BY <1>1, <1>2, TakersCounted, ConstantTypes DEF RInv, JobsOfRound
<1>7. N * Round \in Nat
  BY <1>5, ConstantTypes
<1> QED
  BY <1>1, <1>2, <1>3, <1>4, <1>6, <1>7, ConstantTypes

-----------------------------------------------------------------------------
\* The initial state satisfies the inductive invariant.
LEMMA InitRounds == Init => RInv
<1> SUFFICES ASSUME Init PROVE RInv
  OBVIOUS
<1> USE DEF Init, Executing, AfterJobs
<1>1. Takers = {} /\ Cardinality(Takers) = 0
  <2>1. Takers = {}
    BY DEF Takers
  <2> QED
    BY <2>1, FS_EmptySet
<1>2. NextJob = 0 /\ Round = 0 /\ N * Round = 0
  BY ConstantTypes DEF NextJob, Round
<1>3. QueueInOrder
  BY ConstantTypes DEF QueueInOrder
<1>4. JobsOfRound
  BY <1>1, <1>2 DEF JobsOfRound
<1> QED
  BY <1>1, <1>3, <1>4
  DEF RInv, NothingStarted, ResultsOfRound, ModeOfRound, WorkersHaveJobs, FilesKept, StragglersAreOfLastBatch

\* The steps that move a thread or main along without touching a job, a turn, a
\* slot, the coefficients, the queue or the files.
QuietWorker(t) == AcquireC(t) \/ WaitTurn(t) \/ PassTurn(t) \/ SpuriousWakeup(t)
QuietMain == \/ Execute      \/ CreateThread \/ MainAcquireT   \/ MainWait \/ MainSpuriousWakeup
             \/ MainAcquireC \/ CheckQueue   \/ ReportAccuracy \/ Destroy

\* The round stays the one it is, unless the rounds end.
SameRound ==
  InRounds' => /\ InRounds /\ Round' = Round /\ NextJob' = NextJob
               /\ pcM' \in {"acquireC", "reset"} <=> pcM \in {"acquireC", "reset"}

\* What a quiet step does to the places of the threads.
QuietMove ==
  /\ pcM' = "submit" => pcM = "submit" /\ pc' = pc
  /\ \A t \in Threads :
       /\ pc'[t] \in {"compute", "complete"} => pc'[t] = pc[t]
       /\ pc'[t] = "start" => pc[t] = "start" \/ aJob[t] # NoJob
       /\ pc'[t] = "leaveTraining" => \/ pc[t] = "leaveTraining"
                                      \/ aJob[t] # NoJob /\ ~IsTraining(aJob[t])
       /\ pc[t] \in {"passTurn", "leaveTraining"} =>
            \/ pc'[t] \in {"passTurn", "leaveTraining"}
            \/ aJob[t] = NoJob /\ time_to_work[t] # 0
            \/ aJob[t] # NoJob /\ IsTraining(aJob[t])

Quiet == /\ UNCHANGED <<queue, time_to_work, aJob, dataVars, read_from_coeff_array>>
         /\ SameRound /\ QuietMove

\* The steps of a worker that neither take, run nor complete a job change nothing the
\* rounds depend on.
LEMMA QuietWorkerStep ==
  ASSUME IInv, RInv, NEW t \in Threads, QuietWorker(t)
  PROVE  Quiet
<1> USE DEF At, schVars, dataVars, mainVars, Executing
<1> USE DEF InRounds, Round, NextJob, SameRound, QuietMove, Quiet
<1>0. pc \in [Threads -> WorkerPC] /\ aJob \in [Threads -> JobIds \cup {NoJob}]
  BY DEF IInv, TypeOK
<1>5. pcM = "submit" => pc[t] = "unborn"
  BY DEF RInv, NothingStarted
<1>1. CASE AcquireC(t)
  BY <1>0, <1>5, <1>1 DEF AcquireC
<1>2. CASE WaitTurn(t)
  BY <1>0, <1>5, <1>2 DEF WaitTurn
<1>3. CASE PassTurn(t)
  <2>1. PICK W \in Woken : pc' = [PcAfterWake(W) EXCEPT ![t] =
                   CASE aJob[t] = NoJob     -> "returned"
                     [] aJob[t] # NoJob /\ IsTraining(aJob[t])  -> "start"
                     [] aJob[t] # NoJob /\ ~IsTraining(aJob[t]) -> "leaveTraining"]
    BY <1>3 DEF PassTurn
  <2>2. W \subseteq Threads /\ \A u \in W : pc[u] = "waiting"
    BY <2>1, WokenWait
  <2>3. time_to_work[t] # 0
    BY <1>3 DEF PassTurn, IInv, PlacesMatchTurns, Parked
  <2> QED
    BY <1>0, <1>5, <1>3, <2>1, <2>2, <2>3 DEF PassTurn, PcAfterWake
<1>4. CASE SpuriousWakeup(t)
  BY <1>0, <1>5, <1>4 DEF SpuriousWakeup, PcAfterWake
<1> QED
  BY <1>1, <1>2, <1>3, <1>4 DEF QuietWorker

\* The steps of the main thread that neither submit a job nor end a round change nothing
\* the rounds depend on.
LEMMA QuietMainStep ==
  ASSUME IInv, RInv, QuietMain
  PROVE  Quiet
<1> USE DEF schVars, dataVars, mainVars, Executing
<1> USE DEF InRounds, Round, NextJob, SameRound, QuietMove, Quiet
<1>0. pc \in [Threads -> WorkerPC] /\ Len(queue) \in Nat
  BY RoundIsNat DEF IInv, TypeOK
<1>1. CASE Execute
  BY <1>0, <1>1, ConstantTypes DEF Execute
<1>2. CASE CreateThread
  BY <1>0, <1>2 DEF CreateThread
<1>3. CASE MainAcquireT \/ MainWait \/ MainSpuriousWakeup \/ MainAcquireC
  BY <1>0, <1>3 DEF MainAcquireT, MainWait, MainSpuriousWakeup, MainAcquireC
<1>4. CASE CheckQueue
  BY <1>0, <1>4 DEF CheckQueue
<1>5. CASE ReportAccuracy
  BY <1>0, <1>5 DEF ReportAccuracy
<1>6. CASE Destroy
  BY <1>0, <1>6 DEF Destroy
<1> QED
  BY <1>1, <1>2, <1>3, <1>4, <1>5, <1>6 DEF QuietMain

\* A quiet step preserves what is said of the round.
LEMMA QuietPreserves ==
  ASSUME IInv, RInv, Quiet
  PROVE  /\ NothingStarted' /\ QueueInOrder' /\ JobsOfRound'
         /\ ResultsOfRound' /\ ModeOfRound' /\ WorkersHaveJobs'
<1> USE DEF Quiet, SameRound, QuietMove, RInv, dataVars
<1>1. NothingStarted'
  BY DEF NothingStarted
<1>2. QueueInOrder'
  BY DEF QueueInOrder
<1>3. JobsOfRound'
  BY DEF JobsOfRound, Takers, JobOf
<1>4. ResultsOfRound'
  BY DEF ResultsOfRound
<1>5. ModeOfRound'
  BY DEF ModeOfRound, Takers, JobOf
<1>6. WorkersHaveJobs'
  BY DEF WorkersHaveJobs
<1> QED
  BY <1>1, <1>2, <1>3, <1>4, <1>5, <1>6

-----------------------------------------------------------------------------
\* A thread takes the next job, or finds that there is none.
LEMMA TakeJobPreserves ==
  ASSUME IInv, RInv, NEW t \in Threads, TakeJob(t)
  PROVE  RInv'
<1> USE DEF At, Running, Ended, schVars, dataVars, mainVars
<1>0. /\ pc \in [Threads -> WorkerPC] /\ aJob \in [Threads -> JobIds \cup {NoJob}]
      /\ queue \in Seq(JobIds) /\ Len(queue) \in Nat
      /\ aJob[t] = NoJob /\ time_to_work[t] # 0
  BY RoundIsNat DEF IInv, TypeOK, PlacesMatchTurns, Parked, TakeJob
<1>1. CASE queue = <<>>
  <2>1. /\ UNCHANGED <<queue, time_to_work, aJob, dataVars, read_from_coeff_array, pcM, files>>
        /\ pc' = [pc EXCEPT ![t] = "passTurn"] /\ pc[t] = "checkTurn"
    BY <1>0, <1>1 DEF TakeJob, queue_empty
  <2>2. SameRound
    BY <2>1 DEF SameRound, Round, NextJob, InRounds
  <2>3. NothingStarted'
    BY <1>0, <2>1 DEF RInv, NothingStarted
  <2>4. QuietMove
    BY <1>0, <2>1 DEF QuietMove, RInv, NothingStarted
  <2>5. FilesKept' /\ StragglersAreOfLastBatch'
    BY <2>1 DEF RInv, FilesKept, StragglersAreOfLastBatch
  <2> QED
    BY <2>1, <2>2, <2>4, <2>5, QuietPreserves DEF Quiet, RInv
<1>2. CASE queue # <<>>
  <2>1. /\ pcM \in Executing \ {"submit", "acquireC", "reset"}
        /\ Head(queue) = NextJob /\ t \notin Takers
        /\ NextJob \in N * Round .. N * Round + N - 1
    BY <1>2, TakenJob
  <2>2. /\ aJob' = [aJob EXCEPT ![t] = NextJob] /\ queue' = Tail(queue)
        /\ pc' = [pc EXCEPT ![t] = "passTurn"]
        /\ UNCHANGED <<time_to_work, dataVars, read_from_coeff_array, pcM, files>>
    BY <1>2, <2>1 DEF TakeJob, queue_empty, queue_remove
  <2>3. Round' = Round /\ InRounds /\ InRounds' /\ Round \in Nat /\ N * Round \in Nat
    BY <2>1, <2>2, RoundIsNat, ConstantTypes
    DEF Round, InRounds, Executing, IInv
  <2>4. /\ Len(queue') = Len(queue) - 1 /\ \A i \in 1 .. Len(queue') : queue'[i] = queue[i + 1]
        /\ Len(queue) # 0
    BY <1>0, <1>2, <2>2
  <2>5. NextJob \in Nat /\ NextJob' = NextJob + 1 /\ NextJob # NoJob
    <3>1. NextJob \in Nat
      BY <2>1, <2>3, ConstantTypes
    <3>2. NextJob = NJobs - Len(queue) /\ NextJob' = NJobs - Len(queue')
      BY <2>1, <2>2 DEF NextJob
    <3> QED
      BY <1>0, <2>4, <3>1, <3>2, ConstantTypes DEF NoJob
  <2>6. Takers' = Takers \cup {t}
    BY <1>0, <2>2, <2>5 DEF Takers
  <2>7. \A u \in Takers : JobOf(u)' = JobOf(u)
    BY <1>0, <2>1, <2>2 DEF JobOf, Takers
  <2>8. JobOf(t)' = NextJob
    BY <1>0, <2>2, <2>5 DEF JobOf
  <2>9. NothingStarted'
    BY <2>1, <2>2 DEF NothingStarted
  <2>10. QueueInOrder'
    BY <1>0, <2>3, <2>4, <2>5, ConstantTypes DEF RInv, QueueInOrder
  <2>11. JobsOfRound'
    <3>1. Cardinality(Takers') = Cardinality(Takers) + 1 /\ Cardinality(Takers) \in Nat
      BY <2>1, <2>6, TakersCounted, FS_AddElement, FS_CardinalityType
    <3>2. {JobOf(u)' : u \in Takers'} = {JobOf(u) : u \in Takers} \cup {NextJob}
      BY <2>6, <2>7, <2>8
    <3>3. N * Round .. NextJob' - 1 = (N * Round .. NextJob - 1) \cup {NextJob}
      BY <2>1, <2>3, <2>5
    <3>4. /\ NextJob = N * Round + Cardinality(Takers)
          /\ {JobOf(u) : u \in Takers} = N * Round .. NextJob - 1
      BY <2>3 DEF RInv, JobsOfRound
    <3>5. NextJob' = N * Round + Cardinality(Takers')
      BY <2>3, <2>5, <3>1, <3>4
    <3> QED
      BY <2>3, <3>2, <3>3, <3>4, <3>5 DEF JobsOfRound
  <2>12. ResultsOfRound'
    BY <1>0, <2>2, <2>3 DEF RInv, ResultsOfRound
  <2>13. ModeOfRound'
    BY <1>0, <2>2, <2>3, <2>6, <2>7 DEF RInv, ModeOfRound
  <2>14. WorkersHaveJobs'
    BY <1>0, <2>2 DEF RInv, WorkersHaveJobs
  <2>15. FilesKept' /\ StragglersAreOfLastBatch'
    BY <2>1, <2>2 DEF RInv, FilesKept, StragglersAreOfLastBatch, Executing, AfterJobs
  <2> QED
    BY <2>9, <2>10, <2>11, <2>12, <2>13, <2>14, <2>15 DEF RInv
<1> QED
  BY <1>1, <1>2

\* A testing job belongs to a round that no training job is left for.
LEMMA LeaveTrainingPreserves ==
  ASSUME IInv, RInv, NEW t \in Threads, LeaveTraining(t)
  PROVE  RInv'
<1> USE DEF schVars, dataVars, mainVars
<1>1. /\ UNCHANGED <<queue, time_to_work, aJob, dataVars, pcM, files>>
      /\ pc' = [pc EXCEPT ![t] = "start"] /\ read_from_coeff_array' = 0
      /\ pc[t] = "leaveTraining" /\ pc \in [Threads -> WorkerPC]
  BY DEF LeaveTraining, At, IInv, TypeOK
<1>2. /\ Round' = Round /\ NextJob' = NextJob /\ InRounds' = InRounds /\ Takers' = Takers
      /\ \A u \in Threads : JobOf(u)' = JobOf(u)
  BY <1>1 DEF Round, NextJob, InRounds, Takers, JobOf
<1>3. InRounds => TrainingJobs <= N * Round
  <2>1. SUFFICES ASSUME InRounds PROVE TrainingJobs <= N * Round
    OBVIOUS
  <2>2. t \in Takers /\ JobOf(t) = aJob[t] /\ ~IsTraining(aJob[t])
    BY <1>1, <2>1 DEF RInv, ModeOfRound, WorkersHaveJobs, Takers, JobOf
  <2>3. aJob[t] \in N * Round .. NextJob - 1 /\ NextJob = N * Round + Cardinality(Takers)
    BY <2>1, <2>2 DEF RInv, JobsOfRound
  <2>4. Round \in Nat
    BY <2>1 DEF RInv, JobsOfRound
  <2>5. TrainingJobs < N * Round + N
    BY <2>2, <2>3, <2>4, TakersCounted, ConstantTypes DEF IsTraining
  <2> QED
    BY <2>4, <2>5, TrainingFillsBatches, BatchesDoNotOverlap, ThreadsCounted
<1>4. NothingStarted' /\ QueueInOrder' /\ ResultsOfRound'
  BY <1>1, <1>2 DEF RInv, NothingStarted, QueueInOrder, ResultsOfRound
<1>5. JobsOfRound'
  BY <1>1, <1>2 DEF RInv, JobsOfRound, Takers
<1>6. ModeOfRound'
  BY <1>1, <1>2, <1>3 DEF RInv, ModeOfRound, Takers
<1>7. WorkersHaveJobs' /\ FilesKept' /\ StragglersAreOfLastBatch'
  BY <1>1 DEF RInv, WorkersHaveJobs, FilesKept, StragglersAreOfLastBatch
<1> QED
  BY <1>4, <1>5, <1>6, <1>7 DEF RInv

\* train() or test() starts: the slot is that of the thread's job.
LEMMA StartJobPreserves ==
  ASSUME IInv, RInv, NEW t \in Threads, StartJob(t)
  PROVE  RInv'
<1> USE DEF schVars, dataVars, mainVars
<1>0. /\ pc \in [Threads -> WorkerPC] /\ result \in [Threads -> Contribution]
      /\ UNCHANGED <<queue, time_to_work, aJob, coefficients, tested, read_from_coeff_array, files>>
      /\ pc[t] = "start" /\ aJob[t] # NoJob /\ time_to_work[t] # 0
  BY DEF StartJob, At, IInv, TypeOK, PlacesMatchTurns, Parked, RInv, WorkersHaveJobs
<1>1. CASE FileName(aJob[t]) \in files
  <2>1. /\ pc' = [pc EXCEPT ![t] = "compute"] /\ pcM' = pcM
        /\ result' = [result EXCEPT ![t] =
             [job |-> aJob[t], base |-> Len(coefficients), done |-> FALSE]]
    BY <1>1 DEF StartJob
  <2>2. /\ Round' = Round /\ NextJob' = NextJob /\ InRounds' = InRounds /\ Takers' = Takers
        /\ \A u \in Threads : JobOf(u)' = JobOf(u)
    BY <1>0, <2>1 DEF Round, NextJob, InRounds, Takers, JobOf
  <2>3. NothingStarted' /\ QueueInOrder'
    BY <1>0, <2>1, <2>2 DEF RInv, NothingStarted, QueueInOrder
  <2>4. JobsOfRound'
    BY <1>0, <2>1, <2>2 DEF RInv, JobsOfRound, Takers
  <2>5. ResultsOfRound'
    BY <1>0, <2>1, <2>2 DEF RInv, ResultsOfRound
  <2>6. ModeOfRound'
    BY <1>0, <2>1, <2>2 DEF RInv, ModeOfRound, Takers
  <2>7. WorkersHaveJobs' /\ FilesKept' /\ StragglersAreOfLastBatch'
    BY <1>0, <2>1 DEF RInv, WorkersHaveJobs, FilesKept, StragglersAreOfLastBatch
  <2> QED
    BY <2>3, <2>4, <2>5, <2>6, <2>7 DEF RInv
<1>2. CASE FileName(aJob[t]) \notin files
  <2>1. pcM' = "aborted" /\ pc' = pc
    BY <1>2 DEF StartJob
  <2> QED
    BY <1>0, <2>1
    DEF RInv, NothingStarted, QueueInOrder, JobsOfRound, ResultsOfRound, ModeOfRound,
        WorkersHaveJobs, FilesKept, StragglersAreOfLastBatch, InRounds, Executing, AfterJobs
<1> QED
  BY <1>1, <1>2

\* train() or test() returns; its coefficients are still the current ones.
LEMMA FinishJobPreserves ==
  ASSUME IInv, RInv, NEW t \in Threads, FinishJob(t)
  PROVE  RInv'
<1> USE DEF schVars, dataVars, mainVars
<1>1. /\ pc \in [Threads -> WorkerPC] /\ result \in [Threads -> Contribution]
      /\ UNCHANGED <<queue, time_to_work, aJob, coefficients, tested, read_from_coeff_array,
                     files, pcM>>
      /\ pc[t] = "compute" /\ pc' = [pc EXCEPT ![t] = "complete"]
      /\ \A u \in Threads : result'[u].job = result[u].job /\ result'[u].base = result[u].base
  BY DEF FinishJob, At, IInv, TypeOK, Contribution
<1>2. /\ Round' = Round /\ NextJob' = NextJob /\ InRounds' = InRounds /\ Takers' = Takers
      /\ \A u \in Threads : JobOf(u)' = JobOf(u)
  BY <1>1 DEF Round, NextJob, InRounds, Takers, JobOf
<1>3. InRounds => result[t].base = Len(coefficients)
  BY <1>1 DEF InRounds, IInv, StableCoefficients
<1>4. NothingStarted' /\ QueueInOrder'
  BY <1>1, <1>2 DEF RInv, NothingStarted, QueueInOrder
<1>5. JobsOfRound'
  BY <1>1, <1>2 DEF RInv, JobsOfRound, Takers
<1>6. ResultsOfRound'
  BY <1>1, <1>2, <1>3 DEF RInv, ResultsOfRound
<1>7. ModeOfRound'
  BY <1>1, <1>2 DEF RInv, ModeOfRound, Takers
<1>8. WorkersHaveJobs' /\ FilesKept' /\ StragglersAreOfLastBatch'
  BY <1>1 DEF RInv, WorkersHaveJobs, FilesKept, StragglersAreOfLastBatch
<1> QED
  BY <1>4, <1>5, <1>6, <1>7, <1>8 DEF RInv

\* The thread gives up its job and its turn, and its slot keeps the job.
LEMMA CompletePreserves ==
  ASSUME IInv, RInv, NEW t \in Threads, Complete(t)
  PROVE  RInv'
<1> USE DEF schVars, dataVars, mainVars
<1>1. /\ pc \in [Threads -> WorkerPC] /\ aJob \in [Threads -> JobIds \cup {NoJob}]
      /\ time_to_work \in [Threads -> {0, 1}]
      /\ UNCHANGED <<queue, coefficients, tested, result, read_from_coeff_array, files>>
      /\ pc[t] = "complete" /\ pc' = [pc EXCEPT ![t] = "acquireC"]
      /\ aJob' = [aJob EXCEPT ![t] = NoJob] /\ time_to_work' = [time_to_work EXCEPT ![t] = 0]
      /\ pcM' = IF pcM = "waiting" THEN "acquireT" ELSE pcM
      /\ aJob[t] # NoJob
  BY DEF Complete, At, IInv, TypeOK, TurnTaken, RInv, WorkersHaveJobs
<1>2. /\ Round' = Round /\ NextJob' = NextJob /\ InRounds' = InRounds
      /\ pcM' \in {"acquireC", "reset"} <=> pcM \in {"acquireC", "reset"}
  BY <1>1 DEF Round, NextJob, InRounds, Executing
<1>3. Takers' = Takers
  BY <1>1 DEF Takers
<1>4. InRounds => \A u \in Threads : u \in Takers => JobOf(u)' = JobOf(u)
  BY <1>1 DEF RInv, ResultsOfRound, JobOf, Takers
<1>5. NothingStarted' /\ QueueInOrder'
  BY <1>1, <1>2 DEF RInv, NothingStarted, QueueInOrder
<1>6. JobsOfRound'
  <2>1. InRounds => {JobOf(u)' : u \in Takers'} = {JobOf(u) : u \in Takers}
    BY <1>3, <1>4 DEF Takers
  <2> QED
    BY <1>2, <1>3, <2>1 DEF RInv, JobsOfRound
<1>7. ResultsOfRound'
  BY <1>1, <1>2 DEF RInv, ResultsOfRound
<1>8. ModeOfRound'
  BY <1>1, <1>2, <1>3, <1>4 DEF RInv, ModeOfRound, Takers
<1>9. WorkersHaveJobs' /\ FilesKept' /\ StragglersAreOfLastBatch'
  BY <1>1 DEF RInv, WorkersHaveJobs, FilesKept, StragglersAreOfLastBatch, Executing, AfterJobs
<1> QED
  BY <1>5, <1>6, <1>7, <1>8, <1>9 DEF RInv

\* main submits the next job, before any thread exists.
LEMMA SubmitPreserves ==
  ASSUME IInv, RInv, Submit
  PROVE  RInv'
<1> USE DEF schVars, dataVars, mainVars, Executing, AfterJobs
<1>1. /\ queue \in Seq(JobIds) /\ Len(queue) \in Nat /\ Len(queue) < NJobs
      /\ pcM = "submit" /\ queue' = Append(queue, Len(queue))
      /\ UNCHANGED <<time_to_work, dataVars, read_from_coeff_array, aJob, pc, pcM, files>>
  BY RoundIsNat DEF Submit, queue_insert, IInv, TypeOK
<1>2. NextJob = 0 /\ NextJob' = 0 /\ Round' = Round /\ InRounds /\ InRounds'
  BY <1>1 DEF NextJob, Round, InRounds
<1>3. QueueInOrder'
  <2>1. /\ Len(queue') = Len(queue) + 1 /\ queue'[Len(queue) + 1] = Len(queue)
        /\ \A i \in 1 .. Len(queue) : queue'[i] = queue[i]
    BY <1>1
  <2> QED
    BY <1>1, <1>2, <2>1, ConstantTypes DEF RInv, QueueInOrder
<1>4. JobsOfRound'
  BY <1>1, <1>2 DEF RInv, JobsOfRound, Takers, JobOf
<1>5. NothingStarted' /\ ResultsOfRound' /\ ModeOfRound'
  BY <1>1, <1>2 DEF RInv, NothingStarted, ResultsOfRound, ModeOfRound, Takers, JobOf
<1>6. WorkersHaveJobs' /\ FilesKept' /\ StragglersAreOfLastBatch'
  BY <1>1 DEF RInv, WorkersHaveJobs, FilesKept, StragglersAreOfLastBatch
<1> QED
  BY <1>3, <1>4, <1>5, <1>6 DEF RInv

\* main accounts for the round; it is not over before the turns are given back.
LEMMA AggregatePreserves ==
  ASSUME IInv, RInv, Aggregate
  PROVE  RInv'
<1> USE DEF Executing, AfterJobs
<1>1. /\ coefficients \in Seq(SUBSET Contribution) /\ tested \in Seq(SUBSET Contribution)
      /\ pcM = "checkDone" /\ pcM' = "acquireC"
      /\ UNCHANGED <<queue, time_to_work, result, read_from_coeff_array, aJob, pc, files>>
      /\ \E slots \in SUBSET Contribution :
           \/ coefficients' = Append(coefficients, slots) /\ tested' = tested
           \/ tested' = Append(tested, slots) /\ coefficients' = coefficients
  <2>1. {result[t] : t \in Threads} \in SUBSET Contribution
    BY DEF IInv, TypeOK
  <2> QED
    BY <2>1 DEF Aggregate, IInv, TypeOK, mainVars
<1>2. Len(coefficients') + Len(tested') = Len(coefficients) + Len(tested) + 1
  <2>1. PICK slots \in SUBSET Contribution :
           \/ coefficients' = Append(coefficients, slots) /\ tested' = tested
           \/ tested' = Append(tested, slots) /\ coefficients' = coefficients
    BY <1>1
  <2>2. /\ Len(Append(coefficients, slots)) = Len(coefficients) + 1
        /\ Len(Append(tested, slots)) = Len(tested) + 1
    BY <1>1
  <2> QED
    BY <2>1, <2>2, RoundIsNat DEF IInv
<1>3. NextJob' = NextJob /\ Round' = Round /\ InRounds /\ InRounds' /\ Takers' = Takers
  BY <1>1, <1>2, RoundIsNat DEF NextJob, Round, InRounds, Takers, IInv
<1>4. NothingStarted' /\ QueueInOrder'
  BY <1>1, <1>3 DEF RInv, NothingStarted, QueueInOrder
<1>5. JobsOfRound'
  BY <1>1, <1>3 DEF RInv, JobsOfRound, Takers, JobOf
<1>6. ResultsOfRound'
  BY <1>1, <1>3 DEF RInv, ResultsOfRound
<1>7. ModeOfRound'
  BY <1>1, <1>3 DEF RInv, ModeOfRound, Takers, JobOf
<1>8. WorkersHaveJobs' /\ FilesKept' /\ StragglersAreOfLastBatch'
  BY <1>1 DEF RInv, WorkersHaveJobs, FilesKept, StragglersAreOfLastBatch
<1> QED
  BY <1>4, <1>5, <1>6, <1>7, <1>8 DEF RInv

\* When every thread has completed its job, the jobs taken are those of one
\* batch, and nobody has a job.
LEMMA RoundIsFull ==
  ASSUME IInv, RInv, (pcM = "checkDone" /\ AllComplete) \/ pcM \in {"acquireC", "reset"}
  PROVE  /\ InRounds /\ Takers = Threads
         /\ \A t \in Threads : time_to_work[t] = 0 /\ aJob[t] = NoJob
         /\ Round \in Nat /\ N * Round \in Nat /\ NextJob = N * Round + N
<1>1. InRounds
  BY DEF InRounds, Executing
<1>2. \A t \in Threads : time_to_work[t] = 0
  <2>1. CASE pcM = "checkDone" /\ AllComplete
    BY <2>1, AllCompleteAllParked DEF IInv
  <2>2. CASE pcM \in {"acquireC", "reset"}
    BY <2>2 DEF IInv, CountMatchesTurns, Running, Ended
  <2> QED
    BY <2>1, <2>2
<1>3. Takers = Threads /\ \A t \in Threads : aJob[t] = NoJob
  BY <1>2 DEF Takers, IInv, PlacesMatchTurns
<1>4. Round \in Nat /\ NextJob = N * Round + N
  BY <1>1, <1>3 DEF RInv, JobsOfRound, N
<1> QED
  BY <1>1, <1>2, <1>3, <1>4, ConstantTypes

\* The turns are given back: the next round begins and nobody has taken a job.
LEMMA ResetTurnsPreserves ==
  ASSUME IInv, RInv, ResetTurns
  PROVE  RInv'
<1> USE DEF Executing, AfterJobs
<1>1. PICK W \in Woken : pc' = PcAfterWake(W)
  BY DEF ResetTurns
<1>2. /\ pc \in [Threads -> WorkerPC] /\ pcM = "reset" /\ pcM' = "checkQueue"
      /\ time_to_work' = [t \in Threads |-> 1]
      /\ UNCHANGED <<queue, dataVars, read_from_coeff_array, aJob, files>>
      /\ \A t \in Threads : pc'[t] \in {pc[t], "acquireC"}
  BY <1>1, WokenWait DEF ResetTurns, PcAfterWake, mainVars, IInv, TypeOK
<1>3. /\ \A t \in Threads : time_to_work[t] = 0 /\ aJob[t] = NoJob
      /\ Round \in Nat /\ NextJob = N * Round + N /\ InRounds
      /\ \A t \in Threads : pc[t] \in {"acquireC", "checkTurn", "waiting"}
  BY <1>2, RoundIsFull DEF IInv, PlacesMatchTurns, Parked
<1>4. Takers' = {} /\ Cardinality(Takers') = 0
  BY <1>2, <1>3, FS_EmptySet DEF Takers
<1>5. NextJob' = NextJob /\ Round' = Round + 1 /\ InRounds'
  BY <1>2, RoundIsNat DEF NextJob, Round, InRounds, dataVars, IInv
<1>6. N * (Round + 1) = N * Round + N /\ N * Round \in Nat
  BY <1>3, ConstantTypes, NextBatchStarts
<1>7. NothingStarted' /\ QueueInOrder'
  BY <1>2, <1>3, <1>5 DEF RInv, NothingStarted, QueueInOrder
<1>8. JobsOfRound'
  <2>1. NextJob' = N * Round' + Cardinality(Takers') /\ Round' \in Nat
    BY <1>3, <1>4, <1>5, <1>6, ConstantTypes
  <2>2. N * Round' .. NextJob' - 1 = {}
    BY <1>3, <1>5, <1>6, ConstantTypes
  <2>3. {JobOf(t)' : t \in Takers'} = {}
    BY <1>4
  <2> QED
    BY <2>1, <2>2, <2>3 DEF JobsOfRound
<1>9. ResultsOfRound'
  BY <1>2, <1>3 DEF ResultsOfRound
<1>10. ModeOfRound'
  <2>1. read_from_coeff_array' = 0 => TrainingJobs <= N * Round'
    BY <1>2, <1>3, <1>5, <1>6, ConstantTypes DEF RInv, ModeOfRound
  <2> QED
    BY <1>2, <1>3, <1>4, <2>1 DEF ModeOfRound
<1>11. WorkersHaveJobs' /\ FilesKept' /\ StragglersAreOfLastBatch'
  BY <1>2, <1>3 DEF RInv, WorkersHaveJobs, FilesKept, StragglersAreOfLastBatch
<1> QED
  BY <1>7, <1>8, <1>9, <1>10, <1>11 DEF RInv

\* The files go when the rounds are over, and then main may change the
\* coefficients itself.
LEMMA AfterRoundsPreserves ==
  ASSUME IInv, RInv, RemoveFile \/ ResolveConflicts
  PROVE  RInv'
<1> USE DEF Executing, AfterJobs, schVars, dataVars, mainVars
<1>1. CASE RemoveFile
  BY <1>1
  DEF RemoveFile, RInv, NothingStarted, QueueInOrder, JobsOfRound, ResultsOfRound,
      ModeOfRound, WorkersHaveJobs, FilesKept, StragglersAreOfLastBatch, InRounds,
      Round, NextJob, Takers, JobOf
<1>2. CASE ResolveConflicts
  BY <1>2
  DEF ResolveConflicts, RInv, NothingStarted, QueueInOrder, JobsOfRound, ResultsOfRound,
      ModeOfRound, WorkersHaveJobs, FilesKept, StragglersAreOfLastBatch, InRounds
<1> QED
  BY <1>1, <1>2

\* What a quiet step does to the files, and what main finds when execute_all_jobs
\* returns: whatever the workers still have is a job of the last batch.
LEMMA QuietKeepsFiles ==
  ASSUME IInv, RInv, (\E t \in Threads : QuietWorker(t)) \/ QuietMain
  PROVE  FilesKept' /\ StragglersAreOfLastBatch'
<1> USE DEF Executing, AfterJobs, schVars, dataVars, mainVars
<1>1. CASE CheckQueue
  <2>1. FilesKept'
    BY <1>1 DEF CheckQueue, RInv, FilesKept
  <2>2. ASSUME queue = <<>>, NEW t \in Threads, aJob[t] # NoJob PROVE aJob[t] >= NJobs - N
    <3>1. InRounds /\ NextJob = NJobs /\ t \in Takers /\ JobOf(t) = aJob[t]
      BY <1>1, <2>2, ConstantTypes DEF CheckQueue, InRounds, NextJob, Takers, JobOf
    <3>2. /\ Round \in Nat /\ aJob[t] \in N * Round .. NJobs - 1
          /\ NJobs = N * Round + Cardinality(Takers)
      BY <3>1 DEF RInv, JobsOfRound
    <3>3. N * Round \in Nat
      BY <3>2, ConstantTypes
    <3> QED
      BY <3>2, <3>3, TakersCounted, ConstantTypes
  <2>3. StragglersAreOfLastBatch'
    BY <1>1, <2>2 DEF CheckQueue, NothingQueued, queue_empty, StragglersAreOfLastBatch
  <2> QED
    BY <2>1, <2>3
<1>2. CASE ReportAccuracy \/ Destroy
  BY <1>2 DEF ReportAccuracy, Destroy, RInv, FilesKept, StragglersAreOfLastBatch
<1>3. CASE Execute \/ CreateThread \/ MainAcquireT \/ MainWait
             \/ MainSpuriousWakeup \/ MainAcquireC
  BY <1>3 DEF Execute, CreateThread, MainAcquireT, MainWait, MainSpuriousWakeup, MainAcquireC,
              RInv, FilesKept, StragglersAreOfLastBatch
<1>4. ASSUME NEW t \in Threads, QuietWorker(t)
      PROVE  FilesKept' /\ StragglersAreOfLastBatch'
  BY <1>4 DEF QuietWorker, AcquireC, WaitTurn, PassTurn, SpuriousWakeup,
              RInv, FilesKept, StragglersAreOfLastBatch
<1> QED
  BY <1>1, <1>2, <1>3, <1>4 DEF QuietMain

\* Every step preserves the invariant of the rounds.
LEMMA NextRounds == IInv /\ RInv /\ [Next]_vars => RInv'
<1> SUFFICES ASSUME IInv, RInv, [Next]_vars PROVE RInv'
  OBVIOUS
<1>1. CASE (\E t \in Threads : QuietWorker(t)) \/ QuietMain
  <2>1. Quiet
    BY <1>1, QuietWorkerStep, QuietMainStep
  <2> QED
    BY <1>1, <2>1, QuietPreserves, QuietKeepsFiles DEF RInv
<1>2. ASSUME NEW t \in Threads,
             \/ TakeJob(t)  \/ LeaveTraining(t) \/ StartJob(t)
             \/ FinishJob(t) \/ Complete(t)
      PROVE  RInv'
  BY <1>2, TakeJobPreserves, LeaveTrainingPreserves, StartJobPreserves,
     FinishJobPreserves, CompletePreserves
<1>3. CASE Submit \/ Aggregate \/ ResetTurns \/ RemoveFile \/ ResolveConflicts
  BY <1>3, SubmitPreserves, AggregatePreserves, ResetTurnsPreserves, AfterRoundsPreserves
<1>4. CASE UNCHANGED vars
  BY <1>4
  DEF vars, RInv, NothingStarted, QueueInOrder, JobsOfRound, ResultsOfRound, ModeOfRound,
      WorkersHaveJobs, FilesKept, StragglersAreOfLastBatch, InRounds, Round, NextJob,
      Takers, JobOf
<1> QED
  BY <1>1, <1>2, <1>3, <1>4
  DEF Next, MainStep, Worker, Terminated, QuietWorker, QuietMain

-----------------------------------------------------------------------------
\* The invariant of the rounds holds in every state of every behaviour.
THEOREM RoundsInvariance == Spec => []RInv
<1>1. Init => RInv
  BY InitRounds
<1>2. IInv /\ RInv /\ [Next]_vars => RInv'
  BY NextRounds
<1> QED
  BY <1>1, <1>2, Invariance, PTL DEF Spec

\* When execute_all_jobs has returned nobody takes a job any more, and what a
\* worker still runs is a job of the last batch: no batch that was accounted
\* for is touched, and none before the last is lost.
THEOREM StragglersBelongToLastBatch == Spec => []StragglersAreOfLastBatch
BY RoundsInvariance, PTL DEF RInv

\* No worker runs ahead of a round: whoever takes a job takes one of the batch
\* whose number is that of the batches accounted for, although main gives the
\* turns back with one signal and the threads wake each other.
THEOREM RoundsAreBarriers == Spec => RoundBarrier
<1>1. ASSUME IInv, RInv, [Next]_vars, NEW t \in Threads, aJob'[t] # aJob[t], aJob'[t] # NoJob
      PROVE  aJob'[t] \div N = Len(coefficients) + Len(tested)
  <2>1. TakeJob(t)
    <3>1. aJob \in [Threads -> JobIds \cup {NoJob}]
      BY <1>1 DEF IInv, TypeOK
    <3>2. ASSUME NEW u \in Threads, TakeJob(u) PROVE u = t
      BY <1>1, <3>1, <3>2 DEF TakeJob
    <3>3. ASSUME NEW u \in Threads, Complete(u) PROVE FALSE
      BY <1>1, <3>1, <3>3 DEF Complete
    <3>4. (\E u \in Threads : TakeJob(u) \/ Complete(u)) \/ aJob' = aJob
      BY <1>1
      DEF Next, MainStep, Worker, Terminated, vars, AcquireC, WaitTurn, PassTurn,
          LeaveTraining, StartJob, FinishJob, SpuriousWakeup, Submit, Execute, CreateThread,
          MainAcquireT, MainWait, MainSpuriousWakeup, Aggregate, MainAcquireC, ResetTurns,
          CheckQueue, RemoveFile, ReportAccuracy, ResolveConflicts, Destroy
    <3> QED
      BY <1>1, <3>2, <3>3, <3>4
  <2>2. queue # <<>> /\ aJob'[t] = Head(queue)
    BY <1>1, <2>1 DEF TakeJob, queue_empty, IInv, TypeOK
  <2>3. /\ pcM \in Executing \ {"submit", "acquireC", "reset"}
        /\ Head(queue) = NextJob /\ NextJob \in N * Round .. N * Round + N - 1
    BY <1>1, <2>1, <2>2, TakenJob
  <2>4. Round = Len(coefficients) + Len(tested) /\ Round \in Nat
    BY <1>1, <2>3, RoundIsNat DEF Round, IInv
  <2>5. NextJob \in Nat /\ N * Round \in Nat
    BY <2>3, <2>4, ConstantTypes
  <2>6. N * Round <= NextJob /\ NextJob < N * Round + N
    BY <2>3, <2>5, ConstantTypes
  <2>7. NextJob \div N = Round
    BY <2>4, <2>5, <2>6, BatchMembers, ThreadsCounted
  <2> QED
    BY <2>2, <2>3, <2>4, <2>7
<1>2. IInv /\ RInv /\ [Next]_vars =>
        [\A t \in Threads : aJob'[t] # aJob[t] /\ aJob'[t] # NoJob
           => aJob'[t] \div N = Len(coefficients) + Len(tested)]_vars
  BY <1>1
<1> QED
  BY <1>2, Invariance, RoundsInvariance, PTL DEF Spec, RoundBarrier

-----------------------------------------------------------------------------
(* The refinement: the threads together implement SerialBatches. *)

handedOverBar == pcM \in {"resolve", "destroy"} \cup Ended /\ files = {}

\* While main is in the rounds, the batch that SerialBatches does next is the
\* one the threads work on.
LEMMA NextBatchIs ==
  ASSUME IInv, RInv, Round = Serial!Processed, InRounds, NextJob = N * Round + N
  PROVE  Serial!NextBatch = N * Round .. NextJob - 1
<1>1. Round \in Nat /\ N * Round \in Nat
  BY ConstantTypes DEF RInv, JobsOfRound
<1>2. NextJob \in Nat /\ NextJob <= NJobs
  BY <1>1, RoundIsNat, ConstantTypes DEF NextJob, IInv
<1>3. ASSUME NEW j \in 0 .. NJobs - 1
      PROVE  j \div N = Round <=> N * Round <= j /\ j < N * Round + N
  BY <1>1, <1>3, BatchMembers, ThreadsCounted
<1>4. Serial!NextBatch = {j \in 0 .. NJobs - 1 : N * Round <= j /\ j < N * Round + N}
  BY <1>3 DEF Serial!NextBatch
<1> QED
  BY <1>1, <1>2, <1>4, ConstantTypes

\* The aggregation of a round is the step of one thread that does the batch by
\* itself: the slots are one for each job of the batch, each finished and each
\* computed from the coefficients the previous batch left.
LEMMA AggregateIsBatch ==
  ASSUME IInv, RInv, Aggregate
  PROVE  Serial!Train \/ Serial!Test
<1> DEFINE slots == {result[t] : t \in Threads}
<1>1. pcM = "checkDone" /\ AllComplete
  BY DEF Aggregate
<1>2. /\ InRounds /\ Takers = Threads /\ Round \in Nat /\ N * Round \in Nat
      /\ \A t \in Threads : time_to_work[t] = 0 /\ aJob[t] = NoJob
      /\ NextJob = N * Round + N
  BY <1>1, RoundIsFull
<1>3. Round = Serial!Processed
  BY <1>1, RoundIsNat DEF Round, Serial!Processed, IInv
<1>4. Serial!NextBatch = N * Round .. NextJob - 1
  BY <1>2, <1>3, NextBatchIs
<1>5. {result[t].job : t \in Threads} = Serial!NextBatch
  BY <1>2, <1>4 DEF RInv, JobsOfRound, JobOf
<1>6. \A t \in Threads :
        result[t] = [job |-> result[t].job, base |-> Len(coefficients), done |-> TRUE]
  <2> SUFFICES ASSUME NEW t \in Threads
               PROVE  result[t] = [job |-> result[t].job, base |-> Len(coefficients), done |-> TRUE]
    OBVIOUS
  <2>1. result[t] \in Contribution
    BY DEF IInv, TypeOK
  <2>2. result[t].base = Len(coefficients)
    BY <1>1, <1>2 DEF RInv, ResultsOfRound
  <2>3. result[t].done = TRUE
    BY <1>2, <2>1 DEF IInv, PlacesMatchTurns, Parked, Contribution
  <2> QED
    BY <2>1, <2>2, <2>3 DEF Contribution
<1>7. slots = Serial!Outcome
  BY <1>5, <1>6 DEF Serial!Outcome
<1>8. Serial!NextBatch # {}
  BY <1>2, <1>4, ThreadsCounted
<1>9. ~handedOverBar /\ ~handedOverBar'
  BY <1>1 DEF handedOverBar, Ended, Aggregate
<1>10. CASE read_from_coeff_array = 1
  <2>1. \A j \in Serial!NextBatch : j < TrainingJobs
    <3>1. ASSUME NEW t \in Threads PROVE IsTraining(result[t].job)
      BY <1>2, <1>10 DEF RInv, ModeOfRound, JobOf, IInv, PlacesMatchTurns, Parked
    <3> QED
      BY <1>5, <3>1 DEF IsTraining
  <2>2. coefficients' = Append(coefficients, slots) /\ tested' = tested
    BY <1>10 DEF Aggregate
  <2> QED
    BY <1>7, <1>8, <1>9, <2>1, <2>2 DEF Serial!Train, handedOverBar
<1>11. CASE read_from_coeff_array = 0
  <2>1. TrainingJobs <= N * Round
    BY <1>2, <1>11 DEF RInv, ModeOfRound
  <2>2. \A j \in Serial!NextBatch : j >= TrainingJobs
    BY <1>2, <1>4, <2>1, ConstantTypes
  <2>3. tested' = Append(tested, slots) /\ coefficients' = coefficients
    BY <1>11 DEF Aggregate
  <2> QED
    BY <1>7, <1>8, <1>9, <2>2, <2>3 DEF Serial!Test, handedOverBar
<1> QED
  BY <1>10, <1>11 DEF IInv, TypeOK

\* The caller takes over when every batch but the last is accounted for.
LEMMA HandOverIsAllowed ==
  ASSUME IInv, RInv, pcM \in {"removeFiles", "resolve"}
  PROVE  (Serial!Processed + 1) * N >= NJobs
<1>1. InRounds /\ queue = <<>> /\ Round = Serial!Processed
  BY RoundIsNat DEF InRounds, RInv, StragglersAreOfLastBatch, AfterJobs, Round,
                    Serial!Processed, IInv
<1>2. NJobs = N * Round + Cardinality(Takers) /\ Round \in Nat
  BY <1>1, ConstantTypes DEF RInv, JobsOfRound, NextJob
<1>3. (Round + 1) * N = N * Round + N /\ N * Round \in Nat
  BY <1>2, ConstantTypes
<1> QED
  BY <1>1, <1>2, <1>3, TakersCounted, ConstantTypes

\* A worker that finds no batch file ends the process, which hands over what
\* there is: only when the files are gone, and main is past the rounds.
LEMMA WorkerStutters ==
  ASSUME IInv, RInv, NEW t \in Threads, Worker(t) \/ SpuriousWakeup(t)
  PROVE  Serial!HandOver \/ UNCHANGED Serial!svars
<1> USE DEF handedOverBar, Executing, AfterJobs, Ended, schVars, dataVars, mainVars, At, Running
<1>1. CASE StartJob(t)
  <2>1. UNCHANGED <<coefficients, tested, files>>
    BY <1>1 DEF StartJob
  <2>2. CASE FileName(aJob[t]) \in files
    BY <1>1, <2>1, <2>2 DEF StartJob, Serial!svars
  <2>3. CASE files # {}
    BY <2>1, <2>3 DEF Serial!svars
  <2>4. CASE files = {} /\ pcM \in {"resolve", "destroy"}
    BY <1>1, <2>1, <2>4 DEF StartJob, Serial!svars
  <2>5. CASE files = {} /\ pcM = "removeFiles"
    <3>1. (Serial!Processed + 1) * N >= NJobs
      BY <2>5, HandOverIsAllowed
    <3>2. pcM' \in {pcM, "aborted"}
      BY <1>1 DEF StartJob
    <3> QED
      BY <2>1, <2>5, <3>1, <3>2 DEF Serial!HandOver, Serial!svars
  <2>6. CASE files = {} /\ pcM \in Executing
    <3>1. BatchFiles = {}
      BY <2>6 DEF RInv, FilesKept
    <3>2. TrainingFiles = 0 /\ TestFiles = 0
      BY <3>1, FilesAssumption DEF BatchFiles
    <3>3. NJobs = 0
      BY <3>2, FilesAssumption DEF NJobs, TrainingJobs
    <3>4. aJob[t] \in JobIds
      BY <1>1 DEF StartJob, IInv, TypeOK, RInv, WorkersHaveJobs
    <3> QED
      BY <3>3, <3>4 DEF JobIds
  <2> QED
    BY <1>1, <2>2, <2>3, <2>4, <2>5, <2>6 DEF StartJob, IInv, TypeOK
<1>2. CASE \/ AcquireC(t) \/ WaitTurn(t) \/ TakeJob(t) \/ PassTurn(t) \/ LeaveTraining(t)
           \/ FinishJob(t) \/ Complete(t) \/ SpuriousWakeup(t)
  BY <1>2 DEF AcquireC, WaitTurn, TakeJob, PassTurn, LeaveTraining, FinishJob, Complete,
              SpuriousWakeup, Serial!svars
<1> QED
  BY <1>1, <1>2 DEF Worker

\* What main does outside the aggregation is a step of the caller or none.
LEMMA MainRefines ==
  ASSUME IInv, RInv, MainStep \/ MainSpuriousWakeup
  PROVE  Serial!Next \/ UNCHANGED Serial!svars
<1> USE DEF handedOverBar, Executing, AfterJobs, Ended, schVars, dataVars, mainVars
<1>1. CASE Aggregate
  BY <1>1, AggregateIsBatch DEF Serial!Next
<1>2. CASE ReportAccuracy
  <2>1. (Serial!Processed + 1) * N >= NJobs
    BY <1>2, HandOverIsAllowed DEF ReportAccuracy
  <2> QED
    BY <1>2, <2>1 DEF ReportAccuracy, Serial!Next, Serial!HandOver
<1>3. CASE ResolveConflicts
  BY <1>3 DEF ResolveConflicts, RInv, FilesKept, Serial!Next, Serial!CallerUpdate, Serial!svars
<1>4. CASE Destroy
  BY <1>4 DEF Destroy, Serial!svars
<1>5. CASE \/ Submit \/ Execute \/ CreateThread \/ MainAcquireT \/ MainWait \/ MainAcquireC
           \/ ResetTurns \/ CheckQueue \/ RemoveFile \/ MainSpuriousWakeup
  BY <1>5 DEF Submit, Execute, CreateThread, MainAcquireT, MainWait, MainAcquireC, ResetTurns,
              CheckQueue, RemoveFile, MainSpuriousWakeup, Serial!svars
<1> QED
  BY <1>1, <1>2, <1>3, <1>4, <1>5 DEF MainStep

\* The scheduler with all its threads does what SerialBatches, a single thread,
\* does: each batch is made of the jobs next in line, a training batch is one
\* update computed from what the batch before it left, a testing batch is
\* counted once, and at most the last batch is missing when main reads the
\* accuracy.
THEOREM ImplementsOneThread == Spec => ImplementsSerialBatches
<1>1. Init => Serial!Init
  BY DEF Init, Serial!Init, Ended
<1>2. IInv /\ RInv /\ [Next]_vars => [Serial!Next]_(Serial!svars)
  <2> SUFFICES ASSUME IInv, RInv, [Next]_vars
               PROVE  Serial!Next \/ UNCHANGED Serial!svars
    OBVIOUS
  <2>1. CASE MainStep \/ MainSpuriousWakeup
    BY <2>1, MainRefines
  <2>2. ASSUME NEW t \in Threads, Worker(t) \/ SpuriousWakeup(t)
        PROVE  Serial!Next \/ UNCHANGED Serial!svars
    BY <2>2, WorkerStutters DEF Serial!Next
  <2>3. CASE UNCHANGED vars
    BY <2>3 DEF vars, Serial!svars
  <2> QED
    BY <2>1, <2>2, <2>3 DEF Next, Terminated
<1> QED
  BY <1>1, <1>2, Invariance, RoundsInvariance, PTL DEF Spec, ImplementsSerialBatches, Serial!Spec

-----------------------------------------------------------------------------
(* Progress: the signal of a round is passed on, and execute_all_jobs does *)
(* not come to a standstill.                                               *)

\* main waits, and runs another round, only when there is another round to run.
AnotherRound ==
  pcM \in {"submit", "create", "acquireT", "checkDone", "waiting"} /\ NJobs > 0
    => N * Round < NJobs

\* main waits for somebody: the last thread to complete wakes it.
MainWaitsForSomebody == pcM = "waiting" => ~AllComplete

\* main leaves the creation of the threads when all of them exist.
ThreadsAreBorn ==
  /\ pcM = "create" => \E t \in Threads : pc[t] = "unborn"
  /\ pcM \in Executing \ {"submit", "create"} => \A t \in Threads : pc[t] # "unborn"

\* A thread returns only if there is no job left.
ReturnedFoundNothing ==
  \A t \in Threads : pc[t] = "returned" \/ (pc[t] = "passTurn" /\ aJob[t] = NoJob)
    => pcM # "submit" /\ queue = <<>> /\ aJob[t] = NoJob

\* The waiters are in line, and those whose turn is over stand behind those that
\* have a turn.
WaitersInLine ==
  FifoWakeups =>
    \A t \in Waiting :
      /\ ahead[t] \subseteq Waiting /\ t \notin ahead[t]
      /\ \A u \in ahead[t] : ahead[u] \subseteq ahead[t]
      /\ time_to_work[t] = 0 => \A u \in Waiting : time_to_work[u] = 1 => u \in ahead[t]

\* The signal of a round goes round (scheduler.c:98, 184): while a thread that has
\* a turn waits, another one that has a turn is before the queue and will signal.
\* Threads whose turn is over wait on the same condition; if the longest waiter is
\* woken, they are behind all those that have a turn and cannot take the signal away.
SignalIsPassedOn ==
  FifoWakeups /\ (\E t \in Waiting : time_to_work[t] = 1)
    => \E u \in Threads : /\ time_to_work[u] = 1
                          /\ pc[u] \in {"acquireC", "checkTurn", "passTurn"}

\* The inductive invariant of progress, on top of IInv and RInv.
PInv == /\ AnotherRound /\ MainWaitsForSomebody /\ ThreadsAreBorn
        /\ ReturnedFoundNothing /\ WaitersInLine /\ SignalIsPassedOn

\* There is a next job only if the round that has begun is not the last one.
LEMMA QueueMeansRound ==
  ASSUME IInv, RInv, pcM = "checkQueue", queue # <<>>
  PROVE  N * Round < NJobs
<1>1. InRounds /\ NextJob = NJobs - Len(queue)
  BY DEF InRounds, Executing, NextJob
<1>2. NextJob = N * Round + Cardinality(Takers) /\ Round \in Nat
  BY <1>1 DEF RInv, JobsOfRound
<1>3. N * Round \in Nat
  BY <1>2, ConstantTypes
<1>4. Len(queue) \in Nat \ {0}
  BY DEF IInv, TypeOK
<1> QED
  BY <1>1, <1>2, <1>3, <1>4, TakersCounted, ConstantTypes

\* main goes on to another round only when the queue says that there is one.
LEMMA AnotherRoundStep ==
  ASSUME IInv, RInv, AnotherRound, [Next]_vars
  PROVE  AnotherRound'
<1> USE DEF vars, schVars, dataVars, mainVars, AnotherRound
<1>1. CASE CheckQueue
  <2>1. Round' = Round
    BY <1>1 DEF CheckQueue, Round
  <2> QED
    BY <1>1, <2>1, QueueMeansRound DEF CheckQueue, NothingQueued, queue_empty
<1>2. CASE Aggregate \/ MainAcquireC \/ ResetTurns \/ RemoveFile \/ ReportAccuracy
             \/ ResolveConflicts \/ Destroy
  BY <1>2 DEF Aggregate, MainAcquireC, ResetTurns, RemoveFile, ReportAccuracy,
              ResolveConflicts, Destroy
<1>3. CASE Submit \/ Execute \/ CreateThread \/ MainAcquireT \/ MainWait \/ MainSpuriousWakeup
  <2>1. Round' = Round
    BY <1>3 DEF Submit, Execute, CreateThread, MainAcquireT, MainWait, MainSpuriousWakeup, Round
  <2> QED
    BY <1>3, <2>1 DEF Submit, Execute, CreateThread, MainAcquireT, MainWait, MainSpuriousWakeup
<1>4. ASSUME NEW t \in Threads, Worker(t) \/ SpuriousWakeup(t)
      PROVE  AnotherRound'
  <2>1. /\ UNCHANGED <<coefficients, tested>>
        /\ pcM' = pcM \/ (pcM = "waiting" /\ pcM' = "acquireT") \/ pcM' = "aborted"
    BY <1>4 DEF Worker, AcquireC, WaitTurn, TakeJob, PassTurn, LeaveTraining, StartJob,
                FinishJob, Complete, SpuriousWakeup
  <2>2. pcM' # "aborted" => Round' = Round
    BY <2>1 DEF Round
  <2> QED
    BY <2>1, <2>2
<1>5. CASE UNCHANGED vars
  BY <1>5 DEF Round
<1> QED
  BY <1>1, <1>2, <1>3, <1>4, <1>5 DEF Next, MainStep, Terminated

\* The counter moves only with main awake, and the last to complete wakes it.
LEMMA MainWaitsStep ==
  ASSUME MainWaitsForSomebody, [Next]_vars
  PROVE  MainWaitsForSomebody'
BY DEF MainWaitsForSomebody, AllComplete, Next, MainStep, Worker, Terminated, vars, schVars,
       dataVars, mainVars, AcquireC, WaitTurn, TakeJob, PassTurn, LeaveTraining, StartJob,
       FinishJob, Complete, SpuriousWakeup, Submit, Execute, CreateThread, MainAcquireT,
       MainWait, MainSpuriousWakeup, Aggregate, MainAcquireC, ResetTurns, CheckQueue,
       RemoveFile, ReportAccuracy, ResolveConflicts, Destroy

\* A signal creates nobody and sends nobody home.
LEMMA WokenMove ==
  ASSUME TypeOK, NEW W \in Woken, NEW t \in Threads
  PROVE  /\ t \in W => pc[t] = "waiting" /\ PcAfterWake(W)[t] = "acquireC"
         /\ t \notin W => PcAfterWake(W)[t] = pc[t]
BY WokenWait DEF PcAfterWake

\* The threads are created one by one and stay.
LEMMA ThreadsAreBornStep ==
  ASSUME IInv, RInv, ThreadsAreBorn, [Next]_vars
  PROVE  ThreadsAreBorn'
<1> USE DEF vars, schVars, dataVars, mainVars, Executing, ThreadsAreBorn
<1>0. pc \in [Threads -> WorkerPC]
  BY DEF IInv, TypeOK
<1>1. CASE CreateThread
  <2>1. PICK t \in Threads :
          /\ pc[t] = "unborn"
          /\ pc' = [pc EXCEPT ![t] = "acquireC"]
          /\ pcM' = IF \A u \in Threads \ {t} : pc[u] # "unborn" THEN "acquireT" ELSE "create"
    BY <1>1 DEF CreateThread
  <2> QED
    BY <1>0, <2>1
<1>2. CASE Execute
  <2>1. \A t \in Threads : pc[t] = "unborn"
    BY <1>2 DEF Execute, RInv, NothingStarted
  <2> QED
    BY <1>2, <2>1, ThreadsAssumption DEF Execute
<1>3. CASE ResetTurns
  <2>1. PICK W \in Woken : pc' = PcAfterWake(W)
    BY <1>3 DEF ResetTurns
  <2>2. pcM = "reset" /\ pcM' = "checkQueue"
    BY <1>3 DEF ResetTurns
  <2> QED
    BY <2>1, <2>2, WokenMove DEF IInv
<1>4. CASE \/ Submit \/ MainAcquireT \/ MainWait \/ MainSpuriousWakeup \/ Aggregate
           \/ MainAcquireC \/ CheckQueue \/ RemoveFile \/ ReportAccuracy
           \/ ResolveConflicts \/ Destroy
  BY <1>4 DEF Submit, MainAcquireT, MainWait, MainSpuriousWakeup, Aggregate, MainAcquireC,
              CheckQueue, RemoveFile, ReportAccuracy, ResolveConflicts, Destroy
<1>5. ASSUME NEW t \in Threads, Worker(t) \/ SpuriousWakeup(t)
      PROVE  ThreadsAreBorn'
  <2>1. /\ pcM' = pcM \/ (pcM = "waiting" /\ pcM' = "acquireT") \/ pcM' = "aborted"
        /\ \A u \in Threads : pc'[u] = "unborn" <=> pc[u] = "unborn"
    <3>1. CASE PassTurn(t)
      <4>1. PICK W \in Woken : pc' = [PcAfterWake(W) EXCEPT ![t] =
                   CASE aJob[t] = NoJob     -> "returned"
                     [] aJob[t] # NoJob /\ IsTraining(aJob[t])  -> "start"
                     [] aJob[t] # NoJob /\ ~IsTraining(aJob[t]) -> "leaveTraining"]
        BY <3>1 DEF PassTurn
      <4>2. \A u \in Threads : PcAfterWake(W)[u] = "unborn" <=> pc[u] = "unborn"
        BY WokenMove DEF IInv
      <4>3. PcAfterWake(W) = [u \in Threads |-> PcAfterWake(W)[u]]
        BY DEF PcAfterWake
      <4>4. pc[t] # "unborn" /\ pc'[t] # "unborn" /\ pcM' = pcM
        BY <3>1, <4>1, <4>3 DEF PassTurn, At
      <4> QED
        BY <4>1, <4>2, <4>3, <4>4
    <3>2. CASE SpuriousWakeup(t)
      BY <1>0, <3>2 DEF SpuriousWakeup, PcAfterWake, At
    <3>3. CASE \/ AcquireC(t) \/ WaitTurn(t) \/ TakeJob(t) \/ LeaveTraining(t)
               \/ StartJob(t) \/ FinishJob(t) \/ Complete(t)
      BY <1>0, <3>3 DEF AcquireC, WaitTurn, TakeJob, LeaveTraining, StartJob, FinishJob,
                        Complete, At
    <3> QED
      BY <1>5, <3>1, <3>2, <3>3 DEF Worker
  <2> QED
    BY <2>1
<1>6. CASE UNCHANGED vars
  BY <1>6
<1> QED
  BY <1>1, <1>2, <1>3, <1>4, <1>5, <1>6 DEF Next, MainStep, Terminated

\* Where a thread goes that has passed its turn on.
Onward(t) == CASE aJob[t] = NoJob     -> "returned"
               [] aJob[t] # NoJob /\ IsTraining(aJob[t])  -> "start"
               [] aJob[t] # NoJob /\ ~IsTraining(aJob[t]) -> "leaveTraining"

\* The thread leaves the queue, and those its signal wakes, if any, go to take C.
LEMMA PassTurnMoves ==
  ASSUME TypeOK, NEW t \in Threads, PassTurn(t)
  PROVE  \E W \in Woken :
           /\ Wake(W) /\ t \notin W /\ pc'[t] = Onward(t) /\ pc[t] = "passTurn"
           /\ \A u \in Threads \ {t} : pc'[u] = IF u \in W THEN "acquireC" ELSE pc[u]
<1>1. PICK W \in Woken :
         Wake(W) /\ pc' = [PcAfterWake(W) EXCEPT ![t] =
                   CASE aJob[t] = NoJob     -> "returned"
                     [] aJob[t] # NoJob /\ IsTraining(aJob[t])  -> "start"
                     [] aJob[t] # NoJob /\ ~IsTraining(aJob[t]) -> "leaveTraining"]
  BY DEF PassTurn
<1>2. pc' = [PcAfterWake(W) EXCEPT ![t] = Onward(t)]
  BY <1>1 DEF Onward
<1>3. pc[t] = "passTurn"
  BY DEF PassTurn, At
<1>4. t \notin W
  BY <1>3, WokenWait
<1>5. \A u \in Threads : pc'[u] = IF u = t THEN Onward(t)
                                ELSE IF u \in W THEN "acquireC" ELSE pc[u]
  BY <1>2, Zenon DEF PcAfterWake
<1> QED
  BY <1>1, <1>3, <1>4, <1>5

\* A thread goes home only with the queue empty, and nothing is added to it then.
LEMMA ReturnedStep ==
  ASSUME IInv, RInv, ReturnedFoundNothing, [Next]_vars
  PROVE  ReturnedFoundNothing'
<1> USE DEF vars, schVars, dataVars, mainVars, ReturnedFoundNothing
<1>0. /\ pc \in [Threads -> WorkerPC] /\ aJob \in [Threads -> JobIds \cup {NoJob}]
      /\ queue \in Seq(JobIds)
  BY DEF IInv, TypeOK
<1>1. ASSUME NEW t \in Threads, TakeJob(t)
      PROVE  ReturnedFoundNothing'
  <2>1. pc[t] = "checkTurn" /\ pc' = [pc EXCEPT ![t] = "passTurn"] /\ pcM' = pcM /\ pcM # "submit"
    BY <1>1 DEF TakeJob, At, RInv, NothingStarted
  <2>2. CASE queue = <<>>
    BY <1>0, <1>1, <2>1, <2>2 DEF TakeJob, queue_empty
  <2>3. CASE queue # <<>>
    <3>1. Head(queue) # NoJob
      BY <1>0, <2>3, ConstantTypes DEF JobIds, NoJob
    <3>2. aJob' = [aJob EXCEPT ![t] = Head(queue)]
      BY <1>1, <2>3 DEF TakeJob, queue_empty
    <3> QED
      BY <1>0, <2>1, <2>3, <3>1, <3>2
  <2> QED
    BY <2>2, <2>3
<1>2. ASSUME NEW t \in Threads, PassTurn(t)
      PROVE  ReturnedFoundNothing'
  <2>1. PICK W \in Woken :
           /\ pc'[t] = Onward(t) /\ pc[t] = "passTurn"
           /\ \A u \in Threads \ {t} : pc'[u] = IF u \in W THEN "acquireC" ELSE pc[u]
    BY <1>2, PassTurnMoves DEF IInv
  <2>2. UNCHANGED <<queue, aJob, pcM>>
    BY <1>2 DEF PassTurn
  <2>3. pc'[t] # "passTurn" /\ (pc'[t] = "returned" => aJob[t] = NoJob)
    BY <2>1 DEF Onward
  <2> QED
    BY <2>1, <2>2, <2>3
<1>3. ASSUME NEW t \in Threads,
             \/ AcquireC(t)  \/ WaitTurn(t) \/ LeaveTraining(t) \/ StartJob(t)
             \/ FinishJob(t) \/ Complete(t) \/ SpuriousWakeup(t)
      PROVE  ReturnedFoundNothing'
  BY <1>0, <1>3 DEF AcquireC, WaitTurn, LeaveTraining, StartJob, FinishJob, Complete,
                    SpuriousWakeup, PcAfterWake, At
<1>4. CASE Submit
  BY <1>4 DEF Submit, RInv, NothingStarted
<1>5. CASE ResetTurns
  <2>1. PICK W \in Woken : pc' = PcAfterWake(W)
    BY <1>5 DEF ResetTurns
  <2>2. \A t \in Threads : pc'[t] \in {pc[t], "acquireC"}
    BY <2>1 DEF PcAfterWake
  <2> QED
    BY <1>5, <2>2 DEF ResetTurns
<1>6. CASE CreateThread
  BY <1>0, <1>6 DEF CreateThread
<1>7. CASE \/ Execute \/ MainAcquireT \/ MainWait \/ MainSpuriousWakeup \/ Aggregate
           \/ MainAcquireC \/ CheckQueue \/ RemoveFile \/ ReportAccuracy
           \/ ResolveConflicts \/ Destroy
  BY <1>7 DEF Execute, MainAcquireT, MainWait, MainSpuriousWakeup, Aggregate,
              MainAcquireC, CheckQueue, RemoveFile, ReportAccuracy, ResolveConflicts, Destroy
<1>8. CASE UNCHANGED vars
  BY <1>8
<1> QED
  BY <1>1, <1>2, <1>3, <1>4, <1>5, <1>6, <1>7, <1>8 DEF Next, MainStep, Worker, Terminated

-----------------------------------------------------------------------------
(* The line of the waiters. *)

\* The order of the natural numbers as a relation.
Below == {pair \in Nat \X Nat : pair[1] < pair[2]}

\* A non-empty set of numbers has a least one.
LEMMA LeastNumber ==
  ASSUME NEW S \in SUBSET Nat, S # {}
  PROVE  \E m \in S : \A n \in S : m <= n
<1>1. IsWellFoundedOn(Below, Nat)
  <2>1. OpToRel(<, Nat) = Below
    BY Zenon DEF OpToRel, Below
  <2> QED
    BY <2>1, NatLessThanWellFounded
<1>2. PICK m \in S : \A n \in S : ~(<<n, m>> \in Below)
  BY <1>1, WFMin
<1>3. ASSUME NEW n \in S PROVE m <= n
  <2>1. m \in Nat /\ n \in Nat
    OBVIOUS
  <2>2. <<n, m>> \in Nat \X Nat /\ <<n, m>>[1] = n /\ <<n, m>>[2] = m
    BY <2>1
  <2>3. ~(n < m)
    BY <1>2, <2>2 DEF Below
  <2> QED
    BY <2>1, <2>3
<1> QED
  BY <1>3

\* A line has a front: as long as a thread waits, a signal wakes one.
LEMMA FrontExists ==
  ASSUME TypeOK, FifoWakeups, WaitersInLine, Waiting # {}
  PROVE  Wakeable # {}
<1> DEFINE Places == {Cardinality(ahead[t]) : t \in Waiting}
<1>1. \A t \in Waiting : IsFiniteSet(ahead[t]) /\ Cardinality(ahead[t]) \in Nat
  <2>1. SUFFICES ASSUME NEW t \in Waiting
                 PROVE  IsFiniteSet(ahead[t]) /\ Cardinality(ahead[t]) \in Nat
    OBVIOUS
  <2>2. ahead[t] \subseteq Threads
    BY DEF Waiting, TypeOK
  <2> QED
    BY <2>2, ThreadsAssumption, FS_Subset, FS_CardinalityType
<1>2. Places \in SUBSET Nat /\ Places # {}
  BY <1>1
<1>3. PICK m \in Places : \A n \in Places : m <= n
  BY <1>2, LeastNumber
<1>4. PICK t \in Waiting : m = Cardinality(ahead[t])
  OBVIOUS
<1>5. ASSUME NEW u \in ahead[t] PROVE FALSE
  <2>1. u \in Waiting /\ ahead[u] \subseteq ahead[t] /\ u \notin ahead[u]
    BY <1>5 DEF WaitersInLine
  <2>2. Cardinality(ahead[u]) < Cardinality(ahead[t])
    BY <1>1, <1>5, <2>1, FS_Subset
  <2> QED
    BY <1>1, <1>3, <1>4, <2>1, <2>2
<1> QED
  BY <1>4, <1>5 DEF Wakeable

\* The C library stays the same.
LEMMA WakeupStays == ASSUME [Next]_vars PROVE wakeup' = wakeup
BY DEF Next, MainStep, Worker, Terminated, vars, mainVars, Submit, Execute, CreateThread,
       MainAcquireT, MainWait, MainSpuriousWakeup, Aggregate, MainAcquireC, ResetTurns,
       CheckQueue, RemoveFile, ReportAccuracy, ResolveConflicts, Destroy, AcquireC, WaitTurn,
       TakeJob, PassTurn, LeaveTraining, StartJob, FinishJob, Complete, SpuriousWakeup

\* The line closes up when some of the waiters leave it, whichever they are.
LEMMA WakeKeepsLine ==
  ASSUME TypeOK, WaitersInLine, NEW W \in SUBSET Waiting, Wake(W), wakeup' = wakeup,
         Waiting' = Waiting \ W,
         \A t \in Waiting' : time_to_work'[t] \in {time_to_work[t], 1},
         (\A t \in Waiting' : time_to_work'[t] = time_to_work[t])
           \/ (\A t \in Waiting' : time_to_work'[t] = 1)
  PROVE  WaitersInLine'
<1> SUFFICES ASSUME FifoWakeups', NEW t \in Waiting'
             PROVE  /\ ahead'[t] \subseteq Waiting' /\ t \notin ahead'[t]
                    /\ \A u \in ahead'[t] : ahead'[u] \subseteq ahead'[t]
                    /\ time_to_work'[t] = 0 =>
                         \A u \in Waiting' : time_to_work'[u] = 1 => u \in ahead'[t]
  BY DEF WaitersInLine
<1>1. \A u \in Waiting' : u \in Waiting /\ u \notin W /\ ahead'[u] = ahead[u] \ W
  BY DEF Wake, Waiting
<1>2. \A u \in Waiting : /\ ahead[u] \subseteq Waiting /\ u \notin ahead[u]
                         /\ \A v \in ahead[u] : ahead[v] \subseteq ahead[u]
                         /\ time_to_work[u] = 0 =>
                              \A v \in Waiting : time_to_work[v] = 1 => v \in ahead[u]
  BY DEF WaitersInLine, FifoWakeups
<1>3. ahead'[t] \subseteq Waiting' /\ t \notin ahead'[t]
  BY <1>1, <1>2
<1>4. ASSUME NEW u \in ahead'[t] PROVE ahead'[u] \subseteq ahead'[t]
  BY <1>1, <1>2, <1>3, <1>4
<1>5. ASSUME time_to_work'[t] = 0, NEW u \in Waiting', time_to_work'[u] = 1
      PROVE  u \in ahead'[t]
  BY <1>1, <1>2, <1>5
<1> QED
  BY <1>3, <1>4, <1>5

\* A thread that begins to wait stands behind all the others, and has no turn.
LEMMA WaitTurnKeepsLine ==
  ASSUME TypeOK, WaitersInLine, NEW t \in Threads, WaitTurn(t)
  PROVE  WaitersInLine'
<1> SUFFICES ASSUME FifoWakeups PROVE WaitersInLine'
  BY DEF WaitersInLine, FifoWakeups, WaitTurn, mainVars
<1>1. /\ pc[t] = "checkTurn" /\ pc' = [pc EXCEPT ![t] = "waiting"] /\ time_to_work' = time_to_work
      /\ ahead' = [ahead EXCEPT ![t] = Waiting] /\ time_to_work[t] = 0
  BY DEF WaitTurn, At, schVars
<1>2. t \notin Waiting /\ Waiting' = Waiting \cup {t}
  BY <1>1 DEF Waiting, TypeOK
<1>3. ahead'[t] = Waiting /\ \A u \in Waiting : ahead'[u] = ahead[u]
  BY <1>1, <1>2 DEF TypeOK
<1>4. \A u \in Waiting : ahead[u] \subseteq Waiting
  BY DEF WaitersInLine
<1>5. ASSUME NEW u \in Waiting', NEW v \in ahead'[u] PROVE ahead'[v] \subseteq ahead'[u]
  <2>1. v \in Waiting /\ ahead'[v] = ahead[v]
    BY <1>2, <1>3, <1>4, <1>5
  <2>2. CASE u = t
    BY <1>3, <1>4, <2>1, <2>2
  <2>3. CASE u \in Waiting
    BY <1>3, <1>5, <2>1, <2>3 DEF WaitersInLine
  <2> QED
    BY <1>2, <2>2, <2>3
<1>6. \A u \in Waiting' : ahead'[u] \subseteq Waiting' /\ u \notin ahead'[u]
  BY <1>2, <1>3, <1>4 DEF WaitersInLine
<1>7. ASSUME NEW u \in Waiting', time_to_work'[u] = 0, NEW v \in Waiting', time_to_work'[v] = 1
      PROVE  v \in ahead'[u]
  BY <1>1, <1>2, <1>3, <1>7 DEF WaitersInLine
<1> QED
  BY <1>5, <1>6, <1>7 DEF WaitersInLine

\* Nobody who waits has its turn taken away.
LEMMA WaitersInLineStep ==
  ASSUME IInv, WaitersInLine, [Next]_vars
  PROVE  WaitersInLine'
<1> wakeup' = wakeup
  BY WakeupStays
<1> USE DEF vars, schVars, dataVars, mainVars
<1>0. /\ TypeOK /\ pc \in [Threads -> WorkerPC] /\ time_to_work \in [Threads -> {0, 1}]
      /\ ahead \in [Threads -> SUBSET Threads]
  BY DEF IInv, TypeOK
<1>1. ASSUME NEW t \in Threads, WaitTurn(t) PROVE WaitersInLine'
  BY <1>0, <1>1, WaitTurnKeepsLine
<1>2. ASSUME NEW t \in Threads, PassTurn(t) PROVE WaitersInLine'
  <2>1. PICK W \in Woken :
           /\ Wake(W) /\ pc'[t] = Onward(t) /\ pc[t] = "passTurn"
           /\ \A u \in Threads \ {t} : pc'[u] = IF u \in W THEN "acquireC" ELSE pc[u]
    BY <1>0, <1>2, PassTurnMoves
  <2>2. Onward(t) # "waiting"
    BY DEF Onward
  <2>3. W \subseteq Waiting /\ Waiting' = Waiting \ W
    BY <2>1, <2>2 DEF Waiting, Woken, Wakeable
  <2>4. time_to_work' = time_to_work
    BY <1>2 DEF PassTurn
  <2> QED
    BY <1>0, <2>1, <2>3, <2>4, WakeKeepsLine
<1>3. CASE ResetTurns
  <2>1. PICK W \in Woken : Wake(W) /\ pc' = PcAfterWake(W)
    BY <1>3 DEF ResetTurns
  <2>2. W \subseteq Waiting /\ Waiting' = Waiting \ W
    BY <2>1 DEF Waiting, Woken, Wakeable, PcAfterWake
  <2>3. \A t \in Threads : time_to_work'[t] = 1
    BY <1>3 DEF ResetTurns
  <2>4. Waiting' \subseteq Threads
    BY DEF Waiting
  <2> QED
    BY <1>0, <2>1, <2>2, <2>3, <2>4, WakeKeepsLine
<1>4. ASSUME NEW t \in Threads, SpuriousWakeup(t) PROVE WaitersInLine'
  <2>1. /\ pc[t] = "waiting" /\ Wake({t}) /\ pc' = PcAfterWake({t})
        /\ time_to_work' = time_to_work
    BY <1>4 DEF SpuriousWakeup, At
  <2>2. {t} \subseteq Waiting /\ Waiting' = Waiting \ {t}
    BY <2>1 DEF Waiting, PcAfterWake
  <2> QED
    BY <1>0, <2>1, <2>2, WakeKeepsLine
<1>5. ASSUME NEW t \in Threads, Complete(t) PROVE WaitersInLine'
  <2>1. /\ pc[t] = "complete" /\ pc' = [pc EXCEPT ![t] = "acquireC"] /\ ahead' = ahead
        /\ time_to_work' = [time_to_work EXCEPT ![t] = 0]
    BY <1>5 DEF Complete, At, TurnTaken
  <2>2. Waiting' = Waiting /\ \A u \in Waiting : time_to_work'[u] = time_to_work[u]
    BY <1>0, <2>1 DEF Waiting
  <2> QED
    BY <2>1, <2>2 DEF WaitersInLine, FifoWakeups
<1>6. ASSUME NEW t \in Threads,
             \/ AcquireC(t) \/ TakeJob(t) \/ LeaveTraining(t) \/ StartJob(t) \/ FinishJob(t)
      PROVE  WaitersInLine'
  <2>1. UNCHANGED <<ahead, time_to_work>> /\ Waiting' = Waiting
    BY <1>0, <1>6 DEF AcquireC, TakeJob, LeaveTraining, StartJob, FinishJob, At, Waiting
  <2> QED
    BY <2>1 DEF WaitersInLine, FifoWakeups
<1>7. CASE CreateThread
  <2>1. UNCHANGED <<ahead, time_to_work>> /\ Waiting' = Waiting
    BY <1>0, <1>7 DEF CreateThread, Waiting
  <2> QED
    BY <2>1 DEF WaitersInLine, FifoWakeups
<1>8. CASE \/ Submit \/ Execute \/ MainAcquireT \/ MainWait \/ MainSpuriousWakeup \/ Aggregate
           \/ MainAcquireC \/ CheckQueue \/ RemoveFile \/ ReportAccuracy
           \/ ResolveConflicts \/ Destroy \/ UNCHANGED vars
  <2>1. UNCHANGED <<ahead, time_to_work, pc>>
    BY <1>8 DEF Submit, Execute, MainAcquireT, MainWait, MainSpuriousWakeup, Aggregate,
                MainAcquireC, CheckQueue, RemoveFile, ReportAccuracy, ResolveConflicts, Destroy
  <2> QED
    BY <2>1 DEF WaitersInLine, FifoWakeups, Waiting
<1> QED
  BY <1>1, <1>2, <1>3, <1>4, <1>5, <1>6, <1>7, <1>8 DEF Next, MainStep, Worker, Terminated

\* A signal wakes the front of the line, which has a turn if anybody has.
LEMMA SignalWakesFront ==
  ASSUME TypeOK, FifoWakeups, WaitersInLine, Waiting # {}, NEW W \in Woken
  PROVE  \E w \in Waiting :
           /\ W = {w}
           /\ (\E t \in Waiting : time_to_work[t] = 1) => time_to_work[w] = 1
<1>1. PICK w \in Wakeable : W = {w}
  BY FrontExists DEF Woken
<1>2. w \in Waiting /\ ahead[w] = {} /\ time_to_work[w] \in {0, 1}
  BY DEF Wakeable, Waiting, TypeOK
<1> QED
  BY <1>1, <1>2 DEF WaitersInLine

\* Whoever leaves the queue with its turn hands the signal to the next that has one.
LEMMA SignalStep ==
  ASSUME IInv, WaitersInLine, SignalIsPassedOn, [Next]_vars
  PROVE  SignalIsPassedOn'
<1> SUFFICES ASSUME FifoWakeups', NEW v \in Waiting', time_to_work'[v] = 1
             PROVE  \E u \in Threads : /\ time_to_work'[u] = 1
                                       /\ pc'[u] \in {"acquireC", "checkTurn", "passTurn"}
  BY DEF SignalIsPassedOn
<1> FifoWakeups
  BY WakeupStays DEF FifoWakeups
<1> USE DEF vars, schVars, dataVars, mainVars
<1>0. /\ TypeOK /\ pc \in [Threads -> WorkerPC] /\ time_to_work \in [Threads -> {0, 1}]
      /\ v \in Threads /\ pc'[v] = "waiting"
  BY DEF IInv, TypeOK, Waiting
<1> DEFINE Goal == \E u \in Threads : /\ time_to_work'[u] = 1
                                      /\ pc'[u] \in {"acquireC", "checkTurn", "passTurn"}
<1>1. ASSUME NEW t \in Threads, PassTurn(t) PROVE Goal
  <2>1. PICK W \in Woken :
           /\ pc'[t] = Onward(t) /\ pc[t] = "passTurn" /\ t \notin W
           /\ \A u \in Threads \ {t} : pc'[u] = IF u \in W THEN "acquireC" ELSE pc[u]
    BY <1>0, <1>1, PassTurnMoves
  <2>2. time_to_work' = time_to_work
    BY <1>1 DEF PassTurn
  <2>3. Onward(t) # "waiting"
    BY DEF Onward
  <2>4. v \in Waiting /\ time_to_work[v] = 1
    BY <1>0, <2>1, <2>2, <2>3 DEF Waiting
  <2>5. PICK w \in Waiting : W = {w} /\ time_to_work[w] = 1
    BY <1>0, <2>4, SignalWakesFront
  <2>6. w \in Threads /\ w # t
    BY <2>1, <2>5 DEF Waiting
  <2> QED
    BY <2>1, <2>2, <2>5, <2>6
<1>2. CASE ResetTurns
  <2>1. PICK W \in Woken : pc' = PcAfterWake(W)
    BY <1>2 DEF ResetTurns
  <2>2. v \in Waiting
    BY <1>0, <2>1 DEF Waiting, PcAfterWake
  <2>3. PICK w \in Waiting : W = {w}
    BY <1>0, <2>2, SignalWakesFront
  <2>4. w \in Threads /\ pc'[w] = "acquireC" /\ time_to_work'[w] = 1
    BY <1>2, <2>1, <2>3 DEF Waiting, PcAfterWake, ResetTurns
  <2> QED
    BY <2>4
<1>3. CASE /\ v \in Waiting /\ time_to_work[v] = 1
           /\ \A u \in Threads : time_to_work[u] = 1
                 /\ pc[u] \in {"acquireC", "checkTurn", "passTurn"}
                   => /\ time_to_work'[u] = 1
                      /\ pc'[u] \in {"acquireC", "checkTurn", "passTurn"}
  BY <1>3 DEF SignalIsPassedOn
<1>4. ASSUME NEW t \in Threads,
             \/ AcquireC(t)  \/ WaitTurn(t)  \/ TakeJob(t) \/ LeaveTraining(t)
             \/ StartJob(t)  \/ FinishJob(t)
      PROVE  Goal
  <2>1. time_to_work' = time_to_work /\ time_to_work[v] = 1
    BY <1>4 DEF AcquireC, WaitTurn, TakeJob, LeaveTraining, StartJob, FinishJob
  <2>2. v \in Waiting
    BY <1>0, <1>4, <2>1 DEF AcquireC, WaitTurn, TakeJob, LeaveTraining, StartJob, FinishJob, At,
                            Waiting
  <2>3. \A u \in Threads : time_to_work[u] = 1 /\ pc[u] \in {"acquireC", "checkTurn", "passTurn"}
          => pc'[u] \in {"acquireC", "checkTurn", "passTurn"}
    BY <1>0, <1>4 DEF AcquireC, WaitTurn, TakeJob, LeaveTraining, StartJob, FinishJob, At
  <2> QED
    BY <1>3, <2>1, <2>2, <2>3
<1>5. ASSUME NEW t \in Threads, Complete(t) PROVE Goal
  <2>1. /\ pc[t] = "complete" /\ pc' = [pc EXCEPT ![t] = "acquireC"]
        /\ time_to_work' = [time_to_work EXCEPT ![t] = 0]
    BY <1>5 DEF Complete, At, TurnTaken
  <2> QED
    BY <1>0, <1>3, <2>1 DEF Waiting
<1>6. ASSUME NEW t \in Threads, SpuriousWakeup(t) PROVE Goal
  <2>1. pc[t] = "waiting" /\ pc' = PcAfterWake({t}) /\ time_to_work' = time_to_work
    BY <1>6 DEF SpuriousWakeup, At
  <2> QED
    BY <1>0, <1>3, <2>1 DEF Waiting, PcAfterWake
<1>7. CASE CreateThread
  BY <1>0, <1>3, <1>7 DEF CreateThread, Waiting
<1>8. CASE \/ Submit \/ Execute \/ MainAcquireT \/ MainWait \/ MainSpuriousWakeup \/ Aggregate
           \/ MainAcquireC \/ CheckQueue \/ RemoveFile \/ ReportAccuracy
           \/ ResolveConflicts \/ Destroy \/ UNCHANGED vars
  <2>1. UNCHANGED <<time_to_work, pc>>
    BY <1>8 DEF Submit, Execute, MainAcquireT, MainWait, MainSpuriousWakeup, Aggregate,
                MainAcquireC, CheckQueue, RemoveFile, ReportAccuracy, ResolveConflicts, Destroy
  <2> QED
    BY <1>0, <1>3, <2>1 DEF Waiting
<1> QED
  BY <1>1, <1>2, <1>4, <1>5, <1>6, <1>7, <1>8 DEF Next, MainStep, Worker, Terminated

-----------------------------------------------------------------------------
\* The initial state satisfies the inductive invariant of progress.
LEMMA InitProgress == Init => PInv
<1> SUFFICES ASSUME Init PROVE PInv
  OBVIOUS
<1>1. N * Round = 0
  BY ConstantTypes DEF Init, Round
<1>2. AnotherRound
  BY <1>1, ConstantTypes DEF AnotherRound
<1> QED
  BY <1>2 DEF Init, PInv, MainWaitsForSomebody, ThreadsAreBorn, ReturnedFoundNothing,
              WaitersInLine, SignalIsPassedOn, Waiting

\* The invariant of progress holds in every state of every behaviour.
THEOREM ProgressInvariance == Spec => []PInv
<1>1. Init => PInv
  BY InitProgress
<1>2. IInv /\ RInv /\ PInv /\ [Next]_vars => PInv'
  BY AnotherRoundStep, MainWaitsStep, ThreadsAreBornStep, ReturnedStep, WaitersInLineStep,
     SignalStep DEF PInv
<1> QED
  BY <1>1, <1>2, Invariance, RoundsInvariance, PTL DEF Spec

\* The one signal of a round goes from thread to thread and is never lost, for any
\* number of threads, if the condition variable wakes whoever waits longest: while a
\* thread that has a turn waits, another one that has a turn is on its way to signal.
THEOREM SignalsArePassedOn == Spec => []SignalIsPassedOn
BY ProgressInvariance, PTL DEF PInv

-----------------------------------------------------------------------------
(* No standstill. *)

\* The jobs fill whole batches.
LEMMA JobsFillBatches == \E m \in Nat : NJobs = N * m
<1>1. PICK m \in Nat : TrainingJobs = N * m
  BY TrainingFillsBatches
<1>2. TestFiles = N * (TestFiles \div N) /\ TestFiles \div N \in Nat
  BY ThreadsCounted, FilesAssumption
<1>3. NJobs = N * (m + (TestFiles \div N))
  BY <1>1, <1>2, ThreadsCounted DEF NJobs
<1> QED
  BY <1>1, <1>2, <1>3

\* While main waits, nobody who still has a turn has found the queue empty: the jobs
\* fill whole batches, so the last one has a job for every thread.
LEMMA NobodyLeavesTheRound ==
  ASSUME IInv, RInv, PInv, NJobs > 0, pcM = "waiting",
         NEW t \in Threads, time_to_work[t] = 1
  PROVE  pc[t] # "returned"
<1> SUFFICES ASSUME pc[t] = "returned" PROVE FALSE
  OBVIOUS
<1>1. queue = <<>> /\ aJob[t] = NoJob
  BY DEF PInv, ReturnedFoundNothing
<1>2. t \notin Takers
  BY <1>1 DEF Takers
<1>3. InRounds /\ NextJob = NJobs
  BY <1>1, ConstantTypes DEF InRounds, Executing, NextJob
<1>4. NJobs = N * Round + Cardinality(Takers) /\ Round \in Nat
  BY <1>3 DEF RInv, JobsOfRound
<1>5. Cardinality(Takers) < N /\ Cardinality(Takers) \in Nat
  BY <1>2, TakersCounted, ConstantTypes
<1>6. PICK m \in Nat : NJobs = N * m
  BY JobsFillBatches
<1>7. N * Round \in Nat
  BY <1>4, ConstantTypes
<1>8. N * m <= N * Round
  BY <1>4, <1>5, <1>6, <1>7, BatchesDoNotOverlap, ThreadsCounted
<1> QED
  BY <1>6, <1>8, <1>7, ConstantTypes DEF PInv, AnotherRound

\* While main waits, some thread can take a step.
LEMMA SomebodyWorks ==
  ASSUME IInv, RInv, PInv, FifoWakeups, NJobs > 0, pcM = "waiting"
  PROVE  \E t \in Threads : ~Blocked(t)
<1> SUFFICES ASSUME \A t \in Threads : Blocked(t) PROVE FALSE
  OBVIOUS
<1>0. Running /\ T = Free /\ C # Main
  BY DEF Running, Ended, IInv, LockOwners, TypeOK
<1>1. C = Free
  <2>1. ASSUME NEW t \in Threads, C = t PROVE FALSE
    <3>1. pc[t] \in {"checkTurn", "passTurn"}
      BY <1>0, <2>1 DEF IInv, LockOwners
    <3>2. Blocked(t)
      OBVIOUS
    <3> QED
      BY <3>1, <3>2 DEF Blocked
  <2> QED
    BY <1>0, <2>1 DEF IInv, TypeOK
<1>2. \A t \in Threads : pc[t] \in {"waiting", "returned"}
  BY <1>0, <1>1 DEF Blocked, PInv, ThreadsAreBorn, Executing
<1>3. PICK t \in Threads : time_to_work[t] = 1
  <2>1. ASSUME \A t \in Threads : time_to_work[t] # 1 PROVE FALSE
    <3>1. {t \in Threads : time_to_work[t] = 0} = Threads
      BY <2>1 DEF IInv, TypeOK
    <3>2. AllComplete
      BY <1>0, <3>1 DEF IInv, CountMatchesTurns, AllComplete, N
    <3> QED
      BY <3>2 DEF PInv, MainWaitsForSomebody
  <2> QED
    BY <2>1
<1>4. t \in Waiting
  BY <1>2, <1>3, NobodyLeavesTheRound DEF Waiting
<1>5. PICK u \in Threads : pc[u] \in {"acquireC", "checkTurn", "passTurn"}
  BY <1>3, <1>4 DEF PInv, SignalIsPassedOn
<1> QED
  BY <1>2, <1>5

\* execute_all_jobs never comes to a standstill, for any number of threads, of files
\* and of epochs: until it returns, main or a worker can take a step.
THEOREM NobodyStandsStill == Spec => []NoStandstill
<1>1. IInv /\ RInv /\ PInv => NoStandstill
  <2> SUFFICES ASSUME IInv, RInv, PInv, FifoWakeups, NJobs > 0, pcM \in Executing, MainBlocked
               PROVE  \E t \in Threads : ~Blocked(t)
    BY DEF NoStandstill
  <2>0. Running
    BY DEF Running, Executing, Ended
  <2>1. CASE pcM = "waiting"
    BY <2>1, SomebodyWorks
  <2>2. CASE pcM = "acquireT" /\ T # Free
    BY <2>0, <2>2 DEF IInv, LockOwners, TypeOK
  <2>3. CASE pcM = "acquireC" /\ C # Free
    <3>1. C \in Threads
      BY <2>0, <2>3 DEF IInv, LockOwners, TypeOK
    <3>2. pc[C] \in {"checkTurn", "passTurn"}
      BY <2>0, <3>1 DEF IInv, LockOwners
    <3> QED
      BY <3>1, <3>2 DEF Blocked
  <2>4. CASE pcM = "create" /\ \A t \in Threads : pc[t] # "unborn"
    BY <2>4 DEF PInv, ThreadsAreBorn
  <2>5. CASE pcM = "submit" /\ Len(queue) > NJobs
    <3>1. Len(queue) <= NJobs
      BY <2>5 DEF RInv, QueueInOrder, InRounds, Executing
    <3> QED
      BY <2>5, <3>1, RoundIsNat, ConstantTypes DEF IInv
  <2> QED
    BY <2>1, <2>2, <2>3, <2>4, <2>5 DEF MainBlocked
<1> QED
  BY <1>1, Invariance, RoundsInvariance, ProgressInvariance, PTL

-----------------------------------------------------------------------------
(* Every step uses up one of the steps left.                               *)

\* The pairs of t and a number up to k are k.
LEMMA ColumnCounted ==
  ASSUME NEW t, NEW k \in Nat
  PROVE  IsFiniteSet({t} \X (1 .. k)) /\ Cardinality({t} \X (1 .. k)) = k
<1>1. IsFiniteSet(1 .. k) /\ Cardinality(1 .. k) = k
  BY FS_Interval
<1>2. IsFiniteSet({t}) /\ Cardinality({t}) = 1
  BY FS_Singleton, Zenon
<1>3. /\ IsFiniteSet({t} \X (1 .. k))
      /\ Cardinality({t} \X (1 .. k)) = Cardinality({t}) * Cardinality(1 .. k)
  BY <1>1, <1>2, FS_Product, Zenon
<1> QED
  BY <1>1, <1>2, <1>3

\* Two sets with nothing in common are counted one after the other.
LEMMA DisjointUnionCounted ==
  ASSUME NEW A, NEW B, IsFiniteSet(A), IsFiniteSet(B), A \cap B = {}
  PROVE  /\ IsFiniteSet(A \cup B) /\ Cardinality(A) \in Nat /\ Cardinality(B) \in Nat
         /\ Cardinality(A \cup B) = Cardinality(A) + Cardinality(B)
<1>1. Cardinality(A \cap B) = 0
  BY FS_EmptySet
<1>2. Cardinality(A \cup B) = Cardinality(A) + Cardinality(B) - Cardinality(A \cap B)
  BY FS_Union
<1> QED
  BY <1>1, <1>2, FS_Union, FS_CardinalityType

\* There are finitely many pairs of a thread and a number up to k.
LEMMA PairsFinite ==
  ASSUME NEW k \in Nat
  PROVE  IsFiniteSet(Threads \X (1 .. k))
<1>1. IsFiniteSet(1 .. k)
  BY FS_Interval
<1> QED
  BY <1>1, ThreadsAssumption, FS_Product

\* What the threads owe: the steps that f gives each of them, as pairs of a thread
\* and a number.
Debt(f) == {tk \in Threads \X (1 .. 21) : tk[2] <= f[tk[1]]}

\* The debt is a finite set, and grows and shrinks with what one thread owes.
LEMMA DebtChanges ==
  ASSUME NEW f \in [Threads -> 0 .. 21], NEW g \in [Threads -> 0 .. 21], NEW t \in Threads,
         \A u \in Threads \ {t} : g[u] = f[u]
  PROVE  /\ Cardinality(Debt(f)) \in Nat /\ Cardinality(Debt(g)) \in Nat
         /\ Cardinality(Debt(g)) = Cardinality(Debt(f)) + g[t] - f[t]
<1> DEFINE Others == {tk \in Threads \X (1 .. 21) : tk[1] # t /\ tk[2] <= f[tk[1]]}
           Column(k) == {t} \X (1 .. k)
<1>1. IsFiniteSet(Others)
  <2>1. IsFiniteSet(Threads \X (1 .. 21))
    BY PairsFinite
  <2>2. Others \subseteq Threads \X (1 .. 21)
    OBVIOUS
  <2> QED
    BY <2>1, <2>2, FS_Subset
<1>2. Cardinality(Others) \in Nat
  BY <1>1, FS_CardinalityType
<1>3. ASSUME NEW k \in 0 .. 21
      PROVE  /\ IsFiniteSet(Column(k)) /\ Cardinality(Column(k)) = k
             /\ Cardinality(Others \cup Column(k)) = Cardinality(Others) + k
  <2>0. k \in Nat
    OBVIOUS
  <2>1. IsFiniteSet(Column(k)) /\ Cardinality(Column(k)) = k
    BY <2>0, ColumnCounted, Zenon
  <2>2. Others \cap Column(k) = {}
    OBVIOUS
  <2> QED
    BY <1>1, <2>1, <2>2, DisjointUnionCounted
<1>4. ASSUME NEW h \in [Threads -> 0 .. 21], \A u \in Threads \ {t} : h[u] = f[u]
      PROVE  Debt(h) = Others \cup Column(h[t])
  <2>1. ASSUME NEW tk \in Debt(h) PROVE tk \in Others \cup Column(h[t])
    <3>1. tk \in Threads \X (1 .. 21) /\ tk[2] <= h[tk[1]]
      BY <2>1 DEF Debt
    <3>2. PICK u \in Threads, k \in 1 .. 21 : tk = <<u, k>>
      BY <3>1
    <3>3. k <= h[u]
      BY <3>1, <3>2
    <3>4. CASE u = t
      BY <3>2, <3>3, <3>4
    <3>5. CASE u # t
      BY <1>4, <3>2, <3>3, <3>5
    <3> QED
      BY <3>4, <3>5
  <2>2. ASSUME NEW tk \in Others PROVE tk \in Debt(h)
    BY <1>4, <2>2 DEF Debt
  <2>3. ASSUME NEW tk \in Column(h[t]) PROVE tk \in Debt(h)
    <3>1. PICK k \in 1 .. h[t] : tk = <<t, k>>
      BY <2>3
    <3>2. k \in 1 .. 21 /\ k <= h[t]
      BY <3>1
    <3> QED
      BY <3>1, <3>2 DEF Debt
  <2> QED
    BY <2>1, <2>2, <2>3
<1>5. Debt(f) = Others \cup Column(f[t]) /\ Debt(g) = Others \cup Column(g[t])
  BY <1>4
<1>6. f[t] \in 0 .. 21 /\ g[t] \in 0 .. 21
  OBVIOUS
<1>7. /\ Cardinality(Debt(f)) = Cardinality(Others) + f[t]
      /\ Cardinality(Debt(g)) = Cardinality(Others) + g[t]
  BY <1>3, <1>5, <1>6
<1> QED
  BY <1>2, <1>6, <1>7

\* The steps of every thread.
Owed == [t \in Threads |-> StepsOf(t)]

\* What a thread owes is at most 21 steps, and WorkersLeft is the sum.
OwedAddsUp == Owed \in [Threads -> 0 .. 21] /\ WorkersLeft = Cardinality(Debt(Owed))

LEMMA OwedFacts == TypeOK => OwedAddsUp
<1> SUFFICES ASSUME TypeOK PROVE OwedAddsUp
  OBVIOUS
<1>1. ASSUME NEW t \in Threads PROVE StepsOf(t) \in 0 .. 21
  <2>1. pc[t] \in WorkerPC
    BY DEF TypeOK
  <2> QED
    BY <2>1 DEF StepsOf, WorkerPC
<1>2. \A tk \in Threads \X (1 .. 21) : Owed[tk[1]] = StepsOf(tk[1])
  BY DEF Owed
<1> QED
  BY <1>1, <1>2 DEF Owed, OwedAddsUp, WorkersLeft, Debt

\* Only thread t moves: the sum changes by what it owes more or less.
LEMMA OneMoves ==
  ASSUME TypeOK, TypeOK', NEW t \in Threads,
         \A u \in Threads \ {t} : StepsOf(u)' = StepsOf(u)
  PROVE  /\ WorkersLeft \in Nat /\ WorkersLeft' \in Nat
         /\ WorkersLeft' = WorkersLeft + StepsOf(t)' - StepsOf(t)
<1>1. TypeOK' => OwedAddsUp'
  BY OwedFacts, PTL
<1>2. /\ Owed \in [Threads -> 0 .. 21] /\ WorkersLeft = Cardinality(Debt(Owed))
      /\ Owed' \in [Threads -> 0 .. 21] /\ WorkersLeft' = Cardinality(Debt(Owed'))
  BY <1>1, OwedFacts DEF OwedAddsUp, Debt
<1>3. \A u \in Threads : Owed[u] = StepsOf(u) /\ Owed'[u] = StepsOf(u)'
  BY DEF Owed
<1> QED
  BY <1>2, <1>3, DebtChanges

\* Threads t and w move: the sum changes by what both owe more or less.
LEMMA TwoMove ==
  ASSUME TypeOK, TypeOK', NEW t \in Threads, NEW w \in Threads, t # w,
         \A u \in Threads \ {t, w} : StepsOf(u)' = StepsOf(u)
  PROVE  /\ WorkersLeft \in Nat /\ WorkersLeft' \in Nat
         /\ WorkersLeft' = WorkersLeft + StepsOf(t)' - StepsOf(t) + StepsOf(w)' - StepsOf(w)
<1> DEFINE between == [Owed EXCEPT ![t] = Owed'[t]]
<1>1. TypeOK' => OwedAddsUp'
  BY OwedFacts, PTL
<1>2. /\ Owed \in [Threads -> 0 .. 21] /\ WorkersLeft = Cardinality(Debt(Owed))
      /\ Owed' \in [Threads -> 0 .. 21] /\ WorkersLeft' = Cardinality(Debt(Owed'))
  BY <1>1, OwedFacts DEF OwedAddsUp, Debt
<1>3. \A u \in Threads : Owed[u] = StepsOf(u) /\ Owed'[u] = StepsOf(u)'
  BY DEF Owed
<1>4. /\ between \in [Threads -> 0 .. 21] /\ between[t] = Owed'[t] /\ between[w] = Owed[w]
      /\ \A u \in Threads \ {t} : between[u] = Owed[u]
      /\ \A u \in Threads \ {w} : between[u] = Owed'[u]
  BY <1>2, <1>3
<1> HIDE DEF between
<1>5. /\ Cardinality(Debt(Owed)) \in Nat /\ Cardinality(Debt(between)) \in Nat
      /\ Cardinality(Debt(between)) = Cardinality(Debt(Owed)) + between[t] - Owed[t]
  BY <1>2, <1>4, DebtChanges
<1>6. /\ Cardinality(Debt(Owed')) \in Nat
      /\ Cardinality(Debt(Owed')) = Cardinality(Debt(between)) + Owed'[w] - between[w]
  BY <1>2, <1>4, DebtChanges
<1>7. Owed[t] \in 0 .. 21 /\ Owed[w] \in 0 .. 21 /\ Owed'[t] \in 0 .. 21 /\ Owed'[w] \in 0 .. 21
  BY <1>2
<1> QED
  BY <1>2, <1>3, <1>4, <1>5, <1>6, <1>7

\* No thread moves.
LEMMA NobodyMoves ==
  ASSUME TypeOK, TypeOK', UNCHANGED <<pc, aJob>>
  PROVE  WorkersLeft \in Nat /\ WorkersLeft' = WorkersLeft
<1>1. \A u \in Threads : StepsOf(u)' = StepsOf(u)
  BY DEF StepsOf
<1>2. PICK t \in Threads : TRUE
  BY ThreadsAssumption
<1>3. OwedAddsUp
  BY OwedFacts
<1>4. StepsOf(t) \in 0 .. 21
  BY <1>3 DEF OwedAddsUp, Owed
<1> QED
  BY <1>1, <1>4, OneMoves

\* What is left besides the steps of the threads and of main: jobs to take, threads
\* to count, files to remove and spurious wakeups.
OthersLeft == 18 * Len(queue) + 7 * threads_complete + Cardinality(files)
                + 3 * (MaxSpurious - spurious)

\* The parts of what is left are numbers.
LEMMA PartsAreNumbers ==
  ASSUME TypeOK
  PROVE  /\ Len(queue) \in Nat /\ threads_complete \in Nat /\ MaxSpurious \in Nat
         /\ spurious \in Nat /\ spurious <= MaxSpurious
         /\ IsFiniteSet(files) /\ Cardinality(files) \in Nat /\ OthersLeft \in Nat
<1>1. /\ Len(queue) \in Nat /\ threads_complete \in Nat /\ MaxSpurious \in Nat
      /\ spurious \in Nat /\ spurious <= MaxSpurious
  BY ConstantTypes, WakeupAssumption DEF TypeOK
<1>2. IsFiniteSet(BatchFiles)
  <2>1. TrainingFiles + TestFiles \in Nat
    BY FilesAssumption
  <2> QED
    BY <2>1, FS_Interval DEF BatchFiles
<1>3. IsFiniteSet(files) /\ Cardinality(files) \in Nat
  BY <1>2, FS_Subset, FS_CardinalityType DEF TypeOK
<1> QED
  BY <1>1, <1>3 DEF OthersLeft

\* So are main's steps: it submits no more jobs than there are.
LEMMA MainLeftIsNumber ==
  ASSUME IInv, RInv
  PROVE  MainLeft \in Nat
<1>1. pcM = "submit" => Len(queue) <= NJobs
  BY DEF RInv, QueueInOrder, InRounds, Executing
<1>2. pcM \in Executing \cup AfterJobs \cup Ended /\ Len(queue) \in Nat
  BY RoundIsNat DEF IInv, TypeOK
<1> QED
  BY <1>1, <1>2, ConstantTypes DEF MainLeft, Executing, AfterJobs, Ended

\* StepsLeft is the sum of three numbers in every state.
PartsAddUp == /\ WorkersLeft \in Nat /\ MainLeft \in Nat /\ OthersLeft \in Nat
              /\ StepsLeft = WorkersLeft + MainLeft + OthersLeft
LEMMA PartsFacts == IInv /\ RInv => PartsAddUp
<1> SUFFICES ASSUME IInv, RInv PROVE PartsAddUp
  OBVIOUS
<1>1. WorkersLeft \in Nat
  <2>1. OwedAddsUp
    BY OwedFacts DEF IInv
  <2>2. PICK t \in Threads : TRUE
    BY ThreadsAssumption
  <2> QED
    BY <2>1, <2>2, DebtChanges DEF OwedAddsUp
<1>2. MainLeft \in Nat /\ OthersLeft \in Nat
  BY MainLeftIsNumber, PartsAreNumbers DEF IInv
<1>3. StepsLeft = WorkersLeft + MainLeft + OthersLeft
  BY <1>1, <1>2, PartsAreNumbers DEF StepsLeft, OthersLeft, IInv
<1> QED
  BY <1>1, <1>2, <1>3 DEF PartsAddUp

\* A step that changes nothing but the place of one thread, and leaves it fewer.
LEMMA OnePays ==
  ASSUME IInv, IInv', PartsAddUp, PartsAddUp', NEW t \in Threads,
         UNCHANGED <<queue, threads_complete, files, spurious, pcM>>,
         \A u \in Threads \ {t} : pc'[u] = pc[u] /\ aJob'[u] = aJob[u],
         StepsOf(t) \in 0 .. 21, StepsOf(t)' \in 0 .. StepsOf(t) - 1
  PROVE  StepsLeft' < StepsLeft
<1>1. \A u \in Threads \ {t} : StepsOf(u)' = StepsOf(u)
  BY DEF StepsOf
<1>2. WorkersLeft' = WorkersLeft + StepsOf(t)' - StepsOf(t)
  BY <1>1, OneMoves DEF IInv
<1>3. MainLeft' = MainLeft /\ OthersLeft' = OthersLeft
  BY DEF MainLeft, OthersLeft
<1> QED
  BY <1>2, <1>3 DEF PartsAddUp

\* A worker uses up a step: it moves on, or it takes a job, for which 18 steps were
\* set aside.
LEMMA WorkerMovesOn ==
  ASSUME IInv, IInv', RInv, PartsAddUp, PartsAddUp', NEW t \in Threads,
         \/ AcquireC(t) \/ WaitTurn(t) \/ TakeJob(t) \/ LeaveTraining(t) \/ StartJob(t)
         \/ FinishJob(t)
  PROVE  StepsLeft' < StepsLeft
<1> USE DEF schVars, dataVars, mainVars
<1>0. pc \in [Threads -> WorkerPC] /\ aJob \in [Threads -> JobIds \cup {NoJob}]
  BY DEF IInv, TypeOK
<1>1. CASE AcquireC(t)
  <2>1. /\ pc[t] = "acquireC" /\ pc' = [pc EXCEPT ![t] = "checkTurn"]
        /\ UNCHANGED <<queue, threads_complete, files, spurious, pcM, aJob>>
    BY <1>1 DEF AcquireC, At
  <2>2. StepsOf(t) = 5 /\ StepsOf(t)' = 4
    BY <1>0, <2>1 DEF StepsOf
  <2> QED
    BY <1>0, <2>1, <2>2, OnePays
<1>2. CASE WaitTurn(t)
  <2>1. /\ pc[t] = "checkTurn" /\ pc' = [pc EXCEPT ![t] = "waiting"]
        /\ UNCHANGED <<queue, threads_complete, files, spurious, pcM, aJob>>
    BY <1>2 DEF WaitTurn, At
  <2>2. StepsOf(t) = 4 /\ StepsOf(t)' = 3
    BY <1>0, <2>1 DEF StepsOf
  <2> QED
    BY <1>0, <2>1, <2>2, OnePays
<1>3. CASE TakeJob(t)
  <2>1. /\ pc[t] = "checkTurn" /\ pc' = [pc EXCEPT ![t] = "passTurn"]
        /\ UNCHANGED <<threads_complete, files, spurious, pcM>>
    BY <1>3 DEF TakeJob, At
  <2>2. CASE queue = <<>>
    <3>1. aJob' = [aJob EXCEPT ![t] = NoJob] /\ queue' = queue
      BY <1>3, <2>2 DEF TakeJob, queue_empty
    <3>2. StepsOf(t) = 4 /\ StepsOf(t)' = 3
      BY <1>0, <2>1, <3>1 DEF StepsOf
    <3> QED
      BY <1>0, <2>1, <3>1, <3>2, OnePays
  <2>3. CASE queue # <<>>
    <3>1. aJob' = [aJob EXCEPT ![t] = Head(queue)] /\ queue' = Tail(queue)
      BY <1>3, <2>3 DEF TakeJob, queue_empty, queue_remove
    <3>2. Len(queue') = Len(queue) - 1 /\ Len(queue) \in Nat
      BY <2>3, <3>1 DEF IInv, TypeOK
    <3>3. Head(queue) \in Nat
      BY <2>3, ConstantTypes DEF IInv, TypeOK, JobIds
    <3>4. StepsOf(t) = 4 /\ StepsOf(t)' = 21
      BY <1>0, <2>1, <3>1, <3>3 DEF StepsOf, NoJob
    <3>5. \A u \in Threads \ {t} : StepsOf(u)' = StepsOf(u)
      BY <1>0, <2>1, <3>1 DEF StepsOf
    <3>6. WorkersLeft' = WorkersLeft + 17
      BY <3>4, <3>5, OneMoves DEF IInv
    <3>7. OthersLeft' = OthersLeft - 18
      BY <2>1, <3>2, PartsAreNumbers DEF OthersLeft, IInv
    <3>8. pcM # "submit" /\ pcM \in Executing \cup AfterJobs \cup Ended
      BY <2>1 DEF RInv, NothingStarted, IInv, TypeOK
    <3>9. MainLeft' = MainLeft
      BY <2>1, <3>8 DEF MainLeft, Executing, AfterJobs, Ended
    <3> QED
      BY <3>6, <3>7, <3>9 DEF PartsAddUp
  <2> QED
    BY <2>2, <2>3
<1>4. CASE LeaveTraining(t)
  <2>1. /\ pc[t] = "leaveTraining" /\ pc' = [pc EXCEPT ![t] = "start"]
        /\ UNCHANGED <<queue, threads_complete, files, spurious, pcM, aJob>>
    BY <1>4 DEF LeaveTraining, At
  <2>2. StepsOf(t) = 18 /\ StepsOf(t)' = 17
    BY <1>0, <2>1 DEF StepsOf
  <2> QED
    BY <1>0, <2>1, <2>2, OnePays
<1>5. CASE StartJob(t)
  <2>1. /\ pc[t] = "start" /\ UNCHANGED <<queue, threads_complete, files, spurious, aJob>>
    BY <1>5 DEF StartJob, At
  <2>2. CASE FileName(aJob[t]) \in files
    <3>1. pc' = [pc EXCEPT ![t] = "compute"] /\ pcM' = pcM
      BY <1>5, <2>2 DEF StartJob
    <3>2. StepsOf(t) = 17 /\ StepsOf(t)' = 16
      BY <1>0, <2>1, <3>1 DEF StepsOf
    <3> QED
      BY <1>0, <2>1, <3>1, <3>2, OnePays
  <2>3. CASE FileName(aJob[t]) \notin files
    <3>1. pc' = pc /\ pcM' = "aborted" /\ pcM \in Executing \cup AfterJobs
      BY <1>5, <2>3 DEF StartJob, At, Running, IInv, TypeOK
    <3>2. WorkersLeft' = WorkersLeft /\ OthersLeft' = OthersLeft
      BY <2>1, <3>1, NobodyMoves DEF IInv, OthersLeft
    <3>3. MainLeft' = 0
      BY <3>1 DEF MainLeft, Ended
    <3>4. pcM # "submit"
      BY <2>1 DEF RInv, NothingStarted
    <3>5. MainLeft > 0
      BY <3>1, <3>4 DEF MainLeft, Executing, AfterJobs, Ended
    <3> QED
      BY <3>2, <3>3, <3>5 DEF PartsAddUp
  <2> QED
    BY <2>2, <2>3
<1>6. CASE FinishJob(t)
  <2>1. /\ pc[t] = "compute" /\ pc' = [pc EXCEPT ![t] = "complete"]
        /\ UNCHANGED <<queue, threads_complete, files, spurious, pcM, aJob>>
    BY <1>6 DEF FinishJob, At
  <2>2. StepsOf(t) = 16 /\ StepsOf(t)' = 15
    BY <1>0, <2>1 DEF StepsOf
  <2> QED
    BY <1>0, <2>1, <2>2, OnePays
<1> QED
  BY <1>1, <1>2, <1>3, <1>4, <1>5, <1>6

\* A woken thread owes two steps more than a waiting one, and only one is woken.
LEMMA WokenOwes ==
  ASSUME TypeOK, NEW W \in Woken, NEW u \in Threads
  PROVE  /\ W = {} \/ \E w \in Threads : W = {w} /\ pc[w] = "waiting"
         /\ pc[u] = "waiting" => StepsOf(u) = 3
         /\ pc'[u] = "acquireC" => StepsOf(u)' = 5
BY DEF Woken, Wakeable, Waiting, StepsOf

\* A worker that passes the turn on pays for the thread it wakes.
LEMMA PassTurnPays ==
  ASSUME IInv, IInv', RInv, PartsAddUp, PartsAddUp', NEW t \in Threads, PassTurn(t)
  PROVE  StepsLeft' < StepsLeft
<1>1. UNCHANGED <<queue, threads_complete, files, spurious, pcM, aJob>> /\ TypeOK /\ TypeOK'
  BY DEF PassTurn, schVars, mainVars, IInv
<1>2. PICK W \in Woken :
         /\ t \notin W /\ pc'[t] = Onward(t) /\ pc[t] = "passTurn"
         /\ \A u \in Threads \ {t} : pc'[u] = IF u \in W THEN "acquireC" ELSE pc[u]
  BY <1>1, PassTurnMoves
<1>3. StepsOf(t) \in 0 .. 21 /\ StepsOf(t)' \in 0 .. StepsOf(t) - 3
  <2>1. CASE aJob[t] = NoJob
    <3>1. pc'[t] = "returned" /\ aJob'[t] = NoJob
      BY <1>1, <1>2, <2>1 DEF Onward
    <3>2. StepsOf(t) = 3 /\ StepsOf(t)' = 0
      BY <1>2, <2>1, <3>1 DEF StepsOf
    <3> QED
      BY <3>2
  <2>2. CASE aJob[t] # NoJob
    <3>1. pc'[t] \in {"start", "leaveTraining"}
      BY <1>1, <1>2, <2>2 DEF Onward
    <3>2. StepsOf(t) = 21 /\ StepsOf(t)' \in {17, 18}
      BY <1>2, <2>2, <3>1 DEF StepsOf
    <3> QED
      BY <3>2
  <2> QED
    BY <2>1, <2>2
<1>4. CASE W = {}
  BY <1>1, <1>2, <1>3, <1>4, OnePays
<1>5. ASSUME NEW w \in Threads, W = {w}, pc[w] = "waiting"
      PROVE  StepsLeft' < StepsLeft
  <2>1. w # t /\ pc'[w] = "acquireC"
    BY <1>2, <1>5
  <2>2. StepsOf(w) = 3 /\ StepsOf(w)' = 5
    BY <1>1, <1>5, <2>1, WokenOwes
  <2>3. \A u \in Threads \ {t, w} : StepsOf(u)' = StepsOf(u)
    BY <1>1, <1>2, <1>5 DEF StepsOf
  <2>4. WorkersLeft' = WorkersLeft + StepsOf(t)' - StepsOf(t) + StepsOf(w)' - StepsOf(w)
    BY <1>1, <2>1, <2>3, TwoMove
  <2>5. MainLeft' = MainLeft /\ OthersLeft' = OthersLeft
    BY <1>1 DEF MainLeft, OthersLeft
  <2> QED
    BY <1>3, <2>2, <2>4, <2>5 DEF PartsAddUp
<1> QED
  BY <1>1, <1>4, <1>5, WokenOwes

\* A worker that completes pays for another way round the loop, for being counted, and
\* for main, which it wakes.
LEMMA CompletePays ==
  ASSUME IInv, IInv', RInv, PartsAddUp, PartsAddUp', NEW t \in Threads, Complete(t)
  PROVE  StepsLeft' < StepsLeft
<1>1. /\ pc[t] = "complete" /\ pc' = [pc EXCEPT ![t] = "acquireC"] /\ aJob' = [aJob EXCEPT ![t] = NoJob]
      /\ threads_complete' = threads_complete + 1 /\ UNCHANGED <<queue, files, spurious>>
      /\ pcM' = IF pcM = "waiting" THEN "acquireT" ELSE pcM
      /\ TypeOK /\ TypeOK'
  BY DEF Complete, At, mainVars, IInv
<1>2. StepsOf(t) = 15 /\ StepsOf(t)' = 5
  BY <1>1 DEF StepsOf, TypeOK
<1>3. \A u \in Threads \ {t} : StepsOf(u)' = StepsOf(u)
  BY <1>1 DEF StepsOf, TypeOK
<1>4. WorkersLeft' = WorkersLeft - 10
  BY <1>1, <1>2, <1>3, OneMoves DEF PartsAddUp
<1>5. OthersLeft' = OthersLeft + 7
  <2>1. 7 * threads_complete' = 7 * threads_complete + 7 /\ 7 * threads_complete \in Nat
    BY <1>1, PartsAreNumbers
  <2>2. UNCHANGED <<18 * Len(queue), Cardinality(files), 3 * (MaxSpurious - spurious)>>
    BY <1>1
  <2>3. 18 * Len(queue) \in Nat /\ Cardinality(files) \in Nat /\ 3 * (MaxSpurious - spurious) \in Nat
    BY <1>1, PartsAreNumbers
  <2> QED
    BY <2>1, <2>2, <2>3 DEF OthersLeft
<1>6. MainLeft' = MainLeft \/ MainLeft' = MainLeft + 2
  <2>1. CASE pcM = "waiting"
    BY <1>1, <2>1 DEF MainLeft, Ended
  <2>2. CASE pcM # "waiting"
    BY <1>1, <2>2 DEF MainLeft
  <2> QED
    BY <2>1, <2>2
<1> QED
  <2>1. CASE MainLeft' = MainLeft
    BY <1>4, <1>5, <2>1 DEF PartsAddUp
  <2>2. CASE MainLeft' = MainLeft + 2
    BY <1>4, <1>5, <2>2 DEF PartsAddUp
  <2> QED
    BY <1>6, <2>1, <2>2

\* Spurious wakeups are paid for in advance.
LEMMA SpuriousPays ==
  ASSUME IInv, IInv', RInv, PartsAddUp, PartsAddUp',
         MainSpuriousWakeup \/ \E t \in Threads : SpuriousWakeup(t)
  PROVE  StepsLeft' < StepsLeft
<1>1. /\ spurious' = spurious + 1 /\ UNCHANGED <<queue, threads_complete, files, aJob>>
      /\ TypeOK /\ TypeOK'
  BY DEF MainSpuriousWakeup, SpuriousWakeup, schVars, mainVars, IInv
<1>2. OthersLeft' = OthersLeft - 3
  <2>1. PICK m, n : m = spurious /\ n = MaxSpurious /\ m \in Nat /\ n \in Nat
    BY <1>1, PartsAreNumbers
  <2>2. PICK o \in Int : o = 18 * Len(queue) + 7 * threads_complete + Cardinality(files)
    BY <1>1, PartsAreNumbers
  <2>3. OthersLeft = o + 3 * (n - m)
    BY <2>1, <2>2 DEF OthersLeft
  <2>4. OthersLeft' = o + 3 * (n - (m + 1))
    BY <1>1, <2>1, <2>2 DEF OthersLeft
  <2> QED
    BY <2>1, <2>3, <2>4
<1>3. CASE MainSpuriousWakeup
  <2>1. pcM = "waiting" /\ pcM' = "acquireT" /\ pc' = pc
    BY <1>3 DEF MainSpuriousWakeup
  <2>2. MainLeft' = MainLeft + 2
    BY <2>1 DEF MainLeft, Ended
  <2>3. WorkersLeft' = WorkersLeft
    BY <1>1, <2>1, NobodyMoves
  <2> QED
    BY <1>2, <2>2, <2>3 DEF PartsAddUp
<1>4. ASSUME NEW t \in Threads, SpuriousWakeup(t)
      PROVE  StepsLeft' < StepsLeft
  <2>1. pc[t] = "waiting" /\ pc' = PcAfterWake({t}) /\ pcM' = pcM
    BY <1>4 DEF SpuriousWakeup, At
  <2>2. pc'[t] = "acquireC" /\ \A u \in Threads \ {t} : pc'[u] = pc[u]
    BY <2>1 DEF PcAfterWake
  <2>3. StepsOf(t) = 3 /\ StepsOf(t)' = 5
    BY <2>1, <2>2 DEF StepsOf
  <2>4. \A u \in Threads \ {t} : StepsOf(u)' = StepsOf(u)
    BY <1>1, <2>2 DEF StepsOf
  <2>5. WorkersLeft' = WorkersLeft + 2
    BY <1>1, <2>3, <2>4, OneMoves DEF PartsAddUp
  <2>6. MainLeft' = MainLeft
    BY <1>1, <2>1 DEF MainLeft
  <2> QED
    BY <1>2, <2>5, <2>6 DEF PartsAddUp
<1> QED
  BY <1>3, <1>4

\* Two sums of three numbers.
LEMMA SumsCompared ==
  ASSUME NEW a \in Nat, NEW b \in Nat, NEW c \in Nat,
         NEW x \in Nat, NEW y \in Nat, NEW z \in Nat
  PROVE  /\ a + b + c \in Nat
         /\ a = x /\ b + c < y + z => a + b + c < x + y + z
OBVIOUS

\* The parts before and after a step.
LEMMA PartsAre ==
  ASSUME PartsAddUp, PartsAddUp'
  PROVE  /\ WorkersLeft \in Nat /\ MainLeft \in Nat /\ OthersLeft \in Nat
         /\ WorkersLeft' \in Nat /\ MainLeft' \in Nat /\ OthersLeft' \in Nat
         /\ StepsLeft = WorkersLeft + MainLeft + OthersLeft
         /\ StepsLeft' = WorkersLeft' + MainLeft' + OthersLeft'
         /\ StepsLeft \in Nat /\ StepsLeft' \in Nat
<1>1. /\ WorkersLeft \in Nat /\ MainLeft \in Nat /\ OthersLeft \in Nat
      /\ StepsLeft = WorkersLeft + MainLeft + OthersLeft
  BY DEF PartsAddUp
<1>2. /\ WorkersLeft' \in Nat /\ MainLeft' \in Nat /\ OthersLeft' \in Nat
      /\ StepsLeft' = WorkersLeft' + MainLeft' + OthersLeft'
  BY DEF PartsAddUp
<1> QED
  BY <1>1, <1>2, SumsCompared

\* A step of main that moves no thread and costs the others nothing.
LEMMA MainPays ==
  ASSUME IInv, IInv', PartsAddUp, PartsAddUp', UNCHANGED <<pc, aJob>>,
         MainLeft' + OthersLeft' < MainLeft + OthersLeft
  PROVE  StepsLeft' < StepsLeft
<1>1. WorkersLeft' = WorkersLeft
  BY NobodyMoves DEF IInv
<1> QED
  BY <1>1, PartsAre, SumsCompared

\* main submits the jobs, creates the threads, waits, and returns: it moves on.
LEMMA MainMovesOn ==
  ASSUME IInv, IInv', RInv, PartsAddUp, PartsAddUp',
         \/ Execute \/ MainAcquireT \/ MainWait \/ MainAcquireC \/ CheckQueue
         \/ ReportAccuracy \/ ResolveConflicts \/ Destroy
  PROVE  StepsLeft' < StepsLeft
<1> USE DEF schVars, dataVars, mainVars
<1>1. UNCHANGED <<queue, threads_complete, files, spurious, pc, aJob>>
  BY DEF Execute, MainAcquireT, MainWait, MainAcquireC, CheckQueue, ReportAccuracy,
         ResolveConflicts, Destroy
<1>2. OthersLeft' = OthersLeft
  BY <1>1 DEF OthersLeft
<1>3. MainLeft' < MainLeft
  <2>1. CASE Execute
    <3>1. pcM = "submit" /\ Len(queue) = NJobs /\ pcM' = "create"
      BY <2>1 DEF Execute
    <3>2. MainLeft = 8 /\ MainLeft' = 7
      BY <3>1, ConstantTypes DEF MainLeft, Ended
    <3> QED
      BY <3>2
  <2>2. CASE MainAcquireT \/ MainWait \/ MainAcquireC
    BY <2>2 DEF MainAcquireT, MainWait, MainAcquireC, MainLeft, Ended
  <2>3. CASE CheckQueue
    BY <2>3 DEF CheckQueue, MainLeft, Ended
  <2>4. CASE ReportAccuracy \/ ResolveConflicts
    BY <2>4 DEF ReportAccuracy, ResolveConflicts, MainLeft, Ended
  <2>5. CASE Destroy
    <3>1. pcM = "destroy" /\ pcM' \in Ended
      BY <2>5 DEF Destroy, Ended
    <3>2. MainLeft = 1 /\ MainLeft' = 0
      BY <3>1 DEF MainLeft, Ended
    <3> QED
      BY <3>2
  <2> QED
    BY <2>1, <2>2, <2>3, <2>4, <2>5
<1> QED
  BY <1>1, <1>2, <1>3, MainPays, PartsAre

\* A job that is submitted is paid for, and so are the files that are removed.
LEMMA SubmitPays ==
  ASSUME IInv, IInv', RInv, PartsAddUp, PartsAddUp', Submit
  PROVE  StepsLeft' < StepsLeft
<1>1. /\ pcM = "submit" /\ pcM' = pcM /\ Len(queue) < NJobs /\ queue' = Append(queue, Len(queue))
      /\ UNCHANGED <<threads_complete, files, spurious, pc, aJob>>
  BY DEF Submit, queue_insert, mainVars
<1>2. Len(queue') = Len(queue) + 1 /\ Len(queue) \in Nat
  BY <1>1 DEF IInv, TypeOK
<1>3. MainLeft' = MainLeft - 19
  <2>1. MainLeft = 8 + 19 * (NJobs - Len(queue)) /\ MainLeft' = 8 + 19 * (NJobs - Len(queue'))
    BY <1>1 DEF MainLeft, Ended
  <2> QED
    BY <1>2, <2>1, ConstantTypes
<1>4. OthersLeft' = OthersLeft + 18
  BY <1>1, <1>2, PartsAreNumbers DEF OthersLeft, IInv
<1>5. MainLeft' + OthersLeft' < MainLeft + OthersLeft
  BY <1>3, <1>4, PartsAre
<1> QED
  BY <1>1, <1>5, MainPays

LEMMA RemoveFilePays ==
  ASSUME IInv, IInv', RInv, PartsAddUp, PartsAddUp', RemoveFile
  PROVE  StepsLeft' < StepsLeft
<1>1. /\ files # {} /\ files' = {f \in files : \E g \in files : g < f}
      /\ UNCHANGED <<queue, threads_complete, spurious, pc, aJob, pcM>>
  BY DEF RemoveFile, schVars
<1>2. files \in SUBSET Nat
  BY FilesAssumption DEF IInv, TypeOK, BatchFiles
<1>3. PICK first \in files : \A g \in files : first <= g
  BY <1>1, <1>2, LeastNumber
<1>4. files' \subseteq files /\ first \notin files'
  BY <1>1, <1>2, <1>3
<1>5. Cardinality(files') < Cardinality(files) /\ Cardinality(files') \in Nat
  BY <1>4, PartsAreNumbers, FS_Subset, FS_CardinalityType DEF IInv
<1>6. OthersLeft' < OthersLeft
  BY <1>1, <1>5, PartsAreNumbers DEF OthersLeft, IInv
<1>7. MainLeft' = MainLeft
  BY <1>1 DEF MainLeft
<1> QED
  BY <1>1, <1>6, <1>7, MainPays, PartsAre

\* A new thread owes what it would owe from the top of its loop, and one step.
LEMMA CreateThreadPays ==
  ASSUME IInv, IInv', RInv, PartsAddUp, PartsAddUp', CreateThread
  PROVE  StepsLeft' < StepsLeft
<1>1. PICK t \in Threads :
         /\ pc[t] = "unborn" /\ pc' = [pc EXCEPT ![t] = "acquireC"]
         /\ pcM' = IF \A u \in Threads \ {t} : pc[u] # "unborn" THEN "acquireT" ELSE "create"
  BY DEF CreateThread
<1>2. UNCHANGED <<queue, threads_complete, files, spurious, aJob>> /\ pcM = "create"
  BY DEF CreateThread, schVars, mainVars
<1>3. StepsOf(t) = 6 /\ StepsOf(t)' = 5
  BY <1>1 DEF StepsOf, IInv, TypeOK
<1>4. \A u \in Threads \ {t} : StepsOf(u)' = StepsOf(u)
  BY <1>1, <1>2 DEF StepsOf, IInv, TypeOK
<1>5. WorkersLeft' = WorkersLeft - 1
  BY <1>3, <1>4, OneMoves DEF IInv, PartsAddUp
<1>6. OthersLeft' = OthersLeft
  BY <1>2 DEF OthersLeft
<1>7. MainLeft = 7 /\ MainLeft' \in {6, 7}
  BY <1>1, <1>2 DEF MainLeft, Ended
<1> QED
  BY <1>5, <1>6, <1>7, PartsAre

\* The next round is paid for by the threads that were counted in this one: there is
\* at least one.
LEMMA AggregatePays ==
  ASSUME IInv, IInv', RInv, PartsAddUp, PartsAddUp', Aggregate
  PROVE  StepsLeft' < StepsLeft
<1>1. /\ pcM = "checkDone" /\ pcM' = "acquireC" /\ threads_complete = N /\ threads_complete' = 0
      /\ UNCHANGED <<queue, files, spurious, pc, aJob>>
  BY DEF Aggregate, AllComplete, CountForNextRound, mainVars
<1>2. MainLeft = 5 /\ MainLeft' = 11
  BY <1>1 DEF MainLeft, Ended
<1>3. OthersLeft' <= OthersLeft - 7
  BY <1>1, PartsAreNumbers, ThreadsCounted DEF OthersLeft, IInv
<1> QED
  BY <1>1, <1>2, <1>3, MainPays, PartsAre

\* main pays for the thread it wakes.
LEMMA ResetTurnsPays ==
  ASSUME IInv, IInv', RInv, PartsAddUp, PartsAddUp', ResetTurns
  PROVE  StepsLeft' < StepsLeft
<1>1. /\ pcM = "reset" /\ pcM' = "checkQueue" /\ TypeOK /\ TypeOK'
      /\ UNCHANGED <<queue, threads_complete, files, spurious, aJob>>
  BY DEF ResetTurns, mainVars, IInv
<1>2. MainLeft = 10 /\ MainLeft' = 7 /\ OthersLeft' = OthersLeft
  BY <1>1 DEF MainLeft, Ended, OthersLeft
<1>3. PICK W \in Woken : pc' = PcAfterWake(W)
  BY DEF ResetTurns
<1>4. \A u \in Threads \ W : pc'[u] = pc[u]
  BY <1>3 DEF PcAfterWake
<1>5. CASE W = {}
  <2>1. \A u \in Threads : StepsOf(u)' = StepsOf(u)
    BY <1>1, <1>4, <1>5 DEF StepsOf
  <2>2. PICK t \in Threads : TRUE
    BY ThreadsAssumption
  <2>3. OwedAddsUp
    BY <1>1, OwedFacts
  <2>4. StepsOf(t) \in 0 .. 21
    BY <2>3 DEF OwedAddsUp, Owed
  <2>5. WorkersLeft' = WorkersLeft
    BY <1>1, <2>1, <2>4, OneMoves DEF PartsAddUp
  <2> QED
    BY <1>2, <2>5, PartsAre
<1>6. ASSUME NEW w \in Threads, W = {w}, pc[w] = "waiting"
      PROVE  StepsLeft' < StepsLeft
  <2>1. pc'[w] = "acquireC"
    BY <1>3, <1>6 DEF PcAfterWake
  <2>2. StepsOf(w) = 3 /\ StepsOf(w)' = 5
    BY <1>1, <1>3, <1>6, <2>1, WokenOwes
  <2>3. \A u \in Threads \ {w} : StepsOf(u)' = StepsOf(u)
    BY <1>1, <1>4, <1>6 DEF StepsOf
  <2>4. WorkersLeft' = WorkersLeft + 2
    BY <1>1, <2>2, <2>3, OneMoves DEF PartsAddUp
  <2> QED
    BY <1>2, <2>4, PartsAre
<1>7. W = {} \/ \E w \in Threads : W = {w} /\ pc[w] = "waiting"
  BY <1>1, ThreadsAssumption, WokenOwes
<1> QED
  BY <1>5, <1>6, <1>7

\* No thread runs in circles, for any number of threads, files and epochs, whichever
\* waiter a signal wakes: every step of every behaviour leaves fewer steps to do, so
\* that every behaviour comes to a stop.
THEOREM StepsAreFinite == Spec => StepsRunOut
<1>1. IInv /\ RInv => PartsAddUp
  BY PartsFacts
<1>2. ASSUME IInv, RInv, IInv', PartsAddUp, PartsAddUp', [Next]_vars, vars' # vars
      PROVE  StepsLeft' < StepsLeft
  <2>1. ASSUME NEW t \in Threads, Worker(t)
        PROVE  StepsLeft' < StepsLeft
    BY <1>2, <2>1, WorkerMovesOn, PassTurnPays, CompletePays DEF Worker
  <2>2. CASE MainStep
    BY <1>2, <2>2, MainMovesOn, SubmitPays, RemoveFilePays, CreateThreadPays, AggregatePays,
       ResetTurnsPays DEF MainStep
  <2>3. CASE MainSpuriousWakeup \/ \E t \in Threads : SpuriousWakeup(t)
    BY <1>2, <2>3, SpuriousPays
  <2> QED
    BY <1>2, <2>1, <2>2, <2>3 DEF Next, Terminated
<1>3. IInv /\ RInv /\ IInv' /\ PartsAddUp /\ PartsAddUp' /\ [Next]_vars
        => [StepsLeft' \in 0 .. StepsLeft - 1]_vars
  <2> SUFFICES ASSUME IInv, RInv, IInv', PartsAddUp, PartsAddUp', [Next]_vars, vars' # vars
               PROVE  StepsLeft' \in 0 .. StepsLeft - 1
    OBVIOUS
  <2>1. StepsLeft' < StepsLeft
    BY <1>2
  <2>2. StepsLeft \in Nat /\ StepsLeft' \in Nat
    BY PartsAre
  <2> QED
    BY <2>1, <2>2
<1> QED
  BY <1>1, <1>3, Invariance, RoundsInvariance, PTL DEF Spec, StepsRunOut
=============================================================================
