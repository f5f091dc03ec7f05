---------------------------- MODULE JobScheduler ----------------------------
(***************************************************************************)
(* The job scheduler of multithreading/scheduler.c with the part of main.c *)
(* that drives it: submit every job, execute_all_jobs, remove the batch    *)
(* files, report the accuracy, resolve conflicts, destroy the scheduler    *)
(* and leave the process.  The worker threads run threadWork and are never *)
(* joined.                                                                 *)
(*                                                                         *)
(* Locks.  T is threads_complete_mutex and C is can_i_take_a_job_mutex.  A *)
(* critical section that takes no further lock is a single action, so the  *)
(* two innermost locks, queue_mutex and print_mutex, are never held in any *)
(* state, and T is held across states only by the main thread.             *)
(*                                                                         *)
(* Data.  A job is its job_id.  The coefficients are the sequence of the   *)
(* updates made to them, an update being the set of the contributions that *)
(* were summed; a contribution names its job, how many updates the worker  *)
(* saw when it started to read the coefficients, and whether the routine   *)
(* had finished when the contribution was read.                            *)
(***************************************************************************)
EXTENDS Integers, Sequences, FiniteSets

CONSTANTS Threads,          \* the THREADNO worker threads
          Epochs,           \* passes over the training files (5 in main.c)
          TrainingFiles,    \* what decrement() returned for the training set
          TestFiles,        \* what decrement() returned for the test set
          WakeupOrders,     \* which waiter a signal wakes: "any", or with "fifo"
                            \* the one that has waited longest
          MaxSpurious       \* bound: spurious wakeups POSIX may add to a run

N == Cardinality(Threads)

ASSUME FilesAssumption ==          \* the asserts of main.c, lines 122, 132, 152
  /\ Epochs \in Nat
  /\ TrainingFiles \in Nat /\ TrainingFiles % N = 0
  /\ TestFiles \in Nat /\ TestFiles % N = 0
ASSUME WakeupAssumption == WakeupOrders \subseteq {"any", "fifo"} /\ MaxSpurious \in Nat

-----------------------------------------------------------------------------
(* Jobs, in the order main submits them. *)
TrainingJobs == Epochs * TrainingFiles
NJobs == TrainingJobs + TestFiles
JobIds == 0 .. NJobs - 1
NoJob == -1
IsTraining(j) == j < TrainingJobs
FileName(j) == IF IsTraining(j) THEN (j % TrainingFiles) + 1
                                ELSE TrainingFiles + (j - TrainingJobs) + 1
BatchFiles == 1 .. TrainingFiles + TestFiles

Main == "main"              \* the main thread, as the owner of a lock
Free == "free"              \* no thread owns the lock

ASSUME ThreadsAssumption ==
  /\ IsFiniteSet(Threads) /\ Threads # {}
  /\ Main \notin Threads /\ Free \notin Threads

VARIABLES
  queue,                    \* sch->q
  time_to_work,             \* sch->time_to_work
  threads_complete,         \* sch->threads_complete
  read_from_coeff_array,    \* sch->read_from_coeff_array
  coefficients,             \* sch->coefficients: the updates made so far
  result,                   \* slot i of threads_coeffs, thread_predictions and
                            \* thread_correct_predictions
  tested,                   \* all_predictions_testing, all_correct_predictions
  accuracy,                 \* the value of tested that main reported
  T, C,                     \* owners of the two mutexes
  wakeup,                   \* the order of the C library in use
  ahead,                    \* order of the waiters on can_i_take_a_job
  aJob, pc,                 \* locals of threadWork
  pcM,                      \* where main is
  files,                    \* the batch files on disk
  spurious                  \* spurious wakeups so far

schVars  == <<queue, time_to_work, threads_complete, read_from_coeff_array>>
dataVars == <<coefficients, result, tested>>
mainVars == <<accuracy, files, wakeup>>
vars == <<queue, time_to_work, threads_complete, read_from_coeff_array,
          coefficients, result, tested, accuracy, T, C, wakeup, ahead, aJob, pc,
          pcM, files, spurious>>

WorkerPC == {"unborn", "acquireC", "checkTurn", "waiting", "passTurn",
             "leaveTraining", "start", "compute", "complete", "returned"}
\* main is inside execute_all_jobs or before it ...
Executing == {"submit", "create", "acquireT", "checkDone", "waiting",
              "acquireC", "reset", "checkQueue"}
\* ... or in what follows it, or the process has ended.
AfterJobs == {"removeFiles", "resolve", "destroy"}
Ended == {"exited", "aborted", "crashed"}
Running == pcM \notin Ended

Contribution == [job : JobIds \cup {NoJob}, base : Nat, done : BOOLEAN]

\* initialize_scheduler, after decrement has written the batch files.
Init ==
  /\ queue = <<>>
  /\ time_to_work = [t \in Threads |-> 1]
  /\ threads_complete = 0
  /\ read_from_coeff_array = 1
  /\ coefficients = <<>>
  /\ result = [t \in Threads |-> [job |-> NoJob, base |-> 0, done |-> TRUE]]
  /\ tested = <<>>
  /\ accuracy = <<>>
  /\ T = Free /\ C = Free
  /\ wakeup \in WakeupOrders
  /\ ahead = [t \in Threads |-> {}]
  /\ aJob = [t \in Threads |-> NoJob]
  /\ pc = [t \in Threads |-> "unborn"]
  /\ pcM = "submit"
  /\ files = BatchFiles
  /\ spurious = 0

-----------------------------------------------------------------------------
(* The queue, which only the holder of queue_mutex touches. *)
queue_empty(q) == q = <<>>
queue_insert(q, job) == Append(q, job)
queue_remove(q) == Tail(q)

-----------------------------------------------------------------------------
(* pthread_cond_signal(&can_i_take_a_job): POSIX wakes some waiter; with    *)
(* FifoWakeups, the one that has waited longest.  A woken thread has to     *)
(* take C again before it looks at its condition.                           *)
FifoWakeups == wakeup = "fifo"
Waiting == {t \in Threads : pc[t] = "waiting"}
Wakeable == {t \in Waiting : ahead[t] = {}}
DroppedSignal == {{}}                               \* mutant: no signal is sent
Woken == IF Wakeable = {} THEN {{}} ELSE {{t} : t \in Wakeable}
Wake(W) == ahead' = [t \in Threads |-> IF t \in W THEN {} ELSE ahead[t] \ W]
PcAfterWake(W) == [t \in Threads |-> IF t \in W THEN "acquireC" ELSE pc[t]]

-----------------------------------------------------------------------------
(* threadWork *)

\* Thread t of the live process is at the given place.
At(t, place) == Running /\ pc[t] = place

\* Lock C, at the top of the loop or on the way out of pthread_cond_wait.
AcquireC(t) ==
  /\ At(t, "acquireC") /\ C = Free
  /\ C' = t
  /\ pc' = [pc EXCEPT ![t] = "checkTurn"]
  /\ UNCHANGED <<schVars, dataVars, mainVars, T, ahead, aJob, pcM, spurious>>

\* time_to_work[i] == 0: pthread_cond_wait releases C.
WaitTurn(t) ==
  /\ At(t, "checkTurn") /\ time_to_work[t] = 0
  /\ C' = Free
  /\ ahead' = [ahead EXCEPT ![t] = IF FifoWakeups THEN Waiting ELSE {}]
  /\ pc' = [pc EXCEPT ![t] = "waiting"]
  /\ UNCHANGED <<schVars, dataVars, mainVars, T, aJob, pcM, spurious>>

\* queue_remove under queue_mutex; an empty queue leaves NoJob (error = 1).
TakeJob(t) ==
  /\ At(t, "checkTurn") /\ time_to_work[t] # 0
  /\ IF queue_empty(queue)
       THEN aJob' = [aJob EXCEPT ![t] = NoJob] /\ UNCHANGED queue
       ELSE aJob' = [aJob EXCEPT ![t] = Head(queue)] /\ queue' = queue_remove(queue)
  /\ pc' = [pc EXCEPT ![t] = "passTurn"]
  /\ UNCHANGED <<time_to_work, threads_complete, read_from_coeff_array,
                 dataVars, mainVars, T, C, ahead, pcM, spurious>>

\* Signal the next thread, unlock C, and leave or go to the job's routine.
PassTurn(t) ==
  /\ At(t, "passTurn")
  /\ \E W \in Woken :
       /\ Wake(W)
       /\ pc' = [PcAfterWake(W) EXCEPT ![t] =
                   CASE aJob[t] = NoJob     -> "returned"
                     [] aJob[t] # NoJob /\ IsTraining(aJob[t])  -> "start"
                     [] aJob[t] # NoJob /\ ~IsTraining(aJob[t]) -> "leaveTraining"]
  /\ C' = Free
  /\ UNCHANGED <<schVars, dataVars, mainVars, T, aJob, pcM, spurious>>

\* A testing job switches the main thread to accuracy results, under T.
LeaveTraining(t) ==
  /\ At(t, "leaveTraining") /\ T = Free
  /\ read_from_coeff_array' = 0
  /\ pc' = [pc EXCEPT ![t] = "start"]
  /\ UNCHANGED <<queue, time_to_work, threads_complete, dataVars, mainVars,
                 T, C, ahead, aJob, pcM, spurious>>

\* train() or test(): open the batch file, which has to exist, and start to
\* read the coefficients.  Until the routine is done the slot is not valid.
StartJob(t) ==
  /\ At(t, "start")
  /\ IF FileName(aJob[t]) \in files
       THEN /\ result' = [result EXCEPT ![t] =
                 [job |-> aJob[t], base |-> Len(coefficients), done |-> FALSE]]
            /\ pc' = [pc EXCEPT ![t] = "compute"]
            /\ UNCHANGED pcM
       ELSE pcM' = "aborted" /\ UNCHANGED <<result, pc>>
  /\ UNCHANGED <<schVars, coefficients, tested, mainVars, T, C, ahead, aJob,
                 spurious>>

\* The routine returns: the slot of the thread is filled in.
FinishJob(t) ==
  /\ At(t, "compute")
  /\ result' = [result EXCEPT ![t].done = TRUE]
  /\ pc' = [pc EXCEPT ![t] = "complete"]
  /\ UNCHANGED <<schVars, coefficients, tested, mainVars, T, C, ahead, aJob,
                 pcM, spurious>>

TurnKept(t) == time_to_work                         \* mutant: line 122 is missing
TurnTaken(t) == [time_to_work EXCEPT ![t] = 0]

\* Under T: count the thread as complete, take its turn away, destroy the job
\* and signal are_calcs_done_cond, on which only the main thread waits.
Complete(t) ==
  /\ At(t, "complete") /\ T = Free
  /\ threads_complete' = threads_complete + 1
  /\ time_to_work' = TurnTaken(t)
  /\ aJob' = [aJob EXCEPT ![t] = NoJob]
  /\ pcM' = IF pcM = "waiting" THEN "acquireT" ELSE pcM
  /\ pc' = [pc EXCEPT ![t] = "acquireC"]
  /\ UNCHANGED <<queue, read_from_coeff_array, dataVars, mainVars, T, C, ahead,
                 spurious>>

\* pthread_cond_wait may return without a signal.
SpuriousWakeup(t) ==
  /\ At(t, "waiting") /\ spurious < MaxSpurious
  /\ Wake({t}) /\ pc' = PcAfterWake({t})
  /\ spurious' = spurious + 1
  /\ UNCHANGED <<schVars, dataVars, mainVars, T, C, aJob, pcM>>

Worker(t) ==
  \/ AcquireC(t)      \/ WaitTurn(t) \/ TakeJob(t)   \/ PassTurn(t)
  \/ LeaveTraining(t) \/ StartJob(t) \/ FinishJob(t) \/ Complete(t)

-----------------------------------------------------------------------------
(* main: submit_job for every file of every epoch, then execute_all_jobs *)

\* The next job; job_id_counter is the number of jobs created so far.
Submit ==
  /\ pcM = "submit" /\ Len(queue) < NJobs
  /\ queue' = queue_insert(queue, Len(queue))
  /\ UNCHANGED <<time_to_work, threads_complete, read_from_coeff_array,
                 dataVars, mainVars, T, C, ahead, aJob, pc, pcM, spurious>>

Execute ==
  /\ pcM = "submit" /\ Len(queue) = NJobs
  /\ pcM' = "create"
  /\ UNCHANGED <<schVars, dataVars, mainVars, T, C, ahead, aJob, pc, spurious>>

\* pthread_create, once per slot of tids; the slots differ in nothing but name.
CreateThread ==
  /\ pcM = "create"
  /\ \E t \in Threads :
       /\ pc[t] = "unborn"
       /\ pc' = [pc EXCEPT ![t] = "acquireC"]
       /\ pcM' = IF \A u \in Threads \ {t} : pc[u] # "unborn"
                   THEN "acquireT" ELSE "create"
  /\ UNCHANGED <<schVars, dataVars, mainVars, T, C, ahead, aJob, spurious>>

AlmostAllComplete == threads_complete + 1 >= N      \* mutant: off by one
AllComplete == threads_complete = N

CountKept == threads_complete                       \* mutant: line 175 is missing
CountForNextRound == 0

\* Lock T, at the top of the loop or on the way out of pthread_cond_wait.
MainAcquireT ==
  /\ pcM = "acquireT" /\ T = Free
  /\ T' = Main
  /\ pcM' = "checkDone"
  /\ UNCHANGED <<schVars, dataVars, mainVars, C, ahead, aJob, pc, spurious>>

\* Not everybody is done: pthread_cond_wait releases T.
MainWait ==
  /\ pcM = "checkDone" /\ ~AllComplete
  /\ T' = Free
  /\ pcM' = "waiting"
  /\ UNCHANGED <<schVars, dataVars, mainVars, C, ahead, aJob, pc, spurious>>

MainSpuriousWakeup ==
  /\ pcM = "waiting" /\ spurious < MaxSpurious
  /\ pcM' = "acquireT"
  /\ spurious' = spurious + 1
  /\ UNCHANGED <<schVars, dataVars, mainVars, T, C, ahead, aJob, pc>>

\* Everybody is done: update the coefficients or the totals, from every slot.
Aggregate ==
  /\ pcM = "checkDone" /\ AllComplete
  /\ LET slots == {result[t] : t \in Threads}
     IN IF read_from_coeff_array = 1
          THEN /\ coefficients' = Append(coefficients, slots)
               /\ UNCHANGED tested
          ELSE /\ tested' = Append(tested, slots)
               /\ UNCHANGED coefficients
  /\ threads_complete' = CountForNextRound
  /\ pcM' = "acquireC"
  /\ UNCHANGED <<queue, time_to_work, read_from_coeff_array, result, mainVars,
                 T, C, ahead, aJob, pc, spurious>>

\* Lock C while T is held.
MainAcquireC ==
  /\ pcM = "acquireC" /\ C = Free
  /\ C' = Main
  /\ pcM' = "reset"
  /\ UNCHANGED <<schVars, dataVars, mainVars, T, ahead, aJob, pc, spurious>>

\* Every thread may take a job again: one signal, and both locks released.
ResetTurns ==
  /\ pcM = "reset"
  /\ time_to_work' = [t \in Threads |-> 1]
  /\ \E W \in Woken : Wake(W) /\ pc' = PcAfterWake(W)
  /\ C' = Free /\ T' = Free
  /\ pcM' = "checkQueue"
  /\ UNCHANGED <<queue, threads_complete, read_from_coeff_array, dataVars,
                 mainVars, aJob, spurious>>

LastBatchQueued == Len(queue) <= N                  \* mutant: one batch too early
NothingQueued == queue_empty(queue)

\* Under queue_mutex, after T and C were released: an empty queue ends it.
CheckQueue ==
  /\ pcM = "checkQueue"
  /\ pcM' = IF NothingQueued THEN "removeFiles" ELSE "acquireT"
  /\ UNCHANGED <<schVars, dataVars, mainVars, T, C, ahead, aJob, pc, spurious>>

-----------------------------------------------------------------------------
(* main, after execute_all_jobs has returned *)

\* remove() of the batch files, in order.
RemoveFile ==
  /\ pcM = "removeFiles" /\ files # {}
  /\ files' = {f \in files : \E g \in files : g < f}
  /\ UNCHANGED <<schVars, dataVars, accuracy, T, C, wakeup, ahead, aJob, pc, pcM, spurious>>

ReportAccuracy ==
  /\ pcM = "removeFiles" /\ files = {}
  /\ accuracy' = tested
  /\ pcM' = "resolve"
  /\ UNCHANGED <<schVars, dataVars, files, T, C, wakeup, ahead, aJob, pc, spurious>>

\* conflict_resolution updates the coefficients in place when it finds
\* conflicts; its updates come from no job.
ResolveConflicts ==
  /\ pcM = "resolve"
  /\ \/ coefficients' = Append(coefficients, {})
     \/ UNCHANGED coefficients
  /\ pcM' = "destroy"
  /\ UNCHANGED <<schVars, result, tested, mainVars, T, C, ahead, aJob, pc, spurious>>

\* pthread_cond_destroy of the C library returns when no thread is blocked on
\* the condition variable (POSIX leaves the case undefined).
MayDestroyCond == Waiting = {}

\* destroy_scheduler frees everything, after queue_destroy has asserted that
\* the queue is empty; main returns and the process ends with every thread.  A
\* worker that has not returned may use what is freed, and crash the process.
Destroy ==
  /\ pcM = "destroy" /\ MayDestroyCond
  /\ \/ pcM' = IF queue_empty(queue) THEN "exited" ELSE "aborted"
     \/ (\E t \in Threads : pc[t] # "returned") /\ pcM' = "crashed"
  /\ UNCHANGED <<schVars, dataVars, mainVars, T, C, ahead, aJob, pc, spurious>>

MainStep ==
  \/ Submit       \/ Execute      \/ CreateThread   \/ MainAcquireT
  \/ MainWait     \/ Aggregate    \/ MainAcquireC   \/ ResetTurns
  \/ CheckQueue   \/ RemoveFile   \/ ReportAccuracy \/ ResolveConflicts
  \/ Destroy

\* The process is over: nothing happens any more.
Terminated == ~Running /\ UNCHANGED vars

Next ==
  \/ MainStep
  \/ MainSpuriousWakeup
  \/ \E t \in Threads : Worker(t) \/ SpuriousWakeup(t)
  \/ Terminated

Spec == Init /\ [][Next]_vars

\* The operating system runs every thread that can run.
FairSpec ==
  /\ Spec
  /\ WF_vars(MainStep)
  /\ \A t \in Threads : WF_vars(Worker(t))

-----------------------------------------------------------------------------
(* Properties *)

\* Every variable of the scheduler, of its threads and of main stays in its
\* type; T is never held across states by a worker.
TypeOK ==
  /\ queue \in Seq(JobIds)
  /\ time_to_work \in [Threads -> {0, 1}]
  /\ threads_complete \in 0 .. N
  /\ read_from_coeff_array \in {0, 1}
  /\ coefficients \in Seq(SUBSET Contribution)
  /\ result \in [Threads -> Contribution]
  /\ tested \in Seq(SUBSET Contribution)
  /\ accuracy \in Seq(SUBSET Contribution)
  /\ T \in {Free, Main}
  /\ C \in Threads \cup {Free, Main}
  /\ wakeup \in WakeupOrders
  /\ ahead \in [Threads -> SUBSET Threads]
  /\ aJob \in [Threads -> JobIds \cup {NoJob}]
  /\ pc \in [Threads -> WorkerPC]
  /\ pcM \in Executing \cup AfterJobs \cup Ended
  /\ files \in SUBSET BatchFiles
  /\ spurious \in 0 .. MaxSpurious

\* threads_complete counts exactly the threads whose turn is over, although
\* the counter and the flags are reset under different locks: between the two
\* resets nobody can complete, every flag is down and the counter is zero.
CountMatchesTurns ==
  Running =>
  IF pcM \in {"acquireC", "reset"}
    THEN threads_complete = 0 /\ \A t \in Threads : time_to_work[t] = 0
    ELSE threads_complete = Cardinality({t \in Threads : time_to_work[t] = 0})

\* While the main thread reads the slots and writes the coefficients (lines
\* 145-174, which take no lock against train() and test()) and until it has
\* given the turns back, every worker is outside its routine, before the queue
\* and with a finished slot.
AllThreadsParked ==
  (pcM = "checkDone" /\ AllComplete) \/ pcM \in {"acquireC", "reset"}
    => \A t \in Threads : /\ pc[t] \in {"acquireC", "checkTurn", "waiting"}
                          /\ aJob[t] = NoJob
                          /\ result[t].done

\* train() and test() read sch->coefficients without a lock for as long as
\* they run: until main goes on to resolve conflicts, the coefficients a
\* worker started with are still the current ones.
StableCoefficients ==
  \A t \in Threads : pc[t] = "compute" /\ pcM \in Executing \cup {"removeFiles", "resolve"}
                       => result[t].base = Len(coefficients)

\* No worker runs ahead of a round: a job of the r-th batch is taken only when
\* exactly r batches have been accounted for, whatever the wakeup order.
RoundBarrier ==
  [][\A t \in Threads : aJob'[t] # aJob[t] /\ aJob'[t] # NoJob
        => aJob'[t] \div N = Len(coefficients) + Len(tested)]_vars

\* execute_all_jobs returns before the workers do (CheckQueue looks at the queue
\* alone), and main goes on to remove files, to update the coefficients and to free
\* the scheduler.  Whatever a worker still runs then is a job of the last batch, and
\* nobody takes another: the damage never reaches a batch that was accounted for.
StragglersAreOfLastBatch ==
  pcM \in AfterJobs =>
    /\ queue = <<>>
    /\ \A t \in Threads : aJob[t] # NoJob => aJob[t] >= NJobs - N

\* The threads together do what one thread would do batch by batch, of which
\* at most the last batch is missing when main reads the accuracy.
Serial == INSTANCE SerialBatches
            WITH BatchSize <- N,
                 handedOver <- pcM \in {"resolve", "destroy"} \cup Ended /\ files = {}
ImplementsSerialBatches == Serial!Spec

\* execute_all_jobs returns (README.md:126: when the queue is empty the master
\* thread terminates): no signal gets lost, nobody waits for a thread that
\* waits for a signal.
JobsEnd == <>(pcM \notin Executing)
\* So it is if a signal wakes the thread that has waited longest.
JobsEndInLine == FifoWakeups => JobsEnd

\* Who cannot take a step: a worker that waits for a signal, a lock or its
\* creation or has returned, and the main thread likewise.
Blocked(t) ==
  \/ pc[t] \in {"unborn", "waiting", "returned"}
  \/ pc[t] = "acquireC" /\ C # Free
  \/ pc[t] \in {"leaveTraining", "complete"} /\ T # Free
MainBlocked ==
  \/ pcM = "waiting"
  \/ pcM = "acquireT" /\ T # Free
  \/ pcM = "acquireC" /\ C # Free
  \/ pcM = "create" /\ \A t \in Threads : pc[t] # "unborn"
  \/ pcM = "submit" /\ Len(queue) > NJobs

\* execute_all_jobs never comes to a standstill, neither by a lost signal nor by the
\* two locks that main holds at once nor by waiting for a thread that has found the
\* queue empty -- provided that there is a job: with none main waits for ever.
NoStandstill ==
  FifoWakeups /\ NJobs > 0 /\ pcM \in Executing
    => ~MainBlocked \/ \E t \in Threads : ~Blocked(t)

\* The steps left, at most: of each thread from where it is, with a step of a thread
\* that it may wake, and with 18 for each job in the queue.  WorkersLeft is the
\* sum of StepsOf over the threads.
StepsOf(t) ==
  CASE pc[t] = "unborn"        -> 6
    [] pc[t] = "acquireC"      -> 5
    [] pc[t] = "checkTurn"     -> 4
    [] pc[t] = "waiting"       -> 3
    [] pc[t] = "passTurn"      -> IF aJob[t] = NoJob THEN 3 ELSE 21
    [] pc[t] = "leaveTraining" -> 18
    [] pc[t] = "start"         -> 17
    [] pc[t] = "compute"       -> 16
    [] pc[t] = "complete"      -> 15
    [] pc[t] = "returned"      -> 0
WorkersLeft == Cardinality({tk \in Threads \X (1 .. 21) : tk[2] <= StepsOf(tk[1])})
MainLeft ==
  CASE pcM = "submit"      -> 8 + 19 * (NJobs - Len(queue))
    [] pcM = "create"      -> 7
    [] pcM = "acquireC"    -> 11
    [] pcM = "reset"       -> 10
    [] pcM = "checkQueue"  -> 7
    [] pcM = "acquireT"    -> 6
    [] pcM = "checkDone"   -> 5
    [] pcM = "waiting"     -> 4
    [] pcM = "removeFiles" -> 3
    [] pcM = "resolve"     -> 2
    [] pcM = "destroy"     -> 1
    [] pcM \in Ended       -> 0
StepsLeft == WorkersLeft + MainLeft + 18 * Len(queue) + 7 * threads_complete
               + Cardinality(files) + 3 * (MaxSpurious - spurious)

\* No thread runs in circles, whichever waiter is woken: every step leaves fewer
\* steps to do, those of the condition loops and of the rounds included.
StepsRunOut == [][StepsLeft' \in 0 .. StepsLeft - 1]_vars

\* The accuracy main reports counts every testing batch (scheduler.h:57-58).
AccuracyCountsEveryBatch ==
  pcM \in {"resolve", "destroy"} => Len(accuracy) * N = TestFiles
=============================================================================
