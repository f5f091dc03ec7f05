# A verification development for ALPS2020

The program (`src/main.c` and what it links) reads product specifications
("specs") from JSON files and labelled pairs of them from a CSV file, closes the
labels transitively, trains a logistic regression on pairs of specs with a pool
of threads, measures its accuracy, and finally looks for predictions that
contradict each other and corrects the model. The modules here model the parts
of it that have state worth checking; TLC checks them on small instances, and
TLAPS proves theorems for every value of the constants about the scheduler, the
batch files, the cliques and labels, the conflict resolution, the routines over
rows, the bag of words and the selection of the features.

Run the tools in this directory: `tlc -config ThreeThreads.cfg JobScheduler`,
`tlapm JobSchedulerProofs.tla`. `PROJECT.json` holds, in machine-readable form,
the components, the runs, the lines each definition stands for, the findings,
the hazards and the theorems. Source paths below are relative to `src/`.

## 1. The system

| component | code | state | operations | status |
|---|---|---|---|---|
| job scheduler | `multithreading/scheduler.c`, `queue.c`, `queueelement.c` | job queue, a flag `time_to_work` and a result slot per thread, `threads_complete`, coefficients, totals of the test, three mutexes, two condition variables | `initialize_scheduler`, `submit_job`, `threadWork`, `execute_all_jobs`, `destroy_scheduler` | modelled |
| batch files | `decrement()` in `scheduler.c`, called by `main.c` | numbered files, merge file, counters | cut a data set into files, merge the last ones, cut them again | modelled |
| cliques | `set.c`, `negcl.c`, `datatypes.c` | per spec: `parent`, `next_in_clique`, `amount`, negative list; list of representatives | `find_root`, `join_sets`, `insert_master`, `remove_master`, `neglist_add`, `reinitialize_all_cliques` | modelled |
| labels | `csvparser` in `parse.c`, printing in `set.c`, `negcl.c` | the cliques, the marks in the negative lists, the output file | two passes over the rows, print all pairs, reset | modelled |
| conflict resolution | `conflict_resolution` in `multithreading/routines.c`, `matchlist.c` | the cliques, match lists, `max_prediction`, corrections | three passes per iteration, update of the coefficients | modelled |
| train, test | `multithreading/routines.c` | position in a file of rows, coefficients, counters | read the rows, update or predict, count | modelled |
| `threshold_tuning` | `multithreading/routines.c` | the same, and the best threshold so far | one pass per threshold | modelled; its call is commented out (`main.c:168`) |
| serial logistic regression | `logreg.c` | the same, and the epoch | `train`, `validate`, `test` | modelled; the code the scheduler replaced |
| hash map | `hashmap.c`, `datatypes.c` | a chained table without removal | `create_map`, `add_to_bucket`, `find_node` | modelled |
| JSON parser | `parser` in `parse.c` | the file that is read, the number of texts | number and register the specs, hand names, values and arrays on | partly: not the characters, not the attribute lists (`tuplist.c`), which nothing but the printing reads |
| dictionary, stop words, bag of words | `BOW/` | a search tree, a vector of counts per text, document frequencies; all vectors grow together | `bow_it`, `insert_tree`, `search_tree`, `new_word_in_bag`, `old_word` | modelled |
| TF-IDF, important words | `TF-IDF/`, `BOW/vectorOps.c` | TF-IDF vectors, averages, numbers of the words | averages, two quicksorts, crop, columns of the words kept | modelled |
| main program | `main.c` | the order of the phases | | partly: each module has the part of it that drives it |
| splitter | `splitter.c` | | | not modelled, see section 6 |
| tests | `tests/` | | | not modelled: read for what they promise |

**Interaction.** `main` runs everything in sequence but for the scheduler's
threads. `parser` fills the hash map, the dictionary and the bag of words;
`main` turns these into the features of every spec, which the map's numbers
index from then on. `csvparser` builds cliques in the nodes of the hash map; `main` prints
and drops them. `decrement` writes files whose numbers `main` turns into jobs;
the workers open these files by name; `main` removes them afterwards. The
workers and the main thread share the queue, the flags, the counter, the slots
and the coefficients. `conflict_resolution` takes the cliques over, empty, and
writes the coefficients in place -- while workers may still be running.

**What is hard here.**

* *Threads.* A round is a batch of one job per thread. Its end is announced by
  a counter under one mutex, its beginning by one signal under another, which
  the threads hand on. Slots and coefficients are read and written under none.
  The main thread leaves when the queue is empty, which is not when the work
  is done.
* *Arithmetic of file numbers.* `decrement` moves a file number back, forward
  and back again while it appends, removes and writes files.
* *Pointer structures with redundancy.* A clique is a tree, a list and a size at
  once, and a negative list has a counterpart; every operation updates all of
  them by hand.
* *State across iterations.* Conflict resolution rebuilds everything from the
  predictions of a model that it corrects in between.
* *Numbers that must agree.* A spec is known by a number in three arrays, of which
  one is shifted by one; a word by a number in the dictionary and a position in
  vectors that grow on their own.
* *Doubles.* A division of 0 by 0 (an empty text, an empty round, a threshold that
  no row reaches) gives NaN, with which no comparison holds.

There is no persistence and no communication, so no crash recovery and no lost
messages. Errors of the C library end the process by an assertion; those are
modelled where a file may be missing.

**What makes each component correct.**

* *Scheduler*: rounds do not mix; the main thread aggregates when nobody
  computes; a worker computes from coefficients that do not change under it; all
  of it amounts to a serial execution; it ends; the accuracy counts everything.
* *Batch files*: no line is lost, repeated or moved to the other set; the files
  are numbered as `main` expects; they are whole rounds.
* *Cliques and labels*: the structures agree with each other and are the closure
  of the labels; `find_root` is short; what is printed is that closure.
* *Bag of words and features*: a spec finds its own counts and features; the
  frequencies count texts; the words kept are those of the largest averages.
* *Routines over rows*: every row is used as often as it should be; what is counted
  belongs to this file and this pass; the threshold chosen is the best one.
* *Conflict resolution*: an iteration sees only its own predictions; the
  match lists follow the cliques; every conflict is found; what is corrected is
  what the documentation says.

## 2. Plan

Modules, in the order in which they were written:

| module | what it is |
|---|---|
| `SerialBatches` | abstract: what the scheduler promises, one batch after the other |
| `JobScheduler` | the scheduler, its threads and `main` around it; implements `SerialBatches` |
| `JobSchedulerProofs` | its theorems: types, counts, quiet; then rounds and the refinement; then progress |
| `BatchFiles`, `BatchFilesProofs` | `decrement`, for both data sets |
| `Cliques`, `CliquesProofs` | disjoint sets and negative lists, extended by the next two; lemmas about them |
| `LabelClosure`; `Labels`, `MCLabels` | abstract: the closure of labelled rows; `csvparser` and printing, which implement it |
| `LabelsProofs` | its theorems, the refinement among them |
| `ConflictResolution`, `MCConflictResolution` | the three passes and the iteration |
| `ConflictProofs` | its theorems |
| `BagOfWords` | the parser, the hash map, the dictionary and the bag of words |
| `ImportantWords`, `MCImportantWords` | extends `BagOfWords`: TF-IDF, the two sorts, the features |
| `WordsProofs` | theorems about what the parser builds, in the behaviours of `ImportantWords` |
| `SelectionProofs` | extends `WordsProofs`: theorems about the two sorts and the features |
| `Regression`, `RegressionProofs` | the routines over files of rows: `routines.c` and `logreg.c` |

The theorems came last, in the order of section 5. The modules are written for
them: constants with named assumptions, one action per step, recursion only as
recursive functions. Every invariant and every action property that a passing
run checks is a theorem; the two liveness properties are not (end of section 5).

## 3. The modules and the code

### JobScheduler

One action per critical section or per stretch of code between two of them.
`pc[t]` is where worker `t` is in `threadWork`, `pcM` where the main thread is.

| action | code |
|---|---|
| `AcquireC`, `WaitTurn` | lock `can_i_take_a_job_mutex`; `while(time_to_work[i] == 0) pthread_cond_wait` |
| `TakeJob` | `queue_remove` under `queue_mutex` |
| `PassTurn` | signal, unlock; leave if there was no job |
| `LeaveTraining` | `read_from_coeff_array = 0` under `threads_complete_mutex`, for a test job |
| `StartJob`, `FinishJob` | `train` or `test`: open the file and begin to read the coefficients; return with the slot filled in |
| `Complete` | count, take the turn away, signal the main thread |
| `Submit`, `Execute`, `CreateThread` | `main`'s loops that submit the jobs; `pthread_create` |
| `MainAcquireT`, `MainWait`, `Aggregate` | `while(threads_complete != threads) pthread_cond_wait`; new coefficients or totals; counter to 0 |
| `MainAcquireC`, `ResetTurns` | take the second mutex, give every turn back, signal once, release both |
| `CheckQueue` | leave when the queue is empty |
| `RemoveFile`, `ReportAccuracy`, `ResolveConflicts`, `Destroy` | `main` after `execute_all_jobs` |

*Locks.* A critical section that takes no further lock is one action, so
`queue_mutex` and `print_mutex` never appear, and `T`
(`threads_complete_mutex`) is held across states by the main thread only, which
takes `C` (`can_i_take_a_job_mutex`) while it holds `T`.

*Condition variables.* A signal wakes some waiter (POSIX promises no more) and a
woken thread queues for the mutex again. Which one is a matter of the C library:
`wakeup` is its choice for the whole run, and with `FifoWakeups` a signal wakes the one
that has waited longest; `ahead[t]` records who waited before `t`. A wait may
also return without a signal, at most `MaxSpurious` times in a run.

*Data.* The coefficients are the history of their updates; an update is the set
of the contributions it sums, and a contribution says which job it is from and
how many updates that job had seen. Two executions give the same numbers if
they give the same history, so the floating-point arithmetic need not appear.
The correct predictions, all predictions and coefficients of a slot are
written and read together and are one `result`.

*The process.* `main` never joins the workers. `destroy_scheduler` does not get past
`pthread_cond_destroy` while one of them waits (POSIX leaves the case undefined,
the GNU C library waits); past it, a worker that has not returned uses what is
freed and may crash the process; otherwise the workers vanish with the process
when `main` returns. The remaining end is an assertion that fails. `Ended` are
these three.

### BatchFiles

`decrement` loop by loop: `OpenBatch`, `CopyLine`, `EndOfInput` and `BatchFull`
are the first loop, `CheckRemainder` and `MergeFile` the second, `StartSplit`,
`SplitFile` and `EndSplit` the third, `Return` what `main` makes of the result.
Variables have the names of the C locals. A file is the sequence of its lines, a
line its set and number. A last line without a newline leaves the first loop by
`feof`, one with a newline by the failing `getline`; both are modelled.

### Cliques, Labels, ConflictResolution

`Cliques` has the fields of `list_node` and the clique list as variables and the
operations as actions that its two clients take. A pointer is the node it points
to. `Labels` reads rows in any order and number; a row does something in one of
the two passes only, so a file is its positive rows and then its negative ones.
It then prints, one clique per step; `output` is how often each line has been
printed. `ConflictResolution`
picks a file and what the coefficients predict for each row; an update of the
coefficients may lead to any other predictions, which leaves the arithmetic out
and keeps the iteration. Predictions are integers out of `Scale`, so the product
at `routines.c:379` is exact.

### BagOfWords, ImportantWords

`OpenFile`, `ReadName`, `ReadValue`, `ReadArray`, `CloseFile` and `EndOfFolders` are
the loops of `parser`. Each of the reads hands a buffer to `bow_it`, which takes
its words one after the other through the dictionary into the vectors, in one
action, as nothing else runs. A word is its rank in the order of `strcmp`, and a
buffer the sequence of its words: splitting characters into words is left out.
Words are a few numbers, and the tree is a function from nodes to children,
searched by a recursive function. `occurs` is a history variable, what a reader of
the files would count; the properties compare the structures with it.

`ImportantWords` goes on where the parser ends. TF-IDF and averages are integers
in a unit that every division by a number of words leaves exact (`Scale`), the
logarithm is a table that falls with the frequency, and `NaN` is what 0/0 gives.
The sorts are modelled round by round: `Call` begins a call of the recursion,
`ExchangeAverages` is one round of its loop (both inner loops and the exchange),
`PlaceAverage` its end, and `calls` the calls that have not begun. `CropVector`
says `"out of bounds"` when there are fewer words than `IMPWORDS`, where the code
reads past the vector; without any word an assertion ends the process before
the sort (`CreateTfFails`, `"aborted"`).

### Regression

The routines read a file line by line; `Getline`, `Fseek` and the field `eof` are
the C library's, for files with and without a newline at the end. A row is its
label and a score, the rank of its prediction among the thresholds: `2t` is
threshold `t` itself, so `>=` in `routines.c` and `>` in `logreg.c` differ. The
coefficients are the history of the rows they were updated with, and each epoch
leads to any scores. An F-measure is a fraction; in double arithmetic equal ones
may differ in the last place, so the property asks for a largest one and not for
a particular one.

## 4. What is checked

| run | instance | distinct states | what it shows |
|---|---|---|---|
| `ThreeThreads` | 3 threads, 2 epochs of 3 files, 3 test files, any waiter woken or the longest, 1 spurious wakeup | 714,208 | `CountMatchesTurns`, `AllThreadsParked`, `StableCoefficients`, `StragglersAreOfLastBatch`, `NoStandstill`, `RoundBarrier`, `ImplementsSerialBatches`, `StepsRunOut`, `JobsEndInLine` |
| `BatchFiles` | 3 threads, 9 lines a batch, data sets of 0 to 20 lines | 85,764 | `NoLineLost`, `FilesMatchCounts`, `DataSetsStayApart` |
| `Labels` | 5 specs, 3 negative entries | 15,838 | `CliqueViewsAgree`, `CliqueTreesShallow`, `OutputIsClosure`, `ImplementsLabelClosure` |
| `ConflictResolution` | 4 specs, every file of 3 rows, some of 4, 2 iterations | 31,670 | `CliquesAreComponents`, `MatchesFollowCliques`, `DeadBranchesStayDead`, `CorrectsWhatWasPredicted` |
| `ImportantWords` | 2 specs, every text of at most 3 of 5 words, one a stop word, vectors that begin with room for 1 | 269,633 | `DictionaryMatchesVectors`, `NumbersAreOfTexts`, `AveragesStayWithWords`, `CallsAreApart`, `PivotIsLargest`, `LargestAreKept`, `FeaturesBelongToSpecs`, `NaNNeverSelected`, `SortEnds`, `SortsAdvance` |
| `Regression` | every file of at most 3 rows, 3 thresholds, 2 epochs | 771,904 | `EveryRowTrainsOnce`, `CountsAreOfThisPass`, `BestThresholdIsBest`, `TestsCountRows` |

Six runs show a disagreement of the code with what
its documents, comments or assertions say, and end with a counterexample:

* `LastBatchLost` (`AccuracyCountsEveryBatch`). `execute_all_jobs` returns as
  soon as the queue is empty. The workers may have taken the jobs of the last
  batch and not be done, and the accuracy `main` reports leaves that batch out.
  The same early return has other consequences: `main` may remove the file of a
  job that a worker has taken and not opened, and the assertion of `train` or
  `test` then ends the process; a worker may complete its last job after nobody
  is left to give it a turn and wait for ever, and `pthread_cond_destroy` of the
  GNU C library does not return while a thread waits. These are states of the
  model (`aborted`, and `destroy` with a waiter). `StragglersAreOfLastBatch` says
  only that nothing but the last batch is concerned; no property denies them.
* `LostWakeup` (`JobsEnd`). One signal starts a round and every thread that
  takes a job hands it on. A thread that has completed waits on the same
  condition; if it gets the signal it goes back to waiting and the signal is
  gone. With three threads and no promise on which waiter is woken the program
  stops; the run is under the same fairness as `ThreeThreads`, which checks the same
  with the longest waiter woken (`JobsEndInLine`).
* `EmptyRound` (`NoEmptyTrainingRound`). When fewer lines are left to merge than
  there are threads, `linesperbatch` is 0, the lines are dropped, and a round of
  empty files follows. In the training set the main thread divides 0 by 0 for it
  (`scheduler.c:159`), and the coefficients are NaN from then on; in the test set it
  adds 0 to the totals, and the property leaves such rounds alone. The shortest
  counterexample has no line too many: a training set of exactly one full
  batch that ends with a newline, after which `decrement` opens one more file,
  finds it empty and cuts it into three.
* `LastLineLost` (`TestCountsEveryLine`). `test` asks for the end of the file before it
  uses the line it has read, so that a last line without a newline is not counted,
  although `train` counts it and `scheduler.h:43-48` and README.md:110 speak of the
  lines of the piece, which are those the thread has read.
* `ConflictMissed` (`EveryConflictIsFound`). In a clique that is a chain of three
  rows its ends share no match, so a row that contradicts the clique there is
  not noticed, although README.md:151 says that such nodes always share one.
* `LargerCorrected` (`SmallerIsCorrected`). Of the two matches a conflict breaks,
  the comment and README.md correct the less likely one, the code the other.

**The properties.** `CountMatchesTurns`: the counter and the flags are reset one
after the other and under two locks; they count the same threads in every state
but the two in between, in which nobody can complete. `AllThreadsParked` and
`StableCoefficients` together say that the unprotected accesses do not race, up
to conflict resolution. `RoundBarrier`: a job of the r-th batch is taken only
when r batches have been aggregated. `ImplementsSerialBatches`: the sequences of
updates and of tested batches are those of a serial execution, of which at most
the last batch is missing when `main` takes over (that it may be missing is
`LastBatchLost`; that no other can is what this shows). `NoStandstill` says that until `execute_all_jobs` has
returned `main` or some worker can take a step, `StepsRunOut` that each step, a
spurious wakeup and a turn of a condition loop included, leaves fewer steps to
do; it holds with any waiter woken, so a lost signal (`LostWakeup`) ends in a
standstill and never in threads that wake each other for ever. `NoLineLost` is
about every step of `decrement`, not only its end; `FilesMatchCounts` adds that both
numbers of files are positive multiples of the number of threads. `CliqueViewsAgree` relates the tree, the list,
the size and the list of representatives. `CliquesAreComponents` compares the
cliques with a definition of connected components after every row of every
iteration. `NoTypeTwoConflict` shows the second kind of conflict of README.md,
which it calls never observed, to be impossible; so the code for it is dead, and
so is the branch for a node without match list (`CliqueNodesHaveMatches`);
`DeadBranchesStayDead` is both.

`StragglersAreOfLastBatch`: once `main` has left the loop, no worker holds a job of
an earlier batch. `DictionaryMatchesVectors` has two parts: the vectors have the same
size and room (`VectorsGrowTogether`), and the dictionary finds the words met so
far at the positions below that size (`DictionaryFindsPositions`). So has
`NumbersAreOfTexts`: the counts of the specs (`SpecsFindTheirCounts`) and the
frequencies of the words (`FrequencyCountsTexts`) are those of the texts.
`SpecsFindTheirCounts` and `FeaturesBelongToSpecs` are what
`routines.c` asserts of the numbers of specs, and more, through the parser, the
growth of the vectors, both sorts and the choice of columns. `CallsAreApart`
is the invariant of both sorts, a call being any that has begun or not.
`PivotIsLargest` shows that the first sort, which README.md:243 calls quicksort,
always splits off a single element: its first loop stops at the pivot at once.
It sorts correctly, in quadratic time and as deep as there are words.
`NaNNeverSelected` and `SortEnds` are two sides of one hazard: the
sort ends unless some text consists of stop words only, and then, with two words
or more, it never does. `SortsAdvance` gives the measure that makes it end, the averages being
equal or not: the exchanges never bring a loop back to where it was. 
`EveryRowTrainsOnce` says that a row without a newline is used to train like any
other. `TestsCountRows` says that the accuracy of both tests is over every row, for
`test` of a file that ends with a newline; without one it is not (`LastLineLost`).
`CountsAreOfThisPass` and `BestThresholdIsBest` are about what ten thousand passes
over one open file leave behind for each other, divisions by zero included.

**Bounds.** Three threads are the least number with which the signal can go
astray, and with which a thread can be one, two or no step ahead of another; two
epochs give a change from training to training and one from training to testing.
`BatchFiles` covers every remainder of lines by batches and of files by threads,
for both sets, with no, one and two full rounds before it. Five specs make
cliques of sizes 1 to 5, unions in both directions and trees of depth two; three
negative entries allow two lists that refer to each other and a repeated row.
Three rows are enough for a clique of three and a contradiction in it; the files
of four rows add the clique that is a chain and a row read in both directions.
Two texts of three words out of four that count make vectors grow from one to two and four
elements, share words or not, or have none; sorts of up to four elements with
ties and recursion of depth four follow. Three words are kept, so that there are
too few, just enough and too many to choose from. Three rows give
files with a first, a middle and a last row and no row at all; three thresholds
a best one at either end or between, and two epochs a rewound file.
Two iterations suffice for what one leaves behind for the next; nothing else is
carried over. Specs are interchangeable in `Labels`
and `ConflictResolution`, which use that symmetry; the scheduler's run checks
liveness too and does without. The runs that
end with a counterexample use the least instance that has one: two threads and
one round of each kind, but three threads for the lost signal and for the cut of
files, and one row for the last line.

**Fairness.** `FairSpec` has weak fairness of every worker and of the main thread:
the operating system runs every thread that can run, and a mutex that is free
is acquired by one of those that ask for it. Weak fairness on a lock would not
keep a thread from starving while others pass; no thread needs it here, since a
thread takes one job in a round. Spurious wakeups are not fair and bounded. For
`JobsEnd` to hold the longest waiter must be the one woken (`FifoWakeups`, the
premise of `JobsEndInLine`), which POSIX does not promise: `LostWakeup` is the run
without it.

`SortEnds` needs weak fairness of the sort's steps only, the steps of a single
thread.

**Deadlock.** It is checked in all runs but those of the scheduler, which really may
stop: by a lost signal, or in `destroy_scheduler`. `Terminated` and `Done` are the
intended ends.

**Symmetry and `CHOOSE`.** The specs are in no expression chosen from by `CHOOSE`
unless the choice is unique.

## 5. What is proved

Every theorem below holds for every value of the constants that satisfies the
named assumptions of its module, which TLC evaluates in every run. None of the
properties is inductive alone; each module proves an invariant, `IInv` in most
of them, and takes the properties from it.

### The scheduler: `JobSchedulerProofs`

For any finite non-empty set of threads, any number of epochs and files that is
a multiple of the number of threads, either wakeup order and any number of
spurious wakeups:

* `TypeCorrect`: `Spec => []TypeOK`
* `CountCorrect`: `Spec => []CountMatchesTurns`
* `AggregationIsQuiet`: `Spec => []AllThreadsParked`
* `CoefficientsAreStable`: `Spec => []StableCoefficients`
* `StragglersBelongToLastBatch`: `Spec => []StragglersAreOfLastBatch`
* `RoundsAreBarriers`: `Spec => RoundBarrier`, an action property
* `ImplementsOneThread`: `Spec => ImplementsSerialBatches`, the refinement
* `SignalsArePassedOn`: `Spec => []SignalIsPassedOn`, a part of `PInv` below
* `NobodyStandsStill`: `Spec => []NoStandstill`
* `StepsAreFinite`: `Spec => StepsRunOut`, an action property

The first four follow from

    IInv == TypeOK /\ LockOwners /\ PlacesMatchTurns /\ CountMatchesTurns /\ StableCoefficients

`LockOwners` says who holds which lock by where the threads are; without it a
worker could complete while the main thread is between its two resets.
`PlacesMatchTurns` says that a thread without a turn is parked before the queue,
without a job and with a finished slot; with `CountMatchesTurns` it gives the
key lemma `AllCompleteAllParked`: when the counter has reached the number of
threads, the set of threads whose turn is over has as many elements as the set
of threads, so it is that set, so all are parked. Therefore the step that
changes the coefficients finds nobody who reads them (`StableCoefficients`).

The next three need, on top of that, `RInv`, which says what a round is.
`QueueInOrder` and `JobsOfRound` are its core: the queue is the tail of the
jobs, the jobs that have left it are those of the rounds that are over and one
for every thread that took one in this round, and the latter are the first jobs
of one batch. A round ends only when the counter has reached the number of
threads, hence when the batch is complete, hence the next job taken is the first
of the next batch: a thread that is one step ahead of the others cannot mix two
batches. `ResultsOfRound` and `ModeOfRound` say that a slot is of this round's
job and of this round's coefficients, and whether the main thread takes it for
an update or for a test. For the refinement an aggregation maps to a batch of
the abstract specification (`AggregateIsBatch`), handing over to conflict
resolution to its end (`HandOverIsAllowed`), and every other step to a stutter.

`SignalsArePassedOn` and `NobodyStandsStill` rest on a third invariant, on top of
the two others:

    PInv == /\ AnotherRound /\ MainWaitsForSomebody /\ ThreadsAreBorn
            /\ ReturnedFoundNothing /\ WaitersInLine /\ SignalIsPassedOn

`SignalIsPassedOn` says where the one signal of a round is: while a thread with a
turn waits, another one with a turn is on its way to signal. It is not inductive:
a thread whose turn is over waits on the same condition as those that have one.
`WaitersInLine` says that such a thread stands behind all of them when the longest waiter is woken, so that the signal goes to
one with a turn while there is one. `NobodyStandsStill` is a case distinction on
where `main` is. If it waits for the counter, some thread is not counted
(`MainWaitsForSomebody`), so that thread has a turn; it cannot have returned, as a
thread returns only when the queue is empty (`ReturnedFoundNothing`) and the round
is not complete (`AnotherRound`: jobs are left for every thread that has not taken
one); if it waits, `SignalIsPassedOn` names a thread that does not. If a worker is
stopped by a lock, somebody holds it, and `LockOwners` says that this is `main`, which
then goes on, or a thread that does. `NoStandstill` has the premise `FifoWakeups`,
without which it is false (`LostWakeup`), and `NJobs > 0`, since with no job at all
`main` would wait for ever; `CountsMatchFiles` shows that `decrement` always returns
at least one round of each kind.

`StepsAreFinite` needs neither of them. A thread with a job counts more steps than
one at the queue, a job in the queue more than the thread that takes it, and a
thread that may be woken is paid for by the one that wakes it; `WorkersLeft` is the
cardinality of a set of pairs, which is how a sum over the threads can be
handled without recursion.

Together: every behaviour is finite, and the last state of one that cannot go on
is past `execute_all_jobs`. That is `JobsEndInLine` but for the step from "can take a step"
to "takes one", which is weak fairness.

Assumptions: `ThreadsAssumption` (the threads are a finite non-empty set and the
two other owners of a lock are not among them), `FilesAssumption` (the
assertions of `main.c:122, 132, 152`, which `FilesMatchCounts` shows to hold of
what `decrement` returns) and `WakeupAssumption`.

### Batch files: `BatchFilesProofs`

For any size of a batch, any number of threads from one to that size and data
sets of any length:

* `TypeCorrect`: `Spec => []TypeOK`
* `CountsMatchFiles`: `Spec => []FilesMatchCounts`
* `DataSetsApart`: `Spec => []DataSetsStayApart`
* `LinesKept`: `Spec => []NoLineLost`

`NumbersOK` says, loop by loop, which numbers the files have, `LinesOK` which
stretch of the data set each of them and the merge file hold: `Base`,
`first_no`, `i`, `checking` and `ncount` are related by an equation that each
loop keeps and that the code relies on without writing it down. `NoLineLost`
follows from `LinesOK` by counting the positions of a line: the stretches lie
next to each other, and what lies behind the last of them are the lines that the
cut drops, fewer than there are threads. That the numbers of files are positive,
however short the data set is, has two reasons: the first loop opens a file before
it looks for a line, and the third writes one file per thread even when there is
no line for them (`EmptyRound`).

### Cliques and labels: `CliquesProofs`, `LabelsProofs`

For any finite set of nodes and any number of labelled rows:

* `TypeCorrect`: `Spec => []TypeOK`
* `ViewsAgreeAlways`: `Spec => []CliqueViewsAgree`
* `TreesStayShallow`: `Spec => []CliqueTreesShallow`
* `PrintedIsClosure`: `Spec => []OutputIsClosure`
* `ImplementsClosure`: `Spec => ImplementsLabelClosure`, the refinement

`CliquesProofs` holds the lemmas about pointer structures that both clients use.
What `find_root` and a walk along `next_in_clique` compute is a recursive
function, and an induction over the nodes is not to be had; instead, a function
on the numbers or on the nodes of a forest that differs from another differs at
a least place (`Least`, `FailsFirst`), at which its equation refutes the
difference. That a function with these equations exists is part of the invariant
(`Forest`, the chains) or proved with a witness. So `RootByFacts` says where the
walk ends, `JoinMerges` that `join_sets` moves the members of one root to the
other and nobody else, `HangChains` that the lists are concatenated, and
`JoinViews` that tree, list, size and list of representatives stay the same
cliques.

For the height of the trees, what is inductive is not the height but a bound for
every node: two to the power of its depth is at most the size of its clique. A
union moves the nodes of the smaller tree down by one and puts them into a clique of
at least twice the size; the others keep their depth in a larger one. `TwoTo` is
a recursive function, of which `TwoToFacts` gives the two equations.

`LabelsProofs` adds that negative lists name roots, both ways and each once
(`NegativesOK`), and what the marks and the printed lines are while the clique
list is gone through (`MarksOK`, `PositiveLinesOK`, `NegativeLinesOK`). The
symmetry of the lists is what makes the marks work: an entry is skipped if and
only if the list it refers to was gone through before. For the refinement, a row
maps to a row of `LabelClosure` (`PositiveRefines`, `NegativeRefines`), printing
to a stutter and the reset to `Forget`.

### Conflict resolution: `ConflictProofs`

For any nodes, predictions, positive threshold and number of iterations and any
files without a row of a spec with itself (`ConflictAssumption`):

* `TypeCorrect`: `Spec => []TypeOK`
* `CliquesRight`: `Spec => []CliquesAreComponents`
* `MatchesFollow`: `Spec => []MatchesFollowCliques`
* `NoTypeTwo`: `Spec => []NoTypeTwoConflict`
* `CliqueNodesMatched`: `Spec => []CliqueNodesHaveMatches`
* `DeadBranches`: `Spec => []DeadBranchesStayDead`, which is both
* `CorrectionsOfPredictions`: `Spec => []CorrectsWhatWasPredicted`

`Connected` is how the invariant says that cliques are components without a
path: every row predicted to match joins its two nodes, and no set of nodes that
such rows do not lead out of cuts a clique in two. `NoTypeTwoConflict` then is a
consequence of the order of the passes: a row is told apart only if its nodes
have different roots, and the roots do not change any more (`NegativesOK`).
`ListsEven` is about both match lists of a row at once. `CliquesAreComponents`
compares the cliques with a recursive definition of components; `GrowthEnds`
shows that this recursion reaches a set closed under the rows.

### Routines over rows: `RegressionProofs`

For files of any length with or without a newline at their end, any scores, any
number of thresholds and epochs:

* `TypeCorrect`: `Spec => []TypeOK`
* `EveryRowCounts`: `Spec => []EveryRowTrainsOnce`
* `CountsOfThisPass`: `Spec => []CountsAreOfThisPass`
* `BestIsReported`: `Spec => []BestThresholdIsBest`
* `RowsOfTheTests`: `Spec => []TestsCountRows`, for `test` where the last line ends
  with a newline

The invariant has a part for each routine, which relates every counter and the
coefficients to the position in the file. `BestOK` is the one that is not
obvious: fractions are compared as products, and either the best one so far is
the initial 0 and no pass had a correct positive, or it is the F-measure of its
threshold. A pass that divides 0 by 0 has no correct positive, so that losing
the comparison with NaN is right.

### The words: `WordsProofs`

For any finite sets of specs, words and stop words, any hash function, any
initial room in the vectors, texts and buffers of any length:

* `ParserInvariance`: `Spec => []WInv`
* `VectorsTogether`: `Spec => []VectorsGrowTogether`
* `PositionsFound`: `Spec => []DictionaryFindsPositions`
* `DictionaryAgrees`: `Spec => []DictionaryMatchesVectors`, which is both
* `FrequenciesOfTexts`: `Spec => []FrequencyCountsTexts`
* `CountsOfSpecs`: `Spec => []SpecsFindTheirCounts`
* `TextNumbersRight`: `Spec => []NumbersAreOfTexts`, which is both

`WInv` has a part about the structures (`Good`) and a part about the parser.
`Laid` says that the search for every stored word ends at that word, that its
number is its own and that all vectors have room for that many numbers; `Counts`
that the vectors hold what the texts say; `StoresMet` that the words stored are
those that have occurred. `MapOK`, `VectorsTaken`, `CurrentNode` and `Unread` say
which vector belongs to which spec while its node is not in the map yet.

The search in the tree is a recursive function, like `find_root`, and treated
like it: `InsertEnds` gives the new search function (`NewEnd`) by redirecting the
searches for words on the side of the new one that ended at its parent, and
`Ends` determines it (`PlaceEnds`). That is why insertion keeps every word
findable without an order of the tree being mentioned. A new word is handled as
two changes, a widening of all vectors (`WidenedLaid`, `WidenedCounts`) and an
occurrence like any other (`NewWordIsOld`, `UpdatedLaid`, `UpdatedCounts`). A
buffer is a fold over its words; `FoldsExist` and `BowFollows` say that it is the
last of a sequence of structures, one word apart, along which `InsertBuffer`
carries the invariant.

`WordsAssumption` says that specs and words are finitely many, which they are in
finitely many files.

### The sorts and the features: `SelectionProofs`

For the same constants, any number of words to keep, and any logarithms that go
down to zero:

* `SortInvariance`: `Spec => []SInv`
* `TypesOfWords`: `Spec => []TypeOK`, the parser's types included
* `PivotsAreLargest`: `Spec => []PivotIsLargest`
* `NaNChoosesNothing`: `Spec => []NaNNeverSelected`
* `AveragesFollowWords`: `Spec => []AveragesStayWithWords`
* `CallsStayApart`: `Spec => []CallsAreApart`
* `LargestWordsAreKept`: `Spec => []LargestAreKept`
* `FeaturesOfSpecs`: `Spec => []FeaturesBelongToSpecs`
* `SortsComeToAnEnd`: `Spec => SortsAdvance`, an action property

`SInv` adds to `WInv` what the sorts have done so far. `AveragesOK` is about the
first: every number is next to the average of its column, and the averages
before a position `p` are in place (`Descends`), with one call for all that is
after it. That the sort has this simple shape (`FirstSort`) is `AverageScanStays`:
its first loop compares the pivot with itself, so `i` stays and `j` goes down to
the next larger average, and a call ends with its largest one in front. If some
text is empty all averages are NaN, `j` does not move either, and the first call
stays the only one (`Stuck`): that is why nothing is ever selected.

`IndicesOK` is about the second sort, which is a quicksort. The calls have no
position in common (`CallsOK`), of two positions that are in no call together
the second has the larger number (`Ordered`), and what `i` and `j` of the running
call have left behind is on the right side of its pivot (`Divided`). A call that
ends splits in two (`SplitCall`), and the positions it separates are in order by
`Divided`; with no call left all are. An exchange inside a call keeps `Ordered`,
since it changes nothing for the positions outside (`SwapOrdered`).
`LargestChosen` carries over what the first sort has found out: it is about the
set of numbers, which the second one does not change (`SwapNumbers`).

What the averages mean is a matter of the texts, not of the sorts:
`ElementIsTfIdf` takes an element of the array back to the text of its spec with
the theorems of `WordsProofs`, and `ColumnIsAverage` a column. The column is
summed in the order of the vectors and the texts in an order of the specs, so
that it needs `SumRenamed`, which says that a sum does not depend on the order:
`SumFunction` is a recursive definition, so `SumsExist` builds the sums over all
subsets of a finite set first and `SumIsSum` says that it is one of them. (Sums here
are exact; in the program they are of doubles.)

`SortsComeToAnEnd` compares four numbers lexicographically: the sorts to do, the
positions in some call, the calls that wait and the rounds the running one has
left. A call that ends takes its pivot out of all calls (`PivotIsClosed`), a call
that begins leaves one call fewer waiting and adds no position
(`BegunIsOpen`), and the rest is about the rounds. In the first sort `j` goes down,
but for a first round that exchanges the two ends: it leaves `j`, but makes the
pivot the larger one, which happens once (`LargerAt`). In the second sort `i`
goes up because what it has stopped at was exchanged for something not larger
than the pivot; for that `Divided` says, before `i` and `j` have met, that what
`i` has reached is not above the pivot. Without the premise that no text is
empty the first sort makes no progress at all, which is `NaNChoosesNothing`.

### Only model-checked

`JobsEndInLine` and `SortEnds`: liveness under fairness is out of the prover's reach. What
they rest on is proved. For `JobsEndInLine` it is `StepsAreFinite` and
`NobodyStandsStill`, for `SortEnds` it is `SortsComeToAnEnd`, the steps of a sort being
exhaustive: without a call the next one or the next phase begins, and with one
either the loop goes on or the call ends. Missing in both is only that a step
which can be taken is taken, and that a descent in the numbers ends.

## 6. Not modelled, and why

* Floating-point arithmetic, parsing of rows and words, formatting of the output;
  `neglist_print` also writes a diagnostic line for an absent list, which is
  left out.
* Freeing of memory, except for the scheduler's: after `Destroy` the process is
  over, by exit or by a crash. That mutexes are destroyed a few instructions
  before the condition variable is not modelled.
* The search of a new worker for itself in `tids[]` (`scheduler.c:78-83`), which
  relies on `pthread_create` storing the identifier first, and the missing
  `return` of `initialize_scheduler` (`scheduler.c:60`).
* `splitter.c`, a tool run by hand to cut a data set: it hands `getline` a pointer that
  was never initialized (`splitter.c:47, 53`), so nothing it does from then on
  is defined, and after the end of a file it prints a buffer it has not filled.
* Input that the parser does not expect: folders listed before `.` and `..`
  (`parse.c:60`), files that do not end exactly with `}` (`parse.c:125`), lines of an
  array that contain `]` (`parse.c:137`) or are not indented (they are joined without a
  separator, `parse.c:153`), and more or fewer files than `FILES`, which
  the Makefile fixes. The attribute lists, and the growth of the character buffers.
* The other half of what `test` and `validate` print (ratios), and the maxima of
  predictions in `logreg.c`, which nothing reads.
* `search_tree` returns nothing from its recursive branches (`BOW/dictionary.c:56`);
  it is modelled as in the build without optimization. `destroy_tree` leaks the
  right subtrees (`BOW/dictionary.c:23`), which changes no state.
* The rows of a batch file inside `JobScheduler`: there a routine is a start and an
  end, in `Regression` it is its loop; `BatchFiles` says which rows are in the file.
* The chain of all parts in one state space: each module begins in the states its
  predecessor's properties describe.
* What is printed for a clique that the labels tell apart from itself: its pairs
  appear with label 1 and, more than once, with label 0. No document says what a
  contradictory data set should give. Pairs of two single specs with label 0 are
  not printed at all; `OutputIsClosure` states this.
* `max_prediction` is not reset between iterations. README.md:151 can be read so;
  the model keeps it as the code does.
