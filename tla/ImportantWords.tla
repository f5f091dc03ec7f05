---------------------------- MODULE ImportantWords ----------------------------
(***************************************************************************)
(* From the bag of words to the features of the model (main.c:64-103): the *)
(* TF-IDF of every word in every text, the words of the largest average,   *)
(* chosen by one quicksort and put back in order by another, and the       *)
(* columns of these words.                                                 *)
(*                                                                         *)
(* Numbers are exact: a TF-IDF is an integer in units of 1 / Scale, an     *)
(* average in units of 1 / (Scale * FILES), and logarithms are a table of  *)
(* integers.  What 0 / 0 gives for a text without words is NaN.            *)
(***************************************************************************)
EXTENDS BagOfWords

CONSTANTS ImpWords,         \* IMPWORDS
          Scale,            \* a multiple of every number of words in a text
          Log10             \* Log10[n]: log10f(FILES / n), in some unit

ASSUME ImportantAssumption ==
  /\ ImpWords \in Nat \ {0} /\ Scale \in Nat \ {0}
  /\ \A n \in 1 .. MaxText : Scale % n = 0
  /\ Log10 \in [1 .. FILES -> Nat] /\ Log10[FILES] = 0
  /\ \A n \in 1 .. FILES - 1 : Log10[n] > Log10[n + 1]

VARIABLES phase,            \* what main does
          tfarr,            \* vectors[0 .. FILES - 1]
          important_words,  \* the averages
          wordVec,          \* the copy of the word numbers, then the cropped one
          calls,            \* the sorts' calls that have not begun
          frame,            \* the one that runs
          tfarr_mini

selectVars == <<phase, tfarr, important_words, wordVec, calls, frame, tfarr_mini>>
vars == <<parseVars, selectVars>>

NaN == -1
NoFrame == [i |-> -1]

\* Comparisons of doubles: false when one is not a number.
AtMostOrNaN(a, b) == a <= b                         \* mutant: NaN compares
Greater(a, b) == a # NaN /\ b # NaN /\ a > b
AtMost(a, b) == a # NaN /\ b # NaN /\ a <= b

Init ==
  /\ ParseInit
  /\ phase = "parse"
  /\ tfarr = <<>> /\ important_words = <<>> /\ wordVec = <<>> /\ tfarr_mini = <<>>
  /\ calls = <<>> /\ frame = NoFrame

Parse == ParseNext /\ UNCHANGED selectVars

-----------------------------------------------------------------------------
(* TF-IDF *)

compute_idf_vals == [k \in 0 .. idf_vec.size - 1 |-> Log10[idf_vec.elements[k]]]

\* One element: its count by the number of words of the text, by the logarithm.
TfIdf(vec, k) ==
  IF vec.word_count = 0 THEN NaN
  ELSE vec.elements[k] * (Scale \div vec.word_count) * compute_idf_vals[k]

\* A sum of doubles.
Total(f) == IF NaN \in Range(f) THEN NaN ELSE SumFunction(f)

compute_tf_idf ==
  [i \in 0 .. FILES - 1 |->
     [name |-> bag[i + 1].name,
      elements |-> [k \in 0 .. idf_vec.size - 1 |-> TfIdf(bag[i + 1], k)]]]

\* The numbers of the words, as create_tf fills them in.
create_tf(words) == [k \in 0 .. words - 1 |-> k]

\* Without any word create_tf asks realloc for no bytes, which the GNU C library answers
\* with NULL; the assertion after it fails.
CreateTfFails ==
  /\ phase = "parse" /\ pc = "parsed" /\ idf_vec.size = 0
  /\ phase' = "aborted"
  /\ UNCHANGED <<parseVars, tfarr, important_words, wordVec, calls, frame, tfarr_mini>>

\* From the frequencies to the averages; the copy of the numbers is to be sorted.
ComputeTfIdf ==
  /\ phase = "parse" /\ pc = "parsed" /\ idf_vec.size > 0
  /\ tfarr' = compute_tf_idf
  /\ important_words' =
       [k \in 0 .. idf_vec.size - 1 |-> Total([i \in 0 .. FILES - 1 |-> tfarr'[i].elements[k]])]
  /\ wordVec' = create_tf(idf_vec.size)
  /\ calls' = << <<0, idf_vec.size - 1>> >>
  /\ phase' = "average"
  /\ UNCHANGED <<parseVars, frame, tfarr_mini>>

-----------------------------------------------------------------------------
(* The sorts.  The pivot is the element at the first position, whatever is *)
(* there.                                                                  *)

Swap(f, i, j) == [f EXCEPT ![i] = f[j], ![j] = f[i]]

\* A call begins, unless there is nothing to sort.
Call(p) ==
  /\ phase = p /\ frame = NoFrame /\ calls # <<>>
  /\ calls' = Tail(calls)
  /\ LET first == Head(calls)[1]  last == Head(calls)[2]
     IN frame' = IF first < last THEN [first |-> first, last |-> last, i |-> first, j |-> last]
                 ELSE NoFrame
  /\ UNCHANGED <<parseVars, phase, tfarr, important_words, wordVec, tfarr_mini>>

\* The next positions to exchange: i goes up while Up, j goes down while Down, and
\* both stop within the call.
Scan(Up(_), Down(_)) ==
  [frame EXCEPT !.i = Min({k \in frame.i .. frame.last : ~Up(k)}),
                !.j = Max({k \in frame.first .. frame.j : ~Down(k)})]

\* One round of the loop of sort_avg_tf_idf: averages and numbers move together.
SmallestScan ==                                     \* mutant: ascending
  LET pivot == important_words[frame.first]
  IN Scan(LAMBDA k : Greater(pivot, important_words[k]),
          LAMBDA k : AtMost(pivot, important_words[k]) /\ k > frame.first)
StrictScan ==                                       \* mutant: < for <= in line 75
  LET pivot == important_words[frame.first]
  IN Scan(LAMBDA k : Greater(important_words[k], pivot),
          LAMBDA k : Greater(pivot, important_words[k]) /\ k > frame.first)
TextbookScan ==                                     \* mutant: >= for > in line 72
  LET pivot == important_words[frame.first]
  IN Scan(LAMBDA k : AtMost(pivot, important_words[k]) /\ k < frame.last,
          LAMBDA k : Greater(pivot, important_words[k]))
AverageScan ==
  LET pivot == important_words[frame.first]
  IN Scan(LAMBDA k : Greater(important_words[k], pivot),
          LAMBDA k : AtMost(important_words[k], pivot) /\ k > frame.first)
NumbersStay(i, j) == wordVec                        \* mutant: lines 83-85 missing
MoveNumbers(i, j) == Swap(wordVec, i, j)
ExchangeAverages ==
  /\ phase = "average" /\ frame # NoFrame /\ frame.i < frame.j
  /\ frame' = AverageScan
  /\ LET i == frame'.i  j == frame'.j
     IN IF i < j THEN /\ important_words' = Swap(important_words, i, j)
                      /\ wordVec' = MoveNumbers(i, j)
        ELSE UNCHANGED <<important_words, wordVec>>
  /\ UNCHANGED <<parseVars, phase, tfarr, calls, tfarr_mini>>

\* The calls for what is before and after j.
HalvesShort ==                                      \* mutant: j + 2 for j + 1
  <<<<frame.first, frame.j - 1>>, <<frame.j + 2, frame.last>>>> \o calls
HalvesLong ==                                       \* mutant: last + 1 for last
  <<<<frame.first, frame.j - 1>>, <<frame.j + 1, frame.last + 1>>>> \o calls
Halves == <<<<frame.first, frame.j - 1>>, <<frame.j + 1, frame.last>>>> \o calls

PlaceAverage ==
  /\ phase = "average" /\ frame # NoFrame /\ frame.i >= frame.j
  /\ important_words' = Swap(important_words, frame.first, frame.j)
  /\ wordVec' = Swap(wordVec, frame.first, frame.j)
  /\ calls' = Halves /\ frame' = NoFrame
  /\ UNCHANGED <<parseVars, phase, tfarr, tfarr_mini>>

\* crop_vector reads ImpWords elements of a vector that may have fewer.
CropVector ==
  /\ phase = "average" /\ frame = NoFrame /\ calls = <<>>
  /\ IF ImpWords <= idf_vec.size
       THEN /\ wordVec' = [k \in 0 .. ImpWords - 1 |-> wordVec[k]]
            /\ calls' = << <<0, ImpWords - 1>> >>
            /\ phase' = "indices"
       ELSE phase' = "out of bounds" /\ UNCHANGED <<wordVec, calls>>
  /\ UNCHANGED <<parseVars, tfarr, important_words, frame, tfarr_mini>>

\* One round of the loop of sort_important_words_indices.
IndexScan ==
  LET pivot == wordVec[frame.first]
  IN Scan(LAMBDA k : wordVec[k] <= pivot /\ k < frame.last, LAMBDA k : wordVec[k] > pivot)
ExchangeIndices ==
  /\ phase = "indices" /\ frame # NoFrame /\ frame.i < frame.j
  /\ frame' = IndexScan
  /\ wordVec' = IF frame'.i < frame'.j THEN Swap(wordVec, frame'.i, frame'.j) ELSE wordVec
  /\ UNCHANGED <<parseVars, phase, tfarr, important_words, calls, tfarr_mini>>

PlaceIndex ==
  /\ phase = "indices" /\ frame # NoFrame /\ frame.i >= frame.j
  /\ wordVec' = Swap(wordVec, frame.first, frame.j)
  /\ calls' = Halves /\ frame' = NoFrame
  /\ UNCHANGED <<parseVars, phase, tfarr, important_words, tfarr_mini>>

\* size_down_tf_idf: the columns of the chosen words.
FirstColumns(elements) == [k \in DOMAIN wordVec |-> elements[k]]  \* mutant: i for position
Columns(elements) == [k \in DOMAIN wordVec |-> elements[wordVec[k]]]
SizeDown ==
  /\ phase = "indices" /\ frame = NoFrame /\ calls = <<>>
  /\ tfarr_mini' = [i \in 0 .. FILES - 1 |->
       [name |-> tfarr[i].name, elements |-> Columns(tfarr[i].elements)]]
  /\ phase' = "done"
  /\ UNCHANGED <<parseVars, tfarr, important_words, wordVec, calls, frame>>

Ended == {"done", "out of bounds", "aborted"}
Done == phase \in Ended /\ UNCHANGED vars

Sort ==
  \/ Call("average") \/ ExchangeAverages \/ PlaceAverage \/ CropVector
  \/ Call("indices") \/ ExchangeIndices \/ PlaceIndex \/ SizeDown
Next == Parse \/ CreateTfFails \/ ComputeTfIdf \/ Sort \/ Done

Spec == Init /\ [][Next]_vars
FairSpec == Spec /\ WF_vars(Sort)
-----------------------------------------------------------------------------
(* Properties *)

\* What the TF-IDF of a word in a text and its average are to be, from the texts.
Frequency(w) == Cardinality({s \in Specs : w \in InText(s)})
TextTfIdf(s, w) ==
  IF InText(s) = {} THEN NaN
  ELSE occurs[s][w] * (Scale \div Cardinality(InText(s))) * Log10[Frequency(w)]
Average(w) == Total([s \in Specs |-> TextTfIdf(s, w)])
WordAt(k) == CHOOSE w \in Seen : search_tree(dict, w) = k
Kept == {WordAt(wordVec[k]) : k \in DOMAIN wordVec}
EmptyText == \E s \in Specs : InText(s) = {}

\* Types, of the parser as well; a frame stays within its call.
TypeOK ==
  /\ ParseTypeOK
  /\ phase \in {"parse", "average", "indices"} \cup Ended
  /\ frame # NoFrame =>
       /\ {frame.first, frame.last, frame.i, frame.j} \subseteq DOMAIN wordVec
       /\ frame.first < frame.last
       /\ {frame.i, frame.j} \subseteq frame.first .. frame.last
  /\ \A n \in DOMAIN calls : calls[n][1] >= 0 /\ calls[n][2] < Cardinality(DOMAIN wordVec)

\* tf.c:62-100: at every moment of the first sort the numbers are those of all words
\* and next to each number is the average of its word.
AveragesStayWithWords ==
  phase = "average" =>
    /\ IsInjective(wordVec) /\ Range(wordVec) = DOMAIN wordVec
    /\ DOMAIN wordVec = 0 .. Cardinality(Seen) - 1
    /\ \A k \in DOMAIN wordVec : important_words[k] = Average(WordAt(wordVec[k]))

\* Both sorts: what is before the calls that have not begun is in place, and each
\* of them has, compared with what is after it, all elements on the right side.
CallsAreApart ==
  LET Before(a, b) == IF phase = "average" THEN important_words[a] >= important_words[b]
                      ELSE wordVec[a] < wordVec[b]
      pending == calls \o (IF frame = NoFrame THEN <<>> ELSE << <<frame.first, frame.last>> >>)
      Within(a, b) == \E n \in DOMAIN pending : {a, b} \subseteq pending[n][1] .. pending[n][2]
  IN phase \in {"average", "indices"} /\ ~EmptyText =>
       \A a, b \in DOMAIN wordVec : a < b => Before(a, b) \/ Within(a, b)

\* README.md:243 calls the first sort quicksort.  Its first loop never leaves the
\* pivot, so the call finds the largest element only and the next one has a single
\* element less: it is a selection sort as deep as there are words.
PivotIsLargest ==
  phase = "average" /\ frame # NoFrame /\ frame.i >= frame.j => frame.j = frame.first

\* README.md:244-245: in the end the chosen words are those of the largest averages,
\* in the order of their numbers.
LargestAreKept ==
  phase = "done" =>
    /\ Cardinality(Kept) = ImpWords
    /\ \A k \in 1 .. ImpWords - 1 : wordVec[k - 1] < wordVec[k]
    /\ \A w \in Kept, v \in Seen \ Kept : Average(w) >= Average(v)

\* What train and test rely on (routines.c:41-48): the vector that the map gives for
\* a spec has its name and the TF-IDF of the chosen words in its text.
FeaturesBelongToSpecs ==
  phase = "done" =>
    \A s \in Specs :
      LET vec == tfarr_mini[NodeOf(s).vec_num]
      IN /\ vec.name = s
         /\ vec.elements = [k \in 0 .. ImpWords - 1 |-> TextTfIdf(s, WordAt(wordVec[k]))]

\* tf.c:71-87: without a text that has no words the sorts end, or the crop is out of
\* bounds.
SortEnds == phase = "average" /\ ~EmptyText ~> phase \in {"done", "out of bounds"}

\* What is left to sort: the sort, the positions in a call, the calls that have not
\* begun, and the rounds of the loop that runs.
Open == {k \in DOMAIN wordVec : \/ \E n \in DOMAIN calls : k \in calls[n][1] .. calls[n][2]
                                \/ frame # NoFrame /\ k \in frame.first .. frame.last}
SortsLeft == CASE phase = "average" -> 2
               [] phase = "indices" -> 1
               [] phase \in {"parse"} \cup Ended -> 0
LargerAt(j) == IF Greater(important_words[j], important_words[frame.first]) THEN 1 ELSE 0
RoundsLeft ==
  IF frame = NoFrame THEN 0
  ELSE IF phase = "average" THEN frame.j - frame.first + LargerAt(frame.j)
  ELSE frame.last - frame.i
Left == <<SortsLeft, Cardinality(Open), Len(calls), RoundsLeft>>
Measures == Nat \X Nat \X Nat \X Nat
IsLess(a, b) == \E n \in 1 .. 4 : a[n] < b[n] /\ \A m \in 1 .. n - 1 : a[m] = b[m]

\* tf.c:71-93, vectorOps.c:106-125: unless some text has no words, every round of the
\* two loops and every call leaves less to do, in the lexicographic order: a loop
\* that exchanges two elements never comes back to where it was.
SortsAdvance ==
  [][~EmptyText /\ phase \in {"average", "indices"} =>
       /\ Left' \in Measures
       /\ IsLess(Left', Left)]_vars

\* With such a text all averages are NaN, no comparison holds, and the two ends of the
\* first call are exchanged for ever.
NaNNeverSelected ==
  EmptyText /\ Cardinality(Seen) > 1 => phase \in {"parse", "average"}
=============================================================================
