---------------------------- MODULE SelectionProofs ----------------------------
(***************************************************************************)
(* Theorems about ImportantWords, for any finite set of specs and of words *)
(* and any number of words to keep: types, the averages that follow their  *)
(* words through the first sort, what each call of the two sorts leaves to *)
(* be compared, the words that are kept in the end and their features.     *)
(***************************************************************************)
EXTENDS WordsProofs

-----------------------------------------------------------------------------
(* Sums do not depend on the order of their terms. *)

AnyOf(S) == CHOOSE x \in S : TRUE

\* The sums over the subsets of D of at most m elements.
Sums(g, f, D, m) ==
  /\ g = [S \in SUBSET D |-> g[S]]
  /\ \A S \in SUBSET D : Cardinality(S) <= m =>
       g[S] = IF S = {} THEN 0 ELSE f[AnyOf(S)] + g[S \ {AnyOf(S)}]

\* Subsets of a finite set, and what is left of one without an element.
LEMMA SmallerSets ==
  ASSUME NEW D, IsFiniteSet(D), NEW S \in SUBSET D
  PROVE  /\ IsFiniteSet(S) /\ Cardinality(S) \in Nat /\ Cardinality(S) <= Cardinality(D)
         /\ Cardinality(S) = 0 <=> S = {}
         /\ \A x \in S : Cardinality(S \ {x}) = Cardinality(S) - 1 /\ S \ {x} \in SUBSET D
BY FS_Subset, FS_EmptySet, FS_CardinalityType, FS_RemoveElement

\* The sums over all subsets of a finite set are a function.
LEMMA SumsExist ==
  ASSUME NEW D, IsFiniteSet(D), NEW f
  PROVE  \A m \in 0 .. Cardinality(D) : \E g : Sums(g, f, D, m)
<1> DEFINE Reached == {m \in 0 .. Cardinality(D) : \E g : Sums(g, f, D, m)}
<1>0. Cardinality(D) \in Nat
  BY FS_CardinalityType
<1>2. 0 \in Reached
  <2> DEFINE g == [S \in SUBSET D |-> 0]
  <2>1. \A S \in SUBSET D : Cardinality(S) <= 0 => S = {}
    BY SmallerSets
  <2>2. g = [S \in SUBSET D |-> g[S]] /\ \A S \in SUBSET D : S = {} => g[S] = 0
    OBVIOUS
  <2> HIDE DEF g
  <2>3. Sums(g, f, D, 0)
    BY <2>1, <2>2 DEF Sums
  <2> QED
    BY <1>0, <2>3
<1>3. ASSUME NEW m \in 1 .. Cardinality(D), m - 1 \in Reached PROVE m \in Reached
  <2>1. PICK g : Sums(g, f, D, m - 1)
    BY <1>3
  <2> DEFINE next(S) == f[AnyOf(S)] + g[S \ {AnyOf(S)}]
             h == [S \in SUBSET D |-> IF Cardinality(S) <= m - 1 THEN g[S] ELSE next(S)]
  <2>2. ASSUME NEW S \in SUBSET D, Cardinality(S) <= m
        PROVE  h[S] = IF S = {} THEN 0 ELSE f[AnyOf(S)] + h[S \ {AnyOf(S)}]
    <3>1. CASE S = {}
      <4>1. Cardinality(S) <= m - 1
        BY <3>1, SmallerSets
      <4>2. g[S] = 0
        BY <2>1, <3>1, <4>1 DEF Sums
      <4> QED
        BY <3>1, <4>1, <4>2
    <3>2. CASE S # {}
      <4>1. AnyOf(S) \in S
        BY <3>2 DEF AnyOf
      <4>2. /\ Cardinality(S \ {AnyOf(S)}) = Cardinality(S) - 1 /\ S \ {AnyOf(S)} \in SUBSET D
            /\ Cardinality(S) \in Nat
        BY <4>1, SmallerSets
      <4>3. Cardinality(S \ {AnyOf(S)}) <= m - 1
        BY <2>2, <4>2
      <4>4. h[S \ {AnyOf(S)}] = g[S \ {AnyOf(S)}]
        BY <4>2, <4>3
      <4>5. h[S] = next(S)
        BY <2>1, <3>2, <4>2 DEF Sums
      <4> QED
        BY <3>2, <4>4, <4>5
    <3> QED
      BY <3>1, <3>2
  <2>3. Sums(h, f, D, m)
    <3> HIDE DEF next
    <3>1. h = [S \in SUBSET D |-> h[S]]
      OBVIOUS
    <3> QED
      BY <2>2, <3>1 DEF Sums
  <2> QED
    BY <2>3
<1>4. \A m \in 1 .. Cardinality(D) : m - 1 \in Reached => m \in Reached
  BY <1>3
<1> QED
  <2> HIDE DEF Reached
  <2>1. \A m \in 0 .. Cardinality(D) : m \in Reached
    BY <1>0, <1>2, <1>4, UpTo
  <2> QED
    BY <2>1 DEF Reached

\* SumFunction is such a sum.
LEMMA SumIsSum ==
  ASSUME NEW D, IsFiniteSet(D), NEW f, DOMAIN f = D
  PROVE  \E g : Sums(g, f, D, Cardinality(D)) /\ SumFunction(f) = g[D]
<1> DEFINE Defines(g) == g = [S \in SUBSET D |->
                                IF S = {} THEN 0 ELSE f[AnyOf(S)] + g[S \ {AnyOf(S)}]]
           iter == CHOOSE g : Defines(g)
<1>1. SumFunction(f) = iter[D]
  BY DEF SumFunction, SumFunctionOnSet, FoldFunctionOnSet, MapThenFoldSet, AnyOf
<1>2. \E g : Defines(g)
  <2>1. PICK g : Sums(g, f, D, Cardinality(D))
    <3>1. Cardinality(D) \in 0 .. Cardinality(D)
      BY FS_CardinalityType
    <3> QED
      BY <3>1, SumsExist
  <2>2. \A S \in SUBSET D : Cardinality(S) <= Cardinality(D)
    BY SmallerSets
  <2>3. Defines(g)
    BY <2>1, <2>2 DEF Sums
  <2> QED
    BY <2>3
<1>3. Defines(iter)
  BY <1>2
<1>4. Sums(iter, f, D, Cardinality(D))
  <2> HIDE DEF iter
  <2>1. iter = [S \in SUBSET D |-> IF S = {} THEN 0 ELSE f[AnyOf(S)] + iter[S \ {AnyOf(S)}]]
    BY <1>3
  <2>2. \A S \in SUBSET D : iter[S] = IF S = {} THEN 0 ELSE f[AnyOf(S)] + iter[S \ {AnyOf(S)}]
    BY <2>1
  <2>3. iter = [S \in SUBSET D |-> iter[S]]
    BY <2>1, <2>2
  <2> QED
    BY <2>2, <2>3 DEF Sums
<1> QED
  BY <1>1, <1>4

\* Any element of a set may be added last.
LEMMA AnyTermLast ==
  ASSUME NEW D, IsFiniteSet(D), NEW f \in [D -> Nat], NEW g, Sums(g, f, D, Cardinality(D))
  PROVE  \A S \in SUBSET D : g[S] \in Nat /\ \A x \in S : g[S] = f[x] + g[S \ {x}]
<1> DEFINE Fine(S) == g[S] \in Nat /\ \A x \in S : g[S] = f[x] + g[S \ {x}]
           Reached == {m \in 0 .. Cardinality(D) :
                       \A S \in SUBSET D : Cardinality(S) <= m => Fine(S)}
<1>0. Cardinality(D) \in Nat
  BY FS_CardinalityType
<1>1. \A S \in SUBSET D : g[S] = IF S = {} THEN 0 ELSE f[AnyOf(S)] + g[S \ {AnyOf(S)}]
  BY SmallerSets DEF Sums
<1>2. 0 \in Reached
  <2>1. ASSUME NEW S \in SUBSET D, Cardinality(S) <= 0 PROVE Fine(S)
    <3>1. S = {}
      BY <2>1, SmallerSets
    <3>2. g[S] = 0
      BY <1>1, <3>1
    <3> QED
      BY <3>1, <3>2
  <2> QED
    BY <1>0, <2>1
<1>3. ASSUME NEW m \in 1 .. Cardinality(D), m - 1 \in Reached PROVE m \in Reached
  <2> SUFFICES ASSUME NEW S \in SUBSET D, Cardinality(S) <= m, S # {} PROVE Fine(S)
    <3>1. \A S \in SUBSET D : S = {} => Cardinality(S) <= m - 1
      BY SmallerSets
    <3>2. \A S \in SUBSET D : S = {} => Fine(S)
      BY <1>3, <3>1
    <3> QED
      BY <3>2
  <2>1. \A x \in S : S \ {x} \in SUBSET D /\ Cardinality(S \ {x}) <= m - 1
    BY <1>0, SmallerSets
  <2>2. \A x \in S : Fine(S \ {x})
    BY <1>3, <2>1
  <2>3. PICK a \in S : a = AnyOf(S)
    BY DEF AnyOf
  <2>4. g[S] = f[a] + g[S \ {a}]
    BY <1>1, <2>3
  <2>5. g[S] \in Nat
    <3>1. f[a] \in Nat /\ g[S \ {a}] \in Nat
      BY <2>2
    <3> QED
      BY <2>4, <3>1
  <2>6. ASSUME NEW x \in S, x # a PROVE g[S] = f[x] + g[S \ {x}]
    <3>1. PICK rest : rest = (S \ {a}) \ {x} /\ rest = (S \ {x}) \ {a}
      OBVIOUS
    <3>2. g[S \ {a}] = f[x] + g[rest]
      BY <2>2, <2>6, <3>1
    <3>3. g[S \ {x}] = f[a] + g[rest]
      BY <2>2, <2>6, <3>1
    <3>4. g[rest] \in Nat
      <4>1. rest \in SUBSET D /\ Cardinality(rest) <= m - 1
        <5>1. Cardinality(rest) <= Cardinality(S \ {a}) /\ Cardinality(rest) \in Nat
          BY <2>1, <3>1, SmallerSets, FS_Subset
        <5>2. Cardinality(S \ {a}) \in Nat
          BY <2>1, SmallerSets
        <5> QED
          BY <2>1, <3>1, <5>1, <5>2
      <4> QED
        BY <1>3, <4>1
    <3>5. f[x] \in Nat /\ f[a] \in Nat
      OBVIOUS
    <3> QED
      BY <2>4, <3>2, <3>3, <3>4, <3>5
  <2> QED
    BY <2>4, <2>5, <2>6
<1>4. \A m \in 1 .. Cardinality(D) : m - 1 \in Reached => m \in Reached
  BY <1>3
<1>5. \A m \in 0 .. Cardinality(D) : m \in Reached
  <2> HIDE DEF Reached
  <2> QED
    BY <1>0, <1>2, <1>4, UpTo
<1>6. \A S \in SUBSET D : Cardinality(S) <= Cardinality(D)
  BY SmallerSets
<1> QED
  BY <1>0, <1>5, <1>6

\* What is summed may be renamed.
LEMMA SumRenamed ==
  ASSUME NEW D, IsFiniteSet(D), NEW f \in [D -> Nat],
         NEW E, IsFiniteSet(E), NEW h \in [E -> Nat],
         NEW b \in [D -> E], E = {b[x] : x \in D},
         \A x \in D, y \in D : b[x] = b[y] => x = y,
         \A x \in D : f[x] = h[b[x]]
  PROVE  SumFunction(f) = SumFunction(h) /\ SumFunction(f) \in Nat
<1> DEFINE Image(S) == {b[x] : x \in S}
<1>1. PICK g : Sums(g, f, D, Cardinality(D)) /\ SumFunction(f) = g[D]
  BY SumIsSum
<1>2. PICK e : Sums(e, h, E, Cardinality(E)) /\ SumFunction(h) = e[E]
  BY SumIsSum
<1> DEFINE Reached == {m \in 0 .. Cardinality(D) :
                       \A S \in SUBSET D : Cardinality(S) <= m => g[S] = e[Image(S)]}
<1>0. Cardinality(D) \in Nat
  BY FS_CardinalityType
<1>3. \A S \in SUBSET D : S = {} => g[S] = e[Image(S)]
  <2> SUFFICES ASSUME NEW S \in SUBSET D, S = {} PROVE g[S] = e[Image(S)]
    OBVIOUS
  <2>1. Image(S) = {}
    OBVIOUS
  <2>2. Cardinality(S) <= Cardinality(D) /\ Cardinality({}) <= Cardinality(E)
    BY SmallerSets
  <2>3. g[S] = 0
    BY <1>1, <2>2 DEF Sums
  <2>4. e[{}] = 0
    BY <1>2, <2>2 DEF Sums
  <2> QED
    BY <2>1, <2>3, <2>4
<1>4. 0 \in Reached
  <2>1. \A S \in SUBSET D : Cardinality(S) <= 0 => S = {}
    BY SmallerSets
  <2> QED
    BY <1>0, <1>3, <2>1
<1>5. ASSUME NEW m \in 1 .. Cardinality(D), m - 1 \in Reached PROVE m \in Reached
  <2> SUFFICES ASSUME NEW S \in SUBSET D, Cardinality(S) <= m, S # {}
               PROVE  g[S] = e[Image(S)]
    <3> HIDE DEF Image
    <3> QED
      BY <1>3
  <2>1. PICK x \in S : TRUE
    OBVIOUS
  <2>2. S \ {x} \in SUBSET D /\ Cardinality(S \ {x}) <= m - 1
    BY <1>0, SmallerSets
  <2>3. g[S \ {x}] = e[Image(S \ {x})]
    BY <1>5, <2>2
  <2>4. Image(S \ {x}) = Image(S) \ {b[x]} /\ Image(S) \in SUBSET E /\ b[x] \in Image(S)
    OBVIOUS
  <2>5. g[S] = f[x] + g[S \ {x}]
    BY <1>1, AnyTermLast
  <2>6. e[Image(S)] = h[b[x]] + e[Image(S) \ {b[x]}]
    <3> HIDE DEF Image
    <3> QED
      BY <1>2, <2>4, AnyTermLast
  <2> QED
    BY <2>3, <2>4, <2>5, <2>6
<1>6. \A m \in 1 .. Cardinality(D) : m - 1 \in Reached => m \in Reached
  BY <1>5
<1>7. \A m \in 0 .. Cardinality(D) : m \in Reached
  <2> HIDE DEF Reached
  <2> QED
    BY <1>0, <1>4, <1>6, UpTo
<1>8. g[D] = e[Image(D)]
  BY <1>0, <1>7
<1>9. g[D] \in Nat
  BY <1>1, AnyTermLast
<1> QED
  BY <1>1, <1>2, <1>8, <1>9

-----------------------------------------------------------------------------
(* When all files have been read, a column of the array is the TF-IDF of a *)
(* word in all texts.                                                      *)

AllRead == \A x \in Specs : InMap(x)

\* Each spec has the place in the array that its node says.
LEMMA PlacesOfSpecs ==
  ASSUME WInv, AllRead, NEW place, place = [x \in Specs |-> NodeOf(x).vec_num]
  PROVE  /\ place \in [Specs -> 0 .. FILES - 1]
         /\ \A x \in Specs : bag[place[x] + 1].name = x
         /\ \A x, y \in Specs : place[x] = place[y] => x = y
         /\ 0 .. FILES - 1 = {place[x] : x \in Specs}
<1>1. ASSUME NEW x \in Specs
      PROVE  place[x] \in 0 .. FILES - 1 /\ bag[place[x] + 1].name = x
  <2>1. /\ find_node(x) \in DOMAIN map[Hash[x]] /\ NodeOf(x).id = x
        /\ Hash[x] \in 0 .. Buckets - 1 /\ NodeOf(x) = map[Hash[x]][find_node(x)]
    BY FoundInMap, WordsAssumption DEF WInv, NodeOf, AllRead
  <2>2. NodeOf(x) \in Node /\ bag[NodeOf(x).vec_num + 1].name = x
    BY <2>1 DEF WInv, MapOK
  <2> QED
    BY <2>2 DEF Node
<1>2. \A x, y \in Specs : place[x] = place[y] => x = y
  BY <1>1
<1>3. place \in [Specs -> 0 .. FILES - 1]
  BY <1>1
<1>4. place \in Injection(Specs, 0 .. FILES - 1)
  BY <1>2, <1>3 DEF Injection, IsInjective
<1>5. IsFiniteSet(0 .. FILES - 1) /\ Cardinality(0 .. FILES - 1) = FILES
  <2>1. FILES \in Nat /\ FILES - 1 \in Int
    BY FilesAreCounted
  <2> QED
    BY <2>1, FS_Interval
<1>6. place \in Surjection(Specs, 0 .. FILES - 1)
  BY <1>4, <1>5, FS_Injection DEF FILES
<1> QED
  BY <1>1, <1>2, <1>3, <1>6 DEF Surjection

\* The numbers of the words lead to the words and back.
LEMMA NumbersOfWords ==
  ASSUME WInv
  PROVE  /\ word_counter \in Nat /\ idf_vec.size = word_counter
         /\ IsFiniteSet(Seen) /\ Cardinality(Seen) = word_counter
         /\ \A n \in 0 .. word_counter - 1 :
              WordAt(n) \in Seen /\ search_tree(dict, WordAt(n)) = n
         /\ \A w \in Seen : /\ search_tree(dict, w) \in 0 .. word_counter - 1
                            /\ WordAt(search_tree(dict, w)) = w
<1>1. /\ Seen = Stored(dict) /\ Seen \subseteq Words
      /\ \A w \in Seen : search_tree(dict, w) = dict.payload[w]
  BY SeenIsStored
<1>2. NumbersOK(dict, word_counter) /\ VectorsOK(structures) /\ word_counter \in Nat
  BY DEF WInv, Good, Laid, Struct, structures
<1>3. idf_vec.size = word_counter
  BY <1>2 DEF VectorsOK, Sized, structures
<1>4. IsFiniteSet(Seen)
  BY <1>1, <1>2 DEF NumbersOK
<1>5. \A w \in Seen : search_tree(dict, w) \in 0 .. word_counter - 1
  BY <1>1, <1>2 DEF NumbersOK
<1>6. \A v, w \in Seen : search_tree(dict, v) = search_tree(dict, w) => v = w
  BY <1>1, <1>2 DEF NumbersOK
<1>7. \A n \in 0 .. word_counter - 1 : \E w \in Seen : search_tree(dict, w) = n
  BY <1>1, <1>2 DEF NumbersOK
<1>8. \A n \in 0 .. word_counter - 1 : WordAt(n) \in Seen /\ search_tree(dict, WordAt(n)) = n
  BY <1>7 DEF WordAt
<1>9. \A w \in Seen : WordAt(search_tree(dict, w)) = w
  BY <1>5, <1>6, <1>8
<1>10. Cardinality(Seen) = word_counter
  <2> DEFINE position == [w \in Seen |-> search_tree(dict, w)]
  <2>1. position \in Bijection(Seen, 0 .. word_counter - 1)
    BY <1>5, <1>6, <1>7 DEF Bijection, Injection, Surjection, IsInjective
  <2>2. Cardinality(0 .. word_counter - 1) = word_counter
    BY <1>2, FS_Interval
  <2> HIDE DEF position
  <2> QED
    BY <1>4, <2>1, <2>2, FS_Bijection DEF ExistsBijection
<1> QED
  BY <1>2, <1>3, <1>4, <1>5, <1>8, <1>9, <1>10

\* The quotient of two numbers is a number.
LEMMA QuotientIsNatural == \A a \in Nat, b \in Nat \ {0} : a \div b \in Nat
BY SMT

\* What the text of a spec says of a word.
LEMMA TfIdfOfTexts ==
  ASSUME WInv, NEW x \in Specs, NEW w \in Seen
  PROVE  /\ InText(x) = {} => TextTfIdf(x, w) = NaN
         /\ InText(x) # {} => TextTfIdf(x, w) \in Nat
<1>1. IsFiniteSet(InText(x)) /\ Cardinality(InText(x)) \in Nat
  BY NumbersOfWords, FS_Subset, FS_CardinalityType DEF Seen
<1>2. InText(x) # {} => Scale \div Cardinality(InText(x)) \in Nat
  BY <1>1, FS_EmptySet, QuotientIsNatural, ImportantAssumption
<1>3. Log10[Frequency(w)] \in Nat
  <2> DEFINE texts == {s \in Specs : w \in InText(s)}
  <2>1. texts # {} /\ IsFiniteSet(texts)
    BY WordsAssumption, FS_Subset DEF Seen
  <2>2. Cardinality(texts) \in Nat \ {0} /\ Cardinality(texts) <= FILES
    BY <2>1, WordsAssumption, FS_Subset, FS_EmptySet, FS_CardinalityType DEF FILES
  <2>3. Cardinality(texts) \in 1 .. FILES
    BY <2>2, FilesAreCounted
  <2> QED
    BY <2>3, ImportantAssumption DEF Frequency
<1>4. occurs[x][w] \in Nat
  BY SeenIsStored DEF WInv, Texts
<1> QED
  BY <1>2, <1>3, <1>4 DEF TextTfIdf

\* An element of the array is what the text of the spec says of the word.
LEMMA ElementIsTfIdf ==
  ASSUME WInv, NEW x \in Specs, Found(x), NEW w \in Seen
  PROVE  TfIdf(bag[NodeOf(x).vec_num + 1], search_tree(dict, w)) = TextTfIdf(x, w)
<1>1. PICK vec : vec = bag[NodeOf(x).vec_num + 1]
  OBVIOUS
<1>2. PICK k : k = search_tree(dict, w)
  OBVIOUS
<1>3. vec.elements[k] = occurs[x][w] /\ vec.word_count = Cardinality(InText(x))
  BY <1>1, <1>2, CountsFound DEF SpecsFindTheirCounts
<1>4. k \in 0 .. idf_vec.size - 1
  BY <1>2, NumbersOfWords
<1>5. compute_idf_vals[k] = Log10[Frequency(w)]
  BY <1>2, <1>4, FrequenciesRight DEF compute_idf_vals, FrequencyCountsTexts, Frequency
<1>6. Cardinality(InText(x)) = 0 <=> InText(x) = {}
  BY NumbersOfWords, FS_Subset, FS_EmptySet DEF Seen
<1>7. TfIdf(vec, k) = TextTfIdf(x, w)
  BY <1>3, <1>5, <1>6 DEF TfIdf, TextTfIdf
<1> QED
  BY <1>1, <1>2, <1>7

\* The average of a column.
ColumnAverage(n) == Total([i \in 0 .. FILES - 1 |-> tfarr[i].elements[n]])

\* A column's average is that of its word in all texts, a number unless a text is empty.
LEMMA ColumnIsAverage ==
  ASSUME WInv, AllRead, tfarr = compute_tf_idf, NEW n \in 0 .. word_counter - 1
  PROVE  /\ ColumnAverage(n) = Average(WordAt(n))
         /\ ~EmptyText => ColumnAverage(n) \in Nat
         /\ EmptyText => ColumnAverage(n) = NaN
<1>1. PICK w \in Seen : w = WordAt(n) /\ n = search_tree(dict, w)
  BY NumbersOfWords
<1>2. PICK place : place = [x \in Specs |-> NodeOf(x).vec_num]
  OBVIOUS
<1>10. PICK places : places = 0 .. FILES - 1
  OBVIOUS
<1>3. /\ place \in [Specs -> places]
      /\ \A x, y \in Specs : place[x] = place[y] => x = y
      /\ places = {place[x] : x \in Specs}
  BY <1>2, <1>10, PlacesOfSpecs
<1>4. PICK column : column = [i \in 0 .. FILES - 1 |-> tfarr[i].elements[n]]
  OBVIOUS
<1>5. PICK texts : texts = [x \in Specs |-> TextTfIdf(x, w)]
  OBVIOUS
<1>6. ASSUME NEW x \in Specs PROVE texts[x] = column[place[x]]
  <2>1. PICK i \in 0 .. FILES - 1 : i = place[x] /\ i = NodeOf(x).vec_num
    BY <1>2, <1>3, <1>10
  <2>2. n \in 0 .. idf_vec.size - 1
    BY NumbersOfWords
  <2>3. tfarr[i].elements[n] = TfIdf(bag[i + 1], n)
    BY <2>1, <2>2 DEF compute_tf_idf
  <2>4. TfIdf(bag[i + 1], n) = TextTfIdf(x, w)
    <3>1. Found(x)
      BY FoundInMap DEF AllRead, WInv
    <3> QED
      BY <1>1, <2>1, <3>1, ElementIsTfIdf
  <2> QED
    BY <1>4, <1>5, <2>1, <2>3, <2>4
<1>11. DOMAIN column = places /\ DOMAIN texts = Specs
  BY <1>4, <1>5, <1>10
<1>7. Range(column) = Range(texts)
  <2>1. Range(column) = {column[i] : i \in places} /\ Range(texts) = {texts[x] : x \in Specs}
    BY <1>11 DEF Range
  <2>2. \A i \in places : \E x \in Specs : place[x] = i
    BY <1>3
  <2>3. \A x \in Specs : place[x] \in places
    BY <1>3
  <2> QED
    BY <1>6, <2>1, <2>2, <2>3
<1>8. CASE EmptyText
  <2>1. NaN \in Range(texts)
    BY <1>5, <1>8, TfIdfOfTexts DEF EmptyText, Range
  <2> QED
    BY <1>1, <1>4, <1>5, <1>7, <1>8, <2>1 DEF ColumnAverage, Average, Total
<1>9. CASE ~EmptyText
  <2>1. texts \in [Specs -> Nat]
    BY <1>5, <1>9, TfIdfOfTexts DEF EmptyText
  <2>2. column \in [places -> Nat]
    <3>1. \A i \in places : column[i] \in Nat
      BY <1>3, <1>6, <2>1
    <3>2. column = [i \in places |-> column[i]]
      BY <1>4, <1>10
    <3> QED
      BY <3>1, <3>2
  <2>3. IsFiniteSet(Specs) /\ IsFiniteSet(places)
    BY <1>10, WordsAssumption, FilesAreCounted, FS_Interval
  <2>4. SumFunction(texts) = SumFunction(column) /\ SumFunction(texts) \in Nat
    BY <1>3, <1>6, <2>1, <2>2, <2>3, SumRenamed
  <2>5. NaN \notin Range(texts)
    BY <2>1 DEF Range, NaN
  <2> QED
    BY <1>1, <1>4, <1>5, <1>7, <1>9, <2>4, <2>5 DEF ColumnAverage, Average, Total
<1> QED
  BY <1>8, <1>9

-----------------------------------------------------------------------------
(* The two scans of a sort. *)

\* The smallest and the largest of some positions.
LEMMA SmallestOf ==
  ASSUME NEW a \in Nat, NEW b \in Nat, NEW S \in SUBSET (a .. b), S # {}
  PROVE  Min(S) \in S /\ \A x \in S : Min(S) <= x
<1>1. S \in SUBSET Nat
  OBVIOUS
<1> QED
  BY <1>1, Least DEF Min

\* The same for the largest.
LEMMA LargestOf ==
  ASSUME NEW a \in Nat, NEW b \in Nat, NEW S \in SUBSET (a .. b), S # {}
  PROVE  Max(S) \in S /\ \A x \in S : x <= Max(S)
<1> DEFINE gaps == {b - x : x \in S}
<1>1. gaps \in SUBSET Nat /\ gaps # {}
  <2>1. \A x \in S : x \in a .. b /\ b - x \in Nat
    OBVIOUS
  <2>2. gaps \in SUBSET Nat
    BY <2>1
  <2>3. gaps # {}
    OBVIOUS
  <2> QED
    BY <2>2, <2>3
<1>2. PICK g \in gaps : \A h \in gaps : g <= h
  <2> HIDE DEF gaps
  <2> QED
    BY <1>1, Least
<1>3. PICK m \in S : g = b - m
  BY <1>2
<1>4. \A x \in S : m >= x
  <2> TAKE x \in S
  <2>1. b - m <= b - x
    BY <1>2, <1>3
  <2> QED
    BY <2>1
<1> QED
  BY <1>3, <1>4 DEF Max

\* A call of a sort, between its positions p and q.
Frame(p, q, i, j) == [first |-> p, last |-> q, i |-> i, j |-> j]

\* The first sort: i stays at the pivot, and j goes down to a larger average.
LEMMA AverageScanStays ==
  ASSUME NEW p \in Nat, NEW q \in Nat, NEW j \in p .. q, p < j,
         frame = Frame(p, q, p, j), \A k \in p .. q : important_words[k] \in Int
  PROVE  \E m \in p .. j :
           /\ AverageScan = Frame(p, q, p, m)
           /\ (\A k \in p .. q : important_words[k] # NaN) =>
                /\ \A k \in m + 1 .. j : important_words[k] <= important_words[p]
                /\ m = p \/ important_words[m] > important_words[p]
           /\ (\A k \in p .. q : important_words[k] = NaN) => m = j
<1> DEFINE ups == {k \in p .. q : ~Greater(important_words[k], important_words[p])}
           downs == {k \in p .. j : ~(AtMost(important_words[k], important_words[p]) /\ k > p)}
<1>1. AverageScan = [frame EXCEPT !.i = Min(ups), !.j = Max(downs)]
  BY DEF AverageScan, Scan, Frame
<1>2. p \in ups /\ p \in downs
  BY DEF Greater
<1>3. ups \in SUBSET (p .. q) /\ downs \in SUBSET (p .. j)
  OBVIOUS
<1>4. j \in Nat
  OBVIOUS
<1>5. Min(ups) = p
  <2>1. Min(ups) \in ups /\ \A x \in ups : Min(ups) <= x
    <3> HIDE DEF ups
    <3> QED
      BY <1>2, <1>3, SmallestOf
  <2>2. Min(ups) <= p /\ Min(ups) \in p .. q
    BY <1>2, <2>1
  <2> QED
    BY <2>2
<1>6. PICK m \in downs : m = Max(downs) /\ \A x \in downs : x <= m
  <2> HIDE DEF downs
  <2> QED
    BY <1>2, <1>3, <1>4, LargestOf
<1>7. AverageScan = Frame(p, q, p, m)
  BY <1>1, <1>5, <1>6 DEF Frame
<1>8. ASSUME \A k \in p .. q : important_words[k] # NaN
      PROVE  /\ \A k \in m + 1 .. j : important_words[k] <= important_words[p]
             /\ m = p \/ important_words[m] > important_words[p]
  <2>1. \A k \in m + 1 .. j : k \in p .. j /\ k \notin downs /\ k \in p .. q
    BY <1>6
  <2>2. \A k \in m + 1 .. j : AtMost(important_words[k], important_words[p])
    BY <2>1
  <2>3. m # p => ~AtMost(important_words[m], important_words[p])
    BY <1>6
  <2>4. important_words[m] \in Int /\ important_words[p] \in Int
    BY <1>6
  <2> QED
    BY <1>8, <1>6, <2>2, <2>3, <2>4 DEF AtMost
<1>9. ASSUME \A k \in p .. q : important_words[k] = NaN PROVE m = j
  <2>1. j \in downs
    BY <1>9 DEF AtMost
  <2>2. m <= j /\ j <= m
    BY <1>6, <2>1
  <2> QED
    BY <1>6, <2>2
<1> QED
  BY <1>3, <1>6, <1>7, <1>8, <1>9

\* The second sort: what i and j leave behind is on the right side of the pivot.
LEMMA IndexScanDivides ==
  ASSUME NEW p \in Nat, NEW q \in Nat, NEW i \in p .. q, NEW j \in p .. q, i < j,
         frame = Frame(p, q, i, j), \A k \in p .. q : wordVec[k] \in Int,
         \A k \in p .. i - 1 : wordVec[k] <= wordVec[p],
         \A k \in j + 1 .. q : wordVec[k] > wordVec[p]
  PROVE  \E l \in p + 1 .. q, m \in p .. j :
           /\ i <= l
           /\ IndexScan = Frame(p, q, l, m)
           /\ \A k \in p .. l - 1 : wordVec[k] <= wordVec[p]
           /\ \A k \in m + 1 .. q : wordVec[k] > wordVec[p]
           /\ l = q \/ wordVec[l] > wordVec[p]
           /\ wordVec[m] <= wordVec[p]
<1> DEFINE ups == {k \in i .. q : ~(wordVec[k] <= wordVec[p] /\ k < q)}
           downs == {k \in p .. j : ~(wordVec[k] > wordVec[p])}
<1>1. IndexScan = [frame EXCEPT !.i = Min(ups), !.j = Max(downs)]
  BY DEF IndexScan, Scan, Frame
<1>2. q \in ups /\ p \in downs
  OBVIOUS
<1>3. ups \in SUBSET (i .. q) /\ downs \in SUBSET (p .. j) /\ i \in Nat /\ j \in Nat
  OBVIOUS
<1>4. PICK l \in ups : l = Min(ups) /\ \A x \in ups : l <= x
  <2> HIDE DEF ups
  <2> QED
    BY <1>2, <1>3, SmallestOf
<1>5. PICK m \in downs : m = Max(downs) /\ \A x \in downs : x <= m
  <2> HIDE DEF downs
  <2> QED
    BY <1>2, <1>3, LargestOf
<1>6. IndexScan = Frame(p, q, l, m)
  BY <1>1, <1>4, <1>5 DEF Frame
<1>7. \A k \in i .. l - 1 : k \in i .. q /\ k \notin ups
  BY <1>4
<1>8. \A k \in p .. l - 1 : wordVec[k] <= wordVec[p]
  BY <1>7
<1>9. \A k \in m + 1 .. j : k \in p .. j /\ k \notin downs
  BY <1>5
<1>10. \A k \in m + 1 .. q : wordVec[k] > wordVec[p]
  BY <1>9
<1>11. l # p
  BY <1>4
<1>12. l = q \/ wordVec[l] > wordVec[p]
  BY <1>4
<1>13. wordVec[m] <= wordVec[p]
  BY <1>5
<1>14. l \in p + 1 .. q /\ i <= l /\ m \in p .. j
  BY <1>4, <1>5, <1>11
<1> HIDE DEF ups, downs
<1> QED
  BY <1>6, <1>8, <1>10, <1>12, <1>13, <1>14

-----------------------------------------------------------------------------
(* What holds during the sorts.  The first one is at position p: what is   *)
(* before p is in place and what is after it is one call, which runs or is *)
(* the last one that waits.                                                *)

Descends(f, c, p) == \A a, b \in 0 .. c - 1 : a < b /\ a < p => f[a] >= f[b]
FirstSort(f, c, cs, fr, p) ==
  /\ Descends(f, c, p)
  /\ \/ fr = NoFrame /\ cs = << <<p, c - 1>> >>
     \/ fr = NoFrame /\ p > 0 /\ cs = << <<p - 1, p - 2>>, <<p, c - 1>> >>
     \/ fr = NoFrame /\ p = c /\ cs = <<>>
     \/ /\ cs = <<>> /\ p < c - 1
        /\ \E j \in p .. c - 1 : /\ fr = Frame(p, c - 1, p, j)
                                 /\ \A k \in j + 1 .. c - 1 : f[k] <= f[p]

\* With nothing to compare the first call never ends.
Stuck(c, cs, fr) ==
  \/ fr = NoFrame /\ cs = << <<0, c - 1>> >>
  \/ cs = <<>> /\ fr = Frame(0, c - 1, 0, c - 1)

\* Different words, by their numbers.
Numbers(f, d, c) ==
  f \in [0 .. d - 1 -> 0 .. c - 1] /\ \A a, b \in 0 .. d - 1 : f[a] = f[b] => a = b

AveragesOK ==
  phase = "average" =>
    /\ Numbers(wordVec, word_counter, word_counter)
    /\ important_words = [k \in 0 .. word_counter - 1 |-> ColumnAverage(wordVec[k])]
    /\ \E p \in 0 .. word_counter :
         FirstSort(important_words, word_counter, calls, frame, p)
    /\ EmptyText /\ word_counter > 1 => Stuck(word_counter, calls, frame)

\* The calls of the second sort have no position in common, and of two positions that
\* are in no call together the second one has the larger number.
Covers(call, x) == call[1] <= x /\ x <= call[2]
Runs(fr, x) == fr # NoFrame /\ fr.first <= x /\ x <= fr.last
Together(cs, fr, a, b) ==
  \/ \E n \in DOMAIN cs : Covers(cs[n], a) /\ Covers(cs[n], b)
  \/ Runs(fr, a) /\ Runs(fr, b)
CallsOK(cs, fr, d) ==
  /\ cs \in Seq(Nat \X Int)
  /\ \A n \in DOMAIN cs : cs[n][2] < d
  /\ \A m, n \in DOMAIN cs : m # n =>
       \A x \in 0 .. d - 1 : ~(Covers(cs[m], x) /\ Covers(cs[n], x))
  /\ \A n \in DOMAIN cs : \A x \in 0 .. d - 1 : ~(Covers(cs[n], x) /\ Runs(fr, x))
Ordered(f, cs, fr, d) ==
  \A a, b \in 0 .. d - 1 : a < b => f[a] < f[b] \/ Together(cs, fr, a, b)

\* What i and j have left behind is on the right side of the pivot.
Divided(f, fr, d) ==
  fr = NoFrame \/
  \E p \in 0 .. d - 1, q \in 0 .. d - 1 : \E i \in p .. q, j \in p .. q :
    /\ p < q /\ fr = Frame(p, q, i, j)
    /\ \A k \in p .. i - 1 : f[k] <= f[p]
    /\ \A k \in j + 1 .. q : f[k] > f[p]
    /\ i >= j => f[j] <= f[p]
    /\ i < j => f[i] <= f[p]

\* The words that are kept have the largest averages.
Chosen(f) == {f[k] : k \in DOMAIN f}
LargestChosen(f, c) ==
  \A n \in Chosen(f), m \in (0 .. c - 1) \ Chosen(f) : ColumnAverage(n) >= ColumnAverage(m)

IndicesOK ==
  phase \in {"indices", "done"} =>
    /\ ImpWords <= word_counter /\ Numbers(wordVec, ImpWords, word_counter)
    /\ LargestChosen(wordVec, word_counter)
    /\ CallsOK(calls, frame, ImpWords)
    /\ Ordered(wordVec, calls, frame, ImpWords)
    /\ Divided(wordVec, frame, ImpWords)

\* Before the sorts and after them.
PhasesOK ==
  /\ phase \in {"parse", "average", "indices", "done", "out of bounds", "aborted"}
  /\ pc = "parsed" => AllRead
  /\ phase = "parse" => wordVec = <<>>
  /\ phase \in {"parse", "done", "out of bounds", "aborted"} => calls = <<>> /\ frame = NoFrame
  /\ phase # "parse" => pc = "parsed"
  /\ phase \notin {"parse", "aborted"} => tfarr = compute_tf_idf
  /\ phase \in {"indices", "done", "out of bounds", "aborted"} => ~(EmptyText /\ word_counter > 1)
  /\ phase = "done" => tfarr_mini = [i \in 0 .. FILES - 1 |->
       [name |-> tfarr[i].name, elements |-> Columns(tfarr[i].elements)]]

\* The invariant of the program from the first file to the features.
SInv == WInv /\ PhasesOK /\ AveragesOK /\ IndicesOK

-----------------------------------------------------------------------------
(* What all steps of the sorts need. *)

\* An exchange of two elements.
LEMMA SwapFacts ==
  ASSUME NEW D, NEW R, NEW f \in [D -> R], NEW i \in D, NEW j \in D,
         NEW g, g = Swap(f, i, j)
  PROVE  /\ g \in [D -> R] /\ DOMAIN g = D
         /\ \A k \in D : g[k] = IF k = i THEN f[j] ELSE IF k = j THEN f[i] ELSE f[k]
BY DEF Swap

\* It keeps the numbers different, and the same.
LEMMA SwapNumbers ==
  ASSUME NEW d, NEW c, NEW f, Numbers(f, d, c), NEW i \in 0 .. d - 1, NEW j \in 0 .. d - 1,
         NEW g, g = Swap(f, i, j)
  PROVE  Numbers(g, d, c) /\ Chosen(g) = Chosen(f)
<1>1. PICK D : D = 0 .. d - 1
  OBVIOUS
<1>2. PICK R : R = 0 .. c - 1
  OBVIOUS
<1>3. f \in [D -> R] /\ \A a, b \in D : f[a] = f[b] => a = b
  BY <1>1, <1>2 DEF Numbers
<1>4. /\ g \in [D -> R] /\ DOMAIN g = D /\ DOMAIN f = D
      /\ \A k \in D : g[k] = IF k = i THEN f[j] ELSE IF k = j THEN f[i] ELSE f[k]
  <2>1. i \in D /\ j \in D
    BY <1>1
  <2>2. f \in [D -> R] /\ DOMAIN f = D
    BY <1>3
  <2>3. g = [f EXCEPT ![i] = f[j], ![j] = f[i]]
    BY DEF Swap
  <2> QED
    BY <2>1, <2>2, <2>3
<1>5. \A a, b \in D : g[a] = g[b] => a = b
  BY <1>1, <1>3, <1>4
<1>6. Chosen(g) = {g[k] : k \in D} /\ Chosen(f) = {f[k] : k \in D}
  BY <1>4 DEF Chosen
<1>7. \A k \in D : (\E l \in D : f[k] = g[l]) /\ (\E l \in D : g[k] = f[l])
  <2> TAKE k \in D
  <2>1. \E l \in D : g[k] = f[l]
    BY <1>1, <1>4
  <2>2. f[k] = g[IF k = i THEN j ELSE IF k = j THEN i ELSE k]
    BY <1>1, <1>4
  <2>3. (IF k = i THEN j ELSE IF k = j THEN i ELSE k) \in D
    BY <1>1
  <2> QED
    BY <2>1, <2>2, <2>3
<1>8. Chosen(g) = Chosen(f)
  BY <1>6, <1>7
<1> QED
  BY <1>1, <1>2, <1>4, <1>5, <1>8 DEF Numbers

\* A step that leaves alone what was read leaves alone what is said of it.
LEMMA SortRests ==
  ASSUME WInv, UNCHANGED <<parseVars, tfarr>>
  PROVE  /\ WInv' /\ AllRead' = AllRead /\ EmptyText' = EmptyText
         /\ word_counter' = word_counter /\ pc' = pc
         /\ \A n : ColumnAverage(n)' = ColumnAverage(n)
         /\ compute_tf_idf' = compute_tf_idf
<1>1. WInv'
  BY ParserRests DEF parseVars
<1>2. AllRead' = AllRead
  BY DEF AllRead, InMap, parseVars
<1>3. EmptyText' = EmptyText
  BY DEF EmptyText, InText, parseVars
<1>4. \A n : ColumnAverage(n)' = ColumnAverage(n)
  BY DEF ColumnAverage
<1>5. compute_tf_idf' = compute_tf_idf
  BY DEF compute_tf_idf, TfIdf, compute_idf_vals, parseVars
<1> QED
  BY <1>1, <1>2, <1>3, <1>4, <1>5 DEF parseVars

\* The averages are numbers, all of them or none.
LEMMA AveragesAreNumbers ==
  ASSUME SInv, phase \notin {"parse", "aborted"}, NEW n \in 0 .. word_counter - 1
  PROVE  /\ ColumnAverage(n) \in Int
         /\ EmptyText => ColumnAverage(n) = NaN
         /\ ~EmptyText => ColumnAverage(n) # NaN
<1>1. AllRead /\ tfarr = compute_tf_idf /\ WInv
  BY DEF SInv, PhasesOK
<1> QED
  BY <1>1, ColumnIsAverage DEF NaN

-----------------------------------------------------------------------------
(* Up to the first sort. *)

\* The invariant holds in the beginning.
LEMMA InitSorts == Init => SInv
<1> SUFFICES ASSUME Init PROVE SInv
  OBVIOUS
<1>1. WInv
  BY InitParsed
<1>2. PhasesOK /\ AveragesOK /\ IndicesOK
  BY DEF Init, ParseInit, PhasesOK, AveragesOK, IndicesOK
<1> QED
  BY <1>1, <1>2 DEF SInv

\* The parser does not touch the sorts, which begin when it has ended.
LEMMA ParseStep == ASSUME SInv, Parse PROVE SInv'
<1>1. WInv'
  BY ParserSteps DEF SInv, Next
<1>2. phase = "parse" /\ pc # "parsed"
  BY DEF SInv, PhasesOK, Parse, ParseNext, OpenFile, ReadName, ReadValue, ReadArray, CloseFile,
         EndOfFolders
<1>3. ASSUME pc' = "parsed" PROVE AllRead'
  <2>1. EndOfFolders
    BY <1>2, <1>3 DEF Parse, ParseNext, OpenFile, ReadName, ReadValue, ReadArray, CloseFile
  <2>2. AllRead
    BY <2>1, FoundInMap DEF EndOfFolders, AllRead, SInv, WInv
  <2> QED
    BY <2>1, <2>2 DEF EndOfFolders, AllRead, InMap
<1>4. UNCHANGED selectVars
  BY DEF Parse
<1>5. PhasesOK'
  BY <1>2, <1>3, <1>4 DEF SInv, PhasesOK, selectVars
<1>6. AveragesOK' /\ IndicesOK'
  BY <1>2, <1>4 DEF AveragesOK, IndicesOK, selectVars
<1> QED
  BY <1>1, <1>5, <1>6 DEF SInv

\* Nothing happens.
LEMMA NothingStep == ASSUME SInv, UNCHANGED vars PROVE SInv'
<1>1. /\ WInv' /\ AllRead' = AllRead /\ EmptyText' = EmptyText /\ word_counter' = word_counter
      /\ pc' = pc /\ \A n : ColumnAverage(n)' = ColumnAverage(n)
      /\ compute_tf_idf' = compute_tf_idf
  BY SortRests DEF SInv, vars, selectVars
<1>2. PhasesOK'
  BY <1>1 DEF SInv, PhasesOK, vars, selectVars, Columns
<1>3. AveragesOK'
  BY <1>1 DEF SInv, AveragesOK, vars, selectVars
<1>4. IndicesOK'
  BY <1>1 DEF SInv, IndicesOK, vars, selectVars, LargestChosen
<1> QED
  BY <1>1, <1>2, <1>3, <1>4 DEF SInv

\* Without words main ends, and nothing was to be sorted.
LEMMA CreateTfFailsStep == ASSUME SInv, CreateTfFails PROVE SInv'
<1>1. /\ phase = "parse" /\ pc = "parsed" /\ phase' = "aborted" /\ idf_vec.size = 0
      /\ UNCHANGED <<parseVars, tfarr, important_words, wordVec, calls, frame, tfarr_mini>>
  BY DEF CreateTfFails
<1>2. WInv' /\ AllRead' = AllRead /\ pc' = pc /\ word_counter' = 0
  BY <1>1, SortRests, NumbersOfWords DEF SInv
<1>3. PhasesOK'
  BY <1>1, <1>2 DEF SInv, PhasesOK
<1>4. AveragesOK' /\ IndicesOK'
  BY <1>1 DEF AveragesOK, IndicesOK
<1> QED
  BY <1>2, <1>3, <1>4 DEF SInv

\* The averages are computed, and the first call waits.
LEMMA ComputeTfIdfStep == ASSUME SInv, ComputeTfIdf PROVE SInv'
<1>1. /\ phase = "parse" /\ pc = "parsed" /\ phase' = "average" /\ UNCHANGED parseVars
      /\ tfarr' = compute_tf_idf
      /\ important_words' = [k \in 0 .. idf_vec.size - 1 |->
                               Total([i \in 0 .. FILES - 1 |-> tfarr'[i].elements[k]])]
      /\ wordVec' = [k \in 0 .. idf_vec.size - 1 |-> k]
      /\ calls' = << <<0, idf_vec.size - 1>> >> /\ frame' = frame
  BY DEF ComputeTfIdf, create_tf
<1>2. PICK c \in Nat : c = word_counter /\ c = idf_vec.size
  BY NumbersOfWords DEF SInv
<1>3. word_counter' = c /\ pc' = pc
  BY <1>1, <1>2 DEF parseVars
<1>4. WInv' /\ AllRead' = AllRead /\ compute_tf_idf' = compute_tf_idf
  <2>1. WInv'
    BY <1>1, ParserRests DEF SInv, parseVars
  <2>2. AllRead' = AllRead
    BY <1>1 DEF AllRead, InMap, parseVars
  <2>3. compute_tf_idf' = compute_tf_idf
    BY <1>1 DEF compute_tf_idf, TfIdf, compute_idf_vals, parseVars
  <2> QED
    BY <2>1, <2>2, <2>3
<1>5. frame = NoFrame
  BY <1>1 DEF SInv, PhasesOK
<1>6. PhasesOK'
  BY <1>1, <1>3, <1>4 DEF SInv, PhasesOK
<1>7. Numbers(wordVec', c, c)
  BY <1>1, <1>2 DEF Numbers
<1>8. important_words' = [k \in 0 .. c - 1 |-> ColumnAverage(wordVec[k])']
  BY <1>1, <1>2 DEF ColumnAverage
<1>9. FirstSort(important_words', c, calls', frame', 0)
  <2>1. Descends(important_words', c, 0)
    BY DEF Descends
  <2> QED
    BY <1>1, <1>2, <1>5, <2>1 DEF FirstSort
<1>10. Stuck(c, calls', frame')
  BY <1>1, <1>2, <1>5 DEF Stuck
<1>11. AveragesOK'
  BY <1>2, <1>3, <1>7, <1>8, <1>9, <1>10 DEF AveragesOK
<1>12. IndicesOK'
  BY <1>1 DEF IndicesOK
<1> QED
  BY <1>4, <1>6, <1>11, <1>12 DEF SInv

-----------------------------------------------------------------------------
(* The first sort. *)

\* A call begins with both ends, or is over at once.
LEMMA CallAverageStep == ASSUME SInv, Call("average") PROVE SInv'
<1>1. /\ phase = "average" /\ phase' = phase /\ frame = NoFrame /\ calls # <<>>
      /\ calls' = Tail(calls) /\ UNCHANGED parseVars /\ tfarr' = tfarr
      /\ important_words' = important_words /\ wordVec' = wordVec /\ tfarr_mini' = tfarr_mini
      /\ frame' = IF Head(calls)[1] < Head(calls)[2]
                    THEN Frame(Head(calls)[1], Head(calls)[2], Head(calls)[1], Head(calls)[2])
                    ELSE NoFrame
  BY DEF Call, Frame
<1>2. /\ WInv' /\ AllRead' = AllRead /\ EmptyText' = EmptyText /\ word_counter' = word_counter
      /\ pc' = pc /\ \A n : ColumnAverage(n)' = ColumnAverage(n)
      /\ compute_tf_idf' = compute_tf_idf
  BY <1>1, SortRests DEF SInv
<1>3. PhasesOK'
  BY <1>1, <1>2 DEF SInv, PhasesOK
<1>4. IndicesOK'
  BY <1>1 DEF IndicesOK
<1>5. PICK c \in Nat : c = word_counter
  BY NumbersOfWords DEF SInv
<1>6. PICK f : f = important_words
  OBVIOUS
<1>7. PICK p \in 0 .. c : FirstSort(f, c, calls, frame, p)
  BY <1>1, <1>5, <1>6 DEF SInv, AveragesOK
<1>8. \A x, y : /\ << <<x, y>> >> # <<>> /\ Head(<< <<x, y>> >>) = <<x, y>>
                /\ Tail(<< <<x, y>> >>) = <<>>
  OBVIOUS
<1>9. \E o \in 0 .. c : FirstSort(f, c, calls', frame', o)
  <2>1. CASE calls = << <<p, c - 1>> >> /\ p < c - 1
    <3>1. calls' = <<>> /\ frame' = Frame(p, c - 1, p, c - 1)
      BY <1>1, <1>8, <2>1
    <3>2. Descends(f, c, p)
      BY <1>7 DEF FirstSort
    <3>3. c - 1 \in p .. c - 1 /\ \A k \in (c - 1) + 1 .. c - 1 : f[k] <= f[p]
      BY <2>1
    <3> QED
      BY <2>1, <3>1, <3>2, <3>3 DEF FirstSort
  <2>2. CASE calls = << <<p, c - 1>> >> /\ ~(p < c - 1)
    <3>1. calls' = <<>> /\ frame' = NoFrame
      BY <1>1, <1>8, <2>2
    <3>2. Descends(f, c, c)
      BY <1>7, <2>2 DEF FirstSort, Descends
    <3> QED
      BY <3>1, <3>2 DEF FirstSort
  <2>3. CASE calls = << <<p - 1, p - 2>>, <<p, c - 1>> >>
    <3>1. Head(calls) = <<p - 1, p - 2>> /\ Tail(calls) = << <<p, c - 1>> >>
      BY <2>3
    <3>2. calls' = << <<p, c - 1>> >> /\ frame' = NoFrame
      BY <1>1, <3>1
    <3> QED
      BY <1>7, <3>2 DEF FirstSort
  <2> QED
    BY <1>1, <1>7, <2>1, <2>2, <2>3 DEF FirstSort
<1>10. ASSUME EmptyText, c > 1 PROVE Stuck(c, calls', frame')
  <2>1. Stuck(c, calls, frame)
    BY <1>1, <1>5, <1>10 DEF SInv, AveragesOK
  <2>2. calls = << <<0, c - 1>> >>
    BY <1>1, <2>1 DEF Stuck
  <2>3. calls' = <<>> /\ frame' = Frame(0, c - 1, 0, c - 1)
    BY <1>1, <1>8, <1>10, <2>2
  <2> QED
    BY <2>3 DEF Stuck
<1>11. AveragesOK'
  BY <1>1, <1>2, <1>5, <1>6, <1>9, <1>10 DEF SInv, AveragesOK
<1> QED
  BY <1>2, <1>3, <1>4, <1>11 DEF SInv

\* A call that runs is the one at the position of the sort.
LEMMA RunningCall ==
  ASSUME NEW f, NEW c \in Nat, NEW p \in 0 .. c, NEW cs, NEW fr, fr # NoFrame,
         FirstSort(f, c, cs, fr, p)
  PROVE  /\ Descends(f, c, p) /\ cs = <<>> /\ p < c - 1
         /\ \E j \in p .. c - 1 : /\ fr = Frame(p, c - 1, p, j)
                                  /\ \A k \in j + 1 .. c - 1 : f[k] <= f[p]
BY DEF FirstSort

\* The averages, seen as a function of the position.
LEMMA AveragesAt ==
  ASSUME SInv, phase = "average", NEW c, c = word_counter
  PROVE  /\ important_words \in [0 .. c - 1 -> Int]
         /\ \A k \in 0 .. c - 1 : important_words[k] = ColumnAverage(wordVec[k])
         /\ EmptyText => \A k \in 0 .. c - 1 : important_words[k] = NaN
         /\ ~EmptyText => \A k \in 0 .. c - 1 : important_words[k] # NaN
<1>1. /\ \A k \in 0 .. c - 1 : wordVec[k] \in 0 .. c - 1
      /\ important_words = [k \in 0 .. c - 1 |-> ColumnAverage(wordVec[k])]
  BY DEF SInv, AveragesOK, Numbers
<1>2. \A k \in 0 .. c - 1 :
        /\ ColumnAverage(wordVec[k]) \in Int
        /\ EmptyText => ColumnAverage(wordVec[k]) = NaN
        /\ ~EmptyText => ColumnAverage(wordVec[k]) # NaN
  BY <1>1, AveragesAreNumbers
<1> QED
  BY <1>1, <1>2

\* Exchanges within what is not in place yet leave in place what is.
LEMMA SwapDescends ==
  ASSUME NEW c \in Nat, NEW f \in [0 .. c - 1 -> Int], NEW p \in 0 .. c, Descends(f, c, p),
         NEW i \in p .. c - 1, NEW j \in p .. c - 1, NEW g, g = Swap(f, i, j)
  PROVE  Descends(g, c, p)
<1>1. i \in 0 .. c - 1 /\ j \in 0 .. c - 1
  OBVIOUS
<1>2. \A k \in 0 .. c - 1 : g[k] = IF k = i THEN f[j] ELSE IF k = j THEN f[i] ELSE f[k]
  BY <1>1 DEF Swap
<1> SUFFICES ASSUME NEW a \in 0 .. c - 1, NEW b \in 0 .. c - 1, a < b, a < p
             PROVE  g[a] >= g[b]
  BY DEF Descends
<1>3. g[a] = f[a]
  BY <1>2
<1>4. f[a] >= f[b] /\ f[a] >= f[i] /\ f[a] >= f[j]
  BY <1>1 DEF Descends
<1> QED
  BY <1>2, <1>3, <1>4

\* A round of the loop: the pivot stays in front and grows.
LEMMA ExchangeAveragesStep == ASSUME SInv, ExchangeAverages PROVE SInv'
<1>1. /\ phase = "average" /\ phase' = phase /\ frame # NoFrame /\ frame.i < frame.j
      /\ frame' = AverageScan /\ calls' = calls
      /\ UNCHANGED parseVars /\ tfarr' = tfarr /\ tfarr_mini' = tfarr_mini
      /\ IF frame'.i < frame'.j
           THEN /\ important_words' = Swap(important_words, frame'.i, frame'.j)
                /\ wordVec' = Swap(wordVec, frame'.i, frame'.j)
           ELSE important_words' = important_words /\ wordVec' = wordVec
  BY DEF ExchangeAverages, MoveNumbers
<1>2. /\ WInv' /\ AllRead' = AllRead /\ EmptyText' = EmptyText /\ word_counter' = word_counter
      /\ pc' = pc /\ \A n : ColumnAverage(n)' = ColumnAverage(n)
      /\ compute_tf_idf' = compute_tf_idf
  BY <1>1, SortRests DEF SInv
<1>3. PhasesOK'
  BY <1>1, <1>2 DEF SInv, PhasesOK
<1>4. IndicesOK'
  BY <1>1 DEF IndicesOK
<1>5. PICK c \in Nat : c = word_counter
  BY NumbersOfWords DEF SInv
<1>6. PICK f : f = important_words
  OBVIOUS
<1>7. /\ f \in [0 .. c - 1 -> Int]
      /\ \A k \in 0 .. c - 1 : f[k] = ColumnAverage(wordVec[k])
      /\ EmptyText => \A k \in 0 .. c - 1 : f[k] = NaN
      /\ ~EmptyText => \A k \in 0 .. c - 1 : f[k] # NaN
  BY <1>1, <1>5, <1>6, AveragesAt
<1>8. PICK p \in 0 .. c : FirstSort(f, c, calls, frame, p)
  BY <1>1, <1>5, <1>6 DEF SInv, AveragesOK
<1>10. PICK j \in p .. c - 1 : /\ Descends(f, c, p) /\ calls = <<>> /\ p < c - 1
                               /\ frame = Frame(p, c - 1, p, j)
                               /\ \A k \in j + 1 .. c - 1 : f[k] <= f[p]
  BY <1>1, <1>8, RunningCall
<1>9. Descends(f, c, p) /\ calls = <<>> /\ p < c - 1
  BY <1>10
<1>11. p < j /\ p \in Nat /\ c - 1 \in Nat
  BY <1>1, <1>9, <1>10 DEF Frame
<1>12. PICK m \in p .. j :
         /\ frame' = Frame(p, c - 1, p, m)
         /\ (\A k \in p .. c - 1 : f[k] # NaN) =>
              /\ \A k \in m + 1 .. j : f[k] <= f[p]
              /\ m = p \/ f[m] > f[p]
         /\ (\A k \in p .. c - 1 : f[k] = NaN) => m = j
  <2>1. \A k \in p .. c - 1 : important_words[k] \in Int
    BY <1>6, <1>7
  <2> QED
    BY <1>1, <1>6, <1>10, <1>11, <2>1, AverageScanStays
<1>13. \A k \in p .. c - 1 : k \in 0 .. c - 1 /\ f[k] \in Int
  BY <1>7
<1>14. /\ \A k \in m + 1 .. c - 1 : f[k] <= f[p]
       /\ m = p \/ f[m] >= f[p]
  <2>1. CASE EmptyText
    <3>1. \A k \in p .. c - 1 : f[k] = NaN
      BY <1>7, <2>1, <1>13
    <3> QED
      BY <1>13, <3>1
  <2>2. CASE ~EmptyText
    <3>1. /\ \A k \in m + 1 .. j : f[k] <= f[p]
          /\ m = p \/ f[m] > f[p]
      BY <1>7, <1>12, <1>13, <2>2
    <3>2. f[m] \in Int /\ f[p] \in Int
      BY <1>13
    <3> QED
      BY <1>10, <3>1, <3>2
  <2> QED
    BY <2>1, <2>2
<1>15. PICK g : g = important_words'
  OBVIOUS
<1>16. CASE m = p
  <2>1. g = f /\ wordVec' = wordVec
    BY <1>1, <1>6, <1>12, <1>15, <1>16 DEF Frame
  <2>2. FirstSort(g, c, calls', frame', p)
    BY <1>1, <1>9, <1>12, <1>14, <2>1 DEF FirstSort
  <2>3. ~(EmptyText /\ c > 1)
    <3>1. SUFFICES ASSUME EmptyText, c > 1 PROVE FALSE
      OBVIOUS
    <3>2. \A k \in p .. c - 1 : f[k] = NaN
      BY <1>7, <1>13, <3>1
    <3> QED
      BY <1>11, <1>12, <1>16, <3>2
  <2>4. AveragesOK'
    BY <1>1, <1>2, <1>5, <1>6, <1>15, <2>1, <2>2, <2>3 DEF SInv, AveragesOK
  <2> QED
    BY <1>2, <1>3, <1>4, <2>4 DEF SInv
<1>17. CASE m # p
  <2>1. g = Swap(f, p, m) /\ wordVec' = Swap(wordVec, p, m)
    BY <1>1, <1>6, <1>12, <1>15, <1>17 DEF Frame
  <2>2. p \in 0 .. c - 1 /\ m \in 0 .. c - 1 /\ p \in p .. c - 1 /\ m \in p .. c - 1
    BY <1>9
  <2>3. Numbers(wordVec, c, c)
    BY <1>1, <1>5 DEF SInv, AveragesOK
  <2>4. Numbers(wordVec', c, c)
    BY <2>1, <2>2, <2>3, SwapNumbers
  <2>5. /\ g \in [0 .. c - 1 -> Int]
        /\ \A k \in 0 .. c - 1 : g[k] = IF k = p THEN f[m] ELSE IF k = m THEN f[p] ELSE f[k]
    BY <1>7, <2>1, <2>2 DEF Swap
  <2>6. \A k \in 0 .. c - 1 :
          wordVec'[k] = IF k = p THEN wordVec[m] ELSE IF k = m THEN wordVec[p] ELSE wordVec[k]
    BY <2>1, <2>2, <2>3 DEF Swap, Numbers
  <2>7. \A k \in 0 .. c - 1 : g[k] = ColumnAverage(wordVec'[k])
    BY <1>7, <2>2, <2>5, <2>6
  <2>8. g = [k \in 0 .. c - 1 |-> ColumnAverage(wordVec'[k])]
    BY <2>5, <2>7
  <2>9. Descends(g, c, p)
    BY <1>7, <1>9, <2>1, <2>2, SwapDescends
  <2>10. \A k \in m + 1 .. c - 1 : g[k] <= g[p]
    <3> TAKE k \in m + 1 .. c - 1
    <3>1. k \in 0 .. c - 1 /\ k # p /\ k # m
      OBVIOUS
    <3>2. g[k] = f[k] /\ g[p] = f[m] /\ f[k] <= f[p] /\ f[p] <= f[m]
      BY <1>14, <1>17, <2>2, <2>5, <3>1
    <3>3. f[k] \in Int /\ f[p] \in Int /\ f[m] \in Int
      BY <1>7, <2>2, <3>1
    <3> QED
      BY <3>2, <3>3
  <2>11. FirstSort(g, c, calls', frame', p)
    BY <1>1, <1>9, <1>12, <2>2, <2>9, <2>10 DEF FirstSort
  <2>12. ASSUME EmptyText, c > 1 PROVE Stuck(c, calls', frame')
    <3>1. Stuck(c, calls, frame)
      BY <1>1, <1>5, <2>12 DEF SInv, AveragesOK
    <3>2. frame = Frame(0, c - 1, 0, c - 1)
      BY <1>1, <3>1 DEF Stuck
    <3>3. p = 0 /\ j = c - 1
      BY <1>10, <3>2 DEF Frame
    <3>4. m = j
      BY <1>7, <1>12, <1>13, <2>12
    <3> QED
      BY <1>1, <1>9, <1>12, <3>3, <3>4 DEF Stuck
  <2>13. AveragesOK'
    <3>2. important_words' = [k \in 0 .. c - 1 |-> ColumnAverage(wordVec[k])']
      BY <1>1, <1>15, <2>8 DEF ColumnAverage
    <3> QED
      BY <1>1, <1>2, <1>5, <1>15, <2>4, <3>2, <2>11, <2>12 DEF AveragesOK
  <2> QED
    BY <1>2, <1>3, <1>4, <2>13 DEF SInv
<1> QED
  BY <1>16, <1>17

\* An exchange of an element with itself.
LEMMA SwapSame ==
  ASSUME NEW D, NEW R, NEW f \in [D -> R], NEW i \in D
  PROVE  Swap(f, i, i) = f
BY DEF Swap

\* The end of a call: the pivot is in place, and what is after it waits.
LEMMA PlaceAverageStep == ASSUME SInv, PlaceAverage PROVE SInv'
<1>1. /\ phase = "average" /\ phase' = phase /\ frame # NoFrame /\ frame.i >= frame.j
      /\ frame' = NoFrame /\ UNCHANGED parseVars /\ tfarr' = tfarr /\ tfarr_mini' = tfarr_mini
      /\ important_words' = Swap(important_words, frame.first, frame.j)
      /\ wordVec' = Swap(wordVec, frame.first, frame.j)
      /\ calls' = <<<<frame.first, frame.j - 1>>, <<frame.j + 1, frame.last>>>> \o calls
  BY DEF PlaceAverage, Halves
<1>2. /\ WInv' /\ AllRead' = AllRead /\ EmptyText' = EmptyText /\ word_counter' = word_counter
      /\ pc' = pc /\ \A n : ColumnAverage(n)' = ColumnAverage(n)
      /\ compute_tf_idf' = compute_tf_idf
  BY <1>1, SortRests DEF SInv
<1>3. PhasesOK'
  BY <1>1, <1>2 DEF SInv, PhasesOK
<1>4. IndicesOK'
  BY <1>1 DEF IndicesOK
<1>5. PICK c \in Nat : c = word_counter
  BY NumbersOfWords DEF SInv
<1>6. PICK f : f = important_words
  OBVIOUS
<1>7. f \in [0 .. c - 1 -> Int] /\ Numbers(wordVec, c, c)
  BY <1>1, <1>5, <1>6, AveragesAt DEF SInv, AveragesOK
<1>8. PICK p \in 0 .. c : FirstSort(f, c, calls, frame, p)
  BY <1>1, <1>5, <1>6 DEF SInv, AveragesOK
<1>9. PICK j \in p .. c - 1 : /\ Descends(f, c, p) /\ calls = <<>> /\ p < c - 1
                              /\ frame = Frame(p, c - 1, p, j)
                              /\ \A k \in j + 1 .. c - 1 : f[k] <= f[p]
  BY <1>1, <1>8, RunningCall
<1>10. j = p
  BY <1>1, <1>9 DEF Frame
<1>11. p \in 0 .. c - 1
  BY <1>9
<1>12. important_words' = f /\ wordVec' = wordVec
  <2>1. important_words' = Swap(f, p, p) /\ wordVec' = Swap(wordVec, p, p)
    BY <1>1, <1>6, <1>9, <1>10 DEF Frame
  <2>2. wordVec \in [0 .. c - 1 -> 0 .. c - 1]
    BY <1>7 DEF Numbers
  <2> QED
    BY <1>7, <1>11, <2>1, <2>2, SwapSame
<1>13. calls' = <<<<p, p - 1>>, <<p + 1, c - 1>>>>
  BY <1>1, <1>9, <1>10 DEF Frame
<1>14. Descends(f, c, p + 1)
  <2> SUFFICES ASSUME NEW a \in 0 .. c - 1, NEW b \in 0 .. c - 1, a < b, a < p + 1
               PROVE  f[a] >= f[b]
    BY DEF Descends
  <2>1. CASE a < p
    BY <1>9, <2>1 DEF Descends
  <2>2. CASE a = p
    BY <1>7, <1>9, <1>10, <2>2
  <2> QED
    BY <2>1, <2>2
<1>15. FirstSort(f, c, calls', frame', p + 1)
  <2>1. PICK r \in Nat : r = p + 1 /\ p = r - 1 /\ p - 1 = r - 2 /\ r > 0
    BY <1>11
  <2>2. calls' = <<<<r - 1, r - 2>>, <<r, c - 1>>>> /\ Descends(f, c, r)
    BY <1>13, <1>14, <2>1
  <2>3. FirstSort(f, c, calls', frame', r)
    BY <1>1, <2>1, <2>2 DEF FirstSort
  <2> QED
    BY <2>1, <2>3
<1>16. ~(EmptyText /\ c > 1)
  <2>1. SUFFICES ASSUME EmptyText, c > 1 PROVE FALSE
    OBVIOUS
  <2>2. Stuck(c, calls, frame)
    BY <1>1, <1>5, <2>1 DEF SInv, AveragesOK
  <2>3. frame = Frame(0, c - 1, 0, c - 1)
    BY <1>1, <2>2 DEF Stuck
  <2> QED
    BY <1>1, <2>1, <2>3 DEF Frame
<1>17. AveragesOK'
  <2>1. p + 1 \in 0 .. c
    BY <1>11
  <2> QED
    BY <1>1, <1>2, <1>5, <1>6, <1>12, <1>15, <1>16, <2>1 DEF SInv, AveragesOK
<1> QED
  BY <1>2, <1>3, <1>4, <1>17 DEF SInv

\* In the end all positions are in place.
LEMMA FirstSortEnds ==
  ASSUME NEW f, NEW c \in Nat, NEW p \in 0 .. c, NEW fr, fr = NoFrame,
         FirstSort(f, c, <<>>, fr, p)
  PROVE  Descends(f, c, c)
<1>1. << <<p, c - 1>> >> # <<>> /\ <<<<p - 1, p - 2>>, <<p, c - 1>>>> # <<>>
  OBVIOUS
<1>2. \A j : Frame(p, c - 1, p, j) # NoFrame
  BY DEF Frame, NoFrame
<1> QED
  BY <1>1, <1>2 DEF FirstSort

\* Different numbers below c fill the numbers below c if there are c of them.
LEMMA NumbersFill ==
  ASSUME NEW c \in Nat, NEW f, Numbers(f, c, c), NEW n \in 0 .. c - 1
  PROVE  \E k \in 0 .. c - 1 : f[k] = n
<1>1. f \in Injection(0 .. c - 1, 0 .. c - 1)
  BY DEF Numbers, Injection, IsInjective
<1>2. IsFiniteSet(0 .. c - 1)
  BY FS_Interval
<1>3. f \in Surjection(0 .. c - 1, 0 .. c - 1)
  BY <1>1, <1>2, FS_Injection
<1> QED
  BY <1>3 DEF Surjection

\* The first numbers become the chosen ones, and a call for all of them waits.
LEMMA CropVectorStep == ASSUME SInv, CropVector PROVE SInv'
<1>1. /\ phase = "average" /\ frame = NoFrame /\ calls = <<>> /\ frame' = frame
      /\ UNCHANGED parseVars /\ tfarr' = tfarr /\ important_words' = important_words
      /\ IF ImpWords <= idf_vec.size
           THEN /\ wordVec' = [k \in 0 .. ImpWords - 1 |-> wordVec[k]]
                /\ calls' = << <<0, ImpWords - 1>> >> /\ phase' = "indices"
           ELSE phase' = "out of bounds" /\ calls' = calls
  BY DEF CropVector
<1>2. /\ WInv' /\ AllRead' = AllRead /\ EmptyText' = EmptyText /\ word_counter' = word_counter
      /\ pc' = pc /\ \A n : ColumnAverage(n)' = ColumnAverage(n)
      /\ compute_tf_idf' = compute_tf_idf
  BY <1>1, SortRests DEF SInv
<1>3. PICK c \in Nat : c = word_counter /\ c = idf_vec.size
  BY NumbersOfWords DEF SInv
<1>4. ~(EmptyText /\ c > 1)
  <2>1. SUFFICES ASSUME EmptyText, c > 1 PROVE FALSE
    OBVIOUS
  <2>2. Stuck(c, calls, frame)
    BY <1>1, <1>3, <2>1 DEF SInv, AveragesOK
  <2> QED
    BY <1>1, <2>2 DEF Stuck, Frame, NoFrame
<1>5. PhasesOK'
  BY <1>1, <1>2, <1>3, <1>4 DEF SInv, PhasesOK
<1>6. AveragesOK'
  BY <1>1 DEF AveragesOK
<1>7. CASE ~(ImpWords <= c)
  <2>1. IndicesOK'
    BY <1>1, <1>3, <1>7 DEF IndicesOK
  <2> QED
    BY <1>2, <1>5, <1>6, <2>1 DEF SInv
<1>8. CASE ImpWords <= c
  <2>1. PICK d \in Nat \ {0} : d = ImpWords
    BY ImportantAssumption
  <2>2. /\ Numbers(wordVec, c, c)
        /\ \A k \in 0 .. c - 1 : important_words[k] = ColumnAverage(wordVec[k])
    BY <1>1, <1>3, AveragesAt DEF SInv, AveragesOK
  <2>3. PICK g : g = wordVec'
    OBVIOUS
  <2>4. g = [k \in 0 .. d - 1 |-> wordVec[k]]
    BY <1>1, <1>3, <1>8, <2>1, <2>3
  <2>5. \A k \in 0 .. d - 1 : k \in 0 .. c - 1
    BY <1>8, <2>1
  <2>6. Numbers(g, d, c)
    BY <2>2, <2>4, <2>5 DEF Numbers
  <2>7. Descends(important_words, c, c)
    BY <1>1, <1>3, FirstSortEnds DEF SInv, AveragesOK
  <2>8. LargestChosen(g, c)
    <3> SUFFICES ASSUME NEW n \in Chosen(g), NEW m \in (0 .. c - 1) \ Chosen(g)
                 PROVE  ColumnAverage(n) >= ColumnAverage(m)
      BY DEF LargestChosen
    <3>1. PICK a \in 0 .. d - 1 : n = wordVec[a]
      BY <2>4 DEF Chosen
    <3>2. PICK b \in 0 .. c - 1 : m = wordVec[b]
      BY <2>2, NumbersFill
    <3>3. b \notin 0 .. d - 1
      BY <2>4, <3>2 DEF Chosen
    <3>4. a < b /\ a \in 0 .. c - 1 /\ b < c /\ a < c
      BY <2>5, <3>3
    <3>5. important_words[a] >= important_words[b]
      BY <2>7, <3>4 DEF Descends
    <3> QED
      BY <2>2, <3>1, <3>2, <3>4, <3>5
  <2>9. /\ calls' = << <<0, d - 1>> >> /\ phase' = "indices" /\ frame' = NoFrame
    BY <1>1, <1>3, <1>8, <2>1
  <2>10. CallsOK(calls', frame', d)
    BY <2>9 DEF CallsOK, Runs
  <2>11. Ordered(g, calls', frame', d)
    BY <2>9 DEF Ordered, Together, Covers
  <2>12. Divided(g, frame', d)
    BY <2>9 DEF Divided
  <2>13. LargestChosen(wordVec, word_counter)'
    <3> SUFFICES ASSUME NEW n \in Chosen(g), NEW m \in (0 .. c - 1) \ Chosen(g)
                 PROVE  ColumnAverage(n)' >= ColumnAverage(m)'
      BY <1>2, <1>3, <2>3 DEF LargestChosen, Chosen
    <3> QED
      BY <1>2, <2>8 DEF LargestChosen
  <2>14. IndicesOK'
    BY <1>2, <1>3, <1>8, <2>1, <2>3, <2>6, <2>10, <2>11, <2>12, <2>13 DEF IndicesOK
  <2> QED
    BY <1>2, <1>5, <1>6, <2>14 DEF SInv
<1> QED
  BY <1>3, <1>7, <1>8

-----------------------------------------------------------------------------
(* The second sort. *)

\* A call that begins goes on covering its positions.
LEMMA CallTaken ==
  ASSUME NEW d \in Nat, NEW cs, cs # <<>>, CallsOK(cs, NoFrame, d),
         NEW fr, fr = IF Head(cs)[1] < Head(cs)[2]
                        THEN Frame(Head(cs)[1], Head(cs)[2], Head(cs)[1], Head(cs)[2])
                        ELSE NoFrame
  PROVE  /\ CallsOK(Tail(cs), fr, d)
         /\ \A f : (\A k \in 0 .. d - 1 : f[k] \in Int) => Divided(f, fr, d)
         /\ \A a, b \in 0 .. d - 1 :
              a < b /\ Together(cs, NoFrame, a, b) => Together(Tail(cs), fr, a, b)
<1>1. cs \in Seq(Nat \X Int) /\ \A n \in DOMAIN cs : cs[n][2] < d
  BY DEF CallsOK
<1>2. PICK p \in Nat, q \in Int : Head(cs) = <<p, q>> /\ cs[1] = <<p, q>>
  BY <1>1
<1>3. 1 \in DOMAIN cs /\ q < d
  BY <1>1, <1>2
<1>4. PICK t : t = Tail(cs)
  OBVIOUS
<1>5. /\ t \in Seq(Nat \X Int)
      /\ \A n \in DOMAIN t : n + 1 \in DOMAIN cs /\ t[n] = cs[n + 1] /\ n + 1 # 1
      /\ \A n \in DOMAIN cs : n # 1 => n - 1 \in DOMAIN t /\ t[n - 1] = cs[n]
  <2>1. /\ t \in Seq(Nat \X Int) /\ Len(t) = Len(cs) - 1
        /\ \A n \in 1 .. Len(t) : t[n] = cs[n + 1]
    BY <1>1, <1>4, HeadTailProperties
  <2>2. DOMAIN cs = 1 .. Len(cs) /\ DOMAIN t = 1 .. Len(t) /\ Len(cs) \in Nat
    BY <1>1, <2>1
  <2>3. \A n \in DOMAIN t : n \in Nat /\ n + 1 \in DOMAIN cs /\ n + 1 # 1
    BY <2>1, <2>2
  <2>4. ASSUME NEW n \in DOMAIN cs, n # 1 PROVE n - 1 \in DOMAIN t /\ t[n - 1] = cs[n]
    <3>1. n - 1 \in 1 .. Len(t) /\ (n - 1) + 1 = n
      BY <2>1, <2>2, <2>4
    <3> QED
      BY <2>1, <2>2, <3>1
  <2> QED
    BY <2>1, <2>2, <2>3, <2>4
<1>6. fr = IF p < q THEN Frame(p, q, p, q) ELSE NoFrame
  BY <1>2
<1>7. \A x : Runs(fr, x) <=> p < q /\ p <= x /\ x <= q
  BY <1>2, <1>6 DEF Runs, Frame, NoFrame
<1>8. \A x : Runs(fr, x) => Covers(cs[1], x)
  BY <1>2, <1>7 DEF Covers
<1>9. \A m, n \in DOMAIN cs : m # n =>
        \A x \in 0 .. d - 1 : ~(Covers(cs[m], x) /\ Covers(cs[n], x))
  BY DEF CallsOK
<1>10. CallsOK(t, fr, d)
  <2>1. \A m, n \in DOMAIN t : m # n =>
          \A x \in 0 .. d - 1 : ~(Covers(t[m], x) /\ Covers(t[n], x))
    <3> SUFFICES ASSUME NEW m \in DOMAIN t, NEW n \in DOMAIN t, m # n
                 PROVE  \A x \in 0 .. d - 1 : ~(Covers(t[m], x) /\ Covers(t[n], x))
      OBVIOUS
    <3>1. m + 1 # n + 1
      BY <1>5
    <3> QED
      BY <1>5, <1>9, <3>1
  <2>2. \A n \in DOMAIN t : \A x \in 0 .. d - 1 : ~(Covers(t[n], x) /\ Runs(fr, x))
    <3> TAKE n \in DOMAIN t
    <3> TAKE x \in 0 .. d - 1
    <3>1. t[n] = cs[n + 1] /\ n + 1 \in DOMAIN cs /\ n + 1 # 1
      BY <1>5
    <3>2. ~(Covers(cs[n + 1], x) /\ Covers(cs[1], x))
      BY <1>3, <1>9, <3>1
    <3> QED
      BY <1>8, <3>1, <3>2
  <2>3. \A n \in DOMAIN t : t[n][2] < d
    BY <1>1, <1>5
  <2> QED
    BY <1>5, <2>1, <2>2, <2>3 DEF CallsOK
<1>11. ASSUME NEW f, \A k \in 0 .. d - 1 : f[k] \in Int PROVE Divided(f, fr, d)
  <2>1. CASE p < q
    <3>1. p \in 0 .. d - 1 /\ q \in 0 .. d - 1 /\ p \in p .. q /\ q \in p .. q
      BY <1>3, <2>1
    <3>2. /\ \A k \in p .. p - 1 : f[k] <= f[p]
          /\ \A k \in q + 1 .. q : f[k] > f[p]
          /\ ~(p >= q) /\ f[p] <= f[p]
      BY <1>11, <2>1, <3>1
    <3> QED
      BY <1>6, <2>1, <3>1, <3>2 DEF Divided
  <2>2. CASE ~(p < q)
    BY <1>6, <2>2 DEF Divided
  <2> QED
    BY <2>1, <2>2
<1>12. ASSUME NEW a \in 0 .. d - 1, NEW b \in 0 .. d - 1, a < b, Together(cs, NoFrame, a, b)
       PROVE  Together(t, fr, a, b)
  <2>1. PICK n \in DOMAIN cs : Covers(cs[n], a) /\ Covers(cs[n], b)
    BY <1>12 DEF Together, Runs
  <2>2. CASE n = 1
    <3>1. p <= a /\ b <= q /\ p <= b /\ a <= q /\ p < q
      BY <1>2, <1>12, <2>1, <2>2 DEF Covers
    <3> QED
      BY <1>7, <3>1 DEF Together
  <2>3. CASE n # 1
    BY <1>5, <2>1, <2>3 DEF Together
  <2> QED
    BY <2>2, <2>3
<1> QED
  BY <1>4, <1>10, <1>11, <1>12

\* An exchange in the call that runs keeps the order of what is in no call together.
LEMMA SwapOrdered ==
  ASSUME NEW d \in Nat, NEW c, NEW f, Numbers(f, d, c), NEW cs, NEW fr, CallsOK(cs, fr, d),
         Ordered(f, cs, fr, d), NEW i \in 0 .. d - 1, NEW j \in 0 .. d - 1,
         Runs(fr, i), Runs(fr, j), fr.first \in Nat, fr.last \in Nat,
         NEW g, g = Swap(f, i, j)
  PROVE  Ordered(g, cs, fr, d)
<1>1. \A k \in 0 .. d - 1 : g[k] = IF k = i THEN f[j] ELSE IF k = j THEN f[i] ELSE f[k]
  BY DEF Swap, Numbers
<1>2. \A a, b \in 0 .. d - 1 : Runs(fr, b) /\ ~Runs(fr, a) => ~Together(cs, fr, a, b)
                                                             /\ ~Together(cs, fr, b, a)
  BY DEF CallsOK, Together
<1>3. \A a, b \in 0 .. d - 1 : a < b => f[a] < f[b] \/ Together(cs, fr, a, b)
  BY DEF Ordered
<1> SUFFICES ASSUME NEW a \in 0 .. d - 1, NEW b \in 0 .. d - 1, a < b, ~Together(cs, fr, a, b)
             PROVE  g[a] < g[b]
  BY DEF Ordered
<1>4. ~(Runs(fr, a) /\ Runs(fr, b))
  BY DEF Together
<1>5. CASE ~Runs(fr, a) /\ ~Runs(fr, b)
  BY <1>1, <1>3, <1>5
<1>6. CASE ~Runs(fr, a) /\ Runs(fr, b)
  <2>1. g[a] = f[a]
    BY <1>1, <1>6
  <2>2. \A x \in 0 .. d - 1 : Runs(fr, x) => a < x
    BY <1>6 DEF Runs
  <2>3. \A x \in 0 .. d - 1 : Runs(fr, x) => f[a] < f[x]
    BY <1>2, <1>3, <1>6, <2>2
  <2>4. \E x \in {i, j, b} : g[b] = f[x]
    BY <1>1
  <2> QED
    BY <1>6, <2>1, <2>3, <2>4
<1>7. CASE Runs(fr, a) /\ ~Runs(fr, b)
  <2>1. g[b] = f[b]
    BY <1>1, <1>7
  <2>2. \A x \in 0 .. d - 1 : Runs(fr, x) => x < b
    BY <1>7 DEF Runs
  <2>3. \A x \in 0 .. d - 1 : Runs(fr, x) => f[x] < f[b]
    BY <1>2, <1>3, <1>7, <2>2
  <2>4. \E x \in {i, j, a} : g[a] = f[x]
    BY <1>1
  <2> QED
    BY <1>7, <2>1, <2>3, <2>4
<1> QED
  BY <1>4, <1>5, <1>6, <1>7

\* A call of the second sort begins, or is over at once.
LEMMA CallIndicesStep == ASSUME SInv, Call("indices") PROVE SInv'
<1>1. /\ phase = "indices" /\ phase' = phase /\ frame = NoFrame /\ calls # <<>>
      /\ calls' = Tail(calls) /\ UNCHANGED parseVars /\ tfarr' = tfarr
      /\ wordVec' = wordVec
      /\ frame' = IF Head(calls)[1] < Head(calls)[2]
                    THEN Frame(Head(calls)[1], Head(calls)[2], Head(calls)[1], Head(calls)[2])
                    ELSE NoFrame
  BY DEF Call, Frame
<1>2. /\ WInv' /\ AllRead' = AllRead /\ EmptyText' = EmptyText /\ word_counter' = word_counter
      /\ pc' = pc /\ \A n : ColumnAverage(n)' = ColumnAverage(n)
      /\ compute_tf_idf' = compute_tf_idf
  BY <1>1, SortRests DEF SInv
<1>3. PhasesOK'
  BY <1>1, <1>2 DEF SInv, PhasesOK
<1>4. AveragesOK'
  BY <1>1 DEF AveragesOK
<1>5. PICK d \in Nat : d = ImpWords
  BY ImportantAssumption
<1>6. /\ d <= word_counter /\ Numbers(wordVec, d, word_counter)
      /\ LargestChosen(wordVec, word_counter) /\ CallsOK(calls, NoFrame, d)
      /\ Ordered(wordVec, calls, NoFrame, d)
  BY <1>1, <1>5 DEF SInv, IndicesOK
<1>7. /\ CallsOK(calls', frame', d) /\ Divided(wordVec, frame', d)
      /\ \A a, b \in 0 .. d - 1 :
           a < b /\ Together(calls, NoFrame, a, b) => Together(calls', frame', a, b)
  <2>1. \A k \in 0 .. d - 1 : wordVec[k] \in Int
    BY <1>6 DEF Numbers
  <2> QED
    BY <1>1, <1>6, <2>1, CallTaken
<1>8. Ordered(wordVec, calls', frame', d)
  BY <1>6, <1>7 DEF Ordered
<1>9. LargestChosen(wordVec, word_counter)'
  BY <1>1, <1>2, <1>6 DEF LargestChosen
<1>10. IndicesOK'
  BY <1>1, <1>2, <1>5, <1>6, <1>7, <1>8, <1>9 DEF IndicesOK
<1> QED
  BY <1>2, <1>3, <1>4, <1>10 DEF SInv

\* A call that runs, and what it has done.
LEMMA RunningIndices ==
  ASSUME SInv, phase = "indices", frame # NoFrame, NEW d, d = ImpWords
  PROVE  /\ d \in Nat /\ d <= word_counter /\ Numbers(wordVec, d, word_counter)
         /\ LargestChosen(wordVec, word_counter) /\ CallsOK(calls, frame, d)
         /\ Ordered(wordVec, calls, frame, d)
         /\ \E p \in 0 .. d - 1, q \in 0 .. d - 1 : \E i \in p .. q, j \in p .. q :
              /\ p < q /\ frame = Frame(p, q, i, j)
              /\ \A k \in p .. i - 1 : wordVec[k] <= wordVec[p]
              /\ \A k \in j + 1 .. q : wordVec[k] > wordVec[p]
              /\ i >= j => wordVec[j] <= wordVec[p]
              /\ i < j => wordVec[i] <= wordVec[p]
<1>1. d \in Nat
  BY ImportantAssumption
<1>2. Divided(wordVec, frame, d)
  BY DEF SInv, IndicesOK
<1> QED
  BY <1>1, <1>2 DEF SInv, IndicesOK, Divided

\* What a frame of the same ends does not change.
LEMMA SameEnds ==
  ASSUME NEW cs, NEW d, NEW f, NEW p \in Nat, NEW q, NEW i, NEW j, NEW l, NEW m, NEW fr, NEW gr,
         fr = Frame(p, q, i, j), gr = Frame(p, q, l, m), i \in Nat, l \in Nat
  PROVE  /\ CallsOK(cs, fr, d) => CallsOK(cs, gr, d)
         /\ Ordered(f, cs, fr, d) => Ordered(f, cs, gr, d)
<1>1. fr # NoFrame /\ gr # NoFrame
  BY DEF Frame, NoFrame
<1>2. \A x : Runs(fr, x) <=> Runs(gr, x)
  BY <1>1 DEF Runs, Frame
<1>3. CallsOK(cs, fr, d) => CallsOK(cs, gr, d)
  BY <1>2 DEF CallsOK
<1>4. \A a, b : Together(cs, fr, a, b) => Together(cs, gr, a, b)
  BY <1>2 DEF Together
<1> QED
  BY <1>3, <1>4 DEF Ordered

\* A round of the loop: what is on the wrong side changes sides.
LEMMA ExchangeIndicesStep == ASSUME SInv, ExchangeIndices PROVE SInv'
<1>1. /\ phase = "indices" /\ phase' = phase /\ frame # NoFrame /\ frame.i < frame.j
      /\ frame' = IndexScan /\ calls' = calls
      /\ UNCHANGED parseVars /\ tfarr' = tfarr
      /\ wordVec' = IF frame'.i < frame'.j THEN Swap(wordVec, frame'.i, frame'.j) ELSE wordVec
  BY DEF ExchangeIndices
<1>2. /\ WInv' /\ AllRead' = AllRead /\ EmptyText' = EmptyText /\ word_counter' = word_counter
      /\ pc' = pc /\ \A n : ColumnAverage(n)' = ColumnAverage(n)
      /\ compute_tf_idf' = compute_tf_idf
  BY <1>1, SortRests DEF SInv
<1>3. PhasesOK'
  BY <1>1, <1>2 DEF SInv, PhasesOK
<1>4. AveragesOK'
  BY <1>1 DEF AveragesOK
<1>5. PICK d \in Nat : d = ImpWords
  BY ImportantAssumption
<1>6. PICK f : f = wordVec
  OBVIOUS
<1>7. PICK c \in Nat : c = word_counter
  BY NumbersOfWords DEF SInv
<1>8. /\ d <= c /\ Numbers(f, d, c) /\ LargestChosen(f, c)
      /\ CallsOK(calls, frame, d) /\ Ordered(f, calls, frame, d)
  BY <1>1, <1>5, <1>6, <1>7, RunningIndices
<1>9. PICK p \in 0 .. d - 1, q \in 0 .. d - 1 : \E i \in p .. q, j \in p .. q :
        /\ p < q /\ frame = Frame(p, q, i, j)
        /\ \A k \in p .. i - 1 : f[k] <= f[p]
        /\ \A k \in j + 1 .. q : f[k] > f[p]
  BY <1>1, <1>5, <1>6, RunningIndices
<1>10. PICK i \in p .. q, j \in p .. q :
        /\ p < q /\ frame = Frame(p, q, i, j)
        /\ \A k \in p .. i - 1 : f[k] <= f[p]
        /\ \A k \in j + 1 .. q : f[k] > f[p]
  BY <1>9
<1>11. i < j /\ p \in Nat /\ q \in Nat
  BY <1>1, <1>10 DEF Frame
<1>12. \A k \in p .. q : k \in 0 .. d - 1 /\ f[k] \in Int
  BY <1>8 DEF Numbers
<1>13. PICK l \in p + 1 .. q, m \in p .. j :
         /\ i <= l
         /\ frame' = Frame(p, q, l, m)
         /\ \A k \in p .. l - 1 : f[k] <= f[p]
         /\ \A k \in m + 1 .. q : f[k] > f[p]
         /\ l = q \/ f[l] > f[p]
         /\ f[m] <= f[p]
  BY <1>1, <1>6, <1>10, <1>11, <1>12, IndexScanDivides
<1>14. l \in p .. q /\ m \in p .. q /\ l \in Nat /\ m \in Nat /\ i \in Nat
  BY <1>11
<1>15. CallsOK(calls', frame', d) /\ Ordered(f, calls', frame', d)
  BY <1>1, <1>8, <1>10, <1>11, <1>13, <1>14, SameEnds
<1>16. PICK g : g = wordVec'
  OBVIOUS
<1>20. frame'.i = l /\ frame'.j = m
  BY <1>13 DEF Frame
<1>17. Numbers(g, d, c) /\ Chosen(g) = Chosen(f) /\ Ordered(g, calls', frame', d)
       /\ Divided(g, frame', d)
  <2>1. CASE l < m
    <3>1. g = Swap(f, l, m) /\ l \in 0 .. d - 1 /\ m \in 0 .. d - 1
      <4>1. g = Swap(f, l, m)
        BY <1>1, <1>6, <1>16, <1>20, <2>1
      <4> QED
        BY <1>12, <1>14, <4>1
    <3>2. Numbers(g, d, c) /\ Chosen(g) = Chosen(f)
      BY <1>8, <3>1, SwapNumbers
    <3>3. /\ Runs(frame', l) /\ Runs(frame', m)
          /\ frame'.first \in Nat /\ frame'.last \in Nat
      BY <1>11, <1>13, <1>14 DEF Runs, Frame, NoFrame
    <3>4. Ordered(g, calls', frame', d)
      BY <1>8, <1>15, <3>1, <3>3, SwapOrdered
    <3>5. \A k \in p .. q : g[k] = IF k = l THEN f[m] ELSE IF k = m THEN f[l] ELSE f[k]
      BY <1>8, <1>12, <3>1 DEF Swap, Numbers
    <3>6. g[p] = f[p]
      BY <1>10, <1>13, <2>1, <3>5
    <3>7. \A k \in p .. l - 1 : g[k] <= g[p]
      BY <1>13, <1>14, <2>1, <3>5, <3>6
    <3>8. \A k \in m + 1 .. q : g[k] > g[p]
      BY <1>13, <1>14, <2>1, <3>5, <3>6
    <3>9. g[l] <= g[p]
      BY <1>12, <1>13, <1>14, <3>5, <3>6
    <3>10. Divided(g, frame', d)
      BY <1>10, <1>13, <1>14, <2>1, <3>7, <3>8, <3>9 DEF Divided
    <3> QED
      BY <3>2, <3>4, <3>10
  <2>2. CASE ~(l < m)
    <3>1. g = f
      BY <1>1, <1>6, <1>16, <1>20, <2>2
    <3>2. Divided(g, frame', d)
      BY <1>10, <1>13, <1>14, <2>2, <3>1 DEF Divided
    <3> QED
      BY <1>8, <1>15, <3>1, <3>2
  <2> QED
    BY <2>1, <2>2
<1>18. LargestChosen(wordVec, word_counter)'
  <2> SUFFICES ASSUME NEW n \in Chosen(f), NEW o \in (0 .. c - 1) \ Chosen(f)
               PROVE  ColumnAverage(n)' >= ColumnAverage(o)'
    BY <1>2, <1>7, <1>16, <1>17 DEF LargestChosen, Chosen
  <2> QED
    BY <1>2, <1>8 DEF LargestChosen
<1>19. IndicesOK'
  BY <1>2, <1>5, <1>7, <1>8, <1>15, <1>16, <1>17, <1>18 DEF IndicesOK
<1> QED
  BY <1>2, <1>3, <1>4, <1>19 DEF SInv

\* Two calls before the others.
InFront(t, x, y, cs) ==
  /\ {1, 2} \subseteq DOMAIN t /\ t[1] = x /\ t[2] = y
  /\ \A n \in DOMAIN t : /\ n \in Nat
                         /\ n # 1 /\ n # 2 => n - 2 \in DOMAIN cs /\ t[n] = cs[n - 2]
  /\ \A n \in DOMAIN cs : n + 2 \in DOMAIN t /\ t[n + 2] = cs[n]
\* They are put there by Halves.
LEMMA TwoInFront ==
  ASSUME NEW S, NEW x \in S, NEW y \in S, NEW cs \in Seq(S), NEW t, t = <<x, y>> \o cs
  PROVE  t \in Seq(S) /\ InFront(t, x, y, cs)
<1>1. <<x, y>> \in Seq(S) /\ Len(<<x, y>>) = 2 /\ <<x, y>>[1] = x /\ <<x, y>>[2] = y
  OBVIOUS
<1>2. /\ t \in Seq(S) /\ Len(t) = 2 + Len(cs)
      /\ \A n \in 1 .. 2 + Len(cs) : t[n] = IF n <= 2 THEN <<x, y>>[n] ELSE cs[n - 2]
  BY <1>1, ConcatProperties
<1>3. Len(cs) \in Nat /\ DOMAIN cs = 1 .. Len(cs) /\ DOMAIN t = 1 .. Len(t)
  BY <1>2
<1>4. 1 \in 1 .. 2 + Len(cs) /\ 2 \in 1 .. 2 + Len(cs)
  BY <1>3
<1>5. ASSUME NEW n \in DOMAIN t, n # 1, n # 2 PROVE n - 2 \in DOMAIN cs /\ t[n] = cs[n - 2]
  BY <1>2, <1>3, <1>5
<1>6. ASSUME NEW n \in DOMAIN cs PROVE n + 2 \in DOMAIN t /\ t[n + 2] = cs[n]
  <2>1. n + 2 \in 1 .. 2 + Len(cs) /\ ~(n + 2 <= 2) /\ (n + 2) - 2 = n
    BY <1>3
  <2> QED
    BY <1>2, <1>3, <2>1
<1>7. \A n \in DOMAIN t : n \in Nat
  BY <1>2, <1>3
<1>8. {1, 2} \subseteq DOMAIN t /\ t[1] = x /\ t[2] = y
  BY <1>1, <1>2, <1>3, <1>4
<1> QED
  BY <1>2, <1>5, <1>6, <1>7, <1>8 DEF InFront

\* A call is split at the place of its pivot.
LEMMA SplitCall ==
  ASSUME NEW d \in Nat, NEW cs, NEW p \in Nat, NEW q \in Nat, NEW m \in p .. q, q < d,
         NEW fr, fr # NoFrame, fr.first = p, fr.last = q, CallsOK(cs, fr, d),
         NEW t \in Seq(Nat \X Int), InFront(t, <<p, m - 1>>, <<m + 1, q>>, cs)
  PROVE  /\ CallsOK(t, NoFrame, d)
         /\ \A a, b \in 0 .. d - 1 :
              a < b /\ Together(cs, fr, a, b) =>
                \/ Together(t, NoFrame, a, b)
                \/ p <= a /\ a <= m /\ m <= b /\ b <= q
<1>1. cs \in Seq(Nat \X Int) /\ \A n \in DOMAIN cs : cs[n][2] < d
  BY DEF CallsOK
<1>3. /\ {1, 2} \subseteq DOMAIN t
      /\ t[1] = <<p, m - 1>> /\ t[2] = <<m + 1, q>>
      /\ \A n \in DOMAIN t : /\ n \in Nat
                             /\ n # 1 /\ n # 2 => n - 2 \in DOMAIN cs /\ t[n] = cs[n - 2]
      /\ \A n \in DOMAIN cs : n + 2 \in DOMAIN t /\ t[n + 2] = cs[n]
  BY DEF InFront
<1>4. \A x \in 0 .. d - 1 : Runs(fr, x) <=> p <= x /\ x <= q
  BY DEF Runs
<1>5. \A x \in 0 .. d - 1 : Covers(t[1], x) <=> p <= x /\ x <= m - 1
  BY <1>3 DEF Covers
<1>13. \A x \in 0 .. d - 1 : Covers(t[2], x) <=> m + 1 <= x /\ x <= q
  BY <1>3 DEF Covers
<1>6. \A x \in 0 .. d - 1 : /\ ~(Covers(t[1], x) /\ Covers(t[2], x))
                            /\ Covers(t[1], x) \/ Covers(t[2], x) => Runs(fr, x)
  <2> TAKE x \in 0 .. d - 1
  <2>1. /\ Runs(fr, x) <=> p <= x /\ x <= q
        /\ Covers(t[1], x) <=> p <= x /\ x <= m - 1
        /\ Covers(t[2], x) <=> m + 1 <= x /\ x <= q
    BY <1>4, <1>5, <1>13
  <2> QED
    BY <2>1
<1>7. \A n \in DOMAIN cs, x \in 0 .. d - 1 : ~(Covers(cs[n], x) /\ Runs(fr, x))
  BY DEF CallsOK
<1>8. \A n, l \in DOMAIN cs : n # l =>
        \A x \in 0 .. d - 1 : ~(Covers(cs[n], x) /\ Covers(cs[l], x))
  BY DEF CallsOK
<1>9. \A n, l \in DOMAIN t : n # l =>
        \A x \in 0 .. d - 1 : ~(Covers(t[n], x) /\ Covers(t[l], x))
  <2> TAKE n, l \in DOMAIN t
  <2> HAVE n # l
  <2> TAKE x \in 0 .. d - 1
  <2>1. CASE n \in {1, 2} /\ l \in {1, 2}
    <3>1. (n = 1 /\ l = 2) \/ (n = 2 /\ l = 1)
      BY <2>1
    <3> QED
      BY <1>6, <3>1
  <2>2. CASE n \in {1, 2} /\ l \notin {1, 2}
    <3>1. Covers(t[n], x) => Runs(fr, x)
      BY <1>6, <2>2
    <3>2. l - 2 \in DOMAIN cs /\ t[l] = cs[l - 2]
      BY <1>3, <2>2
    <3> QED
      BY <1>7, <3>1, <3>2
  <2>3. CASE n \notin {1, 2} /\ l \in {1, 2}
    <3>1. Covers(t[l], x) => Runs(fr, x)
      BY <1>6, <2>3
    <3>2. n - 2 \in DOMAIN cs /\ t[n] = cs[n - 2]
      BY <1>3, <2>3
    <3> QED
      BY <1>7, <3>1, <3>2
  <2>4. CASE n \notin {1, 2} /\ l \notin {1, 2}
    <3>1. n - 2 # l - 2
      BY <1>3
    <3>2. /\ n - 2 \in DOMAIN cs /\ t[n] = cs[n - 2]
          /\ l - 2 \in DOMAIN cs /\ t[l] = cs[l - 2]
      BY <1>3, <2>4
    <3> QED
      BY <1>8, <3>1, <3>2
  <2> QED
    BY <2>1, <2>2, <2>3, <2>4
<1>10. \A n \in DOMAIN t : t[n][2] < d
  <2> TAKE n \in DOMAIN t
  <2>1. CASE n = 1
    BY <1>3, <2>1
  <2>2. CASE n = 2
    BY <1>3, <2>2
  <2>3. CASE n # 1 /\ n # 2
    BY <1>1, <1>3, <2>3
  <2> QED
    BY <2>1, <2>2, <2>3
<1>11. CallsOK(t, NoFrame, d)
  <2>1. \A x : ~Runs(NoFrame, x)
    BY DEF Runs
  <2> QED
    BY <1>9, <1>10, <2>1 DEF CallsOK
<1>12. ASSUME NEW a \in 0 .. d - 1, NEW b \in 0 .. d - 1, a < b, Together(cs, fr, a, b),
              ~(p <= a /\ a <= m /\ m <= b /\ b <= q)
       PROVE  Together(t, NoFrame, a, b)
  <2>1. CASE Runs(fr, a) /\ Runs(fr, b)
    <3>1. \/ Covers(t[1], a) /\ Covers(t[1], b)
          \/ Covers(t[2], a) /\ Covers(t[2], b)
      <4>1. p <= a /\ a <= q /\ p <= b /\ b <= q
        BY <1>4, <2>1
      <4>2. b <= m - 1 \/ m + 1 <= a
        BY <1>12, <4>1
      <4>3. /\ b <= m - 1 => a <= m - 1
            /\ m + 1 <= a => m + 1 <= b
        BY <1>12
      <4> QED
        BY <1>5, <1>13, <4>1, <4>2, <4>3
    <3> QED
      BY <1>3, <3>1 DEF Together
  <2>2. CASE ~(Runs(fr, a) /\ Runs(fr, b))
    <3>1. PICK n \in DOMAIN cs : Covers(cs[n], a) /\ Covers(cs[n], b)
      BY <1>12, <2>2 DEF Together
    <3> QED
      BY <1>3, <3>1 DEF Together
  <2> QED
    BY <2>1, <2>2
<1> QED
  BY <1>11, <1>12

\* The end of a call: the pivot comes between what is smaller and what is larger.
LEMMA PlaceIndexStep == ASSUME SInv, PlaceIndex PROVE SInv'
<1>1. /\ phase = "indices" /\ phase' = phase /\ frame # NoFrame /\ frame.i >= frame.j
      /\ frame' = NoFrame /\ UNCHANGED parseVars /\ tfarr' = tfarr
      /\ wordVec' = Swap(wordVec, frame.first, frame.j)
      /\ calls' = <<<<frame.first, frame.j - 1>>, <<frame.j + 1, frame.last>>>> \o calls
  BY DEF PlaceIndex, Halves
<1>2. /\ WInv' /\ AllRead' = AllRead /\ EmptyText' = EmptyText /\ word_counter' = word_counter
      /\ pc' = pc /\ \A n : ColumnAverage(n)' = ColumnAverage(n)
      /\ compute_tf_idf' = compute_tf_idf
  BY <1>1, SortRests DEF SInv
<1>3. PhasesOK'
  BY <1>1, <1>2 DEF SInv, PhasesOK
<1>4. AveragesOK'
  BY <1>1 DEF AveragesOK
<1>5. PICK d \in Nat : d = ImpWords
  BY ImportantAssumption
<1>6. PICK f : f = wordVec
  OBVIOUS
<1>7. PICK c \in Nat : c = word_counter
  BY NumbersOfWords DEF SInv
<1>8. /\ d <= c /\ Numbers(f, d, c) /\ LargestChosen(f, c)
      /\ CallsOK(calls, frame, d) /\ Ordered(f, calls, frame, d)
  BY <1>1, <1>5, <1>6, <1>7, RunningIndices
<1>9. PICK p \in 0 .. d - 1, q \in 0 .. d - 1 : \E i \in p .. q, j \in p .. q :
        /\ p < q /\ frame = Frame(p, q, i, j)
        /\ \A k \in p .. i - 1 : f[k] <= f[p]
        /\ \A k \in j + 1 .. q : f[k] > f[p]
        /\ i >= j => f[j] <= f[p]
  BY <1>1, <1>5, <1>6, RunningIndices
<1>10. PICK i \in p .. q, m \in p .. q :
        /\ p < q /\ frame = Frame(p, q, i, m)
        /\ \A k \in p .. i - 1 : f[k] <= f[p]
        /\ \A k \in m + 1 .. q : f[k] > f[p]
        /\ i >= m => f[m] <= f[p]
  BY <1>9
<1>11. /\ frame.first = p /\ frame.last = q /\ frame.i = i /\ frame.j = m
       /\ p \in Nat /\ q \in Nat /\ i \in Nat /\ m \in Nat /\ q < d
  BY <1>10 DEF Frame
<1>12. PICK g : g = wordVec'
  OBVIOUS
<1>13. g = Swap(f, p, m) /\ p \in 0 .. d - 1 /\ m \in 0 .. d - 1
  BY <1>1, <1>6, <1>11, <1>12
<1>14. Numbers(g, d, c) /\ Chosen(g) = Chosen(f)
  BY <1>8, <1>13, SwapNumbers
<1>15. Ordered(g, calls, frame, d)
  <2>1. Runs(frame, p) /\ Runs(frame, m)
    BY <1>1, <1>11 DEF Runs
  <2> QED
    BY <1>8, <1>11, <1>13, <2>1, SwapOrdered
<1>16. /\ CallsOK(calls', frame', d)
       /\ \A a, b \in 0 .. d - 1 :
            a < b /\ Together(calls, frame, a, b) =>
              \/ Together(calls', frame', a, b)
              \/ p <= a /\ a <= m /\ m <= b /\ b <= q
  <2>1. PICK S : S = Nat \X Int
    OBVIOUS
  <2>2. PICK x \in S, y \in S : x = <<p, m - 1>> /\ y = <<m + 1, q>>
    <3>1. <<p, m - 1>> \in Nat \X Int /\ <<m + 1, q>> \in Nat \X Int
      BY <1>11
    <3> QED
      BY <2>1, <3>1
  <2>3. PICK cs \in Seq(S) : cs = calls
    BY <1>8, <2>1 DEF CallsOK
  <2>4. PICK t : t = <<x, y>> \o cs
    OBVIOUS
  <2>5. t \in Seq(S) /\ InFront(t, x, y, cs)
    BY <2>4, TwoInFront
  <2>6. calls' = t
    BY <1>1, <1>11, <2>2, <2>3, <2>4
  <2>7. calls' \in Seq(Nat \X Int) /\ InFront(calls', <<p, m - 1>>, <<m + 1, q>>, calls)
    BY <2>1, <2>2, <2>3, <2>5, <2>6
  <2>8. frame' = NoFrame /\ m \in p .. q
    BY <1>1
  <2>9. CallsOK(calls, frame, d) /\ frame # NoFrame /\ frame.first = p /\ frame.last = q
    BY <1>1, <1>8, <1>11
  <2>10. PICK ts \in Seq(Nat \X Int) :
           ts = calls' /\ InFront(ts, <<p, m - 1>>, <<m + 1, q>>, calls)
    BY <2>7
  <2>11. /\ CallsOK(ts, NoFrame, d)
         /\ \A a, b \in 0 .. d - 1 :
              a < b /\ Together(calls, frame, a, b) =>
                \/ Together(ts, NoFrame, a, b)
                \/ p <= a /\ a <= m /\ m <= b /\ b <= q
    BY <1>11, <2>8, <2>9, <2>10, SplitCall, ZenonT(60)
  <2> QED
    BY <2>8, <2>10, <2>11
<1>17. ASSUME NEW a \in 0 .. d - 1, NEW b \in 0 .. d - 1, a < b,
              p <= a, a <= m, m <= b, b <= q
       PROVE  g[a] < g[b]
  <2>1. \A k \in 0 .. d - 1 : f[k] \in Int /\ g[k] \in Int
    BY <1>8, <1>14 DEF Numbers
  <2>2. \A k \in 0 .. d - 1 : g[k] = IF k = p THEN f[m] ELSE IF k = m THEN f[p] ELSE f[k]
    BY <1>8, <1>13 DEF Swap, Numbers
  <2>3. f[m] <= f[p] /\ \A k \in p .. m - 1 : f[k] <= f[p]
    BY <1>1, <1>10, <1>11
  <2>4. g[m] = f[p]
    BY <1>13, <2>2
  <2>5. a < m => g[a] <= g[m]
    BY <1>17, <2>2, <2>3, <2>4
  <2>6. a < m => g[a] # g[m]
    BY <1>13, <1>14 DEF Numbers
  <2>7. m < b => g[b] > g[m]
    BY <1>10, <1>17, <2>2, <2>4
  <2> QED
    BY <1>13, <1>17, <2>1, <2>5, <2>6, <2>7
<1>18. Ordered(g, calls', frame', d)
  BY <1>15, <1>16, <1>17 DEF Ordered
<1>19. Divided(g, frame', d)
  BY <1>1 DEF Divided
<1>20. LargestChosen(wordVec, word_counter)'
  <2> SUFFICES ASSUME NEW n \in Chosen(f), NEW o \in (0 .. c - 1) \ Chosen(f)
               PROVE  ColumnAverage(n)' >= ColumnAverage(o)'
    BY <1>2, <1>7, <1>12, <1>14 DEF LargestChosen, Chosen
  <2> QED
    BY <1>2, <1>8 DEF LargestChosen
<1>21. IndicesOK'
  BY <1>2, <1>5, <1>7, <1>8, <1>12, <1>14, <1>16, <1>18, <1>19, <1>20 DEF IndicesOK
<1> QED
  BY <1>2, <1>3, <1>4, <1>21 DEF SInv

\* The columns of the chosen words are copied.
LEMMA SizeDownStep == ASSUME SInv, SizeDown PROVE SInv'
<1>1. /\ phase = "indices" /\ phase' = "done" /\ frame = NoFrame /\ calls = <<>>
      /\ tfarr_mini' = [i \in 0 .. FILES - 1 |->
           [name |-> tfarr[i].name, elements |-> Columns(tfarr[i].elements)]]
      /\ UNCHANGED <<parseVars, tfarr, important_words, wordVec, calls, frame>>
  BY DEF SizeDown
<1>2. /\ WInv' /\ AllRead' = AllRead /\ EmptyText' = EmptyText /\ word_counter' = word_counter
      /\ pc' = pc /\ \A n : ColumnAverage(n)' = ColumnAverage(n)
      /\ compute_tf_idf' = compute_tf_idf
  BY <1>1, SortRests DEF SInv
<1>3. PhasesOK'
  BY <1>1, <1>2 DEF SInv, PhasesOK, Columns
<1>4. AveragesOK'
  BY <1>1 DEF AveragesOK
<1>5. IndicesOK'
  BY <1>1, <1>2 DEF SInv, IndicesOK, LargestChosen
<1> QED
  BY <1>2, <1>3, <1>4, <1>5 DEF SInv

\* Every step.
LEMMA SortSteps == SInv /\ [Next]_vars => SInv'
<1> SUFFICES ASSUME SInv, [Next]_vars PROVE SInv'
  OBVIOUS
<1>1. CASE Parse
  BY <1>1, ParseStep
<1>2. CASE CreateTfFails \/ ComputeTfIdf
  BY <1>2, CreateTfFailsStep, ComputeTfIdfStep
<1>3. CASE Call("average") \/ ExchangeAverages \/ PlaceAverage \/ CropVector
  BY <1>3, CallAverageStep, ExchangeAveragesStep, PlaceAverageStep, CropVectorStep
<1>4. CASE Call("indices") \/ ExchangeIndices \/ PlaceIndex \/ SizeDown
  BY <1>4, CallIndicesStep, ExchangeIndicesStep, PlaceIndexStep, SizeDownStep
<1>5. CASE Done \/ UNCHANGED vars
  BY <1>5, NothingStep DEF Done
<1> QED
  BY <1>1, <1>2, <1>3, <1>4, <1>5 DEF Next, Sort

\* From the first file to the features the two sorts keep, in every behaviour, what
\* they have done so far (main.c:64-103, tf.c, vectorOps.c): numbers stay next to their
\* averages, what is before a call that waits is in place, the calls have no position
\* in common and the words chosen have the largest averages.
THEOREM SortInvariance == Spec => []SInv
<1>1. Init => SInv
  BY InitSorts
<1>2. SInv /\ [Next]_vars => SInv'
  BY SortSteps
<1> QED
  BY <1>1, <1>2, PTL DEF Spec

-----------------------------------------------------------------------------
(* What the sorts promise. *)

\* The numbers during the first sort, and the call that runs.
LEMMA DuringFirstSort ==
  ASSUME SInv, phase = "average", NEW c, c = word_counter, NEW f, f = important_words
  PROVE  /\ c \in Nat /\ Numbers(wordVec, c, c) /\ f \in [0 .. c - 1 -> Int]
         /\ \A k \in 0 .. c - 1 : f[k] = ColumnAverage(wordVec[k])
         /\ \E p \in 0 .. c : FirstSort(f, c, calls, frame, p)
<1>1. c \in Nat
  BY NumbersOfWords DEF SInv
<1> QED
  BY <1>1, AveragesAt DEF SInv, AveragesOK

\* A call of the first sort has found the largest average when it ends.
LEMMA PivotFound == SInv => PivotIsLargest
<1> SUFFICES ASSUME SInv, phase = "average", frame # NoFrame, frame.i >= frame.j
             PROVE  frame.j = frame.first
  BY DEF PivotIsLargest
<1>1. PICK c, f : c = word_counter /\ f = important_words
  OBVIOUS
<1>2. c \in Nat /\ \E p \in 0 .. c : FirstSort(f, c, calls, frame, p)
  BY <1>1, DuringFirstSort
<1>3. PICK p \in 0 .. c : FirstSort(f, c, calls, frame, p)
  BY <1>2
<1>4. PICK j \in p .. c - 1 : /\ frame = Frame(p, c - 1, p, j)
                              /\ \A k \in j + 1 .. c - 1 : f[k] <= f[p]
  <2>1. c \in Nat /\ frame # NoFrame
    BY <1>2
  <2> QED
    BY <1>3, <2>1, RunningCall
<1> QED
  BY <1>4 DEF Frame

\* tf.c:71-80: the first loop of sort_avg_tf_idf never leaves the pivot, so each call
\* places the largest average it is given, whatever the averages are, and leaves the
\* rest to the next call.
THEOREM PivotsAreLargest == Spec => []PivotIsLargest
BY PivotFound, SortInvariance, PTL

\* A sort of averages that are no numbers has not come to its end.
LEMMA NaNStays == SInv => NaNNeverSelected
<1> SUFFICES ASSUME SInv, EmptyText, Cardinality(Seen) > 1 PROVE phase \in {"parse", "average"}
  BY DEF NaNNeverSelected
<1>1. EmptyText /\ word_counter > 1
  BY NumbersOfWords DEF SInv
<1> QED
  BY <1>1 DEF SInv, PhasesOK

\* tf.c:71-87: with a text without words and two words or more no words are ever
\* chosen.
THEOREM NaNChoosesNothing == Spec => []NaNNeverSelected
BY NaNStays, SortInvariance, PTL

\* Numbers and averages stay together.
LEMMA AveragesWithWords == SInv => AveragesStayWithWords
<1> SUFFICES ASSUME SInv, phase = "average"
             PROVE  /\ IsInjective(wordVec) /\ Range(wordVec) = DOMAIN wordVec
                    /\ DOMAIN wordVec = 0 .. Cardinality(Seen) - 1
                    /\ \A k \in DOMAIN wordVec :
                         important_words[k] = Average(WordAt(wordVec[k]))
  BY DEF AveragesStayWithWords
<1>1. PICK c, f : c = word_counter /\ f = important_words
  OBVIOUS
<1>2. PICK v : v = wordVec
  OBVIOUS
<1>3. /\ c \in Nat /\ Numbers(v, c, c)
      /\ \A k \in 0 .. c - 1 : f[k] = ColumnAverage(v[k])
  BY <1>1, <1>2, DuringFirstSort
<1>4. /\ v \in [0 .. c - 1 -> 0 .. c - 1] /\ DOMAIN v = 0 .. c - 1
      /\ \A a, b \in DOMAIN v : v[a] = v[b] => a = b
  BY <1>3 DEF Numbers
<1>5. Cardinality(Seen) = c
  BY <1>1, NumbersOfWords DEF SInv
<1>6. IsInjective(v)
  BY <1>4 DEF IsInjective
<1>7. Range(v) = DOMAIN v
  <2>1. \A n \in 0 .. c - 1 : \E k \in 0 .. c - 1 : v[k] = n
    BY <1>3, NumbersFill
  <2>2. \A k \in 0 .. c - 1 : v[k] \in 0 .. c - 1
    BY <1>4
  <2>3. Range(v) = {v[k] : k \in 0 .. c - 1}
    BY <1>4 DEF Range
  <2> QED
    BY <1>4, <2>1, <2>2, <2>3
<1>8. ASSUME NEW k \in DOMAIN v PROVE f[k] = Average(WordAt(v[k]))
  <2>1. WInv /\ AllRead /\ tfarr = compute_tf_idf
    BY DEF SInv, PhasesOK
  <2>2. v[k] \in 0 .. word_counter - 1
    BY <1>1, <1>4
  <2>3. ColumnAverage(v[k]) = Average(WordAt(v[k]))
    BY <2>1, <2>2, ColumnIsAverage
  <2> QED
    BY <1>3, <1>4, <2>3
<1> QED
  BY <1>1, <1>2, <1>4, <1>5, <1>6, <1>7, <1>8

\* tf.c:62-100: at every moment of the first sort the number next to an average is the
\* one of its word, and no word's number is lost or doubled.
THEOREM AveragesFollowWords == Spec => []AveragesStayWithWords
BY AveragesWithWords, SortInvariance, PTL

\* The calls that wait, and the one that runs.
Pending(cs, fr) == cs \o (IF fr = NoFrame THEN <<>> ELSE << <<fr.first, fr.last>> >>)

\* Positions that are in a call together are in one of those listed as pending.
LEMMA PendingWithin ==
  ASSUME calls \in Seq(Nat \X Int),
         frame # NoFrame => frame.first \in Nat /\ frame.last \in Int,
         NEW t, t = Pending(calls, frame)
  PROVE  \A a, b \in Nat : Together(calls, frame, a, b) =>
           \E n \in DOMAIN t : {a, b} \subseteq t[n][1] .. t[n][2]
<1>1. PICK S : S = Nat \X Int
  OBVIOUS
<1>2. PICK running \in Seq(S) :
        /\ running = IF frame = NoFrame THEN <<>> ELSE << <<frame.first, frame.last>> >>
        /\ frame # NoFrame => /\ Len(running) = 1 /\ running[1] = <<frame.first, frame.last>>
  <2>1. CASE frame = NoFrame
    <3>1. <<>> \in Seq(S)
      OBVIOUS
    <3> QED
      BY <2>1, <3>1
  <2>2. CASE frame # NoFrame
    <3>1. PICK x \in S : x = <<frame.first, frame.last>>
      BY <1>1, <2>2
    <3>2. <<x>> \in Seq(S) /\ Len(<<x>>) = 1 /\ <<x>>[1] = x
      OBVIOUS
    <3> QED
      BY <2>2, <3>1, <3>2
  <2> QED
    BY <2>1, <2>2
<1>3. calls \in Seq(S) /\ t = calls \o running
  BY <1>1, <1>2 DEF Pending
<1>4. /\ t \in Seq(S) /\ Len(t) = Len(calls) + Len(running)
      /\ \A n \in 1 .. Len(calls) + Len(running) :
           t[n] = IF n <= Len(calls) THEN calls[n] ELSE running[n - Len(calls)]
  BY <1>3, ConcatProperties
<1>5. /\ Len(calls) \in Nat /\ DOMAIN calls = 1 .. Len(calls) /\ DOMAIN t = 1 .. Len(t)
      /\ Len(running) \in Nat
  BY <1>3, <1>4
<1> TAKE a, b \in Nat
<1> HAVE Together(calls, frame, a, b)
<1>6. CASE Runs(frame, a) /\ Runs(frame, b)
  <2>1. /\ frame # NoFrame
        /\ frame.first <= a /\ a <= frame.last /\ frame.first <= b /\ b <= frame.last
    BY <1>6 DEF Runs
  <2>2. PICK l \in Nat : l = Len(calls)
    BY <1>5
  <2>3. l + 1 \in 1 .. l + 1 /\ ~(l + 1 <= l) /\ (l + 1) - l = 1
    BY <2>2
  <2>4. l + 1 \in DOMAIN t /\ t[l + 1] = <<frame.first, frame.last>>
    BY <1>2, <1>4, <1>5, <2>1, <2>2, <2>3
  <2>5. {a, b} \subseteq frame.first .. frame.last
    BY <2>1
  <2>6. PICK n \in DOMAIN t : t[n] = <<frame.first, frame.last>>
    BY <2>4
  <2>7. t[n][1] = frame.first /\ t[n][2] = frame.last
    BY <2>6
  <2> QED
    BY <2>5, <2>7
<1>7. CASE \E n \in DOMAIN calls : Covers(calls[n], a) /\ Covers(calls[n], b)
  <2>1. PICK n \in DOMAIN calls : Covers(calls[n], a) /\ Covers(calls[n], b)
    BY <1>7
  <2>2. n \in DOMAIN t /\ t[n] = calls[n]
    BY <1>4, <1>5
  <2>3. calls[n] \in Nat \X Int
    OBVIOUS
  <2>4. {a, b} \subseteq calls[n][1] .. calls[n][2]
    BY <2>1, <2>3 DEF Covers
  <2> QED
    BY <2>2, <2>4
<1> QED
  BY <1>6, <1>7 DEF Together

\* In the first sort all positions after those in place are in one call.
LEMMA FirstSortTogether ==
  ASSUME NEW f, NEW c \in Nat, NEW cs, NEW fr, NEW p \in 0 .. c, FirstSort(f, c, cs, fr, p),
         NEW a \in 0 .. c - 1, NEW b \in 0 .. c - 1, a < b
  PROVE  /\ cs \in Seq(Nat \X Int)
         /\ fr # NoFrame => fr.first \in Nat /\ fr.last \in Int
         /\ f[a] >= f[b] \/ Together(cs, fr, a, b)
<1>1. a < p => f[a] >= f[b]
  BY DEF FirstSort, Descends
<1>2. PICK S : S = Nat \X Int
  OBVIOUS
<1>3. PICK x \in S : x = <<p, c - 1>> /\ x[1] = p /\ x[2] = c - 1
  <2>1. <<p, c - 1>> \in Nat \X Int
    OBVIOUS
  <2> QED
    BY <1>2, <2>1
<1>4. ~(a < p) => Covers(x, a) /\ Covers(x, b)
  BY <1>3 DEF Covers
<1>5. CASE fr = NoFrame /\ cs = << <<p, c - 1>> >>
  <2>1. cs = <<x>>
    BY <1>3, <1>5
  <2>2. cs \in Seq(S) /\ 1 \in DOMAIN cs /\ cs[1] = x
    BY <2>1
  <2> QED
    BY <1>1, <1>2, <1>4, <1>5, <2>2 DEF Together
<1>6. CASE fr = NoFrame /\ p > 0 /\ cs = << <<p - 1, p - 2>>, <<p, c - 1>> >>
  <2>1. PICK y \in S : y = <<p - 1, p - 2>>
    <3>1. <<p - 1, p - 2>> \in Nat \X Int
      BY <1>6
    <3> QED
      BY <1>2, <3>1
  <2>2. cs = <<y, x>>
    BY <1>3, <1>6, <2>1
  <2>3. cs \in Seq(S) /\ 2 \in DOMAIN cs /\ cs[2] = x
    BY <2>2
  <2> QED
    BY <1>1, <1>2, <1>4, <1>6, <2>3 DEF Together
<1>7. CASE fr = NoFrame /\ p = c /\ cs = <<>>
  BY <1>1, <1>7
<1>8. CASE fr # NoFrame
  <2>1. cs = <<>> /\ \E j \in p .. c - 1 : fr = Frame(p, c - 1, p, j)
    BY <1>8 DEF FirstSort
  <2>2. fr.first = p /\ fr.last = c - 1
    BY <2>1 DEF Frame
  <2>3. ~(a < p) => Runs(fr, a) /\ Runs(fr, b)
    BY <1>8, <2>2 DEF Runs
  <2> QED
    BY <1>1, <2>1, <2>2, <2>3 DEF Together
<1>9. \/ fr = NoFrame /\ cs = << <<p, c - 1>> >>
      \/ fr = NoFrame /\ p > 0 /\ cs = << <<p - 1, p - 2>>, <<p, c - 1>> >>
      \/ fr = NoFrame /\ p = c /\ cs = <<>>
      \/ fr # NoFrame
  <2>1. \A j : Frame(p, c - 1, p, j) # NoFrame
    BY DEF Frame, NoFrame
  <2> QED
    BY <2>1 DEF FirstSort
<1> QED
  BY <1>5, <1>6, <1>7, <1>8, <1>9

\* Calls are apart.
LEMMA CallsApart == SInv => CallsAreApart
<1> DEFINE pending == calls \o (IF frame = NoFrame THEN <<>>
                                ELSE << <<frame.first, frame.last>> >>)
<1> SUFFICES ASSUME SInv, phase \in {"average", "indices"}, ~EmptyText,
                    NEW a \in DOMAIN wordVec, NEW b \in DOMAIN wordVec, a < b
             PROVE  \/ IF phase = "average" THEN important_words[a] >= important_words[b]
                       ELSE wordVec[a] < wordVec[b]
                    \/ \E n \in DOMAIN pending :
                         {a, b} \subseteq pending[n][1] .. pending[n][2]
  BY Zenon DEF CallsAreApart
<1>3. ASSUME calls \in Seq(Nat \X Int),
             frame # NoFrame => frame.first \in Nat /\ frame.last \in Int
      PROVE  \A x, y \in Nat : Together(calls, frame, x, y) =>
               \E n \in DOMAIN pending : {x, y} \subseteq pending[n][1] .. pending[n][2]
  <2>1. PICK t : t = pending
    OBVIOUS
  <2>2. t = Pending(calls, frame)
    BY <2>1 DEF Pending
  <2> HIDE DEF pending
  <2>3. \A x, y \in Nat : Together(calls, frame, x, y) =>
          \E n \in DOMAIN t : {x, y} \subseteq t[n][1] .. t[n][2]
    BY <1>3, <2>2, PendingWithin
  <2> QED
    BY <2>1, <2>3
<1> HIDE DEF pending
<1>1. CASE phase = "average"
  <2>1. PICK c, f : c = word_counter /\ f = important_words
    OBVIOUS
  <2>2. /\ c \in Nat /\ Numbers(wordVec, c, c)
        /\ \E p \in 0 .. c : FirstSort(f, c, calls, frame, p)
    BY <1>1, <2>1, DuringFirstSort
  <2>3. a \in 0 .. c - 1 /\ b \in 0 .. c - 1
    BY <2>2 DEF Numbers
  <2>4. PICK p \in 0 .. c : FirstSort(f, c, calls, frame, p)
    BY <2>2
  <2>5. /\ calls \in Seq(Nat \X Int)
        /\ frame # NoFrame => frame.first \in Nat /\ frame.last \in Int
        /\ f[a] >= f[b] \/ Together(calls, frame, a, b)
    BY <2>2, <2>3, <2>4, FirstSortTogether
  <2>6. a \in Nat /\ b \in Nat
    BY <2>3
  <2> QED
    BY <1>1, <1>3, <2>1, <2>5, <2>6
<1>2. CASE phase = "indices"
  <2>1. PICK d \in Nat : d = ImpWords
    BY ImportantAssumption
  <2>2. /\ Numbers(wordVec, d, word_counter) /\ CallsOK(calls, frame, d)
        /\ Ordered(wordVec, calls, frame, d) /\ Divided(wordVec, frame, d)
    BY <1>2, <2>1 DEF SInv, IndicesOK
  <2>3. a \in 0 .. d - 1 /\ b \in 0 .. d - 1
    BY <2>2 DEF Numbers
  <2>4. wordVec[a] < wordVec[b] \/ Together(calls, frame, a, b)
    BY <2>2, <2>3 DEF Ordered
  <2>5. calls \in Seq(Nat \X Int)
    BY <2>2 DEF CallsOK
  <2>6. frame # NoFrame => frame.first \in Nat /\ frame.last \in Int
    BY <2>1, <2>2 DEF Divided, Frame
  <2>7. a \in Nat /\ b \in Nat
    BY <2>3
  <2> QED
    BY <1>2, <1>3, <2>4, <2>5, <2>6, <2>7
<1> QED
  BY <1>1, <1>2

\* tf.c:97-98, vectorOps.c:124-125: at every moment of both sorts two positions that
\* no call that runs or waits has both of are in order already, so that no comparison
\* is missing when a call hands over what is before and what is after its pivot.
THEOREM CallsStayApart == Spec => []CallsAreApart
BY CallsApart, SortInvariance, PTL

\* The chosen words in the end.
LEMMA ChosenWords ==
  ASSUME SInv, phase = "done", NEW d, d = ImpWords, NEW c, c = word_counter, NEW f, f = wordVec
  PROVE  /\ d \in Nat /\ c \in Nat /\ d <= c /\ f \in [0 .. d - 1 -> 0 .. c - 1]
         /\ \A a, b \in 0 .. d - 1 : f[a] = f[b] => a = b
         /\ \A a, b \in 0 .. d - 1 : a < b => f[a] < f[b]
         /\ LargestChosen(f, c)
         /\ WInv /\ AllRead /\ tfarr = compute_tf_idf
         /\ \A n \in 0 .. c - 1 : ColumnAverage(n) = Average(WordAt(n))
<1>1. d \in Nat /\ c \in Nat
  BY ImportantAssumption, NumbersOfWords DEF SInv
<1>2. d <= c /\ Numbers(f, d, c) /\ LargestChosen(f, c) /\ Ordered(f, calls, frame, d)
  BY DEF SInv, IndicesOK
<1>3. calls = <<>> /\ frame = NoFrame /\ AllRead /\ tfarr = compute_tf_idf /\ WInv
  BY DEF SInv, PhasesOK
<1>4. \A a, b : ~Together(calls, frame, a, b)
  <2>1. DOMAIN calls = {}
    BY <1>3
  <2> QED
    BY <1>3, <2>1 DEF Together, Runs
<1>5. \A n \in 0 .. c - 1 : ColumnAverage(n) = Average(WordAt(n))
  BY <1>3, ColumnIsAverage
<1> QED
  BY <1>1, <1>2, <1>3, <1>4, <1>5 DEF Numbers, Ordered

\* They are those that are kept.
LEMMA LargestKept == SInv => LargestAreKept
<1> SUFFICES ASSUME SInv, phase = "done"
             PROVE  /\ Cardinality(Kept) = ImpWords
                    /\ \A k \in 1 .. ImpWords - 1 : wordVec[k - 1] < wordVec[k]
                    /\ \A w \in Kept, v \in Seen \ Kept : Average(w) >= Average(v)
  BY DEF LargestAreKept
<1>1. PICK d, c, f : d = ImpWords /\ c = word_counter /\ f = wordVec
  OBVIOUS
<1>2. /\ d \in Nat /\ c \in Nat /\ d <= c /\ f \in [0 .. d - 1 -> 0 .. c - 1]
      /\ \A a, b \in 0 .. d - 1 : f[a] = f[b] => a = b
      /\ \A a, b \in 0 .. d - 1 : a < b => f[a] < f[b]
      /\ LargestChosen(f, c)
      /\ WInv
      /\ \A n \in 0 .. c - 1 : ColumnAverage(n) = Average(WordAt(n))
  BY <1>1, ChosenWords
<1>3. /\ \A n \in 0 .. c - 1 : WordAt(n) \in Seen /\ search_tree(dict, WordAt(n)) = n
      /\ \A w \in Seen : /\ search_tree(dict, w) \in 0 .. c - 1
                         /\ WordAt(search_tree(dict, w)) = w
  BY <1>1, <1>2, NumbersOfWords
<1>4. Kept = {WordAt(f[k]) : k \in 0 .. d - 1}
  <2>1. DOMAIN f = 0 .. d - 1
    BY <1>2
  <2> QED
    BY <1>1, <2>1 DEF Kept
<1>5. Cardinality(Kept) = d
  <2>1. PICK g : g = [k \in 0 .. d - 1 |-> WordAt(f[k])]
    OBVIOUS
  <2>2. g \in [0 .. d - 1 -> Kept] /\ \A w \in Kept : \E k \in 0 .. d - 1 : g[k] = w
    BY <1>4, <2>1
  <2>3. ASSUME NEW a \in 0 .. d - 1, NEW b \in 0 .. d - 1, g[a] = g[b] PROVE a = b
    <3>1. f[a] \in 0 .. c - 1 /\ f[b] \in 0 .. c - 1 /\ WordAt(f[a]) = WordAt(f[b])
      BY <1>2, <2>1, <2>3
    <3>2. f[a] = f[b]
      BY <1>3, <3>1
    <3> QED
      BY <1>2, <3>2
  <2>4. g \in Bijection(0 .. d - 1, Kept)
    BY <2>2, <2>3 DEF Bijection, Injection, Surjection, IsInjective
  <2>5. IsFiniteSet(0 .. d - 1) /\ Cardinality(0 .. d - 1) = d
    <3>1. d - 1 \in Int /\ 0 \in Int
      BY <1>2
    <3>2. /\ IsFiniteSet(0 .. d - 1)
          /\ Cardinality(0 .. d - 1) = IF 0 > d - 1 THEN 0 ELSE (d - 1) - 0 + 1
      BY <3>1, FS_Interval
    <3> QED
      BY <1>2, <3>2
  <2> QED
    BY <2>4, <2>5, FS_Bijection DEF ExistsBijection
<1>6. ASSUME NEW w \in Kept, NEW v \in Seen \ Kept PROVE Average(w) >= Average(v)
  <2>1. PICK k \in 0 .. d - 1 : w = WordAt(f[k])
    BY <1>4
  <2>2. PICK m \in 0 .. c - 1 : v = WordAt(m)
    BY <1>3
  <2>3. f[k] \in Chosen(f) /\ f[k] \in 0 .. c - 1
    BY <1>2 DEF Chosen
  <2>4. m \notin Chosen(f)
    <3>1. SUFFICES ASSUME m \in Chosen(f) PROVE FALSE
      OBVIOUS
    <3>2. PICK l \in 0 .. d - 1 : m = f[l]
      BY <1>2, <3>1 DEF Chosen
    <3> QED
      BY <1>4, <2>2, <3>2
  <2>5. ColumnAverage(f[k]) >= ColumnAverage(m)
    BY <1>2, <2>2, <2>3, <2>4 DEF LargestChosen
  <2> QED
    BY <1>2, <2>1, <2>2, <2>3, <2>5
<1>7. ASSUME NEW k \in 1 .. d - 1 PROVE f[k - 1] < f[k]
  <2>1. k - 1 \in 0 .. d - 1 /\ k \in 0 .. d - 1 /\ k - 1 < k
    BY <1>2
  <2> QED
    BY <1>2, <2>1
<1> QED
  BY <1>1, <1>5, <1>6, <1>7

\* README.md:244-245: when both sorts are done as many words as asked for are kept, in
\* the order of their numbers, and no other word has a larger average.
THEOREM LargestWordsAreKept == Spec => []LargestAreKept
BY LargestKept, SortInvariance, PTL

\* The features in the end.
LEMMA FeaturesFound == SInv => FeaturesBelongToSpecs
<1> SUFFICES ASSUME SInv, phase = "done", NEW s \in Specs,
                    NEW vec, vec = tfarr_mini[NodeOf(s).vec_num]
             PROVE  /\ vec.name = s
                    /\ vec.elements =
                         [k \in 0 .. ImpWords - 1 |-> TextTfIdf(s, WordAt(wordVec[k]))]
  BY DEF FeaturesBelongToSpecs
<1>1. PICK d, c, f : d = ImpWords /\ c = word_counter /\ f = wordVec
  OBVIOUS
<1>2. /\ f \in [0 .. d - 1 -> 0 .. c - 1] /\ WInv /\ AllRead /\ tfarr = compute_tf_idf
  BY <1>1, ChosenWords
<1>3. PICK i \in 0 .. FILES - 1 : i = NodeOf(s).vec_num /\ bag[i + 1].name = s
  <2>1. PICK place : place = [x \in Specs |-> NodeOf(x).vec_num]
    OBVIOUS
  <2>2. place \in [Specs -> 0 .. FILES - 1] /\ \A x \in Specs : bag[place[x] + 1].name = x
    BY <1>2, <2>1, PlacesOfSpecs
  <2> QED
    BY <2>1, <2>2
<1>4. vec = [name |-> tfarr[i].name, elements |-> Columns(tfarr[i].elements)]
  <2>1. tfarr_mini = [j \in 0 .. FILES - 1 |->
          [name |-> tfarr[j].name, elements |-> Columns(tfarr[j].elements)]]
    BY DEF SInv, PhasesOK
  <2> QED
    BY <1>3, <2>1
<1>5. /\ tfarr[i].name = bag[i + 1].name
      /\ \A n \in 0 .. idf_vec.size - 1 : tfarr[i].elements[n] = TfIdf(bag[i + 1], n)
  BY <1>2, <1>3 DEF compute_tf_idf
<1>6. ASSUME NEW n \in 0 .. c - 1
      PROVE  tfarr[i].elements[n] = TextTfIdf(s, WordAt(n))
  <2>1. idf_vec.size = c /\ WordAt(n) \in Seen /\ search_tree(dict, WordAt(n)) = n
    BY <1>1, <1>2, NumbersOfWords
  <2>2. Found(s)
    BY <1>2, FoundInMap DEF AllRead, WInv
  <2>3. TfIdf(bag[i + 1], n) = TextTfIdf(s, WordAt(n))
    BY <1>2, <1>3, <2>1, <2>2, ElementIsTfIdf
  <2> QED
    BY <1>5, <2>1, <2>3
<1>7. vec.elements = [k \in DOMAIN f |-> tfarr[i].elements[f[k]]]
  BY <1>1, <1>4 DEF Columns
<1>8. DOMAIN f = 0 .. d - 1 /\ \A k \in 0 .. d - 1 : f[k] \in 0 .. c - 1
  BY <1>2
<1>9. vec.elements = [k \in 0 .. d - 1 |-> TextTfIdf(s, WordAt(f[k]))]
  BY <1>6, <1>7, <1>8
<1> QED
  BY <1>1, <1>3, <1>4, <1>5, <1>9

\* routines.c:41-48: train and test find for every spec, by its node in the map, the
\* TF-IDF of the kept words in its own text.
THEOREM FeaturesOfSpecs == Spec => []FeaturesBelongToSpecs
BY FeaturesFound, SortInvariance, PTL

\* Types of what the parser builds.
LEMMA ParserTypes == WInv => ParseTypeOK
<1> SUFFICES ASSUME WInv PROVE ParseTypeOK
  OBVIOUS
<1>1. Laid(structures) /\ Counts(structures, text_counter, occurs) /\ MapOK /\ CurrentNode
  BY DEF WInv, Good
<1>2. PICK c \in Nat, cap \in Nat \ {0} : c = word_counter /\ cap = idf_vec.capacity /\ c <= cap
  BY <1>1 DEF Laid, Struct, VectorsOK, structures
<1>3. /\ Sized(idf_vec, c, cap) /\ bag[0].word_count = 0
      /\ \A i \in 0 .. FILES : bag[i] \in Vec /\ Sized(bag[i], c, cap)
  BY <1>1, <1>2 DEF Laid, Struct, VectorsOK, structures
<1>4. IsFiniteSet(Seen) /\ Cardinality(Seen) = c /\ Seen \subseteq Words /\ Seen = Stored(dict)
  BY <1>2, NumbersOfWords, SeenIsStored
<1>5. c \in 0 .. Cardinality(Words)
  BY <1>2, <1>4, WordsAssumption, FS_Subset, FS_CardinalityType
<1>6. ASSUME NEW i \in 0 .. FILES PROVE bag[i].word_count \in 0 .. c
  <2>1. CASE i = 0
    BY <1>2, <1>3, <2>1
  <2>2. CASE i # 0
    <3>1. PICK text : Holds(structures, i, text)
      <4>1. i \in 1 .. FILES
        BY <2>2, FilesAreCounted
      <4> QED
        BY <1>1, <4>1 DEF Counts
    <3>2. bag[i].word_count = Cardinality({w \in Stored(dict) : text[w] > 0})
      BY <3>1 DEF Holds, structures
    <3>3. PICK met \in SUBSET Seen : met = {w \in Stored(dict) : text[w] > 0}
      BY <1>4
    <3>4. Cardinality(met) \in Nat /\ Cardinality(met) <= c
      BY <1>4, FS_Subset, FS_CardinalityType
    <3> QED
      BY <1>2, <3>2, <3>3, <3>4
  <2> QED
    BY <2>1, <2>2
<1>7. \A i \in 0 .. FILES :
        /\ bag[i].name \in Specs \cup {"none"}
        /\ bag[i].size \in 0 .. bag[i].capacity
        /\ bag[i].elements \in [0 .. bag[i].capacity - 1 -> Nat]
        /\ bag[i].word_count \in 0 .. bag[i].size
  BY <1>2, <1>3, <1>6 DEF Sized, Vec
<1>8. /\ idf_vec.size \in 0 .. idf_vec.capacity
      /\ idf_vec.elements \in [0 .. idf_vec.capacity - 1 -> Nat]
  BY <1>2, <1>3 DEF Sized
<1>9. dict \in Tree
  BY <1>1 DEF Laid, Struct, structures
<1>10. map \in [0 .. Buckets - 1 -> Seq(Node)] /\ pseudonode \in Node \cup {NoNode}
  BY <1>1 DEF MapOK, CurrentNode
<1>11. /\ text_counter \in 0 .. FILES /\ pc \in {"folder", "name", "value", "parsed"}
       /\ occurs \in [Specs -> [Words -> Nat]]
  BY DEF WInv, Texts
<1> QED
  BY <1>2, <1>5, <1>7, <1>8, <1>9, <1>10, <1>11 DEF ParseTypeOK, Tree, Node

\* A call that runs stays within its ends, and these within the vector.
LEMMA FrameTypes ==
  ASSUME SInv, frame # NoFrame
  PROVE  /\ {frame.first, frame.last, frame.i, frame.j} \subseteq DOMAIN wordVec
         /\ frame.first < frame.last
         /\ {frame.i, frame.j} \subseteq frame.first .. frame.last
<1>1. phase \in {"average", "indices"}
  BY DEF SInv, PhasesOK
<1>2. CASE phase = "average"
  <2>1. PICK c, f : c = word_counter /\ f = important_words
    OBVIOUS
  <2>2. c \in Nat /\ DOMAIN wordVec = 0 .. c - 1
    BY <1>2, <2>1, DuringFirstSort DEF Numbers
  <2>3. PICK p \in 0 .. c : FirstSort(f, c, calls, frame, p)
    BY <1>2, <2>1, DuringFirstSort
  <2>4. /\ p < c - 1
        /\ \E j \in p .. c - 1 : /\ frame = Frame(p, c - 1, p, j)
                                 /\ \A k \in j + 1 .. c - 1 : f[k] <= f[p]
    BY <2>2, <2>3, RunningCall
  <2>5. PICK j \in p .. c - 1 : frame = Frame(p, c - 1, p, j)
    BY <2>4
  <2>6. frame.first = p /\ frame.last = c - 1 /\ frame.i = p /\ frame.j = j
    BY <2>5 DEF Frame
  <2> QED
    BY <2>2, <2>4, <2>6
<1>3. CASE phase = "indices"
  <2>1. PICK d \in Nat : d = ImpWords
    BY ImportantAssumption
  <2>2. DOMAIN wordVec = 0 .. d - 1 /\ Divided(wordVec, frame, d)
    BY <1>3, <2>1 DEF SInv, IndicesOK, Numbers
  <2>3. PICK p \in 0 .. d - 1, q \in 0 .. d - 1 : \E i \in p .. q, j \in p .. q :
          p < q /\ frame = Frame(p, q, i, j)
    BY <2>2 DEF Divided
  <2>4. PICK i \in p .. q, j \in p .. q : p < q /\ frame = Frame(p, q, i, j)
    BY <2>3
  <2>5. frame.first = p /\ frame.last = q /\ frame.i = i /\ frame.j = j
    BY <2>4 DEF Frame
  <2> QED
    BY <2>2, <2>4, <2>5
<1> QED
  BY <1>1, <1>2, <1>3

\* So do the calls that wait.
LEMMA CallTypes ==
  ASSUME SInv, NEW n \in DOMAIN calls
  PROVE  calls[n][1] >= 0 /\ calls[n][2] < Cardinality(DOMAIN wordVec)
<1>1. phase \in {"average", "indices"}
  <2>1. calls # <<>>
    OBVIOUS
  <2> QED
    BY <2>1 DEF SInv, PhasesOK
<1>2. CASE phase = "average"
  <2>1. PICK c, f : c = word_counter /\ f = important_words
    OBVIOUS
  <2>2. c \in Nat /\ DOMAIN wordVec = 0 .. c - 1
    BY <1>2, <2>1, DuringFirstSort DEF Numbers
  <2>3. PICK p \in 0 .. c : FirstSort(f, c, calls, frame, p)
    BY <1>2, <2>1, DuringFirstSort
  <2>4. \/ calls = << <<p, c - 1>> >>
        \/ p > 0 /\ calls = << <<p - 1, p - 2>>, <<p, c - 1>> >>
    BY <2>3 DEF FirstSort
  <2>5. calls[n] = <<p, c - 1>> \/ (p > 0 /\ calls[n] = <<p - 1, p - 2>>)
    BY <2>4
  <2>6. calls[n][1] >= 0 /\ calls[n][2] < c
    BY <2>2, <2>5
  <2>7. Cardinality(DOMAIN wordVec) = c
    BY <2>2, FS_Interval
  <2> QED
    BY <2>6, <2>7
<1>3. CASE phase = "indices"
  <2>1. PICK d \in Nat : d = ImpWords
    BY ImportantAssumption
  <2>2. DOMAIN wordVec = 0 .. d - 1 /\ CallsOK(calls, frame, d)
    BY <1>3, <2>1 DEF SInv, IndicesOK, Numbers
  <2>3. calls[n] \in Nat \X Int /\ calls[n][2] < d
    BY <2>2 DEF CallsOK
  <2>4. calls[n][1] >= 0
    BY <2>3
  <2>5. Cardinality(DOMAIN wordVec) = d
    BY <2>2, FS_Interval
  <2> QED
    BY <2>3, <2>4, <2>5
<1> QED
  BY <1>1, <1>2, <1>3

\* Types, of the parser and of the sorts.
LEMMA TypesRight == SInv => TypeOK
<1> SUFFICES ASSUME SInv PROVE TypeOK
  OBVIOUS
<1>1. ParseTypeOK
  BY ParserTypes DEF SInv
<1>2. phase \in {"parse", "average", "indices", "done", "out of bounds", "aborted"}
  BY DEF SInv, PhasesOK
<1> QED
  BY <1>1, <1>2, FrameTypes, CallTypes DEF TypeOK, Ended

\* From the first file to the features the vectors have an element for every position
\* below their room, and the calls of both sorts, with their i and j, stay within the
\* vector they sort (tf.c:62-100, vectorOps.c:98-127).
THEOREM TypesOfWords == Spec => []TypeOK
BY TypesRight, SortInvariance, PTL

-----------------------------------------------------------------------------
(* Every step of the sorts leaves less to do. *)

\* One quadruple is below another at the first place where they differ.
LEMMA LexicographicOrder ==
  ASSUME NEW r, NEW o, NEW w, NEW l, NEW s, NEW p, NEW v, NEW k,
         \/ s < r
         \/ s = r /\ p < o
         \/ s = r /\ p = o /\ v < w
         \/ s = r /\ p = o /\ v = w /\ k < l
  PROVE  IsLess(<<s, p, v, k>>, <<r, o, w, l>>)
<1>0. PICK a, b : a = <<s, p, v, k>> /\ b = <<r, o, w, l>>
  OBVIOUS
<1>1. /\ a[1] = s /\ a[2] = p /\ a[3] = v /\ a[4] = k
      /\ b[1] = r /\ b[2] = o /\ b[3] = w /\ b[4] = l
  BY <1>0
<1>2. /\ \A x \in 1 .. 1 - 1 : FALSE
      /\ \A x \in 1 .. 2 - 1 : x = 1
      /\ \A x \in 1 .. 3 - 1 : x = 1 \/ x = 2
      /\ \A x \in 1 .. 4 - 1 : x = 1 \/ x = 2 \/ x = 3
      /\ 1 \in 1 .. 4 /\ 2 \in 1 .. 4 /\ 3 \in 1 .. 4 /\ 4 \in 1 .. 4
  OBVIOUS
<1>3. CASE s < r
  <2>1. 1 \in 1 .. 4 /\ a[1] < b[1] /\ \A x \in 1 .. 1 - 1 : a[x] = b[x]
    BY <1>1, <1>2, <1>3
  <2> QED
    BY <1>0, <2>1 DEF IsLess
<1>4. CASE s = r /\ p < o
  <2>1. 2 \in 1 .. 4 /\ a[2] < b[2] /\ \A x \in 1 .. 2 - 1 : a[x] = b[x]
    BY <1>1, <1>2, <1>4
  <2> QED
    BY <1>0, <2>1 DEF IsLess
<1>5. CASE s = r /\ p = o /\ v < w
  <2>1. 3 \in 1 .. 4 /\ a[3] < b[3] /\ \A x \in 1 .. 3 - 1 : a[x] = b[x]
    BY <1>1, <1>2, <1>5
  <2> QED
    BY <1>0, <2>1 DEF IsLess
<1>6. CASE s = r /\ p = o /\ v = w /\ k < l
  <2>1. 4 \in 1 .. 4 /\ a[4] < b[4] /\ \A x \in 1 .. 4 - 1 : a[x] = b[x]
    BY <1>1, <1>2, <1>6
  <2> QED
    BY <1>0, <2>1 DEF IsLess
<1> QED
  BY <1>3, <1>4, <1>5, <1>6

\* The positions in a call, of the calls and the frame that are given.
OpenIn(d, cs, fr) == {k \in d : \/ \E n \in DOMAIN cs : k \in cs[n][1] .. cs[n][2]
                                \/ fr # NoFrame /\ k \in fr.first .. fr.last}

\* What is sorted, and the calls of both sorts.
LEMMA SortedPositions ==
  ASSUME SInv, phase \in {"average", "indices"}
  PROVE  /\ calls \in Seq(Int \X Int)
         /\ \E d \in Nat : DOMAIN wordVec = 0 .. d - 1
         /\ IsFiniteSet(DOMAIN wordVec)
         /\ frame # NoFrame => \A n \in DOMAIN calls : \A k \in frame.first .. frame.last :
                                  k \notin calls[n][1] .. calls[n][2]
<1>1. CASE phase = "average"
  <2>1. PICK c, f : c = word_counter /\ f = important_words
    OBVIOUS
  <2>2. c \in Nat /\ DOMAIN wordVec = 0 .. c - 1
    BY <1>1, <2>1, DuringFirstSort DEF Numbers
  <2>3. PICK p \in 0 .. c : FirstSort(f, c, calls, frame, p)
    BY <1>1, <2>1, DuringFirstSort
  <2>4. frame # NoFrame => calls = <<>>
    BY <2>3 DEF FirstSort
  <2>5. calls \in Seq(Int \X Int)
    <3>1. /\ <<p, c - 1>> \in Int \X Int /\ <<p - 1, p - 2>> \in Int \X Int
      BY <2>2
    <3>2. \A S : \A x, y \in S : <<>> \in Seq(S) /\ <<x>> \in Seq(S) /\ <<x, y>> \in Seq(S)
      OBVIOUS
    <3>3. /\ <<>> \in Seq(Int \X Int) /\ << <<p, c - 1>> >> \in Seq(Int \X Int)
          /\ << <<p - 1, p - 2>>, <<p, c - 1>> >> \in Seq(Int \X Int)
      BY <3>1, <3>2
    <3> QED
      BY <2>3, <3>3 DEF FirstSort
  <2>6. IsFiniteSet(DOMAIN wordVec)
    BY <2>2, FS_Interval
  <2> QED
    BY <2>2, <2>4, <2>5, <2>6
<1>2. CASE phase = "indices"
  <2>1. PICK d \in Nat : d = ImpWords
    BY ImportantAssumption
  <2>2. DOMAIN wordVec = 0 .. d - 1 /\ CallsOK(calls, frame, d)
    BY <1>2, <2>1 DEF SInv, IndicesOK, Numbers
  <2>3. calls \in Seq(Nat \X Int)
    BY <2>2 DEF CallsOK
  <2>4. ASSUME frame # NoFrame, NEW n \in DOMAIN calls, NEW k \in frame.first .. frame.last
        PROVE  k \notin calls[n][1] .. calls[n][2]
    <3>1. k \in 0 .. d - 1 /\ Runs(frame, k)
      <4>1. frame.first \in 0 .. d - 1 /\ frame.last \in 0 .. d - 1
        BY <2>2, <2>4, FrameTypes
      <4> QED
        BY <2>4, <4>1 DEF Runs
    <3>2. ~Covers(calls[n], k)
      BY <2>2, <3>1 DEF CallsOK
    <3>3. calls[n] \in Nat \X Int
      BY <2>3
    <3> QED
      BY <3>2, <3>3 DEF Covers
  <2>5. IsFiniteSet(DOMAIN wordVec)
    BY <2>2, FS_Interval
  <2>6. calls \in Seq(Int \X Int)
    <3>1. Nat \X Int \subseteq Int \X Int
      OBVIOUS
    <3>2. \A S, R : S \subseteq R => Seq(S) \subseteq Seq(R)
      OBVIOUS
    <3> QED
      BY <2>3, <3>1, <3>2
  <2> QED
    BY <2>2, <2>4, <2>5, <2>6
<1> QED
  BY <1>1, <1>2

\* A call that begins has no new positions.
LEMMA BegunIsOpen ==
  ASSUME NEW d, IsFiniteSet(d), NEW S, NEW cs \in Seq(S), cs # <<>>,
         NEW fr, fr = IF Head(cs)[1] < Head(cs)[2]
                        THEN Frame(Head(cs)[1], Head(cs)[2], Head(cs)[1], Head(cs)[2])
                        ELSE NoFrame
  PROVE  /\ Cardinality(OpenIn(d, Tail(cs), fr)) \in Nat
         /\ Cardinality(OpenIn(d, cs, NoFrame)) \in Nat
         /\ Cardinality(OpenIn(d, Tail(cs), fr)) <= Cardinality(OpenIn(d, cs, NoFrame))
         /\ Len(cs) \in Nat /\ Len(Tail(cs)) = Len(cs) - 1
<1>1. PICK t : t = Tail(cs)
  OBVIOUS
<1>2. /\ t \in Seq(S) /\ Len(cs) \in Nat /\ Len(t) = Len(cs) - 1
      /\ \A n \in 1 .. Len(t) : t[n] = cs[n + 1]
  BY <1>1, HeadTailProperties
<1>3. /\ DOMAIN cs = 1 .. Len(cs) /\ DOMAIN t = 1 .. Len(t) /\ 1 \in DOMAIN cs
      /\ Head(cs) = cs[1]
  BY <1>2
<1>4. ASSUME NEW n \in DOMAIN t PROVE n + 1 \in DOMAIN cs /\ t[n] = cs[n + 1]
  <2>1. n \in 1 .. Len(t) /\ n + 1 \in 1 .. Len(cs)
    BY <1>2, <1>3
  <2> QED
    BY <1>2, <1>3, <2>1
<1>5. \A k : fr # NoFrame /\ k \in fr.first .. fr.last => k \in cs[1][1] .. cs[1][2]
  BY <1>3 DEF Frame
<1>6. OpenIn(d, t, fr) \subseteq OpenIn(d, cs, NoFrame)
  BY <1>3, <1>4, <1>5 DEF OpenIn
<1>7. IsFiniteSet(OpenIn(d, cs, NoFrame))
  BY FS_Subset DEF OpenIn
<1> QED
  BY <1>1, <1>2, <1>6, <1>7, FS_Subset, FS_CardinalityType

\* A call that ends has its pivot in place, which no other call has.
LEMMA PivotIsClosed ==
  ASSUME NEW d, IsFiniteSet(d), NEW cs \in Seq(Int \X Int), NEW fr, fr # NoFrame,
         NEW p \in Int, NEW q \in Int, fr.first = p, fr.last = q, NEW m \in p .. q, m \in d,
         \A n \in DOMAIN cs : m \notin cs[n][1] .. cs[n][2],
         NEW t, t = <<<<p, m - 1>>, <<m + 1, q>>>> \o cs
  PROVE  /\ Cardinality(OpenIn(d, t, NoFrame)) \in Nat
         /\ Cardinality(OpenIn(d, cs, fr)) \in Nat
         /\ Cardinality(OpenIn(d, t, NoFrame)) < Cardinality(OpenIn(d, cs, fr))
<1>1. PICK S : S = Int \X Int
  OBVIOUS
<1>2. PICK x \in S, y \in S : x = <<p, m - 1>> /\ y = <<m + 1, q>>
  <2>1. <<p, m - 1>> \in Int \X Int /\ <<m + 1, q>> \in Int \X Int
    OBVIOUS
  <2> QED
    BY <1>1, <2>1
<1>3. InFront(t, x, y, cs)
  BY <1>1, <1>2, TwoInFront
<1>4. \A n \in DOMAIN t : \/ n = 1 /\ t[n] = <<p, m - 1>>
                          \/ n = 2 /\ t[n] = <<m + 1, q>>
                          \/ n - 2 \in DOMAIN cs /\ t[n] = cs[n - 2]
  BY <1>2, <1>3 DEF InFront
<1>5. ASSUME NEW k \in OpenIn(d, t, NoFrame) PROVE k \in OpenIn(d, cs, fr) /\ k # m
  <2>1. PICK n \in DOMAIN t : k \in t[n][1] .. t[n][2]
    BY <1>5 DEF OpenIn
  <2>2. k \in d
    BY <1>5 DEF OpenIn
  <2>3. CASE t[n] = <<p, m - 1>> \/ t[n] = <<m + 1, q>>
    <3>1. k \in p .. m - 1 \/ k \in m + 1 .. q
      BY <2>1, <2>3
    <3>2. k \in p .. q /\ k # m
      BY <3>1
    <3> QED
      BY <2>2, <3>2 DEF OpenIn
  <2>4. CASE n - 2 \in DOMAIN cs /\ t[n] = cs[n - 2]
    BY <2>1, <2>2, <2>4 DEF OpenIn
  <2> QED
    BY <1>4, <2>3, <2>4
<1>6. m \in OpenIn(d, cs, fr)
  BY DEF OpenIn
<1>7. IsFiniteSet(OpenIn(d, cs, fr))
  BY FS_Subset DEF OpenIn
<1>8. PICK o : o = OpenIn(d, cs, fr) /\ IsFiniteSet(o) /\ m \in o
  BY <1>6, <1>7
<1>9. OpenIn(d, t, NoFrame) \subseteq o \ {m}
  BY <1>5, <1>8
<1>10. IsFiniteSet(o \ {m}) /\ Cardinality(o \ {m}) = Cardinality(o) - 1
  BY <1>8, FS_RemoveElement
<1>11. /\ Cardinality(OpenIn(d, t, NoFrame)) <= Cardinality(o) - 1
       /\ IsFiniteSet(OpenIn(d, t, NoFrame))
  <2>1. PICK r : r = o \ {m}
    OBVIOUS
  <2>2. OpenIn(d, t, NoFrame) \in SUBSET r
    BY <1>9, <2>1
  <2>3. IsFiniteSet(r) /\ Cardinality(r) = Cardinality(o) - 1
    BY <1>10, <2>1
  <2> QED
    BY <2>2, <2>3, FS_Subset
<1> QED
  BY <1>8, <1>11, FS_CardinalityType

\* The measure, from what is sorted.
LEMMA LeftFacts ==
  Left = <<SortsLeft, Cardinality(OpenIn(DOMAIN wordVec, calls, frame)), Len(calls), RoundsLeft>>
BY DEF Left, Open, OpenIn

\* A call begins.
LEMMA CallAdvances ==
  ASSUME SInv, Call("average") \/ Call("indices") PROVE IsLess(Left', Left)
<1>1. /\ phase \in {"average", "indices"} /\ phase' = phase /\ frame = NoFrame /\ calls # <<>>
      /\ calls' = Tail(calls) /\ wordVec' = wordVec
      /\ frame' = IF Head(calls)[1] < Head(calls)[2]
                    THEN Frame(Head(calls)[1], Head(calls)[2], Head(calls)[1], Head(calls)[2])
                    ELSE NoFrame
  BY DEF Call, Frame
<1>2. PICK d : d = DOMAIN wordVec /\ d = DOMAIN wordVec'
  BY <1>1
<1>3. calls \in Seq(Int \X Int) /\ IsFiniteSet(d)
  BY <1>1, <1>2, SortedPositions
<1>4. /\ Cardinality(OpenIn(d, calls', frame')) \in Nat
      /\ Cardinality(OpenIn(d, calls, frame)) \in Nat
      /\ Cardinality(OpenIn(d, calls', frame')) <= Cardinality(OpenIn(d, calls, frame))
      /\ Len(calls) \in Nat /\ Len(calls') = Len(calls) - 1
  BY <1>1, <1>3, BegunIsOpen
<1>5. SortsLeft' = SortsLeft
  BY <1>1 DEF SortsLeft
<1>6. Left = <<SortsLeft, Cardinality(OpenIn(d, calls, frame)), Len(calls), RoundsLeft>>
  BY <1>2, LeftFacts
<1>7. Left' = <<SortsLeft', Cardinality(OpenIn(d, calls', frame')), Len(calls'), RoundsLeft'>>
  BY <1>2 DEF Left, Open, OpenIn
<1> QED
  BY <1>4, <1>5, <1>6, <1>7, LexicographicOrder

\* A call ends.
LEMMA PlaceAdvances ==
  ASSUME SInv, PlaceAverage \/ PlaceIndex PROVE IsLess(Left', Left)
<1>1. /\ phase \in {"average", "indices"} /\ phase' = phase /\ frame # NoFrame
      /\ frame' = NoFrame /\ wordVec' = Swap(wordVec, frame.first, frame.j)
      /\ calls' = <<<<frame.first, frame.j - 1>>, <<frame.j + 1, frame.last>>>> \o calls
  BY DEF PlaceAverage, PlaceIndex, Halves
<1>2. PICK d : d = DOMAIN wordVec /\ d = DOMAIN wordVec'
  BY <1>1 DEF Swap
<1>3. /\ calls \in Seq(Int \X Int) /\ IsFiniteSet(d) /\ d \subseteq Nat
      /\ \A n \in DOMAIN calls : \A k \in frame.first .. frame.last :
           k \notin calls[n][1] .. calls[n][2]
  BY <1>1, <1>2, SortedPositions
<1>4. PICK p \in Nat, q \in Nat : /\ frame.first = p /\ frame.last = q
                                  /\ frame.j \in p .. q /\ frame.j \in d
  BY <1>1, <1>2, <1>3, FrameTypes
<1>5. PICK m \in p .. q : m = frame.j
  BY <1>4
<1>6. /\ Cardinality(OpenIn(d, calls', frame')) \in Nat
      /\ Cardinality(OpenIn(d, calls, frame)) \in Nat
      /\ Cardinality(OpenIn(d, calls', frame')) < Cardinality(OpenIn(d, calls, frame))
  <2>0. PICK cs \in Seq(Int \X Int) : cs = calls
    BY <1>3
  <2>1. PICK fr : cs = calls /\ fr = frame
    BY <2>0
  <2>2. PICK t : t = calls' /\ t = <<<<p, m - 1>>, <<m + 1, q>>>> \o cs
    BY <1>1, <1>4, <1>5, <2>1
  <2>3. p \in Int /\ q \in Int /\ m \in d /\ \A n \in DOMAIN cs : m \notin cs[n][1] .. cs[n][2]
    BY <1>3, <1>4, <1>5, <2>1
  <2>4. fr # NoFrame /\ fr.first = p /\ fr.last = q /\ IsFiniteSet(d)
    BY <1>1, <1>3, <1>4, <2>1
  <2>5. /\ Cardinality(OpenIn(d, t, NoFrame)) \in Nat
        /\ Cardinality(OpenIn(d, cs, fr)) \in Nat
        /\ Cardinality(OpenIn(d, t, NoFrame)) < Cardinality(OpenIn(d, cs, fr))
    BY <2>2, <2>3, <2>4, PivotIsClosed
  <2> QED
    BY <1>1, <2>1, <2>2, <2>5
<1>7. SortsLeft' = SortsLeft
  BY <1>1 DEF SortsLeft
<1>8. Left = <<SortsLeft, Cardinality(OpenIn(d, calls, frame)), Len(calls), RoundsLeft>>
  BY <1>2, LeftFacts
<1>9. Left' = <<SortsLeft', Cardinality(OpenIn(d, calls', frame')), Len(calls'), RoundsLeft'>>
  BY <1>2 DEF Left, Open, OpenIn
<1> QED
  BY <1>6, <1>7, <1>8, <1>9, LexicographicOrder

\* A round changes i and j only.
LEMMA RoundAdvances ==
  ASSUME phase' = phase, calls' = calls, DOMAIN wordVec' = DOMAIN wordVec,
         frame # NoFrame, frame' # NoFrame,
         frame'.first = frame.first, frame'.last = frame.last, RoundsLeft' < RoundsLeft
  PROVE  IsLess(Left', Left)
<1>1. SortsLeft' = SortsLeft
  BY DEF SortsLeft
<1>2. Open' = Open
  BY DEF Open
<1>3. Left' = <<SortsLeft', Cardinality(Open'), Len(calls'), RoundsLeft'>>
  BY DEF Left
<1> QED
  BY <1>1, <1>2, <1>3, LexicographicOrder DEF Left

\* The first sort: j goes down, but for a first round that exchanges the two ends; then
\* the pivot is the larger one.
LEMMA ExchangeAveragesAdvances ==
  ASSUME SInv, ~EmptyText, ExchangeAverages PROVE IsLess(Left', Left)
<1>1. /\ phase = "average" /\ phase' = phase /\ frame # NoFrame /\ frame.i < frame.j
      /\ frame' = AverageScan /\ calls' = calls
      /\ IF frame'.i < frame'.j
           THEN /\ important_words' = Swap(important_words, frame'.i, frame'.j)
                /\ wordVec' = Swap(wordVec, frame'.i, frame'.j)
           ELSE important_words' = important_words /\ wordVec' = wordVec
  BY DEF ExchangeAverages, MoveNumbers
<1>2. PICK c, f : c = word_counter /\ f = important_words
  OBVIOUS
<1>3. /\ c \in Nat /\ f \in [0 .. c - 1 -> Int]
      /\ \A k \in 0 .. c - 1 : f[k] # NaN
  BY <1>1, <1>2, AveragesAt, DuringFirstSort
<1>4. PICK p \in 0 .. c : FirstSort(f, c, calls, frame, p)
  BY <1>1, <1>2, DuringFirstSort
<1>5. PICK j \in p .. c - 1 : p < c - 1 /\ frame = Frame(p, c - 1, p, j)
  BY <1>1, <1>3, <1>4, RunningCall
<1>6. p < j /\ p \in Nat /\ c - 1 \in Nat
  BY <1>1, <1>3, <1>5 DEF Frame
<1>7. \A k \in p .. c - 1 : k \in 0 .. c - 1 /\ f[k] \in Int /\ f[k] # NaN
  BY <1>3
<1>8. PICK m \in p .. j : /\ frame' = Frame(p, c - 1, p, m)
                          /\ m = p \/ f[m] > f[p]
  BY <1>1, <1>2, <1>5, <1>6, <1>7, AverageScanStays
<1>9. /\ frame.first = p /\ frame.last = c - 1 /\ frame.i = p /\ frame.j = j
      /\ frame'.first = p /\ frame'.last = c - 1 /\ frame'.i = p /\ frame'.j = m
      /\ frame' # NoFrame
  BY <1>5, <1>6, <1>8 DEF Frame, NoFrame
<1>10. DOMAIN wordVec' = DOMAIN wordVec
  BY <1>1 DEF Swap
<1>11. RoundsLeft = j - p + (IF f[j] > f[p] THEN 1 ELSE 0)
  <2>1. p \in p .. c - 1 /\ j \in p .. c - 1
    BY <1>5, <1>6
  <2>2. f[p] # NaN /\ f[j] # NaN
    BY <1>7, <2>1
  <2> QED
    BY <1>1, <1>2, <1>9, <2>2 DEF RoundsLeft, LargerAt, Greater
<1>12. PICK g : g = important_words'
  OBVIOUS
<1>13. RoundsLeft' = m - p + (IF Greater(g[m], g[p]) THEN 1 ELSE 0)
  BY <1>1, <1>9, <1>12 DEF RoundsLeft, LargerAt
<1>14. ~Greater(g[m], g[p])
  <2>1. CASE m = p
    <3>1. g = f
      BY <1>1, <1>2, <1>9, <1>12, <2>1
    <3> QED
      BY <1>5, <1>6, <1>7, <2>1, <3>1 DEF Greater
  <2>2. CASE m # p
    <3>1. g = Swap(f, p, m)
      BY <1>1, <1>2, <1>9, <1>12, <2>2
    <3>2. g[m] = f[p] /\ g[p] = f[m]
      BY <1>3, <1>5, <3>1 DEF Swap
    <3>3. f[m] \in Int /\ f[p] \in Int /\ f[m] # NaN /\ f[p] # NaN /\ f[m] > f[p]
      BY <1>6, <1>7, <1>8, <2>2
    <3> QED
      BY <3>2, <3>3 DEF Greater
  <2> QED
    BY <2>1, <2>2
<1>15. RoundsLeft' < RoundsLeft
  <2>1. CASE m < j
    BY <1>11, <1>13, <1>14, <2>1
  <2>2. CASE m = j
    BY <1>6, <1>8, <1>11, <1>13, <1>14, <2>2
  <2> QED
    BY <2>1, <2>2
<1> QED
  BY <1>1, <1>9, <1>10, <1>15, RoundAdvances

\* The second sort: i goes up, as what it stopped at has been exchanged.
LEMMA ExchangeIndicesAdvances ==
  ASSUME SInv, ExchangeIndices PROVE IsLess(Left', Left)
<1>1. /\ phase = "indices" /\ phase' = phase /\ frame # NoFrame /\ frame.i < frame.j
      /\ frame' = IndexScan /\ calls' = calls
      /\ wordVec' = IF frame'.i < frame'.j THEN Swap(wordVec, frame'.i, frame'.j) ELSE wordVec
  BY DEF ExchangeIndices
<1>2. PICK d, f : d = ImpWords /\ f = wordVec
  OBVIOUS
<1>3. d \in Nat /\ \A k \in 0 .. d - 1 : f[k] \in Int
  BY <1>1, <1>2, RunningIndices DEF Numbers
<1>4. PICK p \in 0 .. d - 1, q \in 0 .. d - 1 : \E i \in p .. q, j \in p .. q :
        /\ p < q /\ frame = Frame(p, q, i, j)
        /\ \A k \in p .. i - 1 : f[k] <= f[p]
        /\ \A k \in j + 1 .. q : f[k] > f[p]
        /\ i < j => f[i] <= f[p]
  BY <1>1, <1>2, RunningIndices
<1>5. PICK i \in p .. q, j \in p .. q :
        /\ p < q /\ frame = Frame(p, q, i, j)
        /\ \A k \in p .. i - 1 : f[k] <= f[p]
        /\ \A k \in j + 1 .. q : f[k] > f[p]
        /\ i < j => f[i] <= f[p]
  BY <1>4
<1>6. i < j /\ p \in Nat /\ q \in Nat
  BY <1>1, <1>5 DEF Frame
<1>7. \A k \in p .. q : f[k] \in Int
  BY <1>3
<1>8. PICK l \in p + 1 .. q, m \in p .. j : /\ i <= l /\ frame' = Frame(p, q, l, m)
                                            /\ l = q \/ f[l] > f[p]
  BY <1>1, <1>2, <1>5, <1>6, <1>7, IndexScanDivides
<1>9. i < l
  <2>1. i # q /\ f[i] <= f[p] /\ f[i] \in Int /\ f[p] \in Int
    BY <1>5, <1>6, <1>7
  <2> QED
    BY <1>8, <2>1
<1>10. /\ frame.first = p /\ frame.last = q /\ frame.i = i
       /\ frame'.first = p /\ frame'.last = q /\ frame'.i = l /\ frame' # NoFrame
  BY <1>5, <1>8 DEF Frame, NoFrame
<1>11. DOMAIN wordVec' = DOMAIN wordVec
  BY <1>1 DEF Swap
<1>12. RoundsLeft = q - i /\ RoundsLeft' = q - l
  BY <1>1, <1>10 DEF RoundsLeft
<1>13. RoundsLeft' < RoundsLeft
  BY <1>9, <1>12
<1> QED
  BY <1>1, <1>10, <1>11, <1>13, RoundAdvances

\* A sort is over.
LEMMA PhaseAdvances == ASSUME CropVector \/ SizeDown PROVE IsLess(Left', Left)
<1>1. \/ phase = "average" /\ phase' \in {"indices", "out of bounds"}
      \/ phase = "indices" /\ phase' = "done"
  BY DEF CropVector, SizeDown
<1>2. SortsLeft' < SortsLeft
  <2>1. PICK s, z : s = SortsLeft /\ z = SortsLeft'
    OBVIOUS
  <2>2. \/ s = 2 /\ z = 1
        \/ s = 2 /\ z = 0
        \/ s = 1 /\ z = 0
    BY <1>1, <2>1 DEF SortsLeft, Ended
  <2> QED
    BY <2>1, <2>2
<1>3. Left' = <<SortsLeft', Cardinality(Open'), Len(calls'), RoundsLeft'>>
  BY DEF Left
<1> QED
  BY <1>2, <1>3, LexicographicOrder DEF Left

\* Every component of the measure is a natural number.
LeftIsMeasure == phase # "parse" => Left \in Measures

\* It is so whenever the invariant holds.
LEMMA MeasureTypes == SInv => LeftIsMeasure
<1> SUFFICES ASSUME SInv, phase # "parse" PROVE Left \in Measures
  BY DEF LeftIsMeasure
<1>1. SortsLeft \in Nat
  BY DEF SortsLeft, Ended, SInv, PhasesOK
<1>2. CASE phase \notin {"average", "indices"}
  <2>1. calls = <<>> /\ frame = NoFrame
    BY <1>2 DEF SInv, PhasesOK
  <2>2. Open = {}
    BY <2>1 DEF Open
  <2>3. Cardinality(Open) = 0 /\ Len(calls) = 0 /\ RoundsLeft = 0
    BY <2>1, <2>2, FS_EmptySet DEF RoundsLeft
  <2> QED
    BY <1>1, <2>3 DEF Left, Measures
<1>3. CASE phase \in {"average", "indices"}
  <2>1. calls \in Seq(Int \X Int) /\ IsFiniteSet(DOMAIN wordVec) /\ DOMAIN wordVec \subseteq Nat
    BY <1>3, SortedPositions
  <2>2. IsFiniteSet(Open)
    BY <2>1, FS_Subset DEF Open
  <2>3. Cardinality(Open) \in Nat /\ Len(calls) \in Nat
    BY <2>1, <2>2, FS_CardinalityType
  <2>4. RoundsLeft \in Nat
    <3>1. CASE frame = NoFrame
      BY <3>1 DEF RoundsLeft
    <3>2. CASE frame # NoFrame
      <4>1. /\ frame.first \in Nat /\ frame.last \in Nat
            /\ frame.i \in frame.first .. frame.last /\ frame.j \in frame.first .. frame.last
        BY <2>1, <3>2, FrameTypes
      <4>2. LargerAt(frame.j) \in {0, 1}
        BY DEF LargerAt
      <4>3. frame.j - frame.first \in Nat /\ frame.last - frame.i \in Nat
        BY <4>1
      <4> QED
        BY <3>2, <4>2, <4>3 DEF RoundsLeft
    <3> QED
      BY <3>1, <3>2
  <2> QED
    BY <1>1, <2>3, <2>4 DEF Left, Measures
<1> QED
  BY <1>2, <1>3

\* The two sorts end, as far as it can be said without fairness: unless some text has no
\* words, every round of their loops (tf.c:71-93, vectorOps.c:106-118) and every call
\* makes a measure smaller that cannot do so for ever, for any averages, ties among
\* them included.
THEOREM SortsComeToAnEnd == Spec => SortsAdvance
<1>1. ASSUME SInv, ~EmptyText, phase \in {"average", "indices"}, Next
      PROVE  UNCHANGED vars \/ (IsLess(Left', Left) /\ phase' # "parse")
  <2>1. CASE Sort
    <3>1. IsLess(Left', Left)
      BY <1>1, <2>1, CallAdvances, PlaceAdvances, ExchangeAveragesAdvances,
         ExchangeIndicesAdvances, PhaseAdvances DEF Sort
    <3>2. phase' # "parse"
      BY <1>1, <2>1 DEF Sort, Call, ExchangeAverages, PlaceAverage, CropVector, ExchangeIndices,
         PlaceIndex, SizeDown
    <3> QED
      BY <3>1, <3>2
  <2>2. CASE Done
    BY <2>2 DEF Done
  <2>3. ~Parse /\ ~CreateTfFails /\ ~ComputeTfIdf
    <3>1. pc = "parsed" /\ phase # "parse"
      BY <1>1 DEF SInv, PhasesOK
    <3> QED
      BY <3>1 DEF CreateTfFails, ComputeTfIdf, Parse, ParseNext, OpenFile, ReadName, ReadValue, ReadArray,
         CloseFile, EndOfFolders
  <2> QED
    BY <1>1, <2>1, <2>2, <2>3 DEF Next
<1>2. SInv /\ LeftIsMeasure' /\ [Next]_vars =>
        [~EmptyText /\ phase \in {"average", "indices"} =>
           /\ Left' \in Measures
           /\ IsLess(Left', Left)]_vars
  BY <1>1 DEF LeftIsMeasure
<1> QED
  BY SortInvariance, MeasureTypes, <1>2, PTL DEF Spec, SortsAdvance
===============================================================================
