---------------------------- MODULE WordsProofs ----------------------------
(***************************************************************************)
(* Theorems about BagOfWords, in the runs of ImportantWords.               *)
(***************************************************************************)
EXTENDS ImportantWords, FiniteSetTheorems, SequenceTheorems, WellFoundedInduction, TLAPS

-----------------------------------------------------------------------------
(* Least numbers, for induction. *)

Below == {pair \in Nat \X Nat : pair[1] < pair[2]}

\* A non-empty set of numbers has a least one.
LEMMA Least ==
  ASSUME NEW T \in SUBSET Nat, T # {}
  PROVE  \E m \in T : \A n \in T : m <= n
<1>1. IsWellFoundedOn(Below, Nat)
  <2>1. OpToRel(<, Nat) = Below
    BY Zenon DEF OpToRel, Below
  <2> QED
    BY <2>1, NatLessThanWellFounded
<1>2. PICK m \in T : \A n \in T : ~(<<n, m>> \in Below)
  BY <1>1, WFMin
<1>3. ASSUME NEW n \in T PROVE m <= n
  <2>1. m \in Nat /\ n \in Nat
    OBVIOUS
  <2>2. <<n, m>> \in Nat \X Nat /\ <<n, m>>[1] = n /\ <<n, m>>[2] = m
    BY <2>1
  <2>3. ~(n < m)
    BY <1>2, <2>2 DEF Below
  <2> QED
    BY <2>1, <2>3
<1> QED
  BY <1>3

\* What holds of 0 and of the successors holds of all numbers up to n.
LEMMA UpTo ==
  ASSUME NEW n \in Nat, NEW Holds, 0 \in Holds,
         \A m \in 1 .. n : m - 1 \in Holds => m \in Holds
  PROVE  \A m \in 0 .. n : m \in Holds
<1> DEFINE Fails == {m \in 0 .. n : m \notin Holds}
<1>1. ASSUME Fails # {} PROVE FALSE
  <2>1. Fails \in SUBSET Nat
    OBVIOUS
  <2>2. PICK m \in Fails : \A l \in Fails : m <= l
    <3> HIDE DEF Fails
    <3> QED
      BY <1>1, <2>1, Least
  <2>3. m \in 1 .. n /\ m - 1 \in 0 .. n
    BY <2>2
  <2>4. m - 1 \in Holds
    BY <2>2, <2>3
  <2> QED
    BY <2>2, <2>3, <2>4
<1> QED
  BY <1>1

-----------------------------------------------------------------------------
(* bow_it goes through the buffer word by word. *)

Bow(s, k, buffer) ==
  FoldLeft(LAMBDA acc, word : insert_in_structures(acc, k, word), s, buffer)

\* The largest of some positions.
LEMMA LargestPosition ==
  ASSUME NEW n \in Nat, NEW S \in SUBSET (1 .. n), S # {}
  PROVE  Max(S) \in S /\ \A x \in S : x <= Max(S)
<1> DEFINE gaps == {n - x : x \in S}
<1>1. gaps \in SUBSET Nat /\ gaps # {}
  <2>1. \A x \in S : x \in 1 .. n /\ n - x \in Nat
    OBVIOUS
  <2>2. gaps \in SUBSET Nat
    BY <2>1
  <2>3. gaps # {}
    OBVIOUS
  <2> QED
    BY <2>2, <2>3
<1>2. PICK g \in gaps : \A h \in gaps : g <= h
  <2> HIDE DEF gaps
  <2> QED
    BY <1>1, Least
<1>3. PICK m \in S : g = n - m
  BY <1>2
<1>4. \A x \in S : m >= x
  <2> TAKE x \in S
  <2>1. n - m <= n - x
    BY <1>2, <1>3
  <2> QED
    BY <2>1
<1> QED
  BY <1>3, <1>4 DEF Max

\* The fold over sets of positions, up to sets of m.
Folds(f, s, k, buffer, m) ==
  /\ f = [S \in SUBSET DOMAIN buffer |-> f[S]]
  /\ \A S \in SUBSET DOMAIN buffer : Cardinality(S) <= m =>
       f[S] = IF S = {} THEN s
              ELSE insert_in_structures(f[S \ {Max(S)}], k, buffer[Max(S)])

\* The fold of insert_in_structures over a buffer is a function on the sets of its
\* positions, however far it is taken.
LEMMA FoldsExist ==
  ASSUME NEW s, NEW k, NEW buffer \in Seq(Words)
  PROVE  \A m \in 0 .. Len(buffer) : \E f : Folds(f, s, k, buffer, m)
<1> DEFINE D == DOMAIN buffer
           Holds == {m \in 0 .. Len(buffer) : \E f : Folds(f, s, k, buffer, m)}
<1>0. D = 1 .. Len(buffer) /\ Len(buffer) \in Nat /\ IsFiniteSet(D)
  BY FS_Interval
<1>1. \A S \in SUBSET D : /\ IsFiniteSet(S) /\ Cardinality(S) \in Nat
                          /\ Cardinality(S) = 0 <=> S = {}
  BY <1>0, FS_Subset, FS_EmptySet, FS_CardinalityType
<1>2. 0 \in Holds
  <2> DEFINE f == [S \in SUBSET D |-> s]
  <2>1. Folds(f, s, k, buffer, 0)
    BY <1>1 DEF Folds
  <2> QED
    BY <1>0, <2>1
<1>3. ASSUME NEW m \in 1 .. Len(buffer), m - 1 \in Holds PROVE m \in Holds
  <2>1. PICK f : Folds(f, s, k, buffer, m - 1)
    BY <1>3
  <2> DEFINE next(S) == insert_in_structures(f[S \ {Max(S)}], k, buffer[Max(S)])
             g == [S \in SUBSET D |-> IF Cardinality(S) <= m - 1 THEN f[S] ELSE next(S)]
  <2>2. ASSUME NEW S \in SUBSET D, Cardinality(S) <= m
        PROVE  g[S] = IF S = {} THEN s
                      ELSE insert_in_structures(g[S \ {Max(S)}], k, buffer[Max(S)])
    <3>1. CASE S = {}
      <4>1. Cardinality(S) = 0 /\ Cardinality(S) <= m - 1
        BY <1>1, <3>1
      <4>2. f[S] = s
        BY <2>1, <3>1, <4>1 DEF Folds
      <4> QED
        BY <3>1, <4>1, <4>2
    <3>2. CASE S # {}
      <4>1. Max(S) \in S
        BY <1>0, <3>2, LargestPosition
      <4>2. Cardinality(S \ {Max(S)}) = Cardinality(S) - 1 /\ S \ {Max(S)} \in SUBSET D
        BY <1>1, <4>1, FS_RemoveElement
      <4>3. Cardinality(S \ {Max(S)}) <= m - 1
        BY <1>1, <2>2, <4>2
      <4>4. g[S \ {Max(S)}] = f[S \ {Max(S)}]
        BY <4>2, <4>3
      <4>5. g[S] = next(S)
        BY <1>1, <2>1, <3>2 DEF Folds
      <4> QED
        BY <3>2, <4>4, <4>5
    <3> QED
      BY <3>1, <3>2
  <2>3. Folds(g, s, k, buffer, m)
    <3> HIDE DEF next
    <3>1. g = [S \in SUBSET D |-> g[S]]
      OBVIOUS
    <3> QED
      BY <2>2, <3>1 DEF Folds
  <2> QED
    BY <2>3
<1>4. \A m \in 1 .. Len(buffer) : m - 1 \in Holds => m \in Holds
  BY <1>3
<1> QED
  <2> HIDE DEF Holds
  <2>1. \A m \in 0 .. Len(buffer) : m \in Holds
    BY <1>0, <1>2, <1>4, UpTo
  <2> QED
    BY <2>1 DEF Holds

\* The structures after each word.
LEMMA BowFollows ==
  ASSUME NEW s, NEW k, NEW buffer \in Seq(Words)
  PROVE  \E steps : /\ steps[0] = s /\ steps[Len(buffer)] = Bow(s, k, buffer)
                    /\ \A n \in 1 .. Len(buffer) :
                         steps[n] = insert_in_structures(steps[n - 1], k, buffer[n])
<1> DEFINE D == DOMAIN buffer
           Defines(f) == f = [S \in SUBSET D |->
                                IF S = {} THEN s
                                ELSE insert_in_structures(f[S \ {Max(S)}], k, buffer[Max(S)])]
           iter == CHOOSE f : Defines(f)
<1>0. D = 1 .. Len(buffer) /\ Len(buffer) \in Nat
  OBVIOUS
<1>1. Bow(s, k, buffer) = iter[D]
  BY DEF Bow, FoldLeft, MapThenFoldSet
<1>2. \E f : Defines(f)
  <2>1. PICK f : Folds(f, s, k, buffer, Len(buffer))
    <3>1. Len(buffer) \in 0 .. Len(buffer)
      BY <1>0
    <3> QED
      BY <3>1, FoldsExist
  <2>2. \A S \in SUBSET D : Cardinality(S) <= Len(buffer)
    <3>1. IsFiniteSet(D) /\ Cardinality(D) = Len(buffer)
      BY <1>0, FS_Interval
    <3> QED
      BY <3>1, FS_Subset
  <2>3. Defines(f)
    BY <2>1, <2>2 DEF Folds
  <2> QED
    BY <2>3
<1>3. Defines(iter)
  BY <1>2
<1>4. \A S \in SUBSET D : iter[S] =
        IF S = {} THEN s
        ELSE insert_in_structures(iter[S \ {Max(S)}], k, buffer[Max(S)])
  <2> HIDE DEF iter
  <2> QED
    BY <1>3
<1> DEFINE steps == [n \in 0 .. Len(buffer) |-> iter[1 .. n]]
<1>5. ASSUME NEW n \in 1 .. Len(buffer)
      PROVE  steps[n] = insert_in_structures(steps[n - 1], k, buffer[n])
  <2>1. 1 .. n \in SUBSET (1 .. Len(buffer)) /\ 1 .. n # {} /\ n \in 1 .. n /\ n \in Nat
    <3>1. n \in Nat /\ n >= 1 /\ n <= Len(buffer)
      BY <1>0
    <3>2. n \in 1 .. n
      BY <3>1
    <3>3. 1 .. n \subseteq 1 .. Len(buffer)
      BY <1>0, <3>1
    <3> QED
      BY <3>1, <3>2, <3>3
  <2>2. Max(1 .. n) = n
    <3>1. Max(1 .. n) \in 1 .. n /\ \A x \in 1 .. n : x <= Max(1 .. n)
      BY <1>0, <2>1, LargestPosition
    <3> QED
      BY <2>1, <3>1
  <2>3. (1 .. n) \ {n} = 1 .. n - 1
    BY <1>0
  <2>4. iter[1 .. n] = insert_in_structures(iter[1 .. n - 1], k, buffer[n])
    <3> HIDE DEF iter
    <3> QED
      BY <1>0, <1>4, <2>1, <2>2, <2>3
  <2> QED
    BY <1>0, <2>4
<1>6. steps[0] = s
  <2>1. 1 .. 0 = {} /\ {} \in SUBSET D
    OBVIOUS
  <2> HIDE DEF iter
  <2>2. iter[{}] = s
    BY <1>4, <2>1
  <2> QED
    BY <1>0, <2>1, <2>2
<1>7. steps[Len(buffer)] = Bow(s, k, buffer)
  BY <1>0, <1>1
<1> HIDE DEF steps
<1> QED
  BY <1>5, <1>6, <1>7

-----------------------------------------------------------------------------
(* The dictionary: a search from the root ends at the word, if the word is *)
(* stored, and insert_tree adds one word to those that are found.          *)

Tree == [root : Words \cup {NoWord}, left : [Words -> Words \cup {NoWord}],
         right : [Words -> Words \cup {NoWord}], payload : [Words -> Nat \cup {-1}]]
Stored(d) == {w \in Words : d.payload[w] # -1}

\* The function that a search for w computes, where each node leads to.
Ends(d, w, end) ==
  /\ end \in [Words -> Words]
  /\ \A n \in Words :
       end[n] = IF n = w \/ Child(d, n, w) = NoWord THEN n ELSE end[Child(d, n, w)]

\* A tree without a cycle, in which every search is defined.
Searchable(d) ==
  /\ d \in Tree
  /\ \E depth \in [Words -> Nat] : \A n \in Words :
       /\ d.left[n] # NoWord => depth[d.left[n]] < depth[n]
       /\ d.right[n] # NoWord => depth[d.right[n]] < depth[n]
  /\ \A w \in Words : \E end : Ends(d, w, end)

\* The nodes that are linked are the stored ones, and each of them is found.
Linked(d) ==
  /\ d.root \in Stored(d) \cup {NoWord} /\ (d.root = NoWord => Stored(d) = {})
  /\ \A n \in Words :
       /\ d.left[n] \in Stored(d) \cup {NoWord} /\ d.right[n] \in Stored(d) \cup {NoWord}
       /\ n \notin Stored(d) => d.left[n] = NoWord /\ d.right[n] = NoWord
FindsStored(d) == \A w \in Stored(d) : Place(d, w) = w

\* No word is the missing child, and words are compared as numbers.
LEMMA WordsAreNumbers == NoWord \notin Words /\ \A w \in Words : w \in Nat
BY WordsAssumption DEF NoWord

\* What fails somewhere fails at a node from which the search does not go on to a node
\* where it fails.
LEMMA FailsLast ==
  ASSUME NEW d, Searchable(d), NEW w \in Words, NEW Fails \in SUBSET Words, Fails # {}
  PROVE  \E x \in Fails : Child(d, x, w) # NoWord => Child(d, x, w) \notin Fails
<1>1. PICK depth \in [Words -> Nat] : \A n \in Words :
        /\ d.left[n] # NoWord => depth[d.left[n]] < depth[n]
        /\ d.right[n] # NoWord => depth[d.right[n]] < depth[n]
  BY DEF Searchable
<1> DEFINE depths == {depth[x] : x \in Fails}
<1>2. depths \in SUBSET Nat /\ depths # {}
  OBVIOUS
<1>3. PICK m \in depths : \A n \in depths : m <= n
  <2> HIDE DEF depths
  <2> QED
    BY <1>2, Least
<1>4. PICK x \in Fails : m = depth[x]
  BY <1>3
<1>5. ASSUME Child(d, x, w) # NoWord, Child(d, x, w) \in Fails PROVE FALSE
  <2>1. depth[Child(d, x, w)] < depth[x]
    BY <1>1, <1>5 DEF Child
  <2>2. depth[Child(d, x, w)] \in Nat /\ depth[x] \in Nat
    BY <1>5
  <2>3. depth[x] <= depth[Child(d, x, w)]
    BY <1>3, <1>4, <1>5
  <2> QED
    BY <2>1, <2>2, <2>3
<1> QED
  BY <1>5

\* A child of a word is a word or missing.
LEMMA ChildTyped ==
  ASSUME NEW d \in Tree, NEW x \in Words, NEW w
  PROVE  Child(d, x, w) \in Words \cup {NoWord}
BY DEF Tree, Child

\* What the search computes.
LEMMA PlaceEnds ==
  ASSUME NEW d, Searchable(d), NEW w \in Words, NEW end, Ends(d, w, end)
  PROVE  Place(d, w) = IF d.root = NoWord THEN NoWord ELSE end[d.root]
<1> DEFINE Defines(f) == f = [n \in Words |-> IF n = w \/ Child(d, n, w) = NoWord THEN n
                                              ELSE f[Child(d, n, w)]]
           walk == CHOOSE f : Defines(f)
<1>1. Defines(end)
  BY DEF Ends
<1>2. Defines(walk)
  BY <1>1
<1>3. Place(d, w) = IF d.root = NoWord THEN NoWord ELSE walk[d.root]
  BY DEF Place
<1>4. walk = end
  <2> DEFINE Differ == {x \in Words : walk[x] # end[x]}
  <2>1. /\ walk = [x \in Words |-> walk[x]] /\ end = [x \in Words |-> end[x]]
        /\ \A x \in Words : walk[x] = IF x = w \/ Child(d, x, w) = NoWord THEN x
                                      ELSE walk[Child(d, x, w)]
    <3> HIDE DEF walk
    <3> QED
      BY <1>2 DEF Ends
  <2> HIDE DEF walk, Defines
  <2>2. ASSUME Differ # {} PROVE FALSE
    <3>1. PICK x \in Differ : Child(d, x, w) # NoWord => Child(d, x, w) \notin Differ
      <4>1. Differ \in SUBSET Words
        OBVIOUS
      <4> HIDE DEF Differ
      <4> QED
        BY <2>2, <4>1, FailsLast
    <3>2. x \in Words /\ walk[x] # end[x]
      BY <3>1
    <3>3. ~(x = w \/ Child(d, x, w) = NoWord)
      BY <2>1, <3>2 DEF Ends
    <3>4. Child(d, x, w) \in Words /\ walk[Child(d, x, w)] = end[Child(d, x, w)]
      BY <3>1, <3>2, <3>3, ChildTyped DEF Searchable
    <3> QED
      BY <2>1, <3>2, <3>3, <3>4 DEF Ends
  <2> QED
    BY <2>1, <2>2
<1> QED
  BY <1>3, <1>4

\* Where the search ends.
LEMMA EndFacts ==
  ASSUME NEW d, Searchable(d), Linked(d), NEW w \in Words, NEW end, Ends(d, w, end),
         NEW n \in Stored(d)
  PROVE  end[n] \in Stored(d) /\ (end[n] = w \/ Child(d, end[n], w) = NoWord)
<1> DEFINE Fails == {x \in Stored(d) : ~(/\ end[x] \in Stored(d)
                                         /\ end[x] = w \/ Child(d, end[x], w) = NoWord)}
<1>1. ASSUME Fails # {} PROVE FALSE
  <2>1. PICK x \in Fails : Child(d, x, w) # NoWord => Child(d, x, w) \notin Fails
    <3>1. Fails \in SUBSET Words
      BY DEF Stored
    <3> HIDE DEF Fails
    <3> QED
      BY <1>1, <3>1, FailsLast
  <2>2. x \in Words /\ x \in Stored(d)
    BY <2>1 DEF Stored
  <2>3. ~(x = w \/ Child(d, x, w) = NoWord)
    BY <2>1, <2>2 DEF Ends
  <2>4. Child(d, x, w) \in Stored(d)
    BY <2>2, <2>3 DEF Linked, Child
  <2>5. end[x] = end[Child(d, x, w)]
    BY <2>2, <2>3 DEF Ends
  <2> QED
    BY <2>1, <2>3, <2>4, <2>5
<1> QED
  BY <1>1

\* A word that is not stored is not found, and its place is a stored word without a
\* child on the side of the word.
LEMMA PlaceFacts ==
  ASSUME NEW d, Searchable(d), Linked(d), NEW w \in Words
  PROVE  /\ Place(d, w) = NoWord <=> d.root = NoWord
         /\ Place(d, w) # NoWord => /\ Place(d, w) \in Stored(d)
                                    /\ Place(d, w) = w \/ Child(d, Place(d, w), w) = NoWord
         /\ w \notin Stored(d) => Place(d, w) # w
<1>1. PICK end : Ends(d, w, end)
  BY DEF Searchable
<1>2. Place(d, w) = IF d.root = NoWord THEN NoWord ELSE end[d.root]
  BY <1>1, PlaceEnds
<1>3. CASE d.root = NoWord
  BY <1>2, <1>3, WordsAreNumbers
<1>4. CASE d.root # NoWord
  <2>1. d.root \in Stored(d)
    BY <1>4 DEF Linked
  <2>2. /\ end[d.root] \in Stored(d)
        /\ end[d.root] = w \/ Child(d, end[d.root], w) = NoWord
    BY <1>1, <2>1, EndFacts
  <2>3. end[d.root] # NoWord
    BY <2>2, WordsAreNumbers DEF Stored
  <2> QED
    BY <1>2, <1>4, <2>2, <2>3
<1> QED
  BY <1>3, <1>4

\* The tree after the insertion: one link, and one number.
LinkedTo(d, leaf, v, p, e) ==
  /\ e \in Tree /\ e.payload = [d.payload EXCEPT ![v] = p]
  /\ e.root = IF leaf = NoWord THEN v ELSE d.root
  /\ \A n \in Words :
       /\ e.left[n] = IF n = leaf /\ v < leaf THEN v ELSE d.left[n]
       /\ e.right[n] = IF n = leaf /\ ~(v < leaf) THEN v ELSE d.right[n]

\* insert_tree changes one link: the root of an empty tree, or the missing child
\* where the search for the new word ends.
LEMMA InsertLinks ==
  ASSUME NEW d \in Tree, NEW v \in Words, NEW p \in Nat, Place(d, v) # v,
         Place(d, v) \in Words \cup {NoWord}
  PROVE  LinkedTo(d, Place(d, v), v, p, insert_tree(d, v, p))
<1>1. PICK leaf \in Words \cup {NoWord} : leaf = Place(d, v)
  OBVIOUS
<1>2. insert_tree(d, v, p) = [Attach(d, leaf, v) EXCEPT !.payload[v] = p]
  BY <1>1 DEF insert_tree
<1>0. ASSUME Attach(d, leaf, v) \in Tree, Attach(d, leaf, v).payload = d.payload
      PROVE  /\ insert_tree(d, v, p) \in Tree
             /\ insert_tree(d, v, p).payload = [d.payload EXCEPT ![v] = p]
             /\ insert_tree(d, v, p).root = Attach(d, leaf, v).root
             /\ insert_tree(d, v, p).left = Attach(d, leaf, v).left
             /\ insert_tree(d, v, p).right = Attach(d, leaf, v).right
  <2>1. PICK a : a = Attach(d, leaf, v)
    OBVIOUS
  <2>2. a \in Tree /\ insert_tree(d, v, p) = [a EXCEPT !.payload[v] = p]
    BY <1>0, <1>2, <2>1
  <2>3. [a EXCEPT !.payload[v] = p] \in Tree
    BY <2>2 DEF Tree
  <2> QED
    BY <1>0, <2>1, <2>2, <2>3 DEF Tree
<1>3. CASE leaf = NoWord
  <2>1. Attach(d, leaf, v) = [d EXCEPT !.root = v]
    BY <1>3 DEF Attach
  <2>2. Attach(d, leaf, v).left = d.left /\ Attach(d, leaf, v).right = d.right
        /\ Attach(d, leaf, v).root = v /\ Attach(d, leaf, v).payload = d.payload
        /\ Attach(d, leaf, v) \in Tree
    BY <2>1 DEF Tree
  <2> QED
    BY <1>0, <1>1, <1>3, <2>2, WordsAreNumbers DEF LinkedTo
<1>4. CASE leaf # NoWord
  <2>1. leaf \in Words
    BY <1>4
  <2>2. CASE v < leaf
    <3>1. Attach(d, leaf, v) = [d EXCEPT !.left[leaf] = v]
      BY <1>4, <2>2 DEF Attach
    <3>2. /\ Attach(d, leaf, v).left = [d.left EXCEPT ![leaf] = v]
          /\ Attach(d, leaf, v).right = d.right /\ Attach(d, leaf, v).root = d.root
          /\ Attach(d, leaf, v).payload = d.payload /\ Attach(d, leaf, v) \in Tree
      BY <2>1, <3>1 DEF Tree
    <3>3. d.left \in [Words -> Words \cup {NoWord}]
      BY DEF Tree
    <3> QED
      BY <1>0, <1>1, <1>4, <2>1, <2>2, <3>2, <3>3 DEF LinkedTo
  <2>3. CASE ~(v < leaf)
    <3>1. Attach(d, leaf, v) = [d EXCEPT !.right[leaf] = v]
      BY <1>4, <2>3 DEF Attach
    <3>2. /\ Attach(d, leaf, v).right = [d.right EXCEPT ![leaf] = v]
          /\ Attach(d, leaf, v).left = d.left /\ Attach(d, leaf, v).root = d.root
          /\ Attach(d, leaf, v).payload = d.payload /\ Attach(d, leaf, v) \in Tree
      BY <2>1, <3>1 DEF Tree
    <3>3. d.right \in [Words -> Words \cup {NoWord}]
      BY DEF Tree
    <3> QED
      BY <1>0, <1>1, <1>4, <2>1, <2>3, <3>2, <3>3 DEF LinkedTo
  <2> QED
    BY <2>2, <2>3
<1> QED
  BY <1>3, <1>4

\* The searches after the insertion: those that ended at the leaf, on this side of it,
\* end at the new node.
NewEnd(end, leaf, v, w) ==
  [n \in Words |-> IF n = v THEN v
                   ELSE IF end[n] = leaf /\ leaf # w /\ (w < leaf <=> v < leaf) THEN v
                   ELSE end[n]]

\* An insertion redirects to the new word the searches that ended at its place on
\* its side, and no others.
LEMMA InsertEnds ==
  ASSUME NEW d, Searchable(d), Linked(d), NEW v \in Words \ Stored(d), NEW p \in Nat,
         NEW e, LinkedTo(d, Place(d, v), v, p, e),
         NEW w \in Words, NEW end, Ends(d, w, end)
  PROVE  Ends(e, w, NewEnd(end, Place(d, v), v, w))
<1>1. PICK leaf : leaf = Place(d, v)
  OBVIOUS
<1>2. /\ leaf = NoWord <=> d.root = NoWord
      /\ leaf # NoWord => leaf \in Stored(d) /\ Child(d, leaf, v) = NoWord
      /\ leaf # v
  BY <1>1, PlaceFacts
<1> DEFINE new == NewEnd(end, leaf, v, w)
<1>3. new \in [Words -> Words]
  BY DEF NewEnd, Ends
<1>4. d.left[v] = NoWord /\ d.right[v] = NoWord /\ d \in Tree
  BY DEF Linked, Searchable
<1>5. \A n \in Words : /\ d.left[n] # v /\ d.right[n] # v
                       /\ {d.left[n], d.right[n]} \subseteq Words \cup {NoWord}
  BY <1>4, WordsAreNumbers DEF Linked, Tree
<1>6. ASSUME NEW n \in Words
      PROVE  new[n] = IF n = w \/ Child(e, n, w) = NoWord THEN n ELSE new[Child(e, n, w)]
  <2>1. CASE n = v
    <3>1. Child(e, v, w) = NoWord
      BY <1>1, <1>2, <1>4 DEF LinkedTo, Child
    <3> QED
      BY <2>1, <3>1 DEF NewEnd
  <2>2. CASE n # v /\ n = w
    <3>1. end[n] = n
      BY <2>2 DEF Ends
    <3> QED
      BY <2>2, <3>1 DEF NewEnd
  <2>3. CASE n # v /\ n # w /\ n = leaf /\ (w < leaf <=> v < leaf)
    <3>1. Child(d, n, w) = NoWord
      BY <1>2, <2>3, WordsAreNumbers DEF Child
    <3>2. end[n] = n
      BY <3>1 DEF Ends
    <3>3. Child(e, n, w) = v
      BY <1>1, <2>3 DEF LinkedTo, Child
    <3> QED
      BY <2>3, <3>2, <3>3, WordsAreNumbers DEF NewEnd
  <2>4. CASE n # v /\ n # w /\ ~(n = leaf /\ (w < leaf <=> v < leaf))
    <3>1. Child(e, n, w) = Child(d, n, w)
      BY <1>1, <2>4 DEF LinkedTo, Child
    <3>2. CASE Child(d, n, w) = NoWord
      <4>1. end[n] = n
        BY <3>2 DEF Ends
      <4>2. new[n] = n
        BY <2>4, <4>1 DEF NewEnd
      <4> QED
        BY <3>1, <3>2, <4>2
    <3>3. CASE Child(d, n, w) # NoWord
      <4>1. end[n] = end[Child(d, n, w)]
        BY <2>4, <3>3 DEF Ends
      <4>2. Child(d, n, w) # v /\ Child(d, n, w) \in Words
        BY <1>5, <3>3 DEF Child
      <4>3. new[n] = new[Child(d, n, w)]
        BY <2>4, <4>1, <4>2 DEF NewEnd
      <4> QED
        BY <2>4, <3>1, <3>3, <4>3
    <3> QED
      BY <3>2, <3>3
  <2> QED
    BY <2>1, <2>2, <2>3, <2>4
<1> HIDE DEF new
<1>7. Ends(e, w, new)
  BY <1>3, <1>6 DEF Ends
<1> QED
  BY <1>1, <1>7 DEF new

\* insert_tree makes one word more searchable.
LEMMA InsertFacts ==
  ASSUME NEW d, Searchable(d), Linked(d), FindsStored(d),
         NEW v \in Words \ Stored(d), NEW p \in Nat
  PROVE  /\ Searchable(insert_tree(d, v, p)) /\ Linked(insert_tree(d, v, p))
         /\ FindsStored(insert_tree(d, v, p))
         /\ Stored(insert_tree(d, v, p)) = Stored(d) \cup {v}
         /\ insert_tree(d, v, p).payload = [d.payload EXCEPT ![v] = p]
<1>1. PICK leaf : leaf = Place(d, v)
  OBVIOUS
<1>2. /\ leaf = NoWord <=> d.root = NoWord
      /\ leaf # NoWord => leaf \in Stored(d) /\ Child(d, leaf, v) = NoWord
      /\ leaf # v
  BY <1>1, PlaceFacts
<1>3. d \in Tree /\ leaf \in Words \cup {NoWord}
  BY <1>2 DEF Searchable, Stored
<1>4. PICK e : e = insert_tree(d, v, p)
  OBVIOUS
<1>5. LinkedTo(d, leaf, v, p, e)
  BY <1>1, <1>2, <1>3, <1>4, InsertLinks
<1>6. Stored(e) = Stored(d) \cup {v}
  BY <1>3, <1>5 DEF Stored, LinkedTo, Tree
<1>7. Searchable(e)
  <2>1. PICK depth \in [Words -> Nat] : \A n \in Words :
          /\ d.left[n] # NoWord => depth[d.left[n]] < depth[n]
          /\ d.right[n] # NoWord => depth[d.right[n]] < depth[n]
    BY DEF Searchable
  <2> DEFINE deeper == [n \in Words |-> IF n = v THEN 0 ELSE depth[n] + 1]
  <2>2. deeper \in [Words -> Nat]
    OBVIOUS
  <2>3. \A n \in Words : /\ d.left[n] # v /\ d.right[n] # v
                         /\ {d.left[n], d.right[n]} \subseteq Words \cup {NoWord}
    BY <1>3, WordsAreNumbers DEF Linked, Tree
  <2>4. d.left[v] = NoWord /\ d.right[v] = NoWord
    BY DEF Linked
  <2>5. ASSUME NEW n \in Words, NEW c, c \in {e.left[n], e.right[n]}, c # NoWord
        PROVE  deeper[c] < deeper[n]
    <3>1. CASE c = v
      <4>1. n # v
        BY <1>2, <1>5, <2>4, <2>5, <3>1 DEF LinkedTo
      <4>2. depth[n] \in Nat
        OBVIOUS
      <4> QED
        BY <3>1, <4>1, <4>2
    <3>2. CASE c # v
      <4>1. c \in {d.left[n], d.right[n]}
        BY <1>5, <2>5, <3>2 DEF LinkedTo
      <4>2. c \in Words /\ n # v
        BY <2>3, <2>4, <2>5, <4>1
      <4>3. depth[c] < depth[n] /\ depth[c] \in Nat /\ depth[n] \in Nat
        BY <2>1, <2>5, <4>1, <4>2
      <4> QED
        BY <3>2, <4>2, <4>3
    <3> QED
      BY <3>1, <3>2
  <2>6. \A n \in Words : /\ e.left[n] # NoWord => deeper[e.left[n]] < deeper[n]
                         /\ e.right[n] # NoWord => deeper[e.right[n]] < deeper[n]
    BY <2>5
  <2>7. \A w \in Words : \E end : Ends(e, w, end)
    BY <1>1, <1>5, InsertEnds DEF Searchable
  <2> HIDE DEF deeper
  <2> QED
    BY <1>5, <2>2, <2>6, <2>7 DEF Searchable, LinkedTo
<1>8. Linked(e)
  <2>1. e.root \in Stored(e) \cup {NoWord} /\ (e.root = NoWord => Stored(e) = {})
    BY <1>2, <1>5, <1>6, WordsAreNumbers DEF LinkedTo, Linked
  <2>2. ASSUME NEW n \in Words
        PROVE  /\ {e.left[n], e.right[n]} \subseteq Stored(e) \cup {NoWord}
               /\ n \notin Stored(e) => e.left[n] = NoWord /\ e.right[n] = NoWord
    BY <1>2, <1>5, <1>6, WordsAreNumbers DEF LinkedTo, Linked
  <2> QED
    BY <2>1, <2>2 DEF Linked
<1>9. ASSUME NEW w \in Stored(e) PROVE Place(e, w) = w
  <2>1. w \in Words
    BY DEF Stored
  <2>2. PICK end : Ends(d, w, end)
    BY <2>1 DEF Searchable
  <2>3. Ends(e, w, NewEnd(end, leaf, v, w))
    BY <1>1, <1>5, <2>1, <2>2, InsertEnds
  <2>4. e.root # NoWord
    BY <1>2, <1>5, WordsAreNumbers DEF LinkedTo
  <2>5. Place(e, w) = NewEnd(end, leaf, v, w)[e.root]
    BY <1>7, <2>1, <2>3, <2>4, PlaceEnds
  <2>6. CASE d.root = NoWord
    <3>1. e.root = v /\ w = v
      BY <1>2, <1>5, <1>6, <2>6 DEF LinkedTo, Linked
    <3> QED
      BY <2>5, <3>1 DEF NewEnd
  <2>7. CASE d.root # NoWord
    <3>1. e.root = d.root /\ d.root \in Words /\ d.root # v
      BY <1>2, <1>5, <2>7 DEF LinkedTo, Linked, Stored
    <3>2. Place(d, w) = end[d.root]
      BY <2>1, <2>2, <2>7, PlaceEnds
    <3>3. CASE w = v
      <4>1. end[d.root] = leaf
        BY <1>1, <3>2, <3>3
      <4> QED
        BY <1>2, <2>5, <3>1, <3>3, <4>1 DEF NewEnd
    <3>4. CASE w # v
      <4>1. end[d.root] = w
        BY <1>6, <3>2, <3>4 DEF FindsStored
      <4> QED
        BY <2>5, <3>1, <4>1 DEF NewEnd
    <3> QED
      BY <3>3, <3>4
  <2> QED
    BY <2>6, <2>7
<1> QED
  BY <1>4, <1>5, <1>6, <1>7, <1>8, <1>9 DEF FindsStored, LinkedTo

-----------------------------------------------------------------------------
(* The vectors *)

Contents == UNION {[0 .. c - 1 -> Nat] : c \in Nat}
Vec == [name : Specs \cup {"none"}, word_count : Nat, size : Nat, capacity : Nat,
        elements : Contents]
IdfVec == [size : Nat, capacity : Nat, elements : Contents]

\* A vector of c numbers with room for cap, zero where there are none yet.
Sized(vec, c, cap) ==
  /\ vec.size = c /\ vec.capacity = cap
  /\ vec.elements \in [0 .. cap - 1 -> Nat]
  /\ \A k \in c .. cap - 1 : vec.elements[k] = 0

\* One number more, and twice the room if there was none.
Enlarged(vec, resizing) ==
  [(IF resizing THEN resize_vector(vec) ELSE vec) EXCEPT !.size = @ + 1]
Room(c, cap) == IF c = cap THEN 2 * cap ELSE cap

\* Doubling a full vector leaves room for one element more.
LEMMA RoomFacts ==
  ASSUME NEW c \in Nat, NEW cap \in Nat \ {0}, c <= cap
  PROVE  Room(c, cap) \in Nat \ {0} /\ c + 1 <= Room(c, cap) /\ cap <= Room(c, cap)
BY DEF Room

\* What is in the vector when it has been enlarged.
LEMMA EnlargedElements ==
  ASSUME NEW c \in Nat, NEW cap \in Nat \ {0}, c <= cap, NEW vec \in Vec \cup IdfVec,
         Sized(vec, c, cap), NEW e, e = Enlarged(vec, c = cap)
  PROVE  /\ Sized(e, c + 1, Room(c, cap)) /\ e.elements[c] = 0
         /\ \A k \in 0 .. c - 1 : e.elements[k] = vec.elements[k]
         /\ vec \in Vec => /\ e \in Vec /\ e.name = vec.name
                           /\ e.word_count = vec.word_count
         /\ vec \in IdfVec => e \in IdfVec
<1>1. CASE c = cap
  <2>1. PICK f : f = [k \in 0 .. 2 * cap - 1 |-> IF k < c THEN vec.elements[k] ELSE 0]
    OBVIOUS
  <2>2. f \in [0 .. 2 * cap - 1 -> Nat] /\ f \in Contents
    <3>1. f \in [0 .. 2 * cap - 1 -> Nat]
      BY <1>1, <2>1 DEF Sized
    <3>2. 2 * cap \in Nat
      OBVIOUS
    <3> QED
      BY <3>1, <3>2 DEF Contents
  <2>3. e = [[vec EXCEPT !.capacity = 2 * @, !.elements = f] EXCEPT !.size = @ + 1]
    BY <1>1, <2>1 DEF Enlarged, resize_vector, Sized
  <2>4. /\ e.size = c + 1 /\ e.capacity = 2 * cap /\ e.elements = f
        /\ vec \in Vec => e \in Vec /\ e.name = vec.name /\ e.word_count = vec.word_count
        /\ vec \in IdfVec => e \in IdfVec
    <3>1. CASE vec \in Vec
      <4>1. e = [name |-> vec.name, word_count |-> vec.word_count, size |-> c + 1,
                 capacity |-> 2 * cap, elements |-> f]
        BY <2>3, <3>1 DEF Vec, Sized
      <4>2. vec \notin IdfVec
        BY <3>1 DEF Vec, IdfVec
      <4> QED
        BY <2>2, <3>1, <4>1, <4>2 DEF Vec
    <3>2. CASE vec \in IdfVec
      <4>1. e = [size |-> c + 1, capacity |-> 2 * cap, elements |-> f]
        BY <2>3, <3>2 DEF IdfVec, Sized
      <4>2. vec \notin Vec
        BY <3>2 DEF Vec, IdfVec
      <4> QED
        BY <2>2, <3>2, <4>1, <4>2 DEF IdfVec
    <3> QED
      BY <3>1, <3>2
  <2>5. Sized(e, c + 1, 2 * cap)
    <3>1. \A k \in c + 1 .. 2 * cap - 1 : f[k] = 0
      BY <1>1, <2>1
    <3> QED
      BY <2>2, <2>4, <3>1 DEF Sized
  <2>6. f[c] = 0 /\ \A k \in 0 .. c - 1 : f[k] = vec.elements[k]
    BY <1>1, <2>1
  <2> QED
    BY <1>1, <2>4, <2>5, <2>6 DEF Room
<1>2. CASE c # cap
  <2>1. e = [vec EXCEPT !.size = @ + 1]
    BY <1>2 DEF Enlarged
  <2>2. /\ e.size = c + 1 /\ e.capacity = cap /\ e.elements = vec.elements
        /\ vec \in Vec => e \in Vec /\ e.name = vec.name /\ e.word_count = vec.word_count
        /\ vec \in IdfVec => e \in IdfVec
    BY <2>1 DEF Vec, IdfVec, Sized
  <2>3. Sized(e, c + 1, cap)
    BY <1>2, <2>2 DEF Sized
  <2>4. e.elements[c] = 0
    BY <1>2, <2>2 DEF Sized
  <2> QED
    BY <1>2, <2>2, <2>3, <2>4 DEF Room
<1> QED
  BY <1>1, <1>2

\* new_word enlarges the vector of the numbers by its own number.
LEMMA NewWordElements ==
  ASSUME NEW c \in Nat, NEW cap \in Nat \ {0}, c <= cap, NEW vec \in Vec,
         Sized(vec, c, cap), NEW e, e = new_word(vec)
  PROVE  /\ e \in Vec /\ e.name = vec.name /\ e.word_count = vec.word_count
         /\ Sized(e, c + 1, Room(c, cap)) /\ e.elements[c] = c
         /\ \A k \in 0 .. c - 1 : e.elements[k] = vec.elements[k]
<1>1. PICK g : g = IF c = cap THEN resize_vector(vec) ELSE vec
  OBVIOUS
<1>2. PICK h : h = Enlarged(vec, c = cap)
  OBVIOUS
<1>3. /\ Sized(h, c + 1, Room(c, cap)) /\ h.elements[c] = 0
      /\ \A k \in 0 .. c - 1 : h.elements[k] = vec.elements[k]
      /\ h \in Vec /\ h.name = vec.name /\ h.word_count = vec.word_count
  BY <1>2, EnlargedElements
<1>4. h = [g EXCEPT !.size = @ + 1]
  BY <1>1, <1>2 DEF Enlarged
<1>5. e = [g EXCEPT !.elements[c] = c, !.size = @ + 1]
  BY <1>1 DEF new_word, Sized
<1>6. g = [name |-> g.name, word_count |-> g.word_count, size |-> g.size,
           capacity |-> g.capacity, elements |-> g.elements]
  BY <1>1 DEF Vec, resize_vector
<1>7. /\ e.name = h.name /\ e.word_count = h.word_count /\ e.size = h.size
      /\ e.capacity = h.capacity /\ e.elements = [h.elements EXCEPT ![c] = c]
      /\ e = [name |-> e.name, word_count |-> e.word_count, size |-> e.size,
              capacity |-> e.capacity, elements |-> e.elements]
  BY <1>4, <1>5, <1>6
<1>8. PICK room \in Nat \ {0} : room = Room(c, cap) /\ c + 1 <= room
  BY RoomFacts
<1>9. e.elements \in [0 .. room - 1 -> Nat] /\ e.elements \in Contents
  <2>1. h.elements \in [0 .. room - 1 -> Nat]
    BY <1>3, <1>8 DEF Sized
  <2>2. e.elements \in [0 .. room - 1 -> Nat]
    BY <1>7, <1>8, <2>1
  <2> QED
    BY <1>8, <2>2 DEF Contents
<1>10. Sized(e, c + 1, room)
  BY <1>3, <1>7, <1>8, <1>9 DEF Sized
<1>11. e.elements[c] = c /\ \A k \in 0 .. c - 1 : e.elements[k] = vec.elements[k]
  BY <1>3, <1>7, <1>8 DEF Sized
<1>12. e \in Vec
  BY <1>3, <1>7, <1>9 DEF Vec
<1> QED
  BY <1>3, <1>7, <1>8, <1>10, <1>11, <1>12

\* update_element counts an occurrence, and the word if it is the first one.
LEMMA UpdatedElement ==
  ASSUME NEW c \in Nat, NEW cap \in Nat, c <= cap, NEW vec \in Vec, Sized(vec, c, cap),
         NEW pos \in 0 .. c - 1, NEW e, e = update_element(vec, pos)
  PROVE  /\ e \in Vec /\ e.name = vec.name /\ Sized(e, c, cap)
         /\ \A k \in 0 .. c - 1 :
              e.elements[k] = IF k = pos THEN vec.elements[k] + 1 ELSE vec.elements[k]
         /\ e.word_count = IF vec.elements[pos] = 0 THEN vec.word_count + 1 ELSE vec.word_count
<1>1. e = [name |-> vec.name,
           word_count |-> IF vec.elements[pos] = 0 THEN vec.word_count + 1 ELSE vec.word_count,
           size |-> c, capacity |-> cap, elements |-> [vec.elements EXCEPT ![pos] = @ + 1]]
  BY DEF update_element, idf_incr, Vec, Sized
<1>2. vec.elements \in [0 .. cap - 1 -> Nat] /\ pos \in 0 .. cap - 1
  BY DEF Sized
<1>3. [vec.elements EXCEPT ![pos] = @ + 1] \in [0 .. cap - 1 -> Nat]
  BY <1>2
<1>4. e.elements \in Contents
  BY <1>1, <1>3 DEF Contents
<1>5. Sized(e, c, cap)
  BY <1>1, <1>2, <1>3 DEF Sized
<1>6. \A k \in 0 .. c - 1 :
        e.elements[k] = IF k = pos THEN vec.elements[k] + 1 ELSE vec.elements[k]
  BY <1>1, <1>2
<1> QED
  BY <1>1, <1>4, <1>5, <1>6 DEF Vec

\* update_idf_vector counts a text at one position.
LEMMA UpdatedIdf ==
  ASSUME NEW c \in Nat, NEW cap \in Nat, c <= cap, NEW vec \in IdfVec, Sized(vec, c, cap),
         NEW pos \in 0 .. c - 1, NEW e, e = update_idf_vector(vec, pos)
  PROVE  /\ e \in IdfVec /\ Sized(e, c, cap)
         /\ \A k \in 0 .. c - 1 :
              e.elements[k] = IF k = pos THEN vec.elements[k] + 1 ELSE vec.elements[k]
<1>1. e = [size |-> c, capacity |-> cap, elements |-> [vec.elements EXCEPT ![pos] = @ + 1]]
  BY DEF update_idf_vector, IdfVec, Sized
<1>2. vec.elements \in [0 .. cap - 1 -> Nat] /\ pos \in 0 .. cap - 1
  BY DEF Sized
<1>3. [vec.elements EXCEPT ![pos] = @ + 1] \in [0 .. cap - 1 -> Nat]
  BY <1>2
<1>4. e.elements \in Contents
  BY <1>1, <1>3 DEF Contents
<1>5. Sized(e, c, cap)
  BY <1>1, <1>2, <1>3 DEF Sized
<1>6. \A k \in 0 .. c - 1 :
        e.elements[k] = IF k = pos THEN vec.elements[k] + 1 ELSE vec.elements[k]
  BY <1>1, <1>2
<1> QED
  BY <1>1, <1>4, <1>5, <1>6 DEF IdfVec

-----------------------------------------------------------------------------
(* The structures that bow_it is handed, and what they say of texts in     *)
(* which word w of spec x occurs o[x][w] times.                            *)

Struct == [bag : [0 .. FILES -> Vec], idf_vec : IdfVec, dict : Tree, word_counter : Nat]
Texts == [Specs -> [Words -> Nat]]

\* Each stored word has a number of its own.
NumbersOK(d, c) ==
  /\ IsFiniteSet(Stored(d))
  /\ \A w \in Stored(d) : d.payload[w] \in 0 .. c - 1
  /\ \A v, w \in Stored(d) : d.payload[v] = d.payload[w] => v = w
  /\ \A n \in 0 .. c - 1 : \E w \in Stored(d) : d.payload[w] = n

\* All vectors have the numbers of the words that are stored, and the same room.
VectorsOK(s) ==
  /\ s.idf_vec.capacity \in Nat \ {0} /\ s.word_counter <= s.idf_vec.capacity
  /\ Sized(s.idf_vec, s.word_counter, s.idf_vec.capacity)
  /\ \A i \in 0 .. FILES : Sized(s.bag[i], s.word_counter, s.idf_vec.capacity)
  /\ \A k \in 0 .. s.word_counter - 1 : s.bag[0].elements[k] = k
  /\ s.bag[0].word_count = 0
Laid(s) ==
  /\ s \in Struct
  /\ Searchable(s.dict) /\ Linked(s.dict) /\ FindsStored(s.dict)
  /\ NumbersOK(s.dict, s.word_counter)
  /\ VectorsOK(s)

\* Vector i holds a text.
Holds(s, i, text) ==
  /\ \A w \in Stored(s.dict) : s.bag[i].elements[s.dict.payload[w]] = text[w]
  /\ s.bag[i].word_count = Cardinality({w \in Stored(s.dict) : text[w] > 0})

\* The first t vectors after the numbers are of a spec each, the others of none yet.
NoText == [w \in Words |-> 0]
TextsIn(o, w) == {x \in Specs : o[x][w] > 0}
Counts(s, t, o) ==
  /\ \A i \in 1 .. FILES : Holds(s, i, IF i <= t THEN o[s.bag[i].name] ELSE NoText)
  /\ \A i \in 1 .. t : s.bag[i].name \in Specs
  /\ \A i, j \in 1 .. t : s.bag[i].name = s.bag[j].name => i = j
  /\ \A w \in Stored(s.dict) :
       s.idf_vec.elements[s.dict.payload[w]] = Cardinality(TextsIn(o, w))

\* The words that are stored are those that count and have been met.
StoresMet(s, o) == Stored(s.dict) = {w \in Words \ StopWords : TextsIn(o, w) # {}}

\* What the last word of the dictionary makes of the structures.
Widened(s, w) ==
  [bag |-> [i \in 0 .. FILES |-> IF i = 0 THEN new_word(s.bag[0])
              ELSE Enlarged(s.bag[i], s.word_counter = s.idf_vec.capacity)],
   idf_vec |-> Enlarged(s.idf_vec, s.word_counter = s.idf_vec.capacity),
   dict |-> insert_tree(s.dict, w, s.word_counter),
   word_counter |-> s.word_counter + 1]

\* The number of files is a natural number.
LEMMA FilesAreCounted == FILES \in Nat
BY WordsAssumption, FS_CardinalityType DEF FILES

\* The dictionary after a new word.
LEMMA WidenedNumbers ==
  ASSUME NEW s, Laid(s), NEW w \in Words \ Stored(s.dict), NEW d,
         d = insert_tree(s.dict, w, s.word_counter)
  PROVE  /\ Searchable(d) /\ Linked(d) /\ FindsStored(d) /\ NumbersOK(d, s.word_counter + 1)
         /\ Stored(d) = Stored(s.dict) \cup {w} /\ d.payload[w] = s.word_counter
         /\ \A v \in Stored(s.dict) : d.payload[v] = s.dict.payload[v]
<1>1. PICK c \in Nat : c = s.word_counter
  BY DEF Laid, Struct
<1>2. /\ Searchable(d) /\ Linked(d) /\ FindsStored(d)
      /\ Stored(d) = Stored(s.dict) \cup {w} /\ d.payload = [s.dict.payload EXCEPT ![w] = c]
  BY <1>1, InsertFacts DEF Laid
<1>3. s.dict.payload \in [Words -> Nat \cup {-1}]
  BY DEF Laid, Struct, Tree
<1>4. d.payload[w] = c /\ \A v \in Stored(s.dict) : d.payload[v] = s.dict.payload[v]
  BY <1>2, <1>3 DEF Stored
<1>5. IsFiniteSet(Stored(d))
  BY <1>2, FS_AddElement DEF Laid, NumbersOK
<1>6. \A v \in Stored(s.dict) : d.payload[v] \in 0 .. c - 1
  BY <1>1, <1>4 DEF Laid, NumbersOK
<1>7. \A v \in Stored(d) : d.payload[v] \in 0 .. c
  BY <1>2, <1>4, <1>6
<1>8. \A u, v \in Stored(d) : d.payload[u] = d.payload[v] => u = v
  BY <1>2, <1>4, <1>6 DEF Laid, NumbersOK
<1>9. ASSUME NEW n \in 0 .. c PROVE \E v \in Stored(d) : d.payload[v] = n
  <2>1. CASE n = c
    BY <1>2, <1>4, <2>1
  <2>2. CASE n # c
    <3>1. n \in 0 .. c - 1
      BY <2>2
    <3>2. PICK v \in Stored(s.dict) : s.dict.payload[v] = n
      BY <1>1, <3>1 DEF Laid, NumbersOK
    <3> QED
      BY <1>2, <1>4, <3>2
  <2> QED
    BY <2>1, <2>2
<1>10. NumbersOK(d, c + 1)
  BY <1>5, <1>7, <1>8, <1>9 DEF NumbersOK
<1> QED
  BY <1>1, <1>2, <1>4, <1>10

\* Every vector after a new word.
LEMMA WidenedVector ==
  ASSUME NEW s, Laid(s), NEW w, NEW e, e = Widened(s, w), NEW i \in 0 .. FILES
  PROVE  /\ e.bag[i] \in Vec /\ e.bag[i].name = s.bag[i].name
         /\ e.bag[i].word_count = s.bag[i].word_count
         /\ Sized(e.bag[i], s.word_counter + 1, Room(s.word_counter, s.idf_vec.capacity))
         /\ \A k \in 0 .. s.word_counter - 1 : e.bag[i].elements[k] = s.bag[i].elements[k]
         /\ e.bag[i].elements[s.word_counter] = IF i = 0 THEN s.word_counter ELSE 0
<1>1. PICK c \in Nat, cap \in Nat \ {0} :
        c = s.word_counter /\ cap = s.idf_vec.capacity /\ c <= cap
  BY DEF Laid, Struct, VectorsOK
<1>2. PICK vec \in Vec : vec = s.bag[i]
  BY DEF Laid, Struct
<1>3. Sized(vec, c, cap)
  BY <1>1, <1>2 DEF Laid, VectorsOK
<1>4. e.bag[i] = IF i = 0 THEN new_word(vec) ELSE Enlarged(vec, c = cap)
  BY <1>1, <1>2 DEF Widened
<1>5. CASE i = 0
  BY <1>1, <1>2, <1>3, <1>4, <1>5, NewWordElements
<1>6. CASE i # 0
  <2>1. PICK f : f = e.bag[i]
    OBVIOUS
  <2>2. f = Enlarged(vec, c = cap)
    BY <1>4, <1>6, <2>1
  <2>3. /\ Sized(f, c + 1, Room(c, cap)) /\ f.elements[c] = 0
        /\ \A k \in 0 .. c - 1 : f.elements[k] = vec.elements[k]
        /\ f \in Vec /\ f.name = vec.name /\ f.word_count = vec.word_count
    BY <1>1, <1>3, <2>2, EnlargedElements
  <2> QED
    BY <1>1, <1>2, <1>6, <2>1, <2>3
<1> QED
  BY <1>5, <1>6

\* The frequencies after a new word: one more, and zero.
LEMMA WidenedIdf ==
  ASSUME NEW s, Laid(s), NEW w, NEW e, e = Widened(s, w)
  PROVE  /\ e.idf_vec \in IdfVec
         /\ Sized(e.idf_vec, s.word_counter + 1, Room(s.word_counter, s.idf_vec.capacity))
         /\ \A k \in 0 .. s.word_counter - 1 : e.idf_vec.elements[k] = s.idf_vec.elements[k]
         /\ e.idf_vec.elements[s.word_counter] = 0
<1>1. PICK c \in Nat, cap \in Nat \ {0} :
        c = s.word_counter /\ cap = s.idf_vec.capacity /\ c <= cap
  BY DEF Laid, Struct, VectorsOK
<1>2. PICK vec \in IdfVec : vec = s.idf_vec
  BY DEF Laid, Struct
<1>3. Sized(vec, c, cap)
  BY <1>1, <1>2 DEF Laid, VectorsOK
<1>4. PICK f : f = e.idf_vec
  OBVIOUS
<1>5. f = Enlarged(vec, c = cap)
  BY <1>1, <1>2, <1>4 DEF Widened
<1> QED
  BY <1>1, <1>2, <1>3, <1>4, <1>5, EnlargedElements

\* A new word keeps the structures in order.
LEMMA WidenedLaid ==
  ASSUME NEW s, Laid(s), NEW w \in Words \ Stored(s.dict)
  PROVE  Laid(Widened(s, w))
<1>1. PICK e : e = Widened(s, w)
  OBVIOUS
<1>2. PICK c \in Nat, cap \in Nat \ {0} :
        c = s.word_counter /\ cap = s.idf_vec.capacity /\ c <= cap
  BY DEF Laid, Struct, VectorsOK
<1>11. PICK room : room = Room(c, cap)
  OBVIOUS
<1>3. room \in Nat \ {0} /\ c + 1 <= room
  BY <1>2, <1>11, RoomFacts
<1>4. /\ Searchable(e.dict) /\ Linked(e.dict) /\ FindsStored(e.dict)
      /\ NumbersOK(e.dict, c + 1)
  BY <1>1, <1>2, WidenedNumbers DEF Widened
<1>5. \A i \in 0 .. FILES : e.bag[i] \in Vec /\ Sized(e.bag[i], c + 1, room)
  BY <1>1, <1>2, <1>11, WidenedVector
<1>6. e.idf_vec \in IdfVec /\ Sized(e.idf_vec, c + 1, room)
  BY <1>1, <1>2, <1>11, WidenedIdf
<1>7. e.idf_vec.capacity = room /\ e.word_counter = c + 1
  BY <1>1, <1>2, <1>6 DEF Sized, Widened
<1>8. \A k \in 0 .. c : e.bag[0].elements[k] = k
  <2>1. 0 \in 0 .. FILES
    BY FilesAreCounted
  <2>2. /\ \A k \in 0 .. c - 1 : e.bag[0].elements[k] = s.bag[0].elements[k]
        /\ e.bag[0].elements[c] = c
    BY <1>1, <1>2, <2>1, WidenedVector
  <2>3. \A k \in 0 .. c - 1 : s.bag[0].elements[k] = k
    BY <1>2 DEF Laid, VectorsOK
  <2> QED
    BY <2>2, <2>3
<1>12. e.bag[0].word_count = 0
  <2>1. 0 \in 0 .. FILES /\ s.bag[0].word_count = 0
    BY FilesAreCounted DEF Laid, VectorsOK
  <2> QED
    BY <1>1, <2>1, WidenedVector
<1>9. VectorsOK(e)
  BY <1>3, <1>5, <1>6, <1>7, <1>8, <1>12 DEF VectorsOK
<1>10. e \in Struct
  <2>1. e.bag = [i \in 0 .. FILES |-> e.bag[i]]
    BY <1>1 DEF Widened
  <2>2. e.bag \in [0 .. FILES -> Vec]
    BY <1>5, <2>1
  <2>3. e = [bag |-> e.bag, idf_vec |-> e.idf_vec, dict |-> e.dict, word_counter |-> c + 1]
    BY <1>1, <1>2 DEF Widened
  <2> QED
    BY <1>4, <1>6, <2>2, <2>3 DEF Struct, Searchable
<1> QED
  BY <1>1, <1>4, <1>7, <1>9, <1>10 DEF Laid

\* A new word that no text has yet does not change what is said of the texts.
LEMMA WidenedCounts ==
  ASSUME NEW s, Laid(s), NEW t \in 0 .. FILES, NEW o \in Texts, Counts(s, t, o),
         NEW w \in Words \ Stored(s.dict), TextsIn(o, w) = {}
  PROVE  Counts(Widened(s, w), t, o)
<1>1. PICK e : e = Widened(s, w)
  OBVIOUS
<1>2. PICK c \in Nat : c = s.word_counter
  BY DEF Laid, Struct
<1>3. /\ Stored(e.dict) = Stored(s.dict) \cup {w} /\ e.dict.payload[w] = c
      /\ \A v \in Stored(s.dict) : e.dict.payload[v] = s.dict.payload[v]
                                   /\ s.dict.payload[v] \in 0 .. c - 1
  <2>1. e.dict = insert_tree(s.dict, w, s.word_counter)
    BY <1>1 DEF Widened
  <2>2. /\ Stored(e.dict) = Stored(s.dict) \cup {w} /\ e.dict.payload[w] = c
        /\ \A v \in Stored(s.dict) : e.dict.payload[v] = s.dict.payload[v]
    BY <1>2, <2>1, WidenedNumbers
  <2>3. \A v \in Stored(s.dict) : s.dict.payload[v] \in 0 .. c - 1
    BY <1>2 DEF Laid, NumbersOK
  <2> QED
    BY <2>2, <2>3
<1>4. \A x \in Specs : o[x][w] = 0
  BY DEF TextsIn, Texts
<1>5. ASSUME NEW i \in 1 .. FILES, NEW text \in [Words -> Nat], Holds(s, i, text), text[w] = 0
      PROVE  Holds(e, i, text)
  <2>1. i \in 0 .. FILES /\ i # 0
    BY FilesAreCounted
  <2>2. /\ e.bag[i].word_count = s.bag[i].word_count
        /\ \A k \in 0 .. c - 1 : e.bag[i].elements[k] = s.bag[i].elements[k]
        /\ e.bag[i].elements[c] = 0
    BY <1>1, <1>2, <2>1, WidenedVector
  <2>3. \A v \in Stored(e.dict) : e.bag[i].elements[e.dict.payload[v]] = text[v]
    BY <1>3, <1>5, <2>2 DEF Holds
  <2>4. {v \in Stored(e.dict) : text[v] > 0} = {v \in Stored(s.dict) : text[v] > 0}
    BY <1>3, <1>5
  <2> QED
    BY <1>5, <2>2, <2>3, <2>4 DEF Holds
<1>6. \A i \in 1 .. FILES : e.bag[i].name = s.bag[i].name
  BY <1>1, FilesAreCounted, WidenedVector
<1>7. \A i \in 1 .. FILES : Holds(e, i, IF i <= t THEN o[e.bag[i].name] ELSE NoText)
  <2> TAKE i \in 1 .. FILES
  <2>1. PICK text : text = IF i <= t THEN o[s.bag[i].name] ELSE NoText
    OBVIOUS
  <2>2. text \in [Words -> Nat] /\ text[w] = 0
    <3>1. CASE i <= t
      <4>1. s.bag[i].name \in Specs
        BY <3>1, FilesAreCounted DEF Counts
      <4> QED
        BY <1>4, <2>1, <3>1, <4>1 DEF Texts
    <3>2. CASE ~(i <= t)
      BY <2>1, <3>2 DEF NoText
    <3> QED
      BY <3>1, <3>2
  <2>3. Holds(s, i, text)
    BY <2>1 DEF Counts
  <2>4. Holds(e, i, text)
    BY <1>5, <2>2, <2>3
  <2> QED
    BY <1>6, <2>1, <2>4
<1>8. \A v \in Stored(e.dict) :
        e.idf_vec.elements[e.dict.payload[v]] = Cardinality(TextsIn(o, v))
  <2>1. /\ \A k \in 0 .. c - 1 : e.idf_vec.elements[k] = s.idf_vec.elements[k]
        /\ e.idf_vec.elements[c] = 0
    BY <1>1, <1>2, WidenedIdf
  <2>2. Cardinality(TextsIn(o, w)) = 0
    BY FS_EmptySet
  <2> QED
    BY <1>3, <2>1, <2>2 DEF Counts
<1>9. 1 .. t \subseteq 1 .. FILES
  BY FilesAreCounted
<1> QED
  BY <1>1, <1>6, <1>7, <1>8, <1>9 DEF Counts

\* One occurrence more.
Once(o, x, w) == [o EXCEPT ![x][w] = @ + 1]

\* What an occurrence more changes in what the texts say.
LEMMA OnceFacts ==
  ASSUME NEW o \in Texts, NEW x \in Specs, NEW w \in Words
  PROVE  /\ Once(o, x, w) \in Texts
         /\ \A y \in Specs, v \in Words :
              Once(o, x, w)[y][v] = IF y = x /\ v = w THEN o[y][v] + 1 ELSE o[y][v]
         /\ \A v \in Words :
              TextsIn(Once(o, x, w), v) =
                IF v = w THEN TextsIn(o, v) \cup {x} ELSE TextsIn(o, v)
<1>1. PICK p : p = Once(o, x, w)
  OBVIOUS
<1>2. p \in Texts
  BY <1>1 DEF Once, Texts
<1>3. \A y \in Specs, v \in Words : p[y][v] = IF y = x /\ v = w THEN o[y][v] + 1 ELSE o[y][v]
  BY <1>1 DEF Once, Texts
<1>4. ASSUME NEW v \in Words
      PROVE  TextsIn(p, v) = IF v = w THEN TextsIn(o, v) \cup {x} ELSE TextsIn(o, v)
  <2>1. \A y \in Specs : o[y][v] \in Nat
    BY DEF Texts
  <2> QED
    BY <1>3, <2>1 DEF TextsIn
<1> QED
  BY <1>1, <1>2, <1>3, <1>4

\* The texts with a word are finitely many.
LEMMA TextsAreFew ==
  ASSUME NEW o, NEW w
  PROVE  IsFiniteSet(TextsIn(o, w)) /\ Cardinality(TextsIn(o, w)) \in Nat
<1>1. TextsIn(o, w) \subseteq Specs
  BY DEF TextsIn
<1> QED
  BY <1>1, WordsAssumption, FS_Subset, FS_CardinalityType

\* What old_word changes: one vector, and the frequency if the word is new to it.
LEMMA OldWordFields ==
  ASSUME NEW s \in Struct, NEW k \in 0 .. FILES, NEW pos, NEW e, e = old_word(s, k, pos)
  PROVE  /\ e.dict = s.dict /\ e.word_counter = s.word_counter
         /\ e.bag = [s.bag EXCEPT ![k] = update_element(s.bag[k], pos)]
         /\ e.idf_vec = IF s.bag[k].elements[pos] = 0 THEN update_idf_vector(s.idf_vec, pos)
                        ELSE s.idf_vec
         /\ e = [bag |-> e.bag, idf_vec |-> e.idf_vec, dict |-> e.dict,
                 word_counter |-> e.word_counter]
BY DEF old_word, Struct, idf_incr

\* An occurrence keeps the structures in order.
LEMMA UpdatedLaid ==
  ASSUME NEW s, Laid(s), NEW k \in 1 .. FILES, NEW pos \in 0 .. s.word_counter - 1
  PROVE  Laid(old_word(s, k, pos))
<1>1. PICK e : e = old_word(s, k, pos)
  OBVIOUS
<1>2. s \in Struct /\ k \in 0 .. FILES /\ k # 0
  BY FilesAreCounted DEF Laid
<1>3. PICK c \in Nat, cap \in Nat \ {0} :
        c = s.word_counter /\ cap = s.idf_vec.capacity /\ c <= cap
  BY <1>2 DEF Laid, Struct, VectorsOK
<1>4. /\ e.dict = s.dict /\ e.word_counter = c
      /\ e.bag = [s.bag EXCEPT ![k] = update_element(s.bag[k], pos)]
      /\ e.idf_vec = IF s.bag[k].elements[pos] = 0 THEN update_idf_vector(s.idf_vec, pos)
                     ELSE s.idf_vec
      /\ e = [bag |-> e.bag, idf_vec |-> e.idf_vec, dict |-> e.dict,
              word_counter |-> e.word_counter]
  BY <1>1, <1>2, <1>3, OldWordFields
<1>5. \A i \in 0 .. FILES : s.bag[i] \in Vec /\ Sized(s.bag[i], c, cap)
  BY <1>2, <1>3 DEF Laid, VectorsOK, Struct
<1>6. \A i \in 0 .. FILES : e.bag[i] \in Vec /\ Sized(e.bag[i], c, cap)
  <2>1. update_element(s.bag[k], pos) \in Vec /\ Sized(update_element(s.bag[k], pos), c, cap)
    BY <1>2, <1>3, <1>5, UpdatedElement
  <2>2. s.bag \in [0 .. FILES -> Vec]
    BY <1>2 DEF Struct
  <2> QED
    BY <1>4, <1>5, <2>1, <2>2
<1>7. e.idf_vec \in IdfVec /\ Sized(e.idf_vec, c, cap)
  <2>1. s.idf_vec \in IdfVec /\ Sized(s.idf_vec, c, cap)
    BY <1>2, <1>3 DEF Laid, VectorsOK, Struct
  <2>2. /\ update_idf_vector(s.idf_vec, pos) \in IdfVec
        /\ Sized(update_idf_vector(s.idf_vec, pos), c, cap)
    BY <1>3, <2>1, UpdatedIdf
  <2> QED
    BY <1>4, <2>1, <2>2
<1>8. e.idf_vec.capacity = cap
  BY <1>7 DEF Sized
<1>9. e.bag[0].word_count = 0 /\ \A n \in 0 .. c - 1 : e.bag[0].elements[n] = n
  <2>1. e.bag[0] = s.bag[0]
    BY <1>2, <1>4, FilesAreCounted DEF Struct
  <2> QED
    BY <1>3, <2>1 DEF Laid, VectorsOK
<1>10. VectorsOK(e)
  BY <1>3, <1>4, <1>6, <1>7, <1>8, <1>9 DEF VectorsOK
<1>11. e \in Struct
  <2>1. e.bag \in [0 .. FILES -> Vec]
    <3>1. DOMAIN e.bag = 0 .. FILES /\ e.bag = [i \in 0 .. FILES |-> e.bag[i]]
      BY <1>2, <1>4 DEF Struct
    <3> QED
      BY <1>6, <3>1
  <2> QED
    BY <1>2, <1>4, <1>7, <2>1 DEF Struct
<1>12. NumbersOK(e.dict, e.word_counter)
  BY <1>3, <1>4 DEF Laid
<1> QED
  BY <1>1, <1>4, <1>10, <1>11, <1>12 DEF Laid

\* Both the vector of the text and the frequency count the occurrence.
LEMMA UpdatedCounts ==
  ASSUME NEW s, Laid(s), NEW t \in 0 .. FILES, NEW o \in Texts, Counts(s, t, o),
         NEW w \in Stored(s.dict), NEW k \in 1 .. t
  PROVE  Counts(old_word(s, k, s.dict.payload[w]), t, Once(o, s.bag[k].name, w))
<1>1. PICK pos, x, e, p : /\ pos = s.dict.payload[w] /\ x = s.bag[k].name
                          /\ e = old_word(s, k, pos) /\ p = Once(o, x, w)
  OBVIOUS
<1>2. s \in Struct /\ k \in 0 .. FILES /\ k \in 1 .. FILES /\ w \in Words
  BY FilesAreCounted DEF Laid, Stored
<1>3. PICK c \in Nat, cap \in Nat \ {0} :
        c = s.word_counter /\ cap = s.idf_vec.capacity /\ c <= cap
  BY <1>2 DEF Laid, Struct, VectorsOK
<1>4. /\ pos \in 0 .. c - 1
      /\ \A v \in Stored(s.dict) : s.dict.payload[v] \in 0 .. c - 1
      /\ \A v \in Stored(s.dict) : s.dict.payload[v] = pos <=> v = w
  BY <1>1, <1>3 DEF Laid, NumbersOK
<1>5. /\ e.dict = s.dict
      /\ e.bag = [s.bag EXCEPT ![k] = update_element(s.bag[k], pos)]
      /\ e.idf_vec = IF s.bag[k].elements[pos] = 0 THEN update_idf_vector(s.idf_vec, pos)
                     ELSE s.idf_vec
  BY <1>1, <1>2, OldWordFields
<1>6. x \in Specs /\ \A i \in 1 .. t : s.bag[i].name \in Specs /\ (s.bag[i].name = x => i = k)
  BY <1>1 DEF Counts
<1>7. /\ p \in Texts
      /\ \A y \in Specs, v \in Words :
           p[y][v] = IF y = x /\ v = w THEN o[y][v] + 1 ELSE o[y][v]
      /\ \A v \in Words :
           TextsIn(p, v) = IF v = w THEN TextsIn(o, v) \cup {x} ELSE TextsIn(o, v)
  <2>1. p = Once(o, x, w) /\ w \in Words /\ x \in Specs
    BY <1>1, <1>2, <1>6
  <2> QED
    BY <2>1, OnceFacts
<1>8. s.bag[k] \in Vec /\ Sized(s.bag[k], c, cap) /\ s.bag \in [0 .. FILES -> Vec]
  BY <1>2, <1>3 DEF Laid, VectorsOK, Struct
<1>9. PICK f : f = e.bag[k]
  OBVIOUS
<1>10. /\ f.name = x
       /\ \A n \in 0 .. c - 1 : f.elements[n] = IF n = pos THEN s.bag[k].elements[n] + 1
                                                ELSE s.bag[k].elements[n]
       /\ f.word_count = IF s.bag[k].elements[pos] = 0 THEN s.bag[k].word_count + 1
                         ELSE s.bag[k].word_count
  <2>1. f = update_element(s.bag[k], pos)
    BY <1>2, <1>5, <1>8, <1>9
  <2>2. PICK vec \in Vec : vec = s.bag[k]
    BY <1>8
  <2>3. Sized(vec, c, cap) /\ f = update_element(vec, pos)
    BY <1>8, <2>1, <2>2
  <2>4. /\ f.name = vec.name
        /\ \A n \in 0 .. c - 1 :
             f.elements[n] = IF n = pos THEN vec.elements[n] + 1 ELSE vec.elements[n]
        /\ f.word_count = IF vec.elements[pos] = 0 THEN vec.word_count + 1 ELSE vec.word_count
    BY <1>3, <1>4, <2>3, UpdatedElement
  <2> QED
    BY <1>1, <2>2, <2>4
<1>11. \A i \in 0 .. FILES : i # k => e.bag[i] = s.bag[i]
  BY <1>5, <1>8
<1>12. Holds(s, k, o[x])
  BY <1>1, <1>2 DEF Counts
<1>13. s.bag[k].elements[pos] = o[x][w] /\ o[x] \in [Words -> Nat]
  BY <1>1, <1>6, <1>12 DEF Holds, Texts
<1>14. Holds(e, k, p[x])
  <2>1. \A v \in Stored(s.dict) : f.elements[s.dict.payload[v]] = p[x][v]
    <3> TAKE v \in Stored(s.dict)
    <3>1. v \in Words
      BY DEF Stored
    <3>2. s.bag[k].elements[s.dict.payload[v]] = o[x][v]
      BY <1>12 DEF Holds
    <3> QED
      BY <1>4, <1>6, <1>7, <1>10, <3>1, <3>2
  <2> DEFINE before == {v \in Stored(s.dict) : o[x][v] > 0}
             after == {v \in Stored(s.dict) : p[x][v] > 0}
  <2>2. \A v \in Stored(s.dict) : /\ o[x][v] \in Nat
                                  /\ p[x][v] = IF v = w THEN o[x][v] + 1 ELSE o[x][v]
    BY <1>6, <1>7, <1>13 DEF Stored
  <2>3. after = before \cup {w}
    BY <2>2
  <2>4. IsFiniteSet(before)
    <3>1. before \subseteq Stored(s.dict)
      OBVIOUS
    <3> QED
      BY <3>1, FS_Subset DEF Laid, NumbersOK
  <2>5. Cardinality(after) =
          IF w \in before THEN Cardinality(before) ELSE Cardinality(before) + 1
    <3> HIDE DEF before, after
    <3> QED
      BY <2>3, <2>4, FS_AddElement
  <2>6. s.bag[k].word_count = Cardinality(before)
    BY <1>12 DEF Holds
  <2>7. w \in before <=> o[x][w] # 0
    BY <2>2
  <2>8. f.word_count = Cardinality(after)
    <3> HIDE DEF before, after
    <3> QED
      BY <1>10, <1>13, <2>5, <2>6, <2>7
  <2> QED
    BY <1>5, <1>9, <2>1, <2>8 DEF Holds
<1>15. ASSUME NEW i \in 1 .. FILES, i # k
       PROVE  Holds(e, i, IF i <= t THEN p[s.bag[i].name] ELSE NoText)
  <2>1. e.bag[i] = s.bag[i]
    BY <1>11, <1>15, FilesAreCounted
  <2>2. Holds(s, i, IF i <= t THEN o[s.bag[i].name] ELSE NoText)
    BY DEF Counts
  <2>3. CASE i <= t
    <3>1. i \in 1 .. t
      BY <2>3, FilesAreCounted
    <3>2. s.bag[i].name \in Specs /\ s.bag[i].name # x
      BY <1>6, <1>15, <3>1
    <3>3. p[s.bag[i].name] = o[s.bag[i].name]
      <4>1. /\ p[s.bag[i].name] \in [Words -> Nat] /\ o[s.bag[i].name] \in [Words -> Nat]
            /\ \A v \in Words : p[s.bag[i].name][v] = o[s.bag[i].name][v]
        BY <1>7, <3>2 DEF Texts
      <4> QED
        BY <4>1
    <3> QED
      BY <1>5, <2>1, <2>2, <2>3, <3>3 DEF Holds
  <2>4. CASE ~(i <= t)
    BY <1>5, <2>1, <2>2, <2>4 DEF Holds
  <2> QED
    BY <2>3, <2>4
<1>16. \A i \in 1 .. FILES : e.bag[i].name = s.bag[i].name
  BY <1>1, <1>9, <1>10, <1>11, FilesAreCounted
<1>17. \A i \in 1 .. FILES : Holds(e, i, IF i <= t THEN p[e.bag[i].name] ELSE NoText)
  <2> TAKE i \in 1 .. FILES
  <2>1. CASE i = k
    <3>1. i <= t /\ e.bag[i].name = x
      BY <1>9, <1>10, <2>1
    <3> QED
      BY <1>14, <2>1, <3>1
  <2>2. CASE i # k
    BY <1>15, <1>16, <2>2
  <2> QED
    BY <2>1, <2>2
<1>18. \A v \in Stored(e.dict) :
         e.idf_vec.elements[e.dict.payload[v]] = Cardinality(TextsIn(p, v))
  <2> TAKE v \in Stored(e.dict)
  <2>1. v \in Stored(s.dict) /\ v \in Words /\ e.dict.payload[v] = s.dict.payload[v]
    BY <1>5 DEF Stored
  <2>2. s.idf_vec.elements[s.dict.payload[v]] = Cardinality(TextsIn(o, v))
    BY <2>1 DEF Counts
  <2>3. x \in TextsIn(o, w) <=> o[x][w] # 0
    BY <1>2, <1>6, <1>13 DEF TextsIn
  <2>4. CASE o[x][w] # 0
    <3>1. e.idf_vec = s.idf_vec
      BY <1>5, <1>13, <2>4
    <3>2. TextsIn(p, v) = TextsIn(o, v)
      BY <1>7, <2>1, <2>3, <2>4
    <3> QED
      BY <2>1, <2>2, <3>1, <3>2
  <2>5. CASE o[x][w] = 0
    <3>1. e.idf_vec = update_idf_vector(s.idf_vec, pos)
      BY <1>5, <1>13, <2>5
    <3>2. s.idf_vec \in IdfVec /\ Sized(s.idf_vec, c, cap)
      BY <1>2, <1>3 DEF Laid, VectorsOK, Struct
    <3>3. \A n \in 0 .. c - 1 : e.idf_vec.elements[n] =
            IF n = pos THEN s.idf_vec.elements[n] + 1
            ELSE s.idf_vec.elements[n]
      BY <1>3, <1>4, <3>1, <3>2, UpdatedIdf
    <3>4. CASE v = w
      <4>1. TextsIn(p, v) = TextsIn(o, v) \cup {x} /\ x \notin TextsIn(o, v)
        BY <1>7, <2>1, <2>3, <2>5, <3>4
      <4>2. Cardinality(TextsIn(p, v)) = Cardinality(TextsIn(o, v)) + 1
        BY <4>1, TextsAreFew, FS_AddElement
      <4> QED
        BY <1>1, <1>4, <2>1, <2>2, <3>3, <3>4, <4>2
    <3>5. CASE v # w
      <4>1. TextsIn(p, v) = TextsIn(o, v)
        BY <1>7, <2>1, <3>5
      <4> QED
        BY <1>4, <2>1, <2>2, <3>3, <3>5, <4>1
    <3> QED
      BY <3>4, <3>5
  <2> QED
    BY <2>4, <2>5
<1>19. 1 .. t \subseteq 1 .. FILES
  BY FilesAreCounted
<1>20. Counts(e, t, p)
  BY <1>16, <1>17, <1>18, <1>19 DEF Counts
<1> QED
  BY <1>1, <1>20

-----------------------------------------------------------------------------
(* One word, and a buffer. *)

Good(s, t, o) == Laid(s) /\ Counts(s, t, o) /\ StoresMet(s, o)

\* A word is found if it is stored.
LEMMA SearchFinds ==
  ASSUME NEW d, Searchable(d), Linked(d), FindsStored(d), NEW w \in Words
  PROVE  /\ Place(d, w) = w <=> w \in Stored(d)
         /\ search_tree(d, w) = IF w \in Stored(d) THEN d.payload[w] ELSE -1
<1>1. Place(d, w) = w <=> w \in Stored(d)
  BY PlaceFacts DEF FindsStored
<1> QED
  BY <1>1 DEF search_tree

\* A new word widens the structures first, and then occurs in them.
LEMMA NewWordIsOld ==
  ASSUME NEW s, Laid(s), NEW k \in 1 .. FILES, NEW w \in Words \ (Stored(s.dict) \cup StopWords)
  PROVE  insert_in_structures(s, k, w) = old_word(Widened(s, w), k, s.word_counter)
<1>1. PICK c \in Nat, cap \in Nat \ {0} :
        c = s.word_counter /\ cap = s.idf_vec.capacity /\ c <= cap
  BY DEF Laid, Struct, VectorsOK
<1>2. PICK e : e = Widened(s, w)
  OBVIOUS
<1>3. PICK z : z = [s EXCEPT !.dict = insert_tree(@, w, s.word_counter), !.word_counter = @ + 1]
  OBVIOUS
<1>4. z = [bag |-> s.bag, idf_vec |-> s.idf_vec, dict |-> e.dict, word_counter |-> c + 1]
  BY <1>1, <1>2, <1>3 DEF Laid, Struct, Widened
<1>5. insert_in_structures(s, k, w) = new_word_in_bag(z, k)
  <2>1. Place(s.dict, w) # w
    BY SearchFinds DEF Laid
  <2> QED
    BY <1>3, <2>1 DEF insert_in_structures, is_stopword
<1>6. 0 \in 0 .. FILES /\ k \in 0 .. FILES
  BY FilesAreCounted
<1>7. s.bag[0].size = c /\ s.bag[0].capacity = cap
  BY <1>1, <1>6 DEF Laid, VectorsOK, Sized
<1>8. e.bag[0].size = c + 1 /\ e.idf_vec.size = c + 1
  <2>1. Sized(e.bag[0], c + 1, Room(c, cap))
    BY <1>1, <1>2, <1>6, WidenedVector
  <2>2. Sized(e.idf_vec, c + 1, Room(c, cap))
    BY <1>1, <1>2, WidenedIdf
  <2> QED
    BY <2>1, <2>2 DEF Sized
<1>9. e.bag = [i \in 0 .. FILES |-> IF i = 0 THEN new_word(z.bag[0])
                 ELSE [(IF z.bag[0].size = z.bag[0].capacity THEN resize_vector(z.bag[i])
                        ELSE z.bag[i]) EXCEPT !.size = @ + 1]]
  BY <1>1, <1>2, <1>4, <1>7 DEF Widened, Enlarged
<1>10. e.idf_vec = [(IF z.bag[0].size = z.bag[0].capacity THEN resize_idf_vector(z.idf_vec)
                     ELSE z.idf_vec) EXCEPT !.size = @ + 1]
  BY <1>1, <1>2, <1>4, <1>7 DEF Widened, Enlarged, resize_idf_vector
<1>11. (c + 1) - 1 = c
  OBVIOUS
<1>12. new_word_in_bag(z, k) =
         [z EXCEPT !.bag = [e.bag EXCEPT ![k] = update_element(@, c)],
                   !.idf_vec = IF idf_incr(e.bag[k], c) THEN update_idf_vector(e.idf_vec, c)
                               ELSE e.idf_vec]
  <2> DEFINE vectors == [i \in 0 .. FILES |-> IF i = 0 THEN new_word(z.bag[0])
                 ELSE [(IF z.bag[0].size = z.bag[0].capacity THEN resize_vector(z.bag[i])
                        ELSE z.bag[i]) EXCEPT !.size = @ + 1]]
             idf == [(IF z.bag[0].size = z.bag[0].capacity THEN resize_idf_vector(z.idf_vec)
                      ELSE z.idf_vec) EXCEPT !.size = @ + 1]
             pos == vectors[0].size - 1
  <2>1. new_word_in_bag(z, k) =
          [z EXCEPT !.bag = [vectors EXCEPT ![k] = update_element(@, pos)],
                    !.idf_vec = IF idf_incr(vectors[k], pos)
                                THEN update_idf_vector(idf, idf.size - 1) ELSE idf]
    BY DEF new_word_in_bag
  <2>2. vectors = e.bag /\ idf = e.idf_vec
    BY <1>9, <1>10
  <2>3. pos = c /\ idf.size - 1 = c
    BY <1>8, <1>11, <2>2
  <2> HIDE DEF vectors, idf, pos
  <2> QED
    BY <2>1, <2>2, <2>3
<1>13. e = [bag |-> e.bag, idf_vec |-> e.idf_vec, dict |-> e.dict, word_counter |-> c + 1]
  BY <1>1, <1>2 DEF Widened
<1>14. old_word(e, k, c) =
         [bag |-> [e.bag EXCEPT ![k] = update_element(@, c)],
          idf_vec |-> IF idf_incr(e.bag[k], c) THEN update_idf_vector(e.idf_vec, c)
                      ELSE e.idf_vec,
          dict |-> e.dict, word_counter |-> c + 1]
  <2>1. e \in Struct
    BY <1>2, WidenedLaid DEF Laid
  <2>2. PICK h : h = old_word(e, k, c)
    OBVIOUS
  <2>3. /\ h.dict = e.dict /\ h.word_counter = e.word_counter
        /\ h.bag = [e.bag EXCEPT ![k] = update_element(e.bag[k], c)]
        /\ h.idf_vec = IF e.bag[k].elements[c] = 0 THEN update_idf_vector(e.idf_vec, c)
                       ELSE e.idf_vec
        /\ h = [bag |-> h.bag, idf_vec |-> h.idf_vec, dict |-> h.dict,
                word_counter |-> h.word_counter]
    BY <1>6, <2>1, <2>2, OldWordFields
  <2>4. e.word_counter = c + 1
    BY <1>13
  <2> QED
    BY <2>2, <2>3, <2>4 DEF idf_incr
<1> QED
  BY <1>1, <1>2, <1>4, <1>5, <1>12, <1>14

\* A word of a text, whatever it is, is counted if it counts.
LEMMA InsertWord ==
  ASSUME NEW s, NEW t \in 0 .. FILES, NEW o \in Texts, Good(s, t, o),
         NEW k \in 1 .. t, NEW w \in Words
  PROVE  /\ Good(insert_in_structures(s, k, w), t, Once(o, s.bag[k].name, w))
         /\ \A i \in 0 .. FILES : insert_in_structures(s, k, w).bag[i].name = s.bag[i].name
<1>1. PICK x \in Specs : x = s.bag[k].name
  BY DEF Good, Counts
<1>2. k \in 1 .. FILES /\ k \in 0 .. FILES
  BY FilesAreCounted
<1>3. PICK p : p = Once(o, x, w)
  OBVIOUS
<1>4. /\ p \in Texts
      /\ \A y \in Specs, v \in Words :
           p[y][v] = IF y = x /\ v = w THEN o[y][v] + 1 ELSE o[y][v]
      /\ \A v \in Words :
           TextsIn(p, v) = IF v = w THEN TextsIn(o, v) \cup {x} ELSE TextsIn(o, v)
  BY <1>3, OnceFacts
<1>5. \A v \in Words : TextsIn(p, v) # {} <=> v = w \/ TextsIn(o, v) # {}
  BY <1>4
<1>6. Laid(s) /\ Counts(s, t, o) /\ StoresMet(s, o)
  BY DEF Good
<1>7. ASSUME NEW z, Laid(z), Counts(z, t, o), NEW pos, pos = z.dict.payload[w],
             w \in Stored(z.dict), w \notin StopWords,
             Stored(z.dict) = Stored(s.dict) \cup {w},
             \A i \in 0 .. FILES : z.bag[i].name = s.bag[i].name
      PROVE  /\ Good(old_word(z, k, pos), t, p)
             /\ \A i \in 0 .. FILES : old_word(z, k, pos).bag[i].name = s.bag[i].name
  <2>1. PICK e : e = old_word(z, k, pos)
    OBVIOUS
  <2>2. pos \in 0 .. z.word_counter - 1
    BY <1>7 DEF Laid, NumbersOK
  <2>3. Laid(e)
    BY <1>2, <1>7, <2>1, <2>2, UpdatedLaid
  <2>4. z.bag[k].name = x
    BY <1>1, <1>2, <1>7
  <2>5. Counts(e, t, p)
    BY <1>3, <1>7, <2>1, <2>4, UpdatedCounts
  <2>6. z \in Struct
    BY <1>7 DEF Laid
  <2>7. e.dict = z.dict /\ e.bag = [z.bag EXCEPT ![k] = update_element(z.bag[k], pos)]
    BY <1>2, <2>1, <2>6, OldWordFields
  <2>8. StoresMet(e, p)
    BY <1>5, <1>6, <1>7, <2>7 DEF StoresMet
  <2>9. update_element(z.bag[k], pos).name = z.bag[k].name
    <3>1. z.bag[k] \in Vec
      BY <1>2, <2>6 DEF Struct
    <3> QED
      BY <3>1 DEF update_element, Vec
  <2>10. \A i \in 0 .. FILES : e.bag[i].name = s.bag[i].name
    BY <1>7, <2>6, <2>7, <2>9 DEF Struct
  <2> QED
    BY <2>1, <2>3, <2>5, <2>8, <2>10 DEF Good
<1>8. CASE w \in StopWords
  <2>1. insert_in_structures(s, k, w) = s
    BY <1>8 DEF insert_in_structures, is_stopword
  <2>2. w \notin Stored(s.dict) /\ Stored(s.dict) \subseteq Words
    BY <1>6, <1>8 DEF StoresMet
  <2>3. \A y \in Specs, v \in Stored(s.dict) : p[y][v] = o[y][v]
    BY <1>4, <2>2
  <2>4. \A v \in Stored(s.dict) : TextsIn(p, v) = TextsIn(o, v)
    BY <1>4, <2>2
  <2>5. \A i \in 1 .. FILES : Holds(s, i, IF i <= t THEN p[s.bag[i].name] ELSE NoText)
    <3> TAKE i \in 1 .. FILES
    <3>1. CASE i <= t
      <4>1. s.bag[i].name \in Specs
        BY <1>6, <3>1, FilesAreCounted DEF Counts
      <4>2. PICK y \in Specs : y = s.bag[i].name
        BY <4>1
      <4>3. Holds(s, i, o[y])
        BY <1>6, <3>1, <4>2 DEF Counts
      <4>4. {v \in Stored(s.dict) : o[y][v] > 0} = {v \in Stored(s.dict) : p[y][v] > 0}
        BY <2>3
      <4>5. Holds(s, i, p[y])
        BY <2>3, <4>3, <4>4 DEF Holds
      <4> QED
        BY <3>1, <4>2, <4>5
    <3>2. CASE ~(i <= t)
      BY <1>6, <3>2 DEF Counts
    <3> QED
      BY <3>1, <3>2
  <2>6. Counts(s, t, p)
    BY <1>6, <2>4, <2>5 DEF Counts
  <2>7. StoresMet(s, p)
    BY <1>5, <1>6, <1>8 DEF StoresMet
  <2> QED
    BY <1>1, <1>3, <1>6, <2>1, <2>6, <2>7 DEF Good
<1>9. CASE w \notin StopWords /\ w \in Stored(s.dict)
  <2>1. insert_in_structures(s, k, w) = old_word(s, k, s.dict.payload[w])
    BY <1>6, <1>9, SearchFinds DEF insert_in_structures, is_stopword, Laid
  <2>2. Stored(s.dict) = Stored(s.dict) \cup {w}
    BY <1>9
  <2> QED
    BY <1>1, <1>3, <1>6, <1>7, <1>9, <2>1, <2>2
<1>10. CASE w \notin StopWords /\ w \notin Stored(s.dict)
  <2>1. PICK z : z = Widened(s, w)
    OBVIOUS
  <2>2. insert_in_structures(s, k, w) = old_word(z, k, s.word_counter)
    BY <1>2, <1>6, <1>10, <2>1, NewWordIsOld
  <2>3. TextsIn(o, w) = {}
    BY <1>6, <1>10 DEF StoresMet
  <2>4. Laid(z) /\ Counts(z, t, o)
    BY <1>6, <1>10, <2>1, <2>3, WidenedLaid, WidenedCounts
  <2>5. z.dict = insert_tree(s.dict, w, s.word_counter)
    BY <2>1 DEF Widened
  <2>6. Stored(z.dict) = Stored(s.dict) \cup {w} /\ z.dict.payload[w] = s.word_counter
    BY <1>6, <1>10, <2>5, WidenedNumbers
  <2>7. \A i \in 0 .. FILES : z.bag[i].name = s.bag[i].name
    BY <1>6, <2>1, WidenedVector
  <2> QED
    BY <1>1, <1>3, <1>7, <1>10, <2>2, <2>4, <2>6, <2>7
<1> QED
  BY <1>8, <1>9, <1>10

\* The texts after the first n words of a buffer.
Occurrences(buffer, n, w) == {m \in 1 .. n : buffer[m] = w}
After(o, x, buffer, n) ==
  [o EXCEPT ![x] = [w \in Words |-> @[w] + Cardinality(Occurrences(buffer, n, w))]]

\* What the texts say after n words of a buffer, one word at a time.
LEMMA AfterFacts ==
  ASSUME NEW o \in Texts, NEW x \in Specs, NEW buffer \in Seq(Words)
  PROVE  /\ After(o, x, buffer, 0) = o
         /\ \A n \in 0 .. Len(buffer) : After(o, x, buffer, n) \in Texts
         /\ \A n \in 1 .. Len(buffer) :
              After(o, x, buffer, n) = Once(After(o, x, buffer, n - 1), x, buffer[n])
<1>1. \A n \in Nat, w \in Words : /\ IsFiniteSet(Occurrences(buffer, n, w))
                                  /\ Cardinality(Occurrences(buffer, n, w)) \in Nat
  <2> TAKE n \in Nat, w \in Words
  <2>1. Occurrences(buffer, n, w) \subseteq 1 .. n
    BY DEF Occurrences
  <2>2. IsFiniteSet(1 .. n)
    BY FS_Interval
  <2> QED
    BY <2>1, <2>2, FS_Subset, FS_CardinalityType
<1>2. \A n \in 0 .. Len(buffer) : After(o, x, buffer, n) \in Texts
  <2> TAKE n \in 0 .. Len(buffer)
  <2>1. [w \in Words |-> o[x][w] + Cardinality(Occurrences(buffer, n, w))] \in [Words -> Nat]
    BY <1>1 DEF Texts
  <2> QED
    BY <2>1 DEF After, Texts
<1>3. After(o, x, buffer, 0) = o
  <2>1. \A w \in Words : Cardinality(Occurrences(buffer, 0, w)) = 0
    <3> TAKE w \in Words
    <3>1. Occurrences(buffer, 0, w) = {}
      BY DEF Occurrences
    <3> QED
      BY <3>1, FS_EmptySet
  <2>2. o[x] \in [Words -> Nat]
    BY DEF Texts
  <2>3. [w \in Words |-> o[x][w] + Cardinality(Occurrences(buffer, 0, w))] = o[x]
    BY <2>1, <2>2
  <2> QED
    BY <2>3 DEF After, Texts
<1>4. ASSUME NEW n \in 1 .. Len(buffer)
      PROVE  After(o, x, buffer, n) = Once(After(o, x, buffer, n - 1), x, buffer[n])
  <2>1. buffer[n] \in Words /\ n \in Nat /\ n - 1 \in Nat /\ n - 1 \in 0 .. Len(buffer)
        /\ n \in 0 .. Len(buffer)
    OBVIOUS
  <2>2. PICK a, b : a = After(o, x, buffer, n - 1) /\ b = After(o, x, buffer, n)
    OBVIOUS
  <2>3. a \in Texts /\ b \in Texts
    BY <1>2, <2>1, <2>2
  <2>4. /\ \A w \in Words : /\ a[x][w] = o[x][w] + Cardinality(Occurrences(buffer, n - 1, w))
                            /\ b[x][w] = o[x][w] + Cardinality(Occurrences(buffer, n, w))
        /\ \A y \in Specs : y # x => a[y] = o[y] /\ b[y] = o[y]
    BY <2>2 DEF After, Texts
  <2>5. \A w \in Words : Cardinality(Occurrences(buffer, n, w))
          = IF w = buffer[n] THEN Cardinality(Occurrences(buffer, n - 1, w)) + 1
            ELSE Cardinality(Occurrences(buffer, n - 1, w))
    <3> TAKE w \in Words
    <3>1. CASE w = buffer[n]
      <4>1. /\ Occurrences(buffer, n, w) = Occurrences(buffer, n - 1, w) \cup {n}
            /\ n \notin Occurrences(buffer, n - 1, w)
        BY <2>1, <3>1 DEF Occurrences
      <4>2. IsFiniteSet(Occurrences(buffer, n - 1, w))
        BY <1>1, <2>1
      <4> QED
        BY <3>1, <4>1, <4>2, FS_AddElement
    <3>2. CASE w # buffer[n]
      <4>1. Occurrences(buffer, n, w) = Occurrences(buffer, n - 1, w)
        BY <2>1, <3>2 DEF Occurrences
      <4> QED
        BY <3>2, <4>1
    <3> QED
      BY <3>1, <3>2
  <2>6. \A w \in Words : b[x][w] = IF w = buffer[n] THEN a[x][w] + 1 ELSE a[x][w]
    <3> TAKE w \in Words
    <3>1. o[x][w] \in Nat /\ Cardinality(Occurrences(buffer, n - 1, w)) \in Nat
      BY <1>1, <2>1 DEF Texts
    <3> QED
      BY <2>4, <2>5, <3>1
  <2>7. PICK c : c = Once(a, x, buffer[n])
    OBVIOUS
  <2>8. /\ c \in Texts
        /\ \A y \in Specs, v \in Words :
             c[y][v] = IF y = x /\ v = buffer[n] THEN a[y][v] + 1 ELSE a[y][v]
    BY <2>1, <2>3, <2>7, OnceFacts
  <2>9. \A y \in Specs, v \in Words : c[y][v] = b[y][v]
    BY <2>4, <2>6, <2>8
  <2>10. \A y \in Specs : c[y] = b[y]
    BY <2>3, <2>8, <2>9 DEF Texts
  <2>11. c = b
    BY <2>3, <2>8, <2>10 DEF Texts
  <2> QED
    BY <2>2, <2>7, <2>11
<1> QED
  BY <1>2, <1>3, <1>4

\* A buffer, word by word.
LEMMA InsertBuffer ==
  ASSUME NEW s, NEW t \in 0 .. FILES, NEW o \in Texts, Good(s, t, o),
         NEW k \in 1 .. t, NEW buffer \in Seq(Words)
  PROVE  /\ Good(Bow(s, k, buffer), t, After(o, s.bag[k].name, buffer, Len(buffer)))
         /\ \A i \in 0 .. FILES : Bow(s, k, buffer).bag[i].name = s.bag[i].name
<1>1. PICK x \in Specs : x = s.bag[k].name
  BY DEF Good, Counts
<1>2. PICK steps :
        /\ steps[0] = s /\ steps[Len(buffer)] = Bow(s, k, buffer)
        /\ \A n \in 1 .. Len(buffer) :
             steps[n] = insert_in_structures(steps[n - 1], k, buffer[n])
  BY BowFollows
<1>3. /\ After(o, x, buffer, 0) = o
      /\ \A n \in 0 .. Len(buffer) : After(o, x, buffer, n) \in Texts
      /\ \A n \in 1 .. Len(buffer) :
           After(o, x, buffer, n) = Once(After(o, x, buffer, n - 1), x, buffer[n])
  BY AfterFacts
<1> DEFINE Right == {n \in 0 .. Len(buffer) :
                       /\ Good(steps[n], t, After(o, x, buffer, n))
                       /\ \A i \in 0 .. FILES : steps[n].bag[i].name = s.bag[i].name}
<1>4. Len(buffer) \in Nat /\ k \in 0 .. FILES
  BY FilesAreCounted
<1>5. 0 \in Right
  BY <1>2, <1>3, <1>4
<1>6. ASSUME NEW n \in 1 .. Len(buffer), n - 1 \in Right PROVE n \in Right
  <2>1. PICK z, p : z = steps[n - 1] /\ p = After(o, x, buffer, n - 1)
    OBVIOUS
  <2>2. Good(z, t, p) /\ \A i \in 0 .. FILES : z.bag[i].name = s.bag[i].name
    BY <1>6, <2>1
  <2>3. p \in Texts /\ buffer[n] \in Words
    BY <1>3, <1>4, <2>1
  <2>4. /\ Good(insert_in_structures(z, k, buffer[n]), t, Once(p, z.bag[k].name, buffer[n]))
        /\ \A i \in 0 .. FILES :
             insert_in_structures(z, k, buffer[n]).bag[i].name = z.bag[i].name
    BY <2>2, <2>3, InsertWord
  <2>5. z.bag[k].name = x
    BY <1>1, <1>4, <2>2
  <2>6. /\ steps[n] = insert_in_structures(z, k, buffer[n])
        /\ After(o, x, buffer, n) = Once(p, x, buffer[n])
    BY <1>2, <1>3, <2>1
  <2> QED
    BY <2>2, <2>4, <2>5, <2>6
<1>7. \A n \in 1 .. Len(buffer) : n - 1 \in Right => n \in Right
  BY <1>6
<1>8. Len(buffer) \in Right
  <2> HIDE DEF Right
  <2>1. \A n \in 0 .. Len(buffer) : n \in Right
    BY <1>4, <1>5, <1>7, UpTo
  <2> QED
    BY <1>4, <2>1
<1> QED
  BY <1>1, <1>2, <1>8

-----------------------------------------------------------------------------
(* The parser *)

Node == [id : Specs, vec_num : 0 .. FILES - 1]
Reading == pc \in {"name", "value"}
InMap(x) == \E n \in DOMAIN map[Hash[x]] : map[Hash[x]][n].id = x

\* A node leads to the vector after the one of its number, which is of its spec.
MapOK ==
  /\ map \in [0 .. Buckets - 1 -> Seq(Node)]
  /\ \A b \in 0 .. Buckets - 1 : \A n \in DOMAIN map[b] :
       /\ map[b][n].vec_num + 1 <= text_counter
       /\ bag[map[b][n].vec_num + 1].name = map[b][n].id

\* Every vector taken is of a spec in the map but the one whose file is read.
VectorsTaken ==
  \A i \in 1 .. text_counter : InMap(bag[i].name) \/ (Reading /\ i = text_counter)
CurrentNode ==
  IF Reading THEN /\ pseudonode \in Node /\ pseudonode.vec_num + 1 = text_counter
                  /\ bag[text_counter].name = pseudonode.id
  ELSE pseudonode = NoNode
Unread ==
  \A x \in Specs : (\A i \in 1 .. text_counter : bag[i].name # x) => occurs[x] = NoText

\* The inductive invariant of the parser.
WInv ==
  /\ text_counter \in 0 .. FILES /\ occurs \in Texts
  /\ pc \in {"folder", "name", "value", "parsed"}
  /\ Good(structures, text_counter, occurs)
  /\ MapOK /\ VectorsTaken /\ CurrentNode /\ Unread

\* find_node finds a spec if its node is in the bucket of its hash.
LEMMA FoundInMap ==
  ASSUME NEW x \in Specs, MapOK
  PROVE  /\ Found(x) <=> InMap(x)
         /\ Found(x) => /\ find_node(x) \in DOMAIN map[Hash[x]]
                        /\ NodeOf(x).id = x
<1>1. Hash[x] \in 0 .. Buckets - 1
  BY WordsAssumption
<1>2. PICK list \in Seq(Node) : list = map[Hash[x]]
  BY <1>1 DEF MapOK
<1> DEFINE I == {n \in 1 .. Len(list) : list[n].id = x}
<1>3. find_node(x) = IF I # {} THEN CHOOSE n \in I : \A m \in I : n <= m ELSE 0
  BY <1>2 DEF find_node, SelectInSeq, Min
<1>4. I \in SUBSET Nat
  OBVIOUS
<1>5. ASSUME I # {} PROVE find_node(x) \in I
  <2>1. \E n \in I : \A m \in I : n <= m
    <3> HIDE DEF I
    <3> QED
      BY <1>4, <1>5, Least
  <2> HIDE DEF I
  <2> QED
    BY <1>3, <1>5, <2>1
<1>6. \A n \in I : n # 0
  OBVIOUS
<1>7. InMap(x) <=> I # {}
  BY <1>2 DEF InMap
<1>8. Found(x) <=> I # {}
  BY <1>3, <1>5, <1>6 DEF Found
<1>9. Found(x) => find_node(x) \in DOMAIN list /\ list[find_node(x)].id = x
  BY <1>5, <1>8
<1> QED
  BY <1>2, <1>7, <1>8, <1>9 DEF NodeOf

\* The invariant holds before the first file.
LEMMA InitParsed == Init => WInv
<1> SUFFICES ASSUME ParseInit PROVE WInv
  BY DEF Init
<1> USE DEF ParseInit
<1>1. PICK s : s = structures
  OBVIOUS
<1>2. s = [bag |-> create_bow, idf_vec |-> create_idf_vector, dict |-> create_tree,
           word_counter |-> 0]
  BY <1>1 DEF structures
<1>3. Stored(s.dict) = {}
  BY <1>2 DEF Stored, create_tree
<1>4. create_tree \in Tree
  BY DEF create_tree, Tree
<1>5. Searchable(s.dict)
  <2>1. PICK depth : depth = [n \in Words |-> 0]
    OBVIOUS
  <2>2. ASSUME NEW w \in Words PROVE Ends(s.dict, w, [n \in Words |-> n])
    BY <1>2 DEF Ends, Child, create_tree
  <2>3. depth \in [Words -> Nat] /\ \A n \in Words :
          /\ s.dict.left[n] # NoWord => depth[s.dict.left[n]] < depth[n]
          /\ s.dict.right[n] # NoWord => depth[s.dict.right[n]] < depth[n]
    BY <1>2, <2>1 DEF create_tree
  <2> QED
    BY <1>2, <1>4, <2>2, <2>3 DEF Searchable
<1>6. Linked(s.dict) /\ FindsStored(s.dict)
  BY <1>2, <1>3 DEF Linked, FindsStored, create_tree
<1>7. NumbersOK(s.dict, 0)
  BY <1>3, FS_EmptySet DEF NumbersOK
<1>8. PICK zeros : zeros = [k \in 0 .. Capacity - 1 |-> 0]
  OBVIOUS
<1>9. zeros \in [0 .. Capacity - 1 -> Nat] /\ zeros \in Contents /\ Capacity \in Nat \ {0}
  BY <1>8, WordsAssumption DEF Contents
<1>10. create_vector \in Vec /\ Sized(create_vector, 0, Capacity)
  BY <1>8, <1>9 DEF create_vector, Vec, Sized
<1>11. create_idf_vector \in IdfVec /\ Sized(create_idf_vector, 0, Capacity)
  BY <1>8, <1>9 DEF create_idf_vector, IdfVec, Sized
<1>12. VectorsOK(s)
  <2>1. s.bag[0].word_count = 0
    BY <1>2, FilesAreCounted DEF create_bow, create_vector
  <2> QED
    BY <1>2, <1>9, <1>10, <1>11, <2>1 DEF VectorsOK, create_bow, Sized
<1>13. s \in Struct
  BY <1>2, <1>4, <1>10, <1>11 DEF Struct, create_bow
<1>14. Laid(s)
  BY <1>2, <1>5, <1>6, <1>7, <1>12, <1>13 DEF Laid
<1>15. occurs \in Texts
  BY DEF Texts
<1>16. Counts(s, 0, occurs)
  <2>1. ASSUME NEW i \in 1 .. FILES PROVE Holds(s, i, NoText)
    <3>1. s.bag[i].word_count = 0
      BY <1>2, FilesAreCounted DEF create_bow, create_vector
    <3>2. {w \in Stored(s.dict) : NoText[w] > 0} = {}
      BY <1>3
    <3> QED
      BY <1>3, <3>1, <3>2, FS_EmptySet DEF Holds
  <2>2. \A i \in 1 .. FILES : ~(i <= 0)
    BY FilesAreCounted
  <2> QED
    BY <1>3, <2>1, <2>2 DEF Counts
<1>17. StoresMet(s, occurs)
  BY <1>3 DEF StoresMet, TextsIn
<1>18. MapOK
  BY WordsAssumption DEF MapOK, create_map
<1>19. VectorsTaken /\ CurrentNode /\ Unread
  BY DEF VectorsTaken, CurrentNode, Unread, Reading, NoText
<1> QED
  BY <1>1, <1>14, <1>15, <1>16, <1>17, <1>18, <1>19, FilesAreCounted DEF WInv, Good

\* A step that leaves the parser alone.
LEMMA ParserRests == ASSUME WInv, UNCHANGED parseVars PROVE WInv'
BY DEF WInv, parseVars, structures, MapOK, VectorsTaken, CurrentNode, Unread, Reading, InMap

\* create_node and new_text_file: one vector more is taken, by a spec that has none yet.
LEMMA OpenFileStep ==
  ASSUME WInv, NEW x \in Specs, OpenFile(x) PROVE WInv'
<1>1. PICK s : s = structures
  OBVIOUS
<1>2. PICK t \in 0 .. FILES, o \in Texts : t = text_counter /\ o = occurs
  BY DEF WInv
<1>3. Laid(s) /\ Counts(s, t, o) /\ StoresMet(s, o)
  BY <1>1, <1>2 DEF WInv, Good
<1>4. ~InMap(x) /\ MapOK /\ ~Reading
  BY FoundInMap DEF OpenFile, WInv, Reading
<1>5. \A i \in 1 .. t : InMap(bag[i].name)
  BY <1>2, <1>4 DEF WInv, VectorsTaken
<1>6. \A i \in 1 .. t : bag[i].name # x /\ bag[i].name \in Specs
  <2>1. \A i \in 1 .. t : bag[i].name \in Specs
    BY <1>1, <1>3 DEF Counts, structures
  <2> QED
    BY <1>4, <1>5, <2>1
<1>7. t + 1 \in 1 .. FILES
  <2>1. PICK f : f = [i \in 1 .. t |-> bag[i].name]
    OBVIOUS
  <2>2. f \in Injection(1 .. t, Specs \ {x})
    <3>1. f \in [1 .. t -> Specs \ {x}]
      BY <1>6, <2>1
    <3>2. \A i, j \in 1 .. t : f[i] = f[j] => i = j
      BY <1>1, <1>3, <2>1 DEF Counts, structures
    <3> QED
      BY <3>1, <3>2 DEF Injection, IsInjective
  <2>3. IsFiniteSet(Specs \ {x}) /\ Cardinality(Specs \ {x}) = FILES - 1
    BY WordsAssumption, FS_RemoveElement DEF FILES
  <2>4. IsFiniteSet(1 .. t) /\ Cardinality(1 .. t) = t
    BY FS_Interval
  <2>5. t <= FILES - 1
    BY <2>2, <2>3, <2>4, FS_Injection
  <2> QED
    BY <2>5, FilesAreCounted
<1>8. PICK e : e = structures'
  OBVIOUS
<1>9. /\ text_counter' = t + 1 /\ occurs' = o /\ pc' = "name" /\ map' = map
      /\ pseudonode' = [id |-> x, vec_num |-> t]
      /\ bag' = [bag EXCEPT ![t + 1].name = x]
  BY <1>2 DEF OpenFile, create_node, new_text_file
<1>10. /\ s = [bag |-> bag, idf_vec |-> idf_vec, dict |-> dict, word_counter |-> word_counter]
       /\ e = [bag |-> bag', idf_vec |-> idf_vec, dict |-> dict, word_counter |-> word_counter]
  BY <1>1, <1>8 DEF structures, OpenFile
<1>11. bag \in [0 .. FILES -> Vec] /\ t + 1 \in 0 .. FILES /\ s \in Struct
  BY <1>3, <1>7, <1>10, FilesAreCounted DEF Laid, Struct
<1>12. /\ bag' \in [0 .. FILES -> Vec]
       /\ \A i \in 0 .. FILES : /\ bag'[i].size = bag[i].size
                                /\ bag'[i].capacity = bag[i].capacity
                                /\ bag'[i].elements = bag[i].elements
                                /\ bag'[i].word_count = bag[i].word_count
                                /\ bag'[i].name = IF i = t + 1 THEN x ELSE bag[i].name
  <2>1. [bag[t + 1] EXCEPT !.name = x] \in Vec
    BY <1>11 DEF Vec
  <2>2. bag' = [bag EXCEPT ![t + 1] = [bag[t + 1] EXCEPT !.name = x]]
    BY <1>9, <1>11
  <2>3. /\ [bag[t + 1] EXCEPT !.name = x].size = bag[t + 1].size
        /\ [bag[t + 1] EXCEPT !.name = x].capacity = bag[t + 1].capacity
        /\ [bag[t + 1] EXCEPT !.name = x].elements = bag[t + 1].elements
        /\ [bag[t + 1] EXCEPT !.name = x].word_count = bag[t + 1].word_count
        /\ [bag[t + 1] EXCEPT !.name = x].name = x
    BY <1>11 DEF Vec
  <2> QED
    BY <1>11, <2>1, <2>2, <2>3
<1>13. Laid(e)
  <2>1. e \in Struct
    BY <1>10, <1>11, <1>12 DEF Struct
  <2>2. VectorsOK(e)
    <3>1. PICK c, cap : c = word_counter /\ cap = idf_vec.capacity
      OBVIOUS
    <3>2. /\ cap \in Nat \ {0} /\ c <= cap /\ Sized(idf_vec, c, cap)
          /\ \A i \in 0 .. FILES : Sized(bag[i], c, cap)
          /\ \A k \in 0 .. c - 1 : bag[0].elements[k] = k
          /\ bag[0].word_count = 0
      BY <1>3, <1>10, <3>1 DEF Laid, VectorsOK
    <3>3. \A i \in 0 .. FILES : Sized(bag'[i], c, cap)
      BY <1>12, <3>2 DEF Sized
    <3>4. bag'[0].elements = bag[0].elements /\ bag'[0].word_count = bag[0].word_count
      BY <1>12, FilesAreCounted
    <3> QED
      BY <1>10, <3>1, <3>2, <3>3, <3>4 DEF VectorsOK
  <2> QED
    BY <1>3, <1>10, <2>1, <2>2 DEF Laid
<1>14. o[x] = NoText
  BY <1>2, <1>6 DEF WInv, Unread
<1>15. Counts(e, t + 1, o)
  <2>1. ASSUME NEW i \in 1 .. FILES
        PROVE  Holds(e, i, IF i <= t + 1 THEN o[e.bag[i].name] ELSE NoText)
    <3>1. i \in 0 .. FILES
      BY FilesAreCounted
    <3>2. Holds(s, i, IF i <= t THEN o[bag[i].name] ELSE NoText)
      BY <1>3, <1>10 DEF Counts
    <3>3. (IF i <= t + 1 THEN o[e.bag[i].name] ELSE NoText)
            = (IF i <= t THEN o[bag[i].name] ELSE NoText)
      BY <1>10, <1>12, <1>14, <3>1
    <3>4. PICK text : text = IF i <= t THEN o[bag[i].name] ELSE NoText
      OBVIOUS
    <3>5. Holds(e, i, text)
      BY <1>10, <1>12, <3>1, <3>2, <3>4 DEF Holds
    <3> QED
      BY <3>3, <3>4, <3>5
  <2>2. \A i \in 1 .. t + 1 : e.bag[i].name = IF i = t + 1 THEN x ELSE bag[i].name
    <3>1. \A i \in 1 .. t + 1 : i \in 0 .. FILES
      BY <1>7, FilesAreCounted
    <3> QED
      BY <1>10, <1>12, <3>1
  <2>3. \A i \in 1 .. t + 1 : e.bag[i].name \in Specs
    BY <1>6, <2>2
  <2>4. \A i, j \in 1 .. t + 1 : e.bag[i].name = e.bag[j].name => i = j
    BY <1>3, <1>6, <1>10, <2>2 DEF Counts
  <2>5. \A w \in Stored(e.dict) :
          e.idf_vec.elements[e.dict.payload[w]] = Cardinality(TextsIn(o, w))
    BY <1>3, <1>10 DEF Counts
  <2> QED
    BY <2>1, <2>3, <2>4, <2>5 DEF Counts
<1>16. StoresMet(e, o)
  BY <1>3, <1>10 DEF StoresMet
<1>17. MapOK'
  <2>1. \A b \in 0 .. Buckets - 1 : \A n \in DOMAIN map[b] :
          /\ map[b][n].vec_num + 1 \in 1 .. t /\ map[b][n].vec_num + 1 \in 0 .. FILES
          /\ bag[map[b][n].vec_num + 1].name = map[b][n].id
    <3> TAKE b \in 0 .. Buckets - 1
    <3> TAKE n \in DOMAIN map[b]
    <3>1. map[b][n] \in Node
      BY <1>4 DEF MapOK
    <3>2. map[b][n].vec_num \in 0 .. FILES - 1
      BY <3>1 DEF Node
    <3> QED
      BY <1>2, <1>4, <3>2, FilesAreCounted DEF MapOK
  <2>2. \A b \in 0 .. Buckets - 1 : \A n \in DOMAIN map[b] :
          /\ map[b][n].vec_num + 1 <= t + 1
          /\ bag'[map[b][n].vec_num + 1].name = map[b][n].id
    BY <1>12, <2>1
  <2> QED
    BY <1>4, <1>9, <2>2 DEF MapOK
<1>18. VectorsTaken'
  <2>1. \A i \in 1 .. t + 1 : i # t + 1 => i \in 1 .. t /\ i \in 0 .. FILES
    BY FilesAreCounted
  <2>2. \A i \in 1 .. t + 1 : i # t + 1 => InMap(bag'[i].name)
    BY <1>5, <1>12, <2>1
  <2>3. \A y : InMap(y) => InMap(y)'
    BY <1>9 DEF InMap
  <2> QED
    BY <1>9, <2>2 DEF VectorsTaken, Reading, InMap
<1>19. CurrentNode'
  <2>1. t \in 0 .. FILES - 1
    BY <1>7, FilesAreCounted
  <2>2. bag'[t + 1].name = x
    BY <1>11, <1>12
  <2> QED
    BY <1>9, <2>1, <2>2 DEF CurrentNode, Reading, Node
<1>20. Unread'
  <2>1. \A i \in 1 .. t : i \in 1 .. t + 1 /\ bag'[i].name = bag[i].name
    BY <1>12, FilesAreCounted
  <2> QED
    BY <1>2, <1>9, <2>1 DEF WInv, Unread
<1>21. Good(e, t + 1, o)
  BY <1>13, <1>15, <1>16 DEF Good
<1> QED
  BY <1>2, <1>7, <1>8, <1>9, <1>17, <1>18, <1>19, <1>20, <1>21, FilesAreCounted DEF WInv

\* A buffer goes into the text of the current file.
LEMMA BufferStep ==
  ASSUME WInv, Reading, NEW buffer \in Seq(Words), bow_it(buffer), Reading',
         UNCHANGED <<map, text_counter, pseudonode>>
  PROVE  WInv'
<1>1. PICK s, t, x, o : /\ s = structures /\ t = text_counter
                        /\ x = pseudonode.id /\ o = occurs
  OBVIOUS
<1>2. t \in 0 .. FILES /\ o \in Texts /\ Good(s, t, o)
  BY <1>1 DEF WInv
<1>3. x \in Specs /\ t \in 1 .. t /\ bag[t].name = x
  BY <1>1, <1>2, FilesAreCounted DEF WInv, CurrentNode, Node
<1>4. s.bag = bag
  BY <1>1 DEF structures
<1>5. PICK e : e = Bow(s, t, buffer)
  OBVIOUS
<1>6. /\ Good(e, t, After(o, x, buffer, Len(buffer)))
      /\ \A i \in 0 .. FILES : e.bag[i].name = bag[i].name
  BY <1>2, <1>3, <1>4, <1>5, InsertBuffer
<1>7. /\ bag' = e.bag /\ idf_vec' = e.idf_vec /\ dict' = e.dict /\ word_counter' = e.word_counter
      /\ occurs' = After(o, x, buffer, Len(buffer))
  <2>1. DOMAIN buffer = 1 .. Len(buffer)
    OBVIOUS
  <2>2. LET z == Bow(structures, text_counter, buffer)
        IN /\ bag' = z.bag /\ idf_vec' = z.idf_vec
           /\ dict' = z.dict /\ word_counter' = z.word_counter
    BY DEF bow_it, Bow
  <2>3. occurs' = [occurs EXCEPT ![pseudonode.id] =
                     [w \in Words |-> @[w] + Cardinality({m \in DOMAIN buffer : buffer[m] = w})]]
    BY DEF bow_it
  <2>4. occurs' = After(o, x, buffer, Len(buffer))
    BY <1>1, <2>1, <2>3 DEF After, Occurrences
  <2> QED
    BY <1>1, <1>5, <2>2, <2>4
<1>8. structures' = e
  <2>1. e \in Struct
    BY <1>6 DEF Good, Laid
  <2> QED
    BY <1>7, <2>1 DEF structures, Struct
<1>9. occurs' \in Texts
  <2>1. Len(buffer) \in 0 .. Len(buffer)
    OBVIOUS
  <2> QED
    BY <1>2, <1>3, <1>7, <2>1, AfterFacts
<1>10. \A i \in 0 .. FILES : bag'[i].name = bag[i].name
  BY <1>6, <1>7
<1>11. text_counter' = t /\ map' = map /\ pseudonode' = pseudonode
  BY <1>1
<1>12. MapOK'
  <2>1. \A b \in 0 .. Buckets - 1 : \A n \in DOMAIN map[b] :
          map[b][n].vec_num + 1 \in 0 .. FILES
    <3> TAKE b \in 0 .. Buckets - 1
    <3> TAKE n \in DOMAIN map[b]
    <3>1. map[b][n] \in Node
      BY DEF WInv, MapOK
    <3> QED
      BY <3>1, FilesAreCounted DEF Node
  <2> QED
    BY <1>1, <1>10, <1>11, <2>1 DEF WInv, MapOK
<1>13. \A i \in 1 .. t : bag'[i].name = bag[i].name
  BY <1>2, <1>10, FilesAreCounted
<1>14. VectorsTaken'
  <2>1. \A y : InMap(y) => InMap(y)'
    BY <1>11 DEF InMap
  <2> QED
    BY <1>1, <1>11, <1>13 DEF WInv, VectorsTaken, InMap
<1>15. CurrentNode'
  BY <1>1, <1>3, <1>11, <1>13 DEF WInv, CurrentNode
<1>16. Unread'
  <2> SUFFICES ASSUME NEW y \in Specs, \A i \in 1 .. t : bag[i].name # y
               PROVE  occurs'[y] = NoText
    BY <1>11, <1>13 DEF Unread
  <2>1. y # x
    BY <1>3
  <2>2. occurs'[y] = o[y]
    BY <1>2, <1>7, <2>1 DEF After, Texts
  <2> QED
    BY <1>1, <2>2 DEF WInv, Unread
<1>17. pc' \in {"folder", "name", "value", "parsed"}
  BY DEF Reading
<1> QED
  BY <1>2, <1>6, <1>7, <1>8, <1>9, <1>11, <1>12, <1>14, <1>15, <1>16, <1>17 DEF WInv

\* The lines of an array, at most two of them, make one buffer.
LEMMA LinesMakeBuffer ==
  ASSUME NEW lines \in SeqOf(Buffers, 2)
  PROVE  FlattenSeq(lines) \in Seq(Words)
<1>1. PICK n \in 0 .. 2 : lines \in [1 .. n -> Buffers]
  BY DEF SeqOf
<1>2. \A b \in Buffers : b \in Seq(Words)
  BY WordsAssumption DEF Buffers, SeqOf
<1>3. Len(lines) = n /\ DOMAIN lines = 1 .. n
  BY <1>1
<1>4. CASE n = 0
  BY <1>1, <1>3, <1>4 DEF FlattenSeq
<1>5. CASE n # 0
  <2> DEFINE Defines(f) == f = [i \in 1 .. n |-> IF i = 1 THEN lines[i] ELSE f[i - 1] \o lines[i]]
             flatten == CHOOSE f : Defines(f)
  <2>1. FlattenSeq(lines) = flatten[n]
    BY <1>3, <1>5 DEF FlattenSeq
  <2>0. 1 \in 1 .. n /\ \A i \in 1 .. n : i = 1 \/ (i = 2 /\ n = 2 /\ i - 1 = 1)
    <3>1. n = 1 \/ n = 2
      BY <1>5
    <3>2. CASE n = 1
      BY <3>2
    <3>3. CASE n = 2
      <4>1. \A i \in 1 .. 2 : i = 1 \/ i = 2
        OBVIOUS
      <4> QED
        BY <3>3, <4>1
    <3> QED
      BY <3>1, <3>2, <3>3
  <2>2. Defines([i \in 1 .. n |-> IF i = 1 THEN lines[1] ELSE lines[1] \o lines[2]])
    <3>1. PICK g : g = [i \in 1 .. n |-> IF i = 1 THEN lines[1] ELSE lines[1] \o lines[2]]
      OBVIOUS
    <3>2. \A i \in 1 .. n : g[i] = IF i = 1 THEN lines[i] ELSE g[i - 1] \o lines[i]
      BY <2>0, <3>1
    <3>3. g = [i \in 1 .. n |-> IF i = 1 THEN lines[i] ELSE g[i - 1] \o lines[i]]
      <4>1. g = [i \in 1 .. n |-> g[i]]
        BY <3>1
      <4> QED
        BY <3>2, <4>1
    <3> QED
      BY <3>1, <3>3
  <2>3. Defines(flatten)
    BY <2>2
  <2>4. \A i \in 1 .. n : flatten[i] = IF i = 1 THEN lines[i] ELSE flatten[i - 1] \o lines[i]
    <3> HIDE DEF flatten
    <3> QED
      BY <2>3
  <2>5. lines[1] \in Seq(Words) /\ (n = 2 => lines[2] \in Seq(Words))
    BY <1>1, <1>2, <1>5
  <2> HIDE DEF flatten
  <2>6. flatten[1] = lines[1]
    BY <1>5, <2>4
  <2>7. n = 2 => flatten[2] = lines[1] \o lines[2]
    <3>1. n = 2 => 2 \in 1 .. n /\ 2 # 1 /\ 2 - 1 = 1
      OBVIOUS
    <3> QED
      BY <2>4, <2>6, <3>1
  <2>8. n = 1 \/ n = 2
    BY <1>5
  <2>9. n = 2 => lines[1] \o lines[2] \in Seq(Words)
    BY <2>5
  <2> QED
    BY <2>1, <2>5, <2>6, <2>7, <2>8, <2>9
<1> QED
  BY <1>4, <1>5

\* Reading a name or a value puts a buffer into the text, or leaves it alone.
LEMMA ReadSteps == ASSUME WInv, ReadName \/ ReadValue \/ ReadArray PROVE WInv'
<1>1. \A b \in Buffers : b \in Seq(Words)
  BY WordsAssumption DEF Buffers, SeqOf
<1>2. \E buffer \in Seq(Words) : bow_it(buffer)
  BY <1>1, LinesMakeBuffer DEF ReadName, ReadValue, ReadArray
<1>3. Reading /\ Reading' /\ UNCHANGED <<map, text_counter, pseudonode>>
  BY DEF ReadName, ReadValue, ReadArray, Reading
<1> QED
  BY <1>2, <1>3, BufferStep

\* add_to_bucket: the spec's node comes into the map.
LEMMA CloseFileStep == ASSUME WInv, CloseFile PROVE WInv'
<1>1. PICK t, x, b : t \in 0 .. FILES /\ t = text_counter /\ x = pseudonode.id /\ b = Hash[x]
  BY DEF WInv
<1>2. Reading /\ pseudonode \in Node /\ x \in Specs /\ pseudonode.vec_num + 1 = t
      /\ bag[t].name = x
  BY <1>1 DEF CloseFile, WInv, CurrentNode, Reading, Node
<1>3. b \in 0 .. Buckets - 1 /\ map \in [0 .. Buckets - 1 -> Seq(Node)]
  BY <1>1, <1>2, WordsAssumption DEF WInv, MapOK
<1>4. /\ map' = [map EXCEPT ![b] = Append(@, pseudonode)]
      /\ pseudonode' = NoNode /\ pc' = "folder" /\ bag' = bag /\ text_counter' = t
      /\ occurs' = occurs /\ structures' = structures
  BY <1>1 DEF CloseFile, add_to_bucket, structures
<1>5. map[b] \in Seq(Node)
  BY <1>3
<1>6. /\ map' \in [0 .. Buckets - 1 -> Seq(Node)]
      /\ \A c \in 0 .. Buckets - 1 : c # b => map'[c] = map[c]
      /\ map'[b] = Append(map[b], pseudonode)
  BY <1>2, <1>3, <1>4, <1>5
<1>7. /\ DOMAIN map'[b] = 1 .. Len(map[b]) + 1 /\ Len(map[b]) \in Nat
      /\ \A n \in 1 .. Len(map[b]) : map'[b][n] = map[b][n]
      /\ map'[b][Len(map[b]) + 1] = pseudonode /\ DOMAIN map[b] = 1 .. Len(map[b])
  BY <1>5, <1>6, <1>2
<1>8. MapOK'
  <2>1. ASSUME NEW c \in 0 .. Buckets - 1, NEW n \in DOMAIN map'[c]
        PROVE  /\ map'[c][n].vec_num + 1 <= t
               /\ bag[map'[c][n].vec_num + 1].name = map'[c][n].id
    <3>1. CASE c = b /\ n = Len(map[b]) + 1
      <4>1. map'[c][n] = pseudonode
        BY <1>7, <3>1
      <4> QED
        BY <1>1, <1>2, <4>1
    <3>2. CASE ~(c = b /\ n = Len(map[b]) + 1)
      <4>1. n \in DOMAIN map[c] /\ map'[c][n] = map[c][n]
        BY <1>6, <1>7, <2>1, <3>2
      <4> QED
        BY <1>1, <4>1 DEF WInv, MapOK
    <3> QED
      BY <3>1, <3>2
  <2> QED
    BY <1>4, <1>6, <2>1 DEF MapOK
<1>9. VectorsTaken'
  <2>1. ASSUME NEW y \in Specs, InMap(y) PROVE InMap(y)'
    <3>1. Hash[y] \in 0 .. Buckets - 1
      BY WordsAssumption
    <3>2. PICK n \in DOMAIN map[Hash[y]] : map[Hash[y]][n].id = y
      BY <2>1 DEF InMap
    <3>3. n \in DOMAIN map'[Hash[y]] /\ map'[Hash[y]][n] = map[Hash[y]][n]
      BY <1>6, <1>7, <3>1, <3>2
    <3> QED
      BY <3>2, <3>3 DEF InMap
  <2>2. InMap(x)'
    <3>1. Len(map[b]) + 1 \in DOMAIN map'[b]
      BY <1>7
    <3>2. map'[Hash[x]][Len(map[b]) + 1].id = x
      BY <1>1, <1>7
    <3> QED
      BY <1>1, <3>1, <3>2 DEF InMap
  <2>3. \A i \in 1 .. t : bag[i].name \in Specs
    BY <1>1 DEF WInv, Good, Counts, structures
  <2>4. \A i \in 1 .. t : InMap(bag[i].name) \/ i = t
    BY <1>1 DEF WInv, VectorsTaken
  <2>5. \A i \in 1 .. t : InMap(bag[i].name)'
    <3> TAKE i \in 1 .. t
    <3>1. PICK y \in Specs : y = bag[i].name
      BY <2>3
    <3>2. InMap(y)'
      BY <1>2, <2>1, <2>2, <2>4, <3>1
    <3> QED
      BY <1>4, <3>1, <3>2 DEF InMap
  <2> QED
    BY <1>4, <2>5 DEF VectorsTaken
<1>10. CurrentNode' /\ Unread'
  BY <1>1, <1>4 DEF WInv, CurrentNode, Unread, Reading
<1> QED
  BY <1>1, <1>4, <1>8, <1>9, <1>10 DEF WInv

\* The end of the folders changes nothing the parser has built.
LEMMA EndOfFoldersStep == ASSUME WInv, EndOfFolders PROVE WInv'
BY DEF WInv, EndOfFolders, structures, MapOK, VectorsTaken, CurrentNode, Unread, Reading, InMap

\* main leaves alone what the parser has built.
LEMMA ParserSteps == WInv /\ [Next]_vars => WInv'
<1> SUFFICES ASSUME WInv, [Next]_vars PROVE WInv'
  OBVIOUS
<1>1. CASE Parse
  BY <1>1, OpenFileStep, ReadSteps, CloseFileStep, EndOfFoldersStep DEF Parse, ParseNext
<1>2. CASE UNCHANGED parseVars
  BY <1>2, ParserRests
<1>3. Parse \/ UNCHANGED parseVars
  BY DEF Next, vars, Sort, Done, CreateTfFails, ComputeTfIdf, Call, ExchangeAverages, PlaceAverage,
         CropVector, ExchangeIndices, PlaceIndex, SizeDown
<1> QED
  BY <1>1, <1>2, <1>3

\* What the parser has built stays in order in every behaviour (json_parser of
\* parse.c, and bow.c, dictionary.c, hash.c under it): the tree finds every stored
\* word at its number, the vectors have the same size and room, and what they count
\* are the occurrences in the texts read so far.
THEOREM ParserInvariance == Spec => []WInv
<1>1. Init => WInv
  BY InitParsed
<1>2. WInv /\ [Next]_vars => WInv'
  BY ParserSteps
<1> QED
  BY <1>1, <1>2, PTL DEF Spec

\* The vectors agree in every state the invariant allows.
LEMMA VectorsAgree == WInv => VectorsGrowTogether
<1> SUFFICES ASSUME WInv PROVE VectorsGrowTogether
  OBVIOUS
<1>1. VectorsOK(structures)
  BY DEF WInv, Good, Laid
<1> QED
  BY <1>1 DEF VectorsOK, Sized, structures, VectorsGrowTogether, Vectors

\* The vectors of all texts and the frequencies always have the same size and room,
\* and are zero past their size (new_word of bow.c:25-37 enlarges them together).
THEOREM VectorsTogether == Spec => []VectorsGrowTogether
BY VectorsAgree, ParserInvariance, PTL

\* The words that are met are those stored.
LEMMA SeenIsStored ==
  ASSUME WInv
  PROVE  /\ Seen = Stored(dict) /\ Seen \subseteq Words
         /\ \A w \in Words : search_tree(dict, w) = IF w \in Seen THEN dict.payload[w] ELSE -1
<1>1. Laid(structures) /\ StoresMet(structures, occurs)
  BY DEF WInv, Good
<1>2. Stored(dict) = {w \in Words \ StopWords : TextsIn(occurs, w) # {}}
  BY <1>1 DEF StoresMet, structures
<1>3. \A w : w \in Seen <=> w \in Words \ StopWords /\ TextsIn(occurs, w) # {}
  BY DEF Seen, InText, Counted, TextsIn
<1>4. Seen = Stored(dict)
  BY <1>2, <1>3
<1>5. Searchable(dict) /\ Linked(dict) /\ FindsStored(dict)
  BY <1>1 DEF Laid, structures
<1> QED
  BY <1>2, <1>4, <1>5, SearchFinds

\* So does the dictionary find the words.
LEMMA WordsFound == WInv => DictionaryFindsPositions
<1> SUFFICES ASSUME WInv PROVE DictionaryFindsPositions
  OBVIOUS
<1>1. /\ Seen = Stored(dict) /\ Seen \subseteq Words
      /\ \A w \in Words : search_tree(dict, w) = IF w \in Seen THEN dict.payload[w] ELSE -1
  BY SeenIsStored
<1>2. NumbersOK(dict, word_counter)
  BY DEF WInv, Good, Laid, structures
<1>3. PICK position : position = [w \in Seen |-> search_tree(dict, w)]
  OBVIOUS
<1>4. position = [w \in Seen |-> dict.payload[w]]
  BY <1>1, <1>3
<1>5. IsInjective(position)
  BY <1>1, <1>2, <1>4 DEF IsInjective, NumbersOK
<1>6. Range(position) = 0 .. word_counter - 1
  BY <1>1, <1>2, <1>4 DEF Range, NumbersOK
<1> QED
  BY <1>1, <1>3, <1>5, <1>6 DEF DictionaryFindsPositions

\* The dictionary always finds the words met so far, stop words excepted, and no
\* others, and the positions it gives are the numbers below the count of words, each
\* for one word (the search and insertion of stringOps.c:54-68).
THEOREM PositionsFound == Spec => []DictionaryFindsPositions
BY WordsFound, ParserInvariance, PTL

\* So the positions that the dictionary gives are always those that the vectors have
\* for the words, although nothing but the order of the calls keeps them equal.
THEOREM DictionaryAgrees == Spec => []DictionaryMatchesVectors
BY VectorsTogether, PositionsFound, PTL DEF DictionaryMatchesVectors

\* So are the frequencies those of the texts.
LEMMA FrequenciesRight == WInv => FrequencyCountsTexts
<1> SUFFICES ASSUME WInv, NEW w \in Seen
             PROVE  idf_vec.elements[search_tree(dict, w)]
                      = Cardinality({s \in Specs : w \in InText(s)})
  BY DEF FrequencyCountsTexts
<1>1. /\ w \in Stored(dict) /\ w \in Words
      /\ search_tree(dict, w) = dict.payload[w]
  BY SeenIsStored
<1>2. idf_vec.elements[dict.payload[w]] = Cardinality(TextsIn(occurs, w))
  BY <1>1 DEF WInv, Good, Counts, structures
<1>3. w \in Counted
  BY DEF Seen, InText
<1>4. {s \in Specs : w \in InText(s)} = TextsIn(occurs, w)
  BY <1>3 DEF InText, TextsIn
<1> QED
  BY <1>1, <1>2, <1>4

\* The frequency of a word is always the number of texts it is in, however often it
\* is in each (bow.c:38, 48).
THEOREM FrequenciesOfTexts == Spec => []FrequencyCountsTexts
BY FrequenciesRight, ParserInvariance, PTL

\* So do specs find their counts.
LEMMA CountsFound == WInv => SpecsFindTheirCounts
<1> SUFFICES ASSUME WInv, NEW x \in Specs, Found(x), NEW vec, vec = bag[NodeOf(x).vec_num + 1]
             PROVE  /\ vec.name = x
                    /\ \A w \in Seen : vec.elements[search_tree(dict, w)] = occurs[x][w]
                    /\ vec.word_count = Cardinality(InText(x))
  BY DEF SpecsFindTheirCounts
<1>1. /\ find_node(x) \in DOMAIN map[Hash[x]] /\ NodeOf(x).id = x
      /\ Hash[x] \in 0 .. Buckets - 1 /\ NodeOf(x) = map[Hash[x]][find_node(x)]
  BY FoundInMap, WordsAssumption DEF WInv, NodeOf
<1>2. /\ NodeOf(x) \in Node /\ NodeOf(x).vec_num + 1 <= text_counter
      /\ bag[NodeOf(x).vec_num + 1].name = x
  BY <1>1 DEF WInv, MapOK
<1>3. PICK i : i = NodeOf(x).vec_num + 1
  OBVIOUS
<1>4. i \in 1 .. FILES /\ i <= text_counter /\ bag[i].name = x /\ vec = bag[i]
  BY <1>2, <1>3, FilesAreCounted DEF Node
<1>5. Holds(structures, i, occurs[x])
  BY <1>4 DEF WInv, Good, Counts, structures
<1>6. /\ Seen = Stored(dict) /\ Seen \subseteq Words
      /\ \A w \in Words : search_tree(dict, w) = IF w \in Seen THEN dict.payload[w] ELSE -1
  BY SeenIsStored
<1>7. \A w \in Seen : bag[i].elements[search_tree(dict, w)] = occurs[x][w]
  BY <1>5, <1>6 DEF Holds, structures
<1>8. {w \in Stored(dict) : occurs[x][w] > 0} = InText(x)
  BY <1>6 DEF Seen, InText, Counted
<1>9. bag[i].word_count = Cardinality(InText(x))
  BY <1>5, <1>8 DEF Holds, structures
<1> QED
  BY <1>4, <1>7, <1>9

\* A spec that the map finds always leads to the vector with its name, and there to
\* the number of occurrences of each word in its text (what conflict_resolution, train
\* and test do with a spec, routines.c:39-42).
THEOREM CountsOfSpecs == Spec => []SpecsFindTheirCounts
BY CountsFound, ParserInvariance, PTL

\* So what TF-IDF reads of a spec and of a word (tf.c:43-53) is always what the texts say.
THEOREM TextNumbersRight == Spec => []NumbersAreOfTexts
BY CountsOfSpecs, FrequenciesOfTexts, PTL DEF NumbersAreOfTexts
=============================================================================
