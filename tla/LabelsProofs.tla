----------------------------- MODULE LabelsProofs -----------------------------
(***************************************************************************)
(* Theorems about Labels, for any nodes and any number of labelled rows:   *)
(* the pointer structures implement the closure of the labels, their       *)
(* three views agree, and what is printed is the closure.                  *)
(***************************************************************************)
EXTENDS Labels, CliquesProofs

Root(x) == RootBy(parent, x)

\* The representatives that have been gone through, by each of the two prints.
Passed == {cliques[k] : k \in 1 .. at - 1}
PassedCliques ==
  IF pc \in {"positive", "negative"} THEN {}
  ELSE IF pc = "printCliques" THEN Passed ELSE ToSet(cliques)
PassedNegatives ==
  IF pc \in {"positive", "negative", "printCliques"} THEN {}
  ELSE IF pc = "printNegatives" THEN Passed ELSE ToSet(cliques)

\* The three views, while they are needed.
StructuresOK == pc # "done" => ViewsOK

\* The lists are of roots and name roots, both ways, and another root only once.
NegativesOK ==
  /\ \A x, y \in Nodes : Names(ngl, x, y) =>
       parent[x] = NoNode /\ parent[y] = NoNode /\ Names(ngl, y, x)
  /\ NamedOnce(ngl)

\* A list that has not been gone through is marked for those that have been.
MarksOK ==
  \A x \in Nodes \ PassedNegatives : \A k \in DOMAIN ngl[x] :
    ngl[x][k].neg_clique # x =>
      (ngl[x][k].printed = 0 <=> ngl[x][k].neg_clique \in PassedNegatives)

\* Two nodes of a clique that has been gone through have been printed once, in one order.
PositiveLinesOK ==
  \A x, y \in Nodes :
    /\ x = y => output[Row(x, y, 1)] = 0
    /\ x # y => output[Row(x, y, 1)] + output[Row(y, x, 1)]
                  = IF Root(x) = Root(y) /\ Root(x) \in PassedCliques THEN 1 ELSE 0

\* Nodes of two cliques told apart have been printed once, when the first of the two lists
\* was gone through, and nodes of one clique only if it is told apart from itself.
NegativeLinesOK ==
  \A x, y \in Nodes :
    /\ Root(x) # Root(y) =>
         output[Row(x, y, 0)] + output[Row(y, x, 0)]
           = IF Names(ngl, Root(x), Root(y)) /\ {Root(x), Root(y)} \cap PassedNegatives # {}
               THEN 1 ELSE 0
    /\ Root(x) = Root(y) /\ ~Names(ngl, Root(x), Root(x)) => output[Row(x, y, 0)] = 0
LinesOK == pc # "done" => MarksOK /\ PositiveLinesOK /\ NegativeLinesOK

\* Nothing is told apart in the first pass, whose rows have label 1, nothing is printed
\* before the file has been read, and at is a place in the clique list.
PhasesOK ==
  /\ pc = "positive" => ngl = [x \in Nodes |-> <<>>] /\ row.label = 1
  /\ pc \in {"positive", "negative"} => at = 1 /\ output = [line \in Rows |-> 0]
  /\ pc \in {"printed", "done"} => at = Len(cliques) + 1

\* The inductive invariant.
IInv == /\ TypeOK /\ PhasesOK
        /\ StructuresOK /\ NegativesOK /\ LinesOK

-----------------------------------------------------------------------------
(* Types *)

\* The types that the lemmas use.
LEMMA Typed ==
  ASSUME TypeOK
  PROVE  /\ ngl \in [Nodes -> Seq(NegEntry)] /\ cliques \in Seq(Nodes)
         /\ output \in [Rows -> Nat] /\ row \in Rows
         /\ Len(cliques) \in Nat /\ DOMAIN cliques = 1 .. Len(cliques)
         /\ at \in Nat \ {0} /\ at \in 1 .. Len(cliques) + 1
<1>1. /\ ngl \in [Nodes -> Seq(NegEntry)] /\ cliques \in Seq(Nodes)
      /\ output \in [Rows -> Nat] /\ row \in Rows /\ at \in 1 .. Len(cliques) + 1
  BY DEF TypeOK, CliquesTypeOK, NegEntry
<1>2. Len(cliques) \in Nat /\ DOMAIN cliques = 1 .. Len(cliques)
  BY <1>1
<1> QED
  BY <1>1, <1>2

\* A row is told from its fields.
LEMMA RowFacts ==
  /\ \A x, y \in Nodes : \A l \in {0, 1} : Row(x, y, l) \in Rows
  /\ \A x, y, a, b, l, m : Row(x, y, l) = Row(a, b, m) <=> x = a /\ y = b /\ l = m
BY DEF Row, Rows

-----------------------------------------------------------------------------
(* Marking *)

\* The entry for r is marked, if there is one, and nothing else changes.
LEMMA PrintedFacts ==
  ASSUME NEW list \in Seq(NegEntry), NEW r \in Nodes
  PROVE  /\ Printed(list, r) \in Seq(NegEntry) /\ DOMAIN Printed(list, r) = DOMAIN list
         /\ \A k \in DOMAIN list :
              /\ Printed(list, r)[k].neg_clique = list[k].neg_clique
              /\ list[k].neg_clique # r => Printed(list, r)[k] = list[k]
         /\ \A k \in DOMAIN list :
              /\ list[k].neg_clique = r
              /\ \A j \in DOMAIN list : list[j].neg_clique = r => j = k
              => Printed(list, r)[k].printed = 0
<1>1. PICK n \in Nat : n = Len(list) /\ DOMAIN list = 1 .. n
  OBVIOUS
<1> DEFINE places == {k \in 1 .. n : list[k].neg_clique = r}
<1>2. CASE places = {}
  <2>1. SelectInSeq(list, LAMBDA e : e.neg_clique = r) = 0
    BY <1>1, <1>2 DEF SelectInSeq
  <2>2. Printed(list, r) = list
    BY <2>1 DEF Printed
  <2> QED
    BY <1>1, <1>2, <2>2
<1>3. CASE places # {}
  <2>1. PICK m \in places : \A j \in places : m <= j
    <3>1. places \in SUBSET Nat
      OBVIOUS
    <3> HIDE DEF places
    <3> QED
      BY <1>3, <3>1, Least
  <2>2. SelectInSeq(list, LAMBDA e : e.neg_clique = r) \in places
    BY <1>1, <1>3, <2>1 DEF SelectInSeq, Min
  <2>3. PICK k \in 1 .. n : /\ k = SelectInSeq(list, LAMBDA e : e.neg_clique = r)
                            /\ list[k].neg_clique = r
    BY <2>2
  <2>4. PICK e \in NegEntry : e = list[k]
    BY <1>1
  <2>5. PICK marked \in NegEntry : /\ marked = [e EXCEPT !.printed = 0]
                                   /\ marked.neg_clique = e.neg_clique /\ marked.printed = 0
    <3>1. /\ [e EXCEPT !.printed = 0] \in NegEntry
          /\ [e EXCEPT !.printed = 0].neg_clique = e.neg_clique
          /\ [e EXCEPT !.printed = 0].printed = 0
      BY DEF NegEntry
    <3> QED
      BY <3>1
  <2>6. Printed(list, r) = [list EXCEPT ![k].printed = 0]
    BY <2>3 DEF Printed
  <2>7. [list EXCEPT ![k].printed = 0] = [list EXCEPT ![k] = marked]
    BY <1>1, <2>4, <2>5
  <2>8. PICK after : after = [list EXCEPT ![k] = marked]
    OBVIOUS
  <2>9. after \in Seq(NegEntry) /\ DOMAIN after = 1 .. n /\ after[k] = marked
        /\ \A j \in 1 .. n : j # k => after[j] = list[j]
    BY <1>1, <2>8
  <2>10. Printed(list, r) = after
    BY <2>6, <2>7, <2>8
  <2> QED
    BY <1>1, <2>3, <2>4, <2>5, <2>9, <2>10
<1> QED
  BY <1>2, <1>3

-----------------------------------------------------------------------------
(* The first state, and the steps that only change the phase *)

\* The fields of the cliques have their types when the views are right.
LEMMA ViewsTyped ==
  ASSUME ViewsOK
  PROVE  /\ parent \in [Nodes -> Nodes \cup {NoNode}]
         /\ amount \in [Nodes -> {-1} \cup 1 .. Cardinality(Nodes)]
<1>1. Forest(parent) /\ amount = AmountsBy(parent)
  BY DEF ViewsOK
<1>2. amount \in [Nodes -> {-1} \cup 1 .. Cardinality(Nodes)]
  BY <1>1, AmountsTyped
<1>3. parent \in [Nodes -> Nodes \cup {NoNode}]
  BY <1>1 DEF Forest
<1> QED
  BY <1>2, <1>3

\* Empty lists name nothing.
LEMMA NothingNamed ==
  ASSUME NEW n, n = [x \in Nodes |-> <<>>]
  PROVE  /\ n \in [Nodes -> Seq(NegEntry)] /\ NamedOnce(n)
         /\ \A x \in Nodes : DOMAIN n[x] = {}
         /\ \A x, y \in Nodes : ~Names(n, x, y)
<1>1. <<>> \in Seq(NegEntry) /\ DOMAIN <<>> = {}
  OBVIOUS
<1>2. n \in [Nodes -> Seq(NegEntry)] /\ \A x \in Nodes : n[x] = <<>>
  BY <1>1
<1> QED
  BY <1>1, <1>2 DEF NamedOnce, Names

\* Initially nothing is joined, told apart or printed.
LEMMA Starts == Init => IInv
<1> SUFFICES ASSUME Init PROVE IInv
  OBVIOUS
<1>1. /\ CliquesInit /\ pc = "positive" /\ at = 1
      /\ \E x \in Nodes : row = Row(x, x, 1)
      /\ output = [line \in Rows |-> 0]
  BY DEF Init
<1>2. ViewsOK
  BY <1>1, SinglesViews DEF CliquesInit
<1>3. ngl = [x \in Nodes |-> <<>>] /\ cliques = <<>> /\ next_in_clique = [x \in Nodes |-> NoNode]
  BY <1>1 DEF CliquesInit
<1>4. /\ ngl \in [Nodes -> Seq(NegEntry)] /\ NamedOnce(ngl)
      /\ \A x \in Nodes : DOMAIN ngl[x] = {}
      /\ \A x, y \in Nodes : ~Names(ngl, x, y)
  BY <1>3, NothingNamed
<1>5. row \in Rows /\ row.label = 1
  BY <1>1 DEF Row, Rows
<1>6. \A x, y \in Nodes : \A l \in {0, 1} : output[Row(x, y, l)] = 0
  BY <1>1, RowFacts
<1>7. TypeOK
  <2>1. cliques \in Seq(Nodes) /\ Len(cliques) = 0
    BY <1>3
  <2>2. CliquesTypeOK
    BY <1>2, <1>3, <1>4, <2>1, ViewsTyped DEF CliquesTypeOK, NegEntry
  <2>3. at \in 1 .. Len(cliques) + 1
    BY <1>1, <2>1
  <2>4. output \in [Rows -> Nat]
    BY <1>1
  <2> QED
    BY <1>1, <1>5, <2>2, <2>3, <2>4 DEF TypeOK
<1>8. PhasesOK
  BY <1>1, <1>3, <1>5 DEF PhasesOK
<1>9. NegativesOK
  BY <1>4 DEF NegativesOK
<1>10. MarksOK
  BY <1>4 DEF MarksOK
<1>11. PositiveLinesOK
  BY <1>1, <1>6 DEF PositiveLinesOK, PassedCliques
<1>12. NegativeLinesOK
  <2>1. \A x \in Nodes : Root(x) \in Nodes
    BY <1>2, RootByFacts DEF ViewsOK, Root
  <2> QED
    BY <1>4, <1>6, <2>1 DEF NegativeLinesOK
<1> QED
  BY <1>2, <1>7, <1>8, <1>9, <1>10, <1>11, <1>12 DEF IInv, StructuresOK, LinesOK

\* A step that changes neither the cliques, nor the output, nor what has been gone through.
LEMMA QuietStep ==
  ASSUME IInv, UNCHANGED <<cliqueVars, row, output>>,
         PassedCliques' = PassedCliques, PassedNegatives' = PassedNegatives,
         pc # "done" \/ pc' = "done", TypeOK', PhasesOK'
  PROVE  IInv'
<1> USE DEF cliqueVars
<1>1. /\ StructuresOK /\ NegativesOK /\ LinesOK
  BY DEF IInv
<1>2. NegativesOK'
  BY <1>1 DEF NegativesOK, NamedOnce, Names
<1>3. ASSUME pc' # "done" PROVE ViewsOK' /\ MarksOK' /\ PositiveLinesOK' /\ NegativeLinesOK'
  <2>1. pc # "done"
    BY <1>3
  <2>2. ViewsOK /\ MarksOK /\ PositiveLinesOK /\ NegativeLinesOK
    BY <1>1, <2>1 DEF StructuresOK, LinesOK
  <2>3. ViewsOK'
    BY <2>2 DEF ViewsOK
  <2>4. MarksOK'
    BY <2>2 DEF MarksOK
  <2>5. PositiveLinesOK'
    BY <2>2 DEF PositiveLinesOK, Root
  <2>6. NegativeLinesOK'
    BY <2>2 DEF NegativeLinesOK, Root, Names
  <2> QED
    BY <2>3, <2>4, <2>5, <2>6
<1> QED
  BY <1>2, <1>3 DEF IInv, StructuresOK, LinesOK

\* The steps that only change the phase.
LEMMA PhaseSteps ==
  ASSUME IInv, Rewind \/ EndOfFile \/ CliquesPrinted \/ NegativesPrinted \/ UNCHANGED labelVars
  PROVE  IInv'
<1> USE DEF cliqueVars
<1>1. TypeOK /\ PhasesOK
  BY DEF IInv
<1>2. /\ CliquesTypeOK /\ row \in Rows /\ output \in [Rows -> Nat]
      /\ at \in 1 .. Len(cliques) + 1 /\ cliques \in Seq(Nodes)
      /\ pc \in {"positive", "negative", "printCliques", "printNegatives", "printed", "done"}
  BY <1>1 DEF TypeOK, CliquesTypeOK
<1>3. PICK n \in Nat : n = Len(cliques) /\ DOMAIN cliques = 1 .. n
  BY <1>2
<1>4. ASSUME UNCHANGED cliqueVars PROVE CliquesTypeOK'
  BY <1>2, <1>4 DEF CliquesTypeOK
<1>5. at = 1 => Passed = {}
  BY DEF Passed
<1>6. at = n + 1 => Passed = ToSet(cliques)
  <2>1. 1 .. n + 1 - 1 = DOMAIN cliques
    BY <1>3
  <2> QED
    BY <2>1 DEF Passed, ToSet
<1>7. at > n => at = n + 1
  BY <1>2, <1>3
<1>8. CASE Rewind
  <2>1. /\ pc = "positive" /\ pc' = "negative" /\ UNCHANGED <<cliqueVars, at, row, output>>
    BY <1>8 DEF Rewind
  <2>2. TypeOK' /\ PhasesOK'
    BY <1>1, <1>2, <1>4, <2>1 DEF TypeOK, PhasesOK
  <2>3. PassedCliques' = PassedCliques /\ PassedNegatives' = PassedNegatives
    BY <2>1 DEF PassedCliques, PassedNegatives
  <2> QED
    BY <2>1, <2>2, <2>3, QuietStep
<1>9. CASE EndOfFile
  <2>1. /\ pc = "negative" /\ pc' = "printCliques" /\ UNCHANGED <<cliqueVars, at, row, output>>
    BY <1>9 DEF EndOfFile
  <2>2. TypeOK' /\ PhasesOK'
    BY <1>1, <1>2, <1>4, <2>1 DEF TypeOK, PhasesOK
  <2>a. Passed' = {}
    BY <1>1, <1>5, <2>1 DEF PhasesOK, Passed
  <2>3. PassedCliques' = PassedCliques /\ PassedNegatives' = PassedNegatives
    BY <2>1, <2>a DEF PassedCliques, PassedNegatives
  <2> QED
    BY <2>1, <2>2, <2>3, QuietStep
<1>10. CASE CliquesPrinted
  <2>1. /\ pc = "printCliques" /\ pc' = "printNegatives" /\ at > Len(cliques) /\ at' = 1
        /\ UNCHANGED <<cliqueVars, row, output>>
    BY <1>10 DEF CliquesPrinted
  <2>b. at' \in 1 .. Len(cliques') + 1
    BY <1>3, <2>1
  <2>2. TypeOK' /\ PhasesOK'
    BY <1>1, <1>2, <1>4, <2>1, <2>b DEF TypeOK, PhasesOK
  <2>a. Passed' = {} /\ Passed = ToSet(cliques)
    <3>1. Passed' = {}
      BY <2>1 DEF Passed
    <3> QED
      BY <1>3, <1>6, <1>7, <2>1, <3>1
  <2>3. PassedCliques' = PassedCliques /\ PassedNegatives' = PassedNegatives
    BY <2>1, <2>a DEF PassedCliques, PassedNegatives
  <2> QED
    BY <2>1, <2>2, <2>3, QuietStep
<1>11. CASE NegativesPrinted
  <2>1. /\ pc = "printNegatives" /\ pc' = "printed" /\ at > Len(cliques)
        /\ UNCHANGED <<cliqueVars, at, row, output>>
    BY <1>11 DEF NegativesPrinted
  <2>2. TypeOK' /\ PhasesOK'
    BY <1>1, <1>2, <1>3, <1>4, <1>7, <2>1 DEF TypeOK, PhasesOK
  <2>a. Passed = ToSet(cliques)
    BY <1>3, <1>6, <1>7, <2>1
  <2>3. PassedCliques' = PassedCliques /\ PassedNegatives' = PassedNegatives
    BY <2>1, <2>a DEF PassedCliques, PassedNegatives
  <2> QED
    BY <2>1, <2>2, <2>3, QuietStep
<1>12. CASE UNCHANGED labelVars
  <2>1. UNCHANGED <<cliqueVars, pc, at, row, output>>
    BY <1>12 DEF labelVars
  <2>2. TypeOK' /\ PhasesOK'
    BY <1>1, <1>2, <1>4, <2>1 DEF TypeOK, PhasesOK
  <2>3. PassedCliques' = PassedCliques /\ PassedNegatives' = PassedNegatives
    BY <2>1 DEF PassedCliques, PassedNegatives, Passed
  <2> QED
    BY <2>1, <2>2, <2>3, QuietStep
<1> QED
  BY <1>8, <1>9, <1>10, <1>11, <1>12

-----------------------------------------------------------------------------
(* Reading the rows *)

\* While nothing has been printed, the lines are right if no entry has been marked: here of
\* the state a step leads to.
LEMMA NothingPrintedNext ==
  ASSUME pc' \in {"positive", "negative"}, Forest(parent'), output' = [line \in Rows |-> 0],
         \A x \in Nodes : \A k \in DOMAIN ngl'[x] :
           ngl'[x][k].neg_clique # x => ngl'[x][k].printed = 1
  PROVE  MarksOK' /\ PositiveLinesOK' /\ NegativeLinesOK'
<1>1. PassedCliques' = {} /\ PassedNegatives' = {}
  BY DEF PassedCliques, PassedNegatives
<1>2. \A x, y \in Nodes : \A l \in {0, 1} : output'[Row(x, y, l)] = 0
  BY RowFacts
<1>3. MarksOK'
  BY <1>1 DEF MarksOK
<1>4. PositiveLinesOK'
  BY <1>1, <1>2 DEF PositiveLinesOK
<1>5. NegativeLinesOK'
  BY <1>1, <1>2 DEF NegativeLinesOK
<1> QED
  BY <1>3, <1>4, <1>5

\* A row of label 1 joins two cliques, and nothing has been told apart yet.
LEMMA PositiveStep == ASSUME IInv, ReadPositive PROVE IInv'
<1>1. PICK a, b \in Nodes : JoinSets(a, b) /\ row' = Row(a, b, 1)
  BY DEF ReadPositive
<1>2. /\ pc = "positive" /\ UNCHANGED <<ngl, pc, at, output>>
  BY DEF ReadPositive
<1>3. /\ ViewsOK /\ TypeOK /\ ngl = [x \in Nodes |-> <<>>]
      /\ at = 1 /\ output = [line \in Rows |-> 0]
  BY <1>2 DEF IInv, StructuresOK, PhasesOK
<1>4. ViewsOK'
  BY <1>1, <1>3, JoinViews
<1>5. /\ parent' \in [Nodes -> Nodes \cup {NoNode}]
      /\ amount' \in [Nodes -> {-1} \cup 1 .. Cardinality(Nodes)]
      /\ Forest(parent')
  <2>1. Forest(parent') /\ amount' = AmountsBy(parent')
    BY <1>4 DEF ViewsOK
  <2> QED
    BY <2>1, AmountsTyped DEF Forest
<1>6. next_in_clique' \in [Nodes -> Nodes \cup {NoNode}] /\ cliques' \in Seq(Nodes)
  BY <1>1, <1>3, JoinTyped DEF ViewsOK, TypeOK, CliquesTypeOK
<1>7. /\ ngl' \in [Nodes -> Seq(NegEntry)] /\ NamedOnce(ngl')
      /\ \A x \in Nodes : DOMAIN ngl'[x] = {}
      /\ \A x, y \in Nodes : ~Names(ngl', x, y)
  BY <1>2, <1>3, NothingNamed
<1>8. TypeOK'
  <2>1. CliquesTypeOK'
    BY <1>5, <1>6, <1>7 DEF CliquesTypeOK, NegEntry
  <2>2. row' \in Rows
    BY <1>1, RowFacts
  <2>3. at' \in 1 .. Len(cliques') + 1
    BY <1>2, <1>3, <1>6
  <2> QED
    BY <1>2, <1>3, <2>1, <2>2, <2>3 DEF TypeOK
<1>9. PhasesOK'
  BY <1>1, <1>2, <1>3 DEF PhasesOK, Row
<1>10. NegativesOK'
  BY <1>7 DEF NegativesOK
<1>11. LinesOK'
  BY <1>2, <1>3, <1>5, <1>7, NothingPrintedNext DEF LinesOK
<1> QED
  BY <1>4, <1>8, <1>9, <1>10, <1>11 DEF IInv, StructuresOK

\* neglist_add adds the two entries unless the first list has its one.
LEMMA AddsBoth ==
  ASSUME NEW r \in Nodes, NEW s \in Nodes, NeglistAdd(r, s)
  PROVE  ngl' = IF Names(ngl, r, s) THEN ngl ELSE ToldBoth(ngl, r, s)
BY DEF NeglistAdd, InNeglist, Names, ToldBoth

\* A row of label 0 tells two roots apart.
LEMMA NegativeStep == ASSUME IInv, ReadNegative PROVE IInv'
<1>1. PICK a, b \in Nodes : NeglistAdd(FindRoot(a), FindRoot(b)) /\ row' = Row(a, b, 0)
  BY DEF ReadNegative
<1>2. pc = "negative" /\ UNCHANGED <<setVars, pc, at, output>>
  BY DEF ReadNegative
<1>a. UNCHANGED <<parent, next_in_clique, amount, cliques>>
  BY <1>2 DEF setVars
<1>3. /\ ViewsOK /\ TypeOK /\ NegativesOK /\ MarksOK
      /\ at = 1 /\ output = [line \in Rows |-> 0]
  BY <1>2 DEF IInv, StructuresOK, PhasesOK, LinesOK
<1>4. ngl \in [Nodes -> Seq(NegEntry)] /\ cliques \in Seq(Nodes)
  BY <1>3, Typed
<1>5. \A x \in Nodes : \A k \in DOMAIN ngl[x] :
        ngl[x][k].neg_clique # x => ngl[x][k].printed = 1
  <2> SUFFICES ASSUME NEW x \in Nodes, NEW k \in DOMAIN ngl[x], ngl[x][k].neg_clique # x
               PROVE  ngl[x][k].printed = 1
    OBVIOUS
  <2>1. PassedNegatives = {}
    BY <1>2 DEF PassedNegatives
  <2>2. PICK e \in NegEntry : e = ngl[x][k]
    BY <1>4
  <2>3. e.printed \in {0, 1}
    BY DEF NegEntry
  <2> QED
    BY <1>3, <2>1, <2>2, <2>3 DEF MarksOK
<1>6. PICK r, s \in Nodes : /\ r = FindRoot(a) /\ s = FindRoot(b)
                            /\ parent[r] = NoNode /\ parent[s] = NoNode
  BY <1>3, FindRootBy, RootByFacts DEF ViewsOK
<1>7. ngl' = IF Names(ngl, r, s) THEN ngl ELSE ToldBoth(ngl, r, s)
  BY <1>1, <1>6, AddsBoth
<1>8. /\ ngl' \in [Nodes -> Seq(NegEntry)] /\ NegativesOK'
      /\ \A x \in Nodes : \A k \in DOMAIN ngl'[x] :
           ngl'[x][k].neg_clique # x => ngl'[x][k].printed = 1
  <2>1. CASE Names(ngl, r, s)
    <3>1. ngl' = ngl
      BY <1>7, <2>1
    <3> QED
      BY <1>a, <1>3, <1>4, <1>5, <3>1 DEF NegativesOK
  <2>2. CASE ~Names(ngl, r, s)
    <3>1. PICK n, m : n = ngl /\ m = ngl' /\ m = ToldBoth(n, r, s)
      BY <1>7, <2>2
    <3>a. n \in [Nodes -> Seq(NegEntry)] /\ ~Names(n, r, s)
      BY <1>4, <2>2, <3>1
    <3>2. ~Names(ngl, s, r) /\ NamedOnce(ngl)
      BY <1>3, <2>2 DEF NegativesOK
    <3>b. ~Names(n, s, r) /\ NamedOnce(n)
      BY <3>1, <3>2
    <3>c. Tells(n, m, r, s)
      BY <3>1, <3>a, <3>b, ToldBothFacts
    <3>3. /\ ngl' \in [Nodes -> Seq(NegEntry)]
          /\ \A x, y \in Nodes :
               Names(ngl', x, y) <=> Names(ngl, x, y) \/ (x = r /\ y = s) \/ (x = s /\ y = r)
          /\ NamedOnce(ngl')
          /\ \A x \in Nodes : \A k \in DOMAIN ngl'[x] :
               (k \in DOMAIN ngl[x] /\ ngl'[x][k] = ngl[x][k]) \/ ngl'[x][k].printed = 1
      BY <3>1, <3>c DEF Tells
    <3>4. \A x, y \in Nodes : Names(ngl', x, y) =>
            parent'[x] = NoNode /\ parent'[y] = NoNode /\ Names(ngl', y, x)
      BY <1>a, <1>3, <1>6, <3>3 DEF NegativesOK
    <3>5. NegativesOK'
      BY <3>3, <3>4 DEF NegativesOK
    <3> QED
      BY <1>5, <3>3, <3>5
  <2> QED
    BY <2>1, <2>2
<1>9. ViewsOK'
  BY <1>a, <1>3 DEF ViewsOK
<1>10. TypeOK'
  <2>1. CliquesTypeOK'
    BY <1>a, <1>3, <1>8 DEF TypeOK, CliquesTypeOK, NegEntry
  <2>2. row' \in Rows
    BY <1>1, RowFacts
  <2> QED
    BY <1>2, <1>a, <1>3, <2>1, <2>2 DEF TypeOK
<1>11. PhasesOK'
  BY <1>2, <1>3 DEF PhasesOK
<1>12. LinesOK'
  <2>1. Forest(parent')
    BY <1>9 DEF ViewsOK
  <2> QED
    BY <1>2, <1>3, <1>8, <2>1, NothingPrintedNext DEF LinesOK
<1> QED
  BY <1>8, <1>9, <1>10, <1>11, <1>12 DEF IInv, StructuresOK

-----------------------------------------------------------------------------
(* Printing the cliques *)

\* The pairs of places of c of which print_clique prints the line.
PairsOf(c, line) ==
  {kl \in (DOMAIN c) \X (DOMAIN c) : kl[1] < kl[2] /\ line = Row(c[kl[1]], c[kl[2]], 1)}

\* They are counted.
LEMMA PairsCount ==
  ASSUME NEW c \in Seq(Nodes), NEW line
  PROVE  IsFiniteSet(PairsOf(c, line)) /\ Cardinality(PairsOf(c, line)) \in Nat
<1>1. DOMAIN c = 1 .. Len(c) /\ Len(c) \in Nat
  OBVIOUS
<1>2. IsFiniteSet(DOMAIN c)
  BY <1>1, FS_Interval
<1>3. IsFiniteSet((DOMAIN c) \X (DOMAIN c))
  BY <1>2, FS_Product
<1>4. PairsOf(c, line) \subseteq (DOMAIN c) \X (DOMAIN c)
  BY DEF PairsOf
<1>5. IsFiniteSet(PairsOf(c, line))
  BY <1>3, <1>4, FS_Subset
<1> QED
  BY <1>5, FS_CardinalityType

\* A list that has every node once gives one line to two of its nodes, in one of the two
\* orders, and none to other nodes.
LEMMA PairsOnce ==
  ASSUME NEW c \in Seq(Nodes), IsInjective(c), NEW x \in Nodes, NEW y \in Nodes
  PROVE  /\ PairsOf(c, Row(x, y, 0)) = {} /\ PairsOf(c, Row(x, x, 1)) = {}
         /\ ~({x, y} \subseteq ToSet(c)) => PairsOf(c, Row(x, y, 1)) = {}
         /\ {x, y} \subseteq ToSet(c) /\ x # y =>
              \/ /\ Cardinality(PairsOf(c, Row(x, y, 1))) = 1
                 /\ PairsOf(c, Row(y, x, 1)) = {}
              \/ /\ PairsOf(c, Row(x, y, 1)) = {}
                 /\ Cardinality(PairsOf(c, Row(y, x, 1))) = 1
<1>1. PICK n \in Nat : n = Len(c) /\ DOMAIN c = 1 .. n
  OBVIOUS
<1>2. \A i, j \in 1 .. n : c[i] = c[j] => i = j
  BY <1>1 DEF IsInjective
<1>3. \A z \in Nodes : z \in ToSet(c) <=> \E i \in 1 .. n : c[i] = z
  BY <1>1 DEF ToSet
<1>4. \A u, v \in Nodes : \A kl \in PairsOf(c, Row(u, v, 1)) :
        /\ kl \in (1 .. n) \X (1 .. n) /\ kl[1] < kl[2]
        /\ c[kl[1]] = u /\ c[kl[2]] = v
  BY <1>1, RowFacts DEF PairsOf
<1>5. PairsOf(c, Row(x, y, 0)) = {}
  BY RowFacts DEF PairsOf
<1>6. PairsOf(c, Row(x, x, 1)) = {}
  <2> SUFFICES ASSUME NEW kl \in PairsOf(c, Row(x, x, 1)) PROVE FALSE
    OBVIOUS
  <2>1. PICK i, j \in 1 .. n : i = kl[1] /\ j = kl[2] /\ i < j /\ c[i] = x /\ c[j] = x
    BY <1>4
  <2>2. i = j
    BY <1>2, <2>1
  <2> QED
    BY <2>1, <2>2
<1>7. ASSUME ~({x, y} \subseteq ToSet(c)) PROVE PairsOf(c, Row(x, y, 1)) = {}
  <2> SUFFICES ASSUME NEW kl \in PairsOf(c, Row(x, y, 1)) PROVE FALSE
    OBVIOUS
  <2>1. PICK i, j \in 1 .. n : c[i] = x /\ c[j] = y
    BY <1>4
  <2> QED
    BY <1>3, <1>7, <2>1
<1>8. ASSUME NEW u \in Nodes, NEW v \in Nodes,
             NEW i \in 1 .. n, NEW j \in 1 .. n, c[i] = u, c[j] = v, i < j
      PROVE  Cardinality(PairsOf(c, Row(u, v, 1))) = 1 /\ PairsOf(c, Row(v, u, 1)) = {}
  <2>1. <<i, j>> \in PairsOf(c, Row(u, v, 1))
    BY <1>1, <1>8 DEF PairsOf
  <2>2. ASSUME NEW kl \in PairsOf(c, Row(u, v, 1)) PROVE kl = <<i, j>>
    <3>1. PICK k, l \in 1 .. n : kl = <<k, l>> /\ c[k] = u /\ c[l] = v
      BY <1>4
    <3>2. k = i /\ l = j
      BY <1>2, <1>8, <3>1
    <3> QED
      BY <3>1, <3>2
  <2>3. PairsOf(c, Row(u, v, 1)) = {<<i, j>>}
    BY <2>1, <2>2
  <2>4. ASSUME NEW kl \in PairsOf(c, Row(v, u, 1)) PROVE FALSE
    <3>1. PICK k, l \in 1 .. n : k < l /\ c[k] = v /\ c[l] = u
      BY <1>4
    <3>2. k = j /\ l = i
      BY <1>2, <1>8, <3>1
    <3> QED
      BY <1>8, <3>1, <3>2
  <2> QED
    BY <2>3, <2>4, FS_Singleton
<1>9. ASSUME {x, y} \subseteq ToSet(c), x # y
      PROVE  \/ /\ Cardinality(PairsOf(c, Row(x, y, 1))) = 1
                /\ PairsOf(c, Row(y, x, 1)) = {}
             \/ /\ PairsOf(c, Row(x, y, 1)) = {}
                /\ Cardinality(PairsOf(c, Row(y, x, 1))) = 1
  <2>1. PICK i, j \in 1 .. n : c[i] = x /\ c[j] = y
    BY <1>3, <1>9
  <2>2. i # j /\ (i < j \/ j < i)
    BY <1>9, <2>1
  <2> QED
    BY <1>8, <2>1, <2>2
<1> QED
  BY <1>5, <1>6, <1>7, <1>9

\* The representatives gone through are roots, and the next one is not among them.
LEMMA NextIsNew ==
  ASSUME ViewsOK, TypeOK, at <= Len(cliques)
  PROVE  \E r \in Nodes : /\ r = cliques[at] /\ parent[r] = NoNode /\ r \notin Passed
                          /\ {cliques[k] : k \in 1 .. at + 1 - 1} = Passed \cup {r}
                          /\ Chain(r) \in Seq(Nodes) /\ IsInjective(Chain(r))
                          /\ ToSet(Chain(r)) = MembersBy(parent, r)
<1>1. /\ cliques \in Seq(Nodes) /\ DOMAIN cliques = 1 .. Len(cliques) /\ Len(cliques) \in Nat
      /\ at \in Nat \ {0}
  BY Typed
<1>2. IsInjective(cliques) /\ ToSet(cliques) = {r \in Nodes : parent[r] = NoNode /\ amount[r] > 1}
  BY DEF ViewsOK
<1>3. PICK r \in Nodes : r = cliques[at] /\ parent[r] = NoNode
  BY <1>1, <1>2 DEF ToSet
<1>4. r \notin Passed
  <2> SUFFICES ASSUME NEW k \in 1 .. at - 1, cliques[k] = r PROVE FALSE
    BY DEF Passed
  <2>1. k \in DOMAIN cliques /\ at \in DOMAIN cliques /\ k # at
    BY <1>1
  <2> QED
    BY <1>2, <1>3, <2>1 DEF IsInjective
<1>5. {cliques[k] : k \in 1 .. at + 1 - 1} = Passed \cup {r}
  <2>1. 1 .. at + 1 - 1 = (1 .. at - 1) \cup {at}
    BY <1>1
  <2> QED
    BY <1>3, <2>1 DEF Passed
<1>6. PICK chain : Chains(next_in_clique, chain) /\ ChainsOf(parent, chain)
  BY DEF ViewsOK
<1>7. Chain(r) = chain[r]
  BY <1>6, ChainFollows
<1>8. chain[r] \in Seq(Nodes)
  BY <1>6, ChainEnds
<1>9. ToSet(chain[r]) = MembersBy(parent, r) /\ IsInjective(chain[r])
  BY <1>3, <1>6 DEF ChainsOf
<1> QED
  BY <1>3, <1>4, <1>5, <1>7, <1>8, <1>9

\* What print_clique adds to the lines.
LEMMA PrintCliqueAdds ==
  ASSUME ViewsOK, TypeOK, PrintClique
  PROVE  \E r \in Nodes : \E times \in [Rows -> Nat] :
           /\ r \notin Passed /\ parent[r] = NoNode /\ Passed' = Passed \cup {r}
           /\ output' = [line \in Rows |-> output[line] + times[line]]
           /\ \A x, y \in Nodes :
                /\ times[Row(x, y, 0)] = 0 /\ times[Row(x, x, 1)] = 0
                /\ x # y => times[Row(x, y, 1)] + times[Row(y, x, 1)]
                              = IF Root(x) = r /\ Root(y) = r THEN 1 ELSE 0
<1>1. /\ pc = "printCliques" /\ at <= Len(cliques) /\ at' = at + 1
      /\ UNCHANGED <<parent, next_in_clique, amount, cliques, ngl, pc, row>>
  BY DEF PrintClique, cliqueVars
<1>2. PICK r \in Nodes : /\ r = cliques[at] /\ parent[r] = NoNode /\ r \notin Passed
                         /\ {cliques[k] : k \in 1 .. at + 1 - 1} = Passed \cup {r}
                         /\ Chain(r) \in Seq(Nodes) /\ IsInjective(Chain(r))
                         /\ ToSet(Chain(r)) = MembersBy(parent, r)
  BY <1>1, NextIsNew
<1>3. PICK c \in Seq(Nodes) : c = Chain(r) /\ IsInjective(c) /\ ToSet(c) = MembersBy(parent, r)
  BY <1>2
<1>4. PICK times : times = [line \in Rows |-> Cardinality(PairsOf(c, line))]
  OBVIOUS
<1>5. times \in [Rows -> Nat] /\ \A line \in Rows : times[line] = Cardinality(PairsOf(c, line))
  BY <1>4, PairsCount
<1>6. output' = [line \in Rows |-> output[line] + times[line]]
  <2>1. output' = [line \in Rows |-> output[line] + Cardinality(PairsOf(c, line))]
    BY <1>2, <1>3 DEF PrintClique, Printf, PairsOf
  <2> QED
    BY <1>5, <2>1
<1>7. Passed' = Passed \cup {r}
  <2>1. \A v : v \in Passed' <=> \E k \in 1 .. at' - 1 : v = cliques'[k]
    BY DEF Passed
  <2>2. at' = at + 1 /\ cliques' = cliques
    BY <1>1
  <2>a. PICK places : places = 1 .. at' - 1 /\ places = 1 .. at + 1 - 1
    <3>1. PICK n \in Nat : n = at
      BY <1>2, Typed
    <3>2. at' - 1 = n /\ at + 1 - 1 = n
      BY <2>2, <3>1
    <3> QED
      BY <3>2
  <2>b. PICK list : list = cliques' /\ list = cliques
    BY <2>2
  <2>3. \A v : v \in Passed' <=> \E k \in 1 .. at + 1 - 1 : v = cliques[k]
    BY <2>1, <2>a, <2>b
  <2>4. \A v : v \in Passed' <=> v \in {cliques[k] : k \in 1 .. at + 1 - 1}
    BY <2>3
  <2> QED
    BY <1>2, <2>4
<1>8. \A x \in Nodes : x \in ToSet(c) <=> Root(x) = r
  BY <1>3 DEF MembersBy, Root
<1>9. ASSUME NEW x \in Nodes, NEW y \in Nodes
      PROVE  /\ times[Row(x, y, 0)] = 0 /\ times[Row(x, x, 1)] = 0
             /\ x # y => times[Row(x, y, 1)] + times[Row(y, x, 1)]
                           = IF Root(x) = r /\ Root(y) = r THEN 1 ELSE 0
  <2>1. /\ times[Row(x, y, 0)] = Cardinality(PairsOf(c, Row(x, y, 0)))
        /\ times[Row(x, x, 1)] = Cardinality(PairsOf(c, Row(x, x, 1)))
        /\ times[Row(x, y, 1)] = Cardinality(PairsOf(c, Row(x, y, 1)))
        /\ times[Row(y, x, 1)] = Cardinality(PairsOf(c, Row(y, x, 1)))
    BY <1>5, RowFacts
  <2>2. PairsOf(c, Row(x, y, 0)) = {} /\ PairsOf(c, Row(x, x, 1)) = {}
    BY <1>3, PairsOnce
  <2>3. times[Row(x, y, 0)] = 0 /\ times[Row(x, x, 1)] = 0
    BY <2>1, <2>2, FS_EmptySet
  <2>4. ASSUME x # y, Root(x) = r, Root(y) = r
        PROVE  times[Row(x, y, 1)] + times[Row(y, x, 1)] = 1
    <3>1. {x, y} \subseteq ToSet(c)
      BY <1>8, <2>4
    <3>2. \/ /\ Cardinality(PairsOf(c, Row(x, y, 1))) = 1
             /\ PairsOf(c, Row(y, x, 1)) = {}
          \/ /\ PairsOf(c, Row(x, y, 1)) = {}
             /\ Cardinality(PairsOf(c, Row(y, x, 1))) = 1
      BY <1>3, <2>4, <3>1, PairsOnce
    <3>3. \/ times[Row(x, y, 1)] = 1 /\ times[Row(y, x, 1)] = 0
          \/ times[Row(x, y, 1)] = 0 /\ times[Row(y, x, 1)] = 1
      BY <2>1, <3>2, FS_EmptySet
    <3> QED
      BY <3>3
  <2>5. ASSUME x # y, Root(x) # r \/ Root(y) # r
        PROVE  times[Row(x, y, 1)] + times[Row(y, x, 1)] = 0
    <3>1. ~({x, y} \subseteq ToSet(c)) /\ ~({y, x} \subseteq ToSet(c))
      BY <1>8, <2>5
    <3>2. PairsOf(c, Row(x, y, 1)) = {} /\ PairsOf(c, Row(y, x, 1)) = {}
      BY <1>3, <3>1, PairsOnce
    <3>3. times[Row(x, y, 1)] = 0 /\ times[Row(y, x, 1)] = 0
      BY <2>1, <3>2, FS_EmptySet
    <3> QED
      BY <3>3
  <2> QED
    BY <2>3, <2>4, <2>5
<1> QED
  BY <1>2, <1>5, <1>6, <1>7, <1>9

\* The nodes of one clique are printed, and it has been gone through.
LEMMA PrintCliqueStep == ASSUME IInv, PrintClique PROVE IInv'
<1>1. /\ pc = "printCliques" /\ at <= Len(cliques) /\ at' = at + 1
      /\ UNCHANGED <<parent, next_in_clique, amount, cliques, ngl, pc, row>>
  BY DEF PrintClique, cliqueVars
<1>2. /\ ViewsOK /\ TypeOK /\ PhasesOK /\ NegativesOK /\ MarksOK /\ PositiveLinesOK
      /\ NegativeLinesOK
  BY <1>1 DEF IInv, StructuresOK, LinesOK
<1>3. PICK r \in Nodes, times \in [Rows -> Nat] :
        /\ r \notin Passed /\ parent[r] = NoNode /\ Passed' = Passed \cup {r}
        /\ output' = [line \in Rows |-> output[line] + times[line]]
        /\ \A x, y \in Nodes :
             /\ times[Row(x, y, 0)] = 0 /\ times[Row(x, x, 1)] = 0
             /\ x # y => times[Row(x, y, 1)] + times[Row(y, x, 1)]
                           = IF Root(x) = r /\ Root(y) = r THEN 1 ELSE 0
  BY <1>2, PrintCliqueAdds
<1>4. output \in [Rows -> Nat] /\ cliques \in Seq(Nodes) /\ at \in 1 .. Len(cliques) + 1
  BY <1>2, Typed
<1>5. output' \in [Rows -> Nat] /\ \A line \in Rows : output'[line] = output[line] + times[line]
  BY <1>3, <1>4
<1>6. TypeOK'
  <2>1. CliquesTypeOK'
    BY <1>1, <1>2 DEF TypeOK, CliquesTypeOK
  <2>2. PICK n \in Nat : n = Len(cliques)
    BY <1>4
  <2>3. at' \in 1 .. Len(cliques') + 1
    BY <1>1, <1>4, <2>2
  <2> QED
    BY <1>1, <1>2, <1>5, <2>1, <2>3 DEF TypeOK
<1>7. PhasesOK'
  BY <1>1 DEF PhasesOK
<1>8. ViewsOK'
  BY <1>1, <1>2 DEF ViewsOK
<1>9. NegativesOK'
  BY <1>1, <1>2 DEF NegativesOK
<1>10. /\ PassedCliques = Passed /\ PassedCliques' = Passed \cup {r}
       /\ PassedNegatives = {} /\ PassedNegatives' = {}
  BY <1>1, <1>3 DEF PassedCliques, PassedNegatives
<1>11. MarksOK'
  BY <1>1, <1>2, <1>10 DEF MarksOK
<1>12. PositiveLinesOK'
  <2> SUFFICES ASSUME NEW x \in Nodes, NEW y \in Nodes
               PROVE  /\ x = y => output'[Row(x, y, 1)] = 0
                      /\ x # y => output'[Row(x, y, 1)] + output'[Row(y, x, 1)]
                           = IF Root(x)' = Root(y)' /\ Root(x)' \in PassedCliques' THEN 1 ELSE 0
    BY DEF PositiveLinesOK
  <2>1. Root(x)' = Root(x) /\ Root(y)' = Root(y)
    BY <1>1 DEF Root
  <2>2. /\ x = y => output[Row(x, y, 1)] = 0
        /\ x # y => output[Row(x, y, 1)] + output[Row(y, x, 1)]
                      = IF Root(x) = Root(y) /\ Root(x) \in Passed THEN 1 ELSE 0
    BY <1>2, <1>10 DEF PositiveLinesOK
  <2>3. PICK o1, o2, t1, t2 \in Nat :
          /\ o1 = output[Row(x, y, 1)] /\ o2 = output[Row(y, x, 1)]
          /\ t1 = times[Row(x, y, 1)] /\ t2 = times[Row(y, x, 1)]
    BY <1>4, RowFacts
  <2>4. output'[Row(x, y, 1)] = o1 + t1 /\ output'[Row(y, x, 1)] = o2 + t2
    BY <1>5, <2>3, RowFacts
  <2>5. CASE x = y
    <3>1. o1 = 0 /\ t1 = 0
      BY <1>3, <2>2, <2>3, <2>5
    <3> QED
      BY <2>4, <2>5, <3>1
  <2>6. CASE x # y
    <3>1. o1 + o2 = IF Root(x) = Root(y) /\ Root(x) \in Passed THEN 1 ELSE 0
      BY <2>2, <2>3, <2>6
    <3>2. t1 + t2 = IF Root(x) = r /\ Root(y) = r THEN 1 ELSE 0
      BY <1>3, <2>3, <2>6
    <3>3. (o1 + t1) + (o2 + t2)
            = IF Root(x) = Root(y) /\ Root(x) \in Passed \cup {r} THEN 1 ELSE 0
      <4> HIDE DEF Passed, Root
      <4> QED
        BY <1>3, <3>1, <3>2
    <3> QED
      BY <1>10, <2>1, <2>4, <2>6, <3>3
  <2> QED
    BY <2>5, <2>6
<1>13. NegativeLinesOK'
  <2>1. \A x, y \in Nodes : output'[Row(x, y, 0)] = output[Row(x, y, 0)]
    <3> SUFFICES ASSUME NEW x \in Nodes, NEW y \in Nodes
                 PROVE  output'[Row(x, y, 0)] = output[Row(x, y, 0)]
      OBVIOUS
    <3>1. /\ output'[Row(x, y, 0)] = output[Row(x, y, 0)] + times[Row(x, y, 0)]
          /\ output[Row(x, y, 0)] \in Nat /\ times[Row(x, y, 0)] = 0
      BY <1>3, <1>4, <1>5, RowFacts
    <3> QED
      BY <3>1
  <2>2. \A x \in Nodes : Root(x)' = Root(x)
    BY <1>1 DEF Root
  <2> QED
    BY <1>1, <1>2, <1>10, <2>1, <2>2 DEF NegativeLinesOK
<1> QED
  BY <1>6, <1>7, <1>8, <1>9, <1>11, <1>12, <1>13 DEF IInv, StructuresOK, LinesOK

-----------------------------------------------------------------------------
(* Printing the negative lists *)

\* The list that starts at a root is its clique.
LEMMA ChainMembers ==
  ASSUME ViewsOK, NEW s \in Nodes, parent[s] = NoNode
  PROVE  ToSet(Chain(s)) = MembersBy(parent, s)
<1>1. PICK chain : Chains(next_in_clique, chain) /\ ChainsOf(parent, chain)
  BY DEF ViewsOK
<1>2. Chain(s) = chain[s]
  BY <1>1, ChainFollows
<1> QED
  BY <1>1, <1>2 DEF ChainsOf

\* An entry is a record, of which the name is another root that names this one.
LEMMA EntryFacts ==
  ASSUME NegativesOK, NEW n \in [Nodes -> Seq(NegEntry)], n = ngl,
         NEW x \in Nodes, NEW k \in DOMAIN n[x]
  PROVE  /\ n[x][k] \in NegEntry /\ n[x][k].neg_clique \in Nodes /\ n[x][k].printed \in {0, 1}
         /\ parent[n[x][k].neg_clique] = NoNode /\ Names(n, n[x][k].neg_clique, x)
<1>1. n[x][k] \in NegEntry
  OBVIOUS
<1>2. n[x][k].neg_clique \in Nodes /\ n[x][k].printed \in {0, 1}
  BY <1>1 DEF NegEntry
<1>3. Names(n, x, n[x][k].neg_clique)
  BY DEF Names
<1> QED
  BY <1>1, <1>2, <1>3 DEF NegativesOK

\* The lines of two sets of nodes, and the entries of a list which make neglist_print
\* print the line: those not marked, of a clique that the second node is in.
LinesOf(A, B) == {Row(x, y, 0) : x \in A, y \in B}
Unmarked(list) == {k \in DOMAIN list : list[k].printed = 1}
EntriesFor(list, A, line) ==
  {k \in Unmarked(list) : line \in LinesOf(A, ToSet(Chain(list[k].neg_clique)))}

\* How often neglist_print prints a line: once if its nodes are of r and of a clique told
\* apart from r and not gone through; it is not counted if r is told apart from itself.
CountsRight(n, r, A) ==
  /\ \A line : Cardinality(EntriesFor(n[r], A, line)) \in Nat
  /\ \A x, y \in Nodes :
       /\ Cardinality(EntriesFor(n[r], A, Row(x, y, 1))) = 0
       /\ Root(x) # r \/ ~Names(n, r, Root(y)) =>
            Cardinality(EntriesFor(n[r], A, Row(x, y, 0))) = 0
       /\ Root(x) = r /\ Root(y) # r /\ Names(n, r, Root(y)) =>
            Cardinality(EntriesFor(n[r], A, Row(x, y, 0)))
              = IF Root(y) \in PassedNegatives THEN 0 ELSE 1
LEMMA EntriesCount ==
  ASSUME ViewsOK, NegativesOK, MarksOK,
         NEW n \in [Nodes -> Seq(NegEntry)], n = ngl,
         NEW r \in Nodes, parent[r] = NoNode, r \notin PassedNegatives,
         NEW A, A = MembersBy(parent, r)
  PROVE  CountsRight(n, r, A)
<1>1. PICK l \in Nat : DOMAIN n[r] = 1 .. l
  OBVIOUS
<1>2. IsFiniteSet(DOMAIN n[r])
  BY <1>1, FS_Interval
<1>3. ASSUME NEW line PROVE Cardinality(EntriesFor(n[r], A, line)) \in Nat
  <2>1. EntriesFor(n[r], A, line) \subseteq DOMAIN n[r]
    BY DEF EntriesFor, Unmarked
  <2> QED
    BY <1>2, <2>1, FS_Subset, FS_CardinalityType
<1>4. \A k \in DOMAIN n[r] :
        /\ n[r][k].neg_clique \in Nodes /\ n[r][k].printed \in {0, 1}
        /\ ToSet(Chain(n[r][k].neg_clique)) = MembersBy(parent, n[r][k].neg_clique)
  BY EntryFacts, ChainMembers
<1>5. \A x \in Nodes : Root(x) \in Nodes
  BY RootByFacts DEF ViewsOK, Root
<1>6. ASSUME NEW x \in Nodes, NEW y \in Nodes, NEW k
      PROVE  k \in EntriesFor(n[r], A, Row(x, y, 0)) <=>
               /\ k \in DOMAIN n[r] /\ n[r][k].printed = 1
               /\ Root(x) = r /\ n[r][k].neg_clique = Root(y)
  <2>1. CASE k \in DOMAIN n[r]
    <3>1. PICK s \in Nodes : s = n[r][k].neg_clique /\ ToSet(Chain(s)) = MembersBy(parent, s)
      BY <1>4, <2>1
    <3>2. Row(x, y, 0) \in LinesOf(A, ToSet(Chain(s))) <=> x \in A /\ y \in ToSet(Chain(s))
      BY RowFacts DEF LinesOf
    <3>3. x \in A <=> Root(x) = r
      BY DEF MembersBy, Root
    <3>4. y \in ToSet(Chain(s)) <=> Root(y) = s
      BY <3>1 DEF MembersBy, Root
    <3> QED
      BY <2>1, <3>1, <3>2, <3>3, <3>4 DEF EntriesFor, Unmarked
  <2>2. CASE k \notin DOMAIN n[r]
    BY <2>2 DEF EntriesFor, Unmarked
  <2> QED
    BY <2>1, <2>2
<1>7. ASSUME NEW x \in Nodes, NEW y \in Nodes
      PROVE  Cardinality(EntriesFor(n[r], A, Row(x, y, 1))) = 0
  <2>1. EntriesFor(n[r], A, Row(x, y, 1)) = {}
    BY RowFacts DEF EntriesFor, LinesOf
  <2> QED
    BY <2>1, FS_EmptySet
<1>8. ASSUME NEW x \in Nodes, NEW y \in Nodes, Root(x) # r \/ ~Names(n, r, Root(y))
      PROVE  Cardinality(EntriesFor(n[r], A, Row(x, y, 0))) = 0
  <2>1. \A k : k \notin EntriesFor(n[r], A, Row(x, y, 0))
    BY <1>6, <1>8 DEF Names
  <2>2. EntriesFor(n[r], A, Row(x, y, 0)) = {}
    BY <2>1
  <2> QED
    BY <2>2, FS_EmptySet
<1>9. ASSUME NEW x \in Nodes, NEW y \in Nodes,
             Root(x) = r, Root(y) # r, Names(n, r, Root(y))
      PROVE  Cardinality(EntriesFor(n[r], A, Row(x, y, 0)))
               = IF Root(y) \in PassedNegatives THEN 0 ELSE 1
  <2>1. PICK k \in DOMAIN n[r] : n[r][k].neg_clique = Root(y)
    BY <1>9 DEF Names
  <2>2. \A j \in DOMAIN n[r] : n[r][j].neg_clique = Root(y) => j = k
    <3>1. NamedOnce(n)
      BY DEF NegativesOK
    <3> QED
      BY <1>9, <2>1, <3>1 DEF NamedOnce
  <2>3. n[r][k].printed = 0 <=> Root(y) \in PassedNegatives
    BY <1>9, <2>1 DEF MarksOK
  <2>4. n[r][k].printed \in {0, 1}
    BY <1>4, <2>1
  <2>5. CASE Root(y) \in PassedNegatives
    <3>1. \A j : j \notin EntriesFor(n[r], A, Row(x, y, 0))
      BY <1>6, <2>2, <2>3, <2>5
    <3>2. EntriesFor(n[r], A, Row(x, y, 0)) = {}
      BY <3>1
    <3> QED
      BY <2>5, <3>2, FS_EmptySet
  <2>6. CASE Root(y) \notin PassedNegatives
    <3>1. \A j : j \in EntriesFor(n[r], A, Row(x, y, 0)) <=> j = k
      BY <1>6, <1>9, <2>1, <2>2, <2>3, <2>4, <2>6
    <3>2. EntriesFor(n[r], A, Row(x, y, 0)) = {k}
      BY <3>1
    <3> QED
      BY <2>6, <3>2, FS_Singleton
  <2> QED
    BY <2>5, <2>6
<1> QED
  BY <1>3, <1>7, <1>8, <1>9 DEF CountsRight

\* What neglist_print does to the lists, n: m.
Marks(n, m, r, passed) ==
  /\ m \in [Nodes -> Seq(NegEntry)]
  /\ \A x \in Nodes : DOMAIN m[x] = DOMAIN n[x]
  /\ \A x \in Nodes : \A k \in DOMAIN n[x] :
       /\ m[x][k].neg_clique = n[x][k].neg_clique
       /\ n[x][k].neg_clique # r => m[x][k] = n[x][k]
       /\ n[x][k].neg_clique = r /\ x # r /\ x \notin passed => m[x][k].printed = 0

\* The lists that name r have their entries for r marked.
LEMMA MarksMade ==
  ASSUME NegativesOK, MarksOK,
         NEW n \in [Nodes -> Seq(NegEntry)], n = ngl, NEW r \in Nodes, r \notin PassedNegatives,
         NEW others, others = {n[r][k].neg_clique : k \in Unmarked(n[r])},
         NEW m, m = [s \in Nodes |-> IF s \in others THEN Printed(n[s], r) ELSE n[s]]
  PROVE  Marks(n, m, r, PassedNegatives)
<1>1. ASSUME NEW x \in Nodes
      PROVE  /\ m[x] \in Seq(NegEntry) /\ DOMAIN m[x] = DOMAIN n[x]
             /\ \A k \in DOMAIN n[x] :
                  /\ m[x][k].neg_clique = n[x][k].neg_clique
                  /\ n[x][k].neg_clique # r => m[x][k] = n[x][k]
  <2>1. PICK list \in Seq(NegEntry) : list = n[x]
    OBVIOUS
  <2>2. m[x] = IF x \in others THEN Printed(list, r) ELSE list
    BY <2>1
  <2>3. /\ Printed(list, r) \in Seq(NegEntry) /\ DOMAIN Printed(list, r) = DOMAIN list
        /\ \A k \in DOMAIN list :
             /\ Printed(list, r)[k].neg_clique = list[k].neg_clique
             /\ list[k].neg_clique # r => Printed(list, r)[k] = list[k]
    BY PrintedFacts
  <2> QED
    BY <2>1, <2>2, <2>3
<1>2. ASSUME NEW x \in Nodes, NEW k \in DOMAIN n[x],
             n[x][k].neg_clique = r, x # r, x \notin PassedNegatives
      PROVE  m[x][k].printed = 0
  <2>1. PICK list \in Seq(NegEntry) : list = n[x]
    OBVIOUS
  <2>2. Names(n, r, x)
    BY <1>2, EntryFacts
  <2>3. PICK back \in DOMAIN n[r] : n[r][back].neg_clique = x
    BY <2>2 DEF Names
  <2>4. n[r][back].printed = 1
    <3>1. n[r][back].printed \in {0, 1}
      BY EntryFacts
    <3>2. ~(n[r][back].printed = 0)
      BY <1>2, <2>3 DEF MarksOK
    <3> QED
      BY <3>1, <3>2
  <2>5. x \in others
    BY <2>3, <2>4 DEF Unmarked
  <2>6. m[x] = Printed(list, r)
    BY <2>1, <2>5
  <2>7. \A i \in DOMAIN list : list[i].neg_clique = r => i = k
    <3>1. NamedOnce(n)
      BY DEF NegativesOK
    <3> QED
      BY <1>2, <2>1, <3>1 DEF NamedOnce
  <2>8. Printed(list, r)[k].printed = 0
    <3>1. \A i \in DOMAIN list :
            /\ list[i].neg_clique = r
            /\ \A j \in DOMAIN list : list[j].neg_clique = r => j = i
            => Printed(list, r)[i].printed = 0
      BY PrintedFacts
    <3> QED
      BY <1>2, <2>1, <2>7, <3>1
  <2> QED
    BY <2>6, <2>8
<1>3. m \in [Nodes -> Seq(NegEntry)]
  BY <1>1
<1> QED
  BY <1>1, <1>2, <1>3 DEF Marks

\* The lists that were gone through grow by r.
LEMMA MarksKept ==
  ASSUME NegativesOK, MarksOK,
         NEW n \in [Nodes -> Seq(NegEntry)], n = ngl, NEW r \in Nodes,
         NEW m, Marks(n, m, r, PassedNegatives)
  PROVE  /\ \A x, y \in Nodes : Names(m, x, y) <=> Names(n, x, y)
         /\ NamedOnce(m)
         /\ \A x \in Nodes \ (PassedNegatives \cup {r}) : \A k \in DOMAIN m[x] :
              m[x][k].neg_clique # x =>
                (m[x][k].printed = 0 <=> m[x][k].neg_clique \in PassedNegatives \cup {r})
<1>1. /\ \A x \in Nodes : DOMAIN m[x] = DOMAIN n[x]
      /\ \A x \in Nodes : \A k \in DOMAIN n[x] :
           /\ m[x][k].neg_clique = n[x][k].neg_clique
           /\ n[x][k].neg_clique # r => m[x][k] = n[x][k]
           /\ n[x][k].neg_clique = r /\ x # r /\ x \notin PassedNegatives => m[x][k].printed = 0
  BY DEF Marks
<1>2. \A x, y \in Nodes : Names(m, x, y) <=> Names(n, x, y)
  BY <1>1 DEF Names
<1>3. NamedOnce(m)
  <2>1. NamedOnce(n)
    BY DEF NegativesOK
  <2> QED
    BY <1>1, <2>1 DEF NamedOnce
<1>4. ASSUME NEW x \in Nodes \ (PassedNegatives \cup {r}), NEW k \in DOMAIN m[x],
             m[x][k].neg_clique # x
      PROVE  m[x][k].printed = 0 <=> m[x][k].neg_clique \in PassedNegatives \cup {r}
  <2>1. /\ k \in DOMAIN n[x] /\ n[x][k].neg_clique # x
        /\ m[x][k].neg_clique = n[x][k].neg_clique
    BY <1>1, <1>4
  <2>2. n[x][k].printed = 0 <=> n[x][k].neg_clique \in PassedNegatives
    BY <2>1 DEF MarksOK
  <2>3. CASE n[x][k].neg_clique = r
    BY <1>1, <2>1, <2>3
  <2>4. CASE n[x][k].neg_clique # r
    <3>1. m[x][k] = n[x][k]
      BY <1>1, <2>1, <2>4
    <3> QED
      BY <2>2, <2>4, <3>1
  <2> QED
    BY <2>3, <2>4
<1> QED
  BY <1>2, <1>3, <1>4

\* The lines of a list are printed, and it has been gone through.
LEMMA NeglistPrintStep == ASSUME IInv, NeglistPrint PROVE IInv'
<1>1. /\ pc = "printNegatives" /\ at <= Len(cliques) /\ at' = at + 1
      /\ UNCHANGED <<parent, next_in_clique, amount, cliques, pc, row>>
  BY DEF NeglistPrint, setVars
<1>2. /\ ViewsOK /\ TypeOK /\ PhasesOK /\ NegativesOK /\ MarksOK /\ PositiveLinesOK
      /\ NegativeLinesOK
  BY <1>1 DEF IInv, StructuresOK, LinesOK
<1>3. /\ output \in [Rows -> Nat] /\ cliques \in Seq(Nodes) /\ at \in 1 .. Len(cliques) + 1
      /\ ngl \in [Nodes -> Seq(NegEntry)] /\ at \in Nat /\ Len(cliques) \in Nat
  BY <1>2, Typed
<1>4. PICK r \in Nodes : /\ r = cliques[at] /\ parent[r] = NoNode /\ r \notin Passed
                         /\ {cliques[k] : k \in 1 .. at + 1 - 1} = Passed \cup {r}
                         /\ ToSet(Chain(r)) = MembersBy(parent, r)
  BY <1>1, <1>2, NextIsNew
<1>5. PICK n \in [Nodes -> Seq(NegEntry)] : n = ngl
  BY <1>3
<1>6. PICK A : A = MembersBy(parent, r) /\ A = ToSet(Chain(r))
  BY <1>4
<1>7. Passed' = Passed \cup {r}
  <2>1. \A v : v \in Passed' <=> \E k \in 1 .. at' - 1 : v = cliques'[k]
    BY DEF Passed
  <2>2. PICK places : places = 1 .. at' - 1 /\ places = 1 .. at + 1 - 1
    BY <1>1, <1>3
  <2>3. PICK list : list = cliques' /\ list = cliques
    BY <1>1
  <2>4. \A v : v \in Passed' <=> v \in {cliques[k] : k \in 1 .. at + 1 - 1}
    BY <2>1, <2>2, <2>3
  <2> QED
    BY <1>4, <2>4
<1>8. /\ PassedCliques = ToSet(cliques) /\ PassedCliques' = PassedCliques
      /\ PassedNegatives = Passed /\ PassedNegatives' = PassedNegatives \cup {r}
      /\ r \notin PassedNegatives
  BY <1>1, <1>4, <1>7 DEF PassedCliques, PassedNegatives
<1>9. PICK others : /\ others = {n[r][k].neg_clique : k \in Unmarked(n[r])}
                    /\ ngl' = [s \in Nodes |-> IF s \in others THEN Printed(n[s], r) ELSE n[s]]
  <2>1. ngl' = [s \in Nodes |->
                  IF s \in {ngl[cliques[at]][k].neg_clique : k \in Unmarked(ngl[cliques[at]])}
                    THEN Printed(ngl[s], cliques[at]) ELSE ngl[s]]
    BY DEF NeglistPrint, Unmarked
  <2>2. PICK others : others = {ngl[cliques[at]][k].neg_clique : k \in Unmarked(ngl[cliques[at]])}
    OBVIOUS
  <2>3. others = {n[r][k].neg_clique : k \in Unmarked(n[r])}
    BY <1>4, <1>5, <2>2
  <2>4. ngl' = [s \in Nodes |-> IF s \in others THEN Printed(n[s], r) ELSE n[s]]
    BY <1>4, <1>5, <2>1, <2>2
  <2> QED
    BY <2>3, <2>4
<1>10. PICK m : m = ngl'
  OBVIOUS
<1>11. Marks(n, m, r, PassedNegatives)
  <2>1. m = [s \in Nodes |-> IF s \in others THEN Printed(n[s], r) ELSE n[s]]
    BY <1>9, <1>10
  <2> QED
    BY <1>2, <1>5, <1>8, <1>9, <2>1, MarksMade
<1>12. /\ \A x, y \in Nodes : Names(m, x, y) <=> Names(n, x, y)
       /\ NamedOnce(m)
       /\ \A x \in Nodes \ (PassedNegatives \cup {r}) : \A k \in DOMAIN m[x] :
            m[x][k].neg_clique # x =>
              (m[x][k].printed = 0 <=> m[x][k].neg_clique \in PassedNegatives \cup {r})
  BY <1>2, <1>5, <1>11, MarksKept
<1>13. PICK times : times = [line \in Rows |-> Cardinality(EntriesFor(n[r], A, line))]
  OBVIOUS
<1>14. CountsRight(n, r, A)
  BY <1>2, <1>4, <1>5, <1>6, <1>8, EntriesCount
<1>15. /\ times \in [Rows -> Nat]
       /\ \A x, y \in Nodes :
            /\ times[Row(x, y, 1)] = 0
            /\ Root(x) # r \/ ~Names(n, r, Root(y)) => times[Row(x, y, 0)] = 0
            /\ Root(x) = r /\ Root(y) # r /\ Names(n, r, Root(y)) =>
                 times[Row(x, y, 0)] = IF Root(y) \in PassedNegatives THEN 0 ELSE 1
  <2>1. times \in [Rows -> Nat]
    BY <1>13, <1>14 DEF CountsRight
  <2>2. \A x, y \in Nodes : \A l \in {0, 1} :
          times[Row(x, y, l)] = Cardinality(EntriesFor(n[r], A, Row(x, y, l)))
    BY <1>13, RowFacts
  <2> QED
    BY <1>14, <2>1, <2>2 DEF CountsRight
<1>16. output' = [line \in Rows |-> output[line] + times[line]]
  <2>1. output' = [line \in Rows |-> output[line] + Cardinality(EntriesFor(n[r], A, line))]
    BY <1>4, <1>5, <1>6 DEF NeglistPrint, Printf, EntriesFor, Unmarked, LinesOf
  <2> QED
    BY <1>13, <2>1
<1>17. output' \in [Rows -> Nat] /\ \A line \in Rows : output'[line] = output[line] + times[line]
  BY <1>3, <1>15, <1>16
<1>18. TypeOK'
  <2>1. CliquesTypeOK'
    <3>1. ngl' \in [Nodes -> Seq([neg_clique : Nodes, printed : {0, 1}])]
      BY <1>10, <1>11 DEF Marks, NegEntry
    <3> QED
      BY <1>1, <1>2, <3>1 DEF TypeOK, CliquesTypeOK
  <2>2. at' \in 1 .. Len(cliques') + 1
    BY <1>1, <1>3
  <2> QED
    BY <1>1, <1>2, <1>17, <2>1, <2>2 DEF TypeOK
<1>19. PhasesOK'
  BY <1>1 DEF PhasesOK
<1>20. ViewsOK'
  BY <1>1, <1>2 DEF ViewsOK
<1>21. NegativesOK'
  BY <1>1, <1>2, <1>5, <1>10, <1>12 DEF NegativesOK
<1>22. MarksOK'
  BY <1>8, <1>10, <1>12 DEF MarksOK
<1>23. \A x \in Nodes : Root(x)' = Root(x) /\ Root(x) \in Nodes
  BY <1>1, <1>2, RootByFacts DEF Root, ViewsOK
<1>24. PositiveLinesOK'
  <2> SUFFICES ASSUME NEW x \in Nodes, NEW y \in Nodes
               PROVE  output'[Row(x, y, 1)] = output[Row(x, y, 1)]
    BY <1>2, <1>8, <1>23 DEF PositiveLinesOK
  <2>1. /\ output'[Row(x, y, 1)] = output[Row(x, y, 1)] + times[Row(x, y, 1)]
        /\ output[Row(x, y, 1)] \in Nat /\ times[Row(x, y, 1)] = 0
    BY <1>3, <1>15, <1>17, RowFacts
  <2> QED
    BY <2>1
<1>25. ASSUME NEW x \in Nodes, NEW y \in Nodes
       PROVE  /\ Root(x) # Root(y) =>
                   output'[Row(x, y, 0)] + output'[Row(y, x, 0)]
                     = IF /\ Names(n, Root(x), Root(y))
                          /\ {Root(x), Root(y)} \cap (PassedNegatives \cup {r}) # {}
                         THEN 1 ELSE 0
              /\ Root(x) = Root(y) /\ ~Names(n, Root(x), Root(x)) =>
                   output'[Row(x, y, 0)] = 0
  <2>1. /\ Root(x) # Root(y) =>
             output[Row(x, y, 0)] + output[Row(y, x, 0)]
               = IF Names(n, Root(x), Root(y)) /\ {Root(x), Root(y)} \cap PassedNegatives # {}
                   THEN 1 ELSE 0
        /\ Root(x) = Root(y) /\ ~Names(n, Root(x), Root(x)) => output[Row(x, y, 0)] = 0
    BY <1>2, <1>5 DEF NegativeLinesOK
  <2>2. PICK o1, o2, t1, t2 \in Nat :
          /\ o1 = output[Row(x, y, 0)] /\ o2 = output[Row(y, x, 0)]
          /\ t1 = times[Row(x, y, 0)] /\ t2 = times[Row(y, x, 0)]
    <3>1. Row(x, y, 0) \in Rows /\ Row(y, x, 0) \in Rows
      BY RowFacts
    <3>2. times \in [Rows -> Nat]
      BY <1>15
    <3> QED
      BY <1>3, <3>1, <3>2
  <2>3. output'[Row(x, y, 0)] = o1 + t1 /\ output'[Row(y, x, 0)] = o2 + t2
    BY <1>17, <2>2, RowFacts
  <2>4. PICK R, S \in Nodes : R = Root(x) /\ S = Root(y)
    BY <1>23
  <2>5. Names(n, R, S) <=> Names(n, S, R)
    BY <1>2, <1>5 DEF NegativesOK
  <2>6. ASSUME R # S
        PROVE  (o1 + t1) + (o2 + t2)
                 = IF Names(n, R, S) /\ {R, S} \cap (PassedNegatives \cup {r}) # {}
                     THEN 1 ELSE 0
    <3>1. o1 + o2 = IF Names(n, R, S) /\ (R \in PassedNegatives \/ S \in PassedNegatives)
                      THEN 1 ELSE 0
      BY <2>1, <2>2, <2>4, <2>6
    <3>2. t1 = IF R = r /\ Names(n, R, S) /\ S \notin PassedNegatives THEN 1 ELSE 0
      BY <1>15, <2>2, <2>4, <2>6
    <3>3. t2 = IF S = r /\ Names(n, R, S) /\ R \notin PassedNegatives THEN 1 ELSE 0
      BY <1>15, <2>2, <2>4, <2>5, <2>6
    <3>4. CASE ~Names(n, R, S)
      BY <3>1, <3>2, <3>3, <3>4
    <3>5. CASE Names(n, R, S)
      BY <1>8, <2>6, <3>1, <3>2, <3>3, <3>5
    <3> QED
      BY <3>4, <3>5
  <2>7. ASSUME R = S, ~Names(n, R, R) PROVE o1 + t1 = 0
    <3>1. o1 = 0
      BY <2>1, <2>2, <2>4, <2>7
    <3>2. t1 = 0
      BY <1>15, <2>2, <2>4, <2>7
    <3> QED
      BY <3>1, <3>2
  <2> QED
    BY <2>3, <2>4, <2>6, <2>7
<1>26. NegativeLinesOK'
  <2>1. \A x, y \in Nodes : Names(m, Root(x), Root(y)) <=> Names(n, Root(x), Root(y))
    BY <1>12, <1>23
  <2>2. \A x, y \in Nodes : Names(ngl', Root(x)', Root(y)') <=> Names(n, Root(x), Root(y))
    BY <1>10, <1>23, <2>1
  <2> QED
    BY <1>8, <1>23, <1>25, <2>2 DEF NegativeLinesOK
<1> QED
  BY <1>18, <1>19, <1>20, <1>21, <1>22, <1>24, <1>26 DEF IInv, StructuresOK, LinesOK

-----------------------------------------------------------------------------
(* The inductive invariant *)

\* main drops the cliques, and nothing is asked of them any more.
LEMMA ResetStep == ASSUME IInv, Reset PROVE IInv'
<1>1. /\ pc = "printed" /\ pc' = "done" /\ UNCHANGED <<cliques, at, row, output>>
      /\ parent' = [x \in Nodes |-> NoNode] /\ next_in_clique' = [x \in Nodes |-> NoNode]
      /\ amount' = [x \in Nodes |-> 1] /\ ngl' = [x \in Nodes |-> <<>>]
  BY DEF Reset, Reinitialize
<1>2. TypeOK /\ PhasesOK
  BY DEF IInv
<1>3. /\ ngl' \in [Nodes -> Seq(NegEntry)] /\ NamedOnce(ngl')
      /\ \A x, y \in Nodes : ~Names(ngl', x, y)
  BY <1>1, NothingNamed
<1>4. amount' \in [Nodes -> {-1} \cup 1 .. Cardinality(Nodes)]
  <2>1. 1 \in 1 .. Cardinality(Nodes) \/ Nodes = {}
    <3>1. Cardinality(Nodes) \in Nat /\ (Cardinality(Nodes) = 0 <=> Nodes = {})
      BY NodesAssumption, FS_CardinalityType, FS_EmptySet
    <3> QED
      BY <3>1
  <2> QED
    BY <1>1, <2>1
<1>5. TypeOK'
  <2>1. CliquesTypeOK'
    BY <1>1, <1>2, <1>3, <1>4 DEF TypeOK, CliquesTypeOK, NegEntry
  <2> QED
    BY <1>1, <1>2, <2>1 DEF TypeOK
<1>6. PhasesOK'
  BY <1>1, <1>2 DEF PhasesOK
<1>7. NegativesOK'
  BY <1>3 DEF NegativesOK
<1>8. StructuresOK' /\ LinesOK'
  BY <1>1 DEF StructuresOK, LinesOK
<1> QED
  BY <1>5, <1>6, <1>7, <1>8 DEF IInv

\* Every step keeps the inductive invariant.
LEMMA Steps == IInv /\ [Next]_labelVars => IInv'
<1> SUFFICES ASSUME IInv, [Next]_labelVars PROVE IInv'
  OBVIOUS
<1>1. CASE ReadPositive
  BY <1>1, PositiveStep
<1>2. CASE ReadNegative
  BY <1>2, NegativeStep
<1>3. CASE PrintClique
  BY <1>3, PrintCliqueStep
<1>4. CASE NeglistPrint
  BY <1>4, NeglistPrintStep
<1>5. CASE Reset
  BY <1>5, ResetStep
<1>6. CASE Rewind \/ EndOfFile \/ CliquesPrinted \/ NegativesPrinted \/ UNCHANGED labelVars
  BY <1>6, PhaseSteps
<1> QED
  BY <1>1, <1>2, <1>3, <1>4, <1>5, <1>6 DEF Next, Done

\* The inductive invariant holds in every reachable state.
THEOREM Invariance == Spec => []IInv
BY Starts, Steps, PTL DEF Spec

-----------------------------------------------------------------------------
(* What follows from it *)

\* Every variable has its type, whatever the rows of the file are.
THEOREM TypeCorrect == Spec => []TypeOK
<1>1. IInv => TypeOK
  BY DEF IInv
<1> QED
  BY <1>1, Invariance, PTL

\* join_sets keeps the trees, the linked lists, the sizes and the clique list of the same
\* cliques, and nothing else touches them until main drops them.
THEOREM ViewsAgreeAlways == Spec => []CliqueViewsAgree
<1>1. IInv => CliqueViewsAgree
  BY ViewsOKAgree DEF IInv, StructuresOK, CliqueViewsAgree
<1> QED
  BY <1>1, Invariance, PTL

\* Only join_sets and the reset touch the parents.
LEMMA ParentsStay ==
  ASSUME [Next]_labelVars, ~ReadPositive, ~Reset
  PROVE  parent' = parent
BY DEF Next, Rewind, ReadNegative, EndOfFile, PrintClique, CliquesPrinted, NeglistPrint,
       NegativesPrinted, Done, labelVars, cliqueVars, setVars

\* A tree of height h has at least two to the power of h nodes, so that find_root takes at
\* most as many steps as the logarithm of the size of the clique, although no path is ever
\* compressed: join_sets always hangs the smaller tree, as the sizes it has kept tell it.
THEOREM TreesStayShallow == Spec => []CliqueTreesShallow
<1>1. Init => Shallow(parent)
  BY SinglesShallow DEF Init, CliquesInit
<1>2. IInv /\ Shallow(parent) /\ [Next]_labelVars => Shallow(parent)'
  <2> SUFFICES ASSUME IInv, Shallow(parent), [Next]_labelVars PROVE Shallow(parent')
    OBVIOUS
  <2>1. CASE ReadPositive
    <3>1. PICK a, b \in Nodes : JoinSets(a, b)
      BY <2>1 DEF ReadPositive
    <3>2. amount = AmountsBy(parent)
      BY <2>1 DEF ReadPositive, IInv, StructuresOK, ViewsOK
    <3> QED
      BY <3>1, <3>2, JoinShallow
  <2>2. CASE Reset
    BY <2>2, SinglesShallow DEF Reset, Reinitialize
  <2>3. CASE ~ReadPositive /\ ~Reset
    <3>1. parent' = parent
      BY <2>3, ParentsStay
    <3> QED
      BY <3>1
  <2> QED
    BY <2>1, <2>2, <2>3
<1>3. Shallow(parent) => CliqueTreesShallow
  BY ShallowAgrees DEF CliqueTreesShallow
<1> QED
  BY <1>1, <1>2, <1>3, Invariance, PTL DEF Spec

\* Two nodes of one clique make it a clique of the list.
LEMMA PairsAreListed ==
  ASSUME ViewsOK, NEW x \in Nodes, NEW y \in Nodes, x # y, Root(x) = Root(y)
  PROVE  Root(x) \in ToSet(cliques)
<1>1. Forest(parent) /\ amount = AmountsBy(parent)
      /\ ToSet(cliques) = {r \in Nodes : parent[r] = NoNode /\ amount[r] > 1}
  BY DEF ViewsOK
<1>2. PICK r \in Nodes : r = Root(x) /\ r = Root(y) /\ parent[r] = NoNode
  BY <1>1, RootByFacts DEF Root
<1>3. amount[r] = Cardinality(MembersBy(parent, r))
  BY <1>1, <1>2 DEF AmountsBy
<1>4. {x, y} \subseteq MembersBy(parent, r)
  BY <1>2 DEF MembersBy, Root
<1>5. IsFiniteSet(MembersBy(parent, r)) /\ Cardinality(MembersBy(parent, r)) \in Nat
  BY <1>1, MembersCount
<1>6. Cardinality({x, y}) = 2
  <2>1. IsFiniteSet({x}) /\ Cardinality({x}) = 1 /\ y \notin {x} /\ {x} \cup {y} = {x, y}
    BY FS_Singleton
  <2> QED
    BY <2>1, FS_AddElement
<1>7. Cardinality({x, y}) <= Cardinality(MembersBy(parent, r))
  BY <1>4, <1>5, FS_Subset
<1> QED
  BY <1>1, <1>2, <1>3, <1>5, <1>6, <1>7

\* What print_all_cliques prints is the closure of the file: each line that follows once.
THEOREM PrintedIsClosure == Spec => []OutputIsClosure
<1>1. ASSUME IInv, pc = "printed", NEW x \in Nodes, NEW y \in Nodes,
             NEW r, r = FindRoot(x), NEW s, s = FindRoot(y)
      PROVE  /\ Copies(x, y, 1) = IF x # y /\ r = s THEN 1 ELSE 0
             /\ ~InNeglist(r, r) \/ r # s =>
                  Copies(x, y, 0)
                    = IF r # s /\ InNeglist(r, s) /\ (amount[r] > 1 \/ amount[s] > 1)
                        THEN 1 ELSE 0
  <2>1. /\ ViewsOK /\ TypeOK /\ NegativesOK /\ PositiveLinesOK /\ NegativeLinesOK
    BY <1>1 DEF IInv, StructuresOK, LinesOK
  <2>2. PassedCliques = ToSet(cliques) /\ PassedNegatives = ToSet(cliques)
    BY <1>1 DEF PassedCliques, PassedNegatives
  <2>3. /\ r = Root(x) /\ s = Root(y) /\ r \in Nodes /\ s \in Nodes
        /\ parent[r] = NoNode /\ parent[s] = NoNode
    BY <1>1, <2>1, FindRootBy, RootByFacts DEF Root, ViewsOK
  <2>4. /\ r \in ToSet(cliques) <=> amount[r] > 1
        /\ s \in ToSet(cliques) <=> amount[s] > 1
    BY <2>1, <2>3 DEF ViewsOK
  <2>5. PICK o1, o2, z1, z2 \in Nat :
          /\ o1 = output[Row(x, y, 1)] /\ o2 = output[Row(y, x, 1)]
          /\ z1 = output[Row(x, y, 0)] /\ z2 = output[Row(y, x, 0)]
    <3>1. output \in [Rows -> Nat]
      BY <2>1, Typed
    <3>2. \A u, v \in Nodes : \A l \in {0, 1} : output[Row(u, v, l)] \in Nat
      BY <3>1, RowFacts
    <3> QED
      BY <3>2
  <2>6. Copies(x, y, 1) = IF x # y /\ r = s THEN 1 ELSE 0
    <3>1. CASE x = y
      <4>1. o1 = 0
        BY <2>1, <2>5, <3>1 DEF PositiveLinesOK
      <4> QED
        BY <2>5, <3>1, <4>1 DEF Copies
    <3>2. CASE x # y
      <4>1. r = s => r \in ToSet(cliques)
        BY <2>1, <2>3, <3>2, PairsAreListed
      <4>2. o1 + o2 = IF r = s /\ r \in ToSet(cliques) THEN 1 ELSE 0
        BY <2>1, <2>2, <2>3, <2>5, <3>2 DEF PositiveLinesOK
      <4> QED
        BY <2>5, <3>2, <4>1, <4>2 DEF Copies
    <3> QED
      BY <3>1, <3>2
  <2>7. /\ InNeglist(r, s) <=> Names(ngl, r, s)
        /\ InNeglist(r, r) <=> Names(ngl, r, r)
    BY DEF InNeglist, Names
  <2>8. ASSUME r # s
        PROVE  Copies(x, y, 0) = IF InNeglist(r, s) /\ (amount[r] > 1 \/ amount[s] > 1)
                                   THEN 1 ELSE 0
    <3>1. x # y
      BY <1>1, <2>8
    <3>2. z1 + z2 = IF Names(ngl, r, s) /\ {r, s} \cap ToSet(cliques) # {} THEN 1 ELSE 0
      BY <2>1, <2>2, <2>3, <2>5, <2>8 DEF NegativeLinesOK
    <3>3. {r, s} \cap ToSet(cliques) # {} <=> amount[r] > 1 \/ amount[s] > 1
      BY <2>4
    <3> QED
      BY <2>5, <2>7, <3>1, <3>2, <3>3 DEF Copies
  <2>9. ASSUME r = s, ~InNeglist(r, r) PROVE Copies(x, y, 0) = 0
    <3>1. z1 = 0 /\ z2 = 0
      BY <2>1, <2>3, <2>5, <2>7, <2>9 DEF NegativeLinesOK
    <3> QED
      BY <2>5, <3>1 DEF Copies
  <2> QED
    BY <2>6, <2>8, <2>9
<1>2. IInv => OutputIsClosure
  BY <1>1 DEF OutputIsClosure
<1> QED
  BY <1>2, Invariance, PTL

-----------------------------------------------------------------------------
(* Refinement: the pointer structures implement the closure of the labels *)

PartitionBy(p) == {MembersBy(p, r) : r \in {x \in Nodes : p[x] = NoNode}}
ApartBy(p, n) ==
  UNION {{<<MembersBy(p, r), MembersBy(p, n[r][k].neg_clique)>> : k \in DOMAIN n[r]} :
         r \in {x \in Nodes : p[x] = NoNode}}

\* The abstract state is read off the parents and the negative lists.
LEMMA AbstractState == Partition = PartitionBy(parent) /\ Apart = ApartBy(parent, ngl)
<1>1. \A r : Members(r) = MembersBy(parent, r)
  BY FindRootBy DEF Members, MembersBy
<1>2. Roots = {x \in Nodes : parent[x] = NoNode}
  BY DEF Roots, IsRoot
<1>3. Partition = PartitionBy(parent)
  BY <1>1, <1>2 DEF Partition, PartitionBy
<1>4. Apart = ApartBy(parent, ngl)
  BY <1>1, <1>2 DEF Apart, ApartBy
<1> QED
  BY <1>3, <1>4

\* The block of a node is the clique of its root.
LEMMA BlockIsClique ==
  ASSUME NEW p, Forest(p), NEW x \in Nodes
  PROVE  (CHOOSE B \in PartitionBy(p) : x \in B) = MembersBy(p, RootBy(p, x))
<1>1. PICK R \in Nodes : R = RootBy(p, x) /\ p[R] = NoNode
  BY RootByFacts
<1>2. MembersBy(p, R) \in PartitionBy(p) /\ x \in MembersBy(p, R)
  BY <1>1 DEF PartitionBy, MembersBy
<1>3. ASSUME NEW B \in PartitionBy(p), x \in B PROVE B = MembersBy(p, R)
  <2>1. PICK r \in Nodes : B = MembersBy(p, r)
    BY DEF PartitionBy
  <2>2. r = R
    BY <1>1, <1>3, <2>1 DEF MembersBy
  <2> QED
    BY <2>1, <2>2
<1> QED
  BY <1>1, <1>2, <1>3

\* Hanging a root below another makes one block of the two.
LEMMA HangPartition ==
  ASSUME NEW p, Forest(p), NEW old \in Nodes, NEW new \in Nodes, old # new,
         p[old] = NoNode, p[new] = NoNode
  PROVE  PartitionBy(Hung(p, old, new))
           = (PartitionBy(p) \ {MembersBy(p, old), MembersBy(p, new)})
               \cup {MembersBy(p, old) \cup MembersBy(p, new)}
<1>1. PICK q : q = Hung(p, old, new)
  OBVIOUS
<1>2. /\ MembersBy(q, new) = MembersBy(p, new) \cup MembersBy(p, old)
      /\ \A x \in Nodes \ {old, new} : MembersBy(q, x) = MembersBy(p, x)
  BY <1>1, HangMembers
<1>3. \A x \in Nodes : q[x] = NoNode <=> p[x] = NoNode /\ x # old
  BY <1>1, NodesAssumption DEF Hung, Forest
<1>4. \A r, s \in Nodes :
        p[r] = NoNode /\ MembersBy(p, r) = MembersBy(p, s) => r = s \/ p[s] # NoNode
  <2> SUFFICES ASSUME NEW r \in Nodes, NEW s \in Nodes, p[r] = NoNode, p[s] = NoNode,
                      MembersBy(p, r) = MembersBy(p, s)
               PROVE  r = s
    OBVIOUS
  <2>1. RootBy(p, r) = r /\ RootBy(p, s) = s
    BY RootByFacts
  <2> QED
    BY <2>1 DEF MembersBy
<1>5. ASSUME NEW B
      PROVE  B \in PartitionBy(q) <=>
               \/ B \in PartitionBy(p) \ {MembersBy(p, old), MembersBy(p, new)}
               \/ B = MembersBy(p, old) \cup MembersBy(p, new)
  <2>1. ASSUME B \in PartitionBy(q)
        PROVE  \/ B \in PartitionBy(p) \ {MembersBy(p, old), MembersBy(p, new)}
               \/ B = MembersBy(p, old) \cup MembersBy(p, new)
    <3>1. PICK r \in Nodes : p[r] = NoNode /\ r # old /\ B = MembersBy(q, r)
      BY <1>3, <2>1 DEF PartitionBy
    <3>2. CASE r = new
      BY <1>2, <3>1, <3>2
    <3>3. CASE r # new
      <4>1. B = MembersBy(p, r)
        BY <1>2, <3>1, <3>3
      <4> QED
        BY <1>4, <3>1, <3>3, <4>1 DEF PartitionBy
    <3> QED
      BY <3>2, <3>3
  <2>2. ASSUME B \in PartitionBy(p) \ {MembersBy(p, old), MembersBy(p, new)}
        PROVE  B \in PartitionBy(q)
    <3>1. PICK r \in Nodes : p[r] = NoNode /\ B = MembersBy(p, r) /\ r # old /\ r # new
      BY <2>2 DEF PartitionBy
    <3> QED
      BY <1>2, <1>3, <3>1 DEF PartitionBy
  <2>3. ASSUME B = MembersBy(p, old) \cup MembersBy(p, new) PROVE B \in PartitionBy(q)
    <3>1. B = MembersBy(q, new) /\ q[new] = NoNode
      BY <1>2, <1>3, <2>3
    <3> QED
      BY <3>1 DEF PartitionBy
  <2> QED
    BY <2>1, <2>2, <2>3
<1> QED
  BY <1>1, <1>5

\* Two blocks are apart if a list of one root names the other root.
NamesPairs(p, n) ==
  \A pair : pair \in ApartBy(p, n) <=>
    \E x, y \in Nodes : Names(n, x, y) /\ pair = <<MembersBy(p, x), MembersBy(p, y)>>
LEMMA ApartNames ==
  ASSUME NEW p, NEW n \in [Nodes -> Seq(NegEntry)],
         \A x, y \in Nodes : Names(n, x, y) => p[x] = NoNode
  PROVE  NamesPairs(p, n)
<1> SUFFICES ASSUME NEW pair
             PROVE  pair \in ApartBy(p, n) <=>
                      \E x, y \in Nodes :
                        Names(n, x, y) /\ pair = <<MembersBy(p, x), MembersBy(p, y)>>
  BY DEF NamesPairs
<1>1. ASSUME pair \in ApartBy(p, n)
      PROVE  \E x, y \in Nodes : Names(n, x, y) /\ pair = <<MembersBy(p, x), MembersBy(p, y)>>
  <2>1. PICK r \in Nodes :
          pair \in {<<MembersBy(p, r), MembersBy(p, n[r][k].neg_clique)>> : k \in DOMAIN n[r]}
    BY <1>1 DEF ApartBy
  <2>2. PICK k \in DOMAIN n[r] : pair = <<MembersBy(p, r), MembersBy(p, n[r][k].neg_clique)>>
    BY <2>1
  <2>3. n[r][k] \in NegEntry
    OBVIOUS
  <2>4. n[r][k].neg_clique \in Nodes
    BY <2>3 DEF NegEntry
  <2> QED
    BY <2>2, <2>4 DEF Names
<1>2. ASSUME NEW x \in Nodes, NEW y \in Nodes, Names(n, x, y),
             pair = <<MembersBy(p, x), MembersBy(p, y)>>
      PROVE  pair \in ApartBy(p, n)
  <2>1. PICK k \in DOMAIN n[x] : n[x][k].neg_clique = y
    BY <1>2 DEF Names
  <2>2. pair \in {<<MembersBy(p, x), MembersBy(p, n[x][j].neg_clique)>> : j \in DOMAIN n[x]}
    BY <1>2, <2>1
  <2>3. p[x] = NoNode
    BY <1>2
  <2> QED
    BY <2>2, <2>3 DEF ApartBy
<1> QED
  BY <1>1, <1>2

\* The file before it is read.
LEMMA ClosureInit == Init => Closure!Init
<1> SUFFICES ASSUME Init PROVE Closure!Init
  OBVIOUS
<1>1. /\ parent = [x \in Nodes |-> NoNode] /\ ngl = [x \in Nodes |-> <<>>]
      /\ \E x \in Nodes : row = Row(x, x, 1)
  BY DEF Init, CliquesInit
<1>2. Forest(parent) /\ \A x \in Nodes : RootBy(parent, x) = x
  BY <1>1, SinglesForest
<1>3. Partition = {{x} : x \in Nodes}
  <2>1. \A x \in Nodes : MembersBy(parent, x) = {x} /\ parent[x] = NoNode
    BY <1>1, <1>2 DEF MembersBy
  <2>2. PartitionBy(parent) = {{x} : x \in Nodes}
    BY <2>1 DEF PartitionBy
  <2> QED
    BY <2>2, AbstractState
<1>4. Apart = {}
  <2>1. ngl \in [Nodes -> Seq(NegEntry)] /\ \A x, y \in Nodes : ~Names(ngl, x, y)
    BY <1>1, NothingNamed
  <2>2. ApartBy(parent, ngl) = {}
    BY <2>1, ApartNames DEF NamesPairs
  <2> QED
    BY <2>2, AbstractState
<1>5. row \in Closure!Rows /\ row.left = row.right /\ row.label = 1
  BY <1>1 DEF Row, Closure!Rows
<1> QED
  BY <1>3, <1>4, <1>5 DEF Closure!Init

\* The abstract state that a step leads to.
LEMMA AbstractNext ==
  /\ Partition = PartitionBy(parent) /\ Apart = ApartBy(parent, ngl)
  /\ Partition' = PartitionBy(parent') /\ Apart' = ApartBy(parent', ngl')
<1>1. Partition = PartitionBy(parent) /\ Apart = ApartBy(parent, ngl)
  BY AbstractState
<1>2. (Partition = PartitionBy(parent) /\ Apart = ApartBy(parent, ngl))'
  BY <1>1, PTL
<1> QED
  BY <1>1, <1>2

\* join_sets makes one block of the blocks of the two nodes.
LEMMA PositiveRefines == ASSUME IInv, ReadPositive PROVE Closure!Positive
<1>1. PICK a, b \in Nodes : JoinSets(a, b) /\ row' = Row(a, b, 1)
  BY DEF ReadPositive
<1>2. pc = "positive" /\ ngl' = ngl
  BY DEF ReadPositive
<1>3. ViewsOK /\ TypeOK /\ ngl = [x \in Nodes |-> <<>>] /\ row.label = 1
  BY <1>2 DEF IInv, StructuresOK, PhasesOK
<1>4. Forest(parent)
  BY <1>3 DEF ViewsOK
<1>5. PICK p : p = parent
  OBVIOUS
<1>6. PICK R, S \in Nodes : /\ R = RootBy(p, a) /\ S = RootBy(p, b)
                            /\ p[R] = NoNode /\ p[S] = NoNode
  BY <1>4, <1>5, RootByFacts
<1>7. Closure!Blocks = {MembersBy(p, R), MembersBy(p, S)}
  <2>1. row'.left = a /\ row'.right = b
    BY <1>1 DEF Row
  <2>2. \A x \in Nodes : Closure!BlockOf(x) = MembersBy(p, RootBy(p, x))
    BY <1>4, <1>5, BlockIsClique, AbstractState DEF Closure!BlockOf
  <2>3. /\ Closure!BlockOf(row'.left) = MembersBy(p, R)
        /\ Closure!BlockOf(row'.right) = MembersBy(p, S)
    BY <1>6, <2>1, <2>2
  <2> QED
    BY <2>3 DEF Closure!Blocks
<1>8. PartitionBy(parent') = (PartitionBy(p) \ {MembersBy(p, R), MembersBy(p, S)})
                                \cup {MembersBy(p, R) \cup MembersBy(p, S)}
  <2>1. CASE R = S
    <3>1. parent' = p
      BY <1>1, <1>4, <1>5, <1>6, <2>1, JoinKeeps DEF setVars
    <3>2. MembersBy(p, R) \in PartitionBy(p)
      BY <1>6 DEF PartitionBy
    <3> QED
      BY <2>1, <3>1, <3>2
  <2>2. CASE R # S
    <3>1. PICK old, new \in {R, S} : old # new /\ parent' = Hung(p, old, new)
      <4>1. \E old, new \in {RootBy(parent, a), RootBy(parent, b)} :
              /\ old # new /\ old \in Nodes /\ new \in Nodes
              /\ parent[old] = NoNode /\ parent[new] = NoNode
              /\ parent' = [parent EXCEPT ![old] = new]
              /\ amount' = [amount EXCEPT ![new] = @ + amount[old], ![old] = -1]
              /\ next_in_clique' = [next_in_clique EXCEPT ![Last(Chain(new))] = old]
              /\ cliques' = InsertMaster(RemoveMaster(cliques, old), new)
        BY <1>1, <1>4, <1>5, <1>6, <2>2, JoinTakesRoots
      <4> QED
        BY <1>5, <1>6, <4>1 DEF Hung
    <3>2. PartitionBy(parent')
            = (PartitionBy(p) \ {MembersBy(p, old), MembersBy(p, new)})
                \cup {MembersBy(p, old) \cup MembersBy(p, new)}
      BY <1>4, <1>5, <1>6, <3>1, HangPartition
    <3> QED
      BY <3>1, <3>2
  <2> QED
    BY <2>1, <2>2
<1>9. Partition' = (Partition \ Closure!Blocks) \cup {UNION Closure!Blocks}
  <2>1. UNION Closure!Blocks = MembersBy(p, R) \cup MembersBy(p, S)
    BY <1>7
  <2>2. Partition = PartitionBy(p) /\ Partition' = PartitionBy(parent')
    BY <1>5, AbstractNext
  <2> QED
    BY <1>7, <1>8, <2>1, <2>2
<1>10. Apart' = Apart
  <2>1. Apart = {}
    <3>1. ngl \in [Nodes -> Seq(NegEntry)] /\ \A x, y \in Nodes : ~Names(ngl, x, y)
      BY <1>3, NothingNamed
    <3> QED
      BY <3>1, ApartNames, AbstractNext DEF NamesPairs
  <2>2. Apart' = {}
    <3>1. ngl' \in [Nodes -> Seq(NegEntry)] /\ \A x, y \in Nodes : ~Names(ngl', x, y)
      BY <1>2, <1>3, NothingNamed
    <3>2. ApartBy(parent', ngl') = {}
      BY <3>1, ApartNames DEF NamesPairs
    <3> QED
      BY <3>2, AbstractNext
  <2> QED
    BY <2>1, <2>2
<1>11. row' \in Closure!Rows /\ row'.label = 1
  BY <1>1 DEF Row, Closure!Rows
<1> QED
  BY <1>3, <1>9, <1>10, <1>11 DEF Closure!Positive

\* neglist_add tells the blocks of the two nodes apart, both ways.
LEMMA NegativeRefines == ASSUME IInv, ReadNegative PROVE Closure!Negative
<1>1. PICK a, b \in Nodes : NeglistAdd(FindRoot(a), FindRoot(b)) /\ row' = Row(a, b, 0)
  BY DEF ReadNegative
<1>2. pc = "negative" /\ parent' = parent
  BY DEF ReadNegative, setVars
<1>3. ViewsOK /\ TypeOK /\ NegativesOK
  BY <1>2 DEF IInv, StructuresOK
<1>4. Forest(parent)
  BY <1>3 DEF ViewsOK
<1>5. PICK p : p = parent
  OBVIOUS
<1>6. PICK r, s \in Nodes : /\ r = RootBy(p, a) /\ s = RootBy(p, b)
                            /\ p[r] = NoNode /\ p[s] = NoNode
  BY <1>4, <1>5, RootByFacts
<1>7. PICK n \in [Nodes -> Seq(NegEntry)] : n = ngl
  BY <1>3, Typed
<1>8. NeglistAdd(r, s)
  <2>1. FindRoot(a) = r /\ FindRoot(b) = s
    BY <1>5, <1>6, FindRootBy
  <2> QED
    BY <1>1, <2>1
<1>9. PICK m : m = ngl' /\ m = IF Names(n, r, s) THEN n ELSE ToldBoth(n, r, s)
  BY <1>7, <1>8, AddsBoth
<1>10. /\ m \in [Nodes -> Seq(NegEntry)]
       /\ \A x, y \in Nodes :
            Names(m, x, y) <=> Names(n, x, y) \/ (x = r /\ y = s) \/ (x = s /\ y = r)
  <2>1. CASE Names(n, r, s)
    <3>1. m = n /\ Names(n, s, r)
      BY <1>3, <1>7, <1>9, <2>1 DEF NegativesOK
    <3> QED
      BY <2>1, <3>1
  <2>2. CASE ~Names(n, r, s)
    <3>1. m = ToldBoth(n, r, s) /\ ~Names(n, s, r) /\ NamedOnce(n)
      BY <1>3, <1>7, <1>9, <2>2 DEF NegativesOK
    <3>2. Tells(n, m, r, s)
      BY <2>2, <3>1, ToldBothFacts
    <3> QED
      BY <3>2 DEF Tells
  <2> QED
    BY <2>1, <2>2
<1>11. \A x, y \in Nodes : /\ Names(n, x, y) => p[x] = NoNode
                           /\ Names(m, x, y) => p[x] = NoNode
  BY <1>3, <1>5, <1>6, <1>7, <1>10 DEF NegativesOK
<1>12. PICK A, B : A = MembersBy(p, r) /\ B = MembersBy(p, s)
  OBVIOUS
<1>13. ASSUME NEW pair
       PROVE  pair \in ApartBy(p, m) <=>
                pair \in ApartBy(p, n) \/ pair = <<A, B>> \/ pair = <<B, A>>
  <2>1. NamesPairs(p, m)
    BY <1>10, <1>11, ApartNames DEF NamesPairs
  <2>2. NamesPairs(p, n)
    BY <1>11, ApartNames DEF NamesPairs
  <2> QED
    <3>1. ASSUME pair \in ApartBy(p, m)
          PROVE  pair \in ApartBy(p, n) \/ pair = <<A, B>> \/ pair = <<B, A>>
      <4>1. PICK x, y \in Nodes : Names(m, x, y) /\ pair = <<MembersBy(p, x), MembersBy(p, y)>>
        BY <2>1, <3>1 DEF NamesPairs
      <4>2. Names(n, x, y) \/ (x = r /\ y = s) \/ (x = s /\ y = r)
        BY <1>10, <4>1
      <4>3. CASE Names(n, x, y)
        BY <2>2, <4>1, <4>3 DEF NamesPairs
      <4> QED
        BY <1>12, <4>1, <4>2, <4>3
    <3>2. ASSUME pair \in ApartBy(p, n) PROVE pair \in ApartBy(p, m)
      <4>1. PICK x, y \in Nodes : Names(n, x, y) /\ pair = <<MembersBy(p, x), MembersBy(p, y)>>
        BY <2>2, <3>2 DEF NamesPairs
      <4>2. Names(m, x, y)
        BY <1>10, <4>1
      <4> QED
        BY <2>1, <4>1, <4>2 DEF NamesPairs
    <3>3. ASSUME pair = <<A, B>> \/ pair = <<B, A>> PROVE pair \in ApartBy(p, m)
      <4>1. Names(m, r, s) /\ Names(m, s, r)
        BY <1>10
      <4> QED
        BY <1>12, <2>1, <3>3, <4>1 DEF NamesPairs
    <3> QED
      BY <3>1, <3>2, <3>3
<1>14. Apart' = Apart \cup {<<A, B>>, <<B, A>>}
  <2>1. Apart = ApartBy(p, n) /\ Apart' = ApartBy(p, m)
    BY <1>2, <1>5, <1>7, <1>9, AbstractNext
  <2> QED
    BY <1>13, <2>1
<1>15. Closure!BlockOf(row'.left) = A /\ Closure!BlockOf(row'.right) = B
  <2>1. row'.left = a /\ row'.right = b
    BY <1>1 DEF Row
  <2>2. \A x \in Nodes : Closure!BlockOf(x) = MembersBy(p, RootBy(p, x))
    BY <1>4, <1>5, BlockIsClique, AbstractState DEF Closure!BlockOf
  <2> QED
    BY <1>6, <1>12, <2>1, <2>2
<1>16. Partition' = Partition
  BY <1>2, AbstractNext
<1>17. row' \in Closure!Rows /\ row'.label = 0
  BY <1>1 DEF Row, Closure!Rows
<1> QED
  BY <1>14, <1>15, <1>16, <1>17 DEF Closure!Negative

\* Marking entries changes nothing that the abstract state tells.
LEMMA NeglistPrintStutters == ASSUME IInv, NeglistPrint PROVE UNCHANGED Closure!cvars
<1>1. parent' = parent /\ row' = row /\ pc = "printNegatives"
  BY DEF NeglistPrint, setVars
<1>2. IInv'
  BY NeglistPrintStep
<1>3. NegativesOK /\ TypeOK /\ NegativesOK' /\ TypeOK'
  BY <1>2 DEF IInv
<1>4. ngl \in [Nodes -> Seq(NegEntry)] /\ ngl' \in [Nodes -> Seq(NegEntry)]
  BY <1>3 DEF TypeOK, CliquesTypeOK, NegEntry
<1>5. PICK n, m \in [Nodes -> Seq(NegEntry)] : n = ngl /\ m = ngl'
  BY <1>4
<1>6. \A x, y \in Nodes : Names(m, x, y) <=> Names(n, x, y)
  <2> SUFFICES ASSUME NEW x \in Nodes
               PROVE  /\ DOMAIN m[x] = DOMAIN n[x]
                      /\ \A k \in DOMAIN n[x] : m[x][k].neg_clique = n[x][k].neg_clique
    BY DEF Names
  <2>1. PICK r : r = cliques[at]
    OBVIOUS
  <2>2. r \in Nodes
    <3>1. at <= Len(cliques) /\ cliques \in Seq(Nodes) /\ at \in Nat \ {0} /\ Len(cliques) \in Nat
      BY <1>3, Typed DEF NeglistPrint
    <3> QED
      BY <2>1, <3>1
  <2>3. m[x] = n[x] \/ m[x] = Printed(n[x], r)
    BY <1>5, <2>1 DEF NeglistPrint
  <2> QED
    BY <2>2, <2>3, PrintedFacts
<1>7. ASSUME NEW pair PROVE pair \in ApartBy(parent, m) <=> pair \in ApartBy(parent, n)
  <2>1. PICK p : p = parent
    OBVIOUS
  <2>2. \A x, y \in Nodes : /\ Names(n, x, y) => p[x] = NoNode
                            /\ Names(m, x, y) => p[x] = NoNode
    BY <1>3, <1>5, <1>6, <2>1 DEF NegativesOK
  <2>3. NamesPairs(p, m)
    BY <2>2, ApartNames DEF NamesPairs
  <2>4. NamesPairs(p, n)
    BY <2>2, ApartNames DEF NamesPairs
  <2> QED
    BY <1>6, <2>1, <2>3, <2>4 DEF NamesPairs
<1>8. Apart' = Apart /\ Partition' = Partition
  <2>1. Apart = ApartBy(parent, n) /\ Apart' = ApartBy(parent, m)
    BY <1>1, <1>5, AbstractNext
  <2>2. Partition' = Partition
    BY <1>1, AbstractNext
  <2> QED
    BY <1>7, <2>1, <2>2
<1> QED
  BY <1>1, <1>8 DEF Closure!cvars

\* reinitialize_all_cliques forgets everything.
LEMMA ResetRefines == ASSUME Reset PROVE Closure!Forget
<1>1. parent' = [x \in Nodes |-> NoNode] /\ ngl' = [x \in Nodes |-> <<>>] /\ row' = row
  BY DEF Reset, Reinitialize
<1>2. Partition' = {{x} : x \in Nodes}
  <2>1. Forest(parent') /\ \A x \in Nodes : RootBy(parent', x) = x
    BY <1>1, SinglesForest
  <2>2. \A x \in Nodes : MembersBy(parent', x) = {x} /\ parent'[x] = NoNode
    BY <1>1, <2>1 DEF MembersBy
  <2>3. PartitionBy(parent') = {{x} : x \in Nodes}
    BY <2>2 DEF PartitionBy
  <2> QED
    BY <2>3, AbstractNext
<1>3. Apart' = {}
  <2>1. ngl' \in [Nodes -> Seq(NegEntry)] /\ \A x, y \in Nodes : ~Names(ngl', x, y)
    BY <1>1, NothingNamed
  <2>2. ApartBy(parent', ngl') = {}
    BY <2>1, ApartNames DEF NamesPairs
  <2> QED
    BY <2>2, AbstractNext
<1> QED
  BY <1>1, <1>2, <1>3 DEF Closure!Forget

\* Reading the file twice into trees, lists and negative lists, printing them and dropping
\* them is a run of LabelClosure: a step of it, or none.
THEOREM ImplementsClosure == Spec => ImplementsLabelClosure
<1>1. IInv /\ [Next]_labelVars => [Closure!Next]_(Closure!cvars)
  <2> SUFFICES ASSUME IInv, [Next]_labelVars
               PROVE  Closure!Next \/ UNCHANGED Closure!cvars
    OBVIOUS
  <2>1. CASE ReadPositive
    BY <2>1, PositiveRefines DEF Closure!Next
  <2>2. CASE ReadNegative
    BY <2>2, NegativeRefines DEF Closure!Next
  <2>3. CASE NeglistPrint
    BY <2>3, NeglistPrintStutters
  <2>4. CASE Reset
    BY <2>4, ResetRefines DEF Closure!Next
  <2>5. CASE \/ Rewind \/ EndOfFile \/ PrintClique \/ CliquesPrinted \/ NegativesPrinted
             \/ UNCHANGED labelVars
    <3>1. parent' = parent /\ ngl' = ngl /\ row' = row
      BY <2>5 DEF Rewind, EndOfFile, PrintClique, CliquesPrinted, NegativesPrinted, labelVars,
                  cliqueVars
    <3>2. Partition' = Partition /\ Apart' = Apart
      BY <3>1, AbstractNext
    <3> QED
      BY <3>1, <3>2 DEF Closure!cvars
  <2> QED
    BY <2>1, <2>2, <2>3, <2>4, <2>5 DEF Next, Done
<1> QED
  BY <1>1, ClosureInit, Invariance, PTL DEF Spec, ImplementsLabelClosure, Closure!Spec
=============================================================================
