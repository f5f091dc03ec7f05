---------------------------- MODULE ConflictProofs ----------------------------
(***************************************************************************)
(* Theorems about ConflictResolution, for any nodes, files, predictions,   *)
(* threshold and number of iterations: the match lists follow the cliques, *)
(* what is corrected is what was predicted, and the second kind of         *)
(* conflict and the diagnostics of the third pass never occur.             *)
(***************************************************************************)
EXTENDS ConflictResolution, CliquesProofs

Root(x) == RootBy(parent, x)

\* The rows that are predicted to match, of those read.
Edges == {file[k] : k \in {l \in RowsRead : prediction[file[l]] >= Threshold}}

\* The pointers have no cycle and the sizes are those of the cliques.
TreesOK == Forest(parent) /\ amount = AmountsBy(parent)

\* Two nodes have one root if and only if the rows predicted to match connect them: every
\* row does, and no set that the rows do not lead out of cuts a clique in two.
Closed(S, E) == \A e \in E : e[1] \in S <=> e[2] \in S
Connected ==
  /\ \A e \in Edges : Root(e[1]) = Root(e[2])
  /\ \A S \in SUBSET Nodes : Closed(S, Edges) =>
       \A x, y \in Nodes : Root(x) = Root(y) /\ x \in S => y \in S

\* A negative list is empty in the first pass, and never names its owner.
NegativesOK ==
  /\ \A x \in Nodes : \A k \in DOMAIN ngl[x] : ngl[x][k].neg_clique # x
  /\ pass \in {"positive", "done"} => ngl = [x \in Nodes |-> <<>>]

\* A node that shares its clique has matches; an entry stands for a row of the file and
\* its prediction, and tells whether the two nodes are in one clique.
Rows(x, y) == {<<x, y>>, <<y, x>>} \cap ToSet(file)
EntryOK(x, m) ==
  /\ m.prediction >= Threshold <=> Root(x) = Root(m.matched_with)
  /\ \E r \in Rows(x, m.matched_with) : prediction[r] = m.prediction
MatchesOK ==
  /\ \A x, y \in Nodes : x # y /\ Root(x) = Root(y) => matches[x] # <<>>
  /\ \A x \in Nodes : \A k \in DOMAIN matches[x] : EntryOK(x, matches[x][k])
  /\ pass = "positive" =>
       \A x \in Nodes : \A k \in DOMAIN matches[x] : matches[x][k].prediction >= Threshold

\* How often a list says of a node that it was matched with a prediction: both lists as often.
Entries(list, y, p) ==
  {l \in DOMAIN list : list[l].matched_with = y /\ list[l].prediction = p}
ListsEven ==
  \A x, y \in Nodes : \A p \in Predictions :
    Cardinality(Entries(matches[x], y, p)) = Cardinality(Entries(matches[y], x, p))

\* Corrections are of the first kind, and of what the model predicted.
CorrectionOK(c) ==
  /\ c.kind = 1
  /\ c.towards = 0 => \E r \in Rows(c.pair[1], c.pair[2]) : prediction[r] >= Threshold
  /\ c.towards = 1 => c.pair \in ToSet(file) /\ prediction[c.pair] < Threshold
FoundOK ==
  /\ \A k \in DOMAIN found : CorrectionOK(found[k])
  /\ pass \in {"positive", "negative", "done"} => found = <<>>
  /\ stderr = {}

\* A pass starts at the first row, and the iterations are not used up before the end.
PlacesOK ==
  /\ pass \in {"update", "done"} => at = 1
  /\ pass # "done" => i < MaxIterations

\* The inductive invariant.
IInv == /\ TypeOK /\ PlacesOK
        /\ TreesOK /\ Connected
        /\ NegativesOK /\ MatchesOK /\ ListsEven
        /\ FoundOK

-----------------------------------------------------------------------------
(* Lists of matches *)

Entry == [matched_with : Nodes, prediction : Predictions]
ListsOf == [Nodes -> Seq(Entry)]

\* What matchlist_add does to the lists of two nodes.
Noted(m, l, r, p) ==
  [[m EXCEPT ![l] = Append(@, [matched_with |-> r, prediction |-> p])]
      EXCEPT ![r] = Append(@, [matched_with |-> l, prediction |-> p])]

\* One entry more in a list.
LEMMA EntriesGrow ==
  ASSUME NEW list \in Seq(Entry), NEW y, NEW q, NEW e \in Entry
  PROVE  /\ Cardinality(Entries(list, y, q)) \in Nat
         /\ Cardinality(Entries(Append(list, e), y, q))
              = Cardinality(Entries(list, y, q))
                  + IF e.matched_with = y /\ e.prediction = q THEN 1 ELSE 0
<1>1. PICK n \in Nat : n = Len(list)
  OBVIOUS
<1>2. /\ DOMAIN list = 1 .. n /\ DOMAIN Append(list, e) = 1 .. n + 1
      /\ Append(list, e)[n + 1] = e /\ \A k \in 1 .. n : Append(list, e)[k] = list[k]
  BY <1>1
<1>3. PICK longer : longer = Append(list, e)
  OBVIOUS
<1>4. PICK S, T : S = Entries(list, y, q) /\ T = Entries(longer, y, q)
  OBVIOUS
<1>5. S \subseteq 1 .. n
  BY <1>2, <1>4 DEF Entries
<1>6. IsFiniteSet(S) /\ Cardinality(S) \in Nat
  <2>1. IsFiniteSet(1 .. n)
    <3>1. 1 \in Int /\ n \in Int
      OBVIOUS
    <3> QED
      BY <3>1, FS_Interval
  <2>2. IsFiniteSet(S)
    BY <1>5, <2>1, FS_Subset
  <2> QED
    BY <2>2, FS_CardinalityType
<1>7. CASE e.matched_with = y /\ e.prediction = q
  <2>1. T = S \cup {n + 1}
    BY <1>2, <1>3, <1>4, <1>7 DEF Entries
  <2>2. n + 1 \notin S
    BY <1>5
  <2>3. Cardinality(T) = Cardinality(S) + 1
    BY <1>6, <2>1, <2>2, FS_AddElement
  <2> QED
    BY <1>3, <1>4, <1>6, <1>7, <2>3
<1>8. CASE ~(e.matched_with = y /\ e.prediction = q)
  <2>1. T = S
    BY <1>2, <1>3, <1>4, <1>8 DEF Entries
  <2>2. Cardinality(T) = Cardinality(S) + 0
    BY <1>6, <2>1
  <2> QED
    BY <1>3, <1>4, <1>6, <1>8, <2>2
<1> QED
  BY <1>7, <1>8

\* What the lists of before, m, and of after, new, have to do with each other: the two
\* nodes have an entry more, each for the other, and nothing else changes.
NotesRow(m, new, l, r, p) ==
  /\ new \in ListsOf
  /\ new[l] # <<>> /\ new[r] # <<>>
  /\ \A x \in Nodes : m[x] # <<>> => new[x] # <<>>
  /\ \A x \in Nodes : \A k \in DOMAIN new[x] :
       \/ k \in DOMAIN m[x] /\ new[x][k] = m[x][k]
       \/ x = l /\ new[x][k] = [matched_with |-> r, prediction |-> p]
       \/ x = r /\ new[x][k] = [matched_with |-> l, prediction |-> p]
  /\ \A x, y \in Nodes : \A q \in Predictions :
       /\ Cardinality(Entries(m[x], y, q)) \in Nat
       /\ Cardinality(Entries(new[x], y, q))
            = Cardinality(Entries(m[x], y, q)) + IF q = p /\ {x, y} = {l, r} THEN 1 ELSE 0

\* Noting a row does that.
LEMMA NotedFacts ==
  ASSUME NEW m \in ListsOf, NEW l \in Nodes, NEW r \in Nodes, l # r, NEW p \in Predictions
  PROVE  NotesRow(m, Noted(m, l, r, p), l, r, p)
<1>1. PICK tol, tor : /\ tol = [matched_with |-> r, prediction |-> p]
                      /\ tor = [matched_with |-> l, prediction |-> p]
  OBVIOUS
<1>2. tol \in Entry /\ tor \in Entry
  BY <1>1 DEF Entry
<1>3. PICK n : n = Noted(m, l, r, p)
  OBVIOUS
<1>4. /\ n \in [Nodes -> Seq(Entry)]
      /\ n[l] = Append(m[l], tol) /\ n[r] = Append(m[r], tor)
      /\ \A x \in Nodes \ {l, r} : n[x] = m[x]
  <2>1. PICK ml, mr \in Seq(Entry) : ml = m[l] /\ mr = m[r]
    BY DEF ListsOf
  <2>a. \A list \in Seq(Entry), e \in Entry : Append(list, e) \in Seq(Entry)
    OBVIOUS
  <2>b. Append(ml, tol) \in Seq(Entry) /\ Append(mr, tor) \in Seq(Entry)
    BY <1>2, <2>a
  <2>2. PICK nl, nr \in Seq(Entry) : nl = Append(ml, tol) /\ nr = Append(mr, tor)
    BY <2>b
  <2>3. n = [[m EXCEPT ![l] = nl] EXCEPT ![r] = nr]
    BY <1>1, <1>3, <2>1, <2>2 DEF Noted, ListsOf
  <2>4. /\ n \in [Nodes -> Seq(Entry)] /\ n[l] = nl /\ n[r] = nr
        /\ \A x \in Nodes \ {l, r} : n[x] = m[x]
    BY <2>3 DEF ListsOf
  <2> QED
    BY <2>1, <2>2, <2>4
<1>5. \A x \in Nodes : m[x] \in Seq(Entry)
  BY DEF ListsOf
<1>6. \A list \in Seq(Entry), e \in Entry :
        /\ Append(list, e) # <<>>
        /\ \A k \in DOMAIN Append(list, e) :
             (k \in DOMAIN list /\ Append(list, e)[k] = list[k]) \/ Append(list, e)[k] = e
  <2> TAKE list \in Seq(Entry), e \in Entry
  <2>1. PICK k \in Nat : k = Len(list)
    OBVIOUS
  <2>2. /\ DOMAIN list = 1 .. k /\ DOMAIN Append(list, e) = 1 .. k + 1
        /\ Append(list, e)[k + 1] = e /\ \A j \in 1 .. k : Append(list, e)[j] = list[j]
        /\ Append(list, e) # <<>>
    BY <2>1
  <2>3. \A j \in 1 .. k + 1 : j \in 1 .. k \/ j = k + 1
    OBVIOUS
  <2> QED
    BY <2>2, <2>3
<1>7. n[l] # <<>> /\ n[r] # <<>> /\ \A x \in Nodes : m[x] # <<>> => n[x] # <<>>
  <2>1. n[l] # <<>> /\ n[r] # <<>>
    BY <1>2, <1>4, <1>5, <1>6
  <2>2. \A x \in Nodes : x = l \/ x = r \/ n[x] = m[x]
    BY <1>4
  <2> QED
    BY <2>1, <2>2
<1>8. ASSUME NEW x \in Nodes, NEW k \in DOMAIN n[x]
      PROVE  \/ k \in DOMAIN m[x] /\ n[x][k] = m[x][k]
             \/ x = l /\ n[x][k] = tol
             \/ x = r /\ n[x][k] = tor
  <2>1. CASE x = l
    BY <1>2, <1>4, <1>5, <1>6, <2>1
  <2>2. CASE x = r
    BY <1>2, <1>4, <1>5, <1>6, <2>2
  <2>3. CASE x \in Nodes \ {l, r}
    BY <1>4, <2>3
  <2> QED
    BY <2>1, <2>2, <2>3
<1>9. ASSUME NEW x \in Nodes, NEW y \in Nodes, NEW q \in Predictions
      PROVE  /\ Cardinality(Entries(m[x], y, q)) \in Nat
             /\ Cardinality(Entries(n[x], y, q))
                  = Cardinality(Entries(m[x], y, q)) + IF q = p /\ {x, y} = {l, r} THEN 1 ELSE 0
  <2>1. PICK c \in Nat : c = Cardinality(Entries(m[x], y, q))
    BY <1>2, <1>5, EntriesGrow
  <2>2. CASE x = l
    <3>1. Cardinality(Entries(n[x], y, q))
            = c + IF tol.matched_with = y /\ tol.prediction = q THEN 1 ELSE 0
      <4>1. PICK list \in Seq(Entry) : list = m[x]
        BY <1>5
      <4>2. Cardinality(Entries(Append(list, tol), y, q))
              = Cardinality(Entries(list, y, q))
                  + IF tol.matched_with = y /\ tol.prediction = q THEN 1 ELSE 0
        BY <1>2, EntriesGrow
      <4> QED
        BY <1>4, <2>1, <2>2, <4>1, <4>2
    <3>2. (tol.matched_with = y /\ tol.prediction = q) <=> (q = p /\ {x, y} = {l, r})
      BY <1>1, <2>2
    <3> QED
      BY <2>1, <3>1, <3>2
  <2>3. CASE x = r
    <3>1. Cardinality(Entries(n[x], y, q))
            = c + IF tor.matched_with = y /\ tor.prediction = q THEN 1 ELSE 0
      <4>1. PICK list \in Seq(Entry) : list = m[x]
        BY <1>5
      <4>2. Cardinality(Entries(Append(list, tor), y, q))
              = Cardinality(Entries(list, y, q))
                  + IF tor.matched_with = y /\ tor.prediction = q THEN 1 ELSE 0
        BY <1>2, EntriesGrow
      <4> QED
        BY <1>4, <2>1, <2>3, <4>1, <4>2
    <3>2. (tor.matched_with = y /\ tor.prediction = q) <=> (q = p /\ {x, y} = {l, r})
      BY <1>1, <2>3
    <3> QED
      BY <2>1, <3>1, <3>2
  <2>4. CASE x \in Nodes \ {l, r}
    <3>1. n[x] = m[x] /\ {x, y} # {l, r}
      BY <1>4, <2>4
    <3>2. c = c + 0
      OBVIOUS
    <3> QED
      BY <2>1, <3>1, <3>2
  <2> QED
    BY <2>2, <2>3, <2>4
<1>10. n \in ListsOf
  BY <1>4 DEF ListsOf
<1>11. \A x \in Nodes : \A k \in DOMAIN n[x] :
         \/ k \in DOMAIN m[x] /\ n[x][k] = m[x][k]
         \/ x = l /\ n[x][k] = [matched_with |-> r, prediction |-> p]
         \/ x = r /\ n[x][k] = [matched_with |-> l, prediction |-> p]
  BY <1>1, <1>8
<1>12. \A x, y \in Nodes : \A q \in Predictions :
         /\ Cardinality(Entries(m[x], y, q)) \in Nat
         /\ Cardinality(Entries(n[x], y, q))
              = Cardinality(Entries(m[x], y, q)) + IF q = p /\ {x, y} = {l, r} THEN 1 ELSE 0
  BY <1>9
<1>13. NotesRow(m, n, l, r, p)
  BY <1>7, <1>10, <1>11, <1>12 DEF NotesRow
<1> QED
  BY <1>3, <1>13

-----------------------------------------------------------------------------
(* A row *)

\* What is known of the row that is read.
LEMMA RowFacts ==
  ASSUME TypeOK, Forest(parent), at <= Len(file)
  PROVE  /\ left \in Nodes /\ right \in Nodes /\ left # right
         /\ predicted \in Predictions /\ at \in DOMAIN file
         /\ file[at] = <<left, right>> /\ <<left, right>> \in ToSet(file)
         /\ prediction[<<left, right>>] = predicted
         /\ root_a = Root(left) /\ root_b = Root(right)
<1>1. file \in Files /\ at \in 1 .. Len(file) + 1 /\ prediction \in [ToSet(file) -> Predictions]
  BY DEF TypeOK
<1>2. file \in Seq(Nodes \X Nodes) /\ \A k \in DOMAIN file : file[k][1] # file[k][2]
  BY <1>1, ConflictAssumption
<1>3. at \in DOMAIN file
  <2>1. PICK n \in Nat : n = Len(file) /\ DOMAIN file = 1 .. n
    BY <1>2
  <2>2. at \in 1 .. n
    BY <1>1, <2>1
  <2> QED
    BY <2>1, <2>2
<1>4. file[at] \in Nodes \X Nodes
  BY <1>2, <1>3
<1>5. /\ left \in Nodes /\ right \in Nodes /\ left # right
      /\ file[at] = <<left, right>>
  BY <1>2, <1>3, <1>4 DEF left, right
<1>6. file[at] \in ToSet(file)
  BY <1>3 DEF ToSet
<1>7. predicted \in Predictions /\ predicted = prediction[<<left, right>>]
  BY <1>1, <1>5, <1>6 DEF predicted
<1>8. root_a = Root(left) /\ root_b = Root(right)
  BY <1>5, FindRootBy DEF root_a, root_b, Root
<1> QED
  BY <1>3, <1>5, <1>6, <1>7, <1>8

\* matchlist_add notes the row.
LEMMA MatchlistAddNotes ==
  ASSUME TypeOK, MatchlistAdd, left \in Nodes, right \in Nodes, left # right
  PROVE  matches' = Noted(matches, left, right, predicted)
<1>1. PICK m \in [Nodes -> Seq([matched_with : Nodes, prediction : Predictions])] : m = matches
  BY DEF TypeOK
<1>2. PICK l, r, p : l = left /\ r = right /\ p = predicted
  OBVIOUS
<1>3. matches' = [[m EXCEPT ![l] = Append(@, [matched_with |-> r, prediction |-> p])]
                    EXCEPT ![r] = Append(@, [matched_with |-> l, prediction |-> p])]
  BY <1>1, <1>2 DEF MatchlistAdd, BothMatched
<1>4. Noted(m, l, r, p) = matches'
  BY <1>3 DEF Noted
<1> QED
  BY <1>1, <1>2, <1>4

\* Predictions can be compared.
LEMMA PredictionsAreNumbers == Predictions \subseteq Int /\ Threshold \in Int
BY ConflictAssumption

\* A row that is read as predicted to match is a row of two nodes.
LEMMA EdgesArePairs ==
  ASSUME TypeOK
  PROVE  \A e \in Edges : e \in Nodes \X Nodes
<1>1. file \in Seq(Nodes \X Nodes) /\ at \in 1 .. Len(file) + 1
  BY ConflictAssumption DEF TypeOK
<1>2. RowsRead \subseteq DOMAIN file
  <2>1. PICK n \in Nat : n = Len(file) /\ DOMAIN file = 1 .. n
    BY <1>1
  <2>2. PICK k \in 1 .. n + 1 : k = at
    BY <1>1, <2>1
  <2>3. 1 .. k - 1 \subseteq 1 .. n
    OBVIOUS
  <2> QED
    BY <2>1, <2>2, <2>3 DEF RowsRead
<1>3. \A k \in DOMAIN file : file[k] \in Nodes \X Nodes
  BY <1>1
<1> QED
  BY <1>2, <1>3 DEF Edges

\* Noting a row keeps the lists even.
LEMMA NotedEven ==
  ASSUME NEW m \in ListsOf, NEW new, NEW l \in Nodes, NEW r \in Nodes, NEW p \in Predictions,
         NotesRow(m, new, l, r, p),
         \A x, y \in Nodes : \A q \in Predictions :
           Cardinality(Entries(m[x], y, q)) = Cardinality(Entries(m[y], x, q))
  PROVE  \A x, y \in Nodes : \A q \in Predictions :
           Cardinality(Entries(new[x], y, q)) = Cardinality(Entries(new[y], x, q))
<1>1. \A x, y \in Nodes : \A q \in Predictions :
        Cardinality(Entries(new[x], y, q))
          = Cardinality(Entries(m[x], y, q)) + IF q = p /\ {x, y} = {l, r} THEN 1 ELSE 0
  BY DEF NotesRow
<1>2. ASSUME NEW x \in Nodes, NEW y \in Nodes, NEW q \in Predictions
      PROVE  Cardinality(Entries(new[x], y, q)) = Cardinality(Entries(new[y], x, q))
  <2>1. {x, y} = {y, x}
    OBVIOUS
  <2> QED
    BY <1>1, <2>1
<1> QED
  BY <1>2

-----------------------------------------------------------------------------
(* The first pass *)

\* A row predicted to match joins the cliques of its two nodes and is noted in their lists.
LEMMA PositiveStep ==
  ASSUME IInv, PositiveRow
  PROVE  IInv'
<1>1. /\ TypeOK /\ PlacesOK /\ TreesOK /\ Connected /\ NegativesOK /\ MatchesOK /\ ListsEven
      /\ FoundOK
  BY DEF IInv
<1>2. Forest(parent) /\ amount = AmountsBy(parent)
  BY <1>1 DEF TreesOK
<1>3. /\ pass = "positive" /\ at <= Len(file) /\ at' = at + 1
      /\ max_prediction' = IF predicted > max_prediction THEN predicted ELSE max_prediction
      /\ ngl' = ngl /\ file' = file /\ prediction' = prediction /\ pass' = pass /\ i' = i
      /\ found' = found /\ stderr' = stderr
  BY DEF PositiveRow, Read
<1>4. PICK l, r \in Nodes : l = left /\ r = right
  BY <1>1, <1>2, <1>3, RowFacts
<1>5. PICK p \in Predictions : p = predicted
  BY <1>1, <1>2, <1>3, RowFacts
<1>6. /\ l # r /\ at \in DOMAIN file /\ file[at] = <<l, r>> /\ <<l, r>> \in ToSet(file)
      /\ prediction[<<l, r>>] = p /\ root_a = Root(l) /\ root_b = Root(r)
  BY <1>1, <1>2, <1>3, <1>4, <1>5, RowFacts
<1>7. /\ Root(l) \in Nodes /\ Root(r) \in Nodes
      /\ RootBy(parent, Root(l)) = Root(l) /\ RootBy(parent, Root(r)) = Root(r)
  BY <1>2, RootByFacts DEF Root
<1>8. PICK n \in Nat \ {0} : n = at /\ RowsRead = 1 .. n - 1 /\ RowsRead' = 1 .. n
  <2>a. file \in Seq(Nodes \X Nodes) /\ at \in 1 .. Len(file) + 1
    BY <1>1, ConflictAssumption DEF TypeOK
  <2>b. at \in Nat \ {0}
    BY <2>a
  <2>1. PICK n \in Nat \ {0} : n = at
    BY <2>b
  <2>2. at' - 1 = n
    BY <1>3, <2>1
  <2> QED
    BY <1>3, <2>1, <2>2 DEF RowsRead
<1>9. Edges' = Edges \cup IF p >= Threshold THEN {<<l, r>>} ELSE {}
  <2>1. 1 .. n = (1 .. n - 1) \cup {n}
    OBVIOUS
  <2>2. Edges' = {file[k] : k \in {j \in (1 .. n - 1) \cup {n} : prediction[file[j]] >= Threshold}}
    BY <1>3, <1>8, <2>1 DEF Edges
  <2>3. Edges = {file[k] : k \in {j \in 1 .. n - 1 : prediction[file[j]] >= Threshold}}
    BY <1>8 DEF Edges
  <2>4. file[n] = <<l, r>> /\ prediction[file[n]] = p
    BY <1>6, <1>8
  <2> QED
    BY <2>2, <2>3, <2>4
<1>10. \/ p >= Threshold /\ JoinSets(root_a, root_b) /\ MatchlistAdd
       \/ ~(p >= Threshold) /\ setVars' = setVars /\ matches' = matches
  BY <1>5 DEF PositiveRow
<1>11. /\ max_prediction' \in Predictions \cup {0} /\ at' \in 1 .. Len(file) + 1
       /\ file \in Files /\ prediction \in [ToSet(file) -> Predictions]
       /\ ngl \in [Nodes -> Seq([neg_clique : Nodes, printed : {0, 1}])]
       /\ pass \in Passes /\ i \in 0 .. MaxIterations
       /\ found \in Seq([kind : {1, 2}, matched : Predictions \X Predictions,
                    towards : {0, 1}, pair : Nodes \X Nodes])
       /\ stderr \subseteq {"???", "the representatives"}
  <2>1. at \in 1 .. Len(file) + 1 /\ Len(file) \in Nat
    <3>1. file \in Seq(Nodes \X Nodes)
      BY <1>1, ConflictAssumption DEF TypeOK
    <3>2. at \in 1 .. Len(file) + 1
      BY <1>1 DEF TypeOK
    <3> QED
      BY <3>1, <3>2
  <2>2. at' \in 1 .. Len(file) + 1
    BY <1>3, <2>1
  <2>3. max_prediction' \in Predictions \cup {0}
    BY <1>1, <1>3, <1>5 DEF TypeOK
  <2> QED
    BY <1>1, <2>2, <2>3 DEF TypeOK, CliquesTypeOK
<1>12. PlacesOK'
  BY <1>1, <1>3 DEF PlacesOK
<1>13. NegativesOK'
  BY <1>1, <1>3 DEF NegativesOK
<1>14. FoundOK'
  <2>1. found = <<>> /\ stderr = {}
    BY <1>1, <1>3 DEF FoundOK
  <2> QED
    BY <1>3, <2>1 DEF FoundOK
<1>15. CASE ~(p >= Threshold)
  <2>1. parent' = parent /\ next_in_clique' = next_in_clique /\ amount' = amount
        /\ cliques' = cliques /\ matches' = matches
    BY <1>10, <1>15 DEF setVars
  <2>2. Edges' = Edges
    BY <1>9, <1>15
  <2>3. TypeOK'
    BY <1>1, <1>3, <1>11, <2>1 DEF TypeOK, CliquesTypeOK
  <2>4. TreesOK'
    BY <1>1, <2>1 DEF TreesOK
  <2>5. Connected'
    BY <1>1, <2>1, <2>2 DEF Connected, Root
  <2>6. MatchesOK'
    BY <1>1, <1>3, <2>1 DEF MatchesOK, EntryOK, Rows, Root
  <2>7. ListsEven'
    BY <1>1, <2>1 DEF ListsEven
  <2> QED
    BY <1>12, <1>13, <1>14, <2>3, <2>4, <2>5, <2>6, <2>7 DEF IInv
<1>16. CASE p >= Threshold
  <2>1. JoinSets(Root(l), Root(r))
    BY <1>6, <1>10, <1>16
  <2>2. Forest(parent') /\ amount' = AmountsBy(parent')
    BY <1>2, <1>7, <2>1, JoinMerges, JoinAmounts
  <2>3. \A x, y \in Nodes :
          RootBy(parent', x) = RootBy(parent', y) <=>
            \/ RootBy(parent, x) = RootBy(parent, y)
            \/ {RootBy(parent, x), RootBy(parent, y)}
                 \subseteq {RootBy(parent, l), RootBy(parent, r)}
    <3>1. PICK a, b \in Nodes : a = Root(l) /\ b = Root(r)
      BY <1>7
    <3>2. JoinSets(a, b)
      BY <2>1, <3>1
    <3>3. RootBy(parent, a) = Root(l) /\ RootBy(parent, b) = Root(r)
      BY <1>7, <3>1
    <3>4. \A x, y \in Nodes :
            RootBy(parent', x) = RootBy(parent', y) <=>
              \/ RootBy(parent, x) = RootBy(parent, y)
              \/ {RootBy(parent, x), RootBy(parent, y)}
                   \subseteq {RootBy(parent, a), RootBy(parent, b)}
      BY <1>2, <3>2, JoinMerges
    <3> QED
      BY <3>3, <3>4 DEF Root
  <2>4. PICK m \in ListsOf : m = matches
    BY <1>1 DEF TypeOK, ListsOf, Entry
  <2>5. PICK new : new = Noted(m, l, r, p)
    OBVIOUS
  <2>6. matches' = new
    <3>1. matches' = Noted(matches, left, right, predicted)
      BY <1>1, <1>4, <1>6, <1>10, <1>16, MatchlistAddNotes
    <3> QED
      BY <1>4, <1>5, <2>4, <2>5, <3>1
  <2>a. NotesRow(m, new, l, r, p)
    BY <1>6, <2>5, NotedFacts
  <2>7. /\ new \in ListsOf
        /\ new[l] # <<>> /\ new[r] # <<>>
        /\ \A x \in Nodes : m[x] # <<>> => new[x] # <<>>
        /\ \A x \in Nodes : \A k \in DOMAIN new[x] :
             \/ k \in DOMAIN m[x] /\ new[x][k] = m[x][k]
             \/ x = l /\ new[x][k] = [matched_with |-> r, prediction |-> p]
             \/ x = r /\ new[x][k] = [matched_with |-> l, prediction |-> p]
    BY <2>a DEF NotesRow
  <2>8. TypeOK'
    <3>1. next_in_clique' \in [Nodes -> Nodes \cup {NoNode}] /\ cliques' \in Seq(Nodes)
      BY <1>1, <1>2, <1>7, <2>1, JoinTyped DEF TypeOK, CliquesTypeOK
    <3>2. amount' \in [Nodes -> {-1} \cup 1 .. Cardinality(Nodes)]
      BY <2>2, AmountsTyped
    <3>3. parent' \in [Nodes -> Nodes \cup {NoNode}]
      BY <2>2 DEF Forest
    <3>4. matches' \in [Nodes -> Seq([matched_with : Nodes, prediction : Predictions])]
      BY <2>6, <2>7 DEF ListsOf, Entry
    <3> QED
      BY <1>3, <1>11, <3>1, <3>2, <3>3, <3>4 DEF TypeOK, CliquesTypeOK
  <2>9. TreesOK'
    BY <2>2 DEF TreesOK
  <2>10. Connected'
    <3>1. Edges' = Edges \cup {<<l, r>>}
      BY <1>9, <1>16
    <3>2. ASSUME NEW e \in Edges'
          PROVE  RootBy(parent', e[1]) = RootBy(parent', e[2])
      <4>1. CASE e = <<l, r>>
        BY <2>3, <4>1
      <4>2. CASE e \in Edges
        <5>1. RootBy(parent, e[1]) = RootBy(parent, e[2])
          BY <1>1, <4>2 DEF Connected, Root
        <5>2. e[1] \in Nodes /\ e[2] \in Nodes
          <6>1. e \in Nodes \X Nodes
            BY <1>1, <4>2, EdgesArePairs
          <6> QED
            BY <6>1
        <5> QED
          BY <2>3, <5>1, <5>2
      <4> QED
        BY <3>1, <4>1, <4>2
    <3>3. ASSUME NEW S \in SUBSET Nodes, Closed(S, Edges'), NEW x \in S, NEW y \in Nodes,
                 RootBy(parent', x) = RootBy(parent', y)
          PROVE  y \in S
      <4>1. Closed(S, Edges) /\ (l \in S <=> r \in S)
        <5>1. \A e \in Edges \cup {<<l, r>>} : e[1] \in S <=> e[2] \in S
          BY <3>1, <3>3 DEF Closed
        <5>2. <<l, r>>[1] \in S <=> <<l, r>>[2] \in S
          BY <5>1
        <5> QED
          BY <5>1, <5>2 DEF Closed
      <4>2. \A a, b \in Nodes : RootBy(parent, a) = RootBy(parent, b) /\ a \in S => b \in S
        BY <1>1, <4>1 DEF Connected, Root
      <4>3. \/ RootBy(parent, x) = RootBy(parent, y)
            \/ {RootBy(parent, x), RootBy(parent, y)}
                 \subseteq {RootBy(parent, l), RootBy(parent, r)}
        BY <2>3, <3>3
      <4> QED
        BY <4>1, <4>2, <4>3
    <3> QED
      BY <3>2, <3>3 DEF Connected, Root
  <2>11. MatchesOK'
    <3>1. \A x, y \in Nodes : x # y /\ RootBy(parent', x) = RootBy(parent', y) => new[x] # <<>>
      <4> TAKE x, y \in Nodes
      <4> HAVE x # y /\ RootBy(parent', x) = RootBy(parent', y)
      <4>1. \A a, b \in Nodes : a # b /\ RootBy(parent, a) = RootBy(parent, b) => m[a] # <<>>
        BY <1>1, <2>4 DEF MatchesOK, Root
      <4>2. \/ RootBy(parent, x) = RootBy(parent, y)
            \/ RootBy(parent, x) = RootBy(parent, l)
            \/ RootBy(parent, x) = RootBy(parent, r)
        BY <2>3
      <4>3. CASE x = l \/ x = r
        BY <2>7, <4>3
      <4>4. CASE x # l /\ x # r
        BY <2>7, <4>1, <4>2, <4>4
      <4> QED
        BY <4>3, <4>4
    <3>2. ASSUME NEW x \in Nodes, NEW k \in DOMAIN new[x]
          PROVE  /\ new[x][k].prediction >= Threshold
                 /\ RootBy(parent', x) = RootBy(parent', new[x][k].matched_with)
                 /\ \E row \in Rows(x, new[x][k].matched_with) :
                      prediction[row] = new[x][k].prediction
      <4>1. CASE k \in DOMAIN m[x] /\ new[x][k] = m[x][k]
        <5>1. PICK e \in Entry : e = m[x][k]
          BY <2>4, <4>1 DEF ListsOf
        <5>2. EntryOK(x, e) /\ e.prediction >= Threshold
          BY <1>1, <1>3, <2>4, <4>1, <5>1 DEF MatchesOK
        <5>3. RootBy(parent, x) = RootBy(parent, e.matched_with) /\ e.matched_with \in Nodes
          BY <5>1, <5>2 DEF EntryOK, Root, Entry
        <5>4. RootBy(parent', x) = RootBy(parent', e.matched_with)
          BY <2>3, <5>3
        <5>5. \E row \in Rows(x, e.matched_with) : prediction[row] = e.prediction
          BY <5>2 DEF EntryOK
        <5> QED
          BY <4>1, <5>1, <5>2, <5>4, <5>5
      <4>2. RootBy(parent', l) = RootBy(parent', r)
        BY <2>3
      <4>3. <<l, r>> \in Rows(l, r) /\ <<l, r>> \in Rows(r, l)
        BY <1>6 DEF Rows
      <4>4. CASE x = l /\ new[x][k] = [matched_with |-> r, prediction |-> p]
        BY <1>6, <1>16, <4>2, <4>3, <4>4
      <4>5. CASE x = r /\ new[x][k] = [matched_with |-> l, prediction |-> p]
        BY <1>6, <1>16, <4>2, <4>3, <4>5
      <4> QED
        BY <2>7, <4>1, <4>4, <4>5
    <3> QED
      BY <1>3, <2>6, <3>1, <3>2 DEF MatchesOK, EntryOK, Rows, Root
  <2>12. ListsEven'
    <3>1. \A x, y \in Nodes : \A q \in Predictions :
            Cardinality(Entries(m[x], y, q)) = Cardinality(Entries(m[y], x, q))
      BY <1>1, <2>4 DEF ListsEven
    <3>2. \A x, y \in Nodes : \A q \in Predictions :
            Cardinality(Entries(new[x], y, q)) = Cardinality(Entries(new[y], x, q))
      BY <2>a, <3>1, NotedEven
    <3> QED
      BY <2>6, <3>2 DEF ListsEven
  <2> QED
    BY <1>12, <1>13, <1>14, <2>8, <2>9, <2>10, <2>11, <2>12 DEF IInv
<1> QED
  BY <1>15, <1>16

-----------------------------------------------------------------------------
(* The second pass *)

\* What is told apart is told to both, and never to itself.
LEMMA NeglistTold ==
  ASSUME NEW a \in Nodes, NEW b \in Nodes, a # b, NeglistAdd(a, b),
         ngl \in [Nodes -> Seq([neg_clique : Nodes, printed : {0, 1}])],
         \A x \in Nodes : \A k \in DOMAIN ngl[x] : ngl[x][k].neg_clique # x
  PROVE  /\ ngl' \in [Nodes -> Seq([neg_clique : Nodes, printed : {0, 1}])]
         /\ \A x \in Nodes : \A k \in DOMAIN ngl'[x] : ngl'[x][k].neg_clique # x
<1>1. PICK n : n = ngl
  OBVIOUS
<1>2. PICK ta, tb \in [neg_clique : Nodes, printed : {0, 1}] :
        /\ ta = NegNode(a) /\ tb = NegNode(b) /\ ta.neg_clique = a /\ tb.neg_clique = b
  <2>1. \A x \in Nodes : /\ NegNode(x) \in [neg_clique : Nodes, printed : {0, 1}]
                         /\ NegNode(x).neg_clique = x
    BY DEF NegNode
  <2> QED
    BY <2>1
<1>3. CASE InNeglist(a, b)
  BY <1>3 DEF NeglistAdd
<1>4. CASE ~InNeglist(a, b)
  <2>1. ngl' = [[n EXCEPT ![a] = Append(@, tb)] EXCEPT ![b] = Append(@, ta)]
    BY <1>1, <1>2, <1>4 DEF NeglistAdd, BothSides
  <2>2. PICK na, nb \in Seq([neg_clique : Nodes, printed : {0, 1}]) : na = n[a] /\ nb = n[b]
    BY <1>1
  <2>3. /\ Append(na, tb) \in Seq([neg_clique : Nodes, printed : {0, 1}])
        /\ Append(nb, ta) \in Seq([neg_clique : Nodes, printed : {0, 1}])
    <3>1. \A list \in Seq([neg_clique : Nodes, printed : {0, 1}]),
             e \in [neg_clique : Nodes, printed : {0, 1}] :
            Append(list, e) \in Seq([neg_clique : Nodes, printed : {0, 1}])
      OBVIOUS
    <3> QED
      BY <1>2, <2>2, <3>1
  <2>4. PICK la, lb \in Seq([neg_clique : Nodes, printed : {0, 1}]) :
          la = Append(na, tb) /\ lb = Append(nb, ta)
    BY <2>3
  <2>5. ngl' = [[n EXCEPT ![a] = la] EXCEPT ![b] = lb]
    BY <1>1, <2>1, <2>2, <2>4
  <2>6. /\ ngl' \in [Nodes -> Seq([neg_clique : Nodes, printed : {0, 1}])]
        /\ ngl'[a] = la /\ ngl'[b] = lb /\ \A x \in Nodes \ {a, b} : ngl'[x] = n[x]
    BY <1>1, <2>5
  <2>7. \A list \in Seq([neg_clique : Nodes, printed : {0, 1}]),
           e \in [neg_clique : Nodes, printed : {0, 1}] :
          \A k \in DOMAIN Append(list, e) :
            (k \in DOMAIN list /\ Append(list, e)[k] = list[k]) \/ Append(list, e)[k] = e
    <3> TAKE list \in Seq([neg_clique : Nodes, printed : {0, 1}]),
             e \in [neg_clique : Nodes, printed : {0, 1}]
    <3>1. PICK k \in Nat : k = Len(list)
      OBVIOUS
    <3>2. /\ DOMAIN list = 1 .. k /\ DOMAIN Append(list, e) = 1 .. k + 1
          /\ Append(list, e)[k + 1] = e /\ \A j \in 1 .. k : Append(list, e)[j] = list[j]
      BY <3>1
    <3>3. \A j \in 1 .. k + 1 : j \in 1 .. k \/ j = k + 1
      OBVIOUS
    <3> QED
      BY <3>2, <3>3
  <2>8. ASSUME NEW x \in Nodes, NEW k \in DOMAIN ngl'[x]
        PROVE  ngl'[x][k].neg_clique # x
    <3>1. CASE x = a
      <4>1. k \in DOMAIN Append(na, tb) /\ ngl'[x][k] = Append(na, tb)[k]
        BY <2>4, <2>6, <2>8, <3>1
      <4>2. (k \in DOMAIN na /\ ngl'[x][k] = na[k]) \/ ngl'[x][k] = tb
        BY <1>2, <2>2, <2>7, <4>1
      <4> QED
        BY <1>1, <1>2, <2>2, <3>1, <4>2
    <3>2. CASE x = b
      <4>1. k \in DOMAIN Append(nb, ta) /\ ngl'[x][k] = Append(nb, ta)[k]
        BY <2>4, <2>6, <2>8, <3>2
      <4>2. (k \in DOMAIN nb /\ ngl'[x][k] = nb[k]) \/ ngl'[x][k] = ta
        BY <1>2, <2>2, <2>7, <4>1
      <4> QED
        BY <1>1, <1>2, <2>2, <3>2, <4>2
    <3>3. CASE x \in Nodes \ {a, b}
      BY <1>1, <2>6, <2>8, <3>3
    <3> QED
      BY <3>1, <3>2, <3>3
  <2> QED
    BY <2>6, <2>8
<1> QED
  BY <1>3, <1>4

\* A row predicted not to match, of nodes of two cliques, tells their roots apart and is
\* noted in the lists of its nodes; any other row is passed over.
LEMMA NegativeStep ==
  ASSUME IInv, NegativeRow
  PROVE  IInv'
<1>1. /\ TypeOK /\ PlacesOK /\ TreesOK /\ Connected /\ NegativesOK /\ MatchesOK /\ ListsEven
      /\ FoundOK
  BY DEF IInv
<1>2. Forest(parent)
  BY <1>1 DEF TreesOK
<1>3. /\ pass = "negative" /\ at <= Len(file) /\ at' = at + 1
      /\ setVars' = setVars /\ file' = file /\ prediction' = prediction
      /\ max_prediction' = max_prediction /\ pass' = pass /\ i' = i
      /\ found' = found /\ stderr' = stderr
  BY DEF NegativeRow, Read
<1>a. parent' = parent /\ next_in_clique' = next_in_clique /\ amount' = amount
      /\ cliques' = cliques
  BY <1>3 DEF setVars
<1>4. PICK l, r \in Nodes : l = left /\ r = right
  BY <1>1, <1>2, <1>3, RowFacts
<1>5. PICK p \in Predictions : p = predicted
  BY <1>1, <1>2, <1>3, RowFacts
<1>6. /\ l # r /\ <<l, r>> \in ToSet(file)
      /\ prediction[<<l, r>>] = p /\ root_a = Root(l) /\ root_b = Root(r)
  BY <1>1, <1>2, <1>3, <1>4, <1>5, RowFacts
<1>7. PICK a, b \in Nodes : a = Root(l) /\ b = Root(r)
  BY <1>2, RootByFacts DEF Root
<1>8. \/ p < Threshold /\ a # b /\ NeglistAdd(a, b) /\ MatchlistAdd
      \/ ngl' = ngl /\ matches' = matches
  BY <1>5, <1>6, <1>7 DEF NegativeRow, AcrossCliques
<1>9. RowsRead' = RowsRead /\ Edges' = Edges
  <2>1. RowsRead' = RowsRead
    BY <1>3 DEF RowsRead
  <2> QED
    BY <1>3, <2>1 DEF Edges
<1>10. at' \in 1 .. Len(file) + 1
  <2>1. file \in Seq(Nodes \X Nodes)
    BY <1>1, ConflictAssumption DEF TypeOK
  <2>2. at \in 1 .. Len(file) + 1
    BY <1>1 DEF TypeOK
  <2> QED
    BY <1>3, <2>1, <2>2
<1>11. PlacesOK'
  BY <1>1, <1>3 DEF PlacesOK
<1>12. FoundOK'
  <2>1. found = <<>> /\ stderr = {}
    BY <1>1, <1>3 DEF FoundOK
  <2> QED
    BY <1>3, <2>1 DEF FoundOK
<1>13. TreesOK'
  BY <1>1, <1>a DEF TreesOK
<1>14. Connected'
  BY <1>1, <1>a, <1>9 DEF Connected, Root
<1>15. CASE ngl' = ngl /\ matches' = matches
  <2>1. TypeOK'
    BY <1>1, <1>3, <1>a, <1>10, <1>15 DEF TypeOK, CliquesTypeOK
  <2>2. NegativesOK'
    BY <1>1, <1>3, <1>15 DEF NegativesOK
  <2>3. MatchesOK'
    BY <1>1, <1>3, <1>a, <1>15 DEF MatchesOK, EntryOK, Rows, Root
  <2>4. ListsEven'
    BY <1>1, <1>15 DEF ListsEven
  <2> QED
    BY <1>11, <1>12, <1>13, <1>14, <2>1, <2>2, <2>3, <2>4 DEF IInv
<1>16. CASE p < Threshold /\ a # b /\ NeglistAdd(a, b) /\ MatchlistAdd
  <2>1. /\ ngl' \in [Nodes -> Seq([neg_clique : Nodes, printed : {0, 1}])]
        /\ \A x \in Nodes : \A k \in DOMAIN ngl'[x] : ngl'[x][k].neg_clique # x
    <3>1. /\ ngl \in [Nodes -> Seq([neg_clique : Nodes, printed : {0, 1}])]
          /\ \A x \in Nodes : \A k \in DOMAIN ngl[x] : ngl[x][k].neg_clique # x
      BY <1>1 DEF TypeOK, CliquesTypeOK, NegativesOK
    <3> QED
      BY <1>16, <3>1, NeglistTold
  <2>2. PICK m \in ListsOf : m = matches
    BY <1>1 DEF TypeOK, ListsOf, Entry
  <2>3. PICK new : new = Noted(m, l, r, p)
    OBVIOUS
  <2>4. matches' = new
    <3>1. matches' = Noted(matches, left, right, predicted)
      BY <1>1, <1>4, <1>6, <1>16, MatchlistAddNotes
    <3> QED
      BY <1>4, <1>5, <2>2, <2>3, <3>1
  <2>5. NotesRow(m, new, l, r, p)
    BY <1>6, <2>3, NotedFacts
  <2>6. /\ new \in ListsOf
        /\ \A x \in Nodes : m[x] # <<>> => new[x] # <<>>
        /\ \A x \in Nodes : \A k \in DOMAIN new[x] :
             \/ k \in DOMAIN m[x] /\ new[x][k] = m[x][k]
             \/ x = l /\ new[x][k] = [matched_with |-> r, prediction |-> p]
             \/ x = r /\ new[x][k] = [matched_with |-> l, prediction |-> p]
    BY <2>5 DEF NotesRow
  <2>7. TypeOK'
    <3>1. matches' \in [Nodes -> Seq([matched_with : Nodes, prediction : Predictions])]
      BY <2>4, <2>6 DEF ListsOf, Entry
    <3> QED
      BY <1>1, <1>3, <1>a, <1>10, <2>1, <3>1 DEF TypeOK, CliquesTypeOK
  <2>8. NegativesOK'
    BY <1>3, <2>1 DEF NegativesOK
  <2>9. MatchesOK'
    <3>1. \A x, y \in Nodes : x # y /\ Root(x) = Root(y) => new[x] # <<>>
      BY <1>1, <2>2, <2>6 DEF MatchesOK
    <3>2. ASSUME NEW x \in Nodes, NEW k \in DOMAIN new[x]
          PROVE  EntryOK(x, new[x][k])
      <4>1. CASE k \in DOMAIN m[x] /\ new[x][k] = m[x][k]
        BY <1>1, <2>2, <4>1 DEF MatchesOK
      <4>2. ~(p >= Threshold)
        BY <1>16, PredictionsAreNumbers
      <4>3. <<l, r>> \in Rows(l, r) /\ <<l, r>> \in Rows(r, l)
        BY <1>6 DEF Rows
      <4>4. Root(l) # Root(r)
        BY <1>7, <1>16
      <4>5. CASE x = l /\ new[x][k] = [matched_with |-> r, prediction |-> p]
        BY <1>6, <4>2, <4>3, <4>4, <4>5 DEF EntryOK
      <4>6. CASE x = r /\ new[x][k] = [matched_with |-> l, prediction |-> p]
        BY <1>6, <4>2, <4>3, <4>4, <4>6 DEF EntryOK
      <4> QED
        BY <2>6, <4>1, <4>5, <4>6
    <3> QED
      BY <1>3, <1>a, <2>4, <3>1, <3>2 DEF MatchesOK, EntryOK, Rows, Root
  <2>10. ListsEven'
    <3>1. \A x, y \in Nodes : \A q \in Predictions :
            Cardinality(Entries(m[x], y, q)) = Cardinality(Entries(m[y], x, q))
      BY <1>1, <2>2 DEF ListsEven
    <3>2. \A x, y \in Nodes : \A q \in Predictions :
            Cardinality(Entries(new[x], y, q)) = Cardinality(Entries(new[y], x, q))
      BY <2>5, <3>1, NotedEven
    <3> QED
      BY <2>4, <3>2 DEF ListsEven
  <2> QED
    BY <1>11, <1>12, <1>13, <1>14, <2>7, <2>8, <2>9, <2>10 DEF IInv
<1> QED
  BY <1>8, <1>15, <1>16

-----------------------------------------------------------------------------
(* The third pass *)

\* The pair the nested loops come to first.
LEMMA FirstPair ==
  ASSUME NEW C \in SUBSET (Nat \X Nat), C # {}
  PROVE  \E kl \in C : \A mn \in C : kl[1] < mn[1] \/ (kl[1] = mn[1] /\ kl[2] <= mn[2])
<1>1. PICK S \in SUBSET Nat : S = {c[1] : c \in C}
  <2>1. {c[1] : c \in C} \subseteq Nat
    OBVIOUS
  <2> QED
    BY <2>1
<1>2. S # {}
  BY <1>1
<1>3. PICK k \in S : \A n \in S : k <= n
  BY <1>2, Least
<1>4. PICK c \in C : c[1] = k
  BY <1>1
<1>5. PICK T \in SUBSET Nat : T = {n \in Nat : <<k, n>> \in C}
  OBVIOUS
<1>6. c[2] \in T
  <2>1. c[2] \in Nat /\ c = <<k, c[2]>>
    BY <1>4
  <2> QED
    BY <1>5, <2>1
<1>7. PICK l \in T : \A n \in T : l <= n
  BY <1>6, Least
<1>8. <<k, l>> \in C
  BY <1>5
<1>9. ASSUME NEW mn \in C
      PROVE  k < mn[1] \/ (k = mn[1] /\ l <= mn[2])
  <2>1. k <= mn[1] /\ k \in Nat /\ mn[1] \in Nat /\ mn[2] \in Nat
    BY <1>1, <1>3
  <2>2. mn[1] = k => mn[2] \in T
    <3>1. mn = <<mn[1], mn[2]>>
      OBVIOUS
    <3> QED
      BY <1>5, <2>1, <3>1
  <2> QED
    BY <1>7, <2>1, <2>2
<1> QED
  BY <1>8, <1>9

\* The two matches found are of the two nodes with a third one.
LEMMA FirstCommonFacts ==
  ASSUME TypeOK, left \in Nodes, right \in Nodes, CommonMatches # {}
  PROVE  \E m1, m2 \in Entry :
           /\ \E k \in DOMAIN matches[left] : m1 = matches[left][k]
           /\ \E k \in DOMAIN matches[right] : m2 = matches[right][k]
           /\ m1 = matches[left][FirstCommon[1]] /\ m2 = matches[right][FirstCommon[2]]
           /\ m1.matched_with = m2.matched_with
           /\ m1.prediction >= Threshold /\ m2.prediction >= Threshold
<1>1. PICK ml, mr \in Seq(Entry) : ml = matches[left] /\ mr = matches[right]
  BY DEF TypeOK, Entry
<1>2. /\ CommonMatches \in SUBSET (Nat \X Nat)
      /\ CommonMatches \subseteq (DOMAIN ml) \X (DOMAIN mr)
  <2>1. CommonMatches \subseteq (DOMAIN ml) \X (DOMAIN mr)
    BY <1>1 DEF CommonMatches
  <2>2. DOMAIN ml \subseteq Nat /\ DOMAIN mr \subseteq Nat
    OBVIOUS
  <2> QED
    BY <2>1, <2>2
<1>3. FirstCommon \in CommonMatches
  <2>1. \E kl \in CommonMatches :
          \A mn \in CommonMatches : kl[1] < mn[1] \/ (kl[1] = mn[1] /\ kl[2] <= mn[2])
    BY <1>2, FirstPair
  <2> QED
    BY <2>1 DEF FirstCommon
<1>4. PICK k, n : k = FirstCommon[1] /\ n = FirstCommon[2]
  OBVIOUS
<1>5. k \in DOMAIN ml /\ n \in DOMAIN mr
  BY <1>2, <1>3, <1>4
<1>6. /\ ml[k].matched_with = mr[n].matched_with
      /\ ml[k].prediction >= Threshold /\ mr[n].prediction >= Threshold
  BY <1>1, <1>3, <1>4 DEF CommonMatches
<1>7. ml[k] \in Entry /\ mr[n] \in Entry
  BY <1>5
<1> QED
  BY <1>1, <1>4, <1>5, <1>6, <1>7

Correction == [kind : {1, 2}, matched : Predictions \X Predictions,
               towards : {0, 1}, pair : Nodes \X Nodes]

\* The correction made for a row is one of what was predicted.
LEMMA TypeOneOK ==
  ASSUME TypeOK, MatchesOK, Forest(parent), at <= Len(file), CommonMatches # {},
         predicted < Threshold
  PROVE  TypeOneCorrection \in Correction /\ CorrectionOK(TypeOneCorrection)
<1>1. PICK l, r \in Nodes : l = left /\ r = right
  BY RowFacts
<1>2. PICK p \in Predictions : p = predicted
  BY RowFacts
<1>3. <<l, r>> \in ToSet(file) /\ prediction[<<l, r>>] = p
  BY <1>1, <1>2, RowFacts
<1>4. PICK m1, m2 \in Entry :
        /\ \E k \in DOMAIN matches[l] : m1 = matches[l][k]
        /\ \E k \in DOMAIN matches[r] : m2 = matches[r][k]
        /\ m1 = matches[left][FirstCommon[1]] /\ m2 = matches[right][FirstCommon[2]]
        /\ m1.matched_with = m2.matched_with
        /\ m1.prediction >= Threshold /\ m2.prediction >= Threshold
  BY <1>1, FirstCommonFacts
<1>5. PICK w \in Nodes : w = m1.matched_with /\ w = m2.matched_with
  BY <1>4 DEF Entry
<1>6. PICK q1, q2 \in Predictions : q1 = m1.prediction /\ q2 = m2.prediction
  BY DEF Entry
<1>7. EntryOK(l, m1) /\ EntryOK(r, m2)
  BY <1>4 DEF MatchesOK
<1>8. /\ \E row \in Rows(l, w) : prediction[row] >= Threshold
      /\ \E row \in Rows(r, w) : prediction[row] >= Threshold
  BY <1>4, <1>5, <1>7 DEF EntryOK
<1>9. Rows(r, w) = Rows(w, r)
  BY DEF Rows
<1>10. PICK breaks \in BOOLEAN : breaks <=> (max_prediction - predicted) * Scale > q1 * q2
  OBVIOUS
<1>11. PICK c : c = TypeOneCorrection
  OBVIOUS
<1>12. c = [kind |-> 1, matched |-> <<q1, q2>>,
            towards |-> IF breaks THEN 0 ELSE 1,
            pair |-> CASE breaks /\ q1 > q2  -> <<l, w>>
                       [] breaks /\ q1 <= q2 -> <<w, r>>
                       [] ~breaks -> <<l, r>>]
  BY <1>1, <1>4, <1>5, <1>6, <1>10, <1>11 DEF TypeOneCorrection
<1>13. \/ q1 > q2 /\ ~(q1 <= q2)
       \/ q1 <= q2 /\ ~(q1 > q2)
  BY PredictionsAreNumbers
<1>14. CASE ~breaks
  <2>1. c = [kind |-> 1, matched |-> <<q1, q2>>, towards |-> 1, pair |-> <<l, r>>]
    BY <1>12, <1>14
  <2>2. c \in Correction
    BY <2>1 DEF Correction
  <2>3. CorrectionOK(c)
    <3>1. c.kind = 1 /\ c.towards = 1 /\ c.pair = <<l, r>>
      BY <2>1
    <3> QED
      BY <1>2, <1>3, <3>1 DEF CorrectionOK
  <2> QED
    BY <1>11, <2>2, <2>3
<1>15. CASE breaks /\ q1 > q2
  <2>1. c = [kind |-> 1, matched |-> <<q1, q2>>, towards |-> 0, pair |-> <<l, w>>]
    BY <1>12, <1>13, <1>15
  <2>2. c \in Correction
    BY <2>1 DEF Correction
  <2>3. CorrectionOK(c)
    <3>1. c.kind = 1 /\ c.towards = 0 /\ c.pair[1] = l /\ c.pair[2] = w
      BY <2>1
    <3> QED
      BY <1>8, <3>1 DEF CorrectionOK
  <2> QED
    BY <1>11, <2>2, <2>3
<1>16. CASE breaks /\ q1 <= q2
  <2>1. c = [kind |-> 1, matched |-> <<q1, q2>>, towards |-> 0, pair |-> <<w, r>>]
    BY <1>12, <1>13, <1>16
  <2>2. c \in Correction
    BY <2>1 DEF Correction
  <2>3. CorrectionOK(c)
    <3>1. c.kind = 1 /\ c.towards = 0 /\ c.pair[1] = w /\ c.pair[2] = r
      BY <2>1
    <3> QED
      BY <1>8, <1>9, <3>1 DEF CorrectionOK
  <2> QED
    BY <1>11, <2>2, <2>3
<1> QED
  BY <1>13, <1>14, <1>15, <1>16

\* A row predicted to match lies within a clique, which is not told apart from itself; a row
\* within a clique has two nodes that were matched.
LEMMA ConflictStep ==
  ASSUME IInv, ConflictRow
  PROVE  IInv'
<1>1. /\ TypeOK /\ PlacesOK /\ TreesOK /\ Connected /\ NegativesOK /\ MatchesOK /\ ListsEven
      /\ FoundOK
  BY DEF IInv
<1>2. Forest(parent)
  BY <1>1 DEF TreesOK
<1>3. /\ pass = "conflicts" /\ at <= Len(file) /\ at' = at + 1
      /\ cliqueVars' = cliqueVars /\ file' = file /\ prediction' = prediction
      /\ matches' = matches /\ max_prediction' = max_prediction /\ pass' = pass /\ i' = i
  BY DEF ConflictRow, Read
<1>4. /\ parent' = parent /\ next_in_clique' = next_in_clique /\ amount' = amount
      /\ cliques' = cliques /\ ngl' = ngl
  BY <1>3 DEF cliqueVars
<1>5. PICK l, r \in Nodes : l = left /\ r = right
  BY <1>1, <1>2, <1>3, RowFacts
<1>6. PICK p \in Predictions : p = predicted
  BY <1>1, <1>2, <1>3, RowFacts
<1>7. /\ l # r /\ at \in DOMAIN file /\ file[at] = <<l, r>>
      /\ prediction[<<l, r>>] = p /\ root_a = Root(l) /\ root_b = Root(r)
  BY <1>1, <1>2, <1>3, <1>5, <1>6, RowFacts
<1>8. RowsRead' = RowsRead /\ Edges' = Edges /\ RowsRead = DOMAIN file
  <2>1. RowsRead' = RowsRead /\ RowsRead = DOMAIN file
    BY <1>3 DEF RowsRead
  <2> QED
    BY <1>3, <2>1 DEF Edges
<1>9. ~(p >= Threshold /\ InNeglist(root_a, root_b))
  <2> SUFFICES ASSUME p >= Threshold, InNeglist(root_a, root_b)
               PROVE  FALSE
    OBVIOUS
  <2>1. <<l, r>> \in Edges
    BY <1>7, <1>8 DEF Edges
  <2>2. Root(l) = Root(r)
    <3>1. \A e \in Edges : Root(e[1]) = Root(e[2])
      BY <1>1 DEF Connected
    <3>2. PICK e \in Edges : e = <<l, r>>
      BY <2>1
    <3>3. Root(e[1]) = Root(e[2])
      BY <3>1
    <3> QED
      BY <3>2, <3>3
  <2>3. PICK a \in Nodes : a = Root(l)
    BY <1>2, RootByFacts DEF Root
  <2>4. InNeglist(a, a)
    BY <1>7, <2>2, <2>3
  <2> QED
    BY <1>1, <2>4 DEF InNeglist, NegativesOK
<1>10. p < Threshold /\ root_a = root_b => matches[left] # <<>> /\ matches[right] # <<>>
  BY <1>1, <1>5, <1>7 DEF MatchesOK
<1>11. \/ found' = found /\ stderr' = stderr
       \/ /\ p < Threshold /\ CommonMatches # {} /\ stderr' = stderr
          /\ found' = Append(found, TypeOneCorrection)
  BY <1>6, <1>9, <1>10 DEF ConflictRow
<1>12. found' \in Seq(Correction) /\ \A k \in DOMAIN found' : CorrectionOK(found'[k])
  <2>1. found \in Seq(Correction) /\ \A k \in DOMAIN found : CorrectionOK(found[k])
    BY <1>1 DEF TypeOK, FoundOK, Correction
  <2>2. CASE found' = found
    BY <2>1, <2>2
  <2>3. CASE p < Threshold /\ CommonMatches # {} /\ found' = Append(found, TypeOneCorrection)
    <3>1. PICK c \in Correction : c = TypeOneCorrection /\ CorrectionOK(c)
      BY <1>1, <1>2, <1>3, <1>6, <2>3, TypeOneOK
    <3>2. PICK f \in Seq(Correction) : f = found
      BY <2>1
    <3>3. found' = Append(f, c)
      BY <2>3, <3>1, <3>2
    <3>4. PICK n \in Nat : n = Len(f)
      OBVIOUS
    <3>5. /\ Append(f, c) \in Seq(Correction)
          /\ DOMAIN f = 1 .. n /\ DOMAIN Append(f, c) = 1 .. n + 1
          /\ Append(f, c)[n + 1] = c /\ \A j \in 1 .. n : Append(f, c)[j] = f[j]
      BY <3>4
    <3>6. \A j \in 1 .. n + 1 : j \in 1 .. n \/ j = n + 1
      OBVIOUS
    <3>7. \A j \in 1 .. n + 1 : CorrectionOK(Append(f, c)[j])
      BY <2>1, <3>1, <3>2, <3>5, <3>6
    <3> QED
      BY <3>3, <3>5, <3>7
  <2> QED
    BY <1>11, <2>2, <2>3
<1>13. at' \in 1 .. Len(file) + 1
  <2>1. file \in Seq(Nodes \X Nodes)
    BY <1>1, ConflictAssumption DEF TypeOK
  <2>2. at \in 1 .. Len(file) + 1
    BY <1>1 DEF TypeOK
  <2> QED
    BY <1>3, <2>1, <2>2
<1>14. stderr' = stderr
  BY <1>11
<1>15. TypeOK'
  BY <1>1, <1>3, <1>4, <1>12, <1>13, <1>14 DEF TypeOK, CliquesTypeOK, Correction
<1>16. FoundOK'
  <2>1. (\A k \in DOMAIN found : CorrectionOK(found[k]))'
    BY <1>3, <1>12 DEF CorrectionOK, Rows
  <2>2. stderr' = {} /\ pass' \notin {"positive", "negative", "done"}
    BY <1>1, <1>3, <1>14 DEF FoundOK
  <2> QED
    BY <2>1, <2>2 DEF FoundOK
<1>17. PlacesOK' /\ TreesOK' /\ Connected' /\ NegativesOK'
  <2>1. PlacesOK'
    BY <1>1, <1>3 DEF PlacesOK
  <2>2. TreesOK'
    BY <1>1, <1>4 DEF TreesOK
  <2>3. Connected'
    BY <1>1, <1>4, <1>8 DEF Connected, Root
  <2>4. NegativesOK'
    BY <1>1, <1>3, <1>4 DEF NegativesOK
  <2> QED
    BY <2>1, <2>2, <2>3, <2>4
<1>18. MatchesOK'
  BY <1>1, <1>3, <1>4 DEF MatchesOK, EntryOK, Rows, Root
<1>19. ListsEven'
  BY <1>1, <1>3 DEF ListsEven
<1> QED
  BY <1>15, <1>16, <1>17, <1>18, <1>19 DEF IInv

-----------------------------------------------------------------------------
(* Between the passes *)

\* All rows of the file have been read at its end.
LEMMA RewindStep ==
  ASSUME IInv,
         NEW p, NEW q, <<p, q>> \in {<<"positive", "negative">>, <<"negative", "conflicts">>,
                                     <<"conflicts", "update">>},
         Rewind(p, q)
  PROVE  IInv'
<1>1. /\ TypeOK /\ PlacesOK /\ TreesOK /\ Connected /\ NegativesOK /\ MatchesOK /\ ListsEven
      /\ FoundOK
  BY DEF IInv
<1>2. \/ p = "positive" /\ q = "negative"
      \/ p = "negative" /\ q = "conflicts"
      \/ p = "conflicts" /\ q = "update"
  OBVIOUS
<1>3. /\ pass = p /\ at > Len(file) /\ at' = 1 /\ pass' = q
      /\ cliqueVars' = cliqueVars /\ file' = file /\ prediction' = prediction
      /\ matches' = matches /\ max_prediction' = max_prediction /\ i' = i
      /\ found' = found /\ stderr' = stderr
  BY DEF Rewind
<1>4. /\ parent' = parent /\ next_in_clique' = next_in_clique /\ amount' = amount
      /\ cliques' = cliques /\ ngl' = ngl
  BY <1>3 DEF cliqueVars
<1>5. PICK n \in Nat : n = Len(file) /\ DOMAIN file = 1 .. n
  <2>1. file \in Seq(Nodes \X Nodes)
    BY <1>1, ConflictAssumption DEF TypeOK
  <2>2. Len(file) \in Nat /\ DOMAIN file = 1 .. Len(file)
    BY <2>1
  <2> QED
    BY <2>2
<1>6. at \in 1 .. n + 1 /\ at > n
  BY <1>1, <1>3, <1>5 DEF TypeOK
<1>7. 1 .. at - 1 = DOMAIN file
  <2>1. at - 1 = n
    BY <1>6
  <2> QED
    BY <1>5, <2>1
<1>8. RowsRead' = RowsRead
  <2>1. RowsRead = DOMAIN file
    BY <1>2, <1>3, <1>7 DEF RowsRead
  <2>2. RowsRead' = DOMAIN file
    BY <1>2, <1>3 DEF RowsRead
  <2> QED
    BY <2>1, <2>2
<1>9. Edges' = Edges
  BY <1>3, <1>8 DEF Edges
<1>10. TypeOK'
  <2>1. pass' \in Passes
    BY <1>2, <1>3 DEF Passes
  <2>2. at' \in 1 .. Len(file) + 1
    BY <1>3, <1>5
  <2> QED
    BY <1>1, <1>3, <1>4, <2>1, <2>2 DEF TypeOK, CliquesTypeOK
<1>11. PlacesOK'
  BY <1>1, <1>2, <1>3 DEF PlacesOK
<1>12. TreesOK'
  BY <1>1, <1>4 DEF TreesOK
<1>13. Connected'
  BY <1>1, <1>4, <1>9 DEF Connected, Root
<1>14. NegativesOK'
  BY <1>1, <1>2, <1>3, <1>4 DEF NegativesOK
<1>15. MatchesOK'
  BY <1>1, <1>2, <1>3, <1>4 DEF MatchesOK, EntryOK, Rows, Root
<1>16. ListsEven'
  BY <1>1, <1>3 DEF ListsEven
<1>17. FoundOK'
  BY <1>1, <1>2, <1>3 DEF FoundOK, CorrectionOK, Rows
<1> QED
  BY <1>10, <1>11, <1>12, <1>13, <1>14, <1>15, <1>16, <1>17 DEF IInv

\* Cliques of one node each, with nothing told apart, noted or found, before the first row
\* is read, are as the inductive invariant says.
Fresh ==
  /\ parent = [x \in Nodes |-> NoNode] /\ next_in_clique = [x \in Nodes |-> NoNode]
  /\ amount = [x \in Nodes |-> 1] /\ ngl = [x \in Nodes |-> <<>>] /\ cliques = <<>>
  /\ matches = [x \in Nodes |-> <<>>] /\ found = <<>> /\ stderr = {}
  /\ at = 1 /\ pass \in {"positive", "done"}
  /\ pass # "done" => i < MaxIterations
  /\ file \in Files /\ prediction \in [ToSet(file) -> Predictions]
  /\ max_prediction \in Predictions \cup {0} /\ i \in 0 .. MaxIterations
LEMMA FreshOK ==
  ASSUME Fresh
  PROVE  IInv
<1>1. Forest(parent) /\ \A x \in Nodes : RootBy(parent, x) = x
  BY SinglesForest DEF Fresh
<1>3. PlacesOK
  BY DEF Fresh, PlacesOK
<1>4. TreesOK
  <2>1. \A x \in Nodes : MembersBy(parent, x) = {x}
    BY <1>1 DEF MembersBy
  <2>2. \A x \in Nodes : Cardinality({x}) = 1
    BY FS_Singleton
  <2>3. AmountsBy(parent) = [x \in Nodes |-> 1]
    BY <2>1, <2>2 DEF AmountsBy, Fresh
  <2> QED
    BY <1>1, <2>3 DEF TreesOK, Fresh
<1>2. TypeOK
  <2>1. amount \in [Nodes -> {-1} \cup 1 .. Cardinality(Nodes)]
    BY <1>4, AmountsTyped DEF TreesOK
  <2>2. at \in 1 .. Len(file) + 1
    <3>1. Len(file) \in Nat
      BY ConflictAssumption DEF Fresh
    <3> QED
      BY <3>1 DEF Fresh
  <2> QED
    BY <2>1, <2>2 DEF Fresh, TypeOK, CliquesTypeOK, Passes
<1>5. Connected
  <2>1. RowsRead = {}
    BY DEF RowsRead, Fresh
  <2>2. Edges = {}
    BY <2>1 DEF Edges
  <2> QED
    BY <1>1, <2>2 DEF Connected, Root
<1>6. NegativesOK
  BY DEF NegativesOK, Fresh
<1>7. MatchesOK
  BY <1>1 DEF MatchesOK, Fresh, Root
<1>8. ListsEven
  BY DEF ListsEven, Fresh, Entries
<1>9. FoundOK
  BY DEF FoundOK, Fresh
<1> QED
  BY <1>2, <1>3, <1>4, <1>5, <1>6, <1>7, <1>8, <1>9 DEF IInv

\* After the update of the coefficients the next iteration starts from fresh cliques and
\* lists, whatever is predicted now.
LEMMA UpdateStep ==
  ASSUME IInv, Update
  PROVE  IInv'
<1>1. TypeOK /\ PlacesOK /\ FoundOK
  BY DEF IInv
<1>2. /\ pass = "update" /\ at = 1 /\ at' = at /\ file' = file /\ stderr' = stderr
      /\ max_prediction' = max_prediction /\ i' = i + 1 /\ found' = <<>>
      /\ i < MaxIterations
      /\ Reinitialize /\ cliques' = <<>> /\ matches' = [x \in Nodes |-> <<>>]
  BY <1>1 DEF Update, PlacesOK, NoMatches
<1>3. i' \in 0 .. MaxIterations /\ (i' # MaxIterations => i' < MaxIterations)
  <2>1. PICK m \in Nat : m = MaxIterations
    BY ConflictAssumption
  <2>2. PICK j \in 0 .. m : j = i /\ j < m
    BY <1>1, <1>2, <2>1 DEF TypeOK
  <2>3. i' = j + 1
    BY <1>2, <2>2
  <2> QED
    BY <2>1, <2>2, <2>3
<1>4. /\ pass' \in {"positive", "done"} /\ (pass' # "done" => i' < MaxIterations)
      /\ prediction' \in [ToSet(file') -> Predictions]
  BY <1>1, <1>2, <1>3 DEF Update, TypeOK
<1>5. Fresh'
  <2>1. file' \in Files /\ max_prediction' \in Predictions \cup {0} /\ stderr' = {}
    BY <1>1, <1>2 DEF TypeOK, FoundOK
  <2> QED
    BY <1>2, <1>3, <1>4, <2>1 DEF Fresh, Reinitialize
<1> QED
  BY <1>5, FreshOK, PTL

\* A step that changes nothing keeps the inductive invariant.
LEMMA StutterStep ==
  ASSUME IInv, UNCHANGED crVars
  PROVE  IInv'
<1>1. /\ parent' = parent /\ next_in_clique' = next_in_clique /\ amount' = amount
      /\ cliques' = cliques /\ ngl' = ngl /\ file' = file /\ prediction' = prediction
      /\ matches' = matches /\ max_prediction' = max_prediction /\ pass' = pass /\ at' = at
      /\ i' = i /\ found' = found /\ stderr' = stderr
  BY DEF crVars, cliqueVars
<1>2. Edges' = Edges
  <2>1. RowsRead' = RowsRead
    BY <1>1 DEF RowsRead
  <2> QED
    BY <1>1, <2>1 DEF Edges
<1>3. TypeOK'
  BY <1>1 DEF IInv, TypeOK, CliquesTypeOK
<1>4. PlacesOK' /\ TreesOK' /\ NegativesOK'
  BY <1>1 DEF IInv, PlacesOK, TreesOK, NegativesOK
<1>5. Connected'
  BY <1>1, <1>2 DEF IInv, Connected, Root
<1>6. MatchesOK'
  BY <1>1 DEF IInv, MatchesOK, EntryOK, Rows, Root
<1>7. ListsEven'
  BY <1>1 DEF IInv, ListsEven
<1>8. FoundOK'
  BY <1>1 DEF IInv, FoundOK, CorrectionOK, Rows
<1> QED
  BY <1>3, <1>4, <1>5, <1>6, <1>7, <1>8 DEF IInv

-----------------------------------------------------------------------------
(* The theorems *)

\* IInv holds in every state: the pointers are a forest, its trees are what the rows read so
\* far connect, the match lists name rows of the file and agree with the trees and with each
\* other, and what was found is of the first kind.
THEOREM Invariance == Spec => []IInv
<1>1. Init => IInv
  <2> SUFFICES ASSUME Init
               PROVE  IInv
    OBVIOUS
  <2>1. 0 \in 0 .. MaxIterations /\ 0 < MaxIterations
    BY ConflictAssumption
  <2>2. Fresh
    BY <2>1 DEF Init, CliquesInit, Fresh
  <2> QED
    BY <2>2, FreshOK
<1>2. IInv /\ [Next]_crVars => IInv'
  <2> SUFFICES ASSUME IInv, [Next]_crVars
               PROVE  IInv'
    OBVIOUS
  <2>1. CASE PositiveRow
    BY <2>1, PositiveStep
  <2>2. CASE NegativeRow
    BY <2>2, NegativeStep
  <2>3. CASE ConflictRow
    BY <2>3, ConflictStep
  <2>4. CASE Rewind("positive", "negative")
    BY <2>4, RewindStep
  <2>5. CASE Rewind("negative", "conflicts")
    BY <2>5, RewindStep
  <2>6. CASE Rewind("conflicts", "update")
    BY <2>6, RewindStep
  <2>7. CASE Update
    BY <2>7, UpdateStep
  <2>8. CASE Done
    BY <2>8, StutterStep DEF Done
  <2>9. CASE UNCHANGED crVars
    BY <2>9, StutterStep
  <2> QED
    BY <2>1, <2>2, <2>3, <2>4, <2>5, <2>6, <2>7, <2>8, <2>9 DEF Next
<1> QED
  BY <1>1, <1>2, PTL DEF Spec

\* Types, of the cliques as well: every pointer stays a node or NULL, every size is that of a
\* clique, and only corrections of the two kinds are summed.
THEOREM TypeCorrect == Spec => []TypeOK
<1>1. IInv => TypeOK
  BY DEF IInv
<1> QED
  BY <1>1, Invariance, PTL

\* No file, no predictions and no number of iterations ever lead to a conflict of the second
\* kind (routines.c:397-425): a row predicted to match was merged in the first pass, and no
\* clique is in its own negative list.
THEOREM NoTypeTwo == Spec => []NoTypeTwoConflict
<1>1. IInv => NoTypeTwoConflict
  BY DEF IInv, FoundOK, CorrectionOK, NoTypeTwoConflict
<1> QED
  BY <1>1, Invariance, PTL

\* The diagnostic of routines.c:369-370 is never printed: whoever shares a clique was put into
\* it by a row, which put an entry into both match lists.
THEOREM CliqueNodesMatched == Spec => []CliqueNodesHaveMatches
<1>1. IInv => CliqueNodesHaveMatches
  BY DEF IInv, FoundOK, CliqueNodesHaveMatches
<1> QED
  BY <1>1, Invariance, PTL

\* Both branches are dead code, for any nodes, files, predictions and iterations.
THEOREM DeadBranches == Spec => []DeadBranchesStayDead
BY NoTypeTwo, CliqueNodesMatched, PTL DEF DeadBranchesStayDead

\* The match lists tell the truth about the cliques, in both directions: an entry reaches the
\* threshold if and only if the two nodes are in one clique, and the other node's list has as
\* many entries for the owner with that prediction.
THEOREM MatchesFollow == Spec => []MatchesFollowCliques
<1>1. IInv => MatchesFollowCliques
  <2> SUFFICES ASSUME IInv
               PROVE  MatchesFollowCliques
    OBVIOUS
  <2>1. TypeOK /\ MatchesOK /\ ListsEven
    BY DEF IInv
  <2>2. ASSUME NEW x \in Nodes, NEW k \in DOMAIN matches[x]
        PROVE  LET m == matches[x][k]
                   Same(e, y) == e.matched_with = y /\ e.prediction = m.prediction
                   Count(z, y) ==
                     Cardinality({l \in DOMAIN matches[z] : Same(matches[z][l], y)})
               IN /\ m.prediction >= Threshold <=> FindRoot(x) = FindRoot(m.matched_with)
                  /\ Count(x, m.matched_with) = Count(m.matched_with, x)
    <3>1. PICK list \in Seq(Entry) : list = matches[x]
      BY <2>1 DEF TypeOK, Entry
    <3>2. list[k] \in Entry
      BY <2>2, <3>1
    <3>3. PICK e \in Entry : e = matches[x][k]
      BY <3>1, <3>2
    <3>4. PICK y \in Nodes, q \in Predictions : y = e.matched_with /\ q = e.prediction
      BY DEF Entry
    <3>5. q >= Threshold <=> FindRoot(x) = FindRoot(y)
      <4>1. e.prediction >= Threshold <=> Root(x) = Root(e.matched_with)
        BY <2>1, <3>3 DEF MatchesOK, EntryOK
      <4>2. Root(x) = FindRoot(x) /\ Root(y) = FindRoot(y)
        BY FindRootBy DEF Root
      <4> QED
        BY <3>4, <4>1, <4>2
    <3>6. Cardinality(Entries(matches[x], y, q)) = Cardinality(Entries(matches[y], x, q))
      BY <2>1 DEF ListsEven
    <3> QED
      BY <3>3, <3>4, <3>5, <3>6 DEF Entries
  <2> QED
    BY <2>2 DEF MatchesFollowCliques
<1> QED
  BY <1>1, Invariance, PTL

\* A correction is made to what the model said of a row of the file: towards 0 only of a pair
\* predicted to match, towards 1 only of the row itself, predicted to differ.
THEOREM CorrectionsOfPredictions == Spec => []CorrectsWhatWasPredicted
<1>1. IInv => CorrectsWhatWasPredicted
  <2> SUFFICES ASSUME IInv, NEW k \in DOMAIN found
               PROVE  LET x == found[k].pair[1]  y == found[k].pair[2]
                      IN IF found[k].towards = 0
                           THEN \E r \in {<<x, y>>, <<y, x>>} \cap ToSet(file) :
                                  prediction[r] >= Threshold
                           ELSE <<x, y>> \in ToSet(file) /\ prediction[<<x, y>>] < Threshold
    BY DEF CorrectsWhatWasPredicted
  <2>1. found \in Seq(Correction) /\ CorrectionOK(found[k])
    BY DEF IInv, TypeOK, FoundOK, Correction
  <2>2. PICK c \in Correction : c = found[k]
    BY <2>1
  <2>3. CorrectionOK(c)
    BY <2>1, <2>2
  <2>4. PICK x, y \in Nodes : c.pair = <<x, y>> /\ c.pair[1] = x /\ c.pair[2] = y
    BY DEF Correction
  <2>5. c.towards = 0 \/ c.towards = 1
    BY DEF Correction
  <2>6. IF c.towards = 0
          THEN \E r \in {<<x, y>>, <<y, x>>} \cap ToSet(file) : prediction[r] >= Threshold
          ELSE <<x, y>> \in ToSet(file) /\ prediction[<<x, y>>] < Threshold
    BY <2>3, <2>4, <2>5 DEF CorrectionOK, Rows
  <2> QED
    BY <2>2, <2>4, <2>6
<1> QED
  BY <1>1, Invariance, PTL

-----------------------------------------------------------------------------
(* Connected components *)

\* The nodes one row away from S, and a function that grows a set from x by them.
Touching(S, E) == {y \in Nodes : \E z \in S : <<y, z>> \in E \/ <<z, y>> \in E}
Grows(near, n, x, E) ==
  /\ near \in [0 .. n -> SUBSET Nodes]
  /\ near[0] = {x}
  /\ \A k \in 1 .. n : near[k] = near[k - 1] \cup Touching(near[k - 1], E)

\* For every number of steps there is such a function.
LEMMA GrowthExists ==
  ASSUME NEW x \in Nodes, NEW E
  PROVE  \A n \in Nat : \E near : Grows(near, n, x, E)
<1> DEFINE Fails == {n \in Nat : ~\E near : Grows(near, n, x, E)}
<1> SUFFICES ASSUME Fails # {} PROVE FALSE
  OBVIOUS
<1>1. PICK m \in Fails : \A n \in Fails : m <= n
  <2>1. Fails \in SUBSET Nat /\ Fails # {}
    OBVIOUS
  <2> HIDE DEF Fails
  <2> QED
    BY <2>1, Least
<1>2. m \in Nat /\ ~\E near : Grows(near, m, x, E)
  BY <1>1
<1>3. m # 0
  <2> SUFFICES ASSUME m = 0 PROVE FALSE
    OBVIOUS
  <2>1. PICK near : near = [k \in 0 .. 0 |-> {x}]
    OBVIOUS
  <2>2. near \in [0 .. 0 -> SUBSET Nodes] /\ near[0] = {x}
    BY <2>1
  <2>3. 1 .. 0 = {}
    OBVIOUS
  <2>4. Grows(near, 0, x, E)
    BY <2>2, <2>3 DEF Grows
  <2> QED
    BY <1>2, <2>4
<1>4. m - 1 \in Nat /\ m - 1 \notin Fails
  <2>1. m - 1 \in Nat /\ ~(m <= m - 1)
    BY <1>2, <1>3
  <2> QED
    BY <1>1, <2>1
<1>5. PICK j \in Nat : j = m - 1 /\ m = j + 1
  BY <1>2, <1>4
<1>6. PICK near : Grows(near, j, x, E)
  BY <1>4, <1>5
<1>7. PICK longer : longer = [k \in 0 .. j + 1 |->
                                IF k = j + 1 THEN near[j] \cup Touching(near[j], E) ELSE near[k]]
  OBVIOUS
<1>8. near \in [0 .. j -> SUBSET Nodes] /\ near[0] = {x} /\ j \in 0 .. j
  BY <1>6 DEF Grows
<1>9. near[j] \cup Touching(near[j], E) \in SUBSET Nodes
  BY <1>8 DEF Touching
<1>10. /\ longer[j + 1] = near[j] \cup Touching(near[j], E)
       /\ \A k \in 0 .. j : longer[k] = near[k]
  <2>1. \A k \in 0 .. j : k \in 0 .. j + 1 /\ k # j + 1
    OBVIOUS
  <2> QED
    BY <1>7, <2>1
<1>11. longer \in [0 .. j + 1 -> SUBSET Nodes]
  <2>1. \A k \in 0 .. j + 1 : k = j + 1 \/ k \in 0 .. j
    OBVIOUS
  <2> QED
    BY <1>7, <1>8, <1>9, <2>1
<1>12. ASSUME NEW k \in 1 .. j + 1
       PROVE  longer[k] = longer[k - 1] \cup Touching(longer[k - 1], E)
  <2>1. CASE k = j + 1
    <3>1. k - 1 = j
      BY <2>1
    <3> QED
      BY <1>8, <1>10, <2>1, <3>1
  <2>2. CASE k # j + 1
    <3>1. k \in 1 .. j /\ k \in 0 .. j /\ k - 1 \in 0 .. j
      BY <2>2
    <3>2. near[k] = near[k - 1] \cup Touching(near[k - 1], E)
      BY <1>6, <3>1 DEF Grows
    <3> QED
      BY <1>10, <3>1, <3>2
  <2> QED
    BY <2>1, <2>2
<1>13. longer[0] = {x}
  BY <1>8, <1>10
<1>14. Grows(longer, j + 1, x, E)
  BY <1>11, <1>12, <1>13 DEF Grows
<1> QED
  BY <1>2, <1>5, <1>14

\* Component is where one of them ends.
LEMMA ComponentGrows ==
  ASSUME NEW x \in Nodes, NEW E, NEW n \in Nat, n = Cardinality(Nodes)
  PROVE  \E near : Grows(near, n, x, E) /\ Component(x, E) = near[n]
<1> DEFINE Defines(f) ==
             f = [k \in 0 .. n |->
                    IF k = 0 THEN {x}
                    ELSE f[k - 1] \cup {y \in Nodes : \E z \in f[k - 1] :
                                                        <<y, z>> \in E \/ <<z, y>> \in E}]
           walk == CHOOSE f : Defines(f)
<1>1. PICK near : Grows(near, n, x, E)
  BY GrowthExists
<1>2. Defines(near)
  <2>1. /\ near = [k \in 0 .. n |-> near[k]] /\ near[0] = {x}
        /\ \A k \in 1 .. n : near[k] = near[k - 1] \cup Touching(near[k - 1], E)
    BY <1>1 DEF Grows
  <2>2. \A k \in 0 .. n : k # 0 => k \in 1 .. n
    OBVIOUS
  <2>3. \A k \in 0 .. n : near[k] = IF k = 0 THEN {x}
                                    ELSE near[k - 1] \cup Touching(near[k - 1], E)
    BY <2>1, <2>2
  <2> QED
    BY <2>1, <2>3 DEF Touching
<1>3. Defines(walk)
  BY <1>2
<1>4. Component(x, E) = walk[n]
  BY DEF Component
<1>5. /\ walk = [k \in 0 .. n |-> walk[k]]
      /\ \A k \in 0 .. n : walk[k] = IF k = 0 THEN {x}
                                     ELSE walk[k - 1] \cup Touching(walk[k - 1], E)
  <2> HIDE DEF walk
  <2> QED
    BY <1>3 DEF Touching
<1>6. near \in [0 .. n -> SUBSET Nodes]
  BY <1>1 DEF Grows
<1> HIDE DEF walk, Defines
<1>7. walk = near
  <2> DEFINE Differ == {k \in 0 .. n : walk[k] # near[k]}
  <2>1. ASSUME Differ # {} PROVE FALSE
    <3>1. PICK k \in Differ : \A l \in Differ : k <= l
      <4>1. Differ \in SUBSET Nat
        OBVIOUS
      <4> HIDE DEF Differ
      <4> QED
        BY <2>1, <4>1, Least
    <3>2. k \in 0 .. n /\ walk[k] # near[k]
      BY <3>1
    <3>3. k # 0
      BY <1>1, <1>5, <3>2 DEF Grows
    <3>4. PICK j \in 0 .. n : j = k - 1 /\ ~(k <= j) /\ k \in 1 .. n
      BY <3>2, <3>3
    <3>5. walk[j] = near[j]
      BY <3>1, <3>4
    <3>6. near[k] = near[j] \cup Touching(near[j], E)
      BY <1>1, <3>4 DEF Grows
    <3>7. walk[k] = walk[j] \cup Touching(walk[j], E)
      BY <1>5, <3>2, <3>3, <3>4
    <3> QED
      BY <3>2, <3>5, <3>6, <3>7
  <2> QED
    BY <1>5, <1>6, <2>1
<1> QED
  BY <1>1, <1>4, <1>7

\* It has grown to its end: each step but the last adds a node, and there are only so many.
LEMMA GrowthEnds ==
  ASSUME NEW x \in Nodes, NEW E, NEW near, NEW n \in Nat, n = Cardinality(Nodes),
         Grows(near, n, x, E)
  PROVE  Touching(near[n], E) \subseteq near[n]
<1>1. /\ near \in [0 .. n -> SUBSET Nodes] /\ near[0] = {x}
      /\ \A k \in 1 .. n : near[k] = near[k - 1] \cup Touching(near[k - 1], E)
  BY DEF Grows
<1>2. \A k \in 0 .. n : IsFiniteSet(near[k]) /\ Cardinality(near[k]) \in Nat
                        /\ Cardinality(near[k]) <= n
  <2> TAKE k \in 0 .. n
  <2>1. near[k] \in SUBSET Nodes /\ IsFiniteSet(Nodes)
    BY <1>1, NodesAssumption
  <2> QED
    BY <2>1, FS_Subset, FS_CardinalityType
<1> DEFINE Ended(k) == Touching(near[k], E) \subseteq near[k]
           Late == {k \in 0 .. n : ~Ended(k) /\ ~(Cardinality(near[k]) > k)}
<1>3. ASSUME Late # {} PROVE FALSE
  <2>1. PICK k \in Late : \A l \in Late : k <= l
    <3>1. Late \in SUBSET Nat
      OBVIOUS
    <3> HIDE DEF Late
    <3> QED
      BY <1>3, <3>1, Least
  <2>2. k \in 0 .. n /\ ~Ended(k) /\ ~(Cardinality(near[k]) > k)
    BY <2>1
  <2>3. k # 0
    <3>1. Cardinality(near[0]) = 1
      BY <1>1, FS_Singleton
    <3> QED
      BY <2>2, <3>1
  <2>4. PICK j \in 0 .. n : j = k - 1 /\ ~(k <= j) /\ k \in 1 .. n /\ k = j + 1
    BY <2>2, <2>3
  <2>5. near[k] = near[j] \cup Touching(near[j], E)
    BY <1>1, <2>4
  <2>6. Ended(j) \/ Cardinality(near[j]) > j
    BY <2>1, <2>4
  <2>7. ~Ended(j)
    <3> SUFFICES ASSUME Ended(j) PROVE FALSE
      OBVIOUS
    <3>1. near[k] = near[j]
      BY <2>5
    <3> QED
      BY <2>2, <3>1
  <2>8. near[j] \subseteq near[k] /\ near[j] # near[k]
    BY <2>5, <2>7
  <2>9. Cardinality(near[j]) < Cardinality(near[k])
    <3>1. PICK S, T : S = near[j] /\ T = near[k]
      OBVIOUS
    <3>2. IsFiniteSet(T) /\ S \subseteq T /\ S # T
      BY <1>2, <2>2, <2>8, <3>1
    <3>3. Cardinality(S) <= Cardinality(T) /\ (Cardinality(S) = Cardinality(T) => S = T)
      BY <3>2, FS_Subset
    <3>4. PICK c, d \in Nat : c = Cardinality(S) /\ d = Cardinality(T)
      BY <1>2, <2>2, <2>4, <3>1
    <3> QED
      BY <3>1, <3>2, <3>3, <3>4
  <2>10. PICK c, d \in Nat : c = Cardinality(near[j]) /\ d = Cardinality(near[k])
    BY <1>2, <2>2
  <2>11. c > j /\ c < d /\ ~(d > k)
    BY <2>2, <2>6, <2>7, <2>9, <2>10
  <2> QED
    BY <2>4, <2>11
<1>4. n \in 0 .. n
  OBVIOUS
<1>5. ~(Cardinality(near[n]) > n)
  <2>1. PICK c \in Nat : c = Cardinality(near[n]) /\ c <= n
    BY <1>2, <1>4
  <2> QED
    BY <2>1
<1> QED
  BY <1>3, <1>4, <1>5

\* The component of a node is its clique.
LEMMA ComponentIsClique ==
  ASSUME TypeOK, Connected, NEW x \in Nodes
  PROVE  Component(x, Edges) = MembersBy(parent, Root(x))
<1>1. PICK n \in Nat : n = Cardinality(Nodes)
  BY NodesAssumption, FS_CardinalityType
<1>2. PICK E : E = Edges
  OBVIOUS
<1>3. PICK near : Grows(near, n, x, E) /\ Component(x, E) = near[n]
  BY <1>1, ComponentGrows
<1>4. /\ near \in [0 .. n -> SUBSET Nodes] /\ near[0] = {x} /\ n \in 0 .. n /\ 0 \in 0 .. n
      /\ \A k \in 1 .. n : near[k] = near[k - 1] \cup Touching(near[k - 1], E)
  BY <1>3 DEF Grows
<1>5. Touching(near[n], E) \subseteq near[n]
  BY <1>1, <1>3, GrowthEnds
<1>6. \A e \in E : e = <<e[1], e[2]>> /\ e[1] \in Nodes /\ e[2] \in Nodes
                   /\ Root(e[1]) = Root(e[2])
  <2>1. \A e \in E : e \in Nodes \X Nodes
    BY <1>2, EdgesArePairs
  <2>2. \A e \in E : Root(e[1]) = Root(e[2])
    BY <1>2 DEF Connected
  <2> QED
    BY <2>1, <2>2
<1> DEFINE Strange == {k \in 0 .. n : \E y \in near[k] : Root(y) # Root(x)}
           Missing == {k \in 0 .. n : x \notin near[k]}
<1>7. ASSUME Strange # {} PROVE FALSE
  <2>1. PICK k \in Strange : \A l \in Strange : k <= l
    <3>1. Strange \in SUBSET Nat
      OBVIOUS
    <3> HIDE DEF Strange
    <3> QED
      BY <1>7, <3>1, Least
  <2>2. k \in 0 .. n /\ \E y \in near[k] : Root(y) # Root(x)
    BY <2>1
  <2>3. k # 0
    BY <1>4, <2>2
  <2>4. PICK j \in 0 .. n : j = k - 1 /\ ~(k <= j) /\ k \in 1 .. n
    BY <2>2, <2>3
  <2>5. \A y \in near[j] : Root(y) = Root(x)
    BY <2>1, <2>4
  <2>6. near[k] = near[j] \cup Touching(near[j], E)
    BY <1>4, <2>4
  <2>7. \A y \in Touching(near[j], E) : Root(y) = Root(x)
    <3> TAKE y \in Touching(near[j], E)
    <3>1. PICK z \in near[j] : <<y, z>> \in E \/ <<z, y>> \in E
      BY DEF Touching
    <3>2. Root(y) = Root(z)
      <4>1. CASE <<y, z>> \in E
        <5>1. PICK e \in E : e = <<y, z>>
          BY <4>1
        <5> QED
          BY <1>6, <5>1
      <4>2. CASE <<z, y>> \in E
        <5>1. PICK e \in E : e = <<z, y>>
          BY <4>2
        <5> QED
          BY <1>6, <5>1
      <4> QED
        BY <3>1, <4>1, <4>2
    <3> QED
      BY <2>5, <3>1, <3>2
  <2> QED
    BY <2>2, <2>5, <2>6, <2>7
<1>8. ASSUME Missing # {} PROVE FALSE
  <2>1. PICK k \in Missing : \A l \in Missing : k <= l
    <3>1. Missing \in SUBSET Nat
      OBVIOUS
    <3> HIDE DEF Missing
    <3> QED
      BY <1>8, <3>1, Least
  <2>2. k \in 0 .. n /\ x \notin near[k]
    BY <2>1
  <2>3. k # 0
    BY <1>4, <2>2
  <2>4. PICK j \in 0 .. n : j = k - 1 /\ ~(k <= j) /\ k \in 1 .. n
    BY <2>2, <2>3
  <2>5. x \in near[j]
    BY <2>1, <2>4
  <2> QED
    BY <1>4, <2>2, <2>4, <2>5
<1>9. x \in near[n] /\ \A y \in near[n] : Root(y) = Root(x)
  BY <1>4, <1>7, <1>8
<1>10. PICK S \in SUBSET Nodes : S = near[n]
  BY <1>4
<1>11. Closed(S, E)
  <2> SUFFICES ASSUME NEW e \in E
               PROVE  e[1] \in S <=> e[2] \in S
    BY DEF Closed
  <2>1. <<e[1], e[2]>> \in E /\ e[1] \in Nodes /\ e[2] \in Nodes
    BY <1>6
  <2>2. e[1] \in S => e[2] \in Touching(S, E)
    BY <2>1 DEF Touching
  <2>3. e[2] \in S => e[1] \in Touching(S, E)
    BY <2>1 DEF Touching
  <2> QED
    BY <1>5, <1>10, <2>2, <2>3
<1>12. \A y \in Nodes : Root(x) = Root(y) => y \in S
  BY <1>2, <1>9, <1>10, <1>11 DEF Connected
<1>13. S = {y \in Nodes : Root(y) = Root(x)}
  BY <1>9, <1>10, <1>12
<1> QED
  BY <1>2, <1>3, <1>10, <1>13 DEF MembersBy, Root

\* In every iteration, after every row, the cliques are the connected components of the rows
\* read so far and predicted to match, whatever the iteration before had built: no clique is
\* too large, none is cut in two, and nothing is left over by reinitialize_all_cliques.
THEOREM CliquesRight == Spec => []CliquesAreComponents
<1>1. IInv => CliquesAreComponents
  <2> SUFFICES ASSUME IInv
               PROVE  CliquesAreComponents
    OBVIOUS
  <2>1. TypeOK /\ Connected /\ Forest(parent)
    BY DEF IInv, TreesOK
  <2>2. \A x \in Nodes : /\ Root(x) \in Nodes /\ parent[Root(x)] = NoNode
                         /\ parent[x] = NoNode => Root(x) = x
    BY <2>1, RootByFacts DEF Root
  <2>3. PICK C : C = [x \in Nodes |-> MembersBy(parent, x)]
    OBVIOUS
  <2>4. \A x \in Nodes : Component(x, Edges) = C[Root(x)]
    BY <2>1, <2>2, <2>3, ComponentIsClique
  <2>5. \A r \in Nodes : Members(r) = C[r]
    <3>1. \A r, x \in Nodes : FindRoot(x) = RootBy(parent, x)
      BY FindRootBy
    <3> QED
      BY <2>3, <3>1 DEF Members, MembersBy
  <2>6. Partition = {C[r] : r \in Roots}
    BY <2>5 DEF Partition, Roots
  <2>7. {Component(x, Edges) : x \in Nodes} = {C[Root(x)] : x \in Nodes}
    BY <2>4
  <2>8. {C[Root(x)] : x \in Nodes} = {C[r] : r \in Roots}
    BY <2>2 DEF Roots, IsRoot
  <2>9. Partition = {Component(x, Edges) : x \in Nodes}
    BY <2>6, <2>7, <2>8
  <2> QED
    BY <2>9 DEF CliquesAreComponents, Edges
<1> QED
  BY <1>1, Invariance, PTL
=============================================================================
