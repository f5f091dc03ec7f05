------------------------- MODULE ConflictResolution -------------------------
(***************************************************************************)
(* conflict_resolution of multithreading/routines.c: cliques are built     *)
(* from what the model predicts for the rows of a file, rows that          *)
(* contradict the cliques are conflicts, each conflict found asks for a    *)
(* correction, and the corrected model is tried again.                     *)
(*                                                                         *)
(* A prediction is an integer out of Scale.  The coefficients are what     *)
(* they predict for the rows: an update of them may change every           *)
(* prediction, and so may lead to any.  Two rows with the same nodes in    *)
(* the same order have the same prediction.                                *)
(***************************************************************************)
EXTENDS Cliques

CONSTANTS Files,            \* the files: sequences of rows, a row is <<left, right>>
          Scale,            \* a prediction p stands for p / Scale
          Predictions,      \* the predictions considered
          Threshold,        \* threshold
          MaxIterations     \* 100 in the code

ASSUME ConflictAssumption ==
  /\ \A f \in Files :
       f \in Seq(Nodes \X Nodes) /\ \A k \in DOMAIN f : f[k][1] # f[k][2]
  /\ Scale \in Nat /\ Predictions \subseteq 0 .. Scale /\ Threshold \in 1 .. Scale
  /\ MaxIterations \in Nat \ {0}

VARIABLES file,             \* the rows of file_name
          prediction,       \* what the coefficients predict for each row
          matches,          \* matches of each node: its matchlist
          max_prediction,
          pass, at,         \* which pass reads which row
          i,                \* the iteration
          found,            \* the corrections summed in res_coeffs; their number
                            \* is totalconflicts
          stderr            \* the diagnostics printed

crVars == <<cliqueVars, file, prediction, matches, max_prediction, pass, at, i,
            found, stderr>>

Passes == {"positive", "negative", "conflicts", "update", "done"}

Init ==
  /\ CliquesInit
  /\ file \in Files
  /\ prediction \in [ToSet(file) -> Predictions]
  /\ matches = [x \in Nodes |-> <<>>]
  /\ max_prediction = 0
  /\ pass = "positive" /\ at = 1 /\ i = 0
  /\ found = <<>> /\ stderr = {}

-----------------------------------------------------------------------------
(* The row that is read *)
left == file[at][1]
right == file[at][2]
predicted == prediction[file[at]]
root_a == FindRoot(left)
root_b == FindRoot(right)

Read(p) == pass = p /\ at <= Len(file) /\ at' = at + 1

\* The end of the file: the next pass starts at its beginning.
Rewind(p, q) ==
  /\ pass = p /\ at > Len(file)
  /\ at' = 1 /\ pass' = q
  /\ UNCHANGED <<cliqueVars, file, prediction, matches, max_prediction, i, found, stderr>>

\* matchlist_create where needed, and matchlist_add: each node with the other.
OnlyLeft(m) == m                                   \* mutant: one list only
BothMatched(m) ==
  [m EXCEPT ![right] = Append(@, [matched_with |-> left, prediction |-> predicted])]
MatchlistAdd ==
  matches' = BothMatched(
    [matches EXCEPT ![left] = Append(@, [matched_with |-> right, prediction |-> predicted])])

\* First pass: the rows predicted to match make the cliques.
PositiveRow ==
  /\ Read("positive")
  /\ IF predicted >= Threshold
       THEN JoinSets(root_a, root_b) /\ MatchlistAdd
       ELSE UNCHANGED <<setVars, matches>>
  /\ max_prediction' = IF predicted > max_prediction THEN predicted ELSE max_prediction
  /\ UNCHANGED <<ngl, file, prediction, pass, i, found, stderr>>

\* Second pass: the rows predicted to differ, but for those within a clique.
NoneIgnored == TRUE                                \* mutant: line 320 is missing
AcrossCliques == root_a # root_b
NegativeRow ==
  /\ Read("negative")
  /\ IF predicted < Threshold /\ AcrossCliques
       THEN NeglistAdd(root_a, root_b) /\ MatchlistAdd
       ELSE UNCHANGED <<ngl, matches>>
  /\ UNCHANGED <<setVars, file, prediction, max_prediction, pass, i, found, stderr>>

-----------------------------------------------------------------------------
(* Third pass *)

\* Positions in the two match lists with a common node both are predicted to
\* match, and the one the nested loops come to first.
AnyCommonNode ==                                   \* mutant: predictions not compared
  {kl \in (DOMAIN matches[left]) \X (DOMAIN matches[right]) :
     matches[left][kl[1]].matched_with = matches[right][kl[2]].matched_with}
CommonMatches ==
  {kl \in (DOMAIN matches[left]) \X (DOMAIN matches[right]) :
     LET m1 == matches[left][kl[1]]  m2 == matches[right][kl[2]]
     IN /\ m1.matched_with = m2.matched_with
        /\ m1.prediction >= Threshold /\ m2.prediction >= Threshold}
FirstCommon ==
  CHOOSE kl \in CommonMatches :
    \A mn \in CommonMatches : kl[1] < mn[1] \/ (kl[1] = mn[1] /\ kl[2] <= mn[2])

\* One of the two matches, or the row itself, is corrected.
TypeOneCorrection ==
  LET m1 == matches[left][FirstCommon[1]]
      m2 == matches[right][FirstCommon[2]]
      breaks == (max_prediction - predicted) * Scale > m1.prediction * m2.prediction
  IN [kind |-> 1,
      matched |-> <<m1.prediction, m2.prediction>>,
      towards |-> IF breaks THEN 0 ELSE 1,
      pair |-> CASE breaks /\ m1.prediction > m2.prediction  -> <<left, m1.matched_with>>
                 [] breaks /\ m1.prediction <= m2.prediction -> <<m1.matched_with, right>>
                 [] ~breaks -> <<left, right>>]

TypeTwoCorrection(prediction_repres) ==
  [kind |-> 2,
   matched |-> <<prediction_repres, predicted>>,
   towards |-> IF max_prediction - prediction_repres > predicted THEN 0 ELSE 1,
   pair |-> <<left, right>>]

\* A row predicted to differ is a conflict within a clique, a row predicted to
\* match is a conflict between cliques told apart.
ConflictRow ==
  /\ Read("conflicts")
  /\ \E prediction_repres \in Predictions :
       CASE predicted < Threshold /\ root_a = root_b ->
              IF matches[left] = <<>> \/ matches[right] = <<>>
                THEN stderr' = stderr \cup {"???"} /\ UNCHANGED found
                ELSE /\ found' = IF CommonMatches = {} THEN found
                                 ELSE Append(found, TypeOneCorrection)
                     /\ UNCHANGED stderr
         [] predicted >= Threshold /\ InNeglist(root_a, root_b) ->
              IF prediction_repres >= Threshold
                THEN stderr' = stderr \cup {"the representatives"} /\ UNCHANGED found
                ELSE /\ found' = Append(found, TypeTwoCorrection(prediction_repres))
                     /\ UNCHANGED stderr
         [] OTHER -> UNCHANGED <<found, stderr>>
  /\ UNCHANGED <<cliqueVars, file, prediction, matches, max_prediction, pass, i>>

\* Every structure is dropped; with conflicts the coefficients are updated and
\* the file is read again, up to MaxIterations times.
NoMatches == [x \in Nodes |-> <<>>]
Update ==
  /\ pass = "update"
  /\ Reinitialize
  /\ cliques' = <<>>
  /\ matches' = NoMatches
  /\ i' = i + 1
  /\ found' = <<>>
  /\ IF found = <<>> \/ i' = MaxIterations
       THEN pass' = "done" /\ UNCHANGED prediction
       ELSE pass' = "positive" /\ prediction' \in [ToSet(file) -> Predictions]
  /\ UNCHANGED <<file, max_prediction, at, stderr>>

Done == pass = "done" /\ UNCHANGED crVars

Next ==
  \/ PositiveRow \/ Rewind("positive", "negative")
  \/ NegativeRow \/ Rewind("negative", "conflicts")
  \/ ConflictRow \/ Rewind("conflicts", "update")
  \/ Update      \/ Done

Spec == Init /\ [][Next]_crVars

-----------------------------------------------------------------------------
(* Properties *)

\* Types, of the cliques as well.
TypeOK ==
  /\ CliquesTypeOK
  /\ file \in Files /\ prediction \in [ToSet(file) -> Predictions]
  /\ matches \in [Nodes -> Seq([matched_with : Nodes, prediction : Predictions])]
  /\ max_prediction \in Predictions \cup {0}
  /\ pass \in Passes /\ at \in 1 .. Len(file) + 1 /\ i \in 0 .. MaxIterations
  /\ found \in Seq([kind : {1, 2}, matched : Predictions \X Predictions,
                    towards : {0, 1}, pair : Nodes \X Nodes])
  /\ stderr \subseteq {"???", "the representatives"}

\* In every iteration the cliques are the connected components of the rows
\* predicted to match that have been read: nothing is left of the iteration
\* before, whose coefficients are gone.
RowsRead == IF pass = "positive" THEN 1 .. at - 1
            ELSE IF pass = "done" THEN {} ELSE DOMAIN file
Component(x, E) ==
  LET near[n \in 0 .. Cardinality(Nodes)] ==
        IF n = 0 THEN {x}
        ELSE near[n - 1] \cup {y \in Nodes : \E z \in near[n - 1] :
                                               <<y, z>> \in E \/ <<z, y>> \in E}
  IN near[Cardinality(Nodes)]
CliquesAreComponents ==
  LET E == {file[k] : k \in {l \in RowsRead : prediction[file[l]] >= Threshold}}
  IN Partition = {Component(x, E) : x \in Nodes}

\* A match list tells the truth about the cliques: a node is listed with a
\* prediction that reaches the threshold only if it is in the same clique, and
\* with a lower one only if it is in another; and it lists the owner in turn, as
\* often and with the same predictions.
MatchesFollowCliques ==
  \A x \in Nodes : \A k \in DOMAIN matches[x] :
    LET m == matches[x][k]
        Same(e, y) == e.matched_with = y /\ e.prediction = m.prediction
        Count(z, y) == Cardinality({l \in DOMAIN matches[z] : Same(matches[z][l], y)})
    IN /\ m.prediction >= Threshold <=> FindRoot(x) = FindRoot(m.matched_with)
       /\ Count(x, m.matched_with) = Count(m.matched_with, x)

\* The second case of README.md:152 never occurs, which README.md only says was
\* never observed: a row predicted to match was merged in the first pass, so its
\* cliques are one, and the negative lists tell different cliques apart.
NoTypeTwoConflict ==
  /\ \A k \in DOMAIN found : found[k].kind = 1
  /\ "the representatives" \notin stderr

\* The branch of routines.c:369-370 is dead: a node in a clique with another
\* has been matched.
CliqueNodesHaveMatches == "???" \notin stderr

\* Neither the branch for conflicts of the second kind (routines.c:397-425) nor the one
\* for a node of a clique without matches is ever taken, in any iteration: the order of
\* the passes and the symmetry of the match lists rule them out.
DeadBranchesStayDead == NoTypeTwoConflict /\ CliqueNodesHaveMatches

\* A correction is made to what the model said: towards 0 only of two nodes it
\* predicted to match, in a row of the file, towards 1 only of a row it
\* predicted to differ.
CorrectsWhatWasPredicted ==
  \A k \in DOMAIN found :
    LET x == found[k].pair[1]  y == found[k].pair[2]
    IN IF found[k].towards = 0
         THEN \E r \in {<<x, y>>, <<y, x>>} \cap ToSet(file) : prediction[r] >= Threshold
         ELSE <<x, y>> \in ToSet(file) /\ prediction[<<x, y>>] < Threshold

\* README.md:151: two nodes of a clique predicted to differ have a common node in
\* their match lists; so every such row is a conflict that is found.
EveryConflictIsFound ==
  pass = "update" =>
    Len(found) = Cardinality({k \in DOMAIN file :
                   /\ prediction[file[k]] < Threshold
                   /\ FindRoot(file[k][1]) = FindRoot(file[k][2])})

\* routines.c:385-386 and README.md:151: of the two matches the one that is more
\* likely stays, the smaller prediction is corrected.
SmallerIsCorrected ==
  \A k \in DOMAIN found : found[k].kind = 1 /\ found[k].towards = 0 =>
    LET p == found[k].matched
    IN p[1] # p[2] =>
         \E r \in {found[k].pair, <<found[k].pair[2], found[k].pair[1]>>} \cap ToSet(file) :
           prediction[r] = IF p[1] < p[2] THEN p[1] ELSE p[2]
=============================================================================
