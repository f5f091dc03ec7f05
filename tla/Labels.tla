------------------------------- MODULE Labels -------------------------------
(***************************************************************************)
(* csvparser of parse.c, then print_all_cliques and                        *)
(* reinitialize_all_cliques, as main calls them: the labelled rows of the  *)
(* data set become cliques, and every label that follows from them is      *)
(* printed.                                                                *)
(*                                                                         *)
(* The file is read twice.  A row of label 1 does something in the first   *)
(* pass only and a row of label 0 in the second only, so a file is its     *)
(* rows of label 1 followed by its rows of label 0, in any order and       *)
(* number.  It may contradict itself: a row of label 0 may name two nodes  *)
(* of one clique.  find_node succeeds: every spec of a row has been parsed. *)
(***************************************************************************)
EXTENDS Cliques

CONSTANT MaxNegatives       \* bound: pairs of cliques told apart

ASSUME LabelsAssumption == MaxNegatives \in Nat

VARIABLES pc,               \* what main is doing
          at,               \* position in the clique list, when printing
          row,              \* the last row that did something
          output            \* how often each line has been printed

labelVars == <<cliqueVars, pc, at, row, output>>

Row(a, b, label) == [left |-> a, right |-> b, label |-> label]
Rows == [left : Nodes, right : Nodes, label : {0, 1}]

Init ==
  /\ CliquesInit
  /\ pc = "positive" /\ at = 1
  /\ \E x \in Nodes : row = Row(x, x, 1)
  /\ output = [line \in Rows |-> 0]

-----------------------------------------------------------------------------
ReadPositive ==
  /\ pc = "positive"
  /\ \E a, b \in Nodes : /\ JoinSets(a, b)
                         /\ row' = Row(a, b, 1)
  /\ UNCHANGED <<ngl, pc, at, output>>

Rewind ==
  /\ pc = "positive"
  /\ pc' = "negative"
  /\ UNCHANGED <<cliqueVars, at, row, output>>

Told == {xk \in Nodes \X (1 .. 2 * MaxNegatives) : xk[2] \in DOMAIN ngl[xk[1]]}

ReadNegative ==
  /\ pc = "negative" /\ Cardinality(Told) < 2 * MaxNegatives
  /\ \E a, b \in Nodes :
       /\ NeglistAdd(FindRoot(a), FindRoot(b))
       /\ row' = Row(a, b, 0)
  /\ UNCHANGED <<setVars, pc, at, output>>

EndOfFile ==
  /\ pc = "negative"
  /\ pc' = "printCliques"
  /\ UNCHANGED <<cliqueVars, at, row, output>>

-----------------------------------------------------------------------------
\* printf: Times(line) lines are added to what has been printed.
Printf(Times(_)) == output' = [line \in Rows |-> output[line] + Times(line)]

\* print_clique: every node of the list with every later one.
PrintClique ==
  /\ pc = "printCliques" /\ at <= Len(cliques)
  /\ LET clique == Chain(cliques[at])
     IN Printf(LAMBDA line : Cardinality(
                {kl \in (DOMAIN clique) \X (DOMAIN clique) :
                   kl[1] < kl[2] /\ line = Row(clique[kl[1]], clique[kl[2]], 1)}))
  /\ at' = at + 1
  /\ UNCHANGED <<cliqueVars, pc, row>>

CliquesPrinted ==
  /\ pc = "printCliques" /\ at > Len(cliques)
  /\ at' = 1
  /\ pc' = "printNegatives"
  /\ UNCHANGED <<cliqueVars, row, output>>

\* The first entry for r in the negative list of s is not to be printed again.
PrintedAgain(list, r) == list                     \* mutant: line 98 is missing
Printed(list, r) ==
  LET k == SelectInSeq(list, LAMBDA e : e.neg_clique = r)
  IN IF k = 0 THEN list ELSE [list EXCEPT ![k].printed = 0]

\* neglist_print: each entry not marked yet is printed and its counterpart is
\* marked.  The list of r itself is marked at its first entry only, which has
\* been passed by then, so the marks of all entries can be read beforehand.
NeglistPrint ==
  /\ pc = "printNegatives" /\ at <= Len(cliques)
  /\ LET r == cliques[at]
         unmarked == {k \in DOMAIN ngl[r] : ngl[r][k].printed = 1}
         others == {ngl[r][k].neg_clique : k \in unmarked}
         Lines(s) == {Row(x, y, 0) : x \in ToSet(Chain(r)), y \in ToSet(Chain(s))}
     IN /\ Printf(LAMBDA line :
                   Cardinality({k \in unmarked : line \in Lines(ngl[r][k].neg_clique)}))
        /\ ngl' = [s \in Nodes |-> IF s \in others THEN Printed(ngl[s], r) ELSE ngl[s]]
  /\ at' = at + 1
  /\ UNCHANGED <<setVars, pc, row>>

NegativesPrinted ==
  /\ pc = "printNegatives" /\ at > Len(cliques)
  /\ pc' = "printed"
  /\ UNCHANGED <<cliqueVars, at, row, output>>

\* main drops the cliques; all_cliques keeps its representatives.
Reset ==
  /\ pc = "printed"
  /\ Reinitialize
  /\ pc' = "done"
  /\ UNCHANGED <<cliques, at, row, output>>

Done == pc = "done" /\ UNCHANGED labelVars

Next ==
  \/ ReadPositive \/ Rewind         \/ ReadNegative \/ EndOfFile
  \/ PrintClique  \/ CliquesPrinted \/ NeglistPrint \/ NegativesPrinted
  \/ Reset        \/ Done

Spec == Init /\ [][Next]_labelVars

-----------------------------------------------------------------------------
(* Properties *)

\* Types, of the cliques as well.
TypeOK ==
  /\ CliquesTypeOK
  /\ pc \in {"positive", "negative", "printCliques", "printNegatives", "printed", "done"}
  /\ at \in 1 .. Len(cliques) + 1
  /\ row \in Rows /\ output \in [Rows -> Nat]

\* The views of a clique agree until main drops the cliques.
CliqueViewsAgree == pc # "done" => ViewsAgree
CliqueTreesShallow == ShallowTrees

\* The pointer structures are the closure of the rows read so far.
Closure == INSTANCE LabelClosure WITH partition <- Partition, apart <- Apart
ImplementsLabelClosure == Closure!Spec

\* What is printed is the closure: two nodes of a clique are printed once, with
\* label 1 and nothing else; two nodes of cliques told apart are printed once,
\* with label 0 and nothing else, whichever of the two lists comes first in the
\* clique list -- unless both are cliques of a single node, which are on no list
\* and whose rows of label 0 are not printed; no other line is printed.  Of a
\* clique the file tells apart from itself nothing is said but the lines of
\* label 1.
Copies(x, y, label) == output[Row(x, y, label)]
                         + IF x = y THEN 0 ELSE output[Row(y, x, label)]
OutputIsClosure ==
  pc = "printed" =>
    \A x, y \in Nodes :
      LET r == FindRoot(x)  s == FindRoot(y)
          printed0 == r # s /\ InNeglist(r, s) /\ (amount[r] > 1 \/ amount[s] > 1)
      IN /\ Copies(x, y, 1) = IF x # y /\ r = s THEN 1 ELSE 0
         /\ ~InNeglist(r, r) \/ r # s => Copies(x, y, 0) = IF printed0 THEN 1 ELSE 0
=============================================================================
