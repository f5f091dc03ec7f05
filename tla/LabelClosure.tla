---------------------------- MODULE LabelClosure ----------------------------
(***************************************************************************)
(* What the clique structures stand for: the rows of a data set with label *)
(* 1 generate an equivalence relation on the specs, its classes are the    *)
(* cliques; once they are complete, a row with label 0 tells two cliques   *)
(* apart, and it tells it both ways.                                       *)
(***************************************************************************)
EXTENDS Integers

CONSTANT Nodes

VARIABLES row,              \* the last row that was taken into account
          partition,        \* the cliques
          apart             \* ordered pairs of cliques that differ

cvars == <<row, partition, apart>>

Rows == [left : Nodes, right : Nodes, label : {0, 1}]
BlockOf(x) == CHOOSE B \in partition : x \in B
Blocks == {BlockOf(row'.left), BlockOf(row'.right)}

Init == /\ partition = {{x} : x \in Nodes}
        /\ apart = {}
        /\ row \in Rows /\ row.left = row.right /\ row.label = 1

Positive ==
  /\ row.label = 1 /\ row' \in Rows /\ row'.label = 1
  /\ partition' = (partition \ Blocks) \cup {UNION Blocks}
  /\ UNCHANGED apart

Negative ==
  /\ row' \in Rows /\ row'.label = 0
  /\ apart' = apart \cup {<<BlockOf(row'.left), BlockOf(row'.right)>>,
                          <<BlockOf(row'.right), BlockOf(row'.left)>>}
  /\ UNCHANGED partition

\* Everything is dropped when the cliques are not needed any more.
Forget ==
  /\ partition' = {{x} : x \in Nodes}
  /\ apart' = {}
  /\ UNCHANGED row

Next == Positive \/ Negative \/ Forget
Spec == Init /\ [][Next]_cvars
=============================================================================
