------------------------ MODULE MCConflictResolution ------------------------
(* ConflictResolution on every file of three rows over four specs, and on    *)
(* files of four rows: a clique of four that its last row contradicts, and a *)
(* row that is read in both directions.                                      *)
EXTENDS ConflictResolution, TLC

Symmetry == Permutations(Nodes)

Pairs == {<<x, y>> \in Nodes \X Nodes : x # y}
Paths == {<< <<p[1], p[2]>>, <<p[2], p[3]>>, <<p[3], p[4]>>, <<p[1], p[4]>> >> :
            p \in {q \in [1 .. 4 -> Nodes] : Cardinality(ToSet(q)) = 4}}
BothWays == {<< <<p[1], p[2]>>, <<p[3], p[2]>>, <<p[2], p[1]>>, <<p[1], p[3]>> >> :
               p \in {q \in [1 .. 3 -> Nodes] : Cardinality(ToSet(q)) = 3}}
SmallFiles == [1 .. 3 -> Pairs] \cup Paths \cup BothWays
=============================================================================
