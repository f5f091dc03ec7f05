------------------------------ MODULE MCLabels ------------------------------
(* Labels on a few specs, which are interchangeable. *)
EXTENDS Labels, TLC

Symmetry == Permutations(Nodes)
=============================================================================
