--------------------------- MODULE MCImportantWords ---------------------------
(* Two texts of up to three words out of four and a stop word; every vector    *)
(* starts with room for one word; all specs are in one bucket.                 *)
EXTENDS ImportantWords

OneBucket == [s \in Specs |-> 0]
Logarithms == <<301, 0>>    \* log10(2), log10(1), times 1000
=============================================================================
