--------------------------- MODULE MCSplitTwoSided ---------------------------
(* Instances of SplitTwoSided for TLC.                                      *)
EXTENDS SplitTwoSided

CONSTANTS a, b

(* One end sends two messages, the other one.                               *)
TwoAndOne == [s \in {a, b} |-> IF s = a THEN 2 ELSE 1]
=============================================================================
