------------------------- MODULE MCCompletionQueue -------------------------
(* Instances of CompletionQueue for TLC.                                   *)
EXTENDS CompletionQueue, TLC
CONSTANTS q0, q1
Alike == Permutations(QPs)
=============================================================================
