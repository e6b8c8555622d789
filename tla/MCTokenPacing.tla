---------------------------- MODULE MCTokenPacing ----------------------------
(* Instances of TokenPacing for TLC.                                        *)
EXTENDS TokenPacing, TLC

CONSTANT t0

OneFlowOf == (t0 :> 0)

(* Calls whose first WR is short and whose second is not.                   *)
ShortThenLong == {<<1>>, <<1, 9>>}
=============================================================================
