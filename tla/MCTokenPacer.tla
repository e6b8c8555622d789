---------------------------- MODULE MCTokenPacer ----------------------------
(* Instances of TokenPacer for TLC.                                         *)
EXTENDS TokenPacer, TLC

CONSTANTS t0, t1, t2

(* Slot 0 belongs to a process with two posting threads.                    *)
SharedFlowOf == (t0 :> 0) @@ (t1 :> 0) @@ (t2 :> 1)

TwoFlowOf == (t0 :> 0) @@ (t1 :> 1)

(* One WR; and a WR that is cut in two at the small chunk size, with and   *)
(* without a second WR behind it.                                          *)
OneWR == {<<1>>}
OneOrCut == {<<1>>, <<2, 1>>}
=============================================================================
