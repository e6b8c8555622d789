--------------------------- MODULE MCFlowRegistry ---------------------------
(* Instances of FlowRegistry for TLC.                                       *)
EXTENDS FlowRegistry, TLC

CONSTANTS p0, p1, p2, a, b

(* Two applications on one host, one on another; all kinds of flows.        *)
TwoHosts == (p0 :> a) @@ (p1 :> a) @@ (p2 :> b)
AllKinds == (p0 :> {"bw", "read"}) @@ (p1 :> {"lat"}) @@ (p2 :> {"tput"})
OneTwice == (p0 :> 2) @@ (p1 :> 1) @@ (p2 :> 1)

OneHost == (p0 :> a) @@ (p1 :> a)
OnceEach == (p0 :> 1) @@ (p1 :> 1)
TputAndBw == (p0 :> {"tput"}) @@ (p1 :> {"bw"})
=============================================================================
