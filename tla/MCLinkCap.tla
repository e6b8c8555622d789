------------------------------ MODULE MCLinkCap ------------------------------
(* Instances of LinkCap for TLC.                                            *)
EXTENDS LinkCap, TLC

CONSTANTS a, b, p, q

OneEach == (p :> a) @@ (q :> b)
=============================================================================
