------------------------- MODULE MCReceiverUpdates -------------------------
(* Instances of ReceiverUpdates for TLC.                                    *)
EXTENDS ReceiverUpdates

(* An arrival of a big flow, and the exit of a small one that was never     *)
(* announced, which takes the counter below zero.                          *)
IncAndDec == {"big_inc", "small_dec"}

OnlyBig == {"big_inc"}
=============================================================================
