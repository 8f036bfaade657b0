--------------------------- MODULE MCUpdateDelivery ---------------------------
(* UpdateDelivery on two instances, with one more request than an instance   *)
(* has slots.                                                                *)
EXTENDS UpdateDelivery, TLC

CONSTANTS w1, w2, w3, i1, i2

MCInstanceOf == (w1 :> i1) @@ (w2 :> i1) @@ (w3 :> i2)
=============================================================================
