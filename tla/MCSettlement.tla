---------------------------- MODULE MCSettlement ----------------------------
(* Instances of Settlement for TLC: small customers with equal daily rates.  *)
EXTENDS Settlement

CONSTANTS c1, c2, v1, v2

MCPrice == [c \in Charges |-> IF c = c1 THEN 1 ELSE 2]
MCRate  == [v \in Vehicles |-> 1]
=============================================================================
