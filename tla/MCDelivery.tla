----------------------------- MODULE MCDelivery -----------------------------
(* Instances of Delivery for the model checker.                              *)
EXTENDS Delivery
=============================================================================
