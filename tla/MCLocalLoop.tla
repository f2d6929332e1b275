----------------------------- MODULE MCLocalLoop -----------------------------
(* Instances of LocalLoop for the model checker.                             *)
EXTENDS LocalLoop
=============================================================================
