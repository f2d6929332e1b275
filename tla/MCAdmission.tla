----------------------------- MODULE MCAdmission -----------------------------
(* Two issues of two repositories.                                           *)
EXTENDS Admission

MCRepository == [i \in Issues |-> i]
=============================================================================
