---------------------------- MODULE MCScheduling ----------------------------
(* The store under arbitrary clients, on two runs of one repository, the     *)
(* first left by an older database, so that quarantine happens.              *)
EXTENDS Scheduling

MCBindings == {"b1", "b2"}
SharedRepository == <<"b1", "b1">>
=============================================================================
