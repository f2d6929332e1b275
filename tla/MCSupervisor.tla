---------------------------- MODULE MCSupervisor ----------------------------
(* The worker process over the store, on one and on two runs.  Goroutines   *)
(* are interchangeable; runs are not, since the scheduler orders them.      *)
EXTENDS Supervisor, TLC

MCBindings == {"b1", "b2"}
SharedRepository     == <<"b1", "b1">>
DistinctRepositories == <<"b1", "b2">>
OneRepository        == <<"b1">>
Symmetry             == Permutations(Workers)
=============================================================================
