------------------------------- MODULE MCRetry -------------------------------
(* One run whose drives fail in the states around verification. *)
EXTENDS RetrySchedule
=============================================================================
