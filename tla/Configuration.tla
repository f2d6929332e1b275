---------------------------- MODULE Configuration ----------------------------
(***************************************************************************)
(* Commands, the worker and a third party with an editor around one         *)
(* configuration: ConfigApply and ConfigObserve with crashes.               *)
(***************************************************************************)
EXTENDS ConfigObserve

\* Anyone who may write the file may write it at any time.
EditLive ==
  /\ \E c \in Edits \ {live} : live' = c /\ edits' = edits \cup {c}
  /\ UNCHANGED <<storeVars, binding, rawFiles, stage, lock, loaded, actor, troubles>>

Crash(p) ==
  /\ ~At(p, "idle") /\ Rest(p)
  /\ lock' = IF lock = p THEN Absent ELSE lock
  /\ Trouble
  /\ UNCHANGED <<storeVars, fileVars, loaded, edits>>

Next ==
  \/ \E p \in Procs : \/ StartCommand(p) \/ StartApply(p)
                      \/ Compose(p) \/ LaunchWorker(p)
  \/ \E p \in Procs : ConfigStep(p) \/ Crash(p)
  \/ \E p \in Actors : ObserveStep(p)
  \/ StartCheck \/ Reserve \/ FinishRun \/ StopWorker
  \/ EditLive

Spec == Init /\ [][Next]_vars

(* ------------------------------ properties ------------------------------ *)

PCs == {"idle", "down", "read", "reconcile", "rec_swap", "rec_reread",
        "rec_remove", "rec_settle", "look", "check", "apply_lock", "begin",
        "stage", "swap", "captured", "verify", "settle", "bind",
        "adopt", "prune_lock", "prune", "prune_claims", "prune_more", "compose",
        "launch", "live", "drift", "relive", "redrift", "effective", "reserve"}
Jobs == {"none", "load", "loaded", "apply", "replace", "settled", "check"}
Read == [desired : Nat, effective : BOOLEAN, version : Nat, intent : Nat]

\* The bytes behind the desired configuration, and behind both sides of an
\* intent, are in the raw directory: pruning, a claim left by a crash and the
\* cleanup of a refused apply never take what a restart or a reconciliation
\* must read.
RawKept ==
  /\ Desired # 0 => DigestOf(Desired) \in rawFiles
  /\ \A g \in Incomplete : {DigestOf(g), DigestOf(generations[g].parent)} \subseteq rawFiles

\* Without an unsettled intent the live file is the desired one or what a third
\* party wrote: an exchange that failed, or died, halfway leaves neither the
\* replaced configuration nor its target behind.
LiveAccounted ==
  Incomplete = {} /\ Desired # 0 => live \in {DigestOf(Desired)} \cup edits

\* A content no operation ever named: only a third party wrote it.
Unknown(c) == c # Absent /\ \A g \in DOMAIN generations : DigestOf(g) # c

Lost == {c \in {live, stage.content} : Unknown(c) /\ c \notin {live', stage'.content}}

\* Wherever the exchange of the live file, or its reconciliation, is interrupted,
\* no configuration of the controller's replaces an edit: an edit is given up
\* only for what a third party wrote as well.
EditsKept == [][Lost # {} => live' \in edits']_vars

\* An edit made while the exchange takes place is restored, not overwritten.
\* The code keeps this of one edit: what is written to the live file while an
\* earlier edit is in the swap file goes with the swap file.
ConcurrentEditRestored == [][Lost = {} \/ EditLive]_vars

\* Every nonterminal run is admitted under a configuration from which the
\* desired one, and the one an apply is about to make desired, keep what the
\* run needs: the gate of new runs and the acceptance of an apply exclude each
\* other across their separate reads.
ActiveRunSupported ==
  \A r \in active : /\ <<r, DigestOf(Desired)>> \in Compatible
                    /\ \A g \in Incomplete : <<r, DigestOf(g)>> \in Compatible

\* An outcome once recorded stands: what one process told its caller, a
\* reconciliation that started from an older read never settles differently.
OutcomeFinal ==
  [][\A g \in DOMAIN generations : Status(g) # "accepted" => Status(g)' = Status(g)]_vars
==============================================================================
