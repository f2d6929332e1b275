---------------------------- MODULE DeliveryFinish ----------------------------
(***************************************************************************)
(* What follows a merge: the operator's acceptance of one made outside the  *)
(* controller (application/external_merge.go), the bounded observation of   *)
(* Linear (linear_completion.go), and the removal of what the controller    *)
(* owns (cleanup.go with the Git adapter).                                  *)
(***************************************************************************)
EXTENDS DeliveryMerge

\* validateExternalMergeEvidence reads only the store: what the last
\* reconciliation kept and the reason it stopped for.
AcceptExternalMerge ==
  /\ At("idle") /\ st = "manual_intervention" /\ outside
  /\ pr = [state |-> "merged", head |-> head, green |-> TRUE] /\ approval[head] # 0
  /\ merge \in {NoMerge, [head |-> head, method |-> "external"]}
  /\ merge' = [head |-> head, method |-> "external"]
  /\ MoveTo("awaiting_linear_completion")
  /\ UNCHANGED <<runVars, effectVars, reviewVars, owned, linear, cleanup, hub, seen, troubles>>
-----------------------------------------------------------------------------
\* The observation is saved first and the run moved in a second transaction.
Observe(status, to) ==
  /\ linear' = [count |-> IF linear.count < MaxObservations THEN linear.count + 1
                           ELSE linear.count,
                last |-> status]
  /\ IF to = "stay" THEN Return ELSE MoveTo(to) /\ UNCHANGED seen
  /\ UNCHANGED <<runVars, effectVars, reviewVars, merge, owned, cleanup, hub>>

CanObserve == At("idle") /\ st = "awaiting_linear_completion" /\ merge # NoMerge

ReconcileLinearTimeout ==
  /\ CanObserve /\ linear.count = MaxObservations /\ Reliably
  /\ Observe("timeout", "manual_intervention")

\* A failed read stops the run; a completion that predates the merge is a
\* conflict, like a cancelled issue.
ReconcileLinear ==
  /\ CanObserve /\ linear.count < MaxObservations
  /\ \/ Fault /\ Observe("error", "manual_intervention")
     \/ /\ Reliably
        /\ CASE hub.issue = "completed" -> Observe("completed", "cleaning")
             [] hub.issue = "started" /\ linear.count + 1 < MaxObservations
                                        -> Observe("pending", "stay")
             [] hub.issue = "started" /\ linear.count + 1 = MaxObservations
                                        -> Observe("timeout", "manual_intervention")
             [] OTHER                   -> Observe("conflict", "manual_intervention")

-----------------------------------------------------------------------------
CleanupGate == merge.head = head /\ linear.last = "completed"

\* SyncSourceCheckout advances the operator's own checkout; a retryable failure
\* ends the command there, another skip does not.
StartCleanup ==
  /\ At("idle") /\ st = "cleaning" /\ CleanupGate /\ Reliably
  /\ "remote_branch" \in owned
  /\ job' = [Idle EXCEPT !.at = "clean", !.to = "worktree"]
  /\ KeepStore /\ UNCHANGED <<hub, seen>>

\* The order of CleanupOwned.
Following(r) == CASE r = "worktree"      -> "remote_branch"
                  [] r = "remote_branch" -> "local_branch"
                  [] OTHER               -> "stay"

\* After the last resource the handler looks back at what failed.
NextResource ==
  LET next == Following(job.to) IN
  job' = [job EXCEPT !.at = IF next = "stay" THEN "clean_end" ELSE "clean", !.to = next]

SkipResource ==
  /\ At("clean") /\ cleanup[job.to] = "deleted"
  /\ NextResource
  /\ KeepStore /\ UNCHANGED <<hub, seen, troubles>>

IntendCleanup ==
  /\ At("clean") /\ cleanup[job.to] # "deleted"
  /\ cleanup' = [cleanup EXCEPT ![job.to] = "intent"]
  /\ Go("clean_apply")
  /\ UNCHANGED <<runVars, effectVars, reviewVars, merge, owned, linear, hub, seen, troubles>>

\* Each adapter call checks that the resource is still the one it owns; what is
\* already gone counts as removed.
Removable(r) == CASE r = "worktree"      -> TRUE
                  [] r = "remote_branch" -> hub.branch \in {NoHead, head}
                  [] OTHER               -> "worktree" \notin hub.local
Removed(r)   == IF r = "remote_branch" THEN [hub EXCEPT !.branch = NoHead]
                                       ELSE [hub EXCEPT !.local = @ \ {r}]
Applied(result) == job' = [job EXCEPT !.at = "clean_save", !.fin = result]

ApplyCleanup ==
  /\ At("clean_apply")
  /\ \/ Reliably /\ Removable(job.to) /\ hub' = Removed(job.to) /\ Applied("observed")
     \/ Reliably /\ ~Removable(job.to) /\ UNCHANGED hub /\ Applied("failed")
     \/ /\ Fault /\ Applied("failed")
        /\ hub' \in {hub} \cup (IF Removable(job.to) THEN {Removed(job.to)} ELSE {})
  /\ KeepStore /\ UNCHANGED seen

SaveCleanup ==
  /\ At("clean_save")
  /\ cleanup' = [cleanup EXCEPT ![job.to] = IF job.fin = "observed" THEN "deleted"
                                            ELSE "failed"]
  /\ NextResource
  /\ UNCHANGED <<runVars, effectVars, reviewVars, merge, owned, linear, hub, seen, troubles>>

\* Faulty: ends the run although a resource was not removed.
EndCleanupPartial ==
  /\ At("clean_end")
  /\ MoveTo("completed")
  /\ KeepStore /\ UNCHANGED <<hub, seen, troubles>>

\* Completed only if nothing failed; what did is retried by the next command.
EndCleanup ==
  /\ At("clean_end")
  /\ IF \A r \in Resource : cleanup[r] = "deleted"
     THEN MoveTo("completed") /\ UNCHANGED seen
     ELSE Return
  /\ KeepStore /\ UNCHANGED <<hub, troubles>>

CleanupStep == \/ StartCleanup \/ SkipResource \/ IntendCleanup \/ ApplyCleanup
               \/ SaveCleanup \/ EndCleanup
=============================================================================
