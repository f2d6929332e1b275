---------------------------- MODULE DeliveryMerge ----------------------------
(***************************************************************************)
(* The controller's one merge write (application/merge.go with the GitHub   *)
(* App client): a fresh read of the gates, a durable intent, the PUT, and   *)
(* what is done when its answer is a refusal, is lost, or was never         *)
(* recorded.  A refusal by a protection that wants the controller's reply   *)
(* resolved starts a read-only wait (awaiting_github_mergeability) that     *)
(* keeps the topology it saw, and one guarded retry follows.                *)
(***************************************************************************)
EXTENDS DeliveryReview

\* authorizeProductionMerge: the approval recorded for the head and the one on
\* GitHub now, with passing checks on an open pull request.
Authorized(h) == Passing(h) /\ Approved(h) /\ approval[head] # 0

\* controllerRepliedMergeThreads: the threads that carry a controller reply,
\* none when the authority of the root they answer is gone.
Tracked(h)    == fb.phase = "replied" /\ fb.root \in h.asked
Unresolved(h) == h.root # NoHead /\ ~h.resolved
MergeEffect   == side["merge"][head]
-----------------------------------------------------------------------------
StartMerge ==
  /\ At("idle") /\ st = "merging" /\ Revalidated /\ Reliably
  /\ pr.state # "none" /\ approval[head] # 0 /\ hub.prHead = head
  /\ seen' = hub
  /\ CASE hub.pr = "merged" /\ MergeEffect # "none"  -> Go("merge_save")
       [] hub.pr # "merged" /\ Authorized(hub)       -> Go("merge_begin")
       [] OTHER                                      -> MoveTo("manual_intervention")
  /\ KeepStore /\ UNCHANGED hub

\* One transaction: the refused effect, the topology seen, and the wait.
RecordMergePolicyPending ==
  /\ side' = [side EXCEPT !["merge"][head] = "failed"]
  /\ policy' = seen.notes
  /\ st' = "awaiting_github_mergeability" /\ outside' = FALSE
  /\ Return
  /\ UNCHANGED <<head, posts, reviewVars, closeVars, hub, troubles>>

\* A retry is owed to the topology that was refused and to no other.
SameTopology == Tracked(seen) /\ seen.notes = policy

BeginMergeFresh ==
  /\ At("merge_begin")
  /\ MergeEffect \in {"none", "observed"} \/ (MergeEffect = "failed" /\ policy = NoPolicy)
  /\ BeginSideEffect("merge")
  /\ Go("merge_put")
  /\ OnlySide /\ UNCHANGED <<hub, seen, troubles>>

\* An intent without an outcome, or a refusal whose topology moved.
BeginMergeRefused ==
  /\ At("merge_begin")
  /\ \/ MergeEffect = "intent"
     \/ MergeEffect = "failed" /\ policy # NoPolicy /\ ~SameTopology
  /\ Fail("merge", "manual_intervention")
  /\ KeepStore /\ UNCHANGED <<hub, seen, troubles>>

BeginMergeUnresolved ==
  /\ At("merge_begin")
  /\ MergeEffect = "failed" /\ policy # NoPolicy /\ SameTopology /\ Unresolved(seen)
  /\ RecordMergePolicyPending

RetryMergeSideEffect ==
  /\ At("merge_begin")
  /\ MergeEffect = "failed" /\ policy # NoPolicy /\ SameTopology /\ ~Unresolved(seen)
  /\ side' = [side EXCEPT !["merge"][head] = "intent"] /\ policy' = NoPolicy
  /\ Go("merge_put")
  /\ UNCHANGED <<runVars, posts, reviewVars, closeVars, hub, seen, troubles>>
-----------------------------------------------------------------------------
\* SquashMerge: a preflight, the PUT, and a read of what it did.
AtMergeTarget == hub.pr = "open" /\ hub.prHead = head
Merged(who)   == [hub EXCEPT !.pr = "merged", !.by = who]

PutMergeMismatch ==
  /\ At("merge_put") /\ ~AtMergeTarget /\ Reliably
  /\ Fail("merge", "manual_intervention")
  /\ KeepStore /\ UNCHANGED <<hub, seen>>

\* GitHub refuses (405, 409, 422) what a protection of the branch forbids.
PutMergeBlocked ==
  /\ At("merge_put") /\ AtMergeTarget /\ Reliably
  /\ Protected /\ Unresolved(hub)
  /\ Go("merge_await")
  /\ KeepStore /\ UNCHANGED <<hub, seen>>

PutMerge ==
  /\ At("merge_put") /\ AtMergeTarget /\ Reliably
  /\ ~(Protected /\ Unresolved(hub))
  /\ hub' = Merged("controller")
  /\ Go("merge_save")
  /\ KeepStore /\ UNCHANGED seen

\* Faulty: takes a lost answer for an accepted merge.
PutMergeAssumed ==
  /\ At("merge_put") /\ AtMergeTarget /\ Fault
  /\ Go("merge_save") /\ UNCHANGED hub
  /\ KeepStore /\ UNCHANGED seen

\* A forbidden request, a refusal for another reason, or an answer that is lost
\* when the merge may have landed (recordMergeUncertain).
PutMergeFails ==
  /\ At("merge_put") /\ AtMergeTarget /\ Fault
  /\ \/ Fail("merge", "manual_intervention") /\ UNCHANGED hub
     \/ Go("merge_await") /\ UNCHANGED hub
     \/ /\ Fail("merge", "stay")
        /\ hub' \in {hub} \cup (IF Protected /\ Unresolved(hub) THEN {}
                                ELSE {Merged("controller")})
  /\ KeepStore /\ UNCHANGED seen

\* awaitMergePolicyResolution: a refusal alone is no evidence of a policy.
AwaitMergePolicy ==
  /\ At("merge_await") /\ Reliably
  /\ seen' = hub
  /\ CASE hub.prHead # head -> Fail("merge", "stay")
       [] hub.prHead = head /\ Authorized(hub) /\ Tracked(hub) /\ Unresolved(hub)
            -> Go("merge_pending")
       [] OTHER -> Fail("merge", "manual_intervention")
  /\ KeepStore /\ UNCHANGED hub

AwaitMergePolicyFails ==
  /\ At("merge_await") /\ Fault
  /\ Fail("merge", "stay")
  /\ KeepStore /\ UNCHANGED <<hub, seen>>

SaveMergePolicyPending == At("merge_pending") /\ RecordMergePolicyPending

SaveMerge ==
  /\ At("merge_save")
  /\ merge' = [head |-> head, method |-> "squash"]
  /\ Settle("merge", "observed", "awaiting_linear_completion")
  /\ UNCHANGED <<runVars, effectVars, reviewVars, owned, linear, cleanup, hub, seen, troubles>>

MergeStep == \/ StartMerge \/ BeginMergeFresh \/ BeginMergeRefused \/ BeginMergeUnresolved
             \/ RetryMergeSideEffect \/ PutMergeMismatch \/ PutMergeBlocked \/ PutMerge
             \/ PutMergeFails \/ AwaitMergePolicy \/ AwaitMergePolicyFails
             \/ SaveMergePolicyPending \/ SaveMerge
-----------------------------------------------------------------------------
(***************************************************************************)
(* reconcileMergeability only reads; what it saves it saves at once.        *)
(***************************************************************************)
ReadMergeability ==
  /\ At("idle") /\ st = "awaiting_github_mergeability" /\ Reconcilable /\ Reliably
  /\ IF MergeEffect = "failed" /\ policy # NoPolicy
     THEN /\ pr.head = head /\ hub.prHead = head
          /\ seen' = hub /\ Go("mergeability_save")
     ELSE MoveTo("manual_intervention") /\ UNCHANGED seen
  /\ KeepStore /\ UNCHANGED hub

\* Where an approved, passing head goes.
NextMergeability(h) ==
  CASE ~Tracked(h) \/ h.notes # policy -> "manual_intervention"
    [] Tracked(h) /\ h.notes = policy /\ Unresolved(h) -> "awaiting_github_mergeability"
    [] OTHER -> "merging"

SaveMergeability ==
  LET status == HumanApproval(seen)
      task   == [seen EXCEPT !.issue = "started"]  \* this read does not look at Linear
  IN
  /\ At("mergeability_save")
  /\ CASE ~Passing(seen) ->
            SaveGitHubReadSuccess(seen, "reconciling_reviews", FALSE, FALSE)
       [] Passing(seen) /\ status = "changes" ->
            SaveGitHubReadSuccess(seen, IF FeedbackDrift(seen) THEN "manual_intervention"
                                        ELSE NextState(task), TRUE, FALSE)
       [] Passing(seen) /\ status \in {"none", "dismissed", "stale"} ->
            SaveGitHubReadSuccess(seen, "awaiting_human_approval", FALSE, FALSE)
       [] Passing(seen) /\ status = "approved" ->
            LET to == NextMergeability(seen) IN
            /\ to = "manual_intervention" \/ ~ApprovalConflicts(seen)
            /\ SaveGitHubReadSuccess(seen, to, FALSE, to # "manual_intervention")
  /\ Return
  /\ UNCHANGED <<effectVars, closeVars, hub, troubles>>

SaveMergeabilityConflict ==
  /\ At("mergeability_save") /\ Passing(seen) /\ Approved(seen)
  /\ NextMergeability(seen) # "manual_intervention" /\ ApprovalConflicts(seen)
  /\ Return
  /\ KeepStore /\ UNCHANGED <<hub, troubles>>

MergeabilityStep == ReadMergeability \/ SaveMergeability \/ SaveMergeabilityConflict
=============================================================================
