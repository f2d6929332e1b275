---------------------------- MODULE DeliveryReview ----------------------------
(***************************************************************************)
(* Reconciling a pull request with what GitHub shows of it (ReconcileFrom-  *)
(* GitHub, reconcileLocked and SaveGitHubReadSuccess), the repair that a    *)
(* request for changes starts, and the controller's one reply to the inline *)
(* root it repaired (application/review_reply.go).                          *)
(*                                                                          *)
(* A read of GitHub is one step: the client takes the reviews and the pull  *)
(* request several times and refuses a read in which they moved.  Requests  *)
(* for changes have at most one inline root per run, and at most one        *)
(* request per head.                                                        *)
(***************************************************************************)
EXTENDS DeliveryPublish

\* What a read h shows of the run's head.
Passing(h)  == h.pr = "open" /\ h.checks[head] = "pass"
Completed(h) == h.issue \in {"early", "completed"}

\* Faulty: takes the approval of an earlier head.
HumanApprovalOfAnyHead(h) == h.review.kind

\* NormalizeHumanApproval: the latest review decides.
HumanApproval(h) ==
  CASE h.review.kind = "approved" /\ h.review.head = head -> "approved"
    [] h.review.kind = "approved" /\ h.review.head # head -> "stale"
    [] OTHER                                              -> h.review.kind
Approved(h) == HumanApproval(h) = "approved"

\* NormalizeTrustedChangesRequested: an exact-head request with its open root
\* is feedback; one without is a topology the controller does not support.
RootObserved(h)   == h.root = head /\ ~h.resolved
TrustedChanges(h) == head \in h.asked /\ RootObserved(h)
Unsupported(h)    == head \in h.asked /\ ~RootObserved(h)

\* TrustedFeedbackDrift: unfinished feedback no longer shows what was admitted.
FeedbackDrift(h) == /\ fb.phase \in {"observed", "selected"}
                    /\ \/ fb.root # h.prHead \/ h.resolved
                       \/ fb.root \notin h.asked

Outstanding == fb.phase \in {"verified", "pending"} /\ fb.bound = head

(***************************************************************************)
(* Where a read sends the run.  The rules of reconcileLocked apply in the   *)
(* code's order, each to what the ones before it left.                      *)
(***************************************************************************)
GateState(h) ==
  IF h.pr # "open" THEN "manual_intervention"
  ELSE IF st = "pr_open" THEN "reconciling_reviews"
  ELSE CASE h.checks[head] = "pass"    -> "awaiting_human_approval"
         [] h.checks[head] = "fail"    -> "repairing"
         [] h.checks[head] = "pending" -> "reconciling_reviews"

Stopped(h) == \/ GateState(h) = "manual_intervention"
              \/ Completed(h) /\ h.pr # "merged"
              \/ Unsupported(h)

AfterFeedback(h) ==
  CASE Stopped(h)                                -> "manual_intervention"
    [] ~Stopped(h) /\ TrustedChanges(h) /\ st # "pr_open" -> "repairing"
    [] OTHER                                     -> GateState(h)

\* Faulty: forgets that a repaired root still waits for its reply.
NextStateUnanswered(h) ==
  IF ~Completed(h) /\ st = "awaiting_human_approval" /\ Passing(h) /\ Approved(h)
  THEN "merging" ELSE AfterFeedback(h)

NextState(h) ==
  LET replies == /\ AfterFeedback(h) # "manual_intervention" /\ Passing(h)
                 /\ CanTransition(st, "replying_review_feedback") /\ Outstanding IN
  CASE replies -> "replying_review_feedback"
    [] /\ ~replies /\ ~Completed(h) /\ st = "awaiting_human_approval"
       /\ Passing(h) /\ Approved(h) -> "merging"
    [] OTHER -> AfterFeedback(h)

\* SaveGitHubReadSuccess keeps at most one approval of a head; another review
\* approving the same head is a conflict, and nothing of the read is kept.
ApprovalConflicts(h) == approval[head] \notin {0, h.review.id}

Observed(h) == [state |-> h.pr, head |-> h.prHead, green |-> h.checks[head] = "pass"]

Admitted(h, to) ==
  LET selects == IF to = "repairing" THEN "selected" ELSE "observed" IN
  CASE TrustedChanges(h) /\ fb.phase = "none" ->
         [phase |-> selects, root |-> head, bound |-> NoHead]
    [] TrustedChanges(h) /\ fb.phase = "observed" /\ to = "repairing" ->
         [fb EXCEPT !.phase = "selected"]
    [] OTHER -> fb

\* The stop that says so, unless a more specific one replaces it.
MovedOutside(h) == h.pr # "open" /\ ~(Completed(h) /\ h.pr # "merged") /\ ~Unsupported(h)

SaveGitHubReadSuccess(h, to, feedback, approved) ==
  /\ st' = to /\ UNCHANGED head
  /\ outside' = (to = "manual_intervention" /\ MovedOutside(h))
  /\ pr' = Observed(h)
  /\ fb' = IF feedback THEN Admitted(h, to) ELSE fb
  /\ approval' = IF approved THEN [approval EXCEPT ![head] = h.review.id] ELSE approval
-----------------------------------------------------------------------------
\* reader.Read refuses a pull request that is not at the expected head.
ReadGitHub ==
  /\ At("idle") /\ st \in ReconciledStates \ {"awaiting_github_mergeability"}
  /\ Reconcilable /\ Reliably
  /\ pr.head = head /\ hub.prHead = head
  /\ seen' = hub
  /\ Go("github_save")
  /\ KeepStore /\ UNCHANGED hub

RequireManualForFeedbackDrift ==
  /\ At("github_save") /\ FeedbackDrift(seen)
  /\ Park(FALSE)
  /\ pr' = Observed(seen)
  /\ Return
  /\ UNCHANGED <<effectVars, approval, fb, closeVars, hub, troubles>>

SaveReconciled ==
  LET approved == st = "awaiting_human_approval" /\ Approved(seen) IN
  /\ At("github_save") /\ ~FeedbackDrift(seen)
  /\ ~(approved /\ ApprovalConflicts(seen))
  /\ SaveGitHubReadSuccess(seen, NextState(seen), TRUE, approved)
  /\ Return
  /\ UNCHANGED <<effectVars, closeVars, hub, troubles>>

SaveConflict ==
  /\ At("github_save") /\ ~FeedbackDrift(seen)
  /\ st = "awaiting_human_approval" /\ Approved(seen) /\ ApprovalConflicts(seen)
  /\ Return
  /\ KeepStore /\ UNCHANGED <<hub, troubles>>

ReconcileStep == \/ ReadGitHub \/ RequireManualForFeedbackDrift
                 \/ SaveReconciled \/ SaveConflict
-----------------------------------------------------------------------------
(***************************************************************************)
(* A repair, as delivery sees it: a new verified candidate, or a stop.      *)
(* What happens inside is the local controller's (module LocalLoop).  The   *)
(* feedback a repair was selected for is bound to a candidate made from the *)
(* head it was given on, and to none when a second repair came in between.  *)
(***************************************************************************)
Repair ==
  /\ At("idle") /\ st = "repairing" /\ head < MaxHead
  /\ head' = head + 1 /\ st' = "approval_ready" /\ outside' = FALSE
  /\ \/ fb' = IF fb.phase = "selected" /\ fb.root = head
              THEN [fb EXCEPT !.phase = "verified", !.bound = head + 1] ELSE fb
     \/ UNCHANGED fb
  /\ UNCHANGED <<effectVars, pr, approval, closeVars, hub, job, seen, troubles>>

RepairStops ==
  /\ At("idle") /\ st = "repairing"
  /\ Park(FALSE)
  /\ UNCHANGED <<effectVars, reviewVars, closeVars, hub, job, seen, troubles>>
-----------------------------------------------------------------------------
(***************************************************************************)
(* ReplyReviewFeedback.                                                     *)
(***************************************************************************)
AllReplied ==
  /\ At("idle") /\ st = "replying_review_feedback" /\ Revalidated
  /\ ~Outstanding
  /\ st' = "awaiting_human_approval" /\ outside' = FALSE /\ UNCHANGED head
  /\ OnlyRun /\ UNCHANGED <<hub, job, seen, troubles>>

StartReply ==
  /\ At("idle") /\ st = "replying_review_feedback" /\ Revalidated /\ Reliably
  /\ Outstanding /\ hub.prHead = head
  /\ IF hub.checks[head] = "pass" /\ fb.root \in hub.asked
     THEN IF hub.resolved THEN Go("reply_read") ELSE Go("reply_begin")
     ELSE MoveTo("manual_intervention")
  /\ KeepStore /\ UNCHANGED <<hub, seen>>

ResolveReviewReplyFeedback ==
  /\ At("reply_read")
  /\ fb' = [fb EXCEPT !.phase = "resolved"]
  /\ Return
  /\ UNCHANGED <<runVars, effectVars, pr, approval, closeVars, hub, troubles>>

BeginReply ==
  /\ At("reply_begin")
  /\ BeginSideEffect("reply")
  /\ posts' = IF side["reply"][head] = "none" THEN 1 ELSE posts
  /\ Go("reply_mark")
  /\ UNCHANGED <<runVars, policy, reviewVars, closeVars, hub, seen, troubles>>

MarkReplyPending ==
  /\ At("reply_mark")
  /\ fb' = [fb EXCEPT !.phase = "pending"]
  /\ Go("reply_find")
  /\ UNCHANGED <<runVars, effectVars, pr, approval, closeVars, hub, seen, troubles>>

\* Faulty: posts again without looking for the reply.
FindNoReplies ==
  /\ At("reply_find") /\ Reliably
  /\ IF side["reply"][head] = "failed" /\ posts < MaxPosts
     THEN /\ side' = [side EXCEPT !["reply"][head] = "intent"] /\ posts' = posts + 1
     ELSE UNCHANGED <<side, posts>>
  /\ Go("reply_post")
  /\ UNCHANGED <<runVars, policy, reviewVars, closeVars, hub, seen>>

\* Faulty: waits when the attempts are used up.
FindRepliesWaits ==
  /\ At("reply_find") /\ Reliably
  /\ LET status == side["reply"][head] IN
     CASE hub.replies = 1 -> Go("reply_final") /\ UNCHANGED <<side, posts, seen>>
       [] hub.replies = 0 /\ status = "intent" ->
            Go("reply_post") /\ UNCHANGED <<side, posts, seen>>
       [] OTHER -> Return /\ UNCHANGED <<side, posts>>
  /\ UNCHANGED <<runVars, policy, reviewVars, closeVars, hub>>

\* The replies that carry this head's marker decide whether to post.
FindReplies ==
  /\ At("reply_find") /\ Reliably
  /\ LET status == side["reply"][head] IN
     CASE hub.replies = 1 -> Go("reply_final") /\ UNCHANGED <<side, posts>>
       [] hub.replies = 0 /\ status = "intent" -> Go("reply_post") /\ UNCHANGED <<side, posts>>
       [] hub.replies = 0 /\ status = "failed" /\ posts < MaxPosts ->
            \* RetryReviewReplySideEffect
            /\ side' = [side EXCEPT !["reply"][head] = "intent"] /\ posts' = posts + 1
            /\ Go("reply_post")
       [] OTHER -> MoveTo("manual_intervention") /\ UNCHANGED <<side, posts>>
  /\ UNCHANGED <<runVars, policy, reviewVars, closeVars, hub, seen>>

FindRepliesFails ==
  /\ At("reply_find") /\ Fault
  /\ Fail("reply", "stay") \/ MoveTo("manual_intervention")
  /\ KeepStore /\ UNCHANGED <<hub, seen>>

\* An answer that is lost leaves it open whether the reply is there; a refusal
\* stops the run.
PostReply ==
  /\ At("reply_post")
  /\ LET posted == [hub EXCEPT !.replies = @ + 1] IN
     \/ Reliably /\ hub' = posted /\ Go("reply_final")
     \/ Fault /\ hub' \in {hub, posted} /\ Fail("reply", "stay")
     \/ Fault /\ UNCHANGED hub /\ MoveTo("manual_intervention")
  /\ KeepStore /\ UNCHANGED seen

\* One transaction: the reply, its evidence and the side effect.
FinalizeReviewReply ==
  /\ At("reply_final")
  /\ fb' = [fb EXCEPT !.phase = "replied"]
  /\ side' = [side EXCEPT !["reply"][head] = "observed"]
  /\ Return
  /\ UNCHANGED <<runVars, posts, policy, pr, approval, closeVars, hub, troubles>>

ReplyStep == \/ AllReplied \/ StartReply \/ ResolveReviewReplyFeedback \/ BeginReply
             \/ MarkReplyPending \/ FindReplies \/ FindRepliesFails \/ PostReply
             \/ FinalizeReviewReply
=============================================================================
