------------------------------ MODULE LocalReview ------------------------------
(***************************************************************************)
(* From an implementation that says it is complete to a candidate that may  *)
(* be delivered: the controller's commit, the verification of the exact     *)
(* head, the fresh review, and the repair its findings start                *)
(* (verifyCandidate, freshReview, authorizeReview, repair).                 *)
(***************************************************************************)
EXTENDS LocalExecute

Clean == disk.dirt = 0

\* validateWorkspace, a commit and the worktree being what they were.
AtCandidate == disk.head = cand

Candidate(h, step) == ctl' = [ctl EXCEPT !.at = step, !.head = h] /\ KeepStore /\ KeepWorld /\ Reliably

\* Faulty: whatever was committed on the expected head is the candidate.
RecoverAnyCommit ==
  /\ Do("verify") /\ cand = NoHead /\ Clean /\ disk.head \notin {Base, Expected}
  /\ Candidate(disk.head, "set_candidate")

\* The controller knows the commit a crash kept it from recording by its parent
\* and its subject.
Recoverable(h) == commits[h] = [parent |-> Expected, subject |-> "candidate"]

RecoverCandidate ==
  /\ Do("verify") /\ cand = NoHead /\ Clean /\ disk.head \notin {Base, Expected}
  /\ Recoverable(disk.head)
  /\ Candidate(disk.head, "set_candidate")

\* The repair found nothing to change.
KeepRepairBase ==
  /\ Do("verify") /\ cand = NoHead /\ Clean /\ Repairing /\ disk.head = RepairBase
  /\ Candidate(RepairBase, "set_candidate")

RefuseCandidate ==
  /\ Do("verify") /\ cand = NoHead
  /\ IF Clean
     THEN disk.head = Base \/ (disk.head # Expected /\ ~Recoverable(disk.head))
     ELSE disk.head # Expected
  /\ Refuse

StartPrecommit ==
  /\ Do("verify") /\ cand = NoHead /\ ~Clean /\ disk.head = Expected
  /\ Candidate(NoHead, "precommit")

SkipToCheck ==
  /\ Do("verify") /\ cand # NoHead
  /\ Go("check") /\ KeepStore /\ KeepWorld /\ Reliably

\* What a verifier that changes files leaves shows in the status.  It is no
\* trouble that counts: the error it leads to ends the run's calls by itself.
Mutated ==
  /\ "mutate" \in Faults
  /\ disk' = [disk EXCEPT !.dirt = 2] /\ UNCHANGED <<commits, expired>> /\ Reliably

PrecommitVerification ==
  /\ Do("precommit") /\ KeepStore
  /\ \/ Go("commit") /\ KeepWorld /\ Reliably
     \/ Go("error") /\ KeepWorld /\ Trouble("check")
     \/ Go("error") /\ disk.dirt # 2 /\ Mutated

CommitCandidate ==
  /\ Do("commit") /\ Len(commits) < MaxHead
  /\ commits' = Append(commits, [parent |-> disk.head, subject |-> "candidate"])
  /\ disk' = [disk EXCEPT !.head = Len(commits) + 1, !.dirt = 0]
  /\ ctl' = [ctl EXCEPT !.at = "set_candidate", !.head = Len(commits) + 1]
  /\ KeepStore /\ UNCHANGED expired /\ Reliably

SetCandidateHead ==
  /\ Do("set_candidate")
  /\ cand' = ctl.head /\ UNCHANGED <<st, session, workspace, logVars, proofVars>>
  /\ Go("check") /\ KeepWorld /\ Reliably

RefuseCheck ==
  /\ Do("check") /\ ~(AtCandidate /\ Clean)
  /\ Refuse

\* Checks of the exact head; after a repair they are made again.
BatchReusable == ~Repairing /\ batch.head = cand /\ batch.ok

ReuseVerification ==
  /\ Do("check") /\ AtCandidate /\ Clean /\ BatchReusable
  /\ Go("verified") /\ KeepStore /\ KeepWorld /\ Reliably

Save(ok) == /\ batch' = [head |-> cand, repairs |-> Repairs, ok |-> ok]
            /\ UNCHANGED <<runVars, logVars, review, fb>>

RunVerification ==
  /\ Do("check") /\ AtCandidate /\ Clean /\ ~BatchReusable
  /\ \/ Save(TRUE) /\ Go("verified") /\ KeepWorld /\ Reliably
     \/ Save(TRUE) /\ Go("verified") /\ Mutated
     \/ Save(FALSE) /\ Go("error") /\ KeepWorld /\ Trouble("check")
     \/ Save(FALSE) /\ Return /\ KeepWorld /\ Trouble("crash")

Verified ==
  /\ Do("verified")
  /\ IF Clean THEN Transition("fresh_review") /\ KeepWorld /\ Reliably ELSE Refuse

VerifyStep ==
  \/ RecoverCandidate \/ KeepRepairBase \/ RefuseCandidate \/ StartPrecommit \/ SkipToCheck
  \/ PrecommitVerification \/ CommitCandidate \/ SetCandidateHead \/ RefuseCheck
  \/ ReuseVerification \/ RunVerification \/ Verified
-----------------------------------------------------------------------------
\* buildRepairReviewContext: a repaired candidate is another one than the head
\* it repairs, and its feedback is unfinished or bound to it.  The repairs of
\* the deprecated Repair, which only the fixture command calls, are not here.
RepairReviewable ==
  Repairing => /\ cand # RepairBase
               /\ fb[RepairBase].life = "repair_verified" => fb[RepairBase].bound = cand

ReviewReady == AtCandidate /\ Clean /\ RepairReviewable

RefuseReview ==
  /\ Do("review") /\ ~ReviewReady
  /\ Refuse

UnlaunchedReviews == {i \in DOMAIN attempts : attempts[i].kind = "review" /\ attempts[i].status = "prepared"}

FailUnlaunchedReview ==
  /\ Do("review") /\ ReviewReady
  /\ \E i \in UnlaunchedReviews : (\A j \in UnlaunchedReviews : i <= j) /\ Finish(i, "failed")
  /\ UNCHANGED ctl /\ KeepWorld /\ Reliably

\* Faulty: the last review, of whatever head.
LastReview == review.head # NoHead

\* latestReviewForHeadAfter.
Reviewed == review.head = cand /\ review.repairs = Repairs
Judged == Reviewed /\ review.verdict # "failed"

ReuseReview ==
  /\ Do("review") /\ ReviewReady /\ UnlaunchedReviews = {} /\ Judged
  /\ Go("judge") /\ KeepStore /\ KeepWorld /\ Reliably

BeginReview ==
  /\ Do("review") /\ ReviewReady /\ UnlaunchedReviews = {} /\ ~Judged
  /\ BeginAttempt("review")
  /\ Go("review_launch") /\ KeepWorld /\ Reliably

\* The reviewer names the head it reviewed, perhaps another one.
ReviewerEnds ==
  /\ Do("review_child")
  /\ \E verdict \in Verdict :
       /\ verdict = "incomplete" => Repairing
       /\ \E head \in Commit :
            /\ ctl' = [ctl EXCEPT !.at = "review_finish", !.result = verdict, !.head = head]
            /\ IF verdict \in {"failed", "incomplete"} \/ head # cand THEN Trouble("reviewer")
               ELSE Reliably
  /\ KeepStore /\ KeepWorld

FinishReview ==
  /\ Do("review_finish")
  /\ SetAttempt(Newest, "succeeded", ctl.result)
  /\ Go("review_save") /\ KeepWorld /\ Reliably

\* Under the head the reviewer named.
SaveReview ==
  /\ Do("review_save")
  /\ review' = [head |-> ctl.head, repairs |-> Repairs, verdict |-> ctl.result]
  /\ UNCHANGED <<runVars, logVars, batch, fb>>
  /\ Go("judge") /\ KeepWorld /\ Reliably

\* The batch that lets the reviewed candidate pass.
Proven == batch.head = cand /\ batch.repairs = Repairs /\ batch.ok

\* Faulty: all feedback is answered by the new candidate.
BoundAll(h) == fb[h].life = "selected_for_repair"

\* Feedback the repair was for; other feedback is not its business.
Bound(h) == Repairing /\ h = RepairBase /\ fb[h].life = "selected_for_repair"

JudgeReview ==
  /\ Do("judge")
  /\ CASE Reviewed /\ review.verdict = "pass" /\ Proven /\ AtCandidate /\ Clean -> Go("bind")
       [] Reviewed /\ review.verdict = "findings"                              -> Go("handoff")
       [] OTHER                                                                -> Go("error")
  /\ KeepStore /\ KeepWorld /\ Reliably

\* One transaction for each root.
TransitionTrustedReviewFeedback ==
  /\ Do("bind")
  /\ \E h \in Heads :
       /\ Bound(h)
       /\ fb' = [fb EXCEPT ![h] = [life |-> "repair_verified", bound |-> cand]]
  /\ UNCHANGED <<runVars, logVars, batch, review, ctl>> /\ KeepWorld /\ Reliably

AuthorizeReview ==
  /\ Do("bind") /\ \A h \in Heads : ~Bound(h)
  /\ Transition("approval_ready") /\ KeepWorld /\ Reliably

\* HandoffFreshReviewFindings reads the review again; findings and state are
\* one transaction.
PersistFreshReviewFindings ==
  /\ Do("handoff")
  /\ IF Reviewed /\ review.verdict = "findings" /\ AtCandidate /\ Clean
     THEN st' = "repairing" /\ OnlyState /\ Return /\ KeepWorld /\ Reliably
     ELSE Refuse

\* validateApproval: any error of it ends the run.
ValidateApproval ==
  /\ At("approve")
  /\ IF ~Overdue /\ ~(Proven /\ Reviewed /\ review.verdict = "pass" /\ ReviewReady)
     THEN st' = "failed" /\ OnlyState ELSE KeepStore
  /\ Return /\ KeepWorld /\ Reliably

ApprovalUnread ==
  /\ At("approve") /\ Trouble("call")
  /\ st' = "failed" /\ OnlyState
  /\ Return /\ KeepWorld

ReviewStep ==
  \/ RefuseReview \/ FailUnlaunchedReview \/ ReuseReview \/ BeginReview \/ ReviewerEnds
  \/ FinishReview \/ SaveReview \/ JudgeReview \/ TransitionTrustedReviewFeedback
  \/ AuthorizeReview \/ PersistFreshReviewFindings \/ ValidateApproval
-----------------------------------------------------------------------------
(***************************************************************************)
(* RepairFindings and repair.                                               *)
(***************************************************************************)
StartsRepair == At("idle") /\ st = "repairing"

RepairOverdue ==
  /\ StartsRepair /\ Overdue
  /\ st' = "manual_intervention" /\ OnlyState
  /\ UNCHANGED ctl /\ KeepWorld /\ Reliably

RepairsExhausted ==
  /\ StartsRepair /\ ~Overdue /\ Repairs >= MaxRepairs
  /\ st' = "manual_intervention" /\ OnlyState
  /\ UNCHANGED ctl /\ KeepWorld /\ Reliably

BeginRepair ==
  /\ StartsRepair /\ ~Overdue /\ Repairs < MaxRepairs
  /\ st' = "executing" /\ cand' = NoHead
  /\ log' = [log EXCEPT !.repairs = Append(@, cand)]
  /\ UNCHANGED <<session, workspace, rows, attempts, proofVars>>
  /\ ctl' = [Idle EXCEPT !.at = "loop", !.decision = "repair"]
  /\ KeepWorld /\ Reliably

RepairStep == RepairOverdue \/ RepairsExhausted \/ BeginRepair
=============================================================================
