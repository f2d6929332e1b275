------------------------------- MODULE LocalLoop -------------------------------
(***************************************************************************)
(* The local half of a run as a whole: the loop of continueExpected over    *)
(* the handlers of LocalWorkspace, LocalExecute and LocalReview, driven     *)
(* again and again, with crashes between any two writes, an operator who    *)
(* decides, and delivery that asks for repairs of what it was given.        *)
(***************************************************************************)
EXTENDS LocalReview

Driven == {"received", "admitting", "provisioning", "executing", "verifying", "fresh_review"}

\* The driver calls again after a crash and after an error it may retry: a run
\* with any other error behind it is parked under a permanent retry attention.
Continue ==
  /\ At("idle") /\ st \in Driven
  /\ Go("loop") /\ KeepStore /\ KeepWorld /\ Reliably

OperatorDecides ==
  /\ At("idle") /\ st = "awaiting_human_decision"
  /\ ctl' = [Idle EXCEPT !.at = "loop", !.decision = "human"]
  /\ KeepStore /\ KeepWorld /\ Reliably

Turn == At("loop") /\ ~(Overdue /\ st \in RepairStates) /\ RootReady

Admit ==
  /\ Turn
  /\ \/ st = "received" /\ Transition("admitting")
     \/ st = "admitting" /\ Transition("provisioning")
  /\ KeepWorld /\ Reliably

Handler ==
  CASE st = "provisioning" -> "provision"
    [] st = "executing"    -> "execute"
    [] st = "verifying"    -> "verify"
    [] st = "fresh_review" -> "review"
    [] st = "approval_ready" -> "approve"
    [] st = "awaiting_human_decision" /\ ctl.decision = "human" -> "accept"
    [] OTHER -> "idle"

Dispatch ==
  /\ Turn /\ st \notin {"received", "admitting"}
  /\ ctl' = IF Handler = "idle" THEN Idle
            ELSE [ctl EXCEPT !.at = Handler, !.k = Len(attempts)]
  /\ KeepStore /\ KeepWorld /\ Reliably

(***************************************************************************)
(* Delivery, as the local controller sees it: trusted feedback or a failed  *)
(* check sends the head it was given back, and unfinished feedback of an    *)
(* earlier head stops the run (TrustedFeedbackDrift).                       *)
(***************************************************************************)
Unfinished(h) == fb[h].life = "selected_for_repair"

RequestRepair ==
  /\ At("idle") /\ st = "approval_ready" /\ \A h \in Heads : ~Unfinished(h)
  /\ st' = "repairing"
  /\ \/ UNCHANGED fb
     \/ /\ fb[cand].life = "none"
        /\ fb' = [fb EXCEPT ![cand].life = "selected_for_repair"]
  /\ UNCHANGED <<cand, session, workspace, logVars, batch, review, ctl>> /\ KeepWorld /\ Reliably

FeedbackDrift ==
  /\ At("idle") /\ st = "approval_ready" /\ \E h \in Heads : Unfinished(h)
  /\ st' = "manual_intervention" /\ OnlyState
  /\ UNCHANGED ctl /\ KeepWorld /\ Reliably

DeliveryStep == RequestRepair \/ FeedbackDrift
-----------------------------------------------------------------------------
ControllerStep ==
  \/ Continue \/ Admit \/ Dispatch \/ RootStep \/ ProvisionStep \/ ExecuteStep \/ DecisionStep
  \/ VerifyStep \/ ReviewStep \/ RepairStep \/ FrameStep

Next ==
  \/ ControllerStep \/ ReconcileInterruptedRun \/ OperatorDecides \/ DeliveryStep
  \/ Crash \/ CallFails \/ FailAttempt \/ ApprovalUnread \/ ForeignDirectory \/ DeadlinePasses

Spec == Init /\ [][Next]_vars

\* The worker drives a run in a local state until it leaves it, and time passes.
FairSpec == Spec /\ WF_vars(ControllerStep) /\ WF_vars(DeadlinePasses)
-----------------------------------------------------------------------------
\* A run is ready for delivery only at a clean worktree whose head is the
\* candidate, verified and passed by a fresh review after the last repair,
\* whatever was reused after a crash (authorizeReview, validateApproval).
ApprovalBacked ==
  st = "approval_ready" =>
    /\ AtCandidate /\ Clean
    /\ batch = [head |-> cand, repairs |-> Repairs, ok |-> TRUE]
    /\ review = [head |-> cand, repairs |-> Repairs, verdict |-> "pass"]

\* A candidate is a commit with the controller's subject on the very head it had
\* to follow, whatever Codex committed meanwhile and also when the commit was made
\* before a crash and found after it; a repair may keep the head it started from
\* (verifyCandidate).
CandidateOwned ==
  cand # NoHead =>
    \/ Repairing /\ cand = RepairBase
    \/ commits[cand] = [parent |-> Expected, subject |-> "candidate"]

\* An implementation is taken for complete only on the outcome of an attempt that
\* was started after the last repair and the last decision (execute).
OutcomeHonoured ==
  [][st = "executing" /\ st' = "verifying" =>
       \E i \in DOMAIN attempts :
         /\ attempts[i].kind \in Implementation /\ attempts[i].status = "succeeded"
         /\ attempts[i].result = "completed" /\ attempts[i].round = Round]_vars

\* Feedback is reported repaired only by a candidate made from the head it was
\* given on and passed by review (authorizeReview).
FeedbackRepaired ==
  \A h \in Heads : fb[h].life = "repair_verified" =>
    /\ fb[h].bound \in Heads /\ commits[fb[h].bound].parent = h
    /\ fb[h].bound = cand => review.head = cand /\ review.verdict \in {"pass", "findings"}

\* The run works only in directories it has reserved and marked as its own or
\* registered as the worktree of its branch, and in none where somebody else had
\* put something, whenever that appeared; an empty directory at a path it has
\* reserved it takes over (ensureArtifactRoot, provision, git worktree add).
NoForeignContents ==
  /\ workspace => /\ disk.tree = "ours" /\ disk.branch /\ rows["worktree"] # "none"
                  /\ "tree" \notin disk.others
  /\ st # "received" => /\ disk.root = "marked" /\ rows["artifact_root"] = "owned"
                        /\ "root" \notin disk.others

\* Once repairs have begun, the run leaves the local states (a candidate passes,
\* the run stops, or the deadline stops it), unless an error of no retryable
\* class parks it: then nobody calls again and nobody looks at the deadline
\* (enforceRepairDeadline, ClassifyAutomaticRetryFailure).
RepairEnds == Repairing /\ st \in RepairStates ~> st \notin RepairStates \/ At("parked")
=============================================================================
