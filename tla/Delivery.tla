------------------------------- MODULE Delivery -------------------------------
(***************************************************************************)
(* The delivery of one run: the handlers of the driver (DeliveryPublish,    *)
(* DeliveryReview, DeliveryMerge, DeliveryFinish) under crashes, lost       *)
(* answers, and the moves of the humans, of GitHub and of Linear.           *)
(***************************************************************************)
EXTENDS DeliveryFinish

\* What others do, one fact at a time.  The moves of Disturbance count as troubles;
\* each of the others happens at most once per head or per review.
Disturbance == {"rerun", "foreign", "close", "merge", "dismiss", "note", "delete",
                "early", "cancel", "edit"}

Move(name, after) ==
  /\ name \in Outside /\ hub' = after
  /\ IF name \in Disturbance
     THEN troubles < MaxTroubles /\ troubles' = troubles + 1
     ELSE UNCHANGED troubles
  /\ UNCHANGED <<storeVars, job, seen>>

ChecksEnd ==
  /\ hub.pr # "none" /\ hub.prHead \in Heads /\ hub.checks[hub.prHead] = "pending"
  /\ \E result \in {"pass", "fail"} :
       Move("checks", [hub EXCEPT !.checks[hub.prHead] = result])

ChecksRerun ==
  /\ hub.prHead \in Heads /\ hub.checks[hub.prHead] # "pending"
  /\ Move("rerun", [hub EXCEPT !.checks[hub.prHead] = "pending"])

\* Somebody pushes to the run's branch.
ForeignPush ==
  /\ hub.branch \notin {NoHead, Foreign}
  /\ Move("foreign", Pushed(Foreign))

\* A pull request the store does not know yet is left alone by the humans.
ClosePullRequest ==
  /\ hub.pr = "open" /\ pr.state # "none"
  /\ Move("close", [hub EXCEPT !.pr = "closed"])

HumanMerge ==
  /\ hub.pr = "open" /\ pr.state # "none"
  /\ Move("merge", Merged("human"))

BranchDeleted ==
  /\ hub.pr # "open" /\ hub.branch # NoHead
  /\ Move("delete", [hub EXCEPT !.branch = NoHead])

Review(kind) == [kind |-> kind, head |-> hub.prHead, id |-> hub.review.id + 1]

Approve ==
  /\ hub.pr = "open" /\ hub.review.id < MaxReviews
  /\ Move("approve", [hub EXCEPT !.review = Review("approved"),
                                 !.signed = @ \cup {hub.prHead}])

\* With an inline thread, or, in a later request, without one.
RequestChanges ==
  /\ hub.pr = "open" /\ hub.review.id < MaxReviews
  /\ hub.prHead \in Heads \ hub.asked
  /\ \E inline \in BOOLEAN :
       /\ inline => hub.root = NoHead
       /\ Move("changes", [hub EXCEPT !.review = Review("changes"),
                                      !.asked = @ \cup {hub.prHead},
                                      !.root = IF inline THEN hub.prHead ELSE @])

DismissReview ==
  /\ hub.review.kind \in {"approved", "changes"}
  /\ Move("dismiss", [hub EXCEPT !.review.kind = "dismissed",
                                 !.asked = IF hub.review.kind = "changes"
                                           THEN @ \ {hub.review.head} ELSE @])

ResolveThread ==
  /\ hub.root # NoHead /\ ~hub.resolved
  /\ Move("resolve", [hub EXCEPT !.resolved = TRUE])

CommentOnThread ==
  /\ hub.root # NoHead /\ hub.notes = 0
  /\ Move("note", [hub EXCEPT !.notes = 1])

\* Linear's automation completes the issue when its pull request is merged; a
\* human may do it before.
IssueCompleted ==
  /\ hub.issue = "started"
  /\ IF hub.pr = "merged" THEN Move("complete", [hub EXCEPT !.issue = "completed"])
                          ELSE Move("early", [hub EXCEPT !.issue = "early"])

IssueCancelled ==
  /\ hub.issue = "started"
  /\ Move("cancel", [hub EXCEPT !.issue = "canceled"])

TaskEdited ==
  /\ ~hub.edited
  /\ Move("edit", [hub EXCEPT !.edited = TRUE])

OutsideStep ==
  \/ ChecksEnd \/ ChecksRerun \/ ForeignPush \/ ClosePullRequest \/ HumanMerge
  \/ BranchDeleted \/ Approve \/ RequestChanges \/ DismissReview \/ ResolveThread
  \/ CommentOnThread \/ IssueCompleted \/ IssueCancelled \/ TaskEdited
-----------------------------------------------------------------------------
RepairStep == Repair \/ RepairStops

\* What the driver does by itself, and what it does for an operator.
DriverStep ==
  \/ SettleStep \/ PushStep \/ OpenStep \/ ReconcileStep \/ RepairStep \/ ReplyStep
  \/ MergeStep \/ MergeabilityStep \/ ReconcileLinearTimeout \/ ReconcileLinear
  \/ CleanupStep \/ MarkLinearSourceDrift

Next == DriverStep \/ RecoverOwnedPush \/ AcceptExternalMerge \/ Crash \/ OutsideStep

Spec == Init /\ [][Next]_vars

\* The worker drives a run whose state it owns until the state needs a human.
FairSpec == Spec /\ WF_vars(DriverStep)
-----------------------------------------------------------------------------
\* A merge the controller made is of the run's head, which the trusted human
\* approved: an approval of an earlier head, or of a branch that somebody moved,
\* merges nothing (authorizeProductionMerge, the SHA of the PUT).
MergeAuthorized ==
  hub.by = "controller" =>
    hub.prHead = head /\ head \in hub.signed /\ side["merge"][head] # "none"

\* A root is answered once and with a bounded number of posts, although every post
\* may be retried after a lost answer or a crash (review_reply.go), and an answer
\* recorded is there.
OneReplyPerRoot ==
  hub.replies <= 1 /\ posts <= MaxPosts /\ (fb.phase = "replied" => hub.replies = 1)

\* A head that repairs trusted feedback is merged only after the feedback is
\* answered or its thread resolved, whatever the human approved meanwhile.
ReplyBeforeMerge ==
  /\ st \in {"merging", "awaiting_linear_completion", "cleaning"}
  /\ fb.root # NoHead /\ head = fb.root + 1
  => fb.phase \in {"replied", "resolved"} \/ merge.method = "external"

Published == {"branch_pushed", "opening_pr", "pr_open", "reconciling_reviews",
              "replying_review_feedback", "awaiting_human_approval", "merging",
              "awaiting_github_mergeability"}
Opened    == Published \ {"branch_pushed", "opening_pr"}

\* Every state rests on the evidence of the ones before it for the run's current
\* head, also when a repair changed the head (push.go completePush,
\* pull_request.go, validateCleanupGate).
EvidenceChain ==
  /\ st \in Published =>
       side["push"][head] = "observed" /\ "remote_branch" \in owned
  /\ st \in Opened =>
       /\ side["open"][head] = "observed" /\ "pull_request" \in owned /\ pr.head = head
  /\ st \in {"awaiting_linear_completion", "cleaning", "completed"} => merge.head = head
  /\ st \in {"cleaning", "completed"} => linear.last = "completed"

\* A completed run left its head merged, its issue completed, and none of what it
\* owned behind.
CompletedMeansDelivered ==
  st = "completed" => /\ hub.pr = "merged" /\ hub.prHead = head
                      /\ hub.issue = "completed" /\ hub.branch = NoHead /\ hub.local = {}

\* No step of the controller takes away a commit it did not write: not a push, not
\* its retry, and not the cleanup after the merge (publisher.go, cleanup.go).
ForeignCommitKept ==
  [][hub.branch = Foreign /\ job' # job => hub'.branch = Foreign]_vars

Gate == INSTANCE MergeGate WITH
  Head <- Commit, None <- NoHead,
  signed <- hub.signed, merged <- IF hub.pr = "merged" THEN hub.prHead ELSE NoHead,
  by <- hub.by, recorded <- merge.head, done <- st = "completed"

\* Delivery keeps the promise of module MergeGate.
MergeGatePromise == Gate!Spec
-----------------------------------------------------------------------------
DriverOwned == {"approval_ready", "pushing_branch", "branch_pushed", "opening_pr",
                "pr_open", "repairing", "replying_review_feedback", "cleaning"}

\* Somebody moved or deleted the branch, closed or merged the request, closed the
\* issue or edited the task: from then on a handler may refuse for ever.
Disturbed ==
  \/ hub.branch = Foreign \/ (hub.branch = NoHead /\ side["push"][head] # "none")
  \/ hub.pr = "closed" \/ hub.by = "human" \/ hub.issue \in {"early", "canceled"} \/ hub.edited

\* While nobody disturbs it, and with troubles that end, a run reaches a state in
\* which others move (driver.go, the retries of each handler).
DeliverySettles == st \in DriverOwned ~> st \notin DriverOwned \/ Disturbed

\* "An ambiguous merge response is re-read" (docs/architecture.md:1258): a merge
\* the controller made is recorded, or a human is asked.
AmbiguousMergeReread ==
  hub.by = "controller" ~> merge # NoMerge \/ st = "manual_intervention"
===============================================================================
