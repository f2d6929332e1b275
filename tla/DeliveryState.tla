---------------------------- MODULE DeliveryState ----------------------------
(***************************************************************************)
(* The delivery of one verified run, from approval_ready to completed: what *)
(* the store keeps of it, what GitHub and Linear show, and what every       *)
(* delivery handler of application.ProductionCoordinator shares.            *)
(*                                                                          *)
(* One driver holds the run's claim, so one handler runs at a time; it is   *)
(* the record job, whose position is the next call the handler makes.  Each *)
(* step is one call: a store transaction, or a request to a service that    *)
(* may take effect without its answer arriving.  A crash ends the handler   *)
(* between two calls, and the next one starts from what the store holds.    *)
(* GitHub and Linear move on their own between any two steps.               *)
(***************************************************************************)
EXTENDS RunState, Naturals, FiniteSets

CONSTANTS
  MaxHead,          \* candidate commits: the first one and its repairs
  MaxReviews,       \* reviews the human submits
  MaxPosts,         \* attempts to post one reply (maxReviewReplyAttempts)
  MaxObservations,  \* reads of the Linear issue (MaxLinearCompletionObservations)
  Protected,        \* whether GitHub requires resolved conversations to merge
  Outside,          \* the moves others make in this instance
  MaxTroubles       \* calls that fail, crashes and disturbing moves together

Heads   == 1..MaxHead
NoHead  == 0
Foreign == MaxHead + 1   \* a commit the controller did not write
Commit  == 0..(MaxHead + 1)

OutsideMove == {"checks", "rerun", "foreign", "close", "merge", "approve", "changes",
                "dismiss", "resolve", "note", "delete", "complete", "early", "cancel", "edit"}

ASSUME HeadAssumption    == MaxHead \in Nat \ {0} /\ MaxReviews \in Nat
ASSUME LimitAssumption   == MaxPosts \in Nat \ {0} /\ MaxObservations \in Nat \ {0}
ASSUME TroublesAssumption == MaxTroubles \in Nat
ASSUME OutsideAssumption == Protected \in BOOLEAN /\ Outside \subseteq OutsideMove

VARIABLES
  st,        \* runs.current_state
  head,      \* runs.candidate_head
  outside,   \* the manual stop says GitHub moved outside the controller's gate
  side,      \* side_effects: status by kind and head
  posts,     \* attempts recorded on the reply's side effect
  policy,    \* review topology kept with a refused merge, NoPolicy without one
  pr,        \* pull_requests
  approval,  \* human_approvals: review recorded for a head, 0 without one
  fb,        \* review_feedback of the inline root
  merge,     \* merges
  owned,     \* owned_resources beyond the local ones
  linear,    \* linear_completion_observations: how many, and the last
  cleanup,   \* cleanup_results by resource
  hub,       \* GitHub, Linear and the checkout: what a read would find
  job,       \* the handler in progress
  seen,      \* what it has read and not yet acted on
  troubles   \* how many so far

runVars    == <<st, head, outside>>
effectVars == <<side, posts, policy>>
reviewVars == <<pr, approval, fb>>
closeVars  == <<merge, owned, linear, cleanup>>
storeVars  == <<runVars, effectVars, reviewVars, closeVars>>
vars       == <<storeVars, hub, job, seen, troubles>>

EffectKind   == {"push", "open", "reply", "merge"}
EffectStatus == {"none", "intent", "failed", "observed"}
Resource     == {"worktree", "remote_branch", "local_branch"}
NoPolicy     == 2        \* not a number of notes

DeliveryStates ==
  {"approval_ready", "pushing_branch", "branch_pushed", "opening_pr", "pr_open",
   "reconciling_reviews", "repairing", "replying_review_feedback",
   "awaiting_human_approval", "merging", "awaiting_github_mergeability",
   "awaiting_linear_completion", "cleaning", "completed", "manual_intervention"}

\* asked: heads with an undismissed request for changes.  root: the head its
\* inline thread is on; notes: comments of others on it; replies: of the
\* controller.  signed: heads the human approved.  by: who merged.
Hub == [branch : Commit, pr : {"none", "open", "closed", "merged"}, prHead : Commit,
        by : {"nobody", "controller", "human"}, checks : [Heads -> {"pending", "pass", "fail"}],
        review : [kind : {"none", "approved", "changes", "dismissed"}, head : Commit,
                  id : 0..MaxReviews], signed : SUBSET Commit,
        asked : SUBSET Heads, root : 0..MaxHead, resolved : BOOLEAN, notes : 0..1,
        replies : Nat, issue : {"started", "early", "completed", "canceled"},
        edited : BOOLEAN, local : SUBSET {"worktree", "local_branch"}]

NoReview == [kind |-> "none", head |-> NoHead, id |-> 0]
Unread ==
  [branch |-> NoHead, pr |-> "none", prHead |-> NoHead, by |-> "nobody",
   checks |-> [h \in Heads |-> "pending"], review |-> NoReview, signed |-> {}, asked |-> {},
   root |-> NoHead, resolved |-> FALSE, notes |-> 0, replies |-> 0,
   issue |-> "started", edited |-> FALSE, local |-> {"worktree", "local_branch"}]

NoRequest  == [state |-> "none", head |-> NoHead, green |-> FALSE]
NoFeedback == [phase |-> "none", root |-> NoHead, bound |-> NoHead]
NoMerge    == [head |-> NoHead, method |-> "none"]

Idle == [at |-> "idle", kind |-> "push", fin |-> "failed", to |-> "stay"]
Step == {"idle", "finish", "own", "move",
         "push_begin", "push_look", "push_send", "push_reread", "push_save",
         "open_begin", "open_find", "open_post", "open_save",
         "github_save", "reply_read", "reply_begin", "reply_mark", "reply_find",
         "reply_post", "reply_final",
         "merge_begin", "merge_put", "merge_await", "merge_pending", "merge_save",
         "mergeability_save", "clean", "clean_apply", "clean_save", "clean_end"}

StoreTyped ==
  /\ st \in DeliveryStates /\ head \in Heads /\ outside \in BOOLEAN
  /\ side \in [EffectKind -> [Heads -> EffectStatus]]
  /\ posts \in 0..MaxPosts /\ policy \in 0..NoPolicy
  /\ pr \in [state : {"none", "open", "closed", "merged"}, head : Commit, green : BOOLEAN]
  /\ approval \in [Heads -> 0..MaxReviews]
  /\ fb \in [phase : {"none", "observed", "selected", "verified", "pending", "replied",
                       "resolved"}, root : 0..MaxHead, bound : 0..MaxHead]
  /\ merge \in [head : 0..MaxHead, method : {"none", "squash", "external"}]
  /\ owned \subseteq {"remote_branch", "pull_request"}
  /\ linear \in [count : 0..MaxObservations,
                 last : {"none", "pending", "completed", "error", "conflict", "timeout"}]
  /\ cleanup \in [Resource -> {"none", "intent", "deleted", "failed"}]

\* A handler's position, and what remains of it once it settles its effect.
JobRecord == [at : Step, kind : EffectKind, fin : {"failed", "observed"},
              to : DeliveryStates \cup {"stay"} \cup Resource]

WorkTyped == hub \in Hub /\ job \in JobRecord /\ seen \in Hub /\ troubles \in 0..MaxTroubles

\* The types of the stored records, what any read of the store relies on, and
\* of what a handler keeps between two calls.
TypeOK == StoreTyped /\ WorkTyped

Init ==
  /\ st = "approval_ready" /\ head = 1 /\ outside = FALSE
  /\ side = [k \in EffectKind |-> [h \in Heads |-> "none"]]
  /\ posts = 0 /\ policy = NoPolicy
  /\ pr = NoRequest /\ approval = [h \in Heads |-> 0] /\ fb = NoFeedback
  /\ merge = NoMerge /\ owned = {}
  /\ linear = [count |-> 0, last |-> "none"] /\ cleanup = [r \in Resource |-> "none"]
  /\ hub = Unread
  /\ job = Idle /\ seen = Unread
  /\ troubles = 0
-----------------------------------------------------------------------------
At(step) == job.at = step
Go(step) == job' = [job EXCEPT !.at = step]
Return   == job' = Idle /\ seen' = Unread

\* A call fails or its answer is lost; MaxTroubles makes them finite.
Fault   == troubles < MaxTroubles /\ troubles' = troubles + 1
Reliably == UNCHANGED troubles

\* What remains of a handler that settles its side effect and then moves the run.
Settle(k, fin, to) ==
  job' = [job EXCEPT !.at = "finish", !.kind = k, !.fin = fin, !.to = to]
Fail(k, to)  == Settle(k, "failed", to)
MoveTo(to)   == job' = [Idle EXCEPT !.at = "move", !.to = to]

\* RequireManualIntervention inside the caller's transaction.
Park(out) == st' = "manual_intervention" /\ outside' = out /\ UNCHANGED head

(***************************************************************************)
(* FinishSideEffect, skipped by its callers when the effect is observed.    *)
(***************************************************************************)
\* Faulty: an effect that is observed already has nothing left to record.
FinishSideEffectOnce ==
  /\ At("finish")
  /\ side' = [side EXCEPT ![job.kind][head] = IF @ = "observed" THEN @ ELSE job.fin]
  /\ policy' = IF job.kind = "merge" THEN NoPolicy ELSE policy
  /\ IF job.fin = "observed" /\ job.kind \in {"push", "open"}
        /\ side[job.kind][head] # "observed" THEN Go("own") /\ UNCHANGED seen
     ELSE IF job.to = "stay" THEN Return
     ELSE Go("move") /\ UNCHANGED seen
  /\ UNCHANGED <<runVars, posts, reviewVars, closeVars, hub, troubles>>

\* The result of a merge replaces the policy evidence kept with it.
FinishSideEffect ==
  /\ At("finish")
  /\ side' = [side EXCEPT ![job.kind][head] = IF @ = "observed" THEN @ ELSE job.fin]
  /\ policy' = IF job.kind = "merge" THEN NoPolicy ELSE policy
  /\ IF job.fin = "observed" /\ job.kind \in {"push", "open"} THEN Go("own") /\ UNCHANGED seen
     ELSE IF job.to = "stay" THEN Return
     ELSE Go("move") /\ UNCHANGED seen
  /\ UNCHANGED <<runVars, posts, reviewVars, closeVars, hub, troubles>>

AddOwnedResource ==
  /\ At("own")
  /\ owned' = owned \cup {IF job.kind = "push" THEN "remote_branch" ELSE "pull_request"}
  /\ Go("move")
  /\ UNCHANGED <<runVars, effectVars, reviewVars, merge, linear, cleanup, hub, seen, troubles>>

\* Transition compares the state it read and consults the state machine.
Transition ==
  /\ At("move") /\ CanTransition(st, job.to)
  /\ st' = job.to /\ outside' = FALSE
  /\ Return
  /\ UNCHANGED <<head, effectVars, reviewVars, closeVars, hub, troubles>>

\* The driver's process ends between two calls; the store keeps what it holds.
Crash ==
  /\ ~At("idle") /\ troubles < MaxTroubles
  /\ troubles' = troubles + 1
  /\ Return
  /\ UNCHANGED <<storeVars, hub>>

SettleStep == FinishSideEffect \/ AddOwnedResource \/ Transition

\* Revalidate: the issue is coding-ready and the task is the admitted one.  The
\* handlers that reconcile GitHub accept a completed issue as well.
CodingReady(completedToo) ==
  hub.issue = "started" \/ (completedToo /\ hub.issue \in {"early", "completed"})
Revalidated  == CodingReady(FALSE) /\ ~hub.edited
Reconcilable == CodingReady(TRUE) /\ ~hub.edited

ReconciledStates == {"pr_open", "reconciling_reviews", "awaiting_human_approval",
                     "awaiting_github_mergeability"}
WrittenStates    == {"approval_ready", "pushing_branch", "branch_pushed", "opening_pr",
                     "replying_review_feedback", "merging"}

(***************************************************************************)
(* MarkLinearSourceDrift: a revalidation that reads a coding-ready issue    *)
(* whose task was edited parks the run.                                     *)
(***************************************************************************)
MarkLinearSourceDrift ==
  /\ At("idle") /\ hub.edited
  /\ \/ st \in WrittenStates /\ CodingReady(FALSE)
     \/ st \in ReconciledStates /\ CodingReady(TRUE)
  /\ Park(FALSE)
  /\ UNCHANGED <<effectVars, reviewVars, closeVars, hub, job, seen, troubles>>
=============================================================================
