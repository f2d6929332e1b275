--------------------------- MODULE DeliveryPublish ---------------------------
(***************************************************************************)
(* Publishing the candidate: Push (application/push.go with the Git         *)
(* publisher) and OpenPullRequest (application/pull_request.go with the     *)
(* GitHub App client).  Both record a durable intent before they write, and *)
(* look for their own effect before they write again.                       *)
(***************************************************************************)
EXTENDS DeliveryState

KeepStore == UNCHANGED storeVars
OnlyRun   == UNCHANGED <<effectVars, reviewVars, closeVars>>
OnlySide  == UNCHANGED <<runVars, posts, policy, reviewVars, closeVars>>

\* BeginSideEffect inserts the intent unless one is recorded for this head.
BeginSideEffect(k) ==
  side' = [side EXCEPT ![k][head] = IF @ = "none" THEN "intent" ELSE @]
-----------------------------------------------------------------------------
StartPush ==
  /\ At("idle") /\ st \in {"approval_ready", "pushing_branch"} /\ Revalidated
  /\ st' = "pushing_branch" /\ UNCHANGED <<head, outside>>
  /\ Go("push_begin")
  /\ OnlyRun /\ UNCHANGED <<hub, seen, troubles>>

\* The intent, then the pull request to update, if there is one.
BeginPush ==
  /\ At("push_begin")
  /\ BeginSideEffect("push")
  /\ IF pr.state \in {"none", "open"} THEN Go("push_look")
                                      ELSE Fail("push", "manual_intervention")
  /\ OnlySide /\ UNCHANGED <<hub, seen, troubles>>

\* A branch that is neither absent nor at the retained pull request's head is
\* somebody else's.
Divergent(branch) ==
  branch \notin {NoHead, head} /\ ~(pr.state = "open" /\ branch = pr.head)

LookupRemote ==
  /\ At("push_look") /\ Reliably
  /\ seen' = [Unread EXCEPT !.branch = hub.branch]
  /\ CASE hub.branch = head     -> Go("push_save")
       [] Divergent(hub.branch) -> Fail("push", "manual_intervention")
       [] OTHER                 -> Go("push_send")
  /\ KeepStore /\ UNCHANGED hub

LookupFails ==
  /\ At("push_look") /\ Fault
  /\ Fail("push", "stay")
  /\ KeepStore /\ UNCHANGED <<hub, seen>>

\* What the remote holds once commit c is pushed: an open pull request follows it.
Pushed(c) == [hub EXCEPT !.branch = c,
                         !.prHead = IF hub.pr = "open" THEN c ELSE @]

\* Faulty: pushes without a lease on what was read.
ForcePush ==
  /\ At("push_send") /\ Reliably
  /\ hub' = Pushed(head)
  /\ Go("push_reread")
  /\ KeepStore /\ UNCHANGED seen

\* git push --force-with-lease: refused when the branch is not what was read.
\* A push that fails may or may not have moved the branch.
SendPush ==
  /\ At("push_send")
  /\ \/ /\ Reliably
        /\ hub' = IF hub.branch = seen.branch THEN Pushed(head) ELSE hub
     \/ Fault /\ UNCHANGED hub
  /\ Go("push_reread")
  /\ KeepStore /\ UNCHANGED seen

\* What the branch holds decides, whatever git push answered.
RereadRemote ==
  /\ At("push_reread") /\ Reliably
  /\ CASE hub.branch = head   -> Go("push_save")
       [] hub.branch = NoHead -> Fail("push", "stay")
       [] OTHER               -> Fail("push", "manual_intervention")
  /\ KeepStore /\ UNCHANGED <<hub, seen>>

RereadFails ==
  /\ At("push_reread") /\ Fault
  /\ Fail("push", "stay")
  /\ KeepStore /\ UNCHANGED <<hub, seen>>

\* completePush moves a retained pull request to the repaired head.
SavePushedHead ==
  /\ At("push_save")
  /\ pr' = IF pr.state = "none" THEN pr ELSE [pr EXCEPT !.head = head]
  /\ Settle("push", "observed", "branch_pushed")
  /\ UNCHANGED <<runVars, effectVars, approval, fb, closeVars, hub, seen, troubles>>

PushStep == \/ StartPush \/ BeginPush \/ LookupRemote \/ LookupFails \/ SendPush
            \/ RereadRemote \/ RereadFails \/ SavePushedHead
-----------------------------------------------------------------------------
StartOpenPullRequest ==
  /\ At("idle") /\ st \in {"branch_pushed", "opening_pr"} /\ Revalidated
  /\ st' = "opening_pr" /\ UNCHANGED <<head, outside>>
  /\ Go("open_begin")
  /\ OnlyRun /\ UNCHANGED <<hub, seen, troubles>>

\* A persisted pull request is adopted as it was recorded, without reading GitHub.
BeginOpenPullRequest ==
  /\ At("open_begin")
  /\ BeginSideEffect("open")
  /\ CASE pr.state = "none"                    -> Go("open_find")
       [] pr.state = "open" /\ pr.head = head  -> Go("open_save")
       [] OTHER                                -> Fail("open", "manual_intervention")
  /\ OnlySide /\ UNCHANGED <<hub, seen, troubles>>

\* findOwnedPullRequest searches the open ones for the controller's marker.
FindOwnedPullRequest ==
  /\ At("open_find") /\ Reliably
  /\ CASE hub.pr = "open" /\ hub.prHead = head -> Go("open_save")
       [] hub.pr = "open" /\ hub.prHead # head -> Fail("open", "stay")
       [] OTHER                                -> Go("open_post")
  /\ KeepStore /\ UNCHANGED <<hub, seen>>

FindFails ==
  /\ At("open_find") /\ Fault
  /\ Fail("open", "stay")
  /\ KeepStore /\ UNCHANGED <<hub, seen>>

\* The request is created for whatever the branch holds; its answer is
\* validated against the intent, and may be lost.
PostPullRequest ==
  /\ At("open_post")
  /\ LET created == [hub EXCEPT !.pr = "open", !.prHead = hub.branch] IN
     \/ /\ Reliably /\ hub.branch = NoHead /\ UNCHANGED hub
        /\ Fail("open", "stay")
     \/ /\ Reliably /\ hub.branch # NoHead /\ hub' = created
        /\ IF hub.branch = head THEN Go("open_save") ELSE Fail("open", "stay")
     \/ /\ Fault /\ hub' \in {hub} \cup (IF hub.branch = NoHead THEN {} ELSE {created})
        /\ Fail("open", "stay")
  /\ KeepStore /\ UNCHANGED seen

SavePullRequest ==
  /\ At("open_save")
  /\ pr' = IF pr.state = "none" THEN [state |-> "open", head |-> head, green |-> FALSE]
                                ELSE pr
  /\ Settle("open", "observed", "pr_open")
  /\ UNCHANGED <<runVars, effectVars, approval, fb, closeVars, hub, seen, troubles>>

OpenStep == \/ StartOpenPullRequest \/ BeginOpenPullRequest \/ FindOwnedPullRequest
            \/ FindFails \/ PostPullRequest \/ SavePullRequest
-----------------------------------------------------------------------------
(***************************************************************************)
(* RecoverOwnedPush: an operator lets a halted repair be pushed to the      *)
(* retained pull request, which is behind the verified candidate.           *)
(***************************************************************************)
RecoverOwnedPush ==
  /\ At("idle") /\ st = "manual_intervention" /\ Revalidated
  /\ pr.state = "open" /\ pr.head # head
  /\ st' = "approval_ready" /\ outside' = FALSE /\ UNCHANGED head
  /\ OnlyRun /\ UNCHANGED <<hub, job, seen, troubles>>
=============================================================================
