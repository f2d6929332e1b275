---------------------------- MODULE DeliveryProofs ----------------------------
(***************************************************************************)
(* What delivery promises, for any number of repairs, reviews, posts, reads *)
(* of Linear and troubles, and whatever moves others make.                  *)
(*                                                                          *)
(* The store never holds the whole truth of a merge: the controller's PUT   *)
(* may land without an answer, and a crash may end a handler between any    *)
(* two of its calls.  The invariant says what the store implies of GitHub   *)
(* and Linear (StoreInv), and what a handler may still rely on at each of   *)
(* its calls after others have moved (JobInv).                              *)
(***************************************************************************)
EXTENDS Delivery, TLAPS
\* States in which a merge, recorded or not, may stand.
LateStates == {"merging", "awaiting_linear_completion", "cleaning", "completed",
               "manual_intervention"}

\* States behind a reading of GitHub that found nothing to answer.
AnsweredStates == {"awaiting_human_approval", "merging", "awaiting_github_mergeability"}

\* GitHub shows commit c as merged.
Shown(c) == hub.pr = "merged" /\ hub.prHead = c

\* A merge by the controller, or one that is recorded, is of the present head.
MergeStands ==
  /\ hub.by = "controller" => side["merge"][head] # "none"
  /\ hub.by = "controller" \/ merge # NoMerge =>
       /\ Shown(head) /\ head \in hub.signed /\ pr.head = head /\ st \in LateStates
  /\ merge # NoMerge => merge.head = head
  /\ merge.method = "external" => st # "merging"

\* What the store knows of approvals and of the pull request was so on GitHub.
Signed ==
  /\ \A h \in Heads : approval[h] # 0 => h \in hub.signed
  /\ hub.review.kind = "approved" => hub.review.head \in hub.signed

\* A pull request the store does not know yet was met by nobody, and one it knows to
\* be merged is.
Requested ==
  /\ pr.state = "none" => hub.pr \in {"none", "open"}
  /\ pr.state = "none" => pr.head = NoHead
  /\ hub.pr = "none" => hub.prHead = NoHead
  /\ pr.state = "merged" => Shown(pr.head)
  /\ pr.head # Foreign

\* What cleanup and the observation of Linear recorded is so, and stays so.
Gone(r) == IF r = "remote_branch" THEN hub.branch = NoHead ELSE r \notin hub.local

Finished ==
  /\ linear.last = "completed" => hub.issue = "completed"
  /\ \A r \in Resource : cleanup[r] = "deleted" => Gone(r)
  /\ (\E r \in Resource : cleanup[r] = "deleted") => st \in {"cleaning", "completed"}
  /\ st = "completed" => \A r \in Resource : cleanup[r] = "deleted"

\* Feedback that waits for an answer is bound to the repair of the head it is on, and
\* no run waits for an approval before the answer.
Answered ==
  /\ fb.phase = "none" => fb.root = NoHead
  /\ fb.phase \in {"verified", "pending"} => fb.root # NoHead /\ fb.bound = fb.root + 1
  /\ st \in AnsweredStates => ~Outstanding

StoreInv == /\ EvidenceChain /\ OneReplyPerRoot /\ ReplyBeforeMerge
            /\ MergeStands /\ Signed /\ Requested /\ Finished /\ Answered

-----
PushSteps  == {"push_begin", "push_look", "push_send", "push_reread", "push_save"}
OpenSteps  == {"open_begin", "open_find", "open_post", "open_save"}
ReplySteps == {"reply_read", "reply_begin", "reply_mark", "reply_find", "reply_post",
               "reply_final"}
PutSteps   == {"merge_begin", "merge_put", "merge_await", "merge_pending"}
CleanSteps == {"clean", "clean_apply", "clean_save"}
SaveSteps  == {"github_save", "mergeability_save"}

Unmerged == hub.by # "controller" /\ merge = NoMerge

\* What a handler relies on at each of its calls.
AtPush ==
  /\ job.at \in PushSteps => st = "pushing_branch"
  /\ job.at \in PushSteps \ {"push_begin"} => pr.state \in {"none", "open"}
  /\ At("push_send") => seen.branch # Foreign

AtOpen ==
  /\ job.at \in OpenSteps => st = "opening_pr"
  /\ job.at \in {"open_find", "open_post"} => pr.state = "none"
  /\ At("open_save") => pr.state = "none" \/ pr.head = head

AtReply ==
  /\ job.at \in ReplySteps => st = "replying_review_feedback" /\ Outstanding
  /\ At("reply_post") => hub.replies = 0
  /\ At("reply_final") => hub.replies = 1

AtRead ==
  /\ job.at \in SaveSteps => seen.prHead = head /\ pr.head = head
  /\ At("github_save") => st \in ReconciledStates \ {"awaiting_github_mergeability"}
  /\ At("mergeability_save") => st = "awaiting_github_mergeability"

AtMerge ==
  /\ job.at \in PutSteps => st = "merging" /\ Unmerged /\ approval[head] # 0
  /\ job.at \in {"merge_put", "merge_save"} => side["merge"][head] # "none"
  /\ At("merge_save") => st = "merging" /\ Shown(head) /\ approval[head] # 0

AtClean ==
  /\ job.at \in CleanSteps \cup {"clean_end"} => st = "cleaning"
  /\ job.at \in CleanSteps => job.to \in Resource
  /\ At("clean_save") /\ job.fin = "observed" => Gone(job.to)

\* Where a settled effect lets the run go.
Owed(to) ==
  /\ to \in {"branch_pushed", "pr_open", "awaiting_linear_completion", "cleaning",
             "completed", "manual_intervention"}
  /\ to = "branch_pushed" => st = "pushing_branch"
  /\ to = "pr_open" => st = "opening_pr" /\ pr.head = head
  /\ to = "awaiting_linear_completion" =>
       /\ merge.head = head
       /\ st = "merging" \/ (st = "manual_intervention" /\ merge.method = "external")
  /\ to = "cleaning" => st = "awaiting_linear_completion" /\ linear.last = "completed"
  /\ to = "completed" => st = "cleaning" /\ \A r \in Resource : cleanup[r] = "deleted"
  /\ to = "manual_intervention" => st \notin {"cleaning", "completed"}

\* The evidence a state rests on before the run moves there.
Evidence(to) ==
  /\ to = "branch_pushed" => side["push"][head] = "observed" /\ "remote_branch" \in owned
  /\ to = "pr_open" => side["open"][head] = "observed" /\ "pull_request" \in owned

Outcome(kind, to) ==
  \/ kind = "push"  /\ to = "branch_pushed"
  \/ kind = "open"  /\ to = "pr_open"
  \/ kind = "merge" /\ to = "awaiting_linear_completion"

AtSettle ==
  /\ At("finish") =>
       \/ /\ job.fin = "failed" /\ job.to \in {"stay", "manual_intervention"}
          /\ st \notin {"cleaning", "completed"}
       \/ job.fin = "observed" /\ Outcome(job.kind, job.to) /\ Owed(job.to)
  /\ At("own") => /\ job.kind \in {"push", "open"} /\ Outcome(job.kind, job.to)
                  /\ Owed(job.to) /\ side[job.kind][head] = "observed"
  /\ At("move") => Owed(job.to) /\ Evidence(job.to)

\* What a handler has read was so, and a merge is never undone.
ReadStands ==
  /\ seen.review.kind = "approved" => seen.review.head \in hub.signed
  /\ seen.pr = "merged" => Shown(seen.prHead)
  /\ seen.pr = "none" => seen.prHead = NoHead

JobInv == /\ AtPush /\ AtOpen /\ AtReply /\ AtRead /\ AtMerge /\ AtClean /\ AtSettle
          /\ ReadStands

DeliveryInv == TypeOK /\ StoreInv /\ JobInv
SettleSteps == {"finish", "own", "move"}
MergeSteps == PutSteps \cup {"merge_save"}

\* Where the handler stands, it has what it relies on there.
Placed ==
  \/ At("idle")
  \/ job.at \in PushSteps /\ AtPush
  \/ job.at \in OpenSteps /\ AtOpen
  \/ job.at \in ReplySteps /\ AtReply
  \/ job.at \in SaveSteps /\ AtRead
  \/ job.at \in MergeSteps /\ AtMerge
  \/ job.at \in CleanSteps \cup {"clean_end"} /\ AtClean
  \/ job.at \in SettleSteps /\ AtSettle

\* Where a handler stands, what it relies on elsewhere asks for nothing.
LEMMA PlacedSuffices == ASSUME Placed, ReadStands PROVE JobInv
<1>1. CASE At("idle")
  BY <1>1
  DEF JobInv, At, AtPush, PushSteps, AtOpen, OpenSteps, AtReply, ReplySteps, AtRead, SaveSteps,
      AtMerge, PutSteps, AtClean, CleanSteps, AtSettle
<1>2. CASE job.at \in PushSteps /\ AtPush
  BY <1>2
  DEF JobInv, At, PushSteps, AtOpen, OpenSteps, AtReply, ReplySteps, AtRead, SaveSteps, AtMerge,
      PutSteps, AtClean, CleanSteps, AtSettle
<1>3. CASE job.at \in OpenSteps /\ AtOpen
  BY <1>3
  DEF JobInv, At, AtPush, PushSteps, OpenSteps, AtReply, ReplySteps, AtRead, SaveSteps, AtMerge,
      PutSteps, AtClean, CleanSteps, AtSettle
<1>4. CASE job.at \in ReplySteps /\ AtReply
  BY <1>4
  DEF JobInv, At, AtPush, PushSteps, AtOpen, OpenSteps, ReplySteps, AtRead, SaveSteps, AtMerge,
      PutSteps, AtClean, CleanSteps, AtSettle
<1>5. CASE job.at \in SaveSteps /\ AtRead
  BY <1>5
  DEF JobInv, At, AtPush, PushSteps, AtOpen, OpenSteps, AtReply, ReplySteps, SaveSteps, AtMerge,
      PutSteps, AtClean, CleanSteps, AtSettle
<1>6. CASE job.at \in MergeSteps /\ AtMerge
  BY <1>6
  DEF JobInv, At, AtPush, PushSteps, AtOpen, OpenSteps, AtReply, ReplySteps, AtRead, SaveSteps,
      MergeSteps, PutSteps, AtClean, CleanSteps, AtSettle
<1>7. CASE job.at \in CleanSteps \cup {"clean_end"} /\ AtClean
  BY <1>7
  DEF JobInv, At, AtPush, PushSteps, AtOpen, OpenSteps, AtReply, ReplySteps, AtRead, SaveSteps,
      AtMerge, PutSteps, CleanSteps, AtSettle
<1>8. CASE job.at \in SettleSteps /\ AtSettle
  BY <1>8
  DEF JobInv, At, AtPush, PushSteps, AtOpen, OpenSteps, AtReply, ReplySteps, AtRead, SaveSteps,
      AtMerge, PutSteps, AtClean, CleanSteps, SettleSteps
<1> QED
  BY <1>1, <1>2, <1>3, <1>4, <1>5, <1>6, <1>7, <1>8 DEF Placed

\* The same of the next state.
LEMMA PlacedNext == ASSUME Placed', ReadStands' PROVE JobInv'
BY PlacedSuffices, PTL

\* What is said of the store depends on the store and on GitHub alone.
LEMMA StoreStays ==
  ASSUME StoreInv, StoreTyped, UNCHANGED <<storeVars, hub>>
  PROVE  StoreInv' /\ StoreTyped'
BY DEF StoreInv, StoreTyped, storeVars, runVars, effectVars, reviewVars, closeVars,
       EvidenceChain, Published, Opened, OneReplyPerRoot, ReplyBeforeMerge, MergeStands, Shown,
       LateStates, Signed, Requested, Finished, Gone, Answered, AnsweredStates, Outstanding

\* Nothing read is a reading.
LEMMA UnreadTyped == Unread \in Hub
BY HeadAssumption DEF Unread, Hub, Heads, NoHead, Commit, NoReview

\* The handler goes on to its next call.
LEMMA JobGoes ==
  ASSUME WorkTyped, NEW step \in Step, Go(step)
  PROVE  /\ job' \in JobRecord /\ job'.at = step
         /\ job'.kind = job.kind /\ job'.fin = job.fin /\ job'.to = job.to
BY DEF WorkTyped, Go, JobRecord

\* The handler settles its side effect.
LEMMA JobSettles ==
  ASSUME WorkTyped, NEW k \in EffectKind, NEW fin \in {"failed", "observed"},
         NEW to \in DeliveryStates \cup {"stay"}, Settle(k, fin, to)
  PROVE  /\ job' \in JobRecord /\ job'.at = "finish"
         /\ job'.kind = k /\ job'.fin = fin /\ job'.to = to
BY DEF WorkTyped, Settle, JobRecord, Step

\* The handler asks for the run's next state.
LEMMA JobMoves ==
  ASSUME NEW to \in DeliveryStates, MoveTo(to)
  PROVE  job' \in JobRecord /\ job'.at = "move" /\ job'.to = to
BY DEF Idle, MoveTo, JobRecord, Step, EffectKind


Counts == UNCHANGED troubles \/ (troubles < MaxTroubles /\ troubles' = troubles + 1)
Took   == seen' \in {seen, hub, Unread, [Unread EXCEPT !.branch = hub.branch]}

\* What the services do while a handler is elsewhere, or for it.
Advances ==
  /\ hub' \in Hub
  /\ hub.signed \subseteq hub'.signed
  /\ hub'.review.kind = "approved" => hub'.review.head \in hub'.signed
  /\ hub.pr = "merged" => hub'.pr = "merged" /\ hub'.prHead = hub.prHead
  /\ pr.state = "none" => hub'.pr \in {"none", "open"}
  /\ hub'.pr = "none" => hub'.prHead = NoHead
  /\ hub'.by = "controller" /\ hub.by # "controller" =>
       /\ st = "merging" /\ hub'.pr = "merged" /\ hub'.prHead = head
       /\ approval[head] # 0 /\ side["merge"][head] # "none"
  /\ hub'.replies <= 1 /\ (hub'.replies # hub.replies => fb.phase # "replied")
  /\ hub.issue = "completed" => hub'.issue = "completed"
  /\ hub.branch = NoHead /\ st \in {"cleaning", "completed"} => hub'.branch = NoHead
  /\ hub'.local \subseteq hub.local

\* The store's evidence holds while the services move on.
LEMMA AdvanceKeeps ==
  ASSUME StoreInv, StoreTyped, KeepStore, Advances
  PROVE  StoreInv' /\ StoreTyped'
<1>1. StoreTyped'
  BY DEF StoreTyped, KeepStore, storeVars, runVars, effectVars, reviewVars, closeVars
<1>2. UNCHANGED <<st, head, side, posts, pr, approval, fb, merge, owned, linear, cleanup>>
  BY DEF KeepStore, storeVars, runVars, effectVars, reviewVars, closeVars
<1>3. EvidenceChain' /\ ReplyBeforeMerge' /\ Answered'
  BY <1>2
  DEF StoreInv, EvidenceChain, Published, Opened, ReplyBeforeMerge, Answered, AnsweredStates,
      Outstanding
<1>4. OneReplyPerRoot'
  BY <1>2 DEF StoreInv, OneReplyPerRoot, Advances
<1>5. Signed'
  BY <1>2 DEF StoreInv, Signed, Advances
<1>6. Requested'
  BY <1>2 DEF StoreInv, Requested, Shown, Advances
<1>7. MergeStands'
  <2>1. head \in Heads BY DEF StoreTyped
  <2>2. st = "merging" => pr.head = head BY DEF StoreInv, EvidenceChain, Opened, Published
  <2> QED BY <1>2, <2>1, <2>2 DEF StoreInv, MergeStands, Shown, LateStates, Signed, Advances
<1>8. Finished'
  BY <1>2 DEF StoreInv, Finished, Gone, Advances
<1> QED
  BY <1>1, <1>3, <1>4, <1>5, <1>6, <1>7, <1>8 DEF StoreInv

\* A handler reads what GitHub shows, or forgets it.
LEMMA TookTyped ==
  ASSUME WorkTyped, Took
  PROVE  seen' \in Hub
<1>1. hub.branch \in Commit BY DEF WorkTyped, Hub
<1>2. [Unread EXCEPT !.branch = hub.branch] \in Hub
  BY <1>1, UnreadTyped DEF Hub
<1> QED BY <1>2, UnreadTyped DEF Took, WorkTyped

\* A step of a handler that leaves GitHub and Linear alone.
LEMMA StoreKeeps ==
  ASSUME DeliveryInv, StoreInv', StoreTyped', UNCHANGED hub, Took, Counts,
         Placed', job' \in JobRecord
  PROVE  DeliveryInv'
<1>1. WorkTyped /\ ReadStands /\ Signed /\ Requested
  BY DEF DeliveryInv, TypeOK, StoreInv, JobInv
<1>2. WorkTyped' BY <1>1, TookTyped, TroublesAssumption DEF WorkTyped, Counts
<1>3. ReadStands'
  <2>1. CASE seen' = seen BY <1>1, <2>1 DEF ReadStands, Shown
  <2>2. CASE seen' = hub BY <1>1, <2>2 DEF ReadStands, Shown, Signed, Requested
  <2>3. CASE seen' \in {Unread, [Unread EXCEPT !.branch = hub.branch]}
    BY <2>3 DEF ReadStands, Unread, NoReview, NoHead
  <2> QED BY <2>1, <2>2, <2>3 DEF Took
<1> QED BY <1>2, <1>3, PlacedNext DEF DeliveryInv, TypeOK

\* A step that only reads.
LEMMA ReadKeeps ==
  ASSUME DeliveryInv, KeepStore, UNCHANGED hub, Took, Counts, Placed', job' \in JobRecord
  PROVE  DeliveryInv'
BY StoreStays, StoreKeeps DEF DeliveryInv, TypeOK, KeepStore

\* A call that may change what GitHub holds.
LEMMA CallKeeps ==
  ASSUME DeliveryInv, KeepStore, Advances, UNCHANGED seen, Counts, Placed', job' \in JobRecord
  PROVE  DeliveryInv'
<1>1. WorkTyped /\ ReadStands /\ StoreInv /\ StoreTyped BY DEF DeliveryInv, TypeOK, JobInv
<1>2. WorkTyped' BY <1>1, TroublesAssumption DEF WorkTyped, Counts, Advances
<1>3. ReadStands' BY <1>1 DEF ReadStands, Shown, Advances
<1> QED BY <1>1, <1>2, <1>3, PlacedNext, AdvanceKeeps DEF DeliveryInv, TypeOK

\* What others do disturbs no handler.
LEMMA OutsideKeeps ==
  ASSUME DeliveryInv, KeepStore, Advances, UNCHANGED <<job, seen>>, Counts,
         hub'.replies = hub.replies, hub'.by = "controller" => hub.by = "controller"
  PROVE  DeliveryInv'
<1>1. WorkTyped /\ JobInv /\ StoreInv /\ StoreTyped BY DEF DeliveryInv, TypeOK
<1>2. WorkTyped' BY <1>1, TroublesAssumption DEF WorkTyped, Counts, Advances
<1>3. UNCHANGED <<st, head, side, posts, pr, approval, fb, merge, owned, linear, cleanup>>
  BY DEF KeepStore, storeVars, runVars, effectVars, reviewVars, closeVars
<1>4. ReadStands' BY <1>1 DEF ReadStands, Shown, Advances, JobInv
<1>5. AtPush' /\ AtOpen' /\ AtRead' /\ AtSettle'
  BY <1>1, <1>3 DEF JobInv, AtPush, AtOpen, AtRead, AtSettle, At, Owed, Outcome, Evidence
<1>6. AtReply'
  BY <1>1, <1>3 DEF JobInv, AtReply, At, Outstanding
<1>7. AtMerge'
  BY <1>1, <1>3 DEF JobInv, AtMerge, At, Unmerged, Shown, Advances
<1>8. AtClean'
  <2>1. job.at \in CleanSteps => st = "cleaning" BY <1>1 DEF JobInv, AtClean
  <2> QED BY <1>1, <1>3, <2>1 DEF JobInv, AtClean, At, Gone, Advances, CleanSteps
<1> QED
  BY <1>1, <1>2, <1>4, <1>5, <1>6, <1>7, <1>8, AdvanceKeeps DEF DeliveryInv, TypeOK, JobInv

\* The handler ends.
LEMMA JobRests ==
  ASSUME Return
  PROVE  job' \in JobRecord /\ job'.at = "idle" /\ seen' = Unread
BY DEF Return, Idle, JobRecord, Step, EffectKind

\* The store's records, one by one.
LEMMA StoreSame ==
  ASSUME KeepStore
  PROVE  UNCHANGED <<st, head, outside, side, posts, policy, pr, approval, fb, merge, owned,
                      linear, cleanup>>
BY DEF KeepStore, storeVars, runVars, effectVars, reviewVars, closeVars

\* The run's head is one of its own commits.
LEMMA HeadFacts ==
  ASSUME StoreTyped
  PROVE  /\ head \in Heads /\ head \in Commit /\ head \in 0..MaxHead
         /\ head # Foreign /\ head # NoHead /\ Foreign # NoHead
         /\ Foreign \in Commit /\ NoHead \in Commit
BY HeadAssumption DEF StoreTyped, Heads, Commit, Foreign, NoHead

\* A push moves the branch, and the head of an open pull request with it.
LEMMA PushedTyped ==
  ASSUME WorkTyped, NEW c \in Commit
  PROVE  /\ Pushed(c) \in Hub /\ Pushed(c).branch = c
         /\ hub.pr # "open" => Pushed(c).prHead = hub.prHead
         /\ Pushed(c).pr = hub.pr /\ Pushed(c).by = hub.by /\ Pushed(c).review = hub.review
         /\ Pushed(c).signed = hub.signed /\ Pushed(c).replies = hub.replies
         /\ Pushed(c).issue = hub.issue /\ Pushed(c).local = hub.local
<1>1. hub \in Hub BY DEF WorkTyped
<1>2. Pushed(c) \in Hub BY <1>1 DEF Pushed, Hub
<1> QED BY <1>1, <1>2 DEF Pushed, Hub


\* Recording a side effect of the run's head touches no evidence but that of a push or of
\* an opened pull request, which stays once it is observed.
LEMMA SideKeeps ==
  ASSUME StoreInv, StoreTyped, NEW k \in EffectKind, NEW status \in EffectStatus \ {"none"},
         side' = [side EXCEPT ![k][head] = status],
         side[k][head] = "observed" /\ k \in {"push", "open"} => status = "observed",
         posts' \in 0..MaxPosts, policy' \in 0..NoPolicy,
         UNCHANGED <<runVars, reviewVars, closeVars, hub>>
  PROVE  StoreTyped' /\ StoreInv'
<1>1. UNCHANGED <<st, head, outside, pr, approval, fb, merge, owned, linear, cleanup>>
  BY DEF runVars, reviewVars, closeVars
<1>2. /\ side' \in [EffectKind -> [Heads -> EffectStatus]]
      /\ side'[k][head] = status /\ \A j \in EffectKind \ {k} : side'[j] = side[j]
  BY HeadFacts DEF StoreTyped
<1>3. StoreTyped' BY <1>1, <1>2 DEF StoreTyped
<1>4. EvidenceChain'
  BY <1>1, <1>2 DEF EffectKind, StoreInv, EvidenceChain, Published, Opened
<1>5. OneReplyPerRoot' BY <1>1, LimitAssumption DEF StoreInv, OneReplyPerRoot
<1>6. MergeStands'
  BY <1>1, <1>2 DEF EffectKind, StoreInv, MergeStands, Shown, LateStates
<1>7. ReplyBeforeMerge' /\ Signed' /\ Requested' /\ Finished' /\ Answered'
  BY <1>1
  DEF StoreInv, ReplyBeforeMerge, Signed, Requested, Shown, Finished, Gone, Answered,
      AnsweredStates, Outstanding
<1> QED BY <1>3, <1>4, <1>5, <1>6, <1>7 DEF StoreInv

\* An intent is recorded unless the effect already has a status.
LEMMA BeginKeeps ==
  ASSUME StoreInv, StoreTyped, NEW k \in EffectKind, BeginSideEffect(k),
         posts' \in 0..MaxPosts, UNCHANGED <<policy, runVars, reviewVars, closeVars, hub>>
  PROVE  StoreTyped' /\ StoreInv'
<1>. DEFINE status == IF side[k][head] = "none" THEN "intent" ELSE side[k][head]
<1>1. status \in EffectStatus \ {"none"} BY HeadFacts DEF StoreTyped, EffectStatus
<1>2. side' = [side EXCEPT ![k][head] = status] BY DEF BeginSideEffect
<1>3. side[k][head] = "observed" => status = "observed" OBVIOUS
<1>4. policy' \in 0..NoPolicy BY DEF StoreTyped
<1>. HIDE DEF status
<1> QED BY <1>1, <1>2, <1>3, <1>4, SideKeeps

\* Publishing the branch.
LEMMA PushKeeps ==
  ASSUME DeliveryInv, PushStep
  PROVE  DeliveryInv'
<1>0. WorkTyped /\ StoreTyped /\ StoreInv /\ JobInv BY DEF DeliveryInv, TypeOK
<1>1. CASE StartPush
  <2>2. Placed' /\ job' \in JobRecord
    BY <1>0, <1>1, JobGoes
    DEF StartPush, Placed, At, Step, AtPush, PushSteps, OnlyRun, effectVars, reviewVars
  <2>3. StoreTyped'
    BY <1>0, <1>1, HeadFacts, LimitAssumption
    DEF StartPush, StoreTyped, effectVars, reviewVars, closeVars, OnlyRun, EffectKind,
        EffectStatus, DeliveryStates
  <2>4. StoreInv'
    BY <1>0, <1>1, HeadFacts, HeadAssumption, LimitAssumption, SMTT(30)
    DEF StartPush, StoreTyped, effectVars, reviewVars, closeVars, OnlyRun, EffectKind, Heads,
        NoHead, StoreInv, EvidenceChain, Published, Opened, OneReplyPerRoot, ReplyBeforeMerge,
        MergeStands, Shown, LateStates, Signed, Requested, Finished, Gone, Answered,
        AnsweredStates, Outstanding
  <2> QED BY <1>1, <2>2, <2>3, <2>4, StoreKeeps DEF StartPush, Took, Counts
<1>2. CASE BeginPush
  <2>1. st = "pushing_branch"
    BY <1>0, <1>2, HeadFacts DEF BeginPush, At, JobInv, AtPush, PushSteps
  <2>2. Placed' /\ job' \in JobRecord
    BY <1>0, <1>2, <2>1, JobGoes, JobSettles
    DEF BeginPush, Placed, At, Step, EffectKind, DeliveryStates, AtPush, PushSteps, AtSettle,
        SettleSteps, Owed, Outcome, Evidence, OnlySide, runVars, reviewVars, Fail
  <2>3. StoreTyped' /\ StoreInv'
    <3>1. BeginSideEffect("push") /\ posts' \in 0..MaxPosts
          /\ UNCHANGED <<policy, runVars, reviewVars, closeVars, hub>>
      BY <1>0, <1>2 DEF BeginPush, OnlySide, StoreTyped
    <3> QED BY <1>0, <3>1, BeginKeeps DEF EffectKind
  <2> QED BY <1>2, <2>2, <2>3, StoreKeeps DEF BeginPush, Took, Counts
<1>3. CASE LookupRemote
  <2>1. st = "pushing_branch" /\ pr.state \in {"none", "open"} /\ pr.head # Foreign
        /\ head # Foreign /\ Foreign # NoHead
    BY <1>0, <1>3, HeadFacts
    DEF LookupRemote, At, JobInv, AtPush, PushSteps, StoreInv, Requested
  <2>2. Placed' /\ job' \in JobRecord
    BY <1>0, <1>3, <2>1, StoreSame, JobGoes, JobSettles
    DEF LookupRemote, Placed, At, Step, EffectKind, DeliveryStates, AtPush, PushSteps, AtSettle,
        SettleSteps, Owed, Outcome, Evidence, Fail, Divergent, Unread
  <2> QED BY <1>3, <2>2, ReadKeeps DEF LookupRemote, Took, Counts, Reliably
<1>4. CASE LookupFails
  <2>1. st = "pushing_branch"
    BY <1>0, <1>4, HeadFacts DEF LookupFails, At, JobInv, AtPush, PushSteps
  <2>2. Placed' /\ job' \in JobRecord
    BY <1>0, <1>4, <2>1, StoreSame, JobSettles
    DEF LookupFails, Placed, At, EffectKind, DeliveryStates, AtSettle, SettleSteps, Owed,
        Outcome, Evidence, Fail
  <2> QED BY <1>4, <2>2, ReadKeeps DEF LookupFails, Took, Counts, Fault
<1>5. CASE SendPush
  <2>1. st = "pushing_branch" /\ pr.state \in {"none", "open"} /\ seen.branch # Foreign
    BY <1>0, <1>5, HeadFacts DEF SendPush, At, JobInv, AtPush, PushSteps
  <2>2. Placed' /\ job' \in JobRecord
    BY <1>0, <1>5, <2>1, StoreSame, JobGoes DEF SendPush, Placed, At, Step, AtPush, PushSteps
  <2>3. Advances
    BY <1>0, <1>5, <2>1, PushedTyped, HeadFacts
    DEF SendPush, Advances, WorkTyped, StoreTyped, StoreInv, OneReplyPerRoot, Signed, Hub,
        Requested, Reliably, Fault
  <2> QED BY <1>5, <2>2, <2>3, CallKeeps DEF SendPush, Counts, Reliably, Fault
<1>6. CASE RereadRemote
  <2>1. st = "pushing_branch" /\ pr.state \in {"none", "open"}
    BY <1>0, <1>6, HeadFacts DEF RereadRemote, At, JobInv, AtPush, PushSteps
  <2>2. Placed' /\ job' \in JobRecord
    BY <1>0, <1>6, <2>1, StoreSame, JobGoes, JobSettles
    DEF RereadRemote, Placed, At, Step, EffectKind, DeliveryStates, AtPush, PushSteps, AtSettle,
        SettleSteps, Owed, Outcome, Evidence, Fail
  <2> QED BY <1>6, <2>2, ReadKeeps DEF RereadRemote, Took, Counts, Reliably
<1>7. CASE RereadFails
  <2>1. st = "pushing_branch"
    BY <1>0, <1>7, HeadFacts DEF RereadFails, At, JobInv, AtPush, PushSteps
  <2>2. Placed' /\ job' \in JobRecord
    BY <1>0, <1>7, <2>1, StoreSame, JobSettles
    DEF RereadFails, Placed, At, EffectKind, DeliveryStates, AtSettle, SettleSteps, Owed,
        Outcome, Evidence, Fail
  <2> QED BY <1>7, <2>2, ReadKeeps DEF RereadFails, Took, Counts, Fault
<1>8. CASE SavePushedHead
  <2>1. st = "pushing_branch" /\ pr.state \in {"none", "open"}
    BY <1>0, <1>8, HeadFacts DEF SavePushedHead, At, JobInv, AtPush, PushSteps
  <2>2. Placed' /\ job' \in JobRecord
    BY <1>0, <1>8, <2>1, JobSettles
    DEF SavePushedHead, Placed, At, EffectKind, DeliveryStates, AtSettle, SettleSteps, Owed,
        Outcome, Evidence, runVars, effectVars
  <2>3. StoreTyped'
    BY <1>0, <1>8, <2>1, HeadFacts, LimitAssumption
    DEF SavePushedHead, StoreTyped, runVars, effectVars, closeVars, EffectKind, EffectStatus,
        DeliveryStates
  <2>4. StoreInv'
    BY <1>0, <1>8, <2>1, HeadFacts, HeadAssumption, LimitAssumption
    DEF SavePushedHead, StoreTyped, runVars, effectVars, closeVars, EffectKind, Heads, NoHead,
        StoreInv, EvidenceChain, Published, Opened, OneReplyPerRoot, ReplyBeforeMerge,
        MergeStands, Shown, LateStates, Signed, Requested, Finished, Gone, Answered,
        AnsweredStates, Outstanding
  <2> QED BY <1>8, <2>2, <2>3, <2>4, StoreKeeps DEF SavePushedHead, Took, Counts
<1> QED BY <1>1, <1>2, <1>3, <1>4, <1>5, <1>6, <1>7, <1>8 DEF PushStep

\* Opening the pull request.
LEMMA OpenKeeps ==
  ASSUME DeliveryInv, OpenStep
  PROVE  DeliveryInv'
<1>0. WorkTyped /\ StoreTyped /\ StoreInv /\ JobInv BY DEF DeliveryInv, TypeOK
<1>1. CASE StartOpenPullRequest
  <2>2. Placed' /\ job' \in JobRecord
    BY <1>0, <1>1, JobGoes
    DEF StartOpenPullRequest, Placed, At, Step, AtOpen, OpenSteps, OnlyRun, effectVars,
        reviewVars
  <2>3. StoreTyped'
    BY <1>0, <1>1, HeadFacts, LimitAssumption
    DEF StartOpenPullRequest, StoreTyped, effectVars, reviewVars, closeVars, OnlyRun,
        EffectKind, EffectStatus, DeliveryStates
  <2>4. StoreInv'
    <3>1. EvidenceChain'
      BY <1>0, <1>1, HeadFacts
      DEF StartOpenPullRequest, StoreInv, effectVars, reviewVars, closeVars, OnlyRun,
          EvidenceChain, Published, Opened
    <3>2. OneReplyPerRoot'
      BY <1>0, <1>1, HeadFacts
      DEF StartOpenPullRequest, StoreInv, effectVars, reviewVars, closeVars, OnlyRun,
          OneReplyPerRoot
    <3>3. ReplyBeforeMerge'
      BY <1>0, <1>1, HeadFacts
      DEF StartOpenPullRequest, StoreInv, effectVars, reviewVars, closeVars, OnlyRun,
          ReplyBeforeMerge
    <3>4. MergeStands'
      BY <1>0, <1>1, HeadFacts
      DEF StartOpenPullRequest, StoreInv, effectVars, reviewVars, closeVars, OnlyRun,
          MergeStands, Shown, LateStates
    <3>5. Signed'
      BY <1>0, <1>1, HeadFacts
      DEF StartOpenPullRequest, StoreInv, effectVars, reviewVars, closeVars, OnlyRun, Signed
    <3>6. Requested'
      BY <1>0, <1>1, HeadFacts
      DEF StartOpenPullRequest, StoreInv, effectVars, reviewVars, closeVars, OnlyRun, Requested,
          Shown
    <3>7. Finished'
      BY <1>0, <1>1, HeadFacts
      DEF StartOpenPullRequest, StoreInv, effectVars, reviewVars, closeVars, OnlyRun, Finished,
          Gone
    <3>8. Answered'
      BY <1>0, <1>1, HeadFacts
      DEF StartOpenPullRequest, StoreInv, effectVars, reviewVars, closeVars, OnlyRun, Answered,
          AnsweredStates, Outstanding
    <3> QED BY <3>1, <3>2, <3>3, <3>4, <3>5, <3>6, <3>7, <3>8 DEF StoreInv
  <2> QED BY <1>1, <2>2, <2>3, <2>4, StoreKeeps DEF StartOpenPullRequest, Took, Counts
<1>2. CASE BeginOpenPullRequest
  <2>1. st = "opening_pr"
    BY <1>0, <1>2, HeadFacts DEF BeginOpenPullRequest, At, JobInv, AtOpen, OpenSteps
  <2>2. Placed' /\ job' \in JobRecord
    BY <1>0, <1>2, <2>1, JobGoes, JobSettles
    DEF BeginOpenPullRequest, Placed, At, Step, EffectKind, DeliveryStates, AtOpen, OpenSteps,
        AtSettle, SettleSteps, Owed, Outcome, Evidence, OnlySide, runVars, reviewVars, Fail
  <2>3. StoreTyped' /\ StoreInv'
    <3>1. BeginSideEffect("open") /\ posts' \in 0..MaxPosts
          /\ UNCHANGED <<policy, runVars, reviewVars, closeVars, hub>>
      BY <1>0, <1>2 DEF BeginOpenPullRequest, OnlySide, StoreTyped
    <3> QED BY <1>0, <3>1, BeginKeeps DEF EffectKind
  <2> QED BY <1>2, <2>2, <2>3, StoreKeeps DEF BeginOpenPullRequest, Took, Counts
<1>3. CASE FindOwnedPullRequest
  <2>1. st = "opening_pr" /\ pr.state = "none"
    BY <1>0, <1>3, HeadFacts DEF FindOwnedPullRequest, At, JobInv, AtOpen, OpenSteps
  <2>2. Placed' /\ job' \in JobRecord
    BY <1>0, <1>3, <2>1, StoreSame, JobGoes, JobSettles
    DEF FindOwnedPullRequest, Placed, At, Step, EffectKind, DeliveryStates, AtOpen, OpenSteps,
        AtSettle, SettleSteps, Owed, Outcome, Evidence, Fail
  <2> QED BY <1>3, <2>2, ReadKeeps DEF FindOwnedPullRequest, Took, Counts, Reliably
<1>4. CASE FindFails
  <2>1. st = "opening_pr" BY <1>0, <1>4, HeadFacts DEF FindFails, At, JobInv, AtOpen, OpenSteps
  <2>2. Placed' /\ job' \in JobRecord
    BY <1>0, <1>4, <2>1, StoreSame, JobSettles
    DEF FindFails, Placed, At, EffectKind, DeliveryStates, AtSettle, SettleSteps, Owed, Outcome,
        Evidence, Fail
  <2> QED BY <1>4, <2>2, ReadKeeps DEF FindFails, Took, Counts, Fault
<1>5. CASE PostPullRequest
  <2>1. st = "opening_pr" /\ pr.state = "none"
    BY <1>0, <1>5, HeadFacts DEF PostPullRequest, At, JobInv, AtOpen, OpenSteps
  <2>2. Placed' /\ job' \in JobRecord
    BY <1>0, <1>5, <2>1, StoreSame, JobGoes, JobSettles
    DEF PostPullRequest, Placed, At, Step, EffectKind, DeliveryStates, AtOpen, OpenSteps,
        AtSettle, SettleSteps, Owed, Outcome, Evidence, Fail
  <2>3. Advances
    <3>1. hub \in Hub /\ hub.pr \in {"none", "open"}
      BY <1>0, <2>1 DEF WorkTyped, StoreInv, Requested
    <3>. DEFINE created == [hub EXCEPT !.pr = "open", !.prHead = hub.branch]
    <3>2. created \in Hub BY <3>1 DEF Hub
    <3>3. hub' \in {hub, created} BY <1>5 DEF PostPullRequest
    <3>4. \/ hub' = hub
          \/ /\ hub'.pr = "open" /\ hub'.by = hub.by /\ hub'.review = hub.review
             /\ hub'.signed = hub.signed /\ hub'.replies = hub.replies
             /\ hub'.issue = hub.issue /\ hub'.local = hub.local /\ hub'.branch = hub.branch
      BY <3>1, <3>3 DEF Hub
    <3> QED
      BY <1>0, <2>1, <3>1, <3>2, <3>3, <3>4
      DEF Advances, StoreInv, OneReplyPerRoot, Signed, Requested
  <2> QED BY <1>5, <2>2, <2>3, CallKeeps DEF PostPullRequest, Counts, Reliably, Fault
<1>6. CASE SavePullRequest
  <2>1. st = "opening_pr" /\ (pr.state = "none" \/ pr.head = head)
    BY <1>0, <1>6, HeadFacts DEF SavePullRequest, At, JobInv, AtOpen, OpenSteps
  <2>2. Placed' /\ job' \in JobRecord
    BY <1>0, <1>6, <2>1, JobSettles
    DEF SavePullRequest, Placed, At, EffectKind, DeliveryStates, AtSettle, SettleSteps, Owed,
        Outcome, Evidence, runVars, effectVars
  <2>3. StoreTyped'
    BY <1>0, <1>6, <2>1, HeadFacts, LimitAssumption
    DEF SavePullRequest, StoreTyped, runVars, effectVars, closeVars, EffectKind, EffectStatus,
        DeliveryStates
  <2>4. StoreInv'
    BY <1>0, <1>6, <2>1, HeadFacts, HeadAssumption, LimitAssumption, SMTT(30)
    DEF SavePullRequest, StoreTyped, runVars, effectVars, closeVars, EffectKind, Heads, NoHead,
        StoreInv, EvidenceChain, Published, Opened, OneReplyPerRoot, ReplyBeforeMerge,
        MergeStands, Shown, LateStates, Signed, Requested, Finished, Gone, Answered,
        AnsweredStates, Outstanding
  <2> QED BY <1>6, <2>2, <2>3, <2>4, StoreKeeps DEF SavePullRequest, Took, Counts
<1> QED BY <1>1, <1>2, <1>3, <1>4, <1>5, <1>6 DEF OpenStep

\* What ends a handler.
LEMMA SettleKeeps ==
  ASSUME DeliveryInv, SettleStep
  PROVE  DeliveryInv'
<1>0. WorkTyped /\ StoreTyped /\ StoreInv /\ JobInv BY DEF DeliveryInv, TypeOK
<1>1. CASE FinishSideEffect
  <2>1. job.kind \in EffectKind /\ AtSettle
    BY <1>0, <1>1, HeadFacts DEF FinishSideEffect, At, JobInv, WorkTyped, JobRecord
  <2>2. Placed' /\ job' \in JobRecord
    <3>0. side'[job.kind][head] = IF side[job.kind][head] = "observed" THEN "observed"
                                  ELSE job.fin
      BY <1>0, <1>1, <2>1, HeadFacts DEF FinishSideEffect, StoreTyped
    <3>1. UNCHANGED <<st, head, pr, merge, linear, cleanup>>
      BY <1>1 DEF FinishSideEffect, runVars, reviewVars, closeVars
    <3>2. CASE job.fin = "failed"
      BY <1>0, <1>1, <2>1, <3>1, <3>2, JobGoes, JobRests
      DEF FinishSideEffect, Placed, At, Step, AtSettle, SettleSteps, Owed, Outcome, Evidence
    <3>3. CASE job.fin = "observed" /\ job.kind \in {"push", "open"}
      BY <1>0, <1>1, <2>1, <3>0, <3>1, <3>3, JobGoes
      DEF FinishSideEffect, Placed, At, Step, AtSettle, SettleSteps, Owed, Outcome
    <3>4. CASE job.fin = "observed" /\ job.kind \notin {"push", "open"}
      BY <1>0, <1>1, <2>1, <3>1, <3>4, JobGoes, JobRests
      DEF FinishSideEffect, Placed, At, Step, AtSettle, SettleSteps, Owed, Outcome, Evidence
    <3> QED BY <1>0, <3>2, <3>3, <3>4 DEF WorkTyped, JobRecord
  <2>3. StoreTyped' /\ StoreInv'
    <3>. DEFINE status == IF side[job.kind][head] = "observed" THEN "observed" ELSE job.fin
    <3>1. status \in EffectStatus \ {"none"} BY <1>0 DEF WorkTyped, JobRecord, EffectStatus
    <3>2. side' = [side EXCEPT ![job.kind][head] = status] BY <1>1 DEF FinishSideEffect
    <3>3. /\ posts' \in 0..MaxPosts /\ policy' \in 0..NoPolicy
          /\ UNCHANGED <<runVars, reviewVars, closeVars, hub>>
      BY <1>0, <1>1 DEF FinishSideEffect, NoPolicy, StoreTyped
    <3>4. side[job.kind][head] = "observed" => status = "observed" OBVIOUS
    <3>. HIDE DEF status
    <3> QED BY <1>0, <2>1, <3>1, <3>2, <3>3, <3>4, SideKeeps
  <2> QED BY <1>1, <2>2, <2>3, StoreKeeps DEF FinishSideEffect, Took, Counts, Return
<1>2. CASE AddOwnedResource
  <2>1. AtSettle BY <1>0, <1>2, HeadFacts DEF AddOwnedResource, At, JobInv
  <2>2. Placed' /\ job' \in JobRecord
    BY <1>0, <1>2, <2>1, JobGoes
    DEF AddOwnedResource, Placed, At, Step, AtSettle, SettleSteps, Owed, Outcome, Evidence,
        runVars, effectVars, reviewVars
  <2>3. StoreTyped'
    BY <1>0, <1>2, <2>1, HeadFacts, LimitAssumption
    DEF AddOwnedResource, StoreTyped, runVars, effectVars, reviewVars, EffectKind, EffectStatus,
        DeliveryStates
  <2>4. StoreInv'
    BY <1>0, <1>2, <2>1, HeadFacts, HeadAssumption, LimitAssumption
    DEF AddOwnedResource, StoreTyped, runVars, effectVars, reviewVars, EffectKind, Heads,
        NoHead, StoreInv, EvidenceChain, Published, Opened, OneReplyPerRoot, ReplyBeforeMerge,
        MergeStands, Shown, LateStates, Signed, Requested, Finished, Gone, Answered,
        AnsweredStates, Outstanding
  <2> QED BY <1>2, <2>2, <2>3, <2>4, StoreKeeps DEF AddOwnedResource, Took, Counts
<1>3. CASE Transition
  <2>1. Owed(job.to) /\ Evidence(job.to)
    BY <1>0, <1>3, HeadFacts DEF Transition, At, JobInv, AtSettle
  <2>2. Placed' /\ job' \in JobRecord
    BY <1>0, <1>3, <2>1, JobRests DEF Transition, Placed, At
  <2>3. StoreTyped'
    <3>1. job.to \in DeliveryStates BY <2>1 DEF Owed, DeliveryStates
    <3> QED BY <1>0, <1>3, <3>1 DEF Transition, StoreTyped, effectVars, reviewVars, closeVars
  <2>4. StoreInv'
    <3>1. EvidenceChain'
      BY <1>0, <1>3, <2>1, HeadFacts
      DEF Transition, StoreInv, effectVars, reviewVars, closeVars, Owed, Evidence,
          EvidenceChain, Published, Opened
    <3>2. OneReplyPerRoot'
      BY <1>0, <1>3, <2>1, HeadFacts
      DEF Transition, StoreInv, effectVars, reviewVars, closeVars, Owed, Evidence,
          OneReplyPerRoot
    <3>3. ReplyBeforeMerge'
      BY <1>0, <1>3, <2>1, HeadFacts
      DEF Transition, StoreInv, effectVars, reviewVars, closeVars, Owed, Evidence,
          ReplyBeforeMerge
    <3>4. MergeStands'
      BY <1>0, <1>3, <2>1, HeadFacts
      DEF Transition, StoreInv, effectVars, reviewVars, closeVars, Owed, Evidence, MergeStands,
          Shown, LateStates
    <3>5. Signed'
      BY <1>0, <1>3, <2>1, HeadFacts
      DEF Transition, StoreInv, effectVars, reviewVars, closeVars, Owed, Evidence, Signed
    <3>6. Requested'
      BY <1>0, <1>3, <2>1, HeadFacts
      DEF Transition, StoreInv, effectVars, reviewVars, closeVars, Owed, Evidence, Requested,
          Shown
    <3>7. Finished'
      BY <1>0, <1>3, <2>1, HeadFacts
      DEF Transition, StoreInv, effectVars, reviewVars, closeVars, Owed, Evidence, Finished,
          Gone
    <3>8. Answered'
      BY <1>0, <1>3, <2>1, HeadFacts
      DEF Transition, StoreInv, effectVars, reviewVars, closeVars, Owed, Evidence, Answered,
          AnsweredStates, Outstanding
    <3> QED BY <3>1, <3>2, <3>3, <3>4, <3>5, <3>6, <3>7, <3>8 DEF StoreInv
  <2> QED BY <1>3, <2>2, <2>3, <2>4, StoreKeeps DEF Transition, Took, Counts, Return
<1> QED BY <1>1, <1>2, <1>3 DEF SettleStep

\* A repair, or its end.
LEMMA RepairKeeps ==
  ASSUME DeliveryInv, RepairStep
  PROVE  DeliveryInv'
<1>0. WorkTyped /\ StoreTyped /\ StoreInv /\ JobInv BY DEF DeliveryInv, TypeOK
<1>1. CASE Repair
  <2>2. Placed' /\ job' \in JobRecord
    BY <1>0, <1>1 DEF Repair, Placed, At, WorkTyped
  <2>3. StoreTyped'
    <3>1. head + 1 \in Heads /\ head + 1 \in 0..MaxHead
      BY <1>0, <1>1, HeadFacts, HeadAssumption DEF Repair, Heads
    <3>2. fb' = fb \/ fb' = [fb EXCEPT !.phase = "verified", !.bound = head + 1]
      BY <1>1 DEF Repair
    <3>3. fb' \in [phase : {"none", "observed", "selected", "verified", "pending", "replied",
                       "resolved"}, root : 0..MaxHead, bound : 0..MaxHead]
      BY <1>0, <3>1, <3>2 DEF StoreTyped
    <3> QED
      BY <1>0, <1>1, <3>1, <3>3 DEF Repair, StoreTyped, effectVars, closeVars, DeliveryStates
  <2>4. StoreInv'
    <3>1. EvidenceChain'
      BY <1>0, <1>1, HeadFacts
      DEF Repair, StoreInv, effectVars, closeVars, StoreTyped, EvidenceChain, Published, Opened
    <3>2. OneReplyPerRoot'
      <4>1. fb' = fb \/ fb'.phase = "verified" BY <1>0, <1>1 DEF Repair, StoreTyped
      <4> QED BY <1>0, <1>1, <4>1 DEF Repair, StoreInv, OneReplyPerRoot, effectVars
    <3>3. ReplyBeforeMerge'
      BY <1>0, <1>1, HeadFacts
      DEF Repair, StoreInv, effectVars, closeVars, StoreTyped, ReplyBeforeMerge
    <3>4. MergeStands'
      BY <1>0, <1>1, HeadFacts
      DEF Repair, StoreInv, effectVars, closeVars, StoreTyped, MergeStands, Shown, LateStates
    <3>5. Signed'
      BY <1>0, <1>1, HeadFacts DEF Repair, StoreInv, effectVars, closeVars, StoreTyped, Signed
    <3>6. Requested'
      BY <1>0, <1>1, HeadFacts
      DEF Repair, StoreInv, effectVars, closeVars, StoreTyped, Requested, Shown
    <3>7. Finished'
      BY <1>0, <1>1, HeadFacts
      DEF Repair, StoreInv, effectVars, closeVars, StoreTyped, Finished, Gone
    <3>8. Answered'
      <4>1. \/ fb' = fb
            \/ /\ fb.root = head /\ fb'.root = head
               /\ fb'.phase = "verified" /\ fb'.bound = head + 1
        BY <1>0, <1>1 DEF Repair, StoreTyped
      <4> QED BY <1>0, <1>1, <4>1, HeadFacts DEF Repair, StoreInv, Answered, AnsweredStates
    <3> QED BY <3>1, <3>2, <3>3, <3>4, <3>5, <3>6, <3>7, <3>8 DEF StoreInv
  <2> QED BY <1>1, <2>2, <2>3, <2>4, StoreKeeps DEF Repair, Took, Counts
<1>2. CASE RepairStops
  <2>2. Placed' /\ job' \in JobRecord
    BY <1>0, <1>2 DEF RepairStops, Placed, At, WorkTyped
  <2>3. StoreTyped'
    BY <1>0, <1>2, HeadFacts, LimitAssumption, ZenonT(60)
    DEF RepairStops, StoreTyped, effectVars, reviewVars, closeVars, EffectKind, EffectStatus,
        DeliveryStates, Park
  <2>4. StoreInv'
    BY <1>0, <1>2, HeadFacts, HeadAssumption, LimitAssumption
    DEF RepairStops, StoreTyped, effectVars, reviewVars, closeVars, EffectKind, Heads, NoHead,
        Park, StoreInv, EvidenceChain, Published, Opened, OneReplyPerRoot, ReplyBeforeMerge,
        MergeStands, Shown, LateStates, Signed, Requested, Finished, Gone, Answered,
        AnsweredStates, Outstanding
  <2> QED BY <1>2, <2>2, <2>3, <2>4, StoreKeeps DEF RepairStops, Took, Counts
<1> QED BY <1>1, <1>2 DEF RepairStep

\* The controller's reply.
LEMMA ReplyKeeps ==
  ASSUME DeliveryInv, ReplyStep
  PROVE  DeliveryInv'
<1>0. WorkTyped /\ StoreTyped /\ StoreInv /\ JobInv BY DEF DeliveryInv, TypeOK
<1>1. CASE AllReplied
  <2>2. Placed' /\ job' \in JobRecord
    BY <1>0, <1>1 DEF AllReplied, Placed, At, WorkTyped
  <2>3. StoreTyped'
    BY <1>0, <1>1, HeadFacts, LimitAssumption, ZenonT(60)
    DEF AllReplied, StoreTyped, effectVars, reviewVars, closeVars, OnlyRun, EffectKind,
        EffectStatus, DeliveryStates
  <2>4. StoreInv'
    <3>1. EvidenceChain'
      BY <1>0, <1>1, HeadFacts
      DEF AllReplied, StoreInv, effectVars, reviewVars, closeVars, OnlyRun, EvidenceChain,
          Published, Opened
    <3>2. OneReplyPerRoot'
      BY <1>0, <1>1, HeadFacts
      DEF AllReplied, StoreInv, effectVars, reviewVars, closeVars, OnlyRun, OneReplyPerRoot
    <3>3. ReplyBeforeMerge'
      BY <1>0, <1>1, HeadFacts
      DEF AllReplied, StoreInv, effectVars, reviewVars, closeVars, OnlyRun, ReplyBeforeMerge
    <3>4. MergeStands'
      BY <1>0, <1>1, HeadFacts
      DEF AllReplied, StoreInv, effectVars, reviewVars, closeVars, OnlyRun, MergeStands, Shown,
          LateStates
    <3>5. Signed'
      BY <1>0, <1>1, HeadFacts
      DEF AllReplied, StoreInv, effectVars, reviewVars, closeVars, OnlyRun, Signed
    <3>6. Requested'
      BY <1>0, <1>1, HeadFacts
      DEF AllReplied, StoreInv, effectVars, reviewVars, closeVars, OnlyRun, Requested, Shown
    <3>7. Finished'
      BY <1>0, <1>1, HeadFacts
      DEF AllReplied, StoreInv, effectVars, reviewVars, closeVars, OnlyRun, Finished, Gone
    <3>8. Answered'
      BY <1>0, <1>1, HeadFacts
      DEF AllReplied, StoreInv, effectVars, reviewVars, closeVars, OnlyRun, Answered,
          AnsweredStates, Outstanding
    <3> QED BY <3>1, <3>2, <3>3, <3>4, <3>5, <3>6, <3>7, <3>8 DEF StoreInv
  <2> QED BY <1>1, <2>2, <2>3, <2>4, StoreKeeps DEF AllReplied, Took, Counts
<1>2. CASE StartReply
  <2>2. Placed' /\ job' \in JobRecord
    BY <1>0, <1>2, StoreSame, JobGoes, JobMoves
    DEF StartReply, Placed, At, Step, DeliveryStates, AtReply, ReplySteps, AtSettle,
        SettleSteps, Owed, Outcome, Evidence, Outstanding
  <2> QED BY <1>2, <2>2, ReadKeeps DEF StartReply, Took, Counts, Reliably
<1>3. CASE ResolveReviewReplyFeedback
  <2>1. st = "replying_review_feedback" /\ Outstanding
    BY <1>0, <1>3, HeadFacts DEF ResolveReviewReplyFeedback, At, JobInv, AtReply, ReplySteps
  <2>2. Placed' /\ job' \in JobRecord
    BY <1>0, <1>3, <2>1, JobRests DEF ResolveReviewReplyFeedback, Placed, At
  <2>3. StoreTyped'
    BY <1>0, <1>3, <2>1, HeadFacts, LimitAssumption
    DEF ResolveReviewReplyFeedback, StoreTyped, runVars, effectVars, closeVars, EffectKind,
        EffectStatus, DeliveryStates
  <2>4. StoreInv'
    BY <1>0, <1>3, <2>1, HeadFacts, HeadAssumption, LimitAssumption
    DEF ResolveReviewReplyFeedback, StoreTyped, runVars, effectVars, closeVars, EffectKind,
        Heads, NoHead, StoreInv, EvidenceChain, Published, Opened, OneReplyPerRoot,
        ReplyBeforeMerge, MergeStands, Shown, LateStates, Signed, Requested, Finished, Gone,
        Answered, AnsweredStates, Outstanding
  <2> QED
    BY <1>3, <2>2, <2>3, <2>4, StoreKeeps DEF ResolveReviewReplyFeedback, Took, Counts, Return
<1>4. CASE BeginReply
  <2>1. st = "replying_review_feedback" /\ Outstanding
    BY <1>0, <1>4, HeadFacts DEF BeginReply, At, JobInv, AtReply, ReplySteps
  <2>2. Placed' /\ job' \in JobRecord
    BY <1>0, <1>4, <2>1, JobGoes
    DEF BeginReply, Placed, At, Step, AtReply, ReplySteps, runVars, reviewVars, Outstanding
  <2>3. StoreTyped' /\ StoreInv'
    <3>1. BeginSideEffect("reply") /\ posts' \in 0..MaxPosts
          /\ UNCHANGED <<policy, runVars, reviewVars, closeVars, hub>>
      BY <1>0, <1>4, LimitAssumption DEF BeginReply, StoreTyped
    <3> QED BY <1>0, <3>1, BeginKeeps DEF EffectKind
  <2> QED BY <1>4, <2>2, <2>3, StoreKeeps DEF BeginReply, Took, Counts
<1>5. CASE MarkReplyPending
  <2>1. st = "replying_review_feedback" /\ Outstanding
    BY <1>0, <1>5, HeadFacts DEF MarkReplyPending, At, JobInv, AtReply, ReplySteps
  <2>2. Placed' /\ job' \in JobRecord
    BY <1>0, <1>5, <2>1, JobGoes
    DEF MarkReplyPending, Placed, At, Step, EffectKind, DeliveryStates, AtReply, ReplySteps,
        runVars, StoreTyped, Outstanding
  <2>3. StoreTyped'
    BY <1>0, <1>5, <2>1, HeadFacts, LimitAssumption
    DEF MarkReplyPending, StoreTyped, runVars, effectVars, closeVars, EffectKind, EffectStatus,
        DeliveryStates
  <2>4. StoreInv'
    BY <1>0, <1>5, <2>1, HeadFacts, HeadAssumption, LimitAssumption
    DEF MarkReplyPending, StoreTyped, runVars, effectVars, closeVars, EffectKind, Heads, NoHead,
        StoreInv, EvidenceChain, Published, Opened, OneReplyPerRoot, ReplyBeforeMerge,
        MergeStands, Shown, LateStates, Signed, Requested, Finished, Gone, Answered,
        AnsweredStates, Outstanding
  <2> QED BY <1>5, <2>2, <2>3, <2>4, StoreKeeps DEF MarkReplyPending, Took, Counts
<1>6. CASE FindReplies
  <2>1. st = "replying_review_feedback" /\ Outstanding
    BY <1>0, <1>6, HeadFacts DEF FindReplies, At, JobInv, AtReply, ReplySteps
  <2>2. Placed' /\ job' \in JobRecord
    BY <1>0, <1>6, <2>1, JobGoes, JobMoves
    DEF FindReplies, Placed, At, Step, DeliveryStates, AtReply, ReplySteps, AtSettle,
        SettleSteps, Owed, Outcome, Evidence, runVars, reviewVars, Outstanding
  <2>3. StoreTyped' /\ StoreInv'
    <3>1. CASE UNCHANGED <<side, posts>>
      BY <1>0, <1>6, <3>1, StoreStays DEF FindReplies, storeVars, effectVars
    <3>2. CASE /\ side' = [side EXCEPT !["reply"][head] = "intent"]
               /\ posts < MaxPosts /\ posts' = posts + 1
      <4>1. posts' \in 0..MaxPosts BY <1>0, <3>2, LimitAssumption DEF StoreTyped
      <4> QED
        BY <1>0, <1>6, <3>2, <4>1, SideKeeps
        DEF FindReplies, EffectKind, EffectStatus, StoreTyped
    <3> QED BY <1>6, <3>1, <3>2 DEF FindReplies
  <2> QED BY <1>6, <2>2, <2>3, StoreKeeps DEF FindReplies, Took, Counts, Reliably
<1>7. CASE FindRepliesFails
  <2>1. st = "replying_review_feedback" /\ Outstanding
    BY <1>0, <1>7, HeadFacts DEF FindRepliesFails, At, JobInv, AtReply, ReplySteps
  <2>2. Placed' /\ job' \in JobRecord
    BY <1>0, <1>7, <2>1, StoreSame, JobSettles, JobMoves
    DEF FindRepliesFails, Placed, At, EffectKind, DeliveryStates, AtSettle, SettleSteps, Owed,
        Outcome, Evidence, Fail
  <2> QED BY <1>7, <2>2, ReadKeeps DEF FindRepliesFails, Took, Counts, Fault
<1>8. CASE PostReply
  <2>1. st = "replying_review_feedback" /\ Outstanding /\ hub.replies = 0
    BY <1>0, <1>8, HeadFacts DEF PostReply, At, JobInv, AtReply, ReplySteps
  <2>2. Placed' /\ job' \in JobRecord
    BY <1>0, <1>8, <2>1, StoreSame, JobGoes, JobSettles, JobMoves
    DEF PostReply, Placed, At, Step, EffectKind, DeliveryStates, AtReply, ReplySteps, AtSettle,
        SettleSteps, Owed, Outcome, Evidence, Fail, Outstanding, WorkTyped, Hub
  <2>3. Advances
    <3>1. hub \in Hub BY <1>0 DEF WorkTyped
    <3>. DEFINE posted == [hub EXCEPT !.replies = @ + 1]
    <3>2. posted \in Hub /\ posted.replies = 1 BY <2>1, <3>1 DEF Hub
    <3>3. hub' \in {hub, posted} BY <1>8 DEF PostReply
    <3>4. \/ hub' = hub
          \/ /\ hub'.replies = 1 /\ hub'.by = hub.by /\ hub'.review = hub.review
             /\ hub'.signed = hub.signed /\ hub'.pr = hub.pr /\ hub'.prHead = hub.prHead
             /\ hub'.issue = hub.issue /\ hub'.local = hub.local /\ hub'.branch = hub.branch
      BY <3>1, <3>2, <3>3 DEF Hub
    <3>5. fb.phase # "replied" BY <2>1 DEF Outstanding
    <3>6. hub' \in Hub BY <3>1, <3>2, <3>3
    <3> QED
      BY <1>0, <2>1, <3>4, <3>5, <3>6 DEF Advances, StoreInv, OneReplyPerRoot, Signed, Requested
  <2> QED BY <1>8, <2>2, <2>3, CallKeeps DEF PostReply, Counts, Reliably, Fault
<1>9. CASE FinalizeReviewReply
  <2>1. st = "replying_review_feedback" /\ Outstanding /\ hub.replies = 1
    BY <1>0, <1>9, HeadFacts DEF FinalizeReviewReply, At, JobInv, AtReply, ReplySteps
  <2>2. Placed' /\ job' \in JobRecord
    BY <1>0, <1>9, <2>1, JobRests DEF FinalizeReviewReply, Placed, At
  <2>3. StoreTyped'
    BY <1>0, <1>9, <2>1, HeadFacts, LimitAssumption
    DEF FinalizeReviewReply, StoreTyped, runVars, closeVars, EffectKind, EffectStatus,
        DeliveryStates
  <2>4. StoreInv'
    BY <1>0, <1>9, <2>1, HeadFacts, HeadAssumption, LimitAssumption
    DEF FinalizeReviewReply, StoreTyped, runVars, closeVars, EffectKind, Heads, NoHead,
        StoreInv, EvidenceChain, Published, Opened, OneReplyPerRoot, ReplyBeforeMerge,
        MergeStands, Shown, LateStates, Signed, Requested, Finished, Gone, Answered,
        AnsweredStates, Outstanding
  <2> QED BY <1>9, <2>2, <2>3, <2>4, StoreKeeps DEF FinalizeReviewReply, Took, Counts, Return
<1> QED BY <1>1, <1>2, <1>3, <1>4, <1>5, <1>6, <1>7, <1>8, <1>9 DEF ReplyStep

\* The states a read of GitHub can lead to.
Waiting == {"manual_intervention", "reconciling_reviews", "awaiting_human_approval", "repairing",
            "replying_review_feedback", "merging", "awaiting_github_mergeability"}

\* The feedback f has nothing left to answer for the present head.
Settled(f) == f.root # NoHead /\ head = f.root + 1 => f.phase \in {"replied", "resolved"}

\* An outstanding answer comes before a wait for approval, and a merge after one.
LEMMA NextGoes ==
  ASSUME StoreInv, st \in ReconciledStates, NEW h, h.checks[head] \in {"pending", "pass", "fail"}
  PROVE  /\ NextState(h) \in Waiting \ {"awaiting_github_mergeability"}
         /\ NextState(h) = "awaiting_human_approval" => ~Outstanding
         /\ NextState(h) = "merging" => st = "awaiting_human_approval" /\ Approved(h)
<1>1. CanTransition("reconciling_reviews", "replying_review_feedback")
  BY DEF CanTransition, AllowedTransitions
<1>2. AfterFeedback(h) \in {"manual_intervention", "reconciling_reviews",
                            "awaiting_human_approval", "repairing"}
  BY DEF AfterFeedback, GateState
<1>3. /\ NextState(h) \in Waiting \ {"awaiting_github_mergeability"}
      /\ NextState(h) = "merging" => st = "awaiting_human_approval" /\ Approved(h)
  BY <1>2 DEF NextState, Waiting
<1>4. ASSUME AfterFeedback(h) = "awaiting_human_approval", Outstanding
      PROVE  NextState(h) # "awaiting_human_approval"
  <2>1. st = "reconciling_reviews" \/ st = "pr_open"
    BY <1>4 DEF StoreInv, Answered, AnsweredStates, ReconciledStates
  <2>2. st # "pr_open" BY <1>4 DEF AfterFeedback, GateState
  <2>3. Passing(h) BY <1>4, <2>2 DEF AfterFeedback, GateState, Passing
  <2> QED BY <1>1, <1>4, <2>1, <2>2, <2>3 DEF NextState
<1>5. NextState(h) = "awaiting_human_approval" => AfterFeedback(h) = "awaiting_human_approval"
  BY DEF NextState
<1> QED BY <1>3, <1>4, <1>5

\* What a read saves.
LEMMA SavedRead ==
  ASSUME WorkTyped, StoreTyped, StoreInv, JobInv, UNCHANGED <<effectVars, closeVars, hub>>,
         st \in ReconciledStates, seen.prHead = head, pr.head = head,
         NEW to \in Waiting, NEW feedback \in BOOLEAN, NEW approved \in BOOLEAN,
         SaveGitHubReadSuccess(seen, to, feedback, approved),
         approved => Approved(seen),
         to \in AnsweredStates => ~Outstanding,
         to = "merging" => Settled(fb')
  PROVE  StoreTyped' /\ StoreInv'
<1>1. seen \in Hub /\ ReadStands BY DEF WorkTyped, JobInv
<1>2. Observed(seen) \in [state : {"none", "open", "closed", "merged"}, head : Commit,
                          green : BOOLEAN]
  BY <1>1 DEF Observed, Hub
<1>3. \/ fb' = fb
      \/ /\ fb' = Admitted(seen, to) /\ TrustedChanges(seen)
         /\ fb'.phase \in {"observed", "selected"} /\ fb.phase \in {"none", "observed"}
         /\ fb'.root \in {head, fb.root} /\ fb'.bound \in {NoHead, fb.bound}
  BY DEF SaveGitHubReadSuccess, Admitted, StoreTyped
<1>4. fb' \in [phase : {"none", "observed", "selected", "verified", "pending", "replied",
                       "resolved"}, root : 0..MaxHead, bound : 0..MaxHead]
  <2>1. head \in 0..MaxHead /\ NoHead \in 0..MaxHead
    BY HeadFacts, HeadAssumption DEF Heads, NoHead
  <2>2. \/ fb' = fb \/ fb' = [fb EXCEPT !.phase = "selected"]
        \/ \E selects \in {"selected", "observed"} :
             fb' = [phase |-> selects, root |-> head, bound |-> NoHead]
    BY DEF SaveGitHubReadSuccess, Admitted
  <2> QED BY <2>1, <2>2 DEF StoreTyped
<1>5. \/ approval' = approval
      \/ approval' = [approval EXCEPT ![head] = seen.review.id] /\ Approved(seen)
  BY DEF SaveGitHubReadSuccess
<1>6. approval' \in [Heads -> 0..MaxReviews]
  BY <1>1, <1>5 DEF StoreTyped, Hub
<1>7. StoreTyped'
  BY <1>2, <1>4, <1>6
  DEF StoreTyped, SaveGitHubReadSuccess, effectVars, closeVars, Waiting, DeliveryStates,
      MovedOutside
<1>8. EvidenceChain'
  BY HeadFacts
  DEF StoreInv, EvidenceChain, Published, Opened, SaveGitHubReadSuccess, ReconciledStates,
      Waiting, effectVars, closeVars, Observed
<1>9. OneReplyPerRoot'
  BY <1>3 DEF StoreInv, OneReplyPerRoot, effectVars
<1>10. ReplyBeforeMerge'
  BY DEF SaveGitHubReadSuccess, ReplyBeforeMerge, Waiting, Settled
<1>11. MergeStands'
  <2>1. hub.by # "controller" /\ merge = NoMerge
    BY DEF StoreInv, MergeStands, ReconciledStates, LateStates
  <2>2. merge.method # "external" BY <2>1 DEF NoMerge
  <2> QED BY <2>1, <2>2 DEF MergeStands, closeVars
<1>12. Signed'
  <2>1. CASE approval' = approval
    BY <2>1 DEF StoreInv, Signed
  <2>2. CASE approval' = [approval EXCEPT ![head] = seen.review.id] /\ Approved(seen)
    <3>1. head \in hub.signed BY <1>1, <2>2 DEF Approved, HumanApproval, ReadStands
    <3> QED BY <2>2, <3>1 DEF StoreInv, Signed, StoreTyped
  <2> QED BY <1>5, <2>1, <2>2
<1>13. Requested'
  BY <1>1, HeadFacts DEF StoreInv, Requested, Shown, SaveGitHubReadSuccess, Observed, ReadStands
<1>14. Finished'
  BY DEF StoreInv, Finished, Gone, SaveGitHubReadSuccess, ReconciledStates, Waiting, closeVars
<1>15. Answered'
  BY <1>3, HeadFacts
  DEF StoreInv, Answered, AnsweredStates, Outstanding, SaveGitHubReadSuccess, Waiting
<1> QED BY <1>7, <1>8, <1>9, <1>10, <1>11, <1>12, <1>13, <1>14, <1>15 DEF StoreInv


\* Reconciling the run with a read of its pull request.
LEMMA ReconcileKeeps ==
  ASSUME DeliveryInv, ReconcileStep
  PROVE  DeliveryInv'
<1>0. WorkTyped /\ StoreTyped /\ StoreInv /\ JobInv BY DEF DeliveryInv, TypeOK
<1>1. CASE ReadGitHub
  <2>2. Placed' /\ job' \in JobRecord
    BY <1>0, <1>1, StoreSame, JobGoes DEF ReadGitHub, Placed, At, Step, AtRead, SaveSteps
  <2> QED BY <1>1, <2>2, ReadKeeps DEF ReadGitHub, Took, Counts, Reliably
<1>2. CASE RequireManualForFeedbackDrift
  <2>1. seen.prHead = head /\ pr.head = head /\ st \in ReconciledStates /\ ReadStands
        /\ seen \in Hub
    BY <1>0, <1>2, HeadFacts
    DEF RequireManualForFeedbackDrift, At, JobInv, AtRead, SaveSteps, WorkTyped
  <2>2. Placed' /\ job' \in JobRecord
    BY <1>0, <1>2, <2>1, JobRests DEF RequireManualForFeedbackDrift, Placed, At
  <2>3. StoreTyped'
    <3>1. Observed(seen) \in [state : {"none", "open", "closed", "merged"}, head : Commit,
                              green : BOOLEAN]
      BY <2>1 DEF Observed, Hub
    <3> QED
      BY <1>0, <1>2, <3>1, ZenonT(60)
      DEF RequireManualForFeedbackDrift, Park, StoreTyped, effectVars, closeVars, DeliveryStates
  <2>4. StoreInv'
    <3>1. EvidenceChain'
      BY <1>0, <1>2, <2>1, HeadFacts
      DEF RequireManualForFeedbackDrift, StoreInv, effectVars, closeVars, Park, Observed,
          ReconciledStates, ReadStands, EvidenceChain, Published, Opened
    <3>2. OneReplyPerRoot'
      BY <1>0, <1>2, <2>1, HeadFacts
      DEF RequireManualForFeedbackDrift, StoreInv, effectVars, closeVars, Park, Observed,
          ReconciledStates, ReadStands, OneReplyPerRoot
    <3>3. ReplyBeforeMerge'
      BY <1>0, <1>2, <2>1, HeadFacts
      DEF RequireManualForFeedbackDrift, StoreInv, effectVars, closeVars, Park, Observed,
          ReconciledStates, ReadStands, ReplyBeforeMerge
    <3>4. MergeStands'
      BY <1>0, <1>2, <2>1, HeadFacts
      DEF RequireManualForFeedbackDrift, StoreInv, effectVars, closeVars, Park, Observed,
          ReconciledStates, ReadStands, MergeStands, Shown, LateStates
    <3>5. Signed'
      BY <1>0, <1>2, <2>1, HeadFacts
      DEF RequireManualForFeedbackDrift, StoreInv, effectVars, closeVars, Park, Observed,
          ReconciledStates, ReadStands, Signed
    <3>6. Requested'
      BY <1>0, <1>2, <2>1, HeadFacts
      DEF RequireManualForFeedbackDrift, StoreInv, effectVars, closeVars, Park, Observed,
          ReconciledStates, ReadStands, Requested, Shown
    <3>7. Finished'
      BY <1>0, <1>2, <2>1, HeadFacts
      DEF RequireManualForFeedbackDrift, StoreInv, effectVars, closeVars, Park, Observed,
          ReconciledStates, ReadStands, Finished, Gone
    <3>8. Answered'
      BY <1>0, <1>2, <2>1, HeadFacts
      DEF RequireManualForFeedbackDrift, StoreInv, effectVars, closeVars, Park, Observed,
          ReconciledStates, ReadStands, Answered, AnsweredStates, Outstanding
    <3> QED BY <3>1, <3>2, <3>3, <3>4, <3>5, <3>6, <3>7, <3>8 DEF StoreInv
  <2> QED
    BY <1>2, <2>2, <2>3, <2>4, StoreKeeps
    DEF RequireManualForFeedbackDrift, Took, Counts, Return
<1>3. CASE SaveReconciled
  <2>1. seen.prHead = head /\ pr.head = head /\ st \in ReconciledStates
    BY <1>0, <1>3, HeadFacts DEF SaveReconciled, At, JobInv, AtRead, SaveSteps, WorkTyped
  <2>2. Placed' /\ job' \in JobRecord
    BY <1>0, <1>3, <2>1, JobRests DEF SaveReconciled, Placed, At
  <2>3. StoreTyped' /\ StoreInv'
    <3>. DEFINE approved == st = "awaiting_human_approval" /\ Approved(seen)
    <3>1. SaveGitHubReadSuccess(seen, NextState(seen), TRUE, approved)
      BY <1>3 DEF SaveReconciled
    <3>2. UNCHANGED <<effectVars, closeVars, hub>> BY <1>3 DEF SaveReconciled
    <3>4. seen.checks[head] \in {"pending", "pass", "fail"}
      BY <1>0, HeadFacts DEF WorkTyped, Hub
    <3>3. ASSUME NextState(seen) = "merging" PROVE Settled(Admitted(seen, "merging"))
      <4>1. ~Outstanding
        BY <1>0, <2>1, <3>3, <3>4, NextGoes DEF StoreInv, Answered, AnsweredStates
      <4>2. CASE TrustedChanges(seen) /\ fb.phase = "none"
        BY <1>0, <4>2, HeadFacts DEF Admitted, Settled, Heads
      <4>3. CASE ~(TrustedChanges(seen) /\ fb.phase = "none")
        <5>1. Admitted(seen, "merging") = fb BY <4>3 DEF Admitted
        <5>2. fb.phase \in {"none", "observed", "selected", "verified", "pending", "replied",
                            "resolved"}
          BY <1>0 DEF StoreTyped
        <5>3. fb.phase \in {"observed", "selected"} => fb.root = head
          BY <1>3, <2>1 DEF SaveReconciled, FeedbackDrift
        <5> QED
          BY <1>0, <4>1, <5>1, <5>2, <5>3, HeadFacts
          DEF StoreInv, Answered, Outstanding, Settled, Heads
      <4> QED BY <4>2, <4>3
    <3>5. NextState(seen) \in AnsweredStates => ~Outstanding
      BY <1>0, <2>1, <3>4, NextGoes DEF StoreInv, Answered, AnsweredStates
    <3>6. NextState(seen) = "merging" => Settled(fb') BY <3>1, <3>3 DEF SaveGitHubReadSuccess
    <3>7. NextState(seen) \in Waiting BY <1>0, <2>1, <3>4, NextGoes
    <3>8. approved \in BOOLEAN /\ (approved => Approved(seen)) OBVIOUS
    <3> QED BY <1>0, <2>1, <3>1, <3>2, <3>5, <3>6, <3>7, <3>8, SavedRead
  <2> QED BY <1>3, <2>2, <2>3, StoreKeeps DEF SaveReconciled, Took, Counts, Return
<1>4. CASE SaveConflict
  <2>2. Placed' /\ job' \in JobRecord
    BY <1>0, <1>4, StoreSame, JobRests DEF SaveConflict, Placed, At
  <2> QED BY <1>4, <2>2, ReadKeeps DEF SaveConflict, Took, Counts, Return
<1> QED BY <1>1, <1>2, <1>3, <1>4 DEF ReconcileStep

\* Reading whether GitHub still refuses the merge.
LEMMA MergeabilityKeeps ==
  ASSUME DeliveryInv, MergeabilityStep
  PROVE  DeliveryInv'
<1>0. WorkTyped /\ StoreTyped /\ StoreInv /\ JobInv BY DEF DeliveryInv, TypeOK
<1>1. CASE ReadMergeability
  <2>2. Placed' /\ job' \in JobRecord
    BY <1>0, <1>1, StoreSame, JobGoes, JobMoves
    DEF ReadMergeability, Placed, At, Step, DeliveryStates, AtRead, SaveSteps, AtSettle,
        SettleSteps, Owed, Outcome, Evidence
  <2> QED BY <1>1, <2>2, ReadKeeps DEF ReadMergeability, Took, Counts, Reliably
<1>2. CASE SaveMergeability
  <2>1. seen.prHead = head /\ pr.head = head /\ st = "awaiting_github_mergeability"
        /\ ~Outstanding
    BY <1>0, <1>2, HeadFacts
    DEF SaveMergeability, At, JobInv, AtRead, SaveSteps, StoreInv, Answered, AnsweredStates
  <2>2. Placed' /\ job' \in JobRecord
    BY <1>0, <1>2, <2>1, JobRests DEF SaveMergeability, Placed, At
  <2>3. StoreTyped' /\ StoreInv'
    <3>. DEFINE task == [seen EXCEPT !.issue = "started"]
                feedbackTo == IF FeedbackDrift(seen) THEN "manual_intervention"
                              ELSE NextState(task)
    <3>1. UNCHANGED <<effectVars, closeVars, hub>> BY <1>2 DEF SaveMergeability
    <3>2. st \in ReconciledStates BY <2>1 DEF ReconciledStates
    <3>3. CASE SaveGitHubReadSuccess(seen, "reconciling_reviews", FALSE, FALSE)
      BY <1>0, <2>1, <3>1, <3>2, <3>3, SavedRead DEF Waiting
    <3>4. CASE SaveGitHubReadSuccess(seen, feedbackTo, TRUE, FALSE)
      <4>1. task.checks[head] \in {"pending", "pass", "fail"}
        BY <1>0, HeadFacts DEF WorkTyped, Hub
      <4>. HIDE DEF task
      <4>2. NextState(task) \in Waiting /\ NextState(task) # "merging"
        BY <1>0, <2>1, <3>2, <4>1, NextGoes
      <4>3. feedbackTo \in Waiting /\ feedbackTo # "merging"
        BY <4>2 DEF Waiting
      <4> QED BY <1>0, <2>1, <3>1, <3>2, <3>4, <4>3, SavedRead
    <3>5. CASE SaveGitHubReadSuccess(seen, "awaiting_human_approval", FALSE, FALSE)
      BY <1>0, <2>1, <3>1, <3>2, <3>5, SavedRead DEF Waiting
    <3>6. CASE /\ HumanApproval(seen) = "approved"
               /\ SaveGitHubReadSuccess(seen, NextMergeability(seen), FALSE,
                                        NextMergeability(seen) # "manual_intervention")
      <4>1. NextMergeability(seen) \in Waiting BY DEF NextMergeability, Waiting
      <4>2. NextMergeability(seen) = "merging" => Settled(fb')
        BY <3>6 DEF NextMergeability, Tracked, Settled, SaveGitHubReadSuccess
      <4> QED BY <1>0, <2>1, <3>1, <3>2, <3>6, <4>1, <4>2, SavedRead DEF Approved
    <3>7. HumanApproval(seen) \in {"none", "approved", "changes", "dismissed", "stale"}
      BY <1>0 DEF HumanApproval, WorkTyped, Hub
    <3> QED BY <1>2, <3>3, <3>4, <3>5, <3>6, <3>7 DEF SaveMergeability
  <2> QED BY <1>2, <2>2, <2>3, StoreKeeps DEF SaveMergeability, Took, Counts, Return
<1>3. CASE SaveMergeabilityConflict
  <2>2. Placed' /\ job' \in JobRecord
    BY <1>0, <1>3, StoreSame, JobRests DEF SaveMergeabilityConflict, Placed, At
  <2> QED BY <1>3, <2>2, ReadKeeps DEF SaveMergeabilityConflict, Took, Counts, Return
<1> QED BY <1>1, <1>2, <1>3 DEF MergeabilityStep

\* A merge leaves everything of GitHub alone but who merged the request.
LEMMA MergedTyped ==
  ASSUME WorkTyped, NEW who \in {"controller", "human"}
  PROVE  /\ Merged(who) \in Hub /\ Merged(who).pr = "merged" /\ Merged(who).by = who
         /\ Merged(who).prHead = hub.prHead /\ Merged(who).branch = hub.branch
         /\ Merged(who).review = hub.review /\ Merged(who).signed = hub.signed
         /\ Merged(who).replies = hub.replies /\ Merged(who).issue = hub.issue
         /\ Merged(who).local = hub.local
<1>1. hub \in Hub BY DEF WorkTyped
<1>2. Merged(who) \in Hub BY <1>1 DEF Merged, Hub
<1> QED BY <1>1, <1>2 DEF Merged, Hub

\* Cleanup goes on to the next resource, or to its end.
LEMMA JobNext ==
  ASSUME WorkTyped, NextResource
  PROVE  /\ job' \in JobRecord
         /\ \/ job'.at = "clean" /\ job'.to \in Resource
            \/ job'.at = "clean_end"
<1>1. Following(job.to) \in Resource \cup {"stay"} BY DEF Following, Resource
<1>2. {"clean", "clean_end"} \subseteq Step BY DEF Step
<1> QED BY <1>1, <1>2 DEF NextResource, WorkTyped, JobRecord

\* A removal takes away one resource and nothing else.
LEMMA RemovedTyped ==
  ASSUME WorkTyped, NEW r \in Resource
  PROVE  /\ Removed(r) \in Hub
         /\ Removed(r).pr = hub.pr /\ Removed(r).by = hub.by
         /\ Removed(r).prHead = hub.prHead /\ Removed(r).branch \in {hub.branch, NoHead}
         /\ Removed(r).review = hub.review /\ Removed(r).signed = hub.signed
         /\ Removed(r).replies = hub.replies /\ Removed(r).issue = hub.issue
         /\ Removed(r).local \subseteq hub.local
         /\ r = "remote_branch" => Removed(r).branch = NoHead
         /\ r # "remote_branch" => r \notin Removed(r).local
<1>1. hub \in Hub BY DEF WorkTyped
<1>2. NoHead \in Commit BY HeadAssumption DEF NoHead, Commit
<1>3. Removed(r) \in Hub
  <2>1. CASE r = "remote_branch" BY <1>1, <1>2, <2>1 DEF Removed, Hub
  <2>2. CASE r # "remote_branch" BY <1>1, <2>2 DEF Removed, Hub
  <2> QED BY <2>1, <2>2
<1>4. CASE r = "remote_branch" BY <1>1, <1>3, <1>4 DEF Removed, Hub
<1>5. CASE r # "remote_branch" BY <1>1, <1>3, <1>5 DEF Removed, Hub
<1> QED BY <1>4, <1>5

\* The wait for a merge policy is recorded with what was seen.
LEMMA PendingKeeps ==
  ASSUME WorkTyped, StoreTyped, StoreInv, st = "merging", Unmerged, RecordMergePolicyPending
  PROVE  StoreTyped' /\ StoreInv'
<1>1. seen.notes \in 0..NoPolicy BY DEF WorkTyped, Hub, NoPolicy
<1>2. /\ side' \in [EffectKind -> [Heads -> EffectStatus]]
      /\ side'["push"] = side["push"] /\ side'["open"] = side["open"]
  BY DEF RecordMergePolicyPending, StoreTyped, EffectStatus, EffectKind
<1>3. /\ st' = "awaiting_github_mergeability"
      /\ UNCHANGED <<head, posts, pr, approval, fb, merge, owned, linear, cleanup, hub>>
  BY DEF RecordMergePolicyPending, reviewVars, closeVars
<1>4. StoreTyped'
  BY <1>1, <1>2, <1>3, ZenonT(60) DEF RecordMergePolicyPending, StoreTyped, DeliveryStates
<1>5. EvidenceChain' BY <1>2, <1>3 DEF StoreInv, EvidenceChain, Published, Opened
<1>6. OneReplyPerRoot' /\ ReplyBeforeMerge'
  BY <1>3 DEF StoreInv, OneReplyPerRoot, ReplyBeforeMerge
<1>7. MergeStands' BY <1>3 DEF StoreInv, MergeStands, Unmerged, NoMerge
<1>8. Signed' /\ Requested' BY <1>3 DEF StoreInv, Signed, Requested, Shown
<1>9. Finished' BY <1>3 DEF StoreInv, Finished, Gone
<1>10. Answered' BY <1>3 DEF StoreInv, Answered, AnsweredStates, Outstanding
<1> QED BY <1>4, <1>5, <1>6, <1>7, <1>8, <1>9, <1>10 DEF StoreInv

\* Merging the approved head.
LEMMA MergeKeeps ==
  ASSUME DeliveryInv, MergeStep
  PROVE  DeliveryInv'
<1>0. WorkTyped /\ StoreTyped /\ StoreInv /\ JobInv BY DEF DeliveryInv, TypeOK
<1>1. CASE StartMerge
  <2>1. StoreInv BY <1>0, <1>1, HeadFacts DEF StartMerge, At, JobInv
  <2>2. Placed' /\ job' \in JobRecord
    BY <1>0, <1>1, <2>1, StoreSame, JobGoes, JobMoves
    DEF StartMerge, Placed, At, Step, DeliveryStates, AtMerge, PutSteps, MergeSteps, AtSettle,
        SettleSteps, Owed, Outcome, Evidence, StoreInv, MergeStands, Shown, MergeEffect,
        Unmerged
  <2> QED BY <1>1, <2>2, ReadKeeps DEF StartMerge, Took, Counts, Reliably
<1>2. CASE BeginMergeFresh
  <2>1. st = "merging" /\ Unmerged /\ approval[head] # 0
    BY <1>0, <1>2, HeadFacts DEF BeginMergeFresh, At, JobInv, AtMerge, PutSteps, Unmerged
  <2>2. Placed' /\ job' \in JobRecord
    <3>1. side'["merge"][head] # "none"
      BY <1>0, <1>2, HeadFacts DEF BeginMergeFresh, BeginSideEffect, StoreTyped, EffectKind
    <3> QED
      BY <1>0, <1>2, <2>1, <3>1, JobGoes
      DEF BeginMergeFresh, OnlySide, runVars, reviewVars, closeVars, Placed, At, Step, AtMerge,
          PutSteps, MergeSteps, Unmerged
  <2>3. StoreTyped' /\ StoreInv'
    <3>1. BeginSideEffect("merge") /\ posts' \in 0..MaxPosts
          /\ UNCHANGED <<policy, runVars, reviewVars, closeVars, hub>>
      BY <1>0, <1>2 DEF BeginMergeFresh, OnlySide, StoreTyped
    <3> QED BY <1>0, <3>1, BeginKeeps DEF EffectKind
  <2> QED BY <1>2, <2>2, <2>3, StoreKeeps DEF BeginMergeFresh, Took, Counts
<1>3. CASE BeginMergeRefused
  <2>1. st = "merging"
    BY <1>0, <1>3, HeadFacts DEF BeginMergeRefused, At, JobInv, AtMerge, PutSteps, Unmerged
  <2>2. Placed' /\ job' \in JobRecord
    BY <1>0, <1>3, <2>1, StoreSame, JobSettles
    DEF BeginMergeRefused, Placed, At, EffectKind, DeliveryStates, AtSettle, SettleSteps, Owed,
        Outcome, Evidence, Fail
  <2> QED BY <1>3, <2>2, ReadKeeps DEF BeginMergeRefused, Took, Counts
<1>4. CASE BeginMergeUnresolved
  <2>1. st = "merging" /\ Unmerged
    BY <1>0, <1>4, HeadFacts DEF BeginMergeUnresolved, At, JobInv, AtMerge, PutSteps, Unmerged
  <2>2. Placed' /\ job' \in JobRecord
    BY <1>0, <1>4, <2>1, JobRests DEF BeginMergeUnresolved, Placed, At, RecordMergePolicyPending
  <2>3. StoreTyped' /\ StoreInv' BY <1>0, <1>4, <2>1, PendingKeeps DEF BeginMergeUnresolved
  <2> QED
    BY <1>4, <2>2, <2>3, StoreKeeps
    DEF BeginMergeUnresolved, Took, Counts, Return, RecordMergePolicyPending
<1>5. CASE RetryMergeSideEffect
  <2>1. st = "merging" /\ Unmerged /\ approval[head] # 0
    BY <1>0, <1>5, HeadFacts DEF RetryMergeSideEffect, At, JobInv, AtMerge, PutSteps, Unmerged
  <2>2. Placed' /\ job' \in JobRecord
    <3>1. side'["merge"][head] # "none"
      BY <1>0, <1>5, HeadFacts DEF RetryMergeSideEffect, StoreTyped, EffectKind
    <3> QED
      BY <1>0, <1>5, <2>1, <3>1, JobGoes
      DEF RetryMergeSideEffect, runVars, reviewVars, closeVars, Placed, At, Step, AtMerge,
          PutSteps, MergeSteps, Unmerged
  <2>3. StoreTyped' /\ StoreInv'
    <3>1. /\ side' = [side EXCEPT !["merge"][head] = "intent"]
          /\ posts' \in 0..MaxPosts /\ policy' \in 0..NoPolicy
          /\ UNCHANGED <<runVars, reviewVars, closeVars, hub>>
      BY <1>0, <1>5 DEF RetryMergeSideEffect, NoPolicy, StoreTyped
    <3> QED BY <1>0, <3>1, SideKeeps DEF EffectKind, EffectStatus
  <2> QED BY <1>5, <2>2, <2>3, StoreKeeps DEF RetryMergeSideEffect, Took, Counts
<1>6. CASE PutMergeMismatch
  <2>1. st = "merging"
    BY <1>0, <1>6, HeadFacts DEF PutMergeMismatch, At, JobInv, AtMerge, PutSteps, Unmerged
  <2>2. Placed' /\ job' \in JobRecord
    BY <1>0, <1>6, <2>1, StoreSame, JobSettles
    DEF PutMergeMismatch, Placed, At, EffectKind, DeliveryStates, AtSettle, SettleSteps, Owed,
        Outcome, Evidence, Fail
  <2> QED BY <1>6, <2>2, ReadKeeps DEF PutMergeMismatch, Took, Counts, Reliably
<1>7. CASE PutMergeBlocked
  <2>1. st = "merging" /\ Unmerged /\ approval[head] # 0
    BY <1>0, <1>7, HeadFacts DEF PutMergeBlocked, At, JobInv, AtMerge, PutSteps, Unmerged
  <2>2. Placed' /\ job' \in JobRecord
    BY <1>0, <1>7, <2>1, StoreSame, JobGoes
    DEF PutMergeBlocked, Placed, At, Step, AtMerge, PutSteps, MergeSteps, Unmerged
  <2> QED BY <1>7, <2>2, ReadKeeps DEF PutMergeBlocked, Took, Counts, Reliably
<1>8. CASE PutMerge
  <2>1. st = "merging" /\ Unmerged /\ approval[head] # 0 /\ side["merge"][head] # "none"
    BY <1>0, <1>8, HeadFacts DEF PutMerge, At, JobInv, AtMerge, PutSteps, Unmerged
  <2>2. Placed' /\ job' \in JobRecord
    <3>1. hub' = Merged("controller") /\ hub.prHead = head BY <1>8 DEF PutMerge, AtMergeTarget
    <3>2. Shown(head)' BY <1>0, <1>8, <3>1, MergedTyped, StoreSame DEF PutMerge, Shown
    <3> QED
      BY <1>0, <1>8, <2>1, <3>2, JobGoes, StoreSame
      DEF PutMerge, Placed, At, Step, AtMerge, PutSteps, MergeSteps
  <2>3. Advances
    <3>1. hub' \in {hub, Merged("controller")} /\ hub.pr = "open" /\ hub.prHead = head
      BY <1>8 DEF PutMerge, AtMergeTarget
    <3>2. hub \in Hub BY <1>0 DEF WorkTyped
    <3>3. pr.state # "none"
      BY <1>0, <2>1, HeadFacts DEF StoreInv, EvidenceChain, Published, Opened, Requested
    <3> QED
      BY <1>0, <2>1, <3>1, <3>2, <3>3, MergedTyped
      DEF Advances, StoreInv, EvidenceChain, Published, Opened, OneReplyPerRoot, Signed,
          Requested
  <2> QED BY <1>8, <2>2, <2>3, CallKeeps DEF PutMerge, Counts, Reliably
<1>9. CASE PutMergeFails
  <2>1. st = "merging" /\ Unmerged /\ approval[head] # 0 /\ side["merge"][head] # "none"
    BY <1>0, <1>9, HeadFacts DEF PutMergeFails, At, JobInv, AtMerge, PutSteps, Unmerged
  <2>2. Placed' /\ job' \in JobRecord
    <3>1. CASE Go("merge_await") /\ UNCHANGED hub
      BY <1>0, <1>9, <2>1, <3>1, JobGoes, StoreSame
      DEF PutMergeFails, Placed, At, Step, AtMerge, PutSteps, MergeSteps, Unmerged
    <3>2. CASE Fail("merge", "manual_intervention") \/ Fail("merge", "stay")
      BY <1>0, <1>9, <2>1, <3>2, JobSettles, StoreSame
      DEF PutMergeFails, Fail, Placed, At, EffectKind, DeliveryStates, AtSettle, SettleSteps
    <3> QED BY <1>9, <3>1, <3>2 DEF PutMergeFails
  <2>3. Advances
    <3>1. hub' \in {hub, Merged("controller")} /\ hub.pr = "open" /\ hub.prHead = head
      BY <1>9 DEF PutMergeFails, AtMergeTarget
    <3>2. hub \in Hub BY <1>0 DEF WorkTyped
    <3>3. pr.state # "none"
      BY <1>0, <2>1, HeadFacts DEF StoreInv, EvidenceChain, Published, Opened, Requested
    <3> QED
      BY <1>0, <2>1, <3>1, <3>2, <3>3, MergedTyped
      DEF Advances, StoreInv, EvidenceChain, Published, Opened, OneReplyPerRoot, Signed,
          Requested
  <2> QED BY <1>9, <2>2, <2>3, CallKeeps DEF PutMergeFails, Counts, Fault
<1>10. CASE AwaitMergePolicy
  <2>1. st = "merging" /\ Unmerged /\ approval[head] # 0
    BY <1>0, <1>10, HeadFacts DEF AwaitMergePolicy, At, JobInv, AtMerge, PutSteps, Unmerged
  <2>2. Placed' /\ job' \in JobRecord
    BY <1>0, <1>10, <2>1, StoreSame, JobGoes, JobSettles
    DEF AwaitMergePolicy, Placed, At, Step, EffectKind, DeliveryStates, AtMerge, PutSteps,
        MergeSteps, AtSettle, SettleSteps, Owed, Outcome, Evidence, Fail, Unmerged
  <2> QED BY <1>10, <2>2, ReadKeeps DEF AwaitMergePolicy, Took, Counts, Reliably
<1>11. CASE AwaitMergePolicyFails
  <2>1. st = "merging"
    BY <1>0, <1>11, HeadFacts DEF AwaitMergePolicyFails, At, JobInv, AtMerge, PutSteps, Unmerged
  <2>2. Placed' /\ job' \in JobRecord
    BY <1>0, <1>11, <2>1, StoreSame, JobSettles
    DEF AwaitMergePolicyFails, Placed, At, EffectKind, DeliveryStates, AtSettle, SettleSteps,
        Owed, Outcome, Evidence, Fail
  <2> QED BY <1>11, <2>2, ReadKeeps DEF AwaitMergePolicyFails, Took, Counts, Fault
<1>12. CASE SaveMergePolicyPending
  <2>1. st = "merging" /\ Unmerged
    BY <1>0, <1>12, HeadFacts
    DEF SaveMergePolicyPending, At, JobInv, AtMerge, PutSteps, Unmerged
  <2>2. Placed' /\ job' \in JobRecord
    BY <1>0, <1>12, <2>1, JobRests
    DEF SaveMergePolicyPending, Placed, At, RecordMergePolicyPending
  <2>3. StoreTyped' /\ StoreInv' BY <1>0, <1>12, <2>1, PendingKeeps DEF SaveMergePolicyPending
  <2> QED
    BY <1>12, <2>2, <2>3, StoreKeeps
    DEF SaveMergePolicyPending, Took, Counts, Return, RecordMergePolicyPending
<1>13. CASE SaveMerge
  <2>1. st = "merging" /\ Shown(head) /\ approval[head] # 0 /\ side["merge"][head] # "none"
    BY <1>0, <1>13, HeadFacts DEF SaveMerge, At, JobInv, AtMerge, PutSteps
  <2>2. Placed' /\ job' \in JobRecord
    BY <1>0, <1>13, <2>1, JobSettles
    DEF SaveMerge, Placed, At, EffectKind, DeliveryStates, AtSettle, SettleSteps, Owed, Outcome,
        Evidence, runVars, effectVars
  <2>3. StoreTyped'
    BY <1>0, <1>13, <2>1, HeadFacts, LimitAssumption
    DEF SaveMerge, StoreTyped, runVars, effectVars, reviewVars, EffectKind, EffectStatus,
        DeliveryStates, NoHead
  <2>4. StoreInv'
    <3>1. EvidenceChain'
      BY <1>0, <1>13, <2>1, HeadFacts
      DEF SaveMerge, StoreInv, runVars, effectVars, reviewVars, NoMerge, NoHead, Signed,
          EvidenceChain, Published, Opened, MergeStands
    <3>2. OneReplyPerRoot'
      BY <1>0, <1>13, <2>1, HeadFacts
      DEF SaveMerge, StoreInv, runVars, effectVars, reviewVars, NoMerge, NoHead, Signed,
          EvidenceChain, Published, Opened, MergeStands, OneReplyPerRoot
    <3>3. ReplyBeforeMerge'
      BY <1>0, <1>13, <2>1, HeadFacts
      DEF SaveMerge, StoreInv, runVars, effectVars, reviewVars, NoMerge, NoHead, Signed,
          EvidenceChain, Published, Opened, MergeStands, ReplyBeforeMerge
    <3>4. MergeStands'
      BY <1>0, <1>13, <2>1, HeadFacts
      DEF SaveMerge, StoreInv, runVars, effectVars, reviewVars, NoMerge, NoHead, Signed,
          EvidenceChain, Published, Opened, MergeStands, Shown, LateStates
    <3>5. Signed'
      BY <1>0, <1>13, <2>1, HeadFacts
      DEF SaveMerge, StoreInv, runVars, effectVars, reviewVars, NoMerge, NoHead, Signed,
          EvidenceChain, Published, Opened, MergeStands
    <3>6. Requested'
      BY <1>0, <1>13, <2>1, HeadFacts
      DEF SaveMerge, StoreInv, runVars, effectVars, reviewVars, NoMerge, NoHead, Signed,
          EvidenceChain, Published, Opened, MergeStands, Requested, Shown
    <3>7. Finished'
      BY <1>0, <1>13, <2>1, HeadFacts
      DEF SaveMerge, StoreInv, runVars, effectVars, reviewVars, NoMerge, NoHead, Signed,
          EvidenceChain, Published, Opened, MergeStands, Finished, Gone
    <3>8. Answered'
      BY <1>0, <1>13, <2>1, HeadFacts
      DEF SaveMerge, StoreInv, runVars, effectVars, reviewVars, NoMerge, NoHead, Signed,
          EvidenceChain, Published, Opened, MergeStands, Answered, AnsweredStates, Outstanding
    <3> QED BY <3>1, <3>2, <3>3, <3>4, <3>5, <3>6, <3>7, <3>8 DEF StoreInv
  <2> QED BY <1>13, <2>2, <2>3, <2>4, StoreKeeps DEF SaveMerge, Took, Counts
<1> QED
  BY <1>1, <1>2, <1>3, <1>4, <1>5, <1>6, <1>7, <1>8, <1>9, <1>10, <1>11, <1>12, <1>13
  DEF MergeStep

OperatorStep == AcceptExternalMerge \/ RecoverOwnedPush \/ MarkLinearSourceDrift \/ Crash
LinearStep == ReconcileLinearTimeout \/ ReconcileLinear

\* An operator's command, the end of a process, a task that was edited.
LEMMA OperatorKeeps ==
  ASSUME DeliveryInv, OperatorStep
  PROVE  DeliveryInv'
<1>0. WorkTyped /\ StoreTyped /\ StoreInv /\ JobInv BY DEF DeliveryInv, TypeOK
<1>1. CASE AcceptExternalMerge
  <2>1. pr.head = head /\ Shown(head) /\ approval[head] # 0
    BY <1>0, <1>1, HeadFacts DEF AcceptExternalMerge, At, JobInv, StoreInv, Requested
  <2>2. Placed' /\ job' \in JobRecord
    BY <1>0, <1>1, <2>1, JobMoves
    DEF AcceptExternalMerge, Placed, At, DeliveryStates, AtSettle, SettleSteps, Owed, Outcome,
        Evidence, runVars
  <2>3. StoreTyped'
    BY <1>0, <1>1, <2>1, HeadFacts, LimitAssumption
    DEF AcceptExternalMerge, StoreTyped, runVars, effectVars, reviewVars, EffectKind,
        EffectStatus, DeliveryStates, NoMerge
  <2>4. StoreInv'
    <3>1. EvidenceChain'
      BY <1>0, <1>1, <2>1, HeadFacts
      DEF AcceptExternalMerge, StoreInv, runVars, effectVars, reviewVars, NoMerge, Signed,
          EvidenceChain, Published, Opened
    <3>2. OneReplyPerRoot'
      BY <1>0, <1>1, <2>1, HeadFacts
      DEF AcceptExternalMerge, StoreInv, runVars, effectVars, reviewVars, NoMerge, Signed,
          OneReplyPerRoot
    <3>3. ReplyBeforeMerge'
      BY <1>0, <1>1, <2>1, HeadFacts
      DEF AcceptExternalMerge, StoreInv, runVars, effectVars, reviewVars, NoMerge, Signed,
          ReplyBeforeMerge
    <3>4. MergeStands'
      BY <1>0, <1>1, <2>1, HeadFacts
      DEF AcceptExternalMerge, StoreInv, runVars, effectVars, reviewVars, NoMerge, Signed,
          MergeStands, Shown, LateStates
    <3>5. Signed'
      BY <1>0, <1>1, <2>1, HeadFacts
      DEF AcceptExternalMerge, StoreInv, runVars, effectVars, reviewVars, NoMerge, Signed
    <3>6. Requested'
      BY <1>0, <1>1, <2>1, HeadFacts
      DEF AcceptExternalMerge, StoreInv, runVars, effectVars, reviewVars, NoMerge, Signed,
          Requested, Shown
    <3>7. Finished'
      BY <1>0, <1>1, <2>1, HeadFacts
      DEF AcceptExternalMerge, StoreInv, runVars, effectVars, reviewVars, NoMerge, Signed,
          Finished, Gone
    <3>8. Answered'
      BY <1>0, <1>1, <2>1, HeadFacts
      DEF AcceptExternalMerge, StoreInv, runVars, effectVars, reviewVars, NoMerge, Signed,
          Answered, AnsweredStates, Outstanding
    <3> QED BY <3>1, <3>2, <3>3, <3>4, <3>5, <3>6, <3>7, <3>8 DEF StoreInv
  <2> QED BY <1>1, <2>2, <2>3, <2>4, StoreKeeps DEF AcceptExternalMerge, Took, Counts
<1>2. CASE RecoverOwnedPush
  <2>2. Placed' /\ job' \in JobRecord
    BY <1>0, <1>2 DEF RecoverOwnedPush, Placed, At, WorkTyped
  <2>3. StoreTyped'
    BY <1>0, <1>2, HeadFacts, LimitAssumption
    DEF RecoverOwnedPush, StoreTyped, effectVars, reviewVars, closeVars, OnlyRun, EffectKind,
        EffectStatus, DeliveryStates
  <2>4. StoreInv'
    <3>1. EvidenceChain'
      BY <1>0, <1>2, HeadFacts
      DEF RecoverOwnedPush, StoreInv, effectVars, reviewVars, closeVars, OnlyRun, EvidenceChain,
          Published, Opened
    <3>2. OneReplyPerRoot'
      BY <1>0, <1>2, HeadFacts
      DEF RecoverOwnedPush, StoreInv, effectVars, reviewVars, closeVars, OnlyRun,
          OneReplyPerRoot
    <3>3. ReplyBeforeMerge'
      BY <1>0, <1>2, HeadFacts
      DEF RecoverOwnedPush, StoreInv, effectVars, reviewVars, closeVars, OnlyRun,
          ReplyBeforeMerge
    <3>4. MergeStands'
      BY <1>0, <1>2, HeadFacts
      DEF RecoverOwnedPush, StoreInv, effectVars, reviewVars, closeVars, OnlyRun, MergeStands,
          Shown, LateStates
    <3>5. Signed'
      BY <1>0, <1>2, HeadFacts
      DEF RecoverOwnedPush, StoreInv, effectVars, reviewVars, closeVars, OnlyRun, Signed
    <3>6. Requested'
      BY <1>0, <1>2, HeadFacts
      DEF RecoverOwnedPush, StoreInv, effectVars, reviewVars, closeVars, OnlyRun, Requested,
          Shown
    <3>7. Finished'
      BY <1>0, <1>2, HeadFacts
      DEF RecoverOwnedPush, StoreInv, effectVars, reviewVars, closeVars, OnlyRun, Finished, Gone
    <3>8. Answered'
      BY <1>0, <1>2, HeadFacts
      DEF RecoverOwnedPush, StoreInv, effectVars, reviewVars, closeVars, OnlyRun, Answered,
          AnsweredStates, Outstanding
    <3> QED BY <3>1, <3>2, <3>3, <3>4, <3>5, <3>6, <3>7, <3>8 DEF StoreInv
  <2> QED BY <1>2, <2>2, <2>3, <2>4, StoreKeeps DEF RecoverOwnedPush, Took, Counts
<1>3. CASE MarkLinearSourceDrift
  <2>2. Placed' /\ job' \in JobRecord
    BY <1>0, <1>3 DEF MarkLinearSourceDrift, Placed, At, WorkTyped
  <2>3. StoreTyped'
    BY <1>0, <1>3, HeadFacts, LimitAssumption
    DEF MarkLinearSourceDrift, StoreTyped, effectVars, reviewVars, closeVars, EffectKind,
        EffectStatus, DeliveryStates, Park, WrittenStates, ReconciledStates
  <2>4. StoreInv'
    <3>1. EvidenceChain'
      BY <1>0, <1>3, HeadFacts
      DEF MarkLinearSourceDrift, StoreInv, effectVars, reviewVars, closeVars, Park,
          WrittenStates, ReconciledStates, EvidenceChain, Published, Opened
    <3>2. OneReplyPerRoot'
      BY <1>0, <1>3, HeadFacts
      DEF MarkLinearSourceDrift, StoreInv, effectVars, reviewVars, closeVars, Park,
          WrittenStates, ReconciledStates, OneReplyPerRoot
    <3>3. ReplyBeforeMerge'
      BY <1>0, <1>3, HeadFacts
      DEF MarkLinearSourceDrift, StoreInv, effectVars, reviewVars, closeVars, Park,
          WrittenStates, ReconciledStates, ReplyBeforeMerge
    <3>4. MergeStands'
      BY <1>0, <1>3, HeadFacts
      DEF MarkLinearSourceDrift, StoreInv, effectVars, reviewVars, closeVars, Park,
          WrittenStates, ReconciledStates, MergeStands, Shown, LateStates
    <3>5. Signed'
      BY <1>0, <1>3, HeadFacts
      DEF MarkLinearSourceDrift, StoreInv, effectVars, reviewVars, closeVars, Park,
          WrittenStates, ReconciledStates, Signed
    <3>6. Requested'
      BY <1>0, <1>3, HeadFacts
      DEF MarkLinearSourceDrift, StoreInv, effectVars, reviewVars, closeVars, Park,
          WrittenStates, ReconciledStates, Requested, Shown
    <3>7. Finished'
      BY <1>0, <1>3, HeadFacts
      DEF MarkLinearSourceDrift, StoreInv, effectVars, reviewVars, closeVars, Park,
          WrittenStates, ReconciledStates, Finished, Gone
    <3>8. Answered'
      BY <1>0, <1>3, HeadFacts
      DEF MarkLinearSourceDrift, StoreInv, effectVars, reviewVars, closeVars, Park,
          WrittenStates, ReconciledStates, Answered, AnsweredStates, Outstanding
    <3> QED BY <3>1, <3>2, <3>3, <3>4, <3>5, <3>6, <3>7, <3>8 DEF StoreInv
  <2> QED BY <1>3, <2>2, <2>3, <2>4, StoreKeeps DEF MarkLinearSourceDrift, Took, Counts
<1>4. CASE Crash
  <2>2. Placed' /\ job' \in JobRecord
    BY <1>4, JobRests DEF Crash, Placed, At
  <2> QED BY <1>4, <2>2, ReadKeeps DEF Crash, Took, Counts, Return, KeepStore
<1> QED BY <1>1, <1>2, <1>3, <1>4 DEF OperatorStep

\* Observing the Linear issue.
LEMMA LinearKeeps ==
  ASSUME DeliveryInv, LinearStep
  PROVE  DeliveryInv'
<1>0. WorkTyped /\ StoreTyped /\ StoreInv /\ JobInv BY DEF DeliveryInv, TypeOK
<1>1. CASE ReconcileLinearTimeout
  <2>1. st = "awaiting_linear_completion"
    BY <1>0, <1>1, HeadFacts DEF ReconcileLinearTimeout, At, JobInv, CanObserve
  <2>2. Placed' /\ job' \in JobRecord
    BY <1>0, <1>1, <2>1, JobMoves, JobRests
    DEF ReconcileLinearTimeout, Placed, At, DeliveryStates, AtSettle, SettleSteps, Owed,
        Outcome, Evidence, Observe, CanObserve, runVars
  <2>3. StoreTyped'
    BY <1>0, <1>1, <2>1, HeadFacts, LimitAssumption
    DEF ReconcileLinearTimeout, StoreTyped, runVars, effectVars, reviewVars, EffectKind,
        EffectStatus, DeliveryStates, Observe, CanObserve
  <2>4. StoreInv'
    <3>1. EvidenceChain'
      BY <1>0, <1>1, <2>1, HeadFacts
      DEF ReconcileLinearTimeout, StoreInv, runVars, effectVars, reviewVars, Observe,
          CanObserve, EvidenceChain, Published, Opened
    <3>2. OneReplyPerRoot'
      BY <1>0, <1>1, <2>1, HeadFacts
      DEF ReconcileLinearTimeout, StoreInv, runVars, effectVars, reviewVars, Observe,
          CanObserve, OneReplyPerRoot
    <3>3. ReplyBeforeMerge'
      BY <1>0, <1>1, <2>1, HeadFacts
      DEF ReconcileLinearTimeout, StoreInv, runVars, effectVars, reviewVars, Observe,
          CanObserve, ReplyBeforeMerge
    <3>4. MergeStands'
      BY <1>0, <1>1, <2>1, HeadFacts
      DEF ReconcileLinearTimeout, StoreInv, runVars, effectVars, reviewVars, Observe,
          CanObserve, MergeStands, Shown, LateStates
    <3>5. Signed'
      BY <1>0, <1>1, <2>1, HeadFacts
      DEF ReconcileLinearTimeout, StoreInv, runVars, effectVars, reviewVars, Observe,
          CanObserve, Signed
    <3>6. Requested'
      BY <1>0, <1>1, <2>1, HeadFacts
      DEF ReconcileLinearTimeout, StoreInv, runVars, effectVars, reviewVars, Observe,
          CanObserve, Requested, Shown
    <3>7. Finished'
      BY <1>0, <1>1, <2>1, HeadFacts
      DEF ReconcileLinearTimeout, StoreInv, runVars, effectVars, reviewVars, Observe,
          CanObserve, Finished, Gone
    <3>8. Answered'
      BY <1>0, <1>1, <2>1, HeadFacts
      DEF ReconcileLinearTimeout, StoreInv, runVars, effectVars, reviewVars, Observe,
          CanObserve, Answered, AnsweredStates, Outstanding
    <3> QED BY <3>1, <3>2, <3>3, <3>4, <3>5, <3>6, <3>7, <3>8 DEF StoreInv
  <2> QED
    BY <1>1, <2>2, <2>3, <2>4, StoreKeeps
    DEF ReconcileLinearTimeout, Took, Counts, Reliably, Return, Observe, CanObserve
<1>2. CASE ReconcileLinear
  <2>1. st = "awaiting_linear_completion"
    BY <1>0, <1>2, HeadFacts DEF ReconcileLinear, At, JobInv, CanObserve
  <2>2. Placed' /\ job' \in JobRecord
    BY <1>0, <1>2, <2>1, JobMoves, JobRests
    DEF ReconcileLinear, Placed, At, DeliveryStates, AtSettle, SettleSteps, Owed, Outcome,
        Evidence, Observe, CanObserve, runVars
  <2>3. StoreTyped'
    BY <1>0, <1>2, <2>1, HeadFacts, LimitAssumption
    DEF ReconcileLinear, StoreTyped, runVars, effectVars, reviewVars, EffectKind, EffectStatus,
        DeliveryStates, Observe, CanObserve
  <2>4. StoreInv'
    <3>1. EvidenceChain'
      BY <1>0, <1>2, <2>1, HeadFacts
      DEF ReconcileLinear, StoreInv, runVars, effectVars, reviewVars, Observe, CanObserve,
          EvidenceChain, Published, Opened
    <3>2. OneReplyPerRoot'
      BY <1>0, <1>2, <2>1, HeadFacts
      DEF ReconcileLinear, StoreInv, runVars, effectVars, reviewVars, Observe, CanObserve,
          OneReplyPerRoot
    <3>3. ReplyBeforeMerge'
      BY <1>0, <1>2, <2>1, HeadFacts
      DEF ReconcileLinear, StoreInv, runVars, effectVars, reviewVars, Observe, CanObserve,
          ReplyBeforeMerge
    <3>4. MergeStands'
      BY <1>0, <1>2, <2>1, HeadFacts
      DEF ReconcileLinear, StoreInv, runVars, effectVars, reviewVars, Observe, CanObserve,
          MergeStands, Shown, LateStates
    <3>5. Signed'
      BY <1>0, <1>2, <2>1, HeadFacts
      DEF ReconcileLinear, StoreInv, runVars, effectVars, reviewVars, Observe, CanObserve,
          Signed
    <3>6. Requested'
      BY <1>0, <1>2, <2>1, HeadFacts
      DEF ReconcileLinear, StoreInv, runVars, effectVars, reviewVars, Observe, CanObserve,
          Requested, Shown
    <3>7. Finished'
      BY <1>0, <1>2, <2>1, HeadFacts
      DEF ReconcileLinear, StoreInv, runVars, effectVars, reviewVars, Observe, CanObserve,
          Finished, Gone
    <3>8. Answered'
      BY <1>0, <1>2, <2>1, HeadFacts
      DEF ReconcileLinear, StoreInv, runVars, effectVars, reviewVars, Observe, CanObserve,
          Answered, AnsweredStates, Outstanding
    <3> QED BY <3>1, <3>2, <3>3, <3>4, <3>5, <3>6, <3>7, <3>8 DEF StoreInv
  <2> QED
    BY <1>2, <2>2, <2>3, <2>4, StoreKeeps
    DEF ReconcileLinear, Took, Counts, Reliably, Fault, Return, Observe, CanObserve
<1> QED BY <1>1, <1>2 DEF LinearStep

\* Removing what the run owned.
LEMMA CleanupKeeps ==
  ASSUME DeliveryInv, CleanupStep
  PROVE  DeliveryInv'
<1>0. WorkTyped /\ StoreTyped /\ StoreInv /\ JobInv BY DEF DeliveryInv, TypeOK
<1>1. CASE StartCleanup
  <2>2. Placed' /\ job' \in JobRecord
    <3>1. job' \in JobRecord /\ job'.at = "clean" /\ job'.to = "worktree"
      BY <1>1 DEF StartCleanup, Idle, JobRecord, Step, EffectKind, Resource
    <3> QED BY <1>1, <3>1, StoreSame DEF StartCleanup, Placed, At, AtClean, CleanSteps, Resource
  <2> QED BY <1>1, <2>2, ReadKeeps DEF StartCleanup, Took, Counts, Reliably
<1>2. CASE SkipResource
  <2>1. st = "cleaning"
    BY <1>0, <1>2, HeadFacts DEF SkipResource, At, JobInv, AtClean, CleanSteps
  <2>2. Placed' /\ job' \in JobRecord
    BY <1>0, <1>2, <2>1, StoreSame, JobNext DEF SkipResource, Placed, At, AtClean, CleanSteps
  <2> QED BY <1>2, <2>2, ReadKeeps DEF SkipResource, Took, Counts
<1>3. CASE IntendCleanup
  <2>1. st = "cleaning" /\ job.to \in Resource
    BY <1>0, <1>3, HeadFacts DEF IntendCleanup, At, JobInv, AtClean, CleanSteps
  <2>2. Placed' /\ job' \in JobRecord
    BY <1>0, <1>3, <2>1, JobGoes
    DEF IntendCleanup, Placed, At, Step, AtClean, CleanSteps, runVars
  <2>3. StoreTyped'
    BY <1>0, <1>3, <2>1, HeadFacts, LimitAssumption
    DEF IntendCleanup, StoreTyped, runVars, effectVars, reviewVars, EffectKind, EffectStatus,
        DeliveryStates
  <2>4. StoreInv'
    <3>1. EvidenceChain'
      BY <1>0, <1>3, <2>1, HeadFacts
      DEF IntendCleanup, StoreInv, runVars, effectVars, reviewVars, EvidenceChain, Published,
          Opened
    <3>2. OneReplyPerRoot'
      BY <1>0, <1>3, <2>1, HeadFacts
      DEF IntendCleanup, StoreInv, runVars, effectVars, reviewVars, OneReplyPerRoot
    <3>3. ReplyBeforeMerge'
      BY <1>0, <1>3, <2>1, HeadFacts
      DEF IntendCleanup, StoreInv, runVars, effectVars, reviewVars, ReplyBeforeMerge
    <3>4. MergeStands'
      BY <1>0, <1>3, <2>1, HeadFacts
      DEF IntendCleanup, StoreInv, runVars, effectVars, reviewVars, MergeStands, Shown,
          LateStates
    <3>5. Signed'
      BY <1>0, <1>3, <2>1, HeadFacts
      DEF IntendCleanup, StoreInv, runVars, effectVars, reviewVars, Signed
    <3>6. Requested'
      BY <1>0, <1>3, <2>1, HeadFacts
      DEF IntendCleanup, StoreInv, runVars, effectVars, reviewVars, Requested, Shown
    <3>7. Finished'
      BY <1>0, <1>3, <2>1, HeadFacts
      DEF IntendCleanup, StoreInv, runVars, effectVars, reviewVars, Finished, Gone
    <3>8. Answered'
      BY <1>0, <1>3, <2>1, HeadFacts
      DEF IntendCleanup, StoreInv, runVars, effectVars, reviewVars, Answered, AnsweredStates,
          Outstanding
    <3> QED BY <3>1, <3>2, <3>3, <3>4, <3>5, <3>6, <3>7, <3>8 DEF StoreInv
  <2> QED BY <1>3, <2>2, <2>3, <2>4, StoreKeeps DEF IntendCleanup, Took, Counts
<1>4. CASE ApplyCleanup
  <2>1. st = "cleaning" /\ job.to \in Resource
    BY <1>0, <1>4, HeadFacts DEF ApplyCleanup, At, JobInv, AtClean, CleanSteps
  <2>2. Placed' /\ job' \in JobRecord
    <3>1. /\ job' \in JobRecord /\ job'.at = "clean_save" /\ job'.to = job.to
          /\ job'.fin = "observed" => hub' = Removed(job.to)
      <4>1. \E result \in {"failed", "observed"} :
              Applied(result) /\ (result = "observed" => hub' = Removed(job.to))
        BY <1>4 DEF ApplyCleanup
      <4> QED BY <1>0, <4>1 DEF Applied, WorkTyped, JobRecord, Step
    <3>2. job'.fin = "observed" => Gone(job.to)'
      BY <1>0, <2>1, <3>1, RemovedTyped DEF Gone
    <3> QED
      BY <1>4, <2>1, <3>1, <3>2, StoreSame DEF ApplyCleanup, Placed, At, AtClean, CleanSteps
  <2>3. Advances
    <3>1. hub' \in {hub, Removed(job.to)} BY <1>4 DEF ApplyCleanup
    <3>2. hub \in Hub BY <1>0 DEF WorkTyped
    <3> QED
      BY <1>0, <2>1, <3>1, <3>2, RemovedTyped
      DEF Advances, StoreInv, OneReplyPerRoot, Signed, Requested
  <2> QED BY <1>4, <2>2, <2>3, CallKeeps DEF ApplyCleanup, Counts, Reliably, Fault
<1>5. CASE SaveCleanup
  <2>1. st = "cleaning" /\ job.to \in Resource /\ (job.fin = "observed" => Gone(job.to))
    BY <1>0, <1>5, HeadFacts DEF SaveCleanup, At, JobInv, AtClean, CleanSteps
  <2>2. Placed' /\ job' \in JobRecord
    BY <1>0, <1>5, <2>1, JobNext DEF SaveCleanup, runVars, Placed, At, AtClean, CleanSteps
  <2>3. StoreTyped'
    BY <1>0, <1>5, <2>1, HeadFacts, LimitAssumption
    DEF SaveCleanup, StoreTyped, runVars, effectVars, reviewVars, EffectKind, EffectStatus,
        DeliveryStates
  <2>4. StoreInv'
    <3>1. EvidenceChain'
      BY <1>0, <1>5, <2>1, HeadFacts
      DEF SaveCleanup, StoreInv, runVars, effectVars, reviewVars, EvidenceChain, Published,
          Opened
    <3>2. OneReplyPerRoot'
      BY <1>0, <1>5, <2>1, HeadFacts
      DEF SaveCleanup, StoreInv, runVars, effectVars, reviewVars, OneReplyPerRoot
    <3>3. ReplyBeforeMerge'
      BY <1>0, <1>5, <2>1, HeadFacts
      DEF SaveCleanup, StoreInv, runVars, effectVars, reviewVars, ReplyBeforeMerge
    <3>4. MergeStands'
      BY <1>0, <1>5, <2>1, HeadFacts
      DEF SaveCleanup, StoreInv, runVars, effectVars, reviewVars, MergeStands, Shown, LateStates
    <3>5. Signed'
      BY <1>0, <1>5, <2>1, HeadFacts
      DEF SaveCleanup, StoreInv, runVars, effectVars, reviewVars, Signed
    <3>6. Requested'
      BY <1>0, <1>5, <2>1, HeadFacts
      DEF SaveCleanup, StoreInv, runVars, effectVars, reviewVars, Requested, Shown
    <3>7. Finished'
      BY <1>0, <1>5, <2>1, HeadFacts
      DEF SaveCleanup, StoreInv, runVars, effectVars, reviewVars, Finished, Gone
    <3>8. Answered'
      BY <1>0, <1>5, <2>1, HeadFacts
      DEF SaveCleanup, StoreInv, runVars, effectVars, reviewVars, Answered, AnsweredStates,
          Outstanding
    <3> QED BY <3>1, <3>2, <3>3, <3>4, <3>5, <3>6, <3>7, <3>8 DEF StoreInv
  <2> QED BY <1>5, <2>2, <2>3, <2>4, StoreKeeps DEF SaveCleanup, Took, Counts
<1>6. CASE EndCleanup
  <2>1. st = "cleaning" BY <1>0, <1>6, HeadFacts DEF EndCleanup, At, JobInv, AtClean, CleanSteps
  <2>2. Placed' /\ job' \in JobRecord
    BY <1>0, <1>6, <2>1, StoreSame, JobMoves, JobRests
    DEF EndCleanup, Placed, At, DeliveryStates, AtSettle, SettleSteps, Owed, Outcome, Evidence
  <2> QED BY <1>6, <2>2, ReadKeeps DEF EndCleanup, Took, Counts, Return
<1> QED BY <1>1, <1>2, <1>3, <1>4, <1>5, <1>6 DEF CleanupStep

\* A move of others leaves the store and the handler alone.
LEMMA MoveLeaves ==
  ASSUME NEW name, NEW after, Move(name, after)
  PROVE  hub' = after /\ KeepStore /\ UNCHANGED <<job, seen>> /\ Counts
BY DEF Move, KeepStore, Counts

\* A move that touches none of what the invariant reads from GitHub and Linear.
LEMMA CalmMove ==
  ASSUME DeliveryInv, NEW name, NEW after \in Hub, Move(name, after),
         after.pr = hub.pr, after.prHead = hub.prHead, after.by = hub.by,
         after.review = hub.review, after.signed = hub.signed, after.replies = hub.replies,
         after.issue = hub.issue, after.local = hub.local,
         hub.branch = NoHead => after.branch = NoHead
  PROVE  DeliveryInv'
<1>1. hub' = after /\ KeepStore /\ UNCHANGED <<job, seen>> /\ Counts BY MoveLeaves
<1>2. Advances
  BY <1>1 DEF Advances, DeliveryInv, TypeOK, StoreInv, OneReplyPerRoot, Signed, Requested
<1> QED BY <1>1, <1>2, OutsideKeeps

\* The humans, GitHub's checks and Linear.
LEMMA OutsideStepKeeps ==
  ASSUME DeliveryInv, OutsideStep
  PROVE  DeliveryInv'
<1>0. hub \in Hub /\ StoreInv /\ WorkTyped /\ StoreTyped BY DEF DeliveryInv, TypeOK, WorkTyped
<1>1. CASE ChecksEnd
  <2>1. PICK result \in {"pass", "fail"} :
          hub.prHead \in Heads /\ Move("checks", [hub EXCEPT !.checks[hub.prHead] = result])
    BY <1>1 DEF ChecksEnd
  <2>. DEFINE after == [hub EXCEPT !.checks[hub.prHead] = result]
  <2>2. after \in Hub BY <1>0, <2>1 DEF Hub
  <2> QED BY <1>0, <2>1, <2>2, CalmMove DEF Hub
<1>2. CASE ChecksRerun
  <2>. DEFINE after == [hub EXCEPT !.checks[hub.prHead] = "pending"]
  <2>1. after \in Hub BY <1>0, <1>2 DEF ChecksRerun, Hub
  <2> QED BY <1>0, <1>2, <2>1, CalmMove DEF ChecksRerun, Hub
<1>3. CASE ForeignPush
  <2>1. hub' = Pushed(Foreign) /\ KeepStore /\ UNCHANGED <<job, seen>> /\ Counts
    BY <1>3, MoveLeaves DEF ForeignPush
  <2>2. Advances
    BY <1>0, <1>3, <2>1, PushedTyped, HeadFacts
    DEF ForeignPush, Advances, StoreInv, OneReplyPerRoot, Signed, Requested
  <2> QED BY <1>0, <2>1, <2>2, PushedTyped, HeadFacts, OutsideKeeps
<1>4. CASE ClosePullRequest
  <2>. DEFINE after == [hub EXCEPT !.pr = "closed"]
  <2>1. hub' = after /\ KeepStore /\ UNCHANGED <<job, seen>> /\ Counts
    BY <1>4, MoveLeaves DEF ClosePullRequest
  <2>2. after \in Hub BY <1>0 DEF Hub
  <2>3. Advances
    BY <1>0, <1>4, <2>1, <2>2
    DEF ClosePullRequest, Advances, StoreInv, OneReplyPerRoot, Signed, Requested, Hub
  <2> QED BY <1>0, <2>1, <2>3, OutsideKeeps DEF Hub
<1>5. CASE HumanMerge
  <2>1. hub' = Merged("human") /\ KeepStore /\ UNCHANGED <<job, seen>> /\ Counts
    BY <1>5, MoveLeaves DEF HumanMerge
  <2>2. Advances
    BY <1>0, <1>5, <2>1, MergedTyped
    DEF HumanMerge, Advances, StoreInv, OneReplyPerRoot, Signed, Requested
  <2> QED BY <1>0, <2>1, <2>2, MergedTyped, OutsideKeeps
<1>6. CASE BranchDeleted
  <2>. DEFINE after == [hub EXCEPT !.branch = NoHead]
  <2>1. after \in Hub BY <1>0, HeadFacts DEF Hub
  <2> QED BY <1>0, <1>6, <2>1, CalmMove DEF BranchDeleted, Hub
<1>7. CASE Approve
  <2>. DEFINE after == [hub EXCEPT !.review = Review("approved"), !.signed = @ \cup {hub.prHead}]
  <2>1. hub' = after /\ KeepStore /\ UNCHANGED <<job, seen>> /\ Counts
    BY <1>7, MoveLeaves DEF Approve
  <2>2. Review("approved") \in [kind : {"none", "approved", "changes", "dismissed"},
                                head : Commit, id : 0..MaxReviews]
    BY <1>0, <1>7, HeadAssumption DEF Approve, Review, Hub
  <2>3. after \in Hub BY <1>0, <2>2 DEF Hub
  <2>4. after.review.head \in after.signed BY <1>0 DEF Hub, Review
  <2>5. Advances
    BY <1>0, <2>1, <2>3, <2>4
    DEF Advances, StoreInv, OneReplyPerRoot, Signed, Requested, Hub
  <2> QED BY <1>0, <2>1, <2>5, OutsideKeeps DEF Hub
<1>8. CASE RequestChanges
  <2>1. PICK inline \in BOOLEAN :
          Move("changes", [hub EXCEPT !.review = Review("changes"),
                                      !.asked = @ \cup {hub.prHead},
                                      !.root = IF inline THEN hub.prHead ELSE @])
    BY <1>8 DEF RequestChanges
  <2>. DEFINE after == [hub EXCEPT !.review = Review("changes"),
                                   !.asked = @ \cup {hub.prHead},
                                   !.root = IF inline THEN hub.prHead ELSE @]
  <2>2. hub' = after /\ KeepStore /\ UNCHANGED <<job, seen>> /\ Counts
    BY <2>1, MoveLeaves
  <2>3. Review("changes") \in [kind : {"none", "approved", "changes", "dismissed"},
                               head : Commit, id : 0..MaxReviews]
    BY <1>0, <1>8, HeadAssumption DEF RequestChanges, Review, Hub
  <2>4. hub.prHead \in Heads /\ hub.prHead \in 0..MaxHead
    BY <1>8, HeadAssumption DEF RequestChanges, Heads
  <2>5. after \in Hub BY <1>0, <2>3, <2>4 DEF Hub
  <2>6. after.review.kind = "changes" BY <1>0 DEF Hub, Review
  <2>7. Advances
    BY <1>0, <2>2, <2>5, <2>6
    DEF Advances, StoreInv, OneReplyPerRoot, Signed, Requested, Hub
  <2> QED BY <1>0, <2>2, <2>7, OutsideKeeps DEF Hub
<1>9. CASE DismissReview
  <2>. DEFINE after == [hub EXCEPT !.review.kind = "dismissed",
                                   !.asked = IF hub.review.kind = "changes"
                                             THEN @ \ {hub.review.head} ELSE @]
  <2>1. hub' = after /\ KeepStore /\ UNCHANGED <<job, seen>> /\ Counts
    BY <1>9, MoveLeaves DEF DismissReview
  <2>2. after \in Hub BY <1>0 DEF Hub
  <2>3. after.review.kind = "dismissed" BY <1>0 DEF Hub
  <2>4. Advances
    BY <1>0, <2>1, <2>2, <2>3
    DEF Advances, StoreInv, OneReplyPerRoot, Signed, Requested, Hub
  <2> QED BY <1>0, <2>1, <2>4, OutsideKeeps DEF Hub
<1>10. CASE ResolveThread
  <2>. DEFINE after == [hub EXCEPT !.resolved = TRUE]
  <2>1. after \in Hub BY <1>0 DEF Hub
  <2> QED BY <1>0, <1>10, <2>1, CalmMove DEF ResolveThread, Hub
<1>11. CASE CommentOnThread
  <2>. DEFINE after == [hub EXCEPT !.notes = 1]
  <2>1. after \in Hub BY <1>0 DEF Hub
  <2> QED BY <1>0, <1>11, <2>1, CalmMove DEF CommentOnThread, Hub
<1>12. CASE IssueCompleted \/ IssueCancelled
  <2>1. PICK to \in {"completed", "early", "canceled"} :
          /\ hub.issue = "started"
          /\ \E name \in OutsideMove : Move(name, [hub EXCEPT !.issue = to])
    BY <1>12 DEF IssueCompleted, IssueCancelled, OutsideMove
  <2>. DEFINE after == [hub EXCEPT !.issue = to]
  <2>2. hub' = after /\ KeepStore /\ UNCHANGED <<job, seen>> /\ Counts
    BY <2>1, MoveLeaves
  <2>3. after \in Hub BY <1>0 DEF Hub
  <2>4. Advances
    BY <1>0, <2>1, <2>2, <2>3
    DEF Advances, StoreInv, OneReplyPerRoot, Signed, Requested, Hub
  <2> QED BY <1>0, <2>2, <2>4, OutsideKeeps DEF Hub
<1>13. CASE TaskEdited
  <2>. DEFINE after == [hub EXCEPT !.edited = TRUE]
  <2>1. after \in Hub BY <1>0 DEF Hub
  <2> QED BY <1>0, <1>13, <2>1, CalmMove DEF TaskEdited, Hub
<1> QED
  BY <1>1, <1>2, <1>3, <1>4, <1>5, <1>6, <1>7, <1>8, <1>9, <1>10, <1>11, <1>12, <1>13
  DEF OutsideStep

-----
\* A run starts with nothing published and no handler at work.
LEMMA InitHolds == ASSUME Init PROVE DeliveryInv
<1>1. StoreTyped
  <2>1. head \in Heads /\ NoHead \in Commit /\ NoHead \in 0..MaxHead
    BY HeadAssumption DEF Init, Heads, NoHead, Commit
  <2>2. pr \in [state : {"none", "open", "closed", "merged"}, head : Commit, green : BOOLEAN]
    BY <2>1 DEF Init, NoRequest
  <2>3. /\ side \in [EffectKind -> [Heads -> EffectStatus]]
        /\ approval \in [Heads -> 0..MaxReviews]
        /\ cleanup \in [Resource -> {"none", "intent", "deleted", "failed"}]
    BY HeadAssumption DEF Init, EffectStatus
  <2>4. fb \in [phase : {"none", "observed", "selected", "verified", "pending", "replied",
                         "resolved"}, root : 0..MaxHead, bound : 0..MaxHead]
    BY <2>1 DEF Init, NoFeedback
  <2>5. merge \in [head : 0..MaxHead, method : {"none", "squash", "external"}]
    BY <2>1 DEF Init, NoMerge
  <2>6. linear \in [count : 0..MaxObservations,
                    last : {"none", "pending", "completed", "error", "conflict", "timeout"}]
    BY LimitAssumption DEF Init
  <2>7. posts \in 0..MaxPosts /\ policy \in 0..NoPolicy BY LimitAssumption DEF Init, NoPolicy
  <2> QED
    BY <2>1, <2>2, <2>3, <2>4, <2>5, <2>6, <2>7 DEF Init, StoreTyped, DeliveryStates
<1>2. WorkTyped
  BY UnreadTyped, TroublesAssumption DEF Init, WorkTyped, JobRecord, Idle, Step, EffectKind
<1>3. StoreInv
  <2>1. EvidenceChain /\ ReplyBeforeMerge
    BY DEF Init, EvidenceChain, Published, Opened, ReplyBeforeMerge
  <2>2. OneReplyPerRoot BY LimitAssumption DEF Init, OneReplyPerRoot, Unread, NoFeedback
  <2>3. MergeStands BY DEF Init, MergeStands, Unread, NoMerge
  <2>4. Signed BY DEF Init, Signed, Unread, NoReview
  <2>5. Requested
    BY HeadAssumption DEF Init, Requested, Unread, NoRequest, NoHead, Foreign
  <2>6. Finished BY DEF Init, Finished, Resource
  <2>7. Answered BY DEF Init, Answered, AnsweredStates, NoFeedback
  <2> QED BY <2>1, <2>2, <2>3, <2>4, <2>5, <2>6, <2>7 DEF StoreInv
<1>4. Placed BY DEF Init, Placed, At, Idle
<1>5. ReadStands BY DEF Init, ReadStands, Unread, NoReview, NoHead
<1> QED BY <1>1, <1>2, <1>3, <1>4, <1>5, PlacedSuffices DEF DeliveryInv, TypeOK

\* Every step keeps the invariant.
LEMMA NextKeeps == ASSUME DeliveryInv, [Next]_vars PROVE DeliveryInv'
<1>1. CASE UNCHANGED vars
  BY <1>1
  DEF vars, storeVars, runVars, effectVars, reviewVars, closeVars, DeliveryInv, TypeOK,
      StoreTyped, WorkTyped, StoreInv, EvidenceChain, Published, Opened, OneReplyPerRoot,
      ReplyBeforeMerge, MergeStands, Shown, LateStates, Signed, Requested, Finished, Gone,
      Answered, AnsweredStates, Outstanding, JobInv, At, AtPush, AtOpen, AtReply, AtRead,
      AtMerge, Unmerged, AtClean, AtSettle, Owed, Evidence, Outcome, ReadStands
<1>2. CASE DriverStep
  BY <1>2, SettleKeeps, PushKeeps, OpenKeeps, ReconcileKeeps, RepairKeeps, ReplyKeeps,
     MergeKeeps, MergeabilityKeeps, LinearKeeps, CleanupKeeps, OperatorKeeps
  DEF DriverStep, LinearStep, OperatorStep
<1>3. CASE RecoverOwnedPush \/ AcceptExternalMerge \/ Crash
  BY <1>3, OperatorKeeps DEF OperatorStep
<1>4. CASE OutsideStep BY <1>4, OutsideStepKeeps
<1> QED BY <1>1, <1>2, <1>3, <1>4 DEF Next

\* The invariant holds in every state delivery can reach.
LEMMA InvariantHolds == Spec => []DeliveryInv
<1> QED BY InitHolds, NextKeeps, PTL DEF Spec
-----
\* Every stored record, every reading of GitHub and every handler has its type
\* (internal/adapters/sqlite/store.go, internal/application/driver.go).
THEOREM TypeCorrect == Spec => []TypeOK
<1>1. DeliveryInv => TypeOK BY DEF DeliveryInv
<1> QED BY <1>1, InvariantHolds, PTL

\* The controller merges no head but the run's, and only one the human approved, for
\* any number of repairs, reviews and failures.
THEOREM MergesAreAuthorized == Spec => []MergeAuthorized
<1>1. DeliveryInv => MergeAuthorized
  BY DEF DeliveryInv, StoreInv, MergeStands, Shown, MergeAuthorized
<1> QED BY <1>1, InvariantHolds, PTL

\* The reply to a root is posted once, however often the post is tried.
THEOREM RepliesOnce == Spec => []OneReplyPerRoot
<1>1. DeliveryInv => OneReplyPerRoot BY DEF DeliveryInv, StoreInv
<1> QED BY <1>1, InvariantHolds, PTL

\* The controller merges no repair whose feedback still waits for an answer.
THEOREM RepliesBeforeMerge == Spec => []ReplyBeforeMerge
<1>1. DeliveryInv => ReplyBeforeMerge BY DEF DeliveryInv, StoreInv
<1> QED BY <1>1, InvariantHolds, PTL

\* A run is in no state without the evidence of the ones before it.
THEOREM EvidenceIsChained == Spec => []EvidenceChain
<1>1. DeliveryInv => EvidenceChain BY DEF DeliveryInv, StoreInv
<1> QED BY <1>1, InvariantHolds, PTL

\* A completed run is merged, its issue is completed, and nothing of it is left.
THEOREM CompletionIsDelivery == Spec => []CompletedMeansDelivered
<1>1. ASSUME DeliveryInv PROVE CompletedMeansDelivered
  <2>. SUFFICES ASSUME st = "completed"
       PROVE  /\ hub.pr = "merged" /\ hub.prHead = head
              /\ hub.issue = "completed" /\ hub.branch = NoHead /\ hub.local = {}
    BY DEF CompletedMeansDelivered
  <2>1. StoreInv /\ StoreTyped /\ hub \in Hub BY <1>1 DEF DeliveryInv, TypeOK, WorkTyped
  <2>2. merge.head = head /\ linear.last = "completed" BY <2>1 DEF StoreInv, EvidenceChain
  <2>3. merge # NoMerge BY <2>1, <2>2, HeadFacts DEF NoMerge
  <2>4. hub.pr = "merged" /\ hub.prHead = head
    BY <2>1, <2>3 DEF StoreInv, MergeStands, Shown
  <2>5. hub.issue = "completed" /\ \A r \in Resource : Gone(r)
    BY <2>1, <2>2 DEF StoreInv, Finished
  <2>6. hub.branch = NoHead /\ "worktree" \notin hub.local /\ "local_branch" \notin hub.local
    BY <2>5 DEF Gone, Resource
  <2>7. hub.local = {} BY <2>1, <2>6 DEF Hub
  <2> QED BY <2>4, <2>5, <2>6, <2>7
<1> QED BY <1>1, InvariantHolds, PTL

-----
\* Only these steps of a handler reach GitHub or remove what the run owned.
Calls == SendPush \/ PostPullRequest \/ PostReply \/ PutMerge \/ PutMergeFails \/ ApplyCleanup

\* Every other step only reads it.
LEMMA OthersRead ==
  ASSUME Next, ~Calls
  PROVE  UNCHANGED hub \/ OutsideStep
<1>1. SettleStep => UNCHANGED hub
  BY DEF SettleStep, FinishSideEffect, AddOwnedResource, Transition
<1>2. PushStep /\ ~Calls => UNCHANGED hub
  BY DEF PushStep, Calls, StartPush, BeginPush, LookupRemote, LookupFails, RereadRemote,
         RereadFails, SavePushedHead
<1>3. OpenStep /\ ~Calls => UNCHANGED hub
  BY DEF OpenStep, Calls, StartOpenPullRequest, BeginOpenPullRequest, FindOwnedPullRequest,
         FindFails, SavePullRequest
<1>4. ReconcileStep \/ RepairStep => UNCHANGED hub
  BY DEF ReconcileStep, ReadGitHub, RequireManualForFeedbackDrift, SaveReconciled,
         SaveConflict, RepairStep, Repair, RepairStops
<1>5. ReplyStep /\ ~Calls => UNCHANGED hub
  BY DEF ReplyStep, Calls, AllReplied, StartReply, ResolveReviewReplyFeedback, BeginReply,
         MarkReplyPending, FindReplies, FindRepliesFails, FinalizeReviewReply
<1>6. MergeStep /\ ~Calls => UNCHANGED hub
  BY DEF MergeStep, Calls, StartMerge, BeginMergeFresh, BeginMergeRefused,
         BeginMergeUnresolved, RetryMergeSideEffect, PutMergeMismatch, PutMergeBlocked,
         AwaitMergePolicy, AwaitMergePolicyFails, SaveMergePolicyPending, SaveMerge,
         RecordMergePolicyPending
<1>7. MergeabilityStep \/ LinearStep => UNCHANGED hub
  BY DEF MergeabilityStep, ReadMergeability, SaveMergeability, SaveMergeabilityConflict,
         LinearStep, ReconcileLinearTimeout, ReconcileLinear, Observe
<1>8. CleanupStep /\ ~Calls => UNCHANGED hub
  BY DEF CleanupStep, Calls, StartCleanup, SkipResource, IntendCleanup, SaveCleanup,
         EndCleanup
<1>9. OperatorStep => UNCHANGED hub
  BY DEF OperatorStep, AcceptExternalMerge, RecoverOwnedPush, MarkLinearSourceDrift, Crash
<1> QED
  BY <1>1, <1>2, <1>3, <1>4, <1>5, <1>6, <1>7, <1>8, <1>9
  DEF Next, DriverStep, LinearStep, OperatorStep

\* A handler takes away no commit that somebody else pushed to the run's branch.
THEOREM ForeignCommitsAreKept == Spec => ForeignCommitKept
<1>1. ASSUME DeliveryInv, [Next]_vars
      PROVE  [hub.branch = Foreign /\ job' # job => hub'.branch = Foreign]_vars
  <2>. SUFFICES ASSUME Next, hub.branch = Foreign, job' # job PROVE hub'.branch = Foreign
    BY <1>1
  <2>0. hub \in Hub /\ WorkTyped /\ StoreTyped /\ JobInv
    BY <1>1 DEF DeliveryInv, TypeOK, WorkTyped
  <2>1. ~OutsideStep
    BY DEF OutsideStep, Move, ChecksEnd, ChecksRerun, ForeignPush, ClosePullRequest,
           HumanMerge, BranchDeleted, Approve, RequestChanges, DismissReview, ResolveThread,
           CommentOnThread, IssueCompleted, IssueCancelled, TaskEdited
  <2>2. CASE ~Calls BY <2>1, <2>2, OthersRead
  <2>3. CASE SendPush
    BY <2>0, <2>3 DEF SendPush, JobInv, AtPush, At
  <2>4. CASE PostPullRequest BY <2>0, <2>4 DEF PostPullRequest, Hub
  <2>5. CASE PostReply BY <2>0, <2>5 DEF PostReply, Hub
  <2>6. CASE PutMerge \/ PutMergeFails
    <3>1. hub' \in {hub, Merged("controller")} BY <2>6 DEF PutMerge, PutMergeFails
    <3> QED BY <2>0, <3>1, MergedTyped
  <2>7. CASE ApplyCleanup
    <3>1. hub' = hub \/ (Removable(job.to) /\ hub' = Removed(job.to)) BY <2>7 DEF ApplyCleanup
    <3>2. job.to \in Resource BY <2>0, <2>7 DEF ApplyCleanup, JobInv, AtClean, CleanSteps, At
    <3>3. Removable(job.to) => job.to # "remote_branch" BY <2>0, HeadFacts DEF Removable
    <3>4. job.to # "remote_branch" => Removed(job.to).branch = hub.branch
      BY <2>0 DEF Removed, Hub
    <3> QED BY <3>1, <3>2, <3>3, <3>4
  <2> QED BY <2>2, <2>3, <2>4, <2>5, <2>6, <2>7 DEF Calls
<1> QED BY <1>1, InvariantHolds, PTL DEF Spec, ForeignCommitKept
-----
\* The run enters the completed state by the transition cleanup asks for, and never
\* leaves it.
LEMMA CompletedGoes ==
  ASSUME DeliveryInv, Next
  PROVE  \/ (st' = "completed") = (st = "completed")
         \/ Transition /\ st' = "completed" /\ merge.head # NoHead
<1>0. JobInv /\ StoreInv /\ StoreTyped /\ WorkTyped BY DEF DeliveryInv, TypeOK
<1>1. CASE Transition
  <2>1. Owed(job.to) BY <1>0, <1>1 DEF Transition, JobInv, AtSettle, At
  <2>2. CASE job.to = "completed"
    BY <1>0, <1>1, <2>1, <2>2, HeadFacts DEF Transition, Owed, StoreInv, EvidenceChain
  <2>3. CASE job.to # "completed"
    BY <1>0, <1>1, <2>1, <2>3 DEF Transition, Owed
  <2> QED BY <2>2, <2>3
<1>2. CASE SettleStep /\ ~Transition
  BY <1>2 DEF SettleStep, FinishSideEffect, AddOwnedResource, runVars
<1>3. CASE PushStep
  <2>1. StartPush => st # "completed" /\ st' # "completed" BY DEF StartPush
  <2> QED
    BY <1>3, <2>1, StoreSame
    DEF PushStep, BeginPush, LookupRemote, LookupFails, SendPush, RereadRemote, RereadFails,
        SavePushedHead, OnlySide, runVars
<1>4. CASE OpenStep
  <2>1. StartOpenPullRequest => st # "completed" /\ st' # "completed"
    BY DEF StartOpenPullRequest
  <2> QED
    BY <1>4, <2>1, StoreSame
    DEF OpenStep, BeginOpenPullRequest, FindOwnedPullRequest, FindFails, PostPullRequest,
        SavePullRequest, OnlySide, runVars
<1>5. CASE ReconcileStep
  <2>1. RequireManualForFeedbackDrift => st # "completed" /\ st' # "completed"
    BY <1>0 DEF RequireManualForFeedbackDrift, Park, JobInv, AtRead, SaveSteps,
                ReconciledStates, At
  <2>2. SaveReconciled => st # "completed" /\ st' # "completed"
    <3>1. SaveReconciled => /\ st \in ReconciledStates /\ st' = NextState(seen)
                            /\ seen.checks[head] \in {"pending", "pass", "fail"}
      BY <1>0, HeadFacts DEF SaveReconciled, SaveGitHubReadSuccess, JobInv, AtRead, At,
                             SaveSteps, WorkTyped, Hub
    <3> QED BY <1>0, <3>1, NextGoes DEF ReconciledStates, Waiting
  <2> QED BY <1>5, <2>1, <2>2, StoreSame DEF ReconcileStep, ReadGitHub, SaveConflict
<1>6. CASE RepairStep
  BY <1>6 DEF RepairStep, Repair, RepairStops, Park
<1>7. CASE ReplyStep
  <2>1. AllReplied => st # "completed" /\ st' # "completed" BY DEF AllReplied
  <2> QED
    BY <1>7, <2>1, StoreSame
    DEF ReplyStep, StartReply, ResolveReviewReplyFeedback, BeginReply, MarkReplyPending,
        FindReplies, FindRepliesFails, PostReply, FinalizeReviewReply, runVars
<1>8. CASE MergeStep
  <2>1. BeginMergeUnresolved \/ SaveMergePolicyPending => st # "completed" /\ st' # "completed"
    BY <1>0 DEF BeginMergeUnresolved, SaveMergePolicyPending, RecordMergePolicyPending,
                JobInv, AtMerge, PutSteps, At
  <2> QED
    BY <1>8, <2>1, StoreSame
    DEF MergeStep, StartMerge, BeginMergeFresh, BeginMergeRefused, RetryMergeSideEffect,
        PutMergeMismatch, PutMergeBlocked, PutMerge, PutMergeFails, AwaitMergePolicy,
        AwaitMergePolicyFails, SaveMerge, OnlySide, runVars
<1>9. CASE MergeabilityStep
  <2>1. SaveMergeability => st # "completed" /\ st' # "completed"
    <3>. DEFINE task == [seen EXCEPT !.issue = "started"]
    <3>1. SaveMergeability => st = "awaiting_github_mergeability"
      BY <1>0 DEF SaveMergeability, JobInv, AtRead, At
    <3>2. seen.checks[head] \in {"pending", "pass", "fail"}
      BY <1>0, HeadFacts DEF WorkTyped, Hub
    <3>3. task.checks[head] \in {"pending", "pass", "fail"} BY <1>0, <3>2 DEF WorkTyped, Hub
    <3>4. SaveMergeability =>
            \/ st' \in {"reconciling_reviews", "manual_intervention",
                         "awaiting_human_approval"}
            \/ st' = NextState(task)
            \/ st' = NextMergeability(seen)
      <4>1. HumanApproval(seen) \in {"none", "approved", "changes", "dismissed", "stale"}
        BY <1>0 DEF HumanApproval, WorkTyped, Hub
      <4> QED BY <4>1 DEF SaveMergeability, SaveGitHubReadSuccess
    <3>. HIDE DEF task
    <3>5. SaveMergeability => NextState(task) # "completed"
      BY <1>0, <3>1, <3>3, NextGoes DEF ReconciledStates, Waiting
    <3>6. NextMergeability(seen) # "completed" BY DEF NextMergeability
    <3> QED BY <3>1, <3>4, <3>5, <3>6
  <2> QED
    BY <1>9, <2>1, StoreSame DEF MergeabilityStep, ReadMergeability, SaveMergeabilityConflict
<1>10. CASE LinearStep
  BY <1>10 DEF LinearStep, ReconcileLinearTimeout, ReconcileLinear, Observe, runVars
<1>11. CASE CleanupStep
  BY <1>11, StoreSame
  DEF CleanupStep, StartCleanup, SkipResource, IntendCleanup, ApplyCleanup, SaveCleanup,
      EndCleanup, runVars
<1>12. CASE OperatorStep
  BY <1>12
  DEF OperatorStep, AcceptExternalMerge, RecoverOwnedPush, MarkLinearSourceDrift, Park,
      WrittenStates, ReconciledStates, Crash, storeVars, runVars
<1>13. CASE OutsideStep
  <2>1. UNCHANGED st
    BY <1>13
    DEF OutsideStep, Move, ChecksEnd, ChecksRerun, ForeignPush, ClosePullRequest, HumanMerge,
        BranchDeleted, Approve, RequestChanges, DismissReview, ResolveThread,
        CommentOnThread, IssueCompleted, IssueCancelled, TaskEdited, storeVars, runVars
  <2> QED BY <2>1
<1> QED
  BY <1>1, <1>2, <1>3, <1>4, <1>5, <1>6, <1>7, <1>8, <1>9, <1>10, <1>11, <1>12, <1>13
  DEF Next, DriverStep, LinearStep, OperatorStep

\* A merge is recorded by SaveMerge or by the operator's acceptance, and by nothing else.
LEMMA MergeGoes ==
  ASSUME Next
  PROVE  UNCHANGED merge \/ SaveMerge \/ AcceptExternalMerge
<1>1. SettleStep \/ PushStep \/ OpenStep => UNCHANGED merge
  BY StoreSame
  DEF SettleStep, FinishSideEffect, AddOwnedResource, Transition, PushStep, StartPush,
      BeginPush, LookupRemote, LookupFails, SendPush, RereadRemote, RereadFails,
      SavePushedHead, OpenStep, StartOpenPullRequest, BeginOpenPullRequest,
      FindOwnedPullRequest, FindFails, PostPullRequest, SavePullRequest, OnlyRun, OnlySide,
      closeVars
<1>2. ReconcileStep \/ RepairStep \/ ReplyStep => UNCHANGED merge
  BY StoreSame
  DEF ReconcileStep, ReadGitHub, RequireManualForFeedbackDrift, SaveReconciled, SaveConflict,
      RepairStep, Repair, RepairStops, ReplyStep, AllReplied, StartReply,
      ResolveReviewReplyFeedback, BeginReply, MarkReplyPending, FindReplies,
      FindRepliesFails, PostReply, FinalizeReviewReply, OnlyRun, closeVars
<1>3. MergeStep => UNCHANGED merge \/ SaveMerge
  BY StoreSame
  DEF MergeStep, StartMerge, BeginMergeFresh, BeginMergeRefused, BeginMergeUnresolved,
      RetryMergeSideEffect, PutMergeMismatch, PutMergeBlocked, PutMerge, PutMergeFails,
      AwaitMergePolicy, AwaitMergePolicyFails, SaveMergePolicyPending,
      RecordMergePolicyPending, OnlySide, closeVars
<1>4. MergeabilityStep \/ LinearStep \/ CleanupStep => UNCHANGED merge
  BY StoreSame
  DEF MergeabilityStep, ReadMergeability, SaveMergeability, SaveMergeabilityConflict,
      LinearStep, ReconcileLinearTimeout, ReconcileLinear, Observe, CleanupStep,
      StartCleanup, SkipResource, IntendCleanup, ApplyCleanup, SaveCleanup, EndCleanup,
      closeVars
<1>5. OperatorStep => UNCHANGED merge \/ AcceptExternalMerge
  BY DEF OperatorStep, RecoverOwnedPush, MarkLinearSourceDrift, Crash, OnlyRun, storeVars,
         closeVars
<1>6. OutsideStep => UNCHANGED merge
  BY DEF OutsideStep, Move, ChecksEnd, ChecksRerun, ForeignPush, ClosePullRequest, HumanMerge,
         BranchDeleted, Approve, RequestChanges, DismissReview, ResolveThread,
         CommentOnThread, IssueCompleted, IssueCancelled, TaskEdited, storeVars, closeVars
<1> QED
  BY <1>1, <1>2, <1>3, <1>4, <1>5, <1>6 DEF Next, DriverStep, LinearStep, OperatorStep

\* What the gate sees of GitHub and Linear.
MergedHead == IF hub.pr = "merged" THEN hub.prHead ELSE NoHead
Seen == <<hub.signed, MergedHead, hub.by>>

\* Only an approval and a merge change it.
LEMMA SeenGoes ==
  ASSUME DeliveryInv, Next
  PROVE  UNCHANGED Seen \/ Approve \/ HumanMerge \/ PutMerge \/ PutMergeFails
<1>0. hub \in Hub /\ WorkTyped /\ StoreTyped /\ StoreInv /\ JobInv
  BY DEF DeliveryInv, TypeOK, WorkTyped
<1>1. CASE UNCHANGED hub BY <1>1 DEF Seen, MergedHead
<1>2. CASE SendPush
  <2>1. hub' \in {hub, Pushed(head)} BY <1>2 DEF SendPush
  <2> QED BY <1>0, <2>1, PushedTyped, HeadFacts DEF Seen, MergedHead
<1>3. CASE PostPullRequest
  <2>1. hub.pr # "merged" BY <1>0, <1>3 DEF PostPullRequest, JobInv, AtOpen, OpenSteps, At,
                                            StoreInv, Requested
  <2> QED BY <1>0, <1>3, <2>1 DEF PostPullRequest, Seen, MergedHead, Hub
<1>4. CASE PostReply BY <1>0, <1>4 DEF PostReply, Seen, MergedHead, Hub
<1>5. CASE ApplyCleanup
  <2>1. hub' \in {hub, Removed(job.to)} BY <1>5 DEF ApplyCleanup
  <2>2. job.to \in Resource BY <1>0, <1>5 DEF ApplyCleanup, JobInv, AtClean, CleanSteps, At
  <2> QED BY <1>0, <2>1, <2>2, RemovedTyped DEF Seen, MergedHead
<1>6. CASE OutsideStep
  <2>1. ForeignPush => UNCHANGED Seen
    BY <1>0, PushedTyped, HeadFacts DEF ForeignPush, Move, Seen, MergedHead
  <2>2. ClosePullRequest => UNCHANGED Seen
    BY <1>0 DEF ClosePullRequest, Move, Seen, MergedHead, Hub
  <2>3. ChecksEnd \/ ChecksRerun \/ BranchDeleted \/ RequestChanges \/ DismissReview
          => UNCHANGED Seen
    BY <1>0, ZenonT(60) DEF ChecksEnd, ChecksRerun, BranchDeleted, RequestChanges, DismissReview, Move,
                Seen, MergedHead, Hub
  <2>4. ResolveThread \/ CommentOnThread \/ IssueCompleted \/ IssueCancelled \/ TaskEdited
          => UNCHANGED Seen
    BY <1>0 DEF ResolveThread, CommentOnThread, IssueCompleted, IssueCancelled, TaskEdited,
                Move, Seen, MergedHead, Hub
  <2> QED BY <1>6, <2>1, <2>2, <2>3, <2>4 DEF OutsideStep
<1> QED BY <1>1, <1>2, <1>3, <1>4, <1>5, <1>6, OthersRead DEF Calls

-----
\* Initially nothing is signed, merged or recorded.
LEMMA GateStarts == ASSUME Init PROVE Gate!Init
BY DEF Init, Unread, NoMerge, NoHead, Gate!Init

\* Every step of delivery is a step of the gate, or none.
LEMMA GateGoes ==
  ASSUME DeliveryInv, [Next]_vars
  PROVE  [Gate!Next]_(Gate!vars)
<1>0. hub \in Hub /\ WorkTyped /\ StoreTyped /\ StoreInv /\ JobInv
  BY DEF DeliveryInv, TypeOK, WorkTyped
<1>1. CASE UNCHANGED vars
  BY <1>1 DEF vars, storeVars, runVars, closeVars, Gate!vars
<1>. SUFFICES ASSUME Next PROVE [Gate!Next]_(Gate!vars)
  BY <1>1
<1>2. CASE Transition /\ st' = "completed" /\ merge.head # NoHead
  BY <1>2 DEF Transition, closeVars, Gate!Next, Gate!Complete
<1>3. CASE Approve
  <2>1. hub' = [hub EXCEPT !.review = Review("approved"), !.signed = @ \cup {hub.prHead}]
        /\ UNCHANGED <<st, merge>>
    BY <1>3, MoveLeaves, StoreSame DEF Approve
  <2>2. Gate!Sign(hub.prHead) BY <1>0, <2>1 DEF Gate!Sign, Hub
  <2>3. hub.prHead \in Commit BY <1>0 DEF Hub
  <2> QED BY <2>2, <2>3 DEF Gate!Next
<1>4. CASE HumanMerge
  <2>1. hub' = Merged("human") /\ hub.pr = "open" /\ UNCHANGED <<st, merge>>
    BY <1>4, MoveLeaves, StoreSame DEF HumanMerge
  <2>2. Gate!HumanMerges(hub.prHead) BY <1>0, <2>1, MergedTyped DEF Gate!HumanMerges
  <2>3. hub.prHead \in Commit BY <1>0 DEF Hub
  <2> QED BY <2>2, <2>3 DEF Gate!Next
<1>5. CASE PutMerge \/ PutMergeFails
  <2>1. /\ hub' \in {hub, Merged("controller")} /\ hub.pr = "open" /\ hub.prHead = head
        /\ UNCHANGED <<st, merge>>
    BY <1>5, StoreSame DEF PutMerge, PutMergeFails, AtMergeTarget
  <2>2. CASE hub' = hub BY <2>1, <2>2 DEF Gate!vars
  <2>3. CASE hub' = Merged("controller")
    <3>1. head \in hub.signed
      BY <1>0, <1>5, HeadFacts DEF PutMerge, PutMergeFails, JobInv, AtMerge, PutSteps, At,
                                   StoreInv, Signed
    <3>2. Gate!ControllerMerges(head)
      BY <1>0, <2>1, <2>3, <3>1, MergedTyped DEF Gate!ControllerMerges
    <3> QED BY <1>0, <3>2, HeadFacts DEF Gate!Next
  <2> QED BY <2>1, <2>2, <2>3
<1>6. CASE SaveMerge \/ AcceptExternalMerge
  <2>1. UNCHANGED <<st, hub>> /\ merge'.head = head
    BY <1>6 DEF SaveMerge, AcceptExternalMerge, runVars
  <2>2. approval[head] # 0
    BY <1>0, <1>6 DEF SaveMerge, AcceptExternalMerge, JobInv, AtMerge, PutSteps, At
  <2>3. Shown(head)
    BY <1>0, <1>6 DEF SaveMerge, AcceptExternalMerge, JobInv, AtMerge, PutSteps, At,
                      StoreInv, Requested
  <2>4. head \in hub.signed BY <1>0, <2>2, HeadFacts DEF StoreInv, Signed
  <2>5. CASE merge = NoMerge
    <3>1. merge.head = NoHead BY <2>5 DEF NoMerge
    <3>2. Gate!Record BY <1>0, <2>1, <2>3, <2>4, <3>1, HeadFacts DEF Gate!Record, Shown
    <3> QED BY <3>2 DEF Gate!Next
  <2>6. CASE merge # NoMerge
    BY <1>0, <2>1, <2>6 DEF StoreInv, MergeStands, Gate!vars
  <2> QED BY <2>5, <2>6
<1>7. CASE /\ UNCHANGED Seen /\ UNCHANGED merge
           /\ (st' = "completed") = (st = "completed")
  BY <1>7 DEF Seen, MergedHead, Gate!vars
<1> QED
  <2>1. \/ UNCHANGED Seen \/ Approve \/ HumanMerge \/ PutMerge \/ PutMergeFails
    BY SeenGoes
  <2>2. \/ UNCHANGED merge \/ SaveMerge \/ AcceptExternalMerge BY MergeGoes
  <2>3. \/ (st' = "completed") = (st = "completed")
        \/ Transition /\ st' = "completed" /\ merge.head # NoHead
    BY CompletedGoes
  <2> QED BY <1>2, <1>3, <1>4, <1>5, <1>6, <1>7, <2>1, <2>2, <2>3

\* Delivery implements the gate: the run's merge, whoever makes it and whatever is lost
\* on the way, is signed before, recorded once, and precedes the completion.
THEOREM DeliveryKeepsTheGate == Spec => MergeGatePromise
<1> QED BY GateStarts, GateGoes, InvariantHolds, PTL DEF Spec, MergeGatePromise, Gate!Spec
=============================================================================
