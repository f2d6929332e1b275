----------------------------- MODULE LocalExecute -----------------------------
(***************************************************************************)
(* The implementation attempts of a run, the decision a human may have to   *)
(* make for them, and the reconciliation of an interrupted attempt          *)
(* (execute, acceptDecision, ReconcileInterruptedRun).                      *)
(***************************************************************************)
EXTENDS LocalWorkspace

\* The last implementation attempt among the first k, if there is one.
LastImplementation(k) ==
  {i \in DOMAIN attempts :
     /\ i <= k /\ attempts[i].kind \in Implementation
     /\ \A j \in DOMAIN attempts : i < j /\ j <= k => attempts[j].kind = "review"}

Current(i) == i \in LastImplementation(ctl.k)

SetAttempt(i, status, result) ==
  /\ attempts' = [attempts EXCEPT ![i].status = status, ![i].result = result]
  /\ UNCHANGED <<runVars, rows, log, proofVars>>

Finish(i, status) == SetAttempt(i, status, attempts[i].result)

\* What the attempt is asked to do: what the caller passed, or else what the
\* store holds.
Instructions ==
  CASE ~session \/ ctl.decision # NoResult             -> ctl.decision
    [] session /\ ctl.decision = NoResult /\ Repairing -> "repair"
    [] OTHER -> IF log.accepted # <<>> THEN "human" ELSE NoResult

\* Faulty: any attempt that succeeded answers a repair.
ReusableAtAnyTime(i) ==
  attempts[i].status = "succeeded" /\ (Instructions = NoResult \/ Repairing)

\* Without instructions, or started after the last repair and the last decision.
Reusable(i) ==
  /\ attempts[i].status = "succeeded"
  /\ Instructions = NoResult \/ (Repairing /\ attempts[i].round = Round)

FailUnlaunched ==
  /\ Do("execute")
  /\ \E i \in DOMAIN attempts :
       /\ Current(i) /\ attempts[i].status = "prepared"
       /\ Finish(i, "failed")
       /\ ctl' = [ctl EXCEPT !.k = i - 1]
  /\ KeepWorld /\ Reliably

\* The transcript of an interrupted attempt names its session, or does not.
FindInterrupted ==
  /\ Do("execute")
  /\ \E i \in DOMAIN attempts :
       /\ Current(i) /\ attempts[i].status = "started"
       /\ \/ ctl' = [ctl EXCEPT !.at = "recover", !.k = i] /\ KeepStore
          \/ ctl' = [ctl EXCEPT !.at = "lost"] /\ Finish(i, "failed")
  /\ KeepWorld /\ Reliably

ReuseOutcome ==
  /\ Do("execute")
  /\ \E i \in DOMAIN attempts :
       /\ Current(i) /\ Reusable(i)
       /\ ctl' = [ctl EXCEPT !.at = "apply", !.result = attempts[i].result]
  /\ KeepStore /\ KeepWorld /\ Reliably

RecoveryResume == \E i \in DOMAIN attempts : attempts[i].status = "recovered"
NothingToResume == session /\ Instructions = NoResult /\ ~RecoveryResume

NeedsAttempt ==
  \A i \in DOMAIN attempts : Current(i) =>
    attempts[i].status \in {"failed", "recovered", "succeeded"} /\ ~Reusable(i)

RefuseResume ==
  /\ Do("execute") /\ NeedsAttempt /\ NothingToResume
  /\ Refuse

BeginAttempt(kind) ==
  /\ Len(attempts) < MaxAttempts
  /\ attempts' = Append(attempts, [kind |-> kind, round |-> Round,
                                   status |-> "prepared", result |-> NoResult])
  /\ UNCHANGED <<runVars, rows, log, proofVars>>

BeginImplementation ==
  /\ Do("execute") /\ NeedsAttempt /\ ~NothingToResume
  /\ BeginAttempt(IF session THEN "resume" ELSE "implementation")
  /\ Go("launch") /\ KeepWorld /\ Reliably

Newest == Len(attempts)

\* failAttempt, before or after the launch; a process that could not be started
\* is of the class process_start.
FailAttempt ==
  /\ ctl.at \in {"launch", "child", "finish", "review_launch", "review_child", "review_finish"}
  /\ ~Overdue /\ Trouble("child")
  /\ Finish(Newest, "failed") /\ KeepWorld
  /\ \E how \in {"error", "retry"} : Go(how)

CommitAttemptProcessLaunch ==
  /\ \/ Do("launch") /\ Go("child")
     \/ Do("review_launch") /\ Go("review_child")
  /\ Finish(Newest, "started") /\ KeepWorld /\ Reliably

\* Codex edits the worktree, may commit although it must not, even under the
\* controller's subject, and reports.
CodexEnds ==
  /\ Do("child")
  /\ \E result \in Outcome :
       /\ result = "needs_human_decision" => Len(log.accepted) < MaxDecisions
       /\ ctl' = [ctl EXCEPT !.at = "save_session", !.result = result]
       /\ \/ /\ \E dirt \in 0..1 : disk' = [disk EXCEPT !.dirt = dirt]
             /\ UNCHANGED commits /\ Reliably
          \/ /\ Len(commits) < MaxHead /\ Trouble("commit")
             /\ \E subject \in {"candidate", "other"} :
                  commits' = Append(commits, [parent |-> disk.head, subject |-> subject])
             /\ disk' = [disk EXCEPT !.head = Len(commits) + 1, !.dirt = 0]
  /\ KeepStore /\ UNCHANGED expired

SetImplementationSession ==
  /\ \/ Do("save_session") /\ Go("finish")
     \/ At("recover") /\ (Overdue => Recovering) /\ Go("recovered")
  /\ session' = TRUE /\ UNCHANGED <<st, cand, workspace, logVars, proofVars>>
  /\ KeepWorld /\ Reliably

FinishAttempt ==
  /\ Do("finish")
  /\ SetAttempt(Newest, "succeeded", ctl.result)
  /\ Go("apply") /\ KeepWorld /\ Reliably

FinishRecovered ==
  /\ At("recovered") /\ (Overdue => Recovering)
  /\ Finish(ctl.k, "recovered")
  /\ IF Recovering THEN Return ELSE Go("execute")
  /\ KeepWorld /\ Reliably

\* persistMissingSessionIntervention.
SessionLost ==
  /\ At("lost")
  /\ st' = "manual_intervention" /\ OnlyState
  /\ Return /\ KeepWorld /\ Reliably

ApplyImplementationOutcome ==
  /\ Do("apply")
  /\ Transition(CASE ctl.result = "completed" -> "verifying"
                  [] ctl.result = "needs_human_decision" -> "awaiting_human_decision"
                  [] OTHER -> "failed")
  /\ KeepWorld /\ Reliably

ExecuteStep ==
  \/ FailUnlaunched \/ FindInterrupted \/ ReuseOutcome \/ RefuseResume \/ BeginImplementation
  \/ CommitAttemptProcessLaunch \/ CodexEnds \/ SetImplementationSession \/ FinishAttempt
  \/ FinishRecovered \/ SessionLost \/ ApplyImplementationOutcome
-----------------------------------------------------------------------------
(***************************************************************************)
(* ReconcileInterruptedRun: one started attempt is stopped and settled.     *)
(***************************************************************************)
Interrupted == {i \in DOMAIN attempts : attempts[i].status = "started"}

ReconcileInterruptedRun ==
  /\ At("idle") /\ st \in RepairStates
  /\ \E i \in Interrupted :
       /\ \A j \in Interrupted : i <= j
       /\ \/ attempts[i].kind = "review" /\ Finish(i, "failed") /\ UNCHANGED ctl
          \/ /\ attempts[i].kind # "review"
             /\ \/ /\ ctl' = [Idle EXCEPT !.at = "recover", !.k = i, !.result = "reconcile"]
                   /\ KeepStore
                \/ /\ ctl' = [Idle EXCEPT !.at = "lost", !.result = "reconcile"]
                   /\ Finish(i, "failed")
  /\ KeepWorld /\ Reliably
-----------------------------------------------------------------------------
(***************************************************************************)
(* acceptDecision: the artifact is written exclusively, under the number of *)
(* attempts there are; the transition that accepts it is a later write.     *)
(***************************************************************************)
Requested == \E i \in LastImplementation(Newest) : attempts[i].result = "needs_human_decision"

WriteDecision ==
  /\ At("accept")
  /\ IF ~Requested \/ (Newest \in disk.decisions /\ Newest \notin {log.accepted[i] : i \in DOMAIN log.accepted})
     THEN Refuse
     ELSE /\ disk' = [disk EXCEPT !.decisions = @ \cup {Newest}]
          /\ Go("accepted") /\ KeepStore /\ UNCHANGED <<commits, expired>> /\ Reliably

\* stopAfterHumanDecision: the heavy work that follows is another call's.
AcceptDecision ==
  /\ At("accepted")
  /\ st' = "executing" /\ log' = [log EXCEPT !.accepted = Append(@, Newest)]
  /\ UNCHANGED <<cand, session, workspace, rows, attempts, proofVars>>
  /\ Return /\ KeepWorld /\ Reliably

DecisionStep == WriteDecision \/ AcceptDecision
=============================================================================
