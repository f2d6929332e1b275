------------------------------ MODULE LocalState ------------------------------
(***************************************************************************)
(* The local half of a run, from received to approval_ready: what the store *)
(* and the disk keep of it, and the frame every handler of                  *)
(* application.LocalController runs in.                                     *)
(*                                                                          *)
(* The run's lease admits one controller at a time, so one handler runs; it *)
(* is the record ctl, whose position is the next durable thing the handler  *)
(* does.  A crash ends it between two of them, a failing call sends it to   *)
(* "error", and a later call starts from what the store and the disk hold.  *)
(* Times are compared only with the last repair and the last decision, so a *)
(* record carries how many of them it has seen.                             *)
(***************************************************************************)
EXTENDS RunState, Sequences, Naturals

CONSTANTS
  MaxHead,       \* commits made in the worktree
  MaxRepairs,    \* MaxRepairAttempts of the task's policy
  MaxDecisions,  \* decisions Codex asks for
  MaxAttempts,   \* attempts of the run
  Faults,        \* what may go wrong in this instance
  MaxTroubles    \* how often

Base  == 0              \* the commit the worktree was made from
Heads == 1..MaxHead
NoHead == MaxHead + 1
Commit == 0..NoHead

Fault == {"crash", "call", "child", "check", "mutate", "commit", "reviewer", "foreign", "deadline"}

ASSUME LocalBounds == /\ MaxHead \in Nat \ {0} /\ MaxAttempts \in Nat \ {0}
                      /\ MaxRepairs \in Nat /\ MaxDecisions \in Nat /\ MaxTroubles \in Nat
ASSUME LocalFaults == Faults \subseteq Fault

VARIABLES
  st, cand, session, workspace,  \* runs: state, candidate_head, session, base and path set
  rows,      \* owned_resources of the run
  log,       \* transitions: heads repairs began from, artifacts of decisions accepted
  attempts,  \* attempts, in order
  batch,     \* the latest candidate verifications
  review,    \* the latest review
  fb,        \* trusted_review_feedback, by the head it was given on
  disk,      \* the run's directories and its worktree; others: which of them hold
             \* something somebody else put there
  commits,   \* commits in the worktree, the first one being number 1
  expired,   \* the time allowed for repairs is over
  ctl,       \* the handler in progress
  troubles

runVars   == <<st, cand, session, workspace>>
logVars   == <<rows, log, attempts>>
proofVars == <<batch, review, fb>>
vars == <<runVars, logVars, proofVars, disk, commits, expired, ctl, troubles>>

LocalStates == {"received", "admitting", "provisioning", "executing",
                "awaiting_human_decision", "verifying", "fresh_review", "repairing",
                "approval_ready", "failed", "manual_intervention"}
RepairStates == {"repairing", "executing", "verifying", "fresh_review"}
Resource == {"artifact_root", "branch", "worktree"}

Implementation == {"implementation", "resume"}
Outcome == {"completed", "needs_human_decision", "stopped"}
\* "incomplete": a verdict without a disposition of every finding it had to judge.
Verdict == {"pass", "findings", "failed", "incomplete"}

NoResult == "none"
Attempt  == [kind : Implementation \cup {"review"}, round : Nat,
             status : {"prepared", "started", "failed", "recovered", "succeeded"},
             result : Outcome \cup Verdict \cup {NoResult}]
\* "candidate" is the subject of the controller's commits.
CommitMetadata == [parent : 0..MaxHead, subject : {"candidate", "other"}]
NoBatch  == [head |-> NoHead, repairs |-> 0, ok |-> FALSE]
NoReview == [head |-> NoHead, repairs |-> 0, verdict |-> "failed"]
Idle == [at |-> "idle", decision |-> NoResult, k |-> 0, head |-> NoHead, result |-> NoResult]

\* "error" returns an error the worker takes for terminal, "retry" one it has
\* scheduled a later call for; the run of the first is "parked" from then on.
Step == {"idle", "parked", "loop", "error", "retry", "root", "root_reserve", "root_make", "root_write",
         "provision", "reserve_worktree", "make", "add", "set_workspace", "own_branch", "own_worktree",
         "provisioned", "execute", "recover", "recovered", "lost", "launch", "child", "save_session", "finish",
         "apply", "accept", "accepted", "verify", "precommit", "commit", "set_candidate",
         "check", "verified", "review", "review_launch", "review_child", "review_finish",
         "review_save", "judge", "bind", "handoff", "approve"}

\* The types of the stored records: what any read of them relies on.
TypeOK ==
  /\ st \in LocalStates /\ cand \in Heads \cup {NoHead}
  /\ session \in BOOLEAN /\ workspace \in BOOLEAN
  /\ rows \in [Resource -> {"none", "reserved", "owned"}]
  /\ log \in [repairs : Seq(Heads), accepted : Seq(Nat)]
  /\ attempts \in Seq(Attempt)
  /\ batch \in [head : Commit, repairs : Nat, ok : BOOLEAN]
  /\ review \in [head : Commit, repairs : Nat, verdict : Verdict]
  /\ fb \in [Heads -> [life : {"none", "selected_for_repair", "repair_verified"}, bound : Commit]]
  /\ disk \in [root : {"absent", "bare", "half", "marked"},
               tree : {"absent", "bare", "ours"}, branch : BOOLEAN, others : SUBSET {"root", "tree"},
               head : 0..MaxHead, dirt : 0..2, decisions : SUBSET Nat]
  /\ commits \in Seq(CommitMetadata)
  /\ ctl \in [at : Step, decision : {NoResult, "repair", "human"}, k : Nat, head : Commit,
              result : Outcome \cup Verdict \cup {NoResult, "reconcile"}]
  /\ expired \in BOOLEAN /\ troubles \in 0..MaxTroubles

Init ==
  /\ st = "received" /\ cand = NoHead /\ session = FALSE /\ workspace = FALSE
  /\ rows = [r \in Resource |-> "none"]
  /\ log = [repairs |-> <<>>, accepted |-> <<>>] /\ attempts = <<>>
  /\ batch = NoBatch /\ review = NoReview
  /\ fb = [h \in Heads |-> [life |-> "none", bound |-> NoHead]]
  /\ disk = [root |-> "absent", tree |-> "absent", branch |-> FALSE, others |-> {},
             head |-> Base, dirt |-> 0, decisions |-> {}]
  /\ commits = <<>> /\ expired = FALSE /\ ctl = Idle /\ troubles = 0
-----------------------------------------------------------------------------
At(step) == ctl.at = step
Go(step) == ctl' = [ctl EXCEPT !.at = step]
Return   == ctl' = Idle

Trouble(name) == name \in Faults /\ troubles < MaxTroubles /\ troubles' = troubles + 1
Reliably == UNCHANGED troubles

\* What the timeline says.
Repairing  == log.repairs # <<>>
RepairBase == log.repairs[Len(log.repairs)]
Repairs    == Len(log.repairs)
Round      == Len(log.repairs) + Len(log.accepted)
\* The commit a new candidate has to follow.
Expected   == IF Repairing THEN RepairBase ELSE Base

\* repairDeadlineExceeded: the time runs from the first repair.
Overdue == Repairing /\ expired

\* boundRepairActionContext: no call of a handler succeeds after the deadline.
Do(step) == At(step) /\ ~Overdue

\* ReconcileInterruptedRun runs outside the loop and knows no deadline.
Recovering == ctl.result = "reconcile"

KeepStore == UNCHANGED <<runVars, logVars, proofVars>>
KeepWorld == UNCHANGED <<disk, commits, expired>>
OnlyState == UNCHANGED <<cand, session, workspace, logVars, proofVars>>

\* Transition, and then the next turn of the loop.
Transition(to) ==
  /\ CanTransition(st, to) /\ st' = to /\ OnlyState
  /\ ctl' = [Idle EXCEPT !.at = "loop"]

Refuse == Go("error") /\ KeepStore /\ KeepWorld /\ Reliably

(***************************************************************************)
(* What ends a handler early.                                               *)
(***************************************************************************)
Crash ==
  /\ ctl.at \notin {"idle", "parked"} /\ Trouble("crash")
  /\ Return /\ KeepStore /\ KeepWorld

\* A call of a handler fails without effect, with an error of a retryable class
\* (ErrorUnavailable, process_start) or with any other.
CallFails ==
  /\ ctl.at \notin {"idle", "parked", "loop", "error", "retry", "child", "review_child", "precommit", "check",
                    "approve"}
  /\ Trouble("call")
  /\ IF Recovering THEN Return ELSE \E how \in {"error", "retry"} : Go(how)
  /\ KeepStore /\ KeepWorld

\* The deadline cancels the call in progress.
DeadlineCancels ==
  /\ Overdue /\ ~Recovering
  /\ ctl.at \notin {"idle", "parked", "loop", "error", "retry", "accept", "accepted", "approve"}
  /\ Refuse

\* Faulty: leaves a run whose time is over to the next call.
PolicyIgnored ==
  /\ ctl.at \in {"loop", "error", "retry"} /\ Overdue /\ st \in RepairStates
  /\ Return /\ KeepStore /\ KeepWorld /\ Reliably

\* enforceRepairDeadline, before a handler and after one that failed.
PolicyStops ==
  /\ ctl.at \in {"loop", "error", "retry"} /\ Overdue /\ st \in RepairStates
  /\ st' = "manual_intervention" /\ OnlyState
  /\ Return /\ KeepWorld /\ Reliably

\* ClassifyAutomaticRetryFailure: an error of no retryable class ends the run's
\* automatic calls; one of an operator's command is only reported to him.
ReturnError ==
  /\ ctl.at \in {"error", "retry"} /\ ~(Overdue /\ st \in RepairStates)
  /\ IF At("retry") \/ ctl.decision = "human" THEN Return ELSE ctl' = [Idle EXCEPT !.at = "parked"]
  /\ KeepStore /\ KeepWorld /\ Reliably

FrameStep == DeadlineCancels \/ PolicyStops \/ ReturnError

DeadlinePasses ==
  /\ "deadline" \in Faults /\ Repairing /\ ~expired
  /\ expired' = TRUE
  /\ KeepStore /\ UNCHANGED <<disk, commits, ctl, troubles>>
=============================================================================
