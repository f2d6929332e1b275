----------------------------- MODULE Supervisor -----------------------------
(***************************************************************************)
(* The automatic worker process driving runs over the scheduling store:     *)
(*   - the bounded worker and its dispatch goroutines                       *)
(*     (cmd/agentctl/admission_worker.go),                                  *)
(*   - LinearTodoDispatcher.Dispatch (application/linear_todo_dispatch.go), *)
(*   - ProductionDriver.Drive (application/driver.go),                      *)
(*   - CommandService.enterHeavyWork and the LocalController that launches  *)
(*     Codex children (application/services.go, local_controller.go),       *)
(*   - the operator's abandon and resume commands, which run in processes   *)
(*     of their own, and crashes and restarts of the worker process.        *)
(* A goroutine step is one store transaction or one child-process event.    *)
(***************************************************************************)
EXTENDS Scheduling

CONSTANTS
  Workers,    \* dispatch goroutines: automaticWorkerCapacity is one more
              \*   than the heavy capacity
  MaxEpoch,   \* bound on starts of the worker process
  Operator,   \* lease owner of the operator's command
  Faults      \* what the environment may do: "crash", "error" (a drive fails),
              \*   "unproven" (a group's exit cannot be proven), "abandon",
              \*   "resume" (the operator's commands)

ASSUME WorkersAssumption  == IsFiniteSet(Workers) /\ Cardinality(Workers) = MaxCapacity + 1
ASSUME FaultsAssumption   == Faults \subseteq {"crash", "error", "unproven", "abandon", "resume"}
ASSUME EpochAssumption    == MaxEpoch \in Nat
ASSUME OperatorAssumption == Operator \in Nat \ (0..MaxEpoch)

VARIABLES
  child,    \* child[r]: live managed process groups launched for r
  retry,    \* retry[r]: r's automatic retry schedule: "none", "scheduled", "due"
            \*   (runnable_since is deferred to its NextEligibleAt), "attention"
  proc,     \* owner nonce of the running worker process, 0 when down
  epoch,    \* worker processes started so far
  wk,       \* wk[w]: the dispatch goroutine w
  batch,    \* "fill": dispatches may start; "drain": one has returned, its
            \*   siblings have not (maintenancePending); "exit": the same after
            \*   an error, and the process ends with the last sibling
  op        \* the operator's abandon command

supVars == <<child, retry, proc, epoch, wk, batch, op>>
vars    == <<storeVars, supVars>>

\* pc: the position in Dispatch and, below it, Drive, from "idle" to "done";
\* run: the run being dispatched; heavy: the state Dispatch read needed heavy
\* work; dp, lp: versions of the permits Dispatch and Drive remember (0: none);
\* back: where recovery resumes; out: how the drive ended; seen: the phase of
\* the run the drive read last, which may be stale when it is used; via: the
\* run was admitted, resumed, or resumed under a retry schedule; adm: holds
\* the admission lease (a dispatch that finds runs claimed works without it).
IdleWorker == [pc |-> "idle", run |-> NoRun, heavy |-> FALSE, dp |-> 0, lp |-> 0,
               back |-> "check", out |-> "driven", seen |-> "heavy",
               via |-> "resume", adm |-> FALSE]
DoneWorker == [IdleWorker EXCEPT !.pc = "done"]
-----------------------------------------------------------------------------
At(w, pc)  == wk[w].pc = pc
RunOf(w)   == wk[w].run
Goto(w, pc) == wk' = [wk EXCEPT ![w].pc = pc]
Done(w)    == wk' = [wk EXCEPT ![w] = DoneWorker]
\* The dispatch returns an error, or, under the admission lease, an attention.
Fatal(w)   == wk' = [wk EXCEPT ![w] = [DoneWorker EXCEPT !.out = "error"]]
Abort(w)   == IF wk[w].adm THEN Done(w) ELSE Fatal(w)
Fail(w, pc) == wk' = [wk EXCEPT ![w].pc = pc, ![w].out = "error"]

KeepStore == UNCHANGED storeVars
KeepProcess == UNCHANGED <<child, proc, epoch, batch, op>>
KeepRest  == KeepProcess /\ UNCHANGED retry

\* A retry schedule is keyed by the run's state: after a transition the run is
\* under the schedule of its new state, which may be a leftover.
Rekey(r) ==
  \E s \in IF "error" \in Faults THEN {"none", "scheduled", "attention"} ELSE {"none"} :
    retry' = [retry EXCEPT ![r] = s]

\* activeRuns of the dispatcher: claims live from claimRun to the return.
Claimed(r) == \E w \in Workers : wk[w].run = r /\ wk[w].pc # "claim"

(***************************************************************************)
(* The bounded worker: fill starts a whole batch of dispatches; once one    *)
(* has returned, nothing is started until every sibling has returned, and   *)
(* after an error the process ends then.                                    *)
(***************************************************************************)
Idle == {w \in Workers : At(w, "idle")}

Fill ==
  /\ proc # 0 /\ batch = "fill"
  /\ \A w \in Workers : ~At(w, "done")
  /\ \E S \in SUBSET Idle :
       /\ S # {} /\ Cardinality(Workers \ Idle) + Cardinality(S) = capacity + 1
       /\ wk' = [w \in Workers |-> IF w \in S THEN [IdleWorker EXCEPT !.pc = "scan"]
                                              ELSE wk[w]]
  /\ KeepStore /\ KeepRest

Collect(w) ==
  LET last == \A v \in Workers \ {w} : At(v, "idle")
      exit == batch = "exit" \/ wk[w].out = "error" IN
  /\ At(w, "done")
  /\ wk' = [wk EXCEPT ![w] = IdleWorker]
  /\ batch' = CASE last -> "fill" [] ~last /\ exit -> "exit" [] OTHER -> "drain"
  /\ proc' = IF last /\ exit THEN 0 ELSE proc
  /\ KeepStore /\ UNCHANGED <<child, retry, epoch, op>>

(***************************************************************************)
(* Dispatch: reconcile, select an existing run or admit a new one.          *)
(***************************************************************************)
Selectable(r) ==
  /\ Active(r) /\ ~Claimed(r)
  /\ ReconciledRow(r).since <= now
  /\ ReconciledRow(r).sup \in {"waiting", "running", "external_wait"}

QuarantineSeen == \E r \in Runs : Active(r) /\ ~Claimed(r) /\ ReconciledRow(r).quar

NextScheduledRun(r) ==
  /\ ~QuarantineSeen
  /\ Selectable(r)
  /\ \A q \in Runs \ {r} : Selectable(q) =>
       \/ ReconciledRow(r).since < ReconciledRow(q).since
       \/ ReconciledRow(r).since = ReconciledRow(q).since /\ r < q

\* Runs claimed by siblings are worked around without the admission lease.
LeaseFreePath == \E r \in Runs : Claimed(r)
AdmissionBusy == \E v \in Workers : wk[v].adm

ScanPick(w) ==
  /\ At(w, "scan")
  /\ LeaseFreePath \/ ~AdmissionBusy
  /\ ReconcileSchedulingAuthorities
  /\ \E r \in Runs :
        /\ NextScheduledRun(r)
        /\ wk' = [wk EXCEPT ![w].pc = "claim", ![w].run = r, ![w].heavy = Heavy(r),
                            ![w].adm = ~LeaseFreePath]
  /\ KeepRest

\* Capacity and the admission gate are read after the reconciliation.
ScanNone(w) ==
  /\ At(w, "scan")
  /\ ReconcileSchedulingAuthorities
  /\ \A r \in Runs : ~NextScheduledRun(r)
  /\ \/ Done(w)
     \/ /\ ~QuarantineSeen /\ ~AdmissionBusy
        /\ wk' = [wk EXCEPT ![w].pc = "admit", ![w].adm = TRUE]
  /\ KeepRest

ScanBusy(w) ==
  /\ At(w, "scan") /\ ~LeaseFreePath /\ AdmissionBusy
  /\ Done(w)
  /\ KeepStore /\ KeepRest

ScanConflict(w) ==
  /\ At(w, "scan") /\ ReconcileConflict
  /\ IF LeaseFreePath THEN Fatal(w) ELSE Done(w)
  /\ KeepStore /\ KeepRest

\* A lost claim ends the dispatch, or sends it on to admission.
Claim(w) ==
  /\ At(w, "claim")
  /\ \/ ~Claimed(RunOf(w)) /\ Goto(w, "prepare")
     \/ /\ Claimed(RunOf(w))
        /\ \/ Done(w)
           \/ /\ ~wk[w].adm /\ ~AdmissionBusy
              /\ wk' = [wk EXCEPT ![w] = [IdleWorker EXCEPT !.pc = "admit", !.adm = TRUE]]
  /\ KeepStore /\ KeepRest

\* ReserveLinearTodoAdmission, then command.Start under the reserved permit.
Admit(w) ==
  /\ At(w, "admit")
  /\ \E r \in Runs :
        /\ ~Claimed(r)
        /\ ReserveRun(r, proc)
        /\ wk' = [wk EXCEPT ![w].pc = "enter", ![w].run = r, ![w].heavy = TRUE,
                            ![w].via = "admit", ![w].adm = FALSE, ![w].dp = permit'[r].ver]
  /\ KeepRest

NoCandidate(w) == At(w, "admit") /\ Done(w) /\ KeepStore /\ KeepRest

(***************************************************************************)
(* prepareRunPermit: a permit this process obtains is used only after       *)
(* ReconcileInterruptedRun has stopped what an earlier process launched.    *)
(***************************************************************************)
PrepareLight(w) ==
  /\ At(w, "prepare") /\ ~wk[w].heavy
  /\ Goto(w, "check")
  /\ KeepStore /\ KeepRest

PrepareHeld(w) ==
  /\ At(w, "prepare") /\ wk[w].heavy
  /\ AcquireHeld(RunOf(w), proc)
  /\ wk' = [wk EXCEPT ![w].pc = "recover", ![w].back = "check",
                      ![w].dp = permit'[RunOf(w)].ver]
  /\ KeepRest

\* Faulty: drives a run whose interrupted attempt was reported, unrecovered.
PrepareUnrecovered(w) ==
  /\ At(w, "prepare") /\ wk[w].heavy
  /\ NeedsReconciliation(RunOf(w), proc)
  /\ Goto(w, "check")
  /\ KeepStore /\ KeepRest

PrepareRecover(w) ==
  /\ At(w, "prepare") /\ wk[w].heavy
  /\ NeedsReconciliation(RunOf(w), proc)
  /\ wk' = [wk EXCEPT ![w].pc = "recover", ![w].back = "reacquire"]
  /\ KeepStore /\ KeepRest

Reacquire(w) ==
  /\ At(w, "reacquire")
  /\ AcquireHeld(RunOf(w), proc)
  /\ wk' = [wk EXCEPT ![w].pc = "check", ![w].dp = permit'[RunOf(w)].ver]
  /\ KeepRest

PrepareWaits(w) ==
  /\ At(w, "prepare") \/ At(w, "reacquire")
  /\ wk[w].heavy /\ NotHeld(RunOf(w), proc)
  /\ Done(w)
  /\ KeepStore /\ KeepRest

(***************************************************************************)
(* ReconcileInterruptedRun.  Drive, enterHeavyWork and execute have a       *)
(* recovery of their own for an interrupted attempt they meet;              *)
(* RecoveryBeforeDrive says that under the worker they meet none.           *)
(***************************************************************************)
RecoverLease(w) ==
  /\ At(w, "recover")
  /\ AcquireLease(RunOf(w), proc)
  /\ Goto(w, "stop")
  /\ KeepRest

RecoverRefused(w) ==
  /\ At(w, "recover") /\ ~LeaseFree(RunOf(w))
  /\ Abort(w)
  /\ KeepStore /\ KeepRest

StopNothing(w) ==
  /\ At(w, "stop") /\ ~Started(RunOf(w))
  /\ ReleaseLease(RunOf(w), proc)
  /\ Goto(w, wk[w].back)
  /\ KeepRest

\* Faulty: takes the interrupted child for stopped.
StopAttemptUnstopped(w) ==
  /\ At(w, "stop") /\ Started(RunOf(w))
  /\ Goto(w, "finish")
  /\ KeepStore /\ KeepRest

StopAttempt(w) ==
  /\ At(w, "stop") /\ Started(RunOf(w))
  /\ child' = [child EXCEPT ![RunOf(w)] = 0]
  /\ Goto(w, "finish")
  /\ KeepStore /\ UNCHANGED <<retry, proc, epoch, batch, op>>

StopFails(w) ==
  /\ "unproven" \in Faults
  /\ At(w, "stop") /\ Started(RunOf(w))
  /\ ReleaseLease(RunOf(w), proc)
  /\ Abort(w)
  /\ KeepRest

FinishStopped(w) ==
  /\ At(w, "finish")
  /\ attempt' = [attempt EXCEPT ![RunOf(w)] = "none"]
  /\ lease' = ReleasedLease(RunOf(w), proc)
  /\ Goto(w, wk[w].back)
  /\ UNCHANGED <<phase, attn, slot, permit, sched, capacity, now>> /\ KeepRest

\* persistMissingSessionIntervention
FinishMissingSession(w) ==
  /\ At(w, "finish") /\ Heavy(RunOf(w))
  /\ attempt' = [attempt EXCEPT ![RunOf(w)] = "none"]
  /\ SetPhase(RunOf(w), "human")
  /\ lease' = ReleasedLease(RunOf(w), proc)
  /\ Abort(w)
  /\ Rekey(RunOf(w)) /\ KeepProcess

(***************************************************************************)
(* The persisted retry schedule is consulted before driving.                *)
(***************************************************************************)
RetryAttention(w) ==
  /\ At(w, "check") /\ retry[RunOf(w)] = "attention"
  /\ ReleaseHeavyPermit(RunOf(w), proc, wk[w].dp, "retry_delay")
  /\ Done(w)
  /\ KeepRest

RetryNotEligible(w) ==
  /\ At(w, "check") /\ retry[RunOf(w)] = "scheduled"
  /\ ReleaseHeavyPermit(RunOf(w), proc, wk[w].dp, "retry_delay")
  /\ Goto(w, "postpone")
  /\ KeepRest

\* A refused deferral is an error.
Deferral(w) ==
  \/ DeferSchedulingRun(RunOf(w), now + 1) /\ Done(w)
  \/ ~Deferrable(RunOf(w)) /\ KeepStore /\ Fatal(w)

DeferRetryRun(w) ==
  /\ At(w, "postpone")
  /\ Deferral(w)
  /\ retry' = [retry EXCEPT ![RunOf(w)] = IF Deferrable(RunOf(w)) THEN "due" ELSE @]
  /\ KeepProcess

\* resume, or driveDirect on the lease-free path: the admission lease is
\* released before the drive.  A run still in received is started first.
Resume(w) ==
  LET r == RunOf(w) IN
  /\ At(w, "check") /\ retry[r] # "attention"
  /\ \E pc \in IF wk[w].heavy /\ wk[w].adm THEN {"drive", "enter"} ELSE {"drive"} :
       wk' = [wk EXCEPT ![w].pc = pc, ![w].adm = FALSE,
                        ![w].via = IF retry[r] = "none" THEN "resume" ELSE "retry"]
  /\ KeepStore /\ KeepRest
-----------------------------------------------------------------------------
(***************************************************************************)
(* Drive: one iteration reads the run, settles the permit, then acts.       *)
(* When the permit is not held the iteration only waits and polls again.    *)
(***************************************************************************)
DriveAcquire(w) ==
  /\ At(w, "drive") /\ wk[w].lp = 0
  /\ AcquireHeld(RunOf(w), proc)
  /\ wk' = [wk EXCEPT ![w].pc = "enter", ![w].lp = permit'[RunOf(w)].ver]
  /\ KeepRest

DriveHeld(w) ==
  /\ At(w, "drive") /\ Heavy(RunOf(w)) /\ wk[w].lp # 0
  /\ Goto(w, "enter")
  /\ KeepStore /\ KeepRest

PermitReleaseReason(p) == CASE p = "terminal" -> "terminal"
                            [] p = "human"    -> "manual_intervention"
                            [] OTHER          -> "external_wait"

DriveRelease(w) ==
  LET r == RunOf(w) IN
  /\ At(w, "drive") /\ ~Heavy(r)
  /\ ReleaseHeavyPermit(r, proc, wk[w].lp, PermitReleaseReason(phase[r]))
  /\ wk' = [wk EXCEPT ![w].pc = "act", ![w].seen = phase[r],
                      ![w].lp = IF Releases(r, proc, @) THEN 0 ELSE @]
  /\ KeepRest

\* stop: attention for the state the drive read; an event for a state the run
\* has left since changes nothing that is scheduled on.
ActStop(w) ==
  /\ At(w, "act") /\ wk[w].seen \in {"human", "terminal"}
  /\ \/ wk[w].seen = "human" /\ AppendOperatorAttention(RunOf(w))
     \/ ~(wk[w].seen = "human" /\ phase[RunOf(w)] = "human") /\ KeepStore
  /\ wk' = [wk EXCEPT ![w].pc = "exit", ![w].out = "driven"]
  /\ KeepRest

ActExternal(w) ==
  /\ At(w, "act") /\ wk[w].seen = "external" /\ phase[RunOf(w)] = "external"
  /\ \E q \in Phase : Transition(RunOf(w), q)
  /\ Goto(w, "drive")
  /\ Rekey(RunOf(w)) /\ KeepProcess

\* The action made no progress: the run is read again and Drive returns.
ActWait(w) ==
  LET r == RunOf(w) IN
  /\ At(w, "act") /\ wk[w].seen = "external"
  /\ IF Heavy(r) THEN KeepStore
                 ELSE ReleaseHeavyPermit(r, proc, wk[w].lp, PermitReleaseReason(phase[r]))
  /\ wk' = [wk EXCEPT ![w].pc = "exit", ![w].seen = phase[r]]
  /\ KeepRest

\* After an error Drive returns it, or, at a human or terminal state and for an
\* error that is not retryable, durableStop stops instead.
AfterError(w) ==
  \/ wk' = [wk EXCEPT ![w].pc = "exit", ![w].out = "error"]
  \/ /\ phase[RunOf(w)] \in {"human", "terminal"}
     /\ wk' = [wk EXCEPT ![w].pc = "act", ![w].seen = phase[RunOf(w)]]

ActFails(w) ==
  /\ "error" \in Faults
  /\ At(w, "act") /\ wk[w].seen = "external"
  /\ AfterError(w)
  /\ KeepStore /\ KeepRest

(***************************************************************************)
(* enterHeavyWork, then continueExpected under a run lease of its own.      *)
(***************************************************************************)
EnterHeld(w) ==
  /\ At(w, "enter")
  /\ ~sched[RunOf(w)].quar
  /\ AcquireHeld(RunOf(w), proc)
  /\ Goto(w, "leasing")
  /\ KeepRest

EnterRefused(w) ==
  /\ At(w, "enter")
  /\ NotHeld(RunOf(w), proc) \/ sched[RunOf(w)].quar
  /\ Fail(w, "exit")
  /\ KeepStore /\ KeepRest

\* startAndDrive before command.Start: the Linear mutation fails, or a journal
\* or lease conflict ends in an attention that keeps the permit.
StartFails(w) ==
  /\ "error" \in Faults
  /\ At(w, "enter") /\ wk[w].lp = 0
  /\ Fail(w, "exit") \/ Goto(w, "settle")
  /\ KeepStore /\ KeepRest

Leasing(w) ==
  /\ At(w, "leasing") /\ Heavy(RunOf(w))
  /\ AcquireLease(RunOf(w), proc)
  /\ Goto(w, "local")
  /\ KeepRest

LeasingRefused(w) ==
  /\ At(w, "leasing") /\ (~LeaseFree(RunOf(w)) \/ ~Heavy(RunOf(w)))
  /\ Fail(w, "exit")
  /\ KeepStore /\ KeepRest

(***************************************************************************)
(* The local controller: an attempt is prepared, its launch committed, the  *)
(* child spawned, and the attempt finished after the child's exit.          *)
(***************************************************************************)
LocalBegin(w) ==
  /\ At(w, "local")
  /\ BeginAttempt(RunOf(w))
  /\ Goto(w, "launch")
  /\ KeepRest

LocalTransition(w) ==
  /\ At(w, "local") /\ ~Started(RunOf(w))
  /\ \E q \in Phase : Transition(RunOf(w), q)
                      /\ Goto(w, IF q = "heavy" THEN "local" ELSE "leave")
  /\ Rekey(RunOf(w)) /\ KeepProcess

\* The approval evidence of a run that reached approval_ready does not hold.
ApprovalInvalidated(w) ==
  /\ At(w, "leave") /\ wk[w].out = "driven" /\ phase[RunOf(w)] = "external"
  /\ Transition(RunOf(w), "terminal")
  /\ Goto(w, "leave")
  /\ KeepRest

\* Returns at a repairing or fresh_review handoff without leaving heavy work.
LocalReturn(w) ==
  /\ At(w, "local") /\ ~Started(RunOf(w))
  /\ Goto(w, "leave")
  /\ KeepStore /\ KeepRest

\* An error, or the refusal to work beside a group whose exit is unproven.
LocalFails(w) ==
  /\ At(w, "local")
  /\ "error" \in Faults \/ attempt[RunOf(w)] = "unproven"
  /\ Fail(w, "leave")
  /\ KeepStore /\ KeepRest

Launch(w) ==
  /\ At(w, "launch")
  /\ CommitAttemptProcessLaunch(RunOf(w))
  /\ Goto(w, "spawn")
  /\ KeepRest

Spawn(w) ==
  /\ At(w, "spawn")
  /\ child' = [child EXCEPT ![RunOf(w)] = @ + 1]
  /\ Goto(w, "running")
  /\ KeepStore /\ UNCHANGED <<retry, proc, epoch, batch, op>>

\* failAttempt before or after the launch, with nothing running.
LaunchFails(w) ==
  /\ "error" \in Faults
  /\ At(w, "launch") \/ At(w, "spawn")
  /\ FinishAttempt(RunOf(w))
  /\ Fail(w, "leave")
  /\ KeepRest

Reap(w) ==
  /\ At(w, "running") /\ child[RunOf(w)] = 0
  /\ FinishAttempt(RunOf(w))
  /\ Goto(w, "local")
  /\ KeepRest

\* The context is cancelled or times out and the group's exit is proven.
Kill(w) ==
  /\ "error" \in Faults
  /\ At(w, "running")
  /\ child' = [child EXCEPT ![RunOf(w)] = 0]
  /\ FinishAttempt(RunOf(w))
  /\ Fail(w, "leave")
  /\ UNCHANGED <<retry, proc, epoch, batch, op>>

KillUnproven(w) ==
  /\ "unproven" \in Faults
  /\ At(w, "running")
  /\ FinishUnproven(RunOf(w))
  /\ Fail(w, "leave")
  /\ KeepRest

\* enforceRepairDeadline on the error path, still under the lease.
RepairDeadline(w) ==
  /\ At(w, "leave") /\ wk[w].out = "error" /\ Heavy(RunOf(w))
  /\ Transition(RunOf(w), "human")
  /\ Goto(w, "leave")
  /\ Rekey(RunOf(w)) /\ KeepProcess

Leave(w) ==
  /\ At(w, "leave")
  /\ ReleaseLease(RunOf(w), proc)
  /\ IF wk[w].out = "error" THEN AfterError(w) ELSE Goto(w, "drive")
  /\ KeepRest
-----------------------------------------------------------------------------
(***************************************************************************)
(* Drive's deferred release, then Dispatch settles the outcome.             *)
(***************************************************************************)
DriveExit(w) ==
  /\ At(w, "exit")
  /\ ReleaseHeavyPermit(RunOf(w), proc, wk[w].lp, "shutdown_after_process_exit")
  /\ wk' = [wk EXCEPT ![w].pc = "settle", ![w].lp = 0]
  /\ KeepRest

\* A reservation whose start or drive failed gives its permit up first.
ReleaseReserved(w) ==
  /\ At(w, "settle") /\ wk[w].out = "error" /\ wk[w].via = "admit" /\ wk[w].dp # 0
  /\ ReleaseHeavyPermit(RunOf(w), proc, wk[w].dp, "shutdown_after_process_exit")
  /\ wk' = [wk EXCEPT ![w].dp = 0]
  /\ KeepRest

\* A scheduled run failed in another state than it was dispatched in: its
\* schedule ends in attention, or, without the admission lease, the failure
\* conflicts with it, which is an error.  Neither releases the permit.
FailureElsewhere(w) ==
  /\ At(w, "settle") /\ wk[w].out = "error" /\ wk[w].via = "retry"
  /\ Done(w) \/ Fatal(w)
  /\ KeepStore /\ KeepRest

\* handleRunFailure: attention at a human stop, nothing at a completed run or
\* while a human approval is awaited, else a retry or its exhaustion.
RunFailure(w) ==
  LET r == RunOf(w) IN
  /\ At(w, "settle") /\ wk[w].out = "error"
  /\ wk[w].via = "admit" => wk[w].dp = 0
  /\ \/ /\ AppendOperatorAttention(r)
        /\ wk' = [wk EXCEPT ![w].out = "driven", ![w].seen = "human"]
        /\ UNCHANGED retry
     \/ /\ phase[r] \in {"heavy", "external"}
        /\ \E s \in {"scheduled", "attention"} : retry' = [retry EXCEPT ![r] = s]
        /\ wk' = [wk EXCEPT ![w].out = "retry"]
        /\ KeepStore
     \/ /\ phase[r] = "external"
        /\ wk' = [wk EXCEPT ![w].out = "waiting"]
        /\ KeepStore /\ UNCHANGED retry
     \/ /\ phase[r] = "terminal"
        /\ wk' = [wk EXCEPT ![w].out = "driven", ![w].seen = "terminal"]
        /\ KeepStore /\ UNCHANGED retry
  /\ KeepProcess

SettleRetry(w) ==
  /\ At(w, "settle") /\ wk[w].out = "retry"
  /\ ReleaseHeavyPermit(RunOf(w), proc, wk[w].dp, "retry_delay")
  /\ Done(w)
  /\ KeepRest

SettleWaiting(w) ==
  /\ At(w, "settle") /\ wk[w].out = "waiting"
  /\ ReleaseHeavyPermit(RunOf(w), proc, wk[w].dp, "human_wait")
  /\ Done(w)
  /\ KeepRest

\* releaseRunPermit: awaiting_human_approval parks as a human wait.
SettleReasons(p) == IF p = "external" THEN {"external_wait", "human_wait"}
                                      ELSE {PermitReleaseReason(p)}

\* ClearRetrySchedule removes the schedule the dispatch found, which is the
\* run's current one unless the run has changed its state.
SettleDriven(w) ==
  LET r == RunOf(w) IN
  /\ At(w, "settle") /\ wk[w].out = "driven"
  /\ IF wk[w].seen = "heavy"
       THEN KeepStore
       ELSE \E reason \in SettleReasons(wk[w].seen) :
              ReleaseHeavyPermit(r, proc, wk[w].dp, reason)
  /\ \/ UNCHANGED retry
     \/ wk[w].via = "retry" /\ retry' = [retry EXCEPT ![r] = "none"]
  /\ IF wk[w].seen = "external" THEN Goto(w, "defer") ELSE Done(w)
  /\ KeepProcess

DeferExternalRun(w) ==
  /\ At(w, "defer")
  /\ Deferral(w)
  /\ KeepRest
-----------------------------------------------------------------------------
(***************************************************************************)
(* The process, the operator and the environment.                           *)
(***************************************************************************)
Crash ==
  /\ "crash" \in Faults
  /\ proc # 0 /\ epoch < MaxEpoch
  /\ proc' = 0
  /\ wk' = [w \in Workers |-> IdleWorker]
  /\ batch' = "fill"
  /\ KeepStore /\ UNCHANGED <<child, retry, epoch, op>>

\* The process lock admits one process; configureSchedulingAuthorities runs
\* before the first dispatch, and a reconciliation conflict ends the process.
Start(c) ==
  /\ proc = 0 /\ epoch < MaxEpoch
  /\ epoch' = epoch + 1
  /\ ~ReconcileConflict
  /\ proc' = epoch + 1
  /\ capacity' = c
  /\ slot' = [b \in Bindings |-> ReconciledSlot(b)]
  /\ permit' = [r \in Runs |-> ReconciledPermit(r)]
  /\ sched' = [r \in Runs |-> ReconciledRow(r)]
  /\ UNCHANGED <<phase, attn, lease, attempt, now>>
  /\ UNCHANGED <<child, retry, wk, batch, op>>

AbandonLease(r) ==
  /\ "abandon" \in Faults
  /\ op.pc = "idle" /\ Active(r)
  /\ AcquireLease(r, Operator)
  /\ op' = [pc |-> "stop", run |-> r, from |-> phase[r]]
  /\ UNCHANGED <<child, retry, proc, epoch, wk, batch>>

\* StopAttempt for the started attempts the command read under its lease, then
\* StopAutomaticAdmissionAttempts.
AbandonStop ==
  /\ op.pc = "stop"
  /\ child' = IF Started(op.run) THEN [child EXCEPT ![op.run] = 0] ELSE child
  /\ attempt' = [attempt EXCEPT ![op.run] = "none"]
  /\ op' = [op EXCEPT !.pc = "commit"]
  /\ UNCHANGED <<phase, attn, lease, slot, permit, sched, capacity, now>>
  /\ UNCHANGED <<retry, proc, epoch, wk, batch>>

\* childStopErr: resource cleanup is skipped, termination is not.
AbandonStopFails ==
  /\ "unproven" \in Faults
  /\ op.pc = "stop" /\ Started(op.run)
  /\ op' = [op EXCEPT !.pc = "commit"]
  /\ KeepStore /\ UNCHANGED <<child, retry, proc, epoch, wk, batch>>

IdleCommand == [pc |-> "idle", run |-> NoRun, from |-> "absent"]

\* AbandonAutomaticAdmission compares the state the command was given.
AbandonCommit ==
  /\ op.pc = "commit" /\ phase[op.run] = op.from
  /\ SetPhase(op.run, "terminal")
  /\ lease' = ReleasedLease(op.run, Operator)
  /\ op' = IdleCommand
  /\ UNCHANGED attempt
  /\ UNCHANGED <<child, retry, proc, epoch, wk, batch>>

\* A conflict ends the command; its process may also die and leave the lease.
AbandonEnds ==
  /\ op.pc # "idle"
  /\ \/ ReleaseLease(op.run, Operator)
     \/ "crash" \in Faults /\ KeepStore
  /\ op' = IdleCommand
  /\ UNCHANGED <<child, retry, proc, epoch, wk, batch>>

\* A decision resumes heavy work from a process that holds the process lock;
\* owned-push recovery and external-merge acceptance need only the lease.
OperatorResumes(r, q) ==
  /\ "resume" \in Faults
  /\ phase[r] = "human" /\ q # "terminal"
  /\ LeaseFree(r)
  /\ q = "heavy" => proc = 0
  /\ Transition(r, q)
  /\ Rekey(r)
  /\ UNCHANGED <<child, proc, epoch, wk, batch, op>>

ChildExits(r) ==
  /\ child[r] > 0
  /\ child' = [child EXCEPT ![r] = @ - 1]
  /\ KeepStore /\ UNCHANGED <<retry, proc, epoch, wk, batch, op>>

\* Leases of live holders are renewed every third of their TTL.
Renewed(r) == \/ lease[r].by = proc /\ proc # 0
              \/ lease[r].by = Operator /\ op.run = r

TickRenewing ==
  /\ now < MaxTime
  /\ now' = now + 1
  /\ lease' = [r \in Runs |-> IF Renewed(r) THEN [lease[r] EXCEPT !.exp = now + 1 + LeaseTTL]
                                            ELSE lease[r]]
  /\ UNCHANGED <<phase, attn, attempt, slot, permit, sched, capacity>>
  /\ UNCHANGED supVars
-----------------------------------------------------------------------------
Init ==
  /\ StoreInit
  /\ child = [r \in Runs |-> 0]
  /\ retry = [r \in Runs |-> "none"]
  /\ proc = 0 /\ epoch = 0
  /\ wk = [w \in Workers |-> IdleWorker]
  /\ batch = "fill"
  /\ op = IdleCommand

DispatchStep(w) ==
  \/ ScanPick(w) \/ ScanNone(w) \/ ScanBusy(w) \/ ScanConflict(w) \/ Claim(w)
  \/ Admit(w) \/ NoCandidate(w)
  \/ PrepareLight(w) \/ PrepareHeld(w) \/ PrepareRecover(w)
  \/ Reacquire(w) \/ PrepareWaits(w)
  \/ RecoverLease(w) \/ RecoverRefused(w) \/ StopNothing(w) \/ StopAttempt(w)
  \/ StopFails(w) \/ FinishStopped(w) \/ FinishMissingSession(w)
  \/ RetryAttention(w) \/ RetryNotEligible(w) \/ DeferRetryRun(w) \/ Resume(w)
  \/ ReleaseReserved(w) \/ FailureElsewhere(w) \/ RunFailure(w) \/ SettleRetry(w) \/ SettleWaiting(w)
  \/ SettleDriven(w) \/ DeferExternalRun(w)
  \/ Collect(w)

DriveStep(w) ==
  \/ DriveAcquire(w) \/ DriveHeld(w)
  \/ DriveRelease(w) \/ ActStop(w) \/ ActExternal(w) \/ ActWait(w) \/ ActFails(w)
  \/ DriveExit(w)

LocalStep(w) ==
  \/ EnterHeld(w) \/ EnterRefused(w) \/ StartFails(w) \/ ApprovalInvalidated(w)
  \/ Leasing(w) \/ LeasingRefused(w)
  \/ LocalBegin(w) \/ LocalTransition(w) \/ LocalReturn(w)
  \/ LocalFails(w) \/ Launch(w) \/ Spawn(w) \/ LaunchFails(w) \/ Reap(w)
  \/ Kill(w) \/ KillUnproven(w) \/ RepairDeadline(w) \/ Leave(w)

WorkerStep(w) == DispatchStep(w) \/ DriveStep(w) \/ LocalStep(w)

Abandon == \/ \E r \in Runs : AbandonLease(r)
           \/ AbandonStop \/ AbandonStopFails \/ AbandonCommit \/ AbandonEnds

Next ==
  \/ Fill
  \/ \E w \in Workers : WorkerStep(w)
  \/ Crash
  \/ \E c \in 1..MaxCapacity : Start(c)
  \/ Abandon
  \/ \E r \in Runs, q \in Phase : OperatorResumes(r, q)
  \/ \E r \in Runs : ChildExits(r)
  \/ TickRenewing

Spec == Init /\ [][Next]_vars

(***************************************************************************)
(* Goroutines, the worker's loop, children and the clock keep running, and  *)
(* a stopped worker process is started again.  External delivery steps end  *)
(* in a wait sooner or later (there are finitely many without new GitHub or *)
(* human input), and repair policy bounds a stretch of heavy work.          *)
(***************************************************************************)
LeavesHeavyWork(w) == LocalTransition(w) /\ wk'[w].pc = "leave"

Fairness ==
  /\ WF_vars(Fill)
  /\ WF_vars(TickRenewing)
  /\ WF_vars(\E c \in 1..MaxCapacity : Start(c))
  /\ \A r \in Runs : WF_vars(ChildExits(r))
  /\ \A w \in Workers : /\ WF_vars(WorkerStep(w))
                         /\ SF_vars(ActWait(w))
                         /\ SF_vars(LeavesHeavyWork(w))

FairSpec == Spec /\ Fairness
-----------------------------------------------------------------------------
(***************************************************************************)
(* What the store and the process protocol guarantee together.              *)
(***************************************************************************)

\* While a managed child of a nonterminal run is alive, the run holds a heavy
\* permit: no release, adoption, reconciliation, restart or lease expiry takes
\* the permit away before the child's stop is proven.
ChildCovered == \A r \in Runs : child[r] > 0 /\ Active(r) => HasPermit(r)

\* At most one managed child of a run is alive: a restarted worker, a retry or
\* a resumed session launches the next child only after the last one stopped.
SingleChild == \A r \in Runs : child[r] <= 1

\* A goroutine that has prepared or launched a child holds the run's lease and
\* the run's permit under its own process, and no sibling is dispatching the
\* run: neither a sibling's reconciliation, an adoption, an operator's command
\* nor the terminal trigger takes that authority away under it.
LaunchAuthority ==
  \A w \in Workers : wk[w].pc \in {"launch", "spawn", "running"} =>
    /\ permit[RunOf(w)].owner = proc
    /\ lease[RunOf(w)].by = proc /\ LeaseLive(RunOf(w))
    /\ \A v \in Workers \ {w} : RunOf(v) = RunOf(w) => At(v, "claim")

\* When Drive, enterHeavyWork or the local controller takes up a run's heavy
\* work, prepareRunPermit has already dealt with whatever an interrupted
\* process left running: execute never settles a started attempt whose child it
\* has not stopped, and where a sibling's kill has left an attempt unproven, the
\* permit is this process's, so no acquisition below asks for a reconciliation.
RecoveryBeforeDrive ==
  \A w \in Workers :
    wk[w].pc \in {"drive", "enter", "leasing", "local"} =>
      /\ attempt[RunOf(w)] # "started"
      /\ Started(RunOf(w)) /\ Active(RunOf(w)) => permit[RunOf(w)].owner = proc

HeavyWorkContract ==
  INSTANCE HeavyWork WITH
    Repositories <- Bindings, Tasks <- Runs, RepositoryOf <- BindingOf, Nobody <- NoRun,
    holder  <- [b \in Bindings |->
                  IF \E r \in Permitted : BindingOf[r] = b
                    THEN CHOOSE r \in Permitted : BindingOf[r] = b ELSE NoRun],
    running <- {r \in Runs : child[r] > 0},
    limit   <- capacity

\* The worker, the store and the operator's commands together implement the
\* heavy-work contract: permits are exclusive per repository and granted below
\* capacity, children run under them, and no permit is withdrawn from a run with
\* a live child.  Where a stop can fail, the contract is broken by ForcedEnd.
ImplementsContract == HeavyWorkContract!Contract

\* Run r ends with a live child: the stop of its group was not proven, or the
\* operator's abandon goes on to its commit after a stop that failed.
ForcedEnd(r) ==
  /\ child[r] > 0 /\ Active(r) /\ phase'[r] = "terminal"
  /\ attempt[r] = "unproven" \/ (op.pc = "commit" /\ op.run = r)

\* Whatever fails, every step keeps the heavy-work contract but the end of a run
\* whose child could not be stopped: no refused or stale release, reconciliation,
\* adoption, restart or retry withdraws the permit of a live child.
ContractUnlessForced ==
  /\ HeavyWorkContract!ContractInit
  /\ [][HeavyWorkContract!ContractNext \/ \E r \in Runs : ForcedEnd(r)]_vars

\* docs/architecture.md, failure and recovery: retry delay, waits, manual
\* intervention and terminal states release the permit only after managed-child
\* stop is proven.
ReleasedAfterStop ==
  [][\A r \in Runs : HasPermit(r) /\ permit'[r].owner = 0 => child[r] = 0]_vars

\* docs/architecture.md, failure and recovery: the supervisor beyond the heavy
\* capacity keeps waiting runs from starving an idle repository.  While the worker
\* is up and a permit is free, the first run that waits for one is dispatched.
FirstInLine(r) == proc # 0 /\ IsFirst(r) /\ Grantable(r)

IdleRepositoryServed == \A r \in Runs : FirstInLine(r) ~> Claimed(r) \/ ~FirstInLine(r)
=============================================================================
