---------------------------- MODULE RetrySchedule ----------------------------
(***************************************************************************)
(* The durable retry schedule of one run, keyed by the run's state:         *)
(*   - the rows and the rules a stored row must satisfy to be read          *)
(*     (application/retry_schedule.go, adapters/sqlite/retry_schedule.go),   *)
(*   - a dispatch of the run by the automatic worker, from reading the run  *)
(*     to recording the outcome (application/linear_todo_dispatch.go),       *)
(*   - the attention outbox (adapters/sqlite/operator_attention.go),         *)
(*   - the operator's retry and abandon commands, in processes of their own,*)
(*     and crashes of the worker between any two transactions.              *)
(* The run claim and the process lock make one dispatch of a run at a time, *)
(* so the worker is one process here.  A step is one store transaction.     *)
(***************************************************************************)
EXTENDS RunState, Naturals, FiniteSets

CONSTANTS
  Visited,       \* the states this instance lets the run visit
  Start,         \* the state it starts in
  Classes,       \* classes a failed drive may have
  MaxAttempts, InitialDelay, MaximumDelay,  \* the AutomaticRetryPolicy
  Paths,         \* "lease": Dispatch under the admission lease; "free":
                 \*   dispatchExistingRunWithoutAdmissionLease
  Faults,        \* what may happen: "crash", "abandon", "operator"
  MaxSequence,   \* bound on durable transitions of the run
  MaxCount,      \* bound on the attempt count an operator retries from
  MaxStamp,      \* bound on attention records
  MaxCrashes     \* bound on crashes

FailureClass == {"process_start", "unavailable", "authority_conflict",
                 "manual_state", "terminal_failure"}
Retryable    == {"process_start", "unavailable"}
Exhausted    == "retry_budget_exhausted"
OperatorRetry == "operator_retry"

ASSUME VisitedAssumption == Start \in Visited /\ Visited \subseteq State
ASSUME ClassesAssumption == Classes \subseteq FailureClass \ {"manual_state"}
ASSUME PolicyAssumption  == /\ MaxAttempts \in 1..10 /\ InitialDelay \in Nat \ {0}
                            /\ MaximumDelay \in Nat /\ MaximumDelay >= InitialDelay
ASSUME PathsAssumption   == Paths \subseteq {"lease", "free"}
ASSUME OccursAssumption  == Faults \subseteq {"crash", "abandon", "operator"}

VARIABLES
  state,    \* runs.current_state
  seq,      \* sequence of its last transition
  rows,     \* rows[p]: the schedule of phase state_p
  stamp,    \* attention times used so far
  outbox,   \* attention events of the run
  current,  \* the latest of them
  up,       \* the worker: "up", "crashed", or "fatal" after a dispatch error
  crashes,  \* crashes so far
  d,        \* the dispatch in progress
  op        \* the operator's prepared retry, and those applied

runVars == <<state, seq>>
attnVars == <<outbox, current>>
vars == <<state, seq, rows, stamp, outbox, current, up, crashes, d, op>>

\* wait: time left until NextEligibleAt; stamp: AttentionAt.
NoRow == [status |-> "none", count |-> 0, class |-> "terminal_failure",
          reason |-> "terminal_failure", cs |-> Start, wait |-> 0, stamp |-> 0]
Found(r) == r.status # "none"

\* AutomaticRetryDelay: doubled per attempt, saturating at the maximum.
AutomaticRetryDelay[n \in Nat] ==
  IF n <= 1 THEN InitialDelay
  ELSE LET delay == AutomaticRetryDelay[n - 1] IN
       IF delay > MaximumDelay \div 2 THEN MaximumDelay ELSE 2 * delay

(***************************************************************************)
(* RetrySchedule.validate, which scanRetrySchedule applies to every row it  *)
(* reads.                                                                   *)
(***************************************************************************)
Valid(r) ==
  /\ r.count >= 1
  /\ CASE r.reason = Exhausted     -> r.status = "attention" /\ r.count > MaxAttempts
                                      /\ r.class \in Retryable
       [] r.reason = OperatorRetry -> r.status = "scheduled" /\ r.count > MaxAttempts
                                      /\ r.class \in Retryable
       [] OTHER                    -> r.reason = r.class
  /\ (r.status = "scheduled" /\ r.count > MaxAttempts) => r.reason = OperatorRetry
  /\ (r.status = "attention" /\ r.count > MaxAttempts) => r.reason = Exhausted

Readable(p) == Found(rows[p]) => Valid(rows[p])

\* Inspect reads every schedule of the run.
Inspectable == \A p \in Visited : Readable(p)

\* retryAttentionDigest: what the event key of an attention row is made of.
EventKey(p, r) == <<"retry", p, r.count, r.class, r.reason>>
Event(p, r)    == [key |-> EventKey(p, r), cs |-> r.cs, stamp |-> r.stamp]
StopEvent      == [key |-> <<"stop", state, seq>>, cs |-> state, stamp |-> 0]
NoEvent        == [key |-> <<"none">>, cs |-> Start, stamp |-> 0]

\* pc: "gate" has the run, "drive" drives it, "reread" has seen it fail,
\* "settle" records that, "notify" appends the attention of row at phase at.
\* st: the run's state when dispatched; exp: the attempt count read, 0 without
\* a schedule; fst: its state when the failure was recorded.
IdleDispatch == [pc |-> "idle", path |-> "lease", st |-> Start, exp |-> 0, fst |-> Start,
                 class |-> "terminal_failure", at |-> Start, row |-> NoRow]
IdleOperator == [pc |-> "idle", st |-> Start, seq |-> 0, key |-> NoEvent.key, count |-> 0]

Init ==
  /\ state = Start /\ seq = 0
  /\ rows = [p \in Visited |-> NoRow]
  /\ stamp = 0
  /\ outbox = {} /\ current = NoEvent
  /\ up = "up" /\ crashes = 0
  /\ d = IdleDispatch
  /\ op = [now |-> IdleOperator, done |-> {}]
-----------------------------------------------------------------------------
At(pc)      == up = "up" /\ d.pc = pc
KeepStore   == UNCHANGED <<runVars, rows, stamp, attnVars>>
KeepOthers  == UNCHANGED <<crashes, op>>
Finish      == d' = IdleDispatch /\ UNCHANGED up
\* Dispatch returns an error, which ends the worker process.
Fatal       == d' = IdleDispatch /\ up' = "fatal"

\* A run moves along the state machine; any live run may be parked for an operator.
Moves(s) == {q \in Visited :
               \/ CanTransition(s, q)
               \/ q = "manual_intervention" /\ CanRequireManualIntervention(s)}

(***************************************************************************)
(* AppendOperatorAttention: an event with a known key is accepted only when *)
(* its payload is the one recorded.                                         *)
(***************************************************************************)
Conflicts(e) == \E f \in outbox : f.key = e.key /\ f # e
Append(e) ==
  /\ ~Conflicts(e)
  /\ outbox' = outbox \cup {e}
  /\ current' = IF e \in outbox THEN current ELSE e

(***************************************************************************)
(* ApplyRetryFailure: what it writes for a failure of class c at phase p,   *)
(* the caller having read the run in state cs and the schedule at exp.      *)
(***************************************************************************)
\* Faulty: past the budget, schedules again as if an operator had asked for it.
WrittenPastBudget(cs, exp, c) ==
  LET again == state = cs /\ c \in Retryable
      class == IF state = cs THEN c ELSE "authority_conflict" IN
  [status |-> IF again THEN "scheduled" ELSE "attention",
   count  |-> exp + 1, class |-> class,
   reason |-> IF again /\ exp >= MaxAttempts THEN OperatorRetry ELSE class,
   cs     |-> state,
   wait   |-> IF again THEN AutomaticRetryDelay[exp + 1] ELSE 0,
   stamp  |-> IF again THEN 0 ELSE stamp + 1]

Written(cs, exp, c) ==
  LET changed   == state # cs
      class     == IF changed THEN "authority_conflict" ELSE c
      count     == exp + 1
      again     == ~changed /\ class \in Retryable
      scheduled == again /\ count <= MaxAttempts IN
  [status |-> IF scheduled THEN "scheduled" ELSE "attention",
   count  |-> count, class |-> class,
   reason |-> IF again /\ ~scheduled THEN Exhausted ELSE class,
   cs     |-> state,
   wait   |-> IF scheduled THEN AutomaticRetryDelay[count] ELSE 0,
   stamp  |-> IF scheduled THEN 0 ELSE stamp + 1]

ApplyError(p, exp) == ~Readable(p) \/ (~Found(rows[p]) /\ exp # 0)
Stale(p, exp)  == rows[p].status = "attention" \/ (Found(rows[p]) /\ rows[p].count # exp)

ApplyRetryFailure(p, cs, exp, c) ==
  /\ ~ApplyError(p, exp)
  /\ IF Stale(p, exp)
     THEN UNCHANGED <<rows, stamp>>
     ELSE LET r == Written(cs, exp, c) IN
          /\ rows' = [rows EXCEPT ![p] = r]
          /\ stamp' = IF r.status = "attention" THEN stamp + 1 ELSE stamp
          /\ stamp' <= MaxStamp
-----------------------------------------------------------------------------
(***************************************************************************)
(* Selecting the run and consulting its schedule.  A run parked for a human *)
(* whose stop is announced is not selected.                                 *)
(***************************************************************************)
Selected ==
  /\ At("idle")
  /\ state \notin TerminalRunState
  /\ ~(state \in HumanWaitState /\ StopEvent \in outbox)
  /\ \E path \in Paths :
       /\ path = "free" => state # "received"
       /\ d' = [IdleDispatch EXCEPT !.pc = "gate", !.path = path, !.st = state]
  /\ KeepStore /\ KeepOthers /\ UNCHANGED up

GateUnreadable ==
  /\ At("gate") /\ ~Readable(d.st)
  /\ Fatal
  /\ KeepStore /\ KeepOthers

\* Faulty: takes an attention for reported because it is recorded.
GateAttentionSilent ==
  /\ At("gate") /\ Readable(d.st) /\ rows[d.st].status = "attention"
  /\ Finish
  /\ KeepStore /\ KeepOthers

GateAttention ==
  /\ At("gate") /\ Readable(d.st) /\ rows[d.st].status = "attention"
  /\ d' = [d EXCEPT !.pc = "notify", !.at = d.st, !.row = rows[d.st]]
  /\ KeepStore /\ KeepOthers /\ UNCHANGED up

GateNotEligible ==
  /\ At("gate") /\ Readable(d.st) /\ rows[d.st].status = "scheduled"
  /\ rows[d.st].wait > 0
  /\ Finish
  /\ KeepStore /\ KeepOthers

\* Faulty: the last retry of the budget is never due.
EligibleWithinBudget(r) ==
  r.status = "none" \/ (r.status = "scheduled" /\ r.wait = 0 /\ r.count < MaxAttempts)

Eligible(r) == r.status = "none" \/ (r.status = "scheduled" /\ r.wait = 0)

GateCorrupt ==
  /\ At("gate") /\ Readable(d.st) /\ Eligible(rows[d.st])
  /\ ~Inspectable
  /\ Fatal
  /\ KeepStore /\ KeepOthers

\* resume does not drive a run that waits for a human: it announces the stop.
Announce == IF state \in HumanWaitState THEN Append(StopEvent) ELSE UNCHANGED attnVars

GateHuman ==
  /\ At("gate") /\ Eligible(rows[d.st]) /\ Inspectable
  /\ d.path = "lease" /\ d.st \in HumanWaitState
  /\ Announce
  /\ Finish
  /\ UNCHANGED <<runVars, rows, stamp>> /\ KeepOthers

\* Faulty: drives a scheduled retry before its time.
GateDriveEarly ==
  /\ At("gate") /\ rows[d.st].status # "attention" /\ Inspectable
  /\ ~(d.path = "lease" /\ d.st \in HumanWaitState)
  /\ d' = [d EXCEPT !.pc = "drive", !.exp = rows[d.st].count]
  /\ KeepStore /\ KeepOthers /\ UNCHANGED up

GateDrive ==
  /\ At("gate") /\ Eligible(rows[d.st]) /\ Inspectable
  /\ ~(d.path = "lease" /\ d.st \in HumanWaitState)
  /\ d' = [d EXCEPT !.pc = "drive", !.exp = rows[d.st].count]
  /\ KeepStore /\ KeepOthers /\ UNCHANGED up
-----------------------------------------------------------------------------
(***************************************************************************)
(* The drive, which reads the run again before every action.  It returns    *)
(* without an error where the run waits or ends.                            *)
(***************************************************************************)
Transition(q) == state' = q /\ seq' = seq + 1 /\ seq < MaxSequence

DriveStep ==
  /\ At("drive") /\ state \notin HumanWaitState \cup TerminalRunState
  /\ \E q \in Moves(state) : Transition(q)
  /\ UNCHANGED <<rows, stamp, attnVars, up, d>> /\ KeepOthers

DriveReturns ==
  /\ At("drive") /\ PhaseOf(state) # "heavy"
  /\ state \in HumanWaitState => Inspectable
  /\ Announce
  /\ IF d.exp = 0 THEN Finish ELSE d' = [d EXCEPT !.pc = "clear"] /\ UNCHANGED up
  /\ UNCHANGED <<runVars, rows, stamp>> /\ KeepOthers

DriveFails ==
  /\ At("drive")
  /\ \E c \in Classes : d' = [d EXCEPT !.pc = "reread", !.class = c]
  /\ KeepStore /\ KeepOthers /\ UNCHANGED up

\* Faulty: deletes the schedule whatever it has become.
ClearUnconditionally ==
  /\ At("clear")
  /\ rows' = [rows EXCEPT ![d.st] = NoRow]
  /\ Finish
  /\ UNCHANGED <<runVars, stamp, attnVars>> /\ KeepOthers

\* ClearRetrySchedule; a schedule found in attention is handled as a failure.
Clear ==
  LET r == rows[d.st] IN
  /\ At("clear")
  /\ IF r.status = "scheduled" /\ r.count = d.exp
     THEN rows' = [rows EXCEPT ![d.st] = NoRow] ELSE UNCHANGED rows
  /\ IF r.status = "attention"
     THEN d' = [d EXCEPT !.pc = "settle", !.fst = d.st, !.class = "terminal_failure"]
          /\ UNCHANGED up
     ELSE Finish
  /\ UNCHANGED <<runVars, stamp, attnVars>> /\ KeepOthers

Reread ==
  /\ At("reread")
  /\ d' = [d EXCEPT !.pc = "settle", !.fst = state]
  /\ KeepStore /\ KeepOthers /\ UNCHANGED up
-----------------------------------------------------------------------------
(***************************************************************************)
(* Recording a failed drive.  Under the admission lease, a retry that fails *)
(* in another state parks the schedule it was made under.                   *)
(***************************************************************************)
MovedUnderRetry == d.path = "lease" /\ d.exp > 0 /\ d.fst # d.st

Notify(p) == d' = [d EXCEPT !.pc = "notify", !.at = p, !.row = rows'[p]] /\ UNCHANGED up

MarkRetryAttention ==
  /\ At("settle") /\ MovedUnderRetry
  /\ ApplyRetryFailure(d.st, d.st, d.exp, "authority_conflict")
  /\ IF rows'[d.st].status = "attention" THEN Notify(d.st) ELSE Fatal
  /\ UNCHANGED <<runVars, attnVars>> /\ KeepOthers

MarkRefused ==
  /\ At("settle") /\ MovedUnderRetry /\ ApplyError(d.st, d.exp)
  /\ Fatal
  /\ KeepStore /\ KeepOthers

Stopped == HumanWaitState \cup {"awaiting_human_approval", "completed"}

\* handleRunFailure: a run that stopped needs no schedule.
HandleStopped ==
  /\ At("settle") /\ ~MovedUnderRetry /\ d.fst \in Stopped
  /\ IF d.fst \in HumanWaitState /\ ~Inspectable THEN Fatal ELSE Finish
  /\ IF d.fst \in HumanWaitState /\ Inspectable /\ state = d.fst
     THEN Append(StopEvent) ELSE UNCHANGED attnVars
  /\ UNCHANGED <<runVars, rows, stamp>> /\ KeepOthers

RecordedClass == IF d.fst \in TerminalRunState THEN "terminal_failure" ELSE d.class

HandleRefused ==
  /\ At("settle") /\ ~MovedUnderRetry /\ d.fst \notin Stopped
  /\ \/ ApplyError(d.fst, d.exp)
     \/ RecordedClass = "process_start" /\ ~Inspectable
  /\ Fatal
  /\ KeepStore /\ KeepOthers

HandleRunFailure ==
  /\ At("settle") /\ ~MovedUnderRetry /\ d.fst \notin Stopped
  /\ RecordedClass = "process_start" => Inspectable
  /\ ApplyRetryFailure(d.fst, d.fst, d.exp, RecordedClass)
  /\ IF rows'[d.fst].status = "attention" THEN Notify(d.fst) ELSE Finish
  /\ UNCHANGED <<runVars, attnVars>> /\ KeepOthers

\* retryAttention: AutomaticRetryAttentionEvent validates the row again.
RetryAttention ==
  /\ At("notify") /\ Valid(d.row)
  /\ Append(Event(d.at, d.row))
  /\ Finish
  /\ UNCHANGED <<runVars, rows, stamp>> /\ KeepOthers

RetryAttentionRefused ==
  /\ At("notify") /\ (~Valid(d.row) \/ Conflicts(Event(d.at, d.row)))
  /\ Fatal
  /\ KeepStore /\ KeepOthers
-----------------------------------------------------------------------------
(***************************************************************************)
(* The worker process and the clock.                                        *)
(***************************************************************************)
Crash ==
  /\ "crash" \in Faults /\ up = "up" /\ crashes < MaxCrashes
  /\ up' = "crashed" /\ crashes' = crashes + 1
  /\ d' = IdleDispatch
  /\ KeepStore /\ UNCHANGED op

Restart ==
  /\ up # "up" /\ up' = "up"
  /\ KeepStore /\ KeepOthers /\ UNCHANGED d

Tick ==
  /\ \E p \in Visited : rows[p].wait > 0
  /\ rows' = [p \in Visited |-> IF rows[p].wait > 0
                                THEN [rows[p] EXCEPT !.wait = @ - 1] ELSE rows[p]]
  /\ UNCHANGED <<runVars, stamp, attnVars, up, d>> /\ KeepOthers
-----------------------------------------------------------------------------
(***************************************************************************)
(* The operator.  A retry is prepared from what the operator's process has  *)
(* read and applied in a second transaction, which compares the schedule,   *)
(* the run and the current attention with it.                               *)
(***************************************************************************)
RetryableIn(s, c) ==
  \/ /\ c = "process_start"
     /\ s \in HeavyWorkRequired \cup {"approval_ready"}
  \/ c = "unavailable" /\ s \in {"received", "admitting"}

Parked(r) ==
  /\ r.status = "attention" /\ r.reason = Exhausted
  /\ r.cs = state /\ RetryableIn(state, r.class)

\* The current attention offers the retry.
Offered == /\ current.key[1] = "retry" /\ current.key[5] = Exhausted
           /\ current.cs = state /\ RetryableIn(state, current.key[4])

ActionOf(o) == <<o.st, o.seq, o.key>>

\* Faulty: does not look at the current attention.
PrepareRetryUnadvertised ==
  LET r == rows[state]
      o == [pc |-> "apply", st |-> state, seq |-> seq, key |-> current.key, count |-> r.count] IN
  /\ "operator" \in Faults /\ op.now.pc = "idle"
  /\ Inspectable /\ Parked(r)
  /\ r.count < MaxCount
  /\ ActionOf(o) \notin op.done
  /\ op' = [op EXCEPT !.now = o]
  /\ KeepStore /\ UNCHANGED <<up, crashes, d>>

PrepareRetry ==
  LET r == rows[state]
      o == [pc |-> "apply", st |-> state, seq |-> seq, key |-> current.key, count |-> r.count] IN
  /\ "operator" \in Faults /\ op.now.pc = "idle"
  /\ Inspectable /\ Parked(r) /\ Offered
  /\ r.count < MaxCount
  /\ ActionOf(o) \notin op.done
  /\ op' = [op EXCEPT !.now = o]
  /\ KeepStore /\ UNCHANGED <<up, crashes, d>>

Granted(o) ==
  /\ Readable(o.st) /\ Parked(rows[o.st]) /\ rows[o.st].count = o.count
  /\ state = o.st /\ seq = o.seq
  /\ current.key = o.key

Grant(p) == rows' = [rows EXCEPT ![p].status = "scheduled", ![p].reason = OperatorRetry,
                                 ![p].wait = 0, ![p].stamp = 0]

ApplyRetry ==
  /\ op.now.pc = "apply" /\ Granted(op.now)
  /\ Grant(op.now.st)
  /\ op' = [now |-> IdleOperator, done |-> op.done \cup {ActionOf(op.now)}]
  /\ UNCHANGED <<runVars, stamp, attnVars, up, crashes, d>>

\* The comparison fails, or the operator's process ends.
DropRetry ==
  /\ op.now.pc = "apply"
  /\ op' = [op EXCEPT !.now = IdleOperator]
  /\ KeepStore /\ UNCHANGED <<up, crashes, d>>

\* A decision, or a recovery out of manual_intervention.
Answer ==
  /\ "operator" \in Faults /\ state \in HumanWaitState
  /\ \E q \in Moves(state) \ TerminalRunState : q \notin HumanWaitState /\ Transition(q)
  /\ UNCHANGED <<rows, stamp, attnVars, up, crashes, d, op>>

GracefulAbandonState ==
  {"received", "admitting", "provisioning", "executing", "verifying", "fresh_review",
   "repairing", "approval_ready", "pushing_branch", "branch_pushed", "opening_pr",
   "pr_open", "reconciling_reviews", "replying_review_feedback", "manual_intervention"}

\* The run fails and what was scheduled for it stops, in one transaction.
Abandon ==
  LET scheduled == {p \in Visited : rows[p].status = "scheduled"} IN
  /\ "abandon" \in Faults
  /\ state \in GracefulAbandonState /\ "failed" \in Visited
  /\ Inspectable
  /\ Transition("failed")
  /\ stamp < MaxStamp
  /\ rows' = [p \in Visited |->
                IF p \in scheduled
                THEN [rows[p] EXCEPT !.status = "attention", !.class = "manual_state",
                                     !.reason = "manual_state", !.wait = 0,
                                     !.stamp = stamp + 1]
                ELSE rows[p]]
  /\ stamp' = IF scheduled = {} THEN stamp ELSE stamp + 1
  /\ UNCHANGED <<attnVars, up, crashes, d, op>>
-----------------------------------------------------------------------------
Gate     == Selected \/ GateUnreadable \/ GateAttention \/ GateNotEligible \/ GateCorrupt
            \/ GateHuman \/ GateDrive
Drive    == DriveStep \/ DriveReturns \/ DriveFails \/ Clear
Record   == Reread \/ MarkRetryAttention \/ MarkRefused \/ HandleStopped \/ HandleRefused
            \/ HandleRunFailure \/ RetryAttention \/ RetryAttentionRefused
Worker   == Gate \/ Drive \/ Record
Operator == PrepareRetry \/ ApplyRetry \/ DropRetry \/ Answer \/ Abandon

Next == Worker \/ Crash \/ Restart \/ Tick \/ Operator

Spec == Init /\ [][Next]_vars

\* The worker keeps dispatching and is restarted, every drive returns, and
\* time passes.
FairSpec == Spec /\ WF_vars(Worker) /\ WF_vars(Restart) /\ WF_vars(Tick)
-----------------------------------------------------------------------------
(***************************************************************************)
(* Properties.                                                              *)
(***************************************************************************)

\* A retry is driven under exactly the schedule that made it due: while the
\* drive runs, nobody postpones, counts or replaces that schedule, unless the
\* run is abandoned (dispatch reads the row once and settles by its count).
DrivenUnderSchedule ==
  At("drive") /\ d.exp > 0 =>
    \/ /\ rows[d.st].status = "scheduled" /\ rows[d.st].count = d.exp
       /\ rows[d.st].wait = 0
    \/ state = "failed"

\* The policy bounds automatic retries: the attempts recorded for a phase
\* exceed the budget by the failure that exhausted it and one for each retry an
\* operator granted there (ApplyRetryFailure, ApplyOperatorRetry).
AttemptsBounded ==
  \A p \in Visited :
    rows[p].count <= MaxAttempts + 1 + Cardinality({a \in op.done : a[1] = p})

\* A retry is granted only after the operator was told that the budget of that
\* phase ran out.  The event may be of an earlier exhaustion: a second one that
\* is not reported yet can be lifted under it, when the run has left the state
\* and come back.
GrantAnnounced ==
  \A p \in Visited :
    rows[p].reason = OperatorRetry =>
      \E e \in outbox : /\ e.key[1] = "retry" /\ e.key[2] = p
                        /\ e.key[3] <= rows[p].count /\ e.key[5] = Exhausted

\* A schedule in attention is never cleared, rescheduled or counted again, by a
\* stale dispatch or by time: only an operator's retry lifts it, while the run
\* is in the state whose budget ran out.
AttentionKept ==
  [][\A p \in Visited :
       rows[p].status = "attention" /\ rows'[p] # rows[p] =>
         /\ op.now.pc = "apply" /\ state = p /\ state' = p
         /\ rows'[p].reason = OperatorRetry /\ rows'[p].count = rows[p].count]_vars

\* A retry that was scheduled for the state the run is in is made, whatever
\* crashes, unless the run moves on, or a schedule of the run cannot be read.
ScheduledRetryMade ==
  \A p \in Visited \ TerminalRunState :
    rows[p].status = "scheduled" /\ state = p
      ~> d.pc = "drive" \/ state # p \/ rows[p].status # "scheduled" \/ ~Inspectable

\* A run parked by its schedule is reported: an attention of its key reaches the
\* outbox even when the worker dies between recording it and reporting it.  The
\* key repeats when an operator's retry has lifted an attention and the budget of
\* the same phase runs out once more; the outbox then keeps the earlier event.
AttentionAnnounced ==
  \A p \in Visited \ TerminalRunState :
    rows[p].status = "attention" /\ state = p
      ~> state # p \/ (\E e \in outbox : e.key = Event(p, rows[p]).key) \/ ~Inspectable
===============================================================================
