------------------------------ MODULE Admission ------------------------------
(***************************************************************************)
(* The admission of Linear Todo issues: the dispatches of the worker take   *)
(* the short admission lease, reserve a run for an issue, move the issue to *)
(* In Progress and start the run locally.  The store keeps the lease, the   *)
(* runs, the admission journal and the side effect of the mutation; every   *)
(* step is one transaction or one request to Linear, whose answer may be    *)
(* lost and whose effect may come late.                                     *)
(*                                                                          *)
(* A lease is known by its owner and version.  All dispatches of a process  *)
(* share the owner, a released lease leaves no row, and versions begin      *)
(* anew after it.                                                           *)
(***************************************************************************)
EXTENDS Naturals, FiniteSets

CONSTANTS
  Issues,        \* issues of the queue; the run of an issue has its name
  RepositoryOf,  \* the repository an issue's label names
  Workers,       \* dispatches that may be in progress at a time
  MaxEpoch,      \* starts of the worker process
  MaxTroubles,   \* faults together
  Faults         \* those of this instance

FaultKinds == {"crash", "expire", "lost", "late", "refuse", "read", "permit", "store",
               "human", "abandon"}

ASSUME IssuesAssumption  == IsFiniteSet(Issues) /\ RepositoryOf \in [Issues -> STRING]
ASSUME BoundsAssumption  == MaxEpoch \in Nat \ {0} /\ MaxTroubles \in Nat
ASSUME FaultsAssumption  == Faults \subseteq FaultKinds

NoIssue == "none"
ASSUME NoIssueAssumption == NoIssue \notin Issues

VARIABLES
  lease,    \* linear_todo_admission_lease; version 0 when there is no row
  run,      \* runs.current_state, every state of the local work as "executing"
  journal,  \* linear_todo_admission_journal.status
  side,     \* side_effects row linear_move_to_started: status and attempt
  told,     \* an attention event was published for the run
  parked,   \* the run's retry schedule is in attention
  since,    \* run_scheduling.runnable_since, as the order of the reservations
  issue,    \* the issue's state in Linear
  late,     \* requests of unknown outcome that Linear may still apply
  sent,     \* requests made for the issue
  d,        \* the dispatch in progress of each worker, with its locals
  epoch,    \* the worker process, which owns its leases
  troubles

storeVars == <<lease, run, journal, side, told, parked, since>>
vars == <<storeVars, issue, late, sent, d, epoch, troubles>>

Steps == {"idle", "select", "resume", "adopt_renew", "adopt", "scan_renew", "scan",
          "read_renew", "reserve_renew", "reserve", "permit", "start_renew", "intent",
          "mutation_renew", "read", "begin", "retry", "claim", "mutate", "reread",
          "observe", "failed_todo", "stop_effect", "stop_run", "fail", "after_renew",
          "mark", "local_renew", "release", "local"}

DispatchRecord == [at : Steps, issue : Issues \cup {NoIssue}, ver : Nat,
                   saw : {"todo", "started"}]

NoLease == [owner |-> 0, version |-> 0, live |-> FALSE]
Idle    == [at |-> "idle", issue |-> NoIssue, ver |-> 0, saw |-> "todo"]

TypeOK ==
  /\ lease \in [owner : 0..MaxEpoch, version : Nat, live : BOOLEAN]
  /\ run \in [Issues -> {"absent", "received", "executing", "manual_intervention", "failed"}]
  /\ journal \in [Issues -> {"none", "reserved", "mutation_intent", "started",
                             "manual_intervention"}]
  /\ side \in [Issues -> [status : {"none", "intent", "in_flight", "failed_todo", "failed",
                                    "observed"}, attempt : 0..2]]
  /\ told \in [Issues -> BOOLEAN] /\ parked \in [Issues -> BOOLEAN]
  /\ since \in [Issues -> Nat]
  /\ issue \in [Issues -> {"todo", "started", "other"}]
  /\ late \in [Issues -> BOOLEAN] /\ sent \in [Issues -> Nat]
  /\ d \in [Workers -> DispatchRecord]
  /\ epoch \in 1..MaxEpoch /\ troubles \in 0..MaxTroubles

Init ==
  /\ lease = NoLease
  /\ run = [i \in Issues |-> "absent"] /\ journal = [i \in Issues |-> "none"]
  /\ side = [i \in Issues |-> [status |-> "none", attempt |-> 0]]
  /\ told = [i \in Issues |-> FALSE] /\ parked = [i \in Issues |-> FALSE]
  /\ since = [i \in Issues |-> 0]
  /\ issue = [i \in Issues |-> "todo"]
  /\ late = [i \in Issues |-> FALSE] /\ sent = [i \in Issues |-> 0]
  /\ d = [w \in Workers |-> Idle]
  /\ epoch = 1 /\ troubles = 0
-----------------------------------------------------------------------------
At(w, step)  == d[w].at = step
Go(w, step)  == d' = [d EXCEPT ![w].at = step]
Trouble(kind) == kind \in Faults /\ troubles < MaxTroubles /\ troubles' = troubles + 1

\* A dispatch's copy of the lease names the row: requireAutomaticAdmissionLeaseTx.
Names(w) == lease.owner = epoch /\ d[w].ver # 0 /\ lease.version = d[w].ver
Holds(w) == Names(w) /\ lease.live

\* claimRun: a set of runs in the memory of the process.
Claimed(i) == \E w \in Workers : d[w].issue = i

Nonterminal(i) == run[i] \notin {"absent", "failed"}

\* automaticAdmissionJournalStateMatchesRun: a journal row that fails it is corrupt.
JournalMatchesRun(status, state) ==
  CASE status = "none"                -> TRUE
    [] status = "reserved"            -> state = "received"
    [] status = "mutation_intent"     -> state \in {"received", "manual_intervention"}
    [] status = "started"             -> TRUE
    [] status = "manual_intervention" -> state \in {"manual_intervention", "failed"}

NoJournalCorruption == \A i \in Issues : JournalMatchesRun(journal[i], run[i])

\* The dispatch ends, whatever its outcome; its deferred call gives the lease back
\* if it is still the one the dispatch knows.
ReturnWith(w, events, stops) ==
  /\ d' = [d EXCEPT ![w] = Idle]
  /\ lease' = IF Names(w) THEN NoLease ELSE lease
  /\ told' = [i \in Issues |-> told[i] \/ i \in events]
  /\ parked' = [i \in Issues |-> parked[i] \/ i \in stops]

Return(w) == ReturnWith(w, {}, {})

\* Faulty: the conflict is the scheduler's, whoever has the lease.
AttentionForNobody(w) == Return(w)

\* The attention goes to the run when the lease is still held, else to the scheduler.
AttentionFor(w) == ReturnWith(w, IF Holds(w) THEN {d[w].issue} ELSE {}, {})

OutsideUnchanged == UNCHANGED <<issue, late, sent, epoch>>

\* renewLease: without a live row of this owner and version the dispatch ends.
Renew(w, from, to) ==
  /\ At(w, from)
  /\ IF Holds(w)
     THEN /\ lease' = [lease EXCEPT !.version = @ + 1]
          /\ d' = [d EXCEPT ![w].at = to, ![w].ver = @ + 1]
          /\ UNCHANGED <<told, parked>>
     ELSE Return(w)
  /\ UNCHANGED <<run, journal, side, since, troubles>> /\ OutsideUnchanged

-----------------------------------------------------------------------------
(***************************************************************************)
(* Dispatch                                                                 *)
(***************************************************************************)
AcquireLease(w) ==
  /\ At(w, "idle") /\ ~lease.live
  /\ lease' = [owner |-> epoch, version |-> lease.version + 1, live |-> TRUE]
  /\ d' = [d EXCEPT ![w].at = "select", ![w].ver = lease.version + 1]
  /\ UNCHANGED <<run, journal, side, told, parked, since, troubles>> /\ OutsideUnchanged

\* nextScheduledRun: of the received runs that no sibling claims the first by
\* runnable_since, before any new issue.  A run further on is driven elsewhere.
Runnable(i)  == run[i] = "received" /\ ~Claimed(i)
NextRun(i)   == Runnable(i) /\ \A j \in Issues : Runnable(j) => since[i] <= since[j]

SelectRun(w) ==
  /\ At(w, "select")
  /\ IF \E i \in Issues : Runnable(i)
     THEN \E i \in Issues :
            NextRun(i) /\ d' = [d EXCEPT ![w].at = "resume", ![w].issue = i]
     ELSE Go(w, "scan_renew")
  /\ UNCHANGED <<storeVars, troubles>> /\ OutsideUnchanged

\* A retry schedule in attention stops the run (retryAttention), and so does a
\* journal that is corrupt (GetLinearTodoAdmissionJournal) or closed (resume).
ResumeRun(w) ==
  LET i == d[w].issue IN
  /\ At(w, "resume")
  /\ IF parked[i] \/ journal[i] = "manual_intervention" \/ ~JournalMatchesRun(journal[i], run[i])
        \/ run[i] # "received"
     THEN ReturnWith(w, {i}, {})
     ELSE Go(w, "adopt_renew") /\ UNCHANGED <<lease, told, parked>>
  /\ UNCHANGED <<run, journal, side, since, troubles>> /\ OutsideUnchanged

\* AdoptLinearTodoAdmissionReservation compares the row with a fresh reservation.
AdoptReservation(w) ==
  LET i == d[w].issue IN
  /\ At(w, "adopt")
  /\ IF Holds(w) /\ NoJournalCorruption /\ journal[i] = "reserved" /\ run[i] = "received"
     THEN Go(w, "start_renew") /\ UNCHANGED <<lease, told, parked>>
     ELSE AttentionFor(w)
  /\ UNCHANGED <<run, journal, side, since, troubles>> /\ OutsideUnchanged

\* ListTodoCandidates and readAndSelect: an issue in Todo without an active run in
\* its repository; the gates may refuse every one.
ScanCandidates(w) ==
  /\ At(w, "scan")
  /\ \/ /\ \E i \in Issues : issue[i] = "todo"
        /\ Go(w, "read_renew") /\ UNCHANGED <<lease, told, parked>>
     \/ Return(w)
  /\ UNCHANGED <<run, journal, side, since, troubles>> /\ OutsideUnchanged

ActiveRepository(i) ==
  \E j \in Issues : Nonterminal(j) /\ RepositoryOf[j] = RepositoryOf[i]

SelectCandidate(w) ==
  /\ At(w, "read_renew")
  /\ IF Holds(w)
     THEN \/ \E i \in Issues :
               /\ issue[i] = "todo" /\ ~ActiveRepository(i) /\ ~Claimed(i)
               /\ lease' = [lease EXCEPT !.version = @ + 1]
               /\ d' = [d EXCEPT ![w].at = "reserve_renew", ![w].issue = i, ![w].ver = @ + 1]
               /\ UNCHANGED <<told, parked>>
          \/ Return(w)
     ELSE Return(w)
  /\ UNCHANGED <<run, journal, side, since, troubles>> /\ OutsideUnchanged

\* ReserveLinearTodoAdmission: the run, its slot and its journal in one transaction.
ReserveAdmission(w) ==
  LET i == d[w].issue IN
  /\ At(w, "reserve")
  /\ IF Holds(w) /\ NoJournalCorruption /\ journal[i] = "none" /\ ~ActiveRepository(i)
     THEN /\ run' = [run EXCEPT ![i] = "received"]
          /\ journal' = [journal EXCEPT ![i] = "reserved"]
          /\ since' = [since EXCEPT ![i] = Cardinality({j \in Issues : run[j] # "absent"})]
          /\ Go(w, "permit") /\ UNCHANGED <<lease, told, parked>>
     ELSE Return(w) /\ UNCHANGED <<run, journal, since>>
  /\ UNCHANGED <<side, troubles>> /\ OutsideUnchanged

\* acquireRunPermit, whose conflicts are module Scheduling's.
InitialPermit(w) ==
  /\ At(w, "permit")
  /\ \/ Go(w, "start_renew") /\ UNCHANGED <<lease, told, parked, troubles>>
     \/ Trouble("permit") /\ ReturnWith(w, {d[w].issue}, {})
  /\ UNCHANGED <<run, journal, side, since>> /\ OutsideUnchanged

\* advanceJournal: the lease, every journal row, then compare and set.
CanAdvance(w, from) == Holds(w) /\ NoJournalCorruption /\ journal[d[w].issue] = from

RecordMutationIntent(w) ==
  /\ At(w, "intent")
  /\ IF CanAdvance(w, "reserved")
     THEN /\ journal' = [journal EXCEPT ![d[w].issue] = "mutation_intent"]
          /\ Go(w, "mutation_renew") /\ UNCHANGED <<lease, told, parked>>
     ELSE AttentionFor(w) /\ UNCHANGED journal
  /\ UNCHANGED <<run, side, since, troubles>> /\ OutsideUnchanged
-----------------------------------------------------------------------------
(***************************************************************************)
(* MoveReservedIssueToStarted                                               *)
(***************************************************************************)
\* A store call that fails ends the start, with nothing recorded by it.
StoreFails(w) == Trouble("store") /\ Go(w, "fail") /\ UNCHANGED side

ServiceUnchanged == UNCHANGED <<lease, run, journal, told, parked, since>> /\ OutsideUnchanged

\* manual: first the side effect, then the run, in two transactions.
Manual(w) == Go(w, IF side[d[w].issue].status \in {"none", "observed"}
                   THEN "stop_run" ELSE "stop_effect")

ReadReservedIssue(w) ==
  LET i == d[w].issue IN
  /\ At(w, "read")
  /\ \/ /\ run[i] # "received" /\ Go(w, "fail") /\ UNCHANGED troubles
     \/ /\ run[i] = "received" /\ issue[i] # "other"
        /\ d' = [d EXCEPT ![w].at = "begin", ![w].saw = issue[i]] /\ UNCHANGED troubles
     \/ /\ run[i] = "received" /\ issue[i] = "other"
        /\ Go(w, "stop_run") /\ UNCHANGED troubles
     \/ Trouble("read") /\ Go(w, "stop_run")
  /\ UNCHANGED side /\ ServiceUnchanged

\* BeginSideEffect keeps a row that is there already.
BeginSideEffect(w) ==
  LET i == d[w].issue
      now == IF side[i].status = "none" THEN [status |-> "intent", attempt |-> 1] ELSE side[i]
      next == CASE d[w].saw = "started"          -> "observe"
                [] now.status = "intent"         -> "claim"
                [] now.status = "in_flight"      -> "stop_run"
                [] now.status = "observed"       -> "stop_run"
                [] now = [status |-> "failed_todo", attempt |-> 1] -> "retry"
                [] OTHER                         -> "stop_effect"
  IN
  /\ At(w, "begin")
  /\ \/ side' = [side EXCEPT ![i] = now] /\ Go(w, next) /\ UNCHANGED troubles
     \/ StoreFails(w)
  /\ ServiceUnchanged

\* Faulty: the retry makes the same attempt again.
RetrySameAttempt(w) ==
  /\ At(w, "retry") /\ side[d[w].issue] = [status |-> "failed_todo", attempt |-> 1]
  /\ side' = [side EXCEPT ![d[w].issue] = [status |-> "intent", attempt |-> 1]]
  /\ Go(w, "claim") /\ UNCHANGED troubles
  /\ ServiceUnchanged

RetryLinearIssueStartSideEffect(w) ==
  LET i == d[w].issue IN
  /\ At(w, "retry")
  /\ \/ /\ side[i] = [status |-> "failed_todo", attempt |-> 1]
        /\ side' = [side EXCEPT ![i] = [status |-> "intent", attempt |-> 2]]
        /\ Go(w, "claim") /\ UNCHANGED troubles
     \/ /\ side[i] # [status |-> "failed_todo", attempt |-> 1]
        /\ Go(w, "fail") /\ UNCHANGED <<side, troubles>>
     \/ StoreFails(w)
  /\ ServiceUnchanged

ClaimLinearIssueStartSideEffect(w) ==
  LET i == d[w].issue IN
  /\ At(w, "claim")
  /\ \/ /\ side[i].status = "intent"
        /\ side' = [side EXCEPT ![i].status = "in_flight"]
        /\ Go(w, "mutate") /\ UNCHANGED troubles
     \/ /\ side[i].status # "intent" /\ Go(w, "fail") /\ UNCHANGED <<side, troubles>>
     \/ StoreFails(w)
  /\ ServiceUnchanged

\* Faulty: the answer of the mutation is proof enough.
MutateTrusted(w) ==
  LET i == d[w].issue IN
  /\ At(w, "mutate")
  /\ sent' = [sent EXCEPT ![i] = @ + 1]
  /\ issue' = [issue EXCEPT ![i] = "started"] /\ Go(w, "after_renew")
  /\ UNCHANGED <<late, troubles>>
  /\ UNCHANGED <<storeVars, epoch>>

\* The request sets the state whatever it was.  A refusal is conclusive; after a
\* lost answer only the next read tells, and the request may still be applied later.
MutateIssue(w) ==
  LET i == d[w].issue
      Applied == issue' = [issue EXCEPT ![i] = "started"]
  IN
  /\ At(w, "mutate")
  /\ sent' = [sent EXCEPT ![i] = @ + 1]
  /\ \/ Applied /\ Go(w, "reread") /\ UNCHANGED <<late, troubles>>
     \/ Applied /\ Trouble("store") /\ Go(w, "fail") /\ UNCHANGED late
     \/ Trouble("lost") /\ Go(w, "reread") /\ UNCHANGED <<issue, late>>
     \/ /\ Trouble("late") /\ Go(w, "reread")
        /\ late' = [late EXCEPT ![i] = TRUE] /\ UNCHANGED issue
     \/ Trouble("refuse") /\ Manual(w) /\ UNCHANGED <<issue, late>>
  /\ UNCHANGED <<storeVars, epoch>>

RereadIssue(w) ==
  LET i == d[w].issue IN
  /\ At(w, "reread")
  /\ \/ /\ issue[i] = "started" /\ Go(w, "observe") /\ UNCHANGED troubles
     \/ /\ issue[i] = "todo" /\ side[i].attempt = 1
        /\ Go(w, "failed_todo") /\ UNCHANGED troubles
     \/ /\ issue[i] = "other" \/ (issue[i] = "todo" /\ side[i].attempt # 1)
        /\ Manual(w) /\ UNCHANGED troubles
     \/ Trouble("read") /\ Manual(w)
  /\ UNCHANGED side /\ ServiceUnchanged

\* FinishLinearIssueStartSideEffect, skipped for an effect that is observed.
FinishSideEffect(w, from, status, to) ==
  LET i == d[w].issue IN
  /\ At(w, from)
  /\ \/ /\ side' = [side EXCEPT ![i].status = IF @ = "observed" THEN @ ELSE status]
        /\ Go(w, to) /\ UNCHANGED troubles
     \/ StoreFails(w)
  /\ ServiceUnchanged

FinishStarted(w)    == FinishSideEffect(w, "observe", "observed", "after_renew")
FinishFailedTodo(w) == FinishSideEffect(w, "failed_todo", "failed_todo", "retry")
FinishFailed(w)     == FinishSideEffect(w, "stop_effect", "failed", "stop_run")

StopRun(w) ==
  LET i == d[w].issue IN
  /\ At(w, "stop_run") /\ Go(w, "fail")
  /\ \/ /\ run' = [run EXCEPT ![i] = IF @ = "received" THEN "manual_intervention" ELSE @]
        /\ UNCHANGED troubles
     \/ Trouble("store") /\ UNCHANGED run
  /\ UNCHANGED <<lease, journal, side, told, parked, since>> /\ OutsideUnchanged
-----------------------------------------------------------------------------
(***************************************************************************)
(* startAndDrive after the start service                                    *)
(***************************************************************************)
\* The journal follows when it can; the failure itself is reported and, for a run
\* that is still received, its retry schedule put in attention (handleRunFailure).
StartFailed(w) ==
  LET i == d[w].issue IN
  /\ At(w, "fail")
  /\ journal' = IF CanAdvance(w, "mutation_intent")
                THEN [journal EXCEPT ![i] = "manual_intervention"] ELSE journal
  /\ ReturnWith(w, {i}, IF run[i] = "received" THEN {i} ELSE {})
  /\ UNCHANGED <<run, side, since, troubles>> /\ OutsideUnchanged

RecordStarted(w) ==
  /\ At(w, "mark")
  /\ IF CanAdvance(w, "mutation_intent")
     THEN /\ journal' = [journal EXCEPT ![d[w].issue] = "started"]
          /\ Go(w, "local_renew") /\ UNCHANGED <<lease, told, parked>>
     ELSE AttentionFor(w) /\ UNCHANGED journal
  /\ UNCHANGED <<run, side, since, troubles>> /\ OutsideUnchanged

ReleaseLease(w) ==
  /\ At(w, "release")
  /\ IF Names(w)
     THEN /\ lease' = NoLease /\ d' = [d EXCEPT ![w].at = "local", ![w].ver = 0]
          /\ UNCHANGED <<told, parked>>
     ELSE Return(w)
  /\ UNCHANGED <<run, journal, side, since, troubles>> /\ OutsideUnchanged

\* CommandService.Start, and the local work after it.
StartLocally(w) ==
  LET i == d[w].issue IN
  /\ At(w, "local")
  /\ run' = [run EXCEPT ![i] = IF @ = "received" THEN "executing" ELSE @]
  /\ Return(w)
  /\ UNCHANGED <<journal, side, since, troubles>> /\ OutsideUnchanged
-----------------------------------------------------------------------------
(***************************************************************************)
(* What happens around the dispatches                                       *)
(***************************************************************************)
\* A lease lasts while its dispatch goes on in time; left behind, it just expires.
LeaseExpires ==
  /\ lease.live /\ lease' = [lease EXCEPT !.live = FALSE]
  /\ IF \E w \in Workers : Names(w) THEN Trouble("expire") ELSE UNCHANGED troubles
  /\ UNCHANGED <<run, journal, side, told, parked, since, d>> /\ OutsideUnchanged

\* The process ends; launchd starts another, with an owner of its own.
Crash ==
  /\ Trouble("crash") /\ epoch < MaxEpoch
  /\ epoch' = epoch + 1 /\ d' = [w \in Workers |-> Idle]
  /\ UNCHANGED <<storeVars, issue, late, sent>>

LateRequestApplied(i) ==
  /\ late[i] /\ late' = [late EXCEPT ![i] = FALSE]
  /\ issue' = [issue EXCEPT ![i] = "started"]
  /\ UNCHANGED <<storeVars, sent, d, epoch, troubles>>

HumanMoves(i) ==
  /\ Trouble("human")
  /\ \E state \in {"started", "other"} \ {issue[i]} : issue' = [issue EXCEPT ![i] = state]
  /\ UNCHANGED <<storeVars, late, sent, d, epoch>>

\* Faulty: a pending mutation blocks nothing.
AbandonAnyway(i) ==
  /\ "abandon" \in Faults /\ told[i] /\ Nonterminal(i) /\ journal[i] # "none"
  /\ run' = [run EXCEPT ![i] = "failed"]
  /\ journal' = [journal EXCEPT ![i] = "manual_intervention"]
  /\ UNCHANGED <<lease, side, told, parked, since, d, troubles>> /\ OutsideUnchanged

\* AbandonAutomaticAdmission, for a run whose attention offers it.
AbandonAutomaticAdmission(i) ==
  /\ "abandon" \in Faults /\ told[i] /\ Nonterminal(i)
  /\ journal[i] \notin {"none", "mutation_intent"} /\ JournalMatchesRun(journal[i], run[i])
  /\ run' = [run EXCEPT ![i] = "failed"]
  /\ journal' = [journal EXCEPT ![i] = "manual_intervention"]
  /\ UNCHANGED <<lease, side, told, parked, since, d, troubles>> /\ OutsideUnchanged

DispatchStep(w) ==
  \/ AcquireLease(w) \/ SelectRun(w) \/ ResumeRun(w) \/ AdoptReservation(w)
  \/ Renew(w, "adopt_renew", "adopt") \/ Renew(w, "scan_renew", "scan")
  \/ ScanCandidates(w) \/ SelectCandidate(w) \/ Renew(w, "reserve_renew", "reserve")
  \/ ReserveAdmission(w) \/ InitialPermit(w) \/ Renew(w, "start_renew", "intent")
  \/ RecordMutationIntent(w) \/ Renew(w, "mutation_renew", "read")
  \/ ReadReservedIssue(w) \/ BeginSideEffect(w) \/ RetryLinearIssueStartSideEffect(w)
  \/ ClaimLinearIssueStartSideEffect(w) \/ MutateIssue(w) \/ RereadIssue(w)
  \/ FinishStarted(w) \/ FinishFailedTodo(w) \/ FinishFailed(w) \/ StopRun(w)
  \/ StartFailed(w) \/ Renew(w, "after_renew", "mark") \/ RecordStarted(w)
  \/ Renew(w, "local_renew", "release") \/ ReleaseLease(w) \/ StartLocally(w)

Next ==
  \/ \E w \in Workers : DispatchStep(w)
  \/ LeaseExpires \/ Crash
  \/ \E i \in Issues : LateRequestApplied(i) \/ HumanMoves(i) \/ AbandonAutomaticAdmission(i)

Spec == Init /\ [][Next]_vars

\* The worker goes on dispatching, a dispatch goes on with its steps, and time passes.
FairSpec == Spec /\ WF_vars(LeaseExpires) /\ \A w \in Workers : WF_vars(DispatchStep(w))
-----------------------------------------------------------------------------
\* Nothing is asked of Linear before the intent is durable, and nothing beyond the
\* one bounded retry: each request belongs to an attempt of its own, however the
\* dispatches, the leases and the crashes fell (ClaimLinearIssueStartSideEffect).
RequestsCovered ==
  \A i \in Issues :
    /\ sent[i] <= side[i].attempt
    /\ sent[i] > 0 => journal[i] \notin {"none", "reserved"}

\* Local work starts only on an issue that was read as In Progress, and the journal
\* says so durably before: a crash never leaves work whose start is in doubt
\* (startAndDrive, "the durable proof that the remote start mutation completed").
WorkProven ==
  \A i \in Issues :
    /\ run[i] = "executing" => journal[i] = "started"
    /\ journal[i] = "started" => side[i].status = "observed"

\* An operator may abandon a run while a dispatch is on its way to start it: Linear
\* is asked nothing more, and the run is not revived.
AbandonedStaysAlone ==
  [][\A i \in Issues : run[i] = "failed" => sent'[i] = sent[i] /\ run'[i] = "failed"]_vars

\* The run that the scheduler takes first is started, stopped, or reported as one
\* that waits for a human, whatever its dispatches met.
First(i) == run[i] = "received" /\ \A j \in Issues : run[j] = "received" => since[i] <= since[j]
FirstSettled == \A i \in Issues : First(i) ~> run[i] # "received" \/ told[i]
===============================================================================
