----------------------------- MODULE Scheduling -----------------------------
(***************************************************************************)
(* The scheduling authorities of the durable store                          *)
(* (internal/adapters/sqlite/scheduling.go and the lease, attempt and       *)
(* transition statements of store.go): repository slots, heavy-work         *)
(* permits, the run_scheduling projection, run leases and process attempts. *)
(*                                                                          *)
(* Each SQLite transaction is one operator on the durable variables.        *)
(* StoreSpec lets arbitrary clients call every transaction, in any order,   *)
(* with any owner and any remembered permit version; module Supervisor      *)
(* replaces those clients by the worker process and the operator commands.  *)
(***************************************************************************)
EXTENDS Naturals, FiniteSets, RunState

CONSTANTS
  Runs,         \* run IDs, ordered as SQLite and strings.Compare order them
  Bindings,     \* repository binding digests
  BindingOf,    \* runs.repository_binding_digest
  LegacyRuns,   \* nonterminal runs of a database older than the scheduler:
                \*   they start with no slot, permit or run_scheduling row
  Owners,       \* owner nonces of supervisors and lease holders
  MaxCapacity,  \* application.MaxHeavyCapacity
  LeaseTTL,     \* localLeaseTTL
  MaxTime,      \* bound on the clock
  MaxVersion,   \* bound on permit versions
  NoRun         \* no row

ASSUME RunsAssumption     == Runs \subseteq Nat \ {0} /\ IsFiniteSet(Runs)
ASSUME BindingAssumption  == BindingOf \in [Runs -> Bindings]
ASSUME LegacyAssumption   == LegacyRuns \subseteq Runs
ASSUME OwnersAssumption   == Owners \subseteq Nat \ {0}
ASSUME CapacityAssumption == MaxCapacity \in Nat \ {0}
ASSUME BoundsAssumption   == LeaseTTL \in Nat \ {0} /\ MaxTime \in Nat /\ MaxVersion \in Nat
ASSUME NoRunAssumption    == NoRun = 0

VARIABLES
  phase,     \* phase[r]: PhaseOf(runs.current_state), or "absent"
  attn,      \* attn[r]: an attention event exists for r's latest transition
  lease,     \* lease[r]: runs.lease_owner (0: none), runs.lease_expires_unix
  attempt,   \* attempt[r]: status of r's unfinished attempt
  slot,      \* slot[b]: repository_slots.run_id, or NoRun
  permit,    \* permit[r]: heavy_permits.owner_nonce (0: no row), version
  sched,     \* sched[r]: run_scheduling row
  capacity,  \* heavy_capacity_authority.effective_capacity
  now        \* wall clock

storeVars == <<phase, attn, lease, attempt, slot, permit, sched, capacity, now>>

\* "unproven" is a started attempt whose error category is
\* process_group_exit_unproven; "none" covers every finished status.
AttemptStatus == {"none", "prepared", "started", "unproven"}

\* run_scheduling.supervisor_state; "none": the run has no row.
SupervisorState == {"none", "waiting", "running", "external_wait", "human_wait",
                    "terminal", "quarantined"}

NoPermit == [owner |-> 0, ver |-> 0]
NoLease  == [by |-> 0, exp |-> 0]
NoRow    == [sup |-> "none", since |-> 0, quar |-> FALSE]

\* UPDATE run_scheduling SET supervisor_state=s: no effect without a row.
InState(row, s) ==
  IF row.sup = "none" THEN row ELSE [sup |-> s, since |-> row.since, quar |-> row.quar]

TypeOK ==
  /\ phase \in [Runs -> Phase]
  /\ attn \in [Runs -> BOOLEAN]
  /\ lease \in [Runs -> [by : Nat, exp : Nat]]
  /\ attempt \in [Runs -> AttemptStatus]
  /\ slot \in [Bindings -> Runs \cup {NoRun}]
  /\ permit \in [Runs -> [owner : Nat, ver : Nat]]
  /\ sched \in [Runs -> [sup : SupervisorState, since : Nat, quar : BOOLEAN]]
  /\ capacity \in 1..MaxCapacity
  /\ now \in Nat
-----------------------------------------------------------------------------
Active(r)    == phase[r] \notin {"absent", "terminal"}
Heavy(r)     == phase[r] = "heavy"
HasPermit(r) == permit[r].owner # 0
OwnsSlot(r)  == slot[BindingOf[r]] = r
Started(r)   == attempt[r] \in {"started", "unproven"}
LeaseLive(r) == lease[r].exp > now

Permitted == {r \in Runs : HasPermit(r)}
InUse     == Cardinality(Permitted)

\* COALESCE(MAX(version), 0) + 1 over heavy_permits.
IsNextVersion(v) ==
  /\ v \in 1..MaxVersion
  /\ \A q \in Permitted : permit[q].ver < v
  /\ v = 1 \/ \E q \in Permitted : permit[q].ver = v - 1

\* The rows SELECTed WHERE supervisor_state='waiting' AND quarantined=0 AND
\* runnable_since<=now, and their ORDER BY runnable_since, run_id.
Runnable == {q \in Runs : /\ sched[q].sup = "waiting"
                          /\ ~sched[q].quar
                          /\ sched[q].since <= now}

Before(p, q) == \/ sched[p].since < sched[q].since
                \/ sched[p].since = sched[q].since /\ p < q

IsFirst(r) == r \in Runnable /\ \A q \in Runnable \ {r} : Before(r, q)

\* Faulty: off by one at the limit.
HasCapacityOffByOne == InUse <= capacity

HasCapacity == InUse < capacity
-----------------------------------------------------------------------------
(***************************************************************************)
(* AcquireHeavyPermit(r, o): its outcomes, in the order the code decides    *)
(* them.  Every caller's owner is the bound supervisor of the store handle, *)
(* so the authorizedSupervisorOwner refusals cannot occur.                  *)
(***************************************************************************)
SlotUnavailable(r) == Heavy(r) /\ ~OwnsSlot(r)

AlreadyHeld(r, o) == Heavy(r) /\ OwnsSlot(r) /\ permit[r].owner = o

NeedsReconciliation(r, o) ==
  /\ Heavy(r) /\ OwnsSlot(r)
  /\ permit[r].owner # o
  /\ Started(r)
  /\ ~LeaseLive(r)

Adoptable(r, o) ==
  /\ Heavy(r) /\ OwnsSlot(r)
  /\ permit[r].owner \notin {0, o}
  /\ ~LeaseLive(r)
  /\ ~Started(r)

Grantable(r) ==
  /\ Heavy(r) /\ OwnsSlot(r)
  /\ ~HasPermit(r)
  /\ ~Started(r)
  /\ HasCapacity
  /\ Runnable = {} \/ IsFirst(r)

NotHeld(r, o) ==
  ~ \/ SlotUnavailable(r)
    \/ AlreadyHeld(r, o)
    \/ NeedsReconciliation(r, o)
    \/ Adoptable(r, o)
    \/ Grantable(r)

AdoptPermit(r, o) ==
  /\ Adoptable(r, o)
  /\ permit[r].ver < MaxVersion
  /\ permit' = [permit EXCEPT ![r] = [owner |-> o, ver |-> @.ver + 1]]
  /\ UNCHANGED <<phase, attn, lease, attempt, slot, sched, capacity, now>>

GrantPermit(r, o) ==
  /\ Grantable(r)
  /\ \E v \in 1..MaxVersion :
        /\ IsNextVersion(v)
        /\ permit' = [permit EXCEPT ![r] = [owner |-> o, ver |-> v]]
  /\ sched' = [sched EXCEPT ![r] = IF @.quar THEN @ ELSE InState(@, "running")]
  /\ UNCHANGED <<phase, attn, lease, attempt, slot, capacity, now>>

\* The call returns held = TRUE, and permit'[r] is the permit it returns.
AcquireHeld(r, o) == \/ AlreadyHeld(r, o) /\ UNCHANGED storeVars
                     \/ AdoptPermit(r, o)
                     \/ GrantPermit(r, o)

(***************************************************************************)
(* ReleaseHeavyPermit: refused while a launched child may be alive; deletes *)
(* only the row with the caller's run, owner and version.                   *)
(***************************************************************************)
ReleaseReason == {"external_wait", "human_wait", "manual_intervention",
                  "retry_delay", "terminal", "shutdown_after_process_exit"}

ReleasedState(reason) ==
  IF reason \in {"human_wait", "manual_intervention"} THEN "human_wait"
  ELSE IF reason = "terminal" THEN "terminal" ELSE "external_wait"

\* Faulty: no check for a launched child.
ReleasesUnderChild(r, o, v) == v # 0 /\ permit[r] = [owner |-> o, ver |-> v]

Releases(r, o, v) == ~Started(r) /\ v # 0 /\ permit[r] = [owner |-> o, ver |-> v]

ReleasePermit(r, o, v, reason) ==
  /\ Releases(r, o, v)
  /\ permit' = [permit EXCEPT ![r] = NoPermit]
  /\ sched' = [sched EXCEPT ![r] = InState(@, ReleasedState(reason))]
  /\ UNCHANGED <<phase, attn, lease, attempt, slot, capacity, now>>

\* The call as its callers see it: an error or a lost row changes nothing.
ReleaseHeavyPermit(r, o, v, reason) ==
  \/ ReleasePermit(r, o, v, reason)
  \/ ~Releases(r, o, v) /\ UNCHANGED storeVars

(***************************************************************************)
(* CreateRun / ReserveLinearTodoAdmission: reserveSchedulingAuthoritiesTx   *)
(* commits the run with its slot, its first permit and its row, or nothing. *)
(***************************************************************************)
Reservable(r) ==
  /\ phase[r] = "absent"
  /\ ~ \E q \in Runs : BindingOf[q] = BindingOf[r] /\ Active(q) /\ sched[q].quar
  /\ slot[BindingOf[r]] = NoRun
  /\ HasCapacity
  /\ Runnable = {}

ReserveRun(r, o) ==
  /\ Reservable(r)
  /\ phase' = [phase EXCEPT ![r] = "heavy"]
  /\ slot' = [slot EXCEPT ![BindingOf[r]] = r]
  /\ \E v \in 1..MaxVersion :
        /\ IsNextVersion(v)
        /\ permit' = [permit EXCEPT ![r] = [owner |-> o, ver |-> v]]
  /\ sched' = [sched EXCEPT ![r] = [sup |-> "running", since |-> now, quar |-> FALSE]]
  /\ UNCHANGED <<attn, lease, attempt, capacity, now>>

(***************************************************************************)
(* A durable state change of run r to phase q, with the trigger             *)
(* release_terminal_scheduling_authority that fires on a terminal state.    *)
(***************************************************************************)
TerminalRow(r) ==
  sched' = [sched EXCEPT ![r] =
              IF @.sup = "none" THEN @ ELSE [sup |-> "terminal", since |-> @.since, quar |-> FALSE]]

\* Faulty triggers: one forgets the slot, one the permit, one clears the
\* repository's slot whoever holds it.
TerminalKeepsSlot(r) ==
  /\ permit' = [permit EXCEPT ![r] = NoPermit]
  /\ TerminalRow(r)
  /\ UNCHANGED slot
TerminalKeepsPermit(r) ==
  /\ slot' = [b \in Bindings |-> IF slot[b] = r THEN NoRun ELSE slot[b]]
  /\ TerminalRow(r)
  /\ UNCHANGED permit
TerminalClearsRepository(r) ==
  /\ permit' = [permit EXCEPT ![r] = NoPermit]
  /\ slot' = [slot EXCEPT ![BindingOf[r]] = NoRun]
  /\ TerminalRow(r)

ReleaseTerminalAuthority(r) ==
  /\ permit' = [permit EXCEPT ![r] = NoPermit]
  /\ slot' = [b \in Bindings |-> IF slot[b] = r THEN NoRun ELSE slot[b]]
  /\ TerminalRow(r)

SetPhase(r, q) ==
  /\ phase' = [phase EXCEPT ![r] = q]
  /\ attn' = [attn EXCEPT ![r] = FALSE]
  /\ \/ q = "terminal" /\ ReleaseTerminalAuthority(r)
     \/ q # "terminal" /\ UNCHANGED <<permit, slot, sched>>
  /\ UNCHANGED <<capacity, now>>

Transition(r, q) ==
  /\ Active(r) /\ q \in PhaseStep(phase[r])
  /\ SetPhase(r, q)
  /\ UNCHANGED <<lease, attempt>>
-----------------------------------------------------------------------------
(***************************************************************************)
(* ReconcileSchedulingAuthorities: one transaction over every run.          *)
(***************************************************************************)
Duplicate(r) == \E q \in Runs \ {r} : Active(q) /\ BindingOf[q] = BindingOf[r]

Settled(r) == Active(r) /\ ~Duplicate(r)

\* The slot after the terminal runs' rows are deleted.
LiveSlot(b) == IF slot[b] # NoRun /\ phase[slot[b]] = "terminal" THEN NoRun ELSE slot[b]

\* The two errors that roll the transaction back.
ReconcileConflict ==
  \E r \in Runs :
    /\ Settled(r)
    /\ \/ LiveSlot(BindingOf[r]) \notin {NoRun, r}
       \/ ~Heavy(r) /\ HasPermit(r) /\ Started(r)

ReconciledSince(r) == IF LeaseLive(r) THEN lease[r].exp ELSE sched[r].since

ReconciledState(r) ==
  IF Heavy(r)
    THEN IF HasPermit(r)                THEN "running"
         ELSE IF ReconciledSince(r) <= now THEN "waiting" ELSE "external_wait"
    ELSE IF phase[r] = "human" /\ attn[r] THEN "human_wait" ELSE "external_wait"

ReconciledRow(r) ==
  IF Settled(r)
    THEN [sup |-> ReconciledState(r), since |-> ReconciledSince(r), quar |-> FALSE]
    ELSE IF Active(r)
           THEN [sup |-> "quarantined", since |-> sched[r].since, quar |-> TRUE]
           ELSE sched[r]

ReconciledSlot(b) ==
  IF LiveSlot(b) = NoRun /\ \E r \in Runs : Settled(r) /\ BindingOf[r] = b
    THEN CHOOSE r \in Runs : Settled(r) /\ BindingOf[r] = b
    ELSE LiveSlot(b)

ReconciledPermit(r) ==
  IF phase[r] = "terminal" \/ (Settled(r) /\ ~Heavy(r)) THEN NoPermit ELSE permit[r]

ReconcileSchedulingAuthorities ==
  /\ ~ReconcileConflict
  /\ slot' = [b \in Bindings |-> ReconciledSlot(b)]
  /\ permit' = [r \in Runs |-> ReconciledPermit(r)]
  /\ sched' = [r \in Runs |-> ReconciledRow(r)]
  /\ UNCHANGED <<phase, attn, lease, attempt, capacity, now>>

ConfigureHeavyCapacity(c) ==
  /\ capacity' = c
  /\ UNCHANGED <<phase, attn, lease, attempt, slot, permit, sched, now>>

Deferrable(r) == sched[r].sup # "none" /\ ~sched[r].quar /\ Active(r)

DeferSchedulingRun(r, t) ==
  /\ Deferrable(r)
  /\ t >= now
  /\ sched' = [sched EXCEPT ![r] = [sup |-> "external_wait", since |-> t, quar |-> FALSE]]
  /\ UNCHANGED <<phase, attn, lease, attempt, slot, permit, capacity, now>>

AppendOperatorAttention(r) ==
  /\ phase[r] = "human"
  /\ attn' = [attn EXCEPT ![r] = TRUE]
  /\ UNCHANGED <<phase, lease, attempt, slot, permit, sched, capacity, now>>
-----------------------------------------------------------------------------
(***************************************************************************)
(* Run leases and attempts.  Lease owners are fresh random nonces, so the   *)
(* lease_owner=? disjunct of AcquireLease never helps a new caller.         *)
(***************************************************************************)
\* Faulty: takes a lease over without the expiry condition.
LeaseAlwaysFree(r) == lease[r].exp >= 0

LeaseFree(r) == lease[r].by = 0 \/ ~LeaseLive(r)

TakenLease(r, o) == [lease EXCEPT ![r] = [by |-> o, exp |-> now + LeaseTTL]]

AcquireLease(r, o) ==
  /\ LeaseFree(r)
  /\ lease' = TakenLease(r, o)
  /\ UNCHANGED <<phase, attn, attempt, slot, permit, sched, capacity, now>>

RenewLease(r, o) ==
  /\ lease[r].by = o /\ LeaseLive(r)
  /\ lease' = TakenLease(r, o)
  /\ UNCHANGED <<phase, attn, attempt, slot, permit, sched, capacity, now>>

ReleasedLease(r, o) ==
  IF lease[r].by = o THEN [lease EXCEPT ![r] = NoLease] ELSE lease

ReleaseLease(r, o) ==
  /\ lease' = ReleasedLease(r, o)
  /\ UNCHANGED <<phase, attn, attempt, slot, permit, sched, capacity, now>>

SetAttempt(r, from, to) ==
  /\ attempt[r] \in from
  /\ attempt' = [attempt EXCEPT ![r] = to]
  /\ UNCHANGED <<phase, attn, lease, slot, permit, sched, capacity, now>>

\* execute() fails a prepared attempt left by a restart before it begins one.
BeginAttempt(r) == Heavy(r) /\ SetAttempt(r, {"none", "prepared"}, "prepared")

CommitAttemptProcessLaunch(r) == SetAttempt(r, {"prepared"}, "started")

FinishAttempt(r) == SetAttempt(r, {"prepared", "started", "unproven"}, "none")

\* failAttempt without proof of group exit: the row keeps its started status.
FinishUnproven(r) == SetAttempt(r, {"started"}, "unproven")

Tick ==
  /\ now < MaxTime
  /\ now' = now + 1
  /\ UNCHANGED <<phase, attn, lease, attempt, slot, permit, sched, capacity>>
-----------------------------------------------------------------------------
StoreInit ==
  /\ phase \in [Runs -> {"absent", "heavy", "external", "human"}]
  /\ \A r \in Runs : r \in LegacyRuns <=> phase[r] # "absent"
  /\ attn = [r \in Runs |-> FALSE]
  /\ lease = [r \in Runs |-> NoLease]
  /\ attempt = [r \in Runs |-> "none"]
  /\ slot = [b \in Bindings |-> NoRun]
  /\ permit = [r \in Runs |-> NoPermit]
  /\ sched = [r \in Runs |-> NoRow]
  /\ capacity \in 1..MaxCapacity
  /\ now = 0

RunStep(r, o) ==
  \/ AdoptPermit(r, o)
  \/ GrantPermit(r, o)
  \/ ReserveRun(r, o)
  \/ AcquireLease(r, o)
  \/ RenewLease(r, o)
  \/ ReleaseLease(r, o)
  \/ \E reason \in ReleaseReason : ReleasePermit(r, o, permit[r].ver, reason)

RunRowStep(r) ==
  \/ \E q \in Phase \ {"absent"} : Transition(r, q)
  \/ \E t \in now..MaxTime : DeferSchedulingRun(r, t)
  \/ AppendOperatorAttention(r)
  \/ BeginAttempt(r)
  \/ CommitAttemptProcessLaunch(r)
  \/ FinishAttempt(r)
  \/ FinishUnproven(r)

StoreNext ==
  \/ \E r \in Runs, o \in Owners : RunStep(r, o)
  \/ \E r \in Runs : RunRowStep(r)
  \/ ReconcileSchedulingAuthorities
  \/ \E c \in 1..MaxCapacity : ConfigureHeavyCapacity(c)
  \/ Tick

StoreSpec == StoreInit /\ [][StoreNext]_storeVars
-----------------------------------------------------------------------------
(***************************************************************************)
(* What the store guarantees whatever its clients do.                       *)
(***************************************************************************)

\* A repository slot is held only by a nonterminal run of that repository
\* (the integrity scan of sqlite/integrity.go counts rows that break this).
SlotAuthority ==
  \A b \in Bindings :
    slot[b] # NoRun => Active(slot[b]) /\ BindingOf[slot[b]] = b

\* A heavy permit is held only under the repository's slot, so two runs of
\* one repository never hold permits together, through crashes, quarantine,
\* terminal triggers and reconciliation.
PermitUnderSlot == \A r \in Runs : HasPermit(r) => OwnsSlot(r)

\* Every nonterminal run admitted by this version owns its repository slot:
\* no reservation, reconciliation or sibling's terminal trigger takes it away.
ActiveOwnsSlot == \A r \in Runs \ LegacyRuns : Active(r) => OwnsSlot(r)

KeepsStartedPermits ==
  \A r \in Runs :
    HasPermit(r) /\ Started(r) /\ phase'[r] # "terminal" => permit'[r].owner # 0

\* A permit is never taken from a run whose launched child may be alive,
\* unless the run itself becomes terminal (ReleaseHeavyPermit and
\* ReconcileSchedulingAuthorities refuse; adoption only changes the owner).
StartedKeepsPermit == [][KeepsStartedPermits]_storeVars

GrantsInOrder ==
  \A r \in Runs : ~HasPermit(r) /\ permit'[r].owner # 0 =>
    /\ Cardinality({q \in Runs : permit'[q].owner # 0}) <= capacity'
    /\ \A q \in Runnable \ {r} : r \in Runnable /\ Before(r, q)

\* Lowering the capacity drains: whatever happened to the capacity before, a
\* step that adds a permit leaves no more permits than the capacity in force,
\* and no runnable waiting run is overtaken by the run that gets it.
GrantsWithinCapacity == [][GrantsInOrder]_storeVars
=============================================================================
